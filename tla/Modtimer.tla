------------------------------ MODULE Modtimer ------------------------------
(***************************************************************************)
(* Pr4/Modtimer/modtimer.c: a kernel timer puts a number in a circular     *)
(* buffer every period; when the buffer reaches the emergency threshold, a *)
(* work item moves its content to a linked list; readers of /proc/modtimer *)
(* sleep until the list has something and take it whole.  Three contexts   *)
(* interleave: the timer softirq, the kworker and the reading processes;   *)
(* anybody may change the threshold through /proc/modconfig at any time.   *)
(* Numbers are serial (modulo Serials), so that loss and reordering show.  *)
(* The threads that read share one open file.  A second open would add a   *)
(* pending timer, which the kernel answers with a BUG; an open that        *)
(* overlaps a release is left out too.                                     *)
(***************************************************************************)
EXTENDS Semaphores, FiniteSets

CONSTANTS Readers,          \* processes (or threads) reading /proc/modtimer
          MAX_ITEMS_CBUFFER,
          DEFAULT_EMERGENCY_THRESHOLD,
          Settings,         \* thresholds, in percent, written to /proc/modconfig
          Serials,          \* bound: numbers are taken modulo Serials
          MaxList,          \* bound: the timer pauses while the list is so long
          Grace,            \* bound: timer periods a scheduled work item may take
          MaxEvents         \* bound: signals delivered and thresholds written

ASSUME BufferAssumption ==
  /\ MAX_ITEMS_CBUFFER \in Nat \ {0}
  /\ DEFAULT_EMERGENCY_THRESHOLD \in 1..100 /\ Settings \subseteq Nat
  /\ Serials \in Nat \ {0} /\ MaxList \in Nat /\ Grace \in Nat
  /\ MaxEvents \in Nat
  /\ IsFiniteSet(Readers)

VARIABLES version,   \* which of the two drivers is loaded
          timer,     \* "off", "pending" or "running" (fire_timer past its insert)
          cbuf,      \* the numbers in the circular buffer, oldest first
          work,      \* whether the work item is pending
          worker,    \* the kworker: "idle", "drain", "lock", "add"
          aux,       \* aux_buffer[0..count-1]
          mylist,    \* the linked list, oldest first
          list_mtx, sem_list, waiting,
          pc,        \* where each reader is
          opened,    \* whether /proc/modtimer is open
          closing,   \* the release() in progress: "no", "flush", "clear"
          emergency_threshold,
          settled,   \* history: it has stood since the buffer was last empty
          next, late, signals, configs

vars == <<version, timer, cbuf, work, worker, aux, mylist, list_mtx, sem_list,
          waiting, pc, opened, closing, emergency_threshold, settled, next,
          late, signals, configs>>

readerVars == <<pc, waiting, sem_list>>
configVars == <<version, emergency_threshold, configs>>
fileVars   == <<opened, closing, configVars>>

PCs == {"idle", "lock", "test", "presleep", "asleep", "relock", "undo", "undocs"}

\* The emergency threshold, as a number of items.
ItemsToServe == (emergency_threshold * MAX_ITEMS_CBUFFER) \div 100

Init ==
  /\ version \in {"modtimer", "Javi"}
  /\ timer = "off" /\ cbuf = <<>>
  /\ work = FALSE /\ worker = "idle" /\ aux = <<>>
  /\ mylist = <<>> /\ list_mtx = 1 /\ sem_list = NewSem(0) /\ waiting = 0
  /\ pc = [r \in Readers |-> "idle"]
  /\ opened = FALSE /\ closing = "no"
  /\ emergency_threshold = DEFAULT_EMERGENCY_THRESHOLD /\ settled = TRUE
  /\ next = 0 /\ late = 0 /\ signals = 0 /\ configs = 0
-----------------------------------------------------------------------------
(* The timer softirq.                                                      *)

\* fire_timer up to the release of cbuff_sp.  insert_cbuffer_t overwrites
\* the oldest number of a full buffer.
Fire ==
  /\ timer = "pending"
  /\ Len(mylist) < MaxList
  /\ IF work \/ worker = "drain" THEN late < Grace /\ late' = late + 1
                                 ELSE UNCHANGED late
  /\ timer' = "running"
  /\ cbuf' = Append(IF Len(cbuf) = MAX_ITEMS_CBUFFER THEN Tail(cbuf) ELSE cbuf,
                    next)
  /\ next' = (next + 1) % Serials
  /\ UNCHANGED <<settled, work, worker, aux, mylist, list_mtx, readerVars, fileVars, signals>>

\* (bug) > for = in the comparison with the threshold
RecheckLate ==
  /\ timer = "running"
  /\ IF ~work /\ Len(cbuf) > ItemsToServe
     THEN work' = TRUE
     ELSE UNCHANGED work
  /\ timer' = "pending"
  /\ UNCHANGED <<settled, cbuf, worker, aux, mylist, list_mtx, readerVars, fileVars, next, late, signals>>

\* The rest of fire_timer: schedule_work_on if the size is exactly the
\* threshold, read without the lock; then mod_timer.
Recheck ==
  /\ timer = "running"
  /\ IF ~work /\ Len(cbuf) = ItemsToServe
     THEN work' = TRUE
     ELSE UNCHANGED work
  /\ timer' = "pending"
  /\ UNCHANGED <<settled, cbuf, worker, aux, mylist, list_mtx, readerVars, fileVars, next, late, signals>>
-----------------------------------------------------------------------------
(* The kworker runs one instance of the work item at a time.               *)

StartWork ==
  /\ work /\ worker = "idle"
  /\ work' = FALSE /\ worker' = "drain" /\ aux' = <<>>
  /\ UNCHANGED <<settled, timer, cbuf, mylist, list_mtx, readerVars, fileVars, next, late, signals>>

\* (bug) copy_items_into_list_func with if for while
DrainOne ==
  /\ worker = "drain"
  /\ IF cbuf # <<>>
     THEN /\ aux' = Append(aux, Head(cbuf))
          /\ cbuf' = Tail(cbuf)
     ELSE UNCHANGED <<aux, cbuf>>
  /\ worker' = "lock" /\ late' = 0
  /\ UNCHANGED <<settled, timer, work, mylist, list_mtx, readerVars, fileVars, next, signals>>

\* One turn of the while loop of copy_items_into_list_func, or its end.
Drain ==
  /\ worker = "drain"
  /\ IF cbuf # <<>>
     THEN /\ aux' = Append(aux, Head(cbuf))
          /\ cbuf' = Tail(cbuf)
          /\ UNCHANGED <<worker, late, settled>>
     ELSE worker' = "lock" /\ late' = 0 /\ settled' = TRUE /\ UNCHANGED <<aux, cbuf>>
  /\ UNCHANGED <<timer, work, mylist, list_mtx, readerVars, fileVars, next, signals>>

WorkerLock ==
  /\ worker = "lock" /\ list_mtx = 1
  /\ list_mtx' = 0 /\ worker' = "add"
  /\ UNCHANGED <<settled, timer, cbuf, work, aux, mylist, readerVars, fileVars, next, late, signals>>

\* (bug) list_add for list_add_tail
ListAddInFront ==
  /\ worker = "add"
  /\ mylist' = aux \o mylist
  /\ list_mtx' = 1 /\ worker' = "idle" /\ aux' = <<>>
  /\ UNCHANGED <<settled, timer, cbuf, work, readerVars, fileVars, next, late, signals>>

\* (bug) the up() of sem_list forgotten
ListAddSilently ==
  /\ worker = "add"
  /\ mylist' = mylist \o aux
  /\ list_mtx' = 1 /\ worker' = "idle" /\ aux' = <<>>
  /\ UNCHANGED <<settled, timer, cbuf, work, readerVars, fileVars, next, late, signals>>

\* my_list_add: append the batch, wake one reader, release list_mtx.
ListAdd ==
  LET wake == mylist \o aux # <<>> /\ waiting > 0 IN
  /\ worker = "add"
  /\ mylist' = mylist \o aux
  /\ IF wake
     THEN /\ sem_list' = Up(sem_list)
          /\ waiting' = waiting - 1
          /\ pc' = [r \in Readers |-> IF r \in Woken(sem_list) THEN "relock" ELSE pc[r]]
     ELSE UNCHANGED readerVars
  /\ list_mtx' = 1 /\ worker' = "idle" /\ aux' = <<>>
  /\ UNCHANGED <<settled, timer, cbuf, work, fileVars, next, late, signals>>
-----------------------------------------------------------------------------
(* Readers, and the life of the file.                                      *)

Goto(r, where) == pc' = [pc EXCEPT ![r] = where]
timerVars == <<timer, cbuf, work, worker, aux, next, late, settled>>

BeginRead(r) ==
  /\ pc[r] = "idle" /\ opened
  /\ Goto(r, "lock")
  /\ UNCHANGED <<timerVars, mylist, list_mtx, sem_list, waiting, fileVars, signals>>

\* (bug) down(&list_mtx) that does not wait
LockWithoutWaiting(r) ==
  /\ pc[r] \in {"lock", "relock", "undo"}
  /\ list_mtx' = list_mtx - 1
  /\ Goto(r, IF pc[r] = "undo" THEN "undocs" ELSE "test")
  /\ UNCHANGED <<timerVars, mylist, sem_list, waiting, fileVars, signals>>

Lock(r) ==
  /\ pc[r] \in {"lock", "relock", "undo"} /\ list_mtx = 1
  /\ list_mtx' = 0
  /\ Goto(r, IF pc[r] = "undo" THEN "undocs" ELSE "test")
  /\ UNCHANGED <<timerVars, mylist, sem_list, waiting, fileVars, signals>>

LockInterrupted(r) ==
  /\ pc[r] \in {"lock", "relock"} /\ list_mtx = 0
  /\ signals + configs < MaxEvents /\ signals' = signals + 1
  /\ Goto(r, "idle")
  /\ UNCHANGED <<timerVars, mylist, list_mtx, sem_list, waiting, fileVars>>

Wait(r) ==
  /\ pc[r] = "test" /\ mylist = <<>>
  /\ waiting' = waiting + 1 /\ list_mtx' = 1
  /\ Goto(r, "presleep")
  /\ UNCHANGED <<timerVars, mylist, sem_list, fileVars, signals>>

Sleep(r) ==
  /\ pc[r] = "presleep"
  /\ IF sem_list.count > 0
     THEN sem_list' = Take(sem_list) /\ Goto(r, "relock")
     ELSE sem_list' = Enqueue(sem_list, r) /\ Goto(r, "asleep")
  /\ UNCHANGED <<timerVars, mylist, list_mtx, waiting, fileVars, signals>>

SleepInterrupted(r) == \E i \in 1..Len(sem_list.queue) :
  /\ pc[r] = "asleep" /\ sem_list.queue[i] = r
  /\ signals + configs < MaxEvents /\ signals' = signals + 1
  /\ sem_list' = Dequeue(sem_list, i)
  /\ Goto(r, "undo")
  /\ UNCHANGED <<timerVars, mylist, list_mtx, waiting, fileVars>>

Undo(r) ==
  /\ pc[r] = "undocs"
  /\ waiting' = waiting - 1 /\ list_mtx' = 1
  /\ Goto(r, "idle")
  /\ UNCHANGED <<timerVars, mylist, sem_list, fileVars, signals>>

\* Print and free every node: read() takes the whole list.
TakeList(r) ==
  /\ pc[r] = "test" /\ mylist # <<>>
  /\ mylist' = <<>> /\ list_mtx' = 1
  /\ Goto(r, "idle")
  /\ UNCHANGED <<timerVars, sem_list, waiting, fileVars, signals>>

\* modtimer_open refuses while a reader waits, "to avoid segfault".
Open ==
  /\ version = "modtimer"
  /\ ~opened /\ closing = "no"
  /\ waiting = 0
  /\ opened' = TRUE
  /\ timer' = "pending"
  /\ UNCHANGED <<cbuf, work, worker, aux, mylist, list_mtx, readerVars, closing,
                 configVars, settled, next, late, signals>>

\* release(), called when no reader is inside the driver: del_timer_sync
\* waits for a running fire_timer.
StopTimer ==
  /\ opened /\ timer # "running"
  /\ \A r \in Readers : pc[r] = "idle"
  /\ timer' = "off"
  /\ opened' = FALSE /\ closing' = "flush"
  /\ UNCHANGED <<cbuf, work, worker, aux, mylist, list_mtx, readerVars, configVars,
                 settled, next, late, signals>>

\* flush_scheduled_work waits for the work item; then clear_cbuffer_t.
Flush ==
  /\ closing = "flush" /\ ~work /\ worker = "idle"
  /\ cbuf' = <<>> /\ settled' = TRUE
  /\ closing' = "clear"
  /\ UNCHANGED <<timer, work, worker, aux, mylist, list_mtx, readerVars, opened,
                 configVars, next, late, signals>>

\* list_cleanup.  By now nobody holds list_mtx.
Cleanup ==
  /\ closing = "clear" /\ list_mtx = 1
  /\ mylist' = <<>>
  /\ closing' = "no"
  /\ UNCHANGED <<timerVars, list_mtx, readerVars, opened, configVars, signals>>

\* The new threshold counts from the next comparison on.
SetThreshold(percent) ==
  /\ signals + configs < MaxEvents /\ configs' = configs + 1
  /\ emergency_threshold' = percent
  /\ settled' = (settled /\ cbuf = <<>> /\ timer # "running" /\ worker # "drain")
  /\ UNCHANGED <<version, timer, cbuf, work, worker, aux, mylist, list_mtx,
                 readerVars, opened, closing, next, late, signals>>

\* modtimer_config_write takes any number.
ConfigWrite == version = "modtimer" /\ \E percent \in Settings : SetThreshold(percent)

Release == StopTimer \/ Flush \/ Cleanup
Kernel  == Fire \/ Recheck \/ StartWork \/ Drain \/ WorkerLock \/ ListAdd
Reader(r) == \/ Lock(r) \/ Wait(r) \/ Sleep(r) \/ Undo(r) \/ TakeList(r)

Next ==
  \/ Kernel
  \/ Open \/ Release \/ ConfigWrite
  \/ \E r \in Readers : BeginRead(r) \/ Reader(r) \/ LockInterrupted(r)
                          \/ SleepInterrupted(r)

Spec == Init /\ [][Next]_vars

(* The timer keeps firing, the kworker runs, list_mtx is FIFO (strong       *)
(* fairness of whoever waits for it) and readers inside read() run.         *)
Fairness ==
  /\ WF_vars(Fire) /\ WF_vars(Recheck) /\ WF_vars(StartWork) /\ WF_vars(Drain)
  /\ SF_vars(WorkerLock) /\ WF_vars(ListAdd)
  /\ \A r \in Readers : SF_vars(Lock(r)) /\ WF_vars(Reader(r))

FairSpec == Spec /\ Fairness
-----------------------------------------------------------------------------
TypeOK ==
  /\ version \in {"modtimer", "Javi"}
  /\ timer \in {"off", "pending", "running"}
  /\ cbuf \in Seq(0 .. Serials - 1) /\ Len(cbuf) <= MAX_ITEMS_CBUFFER
  /\ work \in BOOLEAN /\ worker \in {"idle", "drain", "lock", "add"}
  /\ aux \in Seq(0 .. Serials - 1)
  /\ mylist \in Seq(0 .. Serials - 1)
  /\ list_mtx \in {0, 1}
  /\ sem_list \in [count : Nat, queue : Seq(Readers)]
  /\ waiting \in Int
  /\ pc \in [Readers -> PCs]
  /\ opened \in BOOLEAN /\ closing \in {"no", "flush", "clear"}
  /\ emergency_threshold \in Nat /\ settled \in BOOLEAN
  /\ next \in 0 .. Serials - 1 /\ late \in 0..Grace
  /\ signals \in 0..MaxEvents /\ configs \in 0..MaxEvents

\* The threshold is met, and leaves room for the numbers of Grace periods.
Roomy == ItemsToServe > 0 /\ ItemsToServe + Grace <= MAX_ITEMS_CBUFFER

Numbers == mylist \o aux \o cbuf

\* Buffer, work item and list together are one queue: as long as the work
\* item is served within its grace, a step adds the new number at the end,
\* takes the whole list from the front, or moves numbers without losing or
\* reordering any; only the release of the file drops what the buffer has.
\* This breaks, for a while, when a new threshold is written meanwhile.
NothingLostOrReordered ==
  [][settled /\ Roomy =>
       \/ Numbers' \in {Numbers, Append(Numbers, next), aux \o cbuf}
       \/ closing = "flush" /\ Numbers' = mylist]_vars

\* aux_buffer has MAX_ITEMS_CBUFFER cells, but the loop that fills it runs
\* until the buffer is empty, while the timer keeps inserting.
AuxFits == settled /\ Roomy /\ worker = "drain" => Len(aux) <= MAX_ITEMS_CBUFFER

\* The exact comparison with the threshold never misses it: a buffer at or
\* above the threshold is always about to be, or being, emptied, unless the
\* threshold was moved under the items stored (or rounds to none).
FullMeansServed ==
  settled /\ ItemsToServe > 0 /\ timer = "pending" /\ Len(cbuf) >= ItemsToServe
    => work \/ worker = "drain"

\* While a reader sleeps, reads go on returning numbers: sooner or later some
\* reader finds the list filled, unless the sleeper is interrupted or the
\* threshold is one the buffer cannot meet.  It need not be the same reader: a
\* batch wakes one, and whoever has list_mtx first takes all of it.
Meetable == settled /\ ItemsToServe \in 1..MAX_ITEMS_CBUFFER
Served   == mylist # <<>> /\ \E r \in Readers : pc[r] = "test"
SomeReaderServed ==
  \A r \in Readers : pc[r] = "asleep" /\ Meetable ~> Served \/ pc[r] = "idle" \/ ~Meetable
=============================================================================
