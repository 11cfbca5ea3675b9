------------------------------ MODULE Fifoproc ------------------------------
(***************************************************************************)
(* The FIFO of Pr3/ParteB/fifoproc.c: /proc/modfifo, a circular buffer     *)
(* behind a monitor made of three semaphores.  mtx gives mutual exclusion; *)
(* sem_prod and sem_cons, initially 0, serve as the queues of two          *)
(* condition variables, with nr_prod_waiting and nr_cons_waiting counting  *)
(* the processes an up() may be owed to.                                   *)
(*                                                                         *)
(* The two sides of the code are mirror images, so the pairs prod_X and    *)
(* cons_X are functions of the side "prod" or "cons".  The lines a process *)
(* runs between taking and releasing mtx are one action; every point where *)
(* another process or a signal can step in is a value of pc.               *)
(***************************************************************************)
EXTENDS FifoCalls, Semaphores

CONSTANTS MaxOpens,             \* bound: open()s a process may make
          MaxSignals            \* bound: signals delivered in a behaviour

ASSUME BoundsAssumption == MaxOpens \in Nat /\ MaxSignals \in Nat

VARIABLES mtx,         \* counter of the semaphore mtx: 1 free, 0 taken
          count,       \* prod_count and cons_count
          nr_waiting,  \* nr_prod_waiting and nr_cons_waiting
          sem,         \* sem_prod and sem_cons
          cbuffer,     \* the bytes in the circular buffer, oldest first
          pc,          \* where each process is in its handler
          call,        \* the system call it is executing
          res,         \* the result of its last call
          fd,          \* whether it holds the file open
          opens, signals

vars == <<mtx, count, nr_waiting, sem, cbuffer, pc, call, res, fd, opens, signals>>

Sides == {"prod", "cons"}
Side(p)  == IF p \in Producers THEN "prod" ELSE "cons"
Other(s) == IF s = "prod" THEN "cons" ELSE "prod"

(* "lock", "relock" and "undo" wait for mtx; "cs", "test" and "undocs"     *)
(* hold it; "presleep" has released mtx but not reached the semaphore yet. *)
PCs == {"idle", "lock", "cs", "test", "presleep", "asleep", "relock",
        "undo", "undocs"}
Holding == {"cs", "test", "undocs"}

Size == Len(cbuffer)
Gaps == MAX_ITEMS_CBUF - Size

\* (bug) write() tests for a full buffer, not for room for the whole message
MustWaitFull(p) ==
  \/ call[p].op = "open"  /\ count[Other(Side(p))] = 0
  \/ call[p].op = "read"  /\ Size < call[p].len /\ count["prod"] > 0
  \/ call[p].op = "write" /\ Gaps = 0 /\ count["cons"] > 0

\* The condition of the while loop that open, read or write sleeps in.
MustWait(p) ==
  \/ call[p].op = "open"  /\ count[Other(Side(p))] = 0
  \/ call[p].op = "read"  /\ Size < call[p].len /\ count["prod"] > 0
  \/ call[p].op = "write" /\ Gaps < call[p].len /\ count["cons"] > 0

\* The bytes insert_items_cbuffer_t leaves in the buffer (see CBuffer).
Inserted(items) ==
  LET all == cbuffer \o items
      n   == Len(all)
  IN  IF n <= MAX_ITEMS_CBUF THEN all ELSE SubSeq(all, n - MAX_ITEMS_CBUF + 1, n)
-----------------------------------------------------------------------------
Init ==
  /\ mtx = 1
  /\ count = [s \in Sides |-> 0]
  /\ nr_waiting = [s \in Sides |-> 0]
  /\ sem = [s \in Sides |-> NewSem(0)]
  /\ cbuffer = <<>>
  /\ pc = [p \in Procs |-> "idle"]
  /\ call = [p \in Procs |-> NoCall]
  /\ res = [p \in Procs |-> NoResult]
  /\ fd = [p \in Procs |-> FALSE]
  /\ opens = [p \in Procs |-> 0]
  /\ signals = 0

\* The call of p ends with result r.
Return(p, r) ==
  /\ call' = [call EXCEPT ![p] = NoCall]
  /\ res' = [res EXCEPT ![p] = r]

\* (bug) the wake-up takes the counter for 1-based
WakeIfMany(s, p, next) ==
  LET woken == IF nr_waiting[s] > 1 THEN Woken(sem[s]) ELSE {}
  IN  /\ IF nr_waiting[s] > 1
         THEN /\ sem' = [sem EXCEPT ![s] = Up(@)]
              /\ nr_waiting' = [nr_waiting EXCEPT ![s] = @ - 1]
         ELSE UNCHANGED <<sem, nr_waiting>>
      /\ pc' = [q \in Procs |-> IF q \in woken THEN "relock"
                             ELSE IF q = p THEN next ELSE pc[q]]

\* (bug) the wake-up clears the counter, as a broadcast would
WakeForgetsRest(s, p, next) ==
  LET woken == IF nr_waiting[s] > 0 THEN Woken(sem[s]) ELSE {}
  IN  /\ IF nr_waiting[s] > 0
         THEN /\ sem' = [sem EXCEPT ![s] = Up(@)]
              /\ nr_waiting' = [nr_waiting EXCEPT ![s] = 0]
         ELSE UNCHANGED <<sem, nr_waiting>>
      /\ pc' = [q \in Procs |-> IF q \in woken THEN "relock"
                             ELSE IF q = p THEN next ELSE pc[q]]

\* "Despierta a uno de los hilos bloqueados": up(&sem_s); nr_s_waiting--,
\* if somebody is counted as waiting; p itself goes on at next.
Wake(s, p, next) ==
  LET woken == IF nr_waiting[s] > 0 THEN Woken(sem[s]) ELSE {}
  IN  /\ IF nr_waiting[s] > 0
         THEN /\ sem' = [sem EXCEPT ![s] = Up(@)]
              /\ nr_waiting' = [nr_waiting EXCEPT ![s] = @ - 1]
         ELSE UNCHANGED <<sem, nr_waiting>>
      /\ pc' = [q \in Procs |-> IF q \in woken THEN "relock"
                             ELSE IF q = p THEN next ELSE pc[q]]

Goto(p, next) == pc' = [pc EXCEPT ![p] = next]
-----------------------------------------------------------------------------
(* Entering a handler.  A process may open what it has not open, and read, *)
(* write or release what it has.                                           *)
Allowed(p, c) ==
  IF c.op = "open" THEN ~fd[p] /\ opens[p] < MaxOpens ELSE fd[p]

Enter(p) == \E c \in Calls(p) :
  /\ pc[p] = "idle" /\ Allowed(p, c)
  /\ c.len <= MAX_ITEMS_CBUF
  /\ call' = [call EXCEPT ![p] = c]
  /\ res' = [res EXCEPT ![p] = NoResult]
  /\ opens' = [opens EXCEPT ![p] = IF c.op = "open" THEN @ + 1 ELSE @]
  /\ Goto(p, "lock")
  /\ UNCHANGED <<mtx, count, nr_waiting, sem, cbuffer, fd, signals>>

\* if (len > MAX_ITEMS_CBUF || len > MAX_KBUF) return -ENOSPC;
Reject(p) == \E c \in Calls(p) :
  /\ pc[p] = "idle" /\ Allowed(p, c)
  /\ c.len > MAX_ITEMS_CBUF
  /\ Return(p, Result("ENOSPC", <<>>))
  /\ UNCHANGED <<mtx, count, nr_waiting, sem, cbuffer, pc, fd, opens, signals>>

\* (bug) down(&mtx) that does not wait
LockWithoutWaiting(p) ==
  /\ pc[p] \in {"lock", "relock", "undo"}
  /\ mtx' = mtx - 1
  /\ Goto(p, CASE pc[p] = "undo" -> "undocs"
               [] pc[p] = "lock" /\ call[p].op \in {"open", "release"} -> "cs"
               [] OTHER -> "test")
  /\ UNCHANGED <<count, nr_waiting, sem, cbuffer, call, res, fd, opens, signals>>

\* down_interruptible(&mtx), or down(&mtx) on the way out, finds it free or
\* is handed it by the holder's up().
Lock(p) ==
  /\ pc[p] \in {"lock", "relock", "undo"} /\ mtx = 1
  /\ mtx' = 0
  /\ Goto(p, CASE pc[p] = "undo" -> "undocs"
               [] pc[p] = "lock" /\ call[p].op \in {"open", "release"} -> "cs"
               [] OTHER -> "test")
  /\ UNCHANGED <<count, nr_waiting, sem, cbuffer, call, res, fd, opens, signals>>

\* A signal reaches a process that sleeps on mtx: "return -EINTR", whatever
\* it did before.  The file of an interrupted release() is gone all the same.
LockInterrupted(p) ==
  /\ pc[p] \in {"lock", "relock"} /\ mtx = 0
  /\ signals < MaxSignals /\ signals' = signals + 1
  /\ Return(p, Result("EINTR", <<>>))
  /\ fd' = [fd EXCEPT ![p] = @ /\ call[p].op # "release"]
  /\ Goto(p, "idle")
  /\ UNCHANGED <<mtx, count, nr_waiting, sem, cbuffer, opens>>

\* open(): count the newcomer and wake one process of the other side.
Join(p) ==
  /\ pc[p] = "cs" /\ call[p].op = "open"
  /\ count' = [count EXCEPT ![Side(p)] = @ + 1]
  /\ Wake(Other(Side(p)), p, "test")
  /\ UNCHANGED <<mtx, cbuffer, call, res, fd, opens, signals>>

\* The while loop's body up to the release of mtx: nr_waiting++; up(&mtx).
Wait(p) ==
  /\ pc[p] = "test" /\ MustWait(p)
  /\ nr_waiting' = [nr_waiting EXCEPT ![Side(p)] = @ + 1]
  /\ mtx' = 1
  /\ Goto(p, "presleep")
  /\ UNCHANGED <<count, sem, cbuffer, call, res, fd, opens, signals>>

\* down_interruptible(&sem_X): take a unit left by an up() that came first,
\* or join the sleepers.
Sleep(p) ==
  LET s == Side(p) IN
  /\ pc[p] = "presleep"
  /\ IF sem[s].count > 0
     THEN sem' = [sem EXCEPT ![s] = Take(@)] /\ Goto(p, "relock")
     ELSE sem' = [sem EXCEPT ![s] = Enqueue(@, p)] /\ Goto(p, "asleep")
  /\ UNCHANGED <<mtx, count, nr_waiting, cbuffer, call, res, fd, opens, signals>>

\* A signal reaches a sleeper before any up(): it leaves the queue and
\* must take mtx to take back its nr_waiting.
SleepInterrupted(p) ==
  LET s == Side(p) IN
  /\ signals < MaxSignals /\ signals' = signals + 1
  /\ pc[p] = "asleep"
  /\ \E i \in 1..Len(sem[s].queue) :
       /\ sem[s].queue[i] = p
       /\ sem' = [sem EXCEPT ![s] = Dequeue(@, i)]
  /\ Goto(p, "undo")
  /\ UNCHANGED <<mtx, count, nr_waiting, cbuffer, call, res, fd, opens>>

\* (bug) the interrupted path forgets up(&mtx)
UndoKeepsMutex(p) ==
  /\ pc[p] = "undocs"
  /\ nr_waiting' = [nr_waiting EXCEPT ![Side(p)] = @ - 1]
  /\ Return(p, Result("EINTR", <<>>))
  /\ Goto(p, "idle")
  /\ UNCHANGED <<mtx, count, sem, cbuffer, fd, opens, signals>>

\* (bug) the interrupted path forgets nr_waiting--
UndoKeepsWaiting(p) ==
  /\ pc[p] = "undocs"
  /\ mtx' = 1
  /\ Return(p, Result("EINTR", <<>>))
  /\ Goto(p, "idle")
  /\ UNCHANGED <<count, nr_waiting, sem, cbuffer, fd, opens, signals>>

\* (bug) the count taken back in every handler, not only in open()
UndoUncounts(p) ==
  /\ pc[p] = "undocs"
  /\ nr_waiting' = [nr_waiting EXCEPT ![Side(p)] = @ - 1]
  /\ count' = [count EXCEPT ![Side(p)] = @ - 1]
  /\ mtx' = 1
  /\ Return(p, Result("EINTR", <<>>))
  /\ Goto(p, "idle")
  /\ UNCHANGED <<sem, cbuffer, fd, opens, signals>>

\* nr_waiting--; up(&mtx); return -EINTR.  An open() that leaves this way
\* stays in prod_count or cons_count.
Undo(p) ==
  /\ pc[p] = "undocs"
  /\ nr_waiting' = [nr_waiting EXCEPT ![Side(p)] = @ - 1]
  /\ mtx' = 1
  /\ Return(p, Result("EINTR", <<>>))
  /\ Goto(p, "idle")
  /\ UNCHANGED <<count, sem, cbuffer, fd, opens, signals>>

OpenDone(p) ==
  /\ pc[p] = "test" /\ call[p].op = "open" /\ ~MustWait(p)
  /\ mtx' = 1
  /\ fd' = [fd EXCEPT ![p] = TRUE]
  /\ Return(p, Result("OK", <<>>))
  /\ Goto(p, "idle")
  /\ UNCHANGED <<count, nr_waiting, sem, cbuffer, opens, signals>>

\* read() past its loop with nothing left and nobody writing.
ReadEOF(p) ==
  /\ pc[p] = "test" /\ call[p].op = "read" /\ ~MustWait(p)
  /\ count["prod"] = 0 /\ cbuffer = <<>>
  /\ mtx' = 1
  /\ Return(p, Result("EOF", <<>>))
  /\ Goto(p, "idle")
  /\ UNCHANGED <<count, nr_waiting, sem, cbuffer, fd, opens, signals>>

\* remove_items, which does nothing when len > size, then a wake-up.  The
\* zeroed kbuffer is what the reader gets in that case.
Read(p) ==
  LET n == call[p].len IN
  /\ pc[p] = "test" /\ call[p].op = "read" /\ ~MustWait(p)
  /\ ~ (count["prod"] = 0 /\ cbuffer = <<>>)
  /\ IF n > Size
     THEN /\ Return(p, Result("OK", [i \in 1..n |-> Nul]))
          /\ UNCHANGED cbuffer
     ELSE /\ Return(p, Result("OK", SubSeq(cbuffer, 1, n)))
          /\ cbuffer' = SubSeq(cbuffer, n + 1, Size)
  /\ Wake("prod", p, "idle")
  /\ mtx' = 1
  /\ UNCHANGED <<count, fd, opens, signals>>

WriteEPIPE(p) ==
  /\ pc[p] = "test" /\ call[p].op = "write" /\ ~MustWait(p)
  /\ count["cons"] = 0
  /\ mtx' = 1
  /\ Return(p, Result("EPIPE", <<>>))
  /\ Goto(p, "idle")
  /\ UNCHANGED <<count, nr_waiting, sem, cbuffer, fd, opens, signals>>

Write(p) ==
  /\ pc[p] = "test" /\ call[p].op = "write" /\ ~MustWait(p)
  /\ count["cons"] # 0
  /\ cbuffer' = Inserted(call[p].data)
  /\ Wake("cons", p, "idle")
  /\ mtx' = 1
  /\ Return(p, Result("OK", <<>>))
  /\ UNCHANGED <<count, fd, opens, signals>>

\* (bug) the last writer or reader leaves without waking the other side
ReleaseSilently(p) ==
  /\ pc[p] = "cs" /\ call[p].op = "release"
  /\ count' = [count EXCEPT ![Side(p)] = @ - 1]
  /\ cbuffer' = IF \A s \in Sides : count'[s] = 0 THEN <<>> ELSE cbuffer
  /\ mtx' = 1
  /\ fd' = [fd EXCEPT ![p] = FALSE]
  /\ Return(p, Result("OK", <<>>))
  /\ Goto(p, "idle")
  /\ UNCHANGED <<nr_waiting, sem, opens, signals>>

\* (bug) the buffer emptied when one side is gone
ReleaseClearsEarly(p) ==
  /\ pc[p] = "cs" /\ call[p].op = "release"
  /\ count' = [count EXCEPT ![Side(p)] = @ - 1]
  /\ Wake(Other(Side(p)), p, "idle")
  /\ cbuffer' = IF \E s \in Sides : count'[s] = 0 THEN <<>> ELSE cbuffer
  /\ mtx' = 1
  /\ fd' = [fd EXCEPT ![p] = FALSE]
  /\ Return(p, Result("OK", <<>>))
  /\ UNCHANGED <<opens, signals>>

\* release(): uncount, wake one of the other side, and empty the buffer
\* when nobody is counted any more.
Release(p) ==
  /\ pc[p] = "cs" /\ call[p].op = "release"
  /\ count' = [count EXCEPT ![Side(p)] = @ - 1]
  /\ Wake(Other(Side(p)), p, "idle")
  /\ cbuffer' = IF \A s \in Sides : count'[s] = 0 THEN <<>> ELSE cbuffer
  /\ mtx' = 1
  /\ fd' = [fd EXCEPT ![p] = FALSE]
  /\ Return(p, Result("OK", <<>>))
  /\ UNCHANGED <<opens, signals>>

Step(p) == \* what a process inside a handler does next
  \/ Lock(p) \/ Join(p) \/ Wait(p) \/ Sleep(p) \/ Undo(p) \/ OpenDone(p)
  \/ ReadEOF(p) \/ Read(p) \/ WriteEPIPE(p) \/ Write(p) \/ Release(p)

Signal(p) == LockInterrupted(p) \/ SleepInterrupted(p)

Next == \E p \in Procs : Enter(p) \/ Reject(p) \/ Step(p) \/ Signal(p)

Spec == Init /\ [][Next]_vars

(* The list of waiters of mtx is FIFO, so nobody waits for it for ever      *)
(* (strong fairness); a process inside a handler keeps running (weak); and *)
(* a process does not keep the FIFO open for ever without using it: when   *)
(* it exits, the kernel closes its files.                                  *)
Close(p) == Enter(p) /\ call'[p].op = "release"
Fairness == \A p \in Procs :
  SF_vars(Lock(p)) /\ WF_vars(Step(p)) /\ WF_vars(Close(p))
FairSpec == Spec /\ Fairness

-----------------------------------------------------------------------------
At(ps, pcs) == {p \in ps : pc[p] \in pcs}
Members(s)  == IF s = "prod" THEN Producers ELSE Consumers

\* Has the FIFO open, or is past the point of open() that counts it.
Attached(p) ==
  fd[p] \/ (call[p].op = "open" /\ pc[p] \notin {"lock", "cs"})

\* Type correctness.  A signal that meets an up() can leave nr_waiting at -1.
TypeOK ==
  /\ mtx \in {0, 1}
  /\ count \in [Sides -> Int]
  /\ nr_waiting \in [Sides -> Int]
  /\ sem \in [Sides -> [count : Nat, queue : Seq(Procs)]]
  /\ cbuffer \in Seq(Byte) /\ Size <= MAX_ITEMS_CBUF
  /\ pc \in [Procs -> PCs]
  /\ call \in [Procs -> [op : OpNames, data : Seq(Byte), len : Nat]]
  /\ res \in [Procs -> [code : Codes, data : Seq(Byte)]]
  /\ fd \in [Procs -> BOOLEAN]
  /\ opens \in [Procs -> 0..MaxOpens]
  /\ signals \in 0..MaxSignals

\* mtx keeps the handlers apart: it is taken exactly when one process is
\* between down(&mtx) and up(&mtx), through every error path.
MutualExclusion == mtx + Cardinality(At(Procs, Holding)) = 1

\* The bookkeeping of the hand-made condition variables: the wake-ups owed
\* plus the ones already posted equal the processes that will consume one
\* or give it back, whatever signals and up()s cross each other.
WaitBalance == \A s \in Sides :
  nr_waiting[s] + sem[s].count =
    Len(sem[s].queue) + Cardinality(At(Members(s), {"presleep", "undo", "undocs"}))

\* A sleeper is always visible to the next process that wants to wake it.
SleepersAreCounted == \A s \in Sides :
  sem[s].queue # <<>> => sem[s].count = 0 /\ nr_waiting[s] > 0

\* Neither end is ever undercounted, so read() reports end of file and
\* write() reports EPIPE only when the other end really has gone, and the
\* buffer is emptied only when no process has the FIFO open.
CountsCoverAttached == \A s \in Sides :
  Cardinality({p \in Members(s) : Attached(p)}) <= count[s]

\* With a single process at each end a sleeper sleeps for a reason: no wake-up
\* is lost between the test of the loop and the semaphore.
NoStrandedSleeper == \A p \in Procs : pc[p] = "asleep" => MustWait(p)

\* Once every process is idle or asleep, a reader still asleep has reason to
\* be.  Line 148: it waits "hasta que haya un dato para consumir (debe haber
\* productores)".
NoReaderForgotten ==
  (\A p \in Procs : pc[p] \in {"idle", "asleep"}) =>
     \A c \in Consumers :
       pc[c] = "asleep" /\ call[c].op = "read" => MustWait(c)

\* Unless a signal interferes, every read, write and close comes back: with
\* data, with end of file, or refused, but it comes back.
TransfersReturn ==
  [](signals = 0) =>
    \A p \in Procs :
      (pc[p] # "idle" /\ call[p].op # "open") ~> (pc[p] = "idle")

Promise == INSTANCE Pipe WITH
  pipe <- cbuffer, attached <- {p \in Procs : Attached(p)}

\* Clients that, like fifotest.c, always move messages of one length get a
\* pipe: whole writes, reads of exactly the oldest bytes, truthful EOF and
\* EPIPE, no byte lost or invented, with signals arriving anywhere.
ImplementsPipe == Promise!Spec
=============================================================================
