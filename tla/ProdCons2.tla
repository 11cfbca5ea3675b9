----------------------------- MODULE ProdCons2 ------------------------------
(***************************************************************************)
(* Pr3/FicherosP3/ProdCons2/prodcons2.c: the same service as ProdCons1,    *)
(* as a monitor.  mtx protects the buffer; prod_queue and cons_queue,      *)
(* initially 0, are the queues of two condition variables, with            *)
(* nr_prod_waiting and nr_cons_waiting counting who is owed an up().       *)
(* Functions of the side "prod" or "cons" stand for the pairs of globals.  *)
(***************************************************************************)
EXTENDS Semaphores, FiniteSets

CONSTANTS Producers, Consumers, Addr, NULL, MAX_ITEMS_CBUF,
          MaxSignals    \* bound: signals delivered in a behaviour

ASSUME PeopleAssumption ==
  /\ IsFiniteSet(Producers) /\ IsFiniteSet(Consumers)
  /\ Producers \cap Consumers = {}
ASSUME ItemsAssumption ==
  NULL \notin Addr /\ MAX_ITEMS_CBUF \in Nat \ {0} /\ MaxSignals \in Nat

VARIABLES mtx,         \* counter of the semaphore mtx
          queue,       \* prod_queue and cons_queue
          nr_waiting,  \* nr_prod_waiting and nr_cons_waiting
          cbuf,        \* the pointers in the circular buffer, oldest first
          pc, hand,    \* where each process is, and its local variable item
          leaked,      \* allocated items nobody points to any more
          signals

vars == <<mtx, queue, nr_waiting, cbuf, pc, hand, leaked, signals>>

Procs == Producers \cup Consumers
Sides == {"prod", "cons"}
Side(p)  == IF p \in Producers THEN "prod" ELSE "cons"
Other(s) == IF s = "prod" THEN "cons" ELSE "prod"

PCs == {"idle", "lock", "test", "presleep", "asleep", "relock", "undo",
        "undocs", "using"}

InUse == ({hand[p] : p \in Procs} \ {NULL})
           \cup {cbuf[i] : i \in DOMAIN cbuf} \cup leaked

\* (bug) the writer's loop with > for =
MustWaitLate(p) == IF p \in Producers THEN Len(cbuf) > MAX_ITEMS_CBUF
                                      ELSE Len(cbuf) = 0

\* is_full_cbuffer_t(cbuf) for a writer, size_cbuffer_t(cbuf)==0 for a reader
MustWait(p) == IF p \in Producers THEN Len(cbuf) = MAX_ITEMS_CBUF
                                  ELSE Len(cbuf) = 0

Init ==
  /\ mtx = 1
  /\ queue = [s \in Sides |-> NewSem(0)]
  /\ nr_waiting = [s \in Sides |-> 0]
  /\ cbuf = <<>>
  /\ pc = [p \in Procs |-> "idle"]
  /\ hand = [p \in Procs |-> NULL]
  /\ leaked = {}
  /\ signals = 0

Goto(p, next) == pc' = [pc EXCEPT ![p] = next]
Kept(p, a) == hand' = [hand EXCEPT ![p] = a]

\* write() of a well-formed number allocates its item before locking.
Begin(p) ==
  /\ pc[p] = "idle"
  /\ IF p \in Producers THEN \E a \in Addr \ InUse : Kept(p, a)
                        ELSE UNCHANGED hand
  /\ Goto(p, "lock")
  /\ UNCHANGED <<mtx, queue, nr_waiting, cbuf, leaked, signals>>

Lock(p) ==
  /\ pc[p] \in {"lock", "relock", "undo"} /\ mtx = 1
  /\ mtx' = 0
  /\ Goto(p, IF pc[p] = "undo" THEN "undocs" ELSE "test")
  /\ UNCHANGED <<queue, nr_waiting, cbuf, hand, leaked, signals>>

\* return -EINTR, without vfree(item) in the writer
Abandon(p) ==
  /\ leaked' = leaked \cup ({hand[p]} \ {NULL})
  /\ Kept(p, NULL)
  /\ Goto(p, "idle")

LockInterrupted(p) ==
  /\ pc[p] \in {"lock", "relock"} /\ mtx = 0
  /\ signals < MaxSignals /\ signals' = signals + 1
  /\ Abandon(p)
  /\ UNCHANGED <<mtx, queue, nr_waiting, cbuf>>

\* nr_waiting++; up(&mtx)
Wait(p) ==
  /\ pc[p] = "test" /\ MustWait(p)
  /\ nr_waiting' = [nr_waiting EXCEPT ![Side(p)] = @ + 1]
  /\ mtx' = 1
  /\ Goto(p, "presleep")
  /\ UNCHANGED <<queue, cbuf, hand, leaked, signals>>

\* down_interruptible(&prod_queue) or down_interruptible(&cons_queue)
Sleep(p) ==
  LET s == Side(p) IN
  /\ pc[p] = "presleep"
  /\ IF queue[s].count > 0
     THEN queue' = [queue EXCEPT ![s] = Take(@)] /\ Goto(p, "relock")
     ELSE queue' = [queue EXCEPT ![s] = Enqueue(@, p)] /\ Goto(p, "asleep")
  /\ UNCHANGED <<mtx, nr_waiting, cbuf, hand, leaked, signals>>

SleepInterrupted(p) ==
  LET s == Side(p) IN
  /\ signals < MaxSignals /\ signals' = signals + 1
  /\ pc[p] = "asleep"
  /\ \E i \in 1..Len(queue[s].queue) :
       /\ queue[s].queue[i] = p
       /\ queue' = [queue EXCEPT ![s] = Dequeue(@, i)]
  /\ Goto(p, "undo")
  /\ UNCHANGED <<mtx, nr_waiting, cbuf, hand, leaked>>

Undo(p) ==
  /\ pc[p] = "undocs"
  /\ nr_waiting' = [nr_waiting EXCEPT ![Side(p)] = @ - 1]
  /\ mtx' = 1
  /\ Abandon(p)
  /\ UNCHANGED <<queue, cbuf, signals>>

\* (bug) the wake-up without its nr_waiting--
WakeKeepsCounter(s, p, next) ==
  LET woken == IF nr_waiting[s] > 0 THEN Woken(queue[s]) ELSE {}
  IN  /\ queue' = IF nr_waiting[s] > 0 THEN [queue EXCEPT ![s] = Up(@)] ELSE queue
      /\ UNCHANGED nr_waiting
      /\ pc' = [q \in Procs |-> IF q \in woken THEN "relock"
                                ELSE IF q = p THEN next ELSE pc[q]]

\* if (nr_s_waiting>0) {up(&s_queue); nr_s_waiting--;}, p going on at next
Wake(s, p, next) ==
  LET woken == IF nr_waiting[s] > 0 THEN Woken(queue[s]) ELSE {}
  IN  /\ IF nr_waiting[s] > 0
         THEN /\ queue' = [queue EXCEPT ![s] = Up(@)]
              /\ nr_waiting' = [nr_waiting EXCEPT ![s] = @ - 1]
         ELSE UNCHANGED <<queue, nr_waiting>>
      /\ pc' = [q \in Procs |-> IF q \in woken THEN "relock"
                                ELSE IF q = p THEN next ELSE pc[q]]

Insert(p) ==
  /\ pc[p] = "test" /\ p \in Producers /\ ~MustWait(p)
  /\ cbuf' = Append(cbuf, hand[p])
  /\ Kept(p, NULL)
  /\ Wake("cons", p, "idle")
  /\ mtx' = 1
  /\ UNCHANGED <<leaked, signals>>

\* (bug) the reader wakes readers
RemoveWakesReaders(p) ==
  /\ pc[p] = "test" /\ p \in Consumers /\ ~MustWait(p)
  /\ Kept(p, Head(cbuf))
  /\ cbuf' = Tail(cbuf)
  /\ Wake("cons", p, "using")
  /\ mtx' = 1
  /\ UNCHANGED <<leaked, signals>>

\* (bug) head_cbuffer_t without the remove_cbuffer_t that follows it
RemoveOnlyPeeks(p) ==
  /\ pc[p] = "test" /\ p \in Consumers /\ ~MustWait(p)
  /\ Kept(p, Head(cbuf))
  /\ Wake("prod", p, "using")
  /\ mtx' = 1
  /\ UNCHANGED <<cbuf, leaked, signals>>

Remove(p) ==
  /\ pc[p] = "test" /\ p \in Consumers /\ ~MustWait(p)
  /\ Kept(p, Head(cbuf))
  /\ cbuf' = Tail(cbuf)
  /\ Wake("prod", p, "using")
  /\ mtx' = 1
  /\ UNCHANGED <<leaked, signals>>

\* sprintf of *item, vfree(item), and the copy to the user.
Use(p) ==
  /\ pc[p] = "using"
  /\ Kept(p, NULL)
  /\ Goto(p, "idle")
  /\ UNCHANGED <<mtx, queue, nr_waiting, cbuf, leaked, signals>>

Next == \E p \in Procs :
  \/ Begin(p) \/ Lock(p) \/ LockInterrupted(p) \/ Wait(p) \/ Sleep(p)
  \/ SleepInterrupted(p) \/ Undo(p) \/ Insert(p) \/ Remove(p) \/ Use(p)

Spec == Init /\ [][Next]_vars
-----------------------------------------------------------------------------
At(ps, pcs) == {p \in ps : pc[p] \in pcs}

TypeOK ==
  /\ mtx \in {0, 1}
  /\ queue \in [Sides -> [count : Nat, queue : Seq(Procs)]]
  /\ nr_waiting \in [Sides -> Int]
  /\ cbuf \in Seq(Addr) /\ Len(cbuf) <= MAX_ITEMS_CBUF
  /\ pc \in [Procs -> PCs]
  /\ hand \in [Procs -> Addr \cup {NULL}]
  /\ leaked \subseteq Addr
  /\ signals \in 0..MaxSignals

\* The wake-ups owed plus those posted equal the processes that will consume
\* one or give it back, for every crossing of signals and up()s.
WaitBalance == \A s \in Sides :
  nr_waiting[s] + queue[s].count =
    Len(queue[s].queue)
      + Cardinality({p \in At(Procs, {"presleep", "undo", "undocs"}) : Side(p) = s})

\* Lines 59 and 114: writers sleep "mientras no haya huecos en el buffer",
\* readers "mientras buffer este vacio".  So once every process is idle or
\* asleep, a sleeper's condition holds.
SleepersMustWait ==
  (\A p \in Procs : pc[p] \in {"idle", "asleep"}) =>
     \A p \in Procs : pc[p] = "asleep" => MustWait(p)

\* That is so as long as no signal arrives; in particular the two sides never
\* sleep at the same time with nobody left to wake them.
NobodyForgotten == signals = 0 => SleepersMustWait

Promise == INSTANCE BoundedBuffer WITH buf <- cbuf
\* The monitor implements the bounded buffer, as the three semaphores of
\* prodcons1.c do.
ImplementsBuffer == Promise!Spec
=============================================================================
