----------------------------- MODULE FifoProofs -----------------------------
(***************************************************************************)
(* /proc/modfifo, for any number of processes, any capacity, messages and  *)
(* signals.  First its hand-made monitor: types, mutual exclusion, and the *)
(* accounts of the two condition variables; IInv is the inductive          *)
(* invariant.  Then the pipe it makes: clients that, like fifotest.c,      *)
(* write and read messages of one length get whole messages in order,      *)
(* truthful EOF and EPIPE, and nothing lost or invented, over the circular *)
(* buffer or over kfifo; PipeInv is the inductive invariant.  Last, with a *)
(* process at each end, that nobody sleeps for no reason (ReasonInv).      *)
(***************************************************************************)
EXTENDS FifoTest, SharedLemmas, SequenceTheorems

-----------------------------------------------------------------------------
(* Facts about the vocabulary.                                             *)

\* Every system call a process can make is a well-typed call record.
LEMMA CallsTyped ==
  ASSUME NEW p \in Procs, NEW c \in Calls(p)
  PROVE  c \in [op : OpNames, data : Seq(Byte), len : Nat]
<1> DEFINE Plain == {[op |-> o, data |-> <<>>, len |-> 0] : o \in {"open", "release"}}
           Writes == {[op |-> "write", data |-> d, len |-> Len(d)] : d \in Messages}
           Reads == {[op |-> "read", data |-> <<>>, len |-> n] : n \in Lens}
<1>1. c \in Plain \/ c \in Writes \/ c \in Reads
  BY Zenon DEF Calls
<1>2. <<>> \in Seq(Byte)
  OBVIOUS
<1>3. CASE c \in Plain
  <2>1. PICK o \in {"open", "release"} : c = [op |-> o, data |-> <<>>, len |-> 0]
    BY <1>3
  <2> QED BY <1>2, <2>1 DEF OpNames
<1>4. CASE c \in Writes
  <2>1. PICK d \in Messages : c = [op |-> "write", data |-> d, len |-> Len(d)]
    BY <1>4
  <2>2. d \in Seq(Byte) /\ Len(d) \in Nat
    BY DataAssumption
  <2> QED BY <2>1, <2>2 DEF OpNames
<1>5. CASE c \in Reads
  <2>1. PICK n \in Lens : c = [op |-> "read", data |-> <<>>, len |-> n]
    BY <1>5
  <2> QED BY <1>2, <2>1, DataAssumption DEF OpNames
<1> QED BY <1>1, <1>3, <1>4, <1>5

\* Whatever is inserted, insert_items keeps the buffer within its capacity.
LEMMA InsertedTyped ==
  ASSUME cbuffer \in Seq(Byte), NEW items \in Seq(Byte)
  PROVE  Inserted(items) \in Seq(Byte) /\ Len(Inserted(items)) <= MAX_ITEMS_CBUF
<1> DEFINE all == cbuffer \o items
           n   == Len(all)
<1>1. all \in Seq(Byte) /\ n \in Nat
  OBVIOUS
<1>2. CASE n <= MAX_ITEMS_CBUF
  BY <1>1, <1>2 DEF Inserted
<1>3. CASE ~(n <= MAX_ITEMS_CBUF)
  <2>1. MAX_ITEMS_CBUF \in Nat \ {0}
    BY CapacityAssumption
  <2>2. n - MAX_ITEMS_CBUF + 1 \in 1..n
    BY <1>1, <1>3, <2>1
  <2> DEFINE kept == SubSeq(all, n - MAX_ITEMS_CBUF + 1, n)
  <2>3. kept \in Seq(Byte) /\ Len(kept) = MAX_ITEMS_CBUF
    BY <1>1, <2>1, <2>2
  <2>4. Inserted(items) = kept
    BY <1>3 DEF Inserted
  <2> HIDE DEF kept
  <2> QED BY <2>1, <2>3, <2>4
<1> QED BY <1>2, <1>3

\* up() of a well-formed semaphore: the unit goes to the head of the queue.
LEMMA UpTyped ==
  ASSUME NEW P, NEW s \in [count : Nat, queue : Seq(P)]
  PROVE  /\ Up(s) \in [count : Nat, queue : Seq(P)]
         /\ Woken(s) \subseteq P
<1>1. CASE s.queue = <<>>
  BY <1>1 DEF Up, Woken
<1>2. CASE s.queue # <<>>
  <2>1. Head(s.queue) \in P /\ Tail(s.queue) \in Seq(P)
    BY <1>2
  <2> QED BY <1>2, <2>1 DEF Up, Woken
<1> QED BY <1>1, <1>2

\* A wake-up keeps semaphores, counters and program counters well typed.
LEMMA WakeTyped ==
  ASSUME sem \in [Sides -> [count : Nat, queue : Seq(Procs)]],
         nr_waiting \in [Sides -> Int], pc \in [Procs -> PCs],
         NEW s \in Sides, NEW p \in Procs, NEW next \in PCs, Wake(s, p, next)
  PROVE  /\ sem' \in [Sides -> [count : Nat, queue : Seq(Procs)]]
         /\ nr_waiting' \in [Sides -> Int]
         /\ pc' \in [Procs -> PCs]
<1>1. sem[s] \in [count : Nat, queue : Seq(Procs)]
  OBVIOUS
<1>2. Up(sem[s]) \in [count : Nat, queue : Seq(Procs)]
  BY <1>1, UpTyped
<1>3. pc' \in [Procs -> PCs]
  BY DEF Wake, PCs
<1>4. CASE nr_waiting[s] > 0
  <2>1. /\ sem' = [sem EXCEPT ![s] = Up(sem[s])]
        /\ nr_waiting' = [nr_waiting EXCEPT ![s] = @ - 1]
    BY <1>4 DEF Wake
  <2> DEFINE Semaphore == [count : Nat, queue : Seq(Procs)]
  <2>2. sem \in [Sides -> Semaphore] /\ Up(sem[s]) \in Semaphore
    BY <1>2
  <2>3. sem' \in [Sides -> Semaphore]
    <3> HIDE DEF Semaphore
    <3> QED BY <2>1, <2>2
  <2>4. nr_waiting' \in [Sides -> Int]
    BY <2>1
  <2> QED BY <1>3, <2>3, <2>4
<1>5. CASE ~(nr_waiting[s] > 0)
  BY <1>3, <1>5 DEF Wake
<1> QED BY <1>4, <1>5

CallT == [op : OpNames, data : Seq(Byte), len : Nat]
ResT  == [code : Codes, data : Seq(Byte)]

\* A call that ends with a well-typed result leaves well-typed calls.
LEMMA ReturnTyped ==
  ASSUME call \in [Procs -> CallT], res \in [Procs -> ResT],
         NEW p \in Procs, NEW c \in Codes, NEW d \in Seq(Byte),
         Return(p, Result(c, d))
  PROVE  call' \in [Procs -> CallT] /\ res' \in [Procs -> ResT]
<1>1. NoCall \in CallT
  BY DEF NoCall, CallT, OpNames
<1>2. Result(c, d) \in ResT
  BY DEF Result, ResT
<1> QED BY <1>1, <1>2 DEF Return

\* The empty sequence is what most calls return as data.
LEMMA NoBytes == <<>> \in Seq(Byte)
  OBVIOUS

\* The initial states are well typed.
LEMMA TypeInit == Init => TypeOK
<1> USE DEF CallT, ResT
<1> SUFFICES ASSUME Init PROVE TypeOK
  OBVIOUS
<1>1. NewSem(0) \in [count : Nat, queue : Seq(Procs)]
  BY DEF NewSem
<1>2. NoCall \in CallT /\ NoResult \in ResT
  BY NoBytes DEF NoCall, NoResult, Result, OpNames, Codes
<1>3. <<>> \in Seq(Byte) /\ Len(<<>>) <= MAX_ITEMS_CBUF
  BY CapacityAssumption
<1> QED BY <1>1, <1>2, <1>3, BoundsAssumption DEF Init, TypeOK, PCs, Size

\* Every step, of every handler and every signal, keeps the types.
LEMMA TypeStep == TypeOK /\ [Next]_vars => TypeOK'
<1> USE DEF CallT, ResT
<1> SUFFICES ASSUME TypeOK, [Next]_vars PROVE TypeOK'
  OBVIOUS
<1>0. CASE UNCHANGED vars
  BY <1>0 DEF TypeOK, vars, Size
<1> SUFFICES ASSUME NEW p \in Procs,
                    Enter(p) \/ Reject(p) \/ Step(p) \/ Signal(p)
             PROVE  TypeOK'
  BY <1>0 DEF Next
<1> DEFINE s == Side(p)
<1>s. s \in Sides /\ Other(s) \in Sides
  BY DEF Side, Other, Sides
<1>t. /\ mtx \in {0, 1}
      /\ count \in [Sides -> Int]
      /\ nr_waiting \in [Sides -> Int]
      /\ sem \in [Sides -> [count : Nat, queue : Seq(Procs)]]
      /\ cbuffer \in Seq(Byte) /\ Len(cbuffer) <= MAX_ITEMS_CBUF
      /\ pc \in [Procs -> PCs]
      /\ call \in [Procs -> CallT]
      /\ res \in [Procs -> ResT]
      /\ fd \in [Procs -> BOOLEAN]
      /\ opens \in [Procs -> 0..MaxOpens]
      /\ signals \in 0..MaxSignals
  BY DEF TypeOK, Size
<1>1. CASE Enter(p)
  <2>1. PICK c \in Calls(p) :
          /\ Allowed(p, c)
          /\ call' = [call EXCEPT ![p] = c]
          /\ res' = [res EXCEPT ![p] = NoResult]
          /\ opens' = [opens EXCEPT ![p] = IF c.op = "open" THEN @ + 1 ELSE @]
          /\ Goto(p, "lock")
          /\ UNCHANGED <<mtx, count, nr_waiting, sem, cbuffer, fd, signals>>
    BY <1>1 DEF Enter
  <2>2. call' \in [Procs -> CallT]
    BY <1>t, <2>1, CallsTyped
  <2>3. res' \in [Procs -> ResT]
    BY <1>t, <2>1, NoBytes DEF NoResult, Result, Codes
  <2>4. opens' \in [Procs -> 0..MaxOpens]
    BY <1>t, <2>1, BoundsAssumption DEF Allowed
  <2>5. pc' \in [Procs -> PCs]
    BY <1>t, <2>1 DEF Goto, PCs
  <2> QED BY <1>t, <2>1, <2>2, <2>3, <2>4, <2>5 DEF TypeOK, Size
<1>2. CASE Reject(p)
  <2>1. call' \in [Procs -> CallT] /\ res' \in [Procs -> ResT]
    BY <1>2, <1>t, ReturnTyped, NoBytes DEF Reject, Codes
  <2> QED BY <1>t, <1>2, <2>1 DEF Reject, TypeOK, Size
<1>3. CASE Lock(p)
  BY <1>t, <1>3 DEF Lock, Goto, PCs, TypeOK, Size
<1>4. CASE LockInterrupted(p)
  <2>1. call' \in [Procs -> CallT] /\ res' \in [Procs -> ResT]
    BY <1>4, <1>t, ReturnTyped, NoBytes DEF LockInterrupted, Codes
  <2>2. signals' \in 0..MaxSignals
    BY <1>t, <1>4, BoundsAssumption DEF LockInterrupted
  <2>3. fd' \in [Procs -> BOOLEAN] /\ pc' \in [Procs -> PCs]
    BY <1>t, <1>4 DEF LockInterrupted, Goto, PCs
  <2> QED BY <1>t, <1>4, <2>1, <2>2, <2>3 DEF LockInterrupted, TypeOK, Size
<1>5. CASE Join(p)
  <2>1. /\ sem' \in [Sides -> [count : Nat, queue : Seq(Procs)]]
        /\ nr_waiting' \in [Sides -> Int]
        /\ pc' \in [Procs -> PCs]
    BY <1>5, <1>t, <1>s, WakeTyped DEF Join, PCs
  <2>2. count' \in [Sides -> Int]
    BY <1>t, <1>s, <1>5, SMTT(30) DEF Join
  <2> QED BY <1>t, <1>5, <2>1, <2>2 DEF Join, TypeOK, Size
<1>6. CASE Wait(p)
  <2>1. nr_waiting' \in [Sides -> Int]
    BY <1>t, <1>s, <1>6 DEF Wait
  <2>2. pc' \in [Procs -> PCs]
    BY <1>t, <1>6 DEF Wait, Goto, PCs
  <2> QED BY <1>t, <1>6, <2>1, <2>2 DEF Wait, TypeOK, Size
<1>7. CASE Sleep(p)
  <2>1. pc' \in [Procs -> PCs]
    BY <1>t, <1>7, ZenonT(40) DEF Sleep, Goto, PCs
  <2>2. sem[s] \in [count : Nat, queue : Seq(Procs)]
    BY <1>t, <1>s
  <2>3. CASE sem[s].count > 0
    <3>1. Take(sem[s]) \in [count : Nat, queue : Seq(Procs)]
      BY <2>2, <2>3 DEF Take
    <3>2. sem' = [sem EXCEPT ![s] = Take(sem[s])]
      BY <1>7, <2>3 DEF Sleep
    <3> QED BY <1>t, <1>7, <2>1, <3>1, <3>2 DEF Sleep, TypeOK, Size
  <2>4. CASE ~(sem[s].count > 0)
    <3>0. Append(sem[s].queue, p) \in Seq(Procs)
      BY <2>2
    <3>1. Enqueue(sem[s], p) \in [count : Nat, queue : Seq(Procs)]
      <4> DEFINE t == sem[s]
                 longer == Append(t.queue, p)
      <4>1. t \in [count : Nat, queue : Seq(Procs)] /\ longer \in Seq(Procs)
        BY <2>2, <3>0
      <4>2. Enqueue(t, p) = [t EXCEPT !.queue = longer]
        BY Zenon DEF Enqueue
      <4>3. Enqueue(t, p) \in [count : Nat, queue : Seq(Procs)]
        <5> HIDE DEF t, longer
        <5> QED BY <4>1, <4>2
      <4> QED BY <4>3
    <3>2. sem' = [sem EXCEPT ![s] = Enqueue(sem[s], p)]
      BY <1>7, <2>4 DEF Sleep
    <3> QED BY <1>t, <1>7, <2>1, <3>1, <3>2 DEF Sleep, TypeOK, Size
  <2> QED BY <2>3, <2>4
<1>8. CASE SleepInterrupted(p)
  <2>1. PICK i \in 1..Len(sem[s].queue) : sem' = [sem EXCEPT ![s] = Dequeue(sem[s], i)]
    BY <1>8 DEF SleepInterrupted
  <2>2. sem[s] \in [count : Nat, queue : Seq(Procs)]
    BY <1>t, <1>s
  <2>3. Dequeue(sem[s], i) \in [count : Nat, queue : Seq(Procs)]
    <3> DEFINE Q == sem[s].queue
    <3>1. /\ SubSeq(Q, 1, i - 1) \in Seq(Procs)
          /\ SubSeq(Q, i + 1, Len(Q)) \in Seq(Procs)
      BY <2>2
    <3>2. SubSeq(Q, 1, i - 1) \o SubSeq(Q, i + 1, Len(Q)) \in Seq(Procs)
      BY <3>1
    <3> QED BY <2>2, <3>2 DEF Dequeue
  <2>4. sem' \in [Sides -> [count : Nat, queue : Seq(Procs)]]
    BY <1>t, <2>1, <2>3
  <2>5. signals' \in 0..MaxSignals
    BY <1>t, <1>8, BoundsAssumption DEF SleepInterrupted
  <2>6. pc' \in [Procs -> PCs]
    BY <1>t, <1>8 DEF SleepInterrupted, Goto, PCs
  <2> QED BY <1>t, <1>8, <2>4, <2>5, <2>6 DEF SleepInterrupted, TypeOK, Size
<1>9. CASE Undo(p)
  <2>1. call' \in [Procs -> CallT] /\ res' \in [Procs -> ResT]
    BY <1>9, <1>t, ReturnTyped, NoBytes DEF Undo, Codes
  <2>2. nr_waiting' \in [Sides -> Int]
    BY <1>t, <1>s, <1>9 DEF Undo
  <2>3. pc' \in [Procs -> PCs]
    BY <1>t, <1>9 DEF Undo, Goto, PCs
  <2> QED BY <1>t, <1>9, <2>1, <2>2, <2>3 DEF Undo, TypeOK, Size
<1>10. CASE OpenDone(p)
  <2>1. call' \in [Procs -> CallT] /\ res' \in [Procs -> ResT]
    BY <1>10, <1>t, ReturnTyped, NoBytes DEF OpenDone, Codes
  <2> QED BY <1>t, <1>10, <2>1 DEF OpenDone, Goto, PCs, TypeOK, Size
<1>11. CASE ReadEOF(p)
  <2>1. call' \in [Procs -> CallT] /\ res' \in [Procs -> ResT]
    BY <1>11, <1>t, ReturnTyped, NoBytes DEF ReadEOF, Codes
  <2> QED BY <1>t, <1>11, <2>1 DEF ReadEOF, Goto, PCs, TypeOK, Size
<1>12. CASE Read(p)
  <2> DEFINE n == call[p].len
  <2>1. n \in Nat
    BY <1>t
  <2>2. /\ sem' \in [Sides -> [count : Nat, queue : Seq(Procs)]]
        /\ nr_waiting' \in [Sides -> Int]
        /\ pc' \in [Procs -> PCs]
    BY <1>12, <1>t, WakeTyped DEF Read, PCs, Sides
  <2>3. CASE n > Len(cbuffer)
    <3>1. [i \in 1..n |-> Nul] \in Seq(Byte)
      BY <2>1, DataAssumption
    <3>2. Return(p, Result("OK", [i \in 1..n |-> Nul])) /\ cbuffer' = cbuffer
      BY <1>12, <2>3 DEF Read, Size
    <3>3. call' \in [Procs -> CallT] /\ res' \in [Procs -> ResT]
      BY <1>t, <3>1, <3>2, ReturnTyped DEF Codes
    <3> QED BY <1>t, <1>12, <2>2, <3>2, <3>3 DEF Read, TypeOK, Size
  <2>4. CASE ~(n > Len(cbuffer))
    <3>1. /\ SubSeq(cbuffer, 1, n) \in Seq(Byte)
          /\ SubSeq(cbuffer, n + 1, Len(cbuffer)) \in Seq(Byte)
          /\ Len(SubSeq(cbuffer, n + 1, Len(cbuffer))) = Len(cbuffer) - n
      BY <1>t, <2>1, <2>4
    <3>2. /\ Return(p, Result("OK", SubSeq(cbuffer, 1, n)))
          /\ cbuffer' = SubSeq(cbuffer, n + 1, Len(cbuffer))
      BY <1>12, <2>4 DEF Read, Size
    <3>3. call' \in [Procs -> CallT] /\ res' \in [Procs -> ResT]
      BY <1>t, <3>1, <3>2, ReturnTyped DEF Codes
    <3>4. cbuffer' \in Seq(Byte) /\ Len(cbuffer') <= MAX_ITEMS_CBUF
      BY <1>t, <2>1, <3>1, <3>2, CapacityAssumption
    <3> QED BY <1>t, <1>12, <2>2, <3>3, <3>4 DEF Read, TypeOK, Size
  <2> QED BY <2>3, <2>4
<1>13. CASE WriteEPIPE(p)
  <2>1. call' \in [Procs -> CallT] /\ res' \in [Procs -> ResT]
    BY <1>13, <1>t, ReturnTyped, NoBytes DEF WriteEPIPE, Codes
  <2> QED BY <1>t, <1>13, <2>1 DEF WriteEPIPE, Goto, PCs, TypeOK, Size
<1>14. CASE Write(p)
  <2>1. call' \in [Procs -> CallT] /\ res' \in [Procs -> ResT]
    BY <1>14, <1>t, ReturnTyped, NoBytes DEF Write, Codes
  <2>2. /\ sem' \in [Sides -> [count : Nat, queue : Seq(Procs)]]
        /\ nr_waiting' \in [Sides -> Int]
        /\ pc' \in [Procs -> PCs]
    BY <1>14, <1>t, WakeTyped DEF Write, PCs, Sides
  <2>3. call[p].data \in Seq(Byte)
    BY <1>t
  <2>4. cbuffer' \in Seq(Byte) /\ Len(cbuffer') <= MAX_ITEMS_CBUF
    BY <1>t, <1>14, <2>3, InsertedTyped DEF Write
  <2> QED BY <1>t, <1>14, <2>1, <2>2, <2>4 DEF Write, TypeOK, Size
<1>15. CASE Release(p)
  <2>1. call' \in [Procs -> CallT] /\ res' \in [Procs -> ResT]
    BY <1>15, <1>t, ReturnTyped, NoBytes DEF Release, Codes
  <2>2. /\ sem' \in [Sides -> [count : Nat, queue : Seq(Procs)]]
        /\ nr_waiting' \in [Sides -> Int]
        /\ pc' \in [Procs -> PCs]
    BY <1>15, <1>t, <1>s, WakeTyped DEF Release, PCs
  <2>3. cbuffer' \in Seq(Byte) /\ Len(cbuffer') <= MAX_ITEMS_CBUF
    BY <1>t, <1>15, CapacityAssumption, NoBytes DEF Release
  <2>4. count' \in [Sides -> Int] /\ fd' \in [Procs -> BOOLEAN]
    BY <1>t, <1>s, <1>15 DEF Release
  <2> QED BY <1>t, <1>15, <2>1, <2>2, <2>3, <2>4 DEF Release, TypeOK, Size
<1> QED BY <1>1, <1>2, <1>3, <1>4, <1>5, <1>6, <1>7, <1>8, <1>9, <1>10,
           <1>11, <1>12, <1>13, <1>14, <1>15 DEF Step, Signal

\* Spec => []TypeOK: every variable of the model keeps its type.
THEOREM TypeCorrect == Spec => []TypeOK
  BY TypeInit, TypeStep, PTL DEF Spec

-----------------------------------------------------------------------------
\* There are finitely many processes, on each side and in all.
LEMMA ProcsFinite ==
  /\ IsFiniteSet(Procs)
  /\ \A s \in Sides : IsFiniteSet(Members(s)) /\ Members(s) \subseteq Procs
<1>1. IsFiniteSet(Procs)
  BY ProcsAssumption, FS_Union DEF Procs
<1> QED BY <1>1, ProcsAssumption DEF Members, Sides, Procs

-----------------------------------------------------------------------------
(* The wait queues.                                                        *)

\* The queue of a side holds processes of that side, each asleep and in it
\* once; a unit stays in the counter only while nobody sleeps.
QueueOK(s) ==
  LET Q == sem[s].queue IN
  /\ \A i \in 1..Len(Q) : Q[i] \in Members(s) /\ pc[Q[i]] = "asleep"
  /\ \A i, j \in 1..Len(Q) : Q[i] = Q[j] => i = j
  /\ sem[s].count > 0 => Q = <<>>
QueueInv == \A s \in Sides : QueueOK(s)

Undoing == {"presleep", "undo", "undocs"}

\* What of a semaphore and its waiting counter enters into WaitBalance.
Owed(s) == nr_waiting[s] + sem[s].count - Len(sem[s].queue)

\* It is a number.
LEMMA OwedTyped == TypeOK => \A s \in Sides : Owed(s) \in Int
<1> SUFFICES ASSUME TypeOK, NEW s \in Sides PROVE Owed(s) \in Int
  OBVIOUS
<1>1. nr_waiting[s] \in Int /\ sem[s] \in [count : Nat, queue : Seq(Procs)]
  BY DEF TypeOK
<1>2. sem[s].count \in Int /\ Len(sem[s].queue) \in Int
  BY <1>1
<1> QED BY <1>1, <1>2 DEF Owed

\* The balance that WaitBalance states, with Owed.
LEMMA BalanceAsOwed ==
  TypeOK => (WaitBalance <=>
               \A s \in Sides : Owed(s) = Cardinality(At(Members(s), Undoing)))
<1> SUFFICES ASSUME TypeOK
             PROVE  WaitBalance <=>
               \A s \in Sides : Owed(s) = Cardinality(At(Members(s), Undoing))
  OBVIOUS
<1>1. ASSUME NEW s \in Sides
      PROVE  /\ nr_waiting[s] \in Int /\ sem[s].count \in Int
             /\ Len(sem[s].queue) \in Int
             /\ Cardinality(At(Members(s), Undoing)) \in Int
  <2>1. IsFiniteSet(At(Members(s), Undoing))
    BY ProcsFinite, FS_Subset DEF At
  <2> QED BY <2>1, FS_CardinalityType DEF TypeOK
<1> QED BY <1>1, SMTT(30) DEF WaitBalance, Owed, Undoing

\* Steps that leave the semaphores alone and wake nobody keep the queues sound.
LEMMA QueueFrame ==
  ASSUME QueueInv, sem' = sem,
         \A q \in Procs : pc[q] = "asleep" => pc'[q] = "asleep"
  PROVE  QueueInv'
<1> SUFFICES ASSUME NEW s \in Sides PROVE QueueOK(s)'
  BY DEF QueueInv
<1>1. QueueOK(s)
  BY DEF QueueInv
<1>2. Members(s) \subseteq Procs
  BY ProcsFinite
<1> QED BY <1>1, <1>2 DEF QueueOK

\* The two sides have no process in common.
LEMMA SidesDisjoint ==
  ASSUME NEW s \in Sides, NEW t \in Sides, s # t
  PROVE  Members(s) \cap Members(t) = {}
  BY ProcsAssumption DEF Members, Sides

\* A wake-up by a process that is not asleep: everybody else keeps its place
\* except possibly one sleeper that goes to relock, and the wake-up owed is
\* the wake-up posted.
LEMMA WakeEffect ==
  ASSUME TypeOK, QueueInv, NEW s \in Sides, NEW p \in Procs, NEW next \in PCs,
         pc[p] # "asleep", next # "asleep", Wake(s, p, next)
  PROVE  /\ QueueInv'
         /\ pc'[p] = next
         /\ \A q \in Procs \ {p} :
              pc'[q] = pc[q] \/ (pc[q] = "asleep" /\ pc'[q] = "relock")
         /\ \A t \in Sides : Owed(t)' = Owed(t)
<1> DEFINE Q == sem[s].queue
<1>t. /\ sem \in [Sides -> [count : Nat, queue : Seq(Procs)]]
      /\ nr_waiting \in [Sides -> Int]
      /\ pc \in [Procs -> PCs]
  BY DEF TypeOK
<1>s. sem[s].count \in Nat /\ Q \in Seq(Procs) /\ Members(s) \subseteq Procs
  BY <1>t, ProcsFinite
<1>q. QueueOK(s)
  BY DEF QueueInv
<1>1. CASE ~(nr_waiting[s] > 0)
  <2>1. sem' = sem /\ nr_waiting' = nr_waiting
    BY <1>1 DEF Wake
  <2>2. pc' = [q \in Procs |-> IF q = p THEN next ELSE pc[q]]
    BY <1>1 DEF Wake
  <2>3. \A q \in Procs : pc[q] = "asleep" => pc'[q] = "asleep"
    BY <2>2
  <2>4. QueueInv'
    BY <2>1, <2>3, QueueFrame
  <2> QED BY <2>1, <2>2, <2>4 DEF Owed
<1>2. CASE nr_waiting[s] > 0 /\ Q = <<>>
  <2>1. /\ sem' = [sem EXCEPT ![s] = [sem[s] EXCEPT !.count = @ + 1]]
        /\ nr_waiting' = [nr_waiting EXCEPT ![s] = @ - 1]
        /\ pc' = [q \in Procs |-> IF q = p THEN next ELSE pc[q]]
    BY <1>2 DEF Wake, Up, Woken
  <2>2. /\ sem'[s].queue = <<>> /\ sem'[s].count = sem[s].count + 1
        /\ nr_waiting'[s] = nr_waiting[s] - 1
        /\ \A t \in Sides \ {s} : sem'[t] = sem[t] /\ nr_waiting'[t] = nr_waiting[t]
    BY <1>t, <1>2, <2>1
  <2>3. QueueOK(s)'
    BY <2>2 DEF QueueOK
  <2>4. ASSUME NEW t \in Sides \ {s} PROVE QueueOK(t)'
    <3>1. QueueOK(t) /\ Members(t) \subseteq Procs
      BY ProcsFinite DEF QueueInv
    <3> QED BY <2>1, <2>2, <3>1 DEF QueueOK
  <2>5. QueueInv'
    BY <2>3, <2>4 DEF QueueInv
  <2>6. \A t \in Sides : Owed(t)' = Owed(t)
    <3>1. Owed(s)' = Owed(s)
      <4>1. Len(sem'[s].queue) = 0 /\ Len(sem[s].queue) = 0
        BY <1>2, <2>2
      <4>2. nr_waiting[s] \in Int /\ sem[s].count \in Nat
        BY <1>t, <1>s
      <4>3. nr_waiting'[s] = nr_waiting[s] - 1 /\ sem'[s].count = sem[s].count + 1
        BY <2>2
      <4> QED
        <5> HIDE DEF Q
        <5> QED BY <4>1, <4>2, <4>3 DEF Owed
    <3> QED BY <2>2, <3>1 DEF Owed
  <2> QED BY <2>1, <2>5, <2>6
<1>3. CASE nr_waiting[s] > 0 /\ Q # <<>>
  <2> DEFINE h == Head(Q)
  <2>1. /\ sem' = [sem EXCEPT ![s] = [sem[s] EXCEPT !.queue = Tail(Q)]]
        /\ nr_waiting' = [nr_waiting EXCEPT ![s] = @ - 1]
        /\ pc' = [q \in Procs |-> IF q = h THEN "relock"
                                  ELSE IF q = p THEN next ELSE pc[q]]
    BY <1>3 DEF Wake, Up, Woken
  <2>2. /\ sem'[s].queue = Tail(Q) /\ sem'[s].count = sem[s].count
        /\ nr_waiting'[s] = nr_waiting[s] - 1
        /\ \A t \in Sides \ {s} : sem'[t] = sem[t] /\ nr_waiting'[t] = nr_waiting[t]
    BY <1>t, <1>3, <2>1
  <2>3. /\ Len(Q) \in Nat /\ Len(Q) > 0 /\ h = Q[1]
        /\ Len(Tail(Q)) = Len(Q) - 1
        /\ \A i \in 1..Len(Tail(Q)) : Tail(Q)[i] = Q[i+1]
    BY <1>s, <1>3
  <2>4. h \in Members(s) /\ h \in Procs /\ pc[h] = "asleep" /\ h # p
    BY <1>q, <1>s, <2>3 DEF QueueOK
  <2>5. ASSUME NEW i \in 1..Len(Tail(Q))
        PROVE  Tail(Q)[i] \in Members(s) /\ pc'[Tail(Q)[i]] = "asleep"
    <3>1. i + 1 \in 1..Len(Q) /\ 1 \in 1..Len(Q) /\ i + 1 # 1
      BY <2>3
    <3>2. Q[i+1] \in Members(s) /\ pc[Q[i+1]] = "asleep" /\ Q[i+1] # h
      BY <1>q, <2>3, <3>1 DEF QueueOK
    <3> QED BY <1>s, <2>1, <2>3, <3>2
  <2>6. ASSUME NEW i \in 1..Len(Tail(Q)), NEW j \in 1..Len(Tail(Q)),
               Tail(Q)[i] = Tail(Q)[j]
        PROVE  i = j
    <3>1. i + 1 \in 1..Len(Q) /\ j + 1 \in 1..Len(Q)
      BY <2>3
    <3>2. Q[i+1] = Q[j+1]
      BY <2>3, <2>6
    <3>3. i + 1 = j + 1
      BY <1>q, <3>1, <3>2 DEF QueueOK
    <3> QED BY <2>3, <3>3
  <2>7. ~(sem'[s].count > 0)
    BY <1>q, <1>3, <2>2 DEF QueueOK
  <2>8. QueueOK(s)'
    <3> HIDE DEF Q
    <3> QED BY <2>2, <2>5, <2>6, <2>7 DEF QueueOK
  <2>9. ASSUME NEW t \in Sides \ {s} PROVE QueueOK(t)'
    <3>1. QueueOK(t) /\ Members(t) \subseteq Procs /\ h \notin Members(t)
      BY <2>4, ProcsFinite, SidesDisjoint DEF QueueInv
    <3>2. \A i \in 1..Len(sem[t].queue) : pc'[sem[t].queue[i]] = "asleep"
      BY <2>1, <3>1 DEF QueueOK
    <3> QED BY <2>2, <3>1, <3>2 DEF QueueOK
  <2>10. QueueInv'
    BY <2>8, <2>9 DEF QueueInv
  <2>11. \A t \in Sides : Owed(t)' = Owed(t)
    <3>1. Owed(s)' = Owed(s)
      <4> DEFINE n == nr_waiting[s]
                 c == sem[s].count
                 l == Len(sem[s].queue)
                 k == Len(sem'[s].queue)
      <4>1. k = l - 1 /\ l \in Nat /\ n \in Int /\ c \in Nat
        BY <1>t, <1>s, <2>2, <2>3
      <4>2. Owed(s) = n + c - l /\ Owed(s)' = (n - 1) + c - k
        BY <2>2 DEF Owed
      <4> HIDE DEF n, c, l, k
      <4> QED BY <4>1, <4>2
    <3> QED BY <2>2, <3>1 DEF Owed
  <2>12. /\ pc'[p] = next
         /\ \A q \in Procs \ {p} :
              pc'[q] = pc[q] \/ (pc[q] = "asleep" /\ pc'[q] = "relock")
    BY <2>1, <2>4
  <2> QED BY <2>10, <2>11, <2>12
<1> QED BY <1>1, <1>2, <1>3

-----------------------------------------------------------------------------
(* One step of one process, seen by the counters.                          *)

\* Everybody but p stays, or is woken.
OthersStay(p) == \A q \in Procs \ {p} :
  pc'[q] = pc[q] \/ (pc[q] = "asleep" /\ pc'[q] = "relock")

\* Mutual exclusion is kept when mtx moves against p's holding of it.
LEMMA MutexStep ==
  ASSUME TypeOK, MutualExclusion, NEW p \in Procs, OthersStay(p), mtx' \in {0, 1},
         mtx' + In(pc'[p], Holding) = mtx + In(pc[p], Holding)
  PROVE  MutualExclusion'
<1> DEFINE n == Cardinality(At(Procs, Holding))
           m == Cardinality({q \in Procs : pc'[q] \in Holding})
<1>1. \A q \in Procs \ {p} : pc'[q] \in Holding <=> pc[q] \in Holding
  BY DEF OthersStay, Holding
<1>2. n \in Nat /\ m = n + In(pc'[p], Holding) - In(pc[p], Holding)
  BY <1>1, ProcsFinite, CountMove, Zenon DEF At, In
<1>3. mtx + n = 1 /\ mtx \in {0, 1}
  BY DEF MutualExclusion, TypeOK
<1> DEFINE a == In(pc'[p], Holding)
           b == In(pc[p], Holding)
<1>4. a \in {0, 1} /\ b \in {0, 1} /\ mtx' + a = mtx + b /\ m = n + a - b
  BY <1>2 DEF In
<1>5. mtx' + m = 1
  <2> HIDE DEF n, m, a, b
  <2> QED BY <1>2, <1>3, <1>4
<1> QED BY <1>5 DEF MutualExclusion, At

\* The balance is kept when what a side is owed moves with p's passage
\* through the states the balance counts.
LEMMA BalanceStep ==
  ASSUME TypeOK, TypeOK', WaitBalance, NEW p \in Procs, OthersStay(p),
         \A t \in Sides \ {Side(p)} : Owed(t)' = Owed(t),
         Owed(Side(p))' =
           Owed(Side(p)) + In(pc'[p], Undoing) - In(pc[p], Undoing)
  PROVE  WaitBalance'
<1>1. \A q \in Procs \ {p} : pc'[q] \in Undoing <=> pc[q] \in Undoing
  BY DEF OthersStay, Undoing
<1>2. \A t \in Sides : Owed(t) = Cardinality(At(Members(t), Undoing))
  BY BalanceAsOwed
<1>3. p \in Members(Side(p)) /\ Side(p) \in Sides
      /\ \A t \in Sides \ {Side(p)} : p \notin Members(t)
  BY ProcsAssumption DEF Side, Members, Procs, Sides
<1>4. ASSUME NEW t \in Sides
      PROVE  Owed(t)' = Cardinality({q \in Members(t) : pc'[q] \in Undoing})
  <2> DEFINE M == Members(t)
             n == Cardinality({q \in M : pc[q] \in Undoing})
             m == Cardinality({q \in M : pc'[q] \in Undoing})
  <2>1. IsFiniteSet(M) /\ M \subseteq Procs
    BY ProcsFinite
  <2>2. Owed(t) = n
    BY <1>2 DEF At
  <2>3. CASE t = Side(p)
    <3>1. p \in M /\ \A q \in M \ {p} : pc'[q] \in Undoing <=> pc[q] \in Undoing
      BY <1>1, <1>3, <2>1, <2>3
    <3>2. m = n + In(pc'[p], Undoing) - In(pc[p], Undoing)
      BY <2>1, <3>1, CountMove, Zenon DEF In
    <3> QED BY <2>2, <2>3, <3>2
  <2>4. CASE t # Side(p)
    <3>1. \A q \in M : pc'[q] \in Undoing <=> pc[q] \in Undoing
      BY <1>1, <1>3, <2>1, <2>4
    <3>2. m = n
      BY <3>1, CountSame, Zenon
    <3> QED BY <2>2, <2>4, <3>2
  <2> QED BY <2>3, <2>4
<1>5. (\A t \in Sides : Owed(t) = Cardinality(At(Members(t), Undoing)))'
  BY <1>4 DEF At, Members
<1>6. (TypeOK => (WaitBalance <=>
          \A s \in Sides : Owed(s) = Cardinality(At(Members(s), Undoing))))'
  BY BalanceAsOwed, PTL
<1> QED BY <1>5, <1>6

\* The inductive invariant behind MutualExclusion, WaitBalance and
\* SleepersAreCounted: the balance needs to know that the queues hold the
\* sleepers, each once.
IInv == TypeOK /\ QueueInv /\ MutualExclusion /\ WaitBalance
-----------------------------------------------------------------------------
(* The invariant holds at the start, and each handler step keeps it.       *)

\* A process between down(&mtx) and up(&mtx) finds mtx taken.
LEMMA HolderHasMutex ==
  ASSUME TypeOK, MutualExclusion, NEW p \in Procs, pc[p] \in Holding
  PROVE  mtx = 0
<1> DEFINE H == At(Procs, Holding)
<1>1. p \in H /\ IsFiniteSet(H)
  BY ProcsFinite, FS_Subset DEF At
<1>2. Cardinality(H) \in Nat /\ Cardinality(H) # 0
  BY <1>1, FS_CardinalityType, FS_EmptySet
<1>3. mtx + Cardinality(H) = 1 /\ mtx \in {0, 1}
  BY DEF MutualExclusion, TypeOK
<1> HIDE DEF H
<1> QED BY <1>2, <1>3

\* What a step of p must do to the queues, to mtx and to the balance.
LEMMA StepKeeps ==
  ASSUME IInv, TypeOK', QueueInv', NEW p \in Procs, OthersStay(p),
         mtx' + In(pc'[p], Holding) = mtx + In(pc[p], Holding),
         \A t \in Sides \ {Side(p)} : Owed(t)' = Owed(t),
         Owed(Side(p))' =
           Owed(Side(p)) + In(pc'[p], Undoing) - In(pc[p], Undoing)
  PROVE  IInv'
<1>1. TypeOK /\ MutualExclusion /\ WaitBalance /\ mtx' \in {0, 1}
  BY DEF IInv, TypeOK
<1>2. MutualExclusion'
  BY <1>1, MutexStep
<1>3. WaitBalance'
  BY <1>1, BalanceStep
<1> QED BY <1>2, <1>3 DEF IInv

\* Steps that touch neither semaphore sem_X nor a waiting counter.
LEMMA QuietKeeps ==
  ASSUME IInv, TypeOK', NEW p \in Procs, NEW next, pc[p] # "asleep",
         pc' = [pc EXCEPT ![p] = next], sem' = sem, nr_waiting' = nr_waiting,
         mtx' + In(next, Holding) = mtx + In(pc[p], Holding),
         In(next, Undoing) = In(pc[p], Undoing)
  PROVE  IInv'
<1>1. pc'[p] = next /\ \A q \in Procs \ {p} : pc'[q] = pc[q]
  BY DEF IInv, TypeOK
<1>2. QueueInv'
  BY <1>1, QueueFrame DEF IInv
<1>3. OthersStay(p)
  BY <1>1 DEF OthersStay
<1>4. Side(p) \in Sides
  BY DEF Side, Sides
<1>5. \A t \in Sides : Owed(t)' = Owed(t) /\ Owed(t) \in Int
  BY OwedTyped DEF Owed, IInv
<1>6. Owed(Side(p))' = Owed(Side(p)) + In(pc'[p], Undoing) - In(pc[p], Undoing)
  BY <1>1, <1>4, <1>5 DEF In
<1> QED BY <1>1, <1>2, <1>3, <1>5, <1>6, StepKeeps

\* Steps that wake a process of side s, holding mtx throughout (join) or
\* giving it up (read, write, release).
LEMMA WakeKeeps ==
  ASSUME IInv, TypeOK', NEW p \in Procs, NEW s \in Sides, NEW next \in {"test", "idle"},
         pc[p] \in {"cs", "test"}, Wake(s, p, next),
         mtx' = IF next = "idle" THEN 1 ELSE mtx
  PROVE  IInv'
<1>1. TypeOK /\ QueueInv /\ MutualExclusion /\ next \in PCs
  BY DEF IInv, PCs
<1>2. /\ QueueInv'
      /\ pc'[p] = next
      /\ OthersStay(p)
      /\ \A t \in Sides : Owed(t)' = Owed(t)
  BY <1>1, WakeEffect, Zenon DEF OthersStay
<1>3. mtx = 0
  BY <1>1, HolderHasMutex DEF Holding
<1>4. mtx' + In(pc'[p], Holding) = mtx + In(pc[p], Holding)
  BY <1>2, <1>3 DEF In, Holding
<1>5. Side(p) \in Sides /\ \A t \in Sides : Owed(t) \in Int
  BY OwedTyped DEF Side, Sides, IInv
<1>6. Owed(Side(p))' = Owed(Side(p)) + In(pc'[p], Undoing) - In(pc[p], Undoing)
  BY <1>2, <1>5 DEF In, Undoing
<1> QED BY <1>2, <1>4, <1>6, StepKeeps

\* Initially mtx is free, nobody waits and the wait queues are empty.
LEMMA IInvInit == Init => IInv
<1> SUFFICES ASSUME Init PROVE IInv
  OBVIOUS
<1>1. TypeOK
  BY TypeInit
<1>2. \A s \in Sides : /\ nr_waiting[s] = 0 /\ sem[s].count = 0
                       /\ sem[s].queue = <<>> /\ Len(sem[s].queue) = 0
  BY DEF Init, NewSem
<1>3. QueueInv
  BY <1>2 DEF QueueInv, QueueOK
<1>4. ASSUME NEW S \in SUBSET Procs
      PROVE  At(S, Holding) = {} /\ At(S, Undoing) = {}
  BY DEF At, Init, Holding, Undoing
<1>5. MutualExclusion
  <2>1. At(Procs, Holding) = {}
    BY <1>4
  <2> QED BY <2>1, FS_EmptySet DEF MutualExclusion, Init
<1>6. \A s \in Sides : Cardinality(At(Members(s), Undoing)) = 0
  BY <1>4, ProcsFinite, FS_EmptySet
<1>7. WaitBalance
  BY <1>2, <1>6 DEF WaitBalance, Undoing
<1> QED BY <1>1, <1>3, <1>5, <1>7 DEF IInv
\* down_interruptible(&sem_X): the last moment at which p is owed a wake-up.
LEMMA SleepKeeps ==
  ASSUME IInv, TypeOK', NEW p \in Procs, Sleep(p)
  PROVE  IInv'
<1> DEFINE s == Side(p)
           Q == sem[s].queue
<1>t. TypeOK /\ QueueInv /\ pc \in [Procs -> PCs] /\ pc[p] = "presleep"
      /\ mtx' = mtx /\ nr_waiting' = nr_waiting
  BY DEF IInv, TypeOK, Sleep
<1>s. /\ s \in Sides /\ p \in Members(s) /\ QueueOK(s)
      /\ sem \in [Sides -> [count : Nat, queue : Seq(Procs)]]
      /\ sem[s].count \in Nat /\ Q \in Seq(Procs) /\ Len(Q) \in Nat
      /\ nr_waiting[s] \in Int
  <2>1. s \in Sides /\ p \in Members(s)
    BY DEF Side, Sides, Members, Procs
  <2>2. sem \in [Sides -> [count : Nat, queue : Seq(Procs)]] /\ nr_waiting[s] \in Int
    BY <1>t, <2>1 DEF TypeOK
  <2>3. sem[s].count \in Nat /\ Q \in Seq(Procs)
    BY <2>1, <2>2
  <2> QED BY <1>t, <2>1, <2>2, <2>3 DEF QueueInv
<1>1. PICK next \in {"relock", "asleep"} : pc' = [pc EXCEPT ![p] = next]
  BY DEF Sleep, Goto
<1>2. pc'[p] = next /\ \A q \in Procs \ {p} : pc'[q] = pc[q]
  BY <1>t, <1>1
<1>3. OthersStay(p)
  BY <1>2 DEF OthersStay
<1>4. mtx' + In(pc'[p], Holding) = mtx + In(pc[p], Holding)
  BY <1>t, <1>2 DEF In, Holding
<1>5. \A t \in Sides \ {s} : sem'[t] = sem[t]
  BY <1>s DEF Sleep
<1>6. \A t \in Sides \ {s} : Owed(t)' = Owed(t)
  BY <1>t, <1>5 DEF Owed
<1>7. ASSUME NEW t \in Sides \ {s} PROVE QueueOK(t)'
  <2>1. QueueOK(t) /\ Members(t) \subseteq Procs
    BY <1>t, ProcsFinite DEF QueueInv
  <2>2. \A q \in Procs : pc[q] = "asleep" => pc'[q] = "asleep"
    BY <1>t, <1>2
  <2> QED BY <1>5, <2>1, <2>2 DEF QueueOK
<1>8. CASE sem[s].count > 0
  <2>1. /\ sem'[s].queue = Q /\ sem'[s].count = sem[s].count - 1
        /\ Q = <<>>
    BY <1>s, <1>8 DEF Sleep, Take, QueueOK
  <2>2. QueueOK(s)'
    BY <2>1 DEF QueueOK
  <2>3. Owed(s)' = Owed(s) - 1
    <3> DEFINE n == nr_waiting[s]
               c == sem[s].count
               l == Len(Q)
    <3>1. Owed(s) = n + c - l /\ Owed(s)' = n + (c - 1) - l
      BY <1>t, <2>1 DEF Owed
    <3>2. n \in Int /\ c \in Nat /\ l \in Nat
      BY <1>s
    <3> HIDE DEF n, c, l
    <3> QED BY <3>1, <3>2
  <2>4. Owed(s)' = Owed(s) + In(pc'[p], Undoing) - In(pc[p], Undoing)
    <3>1. pc'[p] = "relock"
      BY <1>t, <1>8 DEF Sleep, Goto
    <3>2. Owed(s) \in Int
      BY <1>s, <1>t, OwedTyped
    <3> QED BY <1>t, <2>3, <3>1, <3>2 DEF In, Undoing
  <2>5. QueueInv'
    BY <1>7, <2>2 DEF QueueInv
  <2> QED BY <1>3, <1>4, <1>6, <2>4, <2>5, StepKeeps
<1>9. CASE ~(sem[s].count > 0)
  <2>1. /\ sem'[s].queue = Append(Q, p) /\ sem'[s].count = sem[s].count
        /\ pc'[p] = "asleep"
    BY <1>s, <1>t, <1>9 DEF Sleep, Enqueue, Goto
  <2>2. /\ Len(Append(Q, p)) = Len(Q) + 1
        /\ \A i \in 1..Len(Q) : Append(Q, p)[i] = Q[i]
        /\ Append(Q, p)[Len(Q) + 1] = p
    BY <1>s
  <2>3. \A i \in 1..Len(Q) : Q[i] \in Members(s) /\ pc[Q[i]] = "asleep"
    BY <1>s DEF QueueOK
  <2>4. \A i \in 1..Len(Q) : Q[i] # p
    BY <1>t, <2>3
  <2>5. \A i, j \in 1..Len(Q) : Q[i] = Q[j] => i = j
    BY <1>s DEF QueueOK
  <2>6. QueueOK(s)'
    <3> DEFINE R == Append(Q, p)
               l == Len(Q)
    <3>1. \A i \in 1..l : R[i] = Q[i] /\ R[i] \in Members(s) /\ pc'[R[i]] = "asleep"
      <4>1. Members(s) \subseteq Procs
        BY <1>s, ProcsFinite
      <4> QED BY <1>2, <2>1, <2>2, <2>3, <4>1
    <3>2. R[l+1] = p /\ Len(R) = l + 1 /\ l \in Nat
      BY <1>s, <2>2
    <3>3. \A i \in 1..Len(R) : i \in 1..l \/ i = l + 1
      <4> HIDE DEF R, l
      <4> QED BY <3>2
    <3>4. \A i \in 1..Len(R) : R[i] \in Members(s) /\ pc'[R[i]] = "asleep"
      <4> HIDE DEF R, l
      <4> QED BY <1>s, <2>1, <3>1, <3>2, <3>3
    <3>5. \A i, j \in 1..Len(R) : R[i] = R[j] => i = j
      <4>1. \A i, j \in 1..l : R[i] = R[j] => i = j
        BY <2>5, <3>1
      <4>2. \A i \in 1..l : R[i] # p
        BY <2>4, <3>1
      <4> HIDE DEF R, l
      <4> QED BY <3>2, <3>3, <4>1, <4>2
    <3>6. ~(sem'[s].count > 0)
      BY <1>9, <2>1
    <3>7. sem'[s].queue = R
      BY <2>1
    <3> HIDE DEF R
    <3> QED BY <3>4, <3>5, <3>6, <3>7 DEF QueueOK, Members
  <2>7. Owed(s)' = Owed(s) - 1
    <3> DEFINE n == nr_waiting[s]
               c == sem[s].count
               l == Len(Q)
    <3>1. Owed(s) = n + c - l /\ Owed(s)' = n + c - (l + 1)
      BY <1>t, <2>1, <2>2 DEF Owed
    <3>2. n \in Int /\ c \in Nat /\ l \in Nat
      BY <1>s
    <3> HIDE DEF n, c, l
    <3> QED BY <3>1, <3>2
  <2>8. Owed(s)' = Owed(s) + In(pc'[p], Undoing) - In(pc[p], Undoing)
    <3>1. Owed(s) \in Int
      BY <1>s, <1>t, OwedTyped
    <3> QED BY <1>t, <2>1, <2>7, <3>1 DEF In, Undoing
  <2>9. QueueInv'
    BY <1>7, <2>6 DEF QueueInv
  <2> QED BY <1>3, <1>4, <1>6, <2>8, <2>9, StepKeeps
<1> QED BY <1>8, <1>9
\* A signal takes p out of the queue, wherever in it p stands.
LEMMA SleepInterruptedKeeps ==
  ASSUME IInv, TypeOK', NEW p \in Procs, SleepInterrupted(p)
  PROVE  IInv'
<1> DEFINE s == Side(p)
           Q == sem[s].queue
           R == sem'[s].queue
<1>t. TypeOK /\ QueueInv /\ pc \in [Procs -> PCs] /\ pc[p] = "asleep"
      /\ pc' = [pc EXCEPT ![p] = "undo"] /\ mtx' = mtx /\ nr_waiting' = nr_waiting
  BY DEF IInv, TypeOK, SleepInterrupted, Goto
<1>s. /\ s \in Sides /\ p \in Members(s) /\ QueueOK(s)
      /\ sem \in [Sides -> [count : Nat, queue : Seq(Procs)]]
      /\ sem[s].count \in Nat /\ Q \in Seq(Procs) /\ Len(Q) \in Nat
      /\ nr_waiting[s] \in Int
  <2>1. s \in Sides /\ p \in Members(s)
    BY DEF Side, Sides, Members, Procs
  <2>2. sem \in [Sides -> [count : Nat, queue : Seq(Procs)]] /\ nr_waiting[s] \in Int
    BY <1>t, <2>1 DEF TypeOK
  <2>3. sem[s].count \in Nat /\ Q \in Seq(Procs)
    BY <2>1, <2>2
  <2> QED BY <1>t, <2>1, <2>2, <2>3 DEF QueueInv
<1>1. PICK i \in 1..Len(Q) : Q[i] = p /\ sem' = [sem EXCEPT ![s] = Dequeue(sem[s], i)]
  BY DEF SleepInterrupted
<1>2. /\ R = SubSeq(Q, 1, i - 1) \o SubSeq(Q, i + 1, Len(Q))
      /\ sem'[s].count = sem[s].count
      /\ \A t \in Sides \ {s} : sem'[t] = sem[t]
  BY <1>s, <1>1 DEF Dequeue
<1>3. /\ Len(R) = Len(Q) - 1
      /\ \A k \in 1..Len(R) : R[k] = IF k < i THEN Q[k] ELSE Q[k+1]
  <2>1. /\ Q \in Seq(Procs) /\ i \in 1..Len(Q)
        /\ R = SubSeq(Q, 1, i - 1) \o SubSeq(Q, i + 1, Len(Q))
    BY <1>s, <1>1, <1>2
  <2> HIDE DEF Q, R
  <2>2. /\ R \in Seq(Procs) /\ Len(R) = Len(Q) - 1
        /\ \A k \in 1..Len(R) : R[k] = IF k < i THEN Q[k] ELSE Q[k+1]
    BY <2>1, OneRemoved, ZenonT(90)
  <2> QED BY <2>2
<1>4. pc'[p] = "undo" /\ \A q \in Procs \ {p} : pc'[q] = pc[q]
  BY <1>t
<1>5. OthersStay(p)
  BY <1>4 DEF OthersStay
<1>6. mtx' + In(pc'[p], Holding) = mtx + In(pc[p], Holding)
  BY <1>t, <1>4 DEF In, Holding
<1>7. \A t \in Sides \ {s} : Owed(t)' = Owed(t)
  BY <1>t, <1>2 DEF Owed
<1>8. ASSUME NEW t \in Sides \ {s} PROVE QueueOK(t)'
  <2>1. QueueOK(t) /\ Members(t) \subseteq Procs /\ p \notin Members(t)
    BY <1>t, <1>s, ProcsFinite, SidesDisjoint DEF QueueInv
  <2>2. \A j \in 1..Len(sem[t].queue) : pc'[sem[t].queue[j]] = "asleep"
    BY <1>4, <2>1 DEF QueueOK
  <2> QED BY <1>2, <2>1, <2>2 DEF QueueOK
<1>9. QueueOK(s)'
  <2> DEFINE q == Len(Q)
             at(k) == IF k < i THEN k ELSE k + 1
  <2>1. q \in Nat /\ i \in 1..q /\ Len(R) = q - 1
    BY <1>s, <1>1, <1>3
  <2>2. \A k \in 1..Len(R) : R[k] = Q[at(k)]
    BY <1>3
  <2>3. /\ \A j \in 1..q : Q[j] \in Members(s) /\ pc[Q[j]] = "asleep"
        /\ \A j, k \in 1..q : Q[j] = Q[k] => j = k
        /\ sem[s].count > 0 => Q = <<>>
    BY <1>s DEF QueueOK
  <2>4. Members(s) \subseteq Procs /\ Q[i] = p
    BY <1>s, <1>1, ProcsFinite
  <2>5. sem[s].count > 0 => Len(R) < 0
    BY <2>1, <2>3
  <2>6. sem'[s].count = sem[s].count
    BY <1>2
  <2> HIDE DEF q, Q, R
  <2>7. \A k \in 1..Len(R) : at(k) \in 1..q /\ at(k) # i
    BY <2>1
  <2>8. \A j, k \in 1..Len(R) : at(j) = at(k) => j = k
    BY <2>1
  <2> HIDE DEF at
  <2>9. \A k \in 1..Len(R) : R[k] \in Members(s) /\ pc'[R[k]] = "asleep"
    <3> SUFFICES ASSUME NEW k \in 1..Len(R)
                 PROVE  R[k] \in Members(s) /\ pc'[R[k]] = "asleep"
      OBVIOUS
    <3>1. at(k) \in 1..q /\ at(k) # i /\ R[k] = Q[at(k)]
      BY <2>2, <2>7
    <3>2. Q[at(k)] \in Members(s) /\ pc[Q[at(k)]] = "asleep" /\ Q[at(k)] # p
      BY <2>1, <2>3, <2>4, <3>1
    <3> QED BY <1>4, <2>4, <3>1, <3>2
  <2>10. \A j, k \in 1..Len(R) : R[j] = R[k] => j = k
    BY <2>2, <2>3, <2>7, <2>8, Zenon
  <2>11. ~(sem'[s].count > 0)
    BY <2>1, <2>5, <2>6
  <2> QED BY <2>9, <2>10, <2>11 DEF QueueOK, Members, R
<1>10. Owed(s)' = Owed(s) + In(pc'[p], Undoing) - In(pc[p], Undoing)
  <2> DEFINE n == nr_waiting[s]
             c == sem[s].count
             l == Len(Q)
  <2>1. Owed(s) = n + c - l /\ Owed(s)' = n + c - (l - 1)
    BY <1>t, <1>2, <1>3 DEF Owed
  <2>2. n \in Int /\ c \in Nat /\ l \in Nat
    BY <1>s
  <2>3. Owed(s)' = Owed(s) + 1 /\ Owed(s) \in Int
    <3> HIDE DEF n, c, l
    <3> QED BY <2>1, <2>2
  <2> QED BY <1>t, <1>4, <2>3 DEF In, Undoing
<1>11. QueueInv'
  BY <1>8, <1>9 DEF QueueInv
<1> QED BY <1>5, <1>6, <1>7, <1>10, <1>11, StepKeeps
\* Steps that change p's own waiting counter by d, as p enters or leaves the
\* states the balance counts, and release mtx: Wait and Undo.
LEMMA CounterKeeps ==
  ASSUME IInv, TypeOK', NEW p \in Procs, NEW d \in {-1, 1}, NEW next \in {"presleep", "idle"},
         pc[p] \in {"test", "undocs"}, mtx' = 1, sem' = sem,
         nr_waiting' = [nr_waiting EXCEPT ![Side(p)] = @ + d],
         pc' = [pc EXCEPT ![p] = next],
         d = In(next, Undoing) - In(pc[p], Undoing)
  PROVE  IInv'
<1> DEFINE s == Side(p)
<1>t. TypeOK /\ QueueInv /\ MutualExclusion /\ s \in Sides
  BY DEF IInv, Side, Sides
<1>1. pc'[p] = next /\ \A q \in Procs \ {p} : pc'[q] = pc[q]
  BY <1>t DEF TypeOK
<1>2. QueueInv'
  BY <1>t, <1>1, QueueFrame
<1>3. OthersStay(p)
  BY <1>1 DEF OthersStay
<1>4. mtx' + In(pc'[p], Holding) = mtx + In(pc[p], Holding)
  <2>1. mtx = 0
    BY <1>t, HolderHasMutex DEF Holding
  <2> QED BY <1>1, <2>1 DEF In, Holding
<1>5. nr_waiting'[s] = nr_waiting[s] + d /\ \A t \in Sides \ {s} : nr_waiting'[t] = nr_waiting[t]
  BY <1>t DEF TypeOK
<1>6. \A t \in Sides \ {s} : Owed(t)' = Owed(t)
  BY <1>5 DEF Owed
<1>7. Owed(s)' = Owed(s) + d
  <2> DEFINE n == nr_waiting[s]
             c == sem[s].count
             l == Len(sem[s].queue)
  <2>1. Owed(s) = n + c - l /\ Owed(s)' = (n + d) + c - l
    BY <1>5 DEF Owed
  <2>2. sem[s] \in [count : Nat, queue : Seq(Procs)] /\ n \in Int
    BY <1>t DEF TypeOK
  <2>3. c \in Nat /\ l \in Nat
    BY <2>2
  <2> HIDE DEF n, c, l
  <2> QED BY <2>1, <2>2, <2>3
<1>8. Owed(s)' = Owed(s) + In(pc'[p], Undoing) - In(pc[p], Undoing)
  <2>1. Owed(s) \in Int
    BY <1>t, OwedTyped
  <2>2. In(next, Undoing) \in Int /\ In(pc[p], Undoing) \in Int
    BY DEF In
  <2> QED BY <1>1, <1>7, <2>1, <2>2
<1> QED BY <1>2, <1>3, <1>4, <1>6, <1>8, StepKeeps

\* Every step of every handler keeps the invariant.
LEMMA IInvStep == IInv /\ [Next]_vars => IInv'
<1> SUFFICES ASSUME IInv, [Next]_vars PROVE IInv'
  OBVIOUS
<1>t. TypeOK /\ MutualExclusion /\ TypeOK' /\ pc \in [Procs -> PCs]
  BY TypeStep DEF IInv, TypeOK
<1>0. CASE UNCHANGED vars
  <2>1. /\ mtx' = mtx /\ pc' = pc /\ sem' = sem /\ nr_waiting' = nr_waiting
    BY <1>0 DEF vars
  <2>2. QueueInv' /\ MutualExclusion' /\ WaitBalance'
    BY <2>1 DEF IInv, QueueInv, QueueOK, MutualExclusion, WaitBalance, At, Members
  <2> QED BY <1>t, <2>2 DEF IInv
<1> SUFFICES ASSUME NEW p \in Procs,
                    Enter(p) \/ Reject(p) \/ Step(p) \/ Signal(p)
             PROVE  IInv'
  BY <1>0 DEF Next
<1>m. pc[p] \in Holding => mtx = 0
  BY <1>t, HolderHasMutex
<1>s. Side(p) \in Sides /\ Other(Side(p)) \in Sides
  BY DEF Side, Other, Sides
<1>1. CASE Enter(p)
  <2>1. /\ pc[p] = "idle" /\ pc' = [pc EXCEPT ![p] = "lock"]
        /\ mtx' = mtx /\ sem' = sem /\ nr_waiting' = nr_waiting
    BY <1>1 DEF Enter, Goto
  <2> QED BY <1>t, <2>1, QuietKeeps DEF In, Holding, Undoing
<1>2. CASE Reject(p)
  <2>1. /\ pc[p] = "idle" /\ pc' = [pc EXCEPT ![p] = "idle"]
        /\ mtx' = mtx /\ sem' = sem /\ nr_waiting' = nr_waiting
    BY <1>t, <1>2 DEF Reject
  <2> QED BY <1>t, <2>1, QuietKeeps DEF In, Holding, Undoing
<1>3. CASE Lock(p)
  <2>1. PICK next \in Holding : pc' = [pc EXCEPT ![p] = next] /\ (next = "undocs" <=> pc[p] = "undo")
    BY <1>3 DEF Lock, Goto, Holding
  <2>2. /\ pc[p] \in {"lock", "relock", "undo"} /\ mtx = 1 /\ mtx' = 0
        /\ sem' = sem /\ nr_waiting' = nr_waiting
    BY <1>3 DEF Lock
  <2>3. In(next, Undoing) = In(pc[p], Undoing)
    BY <2>1, <2>2 DEF In, Undoing, Holding
  <2>4. mtx' + In(next, Holding) = mtx + In(pc[p], Holding)
    BY <2>2 DEF In, Holding
  <2> QED BY <1>t, <2>1, <2>2, <2>3, <2>4, QuietKeeps
<1>4. CASE LockInterrupted(p)
  <2>1. /\ pc[p] \in {"lock", "relock"} /\ pc' = [pc EXCEPT ![p] = "idle"]
        /\ mtx' = mtx /\ sem' = sem /\ nr_waiting' = nr_waiting
    BY <1>4 DEF LockInterrupted, Goto
  <2>2. In("idle", Undoing) = In(pc[p], Undoing) /\ In("idle", Holding) = In(pc[p], Holding)
    BY <2>1 DEF In, Undoing, Holding
  <2>3. pc[p] # "asleep" /\ mtx' + In("idle", Holding) = mtx + In(pc[p], Holding)
    BY <2>1, <2>2
  <2> QED BY <1>t, <2>1, <2>2, <2>3, QuietKeeps
<1>5. CASE Join(p)
  <2>1. pc[p] = "cs" /\ Wake(Other(Side(p)), p, "test") /\ mtx' = mtx
    BY <1>5 DEF Join
  <2> QED BY <1>t, <1>s, <2>1, WakeKeeps
<1>6. CASE Wait(p)
  <2>1. /\ pc[p] = "test" /\ pc' = [pc EXCEPT ![p] = "presleep"]
        /\ mtx' = 1 /\ sem' = sem
        /\ nr_waiting' = [nr_waiting EXCEPT ![Side(p)] = @ + 1]
    BY <1>6 DEF Wait, Goto
  <2>2. 1 = In("presleep", Undoing) - In(pc[p], Undoing)
    BY <2>1 DEF In, Undoing
  <2> QED BY <1>t, <2>1, <2>2, CounterKeeps
<1>7. CASE Sleep(p)
  BY <1>t, <1>7, SleepKeeps
<1>8. CASE SleepInterrupted(p)
  BY <1>t, <1>8, SleepInterruptedKeeps
<1>9. CASE Undo(p)
  <2>1. /\ pc[p] = "undocs" /\ pc' = [pc EXCEPT ![p] = "idle"]
        /\ mtx' = 1 /\ sem' = sem
        /\ nr_waiting' = [nr_waiting EXCEPT ![Side(p)] = @ - 1]
    BY <1>9 DEF Undo, Goto
  <2>2. nr_waiting' = [nr_waiting EXCEPT ![Side(p)] = @ + (-1)]
    BY <1>s, <1>t, <2>1 DEF TypeOK
  <2>3. -1 = In("idle", Undoing) - In(pc[p], Undoing)
    BY <2>1 DEF In, Undoing
  <2> QED BY <1>t, <2>1, <2>2, <2>3, CounterKeeps
<1>10. CASE OpenDone(p) \/ ReadEOF(p) \/ WriteEPIPE(p)
  <2>1. /\ pc[p] = "test" /\ pc' = [pc EXCEPT ![p] = "idle"]
        /\ mtx' = 1 /\ sem' = sem /\ nr_waiting' = nr_waiting
    BY <1>10 DEF OpenDone, ReadEOF, WriteEPIPE, Goto
  <2>2. mtx = 0
    BY <1>m, <2>1 DEF Holding
  <2>3. /\ mtx' + In("idle", Holding) = mtx + In(pc[p], Holding)
        /\ In("idle", Undoing) = In(pc[p], Undoing)
    BY <2>1, <2>2 DEF In, Holding, Undoing
  <2>4. pc[p] # "asleep"
    BY <2>1
  <2> QED BY <1>t, <2>1, <2>3, <2>4, QuietKeeps
<1>11. CASE Read(p) \/ Write(p) \/ Release(p)
  <2>1. PICK s \in Sides : Wake(s, p, "idle")
    BY <1>s, <1>11 DEF Read, Write, Release, Sides
  <2>2. pc[p] \in {"cs", "test"} /\ mtx' = 1
    BY <1>11 DEF Read, Write, Release
  <2> QED BY <1>t, <2>1, <2>2, WakeKeeps
<1> QED BY <1>1, <1>2, <1>3, <1>4, <1>5, <1>6, <1>7, <1>8, <1>9, <1>10, <1>11
        DEF Step, Signal

\* The types, the wait queues, mtx and the accounts of the waiting counters
\* hold together through every step of the handlers and every signal.
THEOREM MonitorInvariant == Spec => []IInv
  BY IInvInit, IInvStep, PTL DEF Spec

\* No two handlers are ever between their down(&mtx) and their up(&mtx), and
\* mtx is free when none is, through every early return.
THEOREM MutexSafe == Spec => []MutualExclusion
<1>1. IInv => MutualExclusion
  BY DEF IInv
<1> QED BY <1>1, MonitorInvariant, PTL

\* The wake-ups owed and posted on a side always equal the processes that
\* will take one or give it back.
THEOREM BalanceSafe == Spec => []WaitBalance
<1>1. IInv => WaitBalance
  BY DEF IInv
<1> QED BY <1>1, MonitorInvariant, PTL

\* Whoever sleeps is counted by nr_waiting, so that the next process to
\* check it posts a wake-up: the counter never hides a sleeper.
THEOREM SleepersSafe == Spec => []SleepersAreCounted
<1>1. IInv => SleepersAreCounted
  <2> SUFFICES ASSUME IInv, NEW s \in Sides, sem[s].queue # <<>>
               PROVE  sem[s].count = 0 /\ nr_waiting[s] > 0
    BY DEF SleepersAreCounted
  <2> DEFINE n == nr_waiting[s]
             c == sem[s].count
             l == Len(sem[s].queue)
             k == Cardinality(At(Members(s), Undoing))
  <2>1. sem[s] \in [count : Nat, queue : Seq(Procs)] /\ n \in Int
    BY DEF IInv, TypeOK
  <2>2. c \in Nat /\ l \in Nat /\ l > 0
    BY <2>1
  <2>3. k \in Nat
    <3>1. IsFiniteSet(At(Members(s), Undoing))
      BY ProcsFinite, FS_Subset DEF At
    <3> QED BY <3>1, FS_CardinalityType
  <2>4. c = 0
    BY <2>2 DEF IInv, QueueInv, QueueOK
  <2>5. n + c = l + k
    BY DEF IInv, WaitBalance, Undoing
  <2>6. n > 0
    <3> HIDE DEF n, c, l, k
    <3> QED BY <2>1, <2>2, <2>3, <2>4, <2>5
  <2> QED BY <2>4, <2>6
<1> QED BY <1>1, MonitorInvariant, PTL

-----------------------------------------------------------------------------
(* Neither end of the FIFO is undercounted.                                *)

\* A process is inside a call exactly while its handler runs, opens what it
\* has not open, and releases what it has.
CallsOK == \A p \in Procs :
  /\ pc[p] = "idle" => call[p].op = "none"
  /\ call[p].op = "open" => ~fd[p]
  /\ call[p].op = "release" => fd[p]

CoverInv == IInv /\ CallsOK /\ CountsCoverAttached

\* How many of a side have the FIFO open, as SharedLemmas counts them.
Ends == [q \in Procs |-> IF Attached(q) THEN "open" ELSE "closed"]
InUse(q) == IF Attached(q) THEN 1 ELSE 0

\* The processes that CountsCoverAttached counts.
LEMMA CoverAsCount ==
  CountsCoverAttached <=> \A s \in Sides : CountAt(Members(s), {"open"}, Ends) <= count[s]
<1>1. ASSUME NEW s \in Sides
      PROVE  {p \in Members(s) : Attached(p)} = {p \in Members(s) : Ends[p] \in {"open"}}
  BY <1>1, ProcsFinite DEF Ends, Attached
<1> QED BY <1>1 DEF CountsCoverAttached, CountAt

\* A step of p: the calls of the others stay, its own is as CallsOK says, it
\* has the file open as f says, and its side is counted by d more.
CallFrame(p) == \A q \in Procs \ {p} : fd'[q] = fd[q] /\ call'[q] = call[q]
CallKept(p) ==
  /\ pc'[p] = "idle" => call'[p].op = "none"
  /\ call'[p].op = "open" => ~fd'[p]
  /\ call'[p].op = "release" => fd'[p]
Opened(p, f) == fd' = [fd EXCEPT ![p] = f]
Counted(p, d) == \A t \in Sides : count'[t] = IF t = Side(p) THEN count[t] + d ELSE count[t]

\* Whatever p does, the count of its side moves by at least as much as p
\* enters or leaves, and nobody else is affected.
LEMMA CoverStep ==
  ASSUME TypeOK, TypeOK', CallsOK, CountsCoverAttached, NEW p \in Procs, NEW d \in Int,
         OthersStay(p), CallFrame(p), CallKept(p), Counted(p, d),
         InUse(p)' <= InUse(p) + d
  PROVE  CallsOK' /\ CountsCoverAttached'
<1>1. CallsOK'
  BY DEF CallsOK, OthersStay, CallFrame, CallKept
<1>2. \A q \in Procs \ {p} : Ends'[q] \in {"open"} <=> Ends[q] \in {"open"}
  <2> SUFFICES ASSUME NEW q \in Procs \ {p} PROVE Attached(q)' <=> Attached(q)
    BY DEF Ends
  <2>1. pc'[q] \in {"lock", "cs"} <=> pc[q] \in {"lock", "cs"}
    BY DEF OthersStay
  <2> QED BY <2>1 DEF Attached, CallFrame
<1>s. Side(p) \in Sides /\ p \in Members(Side(p))
      /\ \A t \in Sides \ {Side(p)} : p \notin Members(t)
  BY ProcsAssumption DEF Side, Members, Procs, Sides
<1>3. ASSUME NEW t \in Sides PROVE CountAt(Members(t), {"open"}, Ends') <= count'[t]
  <2> DEFINE n == CountAt(Members(t), {"open"}, Ends)
             m == CountAt(Members(t), {"open"}, Ends')
             c == count[t]
             a == InUse(p)
             b == InUse(p)'
  <2>1. IsFiniteSet(Members(t)) /\ \A q \in Members(t) \ {p} : Ends'[q] \in {"open"} <=> Ends[q] \in {"open"}
    BY <1>2, ProcsFinite
  <2>m. CountAt(Members(t), {"open"}, Ends') = CountAt(Members(t), {"open"}, Ends)
          + Moved(p, Members(t), {"open"}, Ends[p], Ends'[p])
    <3> DEFINE f == Ends
               g == Ends'
               M == Members(t)
               X == {"open"}
    <3>1. IsFiniteSet(M) /\ \A q \in M \ {p} : g[q] \in X <=> f[q] \in X
      BY <2>1
    <3> HIDE DEF f, g, M, X
    <3>2. CountAt(M, X, g) = CountAt(M, X, f) + Moved(p, M, X, f[p], g[p])
      BY <3>1, CountStepIn, ZenonT(60)
    <3> QED BY <3>2 DEF f, g, M, X
  <2>2. n \in Nat /\ m = n + Moved(p, Members(t), {"open"}, Ends[p], Ends'[p])
    <3>1. n \in Nat
      BY <2>1, CountNat
    <3>2. m = n + Moved(p, Members(t), {"open"}, Ends[p], Ends'[p])
      BY <2>m
    <3> QED BY <3>1, <3>2
  <2>3. n <= c /\ c \in Int
    BY CoverAsCount DEF TypeOK
  <2>4. a \in {0, 1} /\ b \in {0, 1} /\ b <= a + d
    BY DEF InUse
  <2>5. CASE t = Side(p)
    <3>1. m = n + (b - a)
      <4>1. In(Ends[p], {"open"}) = a /\ In(Ends'[p], {"open"}) = b
        BY DEF Ends, InUse, In
      <4>2. m = n + (In(Ends'[p], {"open"}) - In(Ends[p], {"open"}))
        BY <1>s, <2>2, <2>5 DEF Moved
      <4> QED BY <4>1, <4>2
    <3>2. count'[t] = c + d
      BY <2>5 DEF Counted
    <3>3. m <= c + d
      <4> HIDE DEF n, m, c, a, b
      <4> QED BY <2>2, <2>3, <2>4, <3>1
    <3> QED BY <3>2, <3>3
  <2>6. CASE t # Side(p)
    <3>1. m = n + 0
      BY <1>s, <2>2, <2>6 DEF Moved
    <3>2. count'[t] = c
      BY <2>6 DEF Counted
    <3>3. m <= c
      <4> HIDE DEF n, m, c
      <4> QED BY <2>2, <2>3, <3>1
    <3> QED BY <3>2, <3>3
  <2> QED BY <2>5, <2>6
<1>4. (CountsCoverAttached <=> \A s \in Sides : CountAt(Members(s), {"open"}, Ends) <= count[s])'
  BY CoverAsCount, PTL
<1>5. (\A s \in Sides : CountAt(Members(s), {"open"}, Ends) <= count[s])'
  BY <1>3 DEF Members
<1> QED BY <1>1, <1>4, <1>5

\* The steps in the middle of a call: p stays in it, on the same side of the
\* point where open() counts.
LEMMA CoverQuiet ==
  ASSUME TypeOK, TypeOK', CallsOK, CountsCoverAttached, NEW p \in Procs,
         OthersStay(p), UNCHANGED <<fd, call, count>>, pc[p] # "idle", pc'[p] # "idle",
         \/ call[p].op # "open"
         \/ pc[p] \in {"lock", "cs"} <=> pc'[p] \in {"lock", "cs"}
  PROVE  CallsOK' /\ CountsCoverAttached'
<1>1. Counted(p, 0)
  BY SMTT(30) DEF TypeOK, Counted
<1>2. InUse(p)' <= InUse(p) + 0
  <2>1. Attached(p)' => Attached(p)
    BY DEF Attached
  <2> QED BY <2>1 DEF InUse
<1>3. CallFrame(p) /\ CallKept(p)
  BY DEF CallsOK, CallFrame, CallKept
<1> QED BY <1>1, <1>2, <1>3, CoverStep

\* The steps that end p's call: it then has the file open as f says, and its
\* side is uncounted by d only if it had it open before.
LEMMA CoverReturn ==
  ASSUME TypeOK, TypeOK', CallsOK, CountsCoverAttached, NEW p \in Procs, NEW d \in {0, -1},
         NEW r, NEW f \in BOOLEAN, OthersStay(p), Return(p, r),
         Opened(p, f), Counted(p, d),
         f => Attached(p), d = -1 => Attached(p) /\ ~f
  PROVE  CallsOK' /\ CountsCoverAttached'
<1>1. /\ call'[p] = NoCall /\ NoCall.op = "none" /\ fd'[p] = f
      /\ \A q \in Procs \ {p} : fd'[q] = fd[q] /\ call'[q] = call[q]
  BY Zenon DEF TypeOK, Return, NoCall, Opened
<1>2. Attached(p)' <=> f
  BY <1>1 DEF Attached
<1>3. InUse(p)' = IF f THEN 1 ELSE 0
  BY <1>2 DEF InUse
<1>4. InUse(p) = IF Attached(p) THEN 1 ELSE 0
  BY DEF InUse
<1>5. InUse(p)' <= InUse(p) + d
  BY <1>3, <1>4
<1>6. CallFrame(p) /\ CallKept(p)
  BY <1>1 DEF CallFrame, CallKept
<1>7. d \in Int
  OBVIOUS
<1> QED BY <1>5, <1>6, <1>7, CoverStep

\* Every step of every handler keeps the counts of both ends high enough.
LEMMA CountsStep ==
  ASSUME IInv, TypeOK', CallsOK, CountsCoverAttached, Next
  PROVE  CallsOK' /\ CountsCoverAttached'
<1> PICK p \in Procs : Enter(p) \/ Reject(p) \/ Step(p) \/ Signal(p)
  BY DEF Next
<1>t. /\ TypeOK /\ QueueInv /\ pc \in [Procs -> PCs] /\ fd \in [Procs -> BOOLEAN]
      /\ count \in [Sides -> Int] /\ call \in [Procs -> CallT]
  BY DEF IInv, TypeOK, CallT
<1>s. Side(p) \in Sides /\ Other(Side(p)) \in Sides
  BY DEF Side, Other, Sides
<1>c. count' = count => Counted(p, 0)
  BY <1>t DEF Counted
<1>f. fd[p] \in BOOLEAN /\ (fd' = fd => Opened(p, fd[p]))
  BY <1>t, Zenon DEF Opened
<1>a. fd[p] => Attached(p)
  BY DEF Attached
<1>o. ASSUME NEW next, pc' = [pc EXCEPT ![p] = next]
      PROVE  OthersStay(p) /\ pc'[p] = next
  BY <1>t, <1>o DEF OthersStay
<1>1. CASE Enter(p)
  <2>1. PICK c \in Calls(p) :
          /\ pc[p] = "idle" /\ Allowed(p, c) /\ call' = [call EXCEPT ![p] = c]
          /\ pc' = [pc EXCEPT ![p] = "lock"] /\ UNCHANGED <<fd, count>>
    BY <1>1, Zenon DEF Enter, Goto
  <2>2. /\ call'[p] = c /\ \A q \in Procs \ {p} : call'[q] = call[q]
    BY <1>t, <2>1
  <2>3. OthersStay(p) /\ pc'[p] = "lock"
    BY <1>o, <2>1
  <2>4. InUse(p)' <= InUse(p) + 0
    <3>1. Attached(p)' => Attached(p)
      BY <2>1, <2>3 DEF Attached
    <3> QED BY <3>1 DEF InUse
  <2>5. CallFrame(p) /\ CallKept(p)
    BY <2>1, <2>2, <2>3 DEF Allowed, CallFrame, CallKept
  <2> QED BY <1>t, <1>c, <2>1, <2>2, <2>3, <2>4, <2>5, CoverStep
<1>2. CASE Reject(p)
  <2>1. PICK r : Return(p, r)
    BY <1>2 DEF Reject
  <2>2. OthersStay(p) /\ UNCHANGED <<fd, count>>
    BY <1>2 DEF Reject, OthersStay
  <2> QED BY <1>t, <1>c, <1>f, <1>a, <2>1, <2>2, CoverReturn
<1>3. CASE Lock(p)
  <2>1. PICK next \in Holding : /\ pc' = [pc EXCEPT ![p] = next]
                                /\ next = "cs" => pc[p] = "lock"
                                /\ pc[p] = "lock" /\ call[p].op = "open" => next = "cs"
    BY <1>3 DEF Lock, Goto, Holding
  <2>2. pc[p] \in {"lock", "relock", "undo"} /\ UNCHANGED <<fd, call, count>>
    BY <1>3 DEF Lock
  <2>3. OthersStay(p) /\ pc'[p] = next
    BY <1>o, <2>1
  <2> QED BY <1>t, <2>1, <2>2, <2>3, CoverQuiet DEF Holding
<1>4. CASE LockInterrupted(p)
  <2> DEFINE f == fd[p] /\ call[p].op # "release"
  <2>1. PICK r : Return(p, r)
    BY <1>4 DEF LockInterrupted
  <2>2. OthersStay(p) /\ Opened(p, f) /\ count' = count
    BY <1>4, <1>o DEF LockInterrupted, Goto, Opened
  <2>3. f \in BOOLEAN /\ (f => Attached(p))
    BY <1>f, <1>a
  <2> HIDE DEF f
  <2> QED BY <1>t, <1>c, <2>1, <2>2, <2>3, CoverReturn
<1>5. CASE Join(p)
  <2>1. /\ pc[p] = "cs" /\ call[p].op = "open" /\ Wake(Other(Side(p)), p, "test")
        /\ count' = [count EXCEPT ![Side(p)] = @ + 1] /\ UNCHANGED <<fd, call>>
    BY <1>5 DEF Join
  <2>2. OthersStay(p) /\ pc'[p] = "test"
    <3>1. pc[p] # "asleep" /\ "test" # "asleep" /\ "test" \in PCs
      BY <2>1 DEF PCs
    <3> QED BY <1>t, <1>s, <2>1, <3>1, WakeEffect DEF OthersStay
  <2>3. CallFrame(p) /\ CallKept(p) /\ Counted(p, 1)
    BY <1>t, <2>1, <2>2 DEF CallsOK, CallFrame, CallKept, Counted
  <2>4. InUse(p)' <= InUse(p) + 1
    BY DEF InUse
  <2> QED BY <1>t, <2>1, <2>2, <2>3, <2>4, CoverStep
<1>6. CASE Wait(p) \/ Sleep(p) \/ SleepInterrupted(p)
  <2>1. PICK next \in {"presleep", "relock", "asleep", "undo"} : pc' = [pc EXCEPT ![p] = next]
    BY <1>6 DEF Wait, Sleep, SleepInterrupted, Goto
  <2>2. pc[p] \in {"test", "presleep", "asleep"} /\ UNCHANGED <<fd, call, count>>
    BY <1>6 DEF Wait, Sleep, SleepInterrupted
  <2>3. OthersStay(p) /\ pc'[p] = next
    BY <1>o, <2>1
  <2> QED BY <1>t, <2>2, <2>3, CoverQuiet
<1>7. CASE Undo(p) \/ ReadEOF(p) \/ WriteEPIPE(p)
  <2>1. PICK r : Return(p, r)
    BY <1>7 DEF Undo, ReadEOF, WriteEPIPE
  <2>2. OthersStay(p) /\ UNCHANGED <<fd, count>>
    BY <1>7, <1>o DEF Undo, ReadEOF, WriteEPIPE, Goto
  <2> QED BY <1>t, <1>c, <1>f, <1>a, <2>1, <2>2, CoverReturn
<1>8. CASE OpenDone(p)
  <2> DEFINE f == TRUE
  <2>1. PICK r : Return(p, r)
    BY <1>8 DEF OpenDone
  <2>2. OthersStay(p) /\ Opened(p, f) /\ count' = count
    BY <1>8, <1>o DEF OpenDone, Goto, Opened
  <2>3. f \in BOOLEAN /\ (f => Attached(p))
    BY <1>8 DEF OpenDone, Attached
  <2> HIDE DEF f
  <2> QED BY <1>t, <1>c, <2>1, <2>2, <2>3, CoverReturn
<1>9. CASE Read(p) \/ Write(p) \/ Release(p)
  <2>1. PICK t \in Sides : Wake(t, p, "idle")
    BY <1>s, <1>9 DEF Read, Write, Release, Sides
  <2>2. OthersStay(p)
    <3>1. pc[p] # "asleep" /\ "idle" # "asleep" /\ "idle" \in PCs
      BY <1>9 DEF PCs, Read, Write, Release
    <3> QED BY <1>t, <2>1, <3>1, WakeEffect DEF OthersStay
  <2>3. PICK r : Return(p, r)
    BY <1>9 DEF Read, Write, Release
  <2>4. CASE Read(p) \/ Write(p)
    <3>1. UNCHANGED <<fd, count>>
      BY <2>4 DEF Read, Write
    <3> QED BY <1>t, <1>c, <1>f, <1>a, <2>2, <2>3, <3>1, CoverReturn
  <2>5. CASE Release(p)
    <3>1. /\ Opened(p, FALSE) /\ count' = [count EXCEPT ![Side(p)] = @ - 1]
          /\ call[p].op = "release"
      BY <2>5 DEF Release, Opened
    <3>2. Counted(p, -1)
      BY <1>t, <1>s, <3>1 DEF Counted
    <3>3. Attached(p)
      BY <1>a, <3>1 DEF CallsOK
    <3> QED BY <1>t, <2>2, <2>3, <3>1, <3>2, <3>3, CoverReturn
  <2> QED BY <1>9, <2>4, <2>5
<1> QED BY <1>1, <1>2, <1>3, <1>4, <1>5, <1>6, <1>7, <1>8, <1>9 DEF Step, Signal

\* Initially nobody has the FIFO open.
LEMMA CoverInit == Init => CoverInv
<1> SUFFICES ASSUME Init PROVE CoverInv
  OBVIOUS
<1>1. CallsOK
  BY DEF Init, CallsOK, NoCall
<1>2. \A s \in Sides : CountAt(Members(s), {"open"}, Ends) = 0 /\ count[s] = 0
  <2>1. \A s \in Sides : {p \in Members(s) : Ends[p] \in {"open"}} = {}
    BY ProcsFinite DEF Init, Ends, Attached, NoCall
  <2> QED BY <2>1, FS_EmptySet DEF CountAt, Init
<1>3. CountsCoverAttached
  BY <1>2, CoverAsCount
<1> QED BY <1>1, <1>3, IInvInit DEF CoverInv

\* The invariant with the accounts of the two ends is inductive.
LEMMA CoverInvStep == CoverInv /\ [Next]_vars => CoverInv'
<1> SUFFICES ASSUME CoverInv, [Next]_vars PROVE CoverInv'
  OBVIOUS
<1>1. IInv' /\ TypeOK'
  BY IInvStep DEF CoverInv, IInv
<1>2. CASE Next
  BY <1>1, <1>2, CountsStep DEF CoverInv
<1>3. CASE UNCHANGED vars
  <2>1. CallsOK' /\ CountsCoverAttached'
    BY <1>3 DEF CoverInv, CallsOK, CountsCoverAttached, Attached, Members, vars
  <2> QED BY <1>1, <2>1 DEF CoverInv
<1> QED BY <1>2, <1>3

\* No end is ever undercounted: an open(), also one interrupted after it was
\* counted, and a release(), also one lost to a signal, err on the safe side.
THEOREM CountsSafe == Spec => []CountsCoverAttached
<1>1. CoverInv => CountsCoverAttached
  BY DEF CoverInv
<1> QED BY <1>1, CoverInit, CoverInvStep, PTL DEF Spec

-----------------------------------------------------------------------------
(* The pipe.                                                               *)

\* One length of message, as sizeof(struct message) in fifotest.c.  What does
\* not fit into the buffer at all is refused before it matters.
OneLength(n) ==
  /\ \A m \in Messages : Len(m) <= MAX_ITEMS_CBUF => Len(m) = n
  /\ \A k \in Lens : k <= MAX_ITEMS_CBUF => k = n
FixedLength == \E n \in Nat : OneLength(n)
MsgLen == CHOOSE n \in Nat : OneLength(n)

\* A process inside a handler has made a call that its side can make, with a
\* message of that length; a release() never gets as far as waiting.
CallMade(p) ==
  /\ pc[p] = "idle" <=> call[p] = NoCall
  /\ call[p].op = "release" => pc[p] \in {"lock", "cs"}
  /\ call[p].op = "read" => call[p].len = MsgLen
  /\ call[p].op = "write" =>
       call[p].data \in Messages /\ call[p].len = MsgLen /\ Len(call[p].data) = MsgLen
CallsMade == \A p \in Procs : CallMade(p)

\* The buffer is a row of whole messages.
Message(j) == [i \in 1..MsgLen |-> cbuffer[j * MsgLen + i]]
WholeBuffer == \E k \in Nat :
  Len(cbuffer) = k * MsgLen /\ \A j \in 0 .. k-1 : Message(j) \in Messages

\* What the refinement rests on.
PipeInv == CoverInv /\ CallsMade /\ WholeBuffer /\ WholeMessages
-----------------------------------------------------------------------------
(* Rows of messages.                                                       *)

\* The length is a number.
LEMMA LengthTyped == FixedLength => MsgLen \in Nat /\ OneLength(MsgLen)
  BY DEF FixedLength, MsgLen

\* The bytes of the j-th of k messages of n bytes are among the first k * n.
LEMMA Places ==
  ASSUME NEW n \in Nat, NEW k \in Nat, NEW j \in 0 .. k-1, NEW i \in 1..n
  PROVE  j * n + i \in 1 .. k * n /\ (j + 1) * n = j * n + n
<1>1. (j + 1) * n = j * n + n /\ j * n \in Nat /\ k * n \in Nat
  OBVIOUS
<1> DEFINE d == k - (j + 1)
<1>2. d \in Nat /\ k = (j + 1) + d
  OBVIOUS
<1>3. k * n = (j + 1) * n + d * n /\ d * n \in Nat
  <2> HIDE DEF d
  <2> QED BY <1>2
<1>4. j * n + i <= k * n
  <2> DEFINE a == j * n
             b == (j + 1) * n
             c == k * n
             e == d * n
  <2>1. /\ b = a + n /\ a \in Nat /\ c \in Nat /\ c = b + e /\ e \in Nat
    BY <1>1, <1>3
  <2>2. a + i <= c
    <3> HIDE DEF a, b, c, e
    <3> QED BY <2>1
  <2> QED BY <2>2
<1> QED BY <1>1, <1>4

\* A row of messages that is neither empty nor as long as one does not exist.
LEMMA NoHalfMessage ==
  ASSUME NEW n \in Nat, NEW k \in Nat, k * n < n
  PROVE  k * n = 0
<1>1. CASE k = 0
  BY <1>1
<1>2. CASE k # 0
  <2> DEFINE j == k - 1
  <2>1. j \in Nat /\ k = j + 1
    BY <1>2
  <2>2. k * n = j * n + n /\ j * n \in Nat
    <3> HIDE DEF j
    <3> QED BY <2>1
  <2> QED BY <2>2
<1> QED BY <1>1, <1>2

\* A read of one message takes the first of the row and leaves the others.
LEMMA FirstTaken ==
  ASSUME NEW n \in Nat, n = MsgLen, cbuffer \in Seq(Byte), WholeBuffer, n <= Len(cbuffer),
         cbuffer' = SubSeq(cbuffer, n + 1, Len(cbuffer))
  PROVE  /\ WholeBuffer'
         /\ n # 0 => SubSeq(cbuffer, 1, n) \in Messages
<1> DEFINE l == Len(cbuffer)
<1>1. PICK k \in Nat : l = k * n /\ \A j \in 0 .. k-1 : Message(j) \in Messages
  BY DEF WholeBuffer
<1>2. l \in Nat /\ cbuffer' \in Seq(Byte) /\ Len(cbuffer') = l - n
      /\ \A i \in 1 .. l - n : cbuffer'[i] = cbuffer[i + n]
  <2>1. l \in Nat /\ n + 1 \in 1 .. l + 1
    OBVIOUS
  <2> QED BY <2>1
<1>m. MsgLen' = MsgLen
  BY DEF MsgLen, OneLength
<1>3. CASE n = 0
  <2>1. Len(cbuffer') = 0 * MsgLen' /\ 0 \in Nat /\ 0 .. 0-1 = {}
    BY <1>1, <1>2, <1>3, <1>m
  <2> QED BY <2>1, <1>3 DEF WholeBuffer
<1>4. CASE n # 0
  <2> DEFINE m == k - 1
  <2>1. m \in Nat /\ k = m + 1
    <3>1. k # 0
      BY <1>1, <1>4
    <3> QED BY <3>1
  <2>2. l = m * n + n /\ m * n \in Nat
    <3> HIDE DEF m
    <3> QED BY <1>1, <2>1
  <2>3. Len(cbuffer') = m * n
    BY <1>2, <2>2
  <2>4. ASSUME NEW j \in 0 .. m-1 PROVE Message(j)' \in Messages
    <3>1. Message(j + 1) \in Messages
      BY <1>1, <2>1
    <3>2. ASSUME NEW i \in 1..n PROVE cbuffer'[j * n + i] = cbuffer[(j + 1) * n + i]
      <4>1. j * n + i \in 1 .. m * n /\ (j + 1) * n = j * n + n /\ j * n \in Nat
        BY <2>1, Places
      <4>2. cbuffer'[j * n + i] = cbuffer[(j * n + i) + n]
        BY <1>2, <2>2, <4>1
      <4>3. (j * n + i) + n = (j + 1) * n + i
        BY <4>1
      <4> QED BY <4>2, <4>3
    <3>3. Message(j)' = Message(j + 1)
      BY <3>2, <1>m DEF Message
    <3> QED BY <3>1, <3>3
  <2>5. WholeBuffer'
    <3> HIDE DEF m
    <3> QED BY <2>1, <2>3, <2>4, <1>m DEF WholeBuffer
  <2>6. SubSeq(cbuffer, 1, n) = Message(0)
    <3>1. Message(0) = [i \in 1..n |-> cbuffer[i]]
      BY DEF Message
    <3> QED BY <3>1
  <2>7. 0 \in 0 .. k-1
    <3> HIDE DEF m
    <3> QED BY <2>1
  <2>8. Message(0) \in Messages
    BY <1>1, <2>7
  <2> QED BY <2>5, <2>6, <2>8
<1> QED BY <1>3, <1>4

\* A write adds one message at the end of the row.
LEMMA LastAdded ==
  ASSUME NEW n \in Nat, n = MsgLen, cbuffer \in Seq(Byte), WholeBuffer,
         NEW d \in Messages, Len(d) = n, cbuffer' = cbuffer \o d
  PROVE  WholeBuffer'
<1> DEFINE l == Len(cbuffer)
<1>1. PICK k \in Nat : l = k * n /\ \A j \in 0 .. k-1 : Message(j) \in Messages
  BY DEF WholeBuffer
<1>d. d \in Seq(Byte)
  BY DataAssumption
<1>2. /\ l \in Nat /\ Len(cbuffer') = l + n
      /\ \A i \in 1..l : cbuffer'[i] = cbuffer[i]
      /\ \A i \in 1..n : cbuffer'[l + i] = d[i]
  <2>1. cbuffer' = cbuffer \o d /\ l \in Nat
    OBVIOUS
  <2>2. /\ Len(cbuffer') = l + n
        /\ \A i \in 1 .. l + n : cbuffer'[i] = IF i <= l THEN cbuffer[i] ELSE d[i - l]
    BY <1>d, <2>1, ConcatProperties
  <2> QED BY <2>1, <2>2
<1>m. MsgLen' = MsgLen
  BY DEF MsgLen, OneLength
<1>3. (k + 1) * n = k * n + n /\ k + 1 \in Nat
  OBVIOUS
<1>4. ASSUME NEW j \in 0..k PROVE Message(j)' \in Messages
  <2>1. CASE j = k
    <3>1. Message(j)' = [i \in 1..n |-> d[i]]
      BY <1>1, <1>2, <1>m, <2>1 DEF Message
    <3>2. d = [i \in 1..n |-> d[i]]
      BY <1>d
    <3> QED BY <3>1, <3>2
  <2>2. CASE j # k
    <3>1. j \in 0 .. k-1
      BY <2>2
    <3>2. ASSUME NEW i \in 1..n PROVE cbuffer'[j * n + i] = cbuffer[j * n + i]
      <4>1. j * n + i \in 1..l
        BY <1>1, <3>1, Places
      <4> QED BY <1>2, <4>1
    <3>3. Message(j)' = Message(j)
      BY <3>2, <1>m DEF Message
    <3> QED BY <1>1, <3>1, <3>3
  <2> QED BY <2>1, <2>2
<1>5. Len(cbuffer') = (k + 1) * MsgLen' /\ \A j \in 0 .. (k + 1) - 1 : Message(j)' \in Messages
  BY <1>1, <1>2, <1>3, <1>4, <1>m
<1> QED BY <1>3, <1>5 DEF WholeBuffer
-----------------------------------------------------------------------------
(* What each handler does, with whole messages.                            *)

\* The counts of the two ends are never negative.
LEMMA CountsNat == CoverInv => \A s \in Sides : count[s] \in Nat
<1> SUFFICES ASSUME CoverInv, NEW s \in Sides PROVE count[s] \in Nat
  OBVIOUS
<1> DEFINE c == Cardinality({p \in Members(s) : Attached(p)})
<1>1. count[s] \in Int /\ c <= count[s]
  BY DEF CoverInv, IInv, TypeOK, CountsCoverAttached
<1>2. c \in Nat
  <2>1. IsFiniteSet({p \in Members(s) : Attached(p)})
    BY ProcsFinite, FS_Subset
  <2> QED BY <2>1, FS_CardinalityType
<1> HIDE DEF c
<1> QED BY <1>1, <1>2

\* A side that is counted as gone is gone.
LEMMA NobodyThere ==
  CoverInv => \A s \in Sides : count[s] = 0 => \A p \in Members(s) : ~Attached(p)
<1> SUFFICES ASSUME CoverInv, NEW s \in Sides, count[s] = 0
             PROVE  \A p \in Members(s) : ~Attached(p)
  OBVIOUS
<1> DEFINE A == {p \in Members(s) : Attached(p)}
<1>1. IsFiniteSet(A)
  BY ProcsFinite, FS_Subset
<1>2. Cardinality(A) <= 0
  BY DEF CoverInv, CountsCoverAttached
<1>3. Cardinality(A) = 0
  <2>1. Cardinality(A) \in Nat
    BY <1>1, FS_CardinalityType
  <2> HIDE DEF A
  <2> QED BY <1>2, <2>1
<1>4. A = {}
  BY <1>1, <1>3, FS_EmptySet
<1> QED BY <1>4

\* So also in the next state.
LEMMA NobodyGone ==
  (CoverInv => \A s \in Sides : count[s] = 0 => \A p \in Members(s) : ~Attached(p))'
  BY NobodyThere, PTL

\* A read() past its loop finds its message, or the end of file.
LEMMA ReadFinds ==
  ASSUME FixedLength, PipeInv, NEW p \in Procs, call[p].op = "read", ~MustWait(p),
         ~ (count["prod"] = 0 /\ cbuffer = <<>>)
  PROVE  call[p].len = MsgLen /\ call[p].len <= Len(cbuffer)
<1> DEFINE n == MsgLen
           l == Len(cbuffer)
<1>1. call[p].len = n
  BY DEF PipeInv, CallsMade, CallMade
<1>2. PICK k \in Nat : l = k * n
  BY DEF PipeInv, WholeBuffer
<1>3. n \in Nat /\ cbuffer \in Seq(Byte) /\ l \in Nat
  BY LengthTyped DEF PipeInv, CoverInv, IInv, TypeOK
<1>4. count["prod"] \in Nat
  BY CountsNat DEF PipeInv, Sides
<1>5. ~ (l < n /\ count["prod"] > 0)
  BY <1>1 DEF MustWait, Size
<1>6. ASSUME l < n PROVE FALSE
  <2>1. k * n < n
    BY <1>2, <1>6
  <2>2. l = 0
    <3> HIDE DEF n, l
    <3> QED BY <1>2, <1>3, <2>1, NoHalfMessage
  <2>3. count["prod"] = 0
    BY <1>4, <1>5, <1>6
  <2>4. cbuffer = <<>>
    BY <1>3, <2>2
  <2> QED BY <2>3, <2>4
<1>7. n <= l
  <2> HIDE DEF n, l
  <2> QED BY <1>3, <1>6
<1> QED BY <1>1, <1>7

\* Over either buffer it takes the first message.
LEMMA ReadTakes ==
  ASSUME FixedLength, PipeInv, NEW p \in Procs, Read(p)
  PROVE  /\ Return(p, Result("OK", SubSeq(cbuffer, 1, MsgLen)))
         /\ cbuffer' = SubSeq(cbuffer, MsgLen + 1, Len(cbuffer))
         /\ MsgLen \in Nat /\ MsgLen <= Len(cbuffer) /\ call[p].len = MsgLen
<1>1. call[p].len = MsgLen /\ call[p].len <= Len(cbuffer) /\ MsgLen \in Nat
  BY ReadFinds, LengthTyped DEF Read
<1>2. Len(cbuffer) \in Nat
  BY DEF PipeInv, CoverInv, IInv, TypeOK
<1>3. ~(call[p].len > Size)
  BY <1>1, <1>2 DEF Size
<1> QED BY <1>1, <1>3 DEF Read, Size

\* A write() past its loop, with readers there, has room for its message.
LEMMA WriteFits ==
  ASSUME FixedLength, PipeInv, NEW p \in Procs, call[p].op = "write", ~MustWait(p),
         count["cons"] # 0
  PROVE  /\ call[p].data \in Messages /\ call[p].len = MsgLen /\ MsgLen \in Nat
         /\ Len(call[p].data) = MsgLen /\ Len(cbuffer) + MsgLen <= MAX_ITEMS_CBUF
         /\ call[p].len <= Gaps
<1> DEFINE n == MsgLen
           l == Len(cbuffer)
<1>1. call[p].data \in Messages /\ call[p].len = n /\ Len(call[p].data) = n /\ n \in Nat
  BY LengthTyped DEF PipeInv, CallsMade, CallMade
<1>2. count["cons"] \in Nat
  BY CountsNat DEF PipeInv, Sides
<1>3. l \in Nat /\ MAX_ITEMS_CBUF \in Nat
  BY CapacityAssumption DEF PipeInv, CoverInv, IInv, TypeOK
<1>4. ~ (MAX_ITEMS_CBUF - l < n)
  BY <1>1, <1>2 DEF MustWait, Gaps, Size
<1>5. l + n <= MAX_ITEMS_CBUF /\ n <= MAX_ITEMS_CBUF - l
  <2> HIDE DEF n, l
  <2> QED BY <1>1, <1>3, <1>4
<1> QED BY <1>1, <1>5 DEF Gaps, Size

\* It puts the message at the end and overwrites nothing.
LEMMA WriteAdds ==
  ASSUME FixedLength, PipeInv, NEW p \in Procs, Write(p)
  PROVE  /\ cbuffer' = cbuffer \o call[p].data
         /\ call[p].data \in Messages /\ call[p].len = MsgLen /\ MsgLen \in Nat
         /\ Len(call[p].data) = MsgLen /\ Len(cbuffer) + call[p].len <= MAX_ITEMS_CBUF
<1>1. /\ call[p].data \in Messages /\ call[p].len = MsgLen /\ MsgLen \in Nat
      /\ Len(call[p].data) = MsgLen /\ Len(cbuffer) + MsgLen <= MAX_ITEMS_CBUF
  BY WriteFits DEF Write
<1>2. cbuffer \in Seq(Byte) /\ call[p].data \in Seq(Byte)
  BY <1>1, DataAssumption DEF PipeInv, CoverInv, IInv, TypeOK
<1>3. Len(cbuffer \o call[p].data) <= MAX_ITEMS_CBUF
  <2>1. Len(cbuffer \o call[p].data) = Len(cbuffer) + Len(call[p].data)
    BY <1>2, ConcatProperties
  <2> QED BY <1>1, <2>1
<1>4. Inserted(call[p].data) = cbuffer \o call[p].data
  BY <1>3 DEF Inserted
<1> QED BY <1>1, <1>4 DEF Write
-----------------------------------------------------------------------------
(* The invariant.                                                          *)

\* A step of p touches no other process, but for waking sleepers.
OthersKeep(p) == \A q \in Procs \ {p} : fd'[q] = fd[q] /\ call'[q] = call[q] /\ res'[q] = res[q]

\* Whatever p does, the others stay where they are and keep what they have.
LEMMA Frames ==
  ASSUME TypeOK, QueueInv, NEW p \in Procs, Enter(p) \/ Reject(p) \/ Step(p) \/ Signal(p)
  PROVE  OthersStay(p) /\ OthersKeep(p)
<1>t. /\ pc \in [Procs -> PCs] /\ fd \in [Procs -> BOOLEAN] /\ call \in [Procs -> CallT]
      /\ res \in [Procs -> ResT]
  BY DEF TypeOK, CallT, ResT
<1>s. Side(p) \in Sides /\ Other(Side(p)) \in Sides
  BY DEF Side, Other, Sides
<1>1. CASE Enter(p)
  BY <1>1, <1>t DEF Enter, Goto, OthersStay, OthersKeep
<1>2. CASE Reject(p)
  BY <1>2, <1>t DEF Reject, Return, OthersStay, OthersKeep
<1>3. CASE Lock(p) \/ Wait(p) \/ Sleep(p) \/ SleepInterrupted(p)
  BY <1>3, <1>t DEF Lock, Wait, Sleep, SleepInterrupted, Goto, OthersStay, OthersKeep
<1>4. CASE LockInterrupted(p) \/ Undo(p) \/ OpenDone(p) \/ ReadEOF(p) \/ WriteEPIPE(p)
  BY <1>4, <1>t DEF LockInterrupted, Undo, OpenDone, ReadEOF, WriteEPIPE, Goto, Return,
     OthersStay, OthersKeep
<1>5. CASE Join(p) \/ Read(p) \/ Write(p) \/ Release(p)
  <2>1. PICK t \in Sides, next \in {"test", "idle"} : Wake(t, p, next)
    BY <1>5, <1>s DEF Join, Read, Write, Release, Sides
  <2>2. OthersStay(p)
    <3>1. pc[p] # "asleep" /\ next # "asleep" /\ next \in PCs
      BY <1>5 DEF PCs, Join, Read, Write, Release
    <3> QED BY <1>t, <2>1, <3>1, WakeEffect DEF OthersStay
  <2>3. OthersKeep(p)
    BY <1>5, <1>t DEF Join, Read, Write, Release, Return, OthersKeep
  <2> QED BY <2>2, <2>3
<1> QED BY <1>1, <1>2, <1>3, <1>4, <1>5 DEF Step, Signal

\* The calls an end can make.
LEMMA CallKinds ==
  ASSUME FixedLength, NEW p \in Procs, NEW c \in Calls(p), c.len <= MAX_ITEMS_CBUF
  PROVE  /\ c.op \in {"open", "release", "read", "write"} /\ c # NoCall
         /\ c.op = "read" => p \notin Producers /\ c.len = MsgLen
         /\ c.op = "write" => /\ p \in Producers /\ c.data \in Messages
                             /\ c.len = MsgLen /\ Len(c.data) = MsgLen
<1>l. OneLength(MsgLen)
  BY LengthTyped
<1>1. \/ c \in {[op |-> o, data |-> <<>>, len |-> 0] : o \in {"open", "release"}}
      \/ p \in Producers /\ c \in {[op |-> "write", data |-> d, len |-> Len(d)] : d \in Messages}
      \/ p \notin Producers /\ c \in {[op |-> "read", data |-> <<>>, len |-> n] : n \in Lens}
  BY Zenon DEF Calls
<1>2. CASE c \in {[op |-> o, data |-> <<>>, len |-> 0] : o \in {"open", "release"}}
  <2>1. PICK o \in {"open", "release"} : c = [op |-> o, data |-> <<>>, len |-> 0]
    BY <1>2
  <2> QED BY <2>1 DEF NoCall
<1>3. CASE p \in Producers /\ c \in {[op |-> "write", data |-> d, len |-> Len(d)] : d \in Messages}
  <2>1. PICK d \in Messages : c = [op |-> "write", data |-> d, len |-> Len(d)]
    BY <1>3
  <2> QED BY <1>3, <1>l, <2>1 DEF NoCall, OneLength
<1>4. CASE p \notin Producers /\ c \in {[op |-> "read", data |-> <<>>, len |-> n] : n \in Lens}
  <2>1. PICK n \in Lens : c = [op |-> "read", data |-> <<>>, len |-> n]
    BY <1>4
  <2> QED BY <1>4, <1>l, <2>1 DEF NoCall, OneLength
<1> QED BY <1>1, <1>2, <1>3, <1>4

\* What a call that ends leaves behind.
LEMMA Returned ==
  ASSUME TypeOK, NEW p \in Procs, NEW r, Return(p, r)
  PROVE  call'[p] = NoCall /\ res'[p] = r
  BY DEF TypeOK, Return

\* The calls in progress stay what they were.
LEMMA CallsKept ==
  ASSUME CallsMade, NEW p \in Procs, OthersStay(p), OthersKeep(p), CallMade(p)'
  PROVE  CallsMade'
<1>1. ASSUME NEW q \in Procs \ {p} PROVE CallMade(q)'
  <2>1. call'[q] = call[q] /\ (pc'[q] = pc[q] \/ (pc[q] = "asleep" /\ pc'[q] = "relock"))
    BY DEF OthersStay, OthersKeep
  <2>2. MsgLen' = MsgLen /\ CallMade(q)
    BY DEF MsgLen, OneLength, CallsMade
  <2> QED BY <2>1, <2>2 DEF CallMade
<1> QED BY <1>1 DEF CallsMade

\* Every step leaves calls that their handlers can be in.
LEMMA CallsMadeStep ==
  ASSUME FixedLength, PipeInv, NEW p \in Procs, Enter(p) \/ Reject(p) \/ Step(p) \/ Signal(p)
  PROVE  CallsMade'
<1>t. /\ TypeOK /\ QueueInv /\ CallsMade /\ CallMade(p) /\ pc \in [Procs -> PCs]
      /\ call \in [Procs -> CallT] /\ MsgLen' = MsgLen
  BY DEF PipeInv, CoverInv, IInv, TypeOK, CallT, CallsMade, MsgLen, OneLength
<1>f. OthersStay(p) /\ OthersKeep(p)
  BY <1>t, Frames
<1>n. ASSUME call'[p] = NoCall, pc'[p] = "idle" PROVE CallMade(p)'
  BY <1>n DEF CallMade, NoCall
<1> SUFFICES CallMade(p)'
  BY <1>t, <1>f, CallsKept
<1>1. CASE Enter(p)
  <2>1. PICK c \in Calls(p) : c.len <= MAX_ITEMS_CBUF /\ call'[p] = c /\ pc'[p] = "lock"
    BY <1>1, <1>t DEF Enter, Goto
  <2> QED BY <1>t, <2>1, CallKinds DEF CallMade
<1>2. CASE Reject(p)
  <2>1. pc[p] = "idle" /\ pc' = pc /\ \E r : Return(p, r)
    BY <1>2 DEF Reject
  <2> QED BY <1>n, <1>t, <2>1, Returned
<1>3. CASE Lock(p)
  <2>1. /\ pc[p] \in {"lock", "relock", "undo"} /\ call' = call
        /\ pc'[p] \in {"undocs", "cs", "test"}
        /\ pc[p] = "lock" /\ call[p].op = "release" => pc'[p] = "cs"
    BY <1>3, <1>t DEF Lock, Goto
  <2> QED BY <1>t, <2>1 DEF CallMade
<1>4. CASE Wait(p) \/ Sleep(p) \/ SleepInterrupted(p)
  <2>1. /\ pc[p] \in {"test", "presleep", "asleep"} /\ call' = call
        /\ pc'[p] \in {"presleep", "relock", "asleep", "undo"}
    BY <1>4, <1>t DEF Wait, Sleep, SleepInterrupted, Goto
  <2> QED BY <1>t, <2>1 DEF CallMade
<1>5. CASE Join(p)
  <2>1. pc[p] = "cs" /\ call[p].op = "open" /\ call' = call /\ pc'[p] = "test"
    <3>1. /\ pc[p] = "cs" /\ call[p].op = "open" /\ call' = call
          /\ Wake(Other(Side(p)), p, "test")
      BY <1>5 DEF Join
    <3>2. Other(Side(p)) \in Sides /\ "test" \in PCs
      BY DEF Side, Other, Sides, PCs
    <3> QED BY <1>t, <3>1, <3>2, WakeEffect
  <2> QED BY <1>t, <2>1 DEF CallMade
<1>6. CASE LockInterrupted(p) \/ Undo(p) \/ OpenDone(p) \/ ReadEOF(p) \/ WriteEPIPE(p)
  <2>1. pc'[p] = "idle" /\ \E r : Return(p, r)
    BY <1>6, <1>t DEF LockInterrupted, Undo, OpenDone, ReadEOF, WriteEPIPE, Goto
  <2> QED BY <1>n, <1>t, <2>1, Returned
<1>7. CASE Read(p) \/ Write(p) \/ Release(p)
  <2>1. \E r : Return(p, r)
    BY <1>7 DEF Read, Write, Release
  <2>2. pc'[p] = "idle"
    <3>1. PICK t \in Sides : Wake(t, p, "idle")
      BY <1>7 DEF Read, Write, Release, Side, Other, Sides
    <3>2. pc[p] # "asleep" /\ "idle" \in PCs
      BY <1>7 DEF Read, Write, Release, PCs
    <3> QED BY <1>t, <3>1, <3>2, WakeEffect
  <2> QED BY <1>n, <1>t, <2>1, <2>2, Returned
<1> QED BY <1>1, <1>2, <1>3, <1>4, <1>5, <1>6, <1>7 DEF Step, Signal

\* Every step leaves whole messages, in the buffer and with the readers.
LEMMA WholeStep ==
  ASSUME FixedLength, PipeInv, NEW p \in Procs, Enter(p) \/ Reject(p) \/ Step(p) \/ Signal(p)
  PROVE  WholeBuffer' /\ WholeMessages'
<1>t. /\ TypeOK /\ QueueInv /\ WholeBuffer /\ WholeMessages /\ cbuffer \in Seq(Byte)
      /\ MsgLen' = MsgLen /\ MsgLen \in Nat /\ res \in [Procs -> ResT]
  BY LengthTyped DEF PipeInv, CoverInv, IInv, TypeOK, ResT, MsgLen, OneLength
<1>f. OthersKeep(p)
  BY <1>t, Frames
<1>b. cbuffer' = cbuffer => WholeBuffer'
  BY <1>t DEF WholeBuffer, Message
<1>r. ASSUME \/ res'[p] = res[p]
             \/ res'[p].data = <<>>
             \/ res'[p].data \in Messages
      PROVE  WholeMessages'
  <2>1. Consumers \subseteq Procs
    BY DEF Procs
  <2> QED BY <1>t, <1>f, <1>r, <2>1 DEF WholeMessages, OthersKeep
<1>e. ASSUME NEW c, Return(p, Result(c, <<>>)) PROVE WholeMessages'
  <2>1. res'[p] = Result(c, <<>>)
    BY <1>t, <1>e, Returned
  <2> QED BY <1>r, <2>1 DEF Result
<1>1. CASE Enter(p)
  <2>1. res'[p] = NoResult /\ cbuffer' = cbuffer
    BY <1>1, <1>t DEF Enter
  <2> QED BY <1>b, <1>r, <2>1 DEF NoResult, Result
<1>2. CASE Lock(p) \/ Wait(p) \/ Sleep(p) \/ SleepInterrupted(p) \/ Join(p)
  <2>1. cbuffer' = cbuffer /\ res' = res
    BY <1>2 DEF Lock, Wait, Sleep, SleepInterrupted, Join
  <2> QED BY <1>b, <1>r, <2>1
<1>3. CASE \/ Reject(p) \/ LockInterrupted(p) \/ Undo(p) \/ OpenDone(p) \/ ReadEOF(p)
           \/ WriteEPIPE(p)
  <2>1. cbuffer' = cbuffer /\ \E c : Return(p, Result(c, <<>>))
    BY <1>3 DEF Reject, LockInterrupted, Undo, OpenDone, ReadEOF, WriteEPIPE
  <2> QED BY <1>b, <1>e, <2>1
<1>4. CASE Read(p)
  <2>1. /\ Return(p, Result("OK", SubSeq(cbuffer, 1, MsgLen)))
        /\ cbuffer' = SubSeq(cbuffer, MsgLen + 1, Len(cbuffer)) /\ MsgLen <= Len(cbuffer)
    BY <1>4, ReadTakes
  <2>2. WholeBuffer' /\ (MsgLen # 0 => SubSeq(cbuffer, 1, MsgLen) \in Messages)
    BY <1>t, <2>1, FirstTaken
  <2>3. res'[p] = Result("OK", SubSeq(cbuffer, 1, MsgLen))
    BY <1>t, <2>1, Returned
  <2>4. MsgLen = 0 => SubSeq(cbuffer, 1, MsgLen) = <<>>
    BY <1>t
  <2> QED BY <1>r, <2>2, <2>3, <2>4 DEF Result
<1>5. CASE Write(p)
  <2>1. /\ cbuffer' = cbuffer \o call[p].data /\ call[p].data \in Messages
        /\ Len(call[p].data) = MsgLen
    BY <1>5, WriteAdds
  <2>2. WholeBuffer'
    BY <1>t, <2>1, LastAdded
  <2>3. Return(p, Result("OK", <<>>))
    BY <1>5 DEF Write
  <2> QED BY <1>e, <2>2, <2>3
<1>6. CASE Release(p)
  <2>1. cbuffer' = cbuffer \/ cbuffer' = <<>>
    BY <1>6 DEF Release
  <2>2. cbuffer' = <<>> => WholeBuffer'
    <3>1. Len(<<>>) = 0 * MsgLen /\ 0 \in Nat /\ 0 .. 0-1 = {}
      BY <1>t
    <3> QED BY <1>t, <3>1 DEF WholeBuffer
  <2>3. Return(p, Result("OK", <<>>))
    BY <1>6 DEF Release
  <2> QED BY <1>b, <1>e, <2>1, <2>2, <2>3
<1> QED BY <1>1, <1>2, <1>3, <1>4, <1>5, <1>6 DEF Step, Signal

\* Initially the buffer is empty and nobody has called anything.
LEMMA PipeInit == FixedLength /\ Init => PipeInv
<1> SUFFICES ASSUME FixedLength, Init PROVE PipeInv
  OBVIOUS
<1>1. CallsMade
  BY DEF Init, CallsMade, CallMade, NoCall
<1>2. WholeBuffer
  <2>1. Len(cbuffer) = 0 * MsgLen /\ 0 \in Nat /\ 0 .. 0-1 = {}
    BY LengthTyped DEF Init
  <2> QED BY <2>1 DEF WholeBuffer
<1>3. WholeMessages
  BY DEF Init, WholeMessages, NoResult, Result, Procs
<1> QED BY <1>1, <1>2, <1>3, CoverInit DEF PipeInv

\* The invariant is inductive.
LEMMA PipeStep == FixedLength /\ PipeInv /\ [Next]_vars => PipeInv'
<1> SUFFICES ASSUME FixedLength, PipeInv, [Next]_vars PROVE PipeInv'
  OBVIOUS
<1>1. CoverInv'
  BY CoverInvStep DEF PipeInv
<1>2. CASE Next
  <2>1. PICK p \in Procs : Enter(p) \/ Reject(p) \/ Step(p) \/ Signal(p)
    BY <1>2 DEF Next
  <2> QED BY <1>1, <2>1, CallsMadeStep, WholeStep DEF PipeInv
<1>3. CASE UNCHANGED vars
  <2>1. CallsMade' /\ WholeBuffer' /\ WholeMessages'
    <3>1. UNCHANGED <<cbuffer, pc, call, res, MsgLen>>
      BY <1>3 DEF vars, MsgLen, OneLength
    <3>2. CallsMade'
      BY <3>1 DEF PipeInv, CallsMade, CallMade
    <3>3. WholeBuffer'
      BY <3>1 DEF PipeInv, WholeBuffer, Message
    <3>4. WholeMessages'
      BY <3>1 DEF PipeInv, WholeMessages
    <3> QED BY <3>2, <3>3, <3>4
  <2> QED BY <1>1, <2>1 DEF PipeInv
<1> QED BY <1>2, <1>3
-----------------------------------------------------------------------------
(* The handlers implement the pipe.                                        *)

\* Who has it open or is opening it, as the pipe sees them.
Enrolled == {p \in Procs : Attached(p)}

\* A step of p enrols or strikes off nobody else.
LEMMA EnrolledMoves ==
  ASSUME NEW p \in Procs, OthersStay(p), OthersKeep(p)
  PROVE  Enrolled' = IF Attached(p)' THEN Enrolled \cup {p} ELSE Enrolled \ {p}
<1>1. ASSUME NEW q \in Procs \ {p} PROVE Attached(q)' <=> Attached(q)
  BY DEF OthersStay, OthersKeep, Attached
<1> QED BY <1>1 DEF Enrolled

\* The initial states are initial states of the pipe.
LEMMA PromiseInit == Init => Promise!Init
<1> SUFFICES ASSUME Init PROVE Promise!Init
  OBVIOUS
<1>1. \A p \in Procs : ~Attached(p)
  BY DEF Init, Attached, NoCall
<1> QED BY <1>1 DEF Init, Promise!Init, Promise!Procs, Procs, Promise!NoCall, NoCall,
        Promise!NoResult, NoResult, Promise!Result, Result

\* A step of a handler is a step of the pipe, or one that it does not see.
PipeStepOf(p) ==
  \/ Promise!Begin(p) \/ Promise!Attach(p) \/ Promise!Opened(p) \/ Promise!Read(p)
  \/ Promise!EndOfFile(p) \/ Promise!Write(p) \/ Promise!Broken(p) \/ Promise!Close(p)
  \/ Promise!Interrupted(p) \/ Promise!Refused(p)

\* Each handler, with its early returns, keeps the promise.
LEMMA PromiseStep ==
  ASSUME FixedLength, PipeInv, PipeInv', NEW p \in Procs,
         Enter(p) \/ Reject(p) \/ Step(p) \/ Signal(p)
  PROVE  PipeStepOf(p) \/ UNCHANGED Promise!vars
<1>t. /\ TypeOK /\ QueueInv /\ CallsMade /\ CallMade(p) /\ CallsOK /\ pc \in [Procs -> PCs]
      /\ call \in [Procs -> CallT] /\ fd \in [Procs -> BOOLEAN] /\ CoverInv
  BY DEF PipeInv, CoverInv, IInv, TypeOK, CallT, CallsMade
<1>f. OthersStay(p) /\ OthersKeep(p)
  BY <1>t, Frames
<1>m. Enrolled' = IF Attached(p)' THEN Enrolled \cup {p} ELSE Enrolled \ {p}
  BY <1>f, EnrolledMoves
<1>a. p \in Enrolled <=> Attached(p)
  BY DEF Enrolled
<1>k. (Attached(p)' <=> Attached(p)) => Enrolled' = Enrolled
  BY <1>m, <1>a
<1>v. UNCHANGED <<cbuffer, call, res>> /\ Enrolled' = Enrolled => UNCHANGED Promise!vars
  BY DEF Promise!vars, Enrolled
<1>r. ASSUME NEW r, Return(p, r)
      PROVE  call'[p] = NoCall /\ (Attached(p)' <=> fd'[p]) /\ Promise!Finish(p, r)
  <2>1. call'[p] = NoCall
    BY <1>t, <1>r, Returned
  <2>2. Attached(p)' <=> fd'[p]
    BY <2>1 DEF Attached, NoCall
  <2> QED BY <1>r, <2>1, <2>2 DEF Return, Promise!Finish, Promise!NoCall, NoCall
<1>1. CASE Enter(p)
  <2>1. PICK c \in Calls(p) : /\ pc[p] = "idle" /\ call' = [call EXCEPT ![p] = c]
                             /\ res' = [res EXCEPT ![p] = NoResult] /\ pc'[p] = "lock"
                             /\ UNCHANGED <<cbuffer, fd>>
    BY <1>1, <1>t DEF Enter, Goto
  <2>2. call[p] = NoCall
    BY <1>t, <2>1 DEF CallMade
  <2>3. Enrolled' = Enrolled
    BY <1>k, <2>1, <2>2 DEF Attached, NoCall
  <2>4. Promise!Begin(p)
    BY <2>1, <2>2, <2>3 DEF Promise!Begin, Promise!Calls, Calls, Promise!NoCall, NoCall,
       Promise!NoResult, NoResult, Promise!Result, Result, Enrolled
  <2> QED BY <2>4 DEF PipeStepOf
<1>2. CASE Reject(p)
  <2>1. /\ Return(p, Result("ENOSPC", <<>>)) /\ pc[p] = "idle"
        /\ UNCHANGED <<cbuffer, fd>>
    BY <1>2 DEF Reject
  <2>2. call[p] = NoCall
    BY <1>t, <2>1 DEF CallMade
  <2>3. call' = call
    <3>1. call' = [call EXCEPT ![p] = call[p]]
      BY <2>1, <2>2 DEF Return
    <3> QED BY <1>t, <3>1
  <2>4. Enrolled' = Enrolled
    BY <1>k, <2>1, <2>2, <2>3 DEF Attached, NoCall
  <2>5. Promise!Refused(p)
    BY <2>1, <2>2, <2>3, <2>4 DEF Promise!Refused, Promise!NoCall, NoCall, Return,
       Promise!Result, Result, Enrolled
  <2> QED BY <2>5 DEF PipeStepOf
<1>3. CASE Lock(p)
  <2>1. /\ UNCHANGED <<cbuffer, call, res, fd>>
        /\ pc[p] \in {"lock", "relock", "undo"} /\ pc'[p] \in {"undocs", "cs", "test"}
        /\ call[p].op = "open" => (pc[p] = "lock" <=> pc'[p] = "cs")
    BY <1>3, <1>t DEF Lock, Goto
  <2>2. Attached(p)' <=> Attached(p)
    BY <2>1 DEF Attached
  <2> QED BY <1>k, <1>v, <2>1, <2>2
<1>4. CASE Wait(p) \/ Sleep(p) \/ SleepInterrupted(p)
  <2>1. /\ UNCHANGED <<cbuffer, call, res, fd>>
        /\ pc[p] \notin {"lock", "cs"} /\ pc'[p] \notin {"lock", "cs"}
    BY <1>4, <1>t DEF Wait, Sleep, SleepInterrupted, Goto
  <2>2. Attached(p)' <=> Attached(p)
    BY <2>1 DEF Attached
  <2> QED BY <1>k, <1>v, <2>1, <2>2
<1>5. CASE Join(p)
  <2>1. /\ pc[p] = "cs" /\ call[p].op = "open" /\ UNCHANGED <<cbuffer, call, res, fd>>
        /\ Wake(Other(Side(p)), p, "test")
    BY <1>5 DEF Join
  <2>2. pc'[p] = "test"
    <3>1. Other(Side(p)) \in Sides /\ "test" \in PCs
      BY DEF Side, Other, Sides, PCs
    <3> QED BY <1>t, <2>1, <3>1, WakeEffect
  <2>3. Attached(p)'
    BY <2>1, <2>2 DEF Attached
  <2>4. Promise!Attach(p)
    BY <1>m, <2>1, <2>3 DEF Promise!Attach, Enrolled
  <2> QED BY <2>4 DEF PipeStepOf
<1>6. CASE OpenDone(p)
  <2>1. /\ pc[p] = "test" /\ call[p].op = "open" /\ UNCHANGED cbuffer
        /\ Return(p, Result("OK", <<>>)) /\ fd'[p] = TRUE
    BY <1>6, <1>t DEF OpenDone
  <2>2. Attached(p) /\ Attached(p)'
    BY <2>1 DEF Attached
  <2>3. Promise!Opened(p)
    BY <1>a, <1>k, <1>r, <2>1, <2>2 DEF Promise!Opened, Promise!Result, Result, Enrolled
  <2> QED BY <2>3 DEF PipeStepOf
<1>7. CASE LockInterrupted(p) \/ Undo(p)
  <2>1. /\ pc[p] \in {"lock", "relock", "undocs"} /\ UNCHANGED cbuffer
        /\ Return(p, Result("EINTR", <<>>))
        /\ fd'[p] = fd[p] \/ (call[p].op = "release" /\ ~fd'[p])
        /\ call[p].op = "release" => ~fd'[p]
    <3>1. CASE LockInterrupted(p)
      BY <1>t, <3>1 DEF LockInterrupted
    <3>2. CASE Undo(p)
      BY <1>t, <3>2 DEF Undo, CallMade
    <3> QED BY <1>7, <3>1, <3>2
  <2>2. call[p] # NoCall
    BY <1>t, <2>1 DEF CallMade
  <2>3. (Attached(p)' <=> fd'[p]) /\ Promise!Finish(p, Result("EINTR", <<>>))
    BY <1>r, <2>1
  <2>4. call[p].op \in {"open", "release"} => ~Attached(p)'
    BY <1>t, <2>1, <2>3 DEF CallsOK
  <2>5. call[p].op \notin {"open", "release"} => (Attached(p)' <=> Attached(p))
    BY <2>1, <2>3 DEF Attached
  <2>6. Enrolled' = IF call[p].op \in {"open", "release"} THEN Enrolled \ {p} ELSE Enrolled
    BY <1>k, <1>m, <2>4, <2>5
  <2>7. Promise!Interrupted(p)
    BY <2>1, <2>2, <2>3, <2>6 DEF Promise!Interrupted, Promise!NoCall, NoCall,
       Promise!Result, Result, Enrolled
  <2> QED BY <2>7 DEF PipeStepOf
<1>8. CASE ReadEOF(p)
  <2>1. /\ call[p].op = "read" /\ count["prod"] = 0 /\ cbuffer = <<>>
        /\ Return(p, Result("EOF", <<>>)) /\ UNCHANGED <<cbuffer, fd>>
    BY <1>8 DEF ReadEOF
  <2>2. Enrolled \cap Producers = {}
    BY <1>t, <2>1, NobodyThere DEF Enrolled, Members, Sides
  <2>3. Enrolled' = Enrolled
    BY <1>k, <1>r, <2>1 DEF Attached
  <2>4. Promise!EndOfFile(p)
    BY <1>r, <2>1, <2>2, <2>3 DEF Promise!EndOfFile, Promise!Result, Result, Enrolled
  <2> QED BY <2>4 DEF PipeStepOf
<1>9. CASE WriteEPIPE(p)
  <2>1. /\ call[p].op = "write" /\ count["cons"] = 0
        /\ Return(p, Result("EPIPE", <<>>)) /\ UNCHANGED <<cbuffer, fd>>
    BY <1>9 DEF WriteEPIPE
  <2>2. Enrolled \cap Consumers = {}
    BY <1>t, <2>1, NobodyThere DEF Enrolled, Members, Sides
  <2>3. Enrolled' = Enrolled
    BY <1>k, <1>r, <2>1 DEF Attached
  <2>4. Promise!Broken(p)
    BY <1>r, <2>1, <2>2, <2>3 DEF Promise!Broken, Promise!Result, Result, Enrolled
  <2> QED BY <2>4 DEF PipeStepOf
<1>10. CASE Read(p)
  <2>1. /\ Return(p, Result("OK", SubSeq(cbuffer, 1, call[p].len)))
        /\ cbuffer' = SubSeq(cbuffer, call[p].len + 1, Len(cbuffer))
        /\ call[p].len <= Len(cbuffer)
    BY <1>10, ReadTakes
  <2>2. call[p].op = "read" /\ UNCHANGED fd
    BY <1>10 DEF Read
  <2>3. Enrolled' = Enrolled
    BY <1>k, <1>r, <2>1, <2>2 DEF Attached
  <2>4. Promise!Read(p)
    BY <1>r, <2>1, <2>2, <2>3 DEF Promise!Read, Promise!Result, Result, Enrolled
  <2> QED BY <2>4 DEF PipeStepOf
<1>11. CASE Write(p)
  <2>1. cbuffer' = cbuffer \o call[p].data /\ Len(cbuffer) + call[p].len <= MAX_ITEMS_CBUF
    BY <1>11, WriteAdds
  <2>2. call[p].op = "write" /\ UNCHANGED fd /\ Return(p, Result("OK", <<>>))
    BY <1>11 DEF Write
  <2>3. Enrolled' = Enrolled
    BY <1>k, <1>r, <2>2 DEF Attached
  <2>4. Promise!Write(p)
    BY <1>r, <2>1, <2>2, <2>3 DEF Promise!Write, Promise!Result, Result, Enrolled
  <2> QED BY <2>4 DEF PipeStepOf
<1>12. CASE Release(p)
  <2>1. /\ call[p].op = "release" /\ Return(p, Result("OK", <<>>)) /\ ~fd'[p]
        /\ cbuffer' = IF \A s \in Sides : count'[s] = 0 THEN <<>> ELSE cbuffer
    BY <1>12, <1>t DEF Release
  <2>2. Enrolled' = Enrolled \ {p}
    BY <1>m, <1>r, <2>1
  <2>3. (\A s \in Sides : count'[s] = 0) => Enrolled' = {}
    <3>1. ASSUME NEW s \in Sides, count'[s] = 0 PROVE \A q \in Members(s) : ~Attached(q)'
      <4>1. CoverInv' /\ Members(s)' = Members(s)
        BY DEF PipeInv, Members
      <4> QED BY <3>1, <4>1, NobodyGone
    <3> QED BY <3>1 DEF Enrolled, Procs, Sides, Members
  <2>4. cbuffer' \in {cbuffer} \cup (IF Enrolled' = {} THEN {<<>>} ELSE {})
    BY <2>1, <2>3
  <2>5. Promise!Finish(p, Result("OK", <<>>))
    BY <1>r, <2>1
  <2>6. Promise!Close(p)
    BY <2>1, <2>2, <2>4, <2>5 DEF Promise!Close, Promise!Result, Result, Enrolled
  <2> QED BY <2>6 DEF PipeStepOf
<1> QED BY <1>1, <1>2, <1>3, <1>4, <1>5, <1>6, <1>7, <1>8, <1>9, <1>10, <1>11, <1>12
    DEF Step, Signal

\* The same for any step.
LEMMA PromiseNext == FixedLength /\ PipeInv /\ PipeInv' /\ [Next]_vars => [Promise!Next]_(Promise!vars)
<1> SUFFICES ASSUME FixedLength, PipeInv, PipeInv', [Next]_vars
             PROVE  [Promise!Next]_(Promise!vars)
  OBVIOUS
<1>1. CASE Next
  <2>1. PICK p \in Procs : Enter(p) \/ Reject(p) \/ Step(p) \/ Signal(p)
    BY <1>1 DEF Next
  <2>2. PipeStepOf(p) \/ UNCHANGED Promise!vars
    BY <2>1, PromiseStep
  <2>3. p \in Promise!Procs
    BY DEF Promise!Procs, Procs
  <2> QED BY <2>2, <2>3 DEF PipeStepOf, Promise!Next
<1>2. CASE UNCHANGED vars
  <2>1. UNCHANGED <<cbuffer, call, res, pc, fd>>
    BY <1>2 DEF vars
  <2> QED BY <2>1 DEF Promise!vars, Attached
<1> QED BY <1>1, <1>2

\* Whatever the clients do, if they move messages of one length: calls and
\* buffer keep to it, and what a reader has got is a whole message.
THEOREM PipeInvariance == FixedLength => (Spec => []PipeInv)
<1> SUFFICES ASSUME FixedLength PROVE Spec => []PipeInv
  OBVIOUS
<1>1. Init => PipeInv
  BY PipeInit
<1>2. PipeInv /\ [Next]_vars => PipeInv'
  BY PipeStep
<1> QED BY <1>1, <1>2, PTL DEF Spec

\* ImplementsPipe: /proc/modfifo over the circular buffer is a pipe.  Whole
\* writes, reads of exactly the oldest bytes, end of file and EPIPE only when
\* the other end is gone, and no byte lost or invented.
THEOREM PipeImplemented == FixedLength => (Spec => ImplementsPipe)
<1> SUFFICES ASSUME FixedLength PROVE Spec => ImplementsPipe
  OBVIOUS
<1>1. Init => Promise!Init
  BY PromiseInit
<1>2. PipeInv /\ PipeInv' /\ [Next]_vars => [Promise!Next]_(Promise!vars)
  BY PromiseNext
<1>3. Spec => []PipeInv
  BY PipeInvariance
<1> QED BY <1>1, <1>2, <1>3, PTL DEF Spec, ImplementsPipe, Promise!Spec
-----------------------------------------------------------------------------
(* The kfifo.                                                              *)

\* kfifo_out hands over the whole message asked for: it is the Read of the
\* circular buffer, although it would hand over less if there were less.
LEMMA KfifoOutIsRead ==
  ASSUME FixedLength, PipeInv, NEW p \in Procs, call[p].op = "read", KfifoOut(p)
  PROVE  Read(p)
<1> DEFINE n == call[p].len
<1>1. pc[p] = "test" /\ ~MustWait(p) /\ ~ (count["prod"] = 0 /\ cbuffer = <<>>)
  BY DEF KfifoOut
<1>2. n = MsgLen /\ n <= Size /\ n \in Nat /\ Size \in Nat /\ cbuffer \in Seq(Byte)
  <2>1. cbuffer \in Seq(Byte)
    BY DEF PipeInv, CoverInv, IInv, TypeOK
  <2> QED BY <1>1, <2>1, ReadFinds, LengthTyped DEF Size
<1>3. ~(n > Size)
  BY <1>2
<1>4. [i \in 1..n |-> IF i <= n THEN cbuffer[i] ELSE Nul] = SubSeq(cbuffer, 1, n)
  <2>1. SubSeq(cbuffer, 1, n) = [i \in 1..n |-> cbuffer[i]]
    BY <1>2
  <2>2. [i \in 1..n |-> IF i <= n THEN cbuffer[i] ELSE Nul] = [i \in 1..n |-> cbuffer[i]]
    BY <1>2
  <2> QED BY <2>1, <2>2
<1>5. /\ Return(p, Result("OK", [i \in 1..n |-> IF i <= n THEN cbuffer[i] ELSE Nul]))
      /\ cbuffer' = SubSeq(cbuffer, n + 1, Size)
      /\ Wake("prod", p, "idle") /\ mtx' = 1 /\ UNCHANGED <<count, fd, opens, signals>>
  BY <1>3 DEF KfifoOut
<1> QED BY <1>1, <1>3, <1>4, <1>5 DEF Read

\* kfifo_in takes the whole message: it is the Write of the circular buffer,
\* which would overwrite where kfifo_in would stop short.
LEMMA KfifoInIsWrite ==
  ASSUME FixedLength, PipeInv, NEW p \in Procs, call[p].op = "write", KfifoIn(p)
  PROVE  Write(p)
<1> DEFINE n == call[p].len
           d == call[p].data
<1>1. pc[p] = "test" /\ ~MustWait(p) /\ count["cons"] # 0
  BY DEF KfifoIn
<1>2. /\ d \in Messages /\ n = MsgLen /\ n \in Nat /\ Len(d) = n /\ Len(cbuffer) + n <= MAX_ITEMS_CBUF
      /\ n <= Gaps
  BY <1>1, WriteFits
<1>3. cbuffer \in Seq(Byte) /\ d \in Seq(Byte) /\ MAX_ITEMS_CBUF \in Nat
  BY <1>2, DataAssumption, CapacityAssumption DEF PipeInv, CoverInv, IInv, TypeOK
<1>4. ~(n > Gaps)
  BY <1>2, <1>3 DEF Gaps, Size
<1>5. SubSeq(d, 1, n) = d
  BY <1>2, <1>3
<1>6. /\ cbuffer' = cbuffer \o SubSeq(d, 1, n)
      /\ Wake("cons", p, "idle") /\ mtx' = 1 /\ Return(p, Result("OK", <<>>))
      /\ UNCHANGED <<count, fd, opens, signals>>
  BY <1>4 DEF KfifoIn
<1>7. Inserted(d) = cbuffer \o d
  <2>1. Len(cbuffer \o d) = Len(cbuffer) + Len(d)
    BY <1>3, ConcatProperties
  <2>2. Len(cbuffer \o d) <= MAX_ITEMS_CBUF
    BY <1>2, <2>1
  <2> QED BY <2>2 DEF Inserted
<1> QED BY <1>1, <1>5, <1>6, <1>7 DEF Write

\* So whichever module is loaded, the programs of fifotest.c see the handlers
\* of Fifoproc.
LEMMA ServedAlike == FixedLength /\ PipeInv /\ [TestNext]_testVars => [Next]_vars
<1> SUFFICES ASSUME FixedLength, PipeInv, [TestNext]_testVars PROVE [Next]_vars
  OBVIOUS
<1>1. CASE TestNext
  <2>1. PICK p \in Procs : Program(p) \/ Serve(p) \/ Interrupt(p)
    BY <1>1 DEF TestNext
  <2>2. CASE Program(p)
    BY <2>2 DEF Program, Send, Receive, Next
  <2>3. CASE Interrupt(p)
    BY <2>3 DEF Interrupt, Next
  <2>4. CASE Serve(p)
    <3>1. CASE Step(p)
      BY <3>1 DEF Next
    <3>2. CASE KStep(p)
      <4>1. ASSUME call[p].op = "read", KfifoOut(p) PROVE Step(p)
        BY <4>1, KfifoOutIsRead DEF Step
      <4>2. ASSUME call[p].op = "write", KfifoIn(p) PROVE Step(p)
        BY <4>2, KfifoInIsWrite DEF Step
      <4>3. Step(p)
        BY <3>2, <4>1, <4>2 DEF KStep, KOpen, KRelease, KRead, KWrite, Waiting, Step
      <4> QED BY <4>3 DEF Next
    <3> QED BY <2>4, <3>1, <3>2 DEF Serve
  <2> QED BY <2>1, <2>2, <2>3, <2>4
<1>2. CASE UNCHANGED testVars
  BY <1>2 DEF testVars
<1> QED BY <1>1, <1>2

\* Over kfifo or over the circular buffer, the programs of fifotest.c behave
\* as clients of the handlers of Pr3/ParteB do, and the invariant holds.
THEOREM BothModulesAlike == FixedLength => (TestSpec => Spec /\ []PipeInv)
<1> SUFFICES ASSUME FixedLength PROVE TestSpec => Spec /\ []PipeInv
  OBVIOUS
<1>1. TestInit => Init
  BY DEF TestInit
<1>2. Init => PipeInv
  BY PipeInit
<1>3. PipeInv /\ [TestNext]_testVars => [Next]_vars
  BY ServedAlike
<1>4. PipeInv /\ [Next]_vars => PipeInv'
  BY PipeStep
<1> QED BY <1>1, <1>2, <1>3, <1>4, PTL DEF TestSpec, Spec

\* WholeMessages: what a receiver prints is one message of a sender, whichever
\* module serves the entry, never parts of two nor the zeros of a buffer that
\* nothing was copied to.
THEOREM WholeMessagesSafe == FixedLength => (TestSpec => []WholeMessages)
<1> SUFFICES ASSUME FixedLength PROVE TestSpec => []WholeMessages
  OBVIOUS
<1>1. TestSpec => []PipeInv
  BY BothModulesAlike
<1>2. PipeInv => WholeMessages
  BY DEF PipeInv
<1> QED BY <1>1, <1>2, PTL

\* ImplementsPipe once more, for either module: over kfifo too the programs
\* have a pipe.
THEOREM TestImplementsPipe == FixedLength => (TestSpec => ImplementsPipe)
<1> SUFFICES ASSUME FixedLength PROVE TestSpec => ImplementsPipe
  OBVIOUS
<1>1. TestSpec => Spec
  BY BothModulesAlike
<1>2. Spec => ImplementsPipe
  BY PipeImplemented
<1> QED BY <1>1, <1>2, PTL
-----------------------------------------------------------------------------
(* One process at each end: nobody sleeps for no reason.                   *)

OneEach == \A p, q \in Procs : Side(p) = Side(q) => p = q

\* Who sleeps is in the queue and has to wait; who is about to has to wait, or
\* will find a unit.  Only a reader reads and only a writer writes.
Reasoned(p) ==
  /\ call[p].op = "read" => Side(p) = "cons"
  /\ call[p].op = "write" => Side(p) = "prod"
  /\ pc[p] = "asleep" => sem[Side(p)].queue # <<>> /\ MustWait(p)
  /\ pc[p] = "presleep" => MustWait(p) \/ sem[Side(p)].count > 0
ReasonInv == IInv /\ \A p \in Procs : Reasoned(p)

\* A wake-up from the other end reaches the process of this one, if it sleeps
\* or is about to.
LEMMA WakeReaches ==
  ASSUME OneEach, ReasonInv, NEW p \in Procs, NEW q \in Procs, p # q, NEW next,
         Wake(Side(p), q, next), pc'[p] \in {"presleep", "asleep"}
  PROVE  pc'[p] = "presleep" /\ sem'[Side(p)].count > 0
<1> DEFINE s == Side(p)
           Q == sem[s].queue
           n == nr_waiting[s]
           c == sem[s].count
           l == Len(Q)
           k == Cardinality(At(Members(s), Undoing))
<1>1. /\ s \in Sides /\ p \in Members(s) /\ Members(s) \subseteq Procs
      /\ \A r \in Members(s) : r = p
  BY ProcsAssumption DEF OneEach, Side, Sides, Members, Procs
<1>2. /\ sem \in [Sides -> [count : Nat, queue : Seq(Procs)]] /\ n \in Int
      /\ c \in Nat /\ Q \in Seq(Procs) /\ l \in Nat /\ pc \in [Procs -> PCs]
  BY <1>1, SMTT(30) DEF ReasonInv, IInv, TypeOK
<1>3. QueueOK(s)
  BY <1>1 DEF ReasonInv, IInv, QueueInv
<1>4. n + c = l + k /\ k \in Nat /\ (pc[p] = "presleep" => k > 0)
  <2>1. IsFiniteSet(At(Members(s), Undoing))
    BY <1>1, ProcsFinite, FS_Subset DEF At
  <2>2. k \in Nat /\ (k = 0 => At(Members(s), Undoing) = {})
    BY <2>1, FS_CardinalityType, FS_EmptySet
  <2>3. pc[p] = "presleep" => p \in At(Members(s), Undoing)
    BY <1>1 DEF At, Undoing
  <2>4. n + c = l + k
    BY <1>1 DEF ReasonInv, IInv, WaitBalance, Undoing
  <2> HIDE DEF k
  <2> QED BY <2>2, <2>3, <2>4
<1>5. CASE n > 0
  <2>1. /\ sem' = [sem EXCEPT ![s] = Up(@)]
        /\ pc' = [r \in Procs |-> IF r \in Woken(sem[s]) THEN "relock"
                                  ELSE IF r = q THEN next ELSE pc[r]]
    BY <1>5 DEF Wake
  <2>2. Q = <<>>
    <3> SUFFICES ASSUME Q # <<>> PROVE FALSE
      OBVIOUS
    <3>1. Head(Q) = Q[1] /\ 1 \in 1..Len(Q)
      BY <1>2
    <3>2. p \in Woken(sem[s])
      BY <1>1, <1>3, <3>1 DEF QueueOK, Woken
    <3> QED BY <2>1, <3>2
  <2>3. sem'[s].count = c + 1
    BY <1>1, <1>2, <2>1, <2>2 DEF Up
  <2>4. pc'[p] = pc[p]
    BY <2>1, <2>2 DEF Woken
  <2>5. pc[p] # "asleep"
    BY <2>2 DEF ReasonInv, Reasoned
  <2>6. c + 1 > 0
    BY <1>2
  <2> QED BY <2>3, <2>4, <2>5, <2>6
<1>6. CASE ~(n > 0)
  <2>1. sem' = sem /\ pc'[p] = pc[p]
    BY <1>6 DEF Wake
  <2>2. pc[p] = "asleep" => l > 0 /\ c = 0
    <3>1. pc[p] = "asleep" => Q # <<>>
      BY DEF ReasonInv, Reasoned
    <3>2. Q # <<>> => l > 0 /\ ~(c > 0)
      BY <1>2, <1>3 DEF QueueOK
    <3> QED BY <1>2, <3>1, <3>2
  <2>3. pc[p] # "asleep" /\ (pc[p] = "presleep" => c > 0)
    <3> HIDE DEF n, c, l, k
    <3> QED BY <1>2, <1>4, <1>6, <2>2
  <2> QED BY <2>1, <2>3
<1> QED BY <1>5, <1>6

\* Every step leaves a sleeper with its reason.
LEMMA ReasonStep ==
  ASSUME OneEach, ReasonInv, NEW q \in Procs, Enter(q) \/ Reject(q) \/ Step(q) \/ Signal(q)
  PROVE  \A p \in Procs : Reasoned(p)'
<1>t. /\ TypeOK /\ QueueInv /\ pc \in [Procs -> PCs] /\ call \in [Procs -> CallT]
      /\ sem \in [Sides -> [count : Nat, queue : Seq(Procs)]]
  BY DEF ReasonInv, IInv, TypeOK, CallT
<1>f. OthersStay(q) /\ OthersKeep(q)
  BY <1>t, Frames
<1>s. \A p \in Procs : /\ Side(p) \in Sides /\ Other(Side(p)) \in Sides /\ Side(p)' = Side(p)
                       /\ (p # q => Side(p) = Other(Side(q)) /\ Side(p) # Side(q))
  BY DEF OneEach, Side, Other, Sides
<1>1. ASSUME NEW p \in Procs, p # q PROVE Reasoned(p)'
  <2>1. /\ call'[p] = call[p] /\ Reasoned(p)
        /\ pc'[p] = pc[p] \/ (pc[p] = "asleep" /\ pc'[p] = "relock")
    BY <1>1, <1>f DEF OthersStay, OthersKeep, ReasonInv
  <2>2. CASE count' = count /\ cbuffer' = cbuffer /\ sem'[Side(p)] = sem[Side(p)]
    <3>1. MustWait(p)' = MustWait(p)
      BY <1>s, <2>1, <2>2 DEF MustWait, Size, Gaps
    <3> QED BY <1>s, <2>1, <2>2, <3>1 DEF Reasoned
  <2>3. CASE \E next : Wake(Side(p), q, next)
    <3>1. pc'[p] \in {"presleep", "asleep"} => pc'[p] = "presleep" /\ sem'[Side(p)].count > 0
      BY <1>1, <2>3, WakeReaches
    <3> QED BY <1>s, <2>1, <3>1 DEF Reasoned
  <2>4. CASE Enter(q) \/ Reject(q) \/ Lock(q) \/ Wait(q) \/ Undo(q) \/ OpenDone(q)
             \/ ReadEOF(q) \/ WriteEPIPE(q) \/ LockInterrupted(q)
    <3>1. count' = count /\ cbuffer' = cbuffer /\ sem' = sem
      BY <2>4 DEF Enter, Reject, Lock, Wait, Undo, OpenDone, ReadEOF, WriteEPIPE, LockInterrupted
    <3> QED BY <2>2, <3>1
  <2>5. CASE Sleep(q) \/ SleepInterrupted(q)
    <3>1. count' = count /\ cbuffer' = cbuffer
      BY <2>5 DEF Sleep, SleepInterrupted
    <3>2. sem'[Side(p)] = sem[Side(p)]
      BY <1>1, <1>s, <1>t, <2>5 DEF Sleep, SleepInterrupted
    <3> QED BY <2>2, <3>1, <3>2
  <2>6. CASE Join(q) \/ Read(q) \/ Write(q) \/ Release(q)
    <3>1. Reasoned(q)
      BY DEF ReasonInv
    <3>2. \E next : Wake(Side(p), q, next)
      BY <1>1, <1>s, <2>6, <3>1 DEF Join, Read, Write, Release, Reasoned, Other
    <3> QED BY <2>3, <3>2
  <2> QED BY <2>4, <2>5, <2>6 DEF Step, Signal
<1>2. Reasoned(q)'
  <2>1. Reasoned(q)
    BY DEF ReasonInv
  <2>n. ASSUME call'[q] = NoCall \/ call'[q] = call[q], pc'[q] \notin {"presleep", "asleep"}
        PROVE  Reasoned(q)'
    BY <1>s, <2>1, <2>n DEF Reasoned, NoCall
  <2>2. CASE Enter(q)
    <3>1. PICK c \in Calls(q) : call'[q] = c /\ pc'[q] = "lock"
      BY <1>t, <2>2 DEF Enter, Goto
    <3>2. (c.op = "read" => q \notin Producers) /\ (c.op = "write" => q \in Producers)
      <4>1. \/ c \in {[op |-> o, data |-> <<>>, len |-> 0] : o \in {"open", "release"}}
            \/ q \in Producers /\ c \in {[op |-> "write", data |-> d, len |-> Len(d)] : d \in Messages}
            \/ q \notin Producers /\ c \in {[op |-> "read", data |-> <<>>, len |-> n] : n \in Lens}
        BY Zenon DEF Calls
      <4> QED BY <4>1
    <3> QED BY <1>s, <3>1, <3>2 DEF Reasoned, Side
  <2>3. CASE Reject(q)
    <3>1. call'[q] = NoCall /\ pc'[q] = "idle"
      BY <1>t, <2>3 DEF Reject, Return
    <3> QED BY <2>n, <3>1
  <2>4. CASE Lock(q) \/ SleepInterrupted(q)
    <3>1. call'[q] = call[q] /\ pc'[q] \in {"cs", "test", "undocs", "undo"}
      BY <1>t, <2>4 DEF Lock, SleepInterrupted, Goto
    <3> QED BY <2>n, <3>1
  <2>5. CASE LockInterrupted(q) \/ Undo(q) \/ OpenDone(q) \/ ReadEOF(q) \/ WriteEPIPE(q)
    <3>1. call'[q] = NoCall /\ pc'[q] = "idle"
      BY <1>t, <2>5 DEF LockInterrupted, Undo, OpenDone, ReadEOF, WriteEPIPE, Goto, Return
    <3> QED BY <2>n, <3>1
  <2>6. CASE Join(q) \/ Read(q) \/ Write(q) \/ Release(q)
    <3>1. PICK t \in Sides, next \in {"test", "idle"} : Wake(t, q, next)
      BY <1>s, <2>6 DEF Join, Read, Write, Release, Sides
    <3>2. pc'[q] = next
      <4>1. pc[q] # "asleep" /\ next # "asleep" /\ next \in PCs
        BY <2>6 DEF PCs, Join, Read, Write, Release
      <4> QED BY <1>t, <3>1, <4>1, WakeEffect
    <3>3. call'[q] = NoCall \/ call'[q] = call[q]
      BY <1>t, <2>6 DEF Join, Read, Write, Release, Return
    <3> QED BY <2>n, <3>2, <3>3
  <2>7. CASE Wait(q)
    <3>1. /\ call' = call /\ pc'[q] = "presleep" /\ count' = count /\ cbuffer' = cbuffer
          /\ MustWait(q)
      BY <1>t, <2>7 DEF Wait, Goto
    <3>2. MustWait(q)'
      BY <1>s, <3>1 DEF MustWait, Size, Gaps
    <3> QED BY <1>s, <2>1, <3>1, <3>2 DEF Reasoned
  <2>8. CASE Sleep(q)
    <3>1. CASE sem[Side(q)].count > 0
      <4>1. call'[q] = call[q] /\ pc'[q] = "relock"
        BY <1>t, <2>8, <3>1 DEF Sleep, Goto
      <4> QED BY <2>n, <4>1
    <3>2. CASE ~(sem[Side(q)].count > 0)
      <4>1. /\ call' = call /\ pc'[q] = "asleep" /\ count' = count /\ cbuffer' = cbuffer
            /\ sem' = [sem EXCEPT ![Side(q)] = Enqueue(@, q)] /\ pc[q] = "presleep"
        BY <1>t, <2>8, <3>2 DEF Sleep, Goto
      <4>2. MustWait(q)'
        <5>1. MustWait(q)
          BY <2>1, <3>2, <4>1 DEF Reasoned
        <5> QED BY <1>s, <4>1, <5>1 DEF MustWait, Size, Gaps
      <4>3. sem'[Side(q)].queue # <<>>
        <5>1. sem[Side(q)].queue \in Seq(Procs) /\ sem'[Side(q)] = Enqueue(sem[Side(q)], q)
          BY <1>s, <1>t, <4>1
        <5>2. sem'[Side(q)].queue = Append(sem[Side(q)].queue, q)
          BY <1>s, <1>t, <5>1 DEF Enqueue
        <5> QED BY <5>1, <5>2
      <4> QED BY <1>s, <2>1, <4>1, <4>2, <4>3 DEF Reasoned
    <3> QED BY <3>1, <3>2
  <2> QED BY <2>2, <2>3, <2>4, <2>5, <2>6, <2>7, <2>8 DEF Step, Signal
<1> QED BY <1>1, <1>2

\* NoStrandedSleeper: with one process at each end no wake-up is lost between
\* the test of a loop and the semaphore, whatever is interrupted meanwhile.
THEOREM NoStrandedSafe == OneEach => (Spec => []NoStrandedSleeper)
<1> SUFFICES ASSUME OneEach PROVE Spec => []NoStrandedSleeper
  OBVIOUS
<1>1. Init => ReasonInv
  <2> SUFFICES ASSUME Init PROVE ReasonInv
    OBVIOUS
  <2> QED BY IInvInit DEF ReasonInv, Reasoned, Init, NoCall
<1>2. ReasonInv /\ [Next]_vars => ReasonInv'
  <2> SUFFICES ASSUME ReasonInv, [Next]_vars PROVE ReasonInv'
    OBVIOUS
  <2>1. IInv'
    BY IInvStep DEF ReasonInv
  <2>2. CASE UNCHANGED vars
    <3>1. \A p \in Procs : Reasoned(p)'
      BY <2>2 DEF ReasonInv, Reasoned, MustWait, Size, Gaps, Side, Other, vars
    <3> QED BY <2>1, <3>1 DEF ReasonInv
  <2>3. CASE Next
    <3>1. \A p \in Procs : Reasoned(p)'
      BY <2>3, ReasonStep DEF Next
    <3> QED BY <2>1, <3>1 DEF ReasonInv
  <2> QED BY <2>2, <2>3
<1>3. ReasonInv => NoStrandedSleeper
  BY DEF ReasonInv, Reasoned, NoStrandedSleeper
<1> QED BY <1>1, <1>2, <1>3, PTL DEF Spec

\* NoStrandedSleeper once more, for a sender and a receiver of fifotest.c over
\* either module.
THEOREM TestNoStranded == FixedLength /\ OneEach => (TestSpec => []NoStrandedSleeper)
<1> SUFFICES ASSUME FixedLength, OneEach PROVE TestSpec => []NoStrandedSleeper
  OBVIOUS
<1>1. TestSpec => Spec
  BY BothModulesAlike
<1>2. Spec => []NoStrandedSleeper
  BY NoStrandedSafe
<1> QED BY <1>1, <1>2, PTL
=============================================================================
