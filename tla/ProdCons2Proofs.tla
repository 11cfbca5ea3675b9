-------------------------- MODULE ProdCons2Proofs ---------------------------
(***************************************************************************)
(* The monitor of ProdCons2, for any writers and readers, any capacity and *)
(* any signals: its condition variables keep their accounts, forget nobody *)
(* while no signal arrives, and it implements the bounded buffer.          *)
(***************************************************************************)
EXTENDS ProdCons2, SharedLemmas

Members(s)  == {p \in Procs : Side(p) = s}
Sleepers(s) == {p \in Members(s) : pc[p] = "asleep"}

\* A writer has an item from its allocation to the end of its call, a reader
\* only once it has taken one.
HandsOK ==
  /\ \A p \in Producers : pc[p] # "using" /\ (hand[p] = NULL <=> pc[p] = "idle")
  /\ \A p \in Consumers : pc[p] # "using" => hand[p] = NULL

\* The list of each condition variable holds its sleepers.
QueueInv == \A s \in Sides : Sound(queue[s], Sleepers(s))

\* WaitBalance again: the wake-ups a side is owed, less the sleepers, are the
\* processes on the way to sleep or back from it.
Undoing == {"presleep", "undo", "undocs"}
Owed(s) == nr_waiting[s] + Units(queue[s])
Balance == \A s \in Sides : Owed(s) = CountAt(Members(s), Undoing, pc)

\* Why nobody is forgotten.  As long as somebody waits, the items (for the
\* readers) or the gaps (for the writers) are no more than the processes of
\* the side that are about to look for them, awake or with a wake-up posted.
Ready == {"lock", "relock", "test"}
Stock(s) == IF s = "cons" THEN Len(cbuf) ELSE MAX_ITEMS_CBUF - Len(cbuf)
Served(s) == CountAt(Members(s), Ready, pc) + queue[s].count
Supply == signals = 0 =>
  \A s \in Sides : nr_waiting[s] > 0 => Stock(s) <= Served(s)

\* The inductive invariant.
IInv == TypeOK /\ HandsOK /\ QueueInv /\ Balance /\ Supply
-----------------------------------------------------------------------------
(* The vocabulary.                                                         *)

\* There are finitely many processes, each on one side.
LEMMA ProcsFinite ==
  /\ \A s \in Sides : IsFiniteSet(Members(s)) /\ Members(s) \subseteq Procs
  /\ \A p \in Procs : Side(p) \in Sides /\ Other(Side(p)) \in Sides \ {Side(p)}
  /\ \A p \in Procs, s \in Sides : p \in Members(s) <=> s = Side(p)
<1>1. IsFiniteSet(Procs)
  BY PeopleAssumption, FS_Union DEF Procs
<1>2. \A s \in Sides : Members(s) \subseteq Procs
  BY DEF Members
<1>3. \A s \in Sides : IsFiniteSet(Members(s))
  BY <1>1, <1>2, FS_Subset
<1> QED BY <1>2, <1>3 DEF Members, Side, Other, Sides

\* What TypeOK says of the numbers the accounts are made of.
LEMMA Numbers ==
  ASSUME TypeOK, NEW s \in Sides
  PROVE  /\ queue[s] \in Sem(Procs) /\ queue[s].count \in Nat /\ Len(queue[s].queue) \in Nat
         /\ nr_waiting[s] \in Int /\ Units(queue[s]) \in Int /\ Owed(s) \in Int
         /\ Stock(s) \in Nat
         /\ CountAt(Members(s), Ready, pc) \in Nat /\ Served(s) \in Nat
         /\ CountAt(Members(s), Undoing, pc) \in Nat
<1>1. queue[s] \in Sem(Procs) /\ nr_waiting[s] \in Int
  BY DEF TypeOK, Sem
<1>2. queue[s].count \in Nat /\ Len(queue[s].queue) \in Nat
  BY <1>1 DEF Sem
<1>3. Units(queue[s]) \in Int
  BY <1>2 DEF Units
<1>4. CountAt(Members(s), Ready, pc) \in Nat /\ CountAt(Members(s), Undoing, pc) \in Nat
  BY ProcsFinite, CountNat
<1>5. Stock(s) \in Nat
  BY ItemsAssumption DEF TypeOK, Stock
<1> QED BY <1>1, <1>2, <1>3, <1>4, <1>5 DEF Owed, Served

\* Balance is what the runs check as WaitBalance.
LEMMA BalanceIsWaitBalance == TypeOK /\ Balance => WaitBalance
<1> SUFFICES ASSUME TypeOK, Balance, NEW s \in Sides
             PROVE  nr_waiting[s] + queue[s].count = Len(queue[s].queue)
                      + Cardinality({p \in At(Procs, Undoing) : Side(p) = s})
  BY DEF WaitBalance, Undoing
<1>1. {p \in At(Procs, Undoing) : Side(p) = s} = {p \in Members(s) : pc[p] \in Undoing}
  BY DEF At, Members
<1> DEFINE n == nr_waiting[s]
           c == queue[s].count
           l == Len(queue[s].queue)
           u == CountAt(Members(s), Undoing, pc)
<1>2. n \in Int /\ c \in Nat /\ l \in Nat /\ u \in Nat
  BY Numbers
<1>3. n + (c - l) = u
  BY DEF Balance, Owed, Units
<1>4. n + c = l + u
  <2> HIDE DEF n, c, l, u
  <2> QED BY <1>2, <1>3
<1> QED BY <1>1, <1>4 DEF CountAt

\* A wake-up by p for the other side: a waiting process is served, if there
\* is any, and nothing else changes but p.
LEMMA WakeEffect ==
  ASSUME TypeOK, QueueInv, NEW s \in Sides, NEW p \in Procs, s # Side(p),
         pc[p] # "asleep", NEW next \in PCs, next # "asleep", Wake(s, p, next)
  PROVE  /\ queue' \in [Sides -> Sem(Procs)] /\ nr_waiting' \in [Sides -> Int]
         /\ pc' \in [Procs -> PCs] /\ pc'[p] = next
         /\ \A q \in Procs \ {p} : \/ pc'[q] = pc[q]
                                   \/ pc[q] = "asleep" /\ pc'[q] = "relock" /\ Side(q) = s
         /\ QueueInv'
         /\ \A t \in Sides : Owed(t)' = Owed(t)
         /\ \A t \in Sides \ {s} : queue'[t] = queue[t] /\ nr_waiting'[t] = nr_waiting[t]
         /\ IF nr_waiting[s] > 0
            THEN nr_waiting'[s] = nr_waiting[s] - 1 /\ Served(s)' = Served(s) + 1
            ELSE nr_waiting' = nr_waiting
<1> DEFINE sm == queue[s]
           W == IF nr_waiting[s] > 0 THEN Woken(sm) ELSE {}
<1>t. /\ queue \in [Sides -> Sem(Procs)] /\ nr_waiting \in [Sides -> Int]
      /\ pc \in [Procs -> PCs] /\ sm \in Sem(Procs)
  BY DEF TypeOK, Sem
<1>q. Sound(sm, Sleepers(s))
  BY DEF QueueInv
<1>u. /\ Up(sm) \in Sem(Procs) /\ Sound(Up(sm), Sleepers(s) \ Woken(sm))
      /\ Units(Up(sm)) = Units(sm) + 1 /\ Woken(sm) \subseteq Sleepers(s)
  BY <1>t, <1>q, UpEffect
<1>1. pc' = [q \in Procs |-> IF q \in W THEN "relock" ELSE IF q = p THEN next ELSE pc[q]]
  BY DEF Wake
<1>2. W \subseteq Sleepers(s) /\ Sleepers(s) \subseteq Members(s) /\ Members(s) \subseteq Procs
      /\ p \notin Members(s)
  BY <1>u, ProcsFinite DEF Sleepers
<1>3. /\ pc' \in [Procs -> PCs] /\ pc'[p] = next
      /\ \A q \in W : pc[q] = "asleep" /\ pc'[q] = "relock" /\ Side(q) = s
      /\ \A q \in Procs \ {p} : q \notin W => pc'[q] = pc[q]
  <2>1. \A q \in W : q \in Procs /\ pc[q] = "asleep" /\ Side(q) = s
    BY <1>2 DEF Sleepers, Members
  <2>2. p \notin W
    BY <1>2
  <2> HIDE DEF W
  <2> QED BY <1>1, <1>t, <2>1, <2>2 DEF PCs
<1>4. \A t \in Sides : Sleepers(t)' = IF t = s THEN Sleepers(t) \ W ELSE Sleepers(t)
  <2> SUFFICES ASSUME NEW t \in Sides, NEW q \in Members(t)
               PROVE  pc'[q] = "asleep" <=> pc[q] = "asleep" /\ q \notin W
    BY <1>2, ProcsFinite DEF Sleepers, Members
  <2>1. q \in Procs
    BY ProcsFinite
  <2> HIDE DEF W
  <2> QED BY <1>3, <2>1
<1>5. CASE ~(nr_waiting[s] > 0)
  <2>1. queue' = queue /\ nr_waiting' = nr_waiting /\ W = {}
    BY <1>5 DEF Wake
  <2>2. QueueInv'
    BY <1>4, <2>1 DEF QueueInv
  <2> QED BY <1>t, <1>3, <1>5, <2>1, <2>2 DEF Owed
<1>6. CASE nr_waiting[s] > 0
  <2>1. /\ queue' = [queue EXCEPT ![s] = Up(sm)] /\ W = Woken(sm)
        /\ nr_waiting' = [nr_waiting EXCEPT ![s] = nr_waiting[s] - 1]
    BY <1>6 DEF Wake
  <2>2. queue' \in [Sides -> Sem(Procs)] /\ nr_waiting' \in [Sides -> Int]
    BY <1>t, <1>u, <2>1
  <2>3. /\ queue'[s] = Up(sm) /\ nr_waiting'[s] = nr_waiting[s] - 1
        /\ \A t \in Sides \ {s} : queue'[t] = queue[t] /\ nr_waiting'[t] = nr_waiting[t]
    BY <1>t, <2>1
  <2>4. QueueInv'
    BY <1>u, <1>4, <2>1, <2>3 DEF QueueInv
  <2>5. \A t \in Sides : Owed(t)' = Owed(t)
    <3>1. Owed(s)' = (nr_waiting[s] - 1) + Units(Up(sm)) /\ Owed(s) = nr_waiting[s] + Units(sm)
      BY <2>3 DEF Owed
    <3> DEFINE n == nr_waiting[s]
               u == Units(sm)
               v == Units(Up(sm))
    <3>2. n \in Int /\ u \in Int /\ v = u + 1
      BY <1>u, Numbers
    <3>3. (n - 1) + v = n + u
      <4> HIDE DEF n, u, v
      <4> QED BY <3>2
    <3> QED BY <2>3, <3>1, <3>3 DEF Owed
  <2>6. Served(s)' = Served(s) + 1
    <3> DEFINE r == CountAt(Members(s), Ready, pc)
               r2 == CountAt(Members(s), Ready, pc')
               c == sm.count
    <3>1. r \in Nat /\ c \in Nat /\ IsFiniteSet(Members(s))
      BY Numbers, ProcsFinite
    <3>2. Served(s) = r + c /\ Served(s)' = r2 + Up(sm).count
      BY <2>3 DEF Served, Members
    <3>3. CASE sm.queue = <<>>
      <4>1. Up(sm).count = c + 1 /\ W = {}
        BY <1>t, <2>1, <3>3 DEF Up, Woken, Sem
      <4>2. \A q \in Members(s) : pc'[q] = pc[q]
        BY <1>2, <1>3, <4>1
      <4>3. r2 = r
        BY <4>2, CountSame, Zenon DEF CountAt
      <4> HIDE DEF r, r2, c
      <4> QED BY <3>1, <3>2, <4>1, <4>3
    <3>4. CASE sm.queue # <<>>
      <4> DEFINE h == Head(sm.queue)
      <4>1. Up(sm).count = c /\ W = {h}
        BY <1>t, <2>1, <3>4 DEF Up, Woken, Sem
      <4>2. h \in Members(s) /\ pc[h] = "asleep" /\ pc'[h] = "relock"
            /\ \A q \in Members(s) \ {h} : pc'[q] = pc[q]
        <5>1. h \in W
          BY <4>1
        <5>2. \A q \in Members(s) \ {h} : q \notin W /\ q \in Procs \ {p}
          BY <1>2, <4>1
        <5> HIDE DEF h, W
        <5> QED BY <1>2, <1>3, <5>1, <5>2
      <4>3. r2 = r + Moved(h, Members(s), Ready, pc[h], pc'[h])
        <5>1. IsFiniteSet(Members(s)) /\ \A q \in Members(s) \ {h} : pc'[q] = pc[q]
          BY <3>1, <4>2
        <5> HIDE DEF h
        <5> QED BY <5>1, CountStep
      <4>4. Moved(h, Members(s), Ready, pc[h], pc'[h]) = 1
        <5> HIDE DEF h
        <5> QED BY <4>2 DEF Moved, In, Ready
      <4> HIDE DEF r, r2, c, h
      <4> QED BY <3>1, <3>2, <4>1, <4>3, <4>4
    <3> QED BY <3>3, <3>4
  <2> HIDE DEF W
  <2> QED BY <1>3, <1>6, <2>2, <2>3, <2>4, <2>5, <2>6
<1> QED BY <1>5, <1>6

-----------------------------------------------------------------------------
(* Types, and who has an item.                                             *)

\* Initially every variable has its type, and nobody has an item.
LEMMA TypeInit == Init => TypeOK /\ HandsOK
<1> SUFFICES ASSUME Init PROVE TypeOK /\ HandsOK
  OBVIOUS
<1>1. NewSem(0) \in [count : Nat, queue : Seq(Procs)]
  BY DEF NewSem
<1>2. <<>> \in Seq(Addr) /\ Len(<<>>) <= MAX_ITEMS_CBUF
  BY ItemsAssumption
<1> QED BY <1>1, <1>2, ItemsAssumption DEF Init, TypeOK, HandsOK, PCs, Procs

\* Every step keeps the types; the buffer has room for what a writer inserts.
LEMMA TypeStep == ASSUME TypeOK, HandsOK, QueueInv, Next PROVE TypeOK'
<1> PICK p \in Procs :
      \/ Begin(p) \/ Lock(p) \/ LockInterrupted(p) \/ Wait(p) \/ Sleep(p)
      \/ SleepInterrupted(p) \/ Undo(p) \/ Insert(p) \/ Remove(p) \/ Use(p)
  BY DEF Next
<1> DEFINE s == Side(p)
<1>s. s \in Sides /\ Other(s) \in Sides \ {s}
  BY ProcsFinite
<1>t. /\ mtx \in {0, 1} /\ queue \in [Sides -> Sem(Procs)] /\ nr_waiting \in [Sides -> Int]
      /\ cbuf \in Seq(Addr) /\ Len(cbuf) <= MAX_ITEMS_CBUF
      /\ pc \in [Procs -> PCs] /\ hand \in [Procs -> Addr \cup {NULL}]
      /\ leaked \subseteq Addr /\ signals \in 0..MaxSignals
  BY DEF TypeOK, Sem
<1>o. /\ mtx' \in {0, 1} /\ queue' \in [Sides -> Sem(Procs)] /\ nr_waiting' \in [Sides -> Int]
      /\ cbuf' \in Seq(Addr) /\ Len(cbuf') <= MAX_ITEMS_CBUF
      /\ pc' \in [Procs -> PCs] /\ hand' \in [Procs -> Addr \cup {NULL}]
      /\ leaked' \subseteq Addr /\ signals' \in 0..MaxSignals
      => TypeOK'
  BY DEF TypeOK, Sem
<1>q. Sound(queue[s], Sleepers(s)) /\ queue[s] \in Sem(Procs)
  BY <1>s, <1>t DEF QueueInv
<1>1. CASE Begin(p)
  <2>1. hand' \in [Procs -> Addr \cup {NULL}]
    BY <1>1, <1>t DEF Begin, Kept
  <2> QED BY <1>1, <1>t, <1>o, <2>1 DEF Begin, Goto, PCs
<1>2. CASE Lock(p)
  BY <1>2, <1>t, <1>o DEF Lock, Goto, PCs
<1>3. CASE LockInterrupted(p)
  <2>1. signals' \in 0..MaxSignals
    BY <1>3, <1>t, ItemsAssumption DEF LockInterrupted
  <2>2. hand' \in [Procs -> Addr \cup {NULL}] /\ leaked' \subseteq Addr /\ pc' \in [Procs -> PCs]
    BY <1>3, <1>t DEF LockInterrupted, Abandon, Kept, Goto, PCs
  <2> QED BY <1>3, <1>t, <1>o, <2>1, <2>2 DEF LockInterrupted
<1>4. CASE Wait(p)
  <2>1. nr_waiting' \in [Sides -> Int]
    BY <1>4, <1>s, <1>t DEF Wait
  <2> QED BY <1>4, <1>t, <1>o, <2>1 DEF Wait, Goto, PCs
<1>5. CASE Sleep(p)
  <2>1. pc' \in [Procs -> PCs]
    BY <1>5, <1>t DEF Sleep, Goto, PCs
  <2>2. CASE queue[s].count > 0
    <3>1. Take(queue[s]) \in Sem(Procs) /\ queue' = [queue EXCEPT ![s] = Take(queue[s])]
      BY <1>5, <1>q, <2>2, TakeEffect DEF Sleep
    <3>2. queue' \in [Sides -> Sem(Procs)]
      BY <1>s, <1>t, <3>1
    <3> QED BY <1>5, <1>t, <1>o, <2>1, <3>2 DEF Sleep
  <2>3. CASE ~(queue[s].count > 0)
    <3>1. p \notin Sleepers(s)
      BY <1>5 DEF Sleep, Sleepers
    <3>2. Enqueue(queue[s], p) \in Sem(Procs) /\ queue' = [queue EXCEPT ![s] = Enqueue(queue[s], p)]
      BY <1>5, <1>q, <2>3, <3>1, EnqueueEffect DEF Sleep
    <3>3. queue' \in [Sides -> Sem(Procs)]
      BY <1>s, <1>t, <3>2
    <3> QED BY <1>5, <1>t, <1>o, <2>1, <3>3 DEF Sleep
  <2> QED BY <2>2, <2>3
<1>6. CASE SleepInterrupted(p)
  <2>1. PICK i \in 1..Len(queue[s].queue) : queue' = [queue EXCEPT ![s] = Dequeue(queue[s], i)]
    BY <1>6 DEF SleepInterrupted
  <2>2. Dequeue(queue[s], i) \in Sem(Procs)
    BY <1>q, DequeueEffect
  <2>3. queue' \in [Sides -> Sem(Procs)]
    BY <1>s, <1>t, <2>1, <2>2
  <2>4. signals' \in 0..MaxSignals /\ pc' \in [Procs -> PCs]
    BY <1>6, <1>t, ItemsAssumption DEF SleepInterrupted, Goto, PCs
  <2> QED BY <1>6, <1>t, <1>o, <2>3, <2>4 DEF SleepInterrupted
<1>7. CASE Undo(p)
  <2>1. nr_waiting' \in [Sides -> Int]
    BY <1>7, <1>s, <1>t DEF Undo
  <2>2. hand' \in [Procs -> Addr \cup {NULL}] /\ leaked' \subseteq Addr /\ pc' \in [Procs -> PCs]
    BY <1>7, <1>t DEF Undo, Abandon, Kept, Goto, PCs
  <2> QED BY <1>7, <1>t, <1>o, <2>1, <2>2 DEF Undo
<1>8. CASE Insert(p)
  <2>1. Wake("cons", p, "idle") /\ "cons" # s /\ "cons" \in Sides /\ pc[p] = "test"
    BY <1>8 DEF Insert, Side, Sides
  <2>2. queue' \in [Sides -> Sem(Procs)] /\ nr_waiting' \in [Sides -> Int] /\ pc' \in [Procs -> PCs]
    BY <2>1, WakeEffect DEF PCs
  <2>3. hand[p] \in Addr
    BY <1>8, <1>t DEF Insert, HandsOK
  <2>4. cbuf' = Append(cbuf, hand[p]) /\ Len(cbuf) # MAX_ITEMS_CBUF
    BY <1>8 DEF Insert, MustWait
  <2>5. cbuf' \in Seq(Addr) /\ Len(cbuf') <= MAX_ITEMS_CBUF
    BY <1>t, <2>3, <2>4, ItemsAssumption
  <2>6. hand' \in [Procs -> Addr \cup {NULL}]
    BY <1>8, <1>t DEF Insert, Kept
  <2> QED BY <1>8, <1>t, <1>o, <2>2, <2>5, <2>6 DEF Insert
<1>9. CASE Remove(p)
  <2>1. Wake("prod", p, "using") /\ "prod" # s /\ "prod" \in Sides /\ pc[p] = "test"
    BY <1>9, PeopleAssumption DEF Remove, Side, Sides
  <2>2. queue' \in [Sides -> Sem(Procs)] /\ nr_waiting' \in [Sides -> Int] /\ pc' \in [Procs -> PCs]
    BY <2>1, WakeEffect DEF PCs
  <2>3. cbuf # <<>> /\ cbuf' = Tail(cbuf) /\ hand' = [hand EXCEPT ![p] = Head(cbuf)]
    BY <1>9, <2>1, <1>t DEF Remove, MustWait, Kept, Side
  <2>4. /\ cbuf' \in Seq(Addr) /\ Len(cbuf') <= MAX_ITEMS_CBUF
        /\ Head(cbuf) \in Addr
    BY <1>t, <2>3, ItemsAssumption
  <2>5. hand' \in [Procs -> Addr \cup {NULL}]
    BY <1>t, <2>3, <2>4
  <2> QED BY <1>9, <1>t, <1>o, <2>2, <2>4, <2>5 DEF Remove
<1>10. CASE Use(p)
  BY <1>10, <1>t, <1>o DEF Use, Kept, Goto, PCs
<1> QED BY <1>1, <1>2, <1>3, <1>4, <1>5, <1>6, <1>7, <1>8, <1>9, <1>10

\* Every step keeps who has an item.
LEMMA HandsStep == ASSUME TypeOK, HandsOK, QueueInv, Next PROVE HandsOK'
<1> PICK p \in Procs :
      \/ Begin(p) \/ Lock(p) \/ LockInterrupted(p) \/ Wait(p) \/ Sleep(p)
      \/ SleepInterrupted(p) \/ Undo(p) \/ Insert(p) \/ Remove(p) \/ Use(p)
  BY DEF Next
<1>t. /\ pc \in [Procs -> PCs] /\ hand \in [Procs -> Addr \cup {NULL}]
      /\ NULL \notin Addr /\ Producers \subseteq Procs /\ Consumers \subseteq Procs
      /\ p \in Producers <=> p \notin Consumers
  BY PeopleAssumption, ItemsAssumption DEF TypeOK, Procs
<1>1. ASSUME hand' = hand, \A q \in Procs : /\ pc'[q] = "idle" <=> pc[q] = "idle"
                                            /\ pc'[q] = "using" <=> pc[q] = "using"
      PROVE  HandsOK'
  BY <1>t, <1>1 DEF HandsOK
<1>2. CASE Begin(p)
  <2>1. pc[p] = "idle" /\ pc'[p] = "lock" /\ \A q \in Procs \ {p} : pc'[q] = pc[q]
    BY <1>2, <1>t DEF Begin, Goto
  <2>2. CASE p \in Producers
    <3>1. hand'[p] \in Addr /\ \A q \in Procs \ {p} : hand'[q] = hand[q]
      BY <1>2, <1>t, <2>2 DEF Begin, Kept
    <3> QED BY <1>t, <2>1, <2>2, <3>1 DEF HandsOK
  <2>3. CASE p \notin Producers
    BY <1>2, <1>t, <2>1, <2>3 DEF Begin, HandsOK
  <2> QED BY <2>2, <2>3
<1>3. CASE Lock(p) \/ Wait(p) \/ Sleep(p) \/ SleepInterrupted(p)
  BY <1>1, <1>3, <1>t DEF Lock, Wait, Sleep, SleepInterrupted, Goto
<1>4. CASE LockInterrupted(p) \/ Undo(p) \/ Use(p)
  <2>1. /\ pc'[p] = "idle" /\ hand'[p] = NULL
        /\ \A q \in Procs \ {p} : pc'[q] = pc[q] /\ hand'[q] = hand[q]
    BY <1>4, <1>t DEF LockInterrupted, Undo, Use, Abandon, Kept, Goto
  <2> QED BY <1>t, <2>1 DEF HandsOK
<1>5. CASE Insert(p)
  <2>1. Wake("cons", p, "idle") /\ "cons" # Side(p) /\ "cons" \in Sides /\ pc[p] = "test"
        /\ p \in Producers
    BY <1>5 DEF Insert, Side, Sides
  <2>2. /\ pc'[p] = "idle"
        /\ \A q \in Procs \ {p} : pc'[q] = pc[q] \/ (pc[q] = "asleep" /\ pc'[q] = "relock")
    BY <2>1, WakeEffect DEF PCs
  <2>3. hand'[p] = NULL /\ \A q \in Procs \ {p} : hand'[q] = hand[q]
    BY <1>5, <1>t DEF Insert, Kept
  <2> QED BY <1>t, <2>1, <2>2, <2>3 DEF HandsOK
<1>6. CASE Remove(p)
  <2>1. Wake("prod", p, "using") /\ "prod" # Side(p) /\ "prod" \in Sides /\ pc[p] = "test"
        /\ p \notin Producers
    BY <1>6, <1>t DEF Remove, Side, Sides
  <2>2. /\ pc'[p] = "using"
        /\ \A q \in Procs \ {p} : pc'[q] = pc[q] \/ (pc[q] = "asleep" /\ pc'[q] = "relock")
    BY <2>1, WakeEffect DEF PCs
  <2>3. \A q \in Procs \ {p} : hand'[q] = hand[q]
    BY <1>6, <1>t DEF Remove, Kept
  <2> QED BY <1>t, <2>1, <2>2, <2>3 DEF HandsOK
<1> QED BY <1>2, <1>3, <1>4, <1>5, <1>6

-----------------------------------------------------------------------------
(* The accounts of the monitor.                                            *)

\* Balance is kept when a side is owed one more or less as p goes to wait or
\* comes back from it.
LEMMA BalanceStep ==
  ASSUME TypeOK, Balance, NEW p \in Procs,
         \A q \in Procs \ {p} : pc'[q] \in Undoing <=> pc[q] \in Undoing,
         \A t \in Sides : Owed(t)' = Owed(t) + Moved(p, Members(t), Undoing, pc[p], pc'[p])
  PROVE  Balance'
<1> SUFFICES ASSUME NEW t \in Sides
             PROVE  Owed(t)' = CountAt(Members(t), Undoing, pc')
  BY DEF Balance, Members
<1>1. IsFiniteSet(Members(t)) /\ \A q \in Members(t) \ {p} : pc'[q] \in Undoing <=> pc[q] \in Undoing
  BY ProcsFinite
<1>2. CountAt(Members(t), Undoing, pc') =
        CountAt(Members(t), Undoing, pc) + Moved(p, Members(t), Undoing, pc[p], pc'[p])
  BY <1>1, CountStepIn
<1>3. Owed(t) = CountAt(Members(t), Undoing, pc)
  BY DEF Balance
<1> QED BY <1>2, <1>3

\* The processes that are served change by what p does.
LEMMA ServedStep ==
  ASSUME TypeOK, NEW p \in Procs, NEW t \in Sides,
         \A q \in Procs \ {p} : pc'[q] = pc[q] \/ q \notin Members(t)
  PROVE  Served(t)' = CountAt(Members(t), Ready, pc)
                        + Moved(p, Members(t), Ready, pc[p], pc'[p]) + queue'[t].count
<1>1. IsFiniteSet(Members(t)) /\ \A q \in Members(t) \ {p} : pc'[q] = pc[q]
  BY ProcsFinite
<1>2. CountAt(Members(t), Ready, pc') =
        CountAt(Members(t), Ready, pc) + Moved(p, Members(t), Ready, pc[p], pc'[p])
  BY <1>1, CountStep
<1> QED BY <1>2 DEF Served, Members

\* So many are served, in the next state as well.
LEMMA ServedNat == TypeOK => \A side \in Sides : Served(side) \in Nat
  BY Numbers

\* Supply is kept when no side starts to wait, its stock stays as it is, and
\* at least as many are served.
LEMMA SupplyKept ==
  ASSUME TypeOK, TypeOK', Supply, signals' = 0 => signals = 0,
         \A t \in Sides : /\ nr_waiting'[t] > 0 => nr_waiting[t] > 0
                          /\ Stock(t)' = Stock(t) /\ Served(t)' >= Served(t)
  PROVE  Supply'
<1> SUFFICES ASSUME signals = 0, NEW t \in Sides, nr_waiting'[t] > 0
             PROVE  Stock(t)' <= Served(t)'
  BY DEF Supply
<1>1. Stock(t) <= Served(t) /\ Stock(t)' = Stock(t) /\ Served(t)' >= Served(t)
  BY DEF Supply
<1>2. Stock(t) \in Nat /\ Served(t) \in Nat
  BY Numbers
<1>3. (TypeOK => \A side \in Sides : Served(side) \in Nat)'
  BY ServedNat, PTL
<1> QED BY <1>1, <1>2, <1>3

\* The steps that leave the queues alone: p moves on, outside the places
\* where a process counts as waiting, asleep or about to be.
LEMMA QuietStep ==
  ASSUME TypeOK, TypeOK', QueueInv, Balance, Supply, NEW p \in Procs, NEW next,
         pc' = [pc EXCEPT ![p] = next], pc[p] # "asleep", next # "asleep",
         next \in Undoing <=> pc[p] \in Undoing,
         UNCHANGED <<queue, nr_waiting>>,
         \/ signals' # 0
         \/ /\ UNCHANGED <<cbuf, signals>>
            /\ pc[p] \in Ready => next \in Ready
  PROVE  QueueInv' /\ Balance' /\ Supply'
<1>t. pc \in [Procs -> PCs] /\ \A t \in Sides : Members(t) \subseteq Procs
  BY ProcsFinite DEF TypeOK
<1>1. pc'[p] = next /\ \A q \in Procs \ {p} : pc'[q] = pc[q]
  BY <1>t
<1>2. QueueInv'
  <2>1. \A t \in Sides : Sleepers(t)' = Sleepers(t)
    BY <1>t, <1>1 DEF Sleepers, Members
  <2> QED BY <2>1 DEF QueueInv
<1>3. Balance'
  <2>1. \A t \in Sides : Owed(t)' = Owed(t) /\ Owed(t) \in Int
    BY Numbers DEF Owed
  <2>2. \A t \in Sides : Moved(p, Members(t), Undoing, pc[p], pc'[p]) = 0
    BY <1>1 DEF Moved, In
  <2>3. \A t \in Sides : Owed(t)' = Owed(t) + Moved(p, Members(t), Undoing, pc[p], pc'[p])
    BY <2>1, <2>2
  <2> QED BY <1>1, <2>3, BalanceStep
<1>4. CASE signals' # 0
  BY <1>2, <1>3, <1>4 DEF Supply
<1>5. CASE UNCHANGED <<cbuf, signals>> /\ (pc[p] \in Ready => next \in Ready)
  <2>1. ASSUME NEW t \in Sides PROVE Stock(t)' = Stock(t) /\ Served(t)' >= Served(t)
    <3>1. Served(t)' = CountAt(Members(t), Ready, pc)
                         + Moved(p, Members(t), Ready, pc[p], pc'[p]) + queue'[t].count
      BY <1>1, ServedStep
    <3>2. Moved(p, Members(t), Ready, pc[p], pc'[p]) \in {0, 1}
      BY <1>1, <1>5 DEF Moved, In
    <3> DEFINE m == Moved(p, Members(t), Ready, pc[p], pc'[p])
               c == queue[t].count
               r == CountAt(Members(t), Ready, pc)
    <3>3. r \in Nat /\ c \in Nat /\ Served(t) = r + c /\ Served(t)' = (r + m) + c /\ m \in {0, 1}
      BY <3>1, <3>2, Numbers DEF Served
    <3>4. Served(t)' >= Served(t)
      <4> HIDE DEF m, c, r
      <4> QED BY <3>3
    <3> QED BY <1>5, <3>4 DEF Stock
  <2> QED BY <1>2, <1>3, <1>5, <2>1, SupplyKept
<1> QED BY <1>4, <1>5

\* p blocks on its condition variable, or finds a wake-up posted there: one
\* process fewer on the way to sleep, one wake-up fewer owed.
LEMMA SleepStep ==
  ASSUME TypeOK, TypeOK', QueueInv, Balance, Supply, NEW p \in Procs, Sleep(p)
  PROVE  QueueInv' /\ Balance' /\ Supply'
<1> DEFINE s == Side(p)
           sm == queue[s]
<1>s. s \in Sides /\ p \in Members(s) /\ \A t \in Sides \ {s} : p \notin Members(t)
  BY ProcsFinite
<1>t. /\ pc \in [Procs -> PCs] /\ queue \in [Sides -> Sem(Procs)]
      /\ \A t \in Sides : Members(t) \subseteq Procs
  BY ProcsFinite DEF TypeOK, Sem
<1>p. pc[p] = "presleep" /\ nr_waiting' = nr_waiting /\ UNCHANGED <<cbuf, signals>>
  BY DEF Sleep
<1>q. Sound(sm, Sleepers(s)) /\ sm \in Sem(Procs) /\ p \notin Sleepers(s)
  BY <1>s, <1>t, <1>p DEF QueueInv, Sleepers
<1>1. ASSUME NEW next \in {"relock", "asleep"}, NEW new \in Sem(Procs),
             pc' = [pc EXCEPT ![p] = next], queue' = [queue EXCEPT ![s] = new],
             Units(new) = Units(sm) - 1,
             Sound(new, IF next = "asleep" THEN Sleepers(s) \cup {p} ELSE Sleepers(s)),
             new.count = sm.count - In(next, Ready)
      PROVE  QueueInv' /\ Balance' /\ Supply'
  <2>1. /\ pc'[p] = next /\ \A q \in Procs \ {p} : pc'[q] = pc[q]
        /\ queue'[s] = new /\ \A t \in Sides \ {s} : queue'[t] = queue[t]
    BY <1>1, <1>s, <1>t
  <2>2. QueueInv'
    <3>1. Sleepers(s)' = IF next = "asleep" THEN Sleepers(s) \cup {p} ELSE Sleepers(s)
      BY <1>s, <1>t, <1>p, <1>1, <2>1 DEF Sleepers, Members
    <3>2. \A t \in Sides \ {s} : Sleepers(t)' = Sleepers(t)
      BY <1>s, <1>t, <2>1 DEF Sleepers, Members
    <3>3. Sound(queue'[s], Sleepers(s)')
      BY <1>1, <2>1, <3>1
    <3>4. \A t \in Sides \ {s} : Sound(queue'[t], Sleepers(t)')
      BY <2>1, <3>2 DEF QueueInv
    <3> QED BY <3>3, <3>4 DEF QueueInv
  <2>3. Balance'
    <3>1. ASSUME NEW t \in Sides
          PROVE  Owed(t)' = Owed(t) + Moved(p, Members(t), Undoing, pc[p], pc'[p])
      <4>1. CASE t = s
        <5> DEFINE n == nr_waiting[s]
                   u == Units(sm)
                   v == Units(new)
        <5>1. n \in Int /\ u \in Int /\ v = u - 1
          BY <1>s, <1>1, Numbers
        <5>2. Owed(s) = n + u /\ Owed(s)' = n + v
          BY <1>p, <2>1 DEF Owed
        <5>3. Moved(p, Members(s), Undoing, pc[p], pc'[p]) = -1
          BY <1>s, <1>p, <1>1, <2>1 DEF Moved, In, Undoing
        <5>4. n + v = (n + u) + (-1)
          <6> HIDE DEF n, u, v
          <6> QED BY <5>1
        <5> QED BY <4>1, <5>2, <5>3, <5>4
      <4>2. CASE t # s
        <5>1. Owed(t)' = Owed(t) /\ Owed(t) \in Int
          BY <1>p, <2>1, <4>2, Numbers DEF Owed
        <5>2. Moved(p, Members(t), Undoing, pc[p], pc'[p]) = 0
          BY <1>s, <4>2 DEF Moved
        <5> QED BY <5>1, <5>2
      <4> QED BY <4>1, <4>2
    <3>2. \A q \in Procs \ {p} : pc'[q] \in Undoing <=> pc[q] \in Undoing
      BY <2>1
    <3> QED BY <3>1, <3>2, BalanceStep
  <2>4. Supply'
    <3>1. ASSUME NEW t \in Sides PROVE Stock(t)' = Stock(t) /\ Served(t)' >= Served(t)
      <4> DEFINE m == Moved(p, Members(t), Ready, pc[p], pc'[p])
                 c == queue[t].count
                 d == queue'[t].count
                 r == CountAt(Members(t), Ready, pc)
      <4>1. Served(t)' = (r + m) + d /\ Served(t) = r + c /\ r \in Nat /\ c \in Nat
        BY <2>1, ServedStep, Numbers DEF Served
      <4>2. m \in {0, 1} /\ d = c - m
        <5>1. CASE t = s
          <6>1. m = In(next, Ready)
            <7>1. In(pc[p], Ready) = 0 /\ In(next, Ready) \in {0, 1}
              BY <1>p DEF In, Ready
            <7> QED BY <1>s, <2>1, <5>1, <7>1 DEF Moved
          <6>2. d = c - In(next, Ready) /\ In(next, Ready) \in {0, 1}
            BY <1>1, <2>1, <5>1 DEF In
          <6> QED BY <6>1, <6>2
        <5>2. CASE t # s
          <6>1. m = 0
            BY <1>s, <5>2 DEF Moved
          <6>2. d = c
            BY <2>1, <5>2
          <6> HIDE DEF m, d, c
          <6> QED BY <4>1, <6>1, <6>2
        <5> QED BY <5>1, <5>2
      <4>3. Served(t)' >= Served(t)
        <5> HIDE DEF m, c, d, r
        <5> QED BY <4>1, <4>2
      <4> QED BY <1>p, <4>3 DEF Stock
    <3> QED BY <1>p, <3>1, SupplyKept
  <2> QED BY <2>2, <2>3, <2>4
<1>2. CASE sm.count > 0
  <2>1. pc' = [pc EXCEPT ![p] = "relock"] /\ queue' = [queue EXCEPT ![s] = Take(sm)]
    BY <1>2 DEF Sleep, Goto
  <2>2. /\ Take(sm) \in Sem(Procs) /\ Sound(Take(sm), Sleepers(s))
        /\ Units(Take(sm)) = Units(sm) - 1
    BY <1>2, <1>q, TakeEffect
  <2>3. Take(sm).count = sm.count - In("relock", Ready)
    BY <1>q DEF Take, Sem, In, Ready
  <2> HIDE DEF s
  <2> QED BY <1>1, <2>1, <2>2, <2>3
<1>3. CASE ~(sm.count > 0)
  <2>1. pc' = [pc EXCEPT ![p] = "asleep"] /\ queue' = [queue EXCEPT ![s] = Enqueue(sm, p)]
    BY <1>3 DEF Sleep, Goto
  <2>2. /\ Enqueue(sm, p) \in Sem(Procs) /\ Sound(Enqueue(sm, p), Sleepers(s) \cup {p})
        /\ Units(Enqueue(sm, p)) = Units(sm) - 1
    BY <1>3, <1>q, EnqueueEffect
  <2>3. Enqueue(sm, p).count = sm.count - In("asleep", Ready)
    BY <1>q DEF Enqueue, Sem, In, Ready
  <2> HIDE DEF s
  <2> QED BY <1>1, <2>1, <2>2, <2>3
<1> QED BY <1>2, <1>3

\* A signal takes p out of the list: from now on p has to give its wait back.
LEMMA InterruptStep ==
  ASSUME TypeOK, QueueInv, Balance, NEW p \in Procs, SleepInterrupted(p)
  PROVE  QueueInv' /\ Balance' /\ Supply'
<1> DEFINE s == Side(p)
           sm == queue[s]
<1>s. s \in Sides /\ p \in Members(s) /\ \A t \in Sides \ {s} : p \notin Members(t)
  BY ProcsFinite
<1>t. /\ pc \in [Procs -> PCs] /\ queue \in [Sides -> Sem(Procs)] /\ signals \in Nat
      /\ \A t \in Sides : Members(t) \subseteq Procs
  BY ProcsFinite DEF TypeOK, Sem
<1>p. /\ pc[p] = "asleep" /\ nr_waiting' = nr_waiting /\ signals' = signals + 1
      /\ pc' = [pc EXCEPT ![p] = "undo"]
  BY DEF SleepInterrupted, Goto
<1>i. PICK i \in 1..Len(sm.queue) : sm.queue[i] = p /\ queue' = [queue EXCEPT ![s] = Dequeue(sm, i)]
  BY DEF SleepInterrupted
<1> DEFINE new == Dequeue(sm, i)
<1>n. new \in Sem(Procs) /\ Sound(new, Sleepers(s) \ {p}) /\ Units(new) = Units(sm) + 1
  <2>1. Sound(sm, Sleepers(s)) /\ sm \in Sem(Procs)
    BY <1>s, <1>t DEF QueueInv
  <2> QED BY <1>i, <2>1, DequeueEffect
<1>1. /\ pc'[p] = "undo" /\ \A q \in Procs \ {p} : pc'[q] = pc[q]
      /\ queue'[s] = new /\ \A t \in Sides \ {s} : queue'[t] = queue[t]
  BY <1>i, <1>p, <1>s, <1>t
<1>2. QueueInv'
  <2>1. Sleepers(s)' = Sleepers(s) \ {p}
    BY <1>s, <1>t, <1>p, <1>1 DEF Sleepers, Members
  <2>2. \A t \in Sides \ {s} : Sleepers(t)' = Sleepers(t)
    BY <1>s, <1>t, <1>1 DEF Sleepers, Members
  <2>3. Sound(queue'[s], Sleepers(s)')
    BY <1>n, <1>1, <2>1
  <2>4. \A t \in Sides \ {s} : Sound(queue'[t], Sleepers(t)')
    BY <1>1, <2>2 DEF QueueInv
  <2> QED BY <2>3, <2>4 DEF QueueInv
<1>3. Balance'
  <2>1. ASSUME NEW t \in Sides
        PROVE  Owed(t)' = Owed(t) + Moved(p, Members(t), Undoing, pc[p], pc'[p])
    <3>1. CASE t = s
      <4> DEFINE n == nr_waiting[s]
                 u == Units(sm)
                 v == Units(new)
      <4>1. n \in Int /\ u \in Int /\ v = u + 1
        BY <1>s, <1>n, Numbers
      <4>2. Owed(s) = n + u /\ Owed(s)' = n + v
        BY <1>p, <1>1 DEF Owed
      <4>3. Moved(p, Members(s), Undoing, pc[p], pc'[p]) = 1
        BY <1>s, <1>p, <1>1 DEF Moved, In, Undoing
      <4>4. n + v = (n + u) + 1
        <5> HIDE DEF n, u, v
        <5> QED BY <4>1
      <4> QED BY <3>1, <4>2, <4>3, <4>4
    <3>2. CASE t # s
      <4>1. Owed(t)' = Owed(t) /\ Owed(t) \in Int
        BY <1>p, <1>1, <3>2, Numbers DEF Owed
      <4>2. Moved(p, Members(t), Undoing, pc[p], pc'[p]) = 0
        BY <1>s, <3>2 DEF Moved
      <4> QED BY <4>1, <4>2
    <3> QED BY <3>1, <3>2
  <2>2. \A q \in Procs \ {p} : pc'[q] \in Undoing <=> pc[q] \in Undoing
    BY <1>1
  <2> QED BY <2>1, <2>2, BalanceStep
<1>4. Supply'
  BY <1>p, <1>t DEF Supply
<1> QED BY <1>2, <1>3, <1>4

\* p counts itself as waiting before it releases the monitor, or gives its
\* wait back after a signal.
LEMMA CounterStep ==
  ASSUME TypeOK, TypeOK', QueueInv, Balance, Supply, NEW p \in Procs, Wait(p) \/ Undo(p)
  PROVE  QueueInv' /\ Balance' /\ Supply'
<1>n. (TypeOK => \A side \in Sides : Served(side) \in Nat)'
  BY ServedNat, PTL
<1> DEFINE s == Side(p)
           d == IF pc[p] = "test" THEN 1 ELSE -1
           next == IF pc[p] = "test" THEN "presleep" ELSE "idle"
<1>s. s \in Sides /\ p \in Members(s) /\ \A t \in Sides \ {s} : p \notin Members(t)
  BY ProcsFinite
<1>t. /\ pc \in [Procs -> PCs] /\ nr_waiting \in [Sides -> Int]
      /\ \A t \in Sides : Members(t) \subseteq Procs
  BY ProcsFinite DEF TypeOK
<1>p. /\ pc[p] \in {"test", "undocs"}
      /\ pc' = [pc EXCEPT ![p] = next]
      /\ nr_waiting' = [nr_waiting EXCEPT ![s] = nr_waiting[s] + d]
      /\ UNCHANGED <<queue, cbuf, signals>>
  BY <1>s, <1>t DEF Wait, Undo, Abandon, Goto
<1>1. /\ pc'[p] = next /\ \A q \in Procs \ {p} : pc'[q] = pc[q]
      /\ nr_waiting'[s] = nr_waiting[s] + d
      /\ \A t \in Sides \ {s} : nr_waiting'[t] = nr_waiting[t]
  BY <1>s, <1>t, <1>p
<1>2. QueueInv'
  <2>1. \A t \in Sides : Sleepers(t)' = Sleepers(t)
    BY <1>t, <1>p, <1>1 DEF Sleepers, Members
  <2> QED BY <1>p, <2>1 DEF QueueInv
<1>3. Balance'
  <2>1. ASSUME NEW t \in Sides
        PROVE  Owed(t)' = Owed(t) + Moved(p, Members(t), Undoing, pc[p], pc'[p])
    <3>1. CASE t = s
      <4> DEFINE n == nr_waiting[s]
                 u == Units(queue[s])
      <4>1. n \in Int /\ u \in Int /\ d \in Int
        BY <1>s, Numbers
      <4>2. Owed(s) = n + u /\ Owed(s)' = (n + d) + u
        BY <1>p, <1>1 DEF Owed
      <4>3. Moved(p, Members(s), Undoing, pc[p], pc'[p]) = d
        BY <1>s, <1>p, <1>1 DEF Moved, In, Undoing
      <4>4. (n + d) + u = (n + u) + d
        <5> HIDE DEF n, u, d
        <5> QED BY <4>1
      <4> HIDE DEF d
      <4> QED BY <3>1, <4>2, <4>3, <4>4
    <3>2. CASE t # s
      <4>1. Owed(t)' = Owed(t) /\ Owed(t) \in Int
        BY <1>p, <1>1, <3>2, Numbers DEF Owed
      <4>2. Moved(p, Members(t), Undoing, pc[p], pc'[p]) = 0
        BY <1>s, <3>2 DEF Moved
      <4> QED BY <4>1, <4>2
    <3> QED BY <3>1, <3>2
  <2>2. \A q \in Procs \ {p} : pc'[q] \in Undoing <=> pc[q] \in Undoing
    BY <1>1
  <2> QED BY <2>1, <2>2, BalanceStep
<1>4. Supply'
  <2>1. CASE Undo(p)
    <3>1. ASSUME NEW t \in Sides
          PROVE  /\ nr_waiting'[t] > 0 => nr_waiting[t] > 0
                 /\ Stock(t)' = Stock(t) /\ Served(t)' >= Served(t)
      <4>1. pc[p] = "undocs" /\ pc'[p] = "idle"
        BY <1>1, <2>1 DEF Undo
      <4>2. nr_waiting'[t] > 0 => nr_waiting[t] > 0
        <5>1. nr_waiting[t] \in Int /\ (nr_waiting'[t] = nr_waiting[t] - 1 \/ nr_waiting'[t] = nr_waiting[t])
          BY <1>t, <1>1, <4>1
        <5> QED BY <5>1
      <4>3. Stock(t)' = Stock(t)
        BY <1>p DEF Stock
      <4>4. Moved(p, Members(t), Ready, pc[p], pc'[p]) = 0
        BY <4>1 DEF Moved, In, Ready
      <4>5. Served(t)' = CountAt(Members(t), Ready, pc) + 0 + queue[t].count
        BY <1>p, <1>1, <4>4, ServedStep
      <4>6. Served(t)' = Served(t) /\ Served(t) \in Nat
        BY <4>5, Numbers DEF Served
      <4> QED BY <4>2, <4>3, <4>6
    <3> QED BY <1>p, <3>1, SupplyKept
  <2>2. CASE Wait(p)
    <3> SUFFICES ASSUME signals' = 0, NEW t \in Sides, nr_waiting'[t] > 0
                 PROVE  Stock(t)' <= Served(t)'
      BY DEF Supply
    <3>2. CASE t = s
      <4>1. Stock(t)' = 0
        BY <1>p, <2>2, <3>2, ItemsAssumption DEF Wait, MustWait, Stock, Side
      <4> QED BY <1>n, <4>1
    <3>3. CASE t # s
      <4>1. Moved(p, Members(t), Ready, pc[p], pc'[p]) = 0
        BY <1>s, <3>3 DEF Moved
      <4>2. Served(t)' = CountAt(Members(t), Ready, pc) + 0 + queue[t].count
        BY <1>p, <1>1, <4>1, ServedStep
      <4>3. Served(t)' = Served(t) /\ Stock(t)' = Stock(t) /\ nr_waiting'[t] = nr_waiting[t]
        BY <1>p, <1>1, <3>3, <4>2, Numbers DEF Served, Stock
      <4> QED BY <1>p, <4>3 DEF Supply
    <3> QED BY <3>2, <3>3
  <2> QED BY <2>1, <2>2
<1> QED BY <1>2, <1>3, <1>4

\* p changes the buffer by one item and wakes the other side: one more item
\* or gap for those who wait, and one of them served; one fewer for p's own
\* side, of which p is no longer one who looks for it.
LEMMA PassOn ==
  ASSUME TypeOK, TypeOK', QueueInv, Balance, Supply, NEW p \in Procs,
         NEW s \in Sides, s = Other(Side(p)), NEW next \in {"idle", "using"},
         pc[p] = "test", Wake(s, p, next), signals' = signals,
         Stock(s)' = Stock(s) + 1, Stock(Side(p))' = Stock(Side(p)) - 1
  PROVE  QueueInv' /\ Balance' /\ Supply'
<1> DEFINE o == Side(p)
<1>s. /\ s # o /\ o \in Sides /\ \A t \in Sides : t = s \/ t = o
      /\ p \in Members(o) /\ p \notin Members(s)
  BY ProcsFinite DEF Other, Sides
<1>1. /\ pc'[p] = next
      /\ \A q \in Procs \ {p} : \/ pc'[q] = pc[q]
                                \/ pc[q] = "asleep" /\ pc'[q] = "relock" /\ Side(q) = s
      /\ QueueInv' /\ \A t \in Sides : Owed(t)' = Owed(t)
      /\ queue'[o] = queue[o] /\ nr_waiting'[o] = nr_waiting[o]
      /\ IF nr_waiting[s] > 0
         THEN nr_waiting'[s] = nr_waiting[s] - 1 /\ Served(s)' = Served(s) + 1
         ELSE nr_waiting' = nr_waiting
  <2>1. next \in PCs /\ next # "asleep" /\ pc[p] # "asleep" /\ s # Side(p)
    BY <1>s DEF PCs
  <2> QED BY <1>s, <2>1, WakeEffect
<1>2. Balance'
  <2>1. \A t \in Sides : Moved(p, Members(t), Undoing, pc[p], pc'[p]) = 0
    BY <1>1 DEF Moved, In, Undoing
  <2>2. \A t \in Sides : Owed(t)' = Owed(t) + Moved(p, Members(t), Undoing, pc[p], pc'[p])
    BY <1>1, <2>1, Numbers
  <2>3. \A q \in Procs \ {p} : pc'[q] \in Undoing <=> pc[q] \in Undoing
    BY <1>1 DEF Undoing
  <2> QED BY <2>2, <2>3, BalanceStep
<1>3. Supply'
  <2> SUFFICES ASSUME signals = 0, NEW t \in Sides, nr_waiting'[t] > 0
               PROVE  Stock(t)' <= Served(t)'
    BY DEF Supply
  <2>1. CASE t = s
    <3>1. nr_waiting[s] > 0
      BY <1>1, <2>1
    <3>2. Stock(s) <= Served(s) /\ Served(s)' = Served(s) + 1
      BY <1>1, <3>1 DEF Supply
    <3>3. Stock(s) \in Nat /\ Served(s) \in Nat
      BY Numbers
    <3> QED BY <2>1, <3>2, <3>3
  <2>2. CASE t = o
    <3>1. Stock(o) <= Served(o)
      BY <1>s, <1>1, <2>2 DEF Supply
    <3>2. Moved(p, Members(o), Ready, pc[p], pc'[p]) = -1
      BY <1>s, <1>1 DEF Moved, In, Ready
    <3>3. \A q \in Procs \ {p} : pc'[q] = pc[q] \/ q \notin Members(o)
      BY <1>1, <1>s DEF Members
    <3> DEFINE r == CountAt(Members(o), Ready, pc)
               c == queue[o].count
               k == Stock(o)
    <3>4. Served(o)' = r + (-1) + c
      <4>1. Served(o)' = CountAt(Members(o), Ready, pc)
                           + Moved(p, Members(o), Ready, pc[p], pc'[p]) + queue'[o].count
        BY <1>s, <3>3, ServedStep
      <4> QED BY <1>1, <3>2, <4>1
    <3>5. r \in Nat /\ c \in Nat /\ k \in Nat /\ Served(o) = r + c /\ k <= r + c
      BY <1>s, <3>1, Numbers DEF Served
    <3>6. k - 1 <= r + (-1) + c
      <4> HIDE DEF r, c, k
      <4> QED BY <3>5
    <3> QED BY <2>2, <3>4, <3>6
  <2> QED BY <1>s, <2>1, <2>2
<1> QED BY <1>1, <1>2, <1>3

\* Every step keeps the accounts of the monitor.
LEMMA MonitorStep ==
  ASSUME TypeOK, TypeOK', HandsOK, QueueInv, Balance, Supply, Next
  PROVE  QueueInv' /\ Balance' /\ Supply'
<1> PICK p \in Procs :
      \/ Begin(p) \/ Lock(p) \/ LockInterrupted(p) \/ Wait(p) \/ Sleep(p)
      \/ SleepInterrupted(p) \/ Undo(p) \/ Insert(p) \/ Remove(p) \/ Use(p)
  BY DEF Next
<1>1. CASE Begin(p)
  <2>1. /\ pc[p] = "idle" /\ pc' = [pc EXCEPT ![p] = "lock"]
        /\ UNCHANGED <<queue, nr_waiting, cbuf, signals>>
    BY <1>1 DEF Begin, Goto
  <2> QED BY <2>1, QuietStep DEF Undoing, Ready
<1>2. CASE Lock(p)
  <2> DEFINE next == IF pc[p] = "undo" THEN "undocs" ELSE "test"
  <2>1. /\ pc[p] \in {"lock", "relock", "undo"} /\ pc' = [pc EXCEPT ![p] = next]
        /\ UNCHANGED <<queue, nr_waiting, cbuf, signals>>
    BY <1>2 DEF Lock, Goto
  <2>2. /\ pc[p] # "asleep" /\ next # "asleep" /\ (next \in Undoing <=> pc[p] \in Undoing)
        /\ (pc[p] \in Ready => next \in Ready)
    BY <2>1 DEF Undoing, Ready
  <2> HIDE DEF next
  <2> QED BY <2>1, <2>2, QuietStep
<1>3. CASE LockInterrupted(p)
  <2>1. /\ pc[p] \in {"lock", "relock"} /\ pc' = [pc EXCEPT ![p] = "idle"]
        /\ UNCHANGED <<queue, nr_waiting>> /\ signals' = signals + 1
    BY <1>3 DEF LockInterrupted, Abandon, Goto
  <2>2. signals' # 0
    BY <2>1 DEF TypeOK
  <2>3. pc[p] # "asleep" /\ ("idle" \in Undoing <=> pc[p] \in Undoing)
    BY <2>1 DEF Undoing
  <2> QED BY <2>1, <2>2, <2>3, QuietStep
<1>4. CASE Use(p)
  <2>1. /\ pc[p] = "using" /\ pc' = [pc EXCEPT ![p] = "idle"]
        /\ UNCHANGED <<queue, nr_waiting, cbuf, signals>>
    BY <1>4 DEF Use, Goto
  <2> QED BY <2>1, QuietStep DEF Undoing, Ready
<1>5. CASE Wait(p) \/ Undo(p)
  BY <1>5, CounterStep
<1>6. CASE Sleep(p)
  BY <1>6, SleepStep
<1>7. CASE SleepInterrupted(p)
  BY <1>7, InterruptStep
<1> DEFINE l == Len(cbuf)
<1>l. l \in Nat /\ MAX_ITEMS_CBUF \in Nat
  BY ItemsAssumption DEF TypeOK
<1>8. CASE Insert(p)
  <2>1. /\ Side(p) = "prod" /\ Other(Side(p)) = "cons" /\ "cons" \in Sides
        /\ pc[p] = "test" /\ Wake("cons", p, "idle") /\ signals' = signals
    BY <1>8 DEF Insert, Side, Other, Sides
  <2>2. cbuf' = Append(cbuf, hand[p]) /\ hand[p] \in Addr
    BY <1>8 DEF Insert, TypeOK, HandsOK, Procs
  <2>3. Len(cbuf') = l + 1
    BY <2>2 DEF TypeOK
  <2>4. Stock("cons")' = Stock("cons") + 1 /\ Stock("prod")' = Stock("prod") - 1
    <3>1. /\ Stock("cons") = l /\ Stock("prod") = MAX_ITEMS_CBUF - l
          /\ Stock("cons")' = l + 1 /\ Stock("prod")' = MAX_ITEMS_CBUF - (l + 1)
      BY <2>3 DEF Stock
    <3> HIDE DEF l
    <3> QED BY <1>l, <3>1
  <2> QED BY <2>1, <2>4, PassOn
<1>9. CASE Remove(p)
  <2>1. /\ Side(p) = "cons" /\ Other(Side(p)) = "prod" /\ "prod" \in Sides
        /\ pc[p] = "test" /\ Wake("prod", p, "using") /\ signals' = signals
    BY <1>9, PeopleAssumption DEF Remove, Side, Other, Sides
  <2>2. cbuf' = Tail(cbuf) /\ cbuf # <<>>
    BY <1>9, <2>1 DEF Remove, MustWait, Side, TypeOK
  <2>3. Len(cbuf') = l - 1
    BY <2>2 DEF TypeOK
  <2>4. Stock("prod")' = Stock("prod") + 1 /\ Stock("cons")' = Stock("cons") - 1
    <3>1. /\ Stock("cons") = l /\ Stock("prod") = MAX_ITEMS_CBUF - l
          /\ Stock("cons")' = l - 1 /\ Stock("prod")' = MAX_ITEMS_CBUF - (l - 1)
      BY <2>3 DEF Stock
    <3> HIDE DEF l
    <3> QED BY <1>l, <3>1
  <2> QED BY <2>1, <2>4, PassOn
<1> QED BY <1>1, <1>2, <1>3, <1>4, <1>5, <1>6, <1>7, <1>8, <1>9

-----------------------------------------------------------------------------
(* The theorems.                                                           *)

\* Initially nobody waits, sleeps or is owed anything.
LEMMA IInvInit == Init => IInv
<1> SUFFICES ASSUME Init PROVE IInv
  OBVIOUS
<1>1. /\ queue = [s \in Sides |-> NewSem(0)] /\ nr_waiting = [s \in Sides |-> 0]
      /\ pc = [p \in Procs |-> "idle"]
  BY DEF Init
<1>2. \A s \in Sides : Sleepers(s) = {} /\ {p \in Members(s) : pc[p] \in Undoing} = {}
  BY <1>1, ProcsFinite DEF Sleepers, Members, Undoing
<1>3. QueueInv
  BY <1>1, <1>2 DEF QueueInv, Sound, NewSem
<1>4. Balance
  <2>1. \A s \in Sides : CountAt(Members(s), Undoing, pc) = 0
    BY <1>2, FS_EmptySet DEF CountAt
  <2>2. \A s \in Sides : nr_waiting[s] = 0 /\ queue[s].count = 0 /\ Len(queue[s].queue) = 0
    BY <1>1 DEF NewSem
  <2> QED BY <2>1, <2>2 DEF Balance, Owed, Units
<1>5. Supply
  BY <1>1 DEF Supply
<1> QED BY <1>3, <1>4, <1>5, TypeInit DEF IInv

\* The invariant is inductive.
LEMMA IInvStep == IInv /\ [Next]_vars => IInv'
<1> SUFFICES ASSUME IInv, [Next]_vars PROVE IInv'
  OBVIOUS
<1>1. CASE Next
  BY <1>1, TypeStep, HandsStep, MonitorStep DEF IInv
<1>2. CASE UNCHANGED vars
  <2>1. TypeOK' /\ HandsOK'
    BY <1>2 DEF IInv, TypeOK, HandsOK, vars
  <2>2. QueueInv' /\ Balance'
    BY <1>2 DEF IInv, QueueInv, Sleepers, Members, Balance, Owed, vars
  <2>3. Supply'
    BY <1>2 DEF IInv, Supply, Stock, Served, Members, vars
  <2> QED BY <2>1, <2>2, <2>3 DEF IInv
<1> QED BY <1>1, <1>2

\* Whatever the processes do, the accounts of both condition variables hold:
\* the counters, the lists, and, while no signal arrives, the supply.
THEOREM Invariance == Spec => []IInv
  BY IInvInit, IInvStep, PTL DEF Spec

\* The buffer never overflows and every variable keeps its type.
THEOREM TypeCorrect == Spec => []TypeOK
<1>1. IInv => TypeOK
  BY DEF IInv
<1> QED BY <1>1, Invariance, PTL

\* No wake-up is lost or invented, for every crossing of signals and up()s.
THEOREM WaitBalanceSafe == Spec => []WaitBalance
<1>1. IInv => WaitBalance
  BY BalanceIsWaitBalance DEF IInv
<1> QED BY <1>1, Invariance, PTL

\* Once everybody is idle or asleep, a sleeper's wake-up is still owed, so that
\* by Supply there is neither an item nor a gap it could have.
LEMMA QuiescentSleepers == IInv => NobodyForgotten
<1> SUFFICES ASSUME IInv, signals = 0, \A p \in Procs : pc[p] \in {"idle", "asleep"},
                    NEW p \in Procs, pc[p] = "asleep"
             PROVE  MustWait(p)
  BY DEF NobodyForgotten, SleepersMustWait
<1> DEFINE s == Side(p)
<1>s. s \in Sides /\ p \in Sleepers(s) /\ Members(s) \subseteq Procs
  BY ProcsFinite DEF Sleepers
<1>t. TypeOK /\ queue[s] \in Sem(Procs) /\ Sound(queue[s], Sleepers(s))
  BY <1>s, Numbers DEF IInv, QueueInv
<1>1. queue[s].count = 0 /\ Len(queue[s].queue) > 0
  BY <1>s, <1>t, SleepersNoUnit
<1>2. CountAt(Members(s), Undoing, pc) = 0 /\ CountAt(Members(s), Ready, pc) = 0
  <2>1. {q \in Members(s) : pc[q] \in Undoing} = {} /\ {q \in Members(s) : pc[q] \in Ready} = {}
    BY <1>s DEF Undoing, Ready
  <2> QED BY <2>1, FS_EmptySet DEF CountAt
<1>3. nr_waiting[s] > 0
  <2> DEFINE n == nr_waiting[s]
             l == Len(queue[s].queue)
  <2>1. n \in Int /\ l \in Nat /\ l > 0
    BY <1>s, <1>t, <1>1, Numbers
  <2>2. n + (0 - l) = 0
    BY <1>s, <1>1, <1>2 DEF IInv, Balance, Owed, Units
  <2> HIDE DEF n, l
  <2>3. n > 0
    BY <2>1, <2>2
  <2> QED BY <2>3 DEF n
<1>4. Stock(s) = 0
  <2>1. Stock(s) <= Served(s) /\ Served(s) = 0 + 0
    BY <1>s, <1>1, <1>2, <1>3 DEF IInv, Supply, Served
  <2>2. Stock(s) \in Nat
    BY <1>s, <1>t, Numbers
  <2> QED BY <2>1, <2>2
<1> QED BY <1>t, <1>4, ItemsAssumption DEF Stock, MustWait, Side, TypeOK

\* Without signals nobody sleeps on while the buffer has what it wants.
THEOREM NobodyForgottenSafe == Spec => []NobodyForgotten
  BY QuiescentSleepers, Invariance, PTL

-----------------------------------------------------------------------------
(* The monitor implements the bounded buffer: what it does to its condition *)
(* variables and the places of its processes are left out of the abstract   *)
(* state.                                                                    *)

\* Nobody has an item, and the buffer is empty.
LEMMA PromiseInit == Init => Promise!Init
  BY DEF Init, Promise!Init, Promise!Procs, Procs

\* Each step of a process is a step of the buffer or changes neither the
\* buffer nor what the processes hold.
LEMMA PromiseStep == IInv /\ [Next]_vars => [Promise!Next]_Promise!vars
<1> SUFFICES ASSUME IInv, [Next]_vars PROVE [Promise!Next]_Promise!vars
  OBVIOUS
<1>u. CASE UNCHANGED vars
  BY <1>u DEF vars, Promise!vars
<1> SUFFICES ASSUME NEW p \in Procs,
                    \/ Begin(p) \/ Lock(p) \/ LockInterrupted(p) \/ Wait(p) \/ Sleep(p)
                    \/ SleepInterrupted(p) \/ Undo(p) \/ Insert(p) \/ Remove(p) \/ Use(p)
             PROVE  \/ UNCHANGED <<cbuf, hand>>
                    \/ Promise!Alloc(p) \/ Promise!Put(p) \/ Promise!Get(p) \/ Promise!Drop(p)
  BY <1>u DEF Next, Promise!Next, Promise!vars, Promise!Procs, Procs
<1>t. TypeOK /\ HandsOK
  BY DEF IInv
<1>k. p \in Producers <=> p \notin Consumers
  BY PeopleAssumption DEF Procs
<1>p. hand \in [Procs -> Addr \cup {NULL}] /\ cbuf \in Seq(Addr)
  BY <1>t DEF TypeOK
<1>1. CASE Begin(p)
  <2>1. CASE p \in Producers
    <3>1. hand[p] = NULL
      BY <1>t, <1>1, <2>1 DEF Begin, HandsOK
    <3>2. Promise!Alloc(p)
      BY <1>1, <2>1, <3>1 DEF Begin, Kept, InUse, Procs,
         Promise!Alloc, Promise!Held, Promise!Buffered, Promise!Procs
    <3> QED BY <3>2
  <2>2. CASE p \notin Producers
    BY <1>1, <2>2 DEF Begin
  <2> QED BY <2>1, <2>2
<1>2. CASE Lock(p) \/ Wait(p) \/ Sleep(p) \/ SleepInterrupted(p)
  BY <1>2 DEF Lock, Wait, Sleep, SleepInterrupted
<1>3. CASE LockInterrupted(p) \/ Undo(p) \/ Use(p)
  <2>1. cbuf' = cbuf /\ hand' = [hand EXCEPT ![p] = NULL]
    BY <1>3 DEF LockInterrupted, Undo, Use, Abandon, Kept
  <2>2. CASE hand[p] = NULL
    BY <1>p, <2>1, <2>2
  <2>3. CASE hand[p] # NULL
    BY <2>1, <2>3 DEF Promise!Drop
  <2> QED BY <2>2, <2>3
<1>4. CASE Insert(p)
  <2>1. hand[p] # NULL /\ Len(cbuf) < MAX_ITEMS_CBUF
    <3>1. hand[p] # NULL
      BY <1>t, <1>4 DEF Insert, HandsOK
    <3>2. Len(cbuf) <= MAX_ITEMS_CBUF /\ Len(cbuf) # MAX_ITEMS_CBUF /\ Len(cbuf) \in Nat
      BY <1>t, <1>4 DEF Insert, MustWait, TypeOK
    <3> QED BY <3>1, <3>2, ItemsAssumption
  <2>2. Promise!Put(p)
    BY <1>4, <2>1 DEF Insert, Kept, Promise!Put
  <2> QED BY <2>2
<1>5. CASE Remove(p)
  <2>1. hand[p] = NULL
    BY <1>t, <1>5 DEF Remove, HandsOK
  <2>2. cbuf # <<>>
    BY <1>p, <1>k, <1>5 DEF Remove, MustWait
  <2>3. Promise!Get(p)
    BY <1>5, <2>1, <2>2 DEF Remove, Kept, Promise!Get
  <2> QED BY <2>3
<1> QED BY <1>1, <1>2, <1>3, <1>4, <1>5

\* The monitor implements the bounded buffer, as the three semaphores of
\* prodcons1.c do: FIFO order, and no item used by two or lost from the buffer.
THEOREM Implementation == Spec => ImplementsBuffer
<1>1. Init /\ [][Next]_vars /\ []IInv => Promise!Init /\ [][Promise!Next]_Promise!vars
  BY PromiseInit, PromiseStep, PTL
<1> QED BY <1>1, Invariance DEF Spec, ImplementsBuffer, Promise!Spec
=============================================================================
