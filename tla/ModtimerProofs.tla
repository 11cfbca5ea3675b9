--------------------------- MODULE ModtimerProofs ---------------------------
(***************************************************************************)
(* The pipeline of Modtimer, in both of its versions: for any size of the  *)
(* buffer, any thresholds and any number of readers, no number is lost or  *)
(* reordered between the timer and the list, and the work item's buffer    *)
(* does not overflow, as long as the work item is served within Grace      *)
(* periods and the threshold leaves room for them.                         *)
(***************************************************************************)
EXTENDS ModtimerJavi, SharedLemmas, SequenceTheorems

Number == 0 .. Serials - 1

\* The work item is scheduled or is emptying the buffer.
Busy == work \/ worker = "drain"

\* Only the kworker fills aux_buffer, and it starts from nothing.
BatchOwn == worker = "idle" => aux = <<>>

\* The periods counted against Grace are those of a work item under way.
LateServed == ~Busy => late = 0

\* What the exact comparison with the threshold rests on: an unserved buffer
\* is below it until fire_timer compares, and one that is being served has
\* grown by no more than the periods that have passed since.
Growth == settled /\ ItemsToServe > 0 =>
  /\ worker = "drain" => Len(aux) + Len(cbuf) <= ItemsToServe + late
  /\ work /\ worker # "drain" => Len(cbuf) <= ItemsToServe + late
  /\ ~Busy /\ timer = "running" => Len(cbuf) <= ItemsToServe
  /\ ~Busy /\ timer # "running" => Len(cbuf) < ItemsToServe

\* The timer runs only while the file is open: an open does not restart a
\* fire_timer that has yet to compare.
TimerOwned == ~opened => timer = "off"

\* The inductive invariant.
IInv == TypeOK /\ TimerOwned /\ BatchOwn /\ LateServed /\ Growth
-----------------------------------------------------------------------------
(* Types.                                                                  *)

\* The threshold is a number of items, also one that rounds to none.
LEMMA ItemsTyped == ASSUME emergency_threshold \in Nat PROVE ItemsToServe \in Nat
<1> DEFINE n == emergency_threshold * MAX_ITEMS_CBUFFER
<1>1. n \in Nat
  BY BufferAssumption
<1>2. n \div 100 \in Nat
  <2> HIDE DEF n
  <2> QED BY <1>1
<1> QED BY <1>2 DEF ItemsToServe

\* What TypeOK says of the sequences and the semaphore.
LEMMA SequencesTyped ==
  ASSUME TypeOK
  PROVE  /\ cbuf \in Seq(Number) /\ aux \in Seq(Number) /\ mylist \in Seq(Number)
         /\ Len(cbuf) \in Nat /\ Len(aux) \in Nat /\ Len(cbuf) <= MAX_ITEMS_CBUFFER
         /\ next \in Number /\ sem_list \in Sem(Readers) /\ pc \in [Readers -> PCs]
         /\ late \in Nat /\ Grace \in Nat /\ late <= Grace /\ MAX_ITEMS_CBUFFER \in Nat \ {0}
         /\ ItemsToServe \in Nat
  BY BufferAssumption, ItemsTyped DEF TypeOK, Number, Sem

\* Initially nothing is stored, scheduled or read.
LEMMA TypeInit == Init => TypeOK
<1> SUFFICES ASSUME Init PROVE TypeOK
  OBVIOUS
<1>1. NewSem(0) \in [count : Nat, queue : Seq(Readers)]
  BY DEF NewSem
<1>2. /\ <<>> \in Seq(0 .. Serials - 1) /\ Len(<<>>) <= MAX_ITEMS_CBUFFER
      /\ 0 \in 0 .. Serials - 1 /\ 0 \in 0 .. Grace /\ 0 \in 0 .. MaxEvents
      /\ DEFAULT_EMERGENCY_THRESHOLD \in Nat
  BY BufferAssumption
<1>3. /\ cbuf \in Seq(0 .. Serials - 1) /\ Len(cbuf) <= MAX_ITEMS_CBUFFER
      /\ aux \in Seq(0 .. Serials - 1) /\ mylist \in Seq(0 .. Serials - 1)
  BY <1>2 DEF Init
<1>4. sem_list \in [count : Nat, queue : Seq(Readers)] /\ pc \in [Readers -> PCs]
  BY <1>1 DEF Init, PCs
<1>5. work \in BOOLEAN /\ opened \in BOOLEAN /\ settled \in BOOLEAN
  BY Zenon DEF Init
<1>6. /\ emergency_threshold \in Nat /\ next \in 0 .. Serials - 1
      /\ late \in 0 .. Grace /\ signals \in 0 .. MaxEvents /\ configs \in 0 .. MaxEvents
  BY <1>2 DEF Init
<1>7. /\ version \in {"modtimer", "Javi"} /\ timer \in {"off", "pending", "running"}
      /\ worker \in {"idle", "drain", "lock", "add"} /\ closing \in {"no", "flush", "clear"}
      /\ list_mtx \in {0, 1} /\ waiting \in Int
  BY DEF Init
<1> QED BY <1>3, <1>4, <1>5, <1>6, <1>7 DEF TypeOK

\* What insert_cbuffer_t leaves in the buffer: the new number at the end,
\* and the oldest dropped if there was no room.
LEMMA FireEffect ==
  ASSUME TypeOK, Fire
  PROVE  /\ cbuf' \in Seq(Number) /\ next' \in Number
         /\ Len(cbuf') <= Len(cbuf) + 1 /\ Len(cbuf') <= MAX_ITEMS_CBUFFER
         /\ Len(cbuf) < MAX_ITEMS_CBUFFER => cbuf' = Append(cbuf, next)
<1>t. cbuf \in Seq(Number) /\ next \in Number /\ Len(cbuf) \in Nat
      /\ Len(cbuf) <= MAX_ITEMS_CBUFFER /\ MAX_ITEMS_CBUFFER \in Nat \ {0}
  BY SequencesTyped
<1>1. next' \in Number
  <2>1. next' = (next + 1) % Serials
    BY DEF Fire
  <2> QED BY <1>t, <2>1, BufferAssumption DEF Number
<1>2. CASE Len(cbuf) = MAX_ITEMS_CBUFFER
  <2>1. cbuf' = Append(Tail(cbuf), next) /\ cbuf # <<>>
    BY <1>2, <1>t DEF Fire
  <2>2. Tail(cbuf) \in Seq(Number) /\ Len(Tail(cbuf)) = Len(cbuf) - 1
    BY <1>t, <2>1
  <2>3. cbuf' \in Seq(Number) /\ Len(cbuf') = (Len(cbuf) - 1) + 1
    BY <1>t, <2>1, <2>2, AppendProperties
  <2> QED BY <1>1, <1>2, <1>t, <2>3
<1>3. CASE Len(cbuf) # MAX_ITEMS_CBUFFER
  <2>1. cbuf' = Append(cbuf, next)
    BY <1>3 DEF Fire
  <2>2. cbuf' \in Seq(Number) /\ Len(cbuf') = Len(cbuf) + 1
    BY <1>t, <2>1, AppendProperties
  <2> QED BY <1>1, <1>3, <1>t, <2>1, <2>2
<1> QED BY <1>2, <1>3

\* A state whose variables have the types of TypeOK, told in two parts: what
\* the timer and the kworker change, and what the readers and the file do.
PipeTyped ==
  /\ timer \in {"off", "pending", "running"}
  /\ cbuf \in Seq(Number) /\ Len(cbuf) <= MAX_ITEMS_CBUFFER
  /\ work \in BOOLEAN /\ worker \in {"idle", "drain", "lock", "add"}
  /\ aux \in Seq(Number) /\ mylist \in Seq(Number)
  /\ next \in Number /\ late \in 0..Grace /\ settled \in BOOLEAN
FileTyped ==
  /\ version \in {"modtimer", "Javi"} /\ list_mtx \in {0, 1}
  /\ sem_list \in Sem(Readers) /\ waiting \in Int /\ pc \in [Readers -> PCs]
  /\ opened \in BOOLEAN /\ closing \in {"no", "flush", "clear"}
  /\ emergency_threshold \in Nat
  /\ signals \in 0..MaxEvents /\ configs \in 0..MaxEvents

\* They are TypeOK.
LEMMA TypeParts == TypeOK <=> PipeTyped /\ FileTyped
  BY Zenon DEF TypeOK, PipeTyped, FileTyped, Number, Sem

\* The timer and the kworker keep the types of what they change.
LEMMA KernelTyped == ASSUME TypeOK, Kernel PROVE TypeOK'
<1>t. PipeTyped /\ FileTyped
  BY TypeParts
<1>o. (TypeOK <=> PipeTyped /\ FileTyped)'
  BY TypeParts, PTL
<1>s. /\ cbuf \in Seq(Number) /\ aux \in Seq(Number) /\ mylist \in Seq(Number)
      /\ sem_list \in Sem(Readers) /\ pc \in [Readers -> PCs] /\ waiting \in Int
  BY <1>t DEF PipeTyped, FileTyped
<1>e. <<>> \in Seq(Number) /\ Len(<<>>) = 0 /\ MAX_ITEMS_CBUFFER \in Nat
  BY BufferAssumption
<1>1. CASE Fire
  <2>1. late' \in 0..Grace
    BY <1>1, <1>t, BufferAssumption DEF Fire, PipeTyped
  <2>2. cbuf' \in Seq(Number) /\ Len(cbuf') <= MAX_ITEMS_CBUFFER /\ next' \in Number
    BY <1>1, FireEffect
  <2>3. PipeTyped'
    BY <1>1, <1>t, <2>1, <2>2 DEF Fire, PipeTyped
  <2>4. FileTyped'
    BY <1>1, <1>t DEF Fire, FileTyped, readerVars, fileVars, configVars
  <2> QED BY <1>o, <2>3, <2>4
<1>2. CASE Recheck
  <2>1. work' \in BOOLEAN
    BY <1>2, <1>t DEF Recheck, PipeTyped
  <2>2. PipeTyped'
    BY <1>2, <1>t, <2>1 DEF Recheck, PipeTyped
  <2>3. FileTyped'
    BY <1>2, <1>t DEF Recheck, FileTyped, readerVars, fileVars, configVars
  <2> QED BY <1>o, <2>2, <2>3
<1>3. CASE StartWork
  <2>1. PipeTyped'
    BY <1>3, <1>t, <1>e DEF StartWork, PipeTyped
  <2>2. FileTyped'
    BY <1>3, <1>t DEF StartWork, FileTyped, readerVars, fileVars, configVars
  <2> QED BY <1>o, <2>1, <2>2
<1>4. CASE Drain
  <2>1. FileTyped'
    BY <1>4, <1>t DEF Drain, FileTyped, readerVars, fileVars, configVars
  <2>2. CASE cbuf # <<>>
    <3>1. /\ cbuf' = Tail(cbuf) /\ aux' = Append(aux, Head(cbuf))
          /\ UNCHANGED <<worker, late, settled, timer, work, mylist, next>>
      BY <1>4, <2>2 DEF Drain
    <3>2. /\ cbuf' \in Seq(Number) /\ Len(cbuf') = Len(cbuf) - 1 /\ Len(cbuf) \in Nat
          /\ Head(cbuf) \in Number
      BY <1>s, <2>2, <3>1, HeadTailProperties
    <3>3. aux' \in Seq(Number) /\ Len(cbuf') <= MAX_ITEMS_CBUFFER
      BY <1>s, <1>t, <1>e, <3>1, <3>2, AppendProperties DEF PipeTyped
    <3>4. PipeTyped'
      BY <1>t, <3>1, <3>2, <3>3 DEF PipeTyped
    <3> QED BY <1>o, <2>1, <3>4
  <2>3. CASE cbuf = <<>>
    <3>1. /\ worker' = "lock" /\ late' = 0 /\ settled' = TRUE
          /\ UNCHANGED <<aux, cbuf, timer, work, mylist, next>>
      BY <1>4, <2>3 DEF Drain
    <3>2. PipeTyped'
      BY <1>t, <3>1, BufferAssumption DEF PipeTyped
    <3> QED BY <1>o, <2>1, <3>2
  <2> QED BY <2>2, <2>3
<1>5. CASE WorkerLock
  <2>1. PipeTyped' /\ FileTyped'
    BY <1>5, <1>t DEF WorkerLock, PipeTyped, FileTyped, readerVars, fileVars, configVars
  <2> QED BY <1>o, <2>1
<1>6. CASE ListAdd
  <2>1. mylist' \in Seq(Number)
    BY <1>6, <1>s, ConcatProperties DEF ListAdd
  <2>2. PipeTyped'
    BY <1>6, <1>t, <1>e, <2>1 DEF ListAdd, PipeTyped
  <2>3. sem_list' \in Sem(Readers) /\ waiting' \in Int /\ pc' \in [Readers -> PCs]
    <3>1. CASE UNCHANGED readerVars
      BY <1>s, <3>1 DEF readerVars
    <3>2. CASE /\ sem_list' = Up(sem_list)
               /\ waiting' = waiting - 1
               /\ pc' = [r \in Readers |-> IF r \in Woken(sem_list) THEN "relock" ELSE pc[r]]
      <4>1. sem_list' \in Sem(Readers)
        BY <1>s, <3>2, SemTyped
      <4>2. pc' \in [Readers -> PCs]
        BY <1>s, <3>2 DEF PCs
      <4> QED BY <1>s, <3>2, <4>1, <4>2
    <3> QED BY <1>6, <3>1, <3>2 DEF ListAdd
  <2>4. FileTyped'
    BY <1>6, <1>t, <2>3 DEF ListAdd, FileTyped, fileVars, configVars
  <2> QED BY <1>o, <2>2, <2>4
<1> QED BY <1>1, <1>2, <1>3, <1>4, <1>5, <1>6 DEF Kernel

\* So do the readers and their signals.
LEMMA ReaderTyped ==
  ASSUME TypeOK, NEW r \in Readers,
         BeginRead(r) \/ Reader(r) \/ LockInterrupted(r) \/ SleepInterrupted(r)
  PROVE  TypeOK'
<1>t. PipeTyped /\ FileTyped
  BY TypeParts
<1>o. (TypeOK <=> PipeTyped /\ FileTyped)'
  BY TypeParts, PTL
<1>s. /\ sem_list \in Sem(Readers) /\ pc \in [Readers -> PCs] /\ waiting \in Int
      /\ signals \in 0..MaxEvents /\ configs \in 0..MaxEvents /\ MaxEvents \in Nat
  BY <1>t, BufferAssumption DEF FileTyped
<1>p. ASSUME NEW where \in PCs, Goto(r, where) PROVE pc' \in [Readers -> PCs]
  BY <1>s, <1>p DEF Goto
<1>1. CASE BeginRead(r)
  <2>1. pc' \in [Readers -> PCs]
    BY <1>1, <1>p DEF BeginRead, PCs
  <2> QED BY <1>1, <1>t, <1>o, <2>1 DEF BeginRead, PipeTyped, FileTyped, timerVars, fileVars, configVars
<1>2. CASE Lock(r)
  <2>1. pc' \in [Readers -> PCs]
    BY <1>2, <1>s DEF Lock, Goto, PCs
  <2> QED BY <1>2, <1>t, <1>o, <2>1 DEF Lock, PipeTyped, FileTyped, timerVars, fileVars, configVars
<1>3. CASE LockInterrupted(r)
  <2>1. pc' \in [Readers -> PCs] /\ signals' \in 0..MaxEvents
    BY <1>3, <1>s, <1>p DEF LockInterrupted, PCs
  <2> QED BY <1>3, <1>t, <1>o, <2>1 DEF LockInterrupted, PipeTyped, FileTyped, timerVars, fileVars, configVars
<1>4. CASE Wait(r)
  <2>1. pc' \in [Readers -> PCs] /\ waiting' \in Int
    BY <1>4, <1>s, <1>p DEF Wait, PCs
  <2> QED BY <1>4, <1>t, <1>o, <2>1 DEF Wait, PipeTyped, FileTyped, timerVars, fileVars, configVars
<1>5. CASE Sleep(r)
  <2>1. sem_list' \in Sem(Readers)
    BY <1>5, <1>s, SemTyped DEF Sleep
  <2>2. pc' \in [Readers -> PCs]
    BY <1>5, <1>p DEF Sleep, PCs
  <2> QED BY <1>5, <1>t, <1>o, <2>1, <2>2 DEF Sleep, PipeTyped, FileTyped, timerVars, fileVars, configVars
<1>6. CASE SleepInterrupted(r)
  <2>1. sem_list' \in Sem(Readers)
    BY <1>6, <1>s, SemTyped DEF SleepInterrupted
  <2>2. pc' \in [Readers -> PCs] /\ signals' \in 0..MaxEvents
    BY <1>6, <1>s, <1>p DEF SleepInterrupted, PCs
  <2> QED BY <1>6, <1>t, <1>o, <2>1, <2>2 DEF SleepInterrupted, PipeTyped, FileTyped, timerVars, fileVars, configVars
<1>7. CASE Undo(r)
  <2>1. pc' \in [Readers -> PCs] /\ waiting' \in Int
    BY <1>7, <1>s, <1>p DEF Undo, PCs
  <2> QED BY <1>7, <1>t, <1>o, <2>1 DEF Undo, PipeTyped, FileTyped, timerVars, fileVars, configVars
<1>8. CASE TakeList(r)
  <2>1. pc' \in [Readers -> PCs] /\ mylist' \in Seq(Number)
    BY <1>8, <1>s, <1>p DEF TakeList, PCs
  <2> QED BY <1>8, <1>t, <1>o, <2>1 DEF TakeList, PipeTyped, FileTyped, timerVars, fileVars, configVars
<1> QED BY <1>1, <1>2, <1>3, <1>4, <1>5, <1>6, <1>7, <1>8 DEF Reader

\* The steps that open, release or configure.
FileStep ==
  \/ Open \/ OpenAnyway \/ StopTimer \/ Flush \/ Cleanup
  \/ \E percent \in Settings : SetThreshold(percent)

\* They keep the types too.
LEMMA FileStepTyped == ASSUME TypeOK, FileStep PROVE TypeOK'
<1>t. PipeTyped /\ FileTyped
  BY TypeParts
<1>o. (TypeOK <=> PipeTyped /\ FileTyped)'
  BY TypeParts, PTL
<1>e. <<>> \in Seq(Number) /\ Len(<<>>) = 0 /\ MAX_ITEMS_CBUFFER \in Nat
  BY BufferAssumption
<1>1. CASE Open \/ OpenAnyway \/ StopTimer
  BY <1>1, <1>t, <1>o DEF Open, OpenAnyway, StopTimer, PipeTyped, FileTyped, readerVars, configVars
<1>2. CASE Flush
  BY <1>2, <1>t, <1>o, <1>e DEF Flush, PipeTyped, FileTyped, readerVars, configVars
<1>3. CASE Cleanup
  BY <1>3, <1>t, <1>o, <1>e DEF Cleanup, PipeTyped, FileTyped, timerVars, readerVars, configVars
<1>4. ASSUME NEW percent \in Settings, SetThreshold(percent) PROVE TypeOK'
  <2>1. configs' \in 0..MaxEvents
    BY <1>4, <1>t, BufferAssumption DEF SetThreshold, FileTyped
  <2>2. emergency_threshold' \in Nat
    BY <1>4, BufferAssumption DEF SetThreshold
  <2>3. settled' \in BOOLEAN
    BY <1>4, Zenon DEF SetThreshold
  <2>4. PipeTyped'
    BY <1>4, <1>t, <2>3 DEF SetThreshold, PipeTyped
  <2>5. FileTyped'
    BY <1>4, <1>t, <2>1, <2>2 DEF SetThreshold, FileTyped, readerVars
  <2> QED BY <1>o, <2>4, <2>5
<1> QED BY <1>1, <1>2, <1>3, <1>4 DEF FileStep

\* These are all the steps of both versions.
LEMMA Steps ==
  NextAll => \/ Kernel
             \/ FileStep
             \/ \E r \in Readers :
                  BeginRead(r) \/ Reader(r) \/ LockInterrupted(r) \/ SleepInterrupted(r)
  BY DEF NextAll, FireTimer, CopyItems, ListInsert, ReleaseFile, ReadSteps, Kernel,
         FileStep, ConfigWrite, ModconfigWrite

\* Every step keeps the types.
LEMMA TypeStep == TypeOK /\ [NextAll]_vars => TypeOK'
<1> SUFFICES ASSUME TypeOK, [NextAll]_vars PROVE TypeOK'
  OBVIOUS
<1>1. CASE NextAll
  BY <1>1, Steps, KernelTyped, FileStepTyped, ReaderTyped
<1>2. CASE UNCHANGED vars
  <2>1. PipeTyped /\ FileTyped
    BY TypeParts
  <2>2. PipeTyped' /\ FileTyped'
    BY <1>2, <2>1 DEF vars, PipeTyped, FileTyped
  <2>3. (TypeOK <=> PipeTyped /\ FileTyped)'
    BY TypeParts, PTL
  <2> QED BY <2>2, <2>3
<1> QED BY <1>1, <1>2
-----------------------------------------------------------------------------
(* The inductive invariant.                                                *)

\* Initially the buffer is empty and nobody serves it.
LEMMA InvariantInit == Init => IInv
<1> SUFFICES ASSUME Init PROVE IInv
  OBVIOUS
<1>1. TypeOK
  BY TypeInit
<1>2. /\ work = FALSE /\ worker = "idle" /\ aux = <<>> /\ cbuf = <<>> /\ late = 0
      /\ timer = "off"
  BY DEF Init
<1>3. Len(cbuf) = 0 /\ ItemsToServe \in Nat
  BY <1>1, <1>2, SequencesTyped
<1>4. TimerOwned /\ BatchOwn /\ LateServed
  BY <1>2 DEF TimerOwned, BatchOwn, LateServed
<1>5. Growth
  BY <1>2, <1>3 DEF Growth, Busy
<1> QED BY <1>1, <1>4, <1>5 DEF IInv

\* What the other parts of the invariant speak of.
pipeVars == <<timer, work, worker, aux, cbuf, late, settled, emergency_threshold>>

\* A step that leaves all of it alone keeps them.
LEMMA QuietStep ==
  ASSUME BatchOwn, LateServed, Growth, UNCHANGED pipeVars
  PROVE  BatchOwn' /\ LateServed' /\ Growth'
<1>1. ItemsToServe' = ItemsToServe
  BY DEF pipeVars, ItemsToServe
<1>2. BatchOwn' /\ LateServed'
  BY DEF pipeVars, BatchOwn, LateServed, Busy
<1>3. Growth'
  BY <1>1 DEF pipeVars, Growth, Busy
<1> QED BY <1>2, <1>3

\* The timer: one more number in the buffer, and one more period counted if
\* a work item is under way; the comparison schedules it at the threshold.
LEMMA TimerStep ==
  ASSUME IInv, Fire \/ Recheck
  PROVE  BatchOwn' /\ LateServed' /\ Growth'
<1>t. TypeOK /\ BatchOwn /\ LateServed /\ Growth
  BY DEF IInv
<1> DEFINE I == ItemsToServe
           a == Len(aux)
           c == Len(cbuf)
           l == late
           cN == Len(cbuf')
           lN == late'
<1>n. I \in Nat /\ a \in Nat /\ c \in Nat /\ l \in Nat
  BY <1>t, SequencesTyped
<1>1. CASE Fire
  <2>1. /\ timer = "pending" /\ timer' = "running"
        /\ UNCHANGED <<settled, work, worker, aux>>
        /\ ItemsToServe' = I
        /\ Busy => lN = l + 1
        /\ ~Busy => lN = l
    BY <1>1 DEF Fire, Busy, fileVars, configVars, ItemsToServe
  <2>2. cN \in Nat /\ cN <= c + 1
    <3>1. cbuf' \in Seq(Number) /\ cN <= c + 1
      BY <1>1, <1>t, FireEffect
    <3> QED BY <3>1
  <2>3. BatchOwn' /\ LateServed'
    BY <1>t, <2>1 DEF BatchOwn, LateServed, Busy
  <2>4. Len(aux') = a /\ (Busy <=> Busy')
    BY <2>1 DEF Busy
  <2>5. ASSUME settled, I > 0, Busy
        PROVE  /\ worker = "drain" => a + cN <= I + lN
               /\ work /\ worker # "drain" => cN <= I + lN
    <3>1. /\ worker = "drain" => a + c <= I + l
          /\ work /\ worker # "drain" => c <= I + l
      BY <1>t, <2>5 DEF Growth
    <3>2. lN = l + 1
      BY <2>1, <2>5
    <3> HIDE DEF I, a, c, l, cN, lN
    <3> QED BY <1>n, <2>2, <3>1, <3>2
  <2>6. ASSUME settled, I > 0, ~Busy PROVE cN <= I
    <3>1. c < I
      BY <1>t, <2>1, <2>6 DEF Growth
    <3> HIDE DEF I, a, c, l, cN, lN
    <3> QED BY <1>n, <2>2, <3>1
  <2>7. Growth'
    BY <2>1, <2>4, <2>5, <2>6 DEF Growth, Busy
  <2> QED BY <2>3, <2>7
<1>2. CASE Recheck
  <2>1. /\ timer = "running" /\ timer' = "pending"
        /\ UNCHANGED <<settled, worker, aux, cbuf, late>>
        /\ ItemsToServe' = I
        /\ work' = (work \/ c = I)
    <3>1. IF ~work /\ c = I THEN work' = TRUE ELSE work' = work
      BY <1>2 DEF Recheck
    <3>2. work \in BOOLEAN
      BY <1>t DEF TypeOK
    <3>3. work' = (work \/ c = I)
      <4> HIDE DEF c, I
      <4> QED BY <3>1, <3>2, Zenon
    <3>4. /\ timer = "running" /\ timer' = "pending"
          /\ UNCHANGED <<settled, worker, aux, cbuf, late>>
      BY <1>2 DEF Recheck
    <3>5. ItemsToServe' = I
      BY <1>2 DEF Recheck, fileVars, configVars, ItemsToServe
    <3> QED BY <3>3, <3>4, <3>5
  <2>2. BatchOwn'
    BY <1>t, <2>1 DEF BatchOwn
  <2>3. LateServed'
    BY <1>t, <2>1 DEF LateServed, Busy
  <2>4. ASSUME settled, I > 0
        PROVE  /\ worker = "drain" => a + c <= I + l
               /\ (work \/ c = I) /\ worker # "drain" => c <= I + l
               /\ ~(work \/ c = I) /\ worker # "drain" => c < I
    <3>1. /\ worker = "drain" => a + c <= I + l
          /\ work /\ worker # "drain" => c <= I + l
          /\ ~work /\ worker # "drain" => c <= I
      BY <1>t, <2>1, <2>4 DEF Growth, Busy
    <3> HIDE DEF I, a, c, l, cN, lN
    <3> QED BY <1>n, <3>1
  <2>5. Growth'
    BY <2>1, <2>4 DEF Growth, Busy
  <2> QED BY <2>2, <2>3, <2>5
<1> QED BY <1>1, <1>2

\* The kworker: it starts from an empty batch, moves one number at a time,
\* and goes on to the list only when the buffer is empty.
LEMMA WorkerStep ==
  ASSUME IInv, StartWork \/ Drain \/ WorkerLock \/ ListAdd
  PROVE  BatchOwn' /\ LateServed' /\ Growth'
<1>t. TypeOK /\ BatchOwn /\ LateServed /\ Growth
  BY DEF IInv
<1> DEFINE I == ItemsToServe
           a == Len(aux)
           c == Len(cbuf)
           l == late
           aN == Len(aux')
           cN == Len(cbuf')
<1>n. /\ I \in Nat /\ a \in Nat /\ c \in Nat /\ l \in Nat
      /\ cbuf \in Seq(Number) /\ aux \in Seq(Number)
  BY <1>t, SequencesTyped
<1>1. CASE StartWork
  <2>1. /\ work /\ worker = "idle" /\ work' = FALSE /\ worker' = "drain" /\ aux' = <<>>
        /\ UNCHANGED <<settled, timer, cbuf, late>>
        /\ ItemsToServe' = I
    BY <1>1 DEF StartWork, fileVars, configVars, ItemsToServe
  <2>2. BatchOwn' /\ LateServed'
    BY <2>1 DEF BatchOwn, LateServed, Busy
  <2>3. aN = 0
    BY <2>1
  <2>4. ASSUME settled, I > 0 PROVE aN + c <= I + l
    <3>1. c <= I + l
      BY <1>t, <2>1, <2>4 DEF Growth
    <3> HIDE DEF I, a, c, l, aN, cN
    <3> QED BY <1>n, <2>3, <3>1
  <2>5. Growth'
    BY <2>1, <2>4 DEF Growth, Busy
  <2> QED BY <2>2, <2>5
<1>2. CASE Drain /\ cbuf # <<>>
  <2>1. /\ worker = "drain" /\ aux' = Append(aux, Head(cbuf)) /\ cbuf' = Tail(cbuf)
        /\ UNCHANGED <<worker, late, settled, timer, work>>
        /\ ItemsToServe' = I
    BY <1>2 DEF Drain, fileVars, configVars, ItemsToServe
  <2>2. BatchOwn' /\ LateServed'
    BY <1>t, <2>1 DEF BatchOwn, LateServed, Busy
  <2>3. aN = a + 1 /\ cN = c - 1
    <3>1. Head(cbuf) \in Number /\ cN = c - 1
      BY <1>n, <1>2, <2>1, HeadTailProperties
    <3>2. aN = a + 1
      BY <1>n, <2>1, <3>1, AppendProperties
    <3> QED BY <3>1, <3>2
  <2>4. ASSUME settled, I > 0 PROVE aN + cN <= I + l
    <3>1. a + c <= I + l
      BY <1>t, <2>1, <2>4 DEF Growth
    <3> HIDE DEF I, a, c, l, aN, cN
    <3> QED BY <1>n, <2>3, <3>1
  <2>5. Growth'
    BY <2>1, <2>4 DEF Growth, Busy
  <2> QED BY <2>2, <2>5
<1>3. CASE Drain /\ cbuf = <<>>
  <2>1. /\ worker = "drain" /\ worker' = "lock" /\ late' = 0 /\ cbuf' = <<>>
        /\ UNCHANGED <<aux, timer, work>>
        /\ ItemsToServe' = I
    BY <1>3 DEF Drain, fileVars, configVars, ItemsToServe
  <2>2. BatchOwn' /\ LateServed'
    BY <2>1 DEF BatchOwn, LateServed
  <2>3. cN = 0
    BY <2>1
  <2>4. ASSUME I > 0 PROVE cN <= I + 0 /\ cN <= I /\ cN < I
    <3> HIDE DEF I, cN
    <3> QED BY <1>n, <2>3, <2>4
  <2>5. Growth'
    BY <2>1, <2>4 DEF Growth, Busy
  <2> QED BY <2>2, <2>5
<1>4. CASE WorkerLock
  <2>1. /\ worker = "lock" /\ worker' = "add"
        /\ UNCHANGED <<settled, timer, cbuf, work, aux, late>>
        /\ ItemsToServe' = I
    BY <1>4 DEF WorkerLock, fileVars, configVars, ItemsToServe
  <2>2. BatchOwn' /\ LateServed'
    BY <1>t, <2>1 DEF BatchOwn, LateServed, Busy
  <2>3. Growth'
    BY <1>t, <2>1 DEF Growth, Busy
  <2> QED BY <2>2, <2>3
<1>5. CASE ListAdd
  <2>1. /\ worker = "add" /\ worker' = "idle" /\ aux' = <<>>
        /\ UNCHANGED <<settled, timer, cbuf, work, late>>
        /\ ItemsToServe' = I
    BY <1>5 DEF ListAdd, fileVars, configVars, ItemsToServe
  <2>2. BatchOwn' /\ LateServed'
    BY <1>t, <2>1 DEF BatchOwn, LateServed, Busy
  <2>3. Growth'
    BY <1>t, <2>1 DEF Growth, Busy
  <2> QED BY <2>2, <2>3
<1> QED BY <1>1, <1>2, <1>3, <1>4, <1>5

\* Opening, closing and configuring: what they move relative to one another
\* is either the empty buffer, or no longer settled.
LEMMA FileStepServed ==
  ASSUME IInv, FileStep
  PROVE  BatchOwn' /\ LateServed' /\ Growth'
<1>t. TypeOK /\ BatchOwn /\ LateServed /\ Growth
  BY DEF IInv
<1> DEFINE I == ItemsToServe
           c == Len(cbuf)
           cN == Len(cbuf')
           m == ItemsToServe'
<1>n. I \in Nat /\ c \in Nat /\ late \in Nat
  BY <1>t, SequencesTyped
<1>1. CASE Open \/ OpenAnyway \/ StopTimer
  <2>1. /\ timer' # "running"
        /\ UNCHANGED <<settled, cbuf, work, worker, aux, late>>
        /\ ItemsToServe' = I
    BY <1>1 DEF Open, OpenAnyway, StopTimer, configVars, ItemsToServe
  <2>2. BatchOwn' /\ LateServed'
    BY <1>t, <2>1 DEF BatchOwn, LateServed, Busy
  <2>3. Growth'
    <3>1. timer # "running"
      <4>1. TimerOwned
        BY DEF IInv
      <4> QED BY <1>1, <4>1 DEF Open, OpenAnyway, StopTimer, TimerOwned
    <3> QED BY <1>t, <2>1, <3>1 DEF Growth, Busy
  <2> QED BY <2>2, <2>3
<1>2. CASE Flush
  <2>1. /\ ~work /\ worker = "idle" /\ cbuf' = <<>>
        /\ UNCHANGED <<timer, work, worker, aux, late>>
        /\ ItemsToServe' = I
    BY <1>2 DEF Flush, configVars, ItemsToServe
  <2>2. BatchOwn' /\ LateServed'
    BY <1>t, <2>1 DEF BatchOwn, LateServed, Busy
  <2>3. cN = 0
    BY <2>1
  <2>4. ASSUME I > 0 PROVE cN <= I /\ cN < I
    <3> HIDE DEF I, cN
    <3> QED BY <1>n, <2>3, <2>4
  <2>5. Growth'
    BY <2>1, <2>4 DEF Growth, Busy
  <2> QED BY <2>2, <2>5
<1>3. CASE Cleanup
  <2>1. UNCHANGED pipeVars
    BY <1>3 DEF Cleanup, timerVars, configVars, pipeVars
  <2> QED BY <1>t, <2>1, QuietStep
<1>4. ASSUME NEW percent \in Settings, SetThreshold(percent)
      PROVE  BatchOwn' /\ LateServed' /\ Growth'
  <2>1. /\ settled' => cbuf = <<>> /\ timer # "running" /\ worker # "drain"
        /\ UNCHANGED <<timer, cbuf, work, worker, aux, late>>
    BY <1>4, Zenon DEF SetThreshold
  <2>2. BatchOwn' /\ LateServed'
    BY <1>t, <2>1 DEF BatchOwn, LateServed, Busy
  <2>3. TypeOK'
    BY <1>t, <1>4, FileStepTyped DEF FileStep
  <2>4. m \in Nat
    <3>1. (emergency_threshold \in Nat => ItemsToServe \in Nat)'
      BY ItemsTyped, PTL
    <3> QED BY <2>3, <3>1 DEF TypeOK
  <2>5. ASSUME settled', m > 0 PROVE c <= m + late /\ c < m
    <3>1. c = 0
      BY <2>1, <2>5
    <3> HIDE DEF m, c
    <3> QED BY <1>n, <2>4, <2>5, <3>1
  <2>6. Growth'
    BY <2>1, <2>5 DEF Growth, Busy
  <2> QED BY <2>2, <2>6
<1> QED BY <1>1, <1>2, <1>3, <1>4 DEF FileStep

\* No step arms the timer of a closed file.
LEMMA TimerOwnedStep == TimerOwned /\ [NextAll]_vars => TimerOwned'
<1> SUFFICES ASSUME TimerOwned, [NextAll]_vars PROVE TimerOwned'
  OBVIOUS
<1>1. CASE Fire \/ Recheck
  BY <1>1 DEF Fire, Recheck, fileVars, TimerOwned
<1>2. CASE StartWork \/ Drain \/ WorkerLock \/ ListAdd
  BY <1>2 DEF StartWork, Drain, WorkerLock, ListAdd, fileVars, TimerOwned
<1>3. CASE Open \/ OpenAnyway \/ StopTimer \/ Flush \/ Cleanup
  BY <1>3 DEF Open, OpenAnyway, StopTimer, Flush, Cleanup, timerVars, TimerOwned
<1>4. CASE \E percent \in Settings : SetThreshold(percent)
  BY <1>4 DEF SetThreshold, TimerOwned
<1>5. ASSUME NEW r \in Readers,
             BeginRead(r) \/ Reader(r) \/ LockInterrupted(r) \/ SleepInterrupted(r)
      PROVE  TimerOwned'
  BY <1>5 DEF BeginRead, Reader, Lock, Wait, Sleep, Undo, TakeList, LockInterrupted,
              SleepInterrupted, timerVars, fileVars, TimerOwned
<1>6. CASE UNCHANGED vars
  BY <1>6 DEF vars, TimerOwned
<1> QED BY <1>1, <1>2, <1>3, <1>4, <1>5, <1>6, Steps DEF Kernel, FileStep

\* So every step keeps the inductive invariant.
LEMMA InvariantStep == IInv /\ [NextAll]_vars => IInv'
<1> SUFFICES ASSUME IInv, [NextAll]_vars PROVE IInv'
  OBVIOUS
<1>t. TypeOK /\ BatchOwn /\ LateServed /\ Growth
  BY DEF IInv
<1>1. TypeOK'
  BY <1>t, TypeStep
<1>2. BatchOwn' /\ LateServed' /\ Growth'
  <2>1. CASE Kernel
    BY <2>1, TimerStep, WorkerStep DEF Kernel
  <2>2. CASE FileStep
    BY <2>2, FileStepServed
  <2>3. ASSUME NEW r \in Readers,
               BeginRead(r) \/ Reader(r) \/ LockInterrupted(r) \/ SleepInterrupted(r)
        PROVE  BatchOwn' /\ LateServed' /\ Growth'
    <3>1. UNCHANGED pipeVars
      BY <2>3 DEF BeginRead, Reader, Lock, Wait, Sleep, Undo, TakeList, LockInterrupted,
                  SleepInterrupted, timerVars, fileVars, configVars, pipeVars
    <3> QED BY <1>t, <3>1, QuietStep
  <2>4. CASE UNCHANGED vars
    <3>1. UNCHANGED pipeVars
      BY <2>4 DEF vars, pipeVars
    <3> QED BY <1>t, <3>1, QuietStep
  <2> QED BY <2>1, <2>2, <2>3, <2>4, Steps
<1>3. TimerOwned'
  BY TimerOwnedStep DEF IInv
<1> QED BY <1>1, <1>2, <1>3 DEF IInv
-----------------------------------------------------------------------------
(* What the invariant is for.                                              *)

\* A settled buffer with a roomy threshold has a free place whenever the
\* timer fires within the grace of the work item.
LEMMA RoomToFire ==
  ASSUME IInv, Fire, settled, Roomy
  PROVE  Len(cbuf) < MAX_ITEMS_CBUFFER
<1> DEFINE I == ItemsToServe
           a == Len(aux)
           c == Len(cbuf)
           l == late
<1>t. TypeOK /\ Growth
  BY DEF IInv
<1>n. /\ I \in Nat /\ a \in Nat /\ c \in Nat /\ l \in Nat /\ Grace \in Nat
      /\ MAX_ITEMS_CBUFFER \in Nat
  BY <1>t, SequencesTyped
<1>r. I > 0 /\ I + Grace <= MAX_ITEMS_CBUFFER
  BY DEF Roomy
<1>1. timer = "pending" /\ (Busy => l < Grace)
  BY DEF Fire, Busy
<1>2. CASE Busy
  <2>1. a + c <= I + l \/ c <= I + l
    BY <1>t, <1>r, <1>2 DEF Growth, Busy
  <2>2. l < Grace
    BY <1>1, <1>2
  <2> HIDE DEF I, a, c, l
  <2>3. c < MAX_ITEMS_CBUFFER
    BY <1>n, <1>r, <2>1, <2>2
  <2> QED BY <2>3 DEF c
<1>3. CASE ~Busy
  <2>1. c < I
    BY <1>t, <1>r, <1>1, <1>3 DEF Growth
  <2> HIDE DEF I, a, c, l
  <2>2. c < MAX_ITEMS_CBUFFER
    BY <1>n, <1>r, <2>1
  <2> QED BY <2>2 DEF c
<1> QED BY <1>2, <1>3

\* A number put at the end of the last of three queues is put at the end of
\* the three, and queues that are empty do not count.
LEMMA ThreeQueues ==
  ASSUME NEW S, NEW M \in Seq(S), NEW A \in Seq(S), NEW C \in Seq(S), NEW e \in S
  PROVE  /\ M \o A \o Append(C, e) = Append(M \o A \o C, e)
         /\ (M \o A) \o <<>> \o C = M \o A \o C
         /\ M \o <<>> \o <<>> = M
         /\ <<>> \o A \o C = A \o C
<1>1. M \o A \in Seq(S) /\ M \o A \o C \in Seq(S) /\ <<e>> \in Seq(S)
  BY ConcatProperties
<1>2. M \o A \o Append(C, e) = Append(M \o A \o C, e)
  <2>1. Append(C, e) = C \o <<e>>
    BY AppendIsConcat
  <2>2. Append(M \o A \o C, e) = M \o A \o C \o <<e>>
    BY <1>1, AppendIsConcat
  <2>3. (M \o A) \o (C \o <<e>>) = ((M \o A) \o C) \o <<e>>
    BY <1>1, ConcatAssociative
  <2> QED BY <2>1, <2>2, <2>3
<1>3. (M \o A) \o <<>> = M \o A /\ M \o <<>> = M /\ <<>> \o A = A
  BY <1>1, ConcatEmptySeq
<1> QED BY <1>2, <1>3

\* A number moved from the head of one queue to the end of the one before it
\* stays in its place.
LEMMA HeadMoved ==
  ASSUME NEW M \in Seq(Number), NEW A \in Seq(Number), NEW C \in Seq(Number), C # <<>>
  PROVE  M \o Append(A, Head(C)) \o Tail(C) = M \o A \o C
<1> DEFINE h == Head(C)
           T == Tail(C)
<1>1. h \in Number /\ T \in Seq(Number) /\ <<h>> \in Seq(Number) /\ C = <<h>> \o T
  BY HeadTailProperties
<1>2. Append(A, h) = A \o <<h>>
  BY <1>1, AppendIsConcat
<1> HIDE DEF h, T
<1>3. M \o (A \o <<h>>) = (M \o A) \o <<h>>
  BY <1>1, ConcatAssociative
<1>4. M \o A \in Seq(Number)
  BY ConcatProperties
<1>5. ((M \o A) \o <<h>>) \o T = (M \o A) \o (<<h>> \o T)
  BY <1>1, <1>4, ConcatAssociative
<1>6. M \o Append(A, h) \o T = M \o A \o C
  BY <1>1, <1>2, <1>3, <1>5
<1> QED BY <1>6 DEF h, T

\* While the threshold is settled and roomy a step neither loses nor reorders
\* a number, but for the release of the file, which drops the buffer.
NumbersKept ==
  \/ Numbers' \in {Numbers, Append(Numbers, next), aux \o cbuf}
  \/ closing = "flush" /\ Numbers' = mylist

\* The invariant makes every step one of those.
LEMMA NumbersStep ==
  ASSUME IInv, [NextAll]_vars, settled, Roomy
  PROVE  NumbersKept
<1>t. TypeOK /\ BatchOwn
  BY DEF IInv
<1>s. mylist \in Seq(Number) /\ aux \in Seq(Number) /\ cbuf \in Seq(Number) /\ next \in Number
  BY <1>t, SequencesTyped
<1>q. ASSUME UNCHANGED <<mylist, aux, cbuf>> PROVE NumbersKept
  BY <1>q DEF NumbersKept, Numbers
<1>1. CASE Fire
  <2>1. cbuf' = Append(cbuf, next) /\ UNCHANGED <<mylist, aux>>
    BY <1>1, <1>t, RoomToFire, FireEffect DEF Fire
  <2>2. Numbers' = Append(Numbers, next)
    BY <1>s, <2>1, ThreeQueues DEF Numbers
  <2> QED BY <2>2 DEF NumbersKept
<1>2. CASE StartWork
  <2>1. aux' = aux /\ UNCHANGED <<mylist, cbuf>>
    BY <1>2, <1>t DEF StartWork, BatchOwn
  <2> QED BY <1>q, <2>1
<1>3. CASE Drain
  <2>1. CASE cbuf # <<>>
    <3>1. aux' = Append(aux, Head(cbuf)) /\ cbuf' = Tail(cbuf) /\ mylist' = mylist
      BY <1>3, <2>1 DEF Drain
    <3>2. mylist \o Append(aux, Head(cbuf)) \o Tail(cbuf) = mylist \o aux \o cbuf
      BY <1>s, <2>1, HeadMoved
    <3>3. Numbers' = Numbers
      BY <3>1, <3>2 DEF Numbers
    <3> QED BY <3>3 DEF NumbersKept
  <2>2. CASE cbuf = <<>>
    BY <1>3, <2>2, <1>q DEF Drain
  <2> QED BY <2>1, <2>2
<1>4. CASE ListAdd
  <2>1. mylist' = mylist \o aux /\ aux' = <<>> /\ cbuf' = cbuf
    BY <1>4 DEF ListAdd
  <2>2. Numbers' = Numbers
    BY <1>s, <2>1, ThreeQueues DEF Numbers
  <2> QED BY <2>2 DEF NumbersKept
<1>5. ASSUME mylist' = <<>>, UNCHANGED <<aux, cbuf>> PROVE NumbersKept
  <2>1. Numbers' = aux \o cbuf
    BY <1>s, <1>5, ThreeQueues DEF Numbers
  <2> QED BY <2>1 DEF NumbersKept
<1>6. CASE Flush
  <2>1. closing = "flush" /\ cbuf' = <<>> /\ aux' = <<>> /\ mylist' = mylist
    BY <1>6, <1>t DEF Flush, BatchOwn
  <2>2. Numbers' = mylist
    BY <1>s, <2>1, ThreeQueues DEF Numbers
  <2> QED BY <2>1, <2>2 DEF NumbersKept
<1>7. CASE Recheck \/ WorkerLock \/ Open \/ OpenAnyway \/ StopTimer
  BY <1>7, <1>q DEF Recheck, WorkerLock, Open, OpenAnyway, StopTimer
<1>8. CASE Cleanup
  BY <1>8, <1>5 DEF Cleanup, timerVars
<1>9. CASE \E percent \in Settings : SetThreshold(percent)
  BY <1>9, <1>q DEF SetThreshold
<1>10. ASSUME NEW r \in Readers,
              BeginRead(r) \/ Reader(r) \/ LockInterrupted(r) \/ SleepInterrupted(r)
       PROVE  NumbersKept
  <2>1. CASE TakeList(r)
    BY <2>1, <1>5 DEF TakeList, timerVars
  <2>2. CASE \/ BeginRead(r) \/ Lock(r) \/ Wait(r) \/ Sleep(r) \/ Undo(r)
             \/ LockInterrupted(r) \/ SleepInterrupted(r)
    BY <2>2, <1>q DEF BeginRead, Lock, Wait, Sleep, Undo, LockInterrupted,
                      SleepInterrupted, timerVars
  <2> QED BY <1>10, <2>1, <2>2 DEF Reader
<1>11. CASE UNCHANGED vars
  BY <1>11, <1>q DEF vars
<1> QED BY <1>1, <1>2, <1>3, <1>4, <1>6, <1>7, <1>8, <1>9, <1>10, <1>11, Steps
        DEF Kernel, FileStep
-----------------------------------------------------------------------------
(* The theorems, of both versions of the driver.                           *)

\* The inductive invariant holds of every behaviour.
THEOREM Invariance == SpecAll => []IInv
  BY InvariantInit, InvariantStep, PTL DEF SpecAll

\* Every variable keeps its type, and the buffer never holds more than its
\* size: what insert_cbuffer_t does with a full buffer sees to it.
THEOREM TypeCorrect == SpecAll => []TypeOK
<1>1. IInv => TypeOK
  BY DEF IInv
<1> QED BY <1>1, Invariance, PTL

\* copy_items_into_list_func never writes past aux_buffer, although its loop
\* is bounded only by the buffer it empties while the timer fills it.
THEOREM AuxFitsSafe == SpecAll => []AuxFits
<1>1. IInv => AuxFits
  <2> SUFFICES ASSUME IInv, settled, Roomy, worker = "drain"
               PROVE  Len(aux) <= MAX_ITEMS_CBUFFER
    BY DEF AuxFits
  <2> DEFINE I == ItemsToServe
             a == Len(aux)
             c == Len(cbuf)
             l == late
  <2>1. /\ I \in Nat /\ a \in Nat /\ c \in Nat /\ l \in Nat /\ Grace \in Nat
        /\ l <= Grace /\ MAX_ITEMS_CBUFFER \in Nat
    BY SequencesTyped DEF IInv
  <2>2. I > 0 /\ I + Grace <= MAX_ITEMS_CBUFFER
    BY DEF Roomy
  <2>3. a + c <= I + l
    BY <2>2 DEF IInv, Growth
  <2> HIDE DEF I, a, c, l
  <2>4. a <= MAX_ITEMS_CBUFFER
    BY <2>1, <2>2, <2>3
  <2> QED BY <2>4 DEF a
<1> QED BY <1>1, Invariance, PTL

\* A buffer that has reached the threshold is being served: the test of
\* fire_timer for equality does not let it grow past the threshold unseen.
THEOREM FullMeansServedSafe == SpecAll => []FullMeansServed
<1>1. IInv => FullMeansServed
  <2> SUFFICES ASSUME IInv, settled, ItemsToServe > 0, timer = "pending",
                      Len(cbuf) >= ItemsToServe, ~Busy
               PROVE  FALSE
    BY DEF FullMeansServed, Busy
  <2> DEFINE I == ItemsToServe
             c == Len(cbuf)
  <2>1. I \in Nat /\ c \in Nat
    BY SequencesTyped DEF IInv
  <2>2. c < I
    BY DEF IInv, Growth
  <2>3. c >= I
    OBVIOUS
  <2> HIDE DEF I, c
  <2> QED BY <2>1, <2>2, <2>3
<1> QED BY <1>1, Invariance, PTL

\* Buffer, work item and list are one queue: no number is lost, doubled or
\* overtaken on its way from the timer to the reader.
THEOREM NothingLost == SpecAll => NothingLostOrReordered
<1>1. IInv /\ [NextAll]_vars
        => [settled /\ Roomy =>
              \/ Numbers' \in {Numbers, Append(Numbers, next), aux \o cbuf}
              \/ closing = "flush" /\ Numbers' = mylist]_vars
  BY NumbersStep DEF NumbersKept
<1> QED BY <1>1, Invariance, PTL DEF SpecAll, NothingLostOrReordered
=============================================================================
