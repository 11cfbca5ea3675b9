---------------------------- MODULE SharedLemmas ----------------------------
(***************************************************************************)
(* Lemmas that the proofs about several modules rest on: how a number of   *)
(* processes changes when one of them takes a step, as the invariants of   *)
(* the monitors, the semaphores and the reference counts all count; what   *)
(* up(), down_interruptible() and a signal do to a semaphore used as a     *)
(* wait queue; and that the least of some numbers is one of them.          *)
(***************************************************************************)
EXTENDS Semaphores, FiniteSets, FiniteSetsExt, FiniteSetTheorems, WellFoundedInduction, TLAPS

\* A set of natural numbers has a least element.
LEMMA MinIsIn == ASSUME NEW S, S \subseteq Nat, S # {} PROVE Min(S) \in S
<1>1. PICK x \in S : \A y \in S : <<y, x>> \notin OpToRel(<, Nat)
  BY NatLessThanWellFounded, WFMin, Zenon
<1>2. \A y \in S : ~(y < x)
  BY <1>1 DEF OpToRel
<1>3. \A y \in S : x <= y
  BY <1>2
<1> QED BY <1>3 DEF Min

-----------------------------------------------------------------------------
(* Counting.                                                               *)

\* If only p may enter or leave the set counted, the count changes by what p does.
LEMMA CountMove ==
  ASSUME NEW S, IsFiniteSet(S), NEW X, NEW f, NEW g, NEW p \in S,
         \A q \in S \ {p} : g[q] \in X <=> f[q] \in X
  PROVE  /\ Cardinality({q \in S : f[q] \in X}) \in Nat
         /\ Cardinality({q \in S : g[q] \in X}) =
              Cardinality({q \in S : f[q] \in X})
                + (IF g[p] \in X THEN 1 ELSE 0) - (IF f[p] \in X THEN 1 ELSE 0)
<1> DEFINE F == {q \in S : f[q] \in X}
           G == {q \in S : g[q] \in X}
<1> SUFFICES /\ Cardinality(F) \in Nat
             /\ Cardinality(G) = Cardinality(F)
                  + (IF g[p] \in X THEN 1 ELSE 0) - (IF f[p] \in X THEN 1 ELSE 0)
  OBVIOUS
<1>1. IsFiniteSet(F) /\ IsFiniteSet(G)
  BY FS_Subset
<1>2. Cardinality(F) \in Nat
  BY <1>1, FS_CardinalityType
<1>3. CASE g[p] \in X /\ f[p] \notin X
  <2>1. G = F \cup {p} /\ p \notin F
    BY <1>3
  <2>2. Cardinality(G) = Cardinality(F) + 1
    BY <1>1, <2>1, FS_AddElement
  <2> HIDE DEF F, G
  <2> QED BY <1>2, <1>3, <2>2
<1>4. CASE g[p] \notin X /\ f[p] \in X
  <2>1. G = F \ {p} /\ p \in F
    BY <1>4
  <2>2. Cardinality(G) = Cardinality(F) - 1
    BY <1>1, <2>1, FS_RemoveElement
  <2> HIDE DEF F, G
  <2> QED BY <1>2, <1>4, <2>2
<1>5. CASE g[p] \in X <=> f[p] \in X
  <2>1. G = F
    BY <1>5
  <2> HIDE DEF F, G
  <2> QED BY <1>2, <1>5, <2>1
<1> QED
  <2> HIDE DEF F, G
  <2> QED BY <1>2, <1>3, <1>4, <1>5

\* The same when nobody in S enters or leaves.
LEMMA CountSame ==
  ASSUME NEW S, NEW X, NEW f, NEW g, \A q \in S : g[q] \in X <=> f[q] \in X
  PROVE  Cardinality({q \in S : g[q] \in X}) = Cardinality({q \in S : f[q] \in X})
<1>1. {q \in S : g[q] \in X} = {q \in S : f[q] \in X}
  OBVIOUS
<1> QED BY <1>1

In(place, X) == IF place \in X THEN 1 ELSE 0

\* How many of S are at X, according to f; and what a move of p adds to it.
CountAt(S, X, f) == Cardinality({q \in S : f[q] \in X})
Moved(p, S, X, from, to) == IF p \in S THEN In(to, X) - In(from, X) ELSE 0

\* A count is a natural number, and at least 1 when somebody is there.
LEMMA CountNat ==
  ASSUME NEW S, IsFiniteSet(S), NEW X, NEW f
  PROVE  /\ CountAt(S, X, f) \in Nat
         /\ \A q \in S : f[q] \in X => CountAt(S, X, f) > 0
<1> DEFINE F == {q \in S : f[q] \in X}
<1>1. IsFiniteSet(F)
  BY FS_Subset
<1>2. Cardinality(F) \in Nat /\ (Cardinality(F) = 0 => F = {})
  BY <1>1, FS_CardinalityType, FS_EmptySet
<1>3. CountAt(S, X, f) = Cardinality(F)
  BY DEF CountAt
<1>4. \A q \in S : f[q] \in X => q \in F
  OBVIOUS
<1> HIDE DEF F
<1> QED BY <1>2, <1>3, <1>4

\* When only p may enter or leave X, a count at X changes by p's move.
LEMMA CountStepIn ==
  ASSUME NEW S, IsFiniteSet(S), NEW X, NEW f, NEW g, NEW p,
         \A q \in S \ {p} : g[q] \in X <=> f[q] \in X
  PROVE  CountAt(S, X, g) = CountAt(S, X, f) + Moved(p, S, X, f[p], g[p])
<1> DEFINE n == Cardinality({q \in S : f[q] \in X})
           m == Cardinality({q \in S : g[q] \in X})
<1> SUFFICES m = n + Moved(p, S, X, f[p], g[p])
  BY DEF CountAt
<1>2. n \in Nat
  BY CountNat DEF CountAt
<1>3. CASE p \in S
  <2>1. m = n + In(g[p], X) - In(f[p], X)
    BY <1>3, CountMove, Zenon DEF In
  <2>2. In(g[p], X) \in Nat /\ In(f[p], X) \in Nat
    BY DEF In
  <2> HIDE DEF n, m
  <2> QED BY <1>2, <1>3, <2>1, <2>2 DEF Moved
<1>4. CASE p \notin S
  <2>1. m = n
    BY <1>4, CountSame, Zenon
  <2> HIDE DEF n, m
  <2> QED BY <1>2, <1>4, <2>1 DEF Moved
<1> QED BY <1>3, <1>4

\* In particular when p alone moves.
LEMMA CountStep ==
  ASSUME NEW S, IsFiniteSet(S), NEW X, NEW f, NEW g, NEW p,
         \A q \in S \ {p} : g[q] = f[q]
  PROVE  CountAt(S, X, g) = CountAt(S, X, f) + Moved(p, S, X, f[p], g[p])
<1>1. \A q \in S \ {p} : g[q] \in X <=> f[q] \in X
  OBVIOUS
<1> QED BY <1>1, CountStepIn

-----------------------------------------------------------------------------
(* Semaphores.  The list always holds exactly the processes that sleep on  *)
(* it, each once, and a unit stays in the counter only while it is empty.  *)

Sem(P) == [count : Nat, queue : Seq(P)]

\* The semaphore is sound when the processes of A sleep on it.
Sound(sem, A) ==
  LET Q == sem.queue IN
  /\ \A i \in 1..Len(Q) : Q[i] \in A
  /\ \A a \in A : \E i \in 1..Len(Q) : Q[i] = a
  /\ \A i, j \in 1..Len(Q) : Q[i] = Q[j] => i = j
  /\ sem.count > 0 => Q = <<>>

\* The units it has, counting each sleeper as one it lacks.
Units(sem) == sem.count - Len(sem.queue)

\* Entry i taken out of a sequence: the rest keeps its order.
LEMMA OneRemoved ==
  ASSUME NEW P, NEW Q \in Seq(P), NEW i \in 1..Len(Q), NEW R,
         R = SubSeq(Q, 1, i - 1) \o SubSeq(Q, i + 1, Len(Q))
  PROVE  /\ R \in Seq(P) /\ Len(R) = Len(Q) - 1
         /\ \A k \in 1..Len(R) : R[k] = IF k < i THEN Q[k] ELSE Q[k+1]
<1> DEFINE A == SubSeq(Q, 1, i - 1)
           B == SubSeq(Q, i + 1, Len(Q))
<1>1. Len(Q) \in Nat /\ i \in Int /\ 1 <= i /\ i <= Len(Q)
  OBVIOUS
<1>2. A \in Seq(P) /\ Len(A) = i - 1 /\ \A k \in 1..(i-1) : A[k] = Q[k]
  BY <1>1
<1>3. /\ B \in Seq(P) /\ Len(B) = Len(Q) - i
      /\ \A k \in 1..(Len(Q) - i) : B[k] = Q[i + k]
  BY <1>1, SMTT(30)
<1>4. /\ A \o B \in Seq(P) /\ Len(A \o B) = Len(A) + Len(B)
      /\ \A k \in 1..(Len(A) + Len(B)) :
           (A \o B)[k] = IF k <= Len(A) THEN A[k] ELSE B[k - Len(A)]
  <2>1. A \in Seq(P) /\ B \in Seq(P)
    BY <1>2, <1>3
  <2> HIDE DEF A, B
  <2> QED BY <2>1
<1> DEFINE a == Len(A)
           b == Len(B)
           q == Len(Q)
<1>5. q \in Nat /\ i \in Int /\ 1 <= i /\ i <= q /\ a = i - 1 /\ b = q - i
  BY <1>1, <1>2, <1>3
<1>6. R = A \o B
  OBVIOUS
<1> HIDE DEF A, B, a, b, q
<1>7. Len(R) = q - 1 /\ R \in Seq(P)
  <2> DEFINE r == Len(R)
  <2>1. r = a + b /\ R \in Seq(P)
    BY <1>4, <1>6 DEF a, b
  <2>2. r = q - 1
    <3> HIDE DEF r
    <3> QED BY <1>5, <2>1
  <2> QED BY <2>1, <2>2
<1>8. ASSUME NEW k \in 1..(q - 1)
      PROVE  R[k] = IF k < i THEN Q[k] ELSE Q[k+1]
  <2>1. k \in 1..(a + b) /\ k \in Int
    BY <1>5
  <2>2. R[k] = IF k <= a THEN A[k] ELSE B[k - a]
    BY <1>4, <1>6, <2>1 DEF a, b
  <2>3. CASE k < i
    <3>1. k <= a /\ k \in 1..(i-1)
      BY <1>5, <2>1, <2>3
    <3> QED BY <1>2, <2>2, <2>3, <3>1
  <2>4. CASE ~(k < i)
    <3>1. k - a \in 1..(q - i) /\ i + (k - a) = k + 1 /\ ~(k <= a)
      BY <1>5, <2>1, <2>4
    <3>2. B[k - a] = Q[i + (k - a)]
      BY <1>3, <3>1 DEF q
    <3>3. R[k] = Q[k + 1]
      BY <2>2, <3>1, <3>2
    <3> QED BY <2>4, <3>3
  <2> QED BY <2>3, <2>4
<1> QED BY <1>7, <1>8 DEF q

\* up(): the longest sleeper gets the unit, or the counter does.
LEMMA UpEffect ==
  ASSUME NEW P, NEW sem \in Sem(P), NEW A, Sound(sem, A)
  PROVE  /\ Up(sem) \in Sem(P) /\ Sound(Up(sem), A \ Woken(sem))
         /\ Units(Up(sem)) = Units(sem) + 1
         /\ Woken(sem) \subseteq A
<1> DEFINE Q == sem.queue
           c == sem.count
<1>1. Q \in Seq(P) /\ c \in Nat
  BY DEF Sem
<1>2. CASE Q = <<>>
  <2>1. Up(sem) \in Sem(P) /\ Up(sem).queue = <<>> /\ Up(sem).count = c + 1 /\ Woken(sem) = {}
    BY <1>2 DEF Up, Woken, Sem
  <2>2. Sound(Up(sem), A)
    BY <1>2, <2>1 DEF Sound
  <2>3. Units(Up(sem)) = Units(sem) + 1
    <3>1. Units(Up(sem)) = (c + 1) - 0 /\ Units(sem) = c - 0
      BY <1>2, <2>1 DEF Units
    <3> HIDE DEF c
    <3> QED BY <1>1, <3>1
  <2> QED BY <2>1, <2>2, <2>3
<1>3. CASE Q # <<>>
  <2> DEFINE R == Tail(Q)
             q == Len(Q)
             r == Len(R)
  <2>1. /\ Up(sem) \in Sem(P) /\ Up(sem).queue = R /\ Up(sem).count = c
        /\ Woken(sem) = {Q[1]}
    BY <1>1, <1>3 DEF Up, Woken, Sem
  <2>2. q \in Nat /\ q > 0 /\ r = q - 1 /\ \A k \in 1..r : R[k] = Q[k+1]
    BY <1>1, <1>3
  <2>3. ~(c > 0) /\ /\ \A i \in 1..q : Q[i] \in A
                    /\ \A a \in A : \E i \in 1..q : Q[i] = a
                    /\ \A i, j \in 1..q : Q[i] = Q[j] => i = j
    BY <1>3 DEF Sound
  <2> HIDE DEF Q, R, q, r, c
  <2>4. 1 \in 1..q /\ \A k \in 1..r : k + 1 \in 1..q /\ k + 1 # 1
    BY <2>2
  <2>5. \A k \in 1..r : R[k] \in A \ {Q[1]}
    BY <2>2, <2>3, <2>4
  <2>6. \A a \in A \ {Q[1]} : \E k \in 1..r : R[k] = a
    <3> SUFFICES ASSUME NEW a \in A \ {Q[1]} PROVE \E k \in 1..r : R[k] = a
      OBVIOUS
    <3>1. PICK i \in 1..q : Q[i] = a
      BY <2>3
    <3>2. i - 1 \in 1..r /\ (i - 1) + 1 = i
      BY <2>2, <3>1
    <3> QED BY <2>2, <3>1, <3>2
  <2>7. \A i, j \in 1..r : R[i] = R[j] => i = j
    <3> SUFFICES ASSUME NEW i \in 1..r, NEW j \in 1..r, R[i] = R[j] PROVE i = j
      OBVIOUS
    <3>1. i + 1 = j + 1
      BY <2>2, <2>3, <2>4
    <3> QED BY <2>2, <3>1
  <2>8. Sound(Up(sem), A \ Woken(sem))
    BY <2>1, <2>3, <2>5, <2>6, <2>7 DEF Sound, r
  <2>9. Units(Up(sem)) = Units(sem) + 1
    <3>1. Units(Up(sem)) = c - r /\ Units(sem) = c - q
      BY <2>1 DEF Units, c, r, q, Q
    <3> QED BY <1>1, <2>2, <3>1 DEF c
  <2> QED BY <2>1, <2>3, <2>4, <2>8, <2>9
<1> QED BY <1>2, <1>3

\* down_interruptible() that finds a unit.
LEMMA TakeEffect ==
  ASSUME NEW P, NEW sem \in Sem(P), NEW A, Sound(sem, A), sem.count > 0
  PROVE  /\ Take(sem) \in Sem(P) /\ Sound(Take(sem), A)
         /\ Units(Take(sem)) = Units(sem) - 1
<1> DEFINE c == sem.count
           l == Len(sem.queue)
<1>1. c \in Nat /\ c > 0 /\ sem.queue = <<>> /\ l = 0
  BY DEF Sem, Sound
<1>2. Take(sem) \in Sem(P) /\ Take(sem).queue = sem.queue /\ Take(sem).count = c - 1
  BY <1>1 DEF Take, Sem
<1>3. Units(Take(sem)) = (c - 1) - l /\ Units(sem) = c - l
  BY <1>2 DEF Units
<1>4. Units(Take(sem)) = Units(sem) - 1
  <2> HIDE DEF c, l
  <2> QED BY <1>1, <1>3
<1> QED BY <1>1, <1>2, <1>4 DEF Sound

\* down_interruptible() that finds none: p falls asleep behind the others.
LEMMA EnqueueEffect ==
  ASSUME NEW P, NEW sem \in Sem(P), NEW A, Sound(sem, A), ~(sem.count > 0),
         NEW p \in P, p \notin A
  PROVE  /\ Enqueue(sem, p) \in Sem(P) /\ Sound(Enqueue(sem, p), A \cup {p})
         /\ Units(Enqueue(sem, p)) = Units(sem) - 1
<1> DEFINE Q == sem.queue
           R == Append(Q, p)
           q == Len(Q)
           c == sem.count
<1>1. Q \in Seq(P) /\ c \in Nat /\ ~(c > 0) /\ q \in Nat
  BY DEF Sem
<1>2. R \in Seq(P) /\ Len(R) = q + 1 /\ R[q + 1] = p /\ \A i \in 1..q : R[i] = Q[i]
  BY <1>1
<1>3. Enqueue(sem, p) = [count |-> c, queue |-> R]
  BY DEF Enqueue, Sem
<1>4. Enqueue(sem, p) \in Sem(P) /\ Enqueue(sem, p).queue = R /\ Enqueue(sem, p).count = c
  <2> HIDE DEF R, c
  <2> QED BY <1>1, <1>2, <1>3 DEF Sem
<1>5. /\ \A i \in 1..q : Q[i] \in A
      /\ \A a \in A : \E i \in 1..q : Q[i] = a
      /\ \A i, j \in 1..q : Q[i] = Q[j] => i = j
  BY DEF Sound
<1>6. Units(Enqueue(sem, p)) = c - (q + 1) /\ Units(sem) = c - q
  BY <1>2, <1>4 DEF Units
<1> HIDE DEF Q, R, q, c
<1>7. \A i \in 1..q + 1 : i \in 1..q \/ i = q + 1
  BY <1>1
<1>8. 1..q \subseteq 1..q + 1 /\ q + 1 \in 1..q + 1
  BY <1>1
<1>9. Sound(Enqueue(sem, p), A \cup {p})
  <2>1. \A i \in 1..q + 1 : R[i] \in A \cup {p}
    BY <1>2, <1>5, <1>7
  <2>2. \A a \in A \cup {p} : \E i \in 1..q + 1 : R[i] = a
    BY <1>2, <1>5, <1>8
  <2>3. \A i, j \in 1..q + 1 : R[i] = R[j] => i = j
    BY <1>2, <1>5, <1>7
  <2> QED BY <1>1, <1>2, <1>4, <2>1, <2>2, <2>3 DEF Sound
<1>10. Units(Enqueue(sem, p)) = Units(sem) - 1
  BY <1>1, <1>6
<1> QED BY <1>4, <1>9, <1>10

\* A signal takes p out of the list, wherever in it p stands.
LEMMA DequeueEffect ==
  ASSUME NEW P, NEW sem \in Sem(P), NEW A, Sound(sem, A), NEW i \in 1..Len(sem.queue)
  PROVE  /\ Dequeue(sem, i) \in Sem(P) /\ Sound(Dequeue(sem, i), A \ {sem.queue[i]})
         /\ Units(Dequeue(sem, i)) = Units(sem) + 1
<1> DEFINE Q == sem.queue
           R == SubSeq(Q, 1, i - 1) \o SubSeq(Q, i + 1, Len(Q))
           q == Len(Q)
           r == Len(R)
           c == sem.count
           at(k) == IF k < i THEN k ELSE k + 1
<1>1. Q \in Seq(P) /\ c \in Nat /\ q \in Nat /\ i \in 1..q
  BY DEF Sem
<1>2. R \in Seq(P) /\ r = q - 1 /\ \A k \in 1..r : R[k] = IF k < i THEN Q[k] ELSE Q[k+1]
  <2>1. /\ Q \in Seq(P) /\ i \in 1..Len(Q)
        /\ R = SubSeq(Q, 1, i - 1) \o SubSeq(Q, i + 1, Len(Q))
    BY <1>1
  <2> HIDE DEF Q, R
  <2>2. /\ R \in Seq(P) /\ Len(R) = Len(Q) - 1
        /\ \A k \in 1..Len(R) : R[k] = IF k < i THEN Q[k] ELSE Q[k+1]
    BY <2>1, OneRemoved, ZenonT(90)
  <2> QED BY <2>2
<1>3. Dequeue(sem, i) = [sem EXCEPT !.queue = R]
  BY Zenon DEF Dequeue
<1>4. Dequeue(sem, i) \in Sem(P) /\ Dequeue(sem, i).queue = R /\ Dequeue(sem, i).count = c
  <2> HIDE DEF R
  <2> QED BY <1>1, <1>2, <1>3 DEF Sem
<1>5. /\ \A k \in 1..q : Q[k] \in A
      /\ \A a \in A : \E k \in 1..q : Q[k] = a
      /\ \A k, j \in 1..q : Q[k] = Q[j] => k = j
      /\ c > 0 => Q = <<>>
  BY DEF Sound
<1>6. ~(c > 0)
  BY <1>1, <1>5
<1>7. \A k \in 1..r : R[k] = Q[at(k)]
  BY <1>2
<1>8. Units(Dequeue(sem, i)) = c - r /\ Units(sem) = c - q
  BY <1>4 DEF Units
<1> HIDE DEF Q, R, q, r, c
<1>9. \A k \in 1..r : at(k) \in 1..q /\ at(k) # i
  BY <1>1, <1>2
<1>10. \A k, j \in 1..r : at(k) = at(j) => k = j
  BY <1>1, <1>2
<1>11. \A k \in 1..q : k = i \/ \E j \in 1..r : at(j) = k
  <2> SUFFICES ASSUME NEW k \in 1..q, k # i PROVE \E j \in 1..r : at(j) = k
    OBVIOUS
  <2>1. CASE k < i
    <3>1. k \in 1..r /\ at(k) = k
      BY <1>1, <1>2, <2>1
    <3> QED BY <3>1
  <2>2. CASE k > i
    <3>1. k - 1 \in 1..r /\ at(k - 1) = k
      BY <1>1, <1>2, <2>2
    <3> QED BY <3>1
  <2> QED BY <1>1, <2>1, <2>2
<1> HIDE DEF at
<1>12. Sound(Dequeue(sem, i), A \ {Q[i]})
  <2>1. \A k \in 1..r : R[k] \in A \ {Q[i]}
    BY <1>1, <1>5, <1>7, <1>9
  <2>2. \A a \in A \ {Q[i]} : \E k \in 1..r : R[k] = a
    BY <1>5, <1>7, <1>11
  <2>3. \A k, j \in 1..r : R[k] = R[j] => k = j
    BY <1>5, <1>7, <1>9, <1>10
  <2> QED BY <1>4, <1>6, <2>1, <2>2, <2>3 DEF Sound, r
<1>13. Units(Dequeue(sem, i)) = Units(sem) + 1
  BY <1>1, <1>2, <1>8
<1> QED BY <1>4, <1>12, <1>13 DEF Q

\* While somebody sleeps no unit is free.
LEMMA SleepersNoUnit ==
  ASSUME NEW P, NEW sem \in Sem(P), NEW A, Sound(sem, A), A # {}
  PROVE  sem.count = 0 /\ Len(sem.queue) > 0
<1>1. PICK a \in A : TRUE
  OBVIOUS
<1>2. PICK i \in 1..Len(sem.queue) : sem.queue[i] = a
  BY DEF Sound
<1>3. sem.queue \in Seq(P) /\ sem.count \in Nat /\ Len(sem.queue) \in Nat
  BY DEF Sem
<1> QED BY <1>2, <1>3 DEF Sound

\* The operations give semaphores, whoever sleeps on them.
LEMMA SemTyped ==
  ASSUME NEW P, NEW sem \in Sem(P)
  PROVE  /\ Up(sem) \in Sem(P)
         /\ sem.count > 0 => Take(sem) \in Sem(P)
         /\ \A p \in P : Enqueue(sem, p) \in Sem(P)
         /\ \A i \in 1..Len(sem.queue) : Dequeue(sem, i) \in Sem(P)
<1> DEFINE Q == sem.queue
           c == sem.count
<1>1. Q \in Seq(P) /\ c \in Nat /\ Len(Q) \in Nat
  BY DEF Sem
<1>2. Up(sem) \in Sem(P)
  <2>1. CASE Q = <<>>
    BY <1>1, <2>1 DEF Up, Sem
  <2>2. CASE Q # <<>>
    <3>1. Tail(Q) \in Seq(P)
      BY <1>1, <2>2
    <3> QED BY <2>2, <3>1 DEF Up, Sem
  <2> QED BY <2>1, <2>2
<1>3. c > 0 => Take(sem) \in Sem(P)
  BY <1>1 DEF Take, Sem
<1>4. ASSUME NEW p \in P PROVE Enqueue(sem, p) \in Sem(P)
  <2>1. Append(Q, p) \in Seq(P)
    BY <1>1
  <2> QED BY <2>1 DEF Enqueue, Sem
<1>5. ASSUME NEW i \in 1..Len(Q) PROVE Dequeue(sem, i) \in Sem(P)
  <2> DEFINE R == SubSeq(Q, 1, i - 1) \o SubSeq(Q, i + 1, Len(Q))
  <2>1. R \in Seq(P)
    <3>1. R = SubSeq(Q, 1, i - 1) \o SubSeq(Q, i + 1, Len(Q))
      OBVIOUS
    <3> HIDE DEF Q, R
    <3> QED BY <1>1, <3>1, OneRemoved
  <2>2. Dequeue(sem, i) = [sem EXCEPT !.queue = R]
    BY Zenon DEF Dequeue
  <2> HIDE DEF R
  <2> QED BY <2>1, <2>2 DEF Sem
<1> QED BY <1>2, <1>3, <1>4, <1>5
=============================================================================
