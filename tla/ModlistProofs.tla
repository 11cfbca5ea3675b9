--------------------------- MODULE ModlistProofs ----------------------------
(***************************************************************************)
(* The list with a spinlock keeps its pointers intact, frees no element    *)
(* that a loop still visits, and behaves as a list on which every command  *)
(* takes effect at once, for any processes, elements and values.           *)
(***************************************************************************)
EXTENDS ModlistPr1, SharedLemmas, WellFoundedInduction

-----------------------------------------------------------------------------
(* Induction, and what follows from it.                                    *)

\* A set that has 0 and, with a number, the next one, has all the naturals.
LEMMA Induction ==
  ASSUME NEW S, 0 \in S, \A k \in Nat : k \in S => k + 1 \in S
  PROVE  Nat \subseteq S
<1> SUFFICES ASSUME Nat \ S # {} PROVE FALSE
  OBVIOUS
<1>1. Nat \ S \subseteq Nat
  OBVIOUS
<1>2. PICK x \in Nat \ S : \A y \in Nat \ S : <<y, x>> \notin OpToRel(<, Nat)
  BY <1>1, NatLessThanWellFounded, WFMin, Zenon
<1>3. x \in Nat /\ x \notin S /\ \A y \in Nat \ S : ~(y < x)
  BY <1>2 DEF OpToRel
<1>4. x # 0 /\ x - 1 \in Nat /\ (x - 1) + 1 = x /\ x - 1 < x
  BY <1>3
<1>5. x - 1 \in S
  BY <1>3, <1>4
<1> QED BY <1>3, <1>4, <1>5

\* f takes N steps from b, the kth of them by G[k].
Computes(f, M, b, N, G) ==
  f \in [0 .. N -> M] /\ f[0] = b /\ \A k \in 1 .. N : f[k] = G[k][f[k-1]]

\* Steps can always be taken.
LEMMA Recursion ==
  ASSUME NEW M, NEW b \in M, NEW N \in Nat, NEW G \in [1 .. N -> [M -> M]]
  PROVE  \E f : Computes(f, M, b, N, G)
<1> DEFINE Good(f, j) == /\ f \in [0 .. j -> M] /\ f[0] = b
                         /\ \A k \in 1 .. j : f[k] = G[k][f[k-1]]
           S == {j \in Nat : j <= N => \E f : Good(f, j)}
<1>1. 0 \in S
  <2> DEFINE g == [k \in 0 .. 0 |-> b]
  <2>1. Good(g, 0)
    OBVIOUS
  <2> HIDE DEF g, Good
  <2> QED BY <2>1
<1>2. ASSUME NEW j \in Nat, j \in S PROVE j + 1 \in S
  <2> SUFFICES ASSUME j + 1 <= N PROVE \E f : Good(f, j + 1)
    OBVIOUS
  <2>1. PICK f : Good(f, j)
    <3> HIDE DEF Good
    <3> QED BY <1>2
  <2> DEFINE y == G[j+1][f[j]]
             g == [k \in 0 .. j + 1 |-> IF k = j + 1 THEN y ELSE f[k]]
  <2>2. y \in M
    <3>1. f[j] \in M /\ j + 1 \in 1 .. N
      BY <2>1
    <3> QED BY <3>1
  <2> HIDE DEF y
  <2>3. g \in [0 .. j + 1 -> M] /\ g[0] = b
    BY <2>1, <2>2
  <2>4. ASSUME NEW k \in 1 .. j + 1 PROVE g[k] = G[k][g[k-1]]
    <3>1. CASE k = j + 1
      <4>1. g[k] = y /\ g[k-1] = f[j]
        BY <3>1
      <4> HIDE DEF g
      <4> QED BY <3>1, <4>1 DEF y
    <3>2. CASE k # j + 1
      <4>1. k \in 1 .. j /\ g[k] = f[k] /\ g[k-1] = f[k-1]
        BY <3>2
      <4> HIDE DEF g
      <4> QED BY <2>1, <4>1
    <3> QED BY <3>1, <3>2
  <2> HIDE DEF g
  <2> QED BY <2>3, <2>4
<1>3. Nat \subseteq S
  <2> HIDE DEF S
  <2> QED BY <1>1, <1>2, Induction
<1> QED BY <1>3 DEF Computes

-----------------------------------------------------------------------------
(* Pointer writes.                                                         *)

\* One write changes one pointer.
LEMMA PutNext ==
  ASSUME NEW m \in Memory, NEW e \in Entries, NEW x \in Pointers
  PROVE  /\ Put(m, Write("next", e, x)) \in Memory
         /\ Put(m, Write("next", e, x)).next = [m.next EXCEPT ![e] = x]
         /\ Put(m, Write("next", e, x)).prev = m.prev
<1> DEFINE nn == [m.next EXCEPT ![e] = x]
<1>1. Put(m, Write("next", e, x)) = [m EXCEPT !.next = nn]
  BY Zenon DEF Put, Write
<1>2. nn \in [Entries -> Pointers] /\ m.prev \in [Entries -> Pointers]
  BY DEF Memory
<1> HIDE DEF nn
<1>3. /\ [m EXCEPT !.next = nn].next = nn /\ [m EXCEPT !.next = nn].prev = m.prev
  BY DEF Memory
<1>4. [m EXCEPT !.next = nn] \in Memory
  BY <1>2 DEF Memory
<1> QED BY <1>1, <1>3, <1>4 DEF nn

\* The same of the other pointer.
LEMMA PutPrev ==
  ASSUME NEW m \in Memory, NEW e \in Entries, NEW x \in Pointers
  PROVE  /\ Put(m, Write("prev", e, x)) \in Memory
         /\ Put(m, Write("prev", e, x)).prev = [m.prev EXCEPT ![e] = x]
         /\ Put(m, Write("prev", e, x)).next = m.next
<1> DEFINE pp == [m.prev EXCEPT ![e] = x]
<1>1. Put(m, Write("prev", e, x)) = [m EXCEPT !.prev = pp]
  BY Zenon DEF Put, Write
<1>2. pp \in [Entries -> Pointers] /\ m.next \in [Entries -> Pointers]
  BY DEF Memory
<1> HIDE DEF pp
<1>3. /\ [m EXCEPT !.prev = pp].prev = pp /\ [m EXCEPT !.prev = pp].next = m.next
  BY DEF Memory
<1>4. [m EXCEPT !.prev = pp] \in Memory
  BY <1>2 DEF Memory
<1> QED BY <1>1, <1>3, <1>4 DEF pp

\* What memory holds once the writes still to be made are made.
Done(m, w) ==
  IF w = <<>> THEN m
  ELSE IF Len(w) = 1 THEN Put(m, w[1])
  ELSE IF Len(w) = 2 THEN Put(Put(m, w[1]), w[2])
  ELSE IF Len(w) = 3 THEN Put(Put(Put(m, w[1]), w[2]), w[3])
  ELSE PutAll(m, w)

\* Making one of them does not change that.
LEMMA DoneStep ==
  ASSUME NEW W, NEW w \in Seq(W), Len(w) \in 1..4, NEW m
  PROVE  Done(Put(m, Head(w)), Tail(w)) = Done(m, w)
<1> DEFINE t == Tail(w)
<1>1. /\ Len(w) \in Nat /\ w # <<>> /\ Head(w) = w[1] /\ t \in Seq(W)
      /\ Len(t) = Len(w) - 1 /\ \A i \in 1 .. Len(w) - 1 : t[i] = w[i+1]
  OBVIOUS
<1> HIDE DEF t
<1>0. t = <<>> => Len(t) = 0
  OBVIOUS
<1>2. CASE Len(w) = 1
  <2>1. t = <<>>
    BY <1>1, <1>2
  <2> QED BY <1>1, <1>2, <2>1 DEF Done, t
<1>3. CASE Len(w) = 2
  <2>1. Len(t) = 1 /\ t[1] = w[2]
    BY <1>1, <1>3
  <2>2. t # <<>>
    BY <1>0, <2>1
  <2> QED BY <1>1, <1>3, <2>1, <2>2 DEF Done, t
<1>4. CASE Len(w) = 3
  <2>1. Len(t) = 2 /\ t[1] = w[2] /\ t[2] = w[3]
    BY <1>1, <1>4
  <2>2. t # <<>>
    BY <1>0, <2>1
  <2>3. Done(m, w) = Put(Put(Put(m, w[1]), w[2]), w[3])
    BY <1>1, <1>4 DEF Done
  <2>4. Done(Put(m, w[1]), t) = Put(Put(Put(m, w[1]), w[2]), w[3])
    BY <2>1, <2>2 DEF Done
  <2> QED BY <1>1, <2>3, <2>4 DEF t
<1>5. CASE Len(w) = 4
  <2>1. Len(t) = 3 /\ t[1] = w[2] /\ t[2] = w[3] /\ t[3] = w[4]
    BY <1>1, <1>5
  <2>2. t # <<>>
    BY <1>0, <2>1
  <2>3. Done(m, w) = Put(Put(Put(Put(m, w[1]), w[2]), w[3]), w[4])
    BY <1>1, <1>5 DEF Done, PutAll
  <2>4. Done(Put(m, w[1]), t) = Put(Put(Put(Put(m, w[1]), w[2]), w[3]), w[4])
    BY <2>1, <2>2 DEF Done
  <2> QED BY <1>1, <2>3, <2>4 DEF t
<1> QED BY <1>2, <1>3, <1>4, <1>5

\* All the writes of list_add_tail.
LEMMA Added ==
  ASSUME NEW m \in Memory, NEW e \in Nodes, NEW tail \in Entries, m.prev[HEAD] = tail,
         NEW r, r = PutAll(m, ListAddTail(m, e))
  PROVE  /\ r \in Memory
         /\ r.next = [[m.next EXCEPT ![e] = HEAD] EXCEPT ![tail] = e]
         /\ r.prev = [[m.prev EXCEPT ![HEAD] = e] EXCEPT ![e] = tail]
<1>1. e \in Entries /\ HEAD \in Entries /\ Entries \subseteq Pointers
  BY DEF Entries, Pointers
<1> DEFINE a == Put(m, Write("prev", HEAD, e))
           b == Put(a, Write("next", e, HEAD))
           c == Put(b, Write("prev", e, tail))
           d == Put(c, Write("next", tail, e))
<1>2. r = d
  BY DEF PutAll, ListAddTail, ListAdd
<1>3. a \in Memory /\ a.next = m.next /\ a.prev = [m.prev EXCEPT ![HEAD] = e]
  BY <1>1, PutPrev
<1> HIDE DEF a
<1>4. b \in Memory /\ b.prev = a.prev /\ b.next = [a.next EXCEPT ![e] = HEAD]
  BY <1>1, <1>3, PutNext
<1> HIDE DEF b
<1>5. c \in Memory /\ c.next = b.next /\ c.prev = [b.prev EXCEPT ![e] = tail]
  BY <1>1, <1>4, PutPrev
<1> HIDE DEF c
<1>6. d \in Memory /\ d.prev = c.prev /\ d.next = [c.next EXCEPT ![tail] = e]
  BY <1>1, <1>5, PutNext
<1> QED BY <1>2, <1>3, <1>4, <1>5, <1>6

\* All the writes of list_del.
LEMMA Unlinked ==
  ASSUME NEW m \in Memory, NEW e \in Entries, NEW before_e \in Entries, NEW after_e \in Entries,
         m.prev[e] = before_e, m.next[e] = after_e, NEW r, r = Deleted(m, e)
  PROVE  /\ r \in Memory
         /\ r.next = [[m.next EXCEPT ![before_e] = after_e] EXCEPT ![e] = Poison]
         /\ r.prev = [[m.prev EXCEPT ![after_e] = before_e] EXCEPT ![e] = Poison]
<1>1. Poison \in Pointers /\ Entries \subseteq Pointers
  BY DEF Pointers
<1> DEFINE a == Put(m, Write("prev", after_e, before_e))
           b == Put(a, Write("next", before_e, after_e))
           c == Put(b, Write("next", e, Poison))
           d == Put(c, Write("prev", e, Poison))
<1>2. r = d
  BY DEF PutAll, ListDel, Deleted
<1>3. a \in Memory /\ a.next = m.next /\ a.prev = [m.prev EXCEPT ![after_e] = before_e]
  BY <1>1, PutPrev
<1> HIDE DEF a
<1>4. b \in Memory /\ b.prev = a.prev /\ b.next = [a.next EXCEPT ![before_e] = after_e]
  BY <1>1, <1>3, PutNext
<1> HIDE DEF b
<1>5. c \in Memory /\ c.prev = b.prev /\ c.next = [b.next EXCEPT ![e] = Poison]
  BY <1>1, <1>4, PutNext
<1> HIDE DEF c
<1>6. d \in Memory /\ d.next = c.next /\ d.prev = [c.prev EXCEPT ![e] = Poison]
  BY <1>1, <1>5, PutPrev
<1> QED BY <1>2, <1>3, <1>4, <1>5, <1>6
\* Memory stays memory, even if the pointer followed was poison.
LEMMA PutTyped ==
  ASSUME NEW m \in Memory, NEW field \in {"next", "prev"}, NEW e, NEW x \in Pointers
  PROVE  Put(m, Write(field, e, x)) \in Memory
<1>1. m.next \in [Entries -> Pointers] /\ m.prev \in [Entries -> Pointers]
  BY DEF Memory
<1>2. CASE field = "next"
  <2> DEFINE nn == [m.next EXCEPT ![e] = x]
  <2>1. Put(m, Write(field, e, x)) = [m EXCEPT !.next = nn]
    BY <1>2, Zenon DEF Put, Write
  <2>2. nn \in [Entries -> Pointers]
    BY <1>1
  <2> HIDE DEF nn
  <2> QED BY <2>1, <2>2 DEF Memory
<1>3. CASE field = "prev"
  <2> DEFINE pp == [m.prev EXCEPT ![e] = x]
  <2>1. Put(m, Write(field, e, x)) = [m EXCEPT !.prev = pp]
    BY <1>3, Zenon DEF Put, Write
  <2>2. pp \in [Entries -> Pointers]
    BY <1>1
  <2> HIDE DEF pp
  <2> QED BY <2>1, <2>2 DEF Memory
<1> QED BY <1>2, <1>3

\* So do list_del and list_add_tail.
LEMMA OperationsTyped ==
  ASSUME NEW m \in Memory, NEW e \in Entries
  PROVE  Deleted(m, e) \in Memory /\ PutAll(m, ListAddTail(m, e)) \in Memory
<1>1. /\ m.prev[e] \in Pointers /\ m.next[e] \in Pointers /\ m.prev[HEAD] \in Pointers
      /\ e \in Pointers /\ HEAD \in Pointers /\ Poison \in Pointers
  BY DEF Memory, Entries, Pointers
<1>2. \A t \in Memory, f \in {"next", "prev"}, x \in Pointers :
        \A y : Put(t, Write(f, y, x)) \in Memory
  BY PutTyped
<1>3. Deleted(m, e) \in Memory
  <2> DEFINE a == Put(m, Write("prev", m.next[e], m.prev[e]))
             b == Put(a, Write("next", m.prev[e], m.next[e]))
             c == Put(b, Write("next", e, Poison))
             d == Put(c, Write("prev", e, Poison))
  <2>1. Deleted(m, e) = d
    BY DEF PutAll, ListDel, Deleted
  <2>2. a \in Memory
    BY <1>1, <1>2
  <2> HIDE DEF a
  <2>3. b \in Memory
    BY <1>1, <1>2, <2>2
  <2> HIDE DEF b
  <2>4. c \in Memory
    BY <1>1, <1>2, <2>3
  <2> HIDE DEF c
  <2>5. d \in Memory
    BY <1>1, <1>2, <2>4
  <2> QED BY <2>1, <2>5
<1>4. PutAll(m, ListAddTail(m, e)) \in Memory
  <2> DEFINE tail == m.prev[HEAD]
             a == Put(m, Write("prev", HEAD, e))
             b == Put(a, Write("next", e, HEAD))
             c == Put(b, Write("prev", e, tail))
             d == Put(c, Write("next", tail, e))
  <2>1. PutAll(m, ListAddTail(m, e)) = d
    BY DEF PutAll, ListAddTail, ListAdd
  <2>2. a \in Memory
    BY <1>1, <1>2
  <2> HIDE DEF a
  <2>3. b \in Memory
    BY <1>1, <1>2, <2>2
  <2> HIDE DEF b
  <2>4. c \in Memory
    BY <1>1, <1>2, <2>3
  <2> HIDE DEF c
  <2>5. d \in Memory
    BY <1>1, <1>2, <2>4
  <2> QED BY <2>1, <2>5
<1> QED BY <1>3, <1>4
-----------------------------------------------------------------------------
(* Rings.                                                                  *)

\* What a traversal finds after i steps from HEAD, if the list is c.
Entry(c, i) == IF i \in 1 .. Len(c) THEN c[i] ELSE HEAD

\* The elements of c, each once, are linked in this order both ways.
Ring(m, c) ==
  /\ c \in Seq(Nodes)
  /\ \A i, j \in 1 .. Len(c) : c[i] = c[j] => i = j
  /\ \A i \in 0 .. Len(c) :
       m.next[Entry(c, i)] = Entry(c, i+1) /\ m.prev[Entry(c, i+1)] = Entry(c, i)

\* c without its k-th element.
Without(c, k) == [i \in 1 .. Len(c) - 1 |-> IF i < k THEN c[i] ELSE c[i+1]]

\* On the way round no entry is met twice.
LEMMA Distinct ==
  ASSUME NEW c \in Seq(Nodes), \A i, j \in 1 .. Len(c) : c[i] = c[j] => i = j
  PROVE  /\ Len(c) \in Nat
         /\ \A i \in Int : Entry(c, i) \in Entries
         /\ \A i \in 1 .. Len(c) : Entry(c, i) = c[i] /\ c[i] \in Nodes
         /\ Entry(c, 0) = HEAD /\ Entry(c, Len(c) + 1) = HEAD
         /\ \A i, j \in 0 .. Len(c) : Entry(c, i) = Entry(c, j) => i = j
         /\ \A i, j \in 1 .. Len(c) + 1 : Entry(c, i) = Entry(c, j) => i = j
<1>1. Len(c) \in Nat /\ \A i \in 1 .. Len(c) : c[i] \in Nodes /\ c[i] # HEAD
  BY KlistAssumption
<1>2. /\ \A i \in 1 .. Len(c) : Entry(c, i) = c[i]
      /\ \A i \in Int \ 1 .. Len(c) : Entry(c, i) = HEAD
  BY DEF Entry
<1>3. \A i \in Int : Entry(c, i) \in Entries
  BY <1>1, <1>2 DEF Entries
<1>4. ASSUME NEW i \in 0 .. Len(c) + 1, NEW j \in 0 .. Len(c) + 1, Entry(c, i) = Entry(c, j)
      PROVE  i = j \/ (i = 0 /\ j = Len(c) + 1) \/ (j = 0 /\ i = Len(c) + 1)
  <2>1. CASE i \in 1 .. Len(c) /\ j \in 1 .. Len(c)
    BY <1>2, <1>4, <2>1
  <2>2. CASE i \in 1 .. Len(c) /\ j \notin 1 .. Len(c)
    BY <1>1, <1>2, <1>4, <2>2
  <2>3. CASE i \notin 1 .. Len(c) /\ j \in 1 .. Len(c)
    BY <1>1, <1>2, <1>4, <2>3
  <2>4. CASE i \notin 1 .. Len(c) /\ j \notin 1 .. Len(c)
    BY <1>1, <2>4
  <2> QED BY <2>1, <2>2, <2>3, <2>4
<1> QED BY <1>1, <1>2, <1>3, <1>4

\* list_add_tail puts the new element last.
LEMMA AddTail ==
  ASSUME NEW m \in Memory, NEW c, Ring(m, c), NEW e \in Nodes,
         \A i \in 1 .. Len(c) : c[i] # e
  PROVE  LET r == PutAll(m, ListAddTail(m, e)) IN r \in Memory /\ Ring(r, Append(c, e))
<1> DEFINE r == PutAll(m, ListAddTail(m, e))
           L == Len(c)
           tail == Entry(c, L)
           d == Append(c, e)
<1>1. /\ c \in Seq(Nodes) /\ L \in Nat /\ e # HEAD
      /\ \A i \in Int : Entry(c, i) \in Entries
      /\ \A i \in 1 .. L : Entry(c, i) = c[i]
      /\ Entry(c, 0) = HEAD /\ Entry(c, L + 1) = HEAD
      /\ \A i, j \in 0 .. L : Entry(c, i) = Entry(c, j) => i = j
      /\ \A i, j \in 1 .. L + 1 : Entry(c, i) = Entry(c, j) => i = j
  BY Distinct, KlistAssumption DEF Ring
<1>2. \A i \in 0 .. L : /\ m.next[Entry(c, i)] = Entry(c, i+1)
                        /\ m.prev[Entry(c, i+1)] = Entry(c, i)
  BY DEF Ring
<1>3. m.prev[HEAD] = tail /\ tail \in Entries
  BY <1>1, <1>2
<1>4. \A i \in 0 .. L + 1 : Entry(c, i) # e
  BY <1>1
<1> HIDE DEF r, tail
<1>5. /\ r \in Memory
      /\ r.next = [[m.next EXCEPT ![e] = HEAD] EXCEPT ![tail] = e]
      /\ r.prev = [[m.prev EXCEPT ![HEAD] = e] EXCEPT ![e] = tail]
  BY <1>3, Added DEF r
<1>6. /\ d \in Seq(Nodes) /\ Len(d) = L + 1
      /\ \A i \in 1 .. L : d[i] = c[i]
      /\ d[L+1] = e
  BY <1>1
<1> HIDE DEF d, L
<1>7. /\ \A i \in 0 .. L : Entry(d, i) = Entry(c, i)
      /\ Entry(d, L + 1) = e /\ Entry(d, L + 2) = HEAD
  <2>0. L \in Nat /\ Len(d) = L + 1
    BY <1>1, <1>6
  <2>1. Entry(d, 0) = HEAD
    BY <2>0 DEF Entry
  <2>2. Entry(d, L + 2) = HEAD
    BY <2>0 DEF Entry
  <2>3. \A i \in 1 .. L + 1 : Entry(d, i) = d[i]
    BY <2>0 DEF Entry
  <2>4. d[L+1] = e
    BY <1>1, <1>6
  <2>5. \A i \in 1 .. L : Entry(d, i) = Entry(c, i)
    BY <1>1, <1>6, <2>3
  <2>6. Entry(d, 0) = Entry(c, 0)
    BY <1>1, <2>1
  <2> QED BY <2>0, <2>2, <2>3, <2>4, <2>5, <2>6
<1>8. \A i, j \in 1 .. L + 1 : d[i] = d[j] => i = j
  BY <1>1, <1>4, <1>6
<1>9. ASSUME NEW i \in 0 .. L + 1
      PROVE  r.next[Entry(d, i)] = Entry(d, i+1) /\ r.prev[Entry(d, i+1)] = Entry(d, i)
  <2>0. /\ m.next \in [Entries -> Pointers] /\ m.prev \in [Entries -> Pointers]
        /\ e \in Entries /\ HEAD \in Entries
    BY DEF Memory, Entries
  <2>1. CASE i < L
    <3>1. /\ Entry(d, i) = Entry(c, i) /\ Entry(d, i+1) = Entry(c, i+1)
          /\ Entry(c, i) # e /\ Entry(c, i+1) # e /\ Entry(c, i+1) # HEAD
          /\ Entry(c, i) # tail
      BY <1>1, <1>4, <1>7, <2>1 DEF tail
    <3>2. /\ m.next[Entry(c, i)] = Entry(c, i+1) /\ m.prev[Entry(c, i+1)] = Entry(c, i)
          /\ Entry(c, i) \in Entries /\ Entry(c, i+1) \in Entries
      BY <1>1, <1>2, <2>1
    <3> QED BY <1>5, <2>0, <3>1, <3>2
  <2>2. CASE i = L
    <3>1. Entry(d, i) = tail /\ Entry(d, i+1) = e
      BY <1>1, <1>7, <2>2 DEF tail
    <3> QED BY <1>1, <1>3, <1>5, <2>0, <3>1
  <2>3. CASE i = L + 1
    <3>1. Entry(d, i) = e /\ Entry(d, i+1) = HEAD /\ e # tail /\ e # HEAD
      BY <1>1, <1>4, <1>7, <2>3 DEF tail
    <3> QED BY <1>5, <2>0, <3>1
  <2> QED BY <1>1, <2>1, <2>2, <2>3
<1> QED BY <1>5, <1>6, <1>8, <1>9 DEF Ring, r, d

\* list_del takes out the element it is called for, and no other.
LEMMA Delete ==
  ASSUME NEW m \in Memory, NEW c, Ring(m, c), NEW k \in 1 .. Len(c)
  PROVE  Deleted(m, c[k]) \in Memory /\ Ring(Deleted(m, c[k]), Without(c, k))
<1> DEFINE r == Deleted(m, c[k])
           L == Len(c)
           e == c[k]
           p == Entry(c, k - 1)
           q == Entry(c, k + 1)
           d == Without(c, k)
<1>1. /\ c \in Seq(Nodes) /\ L \in Nat /\ k \in Int /\ 1 <= k /\ k <= L
      /\ \A i \in Int : Entry(c, i) \in Entries
      /\ \A i \in 1 .. L : Entry(c, i) = c[i] /\ c[i] \in Nodes
      /\ Entry(c, 0) = HEAD /\ Entry(c, L + 1) = HEAD
      /\ \A i, j \in 0 .. L : Entry(c, i) = Entry(c, j) => i = j
      /\ \A i, j \in 1 .. L + 1 : Entry(c, i) = Entry(c, j) => i = j
  BY Distinct DEF Ring
<1>2. \A i \in 0 .. L : /\ m.next[Entry(c, i)] = Entry(c, i+1)
                        /\ m.prev[Entry(c, i+1)] = Entry(c, i)
  BY DEF Ring
<1>3. /\ e = Entry(c, k) /\ e \in Entries /\ p \in Entries /\ q \in Entries
      /\ m.next[e] = q /\ m.prev[e] = p
  <2>1. e = Entry(c, k) /\ m.next[Entry(c, k)] = q
    BY <1>1, <1>2
  <2>2. m.prev[Entry(c, (k-1) + 1)] = Entry(c, k-1) /\ (k-1) + 1 = k
    BY <1>1, <1>2
  <2>3. p \in Entries /\ q \in Entries /\ Entry(c, k) \in Entries
    BY <1>1
  <2> QED BY <2>1, <2>2, <2>3
<1>4. \A i, j \in 1 .. L : c[i] = c[j] => i = j
  BY DEF Ring
<1> HIDE DEF r, p, q, e
<1>5. /\ r \in Memory
      /\ r.next = [[m.next EXCEPT ![p] = q] EXCEPT ![e] = Poison]
      /\ r.prev = [[m.prev EXCEPT ![q] = p] EXCEPT ![e] = Poison]
  BY <1>3, Unlinked DEF r, e
<1>6. /\ d \in Seq(Nodes) /\ Len(d) = L - 1
      /\ \A i \in 1 .. L - 1 : d[i] = IF i < k THEN c[i] ELSE c[i+1]
  <2>1. \A i \in 1 .. L - 1 : (IF i < k THEN c[i] ELSE c[i+1]) \in Nodes
    BY <1>1
  <2> QED BY <1>1, <2>1 DEF Without
<1> HIDE DEF d, L
<1>7. ASSUME NEW i \in 0 .. L
      PROVE  Entry(d, i) = IF i < k THEN Entry(c, i) ELSE Entry(c, i+1)
  <2>1. Entry(d, 0) = HEAD /\ Entry(d, L) = HEAD
    BY <1>1, <1>6 DEF Entry
  <2>2. CASE i \in 1 .. L - 1
    <3>1. Entry(d, i) = d[i]
      BY <1>1, <1>6, <2>2 DEF Entry
    <3>2. i \in 1 .. L /\ i + 1 \in 1 .. L
      BY <1>1, <2>2
    <3> QED BY <1>1, <1>6, <2>2, <3>1, <3>2
  <2>3. CASE i = 0
    BY <1>1, <2>1, <2>3
  <2>4. CASE i = L
    BY <1>1, <2>1, <2>4
  <2> QED BY <1>1, <2>2, <2>3, <2>4
<1>8. \A i, j \in 1 .. L - 1 : d[i] = d[j] => i = j
  BY <1>1, <1>4, <1>6 DEF L
<1>9. ASSUME NEW i \in 0 .. L - 1
      PROVE  r.next[Entry(d, i)] = Entry(d, i+1) /\ r.prev[Entry(d, i+1)] = Entry(d, i)
  <2>0. m.next \in [Entries -> Pointers] /\ m.prev \in [Entries -> Pointers]
    BY DEF Memory
  <2> DEFINE x == IF i < k THEN i ELSE i + 1
             y == IF i + 1 < k THEN i + 1 ELSE i + 2
  <2>1. /\ Entry(d, i) = Entry(c, x) /\ Entry(d, i+1) = Entry(c, y)
        /\ x \in 0 .. L /\ x # k /\ y \in 1 .. L + 1 /\ y # k
    BY <1>1, <1>7
  <2>2. Entry(c, x) # e /\ Entry(c, y) # e
    BY <1>1, <1>3, <2>1
  <2>3. Entry(c, x) = p <=> i = k - 1
    BY <1>1, <2>1 DEF p
  <2>4. Entry(c, y) = q <=> i = k - 1
    BY <1>1, <2>1 DEF q
  <2>5. Entry(c, x) \in Entries /\ Entry(c, y) \in Entries
    BY <1>1, <2>1
  <2>6. CASE i = k - 1
    <3>1. Entry(c, x) = p /\ Entry(c, y) = q
      BY <2>3, <2>4, <2>6
    <3> QED BY <1>3, <1>5, <2>0, <2>1, <2>2, <3>1
  <2>7. CASE i # k - 1
    <3>1. m.next[Entry(c, x)] = Entry(c, y) /\ m.prev[Entry(c, y)] = Entry(c, x)
      BY <1>1, <1>2, <2>7
    <3>2. Entry(c, x) # p /\ Entry(c, y) # q
      BY <2>3, <2>4, <2>7
    <3> HIDE DEF x, y
    <3> QED BY <1>5, <2>0, <2>1, <2>2, <2>5, <3>1, <3>2
  <2> QED BY <2>6, <2>7
<1> QED BY <1>5, <1>6, <1>8, <1>9 DEF Ring, r, d, e

\* There is room for a ring's elements, and its set has as many as its length.
LEMMA RingSize ==
  ASSUME NEW c \in Seq(Nodes), \A i, j \in 1 .. Len(c) : c[i] = c[j] => i = j
  PROVE  /\ Cardinality(Nodes) \in Nat /\ Len(c) <= Cardinality(Nodes)
         /\ Cardinality(ToSet(c)) = Len(c)
<1> DEFINE L == Len(c)
<1>1. L \in Nat /\ c \in [1 .. L -> Nodes] /\ DOMAIN c = 1 .. L
  OBVIOUS
<1>2. ToSet(c) = {c[i] : i \in 1 .. L}
  BY <1>1 DEF ToSet
<1>3. c \in Injection(1 .. L, Nodes) /\ c \in Bijection(1 .. L, ToSet(c))
  BY <1>1, <1>2 DEF Injection, Bijection, Surjection, IsInjective
<1>4. IsFiniteSet(1 .. L) /\ Cardinality(1 .. L) = L
  BY <1>1, FS_Interval
<1>5. Cardinality(Nodes) \in Nat /\ L <= Cardinality(Nodes)
  BY <1>3, <1>4, FS_Injection, FS_CardinalityType, KlistAssumption
<1>6. Cardinality(ToSet(c)) = L
  BY <1>3, <1>4, FS_Bijection DEF ExistsBijection
<1> QED BY <1>5, <1>6

\* list_for_each meets the elements of the ring, in order.
LEMMA ChainFound ==
  ASSUME NEW m, NEW c, Ring(m, c)
  PROVE  Chain(m) = c
<1> DEFINE N == Cardinality(Nodes)
           L == Len(c)
           step(f) == [k \in 0 .. N |-> IF k = 0 THEN m.next[HEAD]
                                        ELSE IF f[k-1] \in Nodes THEN m.next[f[k-1]] ELSE HEAD]
           at == CHOOSE f : f = step(f)
           way == [k \in 0 .. N |-> Entry(c, k + 1)]
           met == {k \in DOMAIN at : at[k] \in Nodes}
<1>1. /\ c \in Seq(Nodes) /\ L \in Nat /\ N \in Nat /\ L <= N
      /\ \A i \in 1 .. L : Entry(c, i) = c[i] /\ c[i] \in Nodes
      /\ Entry(c, 0) = HEAD
  BY Distinct, RingSize DEF Ring
<1>2. \A i \in 0 .. L : m.next[Entry(c, i)] = Entry(c, i+1)
  BY DEF Ring
<1>3. \A i \in Nat \ 1 .. L : Entry(c, i) = HEAD /\ HEAD \notin Nodes
  BY KlistAssumption DEF Entry
<1> HIDE DEF N, L
<1>4. ASSUME NEW k \in 0 .. N PROVE way[k] = step(way)[k]
  <2>1. CASE k = 0
    BY <1>1, <1>2, <2>1
  <2>2. CASE k # 0 /\ k <= L
    <3>0. k \in 1 .. L /\ k - 1 \in 0 .. N /\ (k - 1) + 1 = k
      BY <1>1, <2>2
    <3>1. way[k-1] = Entry(c, k) /\ way[k] = Entry(c, k+1)
      BY <3>0
    <3>3. Entry(c, k) \in Nodes
      BY <1>1, <3>0
    <3>2. m.next[Entry(c, k)] = Entry(c, k+1)
      BY <1>1, <1>2, <2>2
    <3> QED BY <3>0, <3>1, <3>2, <3>3
  <2>3. CASE k > L
    <3>1. way[k-1] = Entry(c, k) /\ way[k] = Entry(c, k+1) /\ k # 0
      BY <1>1, <2>3
    <3>2. Entry(c, k) = HEAD /\ Entry(c, k+1) = HEAD /\ HEAD \notin Nodes
      BY <1>1, <1>3, <2>3
    <3> QED BY <3>1, <3>2
  <2> QED BY <1>1, <2>1, <2>2, <2>3
<1>5. way = step(way)
  BY <1>4
<1>6. at = step(at)
  <2> HIDE DEF way, step
  <2> QED BY <1>5
<1>7. ASSUME NEW k \in 0 .. N PROVE at[k] = way[k]
  <2> DEFINE S == {j \in Nat : j \in 0 .. N => at[j] = way[j]}
  <2> HIDE DEF at, way
  <2>1. 0 \in S
    BY <1>1, <1>5, <1>6
  <2>2. ASSUME NEW j \in Nat, j \in S PROVE j + 1 \in S
    <3> SUFFICES ASSUME j + 1 \in 0 .. N PROVE at[j+1] = way[j+1]
      OBVIOUS
    <3>0. j \in 0 .. N /\ j + 1 # 0 /\ (j + 1) - 1 = j
      BY <1>1
    <3>1. at[j] = way[j]
      BY <2>2, <3>0
    <3>2. at[j+1] = step(at)[j+1] /\ way[j+1] = step(way)[j+1]
      BY <1>5, <1>6
    <3> QED BY <3>0, <3>1, <3>2
  <2>3. Nat \subseteq S
    <3> HIDE DEF S
    <3> QED BY <2>1, <2>2, Induction
  <2> QED BY <1>1, <2>3
<1>8. DOMAIN at = 0 .. N
  <2>1. DOMAIN step(at) = 0 .. N
    <3> HIDE DEF at
    <3> QED OBVIOUS
  <2> HIDE DEF step, at
  <2> QED BY <1>6, <2>1
<1>9. met = 0 .. L - 1
  <2> HIDE DEF at
  <2>1. \A k \in 0 .. N : at[k] = Entry(c, k + 1)
    BY <1>7
  <2>2. \A k \in 0 .. N : Entry(c, k + 1) \in Nodes <=> k + 1 <= L
    BY <1>1, <1>3
  <2> QED BY <1>1, <1>8, <2>1, <2>2
<1>10. Cardinality(met) = L
  <2> HIDE DEF met
  <2> QED BY <1>1, <1>9, FS_Interval
<1>11. Chain(m) = [i \in 1 .. Cardinality(met) |-> at[i-1]]
  BY Zenon DEF Chain, N
<1>12. \A i \in 1 .. L : at[i-1] = c[i]
  <2> HIDE DEF at
  <2> QED BY <1>1, <1>7
<1>13. c = [i \in 1 .. L |-> c[i]]
  BY <1>1 DEF L
<1> HIDE DEF at, met
<1> QED BY <1>10, <1>11, <1>12, <1>13
-----------------------------------------------------------------------------
(* The inductive invariant.                                                *)

\* What the list is once the call in its critical section, if there is one,
\* has made the writes it has begun.
Settled == IF sp \in Procs THEN Done(mem, stores[sp]) ELSE mem
Elements == Chain(Settled)
Content == Items(Settled)

\* Types of what TypeOK leaves out.
Typed ==
  /\ version \in Unlocked \cup {"none", "Pr3"}
  /\ cmd \in [Procs -> Commands \cup {None}]
  /\ stores \in [Procs -> Seq([field : {"next", "prev"}, entry : Entries, pointer : Pointers])]

\* sp is held in the critical sections and nowhere else.
Locked == \A p \in Procs : pc[p] \in {"store", "visit", "free", "unlock"} <=> sp = p

\* Which command can be where.
Calls == \A p \in Procs :
  /\ pc[p] = "idle" => cmd[p] = None
  /\ pc[p] # "idle" => cmd[p] \in Commands /\ version = "Pr3"
  /\ cmd[p].op = "add" => pc[p] \in {"lock", "store", "unlock"}
  /\ pc[p] = "unlock" => cmd[p].op = "add"
  /\ pc[p] \in {"store", "free"} => cmd[p].op # "read"
  /\ IF pc[p] = "store" THEN Len(stores[p]) \in 1..4 ELSE stores[p] = <<>>
  /\ out[p] # <<>> => pc[p] = "visit" /\ cmd[p].op = "read"

\* Elements that are allocated but not linked, or no longer, belong to a call.
Adding(p) == cmd[p].op = "add" /\ pc[p] = "lock"
Leaving(p) == cmd[p].op # "add" /\ pc[p] \in {"store", "free"}
Owner(p) == Adding(p) \/ Leaving(p)
Ownership ==
  /\ \A p \in Procs : Owner(p) => pos[p] \in Nodes \ ToSet(Elements)
  /\ \A p, q \in Procs : Owner(p) /\ Owner(q) /\ pos[p] = pos[q] => p = q
  /\ \A p \in Procs : Adding(p) => data[pos[p]] = cmd[p].arg
  /\ live = ToSet(Elements) \cup {pos[p] : p \in {q \in Procs : Owner(q)}}
  /\ version = "none" => live = {}

Linked ==
  /\ Ring(Settled, Elements)
  /\ \A i \in 1 .. Len(Elements) : data[Elements[i]] \in Values

\* What a loop that removes x keeps of the first k values of s.
Keep(s, x) ==
  LET kept[k \in 0 .. Len(s)] == IF k = 0 THEN <<>>
                                 ELSE IF s[k] = x THEN kept[k-1]
                                 ELSE Append(kept[k-1], s[k])
  IN  kept

\* v is what the first k values of s have become, and then the others.
Partly(v, s, kept, k) ==
  /\ Len(v) = Len(kept) + Len(s) - k
  /\ \A i \in 1 .. Len(kept) : v[i] = kept[i]
  /\ \A i \in Len(kept) + 1 .. Len(v) : v[i] = s[i - Len(kept) + k]

\* How far the loop of p has come after k of the elements it found; it stands
\* on the one before the (at)th, or has just taken it out.
LoopAt(p, k, kept) ==
  LET at == Len(kept) + 1 IN
  /\ Partly(Content, before, kept, k)
  /\ IF pc[p] = "visit"
     THEN /\ pos[p] = Entry(Elements, at)
          /\ pos[p] # HEAD => n[p] = Entry(Elements, at + 1)
     ELSE n[p] = Entry(Elements, at)

\* What the call in the critical section has done, by its command.
InAdd(p) == cmd[p].op = "add" => Content = Append(before, cmd[p].arg)
InRead(p) == cmd[p].op = "read" =>
  /\ Content = before
  /\ \E i \in 1 .. Len(before) + 1 : /\ pos[p] = Entry(Elements, i)
                                     /\ out[p] = SubSeq(before, 1, i - 1)
InRemove(p) == cmd[p].op = "remove" =>
  \E k \in 0 .. Len(before) : LoopAt(p, k, Keep(before, cmd[p].arg)[k])
InCleanup(p) == cmd[p].op = "cleanup" => \E k \in 0 .. Len(before) : LoopAt(p, k, <<>>)

Progress == \A p \in Procs : sp = p => InAdd(p) /\ InRead(p) /\ InRemove(p) /\ InCleanup(p)

IInv == TypeOK /\ Typed /\ Locked /\ Calls /\ Ownership /\ Linked /\ Progress
-----------------------------------------------------------------------------
(* Sequences of values.                                                    *)

\* One step of the loop that removes x, as an equation of Keep.
LEMMA KeepSteps ==
  ASSUME NEW V, NEW s \in Seq(V), NEW x
  PROVE  /\ Keep(s, x)[0] = <<>>
         /\ \A k \in 1 .. Len(s) :
              Keep(s, x)[k] = IF s[k] = x THEN Keep(s, x)[k-1]
                              ELSE Append(Keep(s, x)[k-1], s[k])
         /\ \A k \in 0 .. Len(s) : Keep(s, x)[k] \in Seq(V)
<1> DEFINE N == Len(s)
           M == Seq(V)
           more(t, k) == IF s[k] = x THEN t ELSE Append(t, s[k])
           G == [k \in 1 .. N |-> [t \in M |-> more(t, k)]]
           step(f) == [k \in 0 .. N |-> IF k = 0 THEN <<>> ELSE more(f[k-1], k)]
           K == CHOOSE f : f = step(f)
<1>1. N \in Nat /\ <<>> \in M
  OBVIOUS
<1>2. G \in [1 .. N -> [M -> M]]
  OBVIOUS
<1> HIDE DEF N, M
<1>3. PICK f : /\ f \in [0 .. N -> M] /\ f[0] = <<>>
              /\ \A k \in 1 .. N : f[k] = G[k][f[k-1]]
  <2> HIDE DEF G
  <2>1. \E f : Computes(f, M, <<>>, N, G)
    BY <1>1, <1>2, Recursion, Zenon
  <2> QED BY <2>1 DEF Computes
<1>4. f = step(f)
  <2>1. ASSUME NEW k \in 1 .. N PROVE f[k] = more(f[k-1], k)
    <3>1. f[k-1] \in M /\ f[k] = G[k][f[k-1]]
      BY <1>1, <1>3
    <3> QED BY <3>1
  <2> HIDE DEF more
  <2> QED BY <1>1, <1>3, <2>1
<1>5. K = step(K)
  <2> HIDE DEF step
  <2> QED BY <1>4
<1>6. Keep(s, x) = K
  BY Zenon DEF Keep, N
<1> HIDE DEF K
<1>7. K[0] = <<>> /\ \A k \in 1 .. N : K[k] = more(K[k-1], k)
  <2>1. \A k \in 0 .. N : K[k] = step(K)[k]
    <3> HIDE DEF step
    <3> QED BY <1>5
  <2> HIDE DEF more
  <2> QED BY <1>1, <2>1
<1>8. \A k \in 0 .. N : K[k] \in M
  <2> DEFINE T == {k \in Nat : k <= N => K[k] \in M}
  <2>1. 0 \in T
    BY <1>1, <1>7
  <2>2. ASSUME NEW k \in Nat, k \in T PROVE k + 1 \in T
    <3> SUFFICES ASSUME k + 1 <= N PROVE K[k+1] \in M
      OBVIOUS
    <3>1. k + 1 \in 1 .. N /\ (k + 1) - 1 = k /\ K[k] \in M
      BY <1>1, <2>2
    <3>2. K[k+1] = more(K[(k+1)-1], k+1)
      <4> HIDE DEF more
      <4> QED BY <1>7, <3>1
    <3>3. more(K[k], k+1) \in M
      BY <3>1 DEF M, N
    <3> QED BY <3>1, <3>2, <3>3
  <2>3. Nat \subseteq T
    <3> HIDE DEF T
    <3> QED BY <2>1, <2>2, Induction
  <2> QED BY <1>1, <2>3
<1> QED BY <1>6, <1>7, <1>8 DEF N, M

\* The first i values are the first i - 1 and one more.
LEMMA SubSeqNext ==
  ASSUME NEW V, NEW s \in Seq(V), NEW i \in 1 .. Len(s)
  PROVE  Append(SubSeq(s, 1, i - 1), s[i]) = SubSeq(s, 1, i)
<1> DEFINE a == SubSeq(s, 1, i - 1)
           b == Append(a, s[i])
           c == SubSeq(s, 1, i)
<1>1. Len(s) \in Nat /\ i \in Nat /\ 1 <= i /\ i <= Len(s) /\ s[i] \in V
  OBVIOUS
<1>2. a \in Seq(V) /\ Len(a) = i - 1 /\ \A j \in 1 .. i - 1 : a[j] = s[j]
  BY <1>1
<1>3. c \in Seq(V) /\ Len(c) = i /\ \A j \in 1 .. i : c[j] = s[j]
  BY <1>1
<1> HIDE DEF a, c
<1>4. b \in Seq(V) /\ Len(b) = i /\ b[i] = s[i] /\ \A j \in 1 .. i - 1 : b[j] = a[j]
  BY <1>1, <1>2
<1> HIDE DEF b
<1>5. b = [j \in 1 .. Len(b) |-> b[j]] /\ c = [j \in 1 .. Len(c) |-> c[j]]
  BY <1>3, <1>4
<1>6. \A j \in 1 .. i : b[j] = c[j]
  BY <1>1, <1>2, <1>3, <1>4
<1>7. b = c
  BY <1>3, <1>4, <1>5, <1>6
<1> QED BY <1>7 DEF a, b, c

\* Append adds one element to the set of those in a sequence.
LEMMA AppendSet ==
  ASSUME NEW V, NEW s \in Seq(V), NEW x \in V
  PROVE  ToSet(Append(s, x)) = ToSet(s) \cup {x}
<1>1. Len(s) \in Nat /\ DOMAIN s = 1 .. Len(s)
  OBVIOUS
<1> DEFINE t == Append(s, x)
<1>2. /\ DOMAIN t = 1 .. Len(s) + 1 /\ t[Len(s) + 1] = x
      /\ \A i \in 1 .. Len(s) : t[i] = s[i]
  BY <1>1
<1> HIDE DEF t
<1>3. \A i : i \in 1 .. Len(s) + 1 <=> i \in 1 .. Len(s) \/ i = Len(s) + 1
  BY <1>1
<1> QED BY <1>1, <1>2, <1>3 DEF ToSet, t

\* The loop stands on the next of the values it found ...
LEMMA PartlyNext ==
  ASSUME NEW V, NEW v \in Seq(V), NEW s \in Seq(V), NEW kept \in Seq(V),
         NEW k \in 0 .. Len(s), Partly(v, s, kept, k), Len(kept) + 1 <= Len(v)
  PROVE  /\ k + 1 \in 1 .. Len(s) /\ v[Len(kept) + 1] = s[k + 1] /\ s[k + 1] \in V
         /\ Len(Append(kept, s[k+1])) = Len(kept) + 1 /\ Append(kept, s[k+1]) \in Seq(V)
         /\ Partly(v, s, Append(kept, s[k+1]), k + 1)
<1>1. Len(v) \in Nat /\ Len(s) \in Nat /\ Len(kept) \in Nat /\ k \in Nat
  OBVIOUS
<1>2. /\ Len(v) = Len(kept) + Len(s) - k
      /\ \A i \in 1 .. Len(kept) : v[i] = kept[i]
      /\ \A i \in Len(kept) + 1 .. Len(v) : v[i] = s[i - Len(kept) + k]
  BY DEF Partly
<1>3. k + 1 \in 1 .. Len(s) /\ Len(kept) + 1 - Len(kept) + k = k + 1
  BY <1>1, <1>2
<1>4. v[Len(kept) + 1] = s[k + 1] /\ s[k + 1] \in V
  BY <1>1, <1>2, <1>3
<1> DEFINE more == Append(kept, s[k+1])
<1>5. /\ more \in Seq(V) /\ Len(more) = Len(kept) + 1 /\ more[Len(kept) + 1] = s[k+1]
      /\ \A i \in 1 .. Len(kept) : more[i] = kept[i]
  BY <1>1, <1>4
<1> HIDE DEF more
<1>6. Len(v) = Len(more) + Len(s) - (k + 1)
  BY <1>1, <1>2, <1>5
<1>7. \A i \in 1 .. Len(more) : v[i] = more[i]
  BY <1>1, <1>2, <1>4, <1>5
<1>8. \A i \in Len(more) + 1 .. Len(v) : v[i] = s[i - Len(more) + (k + 1)]
  <2> TAKE i \in Len(more) + 1 .. Len(v)
  <2>1. i \in Len(kept) + 1 .. Len(v) /\ i - Len(kept) + k = i - Len(more) + (k + 1)
    BY <1>1, <1>5
  <2> QED BY <1>2, <2>1
<1>9. Partly(v, s, more, k + 1)
  BY <1>6, <1>7, <1>8 DEF Partly
<1> QED BY <1>3, <1>4, <1>5, <1>9 DEF more

\* ... and may take it out.
LEMMA PartlyDrop ==
  ASSUME NEW V, NEW v \in Seq(V), NEW s \in Seq(V), NEW kept \in Seq(V),
         NEW k \in 0 .. Len(s), Partly(v, s, kept, k), Len(kept) + 1 <= Len(v)
  PROVE  Partly(Without(v, Len(kept) + 1), s, kept, k + 1)
<1>1. Len(v) \in Nat /\ Len(s) \in Nat /\ Len(kept) \in Nat /\ k \in Nat
  OBVIOUS
<1>2. /\ Len(v) = Len(kept) + Len(s) - k
      /\ \A i \in 1 .. Len(kept) : v[i] = kept[i]
      /\ \A i \in Len(kept) + 1 .. Len(v) : v[i] = s[i - Len(kept) + k]
  BY DEF Partly
<1> DEFINE w == Without(v, Len(kept) + 1)
<1>3. /\ Len(w) = Len(v) - 1
      /\ \A i \in 1 .. Len(v) - 1 : w[i] = IF i < Len(kept) + 1 THEN v[i] ELSE v[i+1]
  BY <1>1 DEF Without
<1> HIDE DEF w
<1>4. Len(w) = Len(kept) + Len(s) - (k + 1)
  BY <1>1, <1>2, <1>3
<1>5. \A i \in 1 .. Len(kept) : w[i] = kept[i]
  BY <1>1, <1>2, <1>3
<1>6. \A i \in Len(kept) + 1 .. Len(w) : w[i] = s[i - Len(kept) + (k + 1)]
  <2> TAKE i \in Len(kept) + 1 .. Len(w)
  <2>1. /\ i \in 1 .. Len(v) - 1 /\ ~(i < Len(kept) + 1) /\ i + 1 \in Len(kept) + 1 .. Len(v)
        /\ (i + 1) - Len(kept) + k = i - Len(kept) + (k + 1)
    BY <1>1, <1>3
  <2> QED BY <1>2, <1>3, <2>1, SMTT(40)
<1> QED BY <1>4, <1>5, <1>6 DEF Partly, w

\* At the end it has kept all that is left.
LEMMA PartlyDone ==
  ASSUME NEW V, NEW v \in Seq(V), NEW s \in Seq(V), NEW kept \in Seq(V),
         NEW k \in 0 .. Len(s), Partly(v, s, kept, k), Len(kept) + 1 > Len(v)
  PROVE  k = Len(s) /\ v = kept
<1>1. Len(v) \in Nat /\ Len(s) \in Nat /\ Len(kept) \in Nat /\ k \in Nat /\ k <= Len(s)
  OBVIOUS
<1>2. Len(v) = Len(kept) + Len(s) - k /\ \A i \in 1 .. Len(kept) : v[i] = kept[i]
  BY DEF Partly
<1>3. k = Len(s) /\ Len(v) = Len(kept)
  BY <1>1, <1>2
<1> QED BY <1>2, <1>3
-----------------------------------------------------------------------------
(* The loops that take elements out, and the sort, run all at once.        *)

\* list_init makes a ring of the head alone.
LEMMA EmptyRing == EmptyList \in Memory /\ Ring(EmptyList, <<>>)
<1> DEFINE f == [e \in Entries |-> IF e = HEAD THEN HEAD ELSE Poison]
<1>1. EmptyList = [next |-> f, prev |-> f]
  BY DEF EmptyList
<1>2. f \in [Entries -> Pointers] /\ f[HEAD] = HEAD
  BY DEF Entries, Pointers
<1> HIDE DEF f
<1>3. EmptyList.next = f /\ EmptyList.prev = f
  BY <1>1
<1>4. /\ Entry(<<>>, 0) = HEAD /\ Entry(<<>>, 1) = HEAD
      /\ \A i \in 0 .. Len(<<>>) : i = 0
      /\ <<>> \in Seq(Nodes) /\ 1 .. Len(<<>>) = {}
  BY DEF Entry
<1>5. EmptyList \in Memory
  BY <1>1, <1>2 DEF Memory
<1> QED BY <1>2, <1>3, <1>4, <1>5 DEF Ring

\* kept is how a loop over c that takes out the elements in gone goes on.
Sieve(kept, c, gone) ==
  /\ kept \in [0 .. Len(c) -> Seq(Nodes)] /\ kept[0] = <<>>
  /\ \A k \in 1 .. Len(c) :
       kept[k] = IF c[k] \in gone THEN kept[k-1] ELSE Append(kept[k-1], c[k])

\* There is such a loop.
LEMMA SieveExists ==
  ASSUME NEW c \in Seq(Nodes), NEW gone
  PROVE  \E kept : Sieve(kept, c, gone)
<1> DEFINE N == Len(c)
           M == Seq(Nodes)
           more(t, k) == IF c[k] \in gone THEN t ELSE Append(t, c[k])
           G == [k \in 1 .. N |-> [t \in M |-> more(t, k)]]
<1>1. N \in Nat /\ <<>> \in M
  OBVIOUS
<1>2. G \in [1 .. N -> [M -> M]]
  OBVIOUS
<1> HIDE DEF N, M
<1>3. PICK f : /\ f \in [0 .. N -> M] /\ f[0] = <<>>
              /\ \A k \in 1 .. N : f[k] = G[k][f[k-1]]
  <2> HIDE DEF G
  <2>1. \E f : Computes(f, M, <<>>, N, G)
    BY <1>1, <1>2, Recursion, Zenon
  <2> QED BY <2>1 DEF Computes
<1>4. ASSUME NEW k \in 1 .. N PROVE f[k] = more(f[k-1], k)
  <2>1. f[k-1] \in M /\ f[k] = G[k][f[k-1]]
    BY <1>1, <1>3
  <2> QED BY <2>1
<1> QED BY <1>3, <1>4 DEF Sieve, N, M

\* DelAll is such a loop.
LEMMA DelAllSieves ==
  ASSUME NEW m \in Memory, NEW c, Ring(m, c), NEW gone, NEW kept, Sieve(kept, c, gone)
  PROVE  DelAll(m, gone) \in Memory /\ Ring(DelAll(m, gone), kept[Len(c)])
<1> DEFINE N == Len(c)
           chain == Chain(m)
           more(t, k) == IF c[k] \in gone THEN Deleted(t, c[k]) ELSE t
           G == [k \in 1 .. N |-> [t \in Memory |-> more(t, k)]]
           step(f) == [k \in 0 .. N |-> IF k = 0 THEN m ELSE more(f[k-1], k)]
           after == CHOOSE f : f = step(f)
<1>1. c \in Seq(Nodes) /\ N \in Nat /\ \A i \in 1 .. N : c[i] \in Entries
  BY DEF Ring, Entries
<1>2. G \in [1 .. N -> [Memory -> Memory]]
  BY <1>1, OperationsTyped
<1> HIDE DEF N
<1>3. PICK f : /\ f \in [0 .. N -> Memory] /\ f[0] = m
              /\ \A k \in 1 .. N : f[k] = G[k][f[k-1]]
  <2> HIDE DEF G
  <2>1. \E f : Computes(f, Memory, m, N, G)
    BY <1>1, <1>2, Recursion, Zenon
  <2> QED BY <2>1 DEF Computes
<1>4. f = step(f)
  <2>1. ASSUME NEW k \in 1 .. N PROVE f[k] = more(f[k-1], k)
    <3>1. f[k-1] \in Memory /\ f[k] = G[k][f[k-1]]
      BY <1>1, <1>3
    <3> QED BY <3>1
  <2> HIDE DEF more
  <2> QED BY <1>1, <1>3, <2>1
<1>5. after = step(after)
  <2> HIDE DEF step
  <2> QED BY <1>4
<1>6. DelAll(m, gone) = after[N]
  <2>1. Chain(m) = c
    BY ChainFound
  <2> QED BY <2>1, Zenon DEF DelAll, N
<1> HIDE DEF after
<1>7. after[0] = m /\ \A k \in 1 .. N : after[k] = more(after[k-1], k)
  <2>1. \A k \in 0 .. N : after[k] = step(after)[k]
    <3> HIDE DEF step
    <3> QED BY <1>5
  <2> HIDE DEF more
  <2> QED BY <1>1, <2>1
<1>8. /\ kept \in [0 .. N -> Seq(Nodes)] /\ kept[0] = <<>>
      /\ \A k \in 1 .. N :
           kept[k] = IF c[k] \in gone THEN kept[k-1] ELSE Append(kept[k-1], c[k])
  BY DEF Sieve, N
<1> DEFINE Upto(k) == /\ after[k] \in Memory
                      /\ \E d : Ring(after[k], d) /\ Partly(d, c, kept[k], k)
           T == {k \in Nat : k <= N => Upto(k)}
<1>9. 0 \in T
  <2>1. Partly(c, c, <<>>, 0)
    BY <1>1 DEF Partly
  <2> QED BY <1>7, <1>8, <2>1
<1>10. ASSUME NEW k \in Nat, k \in T PROVE k + 1 \in T
  <2> SUFFICES ASSUME k + 1 <= N PROVE Upto(k + 1)
    OBVIOUS
  <2>1. k + 1 \in 1 .. N /\ (k + 1) - 1 = k /\ k \in 0 .. N
    BY <1>1
  <2>2. PICK d : after[k] \in Memory /\ Ring(after[k], d) /\ Partly(d, c, kept[k], k)
    BY <1>10, <2>1
  <2>3. /\ kept[k] \in Seq(Nodes) /\ d \in Seq(Nodes) /\ Len(d) \in Nat /\ Len(kept[k]) \in Nat
        /\ Len(kept[k]) + 1 <= Len(d)
    <3>1. kept[k] \in Seq(Nodes) /\ d \in Seq(Nodes) /\ Len(d) = Len(kept[k]) + N - k
      BY <1>8, <2>1, <2>2 DEF Partly, Ring, N
    <3> QED BY <1>1, <2>1, <3>1
  <2>4. /\ d[Len(kept[k]) + 1] = c[k+1]
        /\ Partly(d, c, Append(kept[k], c[k+1]), k + 1)
        /\ Partly(Without(d, Len(kept[k]) + 1), c, kept[k], k + 1)
    <3>1. k \in 0 .. Len(c)
      BY <2>1 DEF N
    <3>2. d[Len(kept[k]) + 1] = c[k+1] /\ Partly(d, c, Append(kept[k], c[k+1]), k + 1)
      BY <1>1, <2>2, <2>3, <3>1, PartlyNext
    <3>3. Partly(Without(d, Len(kept[k]) + 1), c, kept[k], k + 1)
      BY <1>1, <2>2, <2>3, <3>1, PartlyDrop
    <3> QED BY <3>2, <3>3
  <2>5. after[k+1] = more(after[k], k + 1)
    <3> HIDE DEF more
    <3> QED BY <1>7, <2>1
  <2>6. kept[k+1] = IF c[k+1] \in gone THEN kept[k] ELSE Append(kept[k], c[k+1])
    BY <1>8, <2>1
  <2>7. CASE c[k+1] \in gone
    <3>1. after[k+1] = Deleted(after[k], d[Len(kept[k]) + 1])
      BY <2>4, <2>5, <2>7
    <3>2. Len(kept[k]) + 1 \in 1 .. Len(d)
      BY <2>3
    <3>3. after[k+1] \in Memory /\ Ring(after[k+1], Without(d, Len(kept[k]) + 1))
      BY <2>2, <3>1, <3>2, Delete
    <3> QED BY <2>4, <2>6, <2>7, <3>3
  <2>8. CASE c[k+1] \notin gone
    BY <2>2, <2>4, <2>5, <2>6, <2>8
  <2> QED BY <2>7, <2>8
<1>11. Upto(N)
  <2> HIDE DEF Upto
  <2>1. Nat \subseteq T
    <3> HIDE DEF T
    <3> QED BY <1>9, <1>10, Induction
  <2> QED BY <1>1, <2>1
<1>12. PICK d : Ring(after[N], d) /\ Partly(d, c, kept[N], N)
  BY <1>11
<1>13. d = kept[N]
  <2>1. d \in Seq(Nodes) /\ kept[N] \in Seq(Nodes) /\ N \in 0 .. N
    BY <1>1, <1>8, <1>12 DEF Ring
  <2>2. Len(d) = Len(kept[N]) + N - N /\ Len(d) \in Nat /\ Len(kept[N]) \in Nat
    BY <1>12, <2>1 DEF Partly, N
  <2>3. Len(kept[N]) + 1 > Len(d)
    BY <1>1, <2>2
  <2> QED BY <1>1, <1>12, <2>1, <2>3, PartlyDone DEF N
<1> QED BY <1>6, <1>11, <1>12, <1>13 DEF N

\* The elements left are those of c that are not gone.
LEMMA SieveElements ==
  ASSUME NEW c \in Seq(Nodes), NEW gone, NEW kept, Sieve(kept, c, gone)
  PROVE  /\ kept[Len(c)] \in Seq(Nodes)
         /\ ToSet(kept[Len(c)]) = ToSet(c) \ gone
         /\ ToSet(c) \subseteq gone => kept[Len(c)] = <<>>
<1> DEFINE N == Len(c)
           Left(k) == {c[i] : i \in {j \in 1 .. k : c[j] \notin gone}}
           T == {k \in Nat : k <= N => ToSet(kept[k]) = Left(k)}
<1>1. N \in Nat /\ ToSet(c) = {c[i] : i \in 1 .. N}
  BY DEF ToSet
<1>2. /\ kept \in [0 .. N -> Seq(Nodes)] /\ kept[0] = <<>>
      /\ \A k \in 1 .. N :
           kept[k] = IF c[k] \in gone THEN kept[k-1] ELSE Append(kept[k-1], c[k])
  BY DEF Sieve
<1> HIDE DEF N
<1>3. 0 \in T
  BY <1>2 DEF ToSet
<1>4. ASSUME NEW k \in Nat, k \in T PROVE k + 1 \in T
  <2> SUFFICES ASSUME k + 1 <= N PROVE ToSet(kept[k+1]) = Left(k+1)
    OBVIOUS
  <2>1. /\ k + 1 \in 1 .. N /\ (k + 1) - 1 = k /\ kept[k] \in Seq(Nodes)
        /\ ToSet(kept[k]) = Left(k)
    BY <1>1, <1>2, <1>4
  <2>2. kept[k+1] = IF c[k+1] \in gone THEN kept[k] ELSE Append(kept[k], c[k+1])
    BY <1>2, <2>1
  <2>3. \A j : j \in 1 .. k + 1 <=> j \in 1 .. k \/ j = k + 1
    BY <2>1
  <2>4. CASE c[k+1] \in gone
    <3>1. Left(k+1) = Left(k)
      BY <2>3, <2>4
    <3> QED BY <2>1, <2>2, <2>4, <3>1
  <2>5. CASE c[k+1] \notin gone
    <3>1. Left(k+1) = Left(k) \cup {c[k+1]}
      BY <2>3, <2>5
    <3>2. c[k+1] \in Nodes
      BY <2>1 DEF N
    <3>3. ToSet(Append(kept[k], c[k+1])) = ToSet(kept[k]) \cup {c[k+1]}
      BY <2>1, <3>2, AppendSet
    <3> QED BY <2>1, <2>2, <2>5, <3>1, <3>3
  <2> QED BY <2>4, <2>5
<1>5. N \in T
  <2> HIDE DEF T
  <2> QED BY <1>1, <1>3, <1>4, Induction
<1>6. kept[N] \in Seq(Nodes) /\ ToSet(kept[N]) = Left(N)
  BY <1>1, <1>2, <1>5
<1>7. Left(N) = ToSet(c) \ gone
  BY <1>1
<1>8. ToSet(kept[N]) = {} => kept[N] = <<>>
  <2> DEFINE t == kept[N]
  <2>1. t \in Seq(Nodes) /\ Len(t) \in Nat /\ \A i \in 1 .. Len(t) : t[i] \in ToSet(t)
    BY <1>6 DEF ToSet
  <2> HIDE DEF t
  <2>2. ToSet(t) = {} => Len(t) = 0
    BY <2>1
  <2>3. ToSet(t) = {} => t = <<>>
    BY <2>1, <2>2
  <2> QED BY <2>3 DEF t
<1> QED BY <1>6, <1>7, <1>8 DEF N

\* A loop that takes the elements with the value x out of c, whose values are s.
ValueSieve(kept, c, gone, s, x) ==
  /\ Sieve(kept, c, gone) /\ c \in Seq(Nodes) /\ s \in Seq(Values) /\ Len(s) = Len(c)
  /\ \A i \in 1 .. Len(c) : s[i] = data[c[i]] /\ (c[i] \in gone <=> data[c[i]] = x)

\* The values of what is left are what Keep keeps of s.
LEMMA SieveValues ==
  ASSUME NEW c, NEW x, NEW kept, NEW s, NEW gone, ValueSieve(kept, c, gone, s, x)
  PROVE  LET d == kept[Len(c)]
             v == Keep(s, x)[Len(s)]
         IN  v \in Seq(Values) /\ Len(v) = Len(d) /\ \A i \in 1 .. Len(d) : v[i] = data[d[i]]
<1> DEFINE N == Len(c)
           K == Keep(s, x)
           T == {k \in Nat : k <= N => [i \in 1 .. Len(kept[k]) |-> data[kept[k][i]]] = K[k]}
<1>1. /\ N \in Nat /\ \A i \in 1 .. N : c[i] \in ToSet(c) /\ c[i] \in Nodes
      /\ Len(s) = N /\ \A i \in 1 .. N : data[c[i]] \in Values
      /\ s \in Seq(Values)
  <2>1. /\ c \in Seq(Nodes) /\ s \in Seq(Values) /\ Len(s) = Len(c)
        /\ \A i \in 1 .. Len(c) : s[i] = data[c[i]]
    BY DEF ValueSieve
  <2> QED BY <2>1 DEF ToSet
<1>2. /\ kept \in [0 .. N -> Seq(Nodes)] /\ kept[0] = <<>>
      /\ \A k \in 1 .. N :
           kept[k] = IF c[k] \in gone THEN kept[k-1] ELSE Append(kept[k-1], c[k])
  BY DEF ValueSieve, Sieve
<1>3. \A k \in 1 .. N : s[k] = data[c[k]] /\ (c[k] \in gone <=> s[k] = x)
  BY DEF ValueSieve
<1> HIDE DEF N
<1>4. /\ K[0] = <<>>
      /\ \A k \in 1 .. N : K[k] = IF s[k] = x THEN K[k-1] ELSE Append(K[k-1], s[k])
      /\ \A k \in 0 .. N : K[k] \in Seq(Values)
  <2> DEFINE L == Len(s)
  <2>1. /\ K[0] = <<>>
        /\ \A k \in 1 .. L : K[k] = IF s[k] = x THEN K[k-1] ELSE Append(K[k-1], s[k])
        /\ \A k \in 0 .. L : K[k] \in Seq(Values)
    BY <1>1, KeepSteps
  <2> QED BY <1>1, <2>1
<1> HIDE DEF K
<1>5. 0 \in T
  <2>1. [i \in 1 .. Len(<<>>) |-> data[(<<>>)[i]]] = <<>>
    OBVIOUS
  <2> QED BY <1>2, <1>4, <2>1
<1>6. ASSUME NEW k \in Nat, k \in T PROVE k + 1 \in T
  <2> SUFFICES ASSUME k + 1 <= N
               PROVE  [i \in 1 .. Len(kept[k+1]) |-> data[kept[k+1][i]]] = K[k+1]
    OBVIOUS
  <2>1. /\ k + 1 \in 1 .. N /\ (k + 1) - 1 = k /\ kept[k] \in Seq(Nodes)
        /\ [i \in 1 .. Len(kept[k]) |-> data[kept[k][i]]] = K[k]
    BY <1>1, <1>2, <1>6
  <2>2. /\ kept[k+1] = IF s[k+1] = x THEN kept[k] ELSE Append(kept[k], c[k+1])
        /\ K[k+1] = IF s[k+1] = x THEN K[k] ELSE Append(K[k], s[k+1])
    <3>1. c[k+1] \in gone <=> s[k+1] = x
      BY <1>1, <1>3, <2>1
    <3>2. kept[k+1] = IF s[k+1] = x THEN kept[k] ELSE Append(kept[k], c[k+1])
      BY <1>2, <2>1, <3>1
    <3>3. K[k+1] = IF s[k+1] = x THEN K[k] ELSE Append(K[k], s[k+1])
      BY <1>4, <2>1
    <3> QED BY <3>2, <3>3
  <2>3. CASE s[k+1] = x
    BY <2>1, <2>2, <2>3
  <2>4. CASE s[k+1] # x
    <3> DEFINE a == kept[k]
               b == Append(a, c[k+1])
    <3>1. /\ Len(a) \in Nat /\ Len(b) = Len(a) + 1 /\ b[Len(a) + 1] = c[k+1]
          /\ \A i \in 1 .. Len(a) : b[i] = a[i]
      BY <1>1, <2>1
    <3>2. K[k] \in Seq(Values) /\ Len(K[k]) = Len(a) /\ s[k+1] \in Values
          /\ \A i \in 1 .. Len(a) : K[k][i] = data[a[i]]
      BY <1>1, <1>4, <2>1, <3>1
    <3> HIDE DEF a, b
    <3> DEFINE u == Append(K[k], s[k+1])
               v == [i \in 1 .. Len(b) |-> data[b[i]]]
    <3>3. /\ u \in Seq(Values) /\ Len(u) = Len(a) + 1 /\ u[Len(a) + 1] = s[k+1]
          /\ \A i \in 1 .. Len(a) : u[i] = K[k][i]
      BY <3>1, <3>2
    <3>4. u = [i \in 1 .. Len(u) |-> u[i]]
      BY <3>3
    <3>5. \A i \in 1 .. Len(b) : u[i] = data[b[i]]
      <4> HIDE DEF u
      <4> QED BY <1>3, <2>1, <3>1, <3>2, <3>3
    <3>6. u = v
      <4> HIDE DEF u
      <4> QED BY <3>1, <3>3, <3>4, <3>5
    <3> QED BY <2>2, <2>4, <3>6 DEF a, b
  <2> QED BY <2>3, <2>4
<1>7. N \in T
  <2> HIDE DEF T
  <2> QED BY <1>1, <1>5, <1>6, Induction
<1> DEFINE d == kept[N]
           v == K[N]
<1>8. v \in Seq(Values) /\ d \in Seq(Nodes) /\ [i \in 1 .. Len(d) |-> data[d[i]]] = v
  BY <1>1, <1>2, <1>4, <1>7
<1> HIDE DEF d, v
<1>9. Len(v) = Len(d) /\ \A i \in 1 .. Len(d) : v[i] = data[d[i]]
  BY <1>8
<1>10. d = kept[Len(c)] /\ v = Keep(s, x)[Len(s)]
  BY <1>1, Zenon DEF d, v, N, K
<1> QED BY <1>8, <1>9, <1>10

\* list_sort links the elements it is given in the order it is given.
LEMMA RelinkedRing ==
  ASSUME NEW m \in Memory, NEW seq \in Seq(Nodes),
         \A i, j \in 1 .. Len(seq) : seq[i] = seq[j] => i = j
  PROVE  Relinked(m, seq) \in Memory /\ Ring(Relinked(m, seq), seq)
<1> DEFINE N == Len(seq)
           base == [m EXCEPT !.next[HEAD] = HEAD, !.prev[HEAD] = HEAD]
           more(t, k) == PutAll(t, ListAddTail(t, seq[k]))
           G == [k \in 1 .. N |-> [t \in Memory |-> more(t, k)]]
           step(f) == [k \in 0 .. N |-> IF k = 0 THEN base ELSE more(f[k-1], k)]
           after == CHOOSE f : f = step(f)
           prefix(k) == [i \in 1 .. k |-> seq[i]]
<1>1. N \in Nat /\ \A i \in 1 .. N : seq[i] \in Entries /\ seq[i] \in Nodes
  BY DEF Entries
<1>2. G \in [1 .. N -> [Memory -> Memory]]
  BY <1>1, OperationsTyped
<1>3. base \in Memory /\ Ring(base, <<>>)
  <2> DEFINE f == [m.next EXCEPT ![HEAD] = HEAD]
             g == [m.prev EXCEPT ![HEAD] = HEAD]
  <2>1. base = [[m EXCEPT !.next = f] EXCEPT !.prev = g]
    BY DEF Memory
  <2>2. /\ f \in [Entries -> Pointers] /\ g \in [Entries -> Pointers]
        /\ f[HEAD] = HEAD /\ g[HEAD] = HEAD
    BY DEF Memory, Entries, Pointers
  <2> HIDE DEF f, g, base
  <2>3. base \in Memory /\ base.next = f /\ base.prev = g
    BY <2>1, <2>2 DEF Memory
  <2>4. /\ Entry(<<>>, 0) = HEAD /\ Entry(<<>>, 1) = HEAD
        /\ \A i \in 0 .. Len(<<>>) : i = 0
        /\ <<>> \in Seq(Nodes) /\ 1 .. Len(<<>>) = {}
    BY DEF Entry
  <2> QED BY <2>2, <2>3, <2>4 DEF Ring
<1> HIDE DEF N, base
<1>4. PICK f : /\ f \in [0 .. N -> Memory] /\ f[0] = base
              /\ \A k \in 1 .. N : f[k] = G[k][f[k-1]]
  <2> HIDE DEF G
  <2>1. \E f : Computes(f, Memory, base, N, G)
    BY <1>1, <1>2, <1>3, Recursion, Zenon
  <2> QED BY <2>1 DEF Computes
<1>5. f = step(f)
  <2>1. ASSUME NEW k \in 1 .. N PROVE f[k] = more(f[k-1], k)
    <3>1. f[k-1] \in Memory /\ f[k] = G[k][f[k-1]]
      BY <1>1, <1>4
    <3> QED BY <3>1
  <2> HIDE DEF more
  <2> QED BY <1>1, <1>4, <2>1
<1>6. after = step(after)
  <2> HIDE DEF step
  <2> QED BY <1>5
<1>7. Relinked(m, seq) = after[N]
  BY Zenon DEF Relinked, N, base
<1> HIDE DEF after
<1>8. after[0] = base /\ \A k \in 1 .. N : after[k] = more(after[k-1], k)
  <2>1. \A k \in 0 .. N : after[k] = step(after)[k]
    <3> HIDE DEF step
    <3> QED BY <1>6
  <2> HIDE DEF more
  <2> QED BY <1>1, <2>1
<1> DEFINE Upto(k) == after[k] \in Memory /\ Ring(after[k], prefix(k))
           T == {k \in Nat : k <= N => Upto(k)}
<1>9. 0 \in T
  <2>1. prefix(0) = <<>>
    OBVIOUS
  <2> QED BY <1>3, <1>8, <2>1
<1>10. ASSUME NEW k \in Nat, k \in T PROVE k + 1 \in T
  <2> SUFFICES ASSUME k + 1 <= N PROVE Upto(k + 1)
    OBVIOUS
  <2>1. /\ k + 1 \in 1 .. N /\ (k + 1) - 1 = k
        /\ after[k] \in Memory /\ Ring(after[k], prefix(k)) /\ seq[k+1] \in Nodes
    BY <1>1, <1>10
  <2>2. after[k+1] = more(after[k], k + 1)
    <3> HIDE DEF more
    <3> QED BY <1>8, <2>1
  <2>3. /\ Len(prefix(k)) = k /\ prefix(k) \in Seq(Nodes)
        /\ \A i \in 1 .. Len(prefix(k)) : prefix(k)[i] # seq[k+1]
    BY <1>1, <2>1 DEF N
  <2>4. prefix(k+1) = Append(prefix(k), seq[k+1])
    <3> DEFINE u == Append(prefix(k), seq[k+1])
    <3>1. /\ u \in Seq(Nodes) /\ Len(u) = k + 1 /\ u[k+1] = seq[k+1]
          /\ \A i \in 1 .. k : u[i] = prefix(k)[i]
      <4> HIDE DEF prefix
      <4> QED BY <2>1, <2>3
    <3>2. \A i \in 1 .. k + 1 : u[i] = seq[i]
      <4> HIDE DEF u
      <4> QED BY <3>1
    <3>3. u = [i \in 1 .. Len(u) |-> u[i]]
      <4> HIDE DEF u
      <4> QED BY <3>1
    <3> HIDE DEF u
    <3>4. u = prefix(k+1)
      BY <3>1, <3>2, <3>3
    <3> QED BY <3>4 DEF u
  <2> DEFINE r == PutAll(after[k], ListAddTail(after[k], seq[k+1]))
  <2>5. r \in Memory /\ Ring(r, Append(prefix(k), seq[k+1]))
    <3> HIDE DEF prefix
    <3> QED BY <2>1, <2>3, AddTail
  <2>6. after[k+1] = r
    BY <2>2
  <2> HIDE DEF prefix, r
  <2> QED BY <2>4, <2>5, <2>6
<1>11. Upto(N)
  <2> HIDE DEF Upto
  <2>1. Nat \subseteq T
    <3> HIDE DEF T
    <3> QED BY <1>9, <1>10, Induction
  <2> QED BY <1>1, <2>1
<1>12. prefix(N) = seq
  BY <1>1 DEF N
<1> QED BY <1>7, <1>11, <1>12
-----------------------------------------------------------------------------
(* The steps of the calls.                                                 *)

\* The items of a ring are the values in its elements.
LEMMA ItemsFound ==
  ASSUME NEW m, NEW c, Ring(m, c)
  PROVE  /\ Items(m) = [i \in 1 .. Len(c) |-> data[c[i]]]
         /\ c \in Seq(Nodes) /\ Len(c) \in Nat /\ Len(Items(m)) = Len(c)
         /\ \A i \in 1 .. Len(c) : Items(m)[i] = data[c[i]] /\ c[i] \in Nodes /\ c[i] \in ToSet(c)
         /\ \A e \in ToSet(c) : \E i \in 1 .. Len(c) : e = c[i]
         /\ \A V : (\A i \in 1 .. Len(c) : data[c[i]] \in V) => Items(m) \in Seq(V)
<1>1. Chain(m) = c
  BY ChainFound
<1>2. Items(m) = [i \in 1 .. Len(c) |-> data[c[i]]]
  BY <1>1 DEF Items
<1>3. c \in Seq(Nodes) /\ Len(c) \in Nat /\ DOMAIN c = 1 .. Len(c)
  BY DEF Ring
<1> QED BY <1>2, <1>3 DEF ToSet

\* Where a traversal of a ring comes by.
LEMMA Walk ==
  ASSUME NEW m, NEW c, Ring(m, c)
  PROVE  /\ m.next[HEAD] = Entry(c, 1)
         /\ \A i \in 1 .. Len(c) + 1 :
              /\ Entry(c, i) \in ToSet(c) \cup {HEAD} /\ Entry(c, i) \in Entries
              /\ m.next[Entry(c, i)] \in Entries
              /\ Entry(c, i) # HEAD <=> i <= Len(c)
              /\ i <= Len(c) => Entry(c, i) = c[i] /\ m.next[Entry(c, i)] = Entry(c, i+1)
<1>1. /\ c \in Seq(Nodes) /\ Len(c) \in Nat
      /\ \A i \in Int : Entry(c, i) \in Entries
      /\ \A i \in 1 .. Len(c) : Entry(c, i) = c[i] /\ c[i] \in Nodes /\ c[i] \in ToSet(c)
      /\ Entry(c, 0) = HEAD /\ Entry(c, Len(c) + 1) = HEAD
  BY Distinct DEF Ring, ToSet
<1>2. \A i \in 0 .. Len(c) : m.next[Entry(c, i)] = Entry(c, i+1)
  BY DEF Ring
<1>3. m.next[HEAD] = Entry(c, 1)
  BY <1>1, <1>2
<1>4. ASSUME NEW i \in 1 .. Len(c), TRUE
      PROVE  /\ Entry(c, i) \in ToSet(c) /\ Entry(c, i) \in Entries /\ Entry(c, i) # HEAD
             /\ m.next[Entry(c, i)] = Entry(c, i+1) /\ m.next[Entry(c, i)] \in Entries
  <2>1. Entry(c, i) = c[i] /\ c[i] \in Nodes /\ c[i] \in ToSet(c)
    BY <1>1
  <2>2. m.next[Entry(c, i)] = Entry(c, i+1) /\ Entry(c, i) \in Entries /\ Entry(c, i+1) \in Entries
    BY <1>1, <1>2
  <2> QED BY <2>1, <2>2, KlistAssumption
<1>5. m.next[Entry(c, Len(c) + 1)] \in Entries
  BY <1>1, <1>3
<1>6. \A i \in 1 .. Len(c) + 1 : i \in 1 .. Len(c) \/ i = Len(c) + 1
  BY <1>1
<1> QED BY <1>1, <1>3, <1>4, <1>5, <1>6

\* The values in a list that has got one more element ...
LEMMA ValuesAppend ==
  ASSUME NEW c \in Seq(Nodes), NEW e \in Nodes, NEW f
  PROVE  LET d == Append(c, e)
         IN  [i \in 1 .. Len(d) |-> f[d[i]]] = Append([i \in 1 .. Len(c) |-> f[c[i]]], f[e])
<1> DEFINE d == Append(c, e)
           u == [i \in 1 .. Len(c) |-> f[c[i]]]
           V == {f[x] : x \in Nodes}
           w == Append(u, f[e])
<1>1. /\ Len(c) \in Nat /\ Len(d) = Len(c) + 1 /\ d[Len(c) + 1] = e
      /\ \A i \in 1 .. Len(c) : d[i] = c[i]
  OBVIOUS
<1>2. u \in Seq(V) /\ Len(u) = Len(c) /\ \A i \in 1 .. Len(c) : u[i] = f[c[i]]
  OBVIOUS
<1> HIDE DEF d, u
<1>3. f[e] \in V
  OBVIOUS
<1> HIDE DEF V
<1>4. /\ w \in Seq(V) /\ Len(w) = Len(c) + 1 /\ w[Len(c) + 1] = f[e]
      /\ \A i \in 1 .. Len(c) : w[i] = u[i]
  BY <1>1, <1>2, <1>3
<1>5. w = [i \in 1 .. Len(w) |-> w[i]]
  <2> HIDE DEF w
  <2> QED BY <1>4
<1>6. \A i \in 1 .. Len(c) + 1 : w[i] = f[d[i]]
  <2> HIDE DEF w
  <2> QED BY <1>1, <1>2, <1>4
<1>7. w = [i \in 1 .. Len(d) |-> f[d[i]]]
  <2> HIDE DEF w
  <2> QED BY <1>1, <1>4, <1>5, <1>6
<1> QED BY <1>7 DEF d, u

\* ... or lost one.
LEMMA ValuesWithout ==
  ASSUME NEW c \in Seq(Nodes), NEW k \in 1 .. Len(c), NEW f
  PROVE  LET d == Without(c, k)
         IN  [i \in 1 .. Len(d) |-> f[d[i]]] = Without([i \in 1 .. Len(c) |-> f[c[i]]], k)
<1>1. Len(c) \in Nat /\ k \in Nat
  OBVIOUS
<1> DEFINE d == Without(c, k)
           u == [i \in 1 .. Len(c) |-> f[c[i]]]
<1>2. /\ Len(d) = Len(c) - 1
      /\ \A i \in 1 .. Len(c) - 1 : d[i] = IF i < k THEN c[i] ELSE c[i+1]
  BY <1>1 DEF Without
<1>3. Len(u) = Len(c) /\ \A i \in 1 .. Len(c) : u[i] = f[c[i]]
  BY <1>1
<1>4. Without(u, k) = [i \in 1 .. Len(u) - 1 |-> IF i < k THEN u[i] ELSE u[i+1]]
  BY DEF Without
<1> HIDE DEF d, u
<1>5. \A i \in 1 .. Len(c) - 1 : f[d[i]] = IF i < k THEN u[i] ELSE u[i+1]
  BY <1>1, <1>2, <1>3
<1>6. [i \in 1 .. Len(d) |-> f[d[i]]] = Without(u, k)
  BY <1>2, <1>3, <1>4, <1>5
<1> QED BY <1>6 DEF d, u

\* A ring's set of elements without one of them.
LEMMA WithoutSet ==
  ASSUME NEW c \in Seq(Nodes), \A i, j \in 1 .. Len(c) : c[i] = c[j] => i = j,
         NEW k \in 1 .. Len(c)
  PROVE  ToSet(Without(c, k)) = ToSet(c) \ {c[k]}
<1>1. Len(c) \in Nat /\ k \in Nat /\ DOMAIN c = 1 .. Len(c)
  OBVIOUS
<1> DEFINE d == Without(c, k)
<1>2. /\ DOMAIN d = 1 .. Len(c) - 1
      /\ \A i \in 1 .. Len(c) - 1 : d[i] = IF i < k THEN c[i] ELSE c[i+1]
  BY <1>1 DEF Without
<1> HIDE DEF d
<1>3. \A i \in 1 .. Len(c) - 1 : d[i] \in ToSet(c) \ {c[k]}
  BY <1>1, <1>2 DEF ToSet
<1>4. ASSUME NEW e \in ToSet(c) \ {c[k]} PROVE \E i \in 1 .. Len(c) - 1 : d[i] = e
  <2>1. PICK j \in 1 .. Len(c) : c[j] = e /\ j # k
    BY <1>1 DEF ToSet
  <2>2. CASE j < k
    <3>1. j \in 1 .. Len(c) - 1 /\ d[j] = e
      BY <1>1, <1>2, <2>1, <2>2
    <3> QED BY <3>1
  <2>3. CASE j > k
    <3>1. j - 1 \in 1 .. Len(c) - 1 /\ (j - 1) + 1 = j /\ ~(j - 1 < k)
      BY <1>1, <2>3
    <3>2. d[j-1] = e
      BY <1>2, <2>1, <3>1
    <3> QED BY <3>1, <3>2
  <2> QED BY <1>1, <2>1, <2>2, <2>3
<1>5. ToSet(d) = {d[i] : i \in 1 .. Len(c) - 1}
  BY <1>2 DEF ToSet
<1>6. ToSet(d) = ToSet(c) \ {c[k]}
  BY <1>3, <1>4, <1>5
<1> QED BY <1>6 DEF d

\* What the invariant says of the list.
LEMMA ListFacts ==
  ASSUME IInv
  PROVE  /\ Ring(Settled, Elements)
         /\ Content = [i \in 1 .. Len(Elements) |-> data[Elements[i]]]
         /\ Elements \in Seq(Nodes) /\ Len(Elements) \in Nat /\ Len(Content) = Len(Elements)
         /\ \A i \in 1 .. Len(Elements) : /\ Content[i] = data[Elements[i]]
                                          /\ Elements[i] \in Nodes
                                          /\ Elements[i] \in ToSet(Elements)
         /\ \A e \in ToSet(Elements) : \E i \in 1 .. Len(Elements) : e = Elements[i]
         /\ Content \in Seq(Values)
         /\ \A p \in Procs : sp = p /\ pc[p] # "store" => Settled = mem
         /\ sp = Free => Settled = mem
<1>1. Ring(Settled, Elements) /\ \A i \in 1 .. Len(Elements) : data[Elements[i]] \in Values
  BY DEF IInv, Linked
<1>2. /\ Content = [i \in 1 .. Len(Elements) |-> data[Elements[i]]]
      /\ Elements \in Seq(Nodes) /\ Len(Elements) \in Nat /\ Len(Content) = Len(Elements)
      /\ \A i \in 1 .. Len(Elements) : /\ Content[i] = data[Elements[i]]
                                       /\ Elements[i] \in Nodes
                                       /\ Elements[i] \in ToSet(Elements)
      /\ \A e \in ToSet(Elements) : \E i \in 1 .. Len(Elements) : e = Elements[i]
      /\ Content \in Seq(Values)
  BY <1>1, ItemsFound DEF Content
<1>3. ASSUME NEW p \in Procs, sp = p, pc[p] # "store" PROVE Settled = mem
  <2>1. stores[p] = <<>>
    BY <1>3 DEF IInv, Calls
  <2> QED BY <1>3, <2>1 DEF Settled, Done
<1>4. sp = Free => Settled = mem
  BY ModlistAssumption DEF Settled
<1> QED BY <1>1, <1>2, <1>3, <1>4

\* A step that touches neither the list nor the call in the critical section.
LEMMA ProgressKept ==
  ASSUME Progress, Elements' = Elements, Content' = Content, before' = before,
         \A q \in Procs : sp' = q => /\ sp = q /\ cmd'[q] = cmd[q] /\ pos'[q] = pos[q]
                                     /\ n'[q] = n[q] /\ out'[q] = out[q]
                                     /\ pc'[q] = "visit" <=> pc[q] = "visit"
  PROVE  Progress'
<1> SUFFICES ASSUME NEW q \in Procs, sp' = q
             PROVE  InAdd(q)' /\ InRead(q)' /\ InRemove(q)' /\ InCleanup(q)'
  BY DEF Progress
<1>1. /\ InAdd(q) /\ InRead(q) /\ InRemove(q) /\ InCleanup(q)
      /\ cmd'[q] = cmd[q] /\ pos'[q] = pos[q] /\ n'[q] = n[q] /\ out'[q] = out[q]
      /\ pc'[q] = "visit" <=> pc[q] = "visit"
  <2>1. sp = q
    OBVIOUS
  <2>2. InAdd(q) /\ InRead(q) /\ InRemove(q) /\ InCleanup(q)
    BY <2>1 DEF Progress
  <2> QED BY <2>2
<1>2. \A k, kept : LoopAt(q, k, kept)' <=> LoopAt(q, k, kept)
  BY <1>1 DEF LoopAt
<1>3. InAdd(q)' /\ InRead(q)'
  BY <1>1 DEF InAdd, InRead
<1>4. InRemove(q)' /\ InCleanup(q)'
  BY <1>1, <1>2 DEF InRemove, InCleanup
<1> QED BY <1>3, <1>4

\* A call begins.
LEMMA BeginKeeps ==
  ASSUME IInv, NEW p \in Procs, Begin(p)
  PROVE  IInv'
<1> DEFINE E == Elements
<1>1. /\ version = "Pr3" /\ pc[p] = "idle" /\ cmd[p] = None
      /\ UNCHANGED <<version, mem, sp, n, stores, out, before, last>>
      /\ pc' = [pc EXCEPT ![p] = "lock"] /\ out[p] = <<>> /\ sp # p /\ stores[p] = <<>>
  BY DEF IInv, Begin, Goto, Calls, Locked
<1>2. PICK c \in Commands : /\ cmd' = [cmd EXCEPT ![p] = c]
                            /\ IF c.op = "add"
                               THEN \E e \in Nodes \ live :
                                      /\ live' = live \cup {e}
                                      /\ data' = [data EXCEPT ![e] = c.arg]
                                      /\ pos' = [pos EXCEPT ![p] = e]
                               ELSE UNCHANGED <<live, data, pos>>
  BY DEF Begin
<1>3. Settled' = Settled /\ Elements' = Elements
  BY <1>1 DEF Settled, Elements
<1>4. /\ Ring(Settled, Elements) /\ ToSet(Elements) \subseteq live
      /\ \A i \in 1 .. Len(Elements) : Elements[i] \in Nodes /\ Elements[i] \in ToSet(Elements)
  BY ListFacts DEF IInv, Ownership
<1>5. Typed' /\ Locked' /\ Calls'
  BY <1>1, <1>2 DEF IInv, TypeOK, Typed, Locked, Calls
<1>6. CASE c.op = "add"
  <2>1. PICK e \in Nodes \ live : /\ live' = live \cup {e} /\ data' = [data EXCEPT ![e] = c.arg]
                                  /\ pos' = [pos EXCEPT ![p] = e]
    BY <1>2, <1>6
  <2>2. c.arg \in Values
    BY <1>6 DEF Commands, Command
  <2>3. /\ data \in [Nodes -> Values \cup {0}] /\ pos \in [Procs -> Entries] /\ e \notin ToSet(Elements)
        /\ live \subseteq Nodes
    BY <1>4, <2>1 DEF IInv, TypeOK
  <2>4. TypeOK'
    BY <1>1, <2>1, <2>2 DEF IInv, TypeOK, Entries
  <2>5. \A i \in 1 .. Len(Elements) : data'[Elements[i]] = data[Elements[i]]
    BY <1>4, <2>1, <2>3
  <2>6. Content' = Content
    <3>1. Content' = [i \in 1 .. Len(Elements) |-> data'[Elements[i]]]
      BY <1>3, <1>4, ChainFound DEF Content, Items, Elements
    <3>2. Content = [i \in 1 .. Len(Elements) |-> data[Elements[i]]]
      BY ListFacts
    <3> QED BY <2>5, <3>1, <3>2
  <2>7. Linked'
    BY <1>3, <1>4, <2>5 DEF IInv, Linked
  <2>8. Ownership'
    <3>1. \A q \in Procs \ {p} : /\ Adding(q)' <=> Adding(q)
                                 /\ Owner(q)' <=> Owner(q)
                                 /\ pos'[q] = pos[q] /\ cmd'[q] = cmd[q]
      BY <1>1, <1>2, <2>1, <2>3 DEF Adding, Leaving, Owner
    <3>2. Adding(p)' /\ Owner(p)' /\ pos'[p] = e /\ cmd'[p] = c /\ ~Owner(p)
      BY <1>1, <1>2, <1>6, <2>1, <2>3 DEF IInv, TypeOK, Typed, Adding, Leaving, Owner, None, Command
    <3>3. /\ \A q \in Procs : Owner(q) => pos[q] \in Nodes \ ToSet(Elements) /\ pos[q] \in live
          /\ \A q, r \in Procs : Owner(q) /\ Owner(r) /\ pos[q] = pos[r] => q = r
          /\ \A q \in Procs : Adding(q) => data[pos[q]] = cmd[q].arg
          /\ live = ToSet(Elements) \cup {pos[q] : q \in {r \in Procs : Owner(r)}}
      BY DEF IInv, Ownership
    <3>4. \A q \in Procs : Adding(q) => Owner(q)
      BY DEF Owner
    <3>5. \A q \in Procs : Owner(q)' => pos'[q] \in Nodes \ ToSet(Elements)
      BY <2>1, <2>3, <3>1, <3>2, <3>3
    <3>6. \A q, r \in Procs : Owner(q)' /\ Owner(r)' /\ pos'[q] = pos'[r] => q = r
      BY <2>1, <3>1, <3>2, <3>3
    <3>7. \A q \in Procs : Adding(q)' => data'[pos'[q]] = cmd'[q].arg
      BY <2>1, <2>3, <3>1, <3>2, <3>3, <3>4
    <3>8. live' = ToSet(Elements) \cup {pos'[q] : q \in {r \in Procs : Owner(r)'}}
      BY <2>1, <3>1, <3>2, <3>3
    <3> QED BY <1>1, <1>3, <3>5, <3>6, <3>7, <3>8 DEF Ownership
  <2>9. Progress'
    <3>1. ASSUME NEW q \in Procs, sp' = q
          PROVE  /\ sp = q /\ cmd'[q] = cmd[q] /\ pos'[q] = pos[q] /\ n'[q] = n[q]
                 /\ out'[q] = out[q] /\ pc'[q] = pc[q]
      BY <1>1, <1>2, <2>1, <3>1 DEF IInv, TypeOK, Typed
    <3> QED BY <1>1, <1>3, <2>6, <3>1, ProgressKept DEF IInv
  <2> QED BY <1>5, <2>4, <2>7, <2>8, <2>9 DEF IInv
<1>7. CASE c.op # "add"
  <2>1. UNCHANGED <<live, data, pos>>
    BY <1>2, <1>7
  <2>2. Content' = Content
    BY <1>3, <2>1 DEF Content, Items
  <2>3. TypeOK'
    BY <1>1, <2>1 DEF IInv, TypeOK
  <2>4. Linked'
    BY <1>3, <2>1 DEF IInv, Linked
  <2>5. Ownership'
    <3>1. \A q \in Procs : (Adding(q)' <=> Adding(q)) /\ (Owner(q)' <=> Owner(q))
      BY <1>1, <1>2, <1>7 DEF IInv, TypeOK, Typed, Adding, Leaving, Owner, None, Command
    <3>2. \A q \in Procs : Adding(q) => cmd'[q] = cmd[q]
      BY <1>1, <1>2 DEF Adding
    <3> QED BY <1>1, <1>3, <2>1, <3>1, <3>2 DEF IInv, Ownership
  <2>6. Progress'
    <3>1. ASSUME NEW q \in Procs, sp' = q
          PROVE  /\ sp = q /\ cmd'[q] = cmd[q] /\ pos'[q] = pos[q] /\ n'[q] = n[q]
                 /\ out'[q] = out[q] /\ pc'[q] = pc[q]
      BY <1>1, <1>2, <2>1, <3>1 DEF IInv, TypeOK, Typed
    <3> QED BY <1>1, <1>3, <2>2, <3>1, ProgressKept DEF IInv
  <2> QED BY <1>5, <2>3, <2>4, <2>5, <2>6 DEF IInv
<1> QED BY <1>6, <1>7

\* spin_lock is taken and the section begins.
LEMMA LockKeeps ==
  ASSUME IInv, NEW p \in Procs, Lock(p)
  PROVE  IInv'
<1>1. /\ pc[p] = "lock" /\ sp = Free /\ sp' = p /\ before' = Items(mem)
      /\ UNCHANGED <<version, mem, data, live, cmd, out, last>>
      /\ version = "Pr3" /\ cmd[p] \in Commands /\ out[p] = <<>> /\ stores[p] = <<>>
  BY DEF IInv, Lock, Calls
<1>2. \A q \in Procs : pc[q] \notin {"store", "visit", "free", "unlock"} /\ stores[q] = <<>>
  BY <1>1, ModlistAssumption DEF IInv, Locked, Calls
<1>3. /\ Settled = mem /\ Ring(mem, Elements) /\ mem \in Memory
      /\ Content = Items(mem) /\ Content \in Seq(Values)
      /\ Elements \in Seq(Nodes) /\ Len(Elements) \in Nat /\ Len(Content) = Len(Elements)
      /\ \A i \in 1 .. Len(Elements) : /\ Content[i] = data[Elements[i]]
                                       /\ Elements[i] \in Nodes
                                       /\ Elements[i] \in ToSet(Elements)
      /\ \A e \in ToSet(Elements) : \E i \in 1 .. Len(Elements) : e = Elements[i]
  BY <1>1, ListFacts DEF IInv, TypeOK, Content
<1>4. /\ pos \in [Procs -> Entries] /\ n \in [Procs -> Entries] /\ mem \in Memory
      /\ cmd \in [Procs -> Commands \cup {None}]
      /\ pc \in [Procs -> {"idle", "lock", "store", "visit", "free", "unlock"}]
      /\ stores \in [Procs -> Seq([field : {"next", "prev"}, entry : Entries,
                                   pointer : Pointers])]
  BY DEF IInv, TypeOK, Typed
<1>5. CASE cmd[p].op = "add"
  <2>1. /\ stores' = [stores EXCEPT ![p] = ListAddTail(mem, pos[p])]
        /\ pc' = [pc EXCEPT ![p] = "store"] /\ UNCHANGED <<pos, n>>
    BY <1>5 DEF Lock, Goto
  <2> DEFINE w == ListAddTail(mem, pos[p])
  <2>2. /\ pos[p] \in Nodes /\ pos[p] \notin ToSet(Elements) /\ data[pos[p]] = cmd[p].arg
        /\ Owner(p)
    BY <1>1, <1>5 DEF IInv, Ownership, Owner, Adding
  <2>3. mem.prev[HEAD] \in Entries
    <3>1. mem.prev[Entry(Elements, Len(Elements) + 1)] = Entry(Elements, Len(Elements))
      BY <1>3 DEF Ring
    <3> QED BY <1>3, <3>1 DEF Entry, Entries
  <2>4. /\ w \in Seq([field : {"next", "prev"}, entry : Entries, pointer : Pointers])
        /\ Len(w) = 4
    BY <2>2, <2>3 DEF ListAddTail, ListAdd, Write, Entries, Pointers
  <2>5. Settled' = PutAll(mem, w)
    <3>1. Settled' = Done(mem', stores'[p])
      BY <1>1 DEF Settled
    <3>2. Settled' = Done(mem, w)
      BY <1>1, <1>4, <2>1, <3>1
    <3> HIDE DEF w
    <3>3. w # <<>> /\ Len(w) # 1 /\ Len(w) # 2 /\ Len(w) # 3
      BY <2>4
    <3> QED BY <3>2, <3>3 DEF Done
  <2>6. Ring(Settled', Append(Elements, pos[p]))
    BY <1>3, <2>2, <2>5, AddTail
  <2>7. Elements' = Append(Elements, pos[p])
    BY <2>6, ChainFound DEF Elements
  <2> HIDE DEF w
  <2>8. TypeOK'
    BY <1>1, <1>3, <1>4, <2>1 DEF IInv, TypeOK
  <2>9. Typed' /\ Locked' /\ Calls'
    BY <1>1, <1>2, <1>4, <1>5, <2>1, <2>4 DEF IInv, Typed, Locked, Calls, w
  <2>10. Ownership'
    <3>1. /\ \A q \in Procs \ {p} : (Adding(q)' <=> Adding(q)) /\ (Owner(q)' <=> Owner(q))
          /\ ~Adding(p)' /\ ~Owner(p)'
      BY <1>1, <1>4, <1>5, <2>1 DEF Adding, Leaving, Owner
    <3>2. ToSet(Elements') = ToSet(Elements) \cup {pos[p]}
      BY <1>3, <2>2, <2>7, AppendSet
    <3>3. \A q \in Procs \ {p} : Owner(q) => pos[q] # pos[p]
      BY <2>2 DEF IInv, Ownership
    <3>4. live = ToSet(Elements') \cup {pos[q] : q \in {r \in Procs : Owner(r)'}}
      BY <2>2, <3>1, <3>2 DEF IInv, Ownership
    <3> QED BY <1>1, <2>1, <3>1, <3>2, <3>3, <3>4 DEF IInv, Ownership
  <2>11. Linked'
    <3>1. /\ Len(Append(Elements, pos[p])) = Len(Elements) + 1
          /\ \A i \in 1 .. Len(Elements) : Append(Elements, pos[p])[i] = Elements[i]
          /\ Append(Elements, pos[p])[Len(Elements) + 1] = pos[p]
      BY <1>3, <2>2
    <3>2. data[pos[p]] \in Values
      BY <1>1, <1>5, <2>2 DEF Commands, Command
    <3>3. \A i \in 1 .. Len(Elements) : data[Elements[i]] \in Values
      BY DEF IInv, Linked
    <3>4. \A i \in 1 .. Len(Elements') : data[Elements'[i]] \in Values
      BY <1>3, <2>7, <3>1, <3>2, <3>3
    <3> QED BY <1>1, <2>6, <2>7, <3>4 DEF Linked
  <2>12. Progress'
    <3>1. Content' = [i \in 1 .. Len(Elements') |-> data[Elements'[i]]]
      BY <1>1, <2>6, <2>7, ItemsFound DEF Content, Items, Elements
    <3>2. Content' = Append(Content, cmd[p].arg)
      BY <1>3, <2>2, <2>7, <3>1, ListFacts, ValuesAppend
    <3>3. InAdd(p)'
      BY <1>1, <1>3, <3>2 DEF InAdd
    <3>4. InRead(p)' /\ InRemove(p)' /\ InCleanup(p)'
      BY <1>1, <1>5 DEF InRead, InRemove, InCleanup
    <3> QED BY <1>1, <3>3, <3>4 DEF Progress
  <2> QED BY <2>8, <2>9, <2>10, <2>11, <2>12 DEF IInv
<1>6. CASE cmd[p].op # "add"
  <2>1. /\ pos' = [pos EXCEPT ![p] = mem.next[HEAD]]
        /\ n' = [n EXCEPT ![p] = mem.next[mem.next[HEAD]]]
        /\ pc' = [pc EXCEPT ![p] = "visit"] /\ UNCHANGED stores
    BY <1>6 DEF Lock, Goto
  <2>2. Settled' = mem /\ Elements' = Elements /\ Content' = Content
    <3>1. Settled' = mem
      BY <1>1, <1>2, <2>1 DEF Settled, Done
    <3> QED BY <1>1, <1>3, <3>1 DEF Elements, Content, Items
  <2>3. /\ mem.next[HEAD] = Entry(Elements, 1) /\ mem.next[HEAD] \in Entries
        /\ mem.next[mem.next[HEAD]] \in Entries
        /\ mem.next[HEAD] # HEAD => mem.next[mem.next[HEAD]] = Entry(Elements, 2)
    BY <1>3, Walk
  <2>8. TypeOK'
    BY <1>1, <1>3, <1>4, <2>1, <2>3 DEF IInv, TypeOK
  <2>4. Typed' /\ Locked' /\ Calls'
    BY <1>1, <1>2, <1>4, <1>6, <2>1 DEF IInv, Typed, Locked, Calls
  <2>5. Ownership'
    <3>1. \A q \in Procs : (Adding(q)' <=> Adding(q)) /\ (Owner(q)' <=> Owner(q))
      BY <1>1, <1>4, <1>6, <2>1 DEF Adding, Leaving, Owner
    <3>2. \A q \in Procs : Owner(q) => pos'[q] = pos[q]
      BY <1>1, <1>6, <2>1 DEF IInv, TypeOK, Adding, Leaving, Owner
    <3>3. \A q \in Procs : Adding(q) => Owner(q)
      BY DEF Owner
    <3> QED BY <1>1, <2>2, <3>1, <3>2, <3>3 DEF IInv, Ownership
  <2>6. Linked'
    BY <1>1, <1>3, <2>2 DEF IInv, Linked
  <2>7. Progress'
    <3>1. /\ pos'[p] = Entry(Elements, 1)
          /\ pos'[p] # HEAD => n'[p] = Entry(Elements, 2)
          /\ pc'[p] = "visit" /\ before' = Content
      BY <1>1, <1>3, <1>4, <2>1, <2>3
    <3>2. Partly(Content, Content, <<>>, 0) /\ 0 \in 0 .. Len(Content) /\ Len(<<>>) + 1 = 1
          /\ (Len(<<>>) + 1) + 1 = 2
      BY <1>3 DEF Partly
    <3>3. LoopAt(p, 0, <<>>)'
      <4>1. Partly(Content', before', <<>>, 0)
        BY <2>2, <3>1, <3>2, Zenon
      <4>2. /\ pos'[p] = Entry(Elements', Len(<<>>) + 1)
            /\ pos'[p] # HEAD => n'[p] = Entry(Elements', (Len(<<>>) + 1) + 1)
        BY <2>2, <3>1, <3>2
      <4> QED BY <3>1, <4>1, <4>2, Zenon DEF LoopAt
    <3>4. Keep(before', cmd[p].arg)[0] = <<>>
      BY <1>3, <3>1, KeepSteps
    <3>5. InRemove(p)' /\ InCleanup(p)'
      BY <1>1, <3>1, <3>2, <3>3, <3>4 DEF InRemove, InCleanup
    <3>6. InRead(p)'
      <4>1. SubSeq(Content, 1, 1 - 1) = <<>> /\ 1 \in 1 .. Len(Content) + 1
        BY <1>3
      <4>2. pos'[p] = Entry(Elements', 1) /\ out'[p] = SubSeq(before', 1, 1 - 1)
        <5>1. pos'[p] = Entry(Elements', 1) /\ out'[p] = <<>>
          BY <1>1, <2>2, <3>1
        <5>2. SubSeq(before', 1, 1 - 1) = <<>>
          BY <3>1, <4>1, Zenon
        <5> QED BY <5>1, <5>2
      <4>3. 1 \in 1 .. Len(before') + 1
        BY <3>1, <4>1
      <4> QED BY <2>2, <3>1, <4>2, <4>3, Zenon DEF InRead
    <3>7. InAdd(p)'
      BY <1>1, <1>6 DEF InAdd
    <3> QED BY <1>1, <3>5, <3>6, <3>7 DEF Progress
  <2> QED BY <2>4, <2>5, <2>6, <2>7, <2>8 DEF IInv
<1> QED BY <1>5, <1>6

\* One pointer write is made.
LEMMA StoreKeeps ==
  ASSUME IInv, NEW p \in Procs, Store(p)
  PROVE  IInv'
<1> DEFINE w == stores[p]
           R == [field : {"next", "prev"}, entry : Entries, pointer : Pointers]
<1>1. /\ pc[p] = "store" /\ mem' = Put(mem, Head(w)) /\ stores' = [stores EXCEPT ![p] = Tail(w)]
      /\ pc' = [pc EXCEPT ![p] = IF Len(w) > 1 THEN "store"
                                 ELSE IF cmd[p].op = "add" THEN "unlock" ELSE "free"]
      /\ UNCHANGED <<version, data, live, sp, cmd, pos, n, out, before, last>>
  BY DEF Store, Goto
<1>2. /\ stores \in [Procs -> Seq(R)] /\ mem \in Memory /\ cmd \in [Procs -> Commands \cup {None}]
      /\ pc \in [Procs -> {"idle", "lock", "store", "visit", "free", "unlock"}]
  BY DEF IInv, TypeOK, Typed
<1>3. /\ sp = p /\ Len(w) \in 1 .. 4 /\ w \in Seq(R) /\ Len(w) \in Nat
      /\ cmd[p].op # "read" /\ cmd[p] \in Commands /\ version = "Pr3" /\ out[p] = <<>>
  <2>1. w \in Seq(R)
    BY <1>2
  <2>2. sp = p
    BY <1>1 DEF IInv, Locked
  <2>3. /\ Len(w) \in 1 .. 4 /\ cmd[p].op # "read" /\ cmd[p] \in Commands
        /\ version = "Pr3" /\ out[p] = <<>>
    <3> HIDE DEF R
    <3> QED BY <1>1 DEF IInv, Calls
  <2> HIDE DEF R, w
  <2> QED BY <2>1, <2>2, <2>3
<1>4. Head(w) \in R /\ Tail(w) \in Seq(R) /\ Len(Tail(w)) = Len(w) - 1
  <2> HIDE DEF w, R
  <2> QED BY <1>3
<1> HIDE DEF w
<1>5. mem' \in Memory
  <2>1. Head(w) = Write(Head(w).field, Head(w).entry, Head(w).pointer)
    BY <1>4 DEF Write
  <2> QED BY <1>1, <1>2, <1>4, <2>1, PutTyped
<1>6. stores'[p] = Tail(w) /\ \A q \in Procs \ {p} : stores'[q] = stores[q]
  BY <1>1, <1>2
<1>7. Settled' = Settled
  <2>1. Settled' = Done(Put(mem, Head(w)), Tail(w))
    BY <1>1, <1>3, <1>6 DEF Settled
  <2>2. Done(Put(mem, Head(w)), Tail(w)) = Done(mem, w)
    BY <1>3, DoneStep
  <2>3. Settled = Done(mem, w)
    BY <1>3 DEF Settled, w
  <2> QED BY <2>1, <2>2, <2>3
<1>8. Elements' = Elements /\ Content' = Content
  BY <1>1, <1>7 DEF Elements, Content, Items
<1>9. /\ pc'[p] \in {"store", "unlock", "free"} /\ \A q \in Procs \ {p} : pc'[q] = pc[q]
      /\ cmd[p].op = "add" => pc'[p] \in {"store", "unlock"}
      /\ cmd[p].op # "add" => pc'[p] \in {"store", "free"}
      /\ pc'[p] = "store" <=> Len(w) > 1
      /\ pc' \in [Procs -> {"idle", "lock", "store", "visit", "free", "unlock"}]
  BY <1>1, <1>2
<1>10. TypeOK'
  BY <1>1, <1>5, <1>9 DEF IInv, TypeOK
<1>11. Typed' /\ Locked'
  BY <1>1, <1>2, <1>3, <1>4, <1>9 DEF IInv, Typed, Locked
<1>12. Calls'
  <2>1. IF pc'[p] = "store" THEN Len(stores'[p]) \in 1 .. 4 ELSE stores'[p] = <<>>
    BY <1>3, <1>4, <1>6, <1>9
  <2> QED BY <1>1, <1>3, <1>6, <1>9, <2>1 DEF IInv, Calls
<1>13. Ownership'
  <2>1. \A q \in Procs : (Adding(q)' <=> Adding(q)) /\ (Owner(q)' <=> Owner(q))
    BY <1>1, <1>3, <1>9 DEF Adding, Leaving, Owner
  <2> QED BY <1>1, <1>8, <2>1 DEF IInv, Ownership
<1>14. Linked'
  BY <1>1, <1>7, <1>8 DEF IInv, Linked
<1>15. Progress'
  BY <1>1, <1>3, <1>8, <1>9, ProgressKept DEF IInv
<1> QED BY <1>10, <1>11, <1>12, <1>13, <1>14, <1>15 DEF IInv

\* modlist_read prints one element.
LEMMA ShowItemKeeps ==
  ASSUME IInv, NEW p \in Procs, ShowItem(p)
  PROVE  IInv'
<1>1. /\ pc[p] = "visit" /\ cmd[p].op = "read" /\ pos[p] # HEAD
      /\ out' = [out EXCEPT ![p] = Append(out[p], data[pos[p]])]
      /\ pos' = [pos EXCEPT ![p] = mem.next[pos[p]]]
      /\ UNCHANGED <<version, mem, data, live, sp, pc, cmd, n, stores, before, last>>
  BY DEF ShowItem
<1>2. /\ sp = p /\ Settled = mem
      /\ Ring(mem, Elements) /\ Len(Elements) \in Nat /\ Len(Content) = Len(Elements)
      /\ \A i \in 1 .. Len(Elements) : Content[i] = data[Elements[i]]
      /\ Content \in Seq(Values)
  BY <1>1, ListFacts DEF IInv, Locked
<1>3. /\ out \in [Procs -> Seq(Values)] /\ pos \in [Procs -> Entries]
      /\ pc \in [Procs -> {"idle", "lock", "store", "visit", "free", "unlock"}]
  BY DEF IInv, TypeOK
<1>4. /\ Settled' = Settled /\ Elements' = Elements /\ Content' = Content
  BY <1>1 DEF Settled, Elements, Content, Items
<1>5. PICK i \in 1 .. Len(before) + 1 : /\ pos[p] = Entry(Elements, i)
                                       /\ out[p] = SubSeq(before, 1, i - 1)
                                       /\ Content = before
  BY <1>1, <1>2 DEF IInv, Progress, InRead
<1>6. /\ i \in 1 .. Len(Elements) /\ pos[p] = Elements[i]
      /\ mem.next[pos[p]] = Entry(Elements, i + 1) /\ mem.next[pos[p]] \in Entries
  BY <1>1, <1>2, <1>5, Walk
<1>7. data[pos[p]] = before[i] /\ before[i] \in Values
  BY <1>2, <1>5, <1>6
<1>8. out'[p] = SubSeq(before, 1, i)
  <2>1. out'[p] = Append(out[p], before[i])
    BY <1>1, <1>3, <1>7
  <2>2. before \in Seq(Values) /\ i \in 1 .. Len(before)
    BY <1>2, <1>5, <1>6
  <2> QED BY <1>5, <2>1, <2>2, SubSeqNext
<1>9. TypeOK'
  BY <1>1, <1>3, <1>6, <1>7 DEF IInv, TypeOK
<1>10. Typed' /\ Locked' /\ Calls'
  BY <1>1, <1>3 DEF IInv, Typed, Locked, Calls
<1>11. Ownership'
  <2>1. \A q \in Procs : (Adding(q)' <=> Adding(q)) /\ (Owner(q)' <=> Owner(q))
    BY <1>1 DEF Adding, Leaving, Owner
  <2>2. ~Owner(p) /\ \A q \in Procs \ {p} : pos'[q] = pos[q]
    BY <1>1, <1>3 DEF Adding, Leaving, Owner
  <2>3. \A q \in Procs : Adding(q) => Owner(q)
    BY DEF Owner
  <2> QED BY <1>1, <1>4, <2>1, <2>2, <2>3 DEF IInv, Ownership
<1>12. Linked'
  BY <1>1, <1>4 DEF IInv, Linked
<1>13. Progress'
  <2>1. InRead(p)'
    <3>1. /\ i + 1 \in 1 .. Len(before') + 1 /\ (i + 1) - 1 = i
          /\ pos'[p] = Entry(Elements', i + 1)
      BY <1>1, <1>2, <1>3, <1>4, <1>5, <1>6
    <3>2. out'[p] = SubSeq(before', 1, (i + 1) - 1) /\ Content' = before'
      BY <1>1, <1>4, <1>5, <1>8, <3>1
    <3> QED BY <3>1, <3>2, Zenon DEF InRead
  <2>2. InAdd(p)' /\ InRemove(p)' /\ InCleanup(p)'
    BY <1>1 DEF InAdd, InRemove, InCleanup
  <2> QED BY <1>1, <1>2, <2>1, <2>2 DEF Progress
<1> QED BY <1>9, <1>10, <1>11, <1>12, <1>13 DEF IInv

\* A loop that removes elements takes out the one it stands on.
LEMMA TakesOut ==
  ASSUME IInv, NEW p \in Procs, pc[p] = "visit", pos[p] # HEAD,
         cmd[p].op \in {"remove", "cleanup"},
         NEW k \in 0 .. Len(before), NEW kept \in Seq(Values), LoopAt(p, k, kept),
         stores' = [stores EXCEPT ![p] = ListDel(mem, pos[p])],
         pc' = [pc EXCEPT ![p] = "store"],
         UNCHANGED <<version, mem, data, live, sp, cmd, pos, n, out, before, last>>
  PROVE  /\ TypeOK' /\ Typed' /\ Locked' /\ Calls' /\ Ownership' /\ Linked'
         /\ k + 1 \in 1 .. Len(before) /\ data[pos[p]] = before[k+1]
         /\ LoopAt(p, k + 1, kept)'
<1> DEFINE at == Len(kept) + 1
           R == [field : {"next", "prev"}, entry : Entries, pointer : Pointers]
           w == ListDel(mem, pos[p])
           d == Without(Elements, at)
<1>1. /\ sp = p /\ Settled = mem /\ stores[p] = <<>> /\ out[p] = <<>>
      /\ cmd[p] \in Commands /\ version = "Pr3"
  <2>1. sp = p
    BY DEF IInv, Locked
  <2> QED BY <2>1, ListFacts DEF IInv, Calls
<1>2. /\ Ring(mem, Elements) /\ Elements \in Seq(Nodes) /\ Len(Elements) \in Nat
      /\ Len(Content) = Len(Elements)
      /\ Content = [i \in 1 .. Len(Elements) |-> data[Elements[i]]]
      /\ \A i \in 1 .. Len(Elements) : Content[i] = data[Elements[i]] /\ Elements[i] \in Nodes
      /\ Content \in Seq(Values) /\ before \in Seq(Values) /\ mem \in Memory
      /\ pc \in [Procs -> {"idle", "lock", "store", "visit", "free", "unlock"}]
      /\ stores \in [Procs -> Seq(R)]
      /\ \A i, j \in 1 .. Len(Elements) : Elements[i] = Elements[j] => i = j
  BY <1>1, ListFacts DEF IInv, TypeOK, Typed, Ring
<1>3. /\ Partly(Content, before, kept, k)
      /\ pos[p] = Entry(Elements, at) /\ n[p] = Entry(Elements, at + 1)
  BY DEF LoopAt
<1>4. at \in 1 .. Len(Elements) + 1
  <2>1. Len(Content) = Len(kept) + Len(before) - k
    BY <1>3 DEF Partly
  <2>2. Len(before) \in Nat /\ Len(kept) \in Nat /\ k \in Nat /\ k <= Len(before)
    BY <1>2
  <2> QED BY <1>2, <2>1, <2>2
<1> HIDE DEF R, w
<1>5. /\ at \in 1 .. Len(Elements) /\ pos[p] = Elements[at] /\ pos[p] \in Nodes
      /\ mem.next[pos[p]] \in Entries
  BY <1>2, <1>3, <1>4, Walk
<1>6. mem.prev[pos[p]] \in Entries
  <2>1. /\ at - 1 \in 0 .. Len(Elements) /\ (at - 1) + 1 = at
        /\ mem.prev[Entry(Elements, (at - 1) + 1)] = Entry(Elements, at - 1)
    BY <1>2, <1>5 DEF Ring
  <2>2. Entry(Elements, at - 1) \in Entries
    <3>1. \A i \in Int : Entry(Elements, i) \in Entries
      BY <1>2, Distinct
    <3> HIDE DEF at
    <3>2. at - 1 \in Int
      BY <1>5
    <3> QED BY <3>1, <3>2
  <2> QED BY <1>3, <2>1, <2>2
<1>7. w \in Seq(R) /\ Len(w) = 4
  BY <1>5, <1>6 DEF w, R, ListDel, Write, Entries, Pointers
<1>8. Settled' = Deleted(mem, Elements[at])
  <2>1. Settled' = Done(mem, w)
    BY <1>1, <1>2 DEF Settled, w
  <2>2. w # <<>> /\ Len(w) # 1 /\ Len(w) # 2 /\ Len(w) # 3
    <3>1. w = <<>> => Len(w) = 0
      OBVIOUS
    <3> QED BY <1>7, <3>1
  <2> QED BY <1>5, <2>1, <2>2 DEF Done, Deleted, w
<1> HIDE DEF at
<1>9. Ring(Settled', d) /\ Elements' = d
  <2>1. Ring(Settled', d)
    BY <1>2, <1>5, <1>8, Delete
  <2> QED BY <2>1, ChainFound DEF Elements
<1>10. Content' = Without(Content, at)
  <2>1. Content' = [i \in 1 .. Len(d) |-> data[d[i]]]
    BY <1>9, ItemsFound DEF Content, Items, Elements
  <2>2. [i \in 1 .. Len(d) |-> data[d[i]]]
          = Without([i \in 1 .. Len(Elements) |-> data[Elements[i]]], at)
    <3>1. Elements \in Seq(Nodes) /\ at \in 1 .. Len(Elements)
      BY <1>2, <1>5
    <3> QED BY <3>1, ValuesWithout
  <2> HIDE DEF d
  <2> QED BY <1>2, <2>1, <2>2
<1>11. /\ Len(d) = Len(Elements) - 1
       /\ \A i \in 1 .. Len(Elements) - 1 : d[i] = IF i < at THEN Elements[i] ELSE Elements[i+1]
       /\ ToSet(d) = ToSet(Elements) \ {pos[p]}
  <2>1. /\ Len(d) = Len(Elements) - 1
        /\ \A i \in 1 .. Len(Elements) - 1 : d[i] = IF i < at THEN Elements[i] ELSE Elements[i+1]
    BY <1>2, <1>5 DEF Without
  <2>2. ToSet(d) = ToSet(Elements) \ {pos[p]}
    <3>1. ToSet(Without(Elements, at)) = ToSet(Elements) \ {Elements[at]}
      BY <1>2, <1>5, WithoutSet
    <3> QED BY <1>5, <3>1
  <2> QED BY <2>1, <2>2
<1> HIDE DEF d
<1>12. TypeOK'
  BY <1>2 DEF IInv, TypeOK
<1>13. Typed' /\ Locked' /\ Calls'
  <2>1. stores' \in [Procs -> Seq(R)]
    BY <1>2, <1>7 DEF w
  <2>2. Typed' /\ Locked'
    BY <1>1, <1>2, <2>1 DEF IInv, Typed, Locked, R
  <2>3. stores'[p] = w /\ \A q \in Procs \ {p} : stores'[q] = stores[q]
    BY <1>2 DEF w
  <2>4. pc'[p] = "store" /\ \A q \in Procs \ {p} : pc'[q] = pc[q]
    BY <1>2
  <2>5. Calls'
    BY <1>1, <1>7, <2>3, <2>4 DEF IInv, Calls
  <2> QED BY <2>2, <2>5
<1>14. Ownership'
  <2>1. /\ \A q \in Procs : Adding(q)' <=> Adding(q)
        /\ \A q \in Procs \ {p} : Owner(q)' <=> Owner(q)
        /\ Owner(p)' /\ ~Owner(p) /\ ~Adding(p)
    BY <1>2 DEF Adding, Leaving, Owner
  <2>2. pos[p] \in ToSet(Elements) /\ pos[p] \notin ToSet(d)
    BY <1>2, <1>5, <1>11, ListFacts
  <2>3. live' = ToSet(d) \cup {pos[q] : q \in {r \in Procs : Owner(r)'}}
    BY <1>11, <2>1, <2>2 DEF IInv, Ownership
  <2>4. \A q \in Procs : Owner(q)' => pos[q] \in Nodes \ ToSet(d)
    BY <1>5, <1>11, <2>1, <2>2 DEF IInv, Ownership
  <2>5. \A q, r \in Procs : Owner(q)' /\ Owner(r)' /\ pos[q] = pos[r] => q = r
    BY <2>1, <2>2 DEF IInv, Ownership
  <2>6. \A q \in Procs : Adding(q)' => data[pos[q]] = cmd[q].arg
    BY <2>1 DEF IInv, Ownership
  <2> QED BY <1>1, <1>9, <2>3, <2>4, <2>5, <2>6 DEF Ownership
<1>15. Linked'
  <2>1. \A i \in 1 .. Len(Elements) : data[Elements[i]] \in Values
    BY DEF IInv, Linked
  <2>2. \A i \in 1 .. Len(d) : data[d[i]] \in Values
    BY <1>2, <1>5, <1>11, <2>1, SMTT(40)
  <2> QED BY <1>9, <2>2 DEF Linked
<1>16. /\ k + 1 \in 1 .. Len(before) /\ data[pos[p]] = before[k+1]
       /\ Partly(Without(Content, at), before, kept, k + 1)
  <2>1. at <= Len(Content)
    BY <1>2, <1>5
  <2>2. k + 1 \in 1 .. Len(before) /\ Content[at] = before[k+1]
    <3>1. Len(kept) + 1 <= Len(Content)
      BY <2>1 DEF at
    <3>2. k + 1 \in 1 .. Len(before) /\ Content[Len(kept) + 1] = before[k+1]
      <4>1. Content \in Seq(Values) /\ before \in Seq(Values)
        BY <1>2
      <4> QED BY <1>3, <3>1, <4>1, PartlyNext
    <3> QED BY <3>2 DEF at
  <2>3. Partly(Without(Content, at), before, kept, k + 1)
    BY <1>2, <1>3, <2>1, PartlyDrop DEF at
  <2> QED BY <1>2, <1>5, <2>2, <2>3
<1>17. Entry(d, at) = Entry(Elements, at + 1)
  <2>1. CASE at \in 1 .. Len(Elements) - 1
    BY <1>2, <1>11, <2>1 DEF Entry
  <2>2. CASE at = Len(Elements)
    BY <1>2, <1>11, <2>2 DEF Entry
  <2>3. at \in 1 .. Len(Elements) - 1 \/ at = Len(Elements)
    <3>1. Len(Elements) \in Nat
      BY <1>2
    <3>2. at \in 1 .. Len(Elements)
      BY <1>5
    <3> QED BY <3>1, <3>2
  <2> QED BY <2>1, <2>2, <2>3
<1>18. LoopAt(p, k + 1, kept)'
  <2>1. pc'[p] = "store"
    BY <1>2
  <2>2. n'[p] = Entry(Elements', Len(kept) + 1)
    BY <1>3, <1>9, <1>17 DEF at
  <2>3. Partly(Content', before', kept, k + 1)
    BY <1>10, <1>16
  <2> QED BY <2>1, <2>2, <2>3 DEF LoopAt
<1> QED BY <1>12, <1>13, <1>14, <1>15, <1>16, <1>18

\* A loop goes on to the element in n.
LEMMA GoesOn ==
  ASSUME NEW p \in Procs, pos \in [Procs -> Entries], n \in [Procs -> Entries],
         NEW c, Ring(mem, c), NEW j \in 1 .. Len(c) + 1, n[p] = Entry(c, j), Advance(p)
  PROVE  /\ pos' \in [Procs -> Entries] /\ n' \in [Procs -> Entries]
         /\ pos'[p] = Entry(c, j) /\ \A q \in Procs \ {p} : pos'[q] = pos[q]
         /\ pos'[p] # HEAD => n'[p] = Entry(c, j + 1)
<1>1. /\ pos' = [pos EXCEPT ![p] = n[p]]
      /\ n' = [n EXCEPT ![p] = mem.next[n[p]]]
  BY DEF Advance
<1>2. /\ mem.next[n[p]] \in Entries
      /\ n[p] # HEAD => mem.next[n[p]] = Entry(c, j + 1)
  BY Walk
<1> QED BY <1>1, <1>2

\* modlist_remove looks at one element.
LEMMA MatchKeeps ==
  ASSUME IInv, NEW p \in Procs, Match(p)
  PROVE  IInv'
<1>1. /\ pc[p] = "visit" /\ cmd[p].op = "remove" /\ pos[p] # HEAD
      /\ UNCHANGED <<version, mem, data, live, sp, cmd, out, before, last>>
  BY DEF Match
<1>2. sp = p /\ Settled = mem /\ Ring(mem, Elements)
  <2>1. sp = p
    BY <1>1 DEF IInv, Locked
  <2> QED BY <1>1, <2>1, ListFacts
<1>3. PICK k \in 0 .. Len(before) : LoopAt(p, k, Keep(before, cmd[p].arg)[k])
  BY <1>1, <1>2 DEF IInv, Progress, InRemove
\* The same before and after the step.
<1> PICK x : x = cmd[p].arg
  OBVIOUS
<1> PICK K : K = Keep(before, cmd[p].arg)
  OBVIOUS
<1>4. /\ before \in Seq(Values) /\ Len(before) \in Nat /\ K[k] \in Seq(Values) /\ Len(K[k]) \in Nat
      /\ \A i \in 1 .. Len(before) : K[i] = IF before[i] = x THEN K[i-1]
                                            ELSE Append(K[i-1], before[i])
      /\ LoopAt(p, k, K[k])
      /\ x = cmd'[p].arg /\ K = Keep(before', cmd'[p].arg)
  <2>1. before \in Seq(Values) /\ Len(before) \in Nat
    BY DEF IInv, TypeOK
  <2>2. /\ \A i \in 0 .. Len(before) : K[i] \in Seq(Values)
        /\ \A i \in 1 .. Len(before) : K[i] = IF before[i] = x THEN K[i-1]
                                              ELSE Append(K[i-1], before[i])
    <3> DEFINE J == Keep(before, x)
    <3>1. K = J
      OBVIOUS
    <3>2. /\ \A i \in 0 .. Len(before) : J[i] \in Seq(Values)
          /\ \A i \in 1 .. Len(before) : J[i] = IF before[i] = x THEN J[i-1]
                                                ELSE Append(J[i-1], before[i])
      BY <2>1, KeepSteps
    <3> QED BY <3>1, <3>2
  <2>3. K[k] \in Seq(Values)
    BY <2>2
  <2> QED BY <1>1, <1>3, <2>1, <2>2, <2>3
<1>5. InAdd(p)' /\ InRead(p)' /\ InCleanup(p)'
  BY <1>1 DEF InAdd, InRead, InCleanup
<1>6. CASE data[pos[p]] = x
  <2>1. /\ stores' = [stores EXCEPT ![p] = ListDel(mem, pos[p])]
        /\ pc' = [pc EXCEPT ![p] = "store"] /\ UNCHANGED <<pos, n>>
    BY <1>6 DEF Match, Goto
  <2>2. /\ TypeOK' /\ Typed' /\ Locked' /\ Calls' /\ Ownership' /\ Linked'
        /\ k + 1 \in 1 .. Len(before) /\ data[pos[p]] = before[k+1]
        /\ LoopAt(p, k + 1, K[k])'
    <3>1. UNCHANGED <<version, mem, data, live, sp, cmd, pos, n, out, before, last>>
      BY <1>1, <2>1
    <3> QED BY <1>1, <1>4, <2>1, <3>1, TakesOut
  <2>3. K[k+1] = K[k]
    <3>1. (k + 1) - 1 = k /\ before[k+1] = x
      BY <1>6, <2>2
    <3> QED BY <1>4, <2>2, <3>1
  <2>4. InRemove(p)'
    BY <1>1, <1>4, <2>2, <2>3 DEF InRemove
  <2>5. Progress'
    BY <1>1, <1>2, <1>5, <2>4 DEF Progress
  <2> QED BY <2>2, <2>5 DEF IInv
<1>7. CASE data[pos[p]] # x
  <2>1. Advance(p) /\ UNCHANGED <<pc, stores>>
    BY <1>7 DEF Match
  <2> DEFINE at == Len(K[k]) + 1
  <2>2. Partly(Content, before, K[k], k) /\ pos[p] = Entry(Elements, at) /\ n[p] = Entry(Elements, at + 1)
    BY <1>1, <1>4 DEF LoopAt
  <2>3. /\ Content \in Seq(Values) /\ Len(Elements) \in Nat /\ Len(Content) = Len(Elements)
        /\ \A i \in 1 .. Len(Elements) : Content[i] = data[Elements[i]]
    BY ListFacts
  <2>4. at \in 1 .. Len(Elements) /\ pos[p] = Elements[at]
    <3>1. at \in 1 .. Len(Elements) + 1
      BY <1>4, <2>2, <2>3 DEF Partly
    <3> HIDE DEF at
    <3> QED BY <1>1, <1>2, <2>2, <3>1, Walk
  <2>5. /\ k + 1 \in 1 .. Len(before) /\ Content[at] = before[k+1]
        /\ Len(Append(K[k], before[k+1])) = at
        /\ Partly(Content, before, Append(K[k], before[k+1]), k + 1)
    <3>1. Len(K[k]) + 1 <= Len(Content)
      BY <2>3, <2>4
    <3> QED BY <1>4, <2>2, <2>3, <3>1, PartlyNext
  <2> HIDE DEF at
  <2>6. before[k+1] # x
    BY <1>7, <2>3, <2>4, <2>5
  <2>7. K[k+1] = Append(K[k], before[k+1])
    <3>1. (k + 1) - 1 = k
      OBVIOUS
    <3> QED BY <1>4, <2>5, <2>6, <3>1
  <2>8. pos \in [Procs -> Entries] /\ n \in [Procs -> Entries] /\ at + 1 \in 1 .. Len(Elements) + 1
    BY <2>3, <2>4 DEF IInv, TypeOK
  <2>9. /\ pos' \in [Procs -> Entries] /\ n' \in [Procs -> Entries]
        /\ pos'[p] = Entry(Elements, at + 1) /\ \A q \in Procs \ {p} : pos'[q] = pos[q]
        /\ pos'[p] # HEAD => n'[p] = Entry(Elements, (at + 1) + 1)
    BY <1>2, <2>1, <2>2, <2>8, GoesOn
  <2>10. Settled' = Settled /\ Elements' = Elements /\ Content' = Content
    BY <1>1, <2>1 DEF Settled, Elements, Content, Items
  <2>11. TypeOK' /\ Typed' /\ Locked' /\ Calls'
    BY <1>1, <2>1, <2>9 DEF IInv, TypeOK, Typed, Locked, Calls
  <2>12. Ownership'
    <3>1. \A q \in Procs : (Adding(q)' <=> Adding(q)) /\ (Owner(q)' <=> Owner(q))
      BY <1>1, <2>1 DEF Adding, Leaving, Owner
    <3>2. ~Owner(p) /\ \A q \in Procs : Adding(q) => Owner(q)
      BY <1>1 DEF Adding, Leaving, Owner
    <3> QED BY <1>1, <2>9, <2>10, <3>1, <3>2 DEF IInv, Ownership
  <2>13. Linked'
    BY <1>1, <2>10 DEF IInv, Linked
  <2>14. LoopAt(p, k + 1, K[k+1])'
    <3>1. pc'[p] = "visit" /\ Len(K[k+1]) + 1 = at + 1
      BY <1>1, <2>1, <2>5, <2>7
    <3>2. Partly(Content', before', K[k+1], k + 1)
      BY <1>1, <2>5, <2>7, <2>10
    <3>3. /\ pos'[p] = Entry(Elements', Len(K[k+1]) + 1)
          /\ pos'[p] # HEAD => n'[p] = Entry(Elements', (Len(K[k+1]) + 1) + 1)
      BY <2>9, <2>10, <3>1
    <3> QED BY <3>1, <3>2, <3>3, Zenon DEF LoopAt
  <2>15. InRemove(p)'
    BY <1>1, <1>4, <2>5, <2>14 DEF InRemove
  <2>16. Progress'
    BY <1>1, <1>2, <1>5, <2>15 DEF Progress
  <2> QED BY <2>11, <2>12, <2>13, <2>16 DEF IInv
<1> QED BY <1>6, <1>7

\* modlist_cleanup takes out one element.
LEMMA SweepKeeps ==
  ASSUME IInv, NEW p \in Procs, Sweep(p)
  PROVE  IInv'
<1>1. /\ pc[p] = "visit" /\ cmd[p].op = "cleanup" /\ pos[p] # HEAD
      /\ stores' = [stores EXCEPT ![p] = ListDel(mem, pos[p])]
      /\ pc' = [pc EXCEPT ![p] = "store"]
      /\ UNCHANGED <<version, mem, data, live, sp, cmd, pos, n, out, before, last>>
  BY DEF Sweep, Goto
<1>2. sp = p
  BY <1>1 DEF IInv, Locked
<1>3. PICK k \in 0 .. Len(before) : LoopAt(p, k, <<>>)
  BY <1>1, <1>2 DEF IInv, Progress, InCleanup
<1>4. /\ TypeOK' /\ Typed' /\ Locked' /\ Calls' /\ Ownership' /\ Linked'
      /\ k + 1 \in 1 .. Len(before) /\ LoopAt(p, k + 1, <<>>)'
  <2>1. <<>> \in Seq(Values)
    OBVIOUS
  <2> QED BY <1>1, <1>3, <2>1, TakesOut
<1>5. InCleanup(p)'
  BY <1>1, <1>4 DEF InCleanup
<1>6. InAdd(p)' /\ InRead(p)' /\ InRemove(p)'
  BY <1>1 DEF InAdd, InRead, InRemove
<1>7. Progress'
  BY <1>1, <1>2, <1>5, <1>6 DEF Progress
<1> QED BY <1>4, <1>7 DEF IInv

\* vfree, and on.
LEMMA FreeItemKeeps ==
  ASSUME IInv, NEW p \in Procs, FreeItem(p)
  PROVE  IInv'
<1>1. /\ pc[p] = "free" /\ live' = live \ {pos[p]} /\ Advance(p)
      /\ pc' = [pc EXCEPT ![p] = "visit"]
      /\ UNCHANGED <<version, mem, data, sp, cmd, stores, out, before, last>>
  BY DEF FreeItem, Goto
<1>2. /\ sp = p /\ Settled = mem /\ Ring(mem, Elements) /\ Len(Elements) \in Nat
      /\ Len(Content) = Len(Elements)
  <2>1. sp = p
    BY <1>1 DEF IInv, Locked
  <2> QED BY <1>1, <2>1, ListFacts
<1>3. /\ cmd[p] \in Commands /\ cmd[p].op \notin {"add", "read"} /\ version = "Pr3"
      /\ stores[p] = <<>> /\ out[p] = <<>>
  BY <1>1 DEF IInv, Calls
<1>4. /\ pc \in [Procs -> {"idle", "lock", "store", "visit", "free", "unlock"}]
      /\ pos \in [Procs -> Entries] /\ n \in [Procs -> Entries] /\ before \in Seq(Values)
  BY DEF IInv, TypeOK
<1>5. Settled' = Settled /\ Elements' = Elements /\ Content' = Content
  BY <1>1 DEF Settled, Elements, Content, Items
\* Both loops save in n where they go on.
<1>6. ASSUME NEW k \in 0 .. Len(before), NEW kept \in Seq(Values), LoopAt(p, k, kept)
      PROVE  LoopAt(p, k, kept)' /\ pos' \in [Procs -> Entries] /\ n' \in [Procs -> Entries]
  <2> DEFINE at == Len(kept) + 1
  <2>1. Partly(Content, before, kept, k) /\ n[p] = Entry(Elements, at)
    BY <1>1, <1>6 DEF LoopAt
  <2>2. at \in 1 .. Len(Elements) + 1
    <3>1. Len(Elements) = Len(kept) + Len(before) - k
      BY <1>2, <2>1 DEF Partly
    <3>2. Len(before) \in Nat /\ Len(kept) \in Nat /\ k \in Nat /\ k <= Len(before)
      BY <1>4
    <3> QED BY <1>2, <3>1, <3>2
  <2>3. /\ pos' \in [Procs -> Entries] /\ n' \in [Procs -> Entries]
        /\ pos'[p] = Entry(Elements, at)
        /\ pos'[p] # HEAD => n'[p] = Entry(Elements, at + 1)
    <3> HIDE DEF at
    <3> QED BY <1>1, <1>2, <1>4, <2>1, <2>2, GoesOn
  <2>4. pc'[p] = "visit"
    BY <1>1, <1>4
  <2>5. Partly(Content', before', kept, k)
    BY <1>1, <1>5, <2>1
  <2>6. /\ pos'[p] = Entry(Elements', Len(kept) + 1)
        /\ pos'[p] # HEAD => n'[p] = Entry(Elements', (Len(kept) + 1) + 1)
    BY <1>5, <2>3
  <2>7. LoopAt(p, k, kept)'
    BY <2>4, <2>5, <2>6, Zenon DEF LoopAt
  <2> QED BY <2>3, <2>7
<1>7. /\ pos' \in [Procs -> Entries] /\ n' \in [Procs -> Entries]
      /\ InRemove(p)' /\ InCleanup(p)'
  <2>1. CASE cmd[p].op = "remove"
    <3>1. PICK k \in 0 .. Len(before) : LoopAt(p, k, Keep(before, cmd[p].arg)[k])
      BY <1>2, <2>1 DEF IInv, Progress, InRemove
    <3> PICK K : K = Keep(before, cmd[p].arg)
      OBVIOUS
    <3>2. K[k] \in Seq(Values) /\ K = Keep(before', cmd'[p].arg) /\ LoopAt(p, k, K[k])
      BY <1>1, <1>4, <3>1, KeepSteps
    <3>3. LoopAt(p, k, K[k])' /\ pos' \in [Procs -> Entries] /\ n' \in [Procs -> Entries]
      BY <1>6, <3>1, <3>2
    <3> QED BY <1>1, <2>1, <3>2, <3>3 DEF InRemove, InCleanup
  <2>2. CASE cmd[p].op = "cleanup"
    <3>1. PICK k \in 0 .. Len(before) : LoopAt(p, k, <<>>)
      BY <1>2, <2>2 DEF IInv, Progress, InCleanup
    <3>2. <<>> \in Seq(Values)
      OBVIOUS
    <3>3. LoopAt(p, k, <<>>)' /\ pos' \in [Procs -> Entries] /\ n' \in [Procs -> Entries]
      BY <1>6, <3>1, <3>2
    <3> QED BY <1>1, <2>2, <3>3 DEF InRemove, InCleanup
  <2> QED BY <1>3, <2>1, <2>2 DEF Commands, Command
<1>8. TypeOK'
  BY <1>1, <1>4, <1>7 DEF IInv, TypeOK
<1>9. Typed' /\ Locked' /\ Calls'
  BY <1>1, <1>2, <1>3, <1>4 DEF IInv, Typed, Locked, Calls
<1>10. Ownership'
  <2>1. /\ \A q \in Procs : Adding(q)' <=> Adding(q)
        /\ \A q \in Procs \ {p} : (Owner(q)' <=> Owner(q)) /\ pos'[q] = pos[q]
        /\ Owner(p) /\ ~Owner(p)' /\ ~Adding(p)
    BY <1>1, <1>3, <1>4 DEF Adding, Leaving, Owner, Advance
  <2>2. /\ pos[p] \notin ToSet(Elements)
        /\ \A q \in Procs \ {p} : Owner(q) => pos[q] # pos[p]
    BY <2>1 DEF IInv, Ownership
  <2>3. live' = ToSet(Elements) \cup {pos'[q] : q \in {r \in Procs : Owner(r)'}}
    BY <1>1, <2>1, <2>2 DEF IInv, Ownership
  <2>4. /\ \A q \in Procs : Owner(q)' => pos'[q] \in Nodes \ ToSet(Elements)
        /\ \A q, r \in Procs : Owner(q)' /\ Owner(r)' /\ pos'[q] = pos'[r] => q = r
        /\ \A q \in Procs : Adding(q)' => data'[pos'[q]] = cmd'[q].arg
    BY <1>1, <2>1 DEF IInv, Ownership
  <2> QED BY <1>1, <1>3, <1>5, <2>3, <2>4 DEF Ownership
<1>11. Linked'
  BY <1>1, <1>5 DEF IInv, Linked
<1>12. Progress'
  <2>1. InAdd(p)' /\ InRead(p)'
    BY <1>1, <1>3 DEF InAdd, InRead
  <2> QED BY <1>1, <1>2, <1>7, <2>1 DEF Progress
<1> QED BY <1>8, <1>9, <1>10, <1>11, <1>12 DEF IInv

\* spin_unlock and return.
LEMMA UnlockKeeps ==
  ASSUME IInv, NEW p \in Procs, Unlock(p)
  PROVE  IInv'
<1>1. /\ pc[p] \in {"unlock", "visit"} /\ sp' = Free /\ before' = <<>>
      /\ pc' = [pc EXCEPT ![p] = "idle"]
      /\ cmd' = [cmd EXCEPT ![p] = None] /\ out' = [out EXCEPT ![p] = <<>>]
      /\ pos' = [pos EXCEPT ![p] = HEAD] /\ n' = [n EXCEPT ![p] = HEAD]
      /\ UNCHANGED <<version, mem, data, live, stores>>
  BY DEF Unlock, Goto
<1>2. /\ sp = p /\ Settled = mem /\ Ring(mem, Elements)
      /\ \A q \in Procs \ {p} : pc[q] \in {"idle", "lock"}
  <2>1. /\ sp = p
        /\ \A q \in Procs \ {p} : pc[q] \notin {"store", "visit", "free", "unlock"}
    BY <1>1 DEF IInv, Locked
  <2>2. \A q \in Procs \ {p} : pc[q] \in {"idle", "lock"}
    BY <2>1 DEF IInv, TypeOK
  <2> QED BY <1>1, <2>1, <2>2, ListFacts
<1>3. /\ pc \in [Procs -> {"idle", "lock", "store", "visit", "free", "unlock"}]
      /\ pos \in [Procs -> Entries] /\ n \in [Procs -> Entries] /\ out \in [Procs -> Seq(Values)]
      /\ cmd \in [Procs -> Commands \cup {None}]
  BY DEF IInv, TypeOK, Typed
<1>4. Settled' = mem /\ Elements' = Elements /\ Content' = Content
  <2>1. Settled' = mem
    BY <1>1, ModlistAssumption DEF Settled
  <2> QED BY <1>1, <1>2, <2>1 DEF Elements, Content, Items
<1>5. TypeOK'
  <2>1. HEAD \in Entries /\ <<>> \in Seq(Values)
    BY DEF Entries
  <2> QED BY <1>1, <1>3, <2>1 DEF IInv, TypeOK
<1>6. Typed' /\ Locked'
  BY <1>1, <1>2, <1>3, ModlistAssumption DEF IInv, Typed, Locked
<1>7. Calls'
  <2>1. /\ pc'[p] = "idle" /\ cmd'[p] = None /\ None.op = "none" /\ stores'[p] = <<>>
        /\ out'[p] = <<>>
    BY <1>1, <1>3 DEF IInv, Calls, None, Command
  <2>2. \A q \in Procs \ {p} : /\ pc'[q] = pc[q] /\ cmd'[q] = cmd[q]
                              /\ stores'[q] = stores[q] /\ out'[q] = out[q]
    BY <1>1, <1>3
  <2> QED BY <1>1, <2>1, <2>2 DEF IInv, Calls
<1>8. Ownership'
  <2>1. /\ \A q \in Procs : Adding(q)' <=> Adding(q)
        /\ \A q \in Procs : Owner(q)' <=> Owner(q)
        /\ ~Owner(p)
        /\ \A q \in Procs \ {p} : pos'[q] = pos[q] /\ cmd'[q] = cmd[q]
    BY <1>1, <1>2, <1>3 DEF Adding, Leaving, Owner
  <2>2. \A q \in Procs : Adding(q) => Owner(q)
    BY DEF Owner
  <2> QED BY <1>1, <1>4, <2>1, <2>2 DEF IInv, Ownership
<1>9. Linked'
  BY <1>1, <1>2, <1>4 DEF IInv, Linked
<1>10. Progress'
  BY <1>1, ModlistAssumption DEF Progress
<1> QED BY <1>5, <1>6, <1>7, <1>8, <1>9, <1>10 DEF IInv
-----------------------------------------------------------------------------
(* The steps with no call in progress.                                     *)

\* Then the lock is free and every element is linked.
LEMMA IdleFacts ==
  ASSUME IInv, Idle
  PROVE  /\ sp = Free /\ Settled = mem /\ Content = Items(mem)
         /\ Ring(mem, Elements) /\ mem \in Memory /\ live = ToSet(Elements)
         /\ \A p \in Procs : /\ pc[p] = "idle" /\ cmd[p] = None /\ stores[p] = <<>> /\ out[p] = <<>>
                             /\ cmd[p].op = "none" /\ ~Owner(p)
<1>1. \A p \in Procs : /\ pc[p] = "idle" /\ cmd[p] = None /\ stores[p] = <<>> /\ out[p] = <<>>
                       /\ cmd[p].op = "none"
  BY DEF Idle, IInv, Calls, None, Command
<1>2. \A p \in Procs : ~Owner(p)
  BY <1>1 DEF Owner, Adding, Leaving
<1>3. sp = Free
  <2>1. \A p \in Procs : sp # p
    BY <1>1 DEF IInv, Locked
  <2> QED BY <2>1 DEF IInv, TypeOK
<1>4. live = ToSet(Elements)
  BY <1>2 DEF IInv, Ownership
<1>5. Settled = mem /\ Ring(mem, Elements) /\ mem \in Memory
  BY <1>3, ListFacts DEF IInv, TypeOK
<1> QED BY <1>1, <1>2, <1>3, <1>4, <1>5 DEF Content

\* A version without a lock runs no call in steps.
LEMMA UnlockedIdle ==
  ASSUME IInv, version # "Pr3"
  PROVE  Idle
BY DEF IInv, Calls, Idle

\* What such a step has to see to: the list is a ring of all that is allocated.
LEMMA IdleStep ==
  ASSUME IInv, Idle, UNCHANGED <<sp, procVars, before>>,
         version' \in Unlocked \cup {"none", "Pr3"}, mem' \in Memory,
         NEW d, Ring(mem', d), live' = ToSet(d), data' \in [Nodes -> Values \cup {0}],
         \A i \in 1 .. Len(d) : data'[d[i]] \in Values,
         version' = "none" => d = <<>>
  PROVE  IInv' /\ Items(mem)' = [i \in 1 .. Len(d) |-> data'[d[i]]]
<1>1. /\ sp = Free
      /\ \A p \in Procs : /\ pc[p] = "idle" /\ cmd[p] = None /\ stores[p] = <<>> /\ out[p] = <<>>
                          /\ cmd[p].op = "none" /\ ~Owner(p)
  BY IdleFacts
<1>2. UNCHANGED <<sp, pc, cmd, pos, n, stores, out, before>>
  BY DEF procVars
<1>3. Settled' = mem' /\ Elements' = d
  <2>1. Settled' = mem'
    BY <1>1, <1>2, ModlistAssumption DEF Settled
  <2> QED BY <2>1, ChainFound DEF Elements
<1>4. d \in Seq(Nodes) /\ ToSet(d) \subseteq Nodes /\ (d = <<>> => ToSet(d) = {})
  BY DEF Ring, ToSet
<1>5. TypeOK'
  BY <1>2, <1>4 DEF IInv, TypeOK
<1>6. Typed' /\ Locked'
  BY <1>2 DEF IInv, Typed, Locked
<1>7. Calls'
  BY <1>1, <1>2 DEF IInv, Calls
<1>8. Ownership'
  <2>1. \A p \in Procs : ~Owner(p)' /\ ~Adding(p)'
    BY <1>1, <1>2 DEF Owner, Adding, Leaving
  <2> QED BY <1>3, <1>4, <2>1 DEF Ownership
<1>9. Linked'
  BY <1>3 DEF Linked
<1>10. Progress'
  BY <1>1, <1>2, ModlistAssumption DEF Progress
<1>11. Items(mem)' = [i \in 1 .. Len(d) |-> data'[d[i]]]
  BY ChainFound DEF Items
<1> QED BY <1>5, <1>6, <1>7, <1>8, <1>9, <1>10, <1>11 DEF IInv

\* The list is emptied.
LEMMA EmptiedEffect ==
  ASSUME IInv, Idle
  PROVE  /\ DelAll(mem, live) \in Memory /\ Ring(DelAll(mem, live), <<>>)
         /\ live \ ToSet(Chain(mem)) = ToSet(<<>>)
<1>1. /\ Ring(mem, Elements) /\ mem \in Memory /\ live = ToSet(Elements)
      /\ Elements \in Seq(Nodes)
  BY IdleFacts DEF Ring
<1>2. PICK kept : Sieve(kept, Elements, live)
  BY <1>1, SieveExists
<1>3. kept[Len(Elements)] = <<>>
  BY <1>1, <1>2, SieveElements
<1>4. DelAll(mem, live) \in Memory /\ Ring(DelAll(mem, live), kept[Len(Elements)])
  BY <1>1, <1>2, DelAllSieves
<1>5. live \ ToSet(Chain(mem)) = {} /\ ToSet(<<>>) = {}
  BY <1>1, ChainFound DEF ToSet
<1> QED BY <1>3, <1>4, <1>5

\* Every element with one value is taken out.
LEMMA RemovedEffect ==
  ASSUME IInv, Idle, NEW x
  PROVE  LET gone == {e \in ToSet(Chain(mem)) : data[e] = x}
             r == DelAll(mem, gone)
         IN  /\ r \in Memory
             /\ \E d : /\ Ring(r, d) /\ ToSet(d) = live \ gone
                       /\ [i \in 1 .. Len(d) |-> data[d[i]]]
                            = Keep(Items(mem), x)[Len(Items(mem))]
<1> DEFINE c == Elements
           gone == {e \in ToSet(Chain(mem)) : data[e] = x}
           r == DelAll(mem, gone)
<1>1. /\ Ring(mem, c) /\ mem \in Memory /\ live = ToSet(c) /\ c \in Seq(Nodes)
      /\ Chain(mem) = c /\ Items(mem) = [i \in 1 .. Len(c) |-> data[c[i]]]
  BY IdleFacts, ChainFound, ItemsFound DEF Ring
<1>2. gone = {e \in ToSet(c) : data[e] = x}
  BY <1>1
<1>3. \A i \in 1 .. Len(c) : data[c[i]] \in Values
  BY DEF IInv, Linked
<1> HIDE DEF gone, c
<1>4. PICK kept : Sieve(kept, c, gone)
  BY <1>1, SieveExists
<1> DEFINE d == kept[Len(c)]
<1>5. r \in Memory /\ Ring(r, d)
  BY <1>1, <1>4, DelAllSieves
<1>6. ToSet(d) = live \ gone
  BY <1>1, <1>4, SieveElements
<1>7. [i \in 1 .. Len(d) |-> data[d[i]]] = Keep(Items(mem), x)[Len(Items(mem))]
  <2>1. \A i \in 1 .. Len(c) : c[i] \in gone <=> data[c[i]] = x
    BY <1>1, <1>2 DEF ToSet
  <2> DEFINE s == Items(mem)
             v == Keep(s, x)[Len(s)]
  <2>2. /\ s \in Seq(Values) /\ Len(s) = Len(c) /\ \A i \in 1 .. Len(c) : s[i] = data[c[i]]
        /\ c \in Seq(Nodes) /\ data \in [Nodes -> Values \cup {0}]
    BY <1>1, <1>3 DEF IInv, TypeOK
  <2> HIDE DEF s
  <2>3. v \in Seq(Values) /\ Len(v) = Len(d) /\ \A i \in 1 .. Len(d) : v[i] = data[d[i]]
    <3>1. ValueSieve(kept, c, gone, s, x)
      BY <1>4, <2>1, <2>2 DEF ValueSieve
    <3> QED BY <3>1, SieveValues
  <2>4. v = [i \in 1 .. Len(v) |-> v[i]]
    <3> HIDE DEF v
    <3> QED BY <2>3
  <2> HIDE DEF v, d
  <2>5. [i \in 1 .. Len(d) |-> data[d[i]]] = v
    BY <2>3, <2>4
  <2> QED BY <2>5 DEF v, s
<1> HIDE DEF d, r
<1>8. r \in Memory /\ \E t : /\ Ring(r, t) /\ ToSet(t) = live \ gone
                            /\ [i \in 1 .. Len(t) |-> data[t[i]]]
                                 = Keep(Items(mem), x)[Len(Items(mem))]
  BY <1>5, <1>6, <1>7
<1> QED BY <1>8 DEF gone, r

\* One element is added at the end.
LEMMA AddedEffect ==
  ASSUME IInv, Idle, NEW x \in Values, AddAtTail(x)
  PROVE  /\ mem' \in Memory /\ data' \in [Nodes -> Values \cup {0}]
         /\ \E d : /\ Ring(mem', d) /\ live' = ToSet(d)
                   /\ \A i \in 1 .. Len(d) : data'[d[i]] \in Values
                   /\ [i \in 1 .. Len(d) |-> data'[d[i]]] = Append(Items(mem), x)
<1> DEFINE c == Elements
<1>1. /\ Ring(mem, c) /\ mem \in Memory /\ live = ToSet(c) /\ c \in Seq(Nodes)
      /\ Items(mem) = [i \in 1 .. Len(c) |-> data[c[i]]]
      /\ \A i \in 1 .. Len(c) : c[i] \in Nodes /\ c[i] \in ToSet(c)
  BY IdleFacts, ItemsFound DEF Ring
<1>2. \A i \in 1 .. Len(c) : data[c[i]] \in Values
  BY DEF IInv, Linked
<1>3. data \in [Nodes -> Values \cup {0}]
  BY DEF IInv, TypeOK
<1>4. PICK e \in Nodes \ live : /\ live' = live \cup {e} /\ data' = [data EXCEPT ![e] = x]
                                /\ mem' = PutAll(mem, ListAddTail(mem, e))
  BY DEF AddAtTail
<1> HIDE DEF c
<1> DEFINE d == Append(c, e)
<1>5. mem' \in Memory /\ Ring(mem', d)
  BY <1>1, <1>4, AddTail
<1>6. live' = ToSet(d)
  BY <1>1, <1>4, AppendSet
<1>7. /\ Len(c) \in Nat /\ Len(d) = Len(c) + 1 /\ d[Len(c) + 1] = e
      /\ \A i \in 1 .. Len(c) : d[i] = c[i]
  BY <1>1
<1>8. data'[e] = x /\ \A i \in 1 .. Len(c) : data'[c[i]] = data[c[i]]
  BY <1>1, <1>3, <1>4
<1>9. [i \in 1 .. Len(d) |-> data'[d[i]]] = Append(Items(mem), x)
  <2>1. [i \in 1 .. Len(d) |-> data'[d[i]]]
          = Append([i \in 1 .. Len(c) |-> data'[c[i]]], data'[e])
    BY <1>1, <1>4, ValuesAppend
  <2>2. [i \in 1 .. Len(c) |-> data'[c[i]]] = Items(mem)
    BY <1>1, <1>8
  <2> QED BY <1>8, <2>1, <2>2
<1> HIDE DEF d
<1>10. \A i \in 1 .. Len(d) : data'[d[i]] \in Values
  BY <1>2, <1>7, <1>8
<1>11. data' \in [Nodes -> Values \cup {0}]
  BY <1>3, <1>4
<1> QED BY <1>5, <1>6, <1>9, <1>10, <1>11

\* The elements are linked again in another order.
LEMMA SortedEffect ==
  ASSUME IInv, Idle, Sort
  PROVE  /\ mem' \in Memory
         /\ \E d : /\ Ring(mem', d) /\ live = ToSet(d)
                   /\ \A i \in 1 .. Len(d) : data[d[i]] \in Values
                   /\ Promise!Sorts(Items(mem), [i \in 1 .. Len(d) |-> data[d[i]]])
<1> DEFINE c == Elements
           N == Len(c)
<1>1. /\ Ring(mem, c) /\ mem \in Memory /\ live = ToSet(c) /\ c \in Seq(Nodes)
      /\ Chain(mem) = c /\ Items(mem) = [i \in 1 .. N |-> data[c[i]]]
      /\ N \in Nat /\ DOMAIN c = 1 .. N
      /\ \A i \in 1 .. N : c[i] \in Nodes
      /\ \A i, j \in 1 .. N : c[i] = c[j] => i = j
  BY IdleFacts, ChainFound, ItemsFound DEF Ring
<1>2. \A i \in 1 .. N : data[c[i]] \in Values
  BY DEF IInv, Linked
<1>3. PICK h \in Bijection(1 .. N, 1 .. N) :
        /\ \A i, j \in 1 .. N : i < j => data[c[h[i]]] < data[c[h[j]]]
                                         \/ (data[c[h[i]]] = data[c[h[j]]] /\ h[i] < h[j])
        /\ mem' = Relinked(mem, [i \in 1 .. N |-> c[h[i]]])
  <2> PICK b : b = Chain(mem)
    OBVIOUS
  <2>1. PICK h \in Bijection(DOMAIN b, DOMAIN b) :
          /\ \A i, j \in DOMAIN b : i < j => data[b[h[i]]] < data[b[h[j]]]
                                            \/ (data[b[h[i]]] = data[b[h[j]]] /\ h[i] < h[j])
          /\ mem' = Relinked(mem, [i \in DOMAIN b |-> b[h[i]]])
    BY Zenon DEF Sort
  <2>2. b = c /\ DOMAIN b = 1 .. N
    BY <1>1
  <2>3. Bijection(DOMAIN b, DOMAIN b) = Bijection(1 .. N, 1 .. N)
    BY <2>2
  <2>4. h \in Bijection(1 .. N, 1 .. N)
    BY <2>1, <2>3
  <2>5. [i \in DOMAIN b |-> b[h[i]]] = [i \in 1 .. N |-> c[h[i]]]
    BY <2>2
  <2> HIDE DEF c, N
  <2>6. mem' = Relinked(mem, [i \in 1 .. N |-> c[h[i]]])
    BY <2>1, <2>5
  <2>7. ASSUME NEW i \in 1 .. N, NEW j \in 1 .. N, i < j
        PROVE  data[c[h[i]]] < data[c[h[j]]] \/ (data[c[h[i]]] = data[c[h[j]]] /\ h[i] < h[j])
    BY <2>1, <2>2, <2>7
  <2> QED BY <2>4, <2>6, <2>7
<1>4. /\ h \in [1 .. N -> 1 .. N] /\ \A i, j \in 1 .. N : h[i] = h[j] => i = j
      /\ \A k \in 1 .. N : \E i \in 1 .. N : h[i] = k
  BY <1>3 DEF Bijection, Injection, Surjection, IsInjective
<1> HIDE DEF c, N
<1> DEFINE d == [i \in 1 .. N |-> c[h[i]]]
           s == [i \in 1 .. N |-> data[c[i]]]
           t == [i \in 1 .. N |-> data[d[i]]]
<1>5. /\ d \in Seq(Nodes) /\ Len(d) = N /\ \A i \in 1 .. N : d[i] = c[h[i]]
      /\ \A i, j \in 1 .. N : d[i] = d[j] => i = j
  <2>1. d \in Seq(Nodes) /\ Len(d) = N /\ \A i \in 1 .. N : d[i] = c[h[i]]
    BY <1>1, <1>4
  <2>2. \A i, j \in 1 .. N : c[i] = c[j] => i = j
    BY <1>1
  <2> HIDE DEF d
  <2>3. ASSUME NEW i \in 1 .. N, NEW j \in 1 .. N, d[i] = d[j] PROVE i = j
    <3>1. h[i] \in 1 .. N /\ h[j] \in 1 .. N /\ c[h[i]] = c[h[j]]
      BY <1>4, <2>1, <2>3
    <3>2. h[i] = h[j]
      BY <2>2, <3>1
    <3> QED BY <1>4, <3>2
  <2> QED BY <2>1, <2>3
<1> HIDE DEF d
<1>6. mem' \in Memory /\ Ring(mem', d)
  BY <1>1, <1>3, <1>5, RelinkedRing DEF d
<1>7. live = ToSet(d)
  <2>1. ToSet(d) = {d[i] : i \in 1 .. N} /\ ToSet(c) = {c[i] : i \in 1 .. N}
    BY <1>1, <1>5 DEF ToSet
  <2>2. {d[i] : i \in 1 .. N} = {c[i] : i \in 1 .. N}
    <3>1. \A i \in 1 .. N : d[i] = c[h[i]] /\ h[i] \in 1 .. N
      BY <1>4, <1>5
    <3>2. ASSUME NEW k \in 1 .. N PROVE \E i \in 1 .. N : d[i] = c[k]
      BY <1>4, <3>1
    <3>3. {d[i] : i \in 1 .. N} \subseteq {c[i] : i \in 1 .. N}
      BY <3>1
    <3>4. {c[i] : i \in 1 .. N} \subseteq {d[i] : i \in 1 .. N}
      BY <3>2
    <3> QED BY <3>3, <3>4
  <2> QED BY <1>1, <2>1, <2>2
<1>8. \A i \in 1 .. Len(d) : data[d[i]] \in Values
  BY <1>2, <1>4, <1>5 DEF c, N
<1>9. Promise!Sorts(s, t)
  <2>1. DOMAIN s = 1 .. N /\ DOMAIN t = 1 .. N
    OBVIOUS
  <2>2. t = [i \in 1 .. N |-> s[h[i]]]
    BY <1>4, <1>5
  <2>3. ASSUME NEW i \in 1 .. N, NEW j \in 1 .. N, i < j PROVE t[i] <= t[j]
    <3>1. t[i] = data[c[h[i]]] /\ t[j] = data[c[h[j]]]
      BY <1>5
    <3>2. t[i] \in Int /\ t[j] \in Int
      BY <1>2, <1>4, <3>1, ModlistAssumption DEF c, N
    <3> HIDE DEF t
    <3> QED BY <1>3, <2>3, <3>1, <3>2
  <2> HIDE DEF s, t
  <2>4. \E f \in Bijection(DOMAIN s, DOMAIN s) : t = [i \in DOMAIN s |-> s[f[i]]]
    BY <1>3, <2>1, <2>2
  <2>5. \A i, j \in DOMAIN t : i < j => t[i] <= t[j]
    BY <2>1, <2>3
  <2>6. Promise!Bijection(DOMAIN s, DOMAIN s) = Bijection(DOMAIN s, DOMAIN s)
    BY DEF Bijection, Injection, Surjection, IsInjective,
           Promise!Bijection, Promise!Injection, Promise!Surjection, Promise!IsInjective
  <2> QED BY <2>4, <2>5, <2>6 DEF Promise!Sorts
<1>10. [i \in 1 .. Len(d) |-> data[d[i]]] = t
  BY <1>5
<1>11. Items(mem) = s
  BY <1>1
<1> HIDE DEF s, t
<1> QED BY <1>6, <1>7, <1>8, <1>9, <1>10, <1>11
-----------------------------------------------------------------------------
(* The list the module shows, and what becomes of it.                      *)

\* Between critical sections the items, and in one what they were before.
Shown == IF sp = Free THEN Items(mem) ELSE before

\* What the loop that removes x leaves of a list.
LEMMA OthersKept ==
  ASSUME NEW s, NEW x
  PROVE  Promise!Others(s, x) = Keep(s, x)[Len(s)]
BY Zenon DEF Promise!Others, Keep

\* An unlocked call has the module to itself.
LEMMA AloneFacts ==
  ASSUME IInv, NEW versions \in SUBSET Unlocked, NEW op, NEW arg, NEW printed,
         Alone(versions, op, arg, printed)
  PROVE  /\ Idle /\ UNCHANGED <<sp, procVars, before>> /\ version' = version
         /\ version' \in Unlocked /\ version' # "none"
         /\ Shown = Items(mem) /\ Shown' = Items(mem)'
         /\ last' = Promise!Command(op, arg, printed)
<1>1. /\ version \in Unlocked /\ version' = version /\ UNCHANGED <<sp, procVars, before>>
      /\ last' = Command(op, arg, printed)
  BY DEF Alone
<1>2. version # "Pr3" /\ version # "none"
  BY <1>1 DEF Unlocked
<1>3. Idle
  BY <1>2, UnlockedIdle
<1>4. sp = Free
  BY <1>3, IdleFacts
<1> QED BY <1>1, <1>2, <1>3, <1>4 DEF Shown, Command, Promise!Command

\* The module is loaded.
LEMMA LoadKeeps ==
  ASSUME IInv, NEW v \in Unlocked \cup {"Pr3"}, Load(v)
  PROVE  IInv' /\ Shown = <<>> /\ Shown' = <<>> /\ last' = Promise!None
<1>1. /\ version = "none" /\ version' = v /\ mem' = EmptyList /\ last' = None
      /\ UNCHANGED <<data, live, sp, procVars, before>>
  BY DEF Load
<1>2. Idle /\ live = {} /\ data \in [Nodes -> Values \cup {0}]
  BY <1>1, UnlockedIdle DEF IInv, Ownership, TypeOK
<1>3. /\ sp = Free /\ ToSet(Elements) = {} /\ Ring(mem, Elements)
  BY <1>2, IdleFacts
<1>4. Elements = <<>>
  <2>1. Elements \in Seq(Nodes) /\ \A i \in 1 .. Len(Elements) : Elements[i] \in ToSet(Elements)
    BY ListFacts
  <2>2. Len(Elements) = 0
    BY <1>3, <2>1
  <2> QED BY <2>1, <2>2
<1>5. Items(mem) = <<>>
  <2>1. Items(mem) = [i \in 1 .. Len(Elements) |-> data[Elements[i]]]
    BY <1>3, ItemsFound
  <2> QED BY <1>4, <2>1
<1>6. IInv' /\ Items(mem)' = [i \in 1 .. Len(<<>>) |-> data'[(<<>>)[i]]]
  <2>1. mem' \in Memory /\ Ring(mem', <<>>)
    BY <1>1, EmptyRing
  <2>2. /\ live' = ToSet(<<>>) /\ data' \in [Nodes -> Values \cup {0}]
        /\ \A i \in 1 .. Len(<<>>) : data'[(<<>>)[i]] \in Values
    BY <1>1, <1>2 DEF ToSet
  <2>3. version' \in Unlocked \cup {"none", "Pr3"} /\ version' # "none"
    BY <1>1 DEF Unlocked
  <2> QED BY <1>1, <1>2, <2>1, <2>2, <2>3, IdleStep
<1>7. Items(mem)' = <<>>
  BY <1>6
<1> QED BY <1>1, <1>3, <1>5, <1>6, <1>7 DEF Shown, None, Command, Promise!None, Promise!Command

\* The list is emptied, by a call alone or by the unloading of the module.
LEMMA EmptyKeeps ==
  ASSUME IInv, Idle, UNCHANGED <<data, sp, procVars, before>>,
         version' \in Unlocked \cup {"none", "Pr3"},
         mem' = DelAll(mem, live), live' = live \ ToSet(Chain(mem))
  PROVE  IInv' /\ Shown' = <<>>
<1>1. sp = Free /\ sp' = sp /\ data' \in [Nodes -> Values \cup {0}]
  BY IdleFacts DEF IInv, TypeOK
<1>2. IInv' /\ Items(mem)' = [i \in 1 .. Len(<<>>) |-> data'[(<<>>)[i]]]
  <2>1. mem' \in Memory /\ Ring(mem', <<>>) /\ live' = ToSet(<<>>)
    BY EmptiedEffect
  <2>2. \A i \in 1 .. Len(<<>>) : data'[(<<>>)[i]] \in Values
    OBVIOUS
  <2>3. UNCHANGED <<sp, procVars, before>>
    OBVIOUS
  <2> QED BY <1>1, <2>1, <2>2, <2>3, IdleStep
<1>3. Items(mem)' = <<>>
  BY <1>2
<1> QED BY <1>1, <1>2, <1>3 DEF Shown

\* An unlocked add.
LEMMA AddKeeps ==
  ASSUME IInv, NEW versions \in SUBSET Unlocked, NEW x \in Values,
         Alone(versions, "add", x, <<>>), AddAtTail(x)
  PROVE  IInv' /\ Shown' = Append(Shown, x) /\ last' = Promise!Command("add", x, <<>>)
<1>1. /\ Idle /\ UNCHANGED <<sp, procVars, before>>
      /\ version' \in Unlocked /\ version' # "none"
      /\ Shown = Items(mem) /\ Shown' = Items(mem)'
      /\ last' = Promise!Command("add", x, <<>>)
  BY AloneFacts
<1>2. mem' \in Memory /\ data' \in [Nodes -> Values \cup {0}]
  BY <1>1, AddedEffect
<1>3. PICK d : /\ Ring(mem', d) /\ live' = ToSet(d)
               /\ \A i \in 1 .. Len(d) : data'[d[i]] \in Values
               /\ [i \in 1 .. Len(d) |-> data'[d[i]]] = Append(Items(mem), x)
  BY <1>1, AddedEffect
<1>4. IInv' /\ Items(mem)' = [i \in 1 .. Len(d) |-> data'[d[i]]]
  BY <1>1, <1>2, <1>3, IdleStep
<1> QED BY <1>1, <1>3, <1>4

\* An unlocked remove.
LEMMA RemoveKeeps ==
  ASSUME IInv, NEW versions \in SUBSET Unlocked, NEW x,
         Alone(versions, "remove", x, <<>>), RemoveAll(x)
  PROVE  /\ IInv' /\ Shown' = Promise!Others(Shown, x)
         /\ last' = Promise!Command("remove", x, <<>>)
<1>1. /\ Idle /\ UNCHANGED <<sp, procVars, before>>
      /\ version' \in Unlocked /\ version' # "none"
      /\ Shown = Items(mem) /\ Shown' = Items(mem)'
      /\ last' = Promise!Command("remove", x, <<>>)
  BY AloneFacts
<1> DEFINE gone == {e \in ToSet(Chain(mem)) : data[e] = x}
<1>2. mem' = DelAll(mem, gone) /\ live' = live \ gone /\ data' = data
  BY DEF RemoveAll
<1>3. /\ mem' \in Memory
      /\ \E d : /\ Ring(mem', d) /\ ToSet(d) = live \ gone
                /\ [i \in 1 .. Len(d) |-> data[d[i]]] = Keep(Items(mem), x)[Len(Items(mem))]
  BY <1>1, <1>2, RemovedEffect
<1>4. PICK d : /\ Ring(mem', d) /\ ToSet(d) = live \ gone
               /\ [i \in 1 .. Len(d) |-> data[d[i]]] = Keep(Items(mem), x)[Len(Items(mem))]
  BY <1>3
<1>5. data \in [Nodes -> Values \cup {0}]
  BY DEF IInv, TypeOK
<1>6. \A i \in 1 .. Len(d) : data[d[i]] \in Values
  <2>1. \A i \in 1 .. Len(d) : d[i] \in live
    BY <1>4, ItemsFound
  <2>2. live = ToSet(Elements)
    BY <1>1, IdleFacts
  <2>3. \A e \in ToSet(Elements) : \E i \in 1 .. Len(Elements) : e = Elements[i]
    BY ListFacts
  <2>4. \A i \in 1 .. Len(Elements) : data[Elements[i]] \in Values
    BY DEF IInv, Linked
  <2> QED BY <2>1, <2>2, <2>3, <2>4
<1> HIDE DEF gone
<1>7. IInv' /\ Items(mem)' = [i \in 1 .. Len(d) |-> data'[d[i]]]
  BY <1>1, <1>2, <1>3, <1>4, <1>5, <1>6, IdleStep
<1>8. Items(mem)' = Keep(Items(mem), x)[Len(Items(mem))]
  BY <1>2, <1>4, <1>7
<1> QED BY <1>1, <1>7, <1>8, OthersKept

\* An unlocked call that leaves the list alone.
LEMMA SameKeeps ==
  ASSUME IInv, NEW versions \in SUBSET Unlocked, NEW op, NEW arg, NEW printed,
         Alone(versions, op, arg, printed), UNCHANGED <<mem, data, live>>
  PROVE  /\ IInv' /\ Shown = Items(mem) /\ Shown' = Shown
         /\ last' = Promise!Command(op, arg, printed)
<1>1. /\ Idle /\ UNCHANGED <<sp, procVars, before>> /\ version' \in Unlocked /\ version' # "none"
      /\ Shown = Items(mem) /\ Shown' = Items(mem)'
      /\ last' = Promise!Command(op, arg, printed)
  BY AloneFacts
<1>2. mem' = mem /\ data' = data /\ live' = live
  OBVIOUS
<1>3. /\ Ring(mem, Elements) /\ mem \in Memory /\ live = ToSet(Elements)
      /\ data \in [Nodes -> Values \cup {0}]
      /\ \A i \in 1 .. Len(Elements) : data[Elements[i]] \in Values
  BY <1>1, IdleFacts DEF IInv, TypeOK, Linked
<1>4. IInv'
  BY <1>1, <1>2, <1>3, IdleStep
<1>5. Items(mem)' = Items(mem)
  BY <1>2 DEF Items
<1> QED BY <1>1, <1>4, <1>5

\* An unlocked read prints everything.
LEMMA ReadKeeps ==
  ASSUME IInv, Read
  PROVE  IInv' /\ Shown' = Shown /\ last' = Promise!Command("read", 0, Shown)
<1>1. Unlocked \in SUBSET Unlocked
  OBVIOUS
<1>2. Alone(Unlocked, "read", 0, Items(mem)) /\ UNCHANGED <<mem, data, live>>
  BY DEF Read
<1>3. /\ IInv' /\ Shown = Items(mem) /\ Shown' = Shown
      /\ last' = Promise!Command("read", 0, Items(mem))
  BY <1>1, <1>2, SameKeeps
<1> QED BY <1>3

\* An unlocked sort.
LEMMA SortKeeps ==
  ASSUME IInv, Sort
  PROVE  IInv' /\ Promise!Sorts(Shown, Shown') /\ last' = Promise!Command("sort", 0, <<>>)
<1>1. /\ Idle /\ UNCHANGED <<sp, procVars, before>> /\ version' \in Unlocked /\ version' # "none"
      /\ Shown = Items(mem) /\ Shown' = Items(mem)'
      /\ last' = Promise!Command("sort", 0, <<>>)
  <2>1. {"sorted"} \in SUBSET Unlocked /\ Alone({"sorted"}, "sort", 0, <<>>)
    BY DEF Sort, Unlocked
  <2> QED BY <2>1, AloneFacts
<1>2. data' = data /\ live' = live /\ data \in [Nodes -> Values \cup {0}]
  BY DEF Sort, IInv, TypeOK
<1>3. mem' \in Memory
  BY <1>1, SortedEffect
<1>4. PICK d : /\ Ring(mem', d) /\ live = ToSet(d)
               /\ \A i \in 1 .. Len(d) : data[d[i]] \in Values
               /\ Promise!Sorts(Items(mem), [i \in 1 .. Len(d) |-> data[d[i]]])
  BY <1>1, SortedEffect
<1>5. IInv' /\ Items(mem)' = [i \in 1 .. Len(d) |-> data'[d[i]]]
  BY <1>1, <1>2, <1>3, <1>4, IdleStep
<1> QED BY <1>1, <1>2, <1>4, <1>5
-----------------------------------------------------------------------------
(* The invariant, of every version of the module.                          *)

\* No module is loaded yet, and nothing is allocated.
LEMMA InitHolds == Init => IInv
<1> SUFFICES ASSUME Init PROVE IInv
  OBVIOUS
<1>1. /\ version = "none" /\ mem = EmptyList /\ data = [e \in Nodes |-> 0] /\ live = {}
      /\ sp = Free /\ pc = [p \in Procs |-> "idle"] /\ cmd = [p \in Procs |-> None]
      /\ pos = [p \in Procs |-> HEAD] /\ n = [p \in Procs |-> HEAD]
      /\ stores = [p \in Procs |-> <<>>] /\ out = [p \in Procs |-> <<>>] /\ before = <<>>
  BY DEF Init
<1>2. mem \in Memory /\ Ring(mem, <<>>)
  BY <1>1, EmptyRing
<1>3. Settled = mem /\ Elements = <<>>
  <2>1. Settled = mem
    BY <1>1, ModlistAssumption DEF Settled
  <2> QED BY <1>2, <2>1, ChainFound DEF Elements
<1>4. TypeOK
  <2>1. /\ live \subseteq Nodes /\ data \in [Nodes -> Values \cup {0}]
        /\ sp \in Procs \cup {Free}
        /\ pc \in [Procs -> {"idle", "lock", "store", "visit", "free", "unlock"}]
    BY <1>1
  <2>2. pos \in [Procs -> Entries] /\ n \in [Procs -> Entries]
    BY <1>1 DEF Entries
  <2>3. out \in [Procs -> Seq(Values)] /\ before \in Seq(Values)
    <3>1. <<>> \in Seq(Values)
      OBVIOUS
    <3> QED BY <1>1, <3>1
  <2> QED BY <1>2, <2>1, <2>2, <2>3 DEF TypeOK
<1>5. Typed
  <2>1. <<>> \in Seq([field : {"next", "prev"}, entry : Entries, pointer : Pointers])
    OBVIOUS
  <2> QED BY <1>1, <2>1 DEF Typed
<1>6. Locked
  BY <1>1, ModlistAssumption DEF Locked
<1>7. Calls
  BY <1>1 DEF Calls, None, Command
<1>8. Ownership
  <2>1. \A p \in Procs : ~Owner(p) /\ ~Adding(p)
    BY <1>1 DEF Owner, Adding, Leaving
  <2>2. ToSet(<<>>) = {}
    BY DEF ToSet
  <2> QED BY <1>1, <1>3, <2>1, <2>2 DEF Ownership
<1>9. Linked
  BY <1>2, <1>3 DEF Linked
<1>10. Progress
  BY <1>1, ModlistAssumption DEF Progress
<1> QED BY <1>4, <1>5, <1>6, <1>7, <1>8, <1>9, <1>10 DEF IInv

\* The module is unloaded.
LEMMA UnloadKeeps ==
  ASSUME IInv, Unload
  PROVE  IInv' /\ Shown' = <<>> /\ last' = Promise!Command("cleanup", 0, <<>>)
<1>1. /\ Idle /\ version' = "none" /\ mem' = DelAll(mem, live) /\ live' = live \ ToSet(Chain(mem))
      /\ last' = Command("cleanup", 0, <<>>) /\ UNCHANGED <<data, sp, procVars, before>>
  BY DEF Unload
<1>2. version' \in Unlocked \cup {"none", "Pr3"}
  BY <1>1
<1> QED BY <1>1, <1>2, EmptyKeeps DEF Command, Promise!Command

\* An unlocked cleanup.
LEMMA CleanupKeeps ==
  ASSUME IInv, Cleanup
  PROVE  IInv' /\ Shown' = <<>> /\ last' = Promise!Command("cleanup", 0, <<>>)
<1>1. /\ Idle /\ UNCHANGED <<sp, procVars, before>> /\ version' \in Unlocked
      /\ last' = Promise!Command("cleanup", 0, <<>>)
  <2>1. Alone(Unlocked, "cleanup", 0, <<>>)
    BY DEF Cleanup
  <2> QED BY <2>1, AloneFacts
<1>2. mem' = DelAll(mem, live) /\ live' = live \ ToSet(Chain(mem)) /\ UNCHANGED data
  BY DEF Cleanup
<1>3. version' \in Unlocked \cup {"none", "Pr3"} /\ UNCHANGED <<data, sp, procVars, before>>
  BY <1>1, <1>2
<1> QED BY <1>1, <1>2, <1>3, EmptyKeeps

\* The adds and removes of the versions without a lock.
LEMMA UnlockedChanges ==
  ASSUME IInv, NEW x \in Values,
         AddValue(x) \/ RemoveValue(x) \/ AddLine(x) \/ RefuseLine(x) \/ RemoveWord(x)
  PROVE  /\ IInv'
         /\ \E y \in Values :
              \/ /\ Shown' = Shown
                 /\ last' = Promise!Command("refused", y, <<>>)
              \/ /\ Shown' = Append(Shown, y)
                 /\ last' = Promise!Command("add", y, <<>>)
              \/ /\ Shown' = Promise!Others(Shown, y)
                 /\ last' = Promise!Command("remove", y, <<>>)
<1>1. {"Pr1", "sorted"} \in SUBSET Unlocked /\ {"text"} \in SUBSET Unlocked
  BY DEF Unlocked
<1>2. FirstWord[x] \in Values
  BY WordAssumption
<1>3. CASE AddValue(x)
  BY <1>1, <1>3, AddKeeps DEF AddValue
<1>4. CASE RemoveValue(x)
  BY <1>1, <1>4, RemoveKeeps DEF RemoveValue
<1>5. CASE AddLine(x)
  BY <1>1, <1>5, AddKeeps DEF AddLine
<1>6. CASE RemoveWord(x)
  BY <1>1, <1>2, <1>6, RemoveKeeps DEF RemoveWord
<1>7. CASE RefuseLine(x)
  BY <1>1, <1>7, SameKeeps DEF RefuseLine
<1> QED BY <1>3, <1>4, <1>5, <1>6, <1>7

\* Nothing of the invariant depends on last, so no step is exempt.
LEMMA StepHolds == IInv /\ [Next \/ NextUnlocked]_vars => IInv'
<1> SUFFICES ASSUME IInv, [Next \/ NextUnlocked]_vars PROVE IInv'
  OBVIOUS
<1>1. CASE Next
  <2>1. CASE Load("Pr3")
    BY <2>1, LoadKeeps
  <2>2. CASE Unload
    BY <2>2, UnloadKeeps
  <2>3. ASSUME NEW p \in Procs, Call(p) PROVE IInv'
    BY <2>3, BeginKeeps, LockKeeps, StoreKeeps, ShowItemKeeps, MatchKeeps, SweepKeeps,
       FreeItemKeeps, UnlockKeeps DEF Call
  <2> QED BY <1>1, <2>1, <2>2, <2>3 DEF Next
<1>2. CASE NextUnlocked
  <2>1. CASE Read
    BY <2>1, ReadKeeps
  <2>2. CASE Cleanup
    BY <2>2, CleanupKeeps
  <2>3. CASE Sort
    BY <2>3, SortKeeps
  <2>4. ASSUME NEW x \in Values,
               \/ AddValue(x) \/ RemoveValue(x)
               \/ AddLine(x) \/ RefuseLine(x) \/ RemoveWord(x)
        PROVE  IInv'
    BY <2>4, UnlockedChanges
  <2>5. ASSUME NEW v \in Unlocked, Load(v) PROVE IInv'
    BY <2>5, LoadKeeps
  <2> QED BY <1>2, <2>1, <2>2, <2>3, <2>4, <2>5 DEF NextUnlocked
<1>3. CASE UNCHANGED vars
  <2>1. UNCHANGED <<version, mem, data, live, sp, pc, cmd, pos, n, stores, out, before>>
    BY <1>3 DEF vars, procVars
  <2>2. Settled' = Settled /\ Elements' = Elements /\ Content' = Content
    BY <2>1 DEF Settled, Elements, Content, Items
  <2>3. TypeOK' /\ Typed' /\ Locked' /\ Calls'
    BY <2>1 DEF IInv, TypeOK, Typed, Locked, Calls
  <2>4. Ownership' /\ Linked'
    BY <2>1, <2>2 DEF IInv, Ownership, Linked, Owner, Adding, Leaving
  <2>5. Progress'
    BY <2>1, <2>2, ProgressKept DEF IInv
  <2> QED BY <2>3, <2>4, <2>5 DEF IInv
<1> QED BY <1>1, <1>2, <1>3

\* Every version of the module keeps the inductive invariant.
THEOREM Invariance == SpecAll => []IInv
<1> QED BY InitHolds, StepHolds, PTL DEF SpecAll

\* The fields of every entry, the lock and the loop variables keep their types:
\* no loop variable is ever the poison of a deleted element.
THEOREM TypeCorrect == SpecAll => []TypeOK
<1>1. IInv => TypeOK
  BY DEF IInv
<1> QED BY <1>1, Invariance, PTL

\* Between critical sections the list is whole both ways, no element is in it
\* twice, and the elements allocated are those in it and those a call is about
\* to add.
THEOREM ListIntactSafe == SpecAll => []ListIntact
<1>1. ASSUME IInv PROVE ListIntact
  <2> SUFFICES ASSUME sp = Free
               PROVE  /\ ToSet(Chain(mem)) \cup {pos[p] : p \in {q \in Procs : cmd[q].op = "add"}} = live
                      /\ Len(Chain(mem)) = Cardinality(ToSet(Chain(mem)))
                      /\ \A e \in ToSet(Chain(mem)) \cup {HEAD} : mem.prev[mem.next[e]] = e
    BY DEF ListIntact
  <2> DEFINE c == Elements
  <2>1. Ring(mem, c) /\ Chain(mem) = c
    BY <1>1, ListFacts DEF Elements
  <2>2. \A q \in Procs : Owner(q) <=> cmd[q].op = "add"
    <3> SUFFICES ASSUME NEW q \in Procs PROVE Owner(q) <=> cmd[q].op = "add"
      OBVIOUS
    <3>1. pc[q] \notin {"store", "visit", "free", "unlock"}
      BY <1>1, ModlistAssumption DEF IInv, Locked
    <3> QED BY <1>1, <3>1 DEF IInv, Calls, Owner, Adding, Leaving
  <2>3. ToSet(c) \cup {pos[p] : p \in {q \in Procs : cmd[q].op = "add"}} = live
    BY <1>1, <2>2 DEF IInv, Ownership
  <2>4. Len(c) = Cardinality(ToSet(c))
    BY <2>1, RingSize DEF Ring
  <2>5. ASSUME NEW e \in ToSet(c) \cup {HEAD} PROVE mem.prev[mem.next[e]] = e
    <3>1. \E i \in 0 .. Len(c) : e = Entry(c, i)
      <4>1. CASE e = HEAD
        <5>1. Entry(c, 0) = HEAD /\ Len(c) \in Nat
          BY <2>1 DEF Ring, Entry
        <5> QED BY <4>1, <5>1
      <4>2. CASE e \in ToSet(c)
        <5>1. \E i \in 1 .. Len(c) : e = c[i]
          BY <1>1, <4>2, ListFacts
        <5>2. Len(c) \in Nat
          BY <2>1 DEF Ring
        <5> QED BY <5>1, <5>2 DEF Entry
      <4> QED BY <4>1, <4>2
    <3> QED BY <2>1, <3>1 DEF Ring
  <2> QED BY <2>1, <2>3, <2>4, <2>5
<1> QED BY <1>1, Invariance, PTL

\* A loop stands on the head or on an element that nobody has freed; an element
\* about to be freed is still allocated.
THEOREM NoUseAfterFreeSafe == SpecAll => []NoUseAfterFree
<1>1. ASSUME IInv PROVE NoUseAfterFree
  <2> SUFFICES ASSUME NEW p \in Procs, pc[p] \in {"visit", "free"}
               PROVE  pos[p] \in live \cup {HEAD}
    BY DEF NoUseAfterFree
  <2>1. /\ sp = p /\ cmd[p] \in Commands /\ cmd[p].op # "add" /\ before \in Seq(Values)
    BY <1>1 DEF IInv, Locked, Calls, TypeOK
  <2>2. ToSet(Elements) \subseteq live /\ (Owner(p) => pos[p] \in live)
    BY <1>1 DEF IInv, Ownership
  <2>3. CASE pc[p] = "free"
    BY <2>1, <2>2, <2>3 DEF Owner, Leaving
  <2>4. CASE pc[p] = "visit"
    <3>1. \A i : Entry(Elements, i) \in ToSet(Elements) \cup {HEAD}
      BY <1>1, ListFacts DEF Entry
    <3>2. \E i : pos[p] = Entry(Elements, i)
      <4>1. CASE cmd[p].op = "read"
        BY <1>1, <2>1, <4>1 DEF IInv, Progress, InRead
      <4>2. CASE cmd[p].op = "remove"
        BY <1>1, <2>1, <2>4, <4>2 DEF IInv, Progress, InRemove, LoopAt
      <4>3. CASE cmd[p].op = "cleanup"
        BY <1>1, <2>1, <2>4, <4>3 DEF IInv, Progress, InCleanup, LoopAt
      <4> QED BY <2>1, <4>1, <4>2, <4>3 DEF Commands, Command
    <3> QED BY <2>2, <3>1, <3>2
  <2> QED BY <2>3, <2>4
<1> QED BY <1>1, Invariance, PTL
-----------------------------------------------------------------------------
(* The module implements IntList.                                          *)

\* A new element is not in the list yet.
LEMMA BeginShows ==
  ASSUME IInv, NEW p \in Procs, Begin(p)
  PROVE  Shown' = Shown /\ last' = last
<1>1. UNCHANGED <<mem, sp, before, last>>
  BY DEF Begin
<1>2. CASE sp # Free
  BY <1>1, <1>2 DEF Shown
<1>3. CASE sp = Free
  <2>1. Ring(mem, Elements) /\ ToSet(Elements) \subseteq live
    BY <1>3, ListFacts DEF IInv, Ownership
  <2>2. /\ Chain(mem) = Elements
        /\ \A i \in 1 .. Len(Elements) : Elements[i] \in Nodes /\ Elements[i] \in live
    BY <2>1, ChainFound, ListFacts
  <2>3. \A e \in live : data'[e] = data[e]
    <3>1. PICK c \in Commands :
             IF c.op = "add"
             THEN \E e \in Nodes \ live : data' = [data EXCEPT ![e] = c.arg]
             ELSE UNCHANGED data
      BY DEF Begin
    <3> QED BY <3>1 DEF IInv, TypeOK
  <2>4. Items(mem)' = Items(mem)
    <3>1. Items(mem)' = [i \in 1 .. Len(Elements) |-> data'[Elements[i]]]
      BY <1>1, <2>2 DEF Items
    <3>2. Items(mem) = [i \in 1 .. Len(Elements) |-> data[Elements[i]]]
      BY <2>2 DEF Items
    <3> QED BY <2>2, <2>3, <3>1, <3>2
  <2> QED BY <1>1, <1>3, <2>4 DEF Shown
<1> QED BY <1>1, <1>2, <1>3

\* Within its critical section a call shows nothing of what it does, nor does
\* it on entering.
LEMMA SectionShows ==
  ASSUME IInv, NEW p \in Procs,
         Lock(p) \/ Store(p) \/ ShowItem(p) \/ Match(p) \/ Sweep(p) \/ FreeItem(p)
  PROVE  Shown' = Shown /\ last' = last
<1>1. p # Free
  BY ModlistAssumption
<1>2. CASE Lock(p)
  BY <1>1, <1>2 DEF Lock, Shown
<1>3. CASE Store(p) \/ ShowItem(p) \/ Match(p) \/ Sweep(p) \/ FreeItem(p)
  <2>1. /\ pc[p] \in {"store", "visit", "free"} /\ UNCHANGED <<sp, before, last>>
    BY <1>3 DEF Store, ShowItem, Match, Sweep, FreeItem
  <2>2. sp = p
    BY <2>1 DEF IInv, Locked
  <2> QED BY <1>1, <2>1, <2>2 DEF Shown
<1> QED BY <1>2, <1>3

\* When the loop is back at the head it has met every element of the list.
LEMMA LoopEnds ==
  ASSUME IInv, NEW p \in Procs, sp = p, pc[p] = "visit", pos[p] = HEAD,
         NEW k \in 0 .. Len(before), NEW kept \in Seq(Values), LoopAt(p, k, kept)
  PROVE  k = Len(before) /\ Content = kept
<1>1. /\ Ring(Settled, Elements) /\ Len(Elements) \in Nat /\ Len(Content) = Len(Elements)
      /\ Content \in Seq(Values) /\ before \in Seq(Values)
  BY ListFacts DEF IInv, TypeOK
<1>2. Partly(Content, before, kept, k) /\ Entry(Elements, Len(kept) + 1) = HEAD
  BY DEF LoopAt
<1>3. Len(Content) = Len(kept) + Len(before) - k
  BY <1>2 DEF Partly
<1>4. Len(kept) \in Nat /\ Len(before) \in Nat /\ k \in Nat /\ k <= Len(before)
  BY <1>1
<1>5. ~(Len(kept) + 1 <= Len(Elements))
  <2> SUFFICES ASSUME Len(kept) + 1 <= Len(Elements) PROVE FALSE
    OBVIOUS
  <2>1. Len(kept) + 1 \in 1 .. Len(Elements) + 1
    BY <1>1, <1>4
  <2> QED BY <1>1, <1>2, <2>1, Walk
<1>6. Len(kept) + 1 > Len(Content)
  BY <1>1, <1>4, <1>5
<1> QED BY <1>1, <1>2, <1>6, PartlyDone

\* A read of s prints its first k values.
Prints(s, k) == /\ k < Len(s) => SubSeq(s, 1, k) \in Full
                /\ last' = Promise!Command("read", 0, SubSeq(s, 1, k))

\* A call takes effect when it gives the lock back: its loop has come round to
\* the head, or its buffer is full, and by then the list is what the command
\* asks for.
LEMMA UnlockShows ==
  ASSUME IInv, NEW p \in Procs, Unlock(p)
  PROVE  \/ \E x \in Values : \/ /\ Shown' = Append(Shown, x)
                                 /\ last' = Promise!Command("add", x, <<>>)
                              \/ /\ Shown' = Promise!Others(Shown, x)
                                 /\ last' = Promise!Command("remove", x, <<>>)
         \/ Shown' = <<>> /\ last' = Promise!Command("cleanup", 0, <<>>)
         \/ /\ Shown' = Shown
            /\ \E k \in 0 .. Len(Shown) : Prints(Shown, k)
<1>1. /\ pc[p] = "unlock" \/ (pc[p] = "visit" /\ LoopOver(p))
      /\ sp' = Free /\ last' = Command(cmd[p].op, cmd[p].arg, out[p])
      /\ UNCHANGED <<mem, data>>
  BY DEF Unlock
<1>2. /\ sp = p /\ cmd[p] \in Commands /\ p # Free
      /\ pc[p] = "unlock" <=> cmd[p].op = "add"
      /\ out[p] # <<>> => cmd[p].op = "read"
      /\ InAdd(p) /\ InRead(p) /\ InRemove(p) /\ InCleanup(p)
  BY <1>1, ModlistAssumption DEF IInv, Locked, Calls, Progress
<1>3. /\ Shown = before /\ Shown' = Content
      /\ before \in Seq(Values) /\ Len(before) \in Nat
  <2>1. Settled = mem /\ Items(mem)' = Items(mem)
    BY <1>1, <1>2, ListFacts DEF Items
  <2>2. before \in Seq(Values)
    BY DEF IInv, TypeOK
  <2> QED BY <1>1, <1>2, <2>1, <2>2 DEF Shown, Content
<1>4. last' = Promise!Command(cmd[p].op, cmd[p].arg, out[p])
  BY <1>1 DEF Command, Promise!Command
<1>5. CASE cmd[p].op = "add"
  <2>1. cmd[p].arg \in Values
    BY <1>2, <1>5 DEF Commands, Command
  <2>2. Content = Append(before, cmd[p].arg) /\ out[p] = <<>>
    BY <1>2, <1>5 DEF InAdd
  <2> QED BY <1>3, <1>4, <1>5, <2>1, <2>2
<1>6. CASE cmd[p].op = "read"
  <2>1. PICK i \in 1 .. Len(before) + 1 : /\ pos[p] = Entry(Elements, i)
                                          /\ out[p] = SubSeq(before, 1, i - 1)
    BY <1>2, <1>6 DEF InRead
  <2>2. /\ Content = before /\ Len(Content) = Len(Elements)
        /\ pos[p] = HEAD \/ out[p] \in Full
        /\ Ring(Settled, Elements) /\ cmd[p].arg = 0
    BY <1>1, <1>2, <1>6, ListFacts DEF InRead, Commands, Command, LoopOver
  <2>3. Entry(Elements, i) # HEAD <=> i <= Len(Elements)
    <3>1. i \in 1 .. Len(Elements) + 1
      BY <2>1, <2>2
    <3> QED BY <2>2, <3>1, Walk
  <2>4. i - 1 < Len(before) => out[p] \in Full
    BY <1>3, <2>1, <2>2, <2>3
  <2>5. Prints(before, i - 1)
    BY <1>4, <1>6, <2>1, <2>2, <2>4 DEF Prints
  <2>6. i - 1 \in 0 .. Len(before)
    BY <1>3, <2>1
  <2> QED BY <1>3, <2>2, <2>5, <2>6
<1>7. CASE cmd[p].op = "remove"
  <2>1. PICK k \in 0 .. Len(before) : LoopAt(p, k, Keep(before, cmd[p].arg)[k])
    BY <1>2, <1>7 DEF InRemove
  <2>2. Keep(before, cmd[p].arg)[k] \in Seq(Values)
    BY <1>3, <2>1, KeepSteps
  <2>3. pc[p] = "visit" /\ pos[p] = HEAD
    BY <1>1, <1>2, <1>7 DEF LoopOver
  <2> PICK kept : kept = Keep(before, cmd[p].arg)[k]
    OBVIOUS
  <2>4. k = Len(before) /\ Content = kept
    BY <1>2, <2>1, <2>2, <2>3, LoopEnds
  <2>5. Content = Promise!Others(before, cmd[p].arg)
    BY <2>4, OthersKept
  <2>6. cmd[p].arg \in Values /\ out[p] = <<>>
    BY <1>2, <1>7 DEF Commands, Command
  <2> QED BY <1>3, <1>4, <1>7, <2>5, <2>6
<1>8. CASE cmd[p].op = "cleanup"
  <2>1. PICK k \in 0 .. Len(before) : LoopAt(p, k, <<>>)
    BY <1>2, <1>8 DEF InCleanup
  <2>2. <<>> \in Seq(Values)
    OBVIOUS
  <2>3. pc[p] = "visit" /\ pos[p] = HEAD
    BY <1>1, <1>2, <1>8 DEF LoopOver
  <2>4. Content = <<>>
    BY <1>2, <2>1, <2>2, <2>3, LoopEnds
  <2>5. cmd[p].arg = 0 /\ out[p] = <<>>
    BY <1>2, <1>8 DEF Commands, Command
  <2> QED BY <1>3, <1>4, <1>8, <2>4, <2>5
<1> QED BY <1>2, <1>5, <1>6, <1>7, <1>8 DEF Commands, Command

\* What is listed when a version without a lock is read.
LEMMA ReadShows ==
  ASSUME IInv, Read
  PROVE  Shown \in Seq(Values)
<1>1. Alone(Unlocked, "read", 0, Items(mem))
  BY DEF Read
<1>2. Unlocked \in SUBSET Unlocked
  OBVIOUS
<1>3. Idle /\ Shown = Items(mem)
  BY <1>1, <1>2, AloneFacts
<1> QED BY <1>3, IdleFacts, ListFacts

\* The abstract list is empty as long as no module is loaded.
LEMMA InitPromised == Init => Promise!Init
<1> SUFFICES ASSUME Init PROVE Promise!Init
  OBVIOUS
<1>1. mem = EmptyList /\ sp = Free /\ last = None
  BY DEF Init
<1>2. Items(mem) = [i \in 1 .. Len(<<>>) |-> data[(<<>>)[i]]]
  BY <1>1, EmptyRing, ItemsFound
<1>3. Items(mem) = <<>>
  BY <1>2
<1> QED BY <1>1, <1>3 DEF Promise!Init, None, Command, Promise!None, Promise!Command

\* To print so much is a read of the abstract list.
LEMMA PrintsRead ==
  ASSUME NEW k \in 0 .. Len(Shown), Shown' = Shown, Prints(Shown, k)
  PROVE  Promise!Next
<1>1. Promise!Read
  BY DEF Shown, Prints, Promise!Read
<1> QED BY <1>1 DEF Promise!Next

\* Every step of a call is a step of the abstract list or leaves it alone.
LEMMA CallPromised ==
  ASSUME IInv, NEW p \in Procs, Call(p)
  PROVE  Promise!Next \/ (Shown' = Shown /\ last' = last)
<1>1. CASE Begin(p)
  BY <1>1, BeginShows
<1>2. CASE Lock(p) \/ Store(p) \/ ShowItem(p) \/ Match(p) \/ Sweep(p) \/ FreeItem(p)
  BY <1>2, SectionShows
<1>3. CASE Unlock(p)
  <2>1. ASSUME NEW x \in Values, Shown' = Append(Shown, x),
               last' = Promise!Command("add", x, <<>>)
        PROVE  Promise!Next
    BY <2>1 DEF Shown, Promise!Next, Promise!Add
  <2>2. ASSUME NEW x \in Values, Shown' = Promise!Others(Shown, x),
               last' = Promise!Command("remove", x, <<>>)
        PROVE  Promise!Next
    BY <2>2 DEF Shown, Promise!Next, Promise!Remove
  <2>3. ASSUME Shown' = <<>>, last' = Promise!Command("cleanup", 0, <<>>)
        PROVE  Promise!Next
    BY <2>3 DEF Shown, Promise!Next, Promise!Cleanup
  <2>4. ASSUME Shown' = Shown, NEW k \in 0 .. Len(Shown), Prints(Shown, k)
        PROVE  Promise!Next
    BY <2>4, PrintsRead
  <2> QED BY <1>3, <2>1, <2>2, <2>3, <2>4, UnlockShows
<1> QED BY <1>1, <1>2, <1>3 DEF Call

\* So is every step of the versions that run a call at once, and the loading
\* and unloading of the module.
LEMMA StepPromised ==
  ASSUME IInv, [Next \/ NextUnlocked]_vars
  PROVE  Promise!Next \/ (Shown' = Shown /\ last' = last)
<1>1. ASSUME NEW v \in Unlocked \cup {"Pr3"}, Load(v) PROVE Promise!Next
  BY <1>1, LoadKeeps DEF Shown, Promise!Next, Promise!Load
<1>2. CASE Unload
  BY <1>2, UnloadKeeps DEF Shown, Promise!Next, Promise!Cleanup
<1>3. ASSUME NEW p \in Procs, Call(p) PROVE Promise!Next \/ (Shown' = Shown /\ last' = last)
  BY <1>3, CallPromised
<1>4. CASE Read
  <2>1. Shown' = Shown /\ last' = Promise!Command("read", 0, Shown)
    BY <1>4, ReadKeeps
  <2>2. Shown \in Seq(Values)
    BY <1>4, ReadShows
  <2>3. /\ Len(Shown) \in 0 .. Len(Shown) /\ ~(Len(Shown) < Len(Shown))
        /\ SubSeq(Shown, 1, Len(Shown)) = Shown
    BY <2>2
  <2>4. Prints(Shown, Len(Shown))
    BY <2>1, <2>3, Zenon DEF Prints
  <2> QED BY <2>1, <2>3, <2>4, PrintsRead
<1>5. CASE Cleanup
  BY <1>5, CleanupKeeps DEF Shown, Promise!Next, Promise!Cleanup
<1>6. CASE Sort
  BY <1>6, SortKeeps DEF Shown, Promise!Next, Promise!Sort
<1>7. ASSUME NEW x \in Values,
             \/ AddValue(x) \/ RemoveValue(x)
             \/ AddLine(x) \/ RefuseLine(x) \/ RemoveWord(x)
      PROVE  Promise!Next
  <2>1. PICK y \in Values : \/ /\ Shown' = Shown
                               /\ last' = Promise!Command("refused", y, <<>>)
                            \/ /\ Shown' = Append(Shown, y)
                               /\ last' = Promise!Command("add", y, <<>>)
                            \/ /\ Shown' = Promise!Others(Shown, y)
                               /\ last' = Promise!Command("remove", y, <<>>)
    BY <1>7, UnlockedChanges
  <2> QED BY <2>1 DEF Shown, Promise!Next, Promise!Add, Promise!Remove, Promise!Refuse
<1>8. CASE UNCHANGED vars
  BY <1>8 DEF vars, Shown, Items
<1> QED BY <1>1, <1>2, <1>3, <1>4, <1>5, <1>6, <1>7, <1>8 DEF Next, NextUnlocked

\* Whatever version is loaded, and however the pointer writes of concurrent
\* calls interleave, each command takes effect at once on one list of values.
THEOREM ListImplemented == SpecAll => ImplementsIntList
<1>1. ASSUME IInv, [Next \/ NextUnlocked]_vars
      PROVE  [Promise!Next]_<<(IF sp = Free THEN Items(mem) ELSE before), last>>
  BY <1>1, StepPromised DEF Shown
<1> QED BY <1>1, InitPromised, Invariance, PTL DEF SpecAll, ImplementsIntList, Promise!Spec
=============================================================================
