---------------------------- MODULE BufferProofs ----------------------------
(***************************************************************************)
(* The circular buffer and the simplest module that uses it.               *)
(*   CBuffer    The ring of cbuffer.c is the bounded queue that cbuffer.h  *)
(*              promises, for every capacity and every type of item: the   *)
(*              wrap-around of the memcpy's, overwriting, and the head     *)
(*              that remove_items leaves one past the array.               *)
(*   ProdCons1  The three semaphores of prodcons1.c keep their accounts    *)
(*              and implement the bounded buffer, for any writers and      *)
(*              readers, any capacity and any signals.                     *)
(***************************************************************************)
EXTENDS CBuffer, ProdCons1, SharedLemmas, SequenceTheorems

-----------------------------------------------------------------------------
(* Arithmetic of the ring.                                                 *)

\* What the modulo does to the indices that occur.
LEMMA Wrap ==
  /\ \A x \in 0 .. MaxSize - 1 : x % MaxSize = x
  /\ \A x \in MaxSize .. 2 * MaxSize - 1 : x % MaxSize = x - MaxSize
  /\ \A x \in 2 * MaxSize .. 3 * MaxSize - 1 : x % MaxSize = x - 2 * MaxSize
  /\ \A x \in Nat : x % MaxSize \in Cells
<1>1. \A x \in 0 .. MaxSize - 1 : x % MaxSize = x
  BY MaxSizeAssumption
<1>2. \A x \in MaxSize .. 2 * MaxSize - 1 : x % MaxSize = x - MaxSize
  BY MaxSizeAssumption
<1>3. \A x \in 2 * MaxSize .. 3 * MaxSize - 1 : x % MaxSize = x - 2 * MaxSize
  BY MaxSizeAssumption
<1>4. \A x \in Nat : x % MaxSize \in Cells
  BY MaxSizeAssumption DEF Cells
<1> QED BY <1>1, <1>2, <1>3, <1>4

\* An index may be reduced before or after something is added to it.
LEMMA WrapAdd ==
  ASSUME NEW a \in 0 .. 2 * MaxSize, NEW b \in 0 .. MaxSize - 1
  PROVE  ((a % MaxSize) + b) % MaxSize = (a + b) % MaxSize
<1>1. CASE a < MaxSize
  BY <1>1, Wrap, MaxSizeAssumption
<1>2. CASE a >= MaxSize /\ a < 2 * MaxSize
  <2>1. a % MaxSize = a - MaxSize
    BY <1>2, Wrap, MaxSizeAssumption
  <2>2. CASE a - MaxSize + b < MaxSize
    <3>1. (a - MaxSize + b) % MaxSize = a - MaxSize + b
      BY <1>2, <2>2, Wrap, MaxSizeAssumption
    <3>2. (a + b) % MaxSize = a + b - MaxSize
      BY <1>2, <2>2, Wrap, MaxSizeAssumption
    <3> QED BY <2>1, <3>1, <3>2, MaxSizeAssumption
  <2>3. CASE a - MaxSize + b >= MaxSize
    <3>1. (a - MaxSize + b) % MaxSize = a - MaxSize + b - MaxSize
      BY <1>2, <2>3, Wrap, MaxSizeAssumption
    <3>2. (a + b) % MaxSize = a + b - 2 * MaxSize
      BY <1>2, <2>3, Wrap, MaxSizeAssumption
    <3> QED BY <2>1, <3>1, <3>2, MaxSizeAssumption
  <2> QED BY <1>2, <2>2, <2>3, MaxSizeAssumption
<1>3. CASE a = 2 * MaxSize
  <2>1. a % MaxSize = 0
    BY <1>3, Wrap, MaxSizeAssumption
  <2>2. (a + b) % MaxSize = b /\ (0 + b) % MaxSize = b
    BY <1>3, Wrap, MaxSizeAssumption
  <2> QED BY <2>1, <2>2
<1> QED BY <1>1, <1>2, <1>3, MaxSizeAssumption

\* Once around the ring leads back.
LEMMA WrapOnce ==
  ASSUME NEW x \in 0 .. 2 * MaxSize - 1
  PROVE  (x + MaxSize) % MaxSize = x % MaxSize
<1>1. CASE x < MaxSize
  <2>1. x % MaxSize = x /\ (x + MaxSize) % MaxSize = (x + MaxSize) - MaxSize
    BY <1>1, Wrap, MaxSizeAssumption
  <2> QED BY <2>1, MaxSizeAssumption
<1>2. CASE x >= MaxSize
  <2>1. x % MaxSize = x - MaxSize /\ (x + MaxSize) % MaxSize = (x + MaxSize) - 2 * MaxSize
    BY <1>2, Wrap, MaxSizeAssumption
  <2> QED BY <2>1, MaxSizeAssumption
<1> QED BY <1>1, <1>2, MaxSizeAssumption

\* Every cell is at one distance from where the ring begins.
Distance(w, c) == IF c >= w THEN c - w ELSE c - w + MaxSize

\* It is the distance that was gone.
LEMMA DistanceExact ==
  ASSUME NEW w \in Cells, NEW j \in 0 .. MaxSize - 1
  PROVE  (w + j) % MaxSize \in Cells /\ Distance(w, (w + j) % MaxSize) = j
<1>1. w \in Nat /\ w < MaxSize /\ j \in Nat /\ j < MaxSize /\ MaxSize \in Nat
  BY MaxSizeAssumption DEF Cells
<1>2. CASE w + j < MaxSize
  <2>1. (w + j) % MaxSize = w + j
    BY <1>1, <1>2, Wrap
  <2> QED BY <1>1, <1>2, <2>1 DEF Distance, Cells
<1>3. CASE w + j >= MaxSize
  <2>1. (w + j) % MaxSize = w + j - MaxSize
    BY <1>1, <1>3, Wrap
  <2> QED BY <1>1, <1>3, <2>1 DEF Distance, Cells
<1> QED BY <1>1, <1>2, <1>3

-----------------------------------------------------------------------------
(* The copies.                                                             *)

\* memcpy into the array, one call or two.
Filled(w, items) ==
  LET n     == Len(items)
      split == IF w + n > MaxSize THEN MaxSize - w ELSE 0
  IN  CopyIn(CopyIn(data, w, SubSeq(items, 1, split)),
             IF split > 0 THEN 0 ELSE w, SubSeq(items, split + 1, n))

\* Item j + 1 ends up j cells after the write head, around the end of the
\* array, and no other cell changes.
LEMMA CopiesIn ==
  ASSUME data \in [Cells -> Item], NEW w \in Cells, NEW items \in Seq(Item),
         Len(items) <= MaxSize
  PROVE  /\ Filled(w, items) \in [Cells -> Item]
         /\ \A c \in Cells : Filled(w, items)[c] =
              IF Distance(w, c) < Len(items) THEN items[Distance(w, c) + 1] ELSE data[c]
<1> DEFINE n == Len(items)
           split == IF w + n > MaxSize THEN MaxSize - w ELSE 0
           first == SubSeq(items, 1, split)
           rest == SubSeq(items, split + 1, n)
           at == IF split > 0 THEN 0 ELSE w
           once == CopyIn(data, w, first)
           F == CopyIn(once, at, rest)
<1>1. /\ MaxSize \in Nat /\ n \in Nat /\ n <= MaxSize /\ w \in Nat /\ w < MaxSize
      /\ split \in Nat /\ split <= n /\ (w + n > MaxSize => split = MaxSize - w)
      /\ (~(w + n > MaxSize) => split = 0)
  BY MaxSizeAssumption DEF Cells
<1>2. Len(first) = split /\ \A k \in 1..split : first[k] = items[k]
  <2>1. split \in 0 .. Len(items)
    BY <1>1
  <2> HIDE DEF split
  <2> QED BY <2>1
<1>3. Len(rest) = n - split /\ \A k \in 1 .. n - split : rest[k] = items[split + k]
  <2>1. split \in 0 .. Len(items)
    BY <1>1
  <2> HIDE DEF split
  <2> QED BY <2>1
<1>4. ASSUME NEW c \in Cells
      PROVE  once[c] = IF c \in w .. w + split - 1 THEN items[c - w + 1] ELSE data[c]
  <2>1. once[c] = IF c \in w .. w + Len(first) - 1 THEN first[c - w + 1] ELSE data[c]
    BY DEF CopyIn
  <2>2. c \in Int /\ w \in Int
    BY DEF Cells
  <2>3. CASE c \in w .. w + split - 1
    <3>1. c - w + 1 \in 1..split
      BY <1>1, <2>2, <2>3
    <3> QED BY <1>2, <2>1, <2>3, <3>1
  <2>4. CASE c \notin w .. w + split - 1
    BY <1>2, <2>1, <2>4
  <2> QED BY <2>3, <2>4
<1>5. ASSUME NEW c \in Cells
      PROVE  F[c] = IF c \in at .. at + (n - split) - 1 THEN items[split + (c - at + 1)]
                    ELSE once[c]
  <2>1. F[c] = IF c \in at .. at + Len(rest) - 1 THEN rest[c - at + 1] ELSE once[c]
    BY DEF CopyIn
  <2>2. CASE c \in at .. at + (n - split) - 1
    <3>1. c - at + 1 \in 1 .. n - split
      <4>1. c \in Int /\ at \in Int
        BY <1>1 DEF Cells
      <4> HIDE DEF at, split, n
      <4> QED BY <1>1, <2>2, <4>1
    <3> QED BY <1>3, <2>1, <2>2, <3>1
  <2>3. CASE c \notin at .. at + (n - split) - 1
    BY <1>3, <2>1, <2>3
  <2> QED BY <2>2, <2>3
<1>6. ASSUME NEW c \in Cells
      PROVE  F[c] = IF Distance(w, c) < n THEN items[Distance(w, c) + 1] ELSE data[c]
  <2>1. c \in Nat /\ c < MaxSize
    BY <1>1 DEF Cells
  <2>2. CASE w + n > MaxSize
    <3>1. split = MaxSize - w /\ at = 0 /\ split > 0
      BY <1>1, <2>2
    <3> HIDE DEF F, once, at, split, n
    <3>2. CASE c >= w
      <4>1. c \notin at .. at + (n - split) - 1 /\ c \in w .. w + split - 1
        BY <1>1, <2>1, <3>1, <3>2
      <4>2. Distance(w, c) < n /\ Distance(w, c) + 1 = c - w + 1
        BY <1>1, <2>1, <2>2, <3>2 DEF Distance
      <4> QED BY <1>4, <1>5, <4>1, <4>2
    <3>3. CASE c < w
      <4>1. c \notin w .. w + split - 1
        BY <1>1, <2>1, <3>3
      <4>2. Distance(w, c) = c - w + MaxSize
        BY <1>1, <2>1, <3>3 DEF Distance
      <4>3. CASE c < w + n - MaxSize
        <5>1. c \in at .. at + (n - split) - 1 /\ split + (c - at + 1) = Distance(w, c) + 1
              /\ Distance(w, c) < n
          BY <1>1, <2>1, <3>1, <4>2, <4>3
        <5> QED BY <1>5, <5>1
      <4>4. CASE ~(c < w + n - MaxSize)
        <5>1. c \notin at .. at + (n - split) - 1 /\ ~(Distance(w, c) < n)
          BY <1>1, <2>1, <3>1, <4>2, <4>4
        <5> QED BY <1>4, <1>5, <4>1, <5>1
      <4> QED BY <4>3, <4>4
    <3> QED BY <1>1, <2>1, <3>2, <3>3
  <2>3. CASE ~(w + n > MaxSize)
    <3>1. split = 0 /\ at = w
      BY <1>1, <2>3
    <3> HIDE DEF F, once, at, split, n
    <3>2. c \notin w .. w + split - 1
      BY <1>1, <2>1, <3>1
    <3>3. CASE c >= w /\ c < w + n
      <4>1. c \in at .. at + (n - split) - 1 /\ Distance(w, c) < n
            /\ split + (c - at + 1) = Distance(w, c) + 1
        BY <1>1, <2>1, <3>1, <3>3 DEF Distance
      <4> QED BY <1>5, <4>1
    <3>4. CASE ~(c >= w /\ c < w + n)
      <4>1. c \notin at .. at + (n - split) - 1 /\ ~(Distance(w, c) < n)
        BY <1>1, <2>1, <2>3, <3>1, <3>4 DEF Distance
      <4> QED BY <1>4, <1>5, <3>2, <4>1
    <3> QED BY <3>3, <3>4
  <2> QED BY <2>2, <2>3
<1>7. Filled(w, items) = F
  BY DEF Filled
<1>8. F \in [Cells -> Item]
  <2>1. ASSUME NEW c \in Cells PROVE F[c] \in Item
    <3>1. c \in Nat /\ c < MaxSize
      BY <1>1 DEF Cells
    <3>2. CASE Distance(w, c) < n
      <4>1. Distance(w, c) + 1 \in 1..n
        BY <1>1, <3>1, <3>2 DEF Distance
      <4>2. items[Distance(w, c) + 1] \in Item
        BY <4>1
      <4> QED BY <1>6, <3>2, <4>2
    <3>3. CASE ~(Distance(w, c) < n)
      BY <1>6, <3>3
    <3> QED BY <3>2, <3>3
  <2>2. F = [c \in Cells |-> F[c]]
    BY DEF CopyIn
  <2> HIDE DEF F
  <2> QED BY <2>1, <2>2
<1> HIDE DEF F
<1> QED BY <1>6, <1>7, <1>8

\* memcpy out of the array, one call or two: the oldest items in order.
LEMMA CopiesOut ==
  ASSUME RingTypeOK, NEW n \in 0..size,
         NEW split, split = (IF head + n > MaxSize THEN MaxSize - head ELSE 0),
         NEW start, start = (IF head + n > MaxSize THEN 0 ELSE head)
  PROVE  CopyOut(head, split) \o CopyOut(start, n - split) = SubSeq(Contents, 1, n)
<1> DEFINE A == CopyOut(head, split)
           B == CopyOut(start, n - split)
<1>1. /\ MaxSize \in Nat \ {0} /\ n \in Nat /\ size \in Nat /\ n <= size /\ size <= MaxSize
      /\ head \in Nat /\ head <= MaxSize /\ data \in [Cells -> Item]
  BY MaxSizeAssumption DEF RingTypeOK, Cells
<1>2. split \in Nat /\ split <= n /\ n - split \in Nat /\ start \in Nat
  BY <1>1
<1>3. ASSUME NEW i \in 1..n
      PROVE  /\ i <= split => head + i - 1 \in Cells /\ (head + i - 1) % MaxSize = head + i - 1
             /\ i > split => /\ start + (i - split) - 1 \in Cells
                             /\ (head + i - 1) % MaxSize = start + (i - split) - 1
  <2>1. i \in Nat /\ 1 <= i /\ i <= n
    BY <1>1
  <2>2. CASE i <= split
    <3>1. head + i - 1 \in 0 .. MaxSize - 1
      BY <1>1, <2>1, <2>2
    <3> QED BY <2>1, <2>2, <1>2, <3>1, Wrap DEF Cells
  <2>3. CASE i > split /\ head + n > MaxSize
    <3>1. head + i - 1 \in MaxSize .. 2 * MaxSize - 1
      BY <1>1, <2>1, <2>3
    <3>2. (head + i - 1) % MaxSize = (head + i - 1) - MaxSize
      BY <3>1, Wrap
    <3>3. start + (i - split) - 1 = (head + i - 1) - MaxSize
      BY <1>1, <2>1, <2>3
    <3>4. (head + i - 1) - MaxSize \in 0 .. MaxSize - 1
      BY <1>1, <3>1
    <3> QED BY <1>2, <2>1, <2>3, <3>2, <3>3, <3>4 DEF Cells
  <2>4. CASE i > split /\ ~(head + n > MaxSize)
    <3>1. head + i - 1 \in 0 .. MaxSize - 1 /\ start + (i - split) - 1 = head + i - 1
      BY <1>1, <2>1, <2>4
    <3> QED BY <1>2, <2>1, <2>4, <3>1, Wrap DEF Cells
  <2> QED BY <1>2, <2>1, <2>2, <2>3, <2>4
<1>4. /\ A \in Seq(Item) /\ Len(A) = split
      /\ \A i \in 1..split : A[i] = data[head + i - 1]
  <2>1. ASSUME NEW i \in 1..split PROVE data[head + i - 1] \in Item
    <3>1. i \in 1..n /\ i <= split
      BY <1>1, <1>2
    <3> QED BY <1>1, <1>3, <3>1
  <2> QED BY <1>2, <2>1 DEF CopyOut
<1>5. /\ B \in Seq(Item) /\ Len(B) = n - split
      /\ \A i \in 1 .. n - split : B[i] = data[start + i - 1]
  <2>1. ASSUME NEW i \in 1 .. n - split PROVE data[start + i - 1] \in Item
    <3>1. split + i \in 1..n /\ split + i > split /\ start + ((split + i) - split) - 1 = start + i - 1
      BY <1>1, <1>2
    <3>2. start + i - 1 \in Cells
      BY <1>3, <3>1
    <3> QED BY <1>1, <3>2
  <2> QED BY <1>2, <2>1 DEF CopyOut
<1>6. /\ A \o B \in Seq(Item) /\ Len(A \o B) = n
      /\ \A i \in 1..n : (A \o B)[i] = IF i <= split THEN A[i] ELSE B[i - split]
  <2> HIDE DEF A, B
  <2>1. Len(A) + Len(B) = n
    BY <1>1, <1>2, <1>4, <1>5
  <2>2. /\ A \o B \in Seq(Item) /\ Len(A \o B) = Len(A) + Len(B)
        /\ \A i \in 1 .. Len(A) + Len(B) :
             (A \o B)[i] = IF i <= Len(A) THEN A[i] ELSE B[i - Len(A)]
    BY <1>4, <1>5, ConcatProperties
  <2> QED BY <1>4, <2>1, <2>2
<1>7. ASSUME NEW i \in 1..n PROVE (A \o B)[i] = data[(head + i - 1) % MaxSize]
  <2> HIDE DEF A, B
  <2>1. CASE i <= split
    <3>1. i \in 1..split
      BY <1>1, <1>2, <2>1
    <3> QED BY <1>3, <1>4, <1>6, <2>1, <3>1
  <2>2. CASE ~(i <= split)
    <3>1. i - split \in 1 .. n - split /\ i > split
      BY <1>1, <1>2, <2>2
    <3> QED BY <1>3, <1>5, <1>6, <2>2, <3>1
  <2> QED BY <2>1, <2>2
<1>8. /\ SubSeq(Contents, 1, n) = [i \in 1..n |-> data[(head + i - 1) % MaxSize]]
  <2>1. Contents \in Seq(Item) /\ Len(Contents) = size
    <3>1. \A i \in 1..size : data[(head + i - 1) % MaxSize] \in Item
      BY <1>1, Wrap
    <3> QED BY <1>1, <3>1 DEF Contents
  <2>2. SubSeq(Contents, 1, n) = [i \in 1..n |-> Contents[i]]
    <3> HIDE DEF Contents
    <3> QED BY <1>1, <2>1
  <2>3. \A i \in 1..n : Contents[i] = data[(head + i - 1) % MaxSize]
    BY <1>1 DEF Contents
  <2> QED BY <2>2, <2>3
<1>9. A \o B = [i \in 1..n |-> (A \o B)[i]]
  <2> DEFINE C == A \o B
  <2>1. C \in Seq(Item) /\ Len(C) = n
    BY <1>6
  <2>2. C = [i \in 1..n |-> C[i]]
    <3> HIDE DEF C
    <3> QED BY <2>1
  <2> QED BY <2>2
<1> QED BY <1>7, <1>8, <1>9
-----------------------------------------------------------------------------
(* The contents.                                                           *)

\* What the ring holds is a sequence of items.
LEMMA ContentsTyped ==
  RingTypeOK => /\ Contents \in Seq(Item) /\ Len(Contents) = size
            /\ \A i \in 1..size : Contents[i] = data[(head + i - 1) % MaxSize]
<1> SUFFICES ASSUME RingTypeOK
             PROVE  /\ Contents \in Seq(Item) /\ Len(Contents) = size
                    /\ \A i \in 1..size : Contents[i] = data[(head + i - 1) % MaxSize]
  OBVIOUS
<1>1. size \in Nat /\ head \in Nat /\ data \in [Cells -> Item]
  BY MaxSizeAssumption DEF RingTypeOK, Cells
<1>2. \A i \in 1..size : data[(head + i - 1) % MaxSize] \in Item
  BY <1>1, Wrap
<1> QED BY <1>1, <1>2 DEF Contents

\* The same of the next state.
LEMMA ContentsTypedNext ==
  (RingTypeOK => /\ Contents \in Seq(Item) /\ Len(Contents) = size
             /\ \A i \in 1..size : Contents[i] = data[(head + i - 1) % MaxSize])'
  BY ContentsTyped, PTL

\* Where the k-th item of a ring lies, seen from its write head.
LEMMA Place ==
  ASSUME RingTypeOK, NEW w, w = (head + size) % MaxSize
  PROVE  /\ w \in Cells
         /\ \A k \in 1..size :
              /\ (head + k - 1) % MaxSize \in Cells
              /\ Distance(w, (head + k - 1) % MaxSize) = MaxSize - size + k - 1
         /\ \A k \in size + 1 .. size + MaxSize :
              /\ (head + k - 1) % MaxSize \in Cells
              /\ Distance(w, (head + k - 1) % MaxSize) = k - size - 1
<1>1. /\ MaxSize \in Nat \ {0} /\ size \in Nat /\ size <= MaxSize
      /\ head \in Nat /\ head <= MaxSize
  BY MaxSizeAssumption DEF RingTypeOK, Cells
<1>2. w \in Cells /\ head + size \in 0 .. 2 * MaxSize
  BY <1>1, Wrap
<1>3. ASSUME NEW k \in 1..size
      PROVE  /\ (head + k - 1) % MaxSize \in Cells
             /\ Distance(w, (head + k - 1) % MaxSize) = MaxSize - size + k - 1
  <2> DEFINE b == MaxSize - size + k - 1
  <2>1. b \in 0 .. MaxSize - 1 /\ head + k - 1 \in 0 .. 2 * MaxSize - 1
        /\ (head + size) + b = (head + k - 1) + MaxSize
    BY <1>1
  <2> HIDE DEF b
  <2>2. (w + b) % MaxSize = ((head + size) + b) % MaxSize
    BY <1>2, <2>1, WrapAdd
  <2>3. (w + b) % MaxSize = (head + k - 1) % MaxSize
    BY <2>1, <2>2, WrapOnce
  <2>4. (w + b) % MaxSize \in Cells /\ Distance(w, (w + b) % MaxSize) = b
    BY <1>2, <2>1, DistanceExact
  <2> QED BY <2>3, <2>4 DEF b
<1>4. ASSUME NEW k \in size + 1 .. size + MaxSize
      PROVE  /\ (head + k - 1) % MaxSize \in Cells
             /\ Distance(w, (head + k - 1) % MaxSize) = k - size - 1
  <2> DEFINE b == k - size - 1
  <2>1. b \in 0 .. MaxSize - 1 /\ (head + size) + b = head + k - 1
    BY <1>1
  <2> HIDE DEF b
  <2>2. (w + b) % MaxSize = ((head + size) + b) % MaxSize
    BY <1>2, <2>1, WrapAdd
  <2>4. (w + b) % MaxSize \in Cells /\ Distance(w, (w + b) % MaxSize) = b
    BY <1>2, <2>1, DistanceExact
  <2> QED BY <2>1, <2>2, <2>4 DEF b
<1> QED BY <1>2, <1>3, <1>4

\* Two sequences of the same length with the same items are the same.
LEMMA SameItems ==
  ASSUME NEW a \in Seq(Item), NEW b \in Seq(Item), Len(a) = Len(b),
         \A i \in 1..Len(a) : a[i] = b[i]
  PROVE  a = b
  OBVIOUS

\* What is left of a sequence without its first d items.
LEMMA SuffixItems ==
  ASSUME NEW a \in Seq(Item), NEW d \in 0 .. Len(a)
  PROVE  /\ SubSeq(a, d + 1, Len(a)) \in Seq(Item)
         /\ Len(SubSeq(a, d + 1, Len(a))) = Len(a) - d
         /\ \A i \in 1 .. Len(a) - d : SubSeq(a, d + 1, Len(a))[i] = a[d + i]
<1>1. Len(a) \in Nat /\ d + 1 \in 1 .. Len(a) + 1
  OBVIOUS
<1> QED BY <1>1

\* What the queue of cbuffer.h holds after an insertion.
LEMMA PushedItems ==
  ASSUME RingTypeOK, NEW items \in Seq(Item), Len(items) <= MaxSize,
         NEW len, len = (IF Gaps >= Len(items) THEN size + Len(items) ELSE MaxSize),
         NEW drop, drop = (IF Gaps >= Len(items) THEN 0 ELSE Len(items) - Gaps)
  PROVE  /\ Queue!Pushed(Contents, items) \in Seq(Item)
         /\ Len(Queue!Pushed(Contents, items)) = len
         /\ \A i \in 1..len : Queue!Pushed(Contents, items)[i] =
              IF drop + i <= size THEN Contents[drop + i] ELSE items[(drop + i) - size]
<1> DEFINE n == Len(items)
           all == Contents \o items
<1>1. /\ MaxSize \in Nat \ {0} /\ size \in Nat /\ size <= MaxSize /\ n \in Nat /\ n <= MaxSize
      /\ Contents \in Seq(Item) /\ Len(Contents) = size
  BY MaxSizeAssumption, ContentsTyped DEF RingTypeOK
<1>2. /\ all \in Seq(Item) /\ Len(all) = size + n
      /\ \A i \in 1 .. size + n : all[i] = IF i <= size THEN Contents[i] ELSE items[i - size]
  BY <1>1, ConcatProperties
<1>3. Queue!Pushed(Contents, items) =
        IF Len(all) <= MaxSize THEN all
        ELSE SubSeq(all, Len(all) - MaxSize + 1, Len(all))
  BY DEF Queue!Pushed, Queue!Last
<1> HIDE DEF all
<1>4. CASE Gaps >= n
  <2>1. size + n <= MaxSize /\ len = size + n /\ drop = 0
    BY <1>1, <1>4 DEF Gaps
  <2>2. Queue!Pushed(Contents, items) = all
    BY <1>2, <1>3, <2>1
  <2> QED BY <1>1, <1>2, <2>1, <2>2
<1>5. CASE ~(Gaps >= n)
  <2>1. /\ ~(size + n <= MaxSize) /\ len = MaxSize /\ drop = size + n - MaxSize /\ drop \in Nat
    BY <1>1, <1>5 DEF Gaps
  <2> DEFINE T == SubSeq(all, drop + 1, size + n)
  <2>2. Queue!Pushed(Contents, items) = T
    <3>1. (size + n) - MaxSize + 1 = drop + 1
      BY <1>1, <2>1
    <3>2. Queue!Pushed(Contents, items) = SubSeq(all, (size + n) - MaxSize + 1, size + n)
      BY <1>2, <1>3, <2>1
    <3> QED BY <3>1, <3>2
  <2>3. T \in Seq(Item) /\ Len(T) = MaxSize /\ \A i \in 1..MaxSize : T[i] = all[drop + i]
    <3>1. size + n = Len(all) /\ Len(all) - drop = MaxSize /\ drop \in 0 .. Len(all)
      BY <1>1, <1>2, <2>1
    <3> QED BY <1>2, <3>1, SuffixItems
  <2>4. ASSUME NEW i \in 1..MaxSize PROVE drop + i \in 1 .. size + n
    BY <1>1, <2>1
  <2> HIDE DEF T
  <2>5. ASSUME NEW i \in 1..MaxSize
        PROVE  T[i] = IF drop + i <= size THEN Contents[drop + i] ELSE items[(drop + i) - size]
    <3> DEFINE e == drop + i
    <3>1. e \in 1 .. size + n /\ T[i] = all[e]
      BY <2>3, <2>4
    <3> HIDE DEF e
    <3>2. T[i] = IF e <= size THEN Contents[e] ELSE items[e - size]
      BY <1>2, <3>1
    <3> QED BY <3>2, Zenon DEF e
  <2> QED BY <2>1, <2>2, <2>3, <2>5
<1> QED BY <1>4, <1>5

\* An insertion, of one item or of many, does what the queue does.
LEMMA Insertion ==
  ASSUME RingTypeOK, RingTypeOK', NEW items \in Seq(Item), Len(items) <= MaxSize,
         NEW w, w = (head + size) % MaxSize,
         \A c \in Cells : data'[c] =
           IF Distance(w, c) < Len(items) THEN items[Distance(w, c) + 1] ELSE data[c],
         NEW drop, drop = (IF Gaps >= Len(items) THEN 0 ELSE Len(items) - Gaps),
         size' = (IF Gaps >= Len(items) THEN size + Len(items) ELSE MaxSize),
         (head' = head /\ drop = 0) \/ head' = (head + drop) % MaxSize
  PROVE  Contents' = Queue!Pushed(Contents, items)
<1> DEFINE n == Len(items)
           P == Queue!Pushed(Contents, items)
<1>1. /\ MaxSize \in Nat \ {0} /\ size \in Nat /\ size <= MaxSize /\ n \in Nat /\ n <= MaxSize
      /\ head \in Nat /\ head <= MaxSize /\ size' \in Nat /\ size' <= MaxSize
  BY MaxSizeAssumption, SMTT(30) DEF RingTypeOK, Cells
<1>2. drop \in Nat /\ drop <= MaxSize /\ drop <= size /\ drop + size' = size + n
  BY <1>1 DEF Gaps
<1>3. /\ P \in Seq(Item) /\ Len(P) = size'
      /\ \A i \in 1..size' : P[i] =
           IF drop + i <= size THEN Contents[drop + i] ELSE items[(drop + i) - size]
  BY PushedItems
<1>4. /\ Contents' \in Seq(Item) /\ Len(Contents') = size'
      /\ \A i \in 1..size' : Contents'[i] = data'[(head' + i - 1) % MaxSize]
  BY ContentsTypedNext
<1>5. \A i \in 1..size : Contents[i] = data[(head + i - 1) % MaxSize]
  BY ContentsTyped
<1> DEFINE new == size'
<1>7. /\ MaxSize \in Nat /\ head \in 0..MaxSize /\ size \in 0..MaxSize
      /\ new \in 0..MaxSize /\ drop \in 0..MaxSize /\ n \in 0..MaxSize
      /\ drop + new = size + n
  BY <1>1, <1>2
<1>8. new = size'
  OBVIOUS
<1> HIDE DEF new
<1>6. ASSUME NEW i \in 1..new
      PROVE  Contents'[i] = P[i]
  <2> DEFINE k == drop + i
             c == (head + k - 1) % MaxSize
  <2>1. /\ k \in Nat /\ k >= 1 /\ k <= size + n /\ i - 1 \in 0 .. MaxSize - 1
        /\ head + drop \in 0 .. 2 * MaxSize /\ head + drop + (i - 1) = head + k - 1
        /\ k > size => k - size - 1 < n /\ k - size - 1 + 1 = k - size
    <3> HIDE DEF P, c, n
    <3>1. i \in Nat /\ i >= 1 /\ i <= new /\ new <= MaxSize
      BY <1>7
    <3>2. k \in Nat /\ k >= 1 /\ k <= size + n
      BY <1>7, <3>1
    <3>3. i - 1 \in 0 .. MaxSize - 1
      BY <1>7, <3>1
    <3>4. head + drop \in 0 .. 2 * MaxSize
      BY <1>7
    <3>6. head + drop + (i - 1) = head + k - 1
      BY <1>7, <3>1
    <3>5. k > size => k - size - 1 < n /\ k - size - 1 + 1 = k - size
      BY <1>7, <3>1, <3>2, SMTT(30)
    <3> QED BY <3>2, <3>3, <3>4, <3>5, <3>6
  <2>2. (head' + i - 1) % MaxSize = c
    <3>1. CASE head' = head /\ drop = 0
      <4>1. head + drop + (i - 1) = head + i - 1
        BY <1>7, <3>1
      <4>2. head' + i - 1 = head + i - 1
        BY <3>1
      <4> QED BY <2>1, <4>1, <4>2
    <3>2. CASE head' = (head + drop) % MaxSize
      <4>1. (((head + drop) % MaxSize) + (i - 1)) % MaxSize = (head + drop + (i - 1)) % MaxSize
        BY <2>1, WrapAdd
      <4>2. head' \in Int /\ head' + i - 1 = ((head + drop) % MaxSize) + (i - 1)
        BY <1>1, <2>1, <3>2, Wrap DEF Cells
      <4> QED BY <2>1, <4>1, <4>2
    <3> QED BY <3>1, <3>2
  <2> HIDE DEF c, k
  <2>3. CASE k <= size
    <3>1. k \in 1..size
      BY <1>1, <2>1, <2>3
    <3>2. c \in Cells /\ Distance(w, c) = MaxSize - size + k - 1
      BY <3>1, Place DEF c
    <3>3. ~(MaxSize - size + k - 1 < n)
      <4>1. k >= drop + 1
        BY <1>1, <1>2 DEF k
      <4>2. CASE Gaps >= n
        BY <1>1, <2>1, <4>2 DEF Gaps
      <4>3. CASE ~(Gaps >= n)
        <5>1. drop = n - (MaxSize - size)
          BY <4>3 DEF Gaps
        <5> QED BY <1>1, <1>2, <2>1, <4>1, <5>1
      <4> QED BY <4>2, <4>3
    <3>4. data'[c] = data[c]
      BY <3>2, <3>3
    <3>5. Contents[k] = data[c]
      BY <1>5, <3>1 DEF c
    <3> QED BY <1>3, <1>4, <1>8, <2>2, <2>3, <3>4, <3>5 DEF k
  <2>4. CASE ~(k <= size)
    <3>1. k \in size + 1 .. size + MaxSize
      BY <1>1, <2>1, <2>4
    <3>2. c \in Cells /\ Distance(w, c) = k - size - 1
      BY <3>1, Place DEF c
    <3>3. k - size - 1 < n /\ k - size - 1 + 1 = k - size
      BY <1>1, <2>1, <2>4
    <3>4. data'[c] = items[k - size]
      BY <3>2, <3>3
    <3>5. P[i] = items[k - size]
      <4> HIDE DEF P
      <4>1. P[i] = IF drop + i <= size THEN Contents[drop + i] ELSE items[(drop + i) - size]
        BY <1>3, <1>8
      <4> QED BY <2>4, <4>1, Zenon DEF k
    <3>6. Contents'[i] = data'[c]
      BY <1>4, <1>8, <2>2
    <3> QED BY <3>4, <3>5, <3>6
  <2> QED BY <2>3, <2>4
<1> QED BY <1>3, <1>4, <1>6, <1>8, SameItems

\* A removal of the n oldest items leaves the others.
LEMMA Removal ==
  ASSUME RingTypeOK, RingTypeOK', NEW n \in 0..size, data' = data, size' = size - n,
         \A i \in 0 .. MaxSize - 1 : (head' + i) % MaxSize = (head + n + i) % MaxSize
  PROVE  Contents' = SubSeq(Contents, n + 1, Len(Contents))
<1> DEFINE R == SubSeq(Contents, n + 1, Len(Contents))
<1>1. /\ MaxSize \in Nat \ {0} /\ size \in Nat /\ size <= MaxSize /\ n \in Nat /\ n <= size
      /\ head \in Nat /\ head' \in Nat
  BY MaxSizeAssumption DEF RingTypeOK, Cells
<1>2. /\ Contents \in Seq(Item) /\ Len(Contents) = size
      /\ \A i \in 1..size : Contents[i] = data[(head + i - 1) % MaxSize]
  BY ContentsTyped
<1>3. /\ Contents' \in Seq(Item) /\ Len(Contents') = size - n
      /\ \A i \in 1 .. size - n : Contents'[i] = data[(head' + i - 1) % MaxSize]
  BY ContentsTypedNext
<1>4. R \in Seq(Item) /\ Len(R) = size - n /\ \A i \in 1 .. size - n : R[i] = Contents[n + i]
  <2>1. n \in 0 .. Len(Contents)
    BY <1>1, <1>2
  <2> QED BY <1>2, <2>1, SuffixItems
<1>5. ASSUME NEW i \in 1 .. size - n PROVE Contents'[i] = R[i]
  <2>1. i - 1 \in 0 .. MaxSize - 1 /\ n + i \in 1..size
        /\ head' + i - 1 = head' + (i - 1) /\ head + (n + i) - 1 = head + n + (i - 1)
    BY <1>1
  <2>2. (head' + (i - 1)) % MaxSize = (head + n + (i - 1)) % MaxSize
    BY <2>1
  <2>3. Contents'[i] = data[(head + n + (i - 1)) % MaxSize]
    BY <1>3, <2>1, <2>2
  <2>4. Contents[n + i] = data[(head + n + (i - 1)) % MaxSize]
    BY <1>2, <2>1
  <2> HIDE DEF R
  <2> QED BY <1>4, <2>3, <2>4
<1> HIDE DEF R
<1> QED BY <1>3, <1>4, <1>5, SameItems DEF R
-----------------------------------------------------------------------------
(* Types, and with them the bounds of every access.                        *)

\* What is inserted, and what is handed out.
LEMMA BatchesTyped ==
  \A items \in Batches : items \in Seq(Item) /\ Len(items) \in 0 .. MaxSize + 1
<1> SUFFICES ASSUME NEW items \in Batches
             PROVE  items \in Seq(Item) /\ Len(items) \in 0 .. MaxSize + 1
  OBVIOUS
<1>1. PICK n \in 0 .. MaxSize + 1 : items \in [1..n -> Item]
  BY DEF Batches
<1>2. n \in Nat
  BY <1>1, MaxSizeAssumption
<1> QED BY <1>1, <1>2

\* The empty batch and the batch of one.
LEMMA SmallBatches == <<>> \in Batches /\ \A x \in Item : <<x>> \in Batches
<1>1. 0 \in 0 .. MaxSize + 1 /\ 1 \in 0 .. MaxSize + 1
  BY MaxSizeAssumption
<1>2. <<>> \in [1..0 -> Item] /\ \A x \in Item : <<x>> \in [1..1 -> Item]
  OBVIOUS
<1> QED BY <1>1, <1>2 DEF Batches

\* Initially the array holds anything and the ring is empty.
LEMMA RingTypeInit == RingInit => RingTypeOK
<1> SUFFICES ASSUME RingInit PROVE RingTypeOK
  OBVIOUS
<1>1. call \in [op : {"create", "insert", "remove", "head", "clear"},
                items : Batches, n : 0 .. MaxSize + 1]
  BY SmallBatches, MaxSizeAssumption DEF RingInit, Calling
<1>2. head \in (IF style = "single" THEN Cells ELSE 0 .. MaxSize) /\ size \in 0 .. MaxSize
  BY MaxSizeAssumption DEF RingInit, Cells
<1>3. out \in Seq(Item) /\ Len(out) <= MaxSize
  BY MaxSizeAssumption DEF RingInit
<1> QED BY <1>1, <1>2, <1>3 DEF RingInit, RingTypeOK

\* The indices of a typed state.
LEMMA Bounds ==
  RingTypeOK => /\ MaxSize \in Nat \ {0} /\ size \in 0..MaxSize /\ head \in 0..MaxSize
            /\ data \in [Cells -> Item] /\ (style = "single" => head \in Cells)
            /\ head + size \in 0 .. 2 * MaxSize /\ (head + size) % MaxSize \in Cells
<1> SUFFICES ASSUME RingTypeOK
             PROVE  /\ MaxSize \in Nat \ {0} /\ size \in 0..MaxSize /\ head \in 0..MaxSize
                    /\ data \in [Cells -> Item] /\ (style = "single" => head \in Cells)
                    /\ head + size \in 0 .. 2 * MaxSize /\ (head + size) % MaxSize \in Cells
  OBVIOUS
<1>1. /\ MaxSize \in Nat \ {0} /\ size \in 0..MaxSize /\ head \in 0..MaxSize
      /\ data \in [Cells -> Item] /\ (style = "single" => head \in Cells)
  BY MaxSizeAssumption DEF RingTypeOK, Cells
<1>2. head + size \in 0 .. 2 * MaxSize /\ head + size \in Nat
  BY <1>1
<1> QED BY <1>1, <1>2, Wrap

\* insert_items: data, head and size.
LEMMA InsertItemsEffect ==
  ASSUME RingTypeOK, NEW items \in Batches, InsertItems(items), Len(items) <= MaxSize
  PROVE  /\ data' = Filled((head + size) % MaxSize, items)
         /\ Gaps >= Len(items) => size' = size + Len(items) /\ head' = head
         /\ ~(Gaps >= Len(items)) =>
              size' = MaxSize /\ head' = (head + (Len(items) - Gaps)) % MaxSize
  BY BatchesTyped, MaxSizeAssumption DEF InsertItems, Filled

\* remove_items: head ends up the n items further on, reduced or not.
LEMMA RemoveItemsEffect ==
  ASSUME RingTypeOK, NEW n \in 0..size, RemoveItems(n)
  PROVE  /\ head' \in 0..MaxSize
         /\ \A i \in 0 .. MaxSize - 1 : (head' + i) % MaxSize = (head + n + i) % MaxSize
         /\ size' = size - n /\ data' = data /\ out' = SubSeq(Contents, 1, n)
<1>1. /\ MaxSize \in Nat \ {0} /\ size \in 0..MaxSize /\ head \in 0..MaxSize /\ n \in Nat
      /\ n <= MaxSize
  BY Bounds
<1> DEFINE split == IF head + n > MaxSize THEN MaxSize - head ELSE 0
           start == IF head + n > MaxSize THEN 0 ELSE head
<1>2. /\ out' = CopyOut(head, split) \o CopyOut(start, n - split)
      /\ head' = start + (n - split) /\ size' = size - n /\ data' = data
  BY <1>1 DEF RemoveItems
<1>3. out' = SubSeq(Contents, 1, n)
  BY <1>2, CopiesOut
<1> DEFINE h == head'
<1>4. h \in 0..MaxSize /\ (h = head + n \/ (head + n > MaxSize /\ h = head + n - MaxSize))
  <2>1. CASE head + n > MaxSize
    <3>1. h = 0 + (n - (MaxSize - head))
      BY <1>2, <2>1
    <3> HIDE DEF h
    <3> QED BY <1>1, <2>1, <3>1
  <2>2. CASE ~(head + n > MaxSize)
    <3>1. h = head + (n - 0)
      BY <1>2, <2>2
    <3> HIDE DEF h
    <3> QED BY <1>1, <2>2, <3>1
  <2> QED BY <2>1, <2>2
<1>5. ASSUME NEW i \in 0 .. MaxSize - 1
      PROVE  (h + i) % MaxSize = (head + n + i) % MaxSize
  <2> HIDE DEF h
  <2>1. CASE h = head + n
    BY <2>1
  <2>2. CASE head + n > MaxSize /\ h = head + n - MaxSize
    <3>1. h + i \in 0 .. 2 * MaxSize - 1 /\ (h + i) + MaxSize = head + n + i
      BY <1>1, <1>4, <2>2
    <3> QED BY <3>1, WrapOnce
  <2> QED BY <1>4, <2>1, <2>2
<1> QED BY <1>2, <1>3, <1>4, <1>5

\* Every operation keeps the types.
LEMMA RingTypeStep == RingTypeOK /\ [RingNext]_ringVars => RingTypeOK'
<1> SUFFICES ASSUME RingTypeOK, [RingNext]_ringVars PROVE RingTypeOK'
  OBVIOUS
<1>b. /\ MaxSize \in Nat \ {0} /\ size \in 0..MaxSize /\ head \in 0..MaxSize
      /\ data \in [Cells -> Item] /\ (style = "single" => head \in Cells)
      /\ style \in {"bulk", "single"} /\ (head + size) % MaxSize \in Cells
  BY Bounds DEF RingTypeOK
<1>s. <<>> \in Seq(Item) /\ Len(<<>>) <= MaxSize /\ \A x \in Item : <<x>> \in Seq(Item) /\ Len(<<x>>) <= MaxSize
  BY <1>b
<1>n. 0 \in 0 .. MaxSize + 1 /\ 1 \in 0 .. MaxSize + 1
  BY <1>b
<1>h. (head + 1) % MaxSize \in Cells
  BY <1>b, Wrap
<1>1. ASSUME NEW x \in Item, InsertOne(x) PROVE RingTypeOK'
  <2>1. call' = [op |-> "insert", items |-> <<x>>, n |-> 0] /\ out' = <<>> /\ style' = style
    BY <1>1 DEF InsertOne, Calling
  <2>2. /\ data' \in [Cells -> Item] /\ head' \in Cells /\ size' \in 0..MaxSize
        /\ style = "single"
    <3>1. CASE size = MaxSize
      BY <1>1, <1>b, <1>h, <3>1 DEF InsertOne
    <3>2. CASE size # MaxSize
      BY <1>1, <1>b, <3>2 DEF InsertOne
    <3> QED BY <3>1, <3>2
  <2> QED BY <1>b, <1>n, <1>s, <2>1, <2>2, SmallBatches DEF RingTypeOK
<1>2. CASE RemoveOne
  <2>1. call' = [op |-> "remove", items |-> <<>>, n |-> 1] /\ style' = style /\ data' = data
    BY <1>2 DEF RemoveOne, Calling
  <2>2. /\ head' \in Cells /\ size' \in 0..MaxSize /\ style = "single"
        /\ out' \in Seq(Item) /\ Len(out') <= MaxSize
    <3>1. CASE size # 0
      <4>1. /\ out' = <<data[head]>> /\ head' = (head + 1) % MaxSize /\ size' = size - 1
            /\ style = "single"
        BY <1>2, <3>1 DEF RemoveOne
      <4>2. data[head] \in Item
        BY <1>b, <4>1
      <4>3. size - 1 \in 0..MaxSize
        BY <1>b, <3>1
      <4>4. out' \in Seq(Item) /\ Len(out') <= MaxSize
        BY <1>s, <4>1, <4>2
      <4> QED BY <1>h, <4>1, <4>3, <4>4
    <3>2. CASE size = 0
      BY <1>2, <1>b, <1>s, <3>2 DEF RemoveOne
    <3> QED BY <3>1, <3>2
  <2> QED BY <1>b, <1>n, <2>1, <2>2, SmallBatches DEF RingTypeOK
<1>3. CASE HeadItem
  <2>1. /\ call' = [op |-> "head", items |-> <<>>, n |-> 0]
        /\ UNCHANGED <<data, head, size, style>>
        /\ out' \in Seq(Item) /\ Len(out') <= MaxSize
    BY <1>3, <1>b, <1>s DEF HeadItem, Calling
  <2> QED BY <1>b, <1>n, <2>1, SmallBatches DEF RingTypeOK
<1>4. ASSUME NEW items \in Batches, InsertItems(items) PROVE RingTypeOK'
  <2>1. call' = [op |-> "insert", items |-> items, n |-> 0] /\ out' = <<>> /\ style' = style
        /\ style = "bulk"
    BY <1>4 DEF InsertItems, Calling
  <2>2. items \in Seq(Item) /\ Len(items) \in Nat
    BY BatchesTyped
  <2>3. data' \in [Cells -> Item] /\ head' \in 0..MaxSize /\ size' \in 0..MaxSize
    <3>1. CASE Len(items) > MaxSize
      BY <1>4, <1>b, <3>1 DEF InsertItems
    <3>2. CASE Len(items) <= MaxSize
      <4>1. /\ data' = Filled((head + size) % MaxSize, items)
            /\ Gaps >= Len(items) => size' = size + Len(items) /\ head' = head
            /\ ~(Gaps >= Len(items)) =>
                 size' = MaxSize /\ head' = (head + (Len(items) - Gaps)) % MaxSize
        BY <1>4, <3>2, InsertItemsEffect
      <4>2. data' \in [Cells -> Item]
        BY <1>b, <2>2, <3>2, <4>1, CopiesIn
      <4>3. CASE Gaps >= Len(items)
        <5>1. size + Len(items) \in 0..MaxSize
          BY <1>b, <2>2, <4>3 DEF Gaps
        <5> QED BY <1>b, <4>1, <4>2, <4>3, <5>1
      <4>4. CASE ~(Gaps >= Len(items))
        <5>1. head + (Len(items) - Gaps) \in Nat
          BY <1>b, <2>2, <4>4 DEF Gaps
        <5>2. head' \in Cells
          BY <4>1, <4>4, <5>1, Wrap
        <5> QED BY <1>b, <4>1, <4>2, <4>4, <5>2 DEF Cells
      <4> QED BY <4>3, <4>4
    <3> QED BY <1>b, <2>2, <3>1, <3>2
  <2> QED BY <1>b, <1>n, <1>s, <2>1, <2>3 DEF RingTypeOK
<1>5. ASSUME NEW n \in 0 .. MaxSize + 1, RemoveItems(n) PROVE RingTypeOK'
  <2>1. call' = [op |-> "remove", items |-> <<>>, n |-> n] /\ style' = style /\ data' = data
        /\ style = "bulk"
    BY <1>5 DEF RemoveItems, Calling
  <2>2. head' \in 0..MaxSize /\ size' \in 0..MaxSize /\ out' \in Seq(Item) /\ Len(out') <= MaxSize
    <3>1. CASE n > size
      BY <1>5, <1>b, <1>s, <3>1 DEF RemoveItems
    <3>2. CASE n <= size
      <4>1. n \in 0..size
        BY <1>b, <3>2
      <4>2. head' \in 0..MaxSize /\ size' = size - n /\ out' = SubSeq(Contents, 1, n)
        BY <1>5, <4>1, RemoveItemsEffect
      <4>3. Contents \in Seq(Item) /\ Len(Contents) = size
        BY ContentsTyped
      <4>4. SubSeq(Contents, 1, n) \in Seq(Item) /\ Len(SubSeq(Contents, 1, n)) = n
        <5> HIDE DEF Contents
        <5>1. n \in 0 .. Len(Contents)
          BY <4>1, <4>3
        <5> QED BY <4>3, <5>1
      <4> QED BY <1>b, <4>1, <4>2, <4>4
    <3> QED BY <1>b, <3>1, <3>2
  <2> QED BY <1>b, <1>n, <2>1, <2>2, SmallBatches DEF RingTypeOK
<1>6. CASE ClearAll
  <2>1. /\ call' = [op |-> "clear", items |-> <<>>, n |-> 0] /\ out' = <<>>
        /\ size' = 0 /\ head' = 0 /\ UNCHANGED <<data, style>>
    BY <1>6 DEF ClearAll, Calling
  <2>2. head' \in Cells /\ head' \in 0..MaxSize /\ size' \in 0..MaxSize
    BY <1>b, <2>1 DEF Cells
  <2> QED BY <1>b, <1>n, <1>s, <2>1, <2>2, SmallBatches DEF RingTypeOK
<1>7. CASE UNCHANGED ringVars
  BY <1>7 DEF ringVars, RingTypeOK
<1> QED BY <1>1, <1>2, <1>3, <1>4, <1>5, <1>6, <1>7 DEF RingNext

\* RingTypeOK: every index stays in bounds, whatever the capacity and the items.
THEOREM RingTypeCorrect == RingSpec => []RingTypeOK
<1> QED BY RingTypeInit, RingTypeStep, PTL DEF RingSpec

-----------------------------------------------------------------------------
(* The operations implement the queue.                                     *)

\* A step of the ring is a step of the queue.
LEMMA QueueStep ==
  RingTypeOK /\ RingTypeOK' /\ [RingNext]_ringVars => [Queue!Next]_<<Contents, call, out>>
<1> SUFFICES ASSUME RingTypeOK, RingTypeOK', [RingNext]_ringVars
             PROVE  Queue!Next \/ UNCHANGED <<Contents, call, out>>
  OBVIOUS
<1>b. /\ MaxSize \in Nat \ {0} /\ size \in 0..MaxSize /\ head \in 0..MaxSize
      /\ data \in [Cells -> Item] /\ (style = "single" => head \in Cells)
      /\ head + size \in 0 .. 2 * MaxSize /\ (head + size) % MaxSize \in Cells
  BY Bounds
<1>c. /\ Contents \in Seq(Item) /\ Len(Contents) = size
      /\ \A i \in 1..size : Contents[i] = data[(head + i - 1) % MaxSize]
  BY ContentsTyped
<1>q. UNCHANGED <<data, head, size>> => UNCHANGED Contents
  BY DEF Contents
<1>o. size # 0 /\ style = "single" => Contents # <<>> /\ Contents[1] = data[head]
  <2>1. ASSUME size # 0, style = "single" PROVE Contents # <<>> /\ Contents[1] = data[head]
    <3>1. 1 \in 1..size /\ head + 1 - 1 = head /\ head % MaxSize = head
      <4>1. head \in 0 .. MaxSize - 1 /\ head \in Nat
        BY <1>b, <2>1 DEF Cells
      <4>2. 1 \in 1..size /\ head + 1 - 1 = head
        BY <1>b, <2>1, <4>1
      <4> QED BY <4>1, <4>2, Wrap
    <3>2. Contents[1] = data[(head + 1 - 1) % MaxSize]
      BY <1>c, <3>1
    <3> QED BY <1>c, <2>1, <3>1, <3>2
  <2> QED BY <2>1
<1> HIDE DEF Contents
<1>1. ASSUME NEW x \in Item, InsertOne(x) PROVE Queue!Next
  <2> DEFINE w == (head + size) % MaxSize
             s == <<x>>
  <2>1. s \in Seq(Item) /\ Len(s) = 1 /\ s[1] = x /\ s \in Batches /\ 1 <= MaxSize
    BY <1>b, SmallBatches
  <2>2. \A c \in Cells : Distance(w, c) < 1 => Distance(w, c) = 0 /\ c = w
    BY <1>b DEF Distance, Cells
  <2>3. w \in Cells /\ Distance(w, w) = 0
    BY <1>b DEF Distance, Cells
  <2>4. data' = [data EXCEPT ![w] = x]
    <3>1. CASE size = MaxSize
      <4>1. (head + MaxSize) % MaxSize = head
        <5>1. head \in 0 .. MaxSize - 1 /\ head \in 0 .. 2 * MaxSize - 1
          BY <1>1, <1>b DEF InsertOne, Cells
        <5> QED BY <5>1, Wrap, WrapOnce
      <4> QED BY <1>1, <3>1, <4>1 DEF InsertOne
    <3>2. CASE size # MaxSize
      BY <1>1, <3>2 DEF InsertOne
    <3> QED BY <3>1, <3>2
  <2>5. \A c \in Cells : data'[c] =
          IF Distance(w, c) < Len(s) THEN s[Distance(w, c) + 1] ELSE data[c]
    <3> SUFFICES ASSUME NEW c \in Cells
                 PROVE  data'[c] = IF Distance(w, c) < 1 THEN s[Distance(w, c) + 1] ELSE data[c]
      BY <2>1
    <3> HIDE DEF w, s
    <3>1. CASE c = w
      <4>1. Distance(w, c) < 1 /\ Distance(w, c) + 1 = 1
        BY <2>3, <3>1
      <4>2. data'[c] = x
        BY <1>b, <2>3, <2>4, <3>1
      <4> QED BY <2>1, <4>1, <4>2
    <3>2. CASE c # w
      BY <1>b, <2>2, <2>4, <3>2
    <3> QED BY <3>1, <3>2
  <2> DEFINE drop == IF Gaps >= Len(s) THEN 0 ELSE Len(s) - Gaps
  <2>6. /\ size' = (IF Gaps >= Len(s) THEN size + Len(s) ELSE MaxSize)
        /\ (head' = head /\ drop = 0) \/ head' = (head + drop) % MaxSize
    <3>1. CASE size = MaxSize
      <4>1. Gaps = 0 /\ ~(Gaps >= Len(s)) /\ drop = 1
        BY <1>b, <2>1, <3>1 DEF Gaps
      <4> QED BY <1>1, <3>1, <4>1 DEF InsertOne
    <3>2. CASE size # MaxSize
      <4>1. Gaps >= Len(s)
        BY <1>b, <2>1, <3>2 DEF Gaps
      <4> QED BY <1>1, <2>1, <3>2, <4>1 DEF InsertOne
    <3> QED BY <3>1, <3>2
  <2>7. Contents' = Queue!Pushed(Contents, s)
    <3> HIDE DEF s
    <3> QED BY <2>1, <2>5, <2>6, Insertion
  <2>8. Queue!Push(s)
    BY <1>1, <2>1, <2>7 DEF InsertOne, Calling, Queue!Push, Queue!Calling
  <2> QED BY <2>1, <2>8 DEF Queue!Next, Queue!Batches, Batches
<1>2. CASE RemoveOne
  <2>0. 1 \in 0 .. MaxSize + 1
    BY <1>b
  <2>1. CASE size # 0
    <3>1. /\ out' = <<data[head]>> /\ head' = (head + 1) % MaxSize /\ size' = size - 1
          /\ data' = data /\ style = "single" /\ 1 \in 0..size
      BY <1>2, <1>b, <2>1 DEF RemoveOne
    <3>2. ASSUME NEW i \in 0 .. MaxSize - 1
          PROVE  (head' + i) % MaxSize = (head + 1 + i) % MaxSize
      <4>1. head + 1 \in 0 .. 2 * MaxSize
        BY <1>b
      <4> QED BY <3>1, <4>1, WrapAdd
    <3>3. Contents' = SubSeq(Contents, 1 + 1, Len(Contents))
      BY <3>1, <3>2, Removal
    <3>4. SubSeq(Contents, 1, 1) = <<Contents[1]>> /\ 1 <= Len(Contents)
      <4>1. Len(Contents) \in Nat /\ 1 <= Len(Contents)
        BY <1>b, <1>c, <2>1
      <4>2. Contents[1] \in Item
        BY <1>c, <4>1
      <4>3. /\ SubSeq(Contents, 1, 1) \in Seq(Item) /\ Len(SubSeq(Contents, 1, 1)) = 1
            /\ SubSeq(Contents, 1, 1)[1] = Contents[1]
        BY <1>c, <4>1
      <4>4. <<Contents[1]>> \in Seq(Item) /\ Len(<<Contents[1]>>) = 1 /\ <<Contents[1]>>[1] = Contents[1]
        BY <4>2
      <4>5. \A i \in 1..1 : i = 1
        OBVIOUS
      <4> QED BY <4>1, <4>3, <4>4, <4>5, SameItems
    <3>5. Queue!Pop(1)
      BY <1>2, <1>o, <2>1, <3>1, <3>3, <3>4
      DEF RemoveOne, Calling, Queue!Pop, Queue!Calling
    <3> QED BY <2>0, <3>5 DEF Queue!Next
  <2>2. CASE size = 0
    <3>1. Queue!PopRefused(1)
      BY <1>2, <1>c, <1>q, <2>2 DEF RemoveOne, Calling, Queue!PopRefused, Queue!Calling
    <3> QED BY <2>0, <3>1 DEF Queue!Next
  <2> QED BY <2>1, <2>2
<1>3. CASE HeadItem
  <2>1. size = 0 <=> Contents = <<>>
    BY <1>c
  <2>2. size # 0 => Head(Contents) = data[head]
    BY <1>3, <1>c, <1>o DEF HeadItem
  <2>3. Queue!Peek
    BY <1>3, <1>q, <2>1, <2>2 DEF HeadItem, Calling, Queue!Peek, Queue!Calling
  <2> QED BY <2>3 DEF Queue!Next
<1>4. ASSUME NEW items \in Batches, InsertItems(items) PROVE Queue!Next
  <2>1. items \in Seq(Item) /\ Len(items) \in Nat
    BY BatchesTyped
  <2>2. CASE Len(items) <= MaxSize
    <3> DEFINE w == (head + size) % MaxSize
               drop == IF Gaps >= Len(items) THEN 0 ELSE Len(items) - Gaps
    <3>1. /\ data' = Filled(w, items)
          /\ Gaps >= Len(items) => size' = size + Len(items) /\ head' = head
          /\ ~(Gaps >= Len(items)) =>
               size' = MaxSize /\ head' = (head + (Len(items) - Gaps)) % MaxSize
      BY <1>4, <2>2, InsertItemsEffect
    <3>2. \A c \in Cells : data'[c] =
            IF Distance(w, c) < Len(items) THEN items[Distance(w, c) + 1] ELSE data[c]
      BY <1>b, <2>1, <2>2, <3>1, CopiesIn
    <3>3. /\ size' = (IF Gaps >= Len(items) THEN size + Len(items) ELSE MaxSize)
          /\ (head' = head /\ drop = 0) \/ head' = (head + drop) % MaxSize
      BY <3>1
    <3>4. Contents' = Queue!Pushed(Contents, items)
      BY <2>1, <2>2, <3>2, <3>3, Insertion
    <3>5. Queue!Push(items)
      BY <1>4, <2>2, <3>4 DEF InsertItems, Calling, Queue!Push, Queue!Calling
    <3> QED BY <3>5 DEF Queue!Next, Queue!Batches, Batches
  <2>3. CASE ~(Len(items) <= MaxSize)
    <3>1. Len(items) > MaxSize
      BY <1>b, <2>1, <2>3
    <3>2. Queue!Push(items)
      BY <1>4, <1>q, <2>3, <3>1 DEF InsertItems, Calling, Queue!Push, Queue!Calling
    <3> QED BY <3>2 DEF Queue!Next, Queue!Batches, Batches
  <2> QED BY <2>2, <2>3
<1>5. ASSUME NEW n \in 0 .. MaxSize + 1, RemoveItems(n) PROVE Queue!Next
  <2>1. CASE n > size
    <3>1. Queue!PopRefused(n)
      BY <1>5, <1>c, <1>q, <2>1 DEF RemoveItems, Calling, Queue!PopRefused, Queue!Calling
    <3> QED BY <3>1 DEF Queue!Next
  <2>2. CASE ~(n > size)
    <3>1. n \in 0..size
      BY <1>b, <2>2
    <3>2. /\ \A i \in 0 .. MaxSize - 1 : (head' + i) % MaxSize = (head + n + i) % MaxSize
          /\ size' = size - n /\ data' = data /\ out' = SubSeq(Contents, 1, n)
      BY <1>5, <3>1, RemoveItemsEffect
    <3>3. Contents' = SubSeq(Contents, n + 1, Len(Contents))
      BY <3>1, <3>2, Removal
    <3>4. Queue!Pop(n)
      BY <1>5, <1>c, <3>1, <3>2, <3>3 DEF RemoveItems, Calling, Queue!Pop, Queue!Calling
    <3> QED BY <3>4 DEF Queue!Next
  <2> QED BY <2>1, <2>2
<1>6. CASE ClearAll
  <2>1. Contents' = <<>>
    BY <1>6, ContentsTypedNext DEF ClearAll
  <2>2. Queue!Clear
    BY <1>6, <2>1 DEF ClearAll, Calling, Queue!Clear, Queue!Calling
  <2> QED BY <2>2 DEF Queue!Next
<1>7. CASE UNCHANGED ringVars
  BY <1>7, <1>q DEF ringVars
<1> QED BY <1>1, <1>2, <1>3, <1>4, <1>5, <1>6, <1>7 DEF RingNext

\* ImplementsQueue: cbuffer.c is the queue of cbuffer.h, for every capacity,
\* whether its client works item by item or in bulk.
THEOREM QueueImplemented == RingSpec => ImplementsQueue
<1>1. RingInit => Queue!Init
  <2> SUFFICES ASSUME RingInit PROVE Queue!Init
    OBVIOUS
  <2>1. Contents \in Seq(Item) /\ Len(Contents) = 0
    BY RingTypeInit, ContentsTyped DEF RingInit
  <2>2. Contents = <<>>
    <3> HIDE DEF Contents
    <3> QED BY <2>1
  <2> QED BY <2>2 DEF RingInit, Calling, Queue!Init, Queue!Calling
<1>2. RingTypeOK /\ RingTypeOK' /\ [RingNext]_ringVars => [Queue!Next]_<<Contents, call, out>>
  BY QueueStep
<1>3. RingSpec => []RingTypeOK
  BY RingTypeCorrect
<1> QED BY <1>1, <1>2, <1>3, PTL DEF RingSpec, ImplementsQueue, Queue!Spec

-----------------------------------------------------------------------------
(* The semaphores of ProdCons1.  IInv is the inductive invariant.           *)

Transit == {"mtx", "cs", "posting"}

\* A process between its calls, or not yet given an item, holds none.
HandsEmpty ==
  /\ \A p \in Producers : pc[p] \in {"idle", "posting"} => hand[p] = NULL
  /\ \A p \in Consumers : pc[p] \in {"idle", "elementos", "mtx", "cs"} => hand[p] = NULL

\* The inductive invariant.  BufferReady follows from the two accounts.
IInv == TypeOK /\ HandsEmpty /\ CellsConserved /\ ItemsAnnounced
-----------------------------------------------------------------------------
(* The vocabulary.                                                         *)

\* There are finitely many processes.
LEMMA ProcsFinite ==
  /\ IsFiniteSet(Producers) /\ Producers \subseteq Procs
  /\ IsFiniteSet(Consumers) /\ Consumers \subseteq Procs
  BY PeopleAssumption DEF Procs

\* Every process is of one kind only.
LEMMA OneKind == \A p \in Procs : p \in Producers <=> p \notin Consumers
  BY PeopleAssumption DEF Procs

\* When p goes to next, the number of processes at a set of places changes
\* by what p does.
LEMMA AtMove ==
  ASSUME NEW p \in Procs, \A q \in Procs \ {p} : pc'[q] = pc[q],
         NEW S \in {Producers, Consumers}, NEW X
  PROVE  /\ Cardinality(At(S, X)) \in Nat
         /\ Cardinality(At(S, X)') = Cardinality(At(S, X)) + Moved(p, S, X, pc[p], pc'[p])
<1>1. IsFiniteSet(S) /\ \A q \in S \ {p} : pc'[q] = pc[q]
  BY ProcsFinite
<1>2. /\ CountAt(S, X, pc) \in Nat
      /\ CountAt(S, X, pc') = CountAt(S, X, pc) + Moved(p, S, X, pc[p], pc'[p])
  BY <1>1, CountNat, CountStep
<1> QED BY <1>2 DEF At, CountAt

-----------------------------------------------------------------------------
(* Type correctness.                                                       *)

\* Initially the buffer is empty and every process is outside the driver.
LEMMA TypeInit == Init => TypeOK
  BY ItemsAssumption, PeopleAssumption DEF Init, TypeOK, PCs, Procs

\* A step of p that keeps to the places its side goes through.
LEMMA TypeStep == TypeOK /\ [Next]_vars => TypeOK'
<1> SUFFICES ASSUME TypeOK, [Next]_vars PROVE TypeOK'
  OBVIOUS
<1>u. CASE UNCHANGED vars
  BY <1>u DEF vars, TypeOK
<1> SUFFICES ASSUME NEW p \in Procs,
                    BeginWrite(p) \/ BeginRead(p) \/ Down(p) \/ Interrupted(p) \/ Run(p)
             PROVE  TypeOK'
  BY <1>u DEF Next
<1> USE ItemsAssumption, OneKind DEF TypeOK, PCs, Goto, Kept
<1>1. CASE BeginWrite(p)
  BY <1>1 DEF BeginWrite
<1>2. CASE BeginRead(p)
  BY <1>2 DEF BeginRead
<1>3. CASE DownHuecos(p)
  BY <1>3 DEF DownHuecos
<1>4. CASE DownElementos(p)
  BY <1>4 DEF DownElementos
<1>5. CASE DownMtx(p)
  BY <1>5 DEF DownMtx
<1>6. CASE Interrupted(p)
  BY <1>6 DEF Interrupted
<1>7. CASE Insert(p)
  BY <1>7 DEF Insert
<1>8. CASE Remove(p)
  <2>1. cbuf # <<>> => Head(cbuf) \in Addr /\ Tail(cbuf) \in Seq(Addr)
    OBVIOUS
  <2>2. CASE cbuf = <<>>
    BY <1>8, <2>2 DEF Remove
  <2>3. CASE cbuf # <<>>
    <3>1. cbuf' \in Seq(Addr) /\ hand' \in [Procs -> Addr \cup {NULL}]
      BY <1>8, <2>1, <2>3 DEF Remove
    <3>2. pc' \in [Procs -> PCs] /\ mtx' = 1
          /\ UNCHANGED <<elementos, huecos, leaked, signals>>
      BY <1>8 DEF Remove
    <3>3. /\ \A q \in Procs \ {p} : pc'[q] = pc[q] /\ hand'[q] = hand[q]
          /\ pc'[p] = "posting" /\ p \notin Producers
      BY <1>8, <2>3 DEF Remove
    <3> QED BY <3>1, <3>2, <3>3, ProcsFinite
  <2> QED BY <2>2, <2>3
<1>9. CASE UpElementos(p)
  BY <1>9 DEF UpElementos
<1>10. CASE UpHuecos(p)
  BY <1>10 DEF UpHuecos
<1>11. CASE Use(p)
  BY <1>11 DEF Use
<1> QED BY <1>1, <1>2, <1>3, <1>4, <1>5, <1>6, <1>7, <1>8, <1>9, <1>10, <1>11
        DEF Down, Run

-----------------------------------------------------------------------------
(* The accounts.                                                           *)

\* What p's going to next adds to the cells in transit, and to the items in
\* the buffer that no unit of elementos stands for.
TransitMove(p, next) == Moved(p, Producers, Transit, pc[p], next)
                          + Moved(p, Consumers, Transit, pc[p], next)
ItemMove(p, next) == Moved(p, Producers, {"posting"}, pc[p], next)
                       + Moved(p, Consumers, {"mtx", "cs"}, pc[p], next)

\* A step of p keeps both accounts when the units it takes or gives, and the
\* item it stores or removes, make up for where it goes.
LEMMA Books ==
  ASSUME TypeOK, TypeOK', CellsConserved, ItemsAnnounced,
         NEW p \in Procs, NEW next, pc' = [pc EXCEPT ![p] = next],
         huecos' + elementos' = huecos + elementos - TransitMove(p, next),
         Len(cbuf') - elementos' = Len(cbuf) - elementos + ItemMove(p, next)
  PROVE  CellsConserved' /\ ItemsAnnounced'
<1>1. pc'[p] = next /\ \A q \in Procs \ {p} : pc'[q] = pc[q]
  BY DEF TypeOK
<1> DEFINE a == Cardinality(At(Producers, Transit))
           b == Cardinality(At(Consumers, Transit))
           c == Cardinality(At(Producers, {"posting"}))
           d == Cardinality(At(Consumers, {"mtx", "cs"}))
           l == Len(cbuf)
           k == Len(cbuf')
           h2 == huecos'
           e2 == elementos'
           da == Moved(p, Producers, Transit, pc[p], next)
           db == Moved(p, Consumers, Transit, pc[p], next)
           dc == Moved(p, Producers, {"posting"}, pc[p], next)
           dd == Moved(p, Consumers, {"mtx", "cs"}, pc[p], next)
<1>2. /\ a \in Nat /\ Cardinality(At(Producers, Transit)') = a + da
      /\ b \in Nat /\ Cardinality(At(Consumers, Transit)') = b + db
      /\ c \in Nat /\ Cardinality(At(Producers, {"posting"})') = c + dc
      /\ d \in Nat /\ Cardinality(At(Consumers, {"mtx", "cs"})') = d + dd
  BY <1>1, AtMove
<1>3. da \in Int /\ db \in Int /\ dc \in Int /\ dd \in Int
  BY DEF Moved, In
<1>4. huecos + elementos + a + b = MAX_ITEMS_CBUF /\ l = elementos + c + d
  BY DEF CellsConserved, ItemsAnnounced, Transit
<1>5. /\ huecos \in Int /\ elementos \in Int /\ l \in Int
      /\ h2 \in Int /\ e2 \in Int /\ k \in Int
  BY DEF TypeOK
<1>6. h2 + e2 = huecos + elementos - (da + db) /\ k - e2 = l - elementos + (dc + dd)
  BY DEF TransitMove, ItemMove
<1>7. h2 + e2 + (a + da) + (b + db) = MAX_ITEMS_CBUF /\ k = e2 + (c + dc) + (d + dd)
  <2> HIDE DEF a, b, c, d, da, db, dc, dd, l, k, h2, e2
  <2> QED BY <1>2, <1>3, <1>4, <1>5, <1>6
<1> QED BY <1>2, <1>7 DEF CellsConserved, ItemsAnnounced, Transit

\* An admitted writer finds a gap, an admitted reader an item.
LEMMA Admitted == TypeOK /\ CellsConserved /\ ItemsAnnounced => BufferReady
<1> SUFFICES ASSUME TypeOK, CellsConserved, ItemsAnnounced, NEW p \in Procs, pc[p] = "cs"
             PROVE  IF p \in Producers THEN Len(cbuf) < MAX_ITEMS_CBUF ELSE cbuf # <<>>
  BY DEF BufferReady
<1> DEFINE a == Cardinality(At(Producers, Transit))
           b == Cardinality(At(Consumers, Transit))
           c == Cardinality(At(Producers, {"posting"}))
           d == Cardinality(At(Consumers, {"mtx", "cs"}))
           m == Cardinality(At(Producers, {"mtx", "cs"}))
           l == Len(cbuf)
<1>1. /\ a \in Nat /\ b \in Nat /\ c \in Nat /\ d \in Nat
      /\ p \in Producers => c < a
      /\ p \in Consumers => d > 0
      /\ d <= b /\ c <= a
  <2> DEFINE A == At(Producers, Transit)
             B == At(Consumers, Transit)
             C == At(Producers, {"posting"})
             D == At(Consumers, {"mtx", "cs"})
  <2>1. IsFiniteSet(A) /\ IsFiniteSet(B) /\ C \subseteq A /\ D \subseteq B
    BY ProcsFinite, FS_Subset DEF At, Transit
  <2>2. IsFiniteSet(C) /\ IsFiniteSet(D) /\ (p \in Producers => p \in A \ C)
        /\ (p \in Consumers => p \in D)
    BY <2>1, FS_Subset DEF At, Transit
  <2> HIDE DEF A, B, C, D
  <2>3. /\ Cardinality(A) \in Nat /\ Cardinality(B) \in Nat
        /\ Cardinality(C) \in Nat /\ Cardinality(D) \in Nat
        /\ Cardinality(C) <= Cardinality(A) /\ Cardinality(D) <= Cardinality(B)
    BY <2>1, <2>2, FS_Subset, FS_CardinalityType
  <2>4. p \in Producers => Cardinality(C) < Cardinality(A)
    BY <2>1, <2>2, <2>3, FS_Subset
  <2>5. p \in Consumers => Cardinality(D) # 0
    BY <2>2, FS_EmptySet
  <2> QED BY <2>3, <2>4, <2>5 DEF A, B, C, D
<1>2. huecos + elementos + a + b = MAX_ITEMS_CBUF /\ l = elementos + c + d
  BY DEF CellsConserved, ItemsAnnounced, Transit
<1>3. huecos \in Nat /\ elementos \in Nat /\ l \in Nat
  BY DEF TypeOK
<1>4. (p \in Producers => l < MAX_ITEMS_CBUF) /\ (p \in Consumers => l > 0)
  <2> HIDE DEF a, b, c, d, l
  <2> QED BY <1>1, <1>2, <1>3, ItemsAssumption
<1>5. l > 0 => cbuf # <<>>
  OBVIOUS
<1> QED BY <1>4, <1>5, OneKind

\* Initially all cells are free and nobody has a unit of any semaphore.
LEMMA IInvInit == Init => IInv
<1> SUFFICES ASSUME Init PROVE IInv
  OBVIOUS
<1>1. TypeOK
  BY TypeInit
<1>2. HandsEmpty
  BY ProcsFinite DEF Init, HandsEmpty
<1>3. ASSUME NEW S \in {Producers, Consumers}, NEW X, "idle" \notin X
      PROVE  Cardinality(At(S, X)) = 0
  <2>1. At(S, X) = {}
    BY <1>3, ProcsFinite DEF Init, At
  <2> QED BY <2>1, FS_EmptySet
<1>4. CellsConserved /\ ItemsAnnounced
  BY <1>3, ItemsAssumption DEF Init, CellsConserved, ItemsAnnounced
<1> QED BY <1>1, <1>2, <1>4 DEF IInv

\* Every step of a handler keeps the invariant.
LEMMA IInvStep == IInv /\ [Next]_vars => IInv'
<1> SUFFICES ASSUME IInv, [Next]_vars PROVE IInv'
  OBVIOUS
<1>t. TypeOK /\ TypeOK' /\ HandsEmpty /\ CellsConserved /\ ItemsAnnounced
  BY TypeStep DEF IInv
<1>r. BufferReady
  BY <1>t, Admitted
<1>u. CASE UNCHANGED vars
  <2>1. HandsEmpty' /\ CellsConserved' /\ ItemsAnnounced'
    BY <1>t, <1>u DEF vars, HandsEmpty, CellsConserved, ItemsAnnounced, At
  <2> QED BY <1>t, <2>1 DEF IInv
<1> SUFFICES ASSUME NEW p \in Procs,
                    BeginWrite(p) \/ BeginRead(p) \/ Down(p) \/ Interrupted(p) \/ Run(p)
             PROVE  HandsEmpty' /\ CellsConserved' /\ ItemsAnnounced'
  BY <1>t, <1>u DEF Next, IInv
<1>k. p \in Producers <=> p \notin Consumers
  BY OneKind
<1>p. pc \in [Procs -> PCs] /\ hand \in [Procs -> Addr \cup {NULL}]
  BY <1>t DEF TypeOK
<1>n. /\ huecos \in Int /\ elementos \in Int /\ cbuf \in Seq(Addr) /\ Len(cbuf) \in Int
      /\ p \in Producers => pc[p] \notin {"elementos", "using"}
      /\ p \in Consumers => pc[p] # "huecos"
  BY <1>t DEF TypeOK
<1>1. CASE BeginWrite(p)
  <2>1. HandsEmpty'
    BY <1>t, <1>p, <1>k, <1>1, ProcsFinite DEF BeginWrite, HandsEmpty, Goto, Kept
  <2>2. CellsConserved' /\ ItemsAnnounced'
    <3>1. TransitMove(p, "huecos") = 0 /\ ItemMove(p, "huecos") = 0
      BY <1>n, <1>k, <1>1 DEF BeginWrite, TransitMove, ItemMove, Moved, In, Transit
    <3>2. /\ pc' = [pc EXCEPT ![p] = "huecos"]
          /\ huecos' + elementos' = huecos + elementos - TransitMove(p, "huecos")
          /\ Len(cbuf') - elementos' = Len(cbuf) - elementos + ItemMove(p, "huecos")
      BY <1>n, <1>1, <3>1 DEF BeginWrite, Goto
    <3> QED BY <1>t, <3>2, Books
  <2> QED BY <2>1, <2>2
<1>2. CASE BeginRead(p)
  <2>1. HandsEmpty'
    BY <1>t, <1>p, <1>2, <1>k, ProcsFinite DEF BeginRead, HandsEmpty, Goto, Kept
  <2>2. CellsConserved' /\ ItemsAnnounced'
    <3>1. TransitMove(p, "elementos") = 0 /\ ItemMove(p, "elementos") = 0
      BY <1>n, <1>k, <1>2 DEF BeginRead, TransitMove, ItemMove, Moved, In, Transit
    <3>2. /\ pc' = [pc EXCEPT ![p] = "elementos"]
          /\ huecos' + elementos' = huecos + elementos - TransitMove(p, "elementos")
          /\ Len(cbuf') - elementos' = Len(cbuf) - elementos + ItemMove(p, "elementos")
      BY <1>n, <1>2, <3>1 DEF BeginRead, Goto
    <3> QED BY <1>t, <3>2, Books
  <2> QED BY <2>1, <2>2
<1>3. CASE DownHuecos(p)
  <2>1. HandsEmpty'
    BY <1>t, <1>p, <1>3, <1>k, <1>n, ProcsFinite DEF DownHuecos, HandsEmpty, Goto, Kept
  <2>2. CellsConserved' /\ ItemsAnnounced'
    <3>1. TransitMove(p, "mtx") = 1 /\ ItemMove(p, "mtx") = 0
      BY <1>n, <1>k, <1>3 DEF DownHuecos, TransitMove, ItemMove, Moved, In, Transit
    <3>2. /\ pc' = [pc EXCEPT ![p] = "mtx"]
          /\ huecos' + elementos' = huecos + elementos - TransitMove(p, "mtx")
          /\ Len(cbuf') - elementos' = Len(cbuf) - elementos + ItemMove(p, "mtx")
      BY <1>n, <1>3, <3>1 DEF DownHuecos, Goto
    <3> QED BY <1>t, <3>2, Books
  <2> QED BY <2>1, <2>2
<1>4. CASE DownElementos(p)
  <2>1. HandsEmpty'
    BY <1>t, <1>p, <1>4, <1>k, <1>n, ProcsFinite DEF DownElementos, HandsEmpty, Goto, Kept
  <2>2. CellsConserved' /\ ItemsAnnounced'
    <3>1. TransitMove(p, "mtx") = 1 /\ ItemMove(p, "mtx") = 1
      BY <1>n, <1>k, <1>4 DEF DownElementos, TransitMove, ItemMove, Moved, In, Transit
    <3>2. /\ pc' = [pc EXCEPT ![p] = "mtx"]
          /\ huecos' + elementos' = huecos + elementos - TransitMove(p, "mtx")
          /\ Len(cbuf') - elementos' = Len(cbuf) - elementos + ItemMove(p, "mtx")
      BY <1>n, <1>4, <3>1 DEF DownElementos, Goto
    <3> QED BY <1>t, <3>2, Books
  <2> QED BY <2>1, <2>2
<1>5. CASE DownMtx(p)
  <2>1. HandsEmpty'
    BY <1>t, <1>p, <1>5, <1>k, <1>n, ProcsFinite DEF DownMtx, HandsEmpty, Goto, Kept
  <2>2. CellsConserved' /\ ItemsAnnounced'
    <3>1. TransitMove(p, "cs") = 0 /\ ItemMove(p, "cs") = 0
      BY <1>n, <1>k, <1>5 DEF DownMtx, TransitMove, ItemMove, Moved, In, Transit
    <3>2. /\ pc' = [pc EXCEPT ![p] = "cs"]
          /\ huecos' + elementos' = huecos + elementos - TransitMove(p, "cs")
          /\ Len(cbuf') - elementos' = Len(cbuf) - elementos + ItemMove(p, "cs")
      BY <1>n, <1>5, <3>1 DEF DownMtx, Goto
    <3> QED BY <1>t, <3>2, Books
  <2> QED BY <2>1, <2>2
<1>6. CASE Interrupted(p)
  <2>1. HandsEmpty'
    BY <1>t, <1>p, <1>6, ProcsFinite DEF Interrupted, HandsEmpty, Goto, Kept
  <2>2. CellsConserved' /\ ItemsAnnounced'
    <3>1. pc' = [pc EXCEPT ![p] = "idle"] /\ cbuf' = cbuf
      BY <1>6 DEF Interrupted, Goto
    <3>2. CASE pc[p] \in {"huecos", "elementos"}
      <4>1. TransitMove(p, "idle") = 0 /\ ItemMove(p, "idle") = 0
        BY <1>n, <1>k, <3>2 DEF TransitMove, ItemMove, Moved, In, Transit
      <4>2. /\ huecos' + elementos' = huecos + elementos - TransitMove(p, "idle")
            /\ Len(cbuf') - elementos' = Len(cbuf) - elementos + ItemMove(p, "idle")
        BY <1>n, <1>6, <3>1, <3>2, <4>1 DEF Interrupted
      <4> QED BY <1>t, <3>1, <4>2, Books
    <3>3. CASE pc[p] = "mtx" /\ p \in Producers
      <4>1. TransitMove(p, "idle") = -1 /\ ItemMove(p, "idle") = 0
        BY <1>k, <3>3 DEF TransitMove, ItemMove, Moved, In, Transit
      <4>2. /\ huecos' + elementos' = huecos + elementos - TransitMove(p, "idle")
            /\ Len(cbuf') - elementos' = Len(cbuf) - elementos + ItemMove(p, "idle")
        BY <1>n, <1>k, <1>6, <3>1, <3>3, <4>1 DEF Interrupted
      <4> QED BY <1>t, <3>1, <4>2, Books
    <3>4. CASE pc[p] = "mtx" /\ p \in Consumers
      <4>1. TransitMove(p, "idle") = -1 /\ ItemMove(p, "idle") = -1
        BY <1>k, <3>4 DEF TransitMove, ItemMove, Moved, In, Transit
      <4>2. /\ huecos' + elementos' = huecos + elementos - TransitMove(p, "idle")
            /\ Len(cbuf') - elementos' = Len(cbuf) - elementos + ItemMove(p, "idle")
        BY <1>n, <1>k, <1>6, <3>1, <3>4, <4>1 DEF Interrupted
      <4> QED BY <1>t, <3>1, <4>2, Books
    <3> QED BY <1>k, <1>6, <3>2, <3>3, <3>4 DEF Interrupted
  <2> QED BY <2>1, <2>2
<1>7. CASE Insert(p)
  <2>1. HandsEmpty'
    BY <1>t, <1>p, <1>7, <1>k, ProcsFinite DEF Insert, HandsEmpty, Goto, Kept
  <2>2. cbuf' = Append(cbuf, hand[p]) /\ Len(cbuf') = Len(cbuf) + 1
    BY <1>r, <1>n, <1>7 DEF Insert, BufferReady
  <2>3. CellsConserved' /\ ItemsAnnounced'
    <3>1. TransitMove(p, "posting") = 0 /\ ItemMove(p, "posting") = 1
      BY <1>n, <1>k, <1>7 DEF Insert, TransitMove, ItemMove, Moved, In, Transit
    <3>2. /\ pc' = [pc EXCEPT ![p] = "posting"]
          /\ huecos' + elementos' = huecos + elementos - TransitMove(p, "posting")
          /\ Len(cbuf') - elementos' = Len(cbuf) - elementos + ItemMove(p, "posting")
      BY <1>n, <1>7, <2>2, <3>1 DEF Insert, Goto
    <3> QED BY <1>t, <3>2, Books
  <2> QED BY <2>1, <2>3
<1>8. CASE Remove(p)
  <2>1. cbuf # <<>> /\ cbuf' = Tail(cbuf) /\ Kept(p, Head(cbuf)) /\ Len(cbuf') = Len(cbuf) - 1
    BY <1>r, <1>n, <1>k, <1>8 DEF Remove, BufferReady
  <2>2. HandsEmpty'
    BY <1>t, <1>p, <1>8, <2>1, <1>k, ProcsFinite DEF Remove, HandsEmpty, Goto, Kept
  <2>3. CellsConserved' /\ ItemsAnnounced'
    <3>1. TransitMove(p, "posting") = 0 /\ ItemMove(p, "posting") = -1
      BY <1>n, <1>k, <1>8 DEF Remove, TransitMove, ItemMove, Moved, In, Transit
    <3>2. /\ pc' = [pc EXCEPT ![p] = "posting"]
          /\ huecos' + elementos' = huecos + elementos - TransitMove(p, "posting")
          /\ Len(cbuf') - elementos' = Len(cbuf) - elementos + ItemMove(p, "posting")
      BY <1>n, <1>8, <2>1, <3>1 DEF Remove, Goto
    <3> QED BY <1>t, <3>2, Books
  <2> QED BY <2>2, <2>3
<1>9. CASE UpElementos(p)
  <2>1. HandsEmpty'
    BY <1>t, <1>p, <1>9, <1>k, ProcsFinite DEF UpElementos, HandsEmpty, Goto, Kept
  <2>2. CellsConserved' /\ ItemsAnnounced'
    <3>1. TransitMove(p, "idle") = -1 /\ ItemMove(p, "idle") = -1
      BY <1>n, <1>k, <1>9 DEF UpElementos, TransitMove, ItemMove, Moved, In, Transit
    <3>2. /\ pc' = [pc EXCEPT ![p] = "idle"]
          /\ huecos' + elementos' = huecos + elementos - TransitMove(p, "idle")
          /\ Len(cbuf') - elementos' = Len(cbuf) - elementos + ItemMove(p, "idle")
      BY <1>n, <1>9, <3>1 DEF UpElementos, Goto
    <3> QED BY <1>t, <3>2, Books
  <2> QED BY <2>1, <2>2
<1>10. CASE UpHuecos(p)
  <2>1. HandsEmpty'
    BY <1>t, <1>p, <1>10, <1>k, ProcsFinite DEF UpHuecos, HandsEmpty, Goto, Kept
  <2>2. CellsConserved' /\ ItemsAnnounced'
    <3>1. TransitMove(p, "using") = -1 /\ ItemMove(p, "using") = 0
      BY <1>n, <1>k, <1>10 DEF UpHuecos, TransitMove, ItemMove, Moved, In, Transit
    <3>2. /\ pc' = [pc EXCEPT ![p] = "using"]
          /\ huecos' + elementos' = huecos + elementos - TransitMove(p, "using")
          /\ Len(cbuf') - elementos' = Len(cbuf) - elementos + ItemMove(p, "using")
      BY <1>n, <1>10, <3>1 DEF UpHuecos, Goto
    <3> QED BY <1>t, <3>2, Books
  <2> QED BY <2>1, <2>2
<1>11. CASE Use(p)
  <2>1. HandsEmpty'
    BY <1>t, <1>p, <1>11, <1>k, ProcsFinite DEF Use, HandsEmpty, Goto, Kept
  <2>2. CellsConserved' /\ ItemsAnnounced'
    <3>1. TransitMove(p, "idle") = 0 /\ ItemMove(p, "idle") = 0
      BY <1>n, <1>k, <1>11 DEF Use, TransitMove, ItemMove, Moved, In, Transit
    <3>2. /\ pc' = [pc EXCEPT ![p] = "idle"]
          /\ huecos' + elementos' = huecos + elementos - TransitMove(p, "idle")
          /\ Len(cbuf') - elementos' = Len(cbuf) - elementos + ItemMove(p, "idle")
      BY <1>n, <1>11, <3>1 DEF Use, Goto
    <3> QED BY <1>t, <3>2, Books
  <2> QED BY <2>1, <2>2
<1> QED BY <1>1, <1>2, <1>3, <1>4, <1>5, <1>6, <1>7, <1>8, <1>9, <1>10, <1>11
        DEF Down, Run

-----------------------------------------------------------------------------
(* The theorems.                                                           *)

\* IInv is an invariant of the handlers.
THEOREM Invariance == Spec => []IInv
  BY IInvInit, IInvStep, PTL DEF Spec

\* The counters and the pointers keep their types, and a process holds an item
\* only where its code has one.
THEOREM TypeCorrect == Spec => []TypeOK
<1>1. IInv => TypeOK
  BY DEF IInv
<1> QED BY <1>1, Invariance, PTL

\* Cells and items are accounted for at every moment, also after an EINTR, and
\* whoever is admitted to the buffer finds what its semaphore promised it.
THEOREM AccountsSafe == Spec => []Accounts
<1>1. IInv => Accounts
  BY Admitted DEF IInv, Accounts
<1> QED BY <1>1, Invariance, PTL

-----------------------------------------------------------------------------
(* The handlers implement the bounded buffer.  The semaphores, the program *)
(* counters and the leaked items are left out of the abstract state, so    *)
(* the steps that change only those are stuttering.                        *)

\* The initial states are initial states of the bounded buffer.
LEMMA PromiseInit == Init => Promise!Init
  BY DEF Init, Promise!Init, Promise!Procs, Procs

\* Every step of a handler is a step of the bounded buffer or none.
LEMMA PromiseStep == IInv /\ [Next]_vars => [Promise!Next]_Promise!vars
<1> SUFFICES ASSUME IInv, [Next]_vars PROVE [Promise!Next]_Promise!vars
  OBVIOUS
<1>t. TypeOK /\ HandsEmpty /\ BufferReady
  BY Admitted DEF IInv
<1>u. CASE UNCHANGED vars
  BY <1>u DEF vars, Promise!vars
<1> SUFFICES ASSUME NEW p \in Procs,
                    BeginWrite(p) \/ BeginRead(p) \/ Down(p) \/ Interrupted(p) \/ Run(p)
             PROVE  \/ UNCHANGED <<cbuf, hand>>
                    \/ Promise!Alloc(p) \/ Promise!Put(p) \/ Promise!Get(p) \/ Promise!Drop(p)
  BY <1>u DEF Next, Promise!Next, Promise!vars, Promise!Procs, Procs
<1>k. p \in Producers <=> p \notin Consumers
  BY OneKind
<1>p. hand \in [Procs -> Addr \cup {NULL}] /\ cbuf \in Seq(Addr)
  BY <1>t DEF TypeOK
<1>1. CASE BeginWrite(p)
  <2>1. hand[p] = NULL
    BY <1>t, <1>1 DEF BeginWrite, HandsEmpty
  <2>2. Promise!Alloc(p)
    BY <1>1, <2>1 DEF BeginWrite, Kept, InUse, Procs,
       Promise!Alloc, Promise!Held, Promise!Buffered, Promise!Procs
  <2> QED BY <2>2
<1>2. CASE BeginRead(p) \/ Down(p)
  BY <1>2 DEF BeginRead, Down, DownHuecos, DownElementos, DownMtx
<1>3. CASE Interrupted(p)
  <2>1. CASE hand[p] = NULL
    BY <1>p, <1>3, <2>1 DEF Interrupted, Kept
  <2>2. CASE hand[p] # NULL
    BY <1>3, <2>2 DEF Interrupted, Kept, Promise!Drop
  <2> QED BY <2>1, <2>2
<1>4. CASE Insert(p)
  <2>1. hand[p] # NULL /\ Len(cbuf) < MAX_ITEMS_CBUF
    BY <1>t, <1>4 DEF Insert, TypeOK, BufferReady
  <2>2. cbuf' = Append(cbuf, hand[p]) /\ hand' = [hand EXCEPT ![p] = NULL]
    BY <1>4, <1>p, <2>1 DEF Insert, Kept
  <2>3. Promise!Put(p)
    BY <1>4, <2>1, <2>2 DEF Insert, Promise!Put
  <2> QED BY <2>3
<1>5. CASE Remove(p)
  <2>1. hand[p] = NULL /\ cbuf # <<>>
    BY <1>t, <1>k, <1>5 DEF Remove, HandsEmpty, BufferReady
  <2>2. Promise!Get(p)
    BY <1>5, <2>1 DEF Remove, Kept, Promise!Get
  <2> QED BY <2>2
<1>6. CASE UpElementos(p) \/ UpHuecos(p)
  BY <1>6 DEF UpElementos, UpHuecos
<1>7. CASE Use(p)
  <2>1. CASE hand[p] = NULL
    BY <1>p, <1>7, <2>1 DEF Use, Kept
  <2>2. CASE hand[p] # NULL
    BY <1>7, <2>2 DEF Use, Kept, Promise!Drop
  <2> QED BY <2>1, <2>2
<1> QED BY <1>1, <1>2, <1>3, <1>4, <1>5, <1>6, <1>7 DEF Run

\* The three semaphores implement the bounded buffer: FIFO order, no pointer
\* overwritten, no item taken by two readers or freed while someone uses it.
THEOREM Implementation == Spec => ImplementsBuffer
<1>1. Init /\ [][Next]_vars /\ []IInv => Promise!Init /\ [][Promise!Next]_Promise!vars
  BY PromiseInit, PromiseStep, PTL
<1> QED BY <1>1, Invariance DEF Spec, ImplementsBuffer, Promise!Spec
=============================================================================
