------------------------------ MODULE CBuffer ------------------------------
(***************************************************************************)
(* The circular buffer of cbuffer.c: an array, the index of the oldest     *)
(* item and the number of items.  fifoproc.c drives it with the bulk       *)
(* operations insert_items / remove_items; prodcons1.c, prodcons2.c and    *)
(* modtimer.c drive it one item at a time.  No client mixes the two        *)
(* styles, and the buffer is only safe because none does: remove_items can *)
(* leave head at max_size, one past the array.                             *)
(***************************************************************************)
EXTENDS Integers, Sequences

CONSTANTS Item,     \* the values a cell can hold
          MaxSize   \* cbuffer->max_size

ASSUME MaxSizeAssumption == MaxSize \in Nat \ {0}

VARIABLES data,     \* the array, indexed as in C from 0
          head,
          size,
          style,    \* which operations this buffer's client uses
          call,     \* the last operation and its arguments
          out       \* the items it copied out, in order

ringVars == <<data, head, size, style, call, out>>

Cells == 0 .. MaxSize - 1
Gaps  == MaxSize - size
Batches == UNION {[1..n -> Item] : n \in 0 .. MaxSize + 1}

Calling(op, items, n) == [op |-> op, items |-> items, n |-> n]

\* memcpy of items into the array at index at, k items, no wrap.
CopyIn(array, at, items) ==
  [c \in Cells |-> IF c \in at .. at + Len(items) - 1
                   THEN items[c - at + 1] ELSE array[c]]

\* memcpy of k items out of the array at index at, no wrap.
CopyOut(at, k) == [i \in 1..k |-> data[at + i - 1]]

\* The array is freshly allocated: its content is arbitrary.
RingInit ==
  /\ data \in [Cells -> Item]
  /\ head = 0 /\ size = 0
  /\ style \in {"bulk", "single"}
  /\ call = Calling("create", <<>>, 0)
  /\ out = <<>>

\* insert_cbuffer_t: overwrites the oldest item of a full buffer.
InsertOne(x) ==
  /\ style = "single"
  /\ IF size = MaxSize
     THEN /\ data' = [data EXCEPT ![head] = x]
          /\ head' = (head + 1) % MaxSize
          /\ UNCHANGED size
     ELSE /\ data' = [data EXCEPT ![(head + size) % MaxSize] = x]
          /\ size' = size + 1
          /\ UNCHANGED head
  /\ out' = <<>>
  /\ call' = Calling("insert", <<x>>, 0)
  /\ UNCHANGED style

\* (bug) remove_cbuffer_t without the modulo
RemoveOneNoWrap ==
  /\ style = "single" /\ size # 0
  /\ out' = <<data[head % MaxSize]>>
  /\ head' = head + 1
  /\ size' = size - 1
  /\ call' = Calling("remove", <<>>, 1)
  /\ UNCHANGED <<data, style>>

\* remove_cbuffer_t: hands out '\0' (here nothing) when the buffer is empty.
RemoveOne ==
  /\ style = "single"
  /\ IF size # 0
     THEN /\ out' = <<data[head]>>
          /\ head' = (head + 1) % MaxSize
          /\ size' = size - 1
     ELSE /\ out' = <<>>
          /\ UNCHANGED <<head, size>>
  /\ call' = Calling("remove", <<>>, 1)
  /\ UNCHANGED <<data, style>>

\* head_cbuffer_t: NULL (here nothing) when the buffer is empty.
HeadItem ==
  /\ style = "single"
  /\ out' = IF size # 0 THEN <<data[head]>> ELSE <<>>
  /\ call' = Calling("head", <<>>, 0)
  /\ UNCHANGED <<data, head, size, style>>

\* (bug) insert_items_cbuffer_t that splits at the end of the array but, when
\* it overwrites, leaves head at items it has just overwritten
InsertItemsStaleHead(items) ==
  LET n     == Len(items)
      whead == (head + size) % MaxSize
      split == IF whead + n > MaxSize THEN MaxSize - whead ELSE 0
  IN  /\ style = "bulk" /\ n <= MaxSize
      /\ data' = CopyIn(CopyIn(data, whead, SubSeq(items, 1, split)),
                        IF split > 0 THEN 0 ELSE whead, SubSeq(items, split + 1, n))
      /\ size' = IF Gaps >= n THEN size + n ELSE MaxSize
      /\ out' = <<>>
      /\ call' = Calling("insert", items, 0)
      /\ UNCHANGED <<head, style>>

\* insert_items_cbuffer_t: one or two memcpy's, then size and head.
InsertItems(items) ==
  LET n     == Len(items)
      whead == (head + size) % MaxSize
      split == IF whead + n > MaxSize THEN MaxSize - whead ELSE 0
      rest  == SubSeq(items, split + 1, n)
  IN  /\ style = "bulk"
      /\ IF n > MaxSize
         THEN UNCHANGED <<data, head, size>>
         ELSE /\ data' = CopyIn(CopyIn(data, whead, SubSeq(items, 1, split)),
                                IF split > 0 THEN 0 ELSE whead, rest)
              /\ IF Gaps >= n
                 THEN size' = size + n /\ UNCHANGED head
                 ELSE /\ size' = MaxSize
                      /\ head' = (head + (n - Gaps)) % MaxSize
      /\ out' = <<>>
      /\ call' = Calling("insert", items, 0)
      /\ UNCHANGED style

\* remove_items_cbuffer_t: head is advanced but never reduced modulo max_size.
RemoveItems(n) ==
  LET split == IF head + n > MaxSize THEN MaxSize - head ELSE 0
      start == IF head + n > MaxSize THEN 0 ELSE head
  IN  /\ style = "bulk"
      /\ IF n > size
         THEN out' = <<>> /\ UNCHANGED <<head, size>>
         ELSE /\ out' = CopyOut(head, split) \o CopyOut(start, n - split)
              /\ head' = start + (n - split)
              /\ size' = size - n
      /\ call' = Calling("remove", <<>>, n)
      /\ UNCHANGED <<data, style>>

\* clear_cbuffer_t
ClearAll ==
  /\ size' = 0 /\ head' = 0
  /\ out' = <<>>
  /\ call' = Calling("clear", <<>>, 0)
  /\ UNCHANGED <<data, style>>

RingNext ==
  \/ \E x \in Item : InsertOne(x)
  \/ RemoveOne
  \/ HeadItem
  \/ \E items \in Batches : InsertItems(items)
  \/ \E n \in 0 .. MaxSize + 1 : RemoveItems(n)
  \/ ClearAll

RingSpec == RingInit /\ [][RingNext]_ringVars

-----------------------------------------------------------------------------
\* The items stored, oldest first, as the operations of cbuffer.c find them.
Contents == [i \in 1..size |-> data[(head + i - 1) % MaxSize]]

\* Types, and with them the bound of every access: head may be max_size after
\* remove_items, one more than cbuffer.h:8 says, but a client that works item by item never finds it outside
\* the array, so data[head] of insert, remove and head_cbuffer_t stays in bounds.
RingTypeOK ==
  /\ data \in [Cells -> Item]
  /\ head \in IF style = "single" THEN Cells ELSE 0 .. MaxSize
  /\ size \in 0 .. MaxSize
  /\ style \in {"bulk", "single"}
  /\ call \in [op : {"create", "insert", "remove", "head", "clear"},
               items : Batches, n : 0 .. MaxSize + 1]
  /\ out \in Seq(Item) /\ Len(out) <= MaxSize

Queue == INSTANCE ByteQueue WITH q <- Contents

\* Every operation of cbuffer.c, wrap-around and overwriting included, does
\* what the bounded FIFO queue does and hands out the same items.
ImplementsQueue == Queue!Spec
=============================================================================
