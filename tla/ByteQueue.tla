----------------------------- MODULE ByteQueue -----------------------------
(***************************************************************************)
(* What the circular buffer of cbuffer.h promises its clients: a bounded   *)
(* FIFO queue of items.  Inserting more items than there are gaps drops    *)
(* the oldest ones; removing returns the oldest items, in order; a removal *)
(* of more items than are stored does nothing.                             *)
(***************************************************************************)
EXTENDS Integers, Sequences

CONSTANTS Item,     \* what a cell holds: a byte, an int or a pointer
          MaxSize   \* cbuffer->max_size

VARIABLES q,        \* the stored items, oldest first
          call,     \* the last operation and its arguments
          out       \* the items it handed to its caller

\* One more than the queue can ever hold, so that refusals are met.
Batches == UNION {[1..n -> Item] : n \in 0 .. MaxSize + 1}

Calling(op, items, n) == [op |-> op, items |-> items, n |-> n]

Last(s, n) == SubSeq(s, Len(s) - n + 1, Len(s))

\* The queue after inserting items behind q, the oldest dropped on overflow.
Pushed(queue, items) ==
  LET all == queue \o items
  IN  IF Len(all) <= MaxSize THEN all ELSE Last(all, MaxSize)

Init ==
  /\ q = <<>> /\ out = <<>>
  /\ call = Calling("create", <<>>, 0)

\* "nr_items can't be greater than the max buffer size."
Push(items) ==
  /\ call' = Calling("insert", items, 0)
  /\ q' = IF Len(items) <= MaxSize THEN Pushed(q, items) ELSE q
  /\ out' = <<>>

Pop(n) ==
  /\ call' = Calling("remove", <<>>, n)
  /\ n <= Len(q)
  /\ out' = SubSeq(q, 1, n)
  /\ q' = SubSeq(q, n + 1, Len(q))

PopRefused(n) ==
  /\ call' = Calling("remove", <<>>, n)
  /\ n > Len(q)
  /\ out' = <<>>
  /\ UNCHANGED q

Peek ==
  /\ call' = Calling("head", <<>>, 0)
  /\ out' = IF q = <<>> THEN q ELSE <<Head(q)>>
  /\ UNCHANGED q

Clear ==
  /\ call' = Calling("clear", <<>>, 0)
  /\ q' = <<>> /\ out' = <<>>

Next ==
  \/ \E items \in Batches : Push(items)
  \/ \E n \in 0 .. MaxSize + 1 : Pop(n) \/ PopRefused(n)
  \/ Peek \/ Clear

Spec == Init /\ [][Next]_<<q, call, out>>
=============================================================================
