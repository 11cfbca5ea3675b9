--------------------------- MODULE BoundedBuffer ---------------------------
(***************************************************************************)
(* What /proc/prodcons promises, in both versions (prodcons1.c, with       *)
(* counting semaphores, and prodcons2.c, with condition variables built    *)
(* from semaphores): a FIFO of at most MAX_ITEMS_CBUF dynamically          *)
(* allocated items, each owned by exactly one process or by the buffer.    *)
(***************************************************************************)
EXTENDS Integers, Sequences, FiniteSets

CONSTANTS Producers, Consumers, \* processes that write() / read() the entry
          Addr, NULL,           \* what vmalloc() can return
          MAX_ITEMS_CBUF

VARIABLES buf,   \* the items in the buffer, oldest first
          hand   \* the item each process is working with

vars == <<buf, hand>>

Procs == Producers \cup Consumers
Held == {hand[p] : p \in Procs} \ {NULL}
Buffered == {buf[i] : i \in DOMAIN buf}

Init == buf = <<>> /\ hand = [p \in Procs |-> NULL]

\* A writer allocates an item that nobody else uses.
Alloc(p) == \E a \in Addr \ (Held \cup Buffered) :
  /\ p \in Producers /\ hand[p] = NULL
  /\ hand' = [hand EXCEPT ![p] = a]
  /\ UNCHANGED buf

Put(p) ==
  /\ p \in Producers /\ hand[p] # NULL /\ Len(buf) < MAX_ITEMS_CBUF
  /\ buf' = Append(buf, hand[p])
  /\ hand' = [hand EXCEPT ![p] = NULL]

Get(p) ==
  /\ p \in Consumers /\ hand[p] = NULL /\ buf # <<>>
  /\ hand' = [hand EXCEPT ![p] = Head(buf)]
  /\ buf' = Tail(buf)

\* A reader is done with its item, or an interrupted writer gives up its own.
Drop(p) ==
  /\ hand[p] # NULL
  /\ hand' = [hand EXCEPT ![p] = NULL]
  /\ UNCHANGED buf

Next == \E p \in Procs : Alloc(p) \/ Put(p) \/ Get(p) \/ Drop(p)

Spec == Init /\ [][Next]_vars
=============================================================================
