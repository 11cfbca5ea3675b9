------------------------------- MODULE Klist -------------------------------
(***************************************************************************)
(* The doubly linked lists of the kernel, as in the copy of list.h kept in *)
(* Pr1/borrar_para_entrega: an operation is the sequence of pointer writes *)
(* it makes, so that a module can run it write by write or all at once.    *)
(***************************************************************************)
EXTENDS Integers, Sequences, FiniteSets, SequencesExt

CONSTANTS Nodes,    \* addresses of list elements
          HEAD,     \* address of the list's head
          Poison    \* LIST_POISON1 and 2

ASSUME KlistAssumption ==
  /\ IsFiniteSet(Nodes) /\ HEAD \notin Nodes
  /\ Poison \notin Nodes \cup {HEAD}

Entries == Nodes \cup {HEAD}
Pointers == Entries \cup {Poison}

\* Every struct list_head in memory; freed ones keep what they last held.
Memory == [next : [Entries -> Pointers], prev : [Entries -> Pointers]]

\* INIT_LIST_HEAD, over memory with no other entry in use.
EmptyList == LET poisoned == [e \in Entries |-> IF e = HEAD THEN HEAD ELSE Poison]
             IN  [next |-> poisoned, prev |-> poisoned]

Write(field, entry, pointer) == [field |-> field, entry |-> entry, pointer |-> pointer]
Put(mem, w) == [mem EXCEPT ![w.field][w.entry] = w.pointer]
PutAll(mem, w) == Put(Put(Put(Put(mem, w[1]), w[2]), w[3]), w[4])

\* __list_add: the list as followed through next has the new entry from the
\* last write on.
ListAdd(new, prev, next) ==
  <<Write("prev", next, new), Write("next", new, next),
    Write("prev", new, prev), Write("next", prev, new)>>

ListAddTail(mem, new) == ListAdd(new, mem.prev[HEAD], HEAD)

\* __list_del, then the poison that makes a stale pointer fault.
ListDel(mem, entry) ==
  LET prev == mem.prev[entry] next == mem.next[entry]
  IN  <<Write("prev", next, prev), Write("next", prev, next),
        Write("next", entry, Poison), Write("prev", entry, Poison)>>

\* The entries list_for_each meets, in order (one too many if it runs in circles).
Chain(mem) ==
  LET at[k \in 0 .. Cardinality(Nodes)] ==
        IF k = 0 THEN mem.next[HEAD]
        ELSE IF at[k-1] \in Nodes THEN mem.next[at[k-1]] ELSE HEAD
      met == {k \in DOMAIN at : at[k] \in Nodes}
  IN  [i \in 1 .. Cardinality(met) |-> at[i-1]]

\* list_for_each_safe with list_del of the entries in gone.
Deleted(mem, entry) == PutAll(mem, ListDel(mem, entry))
DelAll(mem, gone) ==
  LET chain == Chain(mem)
      after[k \in 0 .. Len(chain)] ==
        IF k = 0 THEN mem
        ELSE IF chain[k] \in gone THEN Deleted(after[k-1], chain[k]) ELSE after[k-1]
  IN  after[Len(chain)]

\* list_sort: the entries relinked in the order of seq.
Relinked(mem, seq) ==
  LET after[k \in 0 .. Len(seq)] ==
        IF k = 0 THEN [mem EXCEPT !.next[HEAD] = HEAD, !.prev[HEAD] = HEAD]
        ELSE PutAll(after[k-1], ListAddTail(after[k-1], seq[k]))
  IN  after[Len(seq)]
=============================================================================
