---------------------------- MODULE Semaphores -----------------------------
(***************************************************************************)
(* The kernel's counting semaphores (struct semaphore), as the modules in  *)
(* src/ use them to build wait queues: a counter and a FIFO list of        *)
(* sleepers.  up() with sleepers hands the unit to the first of them       *)
(* without touching the counter, so the counter is positive only when      *)
(* nobody sleeps.  External code, modelled from its use in src/.           *)
(***************************************************************************)
EXTENDS Integers, Sequences

\* sema_init(sem, n)
NewSem(n) == [count |-> n, queue |-> <<>>]

\* up(): the first sleeper gets the unit, or the counter keeps it.
Up(sem) ==
  IF sem.queue = <<>>
  THEN [sem EXCEPT !.count = @ + 1]
  ELSE [sem EXCEPT !.queue = Tail(@)]

\* The process that up() wakes, if any.
Woken(sem) == IF sem.queue = <<>> THEN {} ELSE {Head(sem.queue)}

\* down() of a free unit, and the enqueueing of a process that found none.
Take(sem) == [sem EXCEPT !.count = @ - 1]
Enqueue(sem, p) == [sem EXCEPT !.queue = Append(@, p)]

\* A signal takes the sleeper at position i out of the list.
Dequeue(sem, i) ==
  [sem EXCEPT !.queue = SubSeq(@, 1, i - 1) \o SubSeq(@, i + 1, Len(@))]
=============================================================================
