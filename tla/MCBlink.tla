------------------------------ MODULE MCBlink ------------------------------
(* Two strips that take turns on one minor, two processes; strips of two    *)
(* leds of which the memset clears the first.                               *)
EXTENDS Blink, TLC

CONSTANT red

\* An empty write (everything black) and "0:red,1:red".
Writes == {<<>>, [l \in 0..1 |-> red]}

Symmetry == Permutations(Ifs) \cup Permutations(Addr) \cup Permutations(Files)
=============================================================================
