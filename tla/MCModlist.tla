----------------------------- MODULE MCModlist -----------------------------
(* Two processes, three elements, three values; as text, 2 is a line of two *)
(* words of which the first is 1, and 3 a line too long to store.           *)
EXTENDS ModlistPr1, TLC

\* Nothing tells elements or processes apart.
Symmetry == Permutations(Nodes) \cup Permutations(Procs)

Words == (1 :> 1) @@ (2 :> 1) @@ (3 :> 3)
\* The buffer of a read is full with two values, or with one that is a 3.
Fills == {s \in UNION {[1 .. k -> Values] : k \in 0 .. 3} :
            Len(s) >= 2 \/ \E i \in DOMAIN s : s[i] = 3}
=============================================================================
