------------------------------ MODULE IntList ------------------------------
(***************************************************************************)
(* What /proc/modlist promises: a list of values on which every add,       *)
(* remove, cleanup, sort and read of any process takes effect at once.     *)
(***************************************************************************)
EXTENDS Integers, Sequences, Functions

CONSTANTS Values,
          Full       \* the printouts a read may stop at

VARIABLES list,     \* the values, in order
          last      \* the last command, and what it printed if it was a read

Command(op, arg, out) == [op |-> op, arg |-> arg, out |-> out]
None == Command("none", 0, <<>>)

\* What is left of s when every x is taken out.
Others(s, x) ==
  LET kept[k \in 0 .. Len(s)] == IF k = 0 THEN <<>>
                                 ELSE IF s[k] = x THEN kept[k-1]
                                 ELSE Append(kept[k-1], s[k])
  IN  kept[Len(s)]

\* The values of s in order are t.
Sorts(s, t) ==
  /\ \E h \in Bijection(DOMAIN s, DOMAIN s) : t = [i \in DOMAIN s |-> s[h[i]]]
  /\ \A i, j \in DOMAIN t : i < j => t[i] <= t[j]

Init == list = <<>> /\ last = None

Add(x)    == list' = Append(list, x) /\ last' = Command("add", x, <<>>)
Remove(x) == list' = Others(list, x) /\ last' = Command("remove", x, <<>>)
Cleanup   == list' = <<>>            /\ last' = Command("cleanup", 0, <<>>)
Sort      == Sorts(list, list')      /\ last' = Command("sort", 0, <<>>)
\* A read prints the oldest values, and all of them if there is room.
Read == \E k \in 0 .. Len(list) : LET shown == SubSeq(list, 1, k) IN
  /\ k < Len(list) => shown \in Full
  /\ list' = list /\ last' = Command("read", 0, shown)
\* A value that cannot be stored is refused.
Refuse(x) == list' = list /\ last' = Command("refused", x, <<>>)
\* The module is loaded, or loaded again.
Load == list = <<>> /\ list' = <<>> /\ last' = None

Next == \/ \E x \in Values : Add(x) \/ Remove(x) \/ Refuse(x)
        \/ Cleanup \/ Sort \/ Read \/ Load

Spec == Init /\ [][Next]_<<list, last>>
=============================================================================
