----------------------------- MODULE ModlistPr1 -----------------------------
(***************************************************************************)
(* The versions of /proc/modlist without a lock: Pr1/modlist.c ("Pr1"),    *)
(* with a sort command (Opcional1, "sorted") and with strings for numbers  *)
(* (Opcional2, "text").  Nothing in them keeps two calls apart, and two at *)
(* once may well corrupt the list, so each call here runs alone.           *)
(***************************************************************************)
EXTENDS Modlist

CONSTANTS FirstWord,  \* of each value read as a line of text, in "text"
          TooLong     \* the values that are lines too long to store

ASSUME WordAssumption == FirstWord \in [Values -> Values] /\ TooLong \subseteq Values

Unlocked == {"Pr1", "sorted", "text"}

\* One call, from its parsing to its return.
Alone(versions, op, arg, printed) ==
  /\ version \in versions
  /\ last' = Command(op, arg, printed)
  /\ UNCHANGED <<version, sp, procVars, before>>

\* modlist_read without a check of the room left: all of the list, as long as
\* it fits modlistbuffer.
Read == Alone(Unlocked, "read", 0, Items(mem)) /\ UNCHANGED <<mem, data, live>>

AddAtTail(x) == \E e \in Nodes \ live :
  /\ live' = live \cup {e} /\ data' = [data EXCEPT ![e] = x]
  /\ mem' = PutAll(mem, ListAddTail(mem, e))

\* (bug) a loop that ends at the first match
RemoveOneOnly(x) ==
  LET c == SelectSeq(Chain(mem), LAMBDA e : data[e] = x)
      gone == IF c = <<>> THEN {} ELSE {Head(c)}
  IN  mem' = DelAll(mem, gone) /\ live' = live \ gone /\ UNCHANGED data

\* modlist_remove: every element with the value.
RemoveAll(x) ==
  LET gone == {e \in ToSet(Chain(mem)) : data[e] = x}
  IN  mem' = DelAll(mem, gone) /\ live' = live \ gone /\ UNCHANGED data

AddValue(x)    == Alone({"Pr1", "sorted"}, "add", x, <<>>) /\ AddAtTail(x)
RemoveValue(x) == Alone({"Pr1", "sorted"}, "remove", x, <<>>) /\ RemoveAll(x)

\* The text version keeps the whole line but removes by its first word, so a
\* line of several words stays until a cleanup.
AddLine(x)    == x \notin TooLong
                 /\ Alone({"text"}, "add", x, <<>>) /\ AddAtTail(x)
RefuseLine(x) == x \in TooLong
                 /\ Alone({"text"}, "refused", x, <<>>) /\ UNCHANGED <<mem, data, live>>
RemoveWord(x) == Alone({"text"}, "remove", FirstWord[x], <<>>)
                 /\ RemoveAll(FirstWord[x])

\* The buffer gets its '\0' only after the comparisons, so the command is
\* recognised if the memory behind it happens to hold one.  (Otherwise the
\* call returns as if it had been: a stuttering step.)
Cleanup ==
  /\ Alone(Unlocked, "cleanup", 0, <<>>)
  /\ mem' = DelAll(mem, live) /\ live' = live \ ToSet(Chain(mem))
  /\ UNCHANGED data

\* list_sort by compare: stable, and the same elements relinked.
Sort ==
  LET c == Chain(mem)
      Precedes(i, j) == data[c[i]] < data[c[j]] \/ (data[c[i]] = data[c[j]] /\ i < j)
  IN  /\ Alone({"sorted"}, "sort", 0, <<>>)
      /\ \E from \in Bijection(DOMAIN c, DOMAIN c) :
           /\ \A i, j \in DOMAIN c : i < j => Precedes(from[i], from[j])
           /\ mem' = Relinked(mem, [i \in DOMAIN c |-> c[from[i]]])
      /\ UNCHANGED <<data, live>>

NextUnlocked ==
  \/ Read \/ Cleanup \/ Sort
  \/ \E x \in Values : \/ AddValue(x) \/ RemoveValue(x)
                       \/ AddLine(x) \/ RefuseLine(x) \/ RemoveWord(x)
  \/ \E v \in Unlocked : Load(v)

SpecAll == Init /\ [][Next \/ NextUnlocked]_vars
=============================================================================
