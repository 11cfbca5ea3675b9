---------------------------- MODULE MCMultilist ----------------------------
(* Two processes, two nodes and two entries: one call removes a list while  *)
(* the other uses it, removes it too, or creates its successor or a second  *)
(* list of its name.                                                        *)
EXTENDS Multilist
=============================================================================
