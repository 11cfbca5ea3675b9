---------------------------- MODULE MCFifoproc -----------------------------
(* The messages the producers of the model-checked instances write.         *)
EXTENDS Fifoproc

CONSTANT x

\* Messages of one byte.
SingleBytes == {<<x>>}
=============================================================================
