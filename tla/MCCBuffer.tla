----------------------------- MODULE MCCBuffer -----------------------------
(* A ring of three cells and two item values: every head, size and wrap.   *)
EXTENDS CBuffer
=============================================================================
