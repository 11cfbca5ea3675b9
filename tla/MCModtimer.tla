----------------------------- MODULE MCModtimer -----------------------------
(* Two threads reading and a buffer of three numbers, of which 80% are two; *)
(* the thresholds written are one item and four, which is never met.        *)
EXTENDS ModtimerJavi
=============================================================================
