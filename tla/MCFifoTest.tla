----------------------------- MODULE MCFifoTest -----------------------------
(* fifotest.c moves messages of 36 bytes through a buffer of 50 or 64, one  *)
(* and a half to two; here messages of two bytes through three.             *)
EXTENDS FifoTest

CONSTANTS x, y, z

FixedMessages == {<<x, y>>, <<x, z>>}
=============================================================================
