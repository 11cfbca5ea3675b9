------------------------------ MODULE FifoTest ------------------------------
(***************************************************************************)
(* The clients of /proc/modfifo, FicherosP3/FifoTest/fifotest.c, composed  *)
(* with whichever module serves the entry: Pr3/ParteB (Fifoproc) or        *)
(* Pr3/Opcional1 (Kfifoproc).  A sender opens the FIFO, writes messages of *)
(* one size until its input ends and closes; a receiver opens it, reads    *)
(* and prints messages until a read is not a whole one, and closes.  Any   *)
(* error ends the program, and the kernel closes its file.  Where a        *)
(* program is follows from the result of its last call.                    *)
(***************************************************************************)
EXTENDS Kfifoproc

VARIABLE loaded    \* "cbuffer" or "kfifo"

testVars == <<vars, loaded>>

TestInit == Init /\ loaded \in {"cbuffer", "kfifo"}

\* fifo_send: open, then write while the input lasts and no write fails.
Send(p) ==
  /\ p \in Producers /\ Enter(p)
  /\ CASE call'[p].op = "write"   -> res[p].code = "OK"
       [] call'[p].op = "release" -> res[p].code \in {"OK", "EINTR", "EPIPE"}
       [] OTHER                   -> TRUE
  /\ UNCHANGED loaded

\* fifo_receive: open, then read and print while whole messages come.  What
\* the message was written to can fail after any message, and a receiver may
\* be killed before it reads the first.
Receive(p) ==
  /\ p \in Consumers /\ Enter(p)
  /\ call'[p].op = "read" => res[p].code = "OK"
  /\ UNCHANGED loaded

Program(p) == Send(p) \/ Receive(p)

Serve(p) ==
  /\ \/ loaded = "cbuffer" /\ Step(p)
     \/ loaded = "kfifo" /\ KStep(p)
  /\ UNCHANGED loaded

Interrupt(p) == Signal(p) /\ UNCHANGED loaded

TestNext == \E p \in Procs : Program(p) \/ Serve(p) \/ Interrupt(p)

TestSpec == TestInit /\ [][TestNext]_testVars

(* Whoever waits for mtx gets it (its queue is FIFO), handlers run, and a  *)
(* program that has the FIFO open goes on to its next call.                *)
GoOn(p) == Program(p) /\ call'[p].op # "open"
FairTestSpec == TestSpec /\ \A p \in Procs :
  SF_testVars(Lock(p) /\ UNCHANGED loaded) /\ WF_testVars(Serve(p)) /\ WF_testVars(GoOn(p))
-----------------------------------------------------------------------------
\* What a receiver prints is a message of the sender, never parts of two nor
\* the zeros of a buffer nothing was copied to: with one message size the
\* FIFO keeps the boundaries, whatever is interrupted or left unread.
WholeMessages == \A c \in Consumers :
  res[c].data # <<>> => res[c].data \in Messages
=============================================================================
