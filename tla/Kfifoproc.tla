----------------------------- MODULE Kfifoproc -----------------------------
(***************************************************************************)
(* Pr3/Opcional1/fifoproc.c: /proc/modfifo over the kernel's kfifo.  The   *)
(* monitor is the one of Fifoproc, whose steps are grouped here into the   *)
(* handlers of this file; the two differ in what read() and write() do     *)
(* with the buffer.  kfifo_out hands over what there is when that is less  *)
(* than asked for, and kfifo_in never overwrites.  The value of either is  *)
(* not looked at: the calls return len whatever was moved.                 *)
(***************************************************************************)
EXTENDS Fifoproc

KfifoOut(p) ==
  LET n == call[p].len
      leido == IF n > Size THEN Size ELSE n IN
  /\ pc[p] = "test" /\ ~MustWait(p)
  /\ ~ (count["prod"] = 0 /\ cbuffer = <<>>)
  /\ Return(p, Result("OK", [i \in 1..n |-> IF i <= leido THEN cbuffer[i] ELSE Nul]))
  /\ cbuffer' = SubSeq(cbuffer, leido + 1, Size)
  /\ Wake("prod", p, "idle")
  /\ mtx' = 1
  /\ UNCHANGED <<count, fd, opens, signals>>

KfifoIn(p) ==
  LET n == call[p].len
      escrito == IF n > Gaps THEN Gaps ELSE n IN
  /\ pc[p] = "test" /\ ~MustWait(p)
  /\ count["cons"] # 0
  /\ cbuffer' = cbuffer \o SubSeq(call[p].data, 1, escrito)
  /\ Wake("cons", p, "idle")
  /\ mtx' = 1
  /\ Return(p, Result("OK", <<>>))
  /\ UNCHANGED <<count, fd, opens, signals>>

Waiting(p) == Lock(p) \/ Wait(p) \/ Sleep(p) \/ Undo(p)

KOpen(p)    == call[p].op = "open"    /\ (Waiting(p) \/ Join(p) \/ OpenDone(p))
KRelease(p) == call[p].op = "release" /\ (Lock(p) \/ Release(p))
KRead(p)    == call[p].op = "read"    /\ (Waiting(p) \/ ReadEOF(p) \/ KfifoOut(p))
KWrite(p)   == call[p].op = "write"   /\ (Waiting(p) \/ WriteEPIPE(p) \/ KfifoIn(p))

KStep(p) == KOpen(p) \/ KRelease(p) \/ KRead(p) \/ KWrite(p)
=============================================================================
