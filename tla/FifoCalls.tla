----------------------------- MODULE FifoCalls -----------------------------
(***************************************************************************)
(* The system-call interface of /proc/modfifo: who calls, what a call      *)
(* carries and what it can return.  Shared by the specification of what    *)
(* the FIFO promises (Pipe) and by the model of its code (Fifoproc).       *)
(***************************************************************************)
EXTENDS Integers, Sequences, FiniteSets

CONSTANTS Producers, Consumers, \* processes that open for writing / reading
          Byte, Nul,            \* the values of a byte; '\0' is one of them
          MAX_ITEMS_CBUF,       \* capacity of the circular buffer
          Messages,             \* what producers pass to write()
          Lens                  \* the lengths consumers pass to read()

ASSUME ProcsAssumption ==
  /\ IsFiniteSet(Producers) /\ IsFiniteSet(Consumers)
  /\ Producers \cap Consumers = {}
ASSUME DataAssumption ==
  /\ Nul \in Byte
  /\ Messages \subseteq Seq(Byte)
  /\ Lens \subseteq Nat
ASSUME CapacityAssumption == MAX_ITEMS_CBUF \in Nat \ {0}

Procs == Producers \cup Consumers

OpNames == {"none", "open", "release", "read", "write"}
NoCall == [op |-> "none", data |-> <<>>, len |-> 0]
Calls(p) ==
  {[op |-> o, data |-> <<>>, len |-> 0] : o \in {"open", "release"}} \cup
  IF p \in Producers
  THEN {[op |-> "write", data |-> d, len |-> Len(d)] : d \in Messages}
  ELSE {[op |-> "read", data |-> <<>>, len |-> n] : n \in Lens}

\* What a call returned: 0 or the errno, and the bytes read() copied out.
Codes == {"none", "OK", "EINTR", "EPIPE", "ENOSPC", "EOF"}
Result(c, d) == [code |-> c, data |-> d]
NoResult == Result("none", <<>>)
=============================================================================
