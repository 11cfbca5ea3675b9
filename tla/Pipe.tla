-------------------------------- MODULE Pipe --------------------------------
(***************************************************************************)
(* What a process using /proc/modfifo may rely on.  The pipe is a FIFO of  *)
(* bytes of bounded capacity.  A write is all or nothing and never         *)
(* displaces bytes not yet read; a successful read returns exactly the     *)
(* oldest bytes it asked for; end of file and EPIPE are told only when the *)
(* other end is really gone; the pipe is emptied only when nobody has it   *)
(* open; a call that fails leaves the pipe as it was.                      *)
(***************************************************************************)
EXTENDS FifoCalls

VARIABLES pipe,      \* the bytes written and not yet read
          attached,  \* the processes that have the pipe open or are opening it
          call, res  \* each process's call in progress and last result

vars == <<pipe, attached, call, res>>

Init ==
  /\ pipe = <<>> /\ attached = {}
  /\ call = [p \in Procs |-> NoCall]
  /\ res = [p \in Procs |-> NoResult]

Begin(p) == \E c \in Calls(p) :
  /\ call[p] = NoCall
  /\ call' = [call EXCEPT ![p] = c]
  /\ res' = [res EXCEPT ![p] = NoResult]
  /\ UNCHANGED <<pipe, attached>>

Finish(p, r) ==
  /\ call' = [call EXCEPT ![p] = NoCall]
  /\ res' = [res EXCEPT ![p] = r]

Attach(p) ==
  /\ call[p].op = "open"
  /\ attached' = attached \cup {p}
  /\ UNCHANGED <<pipe, call, res>>

Opened(p) ==
  /\ call[p].op = "open" /\ p \in attached
  /\ Finish(p, Result("OK", <<>>))
  /\ UNCHANGED <<pipe, attached>>

Read(p) ==
  LET n == call[p].len IN
  /\ call[p].op = "read" /\ n <= Len(pipe)
  /\ Finish(p, Result("OK", SubSeq(pipe, 1, n)))
  /\ pipe' = SubSeq(pipe, n + 1, Len(pipe))
  /\ UNCHANGED attached

EndOfFile(p) ==
  /\ call[p].op = "read" /\ pipe = <<>> /\ attached \cap Producers = {}
  /\ Finish(p, Result("EOF", <<>>))
  /\ UNCHANGED <<pipe, attached>>

Write(p) ==
  /\ call[p].op = "write" /\ Len(pipe) + call[p].len <= MAX_ITEMS_CBUF
  /\ Finish(p, Result("OK", <<>>))
  /\ pipe' = pipe \o call[p].data
  /\ UNCHANGED attached

Broken(p) ==
  /\ call[p].op = "write" /\ attached \cap Consumers = {}
  /\ Finish(p, Result("EPIPE", <<>>))
  /\ UNCHANGED <<pipe, attached>>

Close(p) ==
  /\ call[p].op = "release"
  /\ attached' = attached \ {p}
  /\ pipe' \in {pipe} \cup (IF attached' = {} THEN {<<>>} ELSE {})
  /\ Finish(p, Result("OK", <<>>))

\* An interrupted open() or release() leaves the process without the file.
Interrupted(p) ==
  /\ call[p] # NoCall
  /\ Finish(p, Result("EINTR", <<>>))
  /\ attached' = IF call[p].op \in {"open", "release"}
                 THEN attached \ {p} ELSE attached
  /\ UNCHANGED pipe

Refused(p) ==
  /\ call[p] = NoCall
  /\ res' = [res EXCEPT ![p] = Result("ENOSPC", <<>>)]
  /\ UNCHANGED <<pipe, attached, call>>

Next == \E p \in Procs :
  \/ Begin(p) \/ Attach(p) \/ Opened(p) \/ Read(p) \/ EndOfFile(p)
  \/ Write(p) \/ Broken(p) \/ Close(p) \/ Interrupted(p) \/ Refused(p)

Spec == Init /\ [][Next]_vars
=============================================================================
