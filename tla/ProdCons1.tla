----------------------------- MODULE ProdCons1 ------------------------------
(***************************************************************************)
(* Pr3/FicherosP3/ProdCons1/prodcons1.c: bounded buffer of pointers to     *)
(* vmalloc'ed ints, with the classical three semaphores.  huecos counts    *)
(* free cells, elementos stored items, mtx protects the buffer.  A         *)
(* semaphore is its counter: a process at its down() may be any of the     *)
(* waiters, which admits every order the kernel's FIFO list produces.      *)
(***************************************************************************)
EXTENDS Integers, Sequences, FiniteSets

CONSTANTS Producers, Consumers, Addr, NULL, MAX_ITEMS_CBUF,
          MaxSignals    \* bound: signals delivered in a behaviour

ASSUME PeopleAssumption ==
  /\ IsFiniteSet(Producers) /\ IsFiniteSet(Consumers)
  /\ Producers \cap Consumers = {}
ASSUME ItemsAssumption ==
  NULL \notin Addr /\ MAX_ITEMS_CBUF \in Nat \ {0} /\ MaxSignals \in Nat

VARIABLES elementos, huecos, mtx, \* the counters of the semaphores
          cbuf,     \* the pointers in the circular buffer, oldest first
          pc,       \* where each process is in its handler
          hand,     \* its local variable item
          leaked,   \* allocated items nobody points to any more
          signals

vars == <<elementos, huecos, mtx, cbuf, pc, hand, leaked, signals>>

Procs == Producers \cup Consumers

\* A writer goes huecos, mtx, cs, posting; a reader elementos, mtx, cs,
\* posting, using.  Each name is the next thing it does.
PCs == {"idle", "huecos", "elementos", "mtx", "cs", "posting", "using"}

InUse == ({hand[p] : p \in Procs} \ {NULL})
           \cup {cbuf[i] : i \in DOMAIN cbuf} \cup leaked

\* (bug) sema_init(&huecos, MAX_ITEMS_CBUF+1)
InitOneHuecoMore ==
  /\ elementos = 0 /\ huecos = MAX_ITEMS_CBUF + 1 /\ mtx = 1
  /\ cbuf = <<>>
  /\ pc = [p \in Procs |-> "idle"]
  /\ hand = [p \in Procs |-> NULL]
  /\ leaked = {}
  /\ signals = 0

Init ==
  /\ elementos = 0 /\ huecos = MAX_ITEMS_CBUF /\ mtx = 1
  /\ cbuf = <<>>
  /\ pc = [p \in Procs |-> "idle"]
  /\ hand = [p \in Procs |-> NULL]
  /\ leaked = {}
  /\ signals = 0

Goto(p, next) == pc' = [pc EXCEPT ![p] = next]
Kept(p, a) == hand' = [hand EXCEPT ![p] = a]

\* write() of a well-formed number: allocate the item.
BeginWrite(p) == \E a \in Addr \ InUse :
  /\ p \in Producers /\ pc[p] = "idle"
  /\ Kept(p, a)
  /\ Goto(p, "huecos")
  /\ UNCHANGED <<elementos, huecos, mtx, cbuf, leaked, signals>>

BeginRead(p) ==
  /\ p \in Consumers /\ pc[p] = "idle"
  /\ Goto(p, "elementos")
  /\ UNCHANGED <<elementos, huecos, mtx, cbuf, hand, leaked, signals>>

\* down_interruptible(&huecos), down_interruptible(&elementos)
DownHuecos(p) ==
  /\ pc[p] = "huecos" /\ huecos > 0
  /\ huecos' = huecos - 1
  /\ Goto(p, "mtx")
  /\ UNCHANGED <<elementos, mtx, cbuf, hand, leaked, signals>>

DownElementos(p) ==
  /\ pc[p] = "elementos" /\ elementos > 0
  /\ elementos' = elementos - 1
  /\ Goto(p, "mtx")
  /\ UNCHANGED <<huecos, mtx, cbuf, hand, leaked, signals>>

\* (bug) a mutex that does not wait
DownMtxWithoutWaiting(p) ==
  /\ pc[p] = "mtx"
  /\ mtx' = mtx - 1
  /\ Goto(p, "cs")
  /\ UNCHANGED <<elementos, huecos, cbuf, hand, leaked, signals>>

DownMtx(p) ==
  /\ pc[p] = "mtx" /\ mtx = 1
  /\ mtx' = 0
  /\ Goto(p, "cs")
  /\ UNCHANGED <<elementos, huecos, cbuf, hand, leaked, signals>>

\* (bug) the path interrupted on mtx returns the unit of the other side
InterruptedSwapsUnits(p) ==
  /\ signals < MaxSignals /\ signals' = signals + 1
  /\ pc[p] = "mtx" /\ mtx = 0
  /\ IF p \in Producers THEN elementos' = elementos + 1 /\ UNCHANGED huecos
                         ELSE huecos' = huecos + 1 /\ UNCHANGED elementos
  /\ Kept(p, NULL)
  /\ Goto(p, "idle")
  /\ UNCHANGED <<leaked, mtx, cbuf>>

\* A signal ends a wait on a semaphore that has no unit.  On huecos the item
\* is freed; on mtx the unit taken before is returned, but a writer's item
\* is not freed.
Interrupted(p) ==
  /\ signals < MaxSignals /\ signals' = signals + 1
  /\ \/ /\ pc[p] = "huecos" /\ huecos = 0
        /\ UNCHANGED <<elementos, huecos, leaked>>
     \/ /\ pc[p] = "elementos" /\ elementos = 0
        /\ UNCHANGED <<elementos, huecos, leaked>>
     \/ /\ pc[p] = "mtx" /\ mtx = 0 /\ p \in Producers
        /\ huecos' = huecos + 1
        /\ leaked' = leaked \cup {hand[p]}
        /\ UNCHANGED elementos
     \/ /\ pc[p] = "mtx" /\ mtx = 0 /\ p \in Consumers
        /\ elementos' = elementos + 1
        /\ UNCHANGED <<huecos, leaked>>
  /\ Kept(p, NULL)
  /\ Goto(p, "idle")
  /\ UNCHANGED <<mtx, cbuf>>

\* insert_cbuffer_t overwrites the oldest pointer of a full buffer.
Insert(p) ==
  /\ pc[p] = "cs" /\ p \in Producers
  /\ cbuf' = Append(IF Len(cbuf) = MAX_ITEMS_CBUF THEN Tail(cbuf) ELSE cbuf,
                    hand[p])
  /\ mtx' = 1
  /\ Kept(p, NULL)
  /\ Goto(p, "posting")
  /\ UNCHANGED <<elementos, huecos, leaked, signals>>

\* head_cbuffer_t, which gives NULL when the buffer is empty, and remove.
Remove(p) ==
  /\ pc[p] = "cs" /\ p \in Consumers
  /\ IF cbuf = <<>>
     THEN UNCHANGED <<cbuf, hand>>
     ELSE cbuf' = Tail(cbuf) /\ Kept(p, Head(cbuf))
  /\ mtx' = 1
  /\ Goto(p, "posting")
  /\ UNCHANGED <<elementos, huecos, leaked, signals>>

\* up(&elementos) ends write(); up(&huecos) is followed by the use of *item.
UpElementos(p) ==
  /\ pc[p] = "posting" /\ p \in Producers
  /\ elementos' = elementos + 1
  /\ Goto(p, "idle")
  /\ UNCHANGED <<huecos, mtx, cbuf, hand, leaked, signals>>

\* (bug) the reader forgets up(&huecos)
UpNothing(p) ==
  /\ pc[p] = "posting" /\ p \in Consumers
  /\ Goto(p, "using")
  /\ UNCHANGED <<huecos, elementos, mtx, cbuf, hand, leaked, signals>>

UpHuecos(p) ==
  /\ pc[p] = "posting" /\ p \in Consumers
  /\ huecos' = huecos + 1
  /\ Goto(p, "using")
  /\ UNCHANGED <<elementos, mtx, cbuf, hand, leaked, signals>>

\* sprintf of *item, vfree(item), and the copy to the user.
Use(p) ==
  /\ pc[p] = "using"
  /\ Kept(p, NULL)
  /\ Goto(p, "idle")
  /\ UNCHANGED <<elementos, huecos, mtx, cbuf, leaked, signals>>

Down(p) == DownHuecos(p) \/ DownElementos(p) \/ DownMtx(p)
Run(p) == Insert(p) \/ Remove(p) \/ UpElementos(p) \/ UpHuecos(p) \/ Use(p)

Next == \E p \in Procs :
  BeginWrite(p) \/ BeginRead(p) \/ Down(p) \/ Interrupted(p) \/ Run(p)

Spec == Init /\ [][Next]_vars

(* A semaphore's list is FIFO, so a down() that is possible again and again *)
(* happens; and somebody keeps reading the entry.                          *)
FairSpec == Spec /\ \A p \in Procs :
  SF_vars(Down(p)) /\ WF_vars(Run(p)) /\ WF_vars(BeginRead(p))
-----------------------------------------------------------------------------
At(ps, pcs) == {p \in ps : pc[p] \in pcs}

\* Type correctness; a process holds an item only where its code has one.
TypeOK ==
  /\ elementos \in Nat /\ huecos \in Nat /\ mtx \in {0, 1}
  /\ cbuf \in Seq(Addr)
  /\ pc \in [Procs -> PCs]
  /\ hand \in [Procs -> Addr \cup {NULL}]
  /\ leaked \subseteq Addr
  /\ signals \in 0..MaxSignals
  /\ \A p \in Producers : /\ pc[p] \notin {"elementos", "using"}
                          /\ pc[p] \in {"huecos", "mtx", "cs"} => hand[p] # NULL
  /\ \A p \in Consumers : pc[p] # "huecos"

\* Every cell of the buffer is accounted for at every moment: free, filled,
\* or in transit through exactly one process, also after an EINTR.
CellsConserved ==
  huecos + elementos + Cardinality(At(Producers, {"mtx", "cs", "posting"}))
    + Cardinality(At(Consumers, {"mtx", "cs", "posting"})) = MAX_ITEMS_CBUF

\* The buffer holds exactly the items that have been or will be announced
\* through elementos, so a reader admitted to it always finds one.
ItemsAnnounced ==
  Len(cbuf) = elementos + Cardinality(At(Producers, {"posting"}))
                + Cardinality(At(Consumers, {"mtx", "cs"}))

\* A writer in the critical section finds a gap (insert_cbuffer_t would
\* overwrite an unread pointer) and a reader finds an item (head_cbuffer_t
\* would give NULL, which the reader dereferences).
BufferReady == \A p \in Procs : pc[p] = "cs" =>
  IF p \in Producers THEN Len(cbuf) < MAX_ITEMS_CBUF ELSE cbuf # <<>>

\* What the three semaphores account for between them: cells, items, and what
\* whoever is admitted finds.
Accounts == CellsConserved /\ ItemsAnnounced /\ BufferReady

Promise == INSTANCE BoundedBuffer WITH buf <- cbuf
\* The three semaphores implement the bounded buffer: FIFO order, no
\* overwriting, no item freed while someone uses it.
ImplementsBuffer == Promise!Spec

\* While somebody keeps reading, no writer waits for a cell for ever.
WritesReturn == \A p \in Producers : pc[p] = "huecos" ~> pc[p] = "idle"
=============================================================================
