------------------------------ MODULE Modlist ------------------------------
(***************************************************************************)
(* /proc/modlist with a spinlock, Pr3/ParteA/modlist.c: a list of integers *)
(* that any number of processes add to, remove from, clean up and read.    *)
(* The lock is what makes the pointer writes of one call invisible to the  *)
(* others, so every write and every step of a traversal is an action.      *)
(* The versions without a lock share the state and are in ModlistPr1.      *)
(***************************************************************************)
EXTENDS Klist

CONSTANTS Procs, Values, Free,
          Full     \* the printouts that leave modlistbuffer no room for more

ASSUME ModlistAssumption == /\ Values \subseteq Int /\ Free \notin Procs
                            /\ Full \subseteq Seq(Values)

VARIABLES version,  \* the module loaded: "Pr3", one of ModlistPr1, or "none"
          mem,      \* the list's pointers
          data,     \* the value in each element
          live,     \* the elements allocated
          sp,       \* who holds the spinlock
          pc, cmd,  \* where each process is, in which command
          pos, n,   \* its loop variables; pos is the new element of an add
          stores,   \* pointer writes it still has to make
          out,      \* what its read has printed
          before,   \* the list when sp was taken
          last      \* the last command completed

procVars == <<pc, cmd, pos, n, stores, out>>
vars == <<version, mem, data, live, sp, procVars, before, last>>

Command(op, arg, printed) == [op |-> op, arg |-> arg, out |-> printed]
None == Command("none", 0, <<>>)
\* What write() recognises, and read().
Commands == [op : {"add", "remove"}, arg : Values, out : {<<>>}]
            \cup {Command("cleanup", 0, <<>>), Command("read", 0, <<>>)}

Items(m) == [i \in 1 .. Len(Chain(m)) |-> data[Chain(m)[i]]]

Init ==
  /\ version = "none" /\ mem = EmptyList
  /\ data = [e \in Nodes |-> 0] /\ live = {}
  /\ sp = Free
  /\ pc = [p \in Procs |-> "idle"] /\ cmd = [p \in Procs |-> None]
  /\ pos = [p \in Procs |-> HEAD] /\ n = [p \in Procs |-> HEAD]
  /\ stores = [p \in Procs |-> <<>>] /\ out = [p \in Procs |-> <<>>]
  /\ before = <<>> /\ last = None

Goto(p, where) == pc' = [pc EXCEPT ![p] = where]
Idle == \A p \in Procs : pc[p] = "idle"
-----------------------------------------------------------------------------
\* modlist_write has copied and recognised a command, or modlist_read begins;
\* modlist_add fills its element before it takes the lock.
Begin(p) == \E c \in Commands :
  /\ version = "Pr3" /\ pc[p] = "idle"
  /\ cmd' = [cmd EXCEPT ![p] = c] /\ Goto(p, "lock")
  /\ IF c.op = "add"
     THEN \E e \in Nodes \ live :
            /\ live' = live \cup {e} /\ data' = [data EXCEPT ![e] = c.arg]
            /\ pos' = [pos EXCEPT ![p] = e]
     ELSE UNCHANGED <<live, data, pos>>
  /\ UNCHANGED <<version, mem, sp, n, stores, out, before, last>>

\* (bug) the critical section without spin_lock
LockNot(p) ==
  /\ pc[p] = "lock"
  /\ sp' = p /\ before' = Items(mem)
  /\ IF cmd[p].op = "add"
     THEN /\ stores' = [stores EXCEPT ![p] = ListAddTail(mem, pos[p])]
          /\ Goto(p, "store")
          /\ UNCHANGED <<pos, n>>
     ELSE LET first == mem.next[HEAD] IN
          /\ pos' = [pos EXCEPT ![p] = first]
          /\ n' = [n EXCEPT ![p] = mem.next[first]]
          /\ Goto(p, "visit")
          /\ UNCHANGED stores
  /\ UNCHANGED <<version, mem, data, live, cmd, out, last>>

\* spin_lock, and what the section reads first: list_add_tail the list's
\* tail, a loop its first element and that one's successor.
Lock(p) ==
  /\ pc[p] = "lock" /\ sp = Free
  /\ sp' = p /\ before' = Items(mem)
  /\ IF cmd[p].op = "add"
     THEN /\ stores' = [stores EXCEPT ![p] = ListAddTail(mem, pos[p])]
          /\ Goto(p, "store")
          /\ UNCHANGED <<pos, n>>
     ELSE /\ pos' = [pos EXCEPT ![p] = mem.next[HEAD]]
          /\ n' = [n EXCEPT ![p] = mem.next[mem.next[HEAD]]]
          /\ Goto(p, "visit")
          /\ UNCHANGED stores
  /\ UNCHANGED <<version, mem, data, live, cmd, out, last>>

\* One pointer write of list_add_tail or list_del.
Store(p) ==
  /\ pc[p] = "store"
  /\ mem' = Put(mem, Head(stores[p]))
  /\ stores' = [stores EXCEPT ![p] = Tail(@)]
  /\ Goto(p, IF Len(stores[p]) > 1 THEN "store"
             ELSE IF cmd[p].op = "add" THEN "unlock" ELSE "free")
  /\ UNCHANGED <<version, data, live, sp, cmd, pos, n, out, before, last>>

\* modlist_read's loop: print pos and follow its next, while there is room.
ShowItem(p) ==
  /\ pc[p] = "visit" /\ cmd[p].op = "read" /\ pos[p] # HEAD
  /\ out[p] \notin Full
  /\ out' = [out EXCEPT ![p] = Append(@, data[pos[p]])]
  /\ pos' = [pos EXCEPT ![p] = mem.next[pos[p]]]
  /\ UNCHANGED <<version, mem, data, live, sp, pc, cmd, n, stores, before, last>>

\* pos = n, n = pos->next
Advance(p) ==
  /\ pos' = [pos EXCEPT ![p] = n[p]]
  /\ n' = [n EXCEPT ![p] = mem.next[n[p]]]

\* modlist_remove's loop: list_del the element if it has the number.
Match(p) ==
  /\ pc[p] = "visit" /\ cmd[p].op = "remove" /\ pos[p] # HEAD
  /\ IF data[pos[p]] = cmd[p].arg
     THEN /\ stores' = [stores EXCEPT ![p] = ListDel(mem, pos[p])]
          /\ Goto(p, "store") /\ UNCHANGED <<pos, n>>
     ELSE Advance(p) /\ UNCHANGED <<pc, stores>>
  /\ UNCHANGED <<version, mem, data, live, sp, cmd, out, before, last>>

\* modlist_cleanup's loop: list_del every element.
Sweep(p) ==
  /\ pc[p] = "visit" /\ cmd[p].op = "cleanup" /\ pos[p] # HEAD
  /\ stores' = [stores EXCEPT ![p] = ListDel(mem, pos[p])]
  /\ Goto(p, "store")
  /\ UNCHANGED <<version, mem, data, live, sp, cmd, pos, n, out, before, last>>

\* (bug) list_for_each: the next element read from the one just freed
FreeUnsafe(p) ==
  /\ pc[p] = "free"
  /\ live' = live \ {pos[p]}
  /\ pos' = [pos EXCEPT ![p] = mem.next[pos[p]]]
  /\ Goto(p, "visit")
  /\ UNCHANGED <<version, mem, data, sp, cmd, n, stores, out, before, last>>

\* (bug) list_del without its vfree
FreeNothing(p) ==
  /\ pc[p] = "free"
  /\ Advance(p) /\ Goto(p, "visit")
  /\ UNCHANGED <<version, mem, data, live, sp, cmd, stores, out, before, last>>

\* vfree(item), and on to the element saved in n.
FreeItem(p) ==
  /\ pc[p] = "free"
  /\ live' = live \ {pos[p]}
  /\ Advance(p) /\ Goto(p, "visit")
  /\ UNCHANGED <<version, mem, data, sp, cmd, stores, out, before, last>>

\* The loop is over: at the head again, or a read whose buffer is full.
LoopOver(p) == pos[p] = HEAD \/ (cmd[p].op = "read" /\ out[p] \in Full)

\* spin_unlock and return.
Unlock(p) ==
  /\ pc[p] = "unlock" \/ (pc[p] = "visit" /\ LoopOver(p))
  /\ sp' = Free /\ before' = <<>>
  /\ last' = Command(cmd[p].op, cmd[p].arg, out[p])
  /\ Goto(p, "idle")
  /\ cmd' = [cmd EXCEPT ![p] = None] /\ out' = [out EXCEPT ![p] = <<>>]
  /\ pos' = [pos EXCEPT ![p] = HEAD] /\ n' = [n EXCEPT ![p] = HEAD]
  /\ UNCHANGED <<version, mem, data, live, stores>>

Call(p) == \/ Begin(p) \/ Lock(p) \/ Store(p) \/ ShowItem(p) \/ Match(p) \/ Sweep(p)
           \/ FreeItem(p) \/ Unlock(p)

\* init_modlist_module of version v.
Load(v) ==
  /\ version = "none" /\ version' = v
  /\ mem' = EmptyList /\ last' = None
  /\ UNCHANGED <<data, live, sp, procVars, before>>

\* exit_modlist_module: remove_proc_entry waits for the calls in progress,
\* then modlist_cleanup runs alone.
Unload ==
  /\ version # "none" /\ Idle /\ version' = "none"
  /\ mem' = DelAll(mem, live) /\ live' = live \ ToSet(Chain(mem))
  /\ last' = Command("cleanup", 0, <<>>)
  /\ UNCHANGED <<data, sp, procVars, before>>

Next == Load("Pr3") \/ Unload \/ \E p \in Procs : Call(p)

Spec == Init /\ [][Next]_vars
-----------------------------------------------------------------------------
TypeOK ==
  /\ mem \in Memory /\ live \subseteq Nodes
  /\ data \in [Nodes -> Values \cup {0}]
  /\ sp \in Procs \cup {Free}
  /\ pc \in [Procs -> {"idle", "lock", "store", "visit", "free", "unlock"}]
  /\ pos \in [Procs -> Entries] /\ n \in [Procs -> Entries]  \* never poison
  /\ out \in [Procs -> Seq(Values)] /\ before \in Seq(Values)

\* Between critical sections the list is the same forwards and backwards and
\* consists of the allocated elements but those still to be added: no call,
\* and no unloading, leaves an element linked but freed, or allocated but lost.
ListIntact == sp = Free =>
  LET c == Chain(mem) IN
  /\ ToSet(c) \cup {pos[p] : p \in {q \in Procs : cmd[q].op = "add"}} = live
  /\ Len(c) = Cardinality(ToSet(c))
  /\ \A e \in ToSet(c) \cup {HEAD} : mem.prev[mem.next[e]] = e

\* No loop follows a pointer into an element that was freed, by itself or by
\* another process.
NoUseAfterFree == \A p \in Procs :
  pc[p] \in {"visit", "free"} => pos[p] \in live \cup {HEAD}

Promise == INSTANCE IntList WITH
  list <- IF sp = Free THEN Items(mem) ELSE before

\* However the pointer writes of different processes interleave, the module
\* behaves as a list on which each command takes effect at once.
ImplementsIntList == Promise!Spec
=============================================================================
