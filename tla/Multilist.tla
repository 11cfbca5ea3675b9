----------------------------- MODULE Multilist -----------------------------
(***************************************************************************)
(* PrFinal/modlist.c: /proc/multilist/control creates and removes entries, *)
(* each an entry_list_node_t with its list of integers, while processes    *)
(* read and write the entries.  sp_lists protects list_of_proc_lists;      *)
(* procfs protects the directory.  No process waits while it holds a       *)
(* list's own sp, so what happens under one sp is one step.                *)
(*                                                                         *)
(* procfs, as in the 3.14 kernel of the repository: a name the directory   *)
(* already has is registered again, in front, with a warning;              *)
(* remove_proc_entry() takes out the first entry of a name, with its own   *)
(* copy of it, and waits for the calls in progress on that entry.          *)
(* control_create does not look whether a name is taken, so two lists can  *)
(* have one; clash records that this has happened.                         *)
(*                                                                         *)
(* Both write handlers copy the user's text to aux_buffer and then parse   *)
(* modlistbuffer, which nothing initialises: the command carried out, its  *)
(* name and its number are whatever the stack holds, so they are chosen    *)
(* freely.  A write that parses as no command changes nothing.             *)
(*                                                                         *)
(* The integers of a list are a set: "remove" takes out every copy of one. *)
(***************************************************************************)
EXTENDS Integers, Sequences, SequencesExt, FiniteSets

CONSTANTS Procs,          \* processes using /proc/multilist
          Addr, NULL,     \* the nodes vmalloc() can return
          Names,          \* what sscanf can leave in name
          Data,           \* the integers a list can hold
          Entries,        \* the proc_dir_entry's procfs can allocate
          Free, Leaked    \* sp_lists: not held; held by a call that returned

\* A proc_dir_entry: where it is, its own copy of the name, and its PDE_DATA.
Entry == [at : Entries, name : Names, node : Addr]

ASSUME MultilistAssumption ==
  /\ IsFiniteSet(Procs) /\ IsFiniteSet(Addr)
  /\ NULL \notin Addr \cup Entry /\ Free # Leaked /\ {Free, Leaked} \cap Procs = {}
  /\ Names # {} /\ Entries # {}

VARIABLES node,      \* the entry_list_node_t at each address
          lists,     \* list_of_proc_lists
          dir,       \* the directory, newest entry first
          sp_lists,  \* Free, Leaked or its holder
          pc,        \* where each process is
          ent,       \* modlist_entry, entry_node of each process
          de,        \* the entry a call came in by, or remove_proc_entry() has
          clash      \* history: a name in the directory was registered again

vars == <<node, lists, dir, sp_lists, pc, ent, de, clash>>

NewNode(n) == [live |-> TRUE, name |-> n, marked |-> FALSE, items |-> {}]

\* Freed memory: what a call may still find there does not matter.
Freed(nd) == [nd EXCEPT !.live = FALSE, !.marked = FALSE, !.items = {}]

\* Where the list of lists and the directory have a name.
InLists(n) == {i \in DOMAIN lists : node[lists[i]].name = n}
InDir(n) == {i \in DOMAIN dir : dir[i].name = n}

\* The calls in progress on an entry.  One that will never return still counts.
Users(x) == {p \in Procs : pc[p] \in {"read", "write", "oops"} /\ de[p] = x}

Goto(p, l) == pc' = [pc EXCEPT ![p] = l]
Return(p) ==
  Goto(p, "idle") /\ ent' = [ent EXCEPT ![p] = NULL] /\ de' = [de EXCEPT ![p] = NULL]

\* init_modlist_module: control_create("default") succeeded, or it failed and
\* the module is loaded all the same.  The module takes a reference on itself,
\* so exit_modlist_module never runs.
Init ==
  /\ \E x \in Entry, created \in BOOLEAN :
       /\ node = [a \in Addr |-> [NewNode(x.name) EXCEPT !.live = created /\ a = x.node]]
       /\ lists = IF created THEN <<x.node>> ELSE <<>>
       /\ dir = IF created THEN <<x>> ELSE <<>>
       /\ sp_lists = IF created THEN Free ELSE Leaked
  /\ pc = [p \in Procs |-> "idle"]
  /\ ent = [p \in Procs |-> NULL]
  /\ de = [p \in Procs |-> NULL]
  /\ clash = FALSE

\* spin_lock(&sp_lists), by any call that needs it next.
LockLists(p) ==
  /\ pc[p] \in {"link", "fail", "find", "unlink", "read"}
  /\ sp_lists = Free
  /\ sp_lists' = p
  /\ UNCHANGED <<node, lists, dir, pc, ent, de, clash>>

-----------------------------------------------------------------------------
\* control_create

Create(p) == \E e \in Addr, n \in Names :
  /\ pc[p] = "idle" /\ ~node[e].live
  /\ node' = [node EXCEPT ![e] = NewNode(n)]
  /\ ent' = [ent EXCEPT ![p] = e]
  /\ Goto(p, "register")
  /\ UNCHANGED <<lists, dir, sp_lists, de, clash>>

\* proc_create_data returns an entry, which calls can use from here on.
Register(p) == \E a \in Entries :
  LET n == node[ent[p]].name IN
  /\ pc[p] = "register"
  /\ \A x \in ToSet(dir) \cup ({de[q] : q \in Procs} \ {NULL}) : x.at # a
  /\ dir' = <<[at |-> a, name |-> n, node |-> ent[p]]>> \o dir
  /\ clash' = (clash \/ InDir(n) # {})
  /\ Goto(p, "link")
  /\ UNCHANGED <<node, lists, sp_lists, ent, de>>

\* proc_create_data returns NULL: no memory.
RegisterFails(p) ==
  /\ pc[p] = "register"
  /\ Goto(p, "fail")
  /\ UNCHANGED <<node, lists, dir, sp_lists, ent, de, clash>>

\* (bug) the failure path without its vfree
FailCreateLeaks(p) ==
  /\ pc[p] = "fail" /\ sp_lists = p
  /\ sp_lists' = Leaked
  /\ Return(p)
  /\ UNCHANGED <<node, lists, dir, clash>>

\* The failure path frees the node and returns with sp_lists locked.
FailCreate(p) ==
  /\ pc[p] = "fail" /\ sp_lists = p
  /\ node' = [node EXCEPT ![ent[p]] = Freed(@)]
  /\ sp_lists' = Leaked
  /\ Return(p)
  /\ UNCHANGED <<lists, dir, clash>>

Link(p) ==
  /\ pc[p] = "link" /\ sp_lists = p
  /\ lists' = Append(lists, ent[p])
  /\ sp_lists' = Free
  /\ Return(p)
  /\ UNCHANGED <<node, dir, clash>>

-----------------------------------------------------------------------------
\* control_write, "remove"

BeginRemove(p) ==
  /\ pc[p] = "idle"
  /\ Goto(p, "find")
  /\ UNCHANGED <<node, lists, dir, sp_lists, ent, de, clash>>

NotFound(p) == \E n \in Names :
  /\ pc[p] = "find" /\ sp_lists = p
  /\ InLists(n) = {}
  /\ sp_lists' = Free
  /\ Goto(p, "idle")
  /\ UNCHANGED <<node, lists, dir, ent, de, clash>>

\* (bug) a removal that keeps sp_lists until control_remove has finished
FoundKeepsLock(p) == \E n \in Names :
  LET found == lists[Min(InLists(n))] IN
  /\ pc[p] = "find" /\ sp_lists = p /\ InLists(n) # {}
  /\ IF node[found].marked
     THEN Goto(p, "idle") /\ sp_lists' = Free /\ UNCHANGED <<node, ent>>
     ELSE /\ node' = [node EXCEPT ![found].marked = TRUE]
          /\ ent' = [ent EXCEPT ![p] = found]
          /\ Goto(p, "unregister")
          /\ UNCHANGED sp_lists
  /\ UNCHANGED <<lists, dir, de, clash>>

\* (bug) sudden removal: marked_for_removal is not looked at
FoundUnmarked(p) == \E n \in Names :
  LET found == lists[Min(InLists(n))] IN
  /\ pc[p] = "find" /\ sp_lists = p /\ InLists(n) # {}
  /\ node' = [node EXCEPT ![found].marked = TRUE]
  /\ ent' = [ent EXCEPT ![p] = found]
  /\ Goto(p, "unregister")
  /\ sp_lists' = Free
  /\ UNCHANGED <<lists, dir, de, clash>>

\* The first list of that name is marked, unless somebody is removing it.
Found(p) == \E n \in Names :
  LET found == lists[Min(InLists(n))] IN
  /\ pc[p] = "find" /\ sp_lists = p /\ InLists(n) # {}
  /\ IF node[found].marked
     THEN Goto(p, "idle") /\ UNCHANGED <<node, ent>>
     ELSE /\ node' = [node EXCEPT ![found].marked = TRUE]
          /\ ent' = [ent EXCEPT ![p] = found]
          /\ Goto(p, "unregister")
  /\ sp_lists' = Free
  /\ UNCHANGED <<lists, dir, de, clash>>

\* remove_proc_entry takes the first entry of that name out, if there is one ...
Unregister(p) ==
  LET n == node[ent[p]].name
      found == Min(InDir(n)) IN
  /\ pc[p] = "unregister"
  /\ IF InDir(n) = {}
     THEN Goto(p, "unlink") /\ UNCHANGED <<dir, de>>
     ELSE /\ de' = [de EXCEPT ![p] = dir[found]]
          /\ dir' = RemoveAt(dir, found)
          /\ Goto(p, "closing")
  /\ UNCHANGED <<node, lists, sp_lists, ent, clash>>

\* ... keeps new calls from the files opened by it ...
Close(p) ==
  /\ pc[p] = "closing"
  /\ Goto(p, "rundown")
  /\ UNCHANGED <<node, lists, dir, sp_lists, ent, de, clash>>

\* (bug) control_remove does not wait for the calls in progress
RundownAtOnce(p) ==
  /\ pc[p] = "rundown"
  /\ de' = [de EXCEPT ![p] = NULL]
  /\ Goto(p, "unlink")
  /\ UNCHANGED <<node, lists, dir, sp_lists, ent, clash>>

\* ... and returns when no call is in progress on it.
Rundown(p) ==
  /\ pc[p] = "rundown" /\ Users(de[p]) = {}
  /\ de' = [de EXCEPT ![p] = NULL]
  /\ Goto(p, "unlink")
  /\ UNCHANGED <<node, lists, dir, sp_lists, ent, clash>>

\* (bug) control_remove without its list_del
UnlinkNothing(p) ==
  /\ pc[p] = "unlink" /\ sp_lists = p
  /\ sp_lists' = Free
  /\ Goto(p, "drain")
  /\ UNCHANGED <<node, lists, dir, ent, de, clash>>

Unlink(p) == \E i \in DOMAIN lists :
  /\ pc[p] = "unlink" /\ sp_lists = p
  /\ lists[i] = ent[p] /\ lists' = RemoveAt(lists, i)
  /\ sp_lists' = Free
  /\ Goto(p, "drain")
  /\ UNCHANGED <<node, dir, ent, de, clash>>

Drain(p) ==
  /\ pc[p] = "drain"
  /\ node' = [node EXCEPT ![ent[p]].items = {}]
  /\ Goto(p, "free")
  /\ UNCHANGED <<lists, dir, sp_lists, ent, de, clash>>

FreeNode(p) ==
  /\ pc[p] = "free"
  /\ node' = [node EXCEPT ![ent[p]] = Freed(@)]
  /\ Return(p)
  /\ UNCHANGED <<lists, dir, sp_lists, clash>>

-----------------------------------------------------------------------------
\* modlist_read and modlist_write: procfs admits a call on a registered entry,
\* and on an open file of one that is just being removed.

BeginUse(p) ==
  \E x \in ToSet(dir) \cup {de[q] : q \in {r \in Procs : pc[r] = "closing"}},
     call \in {"read", "write"} :
  /\ pc[p] = "idle"
  /\ ent' = [ent EXCEPT ![p] = x.node]
  /\ de' = [de EXCEPT ![p] = x]
  /\ Goto(p, call)
  /\ UNCHANGED <<node, lists, dir, sp_lists, clash>>

\* A call on a freed list may get away with it (Read, Write), or fault at the
\* list's sp or never obtain it: then it returns no more, nor does sp_lists.
Oops(p) ==
  /\ pc[p] = "write" \/ (pc[p] = "read" /\ sp_lists = p)
  /\ ~node[ent[p]].live
  /\ Goto(p, "oops")
  /\ UNCHANGED <<node, lists, dir, sp_lists, ent, de, clash>>

\* (bug) an early return (say -EFAULT) that releases only the list's own lock
ReadKeepsLock(p) ==
  /\ pc[p] = "read" /\ sp_lists = p
  /\ Return(p)
  /\ UNCHANGED <<node, lists, dir, sp_lists, clash>>

Read(p) ==
  /\ pc[p] = "read" /\ sp_lists = p
  /\ sp_lists' = Free
  /\ Return(p)
  /\ UNCHANGED <<node, lists, dir, clash>>

\* "add", "remove", "cleanup" or none of them, under the list's own sp.
Write(p) ==
  LET old == node[ent[p]].items IN
  /\ pc[p] = "write"
  /\ \E new \in {old, {}} \cup {old \cup {d} : d \in Data} \cup {old \ {d} : d \in Data} :
       node' = [node EXCEPT ![ent[p]].items = new]
  /\ Return(p)
  /\ UNCHANGED <<lists, dir, sp_lists, clash>>

-----------------------------------------------------------------------------
Step(p) ==
  \/ Register(p) \/ RegisterFails(p) \/ FailCreate(p) \/ Link(p)
  \/ NotFound(p) \/ Found(p)
  \/ Unregister(p) \/ Close(p) \/ Rundown(p) \/ Unlink(p) \/ Drain(p) \/ FreeNode(p)
  \/ Read(p) \/ Write(p)

Next == \E p \in Procs :
  Create(p) \/ BeginRemove(p) \/ BeginUse(p) \/ Oops(p) \/ LockLists(p) \/ Step(p)

\* A process runs until its call returns; spinlocks are ticket locks, so one
\* that is free again and again is obtained.
Fairness == \A p \in Procs : WF_vars(Step(p)) /\ SF_vars(LockLists(p))

Spec == Init /\ [][Next]_vars /\ Fairness

-----------------------------------------------------------------------------
Creating == {"register", "link", "fail"}
Removing == {"unregister", "closing", "rundown", "unlink", "drain", "free"}
Owns(p, e) == ent[p] = e /\ pc[p] \in Creating \cup Removing
Quiet == \A p \in Procs : pc[p] = "idle"

\* Type correctness: only a call that must still release it holds sp_lists,
\* and a process works with a node exactly while its call has one.
TypeOK ==
  /\ node \in [Addr -> [live : BOOLEAN, name : Names, marked : BOOLEAN,
                        items : SUBSET Data]]
  /\ lists \in Seq(Addr) /\ dir \in Seq(Entry)
  /\ sp_lists \in {Free, Leaked} \cup Procs
  /\ pc \in [Procs -> {"idle", "find", "read", "write", "oops"} \cup Creating \cup Removing]
  /\ ent \in [Procs -> Addr \cup {NULL}] /\ de \in [Procs -> Entry \cup {NULL}]
  /\ clash \in BOOLEAN
  /\ \A p \in Procs :
       /\ pc[p] \in {"idle", "find"} <=> ent[p] = NULL
       /\ pc[p] \in {"read", "write", "oops", "closing", "rundown"} <=> de[p] # NULL
       /\ sp_lists = p => pc[p] \in {"link", "fail", "find", "unlink", "read", "oops"}

\* No use after free: as long as no name has been registered twice, whatever a
\* call works with, the list of lists links or an open of a directory entry
\* would reach is allocated.  This is what the mark, the order of
\* control_remove and the wait of remove_proc_entry are for.
UsedNodesLive == ~clash =>
  \A e \in ToSet(lists) \cup {x.node : x \in ToSet(dir)} \cup ({ent[p] : p \in Procs} \ {NULL}) :
    node[e].live

\* "better than sudden removal" (line 31): a list is not freed under a call
\* that reads or writes it, nor can one begin later.  Without the condition of
\* UsedNodesLive.
RemovalNotSudden == \A p \in Procs : pc[p] \in {"read", "write"} => node[ent[p]].live

\* No leak and no double free: an allocated node is in the list of lists or
\* belongs to a call that is still creating or removing it, never to two,
\* whatever names are registered.
OwnedByOne == \A e \in Addr :
  /\ node[e].live => e \in ToSet(lists) \/ \E p \in Procs : Owns(p, e)
  /\ \A p, q \in Procs : Owns(p, e) /\ Owns(q, e) => p = q

\* When no call is in progress, and no name has been registered twice, the list
\* of lists and the directory hold the same lists, each once, under different
\* names, and none marked.
QuietConsistent == Quiet /\ ~clash =>
  /\ ToSet(lists) = {x.node : x \in ToSet(dir)}
  /\ \A i, j \in DOMAIN lists :
       node[lists[i]].name = node[lists[j]].name => i = j
  /\ \A e \in ToSet(lists) : ~node[e].marked

\* control_remove takes entries out by name while other processes may remove
\* and create entries of the same name: it always takes out its own, and finds
\* it, as long as no name has been registered twice.
OwnEntryRemoved == ~clash => \A p \in Procs :
  /\ pc[p] \in {"closing", "rundown"} => de[p].node = ent[p]
  /\ pc[p] = "unregister" => InDir(node[ent[p]].name) # {}

\* Every call returns, unless control_create has failed or a name has been
\* registered twice.
CallsReturn ==
  [](sp_lists # Leaked /\ ~clash) =>
    \A p \in Procs : pc[p] # "idle" ~> pc[p] = "idle"
=============================================================================
