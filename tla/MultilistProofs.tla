-------------------------- MODULE MultilistProofs ---------------------------
(***************************************************************************)
(* The life of the nodes of /proc/multilist: no double free and no leak,   *)
(* and, as long as no name has been registered twice, no use after free    *)
(* and a directory that agrees with the list of lists, for any number of   *)
(* processes, nodes, directory entries and names.                          *)
(***************************************************************************)
EXTENDS Multilist, SharedLemmas, SequenceTheorems

Lists == ToSet(lists)
Dir == ToSet(dir)

\* No element twice.
Once(seq) == \A i, j \in DOMAIN seq : seq[i] = seq[j] => i = j

\* Between procfs taking an entry out and remove_proc_entry() returning.
Waiting == {"closing", "rundown"}
InUse == {"read", "write", "oops"}

\* The node of a call: where it is while the call creates or removes it, and
\* which one it is while the call uses it.
Stage(p) ==
  /\ pc[p] \in Creating \cup {"drain", "free"} => ent[p] \notin Lists
  /\ pc[p] \in {"unregister", "unlink"} \cup Waiting => ent[p] \in Lists
  /\ pc[p] \in Creating \cup Removing =>
       node[ent[p]].live /\ (node[ent[p]].marked <=> pc[p] \in Removing)
  /\ pc[p] \in InUse => ent[p] = de[p].node

\* What holds whatever names are registered.
Core ==
  /\ TypeOK
  /\ Once(lists) /\ \A e \in Lists : node[e].live
  /\ \A p, q \in Procs : \A e \in Addr : Owns(p, e) /\ Owns(q, e) => p = q
  /\ \A e \in Addr : node[e].live /\ (\A p \in Procs : ~Owns(p, e)) =>
       e \in Lists /\ ~node[e].marked
  /\ \A p \in Procs : Stage(p)

\* A call and the directory: the node it creates or removes is in it or not, and
\* the entry it uses is registered or waited for.
Place(p) ==
  /\ pc[p] \in {"register", "fail"} \cup (Removing \ {"unregister"}) =>
       \A x \in Dir : x.node # ent[p]
  /\ pc[p] \in {"link", "unregister"} => \E x \in Dir : x.node = ent[p]
  /\ pc[p] \in Waiting => de[p].node = ent[p]
  /\ pc[p] \in {"read", "write"} =>
       de[p] \in Dir \/ \E q \in Procs : pc[q] \in Waiting /\ de[q] = de[p]
  /\ pc[p] # "oops"

\* The directory, as long as no name has been registered twice: it has a name
\* once, with the node of that name, and every list nobody creates or removes.
Orderly ==
  /\ Once(dir)
  /\ \A x, y \in Dir : x.name = y.name => x = y
  /\ \A x \in Dir : node[x.node].live /\ node[x.node].name = x.name
  /\ \A e \in Addr : node[e].live /\ (\A p \in Procs : ~Owns(p, e)) =>
       \E x \in Dir : x.node = e
  /\ \A p \in Procs : Place(p)

IInv == Core /\ (~clash => Orderly)
-----------------------------------------------------------------------------
(* Lists and directories.                                                  *)

\* A new entry at the head, as procfs adds it.
LEMMA HeadAdded ==
  ASSUME NEW seq \in Seq(Entry), Once(seq), NEW a \in Entry, a \notin ToSet(seq),
         NEW t, t = <<a>> \o seq
  PROVE  t \in Seq(Entry) /\ Once(t) /\ ToSet(t) = ToSet(seq) \cup {a}
<1>1. <<a>> \in Seq(Entry) /\ Len(<<a>>) = 1 /\ <<a>>[1] = a /\ Len(seq) \in Nat
  OBVIOUS
<1>2. /\ t \in Seq(Entry) /\ Len(t) = 1 + Len(seq)
      /\ \A i \in 1 .. 1 + Len(seq) : t[i] = IF i <= 1 THEN <<a>>[i] ELSE seq[i - 1]
  BY <1>1, ConcatProperties
<1>3. DOMAIN t = 1 .. 1 + Len(seq) /\ DOMAIN seq = 1..Len(seq)
  BY <1>2
<1>4. t[1] = a /\ \A i \in 2 .. 1 + Len(seq) : t[i] = seq[i - 1] /\ i - 1 \in 1..Len(seq)
  BY <1>1, <1>2
<1>5. \A i \in 1..Len(seq) : t[i + 1] = seq[i] /\ i + 1 \in 2 .. 1 + Len(seq)
  BY <1>1, <1>4
<1>6. ToSet(t) = ToSet(seq) \cup {a}
  <2>1. \A e \in ToSet(t) : e \in ToSet(seq) \cup {a}
    BY <1>1, <1>3, <1>4 DEF ToSet
  <2>2. a \in ToSet(t)
    BY <1>1, <1>3, <1>4 DEF ToSet
  <2>3. ASSUME NEW i \in 1..Len(seq) PROVE seq[i] \in ToSet(t)
    <3>1. t[i + 1] = seq[i] /\ i + 1 \in DOMAIN t
      BY <1>1, <1>3, <1>5
    <3> QED BY <3>1 DEF ToSet
  <2>4. \A e \in ToSet(seq) : e \in ToSet(t)
    BY <1>3, <2>3 DEF ToSet
  <2> QED BY <2>1, <2>2, <2>4
<1>7. Once(t)
  BY <1>1, <1>3, <1>4 DEF Once, ToSet
<1> QED BY <1>2, <1>6, <1>7

\* A new list at the tail: list_add_tail().
LEMMA TailAdded ==
  ASSUME NEW seq \in Seq(Addr), Once(seq), NEW a \in Addr, a \notin ToSet(seq),
         NEW t, t = Append(seq, a)
  PROVE  t \in Seq(Addr) /\ Once(t) /\ ToSet(t) = ToSet(seq) \cup {a}
<1>1. /\ t \in Seq(Addr) /\ Len(t) = Len(seq) + 1 /\ Len(seq) \in Nat
      /\ t[Len(seq) + 1] = a /\ \A i \in 1..Len(seq) : t[i] = seq[i]
  OBVIOUS
<1>2. DOMAIN t = 1 .. Len(seq) + 1 /\ DOMAIN seq = 1..Len(seq)
  BY <1>1
<1>3. ToSet(t) = ToSet(seq) \cup {a}
  <2>1. \A e \in ToSet(t) : e \in ToSet(seq) \cup {a}
    BY <1>1, <1>2 DEF ToSet
  <2>2. \A e \in ToSet(seq) \cup {a} : e \in ToSet(t)
    BY <1>1, <1>2 DEF ToSet
  <2> QED BY <2>1, <2>2
<1>4. Once(t)
  BY <1>1, <1>2 DEF Once, ToSet
<1> QED BY <1>1, <1>3, <1>4

\* What RemoveAt leaves at each place.
LEMMA OneOut ==
  ASSUME NEW T, NEW seq \in Seq(T), NEW i \in 1..Len(seq)
  PROVE  /\ RemoveAt(seq, i) \in Seq(T) /\ Len(RemoveAt(seq, i)) = Len(seq) - 1
         /\ \A k \in 1..Len(RemoveAt(seq, i)) :
              RemoveAt(seq, i)[k] = IF k < i THEN seq[k] ELSE seq[k+1]
<1> DEFINE t == RemoveAt(seq, i)
<1>1. t = SubSeq(seq, 1, i - 1) \o SubSeq(seq, i + 1, Len(seq))
  BY DEF RemoveAt
<1> HIDE DEF t
<1>2. /\ t \in Seq(T) /\ Len(t) = Len(seq) - 1
      /\ \A k \in 1..Len(t) : t[k] = IF k < i THEN seq[k] ELSE seq[k+1]
  BY <1>1, OneRemoved, ZenonT(120)
<1> QED BY <1>2 DEF t

\* An entry taken out: list_del(), or procfs.
LEMMA TakenOut ==
  ASSUME NEW T, NEW seq \in Seq(T), Once(seq), NEW i \in 1..Len(seq), NEW t, t = RemoveAt(seq, i)
  PROVE  t \in Seq(T) /\ Once(t) /\ ToSet(t) = ToSet(seq) \ {seq[i]}
<1>1. i \in 1..Len(seq) /\ Len(seq) \in Nat /\ DOMAIN seq = 1..Len(seq)
  OBVIOUS
<1>3. /\ t \in Seq(T) /\ Len(t) = Len(seq) - 1
      /\ \A k \in 1..Len(t) : t[k] = IF k < i THEN seq[k] ELSE seq[k+1]
  BY OneOut, ZenonT(60)
<1>4. DOMAIN t = 1 .. Len(seq) - 1
  BY <1>3
<1>5. ToSet(t) = ToSet(seq) \ {seq[i]}
  <2>1. ASSUME NEW k \in 1 .. Len(seq) - 1 PROVE t[k] \in ToSet(seq) \ {seq[i]}
    <3>1. t[k] = IF k < i THEN seq[k] ELSE seq[k+1]
      BY <1>3, <1>4
    <3>2. PICK l \in 1..Len(seq) : t[k] = seq[l] /\ l # i
      BY <1>1, <3>1
    <3>3. seq[l] # seq[i]
      BY <1>1, <3>2 DEF Once
    <3> QED BY <1>1, <3>2, <3>3 DEF ToSet
  <2>2. ASSUME NEW k \in 1..Len(seq), k # i PROVE seq[k] \in ToSet(t)
    <3>1. CASE k < i
      <4>1. k \in 1 .. Len(seq) - 1 /\ t[k] = seq[k]
        BY <1>1, <1>3, <1>4, <3>1
      <4> QED BY <1>4, <4>1 DEF ToSet
    <3>2. CASE ~(k < i)
      <4>1. k - 1 \in 1 .. Len(seq) - 1 /\ ~(k - 1 < i) /\ (k - 1) + 1 = k
        BY <1>1, <2>2, <3>2
      <4>2. t[k - 1] = seq[k]
        BY <1>3, <1>4, <4>1
      <4> QED BY <1>4, <4>1, <4>2 DEF ToSet
    <3> QED BY <3>1, <3>2
  <2> QED BY <1>1, <1>4, <2>1, <2>2 DEF ToSet
<1>6. Once(t)
  <2> SUFFICES ASSUME NEW k \in 1 .. Len(seq) - 1, NEW l \in 1 .. Len(seq) - 1, t[k] = t[l]
               PROVE  k = l
    BY <1>4 DEF Once
  <2>1. /\ t[k] = IF k < i THEN seq[k] ELSE seq[k+1]
        /\ t[l] = IF l < i THEN seq[l] ELSE seq[l+1]
    BY <1>3, <1>4
  <2>2. k \in 1..Len(seq) /\ k + 1 \in 1..Len(seq) /\ l \in 1..Len(seq) /\ l + 1 \in 1..Len(seq)
    BY <1>1
  <2>3. \A x, y \in 1..Len(seq) : seq[x] = seq[y] => x = y
    BY <1>1 DEF Once
  <2>4. (IF k < i THEN k ELSE k + 1) = (IF l < i THEN l ELSE l + 1)
    BY <2>1, <2>2, <2>3
  <2> QED BY <1>1, <2>4
<1> QED BY <1>3, <1>5, <1>6

-----------------------------------------------------------------------------
(* The invariant, step by step.                                            *)

Node == [live : BOOLEAN, name : Names, marked : BOOLEAN, items : SUBSET Data]

\* control_write marks a list, and changes nothing else of it.
LEMMA MarkedNode ==
  ASSUME NEW nd \in Node
  PROVE  /\ [nd EXCEPT !.marked = TRUE] \in Node
         /\ [nd EXCEPT !.marked = TRUE].marked = TRUE
         /\ [nd EXCEPT !.marked = TRUE].live = nd.live
         /\ [nd EXCEPT !.marked = TRUE].name = nd.name
<1>1. [nd EXCEPT !.marked = TRUE] \in Node
  BY DEF Node
<1>2. [nd EXCEPT !.marked = TRUE].marked = TRUE
  BY DEF Node
<1>3. /\ [nd EXCEPT !.marked = TRUE].live = nd.live
      /\ [nd EXCEPT !.marked = TRUE].name = nd.name
  BY DEF Node
<1> QED BY <1>1, <1>2, <1>3

\* Nothing has been created yet but, if all went well, the first list.
LEMMA InitInv == Init => IInv
<1> SUFFICES ASSUME Init PROVE IInv
  OBVIOUS
<1>1. PICK x \in Entry, created \in BOOLEAN :
        /\ node = [a \in Addr |-> [NewNode(x.name) EXCEPT !.live = created /\ a = x.node]]
        /\ lists = IF created THEN <<x.node>> ELSE <<>>
        /\ dir = IF created THEN <<x>> ELSE <<>>
        /\ sp_lists = IF created THEN Free ELSE Leaked
  BY Zenon DEF Init
<1>2. x.name \in Names /\ x.node \in Addr
  BY DEF Entry
<1>3. /\ lists \in Seq(Addr) /\ Once(lists) /\ Lists = (IF created THEN {x.node} ELSE {})
      /\ dir \in Seq(Entry) /\ Once(dir) /\ Dir = (IF created THEN {x} ELSE {})
  <2>1. CASE created
    <3>1. lists = <<x.node>> /\ dir = <<x>> /\ DOMAIN lists = {1} /\ DOMAIN dir = {1}
      BY <1>1, <2>1
    <3> QED BY <1>2, <2>1, <3>1 DEF ToSet, Once, Lists, Dir
  <2>2. CASE ~created
    BY <1>1, <2>2 DEF ToSet, Once, Lists, Dir
  <2> QED BY <2>1, <2>2
<1>4. /\ node \in [Addr -> Node]
      /\ \A a \in Addr : /\ node[a].live = (created /\ a = x.node) /\ node[a].marked = FALSE
                         /\ node[a].name = x.name
  <2> DEFINE first(b) == [NewNode(x.name) EXCEPT !.live = b]
  <2>1. ASSUME NEW b \in BOOLEAN
        PROVE  first(b) \in Node /\ first(b).live = b /\ first(b).marked = FALSE /\ first(b).name = x.name
    BY <1>2 DEF NewNode, Node
  <2>2. node = [a \in Addr |-> first(created /\ a = x.node)]
    BY <1>1
  <2>3. \A a \in Addr : (created /\ a = x.node) \in BOOLEAN
    OBVIOUS
  <2> HIDE DEF first
  <2>4. ASSUME NEW a \in Addr
        PROVE  /\ node[a] \in Node /\ node[a].live = (created /\ a = x.node)
               /\ node[a].marked = FALSE /\ node[a].name = x.name
    <3>1. node[a] = first(created /\ a = x.node)
      BY <2>2, Zenon
    <3> QED BY <2>1, <2>3, <3>1, Zenon
  <2> QED BY <2>2, <2>4
<1>5. TypeOK
  <2>1. node \in [Addr -> [live : BOOLEAN, name : Names, marked : BOOLEAN, items : SUBSET Data]]
    BY <1>4 DEF Node
  <2> QED BY <1>1, <1>3, <2>1, MultilistAssumption DEF TypeOK, Init, Creating, Removing
<1>6. Core
  BY <1>2, <1>3, <1>4, <1>5 DEF Core, Stage, Owns, Init, Creating, Removing, Waiting, InUse
<1>7. Orderly
  BY <1>2, <1>3, <1>4 DEF Orderly, Place, Init, Creating, Removing, Waiting
<1> QED BY <1>6, <1>7 DEF IInv

\* A step that moves one call on, and may change what integers a list has.
Same(p) ==
  /\ lists' = lists /\ dir' = dir /\ clash' = clash
  /\ \A q \in Procs \ {p} : pc'[q] = pc[q] /\ ent'[q] = ent[q] /\ de'[q] = de[q]
  /\ \A f \in Addr : /\ node'[f].live = node[f].live /\ node'[f].name = node[f].name
                     /\ node'[f].marked = node[f].marked

\* The call keeps the node it creates or removes, and no user loses the call
\* that waits for it.
Keeps(p) ==
  /\ pc[p] \in Creating \cup Removing <=> pc'[p] \in Creating \cup Removing
  /\ pc[p] \in Creating \cup Removing => ent'[p] = ent[p]
  /\ pc[p] \in Waiting => (pc'[p] \in Waiting /\ de'[p] = de[p]) \/ Users(de[p]) = {}

\* Such a step keeps the invariant if the call is where its place says.
LEMMA MoveStep ==
  ASSUME IInv, NEW p \in Procs, TypeOK', Same(p), Keeps(p), Stage(p)', ~clash => Place(p)'
  PROVE  IInv'
<1>1. Lists' = Lists /\ Dir' = Dir /\ Lists \subseteq Addr /\ Dir \subseteq Entry
  BY DEF Same, IInv, Core, TypeOK, Lists, Dir, ToSet
<1>2. \A q \in Procs, e \in Addr : Owns(q, e)' <=> Owns(q, e)
  BY DEF Same, Keeps, Owns
<1>3. ASSUME NEW q \in Procs PROVE Stage(q)'
  <2>1. CASE q = p
    BY <2>1
  <2>2. CASE q # p
    <3>1. pc[q] \in Creating \cup Removing => ent[q] \in Addr
      BY DEF IInv, Core, TypeOK, Creating, Removing
    <3> QED BY <1>1, <2>2, <3>1 DEF Stage, Same, IInv, Core
  <2> QED BY <2>1, <2>2
<1>4. Core'
  BY <1>1, <1>2, <1>3 DEF Core, IInv, Same, Once
<1>5. ASSUME ~clash PROVE Orderly'
  <2>1. Orderly
    BY <1>5 DEF IInv
  <2>2. ASSUME NEW q \in Procs PROVE Place(q)'
    <3>1. CASE q = p
      BY <1>5, <3>1
    <3>2. CASE q # p
      <4>1. Place(q)
        BY <2>1 DEF Orderly
      <4>2. pc'[q] = pc[q] /\ ent'[q] = ent[q] /\ de'[q] = de[q]
        BY <3>2 DEF Same
      <4>3. ASSUME pc[q] \in {"read", "write"}, NEW r \in Procs, pc[r] \in Waiting, de[r] = de[q]
            PROVE  pc'[r] \in Waiting /\ de'[r] = de'[q]
        BY <4>2, <4>3 DEF Same, Keeps, Users
      <4> QED BY <1>1, <4>1, <4>2, <4>3 DEF Place
    <3> QED BY <3>1, <3>2
  <2>3. \A x \in Dir : x.node \in Addr
    BY <1>1 DEF Entry
  <2> QED BY <1>1, <1>2, <2>1, <2>2, <2>3 DEF Orderly, Same, Once
<1> QED BY <1>4, <1>5 DEF IInv, Same

\* spin_lock(&sp_lists).
LEMMA LockStep == ASSUME IInv, NEW p \in Procs, LockLists(p) PROVE IInv'
<1> USE DEF LockLists
<1>1. TypeOK'
  BY MultilistAssumption DEF IInv, Core, TypeOK, Creating, Removing
<1>2. Same(p) /\ Keeps(p)
  BY DEF Same, Keeps
<1>3. Stage(p)' /\ (~clash => Place(p)')
  BY DEF IInv, Core, Orderly, Stage, Place, Lists, Dir
<1> QED BY <1>1, <1>2, <1>3, MoveStep

\* proc_create_data returns NULL.
LEMMA RegisterFailsStep == ASSUME IInv, NEW p \in Procs, RegisterFails(p) PROVE IInv'
<1> USE DEF RegisterFails, Goto
<1>1. pc[p] = "register" /\ pc'[p] = "fail" /\ \A q \in Procs \ {p} : pc'[q] = pc[q]
  BY DEF IInv, Core, TypeOK
<1>2. TypeOK'
  BY MultilistAssumption DEF IInv, Core, TypeOK, Creating, Removing
<1>3. Same(p) /\ Keeps(p)
  BY <1>1 DEF Same, Keeps, Creating, Removing, Waiting
<1>4. Stage(p)'
  BY <1>1 DEF IInv, Core, Stage, Lists, Creating, Removing, Waiting, InUse
<1>5. ~clash => Place(p)'
  BY <1>1 DEF IInv, Orderly, Place, Dir, Removing, Waiting
<1> QED BY <1>2, <1>3, <1>4, <1>5, MoveStep

\* A "remove" command is parsed.
LEMMA BeginRemoveStep == ASSUME IInv, NEW p \in Procs, BeginRemove(p) PROVE IInv'
<1> USE DEF BeginRemove, Goto
<1>1. pc[p] = "idle" /\ pc'[p] = "find" /\ \A q \in Procs \ {p} : pc'[q] = pc[q]
  BY DEF IInv, Core, TypeOK
<1>2. TypeOK'
  BY MultilistAssumption DEF IInv, Core, TypeOK, Creating, Removing
<1>3. Same(p) /\ Keeps(p)
  BY <1>1 DEF Same, Keeps, Creating, Removing, Waiting
<1>4. Stage(p)' /\ Place(p)'
  BY <1>1 DEF Stage, Place, Creating, Removing, Waiting, InUse
<1> QED BY <1>2, <1>3, <1>4, MoveStep

\* No list has the name asked for.
LEMMA NotFoundStep == ASSUME IInv, NEW p \in Procs, NotFound(p) PROVE IInv'
<1> USE DEF NotFound, Goto
<1>1. pc[p] = "find" /\ pc'[p] = "idle" /\ \A q \in Procs \ {p} : pc'[q] = pc[q]
  BY DEF IInv, Core, TypeOK
<1>2. TypeOK'
  BY MultilistAssumption DEF IInv, Core, TypeOK, Creating, Removing
<1>3. Same(p) /\ Keeps(p)
  BY <1>1 DEF Same, Keeps, Creating, Removing, Waiting
<1>4. Stage(p)' /\ Place(p)'
  BY <1>1 DEF Stage, Place, Creating, Removing, Waiting, InUse
<1> QED BY <1>2, <1>3, <1>4, MoveStep

\* procfs no longer lets calls begin on the entry.
LEMMA CloseStep == ASSUME IInv, NEW p \in Procs, Close(p) PROVE IInv'
<1> USE DEF Close, Goto
<1>1. pc[p] = "closing" /\ pc'[p] = "rundown" /\ \A q \in Procs \ {p} : pc'[q] = pc[q]
  BY DEF IInv, Core, TypeOK
<1>2. TypeOK'
  BY MultilistAssumption DEF IInv, Core, TypeOK, Creating, Removing
<1>3. Same(p) /\ Keeps(p)
  BY <1>1 DEF Same, Keeps, Creating, Removing, Waiting
<1>4. Stage(p)'
  BY <1>1 DEF IInv, Core, Stage, Lists, Creating, Removing, Waiting, InUse
<1>5. ~clash => Place(p)'
  BY <1>1 DEF IInv, Orderly, Place, Dir, Removing, Waiting
<1> QED BY <1>2, <1>3, <1>4, <1>5, MoveStep

\* remove_proc_entry() returns: nobody came in by the entry that has not left.
LEMMA RundownStep == ASSUME IInv, NEW p \in Procs, Rundown(p) PROVE IInv'
<1> USE DEF Rundown, Goto
<1>1. /\ pc[p] = "rundown" /\ pc'[p] = "unlink" /\ de'[p] = NULL /\ Users(de[p]) = {}
      /\ \A q \in Procs \ {p} : pc'[q] = pc[q] /\ de'[q] = de[q]
  BY DEF IInv, Core, TypeOK
<1>2. TypeOK'
  BY MultilistAssumption DEF IInv, Core, TypeOK, Creating, Removing
<1>3. Same(p) /\ Keeps(p)
  BY <1>1 DEF Same, Keeps, Creating, Removing, Waiting
<1>4. Stage(p)'
  BY <1>1 DEF IInv, Core, Stage, Lists, Creating, Removing, Waiting, InUse
<1>5. ~clash => Place(p)'
  BY <1>1 DEF IInv, Orderly, Place, Dir, Removing, Waiting
<1> QED BY <1>2, <1>3, <1>4, <1>5, MoveStep

\* A change of a list's integers alone.
LEMMA ItemsStep ==
  ASSUME IInv, NEW e \in Addr, NEW new \in SUBSET Data, node' = [node EXCEPT ![e].items = new]
  PROVE  /\ node' \in [Addr -> Node]
         /\ \A f \in Addr : /\ node'[f].live = node[f].live /\ node'[f].name = node[f].name
                            /\ node'[f].marked = node[f].marked
<1>1. node \in [Addr -> Node]
  BY DEF IInv, Core, TypeOK, Node
<1> QED BY <1>1 DEF Node

\* The integers of the list are freed.
LEMMA DrainStep == ASSUME IInv, NEW p \in Procs, Drain(p) PROVE IInv'
<1> USE DEF Drain, Goto
<1> DEFINE e == ent[p]
<1>1. /\ pc[p] = "drain" /\ pc'[p] = "free" /\ e \in Addr
      /\ \A q \in Procs \ {p} : pc'[q] = pc[q]
  BY DEF IInv, Core, TypeOK
<1>2. /\ node' \in [Addr -> Node]
      /\ \A f \in Addr : /\ node'[f].live = node[f].live /\ node'[f].name = node[f].name
                         /\ node'[f].marked = node[f].marked
  <2>1. {} \in SUBSET Data /\ node' = [node EXCEPT ![e].items = {}]
    OBVIOUS
  <2> HIDE DEF e
  <2> QED BY <1>1, <2>1, ItemsStep
<1>3. TypeOK'
  BY <1>2, MultilistAssumption DEF IInv, Core, TypeOK, Node, Creating, Removing
<1>4. Same(p) /\ Keeps(p)
  BY <1>1, <1>2 DEF Same, Keeps, Creating, Removing, Waiting
<1>5. Stage(p)'
  BY <1>1, <1>2 DEF IInv, Core, Stage, Lists, Creating, Removing, Waiting, InUse
<1>6. ~clash => Place(p)'
  BY <1>1 DEF IInv, Orderly, Place, Dir, Removing, Waiting
<1> QED BY <1>3, <1>4, <1>5, <1>6, MoveStep

\* A call on an entry that is registered or just being removed.
LEMMA BeginUseStep == ASSUME IInv, NEW p \in Procs, BeginUse(p) PROVE IInv'
<1> USE DEF BeginUse, Goto
<1>1. PICK x \in Dir \cup {de[q] : q \in {r \in Procs : pc[r] = "closing"}},
           call \in {"read", "write"} :
        /\ pc[p] = "idle" /\ ent' = [ent EXCEPT ![p] = x.node] /\ de' = [de EXCEPT ![p] = x]
        /\ pc' = [pc EXCEPT ![p] = call]
  BY DEF Dir
<1>2. x \in Entry /\ x.node \in Addr
  <2>1. x \in Entry
    BY <1>1 DEF IInv, Core, TypeOK, Dir, ToSet
  <2> QED BY <2>1 DEF Entry
<1>3. /\ pc'[p] = call /\ ent'[p] = x.node /\ de'[p] = x
      /\ \A q \in Procs \ {p} : pc'[q] = pc[q] /\ ent'[q] = ent[q] /\ de'[q] = de[q]
  BY <1>1 DEF IInv, Core, TypeOK
<1>4. TypeOK'
  BY <1>1, <1>2, MultilistAssumption DEF IInv, Core, TypeOK, Creating, Removing
<1>5. Same(p) /\ Keeps(p)
  BY <1>1, <1>3 DEF Same, Keeps, Creating, Removing, Waiting
<1>6. Stage(p)'
  BY <1>3 DEF Stage, Creating, Removing, Waiting, InUse
<1>7. Place(p)'
  <2>1. Dir' = Dir
    BY DEF Dir
  <2>2. x \in Dir \/ \E q \in Procs \ {p} : pc'[q] \in Waiting /\ de'[q] = x
    BY <1>1, <1>3 DEF Waiting
  <2> QED BY <1>3, <2>1, <2>2 DEF Place, Removing, Waiting
<1> QED BY <1>4, <1>5, <1>6, <1>7, MoveStep

\* As long as no name has been registered twice, what a call uses is allocated:
\* its entry is registered, or the owner of its node still waits for it.
LEMMA UserLive ==
  ASSUME IInv, ~clash, NEW p \in Procs, pc[p] \in {"read", "write"}
  PROVE  node[ent[p]].live
<1>1. Orderly /\ Place(p) /\ ent[p] = de[p].node
  BY DEF IInv, Core, Orderly, Stage, InUse
<1>2. CASE de[p] \in Dir
  BY <1>1, <1>2 DEF Orderly
<1>3. CASE ~(de[p] \in Dir)
  <2>1. PICK q \in Procs : pc[q] \in Waiting /\ de[q] = de[p]
    BY <1>1, <1>3 DEF Place
  <2>2. de[q].node = ent[q] /\ node[ent[q]].live
    BY <1>1, <2>1 DEF IInv, Core, Orderly, Place, Stage, Waiting, Removing
  <2> QED BY <1>1, <2>1, <2>2
<1> QED BY <1>2, <1>3

\* Only a list freed under an entry of its name can do this.
LEMMA OopsStep == ASSUME IInv, NEW p \in Procs, Oops(p) PROVE IInv'
<1> USE DEF Oops, Goto
<1>1. /\ pc[p] \in {"read", "write"} /\ pc'[p] = "oops"
      /\ \A q \in Procs \ {p} : pc'[q] = pc[q]
  BY DEF IInv, Core, TypeOK
<1>2. TypeOK'
  BY <1>1, MultilistAssumption DEF IInv, Core, TypeOK, Creating, Removing
<1>3. Same(p) /\ Keeps(p)
  BY <1>1 DEF Same, Keeps, Creating, Removing, Waiting
<1>4. Stage(p)'
  BY <1>1 DEF IInv, Core, Stage, Lists, Creating, Removing, Waiting, InUse
<1>5. clash
  BY <1>1, UserLive DEF IInv, Core, TypeOK
<1> QED BY <1>2, <1>3, <1>4, <1>5, MoveStep

\* A call that has used a list, and may have changed its integers, returns.
LEMMA UseStep == ASSUME IInv, NEW p \in Procs, Read(p) \/ Write(p) PROVE IInv'
<1> USE DEF Return, Goto
<1>1. /\ pc[p] \in {"read", "write"} /\ pc' = [pc EXCEPT ![p] = "idle"]
      /\ ent' = [ent EXCEPT ![p] = NULL] /\ de' = [de EXCEPT ![p] = NULL]
      /\ lists' = lists /\ dir' = dir /\ clash' = clash
  BY DEF Read, Write
<1>2. /\ pc'[p] = "idle" /\ ent'[p] = NULL
      /\ \A q \in Procs \ {p} : pc'[q] = pc[q] /\ ent'[q] = ent[q] /\ de'[q] = de[q]
  BY <1>1 DEF IInv, Core, TypeOK
<1>3. /\ node' \in [Addr -> Node]
      /\ \A f \in Addr : /\ node'[f].live = node[f].live /\ node'[f].name = node[f].name
                         /\ node'[f].marked = node[f].marked
  <2>1. CASE Read(p)
    BY <2>1 DEF Read, IInv, Core, TypeOK, Node
  <2>2. CASE Write(p)
    <3>1. ent[p] \in Addr /\ node[ent[p]].items \subseteq Data
      BY <1>1 DEF IInv, Core, TypeOK
    <3>2. PICK new \in SUBSET Data : node' = [node EXCEPT ![ent[p]].items = new]
      BY <2>2, <3>1 DEF Write
    <3> QED BY <3>1, <3>2, ItemsStep
  <2> QED BY <2>1, <2>2
<1>4. sp_lists' \in {sp_lists, Free} /\ (sp_lists' = p => FALSE)
  BY <1>1, MultilistAssumption DEF Read, Write, IInv, Core, TypeOK
<1>5. TypeOK'
  BY <1>1, <1>3, <1>4, MultilistAssumption DEF IInv, Core, TypeOK, Node, Creating, Removing
<1>6. Same(p) /\ Keeps(p)
  BY <1>1, <1>2, <1>3 DEF Same, Keeps, Creating, Removing, Waiting
<1>7. Stage(p)' /\ Place(p)'
  BY <1>2 DEF Stage, Place, Creating, Removing, Waiting, InUse
<1> QED BY <1>5, <1>6, <1>7, MoveStep

\* A node is allocated to a call of control_create.
LEMMA CreateStep == ASSUME IInv, NEW p \in Procs, Create(p) PROVE IInv'
<1> USE DEF Create, Goto
<1>1. Lists' = Lists /\ Dir' = Dir /\ Lists \subseteq Addr /\ Dir \subseteq Entry
  BY DEF IInv, Core, TypeOK, Lists, Dir, ToSet
<1>2. PICK e \in Addr, n \in Names :
        /\ pc[p] = "idle" /\ ~node[e].live
        /\ node' = [node EXCEPT ![e] = NewNode(n)] /\ ent' = [ent EXCEPT ![p] = e]
        /\ pc' = [pc EXCEPT ![p] = "register"]
  BY Zenon
<1>3. /\ pc'[p] = "register" /\ ent'[p] = e
      /\ \A q \in Procs \ {p} : pc'[q] = pc[q] /\ ent'[q] = ent[q]
      /\ node'[e].live = TRUE /\ node'[e].marked = FALSE
      /\ \A f \in Addr \ {e} : node'[f] = node[f]
  BY <1>2 DEF IInv, Core, TypeOK, NewNode
<1>4. e \notin Lists /\ \A q \in Procs : pc[q] \in Creating \cup Removing => ent[q] # e
  BY <1>2 DEF IInv, Core, Stage
<1>5. TypeOK'
  BY <1>2, MultilistAssumption, SMTT(60) DEF IInv, Core, TypeOK, NewNode, Creating, Removing
<1>6. ASSUME NEW q \in Procs PROVE Stage(q)'
  <2>1. CASE q = p
    BY <1>1, <1>3, <1>4, <2>1 DEF Stage, Creating, Removing, Waiting, InUse
  <2>2. CASE q # p
    <3>1. pc[q] \in Creating \cup Removing => ent[q] \in Addr \ {e}
      BY <1>4 DEF IInv, Core, TypeOK, Creating, Removing
    <3> QED BY <1>1, <1>3, <2>2, <3>1 DEF IInv, Core, Stage
  <2> QED BY <2>1, <2>2
<1>7. Core'
  <2>1. \A q, r \in Procs : \A f \in Addr : Owns(q, f)' /\ Owns(r, f)' => q = r
    BY <1>3, <1>4 DEF IInv, Core, Owns
  <2>2. \A q \in Procs, f \in Addr : Owns(q, f)' <=> Owns(q, f) \/ (q = p /\ f = e)
    BY <1>2, <1>3 DEF Owns, Creating, Removing
  <2> QED BY <1>1, <1>3, <1>4, <1>5, <1>6, <2>1, <2>2 DEF IInv, Core, Once
<1>8. ASSUME ~clash PROVE Orderly'
  <2>1. Orderly
    BY <1>8 DEF IInv
  <2>2. \A x \in Dir : x.node \in Addr \ {e}
    BY <1>1, <1>2, <2>1 DEF Orderly, Entry
  <2>3. ASSUME NEW q \in Procs PROVE Place(q)'
    <3>1. CASE q = p
      BY <1>1, <1>3, <2>2, <3>1 DEF Place, Removing, Waiting
    <3>2. CASE q # p
      BY <1>1, <1>2, <1>3, <2>1, <3>2 DEF Orderly, Place, Removing, Waiting
    <3> QED BY <3>1, <3>2
  <2>4. \A q \in Procs, f \in Addr : Owns(q, f)' <=> Owns(q, f) \/ (q = p /\ f = e)
    BY <1>2, <1>3 DEF Owns, Creating, Removing
  <2> QED BY <1>1, <1>3, <2>1, <2>2, <2>3, <2>4 DEF Orderly, Once
<1> QED BY <1>7, <1>8 DEF IInv

\* proc_create_data: the new entry is the first one of the directory.
LEMMA RegisterStep == ASSUME IInv, NEW p \in Procs, Register(p) PROVE IInv'
<1> USE DEF Register, Goto
<1> DEFINE e == ent[p]
<1>1. PICK a \in Entries :
        /\ \A x \in ToSet(dir) \cup ({de[q] : q \in Procs} \ {NULL}) : x.at # a
        /\ dir' = <<[at |-> a, name |-> node[e].name, node |-> e]>> \o dir
        /\ clash' = (clash \/ InDir(node[e].name) # {})
  OBVIOUS
<1> DEFINE x == [at |-> a, name |-> node[e].name, node |-> e]
<1>2. /\ pc[p] = "register" /\ e \in Addr /\ node[e].live /\ Owns(p, e)
      /\ x \in Entry /\ x.node = e /\ x.name = node[e].name /\ x.at = a
  <2>1. pc[p] = "register" /\ e \in Addr
    BY MultilistAssumption DEF IInv, Core, TypeOK
  <2>2. node[e].live /\ Owns(p, e) /\ node[e].name \in Names
    BY <2>1 DEF IInv, Core, TypeOK, Stage, Owns, Creating
  <2> QED BY <2>1, <2>2 DEF Entry
<1> HIDE DEF x
<1>3. /\ pc'[p] = "link" /\ \A q \in Procs \ {p} : pc'[q] = pc[q]
      /\ ent' = ent /\ de' = de /\ node' = node /\ lists' = lists /\ Lists' = Lists
  BY <1>2 DEF IInv, Core, TypeOK, Lists
<1>4. dir' \in Seq(Entry) /\ dir' = <<x>> \o dir /\ x \notin ToSet(dir)
  <2>1. dir' = <<x>> \o dir /\ dir \in Seq(Entry)
    BY <1>1 DEF x, IInv, Core, TypeOK
  <2>2. x \notin ToSet(dir)
    BY <1>1, <1>2
  <2> QED BY <1>2, <2>1, <2>2
<1>5. TypeOK'
  <2>1. clash' \in BOOLEAN
    BY <1>1 DEF IInv, Core, TypeOK
  <2> QED BY <1>2, <1>3, <1>4, <2>1, MultilistAssumption DEF IInv, Core, TypeOK, Creating, Removing
<1>6. \A q \in Procs, f \in Addr : Owns(q, f)' <=> Owns(q, f)
  BY <1>2, <1>3 DEF Owns, Creating, Removing
<1>7. ASSUME NEW q \in Procs PROVE Stage(q)'
  BY <1>2, <1>3 DEF IInv, Core, Stage, Creating, Removing, Waiting, InUse
<1>8. Core'
  BY <1>3, <1>5, <1>6, <1>7 DEF IInv, Core, Once
<1>9. ASSUME ~clash' PROVE Orderly'
  <2>1. Orderly /\ InDir(node[e].name) = {}
    BY <1>1, <1>9 DEF IInv, Core, TypeOK
  <2>2. Once(dir') /\ Dir' = Dir \cup {x}
    <3>1. dir \in Seq(Entry) /\ Once(dir) /\ x \in Entry /\ x \notin ToSet(dir)
      BY <1>2, <1>4, <2>1 DEF IInv, Core, TypeOK, Orderly
    <3>2. dir' = <<x>> \o dir
      BY <1>4
    <3>3. dir' \in Seq(Entry) /\ Once(dir') /\ ToSet(dir') = ToSet(dir) \cup {x}
      BY <3>1, <3>2, HeadAdded
    <3> QED BY <3>3 DEF Dir
  <2>3. \A y \in Dir : y.name # x.name
    BY <1>2, <2>1 DEF InDir, Dir, ToSet
  <2>4. ASSUME NEW q \in Procs PROVE Place(q)'
    <3>1. Place(q)
      BY <2>1 DEF Orderly
    <3>2. CASE q = p
      BY <1>2, <1>3, <2>2, <3>2 DEF Place, Removing, Waiting
    <3>3. CASE q # p
      <4>1. pc[q] \in Creating \cup Removing => ent[q] # e
        BY <1>2, <3>3 DEF IInv, Core, Owns
      <4>2. pc[q] \in {"register", "fail"} \cup (Removing \ {"unregister"}) =>
              \A y \in Dir' : y.node # ent[q]
        BY <1>2, <2>2, <3>1, <4>1 DEF Place, Creating, Removing
      <4>3. pc[q] \in {"link", "unregister"} => \E y \in Dir' : y.node = ent[q]
        BY <2>2, <3>1 DEF Place
      <4>4. pc[q] \in {"read", "write"} =>
              de[q] \in Dir' \/ \E r \in Procs : pc'[r] \in Waiting /\ de'[r] = de[q]
        BY <1>2, <1>3, <2>2, <3>1 DEF Place, Waiting
      <4> QED BY <1>3, <3>1, <3>3, <4>2, <4>3, <4>4 DEF Place
    <3> QED BY <3>2, <3>3
  <2>5. \A f \in Addr : node[f].live /\ (\A q \in Procs : ~Owns(q, f)) =>
          \E y \in Dir' : y.node = f
    BY <2>1, <2>2 DEF Orderly
  <2>6. \A y \in Dir' : node[y.node].live /\ node[y.node].name = y.name
    BY <1>2, <2>1, <2>2 DEF Orderly
  <2>7. \A y, z \in Dir' : y.name = z.name => y = z
    BY <2>1, <2>2, <2>3 DEF Orderly
  <2> QED BY <1>3, <1>6, <2>2, <2>4, <2>5, <2>6, <2>7 DEF Orderly
<1> QED BY <1>8, <1>9 DEF IInv

\* vfree() leaves a node that is not live.
LEMMA FreedNode ==
  ASSUME NEW nd \in Node
  PROVE  Freed(nd) \in Node /\ Freed(nd).live = FALSE
BY DEF Freed, Node

\* vfree() by the owner of a node that is in neither list.
LEMMA FreedStep ==
  ASSUME IInv, NEW p \in Procs, pc[p] \in {"fail", "free"},
         node' = [node EXCEPT ![ent[p]] = Freed(@)], Return(p),
         UNCHANGED <<lists, dir, clash>>, sp_lists' \in {sp_lists, Leaked},
         pc[p] = "fail" => sp_lists' = Leaked
  PROVE  IInv'
<1> USE DEF Return, Goto
<1> DEFINE e == ent[p]
<1>1. Lists' = Lists /\ Dir' = Dir /\ Lists \subseteq Addr /\ Dir \subseteq Entry
  BY DEF IInv, Core, TypeOK, Lists, Dir, ToSet
<1>2. e \in Addr /\ e \notin Lists /\ Owns(p, e)
  <2>1. e \in Addr
    BY MultilistAssumption DEF IInv, Core, TypeOK
  <2> QED BY <2>1 DEF IInv, Core, Stage, Owns, Creating, Removing
<1>3. /\ pc'[p] = "idle" /\ ent'[p] = NULL /\ de'[p] = NULL
      /\ \A q \in Procs \ {p} : pc'[q] = pc[q] /\ ent'[q] = ent[q] /\ de'[q] = de[q]
  BY DEF IInv, Core, TypeOK
<1>4. /\ node' \in [Addr -> Node] /\ ~node'[e].live
      /\ \A f \in Addr \ {e} : node'[f] = node[f]
  <2>1. node \in [Addr -> Node] /\ node' = [node EXCEPT ![e] = Freed(node[e])]
    BY DEF IInv, Core, TypeOK, Node
  <2> HIDE DEF e
  <2>2. Freed(node[e]) \in Node /\ Freed(node[e]).live = FALSE
    BY <1>2, <2>1, FreedNode
  <2> QED BY <1>2, <2>1, <2>2
<1>5. TypeOK'
  <2>1. sp_lists' \in {Free, Leaked} \cup Procs /\ sp_lists' # p
    BY MultilistAssumption DEF IInv, Core, TypeOK
  <2>2. \A q \in Procs : sp_lists' = q => sp_lists = q
    BY MultilistAssumption
  <2> QED BY <1>3, <1>4, <2>1, <2>2, MultilistAssumption
       DEF IInv, Core, TypeOK, Node, Creating, Removing
<1>6. \A q \in Procs, f \in Addr : Owns(q, f)' <=> Owns(q, f) /\ q # p
  BY <1>3 DEF Owns, Creating, Removing
<1>7. \A q \in Procs \ {p} : pc[q] \in Creating \cup Removing => ent[q] \in Addr \ {e}
  <2>1. \A q \in Procs \ {p} : pc[q] \in Creating \cup Removing => ent[q] # e
    BY <1>2 DEF IInv, Core, Owns
  <2> QED BY <2>1, MultilistAssumption DEF IInv, Core, TypeOK, Creating, Removing
<1>8. ASSUME NEW q \in Procs PROVE Stage(q)'
  <2>1. CASE q = p
    BY <1>3, <2>1 DEF Stage, Creating, Removing, Waiting, InUse
  <2>2. CASE q # p
    BY <1>1, <1>3, <1>4, <1>7, <2>2 DEF IInv, Core, Stage
  <2> QED BY <2>1, <2>2
<1>9. Core'
  <2>1. \A f \in Lists : node'[f].live
    BY <1>1, <1>2, <1>4 DEF IInv, Core
  <2>2. \A f \in Addr : node'[f].live /\ (\A q \in Procs : ~Owns(q, f)') =>
          f \in Lists /\ ~node'[f].marked
    <3> SUFFICES ASSUME NEW f \in Addr, node'[f].live, \A q \in Procs : ~Owns(q, f)'
                 PROVE  f \in Lists /\ ~node'[f].marked
      OBVIOUS
    <3>1. f # e /\ node'[f] = node[f]
      BY <1>4
    <3>2. \A q \in Procs : ~Owns(q, f)
      BY <1>6, <3>1 DEF Owns
    <3> QED BY <3>1, <3>2 DEF IInv, Core
  <2> QED BY <1>1, <1>5, <1>6, <1>8, <2>1, <2>2 DEF IInv, Core, Once
<1>10. ASSUME ~clash PROVE Orderly'
  <2>1. Orderly /\ \A x \in Dir : x.node \in Addr \ {e}
    BY <1>1, <1>10 DEF IInv, Orderly, Place, Removing, Entry
  <2>2. ASSUME NEW q \in Procs PROVE Place(q)'
    <3>1. CASE q = p
      BY <1>3, <3>1 DEF Place, Removing, Waiting
    <3>2. CASE q # p
      BY <1>1, <1>3, <2>1, <3>2 DEF Orderly, Place, Removing, Waiting
    <3> QED BY <3>1, <3>2
  <2>3. \A f \in Addr : node'[f].live /\ (\A q \in Procs : ~Owns(q, f)') =>
          \E x \in Dir : x.node = f
    <3> SUFFICES ASSUME NEW f \in Addr, node'[f].live, \A q \in Procs : ~Owns(q, f)'
                 PROVE  \E x \in Dir : x.node = f
      OBVIOUS
    <3>1. f # e /\ node'[f] = node[f]
      BY <1>4
    <3>2. \A q \in Procs : ~Owns(q, f)
      BY <1>6, <3>1 DEF Owns
    <3> QED BY <2>1, <3>1, <3>2 DEF Orderly
  <2> QED BY <1>1, <1>4, <2>1, <2>2, <2>3 DEF Orderly, Once
<1> QED BY <1>9, <1>10 DEF IInv

\* The failure path of control_create frees a node nobody else has seen.
LEMMA FailCreateStep == ASSUME IInv, NEW p \in Procs, FailCreate(p) PROVE IInv'
BY FreedStep DEF FailCreate

\* vfree() of a list that has been removed.
LEMMA FreeStep == ASSUME IInv, NEW p \in Procs, FreeNode(p) PROVE IInv'
BY FreedStep DEF FreeNode

\* list_add_tail(): the list is created.
LEMMA LinkStep == ASSUME IInv, NEW p \in Procs, Link(p) PROVE IInv'
<1> USE DEF Link, Return, Goto
<1> DEFINE e == ent[p]
<1>1. /\ pc[p] = "link" /\ e \in Addr /\ e \notin Lists /\ Owns(p, e)
      /\ node[e].live /\ ~node[e].marked
  <2>1. pc[p] = "link" /\ e \in Addr
    BY MultilistAssumption DEF IInv, Core, TypeOK
  <2> QED BY <2>1 DEF IInv, Core, Stage, Owns, Creating, Removing
<1>2. lists' \in Seq(Addr) /\ Once(lists') /\ Lists' = Lists \cup {e}
  <2>1. lists \in Seq(Addr) /\ Once(lists) /\ e \notin ToSet(lists) /\ lists' = Append(lists, e)
    BY <1>1 DEF IInv, Core, TypeOK, Lists
  <2> HIDE DEF e
  <2>2. lists' \in Seq(Addr) /\ Once(lists') /\ ToSet(lists') = ToSet(lists) \cup {e}
    BY <1>1, <2>1, TailAdded
  <2> QED BY <2>2 DEF Lists
<1>3. /\ pc'[p] = "idle" /\ ent'[p] = NULL /\ de'[p] = NULL
      /\ \A q \in Procs \ {p} : pc'[q] = pc[q] /\ ent'[q] = ent[q] /\ de'[q] = de[q]
      /\ node' = node /\ dir' = dir /\ Dir' = Dir
  BY DEF IInv, Core, TypeOK, Dir
<1>4. TypeOK'
  BY <1>2, <1>3, MultilistAssumption DEF IInv, Core, TypeOK, Creating, Removing
<1>5. \A q \in Procs, f \in Addr : Owns(q, f)' <=> Owns(q, f) /\ q # p
  BY <1>3 DEF Owns, Creating, Removing
<1>6. \A q \in Procs \ {p} : pc[q] \in Creating \cup Removing => ent[q] \in Addr \ {e}
  <2>1. \A q \in Procs \ {p} : pc[q] \in Creating \cup Removing => ent[q] # e
    BY <1>1 DEF IInv, Core, Owns
  <2> QED BY <2>1, MultilistAssumption DEF IInv, Core, TypeOK, Creating, Removing
<1>7. ASSUME NEW q \in Procs PROVE Stage(q)'
  <2>1. CASE q = p
    BY <1>3, <2>1 DEF Stage, Creating, Removing, Waiting, InUse
  <2>2. CASE q # p
    <3>1. Stage(q)
      BY DEF IInv, Core
    <3>2. pc[q] \in Creating \cup Removing => (ent[q] \in Lists' <=> ent[q] \in Lists)
      BY <1>2, <1>6, <2>2
    <3> QED BY <1>3, <2>2, <3>1, <3>2 DEF Stage, Creating, Removing, Waiting
  <2> QED BY <2>1, <2>2
<1>8. Core'
  <2>1. \A f \in Lists' : node'[f].live
    BY <1>1, <1>2, <1>3 DEF IInv, Core
  <2>2. \A f \in Addr : node'[f].live /\ (\A q \in Procs : ~Owns(q, f)') =>
          f \in Lists' /\ ~node'[f].marked
    <3> SUFFICES ASSUME NEW f \in Addr, node[f].live, \A q \in Procs : ~Owns(q, f)'
                 PROVE  f \in Lists' /\ ~node[f].marked
      BY <1>3
    <3>1. CASE f = e
      BY <1>1, <1>2, <3>1
    <3>2. CASE f # e
      <4>1. \A q \in Procs : ~Owns(q, f)
        BY <1>5, <3>2 DEF Owns
      <4> QED BY <1>2, <4>1 DEF IInv, Core
    <3> QED BY <3>1, <3>2
  <2> QED BY <1>2, <1>4, <1>5, <1>7, <2>1, <2>2 DEF IInv, Core
<1>9. ASSUME ~clash PROVE Orderly'
  <2>1. Orderly
    BY <1>9 DEF IInv
  <2>2. ASSUME NEW q \in Procs PROVE Place(q)'
    <3>1. CASE q = p
      BY <1>3, <3>1 DEF Place, Removing, Waiting
    <3>2. CASE q # p
      BY <1>1, <1>3, <2>1, <3>2 DEF Orderly, Place, Removing, Waiting
    <3> QED BY <3>1, <3>2
  <2>3. \A f \in Addr : node'[f].live /\ (\A q \in Procs : ~Owns(q, f)') =>
          \E x \in Dir : x.node = f
    <3> SUFFICES ASSUME NEW f \in Addr, node[f].live, \A q \in Procs : ~Owns(q, f)'
                 PROVE  \E x \in Dir : x.node = f
      BY <1>3
    <3>1. CASE f = e
      BY <1>1, <2>1, <3>1 DEF Orderly, Place
    <3>2. CASE f # e
      <4>1. \A q \in Procs : ~Owns(q, f)
        BY <1>5, <3>2 DEF Owns
      <4> QED BY <2>1, <4>1 DEF Orderly
    <3> QED BY <3>1, <3>2
  <2> QED BY <1>3, <2>1, <2>2, <2>3 DEF Orderly
<1> QED BY <1>8, <1>9 DEF IInv

\* list_del(): the owner takes its list out of the list of lists.
LEMMA UnlinkStep == ASSUME IInv, NEW p \in Procs, Unlink(p) PROVE IInv'
<1> USE DEF Unlink, Goto
<1> DEFINE e == ent[p]
<1>1. pc[p] = "unlink" /\ e \in Addr /\ e \in Lists /\ Owns(p, e)
  <2>1. pc[p] = "unlink" /\ e \in Addr
    BY MultilistAssumption DEF IInv, Core, TypeOK
  <2> QED BY <2>1 DEF IInv, Core, Stage, Owns, Removing
<1>2. PICK i \in DOMAIN lists : lists[i] = e /\ lists' = RemoveAt(lists, i)
  OBVIOUS
<1>3. lists' \in Seq(Addr) /\ Once(lists') /\ Lists' = Lists \ {e}
  <2>1. lists \in Seq(Addr) /\ Once(lists) /\ i \in 1..Len(lists)
    BY <1>2 DEF IInv, Core, TypeOK
  <2>2. lists' \in Seq(Addr) /\ Once(lists') /\ ToSet(lists') = ToSet(lists) \ {lists[i]}
    BY <1>2, <2>1, TakenOut
  <2> QED BY <1>2, <2>2 DEF Lists
<1>4. /\ pc'[p] = "drain" /\ \A q \in Procs \ {p} : pc'[q] = pc[q]
      /\ node' = node /\ ent' = ent /\ de' = de /\ dir' = dir /\ Dir' = Dir /\ sp_lists' = Free
  BY DEF IInv, Core, TypeOK, Dir
<1>5. TypeOK'
  BY <1>1, <1>3, <1>4, MultilistAssumption DEF IInv, Core, TypeOK, Creating, Removing
<1>6. \A q \in Procs, f \in Addr : Owns(q, f)' <=> Owns(q, f)
  BY <1>1, <1>4 DEF Owns, Creating, Removing
<1>7. \A q \in Procs \ {p} : pc[q] \in Creating \cup Removing => ent[q] # e
  BY <1>1 DEF IInv, Core, Owns
<1>8. ASSUME NEW q \in Procs PROVE Stage(q)'
  <2>1. Stage(q)
    BY DEF IInv, Core
  <2>2. CASE q = p
    BY <1>1, <1>3, <1>4, <2>1, <2>2 DEF Stage, Creating, Removing, Waiting, InUse
  <2>3. CASE q # p
    BY <1>3, <1>4, <1>7, <2>1, <2>3 DEF Stage, Creating, Removing, Waiting
  <2> QED BY <2>2, <2>3
<1>9. Core'
  <2>1. \A f \in Addr : node'[f].live /\ (\A q \in Procs : ~Owns(q, f)') =>
          f \in Lists' /\ ~node'[f].marked
    BY <1>1, <1>3, <1>4, <1>6 DEF IInv, Core
  <2> QED BY <1>3, <1>4, <1>5, <1>6, <1>8, <2>1 DEF IInv, Core
<1>10. ASSUME ~clash PROVE Orderly'
  <2>1. Orderly
    BY <1>10 DEF IInv
  <2>2. ASSUME NEW q \in Procs PROVE Place(q)'
    <3>1. pc[p] \notin Waiting /\ pc'[p] \notin {"link", "unregister", "read", "write", "oops"} \cup Waiting
      BY <1>1, <1>4 DEF Waiting
    <3>2. Place(q)
      BY <2>1 DEF Orderly
    <3>3. CASE q = p
      BY <1>1, <1>4, <3>1, <3>2, <3>3 DEF Place, Removing
    <3>4. CASE q # p
      BY <1>4, <3>1, <3>2, <3>4 DEF Place
    <3> QED BY <3>3, <3>4
  <2> QED BY <1>4, <1>6, <2>1, <2>2 DEF Orderly
<1> QED BY <1>9, <1>10 DEF IInv

\* control_remove marks the first list of that name, which nobody owns.
LEMMA FoundStep == ASSUME IInv, NEW p \in Procs, Found(p) PROVE IInv'
<1> USE DEF Found, Goto
<1>1. PICK n \in Names :
        LET found == lists[Min(InLists(n))] IN
        /\ pc[p] = "find" /\ sp_lists = p /\ InLists(n) # {}
        /\ IF node[found].marked
           THEN pc' = [pc EXCEPT ![p] = "idle"] /\ UNCHANGED <<node, ent>>
           ELSE /\ node' = [node EXCEPT ![found].marked = TRUE]
                /\ ent' = [ent EXCEPT ![p] = found]
                /\ pc' = [pc EXCEPT ![p] = "unregister"]
        /\ sp_lists' = Free
        /\ UNCHANGED <<lists, dir, de, clash>>
  BY Zenon
<1> DEFINE e == lists[Min(InLists(n))]
<1>2. e \in Lists /\ e \in Addr /\ node[e].live
  <2>1. Min(InLists(n)) \in DOMAIN lists
    <3>1. InLists(n) \subseteq Nat /\ InLists(n) \subseteq DOMAIN lists
      BY DEF InLists, IInv, Core, TypeOK
    <3> QED BY <1>1, <3>1, MinIsIn
  <2>2. e \in Lists /\ e \in Addr
    BY <2>1 DEF IInv, Core, TypeOK, Lists, ToSet
  <2> QED BY <2>2 DEF IInv, Core
<1> HIDE DEF e
<1>3. /\ Lists' = Lists /\ Dir' = Dir /\ lists' = lists /\ dir' = dir /\ de' = de
      /\ clash' = clash /\ pc[p] = "find" /\ sp_lists' = Free
  BY <1>1 DEF Lists, Dir
<1>4. CASE node[e].marked
  <2>1. pc' = [pc EXCEPT ![p] = "idle"] /\ node' = node /\ ent' = ent
    BY <1>1, <1>4 DEF e
  <2>2. pc'[p] = "idle" /\ \A q \in Procs \ {p} : pc'[q] = pc[q]
    BY <2>1 DEF IInv, Core, TypeOK
  <2>3. TypeOK'
    BY <1>3, <2>1, <2>2, MultilistAssumption DEF IInv, Core, TypeOK, Creating, Removing
  <2>4. Same(p) /\ Keeps(p)
    BY <1>3, <2>1, <2>2 DEF Same, Keeps, Creating, Removing, Waiting
  <2>5. Stage(p)' /\ Place(p)'
    BY <2>2 DEF Stage, Place, Creating, Removing, Waiting, InUse
  <2> QED BY <2>3, <2>4, <2>5, MoveStep
<1>5. CASE ~node[e].marked
  <2>1. /\ pc' = [pc EXCEPT ![p] = "unregister"] /\ node' = [node EXCEPT ![e].marked = TRUE]
        /\ ent' = [ent EXCEPT ![p] = e]
    BY <1>1, <1>5 DEF e
  <2>2. /\ pc'[p] = "unregister" /\ ent'[p] = e
        /\ \A q \in Procs \ {p} : pc'[q] = pc[q] /\ ent'[q] = ent[q]
    BY <2>1 DEF IInv, Core, TypeOK
  <2>3. /\ node' \in [Addr -> Node] /\ node'[e].marked = TRUE
        /\ \A f \in Addr \ {e} : node'[f] = node[f]
        /\ \A f \in Addr : node'[f].live = node[f].live /\ node'[f].name = node[f].name
    <3>1. node \in [Addr -> Node]
      BY DEF IInv, Core, TypeOK, Node
    <3>2. e \in Addr /\ node' = [node EXCEPT ![e] = [@ EXCEPT !.marked = TRUE]]
      BY <1>2, <2>1
    <3>3. [node[e] EXCEPT !.marked = TRUE] \in Node
      BY <3>1, <3>2, MarkedNode
    <3>4. /\ [node[e] EXCEPT !.marked = TRUE].marked = TRUE
          /\ [node[e] EXCEPT !.marked = TRUE].live = node[e].live
          /\ [node[e] EXCEPT !.marked = TRUE].name = node[e].name
      BY <3>1, <3>2, MarkedNode
    <3>5. /\ node'[e] = [node[e] EXCEPT !.marked = TRUE]
          /\ \A f \in Addr \ {e} : node'[f] = node[f]
      BY <3>1, <3>2
    <3>6. node' \in [Addr -> Node]
      BY <3>1, <3>2, <3>3
    <3> QED BY <3>4, <3>5, <3>6
  <2>4. \A q \in Procs : pc[q] \in Creating \cup Removing => ent[q] # e
    <3>1. \A q \in Procs : pc[q] \in Creating => ent[q] \notin Lists
      BY DEF IInv, Core, Stage
    <3>2. \A q \in Procs : pc[q] \in Removing => node[ent[q]].marked
      BY DEF IInv, Core, Stage
    <3> QED BY <1>2, <1>5, <3>1, <3>2
  <2>5. TypeOK'
    <3>1. /\ node' \in [Addr -> [live : BOOLEAN, name : Names, marked : BOOLEAN,
                               items : SUBSET Data]]
          /\ lists' \in Seq(Addr) /\ dir' \in Seq(Entry) /\ clash' \in BOOLEAN
      BY <1>3, <2>3 DEF IInv, Core, TypeOK, Node
    <3>2. /\ pc' \in [Procs -> {"idle", "find", "read", "write", "oops"} \cup Creating \cup Removing]
          /\ ent' \in [Procs -> Addr \cup {NULL}] /\ de' \in [Procs -> Entry \cup {NULL}]
      BY <1>2, <1>3, <2>1 DEF IInv, Core, TypeOK, Removing
    <3>3. ASSUME NEW q \in Procs
          PROVE  /\ pc'[q] \in {"idle", "find"} <=> ent'[q] = NULL
                 /\ pc'[q] \in {"read", "write", "oops", "closing", "rundown"} <=> de'[q] # NULL
      BY <1>2, <1>3, <2>2, MultilistAssumption DEF IInv, Core, TypeOK
    <3> QED BY <1>3, <3>1, <3>2, <3>3, MultilistAssumption DEF TypeOK
  <2>6. \A q \in Procs, f \in Addr : Owns(q, f)' <=> Owns(q, f) \/ (q = p /\ f = e)
    BY <1>3, <2>2 DEF Owns, Creating, Removing
  <2>7. ASSUME NEW q \in Procs PROVE Stage(q)'
    <3>1. CASE q = p
      BY <1>2, <1>3, <2>2, <2>3, <3>1 DEF Stage, Creating, Removing, Waiting, InUse
    <3>2. CASE q # p
      <4>1. pc[q] \in Creating \cup Removing => ent[q] \in Addr \ {e}
        BY <2>4 DEF IInv, Core, TypeOK, Creating, Removing
      <4> QED BY <1>3, <2>2, <2>3, <3>2, <4>1 DEF IInv, Core, Stage
    <3> QED BY <3>1, <3>2
  <2>8. Core'
    <3>1. \A f \in Lists' : node'[f].live
      <4>1. Lists \subseteq Addr
        BY DEF IInv, Core, TypeOK, Lists, ToSet
      <4> QED BY <1>3, <2>3, <4>1 DEF IInv, Core
    <3>2. \A q, r \in Procs : \A f \in Addr : Owns(q, f)' /\ Owns(r, f)' => q = r
      BY <2>4, <2>6 DEF IInv, Core, Owns
    <3>3. \A f \in Addr : node'[f].live /\ (\A q \in Procs : ~Owns(q, f)') =>
            f \in Lists' /\ ~node'[f].marked
      <4> SUFFICES ASSUME NEW f \in Addr, node'[f].live, \A q \in Procs : ~Owns(q, f)'
                   PROVE  f \in Lists' /\ ~node'[f].marked
        OBVIOUS
      <4>1. f # e /\ \A q \in Procs : ~Owns(q, f)
        BY <2>6
      <4> QED BY <1>3, <2>3, <4>1 DEF IInv, Core
    <3>4. Once(lists')
      BY <1>3 DEF IInv, Core
    <3> QED BY <2>5, <2>7, <3>1, <3>2, <3>3, <3>4 DEF Core
  <2>9. ASSUME ~clash PROVE Orderly'
    <3>1. Orderly
      BY <2>9 DEF IInv
    <3>2. \A x \in Dir : x.node \in Addr
      <4>1. Dir \subseteq Entry
        BY DEF IInv, Core, TypeOK, Dir, ToSet
      <4> QED BY <4>1 DEF Entry
    <3>3. \E x \in Dir : x.node = e
      BY <1>2, <2>4, <3>1 DEF Orderly, Owns
    <3>4. ASSUME NEW q \in Procs PROVE Place(q)'
      <4>1. CASE q = p
        BY <1>3, <2>2, <3>3, <4>1 DEF Place, Removing, Waiting
      <4>2. CASE q # p
        <5>1. Place(q)
          BY <3>1 DEF Orderly
        <5>2. \A r \in Procs : pc[r] \in Waiting => pc'[r] = pc[r]
          BY <1>3, <2>2 DEF Waiting
        <5> QED BY <1>3, <2>2, <4>2, <5>1, <5>2 DEF Place
      <4> QED BY <4>1, <4>2
    <3>5. \A f \in Addr : node'[f].live /\ (\A q \in Procs : ~Owns(q, f)') =>
            \E x \in Dir : x.node = f
      BY <2>3, <2>6, <3>1 DEF Orderly
    <3> QED BY <1>3, <2>3, <3>1, <3>2, <3>4, <3>5 DEF Orderly
  <2> QED BY <1>3, <2>8, <2>9 DEF IInv
<1> QED BY <1>4, <1>5

\* procfs takes an entry out of the directory: the caller's own, as no other
\* has its name, as long as no name has been registered twice.
LEMMA UnregisterStep == ASSUME IInv, NEW p \in Procs, Unregister(p) PROVE IInv'
<1> USE DEF Unregister, Goto
<1> DEFINE e == ent[p]
           n == node[e].name
           i == Min(InDir(n))
<1>1. pc[p] = "unregister" /\ e \in Addr /\ e \in Lists /\ Owns(p, e) /\ node[e].live /\ node[e].marked
  <2>1. pc[p] = "unregister" /\ e \in Addr
    BY MultilistAssumption DEF IInv, Core, TypeOK
  <2> QED BY <2>1 DEF IInv, Core, Stage, Owns, Removing
<1>2. /\ node' = node /\ lists' = lists /\ Lists' = Lists /\ sp_lists' = sp_lists /\ ent' = ent
      /\ clash' = clash
  BY DEF Lists
<1>3. ~clash => \E k \in InDir(n) : dir[k].node = e
  <2> SUFFICES ASSUME ~clash PROVE \E k \in InDir(n) : dir[k].node = e
    OBVIOUS
  <2>1. PICK x \in Dir : x.node = e /\ x.name = n
    BY <1>1 DEF IInv, Orderly, Place
  <2>2. PICK k \in DOMAIN dir : dir[k] = x
    BY DEF Dir, ToSet
  <2> QED BY <2>1, <2>2 DEF InDir
<1>4. CASE InDir(n) = {}
  <2>1. pc'[p] = "unlink" /\ dir' = dir /\ de' = de /\ \A q \in Procs \ {p} : pc'[q] = pc[q]
    BY <1>4 DEF IInv, Core, TypeOK
  <2>2. clash
    BY <1>3, <1>4 DEF IInv, Core, TypeOK
  <2>3. TypeOK'
    BY <1>1, <1>2, <1>4, <2>1, MultilistAssumption, SMTT(60) DEF IInv, Core, TypeOK, Creating, Removing
  <2>4. Same(p) /\ Keeps(p)
    BY <1>1, <1>2, <2>1 DEF Same, Keeps, Creating, Removing, Waiting
  <2>5. Stage(p)'
    BY <1>1, <1>2, <2>1 DEF Stage, Creating, Removing, Waiting, InUse
  <2> QED BY <2>2, <2>3, <2>4, <2>5, MoveStep
<1>5. CASE InDir(n) # {}
  <2>1. i \in 1..Len(dir) /\ dir[i] \in Dir /\ dir[i] \in Entry /\ dir[i].name = n
    <3>1. InDir(n) \subseteq Nat /\ DOMAIN dir = 1..Len(dir)
      BY DEF InDir, IInv, Core, TypeOK
    <3>2. i \in InDir(n)
      BY <1>5, <3>1, MinIsIn, Zenon
    <3> HIDE DEF i
    <3>3. i \in 1..Len(dir) /\ dir[i].name = n
      BY <3>1, <3>2 DEF InDir
    <3> QED BY <3>1, <3>3 DEF Dir, ToSet, IInv, Core, TypeOK
  <2> DEFINE x == dir[i]
  <2>2. de' = [de EXCEPT ![p] = x] /\ dir' = RemoveAt(dir, i) /\ pc' = [pc EXCEPT ![p] = "closing"]
    BY <1>5
  <2> HIDE DEF i
  <2>3. /\ pc'[p] = "closing" /\ de'[p] = x
        /\ \A q \in Procs \ {p} : pc'[q] = pc[q] /\ de'[q] = de[q]
    BY <2>2 DEF IInv, Core, TypeOK
  <2>4. dir' \in Seq(Entry)
    <3>1. dir \in Seq(Entry)
      BY DEF IInv, Core, TypeOK
    <3> QED BY <2>1, <2>2, <3>1, OneOut
  <2>5. TypeOK'
    BY <1>1, <1>2, <2>1, <2>2, <2>3, <2>4, MultilistAssumption
       DEF IInv, Core, TypeOK, Creating, Removing
  <2>6. \A q \in Procs, f \in Addr : Owns(q, f)' <=> Owns(q, f)
    BY <1>1, <1>2, <2>3 DEF Owns, Removing
  <2>7. ASSUME NEW q \in Procs PROVE Stage(q)'
    <3>1. CASE q = p
      BY <1>1, <1>2, <2>3, <3>1 DEF Stage, Creating, Removing, Waiting, InUse
    <3>2. CASE q # p
      BY <1>2, <2>3, <3>2 DEF IInv, Core, Stage
    <3> QED BY <3>1, <3>2
  <2>8. Core'
    BY <1>2, <2>5, <2>6, <2>7 DEF IInv, Core, Once
  <2>9. ASSUME ~clash PROVE Orderly'
    <3>1. Orderly
      BY <2>9 DEF IInv
    <3>2. x.node = e
      <4>1. PICK k \in InDir(n) : dir[k].node = e
        BY <1>3, <2>9
      <4>2. dir[k] \in Dir /\ dir[k].name = n
        BY <4>1 DEF InDir, Dir, ToSet
      <4> QED BY <2>1, <3>1, <4>1, <4>2 DEF Orderly
    <3>3. Once(dir') /\ Dir' = Dir \ {x}
      <4>1. dir \in Seq(Entry) /\ Once(dir)
        BY <3>1 DEF IInv, Core, TypeOK, Orderly
      <4>2. dir' \in Seq(Entry) /\ Once(dir') /\ ToSet(dir') = ToSet(dir) \ {dir[i]}
        BY <2>1, <2>2, <4>1, TakenOut
      <4> QED BY <4>2 DEF Dir
    <3> HIDE DEF x
    <3>4. \A y \in Dir : y.node = e => y = x
      BY <2>1, <3>1 DEF Orderly, x
    <3>5. \A q \in Procs \ {p} : pc[q] \in Creating \cup Removing => ent[q] # e
      BY <1>1 DEF IInv, Core, Owns
    <3>6. ASSUME NEW q \in Procs PROVE Place(q)'
      <4>1. CASE q = p
        BY <1>2, <2>3, <3>2, <3>3, <3>4, <4>1 DEF Place, Removing, Waiting
      <4>2. CASE q # p
        <5>1. Place(q) /\ pc'[q] = pc[q] /\ ent'[q] = ent[q] /\ de'[q] = de[q]
          BY <1>2, <2>3, <3>1, <4>2 DEF Orderly
        <5>2. pc[q] \in {"link", "unregister"} => \E y \in Dir' : y.node = ent[q]
          BY <3>2, <3>3, <3>5, <4>2, <5>1 DEF Place, Creating, Removing
        <5>3. pc[q] \in {"read", "write"} =>
                de[q] \in Dir' \/ \E r \in Procs : pc'[r] \in Waiting /\ de'[r] = de[q]
          <6> SUFFICES ASSUME pc[q] \in {"read", "write"}, de[q] \notin Dir'
                       PROVE  \E r \in Procs : pc'[r] \in Waiting /\ de'[r] = de[q]
            OBVIOUS
          <6>1. CASE de[q] = x
            BY <2>3, <6>1 DEF Waiting, x
          <6>2. CASE de[q] # x
            <7>1. PICK r \in Procs : pc[r] \in Waiting /\ de[r] = de[q]
              BY <3>3, <5>1, <6>2 DEF Place
            <7>2. r # p
              BY <1>1, <7>1 DEF Waiting
            <7> QED BY <2>3, <7>1, <7>2
          <6> QED BY <6>1, <6>2
        <5> QED BY <3>3, <5>1, <5>2, <5>3 DEF Place
      <4> QED BY <4>1, <4>2
    <3>7. \A f \in Addr : node'[f].live /\ (\A q \in Procs : ~Owns(q, f)') =>
            \E y \in Dir' : y.node = f
      <4> SUFFICES ASSUME NEW f \in Addr, node[f].live, \A q \in Procs : ~Owns(q, f)
                   PROVE  \E y \in Dir' : y.node = f
        BY <1>2, <2>6
      <4>1. f # e /\ \E y \in Dir : y.node = f
        BY <1>1, <3>1 DEF Orderly
      <4> QED BY <3>2, <3>3, <4>1
    <3> QED BY <1>2, <3>1, <3>3, <3>6, <3>7 DEF Orderly
  <2> QED BY <1>2, <2>8, <2>9 DEF IInv
<1> QED BY <1>4, <1>5

-----------------------------------------------------------------------------
(* The theorems.                                                           *)

\* Every step of every call keeps the invariant.
LEMMA Inductive == ASSUME IInv, [Next]_vars PROVE IInv'
<1>1. CASE UNCHANGED vars
  <2> USE <1>1 DEF vars
  <2>1. Core'
    BY DEF IInv, Core, TypeOK, Stage, Owns, Lists, Once
  <2>2. ~clash => Orderly'
    BY DEF IInv, Orderly, Place, Owns, Dir, Once
  <2> QED BY <2>1, <2>2 DEF IInv
<1>2. ASSUME NEW p \in Procs,
             Create(p) \/ BeginRemove(p) \/ BeginUse(p) \/ Oops(p) \/ LockLists(p) \/ Step(p)
      PROVE  IInv'
  BY <1>2, CreateStep, BeginRemoveStep, BeginUseStep, OopsStep, LockStep, RegisterStep,
     RegisterFailsStep, FailCreateStep, LinkStep, NotFoundStep, FoundStep, UnregisterStep,
     CloseStep, RundownStep, UnlinkStep, DrainStep, FreeStep, UseStep
     DEF Step
<1> QED BY <1>1, <1>2 DEF Next

\* The invariant holds throughout: what it says of the directory, as long as no
\* name has been registered twice.
THEOREM Invariance == Spec => []IInv
<1>1. IInv /\ [Next]_vars => IInv'
  BY Inductive
<1> QED BY <1>1, InitInv, PTL DEF Spec

\* A call works with a node exactly while it has one, and only a call that has
\* still to release sp_lists holds it.
THEOREM TypeCorrect == Spec => []TypeOK
<1>1. IInv => TypeOK
  BY DEF IInv, Core
<1> QED BY <1>1, Invariance, PTL

\* As long as no name has been registered twice, whatever a call uses, the list
\* of lists links or an open would reach is allocated.
THEOREM UsedNodesLiveSafe == Spec => []UsedNodesLive
<1>1. IInv => UsedNodesLive
  <2> SUFFICES ASSUME IInv, ~clash,
                      NEW e \in Lists \cup {x.node : x \in Dir} \cup ({ent[p] : p \in Procs} \ {NULL})
               PROVE  node[e].live
    BY DEF UsedNodesLive, Lists, Dir
  <2>1. CASE e \in Lists \cup {x.node : x \in Dir}
    BY <2>1 DEF IInv, Core, Orderly
  <2>2. CASE e \notin Lists \cup {x.node : x \in Dir}
    <3>1. PICK p \in Procs : e = ent[p] /\ ent[p] # NULL
      BY <2>2
    <3>2. pc[p] \in {"read", "write", "oops"} \cup Creating \cup Removing
      BY <3>1 DEF IInv, Core, TypeOK
    <3>3. pc[p] # "oops"
      BY DEF IInv, Orderly, Place
    <3> QED BY <3>1, <3>2, <3>3, UserLive DEF IInv, Core, Stage
  <2> QED BY <2>1, <2>2
<1> QED BY <1>1, Invariance, PTL

\* No node leaks and none is freed twice, whatever names are registered: an
\* allocated one is linked or has an owner, and no node has two.
THEOREM OwnedByOneSafe == Spec => []OwnedByOne
<1>1. IInv => OwnedByOne
  BY DEF IInv, Core, OwnedByOne, Lists
<1> QED BY <1>1, Invariance, PTL

\* Between calls, as long as no name has been registered twice, the list of
\* lists and the directory agree: the same lists, each once, under different
\* names, none of them marked.
THEOREM QuietConsistentSafe == Spec => []QuietConsistent
<1>1. IInv => QuietConsistent
  <2> SUFFICES ASSUME IInv, Quiet, ~clash PROVE QuietConsistent
    BY DEF QuietConsistent
  <2>1. \A e \in Addr, p \in Procs : ~Owns(p, e)
    BY DEF Quiet, Owns, Creating, Removing
  <2>2. Lists \subseteq Addr /\ \A x \in Dir : x.node \in Addr
    <3>1. Lists \subseteq Addr /\ Dir \subseteq Entry
      BY DEF IInv, Core, TypeOK, Lists, Dir, ToSet
    <3> QED BY <3>1 DEF Entry
  <2>3. \A e \in Lists : (\E x \in Dir : x.node = e) /\ ~node[e].marked
    BY <2>1, <2>2 DEF IInv, Core, Orderly
  <2>4. \A x \in Dir : x.node \in Lists
    BY <2>1, <2>2 DEF IInv, Core, Orderly
  <2>5. ASSUME NEW i \in DOMAIN lists, NEW j \in DOMAIN lists,
               node[lists[i]].name = node[lists[j]].name
        PROVE  i = j
    <3>1. lists[i] \in Lists /\ lists[j] \in Lists
      BY DEF Lists, ToSet
    <3>2. PICK x \in Dir, y \in Dir : x.node = lists[i] /\ y.node = lists[j]
      BY <2>3, <3>1
    <3>3. x = y
      BY <2>5, <3>2 DEF IInv, Orderly
    <3>4. lists[i] = lists[j]
      BY <3>2, <3>3
    <3> QED BY <3>4 DEF IInv, Core, Once
  <2>6. Lists = {x.node : x \in Dir}
    BY <2>3, <2>4
  <2> QED BY <2>3, <2>5, <2>6 DEF QuietConsistent, Lists, Dir
<1> QED BY <1>1, Invariance, PTL

\* control_remove, which names the entry it takes out of the directory, finds
\* and takes out its own, as long as no name has been registered twice.
THEOREM OwnEntryRemovedSafe == Spec => []OwnEntryRemoved
<1>1. IInv => OwnEntryRemoved
  <2> SUFFICES ASSUME IInv, ~clash, NEW p \in Procs
               PROVE  /\ pc[p] \in {"closing", "rundown"} => de[p].node = ent[p]
                      /\ pc[p] = "unregister" => InDir(node[ent[p]].name) # {}
    BY DEF OwnEntryRemoved
  <2>1. Orderly /\ Place(p)
    BY DEF IInv, Orderly
  <2>2. ASSUME pc[p] = "unregister" PROVE InDir(node[ent[p]].name) # {}
    <3>1. PICK x \in Dir : x.node = ent[p]
      BY <2>1, <2>2 DEF Place
    <3>2. PICK k \in DOMAIN dir : dir[k] = x
      BY DEF Dir, ToSet
    <3> QED BY <2>1, <3>1, <3>2 DEF InDir, Orderly
  <2> QED BY <2>1, <2>2 DEF Place, Waiting
<1> QED BY <1>1, Invariance, PTL

=============================================================================
