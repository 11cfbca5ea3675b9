---------------------------- MODULE BlinkProofs -----------------------------
(***************************************************************************)
(* The life of a usb_blink structure in blinkdrv.c: its reference count is *)
(* exact, no open takes a reference to a freed one, nor to one whose minor *)
(* has been given back, for any strips, minors, addresses and processes.   *)
(***************************************************************************)
EXTENDS Blink, SharedLemmas

\* Where the core's table has an entry for the interface.
Listed == {"exposed", "bound", "deregister"}

\* An open under way has found an interface: either the one that has its
\* minor, or one being disconnected, whose stale number it matched, and which
\* may have got as far as being probed again.
Reaches(i, m) ==
  \/ ifc[i] \in {"hidden", "drop", "unbound", "register"}
  \/ ifc[i] \in Listed /\ minor[i] = m

\* probe and disconnect own a structure from kref_init to kref_put, and the
\* interface names it until disconnect or the error path of probe clears that.
Owners == \A i \in Ifs :
  /\ own[i] = NULL <=> ifc[i] = "unbound"
  /\ intfdata[i] = IF ifc[i] \in {"register", "exposed", "refused", "bound"}
                   THEN own[i] ELSE NULL

\* The entries of the table are told apart by their minors.
Numbers ==
  /\ \A i \in Ifs : /\ ifc[i] \in Listed => minor[i] \in exposed
                    /\ ifc[i] \in {"unbound", "register", "refused", "drop"} => minor[i] = -1
  /\ \A i, j \in Ifs : ifc[i] \in Listed /\ ifc[j] \in Listed /\ i # j => minor[i] # minor[j]

\* What blink_open knows at each of its steps.  The table stands still while
\* it is under way, which is why it never sees an interface that is refused.
Handles == \A f \in Files :
  /\ dev[f] = NULL <=> pc[f] \in {"closed", "find", "data"}
  /\ pc[f] \in {"find", "data", "get"} => wanted[f] \in exposed
  /\ pc[f] = "data" => itf[f] \in Ifs /\ Reaches(itf[f], wanted[f])
  /\ pc[f] = "get" => \E i \in Ifs :
       /\ own[i] = dev[f]
       /\ ifc[i] = "register" \/ (ifc[i] \in Listed /\ minor[i] = wanted[f])

\* An allocated structure has a udev, whether the strip is still there or not.
Driven == \A a \in Addr : kref[a] > 0 => udev[a] # NULL

LifeInv == TypeOK /\ Owners /\ Numbers /\ RefsExact /\ Handles /\ Driven

-----------------------------------------------------------------------------
(* The vocabulary.                                                         *)

\* The minor usb_register_dev gives out is a free one.
LEMMA MinIsFree ==
  Minors \ exposed # {} => Min(Minors \ exposed) \in Minors \ exposed
<1>1. Minors \ exposed \subseteq Nat
  BY BlinkAssumption
<1> QED BY <1>1, MinIsIn

\* The structure a process with the device open holds a reference to.
Held(f) == IF pc[f] \in Holding THEN dev[f] ELSE NULL

\* The two counts of RefsExact.
HeldMap == [f \in Files |-> Held(f)]
Holders(a) == CountAt(Files, {a}, HeldMap)
Possessors(a) == CountAt(Ifs, {a}, own)

\* RefsExact, told with these counts.
LEMMA RefsCounted ==
  RefsExact <=> \A a \in Addr : kref[a] = Holders(a) + Possessors(a)
<1> SUFFICES ASSUME NEW a \in Addr
             PROVE  /\ Cardinality({f \in Files : pc[f] \in Holding /\ dev[f] = a}) = Holders(a)
                    /\ Cardinality({i \in Ifs : own[i] = a}) = Possessors(a)
  BY DEF RefsExact
<1>1. {f \in Files : pc[f] \in Holding /\ dev[f] = a} = {f \in Files : HeldMap[f] \in {a}}
  BY BlinkAssumption DEF HeldMap, Held
<1>2. {i \in Ifs : own[i] = a} = {i \in Ifs : own[i] \in {a}}
  OBVIOUS
<1> QED BY <1>1, <1>2 DEF Holders, Possessors, CountAt

\* Whatever is held or owned is allocated.
LEMMA InUseAllocated ==
  ASSUME RefsExact
  PROVE  \A a \in Addr : /\ Holders(a) \in Nat /\ Possessors(a) \in Nat
                         /\ \A f \in Files : pc[f] \in Holding /\ dev[f] = a => kref[a] > 0
                         /\ \A i \in Ifs : own[i] = a => kref[a] > 0
<1> SUFFICES ASSUME NEW a \in Addr
             PROVE  /\ Holders(a) \in Nat /\ Possessors(a) \in Nat
                    /\ \A f \in Files : pc[f] \in Holding /\ dev[f] = a => kref[a] > 0
                    /\ \A i \in Ifs : own[i] = a => kref[a] > 0
  OBVIOUS
<1>1. /\ Holders(a) \in Nat /\ \A f \in Files : HeldMap[f] \in {a} => Holders(a) > 0
      /\ Possessors(a) \in Nat /\ \A i \in Ifs : own[i] \in {a} => Possessors(a) > 0
  BY BlinkAssumption, CountNat DEF Holders, Possessors
<1>2. kref[a] = Holders(a) + Possessors(a)
  BY RefsCounted
<1>3. \A f \in Files : pc[f] \in Holding /\ dev[f] = a => HeldMap[f] = a
  BY DEF HeldMap, Held
<1> HIDE DEF Holders, Possessors, HeldMap
<1> QED BY <1>1, <1>2, <1>3

\* kref_put by somebody who has a reference leaves a reference count.
LEMMA PutTyped ==
  ASSUME TypeOK, NEW a \in Addr, kref[a] > 0, KrefPut(a)
  PROVE  /\ kref' \in [Addr -> Nat] /\ udev' \in [Addr -> Ifs \cup {NULL, Dead}]
         /\ kref'[a] = kref[a] - 1
         /\ \A b \in Addr \ {a} : kref'[b] = kref[b] /\ udev'[b] = udev[b]
         /\ kref'[a] > 0 => udev'[a] = udev[a]
  BY DEF TypeOK, KrefPut

-----------------------------------------------------------------------------
(* Type correctness.                                                       *)

\* No strip is plugged and nothing is open: every table is empty.
LEMMA TypeInit == Init => TypeOK
<1> SUFFICES ASSUME Init PROVE TypeOK
  OBVIOUS
<1>1. Dark \in [Leds -> Colors] /\ 0 \in Leds
  BY BlinkAssumption DEF Dark, Leds
<1> QED BY <1>1 DEF Init, TypeOK

\* Every step keeps the types; a reference is only put by who has one.
LEMMA TypeStep ==
  ASSUME TypeOK, Owners, RefsExact, Handles, Next
  PROVE  TypeOK'
<1> USE DEF TypeOK
<1>a. \A b \in Addr : /\ \A f \in Files : pc[f] \in Holding /\ dev[f] = b => kref[b] > 0
                      /\ \A i \in Ifs : own[i] = b => kref[b] > 0
  BY InUseAllocated
<1>d. Dark \in [Leds -> Colors] /\ 0 \in Leds /\ Leds \subseteq Nat
  BY BlinkAssumption DEF Dark, Leds
<1>1. ASSUME NEW i \in Ifs, Unplug(i) \/ Plug(i) PROVE TypeOK'
  <2>1. CASE Unplug(i)
    <3>1. udev' \in [Addr -> Ifs \cup {NULL, Dead}] /\ strip' \in [Ifs -> [Leds -> Colors]]
      BY <1>d, <2>1 DEF Unplug
    <3> QED BY <2>1, <3>1 DEF Unplug, openVars
  <2>2. CASE Plug(i)
    BY <2>2 DEF Plug, ifVars, openVars, msgVars
  <2> QED BY <1>1, <2>1, <2>2
<1>2. ASSUME NEW i \in Ifs, Probe(i) PROVE TypeOK'
  BY <1>2 DEF Probe, Stage, openVars, msgVars
<1>3. ASSUME NEW i \in Ifs, UsbRegisterDev(i) PROVE TypeOK'
  <2>1. CASE Minors \ exposed = {}
    BY <1>3, <2>1 DEF UsbRegisterDev, Stage, openVars, msgVars
  <2>2. CASE Minors \ exposed # {}
    <3> DEFINE m == Min(Minors \ exposed)
    <3>1. m \in Minors \ exposed
      BY <2>2, MinIsFree
    <3>2. minor' = [minor EXCEPT ![i] = m] /\ exposed' = exposed \cup {m}
      BY <1>3, <2>2 DEF UsbRegisterDev
    <3> HIDE DEF m
    <3>3. minor' \in [Ifs -> Minors \cup {-1}] /\ exposed' \subseteq Minors
      BY <3>1, <3>2
    <3> QED BY <1>3, <2>2, <3>3 DEF UsbRegisterDev, Stage, openVars, msgVars
  <2> QED BY <2>1, <2>2
<1>4. ASSUME NEW i \in Ifs,
             CreateFails(i) \/ Probed(i) \/ Disconnect(i) \/ UsbDeregisterDev(i) \/ ForgetMinor(i)
      PROVE  TypeOK'
  BY <1>4 DEF CreateFails, Probed, Disconnect, UsbDeregisterDev, ForgetMinor,
     Stage, openVars, msgVars
<1>5. ASSUME NEW i \in Ifs, ProbeError(i) \/ Drop(i) PROVE TypeOK'
  <2>1. own[i] \in Addr
    BY <1>5 DEF ProbeError, Drop, Owners
  <2>2. kref' \in [Addr -> Nat] /\ udev' \in [Addr -> Ifs \cup {NULL, Dead}]
    BY <1>5, <1>a, <2>1, PutTyped DEF ProbeError, Drop
  <2> QED BY <1>5, <2>2 DEF ProbeError, Drop, Stage, openVars, msgVars
<1>6. ASSUME NEW f \in Files, UsbOpen(f) \/ FindInterface(f) \/ NoInterface(f) \/ GetIntfdata(f) PROVE TypeOK'
  <2>1. CASE UsbOpen(f) \/ FindInterface(f) \/ NoInterface(f)
    <3>1. pc' \in [Files -> {"closed", "find", "data", "get"} \cup Holding]
      BY <2>1 DEF UsbOpen, FindInterface, NoInterface, Goto
    <3>2. wanted' \in [Files -> Minors \cup {-1}] /\ itf' \in [Files -> Ifs \cup {NULL}]
      BY <2>1, ZenonT(40) DEF UsbOpen, FindInterface, NoInterface
    <3> QED BY <2>1, <3>1, <3>2 DEF UsbOpen, FindInterface, NoInterface, ifVars, msgVars
  <2>2. CASE GetIntfdata(f)
    <3>1. itf[f] \in Ifs
      BY <2>2 DEF GetIntfdata, Handles
    <3> QED BY <2>2, <3>1 DEF GetIntfdata, Goto, ifVars, msgVars
  <2> QED BY <1>6, <2>1, <2>2
<1>7. ASSUME NEW f \in Files, KrefGet(f) PROVE TypeOK'
  <2>1. dev[f] \in Addr /\ kref' = [kref EXCEPT ![dev[f]] = kref[dev[f]] + 1]
    BY <1>7 DEF KrefGet, Handles
  <2>2. kref' \in [Addr -> Nat]
    BY <2>1
  <2>3. wanted' \in [Files -> Minors \cup {-1}]
    BY <1>7 DEF KrefGet
  <2> QED BY <1>7, <2>2, <2>3 DEF KrefGet, Goto, Holding, msgVars
<1>8. ASSUME NEW f \in Files, Release(f) PROVE TypeOK'
  <2>1. pc[f] \in Holding /\ dev[f] \in Addr
    BY <1>8 DEF Release, Handles, Holding
  <2>3. kref[dev[f]] > 0
    BY <1>a, <2>1
  <2>2. kref' \in [Addr -> Nat] /\ udev' \in [Addr -> Ifs \cup {NULL, Dead}]
    BY <1>8, <2>1, <2>3, PutTyped DEF Release
  <2> QED BY <1>8, <2>2 DEF Release, Goto, msgVars
<1>9. ASSUME NEW f \in Files, StartWrite(f) PROVE TypeOK'
  <2>1. PICK pattern \in Patterns :
          /\ named' = [named EXCEPT ![f] = pattern]
          /\ \E c \in Parsed(pattern) : ledcolors' = [ledcolors EXCEPT ![f] = c]
    BY <1>9, Zenon DEF StartWrite
  <2>2. ledcolors' \in [Files -> [Leds -> Colors]]
    BY <2>1 DEF Parsed
  <2>3. alone' \in [Files -> BOOLEAN]
    <3> DEFINE still(g) == IF g = f THEN Writing(dev[f]) = {}
                                    ELSE alone[g] /\ g \notin Writing(dev[f])
    <3>1. alone' = [g \in Files |-> still(g)]
      BY <1>9, Zenon DEF StartWrite
    <3>2. \A g \in Files : still(g) \in BOOLEAN
      BY Zenon
    <3> HIDE DEF still
    <3> QED BY <3>1, <3>2
  <2> QED BY <1>9, <1>d, <2>1, <2>2, <2>3 DEF StartWrite, Goto, Holding, ifVars
<1>10. ASSUME NEW f \in Files, SendLed(f) PROVE TypeOK'
  <2>1. led[f] \in Leds /\ (led[f] + 1) % NR_LEDS \in Leds
    BY BlinkAssumption DEF Leds
  <2>2. strip' \in [Ifs -> [Leds -> Colors]]
    BY <1>10, <2>1, ZenonT(40) DEF SendLed
  <2> QED BY <1>10, <2>1, <2>2 DEF SendLed, Goto, Holding, ifVars
<1>11. ASSUME NEW f \in Files, SendFails(f) \/ WriteReturns(f) PROVE TypeOK'
  <2>0. WriteDone(f)
    BY <1>11 DEF SendFails, WriteReturns
  <2>1. named' \in [Files -> Patterns \cup {<<>>}] /\ alone' \in [Files -> BOOLEAN]
    BY <2>0, Zenon DEF WriteDone
  <2>2. ledcolors' \in [Files -> [Leds -> Colors]] /\ led' \in [Files -> Leds]
    BY <1>d, <2>0 DEF WriteDone
  <2> QED BY <2>0, <2>1, <2>2 DEF WriteDone, Goto, Holding, ifVars
<1> QED BY <1>1, <1>2, <1>3, <1>4, <1>5, <1>6, <1>7, <1>8, <1>9, <1>10, <1>11
        DEF Next, Open, Write

-----------------------------------------------------------------------------
(* Who owns a structure, and which entries the table of minors has.        *)

\* Each step moves an interface to the place where it owns what it says.
LEMMA OwnersStep == ASSUME TypeOK, Owners, Next PROVE Owners'
<1> USE DEF TypeOK, Owners
<1>1. CASE \E f \in Files : Open(f) \/ Release(f) \/ Write(f)
  BY <1>1 DEF Open, UsbOpen, FindInterface, NoInterface, GetIntfdata, KrefGet, Release, Write,
     StartWrite, SendLed, SendFails, WriteReturns, WriteDone, ifVars
<1>2. ASSUME NEW i \in Ifs, Unplug(i) \/ Plug(i) PROVE Owners'
  BY <1>2 DEF Unplug, Plug, ifVars
<1>3. ASSUME NEW i \in Ifs, Probe(i) PROVE Owners'
  BY <1>3, BlinkAssumption DEF Probe, Stage
<1>4. ASSUME NEW i \in Ifs, UsbRegisterDev(i) \/ CreateFails(i) \/ Probed(i) PROVE Owners'
  BY <1>4 DEF UsbRegisterDev, CreateFails, Probed, Stage
<1>5. ASSUME NEW i \in Ifs, Disconnect(i) \/ UsbDeregisterDev(i) \/ ForgetMinor(i) PROVE Owners'
  BY <1>5 DEF Disconnect, UsbDeregisterDev, ForgetMinor, Stage
<1>6. ASSUME NEW i \in Ifs, ProbeError(i) \/ Drop(i) PROVE Owners'
  BY <1>6 DEF ProbeError, Drop, Stage
<1> QED BY <1>1, <1>2, <1>3, <1>4, <1>5, <1>6 DEF Next

\* usb_register_dev gives out a free minor, and usb_deregister_dev frees it
\* before anybody else can have it.
LEMMA NumbersStep == ASSUME TypeOK, Numbers, Next PROVE Numbers'
<1> USE DEF TypeOK, Numbers, Listed
<1>1. CASE \E f \in Files : Open(f) \/ Release(f) \/ Write(f)
  BY <1>1 DEF Open, UsbOpen, FindInterface, NoInterface, GetIntfdata, KrefGet, Release, Write,
     StartWrite, SendLed, SendFails, WriteReturns, WriteDone, ifVars
<1>2. ASSUME NEW i \in Ifs, Unplug(i) \/ Plug(i) PROVE Numbers'
  BY <1>2 DEF Unplug, Plug, ifVars
<1>3. ASSUME NEW i \in Ifs, Probe(i) PROVE Numbers'
  BY <1>3 DEF Probe, Stage
<1>4. ASSUME NEW i \in Ifs, UsbRegisterDev(i) PROVE Numbers'
  <2>1. CASE Minors \ exposed = {}
    BY <1>4, <2>1 DEF UsbRegisterDev, Stage
  <2>2. CASE Minors \ exposed # {}
    <3> DEFINE m == Min(Minors \ exposed)
    <3>1. m \in Minors \ exposed
      BY <2>2, MinIsFree
    <3>2. /\ minor' = [minor EXCEPT ![i] = m] /\ exposed' = exposed \cup {m}
          /\ ifc' = [ifc EXCEPT ![i] = "exposed"]
      BY <1>4, <2>2 DEF UsbRegisterDev, Stage
    <3> HIDE DEF m
    <3> QED BY <3>1, <3>2
  <2> QED BY <2>1, <2>2
<1>5. ASSUME NEW i \in Ifs, CreateFails(i) \/ UsbDeregisterDev(i) PROVE Numbers'
  <2>1. ifc[i] \in Listed /\ exposed' = exposed \ {minor[i]}
    BY <1>5 DEF CreateFails, UsbDeregisterDev
  <2>2. /\ \A j \in Ifs \ {i} : ifc'[j] = ifc[j] /\ minor'[j] = minor[j]
        /\ \/ ifc'[i] = "refused" /\ minor'[i] = -1
           \/ ifc'[i] = "hidden"
    BY <1>5 DEF CreateFails, UsbDeregisterDev, Stage
  <2> QED BY <2>1, <2>2, ZenonT(40)
<1>6. ASSUME NEW i \in Ifs, Probed(i) \/ Disconnect(i) \/ ForgetMinor(i) PROVE Numbers'
  <2>1. CASE Probed(i)
    BY <2>1 DEF Probed, Stage
  <2>2. CASE Disconnect(i)
    BY <2>2 DEF Disconnect, Stage
  <2>3. CASE ForgetMinor(i)
    BY <2>3 DEF ForgetMinor, Stage
  <2> QED BY <1>6, <2>1, <2>2, <2>3
<1>7. ASSUME NEW i \in Ifs, ProbeError(i) \/ Drop(i) PROVE Numbers'
  BY <1>7, ZenonT(40) DEF ProbeError, Drop, Stage
<1> QED BY <1>1, <1>2, <1>3, <1>4, <1>5, <1>6, <1>7 DEF Next

-----------------------------------------------------------------------------
(* The reference counts.                                                   *)

\* What a step of one process, or of one interface, does to the counts.
LEMMA HoldersMove ==
  ASSUME NEW f \in Files, \A g \in Files \ {f} : Held(g)' = Held(g), NEW a \in Addr
  PROVE  Holders(a)' = Holders(a) + Moved(f, Files, {a}, Held(f), Held(f)')
<1> DEFINE h == HeldMap
           k == HeldMap'
<1>1. h[f] = Held(f) /\ k[f] = Held(f)' /\ \A g \in Files \ {f} : k[g] = h[g]
  BY DEF HeldMap
<1>2. CountAt(Files, {a}, k) = CountAt(Files, {a}, h) + Moved(f, Files, {a}, h[f], k[f])
  <2>1. IsFiniteSet(Files) /\ \A g \in Files \ {f} : k[g] = h[g]
    BY <1>1, BlinkAssumption
  <2> HIDE DEF h, k
  <2> QED BY <2>1, CountStep
<1> QED BY <1>1, <1>2 DEF Holders

\* The interfaces that own a, when only i changes what it owns.
LEMMA PossessorsMove ==
  ASSUME NEW i \in Ifs, \A j \in Ifs \ {i} : own'[j] = own[j], NEW a \in Addr
  PROVE  Possessors(a)' = Possessors(a) + Moved(i, Ifs, {a}, own[i], own'[i])
  BY BlinkAssumption, CountStep DEF Possessors

\* When f takes or gives back its reference and kref follows, the books agree.
LEMMA RefsMoveFile ==
  ASSUME RefsExact, NEW f \in Files, \A g \in Files \ {f} : Held(g)' = Held(g), own' = own,
         \A a \in Addr : kref[a] \in Int /\ kref'[a] = kref[a] + Moved(f, Files, {a}, Held(f), Held(f)')
  PROVE  RefsExact'
<1>1. ASSUME NEW a \in Addr PROVE kref'[a] = Holders(a)' + Possessors(a)'
  <2> DEFINE d == Moved(f, Files, {a}, Held(f), Held(f)')
             n == Holders(a)
             m == Possessors(a)
             k == kref[a]
             k2 == kref'[a]
  <2>1. /\ n \in Int /\ m \in Int /\ d \in Int /\ k \in Int
        /\ k = n + m /\ k2 = k + d
    BY RefsCounted, InUseAllocated DEF Moved, In
  <2>2. Holders(a)' = n + d /\ Possessors(a)' = m
    BY HoldersMove DEF Possessors
  <2>3. k2 = (n + d) + m
    <3> HIDE DEF n, m, d, k, k2
    <3> QED BY <2>1
  <2> QED BY <2>2, <2>3
<1>2. (RefsExact <=> \A a \in Addr : kref[a] = Holders(a) + Possessors(a))'
  BY RefsCounted, PTL
<1> QED BY <1>1, <1>2

\* The same when interface i does.
LEMMA RefsMoveInterface ==
  ASSUME RefsExact, NEW i \in Ifs, \A j \in Ifs \ {i} : own'[j] = own[j],
         \A f \in Files : Held(f)' = Held(f),
         \A a \in Addr : kref[a] \in Int /\ kref'[a] = kref[a] + Moved(i, Ifs, {a}, own[i], own'[i])
  PROVE  RefsExact'
<1>1. ASSUME NEW a \in Addr PROVE kref'[a] = Holders(a)' + Possessors(a)'
  <2> DEFINE d == Moved(i, Ifs, {a}, own[i], own'[i])
             n == Holders(a)
             m == Possessors(a)
             k == kref[a]
             k2 == kref'[a]
  <2>1. /\ n \in Int /\ m \in Int /\ d \in Int /\ k \in Int
        /\ k = n + m /\ k2 = k + d
    BY RefsCounted, InUseAllocated DEF Moved, In
  <2>2. HeldMap' = HeldMap
    BY DEF HeldMap
  <2>3. Holders(a)' = n /\ Possessors(a)' = m + d
    BY <2>2, PossessorsMove DEF Holders
  <2>4. k2 = n + (m + d)
    <3> HIDE DEF n, m, d, k, k2
    <3> QED BY <2>1
  <2> QED BY <2>3, <2>4
<1>2. (RefsExact <=> \A a \in Addr : kref[a] = Holders(a) + Possessors(a))'
  BY RefsCounted, PTL
<1> QED BY <1>1, <1>2

\* Whoever takes or gives up a reference moves kref with it.
LEMMA RefsStep == ASSUME TypeOK, Owners, Handles, RefsExact, Next PROVE RefsExact'
<1>a. \A b \in Addr : /\ \A f \in Files : pc[f] \in Holding /\ dev[f] = b => kref[b] > 0
                      /\ \A i \in Ifs : own[i] = b => kref[b] > 0
  BY InUseAllocated
<1>t. /\ kref \in [Addr -> Nat] /\ udev \in [Addr -> Ifs \cup {NULL, Dead}]
      /\ \A b \in Addr : kref[b] \in Int
      /\ own \in [Ifs -> Addr \cup {NULL}] /\ dev \in [Files -> Addr \cup {NULL}]
      /\ pc \in [Files -> {"closed", "find", "data", "get", "open", "send", "written"}]
      /\ NULL \notin Addr
  BY BlinkAssumption DEF TypeOK, Holding
<1>1. ASSUME kref' = kref, own' = own, \A f \in Files : Held(f)' = Held(f)
      PROVE  RefsExact'
  <2>1. HeldMap' = HeldMap
    BY <1>1 DEF HeldMap
  <2>2. (RefsExact <=> \A a \in Addr : kref[a] = Holders(a) + Possessors(a))'
    BY RefsCounted, PTL
  <2> QED BY <1>1, <2>1, <2>2, RefsCounted DEF Holders, Possessors
<1>2. ASSUME NEW i \in Ifs, Probe(i) PROVE RefsExact'
  <2>1. PICK a \in Addr : /\ kref[a] = 0 /\ kref' = [kref EXCEPT ![a] = 1]
                          /\ own' = [own EXCEPT ![i] = a]
    BY <1>2 DEF Probe
  <2>2. own[i] = NULL
    BY <1>2 DEF Probe, Owners
  <2>3. \A f \in Files : Held(f)' = Held(f)
    BY <1>2 DEF Probe, openVars, Held
  <2>4. own'[i] = a /\ \A j \in Ifs \ {i} : own'[j] = own[j]
    BY <1>t, <2>1
  <2>5. ASSUME NEW b \in Addr PROVE kref'[b] = kref[b] + Moved(i, Ifs, {b}, own[i], own'[i])
    <3>1. Moved(i, Ifs, {b}, own[i], own'[i]) = IF b = a THEN 1 ELSE 0
      BY <1>t, <2>2, <2>4 DEF Moved, In
    <3> QED BY <1>t, <2>1, <3>1
  <2> QED BY <1>t, <2>3, <2>4, <2>5, RefsMoveInterface
<1>3. ASSUME NEW i \in Ifs, ProbeError(i) \/ Drop(i) PROVE RefsExact'
  <2>1. own[i] \in Addr /\ KrefPut(own[i])
    BY <1>3, <1>t DEF ProbeError, Drop, Owners
  <2>2. kref[own[i]] > 0
    BY <1>a, <2>1
  <2>3. /\ own'[i] = NULL /\ \A j \in Ifs \ {i} : own'[j] = own[j]
        /\ \A f \in Files : Held(f)' = Held(f)
    BY <1>3, <1>t DEF ProbeError, Drop, openVars, Held
  <2>4. /\ kref'[own[i]] = kref[own[i]] - 1
        /\ \A b \in Addr \ {own[i]} : kref'[b] = kref[b]
    BY <2>1, <2>2, PutTyped
  <2>5. ASSUME NEW b \in Addr PROVE kref'[b] = kref[b] + Moved(i, Ifs, {b}, own[i], own'[i])
    <3>1. Moved(i, Ifs, {b}, own[i], own'[i]) = IF b = own[i] THEN -1 ELSE 0
      BY <1>t, <2>1, <2>3 DEF Moved, In
    <3> QED BY <1>t, <2>1, <2>4, <3>1
  <2> QED BY <1>t, <2>3, <2>5, RefsMoveInterface
<1>4. ASSUME NEW f \in Files, KrefGet(f) PROVE RefsExact'
  <2>1. /\ dev[f] \in Addr /\ Held(f) = NULL /\ Held(f)' = dev[f]
        /\ kref' = [kref EXCEPT ![dev[f]] = kref[dev[f]] + 1]
    BY <1>4, <1>t DEF KrefGet, Goto, Handles, Held, Holding
  <2>2. own' = own /\ \A g \in Files \ {f} : Held(g)' = Held(g)
    BY <1>4, <1>t DEF KrefGet, Goto, Held
  <2>5. ASSUME NEW b \in Addr
        PROVE  kref'[b] = kref[b] + Moved(f, Files, {b}, Held(f), Held(f)')
    <3>1. Moved(f, Files, {b}, Held(f), Held(f)') = IF b = dev[f] THEN 1 ELSE 0
      BY <1>t, <2>1 DEF Moved, In
    <3> QED BY <1>t, <2>1, <3>1
  <2> QED BY <1>t, <2>2, <2>5, RefsMoveFile
<1>5. ASSUME NEW f \in Files, Release(f) PROVE RefsExact'
  <2>1. /\ dev[f] \in Addr /\ Held(f) = dev[f] /\ Held(f)' = NULL
        /\ pc[f] \in Holding /\ KrefPut(dev[f])
    BY <1>5, <1>t DEF Release, Goto, Handles, Held, Holding
  <2>2. own' = own /\ \A g \in Files \ {f} : Held(g)' = Held(g)
    BY <1>5, <1>t DEF Release, Goto, Held
  <2>3. kref[dev[f]] > 0
    BY <1>a, <2>1
  <2>4. /\ kref'[dev[f]] = kref[dev[f]] - 1
        /\ \A b \in Addr \ {dev[f]} : kref'[b] = kref[b]
    BY <2>1, <2>3, PutTyped
  <2>5. ASSUME NEW b \in Addr
        PROVE  kref'[b] = kref[b] + Moved(f, Files, {b}, Held(f), Held(f)')
    <3>1. Moved(f, Files, {b}, Held(f), Held(f)') = IF b = dev[f] THEN -1 ELSE 0
      BY <1>t, <2>1 DEF Moved, In
    <3> QED BY <1>t, <2>1, <2>4, <3>1
  <2> QED BY <1>t, <2>2, <2>5, RefsMoveFile
<1>6. ASSUME NEW i \in Ifs,
             \/ Unplug(i) \/ Plug(i) \/ UsbRegisterDev(i) \/ CreateFails(i) \/ Probed(i)
             \/ Disconnect(i) \/ UsbDeregisterDev(i) \/ ForgetMinor(i)
      PROVE  RefsExact'
  <2>1. kref' = kref /\ own' = own /\ pc' = pc /\ dev' = dev
    BY <1>6 DEF Unplug, Plug, UsbRegisterDev, CreateFails, Probed, Disconnect,
       UsbDeregisterDev, ForgetMinor, ifVars, openVars
  <2> QED BY <1>1, <2>1 DEF Held
<1>7. ASSUME NEW f \in Files, UsbOpen(f) \/ FindInterface(f) \/ NoInterface(f) \/ GetIntfdata(f) PROVE RefsExact'
  <2>1. kref' = kref /\ own' = own /\ \A g \in Files : Held(g)' = Held(g)
    BY <1>7, <1>t DEF UsbOpen, FindInterface, NoInterface, GetIntfdata, ifVars, Goto, Held, Holding
  <2> QED BY <1>1, <2>1
<1>8. ASSUME NEW f \in Files, Write(f) PROVE RefsExact'
  <2>1. kref' = kref /\ own' = own /\ dev' = dev
    BY <1>8 DEF Write, StartWrite, SendLed, SendFails, WriteReturns, WriteDone, ifVars
  <2>2. /\ pc[f] \in Holding /\ pc'[f] \in Holding
        /\ \A g \in Files \ {f} : pc'[g] = pc[g]
    BY <1>8, <1>t DEF Write, StartWrite, SendLed, SendFails, WriteReturns, WriteDone, Goto,
       Holding
  <2> QED BY <1>1, <2>1, <2>2 DEF Held
<1> QED BY <1>2, <1>3, <1>4, <1>5, <1>6, <1>7, <1>8 DEF Next, Open

\* A udev is set before the structure is shown, and cleared only with it.
LEMMA DrivenStep == ASSUME TypeOK, Owners, Handles, RefsExact, Driven, Next PROVE Driven'
<1>a. \A b \in Addr : /\ \A f \in Files : pc[f] \in Holding /\ dev[f] = b => kref[b] > 0
                      /\ \A i \in Ifs : own[i] = b => kref[b] > 0
  BY InUseAllocated
<1>t. /\ kref \in [Addr -> Nat] /\ udev \in [Addr -> Ifs \cup {NULL, Dead}]
      /\ NULL # Dead /\ NULL \notin Ifs
  BY BlinkAssumption DEF TypeOK
<1>1. CASE kref' = kref /\ udev' = udev
  BY <1>1 DEF Driven
<1>2. ASSUME NEW i \in Ifs, Unplug(i) PROVE Driven'
  BY <1>t, <1>2 DEF Unplug, Driven
<1>3. ASSUME NEW i \in Ifs, Probe(i) PROVE Driven'
  BY <1>t, <1>3 DEF Probe, Driven
<1>4. ASSUME NEW i \in Ifs, ProbeError(i) \/ Drop(i) PROVE Driven'
  <2>1. own[i] \in Addr /\ KrefPut(own[i]) /\ kref[own[i]] > 0
    BY <1>4, <1>a DEF ProbeError, Drop, Owners, TypeOK
  <2>2. \A b \in Addr : kref'[b] > 0 => kref[b] > 0 /\ udev'[b] = udev[b]
    BY <2>1, PutTyped
  <2> QED BY <2>2 DEF Driven
<1>5. ASSUME NEW f \in Files, KrefGet(f) PROVE Driven'
  <2>1. dev[f] \in Addr /\ kref' = [kref EXCEPT ![dev[f]] = kref[dev[f]] + 1] /\ udev' = udev
    BY <1>5 DEF KrefGet, Handles, TypeOK
  <2>2. PICK i \in Ifs : own[i] = dev[f]
    BY <1>5 DEF KrefGet, Handles
  <2>3. \A b \in Addr : kref'[b] > 0 => kref[b] > 0
    BY <1>t, <1>a, <2>1, <2>2
  <2> QED BY <2>1, <2>3 DEF Driven
<1>6. ASSUME NEW f \in Files, Release(f) PROVE Driven'
  <2>1. dev[f] \in Addr /\ KrefPut(dev[f]) /\ pc[f] \in Holding
    BY <1>6 DEF Release, Handles, Holding, TypeOK
  <2>2. \A b \in Addr : kref'[b] > 0 => kref[b] > 0 /\ udev'[b] = udev[b]
    BY <1>a, <2>1, PutTyped
  <2> QED BY <2>2 DEF Driven
<1>7. ASSUME NEW i \in Ifs,
             \/ Plug(i) \/ UsbRegisterDev(i) \/ CreateFails(i) \/ Probed(i)
             \/ Disconnect(i) \/ UsbDeregisterDev(i) \/ ForgetMinor(i)
      PROVE  Driven'
  BY <1>1, <1>7 DEF Plug, UsbRegisterDev, CreateFails, Probed, Disconnect,
     UsbDeregisterDev, ForgetMinor, ifVars
<1>8. ASSUME NEW f \in Files, UsbOpen(f) \/ FindInterface(f) \/ NoInterface(f) \/ GetIntfdata(f) \/ Write(f)
      PROVE  Driven'
  BY <1>1, <1>8 DEF UsbOpen, FindInterface, NoInterface, GetIntfdata, Write, StartWrite, SendLed,
     SendFails, WriteReturns, WriteDone, ifVars
<1> QED BY <1>2, <1>3, <1>4, <1>5, <1>6, <1>7, <1>8 DEF Next, Open

-----------------------------------------------------------------------------
(* The lookups of blink_open.                                              *)

\* The steps of one blink_open keep what it knows, and the steps of the others
\* are kept from undoing it by minor_rwsem.
LEMMA HandlesStep == ASSUME TypeOK, Owners, Numbers, Handles, Next PROVE Handles'
<1>t. /\ pc \in [Files -> {"closed", "find", "data", "get", "open", "send", "written"}]
      /\ dev \in [Files -> Addr \cup {NULL}] /\ itf \in [Files -> Ifs \cup {NULL}]
      /\ wanted \in [Files -> Minors \cup {-1}] /\ own \in [Ifs -> Addr \cup {NULL}]
      /\ minor \in [Ifs -> Minors \cup {-1}] /\ exposed \subseteq Minors /\ -1 \notin Minors
      /\ ifc \in [Ifs -> {"unbound", "register", "exposed", "refused", "bound",
                          "deregister", "hidden", "drop"}]
  BY BlinkAssumption DEF TypeOK, Holding
\* An interface that may be reached stays so while the table stands still.
<1>1. ASSUME pc' = pc, dev' = dev, wanted' = wanted, itf' = itf,
             Opening = {} \/ exposed' = exposed,
             \A i \in Ifs : \/ own'[i] = own[i] /\ ifc'[i] = ifc[i] /\ minor'[i] = minor[i]
                            \/ /\ ifc[i] \in {"hidden", "drop", "unbound", "refused"}
                               /\ ifc'[i] \in {"drop", "unbound", "register"}
                            \/ /\ ifc[i] \in Listed /\ ifc'[i] \in Listed
                               /\ own'[i] = own[i] /\ minor'[i] = minor[i]
                            \/ Opening = {}
      PROVE  Handles'
  <2> SUFFICES ASSUME NEW f \in Files
               PROVE  /\ dev[f] = NULL <=> pc[f] \in {"closed", "find", "data"}
                      /\ pc[f] \in {"find", "data", "get"} => wanted[f] \in exposed'
                      /\ pc[f] = "data" => itf[f] \in Ifs /\ Reaches(itf[f], wanted[f])'
                      /\ pc[f] = "get" => \E i \in Ifs :
                           /\ own'[i] = dev[f]
                           /\ ifc'[i] = "register" \/ (ifc'[i] \in Listed /\ minor'[i] = wanted[f])
    BY <1>1 DEF Handles, Reaches
  <2>1. pc[f] \in {"find", "data", "get"} => Opening # {}
    BY DEF Opening
  <2>2. dev[f] = NULL <=> pc[f] \in {"closed", "find", "data"}
    BY DEF Handles
  <2>3. pc[f] \in {"find", "data", "get"} => wanted[f] \in exposed'
    BY <1>1, <2>1 DEF Handles
  <2>4. CASE pc[f] = "data"
    BY <1>1, <2>1, <2>2, <2>3, <2>4 DEF Handles, Reaches, Listed
  <2>5. CASE pc[f] = "get"
    <3>1. PICK i \in Ifs : /\ own[i] = dev[f]
                           /\ ifc[i] = "register" \/ (ifc[i] \in Listed /\ minor[i] = wanted[f])
      BY <2>5 DEF Handles
    <3>2. own'[i] = dev[f] /\ (ifc'[i] = "register" \/ (ifc'[i] \in Listed /\ minor'[i] = wanted[f]))
      BY <1>1, <2>1, <2>5, <3>1 DEF Listed
    <3> QED BY <2>2, <2>3, <2>5, <3>2
  <2> QED BY <2>2, <2>3, <2>4, <2>5
<1>2. ASSUME NEW i \in Ifs, Unplug(i) \/ Plug(i) PROVE Handles'
  BY <1>1, <1>2 DEF Unplug, Plug, ifVars, openVars
<1>3. ASSUME NEW i \in Ifs, Probe(i) PROVE Handles'
  <2>1. /\ ifc[i] = "unbound" /\ ifc'[i] = "register" /\ exposed' = exposed /\ minor' = minor
        /\ \A j \in Ifs \ {i} : own'[j] = own[j] /\ ifc'[j] = ifc[j]
        /\ pc' = pc /\ dev' = dev /\ wanted' = wanted /\ itf' = itf
    BY <1>t, <1>3 DEF Probe, Stage, openVars
  <2> QED BY <1>1, <2>1
<1>4. ASSUME NEW i \in Ifs, UsbRegisterDev(i) \/ CreateFails(i) \/ UsbDeregisterDev(i)
      PROVE  Handles'
  <2>1. Opening = {} /\ pc' = pc /\ dev' = dev /\ wanted' = wanted /\ itf' = itf
    BY <1>4 DEF UsbRegisterDev, CreateFails, UsbDeregisterDev, openVars
  <2> QED BY <1>1, <2>1
<1>5. ASSUME NEW i \in Ifs, Probed(i) \/ Disconnect(i) PROVE Handles'
  <2>1. /\ ifc[i] \in Listed /\ ifc'[i] \in Listed
        /\ exposed' = exposed /\ minor' = minor /\ own' = own
        /\ \A j \in Ifs \ {i} : ifc'[j] = ifc[j]
        /\ pc' = pc /\ dev' = dev /\ wanted' = wanted /\ itf' = itf
    BY <1>t, <1>5 DEF Probed, Disconnect, Stage, openVars, Listed
  <2> QED BY <1>1, <2>1
<1>6. ASSUME NEW i \in Ifs, ForgetMinor(i) \/ Drop(i) \/ ProbeError(i) PROVE Handles'
  <2>1. /\ ifc[i] \in {"hidden", "drop", "refused"} /\ ifc'[i] \in {"drop", "unbound"}
        /\ exposed' = exposed
        /\ \A j \in Ifs \ {i} : own'[j] = own[j] /\ ifc'[j] = ifc[j] /\ minor'[j] = minor[j]
        /\ pc' = pc /\ dev' = dev /\ wanted' = wanted /\ itf' = itf
    BY <1>t, <1>6 DEF ForgetMinor, Drop, ProbeError, Stage, openVars
  <2> QED BY <1>1, <2>1
<1>7. ASSUME NEW f \in Files, UsbOpen(f) PROVE Handles'
  <2>1. /\ pc[f] = "closed" /\ pc'[f] = "find" /\ wanted'[f] \in exposed
        /\ \A g \in Files \ {f} : pc'[g] = pc[g] /\ wanted'[g] = wanted[g]
        /\ dev' = dev /\ itf' = itf /\ UNCHANGED <<own, ifc, minor, exposed>>
    BY <1>t, <1>7 DEF UsbOpen, Goto, ifVars
  <2> QED BY <2>1 DEF Handles, Reaches
<1>8. ASSUME NEW f \in Files, FindInterface(f) PROVE Handles'
  <2>1. PICK i \in Ifs : /\ minor[i] = wanted[f] /\ ifc[i] # "unbound"
                         /\ itf' = [itf EXCEPT ![f] = i]
    BY <1>8 DEF FindInterface
  <2>2. /\ pc[f] = "find" /\ pc'[f] = "data" /\ itf'[f] = i
        /\ \A g \in Files \ {f} : pc'[g] = pc[g] /\ itf'[g] = itf[g]
        /\ dev' = dev /\ wanted' = wanted /\ UNCHANGED <<own, ifc, minor, exposed>>
    BY <1>t, <1>8, <2>1 DEF FindInterface, Goto, ifVars
  <2>3. Reaches(i, wanted[f])
    BY <1>t, <2>1, <2>2 DEF Handles, Numbers, Reaches, Listed
  <2> QED BY <2>2, <2>3 DEF Handles, Reaches
<1>11. ASSUME NEW f \in Files, NoInterface(f) PROVE Handles'
  <2>1. /\ pc[f] = "find" /\ pc'[f] = "closed"
        /\ \A g \in Files \ {f} : pc'[g] = pc[g] /\ wanted'[g] = wanted[g]
        /\ dev' = dev /\ itf' = itf /\ UNCHANGED <<own, ifc, minor, exposed>>
    BY <1>t, <1>11 DEF NoInterface, Goto, ifVars
  <2> QED BY <2>1 DEF Handles, Reaches
<1>9. ASSUME NEW f \in Files, GetIntfdata(f) PROVE Handles'
  <2> DEFINE i == itf[f]
             found == intfdata[i]
  <2>1. /\ pc[f] = "data" /\ pc'[f] = IF found = NULL THEN "closed" ELSE "get"
        /\ dev'[f] = found /\ wanted'[f] = IF found = NULL THEN -1 ELSE wanted[f]
        /\ \A g \in Files \ {f} : /\ pc'[g] = pc[g] /\ itf'[g] = itf[g]
                                  /\ dev'[g] = dev[g] /\ wanted'[g] = wanted[g]
        /\ UNCHANGED <<own, ifc, minor, exposed>>
    BY <1>t, <1>9 DEF GetIntfdata, Goto, ifVars
  <2>2. i \in Ifs /\ Reaches(i, wanted[f]) /\ wanted[f] \in exposed
    BY <2>1 DEF Handles
  <2>3. found # NULL =>
          /\ own[i] = found
          /\ ifc[i] = "register" \/ (ifc[i] \in Listed /\ minor[i] = wanted[f])
    BY <2>2 DEF Owners, Reaches, Listed
  <2> HIDE DEF i, found
  <2> QED BY <2>1, <2>2, <2>3 DEF Handles, Reaches
<1>10. ASSUME NEW f \in Files, KrefGet(f) \/ Release(f) \/ Write(f) PROVE Handles'
  <2>1. /\ \A g \in Files \ {f} : pc'[g] = pc[g] /\ dev'[g] = dev[g] /\ wanted'[g] = wanted[g]
        /\ itf' = itf /\ UNCHANGED <<own, ifc, minor, exposed>>
    BY <1>t, <1>10 DEF KrefGet, Release, Goto, Write, StartWrite, SendLed, SendFails,
       WriteReturns, WriteDone, ifVars
  <2>2. /\ pc'[f] \notin {"find", "data", "get"}
        /\ dev'[f] = NULL <=> pc'[f] = "closed"
    <3>1. CASE KrefGet(f)
      BY <1>t, <3>1 DEF KrefGet, Goto, Handles
    <3>2. CASE Release(f)
      BY <1>t, <3>2 DEF Release, Goto
    <3>3. CASE Write(f)
      BY <1>t, <3>3 DEF Goto, Write, StartWrite, SendLed, SendFails, WriteReturns,
         WriteDone, Handles
    <3> QED BY <1>10, <3>1, <3>2, <3>3
  <2> QED BY <2>1, <2>2 DEF Handles, Reaches
<1> QED BY <1>2, <1>3, <1>4, <1>5, <1>6, <1>7, <1>8, <1>9, <1>10, <1>11 DEF Next, Open

-----------------------------------------------------------------------------
(* The theorems.                                                           *)

\* Initially nobody owns, lists or opens anything.
LEMMA LifeInit == Init => LifeInv
<1> SUFFICES ASSUME Init PROVE LifeInv
  OBVIOUS
<1>1. Owners /\ Numbers /\ Handles /\ Driven
  BY DEF Init, Owners, Numbers, Handles, Driven, Listed
<1>2. RefsExact
  <2>1. ASSUME NEW a \in Addr PROVE kref[a] = Holders(a) + Possessors(a)
    <3>1. {f \in Files : HeldMap[f] \in {a}} = {} /\ {i \in Ifs : own[i] \in {a}} = {}
      BY BlinkAssumption DEF Init, HeldMap, Held, Holding
    <3>2. Holders(a) = 0 /\ Possessors(a) = 0
      BY <3>1, FS_EmptySet, Zenon DEF Holders, Possessors, CountAt
    <3> QED BY <3>2 DEF Init
  <2> QED BY <2>1, RefsCounted
<1> QED BY <1>1, <1>2, TypeInit DEF LifeInv

\* The parts of LifeInv are preserved together.
LEMMA LifeStep == LifeInv /\ [Next]_vars => LifeInv'
<1>1. ASSUME LifeInv, Next PROVE LifeInv'
  BY <1>1, TypeStep, OwnersStep, NumbersStep, RefsStep, HandlesStep, DrivenStep DEF LifeInv
<1>2. ASSUME LifeInv, UNCHANGED vars PROVE LifeInv'
  BY <1>2 DEF vars, ifVars, openVars, msgVars, LifeInv, TypeOK, Owners, Numbers, Listed,
     RefsExact, Handles, Reaches, Driven
<1> QED BY <1>1, <1>2

\* LifeInv is an invariant of the driver.
THEOREM LifeInvariance == Spec => []LifeInv
  BY LifeInit, LifeStep, PTL DEF Spec

\* The tables, the structures and the local variables keep their types; in
\* particular no reference count goes below zero.
THEOREM TypeCorrect == Spec => []TypeOK
<1>1. LifeInv => TypeOK
  BY DEF LifeInv
<1> QED BY <1>1, LifeInvariance, PTL

\* kref counts exactly the open files and the interface, so kref_put frees a
\* structure when its last user leaves it and no sooner.
THEOREM RefsExactSafe == Spec => []RefsExact
<1>1. LifeInv => RefsExact
  BY DEF LifeInv
<1> QED BY <1>1, LifeInvariance, PTL

\* The structure blink_open is about to count is still allocated: minor_rwsem
\* keeps away the steps that would give up the interface's reference.
THEOREM NoDanglingSafe == Spec => []NoDangling
<1>1. LifeInv => NoDangling
  <2> SUFFICES ASSUME LifeInv, NEW f \in Files, pc[f] = "get" PROVE kref[dev[f]] > 0
    BY DEF NoDangling
  <2>1. dev[f] \in Addr
    BY DEF LifeInv, TypeOK, Handles
  <2>2. PICK i \in Ifs : own[i] = dev[f]
    BY DEF LifeInv, Handles
  <2> QED BY <2>1, <2>2, InUseAllocated DEF LifeInv
<1> QED BY <1>1, LifeInvariance, PTL

\* An open never gets a strip whose minor has been given back: the structure it
\* counts is owned by an interface that has its number in the table or is about
\* to be entered there.
THEOREM OpenFindsItsDeviceSafe == Spec => []OpenFindsItsDevice
<1>1. LifeInv => OpenFindsItsDevice
  BY DEF LifeInv, Handles, OpenFindsItsDevice
<1> QED BY <1>1, LifeInvariance, PTL

-----------------------------------------------------------------------------
(* blink_write.  The strip of a structure never changes while somebody     *)
(* holds it, except that it may go away.                                   *)

\* Who is inside blink_write.
InWrite == {f \in Files : pc[f] \in {"send", "written"}}

\* The strip a process writes to.
Target(f) == udev[dev[f]]

\* Another process writing to the same strip, whose writes may mix with ours.
Alone == \A f, g \in InWrite :
  f # g /\ alone[f] /\ Target(f) # Dead => Target(g) # Target(f)

\* The leds already sent show what was sent, and what is sent is what the
\* pattern names.
Sent == \A f \in InWrite :
  /\ \A l \in DOMAIN named[f] : l \in Leds /\ ledcolors[f][l] = named[f][l]
  /\ alone[f] /\ Target(f) # Dead =>
       \A l \in Leds : pc[f] = "written" \/ l < led[f]
                         => strip[Target(f)][l] = ledcolors[f][l]
WriteInv == Alone /\ Sent

\* A process inside blink_write has the device open.
LEMMA WriteTyped ==
  /\ TypeOK => pc \in [Files -> {"closed", "find", "data", "get", "open", "send", "written"}]
  /\ \A f \in InWrite : f \in Files /\ pc[f] \in Holding
  BY DEF TypeOK, Holding, InWrite

\* Who has the device open holds an allocated structure, with its strip.
LEMMA TargetThere ==
  ASSUME LifeInv, NEW f \in Files, pc[f] \in Holding
  PROVE  dev[f] \in Addr /\ kref[dev[f]] > 0 /\ Target(f) \in Ifs \cup {Dead}
<1>1. dev[f] \in Addr
  BY DEF LifeInv, TypeOK, Handles, Holding
<1>2. kref[dev[f]] > 0
  BY <1>1, InUseAllocated DEF LifeInv
<1> QED BY <1>1, <1>2 DEF LifeInv, TypeOK, Driven, Target

\* A step that touches neither the strips nor who writes what to which.
LEMMA WriteQuiet ==
  ASSUME WriteInv, InWrite' \subseteq InWrite, strip' = strip,
         \A f \in InWrite' : /\ pc'[f] = pc[f] /\ named'[f] = named[f] /\ alone'[f] = alone[f]
                             /\ ledcolors'[f] = ledcolors[f] /\ led'[f] = led[f]
                             /\ Target(f)' = Target(f)
  PROVE  WriteInv'
<1>1. Alone'
  BY DEF WriteInv, Alone
<1>2. Sent'
  BY DEF WriteInv, Sent
<1> QED BY <1>1, <1>2 DEF WriteInv

\* kref_put by another process leaves the strip of a writer as it is.
LEMMA PutKeepsTarget ==
  ASSUME LifeInv, LifeInv', NEW a \in Addr, kref[a] > 0, KrefPut(a),
         NEW f \in Files, pc'[f] = pc[f], dev'[f] = dev[f], pc[f] \in Holding
  PROVE  Target(f)' = Target(f)
<1>1. dev[f] \in Addr /\ kref'[dev[f]] > 0
  <2>1. (pc[f] \in Holding => dev[f] \in Addr /\ kref[dev[f]] > 0)'
    BY TargetThere, PTL
  <2> QED BY <2>1 DEF Holding
<1>2. udev'[dev[f]] = udev[dev[f]]
  BY <1>1, PutTyped DEF LifeInv
<1> QED BY <1>2 DEF Target

\* Every step keeps what a write has sent so far, or marks it as overlapped.
LEMMA WriteStep == ASSUME LifeInv, LifeInv', WriteInv, Next PROVE WriteInv'
<1>t. /\ pc \in [Files -> {"closed", "find", "data", "get", "open", "send", "written"}]
      /\ udev \in [Addr -> Ifs \cup {NULL, Dead}] /\ strip \in [Ifs -> [Leds -> Colors]]
      /\ dev \in [Files -> Addr \cup {NULL}] /\ named \in [Files -> Patterns \cup {<<>>}]
      /\ ledcolors \in [Files -> [Leds -> Colors]]
      /\ led \in [Files -> Leds] /\ alone \in [Files -> BOOLEAN]
      /\ Dead \notin Ifs
  BY WriteTyped, BlinkAssumption DEF LifeInv, TypeOK
<1>h. \A f \in Files : pc[f] \in Holding =>
        dev[f] \in Addr /\ kref[dev[f]] > 0 /\ Target(f) \in Ifs \cup {Dead}
  BY TargetThere
<1>w. \A f \in InWrite : f \in Files /\ pc[f] \in Holding
  BY WriteTyped
<1>1. ASSUME pc' = pc, dev' = dev, UNCHANGED msgVars, \A f \in InWrite : Target(f)' = Target(f)
      PROVE  WriteInv'
  <2>1. InWrite' = InWrite
    BY <1>1 DEF InWrite
  <2> QED BY <1>1, <2>1, WriteQuiet DEF msgVars
<1>2. ASSUME NEW i \in Ifs, Unplug(i) PROVE WriteInv'
  <2>1. /\ \A f \in InWrite : Target(f)' = IF Target(f) = i THEN Dead ELSE Target(f)
        /\ strip' = [strip EXCEPT ![i] = Dark]
        /\ UNCHANGED <<pc, named, ledcolors, led, alone>>
    BY <1>2, <1>t, <1>h, <1>w DEF Unplug, openVars, Target
  <2>2. InWrite' = InWrite
    BY <2>1 DEF InWrite
  <2>3. Alone'
    BY <1>t, <2>1, <2>2 DEF WriteInv, Alone
  <2>4. Sent'
    BY <1>t, <2>1, <2>2 DEF WriteInv, Sent
  <2> QED BY <2>3, <2>4 DEF WriteInv
<1>3. ASSUME NEW i \in Ifs, Probe(i) PROVE WriteInv'
  <2>1. \A f \in InWrite : Target(f)' = Target(f)
    BY <1>3, <1>t, <1>h, <1>w DEF Probe, openVars, Target
  <2> QED BY <1>1, <1>3, <2>1 DEF Probe, openVars
<1>4. ASSUME NEW i \in Ifs, ProbeError(i) \/ Drop(i) PROVE WriteInv'
  <2>1. own[i] \in Addr /\ KrefPut(own[i]) /\ pc' = pc /\ dev' = dev /\ UNCHANGED msgVars
    BY <1>4 DEF ProbeError, Drop, openVars, LifeInv, Owners, TypeOK
  <2>2. kref[own[i]] > 0
    BY <2>1, InUseAllocated DEF LifeInv
  <2>3. \A f \in InWrite : Target(f)' = Target(f)
    BY <1>w, <2>1, <2>2, PutKeepsTarget
  <2> QED BY <1>1, <2>1, <2>3
<1>5. ASSUME NEW i \in Ifs,
             \/ Plug(i) \/ UsbRegisterDev(i) \/ CreateFails(i) \/ Probed(i)
             \/ Disconnect(i) \/ UsbDeregisterDev(i) \/ ForgetMinor(i)
      PROVE  WriteInv'
  <2>1. pc' = pc /\ dev' = dev /\ UNCHANGED msgVars /\ udev' = udev
    BY <1>5 DEF Plug, UsbRegisterDev, CreateFails, Probed, Disconnect,
       UsbDeregisterDev, ForgetMinor, ifVars, openVars
  <2> QED BY <1>1, <2>1 DEF Target
<1>6. ASSUME NEW f \in Files, Open(f) PROVE WriteInv'
  <2>1. /\ pc[f] \notin {"send", "written"} /\ pc'[f] \notin {"send", "written"}
        /\ \A g \in Files \ {f} : pc'[g] = pc[g] /\ dev'[g] = dev[g]
        /\ UNCHANGED msgVars /\ udev' = udev
    BY <1>t, <1>6 DEF Open, UsbOpen, FindInterface, NoInterface, GetIntfdata, KrefGet, Goto, ifVars
  <2>2. InWrite' = InWrite /\ f \notin InWrite
    BY <2>1 DEF InWrite
  <2> QED BY <1>w, <2>1, <2>2, WriteQuiet DEF msgVars, Target
<1>7. ASSUME NEW f \in Files, Release(f) PROVE WriteInv'
  <2>1. /\ pc[f] = "open" /\ pc'[f] = "closed"
        /\ \A g \in Files \ {f} : pc'[g] = pc[g] /\ dev'[g] = dev[g]
        /\ UNCHANGED msgVars /\ KrefPut(dev[f])
    BY <1>t, <1>7 DEF Release, Goto
  <2>2. InWrite' = InWrite /\ f \notin InWrite
    BY <2>1 DEF InWrite
  <2>3. dev[f] \in Addr /\ kref[dev[f]] > 0
    BY <1>h, <2>1 DEF Holding
  <2>4. \A g \in InWrite : Target(g)' = Target(g)
    BY <1>w, <2>1, <2>2, <2>3, PutKeepsTarget
  <2> QED BY <1>w, <2>1, <2>2, <2>4, WriteQuiet DEF msgVars
<1>8. ASSUME NEW f \in Files, StartWrite(f) PROVE WriteInv'
  <2>1. PICK pattern \in Patterns :
          /\ named' = [named EXCEPT ![f] = pattern]
          /\ \E c \in Parsed(pattern) : ledcolors' = [ledcolors EXCEPT ![f] = c]
          /\ alone' = [g \in Files |-> IF g = f THEN Writing(dev[f]) = {}
                                       ELSE alone[g] /\ g \notin Writing(dev[f])]
    BY <1>8, Zenon DEF StartWrite
  <2>2. /\ led' = [led EXCEPT ![f] = 0] /\ pc' = [pc EXCEPT ![f] = "send"]
        /\ pc[f] = "open" /\ dev' = dev /\ udev' = udev /\ strip' = strip
    BY <1>8 DEF StartWrite, Goto, ifVars
  <2>3. InWrite' = InWrite \cup {f} /\ f \notin InWrite
    BY <1>t, <2>2 DEF InWrite
  <2>4. \A g : Target(g)' = Target(g)
    BY <2>2 DEF Target
  <2>5. Alone'
    <3>1. \A g \in InWrite : g \in Writing(dev[f]) <=> Target(g) = Target(f)
      BY DEF Writing, InWrite, Target
    <3>2. \A g \in InWrite : alone'[g] => alone[g] /\ Target(g) # Target(f)
      BY <1>w, <2>1, <2>3, <3>1
    <3>3. alone'[f] => \A g \in InWrite : Target(g) # Target(f)
      BY <2>1, <3>1
    <3> QED BY <2>3, <2>4, <3>2, <3>3 DEF WriteInv, Alone
  <2>6. Sent'
    <3>1. PICK c \in Parsed(pattern) : ledcolors' = [ledcolors EXCEPT ![f] = c]
      BY <2>1
    <3>2. \A l \in DOMAIN pattern : l \in Leds /\ c[l] = pattern[l]
      BY <3>1, BlinkAssumption DEF Parsed, Leds
    <3>3. /\ ledcolors'[f] = c /\ named'[f] = pattern /\ led'[f] = 0 /\ pc'[f] = "send"
          /\ \A g \in InWrite : /\ ledcolors'[g] = ledcolors[g] /\ named'[g] = named[g]
                                /\ led'[g] = led[g] /\ pc'[g] = pc[g]
                                /\ alone'[g] => alone[g]
      BY <1>t, <1>w, <2>1, <2>2, <2>3, <3>1
    <3>4. \A l \in Leds : ~(l < 0)
      BY BlinkAssumption DEF Leds
    <3> QED BY <2>2, <2>3, <2>4, <3>2, <3>3, <3>4 DEF WriteInv, Sent
  <2> QED BY <2>5, <2>6 DEF WriteInv
<1>9. ASSUME NEW f \in Files, SendLed(f) PROVE WriteInv'
  <2> DEFINE i == Target(f)
             n == led[f]
  <2>1. /\ i # Dead /\ strip' = [strip EXCEPT ![i][n] = ledcolors[f][n]]
        /\ led' = [led EXCEPT ![f] = (n + 1) % NR_LEDS]
        /\ pc[f] = "send"
        /\ pc' = [pc EXCEPT ![f] = IF n = NR_LEDS - 1 THEN "written" ELSE "send"]
        /\ UNCHANGED <<dev, udev, named, ledcolors, alone>>
    BY <1>9 DEF SendLed, Goto, ifVars, Target
  <2>2. f \in InWrite /\ InWrite' = InWrite /\ i \in Ifs /\ n \in Leds
    BY <1>t, <1>h, <1>w, <2>1 DEF InWrite, Holding
  <2>3. \A g : Target(g)' = Target(g)
    BY <2>1 DEF Target
  <2>4. Alone'
    BY <2>1, <2>2, <2>3 DEF WriteInv, Alone
  <2>5. Sent'
    <3>1. \A g \in InWrite \ {f} : alone[g] /\ Target(g) # Dead =>
            strip'[Target(g)] = strip[Target(g)]
      BY <1>t, <1>h, <1>w, <2>1, <2>2 DEF WriteInv, Alone
    <3>2. \A g \in InWrite \ {f} : pc'[g] = pc[g] /\ led'[g] = led[g]
      BY <1>t, <1>w, <2>1
    <3>3. /\ strip'[i][n] = ledcolors[f][n]
          /\ \A l \in Leds \ {n} : strip'[i][l] = strip[i][l]
      BY <1>t, <2>1, <2>2
    <3>4. \A l \in Leds : pc'[f] = "written" \/ l < led'[f] => l < n \/ l = n
      <4>1. NR_LEDS \in Nat \ {0} /\ n \in 0 .. NR_LEDS - 1 /\ Leds = 0 .. NR_LEDS - 1
        BY <2>2, BlinkAssumption DEF Leds
      <4>2. led'[f] = (n + 1) % NR_LEDS
            /\ pc'[f] = IF n = NR_LEDS - 1 THEN "written" ELSE "send"
        BY <1>t, <2>1
      <4>3. (n + 1) % NR_LEDS = IF n = NR_LEDS - 1 THEN 0 ELSE n + 1
        <5> HIDE DEF n
        <5> QED BY <4>1
      <4> HIDE DEF n
      <4> QED BY <4>1, <4>2, <4>3
    <3>5. alone[f] => \A l \in Leds : pc'[f] = "written" \/ l < led'[f]
                        => strip'[i][l] = ledcolors[f][l]
      BY <2>1, <2>2, <3>3, <3>4 DEF WriteInv, Sent
    <3> QED BY <2>1, <2>2, <2>3, <3>1, <3>2, <3>5 DEF WriteInv, Sent
  <2> QED BY <2>4, <2>5 DEF WriteInv
<1>10. ASSUME NEW f \in Files, SendFails(f) \/ WriteReturns(f) PROVE WriteInv'
  <2>1. WriteDone(f)
    BY <1>10 DEF SendFails, WriteReturns
  <2>2. /\ pc'[f] = "open" /\ strip' = strip /\ dev' = dev /\ udev' = udev
        /\ \A g \in Files \ {f} : /\ pc'[g] = pc[g] /\ named'[g] = named[g]
                                  /\ ledcolors'[g] = ledcolors[g] /\ led'[g] = led[g]
    BY <1>t, <2>1 DEF WriteDone, Goto, ifVars
  <2>3. \A g \in Files \ {f} : alone'[g] = alone[g]
    BY <1>t, <2>1, Zenon DEF WriteDone
  <2>4. InWrite' \subseteq InWrite /\ f \notin InWrite'
    BY <2>2 DEF InWrite
  <2> QED BY <1>w, <2>2, <2>3, <2>4, WriteQuiet DEF Target
<1> QED BY <1>2, <1>3, <1>4, <1>5, <1>6, <1>7, <1>8, <1>9, <1>10 DEF Next, Write

\* WriteInv is an invariant of the driver.
THEOREM WriteInvariance == Spec => []WriteInv
<1>1. Init => WriteInv
  BY DEF Init, WriteInv, Alone, Sent, InWrite
<1>2. LifeInv /\ LifeInv' /\ WriteInv /\ [Next]_vars => WriteInv'
  <2>1. ASSUME WriteInv, UNCHANGED vars PROVE WriteInv'
    BY <2>1 DEF vars, ifVars, openVars, msgVars, WriteInv, Alone, Sent, InWrite, Target
  <2> QED BY <2>1, WriteStep
<1> QED BY <1>1, <1>2, LifeInvariance, PTL DEF Spec

\* A write that returns its length, that nobody else's write overlapped and
\* whose strip is still there, has set the leds it names.
THEOREM SoloWriteShowsSafe == Spec => []SoloWriteShows
<1>1. LifeInv /\ WriteInv => SoloWriteShows
  BY DEF WriteInv, Sent, InWrite, SoloWriteShows, Target
<1> QED BY <1>1, LifeInvariance, WriteInvariance, PTL
=============================================================================
