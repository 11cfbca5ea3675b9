------------------------------- MODULE Blink -------------------------------
(***************************************************************************)
(* The USB LED driver Pr2/ParteC/blinkdrv.c.  A usb_blink structure is     *)
(* shared by the interface it was probed for and by the files open on it,  *)
(* and lives as long as its kref says.  probe, disconnect, open, release   *)
(* and write run concurrently; all that keeps open from a structure that   *)
(* disconnect is giving up is the USB core's minor_rwsem.                  *)
(*                                                                         *)
(* External, as the driver uses it: usb_open looks up the minor and calls  *)
(* blink_open with minor_rwsem held for reading; usb_register_dev and      *)
(* usb_deregister_dev change the table of minors with it held for writing, *)
(* so not while an open is under way.  The core probes or disconnects one  *)
(* interface at a time, here each interface on its own.                    *)
(***************************************************************************)
EXTENDS Integers, FiniteSets, FiniteSetsExt

CONSTANTS Ifs,       \* USB interfaces: the strips that can be plugged in
          Minors,    \* minor numbers the core can give out
          Addr,      \* addresses of usb_blink structures
          Files,     \* processes, each with at most one file open
          NR_LEDS,
          Cleared,   \* the leds whose colours the memset of line 121 clears
          Colors, Black,
          Patterns,  \* what writes name: led:colour, the last of a led counting
          NULL, Dead \* no structure; a usb_device that left the bus

ASSUME BlinkAssumption ==
  /\ Minors \subseteq Nat /\ NR_LEDS \in Nat \ {0}
  /\ Cleared \subseteq 0 .. NR_LEDS - 1
  /\ Patterns \subseteq UNION {[led -> Colors] : led \in SUBSET (0 .. NR_LEDS - 1)}
  /\ Black \in Colors /\ NULL \notin Addr /\ {NULL, Dead} \cap Ifs = {} /\ NULL # Dead
  /\ IsFiniteSet(Files) /\ IsFiniteSet(Ifs)

Leds == 0 .. NR_LEDS - 1
Dark == [l \in Leds |-> Black]

VARIABLES plugged,   \* the strips on the bus
          strip,     \* the colours they show
          kref,      \* reference count of each usb_blink; 0: not allocated
          udev,      \* its udev: the strip it drives, or Dead
          ifc,       \* where probe or disconnect of each interface is
          intfdata,  \* the driver data of the interface
          own,       \* the local variable dev of probe and disconnect
          minor,     \* interface->minor
          exposed,   \* the minors with an entry in the core's table
          pc,        \* where each process is
          wanted,    \* the minor it opens
          itf, dev,  \* the interface and the structure blink_open found
          named, ledcolors, led,  \* its write: pattern, colours, next led
          alone      \* no other write to the strip has overlapped its write

ifVars   == <<kref, udev, ifc, intfdata, own, minor, exposed>>
openVars == <<pc, wanted, itf, dev>>
msgVars  == <<strip, named, ledcolors, led, alone>>
vars == <<plugged, ifVars, openVars, msgVars>>

Init ==
  /\ plugged = Ifs /\ strip = [i \in Ifs |-> Dark]
  /\ kref = [a \in Addr |-> 0] /\ udev = [a \in Addr |-> NULL]
  /\ ifc = [i \in Ifs |-> "unbound"]
  /\ intfdata = [i \in Ifs |-> NULL] /\ own = [i \in Ifs |-> NULL]
  /\ minor = [i \in Ifs |-> -1] /\ exposed = {}
  /\ pc = [f \in Files |-> "closed"] /\ wanted = [f \in Files |-> -1]
  /\ itf = [f \in Files |-> NULL] /\ dev = [f \in Files |-> NULL]
  /\ named = [f \in Files |-> <<>>] /\ led = [f \in Files |-> 0]
  /\ ledcolors = [f \in Files |-> Dark]
  /\ alone = [f \in Files |-> FALSE]

Opening == {f \in Files : pc[f] \in {"find", "data", "get"}}
Goto(f, where) == pc' = [pc EXCEPT ![f] = where]
Stage(i, where) == ifc' = [ifc EXCEPT ![i] = where]

\* kref_put(&dev->kref, blink_delete): the last one frees.
KrefPut(a) ==
  /\ kref' = [kref EXCEPT ![a] = @ - 1]
  /\ udev' = [udev EXCEPT ![a] = IF kref[a] = 1 THEN NULL ELSE @]
-----------------------------------------------------------------------------
(* The bus.                                                                *)

\* The usb_device is dead for whoever still holds it, and the strip dark;
\* disconnect follows in its own time.
Unplug(i) ==
  /\ i \in plugged /\ plugged' = plugged \ {i}
  /\ udev' = [a \in Addr |-> IF udev[a] = i THEN Dead ELSE udev[a]]
  /\ strip' = [strip EXCEPT ![i] = Dark]
  /\ UNCHANGED <<kref, ifc, intfdata, own, minor, exposed, openVars,
                 named, ledcolors, led, alone>>

Plug(i) ==
  /\ i \notin plugged /\ ifc[i] = "unbound" /\ plugged' = plugged \cup {i}
  /\ UNCHANGED <<ifVars, openVars, msgVars>>
-----------------------------------------------------------------------------
(* blink_probe                                                             *)

\* Up to usb_set_intfdata; nothing changes when vmalloc fails.
Probe(i) == \E a \in Addr :
  /\ i \in plugged /\ ifc[i] = "unbound" /\ kref[a] = 0
  /\ kref' = [kref EXCEPT ![a] = 1] /\ udev' = [udev EXCEPT ![a] = i]
  /\ intfdata' = [intfdata EXCEPT ![i] = a] /\ own' = [own EXCEPT ![i] = a]
  /\ Stage(i, "register")
  /\ UNCHANGED <<plugged, minor, exposed, openVars, msgVars>>

\* usb_register_dev enters the minor in the table before it creates the
\* device, so opens can come from here on.
UsbRegisterDev(i) ==
  LET free == Minors \ exposed IN
  /\ ifc[i] = "register" /\ Opening = {}
  /\ IF free = {}
     THEN Stage(i, "refused") /\ UNCHANGED <<minor, exposed>>
     ELSE /\ minor' = [minor EXCEPT ![i] = Min(free)]
          /\ exposed' = exposed \cup {Min(free)}
          /\ Stage(i, "exposed")
  /\ UNCHANGED <<plugged, kref, udev, intfdata, own, openVars, msgVars>>

\* usb_register_dev cannot create the device and takes the minor back.
CreateFails(i) ==
  /\ ifc[i] = "exposed" /\ Opening = {}
  /\ exposed' = exposed \ {minor[i]} /\ minor' = [minor EXCEPT ![i] = -1]
  /\ Stage(i, "refused")
  /\ UNCHANGED <<plugged, kref, udev, intfdata, own, openVars, msgVars>>

Probed(i) ==
  /\ ifc[i] = "exposed"
  /\ Stage(i, "bound")
  /\ UNCHANGED <<plugged, kref, udev, intfdata, own, minor, exposed, openVars, msgVars>>

\* (bug) the error path of probe frees the structure without its kref
ProbeErrorFrees(i) ==
  /\ ifc[i] = "refused"
  /\ intfdata' = [intfdata EXCEPT ![i] = NULL] /\ own' = [own EXCEPT ![i] = NULL]
  /\ kref' = [kref EXCEPT ![own[i]] = 0] /\ udev' = [udev EXCEPT ![own[i]] = NULL]
  /\ Stage(i, "unbound")
  /\ UNCHANGED <<plugged, minor, exposed, openVars, msgVars>>

\* The error path: an open may have found the device while it was exposed,
\* so the structure is given up by reference, not freed.
ProbeError(i) ==
  /\ ifc[i] = "refused"
  /\ intfdata' = [intfdata EXCEPT ![i] = NULL] /\ own' = [own EXCEPT ![i] = NULL]
  /\ KrefPut(own[i])
  /\ Stage(i, "unbound")
  /\ UNCHANGED <<plugged, minor, exposed, openVars, msgVars>>
-----------------------------------------------------------------------------
(* blink_disconnect: the strip was unplugged or the driver unbound.        *)

\* (bug) disconnect leaves the interface its driver data
DisconnectKeepsData(i) ==
  /\ ifc[i] = "bound"
  /\ Stage(i, "deregister")
  /\ UNCHANGED <<plugged, kref, udev, own, intfdata, minor, exposed, openVars, msgVars>>

\* (bug) disconnect gives its reference back first, and again at the end
DisconnectPutsFirst(i) ==
  /\ ifc[i] = "bound"
  /\ intfdata' = [intfdata EXCEPT ![i] = NULL]
  /\ KrefPut(own[i])
  /\ Stage(i, "deregister")
  /\ UNCHANGED <<plugged, own, minor, exposed, openVars, msgVars>>

Disconnect(i) ==
  /\ ifc[i] = "bound"
  /\ intfdata' = [intfdata EXCEPT ![i] = NULL]
  /\ Stage(i, "deregister")
  /\ UNCHANGED <<plugged, kref, udev, own, minor, exposed, openVars, msgVars>>

\* usb_deregister_dev empties the table's entry under the lock, ...
UsbDeregisterDev(i) ==
  /\ ifc[i] = "deregister" /\ Opening = {}
  /\ exposed' = exposed \ {minor[i]}
  /\ Stage(i, "hidden")
  /\ UNCHANGED <<plugged, kref, udev, intfdata, own, minor, openVars, msgVars>>

\* ... but interface->minor only afterwards, when another interface may
\* already have the same number.
ForgetMinor(i) ==
  /\ ifc[i] = "hidden"
  /\ minor' = [minor EXCEPT ![i] = -1]
  /\ Stage(i, "drop")
  /\ UNCHANGED <<plugged, kref, udev, intfdata, own, exposed, openVars, msgVars>>

\* dev->interface = NULL, which nothing ever reads; then kref_put.
Drop(i) ==
  /\ ifc[i] = "drop"
  /\ KrefPut(own[i]) /\ own' = [own EXCEPT ![i] = NULL]
  /\ Stage(i, "unbound")
  /\ UNCHANGED <<plugged, intfdata, minor, exposed, openVars, msgVars>>
-----------------------------------------------------------------------------
(* open and close                                                          *)

\* usb_open takes minor_rwsem for reading and finds the driver's fops.
UsbOpen(f) == \E m \in exposed :
  /\ pc[f] = "closed"
  /\ wanted' = [wanted EXCEPT ![f] = m] /\ Goto(f, "find")
  /\ UNCHANGED <<plugged, ifVars, itf, dev, msgVars>>

\* usb_find_interface: any interface of the driver that says it has the minor.
FindInterface(f) == \E i \in Ifs :
  /\ pc[f] = "find"
  /\ minor[i] = wanted[f] /\ ifc[i] # "unbound"
  /\ itf' = [itf EXCEPT ![f] = i] /\ Goto(f, "data")
  /\ UNCHANGED <<plugged, ifVars, wanted, dev, msgVars>>

\* -ENODEV: a strip that is unplugged leaves the bus before disconnect is called.
NoInterface(f) ==
  /\ pc[f] = "find"
  /\ \A i \in Ifs : minor[i] = wanted[f] => i \notin plugged
  /\ wanted' = [wanted EXCEPT ![f] = -1] /\ Goto(f, "closed")
  /\ UNCHANGED <<plugged, ifVars, itf, dev, msgVars>>

\* usb_get_intfdata; -ENODEV if disconnect has been here.
GetIntfdata(f) ==
  LET found == intfdata[itf[f]] IN
  /\ pc[f] = "data"
  /\ dev' = [dev EXCEPT ![f] = found]
  /\ itf' = [itf EXCEPT ![f] = NULL]
  /\ Goto(f, IF found = NULL THEN "closed" ELSE "get")
  /\ wanted' = [wanted EXCEPT ![f] = IF found = NULL THEN -1 ELSE @]
  /\ UNCHANGED <<plugged, ifVars, msgVars>>

KrefGet(f) ==
  /\ pc[f] = "get"
  /\ kref' = [kref EXCEPT ![dev[f]] = @ + 1]
  /\ wanted' = [wanted EXCEPT ![f] = -1] /\ Goto(f, "open")
  /\ UNCHANGED <<plugged, udev, ifc, intfdata, own, minor, exposed, itf, dev, msgVars>>

Open(f) ==
  UsbOpen(f) \/ FindInterface(f) \/ NoInterface(f) \/ GetIntfdata(f) \/ KrefGet(f)

Release(f) ==
  /\ pc[f] = "open"
  /\ KrefPut(dev[f]) /\ dev' = [dev EXCEPT ![f] = NULL]
  /\ Goto(f, "closed")
  /\ UNCHANGED <<plugged, ifc, intfdata, own, minor, exposed, wanted, itf, msgVars>>
-----------------------------------------------------------------------------
(* blink_write                                                             *)

\* The processes inside blink_write for the strip of a.
Writing(a) == {f \in Files : pc[f] \in {"send", "written"} /\ udev[dev[f]] = udev[a]}

\* The array ledcolors after the parse: line 121 clears NR_LEDS bytes of it,
\* not NR_LEDS integers, so a led not named may hold anything.
Parsed(pattern) == {c \in [Leds -> Colors] :
  \A l \in Leds : IF l \in DOMAIN pattern THEN c[l] = pattern[l]
                                          ELSE l \in Cleared => c[l] = Black}

StartWrite(f) == \E pattern \in Patterns :
  LET others == Writing(dev[f]) IN
  /\ pc[f] = "open"
  /\ named' = [named EXCEPT ![f] = pattern]
  /\ \E c \in Parsed(pattern) : ledcolors' = [ledcolors EXCEPT ![f] = c]
  /\ led' = [led EXCEPT ![f] = 0]
  /\ alone' = [g \in Files |-> IF g = f THEN others = {}
                               ELSE alone[g] /\ g \notin others]
  /\ Goto(f, "send")
  /\ UNCHANGED <<plugged, ifVars, wanted, itf, dev, strip>>

\* (bug) the result of usb_control_msg not looked at
SendLedIgnoringErrors(f) ==
  LET i == udev[dev[f]] IN
  /\ pc[f] = "send" /\ i # Dead
  /\ \/ strip' = [strip EXCEPT ![i][led[f]] = ledcolors[f][led[f]]]
     \/ UNCHANGED strip
  /\ led' = [led EXCEPT ![f] = (@ + 1) % NR_LEDS]
  /\ Goto(f, IF led[f] = NR_LEDS - 1 THEN "written" ELSE "send")
  /\ UNCHANGED <<plugged, ifVars, wanted, itf, dev, named, ledcolors, alone>>

\* One turn of the loop: usb_control_msg sets one led of a strip that answers.
SendLed(f) ==
  LET i == udev[dev[f]] IN
  /\ pc[f] = "send" /\ i # Dead
  /\ strip' = [strip EXCEPT ![i][led[f]] = ledcolors[f][led[f]]]
  /\ led' = [led EXCEPT ![f] = (@ + 1) % NR_LEDS]
  /\ Goto(f, IF led[f] = NR_LEDS - 1 THEN "written" ELSE "send")
  /\ UNCHANGED <<plugged, ifVars, wanted, itf, dev, named, ledcolors, alone>>

WriteDone(f) ==
  /\ named' = [named EXCEPT ![f] = <<>>] /\ alone' = [alone EXCEPT ![f] = FALSE]
  /\ ledcolors' = [ledcolors EXCEPT ![f] = Dark]
  /\ led' = [led EXCEPT ![f] = 0]
  /\ Goto(f, "open")
  /\ UNCHANGED <<plugged, ifVars, wanted, itf, dev, strip>>

\* usb_control_msg fails, because the strip is gone or for reasons of its
\* own: goto out_error, the leds already set staying so.
SendFails(f) == pc[f] = "send" /\ WriteDone(f)

\* return len
WriteReturns(f) == pc[f] = "written" /\ WriteDone(f)

Write(f) == StartWrite(f) \/ SendLed(f) \/ SendFails(f) \/ WriteReturns(f)
-----------------------------------------------------------------------------
Next ==
  \/ \E i \in Ifs : \/ Unplug(i) \/ Plug(i) \/ Probe(i) \/ UsbRegisterDev(i)
                    \/ CreateFails(i) \/ Probed(i) \/ ProbeError(i)
                    \/ Disconnect(i) \/ UsbDeregisterDev(i) \/ ForgetMinor(i)
                    \/ Drop(i)
  \/ \E f \in Files : Open(f) \/ Release(f) \/ Write(f)

Spec == Init /\ [][Next]_vars
-----------------------------------------------------------------------------
Holding == {"open", "send", "written"}

TypeOK ==
  /\ plugged \subseteq Ifs /\ strip \in [Ifs -> [Leds -> Colors]]
  /\ kref \in [Addr -> Nat] /\ udev \in [Addr -> Ifs \cup {NULL, Dead}]
  /\ ifc \in [Ifs -> {"unbound", "register", "exposed", "refused", "bound",
                      "deregister", "hidden", "drop"}]
  /\ intfdata \in [Ifs -> Addr \cup {NULL}] /\ own \in [Ifs -> Addr \cup {NULL}]
  /\ minor \in [Ifs -> Minors \cup {-1}] /\ exposed \subseteq Minors
  /\ pc \in [Files -> {"closed", "find", "data", "get"} \cup Holding]
  /\ wanted \in [Files -> Minors \cup {-1}] /\ itf \in [Files -> Ifs \cup {NULL}]
  /\ dev \in [Files -> Addr \cup {NULL}]
  /\ named \in [Files -> Patterns \cup {<<>>}] /\ ledcolors \in [Files -> [Leds -> Colors]]
  /\ led \in [Files -> Leds] /\ alone \in [Files -> BOOLEAN]

\* blink_open takes its reference after two lookups that hold none, while
\* disconnect or a failing probe gives up the only one: the structure it is
\* about to count is always still allocated.
NoDangling == \A f \in Files : pc[f] = "get" => kref[dev[f]] > 0

\* kref is exactly the files that have the device open plus the interface,
\* through every failing probe, disconnect and late close: the structure is
\* neither freed under a user nor kept once the last one is gone.
RefsExact == \A a \in Addr :
  kref[a] = Cardinality({f \in Files : pc[f] \in Holding /\ dev[f] = a})
          + Cardinality({i \in Ifs : own[i] = a})

\* An open never gets a strip whose minor has been given back, although that
\* one's interface may still carry the number when the next strip is given it:
\* the structure it is about to count is owned by an interface, which has its
\* number in the table or, unbound and probed again between the two lookups of
\* blink_open, is about to be entered there.  blink_disconnect may have begun,
\* and taken the data away since (line 281); it waits at usb_deregister_dev
\* until the open has counted itself.
OpenFindsItsDevice == \A f \in Files : pc[f] = "get" =>
  \E i \in Ifs :
    /\ own[i] = dev[f]
    /\ ifc[i] = "register" \/ (minor[i] = wanted[f] /\ wanted[f] \in exposed)

\* A write that returns its length to a strip still there, and that no other
\* write to the strip has overlapped, leaves every led it names in its
\* colour, even if the driver was unbound and probed again on the way.
SoloWriteShows == \A f \in Files :
  pc[f] = "written" /\ alone[f] /\ udev[dev[f]] # Dead =>
    \A l \in DOMAIN named[f] : strip[udev[dev[f]]][l] = named[f][l]
=============================================================================
