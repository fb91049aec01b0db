------------------------------ MODULE Topology ------------------------------
(***************************************************************************)
(* cotton-usb-host/src/topology.rs: the table from which the USB host      *)
(* allots device addresses.  parent[a] packs where the device with address *)
(* a is attached: the address of its hub in the lower four bits (zero for  *)
(* the root port) and the port of that hub in the upper four; zero means   *)
(* that no device has address a.                                           *)
(*                                                                         *)
(* Each operation takes &mut self, so it is one step here; DisconnectLoop  *)
(* takes device_disconnect apart and is shown to implement this module.    *)
(***************************************************************************)
EXTENDS Naturals

CONSTANTS MAX_DEVICES, MAX_HUBS, MAX_PORTS   \* 32, 16 and 16 in the code

ASSUME LimitsAssumption ==
    /\ MAX_DEVICES \in Nat /\ MAX_HUBS \in Nat /\ MAX_PORTS \in Nat
    /\ 1 <= MAX_HUBS /\ MAX_HUBS <= 16 /\ MAX_HUBS <= MAX_DEVICES
    /\ 1 <= MAX_PORTS /\ MAX_PORTS <= 16

VARIABLES
    parent,     \* the table
    address,    \* what the last device_connect returned: {a} for Some(a), {} for None
    gone        \* what the last device_disconnect returned

vars == <<parent, address, gone>>

Addr == 0 .. MAX_DEVICES - 1
Byte == 0 .. 255

Entry(hub, port) == port * 16 + hub
HubOf(entry) == entry % 16
PortOf(entry) == entry \div 16

\* is_present, for the table t
PresentIn(t) == {a \in Addr : t[a] > 0}
Present == PresentIn(parent)

InRange(hub, port) == hub < MAX_HUBS /\ port < MAX_PORTS

(***************************************************************************)
(* What the callers in usb_bus.rs pass: the root (0) or a device that is   *)
(* present, and a port number, which may be beyond the table's limit or,   *)
(* below a hub, zero (bit 0 of a hub's status-change bitmap).              *)
(***************************************************************************)
Attachments == (({0} \cup Present) \X (0 .. MAX_PORTS)) \ {<<0, 0>>}

(***************************************************************************)
(* device_disconnect's result: the device that was attached at hub/port    *)
(* and everything downstream of it, as the least set closed under "the hub *)
(* it is attached to is in the set".                                       *)
(***************************************************************************)
Closed(t, hub, port, D) ==
    \A a \in PresentIn(t) :
        (t[a] = Entry(hub, port) \/ HubOf(t[a]) \in D) => a \in D

Downstream(t, hub, port) ==
    {a \in PresentIn(t) :
        \A D \in SUBSET Addr : Closed(t, hub, port, D) => a \in D}
-----------------------------------------------------------------------------
Init ==
    /\ parent = [a \in Addr |-> 0]
    /\ address = {}
    /\ gone = {}

\* Mutant of FreeAddress: the presence test is forgotten.
FreeAddressReused(a, is_hub) ==
    a = IF is_hub THEN MAX_HUBS - 1 ELSE MAX_DEVICES - 1

\* The two searches for a free address: hubs from the bottom of the range
\* whose addresses fit in four bits, other devices from the top of the table.
FreeAddress(a, is_hub) ==
    IF is_hub
    THEN /\ a \in (1 .. MAX_HUBS - 1) \ Present
         /\ \A b \in (1 .. MAX_HUBS - 1) \ Present : a <= b
    ELSE /\ a \in (1 .. MAX_DEVICES - 1) \ Present
         /\ \A b \in (1 .. MAX_DEVICES - 1) \ Present : b <= a

\* Mutant of Occupied: the test for an entry that is already there is dropped.
OccupiedNever(hub, port) == {}

\* The addresses already allotted to this attachment.
Occupied(hub, port) == {a \in Addr : parent[a] = Entry(hub, port)}

device_connect(hub, port, is_hub) ==
    /\ UNCHANGED gone
    /\ \/ /\ ~InRange(hub, port)
          /\ address' = {}
          /\ UNCHANGED parent
       \/ /\ InRange(hub, port)
          /\ \E a \in Occupied(hub, port) :
                /\ \A b \in Occupied(hub, port) : a <= b
                /\ address' = {a}
          /\ UNCHANGED parent
       \/ /\ InRange(hub, port)
          /\ Occupied(hub, port) = {}
          /\ \E a \in Addr :
                /\ FreeAddress(a, is_hub)
                /\ parent' = [parent EXCEPT ![a] = Entry(hub, port)]
                /\ address' = {a}
       \/ /\ InRange(hub, port)
          /\ Occupied(hub, port) = {}
          /\ \A a \in Addr : ~FreeAddress(a, is_hub)
          /\ address' = {}
          /\ UNCHANGED parent

\* Mutant of Removed: only the device itself is removed, not what hangs off it.
RemovedAlone(t, hub, port) == {a \in PresentIn(t) : t[a] = Entry(hub, port)}

Removed(t, hub, port) == Downstream(t, hub, port)

device_disconnect(hub, port) ==
    /\ UNCHANGED address
    /\ IF InRange(hub, port)
       THEN /\ gone' = Removed(parent, hub, port)
            /\ parent' = [a \in Addr |-> IF a \in gone' THEN 0 ELSE parent[a]]
       ELSE gone' = {} /\ UNCHANGED parent

Next ==
    \E where \in Attachments :
        \/ \E is_hub \in BOOLEAN : device_connect(where[1], where[2], is_hub)
        \/ device_disconnect(where[1], where[2])

Spec == Init /\ [][Next]_vars
-----------------------------------------------------------------------------
(***************************************************************************)
(* Type invariant: the table holds bytes, and the results are addresses.   *)
(***************************************************************************)
TypeOK ==
    /\ parent \in [Addr -> Byte]
    /\ address \in SUBSET Addr
    /\ gone \in SUBSET Addr

(***************************************************************************)
(* No two addresses are ever allotted to the same port of the same hub, so *)
(* a port that reports a disconnection names one device.                   *)
(***************************************************************************)
OneAddressPerPort ==
    \A a, b \in Present : parent[a] = parent[b] => a = b

(***************************************************************************)
(* Address 0, which USB reserves for a device that has no address yet, is  *)
(* never allotted by device_connect nor reported by device_disconnect.     *)
(***************************************************************************)
ZeroNeverAllotted == 0 \notin Present /\ 0 \notin address /\ 0 \notin gone

(***************************************************************************)
(* The table never keeps a device whose hub has gone: disconnecting a hub  *)
(* removes everything below it, however the addresses fell.  A device left *)
(* behind would hold its address for ever, and would be adopted by the     *)
(* next hub that is given the old hub's address.                           *)
(***************************************************************************)
NoOrphans == \A a \in Present : HubOf(parent[a]) \in {0} \cup Present

(***************************************************************************)
(* Following hubs upwards from a device ends at the root: no set of        *)
(* devices hang off one another in a ring.                                 *)
(***************************************************************************)
RootedAtRoot ==
    \A S \in SUBSET Present :
        S # {} => \E a \in S : HubOf(parent[a]) \notin S

(***************************************************************************)
(* A device keeps its address and its place until it is disconnected: no   *)
(* operation moves an address from one port to another, and only a         *)
(* device_disconnect that reports an address takes it away.                *)
(***************************************************************************)
AddressesAreStable ==
    [][\A a \in Present :
          parent'[a] # parent[a] => parent'[a] = 0 /\ a \in gone']_vars
=============================================================================
