---------------------------- MODULE UsbBusProofs ----------------------------
(***************************************************************************)
(* Proofs about UsbBus, for any devices, hubs and ports and any sizes of   *)
(* the tables: nobody else answers to address 0 while a device is being    *)
(* addressed, the topology is true, on a quiet bus the application knows   *)
(* what is connected, and pipes poll hubs.                                 *)
(*                                                                         *)
(* As in the run usb_bus, a port is replugged only after the host has      *)
(* dealt with its last change, hubs are as fast as the code expects and    *)
(* transfers fail only when nobody answers, or more than one device does.  *)
(***************************************************************************)
EXTENDS UsbBus, FiniteSetTheorems, TLAPS

Calm == Bounce = {} /\ SlowReset = FALSE /\ MaxErrors = 0

\* No device has been turned away for want of room in a table.
NoneRefused == event.why # "TooManyDevices" /\ pc # "panic"

-----------------------------------------------------------------------------
(* The inductive invariant.                                                *)

HubAddr == 1 .. MAX_HUBS - 1

\* d has been given an address.
Answers(d) == usb[d] \notin {0, Off}

\* The handler is busy with this port of a hub, or with the port d is in.
Mine(pl) == Answers(pl[1]) /\ ctx.hub = usb[pl[1]] /\ ctx.port = pl[2]
Here(d) == IF ctx.hub = 0 THEN place[d] = RootPlace
           ELSE place[d] \in HubPorts /\ Mine(place[d])

Dark(pl) ==
    /\ ~port[pl].power /\ ~port[pl].c_connection
    /\ ~port[pl].enabled /\ ~port[pl].resetting

\* Nothing is entered in the topology for this port.
Vacant(hub, p) == \A a \in T!Addr : parent[a] # T!Entry(hub, p)

Types ==
    /\ place \in [Devices -> Places \cup {Nowhere}]
    /\ usb \in [Devices -> 0 .. MAX_DEVICES]
    /\ port \in [HubPorts -> PortStates]
    /\ parent \in [T!Addr -> T!Byte]
    /\ pipes \in Seq(HubAddr) /\ packet \in Seq(SUBSET (1 .. NPORTS))
    /\ Len(pipes) = Len(packet)
    /\ rootSeen \in {"absent", "low", "full"}
    /\ no_hubs \in BOOLEAN /\ errors = 0
    /\ ctx \in [hub : 0 .. MAX_HUBS - 1, port : Nat, todo : SUBSET (1 .. NPORTS),
                bit : {0, 4}, connected : BOOLEAN, is_hub : BOOLEAN,
                address : 0 .. MAX_DEVICES - 1]

\* A device that answers is in a port, alone, below a hub that has an address,
\* and shares its own with nobody.
PlugsOK ==
    /\ \A d, e \in Devices : place[d] = place[e] /\ place[d] # Nowhere => d = e
    /\ \A d \in Devices : usb[d] # Off /\ place[d] # RootPlace =>
          place[d] \in HubPorts /\ Answers(place[d][1]) /\ port[place[d]].enabled
    /\ \A d, e \in Devices : usb[d] = usb[e] /\ usb[d] # Off => d = e

PortsOK ==
    \A pl \in HubPorts :
        /\ port[pl].enabled => /\ port[pl].power /\ ~port[pl].c_connection
                               /\ ~port[pl].resetting
                               /\ \E d \in Devices : place[d] = pl
        /\ ~Answers(pl[1]) \/ no_hubs => Dark(pl)
        /\ port[pl].c_connection => port[pl].power
        /\ port[pl].resetting => pc = "wait" /\ Mine(pl)

\* The entries of the topology form a tree, in which only hubs that answer
\* have something below them.
TableOK ==
    /\ 0 \notin T!Present /\ T!NoOrphans /\ T!RootedAtRoot
    /\ \A a \in T!Present : \E h \in 0 .. MAX_HUBS - 1, p \in 1 .. MAX_PORTS - 1 :
          /\ parent[a] = T!Entry(h, p)
          /\ h = 0 => p = 1
          /\ \A d \in Devices : usb[d] = h /\ h # 0 => d \in Hubs /\ p \in 1 .. NPORTS

HubsFit == \A h \in Hubs : usb[h] # Off => usb[h] < MAX_HUBS

\* An entry is that of a device that answers, or of one that has gone and
\* whose going the host has yet to hear of, or it has just been made.
EntriesOK ==
    /\ \A h \in Hubs, p \in 1 .. NPORTS : Answers(h) =>
         \A a \in T!Addr : parent[a] = T!Entry(usb[h], p) =>
            \/ \E d \in Devices : place[d] = <<h, p>> /\ usb[d] = a
            \/ port[<<h, p>>].c_connection /\ \A d \in Devices : place[d] # <<h, p>>
            \/ pc = "set_address" /\ Mine(<<h, p>>) /\ ctx.address = a
    /\ \A a \in T!Addr : parent[a] = T!Entry(0, 1) =>
            /\ rootSeen # "absent"
            /\ \/ \E d \in Devices : place[d] = RootPlace /\ usb[d] = a
               \/ \A d \in Devices : place[d] # RootPlace
               \/ pc = "set_address" /\ ctx.hub = 0 /\ ctx.address = a

\* The ports of a hub are powered once the handler has done so.
HubsOK ==
    \A h \in Hubs, p \in 1 .. NPORTS : Answers(h) =>
        IF usb[h] = ctx.address /\ (pc = "new_hub" \/ (pc = "power" /\ p \in ctx.todo))
        THEN Dark(<<h, p>>)
        ELSE port[<<h, p>>].power

RootOK ==
    /\ rootSeen # "absent" => RootStatus \in {rootSeen, "absent"}
    /\ \A d \in Devices : place[d] = RootPlace =>
          IF rootSeen = "absent" \/ pc = "root_reset" THEN usb[d] = Off
          ELSE Answers(d) \/ (ctx.hub = 0 /\ pc \in {"new_device", "set_address"})
    /\ ctx.hub = 0 /\ pc \in {"root_reset", "new_device", "set_address"} =>
          rootSeen # "absent"

AtAddressZero ==
    \A d \in Devices : usb[d] = 0 => pc \in {"wait", "new_device", "set_address"} /\ Here(d)

\* A device in a powered port has an address, or a change of its port will
\* make the host look, or the host is about to give it one.
ServedOK ==
    \A d \in Devices : place[d] \in HubPorts /\ port[place[d]].power =>
        \/ Answers(d) \/ port[place[d]].c_connection
        \/ Mine(place[d]) /\ pc \in {"reset", "wait", "new_device", "set_address"}

\* What the handler knows at each of its awaits.
WhereOK ==
    /\ pc = "idle" => ctx.port = 0
    /\ pc = "root_reset" => ctx.hub = 0 /\ ctx.port = 1
    /\ pc \in {"new_device", "set_address"} =>
          \/ ctx.hub = 0 /\ ctx.port = 1
          \/ ctx.hub \in HubAddr /\ ctx.port \in 1 .. NPORTS
    /\ pc \in {"status", "clear", "reset", "wait"} => ctx.hub \in HubAddr
    /\ pc \in {"clear", "reset", "wait"} => ctx.port \in 1 .. NPORTS
    /\ pc = "status" => ctx.port = 0

ConnectingOK ==
    /\ \A pl \in HubPorts : Mine(pl) =>
          /\ pc = "clear" /\ ctx.bit = 0 =>
                /\ port[pl].c_connection
                /\ ~ctx.connected => \A d \in Devices : place[d] # pl
          /\ pc \in {"reset", "wait"} =>
                \A d \in Devices : place[d] = pl => ~port[pl].c_connection
          /\ pc = "reset" => ~port[pl].enabled /\ port[pl].power
          /\ pc = "wait" =>
                /\ port[pl].power
                /\ \A d \in Devices : place[d] = pl =>
                      port[pl].resetting \/ (port[pl].enabled /\ usb[d] = 0)
          /\ pc \in {"new_device", "set_address"} =>
                port[pl].enabled \/ port[pl].c_connection
    /\ pc \in {"new_device", "set_address"} => \A d \in Devices : Here(d) => usb[d] = 0

\* The port has no entry until device_connect makes one.
VacantOK ==
    \/ pc \in {"root_reset", "reset", "wait", "new_device"}
    \/ pc = "clear" /\ ctx.bit = 0 /\ ctx.connected
    => Vacant(ctx.hub, ctx.port)

AddressingOK ==
    /\ pc = "set_address" =>
          /\ ctx.address # 0 /\ \A d \in Devices : usb[d] # ctx.address
          /\ \A d \in Devices : Here(d) => (ctx.is_hub <=> d \in Hubs /\ ~no_hubs)
          /\ ctx.is_hub => ctx.address < MAX_HUBS
    /\ pc \in {"new_hub", "power"} =>
          /\ ctx.address \in HubAddr
          /\ \A d \in Devices : usb[d] = ctx.address => d \in Hubs

EntryMade ==
    pc = "set_address" =>
        /\ parent[ctx.address] = T!Entry(ctx.hub, ctx.port)
        /\ \A b \in T!Present : T!HubOf(parent[b]) # ctx.address

KnownOK ==
    \A d \in Devices : Answers(d) =>
        usb[d] \in known \/ (pc \in {"new_hub", "power"} /\ usb[d] = ctx.address)

\* With hubs, and without.
TreeOK ==
    ~no_hubs => /\ TableOK /\ HubsFit /\ EntriesOK /\ HubsOK /\ TopologyIsTrue
                /\ VacantOK /\ EntryMade /\ known \subseteq T!Present
AloneOK ==
    no_hubs =>
        /\ \A d \in Devices : usb[d] \in {0, 1, Off}
        /\ pc \in {"idle", "root_reset", "new_device", "set_address"}
        /\ pc = "set_address" => ctx.address = 1
        /\ pipes = <<>> /\ known \subseteq {1} /\ (rootSeen = "absent" => known = {})

PlantOK == Types /\ PlugsOK /\ PortsOK /\ RootOK /\ AtAddressZero /\ ServedOK
Inv == PlantOK /\ WhereOK /\ ConnectingOK /\ AddressingOK /\ KnownOK /\ TreeOK /\ AloneOK

-----------------------------------------------------------------------------
(* Basics.                                                                 *)

\* The places are different.
LEMMA PlaceFacts ==
    /\ RootPlace \notin HubPorts /\ Nowhere \notin HubPorts /\ RootPlace # Nowhere
    /\ \A pl \in HubPorts : /\ pl[1] \in Hubs /\ pl[1] \in Devices /\ pl[2] \in 1 .. NPORTS
                            /\ pl = <<pl[1], pl[2]>>
    /\ \A h \in Hubs, p \in 1 .. NPORTS :
          <<h, p>> \in HubPorts /\ <<h, p>>[1] = h /\ <<h, p>>[2] = p
BY BusAssumption DEF RootPlace, Nowhere, HubPorts

\* The packing of hub and port into an entry loses neither.
LEMMA Codec ==
    ASSUME NEW h \in 0 .. 15, NEW p \in Nat
    PROVE  /\ T!Entry(h, p) \in Nat
           /\ T!HubOf(T!Entry(h, p)) = h /\ T!PortOf(T!Entry(h, p)) = p
           /\ p >= 1 => T!Entry(h, p) > 0
BY DEF T!Entry, T!HubOf, T!PortOf

\* Different ports have different entries.
LEMMA EntryInjective ==
    ASSUME NEW h \in 0 .. 15, NEW p \in Nat, NEW g \in 0 .. 15, NEW q \in Nat,
           T!Entry(h, p) = T!Entry(g, q)
    PROVE  h = g /\ p = q
BY Codec

\* Without noise on the bus a transfer only fails if nobody answers, or more
\* than one device does.
LEMMA Failing ==
    ASSUME Calm, errors = 0, NEW A, Fails(A),
           \A d, e \in A : d = e
    PROVE  A = {} /\ errors' = 0
<1>1. Cardinality(A) # 1 /\ errors' = errors
    BY DEF Fails, Calm
<1>2. ASSUME NEW d \in A PROVE FALSE
    <2>1. A = {d}
        OBVIOUS
    <2>2. Cardinality(A) = 1
        BY <2>1, FS_Singleton
    <2> QED BY <1>1, <2>2
<1> QED BY <1>1, <1>2

\* The event handler's locals.
LEMMA YieldCtx ==
    ASSUME Types, NEW k, NEW s, NEW w, Yield(k, s, w)
    PROVE  /\ pc' = "idle" /\ event'.why = w
           /\ ctx' \in [hub : 0 .. MAX_HUBS - 1, port : Nat, todo : SUBSET (1 .. NPORTS),
                        bit : {0, 4}, connected : BOOLEAN, is_hub : BOOLEAN,
                        address : 0 .. MAX_DEVICES - 1]
           /\ ctx'.hub = 0 /\ ctx'.port = 0
<1>1. MAX_HUBS \in Nat /\ MAX_HUBS >= 1 /\ MAX_DEVICES \in Nat /\ MAX_DEVICES >= 1
    BY BusAssumption
<1>2. 0 \in 0 .. MAX_HUBS - 1 /\ 0 \in 0 .. MAX_DEVICES - 1 /\ {} \in SUBSET (1 .. NPORTS)
    BY <1>1
<1> QED BY <1>2 DEF Types, Yield

\* What the handler's leaving a port asks for: nobody is left at address 0,
\* no port in reset and no device unattended.
Leaving ==
    /\ \A d \in Devices : usb[d] # 0
    /\ \A pl \in HubPorts : ~port[pl].resetting
    /\ pc \in {"reset", "wait", "new_device", "set_address"} =>
          \A pl \in HubPorts : Mine(pl) =>
             /\ \A d \in Devices : place[d] # pl
             /\ pc = "set_address" => port[pl].c_connection
    /\ pc \in {"new_hub", "power"} => \A d \in Devices : usb[d] # ctx.address
    /\ pc = "root_reset" \/ (ctx.hub = 0 /\ pc \in {"new_device", "set_address"}) =>
          \A d \in Devices : place[d] # RootPlace

\* The same ports, but for a change that has been acknowledged.
SamePorts ==
    \A pl \in HubPorts : /\ port'[pl].power <=> port[pl].power
                         /\ port'[pl].c_connection <=> port[pl].c_connection
                         /\ port'[pl].enabled <=> port[pl].enabled
                         /\ port'[pl].resetting <=> port[pl].resetting

\* The handler leaves a port.
LEMMA LeavesPlant ==
    ASSUME PlantOK, Leaving, SamePorts, Types', pc' \in {"idle", "status"},
           ctx'.port = 0, UNCHANGED <<place, usb, rootSeen, no_hubs>>
    PROVE  PlantOK'
<1>1. \A pl \in HubPorts : ~Mine(pl)'
    BY PlaceFacts DEF Mine
<1>2. \A d : Answers(d)' <=> Answers(d)
    BY DEF Answers, Off
<1>3. PlugsOK'
    BY <1>2, Zenon DEF PlantOK, PlugsOK, SamePorts, Off
<1>4. PortsOK'
    BY <1>1, <1>2 DEF PlantOK, PortsOK, Leaving, SamePorts, Dark
<1>5. RootOK'
    BY <1>2 DEF PlantOK, RootOK, Leaving, RootStatus, On, Off, Answers
<1>6. AtAddressZero'
    BY DEF Leaving, AtAddressZero
<1>7. ServedOK'
    BY <1>1, <1>2 DEF PlantOK, ServedOK, Leaving, SamePorts
<1> QED BY <1>3, <1>4, <1>5, <1>6, <1>7 DEF PlantOK

\* It leaves the rest as it is.
LEMMA LeavesInv ==
    ASSUME Inv, Leaving, SamePorts, Types', pc' \in {"idle", "status"},
           ctx'.port = 0, pc' = "status" => ctx'.hub \in HubAddr /\ ~no_hubs,
           UNCHANGED <<place, usb, rootSeen, no_hubs, parent, pipes, known>>
    PROVE  Inv'
<1>1. PlantOK'
    BY LeavesPlant DEF Inv
<1>2. \A pl \in HubPorts : ~Mine(pl)'
    BY PlaceFacts DEF Mine
<1>3. \A d : Answers(d)' <=> Answers(d)
    BY DEF Answers, Off
<1>4. WhereOK'
    BY DEF WhereOK
<1>5. ConnectingOK' /\ AddressingOK'
    BY <1>2 DEF ConnectingOK, AddressingOK
<1>6. KnownOK'
    BY <1>3 DEF Inv, KnownOK, Leaving
<1>7. ASSUME ~no_hubs
      PROVE  /\ TableOK' /\ HubsFit' /\ EntriesOK' /\ HubsOK' /\ TopologyIsTrue'
             /\ VacantOK' /\ EntryMade' /\ (known \subseteq T!Present)'
    <2>1. /\ TableOK /\ HubsFit /\ EntriesOK /\ HubsOK /\ TopologyIsTrue
          /\ known \subseteq T!Present
        BY <1>7 DEF Inv, TreeOK
    <2>2. TableOK'
        BY <2>1 DEF TableOK, T!Present, T!PresentIn, T!NoOrphans, T!RootedAtRoot
    <2>3. HubsFit' /\ TopologyIsTrue' /\ (known \subseteq T!Present)'
        BY <2>1 DEF HubsFit, TopologyIsTrue, Off, T!Present, T!PresentIn
    <2>4. EntriesOK'
        <3>1. ASSUME NEW h \in Hubs, NEW p \in 1 .. NPORTS, Answers(h),
                     NEW a \in T!Addr, parent[a] = T!Entry(usb[h], p)
              PROVE  \/ \E d \in Devices : place[d] = <<h, p>> /\ usb[d] = a
                     \/ port'[<<h, p>>].c_connection /\ \A d \in Devices : place[d] # <<h, p>>
            <4>1. <<h, p>> \in HubPorts
                BY PlaceFacts
            <4>2. CASE pc = "set_address" /\ Mine(<<h, p>>) /\ ctx.address = a
                BY <4>1, <4>2 DEF Leaving, SamePorts
            <4> QED BY <2>1, <3>1, <4>1, <4>2 DEF EntriesOK, SamePorts
        <3>2. ASSUME NEW a \in T!Addr, parent[a] = T!Entry(0, 1)
              PROVE  /\ rootSeen # "absent"
                     /\ \/ \E d \in Devices : place[d] = RootPlace /\ usb[d] = a
                        \/ \A d \in Devices : place[d] # RootPlace
            BY <2>1, <3>2 DEF EntriesOK, Leaving
        <3> QED BY <1>3, <3>1, <3>2 DEF EntriesOK
    <2>5. HubsOK'
        <3>1. ASSUME NEW h \in Hubs, NEW p \in 1 .. NPORTS, Answers(h)
              PROVE  port'[<<h, p>>].power
            <4>1. <<h, p>> \in HubPorts /\ h \in Devices
                BY PlaceFacts, BusAssumption
            <4>2. port[<<h, p>>].power
                BY <2>1, <3>1, <4>1 DEF HubsOK, Leaving
            <4> QED BY <4>1, <4>2 DEF SamePorts
        <3> QED BY <1>3, <3>1 DEF HubsOK
    <2>6. VacantOK' /\ EntryMade'
        BY DEF VacantOK, EntryMade
    <2> QED BY <2>2, <2>3, <2>4, <2>5, <2>6
<1>8. TreeOK'
    BY <1>7 DEF TreeOK
<1>9. AloneOK'
    BY DEF Inv, AloneOK, Off
<1> QED BY <1>1, <1>4, <1>5, <1>6, <1>8, <1>9 DEF Inv

\* A step that leaves alone all that the invariant is about but types.
LEMMA SameInv ==
    ASSUME Inv, Types',
           UNCHANGED <<place, usb, port, rootSeen, no_hubs, parent, pipes, pc, ctx, known>>
    PROVE  Inv'
<1>1. /\ PlugsOK' /\ PortsOK' /\ RootOK' /\ AtAddressZero' /\ ServedOK'
    BY Zenon DEF Inv, PlantOK, PlugsOK, PortsOK, RootOK, AtAddressZero, ServedOK, Answers,
       Off, Mine, Here, Dark, RootStatus, On
<1>2. WhereOK' /\ ConnectingOK' /\ AddressingOK' /\ KnownOK'
    BY Zenon DEF Inv, WhereOK, ConnectingOK, AddressingOK, KnownOK, Answers, Off, Mine, Here
<1>3. TreeOK'
    <2>1. TableOK => TableOK'
        BY DEF TableOK, T!Present, T!PresentIn, T!NoOrphans, T!RootedAtRoot
    <2>2. HubsFit' <=> HubsFit
        BY Zenon DEF HubsFit, Off
    <2>3. EntriesOK => EntriesOK'
        BY DEF EntriesOK, Answers, Off, Mine
    <2>4. HubsOK' <=> HubsOK
        BY Zenon DEF HubsOK, Answers, Off, Dark
    <2>5. TopologyIsTrue' <=> TopologyIsTrue
        BY Zenon DEF TopologyIsTrue, Off
    <2>6. (VacantOK' <=> VacantOK) /\ (EntryMade' <=> EntryMade)
        BY Zenon DEF VacantOK, Vacant, EntryMade, T!Present, T!PresentIn
    <2>7. (known \subseteq T!Present)' <=> known \subseteq T!Present
        BY Zenon DEF T!Present, T!PresentIn
    <2> QED BY <2>1, <2>2, <2>3, <2>4, <2>5, <2>6, <2>7 DEF Inv, TreeOK
<1>4. AloneOK'
    BY Zenon DEF Inv, AloneOK, Off
<1> QED BY <1>1, <1>2, <1>3, <1>4 DEF Inv, PlantOK

-----------------------------------------------------------------------------
(* The handler gives up, goes on to the next port, or takes a packet.      *)

\* No two devices answer to one address.
LEMMA OneAnswer ==
    ASSUME Inv, NEW x \in 0 .. MAX_DEVICES - 1
    PROVE  /\ \A d, e \in Responders(x) : d = e
           /\ \A d, e \in HubsAt(x) : d = e
<1>1. x # Off
    BY BusAssumption DEF Off
<1> QED BY <1>1 DEF Inv, PlantOK, PlugsOK, Responders, HubsAt

\* A failed transfer.
LEMMA FailedTransfer ==
    ASSUME Inv, Calm, NEW A, TransferError(A), \A d, e \in A : d = e,
           A = {} => Leaving
    PROVE  Inv'
<1>1. /\ Fails(A) /\ Yield("error", {}, "transfer")
      /\ UNCHANGED <<place, usb, port, parent, pipes, packet, rootSeen, no_hubs, known>>
    BY DEF TransferError, plant, topology
<1>2. A = {} /\ errors' = 0
    BY <1>1, Failing DEF Inv, PlantOK, Types
<1>3. /\ pc' = "idle" /\ ctx'.port = 0 /\ Types'
    BY <1>1, <1>2, YieldCtx DEF Inv, PlantOK, Types
<1>4. SamePorts
    BY <1>1 DEF SamePorts
<1> QED BY <1>1, <1>2, <1>3, <1>4, LeavesInv

\* The new device does not answer any more.
LEMMA DeviceLost ==
    ASSUME Inv, Calm, pc \in {"new_device", "set_address"}, TransferError(Responders(0))
    PROVE  Inv'
<1>1. \A d, e \in Responders(0) : d = e
    BY OneAnswer, BusAssumption
<1>2. ASSUME Responders(0) = {} PROVE Leaving
    <2>1. \A d \in Devices : usb[d] # 0
        BY <1>2 DEF Responders
    <2>2. \A pl \in HubPorts : ~port[pl].resetting
        BY DEF Inv, PlantOK, PortsOK
    <2>3. ASSUME NEW pl \in HubPorts, Mine(pl)
          PROVE  (\A d \in Devices : place[d] # pl) /\ port[pl].c_connection
        <3>1. ctx.hub # 0
            BY <2>3 DEF Mine, Answers
        <3>2. \A d \in Devices : place[d] # pl
            BY <2>1, <2>3, <3>1 DEF Inv, ConnectingOK, Here
        <3>3. port[pl].enabled \/ port[pl].c_connection
            BY <2>3 DEF Inv, ConnectingOK
        <3> QED BY <3>2, <3>3 DEF Inv, PlantOK, PortsOK
    <2>4. ctx.hub = 0 => \A d \in Devices : place[d] # RootPlace
        BY <2>1 DEF Inv, ConnectingOK, Here
    <2> QED BY <2>1, <2>2, <2>3, <2>4 DEF Leaving
<1> QED BY <1>1, <1>2, FailedTransfer

\* The hub that the packet came from does not.
LEMMA HubLost ==
    ASSUME Inv, Calm, pc \in {"status", "clear", "reset", "wait"},
           TransferError(HubsAt(ctx.hub))
    PROVE  Inv'
<1>1. ctx.hub \in HubAddr /\ ctx.hub \in 0 .. MAX_DEVICES - 1 /\ ctx.hub # 0
    BY BusAssumption DEF Inv, WhereOK, HubAddr
<1>2. \A d, e \in HubsAt(ctx.hub) : d = e
    BY <1>1, OneAnswer
<1>3. ASSUME HubsAt(ctx.hub) = {} PROVE Leaving
    <2>1. \A pl \in HubPorts : ~Mine(pl)
        BY <1>3, PlaceFacts DEF Mine, HubsAt, Responders
    <2>2. \A d \in Devices : usb[d] # 0
        BY <1>1, <2>1 DEF Inv, PlantOK, AtAddressZero, Here
    <2>3. \A pl \in HubPorts : ~port[pl].resetting
        BY <2>1 DEF Inv, PlantOK, PortsOK
    <2> QED BY <1>1, <2>1, <2>2, <2>3 DEF Leaving
<1> QED BY <1>2, <1>3, FailedTransfer

\* The new hub does not.
LEMMA NewHubLost ==
    ASSUME Inv, Calm, pc \in {"new_hub", "power"}, TransferError(HubsAt(ctx.address))
    PROVE  Inv'
<1>1. ctx.address \in 0 .. MAX_DEVICES - 1
    BY DEF Inv, PlantOK, Types
<1>2. \A d, e \in HubsAt(ctx.address) : d = e
    BY <1>1, OneAnswer
<1>3. ASSUME HubsAt(ctx.address) = {} PROVE Leaving
    <2>1. \A d \in Devices : usb[d] # ctx.address
        BY <1>3 DEF Inv, AddressingOK, HubsAt, Responders
    <2>2. \A d \in Devices : usb[d] # 0
        BY DEF Inv, PlantOK, AtAddressZero
    <2>3. \A pl \in HubPorts : ~port[pl].resetting
        BY DEF Inv, PlantOK, PortsOK
    <2> QED BY <2>1, <2>2, <2>3 DEF Leaving
<1> QED BY <1>2, <1>3, FailedTransfer

\* Nothing is left behind by a handler that is not at a port.
LEMMA IdleLeaves ==
    ASSUME Inv, pc \in {"idle", "status"}
    PROVE  Leaving
BY DEF Inv, PlantOK, AtAddressZero, PortsOK, Leaving

\* The next port of the packet.
LEMMA NextPortCtx ==
    ASSUME Inv, NEW p, NextPort(p), ctx.hub \in HubAddr
    PROVE  /\ pc' \in {"idle", "status"} /\ ctx'.port = 0
           /\ pc' = "status" => ctx'.hub \in HubAddr
           /\ ctx' \in [hub : 0 .. MAX_HUBS - 1, port : Nat, todo : SUBSET (1 .. NPORTS),
                        bit : {0, 4}, connected : BOOLEAN, is_hub : BOOLEAN,
                        address : 0 .. MAX_DEVICES - 1]
<1>1. CASE ctx.todo = {p}
    BY <1>1, YieldCtx DEF NextPort, Inv, PlantOK
<1>2. CASE ctx.todo # {p}
    <2>1. /\ pc' = "status"
          /\ ctx' = [ctx EXCEPT !.todo = @ \ {p}, !.port = 0, !.connected = FALSE, !.bit = 0]
        BY <1>2 DEF NextPort
    <2>2. ctx.todo \ {p} \in SUBSET (1 .. NPORTS) /\ 0 \in Nat /\ FALSE \in BOOLEAN
        BY DEF Inv, PlantOK, Types
    <2> QED BY <2>1, <2>2 DEF Inv, PlantOK, Types
<1> QED BY <1>1, <1>2

\* And on to it, when nothing is left behind.
LEMMA NextPortInv ==
    ASSUME Inv, NEW p, NextPort(p), pc \in {"status", "clear", "reset", "wait"},
           Leaving, SamePorts, port' \in [HubPorts -> PortStates],
           UNCHANGED <<place, usb, errors, parent, pipes, packet, rootSeen, no_hubs, known>>
    PROVE  Inv'
<1>1. ctx.hub \in HubAddr /\ ~no_hubs
    BY DEF Inv, WhereOK, AloneOK
<1>2. /\ pc' \in {"idle", "status"} /\ ctx'.port = 0
      /\ pc' = "status" => ctx'.hub \in HubAddr
      /\ ctx' \in [hub : 0 .. MAX_HUBS - 1, port : Nat, todo : SUBSET (1 .. NPORTS),
                   bit : {0, 4}, connected : BOOLEAN, is_hub : BOOLEAN,
                   address : 0 .. MAX_DEVICES - 1]
    BY <1>1, NextPortCtx
<1>3. Types'
    BY <1>2 DEF Inv, PlantOK, Types
<1> QED BY <1>1, <1>2, <1>3, LeavesInv

\* A packet arrives.
LEMMA PollInv ==
    ASSUME Inv, NEW k \in DOMAIN packet, PipePoll(k)
    PROVE  Inv'
<1>1. UNCHANGED <<place, usb, port, parent, pipes, rootSeen, no_hubs, pc, ctx, known, errors>>
    BY DEF PipePoll, plant, topology
<1>2. PICK h \in HubsAt(pipes[k]) : packet' = [packet EXCEPT ![k] = ChangedPorts(h)]
    BY DEF PipePoll
<1>3. packet' \in Seq(SUBSET (1 .. NPORTS)) /\ Len(packet') = Len(packet)
    <2>1. ChangedPorts(h) \in SUBSET (1 .. NPORTS)
        BY DEF ChangedPorts
    <2> QED BY <1>2, <2>1 DEF Inv, PlantOK, Types
<1>4. Types'
    BY <1>1, <1>3 DEF Inv, PlantOK, Types
<1> QED BY <1>1, <1>4, SameInv

\* It is taken.
LEMMA TakePacketInv ==
    ASSUME Inv, TakePacket
    PROVE  Inv'
<1>1. PICK k \in DOMAIN packet :
          /\ packet' = [packet EXCEPT ![k] = {}]
          /\ ctx' = [ctx EXCEPT !.hub = pipes[k], !.todo = packet[k]]
    BY DEF TakePacket
<1>2. /\ pc = "idle" /\ pc' = "status"
      /\ UNCHANGED <<place, usb, port, parent, pipes, rootSeen, no_hubs, known, errors>>
    BY DEF TakePacket, plant, topology
<1>3. /\ k \in 1 .. Len(pipes) /\ pipes[k] \in HubAddr /\ packet[k] \in SUBSET (1 .. NPORTS)
      /\ packet' \in Seq(SUBSET (1 .. NPORTS)) /\ Len(packet') = Len(packet)
    BY <1>1 DEF Inv, PlantOK, Types
<1>4. pipes[k] \in 0 .. MAX_HUBS - 1
    BY <1>3, BusAssumption DEF HubAddr
<1>5. Types' /\ ctx'.port = 0 /\ ctx'.hub \in HubAddr
    BY <1>1, <1>2, <1>3, <1>4 DEF Inv, PlantOK, Types, WhereOK
<1>6. ~no_hubs
    BY <1>3 DEF Inv, AloneOK
<1>7. SamePorts
    BY <1>2 DEF SamePorts
<1> QED BY <1>2, <1>5, <1>6, <1>7, IdleLeaves, LeavesInv

-----------------------------------------------------------------------------
(* The handler of a packet.                                                *)

\* What the table says is not touched.
LEMMA TableSame ==
    ASSUME Inv, ~no_hubs, UNCHANGED <<place, usb, parent, no_hubs>>
    PROVE  /\ TableOK' /\ HubsFit' /\ TopologyIsTrue' /\ T!Present' = T!Present
           /\ known \subseteq T!Present'
<1>1. TableOK /\ HubsFit /\ TopologyIsTrue /\ known \subseteq T!Present
    BY DEF Inv, TreeOK
<1>2. TableOK'
    BY <1>1 DEF TableOK, T!Present, T!PresentIn, T!NoOrphans, T!RootedAtRoot
<1>3. HubsFit' /\ TopologyIsTrue'
    BY <1>1 DEF HubsFit, TopologyIsTrue, Off
<1>4. T!Present' = T!Present
    BY DEF T!Present, T!PresentIn
<1> QED BY <1>1, <1>2, <1>3, <1>4

\* A hub that answers to the address in hand owns the port in hand.
LEMMA HubInHand ==
    ASSUME Inv, ctx.hub \in HubAddr, NEW h \in HubsAt(ctx.hub)
    PROVE  /\ h \in Hubs /\ h \in Devices /\ Answers(h) /\ usb[h] = ctx.hub
           /\ ctx.port \in 1 .. NPORTS => <<h, ctx.port>> \in HubPorts /\ Mine(<<h, ctx.port>>)
           /\ \A g \in Hubs : Answers(g) /\ usb[g] = ctx.hub => g = h
           /\ \A pl \in HubPorts : Mine(pl) => pl = <<h, ctx.port>>
<1>1. h \in Hubs /\ h \in Devices /\ usb[h] = ctx.hub
    BY DEF HubsAt, Responders
<1>2. Answers(h)
    BY <1>1, BusAssumption DEF Answers, Off, HubAddr
<1>3. \A g \in Hubs : Answers(g) /\ usb[g] = ctx.hub => g = h
    BY <1>1, BusAssumption DEF Inv, PlantOK, PlugsOK, Answers
<1>4. \A pl \in HubPorts : Mine(pl) => pl = <<h, ctx.port>>
    BY <1>3, PlaceFacts DEF Mine
<1>5. ctx.port \in 1 .. NPORTS => <<h, ctx.port>> \in HubPorts /\ Mine(<<h, ctx.port>>)
    BY <1>1, <1>2, PlaceFacts DEF Mine
<1> QED BY <1>1, <1>2, <1>3, <1>4, <1>5

\* A change is found on a port.
LEMMA ChangeFound ==
    ASSUME Inv, pc = "status", NEW h \in HubsAt(ctx.hub), NEW p \in ctx.todo,
           NEW bit \in get_hub_port_status(h, p).changes, pc' = "clear",
           ctx' = [ctx EXCEPT !.port = p,
                              !.connected = get_hub_port_status(h, p).connected, !.bit = bit],
           UNCHANGED <<place, usb, port, errors, parent, pipes, packet, rootSeen, no_hubs, known>>
    PROVE  Inv'
<1>1. ctx.hub \in HubAddr /\ ctx.hub # 0 /\ ~no_hubs /\ p \in 1 .. NPORTS
    BY BusAssumption DEF Inv, WhereOK, AloneOK, PlantOK, Types, HubAddr
<1>2. /\ h \in Hubs /\ h \in Devices /\ Answers(h) /\ usb[h] = ctx.hub
      /\ \A g \in Hubs : Answers(g) /\ usb[g] = ctx.hub => g = h
    BY <1>1, HubInHand
<1>3. <<h, p>> \in HubPorts
    BY <1>1, <1>2, PlaceFacts
<1>4. /\ bit \in {0, 4} /\ (bit = 0 => port[<<h, p>>].c_connection)
      /\ get_hub_port_status(h, p).connected \in BOOLEAN
      /\ get_hub_port_status(h, p).connected <=> \E d \in Devices : place[d] = <<h, p>>
    <2> DEFINE st == get_hub_port_status(h, p)
    <2>1. /\ st.changes = (IF port[<<h, p>>].c_connection THEN {0} ELSE {}) \cup
                          (IF port[<<h, p>>].c_reset THEN {4} ELSE {})
          /\ st.connected = (On(place, <<h, p>>) # {})
        BY DEF get_hub_port_status
    <2>2. bit \in {0, 4} /\ (bit = 0 => port[<<h, p>>].c_connection)
        BY <2>1
    <2>3. On(place, <<h, p>>) # {} <=> \E d \in Devices : place[d] = <<h, p>>
        BY Zenon DEF On
    <2> QED BY <2>1, <2>2, <2>3
<1>5. /\ ctx'.hub = ctx.hub /\ ctx'.port = p /\ ctx'.bit = bit
      /\ ctx'.connected <=> \E d \in Devices : place[d] = <<h, p>>
    BY <1>4 DEF Inv, PlantOK, Types
<1>6. Types'
    <2>1. p \in Nat
        BY <1>1, BusAssumption
    <2> QED BY <1>4, <2>1 DEF Inv, PlantOK, Types
<1>7. \A pl \in HubPorts : Mine(pl)' => pl = <<h, p>>
    BY <1>2, <1>5, PlaceFacts DEF Mine, Answers, Off
<1>8. \A d : Answers(d)' <=> Answers(d)
    BY DEF Answers, Off
<1>9. \A d \in Devices : usb[d] # 0
    BY DEF Inv, PlantOK, AtAddressZero
<1>10. PlugsOK'
    BY <1>8, Zenon DEF Inv, PlantOK, PlugsOK, Off
<1>11. PortsOK'
    BY <1>8 DEF Inv, PlantOK, PortsOK, Dark
<1>12. RootOK' /\ AtAddressZero'
    BY <1>1, <1>5, <1>8, <1>9 DEF Inv, PlantOK, RootOK, RootStatus, On, AtAddressZero, Off
<1>13. ServedOK'
    BY <1>8 DEF Inv, PlantOK, ServedOK
<1>14. WhereOK' /\ AddressingOK' /\ KnownOK'
    BY <1>1, <1>5, <1>8 DEF Inv, WhereOK, AddressingOK, KnownOK
<1>15. ConnectingOK'
    BY <1>4, <1>5, <1>7 DEF ConnectingOK
<1>16. TreeOK'
    <2>1. /\ TableOK' /\ HubsFit' /\ TopologyIsTrue' /\ T!Present' = T!Present
          /\ known \subseteq T!Present'
        BY <1>1, TableSame
    <2>2. EntriesOK'
        BY <1>1, <1>8 DEF Inv, TreeOK, EntriesOK
    <2>3. HubsOK'
        BY <1>1, <1>8 DEF Inv, TreeOK, HubsOK, Dark
    <2>4. VacantOK'
        <3>1. SUFFICES ASSUME bit = 0, ctx'.connected, NEW a \in T!Addr,
                              parent[a] = T!Entry(ctx.hub, p)
                       PROVE  FALSE
            BY <1>5 DEF VacantOK, Vacant
        <3>2. \/ \E d \in Devices : place[d] = <<h, p>> /\ usb[d] = a
              \/ \A d \in Devices : place[d] # <<h, p>>
            <4>1. EntriesOK /\ parent[a] = T!Entry(usb[h], p) /\ pc # "set_address"
                BY <1>1, <1>2, <3>1 DEF Inv, TreeOK
            <4> QED BY <1>1, <1>2, <4>1 DEF EntriesOK
        <3>3. PICK d \in Devices : place[d] = <<h, p>> /\ usb[d] = a
            BY <1>5, <3>1, <3>2
        <3>4. usb[d] # Off
            BY <3>3, BusAssumption DEF T!Addr, Off
        <3>5. port[<<h, p>>].enabled
            BY <1>3, <3>3, <3>4, PlaceFacts DEF Inv, PlantOK, PlugsOK
        <3> QED BY <1>3, <1>4, <3>1, <3>5 DEF Inv, PlantOK, PortsOK
    <2>5. EntryMade'
        BY DEF EntryMade
    <2> QED BY <2>1, <2>2, <2>3, <2>4, <2>5 DEF TreeOK
<1>17. AloneOK'
    BY <1>1 DEF AloneOK
<1> QED BY <1>6, <1>10, <1>11, <1>12, <1>13, <1>14, <1>15, <1>16, <1>17 DEF Inv, PlantOK

\* The status of a port is read.
LEMMA PortStatusInv ==
    ASSUME Inv, Calm, PortStatus
    PROVE  Inv'
<1>1. pc = "status"
    BY DEF PortStatus
<1>2. CASE TransferError(HubsAt(ctx.hub))
    BY <1>1, <1>2, HubLost
<1>3. ASSUME NEW h \in HubsAt(ctx.hub), NEW p \in ctx.todo,
             \/ get_hub_port_status(h, p).changes = {} /\ NextPort(p)
             \/ \E bit \in get_hub_port_status(h, p).changes :
                   /\ pc' = "clear"
                   /\ ctx' = [ctx EXCEPT !.port = p,
                                         !.connected = get_hub_port_status(h, p).connected,
                                         !.bit = bit],
             UNCHANGED <<plant, errors, topology, pipes, packet, rootSeen, no_hubs, known>>
      PROVE  Inv'
    <2>1. UNCHANGED <<place, usb, port, errors, parent, pipes, packet, rootSeen, no_hubs, known>>
        BY <1>3 DEF plant, topology
    <2>2. CASE NextPort(p)
        <3>1. SamePorts /\ port' \in [HubPorts -> PortStates]
            BY <2>1 DEF SamePorts, Inv, PlantOK, Types
        <3> QED BY <1>1, <2>1, <2>2, <3>1, IdleLeaves, NextPortInv
    <2>3. ASSUME NEW bit \in get_hub_port_status(h, p).changes,
                 pc' = "clear",
                 ctx' = [ctx EXCEPT !.port = p,
                                    !.connected = get_hub_port_status(h, p).connected,
                                    !.bit = bit]
          PROVE  Inv'
        BY <1>1, <2>1, <2>3, ChangeFound
    <2> QED BY <1>3, <2>2, <2>3
<1> QED BY <1>2, <1>3 DEF PortStatus

\* The change of a port with something in it is acknowledged.
LEMMA ArrivalCleared ==
    ASSUME Inv, pc = "clear", NEW h \in HubsAt(ctx.hub), ctx.bit = 0, ctx.connected,
           port' = [port EXCEPT ![<<h, ctx.port>>].c_connection = FALSE], pc' = "reset",
           UNCHANGED <<place, usb, ctx, errors, parent, pipes, packet, rootSeen, no_hubs, known>>
    PROVE  Inv'
<1> DEFINE here == <<h, ctx.port>>
<1>1. ctx.hub \in HubAddr /\ ctx.hub # 0 /\ ~no_hubs /\ ctx.port \in 1 .. NPORTS
    BY BusAssumption DEF Inv, WhereOK, AloneOK, HubAddr
<1>2. /\ h \in Hubs /\ h \in Devices /\ Answers(h) /\ usb[h] = ctx.hub
      /\ here \in HubPorts /\ Mine(here)
      /\ \A pl \in HubPorts : Mine(pl) => pl = here
    BY <1>1, HubInHand
<1>3. /\ port' \in [HubPorts -> PortStates] /\ ~port'[here].c_connection
      /\ port'[here].power = port[here].power
      /\ port'[here].enabled = port[here].enabled
      /\ port'[here].resetting = port[here].resetting
      /\ \A pl \in HubPorts : pl # here => port'[pl] = port[pl]
    BY <1>2 DEF Inv, PlantOK, Types, PortStates
<1>4. port[here].c_connection /\ port[here].power /\ ~port[here].enabled
    BY <1>2 DEF Inv, PlantOK, PortsOK, ConnectingOK
<1> HIDE DEF here
<1>5. \A pl : Mine(pl)' <=> Mine(pl)
    BY Zenon DEF Mine, Answers, Off
<1>6. \A d : Answers(d)' <=> Answers(d)
    BY DEF Answers, Off
<1>7. \A d \in Devices : usb[d] # 0
    BY DEF Inv, PlantOK, AtAddressZero
<1>8. Types'
    BY <1>3 DEF Inv, PlantOK, Types
<1>9. PlugsOK'
    <2>1. \A pl \in HubPorts : port[pl].enabled => port'[pl].enabled
        BY <1>3
    <2> QED BY <1>6, <2>1, Zenon DEF Inv, PlantOK, PlugsOK, Off
<1>10. PortsOK'
    <2>1. ASSUME NEW pl \in HubPorts
          PROVE  /\ port'[pl].enabled => /\ port'[pl].power /\ ~port'[pl].c_connection
                                         /\ ~port'[pl].resetting
                                         /\ \E d \in Devices : place[d] = pl
                 /\ ~Answers(pl[1]) \/ no_hubs => Dark(pl)'
                 /\ port'[pl].c_connection => port'[pl].power
                 /\ ~port'[pl].resetting
        <3>1. CASE pl = here
            BY <1>1, <1>2, <1>3, <1>4, <3>1 DEF Inv, PlantOK, PortsOK, Mine
        <3>2. CASE pl # here
            BY <1>3, <3>2 DEF Inv, PlantOK, PortsOK, Dark
        <3> QED BY <3>1, <3>2
    <2> QED BY <1>6, <2>1 DEF PortsOK
<1>11. RootOK' /\ AtAddressZero'
    BY <1>1, <1>6, <1>7 DEF Inv, PlantOK, RootOK, RootStatus, On, AtAddressZero, Off
<1>12. ServedOK'
    BY <1>2, <1>3, <1>5, <1>6 DEF Inv, PlantOK, ServedOK
<1>13. WhereOK' /\ AddressingOK' /\ KnownOK'
    BY <1>1, <1>6 DEF Inv, WhereOK, AddressingOK, KnownOK
<1>14. ConnectingOK'
    BY <1>2, <1>3, <1>4, <1>5 DEF ConnectingOK
<1>15. TreeOK'
    <2>1. /\ TableOK' /\ HubsFit' /\ TopologyIsTrue' /\ T!Present' = T!Present
          /\ known \subseteq T!Present'
        BY <1>1, TableSame
    <2>2. EntriesOK /\ HubsOK /\ Vacant(ctx.hub, ctx.port)
        BY <1>1 DEF Inv, TreeOK, VacantOK
    <2>3. EntriesOK'
        <3>1. ASSUME NEW g \in Hubs, NEW p \in 1 .. NPORTS, Answers(g),
                     NEW a \in T!Addr, parent[a] = T!Entry(usb[g], p)
              PROVE  \/ \E d \in Devices : place[d] = <<g, p>> /\ usb[d] = a
                     \/ port'[<<g, p>>].c_connection /\ \A d \in Devices : place[d] # <<g, p>>
            <4>1. <<g, p>> \in HubPorts
                BY PlaceFacts
            <4>2. <<g, p>> # here
                BY <1>2, <2>2, <3>1 DEF Vacant, here
            <4>3. \/ \E d \in Devices : place[d] = <<g, p>> /\ usb[d] = a
                  \/ port[<<g, p>>].c_connection /\ \A d \in Devices : place[d] # <<g, p>>
                BY <2>2, <3>1 DEF EntriesOK
            <4>4. port'[<<g, p>>] = port[<<g, p>>]
                BY <1>3, <4>1, <4>2
            <4> QED BY <4>3, <4>4
        <3>2. ASSUME NEW a \in T!Addr, parent[a] = T!Entry(0, 1)
              PROVE  /\ rootSeen # "absent"
                     /\ \/ \E d \in Devices : place[d] = RootPlace /\ usb[d] = a
                        \/ \A d \in Devices : place[d] # RootPlace
            BY <2>2, <3>2 DEF EntriesOK
        <3> QED BY <1>6, <3>1, <3>2 DEF EntriesOK
    <2>4. HubsOK'
        <3>1. ASSUME NEW g \in Hubs, NEW p \in 1 .. NPORTS, Answers(g)
              PROVE  port'[<<g, p>>].power
            <4>1. <<g, p>> \in HubPorts /\ port[<<g, p>>].power
                BY <2>2, <3>1, PlaceFacts DEF HubsOK
            <4> QED BY <1>3, <1>4, <4>1
        <3> QED BY <1>6, <3>1 DEF HubsOK
    <2>5. VacantOK' /\ EntryMade'
        BY <2>2 DEF VacantOK, Vacant, EntryMade
    <2> QED BY <2>1, <2>3, <2>4, <2>5 DEF TreeOK
<1>16. AloneOK'
    BY <1>1 DEF AloneOK
<1> QED BY <1>8, <1>9, <1>10, <1>11, <1>12, <1>13, <1>14, <1>15, <1>16 DEF Inv, PlantOK

\* A port is put into reset.
LEMMA PortResetInv ==
    ASSUME Inv, Calm, PortReset
    PROVE  Inv'
<1>a. pc = "reset"
    BY DEF PortReset
<1>b. CASE TransferError(HubsAt(ctx.hub))
    BY <1>a, <1>b, HubLost
<1>c. ASSUME NEW h \in HubsAt(ctx.hub), port' = InReset(h), pc' = "wait",
             UNCHANGED <<place, usb, moves, errors, topology, pipes, packet, rootSeen, no_hubs,
                         ctx, event, known>>
      PROVE  Inv'
    <2> DEFINE here == <<h, ctx.port>>
    <2>1. ctx.hub \in HubAddr /\ ctx.hub # 0 /\ ~no_hubs /\ ctx.port \in 1 .. NPORTS
        BY <1>a, BusAssumption DEF Inv, WhereOK, AloneOK, HubAddr
    <2>2. /\ h \in Hubs /\ h \in Devices /\ Answers(h) /\ usb[h] = ctx.hub
          /\ here \in HubPorts /\ Mine(here) /\ here[1] = h
          /\ \A pl \in HubPorts : Mine(pl) => pl = here
        BY <2>1, HubInHand
    <2>3. /\ port' \in [HubPorts -> PortStates]
          /\ port'[here].c_connection = port[here].c_connection
          /\ port'[here].power = port[here].power
          /\ ~port'[here].enabled
          /\ port'[here].resetting
          /\ \A pl \in HubPorts : pl # here => port'[pl] = port[pl]
        BY <1>c, <2>2 DEF Inv, PlantOK, Types, PortStates, InReset
    <2>4. port[here].power /\ ~port[here].enabled
        BY <1>a, <2>2 DEF Inv, ConnectingOK
    <2>5. parent' = parent /\ UNCHANGED <<place, usb, errors, rootSeen, no_hubs, ctx, known, pipes, packet>>
        BY <1>c DEF topology
    <2> HIDE DEF here
    <2>6. \A pl : Mine(pl)' <=> Mine(pl)
        BY <2>5, Zenon DEF Mine, Answers, Off
    <2>7. \A d : Answers(d)' <=> Answers(d)
        BY <2>5 DEF Answers, Off
    <2>8. \A d \in Devices : usb[d] # 0
        BY <1>a DEF Inv, PlantOK, AtAddressZero
    <2>9. Types'
        BY <2>3, <2>5 DEF Inv, PlantOK, Types
    <2>10. PlugsOK'
        <3>1. \A pl \in HubPorts : port[pl].enabled => port'[pl].enabled
            BY <2>3, <2>4
        <3> QED BY <2>5, <2>7, <3>1, Zenon DEF Inv, PlantOK, PlugsOK, Off
    <2>11. PortsOK'
        <3>1. ASSUME NEW pl \in HubPorts
              PROVE  /\ port'[pl].enabled => /\ port'[pl].power /\ ~port'[pl].c_connection
                                             /\ ~port'[pl].resetting
                                             /\ \E d \in Devices : place[d] = pl
                     /\ ~Answers(pl[1]) \/ no_hubs => Dark(pl)'
                     /\ port'[pl].c_connection => port'[pl].power
                     /\ port'[pl].resetting => Mine(pl)
            <4>1. CASE pl = here
                BY <2>1, <2>2, <2>3, <2>4, <4>1 DEF Inv, PlantOK, PortsOK
            <4>2. CASE pl # here
                BY <2>3, <4>2 DEF Inv, PlantOK, PortsOK, Dark
            <4> QED BY <4>1, <4>2
        <3> QED BY <1>c, <2>5, <2>6, <2>7, <3>1 DEF PortsOK
    <2>12. RootOK' /\ AtAddressZero'
        BY <1>a, <1>c, <2>1, <2>5, <2>7, <2>8 DEF Inv, PlantOK, RootOK, RootStatus, On,
           AtAddressZero, Off
    <2>13. ServedOK'
        BY <1>a, <1>c, <2>2, <2>3, <2>5, <2>6, <2>7 DEF Inv, PlantOK, ServedOK
    <2>14. WhereOK' /\ AddressingOK' /\ KnownOK'
        BY <1>a, <1>c, <2>1, <2>5, <2>7 DEF Inv, WhereOK, AddressingOK, KnownOK
    <2>15. ConnectingOK'
        BY <1>a, <1>c, <2>2, <2>3, <2>4, <2>5, <2>6 DEF Inv, ConnectingOK
    <2>16. TreeOK'
        <3>1. /\ TableOK' /\ HubsFit' /\ TopologyIsTrue' /\ T!Present' = T!Present
              /\ known \subseteq T!Present'
            BY <2>1, <2>5, TableSame
        <3>2. EntriesOK /\ HubsOK /\ Vacant(ctx.hub, ctx.port)
            BY <1>a, <2>1 DEF Inv, TreeOK, VacantOK
        <3>3. EntriesOK'
            <4>1. \A pl \in HubPorts : port'[pl].c_connection = port[pl].c_connection
                BY <2>3
            <4>2. ASSUME NEW g \in Hubs, NEW p \in 1 .. NPORTS, Answers(g),
                         NEW a \in T!Addr, parent[a] = T!Entry(usb[g], p)
                  PROVE  \/ \E d \in Devices : place[d] = <<g, p>> /\ usb[d] = a
                         \/ /\ port'[<<g, p>>].c_connection
                            /\ \A d \in Devices : place[d] # <<g, p>>
                <5>1. \/ \E d \in Devices : place[d] = <<g, p>> /\ usb[d] = a
                      \/ port[<<g, p>>].c_connection /\ \A d \in Devices : place[d] # <<g, p>>
                    BY <1>a, <3>2, <4>2 DEF EntriesOK
                <5> QED BY <4>1, <5>1, PlaceFacts
            <4>3. ASSUME NEW a \in T!Addr, parent[a] = T!Entry(0, 1)
                  PROVE  /\ rootSeen # "absent"
                         /\ \/ \E d \in Devices : place[d] = RootPlace /\ usb[d] = a
                            \/ \A d \in Devices : place[d] # RootPlace
                BY <1>a, <3>2, <4>3 DEF EntriesOK
            <4> QED BY <2>5, <2>7, <4>2, <4>3 DEF EntriesOK
        <3>4. HubsOK'
            <4>1. \A pl \in HubPorts : port'[pl].power = port[pl].power
                BY <2>3
            <4> QED BY <1>a, <1>c, <3>2, <4>1, <2>5, <2>7, PlaceFacts DEF HubsOK
        <3>5. VacantOK' /\ EntryMade'
            BY <1>c, <2>5, <3>2 DEF VacantOK, Vacant, EntryMade
        <3> QED BY <2>5, <3>1, <3>3, <3>4, <3>5 DEF TreeOK
    <2>17. AloneOK'
        BY <2>1, <2>5 DEF AloneOK
    <2> QED BY <2>9, <2>10, <2>11, <2>12, <2>13, <2>14, <2>15, <2>16, <2>17 DEF Inv, PlantOK
<1> QED BY <1>b, <1>c DEF PortReset

\* A port that has been reset is enabled: the device in it answers to address 0.
LEMMA ResetWorked ==
    ASSUME Inv, pc = "wait", NEW h \in HubsAt(ctx.hub), port[<<h, ctx.port>>].enabled,
           pc' = "new_device",
           UNCHANGED <<place, usb, port, ctx, errors, parent, pipes, packet, rootSeen, no_hubs,
                       known>>
    PROVE  Inv'
<1> DEFINE here == <<h, ctx.port>>
<1>1. ctx.hub \in HubAddr /\ ctx.hub # 0 /\ ~no_hubs /\ ctx.port \in 1 .. NPORTS
    BY BusAssumption DEF Inv, WhereOK, AloneOK, HubAddr
<1>2. /\ here \in HubPorts /\ Mine(here) /\ port[here].enabled
      /\ \A pl \in HubPorts : Mine(pl) => pl = here
    BY <1>1, HubInHand
<1> HIDE DEF here
<1>3. \A pl \in HubPorts : ~port[pl].resetting
    BY <1>2 DEF Inv, PlantOK, PortsOK
<1>4. \A pl : Mine(pl)' <=> Mine(pl)
    BY Zenon DEF Mine, Answers, Off
<1>5. \A d : Answers(d)' <=> Answers(d)
    BY DEF Answers, Off
<1>6. \A d : Here(d)' <=> Here(d)
    BY <1>4, Zenon DEF Here
<1>7. Types'
    BY DEF Inv, PlantOK, Types
<1>8. PlugsOK' /\ PortsOK'
    BY <1>3, <1>5 DEF Inv, PlantOK, PlugsOK, PortsOK, Dark, Off
<1>9. RootOK' /\ AtAddressZero' /\ ServedOK'
    BY <1>1, <1>4, <1>5, <1>6 DEF Inv, PlantOK, RootOK, RootStatus, On, AtAddressZero, ServedOK,
       Off
<1>10. WhereOK' /\ AddressingOK' /\ KnownOK'
    BY <1>1, <1>5 DEF Inv, WhereOK, AddressingOK, KnownOK
<1>11. ConnectingOK'
    <2>1. ASSUME NEW d \in Devices, Here(d) PROVE usb[d] = 0
        <3>1. place[d] \in HubPorts /\ Mine(place[d])
            BY <1>1, <2>1 DEF Here
        <3> QED BY <1>3, <3>1 DEF Inv, ConnectingOK
    <2> QED BY <1>2, <1>4, <1>6, <2>1 DEF ConnectingOK
<1>12. TreeOK'
    <2>1. /\ TableOK' /\ HubsFit' /\ TopologyIsTrue' /\ T!Present' = T!Present
          /\ known \subseteq T!Present'
        BY <1>1, TableSame
    <2>2. EntriesOK /\ HubsOK /\ Vacant(ctx.hub, ctx.port)
        BY <1>1 DEF Inv, TreeOK, VacantOK
    <2>3. EntriesOK' /\ HubsOK'
        BY <1>5, <2>2 DEF EntriesOK, HubsOK, Dark
    <2>4. VacantOK' /\ EntryMade'
        BY <2>2 DEF VacantOK, Vacant, EntryMade
    <2> QED BY <2>1, <2>3, <2>4 DEF TreeOK
<1>13. AloneOK'
    BY <1>1 DEF AloneOK
<1> QED BY <1>7, <1>8, <1>9, <1>10, <1>11, <1>12, <1>13 DEF Inv, PlantOK

\* The look at a port after its reset.
LEMMA AfterResetInv ==
    ASSUME Inv, Calm, AfterReset
    PROVE  Inv'
<1>1. pc = "wait"
    BY DEF AfterReset
<1>2. CASE TransferError(HubsAt(ctx.hub))
    BY <1>1, <1>2, HubLost
<1>3. ASSUME NEW h \in HubsAt(ctx.hub), ~port[<<h, ctx.port>>].resetting,
             IF get_hub_port_status(h, ctx.port).enabled
             THEN pc' = "new_device" /\ UNCHANGED <<ctx, event>>
             ELSE NextPort(ctx.port),
             UNCHANGED <<plant, errors, topology, pipes, packet, rootSeen, no_hubs, known>>
      PROVE  Inv'
    <2>1. UNCHANGED <<place, usb, port, errors, parent, pipes, packet, rootSeen, no_hubs, known>>
        BY <1>3 DEF plant, topology
    <2>2. get_hub_port_status(h, ctx.port).enabled = port[<<h, ctx.port>>].enabled
        BY DEF get_hub_port_status
    <2>3. CASE port[<<h, ctx.port>>].enabled
        BY <1>1, <1>3, <2>1, <2>2, <2>3, ResetWorked
    <2>4. CASE ~port[<<h, ctx.port>>].enabled
        <3> DEFINE here == <<h, ctx.port>>
        <3>1. ctx.hub \in HubAddr /\ ctx.hub # 0 /\ ctx.port \in 1 .. NPORTS
            BY <1>1, BusAssumption DEF Inv, WhereOK, HubAddr
        <3>2. /\ here \in HubPorts /\ Mine(here) /\ ~port[here].enabled /\ ~port[here].resetting
              /\ \A pl \in HubPorts : Mine(pl) => pl = here
            BY <1>3, <2>4, <3>1, HubInHand
        <3> HIDE DEF here
        <3>3. \A d \in Devices : place[d] # here
            BY <1>1, <3>2 DEF Inv, ConnectingOK
        <3>4. \A d \in Devices : usb[d] # 0
            BY <3>1, <3>2, <3>3 DEF Inv, PlantOK, AtAddressZero, Here
        <3>5. \A pl \in HubPorts : ~port[pl].resetting
            BY <3>2 DEF Inv, PlantOK, PortsOK
        <3>6. Leaving
            BY <1>1, <3>1, <3>2, <3>3, <3>4, <3>5 DEF Leaving
        <3>7. SamePorts /\ port' \in [HubPorts -> PortStates]
            BY <2>1 DEF SamePorts, Inv, PlantOK, Types
        <3>8. NextPort(ctx.port)
            BY <1>3, <2>2, <2>4
        <3> QED BY <1>1, <2>1, <3>6, <3>7, <3>8, NextPortInv
    <2> QED BY <2>3, <2>4
<1> QED BY <1>2, <1>3 DEF AfterReset, Calm

-----------------------------------------------------------------------------
(* Something has been unplugged.                                           *)

\* A device that answers is entered where it is, below its hub.
LEMMA AnswersPresent ==
    ASSUME Inv, ~no_hubs, NEW d \in Devices, Answers(d)
    PROVE  /\ usb[d] \in T!Present /\ usb[d] \in T!Addr
           /\ \/ place[d] = RootPlace /\ parent[usb[d]] = T!Entry(0, 1)
              \/ /\ place[d] \in HubPorts /\ place[d][1] \in Hubs /\ place[d][1] \in Devices
                 /\ Answers(place[d][1]) /\ usb[place[d][1]] \in HubAddr
                 /\ place[d][2] \in 1 .. NPORTS
                 /\ parent[usb[d]] = T!Entry(usb[place[d][1]], place[d][2])
                 /\ T!HubOf(parent[usb[d]]) = usb[place[d][1]]
<1>1. TopologyIsTrue /\ HubsFit /\ PlugsOK /\ Types
    BY DEF Inv, PlantOK, TreeOK
<1>2. usb[d] \in T!Addr /\ usb[d] # Off /\ usb[d] # 0
    BY <1>1, BusAssumption DEF Types, Answers, Off, T!Addr
<1>3. CASE place[d] = RootPlace
    <2>1. parent[usb[d]] = T!Entry(0, 1)
        BY <1>1, <1>2, <1>3 DEF TopologyIsTrue
    <2>2. T!Entry(0, 1) > 0
        BY Codec
    <2> QED BY <1>2, <1>3, <2>1, <2>2 DEF T!Present, T!PresentIn
<1>4. CASE place[d] # RootPlace
    <2>1. place[d] \in HubPorts /\ Answers(place[d][1])
        BY <1>1, <1>2, <1>4 DEF PlugsOK
    <2>2. place[d][1] \in Hubs /\ place[d][1] \in Devices /\ place[d][2] \in 1 .. NPORTS
        BY <2>1, PlaceFacts
    <2>3. parent[usb[d]] = T!Entry(usb[place[d][1]], place[d][2])
        BY <1>1, <1>2, <1>4 DEF TopologyIsTrue
    <2>4. usb[place[d][1]] \in HubAddr /\ usb[place[d][1]] \in 0 .. 15
        <3>1. usb[place[d][1]] \in 0 .. MAX_DEVICES /\ usb[place[d][1]] # 0
            BY <1>1, <2>1, <2>2 DEF Types, Answers
        <3>2. usb[place[d][1]] < MAX_HUBS
            BY <1>1, <2>1, <2>2 DEF HubsFit, Answers
        <3> QED BY <3>1, <3>2, BusAssumption DEF HubAddr
    <2>5. place[d][2] \in Nat /\ place[d][2] >= 1
        BY <2>2, BusAssumption
    <2>6. /\ T!HubOf(parent[usb[d]]) = usb[place[d][1]]
          /\ parent[usb[d]] > 0
        BY <2>3, <2>4, <2>5, Codec
    <2> QED BY <1>2, <2>1, <2>2, <2>3, <2>4, <2>6 DEF T!Present, T!PresentIn
<1> QED BY <1>3, <1>4

\* device_disconnect takes no device that answers out of the topology.
LEMMA Removal ==
    ASSUME Inv, ~no_hubs, NEW hub \in 0 .. MAX_HUBS - 1, NEW p \in Nat, p >= 1,
           T!device_disconnect(hub, p),
           \A d \in Devices : Answers(d) => parent[usb[d]] # T!Entry(hub, p),
           UNCHANGED <<place, usb, no_hubs>>
    PROVE  /\ parent' \in [T!Addr -> T!Byte] /\ T!Present' = T!Present \ gone'
           /\ \A a \in T!Present' : parent'[a] = parent[a]
           /\ \A a \in T!Addr : parent'[a] # T!Entry(hub, p)
           /\ \A d \in Devices : Answers(d) => usb[d] \notin gone'
           /\ TableOK' /\ HubsFit' /\ TopologyIsTrue'
<1>1. /\ TableOK /\ TopologyIsTrue /\ HubsFit /\ Types
    BY DEF Inv, PlantOK, TreeOK
<1>2. hub \in 0 .. 15 /\ T!Entry(hub, p) > 0 /\ T!Entry(hub, p) \in Nat
    <2>1. hub \in 0 .. 15
        BY BusAssumption
    <2> QED BY <2>1, Codec
<1>3. gone' \subseteq T!Present
    BY DEF T!device_disconnect, T!Removed, T!Downstream, T!Present
<1>4. \A a \in T!Present : T!HubOf(parent[a]) \in gone' => a \in gone'
    <2>1. CASE ~T!InRange(hub, p)
        BY <2>1 DEF T!device_disconnect
    <2>2. CASE T!InRange(hub, p)
        BY <2>2 DEF T!device_disconnect, T!Removed, T!Downstream, T!Closed, T!Present
    <2> QED BY <2>1, <2>2
<1>5. \A a \in T!Addr : parent'[a] = IF a \in gone' THEN 0 ELSE parent[a]
    BY DEF T!device_disconnect
<1>6. parent' \in [T!Addr -> T!Byte]
    <2>1. 0 \in T!Byte
        BY DEF T!Byte
    <2> QED BY <1>1, <2>1 DEF T!device_disconnect, Types
<1>7. /\ T!Present' = T!Present \ gone'
      /\ \A a \in T!Present' : parent'[a] = parent[a]
    BY <1>5 DEF T!Present, T!PresentIn
<1>8. ASSUME NEW a \in T!Addr, parent'[a] = T!Entry(hub, p) PROVE FALSE
    <2>1. a \notin gone' /\ parent[a] = T!Entry(hub, p) /\ a \in T!Present
        BY <1>2, <1>5, <1>8 DEF T!Present, T!PresentIn
    <2>2. CASE ~T!InRange(hub, p)
        <3>1. PICK g \in 0 .. MAX_HUBS - 1, q \in 1 .. MAX_PORTS - 1 : parent[a] = T!Entry(g, q)
            BY <1>1, <2>1 DEF TableOK
        <3>2. g \in 0 .. 15 /\ q \in Nat
            BY BusAssumption
        <3>3. p = q
            BY <1>2, <2>1, <3>1, <3>2, EntryInjective
        <3> QED BY <2>2, <3>3, BusAssumption DEF T!InRange
    <2>3. CASE T!InRange(hub, p)
        <3>1. a \in gone'
            BY <2>1, <2>3 DEF T!device_disconnect, T!Removed, T!Downstream, T!Closed, T!Present
        <3> QED BY <2>1, <3>1
    <2> QED BY <2>2, <2>3
<1>9. ASSUME NEW d \in Devices, Answers(d) PROVE usb[d] \notin gone'
    <2> DEFINE U == {x \in T!Addr : \E e \in Devices : Answers(e) /\ usb[e] = x}
               D == T!Addr \ (U \cup {0})
    <2>1. T!Closed(parent, hub, p, D)
        <3>1. SUFFICES ASSUME NEW a \in T!Present, a \notin D,
                              parent[a] = T!Entry(hub, p) \/ T!HubOf(parent[a]) \in D
                       PROVE  FALSE
            BY DEF T!Closed, T!Present
        <3>2. PICK e \in Devices : Answers(e) /\ usb[e] = a
            BY <1>1, <3>1 DEF TableOK, T!Present, T!PresentIn
        <3>3. parent[a] # T!Entry(hub, p)
            BY <3>2
        <3>4. CASE place[e] = RootPlace /\ parent[usb[e]] = T!Entry(0, 1)
            <4>1. T!HubOf(parent[a]) = 0
                BY <3>2, <3>4, Codec
            <4> QED BY <3>1, <3>3, <4>1
        <3>5. CASE /\ place[e][1] \in Devices /\ Answers(place[e][1])
                   /\ T!HubOf(parent[usb[e]]) = usb[place[e][1]]
            <4>1. T!HubOf(parent[a]) = usb[place[e][1]]
                BY <3>2, <3>5
            <4> QED BY <3>1, <3>3, <3>5, <4>1
        <3> QED BY <3>2, <3>4, <3>5, AnswersPresent
    <2>2. usb[d] \in T!Addr
        BY <1>9, AnswersPresent
    <2>3. usb[d] \notin D /\ D \in SUBSET T!Addr
        BY <1>9, <2>2
    <2> HIDE DEF D
    <2> QED BY <2>1, <2>3 DEF T!device_disconnect, T!Removed, T!Downstream
<1>10. TableOK'
    <2>1. 0 \notin T!Present'
        BY <1>1, <1>7 DEF TableOK
    <2>2. T!NoOrphans'
        BY <1>1, <1>4, <1>7 DEF TableOK, T!NoOrphans
    <2>3. T!RootedAtRoot'
        <3> SUFFICES ASSUME NEW S \in SUBSET T!Present', S # {}
                     PROVE  \E a \in S : T!HubOf(parent'[a]) \notin S
            BY DEF T!RootedAtRoot
        <3>1. S \in SUBSET T!Present
            BY <1>7
        <3>2. PICK a \in S : T!HubOf(parent[a]) \notin S
            BY <1>1, <3>1 DEF TableOK, T!RootedAtRoot
        <3> QED BY <1>7, <3>2
    <2>4. ASSUME NEW a \in T!Present'
          PROVE  \E h \in 0 .. MAX_HUBS - 1, q \in 1 .. MAX_PORTS - 1 :
                    /\ parent'[a] = T!Entry(h, q)
                    /\ h = 0 => q = 1
                    /\ \A d \in Devices : usb'[d] = h /\ h # 0 => d \in Hubs /\ q \in 1 .. NPORTS
        <3>1. a \in T!Present /\ parent'[a] = parent[a]
            BY <1>7
        <3> QED BY <1>1, <3>1 DEF TableOK
    <2> QED BY <2>1, <2>2, <2>3, <2>4 DEF TableOK
<1>11. HubsFit'
    BY <1>1 DEF HubsFit, Off
<1>12. TopologyIsTrue'
    <2>1. ASSUME NEW d \in Devices, usb[d] \notin {0, Off}
          PROVE  parent'[usb[d]] = IF place[d] = RootPlace THEN T!Entry(0, 1)
                                   ELSE T!Entry(usb[place[d][1]], place[d][2])
        <3>1. usb[d] \in T!Addr /\ usb[d] \notin gone'
            BY <1>9, <2>1, AnswersPresent DEF Answers
        <3> QED BY <1>1, <1>5, <2>1, <3>1 DEF TopologyIsTrue
    <2> QED BY <2>1 DEF TopologyIsTrue, Off
<1> QED BY <1>6, <1>7, <1>8, <1>9, <1>10, <1>11, <1>12

\* The change of an empty port is acknowledged, and what was there forgotten.
LEMMA DepartureCleared ==
    ASSUME Inv, pc = "clear", NEW h \in HubsAt(ctx.hub), ctx.bit = 0, ~ctx.connected,
           port' = [port EXCEPT ![<<h, ctx.port>>].c_connection = FALSE], Disconnected,
           UNCHANGED <<place, usb, errors, pipes, packet, rootSeen, no_hubs>>
    PROVE  Inv'
<1> DEFINE here == <<h, ctx.port>>
<1>1. ctx.hub \in HubAddr /\ ctx.hub # 0 /\ ~no_hubs /\ ctx.port \in 1 .. NPORTS
    BY BusAssumption DEF Inv, WhereOK, AloneOK, HubAddr
<1>2. /\ h \in Hubs /\ h \in Devices /\ Answers(h) /\ usb[h] = ctx.hub
      /\ here \in HubPorts /\ Mine(here)
      /\ \A g \in Hubs : Answers(g) /\ usb[g] = ctx.hub => g = h
    BY <1>1, HubInHand
<1>3. /\ port' \in [HubPorts -> PortStates] /\ ~port'[here].c_connection
      /\ port'[here].power = port[here].power
      /\ port'[here].enabled = port[here].enabled
      /\ port'[here].resetting = port[here].resetting
      /\ \A pl \in HubPorts : pl # here => port'[pl] = port[pl]
    BY <1>2 DEF Inv, PlantOK, Types, PortStates
<1>4. /\ port[here].c_connection /\ port[here].power /\ ~port[here].enabled
      /\ \A d \in Devices : place[d] # here
    BY <1>2 DEF Inv, PlantOK, PortsOK, ConnectingOK
<1>5. /\ T!device_disconnect(ctx.hub, ctx.port) /\ Yield("disconnect", gone', "none")
      /\ known' = known \ gone'
    BY DEF Disconnected
<1>6. /\ pc' = "idle" /\ ctx'.hub = 0 /\ ctx'.port = 0
      /\ ctx' \in [hub : 0 .. MAX_HUBS - 1, port : Nat, todo : SUBSET (1 .. NPORTS),
                   bit : {0, 4}, connected : BOOLEAN, is_hub : BOOLEAN,
                   address : 0 .. MAX_DEVICES - 1]
    BY <1>5, YieldCtx DEF Inv, PlantOK
<1>7. ASSUME NEW d \in Devices, Answers(d) PROVE parent[usb[d]] # T!Entry(ctx.hub, ctx.port)
    <2>1. ctx.hub \in 0 .. 15 /\ ctx.port \in Nat
        BY <1>1, BusAssumption DEF HubAddr
    <2>2. CASE place[d] = RootPlace /\ parent[usb[d]] = T!Entry(0, 1)
        <3>1. 0 \in 0 .. 15 /\ 1 \in Nat
            OBVIOUS
        <3> QED BY <1>1, <2>1, <2>2, <3>1, EntryInjective
    <2>3. CASE /\ place[d] \in HubPorts /\ place[d][1] \in Hubs
               /\ Answers(place[d][1]) /\ usb[place[d][1]] \in HubAddr
               /\ place[d][2] \in 1 .. NPORTS
               /\ parent[usb[d]] = T!Entry(usb[place[d][1]], place[d][2])
        <3>1. usb[place[d][1]] \in 0 .. 15 /\ place[d][2] \in Nat
            BY <2>3, BusAssumption DEF HubAddr
        <3>2. ASSUME parent[usb[d]] = T!Entry(ctx.hub, ctx.port) PROVE FALSE
            <4>1. usb[place[d][1]] = ctx.hub /\ place[d][2] = ctx.port
                <5>1. T!Entry(usb[place[d][1]], place[d][2]) = T!Entry(ctx.hub, ctx.port)
                    BY <2>3, <3>2
                <5> QED BY ONLY <2>1, <3>1, <5>1, EntryInjective
            <4>2. place[d] = here
                BY <1>2, <2>3, <4>1, PlaceFacts
            <4> QED BY <1>4, <4>2
        <3> QED BY <3>2
    <2> QED BY <1>1, <1>7, <2>2, <2>3, AnswersPresent
<1> HIDE DEF here
<1>8. /\ parent' \in [T!Addr -> T!Byte] /\ T!Present' = T!Present \ gone'
      /\ \A a \in T!Present' : parent'[a] = parent[a]
      /\ \A a \in T!Addr : parent'[a] # T!Entry(ctx.hub, ctx.port)
      /\ \A d \in Devices : Answers(d) => usb[d] \notin gone'
      /\ TableOK' /\ HubsFit' /\ TopologyIsTrue'
    <2>1. ctx.hub \in 0 .. MAX_HUBS - 1 /\ ctx.port \in Nat /\ ctx.port >= 1
        BY <1>1, BusAssumption DEF HubAddr
    <2> QED BY <1>1, <1>5, <1>7, <2>1, Removal
<1>9. \A pl \in HubPorts : ~Mine(pl)'
    BY <1>6, PlaceFacts DEF Mine
<1>10. \A d : Answers(d)' <=> Answers(d)
    BY DEF Answers, Off
<1>11. \A d \in Devices : usb[d] # 0
    BY DEF Inv, PlantOK, AtAddressZero
<1>12. Types'
    BY <1>3, <1>6, <1>8 DEF Inv, PlantOK, Types
<1>13. PlugsOK'
    <2>1. \A pl \in HubPorts : port[pl].enabled => port'[pl].enabled
        BY <1>3
    <2> QED BY <1>10, <2>1, Zenon DEF Inv, PlantOK, PlugsOK, Off
<1>14. PortsOK'
    <2>1. ASSUME NEW pl \in HubPorts
          PROVE  /\ port'[pl].enabled => /\ port'[pl].power /\ ~port'[pl].c_connection
                                         /\ ~port'[pl].resetting
                                         /\ \E d \in Devices : place[d] = pl
                 /\ ~Answers(pl[1]) \/ no_hubs => Dark(pl)'
                 /\ port'[pl].c_connection => port'[pl].power
                 /\ ~port'[pl].resetting
        <3>1. CASE pl = here
            BY <1>1, <1>2, <1>3, <1>4, <3>1 DEF Inv, PlantOK, PortsOK, Mine
        <3>2. CASE pl # here
            BY <1>3, <3>2 DEF Inv, PlantOK, PortsOK, Dark
        <3> QED BY <3>1, <3>2
    <2> QED BY <1>10, <2>1 DEF PortsOK
<1>15. RootOK' /\ AtAddressZero'
    BY <1>1, <1>6, <1>10, <1>11 DEF Inv, PlantOK, RootOK, RootStatus, On, AtAddressZero, Off
<1>16. ServedOK'
    BY <1>3, <1>4, <1>10 DEF Inv, PlantOK, ServedOK
<1>17. WhereOK' /\ AddressingOK' /\ ConnectingOK'
    BY <1>6, <1>9 DEF WhereOK, AddressingOK, ConnectingOK
<1>18. KnownOK'
    BY <1>5, <1>8, <1>10 DEF Inv, KnownOK
<1>19. TreeOK'
    <2>1. EntriesOK /\ HubsOK /\ known \subseteq T!Present
        BY <1>1 DEF Inv, TreeOK
    <2>2. ASSUME NEW hub \in 0 .. 15, NEW p \in Nat, p >= 1, NEW a \in T!Addr,
                 parent'[a] = T!Entry(hub, p)
          PROVE  parent[a] = T!Entry(hub, p)
        <3>1. T!Entry(hub, p) > 0
            BY <2>2, Codec
        <3>2. a \in T!Present'
            BY <2>2, <3>1 DEF T!Present, T!PresentIn
        <3> QED BY <1>8, <2>2, <3>2
    <2>3. ASSUME NEW g \in Hubs, NEW p \in 1 .. NPORTS, Answers(g),
                 NEW a \in T!Addr, parent'[a] = T!Entry(usb[g], p)
          PROVE  \/ \E d \in Devices : place[d] = <<g, p>> /\ usb[d] = a
                 \/ port'[<<g, p>>].c_connection /\ \A d \in Devices : place[d] # <<g, p>>
        <3>1. <<g, p>> \in HubPorts
            BY PlaceFacts
        <3>2. <<g, p>> # here
            BY <1>2, <1>8, <2>3 DEF here
        <3>3. usb[g] \in 0 .. 15 /\ p \in Nat /\ p >= 1
            <4>1. g \in Devices /\ usb[g] \in 0 .. MAX_DEVICES
                BY BusAssumption DEF Inv, PlantOK, Types
            <4>2. usb[g] < MAX_HUBS
                BY <1>1, <2>3 DEF Inv, TreeOK, HubsFit, Answers
            <4> QED BY <4>1, <4>2, BusAssumption
        <3>4. parent[a] = T!Entry(usb[g], p)
            BY <2>2, <2>3, <3>3
        <3>5. \/ \E d \in Devices : place[d] = <<g, p>> /\ usb[d] = a
              \/ port[<<g, p>>].c_connection /\ \A d \in Devices : place[d] # <<g, p>>
            BY <2>1, <2>3, <3>4 DEF EntriesOK
        <3>6. port'[<<g, p>>] = port[<<g, p>>]
            BY <1>3, <3>1, <3>2
        <3> QED BY <3>5, <3>6
    <2>4. ASSUME NEW a \in T!Addr, parent'[a] = T!Entry(0, 1)
          PROVE  /\ rootSeen # "absent"
                 /\ \/ \E d \in Devices : place[d] = RootPlace /\ usb[d] = a
                    \/ \A d \in Devices : place[d] # RootPlace
        <3>1. parent[a] = T!Entry(0, 1)
            BY <2>2, <2>4
        <3> QED BY <2>1, <3>1 DEF EntriesOK
    <2>5. EntriesOK'
        BY <1>10, <2>3, <2>4 DEF EntriesOK
    <2>6. HubsOK'
        <3>1. ASSUME NEW g \in Hubs, NEW p \in 1 .. NPORTS, Answers(g)
              PROVE  port'[<<g, p>>].power
            <4>1. <<g, p>> \in HubPorts /\ port[<<g, p>>].power
                BY <2>1, <3>1, PlaceFacts DEF HubsOK
            <4> QED BY <1>3, <1>4, <4>1
        <3> QED BY <1>6, <1>10, <3>1 DEF HubsOK
    <2>7. VacantOK' /\ EntryMade'
        BY <1>6 DEF VacantOK, EntryMade
    <2>8. (known \subseteq T!Present)'
        BY <1>5, <1>8, <2>1
    <2> QED BY <1>8, <2>5, <2>6, <2>7, <2>8 DEF TreeOK
<1>20. AloneOK'
    BY <1>1 DEF AloneOK
<1> QED BY <1>12, <1>13, <1>14, <1>15, <1>16, <1>17, <1>18, <1>19, <1>20 DEF Inv, PlantOK

\* A change is acknowledged.
LEMMA ClearChangeInv ==
    ASSUME Inv, Calm, ClearChange
    PROVE  Inv'
<1>1. pc = "clear"
    BY DEF ClearChange
<1>2. CASE TransferError(HubsAt(ctx.hub))
    BY <1>1, <1>2, HubLost
<1>3. ASSUME NEW h \in HubsAt(ctx.hub), port' = Cleared(h),
             IF ctx.bit # 0
             THEN NextPort(ctx.port) /\ UNCHANGED <<topology, known>>
             ELSE IF ~ctx.connected
             THEN Disconnected
             ELSE pc' = "reset" /\ UNCHANGED <<ctx, event, topology, known>>,
             UNCHANGED <<place, usb, moves, errors, pipes, packet, rootSeen, no_hubs>>
      PROVE  Inv'
    <2>1. CASE ctx.bit # 0
        <3>1. NextPort(ctx.port) /\ parent' = parent /\ known' = known
            BY <1>3, <2>1 DEF topology
        <3>2. port' = [port EXCEPT ![<<h, ctx.port>>].c_reset = FALSE]
            BY <1>3, <2>1 DEF Cleared
        <3>3. SamePorts /\ port' \in [HubPorts -> PortStates]
            BY <3>2 DEF SamePorts, Inv, PlantOK, Types, PortStates
        <3>4. Leaving
            BY <1>1 DEF Inv, PlantOK, AtAddressZero, PortsOK, Leaving
        <3> QED BY <1>1, <1>3, <3>1, <3>3, <3>4, NextPortInv
    <2>2. CASE ctx.bit = 0 /\ ~ctx.connected
        <3>1. port' = [port EXCEPT ![<<h, ctx.port>>].c_connection = FALSE] /\ Disconnected
            BY <1>3, <2>2 DEF Cleared
        <3> QED BY <1>1, <1>3, <2>2, <3>1, DepartureCleared
    <2>3. CASE ctx.bit = 0 /\ ctx.connected
        <3>1. /\ port' = [port EXCEPT ![<<h, ctx.port>>].c_connection = FALSE]
              /\ pc' = "reset" /\ UNCHANGED <<ctx, parent, known>>
            BY <1>3, <2>3 DEF Cleared, topology
        <3> QED BY <1>1, <1>3, <2>3, <3>1, ArrivalCleared
    <2> QED BY <2>1, <2>2, <2>3
<1> QED BY <1>2, <1>3 DEF ClearChange

-----------------------------------------------------------------------------
(* The root port.                                                          *)

\* Following hubs upwards from a device that answers ends in the root port.
LEMMA SomeoneAtRoot ==
    ASSUME Inv, NEW d \in Devices, Answers(d)
    PROVE  \E e \in Devices : place[e] = RootPlace /\ Answers(e)
<1>1. CASE no_hubs
    <2>1. place[d] \in HubPorts => Dark(place[d])
        BY <1>1 DEF Inv, PlantOK, PortsOK
    <2>2. place[d] # RootPlace => place[d] \in HubPorts /\ port[place[d]].enabled
        BY DEF Inv, PlantOK, PlugsOK, Answers
    <2> QED BY <2>1, <2>2 DEF Dark
<1>2. CASE ~no_hubs
    <2>1. SUFFICES ASSUME \A e \in Devices : Answers(e) => place[e] # RootPlace
                   PROVE  FALSE
        OBVIOUS
    <2> DEFINE S == {x \in T!Present : \E e \in Devices : Answers(e) /\ usb[e] = x}
    <2>2. usb[d] \in S
        BY <1>2, AnswersPresent
    <2>3. PICK x \in S : T!HubOf(parent[x]) \notin S
        BY <1>2, <2>2 DEF Inv, TreeOK, TableOK, T!RootedAtRoot
    <2>4. PICK e \in Devices : Answers(e) /\ usb[e] = x
        BY <2>3
    <2>5. /\ place[e][1] \in Devices /\ Answers(place[e][1])
          /\ T!HubOf(parent[x]) = usb[place[e][1]]
        BY <1>2, <2>1, <2>4, AnswersPresent
    <2>6. usb[place[e][1]] \in S
        BY <1>2, <2>5, AnswersPresent
    <2> QED BY <2>3, <2>5, <2>6
<1> QED BY <1>1, <1>2

\* The root device has gone.
LEMMA RootGone ==
    ASSUME Inv, RootEvent, RootStatus = "absent"
    PROVE  Inv'
<1>1. /\ pc = "idle" /\ rootSeen' = "absent" /\ known' = {}
      /\ IF no_hubs THEN UNCHANGED topology ELSE T!device_disconnect(0, 1)
      /\ Yield("disconnect", 0 .. MAX_DEVICES - 1, "none")
      /\ UNCHANGED <<place, usb, port, errors, pipes, packet, no_hubs>>
    BY DEF RootEvent, plant
<1>2. /\ pc' = "idle" /\ ctx'.hub = 0 /\ ctx'.port = 0
      /\ ctx' \in [hub : 0 .. MAX_HUBS - 1, port : Nat, todo : SUBSET (1 .. NPORTS),
                   bit : {0, 4}, connected : BOOLEAN, is_hub : BOOLEAN,
                   address : 0 .. MAX_DEVICES - 1]
    BY <1>1, YieldCtx DEF Inv, PlantOK
<1>3. \A d \in Devices : place[d] # RootPlace
    BY DEF RootStatus, On
<1>4. \A d \in Devices : usb[d] # 0 /\ ~Answers(d)
    BY <1>1, <1>3, SomeoneAtRoot DEF Inv, PlantOK, AtAddressZero
<1>5. \A d : Answers(d)' <=> Answers(d)
    BY <1>1 DEF Answers, Off
<1>6. parent' \in [T!Addr -> T!Byte]
    <2>1. CASE no_hubs
        BY <1>1, <2>1 DEF topology, Inv, PlantOK, Types
    <2>2. CASE ~no_hubs
        <3>1. T!device_disconnect(0, 1) /\ 0 \in 0 .. MAX_HUBS - 1
            BY <1>1, <2>2, BusAssumption
        <3> QED BY <1>1, <1>4, <2>2, <3>1, Removal
    <2> QED BY <2>1, <2>2
<1>7. Types'
    BY <1>1, <1>2, <1>6 DEF Inv, PlantOK, Types
<1>8. PlugsOK' /\ PortsOK'
    BY <1>1, <1>5 DEF Inv, PlantOK, PlugsOK, PortsOK, Dark, Off
<1>9. RootOK' /\ AtAddressZero'
    BY <1>1, <1>2, <1>3, <1>4 DEF RootOK, AtAddressZero
<1>10. ServedOK'
    BY <1>1, <1>5 DEF Inv, PlantOK, ServedOK
<1>11. WhereOK' /\ ConnectingOK' /\ AddressingOK'
    <2>1. \A pl \in HubPorts : ~Mine(pl)'
        BY <1>2, PlaceFacts DEF Mine
    <2> QED BY <1>2, <2>1 DEF WhereOK, ConnectingOK, AddressingOK
<1>12. KnownOK'
    BY <1>4, <1>5 DEF KnownOK
<1>13. TreeOK'
    <2>1. SUFFICES ASSUME ~no_hubs
                   PROVE  /\ TableOK' /\ HubsFit' /\ EntriesOK' /\ HubsOK' /\ TopologyIsTrue'
                          /\ VacantOK' /\ EntryMade' /\ (known \subseteq T!Present)'
        BY <1>1 DEF TreeOK
    <2>2. T!device_disconnect(0, 1) /\ 0 \in 0 .. MAX_HUBS - 1
        BY <1>1, <2>1, BusAssumption
    <2>3. /\ TableOK' /\ HubsFit' /\ TopologyIsTrue'
          /\ \A a \in T!Addr : parent'[a] # T!Entry(0, 1)
        BY <1>1, <1>4, <2>1, <2>2, Removal
    <2>4. EntriesOK' /\ HubsOK'
        BY <1>4, <1>5, <2>3, BusAssumption DEF EntriesOK, HubsOK
    <2>5. VacantOK' /\ EntryMade' /\ (known \subseteq T!Present)'
        BY <1>1, <1>2 DEF VacantOK, EntryMade
    <2> QED BY <2>3, <2>4, <2>5
<1>14. AloneOK'
    BY <1>1, <1>2 DEF Inv, AloneOK, Off
<1> QED BY <1>7, <1>8, <1>9, <1>10, <1>11, <1>12, <1>13, <1>14 DEF Inv, PlantOK

\* A device has come to the root port.
LEMMA RootArrival ==
    ASSUME Inv, RootEvent, RootStatus # "absent"
    PROVE  Inv'
<1>1. /\ pc = "idle" /\ pc' = "root_reset" /\ rootSeen # RootStatus /\ rootSeen' = RootStatus
      /\ ctx' = [ctx EXCEPT !.hub = 0, !.port = 1]
      /\ UNCHANGED <<place, usb, port, errors, parent, pipes, packet, no_hubs, known>>
    BY DEF RootEvent, plant, topology
<1>2. rootSeen = "absent"
    BY <1>1 DEF Inv, PlantOK, RootOK
<1>3. Types' /\ ctx'.hub = 0 /\ ctx'.port = 1
    <2>1. 0 \in 0 .. MAX_HUBS - 1 /\ 1 \in Nat
        BY BusAssumption
    <2>2. RootStatus \in {"absent", "low", "full"}
        BY DEF RootStatus
    <2> QED BY <1>1, <2>1, <2>2 DEF Inv, PlantOK, Types
<1>4. \A d : Answers(d)' <=> Answers(d)
    BY <1>1 DEF Answers, Off
<1>5. \A d \in Devices : usb[d] # 0
    BY <1>1 DEF Inv, PlantOK, AtAddressZero
<1>6. \A pl : ~Mine(pl)'
    BY <1>3, Zenon DEF Mine, Answers
<1>7. PlugsOK'
    BY <1>1, <1>4, Zenon DEF Inv, PlantOK, PlugsOK, Off
<1>8. PortsOK'
    BY <1>1, <1>4 DEF Inv, PlantOK, PortsOK, Dark
<1>9. RootOK'
    <2>1. RootStatus' = RootStatus
        BY <1>1 DEF RootStatus, On
    <2>2. \A d \in Devices : place[d] = RootPlace => usb[d] = Off
        BY <1>2 DEF Inv, PlantOK, RootOK
    <2> QED BY <1>1, <2>1, <2>2 DEF RootOK, Off
<1>10. AtAddressZero' /\ ServedOK'
    BY <1>1, <1>4, <1>5 DEF Inv, PlantOK, AtAddressZero, ServedOK
<1>11. WhereOK' /\ ConnectingOK' /\ AddressingOK' /\ KnownOK'
    BY <1>1, <1>3, <1>4, <1>6 DEF Inv, WhereOK, ConnectingOK, AddressingOK, KnownOK
<1>12. TreeOK'
    <2>1. SUFFICES ASSUME ~no_hubs
                   PROVE  /\ TableOK' /\ HubsFit' /\ EntriesOK' /\ HubsOK' /\ TopologyIsTrue'
                          /\ VacantOK' /\ EntryMade' /\ (known \subseteq T!Present)'
        BY <1>1 DEF TreeOK
    <2>2. /\ TableOK' /\ HubsFit' /\ TopologyIsTrue' /\ (known \subseteq T!Present)'
        BY <1>1, <2>1, TableSame
    <2>3. EntriesOK /\ HubsOK
        BY <2>1 DEF Inv, TreeOK
    <2>4. \A a \in T!Addr : parent[a] # T!Entry(0, 1)
        BY <1>2, <2>3 DEF EntriesOK
    <2>5. EntriesOK'
        <3>1. ASSUME NEW g \in Hubs, NEW p \in 1 .. NPORTS, Answers(g),
                     NEW a \in T!Addr, parent[a] = T!Entry(usb[g], p)
              PROVE  \/ \E d \in Devices : place[d] = <<g, p>> /\ usb[d] = a
                     \/ port[<<g, p>>].c_connection /\ \A d \in Devices : place[d] # <<g, p>>
            BY <1>1, <2>3, <3>1 DEF EntriesOK
        <3> QED BY <1>1, <1>4, <2>4, <3>1 DEF EntriesOK
    <2>6. HubsOK'
        BY <1>1, <1>4, <2>3 DEF HubsOK
    <2>7. VacantOK' /\ EntryMade'
        BY <1>1, <1>3, <2>4 DEF VacantOK, Vacant, EntryMade
    <2> QED BY <2>2, <2>5, <2>6, <2>7
<1>13. AloneOK'
    BY <1>1, <1>2 DEF Inv, AloneOK, Off
<1> QED BY <1>3, <1>7, <1>8, <1>9, <1>10, <1>11, <1>12, <1>13 DEF Inv, PlantOK

-----------------------------------------------------------------------------
(* A reset.                                                                *)

\* Nothing below a device that has no power has any: its reset is heard by
\* itself alone.
LEMMA ResetAlone ==
    ASSUME Inv, NEW d \in Devices, usb[d] = Off
    PROVE  /\ ResetUsb(d) = [usb EXCEPT ![d] = 0]
           /\ Darkened(Below(place, d)) \in [HubPorts -> PortStates]
           /\ \A pl \in HubPorts :
                 /\ Darkened(Below(place, d))[pl].power <=> port[pl].power
                 /\ Darkened(Below(place, d))[pl].c_connection <=> port[pl].c_connection
                 /\ Darkened(Below(place, d))[pl].enabled <=> port[pl].enabled
                 /\ Darkened(Below(place, d))[pl].resetting <=> port[pl].resetting
<1> DEFINE S == {e \in Devices : usb[e] = Off}
<1>1. d \in S
    OBVIOUS
<1>2. \A f \in Devices : place[f] \in HubPorts /\ place[f][1] \in S => f \in S
    BY PlaceFacts DEF Inv, PlantOK, PlugsOK, Answers
<1>3. \A e \in Below(place, d) : e \in Devices /\ usb[e] = Off
    BY <1>1, <1>2 DEF Below
<1>4. ResetUsb(d) = [usb EXCEPT ![d] = 0]
    <2>1. Silenced(Below(place, d)) = usb
        BY <1>3 DEF Silenced, Inv, PlantOK, Types
    <2> QED BY <2>1 DEF ResetUsb
<1>5. PortOff \in PortStates
    BY DEF PortOff, PortStates
<1>6. Darkened(Below(place, d)) \in [HubPorts -> PortStates]
    BY <1>5 DEF Darkened, Inv, PlantOK, Types
<1>7. ASSUME NEW pl \in HubPorts
      PROVE  /\ Darkened(Below(place, d))[pl].power <=> port[pl].power
             /\ Darkened(Below(place, d))[pl].c_connection <=> port[pl].c_connection
             /\ Darkened(Below(place, d))[pl].enabled <=> port[pl].enabled
             /\ Darkened(Below(place, d))[pl].resetting <=> port[pl].resetting
    <2>1. CASE pl[1] \in Below(place, d)
        <3>1. ~Answers(pl[1])
            BY <1>3, <2>1 DEF Answers
        <3>2. Dark(pl)
            BY <3>1 DEF Inv, PlantOK, PortsOK
        <3>3. Darkened(Below(place, d))[pl] = PortOff
            BY <2>1 DEF Darkened
        <3> QED BY <3>2, <3>3 DEF Dark, PortOff
    <2>2. CASE pl[1] \notin Below(place, d)
        BY <2>2 DEF Darkened
    <2> QED BY <2>1, <2>2
<1> QED BY <1>4, <1>6, <1>7

\* A device that was off answers to address 0: what the table says is as true
\* as before.
LEMMA ResetTable ==
    ASSUME Inv, ~no_hubs, NEW d \in Devices, usb[d] = Off, usb' = [usb EXCEPT ![d] = 0],
           UNCHANGED <<place, parent, no_hubs>>
    PROVE  /\ TableOK' /\ HubsFit' /\ TopologyIsTrue' /\ T!Present' = T!Present
           /\ known \subseteq T!Present'
<1>1. TableOK /\ HubsFit /\ TopologyIsTrue /\ known \subseteq T!Present /\ Types
    BY DEF Inv, TreeOK, PlantOK
<1>2. \A e \in Devices : usb'[e] = IF e = d THEN 0 ELSE usb[e]
    BY <1>1 DEF Types
<1>3. T!Present' = T!Present
    BY DEF T!Present, T!PresentIn
<1>4. TableOK'
    <2>1. 0 \notin T!Present' /\ T!NoOrphans' /\ T!RootedAtRoot'
        BY <1>1, <1>3 DEF TableOK, T!NoOrphans, T!RootedAtRoot
    <2>2. ASSUME NEW a \in T!Present
          PROVE  \E h \in 0 .. MAX_HUBS - 1, p \in 1 .. MAX_PORTS - 1 :
                    /\ parent'[a] = T!Entry(h, p)
                    /\ h = 0 => p = 1
                    /\ \A e \in Devices : usb'[e] = h /\ h # 0 => e \in Hubs /\ p \in 1 .. NPORTS
        BY <1>1, <1>2 DEF TableOK
    <2> QED BY <1>3, <2>1, <2>2 DEF TableOK
<1>5. HubsFit'
    <2>1. 0 < MAX_HUBS
        BY BusAssumption
    <2> QED BY <1>1, <1>2, <2>1, BusAssumption DEF HubsFit, Off
<1>6. TopologyIsTrue'
    <2>1. ASSUME NEW e \in Devices, usb'[e] \notin {0, Off}
          PROVE  parent'[usb'[e]] = IF place'[e] = RootPlace THEN T!Entry(0, 1)
                                    ELSE T!Entry(usb'[place'[e][1]], place'[e][2])
        <3>1. e # d /\ usb'[e] = usb[e]
            BY <1>2, <2>1
        <3>2. CASE place[e] = RootPlace
            BY <1>1, <2>1, <3>1, <3>2 DEF TopologyIsTrue
        <3>3. CASE place[e] # RootPlace
            <4>1. place[e] \in HubPorts /\ Answers(place[e][1])
                BY <2>1, <3>1, <3>3 DEF Inv, PlantOK, PlugsOK
            <4>2. usb'[place[e][1]] = usb[place[e][1]]
                BY <1>2, <4>1, PlaceFacts DEF Answers
            <4> QED BY <1>1, <2>1, <3>1, <3>3, <4>2 DEF TopologyIsTrue
        <3> QED BY <3>2, <3>3
    <2> QED BY <2>1 DEF TopologyIsTrue, Off
<1> QED BY <1>1, <1>3, <1>4, <1>5, <1>6

\* The root port is reset.
LEMMA RootResetInv ==
    ASSUME Inv, RootReset
    PROVE  Inv'
<1>1. /\ pc = "root_reset" /\ pc' = "new_device"
      /\ UNCHANGED <<place, errors, parent, pipes, packet, rootSeen, no_hubs, ctx, known>>
    BY DEF RootReset, topology
<1>2. ctx.hub = 0 /\ ctx.port = 1 /\ rootSeen # "absent"
    BY <1>1 DEF Inv, PlantOK, RootOK, WhereOK
<1>3. \A e \in Devices : usb[e] # 0
    BY <1>1 DEF Inv, PlantOK, AtAddressZero
<1>4. \A pl : ~Mine(pl)
    BY <1>2, Zenon DEF Mine, Answers
<1>5. /\ \A e \in Devices : usb'[e] = IF place[e] = RootPlace THEN 0 ELSE usb[e]
      /\ \A e \in Devices : place[e] = RootPlace => usb[e] = Off
      /\ usb' \in [Devices -> 0 .. MAX_DEVICES]
      /\ port' \in [HubPorts -> PortStates] /\ SamePorts
      /\ ~no_hubs => /\ TableOK' /\ HubsFit' /\ TopologyIsTrue' /\ (known \subseteq T!Present)'
    <2>1. \A e \in Devices : place[e] = RootPlace => usb[e] = Off
        BY <1>1 DEF Inv, PlantOK, RootOK
    <2>2. CASE On(place, RootPlace) = {}
        <3>1. \A e \in Devices : place[e] # RootPlace
            BY <2>2 DEF On
        <3>2. usb' = usb /\ port' = port
            BY <2>2 DEF RootReset
        <3>3. ~no_hubs => /\ TableOK' /\ HubsFit' /\ TopologyIsTrue'
                          /\ (known \subseteq T!Present)'
            BY <1>1, <3>2, TableSame
        <3> QED BY <3>1, <3>2, <3>3 DEF Inv, PlantOK, Types, SamePorts
    <2>3. CASE On(place, RootPlace) # {}
        <3>1. PICK d \in On(place, RootPlace) :
                  usb' = ResetUsb(d) /\ port' = Darkened(Below(place, d))
            BY <2>3 DEF RootReset
        <3>2. d \in Devices /\ place[d] = RootPlace /\ usb[d] = Off
            BY <2>1 DEF On
        <3>3. usb' = [usb EXCEPT ![d] = 0] /\ port' \in [HubPorts -> PortStates] /\ SamePorts
            BY <3>1, <3>2, ResetAlone DEF SamePorts
        <3>4. \A e \in Devices : place[e] = RootPlace => e = d
            BY <3>2, PlaceFacts DEF Inv, PlantOK, PlugsOK
        <3>5. /\ usb' \in [Devices -> 0 .. MAX_DEVICES]
              /\ \A e \in Devices : usb'[e] = IF place[e] = RootPlace THEN 0 ELSE usb[e]
            <4>1. 0 \in 0 .. MAX_DEVICES
                BY BusAssumption
            <4> QED BY <3>2, <3>3, <3>4, <4>1 DEF Inv, PlantOK, Types
        <3>6. ~no_hubs => /\ TableOK' /\ HubsFit' /\ TopologyIsTrue'
                          /\ (known \subseteq T!Present)'
            BY <1>1, <3>2, <3>3, ResetTable
        <3> QED BY <2>1, <3>3, <3>5, <3>6
    <2> QED BY <2>2, <2>3
<1>6. \A e \in Devices : Answers(e)' <=> Answers(e)
    BY <1>5 DEF Answers, Off
<1>7. \A pl : ~Mine(pl)'
    BY <1>1, <1>2, Zenon DEF Mine, Answers
<1>8. Types'
    BY <1>1, <1>5 DEF Inv, PlantOK, Types
<1>9. PlugsOK'
    <2>1. \A d, e \in Devices : place'[d] = place'[e] /\ place'[d] # Nowhere => d = e
        BY <1>1 DEF Inv, PlantOK, PlugsOK
    <2>2. ASSUME NEW d \in Devices, usb'[d] # Off, place[d] # RootPlace
          PROVE  place[d] \in HubPorts /\ Answers(place[d][1])' /\ port'[place[d]].enabled
        <3>1. place[d] \in HubPorts /\ Answers(place[d][1]) /\ port[place[d]].enabled
            BY <1>5, <2>2 DEF Inv, PlantOK, PlugsOK
        <3>2. place[d][1] \in Devices
            BY <3>1, PlaceFacts
        <3> QED BY <1>1, <1>5, <1>6, <3>1, <3>2 DEF SamePorts
    <2>3. ASSUME NEW d \in Devices, NEW e \in Devices, usb'[d] = usb'[e], usb'[d] # Off
          PROVE  d = e
        <3>1. CASE place[d] = RootPlace
            BY <1>3, <1>5, <2>1, <2>3, <3>1, <1>1, PlaceFacts
        <3>2. CASE place[d] # RootPlace
            <4>1. usb'[d] = usb[d] /\ usb'[e] = usb[e]
                BY <1>3, <1>5, <2>3, <3>2
            <4> QED BY <2>3, <4>1 DEF Inv, PlantOK, PlugsOK
        <3> QED BY <3>1, <3>2
    <2> QED BY <1>1, <2>1, <2>2, <2>3 DEF PlugsOK, Off
<1>10. PortsOK'
    <2>1. ASSUME NEW pl \in HubPorts
          PROVE  /\ port'[pl].enabled => /\ port'[pl].power /\ ~port'[pl].c_connection
                                         /\ ~port'[pl].resetting
                                         /\ \E d \in Devices : place[d] = pl
                 /\ ~Answers(pl[1]) \/ no_hubs => Dark(pl)'
                 /\ port'[pl].c_connection => port'[pl].power
                 /\ ~port'[pl].resetting
        BY <1>1, <1>5 DEF Inv, PlantOK, PortsOK, SamePorts, Dark
    <2> QED BY <1>1, <1>6, <2>1, PlaceFacts DEF PortsOK
<1>11. RootOK'
    <2>1. RootStatus' = RootStatus
        BY <1>1 DEF RootStatus, On
    <2> QED BY <1>1, <1>2, <2>1 DEF Inv, PlantOK, RootOK
<1>12. AtAddressZero'
    BY <1>1, <1>2, <1>3, <1>5 DEF AtAddressZero, Here
<1>13. ServedOK'
    BY <1>1, <1>4, <1>5, <1>6 DEF Inv, PlantOK, ServedOK, SamePorts
<1>14. WhereOK' /\ AddressingOK'
    BY <1>1, <1>2 DEF WhereOK, AddressingOK
<1>15. ConnectingOK'
    BY <1>1, <1>2, <1>5, <1>7 DEF ConnectingOK, Here
<1>16. KnownOK'
    BY <1>1, <1>5, <1>6 DEF Inv, KnownOK, Answers
<1>17. TreeOK'
    <2>1. SUFFICES ASSUME ~no_hubs
                   PROVE  EntriesOK' /\ HubsOK' /\ VacantOK' /\ EntryMade'
        BY <1>1, <1>5 DEF TreeOK
    <2>2. EntriesOK /\ HubsOK /\ Vacant(0, 1)
        BY <1>1, <1>2, <2>1 DEF Inv, TreeOK, VacantOK
    <2>3. ASSUME NEW g \in Hubs, NEW p \in 1 .. NPORTS, Answers(g),
                 NEW a \in T!Addr, parent[a] = T!Entry(usb[g], p)
          PROVE  \/ \E d \in Devices : place[d] = <<g, p>> /\ usb'[d] = a
                 \/ port'[<<g, p>>].c_connection /\ \A d \in Devices : place[d] # <<g, p>>
        <3>1. \/ \E d \in Devices : place[d] = <<g, p>> /\ usb[d] = a
              \/ port[<<g, p>>].c_connection /\ \A d \in Devices : place[d] # <<g, p>>
            BY <1>1, <2>2, <2>3 DEF EntriesOK
        <3>2. <<g, p>> \in HubPorts /\ <<g, p>> # RootPlace
            BY PlaceFacts
        <3> QED BY <1>5, <3>1, <3>2 DEF SamePorts
    <2>4. EntriesOK'
        <3>1. \A g \in Hubs : Answers(g)' => Answers(g) /\ usb'[g] = usb[g]
            BY <1>5, <1>6, BusAssumption DEF Answers
        <3>2. \A a \in T!Addr : parent'[a] # T!Entry(0, 1)
            BY <1>1, <2>2 DEF Vacant
        <3>3. ASSUME NEW g \in Hubs, NEW p \in 1 .. NPORTS, Answers(g)',
                     NEW a \in T!Addr, parent'[a] = T!Entry(usb'[g], p)
              PROVE  \/ \E d \in Devices : place'[d] = <<g, p>> /\ usb'[d] = a
                     \/ port'[<<g, p>>].c_connection /\ \A d \in Devices : place'[d] # <<g, p>>
            <4>1. Answers(g) /\ parent[a] = T!Entry(usb[g], p)
                BY <1>1, <3>1, <3>3
            <4> QED BY <1>1, <2>3, <4>1
        <3> QED BY <3>2, <3>3 DEF EntriesOK
    <2>5. HubsOK'
        <3>1. ASSUME NEW g \in Hubs, NEW p \in 1 .. NPORTS, Answers(g)
              PROVE  port'[<<g, p>>].power
            BY <1>1, <1>5, <2>2, <3>1, PlaceFacts DEF HubsOK, SamePorts
        <3> QED BY <1>1, <1>6, <3>1, BusAssumption DEF HubsOK
    <2>6. VacantOK' /\ EntryMade'
        BY <1>1, <1>2, <2>2 DEF VacantOK, Vacant, EntryMade
    <2> QED BY <2>4, <2>5, <2>6
<1>18. AloneOK'
    BY <1>1, <1>5 DEF Inv, AloneOK, Off
<1> QED BY <1>8, <1>9, <1>10, <1>11, <1>12, <1>13, <1>14, <1>15, <1>16, <1>17, <1>18
       DEF Inv, PlantOK

\* A hub is done with the reset of an empty port.
LEMMA EmptyResetDone ==
    ASSUME Inv, NEW here \in HubPorts, port[here].resetting, On(place, here) = {},
           port' = [port EXCEPT ![here].resetting = FALSE, ![here].c_reset = TRUE],
           UNCHANGED <<place, usb, errors, parent, pipes, packet, rootSeen, no_hubs, pc, ctx, known>>
    PROVE  Inv'
<1>1. /\ pc = "wait" /\ Mine(here) /\ ~no_hubs /\ \A d \in Devices : place[d] # here
    BY DEF Inv, PlantOK, PortsOK, AloneOK, On
<1>2. /\ port' \in [HubPorts -> PortStates]
      /\ port'[here].c_connection = port[here].c_connection
      /\ port'[here].power = port[here].power
      /\ port'[here].enabled = port[here].enabled
      /\ ~port'[here].resetting
      /\ \A pl \in HubPorts : pl # here => port'[pl] = port[pl]
    BY DEF Inv, PlantOK, Types, PortStates
<1>3. \A pl : Mine(pl)' <=> Mine(pl)
    BY Zenon DEF Mine, Answers, Off
<1>4. \A d : Answers(d)' <=> Answers(d)
    BY DEF Answers, Off
<1>5. Types'
    BY <1>2 DEF Inv, PlantOK, Types
<1>6. /\ \A pl \in HubPorts : port[pl].enabled <=> port'[pl].enabled
      /\ \A pl \in HubPorts : port[pl].power <=> port'[pl].power
      /\ \A pl \in HubPorts : port[pl].c_connection <=> port'[pl].c_connection
      /\ \A pl \in HubPorts : port'[pl].resetting => port[pl].resetting
    BY <1>2
<1>7. PlugsOK'
    BY <1>4, <1>6, Zenon DEF Inv, PlantOK, PlugsOK, Off
<1>8. PortsOK'
    BY <1>3, <1>4, <1>6 DEF Inv, PlantOK, PortsOK, Dark
<1>9. RootOK' /\ AtAddressZero'
    BY <1>3, <1>4 DEF Inv, PlantOK, RootOK, RootStatus, On, AtAddressZero, Here, Off
<1>10. ServedOK'
    BY <1>3, <1>4, <1>6 DEF Inv, PlantOK, ServedOK
<1>11. WhereOK' /\ AddressingOK' /\ KnownOK'
    BY <1>1, <1>4 DEF Inv, WhereOK, AddressingOK, KnownOK
<1>12. ConnectingOK'
    BY <1>1, <1>2, <1>3, <1>6 DEF Inv, ConnectingOK
<1>13. TreeOK'
    <2>1. /\ TableOK' /\ HubsFit' /\ TopologyIsTrue' /\ T!Present' = T!Present
          /\ known \subseteq T!Present'
        BY <1>1, TableSame
    <2>2. EntriesOK /\ HubsOK /\ Vacant(ctx.hub, ctx.port)
        BY <1>1 DEF Inv, TreeOK, VacantOK
    <2>3. ASSUME NEW g \in Hubs, NEW p \in 1 .. NPORTS, Answers(g),
                 NEW a \in T!Addr, parent[a] = T!Entry(usb[g], p)
          PROVE  \/ \E d \in Devices : place[d] = <<g, p>> /\ usb[d] = a
                 \/ port'[<<g, p>>].c_connection /\ \A d \in Devices : place[d] # <<g, p>>
        <3>1. \/ \E d \in Devices : place[d] = <<g, p>> /\ usb[d] = a
              \/ port[<<g, p>>].c_connection /\ \A d \in Devices : place[d] # <<g, p>>
            BY <1>1, <2>2, <2>3 DEF EntriesOK
        <3> QED BY <1>6, <3>1, PlaceFacts
    <2>4. ASSUME NEW a \in T!Addr, parent[a] = T!Entry(0, 1)
          PROVE  /\ rootSeen # "absent"
                 /\ \/ \E d \in Devices : place[d] = RootPlace /\ usb[d] = a
                    \/ \A d \in Devices : place[d] # RootPlace
        BY <1>1, <2>2, <2>4 DEF EntriesOK
    <2>5. EntriesOK'
        BY <1>4, <2>3, <2>4 DEF EntriesOK
    <2>6. HubsOK'
        BY <1>1, <1>4, <1>6, <2>2, PlaceFacts DEF HubsOK
    <2>7. VacantOK' /\ EntryMade'
        BY <1>1, <2>2 DEF VacantOK, Vacant, EntryMade
    <2> QED BY <2>1, <2>5, <2>6, <2>7 DEF TreeOK
<1>14. AloneOK'
    BY <1>1 DEF AloneOK
<1> QED BY <1>5, <1>7, <1>8, <1>9, <1>10, <1>11, <1>12, <1>13, <1>14 DEF Inv, PlantOK

\* A hub has reset a device.
LEMMA DeviceResetDone ==
    ASSUME Inv, NEW here \in HubPorts, port[here].resetting, NEW d \in On(place, here),
           usb' = ResetUsb(d),
           port' = [Darkened(Below(place, d)) EXCEPT
                       ![here].resetting = FALSE, ![here].c_reset = TRUE, ![here].enabled = TRUE],
           UNCHANGED <<place, errors, parent, pipes, packet, rootSeen, no_hubs, pc, ctx, known>>
    PROVE  Inv'
<1>1. /\ pc = "wait" /\ Mine(here) /\ ~no_hubs /\ d \in Devices /\ place[d] = here
    BY DEF Inv, PlantOK, PortsOK, AloneOK, On
<1>2. ctx.hub # 0 /\ \A pl \in HubPorts : Mine(pl) => pl = here
    <2>1. ASSUME NEW pl \in HubPorts, Mine(pl) PROVE pl[1] = here[1] /\ pl[2] = here[2]
        <3>1. pl[1] \in Devices /\ here[1] \in Devices
            BY PlaceFacts
        <3>2. usb[pl[1]] = usb[here[1]] /\ usb[pl[1]] # Off /\ pl[2] = here[2]
            BY <1>1, <2>1 DEF Mine, Answers
        <3> QED BY <3>1, <3>2 DEF Inv, PlantOK, PlugsOK
    <2>2. \A pl \in HubPorts : pl = <<pl[1], pl[2]>>
        BY PlaceFacts
    <2> QED BY <1>1, <2>1, <2>2 DEF Mine, Answers
<1>3. usb[d] = Off
    BY <1>1, PlaceFacts DEF Inv, PlantOK, PlugsOK, PortsOK
<1>4. \A e \in Devices : usb[e] # 0
    <2>1. ASSUME NEW e \in Devices, usb[e] = 0 PROVE FALSE
        <3>1. place[e] = here
            BY <1>2, <2>1 DEF Inv, PlantOK, AtAddressZero, Here
        <3>2. e = d
            BY <1>1, <3>1, PlaceFacts DEF Inv, PlantOK, PlugsOK
        <3> QED BY <1>3, <2>1, <3>2, BusAssumption DEF Off
    <2> QED BY <2>1
<1>5. /\ usb' = [usb EXCEPT ![d] = 0] /\ usb' \in [Devices -> 0 .. MAX_DEVICES]
      /\ \A e \in Devices : usb'[e] = IF e = d THEN 0 ELSE usb[e]
    <2>1. 0 \in 0 .. MAX_DEVICES /\ usb' = [usb EXCEPT ![d] = 0]
        BY <1>1, <1>3, ResetAlone, BusAssumption
    <2> QED BY <1>1, <2>1 DEF Inv, PlantOK, Types
<1>6. port[here].power /\ ~port[here].c_connection
    BY <1>1 DEF Inv, ConnectingOK
<1>7. /\ port' \in [HubPorts -> PortStates]
      /\ port'[here].power /\ ~port'[here].c_connection /\ port'[here].enabled
      /\ ~port'[here].resetting
      /\ \A pl \in HubPorts : pl # here =>
            /\ port'[pl].power <=> port[pl].power
            /\ port'[pl].c_connection <=> port[pl].c_connection
            /\ port'[pl].enabled <=> port[pl].enabled
            /\ port'[pl].resetting <=> port[pl].resetting
    <2> DEFINE dark == Darkened(Below(place, d))
    <2>1. /\ dark \in [HubPorts -> PortStates]
          /\ \A pl \in HubPorts :
                /\ dark[pl].power <=> port[pl].power
                /\ dark[pl].c_connection <=> port[pl].c_connection
                /\ dark[pl].enabled <=> port[pl].enabled
                /\ dark[pl].resetting <=> port[pl].resetting
        BY <1>1, <1>3, ResetAlone
    <2>2. port' = [dark EXCEPT ![here].resetting = FALSE, ![here].c_reset = TRUE,
                               ![here].enabled = TRUE]
        OBVIOUS
    <2> HIDE DEF dark
    <2>3. /\ port' \in [HubPorts -> PortStates]
          /\ port'[here].power = dark[here].power
          /\ port'[here].c_connection = dark[here].c_connection
          /\ port'[here].enabled /\ ~port'[here].resetting
          /\ \A pl \in HubPorts : pl # here => port'[pl] = dark[pl]
        <3> DEFINE one == [dark EXCEPT ![here].resetting = FALSE]
                   two == [one EXCEPT ![here].c_reset = TRUE]
        <3>1. /\ one \in [HubPorts -> PortStates]
              /\ one[here].power = dark[here].power /\ ~one[here].resetting
              /\ one[here].c_connection = dark[here].c_connection
              /\ \A pl \in HubPorts : pl # here => one[pl] = dark[pl]
            BY <2>1 DEF PortStates
        <3>2. port' = [two EXCEPT ![here].enabled = TRUE]
            BY <2>2
        <3> HIDE DEF one
        <3>3. /\ two \in [HubPorts -> PortStates]
              /\ two[here].power = one[here].power /\ ~two[here].resetting
              /\ two[here].c_connection = one[here].c_connection
              /\ \A pl \in HubPorts : pl # here => two[pl] = one[pl]
            BY <3>1 DEF PortStates
        <3> HIDE DEF two
        <3>4. /\ port' \in [HubPorts -> PortStates]
              /\ port'[here].power = two[here].power
              /\ port'[here].c_connection = two[here].c_connection
              /\ port'[here].enabled /\ ~port'[here].resetting
              /\ \A pl \in HubPorts : pl # here => port'[pl] = two[pl]
            BY ONLY <3>2, <3>3, here \in HubPorts DEF PortStates
        <3> QED BY <3>1, <3>3, <3>4
    <2> QED BY <1>6, <2>1, <2>3
<1>8. /\ \A e \in Devices : Answers(e)' <=> Answers(e)
      /\ \A e \in Devices : Answers(e) => usb'[e] = usb[e]
    BY <1>3, <1>5 DEF Answers, Off
<1>9. \A pl \in HubPorts : Mine(pl)' <=> Mine(pl)
    BY <1>8, PlaceFacts DEF Mine
<1>10. Types'
    BY <1>5, <1>7 DEF Inv, PlantOK, Types
<1>11. PlugsOK'
    <2>1. ASSUME NEW e \in Devices, usb'[e] # Off, place[e] # RootPlace
          PROVE  place[e] \in HubPorts /\ Answers(place[e][1])' /\ port'[place[e]].enabled
        <3>1. CASE e = d
            <4>1. here[1] \in Devices /\ Answers(here[1])
                BY <1>1, PlaceFacts DEF Mine
            <4>2. Answers(place[d][1])'
                BY <1>1, <1>8, <4>1
            <4> QED BY <1>1, <1>7, <3>1, <4>2
        <3>2. CASE e # d
            <4>1. place[e] \in HubPorts /\ Answers(place[e][1]) /\ port[place[e]].enabled
                BY <1>5, <2>1, <3>2 DEF Inv, PlantOK, PlugsOK
            <4>2. place[e][1] \in Devices
                BY <4>1, PlaceFacts
            <4> QED BY <1>7, <1>8, <4>1, <4>2
        <3> QED BY <3>1, <3>2
    <2>2. ASSUME NEW e \in Devices, NEW f \in Devices, usb'[e] = usb'[f], usb'[e] # Off
          PROVE  e = f
        BY <1>4, <1>5, <2>2 DEF Inv, PlantOK, PlugsOK
    <2>3. \A e, f \in Devices : place'[e] = place'[f] /\ place'[e] # Nowhere => e = f
        BY DEF Inv, PlantOK, PlugsOK
    <2> QED BY <2>1, <2>2, <2>3 DEF PlugsOK, Off
<1>12. PortsOK'
    <2>1. ASSUME NEW pl \in HubPorts
          PROVE  /\ port'[pl].enabled => /\ port'[pl].power /\ ~port'[pl].c_connection
                                         /\ ~port'[pl].resetting
                                         /\ \E e \in Devices : place[e] = pl
                 /\ ~Answers(pl[1]) \/ no_hubs => Dark(pl)'
                 /\ port'[pl].c_connection => port'[pl].power
                 /\ port'[pl].resetting => Mine(pl)
        <3>1. CASE pl = here
            BY <1>1, <1>7, <3>1 DEF Mine
        <3>2. CASE pl # here
            BY <1>7, <3>2 DEF Inv, PlantOK, PortsOK, Dark
        <3> QED BY <3>1, <3>2
    <2> QED BY <1>1, <1>8, <1>9, <2>1, PlaceFacts DEF PortsOK
<1>13. RootOK'
    <2>1. RootStatus' = RootStatus
        BY DEF RootStatus, On
    <2>2. \A e \in Devices : place[e] = RootPlace => usb'[e] = usb[e] /\ (Answers(e)' <=> Answers(e))
        BY <1>1, <1>5, <1>8, PlaceFacts
    <2> QED BY <1>2, <2>1, <2>2 DEF Inv, PlantOK, RootOK, Off
<1>14. AtAddressZero'
    <2>1. ASSUME NEW e \in Devices, usb'[e] = 0 PROVE Here(e)'
        <3>1. e = d
            BY <1>4, <1>5, <2>1
        <3> QED BY <1>1, <1>2, <1>9, <3>1 DEF Here
    <2> QED BY <1>1, <2>1 DEF AtAddressZero
<1>15. ServedOK'
    <2>1. ASSUME NEW e \in Devices, place[e] \in HubPorts, port'[place[e]].power
          PROVE  Answers(e) \/ port'[place[e]].c_connection \/ Mine(place[e])
        BY <1>1, <1>6, <1>7, <2>1 DEF Inv, PlantOK, ServedOK
    <2> QED BY <1>1, <1>8, <1>9, <2>1 DEF ServedOK
<1>16. WhereOK' /\ AddressingOK'
    BY <1>1 DEF Inv, WhereOK, AddressingOK
<1>17. KnownOK'
    BY <1>1, <1>8 DEF Inv, KnownOK
<1>18. ConnectingOK'
    <2>1. \A e \in Devices : place[e] = here => usb'[e] = 0
        BY <1>1, <1>5, PlaceFacts DEF Inv, PlantOK, PlugsOK
    <2> QED BY <1>1, <1>2, <1>7, <1>9, <2>1 DEF ConnectingOK
<1>19. TreeOK'
    <2>1. /\ TableOK' /\ HubsFit' /\ TopologyIsTrue' /\ T!Present' = T!Present
          /\ known \subseteq T!Present'
        BY <1>1, <1>3, <1>5, ResetTable
    <2>2. EntriesOK /\ HubsOK /\ Vacant(ctx.hub, ctx.port)
        BY <1>1 DEF Inv, TreeOK, VacantOK
    <2>3. ASSUME NEW g \in Hubs, NEW p \in 1 .. NPORTS, Answers(g)',
                 NEW a \in T!Addr, parent'[a] = T!Entry(usb'[g], p)
          PROVE  \/ \E e \in Devices : place'[e] = <<g, p>> /\ usb'[e] = a
                 \/ port'[<<g, p>>].c_connection /\ \A e \in Devices : place'[e] # <<g, p>>
        <3>1. <<g, p>> \in HubPorts /\ g \in Devices
            BY PlaceFacts, BusAssumption
        <3>2. Answers(g) /\ usb'[g] = usb[g] /\ parent[a] = T!Entry(usb[g], p)
            BY <1>8, <2>3, <3>1
        <3>3. <<g, p>> # here
            <4>1. CASE <<g, p>> = here
                <5>1. usb[g] = ctx.hub /\ p = ctx.port
                    BY <1>1, <4>1, PlaceFacts DEF Mine
                <5> QED BY <2>2, <3>2, <5>1 DEF Vacant
            <4> QED BY <4>1
        <3>4. \/ \E e \in Devices : place[e] = <<g, p>> /\ usb[e] = a
              \/ port[<<g, p>>].c_connection /\ \A e \in Devices : place[e] # <<g, p>>
            BY <1>1, <2>2, <3>2 DEF EntriesOK
        <3>5. \A e \in Devices : place[e] = <<g, p>> => usb'[e] = usb[e]
            BY <1>1, <1>5, <3>3
        <3> QED BY <1>7, <3>1, <3>3, <3>4, <3>5
    <2>4. ASSUME NEW a \in T!Addr, parent[a] = T!Entry(0, 1)
          PROVE  /\ rootSeen # "absent"
                 /\ \/ \E e \in Devices : place[e] = RootPlace /\ usb'[e] = a
                    \/ \A e \in Devices : place[e] # RootPlace
        <3>1. /\ rootSeen # "absent"
              /\ \/ \E e \in Devices : place[e] = RootPlace /\ usb[e] = a
                 \/ \A e \in Devices : place[e] # RootPlace
            BY <1>1, <2>2, <2>4 DEF EntriesOK
        <3>2. \A e \in Devices : place[e] = RootPlace => usb'[e] = usb[e]
            BY <1>1, <1>5, PlaceFacts
        <3> QED BY <3>1, <3>2
    <2>5. EntriesOK'
        BY <2>3, <2>4 DEF EntriesOK
    <2>6. HubsOK'
        <3>1. ASSUME NEW g \in Hubs, NEW p \in 1 .. NPORTS, Answers(g)
              PROVE  port'[<<g, p>>].power
            <4>1. <<g, p>> \in HubPorts /\ port[<<g, p>>].power
                BY <1>1, <2>2, <3>1, PlaceFacts DEF HubsOK
            <4> QED BY <1>7, <4>1
        <3> QED BY <1>1, <1>8, <3>1, BusAssumption DEF HubsOK
    <2>7. VacantOK' /\ EntryMade'
        BY <1>1, <2>2 DEF VacantOK, Vacant, EntryMade
    <2> QED BY <2>1, <2>5, <2>6, <2>7 DEF TreeOK
<1>20. AloneOK'
    BY <1>1 DEF AloneOK
<1> QED BY <1>10, <1>11, <1>12, <1>13, <1>14, <1>15, <1>16, <1>17, <1>18, <1>19, <1>20
       DEF Inv, PlantOK

\* A hub is done with the reset of a port.
LEMMA ResetDoneInv ==
    ASSUME Inv, NEW pl \in HubPorts, ResetDone(pl)
    PROVE  Inv'
<1>1. /\ port[pl].resetting
      /\ UNCHANGED <<place, errors, parent, pipes, packet, rootSeen, no_hubs, pc, ctx, known>>
    BY DEF ResetDone, topology
<1>2. CASE On(place, pl) = {}
    <2>1. /\ port' = [port EXCEPT ![pl].resetting = FALSE, ![pl].c_reset = TRUE]
          /\ UNCHANGED usb
        BY <1>2 DEF ResetDone
    <2> QED BY <1>1, <1>2, <2>1, EmptyResetDone
<1>3. CASE On(place, pl) # {}
    <2>1. PICK d \in On(place, pl) :
            /\ usb' = ResetUsb(d)
            /\ port' = [Darkened(Below(place, d)) EXCEPT
                           ![pl].resetting = FALSE, ![pl].c_reset = TRUE, ![pl].enabled = TRUE]
        BY <1>3 DEF ResetDone
    <2> QED BY <1>1, <2>1, DeviceResetDone
<1> QED BY <1>2, <1>3

-----------------------------------------------------------------------------
(* A new device is given its address.                                      *)

\* The device at address 0 is alone there, and alone in the port in hand.
LEMMA NewcomerAlone ==
    ASSUME Inv, pc \in {"new_device", "set_address"}, NEW d \in Responders(0)
    PROVE  /\ d \in Devices /\ usb[d] = 0 /\ Here(d) /\ ~Answers(d)
           /\ \A e \in Devices : usb[e] = 0 => e = d
           /\ \A e \in Devices : Here(e) => e = d
           /\ ctx.hub = 0 => ctx.port = 1 /\ place[d] = RootPlace /\ rootSeen # "absent"
           /\ ctx.hub # 0 => /\ ~no_hubs /\ place[d] \in HubPorts /\ Mine(place[d])
                             /\ ctx.hub \in HubAddr /\ ctx.port \in 1 .. NPORTS
<1>1. d \in Devices /\ usb[d] = 0 /\ 0 # Off
    BY BusAssumption DEF Responders, Off
<1>2. Here(d) /\ ~Answers(d)
    BY <1>1 DEF Inv, PlantOK, AtAddressZero, Answers
<1>3. \A e \in Devices : usb[e] = 0 => e = d
    BY <1>1 DEF Inv, PlantOK, PlugsOK
<1>4. \A e \in Devices : Here(e) => e = d
    BY <1>3 DEF Inv, ConnectingOK
<1>5. ctx.hub = 0 => ctx.port = 1 /\ place[d] = RootPlace /\ rootSeen # "absent"
    BY <1>2, BusAssumption DEF Here, Inv, WhereOK, HubAddr, PlantOK, RootOK
<1>6. ASSUME ctx.hub # 0
      PROVE  /\ ~no_hubs /\ place[d] \in HubPorts /\ Mine(place[d])
             /\ ctx.hub \in HubAddr /\ ctx.port \in 1 .. NPORTS
    <2>1. place[d] \in HubPorts /\ Mine(place[d])
        BY <1>2, <1>6 DEF Here
    <2>2. port[place[d]].enabled
        BY <1>1, <2>1, PlaceFacts DEF Inv, PlantOK, PlugsOK
    <2>3. ~no_hubs
        BY <2>1, <2>2 DEF Inv, PlantOK, PortsOK, Dark
    <2> QED BY <1>6, <2>1, <2>3 DEF Inv, WhereOK
<1> QED BY <1>1, <1>2, <1>3, <1>4, <1>5, <1>6

\* With an address in hand, the rest of the invariant is as it was.
LEMMA AllottedRest ==
    ASSUME Inv, pc = "new_device", pc' = "set_address", NEW d \in Responders(0),
           NEW x \in 0 .. MAX_DEVICES - 1,
           ctx' = [ctx EXCEPT !.is_hub = (d \in Hubs /\ ~no_hubs), !.address = x],
           x # 0, \A e \in Devices : usb[e] # x, d \in Hubs /\ ~no_hubs => x < MAX_HUBS,
           parent' \in [T!Addr -> T!Byte],
           UNCHANGED <<place, usb, port, errors, pipes, packet, rootSeen, no_hubs, known>>
    PROVE  PlantOK' /\ WhereOK' /\ ConnectingOK' /\ AddressingOK' /\ KnownOK'
<1>1. /\ ctx'.hub = ctx.hub /\ ctx'.port = ctx.port /\ ctx'.address = x
      /\ ctx'.is_hub <=> d \in Hubs /\ ~no_hubs
      /\ Types'
    BY DEF Inv, PlantOK, Types
<1>2. \A e : Answers(e)' <=> Answers(e)
    BY DEF Answers, Off
<1>3. \A pl : Mine(pl)' <=> Mine(pl)
    BY <1>1, <1>2, Zenon DEF Mine
<1>4. \A e : Here(e)' <=> Here(e)
    BY <1>1, <1>3, Zenon DEF Here
<1>5. PlugsOK' /\ PortsOK'
    BY <1>2 DEF Inv, PlantOK, PlugsOK, PortsOK, Dark, Off
<1>6. RootOK' /\ AtAddressZero' /\ ServedOK'
    BY <1>1, <1>2, <1>3, <1>4 DEF Inv, PlantOK, RootOK, RootStatus, On, AtAddressZero, ServedOK,
       Off
<1>7. WhereOK' /\ KnownOK'
    BY <1>1, <1>2 DEF Inv, WhereOK, KnownOK
<1>8. ConnectingOK'
    BY <1>3, <1>4 DEF Inv, ConnectingOK
<1>9. AddressingOK'
    BY <1>1, <1>4, NewcomerAlone DEF AddressingOK
<1> QED BY <1>1, <1>5, <1>6, <1>7, <1>8, <1>9 DEF PlantOK

\* device_connect enters the new device in the topology.
LEMMA EntryAdded ==
    ASSUME Inv, ~no_hubs, pc = "new_device", pc' = "set_address", NEW d \in Responders(0),
           NEW x \in T!Addr, T!FreeAddress(x, d \in Hubs), T!InRange(ctx.hub, ctx.port),
           ctx' = [ctx EXCEPT !.is_hub = (d \in Hubs /\ ~no_hubs), !.address = x],
           parent' = [parent EXCEPT ![x] = T!Entry(ctx.hub, ctx.port)],
           UNCHANGED <<place, usb, port, errors, pipes, packet, rootSeen, no_hubs, known>>
    PROVE  Inv'
<1>1. x \in 0 .. MAX_DEVICES - 1 /\ x # 0 /\ x \notin T!Present /\ (d \in Hubs => x < MAX_HUBS)
    BY BusAssumption DEF T!FreeAddress, T!Addr
<1>2. /\ d \in Devices /\ usb[d] = 0 /\ Here(d)
      /\ ctx.hub = 0 => ctx.port = 1 /\ place[d] = RootPlace /\ rootSeen # "absent"
      /\ ctx.hub # 0 => /\ place[d] \in HubPorts /\ Mine(place[d])
                        /\ ctx.hub \in HubAddr /\ ctx.port \in 1 .. NPORTS
    BY NewcomerAlone
<1>3. /\ ctx.hub \in 0 .. MAX_HUBS - 1 /\ ctx.hub \in 0 .. 15
      /\ ctx.port \in 1 .. MAX_PORTS - 1 /\ ctx.port \in Nat
    BY <1>2, BusAssumption DEF T!InRange, HubAddr
<1>4. /\ T!Entry(ctx.hub, ctx.port) \in T!Byte /\ T!Entry(ctx.hub, ctx.port) > 0
      /\ T!HubOf(T!Entry(ctx.hub, ctx.port)) = ctx.hub
    <2>1. ctx.port <= 15
        BY <1>3, BusAssumption
    <2>2. T!Entry(ctx.hub, ctx.port) \in T!Byte
        BY <1>3, <2>1 DEF T!Entry, T!Byte
    <2> QED BY <1>3, <2>2, Codec
<1>5. \A e \in Devices : usb[e] # x
    <2>1. ASSUME NEW e \in Devices, usb[e] = x PROVE FALSE
        <3>1. Answers(e)
            BY <1>1, <2>1, BusAssumption DEF Answers, Off
        <3> QED BY <1>1, <2>1, <3>1, AnswersPresent
    <2> QED BY <2>1
<1>6. ctx.hub \in {0} \cup T!Present
    <2>1. CASE ctx.hub # 0
        <3>1. place[d][1] \in Devices /\ Answers(place[d][1]) /\ usb[place[d][1]] = ctx.hub
            BY <1>2, <2>1, PlaceFacts DEF Mine
        <3> QED BY <3>1, AnswersPresent
    <2> QED BY <2>1
<1>7. TableOK /\ HubsFit /\ EntriesOK /\ HubsOK /\ TopologyIsTrue /\ known \subseteq T!Present /\ Types
    BY DEF Inv, TreeOK, PlantOK
<1>8. /\ parent' \in [T!Addr -> T!Byte] /\ parent'[x] = T!Entry(ctx.hub, ctx.port)
      /\ \A a \in T!Addr : a # x => parent'[a] = parent[a]
    BY <1>4, <1>7 DEF Types
<1>9. T!Present' = T!Present \cup {x}
    BY <1>4, <1>8 DEF T!Present, T!PresentIn
<1>10. PlantOK' /\ WhereOK' /\ ConnectingOK' /\ AddressingOK' /\ KnownOK'
    BY <1>1, <1>5, <1>8, AllottedRest
<1>11. ctx'.hub = ctx.hub /\ ctx'.port = ctx.port /\ ctx'.address = x
    BY <1>7 DEF Types
<1>12. \A b \in T!Present' : T!HubOf(parent'[b]) # x /\ T!HubOf(parent'[b]) \in {0} \cup T!Present
    <2>1. T!HubOf(parent'[x]) = ctx.hub
        BY <1>4, <1>8
    <2>2. \A b \in T!Present : b \in T!Addr /\ T!HubOf(parent[b]) \in {0} \cup T!Present
        BY <1>7 DEF TableOK, T!NoOrphans, T!Present, T!PresentIn
    <2> QED BY <1>1, <1>6, <1>8, <1>9, <2>1, <2>2
<1>13. TableOK'
    <2>1. 0 \notin T!Present'
        BY <1>1, <1>7, <1>9 DEF TableOK
    <2>2. T!NoOrphans'
        BY <1>9, <1>12 DEF T!NoOrphans
    <2>3. T!RootedAtRoot'
        <3> SUFFICES ASSUME NEW S \in SUBSET T!Present', S # {}
                     PROVE  \E a \in S : T!HubOf(parent'[a]) \notin S
            BY DEF T!RootedAtRoot
        <3>1. CASE S \ {x} = {}
            BY <1>12, <3>1
        <3>2. CASE S \ {x} # {}
            <4>1. S \ {x} \in SUBSET T!Present
                BY <1>9
            <4>2. PICK a \in S \ {x} : T!HubOf(parent[a]) \notin S \ {x}
                BY <1>7, <3>2, <4>1 DEF TableOK, T!RootedAtRoot
            <4>3. a \in T!Present /\ a \in T!Addr /\ a # x
                BY <4>1 DEF T!Present, T!PresentIn
            <4>4. parent'[a] = parent[a] /\ T!HubOf(parent'[a]) # x
                BY <1>8, <1>9, <1>12, <4>3
            <4> QED BY <4>2, <4>4
        <3> QED BY <3>1, <3>2
    <2>4. ASSUME NEW a \in T!Present'
          PROVE  \E h \in 0 .. MAX_HUBS - 1, p \in 1 .. MAX_PORTS - 1 :
                    /\ parent'[a] = T!Entry(h, p)
                    /\ h = 0 => p = 1
                    /\ \A e \in Devices : usb'[e] = h /\ h # 0 => e \in Hubs /\ p \in 1 .. NPORTS
        <3>1. CASE a = x
            <4>1. ASSUME NEW e \in Devices, usb'[e] = ctx.hub, ctx.hub # 0
                  PROVE  e \in Hubs /\ ctx.port \in 1 .. NPORTS
                <5>1. /\ place[d][1] \in Devices /\ place[d][1] \in Hubs
                      /\ usb[place[d][1]] = ctx.hub /\ Answers(place[d][1])
                    BY <1>2, <4>1, PlaceFacts DEF Mine
                <5>2. e = place[d][1]
                    BY <4>1, <5>1 DEF Inv, PlantOK, PlugsOK, Answers
                <5> QED BY <1>2, <4>1, <5>1, <5>2
            <4> QED BY <1>2, <1>3, <1>8, <3>1, <4>1
        <3>2. CASE a # x
            <4>1. a \in T!Present /\ parent'[a] = parent[a]
                BY <1>8, <1>9, <3>2 DEF T!Present, T!PresentIn
            <4> QED BY <1>7, <4>1 DEF TableOK
        <3> QED BY <3>1, <3>2
    <2> QED BY <2>1, <2>2, <2>3, <2>4 DEF TableOK
<1>14. HubsFit' /\ (known \subseteq T!Present)'
    BY <1>7, <1>9 DEF HubsFit, Off
<1>15. TopologyIsTrue'
    <2>1. ASSUME NEW e \in Devices, usb[e] \notin {0, Off} PROVE parent'[usb[e]] = parent[usb[e]]
        <3>1. usb[e] \in T!Addr /\ usb[e] # x
            BY <1>5, <2>1, AnswersPresent DEF Answers
        <3> QED BY <1>8, <3>1
    <2> QED BY <1>7, <2>1 DEF TopologyIsTrue, Off
<1>16. EntriesOK'
    <2>1. ASSUME NEW g \in Hubs, NEW p \in 1 .. NPORTS, Answers(g)',
                 NEW a \in T!Addr, parent'[a] = T!Entry(usb'[g], p)
          PROVE  \/ \E e \in Devices : place'[e] = <<g, p>> /\ usb'[e] = a
                 \/ port'[<<g, p>>].c_connection /\ \A e \in Devices : place'[e] # <<g, p>>
                 \/ pc' = "set_address" /\ Mine(<<g, p>>)' /\ ctx'.address = a
        <3>1. Answers(g)
            BY <2>1 DEF Answers, Off
        <3>2. CASE a = x
            <4>1. g \in Devices /\ usb[g] \in 0 .. MAX_DEVICES
                BY <1>7, BusAssumption DEF Types
            <4>2. usb[g] < MAX_HUBS
                BY <1>7, <3>1 DEF HubsFit, Answers
            <4>3. usb[g] \in 0 .. 15 /\ p \in Nat
                BY <4>1, <4>2, BusAssumption
            <4>4. T!Entry(usb[g], p) = T!Entry(ctx.hub, ctx.port)
                BY <1>8, <2>1, <3>2
            <4>5. usb[g] = ctx.hub /\ p = ctx.port
                BY ONLY <1>3, <4>3, <4>4, EntryInjective
            <4>6. Mine(<<g, p>>)'
                BY <1>11, <2>1, <4>5, PlaceFacts DEF Mine
            <4> QED BY <1>11, <3>2, <4>6
        <3>3. CASE a # x
            <4>1. parent[a] = T!Entry(usb[g], p)
                BY <1>8, <2>1, <3>3
            <4>2. \/ \E e \in Devices : place[e] = <<g, p>> /\ usb[e] = a
                  \/ port[<<g, p>>].c_connection /\ \A e \in Devices : place[e] # <<g, p>>
                BY <1>7, <3>1, <4>1 DEF EntriesOK
            <4> QED BY <4>2
        <3> QED BY <3>2, <3>3
    <2>2. ASSUME NEW a \in T!Addr, parent'[a] = T!Entry(0, 1)
          PROVE  /\ rootSeen # "absent"
                 /\ \/ \E e \in Devices : place[e] = RootPlace /\ usb[e] = a
                    \/ \A e \in Devices : place[e] # RootPlace
                    \/ ctx.hub = 0 /\ x = a
        <3>1. CASE a = x
            <4>1. T!Entry(0, 1) = T!Entry(ctx.hub, ctx.port) /\ 0 \in 0 .. 15 /\ 1 \in Nat
                BY <1>8, <2>2, <3>1
            <4>2. ctx.hub = 0
                BY ONLY <1>3, <4>1, EntryInjective
            <4> QED BY <1>2, <3>1, <4>2
        <3>2. CASE a # x
            <4>1. parent[a] = T!Entry(0, 1)
                BY <1>8, <2>2, <3>2
            <4> QED BY <1>7, <4>1 DEF EntriesOK
        <3> QED BY <3>1, <3>2
    <2> QED BY <1>11, <2>1, <2>2 DEF EntriesOK
<1>17. HubsOK'
    <2>1. \A e : Answers(e)' <=> Answers(e)
        BY DEF Answers, Off
    <2> QED BY <1>7, <2>1 DEF HubsOK
<1>18. VacantOK' /\ EntryMade'
    BY <1>8, <1>11, <1>12 DEF VacantOK, EntryMade
<1>19. TreeOK' /\ AloneOK'
    BY <1>13, <1>14, <1>15, <1>16, <1>17, <1>18 DEF TreeOK, AloneOK
<1> QED BY <1>10, <1>19 DEF Inv

\* Without hubs, the first address.
LEMMA FirstAllotted ==
    ASSUME Inv, no_hubs, pc = "new_device", pc' = "set_address", NEW d \in Responders(0),
           ctx' = [ctx EXCEPT !.is_hub = (d \in Hubs /\ ~no_hubs), !.address = 1],
           UNCHANGED <<place, usb, port, errors, parent, pipes, packet, rootSeen, no_hubs, known>>
    PROVE  Inv'
<1>1. /\ d \in Devices /\ usb[d] = 0 /\ place[d] = RootPlace
    BY NewcomerAlone
<1>2. ASSUME NEW e \in Devices, usb[e] = 1 PROVE FALSE
    <2>1. usb[e] # Off
        BY <1>2, BusAssumption DEF Off
    <2>2. CASE place[e] = RootPlace
        <3>1. e = d
            BY <1>1, <2>2, PlaceFacts DEF Inv, PlantOK, PlugsOK
        <3> QED BY <1>1, <1>2, <3>1
    <2>3. CASE place[e] # RootPlace
        <3>1. place[e] \in HubPorts /\ port[place[e]].enabled
            BY <2>1, <2>3 DEF Inv, PlantOK, PlugsOK
        <3> QED BY <3>1 DEF Inv, PlantOK, PortsOK, Dark
    <2> QED BY <2>2, <2>3
<1>3. /\ 1 \in 0 .. MAX_DEVICES - 1 /\ parent' \in [T!Addr -> T!Byte]
    BY BusAssumption DEF Inv, PlantOK, Types
<1>4. PlantOK' /\ WhereOK' /\ ConnectingOK' /\ AddressingOK' /\ KnownOK'
    <2>1. 1 # 0 /\ (\A e \in Devices : usb[e] # 1) /\ (d \in Hubs /\ ~no_hubs => 1 < MAX_HUBS)
        BY <1>2
    <2> QED BY <1>3, <2>1, AllottedRest
<1>5. ctx'.address = 1
    BY DEF Inv, PlantOK, Types
<1>6. TreeOK' /\ AloneOK'
    BY <1>5 DEF Inv, TreeOK, AloneOK, Off
<1> QED BY <1>4, <1>6 DEF Inv

\* A new device is read and entered; nobody is turned away.
LEMMA NewDeviceInv ==
    ASSUME Inv, Calm, NewDevice, NoneRefused'
    PROVE  Inv'
<1>1. pc = "new_device"
    BY DEF NewDevice
<1>2. CASE TransferError(Responders(0))
    BY <1>1, <1>2, DeviceLost
<1>3. ASSUME NEW d \in Responders(0), Allot(d),
             IF address' # {}
             THEN /\ pc' = "set_address"
                  /\ \E a \in address' :
                        ctx' = [ctx EXCEPT !.is_hub = (d \in Hubs /\ ~no_hubs), !.address = a]
                  /\ UNCHANGED event
             ELSE IF ctx.hub = 0
             THEN pc' = "panic" /\ UNCHANGED <<ctx, event>>
             ELSE Yield("error", {}, "TooManyDevices"),
             UNCHANGED <<plant, errors, pipes, packet, rootSeen, no_hubs, known>>
      PROVE  Inv'
    <2>1. UNCHANGED <<place, usb, port, errors, pipes, packet, rootSeen, no_hubs, known>>
        BY <1>3 DEF plant
    <2>2. address' # {}
        <3>1. CASE address' = {} /\ ctx.hub = 0
            BY <1>3, <3>1 DEF NoneRefused
        <3>2. CASE address' = {} /\ ctx.hub # 0
            <4>1. Yield("error", {}, "TooManyDevices")
                BY <1>3, <3>2
            <4> QED BY <4>1 DEF Yield, NoneRefused
        <3> QED BY <3>1, <3>2
    <2>3. /\ pc' = "set_address"
          /\ \E a \in address' :
                ctx' = [ctx EXCEPT !.is_hub = (d \in Hubs /\ ~no_hubs), !.address = a]
        BY <1>3, <2>2
    <2>4. CASE no_hubs
        <3>1. address' = {1} /\ parent' = parent
            BY <1>3, <2>4 DEF Allot
        <3>2. ctx' = [ctx EXCEPT !.is_hub = (d \in Hubs /\ ~no_hubs), !.address = 1]
            BY <2>3, <3>1
        <3> QED BY <1>1, <2>1, <2>3, <2>4, <3>1, <3>2, FirstAllotted
    <2>5. CASE ~no_hubs
        <3>1. T!device_connect(ctx.hub, ctx.port, d \in Hubs)
            BY <1>3, <2>5 DEF Allot
        <3>2. T!Occupied(ctx.hub, ctx.port) = {}
            BY <1>1, <2>5 DEF Inv, TreeOK, VacantOK, Vacant, T!Occupied
        <3>3. /\ T!InRange(ctx.hub, ctx.port)
              /\ \E x \in T!Addr : /\ T!FreeAddress(x, d \in Hubs)
                                   /\ parent' = [parent EXCEPT ![x] = T!Entry(ctx.hub, ctx.port)]
                                   /\ address' = {x}
            BY <2>2, <3>1, <3>2 DEF T!device_connect
        <3>4. PICK x \in T!Addr : /\ T!FreeAddress(x, d \in Hubs)
                                  /\ parent' = [parent EXCEPT ![x] = T!Entry(ctx.hub, ctx.port)]
                                  /\ address' = {x}
            BY <3>3
        <3>5. ctx' = [ctx EXCEPT !.is_hub = (d \in Hubs /\ ~no_hubs), !.address = x]
            BY <2>3, <3>4
        <3> QED BY <1>1, <2>1, <2>3, <2>5, <3>3, <3>4, <3>5, EntryAdded
    <2> QED BY <2>4, <2>5
<1> QED BY <1>2, <1>3 DEF NewDevice

\* The device has its address.  Here for all that does not concern the table.
LEMMA AddressedPlant ==
    ASSUME Inv, pc = "set_address", NEW d \in Responders(0),
           usb' = [usb EXCEPT ![d] = ctx.address], Types', pc' \in {"new_hub", "idle"},
           UNCHANGED <<place, port, rootSeen, no_hubs>>
    PROVE  PlantOK'
<1>1. /\ d \in Devices /\ usb[d] = 0 /\ Here(d) /\ ~Answers(d)
      /\ \A e \in Devices : usb[e] = 0 => e = d
      /\ \A e \in Devices : Here(e) => e = d
      /\ ctx.hub = 0 => place[d] = RootPlace
      /\ ctx.hub # 0 => place[d] \in HubPorts /\ Mine(place[d])
    BY NewcomerAlone
<1>2. \A e \in Devices : usb'[e] = IF e = d THEN ctx.address ELSE usb[e]
    BY <1>1 DEF Inv, PlantOK, Types
<1>3. ctx.address # 0 /\ ctx.address # Off /\ \A e \in Devices : usb[e] # ctx.address
    BY BusAssumption DEF Inv, AddressingOK, PlantOK, Types, Off
<1>4. Answers(d)' /\ \A e \in Devices : e # d => (Answers(e)' <=> Answers(e))
    BY <1>1, <1>2, <1>3 DEF Answers, Off
<1>5. PlugsOK'
    <2>1. \A e, f \in Devices : place'[e] = place'[f] /\ place'[e] # Nowhere => e = f
        BY DEF Inv, PlantOK, PlugsOK
    <2>2. ASSUME NEW e \in Devices, usb'[e] # Off, place[e] # RootPlace
          PROVE  place[e] \in HubPorts /\ Answers(place[e][1])' /\ port[place[e]].enabled
        <3>1. usb[e] # Off
            BY <1>1, <1>2, <2>2, BusAssumption DEF Off
        <3>2. place[e] \in HubPorts /\ Answers(place[e][1]) /\ port[place[e]].enabled
            BY <2>2, <3>1 DEF Inv, PlantOK, PlugsOK
        <3> QED BY <1>4, <3>2, PlaceFacts
    <2>3. \A e, f \in Devices : usb'[e] = usb'[f] /\ usb'[e] # Off => e = f
        BY <1>2, <1>3 DEF Inv, PlantOK, PlugsOK
    <2> QED BY <2>1, <2>2, <2>3 DEF PlugsOK, Off
<1>6. PortsOK'
    <2>1. \A pl \in HubPorts : Answers(pl[1]) => Answers(pl[1])'
        BY <1>1, <1>4, PlaceFacts
    <2> QED BY <2>1 DEF Inv, PlantOK, PortsOK, Dark
<1>7. RootOK'
    <2>1. RootStatus' = RootStatus
        BY DEF RootStatus, On
    <2>2. ASSUME NEW e \in Devices, place[e] = RootPlace
          PROVE  IF rootSeen = "absent" THEN usb'[e] = Off ELSE Answers(e)'
        <3>1. CASE e = d
            <4>1. ctx.hub = 0
                BY <1>1, <2>2, <3>1, PlaceFacts
            <4>2. rootSeen # "absent"
                BY <4>1 DEF Inv, PlantOK, RootOK
            <4> QED BY <1>4, <3>1, <4>2
        <3>2. CASE e # d
            <4>1. ctx.hub # 0
                BY <1>1, <2>2, <3>2, PlaceFacts DEF Inv, PlantOK, PlugsOK
            <4>2. IF rootSeen = "absent" THEN usb[e] = Off ELSE Answers(e)
                BY <2>2, <4>1 DEF Inv, PlantOK, RootOK
            <4> QED BY <1>2, <1>4, <3>2, <4>2
        <3> QED BY <3>1, <3>2
    <2>3. rootSeen # "absent" => RootStatus \in {rootSeen, "absent"}
        BY DEF Inv, PlantOK, RootOK
    <2> QED BY <2>1, <2>2, <2>3 DEF RootOK, Off
<1>8. AtAddressZero'
    BY <1>1, <1>2, <1>3 DEF AtAddressZero
<1>9. ServedOK'
    <2>1. ASSUME NEW e \in Devices, place[e] \in HubPorts, port[place[e]].power
          PROVE  Answers(e)' \/ port[place[e]].c_connection
        <3>1. CASE Mine(place[e])
            <4>1. Here(e)
                BY <2>1, <3>1 DEF Here, Mine, Answers
            <4> QED BY <1>1, <1>4, <4>1
        <3>2. CASE ~Mine(place[e])
            BY <1>4, <2>1, <3>2 DEF Inv, PlantOK, ServedOK
        <3> QED BY <3>1, <3>2
    <2> QED BY <2>1 DEF ServedOK
<1> QED BY <1>5, <1>6, <1>7, <1>8, <1>9 DEF PlantOK

\* What the table says is true of it.
LEMMA AddressedTable ==
    ASSUME Inv, ~no_hubs, pc = "set_address", NEW d \in Responders(0),
           usb' = [usb EXCEPT ![d] = ctx.address],
           UNCHANGED <<place, port, parent, rootSeen, no_hubs>>
    PROVE  /\ TableOK' /\ HubsFit' /\ TopologyIsTrue' /\ T!Present' = T!Present
           /\ ctx.address \in T!Present
           /\ \A g \in Hubs, p \in 1 .. NPORTS : Answers(g)' =>
                \A a \in T!Addr : parent'[a] = T!Entry(usb'[g], p) =>
                   \/ \E e \in Devices : place'[e] = <<g, p>> /\ usb'[e] = a
                   \/ port'[<<g, p>>].c_connection /\ \A e \in Devices : place'[e] # <<g, p>>
           /\ \A a \in T!Addr : parent'[a] = T!Entry(0, 1) =>
                /\ rootSeen' # "absent"
                /\ \/ \E e \in Devices : place'[e] = RootPlace /\ usb'[e] = a
                   \/ \A e \in Devices : place'[e] # RootPlace
<1>1. /\ d \in Devices /\ usb[d] = 0 /\ Here(d) /\ ~Answers(d)
      /\ ctx.hub = 0 => ctx.port = 1 /\ place[d] = RootPlace
      /\ ctx.hub # 0 => place[d] \in HubPorts /\ Mine(place[d])
    BY NewcomerAlone
<1>2. \A e \in Devices : usb'[e] = IF e = d THEN ctx.address ELSE usb[e]
    BY <1>1 DEF Inv, PlantOK, Types
<1>3. /\ TableOK /\ HubsFit /\ TopologyIsTrue /\ EntriesOK /\ Types
      /\ parent[ctx.address] = T!Entry(ctx.hub, ctx.port)
      /\ \A b \in T!Present : T!HubOf(parent[b]) # ctx.address
    BY DEF Inv, TreeOK, EntryMade, PlantOK
<1>4. /\ ctx.address # 0 /\ ctx.address # Off /\ \A e \in Devices : usb[e] # ctx.address
      /\ ctx.address \in T!Addr
    BY BusAssumption DEF Inv, AddressingOK, PlantOK, Types, Off, T!Addr
<1>5. d \in Hubs => ctx.address < MAX_HUBS
    BY <1>1 DEF Inv, AddressingOK
<1>6. T!Present' = T!Present
    BY DEF T!Present, T!PresentIn
<1>7. ctx.address \in T!Present
    <2>1. ctx.hub \in 0 .. 15 /\ ctx.port \in Nat /\ ctx.port >= 1
        <3>1. ctx.hub \in 0 .. MAX_HUBS - 1 /\ ctx.port \in Nat
            BY DEF Inv, PlantOK, Types
        <3>2. ctx.port = 1 \/ ctx.port \in 1 .. NPORTS
            BY DEF Inv, WhereOK
        <3> QED BY <3>1, <3>2, BusAssumption
    <2>2. T!Entry(ctx.hub, ctx.port) > 0
        BY <2>1, Codec
    <2> QED BY <1>3, <1>4, <2>2 DEF T!Present, T!PresentIn
<1>8. TableOK'
    <2>1. 0 \notin T!Present' /\ T!NoOrphans' /\ T!RootedAtRoot'
        BY <1>3, <1>6 DEF TableOK, T!NoOrphans, T!RootedAtRoot
    <2>2. ASSUME NEW a \in T!Present
          PROVE  \E h \in 0 .. MAX_HUBS - 1, p \in 1 .. MAX_PORTS - 1 :
                    /\ parent'[a] = T!Entry(h, p)
                    /\ h = 0 => p = 1
                    /\ \A e \in Devices : usb'[e] = h /\ h # 0 => e \in Hubs /\ p \in 1 .. NPORTS
        <3>1. PICK h \in 0 .. MAX_HUBS - 1, p \in 1 .. MAX_PORTS - 1 :
                    /\ parent[a] = T!Entry(h, p)
                    /\ h = 0 => p = 1
                    /\ \A e \in Devices : usb[e] = h /\ h # 0 => e \in Hubs /\ p \in 1 .. NPORTS
            BY <1>3 DEF TableOK
        <3>2. h \in 0 .. 15 /\ p \in Nat
            BY BusAssumption
        <3>3. h # ctx.address
            BY <1>3, <3>1, <3>2, Codec
        <3> QED BY <1>2, <3>1, <3>3
    <2> QED BY <1>6, <2>1, <2>2 DEF TableOK
<1>9. HubsFit'
    BY <1>2, <1>3, <1>5 DEF HubsFit, Off
<1>10. \A e \in Devices : Answers(e) => e # d /\ usb'[e] = usb[e]
    BY <1>1, <1>2
<1>11. TopologyIsTrue'
    <2>1. ASSUME NEW e \in Devices, usb'[e] \notin {0, Off}
          PROVE  parent[usb'[e]] = IF place[e] = RootPlace THEN T!Entry(0, 1)
                                   ELSE T!Entry(usb'[place[e][1]], place[e][2])
        <3>1. CASE e = d /\ ctx.hub = 0
            BY <1>1, <1>2, <1>3, <3>1
        <3>2. CASE e = d /\ ctx.hub # 0
            <4>1. /\ place[d][1] \in Devices /\ Answers(place[d][1]) /\ place[d] # RootPlace
                  /\ ctx.hub = usb[place[d][1]] /\ ctx.port = place[d][2]
                BY <1>1, <3>2, PlaceFacts DEF Mine
            <4>2. usb'[place[d][1]] = ctx.hub
                BY <1>10, <4>1
            <4> QED BY <1>1, <1>2, <1>3, <3>2, <4>1, <4>2
        <3>3. CASE e # d
            <4>1. Answers(e) /\ usb'[e] = usb[e]
                BY <1>2, <2>1, <3>3 DEF Answers
            <4>2. CASE place[e] = RootPlace
                BY <1>3, <2>1, <4>1, <4>2 DEF TopologyIsTrue
            <4>3. CASE place[e] # RootPlace
                <5>1. place[e] \in HubPorts /\ Answers(place[e][1])
                    BY <2>1, <4>1, <4>3 DEF Inv, PlantOK, PlugsOK
                <5>2. usb'[place[e][1]] = usb[place[e][1]]
                    BY <1>10, <5>1, PlaceFacts
                <5> QED BY <1>3, <2>1, <4>1, <4>3, <5>2 DEF TopologyIsTrue
            <4> QED BY <4>2, <4>3
        <3> QED BY <3>1, <3>2, <3>3
    <2> QED BY <2>1 DEF TopologyIsTrue, Off
<1>12. ASSUME NEW g \in Hubs, NEW p \in 1 .. NPORTS, Answers(g)',
              NEW a \in T!Addr, parent'[a] = T!Entry(usb'[g], p)
       PROVE  \/ \E e \in Devices : place'[e] = <<g, p>> /\ usb'[e] = a
              \/ port'[<<g, p>>].c_connection /\ \A e \in Devices : place'[e] # <<g, p>>
    <2>1. g \in Devices /\ usb'[g] \in 0 .. 15 /\ p \in Nat /\ p >= 1
        <3>1. g \in Devices /\ usb'[g] \in Nat
            BY <1>2, <1>3, BusAssumption DEF Types
        <3>2. usb'[g] < MAX_HUBS
            BY <1>9, <1>12 DEF HubsFit, Answers
        <3> QED BY <3>1, <3>2, BusAssumption
    <2>2. T!Entry(usb'[g], p) > 0 /\ T!HubOf(T!Entry(usb'[g], p)) = usb'[g]
        BY <2>1, Codec
    <2>3. a \in T!Present /\ T!HubOf(parent[a]) = usb'[g]
        BY <1>12, <2>2 DEF T!Present, T!PresentIn
    <2>4. a # 0 /\ g # d
        BY <1>2, <1>3, <2>1, <2>3 DEF TableOK
    <2>5. Answers(g) /\ usb'[g] = usb[g]
        BY <1>2, <1>12, <2>1, <2>4 DEF Answers, Off
    <2>6. parent[a] = T!Entry(usb[g], p)
        BY <1>12, <2>5
    <2>7. \/ \E e \in Devices : place[e] = <<g, p>> /\ usb[e] = a
          \/ port[<<g, p>>].c_connection /\ \A e \in Devices : place[e] # <<g, p>>
          \/ Mine(<<g, p>>) /\ ctx.address = a
        BY <1>3, <2>5, <2>6 DEF EntriesOK
    <2>8. CASE \E e \in Devices : place[e] = <<g, p>> /\ usb[e] = a
        BY <1>1, <1>2, <2>4, <2>8
    <2>9. CASE Mine(<<g, p>>) /\ ctx.address = a
        <3>1. usb[g] = ctx.hub /\ p = ctx.port /\ ctx.hub # 0
            BY <2>9, PlaceFacts DEF Mine, Answers
        <3>2. place[d] \in HubPorts /\ Mine(place[d])
            BY <1>1, <3>1
        <3>3. place[d][1] \in Devices /\ usb[place[d][1]] = usb[g] /\ place[d][2] = p
            BY <3>1, <3>2, PlaceFacts DEF Mine
        <3>4. place[d][1] = g
            BY <2>1, <2>5, <3>3 DEF Inv, PlantOK, PlugsOK, Answers
        <3>5. place[d] = <<g, p>>
            BY <3>2, <3>3, <3>4, PlaceFacts
        <3> QED BY <1>1, <1>2, <2>9, <3>5
    <2> QED BY <2>7, <2>8, <2>9
<1>13. ASSUME NEW a \in T!Addr, parent'[a] = T!Entry(0, 1)
       PROVE  /\ rootSeen' # "absent"
              /\ \/ \E e \in Devices : place'[e] = RootPlace /\ usb'[e] = a
                 \/ \A e \in Devices : place'[e] # RootPlace
    <2>1. T!Entry(0, 1) > 0
        BY Codec
    <2>2. a # 0
        BY <1>3, <1>13, <2>1 DEF TableOK, T!Present, T!PresentIn
    <2>3. /\ rootSeen # "absent"
          /\ \/ \E e \in Devices : place[e] = RootPlace /\ usb[e] = a
             \/ \A e \in Devices : place[e] # RootPlace
             \/ ctx.hub = 0 /\ ctx.address = a
        BY <1>3, <1>13 DEF EntriesOK
    <2> QED BY <1>1, <1>2, <2>2, <2>3
<1> QED BY <1>6, <1>7, <1>8, <1>9, <1>11, <1>12, <1>13

\* The device has its address.
LEMMA AddressedInv ==
    ASSUME Inv, pc = "set_address", NEW d \in Responders(0),
           usb' = [usb EXCEPT ![d] = ctx.address],
           IF ctx.is_hub
           THEN pc' = "new_hub" /\ UNCHANGED <<ctx, known>>
           ELSE Yield("connect", {ctx.address}, "none") /\ Told({ctx.address}),
           UNCHANGED <<place, port, errors, parent, pipes, packet, rootSeen, no_hubs>>
    PROVE  Inv'
<1>1. /\ d \in Devices /\ usb[d] = 0 /\ Here(d) /\ ~Answers(d)
      /\ \A e \in Devices : usb[e] = 0 => e = d
      /\ ctx.hub = 0 => rootSeen # "absent"
      /\ ctx.hub # 0 => ~no_hubs
    BY NewcomerAlone
<1>2. \A e \in Devices : usb'[e] = IF e = d THEN ctx.address ELSE usb[e]
    BY <1>1 DEF Inv, PlantOK, Types
<1>3. /\ ctx.address # 0 /\ ctx.address # Off /\ \A e \in Devices : usb[e] # ctx.address
      /\ ctx.is_hub <=> d \in Hubs /\ ~no_hubs
      /\ ctx.is_hub => ctx.address < MAX_HUBS
      /\ ctx.address \in 0 .. MAX_DEVICES - 1
    BY <1>1, BusAssumption DEF Inv, AddressingOK, PlantOK, Types, Off
<1>4. /\ pc' \in {"new_hub", "idle"} /\ (pc' = "new_hub" => ctx.is_hub /\ ctx' = ctx)
      /\ pc' = "idle" => ~ctx.is_hub /\ ctx'.port = 0
      /\ known \subseteq known' /\ known' \subseteq known \cup {ctx.address}
      /\ pc' = "idle" => ctx.address \in known'
      /\ Types'
    <2>1. usb' \in [Devices -> 0 .. MAX_DEVICES]
        <3>1. ctx.address \in 0 .. MAX_DEVICES
            BY <1>3, BusAssumption
        <3> QED BY <3>1 DEF Inv, PlantOK, Types
    <2>2. CASE ctx.is_hub
        BY <2>1, <2>2 DEF Inv, PlantOK, Types
    <2>3. CASE ~ctx.is_hub
        <3>1. Yield("connect", {ctx.address}, "none") /\ known' = known \cup {ctx.address}
            BY <2>3 DEF Told
        <3>2. /\ pc' = "idle" /\ ctx'.port = 0
              /\ ctx' \in [hub : 0 .. MAX_HUBS - 1, port : Nat, todo : SUBSET (1 .. NPORTS),
                           bit : {0, 4}, connected : BOOLEAN, is_hub : BOOLEAN,
                           address : 0 .. MAX_DEVICES - 1]
            BY <3>1, YieldCtx DEF Inv, PlantOK
        <3> QED BY <2>1, <2>3, <3>1, <3>2 DEF Inv, PlantOK, Types
    <2> QED BY <2>2, <2>3
<1>5. PlantOK'
    BY <1>4, AddressedPlant
<1>6. WhereOK' /\ ConnectingOK'
    BY <1>4 DEF WhereOK, ConnectingOK
<1>7. AddressingOK'
    BY <1>2, <1>3, <1>4, BusAssumption DEF AddressingOK, HubAddr
<1>8. KnownOK'
    <2>1. ASSUME NEW e \in Devices, Answers(e)'
          PROVE  usb'[e] \in known' \/ (pc' = "new_hub" /\ usb'[e] = ctx'.address)
        <3>1. CASE e = d
            BY <1>2, <1>4, <3>1
        <3>2. CASE e # d
            <4>1. Answers(e) /\ usb'[e] = usb[e]
                BY <1>2, <2>1, <3>2 DEF Answers, Off
            <4> QED BY <1>4, <4>1 DEF Inv, KnownOK
        <3> QED BY <3>1, <3>2
    <2> QED BY <2>1 DEF KnownOK
<1>9. TreeOK'
    <2>1. SUFFICES ASSUME ~no_hubs
                   PROVE  /\ TableOK' /\ HubsFit' /\ EntriesOK' /\ HubsOK' /\ TopologyIsTrue'
                          /\ VacantOK' /\ EntryMade' /\ (known \subseteq T!Present)'
        BY DEF TreeOK
    <2>2. /\ TableOK' /\ HubsFit' /\ TopologyIsTrue' /\ T!Present' = T!Present
          /\ ctx.address \in T!Present /\ EntriesOK'
        BY <2>1, AddressedTable DEF EntriesOK
    <2>3. (known \subseteq T!Present)'
        BY <1>4, <2>1, <2>2 DEF Inv, TreeOK
    <2>4. VacantOK' /\ EntryMade'
        BY <1>4 DEF VacantOK, EntryMade
    <2>5. HubsOK'
        <3>1. ASSUME NEW g \in Hubs, NEW p \in 1 .. NPORTS, Answers(g)'
              PROVE  IF usb'[g] = ctx'.address /\ pc' = "new_hub"
                     THEN Dark(<<g, p>>)' ELSE port'[<<g, p>>].power
            <4>1. g \in Devices /\ <<g, p>> \in HubPorts /\ <<g, p>>[1] = g
                BY PlaceFacts, BusAssumption
            <4>2. CASE g = d
                <5>1. Dark(<<g, p>>)
                    BY <1>1, <4>1, <4>2 DEF Inv, PlantOK, PortsOK
                <5>2. ctx.is_hub /\ pc' = "new_hub" /\ ctx' = ctx /\ usb'[g] = ctx.address
                    BY <1>2, <1>3, <1>4, <2>1, <4>1, <4>2
                <5> QED BY <5>1, <5>2 DEF Dark
            <4>3. CASE g # d
                <5>1. usb'[g] = usb[g] /\ Answers(g) /\ usb[g] # ctx.address
                    BY <1>2, <1>3, <3>1, <4>1, <4>3 DEF Answers, Off
                <5>2. port[<<g, p>>].power
                    BY <2>1, <5>1 DEF Inv, TreeOK, HubsOK
                <5> QED BY <1>4, <5>1, <5>2
            <4> QED BY <4>2, <4>3
        <3> QED BY <1>4, <3>1 DEF HubsOK
    <2> QED BY <2>2, <2>3, <2>4, <2>5
<1>10. AloneOK'
    <2>1. SUFFICES ASSUME no_hubs PROVE AloneOK'
        BY DEF AloneOK
    <2>2. pc' = "idle" /\ rootSeen # "absent"
        BY <1>1, <1>3, <1>4, <2>1
    <2>3. ctx.address = 1 /\ known \subseteq {1} /\ pipes = <<>>
          /\ \A e \in Devices : usb[e] \in {0, 1, Off}
        BY <2>1 DEF Inv, AloneOK
    <2>4. \A e \in Devices : usb'[e] \in {0, 1, Off}
        BY <1>2, <2>3
    <2> QED BY <1>4, <2>2, <2>3, <2>4 DEF AloneOK, Off
<1> QED BY <1>5, <1>6, <1>7, <1>8, <1>9, <1>10 DEF Inv

\* SET_ADDRESS.
LEMMA SetAddressInv ==
    ASSUME Inv, Calm, SetAddress
    PROVE  Inv'
<1>1. pc = "set_address" /\ errors = 0 /\ MaxErrors = 0
    BY DEF SetAddress, Inv, PlantOK, Types, Calm
<1>2. CASE TransferError(Responders(0))
    BY <1>1, <1>2, DeviceLost
<1>3. CASE /\ Responders(0) # {}
           /\ usb' = SetAddressUsb(ctx.address)
           /\ IF ctx.is_hub
              THEN pc' = "new_hub" /\ UNCHANGED <<ctx, event, known>>
              ELSE Yield("connect", {ctx.address}, "none") /\ Told({ctx.address})
           /\ UNCHANGED <<place, port, moves, errors, topology, pipes, packet, rootSeen, no_hubs>>
    <2>1. PICK d \in Responders(0) : TRUE
        BY <1>3
    <2>2. \A e \in Devices : usb[e] = 0 <=> e = d
        BY <1>1, NewcomerAlone
    <2>3. usb' = [usb EXCEPT ![d] = ctx.address]
        BY <1>3, <2>2 DEF SetAddressUsb, Inv, PlantOK, Types
    <2>4. parent' = parent
        BY <1>3 DEF topology
    <2> QED BY <1>1, <1>3, <2>3, <2>4, AddressedInv
<1> QED BY <1>1, <1>2, <1>3 DEF SetAddress

-----------------------------------------------------------------------------
(* A new hub.                                                              *)

\* A new hub is given a pipe; there is one for it.
LEMMA NewHubInv ==
    ASSUME Inv, Calm, NewHub, NoneRefused'
    PROVE  Inv'
<1>1. pc = "new_hub"
    BY DEF NewHub
<1>2. CASE TransferError(HubsAt(ctx.address))
    BY <1>1, <1>2, NewHubLost
<1>3. CASE /\ HubsAt(ctx.address) # {}
           /\ IF FreeSlot
              THEN /\ pipes' = Append(pipes, ctx.address)
                   /\ packet' = Append(packet, {})
                   /\ pc' = "power"
                   /\ ctx' = [ctx EXCEPT !.todo = PowerPorts]
                   /\ UNCHANGED event
              ELSE /\ Yield("error", {}, "TooManyDevices")
                   /\ UNCHANGED <<pipes, packet>>
           /\ UNCHANGED <<plant, errors, topology, rootSeen, no_hubs, known>>
    <2>1. FreeSlot
        <3>1. CASE ~FreeSlot
            <4>1. Yield("error", {}, "TooManyDevices")
                BY <1>3, <3>1
            <4> QED BY <4>1 DEF Yield, NoneRefused
        <3> QED BY <3>1
    <2>2. /\ pipes' = Append(pipes, ctx.address) /\ packet' = Append(packet, {})
          /\ pc' = "power" /\ ctx' = [ctx EXCEPT !.todo = PowerPorts]
          /\ UNCHANGED <<place, usb, port, errors, parent, rootSeen, no_hubs, known>>
        BY <1>3, <2>1 DEF plant, topology
    <2>3. /\ ctx.address \in HubAddr /\ \A d \in Devices : usb[d] = ctx.address => d \in Hubs
          /\ ~no_hubs
        BY <1>1 DEF Inv, AddressingOK, AloneOK
    <2>4. /\ Types' /\ ctx'.hub = ctx.hub /\ ctx'.port = ctx.port /\ ctx'.address = ctx.address
          /\ ctx'.todo = 1 .. NPORTS
        <3>1. PowerPorts \in SUBSET (1 .. NPORTS) /\ {} \in SUBSET (1 .. NPORTS)
            BY DEF PowerPorts
        <3>2. /\ pipes' \in Seq(HubAddr) /\ packet' \in Seq(SUBSET (1 .. NPORTS))
              /\ Len(pipes') = Len(packet')
            BY <2>2, <2>3, <3>1 DEF Inv, PlantOK, Types
        <3> QED BY <2>2, <3>1, <3>2 DEF Inv, PlantOK, Types, PowerPorts
    <2>5. \A d : Answers(d)' <=> Answers(d)
        BY <2>2 DEF Answers, Off
    <2>6. PlugsOK'
        BY <2>2, <2>5, Zenon DEF Inv, PlantOK, PlugsOK, Off
    <2>7. PortsOK'
        BY <1>1, <2>2, <2>5 DEF Inv, PlantOK, PortsOK, Dark
    <2>8. RootOK' /\ AtAddressZero' /\ ServedOK'
        BY <1>1, <2>2, <2>4, <2>5 DEF Inv, PlantOK, RootOK, RootStatus, On, AtAddressZero, ServedOK,
           Off
    <2>9. WhereOK' /\ ConnectingOK'
        BY <2>2 DEF WhereOK, ConnectingOK
    <2>10. AddressingOK' /\ KnownOK'
        BY <1>1, <2>2, <2>3, <2>4, <2>5 DEF Inv, AddressingOK, KnownOK
    <2>11. TreeOK'
        <3>1. /\ TableOK' /\ HubsFit' /\ TopologyIsTrue' /\ T!Present' = T!Present
              /\ known \subseteq T!Present'
            BY <2>2, <2>3, TableSame
        <3>2. EntriesOK /\ HubsOK
            BY <2>3 DEF Inv, TreeOK
        <3>3. ASSUME NEW g \in Hubs, NEW p \in 1 .. NPORTS, Answers(g),
                     NEW a \in T!Addr, parent[a] = T!Entry(usb[g], p)
              PROVE  \/ \E d \in Devices : place[d] = <<g, p>> /\ usb[d] = a
                     \/ port[<<g, p>>].c_connection /\ \A d \in Devices : place[d] # <<g, p>>
            BY <1>1, <3>2, <3>3 DEF EntriesOK
        <3>4. ASSUME NEW a \in T!Addr, parent[a] = T!Entry(0, 1)
              PROVE  /\ rootSeen # "absent"
                     /\ \/ \E d \in Devices : place[d] = RootPlace /\ usb[d] = a
                        \/ \A d \in Devices : place[d] # RootPlace
            BY <1>1, <3>2, <3>4 DEF EntriesOK
        <3>5. EntriesOK'
            BY <2>2, <2>5, <3>3, <3>4 DEF EntriesOK
        <3>6. HubsOK'
            BY <1>1, <2>2, <2>4, <2>5, <3>2 DEF HubsOK, Dark
        <3>7. VacantOK' /\ EntryMade'
            BY <2>2 DEF VacantOK, EntryMade
        <3> QED BY <2>2, <3>1, <3>5, <3>6, <3>7 DEF TreeOK
    <2>12. AloneOK'
        BY <2>2, <2>3 DEF AloneOK
    <2> QED BY <2>4, <2>6, <2>7, <2>8, <2>9, <2>10, <2>11, <2>12 DEF Inv, PlantOK
<1> QED BY <1>2, <1>3 DEF NewHub

\* A port of a new hub is powered.
LEMMA PortPowered ==
    ASSUME Inv, pc = "power", NEW h \in HubsAt(ctx.address), NEW p \in ctx.todo,
           port' = [port EXCEPT ![<<h, p>>].power = TRUE,
                                ![<<h, p>>].c_connection = (On(place, <<h, p>>) # {})],
           IF ctx.todo = {p}
           THEN Yield("hub", {ctx.address}, "none") /\ Told({ctx.address})
           ELSE /\ ctx' = [ctx EXCEPT !.todo = @ \ {p}]
                /\ UNCHANGED <<pc, known>>,
           UNCHANGED <<place, usb, errors, parent, pipes, packet, rootSeen, no_hubs>>
    PROVE  Inv'
<1> DEFINE here == <<h, p>>
<1>1. /\ ctx.address \in HubAddr /\ \A d \in Devices : usb[d] = ctx.address => d \in Hubs
      /\ ~no_hubs /\ p \in 1 .. NPORTS
    BY DEF Inv, AddressingOK, AloneOK, PlantOK, Types
<1>2. /\ h \in Hubs /\ h \in Devices /\ usb[h] = ctx.address /\ Answers(h)
      /\ here \in HubPorts /\ here[1] = h
    <2>1. h \in Hubs /\ h \in Devices /\ usb[h] = ctx.address
        BY DEF HubsAt, Responders
    <2>2. Answers(h)
        BY <1>1, <2>1, BusAssumption DEF Answers, Off, HubAddr
    <2> QED BY <1>1, <2>1, <2>2, PlaceFacts
<1>3. \A g \in Hubs : Answers(g) /\ usb[g] = ctx.address => g = h
    BY <1>2, BusAssumption DEF Inv, PlantOK, PlugsOK, Answers
<1>4. TableOK /\ HubsFit /\ EntriesOK /\ HubsOK /\ TopologyIsTrue /\ known \subseteq T!Present
    BY <1>1 DEF Inv, TreeOK
<1>5. Dark(here)
    BY <1>1, <1>2, <1>4 DEF HubsOK
<1>6. /\ port' \in [HubPorts -> PortStates]
      /\ port'[here].power /\ ~port'[here].enabled /\ ~port'[here].resetting
      /\ port'[here].c_connection <=> \E d \in Devices : place[d] = here
      /\ \A pl \in HubPorts : pl # here => port'[pl] = port[pl]
    <2> DEFINE one == [port EXCEPT ![here].power = TRUE]
               full == On(place, here) # {}
    <2>1. /\ one \in [HubPorts -> PortStates]
          /\ one[here].power
          /\ one[here].enabled = port[here].enabled
          /\ one[here].resetting = port[here].resetting
          /\ \A pl \in HubPorts : pl # here => one[pl] = port[pl]
        BY <1>2 DEF Inv, PlantOK, Types, PortStates
    <2>2. port' = [one EXCEPT ![here].c_connection = full]
        OBVIOUS
    <2>3. full \in BOOLEAN /\ (full <=> \E d \in Devices : place[d] = here)
        <3>1. full \in BOOLEAN
            OBVIOUS
        <3>2. full <=> \E d \in Devices : place[d] = here
            BY Zenon DEF On
        <3> QED BY <3>1, <3>2
    <2> HIDE DEF one, full, here
    <2>4. /\ port' \in [HubPorts -> PortStates]
          /\ port'[here].power = one[here].power
          /\ port'[here].enabled = one[here].enabled
          /\ port'[here].resetting = one[here].resetting
          /\ port'[here].c_connection = full
          /\ \A pl \in HubPorts : pl # here => port'[pl] = one[pl]
        BY ONLY <1>2, <2>1, <2>2, <2>3 DEF PortStates
    <2> QED BY <1>5, <2>1, <2>3, <2>4 DEF Dark
<1>7. /\ pc' \in {"power", "idle"}
      /\ pc' = "power" => /\ ctx'.address = ctx.address /\ ctx'.todo = ctx.todo \ {p}
                          /\ known' = known
      /\ pc' = "idle" => ctx.todo = {p} /\ ctx'.port = 0 /\ known' = known \cup {ctx.address}
      /\ Types'
    <2>1. CASE ctx.todo = {p}
        <3>1. Yield("hub", {ctx.address}, "none") /\ known' = known \cup {ctx.address}
            BY <2>1 DEF Told
        <3>2. /\ pc' = "idle" /\ ctx'.port = 0
              /\ ctx' \in [hub : 0 .. MAX_HUBS - 1, port : Nat, todo : SUBSET (1 .. NPORTS),
                           bit : {0, 4}, connected : BOOLEAN, is_hub : BOOLEAN,
                           address : 0 .. MAX_DEVICES - 1]
            BY <3>1, YieldCtx DEF Inv, PlantOK
        <3> QED BY <1>6, <2>1, <3>1, <3>2 DEF Inv, PlantOK, Types
    <2>2. CASE ctx.todo # {p}
        <3>1. ctx' = [ctx EXCEPT !.todo = @ \ {p}] /\ pc' = pc /\ known' = known
            BY <2>2
        <3>2. ctx.todo \ {p} \in SUBSET (1 .. NPORTS)
            BY DEF Inv, PlantOK, Types
        <3> QED BY <1>6, <3>1, <3>2 DEF Inv, PlantOK, Types
    <2> QED BY <2>1, <2>2
<1>8. \A d : Answers(d)' <=> Answers(d)
    BY DEF Answers, Off
<1>9. \A d \in Devices : usb[d] # 0
    BY DEF Inv, PlantOK, AtAddressZero
<1> HIDE DEF here
<1>10. PlugsOK'
    <2>1. \A pl \in HubPorts : port[pl].enabled => port'[pl].enabled
        BY <1>5, <1>6 DEF Dark
    <2> QED BY <1>8, <2>1, Zenon DEF Inv, PlantOK, PlugsOK, Off
<1>11. PortsOK'
    <2>1. ASSUME NEW pl \in HubPorts
          PROVE  /\ port'[pl].enabled => /\ port'[pl].power /\ ~port'[pl].c_connection
                                         /\ ~port'[pl].resetting
                                         /\ \E d \in Devices : place[d] = pl
                 /\ ~Answers(pl[1]) \/ no_hubs => Dark(pl)'
                 /\ port'[pl].c_connection => port'[pl].power
                 /\ ~port'[pl].resetting
        <3>1. CASE pl = here
            BY <1>1, <1>2, <1>6, <3>1
        <3>2. CASE pl # here
            BY <1>6, <3>2 DEF Inv, PlantOK, PortsOK, Dark
        <3> QED BY <3>1, <3>2
    <2> QED BY <1>8, <2>1 DEF PortsOK
<1>12. RootOK' /\ AtAddressZero'
    BY <1>7, <1>8, <1>9 DEF Inv, PlantOK, RootOK, RootStatus, On, AtAddressZero, Off
<1>13. ServedOK'
    <2>1. ASSUME NEW d \in Devices, place[d] \in HubPorts, port'[place[d]].power
          PROVE  Answers(d) \/ port'[place[d]].c_connection
        <3>1. CASE place[d] = here
            BY <1>6, <3>1
        <3>2. CASE place[d] # here
            BY <1>6, <2>1, <3>2 DEF Inv, PlantOK, ServedOK
        <3> QED BY <3>1, <3>2
    <2> QED BY <1>8, <2>1 DEF ServedOK
<1>14. WhereOK' /\ ConnectingOK' /\ AddressingOK'
    BY <1>1, <1>7 DEF WhereOK, ConnectingOK, AddressingOK
<1>15. KnownOK'
    BY <1>7, <1>8 DEF Inv, KnownOK
<1>16. TreeOK'
    <2>1. /\ TableOK' /\ HubsFit' /\ TopologyIsTrue' /\ T!Present' = T!Present
        BY <1>1, TableSame
    <2>2. known' \subseteq T!Present'
        <3>1. ctx.address \in T!Present
            BY <1>1, <1>2, AnswersPresent
        <3> QED BY <1>4, <1>7, <2>1, <3>1
    <2>3. ASSUME NEW g \in Hubs, NEW q \in 1 .. NPORTS, Answers(g),
                 NEW a \in T!Addr, parent[a] = T!Entry(usb[g], q)
          PROVE  \/ \E d \in Devices : place[d] = <<g, q>> /\ usb[d] = a
                 \/ port'[<<g, q>>].c_connection /\ \A d \in Devices : place[d] # <<g, q>>
        <3>1. \/ \E d \in Devices : place[d] = <<g, q>> /\ usb[d] = a
              \/ port[<<g, q>>].c_connection /\ \A d \in Devices : place[d] # <<g, q>>
            BY <1>4, <2>3 DEF EntriesOK
        <3>2. <<g, q>> \in HubPorts
            BY PlaceFacts
        <3>3. port[<<g, q>>].c_connection => <<g, q>> # here
            BY <1>5 DEF Dark
        <3> QED BY <1>6, <3>1, <3>2, <3>3
    <2>4. ASSUME NEW a \in T!Addr, parent[a] = T!Entry(0, 1)
          PROVE  /\ rootSeen # "absent"
                 /\ \/ \E d \in Devices : place[d] = RootPlace /\ usb[d] = a
                    \/ \A d \in Devices : place[d] # RootPlace
        BY <1>4, <2>4 DEF EntriesOK
    <2>5. EntriesOK'
        BY <1>8, <2>3, <2>4 DEF EntriesOK
    <2>6. HubsOK'
        <3>1. ASSUME NEW g \in Hubs, NEW q \in 1 .. NPORTS, Answers(g)
              PROVE  IF usb'[g] = ctx'.address /\ pc' = "power" /\ q \in ctx'.todo
                     THEN Dark(<<g, q>>)' ELSE port'[<<g, q>>].power
            <4>1. <<g, q>> \in HubPorts
                BY PlaceFacts
            <4>2. CASE <<g, q>> = here
                BY <1>6, <1>7, <4>2 DEF here
            <4>3. CASE <<g, q>> # here
                <5>1. port'[<<g, q>>] = port[<<g, q>>]
                    BY <1>6, <4>1, <4>3
                <5>2. IF usb[g] = ctx.address /\ q \in ctx.todo
                      THEN Dark(<<g, q>>) ELSE port[<<g, q>>].power
                    BY <1>4, <3>1 DEF HubsOK
                <5>3. CASE usb[g] = ctx.address
                    <6>1. q # p
                        BY <1>3, <3>1, <4>3, <5>3 DEF here
                    <6> QED BY <1>7, <5>1, <5>2, <5>3, <6>1 DEF Dark
                <5>4. CASE usb[g] # ctx.address
                    BY <1>7, <5>1, <5>2, <5>4
                <5> QED BY <5>3, <5>4
            <4> QED BY <4>2, <4>3
        <3> QED BY <1>7, <1>8, <3>1 DEF HubsOK
    <2>7. VacantOK' /\ EntryMade'
        BY <1>7 DEF VacantOK, EntryMade
    <2> QED BY <2>1, <2>2, <2>5, <2>6, <2>7 DEF TreeOK
<1>17. AloneOK'
    BY <1>1 DEF AloneOK
<1> QED BY <1>7, <1>10, <1>11, <1>12, <1>13, <1>14, <1>15, <1>16, <1>17 DEF Inv, PlantOK

\* PORT_POWER.
LEMMA PowerPortInv ==
    ASSUME Inv, Calm, PowerPort
    PROVE  Inv'
<1>1. pc = "power"
    BY DEF PowerPort
<1>2. CASE TransferError(HubsAt(ctx.address))
    BY <1>1, <1>2, NewHubLost
<1>3. ASSUME NEW h \in HubsAt(ctx.address), NEW p \in ctx.todo,
             port' = [port EXCEPT ![<<h, p>>].power = TRUE,
                                  ![<<h, p>>].c_connection = (On(place, <<h, p>>) # {})],
             IF ctx.todo = {p}
             THEN Yield("hub", {ctx.address}, "none") /\ Told({ctx.address})
             ELSE /\ ctx' = [ctx EXCEPT !.todo = @ \ {p}]
                  /\ UNCHANGED <<pc, event, known>>,
             UNCHANGED <<place, usb, moves, errors, topology, pipes, packet, rootSeen, no_hubs>>
      PROVE  Inv'
    <2>1. parent' = parent
        BY <1>3 DEF topology
    <2> QED BY <1>1, <1>3, <2>1, PortPowered
<1> QED BY <1>2, <1>3 DEF PowerPort

-----------------------------------------------------------------------------
(* People.                                                                 *)

\* What the table says is not affected by a device that has no address.
LEMMA PluggedTable ==
    ASSUME Inv, ~no_hubs, NEW d \in Devices, NEW pl, usb[d] = Off,
           place' = [place EXCEPT ![d] = pl], UNCHANGED <<usb, parent, no_hubs>>
    PROVE  /\ TableOK' /\ HubsFit' /\ TopologyIsTrue' /\ T!Present' = T!Present
           /\ known \subseteq T!Present'
<1>1. TableOK /\ HubsFit /\ TopologyIsTrue /\ known \subseteq T!Present /\ Types
    BY DEF Inv, TreeOK, PlantOK
<1>2. TableOK'
    BY <1>1 DEF TableOK, T!Present, T!PresentIn, T!NoOrphans, T!RootedAtRoot
<1>3. HubsFit'
    BY <1>1 DEF HubsFit, Off
<1>4. T!Present' = T!Present
    BY DEF T!Present, T!PresentIn
<1>5. TopologyIsTrue'
    <2>1. \A e \in Devices : e # d => place'[e] = place[e]
        BY <1>1 DEF Types
    <2> QED BY <1>1, <2>1 DEF TopologyIsTrue, Off
<1> QED BY <1>1, <1>2, <1>3, <1>4, <1>5

\* Something is plugged into the root port.
LEMMA RootPlugged ==
    ASSUME Inv, Calm, NEW d \in Devices, Plug(d, RootPlace)
    PROVE  Inv'
<1>1. /\ place[d] = Nowhere /\ rootSeen = "absent"
      /\ \A e \in Devices : place[e] # RootPlace
      /\ place' = [place EXCEPT ![d] = RootPlace]
      /\ UNCHANGED <<usb, port, errors, parent, pipes, packet, rootSeen, no_hubs, pc, ctx, known>>
    BY PlaceFacts DEF Plug, Calm, Settled, On, topology
<1>2. usb[d] = Off
    BY <1>1, PlaceFacts DEF Inv, PlantOK, PlugsOK
<1>3. /\ \A e \in Devices : place'[e] = IF e = d THEN RootPlace ELSE place[e]
      /\ Types'
    BY <1>1 DEF Inv, PlantOK, Types, Places
<1>4. \A e : Answers(e)' <=> Answers(e)
    BY <1>1 DEF Answers, Off
<1>5. \A pl : Mine(pl)' <=> Mine(pl)
    BY <1>1, <1>4, Zenon DEF Mine
<1>6. ~(ctx.hub = 0 /\ pc \in {"root_reset", "new_device", "set_address"}) /\ pc # "root_reset"
    BY <1>1 DEF Inv, PlantOK, RootOK, WhereOK
<1>7. \A e \in Devices : ctx.hub # 0 => (Here(e)' <=> Here(e))
    BY <1>1, <1>3, <1>5, PlaceFacts DEF Here
<1>8. PlugsOK'
    <2>1. \A e, f \in Devices : place'[e] = place'[f] /\ place'[e] # Nowhere => e = f
        BY <1>1, <1>3 DEF Inv, PlantOK, PlugsOK
    <2>2. ASSUME NEW e \in Devices, usb'[e] # Off, place'[e] # RootPlace
          PROVE  place'[e] \in HubPorts /\ Answers(place[e][1])' /\ port'[place'[e]].enabled
        <3>1. place'[e] = place[e]
            BY <1>3, <2>2
        <3>2. place[e] \in HubPorts /\ Answers(place[e][1]) /\ port[place[e]].enabled
            BY <1>1, <2>2, <3>1 DEF Inv, PlantOK, PlugsOK
        <3> QED BY <1>1, <3>1, <3>2 DEF Answers, Off
    <2>3. \A e, f \in Devices : usb'[e] = usb'[f] /\ usb'[e] # Off => e = f
        BY <1>1 DEF Inv, PlantOK, PlugsOK
    <2> QED BY <2>1, <2>2, <2>3 DEF PlugsOK, Off
<1>9. PortsOK'
    <2>1. \A pl \in HubPorts, e \in Devices : place[e] = pl => place'[e] = pl
        BY <1>1, <1>3, PlaceFacts
    <2> QED BY <1>1, <1>4, <1>5, <2>1 DEF Inv, PlantOK, PortsOK, Dark
<1>10. RootOK'
    BY <1>1, <1>2, <1>3, <1>6 DEF RootOK, Off
<1>11. AtAddressZero'
    BY <1>1, <1>6, <1>7, BusAssumption DEF Inv, PlantOK, AtAddressZero, WhereOK, HubAddr
<1>12. ServedOK'
    BY <1>1, <1>3, <1>4, <1>5, PlaceFacts DEF Inv, PlantOK, ServedOK
<1>13. WhereOK' /\ KnownOK'
    BY <1>1, <1>4 DEF Inv, WhereOK, KnownOK
<1>14. ConnectingOK'
    <2>1. \A pl \in HubPorts, e \in Devices : place'[e] = pl => place[e] = pl
        BY <1>1, <1>3, PlaceFacts
    <2> QED BY <1>1, <1>5, <1>6, <1>7, <2>1 DEF Inv, ConnectingOK
<1>15. AddressingOK'
    BY <1>1, <1>6, <1>7 DEF Inv, AddressingOK
<1>16. TreeOK'
    <2>1. SUFFICES ASSUME ~no_hubs
                   PROVE  /\ TableOK' /\ HubsFit' /\ EntriesOK' /\ HubsOK' /\ TopologyIsTrue'
                          /\ VacantOK' /\ EntryMade' /\ (known \subseteq T!Present)'
        BY <1>1 DEF TreeOK
    <2>2. /\ TableOK' /\ HubsFit' /\ TopologyIsTrue' /\ T!Present' = T!Present
          /\ (known \subseteq T!Present)'
        BY <1>1, <1>2, <2>1, PluggedTable
    <2>3. EntriesOK /\ HubsOK /\ VacantOK /\ EntryMade
        BY <2>1 DEF Inv, TreeOK
    <2>4. ASSUME NEW g \in Hubs, NEW p \in 1 .. NPORTS, Answers(g),
                 NEW a \in T!Addr, parent[a] = T!Entry(usb[g], p)
          PROVE  \/ \E e \in Devices : place'[e] = <<g, p>> /\ usb[e] = a
                 \/ port[<<g, p>>].c_connection /\ \A e \in Devices : place'[e] # <<g, p>>
                 \/ pc = "set_address" /\ Mine(<<g, p>>) /\ ctx.address = a
        <3>1. \/ \E e \in Devices : place[e] = <<g, p>> /\ usb[e] = a
              \/ port[<<g, p>>].c_connection /\ \A e \in Devices : place[e] # <<g, p>>
              \/ pc = "set_address" /\ Mine(<<g, p>>) /\ ctx.address = a
            BY <2>3, <2>4 DEF EntriesOK
        <3>2. <<g, p>> # Nowhere /\ <<g, p>> # RootPlace
            BY PlaceFacts
        <3>3. \A e \in Devices : place'[e] = <<g, p>> <=> place[e] = <<g, p>>
            BY <1>1, <1>3, <3>2
        <3> QED BY <3>1, <3>3
    <2>5. \A a \in T!Addr : parent[a] # T!Entry(0, 1)
        BY <1>1, <2>3 DEF EntriesOK
    <2>6. EntriesOK'
        BY <1>1, <1>4, <1>5, <2>4, <2>5 DEF EntriesOK
    <2>7. HubsOK' /\ VacantOK' /\ EntryMade'
        BY <1>1, <1>4, <2>2, <2>3 DEF HubsOK, Dark, VacantOK, Vacant, EntryMade
    <2> QED BY <2>2, <2>6, <2>7
<1>17. AloneOK'
    BY <1>1 DEF Inv, AloneOK, Off
<1> QED BY <1>3, <1>8, <1>9, <1>10, <1>11, <1>12, <1>13, <1>14, <1>15, <1>16, <1>17
       DEF Inv, PlantOK

\* Something is plugged into a hub.
LEMMA HubPlugged ==
    ASSUME Inv, Calm, NEW d \in Devices, NEW here \in HubPorts, Plug(d, here)
    PROVE  Inv'
<1>1. /\ place[d] = Nowhere /\ (\A e \in Devices : place[e] # here)
      /\ place' = [place EXCEPT ![d] = here]
      /\ UNCHANGED <<usb, errors, parent, pipes, packet, rootSeen, no_hubs, pc, ctx, known>>
    BY DEF Plug, On, topology
<1>2. ~port[here].c_connection /\ ~Mine(here)
    <2>1. /\ ~port[here].c_connection
          /\ ~(pc # "idle" /\ ctx.hub = usb[here[1]] /\ ctx.port = here[2])
        BY PlaceFacts DEF Plug, Calm, Settled
    <2>2. here[2] # 0
        BY PlaceFacts, BusAssumption
    <2> QED BY <2>1, <2>2 DEF Mine, Inv, WhereOK
<1>3. usb[d] = Off
    BY <1>1, PlaceFacts DEF Inv, PlantOK, PlugsOK
<1>4. ~port[here].enabled
    BY <1>1 DEF Inv, PlantOK, PortsOK
<1>5. /\ port' \in [HubPorts -> PortStates]
      /\ port'[here].c_connection <=> port[here].power
      /\ \A pl \in HubPorts : /\ pl # here => port'[pl] = port[pl]
                              /\ port'[pl].power = port[pl].power
                              /\ port'[pl].enabled = port[pl].enabled
                              /\ port'[pl].resetting = port[pl].resetting
    <2>1. CASE port[here].power
        <3>1. port' = [port EXCEPT ![here].c_connection = TRUE]
            BY <2>1 DEF Plug
        <3> QED BY <2>1, <3>1 DEF Inv, PlantOK, Types, PortStates
    <2>2. CASE ~port[here].power
        <3>1. port' = port
            BY <2>2 DEF Plug
        <3> QED BY <1>2, <2>2, <3>1 DEF Inv, PlantOK, Types
    <2> QED BY <2>1, <2>2
<1>6. /\ \A e \in Devices : place'[e] = IF e = d THEN here ELSE place[e]
      /\ Types'
    BY <1>1, <1>5 DEF Inv, PlantOK, Types, Places
<1>7. \A e : Answers(e)' <=> Answers(e)
    BY <1>1 DEF Answers, Off
<1>8. \A pl : Mine(pl)' <=> Mine(pl)
    BY <1>1, <1>7, Zenon DEF Mine
<1>9. \A e \in Devices : Here(e)' <=> Here(e)
    BY <1>1, <1>2, <1>6, <1>8, PlaceFacts DEF Here
<1>10. PlugsOK'
    <2>1. \A e, f \in Devices : place'[e] = place'[f] /\ place'[e] # Nowhere => e = f
        BY <1>1, <1>6 DEF Inv, PlantOK, PlugsOK
    <2>2. ASSUME NEW e \in Devices, usb'[e] # Off, place'[e] # RootPlace
          PROVE  place'[e] \in HubPorts /\ Answers(place[e][1])' /\ port'[place'[e]].enabled
        <3>1. place'[e] = place[e]
            BY <1>1, <1>3, <1>6, <2>2 DEF Off
        <3>2. place[e] \in HubPorts /\ Answers(place[e][1]) /\ port[place[e]].enabled
            BY <1>1, <2>2, <3>1 DEF Inv, PlantOK, PlugsOK
        <3> QED BY <1>1, <1>5, <3>1, <3>2 DEF Answers, Off
    <2>3. \A e, f \in Devices : usb'[e] = usb'[f] /\ usb'[e] # Off => e = f
        BY <1>1 DEF Inv, PlantOK, PlugsOK
    <2> QED BY <2>1, <2>2, <2>3 DEF PlugsOK, Off
<1>11. PortsOK'
    <2>1. ASSUME NEW pl \in HubPorts
          PROVE  /\ port'[pl].enabled => /\ port'[pl].power /\ ~port'[pl].c_connection
                                         /\ ~port'[pl].resetting
                                         /\ \E e \in Devices : place'[e] = pl
                 /\ ~Answers(pl[1]) \/ no_hubs => Dark(pl)'
                 /\ port'[pl].c_connection => port'[pl].power
                 /\ port'[pl].resetting => pc = "wait" /\ Mine(pl)
        <3>1. CASE pl = here
            BY <1>4, <1>5, <3>1 DEF Inv, PlantOK, PortsOK, Dark
        <3>2. CASE pl # here
            <4>1. \A e \in Devices : place[e] = pl => place'[e] = pl
                BY <1>1, <1>6, PlaceFacts
            <4> QED BY <1>5, <3>2, <4>1 DEF Inv, PlantOK, PortsOK, Dark
        <3> QED BY <3>1, <3>2
    <2> QED BY <1>1, <1>7, <1>8, <2>1 DEF PortsOK
<1>12. RootOK'
    <2>1. \A e \in Devices : place'[e] = RootPlace <=> place[e] = RootPlace
        BY <1>1, <1>6, PlaceFacts
    <2>2. On(place', RootPlace) = On(place, RootPlace)
        BY <2>1 DEF On
    <2>3. RootStatus' = RootStatus
        BY <2>2 DEF RootStatus
    <2> QED BY <1>1, <1>7, <2>1, <2>3 DEF Inv, PlantOK, RootOK, Off
<1>13. AtAddressZero'
    BY <1>1, <1>9 DEF Inv, PlantOK, AtAddressZero
<1>14. ServedOK'
    <2>1. ASSUME NEW e \in Devices, place'[e] \in HubPorts, port'[place'[e]].power
          PROVE  \/ Answers(e) \/ port'[place'[e]].c_connection
                 \/ Mine(place'[e]) /\ pc \in {"reset", "wait", "new_device", "set_address"}
        <3>1. CASE e = d
            BY <1>5, <1>6, <2>1, <3>1
        <3>2. CASE e # d
            <4>1. place'[e] = place[e] /\ place[e] # here
                BY <1>1, <1>6, <3>2
            <4> QED BY <1>5, <2>1, <4>1 DEF Inv, PlantOK, ServedOK
        <3> QED BY <3>1, <3>2
    <2> QED BY <1>1, <1>7, <1>8, <2>1 DEF ServedOK
<1>15. WhereOK' /\ KnownOK' /\ AddressingOK'
    BY <1>1, <1>7, <1>9 DEF Inv, WhereOK, KnownOK, AddressingOK
<1>16. ConnectingOK'
    <2>1. \A pl \in HubPorts : Mine(pl) => port'[pl] = port[pl] /\ pl # here
        BY <1>2, <1>5
    <2>2. \A pl \in HubPorts, e \in Devices : pl # here => (place'[e] = pl <=> place[e] = pl)
        BY <1>1, <1>6, PlaceFacts
    <2> QED BY <1>1, <1>8, <1>9, <2>1, <2>2 DEF Inv, ConnectingOK
<1>17. TreeOK'
    <2>1. SUFFICES ASSUME ~no_hubs
                   PROVE  /\ TableOK' /\ HubsFit' /\ EntriesOK' /\ HubsOK' /\ TopologyIsTrue'
                          /\ VacantOK' /\ EntryMade' /\ (known \subseteq T!Present)'
        BY <1>1 DEF TreeOK
    <2>2. /\ TableOK' /\ HubsFit' /\ TopologyIsTrue' /\ T!Present' = T!Present
          /\ (known \subseteq T!Present)'
        BY <1>1, <1>3, <2>1, PluggedTable
    <2>3. EntriesOK /\ HubsOK /\ VacantOK /\ EntryMade
        BY <2>1 DEF Inv, TreeOK
    <2>4. ASSUME NEW g \in Hubs, NEW p \in 1 .. NPORTS, Answers(g),
                 NEW a \in T!Addr, parent[a] = T!Entry(usb[g], p)
          PROVE  \/ \E e \in Devices : place'[e] = <<g, p>> /\ usb[e] = a
                 \/ port'[<<g, p>>].c_connection /\ \A e \in Devices : place'[e] # <<g, p>>
                 \/ pc = "set_address" /\ Mine(<<g, p>>) /\ ctx.address = a
        <3>1. \/ \E e \in Devices : place[e] = <<g, p>> /\ usb[e] = a
              \/ port[<<g, p>>].c_connection /\ \A e \in Devices : place[e] # <<g, p>>
              \/ pc = "set_address" /\ Mine(<<g, p>>) /\ ctx.address = a
            BY <2>3, <2>4 DEF EntriesOK
        <3>2. <<g, p>> \in HubPorts /\ <<g, p>> # Nowhere
            BY PlaceFacts
        <3>3. <<g, p>> # here
            BY <1>1, <1>2, <3>1
        <3>4. \A e \in Devices : place'[e] = <<g, p>> <=> place[e] = <<g, p>>
            BY <1>1, <1>6, <3>2, <3>3
        <3>5. port'[<<g, p>>] = port[<<g, p>>]
            BY <1>5, <3>2, <3>3
        <3> QED BY <3>1, <3>4, <3>5
    <2>5. ASSUME NEW a \in T!Addr, parent[a] = T!Entry(0, 1)
          PROVE  /\ rootSeen # "absent"
                 /\ \/ \E e \in Devices : place'[e] = RootPlace /\ usb[e] = a
                    \/ \A e \in Devices : place'[e] # RootPlace
                    \/ pc = "set_address" /\ ctx.hub = 0 /\ ctx.address = a
        <3>1. \A e \in Devices : place'[e] = RootPlace <=> place[e] = RootPlace
            BY <1>1, <1>6, PlaceFacts
        <3> QED BY <2>3, <2>5, <3>1 DEF EntriesOK
    <2>6. EntriesOK'
        BY <1>1, <1>7, <1>8, <2>4, <2>5 DEF EntriesOK
    <2>7. HubsOK'
        <3>1. \A pl \in HubPorts : Dark(pl) => Dark(pl)'
            BY <1>5 DEF Dark
        <3> QED BY <1>1, <1>5, <1>7, <2>3, <3>1, PlaceFacts DEF HubsOK
    <2>8. VacantOK' /\ EntryMade'
        BY <1>1, <2>2, <2>3 DEF VacantOK, Vacant, EntryMade
    <2> QED BY <2>2, <2>6, <2>7, <2>8
<1>18. AloneOK'
    BY <1>1 DEF Inv, AloneOK, Off
<1> QED BY <1>6, <1>10, <1>11, <1>12, <1>13, <1>14, <1>15, <1>16, <1>17, <1>18 DEF Inv, PlantOK

\* Below a device: itself, what is plugged into a hub below it, and no more.
LEMMA BelowFacts ==
    ASSUME Inv, NEW d \in Devices
    PROVE  /\ d \in Below(place, d) /\ Below(place, d) \subseteq Devices
           /\ \A e \in Devices : place[e] \in HubPorts /\ place[e][1] \in Below(place, d)
                                    => e \in Below(place, d)
           /\ \A e \in Below(place, d) : e # d =>
                 place[e] \in HubPorts /\ place[e][1] \in Below(place, d)
<1> DEFINE B == Below(place, d)
           Shut(S) == /\ d \in S
                      /\ \A f \in Devices : place[f] \in HubPorts /\ place[f][1] \in S => f \in S
<1>1. \A e \in Devices : e \in B <=> \A S \in SUBSET Devices : Shut(S) => e \in S
    BY DEF Below
<1>2. B \subseteq Devices
    BY DEF Below
<1> HIDE DEF B
<1>3. d \in B
    BY <1>1
<1>4. ASSUME NEW e \in Devices, place[e] \in HubPorts, place[e][1] \in B PROVE e \in B
    <2>1. place[e][1] \in Devices
        BY <1>4, PlaceFacts
    <2>2. ASSUME NEW S \in SUBSET Devices, Shut(S) PROVE e \in S
        <3>1. place[e][1] \in S
            BY <1>1, <1>4, <2>1, <2>2
        <3> QED BY <1>4, <2>2, <3>1
    <2> QED BY <1>1, <2>2
<1>5. ASSUME NEW e \in B, e # d, ~(place[e] \in HubPorts /\ place[e][1] \in B) PROVE FALSE
    <2>1. B \ {e} \in SUBSET Devices /\ Shut(B \ {e})
        BY <1>2, <1>3, <1>4, <1>5
    <2>2. e \in B \ {e}
        BY <1>1, <1>2, <2>1
    <2> QED BY <2>2
<1> QED BY <1>2, <1>3, <1>4, <1>5 DEF B

\* A device in a powered port is not plugged into something below itself.
LEMMA NoRing ==
    ASSUME Inv, NEW d \in Devices, place[d] \in HubPorts, port[place[d]].power
    PROVE  place[d][1] \notin Below(place, d)
<1> DEFINE B == Below(place, d)
<1>1. SUFFICES ASSUME place[d][1] \in B PROVE FALSE
    OBVIOUS
<1>2. Answers(place[d][1]) /\ ~no_hubs
    BY DEF Inv, PlantOK, PortsOK, Dark
<1>3. /\ B \subseteq Devices
      /\ \A e \in B : place[e] \in HubPorts /\ place[e][1] \in B
    BY <1>1, BelowFacts
<1> HIDE DEF B
<1> DEFINE S == {x \in T!Present : \E e \in B : Answers(e) /\ usb[e] = x}
<1>4. usb[place[d][1]] \in S
    BY <1>1, <1>2, <1>3, AnswersPresent
<1>5. PICK x \in S : T!HubOf(parent[x]) \notin S
    BY <1>2, <1>4 DEF Inv, TreeOK, TableOK, T!RootedAtRoot
<1>6. PICK e \in B : Answers(e) /\ usb[e] = x
    BY <1>5
<1>7. e \in Devices /\ place[e] \in HubPorts /\ place[e][1] \in B /\ place[e] # RootPlace
    BY <1>3, <1>6, PlaceFacts
<1>8. Answers(place[e][1]) /\ T!HubOf(parent[x]) = usb[place[e][1]]
    BY <1>2, <1>6, <1>7, AnswersPresent
<1>9. usb[place[e][1]] \in S
    BY <1>2, <1>3, <1>7, <1>8, AnswersPresent
<1> QED BY <1>5, <1>8, <1>9

\* What unplugging does to the plant.
LEMMA Unplugged ==
    ASSUME Inv, NEW d \in Devices, Unplug(d)
    PROVE  /\ UNCHANGED <<errors, parent, pipes, packet, rootSeen, no_hubs, pc, ctx, known>>
           /\ place' \in [Devices -> Places \cup {Nowhere}]
           /\ usb' \in [Devices -> 0 .. MAX_DEVICES]
           /\ port' \in [HubPorts -> PortStates]
           /\ place[d] # Nowhere
           /\ \A e \in Devices : place'[e] = IF e = d THEN Nowhere ELSE place[e]
           /\ \A e \in Devices : usb'[e] = IF e \in Below(place, d) THEN Off ELSE usb[e]
           /\ \A pl \in HubPorts : pl[1] \in Below(place, d) => Dark(pl)'
           /\ \A pl \in HubPorts : pl[1] \notin Below(place, d) =>
                 IF pl = place[d] /\ port[pl].power
                 THEN /\ port'[pl].power /\ port'[pl].c_connection /\ ~port'[pl].enabled
                      /\ port'[pl].resetting = port[pl].resetting
                 ELSE port'[pl] = port[pl]
<1> DEFINE B == Below(place, d)
           dark == Darkened(B)
<1>1. /\ place[d] # Nowhere /\ place' = [place EXCEPT ![d] = Nowhere] /\ usb' = Silenced(B)
      /\ port' = IF place[d] \in HubPorts /\ port[place[d]].power
                 THEN [dark EXCEPT ![place[d]].c_connection = TRUE, ![place[d]].enabled = FALSE]
                 ELSE dark
      /\ UNCHANGED <<errors, parent, pipes, packet, rootSeen, no_hubs, pc, ctx, known>>
    BY DEF Unplug, topology
<1>2. /\ place' \in [Devices -> Places \cup {Nowhere}]
      /\ \A e \in Devices : place'[e] = IF e = d THEN Nowhere ELSE place[e]
    BY <1>1 DEF Inv, PlantOK, Types
<1>3. /\ usb' \in [Devices -> 0 .. MAX_DEVICES]
      /\ \A e \in Devices : usb'[e] = IF e \in B THEN Off ELSE usb[e]
    <2>1. Off \in 0 .. MAX_DEVICES
        BY BusAssumption DEF Off
    <2> HIDE DEF B
    <2> QED BY <1>1, <2>1 DEF Silenced, Inv, PlantOK, Types
<1>4. /\ dark \in [HubPorts -> PortStates]
      /\ \A pl \in HubPorts : dark[pl] = IF pl[1] \in B THEN PortOff ELSE port[pl]
    <2>1. PortOff \in PortStates
        BY DEF PortOff, PortStates
    <2> HIDE DEF B
    <2> QED BY <2>1 DEF Darkened, Inv, PlantOK, Types
<1>5. place[d] \in HubPorts /\ port[place[d]].power => place[d][1] \notin B
    BY NoRing
<1> HIDE DEF B, dark
<1>6. CASE place[d] \in HubPorts /\ port[place[d]].power
    <2> DEFINE one == [dark EXCEPT ![place[d]].c_connection = TRUE]
    <2>1. /\ one \in [HubPorts -> PortStates]
          /\ one[place[d]].c_connection
          /\ one[place[d]].power = dark[place[d]].power
          /\ one[place[d]].resetting = dark[place[d]].resetting
          /\ \A pl \in HubPorts : pl # place[d] => one[pl] = dark[pl]
        BY ONLY <1>4, <1>6 DEF PortStates
    <2>2. port' = [one EXCEPT ![place[d]].enabled = FALSE]
        BY <1>1, <1>6
    <2> HIDE DEF one
    <2>3. /\ port' \in [HubPorts -> PortStates]
          /\ ~port'[place[d]].enabled
          /\ port'[place[d]].c_connection = one[place[d]].c_connection
          /\ port'[place[d]].power = one[place[d]].power
          /\ port'[place[d]].resetting = one[place[d]].resetting
          /\ \A pl \in HubPorts : pl # place[d] => port'[pl] = one[pl]
        BY ONLY <1>6, <2>1, <2>2 DEF PortStates
    <2>4. dark[place[d]] = port[place[d]]
        BY <1>4, <1>5, <1>6
    <2>5. \A pl \in HubPorts : pl[1] \in B => port'[pl] = PortOff
        BY <1>4, <1>5, <1>6, <2>1, <2>3
    <2>6. \A pl \in HubPorts : pl[1] \in B => Dark(pl)'
        BY <2>5 DEF Dark, PortOff
    <2>7. ASSUME NEW pl \in HubPorts, pl[1] \notin B
          PROVE  IF pl = place[d] /\ port[pl].power
                 THEN /\ port'[pl].power /\ port'[pl].c_connection /\ ~port'[pl].enabled
                      /\ port'[pl].resetting = port[pl].resetting
                 ELSE port'[pl] = port[pl]
        BY <1>4, <1>6, <2>1, <2>3, <2>4, <2>7
    <2> QED BY <1>1, <1>2, <1>3, <2>3, <2>6, <2>7 DEF B
<1>7. CASE ~(place[d] \in HubPorts /\ port[place[d]].power)
    <2>1. port' = dark
        BY <1>1, <1>7
    <2>2. \A pl \in HubPorts : pl[1] \in B => Dark(pl)'
        BY <1>4, <2>1 DEF Dark, PortOff
    <2>3. \A pl \in HubPorts : pl[1] \notin B => port'[pl] = port[pl]
        BY <1>4, <2>1
    <2> QED BY <1>1, <1>2, <1>3, <1>4, <1>7, <2>1, <2>2, <2>3 DEF B
<1> QED BY <1>6, <1>7

\* A plug is pulled.
LEMMA UnplugInv ==
    ASSUME Inv, NEW d \in Devices, Unplug(d)
    PROVE  Inv'
<1> DEFINE B == Below(place, d)
<1>1. /\ UNCHANGED <<errors, parent, pipes, packet, rootSeen, no_hubs, pc, ctx, known>>
      /\ place' \in [Devices -> Places \cup {Nowhere}]
      /\ usb' \in [Devices -> 0 .. MAX_DEVICES]
      /\ port' \in [HubPorts -> PortStates]
      /\ place[d] # Nowhere
      /\ \A e \in Devices : place'[e] = IF e = d THEN Nowhere ELSE place[e]
      /\ \A e \in Devices : usb'[e] = IF e \in B THEN Off ELSE usb[e]
    BY Unplugged
<1>2. /\ \A pl \in HubPorts : pl[1] \in B => Dark(pl)'
      /\ \A pl \in HubPorts : pl[1] \notin B =>
            IF pl = place[d] /\ port[pl].power
            THEN /\ port'[pl].power /\ port'[pl].c_connection /\ ~port'[pl].enabled
                 /\ port'[pl].resetting = port[pl].resetting
            ELSE port'[pl] = port[pl]
    BY Unplugged
<1>3. /\ d \in B
      /\ \A e \in Devices : place[e] \in HubPorts /\ place[e][1] \in B => e \in B
      /\ \A e \in Devices : e \in B /\ e # d => place[e] \in HubPorts /\ place[e][1] \in B
    BY BelowFacts
<1> HIDE DEF B
<1>4. /\ \A e \in Devices : Answers(e)' <=> Answers(e) /\ e \notin B
      /\ \A e \in Devices : e \notin B => usb'[e] = usb[e] /\ place'[e] = place[e]
    BY <1>1, <1>3 DEF Answers, Off
<1>5. \A pl \in HubPorts : pl[1] \in Devices
    BY PlaceFacts
<1>6. \A pl \in HubPorts : Mine(pl)' <=> Mine(pl) /\ pl[1] \notin B
    BY <1>1, <1>4, <1>5 DEF Mine
<1>7. \A e \in Devices : place[e] = RootPlace => e = d \/ e \notin B
    BY <1>3, PlaceFacts
<1>8. \A e \in Devices : Here(e)' => Here(e) /\ e \notin B
    <2>1. ASSUME NEW e \in Devices, Here(e)' PROVE Here(e) /\ e \notin B
        <3>1. e # d /\ place'[e] = place[e]
            BY <1>1, <2>1, PlaceFacts DEF Here
        <3>2. CASE ctx.hub = 0
            BY <1>1, <1>7, <2>1, <3>1, <3>2 DEF Here
        <3>3. CASE ctx.hub # 0
            <4>1. place[e] \in HubPorts /\ Mine(place[e])'
                BY <1>1, <2>1, <3>1, <3>3 DEF Here, Mine
            <4>2. Mine(place[e]) /\ place[e][1] \notin B
                BY <1>1, <1>6, <3>1, <4>1 DEF Mine
            <4> QED BY <1>3, <3>1, <3>3, <4>1, <4>2 DEF Here
        <3> QED BY <3>2, <3>3
    <2> QED BY <2>1
<1>9. /\ PlugsOK /\ PortsOK /\ RootOK /\ AtAddressZero /\ ServedOK /\ Types
      /\ ConnectingOK /\ AddressingOK /\ KnownOK /\ WhereOK
    BY DEF Inv, PlantOK
<1>10. \A e \in Devices : place[e] = place[d] => e = d
    BY <1>1, <1>9 DEF PlugsOK
<1>11. Types'
    BY <1>1, <1>9 DEF Types
<1>12. PlugsOK'
    <2>1. \A e, f \in Devices : place'[e] = place'[f] /\ place'[e] # Nowhere => e = f
        BY <1>1, <1>9 DEF PlugsOK
    <2>2. ASSUME NEW e \in Devices, usb'[e] # Off, place'[e] # RootPlace
          PROVE  /\ place'[e] \in HubPorts /\ place'[e][1] \in Devices
                 /\ Answers(place[e][1]) /\ place[e][1] \notin B
                 /\ port'[place'[e]].enabled
        <3>1. e \notin B /\ e # d /\ place'[e] = place[e] /\ usb'[e] = usb[e]
            BY <1>1, <1>3, <2>2
        <3>2. place[e] \in HubPorts /\ Answers(place[e][1]) /\ port[place[e]].enabled
            BY <1>9, <2>2, <3>1 DEF PlugsOK
        <3>3. place[e][1] \notin B /\ place[e] # place[d]
            BY <1>3, <1>10, <3>1, <3>2
        <3> QED BY <1>2, <1>5, <3>1, <3>2, <3>3
    <2>3. ASSUME NEW e \in Devices, usb'[e] # Off, place'[e] # RootPlace
          PROVE  Answers(place[e][1])'
        <3>1. place'[e] = place[e]
            BY <1>1, <1>3, <2>3
        <3>2. place[e][1] \in Devices /\ Answers(place[e][1]) /\ place[e][1] \notin B
            BY <2>2, <2>3, <3>1
        <3>3. usb'[place[e][1]] = usb[place[e][1]]
            BY <1>4, <3>2
        <3> QED BY <3>1, <3>2, <3>3 DEF Answers, Off
    <2>4. \A e, f \in Devices : usb'[e] = usb'[f] /\ usb'[e] # Off => e = f
        BY <1>1, <1>9 DEF PlugsOK
    <2> QED BY <2>1, <2>2, <2>3, <2>4 DEF PlugsOK, Off
<1>13. PortsOK'
    <2>1. ASSUME NEW pl \in HubPorts
          PROVE  /\ port'[pl].enabled => /\ port'[pl].power /\ ~port'[pl].c_connection
                                         /\ ~port'[pl].resetting
                                         /\ \E e \in Devices : place'[e] = pl
                 /\ ~Answers(pl[1])' \/ no_hubs => Dark(pl)'
                 /\ port'[pl].c_connection => port'[pl].power
                 /\ port'[pl].resetting => pc = "wait" /\ Mine(pl)'
        <3>1. CASE pl[1] \in B
            <4>1. Dark(pl)'
                BY <1>2, <3>1
            <4> QED BY <4>1 DEF Dark
        <3>2. CASE pl[1] \notin B /\ pl = place[d] /\ port[pl].power
            <4>1. Answers(pl[1]) /\ ~no_hubs
                BY <1>9, <3>2 DEF PortsOK, Dark
            <4>2. Answers(pl[1])'
                BY <1>4, <1>5, <3>2, <4>1
            <4>3. port[pl].resetting => pc = "wait" /\ Mine(pl)'
                BY <1>6, <1>9, <3>2 DEF PortsOK
            <4> QED BY <1>1, <1>2, <3>2, <4>1, <4>2, <4>3
        <3>3. CASE pl[1] \notin B /\ ~(pl = place[d] /\ port[pl].power)
            <4>1. port'[pl] = port[pl]
                BY <1>2, <3>3
            <4>2. port[pl].enabled => \E e \in Devices : place'[e] = pl
                <5>1. SUFFICES ASSUME port[pl].enabled PROVE \E e \in Devices : place'[e] = pl
                    OBVIOUS
                <5>2. PICK e \in Devices : place[e] = pl /\ port[pl].power
                    BY <1>9, <5>1 DEF PortsOK
                <5> QED BY <1>1, <3>3, <5>2
            <4>3. Answers(pl[1])' <=> Answers(pl[1])
                BY <1>4, <1>5, <3>3
            <4>4. Mine(pl)' <=> Mine(pl)
                BY <1>6, <3>3
            <4> QED BY <1>1, <1>9, <4>1, <4>2, <4>3, <4>4 DEF PortsOK, Dark
        <3> QED BY <3>1, <3>2, <3>3
    <2> QED BY <1>1, <2>1 DEF PortsOK
<1>14. RootOK'
    <2>1. RootStatus' \in {RootStatus, "absent"}
        <3>1. CASE place[d] = RootPlace
            <4>1. On(place', RootPlace) = {}
                BY <1>1, <1>10, <3>1, PlaceFacts DEF On
            <4> QED BY <4>1 DEF RootStatus
        <3>2. CASE place[d] # RootPlace
            <4>1. On(place', RootPlace) = On(place, RootPlace)
                BY <1>1, <3>2, PlaceFacts DEF On
            <4> QED BY <4>1 DEF RootStatus
        <3> QED BY <3>1, <3>2
    <2>2. \A e \in Devices : place'[e] = RootPlace =>
              place[e] = RootPlace /\ usb'[e] = usb[e] /\ (Answers(e)' <=> Answers(e))
        BY <1>1, <1>4, <1>7, PlaceFacts
    <2> QED BY <1>1, <1>9, <2>1, <2>2 DEF RootOK, Off
<1>15. AtAddressZero'
    <2>1. ASSUME NEW e \in Devices, usb'[e] = 0
          PROVE  pc \in {"wait", "new_device", "set_address"} /\ Here(e)'
        <3>1. e \notin B /\ usb[e] = 0 /\ place'[e] = place[e]
            BY <1>1, <1>4, <2>1, BusAssumption DEF Off
        <3>2. pc \in {"wait", "new_device", "set_address"} /\ Here(e)
            BY <1>9, <3>1 DEF AtAddressZero
        <3>3. CASE ctx.hub = 0
            BY <1>1, <3>1, <3>2, <3>3 DEF Here
        <3>4. CASE ctx.hub # 0
            <4>1. place[e] \in HubPorts /\ Mine(place[e])
                BY <3>2, <3>4 DEF Here
            <4>2. place[e][1] \notin B
                BY <1>3, <3>1, <4>1
            <4>3. usb'[place[e][1]] = usb[place[e][1]]
                BY <1>4, <1>5, <4>1, <4>2
            <4> QED BY <1>1, <3>1, <3>2, <3>4, <4>1, <4>3 DEF Here, Mine, Answers, Off
        <3> QED BY <3>2, <3>3, <3>4
    <2> QED BY <1>1, <2>1 DEF AtAddressZero
<1>16. ServedOK'
    <2>1. ASSUME NEW e \in Devices, place'[e] \in HubPorts, port'[place'[e]].power
          PROVE  \/ Answers(e)' \/ port'[place'[e]].c_connection
                 \/ Mine(place[e])' /\ pc \in {"reset", "wait", "new_device", "set_address"}
        <3>1. e # d /\ place'[e] = place[e] /\ place[e] # place[d] /\ place[e] \in HubPorts
            BY <1>1, <1>10, <2>1, PlaceFacts
        <3>2. place[e][1] \notin B
            BY <1>2, <2>1, <3>1 DEF Dark
        <3>3. e \notin B /\ port'[place[e]] = port[place[e]]
            BY <1>2, <1>3, <3>1, <3>2
        <3>4. \/ Answers(e) \/ port[place[e]].c_connection
              \/ Mine(place[e]) /\ pc \in {"reset", "wait", "new_device", "set_address"}
            BY <1>9, <2>1, <3>1, <3>3 DEF ServedOK
        <3>5. usb'[place[e][1]] = usb[place[e][1]]
            BY <1>4, <1>5, <3>1, <3>2
        <3>6. Mine(place[e]) => Mine(place[e])'
            BY <1>1, <3>1, <3>5 DEF Mine, Answers, Off
        <3> QED BY <1>4, <3>1, <3>3, <3>4, <3>6
    <2> QED BY <1>1, <2>1 DEF ServedOK
<1>17. WhereOK' /\ KnownOK'
    BY <1>1, <1>4, <1>9 DEF WhereOK, KnownOK
<1>18. ConnectingOK'
    <2>1. ASSUME NEW pl \in HubPorts, Mine(pl)'
          PROVE  /\ pc = "clear" /\ ctx.bit = 0 =>
                       /\ port'[pl].c_connection
                       /\ ~ctx.connected => \A e \in Devices : place'[e] # pl
                 /\ pc \in {"reset", "wait"} =>
                       \A e \in Devices : place'[e] = pl => ~port'[pl].c_connection
                 /\ pc = "reset" => ~port'[pl].enabled /\ port'[pl].power
                 /\ pc = "wait" =>
                       /\ port'[pl].power
                       /\ \A e \in Devices : place'[e] = pl =>
                             port'[pl].resetting \/ (port'[pl].enabled /\ usb'[e] = 0)
                 /\ pc \in {"new_device", "set_address"} =>
                       port'[pl].enabled \/ port'[pl].c_connection
        <3>1. Mine(pl) /\ pl[1] \notin B
            BY <1>6, <2>1
        <3>2. \A e \in Devices : place'[e] = pl =>
                  e # d /\ place[e] = pl /\ usb'[e] = usb[e] /\ pl # place[d]
            BY <1>1, <1>3, <1>4, <1>10, <3>1, PlaceFacts
        <3>3. CASE pl = place[d] /\ port[pl].power
            <4>1. port'[pl].power /\ port'[pl].c_connection /\ ~port'[pl].enabled
                BY <1>2, <3>1, <3>3
            <4>2. \A e \in Devices : place'[e] # pl
                BY <3>2, <3>3
            <4> QED BY <4>1, <4>2
        <3>4. CASE ~(pl = place[d] /\ port[pl].power)
            <4>1. port'[pl] = port[pl]
                BY <1>2, <3>1, <3>4
            <4> QED BY <1>9, <3>1, <3>2, <4>1 DEF ConnectingOK
        <3> QED BY <3>3, <3>4
    <2>2. ASSUME pc \in {"new_device", "set_address"}, NEW e \in Devices, Here(e)'
          PROVE  usb'[e] = 0
        BY <1>4, <1>8, <1>9, <2>2 DEF ConnectingOK
    <2> QED BY <1>1, <2>1, <2>2 DEF ConnectingOK
<1>19. AddressingOK'
    <2>1. ctx.address # Off
        BY <1>9, BusAssumption DEF Types, Off
    <2>2. \A e \in Devices : usb'[e] = ctx.address => usb[e] = ctx.address
        BY <1>1, <2>1
    <2> QED BY <1>1, <1>8, <1>9, <2>2 DEF AddressingOK
<1>20. TreeOK'
    <2>1. SUFFICES ASSUME ~no_hubs
                   PROVE  /\ TableOK' /\ HubsFit' /\ EntriesOK' /\ HubsOK' /\ TopologyIsTrue'
                          /\ VacantOK' /\ EntryMade' /\ (known \subseteq T!Present)'
        BY <1>1 DEF TreeOK
    <2>2. /\ TableOK /\ HubsFit /\ EntriesOK /\ HubsOK /\ TopologyIsTrue
          /\ VacantOK /\ EntryMade /\ known \subseteq T!Present
        BY <2>1 DEF Inv, TreeOK
    <2>3. T!Present' = T!Present
        BY <1>1 DEF T!Present, T!PresentIn
    <2>4. TableOK'
        <3>1. 0 \notin T!Present' /\ T!NoOrphans' /\ T!RootedAtRoot'
            BY <1>1, <2>2, <2>3 DEF TableOK, T!NoOrphans, T!RootedAtRoot
        <3>2. ASSUME NEW a \in T!Present
              PROVE  \E h \in 0 .. MAX_HUBS - 1, p \in 1 .. MAX_PORTS - 1 :
                        /\ parent'[a] = T!Entry(h, p)
                        /\ h = 0 => p = 1
                        /\ \A e \in Devices : usb'[e] = h /\ h # 0 => e \in Hubs /\ p \in 1 .. NPORTS
            <4>1. \A h \in 0 .. MAX_HUBS - 1, e \in Devices : usb'[e] = h => usb[e] = h
                BY <1>1, BusAssumption DEF Off
            <4> QED BY <1>1, <2>2, <4>1 DEF TableOK
        <3> QED BY <2>3, <3>1, <3>2 DEF TableOK
    <2>5. HubsFit' /\ (known \subseteq T!Present)'
        BY <1>1, <2>2, <2>3, BusAssumption DEF HubsFit, Off
    <2>6. TopologyIsTrue'
        <3>1. ASSUME NEW e \in Devices, usb'[e] \notin {0, Off}
              PROVE  parent'[usb'[e]] = IF place'[e] = RootPlace THEN T!Entry(0, 1)
                                        ELSE T!Entry(usb'[place'[e][1]], place'[e][2])
            <4>1. e \notin B /\ usb'[e] = usb[e] /\ place'[e] = place[e]
                BY <1>1, <1>4, <3>1
            <4>2. CASE place[e] = RootPlace
                BY <1>1, <2>1, <2>2, <3>1, <4>1, <4>2 DEF TopologyIsTrue
            <4>3. CASE place[e] # RootPlace
                <5>1. place[e] \in HubPorts
                    BY <1>9, <3>1, <4>1, <4>3 DEF PlugsOK
                <5>2. usb'[place[e][1]] = usb[place[e][1]]
                    BY <1>3, <1>4, <1>5, <4>1, <5>1
                <5> QED BY <1>1, <2>1, <2>2, <3>1, <4>1, <4>3, <5>2 DEF TopologyIsTrue
            <4> QED BY <4>2, <4>3
        <3> QED BY <3>1 DEF TopologyIsTrue, Off
    <2>7. ASSUME NEW g \in Hubs, NEW p \in 1 .. NPORTS, Answers(g)',
                 NEW a \in T!Addr, parent'[a] = T!Entry(usb'[g], p)
          PROVE  \/ \E e \in Devices : place'[e] = <<g, p>> /\ usb'[e] = a
                 \/ port'[<<g, p>>].c_connection /\ \A e \in Devices : place'[e] # <<g, p>>
                 \/ pc = "set_address" /\ Mine(<<g, p>>)' /\ ctx.address = a
        <3>1. g \in Devices /\ <<g, p>> \in HubPorts /\ <<g, p>>[1] = g /\ <<g, p>> # Nowhere
            BY PlaceFacts, BusAssumption
        <3>2. Answers(g) /\ g \notin B /\ usb'[g] = usb[g] /\ parent[a] = T!Entry(usb[g], p)
            BY <1>1, <1>4, <2>7, <3>1
        <3>3. \/ \E e \in Devices : place[e] = <<g, p>> /\ usb[e] = a
              \/ port[<<g, p>>].c_connection /\ \A e \in Devices : place[e] # <<g, p>>
              \/ pc = "set_address" /\ Mine(<<g, p>>) /\ ctx.address = a
            BY <2>2, <3>2 DEF EntriesOK
        <3>4. \A e \in Devices : e # d => (place'[e] = <<g, p>> <=> place[e] = <<g, p>>)
            BY <1>1
        <3>5. CASE place[d] = <<g, p>> /\ usb[d] = a
            <4>1. usb[d] # Off /\ place[d] # RootPlace
                BY <3>1, <3>5, PlaceFacts, BusAssumption DEF T!Addr, Off
            <4>2. port[<<g, p>>].power
                BY <1>9, <3>1, <3>5, <4>1 DEF PlugsOK, PortsOK
            <4>3. port'[<<g, p>>].c_connection
                BY <1>2, <3>1, <3>2, <3>5, <4>2
            <4>4. \A e \in Devices : place'[e] # <<g, p>>
                BY <1>1, <1>10, <3>1, <3>5
            <4> QED BY <4>3, <4>4
        <3>6. ASSUME NEW e \in Devices, e # d, place[e] = <<g, p>>, usb[e] = a
              PROVE  place'[e] = <<g, p>> /\ usb'[e] = a
            BY <1>1, <1>3, <3>1, <3>2, <3>6
        <3>7. CASE port[<<g, p>>].c_connection /\ \A e \in Devices : place[e] # <<g, p>>
            <4>1. port'[<<g, p>>].c_connection
                BY <1>2, <3>1, <3>2, <3>7
            <4>2. \A e \in Devices : place'[e] # <<g, p>>
                BY <1>1, <3>1, <3>7
            <4> QED BY <4>1, <4>2
        <3>8. CASE pc = "set_address" /\ Mine(<<g, p>>) /\ ctx.address = a
            BY <1>6, <3>1, <3>2, <3>8
        <3> QED BY <3>3, <3>5, <3>6, <3>7, <3>8
    <2>8. ASSUME NEW a \in T!Addr, parent'[a] = T!Entry(0, 1)
          PROVE  /\ rootSeen # "absent"
                 /\ \/ \E e \in Devices : place'[e] = RootPlace /\ usb'[e] = a
                    \/ \A e \in Devices : place'[e] # RootPlace
                    \/ pc = "set_address" /\ ctx.hub = 0 /\ ctx.address = a
        <3>1. /\ rootSeen # "absent"
              /\ \/ \E e \in Devices : place[e] = RootPlace /\ usb[e] = a
                 \/ \A e \in Devices : place[e] # RootPlace
                 \/ pc = "set_address" /\ ctx.hub = 0 /\ ctx.address = a
            BY <1>1, <2>2, <2>8 DEF EntriesOK
        <3>2. CASE place[d] = RootPlace
            <4>1. \A e \in Devices : place'[e] # RootPlace
                BY <1>1, <1>10, <3>2, PlaceFacts
            <4> QED BY <3>1, <4>1
        <3>3. CASE place[d] # RootPlace
            <4>1. \A e \in Devices : place'[e] = RootPlace <=> place[e] = RootPlace
                BY <1>1, <3>3, PlaceFacts
            <4>2. \A e \in Devices : place[e] = RootPlace => usb'[e] = usb[e]
                BY <1>4, <1>7, <3>3
            <4> QED BY <3>1, <4>1, <4>2
        <3> QED BY <3>2, <3>3
    <2>9. EntriesOK'
        <3>1. pc' = pc /\ ctx' = ctx /\ rootSeen' = rootSeen
            BY <1>1
        <3> QED BY <2>7, <2>8, <3>1 DEF EntriesOK
    <2>10. HubsOK'
        <3>1. ASSUME NEW g \in Hubs, NEW p \in 1 .. NPORTS, Answers(g)'
              PROVE  IF usb'[g] = ctx.address /\ (pc = "new_hub" \/ (pc = "power" /\ p \in ctx.todo))
                     THEN Dark(<<g, p>>)' ELSE port'[<<g, p>>].power
            <4>1. g \in Devices /\ <<g, p>> \in HubPorts /\ <<g, p>>[1] = g
                BY PlaceFacts, BusAssumption
            <4>2. Answers(g) /\ g \notin B /\ usb'[g] = usb[g]
                BY <1>4, <3>1, <4>1
            <4>3. IF usb[g] = ctx.address /\ (pc = "new_hub" \/ (pc = "power" /\ p \in ctx.todo))
                  THEN Dark(<<g, p>>) ELSE port[<<g, p>>].power
                BY <2>2, <4>2 DEF HubsOK
            <4>4. Dark(<<g, p>>) => Dark(<<g, p>>)'
                BY <1>2, <4>1, <4>2 DEF Dark
            <4>5. port[<<g, p>>].power => port'[<<g, p>>].power
                BY <1>2, <4>1, <4>2
            <4> QED BY <4>2, <4>3, <4>4, <4>5
        <3> QED BY <1>1, <3>1 DEF HubsOK
    <2>11. VacantOK' /\ EntryMade'
        BY <1>1, <2>2, <2>3 DEF VacantOK, Vacant, EntryMade
    <2> QED BY <2>4, <2>5, <2>6, <2>9, <2>10, <2>11
<1>21. AloneOK'
    BY <1>1 DEF Inv, AloneOK, Off
<1> QED BY <1>11, <1>12, <1>13, <1>14, <1>15, <1>16, <1>17, <1>18, <1>19, <1>20, <1>21
       DEF Inv, PlantOK

-----------------------------------------------------------------------------
(* The invariant, and what follows from it.                                *)

\* Nothing has power at first.
LEMMA InitInv ==
    ASSUME Calm, Init
    PROVE  Inv
<1>1. /\ place \in [Devices -> Places \cup {Nowhere}]
      /\ \A d \in Devices : place[d] # RootPlace
      /\ usb = [d \in Devices |-> Off] /\ port = [pl \in HubPorts |-> PortOff]
      /\ errors = 0 /\ parent = [a \in T!Addr |-> 0] /\ pipes = <<>> /\ packet = <<>>
      /\ rootSeen = "absent" /\ pc = "idle"
      /\ ctx = [hub |-> 0, port |-> 0, todo |-> {}, bit |-> 0, connected |-> FALSE,
                is_hub |-> FALSE, address |-> 0]
      /\ known = {} /\ no_hubs \in BOOLEAN
    BY DEF Init, T!Init
<1>2. \A d \in Devices : usb[d] = Off /\ usb[d] # 0 /\ ~Answers(d)
    BY <1>1, BusAssumption DEF Answers, Off
<1>3. PortOff \in PortStates /\ \A pl \in HubPorts : port[pl] = PortOff /\ Dark(pl)
    BY <1>1 DEF PortOff, PortStates, Dark
<1>4. Types
    <2>1. 0 \in 0 .. MAX_HUBS - 1 /\ 0 \in 0 .. MAX_DEVICES - 1 /\ 0 \in T!Byte
          /\ Off \in 0 .. MAX_DEVICES /\ {} \in SUBSET (1 .. NPORTS)
        BY BusAssumption DEF T!Byte, Off
    <2>2. usb \in [Devices -> 0 .. MAX_DEVICES] /\ port \in [HubPorts -> PortStates]
          /\ parent \in [T!Addr -> T!Byte]
        BY <1>1, <1>3, <2>1
    <2>3. pipes \in Seq(HubAddr) /\ packet \in Seq(SUBSET (1 .. NPORTS)) /\ Len(pipes) = Len(packet)
        BY <1>1
    <2> QED BY <1>1, <2>1, <2>2, <2>3 DEF Types
<1>5. PlugsOK
    <2>1. ASSUME NEW d \in Devices, NEW e \in Devices, place[d] = place[e], place[d] # Nowhere
          PROVE  d = e
        <3>1. Cardinality(On(place, place[d])) = 1
            BY <2>1 DEF Init
        <3>2. IsFiniteSet(On(place, place[d]))
            BY BusAssumption, FS_Subset DEF On
        <3>3. PICK x : On(place, place[d]) = {x}
            BY <3>1, <3>2, FS_Singleton
        <3>4. d \in On(place, place[d]) /\ e \in On(place, place[d])
            BY <2>1 DEF On
        <3> QED BY <3>3, <3>4
    <2> QED BY <1>2, <2>1 DEF PlugsOK
<1>6. PortsOK /\ ServedOK
    BY <1>3 DEF PortsOK, ServedOK, PortOff, Dark
<1>7. RootOK /\ AtAddressZero
    BY <1>1, <1>2 DEF RootOK, AtAddressZero
<1>8. WhereOK /\ ConnectingOK /\ AddressingOK /\ KnownOK
    BY <1>1, <1>2 DEF WhereOK, ConnectingOK, AddressingOK, KnownOK
<1>9. T!Present = {}
    BY <1>1 DEF T!Present, T!PresentIn
<1>10. TableOK
    BY <1>9 DEF TableOK, T!NoOrphans, T!RootedAtRoot
<1>11. HubsFit /\ HubsOK /\ TopologyIsTrue
    BY <1>2, BusAssumption DEF HubsFit, HubsOK, TopologyIsTrue
<1>12. EntriesOK
    <2>1. T!Entry(0, 1) # 0
        BY Codec
    <2>2. \A a \in T!Addr : parent[a] # T!Entry(0, 1)
        BY <1>1, <2>1
    <2> QED BY <1>2, <2>2, BusAssumption DEF EntriesOK
<1>13. VacantOK /\ EntryMade
    BY <1>1 DEF VacantOK, EntryMade
<1>14. TreeOK /\ AloneOK
    BY <1>1, <1>2, <1>9, <1>10, <1>11, <1>12, <1>13 DEF TreeOK, AloneOK
<1> QED BY <1>4, <1>5, <1>6, <1>7, <1>8, <1>14 DEF Inv, PlantOK

\* Every step keeps it, as long as nobody is turned away.
LEMMA StepInv ==
    ASSUME Calm, Inv, [Next]_vars, NoneRefused'
    PROVE  Inv'
<1>1. ASSUME NEW d \in Devices, Unplug(d) PROVE Inv'
    BY <1>1, UnplugInv
<1>2. ASSUME NEW d \in Devices, NEW pl \in Places, Plug(d, pl) PROVE Inv'
    <2>1. CASE pl = RootPlace
        BY <1>2, <2>1, RootPlugged
    <2>2. CASE pl \in HubPorts
        BY <1>2, <2>2, HubPlugged
    <2> QED BY <2>1, <2>2 DEF Places
<1>3. CASE Hardware
    BY <1>3, ResetDoneInv, PollInv DEF Hardware
<1>4. CASE RootEvent
    BY <1>4, RootGone, RootArrival
<1>5. CASE TakePacket
    BY <1>5, TakePacketInv
<1>8. CASE EmptyPacket
    <2>1. errors = 0 /\ MaxErrors = 0
        BY DEF Calm, Inv, PlantOK, Types
    <2> QED BY <1>8, <2>1 DEF EmptyPacket
<1>6. CASE Handler
    BY <1>6, RootResetInv, NewDeviceInv, SetAddressInv, NewHubInv, PowerPortInv, PortStatusInv,
       ClearChangeInv, PortResetInv, AfterResetInv DEF Handler
<1>7. CASE UNCHANGED vars
    <2>1. UNCHANGED <<place, usb, port, rootSeen, no_hubs, parent, pipes, packet, pc, ctx, known,
                      errors>>
        BY <1>7 DEF vars, plant, topology
    <2>2. Types'
        BY <2>1 DEF Inv, PlantOK, Types
    <2> QED BY <2>1, <2>2, SameInv
<1> QED BY <1>1, <1>2, <1>3, <1>4, <1>5, <1>6, <1>7, <1>8 DEF Next

(***************************************************************************)
(* The bus, the table and the handler agree in every state, as long as no  *)
(* device is turned away.                                                  *)
(***************************************************************************)
THEOREM BusInvariance == Calm => (Spec /\ []NoneRefused => []Inv)
<1> SUFFICES ASSUME Calm PROVE Spec /\ []NoneRefused => []Inv
    OBVIOUS
<1>1. Init => Inv
    BY InitInv
<1>2. Inv /\ [Next]_vars /\ NoneRefused' => Inv'
    BY StepInv
<1> QED BY <1>1, <1>2, PTL DEF Spec

(***************************************************************************)
(* "only one hub port on the whole *bus* can be in reset at any one time": *)
(* at most one device answers to address 0.                                *)
(***************************************************************************)
THEOREM AddressZeroIsSingle == Calm => (Spec /\ []NoneRefused => []OneAtAddressZero)
<1>1. Inv => OneAtAddressZero
    <2>1. SUFFICES ASSUME Inv PROVE Cardinality(Responders(0)) <= 1
        BY DEF OneAtAddressZero
    <2>2. \A d, e \in Responders(0) : d = e
        BY <2>1, OneAnswer, BusAssumption
    <2>3. CASE Responders(0) = {}
        BY <2>3, FS_EmptySet
    <2>4. ASSUME NEW d \in Responders(0) PROVE Cardinality(Responders(0)) <= 1
        <3>1. Responders(0) = {d}
            BY <2>2
        <3> QED BY <3>1, FS_Singleton
    <2> QED BY <2>3, <2>4
<1>2. Calm => (Spec /\ []NoneRefused => []Inv)
    BY BusInvariance
<1> QED BY <1>1, <1>2, PTL

(***************************************************************************)
(* A device that answers to an address is in the topology under that       *)
(* address, where it is really plugged in.                                 *)
(***************************************************************************)
THEOREM TopologyTruth == Calm => (Spec /\ []NoneRefused => []TopologyIsTrue)
<1>1. Inv => TopologyIsTrue
    BY DEF Inv, TreeOK, TopologyIsTrue
<1>2. Calm => (Spec /\ []NoneRefused => []Inv)
    BY BusInvariance
<1> QED BY <1>1, <1>2, PTL

-----------------------------------------------------------------------------
(* A quiet bus.                                                            *)

\* Every entry of the topology is that of a device that answers.
LEMMA QuietEntries ==
    ASSUME Inv, ~no_hubs, Quiet, NEW a \in T!Present
    PROVE  \E d \in Devices : usb[d] = a /\ Answers(d)
<1>1. /\ TableOK /\ EntriesOK /\ HubsFit
      /\ pc = "idle" /\ rootSeen = RootStatus
      /\ \A pl \in HubPorts : ~port[pl].c_connection
    BY DEF Inv, TreeOK, Quiet
<1> DEFINE U == {x \in T!Present : ~\E d \in Devices : usb[d] = x /\ Answers(d)}
<1>2. SUFFICES ASSUME a \in U PROVE FALSE
    OBVIOUS
<1>3. PICK x \in U : T!HubOf(parent[x]) \notin U
    BY <1>1, <1>2 DEF TableOK, T!RootedAtRoot
<1>4. x \in T!Present /\ x \in T!Addr /\ x # 0 /\ x # Off /\ \A d \in Devices : usb[d] # x
    BY <1>1, <1>3, BusAssumption DEF TableOK, T!Present, T!PresentIn, Answers, Off, T!Addr
<1>5. PICK h \in 0 .. MAX_HUBS - 1, p \in 1 .. MAX_PORTS - 1 :
          /\ parent[x] = T!Entry(h, p)
          /\ h = 0 => p = 1
          /\ \A d \in Devices : usb[d] = h /\ h # 0 => d \in Hubs /\ p \in 1 .. NPORTS
    BY <1>1, <1>4 DEF TableOK
<1>6. h \in 0 .. 15 /\ p \in Nat /\ p >= 1
    BY BusAssumption
<1>7. T!HubOf(parent[x]) = h
    BY <1>5, <1>6, Codec
<1>8. CASE h = 0
    <2>1. parent[x] = T!Entry(0, 1)
        BY <1>5, <1>8
    <2>2. rootSeen # "absent" /\ \A d \in Devices : place[d] # RootPlace
        BY <1>1, <1>4, <2>1 DEF EntriesOK
    <2>3. RootStatus = "absent"
        BY <2>2 DEF RootStatus, On
    <2> QED BY <1>1, <2>2, <2>3
<1>9. CASE h # 0
    <2>1. h \in T!Present
        BY <1>1, <1>4, <1>7, <1>9 DEF TableOK, T!NoOrphans
    <2>2. PICK g \in Devices : usb[g] = h /\ Answers(g)
        BY <1>3, <1>7, <2>1
    <2>3. g \in Hubs /\ p \in 1 .. NPORTS /\ <<g, p>> \in HubPorts
        BY <1>5, <1>9, <2>2, PlaceFacts
    <2>4. parent[x] = T!Entry(usb[g], p)
        BY <1>5, <2>2
    <2>5. \/ \E d \in Devices : place[d] = <<g, p>> /\ usb[d] = x
          \/ port[<<g, p>>].c_connection
          \/ pc = "set_address"
        BY <1>1, <1>4, <2>2, <2>3, <2>4 DEF EntriesOK
    <2> QED BY <1>1, <1>4, <2>3, <2>5
<1> QED BY <1>8, <1>9

\* The devices that are connected to the root are those that answer.
LEMMA QuietDevices ==
    ASSUME Inv, ~no_hubs, Quiet, NEW d \in Devices
    PROVE  d \in Connected <=> Answers(d)
<1>1. /\ Types /\ PlugsOK /\ RootOK /\ ServedOK /\ HubsOK
      /\ pc = "idle" /\ rootSeen = RootStatus /\ ctx.port = 0
      /\ \A pl \in HubPorts : ~port[pl].c_connection
    BY DEF Inv, PlantOK, TreeOK, Quiet, WhereOK
<1>2. ASSUME d \in Connected PROVE Answers(d)
    <2>1. PICK r \in Devices : place[r] = RootPlace /\ d \in Below(place, r)
        BY <1>2 DEF Connected, On
    <2> DEFINE S == {e \in Devices : Answers(e)}
    <2>2. r \in S
        <3>1. rootSeen # "absent"
            BY <1>1, <2>1 DEF RootStatus, On
        <3> QED BY <1>1, <2>1, <3>1 DEF RootOK
    <2>3. ASSUME NEW f \in Devices, place[f] \in HubPorts, place[f][1] \in S PROVE f \in S
        <3>1. /\ place[f][1] \in Hubs /\ place[f][2] \in 1 .. NPORTS
              /\ place[f] = <<place[f][1], place[f][2]>>
            BY <2>3, PlaceFacts
        <3>2. port[<<place[f][1], place[f][2]>>].power
            BY <1>1, <2>3, <3>1 DEF HubsOK
        <3>3. port[place[f]].power
            BY <3>1, <3>2
        <3> QED BY <1>1, <2>3, <3>3 DEF ServedOK
    <2>4. S \in SUBSET Devices
        OBVIOUS
    <2> HIDE DEF S
    <2>5. d \in S
        BY <2>1, <2>2, <2>3, <2>4 DEF Below
    <2> QED BY <2>5 DEF S
<1>3. ASSUME Answers(d), d \notin Connected PROVE FALSE
    <2> DEFINE S == {x \in T!Present : \E e \in Devices :
                        Answers(e) /\ e \notin Connected /\ usb[e] = x}
    <2>1. usb[d] \in S
        BY <1>3, AnswersPresent
    <2>2. PICK x \in S : T!HubOf(parent[x]) \notin S
        BY <2>1 DEF Inv, TreeOK, TableOK, T!RootedAtRoot
    <2>3. PICK e \in Devices : Answers(e) /\ e \notin Connected /\ usb[e] = x
        BY <2>2
    <2>4. place[e] # RootPlace
        <3>1. e \in Below(place, e)
            BY BelowFacts
        <3> QED BY <2>3, <3>1 DEF Connected, On
    <2>5. /\ place[e] \in HubPorts /\ place[e][1] \in Devices /\ Answers(place[e][1])
          /\ T!HubOf(parent[x]) = usb[place[e][1]]
        BY <2>3, <2>4, AnswersPresent
    <2>6. place[e][1] \in Connected
        BY <2>2, <2>5, AnswersPresent
    <2>7. PICK r \in Devices : place[r] = RootPlace /\ place[e][1] \in Below(place, r)
        BY <2>6 DEF Connected, On
    <2>8. e \in Below(place, r)
        BY <2>5, <2>7, BelowFacts
    <2> QED BY <2>3, <2>7, <2>8 DEF Connected, On
<1> QED BY <1>2, <1>3

(***************************************************************************)
(* When the bus is quiet, the application knows exactly the devices that   *)
(* are connected to the root, by the addresses that they answer to, and    *)
(* the topology holds no others.                                           *)
(***************************************************************************)
THEOREM QuietBusKnown == Calm => (Spec /\ []NoneRefused => []QuietBusIsKnown)
<1>1. Inv => QuietBusIsKnown
    <2>1. SUFFICES ASSUME Inv, Quiet
                   PROVE  /\ known = {usb[d] : d \in Watched}
                          /\ ~no_hubs => T!Present = known
        BY DEF QuietBusIsKnown
    <2>2. \A d \in Devices : Answers(d) => usb[d] \in known
        BY <2>1 DEF Inv, KnownOK, Quiet
    <2>3. CASE ~no_hubs
        <3>1. known \subseteq T!Present
            BY <2>1, <2>3 DEF Inv, TreeOK
        <3>2. T!Present \subseteq {usb[d] : d \in {e \in Devices : Answers(e)}}
            BY <2>1, <2>3, QuietEntries
        <3>3. Watched \subseteq Devices
            BY <2>3 DEF Watched, Connected, Below
        <3>4. Watched = {e \in Devices : Answers(e)}
            BY <2>1, <2>3, <3>3, QuietDevices DEF Watched
        <3>5. known \subseteq {usb[d] : d \in Watched}
            BY <3>1, <3>2, <3>4
        <3>6. {usb[d] : d \in Watched} \subseteq known
            BY <2>2, <3>4
        <3>7. T!Present \subseteq known
            BY <3>2, <3>4, <3>6
        <3> QED BY <3>1, <3>5, <3>6, <3>7
    <2>4. CASE no_hubs
        <3>1. /\ rootSeen = RootStatus /\ pc = "idle" /\ known \subseteq {1}
              /\ rootSeen = "absent" => known = {}
              /\ \A d \in Devices : usb[d] \in {0, 1, Off}
              /\ PlugsOK /\ RootOK
            BY <2>1, <2>4 DEF Inv, AloneOK, Quiet, PlantOK
        <3>2. Watched = On(place, RootPlace)
            BY <2>4 DEF Watched
        <3>3. CASE On(place, RootPlace) = {}
            BY <2>4, <3>1, <3>2, <3>3 DEF RootStatus
        <3>4. ASSUME NEW d \in On(place, RootPlace) PROVE known = {usb[e] : e \in Watched}
            <4>1. d \in Devices /\ place[d] = RootPlace
                BY DEF On
            <4>2. Watched = {d}
                BY <3>1, <3>2, <4>1, PlaceFacts DEF PlugsOK, On
            <4>3. rootSeen # "absent"
                BY <3>1, <3>4 DEF RootStatus
            <4>4. Answers(d)
                BY <3>1, <4>1, <4>3 DEF RootOK
            <4>5. usb[d] = 1 /\ usb[d] \in known
                BY <2>2, <3>1, <4>1, <4>4 DEF Answers
            <4> QED BY <3>1, <4>2, <4>5
        <3> QED BY <2>4, <3>3, <3>4
    <2> QED BY <2>3, <2>4
<1>2. Calm => (Spec /\ []NoneRefused => []Inv)
    BY BusInvariance
<1> QED BY <1>1, <1>2, PTL
=============================================================================
