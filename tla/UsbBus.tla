------------------------------- MODULE UsbBus -------------------------------
(***************************************************************************)
(* cotton-usb-host/src/usb_bus.rs: UsbBus::device_events, which detects,   *)
(* resets, addresses and configures the devices of a whole USB bus.  The   *)
(* events of the root port and the status-change packets of the hubs are   *)
(* handled one at a time, but a handler awaits every control transfer and  *)
(* every delay, and meanwhile people plug and unplug things.               *)
(*                                                                         *)
(* The first half of the module is the hardware as the code sees it (host  *)
(* controller, hubs, devices); the second half is the code.                *)
(***************************************************************************)
EXTENDS Naturals, Sequences, FiniteSets

CONSTANTS
    Devices, Hubs,      \* the physical devices, and those of them that are hubs
    LowSpeed,           \* the low-speed devices
    NPORTS,             \* downstream ports of each hub
    MAX_DEVICES, MAX_HUBS, MAX_PORTS,   \* of topology.rs
    MAX_PIPES,          \* length of HubState::pipes: 15 in the code
    Bounce,             \* the kinds of port ("root", "hub") that may be replugged
                        \* before the host has dealt with their last change
    SlowReset,          \* may a hub take more than 50ms to reset a port?
    MaxMoves,           \* bound on how often something is plugged in or out
    MaxErrors           \* bound on the number of transfers that fail

ASSUME BusAssumption ==
    /\ IsFiniteSet(Devices) /\ "root" \notin Devices
    /\ Hubs \subseteq Devices /\ LowSpeed \subseteq Devices
    /\ NPORTS \in Nat /\ MAX_PIPES \in Nat /\ MaxMoves \in Nat /\ MaxErrors \in Nat
    /\ Bounce \subseteq {"root", "hub"} /\ SlowReset \in BOOLEAN
    /\ MAX_DEVICES \in Nat /\ MAX_HUBS \in 1 .. 16 /\ MAX_PORTS \in 1 .. 16
    /\ 2 <= MAX_DEVICES /\ MAX_HUBS <= MAX_DEVICES

VARIABLES
    \* the hardware
    place,      \* where each device is plugged in
    usb,        \* the address each device answers to, or Off
    port,       \* the state of each hub's ports
    moves, errors,
    \* the code
    parent, address, gone,  \* HubState::topology and its operations' results
    pipes,      \* HubState::pipes: the hub address that each pipe in use polls
    packet,     \* the status-change packet waiting in each pipe, {} if none
    rootSeen,   \* DeviceDetect::status
    pc, ctx,    \* where the event handler is suspended, and its locals
    event,      \* the last DeviceEvent
    known,      \* the addresses the application has been told of
    no_hubs     \* does the application use device_events_no_hubs?

plant == <<place, usb, port, moves>>
topology == <<parent, address, gone>>
vars == <<plant, errors, topology, pipes, packet, rootSeen, pc, ctx, event, known, no_hubs>>

T == INSTANCE Topology
-----------------------------------------------------------------------------
Off == MAX_DEVICES          \* not an address: unpowered, or not yet reset
RootPlace == <<"root", 1>>
Nowhere == <<"nowhere", 0>>
HubPorts == Hubs \X (1 .. NPORTS)
Places == HubPorts \cup {RootPlace}

PortStates == [power : BOOLEAN, c_connection : BOOLEAN, enabled : BOOLEAN,
               resetting : BOOLEAN, c_reset : BOOLEAN]
PortOff == [power |-> FALSE, c_connection |-> FALSE, enabled |-> FALSE,
            resetting |-> FALSE, c_reset |-> FALSE]

On(where, pl) == {d \in Devices : where[d] = pl}

\* d and everything that is plugged into it, directly or not.
Below(where, d) ==
    {e \in Devices :
        \A S \in SUBSET Devices :
            /\ d \in S
            /\ \A f \in Devices : where[f] \in HubPorts /\ where[f][1] \in S => f \in S
            => e \in S}

\* Power is lost below: devices in S forget their addresses, hubs their ports.
Silenced(S) == [d \in Devices |-> IF d \in S THEN Off ELSE usb[d]]
Darkened(S) == [pl \in HubPorts |-> IF pl[1] \in S THEN PortOff ELSE port[pl]]

\* A reset: the device answers to address 0, and what is below it loses power.
ResetUsb(d) == [Silenced(Below(place, d)) EXCEPT ![d] = 0]

RootStatus ==
    IF On(place, RootPlace) = {} THEN "absent"
    ELSE IF On(place, RootPlace) \subseteq LowSpeed THEN "low" ELSE "full"

(***************************************************************************)
(* A port that does not bounce is replugged only once the host has dealt   *)
(* with its last change.                                                   *)
(***************************************************************************)
Settled(pl) ==
    IF pl = RootPlace THEN rootSeen = "absent"
    ELSE /\ ~port[pl].c_connection
         /\ ~(pc # "idle" /\ ctx.hub = usb[pl[1]] /\ ctx.port = pl[2])

Plug(d, pl) ==
    /\ moves < MaxMoves
    /\ place[d] = Nowhere
    /\ On(place, pl) = {}
    /\ pl[1] \notin Below(place, d)
    /\ (IF pl = RootPlace THEN "root" ELSE "hub") \in Bounce \/ Settled(pl)
    /\ moves' = moves + 1
    /\ place' = [place EXCEPT ![d] = pl]
    /\ port' = IF pl \in HubPorts /\ port[pl].power
               THEN [port EXCEPT ![pl].c_connection = TRUE] ELSE port
    /\ UNCHANGED <<usb, errors, topology, pipes, packet, rootSeen, no_hubs, pc, ctx, event, known>>

Unplug(d) ==
    /\ moves < MaxMoves
    /\ place[d] # Nowhere
    /\ moves' = moves + 1
    /\ place' = [place EXCEPT ![d] = Nowhere]
    /\ usb' = Silenced(Below(place, d))
    /\ LET dark == Darkened(Below(place, d)) IN
       port' = IF place[d] \in HubPorts /\ port[place[d]].power
               THEN [dark EXCEPT ![place[d]].c_connection = TRUE, ![place[d]].enabled = FALSE]
               ELSE dark
    /\ UNCHANGED <<errors, topology, pipes, packet, rootSeen, no_hubs, pc, ctx, event, known>>

\* A hub ends the reset signalling on a port, and enables it if a device is there.
ResetDone(pl) ==
    /\ port[pl].resetting
    /\ IF On(place, pl) = {}
       THEN /\ port' = [port EXCEPT ![pl].resetting = FALSE, ![pl].c_reset = TRUE]
            /\ UNCHANGED usb
       ELSE \E d \in On(place, pl) :
            /\ usb' = ResetUsb(d)
            /\ port' = [Darkened(Below(place, d)) EXCEPT
                           ![pl].resetting = FALSE, ![pl].c_reset = TRUE, ![pl].enabled = TRUE]
    /\ UNCHANGED <<place, moves, errors, topology, pipes, packet, rootSeen, no_hubs, pc, ctx,
                   event, known>>

Responders(a) == {d \in Devices : usb[d] = a}
HubsAt(a) == Responders(a) \cap Hubs

\* The host controller polls a pipe's hub, which reports the ports that changed.
ChangedPorts(h) ==
    {p \in 1 .. NPORTS : port[<<h, p>>].c_connection \/ port[<<h, p>>].c_reset}

PipePoll(k) ==
    /\ packet[k] = {}
    /\ \E h \in HubsAt(pipes[k]) :
          /\ ChangedPorts(h) # {}
          /\ packet' = [packet EXCEPT ![k] = ChangedPorts(h)]
    /\ UNCHANGED <<plant, errors, topology, pipes, rootSeen, no_hubs, pc, ctx, event, known>>
-----------------------------------------------------------------------------
Init ==
    /\ place \in [Devices -> Places \cup {Nowhere}]
    /\ \A d \in Devices :
          /\ place[d] # RootPlace
          /\ place[d] # Nowhere => Cardinality(On(place, place[d])) = 1
          /\ place[d] \in HubPorts => place[d][1] \notin Below(place, d)
    /\ usb = [d \in Devices |-> Off]
    /\ port = [pl \in HubPorts |-> PortOff]
    /\ moves = 0 /\ errors = 0
    /\ T!Init
    /\ pipes = <<>> /\ packet = <<>>
    /\ rootSeen = "absent"
    /\ pc = "idle"
    /\ ctx = [hub |-> 0, port |-> 0, todo |-> {}, bit |-> 0, connected |-> FALSE,
              is_hub |-> FALSE, address |-> 0]
    /\ event = [kind |-> "none", addrs |-> {}, why |-> "none"]
    /\ known = {}
    /\ no_hubs \in BOOLEAN

Least(S, x) == x \in S /\ \A y \in S : x <= y

\* The handler's future completes: the stream yields this event.
Yield(kind, addrs, why) ==
    /\ pc' = "idle"
    /\ event' = [kind |-> kind, addrs |-> addrs, why |-> why]
    /\ ctx' = [ctx EXCEPT !.hub = 0, !.port = 0, !.todo = {}, !.bit = 0,
                          !.connected = FALSE, !.is_hub = FALSE, !.address = 0]

Told(addrs) == known' = known \cup addrs

(***************************************************************************)
(* A control transfer fails when nobody answers, when two devices answer   *)
(* at once, or when the bus corrupts it (up to MaxErrors times).  Every    *)
(* failure, through ?, becomes an EnumerationError event.                  *)
(***************************************************************************)
Fails(answering) ==
    \/ Cardinality(answering) # 1 /\ UNCHANGED errors
    \/ errors < MaxErrors /\ errors' = errors + 1

TransferError(answering) ==
    /\ Fails(answering)
    /\ Yield("error", {}, "transfer")
    /\ UNCHANGED <<plant, topology, pipes, packet, rootSeen, no_hubs, known>>

\* device_events or device_events_no_hubs: an event from the root port.  Removal
\* is handled on the spot; the mask of the event it yields is 0xFFFF_FFFF.
RootEvent ==
    /\ pc = "idle"
    /\ rootSeen # RootStatus
    /\ rootSeen' = RootStatus
    /\ IF RootStatus = "absent"
       THEN /\ IF no_hubs THEN UNCHANGED topology ELSE T!device_disconnect(0, 1)
            /\ known' = {}
            /\ Yield("disconnect", 0 .. MAX_DEVICES - 1, "none")
       ELSE /\ pc' = "root_reset"
            /\ ctx' = [ctx EXCEPT !.hub = 0, !.port = 1]
            /\ event' = [kind |-> "none", addrs |-> {}, why |-> "none"]
            /\ UNCHANGED <<topology, known>>
    /\ UNCHANGED <<plant, errors, pipes, packet, no_hubs>>

\* reset_root_port(true), 50ms, reset_root_port(false), 10ms.
RootReset ==
    /\ pc = "root_reset"
    /\ pc' = "new_device"
    /\ IF On(place, RootPlace) = {}
       THEN UNCHANGED <<usb, port>>
       ELSE \E d \in On(place, RootPlace) :
            /\ usb' = ResetUsb(d)
            /\ port' = Darkened(Below(place, d))
    /\ UNCHANGED <<place, moves, errors, topology, pipes, packet, rootSeen, no_hubs, ctx,
                   event, known>>

\* The address of a new device: from the topology; without hubs, the first.
Allot(d) ==
    IF no_hubs THEN address' = {1} /\ UNCHANGED <<parent, gone>>
    ELSE T!device_connect(ctx.hub, ctx.port, d \in Hubs)

(***************************************************************************)
(* new_device, two reads of the descriptor of whoever answers to address 0 *)
(* (taken together: nobody else can start answering between them), and the *)
(* device_connect that follows without an await.                           *)
(***************************************************************************)
NewDevice ==
    /\ pc = "new_device"
    /\ \/ TransferError(Responders(0))
       \/ \E d \in Responders(0) :
            /\ Allot(d)
            /\ IF address' # {}
               THEN /\ pc' = "set_address"
                    /\ \E a \in address' :
                          ctx' = [ctx EXCEPT !.is_hub = d \in Hubs /\ ~no_hubs, !.address = a]
                    /\ UNCHANGED event
               ELSE IF ctx.hub = 0
               THEN pc' = "panic" /\ UNCHANGED <<ctx, event>>   \* expect()
               ELSE Yield("error", {}, "TooManyDevices")
            /\ UNCHANGED <<plant, errors, pipes, packet, rootSeen, no_hubs, known>>

\* Every device that answers to address 0 hears the request and obeys it,
\* even if the host does not see it succeed.
SetAddressUsb(a) == [d \in Devices |-> IF usb[d] = 0 THEN a ELSE usb[d]]

SetAddress ==
    /\ pc = "set_address"
    /\ \/ TransferError(Responders(0))
       \/ /\ errors < MaxErrors /\ errors' = errors + 1
          /\ usb' = SetAddressUsb(ctx.address)
          /\ Yield("error", {}, "transfer")
          /\ UNCHANGED <<place, port, moves, topology, pipes, packet, rootSeen, no_hubs, known>>
       \/ /\ Responders(0) # {}
          /\ usb' = SetAddressUsb(ctx.address)
          /\ IF ctx.is_hub
             THEN pc' = "new_hub" /\ UNCHANGED <<ctx, event, known>>
             ELSE Yield("connect", {ctx.address}, "none") /\ Told({ctx.address})
          /\ UNCHANGED <<place, port, moves, errors, topology, pipes, packet, rootSeen, no_hubs>>

\* Mutant of PowerPorts: ports numbered 0..N rather than 1..=N.
PowerPortsFromZero == 1 .. NPORTS - 1

PowerPorts == 1 .. NPORTS

\* Mutant of FreeSlot: the slots are not counted.
FreeSlotAlways == TRUE

\* try_add finds an unused entry in HubState::pipes.  Entries are never freed.
FreeSlot == Len(pipes) < MAX_PIPES

\* new_hub up to its try_add: read the configuration, configure the hub, and
\* give it an interrupt pipe from the first free slot.
NewHub ==
    /\ pc = "new_hub"
    /\ \/ TransferError(HubsAt(ctx.address))
       \/ /\ HubsAt(ctx.address) # {}
          /\ IF FreeSlot
             THEN /\ pipes' = Append(pipes, ctx.address)
                  /\ packet' = Append(packet, {})
                  /\ pc' = "power"
                  /\ ctx' = [ctx EXCEPT !.todo = PowerPorts]
                  /\ UNCHANGED event
             ELSE /\ Yield("error", {}, "TooManyDevices")
                  /\ UNCHANGED <<pipes, packet>>
          /\ UNCHANGED <<plant, errors, topology, rootSeen, no_hubs, known>>

\* The rest of new_hub: PORT_POWER for each port in turn.  (Reading the hub
\* descriptor can only fail as the first PORT_POWER can.)
PowerPort ==
    /\ pc = "power"
    /\ \/ TransferError(HubsAt(ctx.address))
       \/ \E h \in HubsAt(ctx.address), p \in ctx.todo :
            /\ Least(ctx.todo, p)
            /\ port' = [port EXCEPT ![<<h, p>>].power = TRUE,
                                    ![<<h, p>>].c_connection = On(place, <<h, p>>) # {}]
            /\ IF ctx.todo = {p}
               THEN Yield("hub", {ctx.address}, "none") /\ Told({ctx.address})
               ELSE /\ ctx' = [ctx EXCEPT !.todo = @ \ {p}]
                    /\ UNCHANGED <<pc, event, known>>
            /\ UNCHANGED <<place, usb, moves, errors, topology, pipes, packet, rootSeen, no_hubs>>

\* HubStateStream::poll_next: the first pipe that has a packet.
TakePacket ==
    /\ pc = "idle"
    /\ \E k \in DOMAIN packet :
          /\ Least({j \in DOMAIN packet : packet[j] # {}}, k)
          /\ packet' = [packet EXCEPT ![k] = {}]
          /\ ctx' = [ctx EXCEPT !.hub = pipes[k], !.todo = packet[k]]
    /\ pc' = "status"
    /\ event' = [kind |-> "none", addrs |-> {}, why |-> "none"]
    /\ UNCHANGED <<plant, errors, topology, pipes, rootSeen, no_hubs, known>>

\* handle_hub_packet returns ProtocolError at once for a packet of no bytes.
EmptyPacket ==
    /\ pc = "idle"
    /\ \E k \in DOMAIN packet : packet[k] = {} /\ HubsAt(pipes[k]) # {}
    /\ errors < MaxErrors /\ errors' = errors + 1
    /\ Yield("error", {}, "protocol")
    /\ UNCHANGED <<plant, topology, pipes, packet, rootSeen, no_hubs, known>>

\* Mutant of NextPort: the port is not taken off the bitmap.
NextPortStuck(p) ==
    /\ pc' = "status"
    /\ ctx' = [ctx EXCEPT !.port = 0, !.connected = FALSE, !.bit = 0]
    /\ UNCHANGED event

\* The end of an iteration over port_bitmap.
NextPort(p) ==
    IF ctx.todo = {p} THEN Yield("none", {}, "none")
    ELSE /\ pc' = "status"
         /\ ctx' = [ctx EXCEPT !.todo = @ \ {p}, !.port = 0, !.connected = FALSE, !.bit = 0]
         /\ UNCHANGED event

\* The bits of wPortStatus and wPortChange that the code looks at.
get_hub_port_status(h, p) ==
    [connected |-> On(place, <<h, p>>) # {},
     enabled |-> port[<<h, p>>].enabled,
     changes |-> (IF port[<<h, p>>].c_connection THEN {0} ELSE {}) \cup
                 (IF port[<<h, p>>].c_reset THEN {4} ELSE {})]

\* handle_hub_packet: read the status of the next port of the bitmap.
PortStatus ==
    /\ pc = "status"
    /\ \/ TransferError(HubsAt(ctx.hub))
       \/ \E h \in HubsAt(ctx.hub), p \in ctx.todo :
            /\ Least(ctx.todo, p)
            /\ LET st == get_hub_port_status(h, p) IN
               \/ st.changes = {} /\ NextPort(p)
               \/ \E bit \in st.changes :
                     /\ Least(st.changes, bit)
                     /\ pc' = "clear"
                     /\ ctx' = [ctx EXCEPT !.port = p, !.connected = st.connected, !.bit = bit]
                     /\ UNCHANGED event
            /\ UNCHANGED <<plant, errors, topology, pipes, packet, rootSeen, no_hubs, known>>

\* Mutant of Disconnected: the mask is not reported, the loop just goes on.
DisconnectedQuietly ==
    /\ T!device_disconnect(ctx.hub, ctx.port)
    /\ NextPort(ctx.port)
    /\ UNCHANGED known

\* Mutant of Disconnected: the topology is not told.
DisconnectedForgotten ==
    /\ UNCHANGED topology
    /\ Yield("disconnect", {}, "none")
    /\ UNCHANGED known

\* Mutant of Disconnected: hub and port are swapped.
DisconnectedSwapped ==
    /\ T!device_disconnect(ctx.port, ctx.hub)
    /\ Yield("disconnect", gone', "none")
    /\ known' = known \ gone'

\* C_PORT_CONNECTION on a port that reads as empty.
Disconnected ==
    /\ T!device_disconnect(ctx.hub, ctx.port)
    /\ Yield("disconnect", gone', "none")
    /\ known' = known \ gone'

\* Mutant of Cleared: the feature is cleared, not its change bit ("+16" is lost).
ClearedFeature(h) == port

\* The ports of hub h after the lowest change bit has been cleared.
Cleared(h) ==
    IF ctx.bit = 0 THEN [port EXCEPT ![<<h, ctx.port>>].c_connection = FALSE]
    ELSE [port EXCEPT ![<<h, ctx.port>>].c_reset = FALSE]

\* clear_port_feature for the lowest change bit; for C_PORT_CONNECTION, act on
\* the state that was read before.
ClearChange ==
    /\ pc = "clear"
    /\ \/ TransferError(HubsAt(ctx.hub))
       \/ \E h \in HubsAt(ctx.hub) :
            /\ port' = Cleared(h)
            /\ IF ctx.bit # 0
               THEN NextPort(ctx.port) /\ UNCHANGED <<topology, known>>
               ELSE IF ~ctx.connected
               THEN Disconnected
               ELSE pc' = "reset" /\ UNCHANGED <<ctx, event, topology, known>>
            /\ UNCHANGED <<place, usb, moves, errors, pipes, packet, rootSeen, no_hubs>>

\* Mutant of InReset: every port that the packet names is reset at once.
InResetAll(h) ==
    [pl \in HubPorts |->
        IF pl[1] = h /\ pl[2] \in ctx.todo
        THEN [port[pl] EXCEPT !.resetting = TRUE, !.enabled = FALSE] ELSE port[pl]]

InReset(h) ==
    [port EXCEPT ![<<h, ctx.port>>].resetting = TRUE, ![<<h, ctx.port>>].enabled = FALSE]

PortReset ==
    /\ pc = "reset"
    /\ \/ TransferError(HubsAt(ctx.hub))
       \/ \E h \in HubsAt(ctx.hub) :
            /\ port' = InReset(h)
            /\ pc' = "wait"
            /\ UNCHANGED <<place, usb, moves, errors, topology, pipes, packet, rootSeen, no_hubs,
                           ctx, event, known>>

\* The 50ms delay and the second get_hub_port_status.
AfterReset ==
    /\ pc = "wait"
    /\ \/ TransferError(HubsAt(ctx.hub))
       \/ \E h \in HubsAt(ctx.hub) :
            /\ SlowReset \/ ~port[<<h, ctx.port>>].resetting
            /\ IF get_hub_port_status(h, ctx.port).enabled
               THEN pc' = "new_device" /\ UNCHANGED <<ctx, event>>
               ELSE NextPort(ctx.port)
            /\ UNCHANGED <<plant, errors, topology, pipes, packet, rootSeen, no_hubs, known>>

Handler ==
    \/ RootReset \/ NewDevice \/ SetAddress \/ NewHub \/ PowerPort
    \/ PortStatus \/ ClearChange \/ PortReset \/ AfterReset

Hardware ==
    \/ \E pl \in HubPorts : ResetDone(pl)
    \/ \E k \in DOMAIN packet : PipePoll(k)

Next ==
    \/ \E d \in Devices : Unplug(d) \/ \E pl \in Places : Plug(d, pl)
    \/ Hardware
    \/ RootEvent \/ TakePacket \/ EmptyPacket \/ Handler

Spec == Init /\ [][Next]_vars

(***************************************************************************)
(* The executor polls the stream until it yields, the application asks for *)
(* the next event, and hubs do what they are told.  stream::select takes   *)
(* turns between the root port and the hubs.  Nobody has to plug anything. *)
(***************************************************************************)
FairSpec ==
    /\ Spec
    /\ WF_vars(Handler) /\ WF_vars(Hardware)
    /\ SF_vars(RootEvent) /\ SF_vars(TakePacket)
-----------------------------------------------------------------------------
TypeOK ==
    /\ place \in [Devices -> Places \cup {Nowhere}]
    /\ usb \in [Devices -> 0 .. MAX_DEVICES]
    /\ port \in [HubPorts -> PortStates]
    /\ T!TypeOK
    /\ Len(pipes) <= MAX_PIPES /\ DOMAIN pipes = DOMAIN packet
    /\ pc \in {"idle", "root_reset", "new_device", "set_address", "new_hub", "power",
               "status", "clear", "reset", "wait"}
    /\ known \subseteq 0 .. MAX_DEVICES - 1
    /\ no_hubs \in BOOLEAN

(***************************************************************************)
(* "only one hub port on the whole *bus* can be in reset at any one time,  *)
(* because it becomes sensitive to address zero" (handle_hub_packet): at   *)
(* most one device answers to address 0.                                   *)
(***************************************************************************)
OneAtAddressZero == Cardinality(Responders(0)) <= 1

(***************************************************************************)
(* No two devices on the bus are given the same address.                   *)
(***************************************************************************)
AddressesUnique ==
    \A d, e \in Devices : usb[d] = usb[e] /\ usb[d] # Off => d = e

(***************************************************************************)
(* A device that answers to an address is in the topology under that       *)
(* address, at the place where it is really plugged in.                    *)
(***************************************************************************)
TopologyIsTrue ==
    \A d \in Devices : ~no_hubs /\ usb[d] \notin {0, Off} =>
        LET up == place[d] IN
        parent[usb[d]] = IF up = RootPlace THEN T!Entry(0, 1)
                         ELSE T!Entry(usb[up[1]], up[2])

(***************************************************************************)
(* An interrupt pipe never polls a device that is not a hub.  Not so: a    *)
(* pipe outlives its hub, and once the addresses above MAX_HUBS are used   *)
(* up, a device that is no hub may be given the hub's.                     *)
(***************************************************************************)
PipesPollHubs ==
    \A k \in DOMAIN pipes : Responders(pipes[k]) \subseteq Hubs

(***************************************************************************)
(* The application is never left with a device whose address the topology  *)
(* has freed (and may give to another device): every removal is reported.  *)
(***************************************************************************)
KnownAreAllotted == ~no_hubs => known \subseteq T!Present

(***************************************************************************)
(* When the bus is quiet, the application knows exactly the devices that   *)
(* are connected to the root, directly or through hubs, by the addresses   *)
(* that they answer to; and the topology holds no others.  Without hubs,   *)
(* "that device is not treated specially if it is a hub".                  *)
(***************************************************************************)
Connected == UNION {Below(place, d) : d \in On(place, RootPlace)}
Watched == IF no_hubs THEN On(place, RootPlace) ELSE Connected

Quiet ==
    /\ pc = "idle"
    /\ rootSeen = RootStatus
    /\ \A k \in DOMAIN packet : packet[k] = {}
    /\ \A pl \in HubPorts : ~port[pl].c_connection /\ ~port[pl].c_reset /\ ~port[pl].resetting

QuietBusIsKnown ==
    Quiet => /\ known = {usb[d] : d \in Watched}
             /\ ~no_hubs => T!Present = known

(***************************************************************************)
(* The topology stores "the parent hub in the lower 4 bits": a hub must    *)
(* answer to an address below MAX_HUBS, or nothing plugged into it can be  *)
(* entered in the table.                                                   *)
(***************************************************************************)
HubsFitTheTable == \A h \in Hubs : usb[h] # Off => usb[h] < MAX_HUBS

(***************************************************************************)
(* TooManyDevices means that "the limit of attached USB devices has been   *)
(* reached": that many devices, or that many hubs, are connected.          *)
(***************************************************************************)
TooManyMeansMany ==
    event.why = "TooManyDevices" =>
        \/ Cardinality(Connected) >= MAX_DEVICES - 1
        \/ Cardinality(Connected \cap Hubs) >= MAX_PIPES
        \/ Cardinality(Connected \cap Hubs) >= MAX_HUBS - 1

(***************************************************************************)
(* A device is announced only under an address that the application does   *)
(* not have already: "no duplicate" device objects are issued.             *)
(***************************************************************************)
NoDuplicateDevice ==
    [][pc # "idle" /\ pc' = "idle" /\ event'.kind \in {"connect", "hub"}
          => event'.addrs \cap known = {}]_vars

(***************************************************************************)
(* Once people stop moving things about, every device that is connected,   *)
(* directly or through hubs, gets announced to the application.            *)
(***************************************************************************)
Unannounced == {d \in Watched : usb[d] \notin known}
EventuallyAnnounced == Unannounced # {} ~> Unannounced = {}

(***************************************************************************)
(* An address whose device is no longer there is taken from the            *)
(* application sooner or later, however many devices went with one plug.   *)
(***************************************************************************)
Stale == {a \in known : Responders(a) = {}}
EventuallyWithdrawn == Stale # {} ~> Stale = {}

(***************************************************************************)
(* Handling an event never hangs, whatever is unplugged while it waits for *)
(* a transfer or a delay: the stream gets back to the next event.          *)
(***************************************************************************)
HandlerReturns == pc # "idle" ~> pc = "idle"

(***************************************************************************)
(* A hub's connection change is acted upon in the end, although the        *)
(* handler returns after the first port that has one, and gives up on the  *)
(* whole packet when a transfer fails: the hub keeps reporting it.         *)
(***************************************************************************)
ChangesAreServed ==
    \A pl \in HubPorts : port[pl].c_connection ~> ~port[pl].c_connection
=============================================================================
