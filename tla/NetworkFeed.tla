---------------------------- MODULE NetworkFeed -----------------------------
(***************************************************************************)
(* An SSDP engine that learns of the network from cotton-netif: either     *)
(* from the stream of get_interfaces_async, as ssdp-search.rs does, or     *)
(* from the list of get_interfaces, as Service::new_inner does.  The       *)
(* application advertises a resource meanwhile.                            *)
(*                                                                         *)
(* The variable told keeps what the events have said so far: the           *)
(* interfaces and addresses announced and not withdrawn; the addresses     *)
(* announced while their interface was not (early); the interfaces that    *)
(* were announced again with MULTICAST set or unset (wavers); and whether  *)
(* an error came instead of an event (lossy).                              *)
(***************************************************************************)
EXTENDS GetIfAddrs, SsdpEngine

\* The engine's interfaces and addresses are the kernel's; it has no use for IPv6.
ASSUME FeedAssumption ==
    /\ Links = Indexes /\ Ips = Inet
    /\ \A a \in Ips : LinkOf[a] = IfaceOf[a]

VARIABLES
    source,     \* where the application gets its events: "stream" or "list"
    told

feedVars == <<kernel, sockets, stream, list, vars, source, told>>

FeedInit ==
    /\ KernelInit /\ NetlinkInit /\ GetIfAddrsInit /\ Init
    /\ source \in {"stream", "list"}
    /\ told = [links |-> Empty, addrs |-> {}, early |-> {}, wavers |-> {}, lossy |-> FALSE]

\* An interface that is known is announced with MULTICAST set or unset.
Wavers(e) ==
    /\ e.ix \in DOMAIN told.links
    /\ ~("MULTICAST" \in e.flags <=> "MULTICAST" \in told.links[e.ix])

\* A consumer's account of the events.
Recorded(e) ==
    CASE e.type = "NewLink" ->
            [told EXCEPT !.links = [l \in DOMAIN @ \cup {e.ix} |->
                                       IF l = e.ix THEN e.flags ELSE @[l]],
                         !.wavers = IF Wavers(e) THEN @ \cup {e.ix} ELSE @]
      [] e.type = "DelLink" ->
            [told EXCEPT !.links = [l \in DOMAIN @ \ {e.ix} |-> @[l]]]
      [] e.type = "NewAddr" ->
            [told EXCEPT !.addrs = @ \cup {e.addr},
                         !.early = IF e.ix \in DOMAIN told.links THEN @ ELSE @ \cup {e.addr}]
      [] OTHER -> [told EXCEPT !.addrs = @ \ {e.addr}]

\* ssdp.on_network_event(&event)
Deliver(e) == told' = Recorded(e) /\ on_network_event(e)

KernelChanges == KernelNext /\ UNCHANGED <<stream, list, vars, source, told>>

CreateStream ==
    /\ source = "stream" /\ Create
    /\ UNCHANGED <<list, vars, source, told>>

\* netif.next().await: "if let Some(Ok(event)) = e".
PollStream ==
    /\ \/ StartPoll /\ UNCHANGED <<vars, told>>
       \/ /\ polling # <<>>
          /\ LET s == Head(polling) IN
             \/ Skip(s) /\ UNCHANGED <<vars, told>>
             \/ PollPending(s) /\ UNCHANGED <<vars, told>>
             \/ /\ YieldError(s)
                /\ told' = [told EXCEPT !.lossy = TRUE] /\ UNCHANGED vars
             \/ /\ buffer[s] # <<>>
                /\ \E e \in Translated(s, Head(buffer[s])) : YieldEvent(s, e) /\ Deliver(e)
    /\ UNCHANGED <<list, source>>

\* "for netif in interfaces": errors are ignored.
ReadList ==
    /\ source = "list"
    /\ \/ (getifaddrs \/ ListEntry \/ ListEnds) /\ UNCHANGED <<vars, told>>
       \/ NextListed /\ Deliver(Head(msgs))
    /\ UNCHANGED <<kernel, sockets, stream, source>>

Advertise == Application /\ UNCHANGED <<kernel, sockets, stream, list, source, told>>

FeedNext == KernelChanges \/ CreateStream \/ PollStream \/ ReadList \/ Advertise

\* The stream is made and polled for ever; select! is fair.
FeedSpec ==
    /\ FeedInit /\ [][FeedNext]_feedVars
    /\ WF_feedVars(CreateStream) /\ WF_feedVars(PollStream) /\ WF_feedVars(ReadList)
-----------------------------------------------------------------------------
Lossy == told.lossy \/ overrun # {}

\* Every message has been received: the consumer has been told all there is.
Drained == Created /\ \A s \in Sockets : buffer[s] = <<>>

UpAddrs == {a \in Inet \cap addrs : {"MULTICAST", "UP", "RUNNING"} \subseteq links[IfaceOf[a]]}

(***************************************************************************)
(* A stream of events that has caught up tells the truth: exactly the      *)
(* interfaces there are, with their flags, and exactly the addresses,      *)
(* although the table was read while it changed, and every socket tells    *)
(* its part in its own time.                                               *)
(***************************************************************************)
ToldTheTruth ==
    Drained /\ ~Lossy =>
       /\ told.links = [l \in DOMAIN links |-> map_flags(links[l])]
       /\ told.addrs = addrs

(***************************************************************************)
(* A list of the interfaces tells the truth, if nothing changed meanwhile, *)
(* and names every interface before its addresses: "In all cases, the      *)
(* NewLink event describing an interface, will be produced before that     *)
(* interface's NewAddr event or events" (get_interfaces).                  *)
(***************************************************************************)
ListsInOrder ==
    source = "list" =>
       /\ told.early = {}
       /\ listing = "after" /\ msgs = <<>> /\ changes = 0 =>
             /\ told.links = [l \in DOMAIN links |-> map_flags(links[l])]
             /\ told.addrs = addrs

(***************************************************************************)
(* The same sentence in the documentation of get_interfaces_async.         *)
(***************************************************************************)
LinksComeFirst == source = "stream" => told.early = {}

\* The addresses of interfaces that have always been able to do multicast, or never.
Steady == {a \in Inet : IfaceOf[a] \notin told.wavers}

(***************************************************************************)
(* When the engine has been told of everything, it uses no address that is *)
(* gone.  Of the interfaces whose MULTICAST flag did not change, it uses   *)
(* no address unless the interface can do multicast and is up; and if      *)
(* every interface was announced before its addresses it uses all of       *)
(* those, and peers reached from them know what is advertised, if no       *)
(* packet was lost.                                                        *)
(***************************************************************************)
PeersFollowKernel ==
    Drained /\ ~Lossy =>
       /\ UpIps(interfaces) \subseteq addrs
       /\ UpIps(interfaces) \cap Steady \subseteq UpAddrs
       /\ told.early = {} => UpAddrs \cap Steady \subseteq UpIps(interfaces)
       /\ told.early = {} /\ losses = 0 =>
             \A a \in UpAddrs \cap Steady, u \in DOMAIN advertisements :
                heard[a][u] = Meant(u, a)

(***************************************************************************)
(* The same of every interface.  It does not hold: on_new_link_event turns *)
(* away an event without MULTICAST, so that an interface which loses the   *)
(* flag stays in use, and one which gains it is new to the engine, who was *)
(* told of its addresses before and ignored them.                          *)
(***************************************************************************)
FollowsEveryFlag ==
    Drained /\ ~Lossy /\ told.early = {} => UpIps(interfaces) = UpAddrs

(***************************************************************************)
(* Once the kernel's table has settled, the stream catches up with it:     *)
(* none of the three sockets is starved by the other two, or by messages   *)
(* that mean nothing.                                                      *)
(***************************************************************************)
CatchesUp == source = "stream" => <>[]Drained
=============================================================================
