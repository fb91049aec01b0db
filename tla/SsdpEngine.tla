----------------------------- MODULE SsdpEngine -----------------------------
(***************************************************************************)
(* cotton-ssdp/src/engine.rs: the SSDP engine, which announces resources   *)
(* and searches for them on every network interface, and answers searches. *)
(* Interfaces and their addresses come and go; the application advertises, *)
(* withdraws and subscribes; searches arrive and are answered later, on a  *)
(* timer.  Each call runs to its end before the next one.                  *)
(*                                                                         *)
(* Instants are relative to the present (see RefreshTimer).  The variables *)
(* heard, asked and owed are the network's: what the peers that each       *)
(* address reaches know of the engine from the packets it has sent.        *)
(***************************************************************************)
EXTENDS RefreshTimer, Messages, FiniteSets

CONSTANTS
    Links, Ips,         \* interfaces, and IPv4 addresses
    LinkOf,             \* the interface that each address may be added to
    Usns, Types, All,   \* service names, notification types, and "ssdp:all"
    SearchTypes,        \* what the application subscribes to
    Locations,          \* URLs: records with a scheme flag, a host and the size of the rest
    UsnSize, TypeSize,  \* the sizes of a service name and of a type, in bytes
    Searchers, MaxWaits,            \* the peers that search, and their MX values
    Via,                            \* our addresses on the links that each is on
    SECOND, MAX_DELAY, MIN_DELAY,   \* 1000, 5000 and 10ms
    MaxLate,            \* how late handle_timeout is called
    MaxLosses           \* bound on the number of packets that are lost

ASSUME EngineAssumption ==
    /\ LinkOf \in [Ips -> Links]
    /\ Via \in [Searchers -> SUBSET Ips]
    /\ All \notin Types
    /\ \A t \in Types : DOMAIN t = {"base", "version"} /\ t.version \in Int
    /\ SearchTypes \subseteq Types \cup {All}
    /\ Locations \subseteq [scheme : BOOLEAN, host : STRING, rest : Nat]
    /\ MaxWaits \subseteq Nat
    /\ SECOND \in Nat /\ MAX_DELAY \in Nat \ {0} /\ MIN_DELAY \in Nat
    /\ MaxLate \in Nat /\ MaxLosses \in Nat
    /\ UsnSize \in Nat /\ TypeSize \in Nat

VARIABLES
    interfaces,         \* function from the known interfaces to their state
    groups,             \* the interfaces on which the socket is in the multicast group
    active_searches,    \* the types subscribed to
    advertisements,     \* function from the service names advertised
    panicked,           \* has a call ended in a panic?
    heard, asked, owed, losses

network == <<heard, asked, owed, losses>>
timer == <<next_salvo, phase>>
engine == <<interfaces, groups, active_searches, advertisements, panicked>>
vars == <<engine, timer, network>>

NoAdvert == [type |-> All]
\* Of a resource that was announced: it was withdrawn while our address was not
\* in use, and the peers still believe in it.
Outdated == [type |-> All, location |-> "outdated"]
None == [kind |-> "none"]
Multicast(at) == [kind |-> "multicast", at |-> at]
Unicast(at, from, to, type) ==
    [kind |-> "unicast", at |-> at, from |-> from, to |-> to, type |-> type]

\* "type:2" answers a search for "type:1"; a version that is no number (here
\* -1) is only equal to itself.
target_match(search, candidate) ==
    \/ search = All
    \/ search = candidate
    \/ /\ candidate # All
       /\ search.base = candidate.base
       /\ search.version >= 0
       /\ candidate.version >= search.version

rewrite_host(url, ip) == IF url.scheme THEN [url EXCEPT !.host = ip] ELSE url

\* The addresses in use: those of the interfaces that are up.
UpIps(ifs) == UNION {ifs[l].ips : l \in {k \in DOMAIN ifs : ifs[k].up}}
-----------------------------------------------------------------------------
(* The packets, as they are received.  Each is sent from one address.      *)

TypeText(t) == Text(t, IF t = All THEN 8 ELSE TypeSize)
UsnText(u) == Text(u, UsnSize)
\* An IPv4 address takes up to 15 bytes, "http://" takes 7.
UrlText(url) == Text(url, url.rest + (IF url.scheme THEN 7 + 15 ELSE 0))

\* The URLs in packets, and what a receiver makes of each packet.
Urls == {rewrite_host(url, ip) : url \in Locations, ip \in Ips}
Parsed ==
    [notify |-> [t \in Types |-> [u \in Usns |-> [url \in Urls |->
                    parse(build_notify(TypeText(t), UsnText(u), UrlText(url)))]]],
     byebye |-> [t \in Types |-> [u \in Usns |->
                    parse(build_byebye(TypeText(t), UsnText(u)))]],
     response |-> [t \in Types |-> [u \in Usns |-> [url \in Urls |->
                    parse(build_response(TypeText(t), UsnText(u), UrlText(url)))]]],
     search |-> [t \in Types \cup {All} |-> parse(build_search(TypeText(t)))]]

\* socket.send_with: a packet leaves from a given address.
From(ip, packet) == [ip |-> ip, packet |-> packet]

Notify(u, adv, ip) == From(ip, Parsed.notify[adv.type][u][rewrite_host(adv.location, ip)])
NotifyOn(u, adv, ips) == {Notify(u, adv, ip) : ip \in ips}
ByeByeOn(u, type, ips) == {From(ip, Parsed.byebye[type][u]) : ip \in ips}
SearchOn(t, ips) == {From(ip, Parsed.search[t]) : ip \in ips}
Response(u, adv, r) ==
    [ip |-> r.to, to |-> r.from,
     packet |-> Parsed.response[r.type][u][rewrite_host(adv.location, r.to)]]

\* If anybody is searching for everything, nothing else is searched for.
SearchAll(ips) ==
    UNION {SearchOn(t, ips) :
              t \in IF All \in active_searches THEN {All} ELSE active_searches}
NotifyAll(ips) ==
    UNION {NotifyOn(u, advertisements[u], ips) : u \in DOMAIN advertisements}

\* Mutant of send_all: only the announcements are sent.
send_all_notifies(ips) == NotifyAll(ips)

send_all(ips) == SearchAll(ips) \cup NotifyAll(ips)

(* The sockets: udp/std.rs.                                                *)

\* A packet leaves from the address it is given, if that is (still) ours to
\* use; if not, sendmsg fails and the engine takes no notice.
send_from(msgs, ips) == {m \in msgs : m.ip \in ips}

\* recvmsg tells who sent a packet, and on which of our addresses it came in:
\* a peer that shares several links with us is heard on each.  (If it does not
\* tell, the packet is gone and InvalidData is returned: see SyncService.)
receive_to(peer) == {[wasfrom |-> peer, rxon |-> ip] : ip \in Via[peer]}

\* Joining fails where the socket is a member already.  Leaving may fail.
join_multicast_group(l) == l \notin groups /\ groups' = groups \cup {l}
leave_multicast_group(l) == groups' \in {groups, groups \ {l}}
-----------------------------------------------------------------------------
\* The packets of a kind that come from an address; those about a resource;
\* and what the notifications among them say.
OfKind(kind, msgs, ip) == {m \in msgs : m.packet.kind = kind /\ m.ip = ip}
About(kind, msgs, ip, u) == {m \in OfKind(kind, msgs, ip) : m.packet.usn = u}
Said(msgs) ==
    LET m == CHOOSE m \in msgs : TRUE
    IN  [type |-> m.packet.type, location |-> m.packet.location]

(***************************************************************************)
(* The network, when the packets got come through and the engine is left   *)
(* with interfaces ifs and advertisements advs.  Peers remember what they  *)
(* were told when our address goes out of use; what is withdrawn meanwhile *)
(* they do not hear of.  (That they forget it when it reaches its max-age  *)
(* is left out.)  What they were asked counts while the address is in use. *)
(* A search that was received (newly, in this step) is owed an answer      *)
(* until a response or an announcement reaches the searcher, or the        *)
(* resource or the address it came in on is gone.  It should come by the   *)
(* end of the searcher's MX; an answer that was pending already is not     *)
(* brought forward, and the searcher may have to wait for the longest.     *)
(***************************************************************************)
Received(got, ifs, advs, newly) ==
    /\ heard' = [ip \in Ips |-> [u \in Usns |->
          IF About("byebye", got, ip, u) # {} THEN NoAdvert
          ELSE IF About("alive", got, ip, u) # {} THEN Said(About("alive", got, ip, u))
          ELSE IF /\ ip \notin UpIps(ifs) /\ u \notin DOMAIN advs
                  /\ heard[ip][u] # NoAdvert THEN Outdated
          ELSE heard[ip][u]]]
    /\ asked' = [ip \in Ips |->
          IF ip \notin UpIps(ifs) THEN {}
          ELSE asked[ip] \cup {m.packet.type : m \in OfKind("search", got, ip)}]
    /\ owed' = {o \in owed \cup newly :
          /\ o.to \in UpIps(ifs) /\ o.usn \in DOMAIN advs
          /\ \A ip \in Via[o.from] :
                /\ About("alive", got, ip, o.usn) = {}
                /\ \A m \in About("response", got, ip, o.usn) : m.to # o.from}

\* The engine sends msgs, of which some may be lost.
Send(msgs, ifs, advs, newly) ==
    \E out \in {send_from(msgs, UpIps(ifs))} :
    \E lost \in {S \in SUBSET out : IsFiniteSet(S) /\ losses + Cardinality(S) <= MaxLosses} :
    \E got \in {out \ lost} :
       losses' = losses + Cardinality(lost) /\ Received(got, ifs, advs, newly)

Quietly(ifs) == Send({}, ifs, advertisements, {})
-----------------------------------------------------------------------------
(* Network events.                                                         *)

\* Mutant of on_new_link_event: nothing is sent on an interface that comes up.
on_new_link_event_quietly(l, flags) ==
    /\ "MULTICAST" \in flags
    /\ LET up == {"UP", "RUNNING"} \subseteq flags IN
       \/ /\ l \in DOMAIN interfaces
          /\ interfaces' = [interfaces EXCEPT ![l].up = up]
          /\ Quietly(interfaces')
          /\ UNCHANGED groups
       \/ /\ l \notin DOMAIN interfaces
          /\ join_multicast_group(l)
          /\ interfaces' = [k \in DOMAIN interfaces \cup {l} |->
                              IF k = l THEN [ips |-> {}, up |-> up] ELSE interfaces[k]]
          /\ Quietly(interfaces')
    /\ UNCHANGED <<active_searches, advertisements, panicked, timer>>

\* An interface without the MULTICAST flag is ignored.  A new one is entered
\* only once its multicast group has been joined; if that fails nothing changes.
on_new_link_event(l, flags) ==
    /\ "MULTICAST" \in flags
    /\ LET up == {"UP", "RUNNING"} \subseteq flags IN
       \/ /\ l \in DOMAIN interfaces
          /\ interfaces' = [interfaces EXCEPT ![l].up = up]
          /\ Send(IF up /\ ~interfaces[l].up THEN send_all(interfaces[l].ips) ELSE {},
                  interfaces', advertisements, {})
          /\ UNCHANGED groups
       \/ /\ l \notin DOMAIN interfaces
          /\ join_multicast_group(l)
          /\ interfaces' = [k \in DOMAIN interfaces \cup {l} |->
                              IF k = l THEN [ips |-> {}, up |-> up] ELSE interfaces[k]]
          /\ Quietly(interfaces')
    /\ UNCHANGED <<active_searches, advertisements, panicked, timer>>

\* Mutant of on_del_link_event: the group is left first, and an error returned early.
on_del_link_event_early(l) ==
    /\ l \in DOMAIN interfaces
    /\ groups' = groups \ {l}
    /\ interfaces' = interfaces
    /\ Quietly(interfaces')
    /\ UNCHANGED <<active_searches, advertisements, panicked, timer>>

\* The interface is forgotten even if leaving its group fails.
on_del_link_event(l) ==
    /\ l \in DOMAIN interfaces
    /\ leave_multicast_group(l)
    /\ interfaces' = [k \in DOMAIN interfaces \ {l} |-> interfaces[k]]
    /\ Quietly(interfaces')
    /\ UNCHANGED <<active_searches, advertisements, panicked, timer>>

on_new_addr_event(l, ip) ==
    /\ l \in DOMAIN interfaces
    /\ ip \notin interfaces[l].ips
    /\ interfaces' = [interfaces EXCEPT ![l].ips = @ \cup {ip}]
    /\ Send(IF interfaces[l].up THEN send_all({ip}) ELSE {}, interfaces', advertisements, {})
    /\ UNCHANGED <<groups, active_searches, advertisements, panicked, timer>>

on_del_addr_event(l, ip) ==
    /\ l \in DOMAIN interfaces
    /\ ip \in interfaces[l].ips
    /\ interfaces' = [interfaces EXCEPT ![l].ips = @ \ {ip}]
    /\ Quietly(interfaces')
    /\ UNCHANGED <<groups, active_searches, advertisements, panicked, timer>>

\* Without effect: an interface that cannot do multicast, or cannot be joined;
\* one that is not known; an IPv6 address, or one that is known or unknown already.
Ignored(e) ==
    LET ips == interfaces[e.ix].ips IN
    \/ /\ e.type = "NewLink"
       /\ "MULTICAST" \notin e.flags \/ e.ix \in groups \ DOMAIN interfaces
    \/ e.type # "NewLink" /\ e.ix \notin DOMAIN interfaces
    \/ e.type = "NewAddr" /\ (e.addr \notin Ips \/ e.addr \in ips)
    \/ e.type = "DelAddr" /\ e.addr \notin ips

\* An event from cotton-netif.
on_network_event(e) ==
    IF Ignored(e) THEN UNCHANGED vars
    ELSE \/ e.type = "NewLink" /\ on_new_link_event(e.ix, e.flags)
         \/ e.type = "DelLink" /\ on_del_link_event(e.ix)
         \/ e.type = "NewAddr" /\ on_new_addr_event(e.ix, e.addr)
         \/ e.type = "DelAddr" /\ on_del_addr_event(e.ix, e.addr)
-----------------------------------------------------------------------------
(* Calls from the application.                                             *)

subscribe(t) ==
    /\ active_searches' = active_searches \cup {t}
    /\ Send(SearchOn(t, UpIps(interfaces)), interfaces, advertisements, {})
    /\ UNCHANGED <<interfaces, groups, advertisements, panicked, timer>>

\* A resource that is advertised again loses the answer that was pending.
advertise(u, type, location) ==
    /\ advertisements' =
          [v \in DOMAIN advertisements \cup {u} |->
              IF v = u THEN [type |-> type, location |-> location, response |-> None]
              ELSE advertisements[v]]
    /\ Send(NotifyOn(u, advertisements'[u], UpIps(interfaces)), interfaces, advertisements', {})
    /\ UNCHANGED <<interfaces, groups, active_searches, panicked, timer>>

\* Mutant of deadvertise: the resource is dropped without a word.
deadvertise_silently(u) ==
    /\ u \in DOMAIN advertisements
    /\ advertisements' = [v \in DOMAIN advertisements \ {u} |-> advertisements[v]]
    /\ Send({}, interfaces, advertisements', {})
    /\ UNCHANGED <<interfaces, groups, active_searches, panicked, timer>>

deadvertise(u) ==
    /\ u \in DOMAIN advertisements
    /\ advertisements' = [v \in DOMAIN advertisements \ {u} |-> advertisements[v]]
    /\ Send(ByeByeOn(u, advertisements[u].type, UpIps(interfaces)), interfaces,
            advertisements', {})
    /\ UNCHANGED <<interfaces, groups, active_searches, panicked, timer>>

reset_refresh_timer ==
    /\ reset
    /\ UNCHANGED <<engine, network>>
-----------------------------------------------------------------------------
(* A search arrives; the answer is put off.                                *)

MaxDelay(mx) == IF mx * SECOND > MAX_DELAY THEN MAX_DELAY ELSE mx * SECOND

Delay(mx) == (random_seed % MaxDelay(mx)) + MIN_DELAY

\* Mutant of Rescheduled: a second searcher takes the place of the first.
RescheduledLast(r, at, from, to, type) == Unicast(at, from, to, type)

Pending == {u \in DOMAIN advertisements : advertisements[u].response.kind # "none"}

\* What becomes of a pending answer: two searchers are answered by multicast.
Rescheduled(r, at, from, to, type) ==
    IF r.kind = "none" THEN Unicast(at, from, to, type)
    ELSE IF r.kind = "unicast" /\ r.from # from THEN Multicast(r.at)
    ELSE r

\* on_data, for an M-SEARCH with MX mx.  (0 has no remainder: a panic.)
on_search(from, to, type, mx) ==
    IF mx * SECOND = 0
    THEN panicked' = TRUE /\ UNCHANGED <<interfaces, groups, active_searches, advertisements,
                                         timer, network>>
    ELSE LET matched == {u \in DOMAIN advertisements :
                            target_match(type, advertisements[u].type)}
             answer(u) == IF type = All THEN advertisements[u].type ELSE type
         IN  /\ advertisements' =
                   [u \in DOMAIN advertisements |->
                       IF u \in matched
                       THEN [advertisements[u] EXCEPT
                               !.response = Rescheduled(@, Delay(mx), from, to, answer(u))]
                       ELSE advertisements[u]]
             /\ Send({}, interfaces, advertisements,
                     {[from |-> from, to |-> to, usn |-> u, type |-> type,
                       by |-> MIN_DELAY + (IF u \in Pending THEN MAX_DELAY ELSE MaxDelay(mx))] :
                         u \in {v \in matched : \A o \in owed :
                                   <<o.from, o.to, o.usn, o.type>> # <<from, to, v, type>>}})
             /\ UNCHANGED <<interfaces, groups, active_searches, panicked, timer>>
-----------------------------------------------------------------------------
(* Time.                                                                   *)

Due == {u \in Pending : advertisements[u].response.at <= 0}

\* Mutant of Deadlines: answers that are to be multicast are not looked at.
DeadlinesOfUnicasts ==
    {next_salvo} \cup {advertisements[u].response.at :
                          u \in {v \in Pending : advertisements[v].response.kind = "unicast"}}

Deadlines == {next_salvo} \cup {advertisements[u].response.at : u \in Pending}

poll_timeout == CHOOSE t \in Deadlines : \A s \in Deadlines : t <= s

\* refresh: everything is announced and searched for again.
Refresh == NotifyAll(UpIps(interfaces)) \cup SearchAll(UpIps(interfaces))

Answer(u) ==
    LET adv == advertisements[u] IN
    IF adv.response.kind = "multicast" THEN NotifyOn(u, adv, UpIps(interfaces))
    ELSE {Response(u, adv, adv.response)}

\* Mutant of Refreshed: the searches are repeated, the announcements are not.
RefreshedSearches == IF next_salvo <= 0 THEN SearchAll(UpIps(interfaces)) ELSE {}

Refreshed == IF next_salvo <= 0 THEN Refresh ELSE {}

handle_timeout ==
    /\ next_salvo <= 0 \/ Due # {}
    /\ IF next_salvo <= 0 THEN update_refresh ELSE UNCHANGED timer
    /\ advertisements' = [u \in DOMAIN advertisements |->
                             IF u \in Due THEN [advertisements[u] EXCEPT !.response = None]
                             ELSE advertisements[u]]
    /\ Send(Refreshed \cup UNION {Answer(u) : u \in Due}, interfaces, advertisements, {})
    /\ UNCHANGED <<interfaces, groups, active_searches, panicked>>

\* A unit of time passes.
Elapse ==
    /\ next_salvo' = next_salvo - 1
    /\ advertisements' = [u \in DOMAIN advertisements |->
                             IF u \in Pending
                             THEN [advertisements[u] EXCEPT !.response.at = @ - 1]
                             ELSE advertisements[u]]
    /\ owed' = {[o EXCEPT !.by = @ - 1] : o \in owed}
    /\ UNCHANGED <<interfaces, groups, active_searches, panicked, phase, heard, asked, losses>>

\* The owner calls handle_timeout at most MaxLate late.
Tick == poll_timeout > -MaxLate /\ Elapse
-----------------------------------------------------------------------------
Empty == [x \in {} |-> x]

\* A new engine that has been told of the interfaces ifs.
InitWith(ifs) ==
    /\ interfaces = ifs /\ groups = DOMAIN ifs
    /\ active_searches = {} /\ advertisements = Empty
    /\ panicked = FALSE
    /\ new
    /\ heard = [ip \in Ips |-> [u \in Usns |-> NoAdvert]]
    /\ asked = [ip \in Ips |-> {}]
    /\ owed = {} /\ losses = 0

Init == InitWith(Empty)

\* Events in any order.  The flags of an interface may change in any way.
NetworkEvents ==
    [type : {"NewLink"}, ix : Links,
     flags : {{"UP", "RUNNING"}, {"MULTICAST", "UP"}, {"MULTICAST", "UP", "RUNNING"}}]
    \cup [type : {"DelLink"}, ix : Links]
    \cup {[type |-> t, ix |-> LinkOf[ip], addr |-> ip] : t \in {"NewAddr", "DelAddr"}, ip \in Ips}

NetworkEvent == \E e \in NetworkEvents : on_network_event(e)

Application ==
    \/ \E t \in SearchTypes : subscribe(t)
    \/ \E u \in Usns : deadvertise(u) \/ \E t \in Types, url \in Locations : advertise(u, t, url)

\* Packets come in on the addresses in use.
Datagram ==
    \E from \in Searchers, t \in Types \cup {All}, mx \in MaxWaits :
       \E p \in receive_to(from) :
          p.rxon \in UpIps(interfaces) /\ on_search(p.wasfrom, p.rxon, t, mx)

Next ==
    /\ ~panicked
    /\ NetworkEvent \/ Application \/ Datagram \/ reset_refresh_timer \/ handle_timeout \/ Tick

Spec == Init /\ [][Next]_vars

\* The owner calls handle_timeout when poll_timeout says so, and time goes on.
FairSpec == Spec /\ WF_vars(~panicked /\ handle_timeout) /\ WF_vars(~panicked /\ Tick)
-----------------------------------------------------------------------------
Responses ==
    [kind : {"none"}] \cup [kind : {"multicast"}, at : Int]
    \cup [kind : {"unicast"}, at : Int, from : Searchers, to : Ips, type : Types]

TypeOK ==
    /\ interfaces \in [DOMAIN interfaces -> [ips : SUBSET Ips, up : BOOLEAN]]
    /\ DOMAIN interfaces \subseteq Links
    /\ active_searches \subseteq SearchTypes
    /\ advertisements \in [DOMAIN advertisements ->
                              [type : Types, location : Locations, response : Responses]]
    /\ DOMAIN advertisements \subseteq Usns
    /\ next_salvo \in Int /\ phase \in 0 .. 3
    /\ owed \subseteq [from : Searchers, to : Ips, usn : Usns, type : Types \cup {All}, by : Int]
    /\ losses \in Nat

\* What the peers reached from ip should know of a resource that is advertised.
Meant(u, ip) == [type |-> advertisements[u].type,
                 location |-> rewrite_host(advertisements[u].location, ip)]

(***************************************************************************)
(* Every peer that the engine can reach knows what is advertised, with its *)
(* latest type and location, and believes in nothing else, except perhaps  *)
(* in what was withdrawn while our address was not in use: whatever        *)
(* interleaving of interfaces, addresses, advertisements and withdrawals   *)
(* led here, and however closely the messages fill their buffer, if no     *)
(* packet was lost.                                                        *)
(***************************************************************************)
AnnouncedEverywhere ==
    losses = 0 => \A ip \in UpIps(interfaces), u \in Usns :
       IF u \in DOMAIN advertisements THEN heard[ip][u] = Meant(u, ip)
       ELSE heard[ip][u] \in {NoAdvert, Outdated}

(***************************************************************************)
(* "Withdraw an advertisement for a local resource" (deadvertise): without *)
(* the exception.  It does not hold, since deadvertise says good-bye only  *)
(* from the addresses in use, and send_all does not say it later.          *)
(***************************************************************************)
WithdrawnEverywhere ==
    losses = 0 => \A ip \in UpIps(interfaces), u \in Usns \ DOMAIN advertisements :
       heard[ip][u] = NoAdvert

(***************************************************************************)
(* On every address that is in use, everything subscribed to has been      *)
(* searched for, or everything has, since the address came into use (if no *)
(* packet was lost).                                                       *)
(***************************************************************************)
SearchedEverywhere ==
    losses = 0 => \A ip \in UpIps(interfaces) :
       All \in asked[ip] \/ active_searches \subseteq asked[ip]

(***************************************************************************)
(* An interface is never listed without membership of the multicast group, *)
(* on which searches and announcements arrive, although joining and        *)
(* leaving may fail.                                                       *)
(***************************************************************************)
ListedAreJoined == DOMAIN interfaces \subseteq groups

(***************************************************************************)
(* No searcher is forgotten: until it has had an answer, one is scheduled  *)
(* that will reach it, even if other searchers, a new location or an       *)
(* interface that goes down and up again come in between (if no packet was *)
(* lost).                                                                  *)
(***************************************************************************)
NoSearchForgotten ==
    losses = 0 => \A o \in owed :
       LET r == advertisements[o.usn].response IN
       r.kind = "multicast" \/ (r.kind = "unicast" /\ r.from = o.from)

(***************************************************************************)
(* "start responding to any searches matching it" (advertise): the answer  *)
(* that a searcher is going to get is one that matches what it asked for.  *)
(***************************************************************************)
AnswersMatch ==
    \A o \in owed :
       LET r == advertisements[o.usn].response IN
       r.kind = "unicast" => target_match(o.type, r.type)

(***************************************************************************)
(* A panic "would indicate a bug in cotton-ssdp" (AsyncService).           *)
(***************************************************************************)
NeverPanics == ~panicked

(***************************************************************************)
(* Every search for something that is advertised is answered in time, give *)
(* or take how late the owner is, unless the resource or the way to the    *)
(* searcher goes away, or a packet is lost: within its MX, or, when the    *)
(* answer is one that was pending already, within the longest delay.       *)
(***************************************************************************)
AnsweredInTime == losses = 0 => \A o \in owed : o.by >= -MaxLate

(***************************************************************************)
(* However packets are lost, a reachable peer learns of a resource in the  *)
(* end: the refresh repeats every announcement.                            *)
(***************************************************************************)
Uninformed(ip, u) ==
    /\ ip \in UpIps(interfaces) /\ u \in DOMAIN advertisements
    /\ heard[ip][u] # Meant(u, ip)
AnnouncedInTheEnd == \A ip \in Ips, u \in Usns : Uninformed(ip, u) ~> ~Uninformed(ip, u)
=============================================================================
