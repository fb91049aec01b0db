---------------------------- MODULE SyncService -----------------------------
(***************************************************************************)
(* cotton-ssdp/src/service.rs: an SSDP engine for a program with one       *)
(* thread, and the polling loop around it that the documentation of        *)
(* Service prescribes.  mio reports that a socket is readable when a       *)
(* packet arrives, and not again until another one does: a handler that    *)
(* leaves packets behind leaves them there.                                *)
(*                                                                         *)
(* The interfaces are those found by Service::new (see NetworkFeed); a     *)
(* Service never hears of others.                                          *)
(***************************************************************************)
EXTENDS SsdpEngine, Sequences, SequencesExt

CONSTANTS
    InboxLimit,     \* the number of packets that fit in each socket's buffer
    OddOn           \* the sockets to which odd packets come

VARIABLES
    at,         \* the loop: "top", "poll", "woken", "events", or "none" without one
    timeout,    \* the time left of poll.poll
    inbox,      \* the packets in each socket's buffer
    edges,      \* the sockets with an arrival that was not reported yet
    events,     \* the tokens that poll has returned and the loop has still to handle
    cut         \* the sockets whose handler gave up before they were empty, with no
                \* arrival since

loopVars == <<at, timeout, inbox, edges, events, cut>>

SERVICE_SOCKETS == {"multicast", "search"}

\* An odd packet, without IP_PKTINFO or without an IPv4 sender: receive_to takes
\* it and returns InvalidData.
Odd == [kind |-> "odd"]

\* A search, by multicast; or an answer to one of ours, which changes nothing.
Packets(s) ==
    (IF s \in OddOn THEN {Odd} ELSE {}) \cup
    IF s = "search" THEN {[kind |-> "response"]}
    ELSE {[kind |-> "search", from |-> p, type |-> t, mx |-> mx] :
             p \in Searchers, t \in Types, mx \in MaxWaits}

LoopInit ==
    /\ timeout = 0
    /\ inbox = [s \in SERVICE_SOCKETS |-> <<>>] /\ edges = {} /\ events = <<>> /\ cut = {}

\* Service::new: the engine, told of the interfaces that were listed.
ServiceNew ==
    /\ at = "top"
    /\ InitWith([l \in Links |-> [ips |-> {ip \in Ips : LinkOf[ip] = l}, up |-> TRUE]])

Draining(s) == at = "events" /\ events # <<>> /\ Head(events) = s

\* The loop empties a socket faster than the network fills it: what arrives
\* while it is at it arrives at an empty buffer.
Arrive(s, packet) ==
    /\ at # "none"
    /\ Draining(s) => inbox[s] = <<>>
    /\ Len(inbox[s]) < InboxLimit[s]
    /\ inbox' = [inbox EXCEPT ![s] = Append(@, packet)]
    /\ edges' = edges \cup {s} /\ cut' = cut \ {s}
    /\ UNCHANGED <<vars, at, timeout, events>>
-----------------------------------------------------------------------------
\* poll_timeout() - Instant::now(), which saturates.
next_wakeup == IF poll_timeout < 0 THEN 0 ELSE poll_timeout

\* poll.poll(&mut events, Some(ssdp.next_wakeup()))
Poll ==
    /\ at = "top"
    /\ at' = "poll" /\ timeout' = next_wakeup
    /\ UNCHANGED <<vars, inbox, edges, events, cut>>

PollReturns ==
    /\ at = "poll" /\ (edges # {} \/ timeout = 0)
    /\ \E order \in SetToSeqs(edges) : events' = order
    /\ edges' = {}
    /\ at' = "woken"
    /\ UNCHANGED <<vars, timeout, inbox, cut>>

\* Mutant of wakeup: only when poll has nothing else to report.
wakeup_WhenIdle ==
    /\ at = "woken"
    /\ IF next_wakeup = 0 /\ events = <<>> THEN handle_timeout ELSE UNCHANGED vars
    /\ at' = "events"
    /\ UNCHANGED <<timeout, inbox, edges, events, cut>>

wakeup ==
    /\ at = "woken"
    /\ IF next_wakeup = 0 THEN handle_timeout ELSE UNCHANGED vars
    /\ at' = "events"
    /\ UNCHANGED <<timeout, inbox, edges, events, cut>>

\* The engine's part of a packet.
OnData(packet) ==
    IF packet.kind = "search"
    THEN \E p \in receive_to(packet.from) : on_search(p.wasfrom, p.rxon, packet.type, packet.mx)
    ELSE UNCHANGED vars

\* Mutant of Ready: one packet is received for each event.
Ready_Once(s) ==
    /\ Draining(s)
    /\ inbox[s] # <<>> /\ Head(inbox[s]) # Odd
    /\ OnData(Head(inbox[s]))
    /\ inbox' = [inbox EXCEPT ![s] = Tail(@)]
    /\ events' = Tail(events)
    /\ UNCHANGED <<at, timeout, edges, cut>>

\* multicast_ready or search_ready: packets are received ...
Ready(s) ==
    /\ Draining(s)
    /\ inbox[s] # <<>> /\ Head(inbox[s]) # Odd
    /\ OnData(Head(inbox[s]))
    /\ inbox' = [inbox EXCEPT ![s] = Tail(@)]
    /\ UNCHANGED <<at, timeout, edges, events, cut>>

\* ... until receive_to returns an error: there are no more ...
ReadyEnds(s) ==
    /\ Draining(s)
    /\ inbox[s] = <<>>
    /\ events' = Tail(events)
    /\ UNCHANGED <<vars, at, timeout, inbox, edges, cut>>

\* ... or this one was odd, and "while let Ok" leaves the others where they are.
ReadyFails(s) ==
    /\ Draining(s)
    /\ inbox[s] # <<>> /\ Head(inbox[s]) = Odd
    /\ inbox' = [inbox EXCEPT ![s] = Tail(@)]
    /\ cut' = IF inbox'[s] = <<>> THEN cut ELSE cut \cup {s}
    /\ events' = Tail(events)
    /\ UNCHANGED <<vars, at, timeout, edges>>

\* The application's own events: it may use the service.
LoopApplication ==
    /\ at = "events" /\ events = <<>>
    /\ Application
    /\ UNCHANGED loopVars

LoopAgain ==
    /\ at = "events" /\ events = <<>>
    /\ at' = "top"
    /\ UNCHANGED <<vars, timeout, inbox, edges, events, cut>>

\* Time passes while the program polls, and for MaxLate after that.
LoopTick ==
    /\ at = "poll"
    /\ timeout > 0 \/ poll_timeout > -MaxLate
    /\ Elapse
    /\ timeout' = IF timeout > 0 THEN timeout - 1 ELSE 0
    /\ UNCHANGED <<at, inbox, edges, events, cut>>

LoopStep ==
    \/ Poll \/ PollReturns \/ wakeup \/ LoopAgain
    \/ \E s \in SERVICE_SOCKETS : Ready(s) \/ ReadyFails(s)
RunsDry == \E s \in SERVICE_SOCKETS : ReadyEnds(s)

LoopNext ==
    \/ LoopStep \/ RunsDry \/ LoopApplication \/ LoopTick
    \/ \E s \in SERVICE_SOCKETS : \E p \in Packets(s) : Arrive(s, p)
-----------------------------------------------------------------------------
(***************************************************************************)
(* No packet is stranded: a socket with packets in its buffer has an event *)
(* that the loop will handle, or that the next poll will report, whenever  *)
(* they arrived; unless receive_to failed in front of them, in which case  *)
(* they have to wait for another to arrive.                                *)
(***************************************************************************)
NotStranded ==
    \A s \in SERVICE_SOCKETS :
       inbox[s] # <<>> => s \in edges \/ Contains(events, s) \/ s \in cut

(***************************************************************************)
(* The same without the exception: "Handler to be called when multicast    *)
(* socket is readable" (multicast_ready), once for each event.  It does    *)
(* not hold, since any error ends the handler's loop.                      *)
(***************************************************************************)
NoneLeftBehind ==
    \A s \in SERVICE_SOCKETS : inbox[s] # <<>> => s \in edges \/ Contains(events, s)
=============================================================================
