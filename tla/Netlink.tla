------------------------------ MODULE Netlink -------------------------------
(***************************************************************************)
(* cotton-netif/src/linux_netlink.rs: get_interfaces_async opens three     *)
(* netlink sockets, for interfaces and for IPv4 and IPv6 addresses, and    *)
(* merges what they receive into one stream of events with two nested      *)
(* stream::select, each of which polls its two streams alternately.        *)
(*                                                                         *)
(* A datagram may hold several messages; they are yielded one by one and   *)
(* nothing else is received meanwhile, so the model lets each message be   *)
(* received by itself.  An error when a socket is made is returned and     *)
(* there is no stream.                                                     *)
(***************************************************************************)
EXTENDS Kernel

VARIABLES
    setup,      \* system calls made so far: connect and send, for each socket
    polling,    \* the sockets that this call of poll_next has still to poll
    turn,       \* the outer select's next first stream: "links" or "addrs"
    inner_turn  \* the inner select's: "addr4" or "addr6"

stream == <<setup, polling, turn, inner_turn>>

Other(x, x1, x2) == IF x = x1 THEN x2 ELSE x1

NetlinkInit ==
    /\ setup = 0 /\ polling = <<>>
    /\ turn = "links" /\ inner_turn = "addr4"
-----------------------------------------------------------------------------
(* create_link_socket, create_ipv4addr_socket, create_ipv6addr_socket      *)

Creation == <<"link", "addr4", "addr6">>
Created == setup = 2 * Len(Creation)

\* Mutant of Create: the table is asked for before the group is joined.
Create_DumpsFirst ==
    /\ ~Created
    /\ LET s == Creation[setup \div 2 + 1] IN IF setup % 2 = 0 THEN Dump(s) ELSE Join(s)
    /\ setup' = setup + 1
    /\ UNCHANGED <<polling, turn, inner_turn>>

\* handle_fn connects the socket to its group; send_fn asks for the table.
Create ==
    /\ ~Created
    /\ LET s == Creation[setup \div 2 + 1] IN IF setup % 2 = 0 THEN Join(s) ELSE Dump(s)
    /\ setup' = setup + 1
    /\ UNCHANGED <<polling, turn, inner_turn>>
-----------------------------------------------------------------------------
(* What a message means.                                                   *)

Known == {"UP", "RUNNING", "LOOPBACK", "POINTTOPOINT", "BROADCAST", "MULTICAST"}
map_flags(flags) == flags \cap Known

NewLink(l, flags) == [type |-> "NewLink", ix |-> l, flags |-> flags]
DelLink(l) == [type |-> "DelLink", ix |-> l]
NewAddr(l, a) == [type |-> "NewAddr", ix |-> l, addr |-> a]
DelAddr(l, a) == [type |-> "DelAddr", ix |-> l, addr |-> a]

\* The events, none or one, that a message stands for.
translate_link_message(m) ==
    IF m.type = "Newlink" THEN {NewLink(m.index, map_flags(m.flags))}
    ELSE IF m.type = "Dellink" THEN {DelLink(m.index)} ELSE {}

translate_addr_message(m) ==
    IF m.type = "Newaddr" THEN {NewAddr(m.index, m.addr)}
    ELSE IF m.type = "Deladdr" THEN {DelAddr(m.index, m.addr)} ELSE {}

Translated(s, m) ==
    IF s = "link" THEN translate_link_message(m) ELSE translate_addr_message(m)
-----------------------------------------------------------------------------
(* poll_next of the merged stream.                                         *)

Inner == <<inner_turn, Other(inner_turn, "addr4", "addr6")>>

\* The outer select polls one stream, and the other if that one is pending.
StartPoll ==
    /\ Created /\ polling = <<>>
    /\ polling' = IF turn = "links" THEN <<"link">> \o Inner ELSE Inner \o <<"link">>
    /\ turn' = Other(turn, "links", "addrs")
    /\ UNCHANGED <<setup, inner_turn, kernel, sockets>>

\* The inner select changes its turn when it is polled, that is, when the first
\* of its two streams is.
Turned(s) ==
    inner_turn' = IF s # "link" /\ Contains(Tail(polling), Other(s, "addr4", "addr6"))
                  THEN Other(s, "addr4", "addr6") ELSE inner_turn

\* Mutant of Skip: a message that means nothing (the end of the dump) ends the
\* loop, and with it this socket's part of the stream.
Skip_EndsStream(s) ==
    /\ s \notin overrun /\ buffer[s] # <<>>
    /\ Translated(s, Head(buffer[s])) = {}
    /\ polling' = Tail(polling) /\ Turned(s)
    /\ UNCHANGED <<setup, turn, kernel, sockets>>

\* get_links or get_addrs: the messages that mean nothing are skipped ...
Skip(s) ==
    /\ RecvMessage(s)
    /\ Translated(s, Head(buffer[s])) = {}
    /\ UNCHANGED stream

\* ... the first that means something is yielded ...
YieldEvent(s, e) ==
    /\ RecvMessage(s)
    /\ e \in Translated(s, Head(buffer[s]))
    /\ polling' = <<>> /\ Turned(s)
    /\ UNCHANGED <<setup, turn>>

\* ... and so is an error, after which the loop goes on.
YieldError(s) ==
    /\ RecvError(s)
    /\ polling' = <<>> /\ Turned(s)
    /\ UNCHANGED <<setup, turn>>

PollPending(s) ==
    /\ RecvBlocks(s)
    /\ polling' = Tail(polling) /\ Turned(s)
    /\ UNCHANGED <<setup, turn>>
=============================================================================
