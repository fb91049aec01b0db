------------------------------- MODULE Kernel -------------------------------
(***************************************************************************)
(* The part of Linux that cotton-netif talks to: the table of interfaces   *)
(* and addresses, and the rtnetlink sockets, which receive a message for   *)
(* every change of the table once they have joined its multicast group,    *)
(* and a dump of the table when they ask for one.  A socket's buffer is    *)
(* finite: a change that finds it full is dropped, and the next recv       *)
(* returns an error (ENOBUFS).                                             *)
(***************************************************************************)
EXTENDS Integers, Sequences, FiniteSets, SequencesExt

CONSTANTS
    Indexes,        \* the interfaces
    Inet, Inet6,    \* the addresses, by family
    IfaceOf,        \* the interface that each address may be added to
    FlagSets,       \* the IFF_ flags that an interface may have
    BufferLimit,    \* messages that fit in a socket's buffer
    MaxChanges      \* bound on the number of changes

ASSUME KernelAssumption ==
    /\ Inet \cap Inet6 = {}
    /\ IsFiniteSet(Indexes) /\ IsFiniteSet(Inet) /\ IsFiniteSet(Inet6)
    /\ IfaceOf \in [Inet \cup Inet6 -> Indexes]
    /\ BufferLimit \in Nat /\ MaxChanges \in Nat

VARIABLES
    links,          \* function from the interfaces that exist to their flags
    addrs,          \* the addresses in use
    retired,        \* the interfaces that have gone: an index is not used again
    changes,        \* the number of changes so far
    groups_joined,  \* the sockets that are in their multicast group
    buffer,         \* the messages in each socket's buffer
    overrun         \* the sockets that have an ENOBUFS to report

kernel == <<links, addrs, retired, changes>>
sockets == <<groups_joined, buffer, overrun>>

Sockets == {"link", "addr4", "addr6"}

Newlink(l, flags) == [type |-> "Newlink", index |-> l, flags |-> flags]
Dellink(l) == [type |-> "Dellink", index |-> l]
Newaddr(a) == [type |-> "Newaddr", index |-> IfaceOf[a], addr |-> a]
Deladdr(a) == [type |-> "Deladdr", index |-> IfaceOf[a], addr |-> a]
Done == [type |-> "Done"]       \* the end of a dump

Of(family) == IF family = "addr4" THEN Inet ELSE Inet6

KernelInit ==
    /\ \E up \in SUBSET Indexes : links \in [up -> FlagSets]
    /\ addrs \in SUBSET {a \in Inet \cup Inet6 : IfaceOf[a] \in DOMAIN links}
    /\ retired = {} /\ changes = 0
    /\ groups_joined = {} /\ overrun = {}
    /\ buffer = [s \in Sockets |-> <<>>]
-----------------------------------------------------------------------------
(* A change of the table, and the messages about it for each socket.       *)

\* The socket that a message is for, and all the messages of a change with one.
GroupOf(m) ==
    IF m.type \in {"Newlink", "Dellink"} THEN "link"
    ELSE IF m.addr \in Inet THEN "addr4" ELSE "addr6"
Only(m) == [s \in Sockets |-> IF s = GroupOf(m) THEN <<m>> ELSE <<>>]

Room(s) == IF Len(buffer[s]) < BufferLimit THEN BufferLimit - Len(buffer[s]) ELSE 0

Change(news) ==
    LET for(s) == IF s \in groups_joined THEN news[s] ELSE <<>>
        fits(s) == Len(for(s)) <= Room(s)
    IN  /\ changes < MaxChanges
        /\ changes' = changes + 1
        /\ buffer' = [s \in Sockets |->
              buffer[s] \o (IF fits(s) THEN for(s) ELSE SubSeq(for(s), 1, Room(s)))]
        /\ overrun' = overrun \cup {s \in Sockets : ~fits(s)}
        /\ UNCHANGED groups_joined

AddLink(l, flags) ==
    /\ l \notin DOMAIN links \cup retired
    /\ links' = [k \in DOMAIN links \cup {l} |-> IF k = l THEN flags ELSE links[k]]
    /\ Change(Only(Newlink(l, flags)))
    /\ UNCHANGED <<addrs, retired>>

SetFlags(l, flags) ==
    /\ l \in DOMAIN links /\ flags # links[l]
    /\ links' = [links EXCEPT ![l] = flags]
    /\ Change(Only(Newlink(l, flags)))
    /\ UNCHANGED <<addrs, retired>>

\* Its addresses go with it.
RemoveLink(l) ==
    /\ l \in DOMAIN links
    /\ LET its == {a \in addrs : IfaceOf[a] = l} IN
       /\ links' = [k \in DOMAIN links \ {l} |-> links[k]]
       /\ addrs' = addrs \ its
       /\ Change([s \in Sockets |-> IF s = "link" THEN <<Dellink(l)>>
                                    ELSE SetToSeq({Deladdr(a) : a \in its \cap Of(s)})])
    /\ retired' = retired \cup {l}

AddAddr(a) ==
    /\ IfaceOf[a] \in DOMAIN links /\ a \notin addrs
    /\ addrs' = addrs \cup {a}
    /\ Change(Only(Newaddr(a)))
    /\ UNCHANGED <<links, retired>>

RemoveAddr(a) ==
    /\ a \in addrs
    /\ addrs' = addrs \ {a}
    /\ Change(Only(Deladdr(a)))
    /\ UNCHANGED <<links, retired>>

KernelNext ==
    \/ \E l \in Indexes :
          RemoveLink(l) \/ \E flags \in FlagSets : AddLink(l, flags) \/ SetFlags(l, flags)
    \/ \E a \in Inet \cup Inet6 : AddAddr(a) \/ RemoveAddr(a)
-----------------------------------------------------------------------------
(* System calls on a netlink socket.                                       *)

Join(s) ==
    /\ groups_joined' = groups_joined \cup {s}
    /\ UNCHANGED <<kernel, buffer, overrun>>

\* Getlink or Getaddr with a dump flag: the table as it is now, in any order.
Dump(s) ==
    /\ LET entries == IF s = "link" THEN {Newlink(l, links[l]) : l \in DOMAIN links}
                      ELSE {Newaddr(a) : a \in addrs \cap Of(s)}
       IN  \E table \in SetToSeqs(entries) :
              buffer' = [buffer EXCEPT ![s] = @ \o Append(table, Done)]
    /\ UNCHANGED <<kernel, groups_joined, overrun>>

RecvError(s) ==
    /\ s \in overrun
    /\ overrun' = overrun \ {s}
    /\ UNCHANGED <<kernel, groups_joined, buffer>>

RecvMessage(s) ==
    /\ s \notin overrun /\ buffer[s] # <<>>
    /\ buffer' = [buffer EXCEPT ![s] = Tail(@)]
    /\ UNCHANGED <<kernel, groups_joined, overrun>>

RecvBlocks(s) ==
    /\ s \notin overrun /\ buffer[s] = <<>>
    /\ UNCHANGED <<kernel, sockets>>
=============================================================================
