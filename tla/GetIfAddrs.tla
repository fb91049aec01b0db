----------------------------- MODULE GetIfAddrs -----------------------------
(***************************************************************************)
(* cotton-netif/src/getifaddrs.rs: get_interfaces lists the interfaces and *)
(* addresses there are as a sequence of NewLink and NewAddr events.  The   *)
(* list comes from one system call; the index of each entry's interface    *)
(* from another one, by name, when the interface may be gone.              *)
(***************************************************************************)
EXTENDS Netlink

CONSTANT Aliases    \* the addresses whose entries are named like "eth0:1"

VARIABLES
    listing,    \* "before", "during" or "after" the call of get_interfaces
    ifaddrs,    \* the entries still to be looked at
    indexes,    \* the interfaces met so far
    msgs        \* the events so far

list == <<listing, ifaddrs, indexes, msgs>>

GetIfAddrsInit == listing = "before" /\ ifaddrs = <<>> /\ indexes = {} /\ msgs = <<>>

\* An entry for each interface, with no IP address, and one for each address.
Name(l, alias) == [prefix |-> l, alias |-> alias]
Entries ==
    {[name |-> Name(l, FALSE), flags |-> links[l], ip |-> {}] : l \in DOMAIN links}
    \cup {[name |-> Name(IfaceOf[a], a \in Aliases), flags |-> links[IfaceOf[a]], ip |-> {a}] :
             a \in addrs}

\* nix::ifaddrs::getifaddrs: systems differ in the order.
getifaddrs ==
    /\ listing = "before"
    /\ \E order \in SetToSeqs(Entries) : ifaddrs' = order
    /\ listing' = "during"
    /\ UNCHANGED <<indexes, msgs>>

\* nix::net::if_::if_nametoindex, of a name without its alias.
nametoindex(name) == {l \in DOMAIN links : l = name.prefix /\ ~name.alias}

\* "eth0:1" is "eth0" really.
Unaliased(name) == [name EXCEPT !.alias = FALSE]

map_interface_flags(flags) == map_flags(flags)

\* Mutant of EventsOf: the address is only looked at in a new interface's entry.
EventsOf_FirstOnly(entry, ix) ==
    IF ix \in indexes THEN <<>>
    ELSE <<NewLink(ix, map_interface_flags(entry.flags))>>
         \o SetToSeq({NewAddr(ix, a) : a \in entry.ip})

\* NewLink for an interface not met before; NewAddr for an entry with an address.
EventsOf(entry, ix) ==
    (IF ix \in indexes THEN <<>> ELSE <<NewLink(ix, map_interface_flags(entry.flags))>>)
    \o SetToSeq({NewAddr(ix, a) : a \in entry.ip})

\* get_interfaces_inner2's loop.  An entry whose name has no index is skipped.
ListEntry ==
    /\ listing = "during" /\ ifaddrs # <<>>
    /\ LET entry == Head(ifaddrs)
           found == nametoindex(Unaliased(entry.name))
       IN  /\ indexes' = indexes \cup found
           /\ msgs' = IF found = {} THEN msgs
                      ELSE msgs \o EventsOf(entry, CHOOSE ix \in found : TRUE)
    /\ ifaddrs' = Tail(ifaddrs)
    /\ UNCHANGED listing

ListEnds ==
    /\ listing = "during" /\ ifaddrs = <<>>
    /\ listing' = "after"
    /\ UNCHANGED <<ifaddrs, indexes, msgs>>

\* The caller takes the next event from the iterator.
NextListed ==
    /\ listing = "after" /\ msgs # <<>>
    /\ msgs' = Tail(msgs)
    /\ UNCHANGED <<listing, ifaddrs, indexes>>
=============================================================================
