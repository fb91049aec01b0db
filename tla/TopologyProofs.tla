--------------------------- MODULE TopologyProofs ---------------------------
(***************************************************************************)
(* The address table's invariants, for every table size that fits the      *)
(* four-bit encoding; and that device_disconnect, loop by loop, implements *)
(* the one-step operation of module Topology.                              *)
(***************************************************************************)
EXTENDS DisconnectLoop, TLAPS

(***************************************************************************)
(* The packing of hub and port into a byte loses neither: this is where    *)
(* the limits of 16 hubs and 16 ports come from.                           *)
(***************************************************************************)
LEMMA EntryCodec ==
    ASSUME NEW hub \in Nat, NEW port \in Nat, InRange(hub, port)
    PROVE  /\ Entry(hub, port) \in Byte
           /\ HubOf(Entry(hub, port)) = hub
           /\ PortOf(Entry(hub, port)) = port
           /\ \A e \in Byte : HubOf(e) = hub /\ PortOf(e) = port => e = Entry(hub, port)
BY LimitsAssumption DEF InRange, Entry, HubOf, PortOf, Byte

(***************************************************************************)
(* The inductive invariant: no conjunct stands alone.  NoOrphans says that *)
(* nothing hangs off a free address, which is why allotting one cannot     *)
(* close a ring (RootedAtRoot) or adopt another hub's devices.             *)
(***************************************************************************)
Inv == TypeOK /\ OneAddressPerPort /\ ZeroNeverAllotted /\ NoOrphans /\ RootedAtRoot

\* The table is empty at first.
LEMMA InitInv == Init => Inv
<1> SUFFICES ASSUME Init PROVE Inv
  OBVIOUS
<1>1. Present = {}
  BY DEF Init, Present, PresentIn
<1>2. TypeOK
  BY DEF Init, TypeOK, Byte
<1>3. ZeroNeverAllotted
  BY <1>1 DEF Init, ZeroNeverAllotted
<1> QED BY <1>1, <1>2, <1>3
        DEF Inv, OneAddressPerPort, NoOrphans, RootedAtRoot

(***************************************************************************)
(* Adding a device at a free address, below the root or a present device,  *)
(* keeps the invariant.                                                    *)
(***************************************************************************)
LEMMA AddInv ==
    ASSUME Inv, NEW hub \in Nat, NEW port \in Nat, InRange(hub, port),
           <<hub, port>> # <<0, 0>>, hub \in {0} \cup Present,
           Occupied(hub, port) = {},
           NEW a \in Addr, a # 0, a \notin Present,
           parent' = [parent EXCEPT ![a] = Entry(hub, port)],
           address' = {a}, gone' = gone
    PROVE  Inv'
<1> USE DEF Inv
<1>1. /\ Entry(hub, port) \in Byte
      /\ HubOf(Entry(hub, port)) = hub
  BY EntryCodec
<1>2. Entry(hub, port) > 0
  BY DEF Entry
<1>3. Present' = Present \cup {a} /\ parent'[a] = Entry(hub, port)
      /\ \A b \in Present : parent'[b] = parent[b]
  BY <1>1, <1>2 DEF Present, PresentIn, TypeOK, Addr, Byte
<1>4. TypeOK'
  BY <1>1 DEF TypeOK
<1>5. OneAddressPerPort'
  BY <1>3 DEF OneAddressPerPort, Occupied, Present, PresentIn
<1>6. ZeroNeverAllotted'
  BY <1>3 DEF ZeroNeverAllotted
<1>7. NoOrphans'
  BY <1>1, <1>3 DEF NoOrphans
<1>8. RootedAtRoot'
  <2> SUFFICES ASSUME NEW S \in SUBSET Present', S # {},
                      \A b \in S : HubOf(parent'[b]) \in S
               PROVE  FALSE
    BY DEF RootedAtRoot
  <2>1. CASE a \notin S
    BY <2>1, <1>3 DEF RootedAtRoot
  <2>2. CASE a \in S
    <3>1. hub \in S /\ hub # a
      BY <2>2, <1>1, <1>3 DEF ZeroNeverAllotted
    <3>2. \A b \in S \ {a} : HubOf(parent[b]) \in S \ {a}
      BY <1>3 DEF NoOrphans
    <3>3. S \ {a} \in SUBSET Present /\ S \ {a} # {}
      BY <3>1, <1>3
    <3> QED BY <3>2, <3>3 DEF RootedAtRoot
  <2> QED BY <2>1, <2>2
<1> QED BY <1>4, <1>5, <1>6, <1>7, <1>8

\* device_connect keeps the invariant.
LEMMA ConnectInv ==
    ASSUME Inv, NEW hub, NEW port, <<hub, port>> \in Attachments,
           NEW is_hub \in BOOLEAN, device_connect(hub, port, is_hub)
    PROVE  Inv'
<1>1. hub \in Nat /\ port \in Nat /\ <<hub, port>> # <<0, 0>> /\ hub \in {0} \cup Present
  BY LimitsAssumption DEF Attachments, Present, PresentIn, Addr
<1>2. CASE UNCHANGED parent /\ address' = {} /\ UNCHANGED gone
  BY <1>2 DEF Inv, TypeOK, OneAddressPerPort, ZeroNeverAllotted, NoOrphans,
              RootedAtRoot, Present, PresentIn
<1>3. ASSUME InRange(hub, port), NEW a \in Occupied(hub, port),
             UNCHANGED parent, address' = {a}, UNCHANGED gone
      PROVE  Inv'
  <2>1. Entry(hub, port) > 0
    BY <1>1 DEF Entry
  <2>2. a \in Present
    BY <2>1, <1>3 DEF Occupied, Present, PresentIn
  <2> QED BY <1>3, <2>2 DEF Inv, TypeOK, OneAddressPerPort, ZeroNeverAllotted, NoOrphans,
              RootedAtRoot, Present, PresentIn
<1>4. ASSUME InRange(hub, port), Occupied(hub, port) = {},
             NEW a \in Addr, FreeAddress(a, is_hub),
             parent' = [parent EXCEPT ![a] = Entry(hub, port)],
             address' = {a}, UNCHANGED gone
      PROVE  Inv'
  <2>1. a # 0 /\ a \notin Present
    BY <1>4, LimitsAssumption DEF FreeAddress
  <2> QED BY <1>1, <1>4, <2>1, AddInv
<1> QED BY <1>2, <1>3, <1>4 DEF device_connect

(***************************************************************************)
(* What device_disconnect removes is downstream-closed, so what it keeps   *)
(* still has its hubs.                                                     *)
(***************************************************************************)
LEMMA DownstreamClosed ==
    ASSUME NEW t \in [Addr -> Byte], NEW hub \in Nat, NEW port \in Nat,
           NEW a \in PresentIn(t), HubOf(t[a]) \in Downstream(t, hub, port)
    PROVE  a \in Downstream(t, hub, port)
BY DEF Downstream, Closed

\* device_disconnect keeps the invariant.
LEMMA DisconnectInv ==
    ASSUME Inv, NEW hub, NEW port, <<hub, port>> \in Attachments,
           device_disconnect(hub, port)
    PROVE  Inv'
<1>1. hub \in Nat /\ port \in Nat
  BY LimitsAssumption DEF Attachments, Present, PresentIn, Addr
<1>2. CASE ~InRange(hub, port)
  BY <1>2 DEF device_disconnect, Inv, TypeOK, OneAddressPerPort, ZeroNeverAllotted,
              NoOrphans, RootedAtRoot, Present, PresentIn
<1>3. CASE InRange(hub, port)
  <2> DEFINE D == Downstream(parent, hub, port)
  <2>1. /\ gone' = D /\ UNCHANGED address
        /\ parent' = [a \in Addr |-> IF a \in D THEN 0 ELSE parent[a]]
    BY <1>3 DEF device_disconnect, Removed
  <2>2. D \subseteq Present
    BY DEF Downstream, Present
  <2>3. \A a \in Present : HubOf(parent[a]) \in D => a \in D
    BY <1>1, DownstreamClosed DEF Inv, TypeOK, Present
  <2> HIDE DEF D
  <2>4. Present' = Present \ D /\ \A a \in Present' : parent'[a] = parent[a]
    BY <2>1 DEF Present, PresentIn
  <2>5. TypeOK'
    BY <2>1, <2>2 DEF Inv, TypeOK, Present, PresentIn, Byte
  <2>6. OneAddressPerPort' /\ ZeroNeverAllotted'
    BY <2>1, <2>2, <2>4 DEF Inv, OneAddressPerPort, ZeroNeverAllotted
  <2>7. NoOrphans'
    BY <2>3, <2>4 DEF Inv, NoOrphans
  <2>8. RootedAtRoot'
    <3> SUFFICES ASSUME NEW S \in SUBSET Present', S # {}
                 PROVE  \E a \in S : HubOf(parent'[a]) \notin S
      BY DEF RootedAtRoot
    <3> QED BY <2>4 DEF Inv, RootedAtRoot
  <2> QED BY <2>5, <2>6, <2>7, <2>8 DEF Inv
<1> QED BY <1>2, <1>3

\* Every operation keeps the invariant.
LEMMA NextInv == Inv /\ [Next]_vars => Inv'
<1> SUFFICES ASSUME Inv, [Next]_vars PROVE Inv'
  OBVIOUS
<1>1. CASE Next
  <2>1. PICK where \in Attachments :
            \/ \E is_hub \in BOOLEAN : device_connect(where[1], where[2], is_hub)
            \/ device_disconnect(where[1], where[2])
    BY <1>1 DEF Next
  <2>2. <<where[1], where[2]>> \in Attachments
    BY DEF Attachments
  <2> QED BY <2>1, <2>2, ConnectInv, DisconnectInv
<1>2. CASE UNCHANGED vars
  BY <1>2 DEF vars, Inv, TypeOK, OneAddressPerPort, ZeroNeverAllotted, NoOrphans,
              RootedAtRoot, Present, PresentIn
<1> QED BY <1>1, <1>2

(***************************************************************************)
(* Every state of the address table satisfies the inductive invariant.     *)
(***************************************************************************)
THEOREM Invariance == Spec => []Inv
<1> QED BY InitInv, NextInv, PTL DEF Spec

(***************************************************************************)
(* The table never keeps a device whose hub has gone (device_disconnect    *)
(* removes whole subtrees, device_connect only attaches to what is there). *)
(***************************************************************************)
THEOREM OrphanFreedom == Spec => []NoOrphans
<1>1. Inv => NoOrphans
  BY DEF Inv
<1> QED BY <1>1, Invariance, PTL

(***************************************************************************)
(* The devices in the table always form a tree that hangs off the root.    *)
(***************************************************************************)
THEOREM TreeShape == Spec => []RootedAtRoot
<1>1. Inv => RootedAtRoot
  BY DEF Inv
<1> QED BY <1>1, Invariance, PTL

(***************************************************************************)
(* One port, one address: device_connect on a port that is already in the  *)
(* table never allots a second address to it.                              *)
(***************************************************************************)
THEOREM PortUniqueness == Spec => []OneAddressPerPort
<1>1. Inv => OneAddressPerPort
  BY DEF Inv
<1> QED BY <1>1, Invariance, PTL

(***************************************************************************)
(* device_connect never moves or frees an address that is in use; only     *)
(* device_disconnect frees one, and it reports every address it frees.     *)
(***************************************************************************)
THEOREM AddressStability == Spec => AddressesAreStable
<1>1. Inv /\ [Next]_vars =>
        [\A a \in Present : parent'[a] # parent[a] => parent'[a] = 0 /\ a \in gone']_vars
  <2> SUFFICES ASSUME Inv, Next, NEW a \in Present, parent'[a] # parent[a]
               PROVE  parent'[a] = 0 /\ a \in gone'
    OBVIOUS
  <2>1. PICK where \in Attachments :
            \/ \E is_hub \in BOOLEAN : device_connect(where[1], where[2], is_hub)
            \/ device_disconnect(where[1], where[2])
    BY DEF Next
  <2>2. ASSUME NEW is_hub \in BOOLEAN, device_connect(where[1], where[2], is_hub)
        PROVE  FALSE
    BY <2>2, LimitsAssumption DEF device_connect, FreeAddress, Inv, TypeOK, Present, PresentIn
  <2>3. CASE device_disconnect(where[1], where[2])
    BY <2>3 DEF device_disconnect, Present, PresentIn
  <2> QED BY <2>1, <2>2, <2>3
<1> QED BY <1>1, Invariance, PTL DEF Spec, AddressesAreStable
-----------------------------------------------------------------------------
(* device_disconnect, loop by loop (module DisconnectLoop).                *)

LoopInv == LoopTypeOK /\ CondemnedExactly

\* No call is under way at first.
LEMMA LoopInitInv == LoopInit => LoopInv
BY LimitsAssumption
   DEF LoopInit, Init, LoopInv, LoopTypeOK, CondemnedExactly, Byte, Addr

\* The arguments are numbers.
LEMMA AttachmentTypes ==
    ASSUME NEW where \in Attachments
    PROVE  /\ where[1] \in Nat /\ where[2] \in Nat
           /\ where[1] \in {0} \cup Present
           /\ <<where[1], where[2]>> # <<0, 0>>
BY LimitsAssumption DEF Attachments, Present, PresentIn, Addr

\* device_connect, between calls of device_disconnect.
LEMMA ConnectLoopInv == LoopInv /\ Connect => LoopInv'
<1> SUFFICES ASSUME LoopInv, Connect PROVE LoopInv'
  OBVIOUS
<1>1. PICK where \in Attachments, is_hub \in BOOLEAN :
          device_connect(where[1], where[2], is_hub)
  BY DEF Connect
<1>2. pc = "idle" /\ UNCHANGED <<pc, locals>>
  BY DEF Connect
<1>3. InRange(where[1], where[2]) => Entry(where[1], where[2]) \in Byte
  BY AttachmentTypes, EntryCodec
<1>4. parent' \in [Addr -> Byte] /\ address' \in SUBSET Addr /\ gone' = gone
  BY <1>1, <1>3 DEF device_connect, Occupied, LoopInv, LoopTypeOK
<1> QED BY <1>2, <1>4 DEF LoopInv, LoopTypeOK, CondemnedExactly, locals

\* device_disconnect is called.
LEMMA CallLoopInv == LoopInv /\ Call => LoopInv'
<1> SUFFICES ASSUME LoopInv, Call PROVE LoopInv'
  OBVIOUS
<1>1. PICK where \in Attachments :
          IF InRange(where[1], where[2])
          THEN /\ pc' = "pass"
               /\ parent_hub' = where[1] /\ parent_port' = where[2]
               /\ bitset' = {} /\ old_bitset' = {} /\ i' = 0
               /\ parent0' = parent
               /\ UNCHANGED gone
          ELSE /\ gone' = {}
               /\ UNCHANGED <<pc, locals>>
  BY DEF Call
<1>2. pc = "idle" /\ UNCHANGED <<parent, address>>
  BY DEF Call
<1>3. CASE ~InRange(where[1], where[2])
  BY <1>1, <1>2, <1>3 DEF LoopInv, LoopTypeOK, CondemnedExactly, locals
<1>4. CASE InRange(where[1], where[2])
  <2>1. LoopTypeOK'
    BY <1>1, <1>2, <1>4, AttachmentTypes, LimitsAssumption DEF LoopInv, LoopTypeOK
  <2>2. parent' = [a \in Addr |-> IF a \in bitset' THEN 0 ELSE parent0'[a]]
    BY <1>1, <1>2, <1>4 DEF LoopInv, LoopTypeOK
  <2>3. \A a \in PresentIn(parent0') : ~(a < i')
    BY <1>1, <1>4, LimitsAssumption DEF PresentIn, Addr
  <2>4. InRange(parent_hub', parent_port') /\ <<parent_hub', parent_port'>> # <<0, 0>>
        /\ parent_hub' \in {0} \cup PresentIn(parent0')
    BY <1>1, <1>4, AttachmentTypes DEF Present
  <2> QED BY <1>1, <1>4, <2>1, <2>2, <2>3, <2>4 DEF LoopInv, CondemnedExactly, InRange
<1> QED BY <1>3, <1>4

\* The inner loop looks at one address.
LEMMA VisitLoopInv == LoopInv /\ Visit => LoopInv'
<1> SUFFICES ASSUME LoopInv, Visit PROVE LoopInv'
  OBVIOUS
<1> DEFINE hit == parent[i] # 0 /\ Condemned(parent[i])
<1>1. /\ pc = "pass" /\ i \in Nat /\ i < MAX_DEVICES /\ i \in Addr /\ i' = i + 1
      /\ UNCHANGED <<address, gone, pc, parent_hub, parent_port, old_bitset, parent0>>
  BY LimitsAssumption DEF Visit, LoopInv, LoopTypeOK, Addr
<1>2. IF hit
      THEN bitset' = bitset \cup {i} /\ parent' = [parent EXCEPT ![i] = 0]
      ELSE UNCHANGED <<bitset, parent>>
  BY DEF Visit
<1>3. /\ InRange(parent_hub, parent_port)
      /\ old_bitset \subseteq bitset
      /\ bitset \subseteq PresentIn(parent0)
      /\ parent = [a \in Addr |-> IF a \in bitset THEN 0 ELSE parent0[a]]
  BY <1>1 DEF LoopInv, CondemnedExactly
<1>4. LoopTypeOK'
  <2>1. parent' \in [Addr -> Byte] /\ bitset' \in SUBSET Addr
    <3>1. parent \in [Addr -> Byte] /\ bitset \in SUBSET Addr /\ 0 \in Byte
      BY DEF LoopInv, LoopTypeOK, Byte
    <3>2. CASE hit
      <4>1. bitset' = bitset \cup {i} /\ parent' = [parent EXCEPT ![i] = 0]
        BY <1>2, <3>2
      <4>2. parent' \in [Addr -> Byte]
        BY <3>1, <4>1
      <4>3. bitset' \in SUBSET Addr
        BY <1>1, <3>1, <4>1
      <4> QED BY <4>2, <4>3
    <3>3. CASE ~hit
      BY <1>2, <3>1, <3>3
    <3> QED BY <3>2, <3>3
  <2>2. i' \in 0 .. MAX_DEVICES
    BY <1>1, LimitsAssumption
  <2> QED BY <1>1, <2>1, <2>2 DEF LoopInv, LoopTypeOK
\* An entry that is still in the table is the one the call found, and the
\* test on its hub and port is the test on the entry.
<1>5. parent[i] # 0 =>
        /\ parent[i] = parent0[i] /\ i \in PresentIn(parent0) /\ i \notin bitset
        /\ Condemned(parent[i]) <=>
              \/ parent0[i] = Entry(parent_hub, parent_port)
              \/ HubOf(parent0[i]) \in bitset
  <2> SUFFICES ASSUME parent[i] # 0
               PROVE  /\ parent[i] = parent0[i] /\ i \in PresentIn(parent0) /\ i \notin bitset
                      /\ Condemned(parent[i]) <=>
                            \/ parent0[i] = Entry(parent_hub, parent_port)
                            \/ HubOf(parent0[i]) \in bitset
    OBVIOUS
  <2>1. parent[i] = parent0[i] /\ i \notin bitset /\ parent0[i] \in Byte
    BY <1>1, <1>3 DEF LoopInv, LoopTypeOK
  <2>2. i \in PresentIn(parent0)
    BY <1>1, <2>1 DEF PresentIn, Byte
  <2>3. parent_hub \in Nat /\ parent_port \in Nat
    BY DEF LoopInv, LoopTypeOK
  <2>4. HubOf(parent0[i]) = parent_hub /\ PortOf(parent0[i]) = parent_port
        <=> parent0[i] = Entry(parent_hub, parent_port)
    BY <1>3, <2>1, <2>3, EntryCodec
  <2> QED BY <2>1, <2>2, <2>4 DEF Condemned
<1>6. bitset' \subseteq PresentIn(parent0)' /\ old_bitset' \subseteq bitset'
      /\ bitset \subseteq bitset'
  BY <1>1, <1>2, <1>3, <1>5
<1>7. parent' = [a \in Addr |-> IF a \in bitset' THEN 0 ELSE parent0'[a]]
  BY <1>1, <1>2, <1>3 DEF LoopInv, LoopTypeOK
<1>8. ASSUME NEW D \in SUBSET Addr, Closed(parent0, parent_hub, parent_port, D)
      PROVE  bitset' \subseteq D
  <2>1. bitset \subseteq D
    BY <1>1, <1>8 DEF LoopInv, CondemnedExactly
  <2>2. CASE hit
    <3>1. i \in D
      BY <1>5, <1>8, <2>1, <2>2 DEF Closed
    <3> QED BY <1>2, <2>1, <2>2, <3>1
  <2>3. CASE ~hit
    BY <1>2, <2>1, <2>3
  <2> QED BY <2>2, <2>3
<1>9. ASSUME NEW a \in PresentIn(parent0), a < i + 1,
             \/ parent0[a] = Entry(parent_hub, parent_port)
             \/ HubOf(parent0[a]) \in old_bitset
      PROVE  a \in bitset'
  <2>1. CASE a < i
    BY <1>1, <1>6, <1>9, <2>1 DEF LoopInv, CondemnedExactly
  <2>2. CASE a = i
    <3>1. CASE parent[i] = 0
      BY <1>1, <1>3, <1>6, <1>9, <2>2, <3>1 DEF PresentIn
    <3>2. CASE parent[i] # 0
      BY <1>2, <1>3, <1>5, <1>9, <2>2, <3>2
    <3> QED BY <3>1, <3>2
  <2> QED BY <1>1, <1>9, <2>1, <2>2 DEF PresentIn, Addr
<1>10. CondemnedExactly'
  <2>1. \A D \in SUBSET Addr :
            Closed(parent0', parent_hub', parent_port', D) => bitset' \subseteq D
    BY <1>1, <1>8
  <2>2. \A a \in PresentIn(parent0') :
            /\ a < i'
            /\ \/ parent0'[a] = Entry(parent_hub', parent_port')
               \/ HubOf(parent0'[a]) \in old_bitset'
            => a \in bitset'
    BY <1>1, <1>9
  <2>3. /\ InRange(parent_hub', parent_port')
        /\ <<parent_hub', parent_port'>> # <<0, 0>>
        /\ parent_hub' \in {0} \cup PresentIn(parent0')
    BY <1>1 DEF LoopInv, CondemnedExactly
  <2> QED BY <1>1, <1>6, <1>7, <2>1, <2>2, <2>3 DEF CondemnedExactly
<1> QED BY <1>4, <1>10 DEF LoopInv

\* The inner loop has looked at all of them.
LEMMA EndPassLoopInv == LoopInv /\ EndPass => LoopInv'
<1> SUFFICES ASSUME LoopInv, EndPass PROVE LoopInv'
  OBVIOUS
<1>1. CASE PassEnds
  <2>1. /\ UNCHANGED <<parent, address>> /\ pc' = "idle" /\ gone' = bitset
        /\ parent_hub' = 0 /\ parent_port' = 0 /\ bitset' = {} /\ old_bitset' = {}
        /\ i' = 0 /\ parent0' = [a \in Addr |-> 0]
    BY <1>1 DEF EndPass
  <2>2. parent0' \in [Addr -> Byte] /\ i' \in 0 .. MAX_DEVICES
    BY <2>1, LimitsAssumption DEF Byte
  <2> QED BY <2>1, <2>2 DEF LoopInv, LoopTypeOK, CondemnedExactly
<1>2. CASE ~PassEnds
  <2>1. /\ UNCHANGED <<parent, address, gone, pc, parent_hub, parent_port, bitset, parent0>>
        /\ old_bitset' = bitset /\ i' = 0
    BY <1>2 DEF EndPass
  <2>2. LoopTypeOK'
    BY <2>1, LimitsAssumption DEF LoopInv, LoopTypeOK
  <2>3. \A a \in PresentIn(parent0') : ~(a < i')
    BY <2>1, LimitsAssumption DEF PresentIn, Addr
  <2>4. CondemnedExactly'
    BY <2>1, <2>3 DEF LoopInv, CondemnedExactly, InRange, PresentIn, Closed
  <2> QED BY <2>2, <2>4 DEF LoopInv
<1> QED BY <1>1, <1>2

\* Nothing happens.
LEMMA StutterLoopInv == LoopInv /\ UNCHANGED loopVars => LoopInv'
BY DEF LoopInv, LoopTypeOK, CondemnedExactly, loopVars, vars, locals, InRange,
       PresentIn, Closed

(***************************************************************************)
(* The loop's invariant holds at every point of every device_disconnect.   *)
(***************************************************************************)
THEOREM LoopInvariance == LoopSpec => []LoopInv
<1>1. LoopInv /\ [LoopNext]_loopVars => LoopInv'
  BY ConnectLoopInv, CallLoopInv, VisitLoopInv, EndPassLoopInv, StutterLoopInv
     DEF LoopNext, Loop
<1> QED BY <1>1, LoopInitInv, PTL DEF LoopSpec

(***************************************************************************)
(* At the return of device_disconnect the bitset is the least closed set.  *)
(***************************************************************************)
LEMMA ReturnsDownstream ==
    ASSUME LoopInv, pc = "pass", i = MAX_DEVICES, old_bitset = bitset
    PROVE  bitset = Downstream(parent0, parent_hub, parent_port)
<1>1. \A a \in PresentIn(parent0) : a < i
  BY LimitsAssumption DEF PresentIn, Addr
<1>2. Closed(parent0, parent_hub, parent_port, bitset)
  BY <1>1 DEF LoopInv, CondemnedExactly, Closed
<1>3. bitset \in SUBSET Addr
  BY DEF LoopInv, LoopTypeOK
<1>4. Downstream(parent0, parent_hub, parent_port) \subseteq bitset
  BY <1>2, <1>3 DEF Downstream
<1>5. bitset \subseteq Downstream(parent0, parent_hub, parent_port)
  BY DEF LoopInv, CondemnedExactly, Downstream
<1> QED BY <1>4, <1>5

(***************************************************************************)
(* device_disconnect as coded, two loops over a table it clears as it      *)
(* goes, implements the specification of module Topology: seen from        *)
(* outside it removes and reports exactly the subtree below hub/port.      *)
(***************************************************************************)
THEOREM LoopImplementsTopology == LoopSpec => ImplementsTopology
<1>1. LoopInit => Whole!Init
  BY DEF LoopInit, Init, Whole!Init, Whole!Addr, Addr
<1>2. LoopInv /\ [LoopNext]_loopVars => [Whole!Next]_Whole!vars
  <2> SUFFICES ASSUME LoopInv, [LoopNext]_loopVars PROVE [Whole!Next]_Whole!vars
    OBVIOUS
  <2>1. CASE Connect
    <3>1. pc = "idle" /\ pc' = "idle"
      BY <2>1 DEF Connect
    <3>2. PICK where \in Attachments, is_hub \in BOOLEAN :
              device_connect(where[1], where[2], is_hub)
      BY <2>1 DEF Connect
    <3>3. where \in Whole!Attachments
      BY <3>1, <3>2 DEF Attachments, Whole!Attachments, Present, Whole!Present,
                        PresentIn, Whole!PresentIn, Addr, Whole!Addr
    <3>4. Whole!device_connect(where[1], where[2], is_hub)
      BY <3>1, <3>2
         DEF device_connect, Whole!device_connect, InRange, Whole!InRange,
             Occupied, Whole!Occupied, Entry, Whole!Entry, Addr, Whole!Addr,
             FreeAddress, Whole!FreeAddress, Present, Whole!Present,
             PresentIn, Whole!PresentIn
    <3> QED BY <3>2, <3>3, <3>4 DEF Whole!Next
  <2>2. CASE Call
    <3>1. pc = "idle" /\ UNCHANGED <<parent, address>>
      BY <2>2 DEF Call
    <3>2. PICK where \in Attachments :
              IF InRange(where[1], where[2])
              THEN /\ pc' = "pass" /\ parent0' = parent /\ UNCHANGED gone
              ELSE /\ gone' = {} /\ pc' = pc
      BY <2>2 DEF Call
    <3>3. CASE InRange(where[1], where[2])
      BY <3>1, <3>2, <3>3 DEF Whole!vars
    <3>4. CASE ~InRange(where[1], where[2])
      <4>1. where \in Whole!Attachments
        BY <3>1, <3>2 DEF Attachments, Whole!Attachments, Present, Whole!Present,
                          PresentIn, Whole!PresentIn, Addr, Whole!Addr
      <4>2. Whole!device_disconnect(where[1], where[2])
        BY <3>1, <3>2, <3>4 DEF Whole!device_disconnect, InRange, Whole!InRange
      <4> QED BY <4>1, <4>2 DEF Whole!Next
    <3> QED BY <3>3, <3>4
  <2>3. CASE Visit
    BY <2>3 DEF Visit, Whole!vars
  <2>4. CASE EndPass
    <3>1. CASE ~PassEnds
      BY <2>4, <3>1 DEF EndPass, Whole!vars
    <3>2. CASE PassEnds
      <4>1. /\ pc = "pass" /\ pc' = "idle" /\ i = MAX_DEVICES
            /\ gone' = bitset /\ UNCHANGED <<parent, address>>
        BY <2>4, <3>2 DEF EndPass
      <4>2. bitset = Downstream(parent0, parent_hub, parent_port)
        BY <3>2, <4>1, ReturnsDownstream DEF PassEnds
      <4>3. Downstream(parent0, parent_hub, parent_port)
              = Whole!Removed(parent0, parent_hub, parent_port)
        BY DEF Whole!Removed, Downstream, Whole!Downstream, PresentIn, Whole!PresentIn,
               Closed, Whole!Closed, Addr, Whole!Addr, Entry, Whole!Entry,
               HubOf, Whole!HubOf
      <4>4. /\ InRange(parent_hub, parent_port)
            /\ parent_hub \in {0} \cup PresentIn(parent0)
            /\ <<parent_hub, parent_port>> # <<0, 0>>
            /\ parent = [a \in Addr |-> IF a \in bitset THEN 0 ELSE parent0[a]]
        BY <4>1 DEF LoopInv, CondemnedExactly
      <4>5. Whole!device_disconnect(parent_hub, parent_port)
        BY <4>1, <4>2, <4>3, <4>4
           DEF Whole!device_disconnect, InRange, Whole!InRange, Addr, Whole!Addr
      <4>6. <<parent_hub, parent_port>> \in Whole!Attachments
        BY <4>1, <4>4, LimitsAssumption
           DEF LoopInv, LoopTypeOK, InRange, Whole!Attachments, Whole!Present,
               PresentIn, Whole!PresentIn, Addr, Whole!Addr
      <4> QED BY <4>5, <4>6 DEF Whole!Next
    <3> QED BY <3>1, <3>2
  <2>5. CASE UNCHANGED loopVars
    BY <2>5 DEF loopVars, vars, locals, Whole!vars
  <2> QED BY <2>1, <2>2, <2>3, <2>4, <2>5 DEF LoopNext, Loop
<1> QED BY <1>1, <1>2, LoopInvariance, PTL DEF LoopSpec, Whole!Spec, ImplementsTopology
=============================================================================
