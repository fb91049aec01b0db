--------------------------- MODULE DisconnectLoop ---------------------------
(***************************************************************************)
(* Topology::device_disconnect taken apart: the inner loop visits the      *)
(* addresses in order, adding to bitset what hangs off hub/port or off a   *)
(* device already in bitset and clearing its entry at once; the outer loop *)
(* repeats the pass until one of them adds nothing.  Clearing entries      *)
(* while the table is being walked, and addresses that do not grow with    *)
(* the distance from the root, are what make the loop worth a proof: it    *)
(* implements the one-step device_disconnect of module Topology.           *)
(***************************************************************************)
EXTENDS Topology

VARIABLES
    pc,             \* "idle": no call in progress; "pass": in the loop
    parent_hub, parent_port,    \* the arguments of the call
    bitset, old_bitset,
    i,
    parent0         \* ghost: the table when device_disconnect was called

locals == <<parent_hub, parent_port, bitset, old_bitset, i, parent0>>
loopVars == <<vars, pc, locals>>

LoopInit ==
    /\ Init
    /\ pc = "idle"
    /\ parent_hub = 0 /\ parent_port = 0
    /\ bitset = {} /\ old_bitset = {} /\ i = 0
    /\ parent0 = [a \in Addr |-> 0]

Connect ==
    /\ pc = "idle"
    /\ \E where \in Attachments, is_hub \in BOOLEAN :
          device_connect(where[1], where[2], is_hub)
    /\ UNCHANGED <<pc, locals>>

\* The entry of device_disconnect, with its early return.
Call ==
    /\ pc = "idle"
    /\ UNCHANGED <<parent, address>>
    /\ \E where \in Attachments :
          IF InRange(where[1], where[2])
          THEN /\ pc' = "pass"
               /\ parent_hub' = where[1] /\ parent_port' = where[2]
               /\ bitset' = {} /\ old_bitset' = {} /\ i' = 0
               /\ parent0' = parent
               /\ UNCHANGED gone
          ELSE /\ gone' = {}
               /\ UNCHANGED <<pc, locals>>

\* Mutant of Condemned: every device on the hub, whichever port changed.
CondemnedByHub(entry) ==
    HubOf(entry) = parent_hub \/ HubOf(entry) \in bitset

\* The two tests on a non-zero entry.
Condemned(entry) ==
    \/ HubOf(entry) = parent_hub /\ PortOf(entry) = parent_port
    \/ HubOf(entry) \in bitset

\* One iteration of the inner loop.
Visit ==
    /\ pc = "pass"
    /\ i < MAX_DEVICES
    /\ IF parent[i] # 0 /\ Condemned(parent[i])
       THEN /\ bitset' = bitset \cup {i}
            /\ parent' = [parent EXCEPT ![i] = 0]
       ELSE UNCHANGED <<bitset, parent>>
    /\ i' = i + 1
    /\ UNCHANGED <<address, gone, pc, parent_hub, parent_port, old_bitset, parent0>>

\* Mutants of PassEnds: one pass only, and a bitset that is never compared.
PassEndsAtOnce == TRUE
PassEndsNever == FALSE

PassEnds == old_bitset = bitset

\* The end of the outer loop's body: return, or start another pass.
EndPass ==
    /\ pc = "pass"
    /\ i = MAX_DEVICES
    /\ IF PassEnds
       THEN /\ gone' = bitset
            /\ pc' = "idle"
            \* the locals are out of scope: back to their initial values
            /\ parent_hub' = 0 /\ parent_port' = 0
            /\ bitset' = {} /\ old_bitset' = {} /\ i' = 0
            /\ parent0' = [a \in Addr |-> 0]
       ELSE /\ old_bitset' = bitset
            /\ i' = 0
            /\ UNCHANGED <<gone, pc, parent_hub, parent_port, bitset, parent0>>
    /\ UNCHANGED <<parent, address>>

Loop == Visit \/ EndPass
LoopNext == Connect \/ Call \/ Loop

\* The loop runs to completion once entered: it is straight-line code.
LoopSpec == LoopInit /\ [][LoopNext]_loopVars
FairLoopSpec == LoopSpec /\ WF_loopVars(Loop)
-----------------------------------------------------------------------------
LoopTypeOK ==
    /\ parent \in [Addr -> Byte] /\ parent0 \in [Addr -> Byte]
    /\ address \in SUBSET Addr /\ gone \in SUBSET Addr
    /\ pc \in {"idle", "pass"}
    /\ parent_hub \in Nat /\ parent_port \in Nat
    /\ bitset \in SUBSET Addr /\ old_bitset \in SUBSET Addr
    /\ i \in 0 .. MAX_DEVICES

(***************************************************************************)
(* The loop's invariant, for device_disconnect at any point of its walk:   *)
(* nothing is condemned that a closed set could spare, exactly the         *)
(* condemned entries have been cleared, and every address already visited  *)
(* in this pass that depends on the previous passes' bitset is condemned.  *)
(* At the last address with old_bitset = bitset it says that bitset is the *)
(* least closed set, and no more than that.                                *)
(***************************************************************************)
CondemnedExactly ==
    pc = "pass" =>
        /\ InRange(parent_hub, parent_port)
        /\ <<parent_hub, parent_port>> # <<0, 0>>
        /\ parent_hub \in {0} \cup PresentIn(parent0)
        /\ old_bitset \subseteq bitset
        /\ bitset \subseteq PresentIn(parent0)
        /\ parent = [a \in Addr |-> IF a \in bitset THEN 0 ELSE parent0[a]]
        /\ \A D \in SUBSET Addr :
              Closed(parent0, parent_hub, parent_port, D) => bitset \subseteq D
        /\ \A a \in PresentIn(parent0) :
              /\ a < i
              /\ \/ parent0[a] = Entry(parent_hub, parent_port)
                 \/ HubOf(parent0[a]) \in old_bitset
              => a \in bitset

(***************************************************************************)
(* What a caller of Topology sees: while the loop runs, the table as it    *)
(* was at the call.                                                        *)
(***************************************************************************)
Whole == INSTANCE Topology WITH
            parent <- IF pc = "idle" THEN parent ELSE parent0

(***************************************************************************)
(* device_disconnect as coded implements the one-step operation: it        *)
(* returns, and clears, exactly the devices downstream of hub/port.        *)
(***************************************************************************)
ImplementsTopology == Whole!Spec

(***************************************************************************)
(* The outer loop of device_disconnect ends: a pass that adds nothing      *)
(* comes, whatever the shape of the bus.                                   *)
(***************************************************************************)
DisconnectReturns == pc = "pass" ~> pc = "idle"
=============================================================================
