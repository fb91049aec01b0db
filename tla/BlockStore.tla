----------------------------- MODULE BlockStore -----------------------------
(***************************************************************************)
(* What AsyncBlockDevice (cotton-scsi) promises its user: reads and writes *)
(* of whole blocks, one at a time, each of which either happens or returns *)
(* an error, and a report of the device's size that never promises a block *)
(* that is not there. After the link to the device has failed nothing is   *)
(* promised until the device has been attached anew.                       *)
(***************************************************************************)
EXTENDS Integers, Sequences

VARIABLES
    store,    \* what each block of the medium holds
    pending,  \* the operation under way, or [kind |-> "none"]
    answer,   \* the answer to the last operation
    broken    \* the link has failed since the device was attached

storeVars == <<store, pending, answer, broken>>

NoOperation == [kind |-> "none"]
Blocks == DOMAIN store

\* The blocks an operation names.
Extent(o) == o.offset..(o.offset + o.count - 1)

\* The buffer holds the operation's blocks, and they exist.
Sound(o) == o.buf >= o.count /\ Extent(o) \subseteq Blocks

\* What the store holds once the buffer of a write has been stored.
Written(o) ==
    [b \in Blocks |-> IF b \in Extent(o) THEN o.data[b - o.offset + 1]
                                         ELSE store[b]]

Holds(o, d) == \A b \in Extent(o) : d[b - o.offset + 1] = store[b]

\* The answers that may be given to operation o.
Truthful(o, a) ==
    \/ a.rc # "Ok"
    \/ o.kind \notin {"read", "write", "info"}
    \/ o.kind = "read"  /\ Sound(o) /\ Holds(o, a.data)
    \/ o.kind = "write" /\ Sound(o) /\ Holds(o, o.data)
    \/ o.kind = "info"  /\ \A b \in 0..(a.blocks - 1) : b \in Blocks

Init == pending = NoOperation /\ ~broken

Invoke ==
    /\ pending = NoOperation /\ pending' # NoOperation
    /\ UNCHANGED <<store, broken>>

Commit ==
    /\ pending.kind = "write" /\ Sound(pending)
    /\ store' = Written(pending)
    /\ UNCHANGED <<pending, answer, broken>>

Respond ==
    /\ pending # NoOperation /\ pending' = NoOperation
    /\ Truthful(pending, answer')
    /\ UNCHANGED <<store, broken>>

\* An operation is refused at once.
Refuse ==
    /\ pending = NoOperation /\ answer'.rc # "Ok"
    /\ UNCHANGED <<store, pending, broken>>

Attach == pending = NoOperation /\ UNCHANGED <<store, pending, answer>>

Break == broken'

Next == Invoke \/ Commit \/ Respond \/ Refuse \/ Attach \/ Break

Spec == Init /\ [][Next]_storeVars
=============================================================================
