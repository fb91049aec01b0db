--------------------------- MODULE BulkOnlyDevice ---------------------------
(***************************************************************************)
(* A USB mass-storage device as cotton-usb-host-msc meets it (external):   *)
(* a bulk OUT endpoint that takes command blocks and data, a bulk IN       *)
(* endpoint that queues data, stalls and status wrappers, and a medium.    *)
(* A block fills one full-size packet.                                     *)
(***************************************************************************)
EXTENDS Integers, Sequences, SequencesExt, FiniteSetsExt

CONSTANTS
    U16Max, U32Max, U64Max,  \* the limits of the code's integer types
    Units,     \* kinds of device: [last, long, type, suite] (see Init)
    Troubles   \* sense triples with which a device may fail a command

ASSUME WidthAssumption ==
    U16Max \in Nat /\ U32Max \in Nat /\ U64Max \in Nat
    /\ 0 < U16Max /\ U16Max < U32Max /\ U32Max < U64Max

\* A device has a last block; sense data is a key, a code and a qualifier.
ASSUME DeviceAssumption ==
    /\ \A u \in Units : u.last \in Nat /\ u.long \in BOOLEAN
    /\ Troubles \subseteq Nat \X Nat \X Nat

VARIABLES
    unit,       \* the device: its last block, whether it knows the 16-byte
                \* commands, its peripheral type byte and its descriptors
    plugged,
    store,      \* what each block holds
    inFifo,     \* packets the IN endpoint will send; "stall" until cleared
    outHalted,  \* the OUT endpoint answers STALL
    taking,     \* the write whose data is awaited, or NoWrite
    sense,      \* why the last command failed
    devToggle   \* the device's data toggles

deviceVars ==
    <<unit, plugged, store, inFifo, outHalted, taking, sense, devToggle>>

FullPacket == 64
NoSense == <<0, 0, 0>>
NoWrite == [op |-> "none"]
Data(size, body) == [kind |-> "data", size |-> size, body |-> body]
Csw(tag, status) == [kind |-> "csw", size |-> 13, body |-> <<tag, status>>]
Stall == [kind |-> "stall", size |-> 0, body |-> <<>>]

Transfers == {"read10", "read16", "write10", "write16"}
LongCommands == {"read16", "write16", "read_capacity_16"}

\* The failures that are not a matter of chance.
MustFail(c) ==
    \/ c.op \in LongCommands /\ ~unit.long
    \/ c.op \in Transfers /\ c.lba + c.count - 1 > unit.last
Complaint(c) ==
    IF c.op \in LongCommands /\ ~unit.long THEN <<5, 32, 0>> ELSE <<5, 33, 0>>

\* The packets with which a command is answered when it succeeds.
Reply(c) ==
    CASE c.op \in {"read10", "read16"} ->
            [i \in 1..c.count |-> Data(FullPacket, store[c.lba + i - 1])]
      [] c.op = "inquiry" -> <<Data(36, <<unit.type>>)>>
      [] c.op = "read_capacity_10" ->
            <<Data(8, <<Min({unit.last, U32Max})>>)>>
      [] c.op = "read_capacity_16" -> <<Data(32, <<unit.last>>)>>
      [] c.op = "report_supported_operation_codes" -> <<Data(4, <<c.asked>>)>>
      [] c.op = "block_limits_page" -> <<Data(FullPacket, <<>>)>>
      [] c.op = "request_sense" -> <<Data(18, sense)>>
      [] OTHER -> <<>>

\* The bytes in a run of packets that only the last of them may fall short of
\* filling, as it is with all that an IN transfer takes.
Size(packets) ==
    IF packets = <<>> THEN 0
    ELSE FullPacket * (Len(packets) - 1) + packets[Len(packets)].size
Short(packets) ==
    packets # <<>> /\ packets[Len(packets)].size < FullPacket

\* A successful IN command: what fits, a stall if the host expects more and
\* cannot tell that there is none, and the status (2, phase error, if the
\* host left too little room).
Success(c) ==
    LET all == Reply(c)
    IN  IF Size(all) > c.len
        THEN SubSeq(all, 1, c.len \div FullPacket) \o <<Csw(c.tag, 2)>>
        ELSE all \o (IF Size(all) < c.len /\ ~Short(all) THEN <<Stall>>
                                                         ELSE <<>>)
                 \o <<Csw(c.tag, 0)>>

\* Less than the host expects, ended by a short packet, after which a device
\* is free to halt the endpoint or not (Bulk-Only Transport, 6.7.2).
Briefs == {<<Data(0, <<>>)>>, <<Data(0, <<>>), Stall>>}

\* An IN command succeeds; sense data is always sent whole.
Answers(c) ==
    \/ inFifo' = inFifo \o Success(c)
    \/ /\ c.op # "request_sense"
       /\ \E b \in Briefs : inFifo' = inFifo \o b \o <<Csw(c.tag, 0)>>

\* A failed IN command: no data, or some but not all, then a stall; or a
\* short packet.
Failures(c) ==
    {<<Stall>>} \cup Briefs
      \cup (IF c.op \in {"read10", "read16"} /\ ~MustFail(c)
               /\ c.count > 1 /\ c.len > FullPacket
            THEN {<<Reply(c)[1], Stall>>} ELSE {})

\* The device takes a command block: it queues its answer, or waits for data.
Executes(c) ==
    /\ sense' = IF c.op = "request_sense" THEN sense ELSE NoSense
    /\ IF c.dir = "out"
       THEN taking' = c /\ UNCHANGED <<inFifo, outHalted>>
       ELSE /\ IF c.dir = "in" THEN Answers(c)
                               ELSE inFifo' = inFifo \o <<Csw(c.tag, 0)>>
            /\ UNCHANGED <<outHalted, taking>>

Refuses(c, why) ==
    /\ sense' = why
    /\ \/ /\ c.dir = "in"
          /\ \E f \in Failures(c) : inFifo' = inFifo \o f \o <<Csw(c.tag, 1)>>
          /\ UNCHANGED <<outHalted, taking>>
       \/ /\ c.dir = "out" /\ outHalted' = TRUE
          /\ inFifo' = Append(inFifo, Csw(c.tag, 1))
          /\ UNCHANGED taking
       \/ /\ c.dir = "out" /\ taking' = [c EXCEPT !.count = 0]
          /\ UNCHANGED <<inFifo, outHalted>>
       \/ /\ c.dir = "none" /\ inFifo' = Append(inFifo, Csw(c.tag, 1))
          /\ UNCHANGED <<outHalted, taking>>

\* A packet that is not what the device expects: it halts both endpoints.
Confused ==
    /\ inFifo' = <<Stall>> /\ outHalted' = TRUE /\ taking' = NoWrite
    /\ UNCHANGED <<store, sense>>

TakesCommand(c) ==
    IF taking # NoWrite
    THEN Confused
    ELSE /\ \/ ~MustFail(c) /\ Executes(c)
            \/ MustFail(c) /\ Refuses(c, Complaint(c))
            \/ c.op # "request_sense" /\ \E t \in Troubles : Refuses(c, t)
         /\ UNCHANGED store

\* The data of a write arrives: stored if the command succeeds and the host
\* sent enough of it.
TakesData(packets) ==
    IF taking = NoWrite
    THEN Confused
    ELSE LET n  == taking.count
             ok == n > 0 /\ Len(packets) >= n
         IN  /\ store' = [b \in DOMAIN store |->
                            IF ok /\ b \in taking.lba..(taking.lba + n - 1)
                            THEN packets[b - taking.lba + 1] ELSE store[b]]
             /\ inFifo' = Append(inFifo, Csw(taking.tag,
                            IF ok THEN 0 ELSE IF n = 0 THEN 1 ELSE 2))
             /\ taking' = NoWrite
             /\ UNCHANGED <<outHalted, sense>>

\* CLEAR_FEATURE(ENDPOINT_HALT) on the IN endpoint.
ClearsIn ==
    /\ inFifo' = IF inFifo # <<>> /\ inFifo[1].kind = "stall" THEN Tail(inFifo)
                                                      ELSE inFifo
    /\ devToggle' = [devToggle EXCEPT !.in = 0]
=============================================================================
