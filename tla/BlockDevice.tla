----------------------------- MODULE BlockDevice ----------------------------
(***************************************************************************)
(* ScsiBlockDevice (cotton-scsi) on a ScsiDevice on a MassStorage, and the *)
(* application of rp2040-usb-msc.rs that identifies a device, configures   *)
(* it, asks it what it is, whether it is ready and how large, and then     *)
(* reads and writes. Shown to implement BlockStore.                        *)
(***************************************************************************)
EXTENDS ScsiDevice, Descriptors

CONSTANTS
    Requests,   \* the [kind, offset, count, buf] that the application makes
    MaxRequests \* how many it makes

\* offset is a u64 and count a u32; no buffer is empty.
ASSUME RequestAssumption ==
    \A o \in Requests :
        /\ o.kind \in {"read", "write"}
        /\ o.offset \in 0..U64Max /\ o.count \in 0..U32Max
        /\ o.buf \in Nat \ {0}

VARIABLES
    stage,      \* how far the application has come with the device
    op,         \* the operation under way, or NoOperation
    answer,     \* the answer to the last operation
    endpoints,  \* the endpoints MassStorage has opened, [in, out]
    requests    \* requests made so far

appVars == <<stage, op, answer, endpoints, requests>>
vars == <<deviceVars, transportVars, scsiVars, appVars>>

Store == INSTANCE BlockStore WITH pending <- op

NoOperation == Store!NoOperation
NoAnswer == [rc |-> "none", data |-> <<>>, blocks |-> 0]

Init ==
    /\ unit \in Units
    /\ plugged = TRUE
    /\ store = [b \in 0..unit.last |-> <<b, 0>>]
    /\ inFifo = <<>> /\ outHalted = FALSE /\ taking = NoWrite
    /\ sense = NoSense /\ devToggle = [in |-> 0, out |-> 0]
    /\ pc = "idle" /\ cmd = NoCommand /\ tag = 1 /\ response = 0
    /\ data = <<>> /\ rc = "none" /\ toggle = [in |-> 0, out |-> 0]
    /\ faults = 0 /\ broken = FALSE
    /\ upgrading = FALSE /\ outcome = NoOutcome /\ why = NoSense
    /\ stage = "connect" /\ op = NoOperation /\ answer = NoAnswer
    /\ endpoints = [in |-> 0, out |-> 0] /\ requests = 0

-----------------------------------------------------------------------------
(* The application attaches to a device.                                   *)

\* UsbBus::configure: SET_CONFIGURATION, and then what that configuration has;
\* in_endpoints and out_endpoints; and the endpoints MassStorage::new opens.
configure(value) == [dir \in {"in", "out"} |-> SpecificConfiguration(unit.suite, value, dir)]
Bitmap(value, dir) == configure(value)[dir]
Opens(value, dir) == FirstEndpoint(Bitmap(value, dir))

Recognised ==
    LET value == IdentifyMassStorage(unit.suite)
    IN  /\ value # 0
        /\ CanOpen(Opens(value, "in"), Bitmap(value, "in"))
        /\ CanOpen(Opens(value, "out"), Bitmap(value, "out"))

\* DeviceEvent::Connect: get_configuration, identify, configure and
\* MassStorage::new; a failure of any of them and the device is let go.
Attach ==
    /\ stage = "connect" /\ plugged
    /\ \/ /\ Recognised
          /\ LET value == IdentifyMassStorage(unit.suite)
             IN  endpoints' = [in  |-> Opens(value, "in"),
                               out |-> Opens(value, "out")]
          /\ stage' = "inquiry" /\ NewMassStorage
          /\ UNCHANGED faults
       \/ /\ ~Recognised
          /\ stage' = "ignored"
          /\ UNCHANGED <<endpoints, tag, toggle, broken, faults>>
       \/ /\ faults < MaxFaults /\ faults' = faults + 1
          /\ stage' = "ignored"
          /\ UNCHANGED <<endpoints, tag, toggle, broken>>
    /\ UNCHANGED <<deviceVars, pc, cmd, response, data, rc, scsiVars, op,
                   answer, requests>>

\* The device is pulled out; what was under way will find out.
Unplug ==
    /\ plugged /\ plugged' = FALSE
    /\ UNCHANGED <<unit, store, inFifo, outHalted, taking, sense, devToggle,
                   transportVars, scsiVars, appVars>>

\* It is put back, reset by the bus, and announced again once the
\* application returns to its event loop.
Replug ==
    /\ ~plugged /\ plugged' = TRUE
    /\ inFifo' = <<>> /\ outHalted' = FALSE /\ taking' = NoWrite
    /\ sense' = NoSense /\ devToggle' = [in |-> 0, out |-> 0]
    /\ op = NoOperation /\ stage' = "connect"
    /\ UNCHANGED <<unit, store, transportVars, scsiVars, op, answer, endpoints,
                   requests>>

-----------------------------------------------------------------------------
(* Operations.                                                             *)

Start(o, c) ==
    /\ op' = o /\ outcome' = NoOutcome /\ answer' = NoAnswer /\ Command(c)
    /\ UNCHANGED <<deviceVars, toggle, faults, broken, upgrading, why, stage,
                   endpoints>>

Free == op = NoOperation /\ pc = "idle"

inquiry ==
    Free /\ stage = "inquiry" /\ Start([kind |-> "inquiry"], Inquiry)
    /\ UNCHANGED requests
test_unit_ready ==
    Free /\ stage = "ready" /\ Start([kind |-> "ready"], TestUnitReady)
    /\ UNCHANGED requests
device_info ==
    Free /\ stage = "info" /\ Start([kind |-> "info"], ReadCapacity10)
    /\ UNCHANGED requests

\* The choice of read_blocks and write_blocks between 10- and 16-byte
\* commands; none if the extent does not fit in 64 bits. (The variant forgets
\* that READ (10) has 32 bits for the address.)
Overflows(o) == o.offset + o.count > U64Max
Short10_AnyOffset(o) == o.count < U16Max
Short10(o) == o.offset + o.count < U32Max /\ o.count < U16Max

\* A buffer of data that no block holds at first.
Fresh(o) == [i \in 1..o.buf |-> <<U64Max + 1, i>>]

\* Refused before any command is sent.
RangeError(o) ==
    /\ Overflows(o)
    /\ answer' = [NoAnswer EXCEPT !.rc = "LogicalBlockAddressOutOfRange"]
    /\ UNCHANGED <<deviceVars, transportVars, scsiVars, stage, op, endpoints>>

read_blocks(o) ==
    \/ RangeError(o)
    \/ ~Overflows(o) /\ Start(o, IF Short10(o)
                                 THEN Read10(o.offset, o.count, o.buf)
                                 ELSE Read16(o.offset, o.count, o.buf))

write_blocks(o) ==
    \/ RangeError(o)
    \/ ~Overflows(o) /\ LET d == Fresh(o)
                        IN  Start([kind |-> o.kind, offset |-> o.offset,
                                   count |-> o.count, buf |-> o.buf, data |-> d],
                                  IF Short10(o)
                                  THEN Write10(o.offset, o.count, d)
                                  ELSE Write16(o.offset, o.count, d))

\* query_commands asks about each command in turn; block_limits_page once.
query_commands == Start([kind |-> "query"], ReportSupportedOperationCodes(1))
block_limits_page == Start([kind |-> "limits"], BlockLimitsPage)

Request ==
    /\ Free /\ stage = "mounted" /\ requests < MaxRequests
    /\ requests' = requests + 1
    /\ \/ \E o \in Requests : \/ o.kind = "read"  /\ read_blocks(o)
                              \/ o.kind = "write" /\ write_blocks(o)
       \/ query_commands
       \/ block_limits_page

\* A command has returned to its caller.
Returned == pc = "idle" /\ op # NoOperation /\ outcome.rc # "none"

\* device_info goes on to READ CAPACITY (16) if the size does not fit, and
\* query_commands to the next of its commands (two of them here).
GoesOn ==
    /\ outcome.rc = "Ok"
    /\ \/ op.kind = "info" /\ cmd.op = "read_capacity_10"
          /\ outcome.data[1][1] = U32Max
       \/ op.kind = "query" /\ cmd.asked = 1
NextCommand ==
    /\ Returned /\ GoesOn
    /\ Start(op, IF op.kind = "info" THEN ReadCapacity16
                                     ELSE ReportSupportedOperationCodes(2))
    /\ UNCHANGED requests

\* The operation ends. read_blocks wants the buffer filled; write_blocks
\* takes no notice of how much was written. The application gives a device
\* up that cannot say that it is a disk, that it is ready, or its size.
Verdict ==
    IF op.kind = "read" /\ outcome.rc = "Ok" /\ outcome.n < FullPacket * op.buf
    THEN "ProtocolError" ELSE outcome.rc
Finish ==
    /\ Returned /\ ~GoesOn
    /\ answer' = [rc     |-> Verdict,
                  data   |-> IF op.kind = "read" THEN outcome.data ELSE <<>>,
                  blocks |-> IF op.kind = "info" /\ Verdict = "Ok"
                             THEN outcome.data[1][1] ELSE 0]
    /\ stage' = CASE op.kind = "inquiry" ->
                        IF Verdict = "Ok" /\ PeripheralType(outcome.data[1][1]) = "Disk"
                        THEN "ready" ELSE "ignored"
                  [] op.kind = "ready" ->
                        IF Verdict = "Ok" THEN "info" ELSE "ignored"
                  [] op.kind = "info" ->
                        IF Verdict = "Ok" THEN "mounted" ELSE "ignored"
                  [] OTHER -> stage
    /\ op' = NoOperation /\ outcome' = NoOutcome
    /\ cmd' = NoCommand /\ response' = 0 /\ data' = <<>> /\ rc' = "none"
    /\ why' = NoSense
    /\ UNCHANGED <<deviceVars, pc, tag, toggle, faults, broken, upgrading,
                   endpoints, requests>>

Next ==
    \/ Attach \/ Unplug \/ Replug
    \/ inquiry \/ test_unit_ready \/ device_info \/ Request
    \/ CommandNext /\ UNCHANGED <<scsiVars, appVars>>
    \/ ScsiNext /\ UNCHANGED appVars
    \/ NextCommand \/ Finish

Spec == Init /\ [][Next]_vars

\* The executor runs a task that can go on; a plugged-in device answers.
FairSpec ==
    /\ Spec
    /\ WF_vars(CommandNext /\ UNCHANGED <<scsiVars, appVars>>)
    /\ WF_vars(ScsiNext /\ UNCHANGED appVars)
    /\ WF_vars(NextCommand) /\ WF_vars(Finish)

-----------------------------------------------------------------------------
TypeOK ==
    /\ plugged \in BOOLEAN /\ outHalted \in BOOLEAN /\ broken \in BOOLEAN
    /\ upgrading \in BOOLEAN
    /\ pc \in {"idle", "cbw", "data", "clear", "csw", "done"}
    /\ rc \in {"none", "Ok", "CommandFailed", "ProtocolError", "Transport"}
    /\ stage \in {"connect", "ignored", "inquiry", "ready", "info", "mounted"}
    /\ toggle \in [{"in", "out"} -> 0..1] /\ devToggle \in [{"in", "out"} -> 0..1]
    /\ endpoints \in [{"in", "out"} -> 0..15]
    /\ \A i \in 1..Len(inFifo) : inFifo[i].kind \in {"data", "csw", "stall"}

\* Whatever commands failed, stalled in their data phase or sent too little
\* before, as long as none of them ended in a transport error: between
\* commands the device is waiting for a command block with nothing left to
\* send, and the data toggles of both ends agree, so that the next status
\* wrapper is the next command's. (MassStorage::command never looks at the
\* tag; this is what it relies on instead.)
InStep ==
    pc = "idle" /\ plugged /\ ~broken /\ stage \notin {"connect", "ignored"} =>
        inFifo = <<>> /\ taking = NoWrite /\ toggle = devToggle

\* The same without the proviso: a status wrapper that is taken for good is
\* that of the command it is taken for. It does not hold once a transfer has
\* failed, or a device has halted the endpoint after a short packet (see the
\* README): the leftovers of one command are then taken for the data and
\* status of the next.
StatusIsOwn ==
    [][pc = "csw" /\ rc' \in {"Ok", "CommandFailed"} =>
        inFifo[1].body[1] = cmd.tag]_vars

\* The error an operation reports for a command that the device failed is the
\* most specific that try_upgrade_error's tables have for that very failure.
Explanations(s) ==
    {row \in Range(ERRORS3) \cup Range(ERRORS2) \cup Range(ERRORS1) :
        SubSeq(row, 1, Len(row) - 1) = SubSeq(s, 1, Len(row) - 1)}
BestExplanation(s) ==
    IF Explanations(s) = {} THEN "CommandFailed"
    ELSE LET row == CHOOSE r \in Explanations(s) :
                        \A q \in Explanations(s) : Len(q) <= Len(r)
         IN  row[Len(row)]
FailuresExplained ==
    pc = "idle" /\ ~broken
    /\ outcome.rc \notin {"none", "Ok", "ProtocolError", "Transport"} =>
        outcome.rc = BestExplanation(why)

\* A device in use is one with a bulk-only interface, and MassStorage talks to
\* that interface's own bulk endpoints, in the configuration that was set.
TalksToStorage ==
    stage = "inquiry" /\ op = NoOperation =>
        LET value == IdentifyMassStorage(unit.suite)
        IN  /\ endpoints.in \in TrueEndpoints(unit.suite, value, "in")
            /\ endpoints.out \in TrueEndpoints(unit.suite, value, "out")

\* What the layers promise together: reads return what the medium holds,
\* writes that succeed are on it, 10- and 16-byte commands reach the same
\* blocks, and no block is promised that is not there.
ImplementsStore == Store!Spec

\* An operation on a working device ends: a failed command costs one more
\* command to explain it, never an endless exchange.
OperationsEnd ==
    (op # NoOperation /\ plugged /\ ~broken) ~>
        (op = NoOperation \/ ~plugged \/ broken)
=============================================================================
