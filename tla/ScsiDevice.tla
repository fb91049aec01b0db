----------------------------- MODULE ScsiDevice -----------------------------
(***************************************************************************)
(* ScsiDevice (cotton-scsi): the SCSI commands over a ScsiTransport, and   *)
(* the REQUEST SENSE that explains a command that failed.                  *)
(***************************************************************************)
EXTENDS MassStorage

VARIABLES
    upgrading,  \* in try_upgrade_error, awaiting REQUEST SENSE
    outcome,    \* [rc, n, data] that the command's caller gets, or NoOutcome
    why         \* history: the sense with which the caller's command failed

scsiVars == <<upgrading, outcome, why>>

NoOutcome == [rc |-> "none"]

\* Command blocks. lba and count are cut to the width of their fields.
Read10(lba, count, buf) ==
    [op |-> "read10", lba |-> lba % (U32Max + 1), count |-> count % (U16Max + 1),
     dir |-> "in", len |-> FullPacket * buf]
Read16(lba, count, buf) ==
    [op |-> "read16", lba |-> lba % (U64Max + 1), count |-> count % (U32Max + 1),
     dir |-> "in", len |-> FullPacket * buf]
Write10(lba, count, d) ==
    [op |-> "write10", lba |-> lba % (U32Max + 1),
     count |-> count % (U16Max + 1),
     dir |-> "out", len |-> FullPacket * Len(d), data |-> d]
Write16(lba, count, d) ==
    [op |-> "write16", lba |-> lba % (U64Max + 1),
     count |-> count % (U32Max + 1),
     dir |-> "out", len |-> FullPacket * Len(d), data |-> d]
ReadCapacity10 == [op |-> "read_capacity_10", dir |-> "in", len |-> 8]
ReadCapacity16 == [op |-> "read_capacity_16", dir |-> "in", len |-> 32]
TestUnitReady == [op |-> "test_unit_ready", dir |-> "none", len |-> 0]
RequestSense == [op |-> "request_sense", dir |-> "in", len |-> 18]
ReportSupportedOperationCodes(code) ==
    [op |-> "report_supported_operation_codes", asked |-> code,
     dir |-> "in", len |-> 4]
Inquiry == [op |-> "inquiry", dir |-> "in", len |-> 36]
BlockLimitsPage == [op |-> "block_limits_page", dir |-> "in", len |-> 64]

\* The commands issued through command_response, whose reply must be whole;
\* the others return the byte count to their caller.
WholeReply == {"read_capacity_10", "read_capacity_16", "inquiry",
               "report_supported_operation_codes", "block_limits_page"}

\* The five low bits of the first byte of an INQUIRY's reply. (Of the others
\* the application only wants to know that they are not Disk.)
PeripheralType(byte) ==
    LET code == byte % 32 IN
    IF code = 0 THEN "Disk" ELSE IF code = 5 THEN "Optical" ELSE "Other"

\* The tables of try_upgrade_error: (key, code, qualifier), (key, code), key.
ERRORS3 ==
    << <<2, 4, 1, "BecomingReady">>, <<2, 4, 2, "StartUnitRequired">>,
       <<2, 4, 3, "ManualInterventionRequired">>, <<2, 4, 4, "FormatInProgress">>,
       <<2, 4, 9, "SelfTestInProgress">>, <<2, 4, 34, "PowerCycleRequired">>,
       <<1, 11, 1, "Overheat">>, <<1, 11, 2, "EnclosureDegraded">>,
       <<3, 12, 0, "WriteError">>, <<3, 12, 2, "WriteReallocationFailed">>,
       <<1, 17, 0, "UnrecoveredReadError">>, <<1, 17, 1, "ReadRetriesExhausted">>,
       <<1, 17, 2, "ReadErrorTooLong">>, <<3, 17, 4, "ReadReallocationFailed">>,
       <<3, 20, 0, "LogicalBlockNotFound">>, <<3, 20, 1, "RecordNotFound">>,
       <<5, 38, 0, "InvalidFieldInParameterList">>,
       <<5, 38, 1, "ParameterNotSupported">>,
       <<5, 38, 2, "ParameterValueInvalid">>,
       <<4, 62, 3, "LogicalUnitSelfTestFailed">>, <<4, 66, 0, "SelfTestFailed">> >>
ERRORS2 ==
    << <<3, 20, "PositioningError">>, <<5, 26, "ParameterListLengthError">>,
       <<14, 29, "MiscompareDuringVerify">>,
       <<5, 32, "InvalidCommandOperationCode">>,
       <<13, 33, "LogicalBlockAddressOutOfRange">>,
       <<5, 36, "InvalidFieldInCDB">>, <<5, 37, "LogicalUnitNotSupported">> >>
ERRORS1 ==
    << <<2, "NotReady">>, <<3, "MediumError">>, <<4, "HardwareError">>,
       <<5, "IllegalRequest">>, <<6, "UnitAttention">>, <<7, "DataProtect">>,
       <<8, "BlankCheck">>, <<9, "VendorSpecific">>, <<10, "CopyAborted">>,
       <<11, "Aborted">>, <<13, "VolumeOverflow">>, <<14, "Miscompare">> >>

\* The last member of the first row of a table that starts as sense does.
Lookup(table, s) ==
    LET n    == Len(table[1]) - 1
        rows == {i \in 1..Len(table) : SubSeq(table[i], 1, n) = SubSeq(s, 1, n)}
    IN  IF rows = {} THEN "none" ELSE table[Min(rows)][n + 1]

\* A variant of Upgraded: the least specific table is searched first.
Upgraded_GeneralFirst(s) ==
    IF Lookup(ERRORS1, s) # "none" THEN Lookup(ERRORS1, s) ELSE "CommandFailed"

\* What try_upgrade_error makes of CommandFailed, given the sense data.
Upgraded(s) ==
    CASE Lookup(ERRORS3, s) # "none" -> Lookup(ERRORS3, s)
      [] Lookup(ERRORS3, s) = "none" /\ Lookup(ERRORS2, s) # "none" ->
            Lookup(ERRORS2, s)
      [] Lookup(ERRORS3, s) = "none" /\ Lookup(ERRORS2, s) = "none"
            /\ Lookup(ERRORS1, s) # "none" -> Lookup(ERRORS1, s)
      [] OTHER -> "CommandFailed"

Delivers(result) == outcome' = [rc |-> result, n |-> response, data |-> data]

\* The transport has returned: the command's caller gets its result, or
\* REQUEST SENSE is issued first if the device reported failure.
CommandReturns ==
    /\ pc = "done" /\ ~upgrading /\ rc # "CommandFailed"
    /\ Delivers(IF rc = "Ok" /\ cmd.op \in WholeReply /\ response < cmd.len
                THEN "ProtocolError" ELSE rc)
    /\ pc' = "idle"
    /\ UNCHANGED <<deviceVars, cmd, tag, response, data, rc, toggle, faults,
                   broken, upgrading, why>>

try_upgrade_error ==
    /\ pc = "done" /\ ~upgrading /\ rc = "CommandFailed"
    /\ upgrading' = TRUE /\ why' = sense
    /\ Command(RequestSense)
    /\ UNCHANGED <<deviceVars, toggle, faults, broken, outcome>>

\* request_sense needs all of the 18 bytes; any failure of it leaves the
\* original error.
request_sense_returns ==
    /\ pc = "done" /\ upgrading
    /\ Delivers(IF rc = "Ok" /\ response = 18 THEN Upgraded(data[1])
                                             ELSE "CommandFailed")
    /\ upgrading' = FALSE /\ pc' = "idle"
    /\ UNCHANGED <<deviceVars, cmd, tag, response, data, rc, toggle, faults,
                   broken, why>>

ScsiNext == CommandReturns \/ try_upgrade_error \/ request_sense_returns
=============================================================================
