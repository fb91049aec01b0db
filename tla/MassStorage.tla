----------------------------- MODULE MassStorage ----------------------------
(***************************************************************************)
(* MassStorage::command (cotton-usb-host-msc): one SCSI command as a       *)
(* command block out, a data phase, and a status wrapper in, over the bulk *)
(* endpoints of a device. Each await is a step of its own. The USB         *)
(* transfers below it are modelled by what HostController promises; a      *)
(* bounded number of them fail with a transport error, part-way.           *)
(***************************************************************************)
EXTENDS BulkOnlyDevice

CONSTANTS
    MaxFaults,  \* transfers that fail for reasons of the bus
    TagLimit    \* tags count modulo this (2^32 in the code)

VARIABLES
    pc,        \* where command() is: idle, cbw, data, clear, csw or done
    cmd,       \* the command block, its data phase and tag
    tag,       \* MassStorage::tag
    response,  \* bytes moved in the data phase
    data,      \* what the caller's buffer has received
    rc,        \* the result, when pc = "done"
    toggle,    \* BulkIn::data_toggle and BulkOut::data_toggle
    faults,    \* transport errors so far
    broken     \* history: since MassStorage::new a transfer has failed, or
               \* has left an endpoint of the device halted

transportVars == <<pc, cmd, tag, response, data, rc, toggle, faults, broken>>

NoCommand == [op |-> "none"]
Flip(t, n) == (t + n) % 2

\* MassStorage::new and the fresh toggles of the endpoints it opens.
NewMassStorage ==
    /\ tag' = 1 /\ toggle' = [in |-> 0, out |-> 0] /\ broken' = FALSE

\* CommandBlockWrapper::new: the command block in its wrapper.
Tagged(c, t) ==
    [field \in DOMAIN c \cup {"tag"} |-> IF field = "tag" THEN t ELSE c[field]]

\* Entry to command(): the tag moves on, and the wrapper is made.
Command(c) ==
    /\ tag' = (tag + 2) % TagLimit
    /\ cmd' = Tagged(c, tag')
    /\ pc' = "cbw" /\ response' = 0 /\ data' = <<>> /\ rc' = "none"

\* The end of command().
Return(result) == pc' = "done" /\ rc' = result

\* A transfer has failed: command() returns Err(Transport).
TransportError ==
    Return("Transport") /\ UNCHANGED <<cmd, tag, response, data>>

\* A bus error. The host's toggle is only updated when a transfer succeeds.
Fault ==
    /\ faults < MaxFaults /\ faults' = faults + 1
    /\ broken' = TRUE /\ TransportError

\* The host controller reports fewer bytes sent than were given to it.
CutShort ==
    /\ faults < MaxFaults /\ faults' = faults + 1
    /\ broken' = TRUE /\ Return("ProtocolError")
    /\ UNCHANGED <<cmd, tag, response, data>>

Unplugged ==
    ~plugged /\ broken' = TRUE /\ TransportError /\ UNCHANGED <<faults, toggle>>

-----------------------------------------------------------------------------
(* Bulk transfers, as HostController describes them.                       *)

\* The number of packets that an IN transfer of len bytes consumes: up to a
\* short one or as many as fill the buffer; 0 if that never comes.
PacketsFor(len) ==
    LET ends == {k \in 1..Len(inFifo) :
                    /\ \A j \in 1..k : inFifo[j].kind # "stall"
                    /\ \/ inFifo[k].size < FullPacket
                       \/ Size(SubSeq(inFifo, 1, k)) >= len}
    IN  IF ends = {} THEN 0 ELSE Min(ends)

StallsAt ==
    LET s == {k \in 1..Len(inFifo) : inFifo[k].kind = "stall"}
    IN  IF s = {} THEN 0 ELSE Min(s)

\* The device's packets are acknowledged.
Sent(n) ==
    /\ inFifo' = SubSeq(inFifo, n + 1, Len(inFifo))
    /\ devToggle' = [devToggle EXCEPT !.in = Flip(@, n)]
    /\ UNCHANGED <<unit, plugged, store, outHalted, taking, sense>>

BulkInOk(len) ==
    /\ plugged /\ PacketsFor(len) > 0 /\ toggle.in = devToggle.in
    /\ Size(SubSeq(inFifo, 1, PacketsFor(len))) <= len
    /\ toggle' = [toggle EXCEPT !.in = Flip(@, PacketsFor(len))]
    /\ Sent(PacketsFor(len))

\* A stall: packets before it have been taken, and the toggle is not updated.
BulkInStall(len) ==
    /\ plugged /\ PacketsFor(len) = 0 /\ StallsAt > 0
    /\ Sent(StallsAt - 1)
    /\ UNCHANGED toggle

\* Data of the wrong toggle, or more than was asked for.
BulkInError(len) ==
    /\ plugged /\ inFifo # <<>> /\ inFifo[1].kind # "stall"
    /\ \/ toggle.in # devToggle.in
       \/ PacketsFor(len) > 0
          /\ Size(SubSeq(inFifo, 1, PacketsFor(len))) > len
    /\ UNCHANGED deviceVars

BulkInFault ==
    /\ plugged
    /\ \E n \in 0..Len(inFifo) :
          (\A j \in 1..n : inFifo[j].kind # "stall") /\ Sent(n)

\* An OUT transfer of n packets, which the device takes as Takes says; a
\* repeated toggle is acknowledged and ignored.
BulkOutOk(n, Takes) ==
    /\ plugged /\ ~outHalted
    /\ toggle' = [toggle EXCEPT !.out = Flip(@, n)]
    /\ IF toggle.out = devToggle.out
       THEN /\ Takes
            /\ devToggle' = [devToggle EXCEPT !.out = Flip(@, n)]
       ELSE UNCHANGED <<store, inFifo, outHalted, taking, sense, devToggle>>
    /\ UNCHANGED <<unit, plugged>>

\* A failure before the device has seen anything, or of the last handshake.
BulkOutFault(n, Takes) ==
    /\ plugged /\ ~outHalted
    /\ \/ UNCHANGED deviceVars
       \/ /\ toggle.out = devToggle.out /\ Takes
          /\ devToggle' = [devToggle EXCEPT !.out = Flip(@, n)]
          /\ UNCHANGED <<unit, plugged>>

-----------------------------------------------------------------------------
(* command() from one await to the next.                                   *)

\* The wrapper is sent; part of one is no command to the device.
SendCbw ==
    /\ pc = "cbw"
    /\ \/ /\ BulkOutOk(1, TakesCommand(cmd))
          /\ pc' = IF cmd.dir = "none" THEN "csw" ELSE "data"
          /\ UNCHANGED <<cmd, tag, response, data, rc, faults, broken>>
       \/ /\ BulkOutFault(1, TakesCommand(cmd)) /\ Fault /\ UNCHANGED toggle
       \/ BulkOutOk(1, Confused) /\ CutShort
       \/ /\ plugged /\ outHalted /\ TransportError /\ broken' = TRUE
          /\ UNCHANGED <<deviceVars, toggle, faults>>
       \/ Unplugged /\ UNCHANGED deviceVars

Bodies(n) == [i \in 1..n |-> inFifo[i].body]

\* The data phase of an IN command.
DataIn ==
    /\ pc = "data" /\ cmd.dir = "in"
    /\ \/ /\ BulkInOk(cmd.len)
          /\ response' = Size(SubSeq(inFifo, 1, PacketsFor(cmd.len)))
          /\ data' = Bodies(PacketsFor(cmd.len))
          /\ pc' = "csw" /\ UNCHANGED <<cmd, tag, rc, faults, broken>>
       \/ /\ BulkInStall(cmd.len)
          /\ data' = Bodies(StallsAt - 1)
          /\ pc' = "clear" /\ UNCHANGED <<cmd, tag, response, rc, faults, broken>>
       \/ /\ BulkInError(cmd.len) /\ TransportError
          /\ UNCHANGED <<toggle, faults, broken>>
       \/ BulkInFault /\ Fault /\ UNCHANGED toggle
       \/ Unplugged /\ UNCHANGED deviceVars

\* The data phase of an OUT command.
DataOut ==
    /\ pc = "data" /\ cmd.dir = "out"
    /\ \/ /\ BulkOutOk(Len(cmd.data), TakesData(cmd.data))
          /\ response' = cmd.len
          /\ pc' = "csw" /\ UNCHANGED <<cmd, tag, data, rc, faults, broken>>
       \/ /\ plugged /\ outHalted
          /\ pc' = "clear"
          /\ UNCHANGED <<cmd, tag, response, data, rc, toggle, faults, broken,
                         deviceVars>>
       \/ /\ BulkOutFault(Len(cmd.data), TakesData(cmd.data)) /\ Fault
          /\ UNCHANGED toggle
       \/ Unplugged /\ UNCHANGED deviceVars

\* Variants of clear_halt, below: the host's toggle is left alone; the data
\* phase is tried again.
clear_halt_KeepsToggle ==
    /\ pc = "clear" /\ plugged /\ ClearsIn
    /\ response' = 0 /\ pc' = "csw"
    /\ UNCHANGED <<unit, plugged, store, outHalted, taking, sense,
                   cmd, tag, data, rc, toggle, faults, broken>>
clear_halt_Retries ==
    /\ pc = "clear" /\ plugged /\ ClearsIn
    /\ toggle' = [toggle EXCEPT !.in = 0]
    /\ response' = 0 /\ pc' = "data"
    /\ UNCHANGED <<unit, plugged, store, outHalted, taking, sense,
                   cmd, tag, data, rc, faults, broken>>

\* UsbBus::clear_halt, of the IN endpoint whichever one stalled; the toggle
\* is reset at both ends. The data phase then counts as 0 bytes.
clear_halt ==
    /\ pc = "clear"
    /\ \/ /\ plugged /\ ClearsIn
          /\ UNCHANGED <<unit, plugged, store, outHalted, taking, sense>>
          /\ toggle' = [toggle EXCEPT !.in = 0]
          /\ response' = 0 /\ pc' = "csw"
          /\ UNCHANGED <<cmd, tag, data, rc, faults, broken>>
       \/ plugged /\ Fault /\ UNCHANGED <<toggle, deviceVars>>
       \/ Unplugged /\ UNCHANGED deviceVars

\* The status wrapper: neither its signature nor its tag is looked at.
StatusOf(packet) ==
    IF packet.size < 13 THEN "ProtocolError"
    ELSE CASE packet.body[2] = 0 -> "Ok"
           [] packet.body[2] = 1 -> "CommandFailed"
           [] OTHER              -> "ProtocolError"

\* A stall is not looked for here: the halt stays, and the wrapper behind it.
GetCsw ==
    /\ pc = "csw"
    /\ \/ /\ BulkInOk(13)
          /\ Return(StatusOf(inFifo[1]))
          /\ UNCHANGED <<cmd, tag, response, data, faults, broken>>
       \/ /\ BulkInStall(13) /\ TransportError /\ broken' = TRUE
          /\ UNCHANGED faults
       \/ /\ BulkInError(13) /\ TransportError
          /\ UNCHANGED <<toggle, faults, broken>>
       \/ BulkInFault /\ Fault /\ UNCHANGED toggle
       \/ Unplugged /\ UNCHANGED deviceVars

CommandNext == SendCbw \/ DataIn \/ DataOut \/ clear_halt \/ GetCsw
=============================================================================
