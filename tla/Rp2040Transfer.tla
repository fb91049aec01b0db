--------------------------- MODULE Rp2040Transfer ---------------------------
(***************************************************************************)
(* cotton-usb-host/src/host/rp2040.rs: control and bulk transfers.  A task *)
(* cuts a transfer into packets, hands them to the hardware through two    *)
(* buffers, and sleeps; the hardware exchanges packets with a device and   *)
(* raises an interrupt, whose handler wakes the task.  Task, hardware and  *)
(* handler interleave: the task's registers are read and written in the    *)
(* code's order, one group of accesses to a step.                          *)
(*                                                                         *)
(* The pool of one control pipe (Pool) lets one transfer at a time in.     *)
(* Data are sequences of units: unit i of a transfer is the number i.      *)
(***************************************************************************)
EXTENDS Integers, Sequences, FiniteSets

CONSTANTS
    packet_size,    \* of every endpoint
    Ops,            \* the transfers that may be asked for: records with a kind,
                    \* size, type, and the number of units that the device sends
    MaxRace,        \* how many packets may pass while the task runs
    RaceErrors      \* may an error arrive while the task runs?

ASSUME TransferAssumption ==
    /\ packet_size \in Nat \ {0}
    /\ MaxRace \in Nat /\ RaceErrors \in BOOLEAN
    /\ \A o \in Ops :
          /\ o.kind \in {"control_in", "control_out", "control_none",
                         "bulk_in", "bulk_out", "clear_halt"}
          /\ o.size \in Nat /\ o.reply \in 0 .. o.size
          /\ o.type \in {"FixedSize", "VariableSize"}

VARIABLES
    op, stages,     \* the transfer, and what is left of it
    pc,             \* where the task is
    packetiser, depacketiser, in_flight, started,
    seen,           \* the value of sie_status that the future returned
    result,         \* "ok" or "err": how the last transfer ended
    toggle,         \* the data_toggle cells of the bulk endpoints
    buf,            \* what the caller's buffer holds (bulk or control in)
    sie_status, buff_status, inte, buffer_control,  \* registers
    sie,            \* the engine: is it running, and on which buffer?
    waker, woken,   \* is the task registered, and has it been woken?
    sent, received, devToggle,   \* the device
    failed,         \* the bulk endpoints whose last transfer failed
    race            \* packets since the task last slept

task == <<op, stages, pc, packetiser, depacketiser, in_flight, started, seen, result,
          toggle, buf, failed>>
registers == <<sie_status, buff_status, inte, buffer_control, sie>>
wakers == <<waker, woken>>
device == <<sent, received, devToggle>>
vars == <<task, registers, wakers, device, race>>

stage == Head(stages)
Endpoint == IF op.kind = "bulk_in" THEN "in" ELSE IF op.kind = "bulk_out" THEN "out" ELSE "control"
Errors == {"STALL", "RX_TIMEOUT"}
Awaited == Errors \cup {"TRANS_COMPLETE"}
Smaller(a, b) == IF a < b THEN a ELSE b
Units(from, n) == [i \in 1 .. n |-> from + i]

\* The number of packets, as control_transfer_inner computes it, decides on
\* double buffering and on interrupts for each buffer.
packets == stage.size \div packet_size + 1
DoubleBuffered == packets > 1

Unused == [available |-> FALSE, full |-> FALSE, pid |-> FALSE, last |-> FALSE, data |-> <<>>]
-----------------------------------------------------------------------------
(* The stages of each transfer.                                            *)

Setup == [dir |-> "setup", size |-> 0, pid |-> FALSE, zlp |-> FALSE, reply |-> 0]
\* Control data start with PID1, and never end with an empty packet.
Control(dir, size, reply) ==
    [dir |-> dir, size |-> size, pid |-> TRUE, zlp |-> size = 0, reply |-> reply]
Bulk(dir, o) ==
    [dir |-> dir, size |-> o.size, pid |-> toggle[dir], reply |-> o.reply,
     zlp |-> IF o.type = "FixedSize" THEN o.size = 0 ELSE o.size % packet_size = 0]

StagesOf(o) ==
    CASE o.kind = "control_in"  -> <<Setup, Control("in", o.size, o.reply), Control("out", 0, 0)>>
      [] o.kind = "control_out" -> <<Setup, Control("out", o.size, 0), Control("in", 0, 0)>>
      [] o.kind \in {"control_none", "clear_halt"} -> <<Setup, Control("in", 0, 0)>>
      [] o.kind = "bulk_in"     -> <<Bulk("in", o)>>
      [] o.kind = "bulk_out"    -> <<Bulk("out", o)>>

\* clear_halt is called for an IN endpoint whose transfer failed; there is no
\* such call for an OUT endpoint, which is not used again.
Usable(o) ==
    CASE o.kind = "bulk_in" -> "in" \notin failed
      [] o.kind = "bulk_out" -> "out" \notin failed
      [] o.kind = "clear_halt" -> "in" \in failed
      [] OTHER -> TRUE

Start(o) ==
    /\ pc = "idle"
    /\ Usable(o)
    /\ op' = o /\ stages' = StagesOf(o)
    /\ pc' = "start"
    /\ buf' = <<>> /\ sent' = 0 /\ received' = <<>>
    /\ UNCHANGED <<packetiser, depacketiser, in_flight, started, seen, result, toggle, failed,
                   registers, wakers, devToggle, race>>

\* send_setup, up to the wait; or the beginning of control_transfer_inner, with
\* a new packetiser and depacketiser.  (At each stage of a control transfer the
\* device starts again with PID1.)
StartStage ==
    /\ pc = "start"
    /\ sie_status' = {}
    /\ buffer_control' = [b \in 0 .. 1 |-> Unused]
    /\ packetiser' = [next_prep |-> 0, remain |-> stage.size, offset |-> 0,
                      need_zero_size_packet |-> stage.zlp]
    /\ depacketiser' = [next_retire |-> 0, remain |-> stage.size, packet_parity |-> FALSE]
    /\ in_flight' = 0
    /\ IF stage.dir = "setup"
       THEN pc' = "poll" /\ started' = TRUE /\ sie' = [running |-> TRUE, which |-> 0]
       ELSE pc' = "prepare" /\ started' = FALSE /\ sie' = [running |-> FALSE, which |-> 0]
    /\ devToggle' = [devToggle EXCEPT !["control"] = TRUE]
    /\ UNCHANGED <<op, stages, seen, result, toggle, buf, failed, buff_status, inte, wakers,
                   sent, received, race>>

\* After the SETUP, the caller's buffer turns out to be shorter than wLength.
BufferTooSmall ==
    /\ pc = "start"
    /\ op.kind \in {"control_in", "control_out"} /\ Len(stages) = 2 /\ stage.size > 0
    /\ pc' = "idle" /\ result' = "err"
    /\ UNCHANGED <<op, stages, packetiser, depacketiser, in_flight, started, seen, toggle, buf,
                   failed, registers, wakers, device, race>>
-----------------------------------------------------------------------------
(* The loop of control_transfer_inner.                                     *)

\* The order of the steps; the last two are those after TRANS_COMPLETE.
After == [prepare |-> "prepare2", prepare2 |-> "arm",
          retire |-> "retire2", retire2 |-> "prepare",
          complete |-> "complete2", complete2 |-> "done"]

next_packet ==
    LET remain == packetiser.remain IN
    IF remain = 0
    THEN [some |-> packetiser.need_zero_size_packet, len |-> 0, last |-> TRUE]
    ELSE [some |-> TRUE, len |-> Smaller(remain, packet_size),
          last |-> \/ remain < packet_size
                   \/ remain = packet_size /\ ~packetiser.need_zero_size_packet]

\* Mutant of MayPrepare: a buffer is handed over as soon as the hardware is
\* done with it, whether or not its data have been taken.
MayPrepareAnyway ==
    ~buffer_control[packetiser.next_prep].available /\ next_packet.some

MayPrepare ==
    /\ in_flight < 2
    /\ ~buffer_control[packetiser.next_prep].available
    /\ next_packet.some

\* Mutant of Pid: every packet has the first one's PID.
PidOfFirst(b) == stage.pid

Pid(b) == IF b = 0 THEN stage.pid ELSE ~stage.pid

\* What prepare leaves in the buffer's half of ep_buffer_control.
Prepared ==
    LET p == packetiser IN
    [available |-> TRUE, full |-> stage.dir = "out", pid |-> Pid(p.next_prep),
     last |-> next_packet.last,
     data |-> IF stage.dir = "out" THEN Units(p.offset, next_packet.len) ELSE <<>>]

\* An empty packet in the second buffer: the address of its data is taken all
\* the same, and lies beyond the end of the caller's slice.
BeyondTheSlice == stage.dir = "out" /\ packetiser.next_prep = 1 /\ next_packet.len = 0

Prepare ==
    /\ pc \in {"prepare", "prepare2"}
    /\ MayPrepare
    /\ IF BeyondTheSlice
       THEN pc' = "panicked" /\ UNCHANGED <<packetiser, buffer_control, in_flight>>
       ELSE /\ pc' = After[pc]
            /\ buffer_control' = [buffer_control EXCEPT ![packetiser.next_prep] = Prepared]
            /\ packetiser' = [next_prep |-> 1 - packetiser.next_prep,
                              remain |-> packetiser.remain - next_packet.len,
                              offset |-> packetiser.offset + next_packet.len,
                              need_zero_size_packet |->
                                 packetiser.need_zero_size_packet /\ packetiser.remain # 0]
            /\ in_flight' = in_flight + 1
    /\ UNCHANGED <<op, stages, depacketiser, started, seen, result, toggle, buf, failed,
                   sie_status, buff_status, inte, sie, wakers, device, race>>

PrepareNothing ==
    /\ pc \in {"prepare", "prepare2"}
    /\ ~MayPrepare
    /\ pc' = After[pc]
    /\ UNCHANGED <<op, stages, packetiser, depacketiser, in_flight, started, seen, result,
                   toggle, buf, failed, registers, wakers, device, race>>

\* Mutant of Armed: a transfer of three packets does without.
ArmedLate == Awaited \cup (IF packets > 3 THEN {"BUFF_STATUS"} ELSE {})

Armed == Awaited \cup (IF packets > 2 THEN {"BUFF_STATUS"} ELSE {})

\* The status is cleared, interrupts are enabled and the hardware is started.
Arm ==
    /\ pc = "arm"
    /\ pc' = "poll"
    /\ sie_status' = sie_status \ Errors
    /\ buff_status' = {}
    /\ inte' = inte \cup Armed
    /\ started' = TRUE
    /\ sie' = IF started THEN sie ELSE [sie EXCEPT !.running = TRUE]
    /\ UNCHANGED <<op, stages, packetiser, depacketiser, in_flight, seen, result, toggle, buf,
                   failed, buffer_control, wakers, device, race>>

(* Rp2040ControlEndpoint::poll: register, read sie_status, ...             *)
Poll ==
    /\ pc = "poll"
    /\ pc' = "intr"
    /\ waker' = TRUE /\ woken' = FALSE
    /\ seen' = sie_status
    /\ UNCHANGED <<op, stages, packetiser, depacketiser, in_flight, started, result, toggle,
                   buf, failed, registers, device, race>>

Intr == sie_status \cup (IF buff_status # {} THEN {"BUFF_STATUS"} ELSE {})

(* ... then read intr, and clear the errors.                               *)
PollIntr ==
    /\ pc = "intr"
    /\ sie_status' = sie_status \ Errors
    /\ \/ Intr # {} /\ pc' = "ready" /\ UNCHANGED <<inte, race>>
       \/ Intr = {} /\ pc' = "wait" /\ inte' = inte \cup Awaited /\ race' = 0
    /\ UNCHANGED <<op, stages, packetiser, depacketiser, in_flight, started, seen, result,
                   toggle, buf, failed, buff_status, buffer_control, sie, wakers, device>>

Wake ==
    /\ pc = "wait"
    /\ woken
    /\ pc' = "poll"
    /\ UNCHANGED <<op, stages, packetiser, depacketiser, in_flight, started, seen, result,
                   toggle, buf, failed, registers, wakers, device, race>>

\* The future is ready, with the status in seen.  TRANS_COMPLETE comes before
\* the errors.  send_setup has no buffers to look after.
Ready ==
    /\ pc = "ready"
    /\ IF stage.dir = "setup" THEN UNCHANGED <<buff_status, inte>>
       ELSE buff_status' = {} /\ inte' = inte \ Awaited
    /\ \/ /\ "TRANS_COMPLETE" \in seen
          /\ pc' = IF stage.dir = "setup" THEN "done" ELSE "complete"
          /\ UNCHANGED <<result, failed>>
       \/ /\ "TRANS_COMPLETE" \notin seen
          /\ seen \cap Errors # {}
          /\ pc' = "idle" /\ result' = "err"
          /\ failed' = failed \cup ({Endpoint} \ {"control"})
       \/ /\ seen = {}
          /\ pc' = IF stage.dir = "setup" THEN "poll" ELSE "retire"
          /\ UNCHANGED <<result, failed>>
    /\ UNCHANGED <<op, stages, packetiser, depacketiser, in_flight, started, seen, toggle, buf,
                   sie_status, buffer_control, sie, wakers, device, race>>

\* A buffer that was received into is full, one that was sent is not.
Ripe ==
    /\ in_flight > 0
    /\ buffer_control[depacketiser.next_retire].full = (stage.dir = "in")

\* Mutant of ParityAfter: the empty packet at the end is not counted.
ParityAfterData(data) ==
    IF stage.dir = "in" /\ data = <<>> THEN depacketiser.packet_parity
    ELSE ~depacketiser.packet_parity

ParityAfter(data) == ~depacketiser.packet_parity

Retire ==
    /\ pc \in {"retire", "retire2", "complete", "complete2"}
    /\ pc' = After[pc]
    /\ \/ /\ Ripe
          /\ LET data == buffer_control[depacketiser.next_retire].data
                 n == Smaller(depacketiser.remain, Len(data))
             IN  /\ depacketiser' =
                       [next_retire |-> 1 - depacketiser.next_retire,
                        remain |-> depacketiser.remain - (IF stage.dir = "in" THEN n ELSE 0),
                        packet_parity |-> ParityAfter(data)]
                 /\ buf' = IF stage.dir = "in" THEN buf \o SubSeq(data, 1, n) ELSE buf
          /\ in_flight' = in_flight - 1
       \/ ~Ripe /\ UNCHANGED <<depacketiser, in_flight, buf>>
    /\ UNCHANGED <<op, stages, packetiser, started, seen, result, toggle, failed, registers,
                   wakers, device, race>>

\* The stage has succeeded.  Bulk transfers keep the toggle for the next one.
Done ==
    /\ pc = "done"
    /\ stages' = Tail(stages)
    /\ sie_status' = IF stage.dir = "setup" THEN sie_status ELSE sie_status \ Errors
    /\ IF Len(stages) > 1 THEN pc' = "start" /\ UNCHANGED <<result, toggle, failed>>
       ELSE /\ pc' = "idle" /\ result' = "ok"
            /\ toggle' = CASE Endpoint # "control" ->
                                 [toggle EXCEPT ![Endpoint] = @ # depacketiser.packet_parity]
                           [] op.kind = "clear_halt" -> [toggle EXCEPT !["in"] = FALSE]
                           [] OTHER -> toggle
            /\ failed' = IF op.kind = "clear_halt" THEN failed \ {"in"} ELSE failed
    /\ UNCHANGED <<op, packetiser, depacketiser, in_flight, started, seen, buf, buff_status,
                   inte, buffer_control, sie, wakers, device, race>>
-----------------------------------------------------------------------------
(* The interrupt handler.                                                  *)

Ints == Intr \cap inte

\* The buffer bits of this pipe are left set, and what is still asserted is
\* masked.
on_irq ==
    /\ Ints # {}
    /\ woken' = (woken \/ waker)
    /\ waker' = FALSE
    /\ inte' = inte \ Ints
    /\ UNCHANGED <<task, sie_status, buff_status, buffer_control, sie, device, race>>
-----------------------------------------------------------------------------
(* The hardware and the device (external).                                 *)

\* Packets may pass while the task is awake, but not many.
Asleep == pc = "wait"
MayRace == Asleep \/ race < MaxRace
Raced == race' = IF Asleep THEN race ELSE race + 1

HwSetup ==
    /\ sie.running /\ pc \notin {"idle", "start"} /\ stage.dir = "setup"
    /\ MayRace /\ Raced
    /\ sie_status' = sie_status \cup {"TRANS_COMPLETE"}
    /\ sie' = [sie EXCEPT !.running = FALSE]
    /\ devToggle' = IF op.kind = "clear_halt" THEN [devToggle EXCEPT !["in"] = FALSE]
                    ELSE devToggle
    /\ UNCHANGED <<task, buff_status, inte, buffer_control, wakers, sent, received>>

\* One buffer has been dealt with.  The last one, or a short packet, ends the
\* transaction; with double buffering, each sets its bit in buff_status.
Completed(half, end) ==
    /\ buffer_control' = [buffer_control EXCEPT ![sie.which] = half]
    /\ sie_status' = IF end THEN sie_status \cup {"TRANS_COMPLETE"} ELSE sie_status
    /\ sie' = [running |-> ~end, which |-> IF DoubleBuffered THEN 1 - sie.which ELSE 0]
    /\ buff_status' = IF DoubleBuffered THEN buff_status \cup {sie.which} ELSE buff_status

HwPacket(dir) ==
    /\ sie.running /\ stage.dir = dir /\ buffer_control[sie.which].available
    /\ MayRace /\ Raced
    /\ UNCHANGED <<task, inte, wakers>>

\* The device sends its next packet, and the hardware drops it unless it has
\* the PID that is expected.
HwIn ==
    LET half == buffer_control[sie.which]
        n == Smaller(packet_size, stage.reply - sent)
    IN  /\ HwPacket("in")
        /\ sent' = sent + n
        /\ devToggle' = [devToggle EXCEPT ![Endpoint] = ~@]
        /\ IF half.pid = devToggle[Endpoint]
           THEN Completed([half EXCEPT !.available = FALSE, !.full = TRUE, !.data = Units(sent, n)],
                          half.last \/ n < packet_size)
           ELSE UNCHANGED <<buffer_control, sie_status, sie, buff_status>>
        /\ UNCHANGED received

\* The device acknowledges a packet, but takes it for a repetition unless it has
\* the PID that is expected.
HwOut ==
    LET half == buffer_control[sie.which] IN
    /\ HwPacket("out")
    /\ Completed([half EXCEPT !.available = FALSE, !.full = FALSE], half.last)
    /\ IF half.pid = devToggle[Endpoint]
       THEN /\ received' = received \o half.data
            /\ devToggle' = [devToggle EXCEPT ![Endpoint] = ~@]
       ELSE UNCHANGED <<received, devToggle>>
    /\ UNCHANGED sent

\* The device stalls or is gone.  (A SETUP packet is never stalled.)
HwError(e) ==
    /\ sie.running /\ (Asleep \/ RaceErrors)
    /\ IF stage.dir = "setup" THEN e = "RX_TIMEOUT" ELSE buffer_control[sie.which].available
    /\ sie_status' = sie_status \cup {e}
    /\ sie' = [sie EXCEPT !.running = FALSE]
    /\ UNCHANGED <<task, buff_status, inte, buffer_control, wakers, device, race>>
-----------------------------------------------------------------------------
Init ==
    /\ op = [kind |-> "none"] /\ stages = <<>> /\ pc = "idle"
    /\ packetiser = [next_prep |-> 0, remain |-> 0, offset |-> 0,
                     need_zero_size_packet |-> FALSE]
    /\ depacketiser = [next_retire |-> 0, remain |-> 0, packet_parity |-> FALSE]
    /\ in_flight = 0 /\ started = FALSE /\ seen = {} /\ result = "ok"
    /\ toggle = [e \in {"in", "out"} |-> FALSE] /\ buf = <<>>
    /\ sie_status = {} /\ buff_status = {} /\ inte = {}
    /\ buffer_control = [b \in 0 .. 1 |-> Unused]
    /\ sie = [running |-> FALSE, which |-> 0]
    /\ waker = FALSE /\ woken = FALSE
    /\ sent = 0 /\ received = <<>>
    /\ devToggle = [e \in {"in", "out", "control"} |-> FALSE]
    /\ failed = {} /\ race = 0

Task ==
    \/ StartStage \/ BufferTooSmall \/ Prepare \/ PrepareNothing \/ Arm \/ Poll \/ PollIntr
    \/ Wake \/ Ready \/ Retire \/ Done
Hardware == HwSetup \/ HwIn \/ HwOut

Next ==
    \/ \E o \in Ops : Start(o)
    \/ Task \/ on_irq \/ Hardware
    \/ \E e \in Errors : HwError(e)

Spec == Init /\ [][Next]_vars

\* The executor polls the task, the handler runs, and the device does not
\* refuse (NAK) for ever.
FairSpec == Spec /\ WF_vars(Task) /\ WF_vars(on_irq) /\ WF_vars(Hardware)
-----------------------------------------------------------------------------
TypeOK ==
    /\ in_flight \in 0 .. 2
    /\ packetiser.next_prep \in 0 .. 1 /\ packetiser.remain \in Nat
    /\ depacketiser.next_retire \in 0 .. 1 /\ depacketiser.remain \in Nat
    /\ seen \subseteq Awaited /\ sie_status \subseteq Awaited
    /\ buff_status \subseteq 0 .. 1
    /\ inte \subseteq Awaited \cup {"BUFF_STATUS"}
    /\ race \in 0 .. MaxRace

(***************************************************************************)
(* A transfer that is reported as successful has moved every unit, once    *)
(* and in order, through the two buffers: the caller's buffer holds what   *)
(* the device sent, or the device has received all of the caller's.        *)
(***************************************************************************)
DataIntact ==
    pc = "idle" /\ result = "ok" /\ op.kind # "none" =>
       /\ op.kind \in {"bulk_in", "control_in"} => buf = Units(0, op.reply)
       /\ op.kind \in {"bulk_out", "control_out"} => received = Units(0, op.size)

(***************************************************************************)
(* "data_toggle ... is updated for the endpoint state after the            *)
(* transaction" (HostController): between transfers, host and device agree *)
(* on the PID of the next packet, for every number of packets, with or     *)
(* without an empty one at the end, and after a halt has been cleared.     *)
(***************************************************************************)
TogglesAgree ==
    pc = "idle" => \A e \in {"in", "out"} \ failed : toggle[e] = devToggle[e]

(***************************************************************************)
(* Every transfer ends, with a result or an error: neither the task nor    *)
(* the hardware is left waiting for the other.                             *)
(***************************************************************************)
TransferEnds == pc # "idle" ~> pc = "idle"

(***************************************************************************)
(* A variable-size transfer "does have a zero-length packet in that case"  *)
(* (TransferType), and no transfer makes prepare index past the slice.     *)
(***************************************************************************)
NoPanic == pc # "panicked"
=============================================================================
