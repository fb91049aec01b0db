--------------------------- MODULE InterruptPipes ---------------------------
(***************************************************************************)
(* cotton-usb-host/src/host/rp2040.rs: interrupt pipes, device detection   *)
(* and the interrupt handler that wakes whoever waits for them.  The       *)
(* hardware polls the endpoints of the open pipes by itself; tasks sleep   *)
(* until a buffer is full, the root port changes or a control transfer is  *)
(* over.  The handler preempts the tasks, and the hardware stops for none. *)
(*                                                                         *)
(* A control transfer (see Rp2040Transfer) is here what it does to the     *)
(* registers it shares with the pipes.  Pipe 0 is the control pipe.        *)
(***************************************************************************)
EXTENDS Integers, Sequences, SequencesExt, FiniteSetsExt

CONSTANTS
    Devices,    \* devices with an interrupt endpoint
    Hubs,       \* those whose pipe is kept for good (HubState)
    Tasks, TaskOf,  \* the task that reads each device's pipe
    Main,       \* the task that reads device_events and makes transfers
    NPipes,     \* pipes in the pool: 15
    MaxPackets, \* packets that each device sends between two plugs
    Lengths,    \* of control transfers, in packets
    MaxMoves    \* changes of the wiring

NoTask == "none"

ASSUME PipesAssumption ==
    /\ Hubs \subseteq Devices /\ TaskOf \in [Devices -> Tasks] /\ Main \in Tasks
    /\ NoTask \notin Tasks
    /\ NPipes \in Nat \ {0} /\ MaxPackets \in [Devices -> Nat] /\ MaxMoves \in Nat
    /\ Lengths \subseteq Nat \ {0}

VARIABLES
    pc,         \* where each task is
    todo,       \* what the task has still to poll in this call of poll_next
    woken,      \* the tasks that the executor will poll
    waker,      \* the task registered with each pipe's waker and the device_waker
    pipe,       \* the pipe that each device's stream holds, or 0
    taken,      \* the packets that the stream has yielded
    status,     \* DeviceDetect's idea of the root port
    buff_status, inte, int_ep_ctrl, buffer_control, host_addr_endp,  \* registers
    conn,       \* the root port has changed: HOST_CONN_DIS
    ctl,        \* the control transfer: its length, whether the hardware is at
                \* it, and TRANS_COMPLETE
    irq,        \* where the handler is, or "idle"
    ints,       \* the interrupts that the handler was called for
    late,       \* the sources whose event, not yet seen, came while the handler ran
    line,       \* the root port
    present, sent, devToggle,   \* the devices
    robbed,     \* the devices of which a pipe without a stream has had a packet
    moves

tasks == <<pc, todo, woken, waker, pipe, taken, status>>
registers == <<buff_status, inte, int_ep_ctrl, buffer_control, host_addr_endp, conn, ctl>>
handler == <<irq, ints, late>>
plant == <<line, present, sent, devToggle, robbed, moves>>
vars == <<tasks, registers, handler, plant>>

Pipes == 1 .. NPipes
Detect == NPipes + 1    \* the device_waker
Lines == {"Absent", "Present"}

Armed(pid) == [available |-> TRUE, full |-> FALSE, pid |-> pid, data |-> 0]

Init ==
    /\ pc = [t \in Tasks |-> "run"] /\ todo = [t \in Tasks |-> <<>>]
    /\ woken = {} /\ waker = [s \in 0 .. Detect |-> NoTask]
    /\ pipe = [d \in Devices |-> 0] /\ taken = [d \in Devices |-> 0]
    /\ status = "Absent"
    /\ buff_status = {} /\ inte = {"HOST_CONN_DIS"} /\ int_ep_ctrl = {}
    /\ buffer_control = [p \in Pipes |-> [Armed(0) EXCEPT !.available = FALSE]]
    /\ host_addr_endp = [p \in Pipes |-> NoTask]
    /\ conn = FALSE
    /\ ctl = [packets |-> 0, running |-> FALSE, complete |-> FALSE]
    /\ irq = "idle" /\ ints = {} /\ late = {}
    /\ line = "Absent" /\ present = Devices /\ sent = [d \in Devices |-> 0]
    /\ devToggle = [d \in Devices |-> 0] /\ robbed = {} /\ moves = 0
-----------------------------------------------------------------------------
(* The interrupt handler.                                                  *)

Intr ==
    (IF buff_status # {} THEN {"BUFF_STATUS"} ELSE {})
    \cup (IF conn THEN {"HOST_CONN_DIS"} ELSE {})
    \cup (IF ctl.complete THEN {"TRANS_COMPLETE"} ELSE {})

\* Wake, and forget, the tasks registered for some sources.
Wakes(sources) ==
    /\ woken' = woken \cup {waker[s] : s \in {w \in sources : waker[w] # NoTask}}
    /\ waker' = [s \in DOMAIN waker |-> IF s \in sources THEN NoTask ELSE waker[s]]
    /\ UNCHANGED <<pc, todo, pipe, taken, status>>

IrqEnter ==
    /\ irq = "idle" /\ Intr \cap inte # {}
    /\ ints' = Intr \cap inte
    /\ irq' = IF "BUFF_STATUS" \in ints' THEN "buffers" ELSE "others"
    /\ UNCHANGED <<tasks, registers, late, plant>>

\* for i in 0..15: the last pipe is not among them.
IrqBuffers ==
    /\ irq = "buffers"
    /\ Wakes(buff_status \cap 0 .. NPipes - 1)
    /\ irq' = "clear"
    /\ UNCHANGED <<registers, ints, late, plant>>

\* All bits but the control pipe's, whatever has been set since.
IrqClear ==
    /\ irq = "clear"
    /\ buff_status' = buff_status \cap {0}
    /\ irq' = "others"
    /\ UNCHANGED <<tasks, inte, int_ep_ctrl, buffer_control, host_addr_endp, conn, ctl, ints,
                   late, plant>>

IrqOthers ==
    /\ irq = "others"
    /\ conn' = (conn /\ "HOST_CONN_DIS" \notin ints)
    /\ Wakes((IF "HOST_CONN_DIS" \in ints THEN {Detect} ELSE {})
             \cup (IF ints \cap {"BUFF_STATUS", "TRANS_COMPLETE"} # {} THEN {0} ELSE {}))
    /\ irq' = "mask"
    /\ UNCHANGED <<buff_status, inte, int_ep_ctrl, buffer_control, host_addr_endp, ctl, ints,
                   late, plant>>

\* "Disable any remaining interrupts so we don't have an IRQ storm"
IrqMask ==
    /\ irq = "mask"
    /\ inte' = inte \ Intr
    /\ irq' = "idle" /\ ints' = {}
    /\ UNCHANGED <<tasks, buff_status, int_ep_ctrl, buffer_control, host_addr_endp, conn, ctl,
                   late, plant>>

on_irq == IrqEnter \/ IrqBuffers \/ IrqClear \/ IrqOthers \/ IrqMask
-----------------------------------------------------------------------------
(* Tasks.  They run when the handler does not.                             *)

At(t, where) == pc[t] = where /\ irq = "idle"
Goes(t, where) == pc' = [pc EXCEPT ![t] = where]

\* The registers of a pipe for device d.
interrupt_pipe(d, p) ==
    /\ host_addr_endp' = [host_addr_endp EXCEPT ![p] = d]
    /\ buffer_control' = [buffer_control EXCEPT ![p] = Armed(0)]

\* alloc_interrupt_pipe or try_alloc_interrupt_pipe.
Free == Pipes \ {pipe[d] : d \in Devices}
Open(d) ==
    /\ At(TaskOf[d], "run") /\ d \in present /\ pipe[d] = 0 /\ Free # {}
    /\ pipe' = [pipe EXCEPT ![d] = Min(Free)]
    /\ interrupt_pipe(d, Min(Free))
    /\ taken' = [taken EXCEPT ![d] = 0]
    /\ late' = late \ {Min(Free)}
    /\ UNCHANGED <<pc, todo, woken, waker, status, buff_status, inte, int_ep_ctrl, conn, ctl,
                   irq, ints, plant>>

\* The stream is dropped, and with it Pooled; the hardware is not told.
Drop(d) ==
    /\ At(TaskOf[d], "run") /\ pipe[d] # 0 /\ d \notin Hubs /\ d \notin present
    /\ pipe' = [pipe EXCEPT ![d] = 0]
    /\ UNCHANGED <<pc, todo, woken, waker, taken, status, registers, handler, plant>>

\* The sources of a task's streams.
Sources(t) ==
    {pipe[d] : d \in {e \in Devices : TaskOf[e] = t /\ pipe[e] # 0}}
    \cup (IF t = Main THEN {Detect} ELSE {})

\* poll_next of the streams a task has, joined by select.
PollNext(t) ==
    /\ At(t, "run") /\ Sources(t) # {}
    /\ \E order \in SetToSeqs(Sources(t)) : todo' = [todo EXCEPT ![t] = order]
    /\ Goes(t, "register")
    /\ woken' = woken \ {t}
    /\ UNCHANGED <<waker, pipe, taken, status, registers, handler, plant>>

\* set_waker, and the same of DeviceDetect.
Register(t) ==
    /\ At(t, "register")
    /\ waker' = [waker EXCEPT ![Head(todo[t])] = t]
    /\ Goes(t, "check")
    /\ UNCHANGED <<todo, woken, pipe, taken, status, registers, handler, plant>>

\* The next source; or all are pending, and the task sleeps.
Pends(t) ==
    /\ todo' = [todo EXCEPT ![t] = Tail(@)]
    /\ Goes(t, IF Len(todo[t]) > 1 THEN "register" ELSE "sleep")
Yields(t) == todo' = [todo EXCEPT ![t] = <<>>] /\ Goes(t, "run")

\* Mutant of NextPid: the toggle is left as it was.
NextPid_Stuck(pid) == pid
NextPid(pid) == 1 - pid

\* Rp2040InterruptPipe::poll, of a full buffer ...
PollFull(t) ==
    /\ At(t, "check") /\ Head(todo[t]) \in Pipes
    /\ LET p == Head(todo[t])
           d == CHOOSE e \in Devices : pipe[e] = p
       IN  /\ buffer_control[p].full
           /\ taken' = [taken EXCEPT ![d] = buffer_control[p].data]
           /\ buffer_control' = [buffer_control EXCEPT ![p] = Armed(NextPid(@.pid))]
           /\ late' = late \ {p}
    /\ Yields(t)
    /\ UNCHANGED <<woken, waker, pipe, status, buff_status, inte, int_ep_ctrl, host_addr_endp,
                   conn, ctl, irq, ints, plant>>

\* Mutant of PollEmpty: the interrupt is not enabled again.
PollEmpty_Masked(t) ==
    /\ At(t, "check") /\ Head(todo[t]) \in Pipes
    /\ ~buffer_control[Head(todo[t])].full
    /\ inte' = IF Head(todo[t]) \in int_ep_ctrl THEN inte ELSE inte \cup {"BUFF_STATUS"}
    /\ int_ep_ctrl' = int_ep_ctrl \cup {Head(todo[t])}
    /\ Pends(t)
    /\ UNCHANGED <<woken, waker, pipe, taken, status, buff_status, buffer_control,
                   host_addr_endp, conn, ctl, handler, plant>>

\* ... and of an empty one.
PollEmpty(t) ==
    /\ At(t, "check") /\ Head(todo[t]) \in Pipes
    /\ ~buffer_control[Head(todo[t])].full
    /\ inte' = inte \cup {"BUFF_STATUS"}
    /\ int_ep_ctrl' = int_ep_ctrl \cup {Head(todo[t])}
    /\ Pends(t)
    /\ UNCHANGED <<woken, waker, pipe, taken, status, buff_status, buffer_control,
                   host_addr_endp, conn, ctl, handler, plant>>

\* Rp2040DeviceDetect::poll_next
PollDetect(t) ==
    /\ At(t, "check") /\ Head(todo[t]) = Detect
    /\ status' = line
    /\ inte' = inte \cup {"HOST_CONN_DIS"}
    /\ IF line # status THEN Yields(t) ELSE Pends(t)
    /\ late' = late \ {Detect}
    /\ UNCHANGED <<woken, waker, pipe, taken, buff_status, int_ep_ctrl, buffer_control,
                   host_addr_endp, conn, ctl, irq, ints, plant>>

Resume(t) ==
    /\ t \in woken
    /\ \/ At(t, "sleep") /\ Goes(t, "run")
       \/ At(t, "transfer_sleep") /\ Goes(t, "transfer")
    /\ UNCHANGED <<todo, woken, waker, pipe, taken, status, registers, handler, plant>>
-----------------------------------------------------------------------------
(* Control transfers, by Main.                                             *)

\* The beginning of control_transfer_inner: one packet, two, or more.
Prepared(n) ==
    /\ buff_status' = buff_status \ {0}
    /\ inte' = inte \cup {"TRANS_COMPLETE"} \cup (IF n > 2 THEN {"BUFF_STATUS"} ELSE {})
StartTransfer(n) ==
    /\ At(Main, "run")
    /\ ctl' = [packets |-> n, running |-> TRUE, complete |-> FALSE]
    /\ Prepared(n)
    /\ Goes(Main, "transfer")
    /\ UNCHANGED <<todo, woken, waker, pipe, taken, status, int_ep_ctrl, buffer_control,
                   host_addr_endp, conn, handler, plant>>

\* Rp2040ControlEndpoint::poll: register, and then read the registers.
PollTransfer ==
    /\ At(Main, "transfer")
    /\ waker' = [waker EXCEPT ![0] = Main] /\ woken' = woken \ {Main}
    /\ Goes(Main, "intr")
    /\ UNCHANGED <<todo, pipe, taken, status, registers, handler, plant>>

PollPending ==
    /\ At(Main, "intr") /\ Intr \cap {"BUFF_STATUS", "TRANS_COMPLETE"} = {}
    /\ inte' = inte \cup {"TRANS_COMPLETE"}
    /\ Goes(Main, "transfer_sleep")
    /\ UNCHANGED <<todo, woken, waker, pipe, taken, status, buff_status, int_ep_ctrl,
                   buffer_control, host_addr_endp, conn, ctl, handler, plant>>

\* The future is ready: the end, or another turn of the loop.
PollReady ==
    /\ At(Main, "intr") /\ Intr \cap {"BUFF_STATUS", "TRANS_COMPLETE"} # {}
    /\ IF ctl.complete
       THEN /\ buff_status' = buff_status \ {0} /\ inte' = inte \ {"TRANS_COMPLETE"}
            /\ ctl' = [ctl EXCEPT !.packets = 0]
            /\ Goes(Main, "run")
       ELSE Prepared(ctl.packets) /\ Goes(Main, "transfer") /\ UNCHANGED ctl
    /\ UNCHANGED <<todo, woken, waker, pipe, taken, status, int_ep_ctrl, buffer_control,
                   host_addr_endp, conn, handler, plant>>

Transfer == PollTransfer \/ PollPending \/ PollReady

Step(t) ==
    \/ Register(t) \/ PollFull(t) \/ PollEmpty(t) \/ PollDetect(t) \/ Resume(t)
    \/ t = Main /\ Transfer
-----------------------------------------------------------------------------
(* The hardware, the devices, and whoever plugs them in (external).        *)

Noted(source) ==
    /\ late' = IF irq = "idle" THEN late ELSE late \cup {source}
    /\ UNCHANGED <<irq, ints>>

\* A packet arrives.  One with the wrong toggle is acknowledged and discarded.
HwPacket(p) ==
    /\ p \in int_ep_ctrl /\ buffer_control[p].available
    /\ LET d == host_addr_endp[p] IN
       /\ d \in present /\ sent[d] < MaxPackets[d]
       /\ sent' = [sent EXCEPT ![d] = @ + 1]
       /\ devToggle' = [devToggle EXCEPT ![d] = 1 - @]
       /\ robbed' = robbed \cup ({d} \ {e \in Devices : pipe[e] = p})
       /\ IF buffer_control[p].pid = devToggle[d]
          THEN /\ buffer_control' = [buffer_control EXCEPT ![p] =
                     [@ EXCEPT !.available = FALSE, !.full = TRUE, !.data = sent[d] + 1]]
               /\ buff_status' = buff_status \cup {p} /\ Noted(p)
          ELSE UNCHANGED <<buffer_control, buff_status, handler>>
    /\ UNCHANGED <<tasks, inte, int_ep_ctrl, host_addr_endp, conn, ctl, line, present, moves>>

HwBuffer ==
    /\ ctl.running /\ ctl.packets > 1
    /\ buff_status' = buff_status \cup {0}
    /\ UNCHANGED <<tasks, inte, int_ep_ctrl, buffer_control, host_addr_endp, conn, ctl, handler,
                   plant>>

HwComplete ==
    /\ ctl.running
    /\ ctl' = [ctl EXCEPT !.running = FALSE, !.complete = TRUE]
    /\ UNCHANGED <<tasks, buff_status, inte, int_ep_ctrl, buffer_control, host_addr_endp, conn,
                   handler, plant>>

Moved == moves < MaxMoves /\ moves' = moves + 1

HwLine ==
    /\ Moved /\ \E l \in Lines \ {line} : line' = l
    /\ conn' = TRUE /\ Noted(Detect)
    /\ UNCHANGED <<tasks, buff_status, inte, int_ep_ctrl, buffer_control, host_addr_endp, ctl,
                   present, sent, devToggle, robbed>>

Unplug(d) ==
    /\ Moved /\ d \in present \ Hubs /\ present' = present \ {d}
    /\ UNCHANGED <<tasks, registers, handler, line, sent, devToggle, robbed>>

\* Back at the address that it had; it is announced when it has been seen to go.
Plug(d) ==
    /\ Moved /\ d \notin present /\ pipe[d] = 0 /\ present' = present \cup {d}
    /\ sent' = [sent EXCEPT ![d] = 0] /\ devToggle' = [devToggle EXCEPT ![d] = 0]
    /\ robbed' = robbed \ {d}
    /\ UNCHANGED <<tasks, registers, handler, line>>

Hardware == HwBuffer \/ HwComplete \/ \E p \in Pipes : HwPacket(p)

Next ==
    \/ on_irq \/ Hardware \/ HwLine
    \/ \E t \in Tasks : PollNext(t) \/ Step(t)
    \/ \E n \in Lengths : StartTransfer(n)
    \/ \E d \in Devices : Open(d) \/ Drop(d) \/ Unplug(d) \/ Plug(d)

Spec == Init /\ [][Next]_vars

-----------------------------------------------------------------------------
(***************************************************************************)
(* Nobody is forgotten: while a task sleeps on its streams, a full buffer  *)
(* of one of them, or a change of the root port that it has not reported,  *)
(* still has its interrupt to come; although the handler clears bits that  *)
(* it has not acted on, masks what is still asserted, and is called for    *)
(* control transfers and for pipes that were closed.  Only an event that   *)
(* comes while the handler runs may be missed, and those behind it (see    *)
(* NobodyForgottenEver): one of the forgotten is such an event, or a       *)
(* packet of a closed pipe is, which nobody will ever poll.                *)
(***************************************************************************)
Sleeping(t) == At(t, "sleep") /\ t \notin woken
Forgotten ==
    {pipe[d] : d \in {e \in Devices :
        /\ Sleeping(TaskOf[e]) /\ pipe[e] # 0 /\ buffer_control[pipe[e]].full
        /\ ~(pipe[e] \in buff_status /\ "BUFF_STATUS" \in inte)}}
    \cup (IF Sleeping(Main) /\ line # status /\ ~(conn /\ "HOST_CONN_DIS" \in inte)
          THEN {Detect} ELSE {})
Closed == buff_status \ ({0} \cup {pipe[d] : d \in Devices})
NobodyForgotten == Forgotten # {} => (Forgotten \cup Closed) \cap late # {}

(***************************************************************************)
(* The same without the exception.  It is false: an event in the course of *)
(* on_irq can be masked or cleared by it with nobody woken, when the task  *)
(* has registered with that event's source already and not yet with the    *)
(* one that the handler was called for.                                    *)
(***************************************************************************)
NobodyForgottenEver == Forgotten = {}

(***************************************************************************)
(* A stream yields every packet that its device has sent since it was      *)
(* plugged in, once and in order: all but the one that waits in the        *)
(* stream's own buffer have been yielded.  The exception is a device that  *)
(* a dropped stream's pipe, which the hardware goes on polling, has had a  *)
(* packet of.                                                              *)
(***************************************************************************)
InOrder(d) ==
    LET bc == buffer_control[pipe[d]]
    IN  taken[d] = (IF bc.full THEN bc.data - 1 ELSE sent[d]) /\ (bc.full => bc.data = sent[d])
PacketsInOrder == \A d \in present \ robbed : pipe[d] # 0 => InOrder(d)

(***************************************************************************)
(* The same of every device.  It is false: a device that comes back at the *)
(* address of one that was unplugged loses its packets to the old pipe.    *)
(***************************************************************************)
PacketsInOrderEver == \A d \in present : pipe[d] # 0 => InOrder(d)
=============================================================================
