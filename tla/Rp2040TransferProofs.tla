------------------------ MODULE Rp2040TransferProofs ------------------------
(***************************************************************************)
(* That the double-buffered transfers of the RP2040 driver move every unit *)
(* once and in order, and leave host and device agreed on the next PID:    *)
(* for any packet size, any transfers in any order, and hardware that runs *)
(* ahead of the task as far as the buffers let it.                         *)
(***************************************************************************)
EXTENDS Rp2040Transfer, SequenceTheorems, TLAPS

Dirs == {"setup", "in", "out"}
Stages == [dir : Dirs, size : Nat, pid : BOOLEAN, zlp : BOOLEAN, reply : Nat]
Halves == [available : BOOLEAN, full : BOOLEAN, pid : BOOLEAN, last : BOOLEAN, data : Seq(Nat)]
Waits == {"prepare", "prepare2", "arm", "poll", "intr", "wait", "ready"}
Completes == {"complete", "complete2", "done"}
\* The task is in the course of a stage.
Busy == Waits \cup {"retire", "retire2", "panicked"} \cup Completes

\* The values that the driver's and the device's variables can have.
Types ==
    /\ pc \in Busy \cup {"idle", "start"}
    /\ packetiser \in [next_prep : 0 .. 1, remain : Nat, offset : Nat,
                       need_zero_size_packet : BOOLEAN]
    /\ depacketiser \in [next_retire : 0 .. 1, remain : Nat, packet_parity : BOOLEAN]
    /\ in_flight \in 0 .. 2 /\ toggle \in [{"in", "out"} -> BOOLEAN]
    /\ buffer_control \in [0 .. 1 -> Halves]
    /\ sie \in [running : BOOLEAN, which : 0 .. 1]
    /\ devToggle \in [{"in", "out", "control"} -> BOOLEAN]
    /\ sent \in Nat /\ failed \subseteq {"in", "out"}

\* What is left of the transfer is the end of it.
StagesLeft ==
    LET Read == Control("in", op.size, op.reply)
        Write == Control("out", op.size, 0)
        Status(dir) == Control(dir, 0, 0)
    IN  CASE op.kind = "control_in" ->
                stages \in {<<Setup, Read, Status("out")>>, <<Read, Status("out")>>, <<Status("out")>>}
          [] op.kind = "control_out" ->
                stages \in {<<Setup, Write, Status("in")>>, <<Write, Status("in")>>, <<Status("in")>>}
          [] op.kind \in {"control_none", "clear_halt"} ->
                stages \in {<<Setup, Status("in")>>, <<Status("in")>>}
          [] OTHER -> stages = StagesOf(op)

\* The stages to come have moved nothing yet; those that are over, all.
Untouched ==
    \A i \in (IF pc = "start" THEN 1 ELSE 2) .. Len(stages) :
        /\ stages[i].dir = "in" => buf = <<>> /\ sent = 0
        /\ stages[i].dir = "out" => received = <<>>
Moved ==
    /\ op.kind = "control_in" /\ Len(stages) = 1 => buf = Units(0, op.reply)
    /\ op.kind = "control_out" /\ Len(stages) = 1 => received = Units(0, op.size)

Ended == "TRANS_COMPLETE" \in sie_status

\* An endpoint agrees with its device unless it is halted, or in use.
Agreed ==
    /\ \A e \in {"in", "out"} \ failed :
          pc \in {"idle", "start"} \/ Endpoint # e => toggle[e] = devToggle[e]
    /\ pc # "idle" => Endpoint \notin failed
    /\ pc # "idle" /\ op.kind = "clear_halt" =>
          /\ "in" \in failed
          /\ Len(stages) = 1 \/ (pc # "start" /\ Ended) => ~devToggle["in"]

\* What the task has seen has happened; the hardware stops when it has an end
\* or an error to report, and does not start by itself.
StatusOK ==
    /\ seen \subseteq Awaited /\ sie_status \subseteq Awaited
    /\ sie.running => pc \in Busy /\ sie_status = {}
    /\ pc \in {"intr", "ready"} =>
          /\ seen # {} => ~sie.running
          /\ "TRANS_COMPLETE" \in seen => Ended
    /\ pc \in Completes => Ended
    /\ pc \in Busy /\ ~started =>
          pc \in {"prepare", "prepare2", "arm", "panicked"} /\ ~sie.running /\ ~Ended
    /\ pc \in Busy /\ stage.dir = "setup" => pc \in {"poll", "intr", "wait", "ready", "done"}
-----------------------------------------------------------------------------
(* The two buffers, in the course of a stage that moves data.              *)

InFlight(b) == in_flight = 2 \/ (in_flight = 1 /\ b = depacketiser.next_retire)

\* The buffers that the hardware has dealt with and the task has not.
DoneCount ==
    LET r == depacketiser.next_retire IN
    IF in_flight = 0 \/ buffer_control[r].available THEN 0
    ELSE IF in_flight = 1 \/ buffer_control[1 - r].available THEN 1 ELSE 2

\* The buffer that the hardware has not dealt with, or is to be prepared.
Pos == IF DoneCount = 1 THEN 1 - depacketiser.next_retire ELSE depacketiser.next_retire
Ahead == in_flight - DoneCount

Pointers ==
    LET r == depacketiser.next_retire IN
    /\ packetiser.next_prep = IF in_flight = 1 THEN 1 - r ELSE r
    /\ depacketiser.packet_parity <=> r = 1
    /\ in_flight = 2 /\ buffer_control[r].available => buffer_control[1 - r].available
    /\ DoubleBuffered => sie.which = Pos
    /\ ~DoubleBuffered =>
          /\ sie.which = 0 /\ in_flight < 2 /\ (in_flight = 1 => r = 0)
          /\ packetiser.remain < packet_size
          /\ packetiser.need_zero_size_packet => packetiser.remain = 0
          /\ (r = 1 \/ in_flight = 1) => packetiser.remain = 0 /\ ~packetiser.need_zero_size_packet
    /\ \A b \in 0 .. 1 :
          LET half == buffer_control[b] IN
          /\ half.available => InFlight(b) /\ half.pid = Pid(b)
          /\ InFlight(b) => half.full = (half.available = (stage.dir = "out"))
    /\ devToggle[Endpoint] = Pid(Pos)

\* What is left of n units after a packet.
Left(n) == IF n > packet_size THEN n - packet_size ELSE 0

\* Units that the device has sent are in the caller's buffer or in ours.
DataIn ==
    LET r == depacketiser.next_retire
        at == stage.size - depacketiser.remain
        len(b) == Len(buffer_control[b].data)
    IN  /\ at \in Nat /\ buf = Units(0, at)
        /\ DoneCount > 0 => buffer_control[r].data = Units(at, len(r))
        /\ DoneCount > 1 => buffer_control[1 - r].data = Units(at + len(r), len(1 - r))
        /\ sent = at + (IF DoneCount > 0 THEN len(r) ELSE 0)
                     + (IF DoneCount > 1 THEN len(1 - r) ELSE 0)
        /\ sent <= stage.reply
        /\ Ended => sent = stage.reply
        /\ ~Ended =>
             LET left == stage.size - sent IN
             /\ packetiser.remain =
                   IF Ahead = 0 THEN left ELSE IF Ahead = 1 THEN Left(left) ELSE Left(Left(left))
             /\ Ahead > 0 /\ buffer_control[Pos].last => left <= packet_size
             /\ Ahead = 2 /\ buffer_control[1 - Pos].last => Left(left) <= packet_size

\* Units that the device has not received are in our buffers or are the caller's.
DataOut ==
    LET at == Len(received)
        len(b) == Len(buffer_control[b].data)
    IN  /\ at \in Nat /\ received = Units(0, at)
        /\ Ended => at = stage.size
        /\ packetiser.offset + packetiser.remain = stage.size
        /\ ~Ended =>
             /\ packetiser.offset = at + (IF Ahead > 0 THEN len(Pos) ELSE 0)
                                       + (IF Ahead > 1 THEN len(1 - Pos) ELSE 0)
             /\ Ahead > 0 =>
                   /\ buffer_control[Pos].data = Units(at, len(Pos))
                   /\ buffer_control[Pos].last => at + len(Pos) = stage.size
             /\ Ahead = 2 =>
                   /\ buffer_control[1 - Pos].data = Units(at + len(Pos), len(1 - Pos))
                   /\ buffer_control[1 - Pos].last => at + len(Pos) + len(1 - Pos) = stage.size

\* What is left to retire at the end.
Retiring ==
    /\ pc = "complete2" => DoneCount < 2
    /\ pc = "done" => DoneCount = 0

Transferring ==
    pc \in Busy /\ stage.dir # "setup" =>
        Pointers /\ Retiring /\ (stage.dir = "in" => DataIn) /\ (stage.dir = "out" => DataOut)

Faithful ==
    /\ Types /\ Agreed /\ StatusOK /\ Transferring
    /\ pc # "idle" => op \in Ops /\ StagesLeft /\ Untouched /\ Moved
    /\ DataIntact
-----------------------------------------------------------------------------
(* Runs of units, and the numbers of packets.                              *)

\* A run is as long as it says, and empty when it is of none.
LEMMA UnitsRun ==
    ASSUME NEW a \in Nat, NEW n \in Nat
    PROVE  Units(a, n) \in Seq(Nat) /\ Len(Units(a, n)) = n /\ Units(a, 0) = <<>>
BY DEF Units

\* A run and the one that comes next are one run.
LEMMA UnitsJoin ==
    ASSUME NEW a \in Nat, NEW n \in Nat
    PROVE  Units(0, a) \o Units(a, n) = Units(0, a + n)
<1> DEFINE s == Units(0, a) \o Units(a, n)
<1>1. s \in Seq(Nat) /\ Len(s) = a + n
  BY UnitsRun
<1>2. Units(0, a + n) \in Seq(Nat) /\ Len(Units(0, a + n)) = a + n
  BY UnitsRun
<1>3. ASSUME NEW i \in 1 .. a + n
      PROVE  s[i] = Units(0, a + n)[i]
  <2>1. /\ Units(0, a) \in Seq(Nat) /\ Len(Units(0, a)) = a
        /\ Units(a, n) \in Seq(Nat) /\ Len(Units(a, n)) = n
    BY UnitsRun
  <2>2. s[i] = IF i <= a THEN Units(0, a)[i] ELSE Units(a, n)[i - a]
    BY <2>1, ConcatProperties
  <2> QED BY <2>2 DEF Units
<1> QED BY <1>1, <1>2, <1>3, SeqEqual

\* The whole of a run.
LEMMA UnitsWhole ==
    ASSUME NEW a \in Nat, NEW n \in Nat
    PROVE  SubSeq(Units(a, n), 1, n) = Units(a, n)
BY UnitsRun, SubSeqFull

\* A transfer that is not double buffered is shorter than a packet.
LEMMA OnePacket ==
    ASSUME NEW n \in Nat, ~(n \div packet_size + 1 > 1)
    PROVE  n < packet_size /\ (n % packet_size = 0 => n = 0)
<1>1. packet_size \in Nat /\ packet_size > 0
  BY TransferAssumption
<1> QED BY <1>1
-----------------------------------------------------------------------------
(* The stages of a transfer.                                               *)

\* What the proofs need to know of the stage that is in course.
StageKnown ==
    /\ stages \in Seq(Stages) /\ Len(stages) \in 1 .. 3
    /\ stage = stages[1] /\ stage \in Stages /\ stage.reply <= stage.size
    /\ Endpoint \in {"in", "out", "control"}
    /\ stage.dir # "setup" /\ Endpoint = "control" => stage.pid
    /\ Endpoint # "control" => stage.pid = toggle[Endpoint]
    /\ ~DoubleBuffered => stage.size < packet_size /\ (stage.zlp => stage.size = 0)
    /\ Endpoint # "control" => Len(stages) = 1 /\ stage.dir = Endpoint
    /\ stage.dir = "setup" => Len(stages) > 1
    /\ \A i \in 2 .. Len(stages) : stages[i].dir # stage.dir
    /\ op.kind = "control_in" =>
          /\ Len(stages) = 2 => stage.dir = "in" /\ stage.reply = op.reply
          /\ Len(stages) = 1 => stage.dir = "out"
          /\ Len(stages) = 3 => stage.dir = "setup"
    /\ op.kind = "control_out" =>
          /\ Len(stages) = 2 => stage.dir = "out" /\ stage.size = op.size
          /\ Len(stages) = 1 => stage.dir = "in"
          /\ Len(stages) = 3 => stage.dir = "setup"
    /\ op.kind = "bulk_in" => stage.reply = op.reply
    /\ op.kind = "bulk_out" => stage.size = op.size
    /\ op.kind = "clear_halt" /\ Len(stages) > 1 => stage.dir = "setup" /\ Len(stages) = 2

\* What is known of the stage that is under way, by kind of transfer.
LEMMA StageFacts ==
    ASSUME op \in Ops, StagesLeft, toggle \in [{"in", "out"} -> BOOLEAN]
    PROVE  StageKnown
<1>1. /\ packet_size \in Nat \ {0}
      /\ op.kind \in {"control_in", "control_out", "control_none",
                      "bulk_in", "bulk_out", "clear_halt"}
      /\ op.size \in Nat /\ op.reply \in Nat /\ op.reply <= op.size
  BY TransferAssumption
<1>2. Setup \in Stages /\ Setup.dir = "setup" /\ Setup.size = 0 /\ Setup.reply = 0 /\ ~Setup.zlp
  BY DEF Setup, Stages, Dirs
<1>3. ASSUME NEW dir \in {"in", "out"}, NEW n \in Nat, NEW m \in Nat
      PROVE  /\ Control(dir, n, m) \in Stages /\ Control(dir, n, m).dir = dir
             /\ Control(dir, n, m).size = n /\ Control(dir, n, m).reply = m
             /\ Control(dir, n, m).pid /\ (Control(dir, n, m).zlp => n = 0)
  BY DEF Control, Stages, Dirs
<1>4. ASSUME NEW dir \in {"in", "out"}
      PROVE  /\ Bulk(dir, op) \in Stages /\ Bulk(dir, op).dir = dir
             /\ Bulk(dir, op).size = op.size /\ Bulk(dir, op).reply = op.reply
             /\ Bulk(dir, op).pid = toggle[dir]
             /\ Bulk(dir, op).zlp => op.size = 0 \/ op.size % packet_size = 0
  BY <1>1 DEF Bulk, Stages, Dirs
<1>5. ASSUME stage \in Stages,
             stage.zlp => stage.size = 0 \/ stage.size % packet_size = 0
      PROVE  ~DoubleBuffered => stage.size < packet_size /\ (stage.zlp => stage.size = 0)
  BY <1>5, OnePacket DEF DoubleBuffered, packets, Stages
<1>6. CASE op.kind = "control_in"
  <2> DEFINE Read == Control("in", op.size, op.reply)
             Status == Control("out", 0, 0)
  <2>1. stages \in {<<Setup, Read, Status>>, <<Read, Status>>, <<Status>>}
    BY <1>6 DEF StagesLeft
  <2>2. /\ Read \in Stages /\ Read.dir = "in" /\ Read.reply = op.reply /\ Read.size = op.size
        /\ Read.pid /\ (Read.zlp => Read.size = 0)
    BY <1>1, <1>3
  <2>3. /\ Status \in Stages /\ Status.dir = "out" /\ Status.reply = 0 /\ Status.size = 0
        /\ Status.pid
    BY <1>3
  <2>4. Endpoint = "control"
    BY <1>6 DEF Endpoint
  <2> HIDE DEF Read, Status
  <2>5. CASE stages = <<Setup, Read, Status>>
    <3>1. /\ stages \in Seq(Stages) /\ Len(stages) = 3 /\ stages[1] = Setup /\ stages[2] = Read /\ stages[3] = Status
          /\ stage = Setup
      BY <1>2, <2>2, <2>3, <2>4, <2>5 DEF stage
    <3>2. ~DoubleBuffered => stage.size < packet_size /\ (stage.zlp => stage.size = 0)
      BY <1>2, <1>5, <2>2, <2>3, <3>1
    <3> QED BY <1>1, <1>2, <1>6, <2>2, <2>3, <2>4, <2>5, <3>1, <3>2 DEF StageKnown
  <2>6. CASE stages = <<Read, Status>>
    <3>1. /\ stages \in Seq(Stages) /\ Len(stages) = 2 /\ stages[1] = Read /\ stages[2] = Status
          /\ stage = Read
      BY <1>2, <2>2, <2>3, <2>4, <2>6 DEF stage
    <3>2. ~DoubleBuffered => stage.size < packet_size /\ (stage.zlp => stage.size = 0)
      BY <1>2, <1>5, <2>2, <2>3, <3>1
    <3> QED BY <1>1, <1>2, <1>6, <2>2, <2>3, <2>4, <2>6, <3>1, <3>2 DEF StageKnown
  <2>7. CASE stages = <<Status>>
    <3>1. /\ stages \in Seq(Stages) /\ Len(stages) = 1 /\ stages[1] = Status
          /\ stage = Status
      BY <1>2, <2>2, <2>3, <2>4, <2>7 DEF stage
    <3>2. ~DoubleBuffered => stage.size < packet_size /\ (stage.zlp => stage.size = 0)
      BY <1>2, <1>5, <2>2, <2>3, <3>1
    <3> QED BY <1>1, <1>2, <1>6, <2>2, <2>3, <2>4, <2>7, <3>1, <3>2 DEF StageKnown
  <2> QED BY <2>1, <2>5, <2>6, <2>7
<1>7. CASE op.kind = "control_out"
  <2> DEFINE Write == Control("out", op.size, 0)
             Status == Control("in", 0, 0)
  <2>1. stages \in {<<Setup, Write, Status>>, <<Write, Status>>, <<Status>>}
    BY <1>7 DEF StagesLeft
  <2>2. /\ Write \in Stages /\ Write.dir = "out" /\ Write.reply = 0 /\ Write.size = op.size
        /\ Write.pid /\ (Write.zlp => Write.size = 0)
    BY <1>1, <1>3
  <2>3. /\ Status \in Stages /\ Status.dir = "in" /\ Status.reply = 0 /\ Status.size = 0
        /\ Status.pid
    BY <1>3
  <2>4. Endpoint = "control"
    BY <1>7 DEF Endpoint
  <2> HIDE DEF Write, Status
  <2>5. CASE stages = <<Setup, Write, Status>>
    <3>1. /\ stages \in Seq(Stages) /\ Len(stages) = 3 /\ stages[1] = Setup /\ stages[2] = Write /\ stages[3] = Status
          /\ stage = Setup
      BY <1>2, <2>2, <2>3, <2>4, <2>5 DEF stage
    <3>2. ~DoubleBuffered => stage.size < packet_size /\ (stage.zlp => stage.size = 0)
      BY <1>2, <1>5, <2>2, <2>3, <3>1
    <3> QED BY <1>1, <1>2, <1>7, <2>2, <2>3, <2>4, <2>5, <3>1, <3>2 DEF StageKnown
  <2>6. CASE stages = <<Write, Status>>
    <3>1. /\ stages \in Seq(Stages) /\ Len(stages) = 2 /\ stages[1] = Write /\ stages[2] = Status
          /\ stage = Write
      BY <1>2, <2>2, <2>3, <2>4, <2>6 DEF stage
    <3>2. ~DoubleBuffered => stage.size < packet_size /\ (stage.zlp => stage.size = 0)
      BY <1>2, <1>5, <2>2, <2>3, <3>1
    <3> QED BY <1>1, <1>2, <1>7, <2>2, <2>3, <2>4, <2>6, <3>1, <3>2 DEF StageKnown
  <2>7. CASE stages = <<Status>>
    <3>1. /\ stages \in Seq(Stages) /\ Len(stages) = 1 /\ stages[1] = Status
          /\ stage = Status
      BY <1>2, <2>2, <2>3, <2>4, <2>7 DEF stage
    <3>2. ~DoubleBuffered => stage.size < packet_size /\ (stage.zlp => stage.size = 0)
      BY <1>2, <1>5, <2>2, <2>3, <3>1
    <3> QED BY <1>1, <1>2, <1>7, <2>2, <2>3, <2>4, <2>7, <3>1, <3>2 DEF StageKnown
  <2> QED BY <2>1, <2>5, <2>6, <2>7
<1>8. CASE op.kind \in {"control_none", "clear_halt"}
  <2> DEFINE Status == Control("in", 0, 0)
  <2>1. stages \in {<<Setup, Status>>, <<Status>>}
    BY <1>8 DEF StagesLeft
  <2>2. /\ Status \in Stages /\ Status.dir = "in" /\ Status.reply = 0 /\ Status.size = 0
        /\ Status.pid
    BY <1>3
  <2>3. Endpoint = "control"
    BY <1>8 DEF Endpoint
  <2> HIDE DEF Status
  <2>4. CASE stages = <<Setup, Status>>
    <3>1. /\ stages \in Seq(Stages) /\ Len(stages) = 2 /\ stages[1] = Setup /\ stages[2] = Status
          /\ stage = Setup
      BY <1>2, <2>2, <2>3, <2>4 DEF stage
    <3>2. ~DoubleBuffered => stage.size < packet_size /\ (stage.zlp => stage.size = 0)
      BY <1>2, <1>5, <2>2, <2>3, <3>1
    <3> QED BY <1>1, <1>2, <1>8, <2>2, <2>3, <2>4, <3>1, <3>2 DEF StageKnown
  <2>5. CASE stages = <<Status>>
    <3>1. /\ stages \in Seq(Stages) /\ Len(stages) = 1 /\ stages[1] = Status
          /\ stage = Status
      BY <1>2, <2>2, <2>3, <2>5 DEF stage
    <3>2. ~DoubleBuffered => stage.size < packet_size /\ (stage.zlp => stage.size = 0)
      BY <1>2, <1>5, <2>2, <2>3, <3>1
    <3> QED BY <1>1, <1>2, <1>8, <2>2, <2>3, <2>5, <3>1, <3>2 DEF StageKnown
  <2> QED BY <2>1, <2>4, <2>5
<1>9. CASE op.kind \in {"bulk_in", "bulk_out"}
  <2> DEFINE dir == Endpoint
             Move == Bulk(dir, op)
  <2>1. stages = <<Move>> /\ dir \in {"in", "out"}
    BY <1>9 DEF StagesLeft, StagesOf, Endpoint
  <2>2. /\ Move \in Stages /\ Move.dir = dir /\ Move.reply = op.reply /\ Move.size = op.size
        /\ Move.pid = toggle[dir] /\ (Move.zlp => Move.size = 0 \/ Move.size % packet_size = 0)
    BY <2>1, <1>4
  <2> HIDE DEF Move
  <2>3. stages \in Seq(Stages) /\ Len(stages) = 1 /\ stages[1] = Move /\ stage = Move
    BY <2>1, <2>2 DEF stage
  <2>4. ~DoubleBuffered => stage.size < packet_size /\ (stage.zlp => stage.size = 0)
    BY <1>5, <2>2, <2>3
  <2>5. op.kind = "bulk_in" \/ op.kind = "bulk_out"
    BY <1>9
  <2> QED BY <1>1, <2>1, <2>2, <2>3, <2>4, <2>5 DEF StageKnown
<1> QED BY <1>1, <1>6, <1>7, <1>8, <1>9
-----------------------------------------------------------------------------
(* Steps that leave the buffers and the data alone.                        *)

transfer == <<op, stages, packetiser, depacketiser, in_flight, toggle, buf, buffer_control,
              sent, received, devToggle>>

\* The parts of the invariant that are about buffers and data are kept.
LEMMA TransferKept ==
    ASSUME UNCHANGED transfer, sie'.which = sie.which, Ended' <=> Ended
    PROVE  /\ StagesLeft' <=> StagesLeft
           /\ Pointers' <=> Pointers
           /\ DataIn' <=> DataIn
           /\ DataOut' <=> DataOut
           /\ DoneCount' = DoneCount /\ stage' = stage /\ Endpoint' = Endpoint
<1>1. stage' = stage
  BY DEF transfer, stage
<1>2. Endpoint' = Endpoint /\ DoneCount' = DoneCount
  BY DEF transfer, Endpoint, DoneCount
<1>3. Pos' = Pos /\ Ahead' = Ahead
  BY <1>2 DEF transfer, Pos, Ahead
<1>4. DoubleBuffered' <=> DoubleBuffered
  BY <1>1 DEF DoubleBuffered, packets
<1>5. ASSUME NEW b PROVE Pid(b)' = Pid(b) /\ (InFlight(b)' <=> InFlight(b))
  BY <1>1 DEF transfer, Pid, InFlight
<1>6. StagesLeft' <=> StagesLeft
  BY DEF transfer, StagesLeft, StagesOf, Bulk
<1>7. Pointers' <=> Pointers
  BY <1>1, <1>2, <1>3, <1>4, <1>5 DEF transfer, Pointers
<1>8. DataIn' <=> DataIn
  BY <1>1, <1>2, <1>3 DEF transfer, DataIn
<1>9. DataOut' <=> DataOut
  BY <1>1, <1>2, <1>3 DEF transfer, DataOut
<1> QED BY <1>1, <1>2, <1>6, <1>7, <1>8, <1>9

\* And so is the rest, when the status registers are still consistent.
LEMMA QuietStep ==
    ASSUME Faithful, UNCHANGED transfer, UNCHANGED failed,
           sie' \in [running : BOOLEAN, which : 0 .. 1], sie'.which = sie.which,
           Ended' <=> Ended, StatusOK',
           \/ pc \in Busy /\ pc' \in Busy /\ Retiring'
           \/ pc' = pc /\ result' = result
    PROVE  Faithful'
<1>1. Types'
  BY DEF Faithful, Types, transfer, Busy, Waits, Completes
<1>2. /\ stage' = stage /\ Endpoint' = Endpoint /\ (StagesLeft' <=> StagesLeft)
      /\ (Pointers' <=> Pointers) /\ (DataIn' <=> DataIn) /\ (DataOut' <=> DataOut)
      /\ DoneCount' = DoneCount
  BY TransferKept
<1>3. /\ pc' \in Busy <=> pc \in Busy
      /\ pc' = "idle" <=> pc = "idle"
      /\ pc' = "start" <=> pc = "start"
  BY DEF Busy, Waits, Completes
<1>4. Agreed'
  BY <1>2, <1>3 DEF Faithful, Agreed, transfer
<1>5. Transferring'
  BY <1>2, <1>3 DEF Faithful, Transferring, Retiring
<1>6. pc' # "idle" => op' \in Ops /\ StagesLeft' /\ Untouched' /\ Moved'
  BY <1>2, <1>3 DEF Faithful, Untouched, Moved, transfer
<1>7. DataIntact'
  BY <1>3 DEF Faithful, DataIntact, transfer, Busy, Waits, Completes
<1> QED BY <1>1, <1>4, <1>5, <1>6, <1>7 DEF Faithful

\* prepare, when there is nothing left to prepare.
LEMMA PrepareNothingFaithful ==
    ASSUME Faithful, PrepareNothing
    PROVE  Faithful'
<1>1. UNCHANGED transfer /\ UNCHANGED <<failed, sie, sie_status, seen, started>>
  BY DEF PrepareNothing, transfer, registers, device
<1>2. (pc = "prepare" /\ pc' = "prepare2") \/ (pc = "prepare2" /\ pc' = "arm")
  BY DEF PrepareNothing, After
<1>3. StatusOK' /\ Retiring' /\ (Ended' <=> Ended)
  BY <1>1, <1>2 DEF Faithful, StatusOK, Busy, Waits, Completes, Ended, Retiring, transfer, stage
<1>4. sie \in [running : BOOLEAN, which : 0 .. 1]
  BY DEF Faithful, Types
<1> QED BY <1>1, <1>2, <1>3, <1>4, QuietStep DEF Busy, Waits

\* Starting the hardware on the buffers.
LEMMA ArmFaithful ==
    ASSUME Faithful, Arm
    PROVE  Faithful'
<1>1. UNCHANGED transfer /\ UNCHANGED <<failed, seen>> /\ started'
  BY DEF Arm, transfer, device
<1>2. pc = "arm" /\ pc' = "poll"
  BY DEF Arm
<1>3. sie \in [running : BOOLEAN, which : 0 .. 1] /\ "TRANS_COMPLETE" \notin Errors
  BY DEF Faithful, Types, Errors
<1>4. /\ sie' \in [running : BOOLEAN, which : 0 .. 1] /\ sie'.which = sie.which
      /\ sie'.running => sie.running \/ ~started
  BY <1>3 DEF Arm
<1>5. sie_status' = sie_status \ Errors /\ (Ended' <=> Ended)
  BY <1>3 DEF Arm, Ended
<1>6. sie'.running => sie_status' = {}
  BY <1>2, <1>4, <1>5 DEF Faithful, StatusOK, Awaited, Ended, Busy, Waits
<1>7. StatusOK' /\ Retiring'
  BY <1>1, <1>2, <1>4, <1>5, <1>6 DEF Faithful, StatusOK, Busy, Waits, Completes, Retiring, transfer, stage
<1> QED BY <1>1, <1>2, <1>4, <1>5, <1>7, QuietStep DEF Busy, Waits

\* A poll of the future that finds nothing.
LEMMA PollFaithful ==
    ASSUME Faithful, Poll
    PROVE  Faithful'
<1>1. UNCHANGED transfer /\ UNCHANGED <<failed, sie, sie_status, started>> /\ seen' = sie_status
  BY DEF Poll, transfer, registers, device
<1>2. pc = "poll" /\ pc' = "intr"
  BY DEF Poll
<1>3. StatusOK' /\ Retiring' /\ (Ended' <=> Ended)
  BY <1>1, <1>2 DEF Faithful, StatusOK, Busy, Waits, Completes, Ended, Retiring, transfer, stage
<1>4. sie \in [running : BOOLEAN, which : 0 .. 1]
  BY DEF Faithful, Types
<1> QED BY <1>1, <1>2, <1>3, <1>4, QuietStep DEF Busy, Waits

\* A poll of the future that finds an interrupt.
LEMMA PollIntrFaithful ==
    ASSUME Faithful, PollIntr
    PROVE  Faithful'
<1>1. UNCHANGED transfer /\ UNCHANGED <<failed, sie, seen, started>>
  BY DEF PollIntr, transfer, device
<1>2. pc = "intr" /\ pc' \in {"ready", "wait"}
  BY DEF PollIntr
<1>3. sie \in [running : BOOLEAN, which : 0 .. 1] /\ "TRANS_COMPLETE" \notin Errors
  BY DEF Faithful, Types, Errors
<1>4. sie_status' = sie_status \ Errors /\ (Ended' <=> Ended)
  BY <1>3 DEF PollIntr, Ended
<1>5. StatusOK' /\ Retiring'
  BY <1>1, <1>2, <1>4 DEF Faithful, StatusOK, Busy, Waits, Completes, Retiring, transfer, stage
<1> QED BY <1>1, <1>2, <1>3, <1>4, <1>5, QuietStep DEF Busy, Waits

\* The interrupt wakes the task.
LEMMA WakeFaithful ==
    ASSUME Faithful, Wake
    PROVE  Faithful'
<1>1. UNCHANGED transfer /\ UNCHANGED <<failed, sie, sie_status, seen, started>>
  BY DEF Wake, transfer, registers, device
<1>2. pc = "wait" /\ pc' = "poll"
  BY DEF Wake
<1>3. StatusOK' /\ Retiring' /\ (Ended' <=> Ended)
  BY <1>1, <1>2 DEF Faithful, StatusOK, Busy, Waits, Completes, Ended, Retiring, transfer, stage
<1>4. sie \in [running : BOOLEAN, which : 0 .. 1]
  BY DEF Faithful, Types
<1> QED BY <1>1, <1>2, <1>3, <1>4, QuietStep DEF Busy, Waits

\* Nothing that the invariant speaks of changes.
LEMMA HandlerFaithful ==
    ASSUME Faithful, on_irq \/ UNCHANGED vars
    PROVE  Faithful'
<1>1. /\ UNCHANGED transfer
      /\ UNCHANGED <<pc, result, failed, sie, sie_status, seen, started>>
  BY DEF on_irq, transfer, task, registers, device, vars
<1>2. StatusOK' /\ (Ended' <=> Ended)
  BY <1>1 DEF Faithful, StatusOK, Ended, transfer, stage
<1>3. sie \in [running : BOOLEAN, which : 0 .. 1]
  BY DEF Faithful, Types
<1> QED BY <1>1, <1>2, <1>3, QuietStep

\* A stall, or a timeout.
LEMMA HwErrorFaithful ==
    ASSUME Faithful, NEW e \in Errors, HwError(e)
    PROVE  Faithful'
<1>1. /\ UNCHANGED transfer
      /\ UNCHANGED <<pc, result, failed, seen, started>>
  BY DEF HwError, transfer, task, device
<1>2. sie \in [running : BOOLEAN, which : 0 .. 1] /\ "TRANS_COMPLETE" \notin Errors
  BY DEF Faithful, Types, Errors
<1>3. /\ sie.running /\ ~sie'.running /\ sie'.which = sie.which
      /\ sie' \in [running : BOOLEAN, which : 0 .. 1]
  BY <1>2 DEF HwError
<1>4. sie_status' = sie_status \cup {e} /\ (Ended' <=> Ended) /\ e \in Awaited
  BY <1>2 DEF HwError, Ended, Awaited
<1>5. StatusOK'
  BY <1>1, <1>3, <1>4 DEF Faithful, StatusOK, transfer, stage
<1> QED BY <1>1, <1>3, <1>4, <1>5, QuietStep

\* A transfer that has failed gives up its endpoint.
LEMMA GivenUpFaithful ==
    ASSUME Faithful, UNCHANGED transfer, UNCHANGED <<sie, sie_status, seen, started>>,
           pc = "ready", pc' = "idle", result' = "err", ~sie.running,
           failed' = failed \cup ({Endpoint} \ {"control"})
    PROVE  Faithful'
<1>1. op \in Ops /\ StagesLeft /\ toggle \in [{"in", "out"} -> BOOLEAN]
  BY DEF Faithful, Types
<1>2. Endpoint \in {"in", "out", "control"}
  BY <1>1, StageFacts DEF StageKnown
<1>3. Types'
  BY <1>2 DEF Faithful, Types, transfer
<1>4. Agreed'
  BY <1>2 DEF Faithful, Agreed, transfer, Endpoint
<1>5. StatusOK'
  BY DEF Faithful, StatusOK, Busy, Waits, Completes
<1>6. Transferring' /\ DataIntact'
  BY DEF Transferring, DataIntact, Busy, Waits, Completes
<1> QED BY <1>3, <1>4, <1>5, <1>6 DEF Faithful

\* The future is ready, with a result.
LEMMA ReadyFaithful ==
    ASSUME Faithful, Ready
    PROVE  Faithful'
<1>1. UNCHANGED transfer /\ UNCHANGED <<sie, sie_status, seen, started>> /\ pc = "ready"
  BY DEF Ready, transfer, device
<1>2. sie \in [running : BOOLEAN, which : 0 .. 1] /\ (Ended' <=> Ended) /\ stage' = stage
  BY <1>1 DEF Faithful, Types, Ended, transfer, stage
<1>3. CASE "TRANS_COMPLETE" \notin seen /\ seen \cap Errors # {}
  <2>1. /\ pc' = "idle" /\ result' = "err"
        /\ failed' = failed \cup ({Endpoint} \ {"control"})
    BY <1>3 DEF Ready
  <2>2. ~sie.running
    BY <1>1, <1>3 DEF Faithful, StatusOK
  <2> QED BY <1>1, <2>1, <2>2, GivenUpFaithful
<1>4. CASE "TRANS_COMPLETE" \in seen
  <2>1. pc' = (IF stage.dir = "setup" THEN "done" ELSE "complete") /\ UNCHANGED failed
    BY <1>4 DEF Ready
  <2>2. Ended
    BY <1>1, <1>4 DEF Faithful, StatusOK
  <2>3. StatusOK'
    BY <1>1, <1>2, <2>1, <2>2 DEF Faithful, StatusOK, Busy, Waits, Completes
  <2>4. CASE stage.dir = "setup"
    <3>1. pc' = "done" /\ op \in Ops /\ StagesLeft /\ Types
      BY <2>1, <2>4, <1>1 DEF Faithful
    <3>2. Types' /\ Agreed' /\ StagesLeft' /\ Untouched' /\ Moved' /\ op' \in Ops
      BY <1>1, <1>2, <2>1, <3>1, TransferKept
         DEF Faithful, Types, Agreed, Untouched, Moved, transfer, Busy, Waits, Completes
    <3>3. Transferring' /\ DataIntact'
      BY <1>2, <2>4, <3>1 DEF Transferring, DataIntact
    <3> QED BY <2>3, <3>2, <3>3 DEF Faithful
  <2>5. CASE stage.dir # "setup"
    <3>1. pc' = "complete" /\ Retiring'
      BY <2>1, <2>5 DEF Retiring
    <3> QED BY <1>1, <1>2, <2>1, <2>3, <3>1, QuietStep DEF Busy, Waits, Completes
  <2> QED BY <2>4, <2>5
<1>5. CASE seen = {}
  <2>1. pc' = (IF stage.dir = "setup" THEN "poll" ELSE "retire") /\ UNCHANGED failed
    BY <1>5 DEF Ready
  <2>2. StatusOK' /\ Retiring'
    BY <1>1, <1>2, <1>5, <2>1 DEF Faithful, StatusOK, Busy, Waits, Completes, Retiring
  <2> QED BY <1>1, <1>2, <2>1, <2>2, QuietStep DEF Busy, Waits
<1> QED BY <1>3, <1>4, <1>5 DEF Ready

\* The SETUP packet has gone.
LEMMA HwSetupFaithful ==
    ASSUME Faithful, HwSetup
    PROVE  Faithful'
<1>1. /\ UNCHANGED <<op, stages, pc, packetiser, depacketiser, in_flight, started, seen, result,
                     toggle, buf, failed, buffer_control, sent, received>>
      /\ sie.running /\ pc \in Busy /\ stage.dir = "setup" /\ stage' = stage
  BY DEF HwSetup, task, Faithful, StatusOK, stage
<1>2. /\ sie \in [running : BOOLEAN, which : 0 .. 1] /\ op \in Ops /\ StagesLeft /\ Types
      /\ pc # "idle" /\ pc # "start" /\ pc # "done"
  BY <1>1 DEF Faithful, Types, StatusOK, Busy, Waits, Completes, Ended
<1>3. sie' \in [running : BOOLEAN, which : 0 .. 1] /\ ~sie'.running
  BY <1>2 DEF HwSetup
<1>4. sie_status' = sie_status \cup {"TRANS_COMPLETE"} /\ Ended' /\ "TRANS_COMPLETE" \in Awaited
  BY DEF HwSetup, Ended, Awaited
<1>5. /\ devToggle' \in [{"in", "out", "control"} -> BOOLEAN]
      /\ devToggle'["out"] = devToggle["out"]
      /\ op.kind = "clear_halt" => ~devToggle'["in"]
      /\ op.kind # "clear_halt" => devToggle' = devToggle
  BY <1>2 DEF HwSetup, Types
<1>6. Types'
  BY <1>1, <1>2, <1>3, <1>5 DEF Types
<1>7. Agreed'
  BY <1>1, <1>2, <1>5 DEF Faithful, Agreed, Endpoint
<1>8. StatusOK'
  <2>1. started
    BY <1>1 DEF Faithful, StatusOK, Busy, Waits, Completes
  <2> QED BY <1>1, <1>3, <1>4, <2>1 DEF Faithful, StatusOK
<1>9. Transferring' /\ DataIntact'
  BY <1>1, <1>2 DEF Transferring, DataIntact
<1>10. StagesLeft' /\ Untouched' /\ Moved' /\ op' \in Ops
  BY <1>1, <1>2 DEF Faithful, StagesLeft, StagesOf, Bulk, Untouched, Moved
<1> QED BY <1>6, <1>7, <1>8, <1>9, <1>10 DEF Faithful

\* A transfer is asked for.
LEMMA StartFaithful ==
    ASSUME Faithful, NEW o \in Ops, Start(o)
    PROVE  Faithful'
<1>1. /\ UNCHANGED <<packetiser, depacketiser, in_flight, started, seen, result, toggle, failed,
                     sie_status, buffer_control, sie, devToggle>>
      /\ pc = "idle" /\ pc' = "start" /\ op' = o /\ stages' = StagesOf(o)
      /\ buf' = <<>> /\ sent' = 0 /\ received' = <<>>
  BY DEF Start, registers
<1>2. o.kind \in {"control_in", "control_out", "control_none", "bulk_in", "bulk_out", "clear_halt"}
  BY TransferAssumption
<1>3. Types' /\ StatusOK'
  BY <1>1 DEF Faithful, Types, StatusOK, Busy, Waits, Completes, Ended
<1>4. Transferring' /\ DataIntact'
  BY <1>1 DEF Transferring, DataIntact, Busy, Waits, Completes
<1>5. StagesLeft'
  BY <1>1, <1>2 DEF StagesLeft, StagesOf, Bulk
<1>6. Untouched'
  BY <1>1 DEF Untouched
<1>7. /\ o.kind \in {"control_in", "control_out"} => Len(stages') = 3
      /\ o.kind = "clear_halt" => Len(stages') = 2
  BY <1>1, <1>2 DEF StagesOf
<1>8. Moved'
  BY <1>1, <1>7 DEF Moved
<1>9. Agreed'
  <2>1. /\ o.kind = "bulk_in" => "in" \notin failed
        /\ o.kind = "bulk_out" => "out" \notin failed
        /\ o.kind = "clear_halt" => "in" \in failed
    BY DEF Start, Usable
  <2>2. Endpoint' = IF o.kind = "bulk_in" THEN "in" ELSE IF o.kind = "bulk_out" THEN "out"
                    ELSE "control"
    BY <1>1 DEF Endpoint
  <2>3. Endpoint' \notin failed
    BY <2>1, <2>2 DEF Faithful, Types
  <2> QED BY <1>1, <1>7, <2>1, <2>3 DEF Faithful, Agreed
<1> QED BY <1>1, <1>3, <1>4, <1>5, <1>6, <1>8, <1>9 DEF Faithful

\* It is given up because the caller's buffer is too short.
LEMMA BufferTooSmallFaithful ==
    ASSUME Faithful, BufferTooSmall
    PROVE  Faithful'
<1>1. /\ UNCHANGED <<op, stages, packetiser, depacketiser, in_flight, started, seen, toggle, buf,
                     failed, sie_status, buffer_control, sie, sent, received, devToggle>>
      /\ pc = "start" /\ pc' = "idle" /\ result' = "err"
      /\ op.kind \in {"control_in", "control_out"}
  BY DEF BufferTooSmall, registers, device
<1>2. Types' /\ StatusOK'
  BY <1>1 DEF Faithful, Types, StatusOK, Busy, Waits, Completes, Ended
<1>3. Transferring' /\ DataIntact'
  BY <1>1 DEF Transferring, DataIntact, Busy, Waits, Completes
<1>4. Agreed'
  BY <1>1 DEF Faithful, Agreed, Endpoint
<1> QED BY <1>1, <1>2, <1>3, <1>4 DEF Faithful

\* The next of its stages begins.
LEMMA StartStageFaithful ==
    ASSUME Faithful, StartStage
    PROVE  Faithful'
<1>1. /\ UNCHANGED <<op, stages, seen, result, toggle, buf, failed, sent, received>>
      /\ pc = "start" /\ stage' = stage /\ Endpoint' = Endpoint
      /\ op \in Ops /\ StagesLeft /\ Types
  BY DEF StartStage, stage, Endpoint, Faithful
<1>2. StageKnown
  BY <1>1, StageFacts DEF Types
<1>3. /\ sie_status' = {} /\ ~Ended'
      /\ buffer_control' = [b \in 0 .. 1 |-> Unused]
      /\ packetiser' = [next_prep |-> 0, remain |-> stage.size, offset |-> 0,
                        need_zero_size_packet |-> stage.zlp]
      /\ depacketiser' = [next_retire |-> 0, remain |-> stage.size, packet_parity |-> FALSE]
      /\ in_flight' = 0
  BY DEF StartStage, Ended
<1>4. /\ stage.dir = "setup" =>
            pc' = "poll" /\ started' = TRUE /\ sie' = [running |-> TRUE, which |-> 0]
      /\ stage.dir # "setup" =>
            pc' = "prepare" /\ started' = FALSE /\ sie' = [running |-> FALSE, which |-> 0]
  BY DEF StartStage
<1>5. /\ devToggle' \in [{"in", "out", "control"} -> BOOLEAN] /\ devToggle'["control"]
      /\ devToggle'["in"] = devToggle["in"] /\ devToggle'["out"] = devToggle["out"]
  BY <1>1 DEF StartStage, Types
<1>6. stage \in Stages /\ Unused \in Halves
  BY <1>2 DEF StageKnown, Unused, Halves
<1>7. /\ packetiser'.next_prep = 0 /\ packetiser'.remain = stage.size /\ packetiser'.offset = 0
      /\ depacketiser'.next_retire = 0 /\ depacketiser'.remain = stage.size
      /\ ~depacketiser'.packet_parity
      /\ pc' \in {"poll", "prepare"} /\ sie' \in [running : BOOLEAN, which : 0 .. 1] /\ sie'.which = 0
  <2>1. /\ packetiser'.next_prep = 0 /\ packetiser'.remain = stage.size /\ packetiser'.offset = 0
    BY <1>3
  <2>2. /\ depacketiser'.next_retire = 0 /\ depacketiser'.remain = stage.size
        /\ ~depacketiser'.packet_parity
    BY <1>3
  <2>3. sie' = [running |-> stage.dir = "setup", which |-> 0]
    BY <1>4
  <2>4. pc' \in {"poll", "prepare"}
    BY <1>4
  <2> QED BY <2>1, <2>2, <2>3, <2>4
<1>8. Types'
  BY <1>1, <1>3, <1>5, <1>6, <1>7 DEF Types, Stages, Busy, Waits
<1>9. Agreed'
  BY <1>1, <1>3, <1>5, <1>7 DEF Faithful, Agreed
<1>10. StatusOK'
  BY <1>1, <1>3, <1>4 DEF Faithful, StatusOK, Busy, Waits, Completes
<1>11. StagesLeft' /\ Untouched' /\ Moved'
  <2>1. StagesLeft'
    BY <1>1 DEF StagesLeft, StagesOf, Bulk
  <2>2. Untouched /\ Moved
    BY <1>1 DEF Faithful
  <2> QED BY <1>1, <1>7, <2>1, <2>2 DEF Untouched, Moved
<1>12. ASSUME stage.dir # "setup" PROVE Transferring'
  <2>1. DoneCount' = 0 /\ Pos' = 0 /\ Ahead' = 0
    BY <1>3 DEF DoneCount, Pos, Ahead
  <2>2. devToggle'[Endpoint] <=> stage.pid
    BY <1>1, <1>2, <1>5, <1>12 DEF StageKnown, Faithful, Agreed
  <2>3. Pointers'
    <3>1. Pid(0)' <=> stage.pid
      BY <1>1 DEF Pid
    <3>2. ASSUME NEW b \in 0 .. 1 PROVE ~buffer_control'[b].available /\ ~InFlight(b)'
      BY <1>3 DEF Unused, InFlight
    <3>3. devToggle'[Endpoint'] = Pid(Pos)'
      BY <1>1, <1>2, <1>5, <1>6, <2>1, <2>2, <3>1 DEF StageKnown, Stages, Pid
    <3>4. ~DoubleBuffered' => /\ packetiser'.remain < packet_size
                              /\ packetiser'.need_zero_size_packet => packetiser'.remain = 0
      <4>1. DoubleBuffered' <=> DoubleBuffered
        BY <1>1 DEF DoubleBuffered, packets
      <4>2. packetiser'.need_zero_size_packet <=> stage.zlp
        BY <1>3, <1>6 DEF Stages
      <4> QED BY <1>2, <1>7, <4>1, <4>2 DEF StageKnown
    <3> QED BY <1>3, <1>7, <2>1, <3>2, <3>3, <3>4 DEF Pointers
  <2>4. stages[1] = stage /\ Len(stages) \in 1 .. 3
    BY <1>2 DEF StageKnown
  <2>5. stage.dir = "in" => DataIn'
    <3>1. stage.dir = "in" => buf = <<>> /\ sent = 0
      BY <1>1, <2>4 DEF Faithful, Untouched
    <3>2. Units(0, 0) = <<>> /\ stage.size \in Nat /\ stage.reply \in Nat
      BY <1>6, UnitsRun DEF Stages
    <3>3. stage.size - depacketiser'.remain = 0
      BY <1>7, <3>2
    <3> HIDE DEF stage
    <3> QED BY <1>1, <1>3, <1>7, <2>1, <3>1, <3>2, <3>3 DEF DataIn
  <2>6. stage.dir = "out" => DataOut'
    <3>1. stage.dir = "out" => received = <<>>
      BY <1>1, <2>4 DEF Faithful, Untouched
    <3> QED BY <1>1, <1>2, <1>3, <1>6, <2>1, <3>1, UnitsRun DEF DataOut, StageKnown, Stages
  <2> QED BY <1>1, <1>7, <2>1, <2>3, <2>5, <2>6 DEF Transferring, Retiring
<1>13. Transferring'
  BY <1>1, <1>12 DEF Transferring
<1>14. DataIntact'
  BY <1>7 DEF DataIntact
<1> QED BY <1>1, <1>8, <1>9, <1>10, <1>11, <1>13, <1>14 DEF Faithful

\* At the end of a stage all its units have been moved.
LEMMA StageOver ==
    ASSUME Faithful, pc = "done", StageKnown
    PROVE  /\ Ended
           /\ stage.dir = "in" => buf = Units(0, stage.reply)
           /\ stage.dir = "out" => received = Units(0, stage.size)
           /\ stage.dir # "setup" =>
                 devToggle[Endpoint] = (stage.pid # depacketiser.packet_parity)
<1>1. pc \in Busy /\ Ended /\ Types
  BY DEF Faithful, StatusOK, Busy, Completes
<1>2. ASSUME stage.dir # "setup" PROVE Pointers /\ DoneCount = 0
  BY <1>1, <1>2 DEF Faithful, Transferring, Retiring
<1>3. stage.dir = "in" => buf = Units(0, stage.reply)
  <2> SUFFICES ASSUME stage.dir = "in" PROVE buf = Units(0, stage.reply)
    OBVIOUS
  <2>1. DataIn /\ DoneCount = 0
    BY <1>1, <1>2 DEF Faithful, Transferring
  <2>2. sent = stage.size - depacketiser.remain
    BY <2>1 DEF DataIn
  <2> QED BY <1>1, <2>1, <2>2 DEF DataIn
<1>4. stage.dir = "out" => received = Units(0, stage.size)
  BY <1>1 DEF Faithful, Transferring, DataOut
<1>5. ASSUME stage.dir # "setup"
      PROVE  devToggle[Endpoint] = (stage.pid # depacketiser.packet_parity)
  <2>1. /\ Pos = depacketiser.next_retire /\ devToggle[Endpoint] = Pid(Pos)
        /\ depacketiser.packet_parity <=> depacketiser.next_retire = 1
    BY <1>2, <1>5 DEF Pos, Pointers
  <2>2. /\ depacketiser.next_retire \in 0 .. 1 /\ depacketiser.packet_parity \in BOOLEAN
        /\ stage.pid \in BOOLEAN
    BY <1>1 DEF Types, StageKnown, Stages
  <2> QED BY <2>1, <2>2 DEF Pid
<1> QED BY <1>1, <1>3, <1>4, <1>5

\* The ends of sequences of two and three.
LEMMA ShortTails ==
    \A x, y, z : /\ Tail(<<x, y, z>>) = <<y, z>> /\ Tail(<<x, y>>) = <<y>>
                 /\ Len(<<x>>) = 1
OBVIOUS

\* A transfer ends, and its result is returned.
LEMMA DoneFaithful ==
    ASSUME Faithful, Done
    PROVE  Faithful'
<1>1. /\ UNCHANGED <<op, packetiser, depacketiser, in_flight, started, seen, buf,
                     buffer_control, sie, sent, received, devToggle>>
      /\ pc = "done" /\ stages' = Tail(stages)
      /\ op \in Ops /\ StagesLeft /\ Untouched /\ Moved /\ Types /\ Agreed
  BY DEF Done, Faithful, device
<1>2. StageKnown
  BY <1>1, StageFacts DEF Types
<1>3. /\ Ended
      /\ stage.dir = "in" => buf = Units(0, stage.reply)
      /\ stage.dir = "out" => received = Units(0, stage.size)
      /\ stage.dir # "setup" => devToggle[Endpoint] = (stage.pid # depacketiser.packet_parity)
  BY <1>1, <1>2, StageOver
<1>4. Ended' /\ sie_status' \subseteq sie_status /\ ~sie.running /\ pc' \in {"start", "idle"}
  BY <1>1, <1>3 DEF Done, Faithful, StatusOK, Ended, Errors
<1>5. /\ StatusOK' /\ Transferring'
  BY <1>1, <1>4 DEF Faithful, StatusOK, Transferring, Busy, Waits, Completes
<1>6. CASE Len(stages) > 1
  <2>1. pc' = "start" /\ UNCHANGED <<result, toggle, failed>>
    BY <1>6 DEF Done
  <2>2. Types' /\ DataIntact'
    BY <1>1, <2>1 DEF Types, DataIntact
  <2>3. StagesLeft'
    <3>1. op.kind \in {"control_in", "control_out", "control_none", "clear_halt"}
      <4>1. Endpoint = "control"
        BY <1>2, <1>6 DEF StageKnown
      <4> QED BY <1>1, <4>1, TransferAssumption DEF Endpoint
    <3>2. CASE op.kind = "control_in"
      <4> DEFINE Move == Control("in", op.size, op.reply)
                 Status == Control("out", 0, 0)
      <4>1. stages \in {<<Setup, Move, Status>>, <<Move, Status>>, <<Status>>}
        BY <1>1, <3>2 DEF StagesLeft
      <4> HIDE DEF Move, Status
      <4>2. stages' \in {<<Move, Status>>, <<Status>>}
        <5>1. CASE stages = <<Setup, Move, Status>>
          BY <1>1, <5>1, ShortTails
        <5>2. CASE stages = <<Move, Status>>
          BY <1>1, <5>2, ShortTails
        <5>3. stages # <<Status>>
          BY <1>6, ShortTails
        <5> QED BY <4>1, <5>1, <5>2, <5>3
      <4> QED BY <1>1, <3>2, <4>2 DEF StagesLeft, Move, Status
    <3>3. CASE op.kind = "control_out"
      <4> DEFINE Move == Control("out", op.size, 0)
                 Status == Control("in", 0, 0)
      <4>1. stages \in {<<Setup, Move, Status>>, <<Move, Status>>, <<Status>>}
        BY <1>1, <3>3 DEF StagesLeft
      <4> HIDE DEF Move, Status
      <4>2. stages' \in {<<Move, Status>>, <<Status>>}
        <5>1. CASE stages = <<Setup, Move, Status>>
          BY <1>1, <5>1, ShortTails
        <5>2. CASE stages = <<Move, Status>>
          BY <1>1, <5>2, ShortTails
        <5>3. stages # <<Status>>
          BY <1>6, ShortTails
        <5> QED BY <4>1, <5>1, <5>2, <5>3
      <4> QED BY <1>1, <3>3, <4>2 DEF StagesLeft, Move, Status
    <3>4. CASE op.kind \in {"control_none", "clear_halt"}
      <4> DEFINE Status == Control("in", 0, 0)
      <4>1. stages \in {<<Setup, Status>>, <<Status>>}
        BY <1>1, <3>4 DEF StagesLeft
      <4> HIDE DEF Status
      <4>2. stages' = <<Status>>
        <5>1. stages = <<Setup, Status>>
          BY <1>6, <4>1, ShortTails
        <5> QED BY <1>1, <5>1, ShortTails
      <4> QED BY <1>1, <3>4, <4>2 DEF StagesLeft, Status
    <3> QED BY <3>1, <3>2, <3>3, <3>4
  <2>4. Len(stages') = Len(stages) - 1 /\ \A i \in 1 .. Len(stages') : stages'[i] = stages[i + 1]
    BY <1>1, <1>2, <1>6 DEF StageKnown
  <2>5. Untouched'
    BY <1>1, <1>2, <2>1, <2>4 DEF Untouched, StageKnown
  <2>6. Moved'
    BY <1>1, <1>2, <1>3, <2>4 DEF Moved, StageKnown
  <2>7. Endpoint = "control" /\ Endpoint' = Endpoint
    BY <1>1, <1>2, <1>6 DEF StageKnown, Endpoint
  <2>8. Agreed'
    BY <1>1, <1>2, <1>3, <1>6, <2>1, <2>4, <2>7 DEF Agreed, StageKnown
  <2> QED BY <1>1, <1>5, <2>2, <2>3, <2>5, <2>6, <2>8 DEF Faithful
<1>7. CASE ~(Len(stages) > 1)
  <2>1. /\ pc' = "idle" /\ Len(stages) = 1 /\ stage.dir # "setup"
        /\ failed' = IF op.kind = "clear_halt" THEN failed \ {"in"} ELSE failed
    <3>1. Len(stages) \in 1 .. 3 /\ (stage.dir = "setup" => Len(stages) > 1)
      BY <1>2 DEF StageKnown
    <3>2. ASSUME NEW n \in 1 .. 3, ~(n > 1) PROVE n = 1
      BY <3>2
    <3>3. Len(stages) = 1 /\ stage.dir # "setup"
      BY <1>7, <3>1, <3>2, Zenon
    <3> QED BY <1>7, <3>3 DEF Done
  <2>2. toggle' = CASE Endpoint # "control" ->
                          [toggle EXCEPT ![Endpoint] = @ # depacketiser.packet_parity]
                    [] op.kind = "clear_halt" -> [toggle EXCEPT !["in"] = FALSE]
                    [] OTHER -> toggle
    BY <1>7 DEF Done
  <2>3. /\ Endpoint \in {"in", "out", "control"} /\ toggle \in [{"in", "out"} -> BOOLEAN]
        /\ depacketiser.packet_parity \in BOOLEAN
        /\ Endpoint # "control" => stage.pid = toggle[Endpoint]
        /\ devToggle \in [{"in", "out", "control"} -> BOOLEAN]
    BY <1>1, <1>2 DEF StageKnown, Types
  <2>4. ASSUME Endpoint # "control"
        PROVE  toggle' \in [{"in", "out"} -> BOOLEAN] /\ Agreed'
    <3>1. op.kind # "clear_halt" /\ failed' = failed
      BY <2>1, <2>4 DEF Endpoint
    <3>2. /\ toggle' \in [{"in", "out"} -> BOOLEAN]
          /\ toggle'[Endpoint] = (toggle[Endpoint] # depacketiser.packet_parity)
          /\ \A e \in {"in", "out"} : e # Endpoint => toggle'[e] = toggle[e]
      <4> DEFINE next == toggle[Endpoint] # depacketiser.packet_parity
      <4>1. toggle' = [toggle EXCEPT ![Endpoint] = next] /\ next \in BOOLEAN
        BY <2>2, <2>4, <3>1 DEF next
      <4> HIDE DEF next
      <4>2. toggle'[Endpoint] = next /\ toggle' \in [{"in", "out"} -> BOOLEAN]
        BY <2>3, <2>4, <4>1
      <4>3. \A e \in {"in", "out"} : e # Endpoint => toggle'[e] = toggle[e]
        BY <2>3, <4>1
      <4> QED BY <4>2, <4>3 DEF next
    <3>3. toggle'[Endpoint] = devToggle[Endpoint]
      BY <1>3, <2>1, <2>3, <2>4, <3>2
    <3>4. Agreed'
      BY <1>1, <2>1, <3>1, <3>2, <3>3 DEF Agreed
    <3> QED BY <3>1, <3>2, <3>4
  <2>5. ASSUME Endpoint = "control", op.kind = "clear_halt"
        PROVE  toggle' \in [{"in", "out"} -> BOOLEAN] /\ Agreed'
    <3>1. /\ toggle' \in [{"in", "out"} -> BOOLEAN]
          /\ ~toggle'["in"] /\ toggle'["out"] = toggle["out"]
      BY <2>2, <2>3, <2>5
    <3>2. ~devToggle["in"]
      BY <1>1, <2>1, <2>5 DEF Agreed
    <3>3. failed' \subseteq failed
      BY <2>1
    <3>4. toggle'["in"] = devToggle["in"]
      BY <2>3, <3>1, <3>2
    <3>5. Agreed'
      BY <1>1, <2>1, <2>5, <3>1, <3>3, <3>4 DEF Agreed
    <3> QED BY <3>1, <3>5
  <2>6. ASSUME Endpoint = "control", op.kind # "clear_halt"
        PROVE  toggle' \in [{"in", "out"} -> BOOLEAN] /\ Agreed'
    <3>1. toggle' = toggle /\ failed' = failed
      BY <2>1, <2>2, <2>6
    <3> QED BY <1>1, <2>1, <2>3, <2>6, <3>1 DEF Agreed
  <2>7. toggle' \in [{"in", "out"} -> BOOLEAN] /\ Agreed'
    BY <2>4, <2>5, <2>6
  <2>8. Types'
    BY <1>1, <2>1, <2>7 DEF Types
  <2>9. DataIntact'
    BY <1>1, <1>2, <1>3, <2>1 DEF DataIntact, Moved, StageKnown, Endpoint
  <2> QED BY <1>5, <2>1, <2>7, <2>8, <2>9 DEF Faithful
<1> QED BY <1>6, <1>7
-----------------------------------------------------------------------------
(* Steps that fill and empty the buffers.                                  *)

\* What is known in the course of a stage that moves data.
LEMMA InCourse ==
    ASSUME Faithful, pc \in Busy
    PROVE  /\ Types /\ StageKnown /\ op \in Ops /\ StagesLeft /\ Untouched /\ Moved
           /\ stage.dir # "setup" => Pointers /\ Retiring
           /\ stage.dir = "in" => DataIn
           /\ stage.dir = "out" => DataOut
<1>1. Types /\ op \in Ops /\ StagesLeft /\ Untouched /\ Moved
  BY DEF Faithful, Busy, Waits, Completes
<1> QED BY <1>1, StageFacts DEF Faithful, Transferring, Types

\* Where the three parties are in the ring of two buffers.
LEMMA Ring ==
    ASSUME Types, Pointers
    PROVE  /\ DoneCount \in 0 .. 2 /\ Pos \in 0 .. 1 /\ Ahead \in 0 .. 2
           /\ packetiser.next_prep = (IF Ahead = 1 THEN 1 - Pos ELSE Pos)
           /\ depacketiser.next_retire = (IF DoneCount = 1 THEN 1 - Pos ELSE Pos)
           /\ in_flight = DoneCount + Ahead
           /\ \A b \in 0 .. 1 : buffer_control[b].available <=> Ahead = 2 \/ (Ahead = 1 /\ b = Pos)
<1>1. /\ depacketiser.next_retire \in 0 .. 1 /\ packetiser.next_prep \in 0 .. 1 /\ in_flight \in 0 .. 2
      /\ \A b \in 0 .. 1 : buffer_control[b].available \in BOOLEAN
  BY DEF Types, Halves
<1>2. /\ packetiser.next_prep = IF in_flight = 1 THEN 1 - depacketiser.next_retire ELSE depacketiser.next_retire
      /\ in_flight = 2 /\ buffer_control[depacketiser.next_retire].available =>
            buffer_control[1 - depacketiser.next_retire].available
      /\ \A b \in 0 .. 1 : buffer_control[b].available => InFlight(b)
  BY DEF Pointers
<1>3. /\ DoneCount \in 0 .. 2 /\ Pos \in 0 .. 1 /\ Ahead \in 0 .. 2
      /\ in_flight = DoneCount + Ahead
  BY <1>1 DEF DoneCount, Pos, Ahead
<1>4. depacketiser.next_retire = (IF DoneCount = 1 THEN 1 - Pos ELSE Pos)
  BY <1>1 DEF Pos
<1>5. packetiser.next_prep = (IF Ahead = 1 THEN 1 - Pos ELSE Pos)
  BY <1>1, <1>2 DEF DoneCount, Pos, Ahead
<1>6. ASSUME NEW b \in 0 .. 1
      PROVE  buffer_control[b].available <=> Ahead = 2 \/ (Ahead = 1 /\ b = Pos)
  BY <1>1, <1>2 DEF DoneCount, Pos, Ahead, InFlight
<1> QED BY <1>3, <1>4, <1>5, <1>6

\* The next packet is the largest that there are units for.
LEMMA NextPacket ==
    ASSUME Types
    PROVE  /\ next_packet.len \in Nat /\ next_packet.len <= packetiser.remain
           /\ packetiser.remain - next_packet.len = Left(packetiser.remain)
           /\ next_packet.last \in BOOLEAN
           /\ next_packet.last =>
                 packetiser.remain <= packet_size /\ next_packet.len = packetiser.remain
BY TransferAssumption DEF Types, next_packet, Smaller, Left

\* A buffer is filled, or offered, for the next packet.
LEMMA PrepareFaithful ==
    ASSUME Faithful, Prepare
    PROVE  Faithful'
<1>1. /\ UNCHANGED <<op, stages, depacketiser, started, seen, toggle, buf, failed, sie_status, sie,
                     sent, received, devToggle, result>>
      /\ pc \in {"prepare", "prepare2"} /\ pc \in Busy
      /\ stage' = stage /\ Endpoint' = Endpoint /\ (Ended' <=> Ended)
  BY DEF Prepare, device, Busy, Waits, stage, Endpoint, Ended
<1>2. stage.dir \in {"in", "out"} /\ StageKnown
  BY <1>1, InCourse DEF StageKnown, Stages, Dirs, Faithful, StatusOK
<1>3. /\ Types /\ StageKnown /\ op \in Ops /\ StagesLeft /\ Untouched /\ Moved
      /\ Pointers /\ (stage.dir = "in" => DataIn) /\ (stage.dir = "out" => DataOut)
      /\ stage.size \in Nat /\ stage.pid \in BOOLEAN
  BY <1>1, <1>2, InCourse DEF StageKnown, Stages
<1>4. CASE BeyondTheSlice
  <2>1. pc' = "panicked" /\ UNCHANGED <<packetiser, buffer_control, in_flight>>
    BY <1>4 DEF Prepare
  <2>2. UNCHANGED transfer /\ Retiring'
    BY <1>1, <2>1 DEF transfer, Retiring
  <2>3. StatusOK'
    BY <1>1, <1>2, <2>1 DEF Faithful, StatusOK, Busy, Waits, Completes
  <2>4. sie \in [running : BOOLEAN, which : 0 .. 1]
    BY <1>3 DEF Types
  <2> QED BY <1>1, <2>1, <2>2, <2>3, <2>4, QuietStep DEF Busy
<1>5. CASE ~BeyondTheSlice
  <2> DEFINE p == packetiser.next_prep
             n == next_packet.len
  <2>1. /\ pc' = After[pc] /\ in_flight' = in_flight + 1 /\ in_flight < 2 /\ next_packet.some
        /\ buffer_control' = [buffer_control EXCEPT ![p] = Prepared]
        /\ packetiser' = [next_prep |-> 1 - p, remain |-> packetiser.remain - n,
                          offset |-> packetiser.offset + n,
                          need_zero_size_packet |->
                             packetiser.need_zero_size_packet /\ packetiser.remain # 0]
    BY <1>5 DEF Prepare, MayPrepare
  <2>2. pc' \in {"prepare2", "arm"}
    BY <1>1, <2>1 DEF After
  <2>3. /\ DoneCount \in 0 .. 2 /\ Pos \in 0 .. 1 /\ Ahead \in 0 .. 2
        /\ p = (IF Ahead = 1 THEN 1 - Pos ELSE Pos)
        /\ depacketiser.next_retire = (IF DoneCount = 1 THEN 1 - Pos ELSE Pos)
        /\ in_flight = DoneCount + Ahead
        /\ \A b \in 0 .. 1 : buffer_control[b].available <=> Ahead = 2 \/ (Ahead = 1 /\ b = Pos)
    BY <1>3, Ring
  <2>4. /\ n \in Nat /\ n <= packetiser.remain
        /\ packetiser.remain - n = Left(packetiser.remain)
        /\ next_packet.last \in BOOLEAN
        /\ next_packet.last => packetiser.remain <= packet_size /\ n = packetiser.remain
    BY <1>3, NextPacket
  <2>5. /\ p \in 0 .. 1 /\ packetiser.remain \in Nat /\ packetiser.offset \in Nat
        /\ packetiser.need_zero_size_packet \in BOOLEAN
        /\ depacketiser.next_retire \in 0 .. 1 /\ depacketiser.packet_parity \in BOOLEAN
        /\ in_flight \in 0 .. 2 /\ buffer_control \in [0 .. 1 -> Halves]
    BY <1>3 DEF Types
  <2>6. /\ Units(packetiser.offset, n) \in Seq(Nat) /\ Len(Units(packetiser.offset, n)) = n
    BY <2>4, <2>5, UnitsRun
  <2>7. /\ Prepared \in Halves /\ Prepared.available /\ (Prepared.full <=> stage.dir = "out")
        /\ (Prepared.pid <=> Pid(p)) /\ (Prepared.last <=> next_packet.last)
        /\ stage.dir = "out" => Prepared.data = Units(packetiser.offset, n)
    <3> DEFINE out == stage.dir = "out"
               pid == Pid(p)
               data == IF out THEN Units(packetiser.offset, n) ELSE <<>>
    <3>1. Prepared = [available |-> TRUE, full |-> out, pid |-> pid, last |-> next_packet.last,
                      data |-> data]
      BY DEF Prepared
    <3>2. out \in BOOLEAN /\ pid \in BOOLEAN /\ data \in Seq(Nat)
      <4>1. pid \in BOOLEAN
        BY <1>3 DEF Pid
      <4>2. <<>> \in Seq(Nat)
        OBVIOUS
      <4> QED BY <2>6, <4>1, <4>2
    <3>3. out => data = Units(packetiser.offset, n)
      OBVIOUS
    <3> HIDE DEF out, pid, data
    <3>4. /\ Prepared \in Halves /\ Prepared.available /\ Prepared.data = data
          /\ (Prepared.full <=> out) /\ (Prepared.pid <=> pid) /\ (Prepared.last <=> next_packet.last)
      BY <2>4, <3>1, <3>2 DEF Halves
    <3> QED BY <3>3, <3>4 DEF out, pid
  <2> HIDE DEF p, n
  <2>8. /\ packetiser'.next_prep = 1 - p /\ packetiser'.remain = packetiser.remain - n
        /\ packetiser'.offset = packetiser.offset + n
        /\ packetiser'.need_zero_size_packet =>
              packetiser.need_zero_size_packet /\ packetiser.remain # 0
        /\ packetiser' \in [next_prep : 0 .. 1, remain : Nat, offset : Nat,
                            need_zero_size_packet : BOOLEAN]
    <3> DEFINE need == packetiser.need_zero_size_packet /\ packetiser.remain # 0
    <3>1. need \in BOOLEAN /\ packetiser.remain - n \in Nat /\ 1 - p \in 0 .. 1
      BY <2>4, <2>5
    <3>2. packetiser' = [next_prep |-> 1 - p, remain |-> packetiser.remain - n,
                         offset |-> packetiser.offset + n, need_zero_size_packet |-> need]
      BY <2>1
    <3>3. need => packetiser.need_zero_size_packet /\ packetiser.remain # 0
      OBVIOUS
    <3> HIDE DEF need
    <3> QED BY <2>4, <2>5, <3>1, <3>2, <3>3
  <2>9. /\ buffer_control' \in [0 .. 1 -> Halves] /\ buffer_control'[p] = Prepared
        /\ \A b \in 0 .. 1 : b # p => buffer_control'[b] = buffer_control[b]
    BY <2>1, <2>5, <2>7
  <2>10. Types'
    BY <1>1, <1>3, <2>1, <2>2, <2>5, <2>8, <2>9 DEF Types, Busy, Waits
  <2>11. DoneCount' = DoneCount /\ Pos' = Pos /\ Ahead' = Ahead + 1 /\ Ahead < 2
    <3>1. DoneCount' = DoneCount
      BY <1>1, <2>1, <2>3, <2>5, <2>7, <2>9 DEF DoneCount
    <3> QED BY <1>1, <2>1, <2>3, <3>1 DEF Pos, Ahead
  <2>12. StatusOK' /\ Agreed' /\ StagesLeft' /\ Untouched' /\ Moved' /\ Retiring' /\ DataIntact'
    <3>1. StatusOK' /\ Retiring' /\ DataIntact'
      BY <1>1, <1>2, <2>2 DEF Faithful, StatusOK, Busy, Waits, Completes, Retiring, DataIntact
    <3>2. StagesLeft' /\ Untouched' /\ Moved'
      BY <1>1, <1>3, <2>2 DEF StagesLeft, StagesOf, Bulk, Untouched, Moved
    <3>3. Agreed'
      BY <1>1, <2>2 DEF Faithful, Agreed
    <3> QED BY <3>1, <3>2, <3>3
  <2>13. Pointers'
    <3>1. packetiser'.next_prep =
             IF in_flight' = 1 THEN 1 - depacketiser'.next_retire ELSE depacketiser'.next_retire
      BY <1>1, <2>1, <2>3, <2>5, <2>8
    <3>2. depacketiser'.packet_parity <=> depacketiser'.next_retire = 1
      BY <1>1, <1>3 DEF Pointers
    <3>3. in_flight' = 2 /\ buffer_control'[depacketiser'.next_retire].available =>
             buffer_control'[1 - depacketiser'.next_retire].available
      BY <1>1, <2>1, <2>3, <2>5, <2>7, <2>9
    <3>4. DoubleBuffered' <=> DoubleBuffered
      BY <1>1 DEF DoubleBuffered, packets
    <3>5. DoubleBuffered' => sie'.which = Pos'
      BY <1>1, <1>3, <2>11, <3>4 DEF Pointers
    <3>6. ASSUME ~DoubleBuffered
          PROVE  /\ sie'.which = 0 /\ in_flight' = 1 /\ depacketiser'.next_retire = 0
                 /\ packetiser'.remain = 0 /\ ~packetiser'.need_zero_size_packet
                 /\ packetiser'.remain < packet_size
      <4>1. /\ sie.which = 0 /\ (in_flight = 1 => depacketiser.next_retire = 0)
            /\ (depacketiser.next_retire = 1 \/ in_flight = 1 =>
                   packetiser.remain = 0 /\ ~packetiser.need_zero_size_packet)
        BY <1>3, <3>6 DEF Pointers
      <4>2. in_flight = 0 /\ depacketiser.next_retire = 0
        BY <2>1, <2>5, <4>1 DEF next_packet
      <4>3. packetiser.remain < packet_size /\ (packetiser.need_zero_size_packet => packetiser.remain = 0)
        BY <1>3, <3>6 DEF Pointers
      <4>4. packetiser'.remain = 0
        BY <2>4, <2>5, <2>8, <4>3, TransferAssumption DEF Left
      <4>5. packet_size > 0 /\ ~packetiser'.need_zero_size_packet
        BY <2>8, <4>3, TransferAssumption
      <4> QED BY <1>1, <2>1, <4>1, <4>2, <4>4, <4>5
    <3>7. ASSUME NEW b \in 0 .. 1
          PROVE  LET half == buffer_control'[b] IN
                 /\ half.available => InFlight(b)' /\ half.pid = Pid(b)'
                 /\ InFlight(b)' => half.full = (half.available = (stage'.dir = "out"))
      <4>1. /\ buffer_control[b].available => InFlight(b) /\ buffer_control[b].pid = Pid(b)
            /\ InFlight(b) =>
                  buffer_control[b].full = (buffer_control[b].available = (stage.dir = "out"))
        BY <1>3 DEF Pointers
      <4>2. InFlight(b)' <=> (InFlight(b) \/ b = p)
        BY <1>1, <2>1, <2>3, <2>5 DEF InFlight
      <4>3. Pid(b)' = Pid(b)
        BY <1>1 DEF Pid
      <4>4. CASE b = p
        BY <1>1, <1>3, <2>7, <2>9, <4>2, <4>3, <4>4 DEF Halves, Pid
      <4>5. CASE b # p
        BY <1>1, <2>9, <4>1, <4>2, <4>3, <4>5
      <4> QED BY <4>4, <4>5
    <3>8. devToggle'[Endpoint'] = Pid(Pos)'
      BY <1>1, <1>3, <2>11 DEF Pointers, Pid
    <3> QED BY <3>1, <3>2, <3>3, <3>4, <3>5, <3>6, <3>7, <3>8 DEF Pointers
  <2>14. ASSUME stage.dir = "in" PROVE DataIn'
    <3> DEFINE r == depacketiser.next_retire
               left == stage.size - sent
    <3>1. DataIn
      BY <1>3, <2>14
    <3>2. DoneCount < 2 /\ (DoneCount = 1 => buffer_control'[r] = buffer_control[r])
      BY <2>1, <2>3, <2>5, <2>9
    <3>3. /\ Ahead > 0 => buffer_control'[Pos] = buffer_control[Pos] /\ p = 1 - Pos
          /\ Ahead = 0 => p = Pos
      BY <2>3, <2>9, <2>11
    <3>4. ASSUME ~Ended
          PROVE  /\ packetiser'.remain = IF Ahead' = 1 THEN Left(left) ELSE Left(Left(left))
                 /\ buffer_control'[Pos].last => left <= packet_size
                 /\ Ahead' = 2 /\ buffer_control'[1 - Pos].last => Left(left) <= packet_size
      <4>1. /\ packetiser.remain = IF Ahead = 0 THEN left ELSE Left(left)
            /\ Ahead > 0 /\ buffer_control[Pos].last => left <= packet_size
        BY <2>3, <2>11, <3>1, <3>4 DEF DataIn
      <4>2. packetiser'.remain = Left(packetiser.remain)
        BY <2>4, <2>8
      <4> HIDE DEF left
      <4> QED BY <2>3, <2>4, <2>7, <2>9, <2>11, <3>3, <4>1, <4>2
    <3>5. Ahead' # 0 /\ Ahead' > 0 /\ DoneCount' = DoneCount /\ Pos' = Pos
      BY <2>3, <2>11
    <3> DEFINE at == stage.size - depacketiser.remain
    <3>6. /\ at \in Nat /\ buf = Units(0, at)
          /\ DoneCount > 0 => buffer_control[r].data = Units(at, Len(buffer_control[r].data))
          /\ sent = at + (IF DoneCount > 0 THEN Len(buffer_control[r].data) ELSE 0)
          /\ sent <= stage.reply
          /\ Ended => sent = stage.reply
      BY <2>3, <3>1, <3>2 DEF DataIn
    <3>7. at' = at /\ r' = r /\ left' = left /\ buf' = buf /\ sent' = sent
      BY <1>1
    <3> HIDE DEF at, r, left
    <3>8. DoneCount' = 0 \/ DoneCount' = 1
      BY <2>3, <2>11, <3>2
    <3> QED BY <1>1, <3>2, <3>4, <3>5, <3>6, <3>7, <3>8 DEF DataIn, at, r, left
  <2>15. ASSUME stage.dir = "out" PROVE DataOut'
    <3> DEFINE at == Len(received)
               len(b) == Len(buffer_control[b].data)
    <3>1. DataOut
      BY <1>3, <2>15
    <3>2. /\ Ahead > 0 => buffer_control'[Pos] = buffer_control[Pos] /\ p = 1 - Pos
          /\ Ahead = 0 => p = Pos
      BY <2>3, <2>9, <2>11
    <3>3. /\ at \in Nat /\ received = Units(0, at) /\ (Ended => at = stage.size)
          /\ packetiser.offset + packetiser.remain = stage.size
      BY <3>1 DEF DataOut
    <3>4. packetiser'.offset + packetiser'.remain = stage.size
      BY <1>3, <2>4, <2>5, <2>8, <3>3
    <3>5. CASE Ended
      BY <1>1, <3>3, <3>4, <3>5 DEF DataOut
    <3>6. CASE ~Ended /\ Ahead = 0
      <4>1. packetiser.offset = at
        BY <3>1, <3>6 DEF DataOut
      <4>2. /\ buffer_control'[Pos].data = Units(at, n) /\ Len(buffer_control'[Pos].data) = n
            /\ buffer_control'[Pos].last => at + n = stage.size
        BY <2>4, <2>6, <2>7, <2>9, <2>15, <3>2, <3>3, <3>6, <4>1
      <4>3. packetiser'.offset = at + n /\ Ahead' = 1 /\ Pos' = Pos
        BY <2>8, <2>11, <3>6, <4>1
      <4> QED BY <1>1, <3>3, <3>4, <3>6, <4>2, <4>3 DEF DataOut
    <3>7. CASE ~Ended /\ Ahead = 1
      <4>1. /\ packetiser.offset = at + len(Pos)
            /\ buffer_control[Pos].data = Units(at, len(Pos))
            /\ buffer_control[Pos].last => at + len(Pos) = stage.size
        BY <3>1, <3>7 DEF DataOut
      <4>2. /\ buffer_control'[1 - Pos].data = Units(at + len(Pos), n)
            /\ Len(buffer_control'[1 - Pos].data) = n
            /\ buffer_control'[1 - Pos].last => at + len(Pos) + n = stage.size
        BY <2>4, <2>6, <2>7, <2>9, <2>15, <3>2, <3>3, <3>7, <4>1
      <4>3. packetiser'.offset = at + len(Pos) + n /\ Ahead' = 2 /\ Pos' = Pos
            /\ buffer_control'[Pos] = buffer_control[Pos]
        BY <2>8, <2>11, <3>2, <3>7, <4>1
      <4> HIDE DEF at
      <4>4. /\ at' = at /\ stage'.size = stage.size /\ ~Ended' /\ Ahead' > 0 /\ Ahead' > 1
            /\ Len(buffer_control'[Pos].data) = len(Pos)
        BY <1>1, <3>7, <4>3 DEF at
      <4> QED BY <1>1, <3>3, <3>4, <4>1, <4>2, <4>3, <4>4 DEF DataOut, at
    <3> QED BY <2>3, <2>11, <3>5, <3>6, <3>7
  <2>16. Transferring'
    BY <1>1, <2>12, <2>13, <2>14, <2>15 DEF Transferring
  <2> QED BY <1>1, <1>3, <2>10, <2>12, <2>16 DEF Faithful
<1> QED BY <1>4, <1>5

\* The buffer that is next to be retired is ripe when the hardware is done with
\* it, in either direction.
LEMMA RipeWhenDone ==
    ASSUME Types, Pointers, stage.dir \in {"in", "out"}
    PROVE  Ripe <=> DoneCount > 0
<1>1. depacketiser.next_retire \in 0 .. 1 /\ in_flight \in 0 .. 2 /\ buffer_control \in [0 .. 1 -> Halves]
  BY DEF Types
<1> DEFINE half == buffer_control[depacketiser.next_retire]
<1>2. half.available \in BOOLEAN /\ half.full \in BOOLEAN
  BY <1>1 DEF Halves
<1>3. in_flight > 0 => half.full = (half.available = (stage.dir = "out"))
  BY <1>1 DEF Pointers, InFlight
<1>4. DoneCount > 0 <=> in_flight > 0 /\ ~half.available
  BY <1>1 DEF DoneCount
<1> HIDE DEF half
<1>5. Ripe <=> in_flight > 0 /\ half.full = (stage.dir = "in")
  BY DEF Ripe, half
<1>6. CASE stage.dir = "in"
  BY <1>2, <1>3, <1>4, <1>5, <1>6
<1>7. CASE stage.dir = "out"
  BY <1>2, <1>3, <1>4, <1>5, <1>7
<1> QED BY <1>6, <1>7

\* A buffer that is done with is taken back.
LEMMA RetireFaithful ==
    ASSUME Faithful, Retire
    PROVE  Faithful'
<1>1. /\ UNCHANGED <<op, stages, packetiser, started, seen, toggle, failed, sie_status, sie, result,
                     sent, received, devToggle, buffer_control>>
      /\ pc \in {"retire", "retire2", "complete", "complete2"} /\ pc \in Busy
      /\ pc' = After[pc]
      /\ stage' = stage /\ Endpoint' = Endpoint /\ (Ended' <=> Ended)
  BY DEF Retire, registers, device, Busy, Completes, stage, Endpoint, Ended
<1>2. \/ pc = "retire" /\ pc' = "retire2"
      \/ pc = "retire2" /\ pc' = "prepare"
      \/ pc = "complete" /\ pc' = "complete2"
      \/ pc = "complete2" /\ pc' = "done"
  BY <1>1 DEF After
<1>3. stage.dir \in {"in", "out"} /\ StageKnown
  BY <1>1, InCourse DEF StageKnown, Stages, Dirs, Faithful, StatusOK
<1>4. /\ Types /\ StageKnown /\ op \in Ops /\ StagesLeft /\ Untouched /\ Moved
      /\ Pointers /\ Retiring /\ (stage.dir = "in" => DataIn) /\ (stage.dir = "out" => DataOut)
      /\ stage.size \in Nat /\ stage.pid \in BOOLEAN /\ stage.reply \in Nat /\ stage.reply <= stage.size
  BY <1>1, <1>3, InCourse DEF StageKnown, Stages
<1>5. StatusOK'
  BY <1>1, <1>2, <1>3 DEF Faithful, StatusOK, Busy, Waits, Completes
<1>6. Ripe <=> DoneCount > 0
  BY <1>3, <1>4, RipeWhenDone
<1>7. CASE ~Ripe
  <2>1. UNCHANGED transfer /\ UNCHANGED <<depacketiser, in_flight, buf>>
    BY <1>1, <1>7 DEF Retire, transfer
  <2>2. DoneCount' = DoneCount /\ DoneCount \in 0 .. 2
    BY <1>1, <1>4, <2>1, Ring DEF DoneCount
  <2>3. Retiring'
    BY <1>6, <1>7, <2>2 DEF Retiring
  <2>4. sie \in [running : BOOLEAN, which : 0 .. 1]
    BY <1>4 DEF Types
  <2> QED BY <1>1, <1>2, <1>5, <2>1, <2>3, <2>4, QuietStep DEF Busy, Waits, Completes
<1>8. CASE Ripe
  <2> DEFINE r == depacketiser.next_retire
             data == buffer_control[r].data
             m == Smaller(depacketiser.remain, Len(data))
             taken == IF stage.dir = "in" THEN m ELSE 0
  <2>1. /\ depacketiser' = [next_retire |-> 1 - r, remain |-> depacketiser.remain - taken,
                            packet_parity |-> ~depacketiser.packet_parity]
        /\ buf' = (IF stage.dir = "in" THEN buf \o SubSeq(data, 1, m) ELSE buf)
        /\ in_flight' = in_flight - 1
    BY <1>8 DEF Retire, ParityAfter
  <2>2. /\ DoneCount \in 1 .. 2 /\ Pos \in 0 .. 1 /\ Ahead \in 0 .. 2
        /\ packetiser.next_prep = (IF Ahead = 1 THEN 1 - Pos ELSE Pos)
        /\ r = (IF DoneCount = 1 THEN 1 - Pos ELSE Pos)
        /\ in_flight = DoneCount + Ahead
        /\ \A b \in 0 .. 1 : buffer_control[b].available <=> Ahead = 2 \/ (Ahead = 1 /\ b = Pos)
    BY <1>4, <1>6, <1>8, Ring
  <2>3. /\ r \in 0 .. 1 /\ depacketiser.remain \in Nat /\ depacketiser.packet_parity \in BOOLEAN
        /\ in_flight \in 0 .. 2 /\ buffer_control \in [0 .. 1 -> Halves]
    BY <1>4 DEF Types
  <2>4. data \in Seq(Nat) /\ m \in Nat /\ m <= depacketiser.remain /\ m <= Len(data)
    BY <2>3 DEF Halves, Smaller
  <2>5. taken \in Nat /\ taken <= depacketiser.remain
    BY <2>3, <2>4
  <2> HIDE DEF taken, m, data
  <2>6. /\ depacketiser'.next_retire = 1 - r /\ depacketiser'.remain = depacketiser.remain - taken
        /\ depacketiser'.packet_parity <=> ~depacketiser.packet_parity
        /\ depacketiser' \in [next_retire : 0 .. 1, remain : Nat, packet_parity : BOOLEAN]
    <3> DEFINE parity == ~depacketiser.packet_parity
    <3>1. parity \in BOOLEAN /\ depacketiser.remain - taken \in Nat /\ 1 - r \in 0 .. 1
      BY <2>3, <2>5
    <3>2. depacketiser' = [next_retire |-> 1 - r, remain |-> depacketiser.remain - taken,
                           packet_parity |-> parity]
      BY <2>1
    <3> HIDE DEF parity
    <3>3. /\ depacketiser'.next_retire = 1 - r /\ depacketiser'.remain = depacketiser.remain - taken
          /\ depacketiser'.packet_parity <=> parity
          /\ depacketiser' \in [next_retire : 0 .. 1, remain : Nat, packet_parity : BOOLEAN]
      BY <3>1, <3>2
    <3> QED BY <3>3 DEF parity
  <2>7. Types'
    BY <1>1, <1>2, <1>4, <2>1, <2>2, <2>3, <2>6 DEF Types, Busy, Waits, Completes
  <2>8. DoneCount' = DoneCount - 1 /\ Pos' = Pos /\ Ahead' = Ahead
    <3>1. DoneCount' = DoneCount - 1
      BY <1>1, <2>1, <2>2, <2>3, <2>6 DEF DoneCount
    <3> QED BY <2>1, <2>2, <2>6, <3>1 DEF Pos, Ahead
  <2>9. Retiring'
    BY <1>2, <1>4, <2>2, <2>8 DEF Retiring
  <2>10. Pointers'
    <3>1. packetiser'.next_prep =
             IF in_flight' = 1 THEN 1 - depacketiser'.next_retire ELSE depacketiser'.next_retire
      BY <1>1, <2>1, <2>2, <2>3, <2>6
    <3>2. depacketiser'.packet_parity <=> depacketiser'.next_retire = 1
      BY <1>4, <2>3, <2>6 DEF Pointers
    <3>3. in_flight' # 2
      BY <2>1, <2>3
    <3>4. DoubleBuffered' <=> DoubleBuffered
      BY <1>1 DEF DoubleBuffered, packets
    <3>5. DoubleBuffered' => sie'.which = Pos'
      BY <1>1, <1>4, <2>8, <3>4 DEF Pointers
    <3>6. ASSUME ~DoubleBuffered
          PROVE  /\ sie'.which = 0 /\ in_flight' = 0
                 /\ packetiser'.remain < packet_size
                 /\ packetiser'.remain = 0 /\ ~packetiser'.need_zero_size_packet
      <4>1. /\ sie.which = 0 /\ in_flight < 2
            /\ (in_flight = 1 => packetiser.remain = 0 /\ ~packetiser.need_zero_size_packet)
            /\ packetiser.remain < packet_size
        BY <1>4, <3>6 DEF Pointers
      <4> QED BY <1>1, <2>1, <2>2, <2>3, <4>1
    <3>7. ASSUME NEW b \in 0 .. 1
          PROVE  LET half == buffer_control'[b] IN
                 /\ half.available => InFlight(b)' /\ half.pid = Pid(b)'
                 /\ InFlight(b)' => half.full = (half.available = (stage'.dir = "out"))
      <4>1. /\ buffer_control[b].available => InFlight(b) /\ buffer_control[b].pid = Pid(b)
            /\ InFlight(b) =>
                  buffer_control[b].full = (buffer_control[b].available = (stage.dir = "out"))
        BY <1>4 DEF Pointers
      <4>2. InFlight(b)' <=> InFlight(b) /\ b # r
        BY <2>1, <2>2, <2>3, <2>6 DEF InFlight
      <4>3. Pid(b)' = Pid(b) /\ ~buffer_control[r].available
        BY <1>1, <2>2, <2>3 DEF Pid
      <4> QED BY <1>1, <4>1, <4>2, <4>3
    <3>8. devToggle'[Endpoint'] = Pid(Pos)'
      BY <1>1, <1>4, <2>8 DEF Pointers, Pid
    <3> QED BY <3>1, <3>2, <3>3, <3>4, <3>5, <3>6, <3>7, <3>8 DEF Pointers
  <2>11. ASSUME stage.dir = "in" PROVE DataIn'
    <3> DEFINE at == stage.size - depacketiser.remain
               q == Len(data)
               q2 == Len(buffer_control[1 - r].data)
    <3>1. /\ at \in Nat /\ buf = Units(0, at)
          /\ data = Units(at, q)
          /\ DoneCount > 1 => buffer_control[1 - r].data = Units(at + q, q2)
          /\ sent = at + q + (IF DoneCount > 1 THEN q2 ELSE 0)
          /\ sent <= stage.reply
          /\ Ended => sent = stage.reply
          /\ ~Ended =>
               LET left == stage.size - sent IN
               /\ packetiser.remain =
                     IF Ahead = 0 THEN left ELSE IF Ahead = 1 THEN Left(left) ELSE Left(Left(left))
               /\ Ahead > 0 /\ buffer_control[Pos].last => left <= packet_size
               /\ Ahead = 2 /\ buffer_control[1 - Pos].last => Left(left) <= packet_size
      BY <1>4, <2>2, <2>11 DEF DataIn, data
    <3>2. q \in Nat /\ q2 \in Nat
      BY <2>3, <2>4 DEF Halves
    <3>3. q <= depacketiser.remain /\ m = q /\ taken = q
      <4>1. at + q <= sent /\ sent <= stage.reply
        BY <3>1, <3>2
      <4>2. q <= depacketiser.remain
        <5>1. sent \in Nat /\ stage.size \in Nat /\ stage.reply \in Nat /\ stage.reply <= stage.size
          BY <1>4 DEF Types
        <5> QED BY <2>3, <3>2, <4>1, <5>1
      <4> HIDE DEF q
      <4>3. m = IF depacketiser.remain < q THEN depacketiser.remain ELSE q
        BY DEF m, q, Smaller
      <4> QED BY <2>3, <2>11, <3>2, <4>2, <4>3 DEF taken
    <3>4. stage'.size - depacketiser'.remain = at + q
      BY <1>1, <1>4, <2>3, <2>6, <3>2, <3>3
    <3>5. buf' = Units(0, at + q)
      <4>1. SubSeq(data, 1, m) = Units(at, q)
        BY <3>1, <3>2, <3>3, UnitsWhole
      <4>2. buf' = Units(0, at) \o Units(at, q)
        BY <2>1, <2>11, <3>1, <4>1
      <4> QED BY <3>1, <3>2, <4>2, UnitsJoin
    <3>6. /\ depacketiser'.next_retire = 1 - r /\ sent' = sent /\ stage'.size = stage.size
          /\ stage'.reply = stage.reply /\ (Ended' <=> Ended) /\ packetiser' = packetiser
          /\ buffer_control' = buffer_control
      BY <1>1, <2>6
    <3>7. DoneCount' = 0 \/ DoneCount' = 1
      BY <2>2, <2>8
    <3> HIDE DEF at, q, q2, r
    <3>8. ~Ended' =>
             LET left == stage'.size - sent' IN
             /\ packetiser'.remain =
                   IF Ahead' = 0 THEN left ELSE IF Ahead' = 1 THEN Left(left) ELSE Left(Left(left))
             /\ Ahead' > 0 /\ buffer_control'[Pos'].last => left <= packet_size
             /\ Ahead' = 2 /\ buffer_control'[1 - Pos'].last => Left(left) <= packet_size
      BY <2>8, <3>1, <3>6
    <3>9. /\ DoneCount' > 0 => buffer_control'[1 - r].data = Units(at + q, q2)
          /\ sent' = at + q + (IF DoneCount' > 0 THEN q2 ELSE 0)
          /\ Len(buffer_control'[1 - r].data) = q2
      BY <2>2, <2>8, <3>1, <3>6 DEF q2
    <3>10. at + q \in Nat /\ sent' <= stage'.reply /\ (Ended' => sent' = stage'.reply)
      BY <3>1, <3>2, <3>6
    <3> QED BY <3>2, <3>4, <3>5, <3>6, <3>7, <3>8, <3>9, <3>10 DEF DataIn, Left
  <2>12. ASSUME stage.dir = "out" PROVE DataOut'
    BY <1>1, <1>4, <2>8, <2>12 DEF DataOut
  <2>13. Transferring'
    BY <1>1, <2>9, <2>10, <2>11, <2>12 DEF Transferring
  <2>14. StagesLeft' /\ Moved' /\ Untouched'
    <3>1. StagesLeft'
      BY <1>1, <1>4 DEF StagesLeft, StagesOf, Bulk
    <3>2. stage.dir = "out" => buf' = buf
      BY <2>1
    <3>3. pc' # "start" /\ pc # "start"
      BY <1>2
    <3>4. Moved'
      BY <1>1, <1>4, <3>2 DEF Moved, StageKnown
    <3>5. Untouched'
      BY <1>1, <1>3, <1>4, <3>2, <3>3 DEF Untouched, StageKnown
    <3> QED BY <3>1, <3>4, <3>5
  <2>15. Agreed' /\ DataIntact'
    BY <1>1, <1>2 DEF Faithful, Agreed, DataIntact
  <2> QED BY <1>1, <1>4, <1>5, <2>7, <2>13, <2>14, <2>15 DEF Faithful
<1> QED BY <1>7, <1>8

\* It is the hardware's turn: its buffer has the PID that the device expects.
LEMMA HwTurn ==
    ASSUME Faithful, sie.running, stage.dir \in {"in", "out"}, buffer_control[sie.which].available
    PROVE  /\ pc \in Busy /\ Types /\ StageKnown /\ Pointers /\ Retiring /\ ~Ended
           /\ (stage.dir = "in" => DataIn) /\ (stage.dir = "out" => DataOut)
           /\ sie.which = Pos /\ Ahead \in 1 .. 2
           /\ buffer_control[Pos].pid = devToggle[Endpoint]
           /\ pc \notin Completes /\ sie_status = {} /\ started
           /\ op \in Ops /\ StagesLeft /\ Untouched /\ Moved
<1>1. pc \in Busy /\ sie_status = {} /\ ~Ended
  BY DEF Faithful, StatusOK, Ended
<1>2. /\ Types /\ StageKnown /\ Pointers /\ Retiring
      /\ op \in Ops /\ StagesLeft /\ Untouched /\ Moved
      /\ (stage.dir = "in" => DataIn) /\ (stage.dir = "out" => DataOut)
  BY <1>1, InCourse
<1>3. pc \notin Completes /\ started
  BY <1>1 DEF Faithful, StatusOK
<1>4. /\ DoneCount \in 0 .. 2 /\ Pos \in 0 .. 1 /\ Ahead \in 0 .. 2
      /\ depacketiser.next_retire = (IF DoneCount = 1 THEN 1 - Pos ELSE Pos)
      /\ in_flight = DoneCount + Ahead
      /\ \A b \in 0 .. 1 : buffer_control[b].available <=> Ahead = 2 \/ (Ahead = 1 /\ b = Pos)
  BY <1>2, Ring
<1>5. sie.which \in 0 .. 1
  BY <1>2 DEF Types
<1>6. Ahead \in 1 .. 2
  BY <1>4, <1>5
<1>7. sie.which = Pos
  <2>1. CASE DoubleBuffered
    BY <1>2, <2>1 DEF Pointers
  <2>2. CASE ~DoubleBuffered
    <3>1. sie.which = 0 /\ in_flight < 2 /\ (in_flight = 1 => depacketiser.next_retire = 0)
      BY <1>2, <2>2 DEF Pointers
    <3> QED BY <1>4, <1>6, <3>1
  <2> QED BY <2>1, <2>2
<1>8. buffer_control[Pos].pid = Pid(Pos) /\ devToggle[Endpoint] = Pid(Pos)
  BY <1>2, <1>4, <1>7 DEF Pointers
<1> QED BY <1>1, <1>2, <1>3, <1>6, <1>7, <1>8

\* The hardware is done with a buffer, and goes on to the other.
LEMMA HwAdvance ==
    ASSUME Types, StageKnown, Pointers, stage.dir \in {"in", "out"},
           sie.which = Pos, Ahead \in 1 .. 2, ~Ended,
           NEW half \in Halves, ~half.available, half.full <=> stage.dir = "in",
           NEW end \in BOOLEAN, Completed(half, end),
           UNCHANGED <<op, stages, packetiser, depacketiser, in_flight>>,
           devToggle' = [devToggle EXCEPT ![Endpoint] = ~@]
    PROVE  /\ Pointers' /\ buffer_control' \in [0 .. 1 -> Halves]
           /\ sie' \in [running : BOOLEAN, which : 0 .. 1] /\ (sie'.running <=> ~end)
           /\ devToggle' \in [{"in", "out", "control"} -> BOOLEAN]
           /\ \A e \in {"in", "out", "control"} : e # Endpoint => devToggle'[e] = devToggle[e]
           /\ buffer_control'[Pos] = half /\ buffer_control'[1 - Pos] = buffer_control[1 - Pos]
           /\ DoneCount' = DoneCount + 1 /\ Pos' = 1 - Pos /\ Ahead' = Ahead - 1
           /\ Ended' <=> end
<1>1. stage' = stage /\ Endpoint' = Endpoint /\ (DoubleBuffered' <=> DoubleBuffered)
  BY DEF stage, Endpoint, DoubleBuffered, packets
<1>2. /\ DoneCount \in 0 .. 2 /\ Pos \in 0 .. 1 /\ Ahead \in 0 .. 2
      /\ depacketiser.next_retire = (IF DoneCount = 1 THEN 1 - Pos ELSE Pos)
      /\ in_flight = DoneCount + Ahead
      /\ \A b \in 0 .. 1 : buffer_control[b].available <=> Ahead = 2 \/ (Ahead = 1 /\ b = Pos)
  BY Ring
<1>3. /\ depacketiser.next_retire \in 0 .. 1 /\ in_flight \in 0 .. 2
      /\ buffer_control \in [0 .. 1 -> Halves]
      /\ devToggle \in [{"in", "out", "control"} -> BOOLEAN]
      /\ stage.pid \in BOOLEAN /\ Endpoint \in {"in", "out", "control"}
  BY DEF Types, StageKnown, Stages
<1>4. /\ buffer_control' \in [0 .. 1 -> Halves]
      /\ buffer_control'[Pos] = half /\ buffer_control'[1 - Pos] = buffer_control[1 - Pos]
  BY <1>2, <1>3 DEF Completed
<1>5. /\ sie' \in [running : BOOLEAN, which : 0 .. 1] /\ (sie'.running <=> ~end)
      /\ sie'.which = IF DoubleBuffered THEN 1 - Pos ELSE 0
  <2> DEFINE run == ~end
             next == IF DoubleBuffered THEN 1 - Pos ELSE 0
  <2>1. sie' = [running |-> run, which |-> next] /\ run \in BOOLEAN /\ next \in 0 .. 1
    BY <1>2 DEF Completed
  <2> HIDE DEF run, next
  <2>2. sie' \in [running : BOOLEAN, which : 0 .. 1] /\ (sie'.running <=> run) /\ sie'.which = next
    BY <2>1
  <2> QED BY <2>2 DEF run, next
<1>6. Ended' <=> end
  BY DEF Completed, Ended
<1>7. DoneCount' = DoneCount + 1
  BY <1>2, <1>3, <1>4 DEF DoneCount
<1>8. Pos' = 1 - Pos /\ Ahead' = Ahead - 1
  BY <1>2, <1>3, <1>7 DEF Pos, Ahead
<1>9. /\ devToggle' \in [{"in", "out", "control"} -> BOOLEAN]
      /\ \A e \in {"in", "out", "control"} : e # Endpoint => devToggle'[e] = devToggle[e]
      /\ devToggle'[Endpoint] = ~devToggle[Endpoint]
  BY <1>3
<1>10. Pointers'
  <2>1. /\ packetiser'.next_prep =
              IF in_flight' = 1 THEN 1 - depacketiser'.next_retire ELSE depacketiser'.next_retire
        /\ depacketiser'.packet_parity <=> depacketiser'.next_retire = 1
    BY DEF Pointers
  <2>2. in_flight' = 2 /\ buffer_control'[depacketiser'.next_retire].available =>
           buffer_control'[1 - depacketiser'.next_retire].available
    BY <1>2, <1>3, <1>4
  <2>3. DoubleBuffered => sie'.which = Pos'
    BY <1>5, <1>8
  <2>4. ASSUME ~DoubleBuffered
        PROVE  LET r == depacketiser'.next_retire IN
               /\ sie'.which = 0 /\ in_flight' < 2 /\ (in_flight' = 1 => r = 0)
               /\ packetiser'.remain < packet_size
               /\ packetiser'.need_zero_size_packet => packetiser'.remain = 0
               /\ (r = 1 \/ in_flight' = 1) =>
                     packetiser'.remain = 0 /\ ~packetiser'.need_zero_size_packet
    BY <1>5, <2>4 DEF Pointers
  <2>5. ASSUME NEW b \in 0 .. 1
        PROVE  LET h == buffer_control'[b] IN
               /\ h.available => InFlight(b)' /\ h.pid = Pid(b)'
               /\ InFlight(b)' => h.full = (h.available = (stage'.dir = "out"))
    <3>1. /\ buffer_control[b].available => InFlight(b) /\ buffer_control[b].pid = Pid(b)
          /\ InFlight(b) =>
                buffer_control[b].full = (buffer_control[b].available = (stage.dir = "out"))
      BY DEF Pointers
    <3>2. (InFlight(b)' <=> InFlight(b)) /\ Pid(b)' = Pid(b)
      BY <1>1 DEF InFlight, Pid
    <3>3. CASE b = Pos
      <4>1. half.available \in BOOLEAN /\ half.full \in BOOLEAN
        BY DEF Halves
      <4> QED BY <1>1, <1>4, <3>3, <4>1
    <3>4. CASE b = 1 - Pos
      BY <1>1, <1>4, <3>1, <3>2, <3>4
    <3> QED BY <1>2, <3>3, <3>4
  <2>6. devToggle'[Endpoint'] = Pid(Pos)'
    <3>1. devToggle[Endpoint] = Pid(Pos)
      BY DEF Pointers
    <3>2. Pid(Pos)' = Pid(1 - Pos)
      BY <1>1, <1>8 DEF Pid
    <3>3. Pid(1 - Pos) = ~Pid(Pos)
      BY <1>2, <1>3 DEF Pid
    <3> QED BY <1>1, <1>9, <3>1, <3>2, <3>3
  <2> QED BY <1>1, <2>1, <2>2, <2>3, <2>4, <2>5, <2>6 DEF Pointers
<1> QED BY <1>4, <1>5, <1>6, <1>7, <1>8, <1>9, <1>10

\* What the rest of the invariant says of a step of the hardware.
LEMMA HwRest ==
    ASSUME Faithful, pc \in Busy, pc \notin Completes, started, op \in Ops, StagesLeft,
           StageKnown, Untouched, Moved, sie.running, sie_status = {}, stage.dir \in {"in", "out"},
           UNCHANGED task, NEW end \in BOOLEAN,
           sie_status' = (IF end THEN sie_status \cup {"TRANS_COMPLETE"} ELSE sie_status),
           sie' \in [running : BOOLEAN, which : 0 .. 1], sie'.running <=> ~end,
           buffer_control' \in [0 .. 1 -> Halves], sent' \in Nat,
           devToggle' \in [{"in", "out", "control"} -> BOOLEAN],
           \A e \in {"in", "out", "control"} : e # Endpoint => devToggle'[e] = devToggle[e],
           stage.dir = "in" => received' = received, stage.dir = "out" => sent' = sent,
           Transferring'
    PROVE  Faithful'
<1>1. /\ UNCHANGED <<op, stages, pc, packetiser, depacketiser, in_flight, started, seen, result,
                     toggle, buf, failed>>
      /\ stage' = stage /\ Endpoint' = Endpoint
  BY DEF task, stage, Endpoint
<1>2. pc # "idle" /\ pc # "start"
  BY DEF Busy, Waits, Completes
<1>3. Types'
  BY <1>1 DEF Faithful, Types
<1>4. StatusOK'
  <2>1. "TRANS_COMPLETE" \in Awaited
    BY DEF Awaited
  <2>2. /\ sie_status' \subseteq Awaited
        /\ sie'.running => sie_status' = {}
    BY <2>1
  <2>3. pc \in {"intr", "ready"} => seen = {}
    BY DEF Faithful, StatusOK
  <2> QED BY <1>1, <2>2, <2>3 DEF Faithful, StatusOK
<1>5. StagesLeft' /\ Moved' /\ op' \in Ops
  <2>1. StagesLeft'
    BY <1>1 DEF StagesLeft, StagesOf, Bulk
  <2>2. Moved'
    BY <1>1 DEF Moved, StageKnown
  <2> QED BY <1>1, <2>1, <2>2
<1>6. Untouched'
  BY <1>1, <1>2 DEF Untouched, StageKnown
<1>7. Agreed'
  <2>1. \A e \in {"in", "out"} \ failed : Endpoint # e => toggle[e] = devToggle[e]
    BY DEF Faithful, Agreed
  <2>2. op.kind = "clear_halt" => "in" \in failed /\ (Len(stages) = 1 => ~devToggle["in"])
    BY <1>2 DEF Faithful, Agreed
  <2>3. op.kind = "clear_halt" => Len(stages) = 1 /\ Endpoint # "in"
    BY DEF StageKnown, Endpoint
  <2>4. Endpoint \notin failed
    BY <1>2 DEF Faithful, Agreed
  <2> QED BY <1>1, <1>2, <2>1, <2>2, <2>3, <2>4 DEF Agreed
<1>8. DataIntact'
  BY <1>1, <1>2 DEF DataIntact
<1> QED BY <1>3, <1>4, <1>5, <1>6, <1>7, <1>8 DEF Faithful

\* The hardware receives a packet.
LEMMA HwInFaithful ==
    ASSUME Faithful, HwIn
    PROVE  Faithful'
<1> DEFINE old == buffer_control[sie.which]
           n == Smaller(packet_size, stage.reply - sent)
           half == [old EXCEPT !.available = FALSE, !.full = TRUE, !.data = Units(sent, n)]
           end == old.last \/ n < packet_size
<1>1. /\ sie.running /\ stage.dir = "in" /\ old.available /\ UNCHANGED task
      /\ sent' = sent + n /\ received' = received
      /\ devToggle' = [devToggle EXCEPT ![Endpoint] = ~@]
      /\ old.pid = devToggle[Endpoint] => Completed(half, end)
  BY DEF HwIn, HwPacket
<1>2. /\ pc \in Busy /\ Types /\ StageKnown /\ Pointers /\ Retiring /\ ~Ended /\ DataIn
      /\ sie.which = Pos /\ Ahead \in 1 .. 2
      /\ old.pid = devToggle[Endpoint]
      /\ pc \notin Completes /\ sie_status = {} /\ started
      /\ op \in Ops /\ StagesLeft /\ Untouched /\ Moved
  BY <1>1, HwTurn
<1>3. /\ stage.reply \in Nat /\ stage.size \in Nat /\ stage.reply <= stage.size /\ sent \in Nat
      /\ packet_size \in Nat /\ packet_size > 0 /\ old \in Halves
  BY <1>2, TransferAssumption DEF StageKnown, Stages, Types
<1>4. sent <= stage.reply
  BY <1>2 DEF DataIn
<1>5. n \in Nat /\ n <= packet_size /\ n <= stage.reply - sent /\ (n < packet_size => n = stage.reply - sent)
  BY <1>3, <1>4 DEF Smaller
<1> HIDE DEF n
<1>6. Units(sent, n) \in Seq(Nat) /\ Len(Units(sent, n)) = n
  BY <1>3, <1>5, UnitsRun
<1>7. /\ half \in Halves /\ ~half.available /\ half.full /\ half.data = Units(sent, n)
      /\ half.last = old.last /\ end \in BOOLEAN
  BY <1>3, <1>6 DEF Halves
<1>8. Completed(half, end)
  BY <1>1, <1>2
<1>9. ~end => ~old.last /\ n = packet_size
  BY <1>3, <1>5
<1>10. ASSUME end PROVE sent + n = stage.reply
  <2>1. old.last => stage.size - sent <= packet_size
    BY <1>2 DEF DataIn
  <2> QED BY <1>3, <1>4, <1>5, <1>10, <2>1
<1>11. sie_status' = IF end THEN sie_status \cup {"TRANS_COMPLETE"} ELSE sie_status
  BY <1>8 DEF Completed
<1> HIDE DEF half, end
<1>12. /\ UNCHANGED <<op, stages, pc, packetiser, depacketiser, in_flight, buf>>
       /\ stage' = stage /\ Endpoint' = Endpoint
  BY <1>1 DEF task, stage, Endpoint
<1>13. /\ Pointers' /\ buffer_control' \in [0 .. 1 -> Halves]
       /\ sie' \in [running : BOOLEAN, which : 0 .. 1] /\ (sie'.running <=> ~end)
       /\ devToggle' \in [{"in", "out", "control"} -> BOOLEAN]
       /\ \A e \in {"in", "out", "control"} : e # Endpoint => devToggle'[e] = devToggle[e]
       /\ buffer_control'[Pos] = half /\ buffer_control'[1 - Pos] = buffer_control[1 - Pos]
       /\ DoneCount' = DoneCount + 1 /\ Pos' = 1 - Pos /\ Ahead' = Ahead - 1
       /\ Ended' <=> end
  BY <1>1, <1>2, <1>7, <1>8, <1>12, HwAdvance
<1>14. DataIn'
  <2> DEFINE r == depacketiser.next_retire
             at == stage.size - depacketiser.remain
             len(b) == Len(buffer_control[b].data)
             left == stage.size - sent
  <2>1. /\ at \in Nat /\ buf = Units(0, at)
        /\ DoneCount > 0 => buffer_control[r].data = Units(at, len(r))
        /\ sent = at + (IF DoneCount > 0 THEN len(r) ELSE 0)
                     + (IF DoneCount > 1 THEN len(1 - r) ELSE 0)
        /\ packetiser.remain = IF Ahead = 1 THEN Left(left) ELSE Left(Left(left))
        /\ Ahead = 2 /\ buffer_control[1 - Pos].last => Left(left) <= packet_size
    BY <1>2 DEF DataIn
  <2>2. /\ DoneCount \in 0 .. 1 /\ Pos \in 0 .. 1 /\ r = (IF DoneCount = 1 THEN 1 - Pos ELSE Pos)
        /\ in_flight = DoneCount + Ahead
    BY <1>2, Ring DEF Types
  <2>3. /\ at' = at /\ r' = r /\ sent' = sent + n /\ buf' = buf /\ stage'.size = stage.size
        /\ stage'.reply = stage.reply
    BY <1>1, <1>12
  <2>4. /\ sent' <= stage.reply /\ (end => sent' = stage.reply)
    BY <1>3, <1>4, <1>5, <1>10, <2>3
  <2>5. ASSUME ~end
        PROVE  /\ packetiser'.remain = IF Ahead' = 0 THEN left' ELSE Left(left')
               /\ Ahead' > 0 /\ buffer_control'[Pos'].last => left' <= packet_size
    <3>1. left' = left - packet_size /\ left >= packet_size /\ left \in Int
      BY <1>3, <1>4, <1>5, <1>9, <2>3, <2>5
    <3> HIDE DEF left
    <3>2. Left(left) = left'
      BY <1>3, <3>1 DEF Left
    <3> QED BY <1>2, <1>12, <1>13, <2>1, <3>2
  <2>6. Ahead' # 2 /\ (Ahead' = 0 \/ Ahead' = 1)
    BY <1>2, <1>13
  <2>7. at' = stage'.size - depacketiser'.remain /\ left' = stage'.size - sent'
    OBVIOUS
  <2>8. r' = depacketiser'.next_retire
    OBVIOUS
  <2> HIDE DEF left, at, r
  <2> DEFINE len2(b) == Len(buffer_control'[b].data)
  <2>9. /\ DoneCount' > 0 => buffer_control'[r].data = Units(at, len2(r))
        /\ DoneCount' > 1 => buffer_control'[1 - r].data = Units(at + len2(r), len2(1 - r))
        /\ sent' = at + (IF DoneCount' > 0 THEN len2(r) ELSE 0)
                      + (IF DoneCount' > 1 THEN len2(1 - r) ELSE 0)
    <3>1. CASE DoneCount = 0
      <4>1. /\ r = Pos /\ sent = at /\ DoneCount' = 1
            /\ buffer_control'[r].data = Units(at, n) /\ len2(r) = n
        BY <1>3, <1>6, <1>7, <1>13, <2>1, <2>2, <3>1
      <4>2. /\ DoneCount' > 0 /\ ~(DoneCount' > 1) /\ at \in Nat /\ n \in Nat
            /\ sent' = at + n /\ at + n + 0 = at + n
        <5>1. DoneCount' > 0 /\ ~(DoneCount' > 1)
          BY <4>1
        <5>2. at \in Nat /\ n \in Nat
          BY <1>5, <2>1
        <5>3. sent' = at + n
          BY <1>1, <4>1
        <5> QED BY <5>1, <5>2, <5>3
      <4> HIDE DEF len2
      <4> QED BY <4>1, <4>2
    <3>2. CASE DoneCount = 1
      <4>1. /\ r = 1 - Pos /\ Pos = 1 - r /\ sent = at + len(r) /\ DoneCount' = 2
            /\ buffer_control'[r] = buffer_control[r]
            /\ buffer_control'[1 - r].data = Units(at + len(r), n) /\ len2(1 - r) = n
        BY <1>3, <1>6, <1>7, <1>13, <2>1, <2>2, <3>2
      <4>2. buffer_control'[r].data = Units(at, len(r)) /\ len2(r) = len(r)
        BY <2>1, <3>2, <4>1
      <4>3. len(r) \in Nat
        BY <1>2, <2>2 DEF Types, Halves
      <4> HIDE DEF len2, len
      <4> QED BY <1>3, <1>5, <2>1, <2>3, <4>1, <4>2, <4>3
    <3> QED BY <2>2, <3>1, <3>2
  <2>10. ~Ended' =>
            /\ packetiser'.remain = IF Ahead' = 0 THEN left' ELSE IF Ahead' = 1 THEN Left(left')
                                    ELSE Left(Left(left'))
            /\ Ahead' > 0 /\ buffer_control'[Pos'].last => left' <= packet_size
            /\ Ahead' = 2 /\ buffer_control'[1 - Pos'].last => Left(left') <= packet_size
    BY <1>13, <2>5, <2>6
  <2>11. at' = at /\ r' = r /\ buf' = Units(0, at) /\ at \in Nat /\ sent' <= stage'.reply
         /\ (Ended' => sent' = stage'.reply)
    BY <1>13, <2>1, <2>3, <2>4
  <2>12. /\ at = stage'.size - depacketiser'.remain /\ r = depacketiser'.next_retire
    BY <2>7, <2>8, <2>11
  <2> QED BY <2>7, <2>9, <2>10, <2>11, <2>12 DEF DataIn
<1>15. Transferring'
  BY <1>1, <1>2, <1>12, <1>13, <1>14 DEF Transferring, Retiring, Completes
<1>16. sent' \in Nat
  BY <1>1, <1>3, <1>5
<1> QED BY <1>1, <1>2, <1>7, <1>11, <1>13, <1>15, <1>16, HwRest

\* The hardware sends a packet.
LEMMA HwOutFaithful ==
    ASSUME Faithful, HwOut
    PROVE  Faithful'
<1> DEFINE old == buffer_control[sie.which]
           half == [old EXCEPT !.available = FALSE, !.full = FALSE]
           end == old.last
<1>1. /\ sie.running /\ stage.dir = "out" /\ old.available /\ UNCHANGED task
      /\ sent' = sent /\ Completed(half, end)
      /\ old.pid = devToggle[Endpoint] =>
            /\ received' = received \o old.data
            /\ devToggle' = [devToggle EXCEPT ![Endpoint] = ~@]
  BY DEF HwOut, HwPacket
<1>2. /\ pc \in Busy /\ Types /\ StageKnown /\ Pointers /\ Retiring /\ ~Ended /\ DataOut
      /\ sie.which = Pos /\ Ahead \in 1 .. 2
      /\ old.pid = devToggle[Endpoint]
      /\ pc \notin Completes /\ sie_status = {} /\ started
      /\ op \in Ops /\ StagesLeft /\ Untouched /\ Moved
  BY <1>1, HwTurn
<1>3. received' = received \o old.data /\ devToggle' = [devToggle EXCEPT ![Endpoint] = ~@]
  BY <1>1, <1>2
<1>4. stage.size \in Nat /\ sent \in Nat /\ old \in Halves /\ Pos \in 0 .. 1 /\ old = buffer_control[Pos]
  BY <1>2, Ring DEF StageKnown, Stages, Types
<1>5. /\ half \in Halves /\ ~half.available /\ ~half.full /\ end \in BOOLEAN
  BY <1>4 DEF Halves
<1>6. sie_status' = IF end THEN sie_status \cup {"TRANS_COMPLETE"} ELSE sie_status
  BY <1>1 DEF Completed
<1> HIDE DEF half, end
<1>7. /\ UNCHANGED <<op, stages, pc, packetiser, depacketiser, in_flight, buf>>
      /\ stage' = stage /\ Endpoint' = Endpoint
  BY <1>1 DEF task, stage, Endpoint
<1>8. /\ Pointers' /\ buffer_control' \in [0 .. 1 -> Halves]
      /\ sie' \in [running : BOOLEAN, which : 0 .. 1] /\ (sie'.running <=> ~end)
      /\ devToggle' \in [{"in", "out", "control"} -> BOOLEAN]
      /\ \A e \in {"in", "out", "control"} : e # Endpoint => devToggle'[e] = devToggle[e]
      /\ buffer_control'[Pos] = half /\ buffer_control'[1 - Pos] = buffer_control[1 - Pos]
      /\ DoneCount' = DoneCount + 1 /\ Pos' = 1 - Pos /\ Ahead' = Ahead - 1
      /\ Ended' <=> end
  BY <1>1, <1>2, <1>3, <1>5, <1>7, HwAdvance
<1>9. DataOut'
  <2> DEFINE at == Len(received)
             n == Len(old.data)
             other == buffer_control[1 - Pos]
             n2 == Len(other.data)
  <2>1. /\ at \in Nat /\ received = Units(0, at)
        /\ packetiser.offset + packetiser.remain = stage.size
        /\ packetiser.offset = at + n + (IF Ahead > 1 THEN n2 ELSE 0)
        /\ old.data = Units(at, n)
        /\ end => at + n = stage.size
        /\ Ahead = 2 =>
              other.data = Units(at + n, n2) /\ (other.last => at + n + n2 = stage.size)
    <3>1. buffer_control[Pos] = old /\ Ahead > 0 /\ (Ahead > 1 <=> Ahead = 2) /\ ~Ended /\ DataOut
      BY <1>2
    <3>2. end <=> buffer_control[Pos].last
      BY <1>4, <3>1 DEF end, Halves
    <3> HIDE DEF old
    <3> QED BY <3>1, <3>2 DEF DataOut
  <2>2. n \in Nat /\ n2 \in Nat
    <3>1. buffer_control[1 - Pos] \in Halves
      BY <1>2, <1>4 DEF Types
    <3> QED BY <1>4, <3>1 DEF Halves
  <2> HIDE DEF at, n
  <2>3. received' = Units(0, at + n)
    BY <1>3, <2>1, <2>2, UnitsJoin
  <2>4. Len(received') = at + n
    BY <2>1, <2>2, <2>3, UnitsRun
  <2>5. CASE Ahead = 1
    <3>1. Ahead' = 0 /\ packetiser.offset = at + n
      BY <1>8, <2>1, <2>2, <2>5
    <3>2. Ended' => at + n = stage.size
      BY <1>8, <2>1
    <3>3. at + n \in Nat /\ stage'.size = stage.size /\ packetiser' = packetiser
      BY <1>7, <2>1, <2>2
    <3> HIDE DEF other, old
    <3> QED BY <2>1, <2>3, <2>4, <3>1, <3>2, <3>3 DEF DataOut
  <2>6. CASE Ahead = 2
    <3>1. Ahead' = 1 /\ packetiser.offset = at + n + n2
      BY <1>8, <2>1, <2>6
    <3>2. buffer_control'[Pos'] = other
      BY <1>8
    <3>3. Ended' => at + n = stage.size
      BY <1>8, <2>1
    <3>4. at + n \in Nat /\ stage'.size = stage.size /\ packetiser' = packetiser
      BY <1>7, <2>1, <2>2
    <3>5. /\ other.data = Units(at + n, n2) /\ (other.last => at + n + n2 = stage.size)
          /\ n2 = Len(other.data)
      BY <2>1, <2>6
    <3> HIDE DEF other, old, n2
    <3> QED BY <2>1, <2>3, <2>4, <3>1, <3>2, <3>3, <3>4, <3>5 DEF DataOut
  <2> QED BY <1>2, <2>5, <2>6
<1>10. Transferring'
  BY <1>1, <1>2, <1>7, <1>8, <1>9 DEF Transferring, Retiring, Completes
<1>11. sent' \in Nat
  BY <1>1, <1>4
<1> QED BY <1>1, <1>2, <1>5, <1>6, <1>8, <1>10, <1>11, HwRest
-----------------------------------------------------------------------------
\* Before the first transfer.
LEMMA InitFaithful == Init => Faithful
<1> SUFFICES ASSUME Init PROVE Faithful
  OBVIOUS
<1>1. Types
  BY DEF Init, Types, Halves, Unused
<1>2. StatusOK /\ Transferring
  BY DEF Init, StatusOK, Transferring, Busy, Waits, Completes, Ended
<1>3. Agreed /\ DataIntact /\ pc = "idle"
  BY DEF Init, Agreed, DataIntact, Endpoint
<1> QED BY <1>1, <1>2, <1>3 DEF Faithful

\* Every step keeps the invariant.
LEMMA NextFaithful == Faithful /\ [Next]_vars => Faithful'
<1> SUFFICES ASSUME Faithful, [Next]_vars PROVE Faithful'
  OBVIOUS
<1>1. ASSUME NEW o \in Ops, Start(o) PROVE Faithful'
  BY <1>1, StartFaithful
<1>2. CASE Task
  BY <1>2, StartStageFaithful, BufferTooSmallFaithful, PrepareFaithful, PrepareNothingFaithful, ArmFaithful,
     PollFaithful, PollIntrFaithful, WakeFaithful, ReadyFaithful, RetireFaithful, DoneFaithful
     DEF Task
<1>3. CASE Hardware
  BY <1>3, HwSetupFaithful, HwInFaithful, HwOutFaithful DEF Hardware
<1>4. ASSUME NEW e \in Errors, HwError(e) PROVE Faithful'
  BY <1>4, HwErrorFaithful
<1>5. CASE on_irq \/ UNCHANGED vars
  BY <1>5, HandlerFaithful
<1> QED BY <1>1, <1>2, <1>3, <1>4, <1>5 DEF Next

(***************************************************************************)
(* A transfer that Rp2040HostController reports as successful has moved    *)
(* every unit once and in order (control_transfer_inner and its            *)
(* packetisers), whatever the packet size, the sizes asked for, how much   *)
(* the device sends, and how far the hardware gets between two steps of    *)
(* the task.                                                               *)
(***************************************************************************)
THEOREM TransfersIntact == Spec => []DataIntact
<1>1. Faithful => DataIntact
  BY DEF Faithful
<1> QED BY <1>1, InitFaithful, NextFaithful, PTL DEF Spec

(***************************************************************************)
(* Between transfers, the data_toggle that the driver has written back is  *)
(* the one the device expects, for every endpoint that has not halted:     *)
(* after any number of packets, an empty one included, and after           *)
(* clear_halt.                                                             *)
(***************************************************************************)
THEOREM TogglesAgreeAlways == Spec => []TogglesAgree
<1>1. Faithful => TogglesAgree
  BY DEF Faithful, Agreed, TogglesAgree
<1> QED BY <1>1, InitFaithful, NextFaithful, PTL DEF Spec
=============================================================================
