------------------------ MODULE InterruptPipesProofs ------------------------
(***************************************************************************)
(* That a stream of interrupt packets loses none and repeats none, and     *)
(* that nobody who waits for an event is forgotten by on_irq: for any      *)
(* devices, pipes, transfers and changes of the wiring.                    *)
(***************************************************************************)
EXTENDS InterruptPipes, FiniteSetTheorems, WellFoundedInduction, TLAPS

Interrupts == {"BUFF_STATUS", "HOST_CONN_DIS", "TRANS_COMPLETE"}
Polling == {"register", "check", "sleep"}
Transferring == {"transfer", "intr", "transfer_sleep"}
Buffers == [available : BOOLEAN, full : BOOLEAN, pid : {0, 1}, data : Nat]

\* The values that the driver's variables, and its surroundings', can have.
TypeOK ==
    /\ pc \in [Tasks -> {"run"} \cup Polling \cup Transferring]
    /\ todo \in [Tasks -> Seq(Pipes \cup {Detect})]
    /\ woken \subseteq Tasks /\ waker \in [0 .. Detect -> Tasks \cup {NoTask}]
    /\ pipe \in [Devices -> 0 .. NPipes] /\ taken \in [Devices -> Nat]
    /\ status \in Lines /\ line \in Lines /\ conn \in BOOLEAN
    /\ buff_status \subseteq 0 .. NPipes /\ int_ep_ctrl \subseteq Pipes
    /\ inte \subseteq Interrupts /\ ints \subseteq Interrupts
    /\ buffer_control \in [Pipes -> Buffers]
    /\ host_addr_endp \in [Pipes -> Devices \cup {NoTask}]
    /\ ctl \in [packets : Nat, running : BOOLEAN, complete : BOOLEAN]
    /\ irq \in {"idle", "buffers", "clear", "others", "mask"}
    /\ late \subseteq Pipes \cup {Detect}
    /\ present \subseteq Devices /\ robbed \subseteq Devices /\ moves \in Nat
    /\ sent \in [Devices -> Nat] /\ devToggle \in [Devices -> {0, 1}]

\* What a task has still to poll is its own, and in its list once.
ListOK(t) ==
    /\ pc[t] \in {"register", "check"} => todo[t] # <<>>
    /\ pc[t] = "sleep" => todo[t] = <<>>
    /\ pc[t] \in Polling =>
         /\ \A i \in 1 .. Len(todo[t]) : todo[t][i] \in Sources(t)
         /\ \A i, j \in 1 .. Len(todo[t]) : todo[t][i] = todo[t][j] => i = j
ListsOK == \A t \in Tasks : ListOK(t)

\* A pipe has one stream, and the address of its device.
StreamsOK ==
    /\ \A d, e \in Devices : pipe[d] = pipe[e] /\ pipe[d] # 0 => d = e
    /\ \A d \in Devices : pipe[d] # 0 => host_addr_endp[pipe[d]] = d
    /\ \A p \in Pipes : buffer_control[p].full => ~buffer_control[p].available

\* Both ends agree on the toggle of the next packet, and on what was sent.
Agreed(d) ==
    IF pipe[d] = 0 THEN sent[d] = 0 /\ devToggle[d] = 0
    ELSE LET bc == buffer_control[pipe[d]]
         IN  InOrder(d) /\ bc.pid = IF bc.full THEN 1 - devToggle[d] ELSE devToggle[d]
AllAgreed == \A d \in present \ robbed : Agreed(d)

Streaming == TypeOK /\ ListsOK /\ StreamsOK /\ AllAgreed

(***************************************************************************)
(* A set of pipes has a least one, which alloc_pipe takes.                 *)
(***************************************************************************)
LEMMA LeastPipe ==
  ASSUME NEW S \in SUBSET Pipes, S # {}
  PROVE  Min(S) \in S /\ \A p \in S : Min(S) <= p
<1> DEFINE R == OpToRel(<, Nat)
<1>0. S \subseteq Nat
  BY PipesAssumption DEF Pipes
<1>1. IsWellFoundedOn(R, Nat)
  BY NatLessThanWellFounded
<1>2. \A x, y \in Nat : <<x, y>> \in R <=> x < y
  BY DEF OpToRel
<1> HIDE DEF R
<1>3. PICK n \in S : \A m \in S : ~(<<m, n>> \in R)
  BY <1>0, <1>1, WFMin
<1>4. ASSUME NEW m \in S PROVE n <= m
  <2>1. m \in Nat /\ n \in Nat
    BY <1>0
  <2>2. ~(m < n)
    BY <1>2, <1>3, <2>1
  <2> QED BY <2>1, <2>2
<1> QED BY <1>4 DEF Min

(***************************************************************************)
(* A task polls each of its streams, in some order.                        *)
(***************************************************************************)
LEMMA EachOnce ==
  ASSUME TypeOK, NEW t \in Tasks, NEW order \in SetToSeqs(Sources(t))
  PROVE  /\ Sources(t) \subseteq Pipes \cup {Detect}
         /\ order \in Seq(Pipes \cup {Detect})
         /\ Sources(t) # {} => order # <<>>
         /\ \A i \in 1 .. Len(order) : order[i] \in Sources(t)
         /\ \A i, j \in 1 .. Len(order) : order[i] = order[j] => i = j
         /\ \A s \in Sources(t) : \E i \in 1 .. Len(order) : order[i] = s
<1> DEFINE S == Sources(t)
           n == Cardinality(S)
<1>1. S \subseteq Pipes \cup {Detect}
  BY DEF TypeOK, Sources, Pipes, Detect
<1>2. IsFiniteSet(S)
  <2>1. Detect \in Nat /\ S \subseteq 0 .. Detect
    BY <1>1, PipesAssumption DEF Pipes, Detect
  <2>2. IsFiniteSet(0 .. Detect)
    BY <2>1, FS_Interval
  <2> HIDE DEF S
  <2> QED BY <2>1, <2>2, FS_Subset
<1> HIDE DEF S
<1>3. n \in Nat
  BY <1>2, FS_CardinalityType
<1>4. order \in [1 .. n -> S] /\ \A i, j \in 1 .. n : i # j => order[i] # order[j]
  BY DEF SetToSeqs, S
<1> HIDE DEF n
<1>5. order \in Surjection(1 .. n, S)
  <2>1. order \in Injection(1 .. n, S)
    BY <1>4 DEF Injection, IsInjective
  <2>2. Cardinality(1 .. n) = n /\ IsFiniteSet(1 .. n)
    BY <1>3, FS_Interval
  <2> QED BY <1>2, <2>1, <2>2, FS_Injection DEF n
<1>6. order \in Seq(S) /\ Len(order) = n
  BY <1>3, <1>4
<1>7. \A s \in S : \E i \in 1 .. n : order[i] = s
  BY <1>5 DEF Surjection
<1>8. S # {} => n # 0
  BY <1>7
<1>9. order \in Seq(Pipes \cup {Detect})
  BY <1>1, <1>3, <1>4
<1> QED BY <1>1, <1>4, <1>6, <1>7, <1>8, <1>9 DEF S

(***************************************************************************)
(* Each step keeps the types.                                              *)
(***************************************************************************)
LEMMA TypingStep ==
  ASSUME TypeOK, ListsOK, Next
  PROVE  TypeOK'
<1> USE DEF tasks, registers, handler, plant, TypeOK
<1>1. CASE on_irq
  <2>1. Intr \subseteq Interrupts
    BY DEF Intr, Interrupts
  <2>2. ASSUME NEW sources \in SUBSET (0 .. Detect), Wakes(sources)
        PROVE  /\ woken' \subseteq Tasks /\ waker' \in [0 .. Detect -> Tasks \cup {NoTask}]
               /\ UNCHANGED <<pc, todo, pipe, taken, status>>
    BY <2>2 DEF Wakes
  <2>3. CASE IrqEnter
    BY <2>1, <2>3 DEF IrqEnter
  <2>4. CASE IrqBuffers
    BY <2>2, <2>4, PipesAssumption DEF IrqBuffers, Detect
  <2>5. CASE IrqClear
    BY <2>5 DEF IrqClear
  <2>6. CASE IrqOthers
    BY <2>2, <2>6, PipesAssumption DEF IrqOthers, Detect
  <2>7. CASE IrqMask
    BY <2>1, <2>7 DEF IrqMask
  <2> QED BY <1>1, <2>3, <2>4, <2>5, <2>6, <2>7 DEF on_irq
<1>2. CASE HwBuffer \/ HwComplete
  <2>1. CASE HwBuffer
    BY <2>1, PipesAssumption DEF HwBuffer
  <2>2. CASE HwComplete
    <3>1. ctl' \in [packets : Nat, running : BOOLEAN, complete : BOOLEAN]
      BY <2>2 DEF HwComplete
    <3> QED BY <2>2, <3>1 DEF HwComplete
  <2> QED BY <1>2, <2>1, <2>2
<1>3. ASSUME NEW p \in Pipes, HwPacket(p) PROVE TypeOK'
  <2> DEFINE d == host_addr_endp[p]
  <2>1. d \in Devices /\ sent[d] \in Nat /\ devToggle[d] \in {0, 1}
    BY <1>3 DEF HwPacket
  <2>2. /\ sent' = [sent EXCEPT ![d] = @ + 1] /\ devToggle' = [devToggle EXCEPT ![d] = 1 - @]
        /\ robbed' = robbed \cup ({d} \ {e \in Devices : pipe[e] = p})
        /\ UNCHANGED <<tasks, inte, int_ep_ctrl, host_addr_endp, conn, ctl, line, present, moves,
                       irq, ints>>
        /\ buff_status' \in {buff_status, buff_status \cup {p}}
        /\ late' \in {late, late \cup {p}}
        /\ buffer_control' \in {buffer_control, [buffer_control EXCEPT ![p] =
                     [@ EXCEPT !.available = FALSE, !.full = TRUE, !.data = sent[d] + 1]]}
    BY <1>3 DEF HwPacket, Noted
  <2> HIDE DEF d
  <2>3. sent' \in [Devices -> Nat] /\ devToggle' \in [Devices -> {0, 1}]
    BY <2>1, <2>2
  <2>4. buffer_control' \in [Pipes -> Buffers]
    <3>1. buffer_control[p] \in Buffers /\ sent[d] + 1 \in Nat
      BY <2>1
    <3>2. [buffer_control[p] EXCEPT !.available = FALSE, !.full = TRUE, !.data = sent[d] + 1]
            \in Buffers
      BY <3>1 DEF Buffers
    <3> QED BY <2>2, <3>2
  <2> QED BY <2>1, <2>2, <2>3, <2>4, PipesAssumption DEF Pipes
<1>4. CASE HwLine
  BY <1>4 DEF HwLine, Moved, Noted
<1>5. ASSUME NEW t \in Tasks, PollNext(t) PROVE TypeOK'
  <2>1. PICK order \in SetToSeqs(Sources(t)) : todo' = [todo EXCEPT ![t] = order]
    BY <1>5 DEF PollNext
  <2>2. todo' \in [Tasks -> Seq(Pipes \cup {Detect})]
    BY <2>1, EachOnce
  <2>3. /\ pc' \in [Tasks -> {"run"} \cup Polling \cup Transferring] /\ woken' \subseteq woken
        /\ UNCHANGED <<waker, pipe, taken, status, registers, handler, plant>>
    BY <1>5 DEF PollNext, Goes, Polling
  <2> QED BY <2>2, <2>3
<1>6. ASSUME NEW t \in Tasks, At(t, "check") \/ At(t, "register")
      PROVE  /\ todo[t] \in Seq(Pipes \cup {Detect}) /\ todo[t] # <<>>
             /\ Head(todo[t]) \in Pipes \cup {Detect}
             /\ Tail(todo[t]) \in Seq(Pipes \cup {Detect})
  BY <1>6 DEF ListsOK, ListOK, At
<1>7. ASSUME NEW t \in Tasks, Register(t) PROVE TypeOK'
  <2>1. Head(todo[t]) \in Pipes \cup {Detect}
    BY <1>6, <1>7 DEF Register
  <2>2. waker' \in [0 .. Detect -> Tasks \cup {NoTask}]
    BY <1>7, <2>1, PipesAssumption DEF Register, Pipes, Detect
  <2>3. pc' \in [Tasks -> {"run"} \cup Polling \cup Transferring]
    BY <1>7 DEF Register, Goes, Polling
  <2> QED BY <1>7, <2>2, <2>3 DEF Register
<1>8. ASSUME NEW t \in Tasks, PollFull(t) PROVE TypeOK'
  <2> DEFINE p == Head(todo[t])
             d == CHOOSE e \in Devices : pipe[e] = p
  <2>1. /\ p \in Pipes /\ taken' = [taken EXCEPT ![d] = buffer_control[p].data]
        /\ buffer_control' = [buffer_control EXCEPT ![p] = Armed(NextPid(@.pid))]
        /\ late' = late \ {p} /\ todo' = [todo EXCEPT ![t] = <<>>]
        /\ pc' = [pc EXCEPT ![t] = "run"]
        /\ UNCHANGED <<woken, waker, pipe, status, buff_status, inte, int_ep_ctrl,
                       host_addr_endp, conn, ctl, irq, ints, plant>>
    BY <1>8 DEF PollFull, Yields, Goes
  <2> HIDE DEF p, d
  <2>2. buffer_control' \in [Pipes -> Buffers] /\ taken' \in [Devices -> Nat]
    <3>1. buffer_control[p] \in Buffers
      BY <2>1
    <3>2. buffer_control[p].data \in Nat /\ Armed(NextPid(buffer_control[p].pid)) \in Buffers
      BY <3>1 DEF Armed, NextPid, Buffers
    <3> QED BY <2>1, <3>2
  <2>3. todo' \in [Tasks -> Seq(Pipes \cup {Detect})]
    BY <2>1
  <2> QED BY <2>1, <2>2, <2>3
<1>9. ASSUME NEW t \in Tasks, Pends(t) \/ Yields(t), At(t, "check")
      PROVE  /\ todo' \in [Tasks -> Seq(Pipes \cup {Detect})]
             /\ pc' \in [Tasks -> {"run"} \cup Polling \cup Transferring]
  <2>1. /\ \/ todo' = [todo EXCEPT ![t] = Tail(@)]
           \/ todo' = [todo EXCEPT ![t] = <<>>]
        /\ \E s \in {"run"} \cup Polling : pc' = [pc EXCEPT ![t] = s]
    BY <1>9 DEF Pends, Yields, Goes, Polling
  <2>2. Tail(todo[t]) \in Seq(Pipes \cup {Detect}) /\ <<>> \in Seq(Pipes \cup {Detect})
    BY <1>6, <1>9
  <2> QED BY <2>1, <2>2
<1>10. ASSUME NEW t \in Tasks, PollEmpty(t) PROVE TypeOK'
  BY <1>9, <1>10 DEF PollEmpty, Interrupts
<1>11. ASSUME NEW t \in Tasks, PollDetect(t) PROVE TypeOK'
  BY <1>9, <1>11 DEF PollDetect, Interrupts
<1>12. ASSUME NEW t \in Tasks, Resume(t) PROVE TypeOK'
  BY <1>12 DEF Resume, Goes, Transferring
<1>13. CASE Transfer
  <2> USE PipesAssumption DEF Goes, Transferring
  <2>1. CASE PollTransfer
    <3>1. waker' \in [0 .. Detect -> Tasks \cup {NoTask}]
      BY <2>1 DEF PollTransfer, Detect
    <3> QED BY <2>1, <3>1 DEF PollTransfer
  <2>2. CASE PollPending
    BY <2>2 DEF PollPending, Interrupts
  <2>3. CASE PollReady
    <3>1. ctl' \in [packets : Nat, running : BOOLEAN, complete : BOOLEAN]
      <4>1. ctl' = ctl \/ ctl' = [ctl EXCEPT !.packets = 0]
        BY <2>3 DEF PollReady
      <4>2. ctl \in [packets : Nat, running : BOOLEAN, complete : BOOLEAN]
        OBVIOUS
      <4> HIDE DEF TypeOK
      <4>3. [ctl EXCEPT !.packets = 0] \in [packets : Nat, running : BOOLEAN, complete : BOOLEAN]
        BY <4>2
      <4> QED BY <4>1, <4>2, <4>3
    <3>2. inte' \subseteq Interrupts /\ buff_status' \subseteq buff_status
      BY <2>3 DEF PollReady, Prepared, Interrupts
    <3>3. pc' \in [Tasks -> {"run"} \cup Polling \cup Transferring]
      BY <2>3 DEF PollReady
    <3> QED BY <2>3, <3>1, <3>2, <3>3 DEF PollReady
  <2> QED BY <1>13, <2>1, <2>2, <2>3 DEF Transfer
<1>14. ASSUME NEW n \in Lengths, StartTransfer(n) PROVE TypeOK'
  BY <1>14, PipesAssumption DEF StartTransfer, Prepared, Goes, Transferring, Interrupts
<1>15. ASSUME NEW d \in Devices, Open(d) PROVE TypeOK'
  <2> DEFINE p == Min(Free)
  <2>1. p \in Pipes
    BY <1>15, LeastPipe DEF Open, Free
  <2> HIDE DEF p
  <2>2. /\ pipe' = [pipe EXCEPT ![d] = p] /\ taken' = [taken EXCEPT ![d] = 0]
        /\ late' = late \ {p} /\ host_addr_endp' = [host_addr_endp EXCEPT ![p] = d]
        /\ buffer_control' = [buffer_control EXCEPT ![p] = Armed(0)]
        /\ UNCHANGED <<pc, todo, woken, waker, status, buff_status, inte, int_ep_ctrl, conn,
                       ctl, irq, ints, plant>>
    BY <1>15 DEF Open, interrupt_pipe, p
  <2>3. buffer_control' \in [Pipes -> Buffers]
    BY <2>2 DEF Armed, Buffers
  <2> QED BY <2>1, <2>2, <2>3 DEF Pipes
<1>16. ASSUME NEW d \in Devices, Drop(d) \/ Unplug(d) \/ Plug(d) PROVE TypeOK'
  <2>1. CASE Drop(d)
    BY <2>1, PipesAssumption DEF Drop
  <2>2. CASE Unplug(d)
    BY <2>2 DEF Unplug, Moved
  <2>3. CASE Plug(d)
    <3>1. sent' \in [Devices -> Nat] /\ devToggle' \in [Devices -> {0, 1}]
      BY <2>3 DEF Plug
    <3> QED BY <2>3, <3>1 DEF Plug, Moved
  <2> QED BY <1>16, <2>1, <2>2, <2>3
<1> QED BY <1>1, <1>2, <1>3, <1>4, <1>5, <1>7, <1>8, <1>10, <1>11, <1>12, <1>13, <1>14, <1>15,
           <1>16
        DEF Next, Hardware, Step

(***************************************************************************)
(* A task polls the streams that it has, each once, and none is closed     *)
(* under it.                                                               *)
(***************************************************************************)
LEMMA ListsStep ==
  ASSUME TypeOK, ListsOK, Next
  PROVE  ListsOK'
<1> USE DEF tasks, registers, handler, plant
<1>1. CASE UNCHANGED <<pc, todo, pipe>>
  BY <1>1 DEF ListsOK, ListOK, Sources
<1>2. ASSUME NEW t \in Tasks, UNCHANGED pipe, ListOK(t)',
             \A u \in Tasks \ {t} : pc'[u] = pc[u] /\ todo'[u] = todo[u]
      PROVE  ListsOK'
  <2>1. \A u \in Tasks \ {t} : ListOK(u)'
    BY <1>2 DEF ListsOK, ListOK, Sources
  <2> QED BY <1>2, <2>1 DEF ListsOK
<1>3. ASSUME NEW t \in Tasks, UNCHANGED pipe, pc'[t] \notin Polling,
             \A u \in Tasks \ {t} : pc'[u] = pc[u] /\ todo'[u] = todo[u]
      PROVE  ListsOK'
  <2>1. ListOK(t)'
    BY <1>3 DEF ListOK, Polling
  <2> QED BY <1>2, <1>3, <2>1
<1>4. ASSUME NEW t \in Tasks, PollNext(t) PROVE ListsOK'
  <2>1. PICK order \in SetToSeqs(Sources(t)) : todo' = [todo EXCEPT ![t] = order]
    BY <1>4 DEF PollNext
  <2>2. pc' = [pc EXCEPT ![t] = "register"] /\ UNCHANGED pipe /\ Sources(t) # {}
    BY <1>4 DEF PollNext, Goes
  <2>3. Sources(t)' = Sources(t) /\ pc'[t] = "register" /\ todo'[t] = order
    BY <2>1, <2>2 DEF Sources, TypeOK
  <2>4. ListOK(t)'
    BY <2>2, <2>3, EachOnce DEF ListOK
  <2> QED BY <1>2, <2>1, <2>2, <2>4 DEF TypeOK
<1>5. ASSUME NEW t \in Tasks, Register(t) PROVE ListsOK'
  <2>1. pc[t] = "register" /\ pc' = [pc EXCEPT ![t] = "check"] /\ UNCHANGED <<todo, pipe>>
    BY <1>5 DEF Register, Goes, At
  <2>2. ListOK(t)'
    BY <2>1 DEF ListsOK, ListOK, Sources, TypeOK, Polling
  <2> QED BY <1>2, <2>1, <2>2 DEF TypeOK
<1>6. ASSUME NEW t \in Tasks, At(t, "check"), Pends(t), UNCHANGED pipe PROVE ListsOK'
  <2> DEFINE tail == Tail(todo[t])
  <2>1. /\ pc[t] = "check" /\ todo' = [todo EXCEPT ![t] = tail]
        /\ pc' = [pc EXCEPT ![t] = IF Len(todo[t]) > 1 THEN "register" ELSE "sleep"]
    BY <1>6 DEF At, Pends, Goes
  <2>2. todo[t] \in Seq(Pipes \cup {Detect}) /\ todo[t] # <<>>
    BY <2>1 DEF TypeOK, ListsOK, ListOK
  <2>3. /\ tail \in Seq(Pipes \cup {Detect}) /\ Len(tail) = Len(todo[t]) - 1
        /\ \A i \in 1 .. Len(tail) : tail[i] = todo[t][i + 1] /\ i + 1 \in 1 .. Len(todo[t])
    BY <2>2
  <2>4. /\ \A i \in 1 .. Len(todo[t]) : todo[t][i] \in Sources(t)
        /\ \A i, j \in 1 .. Len(todo[t]) : todo[t][i] = todo[t][j] => i = j
    BY <2>1 DEF ListsOK, ListOK, Polling
  <2>5. Sources(t)' = Sources(t) /\ todo'[t] = tail
        /\ pc'[t] = IF Len(tail) > 0 THEN "register" ELSE "sleep"
    BY <1>6, <2>1, <2>2, <2>3 DEF Sources, TypeOK
  <2>6. Len(tail) > 0 => tail # <<>>
    OBVIOUS
  <2>7. ~(Len(tail) > 0) => tail = <<>>
    BY <2>3
  <2> HIDE DEF tail
  <2>8. \A i, j \in 1 .. Len(tail) : tail[i] = tail[j] => i = j
    <3> SUFFICES ASSUME NEW i \in 1 .. Len(tail), NEW j \in 1 .. Len(tail), tail[i] = tail[j]
                 PROVE  i = j
      OBVIOUS
    <3>1. i + 1 = j + 1
      BY <2>3, <2>4
    <3> QED BY <3>1
  <2>9. \A i \in 1 .. Len(tail) : tail[i] \in Sources(t)
    BY <2>3, <2>4
  <2>10. ListOK(t)'
    BY <2>5, <2>6, <2>7, <2>8, <2>9 DEF ListOK
  <2> QED BY <1>2, <1>6, <2>1, <2>10 DEF TypeOK
<1>7. ASSUME NEW t \in Tasks, At(t, "check"), Yields(t), UNCHANGED pipe PROVE ListsOK'
  BY <1>3, <1>7 DEF Yields, Goes, Polling, TypeOK
<1>8. ASSUME NEW t \in Tasks, Resume(t) PROVE ListsOK'
  BY <1>3, <1>8 DEF Resume, Goes, Polling, TypeOK
<1>9. ASSUME Transfer \/ \E n \in Lengths : StartTransfer(n) PROVE ListsOK'
  BY <1>3, <1>9, PipesAssumption
     DEF Transfer, PollTransfer, PollPending, PollReady, StartTransfer, Goes, Polling, TypeOK
<1>10. ASSUME NEW d \in Devices, NEW p, pipe' = [pipe EXCEPT ![d] = p], UNCHANGED <<pc, todo>>,
              pc[TaskOf[d]] = "run"
       PROVE  ListsOK'
  <2>1. \A t \in Tasks \ {TaskOf[d]} : Sources(t)' = Sources(t)
    <3> SUFFICES ASSUME NEW t \in Tasks \ {TaskOf[d]} PROVE Sources(t)' = Sources(t)
      OBVIOUS
    <3>1. \A e \in Devices : TaskOf[e] = t => pipe'[e] = pipe[e]
      BY <1>10 DEF TypeOK
    <3> QED BY <3>1 DEF Sources
  <2> QED BY <1>10, <2>1 DEF ListsOK, ListOK, Polling
<1>11. ASSUME NEW d \in Devices, Open(d) \/ Drop(d) PROVE ListsOK'
  BY <1>10, <1>11 DEF Open, Drop, At
<1>12. ASSUME NEW t \in Tasks, PollFull(t) \/ PollEmpty(t) \/ PollDetect(t) PROVE ListsOK'
  BY <1>6, <1>7, <1>12 DEF PollFull, PollEmpty, PollDetect
<1>13. CASE on_irq \/ Hardware \/ HwLine \/ \E d \in Devices : Unplug(d) \/ Plug(d)
  BY <1>1, <1>13
     DEF on_irq, IrqEnter, IrqBuffers, IrqClear, IrqOthers, IrqMask, Wakes, Hardware, HwBuffer,
         HwComplete, HwPacket, HwLine, Unplug, Plug
<1> QED BY <1>4, <1>5, <1>8, <1>9, <1>11, <1>12, <1>13 DEF Next, Step

(***************************************************************************)
(* A pipe has one stream at a time: the pipe that is opened was free.      *)
(***************************************************************************)
LEMMA StreamsStep ==
  ASSUME TypeOK, ListsOK, StreamsOK, Next
  PROVE  StreamsOK'
<1> USE DEF tasks, registers, handler, plant
<1>1. CASE UNCHANGED <<pipe, host_addr_endp, buffer_control>>
  BY <1>1 DEF StreamsOK
<1>2. ASSUME NEW p \in Pipes, HwPacket(p) PROVE StreamsOK'
  <2>1. UNCHANGED <<pipe, host_addr_endp>>
    BY <1>2 DEF HwPacket
  <2>2. buffer_control' \in {buffer_control, [buffer_control EXCEPT ![p] =
            [@ EXCEPT !.available = FALSE, !.full = TRUE, !.data = sent[host_addr_endp[p]] + 1]]}
    BY <1>2 DEF HwPacket
  <2>3. \A q \in Pipes : buffer_control'[q].full => ~buffer_control'[q].available
    <3>1. buffer_control \in [Pipes -> Buffers]
      BY DEF TypeOK
    <3> DEFINE bc == [buffer_control[p] EXCEPT !.available = FALSE, !.full = TRUE,
                                             !.data = sent[host_addr_endp[p]] + 1]
    <3>2. ~bc.available
      BY <3>1 DEF Buffers
    <3>3. buffer_control' = buffer_control \/ buffer_control' = [buffer_control EXCEPT ![p] = bc]
      BY <2>2
    <3> HIDE DEF bc
    <3> QED BY <3>1, <3>2, <3>3 DEF StreamsOK
  <2> QED BY <2>1, <2>3 DEF StreamsOK
<1>3. ASSUME NEW t \in Tasks, PollFull(t) PROVE StreamsOK'
  <2>1. UNCHANGED <<pipe, host_addr_endp>>
    BY <1>3 DEF PollFull
  <2>2. PICK p, pid : buffer_control' = [buffer_control EXCEPT ![p] = Armed(pid)]
    BY <1>3 DEF PollFull
  <2>3. \A q \in Pipes : buffer_control'[q].full => ~buffer_control'[q].available
    BY <2>2 DEF StreamsOK, Armed, TypeOK
  <2> QED BY <2>1, <2>3 DEF StreamsOK
<1>4. ASSUME NEW d \in Devices, Open(d) PROVE StreamsOK'
  <2> DEFINE p == Min(Free)
  <2>1. p \in Pipes /\ \A e \in Devices : pipe[e] # p
    BY <1>4, LeastPipe DEF Open, Free
  <2> HIDE DEF p
  <2>2. /\ pipe' = [pipe EXCEPT ![d] = p] /\ host_addr_endp' = [host_addr_endp EXCEPT ![p] = d]
        /\ buffer_control' = [buffer_control EXCEPT ![p] = Armed(0)]
    BY <1>4 DEF Open, interrupt_pipe, p
  <2>3. \A q \in Pipes : buffer_control'[q].full => ~buffer_control'[q].available
    BY <2>2 DEF StreamsOK, Armed, TypeOK
  <2>4. \A e \in Devices : pipe[e] # 0 => pipe[e] \in Pipes
    BY PipesAssumption DEF TypeOK, Pipes
  <2>5. \A e \in Devices : pipe'[e] # 0 => host_addr_endp'[pipe'[e]] = e
    BY <2>1, <2>2, <2>4 DEF StreamsOK, TypeOK
  <2>6. \A e, f \in Devices : pipe'[e] = pipe'[f] /\ pipe'[e] # 0 => e = f
    BY <2>1, <2>2 DEF StreamsOK, TypeOK
  <2> QED BY <2>3, <2>5, <2>6 DEF StreamsOK
<1>5. ASSUME NEW d \in Devices, Drop(d) PROVE StreamsOK'
  BY <1>5 DEF Drop, StreamsOK, TypeOK
<1>6. CASE on_irq \/ HwBuffer \/ HwComplete \/ HwLine \/ \E d \in Devices : Unplug(d) \/ Plug(d)
  BY <1>1, <1>6
     DEF on_irq, IrqEnter, IrqBuffers, IrqClear, IrqOthers, IrqMask, Wakes, HwBuffer,
         HwComplete, HwLine, Unplug, Plug
<1>7. CASE \E t \in Tasks : PollNext(t) \/ Register(t) \/ PollEmpty(t) \/ PollDetect(t) \/ Resume(t)
  BY <1>1, <1>7 DEF PollNext, Register, PollEmpty, PollDetect, Resume
<1>8. CASE Transfer \/ \E n \in Lengths : StartTransfer(n)
  BY <1>1, <1>8 DEF Transfer, PollTransfer, PollPending, PollReady, StartTransfer
<1> QED BY <1>2, <1>3, <1>4, <1>5, <1>6, <1>7, <1>8 DEF Next, Step, Hardware

(***************************************************************************)
(* A stream and its device agree after each packet, and after each that is *)
(* taken.  A packet for a pipe without a stream robs the device.           *)
(***************************************************************************)
LEMMA AgreedStep ==
  ASSUME TypeOK, ListsOK, StreamsOK, AllAgreed, Next
  PROVE  AllAgreed'
<1> USE DEF tasks, registers, handler, plant
<1>1. CASE UNCHANGED <<pipe, taken, sent, devToggle, buffer_control, present, robbed>>
  BY <1>1 DEF AllAgreed, Agreed, InOrder
<1>0. \A d \in Devices : pipe[d] # 0 => pipe[d] \in Pipes
  BY PipesAssumption DEF TypeOK, Pipes
<1>2. ASSUME NEW p \in Pipes, HwPacket(p) PROVE AllAgreed'
  <2> DEFINE d == host_addr_endp[p]
             bc == buffer_control[p]
  <2>1. /\ bc.available /\ d \in present
        /\ sent' = [sent EXCEPT ![d] = @ + 1] /\ devToggle' = [devToggle EXCEPT ![d] = 1 - @]
        /\ robbed' = robbed \cup ({d} \ {e \in Devices : pipe[e] = p})
        /\ UNCHANGED <<pipe, taken, present>>
    BY <1>2 DEF HwPacket
  <2>2. IF bc.pid = devToggle[d]
        THEN buffer_control' = [buffer_control EXCEPT ![p] =
               [bc EXCEPT !.available = FALSE, !.full = TRUE, !.data = sent[d] + 1]]
        ELSE buffer_control' = buffer_control
    BY <1>2 DEF HwPacket
  <2>3. d \in Devices /\ ~bc.full
    BY <2>1 DEF StreamsOK, TypeOK
  <2> SUFFICES ASSUME NEW e \in present' \ robbed' PROVE Agreed(e)'
    BY DEF AllAgreed
  <2>4. e \in Devices /\ e \in present \ robbed /\ Agreed(e)
    BY <2>1 DEF AllAgreed, TypeOK
  <2>5. CASE e # d
    <3>1. sent'[e] = sent[e] /\ devToggle'[e] = devToggle[e]
      BY <2>1, <2>4, <2>5 DEF TypeOK
    <3>2. pipe[e] # 0 => buffer_control'[pipe[e]] = buffer_control[pipe[e]]
      BY <1>0, <2>2, <2>4, <2>5 DEF StreamsOK, TypeOK
    <3> QED BY <2>1, <2>4, <3>1, <3>2 DEF Agreed, InOrder
  <2>6. CASE e = d
    <3>1. pipe[e] = p /\ p # 0
      BY <2>1, <2>4, <2>6 DEF Pipes
    <3>2. bc \in Buffers /\ sent[d] \in Nat /\ devToggle[d] \in {0, 1}
      BY <2>3 DEF TypeOK
    <3>3. bc.pid = devToggle[d] /\ taken[d] = sent[d]
      BY <2>3, <2>4, <2>6, <3>1 DEF Agreed, InOrder
    <3>4. /\ buffer_control'[p].full /\ buffer_control'[p].pid = bc.pid
          /\ buffer_control'[p].data = sent[d] + 1
      <4>1. buffer_control'[p] = [bc EXCEPT !.available = FALSE, !.full = TRUE, !.data = sent[d] + 1]
        BY <2>2, <3>3 DEF TypeOK
      <4> HIDE DEF d, bc
      <4> QED BY <3>2, <4>1 DEF Buffers
    <3>5. sent'[d] = sent[d] + 1 /\ devToggle'[d] = 1 - devToggle[d] /\ taken'[d] = taken[d]
          /\ pipe'[d] = p
      BY <2>1, <2>3, <2>6, <3>1 DEF TypeOK
    <3> HIDE DEF d, bc
    <3> QED BY <2>6, <3>1, <3>2, <3>3, <3>4, <3>5 DEF Agreed, InOrder
  <2> QED BY <2>5, <2>6
<1>3. ASSUME NEW t \in Tasks, PollFull(t) PROVE AllAgreed'
  <2> DEFINE p == Head(todo[t])
             d == CHOOSE e \in Devices : pipe[e] = p
             bc == buffer_control[p]
  <2>1. /\ pc[t] = "check" /\ p \in Pipes /\ bc.full /\ taken' = [taken EXCEPT ![d] = bc.data]
        /\ buffer_control' = [buffer_control EXCEPT ![p] = Armed(NextPid(bc.pid))]
        /\ UNCHANGED <<pipe, sent, devToggle, present, robbed>>
    BY <1>3 DEF PollFull, At
  <2>2. \E e \in Devices : pipe[e] = p
    <3>1. todo[t] \in Seq(Pipes \cup {Detect}) /\ todo[t] # <<>>
      BY <2>1 DEF TypeOK, ListsOK, ListOK
    <3>2. p = todo[t][1] /\ 1 \in 1 .. Len(todo[t])
      BY <3>1
    <3>3. p \in Sources(t)
      BY <2>1, <3>2 DEF ListsOK, ListOK, Polling
    <3> QED BY <2>1, <3>3, PipesAssumption DEF Sources, Pipes, Detect
  <2>3. d \in Devices /\ pipe[d] = p
    BY <2>2
  <2>4. bc \in Buffers /\ taken \in [Devices -> Nat]
    BY <2>1 DEF TypeOK
  <2> HIDE DEF p, d, bc
  <2> SUFFICES ASSUME NEW e \in present \ robbed PROVE Agreed(e)'
    BY <2>1 DEF AllAgreed
  <2>5. e \in Devices /\ Agreed(e)
    BY DEF AllAgreed, TypeOK
  <2>6. CASE e # d
    <3>1. pipe[e] # 0 => pipe[e] # p
      BY <2>3, <2>5, <2>6 DEF StreamsOK
    <3>2. taken'[e] = taken[e]
      BY <2>1, <2>4, <2>5, <2>6
    <3>3. pipe[e] # 0 => buffer_control'[pipe[e]] = buffer_control[pipe[e]]
      BY <1>0, <2>1, <2>5, <3>1 DEF TypeOK
    <3> QED BY <2>1, <2>5, <3>2, <3>3 DEF Agreed, InOrder
  <2>7. CASE e = d
    <3>1. pipe[e] = p /\ p # 0
      BY <2>1, <2>3, <2>7 DEF Pipes
    <3>2. taken[e] = bc.data - 1 /\ bc.data = sent[e] /\ bc.pid = 1 - devToggle[e]
      BY <2>1, <2>5, <3>1 DEF Agreed, InOrder, bc
    <3>3. /\ ~buffer_control'[p].full /\ buffer_control'[p].pid = 1 - bc.pid
          /\ taken'[e] = bc.data
      BY <2>1, <2>4, <2>5, <2>7 DEF Armed, NextPid, TypeOK
    <3>4. devToggle[e] \in {0, 1}
      BY <2>5 DEF TypeOK
    <3> QED BY <2>1, <3>1, <3>2, <3>3, <3>4 DEF Agreed, InOrder
  <2> QED BY <2>6, <2>7
<1>4. ASSUME NEW d \in Devices, Open(d) PROVE AllAgreed'
  <2> DEFINE p == Min(Free)
  <2>1. p \in Pipes /\ \A e \in Devices : pipe[e] # p
    BY <1>4, LeastPipe DEF Open, Free
  <2> HIDE DEF p
  <2>2. /\ pipe[d] = 0 /\ pipe' = [pipe EXCEPT ![d] = p] /\ taken' = [taken EXCEPT ![d] = 0]
        /\ buffer_control' = [buffer_control EXCEPT ![p] = Armed(0)]
        /\ UNCHANGED <<sent, devToggle, present, robbed>>
    BY <1>4 DEF Open, interrupt_pipe, p
  <2> SUFFICES ASSUME NEW e \in present \ robbed PROVE Agreed(e)'
    BY <2>2 DEF AllAgreed
  <2>3. e \in Devices /\ Agreed(e)
    BY DEF AllAgreed, TypeOK
  <2>4. CASE e # d
    <3>1. pipe'[e] = pipe[e] /\ taken'[e] = taken[e]
      BY <2>2, <2>3, <2>4 DEF TypeOK
    <3>2. pipe[e] # 0 => buffer_control'[pipe[e]] = buffer_control[pipe[e]]
      BY <1>0, <2>1, <2>2, <2>3 DEF TypeOK
    <3> QED BY <2>2, <2>3, <3>1, <3>2 DEF Agreed, InOrder
  <2>5. CASE e = d
    <3>1. sent[d] = 0 /\ devToggle[d] = 0
      BY <2>2, <2>3, <2>5 DEF Agreed
    <3>2. pipe'[d] = p /\ p # 0 /\ taken'[d] = 0 /\ buffer_control'[p] = Armed(0)
      BY <2>1, <2>2 DEF TypeOK, Pipes
    <3> QED BY <2>2, <2>5, <3>1, <3>2 DEF Agreed, InOrder, Armed
  <2> QED BY <2>4, <2>5
<1>5. ASSUME NEW d \in Devices, Drop(d) PROVE AllAgreed'
  <2>1. /\ d \notin present /\ pipe' = [pipe EXCEPT ![d] = 0]
        /\ UNCHANGED <<taken, sent, devToggle, buffer_control, present, robbed>>
    BY <1>5 DEF Drop
  <2>2. \A e \in present : pipe'[e] = pipe[e]
    BY <2>1 DEF TypeOK
  <2> QED BY <2>1, <2>2 DEF AllAgreed, Agreed, InOrder
<1>6. ASSUME NEW d \in Devices, Unplug(d) PROVE AllAgreed'
  BY <1>6 DEF Unplug, AllAgreed, Agreed, InOrder
<1>7. ASSUME NEW d \in Devices, Plug(d) PROVE AllAgreed'
  <2>1. /\ pipe[d] = 0 /\ present' = present \cup {d} /\ robbed' = robbed \ {d}
        /\ sent' = [sent EXCEPT ![d] = 0] /\ devToggle' = [devToggle EXCEPT ![d] = 0]
        /\ UNCHANGED <<pipe, taken, buffer_control>>
    BY <1>7 DEF Plug
  <2>2. Agreed(d)'
    BY <2>1 DEF Agreed, TypeOK
  <2>3. \A e \in (present \ robbed) \ {d} : Agreed(e)'
    BY <2>1 DEF AllAgreed, Agreed, InOrder, TypeOK
  <2> QED BY <2>1, <2>2, <2>3 DEF AllAgreed
<1>8. CASE on_irq \/ HwBuffer \/ HwComplete \/ HwLine
  BY <1>1, <1>8
     DEF on_irq, IrqEnter, IrqBuffers, IrqClear, IrqOthers, IrqMask, Wakes, HwBuffer,
         HwComplete, HwLine
<1>9. CASE \E t \in Tasks : PollNext(t) \/ Register(t) \/ PollEmpty(t) \/ PollDetect(t) \/ Resume(t)
  BY <1>1, <1>9 DEF PollNext, Register, PollEmpty, PollDetect, Resume
<1>10. CASE Transfer \/ \E n \in Lengths : StartTransfer(n)
  BY <1>1, <1>10 DEF Transfer, PollTransfer, PollPending, PollReady, StartTransfer
<1> QED BY <1>2, <1>3, <1>4, <1>5, <1>6, <1>7, <1>8, <1>9, <1>10 DEF Next, Step, Hardware

\* Before the first stream is opened.
LEMMA StreamingInit == Init => Streaming
<1> SUFFICES ASSUME Init PROVE Streaming
  OBVIOUS
<1>1. TypeOK
  <2>1. buffer_control \in [Pipes -> Buffers]
    BY DEF Init, Armed, Buffers
  <2>2. todo \in [Tasks -> Seq(Pipes \cup {Detect})]
    BY DEF Init
  <2>3. /\ pipe \in [Devices -> 0 .. NPipes] /\ taken \in [Devices -> Nat]
        /\ sent \in [Devices -> Nat] /\ devToggle \in [Devices -> {0, 1}]
    BY PipesAssumption DEF Init
  <2>4. /\ pc \in [Tasks -> {"run"} \cup Polling \cup Transferring]
        /\ waker \in [0 .. Detect -> Tasks \cup {NoTask}]
        /\ host_addr_endp \in [Pipes -> Devices \cup {NoTask}]
    BY DEF Init
  <2>5. ctl \in [packets : Nat, running : BOOLEAN, complete : BOOLEAN]
    BY DEF Init
  <2> QED BY <2>1, <2>2, <2>3, <2>4, <2>5 DEF Init, TypeOK, Lines, Interrupts
<1>2. ListsOK
  BY DEF Init, ListsOK, ListOK, Polling
<1>3. StreamsOK /\ AllAgreed
  BY DEF Init, StreamsOK, AllAgreed, Agreed, Armed
<1> QED BY <1>1, <1>2, <1>3 DEF Streaming

(***************************************************************************)
(* Every stream yields its device's packets once and in order, whatever    *)
(* else goes on: the control transfers, the other streams, the handler,    *)
(* and devices that are unplugged and come back.                           *)
(***************************************************************************)
THEOREM InOrderAlways == Spec => []PacketsInOrder
<1>1. Streaming /\ [Next]_vars => Streaming'
  <2> SUFFICES ASSUME Streaming, UNCHANGED vars PROVE Streaming'
    BY TypingStep, ListsStep, StreamsStep, AgreedStep DEF Streaming
  <2> QED BY DEF vars, tasks, registers, handler, plant, Streaming, TypeOK, ListsOK, ListOK,
                 Sources, StreamsOK, AllAgreed, Agreed, InOrder
<1>2. Streaming => PacketsInOrder
  BY DEF Streaming, AllAgreed, Agreed, PacketsInOrder
<1> QED BY <1>1, <1>2, StreamingInit, PTL DEF Spec

-----------------------------------------------------------------------------
(* Hypotheses: one task has all streams, as in the examples; and the last  *)
(* pipe, which on_irq never looks at, is not needed.                       *)

OneReader == \A d \in Devices : TaskOf[d] = Main
PipeToSpare == IsFiniteSet(Devices) /\ Cardinality(Devices) < NPipes

\* What the task has polled in vain, and what it is still to poll.
Rest == {todo[Main][i] : i \in 1 .. Len(todo[Main])}
Seen == Sources(Main) \ Rest
\* It relies on its wakers to be polled again.
Awaits == pc[Main] \in Polling /\ Main \notin woken
Waiting == {p \in Seen \cap Pipes : buffer_control[p].full}
Excused ==
    \/ \E p \in Rest \cap Pipes : buffer_control[p].full
    \/ (Waiting \cup Closed) \cap late # {}

\* The task is registered with all that it has polled.
Registered ==
    /\ \A s \in Seen : waker[s] = Main
    /\ pc[Main] = "check" => waker[Head(todo[Main])] = Main

\* The event of a source that was polled in vain is there to be seen ...
Asserted ==
    /\ Waiting \ late \subseteq buff_status
    /\ Detect \in Seen /\ line # status /\ Detect \notin late => conn

\* ... and enabled, or there is an excuse.
Enabled ==
    /\ Seen \cap Pipes # {} /\ "BUFF_STATUS" \notin inte => Excused
    /\ Detect \in Seen /\ "HOST_CONN_DIS" \notin inte => Detect \in late

\* What the handler will clear or mask has woken its task by then.
Handling ==
    /\ irq = "clear" => Waiting \subseteq late
    /\ irq \in {"others", "mask"} /\ Seen \cap Pipes # {} => buff_status = {} \/ Excused
    /\ irq # "idle" /\ Detect \in Seen /\ "HOST_CONN_DIS" \notin ints /\ conn => Detect \in late
    /\ irq = "mask" /\ Detect \in Seen => "HOST_CONN_DIS" \notin ints

\* The handler is called for enabled interrupts, and nobody else changes them.
HandlerOK ==
    /\ ints \subseteq inte /\ (irq = "idle" => ints = {})
    /\ irq \in {"buffers", "clear"} => "BUFF_STATUS" \in ints

\* The control pipe has a buffer only in the course of a transfer.
ControlOK ==
    /\ ctl.complete => ~ctl.running
    /\ pc[Main] \notin Transferring => 0 \notin buff_status /\ ~ctl.running

OthersIdle == \A t \in Tasks \ {Main} : pc[t] = "run"
Spare == \A d \in Devices : pipe[d] < NPipes

Watch == Registered /\ Asserted /\ Enabled /\ Handling

Attentive ==
    /\ TypeOK /\ ListsOK /\ StreamsOK /\ HandlerOK /\ ControlOK /\ OthersIdle /\ Spare
    /\ Awaits => Watch

\* on_irq reads only interrupts that are enabled, whatever happens meanwhile.
LEMMA HandlerStep ==
  ASSUME TypeOK, HandlerOK, Next
  PROVE  HandlerOK'
<1> USE DEF tasks, registers, handler, plant
<1>1. CASE UNCHANGED <<ints, irq>> /\ (inte \subseteq inte' \/ irq = "idle")
  BY <1>1 DEF HandlerOK
<1>2. CASE on_irq
  BY <1>2 DEF on_irq, IrqEnter, IrqBuffers, IrqClear, IrqOthers, IrqMask, HandlerOK
<1>3. CASE Hardware \/ HwLine
  BY <1>1, <1>3 DEF Hardware, HwBuffer, HwComplete, HwPacket, HwLine, Noted
<1>4. CASE \E t \in Tasks : PollNext(t) \/ Register(t) \/ PollFull(t) \/ PollEmpty(t)
                            \/ PollDetect(t) \/ Resume(t)
  BY <1>1, <1>4 DEF PollNext, Register, PollFull, PollEmpty, PollDetect, Resume, At
<1>5. CASE Transfer \/ \E n \in Lengths : StartTransfer(n)
  BY <1>1, <1>5 DEF Transfer, PollTransfer, PollPending, PollReady, StartTransfer, At
<1>6. CASE \E d \in Devices : Open(d) \/ Drop(d) \/ Unplug(d) \/ Plug(d)
  BY <1>1, <1>6 DEF Open, Drop, Unplug, Plug
<1> QED BY <1>2, <1>3, <1>4, <1>5, <1>6 DEF Next, Step

\* The control transfer and its bit of buff_status stay in step.
LEMMA ControlStep ==
  ASSUME TypeOK, ControlOK, Next
  PROVE  ControlOK'
<1> USE DEF tasks, registers, handler, plant, ControlOK
<1>1. CASE UNCHANGED <<pc, ctl>> /\ (0 \in buff_status' => 0 \in buff_status)
  BY <1>1
<1>2. CASE on_irq
  BY <1>1, <1>2 DEF on_irq, IrqEnter, IrqBuffers, IrqClear, IrqOthers, IrqMask, Wakes
<1>3. CASE HwBuffer
  BY <1>3 DEF HwBuffer
<1>4. CASE HwComplete
  BY <1>4 DEF HwComplete, TypeOK
<1>5. ASSUME NEW p \in Pipes, HwPacket(p) PROVE ControlOK'
  BY <1>1, <1>5 DEF HwPacket, Pipes
<1>6. CASE HwLine
  BY <1>1, <1>6 DEF HwLine
<1>7. ASSUME NEW t \in Tasks, pc[t] \notin Transferring, NEW s, pc' = [pc EXCEPT ![t] = s],
             UNCHANGED <<ctl, buff_status>>
      PROVE  ControlOK'
  BY <1>7, PipesAssumption DEF TypeOK
<1>8. ASSUME NEW t \in Tasks, PollNext(t) \/ Register(t) \/ PollFull(t) \/ PollEmpty(t)
                              \/ PollDetect(t)
      PROVE  ControlOK'
  <2>1. pc[t] \in {"run", "register", "check"}
    BY <1>8 DEF PollNext, Register, PollFull, PollEmpty, PollDetect, At
  <2>2. \E s \in {"run", "register", "check", "sleep"} : pc' = [pc EXCEPT ![t] = s]
    BY <1>8 DEF PollNext, Register, PollFull, PollEmpty, PollDetect, Pends, Yields, Goes
  <2>3. UNCHANGED <<ctl, buff_status>>
    BY <1>8 DEF PollNext, Register, PollFull, PollEmpty, PollDetect
  <2> QED BY <1>7, <2>1, <2>2, <2>3 DEF Transferring
<1>9. ASSUME NEW t \in Tasks, Resume(t) PROVE ControlOK'
  <2>1. CASE pc[t] = "sleep"
    BY <1>7, <1>9, <2>1 DEF Resume, At, Goes, Transferring
  <2>2. CASE pc[t] = "transfer_sleep"
    BY <1>9, <2>2, PipesAssumption DEF Resume, At, Goes, Transferring, TypeOK
  <2> QED BY <1>9, <2>1, <2>2 DEF Resume, At
<1>10. CASE PollTransfer \/ PollPending
  BY <1>10, PipesAssumption DEF PollTransfer, PollPending, Goes, Transferring, TypeOK
<1>11. CASE PollReady
  <2>1. pc[Main] = "intr" /\ Main \in Tasks
    BY <1>11, PipesAssumption DEF PollReady, At
  <2>2. CASE ctl.complete
    BY <1>11, <2>1, <2>2 DEF PollReady, TypeOK
  <2>3. CASE ~ctl.complete
    BY <1>11, <2>1, <2>3 DEF PollReady, Goes, Transferring, TypeOK
  <2> QED BY <2>2, <2>3
<1>12. ASSUME NEW n \in Lengths, StartTransfer(n) PROVE ControlOK'
  BY <1>12, PipesAssumption DEF StartTransfer, Goes, Transferring, TypeOK
<1>13. CASE \E d \in Devices : Open(d) \/ Drop(d) \/ Unplug(d) \/ Plug(d)
  BY <1>1, <1>13 DEF Open, Drop, Unplug, Plug
<1> QED BY <1>2, <1>3, <1>4, <1>5, <1>6, <1>8, <1>9, <1>10, <1>11, <1>12, <1>13
        DEF Next, Step, Hardware, Transfer

(***************************************************************************)
(* Tasks without a stream do not poll.                                     *)
(***************************************************************************)
LEMMA OthersDoNothing ==
  ASSUME OneReader, TypeOK, OthersIdle, NEW t \in Tasks, t # Main
  PROVE  ~(PollNext(t) \/ Register(t) \/ PollFull(t) \/ PollEmpty(t) \/ PollDetect(t) \/ Resume(t))
<1>1. Sources(t) = {}
  BY DEF OneReader, Sources
<1> QED BY <1>1 DEF OthersIdle, PollNext, Register, PollFull, PollEmpty, PollDetect, Resume, At

\* Only the task Main reads streams.
LEMMA OthersStep ==
  ASSUME OneReader, TypeOK, OthersIdle, Next
  PROVE  OthersIdle'
<1> USE DEF tasks, registers, handler, plant, OthersIdle
<1>1. ASSUME \A t \in Tasks \ {Main} : pc'[t] = pc[t] PROVE OthersIdle'
  BY <1>1
<1>2. CASE on_irq \/ Hardware \/ HwLine
  BY <1>2 DEF on_irq, IrqEnter, IrqBuffers, IrqClear, IrqOthers, IrqMask, Wakes, Hardware,
              HwBuffer, HwComplete, HwPacket, HwLine
<1>3. ASSUME NEW t \in Tasks,
             PollNext(t) \/ Register(t) \/ PollFull(t) \/ PollEmpty(t) \/ PollDetect(t) \/ Resume(t)
      PROVE  OthersIdle'
  <2>1. t = Main
    BY <1>3, OthersDoNothing
  <2>2. \E s : pc' = [pc EXCEPT ![t] = s]
    BY <1>3 DEF PollNext, Register, PollFull, PollEmpty, PollDetect, Resume, Pends, Yields, Goes
  <2> QED BY <1>1, <2>1, <2>2 DEF TypeOK
<1>4. CASE Transfer \/ \E n \in Lengths : StartTransfer(n)
  BY <1>1, <1>4 DEF Transfer, PollTransfer, PollPending, PollReady, StartTransfer, Goes, TypeOK
<1>5. CASE \E d \in Devices : Open(d) \/ Drop(d) \/ Unplug(d) \/ Plug(d)
  BY <1>5 DEF Open, Drop, Unplug, Plug
<1> QED BY <1>2, <1>3, <1>4, <1>5 DEF Next, Step

(***************************************************************************)
(* With more pipes than devices, the least free pipe is not the last one.  *)
(***************************************************************************)
LEMMA SpareStep ==
  ASSUME PipeToSpare, TypeOK, Spare, Next
  PROVE  Spare'
<1> USE DEF tasks, registers, handler, plant
<1>1. CASE UNCHANGED pipe
  BY <1>1 DEF Spare
<1>2. ASSUME NEW d \in Devices, Drop(d) PROVE Spare'
  BY <1>2, PipesAssumption DEF Drop, Spare, TypeOK
<1>3. ASSUME NEW d \in Devices, Open(d) PROVE Spare'
  <2> DEFINE S == Devices \ {d}
             T == {pipe[e] : e \in S}
             f == [e \in S |-> pipe[e]]
             p == Min(Free)
  <2>1. p \in Free /\ p \in Pipes /\ \A q \in Free : p <= q
    BY <1>3, LeastPipe DEF Open, Free
  <2>2. IsFiniteSet(S) /\ Cardinality(S) = Cardinality(Devices) - 1
    BY FS_RemoveElement DEF PipeToSpare
  <2>3. f \in Surjection(S, T)
    BY DEF Surjection
  <2> HIDE DEF f
  <2>4. IsFiniteSet(T) /\ Cardinality(T) <= Cardinality(S)
    BY <2>2, <2>3, FS_Surjection
  <2>5. p < NPipes
    <3> SUFFICES ASSUME p >= NPipes PROVE FALSE
      BY <2>1, PipesAssumption DEF Pipes
    <3>1. \A q \in 1 .. NPipes - 1 : q \notin Free
      BY <2>1, PipesAssumption DEF Pipes
    <3>2. pipe[d] = 0
      BY <1>3 DEF Open
    <3>3. 1 .. NPipes - 1 \subseteq T
      BY <3>1, <3>2, PipesAssumption DEF Free, Pipes
    <3> HIDE DEF T, S, p
    <3>4. NPipes - 1 \in Nat /\ Cardinality(1 .. NPipes - 1) = NPipes - 1
      <4>1. NPipes - 1 \in Nat
        BY PipesAssumption
      <4> QED BY <4>1, FS_Interval
    <3>5. Cardinality(1 .. NPipes - 1) <= Cardinality(T)
      BY <2>4, <3>3, FS_Subset
    <3>6. Cardinality(T) \in Nat /\ Cardinality(S) \in Nat /\ Cardinality(Devices) \in Nat
      BY <2>2, <2>4, FS_CardinalityType DEF PipeToSpare
    <3> QED BY <2>2, <2>4, <3>4, <3>5, <3>6, PipesAssumption DEF PipeToSpare
  <2> HIDE DEF p
  <2>6. pipe' = [pipe EXCEPT ![d] = p]
    BY <1>3 DEF Open, p
  <2> QED BY <2>5, <2>6 DEF Spare, TypeOK
<1>4. CASE on_irq \/ Hardware \/ HwLine
  BY <1>1, <1>4
     DEF on_irq, IrqEnter, IrqBuffers, IrqClear, IrqOthers, IrqMask, Wakes, Hardware, HwBuffer,
         HwComplete, HwPacket, HwLine
<1>5. CASE \E t \in Tasks : PollNext(t) \/ Register(t) \/ PollFull(t) \/ PollEmpty(t)
                            \/ PollDetect(t) \/ Resume(t)
  BY <1>1, <1>5 DEF PollNext, Register, PollFull, PollEmpty, PollDetect, Resume
<1>6. CASE Transfer \/ \E n \in Lengths : StartTransfer(n)
  BY <1>1, <1>6 DEF Transfer, PollTransfer, PollPending, PollReady, StartTransfer
<1>7. CASE \E d \in Devices : Unplug(d) \/ Plug(d)
  BY <1>1, <1>7 DEF Unplug, Plug
<1> QED BY <1>2, <1>3, <1>4, <1>5, <1>6, <1>7 DEF Next, Step

(***************************************************************************)
(* What the task has polled and has yet to poll is among its sources, and  *)
(* what was polled changes with its list and its streams only.             *)
(***************************************************************************)
LEMMA SeenType ==
  ASSUME TypeOK
  PROVE  /\ Seen \subseteq Pipes \cup {Detect} /\ Waiting \subseteq Pipes /\ Closed \subseteq Pipes
         /\ Detect \notin Pipes /\ 0 \notin Pipes /\ Pipes \subseteq 0 .. Detect
         /\ Detect \in 0 .. Detect
<1>1. Detect \notin Pipes /\ 0 \notin Pipes /\ Pipes \subseteq 0 .. Detect /\ Detect \in 0 .. Detect
  BY PipesAssumption DEF Detect, Pipes
<1>2. Sources(Main) \subseteq Pipes \cup {Detect}
  BY PipesAssumption DEF Sources, TypeOK, Pipes
<1>3. Closed \subseteq Pipes
  <2>1. Closed \subseteq buff_status \ {0} /\ buff_status \subseteq 0 .. NPipes
    BY DEF Closed, TypeOK
  <2> QED BY <2>1, PipesAssumption DEF Pipes
<1> QED BY <1>1, <1>2, <1>3 DEF Seen, Waiting

\* Which streams have been polled depends on the list and the pipes only.
LEMMA SeenSame ==
  ASSUME UNCHANGED <<todo, pipe>>
  PROVE  Seen' = Seen /\ Rest' = Rest
BY DEF Seen, Rest, Sources

\* The stream that is being polled is one of the task's own.
LEMMA HeadType ==
  ASSUME TypeOK, ListsOK, pc[Main] \in {"register", "check"}
  PROVE  /\ Head(todo[Main]) \in Rest /\ Head(todo[Main]) \in Sources(Main)
         /\ Head(todo[Main]) \in Pipes \cup {Detect}
<1>1. todo[Main] \in Seq(Pipes \cup {Detect}) /\ todo[Main] # <<>>
  BY PipesAssumption DEF TypeOK, ListsOK, ListOK
<1>2. Head(todo[Main]) = todo[Main][1] /\ 1 \in 1 .. Len(todo[Main])
  BY <1>1
<1>3. \A i \in 1 .. Len(todo[Main]) : todo[Main][i] \in Sources(Main)
  BY PipesAssumption DEF ListsOK, ListOK, Polling
<1> QED BY <1>1, <1>2, <1>3 DEF Rest

\* An excuse stays good while streams and buffers are left alone.
LEMMA ExcusedSame ==
  ASSUME UNCHANGED <<todo, pipe, buffer_control, buff_status>>, late \subseteq late'
  PROVE  Waiting' = Waiting /\ Closed' = Closed /\ (Excused => Excused')
<1>1. Waiting' = Waiting /\ Closed' = Closed /\ Rest' = Rest
  BY SeenSame DEF Waiting, Closed
<1> QED BY <1>1 DEF Excused

(***************************************************************************)
(* The handler's steps: what it clears or masks without a word is late, or *)
(* its task has been woken.                                                *)
(***************************************************************************)
LEMMA WatchIrq ==
  ASSUME TypeOK, ListsOK, HandlerOK, ControlOK, Spare, Awaits => Watch, on_irq, Awaits'
  PROVE  Watch'
<1> USE DEF tasks, registers, handler, plant
<1>1. UNCHANGED <<pc, todo, pipe, buffer_control, late, line, status>>
  BY DEF on_irq, IrqEnter, IrqBuffers, IrqClear, IrqOthers, IrqMask, Wakes
<1>2. woken \subseteq woken'
  BY DEF on_irq, IrqEnter, IrqBuffers, IrqClear, IrqOthers, IrqMask, Wakes
<1>3. Awaits /\ Watch /\ 0 \notin buff_status
  BY <1>1, <1>2 DEF Awaits, ControlOK, Polling, Transferring
<1>4. Seen' = Seen /\ Rest' = Rest /\ Waiting' = Waiting
  BY <1>1, SeenSame DEF Waiting
<1>5. \A s \in Seen : waker[s] = Main /\ s \in 0 .. Detect
  BY <1>3, SeenType DEF Watch, Registered
<1>6. ASSUME NEW sources, Wakes(sources)
      PROVE  Registered' /\ sources \cap Seen = {}
  <2>1. \A s \in sources : s \in 0 .. Detect => waker[s] # Main
    BY <1>6, PipesAssumption DEF Wakes, Awaits
  <2>2. \A s \in 0 .. Detect : waker[s] = Main => waker'[s] = Main
    BY <1>6, <2>1 DEF Wakes, TypeOK
  <2>3. pc[Main] = "check" => Head(todo[Main]) \in 0 .. Detect
    BY HeadType, SeenType
  <2> QED BY <1>1, <1>3, <1>4, <1>5, <2>1, <2>2, <2>3 DEF Watch, Registered
<1>7. CASE IrqEnter
  <2>1. /\ irq = "idle" /\ ints' = Intr \cap inte
        /\ irq' = IF "BUFF_STATUS" \in ints' THEN "buffers" ELSE "others"
        /\ UNCHANGED <<waker, inte, buff_status, conn>>
    BY <1>7 DEF IrqEnter
  <2>2. Registered' /\ Asserted'
    BY <1>1, <1>3, <1>4, <2>1 DEF Watch, Registered, Asserted
  <2>3. Excused => Excused'
    BY <1>1, <2>1, ExcusedSame
  <2>4. Enabled'
    BY <1>1, <1>3, <1>4, <2>1, <2>3 DEF Watch, Enabled
  <2>5. irq' = "others" /\ Seen \cap Pipes # {} => buff_status = {} \/ Excused
    BY <1>3, <2>1 DEF Watch, Enabled, Intr
  <2>6. Detect \in Seen /\ "HOST_CONN_DIS" \notin ints' /\ conn => Detect \in late
    BY <1>3, <2>1 DEF Watch, Enabled, Intr
  <2>7. Handling'
    BY <1>1, <1>4, <2>1, <2>3, <2>5, <2>6 DEF Handling
  <2> QED BY <2>2, <2>4, <2>7 DEF Watch
<1>8. CASE IrqBuffers
  <2> DEFINE sources == buff_status \cap 0 .. NPipes - 1
  <2>1. /\ irq = "buffers" /\ irq' = "clear" /\ Wakes(sources)
        /\ UNCHANGED <<inte, ints, buff_status, conn>>
    BY <1>8 DEF IrqBuffers
  <2>2. Registered' /\ sources \cap Seen = {}
    BY <1>6, <2>1
  <2>3. Waiting \subseteq late
    <3> SUFFICES ASSUME NEW p \in Waiting, p \notin late PROVE FALSE
      OBVIOUS
    <3>1. p \in buff_status /\ p \in Seen /\ p \in Pipes
      BY <1>3, SeenType DEF Watch, Asserted, Waiting
    <3>2. PICK d \in Devices : p = pipe[d]
      BY <3>1, SeenType DEF Seen, Sources
    <3>3. p \in 0 .. NPipes - 1
      BY <3>1, <3>2, PipesAssumption DEF Spare, Pipes
    <3> QED BY <2>2, <3>1, <3>3
  <2>4. Excused => Excused'
    BY <1>1, <2>1, ExcusedSame
  <2>5. Asserted' /\ Enabled'
    BY <1>1, <1>3, <1>4, <2>1, <2>4 DEF Watch, Asserted, Enabled
  <2>6. Handling'
    BY <1>1, <1>3, <1>4, <2>1, <2>3 DEF Watch, Handling
  <2> QED BY <2>2, <2>5, <2>6 DEF Watch
<1>9. CASE IrqClear
  <2>1. /\ irq = "clear" /\ irq' = "others" /\ buff_status' = {}
        /\ UNCHANGED <<inte, ints, conn, waker>>
    BY <1>3, <1>9 DEF IrqClear
  <2>2. Registered' /\ Asserted'
    BY <1>1, <1>3, <1>4, <2>1 DEF Watch, Registered, Asserted, Handling
  <2>3. Enabled'
    BY <1>1, <1>3, <1>4, <2>1 DEF Watch, Enabled, HandlerOK
  <2>4. Handling'
    BY <1>1, <1>3, <1>4, <2>1 DEF Watch, Handling
  <2> QED BY <2>2, <2>3, <2>4 DEF Watch
<1>10. CASE IrqOthers
  <2>1. /\ irq = "others" /\ irq' = "mask" /\ UNCHANGED <<inte, ints, buff_status>>
        /\ conn' = (conn /\ "HOST_CONN_DIS" \notin ints)
    BY <1>10 DEF IrqOthers
  <2>2. Registered' /\ (Detect \in Seen => "HOST_CONN_DIS" \notin ints)
    BY <1>6, <1>10 DEF IrqOthers
  <2>3. Excused => Excused'
    BY <1>1, <2>1, ExcusedSame
  <2>4. Asserted' /\ Enabled'
    BY <1>1, <1>3, <1>4, <2>1, <2>2, <2>3 DEF Watch, Asserted, Enabled
  <2>5. Handling'
    BY <1>1, <1>3, <1>4, <2>1, <2>2, <2>3 DEF Watch, Handling
  <2> QED BY <2>2, <2>4, <2>5 DEF Watch
<1>11. CASE IrqMask
  <2>1. /\ irq = "mask" /\ irq' = "idle" /\ inte' = inte \ Intr
        /\ UNCHANGED <<buff_status, conn, waker>>
    BY <1>11 DEF IrqMask
  <2>2. Registered' /\ Asserted'
    BY <1>1, <1>3, <1>4, <2>1 DEF Watch, Registered, Asserted
  <2>3. Excused => Excused'
    BY <1>1, <2>1, ExcusedSame
  <2>4. Seen \cap Pipes # {} /\ "BUFF_STATUS" \notin inte' => Excused
    BY <1>3, <2>1 DEF Watch, Enabled, Handling, Intr
  <2>5. Detect \in Seen /\ "HOST_CONN_DIS" \notin inte' => Detect \in late
    BY <1>3, <2>1 DEF Watch, Enabled, Handling, Intr
  <2>6. Enabled' /\ Handling'
    BY <1>1, <1>4, <2>1, <2>3, <2>4, <2>5 DEF Enabled, Handling
  <2> QED BY <2>2, <2>6 DEF Watch
<1> QED BY <1>7, <1>8, <1>9, <1>10, <1>11 DEF on_irq

(***************************************************************************)
(* The hardware's steps: an event that comes while the handler runs is     *)
(* late.  A pipe that nobody has polled yet in this round will be found    *)
(* full.                                                                   *)
(***************************************************************************)
LEMMA WatchHardware ==
  ASSUME OneReader, TypeOK, StreamsOK, ControlOK, Awaits => Watch, Awaits',
         Hardware \/ HwLine \/ \E d \in Devices : Unplug(d) \/ Plug(d)
  PROVE  Watch'
<1> USE DEF tasks, registers, handler, plant
<1>1. UNCHANGED <<pc, woken, waker, todo, pipe, status, inte, ints, irq>>
  BY DEF Hardware, HwBuffer, HwComplete, HwPacket, HwLine, Noted, Unplug, Plug
<1>2. Awaits /\ Watch /\ ~ctl.running
  BY <1>1 DEF Awaits, ControlOK, Polling, Transferring
<1>3. Seen' = Seen /\ Rest' = Rest
  BY <1>1, SeenSame
<1>4. Registered'
  BY <1>1, <1>2, <1>3 DEF Watch, Registered
<1>5. CASE UNCHANGED <<buffer_control, buff_status, conn, late, line>>
  <2>1. Waiting' = Waiting /\ (Excused => Excused')
    BY <1>1, <1>5, ExcusedSame
  <2> QED BY <1>1, <1>2, <1>3, <1>4, <1>5, <2>1 DEF Watch, Asserted, Enabled, Handling
<1>6. ASSUME NEW p \in Pipes, HwPacket(p) PROVE Watch'
  <2> SUFFICES ASSUME ~UNCHANGED <<buffer_control, buff_status, late>> PROVE Watch'
    BY <1>5, <1>6 DEF HwPacket
  <2>1. /\ buffer_control[p].available /\ UNCHANGED <<conn, line>>
        /\ buffer_control' = [buffer_control EXCEPT ![p] =
              [@ EXCEPT !.available = FALSE, !.full = TRUE, !.data = sent[host_addr_endp[p]] + 1]]
        /\ buff_status' = buff_status \cup {p}
        /\ late' = IF irq = "idle" THEN late ELSE late \cup {p}
    BY <1>6 DEF HwPacket, Noted
  <2>2. /\ buffer_control'[p].full /\ ~buffer_control[p].full
        /\ \A q \in Pipes \ {p} : buffer_control'[q] = buffer_control[q]
    <3>1. buffer_control \in [Pipes -> Buffers]
      BY DEF TypeOK
    <3>2. buffer_control'[p] = [buffer_control[p] EXCEPT !.available = FALSE, !.full = TRUE,
                                              !.data = sent[host_addr_endp[p]] + 1]
      BY <2>1, <3>1
    <3>3. buffer_control'[p].full
      BY <3>1, <3>2 DEF Buffers
    <3> QED BY <2>1, <3>1, <3>3 DEF StreamsOK
  <2>3. Waiting' = Waiting \cup ({p} \cap Seen)
    BY <1>3, <2>2, SeenType DEF Waiting
  <2>4. Closed \subseteq Closed' /\ late \subseteq late'
    BY <1>1, <2>1 DEF Closed
  <2>5. Excused => Excused'
    BY <1>3, <2>2, <2>3, <2>4 DEF Excused
  <2>6. irq # "idle" => Excused'
    <3> SUFFICES ASSUME irq # "idle" PROVE Excused'
      OBVIOUS
    <3>1. p \in late'
      BY <2>1
    <3>2. CASE p \in Seen
      BY <2>3, <3>1, <3>2 DEF Excused
    <3>3. CASE p \in Rest
      BY <1>3, <2>2, <3>3 DEF Excused
    <3>4. CASE p \notin Seen \cup Rest
      <4>1. p \notin Sources(Main)
        BY <3>4 DEF Seen
      <4>2. \A d \in Devices : pipe[d] # p
        BY <4>1, SeenType DEF Sources, OneReader
      <4>3. p \in Closed'
        BY <1>1, <2>1, <4>2, SeenType DEF Closed
      <4> QED BY <3>1, <4>3 DEF Excused
    <3> QED BY <3>2, <3>3, <3>4
  <2>7. Asserted'
    BY <1>1, <1>2, <1>3, <2>1, <2>3, SeenType DEF Watch, Asserted
  <2>8. Enabled'
    BY <1>1, <1>2, <1>3, <2>4, <2>5 DEF Watch, Enabled
  <2>9. irq = "clear" => Waiting' \subseteq late'
    BY <1>2, <2>1, <2>3 DEF Watch, Handling
  <2>10. Handling'
    BY <1>1, <1>2, <1>3, <2>1, <2>4, <2>6, <2>9 DEF Watch, Handling
  <2> QED BY <1>4, <2>7, <2>8, <2>10 DEF Watch
<1>7. CASE HwLine
  <2>1. /\ conn' = TRUE /\ UNCHANGED <<buffer_control, buff_status>>
        /\ late' = IF irq = "idle" THEN late ELSE late \cup {Detect}
    BY <1>7 DEF HwLine, Noted
  <2>2. Waiting' = Waiting /\ (Excused => Excused') /\ late \subseteq late'
    BY <1>1, <2>1, ExcusedSame
  <2>3. Asserted' /\ Enabled'
    BY <1>1, <1>2, <1>3, <2>1, <2>2, SeenType DEF Watch, Asserted, Enabled
  <2>4. Handling'
    BY <1>1, <1>2, <1>3, <2>1, <2>2 DEF Watch, Handling
  <2> QED BY <1>4, <2>3, <2>4 DEF Watch
<1>8. CASE HwComplete \/ \E d \in Devices : Unplug(d) \/ Plug(d)
  BY <1>5, <1>8 DEF HwComplete, Unplug, Plug
<1> QED BY <1>2, <1>6, <1>7, <1>8 DEF Hardware, HwBuffer

(***************************************************************************)
(* The task's own steps: it registers before it looks, and enables the     *)
(* interrupt when it has looked in vain.                                   *)
(***************************************************************************)
LEMMA WatchTask ==
  ASSUME TypeOK, ListsOK, Awaits => Watch, Awaits',
         PollNext(Main) \/ Register(Main) \/ PollFull(Main) \/ PollEmpty(Main) \/ PollDetect(Main)
         \/ Resume(Main)
  PROVE  Watch'
<1> USE DEF tasks, registers, handler, plant
<1>0. Main \in Tasks /\ irq = "idle" /\ irq' = "idle" /\ UNCHANGED pipe
  BY PipesAssumption DEF PollNext, Register, PollFull, PollEmpty, PollDetect, Resume, At
<1>1. Handling'
  BY <1>0 DEF Handling
<1>2. CASE PollNext(Main)
  <2>1. PICK order \in SetToSeqs(Sources(Main)) : todo' = [todo EXCEPT ![Main] = order]
    BY <1>2 DEF PollNext
  <2>2. pc'[Main] = "register" /\ Sources(Main)' = Sources(Main) /\ todo'[Main] = order
    BY <1>0, <1>2, <2>1 DEF PollNext, Goes, TypeOK, Sources
  <2>3. Seen' = {}
    BY <1>0, <2>2, EachOnce DEF Seen, Rest
  <2> QED BY <1>1, <2>2, <2>3 DEF Watch, Registered, Asserted, Enabled, Waiting
<1>3. CASE Register(Main)
  <2> DEFINE s == Head(todo[Main])
  <2>1. /\ pc[Main] = "register" /\ waker' = [waker EXCEPT ![s] = Main] /\ pc'[Main] = "check"
        /\ UNCHANGED <<todo, woken, pipe, status, buff_status, inte, buffer_control, conn, late,
                       line>>
    BY <1>0, <1>3 DEF Register, Goes, At, TypeOK
  <2>2. s \in 0 .. Detect
    BY <2>1, HeadType, SeenType
  <2>3. Awaits /\ Watch
    BY <2>1 DEF Awaits, Polling
  <2>4. Seen' = Seen /\ Waiting' = Waiting /\ (Excused => Excused')
    BY <2>1, SeenSame, ExcusedSame
  <2>5. Registered'
    <3>1. waker' \in [0 .. Detect -> Tasks \cup {NoTask}] /\ waker'[s] = Main
      BY <1>0, <2>1, <2>2 DEF TypeOK
    <3>2. \A r \in Seen : waker[r] = Main /\ r \in 0 .. Detect
      BY <2>3, SeenType DEF Watch, Registered
    <3>3. \A r \in Seen : waker'[r] = Main
      BY <2>1, <3>2 DEF TypeOK
    <3> QED BY <2>1, <2>4, <3>1, <3>3 DEF Registered
  <2>6. Asserted' /\ Enabled'
    BY <2>1, <2>3, <2>4 DEF Watch, Asserted, Enabled
  <2> QED BY <1>1, <2>5, <2>6 DEF Watch
<1>4. CASE PollFull(Main) \/ Resume(Main) \/ Yields(Main)
  <2>1. pc'[Main] \notin Polling
    BY <1>0, <1>4 DEF PollFull, Resume, Yields, Goes, Polling, TypeOK
  <2> QED BY <2>1 DEF Awaits
<1>5. ASSUME PollEmpty(Main) \/ PollDetect(Main), Pends(Main)
      PROVE  Watch'
  <2> DEFINE s == Head(todo[Main])
             tail == Tail(todo[Main])
  <2>1. /\ pc[Main] = "check" /\ todo' = [todo EXCEPT ![Main] = tail] /\ pc'[Main] # "check"
        /\ UNCHANGED <<waker, woken, buff_status, buffer_control, conn, line>>
    BY <1>0, <1>5 DEF PollEmpty, PollDetect, Pends, Goes, At, TypeOK
  <2>2. Awaits /\ Watch /\ waker[s] = Main
    BY <2>1 DEF Awaits, Polling, Watch, Registered
  <2>3. Rest' = Rest \ {s} /\ s \in Rest
    <3>1. /\ todo[Main] \in Seq(Pipes \cup {Detect}) /\ todo[Main] # <<>>
          /\ \A i, j \in 1 .. Len(todo[Main]) : todo[Main][i] = todo[Main][j] => i = j
      BY <1>0, <2>1 DEF TypeOK, ListsOK, ListOK, Polling
    <3>2. /\ s = todo[Main][1] /\ Len(tail) = Len(todo[Main]) - 1 /\ Len(todo[Main]) \in Nat
          /\ Len(todo[Main]) >= 1
          /\ \A i \in 1 .. Len(tail) : tail[i] = todo[Main][i + 1]
      BY <3>1
    <3>3. todo'[Main] = tail
      BY <1>0, <2>1 DEF TypeOK
    <3> HIDE DEF tail, s
    <3>4. \A x \in Rest \ {s} : x \in Rest'
      <4> SUFFICES ASSUME NEW i \in 1 .. Len(todo[Main]), todo[Main][i] # s
                   PROVE  todo[Main][i] \in Rest'
        BY DEF Rest
      <4>1. i # 1 /\ i - 1 \in 1 .. Len(tail)
        BY <3>2
      <4>2. tail[i - 1] = todo[Main][i]
        BY <3>2, <4>1
      <4> QED BY <3>3, <4>1, <4>2 DEF Rest
    <3>5. \A x \in Rest' : x \in Rest \ {s}
      <4> SUFFICES ASSUME NEW i \in 1 .. Len(tail) PROVE tail[i] \in Rest \ {s}
        BY <3>3 DEF Rest
      <4>1. i + 1 \in 1 .. Len(todo[Main]) /\ tail[i] = todo[Main][i + 1] /\ i + 1 # 1
            /\ 1 \in 1 .. Len(todo[Main])
        BY <3>2
      <4> QED BY <3>1, <3>2, <4>1 DEF Rest
    <3>6. s \in Rest
      BY <2>1, HeadType DEF s
    <3> QED BY <3>4, <3>5, <3>6
  <2>4. s \in Sources(Main) /\ s \in Pipes \cup {Detect}
    BY <2>1, HeadType
  <2> HIDE DEF s, tail
  <2>5. Seen' = Seen \cup {s}
    <3>1. Sources(Main)' = Sources(Main)
      BY <1>0 DEF Sources
    <3> QED BY <2>3, <2>4, <3>1 DEF Seen
  <2>6. Registered'
    BY <2>1, <2>2, <2>5 DEF Watch, Registered
  <2>7. Closed' = Closed
    BY <1>0, <2>1 DEF Closed
  <2>8. CASE PollEmpty(Main)
    <3>1. /\ s \in Pipes /\ ~buffer_control[s].full /\ inte' = inte \cup {"BUFF_STATUS"}
          /\ UNCHANGED <<late, status>>
      BY <2>8 DEF PollEmpty, s
    <3>2. Waiting' = Waiting
      BY <2>1, <2>5, <3>1 DEF Waiting
    <3>3. Asserted' /\ Enabled'
      BY <2>1, <2>2, <2>5, <3>1, <3>2, SeenType DEF Watch, Asserted, Enabled
    <3> QED BY <1>1, <2>6, <3>3 DEF Watch
  <2>9. CASE PollDetect(Main)
    <3>1. /\ s = Detect /\ status' = line /\ inte' = inte \cup {"HOST_CONN_DIS"}
          /\ late' = late \ {Detect}
      BY <2>9 DEF PollDetect, s
    <3>2. Waiting' = Waiting
      BY <2>1, <2>5, <3>1, SeenType DEF Waiting
    <3>3. Excused => Excused'
      BY <2>1, <2>3, <2>7, <3>1, <3>2, SeenType DEF Excused
    <3>4. Asserted'
      BY <2>1, <2>2, <3>1, <3>2, SeenType DEF Watch, Asserted
    <3>5. Enabled'
      BY <2>2, <2>5, <3>1, <3>3, SeenType DEF Watch, Enabled
    <3> QED BY <1>1, <2>6, <3>4, <3>5 DEF Watch
  <2> QED BY <1>5, <2>8, <2>9
<1> QED BY <1>2, <1>3, <1>4, <1>5 DEF PollEmpty, PollDetect

\* Whoever is going to sleep stays watched, at every step.
LEMMA WatchStep ==
  ASSUME OneReader, Attentive, Next, Awaits'
  PROVE  Watch'
<1> USE DEF tasks, registers, handler, plant, Attentive
<1>1. CASE on_irq
  BY <1>1, WatchIrq
<1>2. CASE Hardware \/ HwLine \/ \E d \in Devices : Unplug(d) \/ Plug(d)
  BY <1>2, WatchHardware
<1>3. ASSUME NEW t \in Tasks,
             PollNext(t) \/ Register(t) \/ PollFull(t) \/ PollEmpty(t) \/ PollDetect(t) \/ Resume(t)
      PROVE  Watch'
  BY <1>3, OthersDoNothing, WatchTask
<1>4. ASSUME Transfer \/ \E n \in Lengths : StartTransfer(n) PROVE FALSE
  <2>1. pc'[Main] \in Transferring \cup {"run"}
    BY <1>4, PipesAssumption
       DEF Transfer, PollTransfer, PollPending, PollReady, StartTransfer, Goes, Transferring, TypeOK
  <2> QED BY <2>1 DEF Awaits, Polling, Transferring
<1>5. ASSUME NEW d \in Devices, Open(d) \/ Drop(d) PROVE FALSE
  BY <1>5 DEF Open, Drop, At, OneReader, Awaits, Polling
<1> QED BY <1>1, <1>2, <1>3, <1>4, <1>5 DEF Next, Step

(***************************************************************************)
(* A forgotten event is asserted and masked, or was cleared: it is late    *)
(* itself, or what keeps its interrupt masked is.                          *)
(***************************************************************************)
LEMMA AttentiveForgetsNobody ==
  ASSUME OneReader, Attentive
  PROVE  NobodyForgotten
<1> USE DEF Attentive
<1> SUFFICES ASSUME NEW x \in Forgotten PROVE (Forgotten \cup Closed) \cap late # {}
  BY DEF NobodyForgotten
<1>1. Sleeping(Main) /\ Awaits /\ Watch
  <2>1. Sleeping(Main)
    BY DEF Forgotten, OneReader
  <2> QED BY <2>1 DEF Sleeping, At, Awaits, Polling
<1>2. Rest = {} /\ Seen = Sources(Main)
  BY <1>1, PipesAssumption DEF Sleeping, At, ListsOK, ListOK, Seen, Rest
<1>3. \A d \in Devices : pipe[d] # 0 => pipe[d] \in Seen /\ pipe[d] \in Pipes
  BY <1>2, PipesAssumption DEF OneReader, Sources, TypeOK, Pipes
<1>4. Detect \in Seen
  BY <1>2 DEF Sources
<1>5. CASE x = Detect /\ line # status /\ ~(conn /\ "HOST_CONN_DIS" \in inte)
  BY <1>1, <1>4, <1>5 DEF Watch, Asserted, Enabled
<1>6. ASSUME NEW d \in Devices, x = pipe[d], pipe[d] # 0, buffer_control[pipe[d]].full,
             ~(pipe[d] \in buff_status /\ "BUFF_STATUS" \in inte)
      PROVE  (Forgotten \cup Closed) \cap late # {}
  <2>1. x \in Waiting
    BY <1>3, <1>6 DEF Waiting
  <2>2. CASE x \in late
    BY <2>2
  <2>3. CASE x \notin late
    <3>1. "BUFF_STATUS" \notin inte
      BY <1>1, <1>6, <2>1, <2>3 DEF Watch, Asserted
    <3>2. Excused
      BY <1>1, <2>1, <3>1 DEF Watch, Enabled, Waiting
    <3>3. Waiting \subseteq Forgotten
      <4> SUFFICES ASSUME NEW y \in Waiting PROVE y \in Forgotten
        OBVIOUS
      <4>1. y \in Sources(Main) /\ y # Detect /\ y # 0 /\ buffer_control[y].full
        BY <1>2, SeenType DEF Waiting
      <4>2. PICK e \in Devices : y = pipe[e]
        BY <4>1 DEF Sources
      <4> QED BY <1>1, <3>1, <4>1, <4>2 DEF Forgotten, OneReader
    <3> QED BY <1>2, <3>2, <3>3 DEF Excused
  <2> QED BY <2>2, <2>3
<1> QED BY <1>5, <1>6 DEF Forgotten

(***************************************************************************)
(* on_irq forgets nobody but those whose event comes while it runs, and    *)
(* those behind them, if one task has all streams and the last pipe is not *)
(* used.                                                                   *)
(***************************************************************************)
THEOREM NobodyForgottenAlways ==
  OneReader /\ PipeToSpare => (Spec => []NobodyForgotten)
<1> SUFFICES ASSUME OneReader, PipeToSpare PROVE Spec => []NobodyForgotten
  OBVIOUS
<1>1. Init => Attentive
  <2> SUFFICES ASSUME Init PROVE Attentive
    OBVIOUS
  <2>1. TypeOK /\ ListsOK /\ StreamsOK
    BY StreamingInit DEF Streaming
  <2>2. HandlerOK /\ ControlOK /\ OthersIdle /\ Spare /\ ~Awaits
    BY PipesAssumption
       DEF Init, HandlerOK, ControlOK, OthersIdle, Spare, Awaits, Polling, Transferring
  <2> QED BY <2>1, <2>2 DEF Attentive
<1>2. Attentive /\ [Next]_vars => Attentive'
  <2> SUFFICES ASSUME Attentive, [Next]_vars PROVE Attentive'
    OBVIOUS
  <2>1. CASE Next
    BY <2>1, TypingStep, ListsStep, StreamsStep, HandlerStep, ControlStep, OthersStep, SpareStep,
       WatchStep DEF Attentive
  <2>2. CASE UNCHANGED vars
    <3>1. Seen' = Seen /\ Rest' = Rest /\ (Excused => Excused') /\ Waiting' = Waiting
      BY <2>2, SeenSame, ExcusedSame DEF vars, tasks, registers, handler, plant
    <3>2. (Awaits => Watch)'
      BY <2>2, <3>1 DEF vars, tasks, registers, handler, plant, Attentive, Awaits, Watch,
                        Registered, Asserted, Enabled, Handling
    <3>3. (TypeOK /\ ListsOK /\ StreamsOK)'
      BY <2>2 DEF vars, tasks, registers, handler, plant, Attentive, TypeOK, ListsOK, ListOK,
                  Sources, StreamsOK
    <3>4. (HandlerOK /\ ControlOK /\ OthersIdle /\ Spare)'
      BY <2>2 DEF vars, tasks, registers, handler, plant, Attentive, HandlerOK, ControlOK,
                  OthersIdle, Spare
    <3> QED BY <3>2, <3>3, <3>4 DEF Attentive
  <2> QED BY <2>1, <2>2
<1>3. Attentive => NobodyForgotten
  BY AttentiveForgetsNobody
<1> QED BY <1>1, <1>2, <1>3, PTL DEF Spec
=============================================================================
