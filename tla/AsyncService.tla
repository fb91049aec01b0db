---------------------------- MODULE AsyncService ----------------------------
(***************************************************************************)
(* cotton-ssdp/src/async_service.rs: an SSDP engine behind a mutex, shared *)
(* by the application's threads and by a task that serves the sockets and  *)
(* the timer.  The task asks the engine how long to sleep, lets go of the  *)
(* mutex, and sleeps; the application can change the engine meanwhile and  *)
(* does not wake the task.                                                 *)
(***************************************************************************)
EXTENDS SsdpEngine

VARIABLES
    pc,         \* the task: "select", "wait", or draining a socket, "drain"; "none" without one
    sleep       \* the time left of tokio::time::sleep

serviceVars == <<vars, pc, sleep>>

ServiceInit == Init /\ pc = "select" /\ sleep = 0

\* The branches of select! are set up: lock, poll_timeout, unlock.  A time in
\* the past saturates to zero.
Select ==
    /\ pc = "select"
    /\ pc' = "wait"
    /\ sleep' = IF poll_timeout < 0 THEN 0 ELSE poll_timeout
    /\ UNCHANGED vars

\* multicast_socket.readable() or search_socket.readable()
Readable ==
    /\ pc = "wait"
    /\ pc' = "drain"
    /\ UNCHANGED <<vars, sleep>>

\* receive_to and on_data, with the lock held for each packet.
Receive ==
    /\ pc = "drain"
    /\ Datagram
    /\ UNCHANGED <<pc, sleep>>

\* Mutant of WouldBlock: the task goes on with the sleep that it had.
WouldBlockResume ==
    /\ pc = "drain"
    /\ pc' = "wait"
    /\ UNCHANGED <<vars, sleep>>

\* Any error of receive_to ends the drain.  tokio takes the socket to be readable
\* until a read would block, so what another error leaves is come back to.
WouldBlock ==
    /\ pc = "drain"
    /\ pc' = "select"
    /\ UNCHANGED <<vars, sleep>>

\* The sleep is over.  What it was for may have been withdrawn meanwhile.
Elapsed ==
    /\ pc = "wait"
    /\ sleep = 0
    /\ pc' = "select"
    /\ handle_timeout \/ (next_salvo > 0 /\ Due = {} /\ UNCHANGED vars)
    /\ UNCHANGED sleep

\* The application's threads: on_network_event, subscribe, advertise, deadvertise.
Caller == (NetworkEvent \/ Application) /\ UNCHANGED <<pc, sleep>>

\* Time passes while the task sleeps; a sleep that is over is noticed before
\* what it was for is MaxLate late, even if packets keep coming.
ServiceTick ==
    /\ pc = "wait"
    /\ sleep > 0 \/ poll_timeout > -MaxLate
    /\ Elapse
    /\ sleep' = IF sleep > 0 THEN sleep - 1 ELSE 0
    /\ UNCHANGED pc

Task == Select \/ WouldBlock \/ Elapsed

ServiceNext ==
    /\ ~panicked /\ pc # "none"
    /\ Task \/ Readable \/ Receive \/ Caller \/ ServiceTick

-----------------------------------------------------------------------------
(***************************************************************************)
(* The task never oversleeps: no salvo and no answer is later than the     *)
(* task's own wake-up is, although the task last looked at the engine      *)
(* before it went to sleep and the application has used it since.          *)
(***************************************************************************)
NeverOversleeps ==
    pc = "wait" => sleep = 0 \/ \A t \in Deadlines : sleep <= t

(***************************************************************************)
(* Salvos are sent for ever, in all four phases, however often the task is *)
(* interrupted by packets and the engine used by the application.          *)
(***************************************************************************)
KeepsRefreshing == \A p \in 0 .. 3 : []<>(phase = p)
=============================================================================
