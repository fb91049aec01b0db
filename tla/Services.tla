------------------------------ MODULE Services ------------------------------
(***************************************************************************)
(* The two owners that an SSDP engine may have: the task of AsyncService,  *)
(* or the polling loop around a Service.  Either must wake it up in time.  *)
(***************************************************************************)
EXTENDS AsyncService, SyncService

servicesVars == <<serviceVars, loopVars>>

ServicesInit ==
    /\ LoopInit
    /\ \/ ServiceInit /\ at = "none"
       \/ ServiceNew /\ pc = "none" /\ sleep = 0

OwnedByTask == ServiceNext /\ UNCHANGED loopVars
OwnedByLoop == ~panicked /\ LoopNext /\ UNCHANGED <<pc, sleep>>

\* The runtime polls the task, or the program runs; select! is fair between its
\* branches; sockets run dry in the end; time goes on.
ServicesSpec ==
    /\ ServicesInit /\ [][OwnedByTask \/ OwnedByLoop]_servicesVars
    /\ WF_servicesVars(~panicked /\ (Select \/ WouldBlock) /\ UNCHANGED loopVars)
    /\ WF_servicesVars(~panicked /\ LoopStep /\ UNCHANGED <<pc, sleep>>)
    /\ SF_servicesVars(\/ Elapsed /\ UNCHANGED loopVars
                       \/ RunsDry /\ UNCHANGED <<pc, sleep>>)
    /\ SF_servicesVars(\/ ServiceTick /\ UNCHANGED loopVars
                       \/ LoopTick /\ UNCHANGED <<pc, sleep>>)
=============================================================================
