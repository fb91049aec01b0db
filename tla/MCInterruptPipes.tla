-------------------------- MODULE MCInterruptPipes --------------------------
EXTENDS InterruptPipes, TLC
CONSTANTS h, k1, k2, main, other

OneTask == [d \in Devices |-> main]
TwoTasks == [d \in Devices |-> IF d = h THEN main ELSE other]
TwoButHubs == [d \in Devices |-> IF d \in Hubs THEN 1 ELSE 2]
=============================================================================
