------------------------------- MODULE MCPool -------------------------------
(***************************************************************************)
(* Instances of Pool: all clients in one task, or split between two.           *)
(***************************************************************************)
EXTENDS Pool

CONSTANTS c1, c2, c3, c4, t1, t2

MCClients == {c1, c2, c3, c4}
OneTask == [c \in MCClients |-> t1]
TwoTasks == [c \in MCClients |-> IF c = c1 THEN t1 ELSE t2]
=============================================================================
