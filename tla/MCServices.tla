----------------------------- MODULE MCServices -----------------------------
EXTENDS Services, TLC
CONSTANTS l1, i1, u1, u2, s1, s2

Version1 == [base |-> "t", version |-> 1]
OneType == {Version1}
OneUrl == {[scheme |-> TRUE, host |-> "localhost", rest |-> 1]}
OneLink == [ip \in {i1} |-> l1]
SameLink == [s \in {s1, s2} |-> {i1}]
Inboxes == [s \in SERVICE_SOCKETS |-> IF s = "multicast" THEN 2 ELSE 1]
=============================================================================
