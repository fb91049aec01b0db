------------------------------- MODULE MCSsdp -------------------------------
EXTENDS SsdpEngine, TLC
CONSTANTS l1, l2, i1, i2, u1, u2, s1, s2

Version1 == [base |-> "t", version |-> 1]
Version2 == [base |-> "t", version |-> 2]
OneType == {Version1}
TwoTypes == {Version1, Version2}
Url(n) == [scheme |-> TRUE, host |-> "localhost", rest |-> n]
OneUrl == {Url(1)}
TwoUrls == {Url(1), [Url(2) EXCEPT !.scheme = FALSE]}
TypeOrAll == {Version1, All}
OneLink == [ip \in {i1} |-> l1]
TwoLinks == (i1 :> l1) @@ (i2 :> l2)
OneSearcher == [s \in {s1} |-> {i1}]
TwoWays == [s \in {s1} |-> {i1, i2}]
=============================================================================
