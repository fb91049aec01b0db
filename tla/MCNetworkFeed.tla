--------------------------- MODULE MCNetworkFeed ----------------------------
EXTENDS NetworkFeed, TLC
CONSTANTS l1, l2, i1, v1, u1

OneType == {[base |-> "t", version |-> 1]}
OneUrl == {[scheme |-> TRUE, host |-> "localhost", rest |-> 1]}
Homes4 == i1 :> l1
Homes == Homes4 @@ (v1 :> l1)
Nobody == [s \in {} |-> {i1}]
Up == {"UP", "RUNNING", "MULTICAST", "LOWER_UP"}
UpOrDown == {Up, {"MULTICAST"}, Up \ {"MULTICAST"}}
=============================================================================
