--------------------------- MODULE MCDistribution ---------------------------
(* Small servers for TLC: their routes, who closes and who sends what. *)
EXTENDS Distribution

CONSTANTS p1, p2, c1, c2

Std == [vni |-> 1, dest |-> "d1", hop |-> "std"]
Nat1 == [vni |-> 1, dest |-> "d2", hop |-> "nat"]
Other == [vni |-> 2, dest |-> "d1", hop |-> "std"]
Blocked == [vni |-> 1, dest |-> "d3", hop |-> "std"]
OwnBlocking == [vni |-> 1, dest |-> "d3", hop |-> "own"]

OneRoute == {Std}
ManyRoutes == {Other, Nat1, Blocked, OwnBlocking}
OwnRoute == {OwnBlocking}

MCTypeOf == [h \in NextHop |-> IF h = "nat" THEN "NAT" ELSE "STANDARD"]

OneCloserEach == {<<p1, c1>>, <<p2, c1>>}
TwoClosersOfOne == {<<p1, c1>>, <<p1, c2>>, <<p2, c1>>}

\* A peer that sends n ADDs and m REMOVEs of each route of A, and k SUBSCRIBEs
\* and l UNSUBSCRIBEs of each VNI of S.
Sends(A, n, m, S, k, l) ==
    [add |-> [r \in Route |-> IF r \in A THEN n ELSE 0],
     remove |-> [r \in Route |-> IF r \in A THEN m ELSE 0],
     subscribe |-> [v \in VNI |-> IF v \in S THEN k ELSE 0],
     unsubscribe |-> [v \in VNI |-> IF v \in S THEN l ELSE 0]]

\* p1 announces, withdraws and announces again; p2 subscribes once and leaves.
AnnounceAndSubscribe ==
    [p \in Peer |-> IF p = p1 THEN Sends({Std}, 2, 1, {}, 0, 0)
                              ELSE Sends({}, 0, 0, {1}, 1, 1)]

\* p1 announces in two VNIs, in one of them a route the server blocks by its own;
\* p2 announces a NAT route in the VNI it subscribes to and leaves.
TwoAnnouncers ==
    [p \in Peer |-> IF p = p1 THEN Sends({Blocked, Other}, 1, 0, {}, 0, 0)
                              ELSE Sends({Nat1}, 1, 0, {1}, 1, 1)]

\* p2 subscribes twice, as a client does whose setState(ESTABLISHED) and whose
\* caller of Subscribe both send the SUBSCRIBE.
SubscribeTwice ==
    [p \in Peer |-> IF p = p1 THEN Sends({Std}, 1, 0, {}, 0, 0)
                              ELSE Sends({}, 0, 0, {1}, 2, 0)]
=============================================================================
