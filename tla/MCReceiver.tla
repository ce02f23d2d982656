----------------------------- MODULE MCReceiver -----------------------------
EXTENDS Receiver

MCRouteTo(dest, hop, type) ==
    [vni |-> 1, dest |-> dest, version |-> "IPv4", hop |-> hop, type |-> type]
\* Three hops of one destination: two from servers, one of the node itself.
standard == MCRouteTo("d", 2, "STANDARD")
target == MCRouteTo("d", 3, "LOADBALANCER_TARGET")
own == MCRouteTo("d", 1, "STANDARD")
MCRoute == {standard, target, own}
MCMine == {own}
MCOffer == [s1 |-> {standard, target}, s2 |-> {standard}]
MCTables == [v \in {1} |-> 100]
=============================================================================
