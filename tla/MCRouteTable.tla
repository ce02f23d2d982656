---------------------------- MODULE MCRouteTable ----------------------------
(* Small route tables: four routes that share a VNI, a destination or both. *)
EXTENDS RouteTable

MCRoute ==
    {[vni |-> 1, dest |-> "d1", hop |-> "h1"],
     [vni |-> 1, dest |-> "d1", hop |-> "h2"],
     [vni |-> 1, dest |-> "d2", hop |-> "h1"],
     [vni |-> 2, dest |-> "d1", hop |-> "h1"]}
=============================================================================
