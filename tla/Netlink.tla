------------------------------ MODULE Netlink ------------------------------
(***************************************************************************)
(* The client that installs received routes into the kernel's route tables *)
(* (netlink.go).  c.routes has every hop of a VNI's destination, the       *)
(* kernel one route for each table and destination, with the first MaxHops *)
(* of the hops.  The methods run under c.mtx; a call of the kernel may     *)
(* fail.  The kernel outlives the process.                                 *)
(*                                                                         *)
(* A hop is its address, a number: they are sorted by it.                  *)
(***************************************************************************)
EXTENDS Naturals, FiniteSets

CONSTANTS Route,        \* records vni, dest, version, hop, type
          VNITableMap,  \* from VNIs to table numbers
          IPv4Only,
          MaxHops       \* 3 in the code

\* Routes are told apart by vni, dest and hop, and no two VNIs share a table.
ASSUME NetlinkAssumption ==
    /\ MaxHops \in Nat \ {0} /\ IPv4Only \in BOOLEAN
    /\ \A r \in Route : r.hop \in Nat
    /\ \A r, s \in Route : r.vni = s.vni /\ r.dest = s.dest /\ r.hop = s.hop => r = s
    /\ \A v, w \in DOMAIN VNITableMap : VNITableMap[v] = VNITableMap[w] => v = w

VARIABLES routes,   \* c.routes, as a set of routes
          kernel    \* the kernel's routes, as a set of records table, dest, hop

Installable(r) == r.vni \in DOMAIN VNITableMap /\ (IPv4Only => r.version = "IPv4")

Key(r) == [table |-> VNITableMap[r.vni], dest |-> r.dest]
Siblings(R, r) == {s \in R : s.vni = r.vni /\ s.dest = r.dest}

\* The hops replaceRoute takes over.
Kept(S) ==
    {r.hop : r \in {r \in S : Cardinality({s \in S : s.hop < r.hop}) < MaxHops}}

\* The kernel once it has S for r's table and destination, and nothing else there.
Replaced(r, S) ==
    {e \in kernel : [table |-> e.table, dest |-> e.dest] # Key(r)}
        \union {[table |-> Key(r).table, dest |-> r.dest, hop |-> h] : h \in Kept(S)}

AddRoute(r) ==
    IF ~Installable(r) \/ r \in routes THEN UNCHANGED <<routes, kernel>>
    ELSE /\ routes' = routes \union {r}
         /\ kernel' = Replaced(r, Siblings(routes', r))

\* Mutant of RemoveRoute: the kernel keeps the route until its last hop goes.
RemoveLastHop(r) ==
    IF ~Installable(r) \/ r \notin routes THEN UNCHANGED <<routes, kernel>>
    ELSE /\ routes' = routes \ {r}
         /\ kernel' = IF Siblings(routes', r) = {} THEN Replaced(r, {}) ELSE kernel

\* The last hop takes the route with it; others are written anew.
RemoveRoute(r) ==
    IF ~Installable(r) \/ r \notin routes THEN UNCHANGED <<routes, kernel>>
    ELSE /\ routes' = routes \ {r}
         /\ kernel' = Replaced(r, Siblings(routes', r))

\* RouteReplace and RouteDel fail: nothing is remembered as done.  RouteDel does
\* when the route is not there.
KernelFails == UNCHANGED <<routes, kernel>>
DeleteFails(r) ==
    Siblings(routes, r) = {r} /\ \A e \in kernel : [table |-> e.table, dest |-> e.dest] # Key(r)

\* RouteDel of what Cleanup has listed; c.routes is left alone.
DeleteListed(keys) ==
    /\ kernel' = {e \in kernel : [table |-> e.table, dest |-> e.dest] \notin keys}
    /\ UNCHANGED routes

\* What Cleanup lists: the routes of the configured tables.
Listed ==
    {[table |-> e.table, dest |-> e.dest] :
        e \in {e \in kernel : \E v \in DOMAIN VNITableMap : VNITableMap[v] = e.table}}
=============================================================================
