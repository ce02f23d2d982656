--------------------------- MODULE RouteRelation ---------------------------
(***************************************************************************)
(* What a route table promises its callers.                                *)
(*                                                                         *)
(* Every table of a MetalBond node (the node's routeTable and              *)
(* myAnnouncements, each peer's receivedRoutes) is, to the code that uses  *)
(* it, a relation `from' between routes and the peers they were received   *)
(* from, and a set `listed' of the routes its readers return.  The two are *)
(* not the same: asking NextHopExists about a route lists it, although no  *)
(* peer is its source.  RouteTable shows that the nested maps of           *)
(* routetable.go implement this; the modules that use a table (see         *)
(* Distribution) build on the relation and not on the maps.                *)
(***************************************************************************)
EXTENDS FiniteSets, Naturals

CONSTANTS Route,    \* the routes callers pass: records [vni, dest, hop]
          Peer      \* the possible sources of a route

VARIABLES listed,   \* the routes the readers return
          from,     \* the pairs <<route, peer it was received from>>
          reply     \* what the last call returned

relVars == <<listed, from, reply>>

\* The peers a set of pairs names as sources of r.
SourcesOf(rel, r) == {p \in Peer : <<r, p>> \in rel}

Init ==
    /\ listed = {}
    /\ from = {}
    /\ reply = [ok |-> TRUE, left |-> 0]

\* A second AddNextHop of the same pair reports an error and changes nothing.
AddNextHop(r, p) ==
    /\ listed' = listed \cup {r}
    /\ from' = from \cup {<<r, p>>}
    /\ reply' = [ok |-> <<r, p>> \notin from, left |-> 0]

\* RemoveNextHop returns how many sources the route has left, and the readers
\* stop listing the route when there are none.
RemoveNextHop(r, p) ==
    IF <<r, p>> \in from
      THEN /\ from' = from \ {<<r, p>>}
           /\ listed' = IF SourcesOf(from', r) = {} THEN listed \ {r} ELSE listed
           /\ reply' = [ok |-> TRUE, left |-> Cardinality(SourcesOf(from', r))]
      ELSE /\ reply' = [ok |-> FALSE, left |-> 0]
           /\ UNCHANGED <<listed, from>>

\* NextHopExists answers about the pair and lists the route, whatever it answers.
NextHopExists(r, p) ==
    /\ listed' = listed \cup {r}
    /\ reply' = [ok |-> <<r, p>> \in from, left |-> 0]
    /\ UNCHANGED from

Next ==
    \E r \in Route, p \in Peer :
        AddNextHop(r, p) \/ RemoveNextHop(r, p) \/ NextHopExists(r, p)

Spec == Init /\ [][Next]_relVars
=============================================================================
