----------------------------- MODULE RouteTable -----------------------------
(***************************************************************************)
(* The route table of routetable.go: a map from VNI to a map from          *)
(* destination to a map from next hop to the set of peers that announced   *)
(* it.  Each operation runs under the table's own lock from its first to   *)
(* its last line, so each is one action.  `reply' is what the last call    *)
(* returned: ok is "no error" (for NextHopExists, the answer) and left the *)
(* number RemoveNextHop returns.                                           *)
(***************************************************************************)
EXTENDS FiniteSets, Naturals

CONSTANTS VNI, Destination, NextHop, Peer,
          Route     \* the routes callers pass to the table

ASSUME RouteAssumption ==
    Route \subseteq [vni : VNI, dest : Destination, hop : NextHop]

ASSUME PeerAssumption == IsFiniteSet(Peer)

VARIABLES routes, reply

vars == <<routes, reply>>

-----------------------------------------------------------------------------
(* Go maps as functions on the keys they hold.                             *)

EmptyMap == [k \in {} |-> {}]

Put(m, k, x) == [j \in DOMAIN m \cup {k} |-> IF j = k THEN x ELSE m[j]]

Delete(m, k) == [j \in DOMAIN m \ {k} |-> m[j]]

Lookup(m, k, default) == IF k \in DOMAIN m THEN m[k] ELSE default

\* A mistake: a RemoveNextHop that forgets to delete the levels it empties.
PutWithoutPrune(m, k, x) == Put(m, k, x)

\* Put the inner map x under key k, or delete the key when x is empty.
PutOrPrune(m, k, x) == IF DOMAIN x = {} THEN Delete(m, k) ELSE Put(m, k, x)

-----------------------------------------------------------------------------
(* The levels of a table m; a missing level reads as an empty map.         *)

Dests(m, v) == Lookup(m, v, EmptyMap)
Hops(m, v, d) == Lookup(Dests(m, v), d, EmptyMap)
Peers(m, r) == Lookup(Hops(m, r.vni, r.dest), r.hop, {})

\* The table in which the peers of r are S, its missing levels created.
WithPeers(m, r, S) ==
    Put(m, r.vni,
        Put(Dests(m, r.vni), r.dest,
            Put(Hops(m, r.vni, r.dest), r.hop, S)))

\* A mistake: deleting the destination together with one of its next hops.
WithoutDestination(m, r) == PutOrPrune(m, r.vni, Delete(Dests(m, r.vni), r.dest))

\* The table without the next hop of r, the levels this empties deleted.
WithoutHop(m, r) ==
    PutOrPrune(m, r.vni,
        PutOrPrune(Dests(m, r.vni), r.dest,
            Delete(Hops(m, r.vni, r.dest), r.hop)))

-----------------------------------------------------------------------------
(* The readers.                                                            *)

GetVNIs == DOMAIN routes

GetDestinationsByVNI(v) ==
    [d \in DOMAIN Dests(routes, v) |-> DOMAIN Dests(routes, v)[d]]

GetDestinationsByVNIWithPeer(v) == Dests(routes, v)

GetNextHopsByDestination(v, d) == DOMAIN Hops(routes, v, d)

-----------------------------------------------------------------------------
(* The operations.                                                         *)

newRouteTable ==
    /\ routes = EmptyMap
    /\ reply = [ok |-> TRUE, left |-> 0]

AddNextHop(r, p) ==
    /\ routes' = WithPeers(routes, r, Peers(routes, r) \cup {p})
    /\ reply' = [ok |-> p \notin Peers(routes, r), left |-> 0]

RemoveFails(r, p) ==
    /\ p \notin Peers(routes, r)
    /\ reply' = [ok |-> FALSE, left |-> 0]
    /\ UNCHANGED routes

\* The table after p is removed from the peers of r.
Removed(r, left) ==
    IF left = {} THEN WithoutHop(routes, r) ELSE WithPeers(routes, r, left)

RemoveSucceeds(r, p) ==
    /\ p \in Peers(routes, r)
    /\ LET left == Peers(routes, r) \ {p}
       IN  /\ routes' = Removed(r, left)
           /\ reply' = [ok |-> TRUE, left |-> Cardinality(left)]

RemoveNextHop(r, p) == RemoveFails(r, p) \/ RemoveSucceeds(r, p)

\* The lookup creates the levels that are missing, as an insertion would.
NextHopExists(r, p) ==
    /\ routes' = WithPeers(routes, r, Peers(routes, r))
    /\ reply' = [ok |-> p \in Peers(routes, r), left |-> 0]

Init == newRouteTable

Next ==
    \E r \in Route, p \in Peer :
        \/ AddNextHop(r, p)
        \/ RemoveNextHop(r, p)
        \/ NextHopExists(r, p)

Spec == Init /\ [][Next]_vars

-----------------------------------------------------------------------------
(* Properties.                                                             *)

IsMap(m, keys) == m = [k \in DOMAIN m |-> m[k]] /\ DOMAIN m \subseteq keys

IsHops(v, d, m) ==
    /\ IsMap(m, NextHop)
    /\ \A n \in DOMAIN m : /\ [vni |-> v, dest |-> d, hop |-> n] \in Route
                           /\ m[n] \subseteq Peer

IsDests(v, m) ==
    /\ IsMap(m, Destination)
    /\ \A d \in DOMAIN m : IsHops(v, d, m[d])

IsTable(m) ==
    /\ IsMap(m, VNI)
    /\ \A v \in DOMAIN m : IsDests(v, m[v])

\* The table is a map of maps of maps of sets of peers, on the keys of Route.
TypeOK == IsTable(routes) /\ reply \in [ok : BOOLEAN, left : Nat]

\* The four readers describe one set of routes: whatever operations ran, no VNI
\* is listed without a destination and no destination without a next hop, so a
\* caller that walks GetVNIs and GetDestinationsByVNI (the announcement replay
\* of setState, cleanup, the JSON route table) never meets an emptied level.
\* It holds because RemoveNextHop prunes all three levels (routetable.go 133-143).
NoEmptyLevel ==
    \A v \in GetVNIs :
        /\ GetDestinationsByVNI(v) # EmptyMap
        /\ \A d \in DOMAIN GetDestinationsByVNI(v) :
              GetNextHopsByDestination(v, d) # {}

\* What the maps stand for: the routes the readers return, and their sources.
Listed == {r \in Route : r.hop \in GetNextHopsByDestination(r.vni, r.dest)}
From == {rp \in Route \X Peer : rp[2] \in Peers(routes, rp[1])}

Rel == INSTANCE RouteRelation WITH listed <- Listed, from <- From

\* The nested maps of routetable.go implement the relation: every operation has
\* the effect and the reply RouteRelation gives it, whatever else is stored
\* under the same VNI or destination.
RefinesRelation == Rel!Spec

=============================================================================
