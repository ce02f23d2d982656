-------------------------- MODULE RouteTableProofs --------------------------
(***************************************************************************)
(* Proofs about the route table of routetable.go, for any sets of VNIs,    *)
(* destinations, next hops, peers and routes: the table stays well-formed, *)
(* its readers agree, and it implements RouteRelation.  The lemmas are     *)
(* about tables as values: what putting or deleting a next hop leaves for  *)
(* the readers to find.                                                    *)
(***************************************************************************)
EXTENDS RouteTable, FiniteSetTheorems, TLAPS

USE RouteAssumption, PeerAssumption

-----------------------------------------------------------------------------
(* What the readers find after an update.                                  *)

\* Storing the set S under route r changes exactly that entry.
LEMMA WithPeersLookup ==
    ASSUME NEW m, NEW r \in Route, NEW S, NEW s \in Route
    PROVE  /\ Peers(WithPeers(m, r, S), s) = IF s = r THEN S ELSE Peers(m, s)
           /\ s.hop \in DOMAIN Hops(WithPeers(m, r, S), s.vni, s.dest)
                <=> s = r \/ s.hop \in DOMAIN Hops(m, s.vni, s.dest)
<1>. DEFINE w == WithPeers(m, r, S)
<1>1. s = r <=> s.vni = r.vni /\ s.dest = r.dest /\ s.hop = r.hop
  OBVIOUS
<1>2. Dests(w, s.vni) =
        IF s.vni = r.vni
          THEN Put(Dests(m, r.vni), r.dest, Put(Hops(m, r.vni, r.dest), r.hop, S))
          ELSE Dests(m, s.vni)
  BY DEF WithPeers, Put, Dests, Lookup
<1>3. Hops(w, s.vni, s.dest) =
        IF s.vni = r.vni /\ s.dest = r.dest
          THEN Put(Hops(m, r.vni, r.dest), r.hop, S) ELSE Hops(m, s.vni, s.dest)
  <2>. HIDE DEF w
  <2>. QED
    BY <1>2 DEF Hops, Lookup, Put
<1>. HIDE DEF w
<1>4. Peers(w, s) = IF s = r THEN S ELSE Peers(m, s)
  BY <1>1, <1>3 DEF Peers, Lookup, Put
<1>5. s.hop \in DOMAIN Hops(w, s.vni, s.dest)
        <=> s = r \/ s.hop \in DOMAIN Hops(m, s.vni, s.dest)
  BY <1>1, <1>3 DEF Put
<1>. QED
  BY <1>4, <1>5 DEF w

\* Deleting the next hop of r makes exactly that next hop disappear, whether or
\* not its destination and its VNI are pruned with it.
LEMMA WithoutHopLookup ==
    ASSUME NEW m, NEW r \in Route, NEW s \in Route
    PROVE  /\ Peers(WithoutHop(m, r), s) = IF s = r THEN {} ELSE Peers(m, s)
           /\ s.hop \in DOMAIN Hops(WithoutHop(m, r), s.vni, s.dest)
                <=> s # r /\ s.hop \in DOMAIN Hops(m, s.vni, s.dest)
<1>. DEFINE hops == Delete(Hops(m, r.vni, r.dest), r.hop)
            dests == PutOrPrune(Dests(m, r.vni), r.dest, hops)
            w == WithoutHop(m, r)
<1>1. s = r <=> s.vni = r.vni /\ s.dest = r.dest /\ s.hop = r.hop
  OBVIOUS
<1>2. DOMAIN EmptyMap = {}
  BY DEF EmptyMap
<1>3. \A d : Lookup(dests, d, EmptyMap) =
               IF d = r.dest
                 THEN IF DOMAIN hops = {} THEN EmptyMap ELSE hops
                 ELSE Hops(m, r.vni, d)
  BY DEF PutOrPrune, Put, Delete, Lookup, Hops
<1>4. Dests(w, s.vni) = IF s.vni = r.vni
                          THEN IF DOMAIN dests = {} THEN EmptyMap ELSE dests
                          ELSE Dests(m, s.vni)
  <2>. HIDE DEF dests, w
  <2>1. w = PutOrPrune(m, r.vni, dests)
    BY DEF WithoutHop, dests, w
  <2>. QED
    BY <2>1 DEF PutOrPrune, Put, Delete, Lookup, Dests
<1>. HIDE DEF dests, w
<1>5. DOMAIN hops = DOMAIN Hops(m, r.vni, r.dest) \ {r.hop}
  BY DEF Delete
<1>6. \A x \in DOMAIN hops : hops[x] = Hops(m, r.vni, r.dest)[x]
  BY DEF Delete
<1>. HIDE DEF hops
<1>7. Hops(w, s.vni, s.dest) =
        IF s.vni = r.vni /\ s.dest = r.dest
          THEN IF DOMAIN hops = {} THEN EmptyMap ELSE hops
          ELSE Hops(m, s.vni, s.dest)
  <2>1. CASE s.vni # r.vni
    BY <1>4, <2>1 DEF Hops
  <2>2. CASE s.vni = r.vni
    <3>1. Lookup(dests, s.dest, EmptyMap) = Hops(w, s.vni, s.dest)
      BY <1>2, <1>4, <2>2 DEF Lookup, Hops
    <3>. QED
      BY <1>3, <2>2, <3>1
  <2>. QED
    BY <2>1, <2>2
<1>8. Peers(w, s) = IF s = r THEN {} ELSE Peers(m, s)
  BY <1>1, <1>2, <1>5, <1>6, <1>7 DEF Peers, Lookup
<1>9. s.hop \in DOMAIN Hops(w, s.vni, s.dest)
        <=> s # r /\ s.hop \in DOMAIN Hops(m, s.vni, s.dest)
  BY <1>1, <1>2, <1>5, <1>7
<1>. QED
  BY <1>8, <1>9 DEF w

-----------------------------------------------------------------------------
(* Well-formedness, one level at a time.                                   *)

LEMMA HopsUpdates ==
    ASSUME NEW v, NEW d, NEW m, IsHops(v, d, m), NEW n,
           [vni |-> v, dest |-> d, hop |-> n] \in Route, NEW S \in SUBSET Peer
    PROVE  IsHops(v, d, Put(m, n, S)) /\ IsHops(v, d, Delete(m, n))
<1>1. n \in NextHop
  OBVIOUS
<1>. QED
  BY <1>1 DEF IsHops, IsMap, Put, Delete

LEMMA DestsUpdates ==
    ASSUME NEW v, NEW m, IsDests(v, m), NEW d \in Destination, NEW h, IsHops(v, d, h)
    PROVE  IsDests(v, Put(m, d, h)) /\ IsDests(v, PutOrPrune(m, d, h))
BY DEF IsDests, IsMap, Put, Delete, PutOrPrune

LEMMA TableUpdates ==
    ASSUME NEW t, IsTable(t), NEW v \in VNI, NEW m, IsDests(v, m)
    PROVE  IsTable(Put(t, v, m)) /\ IsTable(PutOrPrune(t, v, m))
BY DEF IsTable, IsMap, Put, Delete, PutOrPrune

\* The levels the operations read are well-formed, missing ones included.
LEMMA LevelTypes ==
    ASSUME NEW m, IsTable(m), NEW r \in Route
    PROVE  /\ IsDests(r.vni, Dests(m, r.vni))
           /\ IsHops(r.vni, r.dest, Hops(m, r.vni, r.dest))
           /\ Peers(m, r) \subseteq Peer
<1>1. IsMap(EmptyMap, Destination) /\ IsMap(EmptyMap, NextHop) /\ DOMAIN EmptyMap = {}
  BY DEF EmptyMap, IsMap
<1>2. IsDests(r.vni, Dests(m, r.vni))
  BY <1>1 DEF IsTable, IsDests, Dests, Lookup
<1>3. IsHops(r.vni, r.dest, Hops(m, r.vni, r.dest))
  BY <1>1, <1>2 DEF IsDests, IsHops, Hops, Lookup
<1>4. Peers(m, r) \subseteq Peer
  BY <1>3 DEF IsHops, Peers, Lookup
<1>. QED
  BY <1>2, <1>3, <1>4

LEMMA UpdatedTables ==
    ASSUME NEW m, IsTable(m), NEW r \in Route, NEW S \in SUBSET Peer
    PROVE  IsTable(WithPeers(m, r, S)) /\ IsTable(WithoutHop(m, r))
<1>. DEFINE put == Put(Hops(m, r.vni, r.dest), r.hop, S)
            del == Delete(Hops(m, r.vni, r.dest), r.hop)
<1>1. r.vni \in VNI /\ r.dest \in Destination
      /\ [vni |-> r.vni, dest |-> r.dest, hop |-> r.hop] \in Route
  OBVIOUS
<1>2. IsHops(r.vni, r.dest, put) /\ IsHops(r.vni, r.dest, del)
  BY <1>1, LevelTypes, HopsUpdates
<1>3. /\ IsDests(r.vni, Put(Dests(m, r.vni), r.dest, put))
      /\ IsDests(r.vni, PutOrPrune(Dests(m, r.vni), r.dest, del))
  <2>. HIDE DEF put, del
  <2>. QED
    BY <1>1, <1>2, LevelTypes, DestsUpdates
<1>. QED
  BY <1>1, <1>3, TableUpdates DEF WithPeers, WithoutHop

\* The table is well-formed whatever operations ran (routetable.go).
THEOREM TableTypeCorrect == Spec => []TypeOK
<1>1. Init => TypeOK
  BY DEF Init, newRouteTable, EmptyMap, TypeOK, IsTable, IsMap
<1>2. TypeOK /\ [Next]_vars => TypeOK'
  <2>. SUFFICES ASSUME TypeOK, [Next]_vars PROVE TypeOK'
    OBVIOUS
  <2>1. ASSUME NEW m, IsTable(m), routes' = m, reply' \in [ok : BOOLEAN, left : Nat]
        PROVE  TypeOK'
    BY <2>1 DEF TypeOK, IsTable, IsDests, IsHops, IsMap
  <2>2. ASSUME NEW r \in Route, NEW p \in Peer, AddNextHop(r, p) PROVE TypeOK'
    <3>1. Peers(routes, r) \cup {p} \in SUBSET Peer
      BY LevelTypes DEF TypeOK
    <3>. QED
      BY <2>1, <2>2, <3>1, UpdatedTables DEF AddNextHop, TypeOK
  <2>3. ASSUME NEW r \in Route, NEW p \in Peer, RemoveNextHop(r, p) PROVE TypeOK'
    <3>. DEFINE left == Peers(routes, r) \ {p}
    <3>1. left \in SUBSET Peer
      BY LevelTypes DEF TypeOK
    <3>2. Cardinality(left) \in Nat
      BY <3>1, FS_Subset, FS_CardinalityType
    <3>3. CASE RemoveFails(r, p)
      BY <2>1, <3>3 DEF RemoveFails, TypeOK
    <3>4. CASE RemoveSucceeds(r, p)
      BY <2>1, <3>1, <3>2, <3>4, UpdatedTables DEF RemoveSucceeds, Removed, TypeOK
    <3>. QED
      BY <2>3, <3>3, <3>4 DEF RemoveNextHop
  <2>4. ASSUME NEW r \in Route, NEW p \in Peer, NextHopExists(r, p) PROVE TypeOK'
    <3>1. Peers(routes, r) \in SUBSET Peer
      BY LevelTypes DEF TypeOK
    <3>. QED
      BY <2>1, <2>4, <3>1, UpdatedTables DEF NextHopExists, TypeOK
  <2>5. CASE UNCHANGED vars
    BY <2>1, <2>5 DEF vars, TypeOK
  <2>. QED
    BY <2>2, <2>3, <2>4, <2>5 DEF Next
<1>. QED
  BY <1>1, <1>2, PTL DEF Spec

-----------------------------------------------------------------------------
(* The readers agree.                                                      *)

\* A table with no emptied level.
FullDests(m) == DOMAIN m # {} /\ \A d \in DOMAIN m : DOMAIN m[d] # {}
Full(m) == \A v \in DOMAIN m : FullDests(m[v])

LEMMA FullTableReads == Full(routes) => NoEmptyLevel
<1>. SUFFICES ASSUME Full(routes), NEW v \in DOMAIN routes
              PROVE  /\ GetDestinationsByVNI(v) # EmptyMap
                     /\ \A d \in DOMAIN GetDestinationsByVNI(v) :
                           DOMAIN Hops(routes, v, d) # {}
  BY DEF NoEmptyLevel, GetVNIs, GetNextHopsByDestination
<1>1. Dests(routes, v) = routes[v] /\ FullDests(routes[v])
  BY DEF Dests, Lookup, Full
<1>2. DOMAIN GetDestinationsByVNI(v) = DOMAIN routes[v]
  BY <1>1 DEF GetDestinationsByVNI
<1>3. \A d \in DOMAIN routes[v] : Hops(routes, v, d) = routes[v][d]
  BY <1>1 DEF Hops, Lookup
<1>4. GetDestinationsByVNI(v) # EmptyMap
  BY <1>1, <1>2 DEF FullDests, EmptyMap
<1>. QED
  BY <1>1, <1>2, <1>3, <1>4 DEF FullDests

LEMMA FullUpdates ==
    ASSUME NEW m, Full(m), NEW r \in Route, NEW S
    PROVE  Full(WithPeers(m, r, S)) /\ Full(WithoutHop(m, r))
<1>. DEFINE put == Put(Hops(m, r.vni, r.dest), r.hop, S)
            del == Delete(Hops(m, r.vni, r.dest), r.hop)
            putDests == Put(Dests(m, r.vni), r.dest, put)
            delDests == PutOrPrune(Dests(m, r.vni), r.dest, del)
<1>1. \A d \in DOMAIN Dests(m, r.vni) : DOMAIN Dests(m, r.vni)[d] # {}
  BY DEF Full, FullDests, Dests, Lookup, EmptyMap
<1>2. DOMAIN put # {}
  BY DEF Put
<1>3. FullDests(putDests)
  <2>. HIDE DEF put
  <2>. QED
    BY <1>1, <1>2 DEF FullDests, Put
<1>4. \A d \in DOMAIN delDests : DOMAIN delDests[d] # {}
  <2>. HIDE DEF del
  <2>. QED
    BY <1>1 DEF PutOrPrune, Put, Delete
<1>5. WithPeers(m, r, S) = Put(m, r.vni, putDests)
  BY DEF WithPeers
<1>6. WithoutHop(m, r) = PutOrPrune(m, r.vni, delDests)
  BY DEF WithoutHop
<1>. HIDE DEF putDests, delDests
<1>7. Full(WithPeers(m, r, S))
  BY <1>3, <1>5 DEF Full, Put
<1>8. Full(WithoutHop(m, r))
  <2>1. CASE DOMAIN delDests = {}
    BY <1>6, <2>1 DEF PutOrPrune, Delete, Full
  <2>2. CASE DOMAIN delDests # {}
    <3>1. FullDests(delDests)
      BY <1>4, <2>2 DEF FullDests
    <3>. QED
      BY <1>6, <2>2, <3>1 DEF PutOrPrune, Put, Full
  <2>. QED
    BY <2>1, <2>2
<1>. QED
  BY <1>7, <1>8

\* No reader ever returns a VNI without destinations or a destination without
\* next hops: RemoveNextHop prunes all three levels (routetable.go 133-143).
THEOREM ReadersAgree == Spec => []NoEmptyLevel
<1>. DEFINE FullTable == Full(routes)
<1>1. Init => FullTable
  BY DEF Init, newRouteTable, EmptyMap, Full
<1>2. FullTable /\ [Next]_vars => FullTable'
  <2>. SUFFICES ASSUME FullTable, [Next]_vars PROVE FullTable'
    OBVIOUS
  <2>1. ASSUME NEW m, Full(m), routes' = m PROVE FullTable'
    BY <2>1 DEF Full, FullDests
  <2>2. ASSUME NEW r \in Route, NEW p \in Peer, AddNextHop(r, p) PROVE FullTable'
    BY <2>1, <2>2, FullUpdates DEF AddNextHop
  <2>3. ASSUME NEW r \in Route, NEW p \in Peer, RemoveSucceeds(r, p) PROVE FullTable'
    BY <2>1, <2>3, FullUpdates DEF RemoveSucceeds, Removed
  <2>4. ASSUME NEW r \in Route, NEW p \in Peer, NextHopExists(r, p) PROVE FullTable'
    BY <2>1, <2>4, FullUpdates DEF NextHopExists
  <2>5. CASE UNCHANGED routes
    BY <2>1, <2>5
  <2>. QED
    BY <2>2, <2>3, <2>4, <2>5 DEF Next, RemoveNextHop, RemoveFails, vars
<1>3. FullTable => NoEmptyLevel
  BY FullTableReads
<1>. QED
  BY <1>1, <1>2, <1>3, PTL DEF Spec

-----------------------------------------------------------------------------
(* The refinement.                                                         *)

\* Listed and From of a table as a value.
ListedIn(m) == {r \in Route : r.hop \in DOMAIN Hops(m, r.vni, r.dest)}
FromIn(m) == {rp \in Route \X Peer : rp[2] \in Peers(m, rp[1])}

\* The pair <<r, p>> is in the relation when p is among the peers stored for r.
LEMMA SourcesAreStored ==
    ASSUME NEW m, IsTable(m), NEW r \in Route
    PROVE  /\ Rel!SourcesOf(FromIn(m), r) = Peers(m, r)
           /\ \A p \in Peer : <<r, p>> \in FromIn(m) <=> p \in Peers(m, r)
BY LevelTypes DEF Rel!SourcesOf, FromIn

LEMMA PutIsRelational ==
    ASSUME NEW m, IsTable(m), NEW r \in Route, NEW S \in SUBSET Peer
    PROVE  /\ ListedIn(WithPeers(m, r, S)) = ListedIn(m) \cup {r}
           /\ FromIn(WithPeers(m, r, S)) = (FromIn(m) \ ({r} \X Peer)) \cup ({r} \X S)
<1>1. ListedIn(WithPeers(m, r, S)) = ListedIn(m) \cup {r}
  BY WithPeersLookup DEF ListedIn
<1>2. FromIn(WithPeers(m, r, S)) = (FromIn(m) \ ({r} \X Peer)) \cup ({r} \X S)
  BY WithPeersLookup DEF FromIn
<1>. QED
  BY <1>1, <1>2

LEMMA DeleteIsRelational ==
    ASSUME NEW m, IsTable(m), NEW r \in Route
    PROVE  /\ ListedIn(WithoutHop(m, r)) = ListedIn(m) \ {r}
           /\ FromIn(WithoutHop(m, r)) = FromIn(m) \ ({r} \X Peer)
<1>1. ListedIn(WithoutHop(m, r)) = ListedIn(m) \ {r}
  BY WithoutHopLookup DEF ListedIn
<1>2. FromIn(WithoutHop(m, r)) = FromIn(m) \ ({r} \X Peer)
  BY WithoutHopLookup DEF FromIn
<1>. QED
  BY <1>1, <1>2

\* The nested maps implement the relation RouteRelation specifies: each call has
\* the relation's effect and reply, for any number of VNIs, destinations, next
\* hops and peers (routetable.go 105-196).
THEOREM TableImplementsRelation == Spec => RefinesRelation
<1>1. Init => Rel!Init
  <2>. SUFFICES ASSUME Init PROVE Rel!Init
    OBVIOUS
  <2>1. \A r \in Route : DOMAIN Hops(routes, r.vni, r.dest) = {} /\ Peers(routes, r) = {}
    BY DEF Init, newRouteTable, EmptyMap, Dests, Hops, Peers, Lookup
  <2>. QED
    BY <2>1 DEF Init, newRouteTable, Rel!Init, Listed, From, GetNextHopsByDestination
<1>2. TypeOK /\ [Next]_vars => [Rel!Next]_Rel!relVars
  <2>. SUFFICES ASSUME TypeOK, [Next]_vars PROVE [Rel!Next]_Rel!relVars
    OBVIOUS
  <2>1. Listed = ListedIn(routes) /\ From = FromIn(routes)
    BY DEF Listed, ListedIn, From, FromIn, GetNextHopsByDestination
  <2>2. Listed' = ListedIn(routes') /\ From' = FromIn(routes')
    BY DEF Listed, ListedIn, From, FromIn, GetNextHopsByDestination, Peers, Hops,
           Dests, Lookup, EmptyMap
  <2>3. IsTable(routes)
    BY DEF TypeOK
  <2>4. ASSUME NEW r \in Route, NEW p \in Peer, AddNextHop(r, p)
        PROVE  Rel!AddNextHop(r, p)
    <3>. DEFINE S == Peers(routes, r) \cup {p}
    <3>1. S \in SUBSET Peer
      BY <2>3, LevelTypes
    <3>2. FromIn(routes') = (FromIn(routes) \ ({r} \X Peer)) \cup ({r} \X S)
      BY <2>3, <2>4, <3>1, PutIsRelational DEF AddNextHop
    <3>3. FromIn(routes') = FromIn(routes) \cup {<<r, p>>}
      BY <3>1, <3>2 DEF FromIn
    <3>4. ListedIn(routes') = ListedIn(routes) \cup {r}
      BY <2>3, <2>4, <3>1, PutIsRelational DEF AddNextHop
    <3>. QED
      BY <2>1, <2>2, <2>3, <2>4, <3>3, <3>4, SourcesAreStored
      DEF AddNextHop, Rel!AddNextHop
  <2>5. ASSUME NEW r \in Route, NEW p \in Peer, RemoveFails(r, p)
        PROVE  Rel!RemoveNextHop(r, p)
    BY <2>1, <2>2, <2>3, <2>5, SourcesAreStored DEF RemoveFails, Rel!RemoveNextHop
  <2>6. ASSUME NEW r \in Route, NEW p \in Peer, RemoveSucceeds(r, p)
        PROVE  Rel!RemoveNextHop(r, p)
    <3>. DEFINE left == Peers(routes, r) \ {p}
    <3>1. left \in SUBSET Peer
      BY <2>3, LevelTypes
    <3>2. <<r, p>> \in FromIn(routes)
      BY <2>3, <2>6, SourcesAreStored DEF RemoveSucceeds
    <3>3. FromIn(routes') = FromIn(routes) \ {<<r, p>>}
      <4>1. CASE left = {}
        <5>1. FromIn(routes') = FromIn(routes) \ ({r} \X Peer)
          BY <2>3, <2>6, <4>1, DeleteIsRelational DEF RemoveSucceeds, Removed
        <5>. QED
          BY <4>1, <5>1 DEF FromIn
      <4>2. CASE left # {}
        <5>1. FromIn(routes') = (FromIn(routes) \ ({r} \X Peer)) \cup ({r} \X left)
          BY <2>3, <2>6, <3>1, <4>2, PutIsRelational DEF RemoveSucceeds, Removed
        <5>. QED
          BY <3>1, <5>1 DEF FromIn
      <4>. QED
        BY <4>1, <4>2
    <3>4. Rel!SourcesOf(FromIn(routes'), r) = left
      BY <2>3, <3>1, <3>3, SourcesAreStored DEF Rel!SourcesOf
    <3>5. ListedIn(routes') =
            IF left = {} THEN ListedIn(routes) \ {r} ELSE ListedIn(routes)
      <4>1. CASE left = {}
        BY <2>3, <2>6, <4>1, DeleteIsRelational DEF RemoveSucceeds, Removed
      <4>2. CASE left # {}
        <5>1. r \in ListedIn(routes)
          BY <2>6 DEF RemoveSucceeds, Peers, Lookup, ListedIn
        <5>2. ListedIn(routes') = ListedIn(routes) \cup {r}
          BY <2>3, <2>6, <3>1, <4>2, PutIsRelational DEF RemoveSucceeds, Removed
        <5>. QED
          BY <4>2, <5>1, <5>2
      <4>. QED
        BY <4>1, <4>2
    <3>6. reply' = [ok |-> TRUE, left |-> Cardinality(left)]
      BY <2>6 DEF RemoveSucceeds
    <3>7. From' = From \ {<<r, p>>} /\ <<r, p>> \in From
      BY <2>1, <2>2, <3>2, <3>3
    <3>8. Rel!SourcesOf(From', r) = left
      BY <2>2, <3>4
    <3>9. Listed' = IF left = {} THEN Listed \ {r} ELSE Listed
      BY <2>1, <2>2, <3>5
    <3>. HIDE DEF left
    <3>10. Rel!Cardinality(left) = Cardinality(left)
      BY DEF Cardinality, Rel!Cardinality
    <3>. QED
      BY <3>6, <3>7, <3>8, <3>9, <3>10 DEF Rel!RemoveNextHop
  <2>7. ASSUME NEW r \in Route, NEW p \in Peer, NextHopExists(r, p)
        PROVE  Rel!NextHopExists(r, p)
    <3>. DEFINE S == Peers(routes, r)
    <3>1. S \in SUBSET Peer
      BY <2>3, LevelTypes
    <3>2. FromIn(routes') = (FromIn(routes) \ ({r} \X Peer)) \cup ({r} \X S)
      BY <2>3, <2>7, <3>1, PutIsRelational DEF NextHopExists
    <3>3. FromIn(routes') = FromIn(routes)
      BY <3>1, <3>2 DEF FromIn
    <3>4. ListedIn(routes') = ListedIn(routes) \cup {r}
      BY <2>3, <2>7, <3>1, PutIsRelational DEF NextHopExists
    <3>. QED
      BY <2>1, <2>2, <2>3, <2>7, <3>3, <3>4, SourcesAreStored
      DEF NextHopExists, Rel!NextHopExists
  <2>8. CASE UNCHANGED vars
    BY <2>1, <2>2, <2>8 DEF vars, Rel!relVars
  <2>. QED
    BY <2>4, <2>5, <2>6, <2>7, <2>8 DEF Next, RemoveNextHop, Rel!Next
<1>. QED
  BY <1>1, <1>2, TableTypeCorrect, PTL DEF Spec, RefinesRelation, Rel!Spec
=============================================================================
