------------------------- MODULE DistributionProofs -------------------------
(***************************************************************************)
(* Proofs about route distribution, for any peers, routes, closers and     *)
(* quotas.                                                                 *)
(***************************************************************************)
EXTENDS Distribution, TLAPS

AddPC == {"addTable", "addDist", "addInstall"}
DelPC == {"delTable", "delDist", "delInstall"}
LeavePC == {"check", "collect", "sweep", "drop"}

\* What a thread removes routes for decides where it goes on, so it must agree
\* with where the thread is.
Placed(t, label, m) ==
    IF t \in Closer
      THEN label \in CloserPC \cup RemovalPC /\ m = "lost"
      ELSE /\ label \in HandlerPC \cup RemovalPC
           /\ m \in Mode \ {"lost"}
           /\ label \in LeavePC => m = "unsub"
           /\ label \in {"clean", "cleanSweep"} => m = "clean"
           /\ label \in AddPC \cup {"idle", "register", "snapshot", "replay"} => m = "rx"

PhaseOK == \A t \in Thread : Placed(t, pc[t], mode[t])

\* Nothing is known of a peer before its connection is established, and only a
\* closed peer is being cleaned up by its closers.
ConnOK ==
    /\ \A p \in Peer :
          /\ conn[p] = "HELLO_SENT" => /\ pc[Handler(p)] = "idle"
                                       /\ \A v \in VNI : p \notin subscribers[v]
                                       /\ \A r \in Route : <<r, p>> \notin table
          /\ token[p] => conn[p] = "CLOSED"
    /\ \A c \in Closer :
          pc[c] \in RemovalPC \cup {"lost", "next", "token"} => conn[Owner(c)] = "CLOSED"

\* The routes p may announce.
Announces(p) == {r \in Route : Quota[p].add[r] > 0}

\* Whatever is kept, added or removed for a peer is a route the peer announced.
SourceOK ==
    /\ \A p \in Peer :
          /\ recv[p] \subseteq Announces(p)
          /\ \A r \in Route : quota[p].add[r] > 0 => r \in Announces(p)
          /\ \A r \in Route : <<r, p>> \in table => r \in Announces(p)
    /\ \A t \in Thread :
          /\ pc[t] # "replay" => todo[t] \subseteq Announces(Owner(t))
          /\ pc[t] \in AddPC \cup DelPC => route[t] \in Announces(Owner(t))

\* While the handler distributes a removal, its route is out of the table.
RemovedOK ==
    \A p \in Peer : pc[Handler(p)] = "delDist" => <<route[Handler(p)], p>> \notin table

\* The inductive invariant behind NoMissedRoute.
DistributionInv == TypeOK /\ PhaseOK /\ ConnOK /\ SourceOK /\ RemovedOK /\ NoMissedRoute

-----------------------------------------------------------------------------
(* Threads.                                                                *)

\* Handlers are told apart by their peers, and from closers by their names.
LEMMA ThreadFacts ==
    /\ \A p \in Peer : Handler(p) \in Thread /\ Handler(p) \notin Closer /\ Owner(Handler(p)) = p
    /\ \A p, q \in Peer : Handler(p) = Handler(q) => p = q
    /\ Closer \subseteq Thread
    /\ \A t \in Thread : Owner(t) \in Peer
    /\ \A t \in Thread : t \in Closer \/ \E p \in Peer : t = Handler(p)
<1>1. \A p \in Peer : Handler(p)[1] = p /\ Handler(p)[2] = "handle"
  BY DEF Handler
<1>. QED
  BY <1>1, ThreadAssumption DEF Thread, Owner

\* Taking a message from a quota leaves a quota.
LEMMA QuotaStep ==
    ASSUME NEW q, q \in [Peer -> QuotaType], NEW p \in Peer
    PROVE  /\ \A r \in Route : q[p].add[r] > 0 =>
                [q EXCEPT ![p].add[r] = @ - 1] \in [Peer -> QuotaType]
           /\ \A r \in Route : q[p].remove[r] > 0 =>
                [q EXCEPT ![p].remove[r] = @ - 1] \in [Peer -> QuotaType]
           /\ \A v \in VNI : q[p].subscribe[v] > 0 =>
                [q EXCEPT ![p].subscribe[v] = @ - 1] \in [Peer -> QuotaType]
           /\ \A v \in VNI : q[p].unsubscribe[v] > 0 =>
                [q EXCEPT ![p].unsubscribe[v] = @ - 1] \in [Peer -> QuotaType]
<1>1. /\ q[p].add \in [Route -> Nat] /\ q[p].remove \in [Route -> Nat]
      /\ q[p].subscribe \in [VNI -> Nat] /\ q[p].unsubscribe \in [VNI -> Nat]
      /\ q[p] \in QuotaType
  BY DEF QuotaType
<1>2. ASSUME NEW r \in Route, q[p].add[r] > 0
      PROVE  [q EXCEPT ![p].add[r] = @ - 1] \in [Peer -> QuotaType]
  <2>. DEFINE f == [q[p].add EXCEPT ![r] = @ - 1]
  <2>1. f \in [Route -> Nat]
    BY <1>1, <1>2
  <2>2. [q[p] EXCEPT !.add = f] \in QuotaType
    BY <1>1, <2>1 DEF QuotaType
  <2>. QED
    BY <2>2
<1>3. ASSUME NEW r \in Route, q[p].remove[r] > 0
      PROVE  [q EXCEPT ![p].remove[r] = @ - 1] \in [Peer -> QuotaType]
  <2>. DEFINE f == [q[p].remove EXCEPT ![r] = @ - 1]
  <2>1. f \in [Route -> Nat]
    BY <1>1, <1>3
  <2>2. [q[p] EXCEPT !.remove = f] \in QuotaType
    BY <1>1, <2>1 DEF QuotaType
  <2>. QED
    BY <2>2
<1>4. ASSUME NEW v \in VNI, q[p].subscribe[v] > 0
      PROVE  [q EXCEPT ![p].subscribe[v] = @ - 1] \in [Peer -> QuotaType]
  <2>. DEFINE f == [q[p].subscribe EXCEPT ![v] = @ - 1]
  <2>1. f \in [VNI -> Nat]
    BY <1>1, <1>4
  <2>2. [q[p] EXCEPT !.subscribe = f] \in QuotaType
    BY <1>1, <2>1 DEF QuotaType
  <2>. QED
    BY <2>2
<1>5. ASSUME NEW v \in VNI, q[p].unsubscribe[v] > 0
      PROVE  [q EXCEPT ![p].unsubscribe[v] = @ - 1] \in [Peer -> QuotaType]
  <2>. DEFINE f == [q[p].unsubscribe EXCEPT ![v] = @ - 1]
  <2>1. f \in [VNI -> Nat]
    BY <1>1, <1>5
  <2>2. [q[p] EXCEPT !.unsubscribe = f] \in QuotaType
    BY <1>1, <2>1 DEF QuotaType
  <2>. QED
    BY <2>2
<1>. QED
  BY <1>2, <1>3, <1>4, <1>5

-----------------------------------------------------------------------------
(* Type correctness.                                                       *)

LEMMA InitTyped == Init => TypeOK /\ PhaseOK
<1>. SUFFICES ASSUME Init PROVE TypeOK /\ PhaseOK
  OBVIOUS
<1>1. AnyVNI \in VNI /\ AnyRoute \in Route
  BY RouteAssumption DEF AnyVNI, AnyRoute
<1>2. DataTyped
  BY <1>1, RouteAssumption, QuotaAssumption DEF Init, DataTyped
<1>3. PhaseTyped
  BY ThreadFacts DEF Init, PhaseTyped, HandlerPC, CloserPC, RemovalPC, Mode
<1>4. PhaseOK
  BY ThreadFacts DEF Init, PhaseOK, Placed, LeavePC, AddPC, HandlerPC, CloserPC, RemovalPC,
     Mode
<1>. QED
  BY <1>2, <1>3, <1>4 DEF TypeOK

\* What the steps store has the type of the variable they store it in.
LEMMA StepKeepsData == TypeOK /\ [Next]_vars => DataTyped'
<1>. SUFFICES ASSUME DataTyped, PhaseTyped, [Next]_vars PROVE DataTyped'
  BY DEF TypeOK
<1>. USE ThreadFacts DEF DataTyped
<1>1. ASSUME NEW p \in Peer, NEW r \in Route, RxAdd(p, r) PROVE DataTyped'
  <2>1. quota' \in [Peer -> QuotaType]
    BY <1>1, QuotaStep DEF RxAdd
  <2>2. CASE UNCHANGED <<recv, route>>
    BY <1>1, <2>1, <2>2 DEF RxAdd
  <2>3. CASE /\ recv' = [recv EXCEPT ![p] = @ \cup {r}]
             /\ route' = [route EXCEPT ![Handler(p)] = r]
    BY <1>1, <2>1, <2>3 DEF RxAdd
  <2>. QED
    BY <1>1, <2>2, <2>3 DEF RxAdd
<1>2. ASSUME NEW p \in Peer, NEW r \in Route, RxRemove(p, r) PROVE DataTyped'
  <2>1. quota' \in [Peer -> QuotaType]
    BY <1>2, QuotaStep DEF RxRemove
  <2>2. CASE UNCHANGED <<recv, route>>
    BY <1>2, <2>1, <2>2 DEF RxRemove
  <2>3. CASE /\ recv' = [recv EXCEPT ![p] = @ \ {r}]
             /\ route' = [route EXCEPT ![Handler(p)] = r]
    BY <1>2, <2>1, <2>3 DEF RxRemove
  <2>. QED
    BY <1>2, <2>2, <2>3 DEF RxRemove
<1>3. ASSUME NEW p \in Peer, NEW v \in VNI, RxSubscribe(p, v) PROVE DataTyped'
  BY <1>3, QuotaStep DEF RxSubscribe, Receives
<1>4. ASSUME NEW p \in Peer, NEW v \in VNI, RxUnsubscribe(p, v) PROVE DataTyped'
  BY <1>4, QuotaStep DEF RxUnsubscribe, Receives, OfVNI
<1>5. ASSUME NEW p \in Peer, Establish(p) PROVE DataTyped'
  BY <1>5, RouteAssumption DEF Establish, localVars
<1>6. ASSUME NEW p \in Peer, AddToTable(p) PROVE DataTyped'
  BY <1>6 DEF AddToTable, localVars
<1>7. ASSUME NEW p \in Peer, DistributeAdd(p) PROVE DataTyped'
  BY <1>7 DEF DistributeAdd, distributeRouteToPeers, Sent, localVars
<1>8. ASSUME NEW p \in Peer, Install(p) PROVE DataTyped'
  BY <1>8 DEF Install, localVars
<1>9. ASSUME NEW p \in Peer, Register(p) PROVE DataTyped'
  <2>. DEFINE v == vni[Handler(p)]
  <2>1. subscribers' \in [VNI -> SUBSET Peer]
    <3>1. \/ UNCHANGED subscribers
          \/ subscribers' = [subscribers EXCEPT ![v] = @ \cup {p}]
      BY <1>9 DEF Register
    <3>. HIDE DEF v
    <3>. QED
      BY <3>1
  <2>2. leaked' \in BOOLEAN
    BY <1>9 DEF Register
  <2>. QED
    BY <1>9, <2>1, <2>2 DEF Register, localVars
<1>10. ASSUME NEW p \in Peer, Snapshot(p) PROVE DataTyped'
  BY <1>10 DEF Snapshot, ReplayTo, OfVNI, nodeVars
<1>11. ASSUME NEW p \in Peer, Replay(p) PROVE DataTyped'
  <2>1. \A r \in Route : Sent({p}, r, "ADD") \in [Peer -> SUBSET Route]
    BY DEF Sent
  <2>2. CASE UNCHANGED <<told, todo>>
    BY <1>11, <2>2 DEF Replay
  <2>3. ASSUME NEW r \in todo[Handler(p)], told' = Sent({p}, r, "ADD"),
               todo' = [todo EXCEPT ![Handler(p)] = @ \ {r}]
        PROVE  DataTyped'
    BY <1>11, <2>1, <2>3 DEF Replay
  <2>. QED
    BY <1>11, <2>2, <2>3 DEF Replay
<1>12. ASSUME NEW p \in Peer, TakeShutdown(p) PROVE DataTyped'
  BY <1>12, RouteAssumption DEF TakeShutdown, nodeVars
<1>13. ASSUME NEW p \in Peer, CleanVNI(p) PROVE DataTyped'
  BY <1>13 DEF CleanVNI, OfVNI, nodeVars
<1>14. ASSUME NEW p \in Peer, CleanSweep(p) PROVE DataTyped'
  <2>1. CASE UNCHANGED <<recv, route, todo>>
    BY <1>14, <2>1 DEF CleanSweep
  <2>2. ASSUME NEW r \in todo[Handler(p)],
               recv' = [recv EXCEPT ![p] = @ \ {r}],
               route' = [route EXCEPT ![Handler(p)] = r],
               todo' = [todo EXCEPT ![Handler(p)] = @ \ {r}]
        PROVE  DataTyped'
    BY <1>14, <2>2 DEF CleanSweep
  <2>. QED
    BY <1>14, <2>1, <2>2 DEF CleanSweep
<1>15. ASSUME NEW t \in Thread, ResetChecks(t) PROVE DataTyped'
  BY <1>15 DEF ResetChecks, nodeVars, localVars
<1>16. ASSUME NEW t \in Thread, CloseChecks(t) PROVE DataTyped'
  BY <1>16 DEF CloseChecks, nodeVars, localVars
<1>17. ASSUME NEW t \in Thread, SetClosed(t) PROVE DataTyped'
  BY <1>17 DEF SetClosed, localVars
<1>18. ASSUME NEW t \in Thread, FindSubscriptions(t) PROVE DataTyped'
  BY <1>18 DEF FindSubscriptions, nodeVars
<1>19. ASSUME NEW t \in Thread, NextSubscription(t) PROVE DataTyped'
  BY <1>19 DEF NextSubscription, nodeVars
<1>20. ASSUME NEW t \in Thread, SendShutdown(t) PROVE DataTyped'
  BY <1>20 DEF SendShutdown, localVars
<1>21. ASSUME NEW t \in Thread, DelFromTable(t) PROVE DataTyped'
  BY <1>21 DEF DelFromTable, localVars
<1>22. ASSUME NEW t \in Thread, DistributeDel(t) PROVE DataTyped'
  BY <1>22 DEF DistributeDel, distributeRouteToPeers, Sent, localVars
<1>23. ASSUME NEW t \in Thread, Uninstall(t) PROVE DataTyped'
  BY <1>23 DEF Uninstall, localVars
<1>24. ASSUME NEW t \in Thread, CheckSubscribed(t) PROVE DataTyped'
  BY <1>24 DEF CheckSubscribed, nodeVars
<1>25. ASSUME NEW t \in Thread, Collect(t) PROVE DataTyped'
  BY <1>25 DEF Collect, OfVNI, nodeVars
<1>26. ASSUME NEW t \in Thread, Sweep(t) PROVE DataTyped'
  <2>1. CASE todo[t] = {} /\ UNCHANGED <<recv, route, todo>>
    BY <1>26, <2>1 DEF Sweep
  <2>2. ASSUME NEW r \in todo[t],
               recv' = [recv EXCEPT ![Owner(t)] = @ \ {r}],
               route' = [route EXCEPT ![t] = r],
               todo' = [todo EXCEPT ![t] = @ \ {r}]
        PROVE  DataTyped'
    BY <1>26, <2>2 DEF Sweep
  <2>. QED
    BY <1>26, <2>1, <2>2 DEF Sweep
<1>27. ASSUME NEW t \in Thread, Drop(t) PROVE DataTyped'
  BY <1>27 DEF Drop
<1>28. CASE UNCHANGED vars
  BY <1>28 DEF vars, nodeVars, localVars
<1>. QED
  BY <1>1, <1>2, <1>3, <1>4, <1>5, <1>6, <1>7, <1>8, <1>9, <1>10, <1>11, <1>12, <1>13,
     <1>14, <1>15, <1>16, <1>17, <1>18, <1>19, <1>20, <1>21, <1>22, <1>23, <1>24, <1>25,
     <1>26, <1>27, <1>28
  DEF Next, Arrival, HandlerStep, RemovalStep, CloserStep

\* A step of one thread to a label where it belongs.
LEMMA Move ==
    ASSUME PhaseTyped, PhaseOK, NEW t \in Thread, NEW label,
           pc' = [pc EXCEPT ![t] = label],
           mode' \in [Thread -> Mode], \A u \in Thread \ {t} : mode'[u] = mode[u],
           Placed(t, label, mode'[t])
    PROVE  PhaseTyped' /\ PhaseOK'
<1>1. PhaseOK'
  BY DEF PhaseTyped, PhaseOK
<1>2. pc' \in [Thread -> HandlerPC \cup CloserPC \cup RemovalPC]
  BY DEF PhaseTyped, Placed
<1>. QED
  BY <1>1, <1>2 DEF PhaseTyped, PhaseOK, Placed

\* Every step leads to a label where its thread belongs: a closer and a handler
\* never take each other's steps.
LEMMA StepKeepsPhase == TypeOK /\ PhaseOK /\ [Next]_vars => PhaseTyped' /\ PhaseOK'
<1>. SUFFICES ASSUME PhaseTyped, PhaseOK, [Next]_vars PROVE PhaseTyped' /\ PhaseOK'
  BY DEF TypeOK
<1>. USE ThreadFacts DEF PhaseTyped, PhaseOK, Placed, HandlerPC, CloserPC, RemovalPC, Mode,
         AddPC, LeavePC, Goto
<1>1. ASSUME NEW p \in Peer, NEW r \in Route, RxAdd(p, r) PROVE PhaseTyped' /\ PhaseOK'
  BY <1>1, Move DEF RxAdd, Receives
<1>2. ASSUME NEW p \in Peer, NEW r \in Route, RxRemove(p, r) PROVE PhaseTyped' /\ PhaseOK'
  BY <1>2, Move DEF RxRemove, Receives
<1>3. ASSUME NEW p \in Peer, NEW v \in VNI, RxSubscribe(p, v) PROVE PhaseTyped' /\ PhaseOK'
  BY <1>3, Move DEF RxSubscribe, Receives
<1>4. ASSUME NEW p \in Peer, NEW v \in VNI, RxUnsubscribe(p, v) PROVE PhaseTyped' /\ PhaseOK'
  BY <1>4, Move DEF RxUnsubscribe, Receives
<1>5. ASSUME NEW p \in Peer, Establish(p) PROVE PhaseTyped' /\ PhaseOK'
  BY <1>5 DEF Establish, localVars, PhaseTyped, PhaseOK
<1>6. ASSUME NEW p \in Peer, AddToTable(p) PROVE PhaseTyped' /\ PhaseOK'
  BY <1>6, Move DEF AddToTable, localVars
<1>7. ASSUME NEW p \in Peer, DistributeAdd(p) PROVE PhaseTyped' /\ PhaseOK'
  BY <1>7, Move DEF DistributeAdd, localVars
<1>8. ASSUME NEW p \in Peer, Install(p) PROVE PhaseTyped' /\ PhaseOK'
  BY <1>8, Move DEF Install, localVars
<1>9. ASSUME NEW p \in Peer, Register(p) PROVE PhaseTyped' /\ PhaseOK'
  BY <1>9, Move DEF Register, localVars
<1>10. ASSUME NEW p \in Peer, Snapshot(p) PROVE PhaseTyped' /\ PhaseOK'
  BY <1>10, Move DEF Snapshot, nodeVars
<1>11. ASSUME NEW p \in Peer, Replay(p) PROVE PhaseTyped' /\ PhaseOK'
  BY <1>11, Move DEF Replay
<1>12. ASSUME NEW p \in Peer, TakeShutdown(p) PROVE PhaseTyped' /\ PhaseOK'
  BY <1>12, Move DEF TakeShutdown, nodeVars
<1>13. ASSUME NEW p \in Peer, CleanVNI(p) PROVE PhaseTyped' /\ PhaseOK'
  BY <1>13, Move DEF CleanVNI, nodeVars
<1>14. ASSUME NEW p \in Peer, CleanSweep(p) PROVE PhaseTyped' /\ PhaseOK'
  BY <1>14, Move DEF CleanSweep
<1>15. ASSUME NEW t \in Thread, ResetChecks(t) PROVE PhaseTyped' /\ PhaseOK'
  BY <1>15, Move DEF ResetChecks, nodeVars, localVars
<1>16. ASSUME NEW t \in Thread, CloseChecks(t) PROVE PhaseTyped' /\ PhaseOK'
  BY <1>16, Move DEF CloseChecks, nodeVars, localVars
<1>17. ASSUME NEW t \in Thread, SetClosed(t) PROVE PhaseTyped' /\ PhaseOK'
  BY <1>17, Move DEF SetClosed, localVars
<1>18. ASSUME NEW t \in Thread, FindSubscriptions(t) PROVE PhaseTyped' /\ PhaseOK'
  BY <1>18, Move DEF FindSubscriptions, nodeVars
<1>19. ASSUME NEW t \in Thread, NextSubscription(t) PROVE PhaseTyped' /\ PhaseOK'
  BY <1>19, Move DEF NextSubscription, nodeVars
<1>20. ASSUME NEW t \in Thread, SendShutdown(t) PROVE PhaseTyped' /\ PhaseOK'
  BY <1>20, Move DEF SendShutdown, localVars
<1>21. ASSUME NEW t \in Thread, DelFromTable(t) PROVE PhaseTyped' /\ PhaseOK'
  BY <1>21, Move DEF DelFromTable, localVars, AfterRemoval
<1>22. ASSUME NEW t \in Thread, DistributeDel(t) PROVE PhaseTyped' /\ PhaseOK'
  BY <1>22, Move DEF DistributeDel, localVars
<1>23. ASSUME NEW t \in Thread, Uninstall(t) PROVE PhaseTyped' /\ PhaseOK'
  BY <1>23, Move DEF Uninstall, localVars, AfterRemoval
<1>24. ASSUME NEW t \in Thread, CheckSubscribed(t) PROVE PhaseTyped' /\ PhaseOK'
  BY <1>24, Move DEF CheckSubscribed, nodeVars, AfterUnsubscribe
<1>25. ASSUME NEW t \in Thread, Collect(t) PROVE PhaseTyped' /\ PhaseOK'
  BY <1>25, Move DEF Collect, nodeVars
<1>26. ASSUME NEW t \in Thread, Sweep(t) PROVE PhaseTyped' /\ PhaseOK'
  BY <1>26, Move DEF Sweep
<1>27. ASSUME NEW t \in Thread, Drop(t) PROVE PhaseTyped' /\ PhaseOK'
  BY <1>27, Move DEF Drop, AfterUnsubscribe
<1>28. CASE UNCHANGED vars
  BY <1>28 DEF vars, nodeVars, localVars, PhaseTyped, PhaseOK
<1>. QED
  BY <1>1, <1>2, <1>3, <1>4, <1>5, <1>6, <1>7, <1>8, <1>9, <1>10, <1>11, <1>12, <1>13,
     <1>14, <1>15, <1>16, <1>17, <1>18, <1>19, <1>20, <1>21, <1>22, <1>23, <1>24, <1>25,
     <1>26, <1>27, <1>28
  DEF Next, Arrival, HandlerStep, RemovalStep, CloserStep

\* The server's tables keep their types, and each goroutine stays within its own
\* code, whatever the peers send and however closers interleave.
THEOREM DistributionTypeCorrect == Spec => []TypeOK
<1>1. TypeOK /\ PhaseOK /\ [Next]_vars => (TypeOK /\ PhaseOK)'
  BY StepKeepsData, StepKeepsPhase DEF TypeOK
<1>. QED
  BY InitTyped, <1>1, PTL DEF Spec

-----------------------------------------------------------------------------
(* The other parts of the invariant.                                       *)

\* A peer leaves its connection states in one direction, and its closers work on
\* it only once it is closed.
LEMMA StepKeepsConn == TypeOK /\ ConnOK /\ [Next]_vars => ConnOK'
<1>. SUFFICES ASSUME DataTyped, PhaseTyped, ConnOK, [Next]_vars PROVE ConnOK'
  BY DEF TypeOK
<1>1a. /\ conn \in [Peer -> {"HELLO_SENT", "ESTABLISHED", "CLOSED"}]
       /\ pc \in [Thread -> HandlerPC \cup CloserPC \cup RemovalPC]
       /\ subscribers \in [VNI -> SUBSET Peer] /\ token \in [Peer -> BOOLEAN]
       /\ vni \in [Thread -> VNI]
  BY DEF DataTyped, PhaseTyped
<1>. USE ThreadFacts, <1>1a DEF ConnOK, RemovalPC, Goto
<1>1. ASSUME NEW p \in Peer, NEW r \in Route, RxAdd(p, r) PROVE ConnOK'
  BY <1>1 DEF RxAdd, Receives
<1>2. ASSUME NEW p \in Peer, NEW r \in Route, RxRemove(p, r) PROVE ConnOK'
  BY <1>2 DEF RxRemove, Receives
<1>3. ASSUME NEW p \in Peer, NEW v \in VNI, RxSubscribe(p, v) PROVE ConnOK'
  BY <1>3 DEF RxSubscribe, Receives
<1>4. ASSUME NEW p \in Peer, NEW v \in VNI, RxUnsubscribe(p, v) PROVE ConnOK'
  BY <1>4 DEF RxUnsubscribe, Receives
<1>5. ASSUME NEW p \in Peer, Establish(p) PROVE ConnOK'
  BY <1>5 DEF Establish, localVars
<1>6. ASSUME NEW p \in Peer, AddToTable(p) PROVE ConnOK'
  BY <1>6 DEF AddToTable, localVars
<1>7. ASSUME NEW p \in Peer, DistributeAdd(p) PROVE ConnOK'
  BY <1>7 DEF DistributeAdd, localVars
<1>8. ASSUME NEW p \in Peer, Install(p) PROVE ConnOK'
  BY <1>8 DEF Install, localVars
<1>9. ASSUME NEW p \in Peer, Register(p) PROVE ConnOK'
  BY <1>9 DEF Register, localVars
<1>10. ASSUME NEW p \in Peer, Snapshot(p) PROVE ConnOK'
  BY <1>10 DEF Snapshot, nodeVars
<1>11. ASSUME NEW p \in Peer, Replay(p) PROVE ConnOK'
  BY <1>11 DEF Replay
<1>12. ASSUME NEW p \in Peer, TakeShutdown(p) PROVE ConnOK'
  BY <1>12 DEF TakeShutdown, nodeVars
<1>13. ASSUME NEW p \in Peer, CleanVNI(p) PROVE ConnOK'
  BY <1>13 DEF CleanVNI, nodeVars
<1>14. ASSUME NEW p \in Peer, CleanSweep(p) PROVE ConnOK'
  BY <1>14 DEF CleanSweep
<1>15. ASSUME NEW t \in Thread, ResetChecks(t) PROVE ConnOK'
  BY <1>15 DEF ResetChecks, nodeVars, localVars
<1>16. ASSUME NEW t \in Thread, CloseChecks(t) PROVE ConnOK'
  BY <1>16 DEF CloseChecks, nodeVars, localVars
<1>17. ASSUME NEW t \in Thread, SetClosed(t) PROVE ConnOK'
  BY <1>17 DEF SetClosed, localVars
<1>18. ASSUME NEW t \in Thread, FindSubscriptions(t) PROVE ConnOK'
  BY <1>18 DEF FindSubscriptions, nodeVars
<1>19. ASSUME NEW t \in Thread, NextSubscription(t) PROVE ConnOK'
  BY <1>19 DEF NextSubscription, nodeVars
<1>20. ASSUME NEW t \in Thread, SendShutdown(t) PROVE ConnOK'
  <2>1. t \in Closer
    BY <1>20 DEF SendShutdown, PhaseTyped, HandlerPC
  <2>2. conn[Owner(t)] = "CLOSED"
    BY <1>20, <2>1 DEF SendShutdown
  <2>3. \A p \in Peer : token'[p] => token[p] \/ p = Owner(t)
    BY <1>20 DEF SendShutdown
  <2>. QED
    BY <1>20, <2>2, <2>3 DEF SendShutdown, localVars
<1>21. ASSUME NEW t \in Thread, DelFromTable(t) PROVE ConnOK'
  BY <1>21 DEF DelFromTable, localVars, AfterRemoval
<1>22. ASSUME NEW t \in Thread, DistributeDel(t) PROVE ConnOK'
  BY <1>22 DEF DistributeDel, localVars
<1>23. ASSUME NEW t \in Thread, Uninstall(t) PROVE ConnOK'
  BY <1>23 DEF Uninstall, localVars, AfterRemoval
<1>24. ASSUME NEW t \in Thread, CheckSubscribed(t) PROVE ConnOK'
  BY <1>24 DEF CheckSubscribed, nodeVars, AfterUnsubscribe
<1>25. ASSUME NEW t \in Thread, Collect(t) PROVE ConnOK'
  BY <1>25 DEF Collect, nodeVars
<1>26. ASSUME NEW t \in Thread, Sweep(t) PROVE ConnOK'
  BY <1>26 DEF Sweep
<1>27. ASSUME NEW t \in Thread, Drop(t) PROVE ConnOK'
  BY <1>27 DEF Drop, AfterUnsubscribe
<1>28. CASE UNCHANGED vars
  BY <1>28 DEF vars, nodeVars, localVars
<1>. QED
  BY <1>1, <1>2, <1>3, <1>4, <1>5, <1>6, <1>7, <1>8, <1>9, <1>10, <1>11, <1>12, <1>13,
     <1>14, <1>15, <1>16, <1>17, <1>18, <1>19, <1>20, <1>21, <1>22, <1>23, <1>24, <1>25,
     <1>26, <1>27, <1>28
  DEF Next, Arrival, HandlerStep, RemovalStep, CloserStep

\* Routes only ever come from the peer's own UPDATEs.
LEMMA StepKeepsSource == TypeOK /\ SourceOK /\ [Next]_vars => SourceOK'
<1>. SUFFICES ASSUME DataTyped, PhaseTyped, SourceOK, [Next]_vars PROVE SourceOK'
  BY DEF TypeOK
<1>1a. /\ recv \in [Peer -> SUBSET Route]
       /\ pc \in [Thread -> HandlerPC \cup CloserPC \cup RemovalPC]
       /\ route \in [Thread -> Route] /\ todo \in [Thread -> SUBSET Route]
       /\ quota \in [Peer -> QuotaType]
  BY DEF DataTyped, PhaseTyped
<1>. USE ThreadFacts, <1>1a DEF SourceOK, AddPC, DelPC, Goto
<1>1. ASSUME NEW p \in Peer, NEW r \in Route, RxAdd(p, r) PROVE SourceOK'
  BY <1>1 DEF RxAdd, Receives
<1>2. ASSUME NEW p \in Peer, NEW r \in Route, RxRemove(p, r) PROVE SourceOK'
  BY <1>2 DEF RxRemove, Receives
<1>3. ASSUME NEW p \in Peer, NEW v \in VNI, RxSubscribe(p, v) PROVE SourceOK'
  BY <1>3 DEF RxSubscribe, Receives
<1>4. ASSUME NEW p \in Peer, NEW v \in VNI, RxUnsubscribe(p, v) PROVE SourceOK'
  BY <1>4 DEF RxUnsubscribe, Receives
<1>5. ASSUME NEW p \in Peer, Establish(p) PROVE SourceOK'
  BY <1>5 DEF Establish, localVars
<1>6. ASSUME NEW p \in Peer, AddToTable(p) PROVE SourceOK'
  BY <1>6 DEF AddToTable, localVars
<1>7. ASSUME NEW p \in Peer, DistributeAdd(p) PROVE SourceOK'
  BY <1>7 DEF DistributeAdd, localVars
<1>8. ASSUME NEW p \in Peer, Install(p) PROVE SourceOK'
  BY <1>8 DEF Install, localVars
<1>9. ASSUME NEW p \in Peer, Register(p) PROVE SourceOK'
  BY <1>9 DEF Register, localVars
<1>10. ASSUME NEW p \in Peer, Snapshot(p) PROVE SourceOK'
  BY <1>10 DEF Snapshot, nodeVars
<1>11. ASSUME NEW p \in Peer, Replay(p) PROVE SourceOK'
  BY <1>11 DEF Replay
<1>12. ASSUME NEW p \in Peer, TakeShutdown(p) PROVE SourceOK'
  BY <1>12 DEF TakeShutdown, nodeVars
<1>13. ASSUME NEW p \in Peer, CleanVNI(p) PROVE SourceOK'
  BY <1>13 DEF CleanVNI, nodeVars, OfVNI
<1>14. ASSUME NEW p \in Peer, CleanSweep(p) PROVE SourceOK'
  <2>. DEFINE h == Handler(p)
  <2>1. CASE pc' = [pc EXCEPT ![h] = "clean"] /\ UNCHANGED <<recv, route, todo>>
    BY <1>14, <2>1 DEF CleanSweep
  <2>2. CASE pc' = [pc EXCEPT ![h] = "exited"] /\ UNCHANGED <<recv, route, todo>>
    BY <1>14, <2>2 DEF CleanSweep
  <2>3. ASSUME NEW r \in todo[h] \cap recv[p],
               recv' = [recv EXCEPT ![p] = @ \ {r}], route' = [route EXCEPT ![h] = r],
               todo' = [todo EXCEPT ![h] = @ \ {r}], pc' = [pc EXCEPT ![h] = "delTable"]
        PROVE  SourceOK'
    BY <1>14, <2>3 DEF CleanSweep
  <2>. QED
    BY <1>14, <2>1, <2>2, <2>3 DEF CleanSweep
<1>15. ASSUME NEW t \in Thread, ResetChecks(t) PROVE SourceOK'
  BY <1>15 DEF ResetChecks, nodeVars, localVars
<1>16. ASSUME NEW t \in Thread, CloseChecks(t) PROVE SourceOK'
  BY <1>16 DEF CloseChecks, nodeVars, localVars
<1>17. ASSUME NEW t \in Thread, SetClosed(t) PROVE SourceOK'
  BY <1>17 DEF SetClosed, localVars
<1>18. ASSUME NEW t \in Thread, FindSubscriptions(t) PROVE SourceOK'
  BY <1>18 DEF FindSubscriptions, nodeVars
<1>19. ASSUME NEW t \in Thread, NextSubscription(t) PROVE SourceOK'
  BY <1>19 DEF NextSubscription, nodeVars
<1>20. ASSUME NEW t \in Thread, SendShutdown(t) PROVE SourceOK'
  BY <1>20 DEF SendShutdown, localVars
<1>21. ASSUME NEW t \in Thread, DelFromTable(t) PROVE SourceOK'
  BY <1>21 DEF DelFromTable, localVars, AfterRemoval
<1>22. ASSUME NEW t \in Thread, DistributeDel(t) PROVE SourceOK'
  BY <1>22 DEF DistributeDel, localVars
<1>23. ASSUME NEW t \in Thread, Uninstall(t) PROVE SourceOK'
  BY <1>23 DEF Uninstall, localVars, AfterRemoval
<1>24. ASSUME NEW t \in Thread, CheckSubscribed(t) PROVE SourceOK'
  BY <1>24 DEF CheckSubscribed, nodeVars, AfterUnsubscribe
<1>25. ASSUME NEW t \in Thread, Collect(t) PROVE SourceOK'
  BY <1>25 DEF Collect, nodeVars, OfVNI
<1>26. ASSUME NEW t \in Thread, Sweep(t) PROVE SourceOK'
  BY <1>26 DEF Sweep
<1>27. ASSUME NEW t \in Thread, Drop(t) PROVE SourceOK'
  BY <1>27 DEF Drop, AfterUnsubscribe
<1>28. CASE UNCHANGED vars
  BY <1>28 DEF vars, nodeVars, localVars
<1>. QED
  BY <1>1, <1>2, <1>3, <1>4, <1>5, <1>6, <1>7, <1>8, <1>9, <1>10, <1>11, <1>12, <1>13,
     <1>14, <1>15, <1>16, <1>17, <1>18, <1>19, <1>20, <1>21, <1>22, <1>23, <1>24, <1>25,
     <1>26, <1>27, <1>28
  DEF Next, Arrival, HandlerStep, RemovalStep, CloserStep

\* Only its own handler adds a route of a peer.
LEMMA StepKeepsRemoved == TypeOK /\ RemovedOK /\ [Next]_vars => RemovedOK'
<1>. SUFFICES ASSUME DataTyped, PhaseTyped, RemovedOK, [Next]_vars PROVE RemovedOK'
  BY DEF TypeOK
<1>1a. /\ pc \in [Thread -> HandlerPC \cup CloserPC \cup RemovalPC]
       /\ route \in [Thread -> Route]
  BY DEF DataTyped, PhaseTyped
<1>. USE ThreadFacts, <1>1a DEF RemovedOK, Goto
<1>1. ASSUME NEW p \in Peer, NEW r \in Route, RxAdd(p, r) PROVE RemovedOK'
  BY <1>1 DEF RxAdd, Receives
<1>2. ASSUME NEW p \in Peer, NEW r \in Route, RxRemove(p, r) PROVE RemovedOK'
  BY <1>2 DEF RxRemove, Receives
<1>3. ASSUME NEW p \in Peer, NEW v \in VNI, RxSubscribe(p, v) PROVE RemovedOK'
  BY <1>3 DEF RxSubscribe, Receives
<1>4. ASSUME NEW p \in Peer, NEW v \in VNI, RxUnsubscribe(p, v) PROVE RemovedOK'
  BY <1>4 DEF RxUnsubscribe, Receives
<1>5. ASSUME NEW p \in Peer, Establish(p) PROVE RemovedOK'
  BY <1>5 DEF Establish, localVars
<1>6. ASSUME NEW p \in Peer, AddToTable(p) PROVE RemovedOK'
  BY <1>6 DEF AddToTable, localVars
<1>7. ASSUME NEW p \in Peer, DistributeAdd(p) PROVE RemovedOK'
  BY <1>7 DEF DistributeAdd, localVars
<1>8. ASSUME NEW p \in Peer, Install(p) PROVE RemovedOK'
  BY <1>8 DEF Install, localVars
<1>9. ASSUME NEW p \in Peer, Register(p) PROVE RemovedOK'
  BY <1>9 DEF Register, localVars
<1>10. ASSUME NEW p \in Peer, Snapshot(p) PROVE RemovedOK'
  BY <1>10 DEF Snapshot, nodeVars
<1>11. ASSUME NEW p \in Peer, Replay(p) PROVE RemovedOK'
  BY <1>11 DEF Replay
<1>12. ASSUME NEW p \in Peer, TakeShutdown(p) PROVE RemovedOK'
  BY <1>12 DEF TakeShutdown, nodeVars
<1>13. ASSUME NEW p \in Peer, CleanVNI(p) PROVE RemovedOK'
  BY <1>13 DEF CleanVNI, nodeVars
<1>14. ASSUME NEW p \in Peer, CleanSweep(p) PROVE RemovedOK'
  BY <1>14 DEF CleanSweep
<1>15. ASSUME NEW t \in Thread, ResetChecks(t) PROVE RemovedOK'
  BY <1>15 DEF ResetChecks, nodeVars, localVars
<1>16. ASSUME NEW t \in Thread, CloseChecks(t) PROVE RemovedOK'
  BY <1>16 DEF CloseChecks, nodeVars, localVars
<1>17. ASSUME NEW t \in Thread, SetClosed(t) PROVE RemovedOK'
  BY <1>17 DEF SetClosed, localVars
<1>18. ASSUME NEW t \in Thread, FindSubscriptions(t) PROVE RemovedOK'
  BY <1>18 DEF FindSubscriptions, nodeVars
<1>19. ASSUME NEW t \in Thread, NextSubscription(t) PROVE RemovedOK'
  BY <1>19 DEF NextSubscription, nodeVars
<1>20. ASSUME NEW t \in Thread, SendShutdown(t) PROVE RemovedOK'
  BY <1>20 DEF SendShutdown, localVars
<1>21. ASSUME NEW t \in Thread, DelFromTable(t) PROVE RemovedOK'
  BY <1>21 DEF DelFromTable, localVars, AfterRemoval
<1>22. ASSUME NEW t \in Thread, DistributeDel(t) PROVE RemovedOK'
  BY <1>22 DEF DistributeDel, localVars
<1>23. ASSUME NEW t \in Thread, Uninstall(t) PROVE RemovedOK'
  <2>1. mode[t] \in Mode
    BY DEF PhaseTyped
  <2>2. AfterRemoval(t) # "delDist"
    BY <2>1 DEF AfterRemoval, Mode
  <2>. QED
    BY <1>23, <2>2 DEF Uninstall, localVars
<1>24. ASSUME NEW t \in Thread, CheckSubscribed(t) PROVE RemovedOK'
  BY <1>24 DEF CheckSubscribed, nodeVars, AfterUnsubscribe
<1>25. ASSUME NEW t \in Thread, Collect(t) PROVE RemovedOK'
  BY <1>25 DEF Collect, nodeVars
<1>26. ASSUME NEW t \in Thread, Sweep(t) PROVE RemovedOK'
  BY <1>26 DEF Sweep
<1>27. ASSUME NEW t \in Thread, Drop(t) PROVE RemovedOK'
  BY <1>27 DEF Drop, AfterUnsubscribe
<1>28. CASE UNCHANGED vars
  BY <1>28 DEF vars, nodeVars, localVars
<1>. QED
  BY <1>1, <1>2, <1>3, <1>4, <1>5, <1>6, <1>7, <1>8, <1>9, <1>10, <1>11, <1>12, <1>13,
     <1>14, <1>15, <1>16, <1>17, <1>18, <1>19, <1>20, <1>21, <1>22, <1>23, <1>24, <1>25,
     <1>26, <1>27, <1>28
  DEF Next, Arrival, HandlerStep, RemovalStep, CloserStep

\* No step makes a subscriber miss a route.  A route enters the table before its
\* handler distributes it, a subscriber registers before its handler reads the
\* table, and whoever comes second sends the route; a REMOVE is sent only for a
\* route that is out of the table, by a thread of the peer that announced it.
LEMMA StepKeepsTold == DistributionInv /\ [Next]_vars => NoMissedRoute'
<1>. SUFFICES ASSUME DistributionInv, [Next]_vars,
                     NEW p \in Peer, NEW q \in Peer, NEW r \in Route,
                     p # q, SoleAnnouncer(p, r),
                     conn'[p] = "ESTABLISHED", conn'[q] = "ESTABLISHED",
                     <<r, p>> \in table', q \in subscribers'[r.vni],
                     ~(Announcing(p, r)'), ~(CatchingUp(q, r)')
              PROVE  r \in told'[q]
  BY DEF NoMissedRoute, SoleAnnouncer
<1>a. /\ conn \in [Peer -> {"HELLO_SENT", "ESTABLISHED", "CLOSED"}]
      /\ subscribers \in [VNI -> SUBSET Peer] /\ told \in [Peer -> SUBSET Route]
      /\ vni \in [Thread -> VNI] /\ route \in [Thread -> Route]
      /\ todo \in [Thread -> SUBSET Route] /\ mode \in [Thread -> Mode]
      /\ pc \in [Thread -> HandlerPC \cup CloserPC \cup RemovalPC]
  BY DEF DistributionInv, TypeOK, DataTyped, PhaseTyped
<1>b. /\ conn[p] = "ESTABLISHED" /\ conn[q] = "ESTABLISHED"
      /\ <<r, p>> \in table /\ q \in subscribers[r.vni]
      /\ ~Announcing(p, r) /\ ~CatchingUp(q, r)
      => r \in told[q]
  BY DEF DistributionInv, NoMissedRoute
<1>c. r.vni \in VNI
  BY RouteAssumption
<1>d. pc[Handler(q)] = "idle" => mode[Handler(q)] = "rx"
  BY ThreadFacts DEF DistributionInv, PhaseOK, Placed
<1>. USE ThreadFacts, <1>a, <1>b, <1>c, <1>d DEF Announcing, CatchingUp, Goto
<1>1. ASSUME NEW x \in Peer, NEW s \in Route, RxAdd(x, s) PROVE r \in told'[q]
  BY <1>1 DEF RxAdd, Receives
<1>2. ASSUME NEW x \in Peer, NEW s \in Route, RxRemove(x, s) PROVE r \in told'[q]
  BY <1>2 DEF RxRemove, Receives
<1>3. ASSUME NEW x \in Peer, NEW v \in VNI, RxSubscribe(x, v) PROVE r \in told'[q]
  BY <1>3 DEF RxSubscribe, Receives
<1>4. ASSUME NEW x \in Peer, NEW v \in VNI, RxUnsubscribe(x, v) PROVE r \in told'[q]
  BY <1>4 DEF RxUnsubscribe, Receives, OfVNI
<1>5. ASSUME NEW x \in Peer, Establish(x) PROVE r \in told'[q]
  <2>1. x # p /\ x # q
    BY <1>5 DEF Establish, DistributionInv, ConnOK
  <2>. QED
    BY <1>5, <2>1 DEF Establish, localVars
<1>6. ASSUME NEW x \in Peer, AddToTable(x) PROVE r \in told'[q]
  BY <1>6 DEF AddToTable, localVars
<1>7. ASSUME NEW x \in Peer, DistributeAdd(x) PROVE r \in told'[q]
  BY <1>7 DEF DistributeAdd, localVars, distributeRouteToPeers, Sent
<1>8. ASSUME NEW x \in Peer, Install(x) PROVE r \in told'[q]
  BY <1>8 DEF Install, localVars
<1>9. ASSUME NEW x \in Peer, Register(x) PROVE r \in told'[q]
  BY <1>9 DEF Register, localVars
<1>10. ASSUME NEW x \in Peer, Snapshot(x) PROVE r \in told'[q]
  BY <1>10 DEF Snapshot, nodeVars, ReplayTo, OfVNI
<1>11. ASSUME NEW x \in Peer, Replay(x) PROVE r \in told'[q]
  BY <1>11 DEF Replay, Sent
<1>12. ASSUME NEW x \in Peer, TakeShutdown(x) PROVE r \in told'[q]
  BY <1>12 DEF TakeShutdown, nodeVars
<1>13. ASSUME NEW x \in Peer, CleanVNI(x) PROVE r \in told'[q]
  BY <1>13 DEF CleanVNI, nodeVars
<1>14. ASSUME NEW x \in Peer, CleanSweep(x) PROVE r \in told'[q]
  BY <1>14 DEF CleanSweep
<1>15. ASSUME NEW t \in Thread, ResetChecks(t) PROVE r \in told'[q]
  BY <1>15 DEF ResetChecks, nodeVars, localVars
<1>16. ASSUME NEW t \in Thread, CloseChecks(t) PROVE r \in told'[q]
  BY <1>16 DEF CloseChecks, nodeVars, localVars
<1>17. ASSUME NEW t \in Thread, SetClosed(t) PROVE r \in told'[q]
  BY <1>17 DEF SetClosed, localVars
<1>18. ASSUME NEW t \in Thread, FindSubscriptions(t) PROVE r \in told'[q]
  BY <1>18 DEF FindSubscriptions, nodeVars
<1>19. ASSUME NEW t \in Thread, NextSubscription(t) PROVE r \in told'[q]
  <2>1. \A x \in Peer : t # Handler(x)
    BY <1>19 DEF NextSubscription, DistributionInv, TypeOK, PhaseTyped, HandlerPC, RemovalPC
  <2>2. ~Announcing(p, r) /\ ~CatchingUp(q, r)
    BY <1>19, <2>1 DEF NextSubscription
  <2>. QED
    BY <1>19, <2>2 DEF NextSubscription, nodeVars
<1>20. ASSUME NEW t \in Thread, SendShutdown(t) PROVE r \in told'[q]
  BY <1>20 DEF SendShutdown, localVars
<1>21. ASSUME NEW t \in Thread, DelFromTable(t) PROVE r \in told'[q]
  BY <1>21 DEF DelFromTable, localVars, AfterRemoval
<1>22. ASSUME NEW t \in Thread, DistributeDel(t) PROVE r \in told'[q]
  <2>1. route[t] # r
    <3>. SUFFICES ASSUME route[t] = r PROVE FALSE
      OBVIOUS
    <3>1. Quota[Owner(t)].add[r] > 0
      BY <1>22 DEF DistributeDel, DistributionInv, SourceOK, DelPC, Announces
    <3>2. Owner(t) = p
      BY <3>1 DEF SoleAnnouncer
    <3>3. CASE t \in Closer
      BY <1>22, <3>2, <3>3 DEF DistributeDel, localVars, DistributionInv, ConnOK, RemovalPC
    <3>4. CASE t = Handler(p)
      BY <1>22, <3>4 DEF DistributeDel, DistributionInv, RemovedOK
    <3>. QED
      BY <3>2, <3>3, <3>4
  <2>2. r \in told[q] => r \in told'[q]
    BY <1>22, <2>1 DEF DistributeDel, distributeRouteToPeers, Sent
  <2>3. ~Announcing(p, r) /\ ~CatchingUp(q, r)
    BY <1>22 DEF DistributeDel, localVars
  <2>. QED
    BY <1>22, <2>2, <2>3 DEF DistributeDel
<1>23. ASSUME NEW t \in Thread, Uninstall(t) PROVE r \in told'[q]
  BY <1>23 DEF Uninstall, localVars, AfterRemoval
<1>24. ASSUME NEW t \in Thread, CheckSubscribed(t) PROVE r \in told'[q]
  BY <1>24 DEF CheckSubscribed, nodeVars, AfterUnsubscribe
<1>25. ASSUME NEW t \in Thread, Collect(t) PROVE r \in told'[q]
  BY <1>25 DEF Collect, nodeVars
<1>26. ASSUME NEW t \in Thread, Sweep(t) PROVE r \in told'[q]
  BY <1>26 DEF Sweep
<1>27. ASSUME NEW t \in Thread, Drop(t) PROVE r \in told'[q]
  BY <1>27 DEF Drop, AfterUnsubscribe
<1>28. CASE UNCHANGED vars
  BY <1>28 DEF vars, nodeVars, localVars
<1>. QED
  BY <1>1, <1>2, <1>3, <1>4, <1>5, <1>6, <1>7, <1>8, <1>9, <1>10, <1>11, <1>12, <1>13,
     <1>14, <1>15, <1>16, <1>17, <1>18, <1>19, <1>20, <1>21, <1>22, <1>23, <1>24, <1>25,
     <1>26, <1>27, <1>28
  DEF Next, Arrival, HandlerStep, RemovalStep, CloserStep

LEMMA InitInv == Init => DistributionInv
<1>. SUFFICES ASSUME Init PROVE DistributionInv
  OBVIOUS
<1>1. TypeOK /\ PhaseOK
  BY InitTyped
<1>2. ConnOK
  BY ThreadFacts DEF Init, ConnOK, RemovalPC
<1>3. SourceOK
  BY ThreadFacts, QuotaAssumption DEF Init, SourceOK, AddPC, DelPC, Announces
<1>4. RemovedOK
  BY ThreadFacts DEF Init, RemovedOK
<1>5. NoMissedRoute
  BY DEF Init, NoMissedRoute
<1>. QED
  BY <1>1, <1>2, <1>3, <1>4, <1>5 DEF DistributionInv

\* Every step keeps the invariant behind NoMissedRoute.
LEMMA StepKeepsInv == DistributionInv /\ [Next]_vars => DistributionInv'
  BY StepKeepsData, StepKeepsPhase, StepKeepsConn, StepKeepsSource, StepKeepsRemoved,
     StepKeepsTold DEF DistributionInv, TypeOK

\* However the handlers of announcers and subscribers and their closers interleave,
\* a live subscriber has been sent every route of the VNI that one live peer
\* announces, once neither handler has it still to send: the order of the lock
\* sections in addReceivedRoute and addSubscriber suffices, without a lock around
\* either (metalbond.go 323-355 and 386-425).
THEOREM SubscribersMissNothing == Spec => []NoMissedRoute
<1>1. DistributionInv => NoMissedRoute
  BY DEF DistributionInv
<1>. QED
  BY InitInv, StepKeepsInv, <1>1, PTL DEF Spec

-----------------------------------------------------------------------------
(* NAT routes.                                                             *)

\* A NAT route is neither sent to its only announcer nor waiting to be.
EchoOK ==
    \A p \in Peer, r \in Route \ Announced :
        TypeOf[r.hop] = "NAT" /\ SoleAnnouncer(p, r) =>
            /\ r \notin told[p]
            /\ pc[Handler(p)] = "replay" => r \notin todo[Handler(p)]

\* The only announcer of a NAT route is left out when the route is distributed, and
\* its replay leaves the route out as no other peer has it in the table.
LEMMA StepKeepsEcho == TypeOK /\ SourceOK /\ EchoOK /\ [Next]_vars => EchoOK'
<1>. SUFFICES ASSUME TypeOK, SourceOK, EchoOK, [Next]_vars,
                     NEW p \in Peer, NEW r \in Route \ Announced,
                     TypeOf[r.hop] = "NAT", SoleAnnouncer(p, r)
              PROVE  /\ r \notin told'[p]
                     /\ pc'[Handler(p)] = "replay" => r \notin todo'[Handler(p)]
  BY DEF EchoOK, SoleAnnouncer
<1>. DEFINE Silent == /\ r \notin told'[p]
                      /\ pc'[Handler(p)] = "replay" => r \notin todo'[Handler(p)]
<1>a. /\ conn \in [Peer -> {"HELLO_SENT", "ESTABLISHED", "CLOSED"}]
      /\ told \in [Peer -> SUBSET Route] /\ route \in [Thread -> Route]
      /\ todo \in [Thread -> SUBSET Route] /\ mode \in [Thread -> Mode]
      /\ pc \in [Thread -> HandlerPC \cup CloserPC \cup RemovalPC]
  BY DEF TypeOK, DataTyped, PhaseTyped
<1>b. r \notin told[p] /\ (pc[Handler(p)] = "replay" => r \notin todo[Handler(p)])
  BY DEF EchoOK
<1>c. \A x \in Peer : r \in Announces(x) => x = p
  BY DEF SoleAnnouncer, Announces
<1>d. \A t \in Thread : AfterRemoval(t) # "replay"
  BY <1>a DEF AfterRemoval, Mode
<1>. USE ThreadFacts, <1>a, <1>b DEF Goto
<1>1. ASSUME NEW x \in Peer, NEW s \in Route, RxAdd(x, s) PROVE Silent
  BY <1>1 DEF RxAdd, Receives
<1>2. ASSUME NEW x \in Peer, NEW s \in Route, RxRemove(x, s) PROVE Silent
  BY <1>2 DEF RxRemove, Receives
<1>3. ASSUME NEW x \in Peer, NEW v \in VNI, RxSubscribe(x, v) PROVE Silent
  BY <1>3 DEF RxSubscribe, Receives
<1>4. ASSUME NEW x \in Peer, NEW v \in VNI, RxUnsubscribe(x, v) PROVE Silent
  BY <1>4 DEF RxUnsubscribe, Receives, OfVNI
<1>5. ASSUME NEW x \in Peer, Establish(x) PROVE Silent
  BY <1>5 DEF Establish, localVars
<1>6. ASSUME NEW x \in Peer, AddToTable(x) PROVE Silent
  BY <1>6 DEF AddToTable, localVars
<1>7. ASSUME NEW x \in Peer, DistributeAdd(x) PROVE Silent
  <2>1. route[Handler(x)] = r => x = p
    BY <1>7, <1>c DEF DistributeAdd, SourceOK, AddPC
  <2>2. r \notin told'[p]
    BY <1>7, <2>1 DEF DistributeAdd, distributeRouteToPeers, Sent
  <2>. QED
    BY <1>7, <2>2 DEF DistributeAdd, localVars
<1>8. ASSUME NEW x \in Peer, Install(x) PROVE Silent
  BY <1>8 DEF Install, localVars
<1>9. ASSUME NEW x \in Peer, Register(x) PROVE Silent
  BY <1>9 DEF Register, localVars
<1>10. ASSUME NEW x \in Peer, Snapshot(x) PROVE Silent
  <2>1. r \notin ReplayTo(p, vni[Handler(p)])
    BY <1>c DEF ReplayTo, SourceOK
  <2>. QED
    BY <1>10, <2>1 DEF Snapshot, nodeVars
<1>11. ASSUME NEW x \in Peer, Replay(x) PROVE Silent
  BY <1>11 DEF Replay, Sent
<1>12. ASSUME NEW x \in Peer, TakeShutdown(x) PROVE Silent
  BY <1>12 DEF TakeShutdown, nodeVars
<1>13. ASSUME NEW x \in Peer, CleanVNI(x) PROVE Silent
  BY <1>13 DEF CleanVNI, nodeVars
<1>14. ASSUME NEW x \in Peer, CleanSweep(x) PROVE Silent
  BY <1>14 DEF CleanSweep
<1>15. ASSUME NEW t \in Thread, ResetChecks(t) PROVE Silent
  BY <1>15 DEF ResetChecks, nodeVars, localVars
<1>16. ASSUME NEW t \in Thread, CloseChecks(t) PROVE Silent
  BY <1>16 DEF CloseChecks, nodeVars, localVars
<1>17. ASSUME NEW t \in Thread, SetClosed(t) PROVE Silent
  BY <1>17 DEF SetClosed, localVars
<1>18. ASSUME NEW t \in Thread, FindSubscriptions(t) PROVE Silent
  BY <1>18 DEF FindSubscriptions, nodeVars
<1>19. ASSUME NEW t \in Thread, NextSubscription(t) PROVE Silent
  BY <1>19 DEF NextSubscription, nodeVars
<1>20. ASSUME NEW t \in Thread, SendShutdown(t) PROVE Silent
  BY <1>20 DEF SendShutdown, localVars
<1>21. ASSUME NEW t \in Thread, DelFromTable(t) PROVE Silent
  BY <1>21, <1>d DEF DelFromTable, localVars
<1>22. ASSUME NEW t \in Thread, DistributeDel(t) PROVE Silent
  BY <1>22 DEF DistributeDel, localVars, distributeRouteToPeers, Sent
<1>23. ASSUME NEW t \in Thread, Uninstall(t) PROVE Silent
  BY <1>23, <1>d DEF Uninstall, localVars
<1>24. ASSUME NEW t \in Thread, CheckSubscribed(t) PROVE Silent
  BY <1>24 DEF CheckSubscribed, nodeVars, AfterUnsubscribe
<1>25. ASSUME NEW t \in Thread, Collect(t) PROVE Silent
  BY <1>25 DEF Collect, nodeVars
<1>26. ASSUME NEW t \in Thread, Sweep(t) PROVE Silent
  BY <1>26 DEF Sweep
<1>27. ASSUME NEW t \in Thread, Drop(t) PROVE Silent
  BY <1>27 DEF Drop, AfterUnsubscribe
<1>28. CASE UNCHANGED vars
  BY <1>28 DEF vars, nodeVars, localVars
<1>. QED
  BY <1>1, <1>2, <1>3, <1>4, <1>5, <1>6, <1>7, <1>8, <1>9, <1>10, <1>11, <1>12, <1>13,
     <1>14, <1>15, <1>16, <1>17, <1>18, <1>19, <1>20, <1>21, <1>22, <1>23, <1>24, <1>25,
     <1>26, <1>27, <1>28
  DEF Next, Arrival, HandlerStep, RemovalStep, CloserStep

\* A NAT route never comes back to the only peer that announces it, also while the
\* peer subscribes, unsubscribes or is being closed (metalbond.go 251 and 406-409).
THEOREM NatIsNotEchoed == Spec => []NoNatEcho
<1>1. Init => EchoOK
  BY ThreadFacts DEF Init, EchoOK
<1>2. DistributionInv /\ EchoOK /\ [Next]_vars => (DistributionInv /\ EchoOK)'
  BY StepKeepsInv, StepKeepsEcho DEF DistributionInv
<1>3. EchoOK => NoNatEcho
  BY DEF EchoOK, NoNatEcho
<1>. QED
  BY InitInv, <1>1, <1>2, <1>3, PTL DEF Spec

-----------------------------------------------------------------------------
(***************************************************************************)
(* The records a server keeps of a peer's routes: what the peer's handler  *)
(* has received, the route table and the Client.                           *)
(***************************************************************************)

-----------------------------------------------------------------------------
(* Closers of peers that do not announce where they subscribe.             *)

Subscribes(p, v) == Quota[p].subscribe[v] > 0

\* Whoever is registered, or is sweeping as one who was, did subscribe.
RolesOK ==
    /\ \A p \in Peer, v \in VNI :
          p \in subscribers[v] \/ quota[p].subscribe[v] > 0 => Subscribes(p, v)
    /\ \A p \in Peer : pc[Handler(p)] = "register" => Subscribes(p, vni[Handler(p)])
    /\ \A t \in Thread : pc[t] = "collect" => Subscribes(Owner(t), vni[t])

\* A closer finds nothing to sweep for a peer that does not announce where it
\* subscribes.
IdleOK ==
    \A c \in Closer :
        DisjointRoles(Owner(c)) =>
            pc[c] \notin DelPC /\ (pc[c] = "sweep" => todo[c] = {})

\* Registration follows a SUBSCRIBE, and a sweep follows the check of registration.
LEMMA StepKeepsRoles == TypeOK /\ RolesOK /\ [Next]_vars => RolesOK'
<1>. SUFFICES ASSUME DataTyped, PhaseTyped, RolesOK, [Next]_vars PROVE RolesOK'
  BY DEF TypeOK
<1>a. /\ subscribers \in [VNI -> SUBSET Peer] /\ quota \in [Peer -> QuotaType]
      /\ vni \in [Thread -> VNI] /\ mode \in [Thread -> Mode]
      /\ pc \in [Thread -> HandlerPC \cup CloserPC \cup RemovalPC]
  BY DEF DataTyped, PhaseTyped
<1>b. \A t \in Thread : AfterRemoval(t) \notin {"collect", "register"}
  BY <1>a DEF AfterRemoval, Mode
<1>. USE ThreadFacts, <1>a DEF RolesOK, Goto
<1>1. ASSUME NEW p \in Peer, NEW r \in Route, RxAdd(p, r) PROVE RolesOK'
  BY <1>1 DEF RxAdd, Receives
<1>2. ASSUME NEW p \in Peer, NEW r \in Route, RxRemove(p, r) PROVE RolesOK'
  BY <1>2 DEF RxRemove, Receives
<1>3. ASSUME NEW p \in Peer, NEW v \in VNI, RxSubscribe(p, v) PROVE RolesOK'
  BY <1>3 DEF RxSubscribe, Receives
<1>4. ASSUME NEW p \in Peer, NEW v \in VNI, RxUnsubscribe(p, v) PROVE RolesOK'
  BY <1>4 DEF RxUnsubscribe, Receives
<1>5. ASSUME NEW p \in Peer, Establish(p) PROVE RolesOK'
  BY <1>5 DEF Establish, localVars
<1>6. ASSUME NEW p \in Peer, AddToTable(p) PROVE RolesOK'
  BY <1>6 DEF AddToTable, localVars
<1>7. ASSUME NEW p \in Peer, DistributeAdd(p) PROVE RolesOK'
  BY <1>7 DEF DistributeAdd, localVars
<1>8. ASSUME NEW p \in Peer, Install(p) PROVE RolesOK'
  BY <1>8 DEF Install, localVars
<1>9. ASSUME NEW p \in Peer, Register(p) PROVE RolesOK'
  BY <1>9 DEF Register, localVars
<1>10. ASSUME NEW p \in Peer, Snapshot(p) PROVE RolesOK'
  BY <1>10 DEF Snapshot, nodeVars
<1>11. ASSUME NEW p \in Peer, Replay(p) PROVE RolesOK'
  BY <1>11 DEF Replay
<1>12. ASSUME NEW p \in Peer, TakeShutdown(p) PROVE RolesOK'
  BY <1>12 DEF TakeShutdown, nodeVars
<1>13. ASSUME NEW p \in Peer, CleanVNI(p) PROVE RolesOK'
  BY <1>13 DEF CleanVNI, nodeVars
<1>14. ASSUME NEW p \in Peer, CleanSweep(p) PROVE RolesOK'
  BY <1>14 DEF CleanSweep
<1>15. ASSUME NEW t \in Thread, ResetChecks(t) PROVE RolesOK'
  BY <1>15 DEF ResetChecks, nodeVars, localVars
<1>16. ASSUME NEW t \in Thread, CloseChecks(t) PROVE RolesOK'
  BY <1>16 DEF CloseChecks, nodeVars, localVars
<1>17. ASSUME NEW t \in Thread, SetClosed(t) PROVE RolesOK'
  BY <1>17 DEF SetClosed, localVars
<1>18. ASSUME NEW t \in Thread, FindSubscriptions(t) PROVE RolesOK'
  BY <1>18 DEF FindSubscriptions, nodeVars
<1>19. ASSUME NEW t \in Thread, NextSubscription(t) PROVE RolesOK'
  BY <1>19 DEF NextSubscription, nodeVars
<1>20. ASSUME NEW t \in Thread, SendShutdown(t) PROVE RolesOK'
  BY <1>20 DEF SendShutdown, localVars
<1>21. ASSUME NEW t \in Thread, DelFromTable(t) PROVE RolesOK'
  BY <1>21, <1>b DEF DelFromTable, localVars
<1>22. ASSUME NEW t \in Thread, DistributeDel(t) PROVE RolesOK'
  BY <1>22 DEF DistributeDel, localVars
<1>23. ASSUME NEW t \in Thread, Uninstall(t) PROVE RolesOK'
  BY <1>23, <1>b DEF Uninstall, localVars
<1>24. ASSUME NEW t \in Thread, CheckSubscribed(t) PROVE RolesOK'
  BY <1>24 DEF CheckSubscribed, nodeVars, AfterUnsubscribe
<1>25. ASSUME NEW t \in Thread, Collect(t) PROVE RolesOK'
  BY <1>25 DEF Collect, nodeVars
<1>26. ASSUME NEW t \in Thread, Sweep(t) PROVE RolesOK'
  BY <1>26 DEF Sweep
<1>27. ASSUME NEW t \in Thread, Drop(t) PROVE RolesOK'
  BY <1>27 DEF Drop, AfterUnsubscribe
<1>28. CASE UNCHANGED vars
  BY <1>28 DEF vars, nodeVars, localVars
<1>. QED
  BY <1>1, <1>2, <1>3, <1>4, <1>5, <1>6, <1>7, <1>8, <1>9, <1>10, <1>11, <1>12, <1>13,
     <1>14, <1>15, <1>16, <1>17, <1>18, <1>19, <1>20, <1>21, <1>22, <1>23, <1>24, <1>25,
     <1>26, <1>27, <1>28
  DEF Next, Arrival, HandlerStep, RemovalStep, CloserStep

\* A closer collects only what the peer announced in a VNI it subscribed to.
LEMMA StepKeepsIdle ==
    TypeOK /\ PhaseOK /\ SourceOK /\ RolesOK /\ IdleOK /\ [Next]_vars => IdleOK'
<1>. SUFFICES ASSUME TypeOK, PhaseOK, SourceOK, RolesOK, IdleOK, [Next]_vars PROVE IdleOK'
  OBVIOUS
<1>a. /\ todo \in [Thread -> SUBSET Route] /\ mode \in [Thread -> Mode]
      /\ vni \in [Thread -> VNI]
      /\ pc \in [Thread -> HandlerPC \cup CloserPC \cup RemovalPC]
  BY DEF TypeOK, DataTyped, PhaseTyped
<1>b. \A c \in Closer : mode[c] = "lost" /\ pc[c] \in CloserPC \cup RemovalPC
  BY ThreadFacts DEF PhaseOK, Placed
<1>. USE ThreadFacts, <1>a DEF IdleOK, DelPC, Goto
<1>1. ASSUME NEW p \in Peer, NEW r \in Route, RxAdd(p, r) PROVE IdleOK'
  BY <1>1 DEF RxAdd, Receives
<1>2. ASSUME NEW p \in Peer, NEW r \in Route, RxRemove(p, r) PROVE IdleOK'
  BY <1>2 DEF RxRemove, Receives
<1>3. ASSUME NEW p \in Peer, NEW v \in VNI, RxSubscribe(p, v) PROVE IdleOK'
  BY <1>3 DEF RxSubscribe, Receives
<1>4. ASSUME NEW p \in Peer, NEW v \in VNI, RxUnsubscribe(p, v) PROVE IdleOK'
  BY <1>4 DEF RxUnsubscribe, Receives
<1>5. ASSUME NEW p \in Peer, Establish(p) PROVE IdleOK'
  BY <1>5 DEF Establish, localVars
<1>6. ASSUME NEW p \in Peer, AddToTable(p) PROVE IdleOK'
  BY <1>6 DEF AddToTable, localVars
<1>7. ASSUME NEW p \in Peer, DistributeAdd(p) PROVE IdleOK'
  BY <1>7 DEF DistributeAdd, localVars
<1>8. ASSUME NEW p \in Peer, Install(p) PROVE IdleOK'
  BY <1>8 DEF Install, localVars
<1>9. ASSUME NEW p \in Peer, Register(p) PROVE IdleOK'
  BY <1>9 DEF Register, localVars
<1>10. ASSUME NEW p \in Peer, Snapshot(p) PROVE IdleOK'
  BY <1>10 DEF Snapshot, nodeVars
<1>11. ASSUME NEW p \in Peer, Replay(p) PROVE IdleOK'
  BY <1>11 DEF Replay
<1>12. ASSUME NEW p \in Peer, TakeShutdown(p) PROVE IdleOK'
  BY <1>12 DEF TakeShutdown, nodeVars
<1>13. ASSUME NEW p \in Peer, CleanVNI(p) PROVE IdleOK'
  BY <1>13 DEF CleanVNI, nodeVars
<1>14. ASSUME NEW p \in Peer, CleanSweep(p) PROVE IdleOK'
  BY <1>14 DEF CleanSweep
<1>15. ASSUME NEW t \in Thread, ResetChecks(t) PROVE IdleOK'
  BY <1>15 DEF ResetChecks, nodeVars, localVars
<1>16. ASSUME NEW t \in Thread, CloseChecks(t) PROVE IdleOK'
  BY <1>16 DEF CloseChecks, nodeVars, localVars
<1>17. ASSUME NEW t \in Thread, SetClosed(t) PROVE IdleOK'
  BY <1>17 DEF SetClosed, localVars
<1>18. ASSUME NEW t \in Thread, FindSubscriptions(t) PROVE IdleOK'
  BY <1>18 DEF FindSubscriptions, nodeVars
<1>19. ASSUME NEW t \in Thread, NextSubscription(t) PROVE IdleOK'
  BY <1>19 DEF NextSubscription, nodeVars
<1>20. ASSUME NEW t \in Thread, SendShutdown(t) PROVE IdleOK'
  BY <1>20 DEF SendShutdown, localVars
<1>21. ASSUME NEW t \in Thread, DelFromTable(t) PROVE IdleOK'
  BY <1>21 DEF DelFromTable, localVars
<1>22. ASSUME NEW t \in Thread, DistributeDel(t) PROVE IdleOK'
  BY <1>22 DEF DistributeDel, localVars
<1>23. ASSUME NEW t \in Thread, Uninstall(t) PROVE IdleOK'
  BY <1>23 DEF Uninstall, localVars
<1>24. ASSUME NEW t \in Thread, CheckSubscribed(t) PROVE IdleOK'
  BY <1>24 DEF CheckSubscribed, nodeVars, AfterUnsubscribe
<1>25. ASSUME NEW t \in Thread, Collect(t) PROVE IdleOK'
  <2>1. DisjointRoles(Owner(t)) => OfVNI(recv[Owner(t)], vni[t]) = {}
    BY <1>25 DEF Collect, RolesOK, Subscribes, SourceOK, Announces, DisjointRoles, OfVNI
  <2>. QED
    BY <1>25, <2>1 DEF Collect, nodeVars
<1>26. ASSUME NEW t \in Thread, Sweep(t) PROVE IdleOK'
  BY <1>26 DEF Sweep
<1>27. ASSUME NEW t \in Thread, Drop(t) PROVE IdleOK'
  BY <1>27 DEF Drop, AfterUnsubscribe
<1>28. CASE UNCHANGED vars
  BY <1>28 DEF vars, nodeVars, localVars
<1>. QED
  BY <1>1, <1>2, <1>3, <1>4, <1>5, <1>6, <1>7, <1>8, <1>9, <1>10, <1>11, <1>12, <1>13,
     <1>14, <1>15, <1>16, <1>17, <1>18, <1>19, <1>20, <1>21, <1>22, <1>23, <1>24, <1>25,
     <1>26, <1>27, <1>28
  DEF Next, Arrival, HandlerStep, RemovalStep, CloserStep

-----------------------------------------------------------------------------
(* receivedRoutes and the route table.                                     *)

\* The handler of p is at one of the given steps, for r.
At(p, r, labels) == pc[Handler(p)] \in labels /\ route[Handler(p)] = r

\* The table follows receivedRoutes, one step of the handler behind.
Follows(p) ==
    \A r \in Route :
        (<<r, p>> \in table) <=>
            /\ ~Shadowed(r)
            /\ IF r \in recv[p] THEN ~At(p, r, {"addTable"}) ELSE At(p, r, {"delTable"})

\* What the handler works on is recorded, or no longer recorded.
Recorded(p) ==
    LET h == Handler(p)
    IN  /\ pc[h] \in AddPC => route[h] \in recv[p]
        /\ pc[h] \in {"addDist", "addInstall"} => ~Shadowed(route[h])
        /\ pc[h] \in DelPC => route[h] \notin recv[p]

\* The handler is between collecting the routes it removes and the last of them.
Sweeping(p) ==
    LET h == Handler(p)
    IN  pc[h] \in {"sweep", "cleanSweep"} \/ (pc[h] \in DelPC /\ mode[h] # "rx")

\* Sweeps lose no route: whatever is still recorded for a peer that is cleaned up
\* is still to be removed.
Swept(p) ==
    LET h == Handler(p)
    IN  /\ Sweeping(p) => todo[h] \subseteq recv[p]
        /\ Sweeping(p) /\ mode[h] = "clean" =>
              \A r \in recv[p] : r \in todo[h] \/ r.vni \in vnis[h]
        /\ pc[h] = "clean" => \A r \in recv[p] : r.vni \in vnis[h]
        /\ pc[h] = "exited" => recv[p] = {}

RecordsOK == \A p \in Peer : Undisturbed(p) => Follows(p) /\ Recorded(p) /\ Swept(p)

\* While a peer is undisturbed, its closers neither remove nor sweep a route.
LEMMA ClosersAreQuiet ==
    ASSUME ConnOK, IdleOK, NEW p \in Peer, Undisturbed(p), NEW c \in Closer, Owner(c) = p
    PROVE  pc[c] \notin DelPC /\ (pc[c] = "sweep" => todo[c] = {})
BY DEF ConnOK, IdleOK, Undisturbed, RemovalPC, DelPC

\* A peer that is undisturbed has always been: closing is final.
LEMMA UndisturbedBefore ==
    TypeOK /\ ConnOK /\ [Next]_vars => \A p \in Peer : Undisturbed(p)' => Undisturbed(p)
<1>. SUFFICES ASSUME TypeOK, ConnOK, [Next]_vars
              PROVE  \A p \in Peer : conn'[p] # "CLOSED" => conn[p] # "CLOSED"
  BY DEF Undisturbed, DisjointRoles
<1>. DEFINE Final == \A p \in Peer : conn'[p] # "CLOSED" => conn[p] # "CLOSED"
<1>a. conn \in [Peer -> {"HELLO_SENT", "ESTABLISHED", "CLOSED"}]
  BY DEF TypeOK, DataTyped
<1>. USE ThreadFacts, <1>a
<1>1. ASSUME NEW x \in Peer, NEW s \in Route, RxAdd(x, s) PROVE Final
  BY <1>1 DEF RxAdd, Receives
<1>2. ASSUME NEW x \in Peer, NEW s \in Route, RxRemove(x, s) PROVE Final
  BY <1>2 DEF RxRemove, Receives
<1>3. ASSUME NEW x \in Peer, NEW v \in VNI, RxSubscribe(x, v) PROVE Final
  BY <1>3 DEF RxSubscribe, Receives
<1>4. ASSUME NEW x \in Peer, NEW v \in VNI, RxUnsubscribe(x, v) PROVE Final
  BY <1>4 DEF RxUnsubscribe, Receives
<1>5. ASSUME NEW x \in Peer, Establish(x) PROVE Final
  BY <1>5 DEF Establish, localVars
<1>6. ASSUME NEW x \in Peer, AddToTable(x) PROVE Final
  BY <1>6 DEF AddToTable, localVars
<1>7. ASSUME NEW x \in Peer, DistributeAdd(x) PROVE Final
  BY <1>7 DEF DistributeAdd, localVars
<1>8. ASSUME NEW x \in Peer, Install(x) PROVE Final
  BY <1>8 DEF Install, localVars
<1>9. ASSUME NEW x \in Peer, Register(x) PROVE Final
  BY <1>9 DEF Register, localVars
<1>10. ASSUME NEW x \in Peer, Snapshot(x) PROVE Final
  BY <1>10 DEF Snapshot, nodeVars
<1>11. ASSUME NEW x \in Peer, Replay(x) PROVE Final
  BY <1>11 DEF Replay
<1>12. ASSUME NEW x \in Peer, TakeShutdown(x) PROVE Final
  BY <1>12 DEF TakeShutdown, nodeVars
<1>13. ASSUME NEW x \in Peer, CleanVNI(x) PROVE Final
  BY <1>13 DEF CleanVNI, nodeVars
<1>14. ASSUME NEW x \in Peer, CleanSweep(x) PROVE Final
  BY <1>14 DEF CleanSweep
<1>15. ASSUME NEW t \in Thread, ResetChecks(t) PROVE Final
  BY <1>15 DEF ResetChecks, nodeVars, localVars
<1>16. ASSUME NEW t \in Thread, CloseChecks(t) PROVE Final
  BY <1>16 DEF CloseChecks, nodeVars, localVars
<1>17. ASSUME NEW t \in Thread, SetClosed(t) PROVE Final
  BY <1>17 DEF SetClosed, localVars
<1>18. ASSUME NEW t \in Thread, FindSubscriptions(t) PROVE Final
  BY <1>18 DEF FindSubscriptions, nodeVars
<1>19. ASSUME NEW t \in Thread, NextSubscription(t) PROVE Final
  BY <1>19 DEF NextSubscription, nodeVars
<1>20. ASSUME NEW t \in Thread, SendShutdown(t) PROVE Final
  BY <1>20 DEF SendShutdown, localVars
<1>21. ASSUME NEW t \in Thread, DelFromTable(t) PROVE Final
  BY <1>21 DEF DelFromTable, localVars
<1>22. ASSUME NEW t \in Thread, DistributeDel(t) PROVE Final
  BY <1>22 DEF DistributeDel, localVars
<1>23. ASSUME NEW t \in Thread, Uninstall(t) PROVE Final
  BY <1>23 DEF Uninstall, localVars
<1>24. ASSUME NEW t \in Thread, CheckSubscribed(t) PROVE Final
  BY <1>24 DEF CheckSubscribed, nodeVars, AfterUnsubscribe
<1>25. ASSUME NEW t \in Thread, Collect(t) PROVE Final
  BY <1>25 DEF Collect, nodeVars
<1>26. ASSUME NEW t \in Thread, Sweep(t) PROVE Final
  BY <1>26 DEF Sweep
<1>27. ASSUME NEW t \in Thread, Drop(t) PROVE Final
  BY <1>27 DEF Drop, AfterUnsubscribe
<1>28. CASE UNCHANGED vars
  BY <1>28 DEF vars, nodeVars, localVars
<1>. QED
  BY <1>1, <1>2, <1>3, <1>4, <1>5, <1>6, <1>7, <1>8, <1>9, <1>10, <1>11, <1>12, <1>13,
     <1>14, <1>15, <1>16, <1>17, <1>18, <1>19, <1>20, <1>21, <1>22, <1>23, <1>24, <1>25,
     <1>26, <1>27, <1>28
  DEF Next, Arrival, HandlerStep, RemovalStep, CloserStep

\* A step of another thread that leaves p's routes alone leaves p's records alone.
LEMMA RecordsFrame ==
    ASSUME NEW p \in Peer, Follows(p), Recorded(p), Swept(p), recv'[p] = recv[p],
           \A r \in Route : <<r, p>> \in table' <=> <<r, p>> \in table,
           NEW h, h = Handler(p), pc'[h] = pc[h], mode'[h] = mode[h], vnis'[h] = vnis[h],
           route'[h] = route[h], todo'[h] = todo[h]
    PROVE  Follows(p)' /\ Recorded(p)' /\ Swept(p)'
<1>1. Follows(p)'
  BY DEF Follows, Shadowed, At
<1>2. Recorded(p)'
  BY DEF Recorded, Shadowed
<1>3. Swept(p)'
  BY DEF Swept, Sweeping
<1>. QED
  BY <1>1, <1>2, <1>3

\* Only its handler changes what is recorded of an undisturbed peer, and it keeps
\* receivedRoutes and the table in step.
LEMMA StepKeepsRecords ==
    DistributionInv /\ IdleOK /\ RecordsOK /\ [Next]_vars => RecordsOK'
<1>. SUFFICES ASSUME DistributionInv, IdleOK, RecordsOK, [Next]_vars,
                     NEW p \in Peer, Undisturbed(p)'
              PROVE  Follows(p)' /\ Recorded(p)' /\ Swept(p)'
  BY DEF RecordsOK
<1>. DEFINE Kept == Follows(p)' /\ Recorded(p)' /\ Swept(p)'
<1>a. /\ recv \in [Peer -> SUBSET Route] /\ table \subseteq Route \X Peer
      /\ todo \in [Thread -> SUBSET Route] /\ mode \in [Thread -> Mode]
      /\ route \in [Thread -> Route] /\ vnis \in [Thread -> SUBSET VNI]
      /\ pc \in [Thread -> HandlerPC \cup CloserPC \cup RemovalPC]
  BY DEF DistributionInv, TypeOK, DataTyped, PhaseTyped
<1>b. Undisturbed(p) /\ TypeOK /\ PhaseOK /\ ConnOK
  BY UndisturbedBefore DEF DistributionInv
<1>c. Follows(p) /\ Recorded(p) /\ Swept(p)
  BY <1>b DEF RecordsOK
<1>d. Placed(Handler(p), pc[Handler(p)], mode[Handler(p)])
  BY <1>b, ThreadFacts DEF PhaseOK
<1>e. \A t \in Thread \ {Handler(p)} :
        Owner(t) = p => pc[t] \notin DelPC /\ (pc[t] = "sweep" => todo[t] = {})
  BY <1>b, ClosersAreQuiet, ThreadFacts
<1>. USE ThreadFacts, <1>a, <1>c DEF DelPC, AddPC, Goto
<1>1. ASSUME NEW x \in Peer, NEW s \in Route, RxAdd(x, s) PROVE Kept
  <2>1. CASE x # p
    BY <1>1, <2>1, RecordsFrame DEF RxAdd, Receives
  <2>2. CASE x = p
    BY <1>1, <2>2 DEF RxAdd, Receives, Follows, At, Recorded, Swept, Sweeping
  <2>. QED
    BY <2>1, <2>2
<1>2. ASSUME NEW x \in Peer, NEW s \in Route, RxRemove(x, s) PROVE Kept
  <2>1. CASE x # p
    BY <1>2, <2>1, RecordsFrame DEF RxRemove, Receives
  <2>2. CASE x = p
    BY <1>2, <2>2, <1>d DEF RxRemove, Receives, Placed, LeavePC, Mode, Follows, At,
       Recorded, Swept, Sweeping
  <2>. QED
    BY <2>1, <2>2
<1>3. ASSUME NEW x \in Peer, NEW v \in VNI, RxSubscribe(x, v) PROVE Kept
  <2>1. CASE x # p
    BY <1>3, <2>1, RecordsFrame DEF RxSubscribe, Receives
  <2>2. CASE x = p
    BY <1>3, <2>2 DEF RxSubscribe, Receives, Follows, At, Recorded, Swept, Sweeping
  <2>. QED
    BY <2>1, <2>2
<1>4. ASSUME NEW x \in Peer, NEW v \in VNI, RxUnsubscribe(x, v) PROVE Kept
  <2>1. CASE x # p
    BY <1>4, <2>1, RecordsFrame DEF RxUnsubscribe, Receives
  <2>2. CASE x = p
    BY <1>4, <2>2 DEF RxUnsubscribe, Receives, Follows, At, Recorded, Swept, Sweeping
  <2>. QED
    BY <2>1, <2>2
<1>5. ASSUME NEW x \in Peer, Establish(x) PROVE Kept
  <2>1. CASE x # p
    BY <1>5, <2>1, RecordsFrame DEF Establish, localVars
  <2>2. CASE x = p
    BY <1>5, <2>2 DEF Establish, localVars, Follows, At, Recorded, Swept, Sweeping
  <2>. QED
    BY <2>1, <2>2
<1>6. ASSUME NEW x \in Peer, AddToTable(x) PROVE Kept
  <2>1. CASE x # p
    BY <1>6, <2>1, RecordsFrame DEF AddToTable, localVars
  <2>2. CASE x = p
    BY <1>6, <2>2 DEF AddToTable, localVars, Follows, At, Recorded, Swept, Sweeping
  <2>. QED
    BY <2>1, <2>2
<1>7. ASSUME NEW x \in Peer, DistributeAdd(x) PROVE Kept
  <2>1. CASE x # p
    BY <1>7, <2>1, RecordsFrame DEF DistributeAdd, localVars
  <2>2. CASE x = p
    BY <1>7, <2>2 DEF DistributeAdd, localVars, Follows, At, Recorded, Swept, Sweeping
  <2>. QED
    BY <2>1, <2>2
<1>8. ASSUME NEW x \in Peer, Install(x) PROVE Kept
  <2>1. CASE x # p
    BY <1>8, <2>1, RecordsFrame DEF Install, localVars
  <2>2. CASE x = p
    BY <1>8, <2>2 DEF Install, localVars, Follows, At, Recorded, Swept, Sweeping
  <2>. QED
    BY <2>1, <2>2
<1>9. ASSUME NEW x \in Peer, Register(x) PROVE Kept
  <2>1. CASE x # p
    BY <1>9, <2>1, RecordsFrame DEF Register, localVars
  <2>2. CASE x = p
    BY <1>9, <2>2 DEF Register, localVars, Follows, At, Recorded, Swept, Sweeping
  <2>. QED
    BY <2>1, <2>2
<1>10. ASSUME NEW x \in Peer, Snapshot(x) PROVE Kept
  <2>1. CASE x # p
    BY <1>10, <2>1, RecordsFrame DEF Snapshot, nodeVars
  <2>2. CASE x = p
    BY <1>10, <2>2 DEF Snapshot, nodeVars, Follows, At, Recorded, Swept, Sweeping
  <2>. QED
    BY <2>1, <2>2
<1>11. ASSUME NEW x \in Peer, Replay(x) PROVE Kept
  <2>1. CASE x # p
    BY <1>11, <2>1, RecordsFrame DEF Replay
  <2>2. CASE x = p
    BY <1>11, <2>2 DEF Replay, Follows, At, Recorded, Swept, Sweeping
  <2>. QED
    BY <2>1, <2>2
<1>12. ASSUME NEW x \in Peer, TakeShutdown(x) PROVE Kept
  <2>1. CASE x # p
    BY <1>12, <2>1, RecordsFrame DEF TakeShutdown, nodeVars
  <2>2. CASE x = p
    BY <1>12, <2>2, <1>d DEF TakeShutdown, nodeVars, Placed, LeavePC, Mode, Follows, At,
       Recorded, Swept, Sweeping
  <2>. QED
    BY <2>1, <2>2
<1>13. ASSUME NEW x \in Peer, CleanVNI(x) PROVE Kept
  <2>1. CASE x # p
    BY <1>13, <2>1, RecordsFrame DEF CleanVNI, nodeVars
  <2>2. CASE x = p
    BY <1>13, <2>2 DEF CleanVNI, nodeVars, OfVNI, Follows, At, Recorded, Swept, Sweeping
  <2>. QED
    BY <2>1, <2>2
<1>14. ASSUME NEW x \in Peer, CleanSweep(x) PROVE Kept
  <2>1. CASE x # p
    BY <1>14, <2>1, RecordsFrame DEF CleanSweep
  <2>2. CASE x = p
    <3>. DEFINE h == Handler(p)
    <3>1. pc[h] = "cleanSweep" /\ mode[h] = "clean" /\ todo[h] \subseteq recv[p]
      BY <1>14, <2>2, <1>d DEF CleanSweep, Placed, Swept, Sweeping
    <3>2. UNCHANGED <<table, mode, vnis>>
      BY <1>14, <2>2 DEF CleanSweep
    <3>3. CASE todo[h] = {} /\ Goto(h, "clean") /\ UNCHANGED <<recv, route, todo>>
      BY <3>1, <3>2, <3>3 DEF Follows, At, Recorded, Swept, Sweeping
    <3>4. ASSUME NEW s \in todo[h] \cap recv[p],
                 recv' = [recv EXCEPT ![p] = @ \ {s}], route' = [route EXCEPT ![h] = s],
                 todo' = [todo EXCEPT ![h] = @ \ {s}], Goto(h, "delTable")
          PROVE  Kept
      <4>1. Follows(p)'
        BY <3>1, <3>2, <3>4 DEF Follows, At
      <4>2. Recorded(p)'
        BY <3>1, <3>4 DEF Recorded
      <4>3. Swept(p)'
        BY <3>1, <3>2, <3>4 DEF Swept, Sweeping
      <4>. QED
        BY <4>1, <4>2, <4>3
    <3>. QED
      BY <1>14, <2>2, <3>1, <3>3, <3>4 DEF CleanSweep
  <2>. QED
    BY <2>1, <2>2
<1>15. ASSUME NEW t \in Thread, ResetChecks(t) PROVE Kept
  <2>1. CASE t # Handler(p)
    BY <1>15, <2>1, RecordsFrame DEF ResetChecks, nodeVars, localVars
  <2>2. CASE t = Handler(p)
    BY <1>15, <2>2 DEF ResetChecks, nodeVars, localVars, Follows, At, Recorded, Swept,
       Sweeping
  <2>. QED
    BY <2>1, <2>2
<1>16. ASSUME NEW t \in Thread, CloseChecks(t) PROVE Kept
  <2>1. CASE t # Handler(p)
    BY <1>16, <2>1, RecordsFrame DEF CloseChecks, nodeVars, localVars
  <2>2. CASE t = Handler(p)
    BY <1>16, <2>2 DEF CloseChecks, nodeVars, localVars, Follows, At, Recorded, Swept,
       Sweeping
  <2>. QED
    BY <2>1, <2>2
<1>17. ASSUME NEW t \in Thread, SetClosed(t) PROVE Kept
  <2>1. CASE t # Handler(p)
    BY <1>17, <2>1, RecordsFrame DEF SetClosed, localVars
  <2>2. CASE t = Handler(p)
    BY <1>17, <2>2 DEF SetClosed, localVars, Follows, At, Recorded, Swept, Sweeping
  <2>. QED
    BY <2>1, <2>2
<1>18. ASSUME NEW t \in Thread, FindSubscriptions(t) PROVE Kept
  <2>1. CASE t # Handler(p)
    BY <1>18, <2>1, RecordsFrame DEF FindSubscriptions, nodeVars
  <2>2. CASE t = Handler(p)
    BY <1>18, <2>2 DEF FindSubscriptions, nodeVars, Follows, At, Recorded, Swept, Sweeping
  <2>. QED
    BY <2>1, <2>2
<1>19. ASSUME NEW t \in Thread, NextSubscription(t) PROVE Kept
  <2>1. CASE t # Handler(p)
    BY <1>19, <2>1, RecordsFrame DEF NextSubscription, nodeVars
  <2>2. CASE t = Handler(p)
    BY <1>19, <2>2 DEF NextSubscription, nodeVars, Follows, At, Recorded, Swept, Sweeping
  <2>. QED
    BY <2>1, <2>2
<1>20. ASSUME NEW t \in Thread, SendShutdown(t) PROVE Kept
  <2>1. CASE t # Handler(p)
    BY <1>20, <2>1, RecordsFrame DEF SendShutdown, localVars
  <2>2. CASE t = Handler(p)
    BY <1>20, <2>2 DEF SendShutdown, localVars, Follows, At, Recorded, Swept, Sweeping
  <2>. QED
    BY <2>1, <2>2
<1>21. ASSUME NEW t \in Thread, DelFromTable(t) PROVE Kept
  <2>1. CASE t # Handler(p)
    BY <1>21, <2>1, <1>e, RecordsFrame DEF DelFromTable, localVars, AfterRemoval
  <2>2. CASE t = Handler(p)
    BY <1>21, <2>2, <1>d DEF DelFromTable, localVars, AfterRemoval, Placed, LeavePC, Mode,
       Follows, At, Recorded, Swept, Sweeping
  <2>. QED
    BY <2>1, <2>2
<1>22. ASSUME NEW t \in Thread, DistributeDel(t) PROVE Kept
  <2>1. CASE t # Handler(p)
    BY <1>22, <2>1, <1>e, RecordsFrame DEF DistributeDel, localVars
  <2>2. CASE t = Handler(p)
    BY <1>22, <2>2 DEF DistributeDel, localVars, Follows, At, Recorded, Swept, Sweeping
  <2>. QED
    BY <2>1, <2>2
<1>23. ASSUME NEW t \in Thread, Uninstall(t) PROVE Kept
  <2>1. CASE t # Handler(p)
    BY <1>23, <2>1, <1>e, RecordsFrame DEF Uninstall, localVars, AfterRemoval
  <2>2. CASE t = Handler(p)
    BY <1>23, <2>2, <1>d DEF Uninstall, localVars, AfterRemoval, Placed, LeavePC, Mode,
       Follows, At, Recorded, Swept, Sweeping
  <2>. QED
    BY <2>1, <2>2
<1>24. ASSUME NEW t \in Thread, CheckSubscribed(t) PROVE Kept
  <2>1. CASE t # Handler(p)
    BY <1>24, <2>1, RecordsFrame DEF CheckSubscribed, nodeVars, AfterUnsubscribe
  <2>2. CASE t = Handler(p)
    BY <1>24, <2>2 DEF CheckSubscribed, nodeVars, AfterUnsubscribe, Follows, At, Recorded,
       Swept, Sweeping
  <2>. QED
    BY <2>1, <2>2
<1>25. ASSUME NEW t \in Thread, Collect(t) PROVE Kept
  <2>1. CASE t # Handler(p)
    BY <1>25, <2>1, RecordsFrame DEF Collect, nodeVars
  <2>2. CASE t = Handler(p)
    BY <1>25, <2>2, <1>d DEF Collect, nodeVars, Placed, LeavePC, Mode, OfVNI, Follows, At,
       Recorded, Swept, Sweeping
  <2>. QED
    BY <2>1, <2>2
<1>26. ASSUME NEW t \in Thread, Sweep(t) PROVE Kept
  <2>1. CASE t # Handler(p)
    BY <1>26, <2>1, <1>e, RecordsFrame DEF Sweep
  <2>2. CASE t = Handler(p)
    BY <1>26, <2>2 DEF Sweep, Follows, At, Recorded, Swept, Sweeping
  <2>. QED
    BY <2>1, <2>2
<1>27. ASSUME NEW t \in Thread, Drop(t) PROVE Kept
  <2>1. CASE t # Handler(p)
    BY <1>27, <2>1, RecordsFrame DEF Drop, AfterUnsubscribe
  <2>2. CASE t = Handler(p)
    BY <1>27, <2>2 DEF Drop, AfterUnsubscribe, Follows, At, Recorded, Swept, Sweeping
  <2>. QED
    BY <2>1, <2>2
<1>28. CASE UNCHANGED vars
  BY <1>28, RecordsFrame DEF vars, nodeVars, localVars
<1>. QED
  BY <1>1, <1>2, <1>3, <1>4, <1>5, <1>6, <1>7, <1>8, <1>9, <1>10, <1>11, <1>12, <1>13,
     <1>14, <1>15, <1>16, <1>17, <1>18, <1>19, <1>20, <1>21, <1>22, <1>23, <1>24, <1>25,
     <1>26, <1>27, <1>28
  DEF Next, Arrival, HandlerStep, RemovalStep, CloserStep

-----------------------------------------------------------------------------
(* What the records promise.                                               *)

\* The inductive invariant of this module.
RecordsInv == DistributionInv /\ RolesOK /\ IdleOK /\ RecordsOK

LEMMA InitRecords == Init => RecordsInv
<1>. SUFFICES ASSUME Init PROVE RolesOK /\ IdleOK /\ RecordsOK
  BY InitInv DEF RecordsInv
<1>1. RolesOK
  BY ThreadFacts DEF Init, RolesOK, Subscribes
<1>2. IdleOK
  BY ThreadFacts DEF Init, IdleOK, DelPC
<1>3. RecordsOK
  BY ThreadFacts DEF Init, RecordsOK, Follows, At, Recorded, Swept, Sweeping, AddPC, DelPC
<1>. QED
  BY <1>1, <1>2, <1>3

LEMMA StepKeepsRecordsInv == RecordsInv /\ [Next]_vars => RecordsInv'
  BY StepKeepsInv, StepKeepsRoles, StepKeepsIdle, StepKeepsRecords
  DEF RecordsInv, DistributionInv

LEMMA RecordsInvariant == Spec => []RecordsInv
  BY InitRecords, StepKeepsRecordsInv, PTL DEF Spec

\* The table has exactly the routes a settled peer has announced and not withdrawn,
\* but for those the node announces itself, whatever its closers have done
\* (metalbond.go 323-379 and 427-464, peer.go 246-262).
THEOREM TableFollowsPeer == Spec => []RecordsAgree
<1>1. RecordsInv => RecordsAgree
  <2>. SUFFICES ASSUME RecordsInv, NEW p \in Peer, NEW r \in Route, Settled(p)
                PROVE  (<<r, p>> \in table) <=> (r \in recv[p] /\ ~Shadowed(r))
    BY DEF RecordsAgree
  <2>1. Follows(p)
    BY DEF RecordsInv, RecordsOK, Settled
  <2>. QED
    BY <2>1 DEF Settled, Follows, At
<1>. QED
  BY <1>1, RecordsInvariant, PTL

\* When the goroutines of a peer that does not announce where it subscribes have
\* come to their end, no route of it is left, however closers and cleanup
\* interleaved (peer.go 188-213 and 246-262).
THEOREM TheDeadLeaveNothing == Spec => []DeadLeavesNoRoutes
<1>1. RecordsInv => DeadLeavesNoRoutes
  <2>. SUFFICES ASSUME RecordsInv, NEW p \in Peer, DisjointRoles(p), Stopped(p),
                       NEW r \in Route
                PROVE  <<r, p>> \notin table
    BY DEF DeadLeavesNoRoutes
  <2>1. Follows(p) /\ Swept(p)
    BY DEF RecordsInv, RecordsOK, Undisturbed
  <2>. QED
    BY <2>1 DEF Stopped, Follows, Swept, At
<1>. QED
  BY <1>1, RecordsInvariant, PTL

\* A route is sent only from the table: the handler that distributes a route of an
\* undisturbed peer still has it there.
LEMMA SendsFromTable == RecordsInv /\ [Next]_vars => SentStep
<1>. SUFFICES ASSUME RecordsInv, [Next]_vars, NEW q \in Peer,
                     NEW r \in Underway(q)' \ Underway(q), r \notin Announced
              PROVE  Known(r)
  BY DEF SentStep
<1>a. /\ told \in [Peer -> SUBSET Route] /\ todo \in [Thread -> SUBSET Route]
      /\ route \in [Thread -> Route] /\ mode \in [Thread -> Mode]
      /\ pc \in [Thread -> HandlerPC \cup CloserPC \cup RemovalPC]
      /\ conn \in [Peer -> {"HELLO_SENT", "ESTABLISHED", "CLOSED"}]
  BY DEF RecordsInv, DistributionInv, TypeOK, DataTyped, PhaseTyped
<1>b. \A t \in Thread : AfterRemoval(t) # "replay"
  BY <1>a DEF AfterRemoval, Mode
<1>. USE ThreadFacts, <1>a DEF Underway, Goto
<1>1. ASSUME NEW x \in Peer, NEW s \in Route, RxAdd(x, s) PROVE Known(r)
  BY <1>1 DEF RxAdd, Receives
<1>2. ASSUME NEW x \in Peer, NEW s \in Route, RxRemove(x, s) PROVE Known(r)
  BY <1>2 DEF RxRemove, Receives
<1>3. ASSUME NEW x \in Peer, NEW v \in VNI, RxSubscribe(x, v) PROVE Known(r)
  BY <1>3 DEF RxSubscribe, Receives
<1>4. ASSUME NEW x \in Peer, NEW v \in VNI, RxUnsubscribe(x, v) PROVE Known(r)
  BY <1>4 DEF RxUnsubscribe, Receives, OfVNI
<1>5. ASSUME NEW x \in Peer, Establish(x) PROVE Known(r)
  BY <1>5 DEF Establish, localVars
<1>6. ASSUME NEW x \in Peer, AddToTable(x) PROVE Known(r)
  BY <1>6 DEF AddToTable, localVars
<1>7. ASSUME NEW x \in Peer, DistributeAdd(x) PROVE Known(r)
  <2>1. r = route[Handler(x)] /\ pc[Handler(x)] = "addDist"
    BY <1>7 DEF DistributeAdd, localVars, distributeRouteToPeers, Sent
  <2>2. ASSUME Undisturbed(x) PROVE <<r, x>> \in table
    <3>1. Follows(x) /\ Recorded(x)
      BY <2>2 DEF RecordsInv, RecordsOK
    <3>. QED
      BY <2>1, <3>1 DEF Follows, Recorded, At, AddPC
  <2>. QED
    BY <2>1, <2>2 DEF Known, Announcing
<1>8. ASSUME NEW x \in Peer, Install(x) PROVE Known(r)
  BY <1>8 DEF Install, localVars
<1>9. ASSUME NEW x \in Peer, Register(x) PROVE Known(r)
  BY <1>9 DEF Register, localVars
<1>10. ASSUME NEW x \in Peer, Snapshot(x) PROVE Known(r)
  BY <1>10 DEF Snapshot, nodeVars, ReplayTo, OfVNI, Known
<1>11. ASSUME NEW x \in Peer, Replay(x) PROVE Known(r)
  BY <1>11 DEF Replay, Sent
<1>12. ASSUME NEW x \in Peer, TakeShutdown(x) PROVE Known(r)
  BY <1>12 DEF TakeShutdown, nodeVars
<1>13. ASSUME NEW x \in Peer, CleanVNI(x) PROVE Known(r)
  BY <1>13 DEF CleanVNI, nodeVars
<1>14. ASSUME NEW x \in Peer, CleanSweep(x) PROVE Known(r)
  BY <1>14 DEF CleanSweep
<1>15. ASSUME NEW t \in Thread, ResetChecks(t) PROVE Known(r)
  BY <1>15 DEF ResetChecks, nodeVars, localVars
<1>16. ASSUME NEW t \in Thread, CloseChecks(t) PROVE Known(r)
  BY <1>16 DEF CloseChecks, nodeVars, localVars
<1>17. ASSUME NEW t \in Thread, SetClosed(t) PROVE Known(r)
  BY <1>17 DEF SetClosed, localVars
<1>18. ASSUME NEW t \in Thread, FindSubscriptions(t) PROVE Known(r)
  BY <1>18 DEF FindSubscriptions, nodeVars
<1>19. ASSUME NEW t \in Thread, NextSubscription(t) PROVE Known(r)
  BY <1>19 DEF NextSubscription, nodeVars
<1>20. ASSUME NEW t \in Thread, SendShutdown(t) PROVE Known(r)
  BY <1>20 DEF SendShutdown, localVars
<1>21. ASSUME NEW t \in Thread, DelFromTable(t) PROVE Known(r)
  BY <1>21, <1>b DEF DelFromTable, localVars
<1>22. ASSUME NEW t \in Thread, DistributeDel(t) PROVE Known(r)
  BY <1>22 DEF DistributeDel, localVars, distributeRouteToPeers, Sent
<1>23. ASSUME NEW t \in Thread, Uninstall(t) PROVE Known(r)
  BY <1>23, <1>b DEF Uninstall, localVars
<1>24. ASSUME NEW t \in Thread, CheckSubscribed(t) PROVE Known(r)
  BY <1>24 DEF CheckSubscribed, nodeVars, AfterUnsubscribe
<1>25. ASSUME NEW t \in Thread, Collect(t) PROVE Known(r)
  BY <1>25 DEF Collect, nodeVars
<1>26. ASSUME NEW t \in Thread, Sweep(t) PROVE Known(r)
  BY <1>26 DEF Sweep
<1>27. ASSUME NEW t \in Thread, Drop(t) PROVE Known(r)
  BY <1>27 DEF Drop, AfterUnsubscribe
<1>28. CASE UNCHANGED vars
  BY <1>28 DEF vars, nodeVars, localVars
<1>. QED
  BY <1>1, <1>2, <1>3, <1>4, <1>5, <1>6, <1>7, <1>8, <1>9, <1>10, <1>11, <1>12, <1>13,
     <1>14, <1>15, <1>16, <1>17, <1>18, <1>19, <1>20, <1>21, <1>22, <1>23, <1>24, <1>25,
     <1>26, <1>27, <1>28
  DEF Next, Arrival, HandlerStep, RemovalStep, CloserStep

\* A peer is sent only routes that are in the table then, or that the server
\* announces itself; a route that is distributed while it is being withdrawn is one
\* of a closed peer (metalbond.go 334-345 and 403-420).
THEOREM NothingElseIsSent == Spec => SentFromTable
<1>1. RecordsInv /\ [Next]_vars => [SentStep]_vars
  BY SendsFromTable
<1>. QED
  BY <1>1, RecordsInvariant, PTL DEF Spec, SentFromTable

-----------------------------------------------------------------------------
(* The Client.                                                             *)

\* Who installs or uninstalls a route of an undisturbed peer is its own handler,
\* which has changed the table before.
LEMMA StepKeepsInstalled ==
    RecordsInv /\ InstalledFollowsTable /\ [Next]_vars => InstalledFollowsTable'
<1>. SUFFICES ASSUME RecordsInv, InstalledFollowsTable, [Next]_vars,
                     NEW p \in Peer, NEW r \in Route,
                     SoleAnnouncer(p, r), Undisturbed(p)', ~(Settling(p, r)')
              PROVE  r \in installed' <=> <<r, p>> \in table'
  BY DEF InstalledFollowsTable, SoleAnnouncer
<1>. DEFINE Same == r \in installed' <=> <<r, p>> \in table'
<1>a. /\ installed \subseteq Route /\ table \subseteq Route \X Peer
      /\ route \in [Thread -> Route] /\ mode \in [Thread -> Mode]
      /\ pc \in [Thread -> HandlerPC \cup CloserPC \cup RemovalPC]
  BY DEF RecordsInv, DistributionInv, TypeOK, DataTyped, PhaseTyped
<1>b. Undisturbed(p) /\ ConnOK /\ IdleOK /\ SourceOK
  BY UndisturbedBefore DEF RecordsInv, DistributionInv
<1>c. Follows(p) /\ Recorded(p)
  BY <1>b DEF RecordsInv, RecordsOK
<1>d. ~Settling(p, r) => (r \in installed <=> <<r, p>> \in table)
  BY <1>b DEF InstalledFollowsTable
<1>e. \A x \in Peer : r \in Announces(x) => x = p
  BY DEF SoleAnnouncer, Announces
<1>f. \A t \in Thread : Owner(t) = p /\ pc[t] \in DelPC => t = Handler(p)
  BY <1>b, ClosersAreQuiet, ThreadFacts
<1>. USE ThreadFacts, <1>a, <1>d DEF Settling, Goto
<1>1. ASSUME NEW x \in Peer, NEW s \in Route, RxAdd(x, s) PROVE Same
  BY <1>1 DEF RxAdd, Receives
<1>2. ASSUME NEW x \in Peer, NEW s \in Route, RxRemove(x, s) PROVE Same
  BY <1>2 DEF RxRemove, Receives
<1>3. ASSUME NEW x \in Peer, NEW v \in VNI, RxSubscribe(x, v) PROVE Same
  BY <1>3 DEF RxSubscribe, Receives
<1>4. ASSUME NEW x \in Peer, NEW v \in VNI, RxUnsubscribe(x, v) PROVE Same
  BY <1>4 DEF RxUnsubscribe, Receives
<1>5. ASSUME NEW x \in Peer, Establish(x) PROVE Same
  BY <1>5 DEF Establish, localVars
<1>6. ASSUME NEW x \in Peer, AddToTable(x) PROVE Same
  BY <1>6 DEF AddToTable, localVars
<1>7. ASSUME NEW x \in Peer, DistributeAdd(x) PROVE Same
  BY <1>7 DEF DistributeAdd, localVars
<1>8. ASSUME NEW x \in Peer, Install(x) PROVE Same
  <2>1. CASE route[Handler(x)] = r
    <3>1. x = p
      BY <1>8, <2>1, <1>b, <1>e DEF Install, SourceOK, AddPC
    <3>2. <<r, p>> \in table
      BY <1>8, <2>1, <3>1, <1>c DEF Install, Follows, Recorded, At, AddPC
    <3>. QED
      BY <1>8, <2>1, <3>2 DEF Install
  <2>2. CASE route[Handler(x)] # r
    BY <1>8, <2>2 DEF Install, localVars
  <2>. QED
    BY <2>1, <2>2
<1>9. ASSUME NEW x \in Peer, Register(x) PROVE Same
  BY <1>9 DEF Register, localVars
<1>10. ASSUME NEW x \in Peer, Snapshot(x) PROVE Same
  BY <1>10 DEF Snapshot, nodeVars
<1>11. ASSUME NEW x \in Peer, Replay(x) PROVE Same
  BY <1>11 DEF Replay
<1>12. ASSUME NEW x \in Peer, TakeShutdown(x) PROVE Same
  BY <1>12 DEF TakeShutdown, nodeVars
<1>13. ASSUME NEW x \in Peer, CleanVNI(x) PROVE Same
  BY <1>13 DEF CleanVNI, nodeVars
<1>14. ASSUME NEW x \in Peer, CleanSweep(x) PROVE Same
  BY <1>14 DEF CleanSweep
<1>15. ASSUME NEW t \in Thread, ResetChecks(t) PROVE Same
  BY <1>15 DEF ResetChecks, nodeVars, localVars
<1>16. ASSUME NEW t \in Thread, CloseChecks(t) PROVE Same
  BY <1>16 DEF CloseChecks, nodeVars, localVars
<1>17. ASSUME NEW t \in Thread, SetClosed(t) PROVE Same
  BY <1>17 DEF SetClosed, localVars
<1>18. ASSUME NEW t \in Thread, FindSubscriptions(t) PROVE Same
  BY <1>18 DEF FindSubscriptions, nodeVars
<1>19. ASSUME NEW t \in Thread, NextSubscription(t) PROVE Same
  BY <1>19 DEF NextSubscription, nodeVars
<1>20. ASSUME NEW t \in Thread, SendShutdown(t) PROVE Same
  BY <1>20 DEF SendShutdown, localVars
<1>21. ASSUME NEW t \in Thread, DelFromTable(t) PROVE Same
  <2>1. CASE route[t] = r /\ Owner(t) = p
    <3>1. t = Handler(p)
      BY <1>21, <2>1, <1>f DEF DelFromTable, DelPC
    <3>. QED
      BY <1>21, <2>1, <3>1 DEF DelFromTable, localVars
  <2>2. CASE ~(route[t] = r /\ Owner(t) = p)
    <3>1. <<r, p>> \in table' <=> <<r, p>> \in table
      BY <1>21, <2>2 DEF DelFromTable
    <3>2. ~Settling(p, r)
      BY <1>21 DEF DelFromTable, localVars
    <3>. QED
      BY <1>21, <3>1, <3>2 DEF DelFromTable
  <2>. QED
    BY <2>1, <2>2
<1>22. ASSUME NEW t \in Thread, DistributeDel(t) PROVE Same
  BY <1>22 DEF DistributeDel, localVars
<1>23. ASSUME NEW t \in Thread, Uninstall(t) PROVE Same
  <2>1. CASE route[t] = r
    <3>1. t = Handler(p)
      BY <1>23, <2>1, <1>b, <1>e, <1>f DEF Uninstall, SourceOK, DelPC
    <3>2. <<r, p>> \notin table
      BY <1>23, <2>1, <3>1, <1>c DEF Uninstall, Follows, Recorded, At, DelPC
    <3>. QED
      BY <1>23, <2>1, <3>2 DEF Uninstall
  <2>2. CASE route[t] # r
    BY <1>23, <2>2 DEF Uninstall, localVars
  <2>. QED
    BY <2>1, <2>2
<1>24. ASSUME NEW t \in Thread, CheckSubscribed(t) PROVE Same
  BY <1>24 DEF CheckSubscribed, nodeVars, AfterUnsubscribe
<1>25. ASSUME NEW t \in Thread, Collect(t) PROVE Same
  BY <1>25 DEF Collect, nodeVars
<1>26. ASSUME NEW t \in Thread, Sweep(t) PROVE Same
  BY <1>26 DEF Sweep
<1>27. ASSUME NEW t \in Thread, Drop(t) PROVE Same
  BY <1>27 DEF Drop, AfterUnsubscribe
<1>28. CASE UNCHANGED vars
  BY <1>28 DEF vars, nodeVars, localVars
<1>. QED
  BY <1>1, <1>2, <1>3, <1>4, <1>5, <1>6, <1>7, <1>8, <1>9, <1>10, <1>11, <1>12, <1>13,
     <1>14, <1>15, <1>16, <1>17, <1>18, <1>19, <1>20, <1>21, <1>22, <1>23, <1>24, <1>25,
     <1>26, <1>27, <1>28
  DEF Next, Arrival, HandlerStep, RemovalStep, CloserStep

\* The Client has installed exactly the routes of a peer that the table has, once
\* the handler has made its call, for routes of one announcer (metalbond.go 334-353
\* and 358-379).
THEOREM ClientFollowsTable == Spec => []InstalledFollowsTable
<1>1. Init => InstalledFollowsTable
  BY DEF Init, InstalledFollowsTable
<1>. QED
  BY <1>1, RecordsInvariant, StepKeepsInstalled, PTL DEF Spec
=============================================================================
