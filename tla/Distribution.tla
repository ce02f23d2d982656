---------------------------- MODULE Distribution ----------------------------
(***************************************************************************)
(* Route distribution on a MetalBond server: the node receives SUBSCRIBE,  *)
(* UNSUBSCRIBE and UPDATE messages from its peers, keeps the routes in its *)
(* route table, forwards the changes to the subscribers of the VNI and     *)
(* hands them to its Client (metalbond.go 218-464 with the handlers of     *)
(* peer.go that call it).                                                  *)
(*                                                                         *)
(* Every peer object has one handler goroutine, handle(), which processes  *)
(* one message at a time.  A peer is closed by other goroutines: a Reset   *)
(* started by the receive loop, the transmit loop or the keepalive timer,  *)
(* or Shutdown.  These are the threads of this module.  The code takes one *)
(* lock per table access, never one around a whole handler, so each lock   *)
(* section is one action and a handler is a sequence of them.              *)
(*                                                                         *)
(* Abstractions.                                                           *)
(*  - Tables are the relations of RouteRelation: `table' is m.routeTable,  *)
(*    recv[p] is p.receivedRoutes, whose only source is p itself.          *)
(*  - A remote peer is arbitrary: any message with Quota left may be the   *)
(*    next one its handler takes.  handle() reads five channels with a     *)
(*    random select, so messages of different kinds overtake each other    *)
(*    anyway.  Messages come after the connection is established, because  *)
(*    a client sends them only once it has seen the server's KEEPALIVE.    *)
(*  - Traffic to a peer is what it adds up to: told[q] holds the routes    *)
(*    whose last UPDATE sent to q was an ADD, since q last unsubscribed    *)
(*    from the VNI (q forgets the VNI's routes then, peer.go 124-131).     *)
(*  - distributeRouteToPeers sends to all subscribers in one action: it    *)
(*    holds the read lock of m.subscribers, and no property compares the   *)
(*    order of messages to different peers.                                *)
(*  - The server's own announcements are fixed before its peers connect    *)
(*    and it subscribes to nothing, so the call of m.Unsubscribe in        *)
(*    cleanup always fails (metalbond.go 148-150).  peer.isServer is FALSE *)
(*    for every peer: deserializeHelloMsg drops the flag (types.go 262).   *)
(***************************************************************************)
EXTENDS Naturals

CONSTANTS VNI, Destination, NextHop,
          Route,       \* the routes that are announced: records [vni, dest, hop]
          TypeOf,      \* the type of each next hop
          Announced,   \* the routes the server itself announces
          Peer,        \* the peer objects of incoming connections
          Closer,      \* the goroutines that may close a peer: pairs <<peer, name>>
          Quota        \* how many messages of each kind each peer sends

HopType == {"STANDARD", "NAT", "LOADBALANCER_TARGET"}

ASSUME RouteAssumption ==
    /\ Route # {} /\ VNI # {}
    /\ Route \subseteq [vni : VNI, dest : Destination, hop : NextHop]
    /\ Announced \subseteq Route
    /\ TypeOf \in [NextHop -> HopType]

ASSUME ThreadAssumption ==
    \A c \in Closer : c = <<c[1], c[2]>> /\ c[1] \in Peer /\ c[2] # "handle"

QuotaType == [add : [Route -> Nat], remove : [Route -> Nat],
              subscribe : [VNI -> Nat], unsubscribe : [VNI -> Nat]]

ASSUME QuotaAssumption == Quota \in [Peer -> QuotaType]

Handler(p) == <<p, "handle">>
Thread == {Handler(p) : p \in Peer} \cup Closer
Owner(t) == t[1]

VARIABLES conn,         \* p.state, as far as distribution depends on it
          table,        \* m.routeTable: pairs <<route, peer>>
          recv,         \* p.receivedRoutes
          subscribers,  \* m.subscribers
          leaked,       \* m.mtxSubscribers was left locked
          told,         \* what the messages to each peer add up to
          installed,    \* the routes handed to the Client and not taken back
          token,        \* p.shutdown holds a message
          quota         \* what is left of Quota

VARIABLES pc,           \* the next lock section of each thread
          mode,         \* what the thread removes routes for
          vni,          \* the VNI the thread works on
          vnis,         \* the VNIs it still has to do
          route,        \* the route it works on
          todo          \* the routes it still has to do

nodeVars == <<conn, table, recv, subscribers, leaked, told, installed, token, quota>>
localVars == <<mode, vni, vnis, route, todo>>
vars == <<nodeVars, pc, localVars>>

HandlerPC == {"idle", "addTable", "addDist", "addInstall", "register", "snapshot",
              "replay", "clean", "cleanSweep", "exited"}
CloserPC == {"ready", "close", "set", "lost", "next", "token", "done"}
RemovalPC == {"check", "collect", "sweep", "delTable", "delDist", "delInstall", "drop"}
Mode == {"rx", "unsub", "lost", "clean"}

-----------------------------------------------------------------------------

\* Values of locals that are not in use.
AnyVNI == CHOOSE v \in VNI : TRUE
AnyRoute == CHOOSE r \in Route : TRUE

\* Peers whose connection is accepted and has sent its HELLO.
Init ==
    /\ conn = [p \in Peer |-> "HELLO_SENT"]
    /\ table = {}
    /\ recv = [p \in Peer |-> {}]
    /\ subscribers = [v \in VNI |-> {}]
    /\ leaked = FALSE
    /\ told = [p \in Peer |-> {}]
    /\ installed = {}
    /\ token = [p \in Peer |-> FALSE]
    /\ quota = Quota
    /\ pc = [t \in Thread |-> IF t \in Closer THEN "ready" ELSE "idle"]
    /\ mode = [t \in Thread |-> IF t \in Closer THEN "lost" ELSE "rx"]
    /\ vni = [t \in Thread |-> AnyVNI]
    /\ vnis = [t \in Thread |-> {}]
    /\ route = [t \in Thread |-> AnyRoute]
    /\ todo = [t \in Thread |-> {}]

Goto(t, label) == pc' = [pc EXCEPT ![t] = label]

OfVNI(routes, v) == {r \in routes : r.vni = v}

\* SendUpdate to each peer of Q that is ESTABLISHED; failures are only logged.
Sent(Q, r, action) ==
    [q \in Peer |->
        IF q \in Q /\ conn[q] = "ESTABLISHED"
          THEN IF action = "ADD" THEN told[q] \cup {r} ELSE told[q] \ {r}
          ELSE told[q]]

\* The subscribers of the VNI without the peer the route came from.
distributeRouteToPeers(action, r, fromPeer) ==
    /\ ~leaked
    /\ told' = Sent(subscribers[r.vni] \ {fromPeer}, r, action)

-----------------------------------------------------------------------------
(* The handler goroutine: setState(ESTABLISHED) on the first KEEPALIVE,    *)
(* which sends the node's own announcements.                               *)

Establish(p) ==
    /\ pc[Handler(p)] = "idle"
    /\ conn[p] = "HELLO_SENT"
    /\ conn' = [conn EXCEPT ![p] = "ESTABLISHED"]
    /\ told' = [told EXCEPT ![p] = Announced]
    /\ UNCHANGED <<table, recv, subscribers, leaked, installed, token, quota, pc, localVars>>

\* The handler takes the next message.
Receives(p) ==
    /\ pc[Handler(p)] = "idle"
    /\ conn[p] # "HELLO_SENT"

-----------------------------------------------------------------------------
(* UPDATE ADD: processRxUpdate and addReceivedRoute.                       *)

RxAdd(p, r) ==
    /\ Receives(p)
    /\ quota[p].add[r] > 0
    /\ quota' = [quota EXCEPT ![p].add[r] = @ - 1]
    /\ \/ /\ r \in recv[p]                    \* logged, the message is dropped
          /\ UNCHANGED <<recv, pc, route>>
       \/ /\ r \notin recv[p]
          /\ recv' = [recv EXCEPT ![p] = @ \cup {r}]
          /\ route' = [route EXCEPT ![Handler(p)] = r]
          /\ Goto(Handler(p), "addTable")
    /\ UNCHANGED <<conn, table, subscribers, leaked, told, installed, token,
                   mode, vni, vnis, todo>>

\* The server announces a route to the same destination itself.
Shadowed(r) ==
    /\ TypeOf[r.hop] = "STANDARD"
    /\ \E a \in Announced : a.vni = r.vni /\ a.dest = r.dest

AddToTable(p) ==
    LET t == Handler(p)
        r == route[t]
    IN  /\ pc[t] = "addTable"
        /\ IF Shadowed(r) \/ <<r, p>> \in table
             THEN Goto(t, "idle") /\ UNCHANGED table
             ELSE Goto(t, "addDist") /\ table' = table \cup {<<r, p>>}
        /\ UNCHANGED <<conn, recv, subscribers, leaked, told, installed, token, quota, localVars>>

DistributeAdd(p) ==
    LET t == Handler(p)
    IN  /\ pc[t] = "addDist"
        /\ distributeRouteToPeers("ADD", route[t], p)
        /\ Goto(t, "addInstall")
        /\ UNCHANGED <<conn, table, recv, subscribers, leaked, installed, token, quota, localVars>>

Install(p) ==
    LET t == Handler(p)
    IN  /\ pc[t] = "addInstall"
        /\ installed' = installed \cup {route[t]}
        /\ Goto(t, "idle")
        /\ UNCHANGED <<conn, table, recv, subscribers, leaked, told, token, quota, localVars>>

-----------------------------------------------------------------------------
(* SUBSCRIBE: processRxSubscribe and addSubscriber.                        *)

RxSubscribe(p, v) ==
    /\ Receives(p)
    /\ quota[p].subscribe[v] > 0
    /\ quota' = [quota EXCEPT ![p].subscribe[v] = @ - 1]
    /\ vni' = [vni EXCEPT ![Handler(p)] = v]
    /\ Goto(Handler(p), "register")
    /\ UNCHANGED <<conn, table, recv, subscribers, leaked, told, installed, token,
                   mode, vnis, route, todo>>

\* Mutants of Register: the snapshot is taken for granted; the lock is never released.
RegisterWithoutReplay(p) ==
    LET t == Handler(p)
        v == vni[t]
    IN  /\ pc[t] = "register"
        /\ ~leaked
        /\ leaked' = (p \in subscribers[v])
        /\ subscribers' = [subscribers EXCEPT ![v] = @ \cup {p}]
        /\ Goto(t, "idle")
        /\ UNCHANGED <<conn, table, recv, told, installed, token, quota, localVars>>

RegisterAndKeepLock(p) ==
    LET t == Handler(p)
        v == vni[t]
    IN  /\ pc[t] = "register"
        /\ ~leaked
        /\ leaked' = TRUE
        /\ subscribers' = [subscribers EXCEPT ![v] = @ \cup {p}]
        /\ Goto(t, IF p \in subscribers[v] THEN "idle" ELSE "snapshot")
        /\ UNCHANGED <<conn, table, recv, told, installed, token, quota, localVars>>

\* A peer that is subscribed already makes addSubscriber return without
\* releasing m.mtxSubscribers.
Register(p) ==
    LET t == Handler(p)
        v == vni[t]
    IN  /\ pc[t] = "register"
        /\ ~leaked
        /\ IF p \in subscribers[v]
             THEN leaked' = TRUE /\ Goto(t, "idle") /\ UNCHANGED subscribers
             ELSE /\ subscribers' = [subscribers EXCEPT ![v] = @ \cup {p}]
                  /\ Goto(t, "snapshot")
                  /\ UNCHANGED leaked
        /\ UNCHANGED <<conn, table, recv, told, installed, token, quota, localVars>>

\* Mutant of ReplayTo: every route is sent.
ReplayAll(p, v) == {r \in OfVNI(Route, v) : \E q \in Peer : <<r, q>> \in table}

\* Mutant of ReplayTo: routes that nobody announces are sent.
ReplayAny(p, v) == OfVNI(Route, v)

\* The routes a new subscriber is sent: all but the NAT routes only it announces.
ReplayTo(p, v) ==
    {r \in OfVNI(Route, v) :
        \E q \in Peer : <<r, q>> \in table /\ ~(q = p /\ TypeOf[r.hop] = "NAT")}

Snapshot(p) ==
    LET t == Handler(p)
    IN  /\ pc[t] = "snapshot"
        /\ todo' = [todo EXCEPT ![t] = ReplayTo(p, vni[t])]
        /\ Goto(t, "replay")
        /\ UNCHANGED <<nodeVars, mode, vni, vnis, route>>

\* A send fails only when the peer is CLOSED, and then Reset returns at once.  It finds
\* room in txChan here: what happens when there is none is in Backpressure.
Replay(p) ==
    LET t == Handler(p)
    IN  /\ pc[t] = "replay"
        /\ \/ /\ todo[t] = {}
              /\ Goto(t, "idle")
              /\ UNCHANGED <<told, todo>>
           \/ \E r \in todo[t] :
                 /\ told' = Sent({p}, r, "ADD")
                 /\ todo' = [todo EXCEPT ![t] = @ \ {r}]
                 /\ UNCHANGED pc
        /\ UNCHANGED <<conn, table, recv, subscribers, leaked, installed, token, quota,
                       mode, vni, vnis, route>>

-----------------------------------------------------------------------------
(* UPDATE REMOVE, and UNSUBSCRIBE up to removeSubscriber.                  *)

RxRemove(p, r) ==
    /\ Receives(p)
    /\ quota[p].remove[r] > 0
    /\ quota' = [quota EXCEPT ![p].remove[r] = @ - 1]
    /\ \/ /\ r \notin recv[p]                 \* logged, the message is dropped
          /\ UNCHANGED <<recv, pc, route>>
       \/ /\ r \in recv[p]
          /\ recv' = [recv EXCEPT ![p] = @ \ {r}]
          /\ route' = [route EXCEPT ![Handler(p)] = r]
          /\ Goto(Handler(p), "delTable")
    /\ UNCHANGED <<conn, table, subscribers, leaked, told, installed, token,
                   mode, vni, vnis, todo>>

RxUnsubscribe(p, v) ==
    /\ Receives(p)
    /\ quota[p].unsubscribe[v] > 0
    /\ quota' = [quota EXCEPT ![p].unsubscribe[v] = @ - 1]
    /\ told' = [told EXCEPT ![p] = @ \ OfVNI(Route, v)]
    /\ vni' = [vni EXCEPT ![Handler(p)] = v]
    /\ mode' = [mode EXCEPT ![Handler(p)] = "unsub"]
    /\ Goto(Handler(p), "check")
    /\ UNCHANGED <<conn, table, recv, subscribers, leaked, installed, token, vnis, route, todo>>

-----------------------------------------------------------------------------
(* removeReceivedRoute(route[t]), by any thread of the peer.               *)

\* Where the thread goes on when removeReceivedRoute returns.
AfterRemoval(t) ==
    CASE mode[t] = "rx" -> "idle"
      [] mode[t] \in {"unsub", "lost"} -> "sweep"
      [] mode[t] = "clean" -> "cleanSweep"

DelFromTable(t) ==
    LET r == route[t]
        p == Owner(t)
    IN  /\ pc[t] = "delTable"
        /\ table' = table \ {<<r, p>>}
        /\ \/ <<r, p>> \notin table /\ Goto(t, AfterRemoval(t))
           \/ /\ <<r, p>> \in table
              /\ Goto(t, IF \E q \in Peer : <<r, q>> \in table' THEN "delInstall" ELSE "delDist")
        /\ UNCHANGED <<conn, recv, subscribers, leaked, told, installed, token, quota, localVars>>

\* Mutant of DistributeDel: the Client is not told.
DistributeDelOnly(t) ==
    /\ pc[t] = "delDist"
    /\ distributeRouteToPeers("REMOVE", route[t], Owner(t))
    /\ Goto(t, AfterRemoval(t))
    /\ UNCHANGED <<conn, table, recv, subscribers, leaked, installed, token, quota, localVars>>

DistributeDel(t) ==
    /\ pc[t] = "delDist"
    /\ distributeRouteToPeers("REMOVE", route[t], Owner(t))
    /\ Goto(t, "delInstall")
    /\ UNCHANGED <<conn, table, recv, subscribers, leaked, installed, token, quota, localVars>>

Uninstall(t) ==
    /\ pc[t] = "delInstall"
    /\ installed' = installed \ {route[t]}
    /\ Goto(t, AfterRemoval(t))
    /\ UNCHANGED <<conn, table, recv, subscribers, leaked, told, token, quota, localVars>>

-----------------------------------------------------------------------------
(* removeSubscriber(Owner(t), vni[t]), for UNSUBSCRIBE and for lost peers. *)

\* Mutant of AfterUnsubscribe: setState stops after its first VNI.
AfterAnyUnsubscribe(t) ==
    /\ mode' = IF mode[t] = "unsub" THEN [mode EXCEPT ![t] = "rx"] ELSE mode
    /\ Goto(t, "idle")

\* processRxUnsubscribe is done; setState goes on with its next VNI.
AfterUnsubscribe(t) ==
    /\ mode' = IF mode[t] = "unsub" THEN [mode EXCEPT ![t] = "rx"] ELSE mode
    /\ Goto(t, IF mode[t] = "unsub" THEN "idle" ELSE "next")

CheckSubscribed(t) ==
    /\ pc[t] = "check"
    /\ ~leaked
    /\ \/ Owner(t) \in subscribers[vni[t]] /\ Goto(t, "collect") /\ UNCHANGED mode
       \/ Owner(t) \notin subscribers[vni[t]] /\ AfterUnsubscribe(t)
    /\ UNCHANGED <<nodeVars, vni, vnis, route, todo>>

Collect(t) ==
    /\ pc[t] = "collect"
    /\ todo' = [todo EXCEPT ![t] = OfVNI(recv[Owner(t)], vni[t])]
    /\ Goto(t, "sweep")
    /\ UNCHANGED <<nodeVars, mode, vni, vnis, route>>

\* Mutant of Sweep: receivedRoutes keeps its routes.
SweepTableOnly(t) ==
    /\ pc[t] = "sweep"
    /\ \/ /\ todo[t] = {}
          /\ Goto(t, "drop")
          /\ UNCHANGED <<route, todo>>
       \/ \E r \in todo[t] :
             /\ route' = [route EXCEPT ![t] = r]
             /\ todo' = [todo EXCEPT ![t] = @ \ {r}]
             /\ Goto(t, "delTable")
    /\ UNCHANGED <<conn, table, recv, subscribers, leaked, told, installed, token, quota,
                   mode, vni, vnis>>

\* A route that is gone from receivedRoutes is logged and removed all the same.
Sweep(t) ==
    /\ pc[t] = "sweep"
    /\ \/ /\ todo[t] = {}
          /\ Goto(t, "drop")
          /\ UNCHANGED <<recv, route, todo>>
       \/ \E r \in todo[t] :
             /\ recv' = [recv EXCEPT ![Owner(t)] = @ \ {r}]
             /\ route' = [route EXCEPT ![t] = r]
             /\ todo' = [todo EXCEPT ![t] = @ \ {r}]
             /\ Goto(t, "delTable")
    /\ UNCHANGED <<conn, table, subscribers, leaked, told, installed, token, quota,
                   mode, vni, vnis>>

\* Mutant of Drop: the subscriber stays.
DropNothing(t) ==
    /\ pc[t] = "drop"
    /\ ~leaked
    /\ AfterUnsubscribe(t)
    /\ UNCHANGED <<nodeVars, vni, vnis, route, todo>>

Drop(t) ==
    /\ pc[t] = "drop"
    /\ ~leaked
    /\ subscribers' = [subscribers EXCEPT ![vni[t]] = @ \ {Owner(t)}]
    /\ AfterUnsubscribe(t)
    /\ UNCHANGED <<conn, table, recv, leaked, told, installed, token, quota,
                   vni, vnis, route, todo>>

-----------------------------------------------------------------------------
(* Closing a peer: Reset, Close and setState(CLOSED) in a goroutine of     *)
(* their own.                                                              *)

\* A connection that breaks before it is established has nothing here to undo.
ResetChecks(t) ==
    /\ pc[t] = "ready"
    /\ conn[Owner(t)] # "HELLO_SENT"
    /\ Goto(t, IF conn[Owner(t)] = "CLOSED" THEN "done" ELSE "close")
    /\ UNCHANGED <<nodeVars, localVars>>

CloseChecks(t) ==
    /\ pc[t] = "close"
    /\ Goto(t, IF conn[Owner(t)] = "CLOSED" THEN "done" ELSE "set")
    /\ UNCHANGED <<nodeVars, localVars>>

\* setState reads the old state without the lock: a closer that passed the check
\* finds the peer open, or finds what another closer made of it since.
SetClosed(t) ==
    /\ pc[t] = "set"
    /\ conn' = [conn EXCEPT ![Owner(t)] = "CLOSED"]
    /\ \/ Goto(t, "lost")
       \/ conn[Owner(t)] = "CLOSED" /\ Goto(t, "token")
    /\ UNCHANGED <<table, recv, subscribers, leaked, told, installed, token, quota, localVars>>

\* setState: the VNIs the lost peer is subscribed to.
FindSubscriptions(t) ==
    /\ pc[t] = "lost"
    /\ ~leaked
    /\ vnis' = [vnis EXCEPT ![t] = {v \in VNI : Owner(t) \in subscribers[v]}]
    /\ Goto(t, "next")
    /\ UNCHANGED <<nodeVars, mode, vni, route, todo>>

NextSubscription(t) ==
    /\ pc[t] = "next"
    /\ \/ vnis[t] = {} /\ Goto(t, "token") /\ UNCHANGED <<vni, vnis>>
       \/ \E v \in vnis[t] :
             /\ vni' = [vni EXCEPT ![t] = v]
             /\ vnis' = [vnis EXCEPT ![t] = @ \ {v}]
             /\ Goto(t, "check")
    /\ UNCHANGED <<nodeVars, mode, route, todo>>

\* Mutant of SendShutdown: the handler is not told.
CloseWithoutShutdown(t) ==
    /\ pc[t] = "token"
    /\ Goto(t, "done")
    /\ UNCHANGED <<nodeVars, localVars>>

\* Close tells the handler to stop; RemovePeer finds the peer CLOSED.
SendShutdown(t) ==
    /\ pc[t] = "token"
    /\ token' = [token EXCEPT ![Owner(t)] = TRUE]
    /\ Goto(t, "done")
    /\ UNCHANGED <<conn, table, recv, subscribers, leaked, told, installed, quota, localVars>>

-----------------------------------------------------------------------------
(* The handler stops: cleanup.                                             *)

TakeShutdown(p) ==
    LET t == Handler(p)
    IN  /\ pc[t] = "idle"
        /\ token[p]
        /\ vnis' = [vnis EXCEPT ![t] = {r.vni : r \in recv[p]}]
        /\ mode' = [mode EXCEPT ![t] = "clean"]
        /\ Goto(t, "clean")
        /\ UNCHANGED <<nodeVars, vni, route, todo>>

\* Mutant of CleanVNI: only the first VNI is cleaned.
CleanOneVNI(p) ==
    LET t == Handler(p)
    IN  /\ pc[t] = "clean"
        /\ \/ vnis[t] = {} /\ Goto(t, "exited") /\ UNCHANGED <<vnis, todo>>
           \/ \E v \in vnis[t] :
                 /\ vnis' = [vnis EXCEPT ![t] = {}]
                 /\ todo' = [todo EXCEPT ![t] = OfVNI(recv[p], v)]
                 /\ Goto(t, "cleanSweep")
        /\ UNCHANGED <<nodeVars, mode, vni, route>>

CleanVNI(p) ==
    LET t == Handler(p)
    IN  /\ pc[t] = "clean"
        /\ \/ vnis[t] = {} /\ Goto(t, "exited") /\ UNCHANGED <<vnis, todo>>
           \/ \E v \in vnis[t] :
                 /\ vnis' = [vnis EXCEPT ![t] = @ \ {v}]
                 /\ todo' = [todo EXCEPT ![t] = OfVNI(recv[p], v)]
                 /\ Goto(t, "cleanSweep")
        /\ UNCHANGED <<nodeVars, mode, vni, route>>

\* Unlike removeSubscriber, cleanup gives up when a route is gone already.
CleanSweep(p) ==
    LET t == Handler(p)
    IN  /\ pc[t] = "cleanSweep"
        /\ \/ /\ todo[t] = {}
              /\ Goto(t, "clean")
              /\ UNCHANGED <<recv, route, todo>>
           \/ \E r \in todo[t] \ recv[p] :
                 Goto(t, "exited") /\ UNCHANGED <<recv, route, todo>>
           \/ \E r \in todo[t] \cap recv[p] :
                 /\ recv' = [recv EXCEPT ![p] = @ \ {r}]
                 /\ route' = [route EXCEPT ![t] = r]
                 /\ todo' = [todo EXCEPT ![t] = @ \ {r}]
                 /\ Goto(t, "delTable")
        /\ UNCHANGED <<conn, table, subscribers, leaked, told, installed, token, quota,
                       mode, vni, vnis>>

-----------------------------------------------------------------------------

\* What arrives from outside: messages, and the events that start a closer.
Arrival(p) ==
    \/ Establish(p)
    \/ \E r \in Route : RxAdd(p, r) \/ RxRemove(p, r)
    \/ \E v \in VNI : RxSubscribe(p, v) \/ RxUnsubscribe(p, v)

\* The steps of the handler between two messages.
HandlerStep(p) ==
    \/ AddToTable(p) \/ DistributeAdd(p) \/ Install(p)
    \/ Register(p) \/ Snapshot(p) \/ Replay(p)
    \/ TakeShutdown(p) \/ CleanVNI(p) \/ CleanSweep(p)

\* Steps any thread may be at.
RemovalStep(t) ==
    \/ DelFromTable(t) \/ DistributeDel(t) \/ Uninstall(t)
    \/ CheckSubscribed(t) \/ Collect(t) \/ Sweep(t) \/ Drop(t)

CloserStep(t) ==
    \/ CloseChecks(t) \/ SetClosed(t) \/ FindSubscriptions(t) \/ NextSubscription(t)
    \/ SendShutdown(t)

Next ==
    \/ \E p \in Peer : Arrival(p) \/ HandlerStep(p)
    \/ \E t \in Thread : ResetChecks(t) \/ CloserStep(t) \/ RemovalStep(t)

Spec == Init /\ [][Next]_vars

\* The Go scheduler runs every goroutine that can run; nothing makes a remote
\* send a message or a connection break.
Fairness ==
    /\ \A p \in Peer : WF_vars(HandlerStep(p))
    /\ \A t \in Thread : WF_vars(CloserStep(t) \/ RemovalStep(t))

FairSpec == Spec /\ Fairness

-----------------------------------------------------------------------------
(* Properties.                                                             *)

DataTyped ==
    /\ conn \in [Peer -> {"HELLO_SENT", "ESTABLISHED", "CLOSED"}]
    /\ table \subseteq Route \X Peer
    /\ recv \in [Peer -> SUBSET Route]
    /\ subscribers \in [VNI -> SUBSET Peer]
    /\ leaked \in BOOLEAN
    /\ told \in [Peer -> SUBSET Route]
    /\ installed \subseteq Route
    /\ token \in [Peer -> BOOLEAN]
    /\ quota \in [Peer -> QuotaType]
    /\ vni \in [Thread -> VNI]
    /\ vnis \in [Thread -> SUBSET VNI]
    /\ route \in [Thread -> Route]
    /\ todo \in [Thread -> SUBSET Route]

PhaseTyped ==
    /\ pc \in [Thread -> HandlerPC \cup CloserPC \cup RemovalPC]
    /\ mode \in [Thread -> Mode]
    /\ \A t \in Thread :
          pc[t] \in RemovalPC \cup (IF t \in Closer THEN CloserPC ELSE HandlerPC)

\* The variables have the types of the structures they stand for, and a thread
\* is only ever at a step of its own kind.
TypeOK == DataTyped /\ PhaseTyped

\* No other peer announces r.
SoleAnnouncer(p, r) == \A q \in Peer \ {p} : Quota[q].add[r] = 0

\* p announces no route in a VNI it subscribes to.
DisjointRoles(p) == \A r \in Route : Quota[p].add[r] > 0 => Quota[p].subscribe[r.vni] = 0

Announcing(p, r) == pc[Handler(p)] = "addDist" /\ route[Handler(p)] = r

\* q's handler is about to send it r, or is giving up the subscription.
CatchingUp(q, r) ==
    LET h == Handler(q)
    IN  \/ pc[h] = "snapshot" /\ vni[h] = r.vni
        \/ pc[h] = "replay" /\ r \in todo[h]
        \/ mode[h] = "unsub" /\ vni[h] = r.vni

\* Between subscription and distribution no route falls through: whatever the
\* order in which p's ADD and q's SUBSCRIBE are processed, q has been sent every
\* route of the VNI that a live peer p announces, once neither handler has it
\* still to send.  It rests on addSubscriber registering the subscriber before
\* it reads the table (metalbond.go 397-403) and addReceivedRoute writing the
\* table before it reads the subscribers (334-345).
NoMissedRoute ==
    \A p, q \in Peer, r \in Route :
        /\ p # q /\ SoleAnnouncer(p, r)
        /\ conn[p] = "ESTABLISHED" /\ conn[q] = "ESTABLISHED"
        /\ <<r, p>> \in table /\ q \in subscribers[r.vni]
        /\ ~Announcing(p, r) /\ ~CatchingUp(q, r)
        => r \in told[q]

\* A NAT route is never sent to the only peer that announces it, neither by
\* distributeRouteToPeers (metalbond.go 251) nor by the replay in addSubscriber
\* (406-409), even while the peer's own handler or closers change the table.
NoNatEcho ==
    \A p \in Peer, r \in Route \ Announced :
        TypeOf[r.hop] = "NAT" /\ SoleAnnouncer(p, r) => r \notin told[p]

\* p's handler is between a change of the table for r and its Client call.
Settling(p, r) ==
    /\ route[Handler(p)] = r
    /\ pc[Handler(p)] \in {"addDist", "addInstall", "delDist", "delInstall"}

\* Only p's handler touches p's routes: its closers have not begun, or there is
\* nothing for them to sweep as p does not announce where it subscribes.
Undisturbed(p) == conn[p] # "CLOSED" \/ DisjointRoles(p)

\* What the Client has installed follows the route table, through re-announced
\* and withdrawn routes, connection loss and cleanup, for routes of one peer
\* (metalbond.go 334-353 and 358-379).
InstalledFollowsTable ==
    \A p \in Peer, r \in Route :
        /\ SoleAnnouncer(p, r) /\ Undisturbed(p)
        /\ ~Settling(p, r)
        => (r \in installed <=> <<r, p>> \in table)

\* p's goroutines have come to their end.
Stopped(p) ==
    /\ pc[Handler(p)] = "exited"
    /\ \A c \in Closer : Owner(c) = p => pc[c] \in {"ready", "done"}

\* A peer that is gone leaves no route behind: whatever its closers and its
\* handler do to each other's sweeps, cleanup has removed everything the peer
\* announced (peer.go 246-262), for peers that do not announce where they
\* subscribe.
DeadLeavesNoRoutes ==
    \A p \in Peer :
        DisjointRoles(p) /\ Stopped(p) => \A r \in Route : <<r, p>> \notin table

\* Every route a live peer announces reaches every live subscriber of its VNI,
\* as the comment on addSubscriber has it: "Route updates belonging to the
\* specified VNI will be sent to the peer afterwards" (metalbond.go 384).
DistributedEventually ==
    \A p, q \in Peer, r \in Route :
        p # q /\ SoleAnnouncer(p, r) =>
            ((<<r, p>> \in table /\ q \in subscribers[r.vni])
                ~> \/ r \in told[q] \/ <<r, p>> \notin table \/ q \notin subscribers[r.vni]
                   \/ conn[p] # "ESTABLISHED" \/ conn[q] # "ESTABLISHED")

\* Closing a peer runs to its end and takes the peer's routes out of the table
\* and out of the Client (peer.go 575-607 and 232-263).
ClosedIsForgotten ==
    \A p \in Peer, r \in Route :
        SoleAnnouncer(p, r) /\ DisjointRoles(p) =>
            (conn[p] = "CLOSED"
                ~> pc[Handler(p)] = "exited" /\ <<r, p>> \notin table /\ r \notin installed)

\* What q was sent, or is about to be sent by its replay.
Underway(q) ==
    told[q] \cup (IF pc[Handler(q)] = "replay" THEN todo[Handler(q)] ELSE {})

\* The table has r; or p's handler is announcing r and a closer, ending a
\* subscription of p in the same VNI, has taken it out again.
Known(r) ==
    \E p \in Peer : <<r, p>> \in table \/ (Announcing(p, r) /\ ~Undisturbed(p))

SentStep ==
    \A q \in Peer : \A r \in Underway(q)' \ Underway(q) : r \in Announced \/ Known(r)

\* A route is sent to a peer, or taken up for its replay, only while the table has
\* it.  What a subscriber still holds when everyone has withdrawn it is therefore
\* the replay's snapshot, which a withdrawal has overtaken, or the announcement of
\* a peer that closed meanwhile, and nothing else (metalbond.go 334-345 and 403-420).
SentFromTable == [][SentStep]_vars

\* setState(CLOSED) ends every subscription it finds, through the removal of the
\* peer's routes and whatever the handler does meanwhile (peer.go 188-213).
LostSubscriptionsEnd ==
    \A t \in Closer, v \in VNI :
        (pc[t] = "lost" /\ Owner(t) \in subscribers[v]) ~> Owner(t) \notin subscribers[v]

\* p's handler rests, and no closer is at work on p's routes.
Settled(p) == pc[Handler(p)] \in {"idle", "exited"} /\ Undisturbed(p)

\* receivedRoutes of a peer and the node's table agree, but for routes the node
\* announces itself: in particular when an UNSUBSCRIBE has removed what the peer
\* goes on announcing (metalbond.go 445-455, peer.go 249-258).
RecordsAgree ==
    \A p \in Peer, r \in Route :
        Settled(p) => ((<<r, p>> \in table) <=> (r \in recv[p] /\ ~Shadowed(r)))
=============================================================================
