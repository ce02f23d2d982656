------------------------------ MODULE Announcer ------------------------------
(***************************************************************************)
(* What a MetalBond client tells its servers: the routes it announces and  *)
(* the VNIs it subscribes to (metalbond.go 114-131 and 178-242, peer.go    *)
(* 96-111, 136-146 and 152-186).                                           *)
(*                                                                         *)
(* Two kinds of goroutines send UPDATEs and SUBSCRIBEs to a server: the    *)
(* callers of AnnounceRoute, WithdrawRoute and Subscribe, and the server's *)
(* handler, which sends everything when the connection is established.     *)
(* They meet in myAnnouncements, which is locked for one access at a time, *)
(* and in mySubscriptions, which both lock while they send.                *)
(*                                                                         *)
(* Abstractions.  has[s] and asked[s] are what the messages to s on its    *)
(* present connection add up to: a server processes UPDATEs in order, and  *)
(* forgets a peer that is gone.  A connection is ESTABLISHED or not; how   *)
(* it gets there is in PeerSession.  A connection may be lost at any step. *)
(***************************************************************************)
EXTENDS Naturals, FiniteSets

CONSTANTS VNI, Destination, NextHop,
          Route,        \* the routes to announce: records [vni, dest, hop]
          Server,       \* the servers, m.peers
          Caller,       \* the goroutines that call the API
          MaxCalls,     \* bound: calls of AnnounceRoute and Subscribe
          MaxLosses     \* bound: lost connections

ASSUME ClientAssumption ==
    /\ Route \subseteq [vni : VNI, dest : Destination, hop : NextHop]
    /\ Route # {}
    /\ MaxCalls \in Nat /\ MaxLosses \in Nat

VARIABLES mine,     \* m.myAnnouncements
          wanted,   \* m.mySubscriptions
          up,       \* the servers whose peer object is ESTABLISHED
          has,      \* the routes the messages to each server add up to
          asked,    \* how often each server was asked for each VNI
          sync,     \* where each handler's setState(ESTABLISHED) is
          vnis,     \* the VNIs it still has to read
          todo,     \* the routes it still has to send
          call,     \* what each caller is doing
          ahead,    \* the servers it has still to send to
          calls, losses

\* History: what each server was last told wrongly, or was not told.
VARIABLES wrong,    \* routes: the last UPDATE came too late, or a call failed before it
          denied    \* VNIs: a call of Subscribe failed before its message

why == <<wrong, denied>>
vars == <<mine, wanted, up, has, asked, sync, vnis, todo, call, ahead, calls, losses, why>>

AnyRoute == CHOOSE r \in Route : TRUE
Idle == [op |-> "idle", route |-> AnyRoute]

\* Before the first connection is established.
Init ==
    /\ mine = {} /\ wanted = {} /\ up = {}
    /\ has = [s \in Server |-> {}]
    /\ asked = [s \in Server |-> [v \in VNI |-> 0]]
    /\ sync = [s \in Server |-> "none"]
    /\ vnis = [s \in Server |-> {}]
    /\ todo = [s \in Server |-> {}]
    /\ call = [c \in Caller |-> Idle]
    /\ ahead = [c \in Caller |-> {}]
    /\ calls = 0 /\ losses = 0
    /\ wrong = [s \in Server |-> {}] /\ denied = [s \in Server |-> {}]

\* A caller of Subscribe holds the lock of mySubscriptions until it returns.
Locked == \E c \in Caller : call[c].op = "SUBSCRIBE"

Begin(c, op, r) ==
    /\ call[c] = Idle
    /\ call' = [call EXCEPT ![c] = [op |-> op, route |-> r]]
    /\ ahead' = [ahead EXCEPT ![c] = Server]

Return(c) ==
    /\ call' = [call EXCEPT ![c] = Idle]
    /\ ahead' = [ahead EXCEPT ![c] = {}]

-----------------------------------------------------------------------------
(* The API.  A call that changes nothing, as for a route that is announced *)
(* already, returns an error and is left out.                              *)

AnnounceRoute(c, r) ==
    /\ calls < MaxCalls /\ calls' = calls + 1
    /\ r \notin mine
    /\ mine' = mine \cup {r}
    /\ Begin(c, "ADD", r)
    /\ UNCHANGED <<wanted, up, has, asked, sync, vnis, todo, losses, why>>

WithdrawRoute(c, r) ==
    /\ r \in mine
    /\ mine' = mine \ {r}
    /\ Begin(c, "REMOVE", r)
    /\ UNCHANGED <<wanted, up, has, asked, sync, vnis, todo, calls, losses, why>>

Subscribe(c, r) ==
    /\ calls < MaxCalls /\ calls' = calls + 1
    /\ ~Locked
    /\ r.vni \notin wanted
    /\ wanted' = wanted \cup {r.vni}
    /\ Begin(c, "SUBSCRIBE", r)
    /\ UNCHANGED <<mine, up, has, asked, sync, vnis, todo, losses, why>>

Told(s, r, op) ==
    [has EXCEPT ![s] = CASE op = "ADD" -> @ \cup {r}
                         [] op = "REMOVE" -> @ \ {r}
                         [] op = "SUBSCRIBE" -> @]

\* The UPDATE says what myAnnouncements says, or it comes too late.
Judged(s, r, op) ==
    [wrong EXCEPT ![s] = IF (op = "ADD") = (r \in mine) THEN @ \ {r} ELSE @ \cup {r}]

\* The call returns an error: the servers it has not come to are not told.
Fail(c) ==
    LET missed(X, x) == [s \in Server |-> IF s \in ahead[c] THEN X[s] \cup {x} ELSE X[s]]
    IN  /\ Return(c)
        /\ IF call[c].op = "SUBSCRIBE"
             THEN denied' = missed(denied, call[c].route.vni) /\ UNCHANGED wrong
             ELSE wrong' = missed(wrong, call[c].route) /\ UNCHANGED denied

\* distributeRouteToPeers(.., nil), and the loop of Subscribe: the first server
\* that is not ESTABLISHED makes the call fail.
SendToServer(c) ==
    LET r == call[c].route
        op == call[c].op
    IN  /\ call[c] # Idle
        /\ \/ ahead[c] = {} /\ Return(c) /\ UNCHANGED <<has, asked, why>>
           \/ \E s \in ahead[c] \ up : Fail(c) /\ UNCHANGED <<has, asked>>
           \/ \E s \in ahead[c] \cap up :
                 /\ has' = Told(s, r, op)
                 /\ asked' = IF op = "SUBSCRIBE" THEN [asked EXCEPT ![s][r.vni] = @ + 1] ELSE asked
                 /\ wrong' = IF op = "SUBSCRIBE" THEN wrong ELSE Judged(s, r, op)
                 /\ ahead' = [ahead EXCEPT ![c] = @ \ {s}]
                 /\ UNCHANGED <<call, denied>>
        /\ UNCHANGED <<mine, wanted, up, sync, vnis, todo, calls, losses>>

-----------------------------------------------------------------------------
(* setState(ESTABLISHED) of a server's handler.                            *)

Establish(s) ==
    /\ s \notin up /\ sync[s] = "none"
    /\ up' = up \cup {s}
    /\ sync' = [sync EXCEPT ![s] = "subscribe"]
    /\ UNCHANGED <<mine, wanted, has, asked, vnis, todo, call, ahead, calls, losses, why>>

\* Mutant of SyncSubscriptions: they are not sent again.
SyncNoSubscriptions(s) ==
    /\ sync[s] = "subscribe"
    /\ ~Locked
    /\ sync' = [sync EXCEPT ![s] = "vnis"]
    /\ UNCHANGED <<mine, wanted, up, has, asked, vnis, todo, call, ahead, calls, losses, why>>

SyncSubscriptions(s) ==
    /\ sync[s] = "subscribe"
    /\ ~Locked
    /\ asked' = IF s \in up
                  THEN [asked EXCEPT ![s] = [v \in VNI |-> @[v] + IF v \in wanted THEN 1 ELSE 0]]
                  ELSE asked
    /\ sync' = [sync EXCEPT ![s] = "vnis"]
    /\ UNCHANGED <<mine, wanted, up, has, vnis, todo, call, ahead, calls, losses, why>>

\* GetVNIs, then for each VNI GetDestinationsByVNI and the UPDATEs.
SyncVNIs(s) ==
    /\ sync[s] = "vnis"
    /\ vnis' = [vnis EXCEPT ![s] = {r.vni : r \in mine}]
    /\ sync' = [sync EXCEPT ![s] = "routes"]
    /\ UNCHANGED <<mine, wanted, up, has, asked, todo, call, ahead, calls, losses, why>>

\* Mutant of SyncNext: the last VNI is left out.
SyncNextButLast(s) ==
    /\ sync[s] = "routes" /\ todo[s] = {}
    /\ \/ /\ Cardinality(vnis[s]) < 2
          /\ sync' = [sync EXCEPT ![s] = "none"]
          /\ vnis' = [vnis EXCEPT ![s] = {}]
          /\ UNCHANGED todo
       \/ \E v \in vnis[s] :
             /\ Cardinality(vnis[s]) > 1
             /\ todo' = [todo EXCEPT ![s] = {r \in mine : r.vni = v}]
             /\ vnis' = [vnis EXCEPT ![s] = @ \ {v}]
             /\ UNCHANGED sync
    /\ UNCHANGED <<mine, wanted, up, has, asked, call, ahead, calls, losses, why>>

SyncNext(s) ==
    /\ sync[s] = "routes" /\ todo[s] = {}
    /\ \/ vnis[s] = {} /\ sync' = [sync EXCEPT ![s] = "none"] /\ UNCHANGED <<vnis, todo>>
       \/ \E v \in vnis[s] :
             /\ todo' = [todo EXCEPT ![s] = {r \in mine : r.vni = v}]
             /\ vnis' = [vnis EXCEPT ![s] = @ \ {v}]
             /\ UNCHANGED sync
    /\ UNCHANGED <<mine, wanted, up, has, asked, call, ahead, calls, losses, why>>

\* Mutant of SyncSend: the first failure ends the sync.
SyncSendOrReturn(s) ==
    /\ sync[s] = "routes"
    /\ \E r \in todo[s] :
          \/ /\ s \in up
             /\ todo' = [todo EXCEPT ![s] = @ \ {r}]
             /\ has' = Told(s, r, "ADD") /\ wrong' = Judged(s, r, "ADD")
             /\ UNCHANGED sync
          \/ /\ s \notin up
             /\ sync' = [sync EXCEPT ![s] = "none"]
             /\ UNCHANGED <<has, todo, wrong>>
    /\ UNCHANGED <<mine, wanted, up, asked, vnis, call, ahead, calls, losses, denied>>

\* A send that fails, as the state is not ESTABLISHED any more, is only logged.
SyncSend(s) ==
    /\ sync[s] = "routes"
    /\ \E r \in todo[s] :
          /\ todo' = [todo EXCEPT ![s] = @ \ {r}]
          /\ has' = IF s \in up THEN Told(s, r, "ADD") ELSE has
          /\ wrong' = IF s \in up THEN Judged(s, r, "ADD") ELSE wrong
    /\ UNCHANGED <<mine, wanted, up, asked, sync, vnis, call, ahead, calls, losses, denied>>

SyncStep(s) == SyncSubscriptions(s) \/ SyncVNIs(s) \/ SyncNext(s) \/ SyncSend(s)

-----------------------------------------------------------------------------

Lose(s) ==
    /\ losses < MaxLosses /\ losses' = losses + 1
    /\ s \in up
    /\ up' = up \ {s}
    /\ has' = [has EXCEPT ![s] = {}]
    /\ asked' = [asked EXCEPT ![s] = [v \in VNI |-> 0]]
    /\ wrong' = [wrong EXCEPT ![s] = {}] /\ denied' = [denied EXCEPT ![s] = {}]
    /\ UNCHANGED <<mine, wanted, sync, vnis, todo, call, ahead, calls>>

Next ==
    \/ \E c \in Caller :
          \/ SendToServer(c)
          \/ \E r \in Route : AnnounceRoute(c, r) \/ WithdrawRoute(c, r) \/ Subscribe(c, r)
    \/ \E s \in Server : Establish(s) \/ SyncStep(s) \/ Lose(s)

Spec == Init /\ [][Next]_vars

\* Callers and handlers run, and a client connects again when it can.
Fairness ==
    /\ \A c \in Caller : WF_vars(SendToServer(c))
    /\ \A s \in Server : WF_vars(Establish(s)) /\ WF_vars(SyncStep(s))

FairSpec == Spec /\ Fairness

-----------------------------------------------------------------------------
(* Properties.                                                             *)

\* A handler has routes to send only while it is synchronising, and only such as
\* the node can announce.
TypeOK ==
    /\ mine \subseteq Route /\ wanted \subseteq VNI /\ up \subseteq Server
    /\ has \in [Server -> SUBSET Route]
    /\ asked \in [Server -> [VNI -> Nat]]
    /\ sync \in [Server -> {"none", "subscribe", "vnis", "routes"}]
    /\ vnis \in [Server -> SUBSET VNI]
    /\ todo \in [Server -> SUBSET Route]
    /\ call \in [Caller -> [op : {"idle", "ADD", "REMOVE", "SUBSCRIBE"}, route : Route]]
    /\ ahead \in [Caller -> SUBSET Server]
    /\ calls \in 0 .. MaxCalls /\ losses \in 0 .. MaxLosses
    /\ \A s \in Server : sync[s] # "routes" => todo[s] = {} /\ vnis[s] = {}

\* The sync has r still to send to s, or has not read what to send.
Syncing(s, r) ==
    \/ sync[s] \in {"subscribe", "vnis"}
    \/ sync[s] = "routes" /\ (r \in todo[s] \/ r.vni \in vnis[s])

\* A caller that announces r, or takes it back, has not come to s yet.
Calling(s, r) ==
    \E c \in Caller : call[c].route = r /\ call[c].op \in {"ADD", "REMOVE"} /\ s \in ahead[c]

Pending(s, r) == Syncing(s, r) \/ Calling(s, r)

\* A route that is announced while a server connects, or that was announced
\* before, reaches the server, from AnnounceRoute or from the sync: neither
\* leaves it to the other; and a route that is withdrawn meanwhile is taken back
\* (metalbond.go 181-186 and 196-207, peer.go 168-186).  A server is wrong about
\* a route only if the call that should have told it returned an error, or if
\* an UPDATE was sent after myAnnouncements had changed again.
ServersAgree ==
    \A s \in up, r \in Route :
        ~Pending(s, r) /\ r \notin wrong[s] => (r \in has[s] <=> r \in mine)

\* A subscription is not lost either, also after the connection was: unless
\* Subscribe returned an error (metalbond.go 124-128).
NoLostSubscription ==
    \A s \in up, v \in wanted :
        asked[s][v] > 0 \/ sync[s] = "subscribe" \/ Locked \/ v \in denied[s]

\* In the end every server that is connected knows what the node announces.
ServersLearn ==
    \A s \in Server, r \in Route :
        r \in mine ~> (s \in up /\ r \in has[s]) \/ r \notin mine \/ r \in wrong[s]
==============================================================================
