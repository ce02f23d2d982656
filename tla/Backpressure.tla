---------------------------- MODULE Backpressure ----------------------------
(***************************************************************************)
(* What a slow subscriber does to a server.  distributeRouteToPeers holds  *)
(* the read locks of m.peers and m.subscribers while it sends, sendMessage *)
(* waits on a full txChan, and closing the subscriber needs the write lock *)
(* of m.subscribers before its txLoop is told to stop (metalbond.go        *)
(* 218-275 and 457-459, peer.go 188-214, 575-607 and 672-732).  The        *)
(* subscriber's own handler sends it the routes there are, without a lock, *)
(* and waits on the same txChan (metalbond.go 384-421).                    *)
(*                                                                         *)
(* The threads are the handlers of the peers that announce routes, the     *)
(* handler and the txLoop of one subscriber, and its Resets.  Messages     *)
(* are counted.  A remote may stop reading, then read on or break the      *)
(* connection.  A Lock that waits keeps new readers out, as sync.RWMutex   *)
(* does.  The subscriber announces nothing itself: the removal of routes   *)
(* is in Distribution.                                                     *)
(***************************************************************************)
EXTENDS Naturals

CONSTANTS Sender,       \* the handlers of the announcing peers
          TxCap,        \* capacity of txChan
          SockCap,      \* messages that fit into the buffers of the connection
          MaxUpdates,   \* bound: UPDATEs from each announcing peer
          MaxReplay,    \* bound: routes there are when the subscriber subscribes
          MaxResets     \* bound: Resets of the subscriber

ASSUME BackpressureAssumption ==
    /\ TxCap \in Nat \ {0} /\ SockCap \in Nat \ {0}
    /\ MaxUpdates \in Nat /\ MaxReplay \in Nat /\ MaxResets \in Nat

VARIABLES state,       \* the subscriber's p.state
          subscribed,  \* it is in m.subscribers
          txChan, sock,   \* messages in its txChan and in the connection's buffers
          closes,      \* messages in its txChanClose
          remote,      \* what the other end of the connection does
          tx,          \* where its txLoop is
          timer,       \* its keepalive timer is running
          rx,          \* its rxLoop is reading
          hand, togo,  \* where its handler is, routes it has still to send
          shutdown,    \* there is a message in its p.shutdown
          send,        \* where each distribution is
          left,        \* UPDATEs still to come
          reset,       \* where each Reset of the subscriber is
          raced        \* history: two Resets both passed the check for CLOSED

queues == <<txChan, sock, closes>>
conn == <<remote, timer, rx>>
handler == <<hand, togo, shutdown>>
vars == <<state, subscribed, queues, conn, tx, handler, send, left, reset, raced>>

Reset == 1 .. MaxResets
Reading == {"reads", "back"}

Init ==
    /\ state = "ESTABLISHED" /\ subscribed = FALSE
    /\ txChan = 0 /\ sock = 0 /\ closes = 0
    /\ remote = "reads" /\ timer = TRUE /\ rx = TRUE
    /\ tx = "loop"
    /\ hand = "wait" /\ togo = 0 /\ shutdown = FALSE
    /\ send = [s \in Sender |-> "idle"]
    /\ left = [s \in Sender |-> MaxUpdates]
    /\ reset = [k \in Reset |-> "none"]
    /\ raced = FALSE

\* Who holds or waits for the locks.
PeersReaders == {s \in Sender : send[s] \in {"subscribers", "check", "put"}}
SubscribersReaders == {s \in Sender : send[s] \in {"check", "put"}}
PeersWriters == {k \in Reset : reset[k] = "delete"}
SubscribersWriters ==
    {k \in Reset : reset[k] = "drop"} \cup (IF hand = "register" THEN {"handler"} ELSE {})

-----------------------------------------------------------------------------
(* distributeRouteToPeers.                                                 *)

Goto(s, there) ==
    /\ send' = [send EXCEPT ![s] = there]
    /\ UNCHANGED <<state, subscribed, queues, conn, tx, handler, left, reset, raced>>

Update(s) ==
    /\ send[s] = "idle" /\ left[s] > 0
    /\ left' = [left EXCEPT ![s] = @ - 1]
    /\ send' = [send EXCEPT ![s] = "peers"]
    /\ UNCHANGED <<state, subscribed, queues, conn, tx, handler, reset, raced>>

RLockPeers(s) ==
    /\ send[s] = "peers" /\ PeersWriters = {}
    /\ Goto(s, "subscribers")

RLockSubscribers(s) ==
    /\ send[s] = "subscribers" /\ SubscribersWriters = {}
    /\ Goto(s, IF subscribed THEN "check" ELSE "idle")

\* An error is logged, and the locks are released.
SendUpdate(s) ==
    /\ send[s] = "check"
    /\ Goto(s, IF state = "ESTABLISHED" THEN "put" ELSE "idle")

\* sendMessage waits here, with the locks; then they are released.
Put(s) ==
    /\ send[s] = "put" /\ txChan < TxCap
    /\ txChan' = txChan + 1
    /\ send' = [send EXCEPT ![s] = "idle"]
    /\ UNCHANGED <<state, subscribed, sock, closes, conn, tx, handler, left, reset, raced>>

-----------------------------------------------------------------------------
(* The subscriber's handler: addSubscriber, and the end of handle().       *)

Handler(there) ==
    /\ hand' = there
    /\ UNCHANGED <<state, queues, conn, tx, shutdown, send, left, reset, raced>>

\* Bound: one SUBSCRIBE (a second one is in Distribution).
TakeSubscribe == hand = "wait" /\ Handler("register") /\ UNCHANGED <<subscribed, togo>>

\* The table is read when the lock has been released.
Register ==
    /\ hand = "register" /\ SubscribersReaders = {}
    /\ subscribed' = TRUE
    /\ Handler("replay") /\ UNCHANGED togo

ReadTable ==
    /\ hand = "replay" /\ togo = 0
    /\ \E n \in 0 .. MaxReplay : togo' = n /\ Handler(IF n = 0 THEN "idle" ELSE "check")
    /\ UNCHANGED subscribed

\* Mutant of SendRoute: a route that could not be sent is tried again.
SendRouteAgain ==
    /\ hand = "check" /\ state = "ESTABLISHED"
    /\ Handler("put") /\ UNCHANGED <<subscribed, togo>>

\* An error is logged; the Reset that follows finds the peer CLOSED and returns.
SendRoute ==
    /\ hand = "check"
    /\ \/ state = "ESTABLISHED" /\ Handler("put") /\ UNCHANGED togo
       \/ /\ state # "ESTABLISHED"
          /\ togo' = togo - 1
          /\ Handler(IF togo = 1 THEN "idle" ELSE "check")
    /\ UNCHANGED subscribed

\* sendMessage waits here, without a lock.
PutRoute ==
    /\ hand = "put" /\ txChan < TxCap
    /\ txChan' = txChan + 1 /\ togo' = togo - 1
    /\ hand' = IF togo = 1 THEN "idle" ELSE "check"
    /\ UNCHANGED <<state, subscribed, sock, closes, conn, tx, shutdown, send, left, reset, raced>>

\* Its select may find the SUBSCRIBE first.
TakeShutdown ==
    /\ hand \in {"wait", "idle"} /\ shutdown
    /\ Handler("ended") /\ UNCHANGED <<subscribed, togo>>

-----------------------------------------------------------------------------
(* The subscriber's loops, and the other end.                              *)

\* go p.Reset(), up to the bound on their number.
StartReset ==
    IF \E k \in Reset : reset[k] = "none"
      THEN LET k == CHOOSE k \in Reset : reset[k] = "none" /\ \A j \in Reset : j < k => reset[j] # "none"
           IN  reset' = [reset EXCEPT ![k] = "check"]
      ELSE UNCHANGED reset

Take ==
    /\ tx = "loop" /\ txChan > 0
    /\ txChan' = txChan - 1
    /\ tx' = "write"
    /\ UNCHANGED <<state, subscribed, sock, closes, conn, handler, send, left, reset, raced>>

\* Mutant of Write: the loop ends with the connection.
WriteOrEnd ==
    /\ tx = "write"
    /\ \/ /\ remote # "gone" /\ sock < SockCap
          /\ sock' = sock + 1 /\ tx' = "loop" /\ UNCHANGED reset
       \/ remote = "gone" /\ StartReset /\ tx' = "exited" /\ UNCHANGED sock
    /\ UNCHANGED <<state, subscribed, txChan, closes, conn, handler, send, left, raced>>

\* After a failed Write the loop goes on, and starts a Reset for each message.
Write ==
    /\ tx = "write"
    /\ \/ remote # "gone" /\ sock < SockCap /\ sock' = sock + 1 /\ UNCHANGED reset
       \/ remote = "gone" /\ StartReset /\ UNCHANGED sock
    /\ tx' = "loop"
    /\ UNCHANGED <<state, subscribed, txChan, closes, conn, handler, send, left, raced>>

CloseConnection ==
    /\ tx = "loop" /\ closes > 0
    /\ closes' = closes - 1
    /\ tx' = "exited"
    /\ UNCHANGED <<state, subscribed, txChan, sock, conn, handler, send, left, reset, raced>>

RemoteReads ==
    /\ remote \in Reading /\ sock > 0
    /\ sock' = sock - 1
    /\ UNCHANGED <<state, subscribed, txChan, closes, conn, tx, handler, send, left, reset, raced>>

RemoteDoes(here, there) ==
    /\ remote \in here /\ remote' = there
    /\ UNCHANGED <<state, subscribed, queues, timer, rx, tx, handler, send, left, reset, raced>>

\* Bound: it stops reading once.
Stall == RemoteDoes({"reads"}, "stalled")
Recover == RemoteDoes({"stalled"}, "back") \/ RemoteDoes({"stalled"}, "gone")
Break == RemoteDoes(Reading, "gone")

ReadFails ==
    /\ rx /\ remote = "gone"
    /\ rx' = FALSE
    /\ IF state = "CLOSED" THEN UNCHANGED reset ELSE StartReset
    /\ UNCHANGED <<state, subscribed, queues, remote, timer, tx, handler, send, left, raced>>

\* A remote that is stalled sends no KEEPALIVE.
Timeout ==
    /\ timer /\ remote \notin Reading
    /\ timer' = FALSE
    /\ StartReset
    /\ UNCHANGED <<state, subscribed, queues, remote, rx, tx, handler, send, left, raced>>

-----------------------------------------------------------------------------
(* Reset and Close of the subscriber.                                      *)

At(k, here, there) == reset[k] = here /\ reset' = [reset EXCEPT ![k] = there]

ResetChecks(k) ==
    /\ At(k, "check", IF state = "CLOSED" THEN "done" ELSE "close")
    /\ UNCHANGED <<state, subscribed, queues, conn, tx, handler, send, left, raced>>

CloseChecks(k) ==
    /\ At(k, "close", IF state = "CLOSED" THEN "look" ELSE "set")
    /\ UNCHANGED <<state, subscribed, queues, conn, tx, handler, send, left, raced>>

\* setState reads the old state without the lock: one that finds CLOSED leaves
\* the subscriptions to the Reset that set it.
SetClosed(k) ==
    /\ \/ At(k, "set", "find")
       \/ state = "CLOSED" /\ At(k, "set", "stop")
    /\ raced' = (raced \/ state = "CLOSED")
    /\ state' = "CLOSED"
    /\ UNCHANGED <<subscribed, queues, conn, tx, handler, send, left>>

\* setState and removeSubscriber look for the subscription, then lock to drop it.
FindSubscription(k) ==
    /\ SubscribersWriters = {}
    /\ At(k, "find", IF subscribed THEN "drop" ELSE "stop")
    /\ UNCHANGED <<state, subscribed, queues, conn, tx, handler, send, left, raced>>

\* Mutant of DropSubscription: the lock of the readers is not respected.
DropUnlocked(k) ==
    /\ At(k, "drop", "stop")
    /\ subscribed' = FALSE
    /\ UNCHANGED <<state, queues, conn, tx, handler, send, left, raced>>

DropSubscription(k) ==
    /\ At(k, "drop", "stop")
    /\ SubscribersReaders = {}
    /\ subscribed' = FALSE
    /\ UNCHANGED <<state, queues, conn, tx, handler, send, left, raced>>

\* To the txLoop and to the handler.
SendStop(k) ==
    /\ At(k, "stop", "look")
    /\ closes' = closes + 1 /\ shutdown' = TRUE
    /\ UNCHANGED <<state, subscribed, txChan, sock, conn, tx, hand, togo, send, left, raced>>

\* RemovePeer finds the peer, or finds it gone; Close has nothing more to do.
LookUp(k) ==
    /\ PeersWriters = {}
    /\ \/ At(k, "look", "delete") \/ At(k, "look", "done")
    /\ UNCHANGED <<state, subscribed, queues, conn, tx, handler, send, left, raced>>

Delete(k) ==
    /\ At(k, "delete", "done")
    /\ PeersReaders = {}
    /\ UNCHANGED <<state, subscribed, queues, conn, tx, handler, send, left, raced>>

-----------------------------------------------------------------------------

SenderStep(s) == RLockPeers(s) \/ RLockSubscribers(s) \/ SendUpdate(s) \/ Put(s)
HandlerStep ==
    TakeSubscribe \/ Register \/ ReadTable \/ SendRoute \/ PutRoute \/ TakeShutdown
TxStep == Take \/ Write \/ CloseConnection
RemoteStep == RemoteReads \/ Recover
RxStep == ReadFails \/ Timeout
ResetStep(k) ==
    \/ ResetChecks(k) \/ CloseChecks(k) \/ SetClosed(k) \/ FindSubscription(k)
    \/ DropSubscription(k) \/ SendStop(k) \/ LookUp(k) \/ Delete(k)

Next ==
    \/ \E s \in Sender : Update(s) \/ SenderStep(s)
    \/ HandlerStep \/ TxStep \/ RemoteStep \/ Stall \/ Break \/ RxStep
    \/ \E k \in Reset : ResetStep(k)

Spec == Init /\ [][Next]_vars

\* Goroutines run, and a remote that stopped reading reads on or is lost: an assumption
\* on the remote, for one that acknowledges the probes of a full window is not given up
\* by TCP.  What waits for a lock or in a select needs no more than this: the messages
\* that others may send first are bounded.
Fairness ==
    /\ \A s \in Sender : WF_vars(SenderStep(s))
    /\ WF_vars(HandlerStep) /\ WF_vars(TxStep)
    /\ \A k \in Reset : WF_vars(ResetStep(k))
    /\ WF_vars(RemoteStep) /\ WF_vars(RxStep)

FairSpec == Spec /\ Fairness

-----------------------------------------------------------------------------
(* Properties.                                                             *)

\* No distribution waits, with the node's locks, on the queue of a connection
\* that is closed: the txLoop is told to stop after the subscription is dropped,
\* which waits for everyone who sends to it (metalbond.go 457, peer.go 578-579).
\* It may when two Resets race, for then the second does not wait.
NobodyWaitsForTheDead ==
    tx = "exited" /\ ~raced => \A s \in Sender : send[s] # "put"

\* A slow subscriber holds up the node only until it reads on or is gone: every
\* distribution comes to its end.
DistributionEnds ==
    \A s \in Sender : send[s] # "idle" ~> send[s] = "idle" \/ raced

\* Close waits for the distributions that wait for the connection it closes: it
\* comes to its end nevertheless, for the txLoop serves them until it is told to
\* stop (peer.go 575-602).
ResetEnds ==
    \A k \in Reset : reset[k] = "check" ~> reset[k] = "done" \/ raced

\* The handler waits for room in the queue of a txLoop that has ended: it holds no lock,
\* so nobody waited for it before the txLoop was stopped.
HandlerStuck == tx = "exited" /\ hand = "put" /\ txChan = TxCap

\* A handler that is told to shut down does, though it may be sending the routes there
\* were when its peer subscribed: sends fail once the peer is CLOSED (metalbond.go
\* 403-421, peer.go 136-146).  It does not where its last send, begun before, waits on
\* a txChan that the txLoop has left full (peer.go 709 and 727): then it stays behind,
\* and with it the cleanup that would remove the peer's routes.
HandlerEnds == shutdown ~> hand = "ended" \/ HandlerStuck \/ raced
=============================================================================
