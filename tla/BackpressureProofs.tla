------------------------- MODULE BackpressureProofs -------------------------
(***************************************************************************)
(* Nobody waits on the queue of a connection that is closed, for any       *)
(* number of announcing peers, UPDATEs and Resets and queues of any size.  *)
(***************************************************************************)
EXTENDS Backpressure, TLAPS

ResetPC == {"none", "check", "close", "set", "find", "drop", "stop", "look", "delete", "done"}

Typed ==
    /\ reset \in [Reset -> ResetPC]
    /\ send \in [Sender -> {"idle", "peers", "subscribers", "check", "put"}]
    /\ closes \in Nat
    /\ subscribed \in BOOLEAN /\ raced \in BOOLEAN

\* The Resets that have set the state to CLOSED and not yet told the txLoop.
Closing(k) == reset[k] \in {"find", "drop", "stop"}

\* The txLoop was told to stop, or is about to be.
Stopped == closes > 0 \/ tx = "exited" \/ \E k \in Reset : reset[k] = "stop"

\* Before the peer is CLOSED nobody has begun to take it down.
OpenOK == state # "CLOSED" => ~Stopped /\ \A k \in Reset : ~Closing(k)

\* Who sends to the subscriber found the subscription, and it is not dropped
\* while anybody sends.
ReadersOK == ~subscribed => SubscribersReaders = {}

\* Without a race one Reset takes the peer down, and nobody waits to send once it
\* tells the txLoop: a SUBSCRIBE may list the peer anew, but sends to it fail.
OneCloses ==
    ~raced =>
        /\ \A j, k \in Reset : Closing(j) /\ Closing(k) => j = k
        /\ Stopped => \A s \in Sender : send[s] # "put"

WaitInv == Typed /\ OpenOK /\ ReadersOK /\ OneCloses

-----------------------------------------------------------------------------

LEMMA InitWait == Init => WaitInv
<1>. SUFFICES ASSUME Init PROVE WaitInv
  OBVIOUS
<1>1. Typed
  BY DEF Init, Typed, ResetPC
<1>2. ~Stopped /\ \A k \in Reset : ~Closing(k)
  BY DEF Init, Stopped, Closing
<1>3. SubscribersReaders = {}
  BY DEF Init, SubscribersReaders
<1>. QED
  BY <1>1, <1>2, <1>3 DEF WaitInv, OpenOK, ReadersOK, OneCloses

\* A new Reset begins at its check.
LEMMA NewReset ==
    ASSUME Typed, StartReset
    PROVE  /\ reset' \in [Reset -> ResetPC]
           /\ \A k \in Reset : reset'[k] = reset[k] \/ reset'[k] = "check"
<1>1. CASE UNCHANGED reset
  BY <1>1 DEF Typed
<1>2. CASE \E k : reset' = [reset EXCEPT ![k] = "check"]
  BY <1>2 DEF Typed, ResetPC
<1>. QED
  BY <1>1, <1>2 DEF StartReset

\* Steps of the senders: they look at the subscriber only while it is one, and wait to
\* send only if it was open.
LEMMA SenderKeepsWait ==
    ASSUME WaitInv, NEW s \in Sender, Update(s) \/ SenderStep(s)
    PROVE  WaitInv'
<1>1. /\ Typed'
      /\ UNCHANGED <<state, subscribed, closes, tx, reset, raced>>
  BY DEF SenderStep, Update, RLockPeers, RLockSubscribers, SendUpdate, Put, Goto, WaitInv,
         Typed, queues
<1>2. ReadersOK'
  BY <1>1 DEF SenderStep, Update, RLockPeers, RLockSubscribers, SendUpdate, Put, Goto,
              WaitInv, Typed, ReadersOK, SubscribersReaders
<1>3. \A t \in Sender : send'[t] = "put" => send[t] = "put" \/ state = "ESTABLISHED"
  BY DEF SenderStep, Update, RLockPeers, RLockSubscribers, SendUpdate, Put, Goto, WaitInv,
         Typed
<1>. QED
  BY <1>1, <1>2, <1>3 DEF WaitInv, OpenOK, OneCloses, Closing, Stopped

\* Steps of the subscriber's handler: it may list the peer, and never strikes it off.
LEMMA HandlerKeepsWait ==
    ASSUME WaitInv, HandlerStep
    PROVE  WaitInv'
<1>1. UNCHANGED <<state, closes, tx, send, reset, raced>>
  BY DEF HandlerStep, TakeSubscribe, Register, ReadTable, SendRoute, PutRoute, TakeShutdown,
         Handler, queues
<1>2. subscribed' \in {subscribed, TRUE}
  BY DEF HandlerStep, TakeSubscribe, Register, ReadTable, SendRoute, PutRoute, TakeShutdown
<1>. QED
  BY <1>1, <1>2
  DEF WaitInv, Typed, OpenOK, ReadersOK, OneCloses, Closing, Stopped, SubscribersReaders

\* Steps of the loops and of the remote: the txLoop ends only when it was told.
LEMMA LoopKeepsWait ==
    ASSUME WaitInv, TxStep \/ RemoteStep \/ Stall \/ Break \/ RxStep
    PROVE  WaitInv'
<1>1. UNCHANGED <<state, subscribed, send, raced>>
  BY DEF TxStep, RemoteStep, RxStep, Take, Write, CloseConnection, RemoteReads, Stall, Recover, Break, ReadFails,
         Timeout, RemoteDoes, queues, conn
<1>2. /\ reset' \in [Reset -> ResetPC]
      /\ \A k \in Reset : reset'[k] = reset[k] \/ reset'[k] = "check"
  BY NewReset DEF TxStep, RemoteStep, RxStep, Take, Write, CloseConnection, RemoteReads, Stall, Recover, Break,
     ReadFails,
         Timeout, RemoteDoes, WaitInv, Typed
<1>3. /\ closes' \in Nat
      /\ closes' > 0 \/ tx' = "exited" => closes > 0 \/ tx = "exited"
  BY DEF TxStep, RemoteStep, RxStep, Take, Write, CloseConnection, RemoteReads, Stall, Recover, Break, ReadFails,
         Timeout, RemoteDoes, WaitInv, Typed, queues, conn
<1>4. Stopped' => Stopped
  BY <1>2, <1>3 DEF Stopped
<1>5. \A k \in Reset : (reset'[k] \in {"find", "drop", "stop"}) => reset'[k] = reset[k]
  BY <1>2
<1>. QED
  BY <1>1, <1>2, <1>3, <1>4, <1>5
  DEF WaitInv, Typed, OpenOK, ReadersOK, OneCloses, Closing, SubscribersReaders

\* Steps of a Reset.
LEMMA ResetKeepsWait ==
    ASSUME WaitInv, NEW k \in Reset, ResetStep(k)
    PROVE  WaitInv'
<1>. USE DEF WaitInv, Typed, ResetPC, At
<1>1. CASE ResetChecks(k) \/ CloseChecks(k) \/ LookUp(k) \/ Delete(k)
  BY <1>1 DEF ResetChecks, CloseChecks, LookUp, Delete, OpenOK, ReadersOK, OneCloses,
     Closing,
              Stopped, SubscribersReaders, queues, conn
<1>2. CASE SetClosed(k)
  BY <1>2 DEF SetClosed, OpenOK, ReadersOK, OneCloses, Closing, Stopped, SubscribersReaders,
     queues, conn
<1>3. CASE FindSubscription(k)
  BY <1>3 DEF FindSubscription, OpenOK, ReadersOK, OneCloses, Closing, Stopped,
     SubscribersReaders, queues,
              conn
<1>4. CASE DropSubscription(k)
  BY <1>4 DEF DropSubscription, OpenOK, ReadersOK, OneCloses, Closing, Stopped,
     SubscribersReaders, queues,
              conn
<1>5. CASE SendStop(k)
  BY <1>5 DEF SendStop, OpenOK, ReadersOK, OneCloses, Closing, Stopped, SubscribersReaders,
     conn
<1>. QED
  BY <1>1, <1>2, <1>3, <1>4, <1>5 DEF ResetStep

\* No distribution waits, with the locks of the node, for a txLoop that has ended,
\* unless two Resets both found the peer open (metalbond.go 457, peer.go 578-579).
THEOREM NobodyWaits == Spec => []NobodyWaitsForTheDead
<1>1. WaitInv /\ [Next]_vars => WaitInv'
  <2>. SUFFICES ASSUME WaitInv, [Next]_vars PROVE WaitInv'
    OBVIOUS
  <2>1. CASE UNCHANGED vars
    BY <2>1 DEF vars, queues, conn, WaitInv, Typed, OpenOK, ReadersOK, OneCloses, Closing,
       Stopped,
                SubscribersReaders
  <2>. QED
    BY <2>1, SenderKeepsWait, HandlerKeepsWait, LoopKeepsWait, ResetKeepsWait DEF Next
<1>2. WaitInv => NobodyWaitsForTheDead
  BY DEF WaitInv, OneCloses, Stopped, NobodyWaitsForTheDead
<1>. QED
  BY InitWait, <1>1, <1>2, PTL DEF Spec
=============================================================================
