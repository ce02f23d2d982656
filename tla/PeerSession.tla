----------------------------- MODULE PeerSession -----------------------------
(***************************************************************************)
(* The life of one metalBondPeer object: its goroutines, its channels and  *)
(* its connection state (peer.go 265-521 and 575-732).                     *)
(*                                                                         *)
(* A peer runs four goroutines: handle() and the rxLoop, txLoop and        *)
(* keepaliveLoop it starts.  When one of them finds the connection broken  *)
(* it starts Reset in a goroutine of its own, which stops the four through *)
(* one-element messages on three channels, waits for them, and, for an     *)
(* OUTGOING peer, starts handle() again after a pause.  Close does the     *)
(* same for good.  Every handle() with the goroutines it started is one    *)
(* run, numbered from 1; the fields of the struct are shared by all runs.  *)
(*                                                                         *)
(* A run makes new channels and stores them in the struct.  A goroutine    *)
(* that waits in a select, a send or a Read waits on the channel or the    *)
(* connection that the struct held when it began to wait: "on" records it. *)
(*                                                                         *)
(* What distribution does with SUBSCRIBE, UNSUBSCRIBE and UPDATE messages  *)
(* is in the module Distribution; here they are DATA that fills a channel. *)
(* The three data channels are one, and so are the state changes and the   *)
(* sweeps of setState, and the three sends that stop the goroutines.       *)
(*                                                                         *)
(* A goroutine counts itself in p.wg when it first runs, not when it is    *)
(* started (peer.go 266, 365, 625, 715): between the two it is "spawned",  *)
(* and no Reset waits for it.  One that then uses the nil p.conn panics;   *)
(* that ends the program, so what others do after it is of no interest.    *)
(* KEEPALIVE intervals are at least 1.                                     *)
(***************************************************************************)
EXTENDS Naturals, Sequences, FiniteSets

CONSTANTS Direction,    \* "OUTGOING" or "INCOMING"
          MaxRuns,      \* bound: how many runs of handle() are followed
          MaxResets,    \* bound: how many Resets are started
          MaxKeepalives, MaxData,   \* bounds: messages of the remote per connection
          Failures,     \* which failures happen: see FailureKinds
          Calls,        \* how many calls of Close by RemovePeer or Shutdown: 0 or 1
          TxCap, RxCap, DataCap   \* the channel capacities

\* The remote closes, a Write fails, KEEPALIVEs stay away, a packet is not
\* understood, an address is not resolved.
FailureKinds == {"eof", "write", "timeout", "garbage", "resolve"}

ASSUME SessionAssumption ==
    /\ Direction \in {"OUTGOING", "INCOMING"}
    /\ MaxRuns \in Nat \ {0} /\ MaxResets \in Nat
    /\ MaxKeepalives \in Nat /\ MaxData \in Nat
    /\ Failures \subseteq FailureKinds
    /\ Calls \in {0, 1}
    /\ TxCap \in Nat \ {0} /\ RxCap \in Nat \ {0} /\ DataCap \in Nat \ {0}

Run == 1 .. MaxRuns
Call == 0                        \* the goroutine that calls Close
Reset == 1 .. MaxResets          \* the goroutines started by "go p.Reset()"
Stopper == {k \in {Call} \cup Reset : k # Call \/ Calls = 1}

State == {"CONNECTING", "HELLO_SENT", "HELLO_RECEIVED", "ESTABLISHED", "RETRY", "CLOSED"}
StopCap == 5                     \* capacity of the channels that stop goroutines

VARIABLES state,     \* p.state
          conn,      \* p.conn: the connection, named after the run that dialled it; 0 for nil
          link,      \* what became of each connection
          made,      \* the run whose channels the struct holds, 0 before the first
          timer,     \* the run whose timer p.keepaliveTimer is, 0 for nil
          handle, rx, tx, ka,   \* where each run's goroutines are
          on,        \* what each of them waits on: the run that made it
          stop,      \* where each Reset or Close is
          met,       \* history: a Reset of an OUTGOING peer began while another lasted
          missed,    \* history: the runs with a loop that a Reset did not wait for
          stops,     \* messages in shutdown, keepaliveStop and txChanClose
          rxq,       \* messages in rxHello, rxKeepalive and the data channels
          txq,       \* messages in txChan
          armed,     \* the timers that are running
          wrote,     \* what this side has sent on each connection
          left       \* what the remote may still send on each connection

remote == <<link, wrote, left>>
queues == <<stops, rxq, txq>>
loops == <<rx, tx, ka>>
vars == <<state, conn, made, timer, armed, handle, on, stop, met, missed, remote, queues, loops>>

NoStops == [shutdown |-> 0, keepaliveStop |-> 0, txChanClose |-> 0]
NoMessages == [HELLO |-> 0, KEEPALIVE |-> 0, DATA |-> 0]
Budget == [HELLO |-> 1, KEEPALIVE |-> MaxKeepalives, DATA |-> MaxData]
Cap == [HELLO |-> RxCap, KEEPALIVE |-> RxCap, DATA |-> DataCap]

\* newMetalBondPeer: the goroutine of handle() exists, nothing else does.
Init ==
    /\ state = "CONNECTING"
    /\ conn = IF Direction = "INCOMING" THEN 1 ELSE 0
    /\ link = [c \in Run |-> IF c = 1 /\ Direction = "INCOMING" THEN "open" ELSE "none"]
    /\ made = 0 /\ timer = 0
    /\ handle = [n \in Run |-> IF n = 1 THEN "spawned" ELSE "none"]
    /\ rx = [n \in Run |-> "none"]
    /\ tx = [n \in Run |-> "none"]
    /\ ka = [n \in Run |-> "none"]
    /\ on = [n \in Run |-> [handle |-> 0, rx |-> 0, tx |-> 0, ka |-> 0]]
    /\ stop = [k \in Stopper |-> IF k = Call THEN "close1" ELSE "none"]
    /\ met = FALSE /\ missed = {}
    /\ stops = [n \in Run |-> NoStops]
    /\ rxq = [n \in Run |-> NoMessages]
    /\ txq = [n \in Run |-> <<>>]
    /\ armed = {}
    /\ wrote = [c \in Run |-> {}]
    /\ left = [c \in Run |-> Budget]

Over == {"none", "exited", "unresolved", "crashed"}
Running(g) == {n \in Run : g[n] \notin Over \cup {"spawned"}}

\* Bound: the last run of an OUTGOING peer that is followed is spared.
MayFail(kind, n) == kind \in Failures /\ (n < MaxRuns \/ Direction = "INCOMING")

\* What p.wg counts.
Counted == Running(handle) \cup Running(rx) \cup Running(tx) \cup Running(ka)

\* A Reset is under way.
Resetting == \E k \in Reset : stop[k] \notin {"none", "done"}

\* go p.Reset(), up to the bound on their number.
StartReset ==
    \E k \in Reset :
        /\ stop[k] = "none" /\ \A j \in Reset : j < k => stop[j] # "none"
        /\ stop' = [stop EXCEPT ![k] = "check"]
        /\ met' = (met \/ (Direction = "OUTGOING" /\ Resetting))

\* A send on the txChan c, which is possible while it is not full.
Full(c) == Len(txq[c]) = TxCap
Put(c, m) == Len(txq[c]) < TxCap /\ txq' = [txq EXCEPT ![c] = Append(@, m)]

\* sendMessage looks at the state once: an error when it is CLOSED, else the message
\* is sent, or the caller is blocked until there is room, whatever the state becomes.
sendMessage(m, returned, blocked) ==
    \/ state = "CLOSED" /\ UNCHANGED txq /\ returned
    \/ state # "CLOSED" /\ Put(made, m) /\ returned
    \/ state # "CLOSED" /\ Full(made) /\ UNCHANGED txq /\ blocked

-----------------------------------------------------------------------------
(* handle()                                                                *)

\* Back to the select of the main loop, on the channels the struct holds now.
Loop(n) ==
    /\ handle' = [handle EXCEPT ![n] = "loop"]
    /\ on' = [on EXCEPT ![n].handle = made]

Goto(n, there) == handle' = [handle EXCEPT ![n] = there] /\ UNCHANGED on

\* Blocked on the txChan that the struct holds now.
Block(n, there) ==
    /\ handle' = [handle EXCEPT ![n] = there]
    /\ on' = [on EXCEPT ![n].handle = made]

\* Channels that nobody waits on any more are garbage.
InUse(n) == \E m \in Counted : \E g \in DOMAIN on[m] : on[m][g] = n
Collected(q, empty) == [n \in Run |-> IF InUse(n) THEN q[n] ELSE empty]

\* Mutant of MakeChannels: a later run keeps the channels of the first.
KeepChannels(n) ==
    /\ handle[n] = "spawned"
    /\ made' = IF made = 0 THEN n ELSE made
    /\ Goto(n, "dial")
    /\ UNCHANGED <<state, conn, timer, armed, stop, met, missed, remote, queues, loops>>

MakeChannels(n) ==
    /\ handle[n] = "spawned"
    /\ made' = n
    /\ stops' = Collected(stops, NoStops)
    /\ rxq' = Collected(rxq, NoMessages)
    /\ txq' = Collected(txq, <<>>)
    /\ Goto(n, "dial")
    /\ UNCHANGED <<state, conn, timer, armed, stop, met, missed, remote, loops>>

\* The loop looks for a shutdown before each attempt, not during one.
BeginDial(n) ==
    /\ handle[n] = "dial"
    /\ conn = 0
    /\ stops[made].shutdown = 0
    /\ Goto(n, "dialling")
    /\ UNCHANGED <<state, conn, made, timer, armed, stop, met, missed, remote, queues, loops>>

\* An address that cannot be resolved ends handle() for good, without cleanup().
ResolveFails(n) ==
    /\ MayFail("resolve", n)
    /\ handle[n] = "dialling"
    /\ Goto(n, "unresolved")
    /\ UNCHANGED <<state, conn, made, timer, armed, stop, met, missed, remote, queues, loops>>

\* A failed DialTCP is tried again.
DialFails(n) ==
    /\ handle[n] = "dialling"
    /\ Goto(n, "dial")
    /\ UNCHANGED <<state, conn, made, timer, armed, stop, met, missed, remote, queues, loops>>

DialSucceeds(n) ==
    /\ handle[n] = "dialling"
    /\ conn' = n
    /\ link' = [link EXCEPT ![n] = "open"]
    /\ Goto(n, "dial")
    /\ UNCHANGED <<state, made, timer, armed, stop, met, missed, wrote, left, queues, loops>>

StopDialling(n) ==
    /\ handle[n] = "dial"
    /\ conn = 0
    /\ stops[made].shutdown > 0
    /\ stops' = [stops EXCEPT ![made].shutdown = @ - 1]
    /\ Goto(n, "exited")
    /\ UNCHANGED <<state, conn, made, timer, armed, stop, met, missed, remote, rxq, txq, loops>>

\* The loops are started; they count themselves when they first run.
StartLoops(n) ==
    /\ handle[n] = "dial"
    /\ conn # 0
    /\ rx' = [rx EXCEPT ![n] = "spawned"]
    /\ tx' = [tx EXCEPT ![n] = "spawned"]
    /\ handle' = [handle EXCEPT ![n] = IF Direction = "OUTGOING" THEN "hello" ELSE "loop"]
    /\ on' = [on EXCEPT ![n].handle = made]
    /\ UNCHANGED <<state, conn, made, timer, armed, stop, met, missed, remote, queues, ka>>

\* The handler opens or answers with HELLO, then sets the state.
SendHello(n) ==
    /\ handle[n] = "hello"
    /\ sendMessage("HELLO", Goto(n, "helloSent"), Block(n, "helloBlocked"))
    /\ UNCHANGED <<state, conn, made, timer, armed, stop, met, missed, remote, stops, rxq, loops>>

\* Mutant of SetHelloSent: the state is left alone.
ForgetHelloSent(n) ==
    /\ handle[n] = "helloSent"
    /\ Loop(n)
    /\ UNCHANGED <<state, conn, made, timer, armed, stop, met, missed, remote, queues, loops>>

SetHelloSent(n) ==
    /\ handle[n] = "helloSent"
    /\ state' = "HELLO_SENT"
    /\ Loop(n)
    /\ UNCHANGED <<conn, made, timer, armed, stop, met, missed, remote, queues, loops>>

\* A message of one of the channels that the select waits on.
Take(n, m) ==
    /\ handle[n] = "loop"
    /\ rxq[on[n].handle][m] > 0
    /\ rxq' = [rxq EXCEPT ![on[n].handle][m] = @ - 1]

processRxHello(n) ==
    /\ Take(n, "HELLO")
    /\ state' = "HELLO_RECEIVED"
    /\ ka' = [ka EXCEPT ![n] = "spawned"]
    /\ handle' = [handle EXCEPT ![n] = IF Direction = "INCOMING" THEN "hello" ELSE "loop"]
    /\ on' = [on EXCEPT ![n].handle = made]
    /\ UNCHANGED <<conn, made, timer, armed, stop, met, missed, remote, stops, txq, rx, tx>>

\* The state in which the first KEEPALIVE of the remote establishes the session.
Expecting == IF Direction = "INCOMING" THEN "HELLO_SENT" ELSE "HELLO_RECEIVED"

\* processRxKeepalive up to its decision, which reads the state.
processRxKeepalive(n) ==
    /\ Take(n, "KEEPALIVE")
    /\ \/ /\ state = Expecting
          /\ Goto(n, "establish")
          /\ UNCHANGED <<stop, met>>
       \/ /\ state = "ESTABLISHED"
          /\ Goto(n, "answer")
          /\ UNCHANGED <<stop, met>>
       \/ /\ state \notin {Expecting, "ESTABLISHED"}     \* the wrong state
          /\ StartReset
          /\ Loop(n)
    /\ UNCHANGED <<state, conn, made, timer, armed, missed, remote, stops, txq, loops>>

SetEstablished(n) ==
    /\ handle[n] = "establish"
    /\ state' = "ESTABLISHED"
    /\ Goto(n, "answer")
    /\ UNCHANGED <<conn, made, timer, armed, stop, met, missed, remote, queues, loops>>

\* resetKeepaliveTimeout, and the server's answer.
Answer(n) ==
    /\ handle[n] = "answer"
    /\ armed' = armed \cup ({timer} \ {0})
    /\ IF Direction = "INCOMING" THEN sendMessage("KEEPALIVE", Loop(n), Block(n, "answerBlocked"))
                                 ELSE Loop(n) /\ UNCHANGED txq
    /\ UNCHANGED <<state, conn, made, timer, stop, met, missed, remote, stops, rxq, loops>>

\* A SUBSCRIBE, which only servers are sent, may have to be answered with routes.
ProcessData(n) ==
    /\ Take(n, "DATA")
    /\ Loop(n) \/ (Direction = "INCOMING" /\ Goto(n, "reply"))
    /\ UNCHANGED <<state, conn, made, timer, armed, stop, met, missed, remote, stops, txq, loops>>

\* The replay of addSubscriber, as one UPDATE.  An error makes the handler call Reset,
\* which finds the peer CLOSED and returns.
Reply(n) ==
    /\ handle[n] = "reply"
    /\ \/ state = "ESTABLISHED" /\ sendMessage("UPDATE", Loop(n), Block(n, "replyBlocked"))
       \/ state # "ESTABLISHED" /\ Loop(n) /\ UNCHANGED txq
    /\ UNCHANGED <<state, conn, made, timer, armed, stop, met, missed, remote, stops, rxq, loops>>

\* What a blocked handler waits to send.
Held == [helloBlocked |-> "HELLO", answerBlocked |-> "KEEPALIVE", replyBlocked |-> "UPDATE"]

Unblock(n) ==
    /\ handle[n] \in DOMAIN Held
    /\ Put(on[n].handle, Held[handle[n]])
    /\ IF handle[n] = "helloBlocked" THEN Goto(n, "helloSent") ELSE Loop(n)
    /\ UNCHANGED <<state, conn, made, timer, armed, stop, met, missed, remote, stops, rxq, loops>>

\* cleanup() and return.
TakeShutdown(n) ==
    /\ handle[n] = "loop"
    /\ stops[on[n].handle].shutdown > 0
    /\ stops' = [stops EXCEPT ![on[n].handle].shutdown = @ - 1]
    /\ handle' = [handle EXCEPT ![n] = "exited"]
    /\ on' = [on EXCEPT ![n].handle = 0]
    /\ UNCHANGED <<state, conn, made, timer, armed, stop, met, missed, remote, rxq, txq, loops>>

HandleStep(n) ==
    \/ MakeChannels(n) \/ BeginDial(n) \/ ResolveFails(n) \/ DialFails(n) \/ DialSucceeds(n)
    \/ StopDialling(n) \/ StartLoops(n) \/ SendHello(n) \/ SetHelloSent(n)
    \/ processRxHello(n) \/ processRxKeepalive(n) \/ SetEstablished(n) \/ Answer(n)
    \/ ProcessData(n) \/ Reply(n) \/ Unblock(n) \/ TakeShutdown(n)

-----------------------------------------------------------------------------
(* rxLoop()                                                                *)

Stopping == state \in {"CLOSED", "RETRY"}

\* When a remote that follows the protocol sends m on c: the server answers a
\* HELLO with a HELLO and a KEEPALIVE with a KEEPALIVE, the client sends its HELLO
\* first and its KEEPALIVEs after the server's HELLO; data follows KEEPALIVE.
RemoteMaySend(c, m) ==
    /\ left[c][m] > 0
    /\ \/ m = "HELLO" /\ (Direction = "OUTGOING" => "HELLO" \in wrote[c])
       \/ m = "KEEPALIVE" /\ (IF Direction = "OUTGOING" THEN "KEEPALIVE" ELSE "HELLO") \in wrote[c]
       \/ m = "DATA" /\ "KEEPALIVE" \in wrote[c]

\* The loop counts itself and reads from p.conn; if that is nil, it panics.
StartRx(n) ==
    /\ rx[n] = "spawned"
    /\ rx' = [rx EXCEPT ![n] = IF conn = 0 THEN "crashed" ELSE "read"]
    /\ on' = [on EXCEPT ![n].rx = conn]
    /\ UNCHANGED <<state, conn, made, timer, armed, handle, stop, met, missed, remote, queues, tx, ka>>

\* A Read that returns a message; the state is looked at only now.
ReadMessage(n, m) ==
    /\ rx[n] = "read"
    /\ link[on[n].rx] = "open"
    /\ RemoteMaySend(on[n].rx, m)
    /\ left' = [left EXCEPT ![on[n].rx][m] = @ - 1]
    /\ rx' = [rx EXCEPT ![n] = IF Stopping THEN "exited" ELSE m]
    /\ on' = [on EXCEPT ![n].rx = IF Stopping THEN 0 ELSE made]
    /\ UNCHANGED <<state, conn, made, timer, armed, handle, stop, met, missed, link, wrote, queues, tx, ka>>

\* Mutant of Deliver: a channel without a capacity.
DeliverUnbounded(n, m) ==
    /\ rx[n] = m
    /\ rxq' = [rxq EXCEPT ![on[n].rx][m] = @ + 1]
    /\ rx' = [rx EXCEPT ![n] = "read"]
    /\ on' = [on EXCEPT ![n].rx = conn]
    /\ UNCHANGED <<state, conn, made, timer, armed, handle, stop, met, missed, remote, stops, txq, tx, ka>>

\* The send on the message's channel blocks while the channel is full.
Deliver(n, m) ==
    /\ rx[n] = m
    /\ rxq[on[n].rx][m] < Cap[m]
    /\ rxq' = [rxq EXCEPT ![on[n].rx][m] = @ + 1]
    /\ rx' = [rx EXCEPT ![n] = "read"]
    /\ on' = [on EXCEPT ![n].rx = conn]
    /\ UNCHANGED <<state, conn, made, timer, armed, handle, stop, met, missed, remote, stops, txq, tx, ka>>

ReadFails(n) ==
    /\ rx[n] = "read"
    /\ link[on[n].rx] # "open"
    /\ rx' = [rx EXCEPT ![n] = "exited"]
    /\ on' = [on EXCEPT ![n].rx = 0]
    /\ IF Stopping THEN UNCHANGED <<stop, met>> ELSE StartReset
    /\ UNCHANGED <<state, conn, made, timer, armed, handle, missed, remote, queues, tx, ka>>

\* A packet of an unknown type ends the loop, and nothing else; one of another
\* version, or that cannot be decoded, starts a Reset too.
ReadGarbage(n) ==
    /\ MayFail("garbage", n)
    /\ rx[n] = "read"
    /\ link[on[n].rx] = "open"
    /\ rx' = [rx EXCEPT ![n] = "exited"]
    /\ on' = [on EXCEPT ![n].rx = 0]
    /\ UNCHANGED <<stop, met>> \/ (~Stopping /\ StartReset)
    /\ UNCHANGED <<state, conn, made, timer, armed, handle, missed, remote, queues, tx, ka>>

-----------------------------------------------------------------------------
(* txLoop() and keepaliveLoop()                                            *)

\* Nothing more is exchanged on c.
Ends(c, how) ==
    /\ link' = [link EXCEPT ![c] = how]
    /\ wrote' = [wrote EXCEPT ![c] = {}]
    /\ left' = [left EXCEPT ![c] = NoMessages]

StartTx(n) ==
    /\ tx[n] = "spawned"
    /\ tx' = [tx EXCEPT ![n] = "loop"]
    /\ on' = [on EXCEPT ![n].tx = made]
    /\ UNCHANGED <<state, conn, made, timer, armed, handle, stop, met, missed, remote, queues, rx, ka>>

\* Something to write, or the message that ends the loop, and p.conn is nil.
UseNil(n) ==
    /\ tx[n] = "loop"
    /\ txq[on[n].tx] # <<>> \/ stops[on[n].tx].txChanClose > 0
    /\ conn = 0
    /\ tx' = [tx EXCEPT ![n] = "crashed"]
    /\ on' = [on EXCEPT ![n].tx = 0]
    /\ UNCHANGED <<state, conn, made, timer, armed, handle, stop, met, missed, remote, queues, rx, ka>>

\* A Write that the remote no longer reads may succeed.
Transmit(n) ==
    /\ tx[n] = "loop"
    /\ txq[on[n].tx] # <<>>
    /\ conn # 0
    /\ txq' = [txq EXCEPT ![on[n].tx] = Tail(@)]
    /\ \/ /\ link[conn] # "closed"
          /\ wrote' = IF link[conn] = "open" THEN [wrote EXCEPT ![conn] = @ \cup {Head(txq[on[n].tx])}]
                     ELSE wrote
          /\ UNCHANGED <<stop, met>>
       \/ /\ link[conn] = "closed" \/ (link[conn] = "broken" /\ MayFail("write", conn))
          /\ StartReset
          /\ UNCHANGED wrote
    /\ on' = [on EXCEPT ![n].tx = made]
    /\ UNCHANGED <<missed, state, conn, made, timer, armed, handle, link, left, stops, rxq, loops>>

CloseConnection(n) ==
    /\ tx[n] = "loop"
    /\ stops[on[n].tx].txChanClose > 0
    /\ conn # 0
    /\ stops' = [stops EXCEPT ![on[n].tx].txChanClose = @ - 1]
    /\ Ends(conn, "closed")
    /\ tx' = [tx EXCEPT ![n] = "exited"]
    /\ on' = [on EXCEPT ![n].tx = 0]
    /\ UNCHANGED <<state, conn, made, timer, armed, handle, stop, met, missed, rxq, txq, rx, ka>>

\* The keepaliveLoop makes its timer as it starts.
StartKeepalive(n) ==
    /\ ka[n] = "spawned"
    /\ timer' = n
    /\ armed' = armed \cup {n}
    /\ ka' = [ka EXCEPT ![n] = IF Direction = "OUTGOING" THEN "send" ELSE "loop"]
    /\ on' = [on EXCEPT ![n].ka = made]
    /\ UNCHANGED <<state, conn, made, handle, stop, met, missed, remote, queues, rx, tx>>

SendKeepalive(n) ==
    /\ ka[n] = "send"
    /\ sendMessage("KEEPALIVE", ka' = [ka EXCEPT ![n] = "loop"], ka' = [ka EXCEPT ![n] = "blocked"])
    /\ on' = [on EXCEPT ![n].ka = made]
    /\ UNCHANGED <<state, conn, made, timer, armed, handle, stop, met, missed, remote, stops, rxq, rx, tx>>

UnblockKeepalive(n) ==
    /\ ka[n] = "blocked"
    /\ Put(on[n].ka, "KEEPALIVE")
    /\ ka' = [ka EXCEPT ![n] = "loop"]
    /\ on' = [on EXCEPT ![n].ka = made]
    /\ UNCHANGED <<state, conn, made, timer, armed, handle, stop, met, missed, remote, stops, rxq, rx, tx>>

Tick(n) ==
    /\ ka[n] = "loop"
    /\ Direction = "OUTGOING"
    /\ ka' = [ka EXCEPT ![n] = "send"]
    /\ UNCHANGED <<state, conn, made, timer, armed, handle, on, stop, met, missed, remote, queues, rx, tx>>

Timeout(n) ==
    /\ MayFail("timeout", n)
    /\ ka[n] = "loop"
    /\ n \in armed
    /\ armed' = armed \ {n}
    /\ StartReset
    /\ on' = [on EXCEPT ![n].ka = made]
    /\ UNCHANGED <<state, conn, made, timer, handle, missed, remote, queues, loops>>

StopKeepalive(n) ==
    /\ ka[n] = "loop"
    /\ stops[on[n].ka].keepaliveStop > 0
    /\ stops' = [stops EXCEPT ![on[n].ka].keepaliveStop = @ - 1]
    /\ armed' = armed \ {timer}
    /\ ka' = [ka EXCEPT ![n] = "exited"]
    /\ on' = [on EXCEPT ![n].ka = 0]
    /\ UNCHANGED <<state, conn, made, timer, handle, stop, met, missed, remote, rxq, txq, rx, tx>>

rxStep(n) == StartRx(n) \/ ReadFails(n) \/ \E m \in DOMAIN Cap : Deliver(n, m)
txStep(n) == StartTx(n) \/ Transmit(n) \/ CloseConnection(n) \/ UseNil(n)
kaStep(n) == StartKeepalive(n) \/ SendKeepalive(n) \/ UnblockKeepalive(n) \/ StopKeepalive(n)

-----------------------------------------------------------------------------
(* Reset() and Close()                                                     *)

At(k, here, there) ==
    stop[k] = here /\ stop' = [stop EXCEPT ![k] = there] /\ UNCHANGED met

ResetChecks(k) ==
    /\ At(k, "check", CASE state = "CLOSED" -> "done"
                        [] state # "CLOSED" /\ Direction = "INCOMING" -> "close1"
                        [] state # "CLOSED" /\ Direction = "OUTGOING" -> "retry")
    /\ UNCHANGED <<state, conn, made, timer, armed, handle, on, missed, remote, queues, loops>>


\* The three sends of Reset and of Close; a send on a channel that is nil never ends.
SendStops(k, here, there) ==
    /\ \/ /\ made # 0
          /\ At(k, here, there)
          /\ \A c \in DOMAIN NoStops : stops[made][c] < StopCap
          /\ stops' = [stops EXCEPT ![made] = [c \in DOMAIN NoStops |-> @[c] + 1]]
       \/ /\ made = 0
          /\ At(k, here, "stuck")
          /\ UNCHANGED stops
    /\ UNCHANGED <<state, conn, made, timer, armed, handle, on, missed, remote, rxq, txq, loops>>

SetState(k, here, new, there) ==
    /\ At(k, here, there)
    /\ state' = new
    /\ UNCHANGED <<conn, made, timer, armed, handle, on, missed, remote, queues, loops>>

\* Mutants of WaitForGoroutines: it does not wait; it keeps the old connection.
DoNotWait(k) ==
    /\ At(k, "wait", "pause")
    /\ conn' = 0
    /\ UNCHANGED <<state, missed, made, timer, armed, handle, on, remote, queues, loops>>

KeepConnection(k) ==
    /\ At(k, "wait", "pause")
    /\ Counted = {}
    /\ UNCHANGED <<state, conn, missed, made, timer, armed, handle, on, remote, queues, loops>>

\* p.wg.Wait(), then the connection is forgotten and the goroutine sleeps; loops that
\* have not run yet are not waited for.
WaitForGoroutines(k) ==
    /\ At(k, "wait", "pause")
    /\ Counted = {}
    /\ conn' = 0
    /\ missed' = missed \cup {n \in Run : "spawned" \in {rx[n], tx[n], ka[n]}}
    /\ UNCHANGED <<state, made, timer, armed, handle, on, remote, queues, loops>>

Respawn(k) ==
    /\ At(k, "respawn", "done")
    /\ \E n \in Run :
          /\ handle[n] = "none" /\ \A m \in Run : m < n => handle[m] # "none"
          /\ handle' = [handle EXCEPT ![n] = "spawned"]
    /\ UNCHANGED <<state, conn, made, timer, armed, on, missed, remote, queues, loops>>

\* Reset closes an INCOMING peer itself and again through RemovePeer.
AfterClose(k, here) == IF k \in Reset /\ here = "close1" THEN "close2" ELSE "done"

CloseChecks(k, here, set) ==
    /\ At(k, here, IF state = "CLOSED" THEN AfterClose(k, here) ELSE set)
    /\ UNCHANGED <<state, conn, made, timer, armed, handle, on, missed, remote, queues, loops>>

ResetStep(k) ==
    \/ ResetChecks(k)
    \/ SetState(k, "retry", "RETRY", "stops")
    \/ SendStops(k, "stops", "wait")
    \/ WaitForGoroutines(k)
    \/ SetState(k, "pause", "CONNECTING", "respawn")
    \/ Respawn(k)

CloseStep(k) ==
    \/ CloseChecks(k, "close1", "set1") \/ CloseChecks(k, "close2", "set2")
    \/ SetState(k, "set1", "CLOSED", "stops1") \/ SetState(k, "set2", "CLOSED", "stops2")
    \/ SendStops(k, "stops1", AfterClose(k, "close1"))
    \/ SendStops(k, "stops2", "done")

-----------------------------------------------------------------------------

\* The remote closes a connection.
RemoteCloses(c) ==
    /\ MayFail("eof", c)
    /\ link[c] = "open"
    /\ Ends(c, "broken")
    /\ UNCHANGED <<state, conn, made, timer, armed, handle, on, stop, met, missed, queues, loops>>

Next ==
    \/ \E n \in Run : HandleStep(n) \/ rxStep(n) \/ txStep(n) \/ kaStep(n)
    \/ \E n \in Run : Tick(n) \/ Timeout(n) \/ ReadGarbage(n)
    \/ \E n \in Run : \E m \in DOMAIN Cap : ReadMessage(n, m)
    \/ \E k \in Stopper : ResetStep(k) \/ CloseStep(k)
    \/ \E c \in Run : RemoteCloses(c)

Spec == Init /\ [][Next]_vars

\* What a random select, or other senders on a full channel, must not put off for ever.
\* Each of these happens a bounded number of times, so that fairness of them all is
\* fairness of each.
Awaited(n) == TakeShutdown(n) \/ CloseConnection(n) \/ StopKeepalive(n) \/ Unblock(n)

\* Goroutines run, a select chooses at random, and a channel serves those blocked on it
\* in their order; a timer that nothing can re-arm any more goes off.
Fairness ==
    /\ \A n \in Run : /\ WF_vars(HandleStep(n)) /\ WF_vars(rxStep(n))
                      /\ WF_vars(txStep(n)) /\ WF_vars(kaStep(n))
                      /\ WF_vars(rx[n] = "exited" /\ Timeout(n))
    /\ SF_vars(\E n \in Run : Awaited(n))
    /\ \A k \in Stopper \cap Reset : WF_vars(ResetStep(k) \/ CloseStep(k))
    /\ \A k \in Stopper \ Reset : WF_vars(stop[k] # "close1" /\ CloseStep(k))

FairSpec == Spec /\ Fairness

\* The server can be reached now and then, and answers.
ServerFairness ==
    /\ SF_vars(\E n \in Run : DialSucceeds(n))
    /\ SF_vars(\E n \in Run : ReadMessage(n, "HELLO") \/ ReadMessage(n, "KEEPALIVE"))

ReachableSpec == FairSpec /\ ServerFairness

-----------------------------------------------------------------------------
(* Properties.                                                             *)

HandlePC == {"none", "spawned", "dial", "dialling", "hello", "helloBlocked", "helloSent", "loop",
             "establish", "answer", "answerBlocked", "reply", "replyBlocked", "exited",
             "unresolved"}
RxPC == {"none", "spawned", "read", "HELLO", "KEEPALIVE", "DATA", "exited", "crashed"}
TxPC == {"none", "spawned", "loop", "exited", "crashed"}
KaPC == {"none", "spawned", "send", "blocked", "loop", "exited"}
Frames == {"HELLO", "KEEPALIVE", "UPDATE"}
StopPC == {"none", "check", "retry", "stops", "wait", "pause", "respawn", "close1", "set1",
           "stops1", "close2", "set2", "stops2", "stuck", "done"}

Stops == [shutdown : 0 .. StopCap, keepaliveStop : 0 .. StopCap, txChanClose : 0 .. StopCap]
Received == [HELLO : 0 .. RxCap, KEEPALIVE : 0 .. RxCap, DATA : 0 .. DataCap]
Remaining == [HELLO : 0 .. 1, KEEPALIVE : 0 .. MaxKeepalives, DATA : 0 .. MaxData]
Waits == [handle : {0} \cup Run, rx : {0} \cup Run, tx : {0} \cup Run, ka : {0} \cup Run]

\* No channel holds more than its capacity, and the last run followed by this
\* model makes the last channels (the channels handle() makes, peer.go 269-277).
TypeOK ==
    /\ state \in State /\ conn \in {0} \cup Run /\ made \in {0} \cup Run /\ timer \in {0} \cup Run
    /\ link \in [Run -> {"none", "open", "broken", "closed"}]
    /\ handle \in [Run -> HandlePC]
    /\ rx \in [Run -> RxPC] /\ tx \in [Run -> TxPC] /\ ka \in [Run -> KaPC]
    /\ on \in [Run -> Waits]
    /\ stop \in [Stopper -> StopPC] /\ met \in BOOLEAN /\ missed \subseteq Run
    /\ stops \in [Run -> Stops]
    /\ rxq \in [Run -> Received]
    /\ txq \in [Run -> Seq(Frames)] /\ \A n \in Run : Len(txq[n]) <= TxCap
    /\ armed \subseteq Run
    /\ wrote \in [Run -> SUBSET Frames]
    /\ left \in [Run -> Remaining]

\* Reset sets p.conn to nil (peer.go 611) when it has waited for the goroutines of
\* all runs.  However many Resets overlap, the only loops that ever find it nil, and
\* end the program, are ones that had not counted themselves when it waited, as they
\* do so themselves (peer.go 365, 715) and not the handler that starts them.
NoNilConnection ==
    \A n \in Run \ missed : rx[n] # "crashed" /\ tx[n] # "crashed"

\* Nobody resets or closes the peer, Resets of an OUTGOING peer have not overlapped:
\* mtxReset is only read-locked (peer.go 587), each of two that do starts a handle()
\* of its own, and the two then share the struct.  And no loop of an earlier run is
\* left that its Reset did not wait for.
Undisturbed ==
    /\ Calls = 1 => stop[Call] = "close1"
    /\ ~Resetting /\ ~met /\ missed = {}

\* As long as nobody resets or closes the peer, and again after each reconnection,
\* a KEEPALIVE is never taken in the wrong state (peer.go 507-511), although it comes
\* through another channel than HELLO, the select of handle() is random and the
\* keepaliveLoop sends on its own.
HandshakeInOrder ==
    \A n \in Run :
        /\ handle[n] = "loop" /\ rxq[on[n].handle].KEEPALIVE > 0
        /\ state # "CLOSED" /\ Undisturbed
        => state \in {Expecting, "ESTABLISHED"}

\* Blocked for good: the handler or the keepaliveLoop on a full txChan that no txLoop
\* reads any more, the rxLoop on a full channel when no handler is left to read it.
Unread(c) == \A n \in Run : tx[n] \in Over \/ (tx[n] = "loop" /\ on[n].tx # c)
HandleJammed(n) == handle[n] \in DOMAIN Held /\ Full(on[n].handle) /\ Unread(on[n].handle)
KaJammed(n) == ka[n] = "blocked" /\ Full(on[n].ka) /\ Unread(on[n].ka)
RxJammed(n) ==
    /\ rx[n] \in DOMAIN Cap
    /\ rxq[on[n].rx][rx[n]] = Cap[rx[n]]
    /\ \A m \in Run : handle[m] \in Over \/ HandleJammed(m)
Jammed == {n \in Run : HandleJammed(n) \/ KaJammed(n) \/ RxJammed(n)}

\* Runs whose handler could not resolve an address, and has ended.
Unresolved == {n \in Run : handle[n] = "unresolved"}

\* A client that lost its connection connects again (test "should reconnect",
\* peer_test.go 177-202), unless a goroutine that Reset waits for is blocked for good,
\* its handler could not resolve an address (peer.go 296-306), Resets overlapped, or
\* a loop that Reset did not wait for came after it.
ReconnectsEventually ==
    state = "RETRY" ~> \/ state = "ESTABLISHED"
                       \/ Jammed \cup Unresolved \cup missed # {} \/ met

\* Close found no channels yet, and waits for ever (the module Registry).
Stuck == Calls = 1 /\ stop[Call] = "stuck"

\* The receive loop ended, at a packet of an unknown type, before a HELLO started
\* the keepalive timer: nobody learns any more what becomes of the connection.
Deaf == rx[1] = "exited" /\ ka[1] = "none"

\* Runs with a goroutine, be it only started, that has not come to its end and is
\* not blocked for good either.
Alive ==
    {n \in Run : \/ handle[n] \notin Over /\ ~HandleJammed(n)
                 \/ rx[n] \notin Over /\ ~RxJammed(n)
                 \/ tx[n] \notin Over
                 \/ ka[n] \notin Over /\ ~KaJammed(n)}

==============================================================================
