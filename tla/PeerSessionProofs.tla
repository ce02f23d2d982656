-------------------------- MODULE PeerSessionProofs --------------------------
(***************************************************************************)
(* Proofs about the life of a peer object, for any number of runs, Resets  *)
(* and messages, any channel capacities and any set of failures.           *)
(***************************************************************************)
EXTENDS PeerSession, TLAPS

-----------------------------------------------------------------------------
(* Nil.                                                                    *)

\* Goroutines run with the channels that some handle() made, and what they wait on
\* exists.  The loops that a Reset has waited for, or still will, find a connection.
NilOK ==
    \A n \in Run :
        /\ handle[n] \notin {"none", "spawned"} => made # 0
        /\ "spawned" \in {rx[n], tx[n], ka[n]} => made # 0
        /\ rx[n] \in {"read", "HELLO", "KEEPALIVE", "DATA"} => made # 0 /\ conn # 0 /\ on[n].rx # 0
        /\ tx[n] = "loop" => made # 0 /\ on[n].tx # 0
        /\ ka[n] \in {"send", "blocked", "loop"} => made # 0 /\ on[n].ka # 0
        /\ handle[n] \in {"loop", "helloBlocked", "answerBlocked", "replyBlocked"} =>
              on[n].handle # 0
        /\ n \notin missed =>
              /\ rx[n] = "spawned" \/ tx[n] \in {"spawned", "loop"} => conn # 0
              /\ rx[n] # "crashed" /\ tx[n] # "crashed"

\* What NilOK needs of the types.
Shapes ==
    /\ conn \in {0} \cup Run /\ made \in {0} \cup Run
    /\ handle \in [Run -> HandlePC]
    /\ rx \in [Run -> RxPC] /\ tx \in [Run -> TxPC] /\ ka \in [Run -> KaPC]
    /\ on \in [Run -> Waits]

LEMMA TypedShapes == TypeOK => Shapes
  BY DEF TypeOK, Shapes

\* Reset forgets the connection only when no goroutine of any run is left, and a
\* run starts its loops only after it has channels and a connection.
LEMMA StepKeepsNil == Shapes /\ NilOK /\ [Next]_vars => NilOK'
<1>. SUFFICES ASSUME Shapes, NilOK, [Next]_vars PROVE NilOK'
  OBVIOUS
<1>a. 0 \notin Run /\ \A n \in Run : n # 0
  BY DEF Run
<1>. USE <1>a DEF Shapes, NilOK, HandlePC, RxPC, TxPC, KaPC, Waits, Cap
<1>1. ASSUME NEW n \in Run, MakeChannels(n) PROVE NilOK'
  BY <1>1 DEF MakeChannels, Goto, remote, loops
<1>2. ASSUME NEW n \in Run, BeginDial(n) PROVE NilOK'
  BY <1>2 DEF BeginDial, Goto, remote, queues, loops
<1>3. ASSUME NEW n \in Run, DialFails(n) PROVE NilOK'
  BY <1>3 DEF DialFails, Goto, remote, queues, loops
<1>3r. ASSUME NEW n \in Run, ResolveFails(n) PROVE NilOK'
  BY <1>3r DEF ResolveFails, Goto, remote, queues, loops
<1>4. ASSUME NEW n \in Run, DialSucceeds(n) PROVE NilOK'
  BY <1>4 DEF DialSucceeds, Goto, queues, loops
<1>5. ASSUME NEW n \in Run, StopDialling(n) PROVE NilOK'
  BY <1>5 DEF StopDialling, Goto, remote, loops
<1>6. ASSUME NEW n \in Run, StartLoops(n) PROVE NilOK'
  BY <1>6 DEF StartLoops, remote, queues
<1>7. ASSUME NEW n \in Run, SendHello(n) PROVE NilOK'
  BY <1>7 DEF SendHello, sendMessage, Goto, Block, remote, loops
<1>8. ASSUME NEW n \in Run, SetHelloSent(n) PROVE NilOK'
  BY <1>8 DEF SetHelloSent, Loop, remote, queues, loops
<1>9. ASSUME NEW n \in Run, processRxHello(n) PROVE NilOK'
  BY <1>9 DEF processRxHello, Take, remote
<1>10. ASSUME NEW n \in Run, processRxKeepalive(n) PROVE NilOK'
  BY <1>10 DEF processRxKeepalive, Take, Goto, Loop, StartReset, remote, loops
<1>11. ASSUME NEW n \in Run, SetEstablished(n) PROVE NilOK'
  BY <1>11 DEF SetEstablished, Goto, remote, queues, loops
<1>12. ASSUME NEW n \in Run, Answer(n) PROVE NilOK'
  BY <1>12 DEF Answer, sendMessage, Loop, Block, remote, loops
<1>13. ASSUME NEW n \in Run, ProcessData(n) PROVE NilOK'
  BY <1>13 DEF ProcessData, Take, Loop, Goto, remote, loops
<1>13r. ASSUME NEW n \in Run, Reply(n) PROVE NilOK'
  BY <1>13r DEF Reply, sendMessage, Loop, Block, remote, loops
<1>13u. ASSUME NEW n \in Run, Unblock(n) PROVE NilOK'
  BY <1>13u DEF Unblock, Held, Loop, Goto, remote, loops
<1>14. ASSUME NEW n \in Run, TakeShutdown(n) PROVE NilOK'
  BY <1>14 DEF TakeShutdown, remote, loops
<1>14s. ASSUME NEW n \in Run, StartRx(n) PROVE NilOK'
  BY <1>14s DEF StartRx, remote, queues
<1>15. ASSUME NEW n \in Run, ReadFails(n) PROVE NilOK'
  BY <1>15 DEF ReadFails, StartReset, remote, queues
<1>16. ASSUME NEW n \in Run, NEW m \in DOMAIN Cap, Deliver(n, m) PROVE NilOK'
  BY <1>16 DEF Deliver, remote
<1>16s. ASSUME NEW n \in Run, StartTx(n) PROVE NilOK'
  BY <1>16s DEF StartTx, remote, queues
<1>17. ASSUME NEW n \in Run, Transmit(n) PROVE NilOK'
  BY <1>17 DEF Transmit, StartReset, loops
<1>18. ASSUME NEW n \in Run, CloseConnection(n) PROVE NilOK'
  BY <1>18 DEF CloseConnection, Ends
<1>18n. ASSUME NEW n \in Run, UseNil(n) PROVE NilOK'
  BY <1>18n DEF UseNil, remote, queues
<1>18k. ASSUME NEW n \in Run, StartKeepalive(n) PROVE NilOK'
  BY <1>18k DEF StartKeepalive, remote, queues
<1>19. ASSUME NEW n \in Run, SendKeepalive(n) PROVE NilOK'
  BY <1>19 DEF SendKeepalive, sendMessage, remote
<1>19u. ASSUME NEW n \in Run, UnblockKeepalive(n) PROVE NilOK'
  BY <1>19u DEF UnblockKeepalive, remote
<1>20. ASSUME NEW n \in Run, StopKeepalive(n) PROVE NilOK'
  BY <1>20 DEF StopKeepalive, remote
<1>21. ASSUME NEW n \in Run, Tick(n) PROVE NilOK'
  BY <1>21 DEF Tick, remote, queues
<1>22. ASSUME NEW n \in Run, Timeout(n) PROVE NilOK'
  BY <1>22 DEF Timeout, StartReset, remote, queues, loops
<1>23. ASSUME NEW n \in Run, ReadGarbage(n) PROVE NilOK'
  BY <1>23 DEF ReadGarbage, StartReset, remote, queues
<1>24. ASSUME NEW n \in Run, NEW m \in DOMAIN Cap, ReadMessage(n, m) PROVE NilOK'
  BY <1>24 DEF ReadMessage, queues
<1>25. ASSUME NEW k \in Stopper, ResetChecks(k) PROVE NilOK'
  BY <1>25 DEF ResetChecks, At, remote, queues, loops
<1>26. ASSUME NEW k \in Stopper, SetState(k, "retry", "RETRY", "stops") PROVE NilOK'
  BY <1>26 DEF SetState, At, remote, queues, loops
<1>27. ASSUME NEW k \in Stopper, SendStops(k, "stops", "wait") PROVE NilOK'
  BY <1>27 DEF SendStops, At, remote, loops
<1>28. ASSUME NEW k \in Stopper, WaitForGoroutines(k) PROVE NilOK'
  BY <1>28 DEF WaitForGoroutines, remote, queues, loops, Counted, Running, Over
<1>29. ASSUME NEW k \in Stopper, SetState(k, "pause", "CONNECTING", "respawn") PROVE NilOK'
  BY <1>29 DEF SetState, At, remote, queues, loops
<1>30. ASSUME NEW k \in Stopper, Respawn(k) PROVE NilOK'
  BY <1>30 DEF Respawn, At, remote, queues, loops
<1>31. ASSUME NEW k \in Stopper, CloseChecks(k, "close1", "set1") PROVE NilOK'
  BY <1>31 DEF CloseChecks, AfterClose, At, remote, queues, loops
<1>32. ASSUME NEW k \in Stopper, CloseChecks(k, "close2", "set2") PROVE NilOK'
  BY <1>32 DEF CloseChecks, AfterClose, At, remote, queues, loops
<1>33. ASSUME NEW k \in Stopper, SetState(k, "set1", "CLOSED", "stops1") PROVE NilOK'
  BY <1>33 DEF SetState, At, remote, queues, loops
<1>34. ASSUME NEW k \in Stopper, SetState(k, "set2", "CLOSED", "stops2") PROVE NilOK'
  BY <1>34 DEF SetState, At, remote, queues, loops
<1>35. ASSUME NEW k \in Stopper, SendStops(k, "stops1", AfterClose(k, "close1"))
       PROVE  NilOK'
  BY <1>35 DEF SendStops, At, remote, loops, AfterClose
<1>36. ASSUME NEW k \in Stopper, SendStops(k, "stops2", "done") PROVE NilOK'
  BY <1>36 DEF SendStops, At, remote, loops
<1>37. ASSUME NEW c \in Run, RemoteCloses(c) PROVE NilOK'
  BY <1>37 DEF RemoteCloses, Ends, queues, loops
<1>38. CASE UNCHANGED vars
  BY <1>38 DEF vars, remote, queues, loops
<1>. QED
  BY <1>1, <1>2, <1>3, <1>3r, <1>4, <1>5, <1>6, <1>7, <1>8, <1>9, <1>10, <1>11, <1>12,
     <1>13, <1>13r, <1>13u, <1>14, <1>14s, <1>15, <1>16, <1>16s, <1>17, <1>18, <1>18n,
     <1>18k, <1>19, <1>19u, <1>20, <1>21, <1>22, <1>23, <1>24, <1>25, <1>26, <1>27, <1>28,
     <1>29, <1>30, <1>31, <1>32, <1>33, <1>34, <1>35, <1>36, <1>37, <1>38
  DEF Next, HandleStep, rxStep, txStep, kaStep, ResetStep, CloseStep

-----------------------------------------------------------------------------
(* Type correctness.                                                       *)

\* Storing what a goroutine waits on.
LEMMA WaitsStep ==
    ASSUME NEW o \in [Run -> Waits], NEW n \in Run, NEW x \in {0} \cup Run
    PROVE  /\ [o EXCEPT ![n].handle = x] \in [Run -> Waits]
           /\ [o EXCEPT ![n].rx = x] \in [Run -> Waits]
           /\ [o EXCEPT ![n].tx = x] \in [Run -> Waits]
           /\ [o EXCEPT ![n].ka = x] \in [Run -> Waits]
<1>1. /\ [o EXCEPT ![n].handle = x] \in [Run -> Waits]
      /\ [o EXCEPT ![n].rx = x] \in [Run -> Waits]
  BY DEF Waits
<1>2. /\ [o EXCEPT ![n].tx = x] \in [Run -> Waits]
      /\ [o EXCEPT ![n].ka = x] \in [Run -> Waits]
  BY DEF Waits
<1>. QED
  BY <1>1, <1>2

\* Where a handler may go.
LEMMA GotoStep ==
    ASSUME NEW h \in [Run -> HandlePC], NEW n \in Run, NEW x \in HandlePC
    PROVE  [h EXCEPT ![n] = x] \in [Run -> HandlePC]
  OBVIOUS

\* Counting a message of some kind in or out of one of the channels.
LEMMA ReceivedStep ==
    ASSUME NEW q \in [Run -> Received], NEW c \in Run, NEW m \in DOMAIN Cap
    PROVE  /\ q[c][m] \in Nat
           /\ q[c][m] > 0 => [q EXCEPT ![c][m] = @ - 1] \in [Run -> Received]
           /\ q[c][m] < Cap[m] => [q EXCEPT ![c][m] = @ + 1] \in [Run -> Received]
<1>. USE SessionAssumption
<1>1. m \in {"HELLO", "KEEPALIVE", "DATA"} /\ q[c] \in Received
  BY DEF Cap
<1>2. CASE m = "HELLO"
  BY <1>1, <1>2 DEF Received, Cap
<1>3. CASE m = "KEEPALIVE"
  BY <1>1, <1>3 DEF Received, Cap
<1>4. CASE m = "DATA"
  BY <1>1, <1>4 DEF Received, Cap
<1>. QED
  BY <1>1, <1>2, <1>3, <1>4

LEMMA RemainingStep ==
    ASSUME NEW q \in [Run -> Remaining], NEW c \in Run, NEW m \in DOMAIN Cap, q[c][m] > 0
    PROVE  [q EXCEPT ![c][m] = @ - 1] \in [Run -> Remaining]
<1>. USE SessionAssumption
<1>1. m \in {"HELLO", "KEEPALIVE", "DATA"} /\ q[c] \in Remaining
  BY DEF Cap
<1>2. CASE m = "HELLO"
  BY <1>1, <1>2 DEF Remaining
<1>3. CASE m = "KEEPALIVE"
  BY <1>1, <1>3 DEF Remaining
<1>4. CASE m = "DATA"
  BY <1>1, <1>4 DEF Remaining
<1>. QED
  BY <1>1, <1>2, <1>3, <1>4

LEMMA StopsStep ==
    ASSUME NEW s \in [Run -> Stops], NEW c \in Run
    PROVE  /\ s[c].shutdown > 0 => [s EXCEPT ![c].shutdown = @ - 1] \in [Run -> Stops]
           /\ s[c].keepaliveStop > 0 => [s EXCEPT ![c].keepaliveStop = @ - 1] \in [Run -> Stops]
           /\ s[c].txChanClose > 0 => [s EXCEPT ![c].txChanClose = @ - 1] \in [Run -> Stops]
           /\ (\A x \in DOMAIN NoStops : s[c][x] < StopCap) =>
                 [s EXCEPT ![c] = [x \in DOMAIN NoStops |-> @[x] + 1]] \in [Run -> Stops]
<1>. USE DEF StopCap
<1>1. s[c] \in Stops
  OBVIOUS
<1>2. s[c].shutdown > 0 => [s EXCEPT ![c].shutdown = @ - 1] \in [Run -> Stops]
  BY <1>1 DEF Stops
<1>3. s[c].keepaliveStop > 0 => [s EXCEPT ![c].keepaliveStop = @ - 1] \in [Run -> Stops]
  BY <1>1 DEF Stops
<1>4. s[c].txChanClose > 0 => [s EXCEPT ![c].txChanClose = @ - 1] \in [Run -> Stops]
  BY <1>1 DEF Stops
<1>5. ASSUME \A x \in DOMAIN NoStops : s[c][x] < StopCap
      PROVE  [s EXCEPT ![c] = [x \in DOMAIN NoStops |-> @[x] + 1]] \in [Run -> Stops]
  <2>1. [x \in DOMAIN NoStops |-> s[c][x] + 1] \in Stops
    BY <1>1, <1>5 DEF Stops, NoStops
  <2>. QED
    BY <2>1
<1>. QED
  BY <1>2, <1>3, <1>4, <1>5

TxTyped(q) == q \in [Run -> Seq(Frames)] /\ \A n \in Run : Len(q[n]) <= TxCap

\* txChan never holds more than it can, and only what is sent here.
LEMMA PutStep ==
    ASSUME TxTyped(txq), NEW c \in Run, NEW m \in Frames, Put(c, m) \/ UNCHANGED txq
    PROVE  TxTyped(txq')
<1>1. CASE UNCHANGED txq
  BY <1>1
<1>2. CASE Put(c, m)
  <2>1. /\ Append(txq[c], m) \in Seq(Frames)
        /\ Len(Append(txq[c], m)) = Len(txq[c]) + 1
        /\ Len(txq[c]) \in Nat
    BY DEF TxTyped
  <2>. QED
    BY <1>2, <2>1, SessionAssumption DEF Put, TxTyped
<1>. QED
  BY <1>1, <1>2

LEMMA ResetStarts == stop \in [Stopper -> StopPC] /\ StartReset => stop' \in [Stopper -> StopPC]
  BY DEF StartReset, StopPC

\* The three messages that stop the goroutines fit into their channels.
LEMMA StopsSent ==
    ASSUME TypeOK, NEW k, NEW here, NEW there, SendStops(k, here, there)
    PROVE  stops' \in [Run -> Stops]
<1>1. CASE UNCHANGED stops
  BY <1>1 DEF TypeOK
<1>2. CASE /\ made # 0
           /\ \A c \in DOMAIN NoStops : stops[made][c] < StopCap
           /\ stops' = [stops EXCEPT ![made] = [c \in DOMAIN NoStops |-> @[c] + 1]]
  BY <1>2, StopsStep DEF TypeOK
<1>. QED
  BY <1>1, <1>2 DEF SendStops

\* Every step keeps the types, given that nothing it uses is nil.
LEMMA StepKeepsTypes == TypeOK /\ NilOK /\ [Next]_vars => TypeOK'
<1>. SUFFICES ASSUME TypeOK, NilOK, [Next]_vars PROVE TypeOK'
  OBVIOUS
<1>a. TxCap \in Nat /\ 0 \notin Run /\ {0} \cup Run \subseteq Nat
  BY SessionAssumption DEF Run
<1>. USE <1>a DEF TypeOK, NilOK, TxTyped, Frames, HandlePC, RxPC, TxPC, KaPC, StopPC, State
<1>1. ASSUME NEW n \in Run, MakeChannels(n) PROVE TypeOK'
  <2>1. stops' \in [Run -> Stops]
    BY <1>1 DEF MakeChannels, Collected, NoStops, Stops, StopCap
  <2>2. rxq' \in [Run -> Received]
    BY <1>1, SessionAssumption DEF MakeChannels, Collected, NoMessages, Received
  <2>3. TxTyped(txq')
    BY <1>1 DEF MakeChannels, Collected
  <2>. QED
    BY <1>1, <2>1, <2>2, <2>3 DEF MakeChannels, Goto, remote, loops
<1>2. ASSUME NEW n \in Run, BeginDial(n) PROVE TypeOK'
  BY <1>2 DEF BeginDial, Goto, remote, queues, loops
<1>3. ASSUME NEW n \in Run, DialFails(n) PROVE TypeOK'
  BY <1>3 DEF DialFails, Goto, remote, queues, loops
<1>3r. ASSUME NEW n \in Run, ResolveFails(n) PROVE TypeOK'
  BY <1>3r DEF ResolveFails, Goto, remote, queues, loops
<1>4. ASSUME NEW n \in Run, DialSucceeds(n) PROVE TypeOK'
  BY <1>4 DEF DialSucceeds, Goto, queues, loops
<1>5. ASSUME NEW n \in Run, StopDialling(n) PROVE TypeOK'
  <2>1. stops' \in [Run -> Stops]
    BY <1>5, StopsStep DEF StopDialling, Goto, remote, loops
  <2>. QED
    BY <1>5, <2>1 DEF StopDialling, Goto, remote, loops
<1>6. ASSUME NEW n \in Run, StartLoops(n) PROVE TypeOK'
  <2>1. on' \in [Run -> Waits]
    BY <1>6, WaitsStep DEF StartLoops
  <2>. QED
    BY <1>6, <2>1 DEF StartLoops, remote, queues
<1>7. ASSUME NEW n \in Run, SendHello(n) PROVE TypeOK'
  <2>1. TxTyped(txq')
    <3>1. Put(made, "HELLO") \/ UNCHANGED txq
      BY <1>7 DEF SendHello, sendMessage
    <3>2. made \in Run
      BY <1>7 DEF SendHello
    <3>. QED
      BY <3>1, <3>2, PutStep
  <2>2. on' \in [Run -> Waits]
    <3>1. UNCHANGED on \/ on' = [on EXCEPT ![n].handle = made]
      BY <1>7 DEF SendHello, sendMessage, Goto, Block
    <3>2. [on EXCEPT ![n].handle = made] \in [Run -> Waits]
      BY WaitsStep
    <3>. QED
      BY <3>1, <3>2
  <2>3. handle' \in [Run -> HandlePC]
    <3>1. \/ handle' = [handle EXCEPT ![n] = "helloSent"]
          \/ handle' = [handle EXCEPT ![n] = "helloBlocked"]
      BY <1>7 DEF SendHello, sendMessage, Goto, Block
    <3>2. handle \in [Run -> HandlePC]
      OBVIOUS
    <3>3. \E x \in HandlePC : handle' = [handle EXCEPT ![n] = x]
      BY <3>1
    <3>. HIDE DEF HandlePC
    <3>. QED
      BY <3>2, <3>3, GotoStep
  <2>. QED
    BY <1>7, <2>1, <2>2, <2>3 DEF SendHello, remote, loops
<1>8. ASSUME NEW n \in Run, SetHelloSent(n) PROVE TypeOK'
  <2>1. on' \in [Run -> Waits]
    BY <1>8, WaitsStep DEF SetHelloSent, Loop, remote, queues, loops
  <2>. QED
    BY <1>8, <2>1 DEF SetHelloSent, Loop, remote, queues, loops
<1>9. ASSUME NEW n \in Run, processRxHello(n) PROVE TypeOK'
  <2>1. rxq' \in [Run -> Received]
    BY <1>9, ReceivedStep DEF processRxHello, Take, remote, Cap
  <2>2. on' \in [Run -> Waits]
    BY <1>9, WaitsStep DEF processRxHello
  <2>. QED
    BY <1>9, <2>1, <2>2 DEF processRxHello, Take, remote
<1>10. ASSUME NEW n \in Run, processRxKeepalive(n) PROVE TypeOK'
  <2>1. rxq' \in [Run -> Received]
    BY <1>10, ReceivedStep DEF processRxKeepalive, Take, Goto, Loop, StartReset, remote,
       loops, Cap
  <2>2. on' \in [Run -> Waits]
    <3>1. UNCHANGED on \/ on' = [on EXCEPT ![n].handle = made]
      BY <1>10 DEF processRxKeepalive, Goto, Loop
    <3>2. [on EXCEPT ![n].handle = made] \in [Run -> Waits]
      BY WaitsStep
    <3>. QED
      BY <3>1, <3>2
  <2>3. stop' \in [Stopper -> StopPC]
    BY <1>10, ResetStarts DEF processRxKeepalive, Take, Goto, Loop, remote, loops
  <2>4. handle' \in [Run -> HandlePC]
    <3>1. \/ handle' = [handle EXCEPT ![n] = "establish"]
          \/ handle' = [handle EXCEPT ![n] = "answer"]
          \/ handle' = [handle EXCEPT ![n] = "loop"]
      BY <1>10 DEF processRxKeepalive, Goto, Loop
    <3>2. handle \in [Run -> HandlePC]
      OBVIOUS
    <3>3. \E x \in HandlePC : handle' = [handle EXCEPT ![n] = x]
      BY <3>1
    <3>. HIDE DEF HandlePC
    <3>. QED
      BY <3>2, <3>3, GotoStep
  <2>5. met' \in BOOLEAN
    BY <1>10 DEF processRxKeepalive, StartReset
  <2>. QED
    BY <1>10, <2>1, <2>2, <2>3, <2>4, <2>5 DEF processRxKeepalive, remote, loops
<1>11. ASSUME NEW n \in Run, SetEstablished(n) PROVE TypeOK'
  BY <1>11 DEF SetEstablished, Goto, remote, queues, loops
<1>12. ASSUME NEW n \in Run, Answer(n) PROVE TypeOK'
  <2>1. TxTyped(txq')
    <3>1. Put(made, "KEEPALIVE") \/ UNCHANGED txq
      BY <1>12 DEF Answer, sendMessage
    <3>2. made \in Run
      BY <1>12 DEF Answer
    <3>. QED
      BY <3>1, <3>2, PutStep
  <2>2. on' \in [Run -> Waits]
    <3>1. UNCHANGED on \/ on' = [on EXCEPT ![n].handle = made]
      BY <1>12 DEF Answer, sendMessage, Loop, Block
    <3>2. [on EXCEPT ![n].handle = made] \in [Run -> Waits]
      BY WaitsStep
    <3>. QED
      BY <3>1, <3>2
  <2>3. handle' \in [Run -> HandlePC]
    <3>1. \/ handle' = [handle EXCEPT ![n] = "loop"]
          \/ handle' = [handle EXCEPT ![n] = "answerBlocked"]
      BY <1>12 DEF Answer, sendMessage, Loop, Block
    <3>2. handle \in [Run -> HandlePC]
      OBVIOUS
    <3>3. \E x \in HandlePC : handle' = [handle EXCEPT ![n] = x]
      BY <3>1
    <3>. HIDE DEF HandlePC
    <3>. QED
      BY <3>2, <3>3, GotoStep
  <2>. QED
    BY <1>12, <2>1, <2>2, <2>3 DEF Answer, remote, loops
<1>13. ASSUME NEW n \in Run, ProcessData(n) PROVE TypeOK'
  <2>1. rxq' \in [Run -> Received]
    BY <1>13, ReceivedStep DEF ProcessData, Take, remote, loops, Cap
  <2>2. on' \in [Run -> Waits]
    <3>1. UNCHANGED on \/ on' = [on EXCEPT ![n].handle = made]
      BY <1>13 DEF ProcessData, Goto, Loop
    <3>2. [on EXCEPT ![n].handle = made] \in [Run -> Waits]
      BY WaitsStep
    <3>. QED
      BY <3>1, <3>2
  <2>3. handle' \in [Run -> HandlePC]
    BY <1>13 DEF ProcessData, Goto, Loop
  <2>. QED
    BY <1>13, <2>1, <2>2, <2>3 DEF ProcessData, Take, remote, loops
<1>13r. ASSUME NEW n \in Run, Reply(n) PROVE TypeOK'
  <2>1. TxTyped(txq')
    <3>1. Put(made, "UPDATE") \/ UNCHANGED txq
      BY <1>13r DEF Reply, sendMessage
    <3>2. made \in Run
      BY <1>13r DEF Reply
    <3>. QED
      BY <3>1, <3>2, PutStep
  <2>2. on' \in [Run -> Waits]
    <3>1. UNCHANGED on \/ on' = [on EXCEPT ![n].handle = made]
      BY <1>13r DEF Reply, sendMessage, Loop, Block
    <3>2. [on EXCEPT ![n].handle = made] \in [Run -> Waits]
      BY WaitsStep
    <3>. QED
      BY <3>1, <3>2
  <2>3. handle' \in [Run -> HandlePC]
    BY <1>13r DEF Reply, sendMessage, Loop, Block
  <2>. QED
    BY <1>13r, <2>1, <2>2, <2>3 DEF Reply, remote, loops
<1>13u. ASSUME NEW n \in Run, Unblock(n) PROVE TypeOK'
  <2>1. TxTyped(txq')
    <3>1. Held[handle[n]] \in Frames /\ on[n].handle \in Run
      BY <1>13u DEF Unblock, Held, Waits
    <3>2. Put(on[n].handle, Held[handle[n]])
      BY <1>13u DEF Unblock
    <3>. QED
      BY <3>1, <3>2, PutStep
  <2>2. on' \in [Run -> Waits]
    <3>1. UNCHANGED on \/ on' = [on EXCEPT ![n].handle = made]
      BY <1>13u DEF Unblock, Goto, Loop
    <3>2. [on EXCEPT ![n].handle = made] \in [Run -> Waits]
      BY WaitsStep
    <3>. QED
      BY <3>1, <3>2
  <2>3. handle' \in [Run -> HandlePC]
    <3>1. \/ handle' = [handle EXCEPT ![n] = "helloSent"]
          \/ handle' = [handle EXCEPT ![n] = "loop"]
      BY <1>13u DEF Unblock, Goto, Loop
    <3>2. handle \in [Run -> HandlePC]
      OBVIOUS
    <3>3. \E x \in HandlePC : handle' = [handle EXCEPT ![n] = x]
      BY <3>1
    <3>. HIDE DEF HandlePC
    <3>. QED
      BY <3>2, <3>3, GotoStep
  <2>. QED
    BY <1>13u, <2>1, <2>2, <2>3 DEF Unblock, remote, loops
<1>14. ASSUME NEW n \in Run, TakeShutdown(n) PROVE TypeOK'
  <2>1. stops' \in [Run -> Stops]
    BY <1>14, StopsStep DEF TakeShutdown, remote, loops
  <2>2. on' \in [Run -> Waits]
    BY <1>14, WaitsStep DEF TakeShutdown, remote, loops
  <2>. QED
    BY <1>14, <2>1, <2>2 DEF TakeShutdown, remote, loops
<1>14s. ASSUME NEW n \in Run, StartRx(n) PROVE TypeOK'
  <2>1. on' \in [Run -> Waits]
    BY <1>14s, WaitsStep DEF StartRx
  <2>. QED
    BY <1>14s, <2>1 DEF StartRx, remote, queues
<1>15. ASSUME NEW n \in Run, ReadFails(n) PROVE TypeOK'
  <2>1. on' \in [Run -> Waits]
    BY <1>15, WaitsStep DEF ReadFails, StartReset, remote, queues
  <2>2. stop' \in [Stopper -> StopPC]
    BY <1>15, ResetStarts DEF ReadFails, remote, queues
  <2>. QED
    BY <1>15, <2>1, <2>2 DEF ReadFails, StartReset, remote, queues
<1>16. ASSUME NEW n \in Run, NEW m \in DOMAIN Cap, Deliver(n, m) PROVE TypeOK'
  <2>1. rxq' \in [Run -> Received]
    BY <1>16, ReceivedStep DEF Deliver, remote, Cap
  <2>2. on' \in [Run -> Waits]
    BY <1>16, WaitsStep DEF Deliver, remote
  <2>. QED
    BY <1>16, <2>1, <2>2 DEF Deliver, remote
<1>16s. ASSUME NEW n \in Run, StartTx(n) PROVE TypeOK'
  <2>1. on' \in [Run -> Waits]
    BY <1>16s, WaitsStep DEF StartTx
  <2>. QED
    BY <1>16s, <2>1 DEF StartTx, remote, queues
<1>17. ASSUME NEW n \in Run, Transmit(n) PROVE TypeOK'
  <2>1. TxTyped(txq')
    <3>1. on[n].tx \in Run
      BY <1>17 DEF Transmit, Waits
    <3>2. /\ Tail(txq[on[n].tx]) \in Seq(Frames)
          /\ Len(Tail(txq[on[n].tx])) <= TxCap
      BY <1>17, <3>1 DEF Transmit
    <3>. QED
      BY <1>17, <3>1, <3>2 DEF Transmit
  <2>2. wrote' \in [Run -> SUBSET Frames]
    <3>1. on[n].tx \in Run /\ conn \in Run
      BY <1>17 DEF Transmit, Waits
    <3>2. Head(txq[on[n].tx]) \in Frames
      BY <1>17, <3>1 DEF Transmit
    <3>3. \/ UNCHANGED wrote
          \/ wrote' = [wrote EXCEPT ![conn] = @ \cup {Head(txq[on[n].tx])}]
      BY <1>17 DEF Transmit
    <3>. QED
      BY <3>1, <3>2, <3>3
  <2>3. on' \in [Run -> Waits]
    BY <1>17, WaitsStep DEF Transmit
  <2>4. stop' \in [Stopper -> StopPC]
    BY <1>17, ResetStarts DEF Transmit
  <2>5. met' \in BOOLEAN
    BY <1>17 DEF Transmit, StartReset
  <2>. QED
    BY <1>17, <2>1, <2>2, <2>3, <2>4, <2>5 DEF Transmit, loops
<1>18. ASSUME NEW n \in Run, CloseConnection(n) PROVE TypeOK'
  <2>1. stops' \in [Run -> Stops]
    BY <1>18, StopsStep DEF CloseConnection, Ends
  <2>2. on' \in [Run -> Waits]
    BY <1>18, WaitsStep DEF CloseConnection, Ends
  <2>3. left' \in [Run -> Remaining]
    BY <1>18, SessionAssumption DEF CloseConnection, Ends, Remaining, NoMessages, Budget
  <2>. QED
    BY <1>18, <2>1, <2>2, <2>3 DEF CloseConnection, Ends
<1>18n. ASSUME NEW n \in Run, UseNil(n) PROVE TypeOK'
  <2>1. on' \in [Run -> Waits]
    BY <1>18n, WaitsStep DEF UseNil
  <2>. QED
    BY <1>18n, <2>1 DEF UseNil, remote, queues
<1>18k. ASSUME NEW n \in Run, StartKeepalive(n) PROVE TypeOK'
  <2>1. on' \in [Run -> Waits]
    BY <1>18k, WaitsStep DEF StartKeepalive
  <2>. QED
    BY <1>18k, <2>1 DEF StartKeepalive, remote, queues
<1>19. ASSUME NEW n \in Run, SendKeepalive(n) PROVE TypeOK'
  <2>1. TxTyped(txq')
    <3>1. Put(made, "KEEPALIVE") \/ UNCHANGED txq
      BY <1>19 DEF SendKeepalive, sendMessage
    <3>2. made \in Run
      BY <1>19 DEF SendKeepalive
    <3>. QED
      BY <3>1, <3>2, PutStep
  <2>2. on' \in [Run -> Waits]
    BY <1>19, WaitsStep DEF SendKeepalive
  <2>3. ka' \in [Run -> KaPC]
    <3>1. \/ ka' = [ka EXCEPT ![n] = "loop"]
          \/ ka' = [ka EXCEPT ![n] = "blocked"]
      BY <1>19 DEF SendKeepalive, sendMessage
    <3>. QED
      BY <3>1
  <2>. QED
    BY <1>19, <2>1, <2>2, <2>3 DEF SendKeepalive, remote
<1>19u. ASSUME NEW n \in Run, UnblockKeepalive(n) PROVE TypeOK'
  <2>1. TxTyped(txq')
    <3>1. on[n].ka \in Run /\ Put(on[n].ka, "KEEPALIVE")
      BY <1>19u DEF UnblockKeepalive, Waits
    <3>. QED
      BY <3>1, PutStep
  <2>2. on' \in [Run -> Waits]
    BY <1>19u, WaitsStep DEF UnblockKeepalive
  <2>. QED
    BY <1>19u, <2>1, <2>2 DEF UnblockKeepalive, remote
<1>20. ASSUME NEW n \in Run, StopKeepalive(n) PROVE TypeOK'
  <2>1. stops' \in [Run -> Stops]
    BY <1>20, StopsStep DEF StopKeepalive, remote
  <2>2. on' \in [Run -> Waits]
    BY <1>20, WaitsStep DEF StopKeepalive, remote
  <2>. QED
    BY <1>20, <2>1, <2>2 DEF StopKeepalive, remote
<1>21. ASSUME NEW n \in Run, Tick(n) PROVE TypeOK'
  BY <1>21 DEF Tick, remote, queues
<1>22. ASSUME NEW n \in Run, Timeout(n) PROVE TypeOK'
  <2>1. on' \in [Run -> Waits]
    BY <1>22, WaitsStep DEF Timeout, StartReset, remote, queues, loops
  <2>2. stop' \in [Stopper -> StopPC]
    BY <1>22, ResetStarts DEF Timeout, remote, queues, loops
  <2>. QED
    BY <1>22, <2>1, <2>2 DEF Timeout, StartReset, remote, queues, loops
<1>23. ASSUME NEW n \in Run, ReadGarbage(n) PROVE TypeOK'
  <2>1. on' \in [Run -> Waits]
    BY <1>23, WaitsStep DEF ReadGarbage, StartReset, remote, queues
  <2>2. stop' \in [Stopper -> StopPC]
    BY <1>23, ResetStarts DEF ReadGarbage, remote, queues
  <2>. QED
    BY <1>23, <2>1, <2>2 DEF ReadGarbage, StartReset, remote, queues
<1>24. ASSUME NEW n \in Run, NEW m \in DOMAIN Cap, ReadMessage(n, m) PROVE TypeOK'
  <2>1. left' \in [Run -> Remaining]
    <3>1. on[n].rx \in Run
      BY <1>24 DEF ReadMessage, Waits
    <3>. QED
      BY <1>24, <3>1, RemainingStep DEF ReadMessage, RemoteMaySend
  <2>2. on' \in [Run -> Waits]
    <3>1. on' = [on EXCEPT ![n].rx = 0] \/ on' = [on EXCEPT ![n].rx = made]
      BY <1>24 DEF ReadMessage
    <3>2. [on EXCEPT ![n].rx = 0] \in [Run -> Waits]
      BY WaitsStep
    <3>3. [on EXCEPT ![n].rx = made] \in [Run -> Waits]
      BY WaitsStep
    <3>. QED
      BY <3>1, <3>2, <3>3
  <2>3. rx' \in [Run -> RxPC]
    BY <1>24 DEF ReadMessage, Cap
  <2>. QED
    BY <1>24, <2>1, <2>2, <2>3 DEF ReadMessage, queues
<1>25. ASSUME NEW k \in Stopper, ResetChecks(k) PROVE TypeOK'
  <2>1. stop' \in [Stopper -> StopPC]
    BY <1>25, SessionAssumption DEF ResetChecks, At
  <2>. QED
    BY <1>25, <2>1 DEF ResetChecks, At, remote, queues, loops
<1>26. ASSUME NEW k \in Stopper, SetState(k, "retry", "RETRY", "stops") PROVE TypeOK'
  BY <1>26 DEF SetState, At, remote, queues, loops
<1>27. ASSUME NEW k \in Stopper, SendStops(k, "stops", "wait") PROVE TypeOK'
  <2>1. stops' \in [Run -> Stops]
    BY <1>27, StopsSent DEF TypeOK
  <2>2. stop' \in [Stopper -> StopPC]
    <3>1. \/ stop' = [stop EXCEPT ![k] = "wait"]
          \/ stop' = [stop EXCEPT ![k] = "stuck"]
      BY <1>27 DEF SendStops, At
    <3>. QED
      BY <3>1
  <2>3. UNCHANGED met
    BY <1>27 DEF SendStops, At
  <2>. QED
    BY <1>27, <2>1, <2>2, <2>3 DEF SendStops, remote, loops
<1>28. ASSUME NEW k \in Stopper, WaitForGoroutines(k) PROVE TypeOK'
  BY <1>28 DEF WaitForGoroutines, At, remote, queues, loops
<1>29. ASSUME NEW k \in Stopper, SetState(k, "pause", "CONNECTING", "respawn")
       PROVE  TypeOK'
  BY <1>29 DEF SetState, At, remote, queues, loops
<1>30. ASSUME NEW k \in Stopper, Respawn(k) PROVE TypeOK'
  BY <1>30 DEF Respawn, At, remote, queues, loops
<1>31. ASSUME NEW k \in Stopper, CloseChecks(k, "close1", "set1") PROVE TypeOK'
  BY <1>31 DEF CloseChecks, AfterClose, At, remote, queues, loops
<1>32. ASSUME NEW k \in Stopper, CloseChecks(k, "close2", "set2") PROVE TypeOK'
  BY <1>32 DEF CloseChecks, AfterClose, At, remote, queues, loops
<1>33. ASSUME NEW k \in Stopper, SetState(k, "set1", "CLOSED", "stops1") PROVE TypeOK'
  BY <1>33 DEF SetState, At, remote, queues, loops
<1>34. ASSUME NEW k \in Stopper, SetState(k, "set2", "CLOSED", "stops2") PROVE TypeOK'
  BY <1>34 DEF SetState, At, remote, queues, loops
<1>35. ASSUME NEW k \in Stopper, SendStops(k, "stops1", AfterClose(k, "close1"))
       PROVE  TypeOK'
  <2>1. stops' \in [Run -> Stops]
    BY <1>35, StopsSent DEF TypeOK
  <2>2. stop' \in [Stopper -> StopPC]
    <3>1. \/ stop' = [stop EXCEPT ![k] = "close2"]
          \/ stop' = [stop EXCEPT ![k] = "done"]
          \/ stop' = [stop EXCEPT ![k] = "stuck"]
      BY <1>35 DEF SendStops, At, AfterClose
    <3>. QED
      BY <3>1
  <2>3. UNCHANGED met
    BY <1>35 DEF SendStops, At
  <2>. QED
    BY <1>35, <2>1, <2>2, <2>3 DEF SendStops, remote, loops
<1>36. ASSUME NEW k \in Stopper, SendStops(k, "stops2", "done") PROVE TypeOK'
  <2>1. stops' \in [Run -> Stops]
    BY <1>36, StopsSent DEF TypeOK
  <2>2. stop' \in [Stopper -> StopPC]
    <3>1. \/ stop' = [stop EXCEPT ![k] = "done"]
          \/ stop' = [stop EXCEPT ![k] = "stuck"]
      BY <1>36 DEF SendStops, At
    <3>. QED
      BY <3>1
  <2>3. UNCHANGED met
    BY <1>36 DEF SendStops, At
  <2>. QED
    BY <1>36, <2>1, <2>2, <2>3 DEF SendStops, remote, loops
<1>37. ASSUME NEW c \in Run, RemoteCloses(c) PROVE TypeOK'
  <2>1. left' \in [Run -> Remaining]
    BY <1>37, SessionAssumption
    DEF RemoteCloses, Ends, queues, loops, Remaining, NoMessages, Budget
  <2>. QED
    BY <1>37, <2>1 DEF RemoteCloses, Ends, queues, loops
<1>38. CASE UNCHANGED vars
  BY <1>38 DEF vars, remote, queues, loops
<1>. QED
  BY <1>1, <1>2, <1>3, <1>3r, <1>4, <1>5, <1>6, <1>7, <1>8, <1>9, <1>10, <1>11, <1>12,
     <1>13, <1>13r, <1>13u, <1>14, <1>14s, <1>15, <1>16, <1>16s, <1>17, <1>18, <1>18n,
     <1>18k, <1>19, <1>19u, <1>20, <1>21, <1>22, <1>23, <1>24, <1>25, <1>26, <1>27, <1>28,
     <1>29, <1>30, <1>31, <1>32, <1>33, <1>34, <1>35, <1>36, <1>37, <1>38
  DEF Next, HandleStep, rxStep, txStep, kaStep, ResetStep, CloseStep

LEMMA InitTyped == Init => TypeOK /\ NilOK
<1>. SUFFICES ASSUME Init PROVE TypeOK /\ NilOK
  OBVIOUS
<1>. USE SessionAssumption DEF Init
<1>1. 1 \in Run /\ 0 \notin Run /\ \A n \in Run : n \in Nat
  BY DEF Run
<1>2. /\ state \in State /\ conn \in {0} \cup Run /\ made \in {0} \cup Run
      /\ timer \in {0} \cup Run /\ armed \subseteq Run
  BY <1>1 DEF State
<1>3. link \in [Run -> {"none", "open", "broken", "closed"}] /\ handle \in [Run -> HandlePC]
  BY DEF HandlePC
<1>3l. rx \in [Run -> RxPC] /\ tx \in [Run -> TxPC] /\ ka \in [Run -> KaPC]
  BY DEF RxPC, TxPC, KaPC
<1>4. on \in [Run -> Waits] /\ stop \in [Stopper -> StopPC]
  BY DEF Waits, StopPC
<1>5. stops \in [Run -> Stops] /\ rxq \in [Run -> Received] /\ left \in [Run -> Remaining]
  BY DEF NoStops, Stops, StopCap, NoMessages, Received, Budget, Remaining
<1>6. txq \in [Run -> Seq(Frames)] /\ \A n \in Run : Len(txq[n]) <= TxCap
  OBVIOUS
<1>7. wrote \in [Run -> SUBSET Frames] /\ missed \subseteq Run /\ met \in BOOLEAN
  OBVIOUS
<1>8. NilOK
  BY DEF NilOK
<1>. QED
  BY <1>2, <1>3, <1>3l, <1>4, <1>5, <1>6, <1>7, <1>8 DEF TypeOK

LEMMA TypedInvariant == Spec => [](TypeOK /\ NilOK)
<1>1. TypeOK /\ NilOK /\ [Next]_vars => (TypeOK /\ NilOK)'
  BY TypedShapes, StepKeepsNil, StepKeepsTypes
<1>. QED
  BY InitTyped, <1>1, PTL DEF Spec

\* No channel of a peer ever holds more than its capacity, through any number of
\* runs, Resets and messages (peer.go 269-277).
THEOREM SessionTypeCorrect == Spec => []TypeOK
  BY TypedInvariant, PTL

\* However many Resets overlap with each other and with Close, the only loops that can
\* find p.conn nil are those of a run with a loop that had not counted itself in p.wg
\* (peer.go 365, 715) when a Reset waited: it waits for the goroutines of every run that
\* have before it sets p.conn to nil (peer.go 609-611).
THEOREM ConnectionIsNeverNil == Spec => []NoNilConnection
<1>1. TypeOK /\ NilOK => NoNilConnection
  BY DEF NilOK, NoNilConnection
<1>. QED
  BY <1>1, TypedInvariant, PTL

-----------------------------------------------------------------------------
(* The handshake of a server.                                              *)

\* Neither sent nor on its way.
Absent(m, q) == \A i \in 1 .. Len(q) : q[i] # m
NotSent(m, n) == m \notin wrote[n] /\ Absent(m, txq[n])
NoneReceived(n) == rx[n] # "KEEPALIVE" /\ rxq[n].KEEPALIVE = 0

\* An INCOMING peer never retries, has one run, sends its HELLO before it looks at
\* its channels again, and gets no KEEPALIVE before that HELLO.
ServerOK ==
    /\ \A k \in Stopper : stop[k] \notin {"retry", "stops", "wait", "pause", "respawn"}
    /\ \A n \in Run : handle[n] # "none" => n = 1
    /\ state # "RETRY"
    /\ state = "HELLO_RECEIVED" => handle[1] \in {"hello", "helloBlocked", "helloSent"}
    /\ state = "CONNECTING" =>
          /\ handle[1] \in {"spawned", "dial", "dialling", "loop", "reply", "replyBlocked",
                            "exited", "unresolved"}
          /\ \A n \in Run : NotSent("HELLO", n) /\ NoneReceived(n)

-----------------------------------------------------------------------------
(* The handshake of a client.                                              *)

\* Nobody has called Close, Resets have come one after the other, and each has waited
\* for all loops of the last run.
Calm ==
    /\ Calls = 1 => stop[Call] = "close1"
    /\ ~met /\ missed = {}

\* Goroutines of run n exist.
Live(n) ==
    handle[n] \notin Over \/ rx[n] \notin Over \/ tx[n] \notin Over \/ ka[n] \notin Over

\* A run has loops only once it has dialled, and only a run that did has a connection.
BornOK ==
    \A n \in Run :
        /\ handle[n] \in {"none", "spawned", "dial", "dialling"} =>
              rx[n] = "none" /\ tx[n] = "none" /\ ka[n] = "none"
        /\ handle[n] \in {"none", "spawned"} => wrote[n] = {} /\ conn # n

\* One run at a time: a Reset waits for the last one, with nobody left to start
\* another, before it starts the next.
OneRunOK ==
    /\ state # "CLOSED"
    /\ \A k \in Reset : stop[k] \in {"none", "check", "retry", "stops", "wait", "pause",
                                     "respawn", "stuck", "done"}
    /\ \A j, k \in Reset :
          stop[j] \notin {"none", "done"} /\ stop[k] \notin {"none", "done"} => j = k
    /\ \A m, n \in Run : Live(m) /\ Live(n) => m = n
    /\ Resetting => \A n \in Run : handle[n] # "spawned"
    /\ \A k \in Reset :
          /\ stop[k] \in {"pause", "respawn"} => conn = 0 /\ \A n \in Run : ~Live(n)
          /\ stop[k] = "respawn" => state = "CONNECTING"

\* Everything run n waits on is its own.
Own(n) ==
    /\ made = n
    /\ conn \in IF handle[n] \in {"dial", "dialling"} THEN {0, n} ELSE {n}
    /\ handle[n] \in {"loop"} \cup DOMAIN Held => on[n].handle = n
    /\ rx[n] \notin Over \cup {"spawned"} => on[n].rx = n
    /\ tx[n] = "loop" => on[n].tx = n
    /\ stops[n].shutdown = 0

NoKeepalive(n) == ka[n] = "none" /\ NotSent("KEEPALIVE", n) /\ NoneReceived(n)

\* The state says how far run n is, and no KEEPALIVE is under way before the
\* server's HELLO has started the keepaliveLoop.
InStep(n) ==
    /\ handle[n] \in {"spawned", "dial", "dialling", "hello", "helloBlocked", "helloSent"} =>
          state = "CONNECTING"
    /\ handle[n] \in {"dial", "dialling", "hello", "helloBlocked", "helloSent"} => NoKeepalive(n)
    /\ handle[n] \in {"loop", "reply", "replyBlocked"} =>
          /\ state \in {"HELLO_SENT", "HELLO_RECEIVED", "ESTABLISHED"}
          /\ state = "HELLO_SENT" => NoKeepalive(n)
    /\ handle[n] = "establish" => state = "HELLO_RECEIVED"
    /\ handle[n] = "answer" => state = "ESTABLISHED"

RunOK(n) ==
    /\ handle[n] \notin {"exited", "unresolved", "answerBlocked"}
    /\ handle[n] = "spawned" => conn = 0
    /\ handle[n] # "spawned" => Own(n)
    /\ InStep(n)

\* An OUTGOING peer, as long as it is calm.
ClientOK ==
    Calm => OneRunOK /\ (~Resetting => \A n \in Run : Live(n) => RunOK(n))

HandshakeInv ==
    /\ Direction = "INCOMING" => ServerOK
    /\ Direction = "OUTGOING" => BornOK /\ ClientOK

LEMMA AbsentAppend ==
    ASSUME NEW q \in Seq(Frames), NEW m, NEW x \in Frames, x # m, Absent(m, q)
    PROVE  Absent(m, Append(q, x))
  BY DEF Absent

LEMMA AbsentTail ==
    ASSUME NEW q \in Seq(Frames), NEW m, q # <<>>, Absent(m, q)
    PROVE  Absent(m, Tail(q)) /\ Head(q) # m
  BY DEF Absent

\* Sending one kind of message is not sending the other.
LEMMA NotSentStep ==
    ASSUME TypeOK, NEW c \in Run, NEW x \in Frames, NEW m, x # m,
           Put(c, x) \/ UNCHANGED txq, UNCHANGED wrote, NEW n \in Run, NotSent(m, n)
    PROVE  NotSent(m, n)'
<1>1. txq \in [Run -> Seq(Frames)]
  BY DEF TypeOK
<1>2. Absent(m, Append(txq[n], x))
  BY <1>1, AbsentAppend DEF NotSent
<1>3. txq'[n] = txq[n] \/ txq'[n] = Append(txq[n], x)
  BY <1>1 DEF Put
<1>. QED
  BY <1>2, <1>3 DEF NotSent

\* What is transmitted was on its way.
LEMMA TransmitStep ==
    ASSUME TypeOK, NilOK, NEW c \in Run, Transmit(c), NEW m, NEW n \in Run, NotSent(m, n),
           conn = n => Absent(m, txq[on[c].tx])
    PROVE  NotSent(m, n)'
<1>1. txq \in [Run -> Seq(Frames)] /\ conn \in Run /\ on[c].tx \in Run
  BY DEF TypeOK, NilOK, Transmit, Frames, Waits
<1>2. Absent(m, txq'[n])
  <2>1. CASE on[c].tx = n
    BY <1>1, <2>1, AbsentTail DEF Transmit, NotSent
  <2>2. CASE on[c].tx # n
    BY <1>1, <2>2 DEF Transmit, NotSent
  <2>. QED
    BY <2>1, <2>2
<1>3. m \notin wrote'[n]
  <2>1. \/ wrote' = wrote
        \/ wrote' = [wrote EXCEPT ![conn] = @ \cup {Head(txq[on[c].tx])}]
    BY DEF Transmit
  <2>2. conn = n => Head(txq[on[c].tx]) # m
    BY <1>1, AbsentTail DEF Transmit
  <2>. QED
    BY <1>1, <2>1, <2>2 DEF NotSent, TypeOK
<1>. QED
  BY <1>2, <1>3 DEF NotSent

\* A server's HELLO precedes everything that lets the client send a KEEPALIVE.
LEMMA StepKeepsServer ==
    ASSUME Direction = "INCOMING", TypeOK, NilOK, ServerOK, [Next]_vars
    PROVE  ServerOK'
<1>a. /\ state \in State /\ stop \in [Stopper -> StopPC] /\ handle \in [Run -> HandlePC]
      /\ rx \in [Run -> RxPC]
      /\ rxq \in [Run -> Received] /\ txq \in [Run -> Seq(Frames)]
      /\ wrote \in [Run -> SUBSET Frames] /\ on \in [Run -> Waits] /\ made \in {0} \cup Run
      /\ 1 \in Run /\ 0 \notin Run
  BY SessionAssumption DEF TypeOK, Frames, Run
<1>. DEFINE Silent == \A n \in Run : NotSent("HELLO", n) /\ NoneReceived(n)
<1>c. ASSUME UNCHANGED <<wrote, txq, rx, rxq>>, Silent PROVE Silent'
  BY <1>c DEF NotSent, NoneReceived
<1>. USE Direction = "INCOMING", <1>a DEF ServerOK, HandlePC, RxPC
<1>1. ASSUME NEW n \in Run, MakeChannels(n) PROVE ServerOK'
  <2>1. Silent => Silent'
    <3>1. \A x \in Run : txq'[x] \in {txq[x], <<>>} /\ rxq'[x] \in {rxq[x], NoMessages}
      BY <1>1 DEF MakeChannels, Collected
    <3>2. Absent("HELLO", <<>>) /\ NoMessages.KEEPALIVE = 0
      BY DEF Absent, NoMessages
    <3>. QED
      BY <1>1, <3>1, <3>2 DEF MakeChannels, NotSent, NoneReceived, remote, loops
  <2>. QED
    BY <1>1, <2>1 DEF MakeChannels, Goto, remote, loops
<1>2. ASSUME NEW n \in Run, BeginDial(n) PROVE ServerOK'
  BY <1>2, <1>c DEF BeginDial, Goto, remote, queues, loops
<1>3. ASSUME NEW n \in Run, DialFails(n) PROVE ServerOK'
  BY <1>3, <1>c DEF DialFails, Goto, remote, queues, loops
<1>3r. ASSUME NEW n \in Run, ResolveFails(n) PROVE ServerOK'
  BY <1>3r, <1>c DEF ResolveFails, Goto, remote, queues, loops
<1>4. ASSUME NEW n \in Run, DialSucceeds(n) PROVE ServerOK'
  BY <1>4, <1>c DEF DialSucceeds, Goto, queues, loops
<1>5. ASSUME NEW n \in Run, StopDialling(n) PROVE ServerOK'
  BY <1>5, <1>c DEF StopDialling, Goto, remote, loops
<1>6. ASSUME NEW n \in Run, StartLoops(n) PROVE ServerOK'
  <2>1. Silent => Silent'
    BY <1>6 DEF StartLoops, remote, queues, NotSent, NoneReceived
  <2>. QED
    BY <1>6, <2>1 DEF StartLoops, remote, queues
<1>7. ASSUME NEW n \in Run, SendHello(n) PROVE ServerOK'
  <2>1. n = 1 /\ state # "CONNECTING" /\ handle'[1] \in {"helloBlocked", "helloSent"}
    BY <1>7 DEF SendHello, sendMessage, Goto, Block
  <2>. QED
    BY <1>7, <2>1 DEF SendHello, sendMessage, Goto, Block
<1>8. ASSUME NEW n \in Run, SetHelloSent(n) PROVE ServerOK'
  BY <1>8, <1>c DEF SetHelloSent, Loop, remote, queues, loops
<1>9. ASSUME NEW n \in Run, processRxHello(n) PROVE ServerOK'
  BY <1>9, <1>c DEF processRxHello, Take, remote
<1>10. ASSUME NEW n \in Run, processRxKeepalive(n) PROVE ServerOK'
  <2>1. on[n].handle \in Run
    BY <1>10 DEF processRxKeepalive, Take, NilOK, Waits
  <2>2. state # "CONNECTING" /\ n = 1
    BY <1>10, <2>1 DEF processRxKeepalive, Take, NoneReceived
  <2>. QED
    BY <1>10, <2>2 DEF processRxKeepalive, Take, Goto, Loop, StartReset
<1>11. ASSUME NEW n \in Run, SetEstablished(n) PROVE ServerOK'
  BY <1>11, <1>c DEF SetEstablished, Goto, remote, queues, loops
<1>12. ASSUME NEW n \in Run, Answer(n) PROVE ServerOK'
  <2>1. n = 1 /\ state \notin {"CONNECTING", "HELLO_RECEIVED"}
    BY <1>12 DEF Answer
  <2>. QED
    BY <1>12, <2>1 DEF Answer, sendMessage, Loop, Block
<1>13. ASSUME NEW n \in Run, ProcessData(n) PROVE ServerOK'
  <2>1. Silent => Silent'
    <3>1. \A x \in Run : rxq'[x].KEEPALIVE = rxq[x].KEEPALIVE
      BY <1>13 DEF ProcessData, Take, Received
    <3>. QED
      BY <1>13, <3>1 DEF ProcessData, NotSent, NoneReceived, remote, loops
  <2>. QED
    BY <1>13, <2>1 DEF ProcessData, Take, Loop, Goto, remote, loops
<1>13r. ASSUME NEW n \in Run, Reply(n) PROVE ServerOK'
  <2>1. Silent => Silent'
    <3>1. made \in Run /\ UNCHANGED wrote /\ (Put(made, "UPDATE") \/ UNCHANGED txq)
      BY <1>13r DEF Reply, sendMessage, NilOK, remote
    <3>2. ASSUME Silent PROVE \A x \in Run : NotSent("HELLO", x)'
      BY <3>1, <3>2, NotSentStep DEF Frames
    <3>. QED
      BY <1>13r, <3>2 DEF Reply, NoneReceived, loops
  <2>. QED
    BY <1>13r, <2>1 DEF Reply, sendMessage, Loop, Block
<1>13u. ASSUME NEW n \in Run, Unblock(n) PROVE ServerOK'
  <2>1. n = 1 /\ on[n].handle \in Run
    BY <1>13u DEF Unblock, Held, NilOK, Waits
  <2>2. state = "CONNECTING" => handle[1] = "replyBlocked"
    BY <1>13u, <2>1 DEF Unblock, Held
  <2>3. state = "CONNECTING" /\ Silent => Silent'
    <3>. SUFFICES ASSUME state = "CONNECTING", Silent PROVE Silent'
      OBVIOUS
    <3>1. Put(on[n].handle, "UPDATE") /\ UNCHANGED wrote
      BY <1>13u, <2>1, <2>2 DEF Unblock, Held, remote
    <3>2. \A x \in Run : NotSent("HELLO", x)'
      BY <2>1, <3>1, NotSentStep DEF Frames
    <3>. QED
      BY <1>13u, <3>2 DEF Unblock, NoneReceived, loops
  <2>. QED
    BY <1>13u, <2>1, <2>2, <2>3 DEF Unblock, Held, Loop, Goto
<1>14. ASSUME NEW n \in Run, TakeShutdown(n) PROVE ServerOK'
  BY <1>14, <1>c DEF TakeShutdown, remote, loops
<1>14s. ASSUME NEW n \in Run, StartRx(n) PROVE ServerOK'
  <2>1. Silent => Silent'
    BY <1>14s DEF StartRx, remote, queues, NotSent, NoneReceived
  <2>. QED
    BY <1>14s, <2>1 DEF StartRx, remote, queues
<1>15. ASSUME NEW n \in Run, ReadFails(n) PROVE ServerOK'
  <2>1. Silent => Silent'
    BY <1>15 DEF ReadFails, remote, queues, NotSent, NoneReceived
  <2>. QED
    BY <1>15, <2>1 DEF ReadFails, StartReset, remote, queues
<1>16. ASSUME NEW n \in Run, NEW m \in DOMAIN Cap, Deliver(n, m) PROVE ServerOK'
  <2>1. Silent => Silent'
    <3>. SUFFICES ASSUME Silent PROVE Silent'
      OBVIOUS
    <3>1. m \in {"HELLO", "DATA"}
      BY <1>16 DEF Deliver, Cap, NoneReceived
    <3>2. \A x \in Run : rxq'[x].KEEPALIVE = rxq[x].KEEPALIVE
      BY <1>16, <3>1 DEF Deliver, Received
    <3>. QED
      BY <1>16, <3>2 DEF Deliver, NotSent, NoneReceived, remote
  <2>. QED
    BY <1>16, <2>1 DEF Deliver, remote
<1>16s. ASSUME NEW n \in Run, StartTx(n) PROVE ServerOK'
  BY <1>16s, <1>c DEF StartTx, remote, queues
<1>17. ASSUME NEW n \in Run, Transmit(n) PROVE ServerOK'
  <2>1. Silent => Silent'
    <3>1. on[n].tx \in Run
      BY <1>17 DEF Transmit, NilOK, Waits
    <3>2. ASSUME Silent PROVE \A x \in Run : NotSent("HELLO", x)'
      BY <1>17, <3>1, <3>2, TransmitStep DEF NotSent
    <3>. QED
      BY <1>17, <3>2 DEF Transmit, NoneReceived, loops
  <2>. QED
    BY <1>17, <2>1 DEF Transmit, StartReset, loops
<1>18. ASSUME NEW n \in Run, CloseConnection(n) PROVE ServerOK'
  <2>1. Silent => Silent'
    <3>1. \A x \in Run : wrote'[x] \subseteq wrote[x]
      BY <1>18 DEF CloseConnection, Ends
    <3>. QED
      BY <1>18, <3>1 DEF CloseConnection, NotSent, NoneReceived
  <2>. QED
    BY <1>18, <2>1 DEF CloseConnection, Ends
<1>18n. ASSUME NEW n \in Run, UseNil(n) PROVE ServerOK'
  BY <1>18n, <1>c DEF UseNil, remote, queues
<1>18k. ASSUME NEW n \in Run, StartKeepalive(n) PROVE ServerOK'
  BY <1>18k, <1>c DEF StartKeepalive, remote, queues
<1>19. ASSUME NEW n \in Run, SendKeepalive(n) PROVE ServerOK'
  <2>1. Silent => Silent'
    <3>1. made \in Run /\ UNCHANGED wrote /\ (Put(made, "KEEPALIVE") \/ UNCHANGED txq)
      BY <1>19 DEF SendKeepalive, sendMessage, NilOK, remote
    <3>2. ASSUME Silent PROVE \A x \in Run : NotSent("HELLO", x)'
      BY <3>1, <3>2, NotSentStep DEF Frames
    <3>. QED
      BY <1>19, <3>2 DEF SendKeepalive, NoneReceived
  <2>. QED
    BY <1>19, <2>1 DEF SendKeepalive, remote
<1>19u. ASSUME NEW n \in Run, UnblockKeepalive(n) PROVE ServerOK'
  <2>1. Silent => Silent'
    <3>1. on[n].ka \in Run /\ UNCHANGED wrote /\ Put(on[n].ka, "KEEPALIVE")
      BY <1>19u DEF UnblockKeepalive, NilOK, Waits, remote
    <3>2. ASSUME Silent PROVE \A x \in Run : NotSent("HELLO", x)'
      BY <3>1, <3>2, NotSentStep DEF Frames
    <3>. QED
      BY <1>19u, <3>2 DEF UnblockKeepalive, NoneReceived
  <2>. QED
    BY <1>19u, <2>1 DEF UnblockKeepalive, remote
<1>20. ASSUME NEW n \in Run, StopKeepalive(n) PROVE ServerOK'
  BY <1>20, <1>c DEF StopKeepalive, remote
<1>21. ASSUME NEW n \in Run, Tick(n) PROVE ServerOK'
  BY <1>21, <1>c DEF Tick, remote, queues
<1>22. ASSUME NEW n \in Run, Timeout(n) PROVE ServerOK'
  BY <1>22, <1>c DEF Timeout, StartReset, remote, queues, loops
<1>23. ASSUME NEW n \in Run, ReadGarbage(n) PROVE ServerOK'
  <2>1. Silent => Silent'
    BY <1>23 DEF ReadGarbage, remote, queues, NotSent, NoneReceived
  <2>. QED
    BY <1>23, <2>1 DEF ReadGarbage, StartReset, remote, queues
<1>24. ASSUME NEW n \in Run, NEW m \in DOMAIN Cap, ReadMessage(n, m) PROVE ServerOK'
  <2>1. Silent => Silent'
    <3>1. ASSUME Silent PROVE m # "KEEPALIVE"
      BY <1>24, <3>1 DEF ReadMessage, RemoteMaySend, NilOK, Waits, NotSent
    <3>. QED
      BY <1>24, <3>1 DEF ReadMessage, NotSent, NoneReceived, queues
  <2>. QED
    BY <1>24, <2>1 DEF ReadMessage, queues
<1>25. ASSUME NEW k \in Stopper, ResetChecks(k) PROVE ServerOK'
  BY <1>25, <1>c DEF ResetChecks, At, remote, queues, loops
<1>26. ASSUME NEW k \in Stopper, SetState(k, "retry", "RETRY", "stops") PROVE ServerOK'
  BY <1>26, <1>c DEF SetState, At, remote, queues, loops
<1>27. ASSUME NEW k \in Stopper, SendStops(k, "stops", "wait") PROVE ServerOK'
  BY <1>27, <1>c DEF SendStops, At, remote, loops
<1>28. ASSUME NEW k \in Stopper, WaitForGoroutines(k) PROVE ServerOK'
  BY <1>28, <1>c DEF WaitForGoroutines, At, remote, queues, loops
<1>29. ASSUME NEW k \in Stopper, SetState(k, "pause", "CONNECTING", "respawn")
       PROVE  ServerOK'
  BY <1>29, <1>c DEF SetState, At, remote, queues, loops
<1>30. ASSUME NEW k \in Stopper, Respawn(k) PROVE ServerOK'
  BY <1>30, <1>c DEF Respawn, At, remote, queues, loops
<1>31. ASSUME NEW k \in Stopper, CloseChecks(k, "close1", "set1") PROVE ServerOK'
  BY <1>31, <1>c DEF CloseChecks, AfterClose, At, remote, queues, loops
<1>32. ASSUME NEW k \in Stopper, CloseChecks(k, "close2", "set2") PROVE ServerOK'
  BY <1>32, <1>c DEF CloseChecks, AfterClose, At, remote, queues, loops
<1>33. ASSUME NEW k \in Stopper, SetState(k, "set1", "CLOSED", "stops1") PROVE ServerOK'
  BY <1>33, <1>c DEF SetState, At, remote, queues, loops
<1>34. ASSUME NEW k \in Stopper, SetState(k, "set2", "CLOSED", "stops2") PROVE ServerOK'
  BY <1>34, <1>c DEF SetState, At, remote, queues, loops
<1>35. ASSUME NEW k \in Stopper, SendStops(k, "stops1", AfterClose(k, "close1"))
       PROVE  ServerOK'
  BY <1>35, <1>c DEF SendStops, At, remote, loops, AfterClose
<1>36. ASSUME NEW k \in Stopper, SendStops(k, "stops2", "done") PROVE ServerOK'
  BY <1>36, <1>c DEF SendStops, At, remote, loops
<1>37. ASSUME NEW c \in Run, RemoteCloses(c) PROVE ServerOK'
  <2>1. Silent => Silent'
    <3>1. \A x \in Run : wrote'[x] \subseteq wrote[x]
      BY <1>37 DEF RemoteCloses, Ends
    <3>. QED
      BY <1>37, <3>1 DEF RemoteCloses, NotSent, NoneReceived, queues, loops
  <2>. QED
    BY <1>37, <2>1 DEF RemoteCloses, Ends, queues, loops
<1>38. CASE UNCHANGED vars
  BY <1>38, <1>c DEF vars, remote, queues, loops
<1>. QED
  BY <1>1, <1>2, <1>3, <1>3r, <1>4, <1>5, <1>6, <1>7, <1>8, <1>9, <1>10, <1>11, <1>12,
     <1>13, <1>13r, <1>13u, <1>14, <1>14s, <1>15, <1>16, <1>16s, <1>17, <1>18, <1>18n,
     <1>18k, <1>19, <1>19u, <1>20, <1>21, <1>22, <1>23, <1>24, <1>25, <1>26, <1>27, <1>28,
     <1>29, <1>30, <1>31, <1>32, <1>33, <1>34, <1>35, <1>36, <1>37, <1>38
  DEF Next, HandleStep, rxStep, txStep, kaStep, ResetStep, CloseStep

-----------------------------------------------------------------------------
(* A client has one run at a time.                                         *)

\* The steps of run n.
RunStep(n) ==
    \/ HandleStep(n) \/ rxStep(n) \/ txStep(n) \/ kaStep(n)
    \/ Tick(n) \/ Timeout(n) \/ ReadGarbage(n) \/ \E m \in DOMAIN Cap : ReadMessage(n, m)

\* What is the caller's and what is not.
LEMMA StopperFacts ==
    /\ Reset \subseteq Stopper /\ Call \notin Reset
    /\ Calls = 1 <=> Call \in Stopper
    /\ \A k \in Stopper : k \in Reset \/ k = Call
  BY SessionAssumption DEF Stopper, Reset, Call

\* A run has loops only once its handle() has dialled.
LEMMA StepKeepsBorn ==
    ASSUME Direction = "OUTGOING", TypeOK, NilOK, BornOK, [Next]_vars
    PROVE  BornOK'
<1>a. /\ handle \in [Run -> HandlePC]
      /\ rx \in [Run -> RxPC] /\ tx \in [Run -> TxPC] /\ ka \in [Run -> KaPC]
      /\ wrote \in [Run -> SUBSET Frames] /\ conn \in {0} \cup Run /\ 0 \notin Run
  BY DEF TypeOK, Frames, Run
<1>. USE <1>a DEF BornOK, HandlePC, RxPC, TxPC, KaPC, Over
<1>1. ASSUME NEW n \in Run, MakeChannels(n) PROVE BornOK'
  BY <1>1 DEF MakeChannels, Goto, remote, loops
<1>2. ASSUME NEW n \in Run, BeginDial(n) PROVE BornOK'
  BY <1>2 DEF BeginDial, Goto, remote, queues, loops
<1>3. ASSUME NEW n \in Run, DialFails(n) PROVE BornOK'
  BY <1>3 DEF DialFails, Goto, remote, queues, loops
<1>3r. ASSUME NEW n \in Run, ResolveFails(n) PROVE BornOK'
  BY <1>3r DEF ResolveFails, Goto, remote, queues, loops
<1>4. ASSUME NEW n \in Run, DialSucceeds(n) PROVE BornOK'
  BY <1>4 DEF DialSucceeds, Goto, queues, loops
<1>5. ASSUME NEW n \in Run, StopDialling(n) PROVE BornOK'
  BY <1>5 DEF StopDialling, Goto, remote, loops
<1>6. ASSUME NEW n \in Run, StartLoops(n) PROVE BornOK'
  BY <1>6 DEF StartLoops, remote, queues
<1>7. ASSUME NEW n \in Run, SendHello(n) PROVE BornOK'
  BY <1>7 DEF SendHello, sendMessage, Goto, Block, remote, loops
<1>8. ASSUME NEW n \in Run, SetHelloSent(n) PROVE BornOK'
  BY <1>8 DEF SetHelloSent, Loop, remote, queues, loops
<1>9. ASSUME NEW n \in Run, processRxHello(n) PROVE BornOK'
  BY <1>9 DEF processRxHello, Take, remote
<1>10. ASSUME NEW n \in Run, processRxKeepalive(n) PROVE BornOK'
  BY <1>10 DEF processRxKeepalive, Take, Goto, Loop, StartReset, remote, loops
<1>11. ASSUME NEW n \in Run, SetEstablished(n) PROVE BornOK'
  BY <1>11 DEF SetEstablished, Goto, remote, queues, loops
<1>12. ASSUME NEW n \in Run, Answer(n) PROVE BornOK'
  BY <1>12 DEF Answer, sendMessage, Loop, Block, remote, loops
<1>13. ASSUME NEW n \in Run, ProcessData(n) PROVE BornOK'
  BY <1>13 DEF ProcessData, Take, Loop, Goto, remote, loops
<1>13r. ASSUME NEW n \in Run, Reply(n) PROVE BornOK'
  BY <1>13r DEF Reply, sendMessage, Loop, Block, remote, loops
<1>13u. ASSUME NEW n \in Run, Unblock(n) PROVE BornOK'
  BY <1>13u DEF Unblock, Held, Loop, Goto, remote, loops
<1>14. ASSUME NEW n \in Run, TakeShutdown(n) PROVE BornOK'
  BY <1>14 DEF TakeShutdown, remote, loops
<1>14s. ASSUME NEW n \in Run, StartRx(n) PROVE BornOK'
  BY <1>14s DEF StartRx, remote, queues
<1>15. ASSUME NEW n \in Run, ReadFails(n) PROVE BornOK'
  BY <1>15 DEF ReadFails, StartReset, remote, queues
<1>16. ASSUME NEW n \in Run, NEW m \in DOMAIN Cap, Deliver(n, m) PROVE BornOK'
  BY <1>16 DEF Deliver, remote, Cap
<1>16s. ASSUME NEW n \in Run, StartTx(n) PROVE BornOK'
  BY <1>16s DEF StartTx, remote, queues
<1>17. ASSUME NEW n \in Run, Transmit(n) PROVE BornOK'
  BY <1>17 DEF Transmit, StartReset, loops
<1>18. ASSUME NEW n \in Run, CloseConnection(n) PROVE BornOK'
  BY <1>18 DEF CloseConnection, Ends
<1>18n. ASSUME NEW n \in Run, UseNil(n) PROVE BornOK'
  BY <1>18n DEF UseNil, remote, queues
<1>18k. ASSUME NEW n \in Run, StartKeepalive(n) PROVE BornOK'
  BY <1>18k DEF StartKeepalive, remote, queues
<1>19. ASSUME NEW n \in Run, SendKeepalive(n) PROVE BornOK'
  BY <1>19 DEF SendKeepalive, sendMessage, remote
<1>19u. ASSUME NEW n \in Run, UnblockKeepalive(n) PROVE BornOK'
  BY <1>19u DEF UnblockKeepalive, remote
<1>20. ASSUME NEW n \in Run, StopKeepalive(n) PROVE BornOK'
  BY <1>20 DEF StopKeepalive, remote
<1>21. ASSUME NEW n \in Run, Tick(n) PROVE BornOK'
  BY <1>21 DEF Tick, remote, queues
<1>22. ASSUME NEW n \in Run, Timeout(n) PROVE BornOK'
  BY <1>22 DEF Timeout, StartReset, remote, queues, loops
<1>23. ASSUME NEW n \in Run, ReadGarbage(n) PROVE BornOK'
  BY <1>23 DEF ReadGarbage, StartReset, remote, queues
<1>24. ASSUME NEW n \in Run, NEW m \in DOMAIN Cap, ReadMessage(n, m) PROVE BornOK'
  BY <1>24 DEF ReadMessage, queues
<1>25. ASSUME NEW k \in Stopper, ResetChecks(k) PROVE BornOK'
  BY <1>25 DEF ResetChecks, At, remote, queues, loops
<1>26. ASSUME NEW k \in Stopper, SetState(k, "retry", "RETRY", "stops") PROVE BornOK'
  BY <1>26 DEF SetState, At, remote, queues, loops
<1>27. ASSUME NEW k \in Stopper, SendStops(k, "stops", "wait") PROVE BornOK'
  BY <1>27 DEF SendStops, At, remote, loops
<1>28. ASSUME NEW k \in Stopper, WaitForGoroutines(k) PROVE BornOK'
  BY <1>28 DEF WaitForGoroutines, At, remote, queues, loops
<1>29. ASSUME NEW k \in Stopper, SetState(k, "pause", "CONNECTING", "respawn")
       PROVE  BornOK'
  BY <1>29 DEF SetState, At, remote, queues, loops
<1>30. ASSUME NEW k \in Stopper, Respawn(k) PROVE BornOK'
  BY <1>30 DEF Respawn, At, remote, queues, loops
<1>31. ASSUME NEW k \in Stopper, CloseChecks(k, "close1", "set1") PROVE BornOK'
  BY <1>31 DEF CloseChecks, AfterClose, At, remote, queues, loops
<1>32. ASSUME NEW k \in Stopper, CloseChecks(k, "close2", "set2") PROVE BornOK'
  BY <1>32 DEF CloseChecks, AfterClose, At, remote, queues, loops
<1>33. ASSUME NEW k \in Stopper, SetState(k, "set1", "CLOSED", "stops1") PROVE BornOK'
  BY <1>33 DEF SetState, At, remote, queues, loops
<1>34. ASSUME NEW k \in Stopper, SetState(k, "set2", "CLOSED", "stops2") PROVE BornOK'
  BY <1>34 DEF SetState, At, remote, queues, loops
<1>35. ASSUME NEW k \in Stopper, SendStops(k, "stops1", AfterClose(k, "close1"))
       PROVE  BornOK'
  BY <1>35 DEF SendStops, At, remote, loops, AfterClose
<1>36. ASSUME NEW k \in Stopper, SendStops(k, "stops2", "done") PROVE BornOK'
  BY <1>36 DEF SendStops, At, remote, loops
<1>37. ASSUME NEW c \in Run, RemoteCloses(c) PROVE BornOK'
  BY <1>37 DEF RemoteCloses, Ends, queues, loops
<1>38. CASE UNCHANGED vars
  BY <1>38 DEF vars, remote, queues, loops
<1>. QED
  BY <1>1, <1>2, <1>3, <1>3r, <1>4, <1>5, <1>6, <1>7, <1>8, <1>9, <1>10, <1>11, <1>12,
     <1>13, <1>13r, <1>13u, <1>14, <1>14s, <1>15, <1>16, <1>16s, <1>17, <1>18, <1>18n,
     <1>18k, <1>19, <1>19u, <1>20, <1>21, <1>22, <1>23, <1>24, <1>25, <1>26, <1>27, <1>28,
     <1>29, <1>30, <1>31, <1>32, <1>33, <1>34, <1>35, <1>36, <1>37, <1>38
  DEF Next, HandleStep, rxStep, txStep, kaStep, ResetStep, CloseStep

\* A step of a run is one of a run that lives.  It starts no run, and a Reset only
\* when its handle() has begun.
LEMMA LiveStep ==
    ASSUME Direction = "OUTGOING", TypeOK, BornOK, NEW n \in Run, RunStep(n)
    PROVE  /\ Live(n) /\ \A x \in Run : Live(x)' => Live(x)
           /\ \A x \in Run : handle'[x] = "spawned" => handle[x] = "spawned"
           /\ state' = state \/ state' \in {"HELLO_SENT", "HELLO_RECEIVED", "ESTABLISHED"}
           /\ UNCHANGED <<stop, met>> \/ (StartReset /\ handle[n] # "spawned")
           /\ missed' = missed
<1>. DEFINE Steps ==
       /\ Live(n) /\ \A x \in Run : Live(x)' => Live(x)
       /\ \A x \in Run : handle'[x] = "spawned" => handle[x] = "spawned"
       /\ state' = state \/ state' \in {"HELLO_SENT", "HELLO_RECEIVED", "ESTABLISHED"}
       /\ UNCHANGED <<stop, met>> \/ (StartReset /\ handle[n] # "spawned")
       /\ missed' = missed
<1>a. /\ handle \in [Run -> HandlePC]
      /\ rx \in [Run -> RxPC] /\ tx \in [Run -> TxPC] /\ ka \in [Run -> KaPC]
  BY DEF TypeOK
<1>. USE Direction = "OUTGOING", <1>a DEF Live, BornOK, Over, HandlePC, RxPC, TxPC, KaPC
<1>1. ASSUME MakeChannels(n) PROVE Steps
  BY <1>1 DEF MakeChannels, Goto, loops
<1>2. ASSUME BeginDial(n) PROVE Steps
  BY <1>2 DEF BeginDial, Goto, loops
<1>3. ASSUME DialFails(n) PROVE Steps
  BY <1>3 DEF DialFails, Goto, loops
<1>3r. ASSUME ResolveFails(n) PROVE Steps
  BY <1>3r DEF ResolveFails, Goto, loops
<1>4. ASSUME DialSucceeds(n) PROVE Steps
  BY <1>4 DEF DialSucceeds, Goto, loops
<1>5. ASSUME StopDialling(n) PROVE Steps
  BY <1>5 DEF StopDialling, Goto, loops
<1>6. ASSUME StartLoops(n) PROVE Steps
  BY <1>6 DEF StartLoops
<1>7. ASSUME SendHello(n) PROVE Steps
  BY <1>7 DEF SendHello, sendMessage, Goto, Block, loops
<1>8. ASSUME SetHelloSent(n) PROVE Steps
  BY <1>8 DEF SetHelloSent, Loop, loops
<1>9. ASSUME processRxHello(n) PROVE Steps
  BY <1>9 DEF processRxHello, Take
<1>10. ASSUME processRxKeepalive(n) PROVE Steps
  BY <1>10 DEF processRxKeepalive, Take, Goto, Loop, loops
<1>11. ASSUME SetEstablished(n) PROVE Steps
  BY <1>11 DEF SetEstablished, Goto, loops
<1>12. ASSUME Answer(n) PROVE Steps
  BY <1>12 DEF Answer, sendMessage, Loop, Block, loops
<1>13. ASSUME ProcessData(n) PROVE Steps
  BY <1>13 DEF ProcessData, Take, Loop, Goto, loops
<1>13r. ASSUME Reply(n) PROVE Steps
  BY <1>13r DEF Reply, sendMessage, Loop, Block, loops
<1>13u. ASSUME Unblock(n) PROVE Steps
  BY <1>13u DEF Unblock, Held, Loop, Goto, loops
<1>14. ASSUME TakeShutdown(n) PROVE Steps
  BY <1>14 DEF TakeShutdown, loops
<1>14s. ASSUME StartRx(n) PROVE Steps
  BY <1>14s DEF StartRx
<1>15. ASSUME ReadFails(n) PROVE Steps
  BY <1>15 DEF ReadFails
<1>16. ASSUME NEW m \in DOMAIN Cap, Deliver(n, m) PROVE Steps
  BY <1>16 DEF Deliver, Cap
<1>16s. ASSUME StartTx(n) PROVE Steps
  BY <1>16s DEF StartTx
<1>17. ASSUME Transmit(n) PROVE Steps
  BY <1>17 DEF Transmit, loops
<1>18. ASSUME CloseConnection(n) PROVE Steps
  BY <1>18 DEF CloseConnection, Ends
<1>18n. ASSUME UseNil(n) PROVE Steps
  BY <1>18n DEF UseNil
<1>18k. ASSUME StartKeepalive(n) PROVE Steps
  BY <1>18k DEF StartKeepalive
<1>19. ASSUME SendKeepalive(n) PROVE Steps
  BY <1>19 DEF SendKeepalive, sendMessage
<1>19u. ASSUME UnblockKeepalive(n) PROVE Steps
  BY <1>19u DEF UnblockKeepalive
<1>20. ASSUME StopKeepalive(n) PROVE Steps
  BY <1>20 DEF StopKeepalive
<1>21. ASSUME Tick(n) PROVE Steps
  BY <1>21 DEF Tick
<1>22. ASSUME Timeout(n) PROVE Steps
  BY <1>22 DEF Timeout, loops
<1>23. ASSUME ReadGarbage(n) PROVE Steps
  BY <1>23 DEF ReadGarbage
<1>24. ASSUME NEW m \in DOMAIN Cap, ReadMessage(n, m) PROVE Steps
  BY <1>24 DEF ReadMessage, Cap
<1>. QED
  BY <1>1, <1>2, <1>3, <1>3r, <1>4, <1>5, <1>6, <1>7, <1>8, <1>9, <1>10, <1>11, <1>12,
     <1>13, <1>13r, <1>13u, <1>14, <1>14s, <1>15, <1>16, <1>16s, <1>17, <1>18, <1>18n,
     <1>18k, <1>19, <1>19u, <1>20, <1>21, <1>22, <1>23, <1>24
  DEF RunStep, HandleStep, rxStep, txStep, kaStep

\* Calm is lost for good.
LEMMA CalmBefore ==
    ASSUME Direction = "OUTGOING", TypeOK, BornOK, [Next]_vars, Calm'
    PROVE  Calm
<1>. DEFINE Moves == /\ (met => met') /\ missed \subseteq missed'
                     /\ Calls = 1 /\ stop'[Call] = "close1" => stop[Call] = "close1"
<1>a. stop \in [Stopper -> StopPC]
  BY DEF TypeOK
<1>1. ASSUME NEW n \in Run, RunStep(n) PROVE Moves
  BY <1>a, <1>1, LiveStep, StopperFacts DEF StartReset
<1>2. ASSUME NEW k \in Stopper, ResetStep(k) \/ CloseStep(k) PROVE Moves
  <2>1. PICK there : /\ stop' = [stop EXCEPT ![k] = there] /\ UNCHANGED met
                     /\ missed \subseteq missed'
                     /\ there = "close1" => stop[k] = "close1"
    BY <1>2 DEF ResetStep, CloseStep, ResetChecks, SetState, SendStops, WaitForGoroutines,
                Respawn, CloseChecks, AfterClose, At
  <2>. QED
    BY <1>a, <2>1, StopperFacts
<1>3. ASSUME (\E c \in Run : RemoteCloses(c)) \/ UNCHANGED vars PROVE Moves
  BY <1>3 DEF RemoteCloses, vars
<1>4. Moves
  BY <1>1, <1>2, <1>3 DEF Next, RunStep
<1>. QED
  BY <1>4, StopperFacts DEF Calm, TypeOK

\* One Reset at a time finds one run at a time, and starts the next after its end.
LEMMA StepKeepsOneRun ==
    ASSUME Direction = "OUTGOING", TypeOK, BornOK, Calm, Calm', OneRunOK, [Next]_vars
    PROVE  OneRunOK'
<1>a. /\ stop \in [Stopper -> StopPC] /\ handle \in [Run -> HandlePC]
      /\ rx \in [Run -> RxPC] /\ tx \in [Run -> TxPC] /\ ka \in [Run -> KaPC]
  BY DEF TypeOK
<1>1. ASSUME NEW n \in Run, RunStep(n) PROVE OneRunOK'
  <2>1. /\ Live(n) /\ \A x \in Run : Live(x)' => Live(x)
        /\ \A x \in Run : handle'[x] = "spawned" => handle[x] = "spawned"
        /\ state' = state \/ state' \in {"HELLO_SENT", "HELLO_RECEIVED", "ESTABLISHED"}
        /\ UNCHANGED <<stop, met>> \/ (StartReset /\ handle[n] # "spawned")
        /\ missed' = missed
    BY <1>1, LiveStep
  <2>2. \A k \in Reset : stop[k] \notin {"pause", "respawn"}
    BY <2>1 DEF OneRunOK
  <2>3. \A k \in Reset : stop'[k] = stop[k] \/ stop'[k] = "check"
    BY <1>a, <2>1, StopperFacts DEF StartReset
  <2>4. \A j, k \in Reset :
           stop'[j] \notin {"none", "done"} /\ stop'[k] \notin {"none", "done"} => j = k
    <3>1. CASE stop' = stop
      BY <3>1 DEF OneRunOK
    <3>2. CASE StartReset
      <4>1. ~Resetting
        BY <3>2 DEF StartReset, Calm
      <4>. QED
        BY <1>a, <3>2, <4>1, StopperFacts DEF StartReset, Resetting
    <3>. QED
      BY <2>1, <3>1, <3>2
  <2>5. Resetting' => \A x \in Run : handle'[x] # "spawned"
    <3>1. CASE stop' = stop
      BY <2>1, <3>1 DEF OneRunOK, Resetting
    <3>2. CASE handle[n] # "spawned"
      <4>1. \A x \in Run : handle[x] = "spawned" => Live(x)
        BY DEF Live, Over
      <4>. QED
        BY <2>1, <3>2, <4>1 DEF OneRunOK
    <3>. QED
      BY <2>1, <3>1, <3>2
  <2>. QED
    BY <2>1, <2>2, <2>3, <2>4, <2>5 DEF OneRunOK
<1>2. ASSUME NEW k \in Stopper, ResetStep(k) \/ CloseStep(k)
      PROVE  /\ k \in Reset /\ ResetStep(k)
             /\ stop[k] \in {"check", "retry", "stops", "wait", "pause", "respawn"}
  <2>1. CASE k = Call
    BY <1>a, <1>2, <2>1, StopperFacts
    DEF Calm, ResetStep, CloseStep, ResetChecks, SetState, SendStops, WaitForGoroutines,
        Respawn, CloseChecks, AfterClose, At
  <2>2. CASE k \in Reset
    BY <1>2, <2>2
    DEF OneRunOK, ResetStep, CloseStep, ResetChecks, SetState, SendStops, WaitForGoroutines,
        Respawn, CloseChecks, At
  <2>. QED
    BY <2>1, <2>2, StopperFacts
<1>3. ASSUME NEW k \in Stopper, ResetStep(k) \/ CloseStep(k) PROVE OneRunOK'
  <2>1. /\ k \in Reset /\ ResetStep(k)
        /\ stop[k] \in {"check", "retry", "stops", "wait", "pause", "respawn"}
    BY <1>2, <1>3
  <2>2. /\ \A j \in Reset : j # k => stop[j] \in {"none", "done"}
        /\ Resetting /\ \A n \in Run : handle[n] # "spawned"
    BY <2>1 DEF Calm, OneRunOK, Resetting
  <2>3. ASSUME NEW there \in {"retry", "stops", "wait", "stuck"}, UNCHANGED <<handle, loops>>,
               stop' = [stop EXCEPT ![k] = there], state' \in {state, "RETRY"}
        PROVE  OneRunOK'
    <3>1. \A j \in Reset : stop'[j] = IF j = k THEN there ELSE stop[j]
      BY <1>a, <2>1, <2>2, <2>3, StopperFacts
    <3>2. \A n \in Run : Live(n)' <=> Live(n)
      BY <2>3 DEF Live, loops
    <3>. QED
      BY <2>2, <2>3, <3>1, <3>2 DEF OneRunOK
  <2>4. CASE ResetChecks(k)
    BY <2>1, <2>3, <2>4 DEF ResetChecks, At, OneRunOK
  <2>5. CASE SetState(k, "retry", "RETRY", "stops")
    BY <2>3, <2>5 DEF SetState, At
  <2>6. CASE SendStops(k, "stops", "wait")
    BY <2>3, <2>6 DEF SendStops, At
  <2>7. CASE WaitForGoroutines(k)
    <3>1. \A j \in Reset : stop'[j] = IF j = k THEN "pause" ELSE stop[j]
      BY <1>a, <2>1, <2>2, <2>7, StopperFacts DEF WaitForGoroutines, At
    <3>2. \A n \in Run : "spawned" \notin {rx[n], tx[n], ka[n]}
      BY <2>7 DEF WaitForGoroutines, Calm
    <3>3. \A n \in Run : ~Live(n)'
      BY <2>2, <2>7, <3>2 DEF WaitForGoroutines, Counted, Running, Live, loops
    <3>. QED
      BY <2>2, <2>7, <3>1, <3>3 DEF WaitForGoroutines, OneRunOK
  <2>8. CASE SetState(k, "pause", "CONNECTING", "respawn")
    <3>1. \A j \in Reset : stop'[j] = IF j = k THEN "respawn" ELSE stop[j]
      BY <1>a, <2>1, <2>2, <2>8, StopperFacts DEF SetState, At
    <3>2. \A n \in Run : ~Live(n)'
      BY <2>1, <2>8 DEF SetState, At, OneRunOK, Live, loops
    <3>. QED
      BY <2>1, <2>2, <2>8, <3>1, <3>2 DEF SetState, At, OneRunOK
  <2>9. CASE Respawn(k)
    <3>1. \A j \in Reset : stop'[j] = IF j = k THEN "done" ELSE stop[j]
      BY <1>a, <2>1, <2>2, <2>9, StopperFacts DEF Respawn, At
    <3>2. PICK n \in Run : handle' = [handle EXCEPT ![n] = "spawned"]
      BY <2>9 DEF Respawn
    <3>3. \A x \in Run : Live(x)' => x = n
      BY <1>a, <2>1, <2>9, <3>2 DEF Respawn, At, OneRunOK, Live, loops, Over
    <3>4. \A j \in Reset : stop'[j] \in {"none", "done"}
      BY <2>2, <3>1
    <3>. QED
      BY <2>1, <2>9, <3>3, <3>4 DEF Respawn, OneRunOK, Resetting
  <2>. QED
    BY <2>1, <2>4, <2>5, <2>6, <2>7, <2>8, <2>9 DEF ResetStep
<1>4. CASE (\E c \in Run : RemoteCloses(c)) \/ UNCHANGED vars
  BY <1>4 DEF RemoteCloses, vars, loops, OneRunOK, Live, Resetting
<1>. QED
  BY <1>1, <1>3, <1>4 DEF Next, RunStep

\* What a run finds when nobody resets it: its own channels and connection, and no
\* KEEPALIVE before its keepaliveLoop has started.
LEMMA RunKeepsOrder ==
    ASSUME Direction = "OUTGOING", TypeOK, NilOK, BornOK, OneRunOK, NEW n \in Run,
           RunStep(n), Live(n), Live(n)', RunOK(n), Calm, stop' = stop
    PROVE  RunOK(n)'
<1>a. /\ stop \in [Stopper -> StopPC] /\ handle \in [Run -> HandlePC] /\ state \in State
      /\ rx \in [Run -> RxPC] /\ tx \in [Run -> TxPC] /\ ka \in [Run -> KaPC]
      /\ rxq \in [Run -> Received] /\ txq \in [Run -> Seq(Frames)] /\ stops \in [Run -> Stops]
      /\ wrote \in [Run -> SUBSET Frames] /\ on \in [Run -> Waits] /\ 0 \notin Run
  BY DEF TypeOK, Frames, Run
<1>b. ~StartReset
  BY <1>a, StopperFacts DEF StartReset
<1>. USE Direction = "OUTGOING", stop' = stop, Live(n), RunOK(n), <1>a
     DEF HandlePC, RxPC, TxPC, KaPC, Held, Over
<1>1. ASSUME MakeChannels(n) PROVE RunOK(n)'
  <2>a. \A m \in Run : Live(m) => m = n
    BY DEF OneRunOK
  <2>1. Counted = {}
    BY <1>1, <2>a DEF MakeChannels, BornOK, Counted, Running, Live
  <2>2. stops'[n] = NoStops /\ rxq'[n] = NoMessages /\ txq'[n] = <<>>
    BY <1>1, <2>1 DEF MakeChannels, Collected, InUse
  <2>3. Absent("KEEPALIVE", txq'[n]) /\ stops'[n].shutdown = 0 /\ rxq'[n].KEEPALIVE = 0
    BY <2>2 DEF Absent, NoStops, NoMessages
  <2>. QED
    BY <1>1, <2>3 DEF MakeChannels, Goto, remote, loops, RunOK, Own, InStep, NoKeepalive,
       NotSent, NoneReceived, BornOK
<1>2. ASSUME BeginDial(n) PROVE RunOK(n)'
  <2>1. NoKeepalive(n) => NoKeepalive(n)'
    BY <1>2 DEF BeginDial, Goto, remote, queues, loops, NoKeepalive, NotSent, NoneReceived
  <2>. QED
    BY <1>2, <2>1 DEF BeginDial, Goto, remote, queues, loops, RunOK, Own, InStep
<1>3. ASSUME DialFails(n) PROVE RunOK(n)'
  <2>1. NoKeepalive(n) => NoKeepalive(n)'
    BY <1>3 DEF DialFails, Goto, remote, queues, loops, NoKeepalive, NotSent, NoneReceived
  <2>. QED
    BY <1>3, <2>1 DEF DialFails, Goto, remote, queues, loops, RunOK, Own, InStep
<1>3r. ASSUME ResolveFails(n) PROVE RunOK(n)'
  BY <1>3r, Live(n)' DEF ResolveFails, Goto, loops, BornOK, Live
<1>4. ASSUME DialSucceeds(n) PROVE RunOK(n)'
  <2>1. NoKeepalive(n) => NoKeepalive(n)'
    BY <1>4 DEF DialSucceeds, Goto, queues, loops, NoKeepalive, NotSent, NoneReceived
  <2>. QED
    BY <1>4, <2>1 DEF DialSucceeds, Goto, queues, loops, RunOK, Own, InStep
<1>5. ASSUME StopDialling(n) PROVE RunOK(n)'
  BY <1>5 DEF StopDialling, RunOK, Own
<1>6. ASSUME StartLoops(n) PROVE RunOK(n)'
  <2>1. NoKeepalive(n) => NoKeepalive(n)'
    BY <1>6 DEF StartLoops, remote, queues, NoKeepalive, NotSent, NoneReceived
  <2>. QED
    BY <1>6, <2>1 DEF StartLoops, remote, queues, RunOK, Own, InStep
<1>7. ASSUME SendHello(n) PROVE RunOK(n)'
  <2>1. NoKeepalive(n) => NoKeepalive(n)'
    <3>1. /\ made \in Run /\ UNCHANGED <<wrote, rx, ka, rxq>>
          /\ Put(made, "HELLO") \/ UNCHANGED txq
      BY <1>7 DEF SendHello, sendMessage, remote, loops, RunOK, Own
    <3>. QED
      BY <3>1, NotSentStep DEF NoKeepalive, NoneReceived, Frames
  <2>2. \/ handle'[n] = "helloSent"
        \/ handle'[n] = "helloBlocked" /\ on'[n].handle = made
    BY <1>7 DEF SendHello, sendMessage, Goto, Block, Waits
  <2>3. on'[n].rx = on[n].rx /\ on'[n].tx = on[n].tx
    BY <1>7 DEF SendHello, sendMessage, Goto, Block, Waits
  <2>. QED
    BY <1>7, <2>1, <2>2, <2>3 DEF SendHello, remote, loops, RunOK, Own, InStep
<1>8. ASSUME SetHelloSent(n) PROVE RunOK(n)'
  <2>1. NoKeepalive(n) => NoKeepalive(n)'
    BY <1>8 DEF SetHelloSent, Loop, remote, queues, loops, NoKeepalive, NotSent, NoneReceived
  <2>. QED
    BY <1>8, <2>1 DEF SetHelloSent, Loop, remote, queues, loops, RunOK, Own, InStep
<1>9. ASSUME processRxHello(n) PROVE RunOK(n)'
  BY <1>9 DEF processRxHello, Take, remote, RunOK, Own, InStep
<1>10. ASSUME processRxKeepalive(n) PROVE RunOK(n)'
  <2>1. state \in {"HELLO_RECEIVED", "ESTABLISHED"}
    BY <1>10 DEF processRxKeepalive, Take, RunOK, Own, InStep, NoKeepalive, NoneReceived
  <2>. QED
    BY <1>10, <2>1 DEF processRxKeepalive, Take, Expecting, Goto, StartReset, remote, loops,
       RunOK, Own, InStep
<1>11. ASSUME SetEstablished(n) PROVE RunOK(n)'
  <2>1. NoKeepalive(n) => NoKeepalive(n)'
    BY <1>11 DEF SetEstablished, Goto, remote, queues, loops, NoKeepalive, NotSent,
       NoneReceived
  <2>. QED
    BY <1>11, <2>1 DEF SetEstablished, Goto, remote, queues, loops, RunOK, Own, InStep
<1>12. ASSUME Answer(n) PROVE RunOK(n)'
  <2>1. NoKeepalive(n) => NoKeepalive(n)'
    BY <1>12 DEF Answer, remote, loops, NoKeepalive, NotSent, NoneReceived
  <2>2. state = "ESTABLISHED" /\ Own(n)
    BY <1>12 DEF Answer, RunOK, InStep
  <2>3. /\ handle'[n] = "loop" /\ on'[n].handle = made
        /\ on'[n].rx = on[n].rx /\ on'[n].tx = on[n].tx
    BY <1>12 DEF Answer, Loop, Waits
  <2>4. UNCHANGED <<state, conn, made, rx, tx, stops>>
    BY <1>12 DEF Answer, loops
  <2>. QED
    BY <2>1, <2>2, <2>3, <2>4 DEF RunOK, Own, InStep
<1>13. ASSUME ProcessData(n) PROVE RunOK(n)'
  <2>1. NoKeepalive(n) => NoKeepalive(n)'
    <3>1. rxq'[n].KEEPALIVE = rxq[n].KEEPALIVE
      BY <1>13 DEF ProcessData, Take, Received
    <3>. QED
      BY <1>13, <3>1 DEF ProcessData, remote, loops, NoKeepalive, NotSent, NoneReceived
  <2>2. handle[n] = "loop" /\ on[n].handle = n /\ made = n
    BY <1>13 DEF ProcessData, Take, RunOK, Own
  <2>3. /\ handle'[n] \in {"loop", "reply"} /\ on'[n].handle = n
        /\ on'[n].rx = on[n].rx /\ on'[n].tx = on[n].tx
    BY <1>13, <2>2 DEF ProcessData, Loop, Goto, Waits
  <2>. QED
    BY <1>13, <2>1, <2>2, <2>3 DEF ProcessData, remote, loops, RunOK, Own, InStep
<1>13r. ASSUME Reply(n) PROVE RunOK(n)'
  <2>1. NoKeepalive(n) => NoKeepalive(n)'
    <3>1. /\ made \in Run /\ UNCHANGED <<wrote, rx, ka, rxq>>
          /\ Put(made, "UPDATE") \/ UNCHANGED txq
      BY <1>13r DEF Reply, sendMessage, remote, loops, RunOK, Own
    <3>. QED
      BY <3>1, NotSentStep DEF NoKeepalive, NoneReceived, Frames
  <2>2. handle'[n] \in {"loop", "replyBlocked"} /\ on'[n].handle = made
    BY <1>13r DEF Reply, sendMessage, Loop, Block, Waits
  <2>3. on'[n].rx = on[n].rx /\ on'[n].tx = on[n].tx
    BY <1>13r DEF Reply, sendMessage, Loop, Block, Waits
  <2>. QED
    BY <1>13r, <2>1, <2>2, <2>3 DEF Reply, remote, loops, RunOK, Own, InStep
<1>13u. ASSUME Unblock(n) PROVE RunOK(n)'
  <2>a. handle[n] \in {"helloBlocked", "replyBlocked"}
    BY <1>13u DEF Unblock, RunOK
  <2>1. NoKeepalive(n) => NoKeepalive(n)'
    <3>1. /\ on[n].handle \in Run /\ UNCHANGED <<wrote, rx, ka, rxq>>
          /\ Held[handle[n]] \in {"HELLO", "UPDATE"} /\ Put(on[n].handle, Held[handle[n]])
      BY <1>13u, <2>a DEF Unblock, remote, loops, RunOK, Own
    <3>. QED
      BY <3>1, NotSentStep DEF NoKeepalive, NoneReceived, Frames
  <2>2. made = n /\ on[n].handle = n
    BY <2>a DEF RunOK, Own
  <2>3. /\ handle'[n] = IF handle[n] = "helloBlocked" THEN "helloSent" ELSE "loop"
        /\ on'[n].handle = n /\ on'[n].rx = on[n].rx /\ on'[n].tx = on[n].tx
    BY <1>13u, <2>2 DEF Unblock, Loop, Goto, Waits
  <2>. QED
    BY <1>13u, <2>a, <2>1, <2>2, <2>3 DEF Unblock, remote, loops, RunOK, Own, InStep
<1>14. ASSUME TakeShutdown(n) PROVE RunOK(n)'
  BY <1>14 DEF TakeShutdown, RunOK, Own
<1>14s. ASSUME StartRx(n) PROVE RunOK(n)'
  <2>1. conn = n /\ n # 0
    BY <1>14s DEF StartRx, RunOK, Own, BornOK, NilOK, Calm
  <2>2. NoKeepalive(n) => NoKeepalive(n)'
    BY <1>14s DEF StartRx, remote, queues, NoKeepalive, NotSent, NoneReceived
  <2>. QED
    BY <1>14s, <2>1, <2>2 DEF StartRx, remote, queues, RunOK, Own, InStep, BornOK
<1>15. ASSUME ReadFails(n) PROVE RunOK(n)'
  <2>1. state \notin {"RETRY", "CLOSED"}
    BY <1>15 DEF ReadFails, RunOK, InStep, HandlePC, BornOK
  <2>. QED
    BY <1>15, <2>1, <1>b DEF ReadFails, Stopping
<1>16. ASSUME NEW m \in DOMAIN Cap, Deliver(n, m) PROVE RunOK(n)'
  <2>1. NoKeepalive(n) => NoKeepalive(n)'
    <3>. SUFFICES ASSUME NoKeepalive(n) PROVE NoKeepalive(n)'
      OBVIOUS
    <3>1. m \in {"HELLO", "DATA"}
      BY <1>16 DEF Deliver, Cap, NoKeepalive, NoneReceived
    <3>2. rxq'[n].KEEPALIVE = rxq[n].KEEPALIVE
      BY <1>16, <3>1 DEF Deliver, Received
    <3>. QED
      BY <1>16, <3>2 DEF Deliver, remote, NoKeepalive, NotSent, NoneReceived
  <2>2. conn = n
    BY <1>16 DEF Deliver, Cap, RunOK, Own, BornOK, NilOK
  <2>. QED
    BY <1>16, <2>1, <2>2 DEF Deliver, Cap, remote, RunOK, Own, InStep, BornOK
<1>16s. ASSUME StartTx(n) PROVE RunOK(n)'
  <2>1. NoKeepalive(n) => NoKeepalive(n)'
    BY <1>16s DEF StartTx, remote, queues, NoKeepalive, NotSent, NoneReceived
  <2>. QED
    BY <1>16s, <2>1 DEF StartTx, remote, queues, RunOK, Own, InStep, BornOK
<1>17. ASSUME Transmit(n) PROVE RunOK(n)'
  <2>1. NoKeepalive(n) => NoKeepalive(n)'
    <3>1. on[n].tx = n
      BY <1>17 DEF Transmit, RunOK, Own, BornOK
    <3>2. ASSUME NoKeepalive(n) PROVE NotSent("KEEPALIVE", n)'
      BY <1>17, <3>1, <3>2, TransmitStep DEF NoKeepalive, NotSent
    <3>. QED
      BY <1>17, <3>2 DEF Transmit, loops, NoKeepalive, NoneReceived
  <2>. QED
    BY <1>17, <2>1 DEF Transmit, loops, RunOK, Own, InStep
<1>18. ASSUME CloseConnection(n) PROVE RunOK(n)'
  <2>1. NoKeepalive(n) => NoKeepalive(n)'
    <3>1. wrote'[n] \subseteq wrote[n]
      BY <1>18 DEF CloseConnection, Ends
    <3>. QED
      BY <1>18, <3>1 DEF CloseConnection, NoKeepalive, NotSent, NoneReceived
  <2>2. \A x \in Run : stops'[x].shutdown = stops[x].shutdown
    BY <1>18 DEF CloseConnection, Stops
  <2>. QED
    BY <1>18, <2>1, <2>2 DEF CloseConnection, RunOK, Own, InStep
<1>18n. ASSUME UseNil(n) PROVE RunOK(n)'
  BY <1>18n DEF UseNil, NilOK, Calm
<1>18k. ASSUME StartKeepalive(n) PROVE RunOK(n)'
  <2>1. ~NoKeepalive(n)
    BY <1>18k DEF StartKeepalive, NoKeepalive
  <2>. QED
    BY <1>18k, <2>1 DEF StartKeepalive, remote, queues, RunOK, Own, InStep
<1>19. ASSUME SendKeepalive(n) PROVE RunOK(n)'
  <2>1. ~NoKeepalive(n)
    BY <1>19 DEF SendKeepalive, NoKeepalive
  <2>. QED
    BY <1>19, <2>1 DEF SendKeepalive, remote, RunOK, Own, InStep
<1>19u. ASSUME UnblockKeepalive(n) PROVE RunOK(n)'
  <2>1. ~NoKeepalive(n)
    BY <1>19u DEF UnblockKeepalive, NoKeepalive
  <2>. QED
    BY <1>19u, <2>1 DEF UnblockKeepalive, remote, RunOK, Own, InStep
<1>20. ASSUME StopKeepalive(n) PROVE RunOK(n)'
  <2>1. ~NoKeepalive(n)
    BY <1>20 DEF StopKeepalive, NoKeepalive
  <2>2. \A x \in Run : stops'[x].shutdown = stops[x].shutdown
    BY <1>20 DEF StopKeepalive, Stops
  <2>. QED
    BY <1>20, <2>1, <2>2 DEF StopKeepalive, remote, RunOK, Own, InStep
<1>21. ASSUME Tick(n) PROVE RunOK(n)'
  <2>1. NoKeepalive(n) => NoKeepalive(n)'
    BY <1>21 DEF Tick, remote, queues, NoKeepalive, NotSent, NoneReceived
  <2>. QED
    BY <1>21, <2>1 DEF Tick, remote, queues, RunOK, Own, InStep
<1>22. ASSUME Timeout(n) PROVE RunOK(n)'
  BY <1>22, <1>b DEF Timeout
<1>23. ASSUME ReadGarbage(n) PROVE RunOK(n)'
  <2>1. NoKeepalive(n) => NoKeepalive(n)'
    BY <1>23 DEF ReadGarbage, remote, queues, NoKeepalive, NotSent, NoneReceived
  <2>. QED
    BY <1>23, <2>1 DEF ReadGarbage, remote, queues, RunOK, Own, InStep
<1>24. ASSUME NEW m \in DOMAIN Cap, ReadMessage(n, m) PROVE RunOK(n)'
  <2>1. on[n].rx = n /\ handle[n] # "spawned"
    BY <1>24 DEF ReadMessage, RunOK, Own, BornOK
  <2>2. NoKeepalive(n) => NoKeepalive(n)'
    <3>1. ASSUME NoKeepalive(n) PROVE m # "KEEPALIVE"
      BY <1>24, <2>1, <3>1 DEF ReadMessage, RemoteMaySend, NoKeepalive, NotSent
    <3>. QED
      BY <1>24, <3>1 DEF ReadMessage, queues, NoKeepalive, NotSent, NoneReceived
  <2>. QED
    BY <1>24, <2>1, <2>2 DEF ReadMessage, queues, RunOK, Own, InStep
<1>. QED
  BY <1>1, <1>2, <1>3, <1>3r, <1>4, <1>5, <1>6, <1>7, <1>8, <1>9, <1>10, <1>11, <1>12,
     <1>13, <1>13r, <1>13u, <1>14, <1>14s, <1>15, <1>16, <1>16s, <1>17, <1>18, <1>18n,
     <1>18k, <1>19, <1>19u, <1>20, <1>21, <1>22, <1>23, <1>24
  DEF RunStep, HandleStep, rxStep, txStep, kaStep

LEMMA StepKeepsClient ==
    ASSUME Direction = "OUTGOING", TypeOK, NilOK, BornOK, ClientOK, [Next]_vars
    PROVE  ClientOK'
<1>. SUFFICES ASSUME Calm' PROVE OneRunOK' /\ (~Resetting' => \A n \in Run : Live(n)' => RunOK(n)')
  BY DEF ClientOK
<1>1. Calm /\ OneRunOK /\ (~Resetting => \A n \in Run : Live(n) => RunOK(n))
  BY CalmBefore DEF ClientOK
<1>2. OneRunOK'
  BY <1>1, StepKeepsOneRun
<1>. SUFFICES ASSUME ~Resetting', NEW x \in Run, Live(x)' PROVE RunOK(x)'
  BY <1>2
<1>a. stop \in [Stopper -> StopPC] /\ handle \in [Run -> HandlePC]
  BY DEF TypeOK
<1>3. ASSUME NEW n \in Run, RunStep(n) PROVE RunOK(x)'
  <2>1. Live(n) /\ Live(x) /\ (stop' = stop \/ StartReset)
    BY <1>3, LiveStep
  <2>2. stop' = stop
    BY <1>a, <2>1, StopperFacts DEF Resetting, StartReset
  <2>3. x = n /\ RunOK(n)
    BY <1>1, <2>1, <2>2 DEF OneRunOK, Resetting
  <2>. QED
    BY <1>1, <1>3, <2>1, <2>2, <2>3, RunKeepsOrder
<1>4. ASSUME NEW k \in Stopper, ResetStep(k) \/ CloseStep(k) PROVE RunOK(x)'
  <2>1. Respawn(k) /\ k \in Reset
    <3>1. CASE k = Call
      BY <1>1, <1>4, <1>a, <3>1, StopperFacts
      DEF Calm, ResetStep, CloseStep, ResetChecks, SetState, SendStops, WaitForGoroutines,
          Respawn, CloseChecks, AfterClose, At
    <3>2. CASE k \in Reset
      BY <1>1, <1>4, <1>a, <3>2, StopperFacts
      DEF OneRunOK, Resetting, ResetStep, CloseStep, ResetChecks, SetState, SendStops,
          WaitForGoroutines, CloseChecks, At
    <3>. QED
      BY <3>1, <3>2, StopperFacts
  <2>2. PICK n \in Run : handle' = [handle EXCEPT ![n] = "spawned"]
    BY <2>1 DEF Respawn
  <2>3. conn' = 0 /\ state' = "CONNECTING" /\ \A m \in Run : ~Live(m)
    BY <1>1, <2>1 DEF Respawn, At, OneRunOK
  <2>4. handle'[x] = "spawned"
    BY <1>a, <2>1, <2>2, <2>3 DEF Respawn, Live, loops
  <2>. QED
    BY <2>3, <2>4 DEF RunOK, InStep
<1>5. ASSUME NEW c \in Run, RemoteCloses(c) PROVE RunOK(x)'
  <2>1. Live(x) /\ ~Resetting
    BY <1>5 DEF RemoteCloses, Live, Resetting, loops
  <2>2. wrote'[x] \subseteq wrote[x]
    BY <1>5 DEF RemoteCloses, Ends, TypeOK
  <2>3. NoKeepalive(x) => NoKeepalive(x)'
    BY <1>5, <2>2 DEF RemoteCloses, queues, loops, NoKeepalive, NotSent, NoneReceived
  <2>. QED
    BY <1>1, <1>5, <2>1, <2>3 DEF RemoteCloses, queues, loops, RunOK, Own, InStep
<1>6. ASSUME UNCHANGED vars PROVE RunOK(x)'
  BY <1>1, <1>6
  DEF vars, remote, queues, loops, Live, Resetting, RunOK, Own, InStep, NoKeepalive, NotSent,
      NoneReceived
<1>. QED
  BY <1>3, <1>4, <1>5, <1>6 DEF Next, RunStep

LEMMA InitHandshake == Init => HandshakeInv
<1>. SUFFICES ASSUME Init PROVE HandshakeInv
  OBVIOUS
<1>1. 1 \in Run /\ 0 \notin Run
  BY SessionAssumption DEF Run
<1>2. \A n \in Run : /\ NotSent("HELLO", n) /\ NotSent("KEEPALIVE", n) /\ NoneReceived(n)
  BY DEF Init, NotSent, Absent, NoneReceived, NoMessages
<1>3. Direction = "INCOMING" => ServerOK
  BY <1>1, <1>2, StopperFacts DEF Init, ServerOK
<1>4. Direction = "OUTGOING" => BornOK
  BY <1>1 DEF Init, BornOK
<1>5. ASSUME Direction = "OUTGOING" PROVE ClientOK
  <2>1. \A n \in Run : Live(n) <=> n = 1
    BY <1>1 DEF Init, Live, Over
  <2>2. \A k \in Reset : stop[k] = "none"
    BY StopperFacts DEF Init
  <2>3. OneRunOK
    BY <2>1, <2>2 DEF Init, OneRunOK, Resetting
  <2>4. RunOK(1)
    BY <1>1, <1>5 DEF Init, RunOK, InStep
  <2>. QED
    BY <2>1, <2>3, <2>4 DEF ClientOK
<1>. QED
  BY <1>3, <1>4, <1>5 DEF HandshakeInv

LEMMA HandshakeInvariant == Spec => [](TypeOK /\ NilOK /\ HandshakeInv)
<1>1. TypeOK /\ NilOK /\ HandshakeInv /\ [Next]_vars => HandshakeInv'
  <2>1. Direction' = Direction
    OBVIOUS
  <2>. QED
    BY StepKeepsServer, StepKeepsBorn, StepKeepsClient DEF HandshakeInv
<1>. QED
  BY InitHandshake, TypedInvariant, <1>1, PTL DEF Spec

\* As long as nobody resets or closes the peer, its handler never takes a
\* KEEPALIVE in the wrong state (peer.go 507-511), whichever of its channels the
\* select chooses: a server has answered the HELLO before the client may send its
\* first KEEPALIVE, and a client has processed the server's HELLO before its
\* keepaliveLoop sends the KEEPALIVE that the server answers.
THEOREM KeepalivesComeInOrder == Spec => []HandshakeInOrder
<1>1. TypeOK /\ NilOK /\ HandshakeInv => HandshakeInOrder
  <2>. SUFFICES ASSUME TypeOK, NilOK, HandshakeInv, NEW n \in Run, handle[n] = "loop",
                       rxq[on[n].handle].KEEPALIVE > 0, state # "CLOSED", Undisturbed
                PROVE  state \in {Expecting, "ESTABLISHED"}
    BY DEF HandshakeInOrder
  <2>1. on[n].handle \in Run /\ state \in State /\ rxq \in [Run -> Received]
    BY DEF TypeOK, NilOK, Waits
  <2>2. CASE Direction = "INCOMING"
    <3>1. ServerOK
      BY <2>2 DEF HandshakeInv
    <3>2. n = 1 /\ state \notin {"RETRY", "HELLO_RECEIVED"}
      BY <3>1 DEF ServerOK
    <3>3. state # "CONNECTING"
      BY <2>1, <3>1 DEF ServerOK, NoneReceived, Received
    <3>. QED
      BY <2>1, <2>2, <3>2, <3>3 DEF State, Expecting
  <2>3. CASE Direction = "OUTGOING"
    <3>1. Calm /\ ~Resetting
      BY <2>3, StopperFacts DEF Undisturbed, Calm, Resetting, Reset, Call
    <3>2. RunOK(n)
      BY <2>3, <3>1 DEF HandshakeInv, ClientOK, Live, Over
    <3>3. on[n].handle = n /\ state \in {"HELLO_SENT", "HELLO_RECEIVED", "ESTABLISHED"}
      BY <3>2 DEF RunOK, Own, InStep
    <3>4. state # "HELLO_SENT"
      BY <2>1, <3>2, <3>3 DEF RunOK, InStep, NoKeepalive, NoneReceived, Received
    <3>. QED
      BY <2>3, <3>3, <3>4 DEF Expecting
  <2>. QED
    BY <2>2, <2>3, SessionAssumption
<1>. QED
  BY <1>1, HandshakeInvariant, PTL
=============================================================================
