--------------------------- MODULE AnnouncerProofs ---------------------------
(***************************************************************************)
(* Proofs about what a client tells its servers, for any routes, servers   *)
(* and callers and any number of calls and lost connections.               *)
(***************************************************************************)
EXTENDS Announcer, TLAPS

\* A caller has servers to tell only while its call lasts; a server that is not
\* connected has been told nothing.
CallOK ==
    /\ \A c \in Caller : call[c].op = "idle" => call[c] = Idle
    /\ \A c \in Caller : call[c] = Idle => ahead[c] = {}
    /\ \A s \in Server \ up : has[s] = {}

\* The history variables are what they are about.
WhyTyped == wrong \in [Server -> SUBSET Route] /\ denied \in [Server -> SUBSET VNI]

ClientTyped == TypeOK /\ CallOK /\ WhyTyped

\* A server has a route too many only while a caller is to tell it, or after an
\* UPDATE that came too late; and one too few only while someone is to send it.
\* The first needs no help from the sync: has a route been withdrawn, a caller is
\* taking it back.
NoneTooMany ==
    \A s \in up, r \in Route : r \in has[s] /\ r \notin mine => r \in wrong[s] \/ Calling(s, r)

NoneTooFew ==
    \A s \in up, r \in Route : r \in mine /\ r \notin has[s] => r \in wrong[s] \/ Pending(s, r)

AgreeInv == ClientTyped /\ NoneTooMany /\ NoneTooFew

\* Whoever is still to send a subscription is the sync of a new connection, or the
\* caller that has not come to this server yet.
AskedOK ==
    \A s \in up, v \in wanted :
        \/ asked[s][v] > 0 \/ sync[s] = "subscribe" \/ v \in denied[s]
        \/ \E c \in Caller : call[c].op = "SUBSCRIBE" /\ call[c].route.vni = v /\ s \in ahead[c]

AskedInv == ClientTyped /\ AskedOK

-----------------------------------------------------------------------------

LEMMA RouteFacts == AnyRoute \in Route /\ \A r \in Route : r.vni \in VNI
  BY ClientAssumption DEF AnyRoute

LEMMA InitAgree == Init => AgreeInv /\ AskedInv
<1>. SUFFICES ASSUME Init PROVE AgreeInv /\ AskedInv
  OBVIOUS
<1>1. ClientTyped
  BY RouteFacts, ClientAssumption DEF Init, ClientTyped, TypeOK, CallOK, WhyTyped, Idle
<1>. QED
  BY <1>1 DEF Init, AgreeInv, AskedInv, NoneTooMany, NoneTooFew, AskedOK

\* Handlers have routes to send, and callers servers to tell, only while they work.
LEMMA StepKeepsType == ClientTyped /\ [Next]_vars => ClientTyped'
<1>. SUFFICES ASSUME ClientTyped, [Next]_vars PROVE ClientTyped'
  OBVIOUS
<1>. USE RouteFacts, ClientAssumption DEF ClientTyped, TypeOK, CallOK, WhyTyped, why, Idle
<1>1. ASSUME NEW c \in Caller, NEW r \in Route, AnnounceRoute(c, r) PROVE ClientTyped'
  BY <1>1 DEF AnnounceRoute, Begin
<1>2. ASSUME NEW c \in Caller, NEW r \in Route, WithdrawRoute(c, r) PROVE ClientTyped'
  BY <1>2 DEF WithdrawRoute, Begin
<1>3. ASSUME NEW c \in Caller, NEW r \in Route, Subscribe(c, r) PROVE ClientTyped'
  BY <1>3 DEF Subscribe, Begin
<1>4. ASSUME NEW c \in Caller, SendToServer(c) PROVE ClientTyped'
  <2>1. CASE ahead[c] = {} /\ Return(c) /\ UNCHANGED <<has, asked, why>>
    BY <1>4, <2>1 DEF SendToServer, Return
  <2>2. CASE Fail(c) /\ UNCHANGED <<has, asked>>
    <3>1. CASE call[c].op = "SUBSCRIBE"
      <4>1. /\ UNCHANGED wrong
            /\ denied' = [s \in Server |-> IF s \in ahead[c] THEN denied[s] \cup {call[c].route.vni}
                                            ELSE denied[s]]
        BY <2>2, <3>1 DEF Fail
      <4>. QED
        BY <1>4, <2>2, <3>1, <4>1 DEF SendToServer, Fail, Return
    <3>2. CASE call[c].op # "SUBSCRIBE"
      <4>1. /\ UNCHANGED denied
            /\ wrong' = [s \in Server |-> IF s \in ahead[c] THEN wrong[s] \cup {call[c].route}
                                           ELSE wrong[s]]
        BY <2>2, <3>2 DEF Fail
      <4>. QED
        BY <1>4, <2>2, <3>2, <4>1 DEF SendToServer, Fail, Return
    <3>. QED
      BY <3>1, <3>2
  <2>3. ASSUME NEW s \in ahead[c] \cap up,
               has' = Told(s, call[c].route, call[c].op),
               asked' = IF call[c].op = "SUBSCRIBE"
                          THEN [asked EXCEPT ![s][call[c].route.vni] = @ + 1] ELSE asked,
               wrong' = IF call[c].op = "SUBSCRIBE" THEN wrong
                          ELSE Judged(s, call[c].route, call[c].op),
               ahead' = [ahead EXCEPT ![c] = @ \ {s}],
               UNCHANGED <<call, denied>>
        PROVE  ClientTyped'
    <3>1. call[c].op \in {"ADD", "REMOVE", "SUBSCRIBE"} /\ call[c].route \in Route /\ s \in Server
      BY <1>4, <2>3 DEF SendToServer
    <3>2. CASE call[c].op = "ADD"
      BY <1>4, <2>3, <3>1, <3>2 DEF SendToServer, Told, Judged
    <3>3. CASE call[c].op = "REMOVE"
      BY <1>4, <2>3, <3>1, <3>3 DEF SendToServer, Told, Judged
    <3>4. CASE call[c].op = "SUBSCRIBE"
      <4>1. has' = has
        BY <2>3, <3>1, <3>4 DEF Told
      <4>. QED
        BY <1>4, <2>3, <3>1, <3>4, <4>1 DEF SendToServer
    <3>. QED
      BY <3>1, <3>2, <3>3, <3>4
  <2>. QED
    BY <1>4, <2>1, <2>2, <2>3 DEF SendToServer
<1>5. ASSUME NEW s \in Server, Establish(s) PROVE ClientTyped'
  BY <1>5 DEF Establish
<1>6. ASSUME NEW s \in Server, SyncSubscriptions(s) PROVE ClientTyped'
  BY <1>6 DEF SyncSubscriptions
<1>7. ASSUME NEW s \in Server, SyncVNIs(s) PROVE ClientTyped'
  BY <1>7 DEF SyncVNIs
<1>8. ASSUME NEW s \in Server, SyncNext(s) PROVE ClientTyped'
  <2>1. CASE vnis[s] = {} /\ sync' = [sync EXCEPT ![s] = "none"] /\ UNCHANGED <<vnis, todo>>
    BY <1>8, <2>1 DEF SyncNext
  <2>2. ASSUME NEW v \in vnis[s],
               todo' = [todo EXCEPT ![s] = {r \in mine : r.vni = v}],
               vnis' = [vnis EXCEPT ![s] = @ \ {v}], UNCHANGED sync
        PROVE  ClientTyped'
    BY <1>8, <2>2 DEF SyncNext
  <2>. QED
    BY <1>8, <2>1, <2>2 DEF SyncNext
<1>9. ASSUME NEW s \in Server, SyncSend(s) PROVE ClientTyped'
  BY <1>9 DEF SyncSend, Told, Judged
<1>10. ASSUME NEW s \in Server, Lose(s) PROVE ClientTyped'
  BY <1>10 DEF Lose
<1>11. CASE UNCHANGED vars
  BY <1>11 DEF vars
<1>. QED
  BY <1>1, <1>2, <1>3, <1>4, <1>5, <1>6, <1>7, <1>8, <1>9, <1>10, <1>11
  DEF Next, SyncStep

\* The variables have the types of what they stand for, and a handler has routes to
\* send only while it synchronises (peer.go 152-186).
THEOREM ClientTypes == Spec => []TypeOK
<1>1. ClientTyped => TypeOK
  BY DEF ClientTyped
<1>2. Init => ClientTyped
  BY InitAgree DEF AgreeInv
<1>. QED
  BY <1>1, <1>2, StepKeepsType, PTL DEF Spec

-----------------------------------------------------------------------------
(* Announcements.                                                          *)

\* A step of a caller ends no call but its own.
LEMMA SendCalls ==
    ASSUME ClientTyped, NEW c \in Caller, SendToServer(c), NEW s \in Server, NEW r \in Route,
           Calling(s, r)
    PROVE  \/ Calling(s, r)'
           \/ call[c].op # "SUBSCRIBE" /\ call[c].route = r /\ s \in ahead[c]
<1>1. PICK x \in Caller : call[x].route = r /\ call[x].op \in {"ADD", "REMOVE"} /\ s \in ahead[x]
  BY DEF Calling
<1>2. CASE x = c
  BY <1>1, <1>2
<1>3. CASE x # c
  <2>1. call'[x] = call[x] /\ ahead'[x] = ahead[x]
    BY <1>3 DEF SendToServer, Return, Fail, ClientTyped, TypeOK
  <2>. QED
    BY <1>1, <2>1 DEF Calling
<1>. QED
  BY <1>2, <1>3

\* What a server has and the node does not announce is being taken back.
LEMMA StepKeepsMany == ClientTyped /\ NoneTooMany /\ [Next]_vars => NoneTooMany'
<1>. SUFFICES ASSUME ClientTyped, NoneTooMany, [Next]_vars PROVE NoneTooMany'
  OBVIOUS
<1>. USE RouteFacts, ClientAssumption DEF ClientTyped, TypeOK, CallOK, WhyTyped, why,
         NoneTooMany, Idle
<1>1. ASSUME NEW c \in Caller, NEW r \in Route, AnnounceRoute(c, r) PROVE NoneTooMany'
  BY <1>1 DEF AnnounceRoute, Begin, Calling
<1>2. ASSUME NEW c \in Caller, NEW r \in Route, WithdrawRoute(c, r) PROVE NoneTooMany'
  BY <1>2 DEF WithdrawRoute, Begin, Calling
<1>3. ASSUME NEW c \in Caller, NEW r \in Route, Subscribe(c, r) PROVE NoneTooMany'
  BY <1>3 DEF Subscribe, Begin, Calling
<1>4. ASSUME NEW c \in Caller, SendToServer(c) PROVE NoneTooMany'
  <2>0. \A s \in Server, r \in Route : Calling(s, r) =>
           Calling(s, r)' \/ (call[c].op # "SUBSCRIBE" /\ call[c].route = r /\ s \in ahead[c])
    BY <1>4, SendCalls
  <2>1. CASE ahead[c] = {} /\ Return(c) /\ UNCHANGED <<has, asked, why>>
    BY <1>4, <2>0, <2>1 DEF SendToServer
  <2>2. CASE Fail(c) /\ UNCHANGED <<has, asked>>
    <3>1. CASE call[c].op = "SUBSCRIBE"
      BY <1>4, <2>0, <2>2, <3>1 DEF SendToServer, Fail
    <3>2. CASE call[c].op # "SUBSCRIBE"
      <4>1. wrong' = [s \in Server |-> IF s \in ahead[c] THEN wrong[s] \cup {call[c].route}
                                     ELSE wrong[s]]
        BY <2>2, <3>2 DEF Fail
      <4>. QED
        BY <1>4, <2>0, <2>2, <4>1 DEF SendToServer
    <3>. QED
      BY <3>1, <3>2
  <2>3. ASSUME NEW s \in ahead[c] \cap up,
               has' = Told(s, call[c].route, call[c].op),
               wrong' = IF call[c].op = "SUBSCRIBE" THEN wrong
                          ELSE Judged(s, call[c].route, call[c].op),
               ahead' = [ahead EXCEPT ![c] = @ \ {s}],
               UNCHANGED call
        PROVE  NoneTooMany'
    <3>1. call[c].op \in {"ADD", "REMOVE", "SUBSCRIBE"} /\ call[c].route \in Route /\ s \in Server
      BY <1>4, <2>3 DEF SendToServer
    <3>2. \A x \in Server, r \in Route : x # s \/ r # call[c].route =>
             (Calling(x, r) => Calling(x, r)')
      BY <1>4, <2>3 DEF SendToServer, Calling
    <3>3. CASE call[c].op = "ADD"
      BY <1>4, <2>3, <3>1, <3>2, <3>3 DEF SendToServer, Told, Judged
    <3>4. CASE call[c].op = "REMOVE"
      BY <1>4, <2>3, <3>1, <3>2, <3>4 DEF SendToServer, Told, Judged
    <3>5. CASE call[c].op = "SUBSCRIBE"
      <4>1. has' = has /\ wrong' = wrong
        BY <2>3, <3>1, <3>5 DEF Told
      <4>. QED
        BY <1>4, <2>0, <3>5, <4>1 DEF SendToServer
    <3>. QED
      BY <3>1, <3>3, <3>4, <3>5
  <2>. QED
    BY <1>4, <2>1, <2>2, <2>3 DEF SendToServer
<1>5. ASSUME NEW s \in Server, Establish(s) PROVE NoneTooMany'
  BY <1>5 DEF Establish, Calling
<1>6. ASSUME NEW s \in Server, SyncSubscriptions(s) PROVE NoneTooMany'
  BY <1>6 DEF SyncSubscriptions, Calling
<1>7. ASSUME NEW s \in Server, SyncVNIs(s) PROVE NoneTooMany'
  BY <1>7 DEF SyncVNIs, Calling
<1>8. ASSUME NEW s \in Server, SyncNext(s) PROVE NoneTooMany'
  BY <1>8 DEF SyncNext, Calling
<1>9. ASSUME NEW s \in Server, SyncSend(s) PROVE NoneTooMany'
  BY <1>9 DEF SyncSend, Told, Judged, Calling
<1>10. ASSUME NEW s \in Server, Lose(s) PROVE NoneTooMany'
  BY <1>10 DEF Lose, Calling
<1>11. CASE UNCHANGED vars
  BY <1>11 DEF vars, Calling
<1>. QED
  BY <1>1, <1>2, <1>3, <1>4, <1>5, <1>6, <1>7, <1>8, <1>9, <1>10, <1>11
  DEF Next, SyncStep

\* What the node announces and a server does not have is being sent.
LEMMA StepKeepsFew == ClientTyped /\ NoneTooFew /\ [Next]_vars => NoneTooFew'
<1>. SUFFICES ASSUME ClientTyped, NoneTooFew, [Next]_vars PROVE NoneTooFew'
  OBVIOUS
<1>. USE RouteFacts, ClientAssumption DEF ClientTyped, TypeOK, CallOK, WhyTyped, why,
         NoneTooFew, Pending, Syncing, Idle
<1>1. ASSUME NEW c \in Caller, NEW r \in Route, AnnounceRoute(c, r) PROVE NoneTooFew'
  BY <1>1 DEF AnnounceRoute, Begin, Calling
<1>2. ASSUME NEW c \in Caller, NEW r \in Route, WithdrawRoute(c, r) PROVE NoneTooFew'
  BY <1>2 DEF WithdrawRoute, Begin, Calling
<1>3. ASSUME NEW c \in Caller, NEW r \in Route, Subscribe(c, r) PROVE NoneTooFew'
  BY <1>3 DEF Subscribe, Begin, Calling
<1>4. ASSUME NEW c \in Caller, SendToServer(c) PROVE NoneTooFew'
  <2>0. \A s \in Server, r \in Route : Calling(s, r) =>
           Calling(s, r)' \/ (call[c].op # "SUBSCRIBE" /\ call[c].route = r /\ s \in ahead[c])
    BY <1>4, SendCalls
  <2>1. CASE ahead[c] = {} /\ Return(c) /\ UNCHANGED <<has, asked, why>>
    BY <1>4, <2>0, <2>1 DEF SendToServer
  <2>2. CASE Fail(c) /\ UNCHANGED <<has, asked>>
    <3>1. CASE call[c].op = "SUBSCRIBE"
      BY <1>4, <2>0, <2>2, <3>1 DEF SendToServer, Fail
    <3>2. CASE call[c].op # "SUBSCRIBE"
      <4>1. wrong' = [s \in Server |-> IF s \in ahead[c] THEN wrong[s] \cup {call[c].route}
                                     ELSE wrong[s]]
        BY <2>2, <3>2 DEF Fail
      <4>. QED
        BY <1>4, <2>0, <2>2, <4>1 DEF SendToServer
    <3>. QED
      BY <3>1, <3>2
  <2>3. ASSUME NEW s \in ahead[c] \cap up,
               has' = Told(s, call[c].route, call[c].op),
               wrong' = IF call[c].op = "SUBSCRIBE" THEN wrong
                          ELSE Judged(s, call[c].route, call[c].op),
               ahead' = [ahead EXCEPT ![c] = @ \ {s}],
               UNCHANGED call
        PROVE  NoneTooFew'
    <3>1. call[c].op \in {"ADD", "REMOVE", "SUBSCRIBE"} /\ call[c].route \in Route /\ s \in Server
      BY <1>4, <2>3 DEF SendToServer
    <3>2. \A x \in Server, r \in Route : x # s \/ r # call[c].route =>
             (Calling(x, r) => Calling(x, r)')
      BY <1>4, <2>3 DEF SendToServer, Calling
    <3>3. CASE call[c].op = "ADD"
      BY <1>4, <2>3, <3>1, <3>2, <3>3 DEF SendToServer, Told, Judged
    <3>4. CASE call[c].op = "REMOVE"
      BY <1>4, <2>3, <3>1, <3>2, <3>4 DEF SendToServer, Told, Judged
    <3>5. CASE call[c].op = "SUBSCRIBE"
      <4>1. has' = has /\ wrong' = wrong
        BY <2>3, <3>1, <3>5 DEF Told
      <4>. QED
        BY <1>4, <2>0, <3>5, <4>1 DEF SendToServer
    <3>. QED
      BY <3>1, <3>3, <3>4, <3>5
  <2>. QED
    BY <1>4, <2>1, <2>2, <2>3 DEF SendToServer
<1>5. ASSUME NEW s \in Server, Establish(s) PROVE NoneTooFew'
  BY <1>5 DEF Establish, Calling
<1>6. ASSUME NEW s \in Server, SyncSubscriptions(s) PROVE NoneTooFew'
  BY <1>6 DEF SyncSubscriptions, Calling
<1>7. ASSUME NEW s \in Server, SyncVNIs(s) PROVE NoneTooFew'
  BY <1>7 DEF SyncVNIs, Calling
<1>8. ASSUME NEW s \in Server, SyncNext(s) PROVE NoneTooFew'
  <2>1. \A x \in Server, r \in Route : Calling(x, r) => Calling(x, r)'
    BY <1>8 DEF SyncNext, Calling
  <2>2. CASE vnis[s] = {} /\ sync' = [sync EXCEPT ![s] = "none"] /\ UNCHANGED <<vnis, todo>>
    BY <1>8, <2>1, <2>2 DEF SyncNext
  <2>3. ASSUME NEW v \in vnis[s],
               todo' = [todo EXCEPT ![s] = {r \in mine : r.vni = v}],
               vnis' = [vnis EXCEPT ![s] = @ \ {v}], UNCHANGED sync
        PROVE  NoneTooFew'
    <3>1. \A r \in mine : r.vni \in vnis[s] => r \in todo'[s] \/ r.vni \in vnis'[s]
      BY <2>3
    <3>2. \A x \in Server \ {s} : todo'[x] = todo[x] /\ vnis'[x] = vnis[x]
      BY <2>3
    <3>3. UNCHANGED <<mine, up, has, wrong>> /\ sync[s] = "routes" /\ todo[s] = {}
      BY <1>8 DEF SyncNext
    <3>. QED
      BY <2>1, <2>3, <3>1, <3>2, <3>3
  <2>. QED
    BY <1>8, <2>2, <2>3 DEF SyncNext
<1>9. ASSUME NEW s \in Server, SyncSend(s) PROVE NoneTooFew'
  BY <1>9 DEF SyncSend, Told, Judged, Calling
<1>10. ASSUME NEW s \in Server, Lose(s) PROVE NoneTooFew'
  BY <1>10 DEF Lose, Calling
<1>11. CASE UNCHANGED vars
  BY <1>11 DEF vars, Calling
<1>. QED
  BY <1>1, <1>2, <1>3, <1>4, <1>5, <1>6, <1>7, <1>8, <1>9, <1>10, <1>11
  DEF Next, SyncStep

\* Every server that is connected has the routes the node announces and no others,
\* but for routes still to be sent and UPDATEs that came too late, whatever callers
\* and connections do meanwhile (metalbond.go 178-242, peer.go 168-186).
THEOREM ServersAreTold == Spec => []ServersAgree
<1>1. AgreeInv /\ [Next]_vars => AgreeInv'
  BY StepKeepsType, StepKeepsMany, StepKeepsFew DEF AgreeInv
<1>2. AgreeInv => ServersAgree
  BY DEF AgreeInv, NoneTooMany, NoneTooFew, ServersAgree, Calling, Pending
<1>3. Init => AgreeInv
  BY InitAgree
<1>. QED
  BY <1>1, <1>2, <1>3, PTL DEF Spec

-----------------------------------------------------------------------------
(* Subscriptions.                                                          *)

\* The sync asks for everything that is subscribed to, the caller for the rest.
LEMMA StepKeepsAsked == ClientTyped /\ AskedOK /\ [Next]_vars => AskedOK'
<1>. SUFFICES ASSUME ClientTyped, AskedOK, [Next]_vars PROVE AskedOK'
  OBVIOUS
<1>. USE RouteFacts, ClientAssumption DEF ClientTyped, TypeOK, CallOK, WhyTyped, why,
         AskedOK, Idle
<1>1. ASSUME NEW c \in Caller, NEW r \in Route, AnnounceRoute(c, r) PROVE AskedOK'
  BY <1>1 DEF AnnounceRoute, Begin
<1>2. ASSUME NEW c \in Caller, NEW r \in Route, WithdrawRoute(c, r) PROVE AskedOK'
  BY <1>2 DEF WithdrawRoute, Begin
<1>3. ASSUME NEW c \in Caller, NEW r \in Route, Subscribe(c, r) PROVE AskedOK'
  BY <1>3 DEF Subscribe, Begin
<1>4. ASSUME NEW c \in Caller, SendToServer(c) PROVE AskedOK'
  <2>1. CASE ahead[c] = {} /\ Return(c) /\ UNCHANGED <<has, asked, why>>
    BY <1>4, <2>1 DEF SendToServer, Return
  <2>2. CASE Fail(c) /\ UNCHANGED <<has, asked>>
    <3>1. CASE call[c].op = "SUBSCRIBE"
      <4>1. /\ UNCHANGED wrong
            /\ denied' = [s \in Server |-> IF s \in ahead[c] THEN denied[s] \cup {call[c].route.vni}
                                            ELSE denied[s]]
        BY <2>2, <3>1 DEF Fail
      <4>. QED
        BY <1>4, <2>2, <3>1, <4>1 DEF SendToServer, Fail, Return
    <3>2. CASE call[c].op # "SUBSCRIBE"
      <4>1. /\ UNCHANGED denied
            /\ wrong' = [s \in Server |-> IF s \in ahead[c] THEN wrong[s] \cup {call[c].route}
                                           ELSE wrong[s]]
        BY <2>2, <3>2 DEF Fail
      <4>. QED
        BY <1>4, <2>2, <3>2, <4>1 DEF SendToServer, Fail, Return
    <3>. QED
      BY <3>1, <3>2
  <2>3. ASSUME NEW s \in ahead[c] \cap up,
               has' = Told(s, call[c].route, call[c].op),
               asked' = IF call[c].op = "SUBSCRIBE"
                          THEN [asked EXCEPT ![s][call[c].route.vni] = @ + 1] ELSE asked,
               wrong' = IF call[c].op = "SUBSCRIBE" THEN wrong
                          ELSE Judged(s, call[c].route, call[c].op),
               ahead' = [ahead EXCEPT ![c] = @ \ {s}],
               UNCHANGED <<call, denied>>
        PROVE  AskedOK'
    <3>1. call[c].op \in {"ADD", "REMOVE", "SUBSCRIBE"} /\ call[c].route \in Route /\ s \in Server
      BY <1>4, <2>3 DEF SendToServer
    <3>2. CASE call[c].op = "ADD"
      BY <1>4, <2>3, <3>1, <3>2 DEF SendToServer, Told, Judged
    <3>3. CASE call[c].op = "REMOVE"
      BY <1>4, <2>3, <3>1, <3>3 DEF SendToServer, Told, Judged
    <3>4. CASE call[c].op = "SUBSCRIBE"
      <4>1. has' = has
        BY <2>3, <3>1, <3>4 DEF Told
      <4>. QED
        BY <1>4, <2>3, <3>1, <3>4, <4>1 DEF SendToServer
    <3>. QED
      BY <3>1, <3>2, <3>3, <3>4
  <2>. QED
    BY <1>4, <2>1, <2>2, <2>3 DEF SendToServer
<1>5. ASSUME NEW s \in Server, Establish(s) PROVE AskedOK'
  BY <1>5 DEF Establish
<1>6. ASSUME NEW s \in Server, SyncSubscriptions(s) PROVE AskedOK'
  BY <1>6 DEF SyncSubscriptions
<1>7. ASSUME NEW s \in Server, SyncVNIs(s) PROVE AskedOK'
  BY <1>7 DEF SyncVNIs
<1>8. ASSUME NEW s \in Server, SyncNext(s) PROVE AskedOK'
  <2>1. CASE vnis[s] = {} /\ sync' = [sync EXCEPT ![s] = "none"] /\ UNCHANGED <<vnis, todo>>
    BY <1>8, <2>1 DEF SyncNext
  <2>2. ASSUME NEW v \in vnis[s],
               todo' = [todo EXCEPT ![s] = {r \in mine : r.vni = v}],
               vnis' = [vnis EXCEPT ![s] = @ \ {v}], UNCHANGED sync
        PROVE  AskedOK'
    BY <1>8, <2>2 DEF SyncNext
  <2>. QED
    BY <1>8, <2>1, <2>2 DEF SyncNext
<1>9. ASSUME NEW s \in Server, SyncSend(s) PROVE AskedOK'
  BY <1>9 DEF SyncSend, Told, Judged
<1>10. ASSUME NEW s \in Server, Lose(s) PROVE AskedOK'
  BY <1>10 DEF Lose
<1>11. CASE UNCHANGED vars
  BY <1>11 DEF vars
<1>. QED
  BY <1>1, <1>2, <1>3, <1>4, <1>5, <1>6, <1>7, <1>8, <1>9, <1>10, <1>11
  DEF Next, SyncStep

\* No subscription is lost between Subscribe and the sync of a new connection, or
\* with the connection (metalbond.go 114-131, peer.go 152-167).
THEOREM SubscriptionsAreKept == Spec => []NoLostSubscription
<1>1. AskedInv /\ [Next]_vars => AskedInv'
  BY StepKeepsType, StepKeepsAsked DEF AskedInv
<1>2. AskedInv => NoLostSubscription
  BY DEF AskedInv, AskedOK, NoLostSubscription, Locked
<1>3. Init => AskedInv
  BY InitAgree
<1>. QED
  BY <1>1, <1>2, <1>3, PTL DEF Spec
==============================================================================
