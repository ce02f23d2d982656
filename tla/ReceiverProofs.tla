--------------------------- MODULE ReceiverProofs ---------------------------
(***************************************************************************)
(* What a client's records, its route table and the kernel have to do with *)
(* each other, proved for any servers, routes, VNIs and bounds.            *)
(***************************************************************************)
EXTENDS Receiver, TLAPS

HandlerPC == {"idle", "check", "store", "install", "delete", "uninstall", "sweep", "ended"}
CallerPC == {"idle", "recv", "table", "refill", "refillMine"}
ProcessPC == {"start", "run", "exit", "cleanup", "clean", "off", "exited"}

Update == [action : {"ADD", "REMOVE"}, route : Route]
Request == {"SUBSCRIBE", "UNSUBSCRIBE"} \X VNI
Link == [up : BOOLEAN, chan : Seq(Update), req : SUBSET Request, served : SUBSET VNI,
         told : SUBSET Route]
Handler == [pc : HandlerPC, route : Route, todo : SUBSET Route, clean : BOOLEAN]
Call == [pc : CallerPC, vni : VNI, server : Server, servers : SUBSET Server,
         todo : SUBSET Route]

\* Handlers, the caller and the connections work on routes, VNIs and servers.
Typed ==
    /\ routes \subseteq Route /\ mine \subseteq Route /\ subs \subseteq VNI
    /\ table \subseteq Route \X Server /\ ghosts \subseteq Route
    /\ recv \in [Server -> SUBSET Route] /\ link \in [Server -> Link]
    /\ h \in [Server -> Handler] /\ c \in Call /\ proc \in ProcessPC


LEMMA GotoTyped ==
    ASSUME Typed, NEW s \in Server, NEW pc \in HandlerPC, Goto(s, pc)
    PROVE  h' \in [Server -> Handler]
  BY DEF Typed, Goto, Handler

LEMMA FinishTyped ==
    ASSUME Typed, NEW s \in Server, Finish(s)
    PROVE  h' \in [Server -> Handler]
  BY GotoTyped DEF Finish, HandlerPC

LEMMA InitTyped == Init => Typed
<1>. SUFFICES ASSUME Init PROVE Typed
  OBVIOUS
<1>1. \A r \in Route : r.vni \in VNI
  BY ReceiverAssumption
<1>2. Idle \in Handler /\ NoCall \in Call
  BY <1>1, ReceiverAssumption DEF Idle, Handler, HandlerPC, NoCall, Call, CallerPC
<1>3. Connected(VNI) \in Link
  BY DEF Connected, Link, Request
<1>. QED
  BY <1>2, <1>3 DEF Init, Typed, ProcessPC

LEMMA StepTyped == Typed /\ [Next]_vars => Typed'
<1>. SUFFICES ASSUME Typed, [Next]_vars PROVE Typed'
  OBVIOUS
<1>a. Idle \in Handler /\ NoCall \in Call
  BY ReceiverAssumption DEF Idle, Handler, HandlerPC, NoCall, Call, CallerPC
<1>b. InTable \subseteq Route
  BY DEF Typed, InTable, Known
<1>d. Connected(subs) \in Link
  BY DEF Typed, Connected, Link, Request
<1>. USE DEF Typed
<1>1. ASSUME NewNetlinkClient PROVE Typed'
  BY <1>1 DEF NewNetlinkClient, DeleteListed, KernelFails, ProcessPC
<1>2. ASSUME NEW s \in Server, ServerUpdates(s) PROVE Typed'
  <2>1. UNCHANGED <<routes, mine, subs, table, ghosts, recv, h, c, proc>>
    BY <1>2 DEF ServerUpdates, World, client
  <2>2. \A r \in Offer[s] : link[s].told \union {r} \in SUBSET Route
                             /\ link[s].told \ {r} \in SUBSET Route
    BY ReceiverAssumption DEF Link
  <2>3. link' \in [Server -> Link]
    <3>1. PICK r \in Offer[s], a \in {"ADD", "REMOVE"}, t \in SUBSET Route :
            /\ link' = [link EXCEPT ![s] =
                          [@ EXCEPT !.chan = Append(link[s].chan, [action |-> a, route |-> r]),
                                    !.told = t]]
      BY <1>2, <2>2 DEF ServerUpdates, World
    <3>2. r \in Route /\ [action |-> a, route |-> r] \in Update
      BY ReceiverAssumption DEF Update
    <3>3. /\ t \in SUBSET Route
          /\ Append(link[s].chan, [action |-> a, route |-> r]) \in Seq(Update)
      BY <3>1, <3>2 DEF Link
    <3>. QED
      BY <3>1, <3>3 DEF Link
  <2>. QED
    BY <2>1, <2>3
<1>3. ASSUME NEW s \in Server, ServerHandles(s) PROVE Typed'
  <2>1. UNCHANGED <<routes, mine, subs, table, ghosts, recv, h, c, proc>>
    BY <1>3 DEF ServerHandles, World, client
  <2>2. link' \in [Server -> Link]
    <3>. DEFINE V(q) == IF q[1] = "SUBSCRIBE" THEN link[s].served \union {q[2]}
                        ELSE link[s].served \ {q[2]}
                R(q) == IF q[1] = "SUBSCRIBE" THEN link[s].told
                        ELSE link[s].told \ OfVNI(link[s].told, q[2])
                Q(q) == link[s].req \ {q}
    <3>1. PICK q \in link[s].req : link' =
            [link EXCEPT ![s] = [@ EXCEPT !.req = Q(q), !.served = V(q), !.told = R(q)]]
      BY <1>3 DEF ServerHandles, World
    <3>2. q[2] \in VNI
      BY DEF Link, Request
    <3>3. Q(q) \subseteq Request /\ V(q) \subseteq VNI /\ R(q) \subseteq Route
      BY <3>2 DEF Link
    <3>. HIDE DEF Q, V, R
    <3>. QED
      BY <3>1, <3>3 DEF Link
  <2>. QED
    BY <2>1, <2>2
<1>4. ASSUME NEW s \in Server, Lose(s) PROVE Typed'
  BY <1>4 DEF Lose, World, client, Link
<1>5. ASSUME NEW s \in Server, Reconnect(s) PROVE Typed'
  BY <1>5, <1>a, <1>d DEF Reconnect, World, client
<1>6. ASSUME NEW s \in Server, TakeUpdate(s) PROVE Typed'
  <2>1. UNCHANGED <<routes, mine, subs, table, ghosts, c, proc>>
    BY <1>6 DEF TakeUpdate, At, client
  <2>2. recv' \in [Server -> SUBSET Route]
    <3>1. link[s].chan \in Seq(Update) /\ link[s].chan # <<>>
      BY <1>6 DEF TakeUpdate, Link
    <3>h. Head(link[s].chan) \in Update
      BY <3>1
    <3>2. Head(link[s].chan).route \in Route
      BY <3>h DEF Update
    <3>3. \E S \in SUBSET Route : recv' = [recv EXCEPT ![s] = S]
      BY <1>6, <3>2 DEF TakeUpdate
    <3>. QED
      BY <3>3
  <2>3. h' \in [Server -> Handler]
    <3>1. link[s].chan \in Seq(Update) /\ link[s].chan # <<>>
      BY <1>6 DEF TakeUpdate, Link
    <3>h. Head(link[s].chan) \in Update
      BY <3>1
    <3>2. Head(link[s].chan).route \in Route
      BY <3>h DEF Update
    <3>3. PICK pc \in {"idle", "check", "delete"} :
             h' = [h EXCEPT ![s].route = Head(link[s].chan).route, ![s].pc = pc]
      BY <1>6 DEF TakeUpdate
    <3>. QED
      BY <3>2, <3>3 DEF Handler, HandlerPC
  <2>4. link' \in [Server -> Link]
    <3>1. link[s].chan \in Seq(Update) /\ link[s].chan # <<>>
      BY <1>6 DEF TakeUpdate, Link
    <3>2. Tail(link[s].chan) \in Seq(Update)
      BY <3>1
    <3>. QED
      BY <1>6, <3>2 DEF TakeUpdate, Link
  <2>. QED
    BY <2>1, <2>2, <2>3, <2>4
<1>7. ASSUME NEW s \in Server, Check(s) PROVE Typed'
  <2>1. UNCHANGED <<routes, mine, subs, table, ghosts, recv, link, c, proc>>
    BY <1>7 DEF Check, At, Goto, Finish, Rest, client
  <2>2. h' \in [Server -> Handler]
    BY <1>7, FinishTyped, GotoTyped DEF Check, HandlerPC
  <2>. QED
    BY <2>1, <2>2
<1>8. ASSUME NEW s \in Server, Store(s) PROVE Typed'
  <2>1. UNCHANGED <<routes, mine, subs, recv, link, c, proc>>
    BY <1>8 DEF Store, At, Goto, Finish, Rest, client
  <2>2. table' \subseteq Route \X Server /\ ghosts' \subseteq Route
    BY <1>8 DEF Store, Handler
  <2>3. h' \in [Server -> Handler]
    BY <1>8, FinishTyped, GotoTyped DEF Store, HandlerPC
  <2>. QED
    BY <2>1, <2>2, <2>3
<1>9. ASSUME NEW s \in Server, Install(s) PROVE Typed'
  <2>1. UNCHANGED <<mine, subs, table, ghosts, recv, link, c, proc>>
    BY <1>9 DEF Install, At, Goto, Finish, Rest
  <2>2. routes' \subseteq Route
    BY <1>9 DEF Install, AddRoute, KernelFails, Handler
  <2>3. h' \in [Server -> Handler]
    BY <1>9, FinishTyped DEF Install
  <2>. QED
    BY <2>1, <2>2, <2>3
<1>10. ASSUME NEW s \in Server, Delete(s) PROVE Typed'
  <2>1. UNCHANGED <<routes, mine, subs, ghosts, recv, link, c, proc>>
    BY <1>10 DEF Delete, At, Goto, Finish, Rest, client
  <2>2. table' \subseteq Route \X Server
    BY <1>10 DEF Delete
  <2>3. h' \in [Server -> Handler]
    BY <1>10, FinishTyped, GotoTyped DEF Delete, HandlerPC
  <2>. QED
    BY <2>1, <2>2, <2>3
<1>11. ASSUME NEW s \in Server, Uninstall(s) PROVE Typed'
  <2>1. UNCHANGED <<mine, subs, table, ghosts, recv, link, c, proc>>
    BY <1>11 DEF Uninstall, At, Goto, Finish, Rest
  <2>2. routes' \subseteq Route
    BY <1>11 DEF Uninstall, RemoveRoute, KernelFails
  <2>3. h' \in [Server -> Handler]
    BY <1>11, FinishTyped DEF Uninstall
  <2>. QED
    BY <2>1, <2>2, <2>3
<1>12. ASSUME NEW s \in Server, TakeShutdown(s) PROVE Typed'
  <2>1. UNCHANGED <<routes, mine, subs, table, ghosts, recv, link, c, proc>>
    BY <1>12 DEF TakeShutdown, At, Rest, client
  <2>2. h' \in [Server -> Handler]
    <3>1. h[s] \in Handler /\ recv[s] \in SUBSET Route
      OBVIOUS
    <3>2. [h[s] EXCEPT !.pc = "sweep", !.todo = recv[s], !.clean = TRUE] \in Handler
      BY <3>1 DEF Handler, HandlerPC
    <3>3. h' = [h EXCEPT ![s] = [h[s] EXCEPT !.pc = "sweep", !.todo = recv[s], !.clean = TRUE]]
      BY <1>12 DEF TakeShutdown
    <3>. QED
      BY <3>2, <3>3
  <2>. QED
    BY <2>1, <2>2
<1>13. ASSUME NEW s \in Server, Sweep(s) PROVE Typed'
  <2>1. UNCHANGED <<routes, mine, subs, table, ghosts, link, c, proc>>
    BY <1>13 DEF Sweep, At, Goto, Rest, client
  <2>2. recv' \in [Server -> SUBSET Route]
    <3>1. recv' = recv \/ \E r \in Route : recv' = [recv EXCEPT ![s] = @ \ {r}]
      BY <1>13 DEF Sweep, Handler
    <3>. QED
      BY <3>1
  <2>3. h' \in [Server -> Handler]
    <3>1. \/ Goto(s, "ended")
          \/ \E r \in h[s].todo :
               h' = [h EXCEPT ![s].pc = "delete", ![s].route = r, ![s].todo = @ \ {r}]
      BY <1>13 DEF Sweep
    <3>2. ASSUME NEW r \in h[s].todo,
                 h' = [h EXCEPT ![s].pc = "delete", ![s].route = r, ![s].todo = @ \ {r}]
          PROVE  h' \in [Server -> Handler]
      BY <3>2 DEF Handler, HandlerPC
    <3>. QED
      BY <3>1, <3>2, GotoTyped DEF HandlerPC
  <2>. QED
    BY <2>1, <2>2, <2>3
<1>14. ASSUME NEW v \in VNI, Subscribe(v) PROVE Typed'
  <2>1. UNCHANGED <<routes, mine, table, ghosts, recv, h, c, proc>>
    BY <1>14 DEF Subscribe, client
  <2>2. subs' \subseteq VNI
    BY <1>14 DEF Subscribe
  <2>3. link' \in [Server -> Link]
    <3>1. <<"SUBSCRIBE", v>> \in Request
      BY DEF Request
    <3>2. \A s \in Server : [link[s] EXCEPT !.req = @ \union {<<"SUBSCRIBE", v>>}] \in Link
      BY <3>1 DEF Link
    <3>. QED
      BY <1>14, <3>2 DEF Subscribe
  <2>. QED
    BY <2>1, <2>2, <2>3
<1>15. ASSUME NEW v \in VNI, Unsubscribe(v) PROVE Typed'
  <2>1. UNCHANGED <<routes, mine, subs, table, ghosts, recv, link, h, proc>>
    BY <1>15 DEF Unsubscribe, Caller, client
  <2>2. c' \in Call
    BY <1>15 DEF Unsubscribe, Caller, Call, CallerPC, OfVNI
  <2>. QED
    BY <2>1, <2>2
<1>16. ASSUME NEW v \in VNI, AddRoutesForVni(v) PROVE Typed'
  <2>1. UNCHANGED <<routes, mine, subs, table, ghosts, recv, link, h, proc>>
    BY <1>16 DEF AddRoutesForVni, Caller, client
  <2>2. c' \in Call
    <3>1. c' = [NoCall EXCEPT !.pc = "refill", !.vni = v, !.todo = OfVNI(InTable, v)]
      BY <1>16 DEF AddRoutesForVni, Caller
    <3>2. OfVNI(InTable, v) \subseteq Route
      BY <1>b DEF OfVNI
    <3>. QED
      BY <1>a, <3>1, <3>2 DEF Call, CallerPC
  <2>. QED
    BY <2>1, <2>2
<1>17. ASSUME NEW r \in Mine, AnnounceRoute(r) PROVE Typed'
  BY <1>17, ReceiverAssumption DEF AnnounceRoute, client
<1>18. ASSUME NEW r \in Mine, WithdrawRoute(r) PROVE Typed'
  BY <1>18 DEF WithdrawRoute, client
<1>19. ASSUME UnsubscribePeer PROVE Typed'
  <2>1. UNCHANGED <<routes, mine, subs, table, ghosts, h, proc>>
    BY <1>19 DEF UnsubscribePeer, Caller, client
  <2>2. link' \in [Server -> Link]
    <3>1. /\ c.server \in Server /\ link[c.server].req \subseteq Request
          /\ <<"UNSUBSCRIBE", c.vni>> \in Request
      BY DEF Call, Request, Link
    <3>2. link' = link \/ \E Q \in SUBSET Request : link' = [link EXCEPT ![c.server].req = Q]
      BY <1>19, <3>1 DEF UnsubscribePeer
    <3>. QED
      BY <3>1, <3>2 DEF Link
  <2>3. recv' \in [Server -> SUBSET Route]
    BY <1>19 DEF UnsubscribePeer
  <2>4. c' \in Call
    <3>1. OfVNI(InTable, c.vni) \subseteq Route
      BY <1>b DEF OfVNI
    <3>2. \/ \E r \in c.todo : c' = [c EXCEPT !.todo = @ \ {r}]
          \/ c' = [c EXCEPT !.pc = "table", !.todo = OfVNI(InTable, c.vni)]
      BY <1>19 DEF UnsubscribePeer, Caller
    <3>3. ASSUME NEW r \in c.todo, c' = [c EXCEPT !.todo = @ \ {r}] PROVE c' \in Call
      BY <3>3 DEF Call
    <3>4. CASE c' = [c EXCEPT !.pc = "table", !.todo = OfVNI(InTable, c.vni)]
      BY <3>1, <3>4 DEF Call, CallerPC
    <3>. QED
      BY <3>2, <3>3, <3>4
  <2>. QED
    BY <2>1, <2>2, <2>3, <2>4
<1>20. ASSUME UnsubscribeTable PROVE Typed'
  <2>1. UNCHANGED <<routes, mine, subs, recv, link, h, proc>>
    BY <1>20 DEF UnsubscribeTable, Caller, client
  <2>2. table' \subseteq Route \X Server /\ ghosts' \subseteq Route
    BY <1>20 DEF UnsubscribeTable, Call
  <2>3. c' \in Call
    <3>1. \/ \E r \in c.todo : c' = [c EXCEPT !.todo = @ \ {r}]
          \/ \E s \in c.servers : c' = [c EXCEPT !.pc = "recv", !.server = s,
                !.servers = c.servers \ {s}, !.todo = OfVNI(recv[s], c.vni)]
      BY <1>20 DEF UnsubscribeTable, Caller
    <3>2. ASSUME NEW r \in c.todo, c' = [c EXCEPT !.todo = @ \ {r}] PROVE c' \in Call
      BY <3>2 DEF Call
    <3>3. ASSUME NEW s \in c.servers,
                 c' = [c EXCEPT !.pc = "recv", !.server = s, !.servers = c.servers \ {s},
                                !.todo = OfVNI(recv[s], c.vni)]
          PROVE  c' \in Call
      <4>1. s \in Server /\ OfVNI(recv[s], c.vni) \subseteq Route
        BY DEF Call, OfVNI
      <4>. QED
        BY <3>3, <4>1 DEF Call, CallerPC
    <3>. QED
      BY <3>1, <3>2, <3>3
  <2>. QED
    BY <2>1, <2>2, <2>3
<1>21. ASSUME UnsubscribeReturns PROVE Typed'
  BY <1>21, <1>a DEF UnsubscribeReturns, client
<1>22. ASSUME Refill PROVE Typed'
  <2>1. UNCHANGED <<mine, subs, table, ghosts, recv, link, h, proc>>
    BY <1>22 DEF Refill, Caller, client
  <2>2. routes' \subseteq Route
    BY <1>22 DEF Refill, AddRoute, KernelFails, client, Call
  <2>3. c' \in Call
    <3>1. OfVNI(mine, c.vni) \subseteq Route
      BY DEF OfVNI
    <3>2. \/ c' = NoCall \/ \E r \in c.todo : c' = [c EXCEPT !.todo = @ \ {r}]
          \/ c' = [c EXCEPT !.pc = "refillMine", !.todo = OfVNI(mine, c.vni)]
      BY <1>22 DEF Refill, Caller
    <3>3. CASE c' = NoCall
      BY <1>a, <3>3
    <3>4. ASSUME NEW r \in c.todo, c' = [c EXCEPT !.todo = @ \ {r}] PROVE c' \in Call
      BY <3>4 DEF Call
    <3>5. CASE c' = [c EXCEPT !.pc = "refillMine", !.todo = OfVNI(mine, c.vni)]
      BY <3>1, <3>5 DEF Call, CallerPC
    <3>. QED
      BY <3>2, <3>3, <3>4, <3>5
  <2>. QED
    BY <2>1, <2>2, <2>3
<1>23. ASSUME Shutdown PROVE Typed'
  BY <1>23 DEF Shutdown, Process, Others, client, ProcessPC, Link
<1>24. ASSUME CleanupLists PROVE Typed'
  BY <1>24 DEF CleanupLists, Others
<1>25. ASSUME CleanupDeletes PROVE Typed'
  BY <1>25 DEF CleanupDeletes, Others, DeleteListed, KernelFails
<1>25r. ASSUME CleanupReturns PROVE Typed'
  BY <1>25r DEF CleanupReturns, Process, Others, client, ProcessPC
<1>26. ASSUME Exit PROVE Typed'
  BY <1>26 DEF Exit, Process, Others, client, ProcessPC
<1>27. ASSUME UNCHANGED vars PROVE Typed'
  BY <1>27 DEF vars, client
<1>. QED
  BY <1>1, <1>2, <1>3, <1>4, <1>5, <1>6, <1>7, <1>8, <1>9, <1>10, <1>11, <1>12, <1>13,
     <1>14, <1>15, <1>16, <1>17, <1>18, <1>19, <1>20, <1>21, <1>22, <1>23, <1>24,
     <1>25, <1>25r, <1>26, <1>27
  DEF Next, HandlerStep, CallerStep

-----------------------------------------------------------------------------
(* The kernel and c.routes.                                                *)

Entry(r, k) == [table |-> VNITableMap[r.vni], dest |-> r.dest, hop |-> k]

\* Whatever the kernel has is among the first hops of a destination of c.routes.
\* This outlives the Cleanup, which only takes from the kernel.
NothingElse ==
    \A e \in kernel : \E r \in routes : \E k \in Kept(Siblings(routes, r)) :
        e = Entry(r, k)

\* And the kernel has all of them.
AllInstalled ==
    \A r \in routes : \A k \in Kept(Siblings(routes, r)) :
        Entry(r, k) \in kernel

\* Before the start, only an earlier process has written to the kernel.
KernelOK ==
    /\ \A r \in routes : Installable(r)
    /\ proc = "start" => /\ routes = {}
                         /\ \A e \in kernel : \E v \in DOMAIN VNITableMap : VNITableMap[v] = e.table
    /\ proc \notin {"start", "off"} => NothingElse
    /\ proc = "run" => AllInstalled

LEMMA KeptIsHop ==
    ASSUME NEW S, NEW k \in Kept(S)
    PROVE  \E s \in S : s.hop = k
  BY DEF Kept

\* One route more or less is of no concern to other destinations.
LEMMA SiblingsStep ==
    ASSUME NEW r, NEW s, routes' \union {r} = routes \union {r}
    PROVE  IF s.vni = r.vni /\ s.dest = r.dest
             THEN Siblings(routes', s) = Siblings(routes', r)
             ELSE /\ Siblings(routes', s) = Siblings(routes, s)
                  /\ s \in routes' <=> s \in routes
<1>1. CASE s.vni = r.vni /\ s.dest = r.dest
  BY <1>1 DEF Siblings
<1>2. CASE ~(s.vni = r.vni /\ s.dest = r.dest)
  <2>1. \A x : x.vni = s.vni /\ x.dest = s.dest => (x \in routes' <=> x \in routes)
    BY <1>2
  <2>. QED
    BY <1>2, <2>1 DEF Siblings
<1>. QED
  BY <1>1, <1>2

\* What AddRoute and RemoveRoute have in common: they write the route of one table
\* and destination anew, from the hops that c.routes has now.
LEMMA WriteKeepsKernel ==
    ASSUME \A s \in routes : Installable(s), NEW r, Installable(r),
           routes' \union {r} = routes \union {r},
           kernel' = Replaced(r, Siblings(routes', r))
    PROVE  (NothingElse => NothingElse') /\ (AllInstalled => AllInstalled')
<1>a. /\ \A v, w \in DOMAIN VNITableMap : VNITableMap[v] = VNITableMap[w] => v = w
      /\ r.vni \in DOMAIN VNITableMap /\ \A s \in routes : s.vni \in DOMAIN VNITableMap
  BY NetlinkAssumption DEF Installable
<1>. DEFINE same(s) == s.vni = r.vni /\ s.dest = r.dest
            other(e) == ~(e.table = VNITableMap[r.vni] /\ e.dest = r.dest)
<1>b. \A e : e \in kernel' <=> \/ e \in kernel /\ other(e)
                               \/ \E k \in Kept(Siblings(routes', r)) : e = Entry(r, k)
  BY DEF Replaced, Key, Entry
<1>c. \A s \in routes : \A k : same(s) <=> ~other(Entry(s, k))
  BY <1>a DEF Entry
<1>d. \A s : \/ same(s) /\ Siblings(routes', s) = Siblings(routes', r)
                        /\ \A k : Entry(s, k) = Entry(r, k)
             \/ /\ ~same(s) /\ Siblings(routes', s) = Siblings(routes, s)
                /\ s \in routes' <=> s \in routes
  BY SiblingsStep DEF Entry
<1>. HIDE DEF same, other
<1>1. ASSUME NothingElse PROVE NothingElse'
  <2>. SUFFICES ASSUME NEW e \in kernel'
                PROVE  \E s \in routes' : \E k \in Kept(Siblings(routes', s)) : e = Entry(s, k)
    BY DEF NothingElse, Entry
  <2>1. CASE e \in kernel /\ other(e)
    <3>1. PICK s \in routes : \E k \in Kept(Siblings(routes, s)) : e = Entry(s, k)
      BY <1>1, <2>1 DEF NothingElse
    <3>. QED
      BY <1>c, <1>d, <2>1, <3>1
  <2>2. ASSUME NEW k \in Kept(Siblings(routes', r)), e = Entry(r, k)
        PROVE  \E s \in routes' : \E j \in Kept(Siblings(routes', s)) : e = Entry(s, j)
    <3>1. PICK s \in Siblings(routes', r) : s.hop = k
      BY KeptIsHop
    <3>2. s \in routes' /\ same(s)
      BY DEF Siblings, same
    <3>. QED
      BY <1>d, <2>2, <3>2
  <2>. QED
    BY <1>b, <2>1, <2>2
<1>2. ASSUME AllInstalled PROVE AllInstalled'
  <2>. SUFFICES ASSUME NEW s \in routes', NEW k \in Kept(Siblings(routes', s))
                PROVE  Entry(s, k) \in kernel'
    BY DEF AllInstalled, Entry
  <2>. QED
    BY <1>b, <1>c, <1>d, <1>2 DEF AllInstalled
<1>. QED
  BY <1>1, <1>2

LEMMA AddKeepsKernel ==
    ASSUME KernelOK, UNCHANGED proc, proc # "start", NEW r, AddRoute(r)
    PROVE  KernelOK'
<1>1. CASE UNCHANGED <<routes, kernel>>
  BY <1>1 DEF KernelOK, Alive, NothingElse, AllInstalled
<1>2. CASE ~UNCHANGED <<routes, kernel>>
  <2>1. /\ Installable(r) /\ routes' = routes \union {r}
        /\ kernel' = Replaced(r, Siblings(routes', r))
    BY <1>2 DEF AddRoute
  <2>2. (NothingElse => NothingElse') /\ (AllInstalled => AllInstalled')
    BY <2>1, WriteKeepsKernel DEF KernelOK
  <2>. QED
    BY <2>1, <2>2 DEF KernelOK, Alive, Installable
<1>. QED
  BY <1>1, <1>2

LEMMA RemoveKeepsKernel ==
    ASSUME KernelOK, UNCHANGED proc, proc # "start", NEW r, RemoveRoute(r)
    PROVE  KernelOK'
<1>1. CASE UNCHANGED <<routes, kernel>>
  BY <1>1 DEF KernelOK, Alive, NothingElse, AllInstalled
<1>2. CASE ~UNCHANGED <<routes, kernel>>
  <2>1. /\ Installable(r) /\ r \in routes /\ routes' = routes \ {r}
        /\ kernel' = Replaced(r, Siblings(routes', r))
    BY <1>2 DEF RemoveRoute
  <2>2. routes' \union {r} = routes \union {r}
    BY <2>1
  <2>3. (NothingElse => NothingElse') /\ (AllInstalled => AllInstalled')
    BY <2>1, <2>2, WriteKeepsKernel DEF KernelOK
  <2>. QED
    BY <2>1, <2>3 DEF KernelOK, Alive, Installable
<1>. QED
  BY <1>1, <1>2

LEMMA StepKeepsKernel == KernelOK /\ [Next]_vars => KernelOK'
<1>. SUFFICES ASSUME KernelOK, [Next]_vars PROVE KernelOK'
  OBVIOUS
<1>a. UNCHANGED <<routes, kernel, proc>> => KernelOK'
  BY DEF KernelOK, Alive, NothingElse, AllInstalled
<1>1. ASSUME NewNetlinkClient PROVE KernelOK'
  <2>1. CASE KernelFails /\ proc' = "off"
    BY <1>1, <2>1 DEF NewNetlinkClient, KernelFails, KernelOK, Alive
  <2>2. CASE DeleteListed(Listed) /\ proc' = "run"
    <3>1. routes' = {} /\ kernel' = {}
      BY <1>1, <2>2 DEF NewNetlinkClient, DeleteListed, Listed, KernelOK
    <3>. QED
      BY <2>2, <3>1 DEF KernelOK, NothingElse, AllInstalled
  <2>. QED
    BY <1>1, <2>1, <2>2 DEF NewNetlinkClient
<1>2. ASSUME NEW s \in Server, ServerUpdates(s) PROVE KernelOK'
  BY <1>2, <1>a DEF ServerUpdates, World, client
<1>3. ASSUME NEW s \in Server, ServerHandles(s) PROVE KernelOK'
  BY <1>3, <1>a DEF ServerHandles, World, client
<1>4. ASSUME NEW s \in Server, Lose(s) PROVE KernelOK'
  BY <1>4, <1>a DEF Lose, World, client
<1>5. ASSUME NEW s \in Server, Reconnect(s) PROVE KernelOK'
  BY <1>5, <1>a DEF Reconnect, World, client, Idle
<1>6. ASSUME NEW s \in Server, TakeUpdate(s) PROVE KernelOK'
  BY <1>6, <1>a DEF TakeUpdate, At, client
<1>7. ASSUME NEW s \in Server, Check(s) PROVE KernelOK'
  BY <1>7, <1>a DEF Check, At, Goto, Finish, Rest, client
<1>8. ASSUME NEW s \in Server, Store(s) PROVE KernelOK'
  BY <1>8, <1>a DEF Store, At, Goto, Finish, Rest, client
<1>9. ASSUME NEW s \in Server, Install(s) PROVE KernelOK'
  <2>1. /\ UNCHANGED proc /\ proc # "start"
        /\ AddRoute(h[s].route) \/ UNCHANGED <<routes, kernel>>
    BY <1>9 DEF Install, At, Alive, Rest, KernelFails
  <2>. QED
    BY <1>a, <2>1, AddKeepsKernel
<1>10. ASSUME NEW s \in Server, Delete(s) PROVE KernelOK'
  BY <1>10, <1>a DEF Delete, At, Goto, Finish, Rest, client
<1>11. ASSUME NEW s \in Server, Uninstall(s) PROVE KernelOK'
  <2>1. /\ UNCHANGED proc /\ proc # "start"
        /\ RemoveRoute(h[s].route) \/ UNCHANGED <<routes, kernel>>
    BY <1>11 DEF Uninstall, At, Alive, Rest, KernelFails
  <2>. QED
    BY <1>a, <2>1, RemoveKeepsKernel
<1>12. ASSUME NEW s \in Server, TakeShutdown(s) PROVE KernelOK'
  BY <1>12, <1>a DEF TakeShutdown, At, Rest, client
<1>13. ASSUME NEW s \in Server, Sweep(s) PROVE KernelOK'
  BY <1>13, <1>a DEF Sweep, At, Goto, Rest, client
<1>14. ASSUME NEW v \in VNI, Subscribe(v) PROVE KernelOK'
  BY <1>14, <1>a DEF Subscribe, client
<1>15. ASSUME NEW v \in VNI, Unsubscribe(v) PROVE KernelOK'
  BY <1>15, <1>a DEF Unsubscribe, Caller, client
<1>16. ASSUME NEW v \in VNI, AddRoutesForVni(v) PROVE KernelOK'
  BY <1>16, <1>a DEF AddRoutesForVni, Caller, client
<1>17. ASSUME NEW r \in Mine, AnnounceRoute(r) PROVE KernelOK'
  BY <1>17, <1>a DEF AnnounceRoute, client
<1>18. ASSUME NEW r \in Mine, WithdrawRoute(r) PROVE KernelOK'
  BY <1>18, <1>a DEF WithdrawRoute, client
<1>19. ASSUME UnsubscribePeer PROVE KernelOK'
  BY <1>19, <1>a DEF UnsubscribePeer, Caller, client
<1>20. ASSUME UnsubscribeTable PROVE KernelOK'
  BY <1>20, <1>a DEF UnsubscribeTable, Caller, client
<1>21. ASSUME UnsubscribeReturns PROVE KernelOK'
  BY <1>21, <1>a DEF UnsubscribeReturns, client
<1>22. ASSUME Refill PROVE KernelOK'
  <2>1. /\ UNCHANGED proc /\ proc # "start"
        /\ (\E r \in c.todo : AddRoute(r)) \/ UNCHANGED <<routes, kernel>>
    BY <1>22 DEF Refill, Caller, Alive, KernelFails, client
  <2>. QED
    BY <1>a, <2>1, AddKeepsKernel
<1>23. ASSUME Shutdown PROVE KernelOK'
  <2>1. UNCHANGED <<routes, kernel>> /\ proc = "run" /\ proc' \notin {"start", "run"}
    BY <1>23 DEF Shutdown, Process, client
  <2>. QED
    BY <2>1 DEF KernelOK, NothingElse
<1>24. ASSUME CleanupLists PROVE KernelOK'
  BY <1>24, <1>a DEF CleanupLists, Others
<1>25. ASSUME CleanupDeletes PROVE KernelOK'
  <2>1. routes' = routes /\ kernel' \subseteq kernel /\ proc = "cleanup" /\ proc' = "cleanup"
    BY <1>25 DEF CleanupDeletes, DeleteListed, KernelFails
  <2>. QED
    BY <2>1 DEF KernelOK, NothingElse
<1>25r. ASSUME CleanupReturns PROVE KernelOK'
  <2>1. UNCHANGED <<routes, kernel>> /\ proc = "cleanup" /\ proc' = "clean"
    BY <1>25r DEF CleanupReturns, Process, client
  <2>. QED
    BY <2>1 DEF KernelOK, NothingElse
<1>26. ASSUME Exit PROVE KernelOK'
  <2>1. /\ UNCHANGED <<routes, kernel>> /\ proc \in {"exit", "clean"}
        /\ proc' \in {"off", "exited"}
    BY <1>26 DEF Exit, Process, client
  <2>. QED
    BY <2>1 DEF KernelOK, NothingElse
<1>27. ASSUME UNCHANGED vars PROVE KernelOK'
  BY <1>27, <1>a DEF vars, client
<1>. QED
  BY <1>1, <1>2, <1>3, <1>4, <1>5, <1>6, <1>7, <1>8, <1>9, <1>10, <1>11, <1>12, <1>13,
     <1>14, <1>15, <1>16, <1>17, <1>18, <1>19, <1>20, <1>21, <1>22, <1>23, <1>24,
     <1>25, <1>25r, <1>26, <1>27
  DEF Next, HandlerStep, CallerStep

LEMMA InitKernel == Init => KernelOK
  BY DEF Init, KernelOK, Alive, Installable, Key

LEMMA KernelInvariant == Spec => []KernelOK
  BY InitKernel, StepKeepsKernel, PTL DEF Spec

\* The kernel has exactly the first hops of what c.routes has for each destination,
\* whichever handlers and callers added and removed routes and whichever calls
\* failed (netlink.go 58-143): the two are written in one step under c.mtx, and no
\* two VNIs share a table.
THEOREM KernelIsFollowing == Spec => []KernelFollowsRoutes
<1>1. KernelOK => KernelFollowsRoutes
  <2>. SUFFICES ASSUME NothingElse, AllInstalled
                PROVE  kernel = UNION {{[table |-> Key(r).table, dest |-> r.dest, hop |-> k] :
                                   k \in Kept(Siblings(routes, r))} : r \in routes}
    BY DEF KernelOK, KernelFollowsRoutes, Alive
  <2>1. \A r, k : [table |-> Key(r).table, dest |-> r.dest, hop |-> k] = Entry(r, k)
    BY DEF Key, Entry
  <2>. QED
    BY <2>1 DEF NothingElse, AllInstalled
<1>. QED
  BY <1>1, KernelInvariant, PTL

-----------------------------------------------------------------------------
(* Records and table.                                                      *)

\* Unsubscribe will look at r of s.
Pending(r, s) ==
    /\ c.server = s /\ r.vni = c.vni
    /\ c.pc = "recv" \/ (c.pc = "table" /\ r \in c.todo)

\* A received route is in the table, on its way there, or it is known why not.
Stored(r, s) ==
    r \in recv[s] => \/ <<r, s>> \in table \union skipped \union crossed
                     \/ h[s].pc \in {"check", "store"} /\ h[s].route = r

\* A route of the table was received, is on its way out, or it is known why not.
Backed(r, s) ==
    <<r, s>> \in table => \/ r \in recv[s] \/ <<r, s>> \in crossed
                          \/ h[s].pc = "delete" /\ h[s].route = r
                          \/ Pending(r, s)

RecordsOK ==
    /\ \A s \in Server : h[s].pc = "delete" => h[s].route \notin recv[s]
    /\ c.pc = "recv" => \A r \in c.todo : r.vni = c.vni
    /\ \A s \in Server : \A r \in Route : Stored(r, s) /\ Backed(r, s)

\* The cleanup of a handler has still to do whatever it has not done.
CleanupOK ==
    /\ \A s \in Server :
          /\ h[s].pc \in {"sweep", "ended"} => h[s].clean
          /\ h[s].pc = "idle" => ~h[s].clean
          /\ h[s].clean => recv[s] \subseteq h[s].todo
          /\ h[s].pc = "ended" => h[s].todo = {} \/ s \in abandoned
    /\ proc # "run" => c.pc = "idle"

LEMMA StepKeepsRecords == Typed /\ RecordsOK /\ [Next]_vars => RecordsOK'
<1>. SUFFICES ASSUME Typed, RecordsOK, [Next]_vars PROVE RecordsOK'
  OBVIOUS
<1>t. /\ recv \in [Server -> SUBSET Route] /\ h \in [Server -> Handler] /\ c \in Call
      /\ table \subseteq Route \X Server
  BY DEF Typed
<1>s. UNCHANGED <<recv, table, skipped, crossed, h, c>> => RecordsOK'
  BY DEF RecordsOK, Stored, Backed, Pending
<1>m. ASSUME NEW s \in Server, NEW pc \in {"install", "uninstall", "sweep", "ended", "idle"},
             h' = [h EXCEPT ![s].pc = pc],
             h[s].pc \notin {"check", "store", "delete"},
             UNCHANGED <<recv, table, skipped, crossed, c>>
      PROVE  RecordsOK'
  <2>1. (\A x \in Server : x # s => h'[x] = h[x]) /\ h'[s].pc = pc
    BY <1>t, <1>m DEF Handler
  <2>. QED
    BY <1>m, <2>1 DEF RecordsOK, Stored, Backed, Pending
<1>1. ASSUME NewNetlinkClient PROVE RecordsOK'
  BY <1>1, <1>s DEF NewNetlinkClient, why
<1>2. ASSUME NEW s \in Server, ServerUpdates(s) PROVE RecordsOK'
  BY <1>2, <1>s DEF ServerUpdates, World, client, why
<1>3. ASSUME NEW s \in Server, ServerHandles(s) PROVE RecordsOK'
  BY <1>3, <1>s DEF ServerHandles, World, client, why
<1>4. ASSUME NEW s \in Server, Lose(s) PROVE RecordsOK'
  BY <1>4, <1>s DEF Lose, World, client, why
<1>5. ASSUME NEW s \in Server, Reconnect(s) PROVE RecordsOK'
  <2>1. /\ UNCHANGED <<recv, table, skipped, crossed, c>> /\ h[s].pc = "ended"
    BY <1>5 DEF Reconnect, World, why
  <2>2. (\A x \in Server : x # s => h'[x] = h[x]) /\ h'[s].pc = "idle"
    BY <1>5, <1>t DEF Reconnect, Idle
  <2>. QED
    BY <2>1, <2>2 DEF RecordsOK, Stored, Backed, Pending
<1>6. ASSUME NEW s \in Server, TakeUpdate(s) PROVE RecordsOK'
  <2>. DEFINE m == Head(link[s].chan)
              stale == (m.action = "ADD") = (m.route \in recv[s])
              e == <<m.route, s>>
  <2>1. /\ UNCHANGED <<table, crossed, c>> /\ h[s].pc = "idle"
        /\ \A x \in Server : x # s => h'[x] = h[x] /\ recv'[x] = recv[x]
        /\ h'[s].route = m.route
        /\ \/ stale /\ h'[s].pc = "idle" /\ recv'[s] = recv[s]
           \/ /\ ~stale /\ m.action = "ADD"
              /\ h'[s].pc = "check" /\ recv'[s] = recv[s] \union {m.route}
           \/ /\ ~stale /\ m.action # "ADD"
              /\ h'[s].pc = "delete" /\ recv'[s] = recv[s] \ {m.route}
        /\ skipped' = IF m.action = "REMOVE" THEN skipped \ {e} ELSE skipped
    BY <1>6, <1>t DEF TakeUpdate, At, Handler
  <2>2. m.action = "REMOVE" => m.route \notin recv'[s]
    BY <2>1
  <2>. HIDE DEF m
  <2>3. h'[s].pc = "delete" => h'[s].route \notin recv'[s]
    BY <2>1
  <2>4. ASSUME NEW x \in Server, NEW r \in Route PROVE Stored(r, x)'
    BY <2>1, <2>2 DEF RecordsOK, Stored
  <2>5. ASSUME NEW x \in Server, NEW r \in Route PROVE Backed(r, x)'
    BY <2>1 DEF RecordsOK, Backed, Pending
  <2>. QED
    BY <2>1, <2>3, <2>4, <2>5 DEF RecordsOK
<1>7. ASSUME NEW s \in Server, Check(s) PROVE RecordsOK'
  <2>1. /\ UNCHANGED <<recv, table, crossed, c>> /\ h[s].pc = "check"
        /\ \A x \in Server : x # s => h'[x] = h[x]
        /\ h'[s].route = h[s].route
        /\ \/ h'[s].pc \in {"sweep", "idle"} /\ skipped' = skipped \union {<<h[s].route, s>>}
           \/ h'[s].pc = "store" /\ skipped' = skipped
    BY <1>7, <1>t DEF Check, At, Goto, Finish, Rest, Handler
  <2>. QED
    BY <2>1 DEF RecordsOK, Stored, Backed, Pending
<1>8. ASSUME NEW s \in Server, Store(s) PROVE RecordsOK'
  <2>1. /\ UNCHANGED <<recv, skipped, c>> /\ h[s].pc = "store"
        /\ \A x \in Server : x # s => h'[x] = h[x]
        /\ h'[s].pc \in {"sweep", "idle", "install"}
        /\ table' = table \union {<<h[s].route, s>>}
        /\ crossed' = IF h[s].route \in recv[s] THEN crossed \ {<<h[s].route, s>>}
                      ELSE crossed \union {<<h[s].route, s>>}
    BY <1>8, <1>t DEF Store, At, Goto, Finish, Rest, Handler
  <2>2. ASSUME NEW x \in Server, NEW r \in Route PROVE Stored(r, x)'
    BY <2>1 DEF RecordsOK, Stored
  <2>3. ASSUME NEW x \in Server, NEW r \in Route PROVE Backed(r, x)'
    BY <2>1 DEF RecordsOK, Backed, Pending
  <2>. QED
    BY <2>1, <2>2, <2>3 DEF RecordsOK
<1>9. ASSUME NEW s \in Server, Install(s) PROVE RecordsOK'
  <2>1. /\ UNCHANGED <<recv, table, skipped, crossed, c>> /\ h[s].pc \notin {"check", "store", "delete"}
        /\ h' = [h EXCEPT ![s].pc = IF h[s].clean THEN "sweep" ELSE "idle"]
    BY <1>9 DEF Install, At, Goto, Finish, Rest
  <2>. QED
    BY <2>1, <1>m
<1>10. ASSUME NEW s \in Server, Delete(s) PROVE RecordsOK'
  <2>1. /\ UNCHANGED <<recv, skipped, crossed, c>> /\ h[s].pc = "delete"
        /\ \A x \in Server : x # s => h'[x] = h[x]
        /\ h'[s].pc \in {"sweep", "idle", "uninstall"}
        /\ table' = table \ {<<h[s].route, s>>}
    BY <1>10, <1>t DEF Delete, At, Goto, Finish, Rest, Handler, why
  <2>2. ASSUME NEW x \in Server, NEW r \in Route PROVE Stored(r, x)'
    BY <2>1 DEF RecordsOK, Stored
  <2>3. ASSUME NEW x \in Server, NEW r \in Route PROVE Backed(r, x)'
    BY <2>1 DEF RecordsOK, Backed, Pending
  <2>. QED
    BY <2>1, <2>2, <2>3 DEF RecordsOK
<1>11. ASSUME NEW s \in Server, Uninstall(s) PROVE RecordsOK'
  <2>1. /\ UNCHANGED <<recv, table, skipped, crossed, c>> /\ h[s].pc \notin {"check", "store", "delete"}
        /\ h' = [h EXCEPT ![s].pc = IF h[s].clean THEN "sweep" ELSE "idle"]
    BY <1>11 DEF Uninstall, At, Goto, Finish, Rest
  <2>. QED
    BY <2>1, <1>m
<1>12. ASSUME NEW s \in Server, TakeShutdown(s) PROVE RecordsOK'
  <2>1. /\ UNCHANGED <<recv, table, skipped, crossed, c>> /\ h[s].pc = "idle"
    BY <1>12 DEF TakeShutdown, At, Rest, why
  <2>2. (\A x \in Server : x # s => h'[x] = h[x]) /\ h'[s].pc = "sweep"
    BY <1>12, <1>t DEF TakeShutdown, Handler
  <2>. QED
    BY <2>1, <2>2 DEF RecordsOK, Stored, Backed, Pending
<1>13. ASSUME NEW s \in Server, Sweep(s) PROVE RecordsOK'
  <2>1. CASE Goto(s, "ended") /\ UNCHANGED <<recv, skipped>>
    <3>1. UNCHANGED <<table, crossed, c>> /\ h[s].pc = "sweep"
      BY <1>13 DEF Sweep, At, Rest
    <3>. QED
      BY <1>m, <2>1, <3>1 DEF Goto
  <2>2. ASSUME NEW r \in h[s].todo, r \in recv[s], recv' = [recv EXCEPT ![s] = @ \ {r}],
               h' = [h EXCEPT ![s].pc = "delete", ![s].route = r, ![s].todo = @ \ {r}],
               skipped' = skipped \ {<<r, s>>}
        PROVE  RecordsOK'
    <3>u. UNCHANGED <<table, crossed, c>> /\ h[s].pc = "sweep"
      BY <1>13 DEF Sweep, At, Rest
    <3>1. /\ \A x \in Server : x # s => h'[x] = h[x] /\ recv'[x] = recv[x]
          /\ h'[s].pc = "delete" /\ h'[s].route = r /\ recv'[s] = recv[s] \ {r}
      BY <1>t, <2>2 DEF Handler
    <3>p. \A x, y : y # r \/ x # s => (<<y, x>> \in skipped' <=> <<y, x>> \in skipped)
      BY <2>2
    <3>2. ASSUME NEW x \in Server, NEW y \in Route PROVE Stored(y, x)'
      BY <3>p, <3>u, <3>1 DEF RecordsOK, Stored
    <3>3. ASSUME NEW x \in Server, NEW y \in Route PROVE Backed(y, x)'
      BY <3>u, <3>1 DEF RecordsOK, Backed, Pending
    <3>. QED
      BY <3>u, <3>1, <3>2, <3>3 DEF RecordsOK
  <2>. QED
    BY <1>13, <2>1, <2>2 DEF Sweep
<1>14. ASSUME NEW v \in VNI, Subscribe(v) PROVE RecordsOK'
  BY <1>14, <1>s DEF Subscribe, client, why
<1>15. ASSUME NEW v \in VNI, Unsubscribe(v) PROVE RecordsOK'
  <2>1. /\ UNCHANGED <<recv, table, skipped, crossed, h>> /\ c.pc = "idle"
        /\ \A r \in c'.todo : r.vni = c'.vni
    BY <1>15 DEF Unsubscribe, Caller, OfVNI
  <2>. QED
    BY <2>1 DEF RecordsOK, Stored, Backed, Pending
<1>16. ASSUME NEW v \in VNI, AddRoutesForVni(v) PROVE RecordsOK'
  <2>1. /\ UNCHANGED <<recv, table, skipped, crossed, h>> /\ c.pc = "idle" /\ c'.pc = "refill"
    BY <1>16 DEF AddRoutesForVni, Caller, NoCall
  <2>. QED
    BY <2>1 DEF RecordsOK, Stored, Backed, Pending
<1>17. ASSUME NEW r \in Mine, AnnounceRoute(r) PROVE RecordsOK'
  BY <1>17, <1>s DEF AnnounceRoute, client, why
<1>18. ASSUME NEW r \in Mine, WithdrawRoute(r) PROVE RecordsOK'
  BY <1>18, <1>s DEF WithdrawRoute, client, why
<1>19. ASSUME UnsubscribePeer PROVE RecordsOK'
  <2>1. UNCHANGED <<table, skipped, crossed, h>> /\ c.pc = "recv"
    BY <1>19 DEF UnsubscribePeer, Caller
  <2>2. ASSUME NEW r \in c.todo, recv' = [recv EXCEPT ![c.server] = @ \ {r}],
               c' = [c EXCEPT !.todo = @ \ {r}]
        PROVE  RecordsOK'
    <3>1. /\ c'.pc = c.pc /\ c'.vni = c.vni /\ c'.server = c.server /\ c'.todo = c.todo \ {r}
          /\ c.server \in Server
      BY <1>t, <2>2 DEF Call
    <3>2. \A x \in Server : recv'[x] = IF x = c.server THEN recv[x] \ {r} ELSE recv[x]
      BY <1>t, <2>2
    <3>3. ASSUME NEW x \in Server, NEW y \in Route PROVE Backed(y, x)'
      BY <2>1, <3>1, <3>2 DEF RecordsOK, Backed, Pending
    <3>4. ASSUME NEW x \in Server, NEW y \in Route PROVE Stored(y, x)'
      BY <2>1, <3>2 DEF RecordsOK, Stored
    <3>. QED
      BY <2>1, <3>1, <3>2, <3>3, <3>4 DEF RecordsOK
  <2>3. CASE recv' = recv /\ c' = [c EXCEPT !.pc = "table", !.todo = OfVNI(InTable, c.vni)]
    <3>1. /\ c'.pc = "table" /\ c'.vni = c.vni /\ c'.server = c.server
          /\ c'.todo = OfVNI(InTable, c.vni)
      BY <1>t, <2>3 DEF Call
    <3>2. \A y, x : <<y, x>> \in table /\ y.vni = c.vni => y \in c'.todo
      BY <3>1 DEF InTable, Known, OfVNI
    <3>3. ASSUME NEW x \in Server, NEW y \in Route PROVE Backed(y, x)'
      BY <2>1, <2>3, <3>1, <3>2 DEF RecordsOK, Backed, Pending
    <3>. QED
      BY <2>1, <2>3, <3>1, <3>3 DEF RecordsOK, Stored
  <2>. QED
    BY <1>19, <2>2, <2>3 DEF UnsubscribePeer, Caller
<1>20. ASSUME UnsubscribeTable PROVE RecordsOK'
  <2>1. UNCHANGED <<recv, skipped, h>> /\ c.pc = "table"
    BY <1>20 DEF UnsubscribeTable, Caller
  <2>2. ASSUME NEW r \in c.todo, table' = table \ {<<r, c.server>>},
               crossed' = IF r \in recv[c.server] THEN crossed \union {<<r, c.server>>}
                          ELSE crossed \ {<<r, c.server>>},
               c' = [c EXCEPT !.todo = @ \ {r}]
        PROVE  RecordsOK'
    <3>1. /\ c'.pc = c.pc /\ c'.vni = c.vni /\ c'.server = c.server /\ c'.todo = c.todo \ {r}
          /\ c.server \in Server
      BY <1>t, <2>2 DEF Call
    <3>2. ASSUME NEW x \in Server, NEW y \in Route PROVE Backed(y, x)'
      BY <2>1, <2>2, <3>1 DEF RecordsOK, Backed, Pending
    <3>3. ASSUME NEW x \in Server, NEW y \in Route PROVE Stored(y, x)'
      BY <2>1, <2>2 DEF RecordsOK, Stored
    <3>. QED
      BY <2>1, <3>1, <3>2, <3>3 DEF RecordsOK
  <2>3. ASSUME c.todo = {}, UNCHANGED <<table, crossed>>, NEW s \in c.servers,
               c' = [c EXCEPT !.pc = "recv", !.server = s, !.servers = @ \ {s},
                              !.todo = OfVNI(recv[s], c.vni)]
        PROVE  RecordsOK'
    <3>1. \A r \in c'.todo : r.vni = c'.vni
      BY <1>t, <2>3 DEF Call, OfVNI
    <3>. QED
      BY <2>1, <2>3, <3>1 DEF RecordsOK, Stored, Backed, Pending
  <2>. QED
    BY <1>20, <2>2, <2>3 DEF UnsubscribeTable, Caller
<1>21. ASSUME UnsubscribeReturns PROVE RecordsOK'
  <2>1. /\ UNCHANGED <<recv, table, skipped, crossed, h>> /\ c'.pc = "idle"
        /\ c.pc = "table" /\ c.todo = {}
    BY <1>21 DEF UnsubscribeReturns, NoCall, why
  <2>. QED
    BY <2>1 DEF RecordsOK, Stored, Backed, Pending
<1>22. ASSUME Refill PROVE RecordsOK'
  <2>1. UNCHANGED <<recv, table, skipped, crossed, h>> /\ c.pc \in {"refill", "refillMine"}
    BY <1>22 DEF Refill, Caller
  <2>2. \/ c' = NoCall \/ \E r \in c.todo : c' = [c EXCEPT !.todo = @ \ {r}]
        \/ c' = [c EXCEPT !.pc = "refillMine", !.todo = OfVNI(mine, c.vni)]
    BY <1>22 DEF Refill, Caller
  <2>3. c'.pc \in {"refill", "refillMine", "idle"}
    <3>1. NoCall.pc = "idle"
      BY DEF NoCall
    <3>2. ASSUME NEW R, c' = [c EXCEPT !.todo = R] PROVE c'.pc = c.pc
      BY <1>t, <3>2 DEF Call
    <3>3. ASSUME NEW R, c' = [c EXCEPT !.pc = "refillMine", !.todo = R] PROVE c'.pc = "refillMine"
      BY <1>t, <3>3 DEF Call
    <3>. QED
      BY <2>1, <2>2, <3>1, <3>2, <3>3
  <2>. QED
    BY <2>1, <2>3 DEF RecordsOK, Stored, Backed, Pending
<1>23. ASSUME Shutdown PROVE RecordsOK'
  BY <1>23, <1>s DEF Shutdown, Process, Others, client, why
<1>24. ASSUME CleanupLists PROVE RecordsOK'
  BY <1>24, <1>s DEF CleanupLists, Others, why
<1>25. ASSUME CleanupDeletes PROVE RecordsOK'
  BY <1>25, <1>s DEF CleanupDeletes, Others, DeleteListed, KernelFails, why
<1>25r. ASSUME CleanupReturns PROVE RecordsOK'
  BY <1>25r, <1>s DEF CleanupReturns, Others, client, why
<1>26. ASSUME Exit PROVE RecordsOK'
  BY <1>26, <1>s DEF Exit, Process, Others, client, why
<1>27. ASSUME UNCHANGED vars PROVE RecordsOK'
  BY <1>27, <1>s DEF vars, why
<1>. QED
  BY <1>1, <1>2, <1>3, <1>4, <1>5, <1>6, <1>7, <1>8, <1>9, <1>10, <1>11, <1>12, <1>13,
     <1>14, <1>15, <1>16, <1>17, <1>18, <1>19, <1>20, <1>21, <1>22, <1>23, <1>24,
     <1>25, <1>25r, <1>26, <1>27
  DEF Next, HandlerStep, CallerStep

LEMMA StepKeepsCleanup == Typed /\ CleanupOK /\ [Next]_vars => CleanupOK'
<1>. SUFFICES ASSUME Typed, CleanupOK, [Next]_vars PROVE CleanupOK'
  OBVIOUS
<1>t. recv \in [Server -> SUBSET Route] /\ h \in [Server -> Handler]
  BY DEF Typed
<1>s. UNCHANGED <<recv, h, c, abandoned, proc>> => CleanupOK'
  BY DEF CleanupOK
<1>g. ASSUME NEW s \in Server, NEW pc \in {"store", "install", "uninstall"}, Goto(s, pc),
             UNCHANGED <<recv, c, abandoned, proc>>
      PROVE  CleanupOK'
  <2>1. /\ \A x \in Server : x # s => h'[x] = h[x]
        /\ h'[s].pc = pc /\ h'[s].clean = h[s].clean /\ h'[s].todo = h[s].todo
    BY <1>t, <1>g DEF Goto, Handler
  <2>. QED
    BY <1>g, <2>1 DEF CleanupOK
<1>f. ASSUME NEW s \in Server, Finish(s), UNCHANGED <<recv, c, abandoned, proc>>
      PROVE  CleanupOK'
  <2>1. /\ \A x \in Server : x # s => h'[x] = h[x]
        /\ h'[s].pc = IF h[s].clean THEN "sweep" ELSE "idle"
        /\ h'[s].clean = h[s].clean /\ h'[s].todo = h[s].todo
    BY <1>t, <1>f DEF Finish, Goto, Handler
  <2>. QED
    BY <1>f, <2>1 DEF CleanupOK
<1>1. ASSUME NewNetlinkClient PROVE CleanupOK'
  <2>1. UNCHANGED <<recv, h, c, abandoned>> /\ (proc' # "run" => c.pc = "idle")
    BY <1>1 DEF NewNetlinkClient, Process, Others, why, CleanupOK
  <2>. QED
    BY <2>1 DEF CleanupOK
<1>2. ASSUME NEW s \in Server, ServerUpdates(s) PROVE CleanupOK'
  BY <1>2, <1>s DEF ServerUpdates, World, client, why
<1>3. ASSUME NEW s \in Server, ServerHandles(s) PROVE CleanupOK'
  BY <1>3, <1>s DEF ServerHandles, World, client, why
<1>4. ASSUME NEW s \in Server, Lose(s) PROVE CleanupOK'
  BY <1>4, <1>s DEF Lose, World, client, why
<1>5. ASSUME NEW s \in Server, Reconnect(s) PROVE CleanupOK'
  <2>1. UNCHANGED <<recv, c, abandoned, proc>>
    BY <1>5 DEF Reconnect, World, why
  <2>2. (\A x \in Server : x # s => h'[x] = h[x]) /\ h'[s].pc = "idle" /\ h'[s].clean = FALSE
    BY <1>5, <1>t DEF Reconnect, Idle
  <2>. QED
    BY <2>1, <2>2 DEF CleanupOK
<1>6. ASSUME NEW s \in Server, TakeUpdate(s) PROVE CleanupOK'
  <2>1. UNCHANGED <<c, abandoned, proc>> /\ h[s].pc = "idle"
    BY <1>6 DEF TakeUpdate, At
  <2>2. /\ \A x \in Server : x # s => h'[x] = h[x] /\ recv'[x] = recv[x]
        /\ h'[s].pc \in {"idle", "check", "delete"} /\ h'[s].clean = h[s].clean
    BY <1>6, <1>t DEF TakeUpdate, Handler
  <2>. QED
    BY <2>1, <2>2 DEF CleanupOK
<1>7. ASSUME NEW s \in Server, Check(s) PROVE CleanupOK'
  <2>1. UNCHANGED <<recv, c, abandoned, proc>> /\ h[s].pc \notin {"idle", "sweep", "ended"}
    BY <1>7 DEF Check, At, Rest, why
  <2>2. Finish(s) \/ Goto(s, "store")
    BY <1>7 DEF Check
  <2>. QED
    BY <2>1, <2>2, <1>f, <1>g
<1>8. ASSUME NEW s \in Server, Store(s) PROVE CleanupOK'
  <2>1. UNCHANGED <<recv, c, abandoned, proc>> /\ h[s].pc \notin {"idle", "sweep", "ended"}
    BY <1>8 DEF Store, At, Rest, why
  <2>2. Finish(s) \/ Goto(s, "install")
    BY <1>8 DEF Store
  <2>. QED
    BY <2>1, <2>2, <1>f, <1>g
<1>9. ASSUME NEW s \in Server, Install(s) PROVE CleanupOK'
  <2>1. UNCHANGED <<recv, c, abandoned, proc>> /\ h[s].pc \notin {"idle", "sweep", "ended"}
    BY <1>9 DEF Install, At, Rest, why
  <2>2. Finish(s)
    BY <1>9 DEF Install
  <2>. QED
    BY <2>1, <2>2, <1>f, <1>g
<1>10. ASSUME NEW s \in Server, Delete(s) PROVE CleanupOK'
  <2>1. UNCHANGED <<recv, c, abandoned, proc>> /\ h[s].pc \notin {"idle", "sweep", "ended"}
    BY <1>10 DEF Delete, At, Rest, why
  <2>2. Finish(s) \/ Goto(s, "uninstall")
    BY <1>10 DEF Delete
  <2>. QED
    BY <2>1, <2>2, <1>f, <1>g
<1>11. ASSUME NEW s \in Server, Uninstall(s) PROVE CleanupOK'
  <2>1. UNCHANGED <<recv, c, abandoned, proc>> /\ h[s].pc \notin {"idle", "sweep", "ended"}
    BY <1>11 DEF Uninstall, At, Rest, why
  <2>2. Finish(s)
    BY <1>11 DEF Uninstall
  <2>. QED
    BY <2>1, <2>2, <1>f, <1>g
<1>12. ASSUME NEW s \in Server, TakeShutdown(s) PROVE CleanupOK'
  <2>1. UNCHANGED <<recv, c, abandoned, proc>>
    BY <1>12 DEF TakeShutdown, Rest, why
  <2>2. /\ \A x \in Server : x # s => h'[x] = h[x]
        /\ h'[s].pc = "sweep" /\ h'[s].clean = TRUE /\ h'[s].todo = recv[s]
    BY <1>12, <1>t DEF TakeShutdown, Handler
  <2>. QED
    BY <2>1, <2>2 DEF CleanupOK
<1>13. ASSUME NEW s \in Server, Sweep(s) PROVE CleanupOK'
  <2>1. UNCHANGED <<c, proc>> /\ h[s].pc = "sweep" /\ h[s].clean
    BY <1>13 DEF Sweep, At, Rest, CleanupOK
  <2>2. ASSUME Goto(s, "ended"), recv' = recv, h[s].todo = {} \/ s \in abandoned',
               abandoned \subseteq abandoned'
        PROVE  CleanupOK'
    <3>1. /\ \A x \in Server : x # s => h'[x] = h[x]
          /\ h'[s].pc = "ended" /\ h'[s].clean = h[s].clean /\ h'[s].todo = h[s].todo
      BY <1>t, <2>2 DEF Goto, Handler
    <3>. QED
      BY <2>1, <2>2, <3>1 DEF CleanupOK
  <2>3. ASSUME NEW r \in h[s].todo, recv' = [recv EXCEPT ![s] = @ \ {r}], abandoned' = abandoned,
               h' = [h EXCEPT ![s].pc = "delete", ![s].route = r, ![s].todo = @ \ {r}]
        PROVE  CleanupOK'
    <3>1. /\ \A x \in Server : x # s => h'[x] = h[x] /\ recv'[x] = recv[x]
          /\ h'[s].pc = "delete" /\ h'[s].clean = h[s].clean /\ h'[s].todo = h[s].todo \ {r}
          /\ recv'[s] = recv[s] \ {r}
      BY <1>t, <2>3 DEF Handler
    <3>. QED
      BY <2>1, <2>3, <3>1 DEF CleanupOK
  <2>. QED
    BY <1>13, <2>2, <2>3 DEF Sweep
<1>14. ASSUME NEW v \in VNI, Subscribe(v) PROVE CleanupOK'
  BY <1>14, <1>s DEF Subscribe, client, why
<1>15. ASSUME NEW v \in VNI, Unsubscribe(v) PROVE CleanupOK'
  <2>1. UNCHANGED <<recv, h, abandoned, proc>> /\ proc = "run"
    BY <1>15 DEF Unsubscribe, Caller
  <2>. QED
    BY <2>1 DEF CleanupOK
<1>16. ASSUME NEW v \in VNI, AddRoutesForVni(v) PROVE CleanupOK'
  <2>1. UNCHANGED <<recv, h, abandoned, proc>> /\ proc = "run"
    BY <1>16 DEF AddRoutesForVni, Caller
  <2>. QED
    BY <2>1 DEF CleanupOK
<1>17. ASSUME NEW r \in Mine, AnnounceRoute(r) PROVE CleanupOK'
  BY <1>17, <1>s DEF AnnounceRoute, client, why
<1>18. ASSUME NEW r \in Mine, WithdrawRoute(r) PROVE CleanupOK'
  BY <1>18, <1>s DEF WithdrawRoute, client, why
<1>19. ASSUME UnsubscribePeer PROVE CleanupOK'
  <2>1. UNCHANGED <<h, abandoned, proc>> /\ c.pc = "recv"
    BY <1>19 DEF UnsubscribePeer, Caller
  <2>2. \A x \in Server : recv'[x] \subseteq recv[x]
    BY <1>19, <1>t DEF UnsubscribePeer
  <2>. QED
    BY <2>1, <2>2 DEF CleanupOK
<1>20. ASSUME UnsubscribeTable PROVE CleanupOK'
  <2>1. UNCHANGED <<recv, h, abandoned, proc>> /\ c.pc # "idle"
    BY <1>20 DEF UnsubscribeTable, Caller, why
  <2>. QED
    BY <2>1 DEF CleanupOK
<1>21. ASSUME UnsubscribeReturns PROVE CleanupOK'
  <2>1. UNCHANGED <<recv, h, abandoned, proc>> /\ c.pc # "idle"
    BY <1>21 DEF UnsubscribeReturns, Caller, why
  <2>. QED
    BY <2>1 DEF CleanupOK
<1>22. ASSUME Refill PROVE CleanupOK'
  <2>1. UNCHANGED <<recv, h, abandoned, proc>> /\ c.pc # "idle"
    BY <1>22 DEF Refill, Caller, why
  <2>. QED
    BY <2>1 DEF CleanupOK
<1>23. ASSUME Shutdown PROVE CleanupOK'
  <2>1. UNCHANGED <<recv, h, c, abandoned>> /\ (proc' # "run" => c.pc = "idle")
    BY <1>23 DEF Shutdown, Process, Others, why, CleanupOK
  <2>. QED
    BY <2>1 DEF CleanupOK
<1>24. ASSUME CleanupLists PROVE CleanupOK'
  BY <1>24, <1>s DEF CleanupLists, Others, why
<1>25. ASSUME CleanupDeletes PROVE CleanupOK'
  BY <1>25, <1>s DEF CleanupDeletes, Others, why
<1>25r. ASSUME CleanupReturns PROVE CleanupOK'
  <2>1. UNCHANGED <<recv, h, c, abandoned>> /\ proc # "run"
    BY <1>25r DEF CleanupReturns, Process, Others, why
  <2>. QED
    BY <2>1 DEF CleanupOK
<1>26. ASSUME Exit PROVE CleanupOK'
  <2>1. UNCHANGED <<recv, h, c, abandoned>> /\ (proc' # "run" => c.pc = "idle")
    BY <1>26 DEF Exit, Process, Others, why, CleanupOK
  <2>. QED
    BY <2>1 DEF CleanupOK
<1>27. ASSUME UNCHANGED vars PROVE CleanupOK'
  BY <1>27, <1>s DEF vars, why
<1>. QED
  BY <1>1, <1>2, <1>3, <1>4, <1>5, <1>6, <1>7, <1>8, <1>9, <1>10, <1>11, <1>12, <1>13,
     <1>14, <1>15, <1>16, <1>17, <1>18, <1>19, <1>20, <1>21, <1>22, <1>23, <1>24,
     <1>25, <1>25r, <1>26, <1>27
  DEF Next, HandlerStep, CallerStep

-----------------------------------------------------------------------------
(* Table and c.routes.                                                     *)

On(pc, r) == \E s \in Server : h[s].pc = pc /\ h[s].route = r

InstalledOK ==
    \A r \in Route :
        /\ r \in routes => r \in Known \/ r \in left \/ On("uninstall", r)
        /\ r \in Known /\ Installable(r) => r \in routes \/ r \in missing \/ On("install", r)

LEMMA StepKeepsInstalled ==
    Typed /\ KernelOK /\ InstalledOK /\ [Next]_vars => InstalledOK'
<1>. SUFFICES ASSUME Typed, KernelOK, InstalledOK, [Next]_vars PROVE InstalledOK'
  OBVIOUS
<1>t. h \in [Server -> Handler] /\ table \subseteq Route \X Server
  BY DEF Typed
<1>s. UNCHANGED <<routes, table, left, missing, h>> => InstalledOK'
  BY DEF InstalledOK, Known, On, Installable
<1>o. ASSUME NEW s \in Server, h[s].pc \notin {"install", "uninstall"},
             \A x \in Server : x # s => h'[x] = h[x],
             UNCHANGED <<routes, table, left, missing>>
      PROVE  InstalledOK'
  <2>1. \A y \in Route : /\ On("uninstall", y) => On("uninstall", y)'
                         /\ On("install", y) => On("install", y)'
    BY <1>o DEF On
  <2>2. Known' = Known
    BY <1>o DEF Known
  <2>. QED
    BY <1>o, <2>1, <2>2 DEF InstalledOK, Installable
<1>1. ASSUME NewNetlinkClient PROVE InstalledOK'
  BY <1>1, <1>s DEF NewNetlinkClient, why, KernelFails, DeleteListed
<1>2. ASSUME NEW s \in Server, ServerUpdates(s) PROVE InstalledOK'
  BY <1>2, <1>s DEF ServerUpdates, World, client, why
<1>3. ASSUME NEW s \in Server, ServerHandles(s) PROVE InstalledOK'
  BY <1>3, <1>s DEF ServerHandles, World, client, why
<1>4. ASSUME NEW s \in Server, Lose(s) PROVE InstalledOK'
  BY <1>4, <1>s DEF Lose, World, client, why
<1>5. ASSUME NEW s \in Server, Reconnect(s) PROVE InstalledOK'
  <2>1. UNCHANGED <<routes, table, left, missing>> /\ h[s].pc \notin {"install", "uninstall"}
    BY <1>5 DEF Reconnect, World, client, why
  <2>2. \A x \in Server : x # s => h'[x] = h[x]
    BY <1>5, <1>t DEF Reconnect
  <2>. QED
    BY <2>1, <2>2, <1>o
<1>6. ASSUME NEW s \in Server, TakeUpdate(s) PROVE InstalledOK'
  <2>1. UNCHANGED <<routes, table, left, missing>> /\ h[s].pc \notin {"install", "uninstall"}
    BY <1>6 DEF TakeUpdate, At, client
  <2>2. \A x \in Server : x # s => h'[x] = h[x]
    BY <1>6, <1>t DEF TakeUpdate
  <2>. QED
    BY <2>1, <2>2, <1>o
<1>7. ASSUME NEW s \in Server, Check(s) PROVE InstalledOK'
  <2>1. UNCHANGED <<routes, table, left, missing>> /\ h[s].pc \notin {"install", "uninstall"}
    BY <1>7 DEF Check, At, Rest, client
  <2>2. \A x \in Server : x # s => h'[x] = h[x]
    BY <1>7, <1>t DEF Check, Goto, Finish
  <2>. QED
    BY <2>1, <2>2, <1>o
<1>8. ASSUME NEW s \in Server, Store(s) PROVE InstalledOK'
  <2>r. PICK r \in Route : r = h[s].route
    BY <1>t DEF Handler
  <2>1. /\ UNCHANGED <<routes, left, missing>> /\ h[s].pc = "store"
        /\ table' = table \union {<<r, s>>}
    BY <1>8, <2>r DEF Store, At, client
  <2>2. (\A x \in Server : x # s => h'[x] = h[x]) /\ h'[s].route = r
    BY <1>8, <1>t, <2>r DEF Store, Goto, Finish, Handler
  <2>3. <<r, s>> \notin table => h'[s].pc = "install"
    BY <1>8, <1>t, <2>r DEF Store, Goto, Handler
  <2>4. Known' = Known \union {r} /\ (<<r, s>> \in table => r \in Known)
    BY <2>1 DEF Known
  <2>5. \A y \in Route : /\ On("uninstall", y) => On("uninstall", y)'
                         /\ On("install", y) => On("install", y)'
    BY <2>1, <2>2 DEF On
  <2>6. On("install", r)' \/ r \in Known
    BY <2>2, <2>3, <2>4 DEF On
  <2>. QED
    BY <2>1, <2>4, <2>5, <2>6 DEF InstalledOK, Installable
<1>9. ASSUME NEW s \in Server, Install(s) PROVE InstalledOK'
  <2>. DEFINE r == h[s].route
  <2>1. UNCHANGED table /\ h[s].pc = "install" /\ r \in Route
    BY <1>9, <1>t DEF Install, At, Handler
  <2>2. \A x \in Server : x # s => h'[x] = h[x]
    BY <1>9, <1>t DEF Install, Goto, Finish
  <2>3. Known' = Known
    BY <2>1 DEF Known
  <2>4. \/ AddRoute(r) /\ left' = (IF r \in Known THEN left ELSE left \union {r})
                        /\ missing' = missing \ {r}
        \/ routes' = routes /\ left' = left /\ missing' = missing \union {r}
    BY <1>9 DEF Install, KernelFails
  <2>. HIDE DEF r
  <2>5. \A y \in Route : On("uninstall", y) => On("uninstall", y)'
    BY <2>1, <2>2 DEF On
  <2>6. \A y \in Route : On("install", y) => y = r \/ On("install", y)'
    BY <2>1, <2>2 DEF On, r
  <2>7. CASE routes' = routes /\ left' = left /\ missing' = missing \union {r}
    BY <2>3, <2>5, <2>6, <2>7 DEF InstalledOK, Installable
  <2>8. ASSUME AddRoute(r), left' = (IF r \in Known THEN left ELSE left \union {r}),
               missing' = missing \ {r}
        PROVE  InstalledOK'
    <3>1. routes \subseteq routes' /\ routes' \subseteq routes \union {r}
          /\ (Installable(r) => r \in routes')
      BY <2>8 DEF AddRoute
    <3>. QED
      BY <2>3, <2>5, <2>6, <2>8, <3>1 DEF InstalledOK, Installable
  <2>. QED
    BY <2>4, <2>7, <2>8
<1>10. ASSUME NEW s \in Server, Delete(s) PROVE InstalledOK'
  <2>r. PICK r \in Route : r = h[s].route
    BY <1>t DEF Handler
  <2>1. /\ UNCHANGED <<routes, left, missing>> /\ h[s].pc = "delete"
        /\ table' = table \ {<<r, s>>}
    BY <1>10, <2>r DEF Delete, At, client, why
  <2>2. (\A x \in Server : x # s => h'[x] = h[x]) /\ h'[s].route = r
    BY <1>10, <1>t, <2>r DEF Delete, Goto, Finish, Handler
  <2>3. <<r, s>> \in table => h'[s].pc = "uninstall"
    BY <1>10, <1>t, <2>r DEF Delete, Goto, Handler
  <2>4. /\ Known' \subseteq Known /\ \A y \in Known : y = r \/ y \in Known'
        /\ <<r, s>> \notin table => Known' = Known
    BY <2>1, <1>t DEF Known
  <2>5. \A y \in Route : /\ On("uninstall", y) => On("uninstall", y)'
                         /\ On("install", y) => On("install", y)'
    BY <2>1, <2>2 DEF On
  <2>6. On("uninstall", r)' \/ Known' = Known
    BY <2>2, <2>3, <2>4 DEF On
  <2>. QED
    BY <2>1, <2>4, <2>5, <2>6 DEF InstalledOK, Installable
<1>11. ASSUME NEW s \in Server, Uninstall(s) PROVE InstalledOK'
  <2>. DEFINE r == h[s].route
  <2>1. UNCHANGED table /\ h[s].pc = "uninstall" /\ r \in Route
    BY <1>11, <1>t DEF Uninstall, At, Handler
  <2>2. \A x \in Server : x # s => h'[x] = h[x]
    BY <1>11, <1>t DEF Uninstall, Goto, Finish
  <2>3. Known' = Known
    BY <2>1 DEF Known
  <2>4. \/ /\ RemoveRoute(r) /\ left' = left \ {r}
           /\ missing' = IF r \in Known THEN missing \union {r} ELSE missing \ {r}
        \/ routes' = routes /\ left' = left \union {r} /\ missing' = missing
    BY <1>11 DEF Uninstall, KernelFails
  <2>. HIDE DEF r
  <2>5. \A y \in Route : On("install", y) => On("install", y)'
    BY <2>1, <2>2 DEF On
  <2>6. \A y \in Route : On("uninstall", y) => y = r \/ On("uninstall", y)'
    BY <2>1, <2>2 DEF On, r
  <2>7. CASE routes' = routes /\ left' = left \union {r} /\ missing' = missing
    BY <2>3, <2>5, <2>6, <2>7 DEF InstalledOK, Installable
  <2>8. ASSUME RemoveRoute(r), left' = left \ {r},
               missing' = IF r \in Known THEN missing \union {r} ELSE missing \ {r}
        PROVE  InstalledOK'
    <3>1. routes' = routes \ {r}
      BY <2>8 DEF RemoveRoute, KernelOK
    <3>. QED
      BY <2>3, <2>5, <2>6, <2>8, <3>1 DEF InstalledOK, Installable
  <2>. QED
    BY <2>4, <2>7, <2>8
<1>12. ASSUME NEW s \in Server, TakeShutdown(s) PROVE InstalledOK'
  <2>1. UNCHANGED <<routes, table, left, missing>> /\ h[s].pc \notin {"install", "uninstall"}
    BY <1>12 DEF TakeShutdown, At, Rest, client, why
  <2>2. \A x \in Server : x # s => h'[x] = h[x]
    BY <1>12, <1>t DEF TakeShutdown
  <2>. QED
    BY <2>1, <2>2, <1>o
<1>13. ASSUME NEW s \in Server, Sweep(s) PROVE InstalledOK'
  <2>1. UNCHANGED <<routes, table, left, missing>> /\ h[s].pc \notin {"install", "uninstall"}
    BY <1>13 DEF Sweep, At, Rest, client
  <2>2. \A x \in Server : x # s => h'[x] = h[x]
    BY <1>13, <1>t DEF Sweep, Goto
  <2>. QED
    BY <2>1, <2>2, <1>o
<1>14. ASSUME NEW v \in VNI, Subscribe(v) PROVE InstalledOK'
  BY <1>14, <1>s DEF Subscribe, client, why
<1>15. ASSUME NEW v \in VNI, Unsubscribe(v) PROVE InstalledOK'
  BY <1>15, <1>s DEF Unsubscribe, Caller, client
<1>16. ASSUME NEW v \in VNI, AddRoutesForVni(v) PROVE InstalledOK'
  BY <1>16, <1>s DEF AddRoutesForVni, Caller, client
<1>17. ASSUME NEW r \in Mine, AnnounceRoute(r) PROVE InstalledOK'
  BY <1>17, <1>s DEF AnnounceRoute, client, why
<1>18. ASSUME NEW r \in Mine, WithdrawRoute(r) PROVE InstalledOK'
  BY <1>18, <1>s DEF WithdrawRoute, client, why
<1>19. ASSUME UnsubscribePeer PROVE InstalledOK'
  BY <1>19, <1>s DEF UnsubscribePeer, Caller, client
<1>20. ASSUME UnsubscribeTable PROVE InstalledOK'
  <2>1. UNCHANGED <<routes, missing, h>>
    BY <1>20 DEF UnsubscribeTable, Caller, client
  <2>2. CASE UNCHANGED <<table, left>>
    BY <1>s, <2>1, <2>2
  <2>3. ASSUME NEW r \in c.todo, table' = table \ {<<r, c.server>>},
               left' = IF <<r, c.server>> \in table THEN left \union {r} ELSE left
        PROVE  InstalledOK'
    <3>1. /\ Known' \subseteq Known /\ \A y \in Known : y = r \/ y \in Known'
          /\ <<r, c.server>> \notin table => Known' = Known
      BY <2>3, <1>t DEF Known
    <3>. QED
      BY <2>1, <2>3, <3>1 DEF InstalledOK, Installable, On
  <2>. QED
    BY <1>20, <2>2, <2>3 DEF UnsubscribeTable
<1>21. ASSUME UnsubscribeReturns PROVE InstalledOK'
  BY <1>21, <1>s DEF UnsubscribeReturns, client, why
<1>22. ASSUME Refill PROVE InstalledOK'
  <2>1. UNCHANGED <<table, h>>
    BY <1>22 DEF Refill, Caller
  <2>2. Known' = Known
    BY <2>1 DEF Known
  <2>3. CASE UNCHANGED <<routes, left, missing>>
    BY <1>s, <2>1, <2>3
  <2>4. ASSUME NEW r \in c.todo, AddRoute(r), missing' = missing \ {r},
               left' = IF r \in Known THEN left ELSE left \union {r}
        PROVE  InstalledOK'
    <3>1. /\ routes \subseteq routes' /\ routes' \subseteq routes \union {r}
          /\ Installable(r) => r \in routes'
      BY <2>4 DEF AddRoute
    <3>. QED
      BY <2>1, <2>2, <2>4, <3>1 DEF InstalledOK, Installable, On
  <2>. QED
    BY <1>22, <2>3, <2>4 DEF Refill, KernelFails, client
<1>23. ASSUME Shutdown PROVE InstalledOK'
  BY <1>23, <1>s DEF Shutdown, Process, Others, client, why
<1>24. ASSUME CleanupLists PROVE InstalledOK'
  BY <1>24, <1>s DEF CleanupLists, Others, why
<1>25. ASSUME CleanupDeletes PROVE InstalledOK'
  BY <1>25, <1>s DEF CleanupDeletes, Others, DeleteListed, KernelFails, why
<1>25r. ASSUME CleanupReturns PROVE InstalledOK'
  BY <1>25r, <1>s DEF CleanupReturns, Others, client, why
<1>26. ASSUME Exit PROVE InstalledOK'
  BY <1>26, <1>s DEF Exit, Process, Others, client, why
<1>27. ASSUME UNCHANGED vars PROVE InstalledOK'
  BY <1>27, <1>s DEF vars, client, why
<1>. QED
  BY <1>1, <1>2, <1>3, <1>4, <1>5, <1>6, <1>7, <1>8, <1>9, <1>10, <1>11, <1>12, <1>13,
     <1>14, <1>15, <1>16, <1>17, <1>18, <1>19, <1>20, <1>21, <1>22, <1>23, <1>24,
     <1>25, <1>25r, <1>26, <1>27
  DEF Next, HandlerStep, CallerStep

-----------------------------------------------------------------------------

(* What Cleanup leaves.                                                    *)

\* What the kernel has is still to be listed or deleted, or it is spared.
SparedOK ==
    /\ unlisted \subseteq DOMAIN VNITableMap
    /\ proc \in {"start", "run"} => unlisted = DOMAIN VNITableMap
    /\ proc = "cleanup" =>
          \A e \in kernel : \/ Where(e) \in listed \union spared
                            \/ \E v \in unlisted : VNITableMap[v] = e.table
    /\ proc \in {"clean", "exited"} => \A e \in kernel : Where(e) \in spared

LEMMA StepKeepsSpared == Typed /\ KernelOK /\ CleanupOK /\ SparedOK /\ [Next]_vars => SparedOK'
<1>. SUFFICES ASSUME Typed, KernelOK, CleanupOK, SparedOK, [Next]_vars PROVE SparedOK'
  OBVIOUS
<1>s. UNCHANGED <<kernel, spared, proc, listed, unlisted>> => SparedOK'
  BY DEF SparedOK, Where
<1>w. ASSUME spared' = WrittenLate, Alive, UNCHANGED <<proc, listed, unlisted>>
      PROVE  SparedOK'
  <2>1. /\ spared \subseteq spared'
        /\ proc \in {"cleanup", "clean"} => \A e \in kernel' \ kernel : Where(e) \in spared'
    BY <1>w DEF WrittenLate
  <2>. QED
    BY <1>w, <2>1 DEF SparedOK, Where, Alive
<1>r. ASSUME proc = "run", UNCHANGED <<proc, unlisted>> PROVE SparedOK'
  BY <1>r DEF SparedOK
<1>1. ASSUME NewNetlinkClient PROVE SparedOK'
  BY <1>1 DEF NewNetlinkClient, SparedOK
<1>2. ASSUME NEW s \in Server, ServerUpdates(s) PROVE SparedOK'
  BY <1>2, <1>r DEF ServerUpdates, World
<1>3. ASSUME NEW s \in Server, ServerHandles(s) PROVE SparedOK'
  BY <1>3, <1>r DEF ServerHandles, World
<1>4. ASSUME NEW s \in Server, Lose(s) PROVE SparedOK'
  BY <1>4, <1>r DEF Lose, World
<1>5. ASSUME NEW s \in Server, Reconnect(s) PROVE SparedOK'
  BY <1>5, <1>r DEF Reconnect, World
<1>6. ASSUME NEW s \in Server, TakeUpdate(s) PROVE SparedOK'
  BY <1>6, <1>s DEF TakeUpdate, client
<1>7. ASSUME NEW s \in Server, Check(s) PROVE SparedOK'
  BY <1>7, <1>s DEF Check, Rest, client
<1>8. ASSUME NEW s \in Server, Store(s) PROVE SparedOK'
  BY <1>8, <1>s DEF Store, Rest, client
<1>9. ASSUME NEW s \in Server, Install(s) PROVE SparedOK'
  BY <1>9, <1>w DEF Install, At, Rest
<1>10. ASSUME NEW s \in Server, Delete(s) PROVE SparedOK'
  BY <1>10, <1>s DEF Delete, Rest, client
<1>11. ASSUME NEW s \in Server, Uninstall(s) PROVE SparedOK'
  BY <1>11, <1>w DEF Uninstall, At, Rest
<1>12. ASSUME NEW s \in Server, TakeShutdown(s) PROVE SparedOK'
  BY <1>12, <1>s DEF TakeShutdown, Rest, client
<1>13. ASSUME NEW s \in Server, Sweep(s) PROVE SparedOK'
  BY <1>13, <1>s DEF Sweep, Rest, client
<1>14. ASSUME NEW v \in VNI, Subscribe(v) PROVE SparedOK'
  BY <1>14, <1>s DEF Subscribe, client
<1>15. ASSUME NEW v \in VNI, Unsubscribe(v) PROVE SparedOK'
  BY <1>15, <1>s DEF Unsubscribe, Caller, client
<1>16. ASSUME NEW v \in VNI, AddRoutesForVni(v) PROVE SparedOK'
  BY <1>16, <1>s DEF AddRoutesForVni, Caller, client
<1>17. ASSUME NEW r \in Mine, AnnounceRoute(r) PROVE SparedOK'
  BY <1>17, <1>s DEF AnnounceRoute, client
<1>18. ASSUME NEW r \in Mine, WithdrawRoute(r) PROVE SparedOK'
  BY <1>18, <1>s DEF WithdrawRoute, client
<1>19. ASSUME UnsubscribePeer PROVE SparedOK'
  BY <1>19, <1>s DEF UnsubscribePeer, Caller, client
<1>20. ASSUME UnsubscribeTable PROVE SparedOK'
  BY <1>20, <1>s DEF UnsubscribeTable, Caller, client
<1>21. ASSUME UnsubscribeReturns PROVE SparedOK'
  BY <1>21, <1>s DEF UnsubscribeReturns, client
<1>22. ASSUME Refill PROVE SparedOK'
  <2>1. proc = "run" /\ UNCHANGED <<proc, unlisted>>
    BY <1>22 DEF Refill, Caller, CleanupOK
  <2>. QED
    BY <1>r, <2>1
<1>23. ASSUME Shutdown PROVE SparedOK'
  <2>1. /\ UNCHANGED <<kernel, unlisted>> /\ unlisted = DOMAIN VNITableMap
        /\ proc = "run" /\ proc' \in {"exit", "cleanup"}
    BY <1>23 DEF Shutdown, Process, client, SparedOK
  <2>2. \A e \in kernel : \E v \in DOMAIN VNITableMap : VNITableMap[v] = e.table
    <3>1. \A r \in routes : Installable(r)
      BY DEF KernelOK
    <3>2. NothingElse
      BY <2>1 DEF KernelOK
    <3>. QED
      BY <3>1, <3>2 DEF NothingElse, Entry, Installable
  <2>. QED
    BY <2>1, <2>2 DEF SparedOK
<1>24. ASSUME CleanupLists PROVE SparedOK'
  <2>1. PICK v \in unlisted : LET found == {k \in Listed : k.table = VNITableMap[v]} IN
          /\ unlisted' = unlisted \ {v}
          /\ \/ listed' = found /\ spared' = spared
             \/ spared' = spared \union found /\ listed' = listed
    BY <1>24 DEF CleanupLists
  <2>2. proc = "cleanup" /\ proc' = proc /\ kernel' = kernel /\ listed = {}
    BY <1>24 DEF CleanupLists
  <2>3. ASSUME NEW e \in kernel, e.table = VNITableMap[v], v \in DOMAIN VNITableMap
        PROVE  Where(e) \in {k \in Listed : k.table = VNITableMap[v]}
    BY <2>3 DEF Listed, Where
  <2>4. v \in DOMAIN VNITableMap
    BY <2>1, <2>2 DEF SparedOK
  <2>. QED
    BY <2>1, <2>2, <2>3, <2>4 DEF SparedOK, Where
<1>25. ASSUME CleanupDeletes PROVE SparedOK'
  <2>1. PICK k \in listed : /\ listed' = listed \ {k}
                            /\ \/ DeleteListed({k}) /\ spared' = spared
                               \/ KernelFails /\ spared' = spared \union {k}
    BY <1>25 DEF CleanupDeletes
  <2>2. proc = "cleanup" /\ proc' = proc /\ unlisted' = unlisted
    BY <1>25 DEF CleanupDeletes
  <2>3. \A e \in kernel' : e \in kernel /\ (Where(e) = k => k \in spared')
    BY <2>1 DEF DeleteListed, KernelFails, Where
  <2>4. spared \subseteq spared'
    BY <2>1
  <2>5. ASSUME NEW e \in kernel'
        PROVE  \/ Where(e) \in listed' \union spared'
               \/ \E v \in unlisted' : VNITableMap[v] = e.table
    BY <2>1, <2>2, <2>3, <2>4 DEF SparedOK
  <2>. QED
    BY <2>2, <2>5 DEF SparedOK, Where
<1>25r. ASSUME CleanupReturns PROVE SparedOK'
  BY <1>25r DEF CleanupReturns, Process, client, SparedOK, Where
<1>26. ASSUME Exit PROVE SparedOK'
  BY <1>26 DEF Exit, Process, client, SparedOK, Where
<1>27. ASSUME UNCHANGED vars PROVE SparedOK'
  BY <1>27, <1>s DEF vars, client
<1>. QED
  BY <1>1, <1>2, <1>3, <1>4, <1>5, <1>6, <1>7, <1>8, <1>9, <1>10, <1>11, <1>12, <1>13,
     <1>14, <1>15, <1>16, <1>17, <1>18, <1>19, <1>20, <1>21, <1>22, <1>23, <1>24,
     <1>25, <1>25r, <1>26, <1>27
  DEF Next, HandlerStep, CallerStep

-----------------------------------------------------------------------------

ReceiverInv == Typed /\ KernelOK /\ RecordsOK /\ CleanupOK /\ InstalledOK /\ SparedOK

LEMMA ReceiverInvariant == Spec => []ReceiverInv
<1>1. Init => ReceiverInv
  <2>1. Init => RecordsOK /\ CleanupOK
    BY DEF Init, RecordsOK, Stored, Backed, CleanupOK, Idle, NoCall
  <2>2. Init => InstalledOK
    BY DEF Init, InstalledOK, Known
  <2>3. Init => SparedOK
    BY DEF Init, SparedOK
  <2>. QED
    BY InitTyped, InitKernel, <2>1, <2>2, <2>3 DEF ReceiverInv
<1>2. ReceiverInv /\ [Next]_vars => ReceiverInv'
  BY StepTyped, StepKeepsKernel, StepKeepsRecords, StepKeepsCleanup, StepKeepsInstalled,
     StepKeepsSpared
  DEF ReceiverInv
<1>. QED
  BY <1>1, <1>2, PTL DEF Spec

\* When the handlers rest and no call is under way, the record of each connection
\* and the table agree, up to the routes that were skipped for the node's own
\* (metalbond.go 329-332) and the ones of which Unsubscribe met one of the
\* handler's two writes only (peer.go 549 and 555).
THEOREM RecordsFollowTable == Spec => []RecordsAgree
<1>1. ReceiverInv => RecordsAgree
  BY DEF ReceiverInv, Typed, RecordsOK, Stored, Backed, Pending, RecordsAgree, Quiet, Resting
<1>. QED
  BY <1>1, ReceiverInvariant, PTL

\* When nothing is under way, c.routes has exactly the routes of the table that
\* can be installed, up to the ones Unsubscribe, a refill or a failing call left
\* there and the ones the kernel refused or another server took along.
THEOREM InstalledRoutesAreKnown == Spec => []InstalledIsKnown
<1>1. ReceiverInv => InstalledIsKnown
  <2>. SUFFICES ASSUME ReceiverInv, Quiet
                PROVE  /\ routes \subseteq Known \union left
                       /\ \A r \in Known : Installable(r) => r \in routes \/ r \in missing
    BY DEF InstalledIsKnown
  <2>1. routes \subseteq Route /\ Known \subseteq Route
    BY DEF ReceiverInv, Typed, Known
  <2>2. \A r : ~On("install", r) /\ ~On("uninstall", r)
    BY DEF Quiet, Resting, On
  <2>. QED
    BY <2>1, <2>2 DEF ReceiverInv, InstalledOK
<1>. QED
  BY <1>1, ReceiverInvariant, PTL

\* The cleanup after a lost connection has removed the routes of the server from
\* its record and from the table, unless Unsubscribe made it give up or came
\* between the two writes of its handler (peer.go 246-262).
THEOREM CleanupIsComplete == Spec => []LostServerLeavesNothing
<1>1. ReceiverInv => LostServerLeavesNothing
  BY DEF ReceiverInv, RecordsOK, Backed, Pending, CleanupOK, LostServerLeavesNothing
<1>. QED
  BY <1>1, ReceiverInvariant, PTL

\* Whatever a process that has ended with Cleanup leaves in the kernel was written while
\* Cleanup was at work or after it, or is what Cleanup could not delete; and its table,
\* destination and hop are those of a route of c.routes, that a handler had still to
\* remove when main returned (main.go 290-298), or that a failing call or Unsubscribe has
\* kept from the handlers.  Handlers write to the kernel what c.routes has, and nothing
\* that Cleanup has deleted comes back without them.
THEOREM ExitIsClean == Spec => []CleanExit
<1>1. ReceiverInv => CleanExit
  <2>. SUFFICES ASSUME ReceiverInv, proc = "exited", NEW e \in kernel
                PROVE  /\ Where(e) \in spared
                       /\ \E r \in routes :
                             /\ e = [table |-> Key(r).table, dest |-> r.dest, hop |-> r.hop]
                             /\ \/ r \in left \union {x[1] : x \in crossed}
                                \/ \E s \in Server : ToHandle(s, r)
                                \/ \E s \in abandoned : r \in recv[s]
    BY DEF CleanExit
  <2>1. PICK r \in routes : e = [table |-> Key(r).table, dest |-> r.dest, hop |-> r.hop]
    <3>1. PICK q \in routes : \E k \in Kept(Siblings(routes, q)) : e = Entry(q, k)
      BY DEF ReceiverInv, KernelOK, NothingElse
    <3>2. PICK k \in Kept(Siblings(routes, q)) : e = Entry(q, k)
      BY <3>1
    <3>3. PICK r \in Siblings(routes, q) : r.hop = k
      BY KeptIsHop
    <3>4. r \in routes /\ r.vni = q.vni /\ r.dest = q.dest
      BY DEF Siblings
    <3>. QED
      BY <3>2, <3>3, <3>4 DEF Entry, Key
  <2>2. r \in Route /\ (r \in Known \/ r \in left \/ On("uninstall", r))
    BY DEF ReceiverInv, Typed, InstalledOK
  <2>3. CASE On("uninstall", r)
    <3>1. \E s \in Server : ToHandle(s, r)
      BY <2>3 DEF On, ToHandle
    <3>. QED
      BY <2>1, <3>1 DEF ReceiverInv, SparedOK
  <2>4. CASE r \in Known
    <3>0. PICK x \in table : r = x[1]
      BY <2>4 DEF Known
    <3>a. x \in Route \X Server
      BY DEF ReceiverInv, Typed
    <3>b. x = <<x[1], x[2]>> /\ x[2] \in Server
      BY <3>a
    <3>1. PICK s \in Server : <<r, s>> \in table
      BY <3>0, <3>b
    <3>2. \/ r \in recv[s] \/ <<r, s>> \in crossed
          \/ h[s].pc = "delete" /\ h[s].route = r
      BY <2>2, <3>1 DEF ReceiverInv, Typed, RecordsOK, Backed, Pending, CleanupOK
    <3>3. r \in recv[s] /\ h[s].pc = "ended" => s \in abandoned
      BY DEF ReceiverInv, CleanupOK
    <3>4. <<r, s>> \in crossed => r \in {y[1] : y \in crossed}
      OBVIOUS
    <3>5. \/ r \in left \union {y[1] : y \in crossed}
          \/ ToHandle(s, r)
          \/ s \in abandoned /\ r \in recv[s]
      BY <3>2, <3>3, <3>4 DEF ToHandle
    <3>. QED
      BY <2>1, <3>5 DEF ReceiverInv, SparedOK
  <2>5. CASE r \in left
    BY <2>1, <2>5 DEF ReceiverInv, SparedOK
  <2>. QED
    BY <2>2, <2>3, <2>4, <2>5
<1>. QED
  BY <1>1, ReceiverInvariant, PTL
=============================================================================
