------------------------------ MODULE Receiver ------------------------------
(***************************************************************************)
(* A client and the routes its servers send it: receivedRoutes of each     *)
(* connection, the node's route table, the routes installed through        *)
(* Netlink.  The handler of each connection works on the UPDATEs while one *)
(* caller of the node subscribes, unsubscribes, announces, withdraws and   *)
(* refills (metalbond.go 114-212, 281-381; peer.go 96-134, 232-263,        *)
(* 544-573), connections are lost, and the process starts on what an       *)
(* earlier one left in the kernel and ends or dies (main.go 112-298).      *)
(* When main returns the process ends, with whatever its handlers had      *)
(* still to do.                                                            *)
(*                                                                         *)
(* A server is what it does to the client: it sends the changes of the     *)
(* VNIs it takes the client to be subscribed to.  SUBSCRIBE and            *)
(* UNSUBSCRIBE come through different channels there and are handled in    *)
(* any order.                                                              *)
(***************************************************************************)
EXTENDS Netlink, Sequences

CONSTANTS Server,
          VNI,
          Mine,         \* routes the client may announce itself
          Offer,        \* Offer[s]: routes server s may send
          MaxUpdates,   \* bound: UPDATEs of all servers
          MaxCalls,     \* bound: calls of the node's methods
          MaxLosses,    \* bound: connections lost
          MaxFailures   \* bound: kernel calls that fail

ASSUME ReceiverAssumption ==
    /\ Server # {} /\ Route # {}
    /\ Mine \subseteq Route /\ Offer \in [Server -> SUBSET (Route \ Mine)]
    /\ \A r \in Route : r.vni \in VNI
    /\ {MaxUpdates, MaxCalls, MaxLosses, MaxFailures} \subseteq Nat

VARIABLES subs,    \* m.mySubscriptions
          mine,    \* m.myAnnouncements
          table,   \* m.routeTable: pairs of a route and the server it is from
          ghosts,  \* routes m.routeTable lists although it has no server for them
          recv,    \* receivedRoutes of each connection
          link,    \* each connection: up or not, UPDATEs and requests on their way,
                   \* and the server's end: VNIs served, routes told
          h,       \* each handler: its place, route and sweep, whether in cleanup
          c,       \* the caller: its place, the VNI, server and servers left, its sweep
          proc,    \* the process
          listed,  \* what Cleanup has listed and not yet deleted
          unlisted, \* the VNIs whose tables Cleanup has still to list
          budget   \* what is left of the bounds

\* History: why the tables may differ.
VARIABLES skipped,    \* pairs not stored since the node announces the destination
          crossed,    \* pairs of which Unsubscribe met one of the handler's two writes only
          abandoned,  \* servers whose cleanup gave up
          left,       \* routes installed that the table lost, or never had
          missing,    \* routes the kernel refused, or that went with one of two servers
          spared      \* what Cleanup could not delete, or a handler wrote meanwhile

client == <<routes, kernel, spared>>
why == <<skipped, crossed, abandoned, left, missing>>
vars == <<client, subs, mine, table, ghosts, recv, link, h, c, proc, listed, unlisted, budget, why>>

OfVNI(R, v) == {r \in R : r.vni = v}
Known == {e[1] : e \in table}
InTable == Known \union ghosts     \* what the readers of the table return
Up == {s \in Server : link[s].up}
Idle == [pc |-> "idle", route |-> CHOOSE r \in Route : TRUE, todo |-> {}, clean |-> FALSE]
NoCall == [pc |-> "idle", vni |-> CHOOSE v \in VNI : TRUE, server |-> CHOOSE s \in Server : TRUE,
           servers |-> {}, todo |-> {}]
Connected(vnis) ==
    [up |-> TRUE, chan |-> <<>>, req |-> {"SUBSCRIBE"} \X vnis, served |-> {}, told |-> {}]

\* The kernel has whatever an earlier process left there.
Init ==
    /\ routes = {}
    /\ kernel \in SUBSET {[table |-> Key(r).table, dest |-> r.dest, hop |-> r.hop] :
                             r \in {r \in Route : Installable(r)}}
    /\ subs = VNI /\ mine = {} /\ table = {} /\ ghosts = {}
    /\ recv = [s \in Server |-> {}]
    /\ link = [s \in Server |-> Connected(VNI)]
    /\ h = [s \in Server |-> Idle] /\ c = NoCall
    /\ proc = "start" /\ listed = {} /\ unlisted = DOMAIN VNITableMap
    /\ budget = [updates |-> MaxUpdates, calls |-> MaxCalls, losses |-> MaxLosses,
                 failures |-> MaxFailures]
    /\ skipped = {} /\ crossed = {} /\ abandoned = {} /\ left = {} /\ missing = {} /\ spared = {}

Alive == proc \notin {"start", "off", "exited"}

\* Stale routes are removed first; the process does not start when that fails.
NewNetlinkClient ==
    /\ proc = "start"
    /\ \/ DeleteListed(Listed) /\ proc' = "run"
       \/ KernelFails /\ proc' = "off"
    /\ UNCHANGED <<subs, mine, table, ghosts, recv, link, h, c, listed, unlisted, budget, why, spared>>

-----------------------------------------------------------------------------
(* The servers and the connections.                                        *)

World(s, l) ==
    /\ link' = [link EXCEPT ![s] = l]
    /\ UNCHANGED <<client, subs, mine, table, ghosts, recv, c, proc, listed, unlisted, why>>

ServerUpdates(s) ==
    /\ proc = "run" /\ link[s].up /\ budget.updates > 0
    /\ \E r \in Offer[s] :
         /\ r.vni \in link[s].served
         /\ LET add == r \notin link[s].told
            IN  World(s, [link[s] EXCEPT
                    !.chan = Append(@, [action |-> IF add THEN "ADD" ELSE "REMOVE", route |-> r]),
                    !.told = IF add THEN @ \union {r} ELSE @ \ {r}])
    /\ budget' = [budget EXCEPT !.updates = @ - 1]
    /\ UNCHANGED h

\* Routes of a VNI are forgotten with the subscription.
ServerHandles(s) ==
    /\ proc = "run" /\ link[s].up
    /\ \E q \in link[s].req :
         World(s, [link[s] EXCEPT
             !.req = @ \ {q},
             !.served = IF q[1] = "SUBSCRIBE" THEN @ \union {q[2]} ELSE @ \ {q[2]},
             !.told = IF q[1] = "SUBSCRIBE" THEN @ ELSE @ \ OfVNI(@, q[2])])
    /\ UNCHANGED <<h, budget>>

\* The handler will be told to clean up.  It may find UPDATEs first.
Lose(s) ==
    /\ proc = "run" /\ link[s].up /\ budget.losses > 0
    /\ World(s, [link[s] EXCEPT !.up = FALSE, !.req = {}])
    /\ budget' = [budget EXCEPT !.losses = @ - 1]
    /\ UNCHANGED h

\* A new connection has new channels, and asks for everything subscribed to;
\* Unsubscribe holds the lock of the subscriptions.
Reconnect(s) ==
    /\ proc = "run" /\ ~link[s].up /\ h[s].pc = "ended" /\ c.pc \notin {"recv", "table"}
    /\ World(s, Connected(subs))
    /\ h' = [h EXCEPT ![s] = Idle]
    /\ UNCHANGED budget

-----------------------------------------------------------------------------
(* The handler of a connection: processRxUpdate, addReceivedRoute,         *)
(* removeReceivedRoute and cleanup.                                        *)

At(s, pc) == Alive /\ h[s].pc = pc
Goto(s, pc) == h' = [h EXCEPT ![s].pc = pc]
Finish(s) == Goto(s, IF h[s].clean THEN "sweep" ELSE "idle")
Rest == <<subs, mine, link, c, proc, listed, unlisted>>

\* What is there already, or is not there to be removed, ends the handling.
TakeUpdate(s) ==
    /\ At(s, "idle") /\ link[s].chan # <<>>
    /\ LET m == Head(link[s].chan) IN
       LET stale == (m.action = "ADD") = (m.route \in recv[s]) IN
         /\ recv' = [recv EXCEPT ![s] = IF stale THEN @
                        ELSE IF m.action = "ADD" THEN @ \union {m.route} ELSE @ \ {m.route}]
         /\ h' = [h EXCEPT ![s].route = m.route,
                           ![s].pc = IF stale THEN "idle"
                                     ELSE IF m.action = "ADD" THEN "check" ELSE "delete"]
         /\ skipped' = IF m.action = "REMOVE" THEN skipped \ {<<m.route, s>>} ELSE skipped
    /\ link' = [link EXCEPT ![s].chan = Tail(@)]
    /\ UNCHANGED <<client, subs, mine, table, ghosts, c, proc, listed, unlisted, budget, crossed,
                   abandoned, left, missing>>

\* A STANDARD route to a destination the node announces itself is not stored.
Check(s) ==
    /\ At(s, "check")
    /\ LET r == h[s].route IN
       IF r.type = "STANDARD" /\ Siblings(mine, r) # {}
         THEN skipped' = skipped \union {<<r, s>>} /\ Finish(s)
         ELSE Goto(s, "store") /\ UNCHANGED skipped
    /\ UNCHANGED <<client, table, ghosts, recv, Rest, budget, crossed, abandoned, left, missing>>

Store(s) ==
    /\ At(s, "store")
    /\ LET e == <<h[s].route, s>> IN
         /\ table' = table \union {e} /\ ghosts' = ghosts \ {h[s].route}
         /\ IF e \in table THEN Finish(s) ELSE Goto(s, "install")
         /\ crossed' = IF h[s].route \in recv[s] THEN crossed \ {e} ELSE crossed \union {e}
    /\ UNCHANGED <<client, recv, Rest, budget, skipped, abandoned, left, missing>>

\* The routes of the kernel that a step changes while Cleanup is at work, or after it.
Where(e) == [table |-> e.table, dest |-> e.dest]
WrittenLate ==
    IF proc \in {"cleanup", "clean"}
      THEN spared \union {Where(e) : e \in (kernel' \ kernel) \union (kernel \ kernel')}
      ELSE spared

Install(s) ==
    /\ At(s, "install")
    /\ LET r == h[s].route IN
         /\ \/ /\ AddRoute(r)
               /\ left' = IF r \in Known THEN left ELSE left \union {r}
               /\ missing' = missing \ {r} /\ UNCHANGED budget
            \/ /\ budget.failures > 0 /\ Installable(r) /\ r \notin routes
               /\ KernelFails
               /\ budget' = [budget EXCEPT !.failures = @ - 1]
               /\ missing' = missing \union {r} /\ UNCHANGED left
         /\ spared' = WrittenLate
         /\ Finish(s)
    /\ UNCHANGED <<table, ghosts, recv, Rest, skipped, crossed, abandoned>>

\* Mutant of Delete: cleanup does not tell the Client.
DeleteUntold(s) ==
    /\ At(s, "delete")
    /\ LET e == <<h[s].route, s>> IN
         /\ table' = table \ {e}
         /\ IF e \in table /\ ~h[s].clean THEN Goto(s, "uninstall") ELSE Finish(s)
    /\ UNCHANGED <<client, ghosts, recv, Rest, budget, why>>

Delete(s) ==
    /\ At(s, "delete")
    /\ LET e == <<h[s].route, s>> IN
         /\ table' = table \ {e}
         /\ IF e \in table THEN Goto(s, "uninstall") ELSE Finish(s)
    /\ UNCHANGED <<client, ghosts, recv, Rest, budget, why>>

\* Also when another server still has the route.
Uninstall(s) ==
    /\ At(s, "uninstall")
    /\ LET r == h[s].route IN
         /\ \/ /\ ~DeleteFails(r) /\ RemoveRoute(r)
               /\ left' = left \ {r}
               /\ missing' = IF r \in Known THEN missing \union {r} ELSE missing \ {r}
               /\ UNCHANGED budget
            \/ /\ DeleteFails(r) \/ budget.failures > 0
               /\ Installable(r) /\ r \in routes
               /\ KernelFails
               /\ budget' = [budget EXCEPT !.failures = IF DeleteFails(r) THEN @ ELSE @ - 1]
               /\ left' = left \union {r} /\ UNCHANGED missing
         /\ spared' = WrittenLate
         /\ Finish(s)
    /\ UNCHANGED <<table, ghosts, recv, Rest, skipped, crossed, abandoned>>

\* Mutant of TakeShutdown: cleanup goes through the VNIs the node subscribes to.
SweepSubscribed(s) ==
    /\ At(s, "idle") /\ ~link[s].up
    /\ h' = [h EXCEPT ![s].pc = "sweep", ![s].todo = {r \in recv[s] : r.vni \in subs}, ![s].clean = TRUE]
    /\ UNCHANGED <<client, table, ghosts, recv, Rest, budget, why>>

TakeShutdown(s) ==
    /\ At(s, "idle") /\ ~link[s].up
    /\ h' = [h EXCEPT ![s].pc = "sweep", ![s].todo = recv[s], ![s].clean = TRUE]
    /\ UNCHANGED <<client, table, ghosts, recv, Rest, budget, why>>

\* cleanup gives up at a route that Unsubscribe has removed in the meantime.
Sweep(s) ==
    /\ At(s, "sweep")
    /\ \/ h[s].todo = {} /\ Goto(s, "ended") /\ UNCHANGED <<recv, skipped, abandoned>>
       \/ \E r \in h[s].todo :
            IF r \in recv[s]
              THEN /\ recv' = [recv EXCEPT ![s] = @ \ {r}]
                   /\ h' = [h EXCEPT ![s].pc = "delete", ![s].route = r, ![s].todo = @ \ {r}]
                   /\ skipped' = skipped \ {<<r, s>>}
                   /\ UNCHANGED abandoned
              ELSE Goto(s, "ended") /\ abandoned' = abandoned \union {s} /\ UNCHANGED <<recv, skipped>>
    /\ UNCHANGED <<client, table, ghosts, Rest, budget, crossed, left, missing>>

-----------------------------------------------------------------------------
(* The caller.                                                             *)

Called == budget.calls > 0 /\ budget' = [budget EXCEPT !.calls = @ - 1]

\* The loop over the peers ends at one that is not connected.
Subscribe(v) ==
    /\ proc = "run" /\ c.pc = "idle" /\ v \notin subs /\ Called
    /\ subs' = subs \union {v}
    /\ \E S \in SUBSET Up :
         /\ Up = Server => S = Server
         /\ link' = [s \in Server |-> IF s \in S
                        THEN [link[s] EXCEPT !.req = @ \union {<<"SUBSCRIBE", v>>}] ELSE link[s]]
    /\ UNCHANGED <<client, mine, table, ghosts, recv, h, c, proc, listed, unlisted, why>>

Caller(d) ==
    /\ c' = d
    /\ UNCHANGED <<subs, mine, h, proc, listed, unlisted, skipped, abandoned>>

Unsubscribe(v) ==
    /\ proc = "run" /\ c.pc = "idle" /\ v \in subs /\ Called
    /\ \E s \in Server :
         Caller([pc |-> "recv", vni |-> v, server |-> s, servers |-> Server \ {s},
                 todo |-> OfVNI(recv[s], v)])
    /\ UNCHANGED <<client, table, ghosts, recv, link, crossed, left, missing>>

\* The sweep of receivedRoutes; then the request, and what the table has now.
UnsubscribePeer ==
    /\ Alive /\ c.pc = "recv"
    /\ \/ \E r \in c.todo :
            /\ recv' = [recv EXCEPT ![c.server] = @ \ {r}]
            /\ Caller([c EXCEPT !.todo = @ \ {r}])
            /\ UNCHANGED <<link, crossed>>
       \/ /\ c.todo = {}
          /\ link' = [link EXCEPT ![c.server].req =
                        IF link[c.server].up THEN @ \union {<<"UNSUBSCRIBE", c.vni>>} ELSE @]
          /\ Caller([c EXCEPT !.pc = "table", !.todo = OfVNI(InTable, c.vni)])
          /\ UNCHANGED <<recv, crossed>>
    /\ UNCHANGED <<client, table, ghosts, budget, left, missing>>

\* Mutant of UnsubscribeTable: routes of every server are removed.
UnsubscribeAll ==
    /\ Alive /\ c.pc = "table"
    /\ \/ \E r \in c.todo :
            /\ table' = {e \in table : e[1] # r}
            /\ left' = left \union {r}
            /\ crossed' = IF r \in recv[c.server] THEN crossed \union {<<r, c.server>>}
                          ELSE crossed \ {<<r, c.server>>}
            /\ Caller([c EXCEPT !.todo = @ \ {r}])
       \/ /\ c.todo = {} /\ UNCHANGED <<table, left, crossed>>
          /\ \E s \in c.servers :
               Caller([c EXCEPT !.pc = "recv", !.server = s, !.servers = @ \ {s},
                                !.todo = OfVNI(recv[s], c.vni)])
    /\ UNCHANGED <<client, ghosts, recv, link, budget, missing>>

\* The sweep of the table leaves the Client alone.  Asking for a route that the table
\* has lost since lists it again.  Then the next server.
UnsubscribeTable ==
    /\ Alive /\ c.pc = "table"
    /\ \/ \E r \in c.todo :
            /\ table' = table \ {<<r, c.server>>}
            /\ ghosts' = IF r \in Known THEN ghosts ELSE ghosts \union {r}
            /\ left' = IF <<r, c.server>> \in table THEN left \union {r} ELSE left
            /\ crossed' = IF r \in recv[c.server] THEN crossed \union {<<r, c.server>>}
                          ELSE crossed \ {<<r, c.server>>}
            /\ Caller([c EXCEPT !.todo = @ \ {r}])
       \/ /\ c.todo = {} /\ UNCHANGED <<table, ghosts, left, crossed>>
          /\ \E s \in c.servers :
               Caller([c EXCEPT !.pc = "recv", !.server = s, !.servers = @ \ {s},
                                !.todo = OfVNI(recv[s], c.vni)])
    /\ UNCHANGED <<client, recv, link, budget, missing>>

UnsubscribeReturns ==
    /\ Alive /\ c.pc = "table" /\ c.todo = {} /\ c.servers = {}
    /\ subs' = subs \ {c.vni} /\ c' = NoCall
    /\ UNCHANGED <<client, mine, table, ghosts, recv, link, h, proc, listed, unlisted, budget, why>>

AnnounceRoute(r) ==
    /\ proc = "run" /\ c.pc = "idle" /\ r \notin mine /\ Called
    /\ mine' = mine \union {r}
    /\ UNCHANGED <<client, subs, table, ghosts, recv, link, h, c, proc, listed, unlisted, why>>

WithdrawRoute(r) ==
    /\ proc = "run" /\ c.pc = "idle" /\ r \in mine /\ Called
    /\ mine' = mine \ {r}
    /\ UNCHANGED <<client, subs, table, ghosts, recv, link, h, c, proc, listed, unlisted, why>>

AddRoutesForVni(v) ==
    /\ proc = "run" /\ c.pc = "idle" /\ Called
    /\ Caller([NoCall EXCEPT !.pc = "refill", !.vni = v, !.todo = OfVNI(InTable, v)])
    /\ UNCHANGED <<client, table, ghosts, recv, link, crossed, left, missing>>

\* Routes of the table as it was, then the node's own; an error ends the call.
Refill ==
    /\ Alive /\ c.pc \in {"refill", "refillMine"}
    /\ \/ \E r \in c.todo :
            \/ /\ AddRoute(r)
               /\ IF r.vni \in DOMAIN VNITableMap THEN Caller([c EXCEPT !.todo = @ \ {r}]) ELSE Caller(NoCall)
               /\ left' = IF r \in Known THEN left ELSE left \union {r}
               /\ missing' = missing \ {r} /\ UNCHANGED budget
            \/ /\ budget.failures > 0 /\ Installable(r) /\ r \notin routes
               /\ KernelFails /\ Caller(NoCall)
               /\ budget' = [budget EXCEPT !.failures = @ - 1] /\ UNCHANGED <<left, missing>>
       \/ /\ c.todo = {} /\ UNCHANGED <<routes, kernel, budget, left, missing>>
          /\ Caller(IF c.pc = "refill" THEN [c EXCEPT !.pc = "refillMine", !.todo = OfVNI(mine, c.vni)]
                    ELSE NoCall)
    /\ UNCHANGED <<table, ghosts, recv, link, crossed, spared>>

-----------------------------------------------------------------------------
(* The end of the process.                                                 *)

Process(here, there) == proc = here /\ proc' = there
Others == <<subs, mine, table, ghosts, recv, h, c, why>>

\* Shutdown closes the connections and does not wait for their handlers.  Cleanup
\* follows when main was asked for it.
Shutdown ==
    /\ Process("run", "exit") \/ Process("run", "cleanup")
    /\ c.pc = "idle"
    /\ link' = [s \in Server |-> [link[s] EXCEPT !.up = FALSE, !.req = {}]]
    /\ UNCHANGED <<client, listed, unlisted, budget, Others>>

\* One table after the other is listed and emptied, and an error is no reason to stop.
CleanupLists ==
    /\ proc = "cleanup" /\ listed = {}
    /\ \E v \in unlisted :
         LET found == {k \in Listed : k.table = VNITableMap[v]} IN
         /\ unlisted' = unlisted \ {v}
         /\ \/ listed' = found /\ UNCHANGED <<spared, budget>>
            \/ /\ budget.failures > 0
               /\ budget' = [budget EXCEPT !.failures = @ - 1]
               /\ spared' = spared \union found /\ UNCHANGED listed
    /\ UNCHANGED <<routes, kernel, link, proc, Others>>

\* RouteDel may not find a route that was written anew since it was listed.
CleanupDeletes ==
    /\ proc = "cleanup"
    /\ \E k \in listed :
         /\ listed' = listed \ {k}
         /\ \/ DeleteListed({k}) /\ UNCHANGED <<spared, budget>>
            \/ /\ k \in spared \/ budget.failures > 0
               /\ KernelFails /\ spared' = spared \union {k}
               /\ budget' = [budget EXCEPT !.failures = IF k \in spared THEN @ ELSE @ - 1]
    /\ UNCHANGED <<link, proc, unlisted, Others>>

CleanupReturns ==
    /\ Process("cleanup", "clean") /\ unlisted = {} /\ listed = {}
    /\ UNCHANGED <<client, link, listed, unlisted, budget, Others>>

\* main returns: no handler takes another step.  What a process that is killed
\* leaves behind is in Init.
Exit ==
    /\ Process("exit", "off") \/ Process("clean", "exited")
    /\ UNCHANGED <<client, link, listed, unlisted, budget, Others>>

-----------------------------------------------------------------------------

HandlerStep(s) ==
    \/ TakeUpdate(s) \/ Check(s) \/ Store(s) \/ Install(s) \/ Delete(s) \/ Uninstall(s)
    \/ TakeShutdown(s) \/ Sweep(s)
CallerStep == UnsubscribePeer \/ UnsubscribeTable \/ UnsubscribeReturns \/ Refill

Next ==
    \/ NewNetlinkClient
    \/ \E s \in Server :
         ServerUpdates(s) \/ ServerHandles(s) \/ Lose(s) \/ Reconnect(s) \/ HandlerStep(s)
    \/ \E v \in VNI : Subscribe(v) \/ Unsubscribe(v) \/ AddRoutesForVni(v)
    \/ \E r \in Mine : AnnounceRoute(r) \/ WithdrawRoute(r)
    \/ CallerStep
    \/ Shutdown \/ CleanupLists \/ CleanupDeletes \/ CleanupReturns \/ Exit

Spec == Init /\ [][Next]_vars

-----------------------------------------------------------------------------
(* Properties.                                                             *)

Resting(s) == h[s].pc \in {"idle", "ended"}
Quiet == proc = "run" /\ c.pc = "idle" /\ \A s \in Server : Resting(s)

\* Through every order of additions and removals, failing calls included, the
\* kernel has of each destination the first hops of c.routes and nothing else,
\* from the moment the process runs: what an earlier process left is gone
\* (netlink.go 52-56, 80-96, 119-135).
KernelFollowsRoutes ==
    proc = "run" =>
        kernel = UNION {{[table |-> Key(r).table, dest |-> r.dest, hop |-> k] :
                            k \in Kept(Siblings(routes, r))} : r \in routes}

\* A connection's record and the table agree once its handler rests.  They may
\* differ where a STANDARD route was skipped (metalbond.go 329-332), or where
\* Unsubscribe ran between the handler's two writes (peer.go 549 and 555).
RecordsAgree ==
    \A s \in Server : Quiet =>
        /\ \A r \in recv[s] : <<r, s>> \in table \union skipped \union crossed
        /\ \A r \in Route : <<r, s>> \in table => r \in recv[s] \/ <<r, s>> \in crossed

\* What is installed is in the table and the other way round.  A route stays
\* installed without being in the table only when Unsubscribe or a failing call
\* left it or a refill put it there (metalbond.go 157-166, 282-302); it is missing only
\* when the kernel refused it or another server took it along (375).
InstalledIsKnown ==
    Quiet =>
        /\ routes \subseteq Known \union left
        /\ \A r \in Known : Installable(r) => r \in routes \/ r \in missing

\* The cleanup after a lost connection leaves nothing of the server's routes,
\* unless Unsubscribe interfered (peer.go 246-262).
LostServerLeavesNothing ==
    \A s \in Server : Alive /\ c.pc = "idle" /\ h[s].pc = "ended" /\ s \notin abandoned =>
        /\ recv[s] = {}
        /\ \A r \in Route : <<r, s>> \in table => <<r, s>> \in crossed

\* Handler s has still to remove r, or to go on with it.
ToHandle(s, r) == h[s].pc # "ended" /\ (r \in recv[s] \/ r = h[s].route)

\* What a process that has ended with Cleanup leaves in the kernel was written by a
\* handler while Cleanup was at work or after it, or is what Cleanup could not delete
\* (netlink.go 159-170); and it is a route that c.routes has, with its table and
\* destination, that a handler would have removed had main not returned before it
\* (main.go 290-298), or that a failing call or Unsubscribe has kept from the handlers,
\* or that was not reached when Unsubscribe made a handler give up.
CleanExit ==
    proc = "exited" =>
        \A e \in kernel :
            /\ Where(e) \in spared
            /\ \E r \in routes :
                  /\ e = [table |-> Key(r).table, dest |-> r.dest, hop |-> r.hop]
                  /\ \/ r \in left \union {x[1] : x \in crossed}
                     \/ \E s \in Server : ToHandle(s, r)
                     \/ \E s \in abandoned : r \in recv[s]

\* What the flag says: "Cleanup routes upon exit" (cmd/metalbond/main.go:47).
CleanupUponExit == proc = "exited" => kernel = {}
=============================================================================
