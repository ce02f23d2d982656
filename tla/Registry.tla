------------------------------ MODULE Registry ------------------------------
(***************************************************************************)
(* The map of peers of a node, m.peers, by address (metalbond.go 65-99 and *)
(* 468-527), with everybody who changes it: the goroutine that accepts     *)
(* connections, the Resets of incoming peers, callers of AddPeer and       *)
(* RemovePeer, and Shutdown.                                               *)
(*                                                                         *)
(* The map is locked for one access at a time, so an access is an action,  *)
(* and a peer is looked up, closed and deleted in several.  A peer object  *)
(* is open or CLOSED here; what closing does to its goroutines is in       *)
(* PeerSession.  Its channels are nil until its handle() has run: Close    *)
(* then waits for ever (peer.go 579).  Before that it waits for            *)
(* mtxSubscribers, to drop the subscriptions of the peer (peer.go 190-211),*)
(* which may be held for good (modules Distribution and Backpressure).     *)
(*                                                                         *)
(* A connection may end, and its address be used again by another, before  *)
(* the node has noticed.                                                   *)
(***************************************************************************)
EXTENDS Naturals, FiniteSets

CONSTANTS Incoming,   \* the connections that clients open, one peer object each
          Failing,    \* bound: those of them that break
          Outgoing,   \* the peer objects that AddPeer makes
          Addr,       \* remote addresses
          AddrOf,     \* the address of each peer object, not its alone
          Caller      \* the goroutines that call RemovePeer

Object == Incoming \cup Outgoing
None == "none"

Main == "main"                                 \* the goroutine that calls Shutdown
Remover == Incoming \cup Caller \cup {Main}    \* a Reset is named after its peer

ASSUME RegistryAssumption ==
    /\ AddrOf \in [Object -> Addr] /\ Addr # {}
    /\ Failing \subseteq Incoming /\ Incoming \cap Outgoing = {}
    /\ None \notin Object
    /\ Incoming \cap Caller = {} /\ Main \notin Incoming \cup Caller

VARIABLES peers,      \* m.peers
          life,       \* each peer object: not there yet, "open" or "closed"
          made,       \* the objects whose handle() has made its channels
          isServer,   \* m.isServer, set by StartServer
          flag,       \* m.shuttingDown
          listening,  \* the listener is open
          acc,        \* where the accepting goroutine is
          new,        \* the connection it holds
          at,         \* where each goroutine that removes peers is
          addr, who,  \* the address it works on, and the peer it found there
          todo,       \* the addresses Shutdown has still to remove
          jammed,     \* mtxSubscribers is held for good
          doubled,    \* history: the addresses two of them were removing at once
          reused      \* history: the addresses used again while an earlier peer was there

accVars == <<acc, new, listening>>
history == <<doubled, reused>>
vars == <<peers, life, made, isServer, flag, accVars, at, addr, who, todo, jammed, history>>

\* A server, on which StartServer has been called, or a client.
Init ==
    /\ peers = [a \in Addr |-> None]
    /\ life = [o \in Object |-> "none"]
    /\ made = {}
    /\ isServer \in BOOLEAN /\ listening = isServer
    /\ acc = (IF isServer THEN "accept" ELSE "ended") /\ new = None
    /\ flag = FALSE
    /\ at = [t \in Remover |-> "idle"]
    /\ addr = [t \in Remover |-> IF t \in Incoming THEN AddrOf[t] ELSE CHOOSE a \in Addr : TRUE]
    /\ who = [t \in Remover |-> None]
    /\ todo = {} /\ jammed = FALSE /\ doubled = {} /\ reused = {}

\* The goroutine of handle() makes the channels of a new object.
Run(o) ==
    /\ life[o] # "none" /\ o \notin made
    /\ made' = made \cup {o}
    /\ UNCHANGED <<peers, life, isServer, flag, accVars, at, addr, who, todo, jammed, history>>

\* The handler of a second SUBSCRIBE returns with mtxSubscribers held, or a distribution
\* holds it and waits for ever for a peer that is gone: the runs distribution_twice and
\* backpressure have the steps.
Jam(o) ==
    /\ isServer /\ o \in made
    /\ jammed' = TRUE
    /\ UNCHANGED <<peers, life, made, isServer, flag, accVars, at, addr, who, todo, history>>

-----------------------------------------------------------------------------
(* StartServer's goroutine, and AddPeer.                                   *)

Accept(o) ==
    /\ acc = "accept" /\ listening
    /\ life[o] = "none"
    /\ acc' = "check" /\ new' = o
    /\ UNCHANGED <<peers, life, made, isServer, flag, listening, at, addr, who, todo, jammed, history>>

AcceptFails ==
    /\ acc = "accept" /\ ~listening
    /\ acc' = "ended"
    /\ UNCHANGED <<peers, life, made, isServer, flag, new, listening, at, addr, who, todo, jammed, history>>

\* t closes its own peer and then looks for it; t has found a peer and not yet deleted
\* its entry.
Coming(t) == at[t] \in {"reset", "close1", "set1", "drop1", "look"}
Working(t) == at[t] \in {"close", "set", "drop", "send", "delete"}

\* An earlier peer of this address is registered, or is being removed.
Taken(a) ==
    peers[a] # None \/ \E t \in Remover : addr[t] = a /\ (Coming(t) \/ Working(t))

\* The new peer's goroutines run before it is in the map.
NewPeer ==
    /\ acc = "check"
    /\ \/ flag /\ acc' = "ended" /\ UNCHANGED <<life, reused>>
       \/ /\ ~flag
          /\ acc' = "register" /\ life' = [life EXCEPT ![new] = "open"]
          /\ reused' = IF Taken(AddrOf[new]) THEN reused \cup {AddrOf[new]} ELSE reused
    /\ UNCHANGED <<peers, made, isServer, flag, new, listening, at, addr, who, todo, jammed, doubled>>

\* Whatever was registered at the address.
Register ==
    /\ acc = "register"
    /\ peers' = [peers EXCEPT ![AddrOf[new]] = new]
    /\ acc' = "accept" /\ new' = None
    /\ UNCHANGED <<life, made, isServer, flag, listening, at, addr, who, todo, jammed, history>>

\* An address that is registered is refused.  Clients add peers, before Shutdown.
AddPeer(o) ==
    /\ life[o] = "none" /\ ~isServer /\ ~flag
    /\ peers[AddrOf[o]] = None
    /\ peers' = [peers EXCEPT ![AddrOf[o]] = o]
    /\ life' = [life EXCEPT ![o] = "open"]
    /\ UNCHANGED <<made, isServer, flag, accVars, at, addr, who, todo, jammed, history>>

-----------------------------------------------------------------------------
(* Removing a peer.                                                        *)

Goto(t, there) == at' = [at EXCEPT ![t] = there]

Rest == <<peers, made, isServer, flag, accVars, addr, who, todo, jammed, history>>

\* Close of o by t, unless it is CLOSED already: the state is set, the subscriptions
\* are dropped by the one that changed it, and the peer's channels, which may be nil,
\* are sent to.
CloseChecks(t, o, here, set, there) ==
    /\ at[t] = here
    /\ Goto(t, IF life[o] = "closed" THEN there ELSE set)
    /\ UNCHANGED <<life, Rest>>

SetClosed(t, o, here, drop, send) ==
    /\ at[t] = here
    /\ life' = [life EXCEPT ![o] = "closed"]
    /\ Goto(t, IF life[o] = "closed" THEN send ELSE drop)
    /\ UNCHANGED Rest

DropSubscriptions(t, here, send) ==
    /\ at[t] = here
    /\ ~jammed
    /\ Goto(t, send)
    /\ UNCHANGED <<life, Rest>>

SendStops(t, o, here, there) ==
    /\ at[t] = here
    /\ Goto(t, IF o \in made THEN there ELSE "stuck")
    /\ UNCHANGED <<life, Rest>>

\* The receive loop finds the connection broken, or the keepalive timer expires.
StartReset(o) ==
    /\ o \in Failing \cap made
    /\ at[o] = "idle" /\ life[o] = "open"
    /\ Goto(o, "reset")
    /\ UNCHANGED <<peers, life, made, isServer, flag, accVars, addr, who, todo, jammed, history>>

\* Reset returns when its peer is CLOSED already, else it closes it and calls RemovePeer.
ResetChecks(o) == CloseChecks(o, o, "reset", "close1", "done")

\* Its own channels are there: its goroutines run.
CloseOwn(o) ==
    \/ CloseChecks(o, o, "close1", "set1", "look")
    \/ SetClosed(o, o, "set1", "drop1", "look")
    \/ DropSubscriptions(o, "drop1", "look")

\* Clients remove what they added.
RemovePeer(c, a) ==
    /\ at[c] = "idle" /\ ~isServer
    /\ addr' = [addr EXCEPT ![c] = a]
    /\ Goto(c, "look")
    /\ UNCHANGED <<peers, life, made, isServer, flag, accVars, who, todo, jammed, history>>

\* unsafeRemovePeer returns; Shutdown goes on with its next address.
Returned(t, how) == Goto(t, IF t = Main THEN "next" ELSE how)

\* Mutant of LookUp: a peer that is not there is not noticed.
LookUpBlindly(t) ==
    /\ at[t] = "look"
    /\ who' = [who EXCEPT ![t] = peers[addr[t]]]
    /\ Goto(t, "close")
    /\ UNCHANGED <<peers, life, made, isServer, flag, accVars, addr, todo, jammed, history>>

LookUp(t) ==
    LET o == peers[addr[t]]
    IN  /\ at[t] = "look"
        /\ \/ o = None /\ Returned(t, "missed") /\ UNCHANGED <<who, doubled>>
           \/ /\ o # None
              /\ who' = [who EXCEPT ![t] = o]
              /\ doubled' = IF \E x \in Remover \ {t} : Working(x) /\ addr[x] = addr[t]
                              THEN doubled \cup {addr[t]} ELSE doubled
              /\ Goto(t, "close")
        /\ UNCHANGED <<peers, life, made, isServer, flag, accVars, addr, todo, jammed, reused>>

\* Mutant of CloseFound: the peer is left as it is.
ForgetToClose(t) ==
    /\ at[t] = "close"
    /\ Goto(t, "delete")
    /\ UNCHANGED <<peers, life, made, isServer, flag, accVars, addr, who, todo, jammed, history>>

CloseFound(t) ==
    \/ CloseChecks(t, who[t], "close", "set", "delete")
    \/ SetClosed(t, who[t], "set", "drop", "send")
    \/ DropSubscriptions(t, "drop", "send")
    \/ SendStops(t, who[t], "send", "delete")

\* Mutant of Delete: the map keeps the peer.
KeepEntry(t) ==
    /\ at[t] = "delete"
    /\ who' = [who EXCEPT ![t] = None]
    /\ Returned(t, "done")
    /\ UNCHANGED <<peers, life, made, isServer, flag, accVars, addr, todo, jammed, history>>

\* Whatever is at the address now.
Delete(t) ==
    /\ at[t] = "delete"
    /\ peers' = [peers EXCEPT ![addr[t]] = None]
    /\ who' = [who EXCEPT ![t] = None]
    /\ Returned(t, "done")
    /\ UNCHANGED <<life, made, isServer, flag, accVars, addr, todo, jammed, history>>

-----------------------------------------------------------------------------
(* Shutdown.                                                               *)

\* Mutant of BeginShutdown: the acceptor is not stopped.
ShutdownPeersOnly ==
    /\ at[Main] = "idle"
    /\ Goto(Main, "list")
    /\ UNCHANGED <<peers, life, made, isServer, flag, accVars, addr, who, todo, jammed, history>>

BeginShutdown ==
    /\ at[Main] = "idle"
    /\ flag' = TRUE
    /\ Goto(Main, "listener")
    /\ UNCHANGED <<peers, life, made, isServer, accVars, addr, who, todo, jammed, history>>


CloseListener ==
    /\ at[Main] = "listener"
    /\ listening' = FALSE
    /\ Goto(Main, "list")
    /\ UNCHANGED <<peers, life, made, isServer, flag, acc, new, addr, who, todo, jammed, history>>

ListPeers ==
    /\ at[Main] = "list"
    /\ todo' = {a \in Addr : peers[a] # None}
    /\ Goto(Main, "next")
    /\ UNCHANGED <<peers, life, made, isServer, flag, accVars, addr, who, jammed, history>>

NextPeer ==
    /\ at[Main] = "next"
    /\ \/ todo = {} /\ Goto(Main, "done") /\ UNCHANGED <<addr, todo>>
       \/ \E a \in todo :
             /\ addr' = [addr EXCEPT ![Main] = a]
             /\ todo' = todo \ {a}
             /\ Goto(Main, "look")
    /\ UNCHANGED <<peers, life, made, isServer, flag, accVars, who, jammed, history>>

-----------------------------------------------------------------------------

AcceptorStep == AcceptFails \/ NewPeer \/ Register
RemoverStep(t) == LookUp(t) \/ CloseFound(t) \/ Delete(t)
ResetStep(o) == ResetChecks(o) \/ CloseOwn(o)
ShutdownStep == CloseListener \/ ListPeers \/ NextPeer \/ RemoverStep(Main)

Next ==
    \/ AcceptorStep \/ BeginShutdown \/ ShutdownStep
    \/ \E o \in Incoming : Accept(o) \/ StartReset(o) \/ ResetStep(o)
    \/ \E o \in Outgoing : AddPeer(o)
    \/ \E o \in Object : Run(o) \/ Jam(o)
    \/ \E c \in Caller, o \in Outgoing : RemovePeer(c, AddrOf[o])
    \/ \E t \in Remover \ {Main} : RemoverStep(t)

Spec == Init /\ [][Next]_vars

\* Goroutines that can run do; nobody has to connect, to fail or to call.
Fairness ==
    /\ WF_vars(AcceptorStep) /\ WF_vars(ShutdownStep)
    /\ \A o \in Object : WF_vars(Run(o))
    /\ \A t \in Remover : WF_vars(RemoverStep(t)) /\ (t \in Incoming => WF_vars(ResetStep(t)))

FairSpec == Spec /\ Fairness

-----------------------------------------------------------------------------
(* Properties.                                                             *)

\* Each goroutine works on a peer of its address, and knows one to close.
TypeOK ==
    /\ peers \in [Addr -> Object \cup {None}]
    /\ life \in [Object -> {"none", "open", "closed"}]
    /\ made \subseteq Object /\ isServer \in BOOLEAN /\ flag \in BOOLEAN /\ listening \in BOOLEAN
    /\ acc \in {"accept", "check", "register", "ended"} /\ new \in Incoming \cup {None}
    /\ at \in [Remover -> {"idle", "reset", "close1", "set1", "drop1", "look", "close",
                           "set", "drop", "send", "delete", "missed", "stuck", "listener",
                           "list", "next", "done"}]
    /\ addr \in [Remover -> Addr] /\ who \in [Remover -> Object \cup {None}]
    /\ todo \subseteq Addr /\ doubled \subseteq Addr /\ reused \subseteq Addr
    /\ jammed \in BOOLEAN
    /\ \A a \in Addr : peers[a] # None => AddrOf[peers[a]] = a
    /\ \A t \in Remover : Working(t) => who[t] # None

\* A peer that runs can be found, and so be shut down, though the map is by address and
\* addresses are used again: StartServer overwrites what is at the address (metalbond.go
\* 501), and unsafeRemovePeer deletes what is there now (metalbond.go 96).  They hit the
\* wrong peer only where a connection was accepted while an earlier peer of its address
\* was still registered or being removed, or where two goroutines removed one address
\* at once.
RunningIsFound ==
    \A o \in Object :
        life[o] = "open" /\ AddrOf[o] \notin doubled \cup reused
            => peers[AddrOf[o]] = o \/ (acc = "register" /\ new = o)

Resting == acc \in {"accept", "ended"} /\ \A t \in Remover : at[t] \in {"idle", "missed", "done"}

\* A peer that is gone is out of the map, unless its connection broke so early
\* that its Reset looked for it before StartServer had registered it
\* (metalbond.go 487-503, peer.go 599-602), or its address was used too early.
GhostsCameLate ==
    Resting => \A a \in Addr \ reused :
        peers[a] # None /\ life[peers[a]] = "closed"
            => peers[a] \in Incoming /\ at[peers[a]] = "missed"

\* Shutdown stops the server ("To stop the server again, call Shutdown()",
\* metalbond.go 467) but for one connection at most, that was accepted and not
\* yet registered when Shutdown read the map, and those whose address another used
\* too early.
ShutdownLeavesOne ==
    Resting /\ at[Main] = "done" =>
        Cardinality({o \in Incoming : life[o] = "open" /\ AddrOf[o] \notin reused}) <= 1

\* Shutdown itself waits for ever: for a peer whose channels are nil, or for the lock.
ShutdownHangs == at[Main] = "stuck" \/ (at[Main] = "drop" /\ jammed)

=============================================================================
