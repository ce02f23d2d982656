--------------------------- MODULE RegistryProofs ---------------------------
(***************************************************************************)
(* Proofs about the map of peers, for any connections, callers and         *)
(* addresses.                                                              *)
(***************************************************************************)
EXTENDS Registry, FiniteSetTheorems, TLAPS

\* o runs, and StartServer has not registered it yet.
Unregistered(o) == acc = "register" /\ new = o

\* A server has incoming peers, a client outgoing ones.  What the acceptor holds is new;
\* what is in the map or was found there is not; a goroutine deletes the entry of a peer
\* it has closed; only Shutdown moves Main.
LifeOK ==
    /\ acc # "ended" => isServer
    /\ acc \in {"check", "register"} => new \in Incoming
    /\ acc = "check" => life[new] = "none"
    /\ acc = "register" => life[new] # "none"
    /\ \A o \in Object : life[o] # "none" => (o \in Incoming <=> isServer)
    /\ \A a \in Addr : peers[a] # None => life[peers[a]] # "none"
    /\ \A t \in Remover :
          /\ Working(t) => life[who[t]] # "none" /\ AddrOf[who[t]] = addr[t]
          /\ at[t] \in {"drop", "send", "delete"} => life[who[t]] = "closed"
          /\ t \in Incoming => addr[t] = AddrOf[t]
          /\ t \in Incoming /\ at[t] # "idle" => life[t] # "none"
    /\ at[Main] # "idle" => flag

\* A goroutine that works alone on an address finds there what it found before; on a
\* server it finds that or nothing, unless the address was used too early.
AloneOK ==
    /\ \A t, u \in Remover :
          t # u /\ Working(t) /\ Working(u) /\ addr[t] = addr[u] => addr[t] \in doubled
    /\ \A t \in Remover :
          Working(t) => addr[t] \in doubled \cup reused \/ peers[addr[t]] = who[t]
    /\ \A t \in Remover :
          isServer /\ Working(t) => addr[t] \in reused \/ peers[addr[t]] \in {who[t], None}

\* An incoming peer of an address that was free is registered for itself: no doubled
\* removal takes it away.
IncomingFound ==
    \A o \in Incoming :
        life[o] = "open" /\ AddrOf[o] \notin reused => peers[AddrOf[o]] = o \/ Unregistered(o)

\* A peer that is not registered yet is in nobody's hands but its own Reset's, and finds
\* its address free.
NewOK ==
    acc = "register" /\ AddrOf[new] \notin reused =>
        /\ peers[AddrOf[new]] = None
        /\ \A t \in Remover : ~(Working(t) /\ addr[t] = AddrOf[new])
        /\ life[new] = "closed" => at[new] \in {"drop1", "look", "missed"}

FoundInv == TypeOK /\ LifeOK /\ AloneOK /\ NewOK /\ RunningIsFound /\ IncomingFound

\* A closed peer in the map has somebody who will delete it, or came late.
GhostOK ==
    \A a \in Addr \ reused :
        peers[a] # None /\ life[peers[a]] = "closed" =>
            \/ \E t \in Remover :
                  at[t] = "stuck" \/ (at[t] \in {"drop", "send", "delete"} /\ addr[t] = a)
            \/ /\ peers[a] \in Incoming
               /\ at[peers[a]] \in {"drop1", "look", "close", "missed"}

GhostInv == FoundInv /\ GhostOK

\* Shutdown has read the map.
Listed == at[Main] \in {"next", "look", "done"} \/ Working(Main)

\* The connections that run and that Shutdown will not come to any more.
Leftover ==
    {o \in Incoming : /\ life[o] = "open" /\ AddrOf[o] \notin reused \cup todo
                      /\ ~(at[Main] \in {"look", "close", "set"} /\ addr[Main] = AddrOf[o])}

\* There is one at most, and it is the one that was not registered in time.
LeftoverOK ==
    Listed => /\ \A o, x \in Leftover : o = x
              /\ acc = "register" => Leftover \subseteq {new}
              /\ at[Main] = "done" => todo = {}

ShutdownInv == FoundInv /\ LeftoverOK
-----------------------------------------------------------------------------
(* Type correctness.                                                       *)

LEMMA InitFound == Init => FoundInv /\ GhostOK /\ LeftoverOK
<1>. SUFFICES ASSUME Init PROVE FoundInv /\ GhostOK /\ LeftoverOK
  OBVIOUS
<1>. USE RegistryAssumption DEF Init, Object, Remover, Main, Working
<1>1. TypeOK
  BY DEF TypeOK
<1>2. LifeOK
  BY DEF LifeOK
<1>. QED
  BY <1>1, <1>2 DEF FoundInv, AloneOK, RunningIsFound, IncomingFound, NewOK, GhostOK,
     LeftoverOK, Listed

\* Goroutines stay at their steps and work on addresses of their peers.
LEMMA StepKeepsType == TypeOK /\ LifeOK /\ [Next]_vars => TypeOK'
<1>. SUFFICES ASSUME TypeOK, LifeOK, [Next]_vars PROVE TypeOK'
  OBVIOUS
<1>. USE RegistryAssumption DEF TypeOK, LifeOK, Working, Object, Remover, Main, Goto
<1>1. ASSUME NEW o \in Incoming, Accept(o) PROVE TypeOK'
  BY <1>1 DEF Accept, accVars, history
<1>2. ASSUME AcceptFails PROVE TypeOK'
  BY <1>2 DEF AcceptFails, accVars, history
<1>3. ASSUME NewPeer PROVE TypeOK'
  BY <1>3 DEF NewPeer, accVars, history
<1>4. ASSUME Register PROVE TypeOK'
  BY <1>4 DEF Register, accVars, history
<1>5. ASSUME NEW o \in Outgoing, AddPeer(o) PROVE TypeOK'
  BY <1>5 DEF AddPeer, accVars, history
<1>6. ASSUME NEW o \in Object, Run(o) PROVE TypeOK'
  BY <1>6 DEF Run, accVars, history
<1>6j. ASSUME NEW o \in Object, Jam(o) PROVE TypeOK'
  BY <1>6j DEF Jam, accVars, history
<1>7. ASSUME NEW o \in Incoming, StartReset(o) PROVE TypeOK'
  BY <1>7 DEF StartReset, accVars, history
<1>8. ASSUME NEW o \in Incoming, ResetChecks(o) PROVE TypeOK'
  BY <1>8 DEF ResetChecks, CloseChecks, Rest, accVars, history
<1>8c. ASSUME NEW o \in Incoming, CloseOwn(o) PROVE TypeOK'
  BY <1>8c DEF CloseOwn, CloseChecks, SetClosed, DropSubscriptions, Rest, accVars, history
<1>9. ASSUME NEW c \in Caller, NEW o \in Outgoing, RemovePeer(c, AddrOf[o]) PROVE TypeOK'
  BY <1>9 DEF RemovePeer, accVars, history
<1>10. ASSUME NEW t \in Remover, LookUp(t) PROVE TypeOK'
  BY <1>10 DEF LookUp, Returned, accVars, history
<1>11. ASSUME NEW t \in Remover, CloseFound(t) PROVE TypeOK'
  BY <1>11 DEF CloseFound, CloseChecks, SetClosed, DropSubscriptions, SendStops, Rest,
     accVars, history
<1>12. ASSUME NEW t \in Remover, Delete(t) PROVE TypeOK'
  BY <1>12 DEF Delete, Returned, accVars, history
<1>13. ASSUME BeginShutdown PROVE TypeOK'
  BY <1>13 DEF BeginShutdown, accVars, history
<1>14. ASSUME CloseListener PROVE TypeOK'
  BY <1>14 DEF CloseListener, accVars, history
<1>15. ASSUME ListPeers PROVE TypeOK'
  BY <1>15 DEF ListPeers, accVars, history
<1>16. ASSUME NextPeer PROVE TypeOK'
  BY <1>16 DEF NextPeer, accVars, history
<1>17. CASE UNCHANGED vars
  BY <1>17 DEF vars, accVars, history
<1>. QED
  BY <1>1, <1>2, <1>3, <1>4, <1>5, <1>6, <1>6j, <1>7, <1>8, <1>8c, <1>9,
     <1>10, <1>11, <1>12, <1>13, <1>14, <1>15, <1>16, <1>17
  DEF Next, AcceptorStep, ShutdownStep, RemoverStep, ResetStep

\* Objects go from not there to open to closed, and never back.
LEMMA StepKeepsLife == TypeOK /\ LifeOK /\ [Next]_vars => LifeOK'
<1>. SUFFICES ASSUME TypeOK, LifeOK, [Next]_vars PROVE LifeOK'
  OBVIOUS
<1>. USE RegistryAssumption DEF TypeOK, LifeOK, Working, Object, Remover, Main, Goto
<1>1. ASSUME NEW o \in Incoming, Accept(o) PROVE LifeOK'
  BY <1>1 DEF Accept, accVars, history
<1>2. ASSUME AcceptFails PROVE LifeOK'
  BY <1>2 DEF AcceptFails, accVars, history
<1>3. ASSUME NewPeer PROVE LifeOK'
  BY <1>3 DEF NewPeer, accVars, history
<1>4. ASSUME Register PROVE LifeOK'
  BY <1>4 DEF Register, accVars, history
<1>5. ASSUME NEW o \in Outgoing, AddPeer(o) PROVE LifeOK'
  BY <1>5 DEF AddPeer, accVars, history
<1>6. ASSUME NEW o \in Object, Run(o) PROVE LifeOK'
  BY <1>6 DEF Run, accVars, history
<1>6j. ASSUME NEW o \in Object, Jam(o) PROVE LifeOK'
  BY <1>6j DEF Jam, accVars, history
<1>7. ASSUME NEW o \in Incoming, StartReset(o) PROVE LifeOK'
  BY <1>7 DEF StartReset, accVars, history
<1>8. ASSUME NEW o \in Incoming, ResetChecks(o) PROVE LifeOK'
  BY <1>8 DEF ResetChecks, CloseChecks, Rest, accVars, history
<1>8c. ASSUME NEW o \in Incoming, CloseOwn(o) PROVE LifeOK'
  BY <1>8c DEF CloseOwn, CloseChecks, SetClosed, DropSubscriptions, Rest, accVars, history
<1>9. ASSUME NEW c \in Caller, NEW o \in Outgoing, RemovePeer(c, AddrOf[o]) PROVE LifeOK'
  BY <1>9 DEF RemovePeer, accVars, history
<1>10. ASSUME NEW t \in Remover, LookUp(t) PROVE LifeOK'
  BY <1>10 DEF LookUp, Returned, accVars, history
<1>11. ASSUME NEW t \in Remover, CloseFound(t) PROVE LifeOK'
  BY <1>11 DEF CloseFound, CloseChecks, SetClosed, DropSubscriptions, SendStops, Rest,
     accVars, history
<1>12. ASSUME NEW t \in Remover, Delete(t) PROVE LifeOK'
  BY <1>12 DEF Delete, Returned, accVars, history
<1>13. ASSUME BeginShutdown PROVE LifeOK'
  BY <1>13 DEF BeginShutdown, accVars, history
<1>14. ASSUME CloseListener PROVE LifeOK'
  BY <1>14 DEF CloseListener, accVars, history
<1>15. ASSUME ListPeers PROVE LifeOK'
  BY <1>15 DEF ListPeers, accVars, history
<1>16. ASSUME NextPeer PROVE LifeOK'
  BY <1>16 DEF NextPeer, accVars, history
<1>17. CASE UNCHANGED vars
  BY <1>17 DEF vars, accVars, history
<1>. QED
  BY <1>1, <1>2, <1>3, <1>4, <1>5, <1>6, <1>6j, <1>7, <1>8, <1>8c, <1>9,
     <1>10, <1>11, <1>12, <1>13, <1>14, <1>15, <1>16, <1>17
  DEF Next, AcceptorStep, ShutdownStep, RemoverStep, ResetStep

\* The map leads from an address to peers of that address, and whoever closes or
\* deletes a peer has found one (metalbond.go 65-99).
THEOREM RegistryTyped == Spec => []TypeOK
<1>1. Init => TypeOK /\ LifeOK
  BY InitFound DEF FoundInv
<1>2. TypeOK /\ LifeOK /\ [Next]_vars => (TypeOK /\ LifeOK)'
  BY StepKeepsType, StepKeepsLife
<1>. QED
  BY <1>1, <1>2, PTL DEF Spec

-----------------------------------------------------------------------------
(* A peer that runs can be found.                                          *)

\* LookUp notices a second goroutine at its address; nobody else changes an entry
\* that is there.
LEMMA StepKeepsAlone ==
    TypeOK /\ LifeOK /\ AloneOK /\ NewOK /\ [Next]_vars => AloneOK'
<1>. SUFFICES ASSUME TypeOK, LifeOK, AloneOK, NewOK, [Next]_vars
              PROVE  AloneOK'
  OBVIOUS
<1>. USE RegistryAssumption DEF TypeOK, LifeOK, Working, Object, Remover, Main, Goto, AloneOK, NewOK
<1>1. ASSUME NEW o \in Incoming, Accept(o) PROVE AloneOK'
  BY <1>1 DEF Accept, accVars, history
<1>2. ASSUME AcceptFails PROVE AloneOK'
  BY <1>2 DEF AcceptFails, accVars, history
<1>3. ASSUME NewPeer PROVE AloneOK'
  BY <1>3 DEF NewPeer, accVars, history
<1>4. ASSUME Register PROVE AloneOK'
  BY <1>4 DEF Register, accVars, history
<1>5. ASSUME NEW o \in Outgoing, AddPeer(o) PROVE AloneOK'
  BY <1>5 DEF AddPeer, accVars, history
<1>6. ASSUME NEW o \in Object, Run(o) PROVE AloneOK'
  BY <1>6 DEF Run, accVars, history
<1>6j. ASSUME NEW o \in Object, Jam(o) PROVE AloneOK'
  BY <1>6j DEF Jam, accVars, history
<1>7. ASSUME NEW o \in Incoming, StartReset(o) PROVE AloneOK'
  BY <1>7 DEF StartReset, accVars, history
<1>8. ASSUME NEW o \in Incoming, ResetChecks(o) PROVE AloneOK'
  BY <1>8 DEF ResetChecks, CloseChecks, Rest, accVars, history
<1>8c. ASSUME NEW o \in Incoming, CloseOwn(o) PROVE AloneOK'
  BY <1>8c DEF CloseOwn, CloseChecks, SetClosed, DropSubscriptions, Rest, accVars, history
<1>9. ASSUME NEW c \in Caller, NEW o \in Outgoing, RemovePeer(c, AddrOf[o]) PROVE AloneOK'
  BY <1>9 DEF RemovePeer, accVars, history
<1>10. ASSUME NEW t \in Remover, LookUp(t) PROVE AloneOK'
  BY <1>10 DEF LookUp, Returned, accVars, history
<1>11. ASSUME NEW t \in Remover, CloseFound(t) PROVE AloneOK'
  BY <1>11 DEF CloseFound, CloseChecks, SetClosed, DropSubscriptions, SendStops, Rest,
     accVars, history
<1>12. ASSUME NEW t \in Remover, Delete(t) PROVE AloneOK'
  BY <1>12 DEF Delete, Returned, accVars, history
<1>13. ASSUME BeginShutdown PROVE AloneOK'
  BY <1>13 DEF BeginShutdown, accVars, history
<1>14. ASSUME CloseListener PROVE AloneOK'
  BY <1>14 DEF CloseListener, accVars, history
<1>15. ASSUME ListPeers PROVE AloneOK'
  BY <1>15 DEF ListPeers, accVars, history
<1>16. ASSUME NextPeer PROVE AloneOK'
  BY <1>16 DEF NextPeer, accVars, history
<1>17. CASE UNCHANGED vars
  BY <1>17 DEF vars, accVars, history
<1>. QED
  BY <1>1, <1>2, <1>3, <1>4, <1>5, <1>6, <1>6j, <1>7, <1>8, <1>8c, <1>9,
     <1>10, <1>11, <1>12, <1>13, <1>14, <1>15, <1>16, <1>17
  DEF Next, AcceptorStep, ShutdownStep, RemoverStep, ResetStep

\* Delete takes the peer that was closed, unless two goroutines are at its address.
LEMMA StepKeepsFound ==
    TypeOK /\ LifeOK /\ AloneOK /\ RunningIsFound /\ IncomingFound' /\ [Next]_vars => RunningIsFound'
<1>. SUFFICES ASSUME TypeOK, LifeOK, AloneOK, RunningIsFound, IncomingFound', [Next]_vars
              PROVE  RunningIsFound'
  OBVIOUS
<1>. USE RegistryAssumption DEF TypeOK, LifeOK, Working, Object, Remover, Main, Goto,
         AloneOK, RunningIsFound, IncomingFound, Unregistered
<1>1. ASSUME NEW o \in Incoming, Accept(o) PROVE RunningIsFound'
  BY <1>1 DEF Accept, accVars, history
<1>2. ASSUME AcceptFails PROVE RunningIsFound'
  BY <1>2 DEF AcceptFails, accVars, history
<1>3. ASSUME NewPeer PROVE RunningIsFound'
  BY <1>3 DEF NewPeer, accVars, history
<1>4. ASSUME Register PROVE RunningIsFound'
  BY <1>4 DEF Register, accVars, history
<1>5. ASSUME NEW o \in Outgoing, AddPeer(o) PROVE RunningIsFound'
  BY <1>5 DEF AddPeer, accVars, history
<1>6. ASSUME NEW o \in Object, Run(o) PROVE RunningIsFound'
  BY <1>6 DEF Run, accVars, history
<1>6j. ASSUME NEW o \in Object, Jam(o) PROVE RunningIsFound'
  BY <1>6j DEF Jam, accVars, history
<1>7. ASSUME NEW o \in Incoming, StartReset(o) PROVE RunningIsFound'
  BY <1>7 DEF StartReset, accVars, history
<1>8. ASSUME NEW o \in Incoming, ResetChecks(o) PROVE RunningIsFound'
  BY <1>8 DEF ResetChecks, CloseChecks, Rest, accVars, history
<1>8c. ASSUME NEW o \in Incoming, CloseOwn(o) PROVE RunningIsFound'
  BY <1>8c DEF CloseOwn, CloseChecks, SetClosed, DropSubscriptions, Rest, accVars, history
<1>9. ASSUME NEW c \in Caller, NEW o \in Outgoing, RemovePeer(c, AddrOf[o]) PROVE RunningIsFound'
  BY <1>9 DEF RemovePeer, accVars, history
<1>10. ASSUME NEW t \in Remover, LookUp(t) PROVE RunningIsFound'
  BY <1>10 DEF LookUp, Returned, accVars, history
<1>11. ASSUME NEW t \in Remover, CloseFound(t) PROVE RunningIsFound'
  BY <1>11 DEF CloseFound, CloseChecks, SetClosed, DropSubscriptions, SendStops, Rest,
     accVars, history
<1>12. ASSUME NEW t \in Remover, Delete(t) PROVE RunningIsFound'
  BY <1>12 DEF Delete, Returned, accVars, history
<1>13. ASSUME BeginShutdown PROVE RunningIsFound'
  BY <1>13 DEF BeginShutdown, accVars, history
<1>14. ASSUME CloseListener PROVE RunningIsFound'
  BY <1>14 DEF CloseListener, accVars, history
<1>15. ASSUME ListPeers PROVE RunningIsFound'
  BY <1>15 DEF ListPeers, accVars, history
<1>16. ASSUME NextPeer PROVE RunningIsFound'
  BY <1>16 DEF NextPeer, accVars, history
<1>17. CASE UNCHANGED vars
  BY <1>17 DEF vars, accVars, history
<1>. QED
  BY <1>1, <1>2, <1>3, <1>4, <1>5, <1>6, <1>6j, <1>7, <1>8, <1>8c, <1>9,
     <1>10, <1>11, <1>12, <1>13, <1>14, <1>15, <1>16, <1>17
  DEF Next, AcceptorStep, ShutdownStep, RemoverStep, ResetStep

\* Nobody else is registered at the address of an incoming peer.
LEMMA StepKeepsIncoming ==
    TypeOK /\ LifeOK /\ AloneOK /\ NewOK /\ IncomingFound /\ [Next]_vars => IncomingFound'
<1>. SUFFICES ASSUME TypeOK, LifeOK, AloneOK, NewOK, IncomingFound, [Next]_vars
              PROVE  IncomingFound'
  OBVIOUS
<1>. USE RegistryAssumption DEF TypeOK, LifeOK, Working, Object, Remover, Main, Goto,
         IncomingFound, Unregistered, AloneOK, NewOK
<1>1. ASSUME NEW o \in Incoming, Accept(o) PROVE IncomingFound'
  BY <1>1 DEF Accept, accVars, history
<1>2. ASSUME AcceptFails PROVE IncomingFound'
  BY <1>2 DEF AcceptFails, accVars, history
<1>3. ASSUME NewPeer PROVE IncomingFound'
  BY <1>3 DEF NewPeer, accVars, history
<1>4. ASSUME Register PROVE IncomingFound'
  BY <1>4 DEF Register, accVars, history
<1>5. ASSUME NEW o \in Outgoing, AddPeer(o) PROVE IncomingFound'
  BY <1>5 DEF AddPeer, accVars, history
<1>6. ASSUME NEW o \in Object, Run(o) PROVE IncomingFound'
  BY <1>6 DEF Run, accVars, history
<1>6j. ASSUME NEW o \in Object, Jam(o) PROVE IncomingFound'
  BY <1>6j DEF Jam, accVars, history
<1>7. ASSUME NEW o \in Incoming, StartReset(o) PROVE IncomingFound'
  BY <1>7 DEF StartReset, accVars, history
<1>8. ASSUME NEW o \in Incoming, ResetChecks(o) PROVE IncomingFound'
  BY <1>8 DEF ResetChecks, CloseChecks, Rest, accVars, history
<1>8c. ASSUME NEW o \in Incoming, CloseOwn(o) PROVE IncomingFound'
  BY <1>8c DEF CloseOwn, CloseChecks, SetClosed, DropSubscriptions, Rest, accVars, history
<1>9. ASSUME NEW c \in Caller, NEW o \in Outgoing, RemovePeer(c, AddrOf[o]) PROVE IncomingFound'
  BY <1>9 DEF RemovePeer, accVars, history
<1>10. ASSUME NEW t \in Remover, LookUp(t) PROVE IncomingFound'
  BY <1>10 DEF LookUp, Returned, accVars, history
<1>11. ASSUME NEW t \in Remover, CloseFound(t) PROVE IncomingFound'
  BY <1>11 DEF CloseFound, CloseChecks, SetClosed, DropSubscriptions, SendStops, Rest,
     accVars, history
<1>12. ASSUME NEW t \in Remover, Delete(t) PROVE IncomingFound'
  BY <1>12 DEF Delete, Returned, accVars, history
<1>13. ASSUME BeginShutdown PROVE IncomingFound'
  BY <1>13 DEF BeginShutdown, accVars, history
<1>14. ASSUME CloseListener PROVE IncomingFound'
  BY <1>14 DEF CloseListener, accVars, history
<1>15. ASSUME ListPeers PROVE IncomingFound'
  BY <1>15 DEF ListPeers, accVars, history
<1>16. ASSUME NextPeer PROVE IncomingFound'
  BY <1>16 DEF NextPeer, accVars, history
<1>17. CASE UNCHANGED vars
  BY <1>17 DEF vars, accVars, history
<1>. QED
  BY <1>1, <1>2, <1>3, <1>4, <1>5, <1>6, <1>6j, <1>7, <1>8, <1>8c, <1>9,
     <1>10, <1>11, <1>12, <1>13, <1>14, <1>15, <1>16, <1>17
  DEF Next, AcceptorStep, ShutdownStep, RemoverStep, ResetStep

\* Who looks for a peer that is not registered does not find it.
LEMMA StepKeepsNew ==
    TypeOK /\ LifeOK /\ IncomingFound /\ NewOK /\ [Next]_vars => NewOK'
<1>. SUFFICES ASSUME TypeOK, LifeOK, IncomingFound, NewOK, [Next]_vars
              PROVE  NewOK'
  OBVIOUS
<1>. USE RegistryAssumption DEF TypeOK, LifeOK, Working, Object, Remover, Main, Goto, NewOK,
         IncomingFound, Unregistered, Taken
<1>1. ASSUME NEW o \in Incoming, Accept(o) PROVE NewOK'
  BY <1>1 DEF Accept, accVars, history
<1>2. ASSUME AcceptFails PROVE NewOK'
  BY <1>2 DEF AcceptFails, accVars, history
<1>3. ASSUME NewPeer PROVE NewOK'
  BY <1>3 DEF NewPeer, accVars, history
<1>4. ASSUME Register PROVE NewOK'
  BY <1>4 DEF Register, accVars, history
<1>5. ASSUME NEW o \in Outgoing, AddPeer(o) PROVE NewOK'
  BY <1>5 DEF AddPeer, accVars, history
<1>6. ASSUME NEW o \in Object, Run(o) PROVE NewOK'
  BY <1>6 DEF Run, accVars, history
<1>6j. ASSUME NEW o \in Object, Jam(o) PROVE NewOK'
  BY <1>6j DEF Jam, accVars, history
<1>7. ASSUME NEW o \in Incoming, StartReset(o) PROVE NewOK'
  BY <1>7 DEF StartReset, accVars, history
<1>8. ASSUME NEW o \in Incoming, ResetChecks(o) PROVE NewOK'
  BY <1>8 DEF ResetChecks, CloseChecks, Rest, accVars, history
<1>8c. ASSUME NEW o \in Incoming, CloseOwn(o) PROVE NewOK'
  BY <1>8c DEF CloseOwn, CloseChecks, SetClosed, DropSubscriptions, Rest, accVars, history
<1>9. ASSUME NEW c \in Caller, NEW o \in Outgoing, RemovePeer(c, AddrOf[o]) PROVE NewOK'
  BY <1>9 DEF RemovePeer, accVars, history
<1>10. ASSUME NEW t \in Remover, LookUp(t) PROVE NewOK'
  BY <1>10 DEF LookUp, Returned, accVars, history
<1>11. ASSUME NEW t \in Remover, CloseFound(t) PROVE NewOK'
  BY <1>11 DEF CloseFound, CloseChecks, SetClosed, DropSubscriptions, SendStops, Rest,
     accVars, history
<1>12. ASSUME NEW t \in Remover, Delete(t) PROVE NewOK'
  BY <1>12 DEF Delete, Returned, accVars, history
<1>13. ASSUME BeginShutdown PROVE NewOK'
  BY <1>13 DEF BeginShutdown, accVars, history
<1>14. ASSUME CloseListener PROVE NewOK'
  BY <1>14 DEF CloseListener, accVars, history
<1>15. ASSUME ListPeers PROVE NewOK'
  BY <1>15 DEF ListPeers, accVars, history
<1>16. ASSUME NextPeer PROVE NewOK'
  BY <1>16 DEF NextPeer, accVars, history
<1>17. CASE UNCHANGED vars
  BY <1>17 DEF vars, accVars, history
<1>. QED
  BY <1>1, <1>2, <1>3, <1>4, <1>5, <1>6, <1>6j, <1>7, <1>8, <1>8c, <1>9,
     <1>10, <1>11, <1>12, <1>13, <1>14, <1>15, <1>16, <1>17
  DEF Next, AcceptorStep, ShutdownStep, RemoverStep, ResetStep

LEMMA StepKeepsFoundInv == FoundInv /\ [Next]_vars => FoundInv'
  BY StepKeepsType, StepKeepsLife, StepKeepsAlone, StepKeepsNew, StepKeepsFound,
     StepKeepsIncoming
  DEF FoundInv

\* A peer whose goroutines run is in the map, so that it is sent to and shut down,
\* whatever addresses are used again: StartServer overwrites (metalbond.go 501) and
\* unsafeRemovePeer deletes by address (metalbond.go 85-99), and they hit a peer that
\* runs only where two goroutines removed its address at once, or where a connection
\* was accepted from it while an earlier peer of it was registered or being removed.
THEOREM RunningPeersAreFound == Spec => []RunningIsFound
<1>1. FoundInv => RunningIsFound
  BY DEF FoundInv
<1>. QED
  BY InitFound, StepKeepsFoundInv, <1>1, PTL DEF Spec

-----------------------------------------------------------------------------
(* Closed peers leave the map.                                             *)

\* Whoever closes a peer deletes it, or is its Reset and looked for it too early.
LEMMA StepKeepsGhost ==
    TypeOK /\ LifeOK /\ AloneOK /\ NewOK /\ GhostOK /\ [Next]_vars => GhostOK'
<1>. SUFFICES ASSUME TypeOK, LifeOK, AloneOK, NewOK, GhostOK, [Next]_vars
              PROVE  GhostOK'
  OBVIOUS
<1>. USE RegistryAssumption DEF TypeOK, LifeOK, Working, Object, Remover, Main, Goto, NewOK,
         GhostOK
<1>1. ASSUME NEW o \in Incoming, Accept(o) PROVE GhostOK'
  BY <1>1 DEF Accept, accVars, history
<1>2. ASSUME AcceptFails PROVE GhostOK'
  BY <1>2 DEF AcceptFails, accVars, history
<1>3. ASSUME NewPeer PROVE GhostOK'
  BY <1>3 DEF NewPeer, accVars, history
<1>4. ASSUME Register PROVE GhostOK'
  BY <1>4 DEF Register, accVars, history
<1>5. ASSUME NEW o \in Outgoing, AddPeer(o) PROVE GhostOK'
  BY <1>5 DEF AddPeer, accVars, history
<1>6. ASSUME NEW o \in Object, Run(o) PROVE GhostOK'
  BY <1>6 DEF Run, accVars, history
<1>6j. ASSUME NEW o \in Object, Jam(o) PROVE GhostOK'
  BY <1>6j DEF Jam, accVars, history
<1>7. ASSUME NEW o \in Incoming, StartReset(o) PROVE GhostOK'
  BY <1>7 DEF StartReset, accVars, history
<1>8. ASSUME NEW o \in Incoming, ResetChecks(o) PROVE GhostOK'
  BY <1>8 DEF ResetChecks, CloseChecks, Rest, accVars, history
<1>8c. ASSUME NEW o \in Incoming, CloseOwn(o) PROVE GhostOK'
  BY <1>8c DEF CloseOwn, CloseChecks, SetClosed, DropSubscriptions, Rest, accVars, history
<1>9. ASSUME NEW c \in Caller, NEW o \in Outgoing, RemovePeer(c, AddrOf[o]) PROVE GhostOK'
  BY <1>9 DEF RemovePeer, accVars, history
<1>10. ASSUME NEW t \in Remover, LookUp(t) PROVE GhostOK'
  BY <1>10 DEF LookUp, Returned, accVars, history
<1>11. ASSUME NEW t \in Remover, CloseFound(t) PROVE GhostOK'
  <2>1. CASE CloseChecks(t, who[t], "close", "set", "delete")
    <3>1. /\ peers' = peers /\ life' = life /\ reused' = reused /\ addr' = addr
          /\ at[t] = "close" /\ at' = [at EXCEPT ![t] = at'[t]]
          /\ at'[t] = IF life[who[t]] = "closed" THEN "delete" ELSE "set"
      BY <2>1 DEF CloseChecks, Rest, accVars, history
    <3>2. SUFFICES ASSUME NEW a \in Addr \ reused, peers[a] # None, life[peers[a]] = "closed"
                   PROVE  \/ \E x \in Remover :
                                at'[x] = "stuck" \/ (at'[x] \in {"drop", "send", "delete"}
                                                     /\ addr[x] = a)
                          \/ /\ peers[a] \in Incoming
                             /\ at'[peers[a]] \in {"drop1", "look", "close", "missed"}
      BY <3>1
    <3>3. CASE \E x \in Remover :
                  at[x] = "stuck" \/ (at[x] \in {"drop", "send", "delete"} /\ addr[x] = a)
      BY <3>1, <3>3
    <3>4. CASE /\ peers[a] \in Incoming /\ peers[a] # t
               /\ at[peers[a]] \in {"drop1", "look", "close", "missed"}
      BY <3>1, <3>4
    <3>5. CASE peers[a] = t /\ t \in Incoming
      <4>1. addr[t] = a /\ isServer
        BY <3>2, <3>5
      <4>2. who[t] = t
        BY <3>1, <3>2, <3>5, <4>1 DEF AloneOK
      <4>. QED
        BY <3>1, <3>2, <3>5, <4>1, <4>2
    <3>. QED
      BY <3>2, <3>3, <3>4, <3>5
  <2>2. CASE SetClosed(t, who[t], "set", "drop", "send")
    BY <2>2 DEF SetClosed, Rest, accVars, history
  <2>3. CASE DropSubscriptions(t, "drop", "send")
    BY <2>3 DEF DropSubscriptions, Rest, accVars, history
  <2>4. CASE SendStops(t, who[t], "send", "delete")
    BY <2>4 DEF SendStops, Rest, accVars, history
  <2>. QED
    BY <1>11, <2>1, <2>2, <2>3, <2>4 DEF CloseFound
<1>12. ASSUME NEW t \in Remover, Delete(t) PROVE GhostOK'
  BY <1>12 DEF Delete, Returned, accVars, history
<1>13. ASSUME BeginShutdown PROVE GhostOK'
  BY <1>13 DEF BeginShutdown, accVars, history
<1>14. ASSUME CloseListener PROVE GhostOK'
  BY <1>14 DEF CloseListener, accVars, history
<1>15. ASSUME ListPeers PROVE GhostOK'
  BY <1>15 DEF ListPeers, accVars, history
<1>16. ASSUME NextPeer PROVE GhostOK'
  BY <1>16 DEF NextPeer, accVars, history
<1>17. CASE UNCHANGED vars
  BY <1>17 DEF vars, accVars, history
<1>. QED
  BY <1>1, <1>2, <1>3, <1>4, <1>5, <1>6, <1>6j, <1>7, <1>8, <1>8c, <1>9,
     <1>10, <1>11, <1>12, <1>13, <1>14, <1>15, <1>16, <1>17
  DEF Next, AcceptorStep, ShutdownStep, RemoverStep, ResetStep

\* When everything rests, a closed peer that is still in the map is one whose Reset
\* came before StartServer had registered it (metalbond.go 487-503), unless its
\* address was used again too early.
THEOREM ClosedPeersLeave == Spec => []GhostsCameLate
<1>1. GhostInv /\ [Next]_vars => GhostInv'
  BY StepKeepsFoundInv, StepKeepsGhost DEF GhostInv, FoundInv
<1>2. GhostInv => GhostsCameLate
  BY DEF GhostInv, GhostOK, GhostsCameLate, Resting, Remover
<1>3. Init => GhostInv
  BY InitFound DEF GhostInv
<1>. QED
  BY <1>1, <1>2, <1>3, PTL DEF Spec

-----------------------------------------------------------------------------
(* Shutdown.                                                               *)

\* Nothing becomes open once the flag is set; what Shutdown passes over was not in
\* the map, and so is the one connection being registered.
LEMMA StepKeepsLeftover ==
    TypeOK /\ LifeOK /\ AloneOK /\ NewOK /\ IncomingFound /\ LeftoverOK /\ [Next]_vars => LeftoverOK'
<1>. SUFFICES ASSUME TypeOK, LifeOK, AloneOK, NewOK, IncomingFound, LeftoverOK, [Next]_vars
              PROVE  LeftoverOK'
  OBVIOUS
<1>. USE RegistryAssumption DEF TypeOK, LifeOK, Working, Object, Remover, Main, Goto,
         AloneOK, NewOK, IncomingFound, Unregistered, LeftoverOK, Leftover, Listed
<1>1. ASSUME NEW o \in Incoming, Accept(o) PROVE LeftoverOK'
  BY <1>1 DEF Accept, accVars, history
<1>2. ASSUME AcceptFails PROVE LeftoverOK'
  BY <1>2 DEF AcceptFails, accVars, history
<1>3. ASSUME NewPeer PROVE LeftoverOK'
  BY <1>3 DEF NewPeer, accVars, history
<1>4. ASSUME Register PROVE LeftoverOK'
  BY <1>4 DEF Register, accVars, history
<1>5. ASSUME NEW o \in Outgoing, AddPeer(o) PROVE LeftoverOK'
  BY <1>5 DEF AddPeer, accVars, history
<1>6. ASSUME NEW o \in Object, Run(o) PROVE LeftoverOK'
  BY <1>6 DEF Run, accVars, history
<1>6j. ASSUME NEW o \in Object, Jam(o) PROVE LeftoverOK'
  BY <1>6j DEF Jam, accVars, history
<1>7. ASSUME NEW o \in Incoming, StartReset(o) PROVE LeftoverOK'
  BY <1>7 DEF StartReset, accVars, history
<1>8. ASSUME NEW o \in Incoming, ResetChecks(o) PROVE LeftoverOK'
  BY <1>8 DEF ResetChecks, CloseChecks, Rest, accVars, history
<1>8c. ASSUME NEW o \in Incoming, CloseOwn(o) PROVE LeftoverOK'
  BY <1>8c DEF CloseOwn, CloseChecks, SetClosed, DropSubscriptions, Rest, accVars, history
<1>9. ASSUME NEW c \in Caller, NEW o \in Outgoing, RemovePeer(c, AddrOf[o]) PROVE LeftoverOK'
  BY <1>9 DEF RemovePeer, accVars, history
<1>10. ASSUME NEW t \in Remover, LookUp(t) PROVE LeftoverOK'
  BY <1>10 DEF LookUp, Returned, accVars, history
<1>11. ASSUME NEW t \in Remover, CloseFound(t) PROVE LeftoverOK'
  BY <1>11 DEF CloseFound, CloseChecks, SetClosed, DropSubscriptions, SendStops, Rest,
     accVars, history
<1>12. ASSUME NEW t \in Remover, Delete(t) PROVE LeftoverOK'
  BY <1>12 DEF Delete, Returned, accVars, history
<1>13. ASSUME BeginShutdown PROVE LeftoverOK'
  BY <1>13 DEF BeginShutdown, accVars, history
<1>14. ASSUME CloseListener PROVE LeftoverOK'
  BY <1>14 DEF CloseListener, accVars, history
<1>15. ASSUME ListPeers PROVE LeftoverOK'
  BY <1>15 DEF ListPeers, accVars, history
<1>16. ASSUME NextPeer PROVE LeftoverOK'
  BY <1>16 DEF NextPeer, accVars, history
<1>17. CASE UNCHANGED vars
  BY <1>17 DEF vars, accVars, history
<1>. QED
  BY <1>1, <1>2, <1>3, <1>4, <1>5, <1>6, <1>6j, <1>7, <1>8, <1>8c, <1>9,
     <1>10, <1>11, <1>12, <1>13, <1>14, <1>15, <1>16, <1>17
  DEF Next, AcceptorStep, ShutdownStep, RemoverStep, ResetStep

\* When Shutdown is done at most one connection runs on, however many there were
\* and whoever else removed peers meanwhile (metalbond.go 509-527), of those whose
\* address no other used too early.
THEOREM ShutdownReachesAllButOne == Spec => []ShutdownLeavesOne
<1>1. ShutdownInv /\ [Next]_vars => ShutdownInv'
  BY StepKeepsFoundInv, StepKeepsLeftover DEF ShutdownInv, FoundInv
<1>2. ShutdownInv => ShutdownLeavesOne
  <2>. SUFFICES ASSUME ShutdownInv, Resting, at[Main] = "done"
                PROVE  Cardinality({o \in Incoming : life[o] = "open" /\ AddrOf[o] \notin reused})
                           <= 1
    BY DEF ShutdownLeavesOne
  <2>. DEFINE S == {o \in Incoming : life[o] = "open" /\ AddrOf[o] \notin reused}
  <2>1. \A o, x \in S : o = x
    BY DEF ShutdownInv, LeftoverOK, Leftover, Listed
  <2>2. CASE S = {}
    BY <2>2, FS_EmptySet
  <2>3. CASE S # {}
    <3>1. PICK x \in S : S = {x}
      BY <2>1, <2>3
    <3>2. Cardinality({x}) = 1
      BY FS_Singleton
    <3>3. Cardinality(S) = 1
      BY <3>1, <3>2
    <3>. HIDE DEF S
    <3>4. Cardinality(S) <= 1
      BY <3>3
    <3>. QED
      BY <3>4 DEF S
  <2>. QED
    BY <2>2, <2>3
<1>3. Init => ShutdownInv
  BY InitFound DEF ShutdownInv
<1>. QED
  BY <1>1, <1>2, <1>3, PTL DEF Spec
=============================================================================
