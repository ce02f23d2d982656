------------------------------ MODULE Framing ------------------------------
(***************************************************************************)
(* Messages on the connection: what Serialize writes and deserialize reads *)
(* back (types.go 127-342), the packet sendMessage puts around it (peer.go *)
(* 672-712), and how rxLoop finds the packets in what Read returns         *)
(* (364-461).                                                              *)
(*                                                                         *)
(* A packet is HdrLen cells of header and the cells of its body; a cell is *)
(* the packet's number and a place in it.  TCP keeps the order but not the *)
(* packets: Read returns any number of cells, into a buffer that still has *)
(* the cells of earlier Reads.  Bytes that are not those of one packet     *)
(* mean anything, and the model ends where the loop takes them for a       *)
(* message (pc "astray").                                                  *)
(***************************************************************************)
EXTENDS Integers, Sequences, FiniteSets

CONSTANTS Route,      \* records vni, dest (version, prefix), hop (address, vni, type, ports)
          VNI,        \* the networks subscribed to
          NoPorts,    \* a hop without port range
          BodyLen(_), \* the length of a message once serialized
          BufSize,    \* 65535 in the code
          MaxBody,    \* 1188 in the code
          MaxSent     \* bound: messages sent

HdrLen == 4

ASSUME RouteForm ==
    \A r \in Route :
        /\ r = [vni |-> r.vni, dest |-> r.dest, hop |-> r.hop]
        /\ r.dest = [version |-> r.dest.version, prefix |-> r.dest.prefix]
        /\ r.hop = [address |-> r.hop.address, vni |-> r.hop.vni, type |-> r.hop.type,
                    ports |-> r.hop.ports]
\* Two hops that differ in their ports alone are NAT hops: the command line
\* takes ports for no other type.
ASSUME RouteAssumption ==
    \A r, s \in Route : [r.hop EXCEPT !.ports = NoPorts] = [s.hop EXCEPT !.ports = NoPorts]
        /\ r.vni = s.vni /\ r.dest = s.dest /\ r.hop.type # "NAT" => r = s
ASSUME SizeAssumption ==
    BufSize \in Nat /\ MaxBody \in Nat /\ MaxSent \in Nat /\ BufSize > HdrLen

Type == {"HELLO", "KEEPALIVE", "SUBSCRIBE", "UNSUBSCRIBE", "UPDATE"}
Hello(isServer) == [type |-> "HELLO", isServer |-> isServer]
Keepalive == [type |-> "KEEPALIVE"]
Subscription(type, v) == [type |-> type, vni |-> v]
UpdateMsg(action, r) == [type |-> "UPDATE", action |-> action, route |-> r]

Message ==
    {Hello(b) : b \in BOOLEAN} \union {Keepalive}
        \union {Subscription(t, v) : t \in {"SUBSCRIBE", "UNSUBSCRIBE"}, v \in VNI}
        \union {UpdateMsg(a, r) : a \in {"ADD", "REMOVE"}, r \in Route}

ASSUME LengthAssumption == \A m \in Message : BodyLen(m) \in Nat

VARIABLES mine,       \* the routes the sender announces
          sent,       \* the messages written, in order
          unread,     \* cells of the connection that were not read yet
          buf, bytesRead, pktStart,
          pc,         \* where rxLoop is
          got,        \* messages put into each rx channel
          cut         \* history: a Read ended inside a packet

vars == <<mine, sent, unread, buf, bytesRead, pktStart, pc, got, cut>>

-----------------------------------------------------------------------------
(* The codec.                                                              *)

\* Mutant of Serialize: no hop has ports.
SerializeWithoutPorts(m) ==
    IF m.type = "UPDATE" THEN [m EXCEPT !.route.hop.ports = NoPorts] ELSE m

\* Only a NAT hop keeps its ports.
Serialize(m) ==
    IF m.type = "UPDATE" /\ m.route.hop.type # "NAT"
      THEN [m EXCEPT !.route.hop.ports = NoPorts] ELSE m

\* What is not REMOVE is ADD, what is not IPv4 is IPv6, and no HELLO says that
\* its sender is a server.
Deserialize(w) ==
    CASE w.type = "HELLO" -> [w EXCEPT !.isServer = FALSE]
      [] w.type = "UPDATE" ->
           [w EXCEPT !.action = IF @ = "REMOVE" THEN "REMOVE" ELSE "ADD",
                     !.route.dest.version = IF @ = "IPv4" THEN "IPv4" ELSE "IPv6"]
      [] OTHER -> w

\* A route whose version is neither, and a message that is too long, are refused.
Serializable(m) ==
    /\ BodyLen(m) <= MaxBody
    /\ m.type = "UPDATE" => m.route.dest.version \in {"IPv4", "IPv6"}

-----------------------------------------------------------------------------
(* The sender.                                                             *)

Blank == <<0, 0>>
PacketLen(n) == HdrLen + BodyLen(sent[n])

Init ==
    /\ mine = {} /\ sent = <<>> /\ unread = <<>>
    /\ buf = [i \in 1 .. BufSize |-> Blank] /\ bytesRead = 0 /\ pktStart = 0
    /\ pc = "read"
    /\ got = [t \in Type |-> <<>>]
    /\ cut = FALSE

\* sendMessage and txLoop: a packet is written as a whole, or not at all.
SendMessage(m) ==
    /\ Len(sent) < MaxSent
    /\ Serializable(m)
    /\ sent' = Append(sent, m)
    /\ unread' = unread \o [i \in 1 .. HdrLen + BodyLen(m) |-> <<Len(sent) + 1, i>>]
    /\ UNCHANGED <<buf, bytesRead, pktStart, pc, got, cut>>

\* A route is added when it is not announced and removed when it is.
Send ==
    \E m \in Message :
        /\ SendMessage(m)
        /\ IF m.type = "UPDATE"
             THEN IF m.action = "ADD"
                    THEN m.route \notin mine /\ mine' = mine \union {m.route}
                    ELSE m.route \in mine /\ mine' = mine \ {m.route}
             ELSE UNCHANGED mine

-----------------------------------------------------------------------------
(* rxLoop.                                                                 *)

\* k cells arrive.  A full buffer closes the connection.
Read(k) ==
    /\ pc = "read" /\ k \in 1 .. Len(unread) /\ k <= BufSize
    /\ buf' = [i \in 1 .. BufSize |-> IF i <= k THEN unread[i] ELSE buf[i]]
    /\ unread' = SubSeq(unread, k + 1, Len(unread))
    /\ bytesRead' = k /\ pktStart' = 0
    /\ cut' = (cut \/ unread[k][2] # PacketLen(unread[k][1]))
    /\ pc' = IF k >= BufSize THEN "reset" ELSE "parse"
    /\ UNCHANGED <<mine, sent, got>>

\* The header at pktStart is that of packet n; so is the body.
Header(n) == \A j \in 1 .. HdrLen : pktStart + j <= BufSize /\ buf[pktStart + j] = <<n, j>>
Body(n) == \A j \in HdrLen + 1 .. PacketLen(n) : buf[pktStart + j] = <<n, j>>

Stop(why) ==
    /\ pc' = why
    /\ UNCHANGED <<mine, sent, unread, buf, bytesRead, pktStart, got, cut>>

\* Mutant of Deliver: one packet of each Read is parsed.
DeliverOne(m, end) ==
    /\ got' = [got EXCEPT ![m.type] = Append(@, m)]
    /\ pktStart' = end
    /\ pc' = "read"
    /\ UNCHANGED <<mine, sent, unread, buf, bytesRead, cut>>

\* Mutant of Deliver: there is always another packet at the end of the Read.
DeliverAndParseOn(m, end) ==
    /\ got' = [got EXCEPT ![m.type] = Append(@, m)]
    /\ pktStart' = end
    /\ pc' = IF end <= bytesRead THEN "parse" ELSE "read"
    /\ UNCHANGED <<mine, sent, unread, buf, bytesRead, cut>>

\* Into the channel of its type; then the next packet, or the next Read.
Deliver(m, end) ==
    /\ got' = [got EXCEPT ![m.type] = Append(@, m)]
    /\ pktStart' = end
    /\ pc' = IF end < bytesRead THEN "parse" ELSE "read"
    /\ UNCHANGED <<mine, sent, unread, buf, bytesRead, cut>>

\* Mutant of ParsePacket: the header is not counted.
ParseBodyOnly(n) ==
    /\ pc = "parse" /\ Header(n)
    /\ LET end == pktStart + BodyLen(sent[n])
       IN  Deliver(Deserialize(Serialize(sent[n])), end)

\* A body the buffer has no room for panics; one that was not read as a whole has
\* bytes of earlier packets in it, and is an error or another message: then the
\* loop goes on astray, at a place that need not be a header.
ParsePacket(n) ==
    /\ pc = "parse" /\ Header(n)
    /\ LET end == pktStart + PacketLen(n)
       IN  IF end > BufSize THEN Stop("panic")
           ELSE \/ Body(n) /\ Deliver(Deserialize(Serialize(sent[n])), end)
                \/ ~Body(n) /\ (Stop("reset") \/ Stop("astray"))

\* Not a header: another version, an unknown type, a length past the buffer, or
\* a message.
ParseGarbage ==
    /\ pc = "parse" /\ \A n \in 1 .. Len(sent) : ~Header(n)
    /\ \/ Stop("reset")
       \/ /\ buf[pktStart + 1] # Blank
          /\ Stop("exited") \/ Stop("panic") \/ Stop("astray")

-----------------------------------------------------------------------------

RxLoop ==
    \/ \E k \in 1 .. Len(unread) : Read(k)
    \/ \E n \in 1 .. Len(sent) : ParsePacket(n)
    \/ ParseGarbage

Next == Send \/ RxLoop

Spec == Init /\ [][Next]_vars
\* The receive loop runs as long as there is something to read.
FairSpec == Spec /\ WF_vars(RxLoop)

-----------------------------------------------------------------------------
(* Properties.                                                             *)

\* What a message should arrive as: no HELLO says who is a server, and ports are
\* a matter of NAT hops.
Heard(m) ==
    IF m.type = "HELLO" THEN Hello(FALSE)
    ELSE IF m.type = "UPDATE" /\ m.route.hop.type # "NAT"
           THEN [m EXCEPT !.route.hop.ports = NoPorts] ELSE m

\* The type invariant: the parser stays inside what was read.
TypeOK ==
    /\ mine \subseteq Route /\ sent \in Seq(Message) /\ unread \in Seq(Nat \X Nat)
    /\ buf \in [1 .. BufSize -> Nat \X Nat]
    /\ bytesRead \in 0 .. BufSize /\ pktStart \in 0 .. BufSize
    /\ pc \in {"read", "parse", "reset", "exited", "panic", "astray"}
    /\ pc = "parse" => pktStart < bytesRead
    /\ got \in [Type -> Seq({Heard(m) : m \in Message})]
    /\ cut \in BOOLEAN

\* How many of the first d messages are of type t.
Count(d, t) == Cardinality({k \in 1 .. d : sent[k].type = t})

\* The channels hold the first d messages and nothing else, each channel those of
\* its type, as they should arrive and in the order they were sent.
Arrived(d) ==
    /\ \A t \in Type : Len(got[t]) = Count(d, t)
    /\ \A n \in 1 .. d : got[sent[n].type][Count(n, sent[n].type)] = Heard(sent[n])

\* Until the loop takes for a message what is none, what arrived is a beginning of
\* what was sent, across all channels; and the loop ends for no other reason than a
\* full buffer (peer.go 386-390) or a Read that ended inside a packet (the TODO at
\* 371).
PacketsSurvive ==
    /\ pc # "astray" => \E d \in 0 .. Len(sent) : Arrived(d)
    /\ pc \in {"read", "parse"} \/ (pc = "reset" /\ bytesRead = BufSize) \/ cut

\* The routes a receiver holds, from the UPDATEs it got.
Held ==
    LET u == got["UPDATE"]
        last(r) == {i \in 1 .. Len(u) : u[i].route = r /\ \A j \in i + 1 .. Len(u) : u[j].route # r}
    IN  {r \in {u[i].route : i \in 1 .. Len(u)} : \E i \in last(r) : u[i].action = "ADD"}

\* Once all is read the receiver holds what the sender announces, and a withdrawn
\* route is gone: NAT hops that share an address are told apart by their ports,
\* and withdrawing one leaves the others (types.go 245-248, peer_test.go 408).
RoutesSurvive ==
    unread = <<>> /\ pc = "read" => Held = {Heard(UpdateMsg("ADD", r)).route : r \in mine}

\* Every message arrives in the end, unless a Read cut a packet or filled the
\* buffer (peer.go 457-459).
EverythingArrives ==
    []<>(cut \/ bytesRead = BufSize \/ \A t \in Type : Len(got[t]) = Count(Len(sent), t))
=============================================================================
