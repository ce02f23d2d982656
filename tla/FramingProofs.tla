--------------------------- MODULE FramingProofs ---------------------------
(***************************************************************************)
(* Proofs about the codec and the receive loop, for any routes, networks,  *)
(* message lengths, size of the buffer and number of messages.             *)
(***************************************************************************)
EXTENDS Framing, FiniteSetTheorems, SequenceTheorems, TLAPS

-----------------------------------------------------------------------------
(* The invariant.  Cells lie in the order of the stream, said of each cell *)
(* from the place its packet begins at, so that no proof counts cells.     *)

\* The lengths of the packets.
PacketLens == [n \in 1 .. Len(sent) |-> PacketLen(n)]

\* Cell i of q belongs to a packet n that begins right after place from, which is
\* not before lo; as far as hi, the packet's cells and the packet after it are
\* where they should be.
InPlace(len, q, lo, hi, i) ==
    \E n \in DOMAIN len : \E from \in lo .. i - 1 :
        /\ i <= from + len[n]
        /\ \A k \in 1 .. len[n] : from + k <= hi => q[from + k] = <<n, k>>
        /\ from + len[n] + 1 <= hi => q[from + len[n] + 1] = <<n + 1, 1>>

\* The cells of q after lo, up to hi, are packets that follow each other.
Stream(len, q, lo, hi) == \A i \in lo + 1 .. hi : InPlace(len, q, lo, hi, i)

\* Packet c ends with cell e.
Ends(len, q, e, c) == q[e] = <<c, len[c]>>

\* Packet n is the last before those that were not read, and they are whole.
Follows(n) ==
    /\ Stream(PacketLens, unread, 0, Len(unread))
    /\ IF unread = <<>> THEN n = Len(sent)
       ELSE /\ unread[1] = <<n + 1, 1>>
            /\ unread[Len(unread)] = <<Len(sent), PacketLens[Len(sent)]>>

\* At a Read everything before was delivered, and the buffer holds its cells.
ReadOK(d) ==
    pc = "read" =>
        /\ ~cut /\ Follows(d)
        /\ \A i \in 1 .. BufSize : buf[i][1] <= d

\* At a header the next packet is the first of those that are left of this Read;
\* all around them are cells of packets that were delivered.
ParseOK(d) ==
    pc = "parse" =>
        /\ pktStart < bytesRead /\ bytesRead < BufSize
        /\ buf[pktStart + 1] = <<d + 1, 1>>
        /\ Stream(PacketLens, buf, pktStart, bytesRead)
        /\ \A i \in 1 .. BufSize : i <= pktStart \/ i > bytesRead => buf[i][1] <= d
        /\ cut \/ Follows(buf[bytesRead][1])
        /\ cut = (buf[bytesRead][2] # PacketLens[buf[bytesRead][1]])

\* A loop that ended did so at a full buffer, or where a Read cut a packet.
EndOK == pc \notin {"read", "parse"} => cut \/ (pc = "reset" /\ bytesRead = BufSize)

\* There is no message in a channel that is not one of the first d.
NoOther(d) ==
    \A t \in Type : \A i \in 1 .. Len(got[t]) :
        \E n \in 1 .. d : sent[n].type = t /\ Count(n, t) = i

SentOK == \A n \in 1 .. Len(sent) : Serializable(sent[n])

\* The sender announces the routes whose last UPDATE was an ADD.
MineOK ==
    \A r \in Route :
        r \in mine <=>
            \E n \in 1 .. Len(sent) :
                /\ sent[n] = UpdateMsg("ADD", r)
                /\ \A k \in n + 1 .. Len(sent) : sent[k].type = "UPDATE" => sent[k].route # r

\* d messages were delivered.
Delivered(d) == Arrived(d) /\ NoOther(d) /\ ReadOK(d) /\ ParseOK(d)

Inv == TypeOK /\ SentOK /\ MineOK /\ EndOK /\ \E d \in 0 .. Len(sent) : Delivered(d)

-----------------------------------------------------------------------------
(* The codec.                                                              *)

\* The route of an UPDATE as it should arrive.
HeardRoute(r) ==
    [vni |-> r.vni, dest |-> r.dest,
     hop |-> [address |-> r.hop.address, vni |-> r.hop.vni, type |-> r.hop.type,
              ports |-> IF r.hop.type = "NAT" THEN r.hop.ports ELSE NoPorts]]

\* Every message has one of the types, and an UPDATE an action and a route.
LEMMA MessageForm ==
    ASSUME NEW m \in Message
    PROVE  /\ m.type \in Type /\ BodyLen(m) \in Nat
           /\ m.type = "HELLO" => \E b \in BOOLEAN : m = Hello(b)
           /\ m.type = "UPDATE" =>
                 \E a \in {"ADD", "REMOVE"} : \E r \in Route : m = UpdateMsg(a, r)
<1>1. BodyLen(m) \in Nat
  BY LengthAssumption
<1>2. CASE \E b \in BOOLEAN : m = Hello(b)
  BY <1>1, <1>2 DEF Hello, Type
<1>3. CASE m = Keepalive
  BY <1>1, <1>3 DEF Keepalive, Type
<1>4. CASE \E t \in {"SUBSCRIBE", "UNSUBSCRIBE"}, v \in VNI : m = Subscription(t, v)
  BY <1>1, <1>4 DEF Subscription, Type
<1>5. CASE \E a \in {"ADD", "REMOVE"}, r \in Route : m = UpdateMsg(a, r)
  BY <1>1, <1>5 DEF UpdateMsg, Type
<1>. QED
  BY <1>2, <1>3, <1>4, <1>5 DEF Message

\* What an UPDATE should arrive as.
LEMMA HeardUpdate ==
    ASSUME NEW a, NEW r \in Route
    PROVE  Heard(UpdateMsg(a, r)) = UpdateMsg(a, HeardRoute(r))
<1>1. /\ r = [vni |-> r.vni, dest |-> r.dest, hop |-> r.hop]
      /\ r.hop = [address |-> r.hop.address, vni |-> r.hop.vni, type |-> r.hop.type,
                  ports |-> r.hop.ports]
  BY RouteForm
<1>2. CASE r.hop.type = "NAT"
  BY <1>1, <1>2 DEF Heard, UpdateMsg, HeardRoute
<1>3. CASE r.hop.type # "NAT"
  <2>1. Heard(UpdateMsg(a, r)) = [UpdateMsg(a, r) EXCEPT !.route.hop.ports = NoPorts]
    BY <1>3 DEF Heard, UpdateMsg
  <2>2. [r.hop EXCEPT !.ports = NoPorts] = HeardRoute(r).hop
    BY <1>1, <1>3 DEF HeardRoute
  <2>3. [r EXCEPT !.hop.ports = NoPorts] = HeardRoute(r)
    BY <1>1, <2>2 DEF HeardRoute
  <2>. QED
    BY <2>1, <2>3 DEF UpdateMsg
<1>. QED
  BY <1>2, <1>3

\* deserialize reads what Serialize wrote as the message it should be.
LEMMA RoundTrip ==
    ASSUME NEW m \in Message, Serializable(m)
    PROVE  Deserialize(Serialize(m)) = Heard(m) /\ Heard(m).type = m.type
<1>1. CASE m.type = "HELLO"
  <2>1. PICK b \in BOOLEAN : m = Hello(b)
    BY <1>1, MessageForm
  <2>2. Serialize(m) = m /\ Deserialize(m) = [m EXCEPT !.isServer = FALSE]
    BY <1>1 DEF Serialize, Deserialize
  <2>3. [m EXCEPT !.isServer = FALSE] = Hello(FALSE)
    <3>1. \A x, y : [Hello(x) EXCEPT !.isServer = y] = Hello(y)
      BY DEF Hello
    <3>. QED
      BY <2>1, <3>1, Zenon
  <2>. QED
    BY <1>1, <2>2, <2>3 DEF Heard, Hello
<1>2. CASE m.type = "UPDATE"
  <2>1. PICK a \in {"ADD", "REMOVE"}, r \in Route : m = UpdateMsg(a, r)
    BY <1>2, MessageForm
  <2>2. Heard(m) = UpdateMsg(a, HeardRoute(r))
    BY <2>1, HeardUpdate
  <2>3. Serialize(m) = Heard(m)
    BY <1>2 DEF Serialize, Heard
  <2>4. r.dest.version \in {"IPv4", "IPv6"}
    BY <1>2, <2>1 DEF Serializable, UpdateMsg
  <2>5. r.dest = [version |-> r.dest.version, prefix |-> r.dest.prefix]
    BY RouteForm
  <2>. DEFINE h == HeardRoute(r)
              w == UpdateMsg(a, h)
              version == IF h.dest.version = "IPv4" THEN "IPv4" ELSE "IPv6"
  <2>6. h.dest = r.dest /\ version = r.dest.version
    BY <2>4 DEF HeardRoute
  <2>7. [h EXCEPT !.dest.version = version] = h
    BY <2>5, <2>6 DEF HeardRoute
  <2>8. Deserialize(w) = w
    BY <2>7 DEF Deserialize, UpdateMsg
  <2>. QED
    BY <1>2, <2>2, <2>3, <2>8 DEF UpdateMsg
<1>3. CASE m.type \notin {"HELLO", "UPDATE"}
  BY <1>3 DEF Deserialize, Serialize, Heard
<1>. QED
  BY <1>1, <1>2, <1>3

\* Two routes that arrive as one are one: a hop loses only ports it need not have.
LEMMA HeardRouteInjective ==
    ASSUME NEW r \in Route, NEW s \in Route, HeardRoute(r) = HeardRoute(s)
    PROVE  r = s
<1>. DEFINE Hop(x) == [address |-> x.hop.address, vni |-> x.hop.vni, type |-> x.hop.type,
                       ports |-> NoPorts]
<1>1. ASSUME NEW x \in Route PROVE [x.hop EXCEPT !.ports = NoPorts] = Hop(x)
  <2>1. x.hop = [address |-> x.hop.address, vni |-> x.hop.vni, type |-> x.hop.type,
                 ports |-> x.hop.ports]
    BY RouteForm
  <2>. QED
    BY <2>1
<1>2. /\ r.vni = s.vni /\ r.dest = s.dest
      /\ r.hop.address = s.hop.address /\ r.hop.vni = s.hop.vni /\ r.hop.type = s.hop.type
      /\ r.hop.type = "NAT" => r.hop.ports = s.hop.ports
  BY DEF HeardRoute
<1>3. CASE r.hop.type = "NAT"
  BY <1>2, <1>3, RouteForm
<1>4. CASE r.hop.type # "NAT"
  <2>1. [r.hop EXCEPT !.ports = NoPorts] = [s.hop EXCEPT !.ports = NoPorts]
    <3>1. Hop(r) = Hop(s)
      BY <1>2
    <3>. QED
      BY <1>1, <3>1, Zenon
  <2>. QED
    BY <1>2, <1>4, <2>1, RouteAssumption
<1>. QED
  BY <1>3, <1>4

-----------------------------------------------------------------------------
(* Counting.                                                               *)

\* The messages counted are finitely many.
LEMMA CountType ==
    ASSUME NEW d \in Nat, NEW t
    PROVE  /\ Count(d, t) \in Nat /\ IsFiniteSet({k \in 1 .. d : sent[k].type = t})
<1>. DEFINE S == {k \in 1 .. d : sent[k].type = t}
<1>1. IsFiniteSet(1 .. d)
  BY FS_Interval
<1>2. IsFiniteSet(S)
  BY <1>1, FS_Subset
<1>. QED
  BY <1>2, FS_CardinalityType DEF Count

\* One more message: one more of its type, and no other.
LEMMA CountNext ==
    ASSUME NEW d \in Nat, NEW t
    PROVE  Count(d + 1, t) = Count(d, t) + (IF sent[d + 1].type = t THEN 1 ELSE 0)
<1>. DEFINE S(n) == {k \in 1 .. n : sent[k].type = t}
<1>1. IsFiniteSet(S(d))
  BY CountType
<1>4. d + 1 \notin S(d)
  OBVIOUS
<1>2. CASE sent[d + 1].type = t
  <2>1. S(d + 1) = S(d) \union {d + 1}
    BY <1>2
  <2>2. Cardinality(S(d) \union {d + 1}) = Cardinality(S(d)) + 1
    BY <1>1, <1>4, FS_AddElement
  <2>. QED
    BY <1>2, <2>1, <2>2, Zenon DEF Count
<1>3. CASE sent[d + 1].type # t
  <2>1. S(d + 1) = S(d)
    BY <1>3
  <2>2. Count(d, t) \in Nat
    BY CountType
  <2>3. Count(d + 1, t) = Count(d, t)
    BY <2>1, Zenon DEF Count
  <2>. QED
    BY <1>3, <2>2, <2>3
<1>. QED
  BY <1>2, <1>3

\* A later message of the type has a higher count.
LEMMA CountGrows ==
    ASSUME NEW n \in Nat, NEW k \in Nat, n < k, NEW t, sent[k].type = t
    PROVE  Count(n, t) < Count(k, t)
<1>. DEFINE S(d) == {i \in 1 .. d : sent[i].type = t}
<1>1. IsFiniteSet(S(n)) /\ IsFiniteSet(S(k))
  BY CountType
<1>6. k \notin S(n)
  OBVIOUS
<1>2. Cardinality(S(n) \union {k}) = Cardinality(S(n)) + 1
  BY <1>1, <1>6, FS_AddElement
<1>3. S(n) \union {k} \subseteq S(k)
  OBVIOUS
<1>4. Cardinality(S(n) \union {k}) <= Cardinality(S(k))
  BY <1>1, <1>3, FS_Subset
<1>5. Count(n, t) \in Nat /\ Count(k, t) \in Nat
  BY CountType
<1>. QED
  BY <1>2, <1>4, <1>5 DEF Count

\* The count never falls.
LEMMA CountMonotone ==
    ASSUME NEW n \in Nat, NEW k \in Nat, n <= k, NEW t
    PROVE  Count(n, t) <= Count(k, t)
<1>. DEFINE S(d) == {i \in 1 .. d : sent[i].type = t}
<1>1. IsFiniteSet(S(k)) /\ S(n) \subseteq S(k)
  BY CountType
<1>2. Cardinality(S(n)) <= Cardinality(S(k))
  BY <1>1, FS_Subset
<1>. QED
  BY <1>2 DEF Count

-----------------------------------------------------------------------------
(* The stream of cells.                                                    *)

\* Every packet has a header.
LEMMA Lengths ==
    ASSUME sent \in Seq(Message)
    PROVE  /\ Len(sent) \in Nat /\ PacketLens \in [1 .. Len(sent) -> Nat]
           /\ \A n \in 1 .. Len(sent) :
                 /\ sent[n] \in Message /\ PacketLens[n] = PacketLen(n)
                 /\ PacketLens[n] >= HdrLen /\ HdrLen = 4
<1>1. ASSUME NEW n \in 1 .. Len(sent)
      PROVE  sent[n] \in Message /\ PacketLen(n) \in Nat /\ PacketLen(n) >= HdrLen
  <2>1. sent[n] \in Message
    OBVIOUS
  <2>2. BodyLen(sent[n]) \in Nat
    BY <2>1, MessageForm
  <2>. QED
    BY <2>1, <2>2 DEF PacketLen, HdrLen
<1>. QED
  BY <1>1 DEF PacketLens, HdrLen

\* After the end of a packet comes the beginning of another.
LEMMA StreamTail ==
    ASSUME NEW N \in Nat, NEW len \in [1 .. N -> Nat],
           NEW q, NEW lo \in Nat, NEW hi \in Nat, NEW e \in lo + 1 .. hi,
           Stream(len, q, lo, hi), NEW c, Ends(len, q, e, c)
    PROVE  Stream(len, q, e, hi)
<1>. SUFFICES ASSUME NEW i \in e + 1 .. hi PROVE InPlace(len, q, e, hi, i)
  BY DEF Stream
<1>a. i \in lo + 1 .. hi /\ i \in Nat /\ e \in Nat /\ e < i /\ e <= hi
  OBVIOUS
<1>b. InPlace(len, q, lo, hi, i)
  BY <1>a DEF Stream
<1>1. PICK n \in 1 .. N, from \in lo .. i - 1 :
        /\ i <= from + len[n]
        /\ \A k \in 1 .. len[n] : from + k <= hi => q[from + k] = <<n, k>>
        /\ from + len[n] + 1 <= hi => q[from + len[n] + 1] = <<n + 1, 1>>
  BY <1>b DEF InPlace
<1>. DEFINE l == len[n]
<1>2. l \in Nat /\ from \in Nat /\ i <= from + l
  BY <1>1, <1>a
<1>3. \A k \in 1 .. l : from + k <= hi => q[from + k] = <<n, k>>
  BY <1>1
<1>. HIDE DEF l
<1>4. from >= e
  <2>. SUFFICES ASSUME from < e PROVE FALSE
    BY <1>2, <1>a
  <2>1. PICK k \in Nat : from + k = e
    <3>1. e - from \in Nat /\ from + (e - from) = e
      BY <1>2, <1>a
    <3>. QED
      BY <3>1
  <2>2. k \in 1 .. l /\ k < l /\ from + k <= hi
    BY <2>1, <1>2, <1>a
  <2>3. q[e] = <<n, k>>
    BY <2>1, <2>2, <1>3
  <2>4. c = n /\ k = l
    BY <2>3 DEF l, Ends
  <2>. QED
    BY <2>2, <2>4
<1>5. from \in e .. i - 1
  BY <1>4, <1>2, <1>a
<1>. QED
  BY <1>1, <1>5 DEF InPlace

\* A cell of a stream is one of a packet.
LEMMA StreamCell ==
    ASSUME NEW N \in Nat, NEW len \in [1 .. N -> Nat],
           NEW q, NEW lo \in Nat, NEW hi \in Nat, NEW i \in lo + 1 .. hi,
           Stream(len, q, lo, hi)
    PROVE  q[i][1] \in 1 .. N /\ q[i] = <<q[i][1], q[i][2]>>
<1>1. InPlace(len, q, lo, hi, i)
  BY DEF Stream
<1>2. PICK n \in 1 .. N, from \in lo .. i - 1 :
        /\ i <= from + len[n]
        /\ \A k \in 1 .. len[n] : from + k <= hi => q[from + k] = <<n, k>>
  BY <1>1 DEF InPlace
<1>. DEFINE l == len[n]
<1>3. l \in Nat /\ from \in Nat /\ i <= from + l /\ i <= hi /\ from < i /\ i \in Nat
  BY <1>2
<1>4. \A k \in 1 .. l : from + k <= hi => q[from + k] = <<n, k>>
  BY <1>2
<1>. HIDE DEF l
<1>5. i - from \in 1 .. l /\ from + (i - from) = i
  BY <1>3
<1>6. q[i] = <<n, i - from>>
  BY <1>3, <1>4, <1>5
<1>. QED
  BY <1>6

\* The packet after one that ends at e.
LEMMA StreamNext ==
    ASSUME NEW N \in Nat, NEW len \in [1 .. N -> Nat],
           NEW q, NEW lo \in Nat, NEW hi \in Nat, NEW e \in lo + 1 .. hi,
           Stream(len, q, lo, hi), NEW c \in 1 .. N, Ends(len, q, e, c), e < hi
    PROVE  q[e + 1] = <<c + 1, 1>>
<1>a. e \in Nat /\ e <= hi
  OBVIOUS
<1>1. PICK n \in 1 .. N, from \in lo .. e - 1 :
        /\ e <= from + len[n]
        /\ \A k \in 1 .. len[n] : from + k <= hi => q[from + k] = <<n, k>>
        /\ from + len[n] + 1 <= hi => q[from + len[n] + 1] = <<n + 1, 1>>
  BY DEF Stream, InPlace
<1>. DEFINE l == len[n]
<1>2. l \in Nat /\ from \in Nat /\ e <= from + l /\ from < e
  BY <1>1, <1>a
<1>3. /\ \A k \in 1 .. l : from + k <= hi => q[from + k] = <<n, k>>
      /\ from + l + 1 <= hi => q[from + l + 1] = <<n + 1, 1>>
  BY <1>1
<1>. HIDE DEF l
<1>4. PICK k \in Nat : from + k = e
  <2>1. e - from \in Nat /\ from + (e - from) = e
    BY <1>2, <1>a
  <2>. QED
    BY <2>1
<1>5. k \in 1 .. l /\ from + k <= hi
  BY <1>4, <1>2, <1>a
<1>6. q[e] = <<n, k>>
  BY <1>4, <1>5, <1>3
<1>7. c = n /\ k = l
  BY <1>6 DEF l, Ends
<1>8. from + l + 1 = e + 1 /\ e + 1 <= hi
  BY <1>4, <1>7, <1>2, <1>a
<1>. QED
  BY <1>3, <1>7, <1>8

\* A beginning of a stream is one.
LEMMA StreamHead ==
    ASSUME NEW N \in Nat, NEW len \in [1 .. N -> Nat],
           NEW q, NEW r, NEW hi \in Nat, NEW e \in 0 .. hi,
           Stream(len, q, 0, hi), \A i \in 1 .. e : r[i] = q[i]
    PROVE  Stream(len, r, 0, e)
<1>. SUFFICES ASSUME NEW i \in 1 .. e PROVE InPlace(len, r, 0, e, i)
  BY DEF Stream
<1>a. i \in 1 .. hi /\ i \in Nat /\ e \in Nat /\ e <= hi
  OBVIOUS
<1>b. InPlace(len, q, 0, hi, i)
  BY <1>a DEF Stream
<1>1. PICK n \in 1 .. N, from \in 0 .. i - 1 :
        /\ i <= from + len[n]
        /\ \A k \in 1 .. len[n] : from + k <= hi => q[from + k] = <<n, k>>
        /\ from + len[n] + 1 <= hi => q[from + len[n] + 1] = <<n + 1, 1>>
  BY <1>b DEF InPlace
<1>. DEFINE l == len[n]
<1>2. l \in Nat /\ from \in Nat /\ n \in DOMAIN len
  BY <1>a
<1>. HIDE DEF l
<1>3. ASSUME NEW k \in 1 .. l, from + k <= e PROVE r[from + k] = <<n, k>>
  <2>1. from + k \in 1 .. e /\ from + k <= hi
    BY <1>2, <1>3, <1>a
  <2>. QED
    BY <1>1, <2>1 DEF l
<1>4. ASSUME from + l + 1 <= e PROVE r[from + l + 1] = <<n + 1, 1>>
  <2>1. from + l + 1 \in 1 .. e /\ from + l + 1 <= hi
    BY <1>2, <1>4, <1>a
  <2>. QED
    BY <1>1, <2>1 DEF l
<1>. QED
  BY <1>1, <1>2, <1>3, <1>4 DEF InPlace, l

\* What follows the first e cells of a stream, when they end a packet.
LEMMA StreamRest ==
    ASSUME NEW N \in Nat, NEW len \in [1 .. N -> Nat],
           NEW q, NEW r, NEW e \in Nat \ {0}, NEW rest \in Nat,
           Stream(len, q, 0, e + rest), NEW c, Ends(len, q, e, c),
           \A i \in 1 .. rest : r[i] = q[e + i]
    PROVE  Stream(len, r, 0, rest)
<1>. DEFINE hi == e + rest
<1>0. Stream(len, q, e, hi)
  <2>1. e \in 0 + 1 .. hi /\ hi \in Nat
    OBVIOUS
  <2>. QED
    BY <2>1, StreamTail
<1>. SUFFICES ASSUME NEW i \in 1 .. rest PROVE InPlace(len, r, 0, rest, i)
  BY DEF Stream
<1>a. e + i \in e + 1 .. hi /\ i \in Nat
  OBVIOUS
<1>1. PICK n \in 1 .. N, start \in e .. (e + i) - 1 :
        /\ e + i <= start + len[n]
        /\ \A k \in 1 .. len[n] : start + k <= hi => q[start + k] = <<n, k>>
        /\ start + len[n] + 1 <= hi => q[start + len[n] + 1] = <<n + 1, 1>>
  BY <1>0, <1>a DEF Stream, InPlace
<1>2. PICK from \in Nat : start = e + from
  <2>1. start - e \in Nat /\ start = e + (start - e)
    OBVIOUS
  <2>. QED
    BY <2>1
<1>. DEFINE l == len[n]
<1>3. l \in Nat /\ n \in DOMAIN len /\ i <= from + l /\ from \in 0 .. i - 1
  <2>1. l \in Nat /\ n \in DOMAIN len
    OBVIOUS
  <2>2. e + i <= start + l
    BY <1>1
  <2>. HIDE DEF l
  <2>. QED
    BY <2>1, <2>2, <1>2, <1>a
<1>. HIDE DEF l
<1>4. ASSUME NEW k \in 1 .. l, from + k <= rest PROVE r[from + k] = <<n, k>>
  <2>1. from + k \in 1 .. rest /\ start + k <= hi /\ start + k = e + (from + k)
    BY <1>2, <1>3, <1>4
  <2>. QED
    BY <1>1, <2>1 DEF l
<1>5. ASSUME from + l + 1 <= rest PROVE r[from + l + 1] = <<n + 1, 1>>
  <2>1. /\ from + l + 1 \in 1 .. rest /\ start + l + 1 <= hi
        /\ start + l + 1 = e + (from + l + 1)
    BY <1>2, <1>3, <1>5
  <2>. QED
    BY <1>1, <2>1 DEF l
<1>. QED
  BY <1>3, <1>4, <1>5 DEF InPlace, l

\* A stream goes on with a packet that is written after its last one.
LEMMA StreamAppend ==
    ASSUME NEW N \in Nat, NEW len \in [1 .. N -> Nat], NEW long \in [1 .. N + 1 -> Nat],
           \A n \in 1 .. N : long[n] = len[n],
           NEW q, NEW r, NEW hi \in Nat,
           Stream(len, q, 0, hi), hi # 0 => q[hi] = <<N, len[N]>>,
           \A i \in 1 .. hi : r[i] = q[i],
           NEW p \in Nat \ {0}, p = long[N + 1],
           \A i \in 1 .. p : r[hi + i] = <<N + 1, i>>
    PROVE  Stream(long, r, 0, hi + p)
<1>1. ASSUME NEW i \in 1 .. hi PROVE InPlace(long, r, 0, hi + p, i)
  <2>a. i \in Nat /\ i <= hi /\ hi # 0
    OBVIOUS
  <2>c. InPlace(len, q, 0, hi, i)
    BY DEF Stream
  <2>1. PICK n \in 1 .. N, from \in 0 .. i - 1 :
          /\ i <= from + len[n]
          /\ \A k \in 1 .. len[n] : from + k <= hi => q[from + k] = <<n, k>>
          /\ from + len[n] + 1 <= hi => q[from + len[n] + 1] = <<n + 1, 1>>
    BY <2>c DEF InPlace
  <2>. DEFINE l == len[n]
  <2>2. /\ l \in Nat /\ n \in DOMAIN long /\ long[n] = l /\ from \in Nat /\ from < i
        /\ i <= from + l
    BY <2>1, <2>a
  <2>b. /\ \A k \in 1 .. l : from + k <= hi => q[from + k] = <<n, k>>
        /\ from + l + 1 <= hi => q[from + l + 1] = <<n + 1, 1>>
    BY <2>1
  <2>. HIDE DEF l
  <2>3. from + l <= hi
    <3>. SUFFICES ASSUME from + l > hi PROVE FALSE
      BY <2>2
    <3>1. PICK k \in Nat : from + k = hi
      <4>1. hi - from \in Nat /\ from + (hi - from) = hi
        BY <2>2, <2>a
      <4>. QED
        BY <4>1
    <3>2. k \in 1 .. l /\ k < l /\ from + k <= hi
      BY <3>1, <2>2, <2>a
    <3>3. q[hi] = <<n, k>>
      BY <2>b, <3>1, <3>2
    <3>4. N = n /\ k = l
      BY <3>3, <2>a DEF l
    <3>. QED
      BY <3>2, <3>4
  <2>4. ASSUME NEW k \in 1 .. l PROVE r[from + k] = <<n, k>>
    <3>1. from + k \in 1 .. hi /\ from + k <= hi
      BY <2>2, <2>3
    <3>. QED
      BY <3>1, <2>b
  <2>5. r[from + l + 1] = <<n + 1, 1>>
    <3>1. CASE from + l + 1 <= hi
      <4>1. from + l + 1 \in 1 .. hi
        BY <3>1, <2>2
      <4>. QED
        BY <4>1, <3>1, <2>b
    <3>2. CASE from + l = hi
      <4>1. l \in 1 .. l
        BY <2>2
      <4>2. q[hi] = <<n, l>>
        BY <4>1, <3>2, <2>b
      <4>3. n = N
        BY <4>2, <2>a
      <4>4. r[hi + 1] = <<N + 1, 1>>
        OBVIOUS
      <4>. QED
        BY <4>3, <4>4, <3>2
    <3>. QED
      BY <3>1, <3>2, <2>2, <2>3
  <2>. QED
    BY <2>2, <2>4, <2>5 DEF InPlace
<1>2. ASSUME NEW j \in 1 .. p PROVE InPlace(long, r, 0, hi + p, hi + j)
  <2>1. /\ hi \in 0 .. (hi + j) - 1 /\ hi + j <= hi + p /\ N + 1 \in DOMAIN long
        /\ ~(hi + p + 1 <= hi + p)
    OBVIOUS
  <2>. QED
    BY <2>1 DEF InPlace
<1>3. ASSUME NEW i \in 1 .. hi + p PROVE i \in 1 .. hi \/ \E j \in 1 .. p : i = hi + j
  <2>1. i \in 1 .. hi \/ (i - hi \in 1 .. p /\ i = hi + (i - hi))
    OBVIOUS
  <2>. QED
    BY <2>1
<1>. QED
  BY <1>1, <1>2, <1>3 DEF Stream

\* A stream stays one when more is sent.
LEMMA StreamLonger ==
    ASSUME NEW N \in Nat, NEW len \in [1 .. N -> Nat], NEW long \in [1 .. N + 1 -> Nat],
           \A n \in 1 .. N : long[n] = len[n],
           NEW q, NEW lo, NEW hi, Stream(len, q, lo, hi)
    PROVE  Stream(long, q, lo, hi)
<1>1. \A n \in DOMAIN len : n \in DOMAIN long /\ long[n] = len[n]
  OBVIOUS
<1>2. ASSUME NEW i, InPlace(len, q, lo, hi, i) PROVE InPlace(long, q, lo, hi, i)
  <2>1. PICK n \in DOMAIN len, from \in lo .. i - 1 :
          /\ i <= from + len[n]
          /\ \A k \in 1 .. len[n] : from + k <= hi => q[from + k] = <<n, k>>
          /\ from + len[n] + 1 <= hi => q[from + len[n] + 1] = <<n + 1, 1>>
    BY <1>2 DEF InPlace
  <2>2. n \in DOMAIN long /\ long[n] = len[n]
    BY <1>1
  <2>. QED
    BY <2>1, <2>2 DEF InPlace
<1>. QED
  BY <1>2 DEF Stream

-----------------------------------------------------------------------------
(* The start, and sending.                                                 *)

\* Nothing was sent, read or delivered.
LEMMA InitInv == Init => Inv
<1>. SUFFICES ASSUME Init PROVE Inv
  OBVIOUS
<1>. USE DEF Init
<1>1. TypeOK
  <2>1. <<0, 0>> \in Nat \X Nat /\ buf = [i \in 1 .. BufSize |-> <<0, 0>>]
    BY DEF Blank
  <2>2. buf \in [1 .. BufSize -> Nat \X Nat]
    BY <2>1, Zenon
  <2>3. got \in [Type -> Seq({Heard(m) : m \in Message})]
    OBVIOUS
  <2>4. cut \in BOOLEAN
    BY Zenon
  <2>. QED
    BY <2>2, <2>3, <2>4, SizeAssumption DEF TypeOK
<1>2. SentOK /\ MineOK /\ EndOK
  BY DEF SentOK, MineOK, EndOK
<1>3. \A t \in Type : Count(0, t) = 0
  <2>1. \A t \in Type : {k \in 1 .. 0 : sent[k].type = t} = {}
    OBVIOUS
  <2>. QED
    BY <2>1, FS_EmptySet DEF Count
<1>4. Arrived(0) /\ NoOther(0)
  BY <1>3 DEF Arrived, NoOther
<1>5. ReadOK(0) /\ ParseOK(0)
  BY DEF ReadOK, ParseOK, Follows, Stream, Blank
<1>6. 0 \in 0 .. Len(sent) /\ Delivered(0)
  BY <1>4, <1>5 DEF Delivered
<1>. QED
  BY <1>1, <1>2, <1>6 DEF Inv

\* A message that is sent changes nothing about the ones before it.
LEMMA SentGrows ==
    ASSUME TypeOK, NEW m \in Message, sent' = Append(sent, m)
    PROVE  /\ sent' \in Seq(Message) /\ Len(sent') = Len(sent) + 1 /\ Len(sent) \in Nat
           /\ \A n \in 1 .. Len(sent) : sent'[n] = sent[n] /\ PacketLens'[n] = PacketLens[n]
           /\ sent'[Len(sent) + 1] = m
           /\ PacketLens \in [1 .. Len(sent) -> Nat]
           /\ PacketLens' \in [1 .. Len(sent) + 1 -> Nat]
           /\ PacketLens'[Len(sent) + 1] = HdrLen + BodyLen(m)
           /\ HdrLen + BodyLen(m) \in Nat \ {0}
           /\ \A n \in 0 .. Len(sent) : \A t : Count(n, t)' = Count(n, t)
<1>. sent \in Seq(Message)
  BY DEF TypeOK
<1>1. /\ sent' \in Seq(Message) /\ Len(sent') = Len(sent) + 1 /\ Len(sent) \in Nat
      /\ \A n \in 1 .. Len(sent) : sent'[n] = sent[n]
      /\ sent'[Len(sent) + 1] = m
  OBVIOUS
<1>2. PacketLens' = [n \in 1 .. Len(sent') |-> HdrLen + BodyLen(sent'[n])]
  BY DEF PacketLens, PacketLen
<1>3. PacketLens = [n \in 1 .. Len(sent) |-> HdrLen + BodyLen(sent[n])]
  BY DEF PacketLens, PacketLen
<1>5. HdrLen + BodyLen(m) \in Nat \ {0}
  BY MessageForm DEF HdrLen
<1>6. PacketLens \in [1 .. Len(sent) -> Nat]
  BY Lengths
<1>7. \A n \in 1 .. Len(sent) : PacketLens'[n] = PacketLens[n]
  BY <1>1, <1>2, <1>3
<1>8. PacketLens'[Len(sent) + 1] = HdrLen + BodyLen(m)
  BY <1>1, <1>2
<1>9. PacketLens' \in [1 .. Len(sent) + 1 -> Nat]
  <2>1. \A n \in 1 .. Len(sent') : BodyLen(sent'[n]) \in Nat
    BY <1>1, MessageForm
  <2>. QED
    BY <1>1, <1>2, <2>1 DEF HdrLen
<1>4. ASSUME NEW n \in 0 .. Len(sent), NEW t PROVE Count(n, t)' = Count(n, t)
  <2>1. {k \in 1 .. n : sent'[k].type = t} = {k \in 1 .. n : sent[k].type = t}
    BY <1>1
  <2>. QED
    BY <2>1, Zenon DEF Count
<1>. QED
  BY <1>1, <1>4, <1>5, <1>6, <1>7, <1>8, <1>9

\* The cells of a packet are written after those that were not read.
LEMMA SendUnread ==
    ASSUME TypeOK, NEW m \in Message, SendMessage(m)
    PROVE  /\ unread' \in Seq(Nat \X Nat) /\ Len(unread) \in Nat
           /\ Len(unread') = Len(unread) + (HdrLen + BodyLen(m))
           /\ \A i \in 1 .. Len(unread) : unread'[i] = unread[i]
           /\ \A i \in 1 .. HdrLen + BodyLen(m) :
                 unread'[Len(unread) + i] = <<Len(sent) + 1, i>>
<1>. DEFINE L == Len(unread)
            N == Len(sent)
            p == HdrLen + BodyLen(m)
            new == [i \in 1 .. p |-> <<N + 1, i>>]
<1>0. sent' = Append(sent, m) /\ unread' = unread \o new
  BY DEF SendMessage
<1>t. sent \in Seq(Message) /\ unread \in Seq(Nat \X Nat) /\ L \in Nat /\ N \in Nat
  BY DEF TypeOK
<1>g. p \in Nat \ {0}
  BY <1>0, SentGrows
<1>. HIDE DEF N, p
<1>2. new \in Seq(Nat \X Nat) /\ Len(new) = p /\ \A i \in 1 .. p : new[i] = <<N + 1, i>>
  <2>1. p \in Nat /\ \A i \in 1 .. p : <<N + 1, i>> \in Nat \X Nat
    BY <1>g, <1>t
  <2>2. new \in [1 .. p -> Nat \X Nat] /\ \A i \in 1 .. p : new[i] = <<N + 1, i>>
    BY <2>1, Zenon
  <2>3. new \in Seq(Nat \X Nat)
    <3>. HIDE DEF new
    <3>. QED
      BY <2>1, <2>2, SeqDef, ZenonT(40)
  <2>4. Len(new) \in Nat /\ DOMAIN new = 1 .. Len(new) /\ DOMAIN new = 1 .. p
    BY <2>3, LenProperties
  <2>5. Len(new) = p
    <3>. HIDE DEF new
    <3>1. p \in 1 .. Len(new)
      BY <1>g, <2>4
    <3>2. Len(new) \in 1 .. p
      BY <3>1, <2>4
    <3>. QED
      BY <3>1, <3>2, <2>1
  <2>. QED
    BY <2>2, <2>3, <2>5
<1>. HIDE DEF L, new
<1>3. /\ unread' \in Seq(Nat \X Nat) /\ Len(unread') = L + p
      /\ \A i \in 1 .. L + p : unread'[i] = IF i <= L THEN unread[i] ELSE new[i - L]
  BY <1>0, <1>2, <1>t, ConcatProperties DEF L
<1>4. ASSUME NEW i \in 1 .. p PROVE unread'[L + i] = <<N + 1, i>>
  <2>1. L + i \in 1 .. L + p /\ ~(L + i <= L) /\ (L + i) - L = i
    BY <1>g, <1>t
  <2>. QED
    BY <2>1, <1>2, <1>3
<1>5. ASSUME NEW i \in 1 .. L PROVE unread'[i] = unread[i]
  <2>1. i \in 1 .. L + p /\ i <= L
    BY <1>g, <1>t
  <2>. QED
    BY <2>1, <1>3
<1>. QED
  BY <1>t, <1>3, <1>4, <1>5 DEF L, N, p

\* The packet that is written follows the ones that were not read.
LEMMA SendFollows ==
    ASSUME TypeOK, NEW m \in Message, SendMessage(m), NEW c, Follows(c)
    PROVE  Follows(c)'
<1>. DEFINE L == Len(unread)
            N == Len(sent)
            p == HdrLen + BodyLen(m)
<1>0. sent' = Append(sent, m)
  BY DEF SendMessage
<1>t. sent \in Seq(Message) /\ unread \in Seq(Nat \X Nat) /\ L \in Nat /\ N \in Nat
  BY DEF TypeOK
<1>g. /\ Len(sent') = N + 1 /\ p \in Nat \ {0} /\ p = PacketLens'[N + 1]
      /\ PacketLens \in [1 .. N -> Nat] /\ PacketLens' \in [1 .. N + 1 -> Nat]
      /\ \A n \in 1 .. N : PacketLens'[n] = PacketLens[n]
  BY <1>0, SentGrows
<1>f. /\ Stream(PacketLens, unread, 0, L)
      /\ L = 0 => c = N
      /\ L # 0 => unread[1] = <<c + 1, 1>> /\ unread[L] = <<N, PacketLens[N]>>
  BY <1>t DEF Follows
<1>3. /\ Len(unread') = L + p /\ \A i \in 1 .. L : unread'[i] = unread[i]
      /\ \A i \in 1 .. p : unread'[L + i] = <<N + 1, i>> /\ unread' \in Seq(Nat \X Nat)
  BY SendUnread
<1>. HIDE DEF L, N, p
<1>5. Stream(PacketLens', unread', 0, L + p)
  BY <1>t, <1>g, <1>f, <1>3, StreamAppend
<1>6. unread'[1] = <<c + 1, 1>>
  <2>1. CASE L = 0
    BY <2>1, <1>f, <1>3, <1>g, <1>t
  <2>2. CASE L # 0
    BY <2>2, <1>f, <1>3, <1>t
  <2>. QED
    BY <2>1, <2>2
<1>7. unread'[L + p] = <<N + 1, PacketLens'[N + 1]>> /\ L + p # 0
  <2>1. p \in 1 .. p /\ L + p # 0
    BY <1>g, <1>t
  <2>. QED
    BY <2>1, <1>3, <1>g
<1>8. unread' # <<>>
  BY <1>3, <1>7
<1>. QED
  BY <1>3, <1>5, <1>6, <1>7, <1>8, <1>g DEF Follows

\* A message that is sent is the last of its type and of its route.
LEMMA SendMine == Inv /\ Send => MineOK'
<1>. SUFFICES ASSUME Inv, NEW m \in Message, SendMessage(m),
                     IF m.type = "UPDATE"
                       THEN IF m.action = "ADD"
                              THEN m.route \notin mine /\ mine' = mine \union {m.route}
                              ELSE m.route \in mine /\ mine' = mine \ {m.route}
                       ELSE UNCHANGED mine
              PROVE  MineOK'
  BY DEF Send
<1>. DEFINE N == Len(sent)
            Last(r, n) == /\ sent[n] = UpdateMsg("ADD", r)
                          /\ \A k \in n + 1 .. N : sent[k].type = "UPDATE" => sent[k].route # r
            Other(r) == m.type = "UPDATE" => m.route # r
<1>0. TypeOK /\ sent' = Append(sent, m)
  BY DEF Inv, SendMessage
<1>g. /\ Len(sent') = N + 1 /\ N \in Nat /\ sent'[N + 1] = m
      /\ \A n \in 1 .. N : sent'[n] = sent[n]
  BY <1>0, SentGrows
<1>1. \A r \in Route : r \in mine <=> \E n \in 1 .. N : Last(r, n)
  BY DEF Inv, MineOK
<1>. SUFFICES ASSUME NEW r \in Route
              PROVE  r \in mine' <=>
                       \E n \in 1 .. N + 1 :
                          /\ sent'[n] = UpdateMsg("ADD", r)
                          /\ \A k \in n + 1 .. N + 1 :
                                sent'[k].type = "UPDATE" => sent'[k].route # r
  BY <1>g DEF MineOK
<1>. HIDE DEF N
<1>2. CASE Other(r)
  <2>1. r \in mine' <=> r \in mine
    BY <1>2
  <2>2. m # UpdateMsg("ADD", r)
    BY <1>2 DEF UpdateMsg
  <2>3. ASSUME NEW n \in 1 .. N, Last(r, n)
        PROVE  /\ n \in 1 .. N + 1 /\ sent'[n] = UpdateMsg("ADD", r)
               /\ \A k \in n + 1 .. N + 1 : sent'[k].type = "UPDATE" => sent'[k].route # r
    <3>1. \A k \in n + 1 .. N + 1 : k \in (n + 1 .. N) \cap (1 .. N) \/ k = N + 1
      BY <1>g
    <3>. QED
      BY <2>3, <3>1, <1>2, <1>g
  <2>4. ASSUME NEW n \in 1 .. N + 1, sent'[n] = UpdateMsg("ADD", r),
               \A k \in n + 1 .. N + 1 : sent'[k].type = "UPDATE" => sent'[k].route # r
        PROVE  n \in 1 .. N /\ Last(r, n)
    <3>1. n \in 1 .. N
      BY <2>2, <2>4, <1>g
    <3>2. \A k \in n + 1 .. N : k \in n + 1 .. N + 1 /\ k \in 1 .. N
      BY <3>1, <1>g
    <3>. QED
      BY <2>4, <3>1, <3>2, <1>g
  <2>. QED
    BY <2>1, <2>3, <2>4, <1>1
<1>3. CASE ~Other(r)
  <2>1. PICK a \in {"ADD", "REMOVE"} : m = UpdateMsg(a, r)
    BY <1>3, MessageForm DEF UpdateMsg
  <2>2. r \in mine' <=> a = "ADD"
    BY <2>1 DEF UpdateMsg
  <2>3. m.type = "UPDATE" /\ m.route = r /\ m.action = a
    BY <2>1 DEF UpdateMsg
  <2>4. ASSUME NEW n \in 1 .. N + 1, sent'[n] = UpdateMsg("ADD", r),
               \A k \in n + 1 .. N + 1 : sent'[k].type = "UPDATE" => sent'[k].route # r
        PROVE  a = "ADD"
    <3>1. n = N + 1
      BY <2>3, <2>4, <1>g
    <3>. QED
      BY <3>1, <2>3, <2>4, <1>g DEF UpdateMsg
  <2>5. a = "ADD" => /\ N + 1 \in 1 .. N + 1 /\ sent'[N + 1] = UpdateMsg("ADD", r)
                     /\ \A k \in (N + 1) + 1 .. N + 1 : FALSE
    BY <1>g, <2>1
  <2>. QED
    BY <2>2, <2>4, <2>5
<1>. QED
  BY <1>2, <1>3

\* Sending leaves what was delivered and what was read alone.
LEMMA SendInv == Inv /\ Send => Inv'
<1>. SUFFICES ASSUME Inv, Send PROVE Inv'
  OBVIOUS
<1>m. PICK m \in Message : SendMessage(m) /\ (UNCHANGED mine \/ m.type = "UPDATE")
  BY DEF Send
<1>0. TypeOK /\ sent' = Append(sent, m) /\ Serializable(m)
  BY <1>m DEF Inv, SendMessage
<1>u. UNCHANGED <<buf, bytesRead, pktStart, pc, got, cut>>
  BY <1>m DEF SendMessage
<1>g. /\ sent' \in Seq(Message) /\ Len(sent') = Len(sent) + 1 /\ Len(sent) \in Nat
      /\ \A n \in 1 .. Len(sent) : sent'[n] = sent[n] /\ PacketLens'[n] = PacketLens[n]
      /\ sent'[Len(sent) + 1] = m
      /\ PacketLens \in [1 .. Len(sent) -> Nat]
      /\ PacketLens' \in [1 .. Len(sent) + 1 -> Nat]
      /\ \A n \in 0 .. Len(sent) : \A t : Count(n, t)' = Count(n, t)
  BY <1>0, SentGrows
<1>1. TypeOK'
  <2>1. mine' \subseteq Route
    <3>1. mine \subseteq Route
      BY <1>0 DEF TypeOK
    <3>2. \A x \in Message : x.type = "UPDATE" => x.route \in Route
      BY MessageForm DEF UpdateMsg
    <3>. QED
      BY <3>1, <3>2 DEF Send
  <2>2. unread' \in Seq(Nat \X Nat)
    BY <1>0, <1>m, SendUnread
  <2>. QED
    BY <1>0, <1>u, <1>g, <2>1, <2>2 DEF TypeOK
<1>2. SentOK'
  <2>1. \A n \in 1 .. Len(sent') : sent'[n] = m \/ (n \in 1 .. Len(sent) /\ sent'[n] = sent[n])
    BY <1>g
  <2>2. \A n \in 1 .. Len(sent) : Serializable(sent[n])
    BY DEF Inv, SentOK
  <2>. QED
    BY <1>0, <2>1, <2>2 DEF SentOK, Serializable
<1>3. MineOK'
  BY SendMine
<1>4. EndOK'
  BY <1>u DEF Inv, EndOK
<1>5. PICK d \in 0 .. Len(sent) : Delivered(d)
  BY DEF Inv
<1>6. (Arrived(d) /\ NoOther(d))'
  <2>1. \A n \in 1 .. d : sent'[n] = sent[n] /\ \A t : Count(n, t)' = Count(n, t)
    BY <1>g
  <2>2. \A t : Count(d, t)' = Count(d, t)
    BY <1>g
  <2>. QED
    BY <1>5, <1>u, <2>1, <2>2 DEF Delivered, Arrived, NoOther
<1>7. ReadOK(d)'
  <2>. SUFFICES ASSUME pc = "read" PROVE ReadOK(d)'
    BY <1>u DEF ReadOK
  <2>1. ~cut /\ Follows(d) /\ \A i \in 1 .. BufSize : buf[i][1] <= d
    BY <1>5 DEF Delivered, ReadOK
  <2>2. Follows(d)'
    BY <1>0, <1>m, <2>1, SendFollows
  <2>. QED
    BY <1>u, <2>1, <2>2 DEF ReadOK
<1>8. ParseOK(d)'
  <2>. SUFFICES ASSUME pc = "parse" PROVE ParseOK(d)'
    BY <1>u DEF ParseOK
  <2>1. /\ pktStart < bytesRead /\ bytesRead < BufSize /\ buf[pktStart + 1] = <<d + 1, 1>>
        /\ Stream(PacketLens, buf, pktStart, bytesRead)
        /\ \A i \in 1 .. BufSize : i <= pktStart \/ i > bytesRead => buf[i][1] <= d
        /\ cut \/ Follows(buf[bytesRead][1])
        /\ cut = (buf[bytesRead][2] # PacketLens[buf[bytesRead][1]])
    BY <1>5 DEF Delivered, ParseOK
  <2>2. Stream(PacketLens', buf, pktStart, bytesRead)
    BY <1>g, <2>1, StreamLonger
  <2>3. cut \/ Follows(buf[bytesRead][1])'
    <3>1. PICK c : c = buf[bytesRead][1] /\ c = buf'[bytesRead'][1]
      BY <1>u
    <3>2. cut \/ Follows(c)'
      BY <1>0, <1>m, <2>1, <3>1, SendFollows
    <3>. QED
      BY <3>1, <3>2 DEF Follows
  <2>4. PacketLens'[buf[bytesRead][1]] = PacketLens[buf[bytesRead][1]]
    <3>1. bytesRead \in pktStart + 1 .. bytesRead /\ pktStart \in Nat /\ bytesRead \in Nat
      BY <1>0, <2>1, SizeAssumption DEF TypeOK
    <3>2. buf[bytesRead][1] \in 1 .. Len(sent)
      BY <3>1, <2>1, <1>g, StreamCell
    <3>. QED
      BY <3>2, <1>g
  <2>. QED
    BY <1>u, <2>1, <2>2, <2>3, <2>4 DEF ParseOK
<1>9. d \in 0 .. Len(sent')
  BY <1>g
<1>. QED
  BY <1>1, <1>2, <1>3, <1>4, <1>6, <1>7, <1>8, <1>9 DEF Inv, Delivered

-----------------------------------------------------------------------------
(* Reading.                                                                *)

\* A Read puts the next cells into the buffer: packets from their beginning, and
\* whole ones unless the Read cut the last.
LEMMA ReadInv == Inv /\ (\E k \in 1 .. Len(unread) : Read(k)) => Inv'
<1>. SUFFICES ASSUME Inv, NEW k \in 1 .. Len(unread), Read(k) PROVE Inv'
  OBVIOUS
<1>0. TypeOK /\ SentOK /\ MineOK /\ pc = "read"
  BY DEF Inv, Read
<1>u. /\ UNCHANGED <<mine, sent, got>> /\ bytesRead' = k /\ pktStart' = 0
      /\ pc' = IF k >= BufSize THEN "reset" ELSE "parse"
      /\ buf' = [i \in 1 .. BufSize |-> IF i <= k THEN unread[i] ELSE buf[i]]
      /\ unread' = SubSeq(unread, k + 1, Len(unread)) /\ k <= BufSize
  BY DEF Read
<1>. DEFINE L == Len(unread)
            N == Len(sent)
            rest == L - k
<1>t. /\ sent \in Seq(Message) /\ unread \in Seq(Nat \X Nat)
      /\ buf \in [1 .. BufSize -> Nat \X Nat]
  BY <1>0 DEF TypeOK
<1>n. /\ L \in Nat /\ N \in Nat /\ BufSize \in Nat /\ 0 \in Nat
      /\ k \in Nat \ {0} /\ k <= L /\ rest \in Nat /\ k + rest = L /\ k \in 0 + 1 .. L
  BY <1>t, SizeAssumption
<1>q. \A i \in 1 .. L : unread[i] \in Nat \X Nat
  BY <1>t, ElementOfSeq
<1>p. PacketLens' = PacketLens /\ PacketLens \in [1 .. N -> Nat]
  BY <1>u, <1>t, Lengths DEF PacketLens, PacketLen
<1>d. PICK d \in 0 .. N : Delivered(d)
  BY DEF Inv
<1>r. /\ ~cut /\ Follows(d) /\ \A i \in 1 .. BufSize : buf[i][1] <= d
  BY <1>d, <1>0 DEF Delivered, ReadOK
<1>f. /\ Stream(PacketLens, unread, 0, L) /\ unread[1] = <<d + 1, 1>>
      /\ unread[L] = <<N, PacketLens[N]>>
  BY <1>r, <1>t DEF Follows
<1>v. unread' = SubSeq(unread, k + 1, L) /\ N = Len(sent')
  BY <1>u
<1>. HIDE DEF L, N, rest
<1>s. /\ unread' \in Seq(Nat \X Nat) /\ Len(unread') = rest
      /\ \A i \in 1 .. rest : unread'[i] = unread[k + i]
  <2>1. /\ \A i \in k + 1 .. L : unread[i] \in Nat \X Nat
        /\ k + 1 \in Int /\ L \in Int
    BY <1>q, <1>n
  <2>2. /\ unread' \in Seq(Nat \X Nat)
        /\ Len(unread') = IF k + 1 <= L THEN L - (k + 1) + 1 ELSE 0
        /\ \A i \in 1 .. L - (k + 1) + 1 : unread'[i] = unread[(k + 1) + i - 1]
    BY <2>1, <1>v, SubSeqProperties
  <2>3. L - (k + 1) + 1 = rest /\ \A i \in 1 .. rest : (k + 1) + i - 1 = k + i
    BY <1>n
  <2>4. Len(unread') = rest
    BY <2>2, <2>3, <1>n
  <2>. QED
    BY <2>2, <2>3, <2>4
<1>c. PICK c \in 1 .. N : c = unread[k][1] /\ unread[k] = <<c, unread[k][2]>>
  <2>1. unread[k][1] \in 1 .. N /\ unread[k] = <<unread[k][1], unread[k][2]>>
    BY <1>f, <1>p, <1>n, StreamCell
  <2>. QED
    BY <2>1, Zenon
<1>e. cut' = (unread[k][2] # PacketLens[c])
  <2>1. PacketLens[c] = PacketLen(c)
    BY <1>c, <1>t, Lengths DEF N
  <2>2. cut' = (cut \/ unread[k][2] # PacketLen(c))
    BY <1>c DEF Read
  <2>. QED
    BY <2>1, <2>2, <1>r, Zenon
<1>b. /\ \A i \in 1 .. BufSize : i <= k => buf'[i] = unread[i]
      /\ \A i \in 1 .. BufSize : i > k => buf'[i] = buf[i]
      /\ buf' \in [1 .. BufSize -> Nat \X Nat]
  <2>1. \A i \in 1 .. BufSize : (IF i <= k THEN unread[i] ELSE buf[i]) \in Nat \X Nat
    <3>1. \A i \in 1 .. BufSize : i <= k => i \in 1 .. L
      BY <1>n
    <3>. QED
      BY <3>1, <1>q, <1>t
  <2>2. buf' \in [1 .. BufSize -> Nat \X Nat]
    BY <2>1, <1>u, Zenon
  <2>3. \A i \in 1 .. BufSize : buf'[i] = IF i <= k THEN unread[i] ELSE buf[i]
    BY <1>u, Zenon
  <2>. QED
    BY <2>2, <2>3, <1>n
<1>1. TypeOK'
  <2>1. cut' \in BOOLEAN
    BY <1>e, Zenon
  <2>2. bytesRead' \in 0 .. BufSize /\ pktStart' \in 0 .. BufSize
    BY <1>u, <1>n
  <2>3. /\ pc' \in {"read", "parse", "reset", "exited", "panic", "astray"}
        /\ pc' = "parse" => pktStart' < bytesRead'
    BY <1>u, <1>n
  <2>. QED
    BY <1>0, <1>u, <1>s, <1>b, <2>1, <2>2, <2>3 DEF TypeOK
<1>2. SentOK' /\ MineOK'
  BY <1>0, <1>u DEF SentOK, MineOK, Serializable
<1>3. EndOK'
  BY <1>u, <1>n DEF EndOK
<1>4. (Arrived(d) /\ NoOther(d))'
  <2>1. \A n, t : Count(n, t)' = Count(n, t)
    BY <1>u DEF Count
  <2>. QED
    BY <1>d, <1>u, <2>1 DEF Delivered, Arrived, NoOther
<1>5. ReadOK(d)'
  BY <1>u DEF ReadOK
<1>6. ParseOK(d)'
  <2>0. k >= BufSize => pc' = "reset"
    BY <1>u
  <2>. SUFFICES ASSUME k < BufSize PROVE ParseOK(d)'
    <3>1. CASE k >= BufSize
      BY <2>0, <3>1 DEF ParseOK
    <3>. QED
      BY <3>1, <1>n
  <2>1. Stream(PacketLens', buf', 0, k)
    <3>1. k \in 0 .. L /\ \A i \in 1 .. k : buf'[i] = unread[i]
      BY <1>b, <1>n, <1>u
    <3>. QED
      BY <3>1, <1>p, <1>f, <1>n, StreamHead
  <2>2. \A i \in 1 .. BufSize : i > k => buf'[i][1] <= d
    BY <1>b, <1>r
  <2>3. buf'[1] = <<d + 1, 1>> /\ buf'[k] = unread[k]
    BY <1>b, <1>f, <1>n
  <2>4. ASSUME Ends(PacketLens, unread, k, c) PROVE Follows(c)'
    <3>1. Stream(PacketLens', unread', 0, Len(unread'))
      <4>1. Stream(PacketLens, unread, 0, k + rest)
        BY <1>f, <1>n
      <4>. QED
        BY <4>1, <2>4, <1>p, <1>s, <1>n, StreamRest
    <3>2. CASE rest = 0
      <4>1. k = L
        BY <3>2, <1>n
      <4>2. c = N /\ unread' = <<>>
        BY <4>1, <3>2, <2>4, <1>f, <1>s DEF Ends
      <4>. QED
        BY <3>1, <4>2, <1>v DEF Follows
    <3>3. CASE rest # 0
      <4>1. k + 1 <= L /\ 1 \in 1 .. rest /\ rest \in 1 .. rest
        BY <3>3, <1>n
      <4>2. unread[k + 1] = <<c + 1, 1>>
        <5>1. /\ N \in Nat /\ PacketLens \in [1 .. N -> Nat] /\ 0 \in Nat /\ L \in Nat
              /\ k \in 0 + 1 .. L /\ Stream(PacketLens, unread, 0, L)
          BY <1>p, <1>f, <1>n
        <5>2. k < L
          BY <4>1, <1>n
        <5>. QED
          BY <2>4, <5>1, <5>2, StreamNext
      <4>3. unread'[1] = <<c + 1, 1>> /\ unread'[rest] = <<N, PacketLens'[N]>> /\ unread' # <<>>
        <5>1. unread'[1] = unread[k + 1] /\ unread'[rest] = unread[k + rest]
          BY <4>1, <1>s
        <5>2. unread[k + rest] = <<N, PacketLens[N]>>
          BY <1>f, <1>n
        <5>3. unread' # <<>>
          BY <3>3, <1>s
        <5>. QED
          BY <5>1, <5>2, <5>3, <4>2, <1>p
      <4>. QED
        BY <3>1, <4>3, <1>s, <1>v DEF Follows
    <3>. QED
      BY <3>2, <3>3
  <2>5. cut' \/ Follows(buf[bytesRead][1])'
    <3>1. PICK x : x = c /\ x = buf'[bytesRead'][1]
      BY <2>3, <1>u, <1>c
    <3>2. cut' \/ Follows(x)'
      BY <2>4, <3>1, <1>c, <1>e DEF Ends
    <3>. QED
      BY <3>1, <3>2 DEF Follows
  <2>6. cut' = (buf'[k][2] # PacketLens'[buf'[k][1]])
    BY <2>3, <1>e, <1>p, <1>c
  <2>7. /\ pktStart' < bytesRead' /\ bytesRead' < BufSize /\ buf'[pktStart' + 1] = <<d + 1, 1>>
        /\ \A i \in 1 .. BufSize : i <= pktStart' \/ i > bytesRead' => buf'[i][1] <= d
    <3>1. pktStart' = 0 /\ bytesRead' = k
      BY <1>u
    <3>2. \A i \in 1 .. BufSize : ~(i <= 0)
      BY <1>n
    <3>3. 0 < k /\ 0 + 1 = 1
      BY <1>n
    <3>. QED
      BY <2>2, <2>3, <3>1, <3>2, <3>3
  <2>. QED
    BY <2>1, <2>5, <2>6, <2>7, <1>u DEF ParseOK
<1>. QED
  BY <1>1, <1>2, <1>3, <1>4, <1>5, <1>6, <1>u DEF Inv, Delivered, N

-----------------------------------------------------------------------------
(* Parsing.                                                                *)

\* What the parser finds at pktStart: the next packet or a part of it, the whole
\* of it unless the Read was cut, and never one that a header or a body that
\* stayed from an earlier Read completes.
LEMMA ParseFacts ==
    ASSUME TypeOK, pc = "parse", NEW d \in Nat, ParseOK(d)
    PROVE  /\ d + 1 \in 1 .. Len(sent) /\ PacketLen(d + 1) \in Nat
           /\ PacketLens[d + 1] = PacketLen(d + 1)
           /\ \A n \in 1 .. Len(sent) : Header(n) => n = d + 1
           /\ \A k \in 1 .. PacketLen(d + 1) :
                 pktStart + k <= bytesRead => buf[pktStart + k] = <<d + 1, k>>
           /\ pktStart + PacketLen(d + 1) + 1 <= bytesRead =>
                 buf[pktStart + PacketLen(d + 1) + 1] = <<d + 2, 1>>
           /\ Header(d + 1) /\ Body(d + 1) /\ pktStart + PacketLen(d + 1) <= BufSize =>
                 pktStart + PacketLen(d + 1) <= bytesRead
           /\ ~cut => /\ Header(d + 1) /\ Body(d + 1)
                      /\ pktStart + PacketLen(d + 1) <= bytesRead
<1>. DEFINE N == Len(sent)
            n == d + 1
            l == PacketLens[n]
<1>t. /\ sent \in Seq(Message) /\ buf \in [1 .. BufSize -> Nat \X Nat]
      /\ pktStart \in Nat /\ bytesRead \in Nat /\ BufSize \in Nat
  BY SizeAssumption DEF TypeOK
<1>p. /\ pktStart < bytesRead /\ bytesRead < BufSize /\ buf[pktStart + 1] = <<n, 1>>
      /\ Stream(PacketLens, buf, pktStart, bytesRead)
      /\ \A i \in 1 .. BufSize : i > bytesRead => buf[i][1] <= d
      /\ cut = (buf[bytesRead][2] # PacketLens[buf[bytesRead][1]])
  BY DEF ParseOK
<1>n. /\ pktStart \in Nat /\ bytesRead \in Nat /\ BufSize \in Nat
      /\ pktStart < bytesRead /\ bytesRead < BufSize
  BY <1>t, <1>p
<1>1. N \in Nat /\ PacketLens \in [1 .. N -> Nat]
  BY <1>t, Lengths
<1>2. pktStart + 1 \in pktStart + 1 .. bytesRead
  BY <1>p, <1>t
<1>3. InPlace(PacketLens, buf, pktStart, bytesRead, pktStart + 1)
  BY <1>2, <1>p DEF Stream
<1>4. PICK x \in 1 .. N, from \in pktStart .. (pktStart + 1) - 1 :
        /\ pktStart + 1 <= from + PacketLens[x]
        /\ \A k \in 1 .. PacketLens[x] : from + k <= bytesRead => buf[from + k] = <<x, k>>
        /\ from + PacketLens[x] + 1 <= bytesRead => buf[from + PacketLens[x] + 1] = <<x + 1, 1>>
  BY <1>1, <1>3 DEF InPlace
<1>5. from = pktStart /\ PacketLens[x] \in Nat /\ PacketLens[x] >= 4
  <2>1. PacketLens[x] \in Nat /\ PacketLens[x] >= 4
    BY <1>1, <1>t, Lengths
  <2>2. from = pktStart
    BY <1>n
  <2>. QED
    BY <2>1, <2>2
<1>6. x = n
  <2>1. 1 \in 1 .. PacketLens[x] /\ pktStart + 1 <= bytesRead
    BY <1>5, <1>2, <1>t
  <2>2. buf[pktStart + 1] = <<x, 1>>
    BY <1>4, <1>5, <2>1
  <2>. QED
    BY <2>2, <1>p
<1>7. n \in 1 .. N /\ l = PacketLen(n) /\ l \in Nat /\ l >= HdrLen /\ HdrLen = 4
  BY <1>5, <1>6, <1>t, Lengths
<1>8. /\ \A k \in 1 .. l : pktStart + k <= bytesRead => buf[pktStart + k] = <<n, k>>
      /\ pktStart + l + 1 <= bytesRead => buf[pktStart + l + 1] = <<n + 1, 1>>
  BY <1>4, <1>5, <1>6
<1>. HIDE DEF l, N, n
<1>9. \A y \in 1 .. N : Header(y) => y = n
  <2>1. 1 \in 1 .. HdrLen
    BY <1>7
  <2>. QED
    BY <2>1, <1>p DEF Header
<1>10. ASSUME Header(n), Body(n), pktStart + l <= BufSize PROVE pktStart + l <= bytesRead
  <2>1. buf[pktStart + l] = <<n, l>>
    <3>1. l \in 1 .. HdrLen \/ l \in HdrLen + 1 .. PacketLen(n)
      BY <1>7
    <3>. QED
      BY <3>1, <1>10 DEF Header, Body
  <2>2. pktStart + l \in 1 .. BufSize
    BY <1>10, <1>7, <1>n
  <2>3. ~(n <= d)
    BY DEF n
  <2>4. ~(pktStart + l > bytesRead)
    BY <2>1, <2>2, <2>3, <1>p
  <2>. QED
    BY <2>4, <1>7, <1>t
<1>11. ASSUME ~cut PROVE Header(n) /\ Body(n) /\ pktStart + l <= bytesRead
  <2>1. pktStart + l <= bytesRead
    <3>. SUFFICES ASSUME pktStart + l > bytesRead PROVE FALSE
      BY <1>7, <1>t
    <3>1. PICK k \in Nat : pktStart + k = bytesRead
      <4>1. bytesRead - pktStart \in Nat /\ pktStart + (bytesRead - pktStart) = bytesRead
        BY <1>p, <1>t
      <4>. QED
        BY <4>1
    <3>2. k \in 1 .. l /\ k < l /\ pktStart + k <= bytesRead
      <4>1. l \in Nat /\ pktStart + l > bytesRead
        BY <1>7
      <4>. QED
        BY <3>1, <4>1, <1>n
    <3>3. buf[bytesRead] = <<n, k>>
      BY <3>1, <3>2, <1>8
    <3>4. buf[bytesRead][2] = PacketLens[buf[bytesRead][1]]
      BY <1>11, <1>p
    <3>. QED
      BY <3>2, <3>3, <3>4 DEF l
  <2>2. \A k \in 1 .. l : pktStart + k <= BufSize /\ buf[pktStart + k] = <<n, k>>
    <3>1. \A k \in 1 .. l : pktStart + k <= bytesRead /\ pktStart + k <= BufSize
      <4>1. l \in Nat
        BY <1>7
      <4>. QED
        BY <2>1, <4>1, <1>n
    <3>. QED
      BY <3>1, <1>8
  <2>3. (\A k \in 1 .. HdrLen : k \in 1 .. l) /\ \A k \in HdrLen + 1 .. l : k \in 1 .. l
    BY <1>7
  <2>. QED
    BY <2>1, <2>2, <2>3, <1>7 DEF Header, Body
<1>12. n = d + 1 /\ n + 1 = d + 2
  BY DEF n
<1>. QED
  BY <1>7, <1>8, <1>9, <1>10, <1>11, <1>12 DEF N, l

\* The loop may end where a Read cut a packet.
LEMMA StopInv ==
    ASSUME Inv, NEW why \in {"reset", "exited", "panic", "astray"}, Stop(why), cut
    PROVE  Inv'
<1>u. pc' = why /\ UNCHANGED <<mine, sent, unread, buf, bytesRead, pktStart, got, cut>>
  BY DEF Stop
<1>1. TypeOK'
  BY <1>u DEF Inv, TypeOK
<1>2. SentOK' /\ MineOK'
  BY <1>u DEF Inv, SentOK, MineOK, Serializable
<1>3. EndOK'
  BY <1>u DEF EndOK
<1>4. PICK d \in 0 .. Len(sent) : Delivered(d)
  BY DEF Inv
<1>5. (Arrived(d) /\ NoOther(d))'
  <2>1. \A n, t : Count(n, t)' = Count(n, t)
    BY <1>u DEF Count
  <2>. QED
    BY <1>4, <1>u, <2>1 DEF Delivered, Arrived, NoOther
<1>6. ReadOK(d)' /\ ParseOK(d)'
  BY <1>u DEF ReadOK, ParseOK
<1>. QED
  BY <1>1, <1>2, <1>3, <1>5, <1>6, <1>u DEF Inv, Delivered

\* The next message goes to the end of the channel of its type.
LEMMA DeliverArrives ==
    ASSUME TypeOK, NEW d \in Nat, d + 1 \in 1 .. Len(sent), Arrived(d), NoOther(d),
           UNCHANGED sent, Heard(sent[d + 1]).type = sent[d + 1].type,
           got' = [got EXCEPT ![sent[d + 1].type] = Append(@, Heard(sent[d + 1]))]
    PROVE  /\ Arrived(d + 1)' /\ NoOther(d + 1)'
           /\ got' \in [Type -> Seq({Heard(m) : m \in Message})]
<1>. DEFINE H == {Heard(m) : m \in Message}
            s == sent[d + 1].type
            h == Heard(sent[d + 1])
<1>t. sent \in Seq(Message) /\ got \in [Type -> Seq(H)]
  BY DEF TypeOK
<1>m. \A n \in 1 .. Len(sent) : sent[n] \in Message /\ sent[n].type \in Type
  BY <1>t, MessageForm
<1>h. h \in H /\ s \in Type
  BY <1>m
<1>g. got' = [got EXCEPT ![s] = Append(@, h)]
  OBVIOUS
<1>c. \A n, t : Count(n, t)' = Count(n, t)
  BY DEF Count
<1>k. \A n \in Nat : \A t : Count(n, t) \in Nat
  BY CountType
<1>l. \A t \in Type : Len(got[t]) = Count(d, t)
  BY DEF Arrived
<1>n. \A t \in Type : Count(d + 1, t) = Count(d, t) + (IF s = t THEN 1 ELSE 0)
  BY CountNext
<1>. HIDE DEF H, s, h
<1>1. /\ got' \in [Type -> Seq(H)]
      /\ \A t \in Type : t # s => got'[t] = got[t]
      /\ got'[s] = Append(got[s], h)
  BY <1>t, <1>h, <1>g
<1>2. /\ got[s] \in Seq(H) /\ Len(got'[s]) = Len(got[s]) + 1
      /\ got'[s][Len(got[s]) + 1] = h
      /\ \A i \in 1 .. Len(got[s]) : got'[s][i] = got[s][i]
  BY <1>1, <1>t, <1>h, AppendProperties
<1>3. ASSUME NEW t \in Type PROVE Len(got'[t]) = Count(d + 1, t)
  <2>1. CASE t = s
    BY <2>1, <1>2, <1>l, <1>n, <1>h
  <2>2. CASE t # s
    BY <2>2, <1>1, <1>l, <1>n, <1>k
  <2>. QED
    BY <2>1, <2>2
<1>4. ASSUME NEW n \in 1 .. d + 1
      PROVE  got'[sent[n].type][Count(n, sent[n].type)] = Heard(sent[n])
  <2>. DEFINE t == sent[n].type
              i == Count(n, t)
  <2>1. CASE n = d + 1
    <3>1. t = s /\ i = Len(got[s]) + 1
      BY <2>1, <1>n, <1>l, <1>h DEF s
    <3>. QED
      BY <2>1, <3>1, <1>2 DEF h
  <2>2. CASE n \in 1 .. d
    <3>1. t \in Type /\ n \in Nat /\ n <= d /\ 0 < n
      BY <2>2, <1>m
    <3>2. got[t][i] = Heard(sent[n])
      BY <2>2 DEF Arrived
    <3>3. Count(0, t) < i /\ i <= Count(d, t)
      BY <3>1, CountGrows, CountMonotone
    <3>4. i \in 1 .. Len(got[t])
      BY <3>1, <3>3, <1>k, <1>l
    <3>. HIDE DEF t, i
    <3>5. got'[t][i] = got[t][i]
      BY <3>1, <3>4, <1>1, <1>2
    <3>. QED
      BY <3>2, <3>5 DEF t, i
  <2>3. n = d + 1 \/ n \in 1 .. d
    OBVIOUS
  <2>. QED
    BY <2>1, <2>2, <2>3, Zenon
<1>5. Arrived(d + 1)'
  BY <1>3, <1>4, <1>c DEF Arrived
<1>6. ASSUME NEW t \in Type, NEW i \in 1 .. Len(got'[t])
      PROVE  \E n \in 1 .. d + 1 : sent[n].type = t /\ Count(n, t) = i
  <2>1. CASE i \in 1 .. Len(got[t])
    <3>1. PICK n \in 1 .. d : sent[n].type = t /\ Count(n, t) = i
      BY <2>1 DEF NoOther
    <3>. QED
      BY <3>1
  <2>2. CASE i \notin 1 .. Len(got[t])
    <3>1. t = s
      BY <2>2, <1>1
    <3>2. i = Count(d + 1, t)
      BY <2>2, <3>1, <1>2, <1>3, <1>h
    <3>3. d + 1 \in 1 .. d + 1 /\ sent[d + 1].type = t
      BY <3>1 DEF s
    <3>. QED
      BY <3>2, <3>3
  <2>. QED
    BY <2>1, <2>2
<1>7. NoOther(d + 1)'
  BY <1>6, <1>c DEF NoOther
<1>. QED
  BY <1>1, <1>5, <1>7 DEF H

\* A packet that is delivered is the next one, and the parser goes on at the
\* beginning of the one after it or, at the end of what was read, to a Read.
LEMMA DeliverInv ==
    ASSUME Inv, pc = "parse", NEW d \in 0 .. Len(sent), Delivered(d),
           Header(d + 1), Body(d + 1), pktStart + PacketLen(d + 1) <= BufSize,
           Deliver(Heard(sent[d + 1]), pktStart + PacketLen(d + 1))
    PROVE  Inv'
<1>. DEFINE n == d + 1
            N == Len(sent)
            l == PacketLens[n]
            end == pktStart + l
<1>0. TypeOK /\ SentOK /\ MineOK /\ Arrived(d) /\ NoOther(d) /\ ParseOK(d)
  BY DEF Inv, Delivered
<1>t. /\ sent \in Seq(Message) /\ pktStart \in Nat /\ bytesRead \in Nat /\ BufSize \in Nat
      /\ bytesRead <= BufSize /\ d \in Nat
  BY <1>0, SizeAssumption DEF TypeOK
<1>p. /\ pktStart < bytesRead /\ bytesRead < BufSize
      /\ Stream(PacketLens, buf, pktStart, bytesRead)
      /\ \A i \in 1 .. BufSize : i <= pktStart \/ i > bytesRead => buf[i][1] <= d
      /\ cut \/ Follows(buf[bytesRead][1])
      /\ cut = (buf[bytesRead][2] # PacketLens[buf[bytesRead][1]])
  BY <1>0 DEF ParseOK
<1>f. /\ n \in 1 .. N /\ l \in Nat /\ l = PacketLen(n) /\ end <= bytesRead
      /\ \A k \in 1 .. l : pktStart + k <= bytesRead => buf[pktStart + k] = <<n, k>>
      /\ end + 1 <= bytesRead => buf[end + 1] = <<n + 1, 1>>
  <2>1. d + 2 = n + 1
    BY <1>t
  <2>. QED
    BY <1>0, <1>t, <2>1, ParseFacts
<1>s. N \in Nat /\ PacketLens \in [1 .. N -> Nat] /\ sent[n] \in Message /\ l >= 4
  BY <1>f, <1>t, Lengths
<1>h. Heard(sent[n]).type = sent[n].type
  <2>1. Serializable(sent[n])
    BY <1>0, <1>f DEF SentOK
  <2>. QED
    BY <2>1, <1>s, RoundTrip
<1>u. /\ got' = [got EXCEPT ![sent[n].type] = Append(@, Heard(sent[n]))]
      /\ pktStart' = end /\ pc' = IF end < bytesRead THEN "parse" ELSE "read"
      /\ UNCHANGED <<mine, sent, unread, buf, bytesRead, cut>>
  BY <1>h, <1>f DEF Deliver
<1>a. Arrived(n)' /\ NoOther(n)' /\ got' \in [Type -> Seq({Heard(m) : m \in Message})]
  BY <1>0, <1>t, <1>f, <1>h, <1>u, DeliverArrives
<1>l. PacketLens' = PacketLens
  BY <1>u DEF PacketLens, PacketLen
<1>. HIDE DEF n, N, l, end
<1>e. end \in Nat /\ end >= 4 /\ end \in pktStart + 1 .. bytesRead /\ end = pktStart + l
  <2>1. l \in Nat /\ l >= 4 /\ end <= bytesRead /\ pktStart \in Nat /\ bytesRead \in Nat
    BY <1>f, <1>s, <1>t
  <2>2. end = pktStart + l
    BY DEF end
  <2>. QED
    BY <2>1, <2>2
<1>b. Ends(PacketLens, buf, end, n)
  <2>1. l \in 1 .. l /\ pktStart + l <= bytesRead
    BY <1>s, <1>f, <1>e
  <2>. QED
    BY <2>1, <1>f, <1>e DEF Ends, l
<1>1. TypeOK'
  <2>1. pktStart' \in 0 .. BufSize
    BY <1>u, <1>e, <1>t
  <2>2. /\ pc' \in {"read", "parse", "reset", "exited", "panic", "astray"}
        /\ pc' = "parse" => pktStart' < bytesRead'
    BY <1>u
  <2>. QED
    BY <1>0, <1>u, <1>a, <2>1, <2>2 DEF TypeOK
<1>2. SentOK' /\ MineOK' /\ EndOK'
  BY <1>0, <1>u DEF SentOK, MineOK, Serializable, EndOK
<1>3. \A i \in 1 .. BufSize : i <= end \/ i > bytesRead => buf[i][1] <= n
  <2>. SUFFICES ASSUME NEW i \in 1 .. BufSize, i <= end \/ i > bytesRead
                PROVE  buf[i][1] <= n
    OBVIOUS
  <2>n. d \in Nat /\ n = d + 1 /\ buf[i][1] \in Nat
    <3>1. buf[i] \in Nat \X Nat
      BY <1>0 DEF TypeOK
    <3>. QED
      BY <1>t, <3>1 DEF n
  <2>1. CASE i <= pktStart \/ i > bytesRead
    <3>1. buf[i][1] <= d
      BY <2>1, <1>p
    <3>. QED
      BY <3>1, <2>n
  <2>2. CASE i > pktStart /\ i <= end
    <3>1. PICK k \in Nat : pktStart + k = i
      <4>1. i - pktStart \in Nat /\ pktStart + (i - pktStart) = i
        BY <2>2, <1>t
      <4>. QED
        BY <4>1
    <3>2. l \in Nat /\ end <= bytesRead
      BY <1>f
    <3>3. k \in 1 .. l /\ pktStart + k <= bytesRead
      BY <2>2, <3>1, <3>2, <1>e, <1>t
    <3>4. buf[i] = <<n, k>>
      BY <3>1, <3>3, <1>f
    <3>. QED
      BY <3>4, <2>n
  <2>3. i > pktStart \/ i <= pktStart
    BY <1>t
  <2>. QED
    BY <2>1, <2>2, <2>3
<1>4. ReadOK(n)'
  <2>. SUFFICES ASSUME ~(end < bytesRead) PROVE ReadOK(n)'
    BY <1>u DEF ReadOK
  <2>1. end = bytesRead
    BY <1>f, <1>e, <1>t
  <2>2. buf[bytesRead][1] = n /\ buf[bytesRead][2] = PacketLens[n]
    BY <2>1, <1>b DEF Ends
  <2>3. ~cut /\ Follows(n)
    BY <2>2, <1>p
  <2>4. Follows(n)'
    BY <2>3, <1>u, <1>l DEF Follows
  <2>5. \A i \in 1 .. BufSize : i <= end \/ i > bytesRead
    BY <2>1, <1>t
  <2>. QED
    BY <2>3, <2>4, <2>5, <1>3, <1>u DEF ReadOK
<1>5. ParseOK(n)'
  <2>. SUFFICES ASSUME end < bytesRead PROVE ParseOK(n)'
    BY <1>u DEF ParseOK
  <2>1. Stream(PacketLens, buf, end, bytesRead)
    BY <1>b, <1>e, <1>p, <1>s, <1>t, StreamTail
  <2>2. buf[end + 1] = <<n + 1, 1>>
    <3>1. end + 1 <= bytesRead
      BY <1>e, <1>t
    <3>. QED
      BY <3>1, <1>f
  <2>3. (cut \/ Follows(buf[bytesRead][1]))'
    BY <1>p, <1>u, <1>l DEF Follows
  <2>. QED
    BY <2>1, <2>2, <2>3, <1>3, <1>p, <1>u, <1>l DEF ParseOK
<1>6. n \in 0 .. Len(sent')
  BY <1>f, <1>u, <1>s DEF N
<1>. QED
  BY <1>1, <1>2, <1>4, <1>5, <1>6, <1>a DEF Inv, Delivered

\* A packet whose header is found is delivered when it is whole; when it is not,
\* the Read was cut.
LEMMA ParseInv == Inv /\ (ParseGarbage \/ \E n \in 1 .. Len(sent) : ParsePacket(n)) => Inv'
<1>. SUFFICES ASSUME Inv, ParseGarbage \/ \E n \in 1 .. Len(sent) : ParsePacket(n) PROVE Inv'
  OBVIOUS
<1>1. PICK d \in 0 .. Len(sent) : Delivered(d)
  BY DEF Inv
<1>2. TypeOK /\ SentOK /\ pc = "parse" /\ ParseOK(d) /\ d \in Nat
  BY <1>1 DEF Inv, Delivered, ParseGarbage, ParsePacket
<1>3. /\ d + 1 \in 1 .. Len(sent) /\ PacketLen(d + 1) \in Nat
      /\ \A n \in 1 .. Len(sent) : Header(n) => n = d + 1
      /\ ~cut => /\ Header(d + 1) /\ Body(d + 1)
                 /\ pktStart + PacketLen(d + 1) <= bytesRead
  BY <1>2, ParseFacts
<1>4. pktStart \in Nat /\ bytesRead \in Nat /\ BufSize \in Nat /\ bytesRead <= BufSize
  BY <1>2, SizeAssumption DEF TypeOK
<1>5. CASE ParseGarbage
  <2>1. cut
    BY <1>3, <1>5 DEF ParseGarbage
  <2>2. PICK why \in {"reset", "exited", "panic", "astray"} : Stop(why)
    BY <1>5 DEF ParseGarbage
  <2>. QED
    BY <2>1, <2>2, StopInv
<1>6. CASE \E n \in 1 .. Len(sent) : ParsePacket(n)
  <2>1. ParsePacket(d + 1) /\ Header(d + 1)
    BY <1>3, <1>6 DEF ParsePacket
  <2>. DEFINE end == pktStart + PacketLen(d + 1)
  <2>2. \/ end > BufSize /\ Stop("panic")
        \/ ~(end > BufSize) /\ Body(d + 1) /\ Deliver(Deserialize(Serialize(sent[d + 1])), end)
        \/ ~Body(d + 1) /\ (Stop("reset") \/ Stop("astray"))
    BY <2>1 DEF ParsePacket
  <2>3. CASE end > BufSize /\ Stop("panic")
    <3>1. cut
      BY <2>3, <1>3, <1>4
    <3>. QED
      BY <3>1, <2>3, StopInv
  <2>4. CASE ~(end > BufSize) /\ Body(d + 1)
               /\ Deliver(Deserialize(Serialize(sent[d + 1])), end)
    <3>1. sent[d + 1] \in Message /\ Serializable(sent[d + 1])
      BY <1>2, <1>3 DEF TypeOK, SentOK
    <3>2. Deserialize(Serialize(sent[d + 1])) = Heard(sent[d + 1])
      BY <3>1, RoundTrip
    <3>3. end <= BufSize
      BY <2>4, <1>3, <1>4
    <3>. QED
      BY <1>1, <1>2, <2>1, <2>4, <3>2, <3>3, DeliverInv
  <2>5. CASE ~Body(d + 1) /\ (Stop("reset") \/ Stop("astray"))
    <3>1. cut
      BY <2>5, <1>3
    <3>. QED
      BY <3>1, <2>5, StopInv
  <2>. QED
    BY <2>2, <2>3, <2>4, <2>5
<1>. QED
  BY <1>5, <1>6

\* Nothing changes.
LEMMA StutterInv == Inv /\ UNCHANGED vars => Inv'
<1>. SUFFICES ASSUME Inv, UNCHANGED vars PROVE Inv'
  OBVIOUS
<1>. USE DEF vars
<1>1. TypeOK' /\ SentOK' /\ MineOK' /\ EndOK'
  BY DEF Inv, TypeOK, SentOK, MineOK, EndOK, Serializable
<1>2. PICK d \in 0 .. Len(sent) : Delivered(d)
  BY DEF Inv
<1>3. PacketLens' = PacketLens /\ \A n, t : Count(n, t)' = Count(n, t)
  BY DEF PacketLens, PacketLen, Count
<1>4. (Arrived(d) /\ NoOther(d))'
  BY <1>2, <1>3 DEF Delivered, Arrived, NoOther
<1>5. ReadOK(d)' /\ ParseOK(d)'
  BY <1>2, <1>3 DEF Delivered, ReadOK, ParseOK, Follows
<1>. QED
  BY <1>1, <1>4, <1>5 DEF Inv, Delivered

\* Every step of the sender and of the receive loop keeps the invariant.
LEMMA StepInv == Inv /\ [Next]_vars => Inv'
  BY SendInv, ReadInv, ParseInv, StutterInv DEF Next, RxLoop

-----------------------------------------------------------------------------
(* The theorems.                                                           *)

\* Type correctness, the parser's place in what was read included (peer.go 392-459).
THEOREM TypeCorrect == Spec => []TypeOK
<1>1. Inv => TypeOK
  BY DEF Inv
<1>. QED
  BY InitInv, StepInv, <1>1, PTL DEF Spec

\* Whatever the Reads return, what arrived is a beginning of what was sent, in order
\* and across all channels, until a cut packet is taken for a message; and the
\* receive loop ends only at a full buffer or a packet that a Read cut (peer.go
\* 370-460).
THEOREM StreamArrives == Spec => []PacketsSurvive
<1>1. Inv => PacketsSurvive
  BY DEF Inv, TypeOK, EndOK, Delivered, PacketsSurvive
<1>. QED
  BY InitInv, StepInv, <1>1, PTL DEF Spec

\* The routes held are those whose last UPDATE was an ADD, told apart by what is
\* heard of them.
LEMMA HeldIsMine == Inv /\ unread = <<>> /\ pc = "read" => RoutesSurvive
<1>. SUFFICES ASSUME Inv, unread = <<>>, pc = "read"
              PROVE  Held = {Heard(UpdateMsg("ADD", r)).route : r \in mine}
  BY DEF RoutesSurvive
<1>. DEFINE u == got["UPDATE"]
            C(n) == Count(n, "UPDATE")
            N == Len(sent)
            Latest(n, r) == \A k \in n + 1 .. N : sent[k].type = "UPDATE" => sent[k].route # r
            Final(i, x) == u[i].route = x /\ \A j \in i + 1 .. Len(u) : u[j].route # x
<1>1. PICK d \in 0 .. N : Delivered(d)
  BY DEF Inv
<1>2. d = N
  BY <1>1 DEF Delivered, ReadOK, Follows
<1>t. /\ sent \in Seq(Message) /\ N \in Nat /\ mine \subseteq Route
  BY DEF Inv, TypeOK
<1>l. Len(u) = C(N) /\ \A n \in Nat : C(n) \in Nat
  <2>1. "UPDATE" \in Type
    BY DEF Type
  <2>. QED
    BY <2>1, <1>1, <1>2, CountType DEF Delivered, Arrived
<1>s. \A n \in 1 .. N : sent[n].type = "UPDATE" => u[C(n)] = Heard(sent[n])
  BY <1>1, <1>2 DEF Delivered, Arrived
<1>o. \A i \in 1 .. Len(u) : \E n \in 1 .. N : sent[n].type = "UPDATE" /\ C(n) = i
  <2>1. "UPDATE" \in Type
    BY DEF Type
  <2>. QED
    BY <2>1, <1>1, <1>2 DEF Delivered, NoOther
<1>m. \A r \in Route :
        r \in mine <=> \E n \in 1 .. N : sent[n] = UpdateMsg("ADD", r) /\ Latest(n, r)
  BY DEF Inv, MineOK
<1>u. ASSUME NEW n \in 1 .. N, sent[n].type = "UPDATE"
      PROVE  /\ sent[n].route \in Route
             /\ sent[n] = UpdateMsg(sent[n].action, sent[n].route)
             /\ u[C(n)].route = HeardRoute(sent[n].route)
             /\ u[C(n)].action = sent[n].action
             /\ C(n) \in 1 .. Len(u)
  <2>1. PICK a \in {"ADD", "REMOVE"}, r \in Route : sent[n] = UpdateMsg(a, r)
    BY <1>u, <1>t, MessageForm
  <2>2. u[C(n)] = UpdateMsg(a, HeardRoute(r))
    BY <2>1, <1>u, <1>s, HeardUpdate
  <2>3. n \in Nat /\ 0 < n /\ n <= N
    BY <1>t
  <2>4. C(0) < C(n) /\ C(n) <= C(N)
    BY <2>3, <1>u, <1>t, CountGrows, CountMonotone
  <2>5. C(n) \in 1 .. Len(u)
    BY <2>3, <2>4, <1>l
  <2>. QED
    BY <2>1, <2>2, <2>5 DEF UpdateMsg
<1>h. Held = {x \in {u[i].route : i \in 1 .. Len(u)} :
                \E i \in 1 .. Len(u) : Final(i, x) /\ u[i].action = "ADD"}
  BY DEF Held
<1>v. \A r \in Route : Heard(UpdateMsg("ADD", r)).route = HeardRoute(r)
  <2>1. \A a, x : UpdateMsg(a, x).route = x
    BY DEF UpdateMsg
  <2>. QED
    BY <2>1, HeardUpdate
<1>. HIDE DEF u, C, N, Latest
<1>3. ASSUME NEW i \in 1 .. Len(u), NEW x, Final(i, x), u[i].action = "ADD"
      PROVE  \E r \in mine : x = HeardRoute(r)
  <2>1. PICK n \in 1 .. N : sent[n].type = "UPDATE" /\ C(n) = i
    BY <1>o
  <2>2. /\ sent[n].route \in Route /\ HeardRoute(sent[n].route) = x
        /\ sent[n] = UpdateMsg("ADD", sent[n].route)
    BY <2>1, <1>u, <1>3
  <2>3. Latest(n, sent[n].route)
    <3>. SUFFICES ASSUME NEW k \in n + 1 .. N, sent[k].type = "UPDATE"
                  PROVE  sent[k].route # sent[n].route
      BY DEF Latest
    <3>1. k \in 1 .. N /\ n < k /\ n \in Nat /\ k \in Nat
      BY <1>t
    <3>2. C(n) < C(k)
      BY <3>1, CountGrows DEF C
    <3>3. C(k) \in i + 1 .. Len(u)
      <4>1. C(k) \in 1 .. Len(u) /\ Len(u) \in Nat
        BY <3>1, <1>u, <1>l, <1>t
      <4>. QED
        BY <4>1, <3>2, <2>1
    <3>4. u[C(k)].route # x /\ u[C(k)].route = HeardRoute(sent[k].route)
      BY <3>1, <3>3, <1>3, <1>u
    <3>. QED
      BY <3>4, <2>2
  <2>. QED
    BY <2>2, <2>3, <1>m
<1>4. ASSUME NEW r \in mine
      PROVE  \E i \in 1 .. Len(u) : Final(i, HeardRoute(r)) /\ u[i].action = "ADD"
  <2>0. r \in Route
    BY <1>t
  <2>1. PICK n \in 1 .. N : sent[n] = UpdateMsg("ADD", r) /\ Latest(n, r)
    BY <2>0, <1>m
  <2>2. sent[n].type = "UPDATE" /\ sent[n].route = r /\ sent[n].action = "ADD"
    BY <2>1 DEF UpdateMsg
  <2>3. /\ u[C(n)].route = HeardRoute(r) /\ u[C(n)].action = "ADD"
        /\ C(n) \in 1 .. Len(u)
    BY <2>2, <1>u
  <2>4. ASSUME NEW j \in C(n) + 1 .. Len(u) PROVE u[j].route # HeardRoute(r)
    <3>1. n \in Nat /\ C(n) \in Nat /\ Len(u) \in Nat
      BY <1>t, <1>l
    <3>2. j \in 1 .. Len(u) /\ j > C(n)
      BY <3>1
    <3>3. PICK k \in 1 .. N : sent[k].type = "UPDATE" /\ C(k) = j
      BY <3>2, <1>o
    <3>4. k \in Nat /\ k > n
      <4>1. k \in Nat
        BY <1>t
      <4>2. k <= n => C(k) <= C(n)
        BY <4>1, <3>1, CountMonotone DEF C
      <4>. QED
        BY <4>1, <4>2, <3>1, <3>2, <3>3
    <3>5. sent[k].route # r
      <4>1. k \in n + 1 .. N
        BY <3>4, <3>1, <1>t
      <4>. QED
        BY <4>1, <2>1, <3>3 DEF Latest
    <3>6. sent[k].route \in Route /\ u[j].route = HeardRoute(sent[k].route)
      BY <3>3, <1>u
    <3>. QED
      BY <3>5, <3>6, <2>0, HeardRouteInjective
  <2>. QED
    BY <2>3, <2>4
<1>5. Held \subseteq {HeardRoute(r) : r \in mine}
  BY <1>h, <1>3
<1>6. {HeardRoute(r) : r \in mine} \subseteq Held
  BY <1>h, <1>4
<1>. QED
  BY <1>5, <1>6, <1>v, <1>t

\* Once all is read the receiver holds exactly what the sender announces, NAT hops
\* that share an address told apart by their ports (types.go 245-248).
THEOREM RoutesArrive == Spec => []RoutesSurvive
<1>1. Inv => RoutesSurvive
  BY HeldIsMine DEF RoutesSurvive
<1>. QED
  BY InitInv, StepInv, <1>1, PTL DEF Spec
=============================================================================
