----------------------------- MODULE MCRegistry -----------------------------
(* A server with three connections, two of which have one address, or a client to which
   a server's address is added twice. *)
EXTENDS Registry

CONSTANTS i1, i2, i3, o1, o2

MCAddrOf == [o \in Object |-> CASE o = i1 -> "a1" [] o = i2 -> "a1" [] o = i3 -> "a2" [] OTHER -> "b"]
=============================================================================
