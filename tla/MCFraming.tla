----------------------------- MODULE MCFraming -----------------------------
EXTENDS Framing

CONSTANTS none

MCHop(type, ports) == [address |-> "a", vni |-> 0, type |-> type, ports |-> ports]
MCDest(version) == [version |-> version, prefix |-> "d"]
\* Two NAT hops on one address, and a hop whose ports are dropped.
MCRoute ==
    {[vni |-> 1, dest |-> MCDest("IPv4"), hop |-> MCHop("NAT", p)] : p \in {"p1", "p2"}}
        \union {[vni |-> 1, dest |-> MCDest("IPv6"), hop |-> MCHop("STANDARD", "p1")],
                [vni |-> 1, dest |-> MCDest("none"), hop |-> MCHop("STANDARD", none)]}
MCBodyLen(m) ==
    CASE m.type = "KEEPALIVE" -> 0 [] m.type = "UPDATE" -> 2 [] OTHER -> 1
=============================================================================
