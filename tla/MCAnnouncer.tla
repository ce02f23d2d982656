---------------------------- MODULE MCAnnouncer ----------------------------
(* Small clients for TLC. *)
EXTENDS Announcer

CONSTANTS s1, s2, c1, c2

A1 == [vni |-> 1, dest |-> "d1", hop |-> "h"]

OneRoute == {A1}
=============================================================================
