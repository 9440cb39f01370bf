------------------------------ MODULE MCFanout ------------------------------
(* Instances of Fanout for TLC. *)
EXTENDS FanoutFeed

CONSTANTS s1, s2

MCSinks == {s1, s2}
=============================================================================
