------------------------------ MODULE MCStream ------------------------------
(* Instances of Stream for TLC: values a configuration file cannot spell.  *)
EXTENDS StreamFeed

MCLatest == Latest

\* A cursor file left over from another chain, or none.
MCOldCursors == {[chainID |-> 7, lastBlock |-> 2]}
=============================================================================
