----------------------------- MODULE MCFileSink -----------------------------
(* Instances of FileSink for TLC. *)
EXTENDS FileSink

MCConfigs == {[fsync |-> TRUE,  compress |-> TRUE,  aged |-> FALSE],
              [fsync |-> FALSE, compress |-> FALSE, aged |-> TRUE]}
=============================================================================
