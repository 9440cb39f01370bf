-------------------------------- MODULE Feed --------------------------------
(***************************************************************************)
(* What evm-stream promises its consumers: for every kind of record an     *)
(* ordered feed of the blocks from the origin on, in which blocks may      *)
(* repeat but none is skipped, and a durable cursor that never passes what *)
(* the feed has delivered.  The chain underneath may reorganize: its top   *)
(* moves either way, and after a rewind blocks are delivered again.        *)
(***************************************************************************)
EXTENDS Integers

CONSTANTS Kinds,   \* kinds of records
          Origin   \* the first block of the feed

VARIABLES top,     \* height of the chain
          sent,    \* <<kind, height>> delivered so far
          cursor   \* where a restart would resume

vars == <<top, sent, cursor>>

\* Kind k is delivered for all blocks below n.
SentBelow(k, n) == \A h \in Origin .. n - 1 : <<k, h>> \in sent

Init ==
  /\ top \in Nat
  /\ sent = {}
  /\ cursor = Origin

Move ==
  /\ top' \in Nat
  /\ UNCHANGED <<sent, cursor>>

\* Delivery continues where it stopped or repeats what was delivered before;
\* only blocks the chain has are delivered.
Send(k, lo, hi) ==
  /\ SentBelow(k, lo)
  /\ sent' = sent \cup {k} \X (lo .. hi)
  /\ UNCHANGED <<top, cursor>>

Commit ==
  /\ cursor' \in Nat
  /\ \A k \in Kinds : SentBelow(k, cursor')
  /\ UNCHANGED <<top, sent>>

Next ==
  \/ Move
  \/ \E k \in Kinds : \E lo, hi \in 0 .. top : Send(k, lo, hi)
  \/ Commit

Spec == Init /\ [][Next]_vars
=============================================================================
