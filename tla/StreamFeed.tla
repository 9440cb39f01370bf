----------------------------- MODULE StreamFeed -----------------------------
(***************************************************************************)
(* Stream implements Feed when from_block is a height.                     *)
(***************************************************************************)
EXTENDS Stream

sentPairs == {<<r.kind, r.height>> : r \in emitted}

resumeAt == IF CursorUsable THEN ckpt.lastBlock + 1 ELSE FromBlock

F == INSTANCE Feed WITH Kinds <- Watched, Origin <- FromBlock,
                        top <- head, sent <- sentPairs, cursor <- resumeAt

(***************************************************************************)
(* Through every failure, retry, crash and restart the records written     *)
(* form an ordered feed without gaps, and the cursor file is its cursor    *)
(* (the at-least-once contract of checkpoint.go and of Run).               *)
(***************************************************************************)
FeedSpec == F!Spec
=============================================================================
