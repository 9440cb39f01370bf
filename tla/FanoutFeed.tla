----------------------------- MODULE FanoutFeed -----------------------------
(***************************************************************************)
(* With block_until_consumer the transport passes a feed on: Fanout        *)
(* implements Feed, with the records its consumers together were given     *)
(* for those that are sent.                                                *)
(***************************************************************************)
EXTENDS Fanout

takenPairs == {"record"} \X {r \in Records : Taken(r)}

F == INSTANCE Feed WITH Kinds <- {"record"}, Origin <- 1,
                        top <- MaxRecord, sent <- takenPairs, cursor <- saved + 1

(***************************************************************************)
(* Whoever connects, dies or stops while a record is written, the records  *)
(* that connections have taken form an ordered feed in which records may   *)
(* repeat but none is skipped, and the producer's cursor never passes it   *)
(* (the lossless invariant in the comment of Write): what the producer     *)
(* makes a feed is still one behind the socket.                            *)
(***************************************************************************)
LosslessFeed == F!Init /\ [][blockUntil => F!Next]_(F!vars)
=============================================================================
