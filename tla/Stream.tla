------------------------------- MODULE Stream -------------------------------
(***************************************************************************)
(* The evm-stream producer (internal/stream): one process polls an         *)
(* execution node, scans every new block for matching records, writes them *)
(* to its output, rewinds over chain reorganizations and persists a resume *)
(* cursor.  A step of this module is one answer of the node, one write or  *)
(* one durable save, so the chain may move, a call may fail and the        *)
(* process may stop between any two of them.                               *)
(*                                                                         *)
(* Abstractions.  Every block carries one record of every watched kind:    *)
(* "event" stands for what one eth_getLogs answer yields for the block,    *)
(* "native" for its native and internal transfers.  The hash of the block  *)
(* at height h is the number hash[h] of the fork that mined it.  Waiting   *)
(* (ticker, backoff) is the absence of a step.  The watched set is fixed.  *)
(***************************************************************************)
EXTENDS Integers, FiniteSets

CONSTANTS
  Watched,        \* kinds configured: contracts ("event"), transfers ("native")
  FromBlock,      \* stream.from_block: a height, or Latest
  LogChunkBlocks, \* stream.log_chunk_blocks
  ReorgDepth,     \* stream.reorg_depth; 0 disables reorg handling
  ChainID,        \* the configured chain
  UseCheckpoint,  \* is stream.checkpoint_file set?
  OldCursors,     \* cursors of other chains the file may hold at first
  Faults,         \* the kinds of failure the environment produces
  InitHead,       \* environment: head of the chain before the first run
  MaxHeight,      \* bound: the chain grows no higher
  MaxReorgs,      \* bound: number of reorganizations
  MaxOrphans,     \* bound: blocks one reorganization orphans
  MayShrink,      \* may a reorganization lower the head?
  Finality        \* does the chain report a finalized block?

Kinds == {"event", "native"}

(***************************************************************************)
(* header, finalized, frontier, fork, scan: the RPC of that phase fails.   *)
(* (A failing eth_blockNumber leaves everything as it was, like a wait.)   *)
(* cap: a provider rejects a log window as too large.  lag: a load         *)
(* balancer routes eth_blockNumber to a node that is behind.  emit: a      *)
(* write fails with an error other than a broken pipe; epipe: with one.    *)
(* save, load: the cursor file cannot be written, read.  crash: the        *)
(* process dies or is stopped.                                             *)
(***************************************************************************)
FaultKinds == {"header", "finalized", "frontier", "fork", "scan", "cap", "lag",
               "emit", "epipe", "save", "load", "crash"}

Latest   == -1           \* from_block = "latest"
NoHash   == -1           \* no hash recorded; no header fetched
Unknown  == -1           \* no finalized height known yet
NoCursor == [chainID |-> 0, lastBlock |-> -1]   \* the cursor file does not exist

ASSUME StreamAssumption ==
  /\ Watched \subseteq Kinds /\ Watched # {}
  /\ FromBlock \in Nat \cup {Latest}
  /\ LogChunkBlocks \in Nat \ {0}
  /\ ReorgDepth \in Nat
  /\ ChainID \in Nat \ {0}
  /\ UseCheckpoint \in BOOLEAN
  /\ OldCursors \subseteq [chainID : Nat \ {0, ChainID}, lastBlock : Nat]
  /\ Faults \subseteq FaultKinds
  /\ InitHead \in Nat /\ MaxHeight \in Nat /\ InitHead <= MaxHeight
  /\ MaxReorgs \in Nat /\ MaxOrphans \in Nat
  /\ MayShrink \in BOOLEAN /\ Finality \in BOOLEAN

Heights == 0 .. MaxHeight

VARIABLES
  \* the node
  head,          \* height of the canonical chain
  hash,          \* hash[h]: the fork that holds, or will hold, height h
  reorgs,        \* reorganizations so far
  final,         \* highest finalized block
  \* the cursor file
  ckpt,
  \* the Run loop
  pc,            \* what the process does next
  nextBlock,     \* the next unprocessed height
  lastSaved,     \* frontier at the last save
  tracked,       \* reorgTracker.hashes
  finalizedBlock, finalizedUnsupported,
  outputDead,    \* record.Writer holds a write error
  \* the locals of one pollOnce
  pollHead,      \* the head it read
  hdr,           \* the header of that head: [hash, parent]
  walk,          \* resolveFork: the heights below walk are still to examine
  cur,           \* first block of the current chunk
  at,            \* next block of the chunk to query
  \* the output
  emitted,       \* every record ever written
  view,          \* what a consumer that applies reorg markers holds
  marker,        \* the last reorg marker written
  origin         \* where the very first run started

env    == <<head, hash, reorgs, final>>
locals == <<pollHead, hdr, walk, cur, at>>
finals == <<finalizedBlock, finalizedUnsupported>>
output == <<emitted, view, marker>>
vars   == <<env, ckpt, pc, nextBlock, lastSaved, tracked, finals, outputDead, locals,
            output, origin>>

NoHeader == [hash |-> NoHash, parent |-> NoHash]
NoMarker == [fork |-> 0, to |-> 0, exceeded |-> FALSE]

Fault(f) == f \in Faults
Lower(a, b) == IF a < b THEN a ELSE b
-----------------------------------------------------------------------------
(* The chain. *)

Mine ==
  /\ head < MaxHeight
  /\ head' = head + 1
  /\ UNCHANGED <<hash, reorgs, final>>

\* The blocks above f are replaced by a fork of height h.
Reorg(f, h) ==
  /\ reorgs < MaxReorgs
  /\ final <= f /\ f < head /\ head - f <= MaxOrphans
  /\ f < h /\ (MayShrink \/ head <= h)
  /\ head' = h
  /\ reorgs' = reorgs + 1
  /\ hash' = [n \in Heights |-> IF n > f THEN reorgs + 1 ELSE hash[n]]
  /\ UNCHANGED final

Finalize ==
  /\ Finality /\ final < head
  /\ final' = final + 1
  /\ UNCHANGED <<head, hash, reorgs>>

Chain ==
  /\ \/ Mine
     \/ \E f \in Heights, h \in Heights : Reorg(f, h)
     \/ Finalize
  /\ UNCHANGED <<ckpt, pc, nextBlock, lastSaved, tracked, finals, outputDead, locals,
                 output, origin>>
-----------------------------------------------------------------------------
(* The reorg tracker: tracked is a function from heights to the hash       *)
(* recorded there, NoHash where the map has no entry.                      *)

\* recordHash(n, h, head), which the loop only calls with n = head.
RecordHash(t, n, h) ==
  IF h = NoHash \/ ReorgDepth = 0
    THEN t
    ELSE [k \in Heights |-> IF k = n THEN h
                            ELSE IF k < n - ReorgDepth THEN NoHash ELSE t[k]]

ForgetAbove(t, n) == [k \in Heights |-> IF k > n THEN NoHash ELSE t[k]]

\* Mutated form of Frontier: the next block instead of the last processed one.
Frontier_Next == Lower(nextBlock, pollHead)

\* The highest processed block the node can still confirm.
Frontier == Lower(nextBlock - 1, pollHead)

\* Mutated form of Floor: the subtraction is not guarded.
Floor_Unguarded(tip) == tip - ReorgDepth

\* The lowest height resolveFork examines below the orphaned tip.
Floor(tip) == IF tip > ReorgDepth THEN tip - ReorgDepth ELSE 0
-----------------------------------------------------------------------------
(* The output. *)

\* Mutated form of IsFinalized: one block too many.
IsFinalized_OffByOne(h) == finalizedBlock # Unknown /\ h <= finalizedBlock + 1

IsFinalized(h) == finalizedBlock # Unknown /\ h <= finalizedBlock

Record(k, h) == [kind |-> k, height |-> h, fork |-> hash[h],
                 finalized |-> IsFinalized(h)]

Emit(recs) ==
  /\ emitted' = emitted \cup recs
  /\ view' = view \cup recs
  /\ UNCHANGED marker

\* Records of kind k for the blocks lo..hi, as the node answers now.
Records(k, lo, hi) == {Record(k, h) : h \in lo .. hi}

\* Mutated form of EmitMarker: the orphaned range starts one block late.
EmitMarker_Late(fork, tip, exceeded) ==
  /\ marker' = [fork |-> fork + 1, to |-> tip, exceeded |-> exceeded]
  /\ view' = {r \in view : ~(fork + 1 < r.height /\ r.height <= tip)}
  /\ UNCHANGED emitted

EmitMarker(fork, tip, exceeded) ==
  /\ marker' = [fork |-> fork, to |-> tip, exceeded |-> exceeded]
  /\ view' = {r \in view : ~(fork < r.height /\ r.height <= tip)}
  /\ UNCHANGED emitted
-----------------------------------------------------------------------------
(* Starting and stopping. *)

Init ==
  /\ head = InitHead /\ hash = [h \in Heights |-> 0] /\ reorgs = 0 /\ final = 0
  /\ ckpt \in {NoCursor} \cup OldCursors
  /\ pc = "down" /\ nextBlock = 0 /\ lastSaved = 0
  /\ tracked = [h \in Heights |-> NoHash]
  /\ finalizedBlock = Unknown /\ finalizedUnsupported = FALSE
  /\ outputDead = FALSE
  /\ pollHead = 0 /\ hdr = NoHeader /\ walk = 0 /\ cur = 0 /\ at = 0
  /\ emitted = {} /\ view = {} /\ marker = NoMarker
  /\ origin = -1

CursorUsable ==
  /\ UseCheckpoint /\ ckpt # NoCursor
  /\ ckpt.chainID = 0 \/ ckpt.chainID = ChainID

StartAt(from) ==
  /\ pc' = "poll"
  /\ nextBlock' = from /\ lastSaved' = from
  /\ origin' = IF origin = -1 THEN from ELSE origin
  /\ UNCHANGED <<env, ckpt, tracked, finals, outputDead, locals, output>>

\* Mutated form of Start: resumes one block too far.
Start_SkipsOne ==
  /\ pc = "down"
  /\ \/ CursorUsable /\ StartAt(ckpt.lastBlock + 2)
     \/ /\ ~CursorUsable \/ Fault("load")
        /\ StartAt(IF FromBlock = Latest THEN head + 1 ELSE FromBlock)

\* resolveStart: the cursor wins; without a usable one, from_block.
Start ==
  /\ pc = "down"
  /\ \/ CursorUsable /\ StartAt(ckpt.lastBlock + 1)
     \/ /\ ~CursorUsable \/ Fault("load")
        /\ StartAt(IF FromBlock = Latest THEN head + 1 ELSE FromBlock)

\* The process is gone and with it everything but the cursor file.
Stop ==
  /\ pc' = "down"
  /\ nextBlock' = 0 /\ lastSaved' = 0
  /\ tracked' = [h \in Heights |-> NoHash]
  /\ finalizedBlock' = Unknown /\ finalizedUnsupported' = FALSE
  /\ outputDead' = FALSE
  /\ pollHead' = 0 /\ hdr' = NoHeader /\ walk' = 0 /\ cur' = 0 /\ at' = 0
  /\ UNCHANGED <<env, ckpt, origin>>

Crash ==
  /\ Fault("crash") /\ pc # "down"
  /\ Stop
  /\ UNCHANGED output

\* pollOnce returned an error that is not terminal: Run backs off and polls
\* again from the nextBlock it already had.
Fail ==
  /\ pc' = "poll"
  /\ pollHead' = 0 /\ hdr' = NoHeader /\ walk' = 0 /\ cur' = 0 /\ at' = 0
  /\ UNCHANGED <<env, ckpt, nextBlock, lastSaved, finals, origin>>

\* pollOnce returned next and no error.
Succeed(next) ==
  /\ pc' = "save"
  /\ nextBlock' = next
  /\ pollHead' = 0 /\ hdr' = NoHeader /\ walk' = 0 /\ cur' = 0 /\ at' = 0
-----------------------------------------------------------------------------
(* pollOnce, up to the scan. *)

BlockNumber ==
  /\ pc = "poll"
  /\ \E n \in (IF Fault("lag") THEN 0 .. head ELSE {head}) : pollHead' = n
  /\ pc' = "header"
  /\ UNCHANGED <<env, ckpt, nextBlock, lastSaved, tracked, finals, outputDead, hdr,
                 walk, cur, at, output, origin>>

\* updateHeadBlockTime is best effort: without a header the poll goes on.
HeadHeader ==
  /\ pc = "header"
  /\ \/ /\ pollHead <= head
        /\ hdr' = [hash |-> hash[pollHead],
                   parent |-> IF pollHead = 0 THEN NoHash ELSE hash[pollHead - 1]]
     \/ /\ pollHead > head \/ Fault("header")
        /\ hdr' = NoHeader
  /\ pc' = IF finalizedUnsupported THEN "reorg" ELSE "finalized"
  /\ UNCHANGED <<env, ckpt, nextBlock, lastSaved, tracked, finals, outputDead,
                 pollHead, walk, cur, at, output, origin>>

\* updateFinalizedBlock: a timeout or a lost connection is ignored; any other
\* error is taken for a refusal of the tag and remembered for the run.
FinalizedTag ==
  /\ pc = "finalized"
  /\ \/ /\ Finality
        /\ finalizedBlock' = final
        /\ UNCHANGED finalizedUnsupported
     \/ /\ Fault("finalized")
        /\ UNCHANGED finals
     \/ /\ ~Finality \/ Fault("finalized")
        /\ finalizedUnsupported' = TRUE
        /\ UNCHANGED finalizedBlock
  /\ pc' = "reorg"
  /\ UNCHANGED <<env, ckpt, nextBlock, lastSaved, tracked, outputDead, locals, output,
                 origin>>

\* The first query processRange makes for a chunk.
FirstQuery == IF "event" \in Watched THEN "logs" ELSE "native"

\* Mutated form of BeginScan: a poll that sees one new block does nothing.
BeginScan_ExcludesHead(n) ==
  \/ n >= pollHead /\ Succeed(n)
  \/ /\ n < pollHead
     /\ pc' = FirstQuery /\ cur' = n /\ at' = n /\ walk' = 0
     /\ UNCHANGED <<pollHead, hdr, nextBlock>>

\* The rest of pollOnce, from the block n the reorg check left it at.
BeginScan(n) ==
  \/ n > pollHead /\ Succeed(n)
  \/ /\ n <= pollHead
     /\ pc' = FirstQuery /\ cur' = n /\ at' = n /\ walk' = 0
     /\ UNCHANGED <<pollHead, hdr, nextBlock>>

\* Mutated form of FrontierTracked: an idle poll skips the reorg check.
FrontierTracked_NotIdle ==
  /\ ReorgDepth > 0 /\ nextBlock > 0 /\ tracked[Frontier] # NoHash
  /\ nextBlock <= pollHead

FrontierTracked ==
  ReorgDepth > 0 /\ nextBlock > 0 /\ tracked[Frontier] # NoHash

\* Does the header of the head already tell the frontier's hash?
HeaderTells ==
  \/ pollHead = Frontier /\ hdr.hash # NoHash
  \/ pollHead = Frontier + 1 /\ hdr.parent # NoHash

NodeHash ==
  IF pollHead = Frontier /\ hdr.hash # NoHash THEN hdr.hash
  ELSE IF pollHead = Frontier + 1 /\ hdr.parent # NoHash THEN hdr.parent
  ELSE hash[Frontier]

\* handleReorgIfAny up to the comparison of the two hashes.
CheckFrontier ==
  /\ pc = "reorg"
  /\ \/ /\ ~FrontierTracked
        /\ BeginScan(nextBlock)
        /\ UNCHANGED <<env, ckpt, lastSaved, finals, origin>>
     \/ /\ FrontierTracked /\ ~HeaderTells
        /\ Frontier > head \/ Fault("frontier")
        /\ Fail
     \/ /\ FrontierTracked /\ (HeaderTells \/ Frontier <= head)
        /\ NodeHash = tracked[Frontier]
        /\ BeginScan(nextBlock)
        /\ UNCHANGED <<env, ckpt, lastSaved, finals, origin>>
     \/ /\ FrontierTracked /\ (HeaderTells \/ Frontier <= head)
        /\ NodeHash # tracked[Frontier]
        /\ pc' = "fork" /\ walk' = Frontier
        /\ UNCHANGED <<env, ckpt, nextBlock, lastSaved, finals,
                       pollHead, hdr, cur, at, origin>>
  /\ UNCHANGED <<tracked, outputDead, output>>

\* Tracked heights resolveFork has still to compare, in [floor, walk).
ForkCandidates ==
  {n \in Heights : Floor(Frontier) <= n /\ n < walk /\ tracked[n] # NoHash}

\* The one to compare next: the highest.
NextCandidate(n) == n \in ForkCandidates /\ \A m \in ForkCandidates : m <= n

\* Mutated form of Rewind: the scan resumes one block past the first orphan.
Rewind_SkipsOne(fork, exceeded) ==
  /\ EmitMarker(fork, Frontier, exceeded)
  /\ tracked' = ForgetAbove(tracked, fork)
  /\ BeginScan(fork + 2)
  /\ UNCHANGED <<env, ckpt, lastSaved, finals, outputDead, origin>>

\* emitReorg, then forgetAbove and the rewind to fork + 1.
Rewind(fork, exceeded) ==
  \/ /\ ~outputDead
     /\ EmitMarker(fork, Frontier, exceeded)
     /\ tracked' = ForgetAbove(tracked, fork)
     /\ BeginScan(fork + 1)
     /\ UNCHANGED <<env, ckpt, lastSaved, finals, outputDead, origin>>
  \/ /\ outputDead \/ Fault("emit")
     /\ outputDead' = TRUE
     /\ Fail
     /\ UNCHANGED <<tracked, output>>
  \/ /\ ~outputDead /\ Fault("epipe")
     /\ Stop
     /\ UNCHANGED output

\* resolveFork fetches the block at n and compares its hash.
CompareCandidate(n) ==
  \/ /\ n <= head /\ hash[n] = tracked[n]
     /\ Rewind(n, FALSE)
  \/ /\ n <= head /\ hash[n] # tracked[n]
     /\ walk' = n
     /\ UNCHANGED <<env, ckpt, pc, nextBlock, lastSaved, tracked, finals, outputDead,
                    pollHead, hdr, cur, at, output, origin>>
  \/ /\ n > head \/ Fault("fork")
     /\ Fail
     /\ UNCHANGED <<tracked, outputDead, output>>

\* One turn of resolveFork's loop.
ResolveFork ==
  /\ pc = "fork"
  /\ \/ /\ ForkCandidates = {}
        /\ Rewind(Floor(Frontier), TRUE)
     \/ \E n \in Heights : NextCandidate(n) /\ CompareCandidate(n)
-----------------------------------------------------------------------------
(* pollOnce, the scan. *)

ChunkEnd == Lower(cur + LogChunkBlocks - 1, pollHead)

\* Mutated form of ChunkDone: the next chunk starts one block late.
ChunkDone_SkipsOne ==
  /\ IF ChunkEnd + 1 < pollHead
       THEN /\ pc' = FirstQuery /\ cur' = ChunkEnd + 2 /\ at' = ChunkEnd + 2
            /\ UNCHANGED <<pollHead, hdr, walk, nextBlock, tracked>>
       ELSE /\ tracked' = RecordHash(tracked, pollHead, hdr.hash)
            /\ Succeed(pollHead + 1)

\* processRange has returned for cur..ChunkEnd: next chunk, or end of the poll.
ChunkDone ==
  /\ IF ChunkEnd < pollHead
       THEN /\ pc' = FirstQuery /\ cur' = ChunkEnd + 1 /\ at' = ChunkEnd + 1
            /\ UNCHANGED <<pollHead, hdr, walk, nextBlock, tracked>>
       ELSE /\ tracked' = RecordHash(tracked, pollHead, hdr.hash)
            /\ Succeed(pollHead + 1)

\* A query for lo..hi of kind k was answered and its records are written.
Delivered(k, lo, hi) ==
  /\ ~outputDead
  /\ Emit(Records(k, lo, hi))
  /\ UNCHANGED <<env, ckpt, lastSaved, finals, outputDead, origin>>

\* It was answered, but only the records below some block are written.
WriteFails(k, lo, hi) ==
  \/ /\ outputDead
     /\ Fail
     /\ UNCHANGED <<tracked, outputDead, output>>
  \/ /\ ~outputDead
     /\ \E p \in lo .. hi : Emit(Records(k, lo, p - 1))
     /\ \/ Fault("emit") /\ outputDead' = TRUE /\ Fail /\ UNCHANGED tracked
        \/ Fault("epipe") /\ Stop

\* The next query of the same chunk.
Continue(next, n) ==
  /\ pc' = next /\ at' = n
  /\ UNCHANGED <<cur, pollHead, hdr, walk, nextBlock, tracked>>

\* processLogs: one eth_getLogs answer.  A window a provider rejects is halved
\* until it is accepted, so the accepted windows cut at .. ChunkEnd in order.
GetLogs ==
  /\ pc = "logs"
  /\ \E hi \in at .. ChunkEnd :
       /\ hi = ChunkEnd \/ Fault("cap")
       /\ hi <= head
       /\ \/ WriteFails("event", at, hi)
          \/ /\ Delivered("event", at, hi)
             /\ \/ hi < ChunkEnd /\ Continue("logs", hi + 1)
                \/ hi = ChunkEnd /\ "native" \in Watched /\ Continue("native", cur)
                \/ hi = ChunkEnd /\ "native" \notin Watched /\ ChunkDone

\* processNative: one block, its receipts and traces.
ScanNative ==
  /\ pc = "native"
  /\ at <= head
  /\ \/ WriteFails("native", at, at)
     \/ /\ Delivered("native", at, at)
        /\ \/ at < ChunkEnd /\ Continue("native", at + 1)
           \/ at = ChunkEnd /\ ChunkDone

\* A query fails, or asks for a block the node no longer has.
ScanFails ==
  /\ pc \in {"logs", "native"}
  /\ Fault("scan") \/ at > head \/ (pc = "logs" /\ ChunkEnd > head)
  /\ Fail
  /\ UNCHANGED <<tracked, outputDead, output>>
-----------------------------------------------------------------------------
(* The cursor. *)

\* Mutated form of ShouldSaveCheckpoint: a lowered frontier is not saved.
ShouldSaveCheckpoint_Up(next, saved) == next > saved

ShouldSaveCheckpoint(next, saved) == next > 0 /\ next # saved

\* Mutated form of SaveCheckpoint: the next block is saved as the last one.
SaveCheckpoint_Next ==
  /\ pc = "save"
  /\ IF UseCheckpoint /\ ShouldSaveCheckpoint(nextBlock, lastSaved)
       THEN /\ ckpt' = [chainID |-> ChainID, lastBlock |-> nextBlock]
            /\ lastSaved' = nextBlock
       ELSE UNCHANGED <<ckpt, lastSaved>>
  /\ pc' = "poll"
  /\ UNCHANGED <<env, nextBlock, tracked, finals, outputDead, locals, output, origin>>

SaveCheckpoint ==
  /\ pc = "save"
  /\ IF UseCheckpoint /\ ShouldSaveCheckpoint(nextBlock, lastSaved)
       THEN \/ /\ ckpt' = [chainID |-> ChainID, lastBlock |-> nextBlock - 1]
               /\ lastSaved' = nextBlock
            \/ Fault("save") /\ UNCHANGED <<ckpt, lastSaved>>
       ELSE UNCHANGED <<ckpt, lastSaved>>
  /\ pc' = "poll"
  /\ UNCHANGED <<env, nextBlock, tracked, finals, outputDead, locals, output, origin>>
-----------------------------------------------------------------------------
Loop ==
  \/ BlockNumber \/ HeadHeader \/ FinalizedTag \/ CheckFrontier \/ ResolveFork
  \/ GetLogs \/ ScanNative \/ ScanFails \/ SaveCheckpoint

Next == Chain \/ Start \/ Loop \/ Crash

Spec == Init /\ [][Next]_vars

(***************************************************************************)
(* Fairness.  Run loops until its context is cancelled and a supervisor    *)
(* restarts the process, so both keep taking steps.  Outages end: from     *)
(* some point on the environment causes no further failed poll, no answer  *)
(* below the head and no crash.  (A poll that fails because the writer     *)
(* holds an old error is not the environment's doing and is not excluded.) *)
(***************************************************************************)
EnvFailure ==
  \/ pc' = "down"
  \/ pc' = "poll" /\ pc \notin {"down", "save", "poll"} /\ ~outputDead
  \/ pc = "save" /\ Fault("save") /\ UNCHANGED ckpt
       /\ UseCheckpoint /\ ShouldSaveCheckpoint(nextBlock, lastSaved)
  \/ pc = "poll" /\ pc' = "header" /\ pollHead' < head
OutagesEnd == <>[][~EnvFailure]_vars

FairSpec == Spec /\ WF_vars(Start) /\ WF_vars(Loop) /\ OutagesEnd
-----------------------------------------------------------------------------
PCs == {"down", "poll", "header", "finalized", "reorg", "fork", "logs", "native",
        "save"}
RecordSet == [kind : Watched, height : Heights, fork : Nat, finalized : BOOLEAN]

ChainTypeOK ==
  /\ head \in Heights /\ hash \in [Heights -> Nat]
  /\ reorgs \in Nat /\ final \in Heights

RunTypeOK ==
  /\ ckpt \in [chainID : Nat, lastBlock : Int]
  /\ CursorUsable => ckpt.lastBlock \in Nat
  /\ pc \in PCs
  /\ nextBlock \in Nat /\ lastSaved \in Nat
  /\ tracked \in [Heights -> Nat \cup {NoHash}]
  /\ finalizedBlock \in Nat \cup {Unknown} /\ finalizedUnsupported \in BOOLEAN
  /\ outputDead \in BOOLEAN
  /\ origin \in Nat \cup {-1}

PollTypeOK ==
  /\ pollHead \in Heights /\ walk \in Heights /\ cur \in Nat /\ at \in Nat
  /\ hdr \in [hash : Nat \cup {NoHash}, parent : Nat \cup {NoHash}]
  /\ pc = "fork" => nextBlock > 0 /\ walk <= Frontier
  /\ pc = "logs" => "event" \in Watched
  /\ pc = "native" => "native" \in Watched
  /\ pc \in {"logs", "native"} => cur <= at /\ at <= ChunkEnd

OutputTypeOK ==
  /\ emitted \subseteq RecordSet /\ view \subseteq emitted
  /\ marker \in [fork : Heights, to : Heights, exceeded : BOOLEAN]

(***************************************************************************)
(* Every variable has its type; while a chunk is scanned the position is   *)
(* inside it, the chunk is inside the range of the poll, and only what is  *)
(* watched is asked for.                                                   *)
(***************************************************************************)
TypeOK == ChainTypeOK /\ RunTypeOK /\ PollTypeOK /\ OutputTypeOK

\* recs holds a record of kind k for every block from lo to n - 1.
Complete(recs, k, lo, n) ==
  \A h \in 0 .. n - 1 : lo <= h => \E r \in recs : r.kind = k /\ r.height = h

\* Records of kind k have been written for every block from the origin to n - 1.
SentBelow(k, n) == Complete(emitted, k, origin, n)

(***************************************************************************)
(* No block is skipped: whatever failed, was retried or was restarted,     *)
(* every block from the very first start to the frontier has been written. *)
(* The backfill and head-following of Run, "no gap at the boundary".       *)
(***************************************************************************)
GapFree == \A k \in Watched : SentBelow(k, nextBlock)

(***************************************************************************)
(* The durable cursor never claims a block whose records are not written,  *)
(* so a restart from it loses nothing (checkpoint.go: "the highest block   *)
(* whose records the producer has finished emitting").                     *)
(***************************************************************************)
CursorNeverAhead ==
  CursorUsable => \A k \in Watched : SentBelow(k, ckpt.lastBlock + 1)

(***************************************************************************)
(* When saves succeed, between polls the cursor is exactly the frontier,   *)
(* also after a rewind onto a shorter chain lowered it (the comment on     *)
(* persisting a DECREASE in Run).                                          *)
(***************************************************************************)
CursorIsFrontier ==
  pc = "poll" => IF CursorUsable THEN ckpt.lastBlock + 1 = nextBlock
                                 ELSE nextBlock = origin

\* The consumer holds, for every block from the origin to n - 1, the records
\* of the canonical block and of no other block at that height.
InSync(n) ==
  \A h \in Heights : origin <= h /\ h < n =>
    \A k \in Watched :
      {r.fork : r \in {q \in view : q.kind = k /\ q.height = h}} = {hash[h]}

(***************************************************************************)
(* Between polls a consumer that applies the markers is either in step     *)
(* with the canonical chain below the frontier, or the tracker holds at    *)
(* the frontier a hash the node no longer has, so that the next poll finds *)
(* the reorganization.  A stale view is never silent.                      *)
(***************************************************************************)
StaleIsDetectable ==
  pc = "poll" =>
    \/ InSync(nextBlock)
    \/ tracked[nextBlock - 1] \notin {NoHash, hash[nextBlock - 1]}

(***************************************************************************)
(* Between polls the consumer's view has no hole below the frontier: what  *)
(* a marker retracted has been written again from the new chain.           *)
(***************************************************************************)
NoHole ==
  pc = "poll" => \A k \in Watched : Complete(view, k, origin, nextBlock)

\* The step that writes a marker: the fork is resolved and the scan resumes.
MarkerWritten == pc = "fork" /\ pc' \in {"logs", "native", "save"}

(***************************************************************************)
(* A marker without depth_exceeded names a proven common ancestor: what    *)
(* the consumer keeps at or below fork_block is canonical (ReorgData).     *)
(***************************************************************************)
MarkerTruthful ==
  [][MarkerWritten /\ ~marker'.exceeded =>
       \A r \in view : r.height <= marker'.fork => r.fork = hash[r.height]]_vars

(***************************************************************************)
(* A record stamped finalized is never orphaned (design.md: a sink "can    *)
(* trust a finalized record unconditionally").                             *)
(***************************************************************************)
FinalizedIsForever ==
  \A r \in emitted : r.finalized => r.fork = hash[r.height]

(***************************************************************************)
(* Once outages end, every block of the chain from the origin on is        *)
(* written, for every kind watched.                                        *)
(***************************************************************************)
EveryBlockSent ==
  \A h \in Heights :
    (origin # -1 /\ origin <= h /\ h <= head)
      ~> \A k \in Watched : \E r \in emitted : r.kind = k /\ r.height = h

(***************************************************************************)
(* Once the chain settles the consumer's view settles on it: every orphan  *)
(* is retracted and every canonical block is there, up to the head.        *)
(***************************************************************************)
EventuallyInSync == <>[](origin # -1 /\ InSync(head + 1))
=============================================================================
