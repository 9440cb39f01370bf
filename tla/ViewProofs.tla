----------------------------- MODULE ViewProofs -----------------------------
(***************************************************************************)
(* Theorems about Stream and the reorganizations: what a consumer that     *)
(* applies the markers holds.  Where they need it, they are about polls    *)
(* whose scan and whose writes succeed (LostRewind shows why);             *)
(* HoleNeedsLostRewind is about all polls.                                 *)
(***************************************************************************)
EXTENDS StreamProofs

USE DEF Heights, Lower

\* From the rewind on nothing fails: scans, writes, the process; the head never
\* falls, so that a scan finds the blocks it was started for.
SteadyScan == Faults \cap {"scan", "emit", "epipe", "crash"} = {} /\ ~MayShrink

\* The head and its header are what the node has, and no fork is deeper than
\* the tracker's window.
SteadyHead == Faults \cap {"header", "lag"} = {} /\ MaxOrphans <= ReorgDepth /\ ReorgDepth > 0

(***************************************************************************)
(* NoHole is not inductive: while a rewound poll is under way the view has *)
(* the hole the scan is to close.  HoleInv says how far it is closed, and  *)
(* that such a scan cannot fail.                                           *)
(***************************************************************************)
HeldBelow(k, n) == Complete(view, k, origin, n)

ClosingInv ==
  /\ pc \in {"logs", "native"} => \A k \in Watched : HeldBelow(k, cur)
  /\ pc = "logs" => HeldBelow("event", at)
  /\ pc = "native" => /\ HeldBelow("native", at)
                      /\ "event" \in Watched => HeldBelow("event", ChunkEnd + 1)

HoleInv ==
  /\ ~outputDead /\ pollHead <= head
  /\ pc = "down" => origin = -1
  /\ pc \notin {"down", "logs", "native"} => \A k \in Watched : HeldBelow(k, nextBlock)
  /\ ClosingInv

(***************************************************************************)
(* StaleIsDetectable and MarkerTruthful rest on what a tracked hash proves *)
(* (Vouched), on where the records of orphaned blocks can be (Stale is     *)
(* always above the window's floor), and on what the header fetched at the *)
(* start of the poll says of the chain at any later moment of it.          *)
(***************************************************************************)
Canon(n) == \A r \in view : r.height <= n => r.fork = hash[r.height]

StaleAbove(n) == \A r \in view : r.fork # hash[r.height] => n < r.height

\* Forks are numbered in the order they come.
AgeInv ==
  /\ hdr.hash <= reorgs
  /\ \A n \in Heights : hash[n] <= reorgs /\ tracked[n] <= reorgs

Vouched == \A n \in Heights : tracked[n] = hash[n] => Canon(n)

Fresh == view = {} /\ \A n \in Heights : tracked[n] = NoHash

\* Outside the scan nothing has been told yet, or the tip of what has been told
\* is tracked and no deeper block of it is orphaned than the window holds.
TipInv ==
  /\ nextBlock > 0 /\ nextBlock - 1 <= head
  /\ tracked[nextBlock - 1] # NoHash
  /\ \A r \in view : r.height < nextBlock
  /\ StaleAbove(Floor(nextBlock - 1))
  /\ pc \in {"header", "finalized", "reorg", "fork"} => nextBlock - 1 <= pollHead

\* A header that is still the head's speaks for the parent as well.
HeaderInv ==
  pc \in {"finalized", "reorg", "fork", "logs", "native"} =>
    /\ hdr.hash # NoHash
    /\ hdr.hash = hash[pollHead] /\ pollHead > 0 => hdr.parent = hash[pollHead - 1]

PassInv ==
  pc \in {"finalized", "reorg"} /\ HeaderTells /\ NodeHash = tracked[Frontier] =>
    StaleAbove(Floor(pollHead))

ScanViewInv ==
  pc \in {"logs", "native"} =>
    /\ \A r \in view : r.height <= pollHead
    /\ StaleAbove(Floor(pollHead))
    /\ hdr.hash = hash[pollHead] => Canon(pollHead)

ViewInv ==
  /\ AgeInv /\ Vouched
  /\ pc = "down" => Fresh
  /\ pc = "fork" => ~Fresh
  /\ pc \notin {"logs", "native"} => Fresh \/ TipInv
  /\ HeaderInv /\ PassInv /\ ScanViewInv
-----------------------------------------------------------------------------
(* No hole. *)

LEMMA NothingFails ==
  ASSUME SteadyScan
  PROVE  ~Fault("scan") /\ ~Fault("emit") /\ ~Fault("epipe") /\ ~Fault("crash")
  BY DEF SteadyScan, Fault

LEMMA WritesSucceed ==
  ASSUME SteadyScan, ~outputDead, NEW k, NEW lo, NEW hi
  PROVE  ~WriteFails(k, lo, hi)
  BY NothingFails DEF WriteFails

LEMMA HeadNeverFalls ==
  ASSUME SteadyScan, TypeOK, Chain
  PROVE  head <= head'
<1>1. CASE Mine \/ Finalize
  BY <1>1, StreamAssumption DEF Mine, Finalize, TypeOK, ChainTypeOK
<1>2. ASSUME NEW f \in Heights, NEW h \in Heights, Reorg(f, h)
      PROVE  head <= head'
  BY <1>2 DEF Reorg, SteadyScan
<1> QED
  BY <1>1, <1>2 DEF Chain

LEMMA DeliveredHeld ==
  ASSUME TypeOK, NEW k \in Watched, NEW lo \in Nat, NEW hi \in Nat,
         Delivered(k, lo, hi), HeldBelow(k, lo)
  PROVE  /\ Complete(view', k, origin', hi + 1)
         /\ view \subseteq view'
         /\ UNCHANGED <<head, origin, outputDead>>
<1>1. /\ view' = view \cup Records(k, lo, hi) /\ UNCHANGED <<head, origin, outputDead>>
      /\ origin \in Int
  BY DEF Delivered, Emit, TypeOK, RunTypeOK, env
<1>2. ASSUME NEW h \in lo .. hi
      PROVE  \E r \in view' : r.kind = k /\ r.height = h
  <2>1. Record(k, h) \in view'
    BY <1>1, <1>2 DEF Records
  <2> QED
    BY <2>1 DEF Record
<1> QED
  BY <1>1, <1>2, CompleteExtend DEF HeldBelow

\* What a marker leaves of the view below the fork is all of it.
LEMMA MarkerKeeps ==
  ASSUME TypeOK, NEW k, NEW fork \in Int, NEW tip, NEW exceeded,
         EmitMarker(fork, tip, exceeded), NEW n \in Int, fork + 1 <= n,
         Complete(view, k, origin, n), UNCHANGED origin
  PROVE  Complete(view', k, origin', fork + 1)
<1> SUFFICES ASSUME NEW h \in 0 .. fork, origin <= h
             PROVE  \E r \in view' : r.kind = k /\ r.height = h
  BY DEF Complete
<1>1. h \in 0 .. n - 1
  OBVIOUS
<1>2. PICK r \in view : r.kind = k /\ r.height = h
  BY <1>1 DEF Complete
<1>3. r \in view'
  BY <1>2 DEF EmitMarker
<1> QED
  BY <1>2, <1>3

LEMMA IdleHoleInv ==
  ASSUME HoleInv, pollHead' <= head', UNCHANGED <<view, origin, nextBlock, outputDead>>,
         pc \notin {"down", "logs", "native"}, pc' \notin {"down", "logs", "native"}
  PROVE  HoleInv'
  BY DEF HoleInv, ClosingInv, HeldBelow

LEMMA FailHoleInv ==
  ASSUME TypeOK, HoleInv, Fail, UNCHANGED <<outputDead, output>>,
         pc \notin {"down", "logs", "native"}
  PROVE  HoleInv'
<1>1. pollHead' = 0 /\ head' = head /\ head \in Nat
  BY StreamAssumption DEF Fail, env, TypeOK, ChainTypeOK
<1>2. pc' = "poll" /\ UNCHANGED <<view, origin, nextBlock, outputDead>>
  BY DEF Fail, output
<1> QED
  BY <1>1, <1>2, IdleHoleInv

LEMMA BeginScanHoleInv ==
  ASSUME TypeOK, HoleInv, NEW n \in Nat, BeginScan(n), UNCHANGED <<env, origin, outputDead>>,
         \A k \in Watched : Complete(view', k, origin', n)
  PROVE  HoleInv'
<1>1. ~outputDead /\ pollHead <= head /\ head' = head /\ head \in Nat
  BY StreamAssumption DEF HoleInv, env, TypeOK, ChainTypeOK
<1>2. CASE Succeed(n)
  <2>1. pc' = "save" /\ nextBlock' = n /\ pollHead' = 0
    BY <1>2 DEF Succeed
  <2> QED
    BY <1>1, <2>1 DEF HoleInv, ClosingInv, HeldBelow
<1>3. CASE pc' = FirstQuery /\ cur' = n /\ at' = n /\ UNCHANGED pollHead
  <2>1. pc' \in {"logs", "native"}
    BY <1>3, FirstQueryType
  <2>2. ClosingInv'
    BY <1>3, FirstQueryType DEF ClosingInv, HeldBelow, FirstQuery
  <2> QED
    BY <1>1, <1>3, <2>1, <2>2 DEF HoleInv
<1> QED
  BY <1>2, <1>3 DEF BeginScan

LEMMA ChunkDoneHoleInv ==
  ASSUME TypeOK, HoleInv, pc \in {"logs", "native"}, ChunkDone,
         UNCHANGED <<head, origin, outputDead>>,
         \A k \in Watched : Complete(view', k, origin', ChunkEnd + 1)
  PROVE  HoleInv'
<1>1. ~outputDead /\ pollHead <= head /\ head' = head /\ head \in Nat
  BY StreamAssumption DEF HoleInv, TypeOK, ChainTypeOK
<1>2. CASE ChunkEnd < pollHead
  <2>1. /\ pc' = FirstQuery /\ cur' = ChunkEnd + 1 /\ at' = ChunkEnd + 1
        /\ UNCHANGED pollHead
    BY <1>2 DEF ChunkDone
  <2>2. ClosingInv'
    BY <2>1, FirstQueryType DEF ClosingInv, HeldBelow, FirstQuery
  <2>3. pc' \in {"logs", "native"}
    BY <2>1, FirstQueryType
  <2> QED
    BY <1>1, <2>1, <2>2, <2>3 DEF HoleInv
<1>3. CASE ~(ChunkEnd < pollHead)
  <2>1. pc' = "save" /\ nextBlock' = pollHead + 1 /\ pollHead' = 0
    BY <1>3 DEF ChunkDone, Succeed
  <2>2. ChunkEnd = pollHead
    BY <1>3, ChunkEndType, StreamAssumption DEF TypeOK, PollTypeOK
  <2> QED
    BY <1>1, <2>1, <2>2 DEF HoleInv, ClosingInv, HeldBelow
<1> QED
  BY <1>2, <1>3

LEMMA ContinueHoleInv ==
  ASSUME TypeOK, HoleInv, pc \in {"logs", "native"}, view \subseteq view',
         UNCHANGED <<head, origin, outputDead>>, NEW next \in {"logs", "native"}, NEW n,
         Continue(next, n),
         next = "logs" => Complete(view', "event", origin', n),
         next = "native" =>
           /\ Complete(view', "native", origin', n)
           /\ "event" \in Watched => Complete(view', "event", origin', ChunkEnd + 1)
  PROVE  HoleInv'
<1>1. /\ pc' = next /\ at' = n /\ cur' = cur /\ pollHead' = pollHead
      /\ origin \in Int /\ cur \in Int
  BY DEF Continue, TypeOK, RunTypeOK, PollTypeOK
<1>2. ChunkEnd' = ChunkEnd
  BY <1>1 DEF ChunkEnd
<1>3. ASSUME NEW k \in Watched
      PROVE  Complete(view', k, origin', cur')
  <2>1. Complete(view, k, origin, cur)
    BY DEF HoleInv, ClosingInv, HeldBelow
  <2> QED
    BY <1>1, <2>1, CompleteMono
<1>4. ClosingInv'
  BY <1>1, <1>2, <1>3 DEF ClosingInv, HeldBelow
<1> QED
  BY <1>1, <1>4 DEF HoleInv

LEMMA StepHoleInv ==
  ASSUME SteadyScan, TypeOK, HoleInv, [Next]_vars
  PROVE  HoleInv'
<1> USE DEF TypeOK
<1>1. ~outputDead /\ pollHead <= head /\ pollHead \in Nat /\ head \in Nat
  BY StreamAssumption DEF HoleInv, ChainTypeOK, PollTypeOK
<1>2. CASE Chain \/ UNCHANGED vars
  <2>1. UNCHANGED <<pc, outputDead, pollHead, origin, view, nextBlock, cur, at>>
    BY <1>2 DEF Chain, vars, locals, output
  <2>2. pollHead' <= head' /\ ChunkEnd' = ChunkEnd
    <3>1. head <= head' /\ head' \in Int
      BY <1>1, <1>2, HeadNeverFalls, ChainStepTypeOK, StreamAssumption
      DEF vars, env, ChainTypeOK
    <3> QED
      BY <1>1, <2>1, <3>1 DEF ChunkEnd
  <2> QED
    BY <2>1, <2>2 DEF HoleInv, ClosingInv, HeldBelow
<1>3. CASE Start
  <2>1. /\ pc' = "poll" /\ origin = -1 /\ origin' = nextBlock'
        /\ UNCHANGED <<head, outputDead, pollHead, view>>
    BY <1>3 DEF Start, StartAt, HoleInv, env, locals, output
  <2>2. nextBlock' \in Int
    BY <1>1, <1>3, StreamAssumption DEF Start, StartAt, RunTypeOK, Latest
  <2>3. \A k \in Watched : Complete(view', k, origin', nextBlock')
    BY <2>1, <2>2, CompleteEmpty
  <2> QED
    BY <1>1, <2>1, <2>3 DEF HoleInv, ClosingInv, HeldBelow
<1>4. CASE Crash
  BY <1>4, NothingFails DEF Crash
<1>5. CASE BlockNumber \/ HeadHeader \/ FinalizedTag
  <2>1. /\ UNCHANGED <<view, origin, nextBlock, outputDead, head>>
        /\ pc \in {"poll", "header", "finalized"}
        /\ pc' \in {"header", "finalized", "reorg"}
    BY <1>5 DEF BlockNumber, HeadHeader, FinalizedTag, env, output
  <2>2. pollHead' <= head
    BY <1>1, <1>5 DEF BlockNumber, HeadHeader, FinalizedTag, locals
  <2> QED
    BY <2>1, <2>2, IdleHoleInv
<1>6. CASE CheckFrontier
  <2>1. pc = "reorg" /\ UNCHANGED <<outputDead, output>> /\ nextBlock \in Nat
    BY <1>6 DEF CheckFrontier, RunTypeOK
  <2>2. CASE BeginScan(nextBlock) /\ UNCHANGED <<env, origin>>
    <3>1. \A k \in Watched : Complete(view', k, origin', nextBlock)
      BY <2>1, <2>2 DEF HoleInv, HeldBelow, output
    <3> QED
      BY <2>1, <2>2, <3>1, BeginScanHoleInv
  <2>3. CASE pc' = "fork" /\ UNCHANGED <<env, nextBlock, pollHead, origin>>
    BY <1>1, <2>1, <2>3, IdleHoleInv DEF env, output
  <2>4. CASE Fail
    BY <2>1, <2>4, FailHoleInv
  <2> QED
    BY <1>6, <2>2, <2>3, <2>4 DEF CheckFrontier
<1>7. CASE ResolveFork
  <2>1. pc = "fork" /\ nextBlock > 0 /\ walk <= Frontier /\ nextBlock \in Nat
    BY <1>7 DEF ResolveFork, PollTypeOK, RunTypeOK
  <2>2. ASSUME NEW fork \in Heights, fork <= Frontier, NEW exceeded, Rewind(fork, exceeded)
        PROVE  HoleInv'
    <3>1. /\ EmitMarker(fork, Frontier, exceeded) /\ BeginScan(fork + 1)
          /\ UNCHANGED <<env, outputDead, origin>>
      BY <1>1, <2>2, NothingFails DEF Rewind
    <3>2. fork + 1 \in Nat /\ fork + 1 <= nextBlock
      BY <2>1, <2>2, FrontierType, StreamAssumption
    <3>3. ASSUME NEW k \in Watched
          PROVE  Complete(view', k, origin', fork + 1)
      <4>1. Complete(view, k, origin, nextBlock)
        BY <2>1 DEF HoleInv, HeldBelow
      <4> QED
        BY <2>1, <3>1, <3>2, <4>1, MarkerKeeps, StreamAssumption
    <3> QED
      BY <3>1, <3>2, <3>3, BeginScanHoleInv
  <2>3. CASE Rewind(Floor(Frontier), TRUE)
    BY <2>1, <2>2, <2>3, FrontierType
  <2>4. ASSUME NEW n \in Heights, NextCandidate(n), CompareCandidate(n)
        PROVE  HoleInv'
    <3>1. n <= Frontier
      BY <2>1, <2>4, FrontierType, StreamAssumption
      DEF NextCandidate, ForkCandidates, PollTypeOK
    <3>2. CASE Rewind(n, FALSE)
      BY <2>2, <3>1, <3>2
    <3>3. CASE UNCHANGED <<env, pc, nextBlock, outputDead, pollHead, output, origin>>
      BY <1>1, <2>1, <3>3, IdleHoleInv DEF env, output
    <3>4. CASE Fail /\ UNCHANGED <<outputDead, output>>
      BY <2>1, <3>4, FailHoleInv
    <3> QED
      BY <2>4, <3>2, <3>3, <3>4 DEF CompareCandidate
  <2> QED
    BY <1>7, <2>3, <2>4 DEF ResolveFork
<1>8. CASE GetLogs
  <2>1. /\ pc = "logs" /\ "event" \in Watched /\ at \in Nat /\ cur \in Nat
        /\ ChunkEnd \in Heights /\ HeldBelow("event", at)
        /\ \A k \in Watched : HeldBelow(k, cur)
    BY <1>8, ChunkEndType DEF GetLogs, PollTypeOK, HoleInv, ClosingInv
  <2>2. PICK hi \in at .. ChunkEnd :
          /\ Delivered("event", at, hi)
          /\ \/ hi < ChunkEnd /\ Continue("logs", hi + 1)
             \/ hi = ChunkEnd /\ "native" \in Watched /\ Continue("native", cur)
             \/ hi = ChunkEnd /\ "native" \notin Watched /\ ChunkDone
    BY <1>1, <1>8, WritesSucceed DEF GetLogs
  <2>3. hi \in Nat
    BY <2>1, StreamAssumption
  <2>4. /\ Complete(view', "event", origin', hi + 1)
        /\ view \subseteq view' /\ UNCHANGED <<head, origin, outputDead>>
    BY <2>1, <2>2, <2>3, DeliveredHeld
  <2>5. CASE Continue("logs", hi + 1)
    BY <2>1, <2>4, <2>5, ContinueHoleInv
  <2>6. CASE hi = ChunkEnd /\ "native" \in Watched /\ Continue("native", cur)
    <3>1. Complete(view', "native", origin', cur)
      BY <2>1, <2>4, <2>6, CompleteMono DEF HeldBelow, RunTypeOK
    <3> QED
      BY <2>1, <2>4, <2>6, <3>1, ContinueHoleInv
  <2>7. CASE hi = ChunkEnd /\ "native" \notin Watched /\ ChunkDone
    <3>1. \A k \in Watched : k = "event"
      BY <2>7, StreamAssumption DEF Kinds
    <3> QED
      BY <2>1, <2>4, <2>7, <3>1, ChunkDoneHoleInv
  <2> QED
    BY <2>2, <2>5, <2>6, <2>7
<1>9. CASE ScanNative
  <2>1. /\ pc = "native" /\ "native" \in Watched /\ at \in Nat /\ cur \in Nat
        /\ ChunkEnd \in Heights /\ HeldBelow("native", at)
        /\ "event" \in Watched => HeldBelow("event", ChunkEnd + 1)
    BY <1>9, ChunkEndType DEF ScanNative, PollTypeOK, HoleInv, ClosingInv
  <2>2. /\ Delivered("native", at, at)
        /\ \/ at < ChunkEnd /\ Continue("native", at + 1)
           \/ at = ChunkEnd /\ ChunkDone
    BY <1>1, <1>9, WritesSucceed DEF ScanNative
  <2>3. /\ Complete(view', "native", origin', at + 1)
        /\ view \subseteq view' /\ UNCHANGED <<head, origin, outputDead>>
    BY <2>1, <2>2, DeliveredHeld
  <2>4. "event" \in Watched => Complete(view', "event", origin', ChunkEnd + 1)
    <3>1. ChunkEnd + 1 \in Int /\ origin \in Int /\ origin' = origin
      BY <2>1, <2>3, StreamAssumption DEF RunTypeOK
    <3> QED
      BY <2>1, <2>3, <3>1, CompleteMono DEF HeldBelow
  <2>5. CASE Continue("native", at + 1)
    BY <2>1, <2>3, <2>4, <2>5, ContinueHoleInv
  <2>6. CASE at = ChunkEnd /\ ChunkDone
    <3>1. \A k \in Watched : Complete(view', k, origin', ChunkEnd + 1)
      BY <2>3, <2>4, <2>6, StreamAssumption DEF Kinds
    <3> QED
      BY <2>1, <2>3, <2>6, <3>1, ChunkDoneHoleInv
  <2> QED
    BY <2>2, <2>5, <2>6
<1>10. CASE ScanFails
  <2>1. pc \in {"logs", "native"} /\ at <= ChunkEnd /\ ChunkEnd <= pollHead
        /\ at \in Nat /\ ChunkEnd \in Nat
    BY <1>10, ChunkEndType, StreamAssumption DEF ScanFails, PollTypeOK
  <2>2. ~(at > head) /\ ~(ChunkEnd > head)
    BY <1>1, <2>1
  <2> QED
    BY <1>10, <2>2, NothingFails DEF ScanFails
<1>11. CASE SaveCheckpoint
  <2>1. /\ pc = "save" /\ pc' = "poll"
        /\ UNCHANGED <<head, pollHead, view, origin, nextBlock, outputDead>>
    BY <1>11 DEF SaveCheckpoint, env, locals, output
  <2> QED
    BY <1>1, <2>1, IdleHoleInv
<1> QED
  BY <1>2, <1>3, <1>4, <1>5, <1>6, <1>7, <1>8, <1>9, <1>10, <1>11 DEF Next, Loop

LEMMA HoleInvariant ==
  ASSUME SteadyScan
  PROVE  Spec => [](TypeOK /\ HoleInv)
<1>1. Init => HoleInv
  BY StreamAssumption DEF Init, HoleInv, ClosingInv
<1>2. TypeOK /\ HoleInv /\ [Next]_vars => HoleInv'
  BY StepHoleInv
<1> QED
  BY <1>1, <1>2, TypeCorrect, PTL DEF Spec

(***************************************************************************)
(* What handleReorgIfAny retracts, the scan from fork_block + 1 writes     *)
(* again: for every chain, depth and chunk size, as long as that scan and  *)
(* its writes do not fail (LostRewind shows what happens when they do).    *)
(***************************************************************************)
THEOREM RewindLeavesNoHole ==
  ASSUME SteadyScan
  PROVE  Spec => []NoHole
<1>1. TypeOK /\ HoleInv => NoHole
  BY DEF HoleInv, NoHole, HeldBelow
<1> QED
  BY <1>1, HoleInvariant, PTL
-----------------------------------------------------------------------------
(* A hole needs a lost rewind. *)

\* The scan is below the frontier it was rewound from.
Rewound == pc \in {"logs", "native"} /\ cur < nextBlock

\* A rewound scan is not cut short: the poll gets past the old frontier.
RewindLands == Rewound => pc' \in {"logs", "native", "save"}

HeldAt(k, h) == \E r \in view : r.kind = k /\ r.height = h

(***************************************************************************)
(* With failures the frontier of the next run is the cursor's, which a     *)
(* rewind onto a shorter chain may leave above the frontier: CursorHeld    *)
(* says that the view has no hole below the cursor either, except where    *)
(* the scan under way is closing it.                                       *)
(***************************************************************************)
CursorHeld ==
  CursorUsable =>
    \A k \in Watched : \A h \in 0 .. ckpt.lastBlock :
      origin <= h /\ (pc \in {"logs", "native"} => nextBlock <= h \/ pollHead < h)
        => HeldAt(k, h)

RewindInv ==
  /\ pc \notin {"down", "logs", "native"} => \A k \in Watched : HeldBelow(k, nextBlock)
  /\ ClosingInv
  /\ CursorHeld

LEMMA InitRewindInv == Init => RewindInv
<1>1. Init => ~CursorUsable
  BY StreamAssumption DEF Init, CursorUsable
<1> QED
  BY <1>1 DEF Init, RewindInv, ClosingInv, CursorHeld

\* Steps outside a scan, and those that end one at or above the frontier.
LEMMA QuietRewindInv ==
  ASSUME TypeOK, RewindInv, ~Rewound, pc # "down", pc' \notin {"logs", "native"},
         view \subseteq view', UNCHANGED <<ckpt, origin>>,
         pc' = "down" \/ nextBlock' = nextBlock
  PROVE  RewindInv'
<1>1. nextBlock \in Nat /\ origin \in Int /\ cur \in Nat
  BY DEF TypeOK, RunTypeOK, PollTypeOK
<1>2. ASSUME NEW k \in Watched
      PROVE  Complete(view', k, origin, nextBlock)
  <2>1. PICK n \in Nat : nextBlock <= n /\ Complete(view, k, origin, n)
    <3>1. CASE pc \in {"logs", "native"}
      BY <1>1, <3>1 DEF Rewound, RewindInv, ClosingInv, HeldBelow
    <3>2. CASE pc \notin {"logs", "native"}
      BY <1>1, <3>2 DEF RewindInv, HeldBelow
    <3> QED
      BY <3>1, <3>2
  <2> QED
    BY <1>1, <2>1, CompleteMono
<1>3. ASSUME CursorUsable, NEW k \in Watched, NEW h \in 0 .. ckpt.lastBlock, origin <= h
      PROVE  \E r \in view' : r.kind = k /\ r.height = h
  <2>1. h \in Int /\ 0 <= h
    OBVIOUS
  <2>2. CASE h < nextBlock
    <3>1. h \in 0 .. nextBlock - 1
      BY <1>1, <2>1, <2>2
    <3> QED
      BY <1>2, <1>3, <3>1 DEF Complete
  <2>3. CASE nextBlock <= h
    BY <1>3, <2>3 DEF RewindInv, CursorHeld, HeldAt
  <2> QED
    BY <1>1, <2>1, <2>2, <2>3
<1>4. CursorHeld'
  BY <1>3 DEF CursorHeld, HeldAt, CursorUsable
<1> QED
  BY <1>2, <1>4 DEF RewindInv, ClosingInv, HeldBelow

\* A scan begins below everything that the marker before it retracted.
LEMMA BeginScanRewindInv ==
  ASSUME TypeOK, RewindInv, pc \in {"reorg", "fork"}, NEW n \in Nat, BeginScan(n),
         UNCHANGED <<ckpt, origin>>,
         \A k \in Watched : Complete(view', k, origin', n),
         n > pollHead => view \subseteq view',
         \A r \in view : nextBlock <= r.height \/ pollHead < r.height => r \in view'
  PROVE  RewindInv'
<1>1. CursorUsable' = CursorUsable
  BY DEF CursorUsable
<1>2. CASE n > pollHead /\ Succeed(n)
  <2>1. pc' = "save" /\ nextBlock' = n
    BY <1>2 DEF Succeed
  <2>2. CursorHeld'
    BY <1>1, <1>2, <2>1 DEF RewindInv, CursorHeld, HeldAt
  <2> QED
    BY <2>1, <2>2 DEF RewindInv, ClosingInv, HeldBelow
<1>3. CASE /\ pc' = FirstQuery /\ cur' = n /\ at' = n
           /\ UNCHANGED <<pollHead, nextBlock>>
  <2>1. pc' \in {"logs", "native"}
    BY <1>3, FirstQueryType
  <2>2. ClosingInv'
    BY <1>3, FirstQueryType DEF ClosingInv, HeldBelow, FirstQuery
  <2>3. ASSUME CursorUsable, NEW k \in Watched, NEW h \in 0 .. ckpt.lastBlock,
               origin <= h, nextBlock <= h \/ pollHead < h
        PROVE  \E r \in view' : r.kind = k /\ r.height = h
    <3>1. PICK r \in view : r.kind = k /\ r.height = h
      BY <2>3 DEF RewindInv, CursorHeld, HeldAt
    <3> QED
      BY <2>3, <3>1
  <2>4. CursorHeld'
    BY <1>1, <1>3, <2>1, <2>3 DEF CursorHeld, HeldAt
  <2> QED
    BY <2>1, <2>2, <2>4 DEF RewindInv
<1> QED
  BY <1>2, <1>3 DEF BeginScan

LEMMA ChunkDoneRewindInv ==
  ASSUME TypeOK, RewindInv, pc \in {"logs", "native"}, ChunkDone, view \subseteq view',
         UNCHANGED <<ckpt, origin>>,
         \A k \in Watched : Complete(view', k, origin', ChunkEnd + 1)
  PROVE  RewindInv'
<1>1. CursorUsable' = CursorUsable
  BY DEF CursorUsable
<1>2. CASE ChunkEnd < pollHead
  <2>1. /\ pc' = FirstQuery /\ cur' = ChunkEnd + 1 /\ at' = ChunkEnd + 1
        /\ UNCHANGED <<pollHead, nextBlock>>
    BY <1>2 DEF ChunkDone
  <2>2. ClosingInv'
    BY <2>1, FirstQueryType DEF ClosingInv, HeldBelow, FirstQuery
  <2>3. pc' \in {"logs", "native"}
    BY <2>1, FirstQueryType
  <2>4. CursorHeld'
    BY <1>1, <2>1, <2>3 DEF RewindInv, CursorHeld, HeldAt
  <2> QED
    BY <2>2, <2>3, <2>4 DEF RewindInv
<1>3. CASE ~(ChunkEnd < pollHead)
  <2>1. pc' = "save" /\ nextBlock' = pollHead + 1
    BY <1>3 DEF ChunkDone, Succeed
  <2>2. ChunkEnd = pollHead /\ pollHead \in Nat
    BY <1>3, ChunkEndType, StreamAssumption DEF TypeOK, PollTypeOK
  <2>3. ASSUME CursorUsable, NEW k \in Watched, NEW h \in 0 .. ckpt.lastBlock, origin <= h
        PROVE  \E r \in view' : r.kind = k /\ r.height = h
    <3>1. h \in Int /\ 0 <= h
      OBVIOUS
    <3>2. CASE h <= pollHead
      <4>1. h \in 0 .. (ChunkEnd + 1) - 1
        BY <2>2, <3>1, <3>2
      <4> QED
        BY <2>3, <4>1 DEF Complete
    <3>3. CASE pollHead < h
      BY <2>3, <3>3 DEF RewindInv, CursorHeld, HeldAt
    <3> QED
      BY <2>2, <3>1, <3>2, <3>3
  <2>4. CursorHeld'
    BY <1>1, <2>3 DEF CursorHeld, HeldAt
  <2> QED
    BY <2>1, <2>2, <2>4 DEF RewindInv, ClosingInv, HeldBelow
<1> QED
  BY <1>2, <1>3

LEMMA ContinueRewindInv ==
  ASSUME TypeOK, RewindInv, pc \in {"logs", "native"}, view \subseteq view',
         UNCHANGED <<ckpt, origin>>, NEW next \in {"logs", "native"}, NEW n,
         Continue(next, n),
         next = "logs" => Complete(view', "event", origin', n),
         next = "native" =>
           /\ Complete(view', "native", origin', n)
           /\ "event" \in Watched => Complete(view', "event", origin', ChunkEnd + 1)
  PROVE  RewindInv'
<1>1. /\ pc' = next /\ at' = n /\ UNCHANGED <<cur, pollHead, nextBlock>>
      /\ origin \in Int /\ cur \in Int
  BY DEF Continue, TypeOK, RunTypeOK, PollTypeOK
<1>2. ChunkEnd' = ChunkEnd /\ CursorUsable' = CursorUsable
  BY <1>1 DEF ChunkEnd, CursorUsable
<1>3. ASSUME NEW k \in Watched
      PROVE  Complete(view', k, origin', cur')
  <2>1. Complete(view, k, origin, cur)
    BY DEF RewindInv, ClosingInv, HeldBelow
  <2> QED
    BY <1>1, <2>1, CompleteMono
<1>4. ClosingInv'
  BY <1>1, <1>2, <1>3 DEF ClosingInv, HeldBelow
<1>5. CursorHeld'
  BY <1>1, <1>2 DEF RewindInv, CursorHeld, HeldAt
<1> QED
  BY <1>1, <1>4, <1>5 DEF RewindInv

\* A marker, whatever its fork: the rewind that follows it, or its failure.
LEMMA MarkerRewindInv ==
  ASSUME TypeOK, RewindInv, pc = "fork", NEW fork \in Heights, fork <= Frontier,
         NEW exceeded, Rewind(fork, exceeded)
  PROVE  RewindInv'
<1>1. nextBlock \in Nat /\ nextBlock > 0 /\ pollHead \in Nat /\ origin \in Int
  BY StreamAssumption DEF TypeOK, RunTypeOK, PollTypeOK
<1>2. Frontier <= nextBlock - 1 /\ Frontier <= pollHead /\ Frontier \in Int
  BY <1>1 DEF Frontier
<1>3. CASE EmitMarker(fork, Frontier, exceeded) /\ BeginScan(fork + 1)
           /\ UNCHANGED <<env, ckpt, origin>>
  <2>1. fork + 1 \in Nat /\ fork + 1 <= nextBlock
    BY <1>1, <1>2, StreamAssumption
  <2>2. ASSUME NEW k \in Watched
        PROVE  Complete(view', k, origin', fork + 1)
    <3>1. Complete(view, k, origin, nextBlock)
      BY DEF RewindInv, HeldBelow
    <3> QED
      BY <1>1, <1>3, <2>1, <3>1, MarkerKeeps, StreamAssumption
  <2>3. view' = {r \in view : ~(fork < r.height /\ r.height <= Frontier)}
    BY <1>3 DEF EmitMarker
  <2>4. \A r \in view : r.height \in Int
    BY StreamAssumption DEF TypeOK, OutputTypeOK, RecordSet
  <2>5. fork + 1 > pollHead => view \subseteq view'
    BY <1>1, <1>2, <2>3, <2>4, StreamAssumption
  <2>6. \A r \in view : nextBlock <= r.height \/ pollHead < r.height => r \in view'
    BY <1>1, <1>2, <2>3, <2>4
  <2> QED
    BY <1>3, <2>1, <2>2, <2>5, <2>6, BeginScanRewindInv
<1>4. CASE UNCHANGED output /\ Fail
  BY <1>4, QuietRewindInv DEF Fail, output, Rewound
<1>5. CASE UNCHANGED output /\ Stop
  BY <1>5, QuietRewindInv DEF Stop, output, Rewound
<1> QED
  BY <1>3, <1>4, <1>5 DEF Rewind

\* A scan whose writes fail keeps what was written before.
LEMMA WriteFailsRewindInv ==
  ASSUME TypeOK, RewindInv, RewindLands, pc \in {"logs", "native"},
         NEW k, NEW lo, NEW hi, WriteFails(k, lo, hi)
  PROVE  RewindInv'
<1>1. view \subseteq view'
  BY DEF WriteFails, Emit, output
<1>2. /\ pc' \in {"poll", "down"} /\ UNCHANGED <<ckpt, origin>>
      /\ pc' = "down" \/ nextBlock' = nextBlock
  BY DEF WriteFails, Fail, Stop
<1>3. ~Rewound
  BY <1>2 DEF RewindLands
<1> QED
  BY <1>1, <1>2, <1>3, QuietRewindInv

LEMMA ScanRewindInv ==
  ASSUME TypeOK, RewindInv, RewindLands, GetLogs \/ ScanNative \/ ScanFails
  PROVE  RewindInv'
<1> USE DEF TypeOK
<1>1. CASE GetLogs
  <2>1. /\ pc = "logs" /\ "event" \in Watched /\ at \in Nat /\ cur \in Nat
        /\ ChunkEnd \in Heights /\ HeldBelow("event", at)
        /\ \A k \in Watched : HeldBelow(k, cur)
    BY <1>1, ChunkEndType DEF GetLogs, PollTypeOK, RewindInv, ClosingInv
  <2>2. PICK hi \in at .. ChunkEnd :
          \/ WriteFails("event", at, hi)
          \/ /\ Delivered("event", at, hi)
             /\ \/ hi < ChunkEnd /\ Continue("logs", hi + 1)
                \/ hi = ChunkEnd /\ "native" \in Watched /\ Continue("native", cur)
                \/ hi = ChunkEnd /\ "native" \notin Watched /\ ChunkDone
    BY <1>1 DEF GetLogs
  <2>3. hi \in Nat
    BY <2>1, StreamAssumption
  <2>4. CASE WriteFails("event", at, hi)
    BY <2>1, <2>4, WriteFailsRewindInv
  <2>5. CASE Delivered("event", at, hi)
    <3>1. /\ Complete(view', "event", origin', hi + 1)
          /\ view \subseteq view' /\ UNCHANGED <<ckpt, origin>>
      BY <2>1, <2>3, <2>5, DeliveredHeld DEF Delivered
    <3>2. CASE Continue("logs", hi + 1)
      BY <2>1, <3>1, <3>2, ContinueRewindInv
    <3>3. CASE hi = ChunkEnd /\ "native" \in Watched /\ Continue("native", cur)
      <4>1. Complete(view', "native", origin', cur)
        BY <2>1, <3>1, <3>3, CompleteMono DEF HeldBelow, RunTypeOK
      <4> QED
        BY <2>1, <3>1, <3>3, <4>1, ContinueRewindInv
    <3>4. CASE hi = ChunkEnd /\ "native" \notin Watched /\ ChunkDone
      <4>1. \A k \in Watched : k = "event"
        BY <3>4, StreamAssumption DEF Kinds
      <4> QED
        BY <2>1, <3>1, <3>4, <4>1, ChunkDoneRewindInv
    <3> QED
      BY <2>2, <2>4, <3>2, <3>3, <3>4
  <2> QED
    BY <2>2, <2>4, <2>5
<1>2. CASE ScanNative
  <2>1. /\ pc = "native" /\ "native" \in Watched /\ at \in Nat /\ cur \in Nat
        /\ ChunkEnd \in Heights /\ HeldBelow("native", at)
        /\ "event" \in Watched => HeldBelow("event", ChunkEnd + 1)
    BY <1>2, ChunkEndType DEF ScanNative, PollTypeOK, RewindInv, ClosingInv
  <2>2. CASE WriteFails("native", at, at)
    BY <2>1, <2>2, WriteFailsRewindInv
  <2>3. CASE /\ Delivered("native", at, at)
             /\ \/ at < ChunkEnd /\ Continue("native", at + 1)
                \/ at = ChunkEnd /\ ChunkDone
    <3>1. /\ Complete(view', "native", origin', at + 1)
          /\ view \subseteq view' /\ UNCHANGED <<ckpt, origin>>
      BY <2>1, <2>3, DeliveredHeld DEF Delivered
    <3>2. "event" \in Watched => Complete(view', "event", origin', ChunkEnd + 1)
      <4>1. ChunkEnd + 1 \in Int /\ origin \in Int /\ origin' = origin
        BY <2>1, <3>1, StreamAssumption DEF RunTypeOK
      <4> QED
        BY <2>1, <3>1, <4>1, CompleteMono DEF HeldBelow
    <3>3. CASE Continue("native", at + 1)
      BY <2>1, <3>1, <3>2, <3>3, ContinueRewindInv
    <3>4. CASE at = ChunkEnd /\ ChunkDone
      <4>1. \A k \in Watched : Complete(view', k, origin', ChunkEnd + 1)
        BY <3>1, <3>2, <3>4, StreamAssumption DEF Kinds
      <4> QED
        BY <2>1, <3>1, <3>4, <4>1, ChunkDoneRewindInv
    <3> QED
      BY <2>3, <3>3, <3>4
  <2> QED
    BY <1>2, <2>2, <2>3 DEF ScanNative
<1>3. CASE ScanFails
  <2>1. /\ pc \in {"logs", "native"} /\ pc' = "poll"
        /\ UNCHANGED <<ckpt, origin, nextBlock, view>>
    BY <1>3 DEF ScanFails, Fail, output
  <2>2. ~Rewound
    BY <2>1 DEF RewindLands
  <2> QED
    BY <2>1, <2>2, QuietRewindInv
<1> QED
  BY <1>1, <1>2, <1>3

LEMMA ResolveForkRewindInv ==
  ASSUME TypeOK, RewindInv, ResolveFork
  PROVE  RewindInv'
<1>1. pc = "fork" /\ nextBlock > 0 /\ walk <= Frontier /\ nextBlock \in Nat
  BY DEF ResolveFork, TypeOK, PollTypeOK, RunTypeOK
<1>2. CASE Rewind(Floor(Frontier), TRUE)
  BY <1>1, <1>2, MarkerRewindInv, FrontierType
<1>3. ASSUME NEW n \in Heights, NextCandidate(n), CompareCandidate(n)
      PROVE  RewindInv'
  <2>1. n <= Frontier
    BY <1>1, <1>3, FrontierType, StreamAssumption
    DEF NextCandidate, ForkCandidates, TypeOK, PollTypeOK
  <2>2. CASE Rewind(n, FALSE)
    BY <1>1, <2>1, <2>2, MarkerRewindInv
  <2>3. CASE UNCHANGED <<env, ckpt, pc, nextBlock, output, origin>>
    BY <1>1, <2>3, QuietRewindInv DEF output, Rewound
  <2>4. CASE Fail /\ UNCHANGED output
    BY <1>1, <2>4, QuietRewindInv DEF Fail, output, Rewound
  <2> QED
    BY <1>3, <2>2, <2>3, <2>4 DEF CompareCandidate
<1> QED
  BY <1>2, <1>3 DEF ResolveFork

LEMMA StepRewindInv ==
  ASSUME FromBlock \in Nat, TypeOK, GapInv, RewindInv, [Next]_vars, RewindLands
  PROVE  RewindInv'
<1> USE DEF TypeOK
<1>1. CASE Chain \/ UNCHANGED vars
  <2>1. UNCHANGED <<ckpt, pc, nextBlock, view, origin, cur, at, pollHead>>
    BY <1>1 DEF Chain, vars, locals, output
  <2>2. ChunkEnd' = ChunkEnd /\ CursorUsable' = CursorUsable
    BY <2>1 DEF ChunkEnd, CursorUsable
  <2> QED
    BY <2>1, <2>2 DEF RewindInv, ClosingInv, CursorHeld, HeldAt, HeldBelow
<1>2. CASE Start
  <2>1. /\ pc = "down" /\ pc' = "poll" /\ UNCHANGED <<ckpt, view>>
        /\ origin' = FromBlock /\ CursorUsable' = CursorUsable
        /\ CursorUsable => origin = FromBlock
    BY <1>2 DEF Start, StartAt, GapInv, StartInv, CursorUsable, output, Latest
  <2>2. ASSUME NEW k \in Watched
        PROVE  Complete(view', k, origin', nextBlock')
    <3>1. CASE CursorUsable /\ StartAt(ckpt.lastBlock + 1)
      <4>1. nextBlock' = ckpt.lastBlock + 1 /\ ckpt.lastBlock \in Nat
        BY <3>1 DEF StartAt, RunTypeOK
      <4> QED
        BY <2>1, <3>1, <4>1 DEF RewindInv, CursorHeld, HeldAt, Complete
    <3>2. CASE StartAt(FromBlock)
      BY <2>1, <3>2, CompleteEmpty DEF StartAt
    <3> QED
      BY <1>2, <3>1, <3>2 DEF Start, Latest
  <2>3. CursorHeld'
    BY <2>1 DEF RewindInv, CursorHeld, HeldAt
  <2> QED
    BY <2>1, <2>2, <2>3 DEF RewindInv, ClosingInv, HeldBelow
<1>3. CASE Crash
  <2>1. /\ pc # "down" /\ pc' = "down" /\ UNCHANGED <<ckpt, origin, view>>
    BY <1>3 DEF Crash, Stop, output
  <2>2. ~Rewound
    BY <2>1 DEF RewindLands
  <2> QED
    BY <2>1, <2>2, QuietRewindInv
<1>4. CASE BlockNumber \/ HeadHeader \/ FinalizedTag
  <2>1. /\ UNCHANGED <<ckpt, view, origin, nextBlock>>
        /\ pc \in {"poll", "header", "finalized"}
        /\ pc' \in {"header", "finalized", "reorg"}
    BY <1>4 DEF BlockNumber, HeadHeader, FinalizedTag, output
  <2> QED
    BY <2>1, QuietRewindInv DEF Rewound
<1>5. CASE CheckFrontier
  <2>1. pc = "reorg" /\ UNCHANGED view /\ nextBlock \in Nat
    BY <1>5 DEF CheckFrontier, RunTypeOK, output
  <2>2. CASE BeginScan(nextBlock) /\ UNCHANGED <<ckpt, origin>>
    <3>1. \A k \in Watched : Complete(view', k, origin', nextBlock)
      BY <2>1, <2>2 DEF RewindInv, HeldBelow
    <3> QED
      BY <2>1, <2>2, <3>1, BeginScanRewindInv
  <2>3. CASE pc' \in {"poll", "fork"} /\ UNCHANGED <<ckpt, nextBlock, origin>>
    BY <2>1, <2>3, QuietRewindInv DEF Rewound
  <2> QED
    BY <1>5, <2>2, <2>3 DEF CheckFrontier, Fail
<1>6. CASE ResolveFork
  BY <1>6, ResolveForkRewindInv
<1>7. CASE GetLogs \/ ScanNative \/ ScanFails
  BY <1>7, ScanRewindInv
<1>8. CASE SaveCheckpoint
  <2>1. /\ pc = "save" /\ pc' = "poll" /\ UNCHANGED <<view, origin, nextBlock>>
        /\ nextBlock \in Nat /\ origin \in Int
    BY <1>8 DEF SaveCheckpoint, output, RunTypeOK
  <2>2. CASE UNCHANGED ckpt
    BY <2>1, <2>2, QuietRewindInv DEF Rewound
  <2>3. CASE ckpt' = [chainID |-> ChainID, lastBlock |-> nextBlock - 1]
    <3>1. ckpt'.lastBlock = nextBlock - 1
      BY <2>3
    <3>2. \A k \in Watched : Complete(view, k, origin, nextBlock)
      BY <2>1 DEF RewindInv, HeldBelow
    <3>3. CursorHeld'
      BY <2>1, <3>1, <3>2 DEF CursorHeld, HeldAt, Complete
    <3> QED
      BY <2>1, <3>2, <3>3 DEF RewindInv, ClosingInv, HeldBelow
  <2> QED
    BY <1>8, <2>2, <2>3 DEF SaveCheckpoint
<1> QED
  BY <1>1, <1>2, <1>3, <1>4, <1>5, <1>6, <1>7, <1>8 DEF Next, Loop

(***************************************************************************)
(* The converse of LostRewind: a rewound scan that is cut short, because   *)
(* pollOnce fails or the process ends inside it, is the only way to a hole *)
(* in the consumer's view.  Every other failure of a call, a write, a save *)
(* or the process, at any point, on any chain, leaves none.                *)
(***************************************************************************)
THEOREM HoleNeedsLostRewind ==
  ASSUME FromBlock \in Nat
  PROVE  Spec /\ [][RewindLands]_vars => []NoHole
<1>1. TypeOK /\ GapInv /\ RewindInv /\ [Next]_vars /\ [RewindLands]_vars => RewindInv'
  <2>1. UNCHANGED vars => RewindLands
    BY DEF vars, RewindLands, Rewound
  <2> QED
    BY <2>1, StepRewindInv
<1>2. RewindInv => NoHole
  BY DEF RewindInv, NoHole, HeldBelow
<1> QED
  BY <1>1, <1>2, InitRewindInv, GapInvariant, PTL DEF Spec
-----------------------------------------------------------------------------
(* A stale view is never silent. *)

LEMMA ViewType ==
  ASSUME TypeOK
  PROVE  /\ \A r \in view : r.height \in Heights /\ r.fork \in Nat
         /\ hash \in [Heights -> Nat] /\ tracked \in [Heights -> Nat \cup {NoHash}]
         /\ head \in Nat /\ head \in Heights /\ pollHead \in Nat /\ pollHead \in Heights
         /\ reorgs \in Nat /\ nextBlock \in Nat
         /\ hdr.hash \in Nat \cup {NoHash} /\ hdr.parent \in Nat \cup {NoHash}
  BY StreamAssumption
  DEF TypeOK, ChainTypeOK, RunTypeOK, PollTypeOK, OutputTypeOK, RecordSet

LEMMA FloorIs ==
  ASSUME NEW t \in Nat
  PROVE  Floor(t) \in Nat /\ Floor(t) <= t
  BY StreamAssumption DEF Floor

\* Nothing is stale where everything held is vouched for.
LEMMA CanonIsStaleAbove ==
  ASSUME TypeOK, NEW n \in Int, Canon(n), \A r \in view : r.height <= n
  PROVE  \A m : Canon(m) /\ StaleAbove(m)
  BY DEF Canon, StaleAbove

LEMMA TipIsFrontier ==
  ASSUME TypeOK, TipInv, pc \in {"header", "finalized", "reorg", "fork"}
  PROVE  Frontier = nextBlock - 1 /\ Frontier \in Heights /\ nextBlock <= pollHead + 1
  BY ViewType, StreamAssumption DEF TipInv, Frontier

-----------------------------------------------------------------------------
(* The chain moves. *)

LEMMA ReorgViewInv ==
  ASSUME SteadyHead, TypeOK, HoleInv, ViewInv, NEW f \in Heights, NEW h \in Heights,
         Reorg(f, h), head <= head',
         UNCHANGED <<pc, nextBlock, tracked, pollHead, hdr, view>>
  PROVE  ViewInv'
<1> USE ViewType
<1>1. /\ \A n \in Heights : hash'[n] = IF n > f THEN reorgs + 1 ELSE hash[n]
      /\ reorgs' = reorgs + 1 /\ f \in Nat
  BY StreamAssumption DEF Reorg
<1>2. ASSUME NEW t \in Nat, t <= head
      PROVE  Floor(t) <= f
  BY <1>1, <1>2, StreamAssumption DEF Floor, Reorg, SteadyHead
<1>3. ASSUME NEW n \in Int, n <= f, StaleAbove(n)
      PROVE  StaleAbove(n)'
  <2> SUFFICES ASSUME NEW r \in view, r.fork # hash'[r.height]
               PROVE  n < r.height
    BY DEF StaleAbove
  <2>1. CASE r.height > f
    BY <1>1, <1>3, <2>1
  <2>2. CASE ~(r.height > f)
    <3>1. hash'[r.height] = hash[r.height]
      BY <1>1, <2>2
    <3> QED
      BY <1>3, <3>1 DEF StaleAbove
  <2> QED
    BY <2>1, <2>2
<1>4. ASSUME NEW n \in Heights, NEW x \in Int, x <= reorgs, hash'[n] = x
      PROVE  n <= f /\ hash[n] = x /\ (Canon(n) => Canon(n)')
  <2>1. n <= f /\ hash[n] = x
    BY <1>1, <1>4, StreamAssumption
  <2>2. ASSUME NEW m \in Heights, m <= n
        PROVE  hash'[m] = hash[m]
    <3>1. ~(m > f)
      BY <2>1, <2>2, StreamAssumption
    <3> QED
      BY <1>1, <3>1
  <2> QED
    BY <2>1, <2>2 DEF Canon
<1>5. AgeInv'
  <2>1. hdr'.hash <= reorgs'
    BY <1>1 DEF ViewInv, AgeInv, NoHash
  <2>2. ASSUME NEW n \in Heights
        PROVE  hash'[n] <= reorgs' /\ tracked'[n] <= reorgs'
    BY <1>1, <2>2 DEF ViewInv, AgeInv, NoHash
  <2> QED
    BY <2>1, <2>2 DEF AgeInv
<1>6. Vouched'
  <2> SUFFICES ASSUME NEW n \in Heights, tracked[n] = hash'[n]
               PROVE  Canon(n)'
    BY DEF Vouched
  <2>1. tracked[n] <= reorgs
    BY DEF ViewInv, AgeInv
  <2>2. tracked[n] \in Int /\ reorgs \in Nat
    BY DEF NoHash
  <2>3. hash[n] = tracked[n] /\ (Canon(n) => Canon(n)')
    BY <1>4, <2>1, <2>2
  <2>4. Canon(n)
    BY <2>3 DEF ViewInv, Vouched
  <2> QED
    BY <2>3, <2>4
<1>7. pc \notin {"logs", "native"} => Fresh' \/ TipInv'
  <2>1. ASSUME TipInv
        PROVE  TipInv'
    <3>1. nextBlock - 1 \in Nat /\ nextBlock - 1 <= head
      BY <2>1 DEF TipInv
    <3>2. Floor(nextBlock - 1) <= f /\ Floor(nextBlock - 1) \in Int
      BY <1>2, <3>1, FloorIs
    <3>3. StaleAbove(Floor(nextBlock - 1))'
      <4>1. ASSUME NEW n \in Int, n <= f, StaleAbove(n), n = Floor(nextBlock - 1)
            PROVE  StaleAbove(Floor(nextBlock - 1))'
        <5>1. n = Floor(nextBlock - 1)'
          BY <4>1 DEF Floor
        <5> QED
          BY <1>3, <4>1, <5>1 DEF StaleAbove
      <4> QED
        BY <2>1, <3>2, <4>1 DEF TipInv
    <3>4. nextBlock - 1 <= head'
      BY <3>1, ChainStepTypeOK, StreamAssumption DEF Reorg
    <3> QED
      BY <2>1, <3>3, <3>4 DEF TipInv
  <2> QED
    BY <2>1 DEF ViewInv, Fresh
<1>8. ASSUME pc \in {"finalized", "reorg", "fork", "logs", "native"},
             hdr.hash = hash'[pollHead]
      PROVE  pollHead <= f /\ hash[pollHead] = hdr.hash
  <2>1. hdr.hash \in Int /\ hdr.hash <= reorgs
    BY DEF ViewInv, AgeInv, NoHash
  <2> QED
    BY <1>4, <1>8, <2>1
<1>9. HeaderInv'
  <2>1. ASSUME pc \in {"finalized", "reorg", "fork", "logs", "native"},
               hdr.hash = hash'[pollHead], pollHead > 0
        PROVE  hdr.parent = hash'[pollHead - 1]
    <3>1. pollHead - 1 \in Heights /\ pollHead <= f /\ hash[pollHead] = hdr.hash
      BY <1>8, <2>1, StreamAssumption
    <3>2. hash'[pollHead - 1] = hash[pollHead - 1]
      BY <1>1, <3>1, StreamAssumption
    <3> QED
      BY <2>1, <3>1, <3>2 DEF ViewInv, HeaderInv
  <2> QED
    BY <2>1 DEF ViewInv, HeaderInv
<1>10. pollHead <= head
  BY DEF HoleInv
<1>11. Floor(pollHead) <= f /\ Floor(pollHead) \in Int /\ Floor(pollHead)' = Floor(pollHead)
  BY <1>2, <1>10, FloorIs DEF Floor
<1>12. StaleAbove(Floor(pollHead)) => StaleAbove(Floor(pollHead))'
  <2>1. ASSUME NEW n \in Int, n <= f, StaleAbove(n), n = Floor(pollHead)
        PROVE  StaleAbove(Floor(pollHead))'
    BY <1>3, <1>11, <2>1 DEF StaleAbove
  <2> QED
    BY <1>11, <2>1
<1>13. PassInv'
  <2> SUFFICES ASSUME pc \in {"finalized", "reorg"}, HeaderTells', (NodeHash = tracked[Frontier])'
               PROVE  StaleAbove(Floor(pollHead))'
    BY DEF PassInv
  <2>1. Frontier' = Frontier /\ HeaderTells
    BY DEF Frontier, HeaderTells
  <2>2. NodeHash' = NodeHash
    BY <2>1 DEF NodeHash, HeaderTells
  <2> QED
    BY <1>12, <2>1, <2>2 DEF ViewInv, PassInv
<1>14. ScanViewInv'
  <2>1. ASSUME pc \in {"logs", "native"}, hdr.hash = hash'[pollHead]
        PROVE  Canon(pollHead)'
    <3>1. pollHead <= f /\ hash[pollHead] = hdr.hash
      BY <1>8, <2>1
    <3>2. Canon(pollHead)
      BY <2>1, <3>1 DEF ViewInv, ScanViewInv
    <3>3. \A m \in Heights : m <= pollHead => hash'[m] = hash[m]
      BY <1>1, <3>1, StreamAssumption
    <3> QED
      BY <3>2, <3>3 DEF Canon
  <2> QED
    BY <1>12, <2>1 DEF ViewInv, ScanViewInv
<1> QED
  BY <1>5, <1>6, <1>7, <1>9, <1>13, <1>14 DEF ViewInv, Fresh

LEMMA ChainViewInv ==
  ASSUME SteadyScan, SteadyHead, TypeOK, HoleInv, ViewInv, Chain
  PROVE  ViewInv'
<1>1. UNCHANGED <<pc, nextBlock, tracked, pollHead, hdr, view>> /\ head <= head'
  BY HeadNeverFalls DEF Chain, locals, output
<1>2. CASE Mine \/ Finalize
  <2>1. UNCHANGED <<hash, reorgs>>
    BY <1>2 DEF Mine, Finalize
  <2>2. TipInv => TipInv'
    <3>1. head \in Int /\ head' \in Int /\ nextBlock \in Int
      BY ViewType, ChainStepTypeOK, StreamAssumption DEF TypeOK, ChainTypeOK
    <3> QED
      BY <1>1, <2>1, <3>1 DEF TipInv, StaleAbove, Floor
  <2>3. PassInv'
    BY <1>1, <2>1 DEF ViewInv, PassInv, HeaderTells, NodeHash, Frontier, StaleAbove, Floor
  <2> QED
    BY <1>1, <2>1, <2>2, <2>3
    DEF ViewInv, AgeInv, Vouched, Canon, Fresh, HeaderInv, ScanViewInv, StaleAbove, Floor
<1>3. ASSUME NEW f \in Heights, NEW h \in Heights, Reorg(f, h)
      PROVE  ViewInv'
  BY <1>1, <1>3, ReorgViewInv
<1> QED
  BY <1>2, <1>3 DEF Chain
-----------------------------------------------------------------------------
(* The poll, up to the scan. *)

\* A poll ends or fails without a change to what is told and tracked.
LEMMA EndViewInv ==
  ASSUME ViewInv, pc \notin {"down", "logs", "native"}, pc' \in {"poll", "save"},
         UNCHANGED <<hash, reorgs, head, tracked, view, nextBlock>>,
         hdr'.hash \in {hdr.hash, NoHash}, reorgs \in Nat
  PROVE  ViewInv'
<1>1. AgeInv'
  BY DEF ViewInv, AgeInv, NoHash
<1>2. Vouched' /\ (Fresh => Fresh')
  BY DEF ViewInv, Vouched, Canon, Fresh
<1>3. TipInv => TipInv'
  BY DEF TipInv, StaleAbove, Floor
<1> QED
  BY <1>1, <1>2, <1>3 DEF ViewInv, HeaderInv, PassInv, ScanViewInv

LEMMA FailViewInv ==
  ASSUME TypeOK, ViewInv, pc \notin {"down", "logs", "native"}, Fail,
         UNCHANGED <<tracked, output>>
  PROVE  ViewInv'
<1>1. /\ pc' = "poll" /\ hdr'.hash = NoHash
      /\ UNCHANGED <<hash, reorgs, head, tracked, view, nextBlock>>
  BY DEF Fail, NoHeader, env, output
<1> QED
  BY <1>1, EndViewInv, ViewType

LEMMA HeaderStepViewInv ==
  ASSUME SteadyHead, TypeOK, HoleInv, ViewInv, BlockNumber \/ HeadHeader \/ FinalizedTag
  PROVE  ViewInv'
<1> USE ViewType
<1>1. /\ UNCHANGED <<hash, reorgs, head, tracked, view, nextBlock>>
      /\ pc \in {"poll", "header", "finalized"} /\ pc' \in {"header", "finalized", "reorg"}
  BY DEF BlockNumber, HeadHeader, FinalizedTag, env, output
<1>2. Vouched' /\ (Fresh' = Fresh)
  BY <1>1 DEF ViewInv, Vouched, Canon, Fresh
<1>3. CASE BlockNumber
  <2>1. pollHead' = head /\ pc' = "header" /\ pc = "poll" /\ UNCHANGED hdr
    BY <1>3 DEF BlockNumber, SteadyHead, Fault
  <2>2. TipInv => TipInv'
    BY <1>1, <2>1 DEF TipInv, StaleAbove, Floor
  <2>3. AgeInv'
    BY <1>1, <2>1 DEF ViewInv, AgeInv
  <2> QED
    BY <1>2, <2>1, <2>2, <2>3 DEF ViewInv, HeaderInv, PassInv, ScanViewInv
<1>4. CASE HeadHeader
  <2>1. /\ pc = "header" /\ pc' \in {"finalized", "reorg"} /\ UNCHANGED pollHead
        /\ hdr' = [hash |-> hash[pollHead],
                   parent |-> IF pollHead = 0 THEN NoHash ELSE hash[pollHead - 1]]
    BY <1>4 DEF HeadHeader, SteadyHead, Fault, HoleInv
  <2>2. TipInv => TipInv'
    BY <1>1, <2>1 DEF TipInv, StaleAbove, Floor
  <2>3. AgeInv'
    BY <1>1, <2>1 DEF ViewInv, AgeInv
  <2>4. HeaderInv'
    BY <1>1, <2>1, StreamAssumption DEF HeaderInv, NoHash
  <2>5. PassInv'
    <3> SUFFICES ASSUME HeaderTells', (NodeHash = tracked[Frontier])'
                 PROVE  StaleAbove(Floor(pollHead))'
      BY DEF PassInv
    <3>1. CASE Fresh
      BY <1>1, <3>1 DEF Fresh, StaleAbove
    <3>2. CASE TipInv
      <4>1. Frontier = nextBlock - 1 /\ Frontier \in Heights /\ Frontier' = Frontier
        BY <1>1, <2>1, <3>2, TipIsFrontier DEF Frontier
      <4>2. hash[Frontier] = tracked[Frontier]
        <5>1. CASE pollHead = Frontier
          BY <1>1, <2>1, <4>1, <5>1 DEF HeaderTells, NodeHash, NoHash
        <5>2. CASE pollHead # Frontier
          <6>1. pollHead = Frontier + 1 /\ NodeHash' = hdr'.parent
            BY <1>1, <2>1, <4>1, <5>2 DEF HeaderTells, NodeHash
          <6>2. hdr'.parent = hash[Frontier]
            BY <2>1, <4>1, <6>1, StreamAssumption
          <6> QED
            BY <1>1, <4>1, <6>1, <6>2
        <5> QED
          BY <5>1, <5>2
      <4>3. Canon(nextBlock - 1)
        BY <4>1, <4>2 DEF ViewInv, Vouched
      <4>4. \A r \in view : r.height <= nextBlock - 1
        BY <3>2, StreamAssumption DEF TipInv
      <4>5. StaleAbove(Floor(pollHead))
        BY <4>3, <4>4, CanonIsStaleAbove
      <4> QED
        BY <1>1, <2>1, <4>5 DEF StaleAbove, Floor
    <3> QED
      BY <2>1, <3>1, <3>2 DEF ViewInv
  <2> QED
    BY <1>2, <2>1, <2>2, <2>3, <2>4, <2>5 DEF ViewInv, ScanViewInv
<1>5. CASE FinalizedTag
  <2>1. pc = "finalized" /\ pc' = "reorg" /\ UNCHANGED <<hdr, pollHead>>
    BY <1>5 DEF FinalizedTag, locals
  <2>2. TipInv => TipInv'
    BY <1>1, <2>1 DEF TipInv, StaleAbove, Floor
  <2>3. AgeInv'
    BY <1>1, <2>1 DEF ViewInv, AgeInv
  <2>4. PassInv'
    BY <1>1, <2>1 DEF ViewInv, PassInv, HeaderTells, NodeHash, Frontier, StaleAbove, Floor
  <2> QED
    BY <1>1, <1>2, <2>1, <2>2, <2>3, <2>4 DEF ViewInv, HeaderInv, ScanViewInv
<1> QED
  BY <1>3, <1>4, <1>5

\* The check has passed: at least the blocks up to the frontier were canonical
\* when the header was fetched.
LEMMA PassViewInv ==
  ASSUME SteadyHead, TypeOK, HoleInv, ViewInv, pc = "reorg",
         ~FrontierTracked \/ NodeHash = tracked[Frontier],
         BeginScan(nextBlock), UNCHANGED <<env, tracked, output>>
  PROVE  ViewInv'
<1> USE ViewType
<1>1. UNCHANGED <<hash, reorgs, head, tracked, view>>
  BY DEF env, output
<1>2. CASE Succeed(nextBlock)
  <2>1. pc' = "save" /\ nextBlock' = nextBlock /\ hdr'.hash = NoHash
    BY <1>2 DEF Succeed, NoHeader
  <2> QED
    BY <1>1, <2>1, EndViewInv
<1>3. CASE nextBlock <= pollHead /\ pc' = FirstQuery /\ UNCHANGED <<pollHead, hdr>>
  <2>1. pc' \in {"logs", "native"}
    BY <1>3, FirstQueryType
  <2>2. AgeInv' /\ Vouched' /\ HeaderInv'
    BY <1>1, <1>3, <2>1 DEF ViewInv, AgeInv, Vouched, Canon, HeaderInv
  <2>3. ScanViewInv'
    <3>1. CASE Fresh
      BY <1>1, <3>1 DEF Fresh, ScanViewInv, StaleAbove, Canon
    <3>2. CASE TipInv
      <4>1. Frontier = nextBlock - 1 /\ Frontier \in Heights /\ nextBlock > 0
        BY <3>2, TipIsFrontier DEF TipInv
      <4>2. NodeHash = tracked[Frontier]
        BY <3>2, <4>1 DEF FrontierTracked, SteadyHead, TipInv
      <4>3. \A r \in view : r.height <= nextBlock - 1 /\ r.height <= pollHead
        BY <1>3, <3>2, StreamAssumption DEF TipInv
      <4>4. hash[Frontier] = tracked[Frontier] => \A m : Canon(m) /\ StaleAbove(m)
        BY <4>1, <4>3, CanonIsStaleAbove DEF ViewInv, Vouched
      <4>5. CASE HeaderTells
        <5>1. StaleAbove(Floor(pollHead))
          BY <4>2, <4>5 DEF ViewInv, PassInv
        <5>2. pollHead > 0 /\ pollHead - 1 = Frontier /\ NodeHash = hdr.parent
          BY <1>3, <4>1, <4>5 DEF HeaderTells, NodeHash
        <5>3. hdr.hash = hash[pollHead] => hash[Frontier] = tracked[Frontier]
          BY <4>2, <5>2 DEF ViewInv, HeaderInv
        <5>4. hdr.hash = hash[pollHead] => Canon(pollHead)
          BY <4>4, <5>3
        <5> QED
          BY <1>1, <1>3, <4>3, <5>1, <5>4 DEF ScanViewInv, StaleAbove, Canon, Floor
      <4>6. CASE ~HeaderTells
        <5>1. NodeHash = hash[Frontier]
          BY <4>6 DEF HeaderTells, NodeHash
        <5>2. Canon(pollHead) /\ StaleAbove(Floor(pollHead))
          BY <4>2, <4>4, <5>1
        <5> QED
          BY <1>1, <1>3, <4>3, <5>2 DEF ScanViewInv, StaleAbove, Canon, Floor
      <4> QED
        BY <4>5, <4>6
    <3> QED
      BY <3>1, <3>2 DEF ViewInv
  <2> QED
    BY <2>1, <2>2, <2>3 DEF ViewInv, PassInv
<1> QED
  BY <1>2, <1>3 DEF BeginScan

\* What the marker leaves is canonical up to the fork, whether the fork was
\* found or the window ran out.
LEMMA RewindViewInv ==
  ASSUME SteadyScan, TypeOK, HoleInv, ViewInv, pc = "fork", NEW fork \in Heights,
         fork <= Frontier, NEW exceeded, Canon(fork), Rewind(fork, exceeded)
  PROVE  ViewInv'
<1> USE ViewType
<1>1. /\ EmitMarker(fork, Frontier, exceeded)
      /\ tracked' = ForgetAbove(tracked, fork)
      /\ BeginScan(fork + 1)
      /\ UNCHANGED <<hash, reorgs, head>>
  BY NothingFails DEF Rewind, HoleInv, env
<1>2. TipInv
  BY DEF ViewInv
<1>3. Frontier = nextBlock - 1 /\ Frontier \in Heights /\ nextBlock <= pollHead + 1
  BY <1>2, TipIsFrontier
<1>4. \A r \in view' : r \in view /\ r.height <= fork /\ r.fork = hash[r.height]
  <2> SUFFICES ASSUME NEW r \in view' PROVE r \in view /\ r.height <= fork /\ r.fork = hash[r.height]
    OBVIOUS
  <2>1. r \in view /\ ~(fork < r.height /\ r.height <= Frontier)
    BY <1>1 DEF EmitMarker
  <2>2. r.height < nextBlock
    BY <1>2, <2>1 DEF TipInv
  <2>3. r.height <= fork
    BY <1>3, <2>1, <2>2, StreamAssumption
  <2> QED
    BY <2>1, <2>3 DEF Canon
<1>5. \A n \in Heights : tracked'[n] = IF n > fork THEN NoHash ELSE tracked[n]
  BY <1>1 DEF ForgetAbove
<1>6. AgeInv'
  <2>1. hdr'.hash <= reorgs
    BY <1>1 DEF BeginScan, Succeed, NoHeader, ViewInv, AgeInv, NoHash
  <2>2. ASSUME NEW n \in Heights
        PROVE  hash[n] <= reorgs /\ tracked'[n] <= reorgs
    BY <1>5 DEF ViewInv, AgeInv, NoHash
  <2> QED
    BY <1>1, <2>1, <2>2 DEF AgeInv
<1>7. Vouched' /\ \A n : Canon(n)' /\ StaleAbove(n)'
  BY <1>1, <1>4 DEF Vouched, Canon, StaleAbove
<1>8. CASE fork + 1 > pollHead /\ Succeed(fork + 1)
  <2>1. fork = nextBlock - 1 /\ nextBlock' = nextBlock /\ pc' = "save"
    BY <1>3, <1>8, StreamAssumption DEF Succeed
  <2>2. TipInv'
    <3>1. tracked'[nextBlock - 1] = tracked[nextBlock - 1]
      BY <1>3, <1>5, <2>1
    <3>2. \A r \in view' : r.height < nextBlock
      BY <1>2, <1>4 DEF TipInv
    <3> QED
      BY <1>1, <1>2, <1>7, <2>1, <3>1, <3>2 DEF TipInv, StaleAbove
  <2> QED
    BY <1>6, <1>7, <2>1, <2>2 DEF ViewInv, HeaderInv, PassInv, ScanViewInv
<1>9. CASE fork + 1 <= pollHead /\ pc' = FirstQuery /\ UNCHANGED <<pollHead, hdr>>
  <2>1. pc' \in {"logs", "native"}
    BY <1>9, FirstQueryType
  <2>2. HeaderInv'
    BY <1>1, <1>9 DEF ViewInv, HeaderInv
  <2>3. \A r \in view' : r.height <= pollHead
    BY <1>4, <1>9, StreamAssumption
  <2>4. ScanViewInv'
    BY <1>7, <1>9, <2>3 DEF ScanViewInv, StaleAbove, Canon
  <2> QED
    BY <1>6, <1>7, <2>1, <2>2, <2>4 DEF ViewInv, PassInv
<1> QED
  BY <1>1, <1>8, <1>9 DEF BeginScan
-----------------------------------------------------------------------------
(* The scan. *)

\* What a scan adds is canonical and within the poll.
AddsCanon ==
  \A r \in view' :
    \/ r \in view
    \/ r.fork = hash[r.height] /\ r.height \in Int /\ r.height <= pollHead

LEMMA DeliveredCanon ==
  ASSUME NEW k, NEW lo \in Int, NEW hi \in Int, hi <= pollHead, pollHead \in Int,
         Delivered(k, lo, hi)
  PROVE  AddsCanon
<1> SUFFICES ASSUME NEW r \in view', r \notin view
             PROVE  r.fork = hash[r.height] /\ r.height \in Int /\ r.height <= pollHead
  BY DEF AddsCanon
<1>1. PICK h \in lo .. hi : r = Record(k, h)
  BY DEF Delivered, Emit, Records
<1>2. r.fork = hash[h] /\ r.height = h
  BY <1>1 DEF Record
<1> QED
  BY <1>2

LEMMA AddsCanonKeeps ==
  ASSUME AddsCanon, UNCHANGED hash
  PROVE  \A n : /\ Canon(n) => Canon(n)'
                /\ StaleAbove(n) => StaleAbove(n)'
  BY DEF AddsCanon, Canon, StaleAbove

LEMMA NextQueryViewInv ==
  ASSUME ViewInv, pc \in {"logs", "native"}, pc' \in {"logs", "native"}, AddsCanon,
         UNCHANGED <<hash, reorgs, tracked, pollHead, hdr>>
  PROVE  ViewInv'
<1>1. AgeInv' /\ HeaderInv'
  BY DEF ViewInv, AgeInv, HeaderInv
<1>2. Vouched'
  BY AddsCanonKeeps DEF ViewInv, Vouched
<1>3. ScanViewInv'
  <2>1. \A r \in view' : r.height <= pollHead
    BY DEF AddsCanon, ViewInv, ScanViewInv
  <2>2. StaleAbove(Floor(pollHead))'
    <3>1. ASSUME NEW n, n = Floor(pollHead)
          PROVE  StaleAbove(Floor(pollHead))'
      <4>1. StaleAbove(n)' /\ Floor(pollHead)' = n
        BY <3>1, AddsCanonKeeps DEF ViewInv, ScanViewInv, Floor
      <4> QED
        BY <4>1 DEF StaleAbove
    <3> QED
      BY <3>1
  <2>3. hdr.hash = hash[pollHead] => Canon(pollHead)'
    <3>1. ASSUME NEW n, n = pollHead, hdr.hash = hash[pollHead]
          PROVE  Canon(pollHead)'
      <4>1. Canon(n)'
        BY <3>1, AddsCanonKeeps DEF ViewInv, ScanViewInv
      <4> QED
        BY <3>1, <4>1 DEF Canon
    <3> QED
      BY <3>1
  <2> QED
    BY <2>1, <2>2, <2>3 DEF ScanViewInv
<1> QED
  BY <1>1, <1>2, <1>3 DEF ViewInv, PassInv

LEMMA ChunkDoneViewInv ==
  ASSUME SteadyHead, TypeOK, HoleInv, ViewInv, pc \in {"logs", "native"}, AddsCanon,
         ChunkDone, UNCHANGED env
  PROVE  ViewInv'
<1> USE ViewType
<1>1. UNCHANGED <<hash, reorgs, head>>
  BY DEF env
<1>2. CASE pc' = FirstQuery /\ UNCHANGED <<tracked, pollHead, hdr>>
  <2>1. pc' \in {"logs", "native"}
    BY <1>2, FirstQueryType
  <2> QED
    BY <1>1, <1>2, <2>1, NextQueryViewInv
<1>3. CASE tracked' = RecordHash(tracked, pollHead, hdr.hash) /\ Succeed(pollHead + 1)
  <2>1. /\ pc' = "save" /\ nextBlock' = pollHead + 1 /\ hdr'.hash = NoHash
        /\ hdr.hash # NoHash
    BY <1>3 DEF Succeed, NoHeader, ViewInv, HeaderInv
  <2>2. \A n \in Heights : tracked'[n] = IF n = pollHead THEN hdr.hash
                                         ELSE IF n < pollHead - ReorgDepth THEN NoHash
                                         ELSE tracked[n]
    BY <1>3, <2>1 DEF RecordHash, SteadyHead
  <2>3. AgeInv'
    BY <1>1, <2>1, <2>2 DEF ViewInv, AgeInv, NoHash
  <2>4. Vouched'
    <3> SUFFICES ASSUME NEW n \in Heights, tracked'[n] = hash[n]
                 PROVE  Canon(n)'
      BY <1>1 DEF Vouched
    <3>1. Canon(n)
      <4>1. CASE n = pollHead
        BY <2>2, <4>1 DEF ViewInv, ScanViewInv
      <4>2. CASE n # pollHead
        BY <2>2, <4>2 DEF ViewInv, Vouched, NoHash
      <4> QED
        BY <4>1, <4>2
    <3> QED
      BY <1>1, <3>1, AddsCanonKeeps
  <2>5. TipInv'
    <3>1. nextBlock' - 1 = pollHead /\ nextBlock' > 0 /\ pollHead <= head'
      <4>1. pollHead <= head /\ pollHead \in Nat
        BY DEF HoleInv
      <4> QED
        BY <1>1, <2>1, <4>1
    <3>2. tracked'[nextBlock' - 1] # NoHash
      BY <2>1, <2>2, <3>1
    <3>3. \A r \in view' : r.height < nextBlock'
      <4> SUFFICES ASSUME NEW r \in view' PROVE r.height < nextBlock'
        OBVIOUS
      <4>1. CASE r \in view
        BY <2>1, <4>1, StreamAssumption DEF ViewInv, ScanViewInv
      <4>2. CASE r.height \in Int /\ r.height <= pollHead
        BY <2>1, <4>2
      <4> QED
        BY <4>1, <4>2 DEF AddsCanon
    <3>4. StaleAbove(Floor(nextBlock - 1))'
      <4>1. ASSUME NEW n, n = Floor(pollHead)
            PROVE  StaleAbove(Floor(nextBlock - 1))'
        <5>1. StaleAbove(n)' /\ Floor(nextBlock - 1)' = n
          BY <1>1, <3>1, <4>1, AddsCanonKeeps DEF ViewInv, ScanViewInv, Floor
        <5> QED
          BY <5>1 DEF StaleAbove
      <4> QED
        BY <4>1
    <3> QED
      BY <2>1, <3>1, <3>2, <3>3, <3>4 DEF TipInv
  <2> QED
    BY <2>1, <2>3, <2>4, <2>5 DEF ViewInv, HeaderInv, PassInv, ScanViewInv
<1> QED
  BY <1>2, <1>3 DEF ChunkDone

LEMMA ScanViewStep ==
  ASSUME SteadyScan, SteadyHead, TypeOK, HoleInv, ViewInv, GetLogs \/ ScanNative
  PROVE  ViewInv'
<1> USE ViewType
<1>1. pc \in {"logs", "native"} /\ ~outputDead
  BY DEF GetLogs, ScanNative, HoleInv
<1>2. ChunkEnd \in Int /\ ChunkEnd <= pollHead /\ at \in Int /\ at <= ChunkEnd
  BY <1>1, ChunkEndType, StreamAssumption DEF TypeOK, PollTypeOK
<1>3. ASSUME NEW next \in {"logs", "native"}, NEW n, Continue(next, n), UNCHANGED env, AddsCanon
      PROVE  ViewInv'
  BY <1>1, <1>3, NextQueryViewInv DEF Continue, env
<1>4. CASE GetLogs
  <2>1. PICK hi \in at .. ChunkEnd :
          /\ Delivered("event", at, hi)
          /\ Continue("logs", hi + 1) \/ Continue("native", cur) \/ ChunkDone
    BY <1>1, <1>4, WritesSucceed DEF GetLogs
  <2>2. hi \in Int /\ hi <= pollHead
    BY <1>2
  <2>3. UNCHANGED env /\ AddsCanon
    BY <1>2, <2>1, <2>2, DeliveredCanon DEF Delivered
  <2>4. CASE Continue("logs", hi + 1)
    BY <1>3, <2>3, <2>4
  <2>5. CASE Continue("native", cur)
    BY <1>3, <2>3, <2>5
  <2>6. CASE ChunkDone
    BY <1>1, <2>3, <2>6, ChunkDoneViewInv
  <2> QED
    BY <2>1, <2>4, <2>5, <2>6
<1>5. CASE ScanNative
  <2>1. /\ Delivered("native", at, at)
        /\ Continue("native", at + 1) \/ ChunkDone
    BY <1>1, <1>5, WritesSucceed DEF ScanNative
  <2>2. at <= pollHead
    BY <1>2
  <2>3. UNCHANGED env /\ AddsCanon
    BY <1>2, <2>1, <2>2, DeliveredCanon DEF Delivered
  <2>4. CASE Continue("native", at + 1)
    BY <1>3, <2>3, <2>4
  <2>5. CASE ChunkDone
    BY <1>1, <2>3, <2>5, ChunkDoneViewInv
  <2> QED
    BY <2>1, <2>4, <2>5
<1> QED
  BY <1>4, <1>5

-----------------------------------------------------------------------------
LEMMA StepViewInv ==
  ASSUME SteadyScan, SteadyHead, TypeOK, HoleInv, ViewInv, [Next]_vars
  PROVE  ViewInv'
<1> USE ViewType
<1>1. CASE Chain
  BY <1>1, ChainViewInv
<1>2. CASE UNCHANGED vars
  BY <1>2 DEF vars, env, locals, output, ViewInv, AgeInv, Vouched, Canon, Fresh, TipInv,
     HeaderInv, PassInv, ScanViewInv, StaleAbove, Floor, HeaderTells, NodeHash, Frontier
<1>3. CASE Start
  <2>1. /\ pc = "down" /\ pc' = "poll"
        /\ UNCHANGED <<hash, reorgs, tracked, hdr, view>>
    BY <1>3 DEF Start, StartAt, env, locals, output
  <2>2. Fresh' /\ AgeInv' /\ Vouched'
    BY <2>1 DEF ViewInv, Fresh, AgeInv, Vouched, Canon
  <2> QED
    BY <2>1, <2>2 DEF ViewInv, HeaderInv, PassInv, ScanViewInv
<1>4. CASE Crash \/ ScanFails
  <2>1. CASE Crash
    BY <2>1, NothingFails DEF Crash
  <2>2. CASE ScanFails
    <3>1. pc \in {"logs", "native"} /\ (at > head \/ ChunkEnd > head)
      BY <2>2, NothingFails DEF ScanFails
    <3>2. at <= ChunkEnd /\ ChunkEnd <= pollHead /\ at \in Int /\ ChunkEnd \in Int
      BY <2>2, ChunkEndType, StreamAssumption DEF ScanFails, TypeOK, PollTypeOK
    <3> QED
      BY <3>1, <3>2 DEF HoleInv
  <2> QED
    BY <1>4, <2>1, <2>2
<1>5. CASE BlockNumber \/ HeadHeader \/ FinalizedTag
  BY <1>5, HeaderStepViewInv
<1>6. CASE CheckFrontier
  <2>1. pc = "reorg" /\ UNCHANGED <<tracked, output>>
    BY <1>6 DEF CheckFrontier
  <2>2. CASE /\ ~FrontierTracked \/ NodeHash = tracked[Frontier]
             /\ BeginScan(nextBlock) /\ UNCHANGED env
    BY <2>1, <2>2, PassViewInv
  <2>3. CASE Fail
    BY <2>1, <2>3, FailViewInv
  <2>4. CASE /\ FrontierTracked /\ pc' = "fork"
             /\ UNCHANGED <<env, nextBlock, pollHead, hdr>>
    <3>1. UNCHANGED <<hash, reorgs, head, tracked, view>>
      BY <2>1, <2>4 DEF env, output
    <3>2. ~Fresh
      BY <2>4, FrontierType DEF FrontierTracked, Fresh
    <3>3. TipInv'
      BY <2>1, <2>4, <3>1, <3>2 DEF ViewInv, TipInv, StaleAbove, Floor
    <3>4. AgeInv' /\ Vouched' /\ HeaderInv' /\ ~Fresh'
      BY <2>1, <2>4, <3>1, <3>2 DEF ViewInv, AgeInv, Vouched, Canon, HeaderInv, Fresh
    <3> QED
      BY <2>4, <3>3, <3>4 DEF ViewInv, PassInv, ScanViewInv
  <2> QED
    BY <1>6, <2>1, <2>2, <2>3, <2>4 DEF CheckFrontier
<1>7. CASE ResolveFork
  <2>1. /\ pc = "fork" /\ nextBlock > 0 /\ walk <= Frontier
        /\ TipInv /\ Frontier = nextBlock - 1
    BY <1>7, TipIsFrontier DEF ResolveFork, TypeOK, PollTypeOK, ViewInv
  <2>2. CASE Rewind(Floor(Frontier), TRUE)
    <3>1. Canon(Floor(Frontier))
      <4>1. StaleAbove(Floor(Frontier))
        BY <2>1 DEF TipInv
      <4>2. Floor(Frontier) \in Int
        BY <2>1, FloorIs
      <4> QED
        BY <4>1, <4>2, StreamAssumption DEF StaleAbove, Canon
    <3> QED
      BY <2>1, <2>2, <3>1, FrontierType, RewindViewInv
  <2>3. ASSUME NEW n \in Heights, NextCandidate(n), CompareCandidate(n)
        PROVE  ViewInv'
    <3>1. n <= Frontier
      BY <2>1, <2>3, FrontierType, StreamAssumption
      DEF NextCandidate, ForkCandidates, TypeOK, PollTypeOK
    <3>2. CASE hash[n] = tracked[n] /\ Rewind(n, FALSE)
      <4>1. Canon(n)
        BY <3>2 DEF ViewInv, Vouched
      <4> QED
        BY <2>1, <3>1, <3>2, <4>1, RewindViewInv
    <3>3. CASE UNCHANGED <<env, pc, nextBlock, tracked, pollHead, hdr, output>>
      <4>1. UNCHANGED <<hash, reorgs, head, view>>
        BY <3>3 DEF env, output
      <4>2. TipInv' /\ ~Fresh'
        BY <2>1, <3>3, <4>1 DEF ViewInv, TipInv, StaleAbove, Floor, Fresh
      <4>3. AgeInv' /\ Vouched' /\ HeaderInv'
        BY <3>3, <4>1 DEF ViewInv, AgeInv, Vouched, Canon, HeaderInv
      <4> QED
        BY <2>1, <3>3, <4>2, <4>3 DEF ViewInv, PassInv, ScanViewInv
    <3>4. CASE Fail /\ UNCHANGED <<tracked, output>>
      BY <2>1, <3>4, FailViewInv
    <3> QED
      BY <2>3, <3>2, <3>3, <3>4 DEF CompareCandidate
  <2> QED
    BY <1>7, <2>2, <2>3 DEF ResolveFork
<1>8. CASE GetLogs \/ ScanNative
  BY <1>8, ScanViewStep
<1>9. CASE SaveCheckpoint
  <2>1. /\ pc = "save" /\ pc' = "poll" /\ hdr' = hdr
        /\ UNCHANGED <<hash, reorgs, head, tracked, view, nextBlock>>
    BY <1>9 DEF SaveCheckpoint, env, locals, output
  <2> QED
    BY <2>1, EndViewInv
<1> QED
  BY <1>1, <1>2, <1>3, <1>4, <1>5, <1>6, <1>7, <1>8, <1>9 DEF Next, Loop

LEMMA ViewInvariant ==
  ASSUME SteadyScan, SteadyHead
  PROVE  Spec => [](TypeOK /\ HoleInv /\ ViewInv)
<1>1. Init => ViewInv
  <2> SUFFICES ASSUME Init PROVE ViewInv
    OBVIOUS
  <2>1. AgeInv
    BY DEF Init, AgeInv, NoHeader, NoHash
  <2>2. Fresh /\ Vouched
    BY DEF Init, Fresh, Vouched, Canon
  <2> QED
    BY <2>1, <2>2 DEF Init, ViewInv, HeaderInv, PassInv, ScanViewInv
<1>2. TypeOK /\ HoleInv /\ ViewInv /\ [Next]_vars => ViewInv'
  BY StepViewInv
<1> QED
  BY <1>1, <1>2, HoleInvariant, PTL DEF Spec

(***************************************************************************)
(* Between polls a consumer that applies the markers holds the canonical   *)
(* chain below the frontier, or the hash tracked at the frontier betrays   *)
(* the reorganization to the next handleReorgIfAny: for every length of    *)
(* the chain, chunk size, depth and number of reorganizations, at any      *)
(* moment of a poll, also while the calls of the check itself fail.  The   *)
(* hypotheses name what it rests on: the head's header is fetched, no      *)
(* fork is deeper than reorg_depth, the scan succeeds.                     *)
(***************************************************************************)
THEOREM NeverSilentlyStale ==
  ASSUME SteadyScan, SteadyHead
  PROVE  Spec => []StaleIsDetectable
<1>1. TypeOK /\ HoleInv /\ ViewInv => StaleIsDetectable
  <2> SUFFICES ASSUME TypeOK, HoleInv, ViewInv, pc = "poll",
                      tracked[nextBlock - 1] \in {NoHash, hash[nextBlock - 1]}
               PROVE  InSync(nextBlock)
    BY DEF StaleIsDetectable
  <2> USE ViewType
  <2> SUFFICES ASSUME NEW h \in Heights, origin <= h, h < nextBlock, NEW k \in Watched
               PROVE  {r.fork : r \in {q \in view : q.kind = k /\ q.height = h}} = {hash[h]}
    BY DEF InSync
  <2>1. PICK r \in view : r.kind = k /\ r.height = h
    <3>1. Complete(view, k, origin, nextBlock) /\ h \in 0 .. nextBlock - 1
      BY StreamAssumption DEF HoleInv, HeldBelow
    <3> QED
      BY <3>1 DEF Complete
  <2>2. TipInv
    BY <2>1 DEF ViewInv, Fresh
  <2>3. nextBlock - 1 \in Heights /\ tracked[nextBlock - 1] = hash[nextBlock - 1]
    BY <2>2, StreamAssumption DEF TipInv
  <2>4. Canon(nextBlock - 1)
    BY <2>3 DEF ViewInv, Vouched
  <2>5. h <= nextBlock - 1
    BY StreamAssumption
  <2>6. \A q \in view : q.height = h => q.fork = hash[h]
    BY <2>4, <2>5 DEF Canon
  <2> QED
    BY <2>1, <2>6
<1> QED
  BY <1>1, ViewInvariant, PTL

(***************************************************************************)
(* When resolveFork emits a marker without depth_exceeded, all that the    *)
(* consumer keeps at or below fork_block is on the canonical chain of that *)
(* moment: one equal hash in the tracker's window vouches for everything   *)
(* told below it.                                                          *)
(***************************************************************************)
THEOREM MarkersTruthful ==
  ASSUME SteadyScan, SteadyHead
  PROVE  Spec => MarkerTruthful
<1>1. ASSUME TypeOK, HoleInv, ViewInv, [Next]_vars, MarkerWritten, ~marker'.exceeded
      PROVE  \A r \in view : r.height <= marker'.fork => r.fork = hash[r.height]
  <2>1. pc = "fork" /\ pc' \in {"logs", "native", "save"}
    BY <1>1 DEF MarkerWritten
  <2>2. ResolveFork
    BY <1>1, <2>1 DEF Next, Loop, Chain, vars, Start, Crash, Stop, BlockNumber, HeadHeader,
       FinalizedTag, CheckFrontier, GetLogs, ScanNative, ScanFails, SaveCheckpoint
  <2>3. ~Rewind(Floor(Frontier), TRUE)
    BY <1>1, <2>1 DEF Rewind, EmitMarker, Fail, Stop
  <2>4. PICK n \in Heights : hash[n] = tracked[n] /\ Rewind(n, FALSE)
    BY <2>1, <2>2, <2>3 DEF ResolveFork, CompareCandidate, Fail
  <2>5. marker'.fork = n
    BY <2>1, <2>4 DEF Rewind, EmitMarker, Fail, Stop
  <2>6. Canon(n)
    BY <1>1, <2>4 DEF ViewInv, Vouched
  <2> QED
    BY <2>5, <2>6 DEF Canon
<1>2. TypeOK /\ HoleInv /\ ViewInv /\ [Next]_vars =>
        [MarkerWritten /\ ~marker'.exceeded =>
           \A r \in view : r.height <= marker'.fork => r.fork = hash[r.height]]_vars
  BY <1>1
<1> QED
  BY <1>2, ViewInvariant, PTL DEF Spec, MarkerTruthful
=============================================================================
