---------------------------- MODULE StreamProofs ----------------------------
(***************************************************************************)
(* Theorems about Stream, for every chain, every configuration and every   *)
(* set of faults.                                                          *)
(***************************************************************************)
EXTENDS StreamFeed, TLAPS

USE DEF Heights, Lower

(***************************************************************************)
(* Type correctness.                                                       *)
(***************************************************************************)
LEMMA InitTypeOK == Init => TypeOK
<1> SUFFICES ASSUME Init PROVE TypeOK
  OBVIOUS
<1> USE StreamAssumption DEF Init
<1>1. ChainTypeOK
  BY DEF ChainTypeOK
<1>2. RunTypeOK
  <2>1. ckpt \in [chainID : Nat, lastBlock : Int] /\ ~CursorUsable
    <3>1. CASE ckpt = NoCursor
      BY <3>1 DEF NoCursor, CursorUsable
    <3>2. CASE ckpt \in OldCursors
      <4>1. ckpt \in [chainID : Nat \ {0, ChainID}, lastBlock : Nat]
        BY <3>2
      <4> QED
        BY <4>1 DEF CursorUsable
    <3> QED
      BY <3>1, <3>2
  <2> QED
    BY <2>1 DEF RunTypeOK, NoHash, Unknown, PCs
<1>3. PollTypeOK
  BY DEF PollTypeOK, NoHeader, NoHash
<1>4. OutputTypeOK
  BY DEF OutputTypeOK, NoMarker
<1> QED
  BY <1>1, <1>2, <1>3, <1>4 DEF TypeOK

LEMMA FrontierType ==
  ASSUME TypeOK, nextBlock > 0
  PROVE  /\ Frontier \in Heights /\ Frontier < nextBlock
         /\ Floor(Frontier) \in Heights /\ Floor(Frontier) <= Frontier
  BY StreamAssumption
  DEF TypeOK, RunTypeOK, PollTypeOK, Frontier, Floor

\* What the step of an action does to the output is a matter of its own; each
\* of the next lemmas takes it for granted.
LEMMA FailTypeOK ==
  ASSUME TypeOK, Fail, UNCHANGED tracked, outputDead' \in BOOLEAN, OutputTypeOK'
  PROVE  TypeOK'
<1> USE DEF TypeOK, Fail
<1>1. ChainTypeOK'
  BY DEF ChainTypeOK, env
<1>2. RunTypeOK'
  BY DEF RunTypeOK, CursorUsable, PCs, env, finals
<1>3. PollTypeOK'
  BY StreamAssumption DEF PollTypeOK, NoHeader, NoHash
<1> QED
  BY <1>1, <1>2, <1>3

LEMMA StopTypeOK ==
  ASSUME TypeOK, Stop, OutputTypeOK'
  PROVE  TypeOK'
<1> USE DEF TypeOK, Stop
<1>1. ChainTypeOK'
  BY DEF ChainTypeOK, env
<1>2. RunTypeOK'
  BY DEF RunTypeOK, CursorUsable, PCs, env, NoHash, Unknown
<1>3. PollTypeOK'
  BY StreamAssumption DEF PollTypeOK, NoHeader, NoHash
<1> QED
  BY <1>1, <1>2, <1>3

LEMMA FirstQueryType ==
  /\ FirstQuery \in {"logs", "native"}
  /\ FirstQuery = "logs" => "event" \in Watched
  /\ FirstQuery = "native" => "native" \in Watched
  BY StreamAssumption DEF FirstQuery, Kinds

LEMMA BeginScanTypeOK ==
  ASSUME TypeOK, NEW n \in Nat, BeginScan(n),
         tracked' \in [Heights -> Nat \cup {NoHash}],
         UNCHANGED <<env, ckpt, lastSaved, finals, outputDead, origin>>,
         OutputTypeOK'
  PROVE  TypeOK'
<1> USE DEF TypeOK, BeginScan, Succeed
<1>1. ChainTypeOK'
  BY DEF ChainTypeOK, env
<1>2. RunTypeOK'
  BY DEF RunTypeOK, CursorUsable, PCs, env, finals, FirstQuery
<1>3. PollTypeOK'
  <2>1. CASE n > pollHead
    BY <2>1, StreamAssumption DEF PollTypeOK, NoHeader, NoHash, RunTypeOK
  <2>2. CASE n <= pollHead
    <3>1. /\ pc' = FirstQuery /\ cur' = n /\ at' = n /\ walk' = 0
          /\ UNCHANGED <<pollHead, hdr>>
      BY <2>2 DEF PollTypeOK
    <3>2. at' <= ChunkEnd'
      BY <2>2, <3>1, StreamAssumption DEF ChunkEnd, PollTypeOK
    <3> QED
      BY <3>1, <3>2, FirstQueryType, StreamAssumption DEF PollTypeOK
  <2> QED
    BY <2>1, <2>2 DEF PollTypeOK
<1> QED
  BY <1>1, <1>2, <1>3

LEMMA RecordHashType ==
  ASSUME NEW t \in [Heights -> Nat \cup {NoHash}], NEW n,
         NEW h \in Nat \cup {NoHash}
  PROVE  RecordHash(t, n, h) \in [Heights -> Nat \cup {NoHash}]
  BY DEF RecordHash

LEMMA ForgetAboveType ==
  ASSUME NEW t \in [Heights -> Nat \cup {NoHash}], NEW n
  PROVE  ForgetAbove(t, n) \in [Heights -> Nat \cup {NoHash}]
  BY DEF ForgetAbove

LEMMA ChunkEndType ==
  ASSUME TypeOK, pc \in {"logs", "native"}
  PROVE  ChunkEnd \in Heights /\ at <= ChunkEnd /\ cur <= at /\ ChunkEnd <= pollHead
  BY StreamAssumption DEF TypeOK, PollTypeOK, ChunkEnd

LEMMA ChunkDoneTypeOK ==
  ASSUME TypeOK, pc \in {"logs", "native"}, ChunkDone,
         UNCHANGED <<env, ckpt, lastSaved, finals, outputDead, origin>>,
         OutputTypeOK'
  PROVE  TypeOK'
<1> USE DEF TypeOK
<1>1. ChainTypeOK'
  BY DEF ChainTypeOK, env
<1>2. tracked' \in [Heights -> Nat \cup {NoHash}]
  <2>1. hdr.hash \in Nat \cup {NoHash} /\ tracked \in [Heights -> Nat \cup {NoHash}]
    BY DEF RunTypeOK, PollTypeOK
  <2>2. RecordHash(tracked, pollHead, hdr.hash) \in [Heights -> Nat \cup {NoHash}]
    BY <2>1, RecordHashType
  <2> QED
    BY <2>1, <2>2 DEF ChunkDone
<1>3. CASE ChunkEnd < pollHead
  <2>1. /\ pc' = FirstQuery /\ cur' = ChunkEnd + 1 /\ at' = ChunkEnd + 1
        /\ UNCHANGED <<pollHead, hdr, walk, nextBlock, tracked>>
    BY <1>3 DEF ChunkDone
  <2>2. RunTypeOK'
    BY <2>1, FirstQueryType, ChunkEndType DEF RunTypeOK, CursorUsable, PCs, env, finals
  <2>3. at' <= ChunkEnd'
    BY <1>3, <2>1, ChunkEndType, StreamAssumption DEF ChunkEnd, PollTypeOK
  <2>4. pc' # "fork" /\ cur' \in Nat /\ at' = cur' /\ walk' \in Heights
    BY <2>1, FirstQueryType, ChunkEndType DEF PollTypeOK
  <2>5. PollTypeOK'
    BY <2>1, <2>3, <2>4, FirstQueryType DEF PollTypeOK
  <2> QED
    BY <1>1, <2>2, <2>5
<1>4. CASE ~(ChunkEnd < pollHead)
  <2>1. Succeed(pollHead + 1)
    BY <1>4 DEF ChunkDone
  <2>2. RunTypeOK'
    BY <1>2, <2>1, ChunkEndType
    DEF RunTypeOK, PollTypeOK, CursorUsable, PCs, env, finals, Succeed
  <2>3. PollTypeOK'
    BY <2>1, StreamAssumption DEF PollTypeOK, Succeed, NoHeader, NoHash
  <2> QED
    BY <1>1, <2>2, <2>3
<1> QED
  BY <1>3, <1>4

LEMMA EmitTypeOK ==
  ASSUME TypeOK, NEW k \in Watched, NEW lo \in Nat, NEW hi \in Int, hi <= MaxHeight,
         Emit(Records(k, lo, hi))
  PROVE  OutputTypeOK'
<1>1. ASSUME NEW h \in lo .. hi
      PROVE  Record(k, h) \in RecordSet
  <2>1. h \in Heights /\ hash[h] \in Nat /\ IsFinalized(h) \in BOOLEAN
    BY <1>1, StreamAssumption DEF TypeOK, ChainTypeOK, IsFinalized
  <2> QED
    BY <2>1 DEF Record, RecordSet
<1>2. Records(k, lo, hi) \subseteq RecordSet
  BY <1>1 DEF Records
<1> QED
  BY <1>2 DEF Emit, TypeOK, OutputTypeOK

LEMMA DeliveredTypeOK ==
  ASSUME TypeOK, NEW k \in Watched, NEW lo \in Nat, NEW hi \in Nat, hi <= MaxHeight,
         Delivered(k, lo, hi)
  PROVE  /\ OutputTypeOK'
         /\ UNCHANGED <<env, ckpt, lastSaved, finals, outputDead, origin>>
  BY EmitTypeOK DEF Delivered

LEMMA WriteFailsTypeOK ==
  ASSUME TypeOK, NEW k \in Watched, NEW lo \in Nat, NEW hi \in Nat, hi <= MaxHeight,
         WriteFails(k, lo, hi)
  PROVE  TypeOK'
<1>1. CASE outputDead /\ Fail /\ UNCHANGED <<tracked, outputDead, output>>
  <2>1. OutputTypeOK' /\ outputDead' \in BOOLEAN
    BY <1>1 DEF TypeOK, RunTypeOK, OutputTypeOK, output
  <2> QED
    BY <1>1, <2>1, FailTypeOK
<1>2. ASSUME NEW p \in lo .. hi, Emit(Records(k, lo, p - 1)),
             \/ Fault("emit") /\ outputDead' = TRUE /\ Fail /\ UNCHANGED tracked
             \/ Fault("epipe") /\ Stop
      PROVE  TypeOK'
  <2>1. p - 1 \in Int /\ p - 1 <= MaxHeight
    BY <1>2, StreamAssumption
  <2>2. OutputTypeOK'
    BY <1>2, <2>1, EmitTypeOK
  <2> QED
    BY <1>2, <2>2, FailTypeOK, StopTypeOK
<1> QED
  BY <1>1, <1>2 DEF WriteFails

LEMMA RewindTypeOK ==
  ASSUME TypeOK, pc = "fork", NEW fork \in Heights, fork <= Frontier,
         NEW exceeded \in BOOLEAN, Rewind(fork, exceeded)
  PROVE  TypeOK'
<1>1. Frontier \in Heights
  BY FrontierType DEF TypeOK, PollTypeOK
<1>2. CASE /\ EmitMarker(fork, Frontier, exceeded)
           /\ tracked' = ForgetAbove(tracked, fork)
           /\ BeginScan(fork + 1)
           /\ UNCHANGED <<env, ckpt, lastSaved, finals, outputDead, origin>>
  <2>1. OutputTypeOK'
    BY <1>1, <1>2 DEF EmitMarker, TypeOK, OutputTypeOK
  <2>2. tracked' \in [Heights -> Nat \cup {NoHash}]
    BY <1>2, ForgetAboveType DEF TypeOK, RunTypeOK
  <2> QED
    BY <1>2, <2>1, <2>2, BeginScanTypeOK
<1>3. CASE outputDead' = TRUE /\ Fail /\ UNCHANGED <<tracked, output>>
  <2>1. OutputTypeOK'
    BY <1>3 DEF output, TypeOK, OutputTypeOK
  <2> QED
    BY <1>3, <2>1, FailTypeOK
<1>4. CASE Stop /\ UNCHANGED output
  <2>1. OutputTypeOK'
    BY <1>4 DEF output, TypeOK, OutputTypeOK
  <2> QED
    BY <1>4, <2>1, StopTypeOK
<1> QED
  BY <1>2, <1>3, <1>4 DEF Rewind

LEMMA ChainStepTypeOK == TypeOK /\ Chain => TypeOK'
<1> SUFFICES ASSUME TypeOK, Chain PROVE TypeOK'
  OBVIOUS
<1> USE DEF TypeOK, Chain
<1>1. ChainTypeOK'
  <2>1. CASE Mine
    BY <2>1, StreamAssumption DEF Mine, ChainTypeOK
  <2>2. ASSUME NEW f \in Heights, NEW h \in Heights, Reorg(f, h)
        PROVE  ChainTypeOK'
    BY <2>2 DEF Reorg, ChainTypeOK
  <2>3. CASE Finalize
    BY <2>3, StreamAssumption DEF Finalize, ChainTypeOK
  <2> QED
    BY <2>1, <2>2, <2>3
<1>2. RunTypeOK'
  BY DEF RunTypeOK, CursorUsable, finals
<1>3. PollTypeOK'
  BY DEF PollTypeOK, Frontier, ChunkEnd, locals
<1>4. OutputTypeOK'
  BY DEF OutputTypeOK, output
<1> QED
  BY <1>1, <1>2, <1>3, <1>4

LEMMA ContinueTypeOK ==
  ASSUME TypeOK, pc \in {"logs", "native"}, NEW n \in cur .. ChunkEnd,
         NEW next, next = pc \/ (next = "native" /\ "native" \in Watched),
         Continue(next, n),
         UNCHANGED <<env, ckpt, lastSaved, finals, outputDead, origin>>,
         OutputTypeOK'
  PROVE  TypeOK'
<1> USE DEF TypeOK, Continue
<1>1. ChainTypeOK'
  BY DEF ChainTypeOK, env
<1>2. RunTypeOK'
  BY DEF RunTypeOK, CursorUsable, PCs, finals
<1>3. ChunkEnd' = ChunkEnd /\ at' \in Nat
  BY ChunkEndType DEF ChunkEnd, PollTypeOK
<1>4. PollTypeOK'
  BY <1>3, ChunkEndType DEF PollTypeOK
<1> QED
  BY <1>1, <1>2, <1>4

LEMMA LoopStepTypeOK == TypeOK /\ Loop => TypeOK'
<1> SUFFICES ASSUME TypeOK, Loop PROVE TypeOK'
  OBVIOUS
<1>1. CASE BlockNumber
  <2> USE <1>1 DEF TypeOK, BlockNumber
  <2>1. ChainTypeOK'
    BY DEF ChainTypeOK, env
  <2>2. RunTypeOK'
    BY DEF RunTypeOK, CursorUsable, PCs, finals
  <2>3. pollHead' \in Heights /\ pc' = "header" /\ UNCHANGED <<hdr, walk, cur, at>>
    BY StreamAssumption DEF ChainTypeOK
  <2>4. PollTypeOK'
    BY <2>3 DEF PollTypeOK
  <2>5. OutputTypeOK'
    BY DEF OutputTypeOK, output
  <2> QED
    BY <2>1, <2>2, <2>4, <2>5
<1>2. CASE HeadHeader
  <2> USE <1>2 DEF TypeOK, HeadHeader
  <2>1. ChainTypeOK'
    BY DEF ChainTypeOK, env
  <2>2. RunTypeOK'
    BY DEF RunTypeOK, CursorUsable, PCs, finals
  <2>3. hdr' \in [hash : Nat \cup {NoHash}, parent : Nat \cup {NoHash}]
    <3>1. CASE pollHead = 0
      BY <3>1 DEF PollTypeOK, ChainTypeOK, NoHeader
    <3>2. CASE pollHead # 0
      <4>1. pollHead \in Heights /\ pollHead - 1 \in Heights
        BY <3>2, StreamAssumption DEF PollTypeOK
      <4> QED
        BY <3>2, <4>1 DEF ChainTypeOK, NoHeader
    <3> QED
      BY <3>1, <3>2
  <2>4. PollTypeOK'
    BY <2>3 DEF PollTypeOK
  <2>5. OutputTypeOK'
    BY DEF OutputTypeOK, output
  <2> QED
    BY <2>1, <2>2, <2>4, <2>5
<1>3. CASE FinalizedTag
  <2> USE <1>3 DEF TypeOK, FinalizedTag
  <2>1. ChainTypeOK'
    BY DEF ChainTypeOK, env
  <2>2. finalizedBlock' \in Nat \cup {Unknown} /\ finalizedUnsupported' \in BOOLEAN
    <3>1. CASE finalizedBlock' = final /\ UNCHANGED finalizedUnsupported
      BY <3>1, StreamAssumption DEF RunTypeOK, ChainTypeOK
    <3>2. CASE UNCHANGED finals
      BY <3>2 DEF RunTypeOK, finals
    <3>3. CASE finalizedUnsupported' = TRUE /\ UNCHANGED finalizedBlock
      BY <3>3 DEF RunTypeOK
    <3> QED
      BY <3>1, <3>2, <3>3
  <2>3. RunTypeOK'
    BY <2>2 DEF RunTypeOK, CursorUsable, PCs
  <2>4. PollTypeOK'
    BY DEF PollTypeOK, locals
  <2>5. OutputTypeOK'
    BY DEF OutputTypeOK, output
  <2> QED
    BY <2>1, <2>3, <2>4, <2>5
<1>4. CASE CheckFrontier
  <2>1. OutputTypeOK' /\ UNCHANGED <<tracked, outputDead>>
    BY <1>4 DEF CheckFrontier, TypeOK, OutputTypeOK, output
  <2>2. CASE Fail
    BY <2>1, <2>2, FailTypeOK DEF TypeOK, RunTypeOK
  <2>3. CASE /\ BeginScan(nextBlock)
             /\ UNCHANGED <<env, ckpt, lastSaved, finals, origin>>
    BY <2>1, <2>3, BeginScanTypeOK DEF TypeOK, RunTypeOK
  <2>4. CASE /\ FrontierTracked /\ pc' = "fork" /\ walk' = Frontier
             /\ UNCHANGED <<env, ckpt, nextBlock, lastSaved, finals,
                            pollHead, hdr, cur, at, origin>>
    <3> USE <2>1, <2>4 DEF TypeOK
    <3>1. nextBlock > 0 /\ Frontier \in Heights
      BY FrontierType DEF FrontierTracked
    <3>2. Frontier' = Frontier
      BY DEF Frontier
    <3>3. ChainTypeOK'
      BY DEF ChainTypeOK, env
    <3>4. RunTypeOK'
      BY DEF RunTypeOK, CursorUsable, PCs, env, finals
    <3>5. PollTypeOK'
      BY <3>1, <3>2 DEF PollTypeOK
    <3> QED
      BY <3>3, <3>4, <3>5
  <2> QED
    BY <1>4, <2>2, <2>3, <2>4 DEF CheckFrontier
<1>5. CASE ResolveFork
  <2>1. nextBlock > 0 /\ pc = "fork" /\ walk <= Frontier
    BY <1>5 DEF ResolveFork, TypeOK, PollTypeOK
  <2>2. CASE Rewind(Floor(Frontier), TRUE)
    BY <2>1, <2>2, FrontierType, RewindTypeOK
  <2>3. ASSUME NEW n \in Heights, NextCandidate(n), CompareCandidate(n)
        PROVE  TypeOK'
    <3>1. n < walk /\ n <= Frontier
      BY <2>1, <2>3, FrontierType, StreamAssumption
      DEF NextCandidate, ForkCandidates, TypeOK, PollTypeOK
    <3>2. CASE Rewind(n, FALSE)
      BY <2>1, <3>1, <3>2, RewindTypeOK
    <3>3. CASE /\ walk' = n
               /\ UNCHANGED <<env, ckpt, pc, nextBlock, lastSaved, tracked, finals, outputDead,
                              pollHead, hdr, cur, at, output, origin>>
      <4> USE <3>3 DEF TypeOK
      <4>1. ChainTypeOK'
        BY DEF ChainTypeOK, env
      <4>2. RunTypeOK'
        BY DEF RunTypeOK, CursorUsable, finals
      <4>3. Frontier' = Frontier
        BY DEF Frontier
      <4>4. PollTypeOK'
        BY <2>1, <3>1, <4>3 DEF PollTypeOK
      <4>5. OutputTypeOK'
        BY DEF OutputTypeOK, output
      <4> QED
        BY <4>1, <4>2, <4>4, <4>5
    <3>4. CASE Fail /\ UNCHANGED <<tracked, outputDead, output>>
      <4>1. OutputTypeOK' /\ outputDead' \in BOOLEAN
        BY <3>4 DEF TypeOK, RunTypeOK, OutputTypeOK, output
      <4> QED
        BY <3>4, <4>1, FailTypeOK
    <3> QED
      BY <2>3, <3>2, <3>3, <3>4 DEF CompareCandidate
  <2> QED
    BY <1>5, <2>2, <2>3 DEF ResolveFork
<1>6. CASE GetLogs
  <2>1. /\ pc = "logs" /\ "event" \in Watched /\ at \in Nat /\ cur <= at /\ cur \in Nat
        /\ ChunkEnd \in Heights /\ at <= ChunkEnd
    BY <1>6, ChunkEndType DEF GetLogs, TypeOK, PollTypeOK
  <2>2. PICK hi \in at .. ChunkEnd :
          \/ WriteFails("event", at, hi)
          \/ /\ Delivered("event", at, hi)
             /\ \/ hi < ChunkEnd /\ Continue("logs", hi + 1)
                \/ hi = ChunkEnd /\ "native" \in Watched /\ Continue("native", cur)
                \/ hi = ChunkEnd /\ "native" \notin Watched /\ ChunkDone
    BY <1>6 DEF GetLogs
  <2>3. hi \in Nat /\ hi <= MaxHeight
    BY <2>1, StreamAssumption
  <2>4. CASE WriteFails("event", at, hi)
    BY <2>1, <2>3, <2>4, WriteFailsTypeOK
  <2>5. CASE Delivered("event", at, hi)
    <3>1. /\ OutputTypeOK'
          /\ UNCHANGED <<env, ckpt, lastSaved, finals, outputDead, origin>>
      BY <2>1, <2>3, <2>5, DeliveredTypeOK
    <3>2. CASE hi < ChunkEnd /\ Continue("logs", hi + 1)
      <4>1. hi + 1 \in cur .. ChunkEnd
        BY <2>1, <3>2
      <4> QED
        BY <2>1, <3>1, <3>2, <4>1, ContinueTypeOK
    <3>3. CASE "native" \in Watched /\ Continue("native", cur)
      <4>1. cur \in cur .. ChunkEnd
        BY <2>1
      <4> QED
        BY <2>1, <3>1, <3>3, <4>1, ContinueTypeOK
    <3>4. CASE ChunkDone
      BY <2>1, <3>1, <3>4, ChunkDoneTypeOK
    <3> QED
      BY <2>2, <2>4, <3>2, <3>3, <3>4
  <2> QED
    BY <2>2, <2>4, <2>5
<1>7. CASE ScanNative
  <2>1. /\ pc = "native" /\ "native" \in Watched /\ at \in Nat /\ at <= ChunkEnd
        /\ cur <= at /\ cur \in Nat /\ ChunkEnd \in Heights /\ at <= MaxHeight
    BY <1>7, ChunkEndType, StreamAssumption DEF ScanNative, TypeOK, PollTypeOK
  <2>2. CASE WriteFails("native", at, at)
    BY <2>1, <2>2, WriteFailsTypeOK
  <2>3. CASE Delivered("native", at, at)
    <3>1. /\ OutputTypeOK'
          /\ UNCHANGED <<env, ckpt, lastSaved, finals, outputDead, origin>>
      BY <2>1, <2>3, DeliveredTypeOK
    <3>2. CASE at < ChunkEnd /\ Continue("native", at + 1)
      <4>1. at + 1 \in cur .. ChunkEnd
        BY <2>1, <3>2
      <4> QED
        BY <2>1, <3>1, <3>2, <4>1, ContinueTypeOK
    <3>3. CASE ChunkDone
      BY <2>1, <3>1, <3>3, ChunkDoneTypeOK
    <3> QED
      BY <1>7, <2>2, <3>2, <3>3 DEF ScanNative
  <2> QED
    BY <1>7, <2>2, <2>3 DEF ScanNative
<1>8. CASE ScanFails
  <2>1. OutputTypeOK' /\ outputDead' \in BOOLEAN /\ Fail /\ UNCHANGED tracked
    BY <1>8 DEF ScanFails, TypeOK, RunTypeOK, OutputTypeOK, output
  <2> QED
    BY <2>1, FailTypeOK
<1>9. CASE SaveCheckpoint
  <2> USE <1>9 DEF TypeOK, SaveCheckpoint
  <2>1. ChainTypeOK'
    BY DEF ChainTypeOK, env
  <2>2. /\ ckpt' \in [chainID : Nat, lastBlock : Int] /\ lastSaved' \in Nat
        /\ CursorUsable' => ckpt'.lastBlock \in Nat
    <3>1. CASE UNCHANGED <<ckpt, lastSaved>>
      BY <3>1 DEF RunTypeOK, CursorUsable
    <3>2. CASE /\ ckpt' = [chainID |-> ChainID, lastBlock |-> nextBlock - 1]
               /\ lastSaved' = nextBlock /\ nextBlock > 0
      BY <3>2, StreamAssumption DEF RunTypeOK
    <3> QED
      BY <3>1, <3>2 DEF ShouldSaveCheckpoint
  <2>3. RunTypeOK'
    BY <2>2 DEF RunTypeOK, PCs, finals
  <2>4. PollTypeOK'
    BY DEF PollTypeOK, locals
  <2>5. OutputTypeOK'
    BY DEF OutputTypeOK, output
  <2> QED
    BY <2>1, <2>3, <2>4, <2>5
<1> QED
  BY <1>1, <1>2, <1>3, <1>4, <1>5, <1>6, <1>7, <1>8, <1>9 DEF Loop

LEMMA StepTypeOK == TypeOK /\ [Next]_vars => TypeOK'
<1> SUFFICES ASSUME TypeOK, [Next]_vars PROVE TypeOK'
  OBVIOUS
<1>1. CASE Start
  <2>1. PICK from \in Nat : StartAt(from)
    BY <1>1, StreamAssumption
    DEF Start, TypeOK, RunTypeOK, ChainTypeOK, CursorUsable, Latest
  <2> USE <2>1 DEF TypeOK, StartAt
  <2>2. ChainTypeOK'
    BY DEF ChainTypeOK, env
  <2>3. RunTypeOK'
    BY DEF RunTypeOK, CursorUsable, PCs, finals
  <2>4. PollTypeOK'
    BY DEF PollTypeOK, locals
  <2>5. OutputTypeOK'
    BY DEF OutputTypeOK, output
  <2> QED
    BY <2>2, <2>3, <2>4, <2>5
<1>2. CASE Crash
  <2>1. OutputTypeOK'
    BY <1>2 DEF Crash, TypeOK, OutputTypeOK, output
  <2> QED
    BY <1>2, <2>1, StopTypeOK DEF Crash
<1>3. CASE UNCHANGED vars
  <2> USE <1>3 DEF vars, TypeOK
  <2>1. ChainTypeOK' /\ OutputTypeOK'
    BY DEF ChainTypeOK, OutputTypeOK, env, output
  <2>2. RunTypeOK'
    BY DEF RunTypeOK, CursorUsable, finals
  <2>3. PollTypeOK'
    BY DEF PollTypeOK, Frontier, ChunkEnd, locals
  <2> QED
    BY <2>1, <2>2, <2>3
<1> QED
  BY <1>1, <1>2, <1>3, ChainStepTypeOK, LoopStepTypeOK DEF Next

(***************************************************************************)
(* The loop, the tracker and the output stay well typed whatever the chain *)
(* and the faults do; in particular the scan never leaves the range the    *)
(* poll read (pollOnce) and no height underflows (the floor of resolveFork, *)
(* the guard of shouldSaveCheckpoint).                                     *)
(***************************************************************************)
THEOREM TypeCorrect == Spec => []TypeOK
  BY InitTypeOK, StepTypeOK, PTL DEF Spec
-----------------------------------------------------------------------------
(* Nothing is skipped. *)

LEMMA CompleteMono ==
  ASSUME NEW A, NEW B, A \subseteq B, NEW k, NEW o \in Int, NEW n \in Int, NEW m \in Int,
         m <= n, Complete(A, k, o, n)
  PROVE  Complete(B, k, o, m)
  BY StreamAssumption DEF Complete

LEMMA CompleteExtend ==
  ASSUME NEW A, NEW B, A \subseteq B, NEW k, NEW o \in Int, NEW lo \in Int, NEW hi \in Int,
         Complete(A, k, o, lo),
         \A h \in lo .. hi : \E r \in B : r.kind = k /\ r.height = h
  PROVE  Complete(B, k, o, hi + 1)
<1> SUFFICES ASSUME NEW h \in 0 .. hi, o <= h
             PROVE  \E r \in B : r.kind = k /\ r.height = h
  BY DEF Complete
<1>1. CASE h < lo
  BY <1>1 DEF Complete
<1>2. CASE lo <= h
  BY <1>2
<1> QED
  BY <1>1, <1>2

LEMMA CompleteEmpty ==
  ASSUME NEW A, NEW k, NEW o \in Int, NEW n \in Int, n <= o \/ n <= 0
  PROVE  Complete(A, k, o, n)
  BY StreamAssumption DEF Complete

\* No step takes a record back.
LEMMA EmittedGrows == [Next]_vars => emitted \subseteq emitted'
<1> USE DEF output, Emit, EmitMarker
<1>1. Chain \/ Start \/ Crash \/ UNCHANGED vars => UNCHANGED emitted
  BY DEF Chain, Start, StartAt, Crash, vars
<1>2. BlockNumber \/ HeadHeader \/ FinalizedTag \/ CheckFrontier => UNCHANGED emitted
  BY DEF BlockNumber, HeadHeader, FinalizedTag, CheckFrontier
<1>3. ResolveFork => UNCHANGED emitted
  BY DEF ResolveFork, CompareCandidate, Rewind
<1>4. GetLogs \/ ScanNative => emitted \subseteq emitted'
  BY DEF GetLogs, ScanNative, Delivered, WriteFails
<1>5. ScanFails \/ SaveCheckpoint => UNCHANGED emitted
  BY DEF ScanFails, SaveCheckpoint
<1> QED
  BY <1>1, <1>2, <1>3, <1>4, <1>5 DEF Next, Loop
(***************************************************************************)
(* GapFree and CursorNeverAhead are not inductive: what the loop will make *)
(* its frontier when a poll ends depends on what the chunks of the poll    *)
(* delivered.  ScanInv says how far each kind has been delivered while the *)
(* poll is under way, StartInv where the feed began.                       *)
(***************************************************************************)
StartInv ==
  /\ origin \in {-1, FromBlock}
  /\ pc # "down" \/ CursorUsable => origin = FromBlock

ScanInv ==
  /\ pc \in {"logs", "native"} => \A k \in Watched : SentBelow(k, cur)
  /\ pc = "logs" => SentBelow("event", at)
  /\ pc = "native" => /\ SentBelow("native", at)
                      /\ "event" \in Watched => SentBelow("event", ChunkEnd + 1)

GapInv == StartInv /\ ScanInv /\ GapFree /\ CursorNeverAhead

LEMMA InitGapInv == Init => GapInv
<1> SUFFICES ASSUME Init PROVE GapInv
  OBVIOUS
<1>1. ~CursorUsable
  <2>1. CASE ckpt = NoCursor
    BY <2>1 DEF CursorUsable
  <2>2. CASE ckpt \in OldCursors
    <3>1. ckpt \in [chainID : Nat \ {0, ChainID}, lastBlock : Nat]
      BY <2>2, StreamAssumption
    <3> QED
      BY <3>1 DEF CursorUsable
  <2> QED
    BY <2>1, <2>2 DEF Init
<1>2. GapFree
  BY CompleteEmpty DEF Init, GapFree, SentBelow
<1> QED
  BY <1>1, <1>2 DEF Init, GapInv, StartInv, ScanInv, CursorNeverAhead

\* Steps outside the scan: what is delivered stays delivered.
LEMMA KeepSent ==
  ASSUME TypeOK, GapInv, emitted \subseteq emitted', UNCHANGED <<ckpt, origin>>
  PROVE  /\ \A k \in Watched : Complete(emitted', k, origin', nextBlock)
         /\ CursorNeverAhead'
         /\ CursorUsable' = CursorUsable
<1>1. nextBlock \in Int /\ origin \in Int
  BY DEF TypeOK, RunTypeOK
<1>2. CursorUsable' = CursorUsable
  BY DEF CursorUsable
<1>3. ASSUME NEW k \in Watched
      PROVE  Complete(emitted', k, origin', nextBlock)
  BY <1>1, CompleteMono DEF GapInv, GapFree, SentBelow
<1>4. ASSUME NEW k \in Watched, CursorUsable
      PROVE  Complete(emitted', k, origin', ckpt'.lastBlock + 1)
  <2>1. ckpt.lastBlock + 1 \in Int
    BY <1>4 DEF TypeOK, RunTypeOK
  <2> QED
    BY <1>1, <1>4, <2>1, CompleteMono DEF GapInv, CursorNeverAhead, SentBelow
<1> QED
  BY <1>2, <1>3, <1>4 DEF CursorNeverAhead, SentBelow

LEMMA IdleGapInv ==
  ASSUME TypeOK, GapInv, emitted \subseteq emitted', UNCHANGED <<ckpt, origin, nextBlock>>,
         pc # "down", pc' \notin {"down", "logs", "native"}
  PROVE  GapInv'
<1>1. GapFree'
  BY KeepSent DEF GapFree, SentBelow
<1>2. StartInv'
  BY DEF GapInv, StartInv
<1> QED
  BY <1>1, <1>2, KeepSent DEF GapInv, ScanInv

LEMMA StopGapInv ==
  ASSUME TypeOK, GapInv, emitted \subseteq emitted', Stop
  PROVE  GapInv'
<1>1. UNCHANGED <<ckpt, origin>> /\ pc' = "down" /\ nextBlock' = 0 /\ origin \in Int
  BY DEF Stop, TypeOK, RunTypeOK
<1>2. GapFree'
  BY <1>1, CompleteEmpty DEF GapFree, SentBelow
<1>3. StartInv'
  BY <1>1, KeepSent DEF GapInv, StartInv
<1> QED
  BY <1>1, <1>2, <1>3, KeepSent DEF GapInv, ScanInv

LEMMA BeginScanGapInv ==
  ASSUME TypeOK, GapInv, emitted \subseteq emitted', pc # "down",
         NEW n \in Nat, n <= nextBlock, BeginScan(n), UNCHANGED <<ckpt, origin>>
  PROVE  GapInv'
<1>1. nextBlock \in Int /\ origin \in Int /\ origin' = origin
  BY DEF TypeOK, RunTypeOK
<1>2. ASSUME NEW k \in Watched
      PROVE  Complete(emitted', k, origin', n)
  BY <1>1, <1>2, KeepSent, CompleteMono DEF GapInv, GapFree, SentBelow
<1>3. CASE n > pollHead /\ Succeed(n)
  <2>1. pc' = "save" /\ nextBlock' = n
    BY <1>3 DEF Succeed
  <2>2. GapFree'
    BY <1>2, <2>1 DEF GapFree, SentBelow
  <2> QED
    BY <2>1, <2>2, KeepSent DEF GapInv, StartInv, ScanInv
<1>4. CASE /\ pc' = FirstQuery /\ cur' = n /\ at' = n
           /\ UNCHANGED nextBlock
  <2>1. pc' \in {"logs", "native"}
    BY <1>4, FirstQueryType
  <2>2. GapFree'
    BY <1>4, KeepSent DEF GapFree, SentBelow
  <2>3. ScanInv'
    BY <1>2, <1>4, FirstQueryType DEF ScanInv, SentBelow, FirstQuery
  <2> QED
    BY <2>1, <2>2, <2>3, KeepSent DEF GapInv, StartInv
<1> QED
  BY <1>3, <1>4 DEF BeginScan
\* A chunk is done only when every kind is delivered up to its end.
LEMMA ChunkDoneGapInv ==
  ASSUME TypeOK, GapInv, emitted \subseteq emitted', pc # "down",
         ChunkEnd \in Heights, UNCHANGED <<ckpt, origin>>, ChunkDone,
         \A k \in Watched : Complete(emitted', k, origin', ChunkEnd + 1)
  PROVE  GapInv'
<1>1. CASE ChunkEnd < pollHead
  <2>1. /\ pc' = FirstQuery /\ cur' = ChunkEnd + 1 /\ at' = ChunkEnd + 1
        /\ UNCHANGED nextBlock
    BY <1>1 DEF ChunkDone
  <2>2. GapFree'
    BY <2>1, KeepSent DEF GapFree, SentBelow
  <2>3. ScanInv'
    BY <2>1, FirstQueryType DEF ScanInv, SentBelow, FirstQuery
  <2>4. pc' \in {"logs", "native"}
    BY <2>1, FirstQueryType
  <2> QED
    BY <2>1, <2>2, <2>3, <2>4, KeepSent DEF GapInv, StartInv
<1>2. CASE ~(ChunkEnd < pollHead)
  <2>1. pc' = "save" /\ nextBlock' = pollHead + 1
    BY <1>2 DEF ChunkDone, Succeed
  <2>2. ChunkEnd = pollHead
    BY <1>2, StreamAssumption DEF TypeOK, PollTypeOK, ChunkEnd
  <2>3. GapFree'
    BY <2>1, <2>2 DEF GapFree, SentBelow
  <2> QED
    BY <2>1, <2>3, KeepSent DEF GapInv, StartInv, ScanInv
<1> QED
  BY <1>1, <1>2

LEMMA DeliveredSent ==
  ASSUME TypeOK, NEW k \in Watched, NEW lo \in Nat, NEW hi \in Nat,
         Delivered(k, lo, hi), SentBelow(k, lo)
  PROVE  /\ Complete(emitted', k, origin', hi + 1)
         /\ emitted \subseteq emitted' /\ UNCHANGED <<ckpt, origin>>
<1>1. /\ emitted' = emitted \cup Records(k, lo, hi) /\ UNCHANGED <<ckpt, origin>>
      /\ origin \in Int
  BY DEF Delivered, Emit, TypeOK, RunTypeOK
<1>2. ASSUME NEW h \in lo .. hi
      PROVE  \E r \in emitted' : r.kind = k /\ r.height = h
  <2>1. Record(k, h) \in emitted'
    BY <1>1, <1>2 DEF Records
  <2> QED
    BY <2>1 DEF Record
<1> QED
  BY <1>1, <1>2, CompleteExtend DEF SentBelow

LEMMA WriteFailsGapInv ==
  ASSUME TypeOK, GapInv, emitted \subseteq emitted', pc \in {"logs", "native"},
         NEW k, NEW lo, NEW hi, WriteFails(k, lo, hi)
  PROVE  GapInv'
<1>1. CASE Fail
  <2>1. pc' = "poll" /\ UNCHANGED <<ckpt, origin, nextBlock>>
    BY <1>1 DEF Fail
  <2> QED
    BY <2>1, IdleGapInv
<1>2. CASE Stop
  BY <1>2, StopGapInv
<1> QED
  BY <1>1, <1>2 DEF WriteFails

LEMMA ContinueGapInv ==
  ASSUME TypeOK, GapInv, emitted \subseteq emitted', pc \in {"logs", "native"},
         UNCHANGED <<ckpt, origin>>, NEW next \in {"logs", "native"}, NEW n,
         Continue(next, n),
         next = "logs" => Complete(emitted', "event", origin', n),
         next = "native" =>
           /\ Complete(emitted', "native", origin', n)
           /\ "event" \in Watched => Complete(emitted', "event", origin', ChunkEnd + 1)
  PROVE  GapInv'
<1>1. /\ pc' = next /\ at' = n /\ cur' = cur /\ pollHead' = pollHead
      /\ nextBlock' = nextBlock /\ origin \in Int /\ cur \in Int
  BY DEF Continue, TypeOK, RunTypeOK, PollTypeOK
<1>2. ChunkEnd' = ChunkEnd
  BY <1>1 DEF ChunkEnd
<1>3. GapFree'
  BY <1>1, KeepSent DEF GapFree, SentBelow
<1>4. ASSUME NEW k \in Watched
      PROVE  Complete(emitted', k, origin', cur')
  <2>1. Complete(emitted, k, origin, cur)
    BY DEF GapInv, ScanInv, SentBelow
  <2> QED
    BY <1>1, <2>1, CompleteMono
<1>5. ScanInv'
  BY <1>1, <1>2, <1>4 DEF ScanInv, SentBelow
<1> QED
  BY <1>1, <1>3, <1>5, KeepSent DEF GapInv, StartInv

LEMMA LoopStepGapInv ==
  ASSUME TypeOK, GapInv, Loop
  PROVE  GapInv'
<1>1. emitted \subseteq emitted'
  BY EmittedGrows DEF Next
<1>2. CASE BlockNumber \/ HeadHeader \/ FinalizedTag
  <2>1. /\ UNCHANGED <<ckpt, origin, nextBlock>>
        /\ pc # "down" /\ pc' \in {"header", "finalized", "reorg"}
    BY <1>2 DEF BlockNumber, HeadHeader, FinalizedTag
  <2> QED
    BY <1>1, <2>1, IdleGapInv
<1>3. CASE CheckFrontier
  <2>1. CASE BeginScan(nextBlock) /\ UNCHANGED <<ckpt, origin>>
    BY <1>1, <1>3, <2>1, BeginScanGapInv DEF CheckFrontier, TypeOK, RunTypeOK
  <2>2. CASE pc' \in {"poll", "fork"} /\ UNCHANGED <<ckpt, origin, nextBlock>>
    BY <1>1, <1>3, <2>2, IdleGapInv DEF CheckFrontier
  <2> QED
    BY <1>3, <2>1, <2>2 DEF CheckFrontier, Fail
<1>4. CASE ResolveFork
  <2>1. pc = "fork" /\ nextBlock > 0 /\ walk <= Frontier
    BY <1>4 DEF ResolveFork, TypeOK, PollTypeOK
  <2>2. ASSUME NEW fork \in Heights, fork <= Frontier, NEW exceeded, Rewind(fork, exceeded)
        PROVE  GapInv'
    <3>1. CASE BeginScan(fork + 1) /\ UNCHANGED <<ckpt, origin>>
      <4>1. fork + 1 \in Nat /\ fork + 1 <= nextBlock
        BY <2>1, <2>2, FrontierType, StreamAssumption DEF TypeOK, RunTypeOK
      <4> QED
        BY <1>1, <2>1, <3>1, <4>1, BeginScanGapInv
    <3>2. CASE Fail
      BY <1>1, <2>1, <3>2, IdleGapInv DEF Fail
    <3>3. CASE Stop
      BY <1>1, <3>3, StopGapInv
    <3> QED
      BY <2>2, <3>1, <3>2, <3>3 DEF Rewind
  <2>3. CASE Rewind(Floor(Frontier), TRUE)
    BY <2>1, <2>2, <2>3, FrontierType
  <2>4. ASSUME NEW n \in Heights, NextCandidate(n), CompareCandidate(n)
        PROVE  GapInv'
    <3>1. n <= Frontier
      BY <2>1, <2>4, FrontierType, StreamAssumption
      DEF NextCandidate, ForkCandidates, TypeOK, PollTypeOK
    <3>2. CASE Rewind(n, FALSE)
      BY <2>2, <3>1, <3>2
    <3>3. CASE pc' \in {"poll", "fork"} /\ UNCHANGED <<ckpt, origin, nextBlock>>
      BY <1>1, <2>1, <3>3, IdleGapInv
    <3> QED
      BY <2>1, <2>4, <3>2, <3>3 DEF CompareCandidate, Fail
  <2> QED
    BY <1>4, <2>3, <2>4 DEF ResolveFork
<1>5. CASE GetLogs
  <2>1. /\ pc = "logs" /\ "event" \in Watched /\ at \in Nat /\ cur \in Nat
        /\ ChunkEnd \in Heights /\ SentBelow("event", at)
        /\ \A k \in Watched : SentBelow(k, cur)
    BY <1>5, ChunkEndType DEF GetLogs, TypeOK, PollTypeOK, GapInv, ScanInv
  <2>2. PICK hi \in at .. ChunkEnd :
          \/ WriteFails("event", at, hi)
          \/ /\ Delivered("event", at, hi)
             /\ \/ hi < ChunkEnd /\ Continue("logs", hi + 1)
                \/ hi = ChunkEnd /\ "native" \in Watched /\ Continue("native", cur)
                \/ hi = ChunkEnd /\ "native" \notin Watched /\ ChunkDone
    BY <1>5 DEF GetLogs
  <2>3. hi \in Nat
    BY <2>1, StreamAssumption
  <2>4. CASE WriteFails("event", at, hi)
    BY <1>1, <2>1, <2>4, WriteFailsGapInv
  <2>5. CASE Delivered("event", at, hi)
    <3>1. /\ Complete(emitted', "event", origin', hi + 1)
          /\ UNCHANGED <<ckpt, origin>>
      BY <2>1, <2>3, <2>5, DeliveredSent
    <3>2. CASE Continue("logs", hi + 1)
      BY <1>1, <2>1, <3>1, <3>2, ContinueGapInv
    <3>3. CASE hi = ChunkEnd /\ "native" \in Watched /\ Continue("native", cur)
      <4>1. Complete(emitted', "native", origin', cur)
        BY <1>1, <2>1, <3>1, <3>3, CompleteMono DEF SentBelow, TypeOK, RunTypeOK
      <4> QED
        BY <1>1, <2>1, <3>1, <3>3, <4>1, ContinueGapInv
    <3>4. CASE hi = ChunkEnd /\ "native" \notin Watched /\ ChunkDone
      <4>1. \A k \in Watched : k = "event"
        BY <3>4, StreamAssumption DEF Kinds
      <4> QED
        BY <1>1, <2>1, <3>1, <3>4, <4>1, ChunkDoneGapInv
    <3> QED
      BY <2>2, <2>4, <3>2, <3>3, <3>4
  <2> QED
    BY <2>2, <2>4, <2>5
<1>6. CASE ScanNative
  <2>1. /\ pc = "native" /\ "native" \in Watched /\ at \in Nat /\ cur \in Nat
        /\ ChunkEnd \in Heights /\ SentBelow("native", at)
        /\ "event" \in Watched => SentBelow("event", ChunkEnd + 1)
    BY <1>6, ChunkEndType DEF ScanNative, TypeOK, PollTypeOK, GapInv, ScanInv
  <2>2. CASE WriteFails("native", at, at)
    BY <1>1, <2>1, <2>2, WriteFailsGapInv
  <2>3. CASE Delivered("native", at, at)
    <3>1. /\ Complete(emitted', "native", origin', at + 1)
          /\ UNCHANGED <<ckpt, origin>>
      BY <2>1, <2>3, DeliveredSent
    <3>2. "event" \in Watched => Complete(emitted', "event", origin', ChunkEnd + 1)
      <4>1. ChunkEnd + 1 \in Int /\ origin \in Int /\ origin' = origin
        BY <2>1, <3>1, StreamAssumption DEF TypeOK, RunTypeOK
      <4> QED
        BY <1>1, <2>1, <4>1, CompleteMono DEF SentBelow
    <3>3. CASE Continue("native", at + 1)
      BY <1>1, <2>1, <3>1, <3>2, <3>3, ContinueGapInv
    <3>4. CASE at = ChunkEnd /\ ChunkDone
      <4>1. \A k \in Watched : Complete(emitted', k, origin', ChunkEnd + 1)
        BY <3>1, <3>2, <3>4, StreamAssumption DEF Kinds
      <4> QED
        BY <1>1, <2>1, <3>1, <3>4, <4>1, ChunkDoneGapInv
    <3> QED
      BY <1>6, <2>2, <3>3, <3>4 DEF ScanNative
  <2> QED
    BY <1>6, <2>2, <2>3 DEF ScanNative
<1>7. CASE ScanFails
  BY <1>1, <1>7, IdleGapInv DEF ScanFails, Fail
<1>8. CASE SaveCheckpoint
  <2>1. CASE UNCHANGED ckpt
    BY <1>1, <1>8, <2>1, IdleGapInv DEF SaveCheckpoint
  <2>2. CASE ckpt' = [chainID |-> ChainID, lastBlock |-> nextBlock - 1]
    <3>1. /\ UNCHANGED <<emitted, origin, nextBlock>> /\ pc' = "poll" /\ pc = "save"
          /\ ckpt'.lastBlock + 1 = nextBlock
      BY <1>8, <2>2 DEF SaveCheckpoint, output, TypeOK, RunTypeOK
    <3>2. GapFree' /\ CursorNeverAhead'
      BY <3>1 DEF GapInv, GapFree, CursorNeverAhead, SentBelow
    <3> QED
      BY <3>1, <3>2 DEF GapInv, StartInv, ScanInv
  <2> QED
    BY <1>8, <2>1, <2>2 DEF SaveCheckpoint
<1> QED
  BY <1>2, <1>3, <1>4, <1>5, <1>6, <1>7, <1>8 DEF Loop

LEMMA StepGapInv ==
  ASSUME FromBlock \in Nat, TypeOK, GapInv, [Next]_vars
  PROVE  GapInv'
<1>1. CASE Start
  <2>1. /\ pc = "down" /\ pc' = "poll" /\ UNCHANGED <<ckpt, emitted>>
        /\ origin' = FromBlock /\ CursorUsable' = CursorUsable
        /\ CursorUsable => origin = FromBlock
    BY <1>1 DEF Start, StartAt, GapInv, StartInv, CursorUsable, output, Latest
  <2>2. GapFree'
    <3>1. CASE CursorUsable /\ StartAt(ckpt.lastBlock + 1)
      BY <2>1, <3>1 DEF StartAt, GapInv, CursorNeverAhead, GapFree, SentBelow
    <3>2. CASE StartAt(FromBlock)
      BY <2>1, <3>2, CompleteEmpty DEF StartAt, GapFree, SentBelow
    <3> QED
      BY <1>1, <3>1, <3>2 DEF Start, Latest
  <2>3. CursorNeverAhead'
    BY <2>1 DEF GapInv, CursorNeverAhead, SentBelow
  <2> QED
    BY <2>1, <2>2, <2>3 DEF GapInv, StartInv, ScanInv
<1>2. CASE Crash
  BY <1>2, StopGapInv, EmittedGrows DEF Crash
<1>3. CASE Chain \/ UNCHANGED vars
  <2>1. UNCHANGED <<ckpt, pc, nextBlock, emitted, origin, cur, at, pollHead>>
    BY <1>3 DEF Chain, vars, locals, output
  <2>2. ChunkEnd' = ChunkEnd /\ CursorUsable' = CursorUsable
    BY <2>1 DEF ChunkEnd, CursorUsable
  <2> QED
    BY <2>1, <2>2
    DEF GapInv, StartInv, ScanInv, GapFree, CursorNeverAhead, SentBelow
<1> QED
  BY <1>1, <1>2, <1>3, LoopStepGapInv DEF Next

LEMMA GapInvariant ==
  ASSUME FromBlock \in Nat
  PROVE  Spec => [](TypeOK /\ GapInv)
<1>1. TypeOK /\ GapInv /\ [Next]_vars => GapInv'
  BY StepGapInv
<1> QED
  BY <1>1, InitGapInv, TypeCorrect, PTL DEF Spec

(***************************************************************************)
(* From a numeric from_block, Run skips no block: for every chunk size,    *)
(* every chain and its reorganizations, and every failure, crash and       *)
(* restart.                                                                *)
(***************************************************************************)
THEOREM NothingSkipped ==
  ASSUME FromBlock \in Nat
  PROVE  Spec => []GapFree
<1>1. TypeOK /\ GapInv => GapFree
  BY DEF GapInv
<1> QED
  BY <1>1, GapInvariant, PTL

(***************************************************************************)
(* Nor does the cursor file that checkpoint.Save leaves ever pass what is  *)
(* written, so that a restart from it loses nothing.                       *)
(***************************************************************************)
THEOREM CursorSafe ==
  ASSUME FromBlock \in Nat
  PROVE  Spec => []CursorNeverAhead
<1>1. TypeOK /\ GapInv => CursorNeverAhead
  BY DEF GapInv
<1> QED
  BY <1>1, GapInvariant, PTL
-----------------------------------------------------------------------------
(* Stream implements Feed. *)

LEMMA EmitIsSend ==
  ASSUME TypeOK, GapInv, FromBlock \in Nat, pc # "down", NEW k \in Watched,
         NEW lo \in Nat, NEW hi \in Int, hi <= head, SentBelow(k, lo),
         Emit(Records(k, lo, hi)), UNCHANGED <<head, ckpt>>
  PROVE  F!Next \/ UNCHANGED F!vars
<1>1. /\ emitted' = emitted \cup Records(k, lo, hi) /\ head' = head /\ head \in Nat
      /\ resumeAt' = resumeAt /\ origin = FromBlock
  BY StreamAssumption
  DEF Emit, resumeAt, CursorUsable, GapInv, StartInv, TypeOK, ChainTypeOK
<1>2. CASE hi < lo
  <2>1. emitted' = emitted
    BY <1>1, <1>2 DEF Records
  <2> QED
    BY <1>1, <2>1 DEF F!vars, sentPairs
<1>3. CASE lo <= hi
  <2>1. sentPairs' = sentPairs \cup ({k} \X (lo .. hi))
    <3>1. ASSUME NEW r \in Records(k, lo, hi)
          PROVE  <<r.kind, r.height>> \in {k} \X (lo .. hi)
      BY <3>1 DEF Records, Record
    <3>2. ASSUME NEW h \in lo .. hi
          PROVE  \E r \in Records(k, lo, hi) : r.kind = k /\ r.height = h
      <4>1. Record(k, h) \in Records(k, lo, hi)
        BY DEF Records
      <4> QED
        BY <4>1 DEF Record
    <3>3. ASSUME NEW p \in {k} \X (lo .. hi)
          PROVE  p \in sentPairs'
      <4>1. PICK h \in lo .. hi : p = <<k, h>>
        BY <3>3
      <4>2. PICK r \in Records(k, lo, hi) : r.kind = k /\ r.height = h
        BY <3>2
      <4> QED
        BY <1>1, <4>1, <4>2 DEF sentPairs
    <3>4. sentPairs \subseteq sentPairs'
      BY <1>1 DEF sentPairs
    <3>5. sentPairs' \subseteq sentPairs \cup ({k} \X (lo .. hi))
      BY <1>1, <3>1 DEF sentPairs
    <3> QED
      BY <3>3, <3>4, <3>5
  <2>2. F!SentBelow(k, lo)
    <3> SUFFICES ASSUME NEW h \in FromBlock .. lo - 1
                 PROVE  <<k, h>> \in sentPairs
      BY DEF F!SentBelow
    <3>1. PICK r \in emitted : r.kind = k /\ r.height = h
      BY <1>1 DEF SentBelow, Complete
    <3> QED
      BY <3>1 DEF sentPairs
  <2>3. F!Send(k, lo, hi)
    BY <1>1, <2>1, <2>2 DEF F!Send
  <2>4. lo \in 0 .. head /\ hi \in 0 .. head
    BY <1>1, <1>3
  <2> QED
    BY <2>3, <2>4 DEF F!Next
<1> QED
  BY <1>2, <1>3
LEMMA SilentIsStutter ==
  ASSUME UNCHANGED <<head, emitted, ckpt>>
  PROVE  UNCHANGED F!vars
  BY DEF F!vars, sentPairs, resumeAt, CursorUsable

LEMMA WriteFailsIsSend ==
  ASSUME TypeOK, GapInv, FromBlock \in Nat, pc # "down", NEW k \in Watched,
         NEW lo \in Nat, NEW hi \in Nat, hi <= head, SentBelow(k, lo),
         WriteFails(k, lo, hi)
  PROVE  F!Next \/ UNCHANGED F!vars
<1>1. UNCHANGED <<head, ckpt>>
  BY DEF WriteFails, Fail, Stop, env
<1>2. CASE UNCHANGED emitted
  BY <1>1, <1>2, SilentIsStutter
<1>3. ASSUME NEW p \in lo .. hi, Emit(Records(k, lo, p - 1))
      PROVE  F!Next \/ UNCHANGED F!vars
  <2>1. p - 1 \in Int /\ p - 1 <= head
    BY <1>3, StreamAssumption DEF TypeOK, ChainTypeOK
  <2> QED
    BY <1>1, <1>3, <2>1, EmitIsSend
<1> QED
  BY <1>2, <1>3 DEF WriteFails, output

LEMMA StepIsFeed ==
  ASSUME TypeOK, GapInv, FromBlock \in Nat, [Next]_vars
  PROVE  [F!Next]_F!vars
<1>1. CASE Chain
  <2>1. UNCHANGED <<emitted, ckpt>> /\ head' \in Nat
    BY <1>1, ChainStepTypeOK, StreamAssumption
    DEF Chain, output, TypeOK, ChainTypeOK
  <2>2. F!Move
    BY <2>1 DEF F!Move, sentPairs, resumeAt, CursorUsable
  <2> QED
    BY <2>2 DEF F!Next
<1>2. CASE \/ Start \/ Crash \/ UNCHANGED vars
           \/ BlockNumber \/ HeadHeader \/ FinalizedTag \/ CheckFrontier
  <2>1. UNCHANGED <<head, emitted, ckpt>>
    BY <1>2 DEF Start, StartAt, Crash, Stop, BlockNumber, HeadHeader, FinalizedTag,
       CheckFrontier, Fail, vars, env, output
  <2> QED
    BY <2>1, SilentIsStutter
<1>3. CASE ResolveFork \/ ScanFails
  <2>1. UNCHANGED <<head, emitted, ckpt>>
    BY <1>3 DEF ResolveFork, CompareCandidate, Rewind, EmitMarker, ScanFails, Fail, Stop,
       env, output
  <2> QED
    BY <2>1, SilentIsStutter
<1>4. CASE GetLogs
  <2>1. /\ pc = "logs" /\ "event" \in Watched /\ at \in Nat /\ SentBelow("event", at)
        /\ ChunkEnd \in Heights
    BY <1>4, ChunkEndType DEF GetLogs, TypeOK, PollTypeOK, GapInv, ScanInv
  <2>2. PICK hi \in at .. ChunkEnd :
          /\ hi <= head
          /\ WriteFails("event", at, hi) \/ Delivered("event", at, hi)
    BY <1>4 DEF GetLogs
  <2>3. hi \in Nat
    BY <2>1, StreamAssumption
  <2>4. CASE Delivered("event", at, hi)
    <3>1. Emit(Records("event", at, hi)) /\ UNCHANGED <<head, ckpt>>
      BY <2>4 DEF Delivered, env
    <3> QED
      BY <2>1, <2>2, <2>3, <3>1, EmitIsSend
  <2> QED
    BY <2>1, <2>2, <2>3, <2>4, WriteFailsIsSend
<1>5. CASE ScanNative
  <2>1. /\ pc = "native" /\ "native" \in Watched /\ at \in Nat /\ SentBelow("native", at)
        /\ at <= head
    BY <1>5 DEF ScanNative, TypeOK, PollTypeOK, GapInv, ScanInv
  <2>2. CASE Delivered("native", at, at)
    <3>1. Emit(Records("native", at, at)) /\ UNCHANGED <<head, ckpt>>
      BY <2>2 DEF Delivered, env
    <3> QED
      BY <2>1, <3>1, EmitIsSend
  <2> QED
    BY <1>5, <2>1, <2>2, WriteFailsIsSend DEF ScanNative
<1>6. CASE SaveCheckpoint
  <2>1. UNCHANGED <<head, emitted>> /\ nextBlock \in Nat
    BY <1>6 DEF SaveCheckpoint, env, output, TypeOK, RunTypeOK
  <2>2. CASE UNCHANGED ckpt
    BY <2>1, <2>2, SilentIsStutter
  <2>3. CASE ckpt' = [chainID |-> ChainID, lastBlock |-> nextBlock - 1] /\ UseCheckpoint
    <3>1. resumeAt' = nextBlock /\ origin = FromBlock
      BY <1>6, <2>1, <2>3, StreamAssumption
      DEF SaveCheckpoint, resumeAt, CursorUsable, NoCursor, GapInv, StartInv
    <3>2. ASSUME NEW k \in Watched
          PROVE  F!SentBelow(k, nextBlock)
      <4> SUFFICES ASSUME NEW h \in FromBlock .. nextBlock - 1
                   PROVE  <<k, h>> \in sentPairs
        BY DEF F!SentBelow
      <4>1. PICK r \in emitted : r.kind = k /\ r.height = h
        BY <2>1, <3>1 DEF GapInv, GapFree, SentBelow, Complete
      <4> QED
        BY <4>1 DEF sentPairs
    <3>3. F!Commit
      <4>1. UNCHANGED sentPairs
        BY <2>1 DEF sentPairs
      <4> QED
        BY <2>1, <3>1, <3>2, <4>1 DEF F!Commit, F!SentBelow
    <3> QED
      BY <3>3 DEF F!Next
  <2> QED
    BY <1>6, <2>2, <2>3 DEF SaveCheckpoint
<1> QED
  BY <1>1, <1>2, <1>3, <1>4, <1>5, <1>6 DEF Next, Loop

(***************************************************************************)
(* Whatever the chain and the faults do, the records Run writes form, for  *)
(* every kind, an ordered feed without gaps, and its cursor file is the    *)
(* cursor of that feed.                                                    *)
(***************************************************************************)
THEOREM StreamImplementsFeed ==
  ASSUME FromBlock \in Nat
  PROVE  Spec => FeedSpec
<1>1. Init => F!Init
  <2> SUFFICES ASSUME Init PROVE F!Init
    OBVIOUS
  <2>1. ~CursorUsable
    BY InitGapInv DEF Init, GapInv, StartInv
  <2>2. head \in Nat /\ emitted = {}
    BY StreamAssumption DEF Init
  <2> QED
    BY <2>1, <2>2 DEF F!Init, sentPairs, resumeAt
<1>2. TypeOK /\ GapInv /\ [Next]_vars => [F!Next]_F!vars
  BY StepIsFeed
<1> QED
  BY <1>1, <1>2, GapInvariant, PTL DEF Spec, FeedSpec, F!Spec
-----------------------------------------------------------------------------
(* Finality. *)

(***************************************************************************)
(* The producer's finalized height is one the chain once had, so it is     *)
(* never above the chain's; and no reorganization reaches below that.      *)
(***************************************************************************)
FinalInv ==
  /\ finalizedBlock <= final
  /\ \A r \in emitted : r.finalized => r.height <= final /\ r.fork = hash[r.height]

LEMMA EmitFinalInv ==
  ASSUME TypeOK, FinalInv, NEW k, NEW lo, NEW hi, Emit(Records(k, lo, hi)),
         UNCHANGED <<hash, final>>, finalizedBlock' <= final
  PROVE  FinalInv'
<1>1. ASSUME NEW r \in Records(k, lo, hi), r.finalized
      PROVE  r.height <= final /\ r.fork = hash[r.height]
  <2>1. PICK h \in lo .. hi : r = Record(k, h)
    BY DEF Records
  <2>2. h <= finalizedBlock
    BY <1>1, <2>1 DEF Record, IsFinalized
  <2>3. r.height = h /\ r.fork = hash[h]
    BY <2>1 DEF Record
  <2> QED
    BY <2>1, <2>2, <2>3, StreamAssumption
    DEF FinalInv, TypeOK, RunTypeOK, ChainTypeOK, Unknown
<1> QED
  BY <1>1 DEF Emit, FinalInv

LEMMA StepFinalInv ==
  ASSUME TypeOK, FinalInv, [Next]_vars
  PROVE  FinalInv'
<1>1. CASE Chain
  <2>1. UNCHANGED <<finalizedBlock, emitted>>
    BY <1>1 DEF Chain, finals, output
  <2>2. ASSUME NEW f \in Heights, NEW h \in Heights, Reorg(f, h)
        PROVE  FinalInv'
    <3>1. ASSUME NEW r \in emitted, r.finalized
          PROVE  r.height <= final' /\ r.fork = hash'[r.height]
      <4>1. r.height \in Heights
        BY DEF TypeOK, OutputTypeOK, RecordSet
      <4> QED
        BY <2>2, <3>1, <4>1, StreamAssumption
        DEF FinalInv, Reorg, TypeOK, ChainTypeOK
    <3> QED
      BY <2>1, <2>2, <3>1 DEF FinalInv, Reorg
  <2>3. CASE Mine \/ Finalize
    <3>1. hash' = hash /\ final <= final' /\ final \in Int /\ final' \in Int
      BY <2>3, StreamAssumption DEF Mine, Finalize, TypeOK, ChainTypeOK
    <3>2. \A r \in emitted : r.height \in Int
      BY StreamAssumption DEF TypeOK, OutputTypeOK, RecordSet
    <3> QED
      BY <2>1, <3>1, <3>2 DEF FinalInv, TypeOK, RunTypeOK, Unknown
  <2> QED
    BY <1>1, <2>2, <2>3 DEF Chain
<1>2. CASE Start \/ BlockNumber \/ HeadHeader \/ SaveCheckpoint \/ UNCHANGED vars
  <2>1. UNCHANGED <<hash, final, finalizedBlock, emitted>>
    BY <1>2 DEF Start, StartAt, BlockNumber, HeadHeader, SaveCheckpoint, vars, env, finals,
       output
  <2> QED
    BY <2>1 DEF FinalInv
<1>3. CASE FinalizedTag
  <2>1. UNCHANGED <<hash, final, emitted>> /\ finalizedBlock' \in {finalizedBlock, final}
    BY <1>3 DEF FinalizedTag, env, finals, output
  <2> QED
    BY <2>1, StreamAssumption DEF FinalInv, TypeOK, ChainTypeOK
<1>4. ASSUME UNCHANGED <<hash, final, emitted>>, UNCHANGED finalizedBlock \/ Stop
      PROVE  FinalInv'
  <2>1. finalizedBlock' <= final
    BY <1>4, StreamAssumption DEF Stop, FinalInv, TypeOK, ChainTypeOK, Unknown
  <2> QED
    BY <1>4, <2>1 DEF FinalInv
<1>5. CASE Crash
  BY <1>4, <1>5 DEF Crash, Stop, env, output
<1>6. CASE CheckFrontier \/ ScanFails
  <2>1. UNCHANGED <<hash, final, emitted, finalizedBlock>>
    BY <1>6 DEF CheckFrontier, ScanFails, BeginScan, Fail, env, finals, output
  <2> QED
    BY <1>4, <2>1
<1>7. CASE ResolveFork
  <2>1. /\ UNCHANGED <<hash, final, emitted>>
        /\ UNCHANGED finalizedBlock \/ Stop
    BY <1>7 DEF ResolveFork, CompareCandidate, Rewind, EmitMarker, Fail, Stop, env, finals,
       output
  <2> QED
    BY <1>4, <2>1
<1>8. ASSUME NEW k, NEW lo, NEW hi, WriteFails(k, lo, hi) \/ Delivered(k, lo, hi)
      PROVE  FinalInv'
  <2>1. /\ UNCHANGED <<hash, final>>
        /\ UNCHANGED finalizedBlock \/ Stop
    BY <1>8 DEF WriteFails, Delivered, Fail, Stop, env, finals
  <2>2. finalizedBlock' <= final
    BY <2>1, StreamAssumption DEF Stop, FinalInv, TypeOK, ChainTypeOK, Unknown
  <2>3. CASE UNCHANGED emitted
    BY <1>4, <2>1, <2>3
  <2>4. ASSUME NEW p, Emit(Records(k, lo, p))
        PROVE  FinalInv'
    BY <2>1, <2>2, <2>4, EmitFinalInv
  <2> QED
    BY <1>8, <2>3, <2>4 DEF WriteFails, Delivered, output
<1>9. CASE GetLogs \/ ScanNative
  BY <1>8, <1>9 DEF GetLogs, ScanNative
<1> QED
  BY <1>1, <1>2, <1>3, <1>5, <1>6, <1>7, <1>9 DEF Next, Loop

(***************************************************************************)
(* A record that carries finalized = true is never orphaned, whatever fork *)
(* follows and however stale the producer's finalized height (isFinalized, *)
(* updateFinalizedBlock), as long as the chain keeps its own promise.      *)
(***************************************************************************)
THEOREM FinalizedForever == Spec => []FinalizedIsForever
<1>1. Init => FinalInv
  BY DEF Init, FinalInv, Unknown
<1>2. TypeOK /\ FinalInv /\ [Next]_vars => FinalInv'
  BY StepFinalInv
<1>3. FinalInv => FinalizedIsForever
  BY DEF FinalInv, FinalizedIsForever
<1> QED
  BY <1>1, <1>2, <1>3, TypeCorrect, PTL DEF Spec
-----------------------------------------------------------------------------
(* The cursor and the frontier. *)

(***************************************************************************)
(* Outside a save the cursor file stands where the loop's lastSaved says,  *)
(* or was never written; while a poll is under way the frontier stays      *)
(* there too, and a poll that succeeds leaves it positive.                 *)
(***************************************************************************)
SavedInv ==
  /\ pc # "down" => IF CursorUsable THEN ckpt.lastBlock + 1 = lastSaved
                                    ELSE lastSaved = origin
  /\ pc \notin {"down", "save"} => nextBlock = lastSaved
  /\ pc = "save" => nextBlock > 0

LEMMA QuietSavedInv ==
  ASSUME SavedInv, pc # "down", UNCHANGED <<ckpt, lastSaved, origin>>,
         \/ pc # "save" /\ pc' # "save" /\ UNCHANGED nextBlock
         \/ pc' = "save" /\ nextBlock' > 0
         \/ pc' = "down"
  PROVE  SavedInv'
  BY DEF SavedInv, CursorUsable

LEMMA BeginScanSavedInv ==
  ASSUME TypeOK, SavedInv, pc \notin {"down", "save"}, NEW n \in Nat, BeginScan(n),
         UNCHANGED <<ckpt, lastSaved, origin>>
  PROVE  SavedInv'
<1>1. CASE n > pollHead /\ Succeed(n)
  <2>1. pc' = "save" /\ nextBlock' > 0
    BY <1>1, StreamAssumption DEF Succeed, TypeOK, PollTypeOK
  <2> QED
    BY <2>1, QuietSavedInv
<1>2. CASE pc' = FirstQuery /\ UNCHANGED nextBlock
  BY <1>2, FirstQueryType, QuietSavedInv
<1> QED
  BY <1>1, <1>2 DEF BeginScan

LEMMA ChunkDoneSavedInv ==
  ASSUME TypeOK, SavedInv, pc \in {"logs", "native"}, ChunkDone,
         UNCHANGED <<ckpt, lastSaved, origin>>
  PROVE  SavedInv'
<1>1. CASE pc' = FirstQuery /\ UNCHANGED nextBlock
  BY <1>1, FirstQueryType, QuietSavedInv
<1>2. CASE Succeed(pollHead + 1)
  <2>1. pc' = "save" /\ nextBlock' > 0
    BY <1>2, StreamAssumption DEF Succeed, TypeOK, PollTypeOK
  <2> QED
    BY <2>1, QuietSavedInv
<1> QED
  BY <1>1, <1>2 DEF ChunkDone

LEMMA FailSavedInv ==
  ASSUME SavedInv, pc \notin {"down", "save"}, Fail \/ Stop
  PROVE  SavedInv'
<1>1. CASE Fail
  BY <1>1, QuietSavedInv DEF Fail
<1>2. CASE Stop
  BY <1>2, QuietSavedInv DEF SavedInv, Stop, CursorUsable
<1> QED
  BY <1>1, <1>2

LEMMA StepSavedInv ==
  ASSUME FromBlock \in Nat, UseCheckpoint, ~Fault("load"), ~Fault("save"),
         TypeOK, GapInv, SavedInv, [Next]_vars
  PROVE  SavedInv'
<1>1. CASE Chain \/ UNCHANGED vars
  <2>1. UNCHANGED <<ckpt, pc, nextBlock, lastSaved, origin>>
    BY <1>1 DEF Chain, vars
  <2> QED
    BY <2>1 DEF SavedInv, CursorUsable
<1>2. CASE Start
  <2>1. /\ pc' = "poll" /\ nextBlock' = lastSaved' /\ UNCHANGED ckpt
        /\ CursorUsable => lastSaved' = ckpt.lastBlock + 1
        /\ ~CursorUsable => lastSaved' = FromBlock /\ origin' = FromBlock
    BY <1>2 DEF Start, StartAt, GapInv, StartInv, Latest
  <2> QED
    BY <2>1 DEF SavedInv, CursorUsable
<1>3. CASE Crash
  BY <1>3, QuietSavedInv DEF Crash, Stop, SavedInv, CursorUsable
<1>4. CASE BlockNumber \/ HeadHeader \/ FinalizedTag
  <2>1. /\ pc \notin {"down", "save"} /\ pc' \notin {"down", "save"}
        /\ UNCHANGED <<ckpt, lastSaved, origin, nextBlock>>
    BY <1>4 DEF BlockNumber, HeadHeader, FinalizedTag
  <2> QED
    BY <2>1, QuietSavedInv
<1>5. CASE CheckFrontier
  <2>1. pc = "reorg" /\ nextBlock \in Nat
    BY <1>5 DEF CheckFrontier, TypeOK, RunTypeOK
  <2>2. CASE BeginScan(nextBlock) /\ UNCHANGED <<ckpt, lastSaved, origin>>
    BY <2>1, <2>2, BeginScanSavedInv
  <2>3. CASE pc' = "fork" /\ UNCHANGED <<ckpt, nextBlock, lastSaved, origin>>
    BY <2>1, <2>3, QuietSavedInv
  <2>4. CASE Fail
    BY <2>1, <2>4, FailSavedInv
  <2> QED
    BY <1>5, <2>2, <2>3, <2>4 DEF CheckFrontier
<1>6. CASE ResolveFork
  <2>1. pc = "fork" /\ Floor(Frontier) \in Nat
    BY <1>6, FrontierType, StreamAssumption DEF ResolveFork, TypeOK, PollTypeOK
  <2>2. ASSUME NEW fork \in Nat, NEW exceeded, Rewind(fork, exceeded)
        PROVE  SavedInv'
    <3>1. CASE BeginScan(fork + 1) /\ UNCHANGED <<ckpt, lastSaved, origin>>
      BY <2>1, <3>1, BeginScanSavedInv
    <3> QED
      BY <2>1, <2>2, <3>1, FailSavedInv DEF Rewind
  <2>3. ASSUME NEW n \in Heights, CompareCandidate(n)
        PROVE  SavedInv'
    <3>1. CASE Rewind(n, FALSE)
      <4>1. n \in Nat
        BY StreamAssumption
      <4> QED
        BY <2>2, <3>1, <4>1
    <3>2. CASE UNCHANGED <<ckpt, pc, nextBlock, lastSaved, origin>>
      BY <2>1, <3>2, QuietSavedInv
    <3> QED
      BY <2>1, <2>3, <3>1, <3>2, FailSavedInv DEF CompareCandidate
  <2> QED
    BY <1>6, <2>1, <2>2, <2>3 DEF ResolveFork
<1>7. CASE GetLogs \/ ScanNative \/ ScanFails
  <2>1. pc \in {"logs", "native"}
    BY <1>7 DEF GetLogs, ScanNative, ScanFails
  <2>2. ASSUME NEW k, NEW lo, NEW hi, WriteFails(k, lo, hi)
        PROVE  SavedInv'
    BY <2>1, <2>2, FailSavedInv DEF WriteFails
  <2>3. ASSUME NEW k, NEW lo, NEW hi, NEW next \in {"logs", "native"}, NEW n,
               Delivered(k, lo, hi), Continue(next, n) \/ ChunkDone
        PROVE  SavedInv'
    <3>1. UNCHANGED <<ckpt, lastSaved, origin>>
      BY <2>3 DEF Delivered
    <3>2. CASE Continue(next, n)
      BY <2>1, <3>1, <3>2, QuietSavedInv DEF Continue
    <3> QED
      BY <2>1, <2>3, <3>1, <3>2, ChunkDoneSavedInv
  <2>4. CASE GetLogs
    BY <2>2, <2>3, <2>4 DEF GetLogs
  <2>5. CASE ScanNative
    BY <2>2, <2>3, <2>5 DEF ScanNative
  <2>6. CASE ScanFails
    BY <2>1, <2>6, FailSavedInv DEF ScanFails
  <2> QED
    BY <1>7, <2>4, <2>5, <2>6
<1>8. CASE SaveCheckpoint
  <2>1. pc = "save" /\ pc' = "poll" /\ nextBlock > 0 /\ UNCHANGED <<nextBlock, origin>>
    BY <1>8 DEF SaveCheckpoint, SavedInv
  <2>2. CASE nextBlock # lastSaved
    <3>1. /\ ckpt' = [chainID |-> ChainID, lastBlock |-> nextBlock - 1]
          /\ lastSaved' = nextBlock
      BY <1>8, <2>1, <2>2 DEF SaveCheckpoint, ShouldSaveCheckpoint
    <3>2. CursorUsable' /\ ckpt'.lastBlock + 1 = nextBlock
      BY <3>1, StreamAssumption DEF CursorUsable, NoCursor, TypeOK, RunTypeOK
    <3> QED
      BY <2>1, <3>1, <3>2 DEF SavedInv
  <2>3. CASE nextBlock = lastSaved
    <3>1. UNCHANGED <<ckpt, lastSaved>>
      BY <1>8, <2>3 DEF SaveCheckpoint, ShouldSaveCheckpoint
    <3> QED
      BY <2>1, <2>3, <3>1 DEF SavedInv, CursorUsable
  <2> QED
    BY <2>2, <2>3
<1> QED
  BY <1>1, <1>2, <1>3, <1>4, <1>5, <1>6, <1>7, <1>8 DEF Next, Loop

(***************************************************************************)
(* When neither a save nor the load at a start fails, between polls the    *)
(* cursor file is exactly the frontier, also after a rewind lowered it and *)
(* after a crash between the poll and the save (Run, shouldSaveCheckpoint). *)
(* A cursor some other chain left is never taken for it.                   *)
(***************************************************************************)
THEOREM CursorFollows ==
  ASSUME FromBlock \in Nat, UseCheckpoint, ~Fault("load"), ~Fault("save")
  PROVE  Spec => []CursorIsFrontier
<1>1. Init => SavedInv
  BY DEF Init, SavedInv
<1>2. TypeOK /\ GapInv /\ SavedInv /\ [Next]_vars => SavedInv'
  BY StepSavedInv
<1>3. SavedInv => CursorIsFrontier
  BY DEF SavedInv, CursorIsFrontier
<1> QED
  BY <1>1, <1>2, <1>3, GapInvariant, PTL DEF Spec
=============================================================================
