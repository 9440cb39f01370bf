------------------------------ MODULE FileSink ------------------------------
(***************************************************************************)
(* The file sink (internal/filesink): writeWithRetry over a Writer that    *)
(* rotates, compresses and prunes its files, on a disk that fills up,      *)
(* faults and loses what was not synced.  A step is one call of the file   *)
(* system, so the process may stop between any two.                        *)
(*                                                                         *)
(* Abstractions.  Lines are numbered and equally long: a line is two units *)
(* of size, the part of it that a short write leaves behind is one.  A     *)
(* file is a sequence of tokens, i for the whole of line i and -i for a    *)
(* part of it; a token right behind a part is glued to it on one line of   *)
(* text, so it is no record any more.  The filter is left out, the entries *)
(* of the directory are durable in the order of the calls, and clocks do   *)
(* not go back, so a file rotated later has a later modification time.     *)
(***************************************************************************)
EXTENDS Integers, Sequences, FiniteSets

CONSTANTS
  Configs,      \* the settings considered: [fsync, compress, aged]
  MaxSize,      \* max_size, in units
  MaxBackups,   \* max_backups
  MaxLine,      \* bound: lines in the input
  MaxFull,      \* bound: times the disk fills up
  MaxFaults,    \* bound: calls that fail for another reason
  MaxStops      \* bound: restarts

\* aged: max_age is set.
Config == [fsync : BOOLEAN, compress : BOOLEAN, aged : BOOLEAN]

ASSUME FileSinkAssumption ==
  /\ Configs \subseteq Config
  /\ MaxSize \in Nat /\ MaxBackups \in Nat
  /\ MaxLine \in Nat /\ MaxFull \in Nat /\ MaxFaults \in Nat /\ MaxStops \in Nat

VARIABLES
  config,
  \* the disk
  active,     \* the active file
  synced,     \* how many of its tokens are on stable storage
  segments,   \* the rotated files, oldest first
  full,       \* no space left
  \* the Writer
  handle,     \* "open", or "closed" since rotate closed it
  size,
  old,        \* has the active file reached max_age?
  \* the loop
  pc, hand, next,
  err,        \* the class of the short write that is rolled back
  outcome,
  \* history
  acked,      \* the lines counted as written
  pruned,     \* those prune has removed a copy of
  cut,        \* has a process started on a file with a part of a line?
  fulls, faults, stops

files   == <<active, synced, segments>>
writer  == <<handle, size, old>>
loop    == <<pc, hand, next, err, outcome>>
history == <<acked, pruned, cut>>
bounds  == <<fulls, faults, stops>>
vars == <<config, files, full, writer, loop, history, bounds>>

Lines   == 1 .. MaxLine
Tokens  == {-i : i \in Lines} \cup Lines
NoLine  == 0
Segment == [tokens : Seq(Tokens), gz : BOOLEAN]

\* The length of a file, and what os.Truncate leaves of it.
Length(f) == 2 * Len(f) - Cardinality({k \in DOMAIN f : f[k] < 0})
Truncate(f, n) ==
  SubSeq(f, 1, CHOOSE k \in 0 .. Len(f) : Length(SubSeq(f, 1, k)) = n)

HasPart(f) == \E k \in DOMAIN f : f[k] < 0
LinesOf(f) == {i \in Lines : \E k \in DOMAIN f : f[k] = i}

Init ==
  /\ config \in Configs
  /\ active = <<>> /\ synced = 0 /\ segments = <<>> /\ full = FALSE
  /\ handle = "open" /\ size = 0 /\ old = FALSE
  /\ pc = "idle" /\ hand = NoLine /\ next = 1 /\ err = "none" /\ outcome = "none"
  /\ acked = {} /\ pruned = {} /\ cut = FALSE
  /\ fulls = 0 /\ faults = 0 /\ stops = 0
-----------------------------------------------------------------------------
(* The loop. *)

Goto(label) == pc' = label /\ UNCHANGED <<hand, next, err, outcome, cut>>

\* Run returns and the file is closed as it is.
End(how) ==
  /\ pc' = "down" /\ outcome' = how
  /\ hand' = NoLine /\ err' = "none"
  /\ UNCHANGED <<next, cut>>

\* A call fails: a full disk is retried, anything else ends the sink.
Retry == full /\ Goto("backoff") /\ UNCHANGED faults
Fault == faults < MaxFaults /\ faults' = faults + 1
Fail  == Fault /\ End("failed")

Take ==
  /\ pc = "idle" /\ next <= MaxLine
  /\ hand' = next /\ next' = next + 1 /\ pc' = "write"
  /\ UNCHANGED <<config, files, full, writer, err, outcome, history, bounds>>

\* The input ends, or a signal stops the loop.
Stop ==
  /\ \/ pc = "idle" /\ End(IF next > MaxLine THEN "eof" ELSE "clean")
     \/ pc \in {"write", "backoff"} /\ End("clean")
  /\ UNCHANGED <<config, files, full, writer, acked, pruned, bounds>>

ShouldRotate ==
  /\ size # 0
  /\ \/ MaxSize > 0 /\ size + 2 > MaxSize
     \/ old

Write ==
  /\ pc = "write"
  /\ Goto(IF ShouldRotate THEN "close" ELSE "append")
  /\ UNCHANGED <<config, files, full, writer, acked, pruned, bounds>>

BackedOff ==
  /\ pc = "backoff"
  /\ Goto("write")
  /\ UNCHANGED <<config, files, full, writer, acked, pruned, bounds>>
-----------------------------------------------------------------------------
(* rotate *)

CloseFile ==
  /\ pc = "close"
  /\ handle' = "closed"
  /\ \/ handle = "open" /\ Goto("rename") /\ UNCHANGED faults
     \/ handle = "open" /\ (Retry \/ Fail)
     \/ handle = "closed" /\ End("failed") /\ UNCHANGED faults
  /\ UNCHANGED <<config, files, full, size, old, acked, pruned, fulls, stops>>

Rename ==
  /\ pc = "rename"
  /\ \/ /\ segments' = Append(segments, [tokens |-> active, gz |-> FALSE])
        /\ active' = <<>> /\ synced' = 0
        /\ Goto(IF config.compress THEN "compress" ELSE "reopen")
        /\ UNCHANGED faults
     \/ (Retry \/ Fail) /\ UNCHANGED files
  /\ UNCHANGED <<config, full, writer, acked, pruned, fulls, stops>>

\* compressFile up to the rename of its copy, which is on stable storage.  A
\* failure leaves the segment as it is.
Compress ==
  /\ pc = "compress"
  /\ \/ /\ segments' = Append(segments, [segments[Len(segments)] EXCEPT !.gz = TRUE])
        /\ Goto("unlink") /\ UNCHANGED faults
     \/ /\ (full /\ UNCHANGED faults) \/ Fault
        /\ Goto("reopen") /\ UNCHANGED segments
  /\ UNCHANGED <<config, active, synced, full, writer, acked, pruned, fulls, stops>>

\* Its end: the segment is removed.
Unlink ==
  /\ pc = "unlink"
  /\ Goto("reopen")
  /\ \/ /\ segments' = SubSeq(segments, 1, Len(segments) - 2)
                         \o <<segments[Len(segments)]>>
        /\ UNCHANGED faults
     \/ Fault /\ UNCHANGED segments
  /\ UNCHANGED <<config, active, synced, full, writer, acked, pruned, fulls, stops>>

\* Mutated form of OpenFile: the size of an existing file is not looked up.
OpenFile_NoStat == handle' = "open" /\ size' = 0 /\ old' = FALSE

OpenFile == handle' = "open" /\ size' = Length(active) /\ old' = FALSE

Reopen ==
  /\ pc = "reopen"
  /\ \/ OpenFile /\ Goto("prune") /\ UNCHANGED faults
     \/ (Retry \/ Fail) /\ UNCHANGED writer
  /\ UNCHANGED <<config, files, full, acked, pruned, fulls, stops>>

\* Mutated form of Surplus: the segments are sorted newest first.
Surplus_Newest ==
  IF MaxBackups = 0 THEN {} ELSE {k \in DOMAIN segments : k > MaxBackups}

\* What prune removes: the oldest beyond MaxBackups.
Surplus ==
  IF MaxBackups = 0 THEN {} ELSE 1 .. Len(segments) - MaxBackups

Remove(gone) ==
  LET Left == {k \in DOMAIN segments : k \notin gone}
      Nth(n) == CHOOSE k \in Left : Cardinality({m \in Left : m <= k}) = n
  IN /\ segments' = [n \in 1 .. Cardinality(Left) |-> segments[Nth(n)]]
     /\ pruned' = pruned \cup UNION {LinesOf(segments[k].tokens) : k \in gone}

Prune ==
  /\ pc = "prune"
  /\ Goto("append")
  /\ \/ Remove(Surplus) /\ UNCHANGED faults
     \/ Fault /\ \E gone \in SUBSET Surplus : Remove(gone)
  /\ UNCHANGED <<config, active, synced, full, writer, acked, fulls, stops>>
-----------------------------------------------------------------------------
(* Writing a line. *)

Acknowledge ==
  /\ acked' = acked \cup {hand}
  /\ pc' = "idle" /\ hand' = NoLine
  /\ UNCHANGED <<next, err, outcome, cut, faults>>

Whole ==
  /\ ~full
  /\ active' = Append(active, hand) /\ size' = size + 2
  /\ IF config.fsync THEN Goto("sync") /\ UNCHANGED <<acked, faults>> ELSE Acknowledge

Nothing ==
  /\ Retry \/ Fail
  /\ UNCHANGED <<active, size, acked>>

\* Mutated form of Part: the part stays where it is and the line is retried.
Part_Kept ==
  /\ active' = Append(active, -hand)
  /\ full /\ Goto("backoff") /\ UNCHANGED faults
  /\ UNCHANGED <<size, acked>>

Part ==
  /\ active' = Append(active, -hand)
  /\ \/ full /\ err' = "transient" /\ UNCHANGED faults
     \/ Fault /\ err' = "permanent"
  /\ pc' = "rollback"
  /\ UNCHANGED <<size, acked, hand, next, outcome, cut>>

AppendLine ==
  /\ pc = "append" /\ handle = "open"
  /\ Whole \/ Nothing \/ Part
  /\ UNCHANGED <<config, synced, segments, full, handle, old, pruned, fulls, stops>>

Rollback ==
  /\ pc = "rollback"
  /\ \/ /\ active' = Truncate(active, size)
        /\ \/ err = "transient" /\ pc' = "backoff" /\ err' = "none"
              /\ UNCHANGED <<hand, next, outcome, cut>>
           \/ err = "permanent" /\ End("failed")
        /\ UNCHANGED faults
     \/ UNCHANGED active /\ Fail
  /\ UNCHANGED <<config, synced, segments, full, writer, acked, pruned, fulls, stops>>

Sync ==
  /\ pc = "sync"
  /\ \/ synced' = Len(active) /\ Acknowledge
     \/ (Retry \/ Fail) /\ UNCHANGED <<synced, acked>>
  /\ UNCHANGED <<config, active, segments, full, writer, pruned, fulls, stops>>
-----------------------------------------------------------------------------
(* The machine. *)

Age ==
  /\ config.aged /\ ~old /\ pc # "down" /\ old' = TRUE
  /\ UNCHANGED <<config, files, full, handle, size, loop, history, bounds>>

FillUp ==
  /\ ~full /\ fulls < MaxFull
  /\ full' = TRUE /\ fulls' = fulls + 1
  /\ UNCHANGED <<config, files, writer, loop, history, faults, stops>>

FreeUp ==
  /\ full /\ full' = FALSE
  /\ UNCHANGED <<config, files, writer, loop, history, bounds>>

\* The process is killed, perhaps in the middle of pruning.
Crash ==
  /\ pc # "down"
  /\ IF pc = "prune" THEN \E k \in 0 .. Cardinality(Surplus) : Remove(1 .. k)
     ELSE UNCHANGED <<segments, pruned>>
  /\ UNCHANGED <<active, synced>>
  /\ End("crash")
  /\ UNCHANGED <<config, full, writer, acked, bounds>>

\* The machine stops: of what was not synced some prefix is left.
PowerLoss ==
  /\ pc # "down" /\ config.fsync
  /\ \E k \in synced .. Len(active) :
       \/ active' = SubSeq(active, 1, k)
       \/ /\ k < Len(active) /\ active[k + 1] > 0
          /\ active' = Append(SubSeq(active, 1, k), -active[k + 1])
  /\ End("crash")
  /\ UNCHANGED <<config, synced, segments, full, writer, acked, pruned, bounds>>

\* NewWriter appends to the file it finds.  The input goes on, or is replayed.
Restart ==
  /\ pc = "down" /\ stops < MaxStops /\ stops' = stops + 1
  /\ OpenFile /\ synced' = Len(active) /\ cut' = (cut \/ HasPart(active))
  /\ pc' = "idle" /\ outcome' = "none" /\ next' \in 1 .. next
  /\ UNCHANGED <<config, active, segments, full, hand, err, acked, pruned, fulls, faults>>

Rotate == CloseFile \/ Rename \/ Compress \/ Unlink \/ Reopen \/ Prune

Next ==
  \/ Take \/ Stop \/ Write \/ Rotate \/ AppendLine \/ Rollback \/ Sync \/ BackedOff
  \/ Age \/ FillUp \/ FreeUp \/ Crash \/ PowerLoss \/ Restart

Spec == Init /\ [][Next]_vars
-----------------------------------------------------------------------------
\* Whenever a line is about to be written the Writer knows the true size, on
\* which rotation and the rollback of a short write rest.
SizeIsExact ==
  (handle = "open" /\ pc \in {"idle", "write", "append", "sync", "backoff"})
     => size = Length(active)

\* Types, and the Writer's size.
TypeOK ==
  /\ SizeIsExact
  /\ config \in Configs
  /\ active \in Seq(Tokens) /\ synced \in 0 .. Len(active)
  /\ segments \in Seq(Segment) /\ full \in BOOLEAN
  /\ handle \in {"open", "closed"} /\ size \in Nat /\ old \in BOOLEAN
  /\ pc \in {"idle", "write", "close", "rename", "compress", "unlink", "reopen", "prune",
             "append", "rollback", "sync", "backoff", "down"}
  /\ hand \in Lines \cup {NoLine} /\ next \in 1 .. MaxLine + 1
  /\ err \in {"none", "transient", "permanent"}
  /\ outcome \in {"none", "clean", "eof", "failed", "crash"}
  /\ acked \subseteq Lines /\ pruned \subseteq Lines /\ cut \in BOOLEAN
  /\ fulls \in 0 .. MaxFull /\ faults \in 0 .. MaxFaults /\ stops \in 0 .. MaxStops

Files == {active} \cup {segments[k].tokens : k \in DOMAIN segments}

Intact(i) == \E f \in Files : \E k \in DOMAIN f : f[k] = i /\ (k = 1 \/ f[k - 1] > 0)
Glued(i)  == \E f \in Files : \E k \in DOMAIN f \ {1} : f[k] = i /\ f[k - 1] < 0

\* An acknowledged line stays in the files, as a line of its own, until prune
\* removes it: rotation, compression, rollbacks of short writes, failures of
\* any call, crashes and, with fsync, power losses do not take it away.  Only
\* a process that ended with a part of a line in the file may spoil the line
\* its successor appends to that part.
AckedKept ==
  \A i \in acked : Intact(i) \/ i \in pruned \/ (cut /\ Glued(i))

\* Retention takes the oldest: in a process that met no fault, no line is gone
\* while an older one is kept.
RetainedAreNewest ==
  (stops = 0 /\ faults = 0) =>
    \A i, j \in acked : (j < i /\ j \in UNION {LinesOf(f) : f \in Files}) => Intact(i)

=============================================================================
