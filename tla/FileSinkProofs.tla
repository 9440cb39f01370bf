--------------------------- MODULE FileSinkProofs ---------------------------
(***************************************************************************)
(* What the files of the file sink keep, for every size of a file, number  *)
(* of backups, input and sequence of failures, crashes and power losses.   *)
(***************************************************************************)
EXTENDS FileSink, FiniteSetTheorems, SequenceTheorems, TLAPS

USE FileSinkAssumption DEF NoLine

Rotating == {"rename", "compress", "unlink", "reopen"}

(***************************************************************************)
(* Types, and what the size says: it is that of the active file while the  *)
(* file is open, without the part of a line that is to be rolled back.     *)
(***************************************************************************)
LoopType ==
  /\ config \in Configs /\ full \in BOOLEAN
  /\ pc \in {"idle", "write", "close", "prune", "append", "rollback", "sync", "backoff", "down"}
            \cup Rotating
  /\ hand \in Lines \cup {NoLine} /\ (pc \notin {"idle", "down"} => hand \in Lines)
  /\ next \in 1 .. MaxLine + 1
  /\ err \in {"none", "transient", "permanent"}
  /\ outcome \in {"none", "clean", "eof", "failed", "crash"}
  /\ acked \subseteq Lines /\ cut \in BOOLEAN
  /\ fulls \in 0 .. MaxFull /\ faults \in 0 .. MaxFaults /\ stops \in 0 .. MaxStops
ActiveInv ==
  /\ active \in Seq(Tokens) /\ synced \in 0 .. Len(active)
  /\ handle \in {"open", "closed"} /\ size \in Nat /\ old \in BOOLEAN
  /\ pc \in Rotating => handle = "closed"
  /\ handle = "open" /\ pc \notin {"rollback", "down"} => size = Length(active)
  /\ pc = "rollback" => \E f \in Seq(Tokens) :
       active = Append(f, -hand) /\ size = Length(f) /\ synced <= Len(f)
SegmentInv ==
  /\ segments \in Seq(Segment) /\ pruned \subseteq Lines
  /\ pc \in {"compress", "unlink"} => Len(segments) >= 1
  /\ pc = "unlink" => /\ Len(segments) >= 2
                      /\ segments[Len(segments) - 1].tokens = segments[Len(segments)].tokens

(***************************************************************************)
(* An acknowledged line is below the floor of the active file, which no    *)
(* power loss removes, or in a segment, or pruned; and a part of a line    *)
(* that is not being rolled back is one that a process has started on.     *)
(***************************************************************************)
Floor == IF config.fsync THEN synced ELSE Len(active)
Place(f, k, i) == f[k] = i /\ (k = 1 \/ f[k - 1] > 0 \/ cut)
InActive(i)  == \E k \in 1 .. Floor : Place(active, k, i)
InSegment(i) == \E s \in DOMAIN segments : \E k \in DOMAIN segments[s].tokens :
                   Place(segments[s].tokens, k, i)
KeptInv ==
  /\ \A i \in acked : InActive(i) \/ InSegment(i) \/ i \in pruned
  /\ \A k \in DOMAIN active : active[k] < 0 =>
       cut \/ pc = "down" \/ (pc = "rollback" /\ k = Len(active))
  /\ pc = "sync" => Len(active) >= 1 /\ active[Len(active)] = hand

(***************************************************************************)
(* In a process that met no fault the files hold the lines in the order of *)
(* the input, and everything that was pruned is older; a compressed copy   *)
(* stands beside its original until Unlink.                                *)
(***************************************************************************)
Ordered(A, B) == \A a \in A : \A b \in B : a <= b
SegmentLines(s) == LinesOf(segments[s].tokens)
Copy(t) == pc \in {"unlink", "down"} /\ t = Len(segments)
InOrder ==
  /\ ~cut /\ (hand # NoLine => next = hand + 1)
  /\ \A a \in LinesOf(active) : a < next
  /\ \A s \in DOMAIN segments :
       /\ \A a \in SegmentLines(s) : a < next
       /\ Ordered(SegmentLines(s), LinesOf(active))
       /\ Ordered(pruned, SegmentLines(s))
       /\ \A t \in DOMAIN segments : s < t /\ ~Copy(t) => Ordered(SegmentLines(s), SegmentLines(t))
  /\ \A p \in pruned : p < next
  /\ Ordered(pruned, LinesOf(active))
OrderInv == stops = 0 /\ faults = 0 => InOrder
-----------------------------------------------------------------------------
(* The length of a file.                                                   *)
Parts(f) == {k \in DOMAIN f : f[k] < 0}

LEMMA PartsFinite ==
  ASSUME NEW f \in Seq(Tokens)
  PROVE  /\ DOMAIN f = 1 .. Len(f) /\ Len(f) \in Nat
         /\ IsFiniteSet(Parts(f)) /\ Cardinality(Parts(f)) \in Nat
         /\ Cardinality(Parts(f)) <= Len(f)
         /\ Length(f) = 2 * Len(f) - Cardinality(Parts(f)) /\ Length(f) \in Nat
<1>1. DOMAIN f = 1 .. Len(f) /\ Len(f) \in Nat
  OBVIOUS
<1>2. IsFiniteSet(1 .. Len(f)) /\ Cardinality(1 .. Len(f)) = Len(f)
  BY <1>1, FS_Interval
<1>3. Parts(f) \in SUBSET (1 .. Len(f))
  BY <1>1 DEF Parts
<1>4. IsFiniteSet(Parts(f)) /\ Cardinality(Parts(f)) <= Len(f)
  BY <1>2, <1>3, FS_Subset
<1>5. Cardinality(Parts(f)) \in Nat
  BY <1>4, FS_CardinalityType
<1>6. Length(f) = 2 * Len(f) - Cardinality(Parts(f))
  BY DEF Length, Parts
<1> QED BY <1>1, <1>4, <1>5, <1>6

LEMMA LengthEmpty == Length(<<>>) = 0
<1>1. Parts(<<>>) = {} /\ Len(<<>>) = 0
  BY DEF Parts
<1>2. Length(<<>>) = 2 * Len(<<>>) - Cardinality(Parts(<<>>))
  BY DEF Length, Parts
<1> QED BY <1>1, <1>2, FS_EmptySet

LEMMA LengthAppend ==
  ASSUME NEW f \in Seq(Tokens), NEW t \in Tokens
  PROVE  Length(Append(f, t)) = Length(f) + IF t < 0 THEN 1 ELSE 2
<1> DEFINE g == Append(f, t)
           n == Len(f)
<1>1. /\ g \in Seq(Tokens) /\ Len(g) = n + 1 /\ n \in Nat
      /\ DOMAIN f = 1 .. n /\ DOMAIN g = 1 .. n + 1
      /\ \A k \in 1 .. n : g[k] = f[k]
      /\ g[n + 1] = t
  OBVIOUS
<1> HIDE DEF g
<1>2. Parts(g) = IF t < 0 THEN Parts(f) \cup {n + 1} ELSE Parts(f)
  BY <1>1 DEF Parts
<1>3. n + 1 \notin Parts(f)
  BY <1>1 DEF Parts
<1>4. Cardinality(Parts(g)) = Cardinality(Parts(f)) + IF t < 0 THEN 1 ELSE 0
  <2>1. IsFiniteSet(Parts(f)) /\ Cardinality(Parts(f)) \in Nat
    BY PartsFinite
  <2>2. CASE t < 0
    <3>1. Cardinality(Parts(f) \cup {n + 1}) = Cardinality(Parts(f)) + 1
      BY <1>3, <2>1, FS_AddElement
    <3> QED BY <1>2, <2>2, <3>1
  <2>3. CASE ~(t < 0)
    BY <1>2, <2>1, <2>3
  <2> QED BY <2>2, <2>3
<1>5. Length(g) = Length(f) + IF t < 0 THEN 1 ELSE 2
  BY <1>1, <1>4, PartsFinite
<1> QED BY <1>5 DEF g

(* A proper prefix is shorter.                                             *)
LEMMA LengthPrefix ==
  ASSUME NEW f \in Seq(Tokens), NEW p \in Seq(Tokens), Len(p) < Len(f),
         \A k \in 1 .. Len(p) : p[k] = f[k]
  PROVE  Length(p) < Length(f)
<1> DEFINE n == Len(f)
           m == Len(p)
           rest == (m + 1) .. n
<1>1. n \in Nat /\ m \in Nat /\ DOMAIN f = 1 .. n /\ DOMAIN p = 1 .. m
  BY PartsFinite
<1>2. IsFiniteSet(rest) /\ Cardinality(rest) = n - m
  BY <1>1, FS_Interval
<1>3. Parts(f) \subseteq Parts(p) \cup rest
  BY <1>1 DEF Parts
<1>4. IsFiniteSet(Parts(p) \cup rest)
      /\ Cardinality(Parts(p) \cup rest) = Cardinality(Parts(p)) + (n - m) - Cardinality(Parts(p) \cap rest)
  BY <1>2, PartsFinite, FS_Union
<1>5. IsFiniteSet(Parts(p) \cap rest)
  BY PartsFinite, FS_Intersection
<1>6. Cardinality(Parts(p) \cap rest) \in Nat
  BY <1>5, FS_CardinalityType
<1>7. Cardinality(Parts(f)) <= Cardinality(Parts(p) \cup rest)
  BY <1>3, <1>4, FS_Subset
<1> HIDE DEF n, m, rest
<1>8. Cardinality(Parts(f)) <= Cardinality(Parts(p)) + (n - m)
  BY <1>1, <1>4, <1>6, <1>7, PartsFinite
<1>9. Length(f) = 2 * n - Cardinality(Parts(f)) /\ Length(p) = 2 * m - Cardinality(Parts(p))
      /\ Cardinality(Parts(f)) \in Nat /\ Cardinality(Parts(p)) \in Nat /\ m < n
  BY PartsFinite DEF n, m
<1> QED BY <1>1, <1>8, <1>9

(* Rolling back to the length before a token was added takes it away.      *)
LEMMA TruncateUndoes ==
  ASSUME NEW f \in Seq(Tokens), NEW t \in Tokens
  PROVE  Truncate(Append(f, t), Length(f)) = f
<1> DEFINE g == Append(f, t)
           n == Len(f)
<1>1. g \in Seq(Tokens) /\ Len(g) = n + 1 /\ n \in Nat /\ \A k \in 1 .. n : g[k] = f[k]
  OBVIOUS
<1> HIDE DEF g
<1>2. ASSUME NEW k \in 0 .. n + 1
      PROVE  /\ SubSeq(g, 1, k) \in Seq(Tokens) /\ Len(SubSeq(g, 1, k)) = k
             /\ \A x \in 1 .. k : SubSeq(g, 1, k)[x] = g[x]
  <2>1. \A x \in 1 .. k : g[x] \in Tokens
    BY <1>1
  <2> QED BY <1>1, <2>1, SubSeqProperties
<1>3. SubSeq(g, 1, n) = f
  BY <1>1, <1>2, SeqEqual
<1>4. ASSUME NEW k \in 0 .. n + 1, Length(SubSeq(g, 1, k)) = Length(f)
      PROVE  k = n
  <2> DEFINE h == SubSeq(g, 1, k)
  <2>1. h \in Seq(Tokens) /\ Len(h) = k /\ \A x \in 1 .. k : h[x] = g[x]
    BY <1>2
  <2>2. Length(h) = Length(f)
    BY <1>4
  <2> HIDE DEF h, n
  <2>3. Length(f) \in Int
    BY PartsFinite
  <2>4. CASE k < n
    <3>1. Len(h) < Len(f) /\ \A x \in 1 .. Len(h) : h[x] = f[x]
      BY <1>1, <2>1, <2>4 DEF n
    <3>2. Length(h) < Length(f)
      BY <2>1, <3>1, LengthPrefix
    <3> QED BY <2>2, <2>3, <3>2
  <2>5. CASE k = n + 1
    <3>1. Len(f) < Len(h) /\ \A x \in 1 .. Len(f) : f[x] = h[x]
      BY <1>1, <2>1, <2>5 DEF n
    <3>2. Length(f) < Length(h)
      BY <2>1, <3>1, LengthPrefix
    <3> QED BY <2>2, <2>3, <3>2
  <2> QED BY <1>1, <2>4, <2>5
<1>5. (CHOOSE k \in 0 .. Len(g) : Length(SubSeq(g, 1, k)) = Length(f)) = n
  <2>1. n \in 0 .. Len(g) /\ Length(SubSeq(g, 1, n)) = Length(f)
    <3>1. n \in 0 .. Len(g)
      BY <1>1
    <3> QED BY <1>3, <3>1
  <2> DEFINE P(k) == k \in 0 .. Len(g) /\ Length(SubSeq(g, 1, k)) = Length(f)
  <2>2. P(n) /\ \A k : P(k) => k = n
    BY <1>1, <1>4, <2>1
  <2> HIDE DEF P
  <2>3. (CHOOSE k : P(k)) = n
    BY <2>2
  <2>4. (CHOOSE k : k \in 0 .. Len(g) /\ Length(SubSeq(g, 1, k)) = Length(f)) = n
    BY <2>3 DEF P
  <2> QED BY <2>4
<1> QED BY <1>3, <1>5 DEF Truncate, g
-----------------------------------------------------------------------------
(* The segments that are left after a removal.                             *)
Rank(S, k) == Cardinality({m \in S : m <= k})

(* The rank counts a finite set of integers through, in order.             *)
LEMMA RankOrder ==
  ASSUME NEW S, S \subseteq Int, IsFiniteSet(S)
  PROVE  /\ Cardinality(S) \in Nat
         /\ \A k \in S : Rank(S, k) \in 1 .. Cardinality(S)
         /\ \A j, k \in S : j < k => Rank(S, j) < Rank(S, k)
<1> DEFINE Upto(k) == {m \in S : m <= k}
<1>1. ASSUME NEW k \in S
      PROVE  /\ IsFiniteSet(Upto(k)) /\ Cardinality(Upto(k)) \in Nat
             /\ Cardinality(Upto(k)) <= Cardinality(S)
             /\ Cardinality(Upto(k)) # 0
  <2>1. Upto(k) \in SUBSET S /\ k \in Upto(k)
    OBVIOUS
  <2> HIDE DEF Upto
  <2>2. IsFiniteSet(Upto(k)) /\ Cardinality(Upto(k)) <= Cardinality(S)
    BY <2>1, FS_Subset
  <2> QED BY <2>1, <2>2, FS_CardinalityType, FS_EmptySet
<1>2. ASSUME NEW j \in S, NEW k \in S, j < k
      PROVE  Cardinality(Upto(j)) < Cardinality(Upto(k))
  <2>1. Upto(j) \subseteq Upto(k) /\ k \in Upto(k) /\ k \notin Upto(j)
    <3>1. j \in Int /\ k \in Int /\ k <= k /\ ~(k <= j)
      BY <1>2
    <3>2. \A m \in S : m <= j => m <= k
      BY <1>2, <3>1
    <3> QED BY <3>1, <3>2
  <2> HIDE DEF Upto
  <2>2. Cardinality(Upto(j)) <= Cardinality(Upto(k)) /\ Cardinality(Upto(j)) # Cardinality(Upto(k))
    BY <1>1, <2>1, FS_Subset
  <2> QED BY <1>1, <2>2
<1>3. Cardinality(S) \in Nat
  BY FS_CardinalityType
<1>4. \A k \in S : Rank(S, k) = Cardinality(Upto(k))
  BY DEF Rank
<1> HIDE DEF Upto
<1> QED BY <1>1, <1>2, <1>3, <1>4

LEMMA RankOnto ==
  ASSUME NEW S, S \subseteq Int, IsFiniteSet(S), NEW n \in 1 .. Cardinality(S)
  PROVE  \E k \in S : Rank(S, k) = n
<1> DEFINE T == 1 .. Cardinality(S)
           f == [k \in S |-> Rank(S, k)]
<1>1. Cardinality(S) \in Nat
  BY RankOrder
<1>2. IsFiniteSet(T) /\ Cardinality(T) = Cardinality(S)
  BY <1>1, FS_Interval
<1>3. f \in [S -> T]
  BY RankOrder
<1>4. \A j, k \in S : f[j] = f[k] => j = k
  <2> SUFFICES ASSUME NEW j \in S, NEW k \in S, f[j] = f[k], j # k
               PROVE  FALSE
    OBVIOUS
  <2>1. f[j] \in Int /\ f[k] \in Int
    BY <1>3
  <2>2. j < k \/ k < j
    OBVIOUS
  <2>3. f[j] < f[k] \/ f[k] < f[j]
    BY <2>2, RankOrder
  <2> QED BY <2>1, <2>3
<1>5. f \in Injection(S, T)
  BY <1>3, <1>4 DEF Injection, IsInjective
<1>6. f \in Surjection(S, T)
  BY <1>2, <1>5, FS_Injection
<1> QED BY <1>6 DEF Surjection

(* A removal keeps the other segments, in their order.                     *)
LEMMA RemoveKeeps ==
  ASSUME NEW gone, Remove(gone), segments \in Seq(Segment)
  PROVE  /\ segments' \in Seq(Segment)
         /\ \A k \in DOMAIN segments \ gone : \E n \in DOMAIN segments' : segments'[n] = segments[k]
         /\ \A m, n \in DOMAIN segments' : m < n =>
              \E j, k \in DOMAIN segments \ gone :
                j < k /\ segments'[m] = segments[j] /\ segments'[n] = segments[k]
         /\ \A n \in DOMAIN segments' :
              \E k \in DOMAIN segments \ gone : segments'[n] = segments[k]
<1> DEFINE Left == {k \in DOMAIN segments : k \notin gone}
           Nth(n) == CHOOSE k \in Left : Cardinality({m \in Left : m <= k}) = n
           c == Cardinality(Left)
<1>1. segments' = [n \in 1 .. c |-> segments[Nth(n)]]
  BY DEF Remove
<1>2. DOMAIN segments = 1 .. Len(segments) /\ Len(segments) \in Nat
  OBVIOUS
<1>3. Left = DOMAIN segments \ gone /\ Left \subseteq Int
  BY <1>2
<1>4. IsFiniteSet(Left)
  <2>1. IsFiniteSet(1 .. Len(segments))
    BY <1>2, FS_Interval
  <2>2. Left \in SUBSET (1 .. Len(segments))
    BY <1>2, <1>3
  <2> HIDE DEF Left
  <2> QED BY <2>1, <2>2, FS_Subset
<1>5. \A k \in Left : Rank(Left, k) = Cardinality({m \in Left : m <= k})
  BY DEF Rank
<1>6. \A n \in 1 .. c : Nth(n) \in Left /\ Rank(Left, Nth(n)) = n
  <2> SUFFICES ASSUME NEW n \in 1 .. c
               PROVE  Nth(n) \in Left /\ Rank(Left, Nth(n)) = n
    OBVIOUS
  <2>1. \E k \in Left : Cardinality({m \in Left : m <= k}) = n
    BY <1>3, <1>4, <1>5, RankOnto
  <2> QED BY <1>5, <2>1
<1> HIDE DEF Left, Nth
<1>7. /\ c \in Nat
      /\ \A k \in Left : Rank(Left, k) \in 1 .. c
      /\ \A j, k \in Left : j < k => Rank(Left, j) < Rank(Left, k)
  BY <1>3, <1>4, RankOrder
<1> HIDE DEF c
<1>8. \A k \in Left : Nth(Rank(Left, k)) = k
  <2> SUFFICES ASSUME NEW k \in Left
               PROVE  Nth(Rank(Left, k)) = k
    OBVIOUS
  <2> DEFINE x == Nth(Rank(Left, k))
  <2>1. x \in Left /\ Rank(Left, x) = Rank(Left, k) /\ Rank(Left, k) \in Int
    BY <1>6, <1>7
  <2> HIDE DEF x
  <2>2. ~(x < k) /\ ~(k < x)
    BY <1>7, <2>1
  <2>3. x = k
    BY <1>3, <2>1, <2>2
  <2> QED BY <2>3 DEF x
<1>9. \A m, n \in 1 .. c : m < n => Nth(m) < Nth(n)
  <2> SUFFICES ASSUME NEW m \in 1 .. c, NEW n \in 1 .. c, m < n
               PROVE  Nth(m) < Nth(n)
    OBVIOUS
  <2>1. Nth(m) \in Left /\ Nth(n) \in Left /\ Rank(Left, Nth(m)) = m /\ Rank(Left, Nth(n)) = n
    BY <1>6
  <2>2. Nth(m) # Nth(n) /\ ~(Nth(n) < Nth(m))
    BY <1>7, <2>1
  <2> QED BY <1>3, <2>1, <2>2
<1>10. DOMAIN segments' = 1 .. c /\ \A n \in 1 .. c : segments'[n] = segments[Nth(n)]
  BY <1>1
<1>11. segments' \in Seq(Segment)
  <2>1. \A n \in 1 .. c : segments[Nth(n)] \in Segment
    BY <1>3, <1>6
  <2>2. segments' \in [1 .. c -> Segment]
    BY <1>1, <2>1
  <2> QED BY <1>7, <2>2
<1>12. \A k \in Left : \E n \in 1 .. c : segments'[n] = segments[k]
  BY <1>7, <1>8, <1>10
<1>13. \A m, n \in 1 .. c : m < n =>
         \E j, k \in Left : j < k /\ segments'[m] = segments[j] /\ segments'[n] = segments[k]
  BY <1>6, <1>9, <1>10
<1> QED BY <1>3, <1>6, <1>10, <1>11, <1>12, <1>13
-----------------------------------------------------------------------------
(* Types.                                                                  *)
USE DEF Lines, Rotating

LEMMA LoopInit == Init => LoopType
<1> SUFFICES ASSUME Init
             PROVE  LoopType
  OBVIOUS
<1>1. full \in BOOLEAN /\ cut \in BOOLEAN
  BY DEF Init
<1>2. next \in 1 .. MaxLine + 1 /\ fulls \in 0 .. MaxFull /\ faults \in 0 .. MaxFaults
      /\ stops \in 0 .. MaxStops
  BY DEF Init, FileSinkAssumption
<1> QED BY <1>1, <1>2 DEF Init, LoopType

LEMMA LoopNext == LoopType /\ [Next]_vars => LoopType'
<1> SUFFICES ASSUME LoopType, [Next]_vars
             PROVE  LoopType'
  OBVIOUS
<1> USE DEF LoopType, Goto, End, Retry, Fault, Fail, files, writer, loop, history, bounds
<1>1. CASE Take
  BY <1>1 DEF Take
<1>2. CASE Stop
  BY <1>2 DEF Stop
<1>3. CASE Write
  BY <1>3 DEF Write
<1>4. CASE CloseFile
  BY <1>4 DEF CloseFile
<1>5. CASE Rename
  BY <1>5 DEF Rename
<1>6. CASE Compress
  BY <1>6 DEF Compress
<1>7. CASE Unlink
  BY <1>7 DEF Unlink
<1>8. CASE Reopen
  BY <1>8 DEF Reopen
<1>9. CASE Prune
  BY <1>9 DEF Prune
<1>10. CASE AppendLine
  <2>1. hand \in Lines /\ pc = "append"
    BY <1>10 DEF AppendLine
  <2>2. CASE Whole
    BY <1>10, <2>1, <2>2 DEF AppendLine, Whole, Acknowledge
  <2>3. CASE Nothing
    BY <1>10, <2>1, <2>3 DEF AppendLine, Nothing
  <2>4. CASE Part
    BY <1>10, <2>1, <2>4 DEF AppendLine, Part
  <2> QED BY <1>10, <2>2, <2>3, <2>4 DEF AppendLine
<1>11. CASE Rollback
  BY <1>11 DEF Rollback
<1>12. CASE Sync
  <2>1. hand \in Lines /\ pc = "sync"
    BY <1>12 DEF Sync
  <2>2. CASE Acknowledge
    BY <1>12, <2>1, <2>2 DEF Sync, Acknowledge
  <2>3. CASE (Retry \/ Fail) /\ UNCHANGED acked
    BY <1>12, <2>1, <2>3 DEF Sync
  <2>4. Acknowledge \/ ((Retry \/ Fail) /\ UNCHANGED acked)
    BY <1>12 DEF Sync
  <2> QED BY <2>2, <2>3, <2>4
<1>13. CASE BackedOff
  BY <1>13 DEF BackedOff
<1>14. CASE Age
  BY <1>14 DEF Age
<1>15. CASE FillUp
  BY <1>15 DEF FillUp
<1>16. CASE FreeUp
  BY <1>16 DEF FreeUp
<1>17. CASE Crash
  BY <1>17 DEF Crash
<1>18. CASE PowerLoss
  BY <1>18 DEF PowerLoss
<1>19. CASE Restart
  <2>1. HasPart(active) \in BOOLEAN
    BY DEF HasPart
  <2>2. cut' \in BOOLEAN
    BY <1>19, <2>1 DEF Restart
  <2>3. next' \in 1 .. MaxLine + 1
    BY <1>19 DEF Restart
  <2> QED BY <1>19, <2>2, <2>3 DEF Restart
<1>20. CASE UNCHANGED vars
  BY <1>20 DEF vars
<1> QED
  BY <1>1, <1>2, <1>3, <1>4, <1>5, <1>6, <1>7, <1>8, <1>9, <1>10, <1>11, <1>12, <1>13, <1>14,
     <1>15, <1>16, <1>17, <1>18, <1>19, <1>20 DEF Next, Rotate


LEMMA ActiveInit == Init => ActiveInv
<1> SUFFICES ASSUME Init
             PROVE  ActiveInv
  OBVIOUS
<1>1. /\ active = <<>> /\ synced = 0 /\ size = 0 /\ handle = "open" /\ pc = "idle"
      /\ old \in BOOLEAN
  BY DEF Init
<1>2. active \in Seq(Tokens) /\ Len(active) = 0 /\ Length(active) = size
  BY <1>1, LengthEmpty
<1> QED BY <1>1, <1>2 DEF ActiveInv

LEMMA ActiveSame ==
  ASSUME ActiveInv, UNCHANGED <<active, synced, handle, size>>, old' \in BOOLEAN,
         (pc' = pc /\ hand' = hand) \/ (pc' \notin Rotating /\ pc' # "rollback" /\ pc # "rollback" /\ pc # "down")
         \/ pc' = "down" \/ (pc \in Rotating /\ pc' # "rollback")
  PROVE  ActiveInv'
BY DEF ActiveInv

LEMMA ActiveNext == LoopType /\ ActiveInv /\ [Next]_vars => ActiveInv'
<1> SUFFICES ASSUME LoopType, ActiveInv, [Next]_vars
             PROVE  ActiveInv'
  OBVIOUS
<1> USE DEF Goto, End, Retry, Fault, Fail, files, writer, loop, history, bounds
<1>a. /\ active \in Seq(Tokens) /\ Len(active) \in Nat /\ Length(active) \in Nat
      /\ synced \in 0 .. Len(active) /\ size \in Nat /\ old \in BOOLEAN
  BY PartsFinite DEF ActiveInv
<1>1. CASE Take
  BY <1>1, <1>a, ActiveSame DEF Take
<1>2. CASE Stop
  BY <1>2, <1>a, ActiveSame DEF Stop
<1>3. CASE Write
  BY <1>3, <1>a, ActiveSame DEF Write
<1>4. CASE CloseFile
  BY <1>4 DEF CloseFile, ActiveInv
<1>5. CASE Rename
  <2>1. CASE UNCHANGED files
    BY <1>5, <2>1, <1>a DEF Rename, ActiveInv
  <2>2. CASE active' = <<>> /\ synced' = 0 /\ pc' \in {"compress", "reopen"}
    BY <1>5, <2>2 DEF Rename, ActiveInv
  <2> QED BY <1>5, <2>1, <2>2 DEF Rename
<1>6. CASE Compress
  BY <1>6, <1>a, ActiveSame DEF Compress
<1>7. CASE Unlink
  BY <1>7, <1>a, ActiveSame DEF Unlink
<1>8. CASE Reopen
  BY <1>8, <1>a DEF Reopen, OpenFile, ActiveInv
<1>9. CASE Prune
  BY <1>9, <1>a, ActiveSame DEF Prune
<1>10. CASE AppendLine
  <2>1. pc = "append" /\ handle = "open" /\ hand \in Lines /\ size = Length(active)
        /\ UNCHANGED <<synced, handle, old>>
    BY <1>10 DEF AppendLine, LoopType, ActiveInv
  <2>2. hand \in Tokens /\ -hand \in Tokens /\ hand \in Nat
    BY <2>1 DEF Tokens
  <2>3. CASE Whole
    <3>1. active' = Append(active, hand) /\ size' = size + 2 /\ pc' # "rollback" /\ pc' \notin Rotating
      BY <2>3 DEF Whole, Acknowledge
    <3>2. Length(active') = size'
      BY <1>a, <2>1, <2>2, <3>1, LengthAppend
    <3>3. active' \in Seq(Tokens) /\ Len(active') = Len(active) + 1
      BY <1>a, <2>2, <3>1
    <3> QED BY <1>a, <2>1, <3>1, <3>2, <3>3 DEF ActiveInv
  <2>4. CASE Nothing
    BY <1>a, <2>1, <2>4, ActiveSame DEF Nothing
  <2>5. CASE Part
    <3>1. active' = Append(active, -hand) /\ hand' = hand /\ pc' = "rollback" /\ size' = size
      BY <2>5 DEF Part
    <3>2. active' \in Seq(Tokens) /\ Len(active') = Len(active) + 1
      BY <1>a, <2>2, <3>1
    <3>3. active' = Append(active, -hand') /\ size' = Length(active) /\ synced' <= Len(active)
      BY <1>a, <2>1, <3>1
    <3> QED BY <1>a, <2>1, <3>1, <3>2, <3>3 DEF ActiveInv
  <2> QED BY <1>10, <2>3, <2>4, <2>5 DEF AppendLine
<1>11. CASE Rollback
  <2>1. pc = "rollback" /\ hand \in Lines /\ UNCHANGED <<synced, handle, size, old>>
        /\ pc' \in {"backoff", "down"}
        /\ (active' = Truncate(active, size) \/ (active' = active /\ pc' = "down"))
    BY <1>11 DEF Rollback, LoopType
  <2>2. PICK f \in Seq(Tokens) : active = Append(f, -hand) /\ size = Length(f) /\ synced <= Len(f)
    BY <2>1 DEF ActiveInv
  <2>3. -hand \in Tokens
    BY <2>1 DEF Tokens
  <2>4. Truncate(active, size) = f
    BY <2>2, <2>3, TruncateUndoes
  <2>5. pc' \notin Rotating /\ pc' # "rollback"
    BY <2>1 DEF Rotating
  <2>6. CASE active' = Truncate(active, size)
    <3>1. active' = f /\ size' = Length(active') /\ synced' <= Len(f) /\ Len(f) \in Nat
      BY <2>1, <2>2, <2>4, <2>6
    <3>2. synced' \in 0 .. Len(active') /\ active' \in Seq(Tokens)
      BY <1>a, <2>1, <3>1
    <3> QED BY <1>a, <2>1, <2>5, <3>1, <3>2 DEF ActiveInv
  <2>7. CASE active' = active /\ pc' = "down"
    <3>1. synced' \in 0 .. Len(active') /\ active' \in Seq(Tokens)
      BY <1>a, <2>1, <2>7
    <3> QED BY <1>a, <2>1, <2>5, <2>7, <3>1 DEF ActiveInv
  <2> QED BY <2>1, <2>6, <2>7
<1>12. CASE Sync
  <2>1. pc = "sync" /\ pc' \in {"idle", "backoff", "down"} /\ synced' \in {synced, Len(active)}
        /\ UNCHANGED <<active, handle, size, old>>
    BY <1>12 DEF Sync, Acknowledge
  <2> QED BY <1>a, <2>1 DEF ActiveInv
<1>13. CASE BackedOff
  BY <1>13, <1>a, ActiveSame DEF BackedOff
<1>14. CASE Age
  BY <1>14, <1>a, ActiveSame DEF Age
<1>15. CASE FillUp
  BY <1>15, <1>a, ActiveSame DEF FillUp
<1>16. CASE FreeUp
  BY <1>16, <1>a, ActiveSame DEF FreeUp
<1>17. CASE Crash
  BY <1>17, <1>a, ActiveSame DEF Crash
<1>18. CASE PowerLoss
  <2>1. pc' = "down" /\ UNCHANGED <<synced, handle, size, old>>
    BY <1>18 DEF PowerLoss
  <2>2. PICK k \in synced .. Len(active) :
          \/ active' = SubSeq(active, 1, k)
          \/ /\ k < Len(active) /\ active[k + 1] > 0
             /\ active' = Append(SubSeq(active, 1, k), -active[k + 1])
    BY <1>18 DEF PowerLoss
  <2>3. SubSeq(active, 1, k) \in Seq(Tokens) /\ Len(SubSeq(active, 1, k)) = k
    BY <1>a, SubSeqProperties
  <2>4. active' \in Seq(Tokens) /\ Len(active') >= k
    <3>1. CASE active' = SubSeq(active, 1, k)
      BY <2>3, <3>1
    <3>2. CASE /\ k < Len(active) /\ active[k + 1] > 0
               /\ active' = Append(SubSeq(active, 1, k), -active[k + 1])
      <4>1. active[k + 1] \in Tokens
        BY <1>a, <3>2
      <4>2. -active[k + 1] \in Tokens
        BY <3>2, <4>1 DEF Tokens
      <4> QED BY <2>3, <3>2, <4>2
    <3> QED BY <2>2, <3>1, <3>2
  <2>5. synced' \in 0 .. Len(active')
    BY <1>a, <2>1, <2>4
  <2> QED BY <2>1, <2>4, <2>5 DEF ActiveInv
<1>19. CASE Restart
  <2>1. /\ handle' = "open" /\ size' = Length(active) /\ old' \in BOOLEAN
        /\ synced' = Len(active) /\ active' = active /\ pc' = "idle"
    BY <1>19 DEF Restart, OpenFile
  <2>2. synced' \in 0 .. Len(active') /\ old' \in BOOLEAN /\ size' \in Nat
    BY <1>a, <2>1
  <2>3. Length(active') = size' /\ active' \in Seq(Tokens)
    BY <1>a, <2>1
  <2>4. pc' \notin Rotating /\ pc' # "rollback" /\ handle' \in {"open", "closed"}
    BY <2>1
  <2> QED BY <2>2, <2>3, <2>4 DEF ActiveInv
<1>20. CASE UNCHANGED vars
  BY <1>20, <1>a, ActiveSame DEF vars
<1> QED
  BY <1>1, <1>2, <1>3, <1>4, <1>5, <1>6, <1>7, <1>8, <1>9, <1>10, <1>11, <1>12, <1>13, <1>14,
     <1>15, <1>16, <1>17, <1>18, <1>19, <1>20 DEF Next, Rotate
-----------------------------------------------------------------------------
(* What rotation makes of the segments.                                    *)
LEMMA RenameShape ==
  ASSUME segments \in Seq(Segment), active \in Seq(Tokens),
         segments' = Append(segments, [tokens |-> active, gz |-> FALSE])
  PROVE  /\ segments' \in Seq(Segment)
         /\ Len(segments) \in Nat /\ Len(segments') = Len(segments) + 1
         /\ \A s \in 1 .. Len(segments) : segments'[s] = segments[s]
         /\ segments'[Len(segments) + 1].tokens = active
<1> DEFINE new == [tokens |-> active, gz |-> FALSE]
<1>1. new \in Segment /\ new.tokens = active
  BY DEF Segment
<1> HIDE DEF new
<1>2. segments' = Append(segments, new)
  BY DEF new
<1> QED BY <1>1, <1>2

LEMMA CompressShape ==
  ASSUME segments \in Seq(Segment), Len(segments) >= 1,
         segments' = Append(segments, [segments[Len(segments)] EXCEPT !.gz = TRUE])
  PROVE  /\ segments' \in Seq(Segment)
         /\ Len(segments) \in Nat /\ Len(segments') = Len(segments) + 1
         /\ \A s \in 1 .. Len(segments) : segments'[s] = segments[s]
         /\ segments'[Len(segments) + 1].tokens = segments[Len(segments)].tokens
<1> DEFINE last == segments[Len(segments)]
           new == [last EXCEPT !.gz = TRUE]
<1>1. last \in Segment
  OBVIOUS
<1> HIDE DEF last
<1>2. new \in Segment /\ new.tokens = last.tokens
  BY <1>1 DEF Segment
<1> HIDE DEF new
<1>3. segments' = Append(segments, new)
  BY DEF new, last
<1> QED BY <1>2, <1>3 DEF last

LEMMA UnlinkShape ==
  ASSUME segments \in Seq(Segment), Len(segments) >= 2,
         segments' = SubSeq(segments, 1, Len(segments) - 2) \o <<segments[Len(segments)]>>
  PROVE  /\ segments' \in Seq(Segment)
         /\ Len(segments) \in Nat /\ Len(segments') = Len(segments) - 1
         /\ \A s \in 1 .. Len(segments) - 2 : segments'[s] = segments[s]
         /\ segments'[Len(segments) - 1] = segments[Len(segments)]
<1> DEFINE n == Len(segments)
           first == SubSeq(segments, 1, n - 2)
           last == <<segments[n]>>
           m == n - 2
<1>1. n \in Nat /\ n >= 2 /\ segments[n] \in Segment
  OBVIOUS
<1>2. first \in Seq(Segment) /\ Len(first) = n - 2 /\ \A s \in 1 .. n - 2 : first[s] = segments[s]
  <2>1. \A s \in 1 .. n - 2 : segments[s] \in Segment
    BY <1>1
  <2>2. m \in Nat /\ 1 \in Int /\ m \in Int
    BY <1>1
  <2> HIDE DEF m
  <2>3. \A s \in 1 .. m : segments[s] \in Segment
    BY <2>1 DEF m
  <2>4. /\ SubSeq(segments, 1, m) \in Seq(Segment)
        /\ Len(SubSeq(segments, 1, m)) = IF 1 <= m THEN m - 1 + 1 ELSE 0
        /\ \A i \in 1 .. m - 1 + 1 : SubSeq(segments, 1, m)[i] = segments[1 + i - 1]
    BY <2>2, <2>3, SubSeqProperties
  <2> HIDE DEF n
  <2>5. /\ SubSeq(segments, 1, m) \in Seq(Segment)
        /\ Len(SubSeq(segments, 1, m)) = m
        /\ \A i \in 1 .. m : SubSeq(segments, 1, m)[i] = segments[i]
    BY <2>2, <2>4
  <2> QED BY <2>5 DEF m
<1>3. last \in Seq(Segment) /\ Len(last) = 1 /\ last[1] = segments[n]
  BY <1>1
<1>4. segments' = first \o last
  OBVIOUS
<1> HIDE DEF n, first, last
<1>5. /\ first \o last \in Seq(Segment)
      /\ Len(first \o last) = Len(first) + Len(last)
      /\ \A i \in 1 .. Len(first) + Len(last) :
           (first \o last)[i] = IF i <= Len(first) THEN first[i] ELSE last[i - Len(first)]
  BY <1>2, <1>3, ConcatProperties
<1>6. /\ segments' \in Seq(Segment) /\ Len(segments') = n - 1
      /\ \A s \in 1 .. n - 2 : segments'[s] = first[s]
  <2>1. Len(first) = n - 2 /\ Len(last) = 1 /\ n \in Nat
    BY <1>1, <1>2, <1>3
  <2>2. segments' \in Seq(Segment) /\ Len(segments') = n - 1
    BY <1>4, <1>5, <2>1
  <2>3. ASSUME NEW s \in 1 .. n - 2
        PROVE  segments'[s] = first[s]
    <3>1. s \in 1 .. Len(first) + Len(last) /\ s <= Len(first)
      BY <2>1
    <3> QED BY <1>4, <1>5, <3>1
  <2> QED BY <2>2, <2>3
<1>7. segments'[n - 1] = last[1]
  <2>1. n - 1 \in 1 .. Len(first) + Len(last) /\ ~(n - 1 <= Len(first)) /\ (n - 1) - Len(first) = 1
    BY <1>1, <1>2, <1>3
  <2> QED BY <1>4, <1>5, <2>1
<1> QED BY <1>1, <1>2, <1>3, <1>6, <1>7 DEF n

LEMMA PrunedLines ==
  ASSUME NEW gone, Remove(gone), pruned \subseteq Lines
  PROVE  /\ pruned' \subseteq Lines /\ pruned \subseteq pruned'
         /\ \A k \in gone : LinesOf(segments[k].tokens) \subseteq pruned'
<1>1. \A f : LinesOf(f) \subseteq Lines
  BY DEF LinesOf
<1> QED BY <1>1 DEF Remove

LEMMA SegmentInit == Init => SegmentInv
BY DEF Init, SegmentInv

LEMMA SegmentNext == ActiveInv /\ SegmentInv /\ [Next]_vars => SegmentInv'
<1> SUFFICES ASSUME ActiveInv, SegmentInv, [Next]_vars
             PROVE  SegmentInv'
  OBVIOUS
<1> USE DEF Goto, End, Retry, Fault, Fail, files, writer, loop, history, bounds
<1>a. segments \in Seq(Segment) /\ pruned \subseteq Lines /\ active \in Seq(Tokens)
  BY DEF SegmentInv, ActiveInv
<1>b. ASSUME UNCHANGED <<segments, pruned>>, pc' \notin {"compress", "unlink"} \/ pc' = pc
      PROVE  SegmentInv'
  BY <1>b DEF SegmentInv
<1>c. ASSUME NEW gone, Remove(gone), pc' \notin {"compress", "unlink"}
      PROVE  SegmentInv'
  <2>1. segments' \in Seq(Segment) /\ pruned' \subseteq Lines
    BY <1>a, <1>c, RemoveKeeps, PrunedLines
  <2> QED BY <1>c, <2>1 DEF SegmentInv
<1>1. CASE Take
  BY <1>1, <1>b DEF Take
<1>2. CASE Stop
  BY <1>2, <1>b DEF Stop
<1>3. CASE Write
  BY <1>3, <1>b DEF Write
<1>4. CASE CloseFile
  BY <1>4, <1>b DEF CloseFile
<1>5. CASE Rename
  <2>1. CASE UNCHANGED files
    BY <1>5, <2>1, <1>b DEF Rename
  <2>2. CASE /\ segments' = Append(segments, [tokens |-> active, gz |-> FALSE])
             /\ pc' \in {"compress", "reopen"}
    <3>1. segments' \in Seq(Segment) /\ Len(segments') >= 1
      BY <1>a, <2>2, RenameShape
    <3> QED BY <1>5, <1>a, <2>2, <3>1 DEF Rename, SegmentInv
  <2> QED BY <1>5, <2>1, <2>2 DEF Rename
<1>6. CASE Compress
  <2>1. pc = "compress" /\ UNCHANGED pruned /\ Len(segments) >= 1
    BY <1>6 DEF Compress, SegmentInv
  <2>2. CASE /\ segments' = Append(segments, [segments[Len(segments)] EXCEPT !.gz = TRUE])
             /\ pc' = "unlink"
    <3>1. /\ segments' \in Seq(Segment) /\ Len(segments') = Len(segments) + 1
          /\ Len(segments) \in Nat
          /\ \A s \in 1 .. Len(segments) : segments'[s] = segments[s]
          /\ segments'[Len(segments) + 1].tokens = segments[Len(segments)].tokens
      BY <1>a, <2>1, <2>2, CompressShape
    <3>2. Len(segments') - 1 = Len(segments) /\ Len(segments') >= 2
      BY <2>1, <3>1
    <3>3. segments'[Len(segments') - 1].tokens = segments'[Len(segments')].tokens
      BY <2>1, <3>1, <3>2
    <3> QED BY <1>a, <2>1, <2>2, <3>1, <3>2, <3>3 DEF SegmentInv
  <2>3. CASE UNCHANGED segments /\ pc' = "reopen"
    BY <2>1, <2>3, <1>b
  <2> QED BY <1>6, <2>2, <2>3 DEF Compress
<1>7. CASE Unlink
  <2>1. pc = "unlink" /\ pc' = "reopen" /\ UNCHANGED pruned /\ Len(segments) >= 2
    BY <1>7 DEF Unlink, SegmentInv
  <2>2. CASE segments' = SubSeq(segments, 1, Len(segments) - 2) \o <<segments[Len(segments)]>>
    <3>1. segments' \in Seq(Segment)
      BY <1>a, <2>1, <2>2, UnlinkShape
    <3> QED BY <1>a, <2>1, <3>1 DEF SegmentInv
  <2>3. CASE UNCHANGED segments
    BY <2>1, <2>3, <1>b
  <2> QED BY <1>7, <2>2, <2>3 DEF Unlink
<1>8. CASE Reopen
  BY <1>8, <1>b DEF Reopen
<1>9. CASE Prune
  <2>1. pc' = "append" /\ \E gone \in SUBSET Surplus : Remove(gone)
    BY <1>9 DEF Prune
  <2> QED BY <2>1, <1>c
<1>10. CASE AppendLine
  BY <1>10, <1>b DEF AppendLine, Whole, Nothing, Part, Acknowledge
<1>11. CASE Rollback
  BY <1>11, <1>b DEF Rollback
<1>12. CASE Sync
  BY <1>12, <1>b DEF Sync, Acknowledge
<1>13. CASE BackedOff
  BY <1>13, <1>b DEF BackedOff
<1>14. CASE Age
  BY <1>14, <1>b DEF Age
<1>15. CASE FillUp
  BY <1>15, <1>b DEF FillUp
<1>16. CASE FreeUp
  BY <1>16, <1>b DEF FreeUp
<1>17. CASE Crash
  <2>1. pc' = "down"
    BY <1>17 DEF Crash
  <2>2. UNCHANGED <<segments, pruned>> \/ \E k \in 0 .. Cardinality(Surplus) : Remove(1 .. k)
    BY <1>17 DEF Crash
  <2> QED BY <2>1, <2>2, <1>b, <1>c
<1>18. CASE PowerLoss
  BY <1>18, <1>b DEF PowerLoss
<1>19. CASE Restart
  BY <1>19, <1>b DEF Restart
<1>20. CASE UNCHANGED vars
  BY <1>20, <1>b DEF vars
<1> QED
  BY <1>1, <1>2, <1>3, <1>4, <1>5, <1>6, <1>7, <1>8, <1>9, <1>10, <1>11, <1>12, <1>13, <1>14,
     <1>15, <1>16, <1>17, <1>18, <1>19, <1>20 DEF Next, Rotate

TypeInv == LoopType /\ ActiveInv /\ SegmentInv

LEMMA TypeInvariant == Spec => []TypeInv
<1>1. Init => TypeInv
  BY LoopInit, ActiveInit, SegmentInit DEF TypeInv
<1>2. TypeInv /\ [Next]_vars => TypeInv'
  BY LoopNext, ActiveNext, SegmentNext DEF TypeInv
<1> QED BY <1>1, <1>2, PTL DEF Spec

(***************************************************************************)
(* Whenever a line is about to be written, after rotations, rollbacks of   *)
(* short writes, failures of any call and restarts on the file that a      *)
(* crash or a power loss left, the size the Writer goes by is that of the  *)
(* file; and every variable has its type.                                  *)
(***************************************************************************)
THEOREM TypeCorrect == Spec => []TypeOK
<1>1. TypeInv => TypeOK
  <2> SUFFICES ASSUME TypeInv
               PROVE  TypeOK
    OBVIOUS
  <2>1. SizeIsExact
    BY DEF TypeInv, ActiveInv, SizeIsExact
  <2>2. LoopType /\ ActiveInv /\ SegmentInv
    BY DEF TypeInv
  <2> QED BY <2>1, <2>2 DEF TypeOK, LoopType, ActiveInv, SegmentInv
<1> QED BY <1>1, TypeInvariant, PTL
-----------------------------------------------------------------------------
(* What is acknowledged is kept.                                           *)
LEMMA FloorIs ==
  ASSUME ActiveInv
  PROVE  /\ active \in Seq(Tokens) /\ Len(active) \in Nat /\ synced \in Nat
         /\ Floor \in 0 .. Len(active) /\ synced <= Floor
         /\ \A k \in 1 .. Len(active) : active[k] \in Int /\ active[k] # 0
<1>1. active \in Seq(Tokens) /\ Len(active) \in Nat /\ synced \in 0 .. Len(active)
  BY DEF ActiveInv
<1>2. \A t \in Tokens : t \in Int /\ t # 0
  BY DEF Tokens
<1>3. \A k \in 1 .. Len(active) : active[k] \in Tokens
  BY <1>1
<1> QED BY <1>1, <1>2, <1>3 DEF Floor

LEMMA KeepActive ==
  ASSUME NEW i \in Lines, ActiveInv, InActive(i), cut => cut',
         \A k \in 1 .. Floor : active[k] > 0 => k \in 1 .. Floor' /\ active'[k] = active[k]
  PROVE  InActive(i)'
<1>1. PICK k \in 1 .. Floor : Place(active, k, i)
  BY DEF InActive
<1>2. Floor \in Int /\ active[k] = i /\ active[k] > 0
  BY <1>1, FloorIs DEF Place
<1>3. k \in 1 .. Floor' /\ active'[k] = i
  BY <1>1, <1>2
<1>4. k = 1 \/ active'[k - 1] > 0 \/ cut'
  <2>1. CASE k # 1 /\ active[k - 1] > 0
    <3>1. k - 1 \in 1 .. Floor
      BY <1>2, <2>1
    <3> QED BY <2>1, <3>1
  <2> QED BY <1>1, <2>1 DEF Place
<1> QED BY <1>3, <1>4 DEF InActive, Place

LEMMA KeepSegment ==
  ASSUME NEW i, InSegment(i), cut => cut',
         \A s \in DOMAIN segments : \E n \in DOMAIN segments' : segments'[n].tokens = segments[s].tokens
  PROVE  InSegment(i)'
BY DEF InSegment, Place

LEMMA KeptSame ==
  ASSUME KeptInv, UNCHANGED <<config, active, synced, segments, acked, pruned, cut>>,
         \/ pc' = pc /\ hand' = hand
         \/ pc' # "sync" /\ pc \notin {"rollback", "down"}
         \/ pc' = "down"
  PROVE  KeptInv'
BY DEF KeptInv, InActive, InSegment, Floor, Place

LEMMA KeptSegments ==
  ASSUME KeptInv, UNCHANGED <<config, active, synced, acked, cut>>, pruned \subseteq pruned',
         \/ pc' # "sync" /\ pc \notin {"rollback", "down"}
         \/ pc' = "down",
         \A i \in acked : InSegment(i) => InSegment(i)' \/ i \in pruned'
  PROVE  KeptInv'
<1>1. \A i \in acked : InActive(i) => InActive(i)'
  BY DEF InActive, Floor, Place
<1>2. \A i \in acked' : InActive(i)' \/ InSegment(i)' \/ i \in pruned'
  BY <1>1 DEF KeptInv
<1>3. \A k \in DOMAIN active' : active'[k] < 0 =>
        cut' \/ pc' = "down" \/ (pc' = "rollback" /\ k = Len(active'))
  BY DEF KeptInv
<1> QED BY <1>2, <1>3 DEF KeptInv

LEMMA KeptInit == Init => KeptInv
BY DEF Init, KeptInv

(* The line at the end of a file in which no part is left behind counts.   *)
LEMMA LastIsPlaced ==
  ASSUME ActiveInv, KeptInv, pc \notin {"down", "rollback"},
         NEW f \in Seq(Tokens), NEW n \in Nat, Len(f) = n, n >= 1,
         \A k \in 1 .. n - 1 : k \in 1 .. Len(active) /\ f[k] = active[k]
  PROVE  Place(f, n, f[n])
<1> SUFFICES ASSUME n # 1, ~cut
             PROVE  f[n - 1] > 0
  BY DEF Place
<1>1. n - 1 \in 1 .. Len(active) /\ f[n - 1] = active[n - 1]
  OBVIOUS
<1>2. n - 1 \in DOMAIN active /\ active[n - 1] \in Int /\ active[n - 1] # 0
  BY <1>1, FloorIs
<1>3. ~(active[n - 1] < 0)
  BY <1>2 DEF KeptInv
<1> QED BY <1>1, <1>2, <1>3

LEMMA KeptNext == TypeInv /\ KeptInv /\ [Next]_vars => KeptInv'
<1> SUFFICES ASSUME TypeInv, KeptInv, [Next]_vars
             PROVE  KeptInv'
  OBVIOUS
<1> USE DEF Goto, End, Retry, Fault, Fail, files, writer, loop, history, bounds
<1>a. ActiveInv /\ acked \subseteq Lines /\ segments \in Seq(Segment) /\ pruned \subseteq Lines
  BY DEF TypeInv, LoopType, SegmentInv
<1>b. /\ active \in Seq(Tokens) /\ Len(active) \in Nat /\ DOMAIN active = 1 .. Len(active)
      /\ Floor \in 0 .. Len(active) /\ synced \in Nat /\ synced <= Floor
      /\ \A k \in 1 .. Len(active) : active[k] \in Int /\ active[k] # 0
  BY <1>a, FloorIs
<1>1. CASE Take
  BY <1>1, KeptSame DEF Take
<1>2. CASE Stop
  BY <1>2, KeptSame DEF Stop
<1>3. CASE Write
  BY <1>3, KeptSame DEF Write
<1>4. CASE CloseFile
  BY <1>4, KeptSame DEF CloseFile
<1>5. CASE Rename
  <2>1. CASE UNCHANGED files
    BY <1>5, <2>1, KeptSame DEF Rename
  <2>2. CASE /\ segments' = Append(segments, [tokens |-> active, gz |-> FALSE])
             /\ active' = <<>> /\ pc' \in {"compress", "reopen"}
    <3>1. /\ Len(segments) \in Nat /\ Len(segments') = Len(segments) + 1
          /\ segments' \in Seq(Segment)
          /\ \A s \in 1 .. Len(segments) : segments'[s] = segments[s]
          /\ segments'[Len(segments) + 1].tokens = active
      BY <1>a, <1>b, <2>2, RenameShape
    <3>2. UNCHANGED <<acked, pruned, cut>>
      BY <1>5 DEF Rename
    <3>3. DOMAIN segments = 1 .. Len(segments) /\ DOMAIN segments' = 1 .. Len(segments) + 1
      BY <1>a, <3>1
    <3>4. ASSUME NEW i \in acked, InSegment(i)
          PROVE  InSegment(i)'
      <4>1. \A s \in DOMAIN segments : s \in DOMAIN segments' /\ segments'[s].tokens = segments[s].tokens
        BY <3>1, <3>3
      <4> QED BY <3>2, <3>4, <4>1, KeepSegment
    <3>5. ASSUME NEW i \in acked, InActive(i)
          PROVE  InSegment(i)'
      <4>1. PICK k \in 1 .. Floor : Place(active, k, i)
        BY <3>5 DEF InActive
      <4>2. k \in DOMAIN active
        BY <1>b
      <4>3. Len(segments) + 1 \in DOMAIN segments'
        BY <3>1, <3>3
      <4> DEFINE t == segments'[Len(segments) + 1].tokens
      <4>4. t[k] = i /\ (k = 1 \/ t[k - 1] > 0 \/ cut') /\ k \in DOMAIN t
        BY <3>1, <3>2, <4>1, <4>2 DEF Place
      <4> QED BY <4>3, <4>4 DEF InSegment, Place
    <3>6. \A i \in acked' : InSegment(i)' \/ i \in pruned'
      BY <3>2, <3>4, <3>5 DEF KeptInv
    <3>7. DOMAIN active' = {}
      BY <2>2
    <3> QED BY <2>2, <3>6, <3>7 DEF KeptInv
  <2> QED BY <1>5, <2>1, <2>2 DEF Rename
<1>6. CASE Compress
  <2>1. /\ pc = "compress" /\ pc' \in {"unlink", "reopen"}
        /\ UNCHANGED <<config, active, synced, acked, pruned, cut>>
        /\ Len(segments) >= 1
    BY <1>6 DEF Compress, TypeInv, SegmentInv
  <2>2. CASE segments' = Append(segments, [segments[Len(segments)] EXCEPT !.gz = TRUE])
    <3>1. /\ segments' \in Seq(Segment)
          /\ Len(segments) \in Nat /\ Len(segments') = Len(segments) + 1
          /\ \A s \in 1 .. Len(segments) : segments'[s] = segments[s]
      BY <1>a, <2>1, <2>2, CompressShape
    <3>2. \A s \in DOMAIN segments : s \in DOMAIN segments' /\ segments'[s].tokens = segments[s].tokens
      BY <1>a, <3>1
    <3>3. \A i \in acked : InSegment(i) => InSegment(i)'
      BY <2>1, <3>2, KeepSegment
    <3> QED BY <2>1, <3>3, KeptSegments
  <2>3. CASE UNCHANGED segments
    BY <2>1, <2>3, KeptSame
  <2> QED BY <1>6, <2>2, <2>3 DEF Compress
<1>7. CASE Unlink
  <2>1. /\ pc = "unlink" /\ pc' = "reopen"
        /\ UNCHANGED <<config, active, synced, acked, pruned, cut>>
        /\ Len(segments) >= 2
        /\ segments[Len(segments) - 1].tokens = segments[Len(segments)].tokens
    BY <1>7 DEF Unlink, TypeInv, SegmentInv
  <2>2. CASE segments' = SubSeq(segments, 1, Len(segments) - 2) \o <<segments[Len(segments)]>>
    <3>1. /\ segments' \in Seq(Segment)
          /\ Len(segments) \in Nat /\ Len(segments') = Len(segments) - 1
          /\ \A s \in 1 .. Len(segments) - 2 : segments'[s] = segments[s]
          /\ segments'[Len(segments) - 1] = segments[Len(segments)]
      BY <1>a, <2>1, <2>2, UnlinkShape
    <3>2. DOMAIN segments = 1 .. Len(segments) /\ DOMAIN segments' = 1 .. Len(segments) - 1
      BY <1>a, <3>1
    <3>3. ASSUME NEW s \in DOMAIN segments
          PROVE  \E n \in DOMAIN segments' : segments'[n].tokens = segments[s].tokens
      <4>1. CASE s \in 1 .. Len(segments) - 2
        <5>1. s \in DOMAIN segments'
          BY <3>1, <3>2, <4>1
        <5> QED BY <3>1, <4>1, <5>1
      <4>2. CASE s \in {Len(segments) - 1, Len(segments)}
        <5>1. Len(segments) - 1 \in DOMAIN segments'
          BY <2>1, <3>1, <3>2
        <5> QED BY <2>1, <3>1, <4>2, <5>1
      <4> QED BY <2>1, <3>1, <3>2, <4>1, <4>2
    <3>4. \A i \in acked : InSegment(i) => InSegment(i)'
      BY <2>1, <3>3, KeepSegment
    <3> QED BY <2>1, <3>4, KeptSegments
  <2>3. CASE UNCHANGED segments
    BY <2>1, <2>3, KeptSame
  <2> QED BY <1>7, <2>2, <2>3 DEF Unlink
<1>8. CASE Reopen
  BY <1>8, KeptSame DEF Reopen
<1>c. ASSUME NEW gone, Remove(gone), UNCHANGED cut, NEW i \in acked, InSegment(i)
      PROVE  InSegment(i)' \/ i \in pruned'
  <2>1. PICK s \in DOMAIN segments : \E k \in DOMAIN segments[s].tokens : Place(segments[s].tokens, k, i)
    BY <1>c DEF InSegment
  <2>2. CASE s \in gone
    <3>1. i \in LinesOf(segments[s].tokens)
      BY <1>a, <2>1 DEF LinesOf, Place
    <3> QED BY <1>a, <1>c, <2>2, <3>1, PrunedLines
  <2>3. CASE s \notin gone
    <3>1. \E n \in DOMAIN segments' : segments'[n] = segments[s]
      BY <1>a, <1>c, <2>3, RemoveKeeps
    <3> QED BY <1>c, <2>1, <3>1 DEF InSegment, Place
  <2> QED BY <2>2, <2>3
<1>9. CASE Prune
  <2>1. /\ pc = "prune" /\ pc' = "append"
        /\ UNCHANGED <<config, active, synced, acked, cut>>
    BY <1>9 DEF Prune
  <2>2. PICK gone \in SUBSET Surplus : Remove(gone)
    BY <1>9 DEF Prune
  <2>3. pruned \subseteq pruned'
    BY <1>a, <2>2, PrunedLines
  <2>4. \A i \in acked : InSegment(i) => InSegment(i)' \/ i \in pruned'
    BY <1>c, <2>1, <2>2
  <2> QED BY <2>1, <2>3, <2>4, KeptSegments
<1>10. CASE AppendLine
  <2>1. /\ pc = "append" /\ hand \in Lines /\ hand \in Int /\ hand > 0
        /\ UNCHANGED <<config, synced, segments, pruned>>
    BY <1>10 DEF AppendLine, TypeInv, LoopType
  <2>2. ASSUME NEW t \in Tokens, active' = Append(active, t), UNCHANGED cut
        PROVE  /\ active' \in Seq(Tokens) /\ Len(active') = Len(active) + 1
               /\ DOMAIN active' = 1 .. Len(active) + 1
               /\ \A k \in 1 .. Len(active) : active'[k] = active[k]
               /\ active'[Len(active) + 1] = t
               /\ \A i \in acked : InActive(i) \/ InSegment(i) \/ i \in pruned
                                     => InActive(i)' \/ InSegment(i)' \/ i \in pruned'
               /\ Place(active', Len(active) + 1, t)
    <3> DEFINE g == Append(active, t)
    <3>1. /\ g \in Seq(Tokens) /\ Len(g) = Len(active) + 1 /\ DOMAIN g = 1 .. Len(active) + 1
          /\ \A k \in 1 .. Len(active) : g[k] = active[k]
          /\ g[Len(active) + 1] = t
      BY <1>b
    <3>2. active' = g
      BY <2>2
    <3> HIDE DEF g
    <3>3. \A k \in 1 .. Floor : k \in 1 .. Floor' /\ active'[k] = active[k]
      BY <1>b, <2>1, <3>1, <3>2 DEF Floor
    <3>4. \A i \in acked : InActive(i) => InActive(i)'
      BY <1>a, <2>2, <3>3, KeepActive
    <3>5. \A i \in acked : InSegment(i) => InSegment(i)'
      BY <2>1, <2>2, KeepSegment
    <3>6. Place(g, Len(active) + 1, g[Len(active) + 1])
      <4> DEFINE n == Len(active) + 1
      <4>1. n \in Nat /\ Len(g) = n /\ n >= 1
            /\ \A k \in 1 .. n - 1 : k \in 1 .. Len(active) /\ g[k] = active[k]
        BY <1>b, <3>1
      <4> HIDE DEF n
      <4>2. Place(g, n, g[n])
        BY <1>a, <2>1, <3>1, <4>1, LastIsPlaced
      <4> QED BY <4>2 DEF n
    <3> QED BY <2>1, <3>1, <3>2, <3>4, <3>5, <3>6
  <2>3. \A k \in DOMAIN active : active[k] < 0 => cut
    BY <2>1 DEF KeptInv
  <2>4. CASE Whole
    <3>1. /\ active' = Append(active, hand) /\ UNCHANGED cut
          /\ \/ config.fsync /\ pc' = "sync" /\ hand' = hand /\ UNCHANGED acked
             \/ ~config.fsync /\ pc' = "idle" /\ acked' = acked \cup {hand}
      BY <2>4 DEF Whole, Acknowledge
    <3>2. hand \in Tokens
      BY <2>1 DEF Tokens
    <3>3. /\ active' \in Seq(Tokens) /\ Len(active') = Len(active) + 1
          /\ DOMAIN active' = 1 .. Len(active) + 1
          /\ \A k \in 1 .. Len(active) : active'[k] = active[k]
          /\ active'[Len(active) + 1] = hand
          /\ \A i \in acked : InActive(i) \/ InSegment(i) \/ i \in pruned
                                => InActive(i)' \/ InSegment(i)' \/ i \in pruned'
      BY <2>2, <3>1, <3>2
    <3>4. Place(active', Len(active) + 1, hand)
      BY <2>2, <3>1, <3>2
    <3>5. \A i \in acked : InActive(i)' \/ InSegment(i)' \/ i \in pruned'
      BY <3>3 DEF KeptInv
    <3>6. \A k \in DOMAIN active' : active'[k] < 0 => cut'
      BY <1>b, <2>1, <2>3, <3>1, <3>3
    <3>7. CASE config.fsync
      BY <1>b, <3>1, <3>3, <3>5, <3>6, <3>7 DEF KeptInv
    <3>8. CASE ~config.fsync
      <4>1. Floor' = Len(active) + 1 /\ Len(active) + 1 \in 1 .. Floor'
        BY <1>b, <2>1, <3>3, <3>8 DEF Floor
      <4>2. active'[Len(active) + 1] = hand
            /\ (Len(active) + 1 = 1 \/ active'[Len(active) + 1 - 1] > 0 \/ cut')
        BY <3>1, <3>4 DEF Place
      <4>3. PICK h : h = hand
        OBVIOUS
      <4>4. InActive(h)'
        BY <4>1, <4>2, <4>3 DEF InActive, Place
      <4>5. acked' = acked \cup {h} /\ pc' = "idle"
        BY <3>1, <3>8, <4>3
      <4> QED BY <3>5, <3>6, <4>4, <4>5 DEF KeptInv
    <3> QED BY <3>7, <3>8
  <2>5. CASE Nothing
    BY <1>10, <2>1, <2>5, KeptSame DEF Nothing
  <2>6. CASE Part
    <3>1. active' = Append(active, -hand) /\ pc' = "rollback" /\ UNCHANGED <<cut, acked>>
      BY <2>6 DEF Part
    <3>2. -hand \in Tokens
      BY <2>1 DEF Tokens
    <3>3. /\ Len(active') = Len(active) + 1
          /\ DOMAIN active' = 1 .. Len(active) + 1
          /\ \A k \in 1 .. Len(active) : active'[k] = active[k]
          /\ \A i \in acked : InActive(i) \/ InSegment(i) \/ i \in pruned
                                => InActive(i)' \/ InSegment(i)' \/ i \in pruned'
      BY <2>2, <3>1, <3>2
    <3>4. \A k \in DOMAIN active' : active'[k] < 0 => cut' \/ k = Len(active')
      BY <1>b, <2>3, <3>1, <3>3
    <3> QED BY <3>1, <3>3, <3>4 DEF KeptInv
  <2> QED BY <1>10, <2>4, <2>5, <2>6 DEF AppendLine
<1>11. CASE Rollback
  <2>1. /\ pc = "rollback" /\ hand \in Lines /\ pc' \in {"backoff", "down"}
        /\ UNCHANGED <<config, synced, segments, acked, pruned, cut>>
        /\ (active' = Truncate(active, size) \/ (active' = active /\ pc' = "down"))
    BY <1>11 DEF Rollback, TypeInv, LoopType
  <2>2. PICK f \in Seq(Tokens) : active = Append(f, -hand) /\ size = Length(f) /\ synced <= Len(f)
    BY <1>a, <2>1 DEF ActiveInv
  <2>3. -hand \in Tokens /\ -hand \in Int /\ -hand < 0
    BY <2>1 DEF Tokens
  <2>4. Truncate(active, size) = f
    BY <2>2, <2>3, TruncateUndoes
  <2>5. /\ Len(f) \in Nat /\ Len(active) = Len(f) + 1 /\ DOMAIN f = 1 .. Len(f)
        /\ \A k \in 1 .. Len(f) : active[k] = f[k]
        /\ active[Len(f) + 1] < 0
    BY <2>2, <2>3
  <2>6. CASE active' = f
    <3>1. \A k \in 1 .. Floor : active[k] > 0 => k \in 1 .. Floor' /\ active'[k] = active[k]
      <4>1. ASSUME NEW k \in 1 .. Floor, active[k] > 0
            PROVE  k \in 1 .. Floor' /\ active'[k] = active[k]
        <5>1. k \in 1 .. Len(f)
          BY <1>b, <2>5, <4>1
        <5>2. Floor' = IF config.fsync THEN synced ELSE Len(f)
          BY <2>1, <2>6 DEF Floor
        <5>3. k \in 1 .. Floor'
          BY <1>b, <2>2, <2>5, <4>1, <5>1, <5>2 DEF Floor
        <5> QED BY <2>5, <2>6, <5>1, <5>3
      <4> QED BY <4>1
    <3>2. \A i \in acked : InActive(i) => InActive(i)'
      BY <1>a, <2>1, <3>1, KeepActive
    <3>3. \A i \in acked : InSegment(i) => InSegment(i)'
      BY <2>1, KeepSegment
    <3>4. \A k \in DOMAIN active' : active'[k] < 0 => cut'
      BY <2>1, <2>5, <2>6, <1>b DEF KeptInv
    <3> QED BY <2>1, <3>2, <3>3, <3>4 DEF KeptInv
  <2>7. CASE active' = active /\ pc' = "down"
    BY <2>1, <2>7, KeptSame
  <2> QED BY <2>1, <2>4, <2>6, <2>7
<1>12. CASE Sync
  <2>1. CASE synced' = Len(active) /\ Acknowledge
    <3>1. /\ pc = "sync" /\ hand \in Lines /\ hand > 0 /\ pc' = "idle" /\ acked' = acked \cup {hand}
          /\ UNCHANGED <<config, active, segments, pruned, cut>> /\ synced' = Len(active)
      BY <1>12, <2>1 DEF Sync, Acknowledge, TypeInv, LoopType
    <3>2. Floor' = Len(active)
      BY <3>1 DEF Floor
    <3>3. Len(active) >= 1 /\ active[Len(active)] = hand
      BY <3>1 DEF KeptInv
    <3>4. Place(active, Len(active), active[Len(active)])
      <4> DEFINE n == Len(active)
      <4>1. n \in Nat /\ n >= 1 /\ \A k \in 1 .. n - 1 : k \in 1 .. Len(active) /\ active[k] = active[k]
        BY <1>b, <3>3
      <4> QED BY <1>a, <1>b, <3>1, <4>1, LastIsPlaced
    <3>5. PICK h : h = hand
      OBVIOUS
    <3>6. InActive(h)'
      <4>1. Len(active) \in 1 .. Floor'
        BY <1>b, <3>2, <3>3
      <4> QED BY <3>1, <3>3, <3>4, <3>5, <4>1 DEF InActive, Place
    <3>7. \A i \in acked : InActive(i) => InActive(i)'
      <4>1. \A k \in 1 .. Floor : k \in 1 .. Floor' /\ active'[k] = active[k]
        BY <1>b, <3>1, <3>2
      <4> QED BY <1>a, <3>1, <4>1, KeepActive
    <3>8. \A i \in acked : InSegment(i) => InSegment(i)'
      BY <3>1, KeepSegment
    <3>9. acked' = acked \cup {h}
      BY <3>1, <3>5
    <3>10. \A i \in acked' : InActive(i)' \/ InSegment(i)' \/ i \in pruned'
      BY <3>1, <3>6, <3>7, <3>8, <3>9 DEF KeptInv
    <3>11. \A k \in DOMAIN active' : active'[k] < 0 => cut'
      BY <3>1 DEF KeptInv
    <3> QED BY <3>1, <3>10, <3>11 DEF KeptInv
  <2>2. CASE (Retry \/ Fail) /\ UNCHANGED <<synced, acked>>
    BY <1>12, <2>2, KeptSame DEF Sync
  <2> QED BY <1>12, <2>1, <2>2 DEF Sync
<1>13. CASE BackedOff
  BY <1>13, KeptSame DEF BackedOff
<1>14. CASE Age
  BY <1>14, KeptSame DEF Age
<1>15. CASE FillUp
  BY <1>15, KeptSame DEF FillUp
<1>16. CASE FreeUp
  BY <1>16, KeptSame DEF FreeUp
<1>17. CASE Crash
  <2>1. pc' = "down" /\ UNCHANGED <<config, active, synced, acked, cut>>
    BY <1>17 DEF Crash
  <2>2. CASE UNCHANGED <<segments, pruned>>
    BY <2>1, <2>2, KeptSame
  <2>3. CASE \E k \in 0 .. Cardinality(Surplus) : Remove(1 .. k)
    <3>1. PICK k \in 0 .. Cardinality(Surplus) : Remove(1 .. k)
      BY <2>3
    <3>2. pruned \subseteq pruned'
      BY <1>a, <3>1, PrunedLines
    <3>3. \A i \in acked : InSegment(i) => InSegment(i)' \/ i \in pruned'
      BY <1>c, <2>1, <3>1
    <3> QED BY <2>1, <3>2, <3>3, KeptSegments
  <2> QED BY <1>17, <2>2, <2>3 DEF Crash
<1>18. CASE PowerLoss
  <2>1. /\ pc' = "down" /\ config.fsync
        /\ UNCHANGED <<config, synced, segments, acked, pruned, cut>>
    BY <1>18 DEF PowerLoss
  <2>2. PICK k \in synced .. Len(active) :
          \/ active' = SubSeq(active, 1, k)
          \/ /\ k < Len(active) /\ active[k + 1] > 0
             /\ active' = Append(SubSeq(active, 1, k), -active[k + 1])
    BY <1>18 DEF PowerLoss
  <2>3. /\ SubSeq(active, 1, k) \in Seq(Tokens) /\ Len(SubSeq(active, 1, k)) = k
        /\ \A x \in 1 .. k : SubSeq(active, 1, k)[x] = active[x]
    <3>1. k \in Int /\ k >= 0 /\ k <= Len(active)
      BY <1>b
    <3>2. \A x \in 1 .. k : active[x] \in Tokens
      BY <1>b, <3>1
    <3> QED BY <3>1, <3>2, SubSeqProperties
  <2>4. \A x \in 1 .. k : active'[x] = active[x]
    <3> DEFINE p == SubSeq(active, 1, k)
    <3>1. p \in Seq(Tokens) /\ Len(p) = k /\ \A x \in 1 .. k : p[x] = active[x]
      BY <2>3
    <3>2. active' = p \/ active' = Append(p, -active[k + 1])
      BY <2>2
    <3> HIDE DEF p
    <3> QED BY <3>1, <3>2
  <2>5. Floor = synced /\ Floor' = synced /\ k >= synced /\ synced \in Nat /\ k \in Int
    BY <1>b, <2>1 DEF Floor
  <2>6. \A x \in 1 .. Floor : x \in 1 .. Floor' /\ active'[x] = active[x]
    BY <2>4, <2>5
  <2>7. \A i \in acked : InActive(i) => InActive(i)'
    BY <1>a, <2>1, <2>6, KeepActive
  <2>8. \A i \in acked : InSegment(i) => InSegment(i)'
    BY <2>1, KeepSegment
  <2> QED BY <2>1, <2>7, <2>8 DEF KeptInv
<1>19. CASE Restart
  <2>1. /\ pc' = "idle" /\ synced' = Len(active) /\ cut' = (cut \/ HasPart(active))
        /\ UNCHANGED <<config, active, segments, acked, pruned>>
    BY <1>19 DEF Restart
  <2>2. cut => cut'
    BY <2>1
  <2>3. Floor' = Len(active)
    BY <2>1 DEF Floor
  <2>4. \A x \in 1 .. Floor : x \in 1 .. Floor' /\ active'[x] = active[x]
    BY <1>b, <2>1, <2>3
  <2>5. \A i \in acked : InActive(i) => InActive(i)'
    BY <1>a, <2>2, <2>4, KeepActive
  <2>6. \A i \in acked : InSegment(i) => InSegment(i)'
    BY <2>1, <2>2, KeepSegment
  <2>7. \A k \in DOMAIN active' : active'[k] < 0 => cut'
    <3> SUFFICES ASSUME NEW k \in DOMAIN active', active'[k] < 0
                 PROVE  cut'
      OBVIOUS
    <3>1. HasPart(active)
      BY <2>1 DEF HasPart
    <3> QED BY <2>1, <3>1
  <2> QED BY <2>1, <2>5, <2>6, <2>7 DEF KeptInv
<1>20. CASE UNCHANGED vars
  BY <1>20, KeptSame DEF vars
<1> QED
  BY <1>1, <1>2, <1>3, <1>4, <1>5, <1>6, <1>7, <1>8, <1>9, <1>10, <1>11, <1>12, <1>13, <1>14,
     <1>15, <1>16, <1>17, <1>18, <1>19, <1>20 DEF Next, Rotate

(***************************************************************************)
(* An acknowledged line stays in the files, as a line of its own, until    *)
(* prune removes it: rotation, compression, the rollback of a short write, *)
(* failures of any call, crashes and, with fsync, power losses do not take *)
(* it away.  Only a process that ended with a part of a line in the file   *)
(* may spoil the line its successor appends to that part.                  *)
(***************************************************************************)
THEOREM Kept == Spec => []AckedKept
<1>1. Init => KeptInv
  BY KeptInit
<1>2. TypeInv /\ KeptInv => AckedKept
  <2> SUFFICES ASSUME TypeInv, KeptInv, NEW i \in acked, i \notin pruned
               PROVE  Intact(i) \/ (cut /\ Glued(i))
    BY DEF AckedKept
  <2>1. ActiveInv /\ segments \in Seq(Segment) /\ i > 0
    BY DEF TypeInv, LoopType, SegmentInv
  <2>2. ASSUME NEW f \in Files, f \in Seq(Tokens), NEW k \in DOMAIN f, Place(f, k, i)
        PROVE  Intact(i) \/ (cut /\ Glued(i))
    <3>1. CASE k = 1 \/ f[k - 1] > 0
      BY <2>2, <3>1 DEF Intact, Place
    <3>2. CASE cut /\ k # 1 /\ ~(f[k - 1] > 0)
      <4>1. k - 1 \in 1 .. Len(f)
        BY <2>2, <3>2
      <4>2. f[k - 1] \in Tokens
        BY <2>2, <4>1
      <4>3. f[k - 1] < 0
        BY <3>2, <4>2 DEF Tokens
      <4> QED BY <2>2, <3>2, <4>3 DEF Glued, Place
    <3> QED BY <2>2, <3>1, <3>2 DEF Place
  <2>3. CASE InActive(i)
    <3>1. PICK k \in 1 .. Floor : Place(active, k, i)
      BY <2>3 DEF InActive
    <3>2. active \in Files /\ active \in Seq(Tokens) /\ k \in DOMAIN active
      BY <2>1, FloorIs DEF Files
    <3> QED BY <2>2, <3>1, <3>2
  <2>4. CASE InSegment(i)
    <3>1. PICK s \in DOMAIN segments : \E k \in DOMAIN segments[s].tokens : Place(segments[s].tokens, k, i)
      BY <2>4 DEF InSegment
    <3>2. segments[s].tokens \in Files /\ segments[s] \in Segment
      BY <2>1 DEF Files
    <3>3. segments[s].tokens \in Seq(Tokens)
      BY <3>2 DEF Segment
    <3> QED BY <2>2, <3>1, <3>2, <3>3
  <2> QED BY <2>3, <2>4 DEF KeptInv
<1> QED BY <1>1, <1>2, KeptNext, TypeInvariant, PTL DEF Spec
-----------------------------------------------------------------------------
(* What is retained is the newest.                                         *)
LEMMA LinesOfPrefix ==
  ASSUME NEW f \in Seq(Tokens), NEW p \in Seq(Tokens), Len(p) <= Len(f),
         \A k \in 1 .. Len(p) : p[k] = f[k]
  PROVE  LinesOf(p) \subseteq LinesOf(f)
<1>1. \A k \in DOMAIN p : k \in DOMAIN f /\ p[k] = f[k]
  OBVIOUS
<1> QED BY <1>1 DEF LinesOf

LEMMA LinesOfAppend ==
  ASSUME NEW f \in Seq(Tokens), NEW t \in Tokens
  PROVE  \A i \in LinesOf(Append(f, t)) : i \in LinesOf(f) \/ i = t
<1> DEFINE g == Append(f, t)
<1>1. \A k \in DOMAIN g : (k \in DOMAIN f /\ g[k] = f[k]) \/ g[k] = t
  OBVIOUS
<1> HIDE DEF g
<1>2. \A i \in LinesOf(g) : i \in LinesOf(f) \/ i = t
  BY <1>1 DEF LinesOf
<1> QED BY <1>2 DEF g

(* A step that leaves the segments alone and at most appends the line in   *)
(* hand keeps the order.                                                   *)
LEMMA OrderActive ==
  ASSUME TypeInv, InOrder, UNCHANGED <<segments, pruned, cut>>,
         next' \in Int, next' >= next, hand' # NoLine => next' = hand' + 1,
         \A a \in LinesOf(active') : a \in LinesOf(active) \/ a + 1 = next,
         pc \in {"unlink", "down"} => pc' \in {"unlink", "down"}
  PROVE  InOrder'
<1>1. next \in Int /\ pruned \subseteq Int /\ Lines \subseteq Int
  BY DEF TypeInv, LoopType, SegmentInv
<1>2. \A f : LinesOf(f) \subseteq Int
  BY <1>1 DEF LinesOf
<1>3. \A s \in DOMAIN segments : SegmentLines(s)' = SegmentLines(s)
  BY DEF SegmentLines
<1>4. \A a \in LinesOf(active') : a < next'
  BY <1>1, <1>2 DEF InOrder
<1>5. \A p \in pruned' : p < next'
  BY <1>1 DEF InOrder
<1>6. Ordered(pruned', LinesOf(active'))
  BY <1>1, <1>2 DEF InOrder, Ordered
<1>7. ASSUME NEW s \in DOMAIN segments
      PROVE  /\ \A a \in SegmentLines(s) : a < next'
             /\ Ordered(SegmentLines(s), LinesOf(active'))
             /\ Ordered(pruned, SegmentLines(s))
             /\ \A t \in DOMAIN segments :
                  s < t /\ ~Copy(t)' => Ordered(SegmentLines(s), SegmentLines(t))
  <2>1. SegmentLines(s) \subseteq Int
    BY <1>2 DEF SegmentLines
  <2>2. \A a \in SegmentLines(s) : a < next
    BY DEF InOrder
  <2>3. \A a \in SegmentLines(s) : a < next'
    BY <1>1, <2>1, <2>2
  <2>4. Ordered(SegmentLines(s), LinesOf(active'))
    BY <1>1, <1>2, <2>1, <2>2 DEF InOrder, Ordered
  <2>5. \A t \in DOMAIN segments : ~Copy(t)' => ~Copy(t)
    BY DEF Copy
  <2> QED BY <2>3, <2>4, <2>5 DEF InOrder
<1> QED BY <1>3, <1>4, <1>5, <1>6, <1>7 DEF InOrder

LEMMA OrderSame ==
  ASSUME TypeInv, InOrder, UNCHANGED <<active, segments, pruned, cut, next>>,
         hand' \in {hand, NoLine},
         pc \in {"unlink", "down"} => pc' \in {"unlink", "down"}
  PROVE  InOrder'
<1>1. next' \in Int /\ next' >= next
  BY DEF TypeInv, LoopType
<1>2. hand' # NoLine => next' = hand' + 1
  BY DEF InOrder
<1>3. LinesOf(active') = LinesOf(active)
  OBVIOUS
<1> QED BY <1>1, <1>2, <1>3, OrderActive

(* Removing the oldest segments keeps the order.                           *)
LEMMA OrderRemove ==
  ASSUME TypeInv, InOrder, NEW gone, Remove(gone), gone \subseteq DOMAIN segments,
         \A j \in gone : \A k \in DOMAIN segments \ gone : j < k,
         UNCHANGED <<active, cut, next>>, hand' \in {hand, NoLine},
         pc \notin {"unlink", "down"}
  PROVE  InOrder'
<1>1. segments \in Seq(Segment) /\ next \in Int
  BY DEF TypeInv, LoopType, SegmentInv
<1>2. \A x \in DOMAIN segments' :
        \E k \in DOMAIN segments \ gone : segments'[x] = segments[k]
  BY <1>1, RemoveKeeps
<1>11. \A x, y \in DOMAIN segments' : x < y =>
        \E j, k \in DOMAIN segments \ gone :
          j < k /\ segments'[x] = segments[j] /\ segments'[y] = segments[k]
  BY <1>1, RemoveKeeps
<1>3. pruned' = pruned \cup UNION {SegmentLines(k) : k \in gone}
  BY DEF Remove, SegmentLines
<1>4. \A p \in pruned' : p \in pruned \/ \E k \in gone : p \in SegmentLines(k)
  BY <1>3
<1>5. \A j, k \in DOMAIN segments : j < k => Ordered(SegmentLines(j), SegmentLines(k))
  BY DEF InOrder, Copy
<1>6. \A p \in pruned' : p < next' /\ \A a \in LinesOf(active') : p <= a
  BY <1>4 DEF InOrder, Ordered
<1>7. ASSUME NEW k \in DOMAIN segments \ gone
      PROVE  Ordered(pruned', SegmentLines(k))
  <2>1. \A j \in gone : j < k
    BY <1>7
  <2>2. \A j \in gone : Ordered(SegmentLines(j), SegmentLines(k))
    BY <1>5, <2>1
  <2>3. Ordered(pruned, SegmentLines(k))
    BY DEF InOrder
  <2> QED BY <1>4, <2>2, <2>3 DEF Ordered
<1>8. ASSUME NEW x \in DOMAIN segments'
      PROVE  /\ \A a \in SegmentLines(x)' : a < next'
             /\ Ordered(SegmentLines(x)', LinesOf(active'))
             /\ Ordered(pruned', SegmentLines(x)')
             /\ \A y \in DOMAIN segments' : x < y => Ordered(SegmentLines(x)', SegmentLines(y)')
  <2>1. PICK k \in DOMAIN segments \ gone : segments'[x] = segments[k]
    BY <1>2, <1>8
  <2>2. SegmentLines(x)' = SegmentLines(k)
    BY <2>1 DEF SegmentLines
  <2>3. \A y \in DOMAIN segments' : x < y => Ordered(SegmentLines(x)', SegmentLines(y)')
    <3> SUFFICES ASSUME NEW y \in DOMAIN segments', x < y
                 PROVE  Ordered(SegmentLines(x)', SegmentLines(y)')
      OBVIOUS
    <3>1. PICK a, b \in DOMAIN segments \ gone :
            a < b /\ segments'[x] = segments[a] /\ segments'[y] = segments[b]
      BY <1>11, <1>8
    <3>2. SegmentLines(x)' = SegmentLines(a) /\ SegmentLines(y)' = SegmentLines(b)
      BY <3>1 DEF SegmentLines
    <3> QED BY <1>5, <3>1, <3>2
  <2>4. (\A a \in SegmentLines(k) : a < next) /\ Ordered(SegmentLines(k), LinesOf(active))
    BY DEF InOrder
  <2> QED BY <1>7, <2>2, <2>3, <2>4
<1>9. ~cut' /\ (hand' # NoLine => next' = hand' + 1) /\ \A a \in LinesOf(active') : a < next'
  BY DEF InOrder
<1>10. Ordered(pruned', LinesOf(active'))
  BY <1>6 DEF Ordered
<1> QED BY <1>6, <1>8, <1>9, <1>10 DEF InOrder

(* So does a step that leaves copies of the segments, in their order.      *)
LEMMA OrderCopies ==
  ASSUME TypeInv, InOrder, UNCHANGED <<active, pruned, cut, next, hand>>,
         \A x \in DOMAIN segments' : \E k \in DOMAIN segments : SegmentLines(x)' = SegmentLines(k),
         \A x, y \in DOMAIN segments' : x < y /\ ~Copy(y)' =>
           \E j, k \in DOMAIN segments :
             j < k /\ ~Copy(k) /\ SegmentLines(x)' = SegmentLines(j) /\ SegmentLines(y)' = SegmentLines(k)
  PROVE  InOrder'
<1>1. ASSUME NEW x \in DOMAIN segments'
      PROVE  /\ \A a \in SegmentLines(x)' : a < next
             /\ Ordered(SegmentLines(x)', LinesOf(active))
             /\ Ordered(pruned, SegmentLines(x)')
  <2>1. PICK k \in DOMAIN segments : SegmentLines(x)' = SegmentLines(k)
    BY <1>1
  <2> QED BY <2>1 DEF InOrder
<1>2. ASSUME NEW x \in DOMAIN segments', NEW y \in DOMAIN segments', x < y, ~Copy(y)'
      PROVE  Ordered(SegmentLines(x)', SegmentLines(y)')
  <2>1. PICK j, k \in DOMAIN segments :
          j < k /\ ~Copy(k) /\ SegmentLines(x)' = SegmentLines(j) /\ SegmentLines(y)' = SegmentLines(k)
    BY <1>2
  <2> QED BY <2>1 DEF InOrder
<1> QED BY <1>1, <1>2 DEF InOrder

LEMMA SurplusIs ==
  ASSUME segments \in Seq(Segment)
  PROVE  /\ Surplus \subseteq DOMAIN segments /\ IsFiniteSet(Surplus)
         /\ \E m \in Nat : Surplus = 1 .. m /\ Cardinality(Surplus) = m
<1>1. Len(segments) \in Nat /\ DOMAIN segments = 1 .. Len(segments)
  OBVIOUS
<1>2. ASSUME MaxBackups = 0 \/ Len(segments) <= MaxBackups
      PROVE  Surplus = 1 .. 0
    BY <1>1, <1>2 DEF Surplus, FileSinkAssumption
<1>3. ASSUME ~(MaxBackups = 0), ~(Len(segments) <= MaxBackups)
      PROVE  Surplus = 1 .. Len(segments) - MaxBackups /\ Len(segments) - MaxBackups \in Nat
  BY <1>1, <1>3 DEF Surplus, FileSinkAssumption
<1>4. \E m \in Nat : Surplus = 1 .. m /\ m <= Len(segments)
  <2>1. 0 \in Nat /\ 0 <= Len(segments) /\ MaxBackups \in Nat
        /\ Len(segments) - MaxBackups <= Len(segments)
    BY <1>1 DEF FileSinkAssumption
  <2>2. CASE MaxBackups = 0 \/ Len(segments) <= MaxBackups
    BY <1>2, <2>1, <2>2
  <2>3. CASE ~(MaxBackups = 0) /\ ~(Len(segments) <= MaxBackups)
    BY <1>3, <2>1, <2>3
  <2> QED BY <2>2, <2>3
<1>5. \A m \in Nat : IsFiniteSet(1 .. m) /\ Cardinality(1 .. m) = m
  <2> SUFFICES ASSUME NEW m \in Nat
               PROVE  IsFiniteSet(1 .. m) /\ Cardinality(1 .. m) = m
    OBVIOUS
  <2> QED BY FS_Interval
<1> QED BY <1>1, <1>4, <1>5

LEMMA OrderNext == TypeInv /\ OrderInv /\ [Next]_vars => OrderInv'
<1> SUFFICES ASSUME TypeInv, OrderInv, [Next]_vars, stops' = 0, faults' = 0
             PROVE  InOrder'
  BY DEF OrderInv
<1> USE DEF Goto, End, Retry, Fault, Fail, files, writer, loop, history, bounds
<1>a. /\ segments \in Seq(Segment) /\ active \in Seq(Tokens) /\ next \in Int /\ next >= 1
      /\ stops \in Nat /\ faults \in Nat /\ Len(active) \in Nat
  BY DEF TypeInv, LoopType, ActiveInv, SegmentInv
<1>b. InOrder /\ ~Fault /\ stops = 0 /\ faults = 0
  <2>1. stops' \in {stops, stops + 1} /\ faults' \in {faults, faults + 1}
    BY DEF Next, vars, Rotate, Take, Stop, Write, CloseFile, Rename, Compress, Unlink, Reopen,
           Prune, AppendLine, Whole, Nothing, Part, Acknowledge, Rollback, Sync, BackedOff, Age,
           FillUp, FreeUp, Crash, PowerLoss, Restart
  <2>2. stops = 0 /\ faults = 0
    BY <1>a, <2>1
  <2> QED BY <2>2 DEF OrderInv
<1>1. CASE Take
  <2>1. /\ hand' = next /\ next' = next + 1 /\ pc = "idle"
        /\ UNCHANGED <<active, segments, pruned, cut>>
    BY <1>1 DEF Take
  <2>2. LinesOf(active') = LinesOf(active)
    BY <2>1
  <2> QED BY <1>a, <1>b, <2>1, <2>2, OrderActive
<1>2. CASE Stop
  BY <1>2, <1>b, OrderSame DEF Stop
<1>3. CASE Write
  BY <1>3, <1>b, OrderSame DEF Write
<1>4. CASE CloseFile
  BY <1>4, <1>b, OrderSame DEF CloseFile
<1>c. ASSUME NEW s \in DOMAIN segments
      PROVE  /\ \A a \in SegmentLines(s) : a < next
             /\ Ordered(SegmentLines(s), LinesOf(active))
             /\ Ordered(pruned, SegmentLines(s))
             /\ \A t \in DOMAIN segments : s < t /\ ~Copy(t) => Ordered(SegmentLines(s), SegmentLines(t))
  BY <1>b DEF InOrder
<1>d. LinesOf(<<>>) = {}
  BY DEF LinesOf
<1>5. CASE Rename
  <2>1. CASE UNCHANGED files
    BY <1>5, <2>1, <1>b, OrderSame DEF Rename
  <2>2. CASE /\ segments' = Append(segments, [tokens |-> active, gz |-> FALSE])
             /\ active' = <<>>
    <3> DEFINE n == Len(segments)
    <3>1. /\ n \in Nat /\ Len(segments') = n + 1 /\ segments' \in Seq(Segment)
          /\ \A s \in 1 .. n : segments'[s] = segments[s]
          /\ segments'[n + 1].tokens = active
      BY <1>a, <2>2, RenameShape
    <3>2. UNCHANGED <<pruned, cut, next>> /\ hand' = hand /\ pc = "rename"
      BY <1>5, <1>b DEF Rename
    <3>3. DOMAIN segments = 1 .. n /\ DOMAIN segments' = 1 .. n + 1
      BY <1>a, <3>1
    <3> HIDE DEF n
    <3>4. \A s \in 1 .. n : SegmentLines(s)' = SegmentLines(s)
      BY <3>1 DEF SegmentLines
    <3>5. PICK m : m = n + 1
      OBVIOUS
    <3>6. SegmentLines(m)' = LinesOf(active) /\ LinesOf(active') = {}
      BY <1>d, <2>2, <3>1, <3>5 DEF SegmentLines
    <3>7. ~cut' /\ (hand' # NoLine => next' = hand' + 1) /\ \A q \in pruned' : q < next'
      BY <1>b, <3>2 DEF InOrder
    <3>8. \A x \in DOMAIN segments' : x \in 1 .. n \/ x = m
      BY <3>1, <3>3, <3>5
    <3>9. \A x \in DOMAIN segments' :
            (\A a \in SegmentLines(x)' : a < next) /\ Ordered(pruned, SegmentLines(x)')
      <4>1. (\A a \in LinesOf(active) : a < next) /\ Ordered(pruned, LinesOf(active))
        BY <1>b DEF InOrder
      <4> QED BY <1>c, <3>3, <3>4, <3>6, <3>8, <4>1
    <3>10. \A x, y \in DOMAIN segments' : x < y => Ordered(SegmentLines(x)', SegmentLines(y)')
      <4> SUFFICES ASSUME NEW x \in DOMAIN segments', NEW y \in DOMAIN segments', x < y
                   PROVE  Ordered(SegmentLines(x)', SegmentLines(y)')
        OBVIOUS
      <4>1. x \in 1 .. n
        BY <3>1, <3>3
      <4>2. CASE y \in 1 .. n
        <5>1. ~Copy(y)
          BY <3>2 DEF Copy
        <5> QED BY <1>c, <3>3, <3>4, <4>1, <4>2, <5>1
      <4>3. CASE y = m
        BY <1>c, <3>3, <3>4, <3>6, <4>1, <4>3
      <4> QED BY <3>8, <4>2, <4>3
    <3> QED BY <3>2, <3>6, <3>7, <3>9, <3>10 DEF InOrder, Ordered
  <2> QED BY <1>5, <2>1, <2>2 DEF Rename
<1>6. CASE Compress
  <2>1. /\ pc = "compress" /\ Len(segments) >= 1
        /\ UNCHANGED <<active, pruned, cut, next, hand>>
    BY <1>6 DEF Compress, TypeInv, SegmentInv
  <2>2. CASE /\ segments' = Append(segments, [segments[Len(segments)] EXCEPT !.gz = TRUE])
             /\ pc' = "unlink"
    <3> DEFINE n == Len(segments)
    <3>1. /\ n \in Nat /\ n >= 1 /\ Len(segments') = n + 1 /\ segments' \in Seq(Segment)
          /\ \A s \in 1 .. n : segments'[s] = segments[s]
          /\ segments'[n + 1].tokens = segments[n].tokens
      BY <1>a, <2>1, <2>2, CompressShape
    <3>2. DOMAIN segments = 1 .. n /\ DOMAIN segments' = 1 .. n + 1
      BY <1>a, <3>1
    <3>3. PICK m : m = n
      OBVIOUS
    <3>4. \A x \in DOMAIN segments' : Copy(x)' <=> x = m + 1
      BY <2>2, <3>1, <3>3 DEF Copy
    <3> HIDE DEF n
    <3>5. \A s \in 1 .. n : SegmentLines(s)' = SegmentLines(s)
      BY <3>1 DEF SegmentLines
    <3>6. \A x : x = m + 1 => SegmentLines(x)' = SegmentLines(m)
      BY <3>1, <3>3 DEF SegmentLines
    <3>7. m \in Nat /\ m >= 1 /\ n = m
      BY <3>1, <3>3
    <3>8. \A x \in DOMAIN segments' : \E k \in DOMAIN segments : SegmentLines(x)' = SegmentLines(k)
      BY <3>2, <3>5, <3>6, <3>7
    <3>9. ASSUME NEW x \in DOMAIN segments', NEW y \in DOMAIN segments', x < y, ~Copy(y)'
          PROVE  \E j, k \in DOMAIN segments :
                   j < k /\ ~Copy(k) /\ SegmentLines(x)' = SegmentLines(j) /\ SegmentLines(y)' = SegmentLines(k)
      <4>1. x \in 1 .. n /\ y \in 1 .. n
        BY <3>2, <3>4, <3>7, <3>9
      <4>2. ~Copy(y)
        BY <2>1 DEF Copy
      <4> QED BY <3>2, <3>5, <3>9, <4>1, <4>2
    <3> QED BY <1>b, <2>1, <3>8, <3>9, OrderCopies
  <2>3. CASE UNCHANGED segments /\ pc' = "reopen"
    BY <1>b, <2>1, <2>3, OrderSame
  <2> QED BY <1>6, <2>2, <2>3 DEF Compress
<1>7. CASE Unlink
  <2>1. /\ pc = "unlink" /\ pc' = "reopen" /\ Len(segments) >= 2
        /\ segments[Len(segments) - 1].tokens = segments[Len(segments)].tokens
        /\ segments' = SubSeq(segments, 1, Len(segments) - 2) \o <<segments[Len(segments)]>>
        /\ UNCHANGED <<active, pruned, cut, next, hand>>
    BY <1>7, <1>b DEF Unlink, TypeInv, SegmentInv
  <2> DEFINE n == Len(segments)
  <2>2. /\ n \in Nat /\ n >= 2 /\ Len(segments') = n - 1 /\ segments' \in Seq(Segment)
        /\ \A s \in 1 .. n - 2 : segments'[s] = segments[s]
        /\ segments'[n - 1] = segments[n]
    BY <1>a, <2>1, UnlinkShape
  <2>3. DOMAIN segments = 1 .. n /\ DOMAIN segments' = 1 .. n - 1
    BY <1>a, <2>2
  <2>4. \A k \in DOMAIN segments : Copy(k) => k = n
    BY DEF Copy
  <2>5. segments[n - 1].tokens = segments[n].tokens
    BY <2>1
  <2> HIDE DEF n
  <2>6. \A s \in 1 .. n - 1 : SegmentLines(s)' = SegmentLines(s)
    <3>1. \A s \in 1 .. n - 1 : segments'[s].tokens = segments[s].tokens
      BY <2>2, <2>5
    <3> QED BY <3>1 DEF SegmentLines
  <2>7. \A x \in DOMAIN segments' : \E k \in DOMAIN segments : SegmentLines(x)' = SegmentLines(k)
    BY <2>2, <2>3, <2>6
  <2>8. ASSUME NEW x \in DOMAIN segments', NEW y \in DOMAIN segments', x < y
        PROVE  \E j, k \in DOMAIN segments :
                 j < k /\ ~Copy(k) /\ SegmentLines(x)' = SegmentLines(j) /\ SegmentLines(y)' = SegmentLines(k)
    <3>1. x \in DOMAIN segments /\ y \in DOMAIN segments /\ y # n
      BY <2>2, <2>3
    <3> QED BY <2>3, <2>4, <2>6, <2>8, <3>1
  <2> QED BY <1>b, <2>1, <2>7, <2>8, OrderCopies
<1>8. CASE Reopen
  BY <1>8, <1>b, OrderSame DEF Reopen
<1>9. CASE Prune
  <2>1. pc = "prune" /\ UNCHANGED <<active, cut, next, hand>>
    BY <1>9 DEF Prune
  <2>2. PICK gone : gone = Surplus /\ Remove(gone)
    BY <1>9, <1>b DEF Prune
  <2>3. PICK m \in Nat : gone = 1 .. m
    BY <1>a, <2>2, SurplusIs
  <2>4. gone \subseteq DOMAIN segments
    BY <1>a, <2>2, SurplusIs
  <2>5. \A j \in gone : \A k \in DOMAIN segments \ gone : j < k
    BY <1>a, <2>3
  <2> QED BY <1>b, <2>1, <2>2, <2>4, <2>5, OrderRemove
<1>10. CASE AppendLine
  <2>1. /\ pc = "append" /\ hand \in Lines /\ hand \in Int /\ hand > 0 /\ next = hand + 1
        /\ UNCHANGED <<segments, pruned>>
    BY <1>10, <1>b DEF AppendLine, TypeInv, LoopType, InOrder
  <2>2. hand \in Tokens /\ -hand \in Tokens
    BY <2>1 DEF Tokens
  <2>3. UNCHANGED <<cut, next>> /\ hand' \in {hand, NoLine}
        /\ (active' = active \/ active' = Append(active, hand) \/ active' = Append(active, -hand))
    BY <1>10 DEF AppendLine, Whole, Nothing, Part, Acknowledge
  <2>4. \A a \in LinesOf(active') : a \in LinesOf(active) \/ a + 1 = next
    <3>1. CASE active' = active
      BY <3>1
    <3>2. CASE active' = Append(active, hand)
      BY <1>a, <2>1, <2>2, <3>2, LinesOfAppend
    <3>3. CASE active' = Append(active, -hand)
      <4>1. \A a \in LinesOf(active') : a \in LinesOf(active) \/ a = -hand
        BY <1>a, <2>2, <3>3, LinesOfAppend
      <4>2. \A a \in LinesOf(active') : a # -hand
        BY <2>1 DEF LinesOf
      <4> QED BY <4>1, <4>2
    <3> QED BY <2>3, <3>1, <3>2, <3>3
  <2>5. next' \in Int /\ next' >= next /\ (hand' # NoLine => next' = hand' + 1)
    <3>1. next' = next /\ hand' \in {hand, NoLine}
      BY <2>3
    <3>2. hand # NoLine => next = hand + 1
      BY <2>1
    <3> QED BY <1>a, <3>1, <3>2
  <2>6. pc \in {"unlink", "down"} => pc' \in {"unlink", "down"}
    BY <2>1
  <2> QED BY <1>b, <2>1, <2>3, <2>4, <2>5, <2>6, OrderActive
<1>11. CASE Rollback
  <2>1. /\ pc = "rollback" /\ hand \in Lines /\ pc' \in {"backoff", "down"}
        /\ UNCHANGED <<segments, pruned, cut, next>> /\ hand' \in {hand, NoLine}
        /\ active' = Truncate(active, size)
    BY <1>11, <1>b DEF Rollback, TypeInv, LoopType
  <2>2. PICK f \in Seq(Tokens) : active = Append(f, -hand) /\ size = Length(f)
    BY <2>1 DEF TypeInv, ActiveInv
  <2>3. -hand \in Tokens
    BY <2>1 DEF Tokens
  <2>4. active' = f
    BY <2>1, <2>2, <2>3, TruncateUndoes
  <2>5. LinesOf(active') \subseteq LinesOf(active)
    <3>1. Len(f) <= Len(active) /\ \A k \in 1 .. Len(f) : f[k] = active[k]
      BY <2>2, <2>3
    <3> QED BY <1>a, <2>4, <3>1, LinesOfPrefix
  <2>6. next' \in Int /\ next' >= next /\ (hand' # NoLine => next' = hand' + 1)
    <3>1. next' = next /\ hand' \in {hand, NoLine} /\ (hand # NoLine => next = hand + 1)
      BY <1>b, <2>1 DEF InOrder
    <3> QED BY <1>a, <3>1
  <2>7. pc \in {"unlink", "down"} => pc' \in {"unlink", "down"}
    BY <2>1
  <2> QED BY <1>b, <2>1, <2>5, <2>6, <2>7, OrderActive
<1>12. CASE Sync
  BY <1>12, <1>b, OrderSame DEF Sync, Acknowledge
<1>13. CASE BackedOff
  BY <1>13, <1>b, OrderSame DEF BackedOff
<1>14. CASE Age
  BY <1>14, <1>b, OrderSame DEF Age
<1>15. CASE FillUp
  BY <1>15, <1>b, OrderSame DEF FillUp
<1>16. CASE FreeUp
  BY <1>16, <1>b, OrderSame DEF FreeUp
<1>17. CASE Crash
  <2>1. pc # "down" /\ pc' = "down" /\ UNCHANGED <<active, cut, next>> /\ hand' = NoLine
    BY <1>17 DEF Crash
  <2>2. CASE UNCHANGED <<segments, pruned>>
    BY <1>b, <2>1, <2>2, OrderSame
  <2>3. CASE pc = "prune" /\ \E k \in 0 .. Cardinality(Surplus) : Remove(1 .. k)
    <3>1. PICK k \in 0 .. Cardinality(Surplus) : \E gone : gone = 1 .. k /\ Remove(gone)
      BY <2>3
    <3>2. PICK gone : gone = 1 .. k /\ Remove(gone)
      BY <3>1
    <3>3. gone \subseteq Surplus
      <4>1. PICK m \in Nat : Surplus = 1 .. m /\ Cardinality(Surplus) = m
        BY <1>a, SurplusIs
      <4> QED BY <3>1, <3>2, <4>1
    <3>4. gone \subseteq DOMAIN segments
      BY <1>a, <3>3, SurplusIs
    <3>5. \A j \in gone : \A i \in DOMAIN segments \ gone : j < i
      <4>1. DOMAIN segments \subseteq Nat \ {0} /\ k \in Int
        <5>1. Cardinality(Surplus) \in Nat
          BY <1>a, SurplusIs
        <5> QED BY <1>a, <5>1
      <4> QED BY <3>2, <4>1
    <3> QED BY <1>b, <2>1, <2>3, <3>2, <3>4, <3>5, OrderRemove
  <2> QED BY <1>17, <2>2, <2>3 DEF Crash
<1>18. CASE PowerLoss
  <2>1. /\ pc' = "down" /\ hand' = NoLine
        /\ UNCHANGED <<segments, pruned, cut, next>>
    BY <1>18 DEF PowerLoss
  <2>2. PICK k \in synced .. Len(active) :
          \/ active' = SubSeq(active, 1, k)
          \/ /\ k < Len(active) /\ active[k + 1] > 0
             /\ active' = Append(SubSeq(active, 1, k), -active[k + 1])
    BY <1>18 DEF PowerLoss
  <2> DEFINE p == SubSeq(active, 1, k)
  <2>3. p \in Seq(Tokens) /\ Len(p) <= Len(active) /\ \A x \in 1 .. Len(p) : p[x] = active[x]
    <3>1. synced \in Nat /\ k \in Int /\ k >= 0 /\ k <= Len(active)
      <4>1. synced \in Nat
        BY <1>a DEF TypeInv, ActiveInv
      <4> QED BY <1>a, <4>1
    <3>2. \A x \in 1 .. k : active[x] \in Tokens
      BY <1>a, <3>1
    <3> QED BY <1>a, <3>1, <3>2, SubSeqProperties
  <2>4. LinesOf(p) \subseteq LinesOf(active)
    BY <1>a, <2>3, LinesOfPrefix
  <2>5. CASE active' = p
    BY <1>a, <1>b, <2>1, <2>4, <2>5, OrderActive
  <2>6. CASE k < Len(active) /\ active[k + 1] > 0 /\ active' = Append(p, -active[k + 1])
    <3>1. k + 1 \in 1 .. Len(active)
      <4>1. synced \in Nat
        BY <1>a DEF TypeInv, ActiveInv
      <4> QED BY <1>a, <2>6, <4>1
    <3>2. active[k + 1] \in Tokens
      BY <1>a, <3>1
    <3>3. PICK t \in Tokens : t = -active[k + 1] /\ t < 0
      BY <2>6, <3>2 DEF Tokens
    <3>4. active' = Append(p, t)
      BY <2>6, <3>3
    <3> HIDE DEF p
    <3>5. \A a \in LinesOf(active') : a \in LinesOf(p) \/ a = t
      BY <2>3, <3>4, LinesOfAppend
    <3>6. \A a \in LinesOf(active') : a # t
      BY <3>3 DEF LinesOf
    <3> QED BY <1>a, <1>b, <2>1, <2>4, <3>5, <3>6, OrderActive
  <2> QED BY <2>2, <2>5, <2>6
<1>19. CASE Restart
  BY <1>19, <1>a DEF Restart
<1>20. CASE UNCHANGED vars
  BY <1>20, <1>b, OrderSame DEF vars
<1> QED
  BY <1>1, <1>2, <1>3, <1>4, <1>5, <1>6, <1>7, <1>8, <1>9, <1>10, <1>11, <1>12, <1>13, <1>14, <1>15,
     <1>16, <1>17, <1>18, <1>19, <1>20 DEF Next, Rotate

(***************************************************************************)
(* Retention takes the oldest: in a process that met no fault, no line is  *)
(* gone while an older one is kept, whatever rotation, compression and a   *)
(* kill in the middle of pruning do.                                       *)
(***************************************************************************)
THEOREM NewestRetained == Spec => []RetainedAreNewest
<1>1. Init => OrderInv
  <2> SUFFICES ASSUME Init
               PROVE  InOrder
    BY DEF OrderInv
  <2>1. active = <<>> /\ segments = <<>> /\ pruned = {} /\ ~cut /\ hand = NoLine
    BY DEF Init
  <2>2. LinesOf(active) = {} /\ DOMAIN segments = {}
    BY <2>1 DEF LinesOf
  <2> QED BY <2>1, <2>2 DEF InOrder, Ordered
<1>2. TypeInv /\ AckedKept /\ OrderInv => RetainedAreNewest
  <2> SUFFICES ASSUME TypeInv, AckedKept, InOrder, NEW i \in acked, NEW j \in acked,
                      j < i, NEW f \in Files, j \in LinesOf(f)
               PROVE  Intact(i)
    BY DEF RetainedAreNewest, OrderInv
  <2>1. ~cut /\ i \in Int /\ j \in Int
    BY DEF InOrder, TypeInv, LoopType
  <2>2. i \notin pruned
    <3> SUFFICES ASSUME i \in pruned
                 PROVE  FALSE
      OBVIOUS
    <3>1. CASE f = active
      BY <2>1, <3>1 DEF InOrder, Ordered
    <3>2. CASE f \in {segments[k].tokens : k \in DOMAIN segments}
      BY <2>1, <3>2 DEF InOrder, Ordered, SegmentLines
    <3> QED BY <3>1, <3>2 DEF Files
  <2> QED BY <2>1, <2>2 DEF AckedKept
<1> QED BY <1>1, <1>2, OrderNext, TypeInvariant, Kept, PTL DEF Spec
=============================================================================
