--------------------------- MODULE BalanceProofs ---------------------------
(***************************************************************************)
(* The ticks, the change detection and the reloads of evm-balance, for     *)
(* every target list, chain and set of failures.                           *)
(***************************************************************************)
EXTENDS Balance, SequenceTheorems, FiniteSetTheorems, TLAPS

(* Committing a reading keeps the baselines told when the reading is.      *)
LEMMA CommitKeepsTold ==
  ASSUME BaselineIsTold, CommitAndAdvance,
         \A x \in DOMAIN told \ {Reading.read.key} : x \in DOMAIN told' /\ told'[x] = told[x],
         Reading.read.key \in DOMAIN told', told'[Reading.read.key] = Reading.value
  PROVE  BaselineIsTold'
<1> DEFINE key == Reading.read.key
<1>1. prior' = Put(prior, key, Reading.value)
  BY DEF CommitAndAdvance
<1> SUFFICES ASSUME NEW k \in DOMAIN prior'
             PROVE  k \in DOMAIN told' /\ told'[k] = prior'[k]
  BY DEF BaselineIsTold
<1>2. k \in DOMAIN prior \cup {key}
  BY <1>1 DEF Put
<1>3. CASE k = key
  BY <1>1, <1>3 DEF Put
<1>4. CASE k # key
  <2>1. k \in DOMAIN prior /\ prior'[k] = prior[k]
    BY <1>1, <1>2, <1>4 DEF Put
  <2> QED BY <2>1, <1>4 DEF BaselineIsTold
<1> QED BY <1>3, <1>4

(* The write of a sample tells the first observation, and leaves what was  *)
(* told before.                                                            *)
LEMMA SampleTells ==
  ASSUME BaselineIsTold, EmitSample
  PROVE  BaselineIsTold'
<1> DEFINE key == Reading.read.key
<1>1. CASE Moved(Reading)
  <2>1. key \in DOMAIN prior /\ prior' = prior
    BY <1>1 DEF EmitSample, Moved
  <2>2. told' = told
    BY <2>1 DEF EmitSample
  <2> QED BY <2>1, <2>2 DEF BaselineIsTold
<1>2. CASE ~Moved(Reading)
  <2>1. CommitAndAdvance
    BY <1>2 DEF EmitSample
  <2>2. CASE key \in DOMAIN prior
    <3>1. told' = told
      BY <2>2 DEF EmitSample
    <3>2. prior[key] = Reading.value
      BY <1>2, <2>2 DEF Moved
    <3>3. key \in DOMAIN told /\ told[key] = Reading.value
      BY <2>2, <3>2 DEF BaselineIsTold
    <3> QED BY <2>1, <3>1, <3>3, CommitKeepsTold
  <2>3. CASE key \notin DOMAIN prior
    <3>1. told' = Put(told, key, Reading.value)
      BY <2>3 DEF EmitSample
    <3> QED BY <2>1, <3>1, CommitKeepsTold DEF Put
  <2> QED BY <2>2, <2>3
<1> QED BY <1>1, <1>2

LEMMA BaselineStep == BaselineIsTold /\ [Next]_vars => BaselineIsTold'
<1> SUFFICES ASSUME BaselineIsTold, [Next]_vars
             PROVE  BaselineIsTold'
  OBVIOUS
<1>1. CASE UNCHANGED vars
  BY <1>1 DEF BaselineIsTold, vars
<1>2. CASE Mine
  BY <1>2 DEF Mine, BaselineIsTold
<1>3. ASSUME NEW w \in WatchLists, QueueReload(w)
      PROVE  BaselineIsTold'
  BY <1>3 DEF QueueReload, BaselineIsTold
<1>4. CASE ApplyPendingReload
  <2>1. told' = told
    BY <1>4 DEF ApplyPendingReload
  <2>2. DOMAIN prior' \subseteq DOMAIN prior /\ \A k \in DOMAIN prior' : prior'[k] = prior[k]
    BY <1>4 DEF ApplyPendingReload, Without
  <2> QED BY <2>1, <2>2 DEF BaselineIsTold
<1>5. ASSUME NEW h \in 1 .. Tip, PollHead(h)
      PROVE  BaselineIsTold'
  BY <1>5 DEF PollHead, BaselineIsTold
<1>6. CASE HeadFails
  BY <1>6 DEF HeadFails, BaselineIsTold
<1>7. ASSUME NEW i \in DOMAIN Tasks(watch), ReadTarget(i)
      PROVE  BaselineIsTold'
  BY <1>7 DEF ReadTarget, BaselineIsTold
<1>8. ASSUME NEW i \in DOMAIN Tasks(watch), NEW n \in 1 .. 3,
             NEW kind \in {"transient", "permanent"}, ReadFails(i, n, kind)
      PROVE  BaselineIsTold'
  BY <1>8 DEF ReadFails, BaselineIsTold
<1>9. CASE ReadsJudged
  BY <1>9 DEF ReadsJudged, BaselineIsTold
<1>10. CASE EmitSample
  BY <1>10, SampleTells
<1>11. CASE EmitChange
  <2>1. told' = Put(told, Reading.read.key, Reading.value) /\ CommitAndAdvance
    BY <1>11 DEF EmitChange
  <2> QED BY <2>1, CommitKeepsTold DEF Put
<1>12. CASE EmitFails
  BY <1>12 DEF EmitFails, BaselineIsTold
<1>13. CASE Stop
  BY <1>13 DEF Stop, BaselineIsTold
<1> QED BY <1>1, <1>2, <1>3, <1>4, <1>5, <1>6, <1>7, <1>8, <1>9, <1>10, <1>11, <1>12, <1>13
        DEF Next, Poller

(***************************************************************************)
(* The stored prior of a key is the value the output was last told,        *)
(* whichever read or write failed in between and whatever was reloaded     *)
(* (commitValue, sampleAll): BaselineIsTold is inductive.                  *)
(***************************************************************************)
THEOREM BaselineTold == Spec => []BaselineIsTold
<1>1. Init => BaselineIsTold
  BY DEF Init, BaselineIsTold, Nothing
<1> QED BY <1>1, BaselineStep, PTL DEF Spec
-----------------------------------------------------------------------------
(* The tick and the reload. *)

(***************************************************************************)
(* NothingLeftBehind and TickTellsAll are about the list in use and the    *)
(* block of the tick, and neither changes while one is under way: the list *)
(* in use is a valid one, the next is staged beside it, and each task that *)
(* is done holds what its target reads at that block.                      *)
(***************************************************************************)
ListInv ==
  /\ {watch, queued} \subseteq WatchLists /\ ValidList(watch)
  /\ pendingWatch # NoList =>
       pendingWatch \in WatchLists /\ ValidList(pendingWatch) /\ queued = pendingWatch
  /\ pendingWatch = NoList => watch = queued

TaskReads(i) == ReadsOf(Tasks(watch)[i])

Outcomes == {"ok", "transient", "permanent"}

ReadTo(i) ==
  [j \in DOMAIN TaskReads(i) |->
     [read |-> TaskReads(i)[j], value |-> Value(TaskReads(i)[j], head)]]

ResultsInv ==
  /\ pc \in {"read", "sample", "change"} =>
       /\ head \in 1 .. Tip
       /\ DOMAIN results \subseteq DOMAIN Tasks(watch)
       /\ \A i \in DOMAIN results :
            /\ results[i].ok \in Outcomes
            /\ results[i].ok = "ok" => results[i].readings = ReadTo(i)
  /\ pc \in {"sample", "change"} =>
       /\ DOMAIN results = DOMAIN Tasks(watch)
       /\ \A i \in DOMAIN results : results[i].ok = "ok"
       /\ at[1] \in DOMAIN Tasks(watch) /\ at[2] \in DOMAIN TaskReads(at[1])
  /\ pc \notin {"sample", "change"} => at = <<1, 1>>

BoundsInv ==
  /\ chain \in [1 .. Tip -> [Subjects -> {0, 1}]] /\ Tip \in 1 .. MaxHeight
  /\ faults \in 0 .. MaxFaults /\ reloads \in 0 .. MaxReloads
  /\ every \in Cadences
  /\ pc \in {"loop", "head", "read", "sample", "change", "stopped"}
  /\ head \in 0 .. Tip /\ lastSampled \in 0 .. Tip
  /\ outputDead \in BOOLEAN

TickInv == ListInv /\ BoundsInv /\ ResultsInv

\* The readings before the position have been told.
ToldInv ==
  pc \in {"sample", "change"} =>
    \A i \in DOMAIN Tasks(watch) : \A j \in DOMAIN TaskReads(i) :
      i < at[1] \/ (i = at[1] /\ j < at[2]) =>
        /\ TaskReads(i)[j].key \in DOMAIN told
        /\ told[TaskReads(i)[j].key] = Value(TaskReads(i)[j], head)

\* A baseline or a series is that of a target in use.
BaselinesInv ==
  \A k \in DOMAIN prior : \E t \in TargetsOf(watch) : k[1] \in Prefixes(t) /\ k[2] = t.name

SeriesInv == series \subseteq UNION {r.series : r \in ReadsIn(watch)}

KnownInv ==
  /\ DOMAIN prior \subseteq Keys /\ \A k \in DOMAIN prior : prior[k] \in 0 .. MaxHeight
  /\ DOMAIN told \subseteq Keys /\ \A k \in DOMAIN told : told[k] \in 0 .. MaxHeight
  /\ series \subseteq AllSeries

\* A name keeps its address and the fields it reports from one list to the next.
NamesKeep ==
  \A v \in WatchLists, w \in WatchLists : \A t \in TargetsOf(v), u \in TargetsOf(w) :
    t.type = u.type /\ t.name = u.name =>
      /\ t.addr = u.addr
      /\ t.type = "contract" => /\ t.nativeBalance = u.nativeBalance
                                /\ t.tokenSupply = u.tokenSupply

\* No two targets of one list share a type and a name.
KeysDistinct ==
  \A w \in WatchLists : \A r \in ReadsIn(w), q \in ReadsIn(w) : r.key = q.key => r = q
-----------------------------------------------------------------------------
(* Target lists and what they read. *)

LEMMA ListTasks ==
  ASSUME NEW w \in WatchLists
  PROVE  /\ Tasks(w) \in Seq(TargetsOf(w)) /\ Len(Tasks(w)) \in Nat
         /\ DOMAIN Tasks(w) = 1 .. Len(Tasks(w))
         /\ \A i \in DOMAIN Tasks(w) : Tasks(w)[i] \in TargetsOf(w) /\ IsTarget(Tasks(w)[i])
         /\ ValidList(w) => Len(Tasks(w)) >= 1
<1>1. Tasks(w) \in Seq(TargetsOf(w)) /\ \A t \in TargetsOf(w) : IsTarget(t)
  BY BalanceAssumption
<1>2. Len(Tasks(w)) \in Nat /\ DOMAIN Tasks(w) = 1 .. Len(Tasks(w))
  BY <1>1, LenProperties
<1>3. \A i \in DOMAIN Tasks(w) : Tasks(w)[i] \in TargetsOf(w)
  BY DEF TargetsOf
<1>4. ValidList(w) => Len(Tasks(w)) >= 1
  <2> SUFFICES ASSUME ValidList(w), Len(Tasks(w)) = 0 PROVE FALSE
    BY <1>2
  <2> QED
    BY <1>2 DEF ValidList, TargetsOf
<1> QED
  BY <1>1, <1>2, <1>3, <1>4

LEMMA NoListInvalid == ~ValidList(NoList)
<1>1. Tasks(NoList) = <<>>
  BY DEF Tasks, NoList
<1> QED
  BY <1>1 DEF ValidList, TargetsOf

\* A read belongs to the target it reads: its key and its series carry the
\* target's name, its series the address.
BelongsTo(r, t) ==
  /\ r.key[1] \in Prefixes(t) /\ r.key[2] = t.name
  /\ \A s \in r.series : s[1] \in Prefixes(t) /\ s[2] = t.name /\ s[3] = t.addr
  /\ r.window \in Nat

LEMMA OneInSeq ==
  ASSUME NEW S, NEW x \in S
  PROVE  <<x>> \in Seq(S) /\ <<>> \in Seq(S)
  OBVIOUS

LEMMA ReadBelongs ==
  ASSUME NEW t, NEW record, NEW prefix \in Prefixes(t), NEW what, NEW window \in Nat, NEW call
  PROVE  BelongsTo(Read(record, prefix, t, what, window, call), t)
<1> DEFINE s == IF record = "ownership" THEN {} ELSE {<<prefix, t.name, t.addr, window>>}
<1>1. \A x \in s : x[1] \in Prefixes(t) /\ x[2] = t.name /\ x[3] = t.addr
  OBVIOUS
<1> HIDE DEF s
<1> QED
  BY <1>1 DEF BelongsTo, Read, s

LEMMA ReadsShape ==
  ASSUME NEW t, IsTarget(t)
  PROVE  /\ Len(ReadsOf(t)) \in Nat /\ DOMAIN ReadsOf(t) = 1 .. Len(ReadsOf(t))
         /\ \A j \in DOMAIN ReadsOf(t) : BelongsTo(ReadsOf(t)[j], t)
         /\ ReadsOf(t) # <<>> => Len(ReadsOf(t)) >= 1
<1>1. ASSUME NEW S, ReadsOf(t) \in Seq(S), \A r \in S : BelongsTo(r, t)
      PROVE  /\ Len(ReadsOf(t)) \in Nat /\ DOMAIN ReadsOf(t) = 1 .. Len(ReadsOf(t))
             /\ \A j \in DOMAIN ReadsOf(t) : BelongsTo(ReadsOf(t)[j], t)
             /\ ReadsOf(t) # <<>> => Len(ReadsOf(t)) >= 1
  <2>1. Len(ReadsOf(t)) \in Nat /\ DOMAIN ReadsOf(t) = 1 .. Len(ReadsOf(t))
    BY <1>1, LenProperties
  <2>2. \A j \in DOMAIN ReadsOf(t) : ReadsOf(t)[j] \in S
    BY <1>1, <2>1, ElementOfSeq
  <2>3. ReadsOf(t) # <<>> => Len(ReadsOf(t)) \in Nat \ {0}
    BY <1>1, EmptySeq
  <2> QED
    BY <1>1, <2>1, <2>2, <2>3
<1>2. ASSUME NEW r, BelongsTo(r, t), ReadsOf(t) = <<r>>
      PROVE  /\ Len(ReadsOf(t)) \in Nat /\ DOMAIN ReadsOf(t) = 1 .. Len(ReadsOf(t))
             /\ \A j \in DOMAIN ReadsOf(t) : BelongsTo(ReadsOf(t)[j], t)
             /\ ReadsOf(t) # <<>> => Len(ReadsOf(t)) >= 1
  <2> DEFINE S == {r}
  <2>1. \A q \in S : BelongsTo(q, t)
    BY <1>2
  <2>2. r \in S
    OBVIOUS
  <2> HIDE DEF S
  <2>3. ReadsOf(t) \in Seq(S)
    BY <1>2, <2>2, OneInSeq
  <2> QED
    BY <1>1, <2>1, <2>3
<1>3. CASE t.type = "native"
  <2>1. ReadsOf(t) = <<ReadNative(t)>>
    BY <1>3 DEF ReadsOf
  <2>2. "native" \in Prefixes(t)
    BY <1>3 DEF Prefixes
  <2>3. BelongsTo(ReadNative(t), t)
    BY <2>2, ReadBelongs DEF ReadNative
  <2> QED
    BY <1>2, <2>1, <2>3
<1>4. CASE t.type = "erc20"
  <2>1. ReadsOf(t) = <<ReadERC20(t)>>
    BY <1>4 DEF ReadsOf
  <2>2. "erc20" \in Prefixes(t)
    BY <1>4 DEF Prefixes
  <2>3. BelongsTo(ReadERC20(t), t)
    BY <2>2, ReadBelongs DEF ReadERC20
  <2> QED
    BY <1>2, <2>1, <2>3
<1>5. CASE t.type = "erc721-balance"
  <2>1. ReadsOf(t) = <<ReadERC721Balance(t)>>
    BY <1>5 DEF ReadsOf
  <2>2. "erc721-balance" \in Prefixes(t)
    BY <1>5 DEF Prefixes
  <2>3. BelongsTo(ReadERC721Balance(t), t)
    BY <2>2, ReadBelongs DEF ReadERC721Balance
  <2> QED
    BY <1>2, <2>1, <2>3
<1>6. CASE t.type = "erc721-ownership"
  <2>1. ReadsOf(t) = <<ReadERC721Ownership(t)>>
    BY <1>6 DEF ReadsOf
  <2>2. "erc721-ownership" \in Prefixes(t)
    BY <1>6 DEF Prefixes
  <2>3. BelongsTo(ReadERC721Ownership(t), t)
    BY <2>2, ReadBelongs DEF ReadERC721Ownership
  <2> QED
    BY <1>2, <2>1, <2>3
<1>7. CASE t.type = "contract"
  <2> DEFINE x == ReadContractNative(t)
             y == ReadContractSupply(t)
             z == ReadContractTransferCount(t)
             S == {x, y, z}
             a == IF t.nativeBalance THEN <<x>> ELSE <<>>
             b == IF t.tokenSupply THEN <<y>> ELSE <<>>
             c == IF t.window > 0 THEN <<z>> ELSE <<>>
  <2>1. ReadsOf(t) = (a \o b) \o c
    BY <1>7 DEF ReadsOf, ReadContract
  <2>2. /\ {"contract-native", "contract-supply", "contract-transfers"} \subseteq Prefixes(t)
        /\ t.window \in Nat
    BY <1>7 DEF Prefixes, IsTarget
  <2>3. BelongsTo(x, t)
    BY <2>2, ReadBelongs DEF ReadContractNative
  <2>4. BelongsTo(y, t)
    BY <2>2, ReadBelongs DEF ReadContractSupply
  <2>5. BelongsTo(z, t)
    BY <2>2, ReadBelongs DEF ReadContractTransferCount
  <2> HIDE DEF x, y, z
  <2>6. x \in S /\ y \in S /\ z \in S /\ \A r \in S : BelongsTo(r, t)
    BY <2>3, <2>4, <2>5
  <2> HIDE DEF S
  <2>7. <<x>> \in Seq(S) /\ <<y>> \in Seq(S) /\ <<z>> \in Seq(S) /\ <<>> \in Seq(S)
    BY <2>6, OneInSeq
  <2>8. a \in Seq(S) /\ b \in Seq(S) /\ c \in Seq(S)
    BY <2>7
  <2> HIDE DEF a, b, c
  <2>9. (a \o b) \o c \in Seq(S)
    BY <2>8, ConcatProperties
  <2> QED
    BY <1>1, <2>1, <2>6, <2>9
<1> QED
  BY <1>3, <1>4, <1>5, <1>6, <1>7 DEF IsTarget

\* What a target reads depends on nothing else than these fields.
LEMMA SameReads ==
  ASSUME NEW t, NEW u, IsTarget(t), t.type = u.type, t.name = u.name, t.addr = u.addr,
         t.type = "contract" => /\ t.nativeBalance = u.nativeBalance
                                /\ t.tokenSupply = u.tokenSupply
                                /\ t.window = u.window
  PROVE  ReadsOf(t) = ReadsOf(u)
<1>1. CASE t.type = "contract"
  BY <1>1 DEF ReadsOf, ReadContract, ReadContractNative, ReadContractSupply,
     ReadContractTransferCount, Read
<1>2. CASE t.type # "contract"
  BY <1>2 DEF IsTarget, ReadsOf, ReadNative, ReadERC20, ReadERC721Balance, ReadERC721Ownership,
     Read
<1> QED
  BY <1>1, <1>2

LEMMA ReadsAreReadable ==
  ASSUME NEW w \in WatchLists, NEW i \in DOMAIN Tasks(w), NEW j \in DOMAIN ReadsOf(Tasks(w)[i])
  PROVE  LET r == ReadsOf(Tasks(w)[i])[j] IN
         /\ r \in ReadsIn(w) /\ r \in Readable
         /\ r.subject \in Subjects /\ r.key \in Keys /\ r.series \subseteq AllSeries
         /\ r.window \in Nat
<1> DEFINE t == Tasks(w)[i]
           r == ReadsOf(t)[j]
<1>1. t \in TargetsOf(w) /\ BelongsTo(r, t)
  BY ListTasks, ReadsShape
<1>2. r \in ReadsIn(w)
  BY <1>1 DEF ReadsIn
<1>3. r \in Readable
  BY <1>2 DEF Readable
<1> HIDE DEF r
<1>4. r.subject \in Subjects /\ r.key \in Keys /\ r.series \subseteq AllSeries
  BY <1>3 DEF Subjects, Keys, AllSeries
<1> QED
  BY <1>1, <1>2, <1>3, <1>4 DEF BelongsTo, r

\* The other way round: every read of a list is that of a task.
LEMMA ReadableByTask ==
  ASSUME NEW w, NEW r \in ReadsIn(w)
  PROVE  \E i \in DOMAIN Tasks(w) : \E j \in DOMAIN ReadsOf(Tasks(w)[i]) :
           r = ReadsOf(Tasks(w)[i])[j]
  BY DEF ReadsIn, TargetsOf

-----------------------------------------------------------------------------
(* Values of a block. *)

LEMMA ValueType ==
  ASSUME BoundsInv, NEW r, r.subject \in Subjects, r.window \in Nat, NEW h \in 1 .. Tip
  PROVE  Value(r, h) \in 0 .. MaxHeight
<1>1. Tip \in 1 .. MaxHeight /\ MaxHeight \in Nat \ {0} /\ h \in Nat /\ h <= MaxHeight
  BY BalanceAssumption DEF BoundsInv
<1>2. CASE r.window = 0
  <2>1. chain[h][r.subject] \in {0, 1}
    BY DEF BoundsInv
  <2> QED
    BY <1>1, <1>2, <2>1 DEF Value
<1>3. CASE r.window # 0
  <2> DEFINE B == {b \in 1 .. h : From(h, r.window) <= b /\ chain[b][r.subject] = 1}
  <2>1. IsFiniteSet(1 .. h) /\ Cardinality(1 .. h) = h
    BY <1>1, FS_Interval
  <2>2. B \in SUBSET (1 .. h)
    OBVIOUS
  <2> HIDE DEF B
  <2>3. IsFiniteSet(B) /\ Cardinality(B) <= h
    BY <2>1, <2>2, FS_Subset
  <2>4. Cardinality(B) \in Nat
    BY <2>3, FS_CardinalityType
  <2> QED
    BY <1>1, <1>3, <2>3, <2>4 DEF Value, B
<1> QED
  BY <1>2, <1>3

\* A later block changes nothing of what was read at an earlier one.
LEMMA ValueKept ==
  ASSUME NEW r, NEW h \in Nat, \A b \in 1 .. h : chain'[b] = chain[b], h >= 1
  PROVE  Value(r, h)' = Value(r, h)
<1>1. {b \in 1 .. h : From(h, r.window) <= b /\ chain'[b][r.subject] = 1}
        = {b \in 1 .. h : From(h, r.window) <= b /\ chain[b][r.subject] = 1}
  OBVIOUS
<1>2. chain'[h] = chain[h]
  OBVIOUS
<1> QED
  BY <1>1, <1>2 DEF Value, From
-----------------------------------------------------------------------------
(* The list in use, and the bounds. *)

LEMMA ListInit == Init => ListInv
  BY DEF Init, ListInv

LEMMA ListStep == ListInv /\ [Next]_vars => ListInv'
<1> SUFFICES ASSUME ListInv, [Next]_vars
             PROVE  ListInv'
  OBVIOUS
<1>1. CASE UNCHANGED <<watch, queued, pendingWatch>>
  BY <1>1 DEF ListInv
<1>2. ASSUME NEW w \in WatchLists, QueueReload(w)
      PROVE  ListInv'
  <2>1. CASE ValidList(w)
    <3>1. queued' = w /\ pendingWatch' = w /\ watch' = watch
      BY <1>2, <2>1 DEF QueueReload
    <3>2. w # NoList
      BY <2>1, NoListInvalid
    <3> QED
      BY <2>1, <3>1, <3>2 DEF ListInv
  <2>2. CASE ~ValidList(w)
    BY <1>1, <1>2, <2>2 DEF QueueReload
  <2> QED
    BY <2>1, <2>2
<1>3. CASE ApplyPendingReload
  <2>1. CASE pendingWatch = NoList
    BY <1>3, <2>1 DEF ApplyPendingReload, env, ListInv
  <2>2. CASE pendingWatch # NoList
    BY <1>3, <2>2 DEF ApplyPendingReload, env, ListInv
  <2> QED
    BY <2>1, <2>2
<1>4. UNCHANGED vars \/ Mine \/ Stop \/ (Poller /\ ~ApplyPendingReload)
        => UNCHANGED <<watch, queued, pendingWatch>>
  BY DEF vars, env, Mine, Stop, Poller, PollHead, HeadFails, ReadTarget, ReadFails, ReadsJudged,
     EmitSample, EmitChange, EmitFails
<1> QED
  BY <1>1, <1>2, <1>3, <1>4 DEF Next

LEMMA CommitFrame ==
  ASSUME CommitAndAdvance
  PROVE  /\ pc' \in {"sample", "loop"}
         /\ lastSampled' \in {lastSampled, head} /\ head' \in {head, 0}
  BY DEF CommitAndAdvance, Forget

LEMMA BoundsInit == Init => BoundsInv
<1> SUFFICES ASSUME Init PROVE BoundsInv
  OBVIOUS
<1> DEFINE first == [s \in Subjects |-> 0]
<1>1. chain = <<first>> /\ first \in [Subjects -> {0, 1}]
  BY DEF Init
<1> HIDE DEF first
<1>2. chain \in [1 .. Len(chain) -> [Subjects -> {0, 1}]] /\ Len(chain) = 1
  BY <1>1
<1>3. faults = 0 /\ reloads = 0 /\ every \in Cadences /\ pc = "loop" /\ head = 0 /\ lastSampled = 0
  BY DEF Init
<1>4. outputDead \in BOOLEAN
  BY DEF Init
<1>5. MaxHeight \in Nat \ {0} /\ MaxFaults \in Nat /\ MaxReloads \in Nat
  BY BalanceAssumption
<1>6. Tip \in 1 .. MaxHeight
  BY <1>2, <1>5 DEF Tip
<1>7. faults \in 0 .. MaxFaults /\ reloads \in 0 .. MaxReloads
  BY <1>3, <1>5
<1>8. head \in 0 .. Tip /\ lastSampled \in 0 .. Tip
  BY <1>3, <1>6, <1>5
<1> QED
  BY <1>2, <1>3, <1>4, <1>6, <1>7, <1>8 DEF BoundsInv, Tip

LEMMA BoundsStep == BoundsInv /\ [Next]_vars => BoundsInv'
<1> SUFFICES ASSUME BoundsInv, [Next]_vars
             PROVE  BoundsInv'
  OBVIOUS
<1>1. MaxHeight \in Nat \ {0} /\ MaxFaults \in Nat /\ MaxReloads \in Nat
  BY BalanceAssumption
<1>2. /\ Tip \in Nat /\ Tip \in 1 .. MaxHeight /\ head \in Nat /\ lastSampled \in Nat
      /\ head <= Tip /\ lastSampled <= Tip
  BY <1>1 DEF BoundsInv
<1>3. CASE Mine
  <2>1. PICK block \in [Subjects -> {0, 1}] : chain' = Append(chain, block)
    BY <1>3 DEF Mine
  <2>2. /\ Tip < MaxHeight
        /\ UNCHANGED <<faults, reloads, every, pc, head, lastSampled, outputDead>>
    BY <1>3 DEF Mine, tick
  <2> DEFINE B == [Subjects -> {0, 1}]
  <2>3. block \in B /\ chain \in [1 .. Tip -> B]
    BY <2>1 DEF BoundsInv
  <2> HIDE DEF B
  <2>4. chain \in Seq(B)
    BY <1>2, <2>3, SeqDef
  <2>5. chain' \in Seq(B) /\ Len(chain') = Len(chain) + 1
    BY <2>1, <2>3, <2>4, AppendProperties
  <2>6. chain' \in [1 .. Len(chain') -> B]
    BY <2>5, LenProperties
  <2>7. Tip' = Tip + 1
    BY <2>5 DEF Tip
  <2>8. Tip' \in 1 .. MaxHeight /\ head' \in 0 .. Tip' /\ lastSampled' \in 0 .. Tip'
    BY <1>1, <1>2, <2>2, <2>7
  <2> QED
    BY <2>2, <2>6, <2>8 DEF BoundsInv, B, Tip
<1>4. ASSUME UNCHANGED <<chain, every>>, faults' \in 0 .. MaxFaults, reloads' \in 0 .. MaxReloads,
             pc' \in {"loop", "head", "read", "sample", "change", "stopped"},
             head' \in 0 .. Tip, lastSampled' \in 0 .. Tip, outputDead' \in BOOLEAN
      PROVE  BoundsInv'
  BY <1>4 DEF BoundsInv, Tip
<1>5. CASE UNCHANGED vars
  BY <1>5, <1>4 DEF vars, env, tick, BoundsInv
<1>6. ASSUME NEW w \in WatchLists, QueueReload(w)
      PROVE  BoundsInv'
  <2>1. reloads' \in 0 .. MaxReloads
    BY <1>1, <1>6 DEF QueueReload, BoundsInv
  <2> QED
    BY <1>4, <1>6, <2>1 DEF QueueReload, tick, BoundsInv
<1>7. CASE ApplyPendingReload
  BY <1>4, <1>7 DEF ApplyPendingReload, env, tick, BoundsInv
<1>8. ASSUME NEW f, Hit(f)
      PROVE  faults' \in 0 .. MaxFaults
  BY <1>1, <1>8 DEF Hit, BoundsInv
<1>9. ASSUME NEW h \in 1 .. Tip, PollHead(h)
      PROVE  BoundsInv'
  <2>1. faults' \in 0 .. MaxFaults
    BY <1>8, <1>9 DEF PollHead, BoundsInv
  <2>2. head' \in 0 .. Tip /\ pc' \in {"loop", "read"}
    BY <1>2, <1>9 DEF PollHead, BoundsInv
  <2> QED
    BY <1>4, <1>9, <2>1, <2>2 DEF PollHead, BoundsInv
<1>10. CASE HeadFails
  BY <1>4, <1>8, <1>10 DEF HeadFails, tick, BoundsInv
<1>11. ASSUME NEW i \in DOMAIN Tasks(watch), ReadTarget(i)
       PROVE  BoundsInv'
  BY <1>4, <1>11 DEF ReadTarget, env, BoundsInv
<1>12. ASSUME NEW i \in DOMAIN Tasks(watch), NEW n \in 1 .. 3,
              NEW kind \in {"transient", "permanent"}, ReadFails(i, n, kind)
       PROVE  BoundsInv'
  <2>1. faults' \in 0 .. MaxFaults
    BY <1>8, <1>12 DEF ReadFails, BoundsInv
  <2> QED
    BY <1>4, <1>12, <2>1 DEF ReadFails, BoundsInv
<1>13. 0 \in 0 .. Tip
  BY <1>2
<1>14. CASE ReadsJudged
  BY <1>4, <1>13, <1>14 DEF ReadsJudged, Forget, env, tick, BoundsInv
<1>15. CASE EmitSample
  BY <1>4, <1>13, <1>15, CommitFrame DEF EmitSample, env, tick, BoundsInv
<1>16. CASE EmitChange
  BY <1>4, <1>13, <1>16, CommitFrame DEF EmitChange, env, BoundsInv
<1>17. CASE EmitFails
  <2>1. faults' \in 0 .. MaxFaults
    BY <1>8, <1>17 DEF EmitFails, BoundsInv
  <2>2. outputDead' \in BOOLEAN
    BY <1>17 DEF EmitFails, BoundsInv
  <2> QED
    BY <1>4, <1>13, <1>17, <2>1, <2>2 DEF EmitFails, Forget, BoundsInv
<1>18. CASE Stop
  BY <1>4, <1>13, <1>18 DEF Stop, Forget, env, BoundsInv
<1> QED
  BY <1>3, <1>5, <1>6, <1>7, <1>9, <1>10, <1>11, <1>12, <1>14, <1>15, <1>16, <1>17, <1>18
  DEF Next, Poller
-----------------------------------------------------------------------------
(* The readings of a tick. *)

LEMMA LenOfFunction ==
  ASSUME NEW n \in Nat, NEW f, f = [j \in 1 .. n |-> f[j]]
  PROVE  Len(f) = n
<1> DEFINE V == {f[j] : j \in 1 .. n}
<1>1. f \in [1 .. n -> V]
  OBVIOUS
<1> HIDE DEF V
<1>2. f \in Seq(V)
  BY <1>1, SeqDef
<1> QED
  BY <1>1, <1>2, LenProperties

LEMMA ReadToShape ==
  ASSUME ListInv, NEW i \in DOMAIN Tasks(watch)
  PROVE  /\ Len(TaskReads(i)) \in Nat \ {0} /\ DOMAIN TaskReads(i) = 1 .. Len(TaskReads(i))
         /\ DOMAIN ReadTo(i) = DOMAIN TaskReads(i)
         /\ Len(ReadTo(i)) = Len(TaskReads(i))
         /\ \A j \in DOMAIN TaskReads(i) :
              ReadTo(i)[j] = [read |-> TaskReads(i)[j], value |-> Value(TaskReads(i)[j], head)]
<1>1. IsTarget(Tasks(watch)[i]) /\ Tasks(watch)[i] \in TargetsOf(watch)
  BY ListTasks DEF ListInv
<1>2. TaskReads(i) # <<>>
  BY <1>1 DEF ListInv, ValidList, TaskReads
<1>3. Len(TaskReads(i)) \in Nat \ {0} /\ DOMAIN TaskReads(i) = 1 .. Len(TaskReads(i))
  BY <1>1, <1>2, ReadsShape DEF TaskReads
<1>4. ReadTo(i) = [j \in 1 .. Len(TaskReads(i)) |-> ReadTo(i)[j]]
  BY <1>3 DEF ReadTo
<1>5. Len(ReadTo(i)) = Len(TaskReads(i))
  BY <1>3, <1>4, LenOfFunction
<1> QED
  BY <1>3, <1>5 DEF ReadTo

\* The reading at the position is what a target of the list reads at the block of the tick.
LEMMA AtPosition ==
  ASSUME ListInv, BoundsInv, ResultsInv, pc \in {"sample", "change"}
  PROVE  /\ at[1] \in DOMAIN Tasks(watch) /\ at[2] \in DOMAIN TaskReads(at[1])
         /\ Len(results[at[1]].readings) = Len(TaskReads(at[1]))
         /\ Reading.read = TaskReads(at[1])[at[2]]
         /\ Reading.value = Value(Reading.read, head)
         /\ Reading.read \in ReadsIn(watch) /\ Reading.read.key \in Keys
         /\ Reading.value \in 0 .. MaxHeight
<1> DEFINE i == at[1]
           r == TaskReads(i)[at[2]]
<1>1. /\ i \in DOMAIN Tasks(watch) /\ at[2] \in DOMAIN TaskReads(i)
      /\ results[i].readings = ReadTo(i) /\ head \in 1 .. Tip
  BY DEF ResultsInv
<1>2. Reading = [read |-> r, value |-> Value(r, head)]
  BY <1>1, ReadToShape DEF Reading
<1>3. r \in ReadsIn(watch) /\ r.key \in Keys /\ r.subject \in Subjects /\ r.window \in Nat
  BY <1>1, ReadsAreReadable DEF ListInv, TaskReads
<1> HIDE DEF r
<1>4. Value(r, head) \in 0 .. MaxHeight
  BY <1>1, <1>3, ValueType
<1>5. Reading.read = r /\ Reading.value = Value(r, head)
  BY <1>2
<1>6. Len(results[i].readings) = Len(TaskReads(i))
  BY <1>1, ReadToShape
<1> QED
  BY <1>1, <1>3, <1>4, <1>5, <1>6 DEF r

\* The tick goes on with the next reading, or ends after the last one.
LEMMA Advance ==
  ASSUME ListInv, BoundsInv, ResultsInv, pc \in {"sample", "change"}, CommitAndAdvance
  PROVE  \/ /\ pc' = "sample" /\ UNCHANGED <<head, results, lastSampled>>
            /\ at' = <<at[1], at[2] + 1>> /\ at[2] + 1 \in DOMAIN TaskReads(at[1])
         \/ /\ pc' = "sample" /\ UNCHANGED <<head, results, lastSampled>>
            /\ at' = <<at[1] + 1, 1>> /\ at[2] = Len(TaskReads(at[1]))
            /\ at[1] + 1 \in DOMAIN Tasks(watch) /\ 1 \in DOMAIN TaskReads(at[1] + 1)
         \/ /\ pc' = "loop" /\ at' = <<1, 1>> /\ lastSampled' = head
            /\ at[1] = Len(Tasks(watch)) /\ at[2] = Len(TaskReads(at[1]))
<1> DEFINE i == at[1]
           n == Len(TaskReads(i))
<1>1. /\ i \in DOMAIN Tasks(watch) /\ at[2] \in DOMAIN TaskReads(i)
      /\ Len(results[i].readings) = n
  BY AtPosition
<1>2. Len(Tasks(watch)) \in Nat /\ DOMAIN Tasks(watch) = 1 .. Len(Tasks(watch))
  BY ListTasks DEF ListInv
<1>3. n \in Nat /\ DOMAIN TaskReads(i) = 1 .. n
  BY <1>1, ReadToShape
<1>4. ASSUME NEW k \in DOMAIN Tasks(watch)
      PROVE  1 \in DOMAIN TaskReads(k)
  <2>1. Len(TaskReads(k)) \in Nat \ {0} /\ DOMAIN TaskReads(k) = 1 .. Len(TaskReads(k))
    BY ReadToShape
  <2> QED
    BY <2>1
<1>5. CASE at[2] < n /\ UNCHANGED <<head, results, lastSampled>> /\ pc' = "sample"
           /\ at' = <<i, at[2] + 1>>
  BY <1>1, <1>3, <1>5
<1>6. CASE at[2] = n /\ i < Len(Tasks(watch)) /\ UNCHANGED <<head, results, lastSampled>>
           /\ pc' = "sample" /\ at' = <<i + 1, 1>>
  <2>1. i + 1 \in DOMAIN Tasks(watch)
    BY <1>1, <1>2, <1>6
  <2> QED
    BY <1>4, <1>6, <2>1
<1>7. CASE at[2] = n /\ i = Len(Tasks(watch)) /\ pc' = "loop" /\ lastSampled' = head /\ Forget
  BY <1>7 DEF Forget
<1> HIDE DEF n
<1> QED
  BY <1>1, <1>5, <1>6, <1>7 DEF CommitAndAdvance
\* A block that is mined changes no value read at an earlier one.
LEMMA MineKeepsValues ==
  ASSUME BoundsInv, Mine, NEW h \in 1 .. Tip, NEW q
  PROVE  Value(q, h)' = Value(q, h) /\ Tip' = Tip + 1 /\ Tip \in Nat
<1> DEFINE B == [Subjects -> {0, 1}]
<1>1. PICK block \in B : chain' = Append(chain, block)
  BY DEF Mine
<1>2. Len(chain) \in Nat /\ chain \in [1 .. Len(chain) -> B]
  BY BalanceAssumption DEF BoundsInv, Tip
<1> HIDE DEF B
<1>3. chain \in Seq(B)
  BY <1>2, SeqDef
<1>4. Tip' = Tip + 1 /\ \A b \in 1 .. Tip : chain'[b] = chain[b]
  BY <1>1, <1>3, AppendProperties DEF Tip
<1>5. h \in Nat /\ h >= 1 /\ \A b \in 1 .. h : chain'[b] = chain[b]
  BY <1>2, <1>4 DEF Tip
<1>6. Value(q, h)' = Value(q, h)
  BY <1>5, ValueKept
<1> QED
  BY <1>2, <1>4, <1>6 DEF Tip

LEMMA ResultsInit == Init => ResultsInv
  BY DEF Init, ResultsInv

\* What a change of the position needs: the readings stay.
LEMMA ResultsKept ==
  ASSUME ListInv, BoundsInv, ResultsInv, UNCHANGED <<chain, watch, results, head>>,
         pc \in {"sample", "change"}, pc' \in {"sample", "change"},
         (at[1])' \in DOMAIN Tasks(watch), (at[2])' \in DOMAIN TaskReads((at[1])')
  PROVE  ResultsInv'
  BY DEF ResultsInv, ReadTo, TaskReads, Value, Tip

LEMMA ResultsStep == ListInv /\ BoundsInv /\ ResultsInv /\ [Next]_vars => ResultsInv'
<1> SUFFICES ASSUME ListInv, BoundsInv, ResultsInv, [Next]_vars
             PROVE  ResultsInv'
  OBVIOUS
<1>1. CASE UNCHANGED <<chain, watch, pc, tick>>
  <2>1. UNCHANGED <<chain, watch, pc, head, results, at>>
    BY <1>1 DEF tick
  <2>2. \A k : ReadTo(k)' = ReadTo(k) /\ TaskReads(k)' = TaskReads(k)
    BY <2>1 DEF ReadTo, TaskReads, Value
  <2> QED
    BY <2>1, <2>2 DEF ResultsInv, Tip
<1>2. CASE pc' \notin {"read", "sample", "change"} /\ at' = <<1, 1>>
  BY <1>2 DEF ResultsInv
<1>3. CASE Mine
  <2>1. UNCHANGED <<watch, pc, head, results, at>>
    BY <1>3 DEF Mine, tick
  <2>2. CASE pc \in {"read", "sample", "change"}
    <3>1. head \in 1 .. Tip /\ head' = head
      BY <2>1, <2>2 DEF ResultsInv
    <3>2. head' \in 1 .. Tip'
      BY <1>3, <3>1, MineKeepsValues
    <3>3. ASSUME NEW i
          PROVE  ReadTo(i)' = ReadTo(i)
      <4>1. TaskReads(i)' = TaskReads(i)
        BY <2>1 DEF TaskReads
      <4>2. ASSUME NEW j \in DOMAIN TaskReads(i), NEW h, h = head
            PROVE  Value(TaskReads(i)[j], h)' = Value(TaskReads(i)[j], h)
        <5>1. (TaskReads(i)[j])' = TaskReads(i)[j]
          BY <4>1
        <5>2. ASSUME NEW q
              PROVE  Value(q, h)' = Value(q, h)
          BY <1>3, <3>1, <4>2, MineKeepsValues
        <5> QED
          BY <5>1, <5>2
      <4> QED
        BY <3>1, <4>1, <4>2 DEF ReadTo
    <3> QED
      BY <2>1, <3>1, <3>2, <3>3 DEF ResultsInv, TaskReads
  <2>3. CASE pc \notin {"read", "sample", "change"}
    BY <2>1, <2>3 DEF ResultsInv
  <2> QED
    BY <2>2, <2>3
<1>4. ASSUME NEW w \in WatchLists, QueueReload(w)
      PROVE  ResultsInv'
  BY <1>1, <1>4 DEF QueueReload
<1>5. CASE ApplyPendingReload
  BY <1>5 DEF ApplyPendingReload, tick, ResultsInv
<1>6. ASSUME NEW h \in 1 .. Tip, PollHead(h)
      PROVE  ResultsInv'
  BY <1>6 DEF PollHead, ResultsInv, Nothing, Tip
<1>7. CASE HeadFails
  BY <1>7 DEF HeadFails, tick, ResultsInv
<1>8. ASSUME NEW i \in DOMAIN Tasks(watch), NEW o, o.ok \in Outcomes,
             o.ok = "ok" => o.readings = ReadTo(i),
             pc = "read", results' = Put(results, i, o), UNCHANGED <<chain, watch, pc, head, at>>
      PROVE  ResultsInv'
  <2>1. DOMAIN results' = DOMAIN results \cup {i} /\ DOMAIN results' \subseteq DOMAIN Tasks(watch)
    BY <1>8 DEF Put, ResultsInv
  <2>2. ASSUME NEW k \in DOMAIN results'
        PROVE  results'[k].ok \in Outcomes
               /\ (results'[k].ok = "ok" => results'[k].readings = ReadTo(k))
    <3>1. CASE k = i
      BY <1>8, <2>1, <3>1 DEF Put
    <3>2. CASE k # i
      BY <1>8, <2>1, <3>2 DEF Put, ResultsInv
    <3> QED
      BY <3>1, <3>2
  <2>3. \A k : ReadTo(k)' = ReadTo(k)
    BY <1>8 DEF ReadTo, TaskReads, Value
  <2> QED
    BY <1>8, <2>1, <2>2, <2>3 DEF ResultsInv, Tip
<1>9. ASSUME NEW i \in DOMAIN Tasks(watch), ReadTarget(i)
      PROVE  ResultsInv'
  <2> DEFINE o == [ok |-> "ok", readings |-> ReadTo(i)]
  <2>1. results' = Put(results, i, o)
    BY <1>9 DEF ReadTarget, ReadTo, TaskReads
  <2>2. o.ok \in Outcomes /\ o.readings = ReadTo(i)
    BY DEF Outcomes
  <2> HIDE DEF o
  <2>3. pc = "read" /\ UNCHANGED <<chain, watch, pc, head, at>>
    BY <1>9 DEF ReadTarget, Running, env
  <2> QED
    BY <1>8, <2>1, <2>2, <2>3
<1>10. ASSUME NEW i \in DOMAIN Tasks(watch), NEW n \in 1 .. 3,
              NEW kind \in {"transient", "permanent"}, ReadFails(i, n, kind)
       PROVE  ResultsInv'
  <2> DEFINE o == [ok |-> kind, readings |-> <<>>]
  <2>1. results' = Put(results, i, o)
    BY <1>10 DEF ReadFails
  <2>2. o.ok \in Outcomes /\ o.ok # "ok"
    BY DEF Outcomes
  <2> HIDE DEF o
  <2>3. pc = "read" /\ UNCHANGED <<chain, watch, pc, head, at>>
    BY <1>10 DEF ReadFails, Running
  <2> QED
    BY <1>8, <2>1, <2>2, <2>3
<1>11. CASE ReadsJudged
  <2>1. CASE Forget /\ pc' \in {"loop", "stopped"}
    BY <1>2, <2>1 DEF Forget
  <2>2. CASE ~Some("permanent") /\ ~Some("transient") /\ pc' = "sample" /\ UNCHANGED tick
    <3>1. UNCHANGED <<chain, watch, head, results>> /\ at' = <<1, 1>> /\ pc = "read"
      BY <1>11, <2>2 DEF ReadsJudged, ReadsDone, env, tick, ResultsInv
    <3>2. DOMAIN results = DOMAIN Tasks(watch) /\ \A i \in DOMAIN results : results[i].ok = "ok"
      BY <1>11, <2>2, <3>1 DEF ReadsJudged, ReadsDone, Some, ResultsInv, Outcomes
    <3>3. 1 \in DOMAIN Tasks(watch)
      BY ListTasks DEF ListInv
    <3>4. 1 \in DOMAIN TaskReads(1)
      BY <3>3, ReadToShape
    <3>5. \A k : ReadTo(k)' = ReadTo(k) /\ TaskReads(k)' = TaskReads(k)
      BY <3>1 DEF ReadTo, TaskReads, Value
    <3>6. at'[1] = 1 /\ at'[2] = 1
      BY <3>1
    <3> QED
      BY <2>2, <3>1, <3>2, <3>3, <3>4, <3>5, <3>6 DEF ResultsInv, Tip
  <2> QED
    BY <1>11, <2>1, <2>2 DEF ReadsJudged
<1>12. ASSUME pc \in {"sample", "change"}, CommitAndAdvance, UNCHANGED <<chain, watch>>
       PROVE  ResultsInv'
  <2>1. \/ /\ pc' = "sample" /\ UNCHANGED <<head, results, lastSampled>>
           /\ at' = <<at[1], at[2] + 1>> /\ at[2] + 1 \in DOMAIN TaskReads(at[1])
        \/ /\ pc' = "sample" /\ UNCHANGED <<head, results, lastSampled>>
           /\ at' = <<at[1] + 1, 1>>
           /\ at[1] + 1 \in DOMAIN Tasks(watch) /\ 1 \in DOMAIN TaskReads(at[1] + 1)
        \/ pc' = "loop" /\ at' = <<1, 1>>
    BY <1>12, Advance
  <2>2. at[1] \in DOMAIN Tasks(watch)
    BY <1>12, AtPosition
  <2> QED
    BY <1>2, <1>12, <2>1, <2>2, ResultsKept
<1>13. CASE EmitSample
  <2>1. CASE Moved(Reading)
    <3>1. pc = "sample" /\ pc' = "change" /\ UNCHANGED <<chain, watch, head, results, at>>
      BY <1>13, <2>1 DEF EmitSample, env, tick
    <3>2. at[1] \in DOMAIN Tasks(watch) /\ at[2] \in DOMAIN TaskReads(at[1])
      BY <3>1, AtPosition
    <3> QED
      BY <3>1, <3>2, ResultsKept
  <2>2. CASE ~Moved(Reading)
    BY <1>12, <1>13, <2>2 DEF EmitSample, env
  <2> QED
    BY <2>1, <2>2
<1>14. CASE EmitChange
  BY <1>12, <1>14 DEF EmitChange, env
<1>15. CASE EmitFails
  BY <1>2, <1>15 DEF EmitFails, Forget
<1>16. CASE Stop
  BY <1>2, <1>16 DEF Stop, Forget
<1>17. CASE UNCHANGED vars
  BY <1>1, <1>17 DEF vars, env
<1> QED
  BY <1>3, <1>4, <1>5, <1>6, <1>7, <1>9, <1>10, <1>11, <1>13, <1>14, <1>15, <1>16, <1>17
  DEF Next, Poller
-----------------------------------------------------------------------------
(* What is kept per name. *)

LEMMA ReadSeries ==
  ASSUME ListInv, NEW i \in DOMAIN Tasks(watch), NEW J, J \subseteq DOMAIN TaskReads(i)
  PROVE  /\ UNION {TaskReads(i)[j].series : j \in J} \subseteq AllSeries
         /\ UNION {TaskReads(i)[j].series : j \in J} \subseteq UNION {r.series : r \in ReadsIn(watch)}
<1>1. ASSUME NEW j \in J
      PROVE  TaskReads(i)[j] \in ReadsIn(watch) /\ TaskReads(i)[j].series \subseteq AllSeries
  BY ReadsAreReadable DEF ListInv, TaskReads
<1> QED
  BY <1>1

\* The series that a task publishes, all of them or those of the calls before the failed one.
LEMMA Published ==
  ASSUME ListInv, NEW i \in DOMAIN Tasks(watch),
         ReadTarget(i) \/ \E n \in 1 .. 3, kind \in {"transient", "permanent"} : ReadFails(i, n, kind)
  PROVE  /\ UNCHANGED <<watch, prior, told>>
         /\ \E S : /\ series' = series \cup S
                   /\ S \subseteq AllSeries /\ S \subseteq UNION {r.series : r \in ReadsIn(watch)}
<1>1. CASE ReadTarget(i)
  <2> DEFINE S == UNION {TaskReads(i)[j].series : j \in DOMAIN TaskReads(i)}
  <2>1. series' = series \cup S /\ UNCHANGED <<watch, prior, told>>
    BY <1>1 DEF ReadTarget, TaskReads
  <2>2. S \subseteq AllSeries /\ S \subseteq UNION {r.series : r \in ReadsIn(watch)}
    BY ReadSeries
  <2> HIDE DEF S
  <2> QED
    BY <2>1, <2>2
<1>2. ASSUME NEW n \in 1 .. 3, NEW kind \in {"transient", "permanent"}, ReadFails(i, n, kind)
      PROVE  /\ UNCHANGED <<watch, prior, told>>
             /\ \E S : /\ series' = series \cup S
                       /\ S \subseteq AllSeries /\ S \subseteq UNION {r.series : r \in ReadsIn(watch)}
  <2> DEFINE J == 1 .. n - 1
             S == UNION {TaskReads(i)[j].series : j \in J}
  <2>1. series' = series \cup S /\ UNCHANGED <<watch, prior, told>> /\ n \in DOMAIN TaskReads(i)
    BY <1>2 DEF ReadFails, TaskReads
  <2>2. Len(TaskReads(i)) \in Nat /\ DOMAIN TaskReads(i) = 1 .. Len(TaskReads(i))
    BY ReadToShape
  <2>3. J \subseteq DOMAIN TaskReads(i)
    BY <2>1, <2>2
  <2> HIDE DEF J
  <2>4. S \subseteq AllSeries /\ S \subseteq UNION {r.series : r \in ReadsIn(watch)}
    BY <2>3, ReadSeries
  <2> HIDE DEF S
  <2> QED
    BY <2>1, <2>4
<1> QED
  BY <1>1, <1>2

\* A write, of a sample or of a change.
LEMMA Written ==
  ASSUME TickInv, EmitSample \/ EmitChange
  PROVE  /\ pc \in {"sample", "change"} /\ UNCHANGED <<chain, watch, series>>
         /\ \/ prior' = prior /\ pc' = "change" /\ told' = told /\ UNCHANGED <<tick, lastSampled>>
            \/ CommitAndAdvance /\ prior' = Put(prior, Reading.read.key, Reading.value)
         /\ told' = told \/ told' = Put(told, Reading.read.key, Reading.value)
<1>1. CASE EmitSample
  BY <1>1 DEF EmitSample, CommitAndAdvance, env, Moved
<1>2. CASE EmitChange
  BY <1>2 DEF EmitChange, CommitAndAdvance, env
<1> QED
  BY <1>1, <1>2

LEMMA KnownInit == Init => KnownInv
  BY DEF Init, KnownInv, Nothing

LEMMA KnownStep == TickInv /\ KnownInv /\ [Next]_vars => KnownInv'
<1> SUFFICES ASSUME TickInv, KnownInv, [Next]_vars
             PROVE  KnownInv'
  OBVIOUS
<1> USE DEF TickInv
<1>1. CASE UNCHANGED <<prior, told, series>>
  BY <1>1 DEF KnownInv
<1>2. CASE ApplyPendingReload
  <2>1. /\ DOMAIN prior' \subseteq DOMAIN prior /\ \A k \in DOMAIN prior' : prior'[k] = prior[k]
        /\ told' = told /\ series' \subseteq series
    BY <1>2 DEF ApplyPendingReload, Without
  <2> QED
    BY <2>1 DEF KnownInv
<1>3. ASSUME NEW i \in DOMAIN Tasks(watch),
             ReadTarget(i) \/ \E n \in 1 .. 3, kind \in {"transient", "permanent"} : ReadFails(i, n, kind)
      PROVE  KnownInv'
  BY <1>3, Published DEF KnownInv
<1>4. CASE EmitSample \/ EmitChange
  <2>1. Reading.read.key \in Keys /\ Reading.value \in 0 .. MaxHeight
    BY <1>4, Written, AtPosition
  <2>2. ASSUME NEW f, NEW k \in Keys, NEW v \in 0 .. MaxHeight,
               DOMAIN f \subseteq Keys, \A x \in DOMAIN f : f[x] \in 0 .. MaxHeight
        PROVE  /\ DOMAIN Put(f, k, v) \subseteq Keys
               /\ \A x \in DOMAIN Put(f, k, v) : Put(f, k, v)[x] \in 0 .. MaxHeight
    BY <2>2 DEF Put
  <2>3. DOMAIN prior' \subseteq Keys /\ \A k \in DOMAIN prior' : prior'[k] \in 0 .. MaxHeight
    <3>1. prior' = prior \/ prior' = Put(prior, Reading.read.key, Reading.value)
      BY <1>4, Written
    <3> QED
      BY <2>1, <2>2, <3>1 DEF KnownInv
  <2>4. DOMAIN told' \subseteq Keys /\ \A k \in DOMAIN told' : told'[k] \in 0 .. MaxHeight
    <3>1. told' = told \/ told' = Put(told, Reading.read.key, Reading.value)
      BY <1>4, Written
    <3> QED
      BY <2>1, <2>2, <3>1 DEF KnownInv
  <2>5. series' = series
    BY <1>4, Written
  <2> QED
    BY <2>3, <2>4, <2>5 DEF KnownInv
<1>5. \/ UNCHANGED <<prior, told, series>> \/ ApplyPendingReload \/ EmitSample \/ EmitChange
      \/ \E i \in DOMAIN Tasks(watch) :
           ReadTarget(i) \/ \E n \in 1 .. 3, kind \in {"transient", "permanent"} : ReadFails(i, n, kind)
  BY DEF Next, Poller, vars, Mine, QueueReload, Stop, PollHead, HeadFails, ReadsJudged, EmitFails
<1> QED
  BY <1>1, <1>2, <1>3, <1>4, <1>5

LEMMA TickInit == Init => TickInv
  BY ListInit, BoundsInit, ResultsInit DEF TickInv

LEMMA TickStep == TickInv /\ [Next]_vars => TickInv'
  BY ListStep, BoundsStep, ResultsStep DEF TickInv

(***************************************************************************)
(* Types of the state; the position in the readings of a tick is one of    *)
(* them: the list in use does not change while a tick writes (sampleAll).  *)
(***************************************************************************)
THEOREM TypeCorrect == Spec => []TypeOK
<1>1. Init => TickInv /\ KnownInv
  BY TickInit, KnownInit
<1>2. TickInv /\ KnownInv /\ [Next]_vars => (TickInv /\ KnownInv)'
  BY TickStep, KnownStep
<1>3. TickInv /\ KnownInv => TypeOK
  <2> SUFFICES ASSUME TickInv, KnownInv PROVE TypeOK
    OBVIOUS
  <2> USE DEF TickInv
  <2>1. {watch, queued} \subseteq WatchLists /\ pendingWatch \in WatchLists \cup {NoList}
    BY DEF ListInv
  <2>2. pc \in {"read", "sample", "change"} => head # 0
    BY DEF ResultsInv, BoundsInv
  <2>3. ASSUME pc \in {"sample", "change"}
        PROVE  at[1] \in DOMAIN results /\ at[2] \in DOMAIN results[at[1]].readings
    <3>1. /\ at[1] \in DOMAIN results /\ results[at[1]].readings = ReadTo(at[1])
          /\ at[2] \in DOMAIN TaskReads(at[1])
      BY <2>3 DEF ResultsInv
    <3> QED
      BY <3>1 DEF ReadTo
  <2>4. chain \in [1 .. Tip -> [Subjects -> {0, 1}]] /\ Tip \in 1 .. MaxHeight
    BY DEF BoundsInv
  <2> QED
    BY <2>1, <2>2, <2>3, <2>4 DEF TypeOK, BoundsInv, KnownInv
<1> QED
  BY <1>1, <1>2, <1>3, PTL DEF Spec
-----------------------------------------------------------------------------
(* A reload leaves nothing of a removed target. *)

LEMMA BaselinesStep == TickInv /\ BaselinesInv /\ [Next]_vars => BaselinesInv'
<1> SUFFICES ASSUME TickInv, BaselinesInv, [Next]_vars
             PROVE  BaselinesInv'
  OBVIOUS
<1> USE DEF TickInv
<1>1. CASE UNCHANGED <<prior, watch>>
  BY <1>1 DEF BaselinesInv
<1>2. CASE ApplyPendingReload /\ pendingWatch # NoList
  <2>1. watch' = pendingWatch /\ prior' = Without(prior, StaleBaselines(pendingWatch))
    BY <1>2 DEF ApplyPendingReload
  <2> SUFFICES ASSUME NEW k \in DOMAIN prior'
               PROVE  \E u \in TargetsOf(watch') : k[1] \in Prefixes(u) /\ k[2] = u.name
    BY DEF BaselinesInv
  <2>2. k \in DOMAIN prior /\ k \notin StaleBaselines(pendingWatch)
    BY <2>1 DEF Without
  <2>3. PICK t \in TargetsOf(watch) : k[1] \in Prefixes(t) /\ k[2] = t.name
    BY <2>2 DEF BaselinesInv
  <2>4. ~Gone(t, pendingWatch)
    BY <2>2, <2>3 DEF StaleBaselines
  <2>5. PICK u \in TargetsOf(pendingWatch) : u.type = t.type /\ u.name = t.name
    BY <2>4 DEF Gone
  <2>6. Prefixes(u) = Prefixes(t)
    BY <2>5 DEF Prefixes
  <2> QED
    BY <2>1, <2>3, <2>5, <2>6
<1>3. CASE EmitSample \/ EmitChange
  <2> DEFINE t == Tasks(watch)[at[1]]
             key == Reading.read.key
  <2>1. at[1] \in DOMAIN Tasks(watch) /\ at[2] \in DOMAIN TaskReads(at[1])
        /\ Reading.read = TaskReads(at[1])[at[2]] /\ watch' = watch
    BY <1>3, Written, AtPosition
  <2>2. t \in TargetsOf(watch) /\ IsTarget(t)
    BY <2>1, ListTasks DEF ListInv
  <2>3. BelongsTo(Reading.read, t)
    BY <2>1, <2>2, ReadsShape DEF TaskReads
  <2>4. key[1] \in Prefixes(t) /\ key[2] = t.name
    BY <2>3 DEF BelongsTo
  <2>5. prior' = prior \/ prior' = Put(prior, key, Reading.value)
    BY <1>3, Written
  <2> HIDE DEF t, key
  <2>6. DOMAIN prior' \subseteq DOMAIN prior \cup {key}
    BY <2>5 DEF Put
  <2> QED
    BY <2>1, <2>2, <2>4, <2>6 DEF BaselinesInv
<1>4. \/ UNCHANGED <<prior, watch>> \/ EmitSample \/ EmitChange
      \/ ApplyPendingReload /\ pendingWatch # NoList
  BY DEF Next, Poller, vars, Mine, QueueReload, Stop, PollHead, HeadFails, ReadsJudged, EmitFails,
     ReadTarget, ReadFails, ApplyPendingReload
<1> QED
  BY <1>1, <1>2, <1>3, <1>4

LEMMA SeriesStep ==
  ASSUME NamesKeep
  PROVE  TickInv /\ SeriesInv /\ [Next]_vars => SeriesInv'
<1> SUFFICES ASSUME TickInv, SeriesInv, [Next]_vars
             PROVE  SeriesInv'
  OBVIOUS
<1> USE DEF TickInv
<1>1. CASE UNCHANGED <<series, watch>>
  BY <1>1 DEF SeriesInv
<1>2. CASE ApplyPendingReload /\ pendingWatch # NoList
  <2> DEFINE w == pendingWatch
  <2>1. watch' = w /\ series' = series \ StaleSeries(w) /\ w \in WatchLists /\ watch \in WatchLists
    BY <1>2 DEF ApplyPendingReload, ListInv
  <2> SUFFICES ASSUME NEW s \in series'
               PROVE  \E r \in ReadsIn(w) : s \in r.series
    BY <2>1 DEF SeriesInv
  <2>2. s \in series /\ s \notin StaleSeries(w)
    BY <2>1
  <2>3. PICK r \in ReadsIn(watch) : s \in r.series
    BY <2>2 DEF SeriesInv
  <2>4. PICK t \in TargetsOf(watch) : \E j \in DOMAIN ReadsOf(t) : r = ReadsOf(t)[j]
    BY DEF ReadsIn
  <2>5. IsTarget(t)
    BY <2>1, BalanceAssumption
  <2>6. s[1] \in Prefixes(t) /\ s[2] = t.name /\ s[3] = t.addr
    BY <2>3, <2>4, <2>5, ReadsShape DEF BelongsTo
  <2>7. ~Gone(t, w) /\ ~Rewindowed(t, w)
    BY <2>2, <2>6 DEF StaleSeries
  <2>8. PICK u \in TargetsOf(w) : u.type = t.type /\ u.name = t.name
    BY <2>7 DEF Gone
  <2>9. t.type = "contract" => t.window = u.window
    BY <2>7, <2>8 DEF Rewindowed
  <2>10. /\ t.addr = u.addr
         /\ t.type = "contract" => t.nativeBalance = u.nativeBalance /\ t.tokenSupply = u.tokenSupply
    BY <2>1, <2>8 DEF NamesKeep
  <2>11. ReadsOf(t) = ReadsOf(u)
    BY <2>5, <2>8, <2>9, <2>10, SameReads
  <2>12. r \in ReadsIn(w)
    BY <2>4, <2>8, <2>11 DEF ReadsIn
  <2> QED
    BY <2>3, <2>12
<1>3. ASSUME NEW i \in DOMAIN Tasks(watch),
             ReadTarget(i) \/ \E n \in 1 .. 3, kind \in {"transient", "permanent"} : ReadFails(i, n, kind)
      PROVE  SeriesInv'
  <2>1. PICK S : series' = series \cup S /\ S \subseteq UNION {r.series : r \in ReadsIn(watch)}
    BY <1>3, Published
  <2>2. watch' = watch
    BY <1>3, Published
  <2> QED
    BY <2>1, <2>2 DEF SeriesInv
<1>4. \/ UNCHANGED <<series, watch>>
      \/ ApplyPendingReload /\ pendingWatch # NoList
      \/ \E i \in DOMAIN Tasks(watch) :
           ReadTarget(i) \/ \E n \in 1 .. 3, kind \in {"transient", "permanent"} : ReadFails(i, n, kind)
  BY DEF Next, Poller, vars, Mine, QueueReload, Stop, PollHead, HeadFails, ReadsJudged, EmitFails,
     EmitSample, EmitChange, ApplyPendingReload
<1> QED
  BY <1>1, <1>2, <1>3, <1>4

(***************************************************************************)
(* A removed target leaves no gauge series and no change baseline behind   *)
(* (resetRemoved), and without a reload to adopt the poller runs the list  *)
(* of the last one, when a name keeps its address and its fields from one  *)
(* list to the next: resetRemoved looks at names, and at the window.       *)
(***************************************************************************)
THEOREM NothingStale ==
  ASSUME NamesKeep
  PROVE  Spec => []NothingLeftBehind
<1> DEFINE I == TickInv /\ BaselinesInv /\ SeriesInv
<1>1. Init => I
  <2>1. Init => BaselinesInv /\ SeriesInv
    BY DEF Init, BaselinesInv, SeriesInv, Nothing
  <2> QED
    BY <2>1, TickInit
<1>2. I /\ [Next]_vars => I'
  BY TickStep, BaselinesStep, SeriesStep
<1>3. I => NothingLeftBehind
  BY DEF TickInv, ListInv, BaselinesInv, SeriesInv, NothingLeftBehind
<1> QED
  BY <1>1, <1>2, <1>3, PTL DEF Spec
-----------------------------------------------------------------------------
(* A tick tells every reading. *)

\* The reading at the position is told by the step that commits it.
LEMMA CommitTells ==
  ASSUME TickInv, BaselineIsTold, EmitSample \/ EmitChange, CommitAndAdvance
  PROVE  /\ Reading.read.key \in DOMAIN told' /\ told'[Reading.read.key] = Reading.value
         /\ \A k \in DOMAIN told : k # Reading.read.key => k \in DOMAIN told' /\ told'[k] = told[k]
<1> DEFINE key == Reading.read.key
<1>1. CASE told' = Put(told, key, Reading.value)
  BY <1>1 DEF Put
<1>2. CASE EmitSample /\ key \in DOMAIN prior
  <2>1. CASE Moved(Reading)
    BY <1>2, <2>1 DEF EmitSample, CommitAndAdvance
  <2>2. CASE ~Moved(Reading)
    <3>1. told' = told /\ prior[key] = Reading.value
      BY <1>2, <2>2 DEF EmitSample, Moved
    <3> QED
      BY <1>2, <3>1 DEF BaselineIsTold
  <2> QED
    BY <2>1, <2>2
<1> QED
  BY <1>1, <1>2 DEF EmitSample, EmitChange

\* What holds at the end of a tick and, of the readings so far, all along it.
Told(i, j) ==
  /\ TaskReads(i)[j].key \in DOMAIN told
  /\ told[TaskReads(i)[j].key] = Value(TaskReads(i)[j], head)

LEMMA CommitKeepsReadings ==
  ASSUME KeysDistinct, TickInv, BaselineIsTold, ToldInv, EmitSample \/ EmitChange, CommitAndAdvance,
         NEW i \in DOMAIN Tasks(watch), NEW j \in DOMAIN TaskReads(i),
         i < at[1] \/ (i = at[1] /\ j <= at[2])
  PROVE  /\ TaskReads(i)[j].key \in DOMAIN told'
         /\ told'[TaskReads(i)[j].key] = Value(TaskReads(i)[j], head)
<1> DEFINE r == TaskReads(i)[j]
           q == Reading.read
<1>1. /\ pc \in {"sample", "change"} /\ q \in ReadsIn(watch) /\ Reading.value = Value(q, head)
      /\ q = TaskReads(at[1])[at[2]]
  BY Written, AtPosition DEF TickInv
<1>2. r \in ReadsIn(watch)
  BY ReadsAreReadable DEF TickInv, ListInv, TaskReads
<1>3. /\ q.key \in DOMAIN told' /\ told'[q.key] = Reading.value
      /\ \A k \in DOMAIN told : k # q.key => k \in DOMAIN told' /\ told'[k] = told[k]
  BY CommitTells
<1>4. r.key = q.key => r = q
  BY <1>1, <1>2 DEF KeysDistinct, TickInv, ListInv
<1>5. CASE r.key = q.key
  <2> HIDE DEF r, q
  <2> QED
    BY <1>1, <1>3, <1>4, <1>5 DEF r
<1>6. CASE r.key # q.key
  <2>1. i < at[1] \/ (i = at[1] /\ j < at[2])
    <3>1. ~(i = at[1] /\ j = at[2])
      BY <1>1, <1>6
    <3>2. i \in Nat /\ at[1] \in Nat /\ j \in Nat /\ at[2] \in Nat
      <4>1. at[1] \in DOMAIN Tasks(watch) /\ at[2] \in DOMAIN TaskReads(at[1])
        BY <1>1, AtPosition DEF TickInv
      <4>2. DOMAIN Tasks(watch) \subseteq Nat
        BY ListTasks DEF TickInv, ListInv
      <4>3. \A k \in DOMAIN Tasks(watch) : DOMAIN TaskReads(k) \subseteq Nat
        BY ReadToShape DEF TickInv
      <4> QED
        BY <4>1, <4>2, <4>3
    <3> QED
      BY <3>1, <3>2
  <2>2. r.key \in DOMAIN told /\ told[r.key] = Value(r, head)
    BY <1>1, <2>1 DEF ToldInv
  <2> HIDE DEF r, q
  <2> QED
    BY <1>3, <1>6, <2>2 DEF r
<1> QED
  BY <1>5, <1>6

LEMMA ToldStep ==
  ASSUME KeysDistinct
  PROVE  TickInv /\ BaselineIsTold /\ ToldInv /\ [Next]_vars => ToldInv'
<1> SUFFICES ASSUME TickInv, BaselineIsTold, ToldInv, [Next]_vars
             PROVE  ToldInv'
  OBVIOUS
<1> DEFINE Writing == pc \in {"sample", "change"}
<1>1. CASE ~Writing'
  BY <1>1 DEF ToldInv
<1>2. ASSUME UNCHANGED <<chain, watch, head, at, told>>, Writing
      PROVE  ToldInv'
  BY <1>2 DEF ToldInv, TaskReads, Value
<1>3. CASE Mine
  <2>1. UNCHANGED <<watch, pc, head, at, told>>
    BY <1>3 DEF Mine, tick
  <2>2. CASE Writing
    <3>1. head \in 1 .. Tip
      BY <2>2 DEF TickInv, ResultsInv
    <3>2. ASSUME NEW q, NEW h, h = head
          PROVE  Value(q, h)' = Value(q, h)
      BY <1>3, <3>1, <3>2, MineKeepsValues DEF TickInv
    <3>3. ASSUME NEW i \in DOMAIN Tasks(watch), NEW j \in DOMAIN TaskReads(i)
          PROVE  /\ Value(TaskReads(i)[j], head)' = Value(TaskReads(i)[j], head)
                 /\ TaskReads(i)' = TaskReads(i)
      <4>1. TaskReads(i)' = TaskReads(i) /\ head' = head
        BY <2>1 DEF TaskReads
      <4> DEFINE q == TaskReads(i)[j]
      <4>2. q' = q
        BY <4>1
      <4> HIDE DEF q
      <4>3. Value(q, head)' = Value(q, head)
        BY <3>2, <4>1, <4>2
      <4> QED
        BY <4>1, <4>3 DEF q
    <3> QED
      BY <2>1, <2>2, <3>3 DEF ToldInv, TaskReads
  <2> QED
    BY <1>1, <2>1, <2>2
<1>4. CASE ReadsJudged
  <2>1. CASE Writing'
    <3>1. at' = <<1, 1>> /\ watch' = watch
      BY <1>4, <2>1 DEF ReadsJudged, ReadsDone, Forget, tick, TickInv, ResultsInv
    <3>2. DOMAIN Tasks(watch) \subseteq Nat \ {0}
      BY ListTasks DEF TickInv, ListInv
    <3>3. \A i \in DOMAIN Tasks(watch) : DOMAIN TaskReads(i) \subseteq Nat \ {0}
      BY ReadToShape DEF TickInv
    <3>4. \A i \in Nat \ {0}, j \in Nat \ {0} : ~(i < 1 \/ (i = 1 /\ j < 1))
      OBVIOUS
    <3>5. at'[1] = 1 /\ at'[2] = 1
      BY <3>1
    <3>6. \A i : TaskReads(i)' = TaskReads(i)
      BY <3>1 DEF TaskReads
    <3> QED
      BY <3>1, <3>2, <3>3, <3>4, <3>5, <3>6 DEF ToldInv
  <2> QED
    BY <1>1, <2>1
<1>5. CASE EmitSample \/ EmitChange
  <2>1. Writing /\ UNCHANGED <<chain, watch>>
    BY <1>5, Written
  <2>2. CASE told' = told /\ UNCHANGED tick
    BY <1>2, <2>1, <2>2 DEF tick
  <2>3. CASE CommitAndAdvance /\ Writing'
    <3>1. /\ at[1] \in DOMAIN Tasks(watch) /\ at[2] \in DOMAIN TaskReads(at[1])
          /\ head' = head
          /\ \/ at' = <<at[1], at[2] + 1>>
             \/ at' = <<at[1] + 1, 1>> /\ at[2] = Len(TaskReads(at[1]))
      BY <2>1, <2>3, Advance, AtPosition DEF TickInv
    <3>2. DOMAIN Tasks(watch) \subseteq Nat
      BY ListTasks DEF TickInv, ListInv
    <3>3. \A i \in DOMAIN Tasks(watch) : /\ DOMAIN TaskReads(i) = 1 .. Len(TaskReads(i))
                                         /\ Len(TaskReads(i)) \in Nat
      BY ReadToShape DEF TickInv
    <3>4. ASSUME NEW i \in DOMAIN Tasks(watch), NEW j \in DOMAIN TaskReads(i),
                 i < at'[1] \/ (i = at'[1] /\ j < at'[2])
          PROVE  /\ TaskReads(i)[j].key \in DOMAIN told'
                 /\ told'[TaskReads(i)[j].key] = Value(TaskReads(i)[j], head)
      <4>1. i \in Nat /\ at[1] \in Nat /\ j \in Nat /\ at[2] \in Nat /\ j >= 1
            /\ j <= Len(TaskReads(i)) /\ Len(TaskReads(at[1])) \in Nat
        BY <3>1, <3>2, <3>3
      <4>2. i < at[1] \/ (i = at[1] /\ j <= at[2])
        <5>1. CASE at' = <<at[1], at[2] + 1>>
          BY <3>4, <4>1, <5>1
        <5>2. CASE at' = <<at[1] + 1, 1>> /\ at[2] = Len(TaskReads(at[1]))
          BY <3>4, <4>1, <5>2
        <5> QED
          BY <3>1, <5>1, <5>2
      <4> QED
        BY <1>5, <2>3, <4>2, CommitKeepsReadings
    <3>5. \A i : TaskReads(i)' = TaskReads(i)
      BY <2>1 DEF TaskReads
    <3>6. \A i, j : Value(TaskReads(i)[j], head)' = Value(TaskReads(i)[j], head)
      BY <2>1, <3>1, <3>5 DEF Value
    <3> QED
      BY <2>1, <3>4, <3>5, <3>6 DEF ToldInv
  <2> QED
    BY <1>1, <1>5, <2>2, <2>3, Written
<1>6. \/ ~Writing' \/ Mine \/ ReadsJudged \/ EmitSample \/ EmitChange
      \/ Writing /\ UNCHANGED <<chain, watch, head, at, told>>
  BY DEF Next, Poller, vars, env, tick, QueueReload, ApplyPendingReload, Stop, PollHead, HeadFails,
     EmitFails, ReadTarget, ReadFails, Running
<1> QED
  BY <1>1, <1>2, <1>3, <1>4, <1>5, <1>6
-----------------------------------------------------------------------------
(***************************************************************************)
(* When a tick has ended, the output has been told for every target the    *)
(* value at the block of the tick (sampleAll), if no two targets of a list *)
(* share a type and a name: change detection is by name.                   *)
(***************************************************************************)
THEOREM TickIsWhole ==
  ASSUME KeysDistinct
  PROVE  Spec => TickTellsAll
<1> DEFINE I == TickInv /\ BaselineIsTold /\ ToldInv
           Ended == lastSampled' # lastSampled \/ (pc \in {"sample", "change"} /\ pc' = "loop" /\ ~outputDead')
           Step == Ended => \A r \in ReadsIn(watch) : told'[r.key] = Value(r, head)
<1>1. Init => I
  <2>1. Init => BaselineIsTold /\ ToldInv
    BY DEF Init, BaselineIsTold, ToldInv, Nothing
  <2> QED
    BY <2>1, TickInit
<1>2. I /\ [Next]_vars => I'
  BY TickStep, BaselineStep, ToldStep
<1>3. I /\ [Next]_vars => [Step]_vars
  <2> SUFFICES ASSUME I, [Next]_vars, Ended, NEW r \in ReadsIn(watch)
               PROVE  told'[r.key] = Value(r, head)
    OBVIOUS
  <2>1. (EmitSample \/ EmitChange) /\ CommitAndAdvance /\ pc' # "sample"
    <3>1. EmitSample \/ EmitChange
      <4>1. CASE lastSampled' # lastSampled
        BY <4>1 DEF Next, Poller, vars, Mine, QueueReload, ApplyPendingReload, Stop, PollHead,
           HeadFails, EmitFails, ReadTarget, ReadFails, ReadsJudged
      <4>2. CASE pc \in {"sample", "change"} /\ pc' = "loop" /\ ~outputDead'
        <5>1. ~EmitFails
          BY <4>2 DEF EmitFails
        <5>2. ~UNCHANGED vars /\ ~Mine /\ ~Stop /\ ~ApplyPendingReload /\ ~HeadFails /\ ~ReadsJudged
          BY <4>2 DEF vars, Mine, Stop, ApplyPendingReload, HeadFails, ReadsJudged, ReadsDone
        <5>3. \A w \in WatchLists : ~QueueReload(w)
          BY <4>2 DEF QueueReload
        <5>4. /\ \A h : ~PollHead(h)
              /\ \A i : ~ReadTarget(i)
              /\ \A i, n, kind : ~ReadFails(i, n, kind)
          BY <4>2 DEF PollHead, ReadTarget, ReadFails, Running
        <5> QED
          BY <5>1, <5>2, <5>3, <5>4 DEF Next, Poller
      <4> QED
        BY <4>1, <4>2
    <3>2. CommitAndAdvance \/ (pc' = "change" /\ UNCHANGED lastSampled)
      BY <3>1, Written
    <3> QED
      BY <3>1, <3>2 DEF CommitAndAdvance
  <2>2. pc \in {"sample", "change"} /\ at[1] = Len(Tasks(watch)) /\ at[2] = Len(TaskReads(at[1]))
        /\ at[1] \in DOMAIN Tasks(watch)
    BY <2>1, Written, Advance, AtPosition DEF TickInv
  <2>3. PICK i \in DOMAIN Tasks(watch) : \E j \in DOMAIN TaskReads(i) : r = TaskReads(i)[j]
    BY ReadableByTask DEF TaskReads
  <2>4. PICK j \in DOMAIN TaskReads(i) : r = TaskReads(i)[j]
    BY <2>3
  <2>5. i < at[1] \/ (i = at[1] /\ j <= at[2])
    <3>1. DOMAIN Tasks(watch) = 1 .. Len(Tasks(watch)) /\ Len(Tasks(watch)) \in Nat
      BY ListTasks DEF TickInv, ListInv
    <3>2. DOMAIN TaskReads(i) = 1 .. Len(TaskReads(i)) /\ Len(TaskReads(i)) \in Nat
      BY ReadToShape DEF TickInv
    <3>3. i <= at[1] /\ i \in Nat /\ at[1] \in Nat
      BY <2>2, <3>1
    <3>4. j <= Len(TaskReads(i)) /\ j \in Nat
      BY <3>2
    <3> QED
      BY <2>2, <3>3, <3>4
  <2> QED
    BY <2>1, <2>4, <2>5, CommitKeepsReadings
<1> QED
  BY <1>1, <1>2, <1>3, PTL DEF Spec, TickTellsAll
=============================================================================
