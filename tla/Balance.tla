------------------------------ MODULE Balance ------------------------------
(***************************************************************************)
(* The evm-balance poller (internal/balance): every tick it reads all its  *)
(* targets at one block, in parallel, and then writes one sample record    *)
(* per reading and one change record per reading that differs from the     *)
(* last one it told its output about.  SIGHUP stages another target list,  *)
(* which the poller adopts between two ticks.                              *)
(*                                                                         *)
(* Abstractions.  A subject is what one call reads (a balance, a supply, a *)
(* transfer count over a window, an owner); its value at a block is 0 or   *)
(* 1, for a transfer count the transfers in that block.  Decimals,         *)
(* formatting and the header fetched for a timestamp are left out: none of *)
(* them decides what is written.  A contract's calls are one step.         *)
(* Waiting (ticker, backoff) is the absence of a step.                     *)
(***************************************************************************)
EXTENDS Integers, Sequences, FiniteSets

CONSTANTS
  WatchLists,     \* target lists the configuration file may hold
  Cadences,       \* every_blocks of the runs to examine; 0 stands for interval
  MaxConcurrency, \* balance.max_concurrency
  Faults,         \* kinds of failure the environment produces
  MaxHeight,      \* bound: the chain grows no higher
  MaxFaults,      \* bound: transient failures of one behaviour
  MaxReloads      \* bound: reloads of one behaviour

\* head, read: the RPC fails; lag: eth_blockNumber answers with an old height;
\* empty: a target answers 0x (not a contract); emit: a write fails with an
\* error other than a broken pipe, epipe: with one; stop: a signal.
FaultKinds == {"head", "read", "lag", "empty", "emit", "epipe", "stop"}

(***************************************************************************)
(* One operator per read function: the type of its records, the change-    *)
(* detection key (a prefix and the configured name), what it reads, its    *)
(* gauge series (none for an owner), the window it counts over, and        *)
(* whether it is an eth_call, whose answer may be empty.                   *)
(***************************************************************************)
Read(record, prefix, t, what, window, call) ==
  [record |-> record, key |-> <<prefix, t.name>>, subject |-> <<what, t.addr>>,
   series |-> IF record = "ownership" THEN {} ELSE {<<prefix, t.name, t.addr, window>>},
   window |-> window, call |-> call]

ReadNative(t)                == Read("balance", "native", t, "ether", 0, FALSE)
ReadERC20(t)                 == Read("balance", "erc20", t, "tokens", 0, TRUE)
ReadERC721Balance(t)         == Read("balance", "erc721-balance", t, "tokens", 0, TRUE)
ReadERC721Ownership(t)       == Read("ownership", "erc721-ownership", t, "owner", 0, TRUE)
ReadContractNative(t)        == Read("contract", "contract-native", t, "ether", 0, FALSE)
ReadContractSupply(t)        == Read("contract", "contract-supply", t, "supply", 0, TRUE)
ReadContractTransferCount(t) == Read("contract", "contract-transfers", t, "transfers", t.window, FALSE)

\* A contract is read field by field, the fields that are configured.
ReadContract(t) ==
  (IF t.nativeBalance THEN <<ReadContractNative(t)>> ELSE <<>>) \o
  (IF t.tokenSupply THEN <<ReadContractSupply(t)>> ELSE <<>>) \o
  (IF t.window > 0 THEN <<ReadContractTransferCount(t)>> ELSE <<>>)

ReadsOf(t) ==
  CASE t.type = "native"           -> <<ReadNative(t)>>
    [] t.type = "erc20"            -> <<ReadERC20(t)>>
    [] t.type = "erc721-balance"   -> <<ReadERC721Balance(t)>>
    [] t.type = "erc721-ownership" -> <<ReadERC721Ownership(t)>>
    [] t.type = "contract"         -> ReadContract(t)

\* The read tasks of a target list, in the order of buildTasks.
Tasks(w) == w.native \o w.erc20 \o w.erc721Bal \o w.erc721Own \o w.contracts

TargetsOf(w)  == {Tasks(w)[i] : i \in DOMAIN Tasks(w)}
ReadsIn(w)    == UNION {{ReadsOf(t)[j] : j \in DOMAIN ReadsOf(t)} : t \in TargetsOf(w)}

\* A target of the configuration: of one of the five types, a contract with the
\* fields it reports.
IsTarget(t) ==
  /\ t.type \in {"native", "erc20", "erc721-balance", "erc721-ownership", "contract"}
  /\ t.type = "contract" => /\ {t.nativeBalance, t.tokenSupply} \subseteq BOOLEAN
                            /\ t.window \in Nat

\* Resolve accepts a list: it has a target, and every contract a field.
ValidList(w) == TargetsOf(w) # {} /\ \A t \in TargetsOf(w) : ReadsOf(t) # <<>>

Readable  == UNION {ReadsIn(w) : w \in WatchLists}
Subjects  == {r.subject : r \in Readable}
Keys      == {r.key : r \in Readable}
AllSeries == UNION {r.series : r \in Readable}

ASSUME BalanceAssumption ==
  /\ \A w \in WatchLists : /\ Tasks(w) \in Seq(TargetsOf(w))
                           /\ \A t \in TargetsOf(w) : IsTarget(t)
  /\ Cadences \subseteq Nat /\ MaxConcurrency \in Nat \ {0}
  /\ Faults \subseteq FaultKinds
  /\ MaxHeight \in Nat \ {0} /\ MaxFaults \in Nat /\ MaxReloads \in Nat

NoList == [native |-> <<>>, erc20 |-> <<>>, erc721Bal |-> <<>>, erc721Own |-> <<>>,
           contracts |-> <<>>]
Nothing == [k \in {} |-> 0]

VARIABLES
  \* the environment
  chain,       \* chain[h]: the values of all subjects at height h
  faults,      \* transient failures so far
  queued,      \* the list of the last reload (at first: the configured one)
  reloads,     \* reloads so far
  \* the poller
  every,       \* Cadence.EveryBlocks
  watch,       \* Options.Native .. Options.ERC721Ownership
  pendingWatch,
  prior,       \* prior and priorOwner
  series,      \* metric series with a value
  pc,
  lastSampled, \* height of the last complete sample; 0 = !haveSampled
  outputDead,  \* record.Writer holds a write error
  \* one tick
  head,        \* the height it reads at
  results,     \* readings of the tasks that are done
  at,          \* the reading to write next: <<task, field>>
  \* the output
  told         \* by key: the value of the last change, or of the first sample

env  == <<chain, faults, queued, reloads>>
tick == <<head, results, at>>
vars == <<env, every, watch, pendingWatch, prior, series, pc, lastSampled, outputDead, tick, told>>

Fault(f) == f \in Faults
\* A transient failure of kind f happens.
Hit(f) == Fault(f) /\ faults < MaxFaults /\ faults' = faults + 1
Tip == Len(chain)
Without(f, S) == [k \in DOMAIN f \ S |-> f[k]]
Put(f, k, v)  == [x \in DOMAIN f \cup {k} |-> IF x = k THEN v ELSE f[x]]
-----------------------------------------------------------------------------
Init ==
  /\ chain = <<[s \in Subjects |-> 0]>>
  /\ faults = 0 /\ reloads = 0
  /\ every \in Cadences
  /\ queued \in {w \in WatchLists : ValidList(w)} /\ watch = queued /\ pendingWatch = NoList
  /\ prior = Nothing /\ series = {} /\ pc = "loop" /\ lastSampled = 0 /\ outputDead = FALSE
  /\ head = 0 /\ results = Nothing /\ at = <<1, 1>>
  /\ told = Nothing

\* Mutated form of Forget: the position survives the tick.
Forget_KeepsPosition == head' = 0 /\ results' = Nothing /\ at' = at
\* The locals of a tick go out of scope.
Forget == head' = 0 /\ results' = Nothing /\ at' = <<1, 1>>

\* Bound: what happens after the poller has stopped is of no interest.
Observed == pc # "stopped"

\* A block is mined; a transaction of it may move subjects.
Mine ==
  /\ Tip < MaxHeight /\ Observed
  /\ \E block \in [Subjects -> {0, 1}] : chain' = Append(chain, block)
  /\ UNCHANGED <<faults, queued, reloads, every, watch, pendingWatch, prior, series, pc,
                 lastSampled, outputDead, tick, told>>

\* SIGHUP: the handler re-reads the configuration and stages its list, the last
\* one wins; a list that does not resolve keeps the running one.
QueueReload(w) ==
  /\ reloads < MaxReloads /\ Observed
  /\ reloads' = reloads + 1
  /\ IF ValidList(w) THEN queued' = w /\ pendingWatch' = w
                     ELSE UNCHANGED <<queued, pendingWatch>>
  /\ UNCHANGED <<chain, faults, every, watch, prior, series, pc, lastSampled, outputDead,
                 tick, told>>

\* resetRemoved: a target of the running list whose name the new list no longer
\* has in that type, and a contract that stays with another window.
Gone(t, w)       == \A u \in TargetsOf(w) : u.type = t.type => u.name # t.name
Rewindowed(t, w) == \E u \in TargetsOf(w) :
  t.type = "contract" /\ u.type = t.type /\ u.name = t.name /\ u.window # t.window

\* What is kept per name: baselines; gauge series, of every window.
Prefixes(t) == IF t.type = "contract"
                 THEN {"contract-native", "contract-supply", "contract-transfers"}
                 ELSE {t.type}
StaleBaselines(w) ==
  {k \in DOMAIN prior : \E t \in TargetsOf(watch) :
     Gone(t, w) /\ k[1] \in Prefixes(t) /\ k[2] = t.name}
\* Mutated form of StaleSeries: a contract that stays keeps its series.
StaleSeries_OnlyGone(w) ==
  {s \in series : \E t \in TargetsOf(watch) :
     Gone(t, w) /\ s[1] \in Prefixes(t) /\ s[2] = t.name /\ s[3] = t.addr}
StaleSeries(w) ==
  {s \in series : \E t \in TargetsOf(watch) :
     (Gone(t, w) \/ Rewindowed(t, w)) /\ s[1] \in Prefixes(t) /\ s[2] = t.name /\ s[3] = t.addr}

\* applyPendingReload, at the top of the loop of both cadences.
ApplyPendingReload ==
  /\ pc = "loop"
  /\ pc' = "head"
  /\ pendingWatch' = NoList
  /\ IF pendingWatch = NoList
       THEN UNCHANGED <<watch, prior, series>>
       ELSE /\ watch' = pendingWatch
            /\ prior' = Without(prior, StaleBaselines(pendingWatch))
            /\ series' = series \ StaleSeries(pendingWatch)
  /\ UNCHANGED <<env, every, lastSampled, outputDead, tick, told>>

\* Mutated form of Due: one block too late.
Due_Late(h) == every = 0 \/ lastSampled = 0 \/ h > lastSampled + every
Due(h) == every = 0 \/ lastSampled = 0 \/ h >= lastSampled + every

\* eth_blockNumber answers h: a tick at h starts, or no sample is due yet.
PollHead(h) ==
  /\ pc = "head"
  /\ \/ h = Tip /\ UNCHANGED faults
     \/ h < Tip /\ Hit("lag")
  /\ IF Due(h)
       THEN /\ pc' = "read" /\ head' = h
            /\ results' = Nothing
       ELSE pc' = "loop" /\ UNCHANGED <<head, results>>
  /\ UNCHANGED <<chain, queued, reloads, every, watch, pendingWatch, prior, series,
                 lastSampled, outputDead, at, told>>

\* It fails: handleError backs off.
HeadFails ==
  /\ pc = "head" /\ Hit("head")
  /\ pc' = "loop"
  /\ UNCHANGED <<chain, queued, reloads, every, watch, pendingWatch, prior, series,
                 lastSampled, outputDead, tick, told>>

\* readConcurrently starts the tasks in order, at most MaxConcurrency at a time.
Running(i) ==
  /\ pc = "read"
  /\ i \in DOMAIN Tasks(watch) \ DOMAIN results
  /\ Cardinality({j \in 1 .. i : j \notin DOMAIN results}) <= MaxConcurrency

\* What a read returns at height h; a transfer count is taken over a window.
From(h, window) == IF h + 1 > window THEN h - window + 1 ELSE 0
Value(r, h) ==
  IF r.window = 0 THEN chain[h][r.subject]
  ELSE Cardinality({b \in 1 .. h : From(h, r.window) <= b /\ chain[b][r.subject] = 1})

\* Mutated form of ReadTarget: the calls ask for the latest block.
ReadTarget_Latest(i) ==
  LET reads == ReadsOf(Tasks(watch)[i]) IN
  /\ Running(i)
  /\ results' = Put(results, i,
       [ok |-> "ok", readings |-> [j \in DOMAIN reads |->
          [read |-> reads[j], value |-> Value(reads[j], Tip)]]])
  /\ series' = series \cup UNION {reads[j].series : j \in DOMAIN reads}
  /\ UNCHANGED <<env, every, watch, pendingWatch, prior, pc, lastSampled, outputDead, head, at,
                 told>>

\* A task reads its target at the block of the tick and publishes the gauges.
ReadTarget(i) ==
  LET reads == ReadsOf(Tasks(watch)[i]) IN
  /\ Running(i)
  /\ results' = Put(results, i,
       [ok |-> "ok", readings |-> [j \in DOMAIN reads |->
          [read |-> reads[j], value |-> Value(reads[j], head)]]])
  /\ series' = series \cup UNION {reads[j].series : j \in DOMAIN reads}
  /\ UNCHANGED <<env, every, watch, pendingWatch, prior, pc, lastSampled, outputDead, head, at,
                 told>>

\* Its nth call fails, or times out; the gauges of the calls before it are set.
ReadFails(i, n, kind) ==
  LET reads == ReadsOf(Tasks(watch)[i]) IN
  /\ Running(i)
  /\ n \in DOMAIN reads
  /\ \/ kind = "transient" /\ Hit("read")
     \/ kind = "permanent" /\ Fault("empty") /\ reads[n].call /\ UNCHANGED faults
  /\ results' = Put(results, i, [ok |-> kind, readings |-> <<>>])
  /\ series' = series \cup UNION {reads[j].series : j \in 1 .. n - 1}
  /\ UNCHANGED <<chain, queued, reloads, every, watch, pendingWatch, prior, pc, lastSampled,
                 outputDead, head, at, told>>

ReadsDone == pc = "read" /\ DOMAIN results = DOMAIN Tasks(watch)
Some(kind) == \E i \in DOMAIN results : results[i].ok = kind

\* selectError: a permanent failure stops the poller, any other one is retried
\* with a new tick; nothing of the failed tick is written.
ReadsJudged ==
  /\ ReadsDone
  /\ \/ Some("permanent") /\ pc' = "stopped" /\ Forget
     \/ Some("transient") /\ ~Some("permanent") /\ pc' = "loop" /\ Forget
     \/ ~Some("permanent") /\ ~Some("transient") /\ pc' = "sample" /\ UNCHANGED tick
  /\ UNCHANGED <<env, every, watch, pendingWatch, prior, series, lastSampled, outputDead, told>>

Reading == results[at[1]].readings[at[2]]

\* peekChanged, peekOwnerChanged: the first observation is never a change.
Moved(r) == r.read.key \in DOMAIN prior /\ prior[r.read.key] # r.value

\* commitValue, commitOwner, and on to the next reading or the end of the tick.
CommitAndAdvance ==
  /\ prior' = Put(prior, Reading.read.key, Reading.value)
  /\ \/ /\ at[2] < Len(results[at[1]].readings)
        /\ at' = <<at[1], at[2] + 1>>
        /\ pc' = "sample" /\ UNCHANGED <<head, results, lastSampled>>
     \/ /\ at[2] = Len(results[at[1]].readings) /\ at[1] < Len(Tasks(watch))
        /\ at' = <<at[1] + 1, 1>>
        /\ pc' = "sample" /\ UNCHANGED <<head, results, lastSampled>>
     \/ /\ at[2] = Len(results[at[1]].readings) /\ at[1] = Len(Tasks(watch))
        /\ lastSampled' = head
        /\ pc' = "loop" /\ Forget

\* Mutated form of EmitSample: the prior is stored when the change is detected.
EmitSample_CommitsFirst ==
  /\ pc = "sample" /\ ~outputDead
  /\ told' = IF Reading.read.key \in DOMAIN prior THEN told
             ELSE Put(told, Reading.read.key, Reading.value)
  /\ IF Moved(Reading)
       THEN /\ prior' = Put(prior, Reading.read.key, Reading.value)
            /\ pc' = "change" /\ UNCHANGED <<tick, lastSampled>>
       ELSE CommitAndAdvance
  /\ UNCHANGED <<env, every, watch, pendingWatch, series, outputDead>>
EmitSample ==
  /\ pc = "sample" /\ ~outputDead
  /\ told' = IF Reading.read.key \in DOMAIN prior THEN told
             ELSE Put(told, Reading.read.key, Reading.value)
  /\ IF Moved(Reading) THEN pc' = "change" /\ UNCHANGED <<prior, tick, lastSampled>>
                       ELSE CommitAndAdvance
  /\ UNCHANGED <<env, every, watch, pendingWatch, series, outputDead>>

EmitChange ==
  /\ pc = "change" /\ ~outputDead
  /\ told' = Put(told, Reading.read.key, Reading.value)
  /\ CommitAndAdvance
  /\ UNCHANGED <<env, every, watch, pendingWatch, series, outputDead>>

\* A write fails: a broken pipe is terminal, any other error is backed off, but
\* the writer keeps it and fails every later write.
EmitFails ==
  /\ pc \in {"sample", "change"}
  /\ \/ Fault("epipe") /\ ~outputDead /\ pc' = "stopped" /\ UNCHANGED <<faults, outputDead>>
     \/ ~outputDead /\ Hit("emit") /\ pc' = "loop" /\ outputDead' = TRUE
     \/ outputDead /\ pc' = "loop" /\ UNCHANGED <<faults, outputDead>>
  /\ Forget
  /\ UNCHANGED <<chain, queued, reloads, every, watch, pendingWatch, prior, series, lastSampled,
                 told>>

\* The context is cancelled, seen while the poller waits or reads.
Stop ==
  /\ pc \in {"loop", "head", "read"} /\ Fault("stop")
  /\ pc' = "stopped" /\ Forget
  /\ UNCHANGED <<env, every, watch, pendingWatch, prior, series, lastSampled, outputDead, told>>

Poller ==
  \/ ApplyPendingReload
  \/ \E h \in 1 .. Tip : PollHead(h)
  \/ HeadFails
  \/ \E i \in DOMAIN Tasks(watch) : ReadTarget(i)
  \/ \E i \in DOMAIN Tasks(watch), n \in 1 .. 3, kind \in {"transient", "permanent"} :
       ReadFails(i, n, kind)
  \/ ReadsJudged
  \/ EmitSample
  \/ EmitChange
  \/ EmitFails

Next ==
  \/ Mine
  \/ \E w \in WatchLists : QueueReload(w)
  \/ Poller
  \/ Stop

Spec == Init /\ [][Next]_vars
\* The poller is one goroutine (and its readers) that always gets to run, and
\* blocks are mined.
FairSpec == Spec /\ WF_vars(Poller) /\ WF_vars(Mine)
-----------------------------------------------------------------------------
(* Properties. *)

\* Types of the state, and the position in the readings of a tick is one of
\* them, whatever a reload did to the target list in between (sampleAll).
TypeOK ==
  /\ chain \in [1 .. Tip -> [Subjects -> {0, 1}]] /\ Tip \in 1 .. MaxHeight
  /\ faults \in 0 .. MaxFaults /\ reloads \in 0 .. MaxReloads
  /\ every \in Cadences
  /\ {watch, queued} \subseteq WatchLists /\ pendingWatch \in WatchLists \cup {NoList}
  /\ DOMAIN prior \subseteq Keys /\ \A k \in DOMAIN prior : prior[k] \in 0 .. MaxHeight
  /\ DOMAIN told \subseteq Keys /\ \A k \in DOMAIN told : told[k] \in 0 .. MaxHeight
  /\ series \subseteq AllSeries
  /\ pc \in {"loop", "head", "read", "sample", "change", "stopped"}
  /\ {head, lastSampled} \subseteq 0 .. Tip /\ (pc \in {"read", "sample", "change"} => head # 0)
  /\ outputDead \in BOOLEAN
  /\ pc \in {"sample", "change"} => at[1] \in DOMAIN results
                                    /\ at[2] \in DOMAIN results[at[1]].readings

\* Change detection never moves past an undelivered record (commitValue,
\* balance.go): the stored prior of a key is the value the output was last told,
\* whatever write failed in between.
BaselineIsTold == \A k \in DOMAIN prior : k \in DOMAIN told /\ told[k] = prior[k]

\* A tick is all or nothing and at one block (sampleAll): when it has ended, a
\* consumer that starts from the first sample and applies the changes holds for
\* every target the value at the block of the tick, although blocks were mined,
\* reads ran in parallel and reloads were staged meanwhile.
TickTellsAll ==
  [][lastSampled' # lastSampled \/ (pc \in {"sample", "change"} /\ pc' = "loop" /\ ~outputDead')
     => \A r \in ReadsIn(watch) : told'[r.key] = Value(r, head)]_vars

\* A removed target leaves no stale metric or change baseline behind
\* (resetRemoved), and the poller runs the list of the last reload.
NothingLeftBehind ==
  /\ pendingWatch = NoList => watch = queued
  /\ \A k \in DOMAIN prior : \E t \in TargetsOf(watch) :
       k[1] \in Prefixes(t) /\ k[2] = t.name
  /\ series \subseteq UNION {r.series : r \in ReadsIn(watch)}

\* Every move is reported in the end: the poller stops, loses its output, or
\* has told the values of a block no further from the tip than its cadence.  (A
\* target added by a reload in block cadence waits for the next due block.)
CatchesUp ==
  []<>(\/ pc = "stopped" \/ outputDead
       \/ every > 0 /\ reloads > 0
       \/ /\ watch = queued
          /\ lastSampled # 0 /\ (every = 0 => lastSampled = Tip) /\ (every > 0 => Tip < lastSampled + every)
          /\ \A r \in ReadsIn(watch) :
               r.key \in DOMAIN told /\ told[r.key] = Value(r, lastSampled))
=============================================================================
