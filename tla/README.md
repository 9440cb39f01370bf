# evm-tools: models, checks and proofs

evm-tools is a Go suite that watches an EVM chain and delivers what it sees. Two
producers (`evm-stream`, `evm-balance`) write JSON Lines records to a fan-out socket; sinks
(Kafka, webhook, AWS SNS/SQS, Redis, PostgreSQL, file, stdout) read them and deliver them
to a destination.

```
 execution node --RPC--> producer --records--> fan-out writer ==socket==> reader -> sink -> destination
                            |                     (transport)                 (one per sink)
                       cursor file
```

This directory holds TLA+ models of the parts whose control is hard to test, the TLC
configurations that check them on small instances, and TLAPS proofs of the properties that
matter most for all values of the parameters.

## Inventory

What each part keeps, what it does, what makes it hard, and what would make it correct.

| Part (source) | State | Operations | Hard behaviour | Correct when |
|---|---|---|---|---|
| Poll loop of evm-stream (`internal/stream/stream.go`) | `nextBlock`, `lastSaved`, watch set, finalized height | start, poll (head, header, finalized, reorg check, chunked scan), save the cursor, retry with backoff | the chain moves and any call fails between two calls; stops anywhere; partial polls | no block is skipped, the cursor never runs ahead, every block is sent in the end |
| Reorg tracker (`internal/stream/reorg.go`) | hashes of recent heads | compare the frontier, walk to the fork, emit a marker, rewind | a head that falls, windows with few hashes, errors after the marker | a consumer that applies the markers ends up with the canonical records, or the next poll notices that it has not |
| Resume cursor (`internal/checkpoint`) | one file | load, save (temp file, fsync, rename) | crash between write and save; a cursor of another chain | at least once, never past what was written |
| Transfer scan (`internal/stream/native.go`, `internal.go`) | trace backend chosen so far, attempts per block | receipts in parallel, three trace backends in a cascade, two shapes of answers | a backend that disappears in mid-run, blocks that tell nothing about the backend, a receipt that fails while others are out | a block's records are what its execution moved, whichever backend showed it |
| ABI and log decoding (`abi.go`, `decode.go`, `resolve.go`) | none after start | decode | - | single-value conversions |
| Record contract (`internal/record`) | the writer's buffer | write, read, quarantine, dedup key | errors that stick, torn lines | one key for one fact |
| Transport (`internal/transport`) | registered connections, `closed`, a condition variable; the reader's connection | accept, register, Write, shutdown, dial, read | connections that appear and die while a record is written, shutdown meanwhile, lost wakeups, torn lines | lossless with `block_until_consumer`, the live tail for everybody |
| evm-balance (`internal/balance`) | last block sampled, last value emitted per target, gauge series, staged target list | tick, read all in parallel, detect change, emit, reload | a batch that fails half way, emission that fails half way, removed targets | a tick is all or nothing at one block, a change is reported exactly against the last value emitted, a removed target leaves nothing |
| Sinks (`kafkasink`, `webhooksink`, `awssink`, `redissink`, `pgsink`, `stdoutsink`) | the record in hand, attempts | read, deliver, retry transient errors, give up on permanent ones, drain | an answer lost after delivery, a shutdown during a retry | at least once, in order, deduplicated by key |
| File sink (`internal/filesink`) | file, size, rollback offset | append, fsync, rotate, prune | partial writes, a rotation that fails half way | whole lines, none lost |
| Configuration (`internal/config`, `logging`, `Resolve`, `ResolveContracts`) | none after decoding | find the file, choose between sources, replace references, run commands, decode strictly, validate | six sources for one key | the documented precedence |
| Command line (`internal/cli`), readiness (`metrics/server.go`, `helpers.go`) | staged watch set, signals not yet taken, age of the write in flight | start, reload, poll, stop, validate | signals at any moment, a write that blocks for ever | no reload is lost, `run` accepts what `validate` accepts, a signal ends the process, a stall shows |
| Dead-letter file, backoff, RPC client | small or none | | | |
| Chain helpers, key permissions, build info, charts, images | none that others depend on | | | |

Interactions: producer and node talk by request and answer; the record writer calls the
transport's `Write` under its own lock, so `Write` is never concurrent with itself; the
accept loop, the shutdown (a cancelled context or `Close`) and `Write` share the connection
map under a mutex with one condition variable; processes share nothing but the socket and
survive each other's stops; the cursor file is the only durable state of a producer.

`PROJECT.json` lists the components with their status and every hazard at its line.

## Modules

| Module | Models |
|---|---|
| `Stream` | one `evm-stream` process, the chain, the cursor file and the consumer's view of its output |
| `Feed` | the abstract contract: an ordered feed without gaps and a cursor that never passes it |
| `StreamFeed` | the refinement mapping from `Stream` to `Feed` |
| `StreamProofs` | theorems about `Stream`: types, the feed, the cursor, finality |
| `ViewProofs` | theorems about `Stream` and what its consumer holds through reorganizations; extends `StreamProofs` |
| `Fanout` | the transport: a producer's fan-out writer, accept loop and shutdown, the readers and sinks |
| `FanoutFeed` | the refinement mapping from `Fanout` to `Feed` |
| `FanoutProofs` | theorems about `Fanout` |
| `Sink` | the delivery loop of the sinks, their reader, probe and shutdown, the dead-letter file and the destination |
| `SinkProofs` | theorems about `Sink` |
| `FileSink` | the file sink: retry loop, rotating writer and the disk under it |
| `FileSinkProofs` | theorems about `FileSink` |
| `Balance` | the evm-balance poller: cadences, parallel reads, change detection, emission, reload |
| `BalanceProofs` | theorems about `Balance` |
| `Transfers` | one block into transfer records: receipts, the choice of the trace backend, both shapes of traces, the keys of the records |
| `TransfersProofs` | theorems about `Transfers` |
| `Config` | what a command line, an environment and a configuration file mean; operators without state |
| `Process` | the life of a producer's process around its loop: start, signals, reload, readiness, shutdown; extends `Config` |
| `ProcessProofs` | theorems about `Process` |
| `MCStream`, `MCFanout`, `MCSink`, `MCFileSink`, `MCBalance`, `MCTransfers`, `MCProcess` | values TLC's configuration files cannot spell |

The modules meet at contracts: `Stream` implements `Feed`, the producer inside `Fanout`
is that feed, and what the consumers of `Fanout` are given is one again; the line a sink reads in `Sink` and `FileSink` is what `Fanout` delivers;
`Transfers` refines the one step `ScanNative` of `Stream`; a poll of `Process` is a poll of
`Stream` or a tick of `Balance`.

### Stream

One step is one answer of the node, one write to the output or one save of the cursor, so
that the chain may move, a call may fail and the process may stop between any two of them.

| Code | Model |
|---|---|
| `Run`: resolving the start from the cursor file or `from_block` | `Start`, `CursorUsable` |
| `Run`: the loop, its error paths | `Fail` (retry from an unchanged `nextBlock`), `Stop` (terminal output error) |
| `Run`: `shouldSaveCheckpoint`, `Checkpoint.Save` | `SaveCheckpoint` |
| `pollOnce`: `eth_blockNumber`, header, finalized tag | `BlockNumber`, `HeadHeader`, `FinalizedTag` |
| `handleReorgIfAny` | `CheckFrontier`, `Frontier`, `NodeHash` |
| `resolveFork`, `emitReorg`, `forgetAbove` | `ResolveFork`, `CompareCandidate`, `Floor`, `Rewind`, `EmitMarker` |
| the chunk loop, `processRange`, `processLogs` with its halving windows | `BeginScan`, `GetLogs`, `ChunkDone` |
| `processNative` (and internal transfers) | `ScanNative` |
| `recordHash` | `RecordHash` |
| `isFinalized` | `IsFinalized` |
| the node | `Mine`, `Reorg`, `Finalize` |
| process stop at any point | `Crash` |

The variables keep the names of the code (`nextBlock`, `lastSaved`, `finalizedBlock`,
`finalizedUnsupported`). The locals of one `pollOnce` are variables too (`pollHead`, `hdr`,
`walk`, `cur`, `at`). Three history variables serve the properties: `emitted` (everything
ever written), `view` (what a consumer that applies the reorg markers holds) and `origin`
(where the very first run started).

Abstractions: every block carries one record of each watched kind; a block's hash is the
number of the fork that mined it; answers are those of the canonical chain at the moment of
the call, and only `eth_blockNumber` may come from a node that is behind; the watched set is
fixed (its reload is in `Process`); waiting is the absence of a step; readiness flags and
metrics are left out.

### Feed and the refinement

`Feed` has a chain top, a set of delivered (kind, height) pairs and a cursor. It may deliver
a range only if everything below it is delivered, and move the cursor only to a height below
which every kind is delivered. `StreamFeed` maps `head`, the pairs of `emitted` and the
height a restart would resume at. The top of `Feed` moves freely and repeats are allowed:
the contract is at-least-once and without gaps, not exactly-once.

`FanoutFeed` says that the transport passes the contract on: with `block_until_consumer` the
records some connection has taken are the delivered ones, and the height after the last saved
record is the cursor. Without that mode the writer drops records when nobody listens, and
`LiveTail` is all there is to say. `LosslessFeed` contains `SavedReachedAConsumer`, that every
record the cursor claims was taken: no line is ever untaken, and each save is a `Commit`. It speaks of the consumers together: it is each
connection's own lines that `LiveTail` orders.

### Fanout

One step is one section under the writer's lock, one `c.Write`, one `Accept`, dial or read.

| Code | Model |
|---|---|
| `newFanoutWriter`, `waitForConns` | `Open`, `WaitForConns` |
| `Write`: wait and snapshot under the lock | `BeginWrite` |
| `Write`: the loop of `c.Write` outside the lock | `Send` |
| `Write`: dropping the dead, the decision to retry | `Sweep`, `Retry` |
| `acceptLoop` | `Accept` (the connection is in its hands), `Register` (under the lock) |
| `shutdown` | `Shutdown` |
| `reconnectingReader`: dial, read, drop a torn tail at end of file | `Dial`, `Read`, `DropConn` |
| a sink's delivery, as far as the transport sees it | `Store` |
| the producer around the writer: the next record, the save of the cursor, the end of the loop | `Emit`, `Save`, `Finish` |
| stops of either process | `Crash`, `SinkCrash` |

Abstractions: a connection is a number used once; the socket buffers `BufCap` records; a
write is whole except for the one in progress when the producer ends, which may leave the
first bytes of a line (`Torn`); the producer is reduced to the contract `Feed` states
(records in order, the cursor between two writes); all sinks share one store, which is the
weakest reading of "delivered". The failure of `Accept` itself, addresses and the probe for
a stale socket file are left out.

### Sink

One step is one `select`, one call to the destination, its answer, or one line scanned by the
reader's goroutine. The six loops share their shape, so they share their actions; what a
loop does alone is an action of its own, and each `Run` is a value of `config`.

| Code | Model |
|---|---|
| `Reader.NextCtx`: hand the request to the goroutine, wait for the answer or the signal | `Ask`, `Take` |
| `readLoop`, `Next`, `handleMalformed` | `Scan`, `ScanFails` |
| `deadletter.Writer.Record`, `Close` | `Quarantine`, `Close` |
| Kafka's `Route`, the webhook's `Filter.Allow`, the size limit of AWS | `Route`, `Filter`, `CheckSize` (all in `Prepare`) |
| `publishWithRetry`, `postWithRetry`, `deliverWithRetry`, `appendWithRetry`, `insertWithRetry` | `Try`, `Publish`, `Post`, `Send`, `XAdd`, `Insert` with the outcomes `Confirmed`, `Cancelled`, `Transient`, `Permanent`; `BackedOff` |
| stdout's `WriteLine`: one attempt, no retry, EPIPE is a clean end | `WriteLine` |
| `dedupScript`, `ON CONFLICT DO NOTHING`, the deduplication window of a FIFO queue | `Land`, `Expire` |
| `probeLoop`, `probeOnce` | `ProbeStart`, `ProbeEnd` (what it saw is written later) |
| the signal, the end of `Run` and of the process | `Cancel`, `Return`, `Close`, `Exit` |
| kill and restart | `Crash`, `Restart` |

An attempt that is not answered was lost, has taken effect, or will take effect later
(`Unanswered`, `LateArrives`). `fate` is what the running process did with a line; `start`
is the first line it may read, so `start .. head` are the lines it has taken.

Abstractions: a line is a record (its dedup key stands for it), a poison line, or an odd one
that the sink at hand routes nowhere, filters out or finds too large. A failed call means the
destination is away or refuses for good; which error is which is left to the
classification. After a restart a file is read from its beginning, a pipe or socket goes on
at some later line. A Kafka producer's own retries and the flush at `Close` are left out:
the loop has nothing in flight then.

### FileSink

One step is one call of the file system, so that the disk may fill up, a call may fail or
the process may stop between any two calls of a rotation.

| Code | Model |
|---|---|
| `Run`, `writeWithRetry`, `Classify` | `Take`, `Stop`, `BackedOff`, `Acknowledge`; `Retry` (full disk) or `Fail` |
| `Writer.Write`: the decision to rotate | `Write`, `ShouldRotate`, `Age` |
| `rotate`: close, rename, compress, open, prune | `CloseFile`, `Rename`, `Compress`, `Unlink`, `Reopen`, `Prune` |
| `Writer.Write`: the append with its outcomes | `AppendLine` = `Whole`, `Nothing` or `Part` |
| the rollback of a short write, `fsync` | `Rollback`, `Sync` |
| `NewWriter` on what an earlier process left | `Restart` |
| disk and machine | `FillUp`, `FreeUp`, `Crash`, `PowerLoss` |

A file is a sequence of tokens, `i` for line `i` and `-i` for a part of it; the size counts
two units for a line and one for a part. A power loss keeps of an active file any extension
of what was synced. Abstractions: lines have one length; the filter is left out; directory
entries are durable in the order of the calls; an fsync that failed may be repeated with
effect; clocks do not go back.

### Balance

One step is one call's answer, one target's reads, or one write.

| Code | Model |
|---|---|
| `Run`, `runIntervalCadence`, `runBlockCadence`, `tick` | `PollHead`, `Due`, `HeadFails`, `Stop` |
| `QueueReload`, `applyPendingReload`, `resetRemoved` | `QueueReload`, `ApplyPendingReload`, `StaleBaselines`, `StaleSeries` |
| `buildTasks`, `readConcurrently` with its semaphore | `Tasks`, `Running`, `ReadTarget`, `ReadFails` |
| `readNative` .. `readContractTransferCount` | `ReadNative` .. `ReadContractTransferCount` |
| `selectError` | `ReadsJudged` |
| the apply loop of `sampleAll`, `peekChanged`, `commitValue` | `EmitSample`, `EmitChange`, `Moved`, `CommitAndAdvance` |
| `handleError`, the writer's sticky error | `EmitFails` |

A value is 0 or 1 at each block, a transfer count the transfers of a window. `told` is what
a consumer knows that starts from the first sample and applies the changes. Decimals,
formatting and timestamps are left out.

### Transfers

One step is one receipt's request or answer, or one trace call's outcome.

| Code | Model |
|---|---|
| `detectNativeTransfers` | `Candidates`, `AskReceipt`, `Receipt`, `ReceiptFails`, `Detected`, `NativeTransfers` |
| `processNative`, `emitNative` | `NextBlock`, `DetectFails`, `EmitNative` |
| `traceBlockInternal`, `fetchTraces`, `selectBackend` | `TraceAnswered`, `TraceRefused`, `TraceFails`, `TryAgain`, `NoneLeft` |
| `blockLevelTraces`, `perTxTraces`, `parityTraces` | `FrameTransfers`, `ParityTransfers`, without the transactions of `Gaps` |
| `walkCallFrames`, the filter of `emitInternalTransfers` | `WalkCallFrames` over `DepthFirst`, `Wanted` |
| `parseParityTraces`, `hasErroredAncestor`, `parityToInternal` | `ParseParityTraces`, `HasErroredAncestor`, `ParityToInternal` |
| `DedupKey` of events and transfers | `DedupKey`, `EventKeys` |

A transaction is the call tree of its execution (`IsCallTree`): a function on call paths whose
domain is closed under the caller and under earlier calls of the same caller.

The reference the parsers are held to, `Moved`, is the set of frames with value none of
whose enclosing frames failed. `MayMiss` names the ways in which a record may be absent:
a receipt answered with `null` by a node that is behind (`nulls`), a block skipped after
`maxTraceAttempts` or with tracing off, a transaction of which the answer had no trace
(`untraced`), and the fault of `OthersPruned` below. A trace call that succeeds may have no
trace of any of the transactions, one by one, when the answer is nested frames; a flat list
may be `null` as a whole (`Gaps`). The code passes over such a transaction as over one that
failed, and the block counts as traced.

### Config and Process

`Config` follows a key through `New` (file, environment, flags, defaults), `resolve`
(references, `_cmd` keys), `strictDecode`, the command-line targets and the validation of
both producers. A text stands for a value, so only the values the code tells apart appear;
the header of the module names the keys that are left out.

| Code | Model |
|---|---|
| `newRunCommand`, `streamRun`, `balanceRun` | `StartLogging`, `Decode`, `Connect`, `Serve`, `OpenOutput`; `OpenCut` is a stop while the output waits for its first consumer |
| `signalContext`, `watchReload` (a channel of one slot per watcher) | `Terminate`, `Hangup`, `WatchRegistered` |
| `reloadLogging`, `reloadStreamWatchSet`, `reloadBalanceTargets` | `ReloadLogging`, `WatchReload` (reads the file), `FinishReload` |
| `QueueReload`, `applyPendingReload` | the same, applied by `BeginPoll` |
| `blockTrackingEmitter` and its watchdog | `BeginWrite`, `Watchdog`, `Tick`, `EndWrite` |
| the cancelled context closing the output under a write | `WriteCut` |
| `validateStream`, `validateBalance`, the `validate` commands | `StreamValidateAccepts`, `BalanceValidateAccepts` |

A consumer that does not read is an `EndWrite` that does not happen, one that never connects
an `OpenOutput` that does not happen: `OpenWriter` waits for the first (`socket.go:40`) and
only a stop signal ends that wait, with an error. A reload that reads
the file and stages its result are two steps, with polls, edits and signals in between.

## Runs

Twelve runs, each a distinct question. States are distinct states.

| Run | Question | Checked | States |
|---|---|---|---|
| `StreamFaults` | One growing chain, every failure the loop handles, crashes and restarts: is anything skipped, and is everything sent once the outages end? | `GapFree`, `CursorNeverAhead`, `FeedSpec` (refinement), `EveryBlockSent` | 50,505 |
| `StreamReorg` | Two reorganizations at any point of a poll, of a depth within `reorg_depth`, while the calls of the reorg check fail: is the consumer's view right or visibly wrong, and right in the end? | `TypeOK`, `StaleIsDetectable`, `NoHole`, `MarkerTruthful`, `EventuallyInSync` | 104,557 |
| `StreamFinality` | Reorganizations that may lower the head, a finalized height that may be stale: is finality final, is the cursor the frontier? | `FinalizedIsForever`, `CursorIsFrontier` | 311,689 |
| `Fanout` | Two sinks that come, die and come again, one stop of the producer at any point: is the writer lossless and orderly, and does anybody wait for ever? | `NoLostWakeup`, `LiveTail`, `LossNeedsSinkCrash`, `LosslessFeed` (refinement), `EveryRecordStored` | 943,468 |
| `Sink` | All sinks, one outage, one unanswered attempt, signals, one crash or restart: what becomes of each line, does a signal end a sink, does it recover with its destination? | `ConfirmedIsStored`, `AtMostOneOpen`, `FirstCopiesInOrder`, `OncePerKey`, `SignalStops`, `RecordSettled`, `ReadyAgain` | 430,242 |
| `FileSink` | A full disk, two failing calls, a crash or power loss at any file-system call: which lines do the files keep, and is the remembered size right? | `TypeOK`, `AckedKept`, `RetainedAreNewest` | 1,157,036 |
| `Balance` | A failing node or output and two reloads at any point of a tick: what does the output tell, and what do removed targets leave behind? | `TypeOK`, `BaselineIsTold`, `NothingLeftBehind`, `TickTellsAll`, `CatchesUp` | 178,306 |
| `Transfers` | Any failure of receipts and traces, any number of times: are the records what the execution moved, and is a backend given up only for good reason? | `BlockAccountedFor`, `DisabledIsJustified`, `BlockEnds` | 334,996 |
| `Process` | An edit, reloads and stop signals at any moment of the life of either producer: are settings, reloads, readiness and the end what is promised? | `TypeOK`, `SettingsAsPromised`, `StartsIffValid`, `ReloadsTakeEffect`, `WedgedIsNotReady`, `TermEnds` | 505,657 |
| `LostRewind` | Does a failed scan after a reorg marker come back? | `NoHole` violated | |
| `OthersPruned` | Does a failed transaction touch the transfers of another? | `OnlyRevertedIsPruned` violated | |
| `KeyClash` | Is the key of a record its own? | `KeysUnique` violated | |

Every property of a passing run has a mutant in `PROJECT.json`: a plausible bug in one
definition under which TLC finds the property violated. Mutated forms stand just before
the definition they change, and nothing uses them.

### Bounds

*Stream.* `MaxHeight` 4 with `LogChunkBlocks` 2, `FromBlock` 1 and `InitHead` 1 or 2 (in
`StreamReorg` `latest` and a chain that starts at genesis): the first poll scans one full chunk or a chunk and a half, later polls start inside the range
and cross a chunk boundary; a halved window cuts a chunk at every place. `ReorgDepth` 2
over heights 0..4 has a floor at 0 and above it, trims the tracked window, and leaves
candidates with and without a recorded hash. `MaxReorgs` 2 with `MaxOrphans` 2 allows a
reorganization during the handling of another and a fork on a fork; one is enough for the
questions about stale finality and about restarts. Where reorganizations are the question
the faults are restricted to the calls of the check (`frontier`, `fork`, `cap`); with `scan`
added `NoHole` fails, which is what `LostRewind` shows, and with `scan` or `header`
`StaleIsDetectable`, see the list of findings.
`StreamFaults` leaves out `emit`, since no poll succeeds on a writer that keeps an error.
`CHECK_DEADLOCK` is on: the loop polls for ever.

*Fanout.* Two sinks are needed for a record that one consumer takes while the other dies,
and for the retry that must not repeat it. `MaxRecord` 2 with `BufCap` 1 makes the second
record wait for a slow reader (backpressure), and makes order and repetition visible.
`MaxConns` 3 lets both sinks connect and one of them reconnect, whichever stopped: a sink
that has no connection number left stays away. One stop of the producer and one of a sink
occur at every point of the other's work. Both values of `block_until_consumer` are initial
states. Liveness excludes symmetry. `CHECK_DEADLOCK FALSE`: after the last record everybody
waits for the next one, which is the program's idle state. The theorems have no bound.

*Sink.* Four inputs: two records with one key and a third with another, for every sink and
memory of keys; a record, a poison line and a record; a record and an odd line; and two
records on an input that stays open, for one sink per shape of loop with a probe. That is
enough for a repeated key with and without a successor, for a poison line in front of and
behind the record at hand, and for a late attempt to land behind its successor. One outage,
one unanswered attempt and one crash or restart each happen at every point.
`CHECK_DEADLOCK FALSE`: the process may be down for good, or wait for input.

*FileSink.* Files of two lines and one backup: five lines rotate twice, so that the second
rotation prunes; with `max_age` any non-empty file may rotate. One full disk, two faults
and one restart at every call. Two settings, fsync with compression and neither of them with
`max_age`. `CHECK_DEADLOCK FALSE`: a sink that ended stays down once the restarts are used up.

*Balance.* Three lists: a holder and a contract, the contract alone with another window, and
none. Two reloads add, remove, re-window and refuse. Four blocks of history with
`every_blocks` 2 have a due head, one that is not, and one that is late. `MaxConcurrency` 2
lets both targets of the longer list be read at once. One transient failure, of the head, a
read, the output or a stale answer, happens at every point; a broken pipe, an answer that is
not a contract's and a stop are not bounded. A name keeps its address in these lists: see
the list below for the case when it does not. `CHECK_DEADLOCK FALSE`: the poller may stop.

*Transfers.* Blocks are empty, one of all transactions with up to two calls, the first with
one call inside, a pair of such transactions, or three plain ones, after a block that is
empty or plain: the choice of the backend carries over. `ReceiptConcurrency` 2 leaves a
third candidate waiting; `MaxTraceAttempts` has the code's value, 4. Neither failures nor
answers without a trace are bounded. `CHECK_DEADLOCK FALSE`: the last block is the end.

*Process.* Seven ways to start (both tools from a file, three with flags and variables, a
command with and without the right to run) on fifteen disks with valid, invalid, garbled,
overloaded and missing files; one edit to another valid file, one without targets, or one
with an unknown key, for the setups that live from the file. `Threshold` is 2 watchdog
intervals and `MaxAge` 3, the first moment at which readiness must have noticed. The number
of hangups is not bounded, the first stop signal asks and the second kills.
`CHECK_DEADLOCK FALSE`: the process ends.

### Fairness

*Stream* (`FairSpec`): weak fairness of `Start` and of `Loop`, since `Run` loops until its
context is cancelled and a supervisor restarts the process, and `OutagesEnd`: from some
point on the environment causes no failed poll, no stale head, no failed save and no crash. A poll that
fails because the writer still holds an old error is not excluded, since nothing outside the
process ends it. The chain needs no fairness: whatever it does, it does finitely often within
the bounds, and `EveryBlockSent` speaks of the blocks it has.

*Fanout* (`FairSpec`): weak fairness of the writer's goroutine with the producer around it
(restarted when it ends), of the accept loop and of each sink, which dials for as long as it
has no connection. Nothing is assumed of shutdowns and crashes, which the bounds limit.

*Sink* (`FairSpec`): weak fairness of the reader's goroutine while it has input, of the loop
(every call ends: the clients have time-outs), of the probe, whose ticker runs for as long
as `Run` does, and of the end of the process after `Run`. Nothing is assumed of the destination:
`SignalStops` holds while it is away, the other two are conditional on `<>[]up`. A write to
stdout has no time-out, so `SignalStops` excepts it while the consumer does not read.

*Balance* (`FairSpec`): weak fairness of the poller, which is one goroutine that always gets
to run and whose calls have time-outs, and of `Mine`: `CatchesUp` is about a chain that goes on.
Faults are bounded, so outages end.

*Transfers* (`FairSpec`): weak fairness of `Trace` alone: a call ends, with whatever answer.
`BlockEnds` holds although the environment may refuse or fail each one.

*Process* (`FairSpec`): weak fairness of the start except for an output that waits for a consumer, of the write being cut and of the end of
`Run`, and none of the consumer, of the reload goroutines or of the operator: `TermEnds`
holds although no consumer ever connects, or the record in flight is never taken.

## Findings

- **A rewind is lost when the scan after it fails** (`LostRewind`). The marker is out and
  the hashes above the fork are forgotten, but the lowered block number lives in a local of
  `pollOnce`; `Run` retries from the old frontier. The consumer keeps a hole, and no later
  poll sees the reorganization, because the evidence is gone.
- **A failed transaction prunes the calls of others** (`OthersPruned`). `trace_block` lists the
  frames of all transactions of a block. `parseParityTraces` collects the paths of the failed
  ones without their transaction, and drops every frame whose path extends one of them: a
  transaction that failed as a whole (path `[]`) drops all internal transfers of its block.
- **Two kinds of records share a key** (`KeyClash`). The key of an event ends in its log index,
  that of an internal transfer in its trace address; neither names the type. For example the
  first log of a block and the first call inside the same transaction both end in `0`, and a sink that deduplicates drops the second.

Seen while modelling and without a run of their own. The first five contradict a comment or
document and show in `Stream` with the property and setting named:

- "best-effort health signal: a header fetch failure ... does not fail the poll, since core
  progress does not depend on it" (`stream.go:543`): without the header the head's hash is not
  recorded and the next reorganization of that block passes unnoticed (`StaleIsDetectable`
  with `header` in `Faults`);
- "so a later poll can detect that a block it already processed (and emitted records for) was
  orphaned" (`reorg.go:12`): the hash is recorded at the end of a poll only. When a scan fails
  after some of its records are written and those blocks are replaced before the next poll, no
  hash speaks for them: the new blocks are written beside the orphans, which no marker retracts
  (`StaleIsDetectable` with `scan` in `Faults`);
- a restart from the cursor is "gap-free, re-emitting at most the boundary block"
  (`design.md:1737`): a reorganization while the process is down is not seen, since the cursor
  holds a height without a hash and the tracker starts empty (`StaleIsDetectable` with `crash`
  and `UseCheckpoint`);
- "On restart the producer resumes from cursor+1 ... no blocks are missed"
  (`checkpoint.go:3`): with `from_block = latest` and a stop before the first save, `latest` is
  resolved again, at a later head (`GapFree` with `crash` and `FromBlock = Latest`);
- "recoverable output errors ... fall through to the transient retry below so a record is
  never dropped" (`stream.go:400`): the record writer keeps its first error, so each retry
  fails on it (`EveryBlockSent` with `emit`); with the socket output the fan-out writer returns
  errors only when it is closed, so this is about the other outputs;
- "a persistent per-block trace failure (an oversized response, a tracer crash) skips that
  block's internal transfers after bounded retries (logged, counted ...)" (`design.md:402`): a
  node may report the failure of its tracer on one transaction as an entry without a result, and
  `internal.go:193` passes over it as over a reverted transaction, as `internal.go:212` does with
  a `null` answer to `debug_traceTransaction`; that transaction's internal transfers are lost
  without a retry, a log line or the counter (`LossIsCounted` of `Transfers` as an invariant of
  its run);
- "the unwritten record stays in the upstream pipe" (`filesink.go:19`): the line in hand and
  what the scanner has buffered have left the pipe; `AtMostOneOpen` bounds the loss to the
  line in hand, the buffer comes on top;
- "a checkpoint plus a downstream sink that dedups gives end-to-end no-loss" (`design.md:1741`):
  a record in a sink's hands counts as delivered; when the sink ends before it stores it, the
  cursor has passed it and nobody sends it again (`NoLoss` of `Fanout` as an invariant of its
  run). `LossNeedsSinkCrash`, checked and proved, says that this is the only way to lose a record;
- "A transient failure - a full disk - is retried" (`filesink.go:12`): `rotate` closes the file
  before it renames it; when the rename or the open that follows fails for lack of space, the
  retry closes the closed file, which is a permanent error (`writer.go:188`);
- a process of the file sink that ends between a short write and its rollback leaves a part
  of a line, to which the next process appends its first line (the exception in `AckedKept`);
- a poll that fails after complete chunks writes them again (the comment at the chunk loop
  says otherwise); only duplicates, which `Feed` allows;
- with few tracked heights a shallow reorganization is reported as `depth_exceeded`, and the
  rewind to the floor may write blocks below `from_block`;
- the marker of a chain that became shorter ends at the new head, not at the old one, since
  the frontier is looked up at the lower of the two;
- an output fault also clears the RPC readiness flag;
- an error of `Accept`, a lack of descriptors included, ends the accept loop while the
  listener stays open;
- two fields of one contract that move in one block give two `contract_change` records with one
  key (`key.go:55`), which holds the contract's name and block but not the field;
- a target that keeps its name and gets another address keeps its baseline, so the first
  reading of the new address is reported as a change (`reload.go:65`); names are not checked to
  be unique, and two targets with one name share a baseline;
- the change of a transfer count compares windows that overlap but differ, and after a reload
  windows of different length;
- in block cadence each answer to `eth_blockNumber` resets the failure count, so the backoff of
  a sample that keeps failing does not grow (`balance.go:429`); and a target added by a reload is
  first read at the next due block;
- a receipt answered with `null` counts as a reverted transaction, and its transfer is dropped
  (`native.go:145`); a failure would have been retried;
- an environment variable of a key that is set but empty switches off the reference or command
  of that key and then does not count as a value (`resolve.go:93`; the exception in
  `SettingsAsPromised`);
- the shared `[metrics]` address is never used, since the default of each tool's own section
  always comes first (`runtime.go:22`, `design.md:1182`);
- a reload of evm-stream repeats the resolution of the contracts but not the checks across
  fields that `run` and `validate` make, so it may end up watching nothing;
- `validate` accepts a `poll_interval` of zero or less, an output it does not know and a metrics
  address it cannot use; `run` then stops after it has connected;
- a SIGHUP between the decoding of the configuration and the registration of the second watcher
  reaches only the log settings; one before the first watcher ends the process;
- readiness stays down after a stall until the next record is written, since only the emitter
  publishes the blocked time;
- a stop signal while the chain is resolved, or while the output waits for its first consumer,
  ends the process with an error.

## Proofs

All theorems are for every value of the constants that satisfies the named assumption of the
module they are about (`StreamAssumption`, `FanoutAssumption`, `ProcessAssumption` and so on):
any heights, chunk sizes, depths and faults; any number of sinks, connections, records and
stops; any target lists, configuration files, edits and signals. The assumptions say what type
a constant has; that of `Balance` says that a target list is made of targets of the five types, that of
`Transfers` that a block is a sequence of call trees of any breadth and depth.
What a theorem assumes beyond that is in its statement and named below. All proofs are checked
by TLAPS to the last leaf.

`StreamProofs`:

| Theorem | States | Argument |
|---|---|---|
| `TypeCorrect` | `Spec => []TypeOK` | `TypeOK` is inductive: it contains what the loop needs of its locals (the scan position inside the chunk, the walk at or below the frontier) |
| `NothingSkipped` | `[]GapFree`, for a numeric `from_block` | `GapInv`: the frontier is preceded by complete output (`GapFree`), so is the cursor (`CursorNeverAhead`), the origin is `from_block` (`StartInv`), and inside a poll everything below the scan position is complete for the kind being scanned, everything below the chunk for the other (`ScanInv`) |
| `CursorSafe` | `[]CursorNeverAhead` | the same invariant; the two need each other, since a restart turns the cursor into the frontier and a save does the reverse |
| `StreamImplementsFeed` | `Spec => FeedSpec` | every step is one of `Feed` or a stutter: `ScanInv` gives the guard of `Send`, `CursorSafe` that of `Commit` |
| `FinalizedForever` | `[]FinalizedIsForever` | `FinalInv`: the producer's finalized height never exceeds the chain's, and no reorganization touches a block at or below it |
| `CursorFollows` | `[]CursorIsFrontier` | `SavedInv` on top of `GapInv`: outside a save the file stands where `lastSaved` says, or was never written, and the frontier moves only in the step that begins a save |

`NothingSkipped`, `CursorSafe` and `StreamImplementsFeed` assume `FromBlock \in Nat`; with
`latest` the first is false, see the findings. `CursorFollows` assumes a cursor file and that
neither its saves nor its load at a start fail: a save that fails is logged and made up for by
the next poll.

`ViewProofs` is about a consumer that applies the markers. `HoleNeedsLostRewind` is the converse
of the finding `LostRewind`: with every fault of the model, at any point, a hole in the consumer's
view has one cause, a rewound scan that is cut short. Its hypothesis is an action property,
`RewindLands`: a scan below the old frontier is not ended by a failure or a stop. It is what a
repair of that finding would provide.

The other theorems restrict the faults instead. `SteadyScan` excludes failures of the scan, of
the writes and of the process, and a head that falls; `RewindLeavesNoHole` holds under it for
`latest` as well, and the view proofs need it, since a failed scan leaves records that no hash
speaks for (see the list above). `SteadyHead` excludes an unanswered or
lagging head and forks deeper than `reorg_depth`, which is what a marker's `depth_exceeded` is
for. Both hold of the run `StreamReorg`, where the calls of the reorg check itself may fail.

| Theorem | States | Argument |
|---|---|---|
| `RewindLeavesNoHole` | `SteadyScan` gives `[]NoHole` | `NoHole` speaks of the time between polls and is not inductive: `HoleInv` adds how far a rewound scan has closed the hole (`ClosingInv`), and that it always gets to the end |
| `HoleNeedsLostRewind` | for a numeric `from_block`, `RewindLands` at each step gives `[]NoHole` | `RewindInv`: as `HoleInv` without the promise that scans end, since a scan that fails at or above the frontier has lost nothing (`QuietRewindInv`); a restart resumes at the cursor, which a rewind onto a shorter chain may leave above the frontier, so the view must have no hole below the cursor either, except where a rewound scan is still to pass (`CursorHeld`) |
| `NeverSilentlyStale` | with `SteadyHead`, `[]StaleIsDetectable` | `ViewInv`: a tracked hash equal to the chain's vouches for all that was told at and below it (`Vouched`); what is stale lies above the floor of the window, so a tip that is tracked sees it (`TipInv`); the header fetched at the start of a poll still speaks for its parent if it is still the head's (`HeaderInv`), which carries the argument over the calls of the check and the scan (`PassInv`, `ScanViewInv`) |
| `MarkersTruthful` | with `SteadyHead`, `MarkerTruthful` | the fork block a marker names is one where the tracked hash met the chain's, so `Vouched` says that the rest is canonical |

`FanoutProofs`:

| Theorem | States | Argument |
|---|---|---|
| `FanoutTypeCorrect` | `[]TypeOK` | inductive as it stands |
| `WakeupsKept`, `ClosedEmpty` | `[]NoLostWakeup`, `[]ClosedHoldsNothing` | their conjunction is inductive: what ends the wait is written under the lock together with the broadcast |
| `SavedIsTaken` | `[]SavedReachedAConsumer` | `TakenInv`: every record before the current one is on some connection, the current one too once `delivered` is set or `Write` has returned |
| `FanoutImplementsFeed` | `Spec => LosslessFeed` | every step is one of `Feed` or a stutter: `TakenInv` gives the guard of `Send` and, in the step that saves, that of `Commit`; a torn line gives nobody a record (`TearGivesNothing`), and the other steps give no connection a line (`QuietIsStutter`) |
| `LinesInOrder` | `[]LiveTail` | `FreshInv`: a connection not yet registered has nothing on it; `ServeInv`: a registered connection `Write` has still to serve is empty or ends with the predecessor of the record, one it has served ends with the record; a retry happens only if nobody was served, and then every live connection is empty or new |
| `NothingLost` | `[]LossNeedsSinkCrash` | `SafeInv`: while no sink has crashed, a line that was read is stored or in a hand (`ReadKept`), and one that was not is on a connection whose sink is there (`UnreadHeld`); with `SavedIsTaken` the claim follows |

`SinkProofs`, `FileSinkProofs`:

| Theorem | States | Argument |
|---|---|---|
| `ConfirmedStored` | `[]ConfirmedIsStored` of `Sink` | a line is confirmed only in the step that lands it, or when its key is remembered, and what is remembered is stored (`MemoryInv`) |
| `OneOpen` | `[]AtMostOneOpen` of `Sink` | `OpenInv`: the one open line is with the reader's answer, in the loop's hand, or given up by a loop that is over; the reader works only while the loop waits |
| `KeyOnce` | `[]OncePerKey` of `Sink` | with a permanent memory what is stored is remembered (`MemoryInv`), so a second landing of a key adds nothing |
| `FirstInOrder` | `[]FirstCopiesInOrder` of `Sink` | `OrderInv`: until the first restart nothing beyond the line in hand was attempted, and an attempt under way whose key is not stored is the last one, since the loop goes on only after a confirmation |
| `TypeCorrect` | `[]TypeOK` of `FileSink` | `TypeInv`: the size is that of the active file, without the part of a line that is to be rolled back, whatever call failed (`ActiveInv`); a segment that is being compressed stands beside an equal copy (`SegmentInv`) |
| `Kept` | `[]AckedKept` of `FileSink` | `KeptInv`: an acknowledged line is below what a power loss may take of the active file, in a segment, or pruned, and the token before it is whole unless a process ended with a part in the file |
| `NewestRetained` | `[]RetainedAreNewest` of `FileSink` | `OrderInv`: without faults the pruned lines, the segments and the active file follow each other in the order of the input |

`BalanceProofs`, `TransfersProofs`, `ProcessProofs`:

| Theorem | States | Argument |
|---|---|---|
| `BaselineTold` | `[]BaselineIsTold` of `Balance` | inductive as it stands: a stored prior changes only in the step that writes the record, or to the value it has (`CommitKeepsTold`, `SampleTells`), and a reload only removes keys |
| `TypeCorrect` | `[]TypeOK` of `Balance` | `TickInv`: the list in use is valid and the next is staged beside it (`ListInv`); while a tick is under way its height is a block of the chain and a task that is done holds what its target reads there (`ResultsInv`), a later block changing none of it (`MineKeepsValues`); so each advance of the position finds a reading (`Advance`) |
| `NothingStale` | `NamesKeep` gives `[]NothingLeftBehind` of `Balance` | a baseline that survives a reload has a target of the new list with its type and name (`BaselinesInv`); so has a series, and that target then makes the same reads (`SeriesInv`, `SameReads`) |
| `TickIsWhole` | `KeysDistinct` gives `TickTellsAll` of `Balance` | `ToldInv`: every reading before the position has been told, and the position ends at the last; the step that commits a reading tells it, or finds it told, by `BaselineIsTold` (`CommitTells`) |
| `ReceiptsDecided` | each `EmitNative` of `Transfers` | `ReceiptsInv`: an answer made up for a call that another failure cancelled stands beside that failure, which keeps the block from being written |
| `BlocksAccountedFor` | `[]BlockAccountedFor` of `Transfers` | `EmittedInv`: the block's records are none before its receipts are in, then the top-level transfers that are due, then also the internal ones its method shows of the transactions that are not `untraced`, each once and in order. Each parser lists an explicitly defined set (`Lists`): for the walk over nested frames by induction over how deep a call's subtree is (`DepthFirstLists`), which also gives that the recursive functions exist (`WalkExists`, `FlattenExists`); `ReceiptsInv` adds the top-level transfers; `DueTransfers` equates the sets |
| `AnsweredSkippedOrOff` | the last conjunct of `BlockAccountedFor` of `Transfers` | `TracedInv`, with `BackendInv` |
| `DisabledJustified` | `[]DisabledIsJustified` of `Transfers` | `BackendInv`: while `selectBackend` runs, every method it has passed has been refused in this cascade, so the end of a cascade with all three means that each was refused |
| `ReloadsKept` | `[]ReloadsTakeEffect` of `Process` | `ReloadInv`: an edit adds a version and keeps the others (`FilesInv`); the log settings in force come from a version in the range, or the signal waits (`LogInv`); before the loop runs nothing is staged and the watched set is the decoded one, later a reload that has read the file read none older than the last signal asks for, unless another one waits (`WatchInv`) |
| `StallShows` | `[]WedgedIsNotReady` of `Process` | `StallInv`: the published time is that of the write in flight, or one unit behind it just before the watchdog fires |
| `TypeCorrect` | `[]TypeOK` of `Process` | `LifeInv`: a second stop signal ends the process, and there is a reason exactly when it has ended; `HeldInv`, `SetupInv`, and `WatchInv` for what a watcher holds |
| `RunIsValidated` | `[]StartsIffValid` of `Process` | `StartInv`: a decision taken with the first version of the file stands, and the two commands make the same checks (`ValidateIsRun`) |
| `SettingsPromised` | `[]SettingsAsPromised` of `Process` | the settings are those of the version that was decoded, whatever has been edited since (`DecodedInv`); the value of a key is the promised one in each of the five cases of where it comes from (`ValueIsPromised`) |

`NamesKeep` and `KeysDistinct` are what an operator's target lists satisfy but the code does not
check; without them the divergences above are real: a name that gets another address keeps
its baseline and the series of the old one, and two targets of one type and name share a baseline.

Only model-checked:

- liveness (`EveryBlockSent`, `EventuallyInSync`, `EveryRecordStored`, `SignalStops`,
  `RecordSettled`, `ReadyAgain`, `CatchesUp`, `BlockEnds`, `TermEnds`), which TLAPS cannot derive
  from fairness (no `ENABLED`);
- the three runs that expect a violation, which are counterexamples.

Every invariant and every action property of the passing runs is a theorem. The library's
induction theorems take an operator as a parameter, which the provers here cannot instantiate;
`NatSetInduction` of `TransfersProofs` states induction for a set of numbers instead, from the
least-element property of a well-founded relation, and that is how the recursive functions
over call trees are reasoned about.

## Not modelled

- Conversions of single values (ABI encoding, log decoding, amounts, formats, JSON) have no
  control of their own.
- The RPC client, TLS, proxies and authentication are present as answers and failures of the
  environment, and so is the classification of single errors, except for the errors that say
  that a trace method is missing.
- The settings, flags and payloads of the sinks, the names of file segments, the parsing of
  addresses, the probe for a stale socket and the failure of `Accept` itself.
- The file operations of `checkpoint.Save` are one step, as its rename makes them.
- The lookup of decimals at start, and gauges and counters beside those that a reload resets.
- Charts, dashboards, images and scripts are not program.

## What is left

1. `Pipeline`: `Feed`, `Fanout` and `Sink` composed; end to end, what the cursor claims is
   stored exactly once, up to the loss of what a dying sink holds.
   `Stream` into `Feed` and `Feed` through `Fanout` are proved, so what is missing is the sink's
   end, with the line in a dying sink's hand as the exception.
2. Proofs: `StaleIsDetectable` under a hypothesis as exact as that of `HoleNeedsLostRewind`
   (which failed scans and lagging heads do no harm); the composition, once it is there.
3. `CheckpointFile` (the file operations of `Save` with crashes), `LogWindows` (the halving as
   an algorithm), `Backoff` (its arithmetic), the combination of all readiness checks.

Runs stay few: when a new module needs one, a run that only demonstrates a divergence makes
room and the divergence moves to the list above.
