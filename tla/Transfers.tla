----------------------------- MODULE Transfers -----------------------------
(***************************************************************************)
(* How evm-stream turns one block into transfer records (processNative,    *)
(* native.go, internal.go): receipts decide which transactions moved their *)
(* value, a trace shows the values moved inside a transaction.  A node     *)
(* offers up to three trace methods with answers of two shapes, and may    *)
(* start or stop offering one at any time.                                 *)
(*                                                                         *)
(* A transaction is its call tree, a function from call paths to frames    *)
(* whose domain is closed under prefixes; <<>> is the transaction itself.  *)
(* A path counts from 1 where the code counts from 0.  Amounts are 0 or 1. *)
(* Writing a record cannot fail here: Stream has that failure.             *)
(***************************************************************************)
EXTENDS Integers, Sequences, FiniteSets, SequencesExt

CONSTANTS
  Blocks,            \* Blocks[n]: the n-th block may be one of these, each a
                     \* sequence of transactions; bound: no more are scanned
  Filters,           \* stream.native_transfers to examine
  ReceiptConcurrency,\* nativeReceiptConcurrency (8)
  MaxTraceAttempts,  \* maxTraceAttempts (4)
  Faults             \* kinds of failure the environment produces

\* receipt: a call for a receipt fails; null: a node that is behind answers
\* that it has no receipt; trace: a trace call fails; untraced: it succeeds with
\* null, or with an entry without a result; stop: a signal.
FaultKinds == {"receipt", "null", "trace", "untraced", "stop"}

\* What a trace call fails with, and which of these say that the node does not
\* have the method.
TraceErrors == {"status 403", "method not found", "status 503", "timeout"}
IsMethodUnsupported(e) == e \in {"status 403", "method not found"}

Methods == {"block", "parity", "perTx"}

\* The types of a frame, and those that move nothing.
Idle      == {"DELEGATECALL", "CALLCODE", "STATICCALL"}
CallTypes == {"CALL", "CREATE", "CREATE2", "SELFDESTRUCT"} \cup Idle
Root      == <<>>

\* Calls of a frame: the paths one longer, and these in order.
Callees(tx, path) == {p \in DOMAIN tx : Len(p) = Len(path) + 1 /\ IsPrefix(path, p)}
CallsOf(tx, path) == [k \in 1..Cardinality(Callees(tx, path)) |-> Append(path, k)]

IsCallTree(tx) ==
  /\ IsFiniteSet(DOMAIN tx) /\ Root \in DOMAIN tx /\ tx[Root].type \in CallTypes \ Idle
  /\ \A p \in DOMAIN tx :
       /\ p \in Seq(Nat \ {0}) /\ \A j \in 0..Len(p) : SubSeq(p, 1, j) \in DOMAIN tx
       /\ ToSet(CallsOf(tx, p)) = Callees(tx, p)
       /\ tx[p].type \in CallTypes /\ tx[p].value \in Nat /\ tx[p].error \in BOOLEAN

ASSUME TransfersAssumption ==
  /\ ReceiptConcurrency \in Nat \ {0} /\ MaxTraceAttempts \in Nat \ {0}
  /\ Faults \subseteq FaultKinds
  /\ Len(Blocks) \in Nat
  /\ \A n \in 1..Len(Blocks) : \A b \in Blocks[n] :
       /\ Len(b) \in Nat /\ DOMAIN b = 1..Len(b)
       /\ \A i \in DOMAIN b : IsCallTree(b[i])

VARIABLES
  filter,    \* NativeFilter: the lists from and to, and includeInternal
  blocks,    \* blocks begun so far
  block,     \* the block being scanned
  pc,
  receipts,  \* by candidate, the number of its transaction: "todo", "asked", "yes", "no", "failed"
  nulls,     \* candidates whose receipt was answered with null
  backend,   \* traceBackend
  cand,      \* position in the cascade while the backend is unknown
  attempt,   \* traceBlockInternal: attempt
  refused,   \* methods the node refused in the cascade being run, or the last
  via,       \* how the traces of the block came: a method, "skipped" or "none"
  untraced,  \* transactions of which the answer had no trace
  emitted    \* the records of the block, in the order they are written

vars == <<filter, blocks, block, pc, receipts, nulls, backend, cand, attempt, refused, via,
          untraced, emitted>>

Transfer(i, path) == [tx |-> i, path |-> path]
Frame(i, path)    == block[i][path]

\* NativeFilter.matches; an empty list is no list.
Matches(nf, f) ==
  \/ nf.from = {} /\ nf.to = {}
  \/ f.from \in nf.from
  \/ f.to \in nf.to
-----------------------------------------------------------------------------
(* Top-level transfers. *)

\* First pass: the transactions with value that pass the filter.
CandidatesOf(b, nf) == {i \in DOMAIN b : b[i][Root].value > 0 /\ Matches(nf, b[i][Root])}
Candidates == CandidatesOf(block, filter)

Unasked == [i \in Candidates |-> "todo"]

\* The candidates whose receipt says success, in the order of the block.
NativeTransfers ==
  FlattenSeq([i \in DOMAIN block |->
               IF i \in DOMAIN receipts /\ receipts[i] = "yes" THEN <<Transfer(i, Root)>> ELSE <<>>])

(* Internal transfers: from the nested frames of the call tracer. *)

IsValueMovingCall(type) == type \in {"CALL", "CREATE", "CREATE2", "SELFDESTRUCT"}

\* The calls of a transaction that are in "take", depth first, caller before callee;
\* a call that is not in "enter" is left out with all that it called.
DepthFirst(tx, enter, take) ==
  LET walk[path \in DOMAIN tx] ==
        LET calls    == CallsOf(tx, path)
            Visit(p) == IF p \notin enter THEN <<>>
                        ELSE (IF p \in take THEN <<p>> ELSE <<>>) \o walk[p]
        IN  FlattenSeq([k \in DOMAIN calls |-> Visit(calls[k])])
  IN  walk[Root]

AsTransfers(i, paths) == [k \in DOMAIN paths |-> Transfer(i, paths[k])]

\* Those of the transfers that are wanted.
Wanted(i, take) == {p \in take : Matches(filter, Frame(i, p))}

WalkCallFrames(i) ==
  LET alive  == {p \in DOMAIN block[i] : ~Frame(i, p).error}
      moving == {p \in alive : IsValueMovingCall(Frame(i, p).type) /\ Frame(i, p).value > 0}
  IN  IF Frame(i, Root).error THEN <<>> ELSE AsTransfers(i, DepthFirst(block[i], alive, Wanted(i, moving)))

\* A transaction without a trace is passed over, as one that failed is.
FrameTransfers(gone) ==
  FlattenSeq([i \in DOMAIN block |-> IF i \in gone THEN <<>> ELSE WalkCallFrames(i)])

(* Internal transfers: from the flat list of trace_block. *)

\* The type and callType a node gives a frame in that list; "idle" stands for
\* delegatecall, callcode and staticcall.
ParityType(type) ==
  CASE type = "CALL"                  -> <<"call", "call">>
    [] type \in Idle                  -> <<"call", "idle">>
    [] type \in {"CREATE", "CREATE2"} -> <<"create", "">>
    [] type = "SELFDESTRUCT"          -> <<"suicide", "">>

Errored == UNION {{p \in DOMAIN block[i] : Frame(i, p).error} : i \in DOMAIN block}

\* hasErroredAncestor compares call paths, not transactions.
HasErroredAncestor(p) == \E e \in Errored : IsStrictPrefix(e, p)

ParityToInternal(f) ==
  ParityType(f.type) \in {<<"call", "call">>, <<"create", "">>, <<"suicide", "">>} /\ f.value > 0

\* The list holds the frames of all transactions, in order and depth first; the
\* path of a transaction itself, and of the reward of the block, is empty.
ParseParityTraces(i) ==
  LET kept == {p \in DOMAIN block[i] : /\ p # Root /\ ~Frame(i, p).error
                                        /\ ~HasErroredAncestor(p) /\ ParityToInternal(Frame(i, p))}
  IN  AsTransfers(i, DepthFirst(block[i], DOMAIN block[i], Wanted(i, kept)))

ParityTransfers(gone) ==
  FlattenSeq([i \in DOMAIN block |-> IF i \in gone THEN <<>> ELSE ParseParityTraces(i)])

InternalTransfers(method, gone) ==
  IF method = "parity" THEN ParityTransfers(gone) ELSE FrameTransfers(gone)

\* Which transactions an answer may have no trace of: any, one by one; a flat list
\* has no entry to be without a trace, but null stands for a list without frames.
Gaps(method) ==
  {gone \in SUBSET DOMAIN block :
     /\ "untraced" \in Faults \/ gone = {}
     /\ method = "parity" => gone \in {{}, DOMAIN block}}
-----------------------------------------------------------------------------
Init ==
  /\ filter \in Filters /\ blocks = 0 /\ block = <<>> /\ pc = "done"
  /\ receipts = <<>> /\ nulls = {} /\ backend = "unknown" /\ cand = 1 /\ attempt = 1
  /\ refused = {} /\ via = "none" /\ untraced = {} /\ emitted = <<>>

\* The next block of the range: its receipts are asked for.
NextBlock ==
  /\ pc = "done" /\ blocks < Len(Blocks)
  /\ UNCHANGED <<filter, backend, cand, attempt, refused>>
  /\ blocks' = blocks + 1 /\ pc' = "receipts"
  /\ block' \in Blocks[blocks']
  /\ receipts' = Unasked' /\ nulls' = {} /\ via' = "none"
  /\ untraced' = {} /\ emitted' = <<>>

SomeFailed == \E i \in DOMAIN receipts : receipts[i] = "failed"
Asked      == {i \in DOMAIN receipts : receipts[i] = "asked"}

\* A goroutine per candidate, in order, at most ReceiptConcurrency at a time;
\* one that starts after a failure asks nothing.
AskReceipt(i) ==
  /\ pc = "receipts" /\ receipts[i] = "todo" /\ Cardinality(Asked) < ReceiptConcurrency
  /\ \A j \in DOMAIN receipts : j < i => receipts[j] # "todo"
  /\ receipts' = [receipts EXCEPT ![i] = IF SomeFailed THEN "no" ELSE "asked"]
  /\ UNCHANGED <<filter, blocks, block, pc, nulls, backend, cand, attempt, refused, via, untraced,
                 emitted>>

Receipt(i) ==
  /\ pc = "receipts" /\ receipts[i] = "asked"
  /\ \/ LET ok == ~Frame(i, Root).error
        IN  receipts' = [receipts EXCEPT ![i] = IF ok THEN "yes" ELSE "no"]
     \/ "null" \in Faults /\ receipts' = [receipts EXCEPT ![i] = "no"]
  /\ nulls' = IF receipts'[i] = "no" /\ ~Frame(i, Root).error THEN nulls \cup {i} ELSE nulls
  /\ UNCHANGED <<filter, blocks, block, pc, backend, cand, attempt, refused, via, untraced, emitted>>

\* The first failure is kept and cancels the calls still out, which then fail.
ReceiptFails(i) ==
  /\ pc = "receipts" /\ receipts[i] = "asked" /\ (SomeFailed \/ "receipt" \in Faults)
  /\ receipts' = [receipts EXCEPT ![i] = IF SomeFailed THEN "no" ELSE "failed"]
  /\ UNCHANGED <<filter, blocks, block, pc, nulls, backend, cand, attempt, refused, via, untraced,
                 emitted>>

Detected == /\ pc = "receipts"
            /\ \A i \in DOMAIN receipts : receipts[i] \notin {"todo", "asked"}

\* One failed receipt fails the poll; the next one scans the block again.
DetectFails ==
  /\ Detected /\ SomeFailed
  /\ receipts' = Unasked /\ nulls' = {}
  /\ UNCHANGED <<filter, blocks, block, pc, backend, cand, attempt, refused, via, untraced, emitted>>

\* Mutated form of EmitNative: a failed receipt does not fail the block.
EmitNative_Partial ==
  /\ Detected
  /\ emitted' = emitted \o NativeTransfers
  /\ pc' = IF filter.includeInternal /\ backend # "disabled" THEN "trace" ELSE "done"
  /\ cand' = 1 /\ attempt' = 1
  /\ refused' = IF backend = "unknown" THEN {} ELSE refused
  /\ receipts' = <<>>
  /\ UNCHANGED <<filter, blocks, block, nulls, backend, via, untraced>>

\* The top-level transfers are written, then the block is traced if wanted.
EmitNative ==
  /\ Detected /\ ~SomeFailed
  /\ emitted' = emitted \o NativeTransfers
  /\ pc' = IF filter.includeInternal /\ backend # "disabled" THEN "trace" ELSE "done"
  /\ cand' = 1 /\ attempt' = 1
  /\ refused' = IF backend = "unknown" THEN {} ELSE refused
  /\ receipts' = <<>>
  /\ UNCHANGED <<filter, blocks, block, nulls, backend, via, untraced>>
-----------------------------------------------------------------------------
(* selectBackend: the methods it tries; an empty block cannot tell whether *)
(* the one that is called per transaction is there.                        *)
HasTxs  == block # <<>>
Cascade == IF HasTxs THEN <<"block", "parity", "perTx">> ELSE <<"block", "parity">>

\* fetchTraces: the method that is called next.
Method == IF backend = "unknown" THEN Cascade[cand] ELSE backend

Tracing == pc = "trace"
\* Called per transaction, the method of an empty block makes no call.
Calling == Tracing /\ "trace" \in Faults /\ (Method = "perTx" => HasTxs)
Unchanged == UNCHANGED <<filter, blocks, block, receipts, nulls>>

EndTrace(how, records) == pc' = "done" /\ via' = how /\ emitted' = emitted \o records

\* Mutated form of TryAgain: the attempt is not counted.
TryAgain_Uncounted(b) ==
  /\ backend' = b /\ cand' = 1
  /\ refused' = IF b = "unknown" THEN {} ELSE refused
  /\ UNCHANGED <<attempt, pc, via, emitted>>

TryAgain(b) ==
  /\ attempt' = attempt + 1 /\ backend' = b /\ cand' = 1
  /\ refused' = IF b = "unknown" THEN {} ELSE refused
  /\ UNCHANGED <<pc, via, emitted>>

\* The method answers, whatever the answer shows; the one that does is kept.
TraceAnswered ==
  /\ Tracing /\ untraced' \in Gaps(Method)
  /\ backend' = Method /\ EndTrace(Method, InternalTransfers(Method, untraced'))
  /\ UNCHANGED <<cand, attempt, refused>> /\ Unchanged

\* Mutated form of NoneLeft: an empty block decides as well.
NoneLeft_Hasty ==
  /\ backend' = "disabled"
  /\ EndTrace("none", <<>>) /\ UNCHANGED <<cand, attempt>>

\* Nothing is left to try: without transactions the question stays open, with
\* them internal transfers are off until the process ends.
NoneLeft ==
  /\ backend' = IF HasTxs THEN "disabled" ELSE "unknown"
  /\ EndTrace("none", <<>>) /\ UNCHANGED <<cand, attempt>>

\* The node does not have the method: the cascade goes on, or starts over when
\* the method was the one kept.
TraceRefused(e) ==
  /\ Calling /\ IsMethodUnsupported(e)
  /\ \/ backend # "unknown" /\ TryAgain("unknown")
     \/ /\ backend = "unknown" /\ refused' = refused \cup {Method}
        /\ \/ /\ cand < Len(Cascade) /\ cand' = cand + 1
              /\ UNCHANGED <<pc, via, emitted, backend, attempt>>
           \/ cand = Len(Cascade) /\ NoneLeft
  /\ UNCHANGED untraced /\ Unchanged

\* Another failure: the block is tried again, MaxTraceAttempts times in all.
TraceFails(e) ==
  /\ Calling /\ ~IsMethodUnsupported(e)
  /\ \/ attempt < MaxTraceAttempts /\ TryAgain(backend)
     \/ /\ attempt >= MaxTraceAttempts /\ EndTrace("skipped", <<>>)
        /\ UNCHANGED <<backend, cand, attempt, refused>>
  /\ UNCHANGED untraced /\ Unchanged

\* The context is cancelled: the scan ends where it is.
Stop ==
  /\ "stop" \in Faults /\ pc \in {"receipts", "trace"} /\ pc' = "stopped"
  /\ UNCHANGED <<filter, blocks, block, receipts, nulls, backend, cand, attempt, refused, via,
                 untraced, emitted>>
-----------------------------------------------------------------------------
Trace == TraceAnswered \/ \E e \in TraceErrors : TraceRefused(e) \/ TraceFails(e)

Next ==
  \/ NextBlock
  \/ \E i \in DOMAIN receipts : AskReceipt(i) \/ Receipt(i) \/ ReceiptFails(i)
  \/ DetectFails \/ EmitNative
  \/ Trace
  \/ Stop

Spec == Init /\ [][Next]_vars

\* A call to the node ends, whatever it answers: it runs under a timeout.
FairSpec == Spec /\ WF_vars(Trace)
-----------------------------------------------------------------------------
\* What the execution of the block moved: the value of each frame that neither
\* failed nor ran inside one that did.
Happened(i, p) == \A q \in DOMAIN block[i] : IsPrefix(q, p) => ~Frame(i, q).error
Moved ==
  UNION {{Transfer(i, p) : p \in
            {q \in DOMAIN block[i] :
               /\ Happened(i, q) /\ Matches(filter, Frame(i, q))
               /\ Frame(i, q).type \notin Idle /\ Frame(i, q).value > 0}}
           : i \in DOMAIN block}

\* Caller before callee, and one call with all that it called before the next.
Before(p, q) ==
  \/ IsStrictPrefix(p, q)
  \/ \E k \in DOMAIN p \cap DOMAIN q : p[k] < q[k] /\ SubSeq(p, 1, k - 1) = SubSeq(q, 1, k - 1)

\* A call failed in another transaction, at the path of one of its callers.
PrunedByAnother(t) ==
  \E j \in DOMAIN block \ {t.tx} :
    \E q \in DOMAIN block[j] : Frame(j, q).error /\ IsStrictPrefix(q, t.path)

\* The ways a transfer may be missing: its receipt was answered with null; its
\* block was skipped, or tracing is off or not wanted; the answer had no trace of
\* its transaction; the flat list.
MayMiss(t) ==
  IF t.path = Root THEN t.tx \in nulls
  ELSE \/ via \in {"skipped", "none"} \/ t.tx \in untraced
       \/ via = "parity" /\ PrunedByAnother(t)

\* The records of a block come in one order whichever order the receipts arrived
\* in and whichever method was used: transactions first, then calls depth first.
InOrder(records) ==
  \A k, l \in DOMAIN records : k < l =>
    LET t == records[k]
        u == records[l]
    IN  IF t.path = Root THEN u.path = Root => t.tx < u.tx
        ELSE u.path # Root /\ (t.tx < u.tx \/ (t.tx = u.tx /\ Before(t.path, u.path)))

\* When the scan of a block ends its records are exactly the values its execution
\* moved, each once and in order, whichever method showed them, except for MayMiss:
\* so a block scanned again after a restart, over another method, gives the same
\* records.
\* Without traces it ends only when it was skipped, or the methods are all gone.
BlockAccountedFor ==
  pc = "done" =>
    /\ ToSet(emitted) = {t \in Moved : ~MayMiss(t)}
    /\ IsInjective(emitted) /\ InOrder(emitted)
    /\ via = "none" /\ filter.includeInternal /\ HasTxs => backend = "disabled"

\* Internal transfers are turned off for good only by a node that refused each of
\* the three methods, one after the other, with no other failure in between.
DisabledIsJustified == backend = "disabled" => refused = Methods

\* Tracing never holds the producer: however often and in whatever order the calls
\* fail, the block is over after boundedly many of them ("must never wedge").
BlockEnds == pc = "trace" ~> pc # "trace"

(* What the documentation says. *)

\* "a persistent per-block trace failure (an oversized response, a tracer crash)
\* skips that block's internal transfers after bounded retries (logged, counted)":
\* a block that is not counted as skipped has all its internal transfers.
LossIsCounted ==
  pc = "done" /\ via \in {"block", "perTx"} => \A t \in Moved : t.path # Root => t \in ToSet(emitted)

\* "a reverted frame (and its whole subtree) moved nothing and is skipped, as is a
\* fully-reverted transaction": and nothing else is.
OnlyRevertedIsPruned ==
  pc = "done" /\ via = "parity" => \A t \in Moved : t.path # Root => t \in ToSet(emitted)

\* DedupKey without the chain: "the key is genuinely unique" over the records of a
\* block.  Both renderings are digits, from 0; a frame holds its number of logs.
DedupKey(t) == <<t.tx>> \o (IF t.path = Root THEN <<>> ELSE <<[k \in DOMAIN t.path |-> t.path[k] - 1]>>)
EventKeys   ==
  LET Logs(i) == FoldFunction(+, 0, [p \in DOMAIN block[i] |-> Frame(i, p).logs])
      First(i) == FoldFunction(+, 0, [j \in 1..(i - 1) |-> Logs(j)])
  IN  UNION {{<<i, <<First(i) + k>>>> : k \in 0..(Logs(i) - 1)} : i \in DOMAIN block}
KeysUnique == {DedupKey(t) : t \in ToSet(emitted)} \cap EventKeys = {}
=============================================================================
