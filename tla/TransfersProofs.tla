-------------------------- MODULE TransfersProofs --------------------------
(***************************************************************************)
(* The choice of the trace backend, how a block ends, and what its         *)
(* receipts decide, for every sequence of blocks and every number and      *)
(* order of failures.                                                      *)
(***************************************************************************)
EXTENDS Transfers, SequenceTheorems, FiniteSetTheorems, WellFoundedInduction, TLAPS

(* What selectBackend tries, by position.                                  *)
LEMMA CascadeMethods ==
  /\ Len(Cascade) \in {2, 3}
  /\ HasTxs => Len(Cascade) = 3
  /\ \A c \in 1 .. Len(Cascade) : Cascade[c] \in Methods
  /\ HasTxs => Methods = {Cascade[c] : c \in 1 .. 3}
<1>1. CASE HasTxs
  <2> DEFINE s == <<"block", "parity", "perTx">>
  <2>1. Cascade = s
    BY <1>1, Zenon DEF Cascade
  <2>2. Len(s) = 3 /\ s[1] = "block" /\ s[2] = "parity" /\ s[3] = "perTx"
    OBVIOUS
  <2>3. \A c \in 1 .. 3 : c = 1 \/ c = 2 \/ c = 3
    OBVIOUS
  <2> HIDE DEF s
  <2> QED BY <1>1, <2>1, <2>2, <2>3 DEF Methods
<1>2. CASE ~HasTxs
  <2> DEFINE s == <<"block", "parity">>
  <2>1. Cascade = s
    BY <1>2, Zenon DEF Cascade
  <2>2. Len(s) = 2 /\ s[1] = "block" /\ s[2] = "parity"
    OBVIOUS
  <2>3. \A c \in 1 .. 2 : c = 1 \/ c = 2
    OBVIOUS
  <2> HIDE DEF s
  <2> QED BY <1>2, <2>1, <2>2, <2>3 DEF Methods
<1> QED BY <1>1, <1>2

(***************************************************************************)
(* While the methods are tried one after the other, those before the next  *)
(* one have been refused; tracing that is off stays off.                   *)
(***************************************************************************)
BackendInv ==
  /\ backend \in Methods \cup {"unknown", "disabled"}
  /\ refused \subseteq Methods
  /\ pc = "trace" => backend # "disabled"
  /\ pc = "trace" /\ backend = "unknown" =>
       /\ cand \in 1 .. Len(Cascade)
       /\ \A c \in 1 .. (cand - 1) : Cascade[c] \in refused
  /\ backend = "disabled" => refused = Methods

LEMMA MethodIsOne ==
  ASSUME BackendInv, pc = "trace"
  PROVE  Method \in Methods
  BY CascadeMethods DEF BackendInv, Method

(* A new cascade starts at its first method, with nothing refused yet.     *)
LEMMA TryAgainKeeps ==
  ASSUME BackendInv, pc = "trace", NEW b \in {backend, "unknown"}, TryAgain(b), block' = block
  PROVE  BackendInv'
<1>1. b \in Methods \cup {"unknown"}
  BY DEF BackendInv
<1>2. backend' = b /\ cand' = 1 /\ pc' = pc
      /\ refused' = IF b = "unknown" THEN {} ELSE refused
  BY DEF TryAgain
<1>3. Cascade' = Cascade
  BY DEF Cascade, HasTxs
<1>4. "unknown" \notin Methods /\ "disabled" \notin Methods
  BY DEF Methods
<1> QED BY <1>1, <1>2, <1>3, <1>4, CascadeMethods DEF BackendInv

LEMMA RefusalKeeps ==
  ASSUME BackendInv, NEW e \in TraceErrors, TraceRefused(e)
  PROVE  BackendInv'
<1>1. pc = "trace" /\ block' = block
  BY DEF TraceRefused, Calling, Tracing, Unchanged
<1>2. Cascade' = Cascade /\ (HasTxs' <=> HasTxs)
  BY <1>1 DEF Cascade, HasTxs
<1>3. CASE backend # "unknown" /\ TryAgain("unknown")
  BY <1>1, <1>3, TryAgainKeeps
<1>4. CASE backend = "unknown" /\ refused' = refused \cup {Method}
  <2>1. /\ cand \in 1 .. Len(Cascade)
        /\ \A c \in 1 .. (cand - 1) : Cascade[c] \in refused
        /\ Method = Cascade[cand]
    BY <1>1, <1>4 DEF BackendInv, Method
  <2>2. refused' \subseteq Methods /\ \A c \in 1 .. cand : Cascade[c] \in refused'
    <3>1. Method \in Methods
      BY <1>1, MethodIsOne
    <3>2. \A c \in 1 .. cand : c = cand \/ c \in 1 .. (cand - 1)
      BY <2>1, CascadeMethods
    <3> QED BY <1>4, <2>1, <3>1, <3>2 DEF BackendInv
  <2>3. CASE cand < Len(Cascade) /\ cand' = cand + 1 /\ UNCHANGED <<pc, via, emitted, backend, attempt>>
    <3>1. cand' \in 1 .. Len(Cascade) /\ cand' - 1 = cand
      BY <2>1, <2>3, CascadeMethods
    <3> QED BY <1>1, <1>2, <1>4, <2>2, <2>3, <3>1 DEF BackendInv, Methods
  <2>4. CASE cand = Len(Cascade) /\ NoneLeft
    <3>1. pc' = "done" /\ backend' = IF HasTxs THEN "disabled" ELSE "unknown"
      BY <2>4 DEF NoneLeft, EndTrace
    <3>2. HasTxs => refused' = Methods
      BY <2>2, <2>4, CascadeMethods
    <3> QED BY <2>2, <3>1, <3>2 DEF BackendInv, Methods
  <2> QED BY <1>4, <2>3, <2>4 DEF TraceRefused
<1> QED BY <1>3, <1>4 DEF TraceRefused

LEMMA BackendStep == BackendInv /\ [Next]_vars => BackendInv'
<1> SUFFICES ASSUME BackendInv, [Next]_vars
             PROVE  BackendInv'
  OBVIOUS
<1>1. CASE UNCHANGED vars
  BY <1>1 DEF BackendInv, vars, Cascade, HasTxs
<1>2. CASE NextBlock
  BY <1>2 DEF NextBlock, BackendInv
<1>3. ASSUME NEW c \in DOMAIN receipts, AskReceipt(c) \/ Receipt(c) \/ ReceiptFails(c)
      PROVE  BackendInv'
  BY <1>3 DEF AskReceipt, Receipt, ReceiptFails, BackendInv, Cascade, HasTxs
<1>4. CASE DetectFails
  BY <1>4 DEF DetectFails, Detected, BackendInv, Cascade, HasTxs
<1>5. CASE EmitNative
  <2>1. /\ backend' = backend /\ cand' = 1
        /\ refused' = IF backend = "unknown" THEN {} ELSE refused
        /\ pc' \in {"trace", "done"} /\ (pc' = "trace" => backend # "disabled")
    BY <1>5 DEF EmitNative
  <2>2. Len(Cascade') \in {2, 3}
    BY <1>5, CascadeMethods DEF EmitNative, Cascade, HasTxs
  <2>3. 1 \in 1 .. Len(Cascade') /\ 1 .. (1 - 1) = {}
    BY <2>2
  <2> QED BY <2>1, <2>3 DEF BackendInv, Methods
<1>6. CASE TraceAnswered
  <2>1. Method \in Methods
    BY <1>6, MethodIsOne DEF TraceAnswered, Tracing
  <2>2. backend' = Method /\ refused' = refused /\ pc' = "done"
    BY <1>6 DEF TraceAnswered, EndTrace
  <2> QED BY <2>1, <2>2 DEF BackendInv, Methods
<1>7. ASSUME NEW e \in TraceErrors, TraceRefused(e)
      PROVE  BackendInv'
  BY <1>7, RefusalKeeps
<1>8. ASSUME NEW e \in TraceErrors, TraceFails(e)
      PROVE  BackendInv'
  <2>1. pc = "trace" /\ block' = block
    BY <1>8 DEF TraceFails, Calling, Tracing, Unchanged
  <2>2. CASE TryAgain(backend)
    BY <2>1, <2>2, TryAgainKeeps
  <2>3. CASE pc' = "done" /\ UNCHANGED <<backend, cand, attempt, refused>>
    BY <2>3 DEF BackendInv
  <2> QED BY <1>8, <2>2, <2>3 DEF TraceFails, EndTrace
<1>9. CASE Stop
  BY <1>9 DEF Stop, BackendInv
<1> QED BY <1>1, <1>2, <1>3, <1>4, <1>5, <1>6, <1>7, <1>8, <1>9 DEF Next, Trace

(***************************************************************************)
(* Internal transfers are turned off for good only by a node that refused  *)
(* each of the three methods in one cascade (selectBackend), over any      *)
(* blocks, with and without transactions, and any failures in between.     *)
(***************************************************************************)
THEOREM DisabledJustified == Spec => []DisabledIsJustified
<1>1. Init => BackendInv
  BY DEF Init, BackendInv, Methods
<1>2. BackendInv => DisabledIsJustified
  BY DEF BackendInv, DisabledIsJustified
<1> QED BY <1>1, <1>2, BackendStep, PTL DEF Spec
-----------------------------------------------------------------------------
(***************************************************************************)
(* The receipts of a block.  They are asked for in parallel, and the first *)
(* failure cancels the others: the answers this makes up may say no of a   *)
(* transaction that succeeded, but then the failure is still there.        *)
(***************************************************************************)
Reverted(i) == Frame(i, Root).error

ReceiptsInv ==
  pc = "receipts" =>
    /\ receipts \in [Candidates -> {"todo", "asked", "yes", "no", "failed"}]
    /\ \A c \in Candidates :
         /\ receipts[c] = "yes" => ~Reverted(c)
         /\ receipts[c] = "no" => Reverted(c) \/ c \in nulls \/ SomeFailed
         /\ c \in nulls => receipts[c] = "no"

\* One receipt is answered, or given up.
LEMMA AnswerKeeps ==
  ASSUME ReceiptsInv, pc = "receipts", pc' = pc, block' = block, filter' = filter,
         NEW c \in DOMAIN receipts, NEW a \in {"asked", "yes", "no", "failed"},
         receipts[c] \in {"todo", "asked"}, receipts' = [receipts EXCEPT ![c] = a],
         nulls \subseteq nulls', nulls' \subseteq nulls \cup {c}, c \in nulls' => a = "no",
         a = "yes" => ~Reverted(c),
         a = "no" => Reverted(c) \/ c \in nulls' \/ SomeFailed
  PROVE  ReceiptsInv'
<1> DEFINE Answers == {"todo", "asked", "yes", "no", "failed"}
<1>1. receipts \in [Candidates -> Answers] /\ c \in Candidates
  BY DEF ReceiptsInv
<1>2. receipts' \in [Candidates -> Answers]
  BY <1>1
<1>3. Candidates' = Candidates
  BY DEF Candidates, CandidatesOf, Frame
<1>4. \A d : Reverted(d)' = Reverted(d)
  BY <1>3 DEF Reverted, Frame
<1>5. SomeFailed => SomeFailed'
  <2> SUFFICES ASSUME NEW d \in DOMAIN receipts, receipts[d] = "failed"
               PROVE  SomeFailed'
    BY DEF SomeFailed
  <2>1. d # c /\ receipts'[d] = "failed" /\ d \in DOMAIN receipts'
    BY <1>1
  <2> QED
    BY <2>1 DEF SomeFailed
<1>6. ASSUME NEW d \in Candidates
      PROVE  /\ receipts'[d] = "yes" => ~Reverted(d)
             /\ receipts'[d] = "no" => Reverted(d) \/ d \in nulls' \/ SomeFailed'
             /\ d \in nulls' => receipts'[d] = "no"
  <2>1. CASE d = c
    BY <1>1, <1>5, <2>1
  <2>2. CASE d # c
    <3>1. receipts'[d] = receipts[d]
      BY <1>1, <2>2
    <3> QED
      BY <1>5, <3>1 DEF ReceiptsInv
  <2> QED
    BY <2>1, <2>2
<1> QED
  BY <1>2, <1>3, <1>4, <1>6 DEF ReceiptsInv

LEMMA ReceiptsStep == ReceiptsInv /\ [Next]_vars => ReceiptsInv'
<1> SUFFICES ASSUME ReceiptsInv, [Next]_vars
             PROVE  ReceiptsInv'
  OBVIOUS
<1>1. CASE pc' # "receipts"
  BY <1>1 DEF ReceiptsInv
<1>2. CASE UNCHANGED vars
  BY <1>2 DEF vars, ReceiptsInv, Candidates, CandidatesOf, Reverted, Frame, SomeFailed
<1>3. CASE NextBlock \/ DetectFails
  <2>1. receipts' = Unasked' /\ nulls' = {}
    <3>1. CASE NextBlock
      BY <3>1 DEF NextBlock
    <3>2. CASE DetectFails
      BY <3>2 DEF DetectFails, Unasked, Candidates, CandidatesOf, Frame
    <3> QED
      BY <1>3, <3>1, <3>2
  <2>2. receipts' = [c \in Candidates' |-> "todo"]
    BY <2>1 DEF Unasked
  <2> QED
    BY <2>1, <2>2 DEF ReceiptsInv
<1>4. ASSUME NEW c \in DOMAIN receipts, AskReceipt(c)
      PROVE  ReceiptsInv'
  <2>1. /\ pc = "receipts" /\ receipts[c] = "todo" /\ UNCHANGED <<pc, block, filter, nulls>>
        /\ receipts' = [receipts EXCEPT ![c] = IF SomeFailed THEN "no" ELSE "asked"]
    BY <1>4 DEF AskReceipt
  <2>2. c \notin nulls
    BY <1>4, <2>1 DEF ReceiptsInv
  <2>3. CASE SomeFailed
    BY <2>1, <2>3, AnswerKeeps
  <2>4. CASE ~SomeFailed
    BY <2>1, <2>2, <2>4, AnswerKeeps
  <2> QED
    BY <2>3, <2>4
<1>5. ASSUME NEW c \in DOMAIN receipts, Receipt(c)
      PROVE  ReceiptsInv'
  <2>1. /\ pc = "receipts" /\ receipts[c] = "asked" /\ UNCHANGED <<pc, block, filter>>
        /\ \/ receipts' = [receipts EXCEPT ![c] = IF ~Reverted(c) THEN "yes" ELSE "no"]
           \/ receipts' = [receipts EXCEPT ![c] = "no"]
        /\ nulls' = IF receipts'[c] = "no" /\ ~Reverted(c) THEN nulls \cup {c} ELSE nulls
    BY <1>5 DEF Receipt, Reverted
  <2>2. CASE ~Reverted(c) /\ receipts' = [receipts EXCEPT ![c] = "yes"]
    <3>1. receipts'[c] # "no" /\ c \notin nulls
      BY <1>5, <2>1, <2>2 DEF ReceiptsInv
    <3>2. nulls' = nulls
      BY <2>1, <3>1
    <3> QED
      BY <2>1, <2>2, <3>1, <3>2, AnswerKeeps
  <2>3. CASE receipts' = [receipts EXCEPT ![c] = "no"]
    <3>1. receipts'[c] = "no"
      BY <2>3
    <3>2. nulls \subseteq nulls' /\ (Reverted(c) \/ c \in nulls')
      BY <2>1, <3>1
    <3> QED
      BY <2>1, <2>3, <3>2, AnswerKeeps
  <2> QED
    BY <2>1, <2>2, <2>3
<1>6. ASSUME NEW c \in DOMAIN receipts, ReceiptFails(c)
      PROVE  ReceiptsInv'
  <2>1. /\ pc = "receipts" /\ receipts[c] = "asked" /\ UNCHANGED <<pc, block, filter, nulls>>
        /\ receipts' = [receipts EXCEPT ![c] = IF SomeFailed THEN "no" ELSE "failed"]
    BY <1>6 DEF ReceiptFails
  <2>2. c \notin nulls
    BY <1>6, <2>1 DEF ReceiptsInv
  <2>3. CASE SomeFailed
    BY <2>1, <2>3, AnswerKeeps
  <2>4. CASE ~SomeFailed
    BY <2>1, <2>2, <2>4, AnswerKeeps
  <2> QED
    BY <2>3, <2>4
<1>7. CASE EmitNative \/ Trace \/ Stop
  BY <1>1, <1>7 DEF EmitNative, Trace, TraceAnswered, TraceRefused, TraceFails, Calling, Tracing,
     TryAgain, NoneLeft, EndTrace, Stop
<1> QED BY <1>2, <1>3, <1>4, <1>5, <1>6, <1>7 DEF Next

(***************************************************************************)
(* When the top-level transfers of a block are written, every receipt has  *)
(* been answered, and a transaction is taken for reverted only if it is,   *)
(* or if a node that is behind answered null for it: an answer that a      *)
(* failure of another call cut off never decides (detectNativeTransfers).  *)
(***************************************************************************)
ReceiptsDecide ==
  [][EmitNative =>
       \A c \in Candidates :
         \/ receipts[c] = "yes" /\ ~Reverted(c)
         \/ receipts[c] = "no" /\ (Reverted(c) \/ c \in nulls)]_vars

THEOREM ReceiptsDecided == Spec => ReceiptsDecide
<1>1. Init => ReceiptsInv
  BY DEF Init, ReceiptsInv
<1>2. ReceiptsInv /\ [Next]_vars =>
        [EmitNative =>
           \A c \in Candidates :
             \/ receipts[c] = "yes" /\ ~Reverted(c)
             \/ receipts[c] = "no" /\ (Reverted(c) \/ c \in nulls)]_vars
  <2> SUFFICES ASSUME ReceiptsInv, EmitNative, NEW c \in Candidates
               PROVE  \/ receipts[c] = "yes" /\ ~Reverted(c)
                      \/ receipts[c] = "no" /\ (Reverted(c) \/ c \in nulls)
    OBVIOUS
  <2>1. /\ pc = "receipts" /\ ~SomeFailed
        /\ \A d \in DOMAIN receipts : receipts[d] \notin {"todo", "asked"}
    BY DEF EmitNative, Detected
  <2>2. c \in DOMAIN receipts /\ receipts[c] \in {"todo", "asked", "yes", "no", "failed"}
    BY <2>1 DEF ReceiptsInv
  <2>3. receipts[c] \in {"yes", "no"}
    BY <2>1, <2>2 DEF SomeFailed
  <2> QED
    BY <2>1, <2>3 DEF ReceiptsInv
<1> QED BY <1>1, <1>2, ReceiptsStep, PTL DEF Spec, ReceiptsDecide
-----------------------------------------------------------------------------
(***************************************************************************)
(* A block with transactions whose internal transfers are wanted ends with *)
(* an answer, skipped after its attempts, or with the methods all refused: *)
(* the last conjunct of BlockAccountedFor (traceBlockInternal).            *)
(***************************************************************************)
TracedOrOff == pc = "done" /\ via = "none" /\ filter.includeInternal /\ HasTxs => backend = "disabled"

TracedInv ==
  /\ BackendInv /\ TracedOrOff
  /\ pc \in {"receipts", "trace"} => via = "none"

LEMMA TracedStep == TracedInv /\ [Next]_vars => TracedInv'
<1> SUFFICES ASSUME TracedInv, [Next]_vars
             PROVE  TracedInv'
  OBVIOUS
<1> USE DEF TracedOrOff
<1>0. BackendInv'
  BY BackendStep DEF TracedInv
<1>1. CASE UNCHANGED <<filter, block, pc, via, backend>>
  BY <1>0, <1>1 DEF TracedInv, HasTxs
<1>2. ASSUME UNCHANGED <<filter, block>>, pc' \notin {"done"}, via' = "none"
      PROVE  TracedInv'
  BY <1>0, <1>2 DEF TracedInv
<1>3. CASE UNCHANGED vars
  BY <1>1, <1>3 DEF vars
<1>4. CASE NextBlock
  BY <1>0, <1>4 DEF NextBlock, TracedInv
<1>5. ASSUME NEW c \in DOMAIN receipts, AskReceipt(c) \/ Receipt(c) \/ ReceiptFails(c)
      PROVE  TracedInv'
  BY <1>1, <1>5 DEF AskReceipt, Receipt, ReceiptFails
<1>6. CASE DetectFails
  BY <1>1, <1>6 DEF DetectFails
<1>7. CASE EmitNative
  <2>1. pc = "receipts" /\ UNCHANGED <<filter, block, via, backend>>
        /\ pc' = IF filter.includeInternal /\ backend # "disabled" THEN "trace" ELSE "done"
    BY <1>7 DEF EmitNative, Detected
  <2> QED
    BY <1>0, <2>1 DEF TracedInv, HasTxs
<1>8. CASE TraceAnswered
  <2>1. Method \in Methods
    BY <1>8, MethodIsOne DEF TraceAnswered, Tracing, TracedInv
  <2>2. via' = Method /\ pc' = "done"
    BY <1>8 DEF TraceAnswered, EndTrace
  <2>3. via' # "none"
    BY <2>1, <2>2 DEF Methods
  <2> QED
    BY <1>0, <2>2, <2>3 DEF TracedInv
<1>9. ASSUME NEW b, TryAgain(b), pc = "trace", Unchanged
      PROVE  TracedInv'
  BY <1>2, <1>9 DEF TryAgain, Unchanged, TracedInv
<1>10. ASSUME NEW e \in TraceErrors, TraceRefused(e)
       PROVE  TracedInv'
  <2>1. pc = "trace" /\ Unchanged
    BY <1>10 DEF TraceRefused, Calling, Tracing
  <2>2. CASE TryAgain("unknown")
    BY <1>9, <2>1, <2>2
  <2>3. CASE UNCHANGED <<pc, via, emitted, backend, attempt>>
    BY <1>1, <2>1, <2>3 DEF Unchanged
  <2>4. CASE NoneLeft
    <3>1. /\ backend' = IF HasTxs THEN "disabled" ELSE "unknown"
          /\ pc' = "done" /\ UNCHANGED <<filter, block>>
      BY <2>1, <2>4 DEF NoneLeft, EndTrace, Unchanged
    <3> QED
      BY <1>0, <3>1 DEF TracedInv, HasTxs
  <2> QED
    BY <1>10, <2>2, <2>3, <2>4 DEF TraceRefused
<1>11. ASSUME NEW e \in TraceErrors, TraceFails(e)
       PROVE  TracedInv'
  <2>1. pc = "trace" /\ Unchanged
    BY <1>11 DEF TraceFails, Calling, Tracing
  <2>2. CASE TryAgain(backend)
    BY <1>9, <2>1, <2>2
  <2>3. CASE EndTrace("skipped", <<>>)
    BY <1>0, <2>3 DEF EndTrace, TracedInv
  <2> QED
    BY <1>11, <2>2, <2>3 DEF TraceFails
<1>12. CASE Stop
  BY <1>0, <1>12 DEF Stop, TracedInv
<1> QED BY <1>3, <1>4, <1>5, <1>6, <1>7, <1>8, <1>10, <1>11, <1>12 DEF Next, Trace

THEOREM AnsweredSkippedOrOff == Spec => []TracedOrOff
<1>1. Init => TracedInv
  BY DEF Init, TracedInv, TracedOrOff, BackendInv, Methods, HasTxs
<1>2. TracedInv => TracedOrOff
  BY DEF TracedInv
<1> QED BY <1>1, <1>2, TracedStep, PTL DEF Spec
-----------------------------------------------------------------------------
(***************************************************************************)
(* The records of a block come out of a recursion over its calls.  A set   *)
(* of numbers that holds 0 and each successor holds all: induction, stated *)
(* with a set, so that it can be used on what a recursion computes.        *)
(***************************************************************************)
LEMMA NatSetInduction ==
  ASSUME NEW S, 0 \in S, \A n \in Nat : n \in S => n + 1 \in S
  PROVE  Nat \subseteq S
<1> DEFINE R == OpToRel(<, Nat)
           T == Nat \ S
<1>1. IsWellFoundedOn(R, Nat)
  BY NatLessThanWellFounded
<1>2. SUFFICES ASSUME T # {} PROVE FALSE
  OBVIOUS
<1>3. T \subseteq Nat
  OBVIOUS
<1> HIDE DEF R, T
<1>4. PICK x \in T : \A y \in T : <<y, x>> \notin R
  BY <1>1, <1>2, <1>3, WFMin
<1>5. x \in Nat /\ x \notin S
  BY <1>4 DEF T
<1>6. x # 0 /\ x - 1 \in Nat /\ x - 1 \notin S
  BY <1>5
<1>7. x - 1 \in T
  BY <1>6 DEF T
<1>8. <<x - 1, x>> \in R
  BY <1>5, <1>6 DEF R, OpToRel
<1> QED BY <1>4, <1>7, <1>8

(* s holds the elements of S, and no other, in the order R.                *)
Lists(s, S, R) ==
  /\ s \in Seq(S)
  /\ \A x \in S : \E k \in 1 .. Len(s) : s[k] = x
  /\ \A k, l \in 1 .. Len(s) : k < l => <<s[k], s[l]>> \in R

(* Nothing lists nothing.                                                  *)
LEMMA EmptyLists ==
  ASSUME NEW R
  PROVE  Lists(<<>>, {}, R)
BY DEF Lists

(* One element alone is in any order.                                      *)
LEMMA OneLists ==
  ASSUME NEW x, NEW R
  PROVE  Lists(<<x>>, {x}, R)
BY DEF Lists

(* Of two sequences what the first lists comes before what the second does. *)
LEMMA ConcatLists ==
  ASSUME NEW s, NEW t, NEW S, NEW T, NEW R, Lists(s, S, R), Lists(t, T, R),
         \A x \in S, y \in T : <<x, y>> \in R
  PROVE  Lists(s \o t, S \cup T, R)
<1>1. s \in Seq(S \cup T) /\ t \in Seq(S \cup T) /\ Len(s) \in Nat /\ Len(t) \in Nat
      /\ (\A k \in 1 .. Len(s) : s[k] \in S) /\ (\A k \in 1 .. Len(t) : t[k] \in T)
  BY DEF Lists
<1>2. /\ s \o t \in Seq(S \cup T) /\ Len(s \o t) = Len(s) + Len(t)
      /\ \A k \in 1 .. Len(s) + Len(t) :
           (s \o t)[k] = IF k <= Len(s) THEN s[k] ELSE t[k - Len(s)]
  BY <1>1
<1> DEFINE u == s \o t
<1>3. \A k \in 1 .. Len(s) : u[k] = s[k] /\ k \in 1 .. Len(u)
  BY <1>1, <1>2
<1>4. \A k \in 1 .. Len(t) : u[k + Len(s)] = t[k] /\ k + Len(s) \in 1 .. Len(u)
  <2> SUFFICES ASSUME NEW k \in 1 .. Len(t) PROVE u[k + Len(s)] = t[k] /\ k + Len(s) \in 1 .. Len(u)
    OBVIOUS
  <2>1. k + Len(s) \in 1 .. Len(s) + Len(t) /\ ~(k + Len(s) <= Len(s)) /\ k + Len(s) - Len(s) = k
    BY <1>1
  <2> QED BY <1>2, <2>1
<1>5. \A x \in S \cup T : \E k \in 1 .. Len(u) : u[k] = x
  <2> HIDE DEF u
  <2> QED BY <1>3, <1>4 DEF Lists
<1>6. ASSUME NEW k \in 1 .. Len(u), NEW l \in 1 .. Len(u), k < l
      PROVE  <<u[k], u[l]>> \in R
  <2> HIDE DEF u
  <2>1. CASE l <= Len(s)
    <3>1. k \in 1 .. Len(s) /\ l \in 1 .. Len(s)
      BY <1>1, <1>6, <2>1
    <3> QED BY <1>3, <1>6, <3>1 DEF Lists
  <2>2. CASE ~(k <= Len(s))
    <3>1. k - Len(s) \in 1 .. Len(t) /\ l - Len(s) \in 1 .. Len(t) /\ k - Len(s) < l - Len(s)
          /\ (k - Len(s)) + Len(s) = k /\ (l - Len(s)) + Len(s) = l
      BY <1>1, <1>2, <1>6, <2>2 DEF u
    <3>2. u[k] = t[k - Len(s)] /\ u[l] = t[l - Len(s)]
      BY <1>4, <3>1
    <3> QED BY <3>1, <3>2 DEF Lists
  <2>3. CASE k <= Len(s) /\ ~(l <= Len(s))
    <3>1. k \in 1 .. Len(s) /\ l - Len(s) \in 1 .. Len(t) /\ (l - Len(s)) + Len(s) = l
      BY <1>1, <1>2, <1>6, <2>3 DEF u
    <3>2. u[k] = s[k] /\ u[l] = t[l - Len(s)]
      BY <1>3, <1>4, <3>1
    <3> QED BY <1>1, <3>1, <3>2
  <2> QED BY <1>1, <2>1, <2>2, <2>3
<1> QED BY <1>2, <1>5, <1>6 DEF Lists

(* The recursive function in FlattenSeq exists.                            *)
LEMMA FlattenExists ==
  ASSUME NEW n \in Nat, NEW ss
  PROVE  \E f : f = [i \in 1 .. n |-> IF i = 1 THEN ss[i] ELSE f[i - 1] \o ss[i]]
<1> DEFINE Body(f, i) == IF i = 1 THEN ss[i] ELSE f[i - 1] \o ss[i]
           Good == {m \in Nat : \E f : f = [i \in 1 .. m |-> Body(f, i)]}
<1>1. 0 \in Good
  <2> DEFINE g == [i \in 1 .. 0 |-> ss[i]]
  <2>1. g = [i \in 1 .. 0 |-> Body(g, i)]
    OBVIOUS
  <2> QED BY <2>1
<1>2. ASSUME NEW m \in Nat, m \in Good
      PROVE  m + 1 \in Good
  <2>1. PICK f : f = [i \in 1 .. m |-> Body(f, i)]
    BY <1>2
  <2>0. \A i \in 1 .. m : f[i] = Body(f, i)
    BY <2>1, Zenon
  <2> DEFINE g == [i \in 1 .. m + 1 |-> IF i <= m THEN f[i] ELSE Body(f, i)]
  <2>2. ASSUME NEW i \in 1 .. m + 1
        PROVE  g[i] = Body(g, i)
    <3>1. CASE i <= m
      <4>1. g[i] = f[i] /\ i \in 1 .. m
        BY <3>1
      <4>3. f[i] = Body(f, i)
        BY <2>0, <4>1, Zenon
      <4>2. i # 1 => g[i - 1] = f[i - 1]
        BY <3>1
      <4> QED BY <4>1, <4>2, <4>3
    <3>2. CASE ~(i <= m)
      <4>1. g[i] = Body(f, i) /\ i = m + 1
        BY <3>2
      <4>2. i # 1 => g[i - 1] = f[i - 1]
        BY <4>1
      <4> QED BY <4>1, <4>2
    <3> QED BY <3>1, <3>2
  <2>3. g = [i \in 1 .. m + 1 |-> Body(g, i)]
    <3>1. g = [i \in 1 .. m + 1 |-> g[i]]
      OBVIOUS
    <3> HIDE DEF g, Body
    <3> QED BY <2>2, <3>1
  <2> HIDE DEF g, Body
  <2> QED BY <2>3
<1>3. n \in Good
  <2> HIDE DEF Good
  <2> QED BY <1>1, <1>2, NatSetInduction
<1> QED BY <1>3

(* FlattenSeq lists what its sequences list, one after the other.          *)
LEMMA FlattenLists ==
  ASSUME NEW ss, NEW n \in Nat, Len(ss) = n, n = 0 => ss = <<>>, NEW SS, NEW R,
         \A k \in 1 .. n : Lists(ss[k], SS[k], R),
         \A k, l \in 1 .. n : k < l => \A x \in SS[k], y \in SS[l] : <<x, y>> \in R
  PROVE  Lists(FlattenSeq(ss), UNION {SS[k] : k \in 1 .. n}, R)
<1>1. CASE n = 0
  BY <1>1, EmptyLists DEF FlattenSeq
<1>2. CASE n # 0
  <2> DEFINE Eq(f) == f = [i \in 1 .. n |-> IF i = 1 THEN ss[i] ELSE f[i - 1] \o ss[i]]
             f == CHOOSE f : Eq(f)
             Upto(m) == UNION {SS[k] : k \in 1 .. m}
             Good == {m \in Nat : m + 1 <= n => Lists(f[m + 1], Upto(m + 1), R)}
  <2>1. FlattenSeq(ss) = f[n]
    BY <1>2, Zenon DEF FlattenSeq
  <2>2. Eq(f)
    <3>1. \E g : Eq(g)
      BY FlattenExists
    <3> HIDE DEF Eq
    <3> QED BY <3>1
  <2> HIDE DEF f
  <2>3. f[1] = ss[1] /\ \A i \in 1 .. n : i # 1 => f[i] = f[i - 1] \o ss[i]
    <3>1. \A i \in 1 .. n : f[i] = IF i = 1 THEN ss[i] ELSE f[i - 1] \o ss[i]
      BY <2>2, Zenon
    <3>2. 1 \in 1 .. n
      BY <1>2
    <3> QED BY <3>1, <3>2
  <2>4. 0 \in Good
    <3>1. Upto(1) = SS[1] /\ 0 + 1 = 1 /\ 1 \in 1 .. n
      BY <1>2
    <3>2. Lists(f[1], Upto(1), R)
      BY <2>3, <3>1
    <3> HIDE DEF Upto
    <3> QED BY <3>1, <3>2
  <2>5. ASSUME NEW m \in Nat, m \in Good
        PROVE  m + 1 \in Good
    <3>0. SUFFICES ASSUME m + 2 <= n
                   PROVE  Lists(f[m + 2], Upto(m + 2), R)
      <4>1. (m + 1) + 1 = m + 2
        OBVIOUS
      <4> HIDE DEF Upto
      <4> QED BY <4>1
    <3>1. Lists(f[m + 1], Upto(m + 1), R) /\ f[m + 2] = f[m + 1] \o ss[m + 2]
      <4>1. m + 1 <= n /\ m + 2 \in 1 .. n /\ m + 2 # 1 /\ (m + 2) - 1 = m + 1
        BY <3>0
      <4>2. f[m + 2] = f[m + 1] \o ss[m + 2]
        BY <2>3, <4>1
      <4> HIDE DEF Upto
      <4> QED BY <2>5, <4>1, <4>2
    <3>2. Upto(m + 2) = Upto(m + 1) \cup SS[m + 2]
      <4>1. 1 .. m + 2 = (1 .. m + 1) \cup {m + 2}
        OBVIOUS
      <4> QED BY <4>1
    <3>3. \A x \in Upto(m + 1), y \in SS[m + 2] : <<x, y>> \in R
      <4> SUFFICES ASSUME NEW k \in 1 .. m + 1, NEW x \in SS[k], NEW y \in SS[m + 2]
                   PROVE  <<x, y>> \in R
        OBVIOUS
      <4>1. k \in 1 .. n /\ m + 2 \in 1 .. n /\ k < m + 2
        BY <3>0
      <4> QED BY <4>1
    <3>4. Lists(ss[m + 2], SS[m + 2], R)
      <4>1. m + 2 \in 1 .. n
        BY <3>0
      <4> QED BY <4>1
    <3> HIDE DEF Upto
    <3> QED BY <3>1, <3>2, <3>3, <3>4, ConcatLists
  <2>6. n - 1 \in Good
    <3>1. n - 1 \in Nat
      BY <1>2
    <3> HIDE DEF Good
    <3> QED BY <2>4, <2>5, <3>1, NatSetInduction
  <2>7. Lists(f[n], Upto(n), R)
    <3>1. (n - 1) + 1 = n /\ n <= n
      OBVIOUS
    <3>2. (n - 1) + 1 <= n => Lists(f[(n - 1) + 1], Upto((n - 1) + 1), R)
      <4> HIDE DEF Upto
      <4> QED BY <2>6
    <3> HIDE DEF Upto
    <3> QED BY <3>1, <3>2
  <2> QED BY <2>1, <2>7
<1> QED BY <1>1, <1>2
-----------------------------------------------------------------------------
(***************************************************************************)
(* Call paths, and the order a walk meets them in: caller before callee,   *)
(* one call with all that it called before the next.                       *)
(***************************************************************************)
Path == Seq(Nat \ {0})
PathOrder == {r \in Path \X Path : Before(r[1], r[2])}

(* The first j elements of a path.                                         *)
LEMMA SubSeqIsPath ==
  ASSUME NEW q \in Path, NEW j \in Nat, j <= Len(q)
  PROVE  /\ SubSeq(q, 1, j) \in Path /\ Len(SubSeq(q, 1, j)) = j
         /\ \A i \in 1 .. j : SubSeq(q, 1, j)[i] = q[i]
BY SubSeqProperties DEF Path

(* Prefixes, element by element.                                           *)
LEMMA PrefixIs ==
  ASSUME NEW p \in Path, NEW q \in Path
  PROVE  /\ IsPrefix(p, q) <=> Len(p) <= Len(q) /\ \A j \in 1 .. Len(p) : p[j] = q[j]
         /\ IsStrictPrefix(p, q) <=> IsPrefix(p, q) /\ Len(p) < Len(q)
<1>1. Len(p) \in Nat /\ Len(q) \in Nat
  BY DEF Path
<1>2. ASSUME Len(p) <= Len(q)
      PROVE  /\ SubSeq(p, 1, Len(p)) = p /\ SubSeq(q, 1, Len(p)) \in Path
             /\ Len(SubSeq(q, 1, Len(p))) = Len(p)
             /\ \A j \in 1 .. Len(p) : SubSeq(q, 1, Len(p))[j] = q[j]
  <2>1. SubSeq(q, 1, Len(p)) \in Path /\ Len(SubSeq(q, 1, Len(p))) = Len(p)
        /\ \A j \in 1 .. Len(p) : SubSeq(q, 1, Len(p))[j] = q[j]
    BY <1>1, <1>2, SubSeqIsPath
  <2>2. SubSeq(p, 1, Len(p)) = p
    <3>1. /\ SubSeq(p, 1, Len(p)) \in Path /\ Len(SubSeq(p, 1, Len(p))) = Len(p)
          /\ \A j \in 1 .. Len(p) : SubSeq(p, 1, Len(p))[j] = p[j]
      BY <1>1, SubSeqIsPath
    <3> QED BY <3>1 DEF Path
  <2> QED BY <2>1, <2>2
<1>3. IsPrefix(p, q) <=> Len(p) <= Len(q) /\ \A j \in 1 .. Len(p) : p[j] = q[j]
  <2>1. CASE Len(p) <= Len(q)
    <3>1. SubSeq(q, 1, Len(p)) = p <=> \A j \in 1 .. Len(p) : p[j] = SubSeq(q, 1, Len(p))[j]
      BY <1>2, <2>1 DEF Path
    <3> QED BY <1>2, <2>1, <3>1 DEF IsPrefix
  <2> QED BY <2>1 DEF IsPrefix
<1>4. ASSUME IsPrefix(p, q), Len(p) = Len(q)
      PROVE  p = q
  BY <1>3, <1>4 DEF Path
<1> QED BY <1>1, <1>3, <1>4 DEF IsStrictPrefix

(* A caller of a caller is a caller.                                       *)
LEMMA PrefixTransitive ==
  ASSUME NEW p \in Path, NEW q \in Path, NEW r \in Path, IsPrefix(p, q), IsPrefix(q, r)
  PROVE  IsPrefix(p, r)
BY PrefixIs DEF Path

(* The path of the k-th call of p.                                         *)
LEMMA CallOf ==
  ASSUME NEW p \in Path, NEW k \in Nat \ {0}
  PROVE  /\ Append(p, k) \in Path /\ Len(Append(p, k)) = Len(p) + 1
         /\ Append(p, k)[Len(p) + 1] = k /\ \A j \in 1 .. Len(p) : Append(p, k)[j] = p[j]
         /\ IsStrictPrefix(p, Append(p, k))
<1>1. /\ Append(p, k) \in Path /\ Len(Append(p, k)) = Len(p) + 1 /\ Len(p) \in Nat
      /\ Append(p, k)[Len(p) + 1] = k /\ \A j \in 1 .. Len(p) : Append(p, k)[j] = p[j]
  BY DEF Path
<1> DEFINE c == Append(p, k)
<1>2. c \in Path /\ Len(p) <= Len(c) /\ Len(p) < Len(c) /\ \A j \in 1 .. Len(p) : p[j] = c[j]
  BY <1>1
<1> HIDE DEF c
<1>3. IsStrictPrefix(p, c)
  BY <1>2, PrefixIs
<1> QED BY <1>1, <1>3 DEF c

(* Of two calls of one frame the first, with all that it called, comes before *)
(* the second.                                                             *)
LEMMA CallsInOrder ==
  ASSUME NEW p \in Path, NEW k \in Nat \ {0}, NEW l \in Nat \ {0}, k < l,
         NEW x \in Path, NEW y \in Path, IsPrefix(Append(p, k), x), IsPrefix(Append(p, l), y)
  PROVE  <<x, y>> \in PathOrder
<1> DEFINE m == Len(p) + 1
<1>1. m \in Nat /\ m - 1 = Len(p) /\ m <= Len(x) /\ m <= Len(y) /\ m >= 1
      /\ x[m] = k /\ y[m] = l /\ \A j \in 1 .. Len(p) : x[j] = p[j] /\ y[j] = p[j]
  <2>1. Len(p) \in Nat
    BY DEF Path
  <2>2. Append(p, k) \in Path /\ Append(p, l) \in Path
    BY CallOf
  <2>3. /\ Len(Append(p, k)) = m /\ Append(p, k)[m] = k
        /\ \A j \in 1 .. Len(p) : Append(p, k)[j] = p[j]
    BY CallOf
  <2>4. /\ Len(Append(p, l)) = m /\ Append(p, l)[m] = l
        /\ \A j \in 1 .. Len(p) : Append(p, l)[j] = p[j]
    BY CallOf
  <2>5. m <= Len(x) /\ \A j \in 1 .. m : x[j] = Append(p, k)[j]
    BY <2>2, <2>3, PrefixIs
  <2>6. m <= Len(y) /\ \A j \in 1 .. m : y[j] = Append(p, l)[j]
    BY <2>2, <2>4, PrefixIs
  <2> QED BY <2>1, <2>3, <2>4, <2>5, <2>6
<1>2. SubSeq(x, 1, m - 1) = SubSeq(y, 1, m - 1)
  <2>0. m - 1 \in Nat /\ m - 1 <= Len(x) /\ m - 1 <= Len(y)
    <3>1. Len(x) \in Nat /\ Len(y) \in Nat
      BY DEF Path
    <3> HIDE DEF m
    <3> QED BY <1>1, <3>1
  <2>1. /\ SubSeq(x, 1, m - 1) \in Path /\ Len(SubSeq(x, 1, m - 1)) = m - 1
        /\ \A j \in 1 .. m - 1 : SubSeq(x, 1, m - 1)[j] = x[j]
    BY <2>0, SubSeqIsPath
  <2>2. /\ SubSeq(y, 1, m - 1) \in Path /\ Len(SubSeq(y, 1, m - 1)) = m - 1
        /\ \A j \in 1 .. m - 1 : SubSeq(y, 1, m - 1)[j] = y[j]
    BY <2>0, SubSeqIsPath
  <2> HIDE DEF m
  <2> QED BY <1>1, <2>1, <2>2 DEF Path
<1>3. m \in DOMAIN x \cap DOMAIN y
  BY <1>1 DEF Path
<1> HIDE DEF m
<1> QED BY <1>1, <1>2, <1>3 DEF PathOrder, Before

(* The frames below p in a call tree.                                      *)
Below(tx, p) == {q \in DOMAIN tx : IsStrictPrefix(p, q)}

(* The calls of a frame are numbered, and all that is below is below one.  *)
LEMMA TreeCalls ==
  ASSUME NEW tx, IsCallTree(tx), NEW p \in DOMAIN tx,
         NEW n, n = Cardinality(Callees(tx, p))
  PROVE  /\ n \in Nat /\ Len(CallsOf(tx, p)) = n /\ DOMAIN CallsOf(tx, p) = 1 .. n
         /\ \A k \in 1 .. n : CallsOf(tx, p)[k] = Append(p, k) /\ Append(p, k) \in DOMAIN tx
         /\ \A q \in Below(tx, p) : \E k \in 1 .. n : IsPrefix(Append(p, k), q)
<1>1. n \in Nat
  <2>1. IsFiniteSet(Callees(tx, p))
    BY FS_Subset DEF IsCallTree, Callees
  <2> QED BY <2>1, FS_CardinalityType
<1>2. CallsOf(tx, p) = [k \in 1 .. n |-> Append(p, k)]
  BY DEF CallsOf
<1>3. CallsOf(tx, p) \in Seq({Append(p, k) : k \in 1 .. n}) /\ Len(CallsOf(tx, p)) = n
  BY <1>1, <1>2
<1>4. Callees(tx, p) = {Append(p, k) : k \in 1 .. n}
  BY <1>2 DEF IsCallTree, ToSet
<1>5. DOMAIN tx \subseteq Path
  BY DEF IsCallTree, Path
<1>6. ASSUME NEW q \in Below(tx, p)
      PROVE  \E k \in 1 .. n : IsPrefix(Append(p, k), q)
  <2> DEFINE c == SubSeq(q, 1, Len(p) + 1)
  <2>1. q \in DOMAIN tx /\ p \in Path /\ q \in Path /\ IsPrefix(p, q) /\ Len(p) + 1 \in 0 .. Len(q)
        /\ Len(p) \in Nat /\ Len(q) \in Nat
    BY <1>5, <1>6, PrefixIs DEF Below, Path
  <2>2. c \in DOMAIN tx
    BY <2>1 DEF IsCallTree
  <2>3. c \in Path /\ Len(c) = Len(p) + 1 /\ \A j \in 1 .. Len(p) + 1 : c[j] = q[j]
    BY <2>1, SubSeqIsPath
  <2> HIDE DEF c
  <2>4. IsPrefix(c, q) /\ IsPrefix(p, c)
    BY <2>1, <2>3, PrefixIs
  <2>5. c \in Callees(tx, p)
    BY <2>2, <2>3, <2>4 DEF Callees
  <2> QED BY <1>4, <2>4, <2>5
<1>7. \A k \in 1 .. n : CallsOf(tx, p)[k] = Append(p, k) /\ Append(p, k) \in DOMAIN tx
  BY <1>2, <1>4 DEF Callees
<1> QED BY <1>1, <1>2, <1>3, <1>6, <1>7

(* How much is below a call: less for each of its calls.                   *)
Depth(tx, p) == Cardinality(Below(tx, p))

(* The measure the recursion of DepthFirst falls by.                       *)
LEMMA DepthFalls ==
  ASSUME NEW tx, IsCallTree(tx), NEW p \in DOMAIN tx
  PROVE  /\ Depth(tx, p) \in Nat /\ Depth(tx, p) <= Cardinality(DOMAIN tx)
         /\ Cardinality(DOMAIN tx) \in Nat
         /\ \A q \in Below(tx, p) : Depth(tx, q) < Depth(tx, p)
<1>1. DOMAIN tx \subseteq Path /\ IsFiniteSet(DOMAIN tx)
  BY DEF IsCallTree, Path
<1>2. ASSUME NEW q \in DOMAIN tx
      PROVE  /\ IsFiniteSet(Below(tx, q)) /\ Depth(tx, q) \in Nat
             /\ Depth(tx, q) <= Cardinality(DOMAIN tx) /\ Cardinality(DOMAIN tx) \in Nat
  <2>1. Below(tx, q) \subseteq DOMAIN tx
    BY DEF Below
  <2> QED BY <1>1, <2>1, FS_Subset, FS_CardinalityType DEF Depth
<1>3. ASSUME NEW q \in Below(tx, p)
      PROVE  Depth(tx, q) < Depth(tx, p)
  <2>1. q \in DOMAIN tx /\ p \in Path /\ q \in Path /\ IsPrefix(p, q) /\ Len(p) < Len(q)
        /\ Len(p) \in Nat /\ Len(q) \in Nat
    BY <1>1, <1>3, PrefixIs DEF Below, Path
  <2>2. Below(tx, q) \subseteq Below(tx, p)
    <3> SUFFICES ASSUME NEW r \in Below(tx, q)
                 PROVE  r \in Below(tx, p)
      OBVIOUS
    <3>1. r \in DOMAIN tx /\ r \in Path /\ IsPrefix(q, r) /\ Len(q) < Len(r) /\ Len(r) \in Nat
      BY <1>1, <2>1, PrefixIs DEF Below, Path
    <3>2. IsPrefix(p, r) /\ Len(p) < Len(r)
      BY <2>1, <3>1, PrefixTransitive
    <3> QED BY <2>1, <3>1, <3>2, PrefixIs DEF Below
  <2>3. q \in Below(tx, p) /\ q \notin Below(tx, q)
    BY <1>3, <2>1 DEF Below, IsStrictPrefix
  <2>4. Below(tx, q) # Below(tx, p)
    BY <2>3
  <2> QED BY <1>2, <2>1, <2>2, <2>4, FS_Subset DEF Depth
<1> QED BY <1>2, <1>3
-----------------------------------------------------------------------------
(***************************************************************************)
(* DepthFirst (walkCallFrames): what its recursive function makes of one   *)
(* call and of a frame, and that there is such a function.                 *)
(***************************************************************************)
VisitOf(enter, take, walk, c) ==
  IF c \notin enter THEN <<>> ELSE (IF c \in take THEN <<c>> ELSE <<>>) \o walk[c]
WalkOf(tx, enter, take, walk, p) ==
  FlattenSeq([k \in DOMAIN CallsOf(tx, p) |-> VisitOf(enter, take, walk, CallsOf(tx, p)[k])])

(* What it makes of a frame depends on what is below alone.                *)
LEMMA WalkOfSame ==
  ASSUME NEW tx, IsCallTree(tx), NEW enter, NEW take, NEW p \in DOMAIN tx, NEW v, NEW w,
         \A c \in Below(tx, p) : v[c] = w[c]
  PROVE  WalkOf(tx, enter, take, v, p) = WalkOf(tx, enter, take, w, p)
<1> DEFINE n == Cardinality(Callees(tx, p))
<1>1. DOMAIN CallsOf(tx, p) = 1 .. n /\ \A k \in 1 .. n : CallsOf(tx, p)[k] \in Below(tx, p)
  <2>1. ASSUME NEW k \in 1 .. n
        PROVE  CallsOf(tx, p)[k] \in Below(tx, p)
    <3>1. p \in Path /\ k \in Nat \ {0} /\ CallsOf(tx, p)[k] = Append(p, k) /\ Append(p, k) \in DOMAIN tx
      <4>1. p \in Path
        BY DEF IsCallTree, Path
      <4>2. k \in Nat \ {0}
        BY TreeCalls
      <4> QED BY <4>1, <4>2, TreeCalls
    <3>2. IsStrictPrefix(p, Append(p, k))
      BY <3>1, CallOf
    <3> QED BY <3>1, <3>2 DEF Below
  <2> QED BY <2>1, TreeCalls
<1>2. \A k \in DOMAIN CallsOf(tx, p) :
        VisitOf(enter, take, v, CallsOf(tx, p)[k]) = VisitOf(enter, take, w, CallsOf(tx, p)[k])
  BY <1>1 DEF VisitOf
<1> QED BY <1>2 DEF WalkOf

(* By induction over how much is below.                                    *)
LEMMA WalkExists ==
  ASSUME NEW tx, IsCallTree(tx), NEW enter, NEW take
  PROVE  \E walk : walk = [p \in DOMAIN tx |-> WalkOf(tx, enter, take, walk, p)]
<1> DEFINE Body(w, p) == WalkOf(tx, enter, take, w, p)
           Upto(w, n) == \A p \in DOMAIN tx : Depth(tx, p) < n => w[p] = Body(w, p)
           Good == {n \in Nat : \E w : Upto(w, n)}
           N == Cardinality(DOMAIN tx) + 1
<1>0. N \in Nat /\ \A p \in DOMAIN tx : Depth(tx, p) \in Nat /\ Depth(tx, p) < N
  <2>1. Root \in DOMAIN tx
    BY DEF IsCallTree
  <2> QED BY <2>1, DepthFalls
<1>1. 0 \in Good
  <2>1. Upto(<<>>, 0)
    BY <1>0
  <2> QED BY <2>1
<1>2. ASSUME NEW n \in Nat, n \in Good
      PROVE  n + 1 \in Good
  <2>1. PICK w : Upto(w, n)
    BY <1>2
  <2> DEFINE v == [p \in DOMAIN tx |-> IF Depth(tx, p) < n THEN w[p] ELSE Body(w, p)]
  <2>2. ASSUME NEW p \in DOMAIN tx, Depth(tx, p) < n + 1
        PROVE  v[p] = Body(v, p)
    <3>1. \A c \in Below(tx, p) : w[c] = v[c]
      <4> SUFFICES ASSUME NEW c \in Below(tx, p)
                   PROVE  w[c] = v[c]
        OBVIOUS
      <4>1. c \in DOMAIN tx /\ Depth(tx, c) < n
        <5>1. c \in DOMAIN tx
          BY DEF Below
        <5>2. Depth(tx, c) < Depth(tx, p)
          BY DepthFalls
        <5> QED BY <1>0, <2>2, <5>1, <5>2
      <4> QED BY <4>1
    <3>2. Body(w, p) = Body(v, p)
      <4> HIDE DEF v
      <4> QED BY <3>1, WalkOfSame
    <3>3. v[p] = Body(w, p)
      BY <2>1
    <3> HIDE DEF v, Body
    <3> QED BY <3>2, <3>3
  <2>3. Upto(v, n + 1)
    BY <2>2
  <2> HIDE DEF v, Upto
  <2> QED BY <2>3
<1>3. N \in Good
  <2> HIDE DEF Good, N
  <2> QED BY <1>0, <1>1, <1>2, NatSetInduction
<1>4. PICK w : \A p \in DOMAIN tx : w[p] = Body(w, p)
  <2>1. PICK w : Upto(w, N)
    BY <1>3
  <2> HIDE DEF N, Body
  <2> QED BY <1>0, <2>1
<1> DEFINE v == [p \in DOMAIN tx |-> w[p]]
<1>5. ASSUME NEW p \in DOMAIN tx
      PROVE  v[p] = Body(v, p)
  <2>1. \A c \in Below(tx, p) : w[c] = v[c]
    BY DEF Below
  <2>2. Body(w, p) = Body(v, p)
    <3> HIDE DEF v
    <3> QED BY <2>1, WalkOfSame
  <2>3. v[p] = w[p]
    OBVIOUS
  <2> HIDE DEF v, Body
  <2> QED BY <1>4, <2>2, <2>3
<1>6. v = [p \in DOMAIN tx |-> Body(v, p)]
  <2>1. v = [p \in DOMAIN tx |-> v[p]]
    OBVIOUS
  <2> HIDE DEF v, Body
  <2> QED BY <1>5, <2>1
<1> QED BY <1>6

(* The calls below p that it shows: taken, with all that lead there entered. *)
Shown(tx, enter, take, p) ==
  {q \in Below(tx, p) \cap take :
     \A r \in DOMAIN tx : IsStrictPrefix(p, r) /\ IsPrefix(r, q) => r \in enter}

(* The call c if it is taken, and those below it.                          *)
ShownFrom(tx, enter, take, c) ==
  IF c \notin enter THEN {} ELSE ({c} \cap take) \cup Shown(tx, enter, take, c)

(* What is shown below p is what is shown from each of its calls.          *)
LEMMA ShownOf ==
  ASSUME NEW tx, IsCallTree(tx), NEW enter, NEW take, NEW p \in DOMAIN tx,
         NEW n, n = Cardinality(Callees(tx, p))
  PROVE  Shown(tx, enter, take, p) = UNION {ShownFrom(tx, enter, take, Append(p, k)) : k \in 1 .. n}
<1> DEFINE V(k) == ShownFrom(tx, enter, take, Append(p, k))
<1>1. p \in Path /\ DOMAIN tx \subseteq Path
  BY DEF IsCallTree, Path
<1>2. ASSUME NEW k \in 1 .. n
      PROVE  /\ Append(p, k) \in DOMAIN tx /\ Append(p, k) \in Path /\ IsStrictPrefix(p, Append(p, k))
             /\ IsPrefix(p, Append(p, k)) /\ Len(Append(p, k)) = Len(p) + 1 /\ Len(p) \in Nat
  <2>1. k \in Nat \ {0} /\ Append(p, k) \in DOMAIN tx
    BY TreeCalls
  <2> QED BY <1>1, <2>1, CallOf, PrefixIs DEF Path
<1>3. ASSUME NEW q \in Shown(tx, enter, take, p)
      PROVE  \E k \in 1 .. n : q \in V(k)
  <2>1. q \in Below(tx, p) /\ q \in take /\ q \in DOMAIN tx /\ q \in Path
        /\ \A r \in DOMAIN tx : IsStrictPrefix(p, r) /\ IsPrefix(r, q) => r \in enter
    BY <1>1, <1>3 DEF Shown, Below
  <2>2. PICK k \in 1 .. n : IsPrefix(Append(p, k), q)
    BY <2>1, TreeCalls
  <2> DEFINE c == Append(p, k)
  <2>3. c \in enter /\ c \in DOMAIN tx /\ c \in Path
    BY <1>2, <2>1, <2>2
  <2>4. q = c \/ q \in Below(tx, c)
    BY <2>1, <2>2, <2>3 DEF Below, IsStrictPrefix
  <2>5. ASSUME NEW r \in DOMAIN tx, IsStrictPrefix(c, r), IsPrefix(r, q)
        PROVE  r \in enter
    <3>1. r \in Path /\ IsPrefix(p, c) /\ IsPrefix(c, r) /\ Len(c) < Len(r) /\ Len(p) < Len(c)
      BY <1>1, <1>2, <2>3, <2>5, PrefixIs
    <3>2. IsPrefix(p, r) /\ Len(p) < Len(r)
      BY <1>1, <2>3, <3>1, PrefixTransitive DEF Path
    <3>3. IsStrictPrefix(p, r)
      BY <1>1, <3>1, <3>2, PrefixIs
    <3> QED BY <2>1, <2>5, <3>3
  <2>6. q \in V(k)
    BY <2>1, <2>3, <2>4, <2>5 DEF Shown, ShownFrom
  <2> QED BY <2>6
<1>4. ASSUME NEW k \in 1 .. n, NEW q \in V(k)
      PROVE  q \in Shown(tx, enter, take, p)
  <2> DEFINE c == Append(p, k)
  <2>1. c \in enter /\ c \in DOMAIN tx /\ c \in Path /\ IsStrictPrefix(p, c) /\ IsPrefix(p, c)
        /\ Len(p) < Len(c) /\ Len(c) = Len(p) + 1 /\ Len(p) \in Nat
    <3>1. c \in enter
      BY <1>4 DEF ShownFrom
    <3> QED BY <1>2, <3>1
  <2>2. q \in take /\ q \in DOMAIN tx /\ q \in Path /\ IsPrefix(c, q)
        /\ (q = c \/ \A r \in DOMAIN tx : IsStrictPrefix(c, r) /\ IsPrefix(r, q) => r \in enter)
    <3>1. IsPrefix(c, c)
      <4>1. Len(c) <= Len(c)
        BY <2>1
      <4> HIDE DEF c
      <4> QED BY <2>1, <4>1, PrefixIs
    <3>2. q \in {c} \cap take \/ q \in Shown(tx, enter, take, c)
      BY <1>4, <2>1 DEF ShownFrom
    <3>3. CASE q = c /\ q \in take
      BY <2>1, <3>1, <3>3
    <3>4. CASE q \in Shown(tx, enter, take, c)
      <4> HIDE DEF c
      <4> QED BY <1>1, <3>4 DEF Shown, Below, IsStrictPrefix
    <3> QED BY <3>2, <3>3, <3>4
  <2>3. IsStrictPrefix(p, q)
    <3>1. IsPrefix(p, q) /\ Len(c) <= Len(q) /\ Len(q) \in Nat
      <4> HIDE DEF c
      <4>1. IsPrefix(p, q)
        BY <1>1, <2>1, <2>2, PrefixTransitive
      <4>2. Len(c) <= Len(q) /\ Len(q) \in Nat
        BY <1>1, <2>1, <2>2, PrefixIs DEF Path
      <4> QED BY <4>1, <4>2
    <3> HIDE DEF c
    <3> QED BY <1>1, <2>1, <2>2, <3>1, PrefixIs
  <2>4. ASSUME NEW r \in DOMAIN tx, IsStrictPrefix(p, r), IsPrefix(r, q)
        PROVE  r \in enter
    <3>1. r \in Path /\ Len(p) < Len(r) /\ Len(r) <= Len(q) /\ Len(r) \in Nat /\ Len(q) \in Nat
          /\ (\A j \in 1 .. Len(r) : r[j] = q[j]) /\ (\A j \in 1 .. Len(c) : c[j] = q[j])
      <4>1. r \in Path /\ Len(p) < Len(r)
        BY <1>1, <2>4, PrefixIs
      <4>2. Len(r) <= Len(q) /\ \A j \in 1 .. Len(r) : r[j] = q[j]
        BY <1>1, <2>2, <2>4, PrefixIs
      <4>3. \A j \in 1 .. Len(c) : c[j] = q[j]
        <5> HIDE DEF c
        <5> QED BY <2>1, <2>2, PrefixIs
      <4>4. Len(r) \in Nat /\ Len(q) \in Nat
        BY <1>1, <2>2 DEF Path
      <4> HIDE DEF c
      <4> QED BY <4>1, <4>2, <4>3, <4>4
    <3>2. Len(c) <= Len(r) /\ \A j \in 1 .. Len(c) : c[j] = r[j]
      <4> HIDE DEF c
      <4> QED BY <2>1, <3>1
    <3>3. IsPrefix(c, r)
      BY <2>1, <3>1, <3>2, PrefixIs
    <3>4. CASE r = c
      BY <2>1, <3>4
    <3>5. CASE r # c
      <4>1. IsStrictPrefix(c, r)
        BY <3>3, <3>5 DEF IsStrictPrefix
      <4>2. q # c
        <5>1. CASE q = c
          <6>1. Len(r) = Len(c)
            <7> HIDE DEF c
            <7> QED BY <2>1, <3>1, <3>2, <5>1
          <6>2. ~IsStrictPrefix(c, r)
            <7>1. ~(Len(c) < Len(r))
              <8> HIDE DEF c
              <8> QED BY <2>1, <3>1, <6>1
            <7> HIDE DEF c
            <7> QED BY <2>1, <3>1, <7>1, PrefixIs
          <6> QED BY <4>1, <6>2
        <5> QED BY <5>1
      <4> QED BY <2>2, <2>4, <4>1, <4>2
    <3> QED BY <3>4, <3>5
  <2> QED BY <2>2, <2>3, <2>4 DEF Shown, Below
<1>5. \A q : q \in Shown(tx, enter, take, p) <=> \E k \in 1 .. n : q \in V(k)
  BY <1>3, <1>4
<1> HIDE DEF V
<1>6. Shown(tx, enter, take, p) = UNION {V(k) : k \in 1 .. n}
  BY <1>5
<1> QED BY <1>6 DEF V

(* A function on 1 .. n is a sequence.                                     *)
LEMMA FunIsSeq ==
  ASSUME NEW n \in Nat, NEW f, f = [k \in 1 .. n |-> f[k]]
  PROVE  Len(f) = n /\ (n = 0 => f = <<>>)
<1>1. f \in Seq({f[k] : k \in 1 .. n})
  OBVIOUS
<1>2. Len(f) = n
  OBVIOUS
<1> QED BY <1>1, <1>2

(***************************************************************************)
(* DepthFirst lists the calls that it shows, each once, caller before      *)
(* callee and one call with all that it called before the next.            *)
(***************************************************************************)
LEMMA DepthFirstLists ==
  ASSUME NEW tx, IsCallTree(tx), NEW enter, NEW take
  PROVE  Lists(DepthFirst(tx, enter, take), Shown(tx, enter, take, Root), PathOrder)
<1> DEFINE Walk(w) == w = [p \in DOMAIN tx |-> WalkOf(tx, enter, take, w, p)]
           walk == CHOOSE w : Walk(w)
           Listed(p) == Lists(walk[p], Shown(tx, enter, take, p), PathOrder)
           Good == {n \in Nat : \A p \in DOMAIN tx : Depth(tx, p) < n => Listed(p)}
           N == Cardinality(DOMAIN tx) + 1
<1>1. DepthFirst(tx, enter, take) = walk[Root]
  BY Zenon DEF DepthFirst, WalkOf, VisitOf
<1>2. Walk(walk)
  <2>1. \E w : Walk(w)
    BY WalkExists
  <2> HIDE DEF Walk
  <2> QED BY <2>1
<1> HIDE DEF walk
<1>3. \A p \in DOMAIN tx : walk[p] = WalkOf(tx, enter, take, walk, p)
  BY <1>2, Zenon
<1>4. Root \in DOMAIN tx /\ DOMAIN tx \subseteq Path
  BY DEF IsCallTree, Path
<1>5. N \in Nat /\ \A p \in DOMAIN tx : Depth(tx, p) \in Nat /\ Depth(tx, p) < N
  BY <1>4, DepthFalls
<1>6. ASSUME NEW p \in DOMAIN tx, \A c \in Below(tx, p) : Listed(c)
      PROVE  Listed(p)
  <2> DEFINE n == Cardinality(Callees(tx, p))
             c(k) == Append(p, k)
             visit == [k \in DOMAIN CallsOf(tx, p) |-> VisitOf(enter, take, walk, CallsOf(tx, p)[k])]
             V == [k \in 1 .. n |-> ShownFrom(tx, enter, take, c(k))]
  <2>1. /\ n \in Nat /\ DOMAIN CallsOf(tx, p) = 1 .. n
        /\ \A k \in 1 .. n : CallsOf(tx, p)[k] = c(k) /\ c(k) \in DOMAIN tx /\ c(k) \in Path
    BY <1>4, TreeCalls
  <2>2. p \in Path /\ \A k \in 1 .. n : k \in Nat \ {0}
    BY <1>4, <2>1
  <2>3. \A k \in 1 .. n : c(k) \in Below(tx, p) /\ IsStrictPrefix(p, c(k))
    <3> TAKE k \in 1 .. n
    <3>1. IsStrictPrefix(p, c(k))
      BY <2>2, CallOf
    <3> QED BY <2>1, <3>1 DEF Below
  <2>4. visit = [k \in 1 .. n |-> VisitOf(enter, take, walk, c(k))]
    BY <2>1
  <2>5. Len(visit) = n /\ (n = 0 => visit = <<>>)
    <3>1. visit = [k \in 1 .. n |-> visit[k]]
      BY <2>4
    <3> HIDE DEF n, visit
    <3> QED BY <2>1, <3>1, FunIsSeq
  <2> HIDE DEF visit, n
  <2>6. ASSUME NEW k \in 1 .. n
        PROVE  Lists(visit[k], V[k], PathOrder)
    <3>1. visit[k] = VisitOf(enter, take, walk, c(k))
      BY <2>4
    <3>2. CASE c(k) \notin enter
      <4>1. visit[k] = <<>> /\ V[k] = {}
        BY <3>1, <3>2 DEF VisitOf, ShownFrom
      <4> QED BY <4>1, EmptyLists
    <3>3. CASE c(k) \in enter
      <4> DEFINE own == IF c(k) \in take THEN <<c(k)>> ELSE <<>>
                 rest == Shown(tx, enter, take, c(k))
      <4>1. visit[k] = own \o walk[c(k)] /\ V[k] = ({c(k)} \cap take) \cup rest
        BY <3>1, <3>3 DEF VisitOf, ShownFrom
      <4>2. Lists(own, {c(k)} \cap take, PathOrder)
        <5>1. CASE c(k) \in take
          <6>1. own = <<c(k)>> /\ {c(k)} \cap take = {c(k)}
            BY <5>1
          <6> QED BY <6>1, OneLists
        <5>2. CASE c(k) \notin take
          <6>1. own = <<>> /\ {c(k)} \cap take = {}
            BY <5>2
          <6> QED BY <6>1, EmptyLists
        <5> QED BY <5>1, <5>2
      <4>3. Lists(walk[c(k)], rest, PathOrder)
        BY <1>6, <2>3
      <4>4. \A x \in {c(k)} \cap take, y \in rest : <<x, y>> \in PathOrder
        BY <1>4, <2>1 DEF Shown, Below, PathOrder, Before
      <4> HIDE DEF own, rest
      <4> QED BY <4>1, <4>2, <4>3, <4>4, ConcatLists
    <3> QED BY <3>2, <3>3
  <2>7. ASSUME NEW k \in 1 .. n, NEW x \in V[k]
        PROVE  x \in Path /\ IsPrefix(c(k), x)
    <3>1. x = c(k) \/ x \in Shown(tx, enter, take, c(k))
      BY <2>7 DEF ShownFrom
    <3>2. IsPrefix(c(k), c(k))
      <4>1. Len(c(k)) <= Len(c(k)) /\ c(k) \in Path
        BY <2>1 DEF Path
      <4> HIDE DEF c
      <4> QED BY <4>1, PrefixIs
    <3> QED BY <1>4, <2>1, <3>1, <3>2 DEF Shown, Below, IsStrictPrefix
  <2>8. ASSUME NEW k \in 1 .. n, NEW l \in 1 .. n, k < l
        PROVE  \A x \in V[k], y \in V[l] : <<x, y>> \in PathOrder
    <3> TAKE x \in V[k], y \in V[l]
    <3> QED BY <2>2, <2>7, <2>8, CallsInOrder
  <2>9. Shown(tx, enter, take, p) = UNION {V[k] : k \in 1 .. n}
    <3>1. Shown(tx, enter, take, p) = UNION {ShownFrom(tx, enter, take, c(k)) : k \in 1 .. n}
      BY ShownOf DEF n
    <3>2. \A k \in 1 .. n : V[k] = ShownFrom(tx, enter, take, c(k))
      OBVIOUS
    <3> HIDE DEF V
    <3> QED BY <3>1, <3>2
  <2>10. walk[p] = FlattenSeq(visit)
    BY <1>3 DEF WalkOf, visit
  <2>11. Lists(FlattenSeq(visit), UNION {V[k] : k \in 1 .. n}, PathOrder)
    <3> HIDE DEF V, c
    <3> QED BY <2>1, <2>5, <2>6, <2>8, FlattenLists
  <2> QED BY <2>9, <2>10, <2>11
<1> HIDE DEF Listed
<1>7. 0 \in Good
  BY <1>5
<1>8. ASSUME NEW n \in Nat, n \in Good
      PROVE  n + 1 \in Good
  <2>1. ASSUME NEW p \in DOMAIN tx, Depth(tx, p) < n + 1
        PROVE  Listed(p)
    <3>1. ASSUME NEW c \in Below(tx, p)
          PROVE  Listed(c)
      <4>1. c \in DOMAIN tx /\ Depth(tx, c) \in Nat /\ Depth(tx, c) < Depth(tx, p)
        BY <1>5, DepthFalls DEF Below
      <4>2. Depth(tx, c) < n
        BY <1>5, <2>1, <4>1
      <4> QED BY <1>8, <4>1, <4>2
    <3> QED BY <1>6, <3>1
  <2> QED BY <2>1
<1>9. N \in Good
  <2> HIDE DEF Good, N
  <2> QED BY <1>5, <1>7, <1>8, NatSetInduction
<1> QED BY <1>1, <1>4, <1>5, <1>9 DEF Listed
-----------------------------------------------------------------------------
(***************************************************************************)
(* Transfers, and the order of the records of a block (InOrder).           *)
(***************************************************************************)
Records == [tx : Nat, path : Path]
After(t, u) ==
  IF t.path = Root THEN u.path = Root => t.tx < u.tx
  ELSE u.path # Root /\ (t.tx < u.tx \/ (t.tx = u.tx /\ Before(t.path, u.path)))
TransferOrder == {r \in Records \X Records : After(r[1], r[2])}

(* A sequence that lists a set in this order has each once, and is InOrder. *)
LEMMA ListsInOrder ==
  ASSUME NEW s, NEW S, S \subseteq Records, Lists(s, S, TransferOrder)
  PROVE  ToSet(s) = S /\ IsInjective(s) /\ InOrder(s)
<1>1. s \in Seq(S) /\ DOMAIN s = 1 .. Len(s) /\ Len(s) \in Nat
  BY DEF Lists
<1>2. ToSet(s) = S
  BY <1>1 DEF Lists, ToSet
<1>3. InOrder(s)
  <2>1. \A k, l \in DOMAIN s : k < l => After(s[k], s[l])
    BY <1>1 DEF Lists, TransferOrder
  <2> QED BY <2>1, Zenon DEF InOrder, After
<1>4. \A t \in Records : ~After(t, t)
  <2> SUFFICES ASSUME NEW t \in Records PROVE ~After(t, t)
    OBVIOUS
  <2>1. t.tx \in Nat /\ t.path \in Path
    BY DEF Records
  <2>2. ~Before(t.path, t.path)
    BY <2>1 DEF Before, IsStrictPrefix, Path
  <2> QED BY <2>1, <2>2 DEF After
<1>5. IsInjective(s)
  <2> SUFFICES ASSUME NEW a \in DOMAIN s, NEW b \in DOMAIN s, s[a] = s[b], a < b
               PROVE  FALSE
    BY <1>1 DEF IsInjective
  <2>1. s[a] \in Records /\ <<s[a], s[b]>> \in TransferOrder
    BY <1>1 DEF Lists
  <2> QED BY <1>4, <2>1 DEF TransferOrder
<1> QED BY <1>2, <1>3, <1>5

(* The calls of one transaction, as transfers.                             *)
LEMMA AsTransfersLists ==
  ASSUME NEW i \in Nat, NEW s, NEW S, S \subseteq Path, Root \notin S, Lists(s, S, PathOrder)
  PROVE  Lists(AsTransfers(i, s), {Transfer(i, p) : p \in S}, TransferOrder)
<1> DEFINE T == {Transfer(i, p) : p \in S}
           a == AsTransfers(i, s)
<1>1. s \in Seq(S) /\ DOMAIN s = 1 .. Len(s) /\ Len(s) \in Nat /\ \A k \in 1 .. Len(s) : s[k] \in S
  BY DEF Lists
<1>2. a = [k \in 1 .. Len(s) |-> Transfer(i, s[k])]
  BY <1>1 DEF AsTransfers
<1>3. \A k \in 1 .. Len(s) : a[k] = Transfer(i, s[k]) /\ a[k] \in T
  BY <1>1, <1>2
<1>4. a \in Seq(T) /\ Len(a) = Len(s)
  <2>1. a = [k \in 1 .. Len(s) |-> a[k]]
    BY <1>2
  <2> HIDE DEF a, T
  <2> QED BY <1>1, <1>3, <2>1
<1>5. \A x \in T : \E k \in 1 .. Len(s) : a[k] = x
  <2> SUFFICES ASSUME NEW p \in S
               PROVE  \E k \in 1 .. Len(s) : a[k] = Transfer(i, p)
    OBVIOUS
  <2>1. PICK k \in 1 .. Len(s) : s[k] = p
    BY DEF Lists
  <2>2. a[k] = Transfer(i, p)
    BY <1>3, <2>1
  <2> QED BY <2>2
<1>6. ASSUME NEW k \in 1 .. Len(s), NEW l \in 1 .. Len(s), k < l
      PROVE  <<a[k], a[l]>> \in TransferOrder
  <2>1. s[k] \in Path /\ s[l] \in Path /\ s[k] # Root /\ s[l] # Root /\ Before(s[k], s[l])
    BY <1>1, <1>6 DEF Lists, PathOrder
  <2>2. a[k] = [tx |-> i, path |-> s[k]] /\ a[l] = [tx |-> i, path |-> s[l]]
    BY <1>3 DEF Transfer
  <2> HIDE DEF a
  <2> QED BY <2>1, <2>2 DEF TransferOrder, Records, After
<1> HIDE DEF a, T
<1>7. Lists(a, T, TransferOrder)
  BY <1>4, <1>5, <1>6 DEF Lists
<1> QED BY <1>7 DEF a, T

-----------------------------------------------------------------------------
(* Each transaction of a block is a call tree.                             *)
WellFormed(b) == Len(b) \in Nat /\ DOMAIN b = 1 .. Len(b) /\ \A i \in DOMAIN b : IsCallTree(b[i])

(* What the execution of transaction i moved, what a method shows of it, and *)
(* of the block when the answer has no trace of some transactions.         *)
MovedIn(i) ==
  {Transfer(i, p) : p \in {q \in DOMAIN block[i] :
     /\ Happened(i, q) /\ Matches(filter, Frame(i, q))
     /\ Frame(i, q).type \notin Idle /\ Frame(i, q).value > 0}}
InnerOf(how, i) ==
  IF how \notin Methods THEN {}
  ELSE {t \in MovedIn(i) : t.path # Root /\ ~(how = "parity" /\ PrunedByAnother(t))}
Inner(how, gone) == UNION {InnerOf(how, i) : i \in DOMAIN block \ gone}

(* The transaction itself is above all its calls.                          *)
LEMMA RootIsPrefix ==
  ASSUME NEW p \in Path
  PROVE  /\ Root \in Path /\ IsPrefix(Root, p) /\ (IsStrictPrefix(Root, p) <=> p # Root)
         /\ (IsPrefix(p, Root) => p = Root) /\ IsPrefix(p, p)
<1>1. Root \in Path /\ Len(Root) = 0 /\ Len(p) \in Nat
  BY DEF Root, Path
<1>2. IsPrefix(Root, p) /\ IsPrefix(p, p)
  BY <1>1, PrefixIs
<1>3. Len(p) <= 0 => p = Root
  BY <1>1 DEF Root, Path
<1>4. IsPrefix(p, Root) => p = Root
  BY <1>1, <1>3, PrefixIs
<1> QED BY <1>1, <1>2, <1>4 DEF IsStrictPrefix

(***************************************************************************)
(* The nested frames show what a transaction moved inside: nothing of one  *)
(* that failed, nor below a call that did (walkCallFrames).                *)
(***************************************************************************)
LEMMA CallFramesLists ==
  ASSUME NEW i \in DOMAIN block, i \in Nat, IsCallTree(block[i]), NEW how, how \in {"block", "perTx"}
  PROVE  Lists(WalkCallFrames(i), InnerOf(how, i), TransferOrder)
<1> DEFINE tx     == block[i]
           alive  == {p \in DOMAIN tx : ~Frame(i, p).error}
           moving == {p \in alive : IsValueMovingCall(Frame(i, p).type) /\ Frame(i, p).value > 0}
           take   == Wanted(i, moving)
           shown  == Shown(tx, alive, take, Root)
<1>1. DOMAIN tx \subseteq Path /\ Root \in DOMAIN tx
      /\ \A p \in DOMAIN tx : Frame(i, p) = tx[p] /\ tx[p].type \in CallTypes
  BY DEF IsCallTree, Path, Frame
<1>2. shown \subseteq Path /\ Root \notin shown
  <2>1. ~IsStrictPrefix(Root, Root)
    BY DEF IsStrictPrefix
  <2> QED BY <1>1, <2>1 DEF Shown, Below
<1>3. CASE Frame(i, Root).error
  <2>1. InnerOf(how, i) = {}
    BY <1>1, <1>3, RootIsPrefix DEF InnerOf, MovedIn, Happened
  <2>2. WalkCallFrames(i) = <<>>
    BY <1>3 DEF WalkCallFrames
  <2> QED BY <2>1, <2>2, EmptyLists
<1>4. CASE ~Frame(i, Root).error
  <2>1. WalkCallFrames(i) = AsTransfers(i, DepthFirst(tx, alive, take))
    BY <1>4, Zenon DEF WalkCallFrames
  <2>2. Lists(DepthFirst(tx, alive, take), shown, PathOrder)
    <3> HIDE DEF alive, take
    <3> QED BY DepthFirstLists
  <2>3. Lists(WalkCallFrames(i), {Transfer(i, p) : p \in shown}, TransferOrder)
    <3> HIDE DEF shown, alive, take
    <3> QED BY <1>2, <2>1, <2>2, AsTransfersLists
  <2>4. ASSUME NEW q \in DOMAIN tx
        PROVE  q \in shown <=> /\ q # Root /\ Happened(i, q) /\ Matches(filter, Frame(i, q))
                               /\ Frame(i, q).type \notin Idle /\ Frame(i, q).value > 0
    <3>1. q \in take <=> /\ ~Frame(i, q).error /\ Matches(filter, Frame(i, q))
                         /\ Frame(i, q).type \notin Idle /\ Frame(i, q).value > 0
      BY <1>1 DEF Wanted, IsValueMovingCall, CallTypes, Idle
    <3>2. Happened(i, q) <=> \A r \in DOMAIN tx : IsStrictPrefix(Root, r) /\ IsPrefix(r, q) => r \in alive
      <4>1. \A r \in DOMAIN tx : IsStrictPrefix(Root, r) \/ r = Root
        BY <1>1, RootIsPrefix
      <4>2. ~IsStrictPrefix(Root, Root)
        BY DEF IsStrictPrefix
      <4> QED BY <1>4, <4>1, <4>2 DEF Happened
    <3>3. Happened(i, q) => ~Frame(i, q).error
      BY <1>1, RootIsPrefix DEF Happened
    <3>4. IsStrictPrefix(Root, q) <=> q # Root
      BY <1>1, RootIsPrefix
    <3>5. q \in shown <=> /\ IsStrictPrefix(Root, q) /\ q \in take
                          /\ \A r \in DOMAIN tx : IsStrictPrefix(Root, r) /\ IsPrefix(r, q) => r \in alive
      <4> HIDE DEF take, alive
      <4> QED BY DEF Shown, Below
    <3> HIDE DEF shown, alive, take
    <3> QED BY <3>1, <3>2, <3>3, <3>4, <3>5
  <2>5. shown \subseteq DOMAIN tx
    BY DEF Shown, Below
  <2>6. {Transfer(i, p) : p \in shown} = InnerOf(how, i)
    <3>1. \A p : Transfer(i, p).path = p
      BY DEF Transfer
    <3>2. how \in Methods /\ how # "parity"
      BY DEF Methods
    <3> HIDE DEF shown, alive, take
    <3> QED BY <2>4, <2>5, <3>1, <3>2 DEF InnerOf, MovedIn
  <2> QED BY <2>3, <2>6
<1> QED BY <1>3, <1>4

(***************************************************************************)
(* The flat list shows the same, except below a path at which a call of    *)
(* another transaction failed (hasErroredAncestor).                        *)
(***************************************************************************)
LEMMA ParityTracesLists ==
  ASSUME NEW i \in DOMAIN block, i \in Nat, IsCallTree(block[i])
  PROVE  Lists(ParseParityTraces(i), InnerOf("parity", i), TransferOrder)
<1> DEFINE tx    == block[i]
           kept  == {p \in DOMAIN tx : /\ p # Root /\ ~Frame(i, p).error
                                       /\ ~HasErroredAncestor(p) /\ ParityToInternal(Frame(i, p))}
           take  == Wanted(i, kept)
           shown == Shown(tx, DOMAIN tx, take, Root)
<1>1. DOMAIN tx \subseteq Path /\ Root \in DOMAIN tx
      /\ \A p \in DOMAIN tx : Frame(i, p) = tx[p] /\ tx[p].type \in CallTypes
  BY DEF IsCallTree, Path, Frame
<1>2. shown \subseteq Path /\ Root \notin shown /\ shown \subseteq DOMAIN tx
  <2>1. ~IsStrictPrefix(Root, Root)
    BY DEF IsStrictPrefix
  <2> QED BY <1>1, <2>1 DEF Shown, Below
<1>3. ParseParityTraces(i) = AsTransfers(i, DepthFirst(tx, DOMAIN tx, take))
  BY Zenon DEF ParseParityTraces
<1>4. Lists(ParseParityTraces(i), {Transfer(i, p) : p \in shown}, TransferOrder)
  <2>1. Lists(DepthFirst(tx, DOMAIN tx, take), shown, PathOrder)
    <3> HIDE DEF take
    <3> QED BY DepthFirstLists
  <2> HIDE DEF shown, take
  <2> QED BY <1>2, <1>3, <2>1, AsTransfersLists
<1>5. ASSUME NEW q \in DOMAIN tx
      PROVE  q \in shown <=> /\ q # Root /\ Happened(i, q) /\ Matches(filter, Frame(i, q))
                             /\ Frame(i, q).type \notin Idle /\ Frame(i, q).value > 0
                             /\ ~PrunedByAnother(Transfer(i, q))
  <2>1. ParityToInternal(Frame(i, q)) <=> Frame(i, q).type \notin Idle /\ Frame(i, q).value > 0
    BY <1>1 DEF ParityToInternal, ParityType, CallTypes, Idle
  <2>2. /\ ~Frame(i, q).error /\ ~HasErroredAncestor(q)
        <=> Happened(i, q) /\ ~PrunedByAnother(Transfer(i, q))
    <3>1. Transfer(i, q).tx = i /\ Transfer(i, q).path = q
      BY DEF Transfer
    <3>2. HasErroredAncestor(q) <=>
            \E j \in DOMAIN block : \E e \in DOMAIN block[j] : Frame(j, e).error /\ IsStrictPrefix(e, q)
      BY DEF HasErroredAncestor, Errored
    <3>3. PrunedByAnother(Transfer(i, q)) <=>
            \E j \in DOMAIN block \ {i} : \E e \in DOMAIN block[j] : Frame(j, e).error /\ IsStrictPrefix(e, q)
      BY <3>1 DEF PrunedByAnother
    <3>4. Happened(i, q) <=> ~Frame(i, q).error
                             /\ ~\E e \in DOMAIN block[i] : Frame(i, e).error /\ IsStrictPrefix(e, q)
      <4>1. IsPrefix(q, q)
        BY <1>1, RootIsPrefix
      <4> QED BY <4>1 DEF Happened, IsStrictPrefix
    <3> QED BY <3>2, <3>3, <3>4
  <2>3. q \in shown <=> IsStrictPrefix(Root, q) /\ q \in take
    <3> HIDE DEF take
    <3> QED BY DEF Shown, Below
  <2>4. IsStrictPrefix(Root, q) <=> q # Root
    BY <1>1, RootIsPrefix
  <2>5. q \in take <=> /\ q # Root /\ ~Frame(i, q).error /\ ~HasErroredAncestor(q)
                       /\ ParityToInternal(Frame(i, q)) /\ Matches(filter, Frame(i, q))
    BY DEF Wanted
  <2> HIDE DEF shown, take
  <2> QED BY <2>1, <2>2, <2>3, <2>4, <2>5
<1>6. {Transfer(i, p) : p \in shown} = InnerOf("parity", i)
  <2>1. \A p : Transfer(i, p).path = p
    BY DEF Transfer
  <2>2. "parity" \in Methods
    BY DEF Methods
  <2> HIDE DEF shown, take
  <2> QED BY <1>2, <1>5, <2>1, <2>2 DEF InnerOf, MovedIn
<1> QED BY <1>4, <1>6
-----------------------------------------------------------------------------
(* The internal transfers of a block, transaction by transaction.          *)
LEMMA InternalLists ==
  ASSUME WellFormed(block), NEW how \in Methods, NEW gone
  PROVE  Lists(InternalTransfers(how, gone), Inner(how, gone), TransferOrder)
<1> DEFINE n    == Len(block)
           S(i) == IF i \in gone THEN {} ELSE InnerOf(how, i)
           shown(i) == IF how = "parity" THEN ParseParityTraces(i) ELSE WalkCallFrames(i)
           of(i) == IF i \in gone THEN <<>> ELSE shown(i)
           ss   == [i \in DOMAIN block |-> of(i)]
           SS   == [i \in 1 .. n |-> S(i)]
<1>1. n \in Nat /\ DOMAIN block = 1 .. n /\ \A i \in 1 .. n : IsCallTree(block[i]) /\ i \in Nat
  BY DEF WellFormed
<1>2. InternalTransfers(how, gone) = FlattenSeq(ss)
  <2>1. CASE how = "parity"
    BY <2>1, Zenon DEF InternalTransfers, ParityTransfers
  <2>2. CASE how # "parity"
    BY <2>2, Zenon DEF InternalTransfers, FrameTransfers
  <2> QED BY <2>1, <2>2
<1>3. \A i \in 1 .. n : Lists(ss[i], SS[i], TransferOrder)
  <2> TAKE i \in 1 .. n
  <2>1. i \in DOMAIN block /\ i \in Nat /\ IsCallTree(block[i])
    BY <1>1
  <2>2. CASE i \in gone
    <3>1. ss[i] = <<>> /\ SS[i] = {}
      BY <2>1, <2>2
    <3> QED BY <3>1, EmptyLists
  <2>3. CASE i \notin gone /\ how = "parity"
    <3>1. ss[i] = ParseParityTraces(i) /\ SS[i] = InnerOf("parity", i)
      BY <2>1, <2>3
    <3> QED BY <2>1, <3>1, ParityTracesLists
  <2>4. CASE i \notin gone /\ how # "parity"
    <3>1. how \in {"block", "perTx"}
      BY <2>4 DEF Methods
    <3>2. ss[i] = WalkCallFrames(i) /\ SS[i] = InnerOf(how, i)
      BY <2>1, <2>4
    <3> QED BY <2>1, <3>1, <3>2, CallFramesLists
  <2> QED BY <2>2, <2>3, <2>4
<1>4. ASSUME NEW k \in 1 .. n, NEW l \in 1 .. n, k < l
      PROVE  \A x \in SS[k], y \in SS[l] : <<x, y>> \in TransferOrder
  <2> TAKE x \in SS[k], y \in SS[l]
  <2>1. \A i \in 1 .. n : \A t \in S(i) : t \in Records /\ t.tx = i /\ t.path # Root
    BY <1>1 DEF InnerOf, MovedIn, Transfer, Records, IsCallTree, Path
  <2>2. x \in Records /\ x.tx = k /\ x.path # Root /\ y \in Records /\ y.tx = l /\ y.path # Root
    <3> HIDE DEF S
    <3> QED BY <2>1
  <2> HIDE DEF SS
  <2> QED BY <1>4, <2>2 DEF TransferOrder, After
<1>5. Len(ss) = n /\ (n = 0 => ss = <<>>)
  <2>1. ss = [i \in 1 .. n |-> ss[i]]
    <3> HIDE DEF n, of
    <3> QED BY <1>1
  <2> HIDE DEF ss, n
  <2> QED BY <1>1, <2>1, FunIsSeq
<1>6. Lists(FlattenSeq(ss), UNION {SS[i] : i \in 1 .. n}, TransferOrder)
  <2> HIDE DEF ss, SS, n
  <2> QED BY <1>1, <1>3, <1>4, <1>5, FlattenLists
<1>7. UNION {SS[i] : i \in 1 .. n} = Inner(how, gone)
  <2>1. \A i \in 1 .. n : SS[i] = IF i \in gone THEN {} ELSE InnerOf(how, i)
    OBVIOUS
  <2> HIDE DEF SS, n
  <2> QED BY <1>1, <2>1 DEF Inner
<1> QED BY <1>2, <1>6, <1>7

(* The top-level transfers of the transactions S.                          *)
TopOf(S) == {Transfer(i, Root) : i \in S}

(* The top-level transfers are those with a receipt that says success.     *)
LEMMA NativeLists ==
  ASSUME WellFormed(block)
  PROVE  Lists(NativeTransfers, TopOf({i \in DOMAIN block : i \in DOMAIN receipts /\ receipts[i] = "yes"}),
               TransferOrder)
<1> DEFINE n     == Len(block)
           ok(i) == i \in DOMAIN receipts /\ receipts[i] = "yes"
           of(i) == IF ok(i) THEN <<Transfer(i, Root)>> ELSE <<>>
           ss    == [i \in DOMAIN block |-> of(i)]
           SS    == [i \in 1 .. n |-> IF ok(i) THEN {Transfer(i, Root)} ELSE {}]
<1>1. n \in Nat /\ DOMAIN block = 1 .. n /\ \A i \in 1 .. n : i \in Nat
  BY DEF WellFormed
<1>2. NativeTransfers = FlattenSeq(ss)
  BY Zenon DEF NativeTransfers
<1>3. \A i \in 1 .. n : Lists(ss[i], SS[i], TransferOrder)
  <2> TAKE i \in 1 .. n
  <2>1. CASE ok(i)
    <3>1. ss[i] = <<Transfer(i, Root)>> /\ SS[i] = {Transfer(i, Root)}
      BY <1>1, <2>1
    <3> QED BY <3>1, OneLists
  <2>2. CASE ~ok(i)
    <3>1. ss[i] = <<>> /\ SS[i] = {}
      BY <1>1, <2>2
    <3> QED BY <3>1, EmptyLists
  <2> QED BY <2>1, <2>2
<1>4. ASSUME NEW k \in 1 .. n, NEW l \in 1 .. n, k < l
      PROVE  \A x \in SS[k], y \in SS[l] : <<x, y>> \in TransferOrder
  <2> TAKE x \in SS[k], y \in SS[l]
  <2>1. x = Transfer(k, Root) /\ y = Transfer(l, Root)
    OBVIOUS
  <2>2. k \in Nat /\ l \in Nat /\ Root \in Path
    BY <1>1 DEF Root, Path
  <2> HIDE DEF SS
  <2> QED BY <1>4, <2>1, <2>2 DEF TransferOrder, After, Transfer, Records
<1>5. Len(ss) = n /\ (n = 0 => ss = <<>>)
  <2>1. ss = [i \in 1 .. n |-> ss[i]]
    <3> HIDE DEF n, of
    <3> QED BY <1>1
  <2> HIDE DEF ss, n
  <2> QED BY <1>1, <2>1, FunIsSeq
<1>6. Lists(FlattenSeq(ss), UNION {SS[i] : i \in 1 .. n}, TransferOrder)
  <2> HIDE DEF ss, SS, n
  <2> QED BY <1>1, <1>3, <1>4, <1>5, FlattenLists
<1>7. UNION {SS[i] : i \in 1 .. n} = TopOf({i \in DOMAIN block : ok(i)})
  <2>1. \A i \in 1 .. n : SS[i] = IF ok(i) THEN {Transfer(i, Root)} ELSE {}
    OBVIOUS
  <2> HIDE DEF SS, n, ok
  <2> QED BY <1>1, <2>1 DEF TopOf
<1> QED BY <1>2, <1>6, <1>7

-----------------------------------------------------------------------------
(***************************************************************************)
(* The records written so far: before the receipts are in, none; then the  *)
(* top-level transfers that are due; with the block over, the internal     *)
(* ones that its method shows as well.                                     *)
(***************************************************************************)
Top == TopOf({i \in Candidates : ~Reverted(i) /\ i \notin nulls})

EmittedInv ==
  /\ TracedInv /\ ReceiptsInv
  /\ blocks \in Nat /\ WellFormed(block)
  /\ pc = "receipts" => emitted = <<>>
  /\ pc = "trace" => Lists(emitted, Top, TransferOrder)
  /\ pc = "done" => /\ via \in Methods \cup {"none", "skipped"}
                    /\ Lists(emitted, Top \cup Inner(via, untraced), TransferOrder)

(* The top-level transfers come first.                                     *)
LEMMA TopFirst ==
  ASSUME WellFormed(block), NEW how, NEW gone
  PROVE  /\ Top \subseteq Records /\ Inner(how, gone) \subseteq Records
         /\ \A x \in Top, y \in Inner(how, gone) : <<x, y>> \in TransferOrder
<1>1. DOMAIN block \subseteq Nat /\ \A i \in DOMAIN block : DOMAIN block[i] \subseteq Path
  BY DEF WellFormed, IsCallTree, Path
<1>2. Root \in Path /\ \A i, p : Transfer(i, p).tx = i /\ Transfer(i, p).path = p
                       /\ (i \in Nat /\ p \in Path => Transfer(i, p) \in Records)
  BY DEF Transfer, Root, Path, Records
<1>3. \A t \in Top : t \in Records /\ t.path = Root
  BY <1>1, <1>2 DEF Top, TopOf, Candidates, CandidatesOf
<1>4. \A t \in Inner(how, gone) : t \in Records /\ t.path # Root
  BY <1>1, <1>2 DEF Inner, InnerOf, MovedIn
<1>5. \A x \in Top, y \in Inner(how, gone) : <<x, y>> \in TransferOrder
  BY <1>3, <1>4 DEF TransferOrder, After
<1> QED BY <1>3, <1>4, <1>5

(* What is written is what moved, except for what may be missing.          *)
LEMMA DueTransfers ==
  ASSUME WellFormed(block), via \in Methods \cup {"none", "skipped"}
  PROVE  Top \cup Inner(via, untraced) = {t \in Moved : ~MayMiss(t)}
<1>1. /\ Len(block) \in Nat /\ DOMAIN block = 1 .. Len(block) /\ DOMAIN block \subseteq Nat
      /\ \A i \in DOMAIN block :
           /\ DOMAIN block[i] \subseteq Path /\ Root \in DOMAIN block[i]
           /\ Frame(i, Root).type \notin Idle
  BY DEF WellFormed, IsCallTree, Path, Frame
<1>2. Moved = UNION {MovedIn(i) : i \in DOMAIN block}
  BY Zenon DEF Moved, MovedIn
<1>3. Root \in Path /\ \A i, p : Transfer(i, p).tx = i /\ Transfer(i, p).path = p
                       /\ (i \in Nat /\ p \in Path => Transfer(i, p) \in Records)
  BY DEF Transfer, Root, Path, Records
<1>4. \A i \in DOMAIN block : Happened(i, Root) <=> ~Reverted(i)
  BY <1>1, RootIsPrefix DEF Happened, Reverted
<1>5. \A i : Transfer(i, Root) \in Moved <=> i \in Candidates /\ ~Reverted(i)
  <2> TAKE i
  <2>1. Transfer(i, Root) \in Moved <=> i \in DOMAIN block /\ Transfer(i, Root) \in MovedIn(i)
    BY <1>2, <1>3 DEF MovedIn
  <2>2. i \in Candidates <=> /\ i \in DOMAIN block /\ Frame(i, Root).value > 0
                             /\ Matches(filter, Frame(i, Root))
    BY DEF Candidates, CandidatesOf, Frame
  <2>3. i \in DOMAIN block =>
          (Transfer(i, Root) \in MovedIn(i) <=>
             Happened(i, Root) /\ Matches(filter, Frame(i, Root)) /\ Frame(i, Root).value > 0)
    BY <1>1, <1>3 DEF MovedIn
  <2> QED BY <1>4, <2>1, <2>2, <2>3
<1>6. \A t \in Moved : \E i \in DOMAIN block : \E p \in DOMAIN block[i] : t = Transfer(i, p)
  BY <1>2 DEF MovedIn
<1>7. \A t : t \in Top <=> t \in Moved /\ t.path = Root /\ t.tx \notin nulls
  BY <1>3, <1>5, <1>6 DEF Top, TopOf
<1>8. \A t : t \in Inner(via, untraced) <=> /\ t \in Moved /\ t.path # Root /\ via \notin {"skipped", "none"}
                                  /\ t.tx \notin untraced /\ ~(via = "parity" /\ PrunedByAnother(t))
  <2>1. via \in Methods <=> via \notin {"skipped", "none"}
    BY DEF Methods
  <2>2. \A i \in DOMAIN block : \A t \in MovedIn(i) : t.tx = i
    BY <1>3 DEF MovedIn
  <2> QED BY <1>2, <2>1, <2>2 DEF Inner, InnerOf
<1>9. \A t : t \in Top \cup Inner(via, untraced) <=> t \in Moved /\ ~MayMiss(t)
  BY <1>7, <1>8 DEF MayMiss
<1> QED BY <1>9
-----------------------------------------------------------------------------
(* While the block is the same so is what is due.                          *)
LEMMA SameBlock ==
  ASSUME UNCHANGED <<filter, block>>, NEW how, via' = how, NEW gone, untraced' = gone
  PROVE  /\ WellFormed(block) => WellFormed(block)'
         /\ (nulls' = nulls => Top' = Top) /\ Inner(via, untraced)' = Inner(how, gone)
<1>1. \A i, p : Frame(i, p)' = Frame(i, p)
  BY DEF Frame
<1>2. \A i, p : Happened(i, p)' <=> Happened(i, p)
  BY DEF Happened, Frame
<1>3. \A t : PrunedByAnother(t)' <=> PrunedByAnother(t)
  BY DEF PrunedByAnother, Frame
<1>4. \A i \in DOMAIN block : MovedIn(i)' = MovedIn(i)
  BY DEF MovedIn, Frame, Happened
<1>6. Inner(via, untraced)' = Inner(how, gone)
  BY <1>3, <1>4 DEF Inner, InnerOf
<1>5. nulls' = nulls => Top' = Top
  BY DEF Top, TopOf, Candidates, CandidatesOf, Reverted, Frame
<1> QED BY <1>6, <1>5 DEF WellFormed

(* The internal transfers follow, and the block is over.                   *)
LEMMA EndKeeps ==
  ASSUME EmittedInv, pc = "trace", UNCHANGED <<filter, block, nulls>>,
         NEW how \in Methods \cup {"none", "skipped"}, NEW gone, untraced' = gone,
         NEW records, EndTrace(how, records), Lists(records, Inner(how, gone), TransferOrder)
  PROVE  /\ pc' = "done" /\ via' \in Methods \cup {"none", "skipped"}
         /\ Lists(emitted, Top \cup Inner(via, untraced), TransferOrder)'
<1>1. pc' = "done" /\ via' = how /\ emitted' = emitted \o records
  BY DEF EndTrace
<1>2. Lists(emitted, Top, TransferOrder) /\ WellFormed(block)
  BY DEF EmittedInv
<1>3. WellFormed(block)' /\ Top' = Top /\ Inner(via, untraced)' = Inner(how, gone)
  BY <1>1, <1>2, SameBlock
<1>4. \A x \in Top, y \in Inner(how, gone) : <<x, y>> \in TransferOrder
  BY <1>2, TopFirst
<1>5. Lists(emitted \o records, Top \cup Inner(how, gone), TransferOrder)
  BY <1>2, <1>4, ConcatLists
<1>6. TransferOrder' = TransferOrder
  BY DEF TransferOrder, Records, After, Path
<1> QED BY <1>1, <1>3, <1>5, <1>6 DEF Lists

(* Every step keeps the records written so far what they should be.        *)
LEMMA EmittedStep == EmittedInv /\ [Next]_vars => EmittedInv'
<1> SUFFICES ASSUME EmittedInv, [Next]_vars
             PROVE  EmittedInv'
  OBVIOUS
<1>0. TracedInv' /\ ReceiptsInv'
  BY TracedStep, ReceiptsStep DEF EmittedInv
<1>1. UNCHANGED <<filter, block>> => WellFormed(block)'
  BY DEF EmittedInv, WellFormed
<1>2. ASSUME UNCHANGED <<filter, block, blocks, pc, emitted, via, untraced>>, nulls' = nulls \/ pc = "receipts"
      PROVE  EmittedInv'
  <2>1. Inner(via, untraced)' = Inner(via, untraced) /\ (nulls' = nulls => Top' = Top)
    BY <1>2, SameBlock
  <2>2. TransferOrder' = TransferOrder
    BY DEF TransferOrder, Records, After, Path
  <2> QED BY <1>0, <1>1, <1>2, <2>1, <2>2 DEF EmittedInv, Lists
<1>3. ASSUME UNCHANGED <<filter, block, blocks, nulls>>, pc = "trace",
             NEW how \in Methods \cup {"none", "skipped"}, NEW gone, untraced' = gone,
             NEW records, EndTrace(how, records), Lists(records, Inner(how, gone), TransferOrder)
      PROVE  EmittedInv'
  <2>1. blocks' \in Nat /\ WellFormed(block)'
    BY <1>1, <1>3 DEF EmittedInv
  <2> QED BY <1>0, <1>3, <2>1, EndKeeps DEF EmittedInv
<1>4. ASSUME UNCHANGED <<filter, block, blocks, nulls, untraced>>, pc = "trace",
             NEW how \in {"none", "skipped"}, EndTrace(how, <<>>)
      PROVE  EmittedInv'
  <2>1. Inner(how, untraced) = {}
    BY <1>4 DEF Inner, InnerOf, Methods
  <2>2. Lists(<<>>, Inner(how, untraced), TransferOrder)
    BY <2>1, EmptyLists
  <2> QED BY <1>3, <1>4, <2>2
<1>5. CASE UNCHANGED vars
  BY <1>2, <1>5 DEF vars
<1>6. CASE NextBlock
  <2>1. /\ blocks' = blocks + 1 /\ block' \in Blocks[blocks'] /\ blocks < Len(Blocks)
        /\ pc' = "receipts" /\ emitted' = <<>>
    BY <1>6 DEF NextBlock
  <2>2. blocks' \in 1 .. Len(Blocks) /\ blocks' \in Nat
    BY <2>1, TransfersAssumption DEF EmittedInv
  <2>3. WellFormed(block)'
    BY <2>1, <2>2, TransfersAssumption DEF WellFormed
  <2> QED BY <1>0, <2>1, <2>2, <2>3 DEF EmittedInv
<1>7. ASSUME NEW i \in DOMAIN receipts, AskReceipt(i) \/ Receipt(i) \/ ReceiptFails(i)
      PROVE  EmittedInv'
  BY <1>2, <1>7 DEF AskReceipt, Receipt, ReceiptFails
<1>8. CASE DetectFails
  BY <1>2, <1>8 DEF DetectFails, Detected
<1>9. CASE EmitNative
  <2>1. /\ pc = "receipts" /\ ~SomeFailed /\ pc' \in {"trace", "done"} /\ emitted' = emitted \o NativeTransfers
        /\ UNCHANGED <<filter, blocks, block, nulls, via, untraced>>
        /\ \A i \in DOMAIN receipts : receipts[i] \notin {"todo", "asked"}
    BY <1>9 DEF EmitNative, Detected
  <2>2. emitted = <<>> /\ via = "none" /\ WellFormed(block)
    BY <2>1 DEF EmittedInv, TracedInv
  <2>3. {i \in DOMAIN block : i \in DOMAIN receipts /\ receipts[i] = "yes"}
          = {i \in Candidates : ~Reverted(i) /\ i \notin nulls}
    <3>1. DOMAIN receipts = Candidates /\ Candidates \subseteq DOMAIN block
      BY <2>1 DEF EmittedInv, ReceiptsInv, Candidates, CandidatesOf
    <3>2. \A i \in Candidates : receipts[i] \in {"yes", "no"}
      BY <2>1, <3>1 DEF EmittedInv, ReceiptsInv, SomeFailed
    <3>3. \A i \in Candidates : receipts[i] = "yes" <=> ~Reverted(i) /\ i \notin nulls
      BY <2>1, <3>2 DEF EmittedInv, ReceiptsInv
    <3> QED BY <3>1, <3>3
  <2>4. Lists(NativeTransfers, Top, TransferOrder)
    BY <2>2, <2>3, NativeLists DEF Top
  <2>5. emitted' = NativeTransfers
    <3>1. NativeTransfers \in Seq(Top)
      BY <2>4 DEF Lists
    <3> QED BY <2>1, <2>2, <3>1
  <2>6. Inner(via, untraced)' = {} /\ Top' = Top
    <3>1. Inner(via, untraced)' = Inner(via, untraced) /\ Top' = Top
      BY <2>1, SameBlock
    <3>2. Inner(via, untraced) = {}
      BY <2>2 DEF Inner, InnerOf, Methods
    <3> QED BY <3>1, <3>2
  <2>7. TransferOrder' = TransferOrder
    BY DEF TransferOrder, Records, After, Path
  <2>8. Lists(emitted, Top, TransferOrder)' /\ (Top \cup Inner(via, untraced))' = Top'
    BY <2>4, <2>5, <2>6, <2>7 DEF Lists
  <2> QED BY <1>0, <1>1, <2>1, <2>2, <2>8 DEF EmittedInv
<1>10. CASE TraceAnswered
  <2>1. Method \in Methods /\ pc = "trace" /\ WellFormed(block)
    BY <1>10, MethodIsOne DEF TraceAnswered, Tracing, EmittedInv, TracedInv
  <2>2. PICK gone : untraced' = gone
    OBVIOUS
  <2>3. EndTrace(Method, InternalTransfers(Method, gone)) /\ UNCHANGED <<filter, block, blocks, nulls>>
    BY <1>10, <2>2 DEF TraceAnswered, Unchanged
  <2>4. Lists(InternalTransfers(Method, gone), Inner(Method, gone), TransferOrder)
    BY <2>1, InternalLists
  <2> QED BY <1>3, <2>1, <2>2, <2>3, <2>4
<1>11. ASSUME NEW b, TryAgain(b), pc = "trace", Unchanged, UNCHANGED untraced
       PROVE  EmittedInv'
  BY <1>2, <1>11 DEF TryAgain, Unchanged
<1>12. ASSUME NEW e \in TraceErrors, TraceRefused(e)
       PROVE  EmittedInv'
  <2>1. pc = "trace" /\ Unchanged /\ UNCHANGED untraced
    BY <1>12 DEF TraceRefused, Calling, Tracing
  <2>2. CASE TryAgain("unknown")
    BY <1>11, <2>1, <2>2
  <2>3. CASE UNCHANGED <<pc, via, emitted, backend, attempt>>
    BY <1>2, <2>1, <2>3 DEF Unchanged
  <2>4. CASE NoneLeft
    BY <1>4, <2>1, <2>4 DEF NoneLeft, Unchanged
  <2> QED BY <1>12, <2>2, <2>3, <2>4 DEF TraceRefused
<1>13. ASSUME NEW e \in TraceErrors, TraceFails(e)
       PROVE  EmittedInv'
  <2>1. pc = "trace" /\ Unchanged /\ UNCHANGED untraced
    BY <1>13 DEF TraceFails, Calling, Tracing
  <2>2. CASE TryAgain(backend)
    BY <1>11, <2>1, <2>2
  <2>3. CASE EndTrace("skipped", <<>>)
    BY <1>4, <2>1, <2>3 DEF Unchanged
  <2> QED BY <1>13, <2>2, <2>3 DEF TraceFails
<1>14. CASE Stop
  BY <1>0, <1>1, <1>14 DEF Stop, EmittedInv
<1> QED BY <1>5, <1>6, <1>7, <1>8, <1>9, <1>10, <1>12, <1>13, <1>14 DEF Next, Trace

(***************************************************************************)
(* When the scan of a block ends its records are exactly the values its    *)
(* execution moved, each once and in order, whichever trace method showed  *)
(* them and in whichever order its receipts came, except for what MayMiss  *)
(* names (processNative, detectNativeTransfers, walkCallFrames,            *)
(* parseParityTraces): for blocks of any size and calls of any depth.      *)
(***************************************************************************)
THEOREM BlocksAccountedFor == Spec => []BlockAccountedFor
<1>1. Init => EmittedInv
  <2> SUFFICES ASSUME Init PROVE EmittedInv
    OBVIOUS
  <2>1. block = <<>> /\ blocks = 0 /\ pc = "done" /\ via = "none" /\ emitted = <<>>
    BY DEF Init
  <2>2. TracedInv /\ ReceiptsInv
    BY DEF Init, TracedInv, TracedOrOff, BackendInv, Methods, HasTxs, ReceiptsInv
  <2>3. WellFormed(block)
    BY <2>1 DEF WellFormed
  <2>4. Top = {} /\ Inner(via, untraced) = {}
    BY <2>1 DEF Top, TopOf, Candidates, CandidatesOf, Inner
  <2> QED BY <2>1, <2>2, <2>3, <2>4, EmptyLists DEF EmittedInv
<1>2. EmittedInv => BlockAccountedFor
  <2> SUFFICES ASSUME EmittedInv, pc = "done"
               PROVE  /\ ToSet(emitted) = {t \in Moved : ~MayMiss(t)}
                      /\ IsInjective(emitted) /\ InOrder(emitted)
                      /\ via = "none" /\ filter.includeInternal /\ HasTxs => backend = "disabled"
    BY DEF BlockAccountedFor
  <2>1. Lists(emitted, Top \cup Inner(via, untraced), TransferOrder) /\ Top \cup Inner(via, untraced) \subseteq Records
    BY TopFirst DEF EmittedInv
  <2>2. Top \cup Inner(via, untraced) = {t \in Moved : ~MayMiss(t)}
    BY DueTransfers DEF EmittedInv
  <2>3. ToSet(emitted) = Top \cup Inner(via, untraced) /\ IsInjective(emitted) /\ InOrder(emitted)
    BY <2>1, ListsInOrder
  <2> QED BY <2>2, <2>3 DEF EmittedInv, TracedInv, TracedOrOff
<1> QED BY <1>1, <1>2, EmittedStep, PTL DEF Spec
=============================================================================
