-------------------------------- MODULE Sink --------------------------------
(***************************************************************************)
(* The delivery loop of the sinks (kafkasink, webhooksink, awssink,        *)
(* redissink, pgsink, stdoutsink), the reader that feeds it from a         *)
(* goroutine of its own (record.Reader), the dead-letter file, the         *)
(* readiness probe, and the destination.  A step is one select, one call   *)
(* or one answer, so a signal, a crash, an outage or the answer of an      *)
(* earlier attempt may come between any two.                               *)
(*                                                                         *)
(* Abstractions.  A line of the input is Poison (does not parse), Odd (no  *)
(* topic for Kafka, filtered by the webhook sink, too large for AWS), or   *)
(* an ordinary record, for which its dedup key stands.  The loops differ   *)
(* in what they do before the first attempt and in what the destination    *)
(* does with a repeated key; the rest is shared.                           *)
(***************************************************************************)
EXTENDS Integers, Sequences, FiniteSets

CONSTANTS
  Keys, Poison, Odd,
  Setups,       \* the sinks considered, each with an input: a sequence of lines
  MaxStops,     \* bound: restarts of the process
  MaxOutages,   \* bound: outages of the destination
  MaxGhosts     \* bound: unanswered attempts that take effect all the same

SinkNames == {"kafka", "webhook", "aws", "redis", "postgres", "stdout"}

\* dedup: how long the destination remembers a key.
Config == [sink : SinkNames, dedup : {"none", "window", "forever"},
           quarantine : BOOLEAN, probe : BOOLEAN, closes : BOOLEAN]

ASSUME SinkAssumption ==
  /\ Setups \subseteq [config : Config, input : Seq(Keys \cup {Poison, Odd})]
  /\ Poison \notin Keys /\ Odd \notin Keys /\ Poison # Odd
  /\ MaxStops \in Nat /\ MaxOutages \in Nat /\ MaxGhosts \in Nat

NoLine == 0
EOF    == -1     \* the result of a read at the end of the input
Failed == -2     \* the result of a read that failed

VARIABLES
  config, input,
  \* the reader's goroutine
  reading,    \* "idle", "asked" or "ended"
  head,       \* lines scanned
  result,     \* its buffered answer
  \* the loop
  pc, hand, retried, cancelled, outcome,
  \* readiness
  reachable, blocked, probe,
  \* the destination
  up, store, markers,
  late,       \* lines of attempts still on their way
  \* history
  start,      \* the first line this process may read
  fate,       \* what this process did with a line
  stops, outages, ghosts

reader      == <<reading, head, result>>
loop        == <<pc, hand, retried, cancelled, outcome>>
health      == <<reachable, blocked, probe>>
destination == <<up, store, markers, late>>
bounds      == <<stops, outages, ghosts>>
vars == <<config, input, reader, loop, health, destination, start, fate, bounds>>

Positions == UNION {DOMAIN s.input : s \in Setups}

Lines == DOMAIN input

Running == pc \notin {"stopping", "closed", "down"}

Init ==
  /\ \E s \in Setups : config = s.config /\ input = s.input
  /\ reading = "idle" /\ head = 0 /\ result = NoLine
  /\ pc = "top" /\ hand = NoLine /\ retried = FALSE /\ cancelled = FALSE
  /\ outcome = "none"
  /\ reachable = TRUE /\ blocked = FALSE /\ probe = "none"
  /\ up = TRUE /\ store = <<>> /\ markers = {} /\ late = {}
  /\ start = 1 /\ fate = [i \in Lines |-> "open"]
  /\ stops = 0 /\ outages = 0 /\ ghosts = 0
-----------------------------------------------------------------------------
(* The destination. *)

\* Mutated form of Land: the key of a stored record is not remembered.
Land_Forgets(i) ==
  LET known == config.dedup # "none" /\ input[i] \in markers IN
  /\ store' = IF known THEN store ELSE Append(store, i)
  /\ UNCHANGED markers

\* What it does with a record: a remembered key is not stored again.
Land(i) ==
  LET known == config.dedup # "none" /\ input[i] \in markers IN
  /\ store'   = IF known THEN store ELSE Append(store, i)
  /\ markers' = IF config.dedup = "none" THEN markers ELSE markers \cup {input[i]}

\* An attempt without an answer was lost, took effect, or will later.
Unanswered(i) ==
  \/ UNCHANGED <<store, markers, late, ghosts>>
  \/ /\ ghosts < MaxGhosts /\ ghosts' = ghosts + 1
     /\ \/ Land(i) /\ UNCHANGED late
        \/ late' = late \cup {i} /\ UNCHANGED <<store, markers>>

LateArrives(i) ==
  /\ i \in late /\ late' = late \ {i}
  /\ Land(i)
  /\ UNCHANGED <<config, input, reader, loop, health, up, start, fate, bounds>>

Expire(k) ==
  /\ config.dedup = "window" /\ k \in markers
  /\ markers' = markers \ {k}
  /\ UNCHANGED <<config, input, reader, loop, health, up, store, late, start, fate,
                 bounds>>

Outage ==
  /\ up /\ outages < MaxOutages
  /\ up' = FALSE /\ outages' = outages + 1
  /\ UNCHANGED <<config, input, reader, loop, health, store, markers, late, start,
                 fate, stops, ghosts>>

Recover ==
  /\ ~up /\ up' = TRUE
  /\ UNCHANGED <<config, input, reader, loop, health, store, markers, late, start,
                 fate, bounds>>
-----------------------------------------------------------------------------
(* The reader's goroutine serves one request at a time: Next, which hands  *)
(* poison lines to the dead-letter file and goes on.                       *)

Settle(i, how) == fate' = [fate EXCEPT ![i] = how]

\* A write to the dead-letter file succeeds only while the file is open.
Quarantine(i) ==
  /\ config.quarantine /\ pc # "closed"
  /\ Settle(i, "quarantined")

\* Mutated form of Next: the line is skipped whatever the file answers.
Scan_Unchecked ==
  /\ pc # "down" /\ reading = "asked"
  /\ \/ /\ head < Len(input)
        /\ head' = head + 1
        /\ \/ /\ input[head + 1] # Poison
              /\ result' = head + 1 /\ reading' = "idle" /\ UNCHANGED fate
           \/ /\ input[head + 1] = Poison
              /\ Quarantine(head + 1) \/ UNCHANGED fate
              /\ UNCHANGED <<reading, result>>
     \/ /\ head = Len(input) /\ config.closes
        /\ result' = EOF /\ reading' = "ended" /\ UNCHANGED <<head, fate>>
  /\ UNCHANGED <<config, input, loop, health, destination, start, bounds>>

Scan ==
  /\ pc # "down" /\ reading = "asked"
  /\ \/ /\ head < Len(input)
        /\ head' = head + 1
        /\ \/ /\ input[head + 1] # Poison
              /\ result' = head + 1 /\ reading' = "idle" /\ UNCHANGED fate
           \/ /\ input[head + 1] = Poison
              /\ Quarantine(head + 1) /\ UNCHANGED <<reading, result>>
           \/ /\ input[head + 1] = Poison
              /\ result' = Failed /\ reading' = "ended" /\ UNCHANGED fate
     \/ /\ head = Len(input) /\ config.closes
        /\ result' = EOF /\ reading' = "ended" /\ UNCHANGED <<head, fate>>
  /\ UNCHANGED <<config, input, loop, health, destination, start, bounds>>

\* The input cannot be read, or a line is longer than the scanner's limit.
ScanFails ==
  /\ pc # "down" /\ reading = "asked"
  /\ result' = Failed /\ reading' = "ended"
  /\ UNCHANGED <<config, input, head, loop, health, destination, start, fate, bounds>>
-----------------------------------------------------------------------------
(* The loop. *)

\* Run returns; the probe is cancelled and joined.
Return(how) ==
  /\ pc' = "stopping" /\ outcome' = how /\ hand' = NoLine /\ retried' = FALSE
  /\ probe' = "none"
  /\ UNCHANGED cancelled

Goto(label) == pc' = label /\ UNCHANGED <<cancelled, outcome, probe>>

\* The head of the loop, and the first select of NextCtx.
Ask ==
  /\ pc = "top"
  /\ \/ cancelled /\ Return("clean") /\ UNCHANGED reading
     \/ /\ ~cancelled /\ reading = "idle"
        /\ reading' = "asked" /\ Goto("wait") /\ UNCHANGED <<hand, retried>>
  /\ UNCHANGED <<config, input, head, result, reachable, blocked, destination, start,
                 fate, bounds>>

\* Mutated form of Take: a signal does not end the wait for a line.
Take_Deaf ==
  /\ pc = "wait"
  /\ \/ /\ result > NoLine
        /\ hand' = result /\ result' = NoLine /\ Goto("record") /\ UNCHANGED retried
     \/ result = EOF /\ result' = NoLine /\ Return("eof")
     \/ /\ result = Failed /\ result' = NoLine
        /\ Return(IF cancelled THEN "clean" ELSE "failed")
  /\ UNCHANGED <<config, input, reading, head, reachable, blocked, destination, start,
                 fate, bounds>>

\* The second select: the answer, or the signal, which abandons the read.
Take ==
  /\ pc = "wait"
  /\ \/ cancelled /\ Return("clean") /\ UNCHANGED result
     \/ /\ result > NoLine
        /\ hand' = result /\ result' = NoLine /\ Goto("record") /\ UNCHANGED retried
     \/ result = EOF /\ result' = NoLine /\ Return("eof")
     \/ /\ result = Failed /\ result' = NoLine
        /\ Return(IF cancelled THEN "clean" ELSE "failed")
  /\ UNCHANGED <<config, input, reading, head, reachable, blocked, destination, start,
                 fate, bounds>>

(* What each loop does with a record before the first attempt. *)

Deliver == Goto("try") /\ retried' = FALSE /\ UNCHANGED <<hand, fate>>

Route ==
  /\ config.sink = "kafka"
  /\ \/ input[hand] = Odd /\ Return("failed") /\ UNCHANGED fate
     \/ input[hand] # Odd /\ Deliver

Filter ==
  /\ config.sink = "webhook"
  /\ \/ /\ input[hand] = Odd
        /\ Settle(hand, "filtered")
        /\ hand' = NoLine /\ Goto("top") /\ UNCHANGED retried
     \/ input[hand] # Odd /\ Deliver

CheckSize ==
  /\ config.sink = "aws"
  /\ \/ input[hand] = Odd /\ Return("failed") /\ UNCHANGED fate
     \/ input[hand] # Odd /\ Deliver

Prepare ==
  /\ pc = "record"
  /\ \/ Route
     \/ Filter
     \/ CheckSize
     \/ config.sink \in {"redis", "postgres", "stdout"} /\ Deliver
  /\ UNCHANGED <<config, input, reader, reachable, blocked, destination, start, bounds>>

\* The head of the retry loop; the stdout sink has none.
Try ==
  /\ pc = "try"
  /\ IF cancelled /\ config.sink # "stdout"
     THEN Return("clean")
     ELSE Goto("call") /\ UNCHANGED <<hand, retried>>
  /\ UNCHANGED <<config, input, reader, reachable, blocked, destination, start, fate,
                 bounds>>

\* Mutated form of Confirmed: what the retries set is not cleared.
Confirmed_StillBlocked ==
  /\ up
  /\ Land(hand) /\ Settle(hand, "stored")
  /\ hand' = NoLine /\ retried' = FALSE /\ Goto("top")
  /\ reachable' = TRUE
  /\ UNCHANGED <<blocked, late, ghosts>>

\* The destination has answered: clearBlocked after retries.
Confirmed ==
  /\ up
  /\ Land(hand) /\ Settle(hand, "stored")
  /\ hand' = NoLine /\ retried' = FALSE /\ Goto("top")
  /\ reachable' = TRUE /\ blocked' = (blocked /\ ~retried)
  /\ UNCHANGED <<late, ghosts>>

\* Mutated form of Cancelled: the record in hand is counted as delivered.
Cancelled_Counted ==
  /\ cancelled
  /\ Unanswered(hand)
  /\ Settle(hand, "stored")
  /\ Return("clean")
  /\ UNCHANGED <<reachable, blocked>>

\* The call was cut short by the signal: nothing is counted.
Cancelled ==
  /\ cancelled
  /\ Unanswered(hand)
  /\ Return("clean")
  /\ UNCHANGED <<fate, reachable, blocked>>

\* Mutated form of Transient: the loop goes on with the next record.
Transient_Skips ==
  /\ ~up /\ ~cancelled
  /\ Unanswered(hand)
  /\ Goto("top") /\ hand' = NoLine
  /\ reachable' = FALSE /\ blocked' = TRUE
  /\ UNCHANGED <<fate, retried>>

\* Mutated form of Transient: it waits for a line with the record in hand.
Transient_Stuck ==
  /\ ~up /\ ~cancelled
  /\ Unanswered(hand)
  /\ Goto("wait") /\ retried' = TRUE
  /\ reachable' = FALSE /\ blocked' = TRUE
  /\ UNCHANGED <<hand, fate>>

Transient ==
  /\ ~up /\ ~cancelled
  /\ Unanswered(hand)
  /\ Goto("backoff") /\ retried' = TRUE
  /\ reachable' = FALSE /\ blocked' = TRUE
  /\ UNCHANGED <<hand, fate>>

Permanent ==
  /\ up /\ ~cancelled
  /\ Return("failed")
  /\ blocked' = FALSE
  /\ UNCHANGED <<fate, reachable, store, markers, late, ghosts>>

Attempt == Confirmed \/ Cancelled \/ Transient \/ Permanent

Call(attempt) ==
  /\ pc = "call"
  /\ attempt
  /\ UNCHANGED <<config, input, reader, up, start, stops, outages>>

Publish == config.sink = "kafka"    /\ Call(Attempt)
Post    == config.sink = "webhook"  /\ Call(Attempt)
Send    == config.sink = "aws"      /\ Call(Attempt)
XAdd    == config.sink = "redis"    /\ Call(Attempt)
Insert  == config.sink = "postgres" /\ Call(Attempt)

\* One write, which no signal interrupts; EPIPE ends the sink cleanly.
WriteLine ==
  /\ config.sink = "stdout"
  /\ Call(\/ Confirmed
          \/ /\ \E how \in {"clean", "failed"} : Return(how)
             /\ UNCHANGED <<fate, reachable, blocked, store, markers, late, ghosts>>)

\* Sleep ends with the delay or with the signal.
BackedOff ==
  /\ pc = "backoff"
  /\ IF cancelled THEN Return("clean") ELSE Goto("try") /\ UNCHANGED <<hand, retried>>
  /\ UNCHANGED <<config, input, reader, reachable, blocked, destination, start, fate,
                 bounds>>

Loop ==
  \/ Ask \/ Take \/ Prepare \/ Try \/ BackedOff
  \/ Publish \/ Post \/ Send \/ XAdd \/ Insert \/ WriteLine
-----------------------------------------------------------------------------
(* The probe: what it saw is recorded later. *)

ProbeStart ==
  /\ config.probe /\ Running /\ ~cancelled /\ probe = "none"
  /\ probe' = IF up THEN "up" ELSE "down"
  /\ UNCHANGED <<config, input, reader, loop, reachable, blocked, destination, start,
                 fate, bounds>>

ProbeEnd ==
  /\ probe # "none"
  /\ reachable' = (probe = "up" /\ ~cancelled) /\ probe' = "none"
  /\ UNCHANGED <<config, input, reader, loop, blocked, destination, start, fate, bounds>>
-----------------------------------------------------------------------------
(* The process. *)

Cancel ==
  /\ Running /\ ~cancelled
  /\ cancelled' = TRUE
  /\ UNCHANGED <<config, input, reader, pc, hand, retried, outcome, health, destination,
                 start, fate, bounds>>

\* After Run the process closes the dead-letter file and exits.  Until then the
\* abandoned read goes on.
Close ==
  /\ pc = "stopping" /\ pc' = "closed"
  /\ UNCHANGED <<config, input, reader, hand, retried, cancelled, outcome, health,
                 destination, start, fate, bounds>>

Exit ==
  /\ pc = "closed" /\ pc' = "down"
  /\ UNCHANGED <<config, input, reader, hand, retried, cancelled, outcome, health,
                 destination, start, fate, bounds>>

\* A crash, perhaps in the middle of a call.
Crash ==
  /\ pc # "down" /\ stops < MaxStops
  /\ IF pc = "call" THEN Unanswered(hand) ELSE UNCHANGED <<store, markers, late, ghosts>>
  /\ pc' = "down" /\ outcome' = "crash" /\ hand' = NoLine /\ retried' = FALSE
  /\ probe' = "none"
  /\ UNCHANGED <<config, input, reader, cancelled, reachable, blocked, up, start, fate,
                 stops, outages>>

\* A file is read again from its first line; a pipe or a socket goes on with a
\* later line: what the scanner had buffered is gone.
Restart ==
  /\ pc = "down" /\ stops < MaxStops /\ stops' = stops + 1
  /\ \E n \in {0} \cup head .. Len(input) :
       head' = n /\ start' = n + 1
  /\ reading' = "idle" /\ result' = NoLine
  /\ pc' = "top" /\ cancelled' = FALSE /\ outcome' = "none"
  /\ reachable' = TRUE /\ blocked' = FALSE
  /\ fate' = [i \in Lines |-> "open"]
  /\ UNCHANGED <<config, input, hand, retried, probe, destination, outages, ghosts>>

Environment ==
  \/ ScanFails
  \/ \E i \in Lines : LateArrives(i)
  \/ \E k \in Keys \cup {Odd} : Expire(k)
  \/ Outage \/ Recover
  \/ Cancel \/ Crash \/ Restart

Next ==
  \/ Scan \/ Loop \/ ProbeStart \/ ProbeEnd \/ Close \/ Exit
  \/ Environment

Spec == Init /\ [][Next]_vars

\* The goroutines run, the probe's ticker ticks, every call ends.  The
\* destination need not come back.
Fairness ==
  /\ WF_vars(Scan) /\ WF_vars(Loop)
  /\ WF_vars(ProbeStart) /\ WF_vars(ProbeEnd)
  /\ WF_vars(Close) /\ WF_vars(Exit)

FairSpec == Spec /\ Fairness
-----------------------------------------------------------------------------
\* Confirm before advance: a line the sink counts as delivered is in the
\* destination, itself or, where keys are remembered, as a line of its key,
\* whatever became of the attempts that got no answer.
ConfirmedIsStored ==
  \A i \in Lines :
    fate[i] = "stored" =>
      \E j \in DOMAIN store : /\ input[store[j]] = input[i]
                              /\ config.dedup = "none" => store[j] = i

\* Of the lines taken from the input at most one has come to nothing, whenever
\* the process stops and whatever its abandoned read still does; and none when
\* the sink reports the end of its input.
AtMostOneOpen ==
  LET Open == {i \in start .. head : fate[i] = "open"} IN
  /\ \A i, j \in Open : i = j
  /\ outcome = "eof" => Open = {}

\* The destination gets the keys in the order of the input: a late or repeated
\* attempt only repeats a key that was there before its successors.
FirstCopiesInOrder ==
  LET First(j) == \A m \in 1 .. j - 1 : input[store[m]] # input[store[j]]
  IN stops = 0 =>
       \A j, k \in DOMAIN store :
         (j < k /\ First(j) /\ First(k)) => store[j] < store[k]

\* With a permanent marker or a primary key no record is stored twice, over
\* retries, late attempts, crashes and replays.
OncePerKey ==
  config.dedup = "forever" =>
    \A j, k \in DOMAIN store : input[store[j]] = input[store[k]] => j = k

\* A signal ends the process, even while the destination is away; only the
\* write of the stdout sink cannot be interrupted.
SignalStops == cancelled ~> (pc = "down" \/ ~cancelled \/ (config.sink = "stdout" /\ ~up))

\* If the destination stays, a record in hand is settled or the process ends.
RecordSettled ==
  \A i \in Positions : <>[]up => ((hand = i) ~> (hand # i))

\* If the destination stays, readiness recovers: neither a stale probe nor the
\* retries of the outage leave the sink not ready.
ReadyAgain == <>[]up => <>[](~Running \/ (reachable /\ ~blocked))
=============================================================================
