----------------------------- MODULE SinkProofs -----------------------------
(***************************************************************************)
(* What the delivery loop of a sink guarantees for every input, every sink *)
(* and every number of restarts, outages and unanswered attempts.          *)
(***************************************************************************)
EXTENDS Sink, TLAPS

USE SinkAssumption DEF NoLine, EOF, Failed

InHand == {"record", "try", "call", "backoff"}
Ended  == {"stopping", "closed", "down"}
Open   == {i \in start .. head : fate[i] = "open"}

(***************************************************************************)
(* Types.                                                                  *)
(***************************************************************************)
TypeInv ==
  /\ config \in Config /\ input \in Seq(Keys \cup {Poison, Odd})
  /\ reading \in {"idle", "asked", "ended"}
  /\ head \in 0 .. Len(input) /\ start \in 1 .. Len(input) + 1
  /\ result \in Lines \cup {NoLine, EOF, Failed}
  /\ pc \in {"top", "wait"} \cup InHand \cup Ended
  /\ hand \in Lines \cup {NoLine} /\ (pc \in InHand => hand \in Lines)
  /\ store \in Seq(Lines) /\ late \subseteq Lines
  /\ fate \in [Lines -> {"open", "stored", "filtered", "quarantined"}]
  /\ stops \in Nat

(***************************************************************************)
(* Where the open line is: with the reader's answer, in the loop's hand,   *)
(* or given up; and the reader works only while the loop waits or is over. *)
(***************************************************************************)
OpenInv ==
  /\ \A i, j \in Open : i = j
  /\ pc = "top" => Open = {} /\ reading = "idle" /\ result = NoLine
  /\ pc = "wait" /\ result = NoLine => reading = "asked"
  /\ pc \in InHand => Open \subseteq {hand} /\ hand = head /\ reading = "idle" /\ result = NoLine
  /\ reading = "asked" => Open = {} /\ result = NoLine
  /\ result > NoLine => Open \subseteq {result} /\ result = head /\ reading = "idle"
  /\ result = EOF => Open = {} /\ reading = "ended"
  /\ outcome = "eof" => Open = {} /\ reading = "ended" /\ pc \in Ended /\ result = NoLine

(***************************************************************************)
(* What the destination remembers is stored, and with a permanent memory   *)
(* what is stored is remembered.                                           *)
(***************************************************************************)
StoredKey(k) == \E j \in DOMAIN store : input[store[j]] = k
MemoryInv ==
  /\ config.dedup # "none" => \A k \in markers : StoredKey(k)
  /\ config.dedup = "forever" => \A j \in DOMAIN store : input[store[j]] \in markers

(***************************************************************************)
(* Until the first restart nothing beyond the line in hand was attempted,  *)
(* and an attempt under way whose key is not stored is the last one, made  *)
(* for the line in hand or by a loop that is over.                         *)
(***************************************************************************)
Attempted == late \cup {store[j] : j \in DOMAIN store}
OrderInv ==
  stops = 0 =>
    /\ \A i \in Attempted : i <= head
    /\ \A l \in late : ~StoredKey(input[l]) =>
         /\ \A i \in Attempted : i <= l
         /\ pc \in {"try", "call", "backoff"} \cup Ended
         /\ pc \in InHand => hand = l
-----------------------------------------------------------------------------
(* What an attempt may do to the destination.                              *)
GivesUp == (\E how \in {"clean", "failed"} : Return(how)) /\ UNCHANGED <<fate, store, markers, late, ghosts>>
Calls   == Publish \/ Post \/ Send \/ XAdd \/ Insert \/ WriteLine

LEMMA CallKinds ==
  Calls => /\ pc = "call" /\ UNCHANGED <<config, input, reader, up, start, stops, outages>>
           /\ Confirmed \/ Cancelled \/ Transient \/ GivesUp
<1> SUFFICES ASSUME Calls
             PROVE  /\ pc = "call" /\ UNCHANGED <<config, input, reader, up, start, stops, outages>>
                    /\ Confirmed \/ Cancelled \/ Transient \/ GivesUp
  OBVIOUS
<1>1. CASE Publish \/ Post \/ Send \/ XAdd \/ Insert
  BY <1>1 DEF Publish, Post, Send, XAdd, Insert, Call, Attempt, Permanent, GivesUp
<1>2. CASE WriteLine
  BY <1>2 DEF WriteLine, Call, GivesUp
<1> QED BY <1>1, <1>2 DEF Calls

(* A landing adds at most the line itself at the end of the store.         *)
LEMMA LandEffect ==
  ASSUME NEW i \in Lines, Land(i), store \in Seq(Lines)
  PROVE  /\ store' \in Seq(Lines)
         /\ \A j \in DOMAIN store : j \in DOMAIN store' /\ store'[j] = store[j]
         /\ \/ store' = store /\ config.dedup # "none" /\ input[i] \in markers
            \/ /\ store' = Append(store, i) /\ ~(config.dedup # "none" /\ input[i] \in markers)
               /\ DOMAIN store' = DOMAIN store \cup {Len(store) + 1} /\ store'[Len(store) + 1] = i
<1>1. CASE config.dedup # "none" /\ input[i] \in markers
  BY <1>1 DEF Land
<1>2. CASE ~(config.dedup # "none" /\ input[i] \in markers)
  <2> DEFINE n == Len(store)
             t == Append(store, i)
  <2>1. store' = t
    BY <1>2 DEF Land
  <2>2. /\ t \in Seq(Lines) /\ DOMAIN store = 1 .. n /\ n \in Nat
        /\ DOMAIN t = 1 .. (n + 1)
        /\ \A j \in 1 .. n : t[j] = store[j]
        /\ t[n + 1] = i
    OBVIOUS
  <2>3. store' = Append(store, i) /\ store'[Len(store) + 1] = i
    BY <2>1, <2>2
  <2> HIDE DEF n, t
  <2>4. store' \in Seq(Lines) /\ \A j \in DOMAIN store : j \in DOMAIN store' /\ store'[j] = store[j]
    BY <2>1, <2>2
  <2>5. DOMAIN store' = DOMAIN store \cup {n + 1}
    BY <2>1, <2>2
  <2> QED BY <1>2, <2>3, <2>4, <2>5 DEF n
<1> QED BY <1>1, <1>2

LEMMA UnansweredType ==
  ASSUME NEW i \in Lines, Unanswered(i), store \in Seq(Lines), late \subseteq Lines
  PROVE  store' \in Seq(Lines) /\ late' \subseteq Lines
<1>1. CASE Land(i) /\ late' = late
  BY <1>1, LandEffect
<1> QED BY <1>1 DEF Unanswered

(***************************************************************************)
(* Types are kept.                                                         *)
(***************************************************************************)
LEMMA TypeStep == TypeInv /\ [Next]_vars => TypeInv'
<1> SUFFICES ASSUME TypeInv, [Next]_vars
             PROVE  TypeInv'
  OBVIOUS
<1> USE DEF InHand, Ended, Lines
<1>1. CASE UNCHANGED vars
  BY <1>1 DEF TypeInv, vars, reader, loop, destination, bounds
<1>2. CASE Scan
  BY <1>2 DEF Scan, Quarantine, Settle, TypeInv, loop, destination, bounds
<1>3. CASE ScanFails
  BY <1>3 DEF ScanFails, TypeInv, loop, destination, bounds
<1>4. CASE Ask \/ Take
  BY <1>4 DEF Ask, Take, Return, Goto, TypeInv, reader, destination, bounds
<1>5. CASE Prepare
  BY <1>5 DEF Prepare, Route, Filter, CheckSize, Deliver, Settle, Return, Goto, TypeInv, reader,
              destination, bounds
<1>6. CASE Try \/ BackedOff
  BY <1>6 DEF Try, BackedOff, Return, Goto, TypeInv, reader, destination, bounds
<1>7. CASE Calls
  <2>1. /\ pc = "call" /\ UNCHANGED <<config, input, reader, up, start, stops, outages>>
        /\ hand \in Lines
    BY <1>7, CallKinds DEF TypeInv
  <2>2. CASE Confirmed
    <3>1. store' \in Seq(Lines)
      BY <2>1, <2>2, LandEffect DEF Confirmed, TypeInv
    <3> QED BY <2>1, <2>2, <3>1 DEF Confirmed, Settle, Goto, TypeInv, reader
  <2>3. CASE Cancelled \/ Transient
    <3>1. store' \in Seq(Lines) /\ late' \subseteq Lines
      BY <2>1, <2>3, UnansweredType DEF Cancelled, Transient, TypeInv
    <3> QED BY <2>1, <2>3, <3>1 DEF Cancelled, Transient, Return, Goto, TypeInv, reader
  <2>4. CASE GivesUp
    BY <2>1, <2>4 DEF GivesUp, Return, TypeInv, reader
  <2> QED BY <1>7, <2>2, <2>3, <2>4, CallKinds
<1>8. CASE ProbeStart \/ ProbeEnd \/ Outage \/ Recover \/ Cancel
  BY <1>8 DEF ProbeStart, ProbeEnd, Outage, Recover, Cancel, TypeInv, reader, loop, destination, bounds
<1>9. CASE Close \/ Exit
  BY <1>9 DEF Close, Exit, TypeInv, reader, destination, bounds
<1>10. ASSUME NEW i \in Lines, LateArrives(i)
       PROVE  TypeInv'
  <2>1. store' \in Seq(Lines)
    BY <1>10, LandEffect DEF LateArrives, TypeInv
  <2> QED BY <1>10, <2>1 DEF LateArrives, TypeInv, reader, loop, bounds
<1>11. ASSUME NEW k, Expire(k)
       PROVE  TypeInv'
  BY <1>11 DEF Expire, TypeInv, reader, loop, bounds
<1>12. CASE Crash
  <2>1. store' \in Seq(Lines) /\ late' \subseteq Lines
    <3>1. CASE pc = "call"
      BY <1>12, <3>1, UnansweredType DEF Crash, TypeInv
    <3> QED BY <1>12, <3>1 DEF Crash, TypeInv
  <2> QED BY <1>12, <2>1 DEF Crash, TypeInv, reader
<1>13. CASE Restart
  BY <1>13 DEF Restart, TypeInv, destination
<1> QED BY <1>1, <1>2, <1>3, <1>4, <1>5, <1>6, <1>7, <1>8, <1>9, <1>10, <1>11, <1>12, <1>13
        DEF Next, Loop, Calls, Environment

(***************************************************************************)
(* Of the lines read at most one is open.                                  *)
(***************************************************************************)
LEMMA OpenStep == TypeInv /\ OpenInv /\ [Next]_vars => OpenInv'
<1> SUFFICES ASSUME TypeInv, OpenInv, [Next]_vars
             PROVE  OpenInv'
  OBVIOUS
<1> USE DEF InHand, Ended
<1>a. UNCHANGED <<start, head, fate>> => Open' = Open
  BY DEF Open
<1>b. ASSUME NEW i \in Lines, NEW how, how # "open", Open \subseteq {i}, Settle(i, how),
             UNCHANGED <<start, head>>
      PROVE  Open' = {}
  BY <1>b DEF Open, Settle, TypeInv, Lines
<1>1. CASE UNCHANGED vars
  BY <1>1, <1>a DEF OpenInv, vars, reader, loop
<1>2. CASE Scan
  <2>1. /\ reading = "asked" /\ Open = {} /\ result = NoLine /\ pc \notin {"top"} \cup InHand
        /\ UNCHANGED <<start, pc, hand, outcome>> /\ outcome # "eof"
    BY <1>2 DEF Scan, OpenInv, loop
  <2>2. CASE /\ head' = head + 1 /\ result' = head + 1 /\ reading' = "idle" /\ UNCHANGED fate
    <3>1. Open' \subseteq {head + 1}
      BY <2>1, <2>2 DEF Open, TypeInv
    <3> QED BY <2>1, <2>2, <3>1 DEF OpenInv, TypeInv
  <2>3. CASE /\ head < Len(input) /\ head' = head + 1 /\ Quarantine(head + 1)
             /\ UNCHANGED <<reading, result>>
    <3>1. fate' = [fate EXCEPT ![head + 1] = "quarantined"]
      BY <2>3 DEF Quarantine, Settle
    <3>2. \A i \in start .. head + 1 : fate'[i] = IF i = head + 1 THEN "quarantined" ELSE fate[i]
      <4>1. /\ head + 1 \in DOMAIN fate /\ \A i \in start .. head + 1 : i \in DOMAIN fate
        BY <2>3 DEF TypeInv, Lines
      <4> QED BY <3>1, <4>1
    <3>3. \A i \in start .. head : fate[i] # "open"
      BY <2>1 DEF Open
    <3>4. \A i \in start .. head + 1 : i = head + 1 \/ i \in start .. head
      BY DEF TypeInv
    <3>5. Open' = {}
      BY <2>1, <2>3, <3>2, <3>3, <3>4 DEF Open
    <3>6. reading' = "asked" /\ result' = NoLine
      BY <2>1, <2>3
    <3> QED BY <2>1, <3>5, <3>6 DEF OpenInv
  <2>4. CASE head' = head + 1 /\ result' = Failed /\ reading' = "ended" /\ UNCHANGED fate
    <3>1. Open' \subseteq {head + 1}
      BY <2>1, <2>4 DEF Open, TypeInv
    <3> QED BY <2>1, <2>4, <3>1 DEF OpenInv, TypeInv
  <2>5. CASE result' = EOF /\ reading' = "ended" /\ UNCHANGED <<head, fate>>
    BY <2>1, <2>5, <1>a DEF OpenInv
  <2> QED BY <1>2, <2>2, <2>3, <2>4, <2>5 DEF Scan
<1>3. CASE ScanFails
  BY <1>3, <1>a DEF ScanFails, OpenInv, loop
<1>4. CASE Ask
  BY <1>4, <1>a DEF Ask, Return, Goto, OpenInv
<1>5. CASE Take
  BY <1>5, <1>a DEF Take, Return, Goto, OpenInv, TypeInv
<1>6. CASE Prepare
  <2>1. pc = "record" /\ hand \in Lines /\ UNCHANGED <<start, head, reading, result>> /\ outcome # "eof"
    BY <1>6 DEF Prepare, reader, TypeInv, OpenInv
  <2>2. CASE Deliver
    BY <1>a, <2>1, <2>2 DEF Deliver, Goto, OpenInv
  <2>3. CASE Settle(hand, "filtered") /\ hand' = NoLine /\ Goto("top")
    <3>1. Open' = {}
      BY <1>b, <2>1, <2>3 DEF OpenInv
    <3> QED BY <2>1, <2>3, <3>1 DEF Goto, OpenInv
  <2>4. CASE Route
    BY <1>a, <2>1, <2>2, <2>4 DEF Route, Return, OpenInv
  <2>5. CASE Filter
    BY <2>2, <2>3, <2>5 DEF Filter, Settle, Goto
  <2>6. CASE CheckSize
    BY <1>a, <2>1, <2>2, <2>6 DEF CheckSize, Return, OpenInv
  <2> QED BY <1>6, <2>2, <2>4, <2>5, <2>6 DEF Prepare
<1>7. CASE Try \/ BackedOff
  BY <1>7, <1>a DEF Try, BackedOff, Return, Goto, OpenInv, reader
<1>8. CASE Calls
  <2>1. pc = "call" /\ hand \in Lines /\ UNCHANGED <<start, head, reading, result>> /\ outcome # "eof"
    BY <1>8, CallKinds DEF reader, TypeInv, OpenInv
  <2>2. CASE Confirmed
    <3>1. Open' = {}
      BY <1>b, <2>1, <2>2 DEF OpenInv, Confirmed
    <3> QED BY <2>1, <2>2, <3>1 DEF Confirmed, Goto, OpenInv
  <2>3. CASE Cancelled \/ Transient \/ GivesUp
    BY <1>a, <2>1, <2>3 DEF Cancelled, Transient, GivesUp, Return, Goto, OpenInv
  <2> QED BY <1>8, <2>2, <2>3, CallKinds
<1>9. CASE ProbeStart \/ ProbeEnd \/ Outage \/ Recover \/ Cancel
  BY <1>9, <1>a DEF ProbeStart, ProbeEnd, Outage, Recover, Cancel, OpenInv, reader, loop
<1>10. CASE Close \/ Exit
  BY <1>10, <1>a DEF Close, Exit, OpenInv, reader
<1>11. CASE \/ \E i \in Lines : LateArrives(i)
            \/ \E k \in Keys \cup {Odd} : Expire(k)
  BY <1>11, <1>a DEF LateArrives, Expire, OpenInv, reader, loop
<1>12. CASE Crash
  BY <1>12, <1>a DEF Crash, OpenInv, reader
<1>13. CASE Restart
  <2>1. Open' = {}
    BY <1>13 DEF Restart, Open, TypeInv
  <2> QED BY <1>13, <2>1 DEF Restart, OpenInv
<1> QED BY <1>1, <1>2, <1>3, <1>4, <1>5, <1>6, <1>7, <1>8, <1>9, <1>10, <1>11, <1>12, <1>13
        DEF Next, Loop, Calls, Environment

(***************************************************************************)
(* The store, its keys and the memory of the destination.                  *)
(***************************************************************************)
StoreGrows == \A j \in DOMAIN store : j \in DOMAIN store' /\ store'[j] = store[j]

(* A step lands a line, forgets a key, or leaves the destination alone.    *)
LEMMA StoreKinds ==
  ASSUME TypeInv, [Next]_vars
  PROVE  /\ input' = input /\ config' = config
         /\ \/ \E i \in Lines : Land(i)
            \/ store' = store /\ markers' \subseteq markers
               /\ (config.dedup # "window" => markers' = markers)
<1>1. CASE UNCHANGED vars
  BY <1>1 DEF vars, destination
<1>2. CASE Scan \/ ScanFails
  BY <1>2 DEF Scan, ScanFails, destination
<1>3. CASE Ask \/ Take \/ Prepare \/ Try \/ BackedOff
  BY <1>3 DEF Ask, Take, Prepare, Try, BackedOff, destination
<1>4. CASE Calls
  <2>1. pc = "call" /\ hand \in Lines /\ input' = input /\ config' = config
    BY <1>4, CallKinds DEF TypeInv, InHand
  <2> QED BY <1>4, <2>1, CallKinds DEF Confirmed, Cancelled, Transient, GivesUp, Unanswered
<1>5. CASE ProbeStart \/ ProbeEnd \/ Outage \/ Recover \/ Cancel \/ Close \/ Exit \/ Restart
  BY <1>5 DEF ProbeStart, ProbeEnd, Outage, Recover, Cancel, Close, Exit, Restart, destination
<1>6. CASE \/ \E i \in Lines : LateArrives(i)
           \/ \E k \in Keys \cup {Odd} : Expire(k)
  BY <1>6 DEF LateArrives, Expire
<1>7. CASE Crash
  <2>1. pc = "call" => hand \in Lines
    BY DEF TypeInv, InHand
  <2> QED BY <1>7, <2>1 DEF Crash, Unanswered
<1> QED BY <1>1, <1>2, <1>3, <1>4, <1>5, <1>6, <1>7 DEF Next, Loop, Calls, Environment

LEMMA MemoryStep ==
  ASSUME TypeInv, MemoryInv, [Next]_vars
  PROVE  MemoryInv' /\ StoreGrows
<1>1. input' = input /\ config' = config
  BY StoreKinds
<1>2. ASSUME NEW i \in Lines, Land(i)
      PROVE  MemoryInv' /\ StoreGrows
  <2>1. /\ StoreGrows
        /\ \/ store' = store /\ config.dedup # "none" /\ input[i] \in markers
           \/ /\ ~(config.dedup # "none" /\ input[i] \in markers)
              /\ DOMAIN store' = DOMAIN store \cup {Len(store) + 1} /\ store'[Len(store) + 1] = i
    BY <1>2, LandEffect DEF StoreGrows, TypeInv
  <2>2. markers' = IF config.dedup = "none" THEN markers ELSE markers \cup {input[i]}
    BY <1>2 DEF Land
  <2>3. \A k : StoredKey(k) => StoredKey(k)'
    BY <1>1, <2>1 DEF StoredKey, StoreGrows
  <2>4. config.dedup # "none" => StoredKey(input[i])'
    <3>1. CASE store' = store /\ config.dedup # "none" /\ input[i] \in markers
      BY <1>1, <2>3, <3>1 DEF MemoryInv
    <3>2. CASE /\ DOMAIN store' = DOMAIN store \cup {Len(store) + 1}
               /\ store'[Len(store) + 1] = i
      BY <1>1, <3>2 DEF StoredKey
    <3> QED BY <2>1, <3>1, <3>2
  <2>5. (config.dedup # "none" => \A k \in markers : StoredKey(k))'
    BY <1>1, <2>2, <2>3, <2>4 DEF MemoryInv
  <2>6. (config.dedup = "forever" => \A j \in DOMAIN store : input[store[j]] \in markers)'
    BY <1>1, <2>1, <2>2 DEF MemoryInv, StoreGrows
  <2> QED BY <2>1, <2>5, <2>6 DEF MemoryInv
<1>3. CASE store' = store /\ markers' \subseteq markers /\ (config.dedup # "window" => markers' = markers)
  BY <1>1, <1>3 DEF MemoryInv, StoredKey, StoreGrows
<1> QED BY <1>2, <1>3, StoreKinds

(***************************************************************************)
(* A line is counted as delivered only in the step in which the            *)
(* destination answers.                                                    *)
(***************************************************************************)
LEMMA CountKinds ==
  ASSUME TypeInv, [Next]_vars
  PROVE  \/ pc = "call" /\ Land(hand) /\ fate' = [fate EXCEPT ![hand] = "stored"]
         \/ \A i \in Lines : fate'[i] = "stored" => fate[i] = "stored"
<1>1. CASE UNCHANGED vars
  BY <1>1 DEF vars
<1>2. CASE Scan
  <2>1. CASE UNCHANGED fate
    BY <2>1
  <2>2. CASE head < Len(input) /\ fate' = [fate EXCEPT ![head + 1] = "quarantined"]
    <3>1. Lines = DOMAIN fate
      BY DEF TypeInv
    <3> DEFINE n == head + 1
    <3>2. fate' = [fate EXCEPT ![n] = "quarantined"]
      BY <2>2
    <3> HIDE DEF n
    <3>3. \A i \in Lines : fate'[i] \in {"quarantined", fate[i]}
      BY <3>1, <3>2
    <3> QED BY <3>3
  <2> QED BY <1>2, <2>1, <2>2 DEF Scan, Quarantine, Settle
<1>3. CASE ScanFails \/ Ask \/ Take \/ Try \/ BackedOff
  BY <1>3 DEF ScanFails, Ask, Take, Try, BackedOff
<1>4. CASE Prepare
  <2>1. hand \in DOMAIN fate /\ Lines = DOMAIN fate
    BY <1>4 DEF Prepare, TypeInv, InHand
  <2>2. fate' = fate \/ fate' = [fate EXCEPT ![hand] = "filtered"]
    BY <1>4 DEF Prepare, Route, Filter, CheckSize, Deliver, Settle
  <2> QED BY <2>1, <2>2
<1>5. CASE Calls
  BY <1>5, CallKinds DEF Confirmed, Cancelled, Transient, GivesUp, Settle
<1>6. CASE ProbeStart \/ ProbeEnd \/ Outage \/ Recover \/ Cancel \/ Close \/ Exit \/ Crash
  BY <1>6 DEF ProbeStart, ProbeEnd, Outage, Recover, Cancel, Close, Exit, Crash
<1>7. CASE \/ \E i \in Lines : LateArrives(i)
           \/ \E k \in Keys \cup {Odd} : Expire(k)
  BY <1>7 DEF LateArrives, Expire
<1>8. CASE Restart
  BY <1>8 DEF Restart
<1> QED BY <1>1, <1>2, <1>3, <1>4, <1>5, <1>6, <1>7, <1>8 DEF Next, Loop, Calls, Environment

(* After a landing the key of the line is stored, and under a memory-less  *)
(* destination the line itself.                                            *)
LEMMA LandStores ==
  ASSUME TypeInv, MemoryInv, NEW i \in Lines, Land(i), input' = input
  PROVE  \E j \in DOMAIN store' : /\ input[store'[j]] = input[i]
                                  /\ config.dedup = "none" => store'[j] = i
<1>1. \/ store' = store /\ config.dedup # "none" /\ input[i] \in markers
      \/ /\ DOMAIN store' = DOMAIN store \cup {Len(store) + 1} /\ store'[Len(store) + 1] = i
  BY LandEffect DEF TypeInv
<1>2. CASE store' = store /\ config.dedup # "none" /\ input[i] \in markers
  BY <1>2 DEF MemoryInv, StoredKey
<1>3. CASE DOMAIN store' = DOMAIN store \cup {Len(store) + 1} /\ store'[Len(store) + 1] = i
  BY <1>3
<1> QED BY <1>1, <1>2, <1>3

LEMMA StoredStep ==
  ASSUME TypeInv, MemoryInv, ConfirmedIsStored, [Next]_vars
  PROVE  ConfirmedIsStored'
<1>1. input' = input /\ config' = config /\ StoreGrows
  BY StoreKinds, MemoryStep
<1> SUFFICES ASSUME NEW i \in Lines, fate'[i] = "stored"
             PROVE  \E j \in DOMAIN store' : /\ input[store'[j]] = input[i]
                                             /\ config.dedup = "none" => store'[j] = i
  BY <1>1 DEF ConfirmedIsStored, Lines
<1>2. CASE fate[i] = "stored"
  BY <1>1, <1>2 DEF ConfirmedIsStored, StoreGrows
<1>3. CASE fate[i] # "stored"
  <2>1. pc = "call" /\ Land(hand) /\ fate' = [fate EXCEPT ![hand] = "stored"]
    BY <1>3, CountKinds
  <2>2. hand \in Lines /\ i = hand
    BY <1>3, <2>1 DEF TypeInv, InHand
  <2> QED BY <1>1, <2>1, <2>2, LandStores
<1> QED BY <1>2, <1>3

(***************************************************************************)
(* No key twice where the memory is permanent.                             *)
(***************************************************************************)
LEMMA OnceStep ==
  ASSUME TypeInv, MemoryInv, OncePerKey, [Next]_vars
  PROVE  OncePerKey'
<1>1. input' = input /\ config' = config
  BY StoreKinds
<1>2. CASE store' = store
  BY <1>1, <1>2 DEF OncePerKey
<1>3. ASSUME NEW i \in Lines, Land(i), config.dedup = "forever"
      PROVE  OncePerKey'
  <2>1. CASE store' = store
    BY <1>2, <2>1
  <2>2. CASE /\ DOMAIN store' = DOMAIN store \cup {Len(store) + 1} /\ store'[Len(store) + 1] = i
             /\ input[i] \notin markers
    <3>1. \A j \in DOMAIN store : store'[j] = store[j] /\ input[store[j]] # input[i]
      BY <1>3, <2>2, LandEffect DEF MemoryInv, TypeInv
    <3> QED BY <1>1, <1>3, <2>2, <3>1 DEF OncePerKey
  <2> QED BY <1>3, <2>1, <2>2, LandEffect DEF TypeInv
<1>4. CASE config.dedup # "forever"
  BY <1>1, <1>4 DEF OncePerKey
<1> QED BY <1>2, <1>3, <1>4, StoreKinds
-----------------------------------------------------------------------------
SinkInv == TypeInv /\ OpenInv /\ MemoryInv

LEMMA SinkInvariant == Spec => []SinkInv
<1>1. Init => SinkInv
  <2> SUFFICES ASSUME Init
               PROVE  SinkInv
    OBVIOUS
  <2>1. config \in Config /\ input \in Seq(Keys \cup {Poison, Odd})
    BY DEF Init
  <2>2. TypeInv
    BY <2>1 DEF Init, TypeInv, Lines, InHand
  <2>3. OpenInv
    BY DEF Init, OpenInv, Open, InHand
  <2>4. MemoryInv
    BY DEF Init, MemoryInv
  <2> QED BY <2>2, <2>3, <2>4 DEF SinkInv
<1>2. SinkInv /\ [Next]_vars => SinkInv'
  BY TypeStep, OpenStep, MemoryStep DEF SinkInv
<1> QED BY <1>1, <1>2, PTL DEF Spec

(***************************************************************************)
(* Confirm before advance, for every kind of memory and any number of      *)
(* retries, late attempts, crashes and restarts.                           *)
(***************************************************************************)
THEOREM ConfirmedStored == Spec => []ConfirmedIsStored
<1>1. Init => ConfirmedIsStored
  BY DEF Init, ConfirmedIsStored
<1>2. SinkInv /\ ConfirmedIsStored /\ [Next]_vars => ConfirmedIsStored'
  BY StoredStep DEF SinkInv
<1> QED BY <1>1, <1>2, SinkInvariant, PTL DEF Spec

(***************************************************************************)
(* At most one line taken from the input comes to nothing, and none when   *)
(* the end of the input is reported: OpenInv says where the open line is.  *)
(***************************************************************************)
THEOREM OneOpen == Spec => []AtMostOneOpen
<1>1. SinkInv => AtMostOneOpen
  BY DEF SinkInv, OpenInv, Open, AtMostOneOpen
<1> QED BY <1>1, SinkInvariant, PTL

(***************************************************************************)
(* With a permanent marker or a primary key each key is stored once.       *)
(***************************************************************************)
THEOREM KeyOnce == Spec => []OncePerKey
<1>1. Init => OncePerKey
  BY DEF Init, OncePerKey
<1>2. SinkInv /\ OncePerKey /\ [Next]_vars => OncePerKey'
  BY OnceStep DEF SinkInv
<1> QED BY <1>1, <1>2, SinkInvariant, PTL DEF Spec
-----------------------------------------------------------------------------
(***************************************************************************)
(* The order of the first copies.                                          *)
(***************************************************************************)
Over == {"try", "call", "backoff"} \cup Ended

(* A step that attempts nothing, and keeps an attempt's line in hand.      *)
LEMMA OrderFrame ==
  ASSUME TypeInv, OrderInv, stops' = stops, input' = input, store' = store, late' \subseteq late,
         head' \in Int, head' >= head,
         pc \in Over => pc' \in Over /\ (pc' \in InHand => pc \in InHand /\ hand' = hand)
  PROVE  OrderInv'
<1> SUFFICES ASSUME stops = 0
             PROVE  /\ \A i \in Attempted' : i <= head'
                    /\ \A l \in late' : ~StoredKey(input[l])' =>
                         /\ \A i \in Attempted' : i <= l
                         /\ pc' \in Over /\ (pc' \in InHand => hand' = l)
  BY DEF OrderInv, Over
<1>1. Attempted' \subseteq Attempted /\ Attempted \subseteq Int /\ head \in Int
  BY DEF Attempted, TypeInv, Lines
<1>2. \A l : StoredKey(input[l])' <=> StoredKey(input[l])
  BY DEF StoredKey
<1> QED BY <1>1, <1>2 DEF OrderInv, Over

(* What a landing keeps: the key of the line is stored now, and no line    *)
(* overtakes an attempt under way.                                         *)
LEMMA OrderLand ==
  ASSUME TypeInv, MemoryInv, OrderInv, stops = 0, input' = input, late' \subseteq late,
         NEW i \in Lines, Land(i), i <= head,
         \A l \in late : ~StoredKey(input[l]) => i <= l
  PROVE  /\ \A a \in Attempted' : a <= head
         /\ StoredKey(input[i])'
         /\ \A l \in late' : ~StoredKey(input[l])' =>
              ~StoredKey(input[l]) /\ \A a \in Attempted' : a <= l
<1>1. /\ \A j \in DOMAIN store : j \in DOMAIN store' /\ store'[j] = store[j]
      /\ \A j \in DOMAIN store' : j \in DOMAIN store \/ store'[j] = i
  BY LandEffect DEF TypeInv
<1>2. Attempted' \subseteq Attempted \cup {i}
  BY <1>1 DEF Attempted
<1>3. \A k : StoredKey(k) => \E j \in DOMAIN store' : input'[store'[j]] = k
  BY <1>1 DEF StoredKey
<1>4. \E j \in DOMAIN store' : input'[store'[j]] = input[i]
  BY LandStores
<1>5. StoredKey(input[i])'
  BY <1>4 DEF StoredKey
<1>6. \A l \in late' : ~StoredKey(input[l])' => ~StoredKey(input[l])
  BY <1>3 DEF StoredKey
<1> QED BY <1>2, <1>5, <1>6 DEF OrderInv

(* An attempt without an answer: it is the last one.                       *)
LEMMA OrderUnanswered ==
  ASSUME TypeInv, OpenInv, MemoryInv, OrderInv, stops' = stops, input' = input, head' = head,
         pc = "call", Unanswered(hand), pc' \in Over, pc' \in InHand => hand' = hand
  PROVE  OrderInv'
<1>1. hand \in Lines /\ hand = head /\ head \in Int /\ Attempted \subseteq Int
  BY DEF TypeInv, OpenInv, InHand, Attempted, Lines
<1> SUFFICES ASSUME stops = 0
             PROVE  /\ \A i \in Attempted' : i <= head
                    /\ \A l \in late' : ~StoredKey(input[l])' =>
                         (\A i \in Attempted' : i <= l) /\ hand = l
  BY DEF OrderInv, Over
<1>2. /\ \A i \in Attempted : i <= hand
      /\ \A l \in late : ~StoredKey(input[l]) => hand = l
  BY <1>1 DEF OrderInv, InHand
<1>3. CASE UNCHANGED <<store, late>>
  BY <1>1, <1>2, <1>3 DEF Attempted, StoredKey
<1>4. CASE Land(hand) /\ late' = late
  <2>1. hand <= head /\ \A l \in late : ~StoredKey(input[l]) => hand <= l
    BY <1>1, <1>2
  <2> QED BY <1>1, <1>2, <1>4, <2>1, OrderLand
<1>5. CASE late' = late \cup {hand} /\ store' = store
  <2>1. Attempted' = Attempted \cup {hand}
    BY <1>5 DEF Attempted
  <2>2. \A l : StoredKey(input[l])' <=> StoredKey(input[l])
    BY <1>5 DEF StoredKey
  <2> QED BY <1>1, <1>2, <1>5, <2>1, <2>2
<1> QED BY <1>3, <1>4, <1>5 DEF Unanswered

LEMMA OrderStep == SinkInv /\ OrderInv /\ [Next]_vars => OrderInv'
<1> SUFFICES ASSUME TypeInv, OpenInv, MemoryInv, OrderInv, [Next]_vars
             PROVE  OrderInv'
  BY DEF SinkInv
<1> USE DEF InHand, Ended, Over
<1>a. head \in Int
  BY DEF TypeInv
<1>1. CASE UNCHANGED vars
  BY <1>1, <1>a, OrderFrame DEF vars, reader, loop, destination, bounds
<1>2. CASE Scan \/ ScanFails
  BY <1>2, <1>a, OrderFrame DEF Scan, ScanFails, loop, destination, bounds
<1>3. CASE Ask
  BY <1>3, <1>a, OrderFrame DEF Ask, Return, Goto, destination, bounds
<1>4. CASE Take
  BY <1>4, <1>a, OrderFrame DEF Take, Return, Goto, reader, destination, bounds
<1>5. CASE Prepare
  BY <1>5, <1>a, OrderFrame DEF Prepare, reader, destination, bounds
<1>6. CASE Try \/ BackedOff
  BY <1>6, <1>a, OrderFrame DEF Try, BackedOff, Return, Goto, reader, destination, bounds
<1>7. CASE Calls
  <2>1. pc = "call" /\ input' = input /\ head' = head /\ stops' = stops
        /\ hand \in Lines /\ hand = head
    BY <1>7, CallKinds DEF reader, TypeInv, OpenInv
  <2>2. CASE Confirmed
    <3> SUFFICES ASSUME stops = 0
                 PROVE  /\ \A i \in Attempted' : i <= head
                        /\ \A l \in late' : StoredKey(input[l])'
      BY <2>1 DEF OrderInv
    <3>1. PICK h \in Lines : h = hand
      BY <2>1
    <3>2. Land(h) /\ late' = late
      BY <2>2, <3>1 DEF Confirmed
    <3>3. h <= head /\ \A l \in late : ~StoredKey(input[l]) => h = l
      BY <1>a, <2>1, <3>1 DEF OrderInv
    <3>4. \A l \in late : ~StoredKey(input[l]) => h <= l
      BY <1>a, <2>1, <3>1, <3>3
    <3>5. /\ \A a \in Attempted' : a <= head
          /\ StoredKey(input[h])'
          /\ \A l \in late' : ~StoredKey(input[l])' =>
               ~StoredKey(input[l]) /\ \A a \in Attempted' : a <= l
      BY <2>1, <3>2, <3>3, <3>4, OrderLand
    <3>6. ASSUME NEW l \in late'
          PROVE  StoredKey(input[l])'
      <4>1. CASE l = h
        BY <3>5, <4>1
      <4>2. CASE l # h
        BY <3>2, <3>3, <3>5, <4>2
      <4> QED BY <4>1, <4>2
    <3> QED BY <3>5, <3>6
  <2>3. CASE Cancelled
    BY <2>1, <2>3, OrderUnanswered DEF Cancelled, Return
  <2>4. CASE Transient
    BY <2>1, <2>4, OrderUnanswered DEF Transient, Goto
  <2>5. CASE GivesUp
    BY <1>a, <2>1, <2>5, OrderFrame DEF GivesUp, Return
  <2> QED BY <1>7, <2>2, <2>3, <2>4, <2>5, CallKinds
<1>8. CASE ProbeStart \/ ProbeEnd \/ Outage \/ Recover \/ Cancel
  BY <1>8, <1>a, OrderFrame DEF ProbeStart, ProbeEnd, Outage, Recover, Cancel, reader, loop,
                                destination, bounds
<1>9. CASE Close \/ Exit
  BY <1>9, <1>a, OrderFrame DEF Close, Exit, reader, destination, bounds
<1>10. ASSUME NEW i \in Lines, LateArrives(i)
       PROVE  OrderInv'
  <2>1. /\ i \in late /\ late' \subseteq late /\ Land(i)
        /\ UNCHANGED <<input, head, pc, hand, stops>>
    BY <1>10 DEF LateArrives, reader, loop, bounds
  <2> SUFFICES ASSUME stops = 0
               PROVE  /\ \A a \in Attempted' : a <= head
                      /\ \A l \in late' : ~StoredKey(input[l])' =>
                           /\ \A a \in Attempted' : a <= l
                           /\ pc \in Over /\ (pc \in InHand => hand = l)
    BY <2>1 DEF OrderInv
  <2>2. i <= head /\ \A l \in late : ~StoredKey(input[l]) => i <= l
    BY <2>1 DEF OrderInv, Attempted
  <2>3. /\ \A a \in Attempted' : a <= head
        /\ \A l \in late' : ~StoredKey(input[l])' =>
              ~StoredKey(input[l]) /\ \A a \in Attempted' : a <= l
    BY <2>1, <2>2, OrderLand
  <2> QED BY <2>1, <2>3 DEF OrderInv
<1>11. ASSUME NEW k, Expire(k)
       PROVE  OrderInv'
  BY <1>11, <1>a, OrderFrame DEF Expire, reader, loop, bounds
<1>12. CASE Crash
  <2>1. UNCHANGED <<input, head, stops>> /\ pc' = "down"
    BY <1>12 DEF Crash, reader
  <2>2. CASE pc = "call"
    BY <1>12, <2>1, <2>2, OrderUnanswered DEF Crash
  <2>3. CASE pc # "call"
    BY <1>12, <1>a, <2>1, <2>3, OrderFrame DEF Crash
  <2> QED BY <2>2, <2>3
<1>13. CASE Restart
  BY <1>13 DEF Restart, OrderInv, TypeInv
<1> QED BY <1>1, <1>2, <1>3, <1>4, <1>5, <1>6, <1>7, <1>8, <1>9, <1>10, <1>11, <1>12, <1>13
        DEF Next, Loop, Calls, Environment

(* Before a restart a line lands that nobody has overtaken, or one of      *)
(* whose key a copy is stored.                                             *)
LEMMA LandsInOrder ==
  ASSUME SinkInv, OrderInv, [Next]_vars, stops = 0
  PROVE  \/ store' = store
         \/ \E i \in Lines : Land(i) /\ (~StoredKey(input[i]) => \A a \in Attempted : a <= i)
<1> USE DEF SinkInv
<1>a. \A i \in late : ~StoredKey(input[i]) => \A a \in Attempted : a <= i
  BY DEF OrderInv
<1>b. pc = "call" => hand \in Lines /\ \A a \in Attempted : a <= hand
  BY DEF OrderInv, OpenInv, TypeInv, InHand
<1>1. CASE UNCHANGED vars
  BY <1>1 DEF vars, destination
<1>2. CASE Scan \/ ScanFails
  BY <1>2 DEF Scan, ScanFails, destination
<1>3. CASE Ask \/ Take \/ Prepare \/ Try \/ BackedOff
  BY <1>3 DEF Ask, Take, Prepare, Try, BackedOff, destination
<1>4. CASE Calls
  BY <1>4, <1>b, CallKinds DEF Confirmed, Cancelled, Transient, GivesUp, Unanswered
<1>5. CASE ProbeStart \/ ProbeEnd \/ Outage \/ Recover \/ Cancel \/ Close \/ Exit \/ Restart
  BY <1>5 DEF ProbeStart, ProbeEnd, Outage, Recover, Cancel, Close, Exit, Restart, destination
<1>6. CASE \/ \E i \in Lines : LateArrives(i)
           \/ \E k \in Keys \cup {Odd} : Expire(k)
  BY <1>6, <1>a DEF LateArrives, Expire
<1>7. CASE Crash
  BY <1>7, <1>b DEF Crash, Unanswered
<1> QED BY <1>1, <1>2, <1>3, <1>4, <1>5, <1>6, <1>7 DEF Next, Loop, Calls, Environment

FirstCopy(j) == \A m \in 1 .. j - 1 : input[store[m]] # input[store[j]]

LEMMA StopsGrow ==
  ASSUME TypeInv, [Next]_vars, stops' = 0
  PROVE  stops = 0
<1>1. CASE UNCHANGED vars
  BY <1>1 DEF vars, bounds
<1>2. CASE Scan \/ ScanFails \/ Ask \/ Take \/ Prepare \/ Try \/ BackedOff
  BY <1>2 DEF Scan, ScanFails, Ask, Take, Prepare, Try, BackedOff, bounds
<1>3. CASE Calls
  BY <1>3, CallKinds
<1>4. CASE ProbeStart \/ ProbeEnd \/ Outage \/ Recover \/ Cancel \/ Close \/ Exit \/ Crash
  BY <1>4 DEF ProbeStart, ProbeEnd, Outage, Recover, Cancel, Close, Exit, Crash, bounds
<1>5. CASE \/ \E i \in Lines : LateArrives(i)
           \/ \E k \in Keys \cup {Odd} : Expire(k)
  BY <1>5 DEF LateArrives, Expire, bounds
<1>6. CASE Restart
  BY <1>6 DEF Restart, TypeInv
<1> QED BY <1>1, <1>2, <1>3, <1>4, <1>5, <1>6 DEF Next, Loop, Calls, Environment

LEMMA FirstStep ==
  ASSUME SinkInv, OrderInv, FirstCopiesInOrder, [Next]_vars
  PROVE  FirstCopiesInOrder'
<1> USE DEF SinkInv
<1>1. input' = input /\ (stops' = 0 => stops = 0)
  BY StoreKinds, StopsGrow
<1> SUFFICES ASSUME stops = 0, NEW j \in DOMAIN store', NEW k \in DOMAIN store', j < k,
                    FirstCopy(j)', FirstCopy(k)'
             PROVE  store'[j] < store'[k]
  BY <1>1 DEF FirstCopiesInOrder, FirstCopy
<1>2. \A a, b \in DOMAIN store : a < b /\ FirstCopy(a) /\ FirstCopy(b) => store[a] < store[b]
  BY DEF FirstCopiesInOrder, FirstCopy
<1>3. CASE store' = store
  BY <1>1, <1>2, <1>3 DEF FirstCopy
<1>4. ASSUME NEW i \in Lines, Land(i), ~StoredKey(input[i]) => \A a \in Attempted : a <= i,
             store' # store
      PROVE  store'[j] < store'[k]
  <2> DEFINE n == Len(store)
  <2>1. /\ n \in Nat /\ DOMAIN store = 1 .. n /\ DOMAIN store' = 1 .. n + 1
        /\ \A m \in 1 .. n : store'[m] = store[m]
        /\ store'[n + 1] = i
    <3>1. n \in Nat /\ DOMAIN store = 1 .. n
      BY DEF TypeInv
    <3>2. /\ \A m \in DOMAIN store : store'[m] = store[m]
          /\ DOMAIN store' = DOMAIN store \cup {n + 1} /\ store'[n + 1] = i
      BY <1>4, LandEffect DEF TypeInv
    <3> QED BY <3>1, <3>2
  <2> HIDE DEF n
  <2>2. j \in 1 .. n /\ k \in 1 .. n + 1
    BY <2>1
  <2>3. \A m \in 1 .. n : FirstCopy(m)' => FirstCopy(m)
    <3> SUFFICES ASSUME NEW m \in 1 .. n, FirstCopy(m)', NEW x \in 1 .. m - 1
                 PROVE  input[store[x]] # input[store[m]]
      BY DEF FirstCopy
    <3>1. input'[store'[x]] # input'[store'[m]]
      BY DEF FirstCopy
    <3>2. x \in 1 .. n
      BY <2>1
    <3> QED BY <1>1, <2>1, <3>1, <3>2
  <2>4. CASE k \in 1 .. n
    BY <1>2, <2>1, <2>2, <2>3, <2>4
  <2>5. CASE k = n + 1
    <3>1. \A m \in 1 .. n : input[store[m]] # input[i]
      <4> SUFFICES ASSUME NEW m \in 1 .. n
                   PROVE  input[store[m]] # input[i]
        OBVIOUS
      <4>1. m \in 1 .. k - 1
        BY <2>1, <2>5
      <4>2. input'[store'[m]] # input'[store'[k]]
        BY <4>1 DEF FirstCopy
      <4> QED BY <1>1, <2>1, <2>5, <4>2
    <3>2. ~StoredKey(input[i])
      BY <2>1, <3>1 DEF StoredKey
    <3>3. store[j] <= i /\ store[j] # i /\ store[j] \in Int /\ i \in Int
      BY <1>4, <2>1, <2>2, <3>1, <3>2 DEF Attempted, TypeInv, Lines
    <3> QED BY <2>1, <2>2, <2>5, <3>3
  <2> QED BY <2>1, <2>2, <2>4, <2>5
<1> QED BY <1>3, <1>4, LandsInOrder

(***************************************************************************)
(* The destination gets the keys in the order of the input: nothing beyond *)
(* the line in hand is attempted, and the loop goes on only when its key   *)
(* is stored, so an attempt that arrives late finds its key or is last.    *)
(***************************************************************************)
THEOREM FirstInOrder == Spec => []FirstCopiesInOrder
<1>1. Init => OrderInv /\ FirstCopiesInOrder
  BY DEF Init, OrderInv, Attempted, FirstCopiesInOrder
<1>2. /\ SinkInv /\ OrderInv /\ FirstCopiesInOrder
      /\ [Next]_vars
      => OrderInv' /\ FirstCopiesInOrder'
  BY OrderStep, FirstStep
<1> QED BY <1>1, <1>2, SinkInvariant, PTL DEF Spec
=============================================================================
