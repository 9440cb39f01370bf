------------------------------- MODULE Fanout -------------------------------
(***************************************************************************)
(* The record transport (internal/transport): a producer's fan-out writer, *)
(* its accept loop, and the reconnecting readers of the sinks.  A producer *)
(* writes records 1, 2, ... and saves a cursor as in module Feed; a sink   *)
(* reads a line, stores it downstream and reads the next.  A step is one   *)
(* section under the writer's lock, one c.Write, one Accept, dial or read, *)
(* so both processes may stop between any two of them.                     *)
(*                                                                         *)
(* Abstractions.  A connection is a number, used once.  What was written   *)
(* to it stays in lines[c], of which the sink has read got[c]; the socket  *)
(* buffer has room for BufCap unread records.  A connection is open at the *)
(* producer's end while it is in the backlog, held by the accept loop or   *)
(* in conns, and at the sink's end while it is some sink's conn.           *)
(***************************************************************************)
EXTENDS Integers, Sequences, FiniteSets

CONSTANTS
  Sinks,
  Modes,         \* the values of block_until_consumer considered
  BufCap,        \* records a socket buffers
  MaxRecord,     \* bound: records produced
  MaxConns,      \* bound: connections dialled
  MaxStops,      \* bound: shutdowns and crashes of the producer
  MaxSinkStops   \* bound: crashes of sinks

ASSUME FanoutAssumption ==
  /\ Modes \subseteq BOOLEAN
  /\ BufCap \in Nat \ {0}
  /\ MaxRecord \in Nat /\ MaxConns \in Nat
  /\ MaxStops \in Nat /\ MaxSinkStops \in Nat

Records == 1 .. MaxRecord
Conns   == 1 .. MaxConns
None    == 0             \* no connection, no record
Torn    == 0             \* the first bytes of a line whose writing was cut off

VARIABLES
  \* the producer
  blockUntil,
  pc,        \* "down", waitForConns, between two writes, or a part of Write
  asleep,    \* in cond.Wait
  rec,       \* the record last handed to Write
  saved,     \* the durable cursor: the next process starts after it
  closed,
  conns,     \* the registered connections
  snapshot,  \* those Write has still to serve after target
  target,    \* the one it is writing to
  dead,      \* those whose Write failed
  delivered, \* did one succeed?
  held,      \* accepted and not registered yet
  \* the sockets
  dialled,   \* number of connections so far
  backlog,   \* dialled and not accepted yet
  lines, got,
  \* the sinks
  conn,      \* a sink's connection
  hand,      \* the record a sink has read and not stored yet
  store,     \* the records stored downstream
  stops, sinkStops

attempt  == <<snapshot, target, dead, delivered>>
producer == <<blockUntil, pc, asleep, rec, saved, closed, conns, attempt, held>>
sockets  == <<dialled, backlog, lines, got>>
sinks    == <<conn, hand, store>>
stopped  == <<stops, sinkStops>>
vars     == <<producer, sockets, sinks, stopped>>

Init ==
  /\ blockUntil \in Modes
  /\ pc = "down" /\ asleep = FALSE /\ rec = 0 /\ saved = 0
  /\ closed = FALSE /\ conns = {} /\ held = {}
  /\ snapshot = {} /\ target = None /\ dead = {} /\ delivered = FALSE
  /\ dialled = 0 /\ backlog = {}
  /\ lines = [c \in Conns |-> <<>>] /\ got = [c \in Conns |-> 0]
  /\ conn = [s \in Sinks |-> None] /\ hand = [s \in Sinks |-> None]
  /\ store = {}
  /\ stops = 0 /\ sinkStops = 0

Listening == pc # "down" /\ ~closed
ProducerEnd(c) == c \in conns \cup backlog \cup held
SinkEnd(c) == \E s \in Sinks : conn[s] = c
-----------------------------------------------------------------------------
(* The producer's process. *)

Open ==
  /\ pc = "down"
  /\ pc' = IF blockUntil THEN "open" ELSE "idle"
  /\ UNCHANGED <<blockUntil, asleep, rec, saved, closed, conns, attempt, held,
                 sockets, sinks, stopped>>

\* The process has ended: its sockets are closed and its memory is gone.
Gone ==
  /\ pc' = "down" /\ asleep' = FALSE /\ rec' = saved
  /\ closed' = FALSE /\ conns' = {} /\ held' = {} /\ backlog' = {}
  /\ snapshot' = {} /\ target' = None /\ dead' = {} /\ delivered' = FALSE
  /\ UNCHANGED <<blockUntil, saved, dialled, got, sinks, sinkStops>>

WaitForConns ==
  /\ pc = "open" /\ ~asleep
  /\ \/ /\ conns = {} /\ ~closed
        /\ asleep' = TRUE
        /\ UNCHANGED <<pc, rec, closed, conns, attempt, held, backlog, blockUntil,
                       saved, dialled, got, sinks, sinkStops>>
     \/ /\ conns # {} /\ ~closed
        /\ pc' = "idle"
        /\ UNCHANGED <<asleep, rec, closed, conns, attempt, held, backlog,
                       blockUntil, saved, dialled, got, sinks, sinkStops>>
     \/ closed /\ Gone
  /\ UNCHANGED <<lines, stops>>

\* The loops of the producers: records are written in order and the cursor
\* is saved between two writes.
Emit ==
  /\ pc = "idle" /\ rec < MaxRecord
  /\ rec' = rec + 1 /\ pc' = "write"
  /\ UNCHANGED <<blockUntil, asleep, saved, closed, conns, attempt, held, sockets,
                 sinks, stopped>>

Save ==
  /\ pc = "idle" /\ saved < rec
  /\ saved' = rec
  /\ UNCHANGED <<blockUntil, pc, asleep, rec, closed, conns, attempt, held,
                 sockets, sinks, stopped>>

\* The loop notices that its context is cancelled.
Finish == pc = "idle" /\ closed /\ Gone /\ UNCHANGED <<lines, stops>>

\* What is written to target may be cut off in the middle of the line.
MayTear ==
  \/ UNCHANGED lines
  \/ /\ pc = "send" /\ target \in conns
     /\ lines' = [lines EXCEPT ![target] = Append(@, Torn)]

Crash ==
  /\ pc # "down" /\ stops < MaxStops
  /\ Gone /\ MayTear
  /\ stops' = stops + 1

\* Mutated form of Shutdown: it wakes nobody.
Shutdown_NoBroadcast ==
  /\ pc # "down" /\ ~closed /\ stops < MaxStops
  /\ closed' = TRUE /\ conns' = {} /\ backlog' = {}
  /\ MayTear
  /\ stops' = stops + 1
  /\ UNCHANGED <<blockUntil, pc, asleep, rec, saved, attempt, held, dialled, got,
                 sinks, sinkStops>>

\* shutdown: the context is cancelled or Close is called.
Shutdown ==
  /\ pc # "down" /\ ~closed /\ stops < MaxStops
  /\ closed' = TRUE /\ conns' = {} /\ backlog' = {}
  /\ asleep' = FALSE
  /\ MayTear
  /\ stops' = stops + 1
  /\ UNCHANGED <<blockUntil, pc, rec, saved, attempt, held, dialled, got, sinks,
                 sinkStops>>
-----------------------------------------------------------------------------
(* Write. *)

\* The connections of rest are still to be served.
Serve(rest) ==
  \/ /\ rest = {}
     /\ pc' = "sweep" /\ snapshot' = {} /\ target' = None
  \/ \E c \in rest :
       /\ pc' = "send" /\ snapshot' = rest \ {c} /\ target' = c

\* The section under the lock: wait for a consumer, then take the snapshot.
BeginWrite ==
  /\ pc = "write" /\ ~asleep
  /\ \/ /\ conns = {} /\ blockUntil /\ ~closed
        /\ asleep' = TRUE
        /\ UNCHANGED <<pc, rec, closed, conns, attempt, held, backlog, blockUntil,
                       saved, dialled, got, sinks, sinkStops>>
     \/ /\ conns # {} \/ ~blockUntil
        /\ ~closed
        /\ Serve(conns)
        /\ dead' = {} /\ delivered' = FALSE
        /\ UNCHANGED <<asleep, rec, closed, conns, held, backlog, blockUntil,
                       saved, dialled, got, sinks, sinkStops>>
     \/ closed /\ Gone
  /\ UNCHANGED <<lines, stops>>

\* One c.Write, outside the lock: it blocks while the socket is full and fails
\* when either end is closed.
Send ==
  /\ pc = "send"
  /\ \/ /\ target \in conns /\ SinkEnd(target)
        /\ Len(lines[target]) - got[target] < BufCap
        /\ lines' = [lines EXCEPT ![target] = Append(@, rec)]
        /\ delivered' = TRUE
        /\ UNCHANGED dead
     \/ /\ target \notin conns \/ ~SinkEnd(target)
        /\ dead' = dead \cup {target}
        /\ UNCHANGED <<lines, delivered>>
  /\ Serve(snapshot)
  /\ UNCHANGED <<blockUntil, asleep, rec, saved, closed, conns, held, dialled,
                 backlog, got, sinks, stopped>>

\* Mutated form of Retry: a record some consumers have is sent again.
Retry_OnAnyFailure == dead # {} /\ blockUntil

\* Mutated form of Retry: a record nobody took counts as written.
Retry_Never == FALSE

Retry == ~delivered /\ blockUntil

\* The dead connections are dropped; Write starts over or returns.
Sweep ==
  /\ pc = "sweep"
  /\ conns' = conns \ dead
  /\ pc' = IF Retry THEN "write" ELSE "idle"
  /\ dead' = {} /\ delivered' = FALSE
  /\ UNCHANGED <<blockUntil, asleep, rec, saved, closed, snapshot, target, held,
                 sockets, sinks, stopped>>
-----------------------------------------------------------------------------
(* acceptLoop. *)

Accept ==
  /\ Listening /\ held = {}
  /\ \E c \in backlog : held' = {c} /\ backlog' = backlog \ {c}
  /\ UNCHANGED <<blockUntil, pc, asleep, rec, saved, closed, conns, attempt,
                 dialled, lines, got, sinks, stopped>>

\* Mutated form of Register: it wakes nobody.
Register_NoBroadcast ==
  /\ held # {}
  /\ conns' = IF closed THEN conns ELSE conns \cup held
  /\ held' = {}
  /\ UNCHANGED <<blockUntil, pc, asleep, rec, saved, closed, attempt, sockets,
                 sinks, stopped>>

\* Under the lock; a connection accepted before the shutdown is closed after it.
Register ==
  /\ held # {}
  /\ \/ closed /\ UNCHANGED <<conns, asleep>>
     \/ ~closed /\ conns' = conns \cup held /\ asleep' = FALSE
  /\ held' = {}
  /\ UNCHANGED <<blockUntil, pc, rec, saved, closed, attempt, sockets, sinks,
                 stopped>>
-----------------------------------------------------------------------------
(* A sink and its reconnectingReader. *)

Dial(s) ==
  /\ conn[s] = None /\ Listening /\ dialled < MaxConns
  /\ dialled' = dialled + 1
  /\ backlog' = backlog \cup {dialled + 1}
  /\ conn' = [conn EXCEPT ![s] = dialled + 1]
  /\ UNCHANGED <<producer, lines, got, hand, store, stopped>>

\* The lines a sink has not read yet, a torn one among them.
Unread(c) == {lines[c][i] : i \in got[c] + 1 .. Len(lines[c])}

Read(s) ==
  /\ conn[s] # None /\ hand[s] = None
  /\ Unread(conn[s]) \ {Torn} # {}
  /\ hand' = [hand EXCEPT ![s] = lines[conn[s]][got[conn[s]] + 1]]
  /\ got' = [got EXCEPT ![conn[s]] = @ + 1]
  /\ UNCHANGED <<producer, dialled, backlog, lines, conn, store, stopped>>

\* Mutated form of DropConn: what was received and not read is dropped too.
DropConn_Unread(s) ==
  /\ conn[s] # None /\ hand[s] = None
  /\ ~ProducerEnd(conn[s])
  /\ conn' = [conn EXCEPT ![s] = None]
  /\ UNCHANGED <<producer, sockets, hand, store, stopped>>

\* The end of the connection: a torn line is discarded, the next step redials.
DropConn(s) ==
  /\ conn[s] # None /\ hand[s] = None
  /\ ~ProducerEnd(conn[s]) /\ Unread(conn[s]) \subseteq {Torn}
  /\ conn' = [conn EXCEPT ![s] = None]
  /\ UNCHANGED <<producer, sockets, hand, store, stopped>>

\* The delivery to the sink's destination.
Store(s) ==
  /\ hand[s] # None
  /\ store' = store \cup {hand[s]}
  /\ hand' = [hand EXCEPT ![s] = None]
  /\ UNCHANGED <<producer, sockets, conn, stopped>>

SinkCrash(s) ==
  /\ conn[s] # None /\ sinkStops < MaxSinkStops
  /\ conn' = [conn EXCEPT ![s] = None] /\ hand' = [hand EXCEPT ![s] = None]
  /\ sinkStops' = sinkStops + 1
  /\ UNCHANGED <<producer, sockets, store, stops>>
-----------------------------------------------------------------------------
Writer ==
  \/ Open \/ WaitForConns \/ Emit \/ Save \/ Finish
  \/ BeginWrite \/ Send \/ Sweep
Acceptor == Accept \/ Register
Sink(s) == Dial(s) \/ Read(s) \/ DropConn(s) \/ Store(s)

Next ==
  \/ Writer \/ Acceptor \/ Shutdown \/ Crash
  \/ \E s \in Sinks : Sink(s) \/ SinkCrash(s)

Spec == Init /\ [][Next]_vars

(***************************************************************************)
(* Fairness.  The three kinds of goroutine keep running, a supervisor      *)
(* restarts a producer that ended, and readers dial for as long as they    *)
(* have no connection.                                                     *)
(***************************************************************************)
FairSpec ==
  /\ Spec
  /\ WF_vars(Writer) /\ WF_vars(Acceptor)
  /\ \A s \in Sinks : WF_vars(Sink(s))
-----------------------------------------------------------------------------
FlagTypeOK ==
  /\ blockUntil \in BOOLEAN /\ asleep \in BOOLEAN /\ closed \in BOOLEAN
  /\ delivered \in BOOLEAN

WriterTypeOK ==
  /\ pc \in {"down", "open", "idle", "write", "send", "sweep"}
  /\ asleep => pc \in {"open", "write"}
  /\ rec \in 0 .. MaxRecord /\ saved \in 0 .. rec
  /\ pc \in {"write", "send", "sweep"} => saved < rec
  /\ conns \subseteq Conns /\ held \subseteq Conns
  /\ snapshot \subseteq Conns /\ dead \subseteq Conns
  /\ target \in Conns \cup {None} /\ (pc = "send" <=> target # None)
  /\ delivered => pc \in {"send", "sweep"}

SocketTypeOK ==
  /\ dialled \in 0 .. MaxConns /\ backlog \subseteq Conns
  /\ lines \in [Conns -> Seq(Records \cup {Torn})]
  /\ got \in [Conns -> Nat]
  /\ \A c \in Conns : got[c] <= Len(lines[c])

SinkTypeOK ==
  /\ conn \in [Sinks -> Conns \cup {None}]
  /\ hand \in [Sinks -> Records \cup {None}]
  /\ store \subseteq Records
  /\ stops \in Nat /\ sinkStops \in Nat

(***************************************************************************)
(* Every variable has its type; a target, an outcome and an unsaved record *)
(* belong to a Write in progress, and a sink reads no further than what    *)
(* was written.                                                            *)
(***************************************************************************)
TypeOK == FlagTypeOK /\ WriterTypeOK /\ SocketTypeOK /\ SinkTypeOK

(***************************************************************************)
(* A closed writer holds no connection: one accepted while shutdown runs   *)
(* is closed too, so no sink waits on a connection nobody serves.          *)
(***************************************************************************)
ClosedHoldsNothing == closed => conns = {}

(***************************************************************************)
(* No wakeup is lost: who sleeps in cond.Wait has a reason to.  Both ends  *)
(* of the wait, a consumer that registers and a shutdown, broadcast.       *)
(***************************************************************************)
NoLostWakeup == asleep => conns = {} /\ ~closed

(***************************************************************************)
(* "A consumer that connects mid-stream receives the live tail": on one    *)
(* connection the records follow each other without a gap and without a    *)
(* repetition, also when Write starts over because other consumers died,   *)
(* and a torn line is the last thing on it.                                *)
(***************************************************************************)
LiveTail ==
  \A c \in Conns : \A i \in 1 .. Len(lines[c]) - 1 :
    /\ lines[c][i] # Torn
    /\ lines[c][i + 1] \in {lines[c][i] + 1, Torn}

\* A connection has taken record r.
Taken(r) == \E c \in Conns : \E i \in 1 .. Len(lines[c]) : lines[c][i] = r

(***************************************************************************)
(* With block_until_consumer the cursor never passes a record that no      *)
(* connection took (the lossless invariant in the comment of Write).       *)
(***************************************************************************)
SavedReachedAConsumer == blockUntil => \A r \in 1 .. saved : Taken(r)

\* Where a record is that is not lost: stored, or on its way to be stored.
Safe(r) ==
  \/ r \in store
  \/ \E s \in Sinks : hand[s] = r \/ (conn[s] # None /\ r \in Unread(conn[s]))

\* "A checkpoint plus a downstream sink that dedups gives end-to-end no-loss"
\* (design.md): what the cursor claims is stored or will be.
NoLoss == blockUntil => \A r \in 1 .. saved : Safe(r)

(***************************************************************************)
(* Shutdowns and crashes of the producer at any point, torn lines and      *)
(* reconnections lose nothing the cursor claims, as long as sinks live.    *)
(***************************************************************************)
LossNeedsSinkCrash == sinkStops = 0 => NoLoss

(***************************************************************************)
(* Nobody waits for ever: with block_until_consumer every record is in the *)
(* end stored, whatever stops and restarts of the producer come between    *)
(* (Write waits for a consumer and the accept loop wakes it).              *)
(***************************************************************************)
EveryRecordStored == blockUntil ~> (sinkStops > 0 \/ Records \subseteq store)
=============================================================================
