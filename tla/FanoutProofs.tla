---------------------------- MODULE FanoutProofs ----------------------------
(***************************************************************************)
(* What Fanout guarantees for any number of sinks, connections, records,   *)
(* stops and crashes.                                                      *)
(***************************************************************************)
EXTENDS FanoutFeed, TLAPS

USE FanoutAssumption DEF None, Torn

(***************************************************************************)
(* Appending one item to one connection keeps the types of the sockets.    *)
(***************************************************************************)
LEMMA AppendType ==
  ASSUME SocketTypeOK, NEW c \in Conns, NEW x \in Records \cup {Torn},
         lines' = [lines EXCEPT ![c] = Append(@, x)],
         dialled' = dialled, got' = got, backlog' \subseteq backlog
  PROVE  SocketTypeOK'
<1>1. lines[c] \in Seq(Records \cup {Torn})
  BY DEF SocketTypeOK
<1>2. /\ Append(lines[c], x) \in Seq(Records \cup {Torn})
      /\ Len(Append(lines[c], x)) = Len(lines[c]) + 1
  BY <1>1
<1>3. Len(lines[c]) \in Nat
  BY <1>1
<1>4. lines' \in [Conns -> Seq(Records \cup {Torn})]
  BY <1>2 DEF SocketTypeOK
<1>5. \A d \in Conns : got'[d] <= Len(lines'[d])
  BY <1>2, <1>3 DEF SocketTypeOK
<1> QED
  BY <1>4, <1>5 DEF SocketTypeOK

(***************************************************************************)
(* The cut-off of a line does, too.                                        *)
(***************************************************************************)
LEMMA TearType ==
  ASSUME TypeOK, MayTear, dialled' = dialled, got' = got, backlog' \subseteq backlog
  PROVE  SocketTypeOK'
<1>1. CASE UNCHANGED lines
  BY <1>1 DEF TypeOK, SocketTypeOK
<1>2. CASE target \in conns /\ lines' = [lines EXCEPT ![target] = Append(@, Torn)]
  BY <1>2, AppendType DEF TypeOK, WriterTypeOK
<1> QED
  BY <1>1, <1>2 DEF MayTear

(***************************************************************************)
(* The end of a process keeps the types.                                   *)
(***************************************************************************)
LEMMA GoneType ==
  ASSUME TypeOK, Gone, MayTear, stops' \in Nat
  PROVE  TypeOK'
<1>1. FlagTypeOK'
  BY DEF TypeOK, FlagTypeOK, Gone
<1>2. WriterTypeOK'
  BY DEF TypeOK, WriterTypeOK, Gone
<1>3. SocketTypeOK'
  BY TearType DEF Gone
<1>4. SinkTypeOK'
  BY DEF TypeOK, SinkTypeOK, Gone, sinks
<1> QED
  BY <1>1, <1>2, <1>3, <1>4 DEF TypeOK

LEMMA GoneTypeNoTear ==
  ASSUME TypeOK, Gone, UNCHANGED <<lines, stops>>
  PROVE  TypeOK'
BY GoneType DEF MayTear, TypeOK, SinkTypeOK

(***************************************************************************)
(* Serving the rest of a snapshot leaves Write at a target of it or done.  *)
(***************************************************************************)
LEMMA ServeType ==
  ASSUME NEW rest \in SUBSET Conns, Serve(rest)
  PROVE  /\ pc' \in {"send", "sweep"} /\ snapshot' \subseteq Conns
         /\ target' \in Conns \cup {None} /\ (pc' = "send" <=> target' # None)
<1>1. CASE rest = {}
  BY <1>1 DEF Serve
<1>2. CASE \E c \in rest : pc' = "send" /\ snapshot' = rest \ {c} /\ target' = c
  <2>1. PICK c \in rest : pc' = "send" /\ snapshot' = rest \ {c} /\ target' = c
    BY <1>2
  <2>2. c # None
    BY DEF Conns
  <2> QED
    BY <2>1, <2>2
<1> QED
  BY <1>1, <1>2 DEF Serve

(***************************************************************************)
(* The steps of Write keep the types.                                      *)
(***************************************************************************)
LEMMA BeginWriteType ==
  ASSUME TypeOK, BeginWrite
  PROVE  TypeOK'
<1> USE DEF TypeOK
<1>1. CASE closed /\ Gone
  BY <1>1, GoneTypeNoTear DEF BeginWrite
<1>2. CASE conns = {} /\ asleep' = TRUE /\ UNCHANGED <<pc, rec, closed, conns,
             attempt, held, backlog, blockUntil, saved, dialled, got, sinks, sinkStops>>
  <2> USE <1>2 DEF BeginWrite, attempt
  <2>1. FlagTypeOK'
    BY DEF FlagTypeOK
  <2>2. WriterTypeOK'
    BY DEF WriterTypeOK
  <2>3. SocketTypeOK' /\ SinkTypeOK'
    BY DEF SocketTypeOK, SinkTypeOK, sinks
  <2> QED
    BY <2>1, <2>2, <2>3
<1>3. CASE Serve(conns) /\ dead' = {} /\ delivered' = FALSE
             /\ UNCHANGED <<asleep, rec, closed, conns, held, backlog, blockUntil,
                            saved, dialled, got, sinks, sinkStops>>
  <2> USE <1>3 DEF BeginWrite
  <2>1. FlagTypeOK'
    BY DEF FlagTypeOK
  <2>2. WriterTypeOK'
    BY ServeType DEF WriterTypeOK
  <2>3. SocketTypeOK' /\ SinkTypeOK'
    BY DEF SocketTypeOK, SinkTypeOK, sinks
  <2> QED
    BY <2>1, <2>2, <2>3
<1> QED
  BY <1>1, <1>2, <1>3 DEF BeginWrite

LEMMA SendType ==
  ASSUME TypeOK, Send
  PROVE  TypeOK'
<1> USE DEF TypeOK, Send
<1>1. target \in Conns /\ rec \in Records
  BY DEF WriterTypeOK, Records
<1>2. FlagTypeOK'
  BY DEF FlagTypeOK
<1>3. WriterTypeOK'
  BY <1>1, ServeType DEF WriterTypeOK
<1>4. SocketTypeOK'
  BY <1>1, AppendType DEF SocketTypeOK
<1>5. SinkTypeOK'
  BY DEF SinkTypeOK, sinks, stopped
<1> QED
  BY <1>2, <1>3, <1>4, <1>5

(***************************************************************************)
(* The steps of a sink keep the types.                                     *)
(***************************************************************************)
LEMMA ReadType ==
  ASSUME TypeOK, NEW s \in Sinks, Read(s)
  PROVE  TypeOK'
<1> DEFINE c == conn[s]
<1>1. c \in Conns
  BY DEF Read, TypeOK, SinkTypeOK
<1>2. lines[c] \in Seq(Records \cup {Torn}) /\ got[c] \in Nat
  BY <1>1 DEF TypeOK, SocketTypeOK
<1>3. PICK i \in got[c] + 1 .. Len(lines[c]) : lines[c][i] # Torn
  BY DEF Read, Unread
<1>4. got[c] + 1 \in 1 .. Len(lines[c])
  BY <1>2, <1>3
<1>5. lines[c][got[c] + 1] \in Records \cup {None}
  BY <1>2, <1>4
<1>6. SocketTypeOK'
  BY <1>1, <1>2, <1>4 DEF Read, TypeOK, SocketTypeOK
<1>7. SinkTypeOK'
  BY <1>5 DEF Read, TypeOK, SinkTypeOK, stopped
<1>8. FlagTypeOK' /\ WriterTypeOK'
  BY DEF Read, TypeOK, FlagTypeOK, WriterTypeOK, producer, attempt
<1> QED
  BY <1>6, <1>7, <1>8 DEF TypeOK

LEMMA SinkType ==
  ASSUME TypeOK, NEW s \in Sinks, Sink(s) \/ SinkCrash(s)
  PROVE  TypeOK'
<1> USE DEF TypeOK
<1>1. CASE Read(s)
  BY <1>1, ReadType
<1>2. CASE Dial(s)
  <2> USE <1>2 DEF Dial
  <2>1. dialled + 1 \in Conns
    BY DEF SocketTypeOK, Conns
  <2>2. FlagTypeOK' /\ WriterTypeOK'
    BY DEF FlagTypeOK, WriterTypeOK, producer, attempt
  <2>3. SocketTypeOK' /\ SinkTypeOK'
    BY <2>1 DEF SocketTypeOK, SinkTypeOK, stopped
  <2> QED
    BY <2>2, <2>3
<1>3. CASE DropConn(s) \/ Store(s) \/ SinkCrash(s)
  <2> USE <1>3 DEF DropConn, Store, SinkCrash
  <2>1. FlagTypeOK' /\ WriterTypeOK'
    BY DEF FlagTypeOK, WriterTypeOK, producer, attempt
  <2>2. SocketTypeOK'
    BY DEF SocketTypeOK, sockets
  <2>3. SinkTypeOK'
    BY DEF SinkTypeOK, stopped
  <2> QED
    BY <2>1, <2>2, <2>3
<1> QED
  BY <1>1, <1>2, <1>3 DEF Sink

(***************************************************************************)
(* The type invariant.                                                     *)
(***************************************************************************)
LEMMA InitType == Init => TypeOK
<1> USE DEF Init, TypeOK
<1>1. Init => FlagTypeOK
  BY DEF FlagTypeOK
<1>2. Init => WriterTypeOK
  BY DEF WriterTypeOK
<1>3. Init => SocketTypeOK
  BY DEF SocketTypeOK, Conns
<1>4. Init => SinkTypeOK
  BY DEF SinkTypeOK
<1> QED
  BY <1>1, <1>2, <1>3, <1>4

LEMMA NextType == TypeOK /\ [Next]_vars => TypeOK'
<1> SUFFICES ASSUME TypeOK, [Next]_vars PROVE TypeOK'
  OBVIOUS
<1> USE DEF TypeOK
<1>1. CASE Open \/ Emit \/ Save \/ Sweep \/ Acceptor \/ UNCHANGED vars
  <2> USE <1>1 DEF Open, Emit, Save, Sweep, Acceptor, Accept, Register, vars,
      producer, attempt, sockets, sinks, stopped
  <2>1. FlagTypeOK'
    BY DEF FlagTypeOK
  <2>2. WriterTypeOK'
    BY DEF WriterTypeOK, SocketTypeOK
  <2>3. SocketTypeOK'
    BY DEF SocketTypeOK
  <2>4. SinkTypeOK'
    BY DEF SinkTypeOK
  <2> QED
    BY <2>1, <2>2, <2>3, <2>4
<1>2. CASE WaitForConns
  <2>1. CASE closed /\ Gone
    BY <1>2, <2>1, GoneTypeNoTear DEF WaitForConns
  <2>2. CASE ~(closed /\ Gone)
    <3> USE <1>2, <2>2 DEF WaitForConns, attempt, sinks
    <3>1. FlagTypeOK'
      BY DEF FlagTypeOK
    <3>2. WriterTypeOK'
      BY DEF WriterTypeOK
    <3>3. SocketTypeOK' /\ SinkTypeOK'
      BY DEF SocketTypeOK, SinkTypeOK
    <3> QED
      BY <3>1, <3>2, <3>3
  <2> QED
    BY <2>1, <2>2
<1>3. CASE Finish
  BY <1>3, GoneTypeNoTear DEF Finish
<1>4. CASE BeginWrite
  BY <1>4, BeginWriteType
<1>5. CASE Send
  BY <1>5, SendType
<1>6. CASE Shutdown
  <2> USE <1>6 DEF Shutdown
  <2>1. FlagTypeOK' /\ WriterTypeOK'
    BY DEF FlagTypeOK, WriterTypeOK, attempt
  <2>2. SocketTypeOK'
    BY TearType
  <2>3. SinkTypeOK'
    BY DEF SinkTypeOK, sinks
  <2> QED
    BY <2>1, <2>2, <2>3
<1>7. CASE Crash
  BY <1>7, GoneType DEF Crash, SinkTypeOK
<1>8. ASSUME NEW s \in Sinks, Sink(s) \/ SinkCrash(s) PROVE TypeOK'
  BY <1>8, SinkType
<1> QED
  BY <1>1, <1>2, <1>3, <1>4, <1>5, <1>6, <1>7, <1>8 DEF Next, Writer

THEOREM FanoutTypeCorrect == Spec => []TypeOK
BY InitType, NextType, PTL DEF Spec
-----------------------------------------------------------------------------
(***************************************************************************)
(* Who sleeps has a reason to, and a closed writer holds no connection.    *)
(***************************************************************************)
LockInv == NoLostWakeup /\ ClosedHoldsNothing

LEMMA NextLock == TypeOK /\ LockInv /\ [Next]_vars => LockInv'
<1> SUFFICES ASSUME TypeOK, LockInv, [Next]_vars PROVE LockInv'
  OBVIOUS
<1> USE DEF LockInv, NoLostWakeup, ClosedHoldsNothing
<1>1. CASE Open \/ WaitForConns \/ Emit \/ Save \/ Finish \/ BeginWrite \/ Send
  BY <1>1 DEF Open, WaitForConns, Emit, Save, Finish, BeginWrite, Send, Gone
<1>2. CASE Sweep \/ Acceptor \/ Shutdown \/ Crash
  BY <1>2 DEF Sweep, Acceptor, Accept, Register, Shutdown, Crash, Gone
<1>3. ASSUME UNCHANGED producer PROVE LockInv'
  BY <1>3 DEF producer
<1>4. ASSUME NEW s \in Sinks, Sink(s) \/ SinkCrash(s) PROVE UNCHANGED producer
  BY <1>4 DEF Sink, Dial, Read, DropConn, Store, SinkCrash
<1> QED
  BY <1>1, <1>2, <1>3, <1>4 DEF Next, Writer, vars

(***************************************************************************)
(* No wakeup is lost: both ends of cond.Wait's condition broadcast.        *)
(***************************************************************************)
THEOREM WakeupsKept == Spec => []NoLostWakeup
<1>1. Init => LockInv
  BY DEF Init, LockInv, NoLostWakeup, ClosedHoldsNothing
<1> QED
  BY <1>1, NextLock, FanoutTypeCorrect, PTL DEF Spec, LockInv

(***************************************************************************)
(* A connection accepted while the writer is closed is never registered.   *)
(***************************************************************************)
THEOREM ClosedEmpty == Spec => []ClosedHoldsNothing
<1>1. Init => LockInv
  BY DEF Init, LockInv, NoLostWakeup, ClosedHoldsNothing
<1> QED
  BY <1>1, NextLock, FanoutTypeCorrect, PTL DEF Spec, LockInv
-----------------------------------------------------------------------------
(***************************************************************************)
(* Lossless writing: which records have been taken by a connection at      *)
(* every point of Write.                                                   *)
(***************************************************************************)
\* The last record that Write has to answer for.
Answered ==
  IF pc \in {"write", "send", "sweep"} /\ ~delivered THEN rec - 1 ELSE rec

TakenInv == blockUntil => \A r \in 1 .. Answered : Taken(r)

(***************************************************************************)
(* What a connection has taken it keeps: lines only grow.                  *)
(***************************************************************************)
LEMMA TakenStays ==
  ASSUME TypeOK, NEW c \in Conns, NEW x \in Records \cup {Torn},
         lines' = [lines EXCEPT ![c] = Append(@, x)]
  PROVE  Taken(x)' /\ \A r : Taken(r) => Taken(r)'
<1>1. lines[c] \in Seq(Records \cup {Torn}) /\ lines \in [Conns -> Seq(Records \cup {Torn})]
  BY DEF TypeOK, SocketTypeOK
<1>2. /\ Len(lines'[c]) = Len(lines[c]) + 1
      /\ lines'[c][Len(lines[c]) + 1] = x
      /\ \A i \in 1 .. Len(lines[c]) : lines'[c][i] = lines[c][i]
      /\ Len(lines[c]) \in Nat
  BY <1>1
<1>3. Taken(x)'
  BY <1>2 DEF Taken
<1>4. ASSUME NEW r, Taken(r) PROVE Taken(r)'
  <2>1. PICK d \in Conns : \E i \in 1 .. Len(lines[d]) : lines[d][i] = r
    BY <1>4 DEF Taken
  <2>2. PICK i \in 1 .. Len(lines[d]) : lines[d][i] = r
    BY <2>1
  <2>3. CASE d = c
    BY <2>2, <2>3, <1>2 DEF Taken
  <2>4. CASE d # c
    BY <2>2, <2>4, <1>1 DEF Taken
  <2> QED
    BY <2>3, <2>4
<1> QED
  BY <1>3, <1>4

LEMMA TearTaken ==
  ASSUME TypeOK, MayTear, NEW r, Taken(r)
  PROVE  Taken(r)'
<1>1. CASE UNCHANGED lines
  BY <1>1 DEF Taken
<1>2. CASE target \in conns /\ lines' = [lines EXCEPT ![target] = Append(@, Torn)]
  BY <1>2, TakenStays DEF TypeOK, WriterTypeOK
<1> QED
  BY <1>1, <1>2 DEF MayTear

LEMMA NextTaken == TypeOK /\ TakenInv /\ [Next]_vars => TakenInv'
<1> SUFFICES ASSUME TypeOK, TakenInv, [Next]_vars, blockUntil',
                    NEW r \in 1 .. Answered'
             PROVE  Taken(r)'
  BY DEF TakenInv
<1>1. blockUntil
  BY DEF Next, Writer, Open, WaitForConns, Emit, Save, Finish, BeginWrite, Send,
     Sweep, Acceptor, Accept, Register, Shutdown, Crash, Gone, Sink, Dial, Read,
     DropConn, Store, SinkCrash, vars, producer
<1>2. /\ saved <= Answered /\ rec \in Nat /\ saved \in Nat /\ Answered \in Int
      /\ Answered' \in Int /\ r \in Int
  <2>1. TypeOK'
    BY NextType
  <2> QED
    BY <2>1 DEF TypeOK, WriterTypeOK, Answered
<1>3. \A q \in 1 .. Answered : Taken(q)
  BY <1>1 DEF TakenInv
<1>4. ASSUME UNCHANGED lines, Answered' <= Answered PROVE Taken(r)'
  <2>1. r \in 1 .. Answered
    BY <1>2, <1>4
  <2>2. Taken(r)
    BY <1>3, <2>1
  <2>3. PICK c \in Conns : \E i \in 1 .. Len(lines[c]) : lines[c][i] = r
    BY <2>2 DEF Taken
  <2>4. \E i \in 1 .. Len(lines'[c]) : lines'[c][i] = r
    BY <1>4, <2>3
  <2> QED
    BY <2>3, <2>4 DEF Taken
<1>5. CASE Open \/ Save \/ Accept \/ Register
  <2>1. ASSUME UNCHANGED <<pc, rec, delivered, lines>> PROVE Taken(r)'
    BY <2>1, <1>2, <1>4 DEF Answered
  <2>2. CASE Save \/ Accept \/ Register
    BY <2>1, <2>2 DEF Save, Accept, Register, attempt, sockets
  <2>3. CASE Open
    <3>1. Answered' = Answered
      BY <2>3 DEF Open, Answered
    <3> QED
      BY <2>3, <3>1, <1>2, <1>4 DEF Open, sockets
  <2> QED
    BY <1>5, <2>2, <2>3
<1>6. CASE Emit
  BY <1>4, <1>6, <1>2 DEF Emit, Answered, attempt, sockets, TypeOK, WriterTypeOK
<1>7. ASSUME Gone PROVE Answered' <= Answered
  BY <1>7, <1>2 DEF Gone, Answered
<1>8. CASE WaitForConns
  <2>1. Gone \/ Answered' = Answered
    BY <1>8 DEF WaitForConns, Answered, attempt
  <2> QED
    BY <2>1, <1>2, <1>4, <1>7, <1>8 DEF WaitForConns
<1>9. CASE Finish
  BY <1>4, <1>7, <1>9 DEF Finish
<1>10. CASE BeginWrite
  <2>1. pc = "write" /\ ~delivered
    BY <1>10 DEF BeginWrite, TypeOK, WriterTypeOK
  <2>2. Gone \/ (rec' = rec /\ pc' \in {"write", "send", "sweep"} /\ ~delivered')
    BY <2>1, <1>10 DEF BeginWrite, Serve, attempt
  <2>3. Gone \/ Answered' = Answered
    BY <2>1, <2>2 DEF Answered
  <2> QED
    BY <2>3, <1>2, <1>4, <1>7, <1>10 DEF BeginWrite
<1>11. CASE Send
  <2>1. target \in Conns /\ rec \in Records
    BY <1>11 DEF Send, TypeOK, WriterTypeOK, Records
  <2>2. CASE lines' = [lines EXCEPT ![target] = Append(@, rec)]
    <3>1. PICK n \in Records : n = rec
      BY <2>1
    <3>2. Taken(n)' /\ \A q : Taken(q) => Taken(q)'
      BY <2>1, <2>2, <3>1, TakenStays
    <3>3. r = n \/ r \in 1 .. Answered
      BY <1>11, <1>2, <3>1 DEF Send, Answered, TypeOK, WriterTypeOK
    <3> QED
      BY <1>3, <3>2, <3>3
  <2>3. CASE UNCHANGED <<lines, delivered>>
    <3>1. Answered' = Answered
      BY <1>11, <2>3 DEF Send, Serve, Answered
    <3> QED
      BY <2>3, <3>1, <1>4, <1>2
  <2> QED
    BY <2>2, <2>3, <1>11 DEF Send
<1>12. CASE Sweep
  <2>1. Answered' = Answered
    BY <1>12, <1>1, <1>2 DEF Sweep, Retry, Answered, TypeOK, FlagTypeOK
  <2> QED
    BY <2>1, <1>4, <1>12, <1>2 DEF Sweep, sockets
<1>13. CASE Shutdown
  BY <1>13, <1>3, TearTaken DEF Shutdown, Answered, attempt
<1>14. CASE Crash
  BY <1>14, <1>3, <1>7, <1>2, TearTaken DEF Crash
<1>15. ASSUME UNCHANGED <<producer, lines>> PROVE Taken(r)'
  BY <1>15, <1>4, <1>2 DEF producer, attempt, Answered
<1>16. ASSUME NEW s \in Sinks, Sink(s) \/ SinkCrash(s) PROVE UNCHANGED <<producer, lines>>
  BY <1>16 DEF Sink, Dial, Read, DropConn, Store, SinkCrash, sockets
<1> QED
  BY <1>5, <1>6, <1>8, <1>9, <1>10, <1>11, <1>12, <1>13, <1>14, <1>15, <1>16
     DEF Next, Writer, Acceptor, vars, sockets

(***************************************************************************)
(* The cursor never passes a record that no connection took.               *)
(***************************************************************************)
LEMMA TakenLemma == Spec => []TakenInv
<1>1. Init => TakenInv
  BY DEF Init, TakenInv, Answered
<1> QED
  BY <1>1, NextTaken, FanoutTypeCorrect, PTL DEF Spec

THEOREM SavedIsTaken == Spec => []SavedReachedAConsumer
<1>1. TypeOK /\ TakenInv => SavedReachedAConsumer
  BY DEF TypeOK, WriterTypeOK, TakenInv, Answered, Taken, SavedReachedAConsumer
<1> QED
  BY <1>1, TakenLemma, FanoutTypeCorrect, PTL

(***************************************************************************)
(* The feed behind the socket.  A torn line gives nobody a record, and a   *)
(* step that writes no line and saves no cursor is a stutter.              *)
(***************************************************************************)
LEMMA TearGivesNothing ==
  ASSUME TypeOK, MayTear
  PROVE  UNCHANGED takenPairs
<1>1. ASSUME NEW r \in Records, Taken(r)' PROVE Taken(r)
  <2>1. CASE UNCHANGED lines
    BY <1>1, <2>1 DEF Taken
  <2>2. CASE target \in conns /\ lines' = [lines EXCEPT ![target] = Append(@, Torn)]
    <3>1. target \in Conns /\ lines[target] \in Seq(Records \cup {Torn})
          /\ lines \in [Conns -> Seq(Records \cup {Torn})]
      BY <2>2 DEF TypeOK, WriterTypeOK, SocketTypeOK
    <3>2. PICK c \in Conns : \E i \in 1 .. Len(lines'[c]) : lines'[c][i] = r
      BY <1>1 DEF Taken
    <3>3. PICK i \in 1 .. Len(lines'[c]) : lines'[c][i] = r
      BY <3>2
    <3>4. CASE c # target
      BY <2>2, <3>1, <3>3, <3>4 DEF Taken
    <3>5. CASE c = target
      <4>1. lines'[c] = Append(lines[c], Torn)
        BY <2>2, <3>1, <3>5
      <4>2. r # Torn
        BY DEF Records
      <4>3. i \in 1 .. Len(lines[c]) /\ lines[c][i] = r
        BY <3>1, <3>3, <3>5, <4>1, <4>2
      <4> QED
        BY <4>3 DEF Taken
    <3> QED
      BY <3>4, <3>5
  <2> QED
    BY <2>1, <2>2 DEF MayTear
<1>2. \A r \in Records : Taken(r) <=> Taken(r)'
  BY <1>1, TearTaken
<1> QED
  BY <1>2 DEF takenPairs

LEMMA QuietIsStutter ==
  ASSUME UNCHANGED <<lines, saved>>
  PROVE  UNCHANGED F!vars
  BY DEF F!vars, takenPairs, Taken

(***************************************************************************)
(* A record given for the first time has its predecessors given, and so    *)
(* has a record given again.                                               *)
(***************************************************************************)
LEMMA SendIsFeed ==
  ASSUME TypeOK, TakenInv, blockUntil, Send
  PROVE  [F!Next]_F!vars
<1>1. pc = "send" /\ saved' = saved /\ target \in Conns /\ rec \in Records
  BY DEF Send, TypeOK, WriterTypeOK, Records
<1>2. CASE UNCHANGED lines
  BY <1>1, <1>2, QuietIsStutter
<1>3. CASE lines' = [lines EXCEPT ![target] = Append(@, rec)]
  <2>1. PICK n \in Records : n = rec
    BY <1>1
  <2>2. Taken(n)' /\ \A r : Taken(r) => Taken(r)'
    BY <1>1, <1>3, <2>1, TakenStays
  <2>3. ASSUME NEW r \in Records, Taken(r)' PROVE r = n \/ Taken(r)
    <3>1. lines \in [Conns -> Seq(Records \cup {Torn})] /\ lines[target] \in Seq(Records \cup {Torn})
      BY <1>1 DEF TypeOK, SocketTypeOK
    <3>2. PICK c \in Conns : \E i \in 1 .. Len(lines'[c]) : lines'[c][i] = r
      BY <2>3 DEF Taken
    <3>3. PICK i \in 1 .. Len(lines'[c]) : lines'[c][i] = r
      BY <3>2
    <3>4. CASE c # target
      BY <1>3, <3>1, <3>3, <3>4 DEF Taken
    <3>5. CASE c = target
      <4>1. lines'[c] = Append(lines[c], n) /\ lines[c] \in Seq(Records \cup {Torn})
        BY <1>3, <2>1, <3>1, <3>5
      <4>2. r = n \/ (i \in 1 .. Len(lines[c]) /\ lines[c][i] = r)
        BY <3>3, <4>1
      <4> QED
        BY <4>2 DEF Taken
    <3> QED
      BY <3>4, <3>5
  <2>4. takenPairs' = takenPairs \cup ({"record"} \X (n .. n))
    <3>1. n .. n = {n}
      BY DEF Records
    <3>2. {r \in Records : Taken(r)}' = {r \in Records : Taken(r)} \cup {n}
      BY <2>2, <2>3
    <3> QED
      BY <3>1, <3>2 DEF takenPairs
  <2>5. F!SentBelow("record", n)
    <3> SUFFICES ASSUME NEW h \in 1 .. n - 1
                 PROVE  h \in Records /\ Taken(h)
      BY DEF F!SentBelow, takenPairs
    <3>1. h \in 1 .. Answered /\ h \in Records
      BY <1>1, <2>1 DEF Answered, Records
    <3> QED
      BY <3>1 DEF TakenInv
  <2>6. F!Send("record", n, n) /\ n \in 0 .. MaxRecord
    BY <1>1, <2>4, <2>5 DEF F!Send, Records
  <2> QED
    BY <2>6 DEF F!Next
<1> QED
  BY <1>2, <1>3 DEF Send

LEMMA StepIsFeed ==
  ASSUME TypeOK, TakenInv, blockUntil, [Next]_vars
  PROVE  [F!Next]_F!vars
<1>1. CASE Send
  BY <1>1, SendIsFeed
<1>2. CASE Save
  <2>1. pc = "idle" /\ saved' = rec /\ UNCHANGED lines /\ rec \in Nat /\ rec <= MaxRecord
    BY <1>2 DEF Save, sockets, TypeOK, WriterTypeOK
  <2>2. \A h \in 1 .. rec : h \in Records /\ Taken(h)
    BY <2>1 DEF TakenInv, Answered, Records
  <2>3. F!SentBelow("record", saved' + 1)
    BY <2>1, <2>2 DEF F!SentBelow, takenPairs
  <2>4. UNCHANGED takenPairs
    BY <2>1 DEF takenPairs, Taken
  <2>5. F!Commit
    BY <2>1, <2>3, <2>4 DEF F!Commit, F!SentBelow
  <2> QED
    BY <2>5 DEF F!Next
<1>3. CASE Crash \/ Shutdown
  <2>1. saved' = saved /\ MayTear
    BY <1>3 DEF Crash, Shutdown, Gone
  <2> QED
    BY <2>1, TearGivesNothing DEF F!vars
<1>4. CASE \/ Open \/ WaitForConns \/ Emit \/ Finish \/ BeginWrite \/ Sweep \/ Accept \/ Register
           \/ \E s \in Sinks : Sink(s) \/ SinkCrash(s)
           \/ UNCHANGED vars
  <2>1. UNCHANGED <<lines, saved>>
    BY <1>4 DEF Open, WaitForConns, Emit, Finish, BeginWrite, Sweep, Accept, Register, Gone, Sink,
       Dial, Read, DropConn, Store, SinkCrash, vars, producer, sockets
  <2> QED
    BY <2>1, QuietIsStutter
<1> QED
  BY <1>1, <1>2, <1>3, <1>4 DEF Next, Writer, Acceptor

(***************************************************************************)
(* With block_until_consumer the transport passes on what it is given: the *)
(* records taken from it form an ordered feed without gaps, and the        *)
(* producer's cursor is a cursor of that feed.                             *)
(***************************************************************************)
THEOREM FanoutImplementsFeed == Spec => LosslessFeed
<1>1. Init => F!Init
  BY DEF Init, F!Init, takenPairs, Taken
<1>2. TypeOK /\ TakenInv /\ [Next]_vars => [blockUntil => F!Next]_F!vars
  BY StepIsFeed
<1> QED
  BY <1>1, <1>2, TakenLemma, FanoutTypeCorrect, PTL DEF Spec, LosslessFeed
-----------------------------------------------------------------------------
(***************************************************************************)
(* Order on a connection.  LastIs(c, n): the last line on c is record n,   *)
(* or nothing has been written to it.                                      *)
(***************************************************************************)
LastIs(c, n) == lines[c] = <<>> \/ (lines[c][Len(lines[c])] = n /\ n # Torn)

\* Those Write is serving or has still to serve.
Pending == snapshot \cup {target}

\* A connection is written to only after it was registered, and each is in one
\* place.
FreshInv ==
  /\ \A c \in backlog \cup held : lines[c] = <<>>
  /\ \A c \in Conns : c > dialled => lines[c] = <<>>
  /\ backlog \cup held \cup conns \cup dead \cup snapshot \subseteq 0 .. dialled
  /\ target <= dialled
  /\ (conns \cup dead \cup snapshot \cup {target}) \cap (backlog \cup held) = {}
  /\ backlog \cap held = {}

\* While a Write is in progress: its snapshot is served one by one, and who is
\* neither pending nor dead has the record if anyone has it.
ServeInv ==
  /\ target \notin snapshot /\ dead \cap Pending = {}
  /\ pc \in {"open", "idle"} => \A c \in conns : LastIs(c, rec)
  /\ pc = "write" => \A c \in conns : LastIs(c, rec - 1)
  /\ pc = "send" => \A c \in conns \cap Pending : LastIs(c, rec - 1)
  /\ pc \in {"send", "sweep"} =>
       \A c \in conns \ (Pending \cup dead) :
         LastIs(c, rec) /\ (~delivered => lines[c] = <<>>)
  /\ pc # "send" => snapshot = {}
  /\ pc \notin {"send", "sweep"} => dead = {}
  /\ pc = "down" => conns = {} /\ held = {}

(***************************************************************************)
(* Appending to a connection whose last line is n.                         *)
(***************************************************************************)
LEMMA AppendTail ==
  ASSUME TypeOK, LiveTail, NEW c \in Conns, NEW n \in Int, LastIs(c, n),
         NEW x \in Records \cup {Torn}, x \in {n + 1, Torn},
         lines' = [lines EXCEPT ![c] = Append(@, x)]
  PROVE  /\ LiveTail'
         /\ lines'[c][Len(lines'[c])] = x
         /\ \A d \in Conns : d # c => lines'[d] = lines[d]
<1>1. lines[c] \in Seq(Records \cup {Torn}) /\ lines \in [Conns -> Seq(Records \cup {Torn})]
  BY DEF TypeOK, SocketTypeOK
<1>2. /\ Len(lines'[c]) = Len(lines[c]) + 1
      /\ lines'[c][Len(lines[c]) + 1] = x
      /\ \A i \in 1 .. Len(lines[c]) : lines'[c][i] = lines[c][i]
      /\ Len(lines[c]) \in Nat
  BY <1>1
<1>3. \A d \in Conns : d # c => lines'[d] = lines[d]
  BY <1>1
<1>4. ASSUME NEW i \in 1 .. Len(lines'[c]) - 1
      PROVE  lines'[c][i] # Torn /\ lines'[c][i + 1] \in {lines'[c][i] + 1, Torn}
  <2>1. CASE i < Len(lines[c])
    BY <1>2, <1>4, <2>1 DEF LiveTail
  <2>2. CASE i = Len(lines[c])
    <3>1. lines[c] # <<>>
      BY <1>2, <1>4, <2>2
    <3> QED
      BY <1>2, <2>2, <3>1 DEF LastIs
  <2> QED
    BY <1>2, <1>4, <2>1, <2>2
<1>5. LiveTail'
  BY <1>3, <1>4 DEF LiveTail
<1> QED
  BY <1>2, <1>3, <1>5

(***************************************************************************)
(* What a step may do to the lines at all: append to the target of a       *)
(* Write, if it is registered.                                             *)
(***************************************************************************)
LEMMA LinesStep ==
  ASSUME TypeOK, [Next]_vars
  PROVE  \/ UNCHANGED lines
         \/ /\ pc = "send" /\ target \in conns
            /\ \E x \in {rec, Torn} : lines' = [lines EXCEPT ![target] = Append(@, x)]
BY DEF Next, Writer, Open, WaitForConns, Emit, Save, Finish, BeginWrite, Send, Sweep,
   Acceptor, Accept, Register, Shutdown, Crash, MayTear, Sink, Dial, Read, DropConn,
   Store, SinkCrash, vars, sockets

LEMMA OtherLines ==
  ASSUME TypeOK, [Next]_vars, NEW c \in Conns, c # target \/ c \notin conns
  PROVE  lines'[c] = lines[c]
BY LinesStep DEF TypeOK, SocketTypeOK

(***************************************************************************)
(* Registered connections, and only those, are written to.                 *)
(***************************************************************************)
LEMMA NextFresh == TypeOK /\ FreshInv /\ [Next]_vars => FreshInv'
<1> SUFFICES ASSUME TypeOK, FreshInv, [Next]_vars PROVE FreshInv'
  OBVIOUS
<1>0. dialled \in Nat /\ Conns \subseteq Int /\ conns \subseteq Conns
      /\ target \in Conns \cup {None}
      /\ held \cup backlog \cup dead \cup snapshot \subseteq Conns
  BY DEF TypeOK, WriterTypeOK, SocketTypeOK, Conns
<1>1. /\ \A c \in backlog \cup held : lines'[c] = <<>>
      /\ \A c \in Conns : c > dialled => lines'[c] = <<>>
  <2>1. \A c \in Conns : c \notin conns => lines'[c] = lines[c]
    BY OtherLines
  <2>2. \A c \in Conns : c \in backlog \cup held \/ c > dialled => c \notin conns
    BY <1>0 DEF FreshInv
  <2> QED
    BY <1>0, <2>1, <2>2 DEF FreshInv
<1>2. ASSUME UNCHANGED <<conns, dead, snapshot, target, backlog, held, dialled>>
      PROVE  FreshInv'
  BY <1>1, <1>2 DEF FreshInv
<1>3. CASE Open \/ WaitForConns \/ Emit \/ Save \/ Finish \/ Crash
  BY <1>0, <1>1, <1>2, <1>3 DEF Open, WaitForConns, Emit, Save, Finish, Crash, Gone,
     FreshInv, attempt, sockets
<1>4. ASSUME UNCHANGED <<conns, backlog, held, dialled>>,
             dead' \subseteq dead \cup {target},
             snapshot' \cup {target'} \subseteq snapshot \cup conns \cup {None}
      PROVE  FreshInv'
  <2> DEFINE S == conns \cup dead \cup snapshot \cup {target, None}
  <2>1. S \subseteq 0 .. dialled /\ S \cap (backlog \cup held) = {}
    BY <1>0 DEF FreshInv, Conns
  <2>2. conns' \cup dead' \cup snapshot' \cup {target'} \subseteq S
    BY <1>4
  <2> HIDE DEF S
  <2> QED
    BY <1>0, <1>1, <1>4, <2>1, <2>2 DEF FreshInv
<1>5. CASE BeginWrite
  BY <1>0, <1>1, <1>2, <1>4, <1>5 DEF BeginWrite, Serve, Gone, FreshInv, attempt
<1>6. CASE Send
  BY <1>0, <1>4, <1>6 DEF Send, Serve, FreshInv, Conns
<1>7. CASE Sweep
  BY <1>0, <1>1, <1>7 DEF Sweep, FreshInv, sockets
<1>8. CASE Accept
  BY <1>0, <1>1, <1>8 DEF Accept, FreshInv, attempt
<1>9. CASE Register
  BY <1>0, <1>1, <1>9 DEF Register, FreshInv, attempt, sockets
<1>10. CASE Shutdown
  BY <1>0, <1>1, <1>10 DEF Shutdown, FreshInv, attempt
<1>11. ASSUME NEW s \in Sinks, Dial(s) PROVE FreshInv'
  <2> USE <1>11 DEF Dial
  <2>1. dialled + 1 \in Conns
    BY <1>0 DEF Conns
  <2>2. \A c \in Conns : lines'[c] = lines[c]
    OBVIOUS
  <2> QED
    BY <1>0, <1>1, <2>1, <2>2 DEF FreshInv, producer, attempt
<1>12. ASSUME NEW s \in Sinks, Read(s) \/ DropConn(s) \/ Store(s) \/ SinkCrash(s)
       PROVE  FreshInv'
  BY <1>2, <1>12 DEF Read, DropConn, Store, SinkCrash, producer, attempt, sockets
<1>13. CASE UNCHANGED vars
  BY <1>2, <1>13 DEF vars, producer, attempt, sockets
<1> QED
  BY <1>3, <1>5, <1>6, <1>7, <1>8, <1>9, <1>10, <1>11, <1>12, <1>13
     DEF Next, Writer, Acceptor, Sink

(***************************************************************************)
(* The lines stay in order: what is appended follows the last one.         *)
(***************************************************************************)
LEMMA NextTail == TypeOK /\ LiveTail /\ ServeInv /\ [Next]_vars => LiveTail'
<1> SUFFICES ASSUME TypeOK, LiveTail, ServeInv, [Next]_vars PROVE LiveTail'
  OBVIOUS
<1>1. CASE UNCHANGED lines
  BY <1>1 DEF LiveTail
<1>2. ASSUME pc = "send", target \in conns,
             NEW x \in {rec, Torn}, lines' = [lines EXCEPT ![target] = Append(@, x)]
      PROVE  LiveTail'
  <2>1. LastIs(target, rec - 1)
    BY <1>2 DEF ServeInv, Pending
  <2>2. target \in Conns /\ rec \in Records /\ rec - 1 \in Int
    BY <1>2 DEF TypeOK, WriterTypeOK, Records
  <2>3. PICK c \in Conns, n \in Int : c = target /\ n = rec - 1
    BY <2>2
  <2>4. x \in Records \cup {Torn} /\ x \in {n + 1, Torn}
    BY <2>2, <2>3 DEF Records
  <2> QED
    BY <1>2, <2>1, <2>3, <2>4, AppendTail
<1> QED
  BY <1>1, <1>2, LinesStep

(***************************************************************************)
(* One c.Write.                                                            *)
(***************************************************************************)
LEMMA SendServe ==
  ASSUME TypeOK, LiveTail, ServeInv, Send
  PROVE  ServeInv'
<1>1. /\ target \in Conns /\ rec \in Records /\ rec' = rec /\ conns' = conns
      /\ pc = "send" /\ pc' \in {"send", "sweep"} /\ lines \in [Conns -> Seq(Records \cup {Torn})]
      /\ snapshot \subseteq Conns /\ dead \subseteq Conns /\ conns \subseteq Conns
  BY DEF Send, Serve, TypeOK, WriterTypeOK, SocketTypeOK, Records
<1>2. /\ Pending' \subseteq snapshot \cup {None} /\ snapshot \subseteq Pending'
      /\ target' \notin snapshot' /\ (pc' # "send" => snapshot' = {})
  BY <1>1 DEF Send, Serve, Pending, Conns
<1>3. target \notin snapshot /\ dead \cap snapshot = {} /\ target \notin dead
  BY DEF ServeInv, Pending
<1>4. None \notin Conns
  BY DEF Conns
<1>5. dead' \subseteq dead \cup {target} /\ dead \subseteq dead' /\ dead' \cap Pending' = {}
  BY <1>1, <1>2, <1>3, <1>4 DEF Send
<1>6. \A c \in Conns : c # target => lines'[c] = lines[c]
  BY <1>1 DEF Send
<1>7. \A c \in conns \cap snapshot : LastIs(c, rec - 1)'
  BY <1>1, <1>3, <1>6 DEF ServeInv, Pending, LastIs
<1>8. ASSUME NEW c \in conns \ (Pending' \cup dead')
      PROVE  LastIs(c, rec)' /\ (~delivered' => lines'[c] = <<>>)
  <2>1. CASE c = target
    <3>1. lines' = [lines EXCEPT ![target] = Append(@, rec)] /\ delivered'
      BY <1>8, <2>1 DEF Send
    <3>2. lines'[c][Len(lines'[c])] = rec
      BY <1>1, <2>1, <3>1
    <3> QED
      BY <1>1, <3>1, <3>2 DEF LastIs, Records
  <2>2. CASE c # target
    <3>1. c \in conns \ (Pending \cup dead) /\ lines'[c] = lines[c]
      BY <1>1, <1>2, <1>5, <1>6, <1>8, <2>2 DEF Pending
    <3>2. LastIs(c, rec) /\ (~delivered => lines[c] = <<>>)
      BY <1>1, <3>1 DEF ServeInv
    <3>3. delivered => delivered'
      BY DEF Send
    <3> QED
      BY <1>1, <3>1, <3>2, <3>3 DEF LastIs
  <2> QED
    BY <2>1, <2>2
<1> QED
  BY <1>1, <1>2, <1>4, <1>5, <1>7, <1>8 DEF ServeInv

(***************************************************************************)
(* Write serves its snapshot, and what it leaves in conns has the record.  *)
(***************************************************************************)
LEMMA NextServe ==
  TypeOK /\ LiveTail /\ FreshInv /\ ServeInv /\ [Next]_vars => ServeInv'
<1> SUFFICES ASSUME TypeOK, LiveTail, FreshInv, ServeInv, [Next]_vars
             PROVE  ServeInv'
  OBVIOUS
<1>0. /\ conns \subseteq Conns /\ dead \subseteq Conns /\ snapshot \subseteq Conns
      /\ held \subseteq Conns /\ rec \in Nat /\ None \notin Conns
      /\ pc # "send" => target = None
  BY DEF TypeOK, WriterTypeOK, Conns
<1>1. ASSUME UNCHANGED <<pc, rec, conns, held, snapshot, target, dead, delivered, lines>>
      PROVE  ServeInv'
  BY <1>1 DEF ServeInv, Pending, LastIs
<1>2. ASSUME Gone PROVE ServeInv'
  BY <1>0, <1>2 DEF Gone, ServeInv, Pending
<1>3. CASE Open
  BY <1>0, <1>3 DEF Open, ServeInv, Pending, attempt, sockets
<1>4. CASE WaitForConns
  <2>1. CASE pc' = "idle" /\ UNCHANGED <<rec, conns, held, snapshot, target, dead, lines>>
    BY <1>0, <1>4, <2>1 DEF WaitForConns, ServeInv, Pending, LastIs
  <2> QED
    BY <1>1, <1>2, <1>4, <2>1 DEF WaitForConns, attempt
<1>5. CASE Emit
  BY <1>0, <1>5 DEF Emit, ServeInv, Pending, LastIs, attempt, sockets
<1>6. CASE Save \/ Finish \/ Crash
  BY <1>1, <1>2, <1>6 DEF Save, Finish, Crash, attempt, sockets
<1>7. CASE BeginWrite
  <2>1. CASE Serve(conns) /\ dead' = {} /\ UNCHANGED <<rec, conns, held, lines>>
    <3>1. CASE conns = {}
      BY <1>0, <2>1, <3>1 DEF Serve, ServeInv, Pending
    <3>2. CASE conns # {}
      <4>1. /\ pc' = "send" /\ Pending' = conns /\ target' \notin snapshot'
        BY <2>1, <3>2 DEF Serve, Pending
      <4>2. \A c \in conns : LastIs(c, rec - 1)
        BY <1>7 DEF BeginWrite, ServeInv
      <4> QED
        BY <1>0, <2>1, <4>1, <4>2 DEF ServeInv, LastIs
    <3> QED
      BY <3>1, <3>2
  <2> QED
    BY <1>1, <1>2, <1>7, <2>1 DEF BeginWrite, attempt
<1>8. CASE Send
  BY <1>8, SendServe
<1>9. CASE Sweep
  <2>1. /\ snapshot' = {} /\ dead' = {} /\ target' = None /\ lines' = lines /\ rec' = rec
        /\ conns' = conns \ dead /\ Pending = {None} /\ Pending' = {None}
        /\ pc' \in {"write", "idle"}
    BY <1>0, <1>9 DEF Sweep, ServeInv, Pending, sockets
  <2>2. \A c \in conns' : LastIs(c, rec) /\ (~delivered => lines[c] = <<>>)
    BY <1>0, <1>9, <2>1 DEF Sweep, ServeInv
  <2>3. pc' = "write" => \A c \in conns' : lines[c] = <<>>
    BY <1>9, <2>2 DEF Sweep, Retry
  <2> QED
    BY <2>1, <2>2, <2>3 DEF ServeInv, LastIs
<1>10. CASE Accept
  BY <1>10 DEF Accept, Listening, ServeInv, Pending, LastIs, attempt
<1>11. CASE Register
  <2>1. CASE conns' = conns
    BY <1>11, <2>1 DEF Register, ServeInv, Pending, LastIs, attempt, sockets
  <2>2. CASE conns' = conns \cup held
    <3>1. \A c \in held : lines[c] = <<>> /\ c \notin Pending /\ c \notin dead
      BY DEF FreshInv, Pending
    <3>2. /\ pc # "down" /\ held' = {}
          /\ UNCHANGED <<pc, rec, snapshot, target, dead, delivered, lines>>
      BY <1>11 DEF Register, ServeInv, attempt, sockets
    <3> QED
      BY <2>2, <3>1, <3>2 DEF ServeInv, Pending, LastIs
  <2> QED
    BY <1>11, <2>1, <2>2 DEF Register
<1>12. CASE Shutdown
  BY <1>12 DEF Shutdown, ServeInv, Pending, attempt
<1>13. ASSUME NEW s \in Sinks, Sink(s) \/ SinkCrash(s) PROVE ServeInv'
  BY <1>1, <1>13 DEF Sink, Dial, Read, DropConn, Store, SinkCrash, producer, attempt,
     sockets
<1>14. CASE UNCHANGED vars
  BY <1>1, <1>14 DEF vars, producer, attempt, sockets
<1> QED
  BY <1>3, <1>4, <1>5, <1>6, <1>7, <1>8, <1>9, <1>10, <1>11, <1>12, <1>13, <1>14
     DEF Next, Writer, Acceptor

(***************************************************************************)
(* On one connection the records follow each other, whole, without a gap   *)
(* and without a repetition.                                               *)
(***************************************************************************)
THEOREM LinesInOrder == Spec => []LiveTail
<1>1. Init => LiveTail /\ FreshInv /\ ServeInv
  BY FanoutAssumption DEF Init, LiveTail, FreshInv, ServeInv, Pending, Conns
<1> QED
  BY <1>1, NextTail, NextFresh, NextServe, FanoutTypeCorrect, PTL DEF Spec
-----------------------------------------------------------------------------
(***************************************************************************)
(* Nothing on the way is lost: a record read is stored or in a sink's      *)
(* hand, and one not read is on a connection whose sink is there.          *)
(***************************************************************************)
Kept(r) == r \in store \/ \E s \in Sinks : hand[s] = r

ReadKept == \A c \in Conns : \A i \in 1 .. got[c] :
              lines[c][i] # Torn => Kept(lines[c][i])

UnreadHeld == \A c \in Conns : \A i \in got[c] + 1 .. Len(lines[c]) :
                lines[c][i] # Torn => SinkEnd(c)

SafeInv == sinkStops = 0 => ReadKept /\ UnreadHeld

(***************************************************************************)
(* A line appended while its sink is there, or torn, endangers nothing.    *)
(***************************************************************************)
LEMMA AppendSafe ==
  ASSUME TypeOK, ReadKept, UnreadHeld, UNCHANGED <<got, conn, hand, store>>,
         NEW c \in Conns, NEW x \in Records \cup {Torn}, x = Torn \/ SinkEnd(c),
         lines' = [lines EXCEPT ![c] = Append(@, x)]
  PROVE  ReadKept' /\ UnreadHeld'
<1>1. /\ lines \in [Conns -> Seq(Records \cup {Torn})] /\ got \in [Conns -> Nat]
      /\ \A d \in Conns : got[d] <= Len(lines[d]) /\ Len(lines[d]) \in Nat
  BY DEF TypeOK, SocketTypeOK
<1>2. /\ Len(lines'[c]) = Len(lines[c]) + 1
      /\ lines'[c][Len(lines[c]) + 1] = x
      /\ \A i \in 1 .. Len(lines[c]) : lines'[c][i] = lines[c][i]
      /\ \A d \in Conns : d # c => lines'[d] = lines[d]
  BY <1>1
<1>3. ASSUME NEW d \in Conns, NEW i \in 1 .. got[d], lines'[d][i] # Torn
      PROVE  lines'[d][i] \in store \/ \E s \in Sinks : hand[s] = lines'[d][i]
  <2>1. i \in 1 .. Len(lines[d]) /\ lines'[d][i] = lines[d][i]
    BY <1>1, <1>2
  <2> QED
    BY <1>3, <2>1 DEF ReadKept, Kept
<1>4. ReadKept'
  BY <1>3 DEF ReadKept, Kept
<1>5. ASSUME NEW d \in Conns, NEW i \in got'[d] + 1 .. Len(lines'[d]), lines'[d][i] # Torn
      PROVE  SinkEnd(d)'
  <2>1. SinkEnd(d) => SinkEnd(d)'
    BY DEF SinkEnd
  <2>2. CASE d # c \/ i <= Len(lines[c])
    <3>1. i \in got[d] + 1 .. Len(lines[d]) /\ lines'[d][i] = lines[d][i]
      BY <1>1, <1>2, <1>5, <2>2
    <3> QED
      BY <1>5, <2>1, <3>1 DEF UnreadHeld
  <2>3. CASE d = c /\ i = Len(lines[c]) + 1
    BY <1>2, <1>5, <2>1, <2>3
  <2> QED
    BY <1>1, <1>2, <1>5, <2>2, <2>3
<1>6. UnreadHeld'
  BY <1>5 DEF UnreadHeld
<1> QED
  BY <1>4, <1>6

(***************************************************************************)
(* What the producer does endangers nothing: it appends to a connection    *)
(* whose sink is there, or the first bytes of a line.                      *)
(***************************************************************************)
LEMMA ProducerSafe ==
  ASSUME TypeOK, ReadKept, UnreadHeld, Writer \/ Acceptor \/ Shutdown \/ Crash
  PROVE  ReadKept' /\ UnreadHeld'
<1>1. UNCHANGED <<got, conn, hand, store>>
  BY DEF Writer, Acceptor, Open, WaitForConns, Emit, Save, Finish, BeginWrite, Send,
     Sweep, Accept, Register, Shutdown, Crash, Gone, sockets, sinks
<1>2. \/ UNCHANGED lines
      \/ /\ target \in Conns
         /\ \/ lines' = [lines EXCEPT ![target] = Append(@, Torn)]
            \/ SinkEnd(target) /\ lines' = [lines EXCEPT ![target] = Append(@, rec)]
  BY DEF TypeOK, WriterTypeOK, Writer, Acceptor, Open, WaitForConns, Emit, Save,
     Finish, BeginWrite, Send, Sweep, Accept, Register, Shutdown, Crash, MayTear, sockets
<1>3. CASE UNCHANGED lines
  BY <1>1, <1>3 DEF ReadKept, UnreadHeld, Kept, SinkEnd
<1>4. ASSUME target \in Conns, lines' = [lines EXCEPT ![target] = Append(@, Torn)]
      PROVE  ReadKept' /\ UnreadHeld'
  BY <1>1, <1>4, AppendSafe
<1>5. ASSUME target \in Conns, SinkEnd(target),
             lines' = [lines EXCEPT ![target] = Append(@, rec)]
      PROVE  ReadKept' /\ UnreadHeld'
  <2>1. CASE rec \in Records
    <3>1. PICK c \in Conns, x \in Records : c = target /\ x = rec
      BY <1>5, <2>1
    <3> QED
      BY <1>1, <1>5, <3>1, AppendSafe
  <2>2. CASE rec \notin Records
    <3>1. rec = Torn
      BY <2>2 DEF TypeOK, WriterTypeOK, Records
    <3> QED
      BY <1>4, <1>5, <3>1
  <2> QED
    BY <2>1, <2>2
<1> QED
  BY <1>2, <1>3, <1>4, <1>5

(***************************************************************************)
(* A sink that lives loses nothing: it reads one line at a time, stores it *)
(* and leaves a connection when it has read all of it.                     *)
(***************************************************************************)
LEMMA ReadSafe ==
  ASSUME TypeOK, ReadKept, UnreadHeld, NEW s \in Sinks, Read(s)
  PROVE  ReadKept' /\ UnreadHeld'
<1>1. PICK c \in Conns : c = conn[s]
  BY DEF Read, TypeOK, SinkTypeOK
<1>2. /\ got \in [Conns -> Nat] /\ hand \in [Sinks -> Records \cup {None}]
      /\ hand[s] = None /\ UNCHANGED <<lines, conn, store>>
      /\ hand' = [hand EXCEPT ![s] = lines[c][got[c] + 1]]
      /\ got' = [got EXCEPT ![c] = @ + 1]
  BY <1>1 DEF Read, TypeOK, SocketTypeOK, SinkTypeOK
<1>3. \A r : r # None /\ Kept(r) => r \in store' \/ \E t \in Sinks : hand'[t] = r
  BY <1>2 DEF Kept
<1>4. ASSUME NEW d \in Conns, NEW i \in 1 .. got'[d], lines'[d][i] # Torn
      PROVE  lines'[d][i] \in store' \/ \E t \in Sinks : hand'[t] = lines'[d][i]
  <2>1. CASE i \in 1 .. got[d]
    <3>1. lines[d][i] # None /\ Kept(lines[d][i])
      BY <1>2, <1>4, <2>1 DEF ReadKept
    <3> QED
      BY <1>2, <1>3, <3>1
  <2>2. CASE i \notin 1 .. got[d]
    <3>1. d = c /\ i = got[c] + 1
      BY <1>2, <1>4, <2>2
    <3> QED
      BY <1>2, <3>1
  <2> QED
    BY <2>1, <2>2
<1>5. UnreadHeld'
  BY <1>2 DEF UnreadHeld, SinkEnd
<1> QED
  BY <1>4, <1>5 DEF ReadKept, Kept

LEMMA SinkSafe ==
  ASSUME TypeOK, ReadKept, UnreadHeld, NEW s \in Sinks, Sink(s)
  PROVE  ReadKept' /\ UnreadHeld'
<1>0. conn \in [Sinks -> Conns \cup {None}] /\ None \notin Conns
      /\ hand \in [Sinks -> Records \cup {None}]
  BY DEF TypeOK, SinkTypeOK, Conns
<1>1. CASE Dial(s)
  <2>1. UNCHANGED <<lines, got, hand, store>>
    BY <1>1 DEF Dial
  <2>2. \A c \in Conns : SinkEnd(c) => SinkEnd(c)'
    BY <1>0, <1>1 DEF Dial, SinkEnd
  <2> QED
    BY <2>1, <2>2 DEF ReadKept, UnreadHeld, Kept
<1>2. CASE Read(s)
  BY <1>2, ReadSafe
<1>3. CASE DropConn(s)
  <2>1. UNCHANGED <<lines, got, hand, store>>
    BY <1>3 DEF DropConn, sockets
  <2>2. \A c \in Conns : SinkEnd(c) /\ c # conn[s] => SinkEnd(c)'
    BY <1>0, <1>3 DEF DropConn, SinkEnd
  <2>3. \A i \in got[conn[s]] + 1 .. Len(lines[conn[s]]) : lines[conn[s]][i] = Torn
    BY <1>3 DEF DropConn, Unread
  <2> QED
    BY <2>1, <2>2, <2>3 DEF ReadKept, UnreadHeld, Kept
<1>4. CASE Store(s)
  <2>1. UNCHANGED <<lines, got, conn>>
    BY <1>4 DEF Store, sockets
  <2>2. \A r : Kept(r) => Kept(r)'
    BY <1>0, <1>4 DEF Store, Kept
  <2>3. \A c \in Conns : lines'[c] = lines[c] /\ got'[c] = got[c]
    BY <2>1
  <2> QED
    BY <2>1, <2>2, <2>3 DEF ReadKept, UnreadHeld, Kept, SinkEnd
<1> QED
  BY <1>1, <1>2, <1>3, <1>4 DEF Sink

LEMMA NextSafe == TypeOK /\ SafeInv /\ [Next]_vars => SafeInv'
<1> SUFFICES ASSUME TypeOK, SafeInv, [Next]_vars, sinkStops' = 0
             PROVE  ReadKept' /\ UnreadHeld'
  BY DEF SafeInv
<1>1. ASSUME NEW s \in Sinks, SinkCrash(s) PROVE FALSE
  BY <1>1 DEF SinkCrash, TypeOK, SinkTypeOK
<1>2. sinkStops = 0
  BY <1>1 DEF Next, Writer, Acceptor, Open, WaitForConns, Emit, Save, Finish,
     BeginWrite, Send, Sweep, Accept, Register, Shutdown, Crash, Gone, Sink, Dial, Read,
     DropConn, Store, stopped, vars
<1>3. ReadKept /\ UnreadHeld
  BY <1>2 DEF SafeInv
<1>4. CASE UNCHANGED vars
  BY <1>3, <1>4 DEF vars, sockets, sinks, ReadKept, UnreadHeld, Kept, SinkEnd
<1> QED
  BY <1>1, <1>3, <1>4, ProducerSafe, SinkSafe DEF Next

(***************************************************************************)
(* While no sink crashes, what the cursor claims is stored or on its way.  *)
(***************************************************************************)
THEOREM NothingLost == Spec => []LossNeedsSinkCrash
<1>1. Init => SafeInv
  BY DEF Init, SafeInv, ReadKept, UnreadHeld, Conns
<1>2. TypeOK /\ SafeInv /\ SavedReachedAConsumer => LossNeedsSinkCrash
  <2> SUFFICES ASSUME TypeOK, SafeInv, SavedReachedAConsumer, sinkStops = 0, blockUntil,
                      NEW r \in 1 .. saved
               PROVE  Safe(r)
    BY DEF LossNeedsSinkCrash, NoLoss
  <2>1. PICK c \in Conns : \E i \in 1 .. Len(lines[c]) : lines[c][i] = r
    BY DEF SavedReachedAConsumer, Taken
  <2>2. PICK i \in 1 .. Len(lines[c]) : lines[c][i] = r
    BY <2>1
  <2>3. got[c] \in Nat /\ r # Torn /\ c # None
    BY DEF TypeOK, SocketTypeOK, WriterTypeOK, Conns
  <2>4. CASE i \in 1 .. got[c]
    BY <2>2, <2>3, <2>4 DEF SafeInv, ReadKept, Kept, Safe
  <2>5. CASE i \in got[c] + 1 .. Len(lines[c])
    <3>1. SinkEnd(c) /\ r \in Unread(c)
      BY <2>2, <2>3, <2>5 DEF SafeInv, UnreadHeld, Unread
    <3> QED
      BY <2>3, <3>1 DEF SinkEnd, Safe
  <2> QED
    BY <2>2, <2>3, <2>4, <2>5
<1> QED
  BY <1>1, <1>2, NextSafe, SavedIsTaken, FanoutTypeCorrect, PTL DEF Spec
=============================================================================
