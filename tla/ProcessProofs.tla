--------------------------- MODULE ProcessProofs ---------------------------
(***************************************************************************)
(* The reload and the readiness of a producer, for every way to start it,  *)
(* every configuration file and every interleaving of edits, signals and   *)
(* polls.                                                                  *)
(***************************************************************************)
EXTENDS Process, FiniteSetTheorems, TLAPS

USE ProcessAssumption DEF Version

(* The versions of the files: an edit adds one and keeps the others.       *)
FilesInv ==
  /\ \E D : files \in Seq(D)
  /\ logAsked \in 1 .. Version /\ watchAsked \in 1 .. Version

(* What a version makes of the log and of the watched set, or that it is   *)
(* refused.                                                                *)
LogFrom(v) ==
  \/ log = SetupLogging(setup, files[v]) \/ ResolvedLogFails(setup, files[v])
  \/ ~LogIsValid(ResolvedLog(setup, files[v]))
WatchFrom(v) ==
  \/ ~ReloadAccepts(files[v])
  \/ pendingWatch = {WatchOf(files[v])} \/ (pendingWatch = {} /\ watch = WatchOf(files[v]))

Starting == {"decoded", "connected", "serving"}

(***************************************************************************)
(* Before the loop runs the watched set is the decoded one and nothing is  *)
(* staged; a reload that has read the file reads none older than the last  *)
(* signal asks for, unless another signal waits.                           *)
(***************************************************************************)
LogInv == pc \notin {"boot", "exited"} /\ ~logSlot => \E v \in logAsked .. Version : LogFrom(v)
WatchInv ==
  /\ pc \in {"boot", "hooked"} \cup Starting => ~watchSlot /\ reading = 0 /\ pendingWatch = {}
  /\ pc \in Starting => \E v \in watchAsked .. Version : WatchFrom(v)
  /\ pc \in Polling /\ ~watchSlot /\ reading = 0 => \E v \in watchAsked .. Version : WatchFrom(v)
  /\ reading \in 0 .. Version
  /\ pc \in Polling /\ reading > 0 /\ ~watchSlot => reading \in watchAsked .. Version
  /\ watchSlot \in BOOLEAN
ReloadInv == FilesInv /\ LogInv /\ WatchInv

(* An edit leaves the earlier versions as they were.                       *)
LEMMA EditKeeps ==
  ASSUME FilesInv, NEW f \in Files, Edit(f)
  PROVE  /\ \E D : files' \in Seq(D)
         /\ Len(files) \in Nat /\ Len(files') = Len(files) + 1
         /\ \A v \in 1 .. Len(files) : files'[v] = files[v]
<1>1. PICK D : files \in Seq(D)
  BY DEF FilesInv
<1>2. PICK e : files' = Append(files, e)
  BY DEF Edit
<1>3. files \in Seq(D \cup {e})
  BY <1>1
<1>4. Append(files, e) \in Seq(D \cup {e})
  BY <1>3
<1> QED BY <1>2, <1>3, <1>4

LEMMA FilesStep == FilesInv /\ [Next]_vars => FilesInv'
<1> SUFFICES ASSUME FilesInv, [Next]_vars
             PROVE  FilesInv'
  OBVIOUS
<1>1. ASSUME NEW f \in Files, Edit(f)
      PROVE  FilesInv'
  <2>1. logAsked' = logAsked /\ watchAsked' = watchAsked
    BY <1>1 DEF Edit, asked
  <2> QED BY <1>1, <2>1, EditKeeps DEF FilesInv
<1>2. ASSUME files' = files, logAsked' \in {logAsked, Version}, watchAsked' \in {watchAsked, Version}
      PROVE  FilesInv'
  <2>1. Len(files) \in Nat \ {0}
    BY DEF FilesInv
  <2> QED BY <1>2, <2>1 DEF FilesInv
<1>3. CASE Hangup
  BY <1>2, <1>3 DEF Hangup, operator, asked
<1>4. CASE StartLogging \/ Decode
  BY <1>2, <1>4 DEF StartLogging, Decode, operator
<1>5. CASE Terminate \/ Connect \/ Serve \/ OpenOutput \/ OpenCut \/ ReloadLogging \/ WatchReload \/ FinishReload
  BY <1>2, <1>5 DEF Terminate, Connect, Serve, OpenOutput, OpenCut, ReloadLogging, WatchReload,
                    FinishReload, operator, asked
<1>6. CASE BeginPoll \/ EndPoll \/ BeginWrite \/ Watchdog \/ Tick \/ EndWrite \/ WriteCut
           \/ StopRun \/ Shutdown
  BY <1>2, <1>6 DEF BeginPoll, EndPoll, BeginWrite, Watchdog, Tick, EndWrite, WriteCut,
                    WriteReturns, StopRun, Shutdown, operator, asked
<1>7. CASE UNCHANGED vars
  BY <1>2, <1>7 DEF vars, operator, asked
<1> QED BY <1>1, <1>3, <1>4, <1>5, <1>6, <1>7 DEF Next

(***************************************************************************)
(* The log settings.                                                       *)
(***************************************************************************)
LEMMA LogStep == FilesInv /\ LogInv /\ [Next]_vars => LogInv'
<1> SUFFICES ASSUME FilesInv, LogInv, [Next]_vars
             PROVE  LogInv'
  OBVIOUS
<1>a. Len(files) \in Nat \ {0} /\ logAsked \in 1 .. Len(files)
  BY DEF FilesInv
<1>1. ASSUME NEW f \in Files, Edit(f)
      PROVE  LogInv'
  <2>1. UNCHANGED <<setup, pc, logSlot, log, logAsked>>
    BY <1>1 DEF Edit, signals, asked
  <2>2. Len(files') = Len(files) + 1 /\ \A v \in 1 .. Len(files) : files'[v] = files[v]
    BY <1>1, EditKeeps
  <2>3. logAsked .. Len(files) \subseteq 1 .. Len(files)
        /\ logAsked .. Len(files) \subseteq logAsked' .. Len(files')
    BY <1>a, <2>1, <2>2
  <2>4. \A v \in logAsked .. Len(files) : LogFrom(v) => LogFrom(v)'
    BY <2>1, <2>2, <2>3 DEF LogFrom
  <2> QED BY <2>1, <2>3, <2>4 DEF LogInv
<1>2. ASSUME UNCHANGED <<setup, files, logSlot, log, logAsked>>,
             pc' \notin {"boot", "exited"} => pc \notin {"boot", "exited"}
      PROVE  LogInv'
  BY <1>2 DEF LogInv, LogFrom
<1>3. CASE Hangup
  BY <1>3 DEF Hangup, LogInv, Exit
<1>4. CASE StartLogging
  <2>1. CASE log' = SetupLogging(setup, files[Len(files)])
    <3>1. setup' = setup /\ files' = files /\ logAsked' = Len(files)
      BY <1>4 DEF StartLogging, operator
    <3>2. LogFrom(Len(files))'
      BY <2>1, <3>1 DEF LogFrom
    <3> QED BY <1>a, <3>1, <3>2 DEF LogInv
  <2>2. CASE pc' = "exited"
    BY <2>2 DEF LogInv
  <2> QED BY <1>4, <2>1, <2>2 DEF StartLogging, Exit
<1>5. CASE ReloadLogging
  <2>1. /\ setup' = setup /\ files' = files /\ logAsked' = logAsked
        /\ \/ ~ResolvedLogFails(setup, files[Len(files)])
              /\ log' = ResolvedLog(setup, files[Len(files)])
           \/ ResolvedLogFails(setup, files[Len(files)])
           \/ ~LogIsValid(ResolvedLog(setup, files[Len(files)]))
    BY <1>5 DEF ReloadLogging, operator, asked
  <2>2. LogFrom(Len(files))'
    BY <2>1 DEF LogFrom, SetupLogging
  <2>3. Len(files) \in logAsked' .. Len(files')
    BY <1>a, <2>1
  <2> QED BY <2>1, <2>2, <2>3 DEF LogInv
<1>6. CASE Terminate
  BY <1>2, <1>6 DEF Terminate, Exit, operator, asked
<1>7. CASE Decode \/ Connect \/ Serve \/ OpenOutput \/ OpenCut
  BY <1>2, <1>7 DEF Decode, Connect, Serve, OpenOutput, OpenCut, Exit, operator, signals, asked
<1>8. CASE WatchReload \/ FinishReload
  BY <1>2, <1>8 DEF WatchReload, FinishReload, operator, signals, asked
<1>9. CASE BeginPoll \/ EndPoll \/ BeginWrite \/ Watchdog \/ Tick
  BY <1>2, <1>9 DEF BeginPoll, EndPoll, BeginWrite, Watchdog, Tick, operator, signals, asked
<1>10. CASE EndWrite \/ WriteCut \/ StopRun \/ Shutdown
  BY <1>2, <1>10 DEF EndWrite, WriteCut, WriteReturns, StopRun, Shutdown, Exit, operator, signals,
                     asked
<1>11. CASE UNCHANGED vars
  BY <1>2, <1>11 DEF vars, operator, signals, asked
<1> QED BY <1>1, <1>3, <1>4, <1>5, <1>6, <1>7, <1>8, <1>9, <1>10, <1>11 DEF Next

(***************************************************************************)
(* The watched set.                                                        *)
(***************************************************************************)
(* A version that explains the watched set explains it after a poll has    *)
(* applied what was staged.                                                *)
LEMMA ApplyKeeps ==
  ASSUME NEW v, WatchFrom(v), ApplyPendingReload, setup' = setup, files' = files
  PROVE  WatchFrom(v)'
<1>1. CASE ~ReloadAccepts(files[v])
  <2>1. ReloadAccepts(files[v])' <=> ReloadAccepts(files[v])
    BY DEF ReloadAccepts, IsStream, ReloadStreamAccepts, ReloadBalanceAccepts, StreamLoads,
           StreamWatch, BalanceLoads, BalanceWatch, DecodeBalance
  <2> QED BY <1>1, <2>1 DEF WatchFrom
<1>2. (WatchOf(files[v]))' = WatchOf(files[v])
  BY DEF WatchOf, IsStream, StreamWatch, BalanceWatch
<1>3. CASE pendingWatch = {WatchOf(files[v])}
  BY <1>2, <1>3 DEF ApplyPendingReload, WatchFrom
<1>4. CASE pendingWatch = {} /\ watch = WatchOf(files[v])
  BY <1>2, <1>4 DEF ApplyPendingReload, WatchFrom
<1> QED BY <1>1, <1>3, <1>4 DEF WatchFrom

(* And when nothing that it speaks of has changed.                         *)
LEMMA WatchFromKept ==
  ASSUME NEW v, WatchFrom(v), setup' = setup, files'[v] = files[v],
         watch' = watch, pendingWatch' = pendingWatch
  PROVE  WatchFrom(v)'
<1>1. (ReloadAccepts(files[v])' <=> ReloadAccepts(files[v]))
      /\ (WatchOf(files[v]))' = WatchOf(files[v])
  BY DEF ReloadAccepts, IsStream, ReloadStreamAccepts, ReloadBalanceAccepts, StreamLoads,
         StreamWatch, BalanceLoads, BalanceWatch, DecodeBalance, WatchOf
<1> QED BY <1>1 DEF WatchFrom

LEMMA WatchStep == FilesInv /\ WatchInv /\ [Next]_vars => WatchInv'
<1> SUFFICES ASSUME FilesInv, WatchInv, [Next]_vars
             PROVE  WatchInv'
  OBVIOUS
<1> USE DEF Starting, Polling
<1>a. Len(files) \in Nat \ {0} /\ watchAsked \in 1 .. Len(files)
  BY DEF FilesInv
<1>1. ASSUME NEW f \in Files, Edit(f)
      PROVE  WatchInv'
  <2>1. UNCHANGED <<setup, pc, watchSlot, watch, pendingWatch, reading, watchAsked>>
    BY <1>1 DEF Edit, signals, asked
  <2>2. Len(files') = Len(files) + 1 /\ \A v \in 1 .. Len(files) : files'[v] = files[v]
    BY <1>1, EditKeeps
  <2>3. watchAsked .. Len(files) \subseteq 1 .. Len(files)
        /\ watchAsked .. Len(files) \subseteq watchAsked' .. Len(files')
        /\ 0 .. Len(files) \subseteq 0 .. Len(files')
    BY <1>a, <2>1, <2>2
  <2>4. \A v \in watchAsked .. Len(files) : WatchFrom(v) => WatchFrom(v)'
    BY <2>1, <2>2, <2>3, WatchFromKept
  <2> QED BY <2>1, <2>3, <2>4 DEF WatchInv
<1>2. ASSUME UNCHANGED <<setup, files, watchSlot, watch, pendingWatch, reading, watchAsked>>,
             pc' \in {"boot", "hooked"} => pc \in {"boot", "hooked"},
             pc' \in Starting => pc \in Starting,
             pc' \in Polling => pc \in Starting \cup Polling
      PROVE  WatchInv'
  <2>1. \A v \in watchAsked .. Len(files) : WatchFrom(v) => WatchFrom(v)'
    BY <1>2, WatchFromKept
  <2> QED BY <1>2, <2>1 DEF WatchInv
<1>3. CASE Hangup
  <2>1. UNCHANGED <<setup, files, watch, pendingWatch, reading>>
    BY <1>3 DEF Hangup, operator
  <2>2. CASE pc = "boot"
    BY <1>3, <2>1, <2>2 DEF Hangup, Exit, operator, asked, WatchInv
  <2>3. CASE pc # "boot" /\ pc \in Polling
    BY <1>3, <2>1, <2>3 DEF Hangup, WatchRegistered, operator, WatchInv
  <2>4. CASE pc # "boot" /\ pc \notin Polling
    <3>1. ~WatchRegistered
      BY <2>4 DEF WatchRegistered
    <3>2. pc' = pc /\ watchSlot' = WatchRegistered
          /\ watchAsked' = IF WatchRegistered THEN Version ELSE watchAsked
      BY <1>3, <2>4 DEF Hangup
    <3>3. watchSlot' = FALSE
      <4>1. (pc \in Polling) = FALSE
        BY <2>4
      <4>2. watchSlot' = (pc \in Polling)
        BY <3>2, Zenon DEF WatchRegistered
      <4> HIDE DEF Polling
      <4> QED BY <4>1, <4>2, Zenon
    <3>4. watchAsked' = watchAsked
      BY <3>1, <3>2, Zenon
    <3>5. \A v \in watchAsked .. Len(files) : WatchFrom(v) => WatchFrom(v)'
      BY <2>1, WatchFromKept
    <3> QED BY <2>1, <2>4, <3>2, <3>3, <3>4, <3>5 DEF WatchInv
  <2> QED BY <2>2, <2>3, <2>4
<1>4. CASE StartLogging
  BY <1>2, <1>4 DEF StartLogging, Exit, operator, signals
<1>5. CASE Decode
  <2>1. UNCHANGED <<setup, files, watchSlot, pendingWatch, reading>> /\ watchAsked' = Len(files)
    BY <1>5 DEF Decode, operator, signals
  <2>2. watchSlot = FALSE /\ reading = 0 /\ pendingWatch = {}
    BY <1>5 DEF Decode, WatchInv
  <2>3. CASE pc' = "exited"
    BY <2>1, <2>2, <2>3 DEF WatchInv
  <2>4. CASE pc' = "decoded" /\ watch' = WatchOf(files[Len(files)])
    <3>1. (WatchOf(files[Len(files)]))' = WatchOf(files[Len(files)])
      BY <2>1 DEF WatchOf, IsStream, StreamWatch, BalanceWatch
    <3>2. WatchFrom(Len(files))'
      BY <2>1, <2>2, <2>4, <3>1 DEF WatchFrom
    <3>3. Len(files) \in watchAsked' .. Len(files')
      BY <1>a, <2>1
    <3>4. \E v \in watchAsked' .. Len(files') : WatchFrom(v)'
      BY <2>1, <3>2, <3>3
    <3> QED BY <2>1, <2>2, <2>4, <3>4 DEF WatchInv
  <2> QED BY <1>5, <2>3, <2>4 DEF Decode, Exit
<1>6. CASE Connect \/ Serve \/ OpenOutput \/ OpenCut
  BY <1>2, <1>6 DEF Connect, Serve, OpenOutput, OpenCut, Exit, operator, signals, asked
<1>7. CASE Terminate
  BY <1>2, <1>7 DEF Terminate, Exit, operator, asked
<1>8. CASE ReloadLogging
  BY <1>2, <1>8 DEF ReloadLogging, operator, asked
<1>9. CASE WatchReload
  <2>1. /\ UNCHANGED <<setup, files, pc, watch, pendingWatch, watchAsked>>
        /\ watchSlot' = FALSE /\ reading' = Len(files) /\ pc \in Polling
    BY <1>9 DEF WatchReload, operator, asked
  <2>2. pc' \notin {"boot", "hooked"} \cup Starting
    BY <2>1
  <2>3. Len(files') = Len(files) /\ reading' > 0 /\ reading' # 0
        /\ reading' \in 0 .. Len(files') /\ reading' \in watchAsked' .. Len(files')
    BY <1>a, <2>1
  <2>4. watchSlot' \in BOOLEAN
    BY <2>1
  <2> QED BY <2>2, <2>3, <2>4 DEF WatchInv
<1>10. CASE FinishReload
  <2>1. /\ UNCHANGED <<setup, files, pc, watchSlot, watch, watchAsked>>
        /\ reading > 0 /\ reading' = 0
        /\ \/ ReloadAccepts(files[reading]) /\ pendingWatch' = {WatchOf(files[reading])}
           \/ ~ReloadAccepts(files[reading])
    BY <1>10 DEF FinishReload, QueueReload, operator, signals, asked
  <2>2. pc \notin {"boot", "hooked"} \cup Starting
    BY <2>1 DEF WatchInv
  <2>5. \A v \in 1 .. Len(files) :
           (ReloadAccepts(files[v])' <=> ReloadAccepts(files[v]))
           /\ (WatchOf(files[v]))' = WatchOf(files[v])
    BY <2>1 DEF ReloadAccepts, IsStream, ReloadStreamAccepts, ReloadBalanceAccepts, StreamLoads,
                StreamWatch, BalanceLoads, BalanceWatch, DecodeBalance, WatchOf
  <2>6. pc \in Polling /\ ~watchSlot => \E v \in watchAsked .. Len(files) : WatchFrom(v)'
    <3> SUFFICES ASSUME pc \in Polling, ~watchSlot PROVE \E v \in watchAsked .. Len(files) : WatchFrom(v)'
      OBVIOUS
    <3> DEFINE v == reading
    <3>1. v \in watchAsked .. Len(files) /\ v \in 1 .. Len(files)
      BY <1>a, <2>1 DEF WatchInv
    <3> SUFFICES ASSUME NEW w \in watchAsked .. Len(files), w = v, w \in 1 .. Len(files)
                 PROVE  WatchFrom(w)'
      BY <3>1
    <3> QED BY <2>1, <2>5 DEF WatchFrom
  <2> QED BY <1>a, <2>1, <2>2, <2>6 DEF WatchInv
<1>11. CASE BeginPoll
  <2>1. /\ UNCHANGED <<setup, files, watchSlot, reading, watchAsked>> /\ pc = "top" /\ pc' = "poll"
        /\ ApplyPendingReload
    BY <1>11 DEF BeginPoll, operator, signals, asked
  <2>2. \A v \in watchAsked .. Len(files) : WatchFrom(v) => WatchFrom(v)'
    BY <2>1, ApplyKeeps
  <2> QED BY <2>1, <2>2 DEF WatchInv
<1>12. CASE EndPoll \/ BeginWrite \/ Watchdog \/ Tick
  BY <1>2, <1>12 DEF EndPoll, BeginWrite, Watchdog, Tick, operator, signals, asked
<1>13. CASE EndWrite \/ WriteCut \/ StopRun \/ Shutdown
  BY <1>2, <1>13 DEF EndWrite, WriteCut, WriteReturns, StopRun, Shutdown, Exit, operator, signals,
                     asked
<1>14. CASE UNCHANGED vars
  BY <1>2, <1>14 DEF vars, operator, signals, asked
<1> QED BY <1>1, <1>3, <1>4, <1>5, <1>6, <1>7, <1>8, <1>9, <1>10, <1>11, <1>12, <1>13, <1>14
        DEF Next

LEMMA ReloadInit == Init => ReloadInv
<1> SUFFICES ASSUME Init PROVE ReloadInv
  OBVIOUS
<1>1. PICK d \in Disks : files = <<d>>
  BY DEF Init
<1>2. files \in Seq({d}) /\ Len(files) = 1
  BY <1>1
<1>3. logAsked = 1 /\ watchAsked = 1 /\ pc = "boot" /\ pendingWatch = {} /\ reading = 0
  BY DEF Init
<1>4. watchSlot = FALSE
  BY DEF Init
<1>5. FilesInv
  <2>1. \E D : files \in Seq(D)
    BY <1>2
  <2>2. logAsked \in 1 .. Len(files) /\ watchAsked \in 1 .. Len(files)
    BY <1>2, <1>3
  <2> QED BY <2>1, <2>2 DEF FilesInv
<1>6. LogInv
  BY <1>3 DEF LogInv
<1>7. WatchInv
  <2>1. reading \in 0 .. Len(files) /\ ~(reading > 0)
    BY <1>2, <1>3
  <2>2. pc \notin Starting /\ pc \notin Polling
    BY <1>3 DEF Starting, Polling
  <2> QED BY <1>3, <1>4, <2>1, <2>2 DEF WatchInv
<1> QED BY <1>5, <1>6, <1>7 DEF ReloadInv

LEMMA ReloadStep == ReloadInv /\ [Next]_vars => ReloadInv'
  BY FilesStep, LogStep, WatchStep DEF ReloadInv

(***************************************************************************)
(* No reload is lost or overtaken: whatever edits, signals, one-slot       *)
(* channels, polls and a start that is not over yet interleave, what is in *)
(* use or staged comes from a file no older than the last SIGHUP asks for, *)
(* once the watchers have nothing left to read (watchReload, QueueReload,  *)
(* applyPendingReload).                                                    *)
(***************************************************************************)
THEOREM ReloadsKept == Spec => []ReloadsTakeEffect
<1>1. ReloadInv => ReloadsTakeEffect
  BY DEF ReloadInv, LogInv, WatchInv, LogFrom, WatchFrom, ReloadsTakeEffect
<1> QED BY <1>1, ReloadInit, ReloadStep, PTL DEF Spec

(***************************************************************************)
(* The watchdog publishes the age of the write in flight before the next   *)
(* unit of time passes.                                                    *)
(***************************************************************************)
StallInv ==
  /\ age \in Nat /\ emitBlocked \in Nat /\ due \in {0, 1}
  /\ pc = "write" /\ due = 1 => emitBlocked >= age
  /\ pc = "write" /\ due = 0 => emitBlocked + 1 >= age

(***************************************************************************)
(* A write in flight for longer than the threshold shows in /readyz before *)
(* it returns, for every threshold and however long it lasts               *)
(* (blockTrackingEmitter.Emit).                                            *)
(***************************************************************************)
THEOREM StallShows == Spec => []WedgedIsNotReady
<1>1. Init => StallInv
  <2>1. Init => age = 0 /\ due = 0 /\ emitBlocked = 0 /\ pc = "boot"
    BY Zenon DEF Init
  <2> QED BY <2>1 DEF StallInv
<1>2. StallInv /\ [Next]_vars => StallInv'
  <2> SUFFICES ASSUME StallInv, [Next]_vars
               PROVE  StallInv'
    OBVIOUS
  <2>1. ASSUME UNCHANGED <<age, due, emitBlocked>>, pc' = "write" => pc = "write"
        PROVE  StallInv'
    BY <2>1 DEF StallInv
  <2>2. ASSUME NEW f \in Files, Edit(f)
        PROVE  StallInv'
    BY <2>1, <2>2 DEF Edit, health
  <2>3. CASE Hangup \/ Terminate
    BY <2>1, <2>3 DEF Hangup, Terminate, Exit, health
  <2>4. CASE StartLogging \/ Decode \/ Connect \/ Serve \/ OpenOutput \/ OpenCut
    BY <2>1, <2>4 DEF StartLogging, Decode, Connect, Serve, OpenOutput, OpenCut, Exit, health
  <2>5. CASE ReloadLogging \/ WatchReload \/ FinishReload
    BY <2>1, <2>5 DEF ReloadLogging, WatchReload, FinishReload, health
  <2>6. CASE BeginPoll \/ EndPoll \/ StopRun \/ Shutdown
    BY <2>1, <2>6 DEF BeginPoll, EndPoll, StopRun, Shutdown, Exit, health
  <2>7. CASE BeginWrite
    BY <2>7 DEF BeginWrite, StallInv
  <2>8. CASE Watchdog
    BY <2>8 DEF Watchdog, StallInv
  <2>9. CASE Tick
    BY <2>9 DEF Tick, StallInv
  <2>10. CASE EndWrite \/ WriteCut
    BY <2>10 DEF EndWrite, WriteCut, WriteReturns, StallInv
  <2>11. CASE UNCHANGED vars
    BY <2>1, <2>11 DEF vars, health
  <2> QED BY <2>2, <2>3, <2>4, <2>5, <2>6, <2>7, <2>8, <2>9, <2>10, <2>11 DEF Next
<1>3. StallInv => WedgedIsNotReady
  BY DEF StallInv, WedgedIsNotReady, Ready
<1> QED BY <1>1, <1>2, <1>3, PTL DEF Spec
-----------------------------------------------------------------------------
(***************************************************************************)
(* Types.  A second stop signal finds a process that has not ended.        *)
(***************************************************************************)
LifeInv ==
  /\ terms \in 0 .. 2 /\ (pc # "exited" => terms \in 0 .. 1)
  /\ pc \in {"boot", "hooked"} \cup Starting \cup Polling \cup Ended
  /\ why \in {"", "killed", "config", "rpc", "address", "open", "clean"}
  /\ why # "" <=> pc = "exited"

SetupInv == setup \in Setups /\ Version \in 1 .. (MaxEdits[setup] + 1)

(* What the handlers leave behind.                                         *)
HeldInv ==
  /\ {logSlot, rpcReachable} \subseteq BOOLEAN
  /\ LogIsValid(log) /\ (pendingWatch = {} \/ \E w : pendingWatch = {w})
  /\ age \in 0 .. MaxAge /\ due \in 0 .. 1 /\ emitBlocked \in 0 .. MaxAge

LEMMA LifeStep == LifeInv /\ [Next]_vars => LifeInv'
<1> SUFFICES ASSUME LifeInv, [Next]_vars
             PROVE  LifeInv'
  OBVIOUS
<1> USE DEF Starting, Polling, Ended
<1>1. CASE UNCHANGED <<terms, pc, why>>
  BY <1>1 DEF LifeInv
<1>2. CASE terms' = terms /\ pc # "exited" /\ pc' # "exited" /\ why' = why
           /\ pc' \in {"boot", "hooked"} \cup Starting \cup Polling \cup Ended
  BY <1>2 DEF LifeInv
<1>3. ASSUME NEW reason \in {"killed", "config", "rpc", "address", "open", "clean"}, Exit(reason),
             terms' \in 0 .. 2
      PROVE  LifeInv'
  BY <1>3 DEF Exit, LifeInv
<1>4. CASE \E f \in Files : Edit(f)
  BY <1>1, <1>4 DEF Edit, signals
<1>5. CASE Hangup
  BY <1>1, <1>3, <1>5 DEF Hangup, LifeInv
<1>6. CASE Terminate
  <2>1. pc # "exited" /\ terms' = terms + 1 /\ terms \in 0 .. 1
    BY <1>6 DEF Terminate, LifeInv
  <2>2. CASE pc = "boot" \/ cancelled
    <3>1. Exit("killed") /\ terms' \in 0 .. 2
      BY <1>6, <2>1, <2>2 DEF Terminate
    <3> QED
      BY <1>3, <3>1
  <2>3. CASE ~(pc = "boot" \/ cancelled)
    <3>1. UNCHANGED <<pc, why>> /\ terms' = 1
      BY <1>6, <2>1, <2>3 DEF Terminate, cancelled
    <3>2. terms' \in 0 .. 2 /\ terms' \in 0 .. 1
      BY <3>1
    <3> QED
      BY <3>1, <3>2 DEF LifeInv
  <2> QED
    BY <2>2, <2>3
<1>7. CASE StartLogging \/ Decode \/ Connect
  <2>1. terms' = terms /\ terms \in 0 .. 2
    BY <1>7 DEF StartLogging, Decode, Connect, signals, LifeInv
  <2> QED
    BY <1>2, <1>3, <1>7, <2>1 DEF StartLogging, Decode, Connect
<1>8. CASE Serve \/ OpenOutput \/ OpenCut \/ Shutdown
  <2>1. terms' = terms /\ terms \in 0 .. 2
    BY <1>8 DEF Serve, OpenOutput, OpenCut, Shutdown, signals, LifeInv
  <2> QED
    BY <1>2, <1>3, <1>8, <2>1 DEF Serve, OpenOutput, OpenCut, Shutdown
<1>9. CASE ReloadLogging \/ WatchReload \/ FinishReload \/ Watchdog \/ Tick
  BY <1>1, <1>9 DEF ReloadLogging, WatchReload, FinishReload, Watchdog, Tick, signals
<1>10. CASE BeginPoll \/ EndPoll \/ BeginWrite \/ EndWrite \/ WriteCut \/ StopRun
  BY <1>2, <1>10 DEF BeginPoll, EndPoll, BeginWrite, EndWrite, WriteCut, WriteReturns, StopRun, signals
<1>11. CASE UNCHANGED vars
  BY <1>1, <1>11 DEF vars, signals
<1> QED BY <1>4, <1>5, <1>6, <1>7, <1>8, <1>9, <1>10, <1>11 DEF Next

LEMMA SetupStep == FilesInv /\ SetupInv /\ [Next]_vars => SetupInv'
<1> SUFFICES ASSUME FilesInv, SetupInv, [Next]_vars
             PROVE  SetupInv'
  OBVIOUS
<1>1. CASE UNCHANGED operator
  BY <1>1 DEF SetupInv, operator
<1>2. ASSUME NEW f \in Files, Edit(f)
      PROVE  SetupInv'
  <2>1. setup' = setup /\ Len(files) <= MaxEdits[setup] /\ setup \in Setups
    BY <1>2 DEF Edit, SetupInv
  <2>2. Len(files) \in Nat /\ Len(files') = Len(files) + 1
    BY <1>2, EditKeeps
  <2>3. MaxEdits[setup] \in Nat
    BY <2>1
  <2> QED
    BY <2>1, <2>2, <2>3 DEF SetupInv
<1>3. (\A f \in Files : ~Edit(f)) => UNCHANGED operator
  BY DEF Next, vars, Hangup, Terminate, StartLogging, Decode, Connect, Serve, OpenOutput, OpenCut,
     ReloadLogging, WatchReload, FinishReload, BeginPoll, EndPoll, BeginWrite, Watchdog, Tick,
     EndWrite, WriteCut, WriteReturns, StopRun, Shutdown
<1> QED BY <1>1, <1>2, <1>3

LEMMA HeldStep == HeldInv /\ [Next]_vars => HeldInv'
<1> SUFFICES ASSUME HeldInv, [Next]_vars
             PROVE  HeldInv'
  OBVIOUS
<1>1. ASSUME logSlot' \in BOOLEAN, rpcReachable' \in BOOLEAN,
             log' = log \/ LogIsValid(log)',
             pendingWatch' = pendingWatch \/ pendingWatch' = {} \/ \E w : pendingWatch' = {w},
             age' \in 0 .. MaxAge, due' \in 0 .. 1, emitBlocked' \in 0 .. MaxAge
      PROVE  HeldInv'
  BY <1>1 DEF HeldInv, LogIsValid
<1>2. /\ logSlot \in BOOLEAN /\ rpcReachable \in BOOLEAN
      /\ age \in 0 .. MaxAge /\ due \in 0 .. 1 /\ emitBlocked \in 0 .. MaxAge
  BY DEF HeldInv
<1>3. ASSUME UNCHANGED <<log, pendingWatch>>, UNCHANGED health, logSlot' \in BOOLEAN
      PROVE  HeldInv'
  BY <1>1, <1>2, <1>3 DEF health
<1>4. CASE \E f \in Files : Edit(f)
  BY <1>2, <1>3, <1>4 DEF Edit, signals
<1>5. CASE Hangup \/ Terminate
  BY <1>2, <1>3, <1>5 DEF Hangup, Terminate
<1>6. CASE StartLogging
  BY <1>1, <1>2, <1>6 DEF StartLogging, signals, health, LogIsValid
<1>7. CASE Decode \/ Serve \/ OpenOutput \/ OpenCut \/ WatchReload \/ StopRun \/ Shutdown
  BY <1>2, <1>3, <1>7 DEF Decode, Serve, OpenOutput, OpenCut, WatchReload, StopRun, Shutdown, signals
<1>8. CASE Connect
  BY <1>1, <1>2, <1>8 DEF Connect, signals
<1>9. CASE ReloadLogging
  BY <1>1, <1>2, <1>9 DEF ReloadLogging, health, LogIsValid
<1>10. CASE FinishReload
  BY <1>1, <1>2, <1>10 DEF FinishReload, QueueReload, signals, health
<1>11. CASE BeginPoll \/ EndPoll
  BY <1>1, <1>2, <1>11 DEF BeginPoll, ApplyPendingReload, EndPoll, signals, health
<1>12. CASE BeginWrite \/ Watchdog \/ EndWrite \/ WriteCut
  <2>1. 0 \in 0 .. MaxAge
    OBVIOUS
  <2> QED
    BY <1>1, <1>2, <1>12, <2>1 DEF BeginWrite, Watchdog, EndWrite, WriteCut, WriteReturns, signals
<1>13. CASE Tick
  <2>1. age' \in 0 .. MaxAge /\ due' \in 0 .. 1
    BY <1>2, <1>13 DEF Tick
  <2> QED
    BY <1>1, <1>2, <1>13, <2>1 DEF Tick, signals
<1>14. CASE UNCHANGED vars
  BY <1>2, <1>3, <1>14 DEF vars, signals
<1> QED BY <1>4, <1>5, <1>6, <1>7, <1>8, <1>9, <1>10, <1>11, <1>12, <1>13, <1>14 DEF Next

(***************************************************************************)
(* Types of the state, and what each stage of the life has set up.         *)
(***************************************************************************)
THEOREM TypeCorrect == Spec => []TypeOK
<1> DEFINE I == ReloadInv /\ LifeInv /\ SetupInv /\ HeldInv
<1>1. Init => I
  <2> SUFFICES ASSUME Init PROVE LifeInv /\ SetupInv /\ HeldInv
    BY ReloadInit
  <2>1. LifeInv
    <3>1. terms = 0 /\ pc = "boot" /\ why = ""
      BY DEF Init
    <3>2. 0 \in 0 .. 2 /\ 0 \in 0 .. 1
      OBVIOUS
    <3>3. terms \in 0 .. 2 /\ terms \in 0 .. 1
      BY <3>1, <3>2
    <3>4. pc # "exited" /\ ~(why # "")
      BY <3>1
    <3>5. why \in {"", "killed", "config", "rpc", "address", "open", "clean"}
      BY <3>1
    <3>6. pc \in {"boot", "hooked"} \cup Starting \cup Polling \cup Ended
      BY <3>1
    <3> QED
      BY <3>3, <3>4, <3>5, <3>6 DEF LifeInv
  <2>2. SetupInv
    <3>1. Len(files) = 1 /\ setup \in Setups
      BY DEF Init
    <3>2. MaxEdits[setup] \in Nat
      BY <3>1
    <3> QED
      BY <3>1, <3>2 DEF SetupInv
  <2>3. HeldInv
    <3>1. logSlot = FALSE /\ rpcReachable = FALSE
      BY DEF Init
    <3>2. LogIsValid(log)
      BY DEF Init, NoLog, LogIsValid, ParseLevel, ParseFormat
    <3>3. age = 0 /\ due = 0 /\ emitBlocked = 0 /\ pendingWatch = {}
      BY DEF Init
    <3>4. 0 \in 0 .. MaxAge /\ 0 \in 0 .. 1
      OBVIOUS
    <3> QED
      BY <3>1, <3>2, <3>3, <3>4 DEF HeldInv
  <2> QED
    BY <2>1, <2>2, <2>3
<1>2. I /\ [Next]_vars => I'
  BY ReloadStep, LifeStep, SetupStep, HeldStep DEF ReloadInv
<1>3. I => TypeOK
  <2> SUFFICES ASSUME I PROVE TypeOK
    OBVIOUS
  <2>1. Cardinality(pendingWatch) <= 1
    <3>1. CASE pendingWatch = {}
      BY <3>1, FS_EmptySet
    <3>2. ASSUME NEW w, pendingWatch = {w}
          PROVE  Cardinality(pendingWatch) <= 1
      <4>1. Cardinality({w}) = 1
        BY FS_Singleton
      <4> QED
        BY <3>2, <4>1
    <3> QED
      BY <3>1, <3>2 DEF HeldInv
  <2>2. reading \in 0 .. Version /\ (watchSlot \/ reading > 0 => pc \in Polling \cup Ended)
    <3>1. reading \in 0 .. Version /\ reading \in Nat
      BY DEF ReloadInv, FilesInv, WatchInv
    <3>2. CASE pc \in Polling \cup Ended
      BY <3>1, <3>2
    <3>3. CASE pc \in {"boot", "hooked"} \cup Starting
      <4>1. ~watchSlot /\ reading = 0
        BY <3>3 DEF ReloadInv, WatchInv
      <4> QED
        BY <3>1, <4>1
    <3> QED
      BY <3>2, <3>3 DEF LifeInv
  <2>3. watchSlot \in BOOLEAN /\ logAsked \in 1 .. Version /\ watchAsked \in 1 .. Version
    BY DEF ReloadInv, FilesInv, WatchInv
  <2>4. pc \in {"boot", "hooked", "decoded", "connected", "serving"} \cup Polling \cup Ended
    BY DEF LifeInv, Starting
  <2> QED
    BY <2>1, <2>2, <2>3, <2>4 DEF TypeOK, HeldInv, LifeInv, SetupInv
<1> QED BY <1>1, <1>2, <1>3, PTL DEF Spec
-----------------------------------------------------------------------------
(***************************************************************************)
(* The start.  run and validate make the same checks.                      *)
(***************************************************************************)
LEMMA ValidateIsRun ==
  ASSUME NEW d
  PROVE  ValidateAccepts(d) <=> LogIsValid(SetupLogging(setup, d)) /\ RunAccepts(d)
  BY DEF ValidateAccepts, RunAccepts, StreamRunAccepts, StreamValidateAccepts, BalanceRunAccepts,
     BalanceValidateAccepts

(***************************************************************************)
(* The log settings are checked before the handler is installed, the rest  *)
(* before the settings are used; a decision that was taken with the first  *)
(* version of the file stands.                                             *)
(***************************************************************************)
StartInv ==
  Version = 1 =>
    /\ pc = "hooked" => LogIsValid(SetupLogging(setup, files[1]))
    /\ pc = "decoded" => ValidateAccepts(files[1])
    /\ why = "config" => ~ValidateAccepts(files[1])

LEMMA StartStep == FilesInv /\ StartInv /\ [Next]_vars => StartInv'
<1> SUFFICES ASSUME FilesInv, StartInv, [Next]_vars
             PROVE  StartInv'
  OBVIOUS
<1>1. ASSUME UNCHANGED operator,
             pc' = "hooked" => pc = "hooked", pc' = "decoded" => pc = "decoded",
             why' = "config" => why = "config"
      PROVE  StartInv'
  <2>1. setup' = setup /\ files' = files
    BY <1>1 DEF operator
  <2>2. (ValidateAccepts(files[1])' <=> ValidateAccepts(files[1]))
    BY <2>1 DEF ValidateAccepts, IsStream, StreamValidateAccepts, BalanceValidateAccepts, StreamLoads,
       BalanceLoads, DecodeStream, DecodeBalance, StreamWatch, BalanceWatch
  <2> QED
    BY <1>1, <2>1, <2>2 DEF StartInv
<1>2. ASSUME NEW f \in Files, Edit(f)
      PROVE  StartInv'
  <2>1. Len(files) \in Nat \ {0} /\ Len(files') = Len(files) + 1
    BY <1>2, EditKeeps DEF FilesInv
  <2>2. Len(files') # 1
    BY <2>1
  <2> QED
    BY <2>2 DEF StartInv
<1>3. CASE StartLogging
  <2>1. setup' = setup /\ files' = files
    BY <1>3 DEF StartLogging, operator
  <2>2. SUFFICES ASSUME Len(files) = 1 PROVE StartInv'
    BY <2>1 DEF StartInv
  <2>3. (ValidateAccepts(files[1])' <=> ValidateAccepts(files[1]))
    BY <2>1 DEF ValidateAccepts, IsStream, StreamValidateAccepts, BalanceValidateAccepts, StreamLoads,
       BalanceLoads, DecodeStream, DecodeBalance, StreamWatch, BalanceWatch
  <2>4. CASE LogIsValid(SetupLogging(setup, files[1]))
    BY <1>3, <2>1, <2>2, <2>3, <2>4 DEF StartLogging, StartInv
  <2>5. CASE ~LogIsValid(SetupLogging(setup, files[1]))
    BY <1>3, <2>1, <2>2, <2>3, <2>5, ValidateIsRun DEF StartLogging, Exit, StartInv
  <2> QED
    BY <2>4, <2>5
<1>4. CASE Decode
  <2>1. setup' = setup /\ files' = files
    BY <1>4 DEF Decode, operator
  <2>2. SUFFICES ASSUME Len(files) = 1 PROVE StartInv'
    BY <2>1 DEF StartInv
  <2>3. (ValidateAccepts(files[1])' <=> ValidateAccepts(files[1]))
    BY <2>1 DEF ValidateAccepts, IsStream, StreamValidateAccepts, BalanceValidateAccepts, StreamLoads,
       BalanceLoads, DecodeStream, DecodeBalance, StreamWatch, BalanceWatch
  <2>4. LogIsValid(SetupLogging(setup, files[1]))
    BY <1>4, <2>2 DEF Decode, StartInv
  <2>5. CASE RunAccepts(files[1])
    BY <1>4, <2>1, <2>2, <2>3, <2>4, <2>5, ValidateIsRun DEF Decode, StartInv
  <2>6. CASE ~RunAccepts(files[1])
    BY <1>4, <2>1, <2>2, <2>3, <2>6, ValidateIsRun DEF Decode, Exit, StartInv
  <2> QED
    BY <2>5, <2>6
<1>5. CASE Hangup \/ Terminate \/ Connect \/ Serve \/ OpenOutput \/ OpenCut
  BY <1>1, <1>5 DEF Hangup, Terminate, Connect, Serve, OpenOutput, OpenCut, Exit
<1>6. CASE ReloadLogging \/ WatchReload \/ FinishReload \/ Watchdog \/ Tick
  BY <1>1, <1>6 DEF ReloadLogging, WatchReload, FinishReload, Watchdog, Tick
<1>7. CASE BeginPoll \/ EndPoll \/ BeginWrite \/ EndWrite \/ WriteCut \/ StopRun \/ Shutdown
  BY <1>1, <1>7 DEF BeginPoll, EndPoll, BeginWrite, EndWrite, WriteCut, WriteReturns, StopRun,
     Shutdown, Exit
<1>8. CASE UNCHANGED vars
  BY <1>1, <1>8 DEF vars
<1> QED BY <1>2, <1>3, <1>4, <1>5, <1>6, <1>7, <1>8 DEF Next

(***************************************************************************)
(* run gets as far as connecting exactly with a configuration that         *)
(* validate accepts, when nobody edits it in between.                      *)
(***************************************************************************)
THEOREM RunIsValidated == Spec => []StartsIffValid
<1>1. Init => FilesInv /\ StartInv
  BY ReloadInit DEF Init, ReloadInv, StartInv
<1>2. FilesInv /\ StartInv /\ [Next]_vars => (FilesInv /\ StartInv)'
  BY FilesStep, StartStep
<1>3. StartInv => StartsIffValid
  BY DEF StartInv, StartsIffValid
<1> QED BY <1>1, <1>2, <1>3, PTL DEF Spec
-----------------------------------------------------------------------------
(***************************************************************************)
(* The value of a key.  Which source gives it is decided in five cases, by *)
(* three functions that each ask for the flags and the environment in      *)
(* their own way (resolve, interpolate, viper).                            *)
(***************************************************************************)
LEMMA PlainText ==
  ASSUME NEW s, NEW t
  PROVE  Text(t).text = t /\ Text(t).var = "" /\ ExpandExpr(s, Text(t)) = t
<1>1. Text(t).text = t /\ Text(t).var = ""
  BY DEF Text
<1> QED
  BY <1>1 DEF ExpandExpr

LEMMA ValueIsPromised ==
  ASSUME NEW s, NEW f, NEW k \in Keys, ~(k \in DOMAIN s.env /\ s.env[k] = "")
  PROVE  Value(s, f, k) = Promised(s, f, k)
<1> DEFINE flagged == k \in BindChangedFlags(s)
           bound   == k \in DOMAIN s.env
<1>1. flagged <=> k \in FlagBindings /\ k \in DOMAIN s.flags
  BY DEF BindChangedFlags
<1>2. (EnvGives(s, k) <=> bound) /\ (IsBindingOverride(s, k) <=> flagged \/ bound)
  BY DEF EnvGives, BindEnvKeys, IsBindingOverride
<1>3. CASE flagged
  <2>1. Value(s, f, k) = InterpolateValue(s, f, k)
    BY <1>2, <1>3 DEF Value, Runs, Given
  <2>2. Viper(s, f, k) = Text(s.flags[k])
    BY <1>3 DEF Viper
  <2>3. Value(s, f, k) = s.flags[k]
    BY <1>2, <1>3, <2>1, <2>2, PlainText DEF InterpolateValue
  <2> QED
    BY <1>1, <1>3, <2>3 DEF Promised
<1>4. CASE ~flagged /\ bound
  <2>1. Value(s, f, k) = InterpolateValue(s, f, k)
    BY <1>2, <1>4 DEF Value, Runs, Given
  <2>2. Viper(s, f, k) = Text(s.env[k])
    BY <1>2, <1>4 DEF Viper
  <2>3. Value(s, f, k) = s.env[k]
    BY <1>2, <1>4, <2>1, <2>2, PlainText DEF InterpolateValue
  <2> QED
    BY <1>1, <1>4, <2>3 DEF Promised
<1>5. CASE ~flagged /\ ~bound /\ k \in DOMAIN f.cmds
  <2>1. Value(s, f, k) = s.stdout[ExpandExpr(s, f.cmds[k])]
    BY <1>2, <1>5 DEF Value, Runs, RunCmd
  <2> QED
    BY <1>1, <1>5, <2>1 DEF Promised
<1>6. CASE ~flagged /\ ~bound /\ k \notin DOMAIN f.cmds /\ k \in DOMAIN f.entries
  <2>1. Value(s, f, k) = InterpolateValue(s, f, k)
    BY <1>6 DEF Value, Runs, Given
  <2>2. Viper(s, f, k) = f.entries[k]
    BY <1>2, <1>6 DEF Viper
  <2>3. Value(s, f, k) = ExpandExpr(s, f.entries[k])
    BY <1>2, <1>6, <2>1, <2>2 DEF InterpolateValue
  <2> QED
    BY <1>1, <1>6, <2>3 DEF Promised
<1>7. CASE ~flagged /\ ~bound /\ k \notin DOMAIN f.cmds /\ k \notin DOMAIN f.entries
  <2>1. Promised(s, f, k) = IF k \in DOMAIN SetDefaults THEN SetDefaults[k] ELSE ""
    BY <1>1, <1>7 DEF Promised
  <2>2. Given(s, f, k) <=> k \in DOMAIN SetDefaults
    BY <1>2, <1>7 DEF Given
  <2>3. CASE k \in DOMAIN SetDefaults
    <3>1. Value(s, f, k) = InterpolateValue(s, f, k)
      BY <1>7, <2>2, <2>3 DEF Value, Runs
    <3>2. Viper(s, f, k) = Text(SetDefaults[k])
      BY <1>2, <1>7 DEF Viper
    <3>3. Value(s, f, k) = ExpandExpr(s, Text(SetDefaults[k]))
      BY <1>2, <1>7, <3>1, <3>2 DEF InterpolateValue
    <3>4. ExpandExpr(s, Text(SetDefaults[k])) = SetDefaults[k]
      BY PlainText
    <3> QED
      BY <2>1, <2>3, <3>3, <3>4
  <2>4. CASE k \notin DOMAIN SetDefaults
    BY <1>7, <2>1, <2>2, <2>4 DEF Value, Runs
  <2> QED
    BY <2>3, <2>4
<1> QED
  BY <1>3, <1>4, <1>5, <1>6, <1>7

(***************************************************************************)
(* Until it has connected, the process holds the settings of the version   *)
(* it decoded, whatever has been edited since.                             *)
(***************************************************************************)
DecodedInv == pc = "decoded" => cfg = Settings(files[watchAsked])

LEMMA DecodedStep == FilesInv /\ DecodedInv /\ [Next]_vars => DecodedInv'
<1> SUFFICES ASSUME FilesInv, DecodedInv, [Next]_vars, pc' = "decoded"
             PROVE  cfg' = Settings(files[watchAsked])'
  BY DEF DecodedInv
<1>1. ASSUME NEW v, setup' = setup, files'[v] = files[v], watchAsked' = v, cfg' = Settings(files[v])
      PROVE  cfg' = Settings(files[watchAsked])'
  BY <1>1 DEF Settings, IsStream, DecodeStream, DecodeBalance
<1>2. ASSUME UNCHANGED <<operator, cfg, watchAsked>>, pc = "decoded"
      PROVE  cfg' = Settings(files[watchAsked])'
  BY <1>1, <1>2 DEF DecodedInv, operator
<1>3. ASSUME NEW f \in Files, Edit(f)
      PROVE  cfg' = Settings(files[watchAsked])'
  <2>1. UNCHANGED <<setup, pc, cfg, watchAsked>>
    BY <1>3 DEF Edit, asked
  <2>2. watchAsked \in 1 .. Len(files)
    BY DEF FilesInv
  <2>3. files'[watchAsked] = files[watchAsked]
    BY <1>3, <2>2, EditKeeps
  <2> QED
    BY <1>1, <2>1, <2>3 DEF DecodedInv
<1>4. CASE Decode
  <2>1. UNCHANGED <<setup, files>> /\ watchAsked' = Len(files) /\ cfg' = Settings(files[Len(files)])
    BY <1>4 DEF Decode, operator, Exit
  <2> QED
    BY <1>1, <2>1
<1>5. CASE Hangup
  BY <1>2, <1>5 DEF Hangup, WatchRegistered, Polling, Exit
<1>6. CASE Terminate \/ ReloadLogging \/ FinishReload
  BY <1>2, <1>6 DEF Terminate, ReloadLogging, FinishReload, Exit, asked
<1>7. ~StartLogging /\ ~Connect /\ ~Serve /\ ~OpenOutput /\ ~OpenCut /\ ~WatchReload
  BY DEF StartLogging, Connect, Serve, OpenOutput, OpenCut, WatchReload, Exit, Polling
<1>8. ~BeginPoll /\ ~EndPoll /\ ~BeginWrite /\ ~Watchdog /\ ~Tick
  BY DEF BeginPoll, EndPoll, BeginWrite, Watchdog, Tick
<1>9. ~EndWrite /\ ~WriteCut /\ ~StopRun /\ ~Shutdown
  BY DEF EndWrite, WriteCut, WriteReturns, StopRun, Shutdown, Exit
<1>10. CASE UNCHANGED vars
  BY <1>2, <1>10 DEF vars, asked
<1> QED BY <1>3, <1>4, <1>5, <1>6, <1>7, <1>8, <1>9, <1>10 DEF Next

(***************************************************************************)
(* Every key has the value the documentation promises (New, resolve,       *)
(* strictDecode), for every command line, environment and file.            *)
(***************************************************************************)
THEOREM SettingsPromised == Spec => []SettingsAsPromised
<1>1. Init => FilesInv /\ DecodedInv
  BY ReloadInit DEF Init, ReloadInv, DecodedInv
<1>2. FilesInv /\ DecodedInv /\ [Next]_vars => (FilesInv /\ DecodedInv)'
  BY FilesStep, DecodedStep
<1>3. DecodedInv => SettingsAsPromised
  <2> DEFINE f == ReadConfigFile(setup, files[watchAsked])
  <2> SUFFICES ASSUME DecodedInv, pc = "decoded", NEW k \in DOMAIN cfg,
                      ~(k \in DOMAIN setup.env /\ setup.env[k] = "")
               PROVE  cfg[k] = Promised(setup, f, k)
    BY DEF SettingsAsPromised
  <2>1. ASSUME NEW section, cfg = StrictDecode(setup, f, section)
        PROVE  cfg[k] = Promised(setup, f, k)
    <3>1. k \in Keys /\ cfg[k] = Value(setup, f, k)
      BY <2>1 DEF StrictDecode, KeysOf
    <3> QED
      BY <3>1, ValueIsPromised
  <2>2. cfg = StrictDecode(setup, f, "stream") \/ cfg = StrictDecode(setup, f, "balance")
    BY DEF DecodedInv, Settings, DecodeStream, DecodeBalance
  <2> QED
    BY <2>1, <2>2
<1> QED BY <1>1, <1>2, <1>3, PTL DEF Spec
=============================================================================
