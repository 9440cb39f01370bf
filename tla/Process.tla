------------------------------ MODULE Process ------------------------------
(***************************************************************************)
(* The life of a producer's process (internal/cli): start, signals, the    *)
(* reload of its configuration while it polls, the readiness it reports    *)
(* while a write blocks, and its shutdown.  Config says what a             *)
(* configuration file means.  An operator edits the file and sends SIGHUP, *)
(* SIGINT or SIGTERM at any moment; two goroutines wait for SIGHUP, one    *)
(* per thing that can be reloaded, each with a channel of one slot.        *)
(*                                                                         *)
(* Abstractions.  A poll is a step that begins, writes some records, and   *)
(* succeeds or fails; Stream and Balance say what it does.  A write that   *)
(* the consumer does not take is an EndWrite that does not happen.  Time   *)
(* passes only during a write, in units of the watchdog's interval.  Lag   *)
(* and the age of the head, and a metrics server that ends by itself, only *)
(* add reasons not to be ready and are left out.                           *)
(***************************************************************************)
EXTENDS Config

CONSTANTS
  Setups,     \* how the process may be started
  Disks,      \* the configuration files at that time
  Files,      \* what an operator's edit leaves in the file in use
  Taken,      \* metrics addresses other processes listen on
  Threshold,  \* readyEmitBlockedThreshold, in units of the watchdog interval
  MaxEdits,   \* bound: edits of the file, by setup
  MaxAge      \* bound: time passes no further during one write

ASSUME ProcessAssumption ==
  /\ \A s \in Setups : s.tool \in {"stream", "balance"}
  /\ Threshold \in Nat \ {0} /\ MaxAge \in Nat /\ MaxEdits \in [Setups -> Nat]

VARIABLES
  \* the operator
  setup,         \* the command line and the environment
  files,         \* the configuration files, one entry per edit, the newest last
  \* signals
  terms,         \* SIGINT and SIGTERM received
  logSlot,       \* the channel of the watcher that reloads the log settings
  watchSlot,     \* the channel of the watcher that reloads the watched set
  \* the process
  pc,
  why,           \* why it exited
  cfg,           \* the settings it started with
  log,           \* the log settings in force
  watch,         \* the watched set in use
  pendingWatch,  \* the watched set staged by a reload, as a set of at most one
  reading,       \* the version of the files a reload has read; 0 = none
  \* the emitter and the readiness it feeds
  age,           \* time since the write in flight began
  due,           \* time until the watchdog's next tick
  emitBlocked,   \* Health.emitBlockedMillis
  rpcReachable,
  \* history
  logAsked,      \* the version the log settings must not be older than
  watchAsked     \* the same for the watched set

operator == <<setup, files>>
signals  == <<terms, logSlot, watchSlot>>
health   == <<age, due, emitBlocked, rpcReachable>>
asked    == <<logAsked, watchAsked>>
vars == <<operator, signals, pc, why, cfg, log, watch, pendingWatch, reading, health, asked>>

Version   == Len(files)
cancelled == terms > 0
Polling   == {"top", "poll", "write"}
Ended     == {"drain", "exited"}
Exit(reason) == pc' = "exited" /\ why' = reason
-----------------------------------------------------------------------------
(* What the two tools make of a configuration file: the set to watch, and  *)
(* whether run, validate and a reload accept it.                           *)
DecodeStream(d) == StrictDecode(setup, ReadConfigFile(setup, d), "stream")
StreamWatch(d)  == ApplyStreamFlags(setup, ReadConfigFile(setup, d))
StreamLoads(d)  == ~StrictDecodeFails(setup, ReadConfigFile(setup, d), "stream")
                   /\ ~ApplyStreamFlagsFails(setup)

\* Mutated form of StreamRunAccepts: run leaves the cross-field checks to validate.
StreamRunAccepts_NoValidate(d) ==
  StreamLoads(d) /\ ~ResolveContractsFails(StreamWatch(d).targets)
StreamRunAccepts(d) ==
  /\ StreamLoads(d)
  /\ ValidateStream(DecodeStream(d), StreamWatch(d))
  /\ ~ResolveContractsFails(StreamWatch(d).targets)
StreamValidateAccepts(d) ==
  /\ StreamLoads(d)
  /\ ValidateStream(DecodeStream(d), StreamWatch(d))
  /\ ~ResolveContractsFails(StreamWatch(d).targets)
\* A reload of evm-stream repeats the resolution, not the cross-field checks.
ReloadStreamAccepts(d) == StreamLoads(d) /\ ~ResolveContractsFails(StreamWatch(d).targets)
\* setWatchSet: the addresses to ask for, and the native-transfer filter.
SetWatchSet(w) == [targets |-> ResolveContracts(w.targets), native |-> w.native, internal |-> w.internal]

DecodeBalance(d) == StrictDecode(setup, ReadConfigFile(setup, d), "balance")
BalanceWatch(d)  == ApplyBalanceFlags(setup, ReadConfigFile(setup, d))
BalanceLoads(d)  == ~StrictDecodeFails(setup, ReadConfigFile(setup, d), "balance")
                    /\ ~ApplyBalanceFlagsFails(setup)
BalanceRunAccepts(d)      == BalanceLoads(d) /\ ValidateBalance(DecodeBalance(d), BalanceWatch(d))
BalanceValidateAccepts(d) == BalanceLoads(d) /\ ValidateBalance(DecodeBalance(d), BalanceWatch(d))
ReloadBalanceAccepts(d)   == BalanceLoads(d) /\ ResolveTargets(DecodeBalance(d), BalanceWatch(d))
                             /\ BalanceWatch(d) # <<>>

IsStream == setup.tool = "stream"
RunAccepts(d)      == IF IsStream THEN StreamRunAccepts(d) ELSE BalanceRunAccepts(d)
ValidateAccepts(d) == LogIsValid(SetupLogging(setup, d)) /\
                      IF IsStream THEN StreamValidateAccepts(d) ELSE BalanceValidateAccepts(d)
ReloadAccepts(d)   == IF IsStream THEN ReloadStreamAccepts(d) ELSE ReloadBalanceAccepts(d)
Settings(d) == IF IsStream THEN DecodeStream(d) ELSE DecodeBalance(d)
WatchOf(d)  == IF IsStream THEN SetWatchSet(StreamWatch(d))
               ELSE [targets |-> ToSet(BalanceWatch(d)), native |-> FALSE, internal |-> FALSE]
HasOutput == OutputSpec(setup, cfg) # ""
-----------------------------------------------------------------------------
NoWatch == [targets |-> {}, native |-> FALSE, internal |-> FALSE]
NoLog   == [level |-> "", format |-> ""]
Init ==
  /\ setup \in Setups /\ \E d \in Disks : files = <<d>>
  /\ terms = 0 /\ logSlot = FALSE /\ watchSlot = FALSE
  /\ pc = "boot" /\ why = "" /\ cfg = <<>> /\ log = NoLog
  /\ watch = NoWatch /\ pendingWatch = {} /\ reading = 0
  /\ age = 0 /\ due = 0 /\ emitBlocked = 0 /\ rpcReachable = FALSE
  /\ logAsked = 1 /\ watchAsked = 1

\* The operator rewrites the file in use, or the one that would be found first.
Edit(f) ==
  /\ pc # "exited" /\ Version <= MaxEdits[setup]
  /\ LET d     == files[Version]
         found == IF setup.configFile # <<>> THEN setup.configFile ELSE FindDefaultConfig(d)
         path  == IF found # <<>> THEN found[1] ELSE SearchPlaces[1]
     IN files' = Append(files, path :> f @@ d)
  /\ UNCHANGED <<setup, signals, pc, why, cfg, log, watch, pendingWatch, reading, health, asked>>

\* Mutated form of WatchRegistered: the watcher is there with the one for the log.
WatchRegistered_WithLog == pc \notin {"boot", "exited"}
\* The watcher of the watched set is registered just before the loop runs.
WatchRegistered == pc \in Polling

\* SIGHUP: fatal before the first watcher has registered; then each channel
\* that exists takes it, or holds one already.  After a stop signal nobody
\* would notice it.
Hangup ==
  /\ pc # "exited" /\ ~cancelled
  /\ \/ pc = "boot" /\ Exit("killed") /\ UNCHANGED <<logSlot, watchSlot, asked>>
     \/ /\ pc # "boot" /\ logSlot' = TRUE /\ logAsked' = Version
        /\ watchSlot' = WatchRegistered
        /\ watchAsked' = IF WatchRegistered THEN Version ELSE watchAsked
        /\ UNCHANGED <<pc, why>>
  /\ UNCHANGED <<operator, terms, cfg, log, watch, pendingWatch, reading, health>>

\* SIGINT or SIGTERM: fatal before the handler exists; the first cancels the
\* context, the second exits at once.
Terminate ==
  /\ pc # "exited" /\ terms' = terms + 1
  /\ IF pc = "boot" \/ cancelled THEN Exit("killed") ELSE UNCHANGED <<pc, why>>
  /\ UNCHANGED <<operator, logSlot, watchSlot, cfg, log, watch, pendingWatch, reading, health, asked>>
-----------------------------------------------------------------------------
(* Start.                                                                  *)
StartLogging ==
  /\ pc = "boot"
  /\ LET l == SetupLogging(setup, files[Version])
     IN IF LogIsValid(l) THEN log' = l /\ pc' = "hooked" /\ UNCHANGED why
        ELSE Exit("config") /\ UNCHANGED log
  /\ logAsked' = Version
  /\ UNCHANGED <<operator, signals, cfg, watch, pendingWatch, reading, health, watchAsked>>

Decode ==
  /\ pc = "hooked"
  /\ LET d == files[Version]
     IN IF RunAccepts(d)
        THEN cfg' = Settings(d) /\ watch' = WatchOf(d) /\ pc' = "decoded" /\ UNCHANGED why
        ELSE Exit("config") /\ UNCHANGED <<cfg, watch>>
  /\ watchAsked' = Version
  /\ UNCHANGED <<operator, signals, log, pendingWatch, reading, health, logAsked>>

\* chain.Resolve: one call, which a cancelled context ends with an error.
Connect ==
  /\ pc = "decoded"
  /\ \/ ~cancelled /\ pc' = "connected" /\ rpcReachable' = TRUE /\ UNCHANGED why
     \/ Exit("rpc") /\ UNCHANGED rpcReachable
  /\ UNCHANGED <<operator, signals, cfg, log, watch, pendingWatch, reading, age, due, emitBlocked, asked>>

\* The metrics server listens, the output opens, the loop is built, and the
\* watched set can be reloaded from now on.
Serve ==
  /\ pc = "connected"
  /\ IF ResolveMetrics(setup, cfg) \in Taken THEN Exit("address") ELSE pc' = "serving" /\ UNCHANGED why
  /\ UNCHANGED <<operator, signals, cfg, log, watch, pendingWatch, reading, health, asked>>

\* A socket may wait for its first consumer (--block-until-consumer, the default):
\* the step may then never be taken.
OpenOutput ==
  /\ pc = "serving"
  /\ IF OutputSpec(setup, cfg) \in {"", "socket"} /\ ~(IsStream /\ NewStreamFails(cfg))
     THEN pc' = "top" /\ UNCHANGED why
     ELSE Exit("open")
  /\ UNCHANGED <<operator, signals, cfg, log, watch, pendingWatch, reading, health, asked>>
\* waitForConns: the cancelled context ends that wait, and the start with an error.
OpenCut ==
  /\ pc = "serving" /\ cancelled /\ OutputSpec(setup, cfg) = "socket" /\ Exit("open")
  /\ UNCHANGED <<operator, signals, cfg, log, watch, pendingWatch, reading, health, asked>>
-----------------------------------------------------------------------------
(* The two reload goroutines.                                              *)
ReloadLogging ==
  /\ logSlot /\ pc # "exited" /\ logSlot' = FALSE
  /\ LET d == files[Version]
     IN IF ~ResolvedLogFails(setup, d) /\ LogIsValid(ResolvedLog(setup, d))
        THEN log' = ResolvedLog(setup, d) ELSE UNCHANGED log
  /\ UNCHANGED <<operator, terms, watchSlot, pc, why, cfg, watch, pendingWatch, reading, health, asked>>

\* It takes the signal and reads the file; the rest is FinishReload.
WatchReload ==
  /\ watchSlot /\ reading = 0 /\ pc \in Polling
  /\ watchSlot' = FALSE /\ reading' = Version
  /\ UNCHANGED <<operator, terms, logSlot, pc, why, cfg, log, watch, pendingWatch, health, asked>>

\* Mutated form of QueueReload: a set that is already staged stays.
QueueReload_FirstWins(w) == pendingWatch' = IF pendingWatch = {} THEN {w} ELSE pendingWatch
QueueReload(w) == pendingWatch' = {w}

FinishReload ==
  /\ reading > 0 /\ pc # "exited" /\ reading' = 0
  /\ IF ReloadAccepts(files[reading]) THEN QueueReload(WatchOf(files[reading]))
     ELSE UNCHANGED pendingWatch
  /\ UNCHANGED <<operator, signals, pc, why, cfg, log, watch, health, asked>>
-----------------------------------------------------------------------------
(* Run: polls, and the writes within them.                                 *)
ApplyPendingReload == watch' = (IF pendingWatch = {} THEN watch ELSE CHOOSE w \in pendingWatch : TRUE)
                      /\ pendingWatch' = {}

BeginPoll ==
  /\ pc = "top" /\ ~cancelled /\ pc' = "poll" /\ ApplyPendingReload
  /\ UNCHANGED <<operator, signals, why, cfg, log, reading, health, asked>>

EndPoll ==
  /\ pc = "poll" /\ ~cancelled /\ pc' = "top" /\ rpcReachable' \in BOOLEAN
  /\ UNCHANGED <<operator, signals, why, cfg, log, watch, pendingWatch, reading, age, due, emitBlocked, asked>>

\* After the stop the output is closed and a write fails at once: StopRun.
BeginWrite ==
  /\ pc = "poll" /\ ~cancelled /\ pc' = "write" /\ age' = 0 /\ due' = 1
  /\ UNCHANGED <<operator, signals, why, cfg, log, watch, pendingWatch, reading, emitBlocked, rpcReachable, asked>>

\* Mutated form of Watchdog: only a write that has returned is reported.
Watchdog_OnlyOnReturn ==
  /\ pc = "write" /\ due = 0 /\ due' = 1
  /\ UNCHANGED <<operator, signals, pc, why, cfg, log, watch, pendingWatch, reading, age, emitBlocked, rpcReachable, asked>>
\* The ticker fires: the blocked time so far is published.
Watchdog ==
  /\ pc = "write" /\ due = 0
  /\ emitBlocked' = age /\ due' = 1
  /\ UNCHANGED <<operator, signals, pc, why, cfg, log, watch, pendingWatch, reading, age, rpcReachable, asked>>

\* Time passes: the output blocks, and the watchdog is not late.
Tick ==
  /\ pc = "write" /\ HasOutput /\ due > 0 /\ age < MaxAge
  /\ age' = age + 1 /\ due' = due - 1
  /\ UNCHANGED <<operator, signals, pc, why, cfg, log, watch, pendingWatch, reading, emitBlocked, rpcReachable, asked>>

WriteReturns(next) ==
  /\ pc = "write" /\ pc' = next /\ emitBlocked' = age /\ age' = 0 /\ due' = 0
  /\ UNCHANGED <<operator, signals, why, cfg, log, watch, pendingWatch, reading, rpcReachable, asked>>
EndWrite == WriteReturns("poll")
\* Mutated form of WriteCut: the output stays open while a write is in flight.
WriteCut_WaitsForConsumer == FALSE
\* The cancelled context closes the output under the write.
WriteCut == cancelled /\ WriteReturns("drain")

\* Run returns: a cancelled poll, wait or back-off is a clean stop.
StopRun ==
  /\ pc \in {"top", "poll"} /\ cancelled /\ pc' = "drain"
  /\ UNCHANGED <<operator, signals, why, cfg, log, watch, pendingWatch, reading, health, asked>>
\* The server is shut down, the writer flushed, the output closed.
Shutdown ==
  /\ pc = "drain" /\ Exit("clean")
  /\ UNCHANGED <<operator, signals, cfg, log, watch, pendingWatch, reading, health, asked>>
-----------------------------------------------------------------------------
Next ==
  \/ \E f \in Files : Edit(f)
  \/ Hangup \/ Terminate
  \/ StartLogging \/ Decode \/ Connect \/ Serve \/ OpenOutput \/ OpenCut
  \/ ReloadLogging \/ WatchReload \/ FinishReload
  \/ BeginPoll \/ EndPoll \/ BeginWrite \/ Watchdog \/ Tick \/ EndWrite \/ WriteCut
  \/ StopRun \/ Shutdown

Spec == Init /\ [][Next]_vars

\* The process runs; a consumer need not connect nor read, and the operator need
\* not act.
FairSpec ==
  /\ Spec
  /\ WF_vars(StartLogging \/ Decode \/ Connect \/ Serve \/ OpenCut
             \/ (OpenOutput /\ OutputSpec(setup, cfg) # "socket"))
  /\ WF_vars(WriteCut) /\ WF_vars(StopRun \/ Shutdown)
-----------------------------------------------------------------------------
\* Types of the state, and what each stage of the life has set up: only a loop
\* that runs reads settings, and only a registered watcher holds a reload.
TypeOK ==
  /\ setup \in Setups /\ Version \in 1..(MaxEdits[setup] + 1)
  /\ terms \in 0..2 /\ {logSlot, watchSlot, rpcReachable} \subseteq BOOLEAN
  /\ pc \in {"boot", "hooked", "decoded", "connected", "serving"} \cup Polling \cup Ended
  /\ why \in {"", "killed", "config", "rpc", "address", "open", "clean"} /\ (why # "" <=> pc = "exited")
  /\ LogIsValid(log) /\ Cardinality(pendingWatch) <= 1
  /\ reading \in 0..Version /\ (watchSlot \/ reading > 0 => pc \in Polling \cup Ended)
  /\ age \in 0..MaxAge /\ due \in 0..1 /\ emitBlocked \in 0..MaxAge
  /\ logAsked \in 1..Version /\ watchAsked \in 1..Version

\* A key has the value the documentation promises: the flag, else the variable
\* bound to it, else what its command prints, else what the file says with its
\* references replaced, else the default.  A variable that is set but empty is
\* the exception: it switches off the command and the replacement, and then
\* does not count.
Promised(s, f, k) ==
  CASE k \in FlagBindings /\ k \in DOMAIN s.flags -> s.flags[k]
    [] k \in DOMAIN s.env /\ s.env[k] # "" /\ ~(k \in FlagBindings /\ k \in DOMAIN s.flags) -> s.env[k]
    [] k \in DOMAIN f.cmds /\ k \notin DOMAIN s.env \cup (DOMAIN s.flags \cap FlagBindings) ->
         s.stdout[ExpandExpr(s, f.cmds[k])]
    [] k \in DOMAIN f.entries /\ k \notin DOMAIN f.cmds \cup DOMAIN s.env \cup (DOMAIN s.flags \cap FlagBindings) ->
         ExpandExpr(s, f.entries[k])
    [] OTHER -> IF k \in DOMAIN SetDefaults THEN SetDefaults[k] ELSE ""
\* internal/config: New, resolve, strictDecode.
SettingsAsPromised ==
  pc = "decoded" =>
    LET f == ReadConfigFile(setup, files[watchAsked])
    IN \A k \in DOMAIN cfg :
         (k \in DOMAIN setup.env /\ setup.env[k] = "") \/ cfg[k] = Promised(setup, f, k)

\* run gets as far as connecting exactly with a configuration that validate
\* accepts: the two commands repeat the same checks (cli/stream.go, cli/balance.go).
\* run reads the file twice, so this is about a start without an edit in between.
StartsIffValid ==
  Version = 1 => /\ pc = "decoded" => ValidateAccepts(files[1])
                 /\ why = "config" => ~ValidateAccepts(files[1])

\* Once the watchers have nothing left to read, the log settings and the watched
\* set in use or staged are those of a file no older than the last SIGHUP they
\* could see, unless that file is refused: no reload is lost or overtaken, however
\* edits, signals, coalescing channels and polls interleave.
ReloadsTakeEffect ==
  /\ pc \notin {"boot", "exited"} /\ ~logSlot =>
       \E v \in logAsked..Version :
         \/ log = SetupLogging(setup, files[v]) \/ ResolvedLogFails(setup, files[v])
         \/ ~LogIsValid(ResolvedLog(setup, files[v]))
  /\ pc \in Polling /\ ~watchSlot /\ reading = 0 =>
       \E v \in watchAsked..Version :
         \/ ~ReloadAccepts(files[v])
         \/ pendingWatch = {WatchOf(files[v])} \/ (pendingWatch = {} /\ watch = WatchOf(files[v]))

\* readyReason, as far as this module goes.
Ready == rpcReachable /\ emitBlocked < Threshold
\* A write that has been in flight for the threshold, and one watchdog interval
\* more, shows in /readyz although it has not returned (blockTrackingEmitter).
WedgedIsNotReady == pc = "write" /\ age > Threshold => ~Ready

\* A stop signal ends the process, whatever it is doing, whether or not a consumer
\* ever connects or takes the record in flight.
TermEnds == cancelled ~> pc = "exited"
=============================================================================
