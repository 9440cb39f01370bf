------------------------------- MODULE Config -------------------------------
(***************************************************************************)
(* How a producer turns its command line, its environment and its          *)
(* configuration file into settings (internal/config), and which settings  *)
(* evm-stream and evm-balance accept (internal/cli, ResolveContracts,      *)
(* Resolve).  Pure operators over                                          *)
(*   s, how the process was started: [tool, configFile, flags, env, vars,  *)
(*      allowExec, stdout, targets, native, internal, events];             *)
(*   d, the configuration files that exist, by path;                       *)
(*   f, one of them: [entries, cmds, unknown, targets, native, internal].  *)
(* A file that is no TOML is Garbled.  An entry or a command is a text, or *)
(* one reference to an environment variable; a text stands for a value, so *)
(* only the values the code tells apart appear.  A key no check and no     *)
(* endpoint below depends on (chain, input, dead_letter_file,              *)
(* checkpoint_file, TLS material) is left out, and an inline ABI, an ABI   *)
(* file or both are one field.                                             *)
(***************************************************************************)
EXTENDS Integers, Sequences, SequencesExt, FiniteSets, TLC

\* ${VAR}, ${VAR:-alt}, or a text without a reference.
Text(t)       == [text |-> t, var |-> "", alt |-> {}]
Ref(v)        == [text |-> "${}", var |-> v, alt |-> {}]
RefOr(v, alt) == [text |-> "${}", var |-> v, alt |-> {alt}]

Garbled   == [garbled |-> TRUE]
EmptyFile == [entries |-> <<>>, cmds |-> <<>>, unknown |-> {},
              targets |-> [stream |-> <<>>, balance |-> <<>>], native |-> FALSE, internal |-> FALSE]
-----------------------------------------------------------------------------
(* The keys of the typed configuration, by section.                        *)
SharedKeys  == {"rpc", "metrics", "log", "output"}
SharedConfig  == [k \in {"rpc.url"} |-> "rpc"] @@ [k \in {"metrics.addr"} |-> "metrics"]
                 @@ [k \in {"log.level", "log.format"} |-> "log"] @@ [k \in {"output"} |-> "output"]
StreamConfig  == [k \in {"stream.from_block", "stream.poll_interval", "stream.log_chunk_blocks",
                         "stream.reorg_depth", "stream.head_staleness_threshold",
                         "stream.metrics.addr"} |-> "stream"]
BalanceConfig == [k \in {"balance.interval", "balance.every_blocks", "balance.max_concurrency",
                         "balance.target_timeout", "balance.head_staleness_threshold",
                         "balance.metrics.addr"} |-> "balance"]
SectionOf == SharedConfig @@ StreamConfig @@ BalanceConfig
Keys      == DOMAIN SectionOf
Numeric   == {"stream.log_chunk_blocks", "stream.reorg_depth", "balance.every_blocks",
              "balance.max_concurrency"}

\* What the conversions accept.
NumberOf   == "" :> 0 @@ "0" :> 0 @@ "2" :> 2 @@ "64" :> 64 @@ "2000" :> 2000 @@ "-1" :> -1
DurationOf == "0s" :> 0 @@ "2s" :> 2 @@ "-2s" :> -2
IsDisableableDuration(t) == t \in {"", "0", "off"} \/ (t \in DOMAIN DurationOf /\ DurationOf[t] >= 0)
ParseLevel(t)  == t \in {"", "info", "debug"}
ParseFormat(t) == t \in {"", "text", "json"}
ValidateFromBlock(t) == t \in {"", "latest", "7"}

SetDefaults == "log.level" :> "info" @@ "log.format" :> "text" @@ "output" :> ""
               @@ "stream.poll_interval" :> "2s" @@ "stream.log_chunk_blocks" :> "2000"
               @@ "stream.from_block" :> "latest" @@ "stream.reorg_depth" :> "64"
               @@ "stream.metrics.addr" :> ":9000" @@ "balance.metrics.addr" :> ":9001"
FlagBindings == {"rpc.url", "log.level", "log.format", "stream.from_block", "stream.poll_interval",
                 "balance.interval", "balance.every_blocks"}
BindEnvKeys  == Keys
-----------------------------------------------------------------------------
(* Loading: the file, and viper's choice between the sources of a key.     *)
SearchPaths     == <<"home", "user", "etc">>
ConfigBaseNames == <<"config", "evm-tools">>
\* Directory by directory, and both names in each.
SearchPlaces == [i \in 1..6 |-> <<SearchPaths[(i + 1) \div 2], ConfigBaseNames[1 + ((i - 1) % 2)]>>]

\* The first default file that exists, as a sequence of at most one.
FindDefaultConfig(d) ==
  LET found == SelectSeq(SearchPlaces, LAMBDA p : p \in DOMAIN d)
  IN IF found = <<>> THEN <<>> ELSE <<Head(found)>>

ReadConfigFile(s, d) ==
  LET path == IF s.configFile # <<>> THEN s.configFile ELSE FindDefaultConfig(d)
  IN IF path = <<>> THEN EmptyFile
     ELSE IF path[1] \in DOMAIN d THEN d[path[1]] ELSE Garbled

\* Flags the user changed, of those that are bound to a key.
BindChangedFlags(s) == DOMAIN s.flags \cap FlagBindings

\* A bound environment variable that is empty does not count for viper.
EnvGives(s, k) == k \in BindEnvKeys /\ k \in DOMAIN s.env /\ s.env[k] # ""

Given(s, f, k) == \/ k \in BindChangedFlags(s) \/ EnvGives(s, k)
                  \/ k \in DOMAIN f.entries \/ k \in DOMAIN SetDefaults
Viper(s, f, k) ==
  CASE k \in BindChangedFlags(s) -> Text(s.flags[k])
    [] k \notin BindChangedFlags(s) /\ EnvGives(s, k) -> Text(s.env[k])
    [] k \notin BindChangedFlags(s) /\ ~EnvGives(s, k) /\ k \in DOMAIN f.entries -> f.entries[k]
    [] OTHER -> Text(SetDefaults[k])
-----------------------------------------------------------------------------
(* Interpolation and commands.                                             *)
ExpandExprFails(s, r) == r.var # "" /\ r.var \notin DOMAIN s.vars /\ r.alt = {}
ExpandExpr(s, r) ==
  CASE r.var = "" -> r.text
    [] r.var # "" /\ r.var \in DOMAIN s.vars /\ s.vars[r.var] # "" -> s.vars[r.var]
    [] OTHER -> IF r.alt = {} THEN "" ELSE CHOOSE t \in r.alt : TRUE

\* Mutated form of IsBindingOverride: it asks viper whether the key has a value,
\* which a built-in default answers too.
IsBindingOverride_CountsDefaults(s, k) ==
  k \in BindChangedFlags(s) \/ k \in DOMAIN s.env \/ k \in DOMAIN SetDefaults
\* A flag was changed or the variable is set, even to the empty text.
IsBindingOverride(s, k) == k \in BindChangedFlags(s) \/ k \in DOMAIN s.env

InterpolateFails(s, f, k) == ~IsBindingOverride(s, k) /\ ExpandExprFails(s, Viper(s, f, k))
InterpolateValue(s, f, k) ==
  LET r == Viper(s, f, k) IN IF IsBindingOverride(s, k) THEN r.text ELSE ExpandExpr(s, r)

\* sh -c: a text that is no command of s.stdout exits non-zero.
RunCmdFails(s, r) == ExpandExprFails(s, r) \/ ExpandExpr(s, r) \notin DOMAIN s.stdout
RunCmd(s, r)      == s.stdout[ExpandExpr(s, r)]

Runs(s, f, k) == k \in DOMAIN f.cmds /\ ~IsBindingOverride(s, k)
ResolveCmdFails(s, f, k) ==
  k \in DOMAIN f.cmds /\ (k \in DOMAIN f.entries \/ (Runs(s, f, k) /\ RunCmdFails(s, f.cmds[k])))

HasCmdKey(f, keys) == DOMAIN f.cmds \cap keys # {}
ResolveFails(s, f, keys) ==
  \/ ~s.allowExec /\ HasCmdKey(f, keys)
  \/ \E k \in keys : Given(s, f, k) /\ InterpolateFails(s, f, k)
  \/ \E k \in keys : ResolveCmdFails(s, f, k)

\* The value a key has in the end; the zero value of its type if it has none.
Value(s, f, k) ==
  CASE Runs(s, f, k) -> RunCmd(s, f.cmds[k])
    [] ~Runs(s, f, k) /\ Given(s, f, k) -> InterpolateValue(s, f, k)
    [] OTHER -> ""
-----------------------------------------------------------------------------
(* Strict decoding of the shared sections and one tool's section.          *)
KeysOf(section) == {k \in Keys : SectionOf[k] \in SharedKeys \cup {section}}

StrictDecodeFails(s, f, section) ==
  \/ f = Garbled
  \/ ResolveFails(s, f, KeysOf(section))
  \/ f.unknown \cap (SharedKeys \cup {section}) # {}
  \/ \E k \in KeysOf(section) \cap Numeric : Value(s, f, k) \notin DOMAIN NumberOf
StrictDecode(s, f, section) == [k \in KeysOf(section) |-> Value(s, f, k)]

\* The level and the format of the log, as every command resolves them.
ResolvedLogFails(s, d) == StrictDecodeFails(s, ReadConfigFile(s, d), "")
ResolvedLog(s, d) ==
  LET c == StrictDecode(s, ReadConfigFile(s, d), "")
  IN [level |-> c["log.level"], format |-> c["log.format"]]
LogIsValid(l) == ParseLevel(l.level) /\ ParseFormat(l.format)

\* A configuration that does not load leaves the flags' own values.
FlagLog(s) ==
  LET flag(k) == IF k \in DOMAIN s.flags THEN s.flags[k] ELSE SetDefaults[k]
  IN [level |-> flag("log.level"), format |-> flag("log.format")]
SetupLogging(s, d) == IF ResolvedLogFails(s, d) THEN FlagLog(s) ELSE ResolvedLog(s, d)
-----------------------------------------------------------------------------
(* evm-stream: flags, contracts and their events, cross-field checks.      *)
ApplyStreamFlagsFails(s) == s.events # {} /\ s.targets = <<>>
ApplyStreamFlags(s, f) ==
  [targets  |-> f.targets.stream \o
     [i \in DOMAIN s.targets |->
        [name |-> s.targets[i].name, address |-> s.targets[i].address, abi |-> "", known |-> {}, signatures |-> {},
         events |-> IF s.events = {} THEN {"Transfer"} ELSE s.events]],
   native   |-> IF s.native = {} THEN f.native ELSE TRUE \in s.native,
   internal |-> IF s.internal = {} THEN f.internal ELSE TRUE \in s.internal]

BuiltinEvents == [name : {"Transfer", "Approval", "ApprovalForAll", "TransferSingle"},
                  sig : {"standard"}, anonymous : {FALSE}]
\* A name resolves to its override, or to the events of one signature.
ResolveEventName(name, universe, overrides) ==
  LET matches == {e \in universe : e.name = name}
  IN CASE name \in overrides -> {[name |-> name, sig |-> "override", anonymous |-> FALSE]}
       [] name \notin overrides /\ Cardinality({e.sig : e \in matches}) = 1 -> matches
       [] OTHER -> {}
ResolveContractFails(c) ==
  LET universe == IF c.abi = "" THEN BuiltinEvents ELSE c.known
  IN \/ c.name = "" \/ c.address = "" \/ c.abi \in {"unreadable", "both"} \/ c.events = {}
     \/ \E n \in c.events : LET found == ResolveEventName(n, universe, c.signatures)
                            IN found = {} \/ \E e \in found : e.anonymous
ResolveContractsFails(cs) == \E i \in DOMAIN cs : ResolveContractFails(cs[i])
ResolveContracts(cs) == {[name |-> cs[i].name, address |-> cs[i].address] : i \in DOMAIN cs}

ValidateStream(c, w) ==
  /\ c["rpc.url"] # ""
  /\ NumberOf[c["stream.log_chunk_blocks"]] > 0
  /\ c["stream.poll_interval"] \in DOMAIN DurationOf
  /\ ValidateFromBlock(c["stream.from_block"])
  /\ NumberOf[c["stream.reorg_depth"]] >= 0
  /\ IsDisableableDuration(c["stream.head_staleness_threshold"])
  /\ w.targets # <<>> \/ w.native
  /\ w.internal => w.native

\* stream.New checks the interval again, and more strictly.
NewStreamFails(c) == DurationOf[c["stream.poll_interval"]] <= 0
-----------------------------------------------------------------------------
(* evm-balance.  A --native or --erc20 target takes its name from itself.  *)
ApplyBalanceFlagsFails(s) == \E i \in DOMAIN s.targets : s.targets[i].address = ""
ApplyBalanceFlags(s, f) == f.targets.balance \o s.targets

ResolveCadence(c) ==
  LET hasInterval == c["balance.interval"] # ""
      hasBlocks   == NumberOf[c["balance.every_blocks"]] > 0
  IN /\ hasInterval # hasBlocks
     /\ hasInterval => c["balance.interval"] \in DOMAIN DurationOf /\ DurationOf[c["balance.interval"]] > 0
ResolveTargets(c, ts) ==
  /\ ResolveCadence(c)
  /\ \A i \in DOMAIN ts : ts[i].name # "" /\ ts[i].address # ""
  /\ ts # <<>>

ValidateBalance(c, ts) ==
  /\ c["rpc.url"] # ""
  /\ NumberOf[c["balance.max_concurrency"]] >= 0
  /\ IsDisableableDuration(c["balance.target_timeout"])
  /\ IsDisableableDuration(c["balance.head_staleness_threshold"])
  /\ ResolveTargets(c, ts)
-----------------------------------------------------------------------------
(* The endpoints a running producer opens.                                 *)
\* --metrics-addr, then the tool's own section, then [metrics].
ResolveMetrics(s, c) ==
  LET own == c[IF s.tool = "stream" THEN "stream.metrics.addr" ELSE "balance.metrics.addr"]
  IN CASE "metrics-addr" \in DOMAIN s.flags -> s.flags["metrics-addr"]
       [] "metrics-addr" \notin DOMAIN s.flags /\ own # "" -> own
       [] OTHER -> c["metrics.addr"]

OutputSpec(s, c) == IF "output" \in DOMAIN s.flags THEN s.flags["output"] ELSE c["output"]
=============================================================================
