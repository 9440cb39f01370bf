----------------------------- MODULE MCProcess -----------------------------
(* Command lines, environments and configuration files for Process. *)
EXTENDS Process

Setup(tool) == [tool |-> tool, configFile |-> <<>>, flags |-> <<>>, env |-> <<>>, vars |-> <<>>,
                allowExec |-> FALSE, stdout |-> <<>>, targets |-> <<>>, native |-> {}, internal |-> {},
                events |-> {}]
Target(n)   == [name |-> n, address |-> n]
Contract(n) == [name |-> n, address |-> n, abi |-> "", known |-> {}, signatures |-> {}, events |-> {"Transfer"}]

\* Everything from the file; a command line that needs no file; a secret from
\* a command, with a variable that overrides another.
MCFromFile == {Setup(t) : t \in {"stream", "balance"}}
MCNoFile   == {[Setup("stream") EXCEPT !.flags = "rpc.url" :> "u" @@ "metrics-addr" :> ":9002", !.native = {TRUE}],
               [Setup("stream") EXCEPT !.configFile = <<<<"explicit">>>>, !.env = "rpc.url" :> "u",
                                       !.targets = <<Target("c")>>, !.events = {"Nonsense"}],
               [Setup("balance") EXCEPT !.env = "rpc.url" :> "u" @@ "balance.every_blocks" :> "2",
                                        !.targets = <<Target("c")>>]}
MCCommand  == [Setup("balance") EXCEPT !.allowExec = TRUE, !.stdout = "vault" :> "secret" @@ "level" :> "debug",
                                       !.vars = "V" :> "vault" @@ "E" :> "", !.env = "balance.interval" :> "2s"]
MCSetups   == MCFromFile \cup MCNoFile \cup {MCCommand, [MCCommand EXCEPT !.env = "rpc.url" :> "", !.allowExec = FALSE]}

Plain(n) == [EmptyFile EXCEPT !.entries = "rpc.url" :> Text("u") @@ "balance.interval" :> Text("2s") @@ "output" :> Text("socket"),
                              !.targets = [stream |-> <<Contract(n)>>, balance |-> <<Target(n)>>]]
MCSecret == [Plain("a") EXCEPT !.entries = "balance.every_blocks" :> RefOr("E", "0"),
                               !.cmds = "rpc.url" :> Ref("V") @@ "log.level" :> Text("level")]
MCOverloaded == [Plain("a") EXCEPT !.targets.stream =
                   <<[Contract("a") EXCEPT !.abi = "inline",
                                           !.known = [name : {"Transfer"}, sig : {"one", "two"}, anonymous : {FALSE}]]>>]
MCOverride == [MCOverloaded EXCEPT !.targets.stream[1].signatures = {"Transfer"}]
MCNothing == [Plain("a") EXCEPT !.targets = EmptyFile.targets]
MCFiles   == {[Plain("b") EXCEPT !.entries = @ @@ "log.level" :> Text("debug")], MCNothing,
              [Plain("c") EXCEPT !.unknown = {"stream"}]}
MCStart   == {EmptyFile, Garbled, Plain("a"), MCSecret, MCOverloaded, MCOverride, MCNothing,
              [Plain("a") EXCEPT !.entries = @ @@ "log.format" :> Text("loud")],
              [Plain("a") EXCEPT !.entries = @ @@ "stream.poll_interval" :> Ref("UNSET")],
              [Plain("a") EXCEPT !.entries = @ @@ "stream.poll_interval" :> Text("0s")],
              [Plain("a") EXCEPT !.entries = @ @@ "balance.metrics.addr" :> Text(":taken")],
              [Plain("a") EXCEPT !.entries = @ @@ "balance.every_blocks" :> Text("2")]}
MCDisks   == {SearchPlaces[1] :> f : f \in MCStart} \cup
             {<<>>, SearchPlaces[2] :> Plain("a") @@ SearchPlaces[5] :> Garbled, <<"explicit">> :> Plain("a")}
\* The operator edits the file of the setups that take everything from it.
MCMaxEdits == [s \in MCSetups |-> IF s \in MCFromFile THEN 1 ELSE 0]
=============================================================================
