---------------------------- MODULE MCTransfers ----------------------------
(* Small blocks for Transfers. *)
EXTENDS Transfers

F(type, value, error, to) ==
  [type |-> type, value |-> value, error |-> error, from |-> "w", to |-> to, logs |-> 0]

Roots  == {F("CALL", 1, FALSE, "x"), F("CALL", 0, FALSE, "y"), F("CALL", 1, TRUE, "y")}
Leaves == {F("CALL", 1, FALSE, "x"), F("CALL", 1, TRUE, "x"), F("DELEGATECALL", 1, FALSE, "y")}
Inner  == {F("CREATE2", 1, FALSE, "y"), F("CALL", 0, TRUE, "x"), F("SELFDESTRUCT", 1, FALSE, "x")}

\* Two calls at most, the first may call once more.
None == [p \in {} |-> 0]
At(path, S) == {path :> f : f \in S}
Firsts == At(<<1>>, Leaves) \cup {c @@ g : c \in At(<<1>>, Leaves), g \in At(<<1, 1>>, Inner)}
Calls  == {None} \cup Firsts \cup {c @@ d : c \in Firsts, d \in At(<<2>>, Leaves)}
Txs    == {r @@ c : r \in At(Root, Roots), c \in Calls}

\* Transactions for blocks of two and three: failed as a whole, failed at a call,
\* with a transfer at the same paths, and plain.
Some == {t \in Txs : /\ t[Root].value = 1 /\ <<2>> \notin DOMAIN t
                     /\ DOMAIN t = {Root} \/ t[<<1>>].type = "CALL"
                     /\ <<1, 1>> \in DOMAIN t => t[<<1, 1>>].type = "CREATE2"}
Plain == {t \in Txs : DOMAIN t = {Root}}

\* Any block, after one that is empty or plain.
MCAny    == {<<>>} \cup {<<t>> : t \in Txs} \cup {<<t, u>> : t \in Some, u \in Some}
                  \cup {<<t, u, v>> : t \in Plain, u \in Plain, v \in Plain}
MCBlocks == <<{<<>>} \cup {<<t>> : t \in Plain}, MCAny>>
MCOne    == <<MCAny>>

MCFilters ==
  {[from |-> {}, to |-> {}, includeInternal |-> TRUE],
   [from |-> {}, to |-> {}, includeInternal |-> FALSE],
   [from |-> {}, to |-> {"x"}, includeInternal |-> TRUE]}

\* One transaction, which logs once and makes one call with value.
MCLogging == <<{<<(Root :> [F("CALL", 0, FALSE, "y") EXCEPT !.logs = 1])
                @@ (<<1>> :> F("CALL", 1, FALSE, "x"))>>}>>
MCAll     == {[from |-> {}, to |-> {}, includeInternal |-> TRUE]}
=============================================================================
