----------------------------- MODULE MCBalance -----------------------------
(* Target lists for Balance: a name keeps its address and its fields. *)
EXTENDS Balance

Account(type, name, addr) == [type |-> type, name |-> name, addr |-> addr]
Contract(name, addr, native, supply, window) ==
  [type |-> "contract", name |-> name, addr |-> addr, nativeBalance |-> native,
   tokenSupply |-> supply, window |-> window]

\* A holder and a contract; the contract alone, with another window; a
\* configuration without targets.
MCHolder == [NoList EXCEPT !.erc20 = <<Account("erc20", "n", "x")>>,
                           !.contracts = <<Contract("c", "z", FALSE, FALSE, 1)>>]
MCAlone  == [NoList EXCEPT !.contracts = <<Contract("c", "z", FALSE, FALSE, 2)>>]
MCLists  == {MCHolder, MCAlone, NoList}
=============================================================================
