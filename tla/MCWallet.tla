------------------------------ MODULE MCWallet ------------------------------
(***************************************************************************)
(* An instance of WalletService for TLC: two spends of one coin, the       *)
(* second of which pays more, and a transaction of another coin.           *)
(***************************************************************************)
EXTENDS WalletService

MCTxid  == {"t", "u", "v"}
MCSpends == [tx \in MCTxid |-> IF tx = "v" THEN 2 ELSE 1]
MCPaysMore(a, b) == a = "u" /\ b = "t"
MCValue == { [block |-> b, num_confirmations |-> n] : b \in 0 .. 4, n \in 0 .. 4 }
=============================================================================
