------------------------------ MODULE MCMusig ------------------------------
(***************************************************************************)
(* Instances of MusigService for TLC.                                      *)
(***************************************************************************)
EXTENDS MusigService, TLC

OneEach == [r \in Trader |-> 1]

AllCalls  == CtxSet(Script("Buyer")) \cup CtxSet(Script("Seller"))
LateCalls == {"sign_deposit_tx", "publish_deposit_tx", "sign_swap_tx", "close_trade"}
=============================================================================
