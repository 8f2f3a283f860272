-------------------------------- MODULE Chain --------------------------------
(***************************************************************************)
(* The Bitcoin node behind MemWallet's client, external to the repository  *)
(* and modelled from how the protocol and its tests use it: a first-seen   *)
(* mempool, blocks that confirm transactions, and BIP-68 relative locks    *)
(* ("non-BIP68-final" in test_claim_too_early).                            *)
(***************************************************************************)
EXTENDS TradeTxs, FiniteSets

VARIABLES
    mempool,    \* the unconfirmed transactions
    depth       \* confirmations of every mined transaction, counted up to t2

Mined  == DOMAIN depth
Known  == mempool \cup Mined
Inputs(tx) == { tx.ins[i] : i \in 1 .. Len(tx.ins) }

\* The prevout exists: a wallet coin, or an output of a known transaction.
Exists(op) == op \in CoinsOf("Seller") \cup CoinsOf("Buyer") \/ op.tx \in Known
Spent(op)  == \E tx \in Known : op \in Inputs(tx)

\* BIP-68: a relative lock of n blocks needs a parent n blocks deep.
SequenceMet(op, seq) == seq > 0 => op.tx \in Mined /\ depth[op.tx] >= seq

\* The node takes tx into its mempool.
Accepts(tx) ==
    /\ tx \notin Known
    /\ \A op \in Inputs(tx) : Exists(op) /\ ~Spent(op) /\ SequenceMet(op, tx.seq)

\* Broadcasting what the node already has is no error; a tx that is in the
\* block chain is reported so, and MemWallet::transaction_broadcast says Ok.
BroadcastOk(tx) == tx \in Known \/ Accepts(tx)

ChainInit == mempool = {} /\ depth = <<>>

\* A block confirms some of the mempool, parents before children, and buries
\* what is already mined one block deeper.
MineBlock ==
    \E block \in SUBSET mempool :
        /\ \A tx \in block : \A op \in Inputs(tx) : op.tx \notin mempool \ block
        /\ block # {} \/ \E tx \in Mined : depth[tx] < t2
        /\ mempool' = mempool \ block
        /\ depth' = [tx \in Mined \cup block |->
                        IF tx \in block THEN 1
                        ELSE IF depth[tx] < t2 THEN depth[tx] + 1 ELSE t2]

\* The block that leaves nothing waiting.
MineAll == MineBlock /\ mempool' = {}
=============================================================================
