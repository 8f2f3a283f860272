-------------------------- MODULE EscrowRefinement --------------------------
(***************************************************************************)
(* The protocol, with one coin per wallet, implements Escrow.  The mapping *)
(* reads the chain and what was sent in round 4, not what a trader         *)
(* remembers, so it also covers traders who restart and forget.            *)
(***************************************************************************)
EXTENDS BMPProtocol

None == "none"

\* The transactions that spend op.
Spenders(op) == { tx \in Known : op \in Inputs(tx) }

DepositTxs == UNION { Spenders(op) : op \in CoinsOf("Seller") }
Children(txset) == { tx \in Known : \E op \in Inputs(tx) : op.tx \in txset }

\* A child of the deposit is a SwapTx (the output Q' locks), the buyer's spend of
\* the output P' locks, or a WarningTx (both).
LockedBy(tx, t) == Prevout(tx.ins[1]).script[1].tik = t
SwapTxs    == { tx \in Children(DepositTxs) : Len(tx.ins) = 1 /\ LockedBy(tx, "q") }
TakeTxs    == { tx \in Children(DepositTxs) : Len(tx.ins) = 1 /\ LockedBy(tx, "p") }
WarningTxs == { tx \in Children(DepositTxs) : Len(tx.ins) = 2 }

\* A child of the WarningTx is a ClaimTx (one output), a RedirectTx (with an
\* anchor after the DAO's outputs), or the buyer's spend, which has no lock.
ClaimTxs    == { tx \in Children(WarningTxs) : Len(tx.outs) = 1 /\ tx.seq # 0 }
EmptyTxs    == { tx \in Children(WarningTxs) : Len(tx.outs) = 1 /\ tx.seq = 0 }
RedirectTxs == { tx \in Children(WarningTxs) : Len(tx.outs) = 3 }

\* The trader whose wallet one of the outputs pays.
PaidIn(txset) ==
    IF txset = {} THEN None
    ELSE CHOOSE r \in Role :
            \E tx \in txset : \E i \in 1 .. Len(tx.outs) : tx.outs[i].script = Wallet(r)

EscrowAt ==
    CASE ClaimTxs # {}                     -> "claimed"
      [] RedirectTxs # {}                  -> "redirected"
      [] EmptyTxs # {}                     -> "emptied"
      [] WarningTxs # {} /\ Children(WarningTxs) = {} -> "warned"
      [] SwapTxs # {} /\ TakeTxs # {}      -> "exchanged"
      [] SwapTxs # {} /\ TakeTxs = {}      -> "swapped"
      [] TakeTxs # {} /\ SwapTxs = {}      -> "taken"
      [] DepositTxs # {} /\ Children(DepositTxs) = {} -> "escrow"
      [] OTHER                             -> "wallets"

\* A seller has sent the adapted SwapTx of round 4.
Released == \E m \in net4 : m.swap_onchain # <<>>

WarningAge ==
    IF WarningTxs \cap Mined = {} THEN 0
    ELSE depth[CHOOSE tx \in WarningTxs : tx \in Mined]

Promise == INSTANCE Escrow WITH
    Seller <- "Seller", Buyer <- "Buyer",
    at <- EscrowAt, released <- Released, by <- PaidIn(WarningTxs),
    to <- PaidIn(ClaimTxs \cup RedirectTxs \cup EmptyTxs), age <- WarningAge

\* Every step of the two traders, the node and the miners is a step of Escrow
\* or leaves the escrow alone: nothing is swapped before the seller has given
\* her key away, the funds leave a WarningTx only after the delay of whoever
\* moves them -- except that a buyer who has the key of his own WarningTx waits
\* for nothing -- and nothing leaves it twice.
ImplementsEscrow == Promise!Spec
=============================================================================
