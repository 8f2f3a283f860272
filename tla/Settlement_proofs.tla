-------------------------- MODULE Settlement_proofs --------------------------
(***************************************************************************)
(* Where the money can go once it is in escrow: the warned trader's window,*)
(* what a published SwapTx gives the buyer, and, when each wallet has one  *)
(* coin, that the protocol implements Escrow.  All of it rests on what the *)
(* transactions of the chain look like, whoever remembers them.            *)
(***************************************************************************)
EXTENDS BMPSafety_proofs, EscrowRefinement

-----------------------------------------------------------------------------
(* What can be on the chain.                                               *)

\* A DepositTx, by its shape: a coin of each wallet, and one output locked by
\* a P' and one by a Q'.
DepositShape(tx) ==
    /\ Len(tx.ins) = 2 /\ tx.ins[1] \in CoinsOf("Seller") /\ tx.ins[2] \in CoinsOf("Buyer")
    /\ Len(tx.outs) = 2
    /\ \E i, j \in 1 .. 2 :
          i # j /\ tx.outs[i].script[1].tik = "p" /\ tx.outs[j].script[1].tik = "q"
    /\ tx.seq = 0

\* An output of a deposit, locked by a key of kind t.
EscrowOut(op, t) ==
    /\ op = OutPoint(op.tx, op.vout) /\ op.vout \in 1 .. 2
    /\ DepositShape(op.tx) /\ op.tx.outs[op.vout].script[1].tik = t

SwapShape(tx) ==
    /\ Len(tx.ins) = 1 /\ EscrowOut(tx.ins[1], "q")
    /\ Len(tx.outs) = 1 /\ tx.outs[1].script = Wallet("Seller")
    /\ tx.seq = 0

\* The WarningTx of r: both outputs of one deposit, an anchor for r.
WarnShape(tx, r) ==
    /\ Len(tx.ins) = 2 /\ EscrowOut(tx.ins[1], "p") /\ EscrowOut(tx.ins[2], "q")
    /\ tx.ins[1].tx = tx.ins[2].tx
    /\ Len(tx.outs) = 2
    /\ tx.outs[1].script[1].tik = WarnTik(r) /\ tx.outs[2].script = Wallet(r)
    /\ tx.seq = 0

\* The ClaimTx of r on his own warning, the RedirectTx of r on the other one.
ClaimShape(tx, r) ==
    /\ Len(tx.ins) = 1 /\ tx.ins[1] = FundsOf(tx.ins[1].tx) /\ WarnShape(tx.ins[1].tx, r)
    /\ Len(tx.outs) = 1 /\ tx.outs[1].script = Wallet(r)
    /\ tx.seq = t2
RedirectShape(tx, r) ==
    /\ Len(tx.ins) = 1 /\ tx.ins[1] = FundsOf(tx.ins[1].tx) /\ WarnShape(tx.ins[1].tx, Other(r))
    /\ Len(tx.outs) = 3
    /\ tx.outs[1].script = Dao(1) /\ tx.outs[2].script = Dao(2) /\ tx.outs[3].script = Wallet(r)
    /\ tx.seq = t1

\* What the buyer makes of the secret of P': a spend of the deposit's output, or
\* of the funds of his own warning.
KeySpendShape(tx) == tx = BuildKeySpend(tx.ins[1], Wallet("Buyer"))
TakeShape(tx)  == KeySpendShape(tx) /\ EscrowOut(tx.ins[1], "p")
EmptyShape(tx) ==
    /\ KeySpendShape(tx)
    /\ tx.ins[1] = FundsOf(tx.ins[1].tx) /\ WarnShape(tx.ins[1].tx, "Buyer")

TradeShape(tx) ==
    \/ DepositShape(tx) \/ SwapShape(tx) \/ TakeShape(tx) \/ EmptyShape(tx)
    \/ \E r \in Role : WarnShape(tx, r) \/ ClaimShape(tx, r) \/ RedirectShape(tx, r)

\* The chain holds transactions of the trade only, spends nothing twice, has
\* kept every relative lock and counts confirmations from 1 to t2; a warning was
\* emptied only with a key that had been given away.
NoDoubleSpend ==
    \A tx, ty \in Known : \A op \in Inputs(tx) : op \in Inputs(ty) => tx = ty
ChainInv ==
    /\ \A tx \in Known : TradeShape(tx)
    /\ NoDoubleSpend
    /\ \A tx \in Known : \A op \in Inputs(tx) : SequenceMet(op, tx.seq)
    /\ \A tx \in Mined : depth[tx] \in 1 .. t2
    /\ mempool \cap Mined = {}
    /\ \A tx \in Known : EmptyShape(tx) => GivenAway(tx.ins[1])

\* A trader signs for a deposit that is on the chain, and the SwapTx is complete
\* only once it was sent.
ReleaseInv ==
    /\ \A r \in Role : HasSigned(r) => txs[r]["deposit"] \in Known
    /\ \A r \in Role : musig[r]["swap"].stage = "final" => Released
    /\ Released => Known # {}

\* With one coin per wallet the chain's transactions, known, are in one of nine
\* phases.
InEscrow(known, d)   == DepositShape(d) /\ known = {d}
Swapped(known, d, s) == DepositShape(d) /\ SwapShape(s) /\ s.ins[1].tx = d /\ known = {d, s}
HalfTaken(known, d, k) == DepositShape(d) /\ TakeShape(k) /\ k.ins[1].tx = d /\ known = {d, k}
Exchanged(known, d, s, k) ==
    /\ DepositShape(d) /\ SwapShape(s) /\ s.ins[1].tx = d
    /\ TakeShape(k) /\ k.ins[1].tx = d /\ known = {d, s, k}
Warned(known, d, w, r) ==
    DepositShape(d) /\ WarnShape(w, r) /\ w.ins[1].tx = d /\ known = {d, w}
Claimed(known, d, w, r, x) ==
    /\ DepositShape(d) /\ WarnShape(w, r) /\ w.ins[1].tx = d
    /\ ClaimShape(x, r) /\ x.ins[1].tx = w /\ known = {d, w, x}
Redirected(known, d, w, r, x) ==
    /\ DepositShape(d) /\ WarnShape(w, Other(r)) /\ w.ins[1].tx = d
    /\ RedirectShape(x, r) /\ x.ins[1].tx = w /\ known = {d, w, x}
Emptied(known, d, w, x) ==
    /\ DepositShape(d) /\ WarnShape(w, "Buyer") /\ w.ins[1].tx = d
    /\ EmptyShape(x) /\ x.ins[1].tx = w /\ known = {d, w, x}
Phase(known) ==
    \/ known = {}
    \/ \E d \in known : InEscrow(known, d)
    \/ \E d, s \in known : Swapped(known, d, s) \/ HalfTaken(known, d, s)
    \/ \E d, s, k \in known : Exchanged(known, d, s, k) \/ Emptied(known, d, s, k)
    \/ \E d, w \in known, r \in Role : Warned(known, d, w, r)
    \/ \E d, w, x \in known, r \in Role :
          Claimed(known, d, w, r, x) \/ Redirected(known, d, w, r, x)
PhaseInv == Phase(Known)

-----------------------------------------------------------------------------
(* The shapes.                                                             *)

\* The inputs of a transaction with one or two of them.
LEMMA InputsOf ==
    ASSUME NEW tx
    PROVE  /\ Len(tx.ins) = 1 => Inputs(tx) = {tx.ins[1]}
           /\ Len(tx.ins) = 2 => Inputs(tx) = {tx.ins[1], tx.ins[2]}
  BY DEF Inputs

\* The coins have no inputs the trade knows of.
LEMMA CoinParents ==
    ASSUME NEW tx, DepositShape(tx), NEW op \in Inputs(tx)
    PROVE  op.tx.ins = <<>>
  <1>1. op \in CoinsOf("Seller") \/ op \in CoinsOf("Buyer")
    BY InputsOf DEF DepositShape
  <1>2. PICK z \in Role : op.tx = FundingTx(z)
    BY <1>1, DistinctCoins DEF Role
  <1> QED
    BY <1>2 DEF FundingTx

\* The form of a key spend.
LEMMA KeySpendForm ==
    ASSUME NEW tx, KeySpendShape(tx)
    PROVE  /\ Len(tx.ins) = 1 /\ Len(tx.outs) = 1 /\ tx.seq = 0
           /\ tx.outs[1].script = Wallet("Buyer")
  <1>1. \A op : LET x == BuildKeySpend(op, Wallet("Buyer"))
                IN  /\ Len(x.ins) = 1 /\ Len(x.outs) = 1 /\ x.seq = 0
                    /\ x.outs[1].script = Wallet("Buyer")
    BY DEF BuildKeySpend, Out
  <1> QED
    BY <1>1 DEF KeySpendShape

\* An output is locked by one key.
LEMMA OneKind == \A op : ~(EscrowOut(op, "p") /\ EscrowOut(op, "q"))
  BY DEF EscrowOut

\* No transaction has two of the shapes.
LEMMA ShapesDiffer ==
    ASSUME NEW tx
    PROVE  /\ DepositShape(tx) => /\ ~SwapShape(tx) /\ ~TakeShape(tx) /\ ~EmptyShape(tx)
                                  /\ \A r : ~WarnShape(tx, r) /\ ~ClaimShape(tx, r)
                                                               /\ ~RedirectShape(tx, r)
           /\ SwapShape(tx) \/ TakeShape(tx) \/ (\E r : WarnShape(tx, r)) =>
                 /\ ~EmptyShape(tx)
                 /\ \A r : ~ClaimShape(tx, r) /\ ~RedirectShape(tx, r)
           /\ SwapShape(tx) \/ TakeShape(tx) => \A r : ~WarnShape(tx, r)
           /\ SwapShape(tx) => ~TakeShape(tx)
           /\ EmptyShape(tx) => \A r : ~ClaimShape(tx, r) /\ ~RedirectShape(tx, r)
  <1>1. DepositShape(tx) => tx.ins[1].tx.ins = <<>>
    <2>1. DepositShape(tx) => tx.ins[1] \in Inputs(tx)
      BY InputsOf DEF DepositShape
    <2> QED
      BY <2>1, CoinParents
  <1>2. \A d : DepositShape(d) => Len(d.ins) = 2
    BY DEF DepositShape
  <1>3. /\ SwapShape(tx) => DepositShape(tx.ins[1].tx) /\ Len(tx.ins) = 1
        /\ TakeShape(tx) => DepositShape(tx.ins[1].tx) /\ Len(tx.ins) = 1
        /\ \A r : WarnShape(tx, r) => DepositShape(tx.ins[1].tx) /\ Len(tx.ins) = 2
    BY KeySpendForm DEF SwapShape, TakeShape, WarnShape, EscrowOut
  <1>4. /\ EmptyShape(tx) => Len(tx.ins) = 1 /\ \E z : WarnShape(tx.ins[1].tx, z)
        /\ \A r : ClaimShape(tx, r) \/ RedirectShape(tx, r) =>
                 Len(tx.ins) = 1 /\ \E z : WarnShape(tx.ins[1].tx, z)
    BY KeySpendForm DEF ClaimShape, RedirectShape, EmptyShape
  <1>5. \A d, r : WarnShape(d, r) => DepositShape(d.ins[1].tx)
    BY DEF WarnShape, EscrowOut
  <1>6. \A d, r : DepositShape(d) => ~WarnShape(d, r)
    <2> SUFFICES ASSUME NEW d, NEW r, DepositShape(d), WarnShape(d, r) PROVE FALSE
      OBVIOUS
    <2>1. d.ins[1] \in Inputs(d)
      BY InputsOf DEF DepositShape
    <2>2. d.ins[1].tx.ins = <<>>
      BY <2>1, CoinParents
    <2>3. Len(d.ins[1].tx.ins) = 2
      BY <1>2, <1>5
    <2> QED
      BY <2>2, <2>3
  <1>7. Len(<<>>) = 0
    OBVIOUS
  <1>8. SwapShape(tx) => ~TakeShape(tx)
    BY OneKind DEF SwapShape, TakeShape
  <1>9. EmptyShape(tx) => \A r : ~ClaimShape(tx, r) /\ ~RedirectShape(tx, r)
    <2>1. EmptyShape(tx) => tx.seq = 0
      BY KeySpendForm DEF EmptyShape
    <2>2. \A r : ClaimShape(tx, r) \/ RedirectShape(tx, r) => tx.seq # 0
      BY DEF ClaimShape, RedirectShape, t1, t2
    <2> QED
      BY <2>1, <2>2
  <1> QED
    BY <1>1, <1>2, <1>3, <1>4, <1>6, <1>7, <1>8, <1>9

\* A deposit has one output of each kind.
LEMMA OneOutput ==
    ASSUME NEW t \in Tik, NEW a, NEW b, EscrowOut(a, t), EscrowOut(b, t), a.tx = b.tx
    PROVE  a = b
  <1> DEFINE d == a.tx
  <1>1. PICK i \in 1 .. 2, j \in 1 .. 2 :
          i # j /\ d.outs[i].script[1].tik = "p" /\ d.outs[j].script[1].tik = "q"
    BY DEF EscrowOut, DepositShape
  <1>2. a.vout \in 1 .. 2 /\ b.vout \in 1 .. 2
        /\ d.outs[a.vout].script[1].tik = t /\ d.outs[b.vout].script[1].tik = t
    BY DEF EscrowOut
  <1>3. a.vout = b.vout
    <2>1. \A k \in 1 .. 2 : k = i \/ k = j
      BY <1>1
    <2> HIDE DEF d
    <2> QED
      BY <1>1, <1>2, <2>1 DEF Tik
  <1> QED
    BY <1>3 DEF EscrowOut

\* What round2 builds has these shapes.
LEMMA BuiltShapes ==
    ASSUME SInv, NEW r \in Role, Built(r)
    PROVE  /\ DepositShape(txs[r]["deposit"])
           /\ SwapShape(txs[r]["swap"])
           /\ WarnShape(txs[r]["warning_me"], r)
           /\ ClaimShape(txs[r]["claim_me"], r)
           /\ RedirectShape(txs[r]["redirect_me"], r)
           /\ txs[r]["swap"].ins =
                 << OutPoint(txs[r]["deposit"], OutputIndex(txs[r]["deposit"], tik[r]["q"].agg)) >>
           /\ EscrowOut(SellerOutput(txs[r]["deposit"], tik[r]["p"].agg), "p")
  <1> DEFINE p == tik[r]["p"].agg
             q == tik[r]["q"].agg
             built == txs[r]
             dep == txs[r]["deposit"]
             i == OutputIndex(dep, p)
             j == OutputIndex(dep, q)
  <1>1. session[r] \in Session /\ TraderInv(r) /\ "p" \in Tik /\ "q" \in Tik
    BY DEF SInv, IInv, TypeOK, Tik
  <1>2. PICK o \in Session : InTrade(r, session[r], tik[r], txs[r], musig[r], net1, signed, o)
    BY <1>1, BuiltInTrade
  <1>3. p[1].tik = "p" /\ q[1].tik = "q"
    BY <1>1, <1>2, TradeKeys DEF InTrade
  <1>4. /\ built = TxsOf(r, terms[r], p, q, dep)
        /\ dep.outs = SortOuts(Out(p, terms[r].seller_amount), Out(q, terms[r].buyer_amount))
    BY DEF SInv, IInv, BuiltInv
  <1>5. /\ dep.seq = 0 /\ Len(dep.ins) = 2
        /\ dep.ins[1] \in CoinsOf("Seller") /\ dep.ins[2] \in CoinsOf("Buyer")
    <2>1. DepositOf(r, session[r], dep, net1, o)
      BY <1>2 DEF InTrade
    <2>2. dep = [ins |-> dep.ins, outs |-> dep.outs, seq |-> 0]
      BY <2>1 DEF DepositOf
    <2>3. PICK a \in CoinsOf("Seller"), b \in CoinsOf("Buyer") : dep.ins = <<a, b>>
      BY <2>1, DepositInputs
    <2> HIDE DEF dep
    <2> QED
      BY <2>2, <2>3
  <1> HIDE DEF p, q, built, dep
  <1>6. /\ i \in 1 .. 2 /\ dep.outs[i].script = p
        /\ j \in 1 .. 2 /\ dep.outs[j].script = q
    BY <1>4, DepositOutputs
  <1> HIDE DEF i, j
  <1>7. DepositShape(dep)
    <2>1. Len(dep.outs) = 2
      BY <1>4 DEF SortOuts
    <2>2. i # j
      BY <1>3, <1>6
    <2> QED
      BY <1>3, <1>5, <1>6, <2>1, <2>2 DEF DepositShape
  <1>8. EscrowOut(OutPoint(dep, i), "p") /\ EscrowOut(OutPoint(dep, j), "q")
    BY <1>3, <1>6, <1>7 DEF EscrowOut, OutPoint
  <1>9. built["swap"].ins = << OutPoint(dep, j) >> /\ SwapShape(built["swap"])
    <2>1. /\ built["swap"].ins = << OutPoint(dep, j) >>
          /\ built["swap"].seq = 0 /\ Len(built["swap"].outs) = 1
          /\ built["swap"].outs[1].script = Wallet("Seller")
      BY <1>4 DEF TxsOf, TxName, BuildSwap, Out, j
    <2> QED
      BY <1>8, <2>1 DEF SwapShape
  <1>10. \A z \in Role : WarnShape(BuildWarning(z, terms[r], p, q, dep, Wallet(z)), z)
    <2> TAKE z \in Role
    <2> DEFINE w == BuildWarning(z, terms[r], p, q, dep, Wallet(z))
    <2>1. /\ w.ins = << OutPoint(dep, i), OutPoint(dep, j) >> /\ w.seq = 0
          /\ Len(w.outs) = 2 /\ w.outs[2].script = Wallet(z)
          /\ w.outs[1].script = KeySpend(z, p, q)
      BY DEF BuildWarning, Out, i, j
    <2>2. OutPoint(dep, i).tx = OutPoint(dep, j).tx
      BY DEF OutPoint
    <2>3. KeySpend(z, p, q)[1].tik = WarnTik(z)
      BY <1>3 DEF KeySpend, WarnTik
    <2> HIDE DEF w
    <2> QED
      BY <1>8, <2>1, <2>2, <2>3 DEF WarnShape, w
  <1> DEFINE me   == BuildWarning(r, terms[r], p, q, dep, Wallet(r))
             peer == BuildWarning(Other(r), terms[r], p, q, dep, Wallet(Other(r)))
  <1>11. WarnShape(me, r) /\ WarnShape(peer, Other(r))
    BY <1>10, OtherRole
  <1>12. /\ built["warning_me"] = me
         /\ built["claim_me"] = BuildClaim(me, Wallet(r))
         /\ built["redirect_me"] = BuildRedirect(peer, Wallet(r))
    BY <1>4 DEF TxsOf, TxName
  <1> HIDE DEF me, peer
  <1>13. \A w : FundsOf(w).tx = w
    BY DEF FundsOf, OutPoint
  <1>14. ClaimShape(built["claim_me"], r)
    <2>1. /\ BuildClaim(me, Wallet(r)).ins = << FundsOf(me) >>
          /\ Len(BuildClaim(me, Wallet(r)).outs) = 1
          /\ BuildClaim(me, Wallet(r)).outs[1].script = Wallet(r)
          /\ BuildClaim(me, Wallet(r)).seq = t2
      BY DEF BuildClaim, Out
    <2> QED
      BY <1>11, <1>12, <1>13, <2>1 DEF ClaimShape
  <1>15. RedirectShape(built["redirect_me"], r)
    <2> DEFINE x == BuildRedirect(peer, Wallet(r))
    <2>1. /\ x.ins = << FundsOf(peer) >> /\ Len(x.outs) = 3 /\ x.seq = t1
          /\ x.outs[1].script = Dao(1) /\ x.outs[2].script = Dao(2)
          /\ x.outs[3].script = Wallet(r)
      BY DEF BuildRedirect, Out
    <2> HIDE DEF x
    <2> QED
      BY <1>11, <1>12, <1>13, <2>1 DEF RedirectShape, x
  <1> QED
    BY <1>7, <1>8, <1>9, <1>11, <1>12, <1>14, <1>15 DEF SellerOutput, p, q, built, dep, i, j

-----------------------------------------------------------------------------
(* Every step keeps the chain in shape.                                    *)

\* What must have been sent in round 4 before tx can be.
License(tx) ==
    /\ SwapShape(tx) => Released
    /\ TakeShape(tx) \/ EmptyShape(tx) => GivenAway(tx.ins[1])

\* The node takes in a transaction of the trade.
Publish(tx) ==
    /\ TradeShape(tx) /\ License(tx) /\ Accepts(tx)
    /\ mempool' = mempool \cup {tx} /\ depth' = depth /\ net4' = net4

\* What the secret of P' locks is an output of a deposit, or of the buyer's own
\* warning.
LEMMA KeySpendShapes ==
    ASSUME SInv, ChainInv, SpendWithKey
    PROVE  \E tx : Publish(tx) /\ UNCHANGED <<sessionVars, net>>
  <1>1. PICK tx : /\ Accepts(tx) /\ tx.ins[1].tx \in Known
                  /\ tx.ins[1] = OutPoint(tx.ins[1].tx, tx.ins[1].vout)
                  /\ tx.ins[1].vout \in 1 .. Len(tx.ins[1].tx.outs)
                  /\ KeySpendShape(tx)
                  /\ Prevout(tx.ins[1]).script = tik["Buyer"]["p"].agg
                  /\ GivenAway(tx.ins[1])
                  /\ mempool' = mempool \cup {tx}
                  /\ UNCHANGED <<terms, sessionVars, net, signed, depth>>
    BY KeySpendLicensed DEF KeySpendShape
  <1> DEFINE op == tx.ins[1]
             parent == op.tx
  <1>2. tik["Buyer"]["p"].agg[1].tik = "p"
    <2>1. Built("Buyer") /\ TraderInv("Buyer") /\ session["Buyer"] \in Session
          /\ "Buyer" \in Role /\ "p" \in Tik
      BY NoSecretYet DEF SInv, IInv, TypeOK, SpendWithKey, Role, Tik
    <2>2. PICK o \in Session : KeysWith("Buyer", session["Buyer"], tik["Buyer"], o)
      BY <2>1, BuiltInTrade DEF InTrade
    <2> QED
      BY <2>1, <2>2, TradeKeys
  <1>3. parent.outs[op.vout].script[1].tik = "p"
    BY <1>1, <1>2 DEF Prevout
  <1>4. TradeShape(parent) /\ op = OutPoint(parent, op.vout) /\ op.vout \in 1 .. Len(parent.outs)
    BY <1>1 DEF ChainInv
  <1>5. KeySpendShape(tx)
    BY <1>1
  <1> HIDE DEF op, parent
  <1>6. \A z : Wallet(z)[1].tik = "wallet" /\ Dao(z)[1].tik = "dao"
    BY DEF Wallet, Dao
  <1>7. TakeShape(tx) \/ EmptyShape(tx)
    <2>1. CASE DepositShape(parent)
      <3>1. EscrowOut(op, "p")
        <4>1. op.vout \in 1 .. 2
          BY <1>4, <2>1 DEF DepositShape
        <4> QED
          BY <1>3, <1>4, <2>1, <4>1 DEF EscrowOut, parent
      <3> QED
        BY <1>5, <3>1 DEF TakeShape, op
    <2>2. ASSUME NEW r \in Role, WarnShape(parent, r)
          PROVE  EmptyShape(tx)
      <3>1. op.vout = 1 \/ op.vout = 2
        BY <1>4, <2>2 DEF WarnShape
      <3>2. op.vout = 1 /\ WarnTik(r) = "p"
        BY <1>3, <1>6, <2>2, <3>1 DEF WarnShape
      <3>3. r = "Buyer"
        BY <3>2 DEF WarnTik, Role
      <3>4. op = FundsOf(parent)
        BY <1>4, <3>2 DEF FundsOf
      <3> QED
        BY <1>5, <2>2, <3>3, <3>4 DEF EmptyShape, op, parent
    <2>3. ASSUME SwapShape(parent) \/ TakeShape(parent) \/ EmptyShape(parent)
                 \/ \E r : ClaimShape(parent, r)
          PROVE  FALSE
      <3>1. Len(parent.outs) = 1 /\ \E z : parent.outs[1].script = Wallet(z)
        BY <2>3, KeySpendForm DEF SwapShape, TakeShape, EmptyShape, ClaimShape
      <3>2. op.vout = 1
        BY <1>4, <3>1
      <3> QED
        BY <1>3, <1>6, <3>1, <3>2
    <2>4. ASSUME NEW r, RedirectShape(parent, r) PROVE FALSE
      <3>1. op.vout = 1 \/ op.vout = 2 \/ op.vout = 3
        BY <1>4, <2>4 DEF RedirectShape
      <3> QED
        BY <1>3, <1>6, <2>4, <3>1 DEF RedirectShape
    <2> QED
      BY <1>4, <2>1, <2>2, <2>3, <2>4 DEF TradeShape
  <1>8. TradeShape(tx) /\ License(tx)
    BY <1>1, <1>7, ShapesDiffer DEF TradeShape, License
  <1> QED
    BY <1>1, <1>8 DEF Publish, net

\* All that the protocol does to the chain: nothing, a block, or a transaction
\* of the trade that the node accepts.
LEMMA ChainSteps ==
    ASSUME SInv, ChainInv, ReleaseInv, [Next]_vars
    PROVE  \/ UNCHANGED chain
           \/ MineBlock /\ UNCHANGED net4
           \/ \E tx : Publish(tx)
  <1>1. CASE Mine
    BY <1>1 DEF Mine, net
  <1>2. ASSUME NEW r \in Role, NEW n \in Broadcastable, Broadcast(r, n)
        PROVE  \E tx : Publish(tx)
    <2>1. WitnessValid(r, n) /\ Accepts(txs[r][n])
          /\ mempool' = mempool \cup {txs[r][n]} /\ depth' = depth /\ net4' = net4
      BY <1>2 DEF Broadcast, net
    <2>2. Built(r)
      <3>1. 1 \in 1 .. Len(WitnessCtx(n)) /\ WitnessCtx(n)[1] \in Ctx
        BY DEF WitnessCtx, Broadcastable, Ctx
      <3>2. musig[r][WitnessCtx(n)[1]].stage = "final"
        BY <2>1, <3>1 DEF WitnessValid, HasWitness
      <3>3. session[r] \in Session /\ TraderInv(r)
        BY DEF SInv, IInv, TypeOK
      <3> QED
        BY <3>1, <3>2, <3>3, BuiltInTrade
    <2>3. TradeShape(txs[r][n])
      BY <2>2, BuiltShapes DEF TradeShape, Broadcastable
    <2>4. CASE n = "swap"
      <3>1. musig[r]["swap"].stage = "final"
        BY <2>1, <2>4 DEF WitnessValid, HasWitness, WitnessCtx
      <3> QED
        BY <2>1, <2>2, <2>3, <2>4, <3>1, BuiltShapes, ShapesDiffer DEF ReleaseInv, Publish, License
    <2>5. CASE n # "swap"
      <3>1. \/ WarnShape(txs[r][n], r) \/ ClaimShape(txs[r][n], r)
            \/ RedirectShape(txs[r][n], r)
        BY <2>2, <2>5, BuiltShapes DEF Broadcastable
      <3>2. ~SwapShape(txs[r][n]) /\ ~TakeShape(txs[r][n]) /\ ~EmptyShape(txs[r][n])
        BY <3>1, ShapesDiffer
      <3> QED
        BY <2>1, <2>3, <3>2 DEF Publish, License
    <2> QED
      BY <2>4, <2>5
  <1>3. ASSUME NEW r \in Role, NEW m, Round3(r, m) \/ Round3BroadcastFails(r, m)
        PROVE  UNCHANGED chain \/ \E tx : Publish(tx)
    <2> DEFINE dep == txs[r]["deposit"]
    <2>1. round[r] = 2 /\ ~failed[r] /\ depth' = depth /\ net4' = net4
      BY <1>3 DEF Round3, Round3BroadcastFails, CheckRound, Fail, net
    <2>2. TradeShape(dep) /\ License(dep)
      <3>1. DepositShape(dep)
        BY <2>1, BuiltShapes DEF SInv, IInv, StageInv
      <3> QED
        BY <3>1, ShapesDiffer DEF TradeShape, License
    <2>3. \/ mempool' = mempool \cup ({dep} \ Mined) /\ BroadcastOk(dep)
          \/ mempool' = mempool
          \/ mempool' = mempool \cup {dep} /\ Accepts(dep)
      BY <1>3 DEF Round3, Round3BroadcastFails
    <2> HIDE DEF dep
    <2>4. mempool' = mempool \/ (mempool' = mempool \cup {dep} /\ Accepts(dep))
      BY <2>3 DEF BroadcastOk, Accepts, Known
    <2> QED
      BY <2>1, <2>2, <2>4 DEF Publish, chain
  <1>4. ASSUME NEW r \in Role, NEW m,
               \/ Round1(r) \/ WalletFails(r) \/ Round2(r, m) \/ Round2Panics(r, m)
               \/ Round3Panics(r, m) \/ Round4(r, m) \/ Round4Panics(r, m)
               \/ Round5(r, m) \/ Round5Panics(r, m) \/ Restart(r)
        PROVE  UNCHANGED chain
    BY <1>4 DEF Round1, WalletFails, Round2, Round2Panics, Round3Panics, Round4, Round4Panics,
                Round5, Round5Panics, Restart
  <1>5. CASE UNCHANGED vars
    BY <1>5 DEF vars
  <1>6. CASE SpendWithKey
    BY <1>6, KeySpendShapes
  <1> QED
    BY <1>1, <1>2, <1>3, <1>4, <1>5, <1>6 DEF Next

\* The chain forgets nothing.
LEMMA KnownGrows ==
    ASSUME UNCHANGED chain \/ MineBlock \/ \E tx : Publish(tx)
    PROVE  Known \subseteq Known'
  <1>1. CASE UNCHANGED chain
    BY <1>1 DEF chain, Known, Mined
  <1>2. CASE MineBlock
    BY <1>2, MineKnown
  <1>3. CASE \E tx : Publish(tx)
    BY <1>3 DEF Publish, Known, Mined
  <1> QED
    BY <1>1, <1>2, <1>3

\* The trader's signature follows his broadcast of the deposit, and the SwapTx
\* is complete in the step that sends it.
LEMMA ReleaseNext ==
    ASSUME SInv, ChainInv, ReleaseInv, [Next]_vars
    PROVE  ReleaseInv'
  <1>1. Known \subseteq Known' /\ (Released => Released')
    BY ChainSteps, KnownGrows, SwapsSent DEF Released
  <1>2. /\ DOMAIN musig = Role /\ DOMAIN txs = Role /\ "swap" \in Ctx
        /\ \A x \in Role : DOMAIN musig[x] = Ctx
    BY DEF SInv, IInv, TypeOK, Ctx
  <1>3. ASSUME UNCHANGED <<txs, musig, net4>> PROVE ReleaseInv'
    BY <1>1, <1>3 DEF ReleaseInv, HasSigned, Released
  <1>4. ASSUME NEW r \in Role, NEW m, Round2(r, m) \/ Restart(r) PROVE ReleaseInv'
    <2>1. /\ net4' = net4
          /\ musig'[r]["swap"].stage \in {"new", "none"}
          /\ \A x \in Role : x # r => musig'[x] = musig[x] /\ txs'[x] = txs[x]
      <3>1. CASE Round2(r, m)
        <4> DEFINE keys == [t \in Tik |-> Aggregate(tik[r][t], IF t = "p" THEN m.p_a ELSE m.q_a)]
                   built == BuildTxs(r, m, keys["p"].agg, keys["q"].agg)
        <4>1. /\ net4' = net4 /\ txs' = [txs EXCEPT ![r] = built]
              /\ musig' = [musig EXCEPT ![r] =
                             [c \in Ctx |-> NewMuSig(r, keys[CtxTik(r, c)], c)]]
          BY <3>1 DEF Round2
        <4> HIDE DEF keys, built
        <4>2. \A key : NewMuSig(r, key, "swap").stage = "new"
          BY DEF NewMuSig, MuSigFor
        <4> QED
          BY <1>2, <4>1, <4>2
      <3>2. CASE Restart(r)
        <4>1. /\ net4' = net4
              /\ musig' = [musig EXCEPT ![r] = NewMuSigs] /\ txs' = [txs EXCEPT ![r] = NewTxs]
          BY <3>2 DEF Restart, net
        <4>2. NewMuSigs["swap"].stage = "none"
          BY <1>2 DEF NewMuSigs, NoMuSig, MuSigFor
        <4> QED
          BY <1>2, <4>1, <4>2
      <3> QED
        BY <1>4, <3>1, <3>2
    <2> QED
      BY <1>1, <2>1 DEF ReleaseInv, HasSigned, Released
  <1>5. ASSUME NEW r \in Role, NEW m, Round3(r, m) PROVE ReleaseInv'
    <2>1. /\ net4' = net4 /\ txs' = txs /\ txs[r]["deposit"] \in Known'
          /\ musig'[r]["swap"].stage = "signed"
          /\ \A x \in Role : x # r => musig'[x] = musig[x]
      BY <1>2, <1>5 DEF Round3, Sign, Known, Mined
    <2> QED
      BY <1>1, <2>1 DEF ReleaseInv, HasSigned, Released
  <1>6. ASSUME NEW r \in Role, NEW m, Round4(r, m) PROVE ReleaseInv'
    <2>1. HasSigned(r)
      BY <1>6 DEF Round4, CheckRound, SInv, IInv, StageInv
    <2>2. txs' = txs /\ \A x \in Role : x # r => musig'[x] = musig[x]
      BY <1>2, <1>6 DEF Round4
    <2>3. r # "Seller" => musig'[r]["swap"].stage # "final"
      <3>1. musig[r]["swap"] \in [key : Seq(Point), signer : AnyPoint, pub_nonce : AnyNonce,
                                  sec_nonce : AnyNonce, other_nonce : AnyNonce,
                                  adaptor : Seq(AnyPoint), msg : {musig[r]["swap"].msg},
                                  stage : Stage]
        BY <1>2 DEF SInv, IInv, TypeOK, MuSigOK
      <3>2. musig'[r]["swap"] = [musig[r]["swap"] EXCEPT !.stage = StageAfterRound4(r, "swap")]
        BY <1>2, <1>6 DEF Round4, MyCtx
      <3>3. musig'[r]["swap"].stage = StageAfterRound4(r, "swap")
        BY <3>1, <3>2
      <3> QED
        BY <3>3 DEF StageAfterRound4, Role
    <2>4. r = "Seller" => Released'
      <3>1. r = "Seller" =>
              \E x : net4' = net4 \cup {[from |-> r, swap_onchain |-> <<x>>]}
        BY <1>6 DEF Round4
      <3>2. \A x : [from |-> r, swap_onchain |-> <<x>>].swap_onchain # <<>>
        OBVIOUS
      <3> QED
        BY <3>1, <3>2 DEF Released
    <2>5. txs[r]["deposit"] \in Known
      BY <2>1 DEF ReleaseInv
    <2> QED
      BY <1>1, <2>1, <2>2, <2>3, <2>4, <2>5 DEF ReleaseInv, HasSigned
  <1>7. ASSUME NEW r \in Role, NEW k, Fail(r, k) PROVE UNCHANGED <<txs, musig, net4>>
    BY <1>7 DEF Fail, net
  <1>8. ASSUME NEW r \in Role, NEW m,
               \/ WalletFails(r) \/ Round2Panics(r, m) \/ Round3Panics(r, m)
               \/ Round3BroadcastFails(r, m) \/ Round4Panics(r, m) \/ Round5Panics(r, m)
        PROVE  UNCHANGED <<txs, musig, net4>>
    BY <1>7, <1>8 DEF WalletFails, Round2Panics, Round3Panics, Round3BroadcastFails, Round4Panics,
                      Round5Panics
  <1>9. ASSUME NEW r \in Role, NEW m, NEW n, Round1(r) \/ Round5(r, m) \/ Broadcast(r, n)
        PROVE  UNCHANGED <<txs, musig, net4>>
    BY <1>9 DEF Round1, Round5, Broadcast, sessionVars, net
  <1>10. ASSUME Mine \/ SpendWithKey \/ UNCHANGED vars
         PROVE  UNCHANGED <<txs, musig, net4>>
    BY <1>10 DEF Mine, SpendWithKey, vars, sessionVars, net
  <1> QED
    BY <1>3, <1>4, <1>5, <1>6, <1>8, <1>9, <1>10 DEF Next

\* A transaction that is accepted spends nothing spent, respecting its locks.
LEMMA PublishKeeps ==
    ASSUME ChainInv, NEW tx, Publish(tx)
    PROVE  ChainInv'
  <1>1. Known' = Known \cup {tx} /\ Mined' = Mined /\ depth' = depth
    BY DEF Publish, Known, Mined
  <1>2. \A op, n : SequenceMet(op, n) => SequenceMet(op, n)'
    BY <1>1 DEF SequenceMet
  <1>3. \A op \in Inputs(tx) : SequenceMet(op, tx.seq) /\ \A ty \in Known : op \notin Inputs(ty)
    BY DEF Publish, Accepts, Spent
  <1>4. NoDoubleSpend'
    BY <1>1, <1>3 DEF ChainInv, NoDoubleSpend
  <1>5. \A ty \in Known' : TradeShape(ty)
    BY <1>1 DEF ChainInv, Publish
  <1>6. \A ty \in Known' : \A op \in Inputs(ty) : SequenceMet(op, ty.seq)'
    BY <1>1, <1>2, <1>3 DEF ChainInv
  <1>7. mempool' \cap Mined' = {}
    BY <1>1 DEF ChainInv, Publish, Accepts, Known
  <1>8. \A ty \in Known' : EmptyShape(ty) => GivenAway(ty.ins[1])'
    <2>1. \A op : GivenAway(op) => GivenAway(op)'
      BY DEF Publish, GivenAway
    <2> QED
      BY <1>1, <2>1 DEF ChainInv, Publish, License
  <1> QED
    BY <1>1, <1>4, <1>5, <1>6, <1>7, <1>8 DEF ChainInv

\* A block only makes transactions deeper.
LEMMA BlockKeeps ==
    ASSUME ChainInv, MineBlock, UNCHANGED net4
    PROVE  ChainInv'
  <1>1. Known' = Known
    BY MineKnown
  <1>2. PICK block : depth' = [tx \in Mined \cup block |->
                                  IF tx \in block THEN 1
                                  ELSE IF depth[tx] < t2 THEN depth[tx] + 1 ELSE t2]
                     /\ block \subseteq mempool
    BY DEF MineBlock
  <1>3. \A tx \in Mined : tx \notin block
    BY <1>2 DEF ChainInv
  <1>4. \A tx \in Mined' : depth'[tx] \in 1 .. t2
    BY <1>2 DEF ChainInv, Mined, t2
  <1>5. \A tx \in Mined : tx \in Mined' /\ depth'[tx] >= depth[tx]
    BY <1>2, <1>3 DEF ChainInv, Mined, t2
  <1>6. \A op, n : n \in Nat /\ SequenceMet(op, n) => SequenceMet(op, n)'
    BY <1>4, <1>5 DEF SequenceMet, ChainInv, t2
  <1>7. \A tx \in Known : tx.seq \in Nat
    <2> SUFFICES ASSUME NEW tx, TradeShape(tx) PROVE tx.seq \in Nat
      BY DEF ChainInv
    <2>1. DepositShape(tx) => tx.seq = 0
      BY DEF DepositShape
    <2>2. SwapShape(tx) \/ TakeShape(tx) \/ EmptyShape(tx) => tx.seq = 0
      BY KeySpendForm DEF SwapShape, TakeShape, EmptyShape
    <2>3. \A r : /\ WarnShape(tx, r) => tx.seq = 0
                 /\ ClaimShape(tx, r) => tx.seq = t2
                 /\ RedirectShape(tx, r) => tx.seq = t1
      BY DEF WarnShape, ClaimShape, RedirectShape
    <2> QED
      BY <2>1, <2>2, <2>3 DEF TradeShape, t1, t2
  <1>8. \A tx \in Known' : \A op \in Inputs(tx) : SequenceMet(op, tx.seq)'
    BY <1>1, <1>6, <1>7 DEF ChainInv
  <1>9. mempool' \cap Mined' = {}
    BY <1>2 DEF ChainInv, MineBlock, Mined
  <1>10. NoDoubleSpend'
    BY <1>1 DEF ChainInv, NoDoubleSpend
  <1>11. \A op : GivenAway(op) => GivenAway(op)'
    BY DEF GivenAway
  <1> QED
    BY <1>1, <1>4, <1>8, <1>9, <1>10, <1>11 DEF ChainInv

\* The chain keeps its shape in every reachable state.
LEMMA ChainInvariance == Spec => [](ChainInv /\ ReleaseInv)
  <1>1. Init => ChainInv /\ ReleaseInv
    <2> SUFFICES ASSUME Init PROVE ChainInv /\ ReleaseInv
      OBVIOUS
    <2>1. ChainInv
      BY DEF Init, ChainInit, ChainInv, NoDoubleSpend, Known, Mined
    <2>2. \A r \in Role : musig[r]["swap"].stage = "none"
      BY DEF Init, NewMuSigs, NoMuSig, MuSigFor, Ctx
    <2> QED
      BY <2>1, <2>2 DEF Init, ReleaseInv, HasSigned, Released
  <1>2. SInv /\ ChainInv /\ ReleaseInv /\ [Next]_vars => ChainInv' /\ ReleaseInv'
    <2> SUFFICES ASSUME SInv, ChainInv, ReleaseInv, [Next]_vars PROVE ChainInv'
      BY ReleaseNext
    <2>1. CASE UNCHANGED chain
      <3>1. \A op : GivenAway(op) => GivenAway(op)'
        BY SwapsSent DEF GivenAway
      <3>2. Known' = Known /\ Mined' = Mined /\ UNCHANGED <<mempool, depth>>
        BY <2>1 DEF chain, Known, Mined
      <3>3. \A op, n : SequenceMet(op, n) => SequenceMet(op, n)'
        BY <3>2 DEF SequenceMet
      <3> QED
        BY <3>1, <3>2, <3>3 DEF ChainInv, NoDoubleSpend
    <2>2. CASE MineBlock /\ UNCHANGED net4
      BY <2>2, BlockKeeps
    <2>3. CASE \E tx : Publish(tx)
      BY <2>3, PublishKeeps
    <2> QED
      BY <2>1, <2>2, <2>3, ChainSteps
  <1> QED
    BY <1>1, <1>2, SafetyInvariance, PTL DEF Spec

-----------------------------------------------------------------------------
(* The window of the warned trader.                                        *)

\* A transaction of the trade that is on the chain was built by its trader.
LEMMA KnownIsBuilt ==
    ASSUME SInv, ChainInv, NEW r \in Role, NEW n \in TxName, txs[r][n] \in Known
    PROVE  Built(r)
  <1> SUFFICES ASSUME ~Built(r) PROVE FALSE
    OBVIOUS
  <1>1. txs[r][n] = NoTx
    <2>1. session[r] \in Session /\ TraderInv(r)
      BY DEF SInv, IInv, TypeOK
    <2> QED
      BY <2>1, BuiltInTrade DEF Fresh, NewTxs
  <1>2. TradeShape(NoTx)
    BY <1>1 DEF ChainInv
  <1>3. Len(NoTx.ins) = 0
    BY DEF NoTx
  <1> QED
    BY <1>2, <1>3, KeySpendForm DEF TradeShape, DepositShape, SwapShape, TakeShape, EmptyShape,
                                    WarnShape, ClaimShape, RedirectShape

\* What spends the funds of a warning is a claim, a redirect or the buyer's spend
\* of his own.
LEMMA SpendsWarning ==
    ASSUME NEW w, NEW r, WarnShape(w, r), NEW tx, TradeShape(tx), FundsOf(w) \in Inputs(tx)
    PROVE  EmptyShape(tx) \/ \E z \in Role : ClaimShape(tx, z) \/ RedirectShape(tx, z)
  <1>1. FundsOf(w).tx = w
    BY DEF FundsOf, OutPoint
  <1>2. ~DepositShape(w) /\ w.ins # <<>>
    BY ShapesDiffer DEF WarnShape
  <1>3. ~DepositShape(tx)
    BY <1>1, <1>2, CoinParents
  <1>4. ~SwapShape(tx) /\ ~TakeShape(tx)
    <2> SUFFICES ASSUME SwapShape(tx) \/ TakeShape(tx) PROVE FALSE
      OBVIOUS
    <2>1. Len(tx.ins) = 1 /\ DepositShape(tx.ins[1].tx)
      BY KeySpendForm DEF SwapShape, TakeShape, EscrowOut
    <2>2. FundsOf(w) = tx.ins[1]
      BY <2>1, InputsOf
    <2> QED
      BY <1>1, <1>2, <2>1, <2>2
  <1>5. \A z : ~WarnShape(tx, z)
    <2> SUFFICES ASSUME NEW z, WarnShape(tx, z) PROVE FALSE
      OBVIOUS
    <2>a. Len(tx.ins) = 2 /\ EscrowOut(tx.ins[1], "p") /\ EscrowOut(tx.ins[2], "q")
      BY DEF WarnShape
    <2>1. Len(tx.ins) = 2 /\ DepositShape(tx.ins[1].tx) /\ DepositShape(tx.ins[2].tx)
      BY <2>a DEF EscrowOut
    <2>2. FundsOf(w) = tx.ins[1] \/ FundsOf(w) = tx.ins[2]
      BY <2>1, InputsOf
    <2> QED
      BY <1>1, <1>2, <2>1, <2>2
  <1> QED
    BY <1>3, <1>4, <1>5 DEF TradeShape

\* A claim on the chain has waited for t2 blocks, a warning that was emptied is
\* one of a buyer who has its key, and the redirect of the same warning is
\* signed, of the right trader, and short of nothing.
LEMMA WindowHolds == SInv /\ ChainInv => RedirectWindow
  <1> SUFFICES ASSUME SInv, ChainInv, NEW r \in Role, txs[r]["warning_me"] \in Mined
               PROVE  LET w == txs[r]["warning_me"] IN
                      /\ \A tx \in Known : FundsOf(w) \in Inputs(tx) /\ depth[w] < t2 =>
                            \/ tx.outs[1].script = Dao(1)
                            \/ /\ r = "Buyer" /\ GivenAway(FundsOf(w))
                               /\ tx.outs[1].script = Wallet("Buyer")
                      /\ ~Spent(FundsOf(w)) /\ HasWitness(Other(r), "redirect_me")
                           /\ txs[Other(r)]["deposit"] = txs[r]["deposit"] =>
                              /\ WitnessValid(Other(r), "redirect_me")
                              /\ Accepts(txs[Other(r)]["redirect_me"])
    BY DEF RedirectWindow
  <1> DEFINE w == txs[r]["warning_me"]
             z == Other(r)
  <1>1. w \in Known /\ Built(r) /\ WarnShape(w, r)
    BY KnownIsBuilt, BuiltShapes DEF Known, TxName
  <1>2. depth[w] \in 1 .. t2
    BY DEF ChainInv
  <1>3. FundsOf(w).tx = w
    BY DEF FundsOf, OutPoint
  <1>4. ASSUME NEW tx \in Known, FundsOf(w) \in Inputs(tx), depth[w] < t2
        PROVE  \/ tx.outs[1].script = Dao(1)
               \/ /\ r = "Buyer" /\ GivenAway(FundsOf(w))
                  /\ tx.outs[1].script = Wallet("Buyer")
    <2>1. TradeShape(tx) /\ SequenceMet(FundsOf(w), tx.seq)
      BY <1>4 DEF ChainInv
    <2>2. EmptyShape(tx) \/ \E x \in Role : ClaimShape(tx, x) \/ RedirectShape(tx, x)
      BY <1>1, <1>4, <2>1, SpendsWarning
    <2>3. \A x : ~ClaimShape(tx, x)
      <3>1. \A x : ClaimShape(tx, x) => depth[w] >= t2
        BY <1>3, <2>1 DEF ClaimShape, SequenceMet, t2
      <3> QED
        BY <1>2, <1>4, <3>1 DEF t2
    <2>4. CASE EmptyShape(tx)
      <3>1. /\ tx.outs[1].script = Wallet("Buyer") /\ FundsOf(w) = tx.ins[1]
            /\ WarnShape(w, "Buyer")
        BY <1>3, <1>4, <2>4, KeySpendForm, InputsOf DEF EmptyShape
      <3>2. r = "Buyer"
        <4>1. \A y \in Role : Wallet(y)[1].role = y
          BY DEF Wallet
        <4> QED
          BY <1>1, <3>1, <4>1 DEF WarnShape, Role
      <3>3. GivenAway(FundsOf(w))
        BY <1>4, <2>4, <3>1 DEF ChainInv
      <3> QED
        BY <3>1, <3>2, <3>3
    <2> QED
      BY <2>2, <2>3, <2>4 DEF RedirectShape
  <1>5. ASSUME ~Spent(FundsOf(w)), HasWitness(z, "redirect_me"),
               txs[z]["deposit"] = txs[r]["deposit"]
        PROVE  WitnessValid(z, "redirect_me") /\ Accepts(txs[z]["redirect_me"])
    <2> DEFINE tx == txs[z]["redirect_me"]
    <2>1. z \in Role /\ Other(z) = r
      BY OtherRole
    <2>2. WitnessValid(z, "redirect_me")
      BY <1>5, <2>1, WitnessesValid DEF FinalWitnessesValid, Broadcastable
    <2>3. /\ Built(z) /\ terms[z] = terms[r] /\ "p" \in Tik /\ "q" \in Tik
          /\ \A t \in Tik : tik[z][t].agg = tik[r][t].agg
      BY <1>1, <1>5, SameDepositSameTrade DEF Tik
    <2>4. tx.ins = << FundsOf(w) >> /\ tx.seq = t1
      <3> DEFINE p == tik[r]["p"].agg
                 q == tik[r]["q"].agg
                 dep == txs[r]["deposit"]
                 built == BuildWarning(r, terms[r], p, q, dep, Wallet(r))
      <3>1. txs[r] = TxsOf(r, terms[r], p, q, dep) /\ txs[z] = TxsOf(z, terms[r], p, q, dep)
        BY <1>1, <1>5, <2>1, <2>3 DEF SInv, IInv, BuiltInv
      <3>a. "warning_me" \in TxName /\ "redirect_me" \in TxName
        BY DEF TxName
      <3>2. w = built
        <4>1. w = TxsOf(r, terms[r], p, q, dep)["warning_me"]
          BY <3>1
        <4> HIDE DEF w, p, q, dep
        <4> QED
          BY <3>a, <4>1 DEF TxsOf
      <3>b. Other(z) = r
        BY <2>1 DEF Other, Role
      <3>3. tx = BuildRedirect(built, Wallet(z))
        <4>1. tx = TxsOf(z, terms[r], p, q, dep)["redirect_me"]
          BY <3>1
        <4> HIDE DEF tx, p, q, dep
        <4> QED
          BY <3>a, <3>b, <4>1 DEF TxsOf
      <3> HIDE DEF built, w, tx
      <3>4. BuildRedirect(built, Wallet(z)).ins = << FundsOf(built) >>
            /\ BuildRedirect(built, Wallet(z)).seq = t1
        BY DEF BuildRedirect
      <3> QED
        BY <3>2, <3>3, <3>4
    <2> HIDE DEF tx, w
    <2>5. Inputs(tx) = {FundsOf(w)}
      BY <2>4 DEF Inputs
    <2>6. tx \notin Known
      BY <1>5, <2>5 DEF Spent
    <2>7. SequenceMet(FundsOf(w), tx.seq) /\ Exists(FundsOf(w))
      BY <1>1, <1>2, <1>3, <2>4 DEF SequenceMet, Exists, t1, t2, w
    <2>8. Accepts(tx)
      BY <1>5, <2>5, <2>6, <2>7 DEF Accepts
    <2> QED
      BY <2>2, <2>8 DEF tx
  <1> QED
    BY <1>4, <1>5

\* The funds of a mined WarningTx go nowhere but to the DAO before block t2, or
\* to a buyer to whom the seller had given the key of his own WarningTx; and the
\* warned trader can send them to the DAO as soon as he sees it, if they are
\* still there: the locks t1 < t2 of RedirectTx and ClaimTx, the key and the
\* index of the warning's output.
THEOREM WarnedCanRedirect == Spec => []RedirectWindow
  BY WindowHolds, SafetyInvariance, ChainInvariance, PTL

-----------------------------------------------------------------------------
(* What the buyer has of a published SwapTx.                               *)

\* The buyer who signed can read the secret of P' off the SwapTx, and what P'
\* locks is still there or his: only a WarningTx spends it otherwise, with what
\* Q' locks.
LEMMA SwapLeavesSellerOutput == SInv /\ ChainInv => SwapGivesBuyerKey
  <1> DEFINE dep  == txs["Buyer"]["deposit"]
             swap == txs["Buyer"]["swap"]
             out  == SellerOutput(dep, tik["Buyer"]["p"].agg)
  <1> SUFFICES ASSUME SInv, ChainInv,
                      musig["Buyer"]["swap"].stage = "aggregated", swap \in Known
               PROVE  /\ Reveal("Buyer").agg_sec = tik["Buyer"]["p"].agg
                      /\ \A tx \in Known : out \in Inputs(tx) =>
                            tx = BuildKeySpend(out, Wallet("Buyer"))
    BY DEF SwapGivesBuyerKey
  <1>1. Reveal("Buyer").agg_sec = tik["Buyer"]["p"].agg
    BY RevealsSecret DEF HasSigned
  <1>2. "Buyer" \in Role /\ Built("Buyer")
    BY KnownIsBuilt DEF Role, TxName
  <1>3. /\ DepositShape(dep) /\ SwapShape(swap) /\ EscrowOut(out, "p")
        /\ swap.ins = << OutPoint(dep, OutputIndex(dep, tik["Buyer"]["q"].agg)) >>
    BY <1>2, BuiltShapes
  <1>4. out.tx = dep /\ swap.ins[1].tx = dep /\ swap.ins[1] \in Inputs(swap)
        /\ Inputs(swap) = {swap.ins[1]} /\ EscrowOut(swap.ins[1], "q")
    <2>1. \A i : OutPoint(dep, i).tx = dep
      BY DEF OutPoint
    <2>2. out.tx = dep
      BY <2>1 DEF SellerOutput
    <2> HIDE DEF dep, swap, out
    <2>3. swap.ins[1].tx = dep
      BY <1>3, <2>1
    <2>4. Inputs(swap) = {swap.ins[1]} /\ EscrowOut(swap.ins[1], "q")
      BY <1>3, InputsOf DEF SwapShape
    <2> QED
      BY <2>2, <2>3, <2>4
  <1> HIDE DEF dep, swap, out
  <1>5. ASSUME NEW tx \in Known, out \in Inputs(tx), ~TakeShape(tx) PROVE FALSE
    <2>1. TradeShape(tx)
      BY DEF ChainInv
    <2>2. dep.ins # <<>> /\ \A r : ~WarnShape(dep, r)
      BY <1>3, ShapesDiffer DEF DepositShape
    <2>3. ~DepositShape(tx)
      BY <1>4, <1>5, <2>2, CoinParents
    <2>4. ~EmptyShape(tx) /\ \A r : ~ClaimShape(tx, r) /\ ~RedirectShape(tx, r)
      BY <1>4, <1>5, <2>2, KeySpendForm, InputsOf DEF ClaimShape, RedirectShape, EmptyShape
    <2>5. ~SwapShape(tx)
      BY <1>3, <1>5, OneKind, InputsOf DEF SwapShape
    <2>6. PICK r \in Role : WarnShape(tx, r)
      BY <1>5, <2>1, <2>3, <2>4, <2>5 DEF TradeShape
    <2>7. tx.ins[2].tx = dep /\ EscrowOut(tx.ins[2], "q") /\ tx.ins[2] \in Inputs(tx)
      <3>1. out = tx.ins[1] \/ out = tx.ins[2]
        BY <1>5, <2>6, InputsOf DEF WarnShape
      <3> QED
        BY <1>4, <2>6, <3>1, InputsOf DEF WarnShape
    <2>8. tx.ins[2] = swap.ins[1]
      BY <1>4, <2>7, OneOutput DEF Tik
    <2>9. tx = swap
      BY <1>4, <2>7, <2>8 DEF ChainInv, NoDoubleSpend
    <2> QED
      BY <1>3, <2>6, <2>9, ShapesDiffer
  <1>6. ASSUME NEW tx \in Known, out \in Inputs(tx), TakeShape(tx)
        PROVE  tx = BuildKeySpend(out, Wallet("Buyer"))
    <2>1. out = tx.ins[1] /\ KeySpendShape(tx)
      BY <1>6, KeySpendForm, InputsOf DEF TakeShape
    <2> QED
      BY <2>1 DEF KeySpendShape
  <1> QED
    BY <1>1, <1>5, <1>6

\* A published SwapTx that the buyer had signed gives him the trade: the secret
\* of the aggregated key P' (reveal2other), over an output nobody else has spent.
THEOREM SwapGivesTrade == Spec => []SwapGivesBuyerKey
  BY SwapLeavesSellerOutput, SafetyInvariance, ChainInvariance, PTL

-----------------------------------------------------------------------------
(* With one coin per wallet, the protocol implements Escrow.  The mapping  *)
(* of EscrowRefinement, written as functions of the known transactions and *)
(* of their depths, so that it can be evaluated before and after a step.   *)

SpendersIn(known, op)    == { tx \in known : op \in Inputs(tx) }
DepositsIn(known)        == UNION { SpendersIn(known, op) : op \in CoinsOf("Seller") }
ChildrenIn(known, txset) == { tx \in known : \E op \in Inputs(tx) : op.tx \in txset }
SidesIn(known, t) ==
    { tx \in ChildrenIn(known, DepositsIn(known)) : Len(tx.ins) = 1 /\ LockedBy(tx, t) }
SwapsIn(known)     == SidesIn(known, "q")
TakesIn(known)     == SidesIn(known, "p")
WarningsIn(known)  == { tx \in ChildrenIn(known, DepositsIn(known)) : Len(tx.ins) = 2 }
ClaimsIn(known)    ==
    { tx \in ChildrenIn(known, WarningsIn(known)) : Len(tx.outs) = 1 /\ tx.seq # 0 }
EmptiesIn(known)   ==
    { tx \in ChildrenIn(known, WarningsIn(known)) : Len(tx.outs) = 1 /\ tx.seq = 0 }
RedirectsIn(known) == { tx \in ChildrenIn(known, WarningsIn(known)) : Len(tx.outs) = 3 }
AtIn(known) ==
    CASE ClaimsIn(known) # {}                     -> "claimed"
      [] RedirectsIn(known) # {}                  -> "redirected"
      [] EmptiesIn(known) # {}                    -> "emptied"
      [] WarningsIn(known) # {} /\ ChildrenIn(known, WarningsIn(known)) = {} -> "warned"
      [] SwapsIn(known) # {} /\ TakesIn(known) # {} -> "exchanged"
      [] SwapsIn(known) # {} /\ TakesIn(known) = {} -> "swapped"
      [] TakesIn(known) # {} /\ SwapsIn(known) = {} -> "taken"
      [] DepositsIn(known) # {} /\ ChildrenIn(known, DepositsIn(known)) = {} -> "escrow"
      [] OTHER                                    -> "wallets"
ByIn(known) == PaidIn(WarningsIn(known))
ToIn(known) == PaidIn(ClaimsIn(known) \cup RedirectsIn(known) \cup EmptiesIn(known))
AgeIn(known, depths) ==
    IF WarningsIn(known) \cap DOMAIN depths = {} THEN 0
    ELSE depths[CHOOSE tx \in WarningsIn(known) : tx \in DOMAIN depths]

\* The mapping and these functions agree, in every state.
Resolver == PaidIn(ClaimTxs \cup RedirectTxs \cup EmptyTxs)
Agrees ==
    /\ EscrowAt = AtIn(Known) /\ PaidIn(WarningTxs) = ByIn(Known)
    /\ Resolver = ToIn(Known)
    /\ WarningAge = AgeIn(Known, depth)

\* The refinement mapping, as functions of what is known and how deep it is.
LEMMA Mapping == Agrees
  <1>1. /\ DepositTxs = DepositsIn(Known)
        /\ \A txset : Children(txset) = ChildrenIn(Known, txset)
    BY DEF DepositTxs, DepositsIn, Spenders, SpendersIn, Children, ChildrenIn
  <1>2. /\ SwapTxs = SwapsIn(Known) /\ TakeTxs = TakesIn(Known)
        /\ WarningTxs = WarningsIn(Known)
    BY <1>1 DEF SwapTxs, TakeTxs, WarningTxs, SwapsIn, TakesIn, SidesIn, WarningsIn
  <1>3. /\ ClaimTxs = ClaimsIn(Known) /\ RedirectTxs = RedirectsIn(Known)
        /\ EmptyTxs = EmptiesIn(Known)
    BY <1>1, <1>2 DEF ClaimTxs, RedirectTxs, EmptyTxs, ClaimsIn, RedirectsIn, EmptiesIn
  <1>4. EscrowAt = AtIn(Known)
    BY <1>1, <1>2, <1>3 DEF EscrowAt, AtIn
  <1>5. WarningAge = AgeIn(Known, depth)
    BY <1>2 DEF WarningAge, AgeIn, Mined
  <1> QED
    BY <1>2, <1>3, <1>4, <1>5 DEF Agrees, Resolver, ByIn, ToIn

\* The same of the next state.
LEMMA MappingNext ==
    /\ EscrowAt' = AtIn(Known') /\ PaidIn(WarningTxs)' = ByIn(Known')
    /\ Resolver' = ToIn(Known')
    /\ WarningAge' = AgeIn(Known', depth')
  <1>1. Agrees'
    BY Mapping, PTL
  <1> QED
    BY <1>1 DEF Agrees

\* All inputs of x are outputs of p.
ChildOf(x, p) == x.ins # <<>> /\ Inputs(x) # {} /\ \A op \in Inputs(x) : op.tx = p

\* Everything but a deposit spends outputs of one transaction.
LEMMA Family ==
    ASSUME NEW x
    PROVE  /\ SwapShape(x) => /\ ChildOf(x, x.ins[1].tx) /\ Len(x.ins) = 1
                              /\ LockedBy(x, "q") /\ ~LockedBy(x, "p")
           /\ TakeShape(x) => /\ ChildOf(x, x.ins[1].tx) /\ Len(x.ins) = 1
                              /\ LockedBy(x, "p") /\ ~LockedBy(x, "q")
           /\ EmptyShape(x) => ChildOf(x, x.ins[1].tx) /\ Len(x.outs) = 1 /\ x.seq = 0
           /\ \A r : WarnShape(x, r) => ChildOf(x, x.ins[1].tx) /\ Len(x.ins) = 2
           /\ \A r : ClaimShape(x, r) => ChildOf(x, x.ins[1].tx) /\ Len(x.outs) = 1 /\ x.seq # 0
           /\ \A r : RedirectShape(x, r) => ChildOf(x, x.ins[1].tx) /\ Len(x.outs) = 3
           /\ DepositShape(x) => x.ins # <<>>
  <1>1. Len(<<>>) = 0
    OBVIOUS
  <1>2. Len(x.ins) = 1 => ChildOf(x, x.ins[1].tx)
    <2>1. Len(x.ins) = 1 => Inputs(x) = {x.ins[1]} /\ x.ins # <<>>
      BY <1>1, InputsOf
    <2> QED
      BY <2>1 DEF ChildOf
  <1>3. \A r : WarnShape(x, r) => ChildOf(x, x.ins[1].tx) /\ Len(x.ins) = 2
    <2>1. Len(x.ins) = 2 => Inputs(x) = {x.ins[1], x.ins[2]}
      BY InputsOf
    <2>a. Len(x.ins) = 2 => x.ins # <<>>
      BY <1>1
    <2>2. Len(x.ins) = 2 /\ x.ins[1].tx = x.ins[2].tx => ChildOf(x, x.ins[1].tx)
      BY <2>1, <2>a DEF ChildOf
    <2> QED
      BY <2>2 DEF WarnShape
  <1>4. DepositShape(x) => x.ins # <<>>
    BY <1>1 DEF DepositShape
  <1>5. \A r : ClaimShape(x, r) => Len(x.ins) = 1 /\ Len(x.outs) = 1 /\ x.seq # 0
    BY DEF ClaimShape, t2
  <1>6. \A r : RedirectShape(x, r) => Len(x.ins) = 1 /\ Len(x.outs) = 3
    BY DEF RedirectShape
  <1>7. /\ EscrowOut(x.ins[1], "q") => LockedBy(x, "q") /\ ~LockedBy(x, "p")
        /\ EscrowOut(x.ins[1], "p") => LockedBy(x, "p") /\ ~LockedBy(x, "q")
    <2>1. \A op, t : EscrowOut(op, t) => Prevout(op).script[1].tik = t
      BY DEF EscrowOut, Prevout
    <2>2. \A t : EscrowOut(x.ins[1], t) => Prevout(x.ins[1]).script[1].tik = t
      BY <2>1
    <2> QED
      BY <2>2 DEF LockedBy
  <1>8. SwapShape(x) => Len(x.ins) = 1 /\ LockedBy(x, "q") /\ ~LockedBy(x, "p")
    BY <1>7 DEF SwapShape
  <1>9. TakeShape(x) => Len(x.ins) = 1 /\ LockedBy(x, "p") /\ ~LockedBy(x, "q")
    BY <1>7, KeySpendForm DEF TakeShape
  <1>10. EmptyShape(x) => Len(x.ins) = 1 /\ Len(x.outs) = 1 /\ x.seq = 0
    BY KeySpendForm DEF EmptyShape
  <1> QED
    BY <1>2, <1>3, <1>4, <1>5, <1>6, <1>8, <1>9, <1>10

\* What spends an output of a deposit, and what spends the funds of a warning.
OfDeposit(tx) == SwapShape(tx) \/ TakeShape(tx) \/ \E r \in Role : WarnShape(tx, r)
OfWarning(tx) == EmptyShape(tx) \/ \E r \in Role : ClaimShape(tx, r) \/ RedirectShape(tx, r)

\* Every other transaction than a deposit is a child of a deposit or of a warning.
LEMMA Parents ==
    ASSUME NEW tx, TradeShape(tx), ~DepositShape(tx)
    PROVE  /\ \/ DepositShape(tx.ins[1].tx) /\ OfDeposit(tx)
              \/ (\E r \in Role : WarnShape(tx.ins[1].tx, r)) /\ OfWarning(tx)
           /\ ChildOf(tx, tx.ins[1].tx) /\ tx.ins[1] \in Inputs(tx)
  <1>1. SwapShape(tx) \/ TakeShape(tx) => DepositShape(tx.ins[1].tx)
    BY DEF SwapShape, TakeShape, EscrowOut
  <1>2. \A r : WarnShape(tx, r) => DepositShape(tx.ins[1].tx)
    BY DEF WarnShape, EscrowOut
  <1>3. EmptyShape(tx) => \E r \in Role : WarnShape(tx.ins[1].tx, r)
    BY DEF EmptyShape, Role
  <1>4. \A r \in Role : ClaimShape(tx, r) \/ RedirectShape(tx, r) =>
                           \E y \in Role : WarnShape(tx.ins[1].tx, y)
    BY OtherRole DEF ClaimShape, RedirectShape
  <1>5. ChildOf(tx, tx.ins[1].tx)
    BY Family DEF TradeShape
  <1>6. tx.ins[1] \in Inputs(tx)
    <2>1. SwapShape(tx) \/ TakeShape(tx) \/ EmptyShape(tx) => Len(tx.ins) = 1
      BY KeySpendForm DEF SwapShape, TakeShape, EmptyShape
    <2>2. \A r : WarnShape(tx, r) \/ ClaimShape(tx, r) \/ RedirectShape(tx, r) =>
                    Len(tx.ins) = 1 \/ Len(tx.ins) = 2
      BY DEF WarnShape, ClaimShape, RedirectShape
    <2>3. Len(tx.ins) = 1 \/ Len(tx.ins) = 2
      BY <2>1, <2>2 DEF TradeShape
    <2> QED
      BY <2>3, InputsOf
  <1> QED
    BY <1>1, <1>2, <1>3, <1>4, <1>5, <1>6 DEF TradeShape, OfDeposit, OfWarning

\* The children of a set of transactions.
LEMMA ChildrenRule ==
    ASSUME NEW known, NEW S, \A s \in S : s.ins # <<>>
    PROVE  /\ ChildrenIn(known, S) \subseteq known
           /\ \A x \in known : DepositShape(x) => x \notin ChildrenIn(known, S)
           /\ \A x \in known : \A p : ChildOf(x, p) => (x \in ChildrenIn(known, S) <=> p \in S)
  <1>1. \A x \in known : DepositShape(x) => x \notin ChildrenIn(known, S)
    BY CoinParents DEF ChildrenIn
  <1>2. ASSUME NEW x \in known, NEW p, ChildOf(x, p)
        PROVE  x \in ChildrenIn(known, S) <=> p \in S
    BY <1>2 DEF ChildrenIn, ChildOf
  <1> QED
    BY <1>1, <1>2 DEF ChildrenIn

\* Only a deposit spends a coin.
LEMMA DepositsRule ==
    ASSUME NEW known, \A tx \in known : TradeShape(tx)
    PROVE  DepositsIn(known) = { tx \in known : DepositShape(tx) }
  <1>1. ASSUME NEW tx \in known, ~DepositShape(tx), NEW op \in Inputs(tx), NEW z \in Role
        PROVE  op \notin CoinsOf(z)
    <2>1. \E d : op.tx = d /\ (DepositShape(d) \/ \E r : WarnShape(d, r))
      BY <1>1, Parents DEF ChildOf
    <2>2. op.tx.ins # <<>>
      BY <2>1, Family DEF ChildOf
    <2>3. FundingTx(z).ins = <<>>
      BY DEF FundingTx
    <2> QED
      BY <2>2, <2>3, DistinctCoins
  <1>2. \A tx \in known : DepositShape(tx) => \E op \in Inputs(tx) : op \in CoinsOf("Seller")
    BY InputsOf DEF DepositShape
  <1>3. \A tx : tx \in DepositsIn(known) <=>
                   tx \in known /\ \E op \in CoinsOf("Seller") : op \in Inputs(tx)
    BY DEF DepositsIn, SpendersIn
  <1> QED
    BY <1>1, <1>2, <1>3 DEF Role

\* Whom a single transaction pays.
LEMMA PaidOne ==
    ASSUME NEW tx, NEW r \in Role, \E i \in 1 .. Len(tx.outs) : tx.outs[i].script = Wallet(r),
           \A i \in 1 .. Len(tx.outs), z \in Role : tx.outs[i].script = Wallet(z) => z = r
    PROVE  PaidIn({tx}) = r
  <1>1. \A z \in Role : (\E u \in {tx} : \E i \in 1 .. Len(u.outs) : u.outs[i].script = Wallet(z))
                           <=> z = r
    OBVIOUS
  <1> QED
    BY <1>1 DEF PaidIn

\* Whom a WarningTx, a claim, a redirect and the buyer's spend pay.
LEMMA PaidTraders ==
    ASSUME NEW r \in Role, NEW x,
           \/ WarnShape(x, r) \/ ClaimShape(x, r) \/ RedirectShape(x, r)
           \/ EmptyShape(x) /\ r = "Buyer"
    PROVE  PaidIn({x}) = r
  <1>1. \A z \in Role : Wallet(z)[1].tik = "wallet" /\ Wallet(z)[1].role = z
    BY DEF Wallet
  <1>2. Dao(1)[1].tik = "dao" /\ Dao(2)[1].tik = "dao"
    BY DEF Dao
  <1>3. \A z, y \in Role : Wallet(z) = Wallet(y) => z = y
    BY <1>1
  <1>4. CASE WarnShape(x, r)
    <2>1. WarnTik(r) # "wallet"
      BY DEF WarnTik
    <2>2. /\ Len(x.outs) = 2 /\ x.outs[2].script = Wallet(r)
          /\ x.outs[1].script[1].tik = WarnTik(r)
      BY <1>4 DEF WarnShape
    <2>3. \A z \in Role : x.outs[1].script # Wallet(z)
      BY <1>1, <2>1, <2>2
    <2>4. 2 \in 1 .. Len(x.outs) /\ \A i \in 1 .. Len(x.outs) : i = 1 \/ i = 2
      BY <2>2
    <2>5. \A i \in 1 .. Len(x.outs), z \in Role : x.outs[i].script = Wallet(z) => z = r
      BY <1>3, <2>2, <2>3, <2>4
    <2> QED
      BY <2>2, <2>4, <2>5, PaidOne
  <1>5. CASE ClaimShape(x, r) \/ (EmptyShape(x) /\ r = "Buyer")
    <2>a. EmptyShape(x) => Len(x.outs) = 1 /\ x.outs[1].script = Wallet("Buyer")
      BY KeySpendForm DEF EmptyShape
    <2>1. Len(x.outs) = 1 /\ x.outs[1].script = Wallet(r)
      BY <1>5, <2>a DEF ClaimShape
    <2>2. 1 \in 1 .. Len(x.outs) /\ \A i \in 1 .. Len(x.outs) : i = 1
      BY <2>1
    <2>3. \A i \in 1 .. Len(x.outs), z \in Role : x.outs[i].script = Wallet(z) => z = r
      BY <1>3, <2>1, <2>2
    <2>4. \E i \in 1 .. Len(x.outs) : x.outs[i].script = Wallet(r)
      BY <2>1, <2>2
    <2> QED
      BY <2>3, <2>4, PaidOne
  <1>6. CASE RedirectShape(x, r)
    <2>1. /\ Len(x.outs) = 3 /\ x.outs[3].script = Wallet(r)
          /\ \A z \in Role : x.outs[1].script # Wallet(z) /\ x.outs[2].script # Wallet(z)
      BY <1>1, <1>2, <1>6 DEF RedirectShape
    <2>2. 3 \in 1 .. Len(x.outs) /\ \A i \in 1 .. Len(x.outs) : i = 1 \/ i = 2 \/ i = 3
      BY <2>1
    <2>3. \A i \in 1 .. Len(x.outs), z \in Role : x.outs[i].script = Wallet(z) => z = r
      BY <1>3, <2>1, <2>2
    <2>4. \E i \in 1 .. Len(x.outs) : x.outs[i].script = Wallet(r)
      BY <2>1, <2>2
    <2> QED
      BY <2>3, <2>4, PaidOne
  <1> QED
    BY <1>4, <1>5, <1>6

\* What the mapping makes of each phase.
View(known, at, by, to) == AtIn(known) = at /\ ByIn(known) = by /\ ToIn(known) = to

\* What the mapping makes of each phase: no transaction is known,
LEMMA ViewNothing == View({}, "wallets", None, None) /\ WarningsIn({}) = {}
  <1>1. DepositsIn({}) = {} /\ \A S : ChildrenIn({}, S) = {}
    BY DEF DepositsIn, SpendersIn, ChildrenIn
  <1>2. SwapsIn({}) = {} /\ TakesIn({}) = {} /\ WarningsIn({}) = {}
    BY <1>1 DEF SwapsIn, TakesIn, SidesIn, WarningsIn
  <1>3. ClaimsIn({}) = {} /\ RedirectsIn({}) = {} /\ EmptiesIn({}) = {}
    BY <1>1 DEF ClaimsIn, RedirectsIn, EmptiesIn
  <1> QED
    BY <1>1, <1>2, <1>3 DEF View, AtIn, ByIn, ToIn, PaidIn

\* A deposit of which only the two sides of the trade were spent.
Undisputed(known, d, sides) ==
    /\ DepositShape(d) /\ known = {d} \cup sides
    /\ \A x \in sides : (SwapShape(x) \/ TakeShape(x)) /\ x.ins[1].tx = d

\* no WarningTx is,
LEMMA NoWarning ==
    ASSUME NEW known, NEW d, NEW sides, Undisputed(known, d, sides)
    PROVE  /\ DepositsIn(known) = {d} /\ ChildrenIn(known, {d}) = sides
           /\ \A x : x \in SwapsIn(known) <=> x \in sides /\ SwapShape(x)
           /\ \A x : x \in TakesIn(known) <=> x \in sides /\ TakeShape(x)
           /\ WarningsIn(known) = {} /\ ByIn(known) = None /\ ToIn(known) = None
           /\ ClaimsIn(known) = {} /\ RedirectsIn(known) = {} /\ EmptiesIn(known) = {}
  <1> USE DEF Undisputed
  <1>1. DepositsIn(known) = {d}
    <2>1. \A x \in sides : ~DepositShape(x) /\ TradeShape(x)
      BY ShapesDiffer DEF TradeShape
    <2> QED
      BY <2>1, DepositsRule DEF TradeShape
  <1>2. ChildrenIn(known, {d}) = sides /\ ChildrenIn(known, {}) = {}
    <2>1. d.ins # <<>> /\ \A x \in sides : ChildOf(x, d)
      BY Family
    <2>2. /\ d \notin ChildrenIn(known, {d}) /\ \A x \in sides : x \in ChildrenIn(known, {d})
          /\ ChildrenIn(known, {d}) \subseteq known
      BY <2>1, ChildrenRule
    <2> QED
      BY <2>2 DEF ChildrenIn
  <1>3. \A x \in sides : /\ Len(x.ins) = 1
                         /\ LockedBy(x, "q") <=> SwapShape(x)
                         /\ LockedBy(x, "p") <=> TakeShape(x)
    BY Family
  <1>4. \A x, t : x \in SidesIn(known, t) <=> x \in sides /\ Len(x.ins) = 1 /\ LockedBy(x, t)
    BY <1>1, <1>2 DEF SidesIn
  <1>5. /\ \A x : x \in SwapsIn(known) <=> x \in sides /\ SwapShape(x)
        /\ \A x : x \in TakesIn(known) <=> x \in sides /\ TakeShape(x)
    BY <1>3, <1>4 DEF SwapsIn, TakesIn
  <1>6. WarningsIn(known) = {}
    <2>1. \A x : x \in WarningsIn(known) => x \in sides /\ Len(x.ins) = 2
      BY <1>1, <1>2 DEF WarningsIn
    <2>2. \A x \in sides : Len(x.ins) # 2
      BY <1>3
    <2> QED
      BY <2>1, <2>2
  <1>7. ClaimsIn(known) = {} /\ RedirectsIn(known) = {} /\ EmptiesIn(known) = {}
    BY <1>2, <1>6 DEF ClaimsIn, RedirectsIn, EmptiesIn
  <1> QED
    BY <1>1, <1>2, <1>5, <1>6, <1>7 DEF ByIn, ToIn, PaidIn

\* the deposit alone,
LEMMA ViewEscrow ==
    ASSUME NEW known, NEW d, InEscrow(known, d)
    PROVE  View(known, "escrow", None, None) /\ WarningsIn(known) = {}
  <1>1. Undisputed(known, d, {})
    BY DEF Undisputed, InEscrow
  <1>2. DepositShape(d)
    BY DEF InEscrow
  <1>3. /\ DepositsIn(known) = {d} /\ ChildrenIn(known, {d}) = {}
        /\ SwapsIn(known) = {} /\ TakesIn(known) = {}
    BY <1>1, <1>2, NoWarning
  <1>4. /\ WarningsIn(known) = {} /\ ByIn(known) = None /\ ToIn(known) = None
        /\ ClaimsIn(known) = {} /\ RedirectsIn(known) = {} /\ EmptiesIn(known) = {}
    BY <1>1, NoWarning
  <1>5. AtIn(known) = "escrow"
    BY <1>3, <1>4 DEF AtIn
  <1> QED
    BY <1>4, <1>5 DEF View

\* the deposit and the SwapTx,
LEMMA ViewSwapped ==
    ASSUME NEW known, NEW d, NEW s, Swapped(known, d, s)
    PROVE  View(known, "swapped", None, None) /\ WarningsIn(known) = {}
  <1>1. Undisputed(known, d, {s})
    BY DEF Undisputed, Swapped
  <1>2. SwapShape(s) /\ ~TakeShape(s)
    BY ShapesDiffer DEF Swapped
  <1>3. /\ DepositsIn(known) = {d} /\ ChildrenIn(known, {d}) # {}
        /\ SwapsIn(known) # {} /\ TakesIn(known) = {}
    <2>1. /\ DepositsIn(known) = {d} /\ ChildrenIn(known, {d}) = {s}
          /\ \A x : x \in SwapsIn(known) <=> x \in {s} /\ SwapShape(x)
          /\ \A x : x \in TakesIn(known) <=> x \in {s} /\ TakeShape(x)
      BY <1>1, NoWarning
    <2>2. s \in SwapsIn(known)
      BY <1>2, <2>1
    <2>3. \A x : x \notin TakesIn(known)
      BY <1>2, <2>1
    <2> QED
      BY <2>1, <2>2, <2>3
  <1>4. /\ WarningsIn(known) = {} /\ ByIn(known) = None /\ ToIn(known) = None
        /\ ClaimsIn(known) = {} /\ RedirectsIn(known) = {} /\ EmptiesIn(known) = {}
    BY <1>1, NoWarning
  <1>5. AtIn(known) = "swapped"
    BY <1>3, <1>4 DEF AtIn
  <1> QED
    BY <1>4, <1>5 DEF View

\* the deposit and the buyer's spend of it,
LEMMA ViewHalfTaken ==
    ASSUME NEW known, NEW d, NEW k, HalfTaken(known, d, k)
    PROVE  View(known, "taken", None, None) /\ WarningsIn(known) = {}
  <1>1. Undisputed(known, d, {k})
    BY DEF Undisputed, HalfTaken
  <1>2. TakeShape(k) /\ ~SwapShape(k)
    BY ShapesDiffer DEF HalfTaken
  <1>3. /\ DepositsIn(known) = {d} /\ ChildrenIn(known, {d}) # {}
        /\ SwapsIn(known) = {} /\ TakesIn(known) # {}
    <2>1. /\ DepositsIn(known) = {d} /\ ChildrenIn(known, {d}) = {k}
          /\ \A x : x \in SwapsIn(known) <=> x \in {k} /\ SwapShape(x)
          /\ \A x : x \in TakesIn(known) <=> x \in {k} /\ TakeShape(x)
      BY <1>1, NoWarning
    <2>2. \A x : x \notin SwapsIn(known)
      BY <1>2, <2>1
    <2>3. k \in TakesIn(known)
      BY <1>2, <2>1
    <2> QED
      BY <2>1, <2>2, <2>3
  <1>4. /\ WarningsIn(known) = {} /\ ByIn(known) = None /\ ToIn(known) = None
        /\ ClaimsIn(known) = {} /\ RedirectsIn(known) = {} /\ EmptiesIn(known) = {}
    BY <1>1, NoWarning
  <1>5. AtIn(known) = "taken"
    BY <1>3, <1>4 DEF AtIn
  <1> QED
    BY <1>4, <1>5 DEF View

\* or all three,
LEMMA ViewExchanged ==
    ASSUME NEW known, NEW d, NEW s, NEW k, Exchanged(known, d, s, k)
    PROVE  View(known, "exchanged", None, None) /\ WarningsIn(known) = {}
  <1>1. Undisputed(known, d, {s, k})
    BY DEF Undisputed, Exchanged
  <1>2. SwapShape(s) /\ TakeShape(k)
    BY DEF Exchanged
  <1>3. /\ DepositsIn(known) = {d} /\ ChildrenIn(known, {d}) # {}
        /\ SwapsIn(known) # {} /\ TakesIn(known) # {}
    <2>1. /\ DepositsIn(known) = {d} /\ ChildrenIn(known, {d}) = {s, k}
          /\ \A x : x \in SwapsIn(known) <=> x \in {s, k} /\ SwapShape(x)
          /\ \A x : x \in TakesIn(known) <=> x \in {s, k} /\ TakeShape(x)
      BY <1>1, NoWarning
    <2>2. s \in SwapsIn(known)
      BY <1>2, <2>1
    <2>3. k \in TakesIn(known)
      BY <1>2, <2>1
    <2> QED
      BY <2>1, <2>2, <2>3
  <1>4. /\ WarningsIn(known) = {} /\ ByIn(known) = None /\ ToIn(known) = None
        /\ ClaimsIn(known) = {} /\ RedirectsIn(known) = {} /\ EmptiesIn(known) = {}
    BY <1>1, NoWarning
  <1>5. AtIn(known) = "exchanged"
    BY <1>3, <1>4 DEF AtIn
  <1> QED
    BY <1>4, <1>5 DEF View

\* the deposit and a WarningTx are,
LEMMA ViewWarned ==
    ASSUME NEW known, NEW d, NEW w, NEW r \in Role, Warned(known, d, w, r)
    PROVE  View(known, "warned", r, None) /\ WarningsIn(known) = {w}
  <1>1. ~DepositShape(w) /\ d # w
    BY ShapesDiffer DEF Warned
  <1>2. DepositsIn(known) = {d}
    <2>1. \A tx \in known : TradeShape(tx)
      BY DEF Warned, TradeShape
    <2> QED
      BY <1>1, <2>1, DepositsRule DEF Warned
  <1>3. d.ins # <<>> /\ w.ins # <<>> /\ ChildOf(w, d) /\ Len(w.ins) = 2
    BY Family DEF Warned, ChildOf
  <1>4. ChildrenIn(known, {d}) = {w} /\ ChildrenIn(known, {w}) = {}
    <2>1. d \notin ChildrenIn(known, {d}) /\ w \in ChildrenIn(known, {d})
          /\ ChildrenIn(known, {d}) \subseteq {d, w}
      BY <1>3, ChildrenRule DEF Warned
    <2>2. d \notin ChildrenIn(known, {w}) /\ w \notin ChildrenIn(known, {w})
          /\ ChildrenIn(known, {w}) \subseteq {d, w}
      BY <1>1, <1>3, ChildrenRule DEF Warned
    <2> QED
      BY <2>1, <2>2
  <1>5. SwapsIn(known) = {} /\ TakesIn(known) = {} /\ WarningsIn(known) = {w}
    <2>1. \A x : x \in ChildrenIn(known, DepositsIn(known)) <=> x = w
      BY <1>2, <1>4
    <2>2. \A t : SidesIn(known, t) = {}
      <3>1. Len(w.ins) # 1
        BY <1>3
      <3>2. \A t, x : x \notin SidesIn(known, t)
        BY <2>1, <3>1 DEF SidesIn
      <3> QED
        BY <3>2
    <2>3. WarningsIn(known) = {w}
      BY <1>3, <2>1 DEF WarningsIn
    <2> QED
      BY <2>2, <2>3 DEF SwapsIn, TakesIn
  <1>6. ClaimsIn(known) = {} /\ RedirectsIn(known) = {} /\ EmptiesIn(known) = {}
    BY <1>4, <1>5 DEF ClaimsIn, RedirectsIn, EmptiesIn
  <1>7. AtIn(known) = "warned"
    BY <1>2, <1>4, <1>5, <1>6 DEF AtIn
  <1>8. PaidIn({w}) = r
    BY PaidTraders DEF Warned
  <1>9. PaidIn({}) = None
    BY DEF PaidIn
  <1> QED
    BY <1>5, <1>6, <1>7, <1>8, <1>9 DEF View, ByIn, ToIn

\* The family of a warning that has been spent.
SpentFamily(known, d, w, r, x) ==
    /\ DepositShape(d) /\ WarnShape(w, r) /\ w.ins[1].tx = d /\ x.ins[1].tx = w
    /\ OfWarning(x)
    /\ known = {d, w, x}

\* a WarningTx is spent,
LEMMA SpentWarning ==
    ASSUME NEW known, NEW d, NEW w, NEW r \in Role, NEW x, SpentFamily(known, d, w, r, x)
    PROVE  /\ DepositsIn(known) = {d} /\ ChildrenIn(known, {d}) = {w}
           /\ SwapsIn(known) = {} /\ TakesIn(known) = {} /\ WarningsIn(known) = {w}
           /\ ChildrenIn(known, {w}) = {x} /\ ByIn(known) = r
  <1>1. ~DepositShape(w) /\ d # w /\ ~DepositShape(x) /\ x # w /\ x # d
    BY ShapesDiffer DEF SpentFamily, OfWarning
  <1>2. DepositsIn(known) = {d}
    <2>1. \A tx \in known : TradeShape(tx)
      BY DEF TradeShape, SpentFamily, OfWarning
    <2> QED
      BY <1>1, <2>1, DepositsRule DEF SpentFamily
  <1>3. d.ins # <<>> /\ w.ins # <<>> /\ ChildOf(w, d) /\ Len(w.ins) = 2 /\ ChildOf(x, w)
    BY Family DEF ChildOf, SpentFamily, OfWarning
  <1>4. ChildrenIn(known, {d}) = {w} /\ ChildrenIn(known, {w}) = {x}
    <2>1. d \notin ChildrenIn(known, {d}) /\ w \in ChildrenIn(known, {d})
          /\ x \notin ChildrenIn(known, {d}) /\ ChildrenIn(known, {d}) \subseteq {d, w, x}
      BY <1>1, <1>3, ChildrenRule DEF SpentFamily
    <2>2. d \notin ChildrenIn(known, {w}) /\ w \notin ChildrenIn(known, {w})
          /\ x \in ChildrenIn(known, {w}) /\ ChildrenIn(known, {w}) \subseteq {d, w, x}
      BY <1>1, <1>3, ChildrenRule DEF SpentFamily
    <2> QED
      BY <2>1, <2>2
  <1>5. SwapsIn(known) = {} /\ TakesIn(known) = {} /\ WarningsIn(known) = {w}
    <2>1. \A tx \in ChildrenIn(known, DepositsIn(known)) : Len(tx.ins) = 2 /\ tx = w
      BY <1>2, <1>3, <1>4
    <2>2. w \in ChildrenIn(known, DepositsIn(known))
      BY <1>2, <1>4
    <2>3. \A t : SidesIn(known, t) = {}
      BY <2>1 DEF SidesIn
    <2>4. WarningsIn(known) = {w}
      BY <2>1, <2>2 DEF WarningsIn
    <2> QED
      BY <2>3, <2>4 DEF SwapsIn, TakesIn
  <1>6. PaidIn({w}) = r
    BY PaidTraders DEF SpentFamily
  <1> QED
    BY <1>2, <1>4, <1>5, <1>6 DEF ByIn

\* by its claim,
LEMMA ViewClaimed ==
    ASSUME NEW known, NEW d, NEW w, NEW x, NEW r \in Role, Claimed(known, d, w, r, x)
    PROVE  View(known, "claimed", r, r) /\ WarningsIn(known) = {w}
  <1>1. /\ DepositsIn(known) = {d} /\ ChildrenIn(known, {d}) = {w}
        /\ SwapsIn(known) = {} /\ TakesIn(known) = {} /\ WarningsIn(known) = {w}
        /\ ChildrenIn(known, {w}) = {x} /\ ByIn(known) = r
    <2>1. SpentFamily(known, d, w, r, x)
      BY DEF Claimed, SpentFamily, OfWarning
    <2> QED
      BY <2>1, SpentWarning
  <1>2. ClaimsIn(known) = {x} /\ RedirectsIn(known) = {} /\ EmptiesIn(known) = {}
    <2>1. Len(x.outs) = 1 /\ x.seq # 0
      BY Family DEF Claimed
    <2> QED
      BY <1>1, <2>1 DEF ClaimsIn, RedirectsIn, EmptiesIn
  <1>3. AtIn(known) = "claimed"
    BY <1>1, <1>2 DEF AtIn
  <1>4. ToIn(known) = r
    <2>1. PaidIn({x}) = r
      BY PaidTraders DEF Claimed
    <2> QED
      BY <1>2, <2>1 DEF ToIn
  <1> QED
    BY <1>1, <1>3, <1>4 DEF View

\* by a redirect,
LEMMA ViewRedirected ==
    ASSUME NEW known, NEW d, NEW w, NEW x, NEW r \in Role, Redirected(known, d, w, r, x)
    PROVE  View(known, "redirected", Other(r), r) /\ WarningsIn(known) = {w}
  <1>1. /\ DepositsIn(known) = {d} /\ ChildrenIn(known, {d}) = {w}
        /\ SwapsIn(known) = {} /\ TakesIn(known) = {} /\ WarningsIn(known) = {w}
        /\ ChildrenIn(known, {w}) = {x} /\ ByIn(known) = Other(r)
    <2>1. SpentFamily(known, d, w, Other(r), x) /\ Other(r) \in Role
      BY OtherRole DEF Redirected, SpentFamily, OfWarning
    <2> QED
      BY <2>1, SpentWarning
  <1>2. ClaimsIn(known) = {} /\ RedirectsIn(known) = {x} /\ EmptiesIn(known) = {}
    <2>1. Len(x.outs) = 3
      BY DEF Redirected, RedirectShape
    <2> QED
      BY <1>1, <2>1 DEF ClaimsIn, RedirectsIn, EmptiesIn
  <1>3. AtIn(known) = "redirected"
    BY <1>1, <1>2 DEF AtIn
  <1>4. ToIn(known) = r
    <2>1. PaidIn({x}) = r
      BY PaidTraders DEF Redirected
    <2> QED
      BY <1>2, <2>1 DEF ToIn
  <1> QED
    BY <1>1, <1>3, <1>4 DEF View

\* or by the buyer whose warning it is.
LEMMA ViewEmptied ==
    ASSUME NEW known, NEW d, NEW w, NEW x, Emptied(known, d, w, x)
    PROVE  View(known, "emptied", "Buyer", "Buyer") /\ WarningsIn(known) = {w}
  <1>1. /\ DepositsIn(known) = {d} /\ ChildrenIn(known, {d}) = {w}
        /\ SwapsIn(known) = {} /\ TakesIn(known) = {} /\ WarningsIn(known) = {w}
        /\ ChildrenIn(known, {w}) = {x} /\ ByIn(known) = "Buyer"
    <2>1. SpentFamily(known, d, w, "Buyer", x) /\ "Buyer" \in Role
      BY DEF Emptied, SpentFamily, OfWarning, Role
    <2> QED
      BY <2>1, SpentWarning
  <1>2. ClaimsIn(known) = {} /\ RedirectsIn(known) = {} /\ EmptiesIn(known) = {x}
    <2>1. Len(x.outs) = 1 /\ x.seq = 0
      BY Family DEF Emptied
    <2> QED
      BY <1>1, <2>1 DEF ClaimsIn, RedirectsIn, EmptiesIn
  <1>3. AtIn(known) = "emptied"
    BY <1>1, <1>2 DEF AtIn
  <1>4. ToIn(known) = "Buyer"
    <2>1. PaidIn({x}) = "Buyer"
      BY PaidTraders DEF Emptied, Role
    <2> QED
      BY <1>2, <2>1 DEF ToIn
  <1> QED
    BY <1>1, <1>3, <1>4 DEF View

\* The age of the only WarningTx is its depth.
LEMMA AgeOne ==
    ASSUME NEW known, NEW depths
    PROVE  /\ WarningsIn(known) = {} => AgeIn(known, depths) = 0
           /\ \A w : WarningsIn(known) = {w} =>
                 AgeIn(known, depths) = IF w \in DOMAIN depths THEN depths[w] ELSE 0
  BY DEF AgeIn

\* How the phases follow each other when a transaction is accepted.
OneCoinEach == \A r \in Role : Coins[r] = 1
Advance(known, tx) ==
    LET known2 == known \cup {tx}
    IN  \/ known = {} /\ InEscrow(known2, tx)
        \/ \E d : InEscrow(known, d) /\ (Swapped(known2, d, tx) \/ HalfTaken(known2, d, tx))
        \/ \E d, s : Swapped(known, d, s) /\ Exchanged(known2, d, s, tx)
        \/ \E d, k : HalfTaken(known, d, k) /\ Exchanged(known2, d, tx, k)
        \/ \E d : \E r \in Role : InEscrow(known, d) /\ Warned(known2, d, tx, r)
        \/ \E d, w : \E r \in Role :
              Warned(known, d, w, r) /\ Claimed(known2, d, w, r, tx)
        \/ \E d, w : \E r \in Role :
              Warned(known, d, w, Other(r)) /\ Redirected(known2, d, w, r, tx)
        \/ \E d, w : Warned(known, d, w, "Buyer") /\ Emptied(known2, d, w, tx)
Unspent(known, tx) == \A op \in Inputs(tx) : \A ty \in known : op \notin Inputs(ty)
ParentsIn(known, tx) == \A op \in Inputs(tx) :
    op.tx \in known \/ op \in CoinsOf("Seller") \/ op \in CoinsOf("Buyer")

\* x spends the output of kind t of its parent.
SpendsKind(x, t) == \E op \in Inputs(x) : EscrowOut(op, t) /\ op.tx = x.ins[1].tx

\* What each child of a deposit spends.
LEMMA KindsSpent ==
    ASSUME NEW x
    PROVE  /\ SwapShape(x) => SpendsKind(x, "q")
           /\ TakeShape(x) => SpendsKind(x, "p")
           /\ \A r : WarnShape(x, r) => SpendsKind(x, "p") /\ SpendsKind(x, "q")
  <1>1. SwapShape(x) => x.ins[1] \in Inputs(x) /\ EscrowOut(x.ins[1], "q")
    BY InputsOf DEF SwapShape
  <1>2. TakeShape(x) => x.ins[1] \in Inputs(x) /\ EscrowOut(x.ins[1], "p")
    BY InputsOf, KeySpendForm DEF TakeShape
  <1>3. \A r : WarnShape(x, r) =>
           /\ x.ins[1] \in Inputs(x) /\ EscrowOut(x.ins[1], "p")
           /\ x.ins[2] \in Inputs(x) /\ EscrowOut(x.ins[2], "q") /\ x.ins[2].tx = x.ins[1].tx
    BY InputsOf DEF WarnShape
  <1> QED
    BY <1>1, <1>2, <1>3 DEF SpendsKind

\* A deposit that a warning took, and what spends the warning.
Disputed(known, d, w, rest) ==
    /\ DepositShape(d) /\ w.ins[1].tx = d /\ \E r \in Role : WarnShape(w, r)
    /\ known = {d, w} \cup rest
    /\ \A x \in rest : OfWarning(x) /\ x.ins[1].tx = w

\* The two ways of spending what is spent already.
LEMMA SpentOnce ==
    ASSUME NEW known, NEW tx, Unspent(known, tx), NEW x \in known, x.ins[1].tx = tx.ins[1].tx
    PROVE  /\ \A t \in Tik : ~(SpendsKind(x, t) /\ SpendsKind(tx, t))
           /\ ~(OfWarning(x) /\ OfWarning(tx))
  <1>1. ASSUME NEW t \in Tik, SpendsKind(x, t), SpendsKind(tx, t) PROVE FALSE
    <2>1. PICK a \in Inputs(x) : EscrowOut(a, t) /\ a.tx = x.ins[1].tx
      BY <1>1 DEF SpendsKind
    <2>2. PICK b \in Inputs(tx) : EscrowOut(b, t) /\ b.tx = tx.ins[1].tx
      BY <1>1 DEF SpendsKind
    <2>3. a = b
      BY <2>1, <2>2, OneOutput
    <2> QED
      BY <2>1, <2>2, <2>3 DEF Unspent
  <1>2. ASSUME OfWarning(x), OfWarning(tx) PROVE FALSE
    <2>1. \A y : OfWarning(y) => y.ins[1] = FundsOf(y.ins[1].tx) /\ y.ins[1] \in Inputs(y)
      <3>1. \A y : OfWarning(y) => Len(y.ins) = 1 /\ y.ins[1] = FundsOf(y.ins[1].tx)
        BY KeySpendForm DEF OfWarning, EmptyShape, ClaimShape, RedirectShape
      <3> QED
        BY <3>1, InputsOf
    <2> QED
      BY <1>2, <2>1 DEF Unspent
  <1> QED
    BY <1>1, <1>2

\* From each phase an accepted transaction leads to a next one.
LEMMA PhaseAdvances ==
    ASSUME OneCoinEach, NEW known, Phase(known), NEW tx, TradeShape(tx), tx \notin known,
           Unspent(known, tx), ParentsIn(known, tx)
    PROVE  Advance(known, tx)
  <1> DEFINE parent == tx.ins[1].tx
  <1>1. DepositShape(tx) => \A d \in known : ~DepositShape(d)
    <2> SUFFICES ASSUME DepositShape(tx), NEW d \in known, DepositShape(d) PROVE FALSE
      OBVIOUS
    <2>1. \A x \in CoinsOf("Seller") : x = OutPoint(FundingTx("Seller"), 1)
      BY DEF OneCoinEach, CoinsOf, Role
    <2>2. tx.ins[1] = d.ins[1]
      BY <2>1 DEF DepositShape
    <2>3. tx.ins[1] \in Inputs(tx) /\ d.ins[1] \in Inputs(d)
      BY InputsOf DEF DepositShape
    <2> QED
      BY <2>2, <2>3 DEF Unspent
  <1>2. ASSUME ~DepositShape(tx)
        PROVE  /\ parent \in known
               /\ \/ DepositShape(parent) /\ OfDeposit(tx)
                  \/ (\E r \in Role : WarnShape(parent, r)) /\ OfWarning(tx)
    <2>1. /\ \/ DepositShape(parent) /\ OfDeposit(tx)
             \/ (\E r \in Role : WarnShape(parent, r)) /\ OfWarning(tx)
          /\ tx.ins[1] \in Inputs(tx)
      BY <1>2, Parents
    <2>2. parent.ins # <<>>
      BY <2>1, Family DEF ChildOf
    <2>3. \A z \in Role : FundingTx(z).ins = <<>>
      BY DEF FundingTx
    <2> QED
      BY <2>1, <2>2, <2>3, DistinctCoins DEF ParentsIn, Role
  <1>3. \A x \in known : x.ins[1].tx = parent =>
          /\ SwapShape(x) => ~SwapShape(tx) /\ \A r : ~WarnShape(tx, r)
          /\ TakeShape(x) => ~TakeShape(tx) /\ \A r : ~WarnShape(tx, r)
          /\ (\E r : WarnShape(x, r)) => ~OfDeposit(tx)
    BY SpentOnce, KindsSpent DEF OfDeposit, Tik
  <1>4. \A x \in known : x.ins[1].tx = parent => ~(OfWarning(x) /\ OfWarning(tx))
    BY SpentOnce
  <1>5. ASSUME NEW d, NEW sides, Undisputed(known, d, sides)
        PROVE  parent = d /\ OfDeposit(tx)
    <2> USE DEF Undisputed
    <2>1. ~DepositShape(tx)
      BY <1>1, <1>5
    <2>2. \A x \in known : \A r : ~WarnShape(x, r)
      BY <1>5, ShapesDiffer
    <2>3. parent \in known /\ DepositShape(parent) /\ OfDeposit(tx)
      BY <1>2, <2>1, <2>2
    <2>4. \A x \in sides : ~DepositShape(x)
      BY <1>5, ShapesDiffer
    <2> QED
      BY <1>5, <2>3, <2>4
  <1>6. ASSUME NEW d, NEW w, NEW rest, Disputed(known, d, w, rest)
        PROVE  parent = w /\ OfWarning(tx) /\ rest = {}
    <2> USE DEF Disputed
    <2>1. ~DepositShape(tx)
      BY <1>1, <1>6
    <2>2. /\ ~DepositShape(w) /\ \A r : ~WarnShape(d, r)
          /\ \A x \in rest : ~DepositShape(x) /\ \A r : ~WarnShape(x, r)
      BY <1>6, ShapesDiffer DEF OfWarning
    <2>3. parent \in known
      BY <1>2, <2>1
    <2>4. ~(DepositShape(parent) /\ OfDeposit(tx))
      <3>1. DepositShape(parent) => parent = d
        BY <1>6, <2>2, <2>3
      <3> QED
        BY <1>3, <1>6, <3>1
    <2>5. OfWarning(tx) /\ \E r \in Role : WarnShape(parent, r)
      BY <1>2, <2>1, <2>4
    <2>6. parent = w
      BY <1>6, <2>2, <2>3, <2>5
    <2>7. rest = {}
      BY <1>4, <1>6, <2>5, <2>6
    <2> QED
      BY <2>5, <2>6, <2>7
  <1>7. CASE known = {}
    <2>1. DepositShape(tx)
      BY <1>2, <1>7
    <2> QED
      BY <1>7, <2>1 DEF Advance, InEscrow
  <1>8. ASSUME NEW d \in known, InEscrow(known, d) PROVE Advance(known, tx)
    <2>1. parent = d /\ OfDeposit(tx)
      <3>1. Undisputed(known, d, {})
        BY <1>8 DEF InEscrow, Undisputed
      <3> QED
        BY <1>5, <3>1
    <2>2. DepositShape(d) /\ known \cup {tx} = {d, tx}
      BY <1>8 DEF InEscrow
    <2> QED
      BY <1>8, <2>1, <2>2 DEF Advance, Swapped, HalfTaken, Warned, OfDeposit
  <1>9. ASSUME NEW d \in known, NEW s \in known, Swapped(known, d, s) PROVE Advance(known, tx)
    <2>1. DepositShape(d) /\ SwapShape(s) /\ s.ins[1].tx = d /\ known = {d} \cup {s}
      BY <1>9 DEF Swapped
    <2>2. parent = d /\ OfDeposit(tx)
      <3>1. Undisputed(known, d, {s})
        BY <2>1 DEF Undisputed
      <3> QED
        BY <1>5, <3>1
    <2>3. TakeShape(tx)
      BY <1>3, <2>1, <2>2 DEF OfDeposit
    <2>4. known \cup {tx} = {d, s, tx}
      BY <2>1
    <2>5. Exchanged(known \cup {tx}, d, s, tx)
      BY <2>1, <2>2, <2>3, <2>4 DEF Exchanged
    <2> QED
      BY <1>9, <2>5 DEF Advance
  <1>10. ASSUME NEW d \in known, NEW k \in known, HalfTaken(known, d, k) PROVE Advance(known, tx)
    <2>1. DepositShape(d) /\ TakeShape(k) /\ k.ins[1].tx = d /\ known = {d} \cup {k}
      BY <1>10 DEF HalfTaken
    <2>2. parent = d /\ OfDeposit(tx)
      <3>1. Undisputed(known, d, {k})
        BY <2>1 DEF Undisputed
      <3> QED
        BY <1>5, <3>1
    <2>3. SwapShape(tx)
      BY <1>3, <2>1, <2>2 DEF OfDeposit
    <2>4. known \cup {tx} = {d, tx, k}
      BY <2>1
    <2>5. Exchanged(known \cup {tx}, d, tx, k)
      BY <2>1, <2>2, <2>3, <2>4 DEF Exchanged
    <2> QED
      BY <1>10, <2>5 DEF Advance
  <1>11. ASSUME NEW d \in known, NEW s \in known, NEW k \in known, Exchanged(known, d, s, k)
         PROVE  FALSE
    <2>1. /\ DepositShape(d) /\ SwapShape(s) /\ s.ins[1].tx = d
          /\ TakeShape(k) /\ k.ins[1].tx = d /\ known = {d} \cup {s, k}
      BY <1>11 DEF Exchanged
    <2>2. parent = d /\ OfDeposit(tx)
      <3>1. Undisputed(known, d, {s, k})
        BY <2>1 DEF Undisputed
      <3> QED
        BY <1>5, <3>1
    <2> QED
      BY <1>3, <2>1, <2>2 DEF OfDeposit
  <1>12. ASSUME NEW d \in known, NEW w \in known, NEW r \in Role, Warned(known, d, w, r)
         PROVE  Advance(known, tx)
    <2>1. DepositShape(d) /\ WarnShape(w, r) /\ w.ins[1].tx = d /\ known = {d, w} \cup {}
      BY <1>12 DEF Warned
    <2>2. parent = w /\ OfWarning(tx)
      <3>1. Disputed(known, d, w, {})
        BY <2>1 DEF Disputed
      <3> QED
        BY <1>6, <3>1
    <2>3. \A y \in Role : WarnShape(w, y) => y = r
      <3>1. \A y \in Role : Wallet(y)[1].role = y
        BY DEF Wallet
      <3>2. \A y \in Role : WarnShape(w, y) => w.outs[2].script = Wallet(y)
        BY DEF WarnShape
      <3> QED
        BY <2>1, <3>1, <3>2
    <2>4. known \cup {tx} = {d, w, tx}
      BY <2>1
    <2>5. ASSUME NEW z \in Role, ClaimShape(tx, z) PROVE Advance(known, tx)
      <3>1. z = r
        BY <2>2, <2>3, <2>5 DEF ClaimShape
      <3>2. Claimed(known \cup {tx}, d, w, r, tx)
        BY <2>1, <2>2, <2>4, <2>5, <3>1 DEF Claimed
      <3> QED
        BY <1>12, <3>2 DEF Advance
    <2>6. ASSUME NEW z \in Role, RedirectShape(tx, z) PROVE Advance(known, tx)
      <3>1. Other(z) = r /\ WarnShape(w, Other(z))
        BY <2>2, <2>3, <2>6, OtherRole DEF RedirectShape
      <3>2. Redirected(known \cup {tx}, d, w, z, tx)
        BY <2>1, <2>2, <2>4, <2>6, <3>1 DEF Redirected
      <3> QED
        BY <1>12, <3>1, <3>2 DEF Advance
    <2>7. CASE EmptyShape(tx)
      <3>1. WarnShape(w, "Buyer") /\ r = "Buyer"
        BY <2>2, <2>3, <2>7 DEF EmptyShape, Role
      <3>2. Emptied(known \cup {tx}, d, w, tx)
        BY <2>1, <2>2, <2>4, <2>7, <3>1 DEF Emptied
      <3> QED
        BY <1>12, <3>1, <3>2 DEF Advance
    <2> QED
      BY <2>2, <2>5, <2>6, <2>7 DEF OfWarning
  <1>13. ASSUME NEW d \in known, NEW w \in known, NEW x \in known, NEW r \in Role,
                SpentFamily(known, d, w, r, x)
         PROVE  FALSE
    <2>1. Disputed(known, d, w, {x})
      BY <1>13 DEF SpentFamily, Disputed
    <2>2. {x} = {}
      BY <1>6, <2>1
    <2> QED
      BY <2>2
  <1>14. ASSUME NEW d \in known, NEW w \in known, NEW x \in known, NEW r \in Role,
                \/ Claimed(known, d, w, r, x) \/ Redirected(known, d, w, r, x)
                \/ Emptied(known, d, w, x)
         PROVE  FALSE
    <2>1. \E z \in Role : SpentFamily(known, d, w, z, x)
      BY <1>14, OtherRole DEF SpentFamily, OfWarning, Claimed, Redirected, Emptied, Role
    <2> QED
      BY <1>13, <2>1
  <1> QED
    BY <1>7, <1>8, <1>9, <1>10, <1>11, <1>12, <1>14 DEF Phase, Role

\* In every phase there is at most one WarningTx, and nothing is in the wallets
\* once a transaction is known.
OneView(known, at, by, to) ==
    /\ View(known, at, by, to)
    /\ WarningsIn(known) = {} \/ (by \in Role /\ \E w : WarningsIn(known) = {w})
    /\ known # {} => at # "wallets"

LEMMA PhaseViews ==
    ASSUME NEW known, Phase(known)
    PROVE  \E at, by, to : OneView(known, at, by, to)
  <1> DEFINE Goal == \E at, by, to : OneView(known, at, by, to)
  <1> USE DEF OneView
  <1>1. ASSUME known = {} PROVE Goal
    BY <1>1, ViewNothing
  <1>2. ASSUME NEW d, InEscrow(known, d) PROVE Goal
    BY <1>2, ViewEscrow
  <1>3. ASSUME NEW d, NEW s, Swapped(known, d, s) PROVE Goal
    BY <1>3, ViewSwapped
  <1>4. ASSUME NEW d, NEW k, HalfTaken(known, d, k) PROVE Goal
    BY <1>4, ViewHalfTaken
  <1>5. ASSUME NEW d, NEW s, NEW k, Exchanged(known, d, s, k) PROVE Goal
    BY <1>5, ViewExchanged
  <1>6. ASSUME NEW d, NEW w, NEW r \in Role, Warned(known, d, w, r) PROVE Goal
    BY <1>6, ViewWarned
  <1>7. ASSUME NEW d, NEW w, NEW x, NEW r \in Role, Claimed(known, d, w, r, x) PROVE Goal
    BY <1>7, ViewClaimed
  <1>8. ASSUME NEW d, NEW w, NEW x, NEW r \in Role, Redirected(known, d, w, r, x) PROVE Goal
    BY <1>8, ViewRedirected, OtherRole
  <1>9. ASSUME NEW d, NEW w, NEW x, Emptied(known, d, w, x) PROVE Goal
    BY <1>9, ViewEmptied DEF Role
  <1> HIDE DEF Goal
  <1>10. Goal
    BY <1>1, <1>2, <1>3, <1>4, <1>5, <1>6, <1>7, <1>8, <1>9 DEF Phase
  <1> QED
    BY <1>10 DEF Goal

\* The chain is in a phase again after it has advanced.
LEMMA AdvanceKeeps ==
    ASSUME NEW known, NEW tx, Advance(known, tx)
    PROVE  Phase(known \cup {tx})
  <1> DEFINE known2 == known \cup {tx}
  <1> HIDE DEF known2
  <1>1. \A d : InEscrow(known2, d) => d \in known2
    BY DEF InEscrow
  <1>2. \A d, s : Swapped(known2, d, s) \/ HalfTaken(known2, d, s) => d \in known2 /\ s \in known2
    BY DEF Swapped, HalfTaken
  <1>3. \A d, s, k : Exchanged(known2, d, s, k) \/ Emptied(known2, d, s, k) =>
                        d \in known2 /\ s \in known2 /\ k \in known2
    BY DEF Exchanged, Emptied
  <1>4. \A d, w, r : Warned(known2, d, w, r) => d \in known2 /\ w \in known2
    BY DEF Warned
  <1>5. \A d, w, r, x : Claimed(known2, d, w, r, x) \/ Redirected(known2, d, w, r, x) =>
                           d \in known2 /\ w \in known2 /\ x \in known2
    BY DEF Claimed, Redirected
  <1>6. Phase(known2)
    BY <1>1, <1>2, <1>3, <1>4, <1>5 DEF Advance, Phase, known2
  <1> QED
    BY <1>6 DEF known2

\* A step of the chain that moves the escrow.
Moves(a, b, c, a2, b2, c2) ==
    /\ EscrowAt = a /\ PaidIn(WarningTxs) = b /\ Resolver = c
    /\ EscrowAt' = a2 /\ PaidIn(WarningTxs)' = b2 /\ Resolver' = c2

\* Transactions that are accepted are steps of Escrow.
LEMMA PublishStep ==
    ASSUME OneCoinEach, PhaseInv, NEW tx, Publish(tx)
    PROVE  PhaseInv' /\ Promise!Next
  <1> DEFINE known2 == Known \cup {tx}
  <1>1. Known' = known2 /\ depth' = depth /\ tx \notin Known
    BY DEF Publish, Accepts, Known, Mined
  <1>2. Advance(Known, tx)
    <2>1. Unspent(Known, tx) /\ ParentsIn(Known, tx)
      BY DEF Publish, Accepts, Unspent, ParentsIn, Spent, Exists
    <2> QED
      BY <1>1, <2>1, PhaseAdvances DEF PhaseInv, Publish
  <1>3. PhaseInv'
    BY <1>1, <1>2, AdvanceKeeps DEF PhaseInv
  <1>4. \A a, b, c, a2, b2, c2 : View(Known, a, b, c) /\ View(known2, a2, b2, c2) =>
          Moves(a, b, c, a2, b2, c2)
    BY <1>1, Mapping, MappingNext DEF Agrees, View, Moves
  <1>5. WarningAge = AgeIn(Known, depth) /\ WarningAge' = AgeIn(known2, depth)
    BY <1>1, Mapping, MappingNext DEF Agrees
  <1>r. /\ Released' = Released
        /\ SwapShape(tx) \/ TakeShape(tx) \/ EmptyShape(tx) => Released
    BY DEF Publish, License, GivenAway, Released
  <1> HIDE DEF known2
  <1> USE DEF Resolver
  <1>6. CASE Known = {} /\ InEscrow(known2, tx)
    <2>1. View(Known, "wallets", None, None) /\ View(known2, "escrow", None, None)
          /\ WarningsIn(Known) = {} /\ WarningsIn(known2) = {}
      BY <1>6, ViewNothing, ViewEscrow
    <2>2. WarningAge = 0 /\ WarningAge' = 0
      BY <1>5, <2>1, AgeOne
    <2>3. Moves("wallets", None, None, "escrow", None, None)
      BY <1>4, <2>1
    <2>4. Promise!Deposit
      BY <1>r, <2>2, <2>3 DEF Promise!Deposit, Moves
    <2> QED
      BY <1>3, <2>4 DEF Promise!Next
  <1>7. ASSUME NEW a, NEW a2, a2 # "warned",
               View(Known, a, None, None), View(known2, a2, None, None),
               WarningsIn(Known) = {}, WarningsIn(known2) = {}, SwapShape(tx) \/ TakeShape(tx)
        PROVE  /\ EscrowAt = a /\ EscrowAt' = a2 /\ Released
               /\ UNCHANGED <<Released, PaidIn(WarningTxs), Resolver, WarningAge>>
    <2>1. WarningAge = 0 /\ WarningAge' = 0
      BY <1>5, <1>7, AgeOne
    <2>2. Moves(a, None, None, a2, None, None)
      BY <1>4, <1>7
    <2> QED
      BY <1>r, <1>7, <2>1, <2>2 DEF Moves
  <1>a. ASSUME NEW d, InEscrow(Known, d), Swapped(known2, d, tx) PROVE Promise!Swap
    <2>1. SwapShape(tx)
      BY <1>a DEF Swapped
    <2>2. /\ EscrowAt = "escrow" /\ EscrowAt' = "swapped" /\ Released
          /\ UNCHANGED <<Released, PaidIn(WarningTxs), Resolver, WarningAge>>
      BY <1>7, <1>a, <2>1, ViewSwapped, ViewEscrow
    <2> QED
      BY <2>2 DEF Promise!Swap
  <1>b. ASSUME NEW d, InEscrow(Known, d), HalfTaken(known2, d, tx) PROVE Promise!Take
    <2>1. TakeShape(tx)
      BY <1>b DEF HalfTaken
    <2>2. /\ EscrowAt = "escrow" /\ EscrowAt' = "taken" /\ Released
          /\ UNCHANGED <<Released, PaidIn(WarningTxs), Resolver, WarningAge>>
      BY <1>7, <1>b, <2>1, ViewHalfTaken, ViewEscrow
    <2> QED
      BY <2>2 DEF Promise!Take
  <1>c. ASSUME NEW d, NEW s, Swapped(Known, d, s), Exchanged(known2, d, s, tx)
        PROVE  Promise!Take
    <2>1. TakeShape(tx)
      BY <1>c DEF Exchanged
    <2>2. /\ EscrowAt = "swapped" /\ EscrowAt' = "exchanged" /\ Released
          /\ UNCHANGED <<Released, PaidIn(WarningTxs), Resolver, WarningAge>>
      BY <1>7, <1>c, <2>1, ViewSwapped, ViewExchanged
    <2> QED
      BY <2>2 DEF Promise!Take
  <1>d. ASSUME NEW d, NEW k, HalfTaken(Known, d, k), Exchanged(known2, d, tx, k)
        PROVE  Promise!Swap
    <2>1. SwapShape(tx)
      BY <1>d DEF Exchanged
    <2>2. /\ EscrowAt = "taken" /\ EscrowAt' = "exchanged" /\ Released
          /\ UNCHANGED <<Released, PaidIn(WarningTxs), Resolver, WarningAge>>
      BY <1>7, <1>d, <2>1, ViewHalfTaken, ViewExchanged
    <2> QED
      BY <2>2 DEF Promise!Swap
  <1>8. ASSUME NEW d, NEW r \in Role, InEscrow(Known, d), Warned(known2, d, tx, r)
        PROVE  Promise!Next
    <2>1. View(Known, "escrow", None, None) /\ View(known2, "warned", r, None)
          /\ WarningsIn(Known) = {} /\ WarningsIn(known2) = {tx}
      BY <1>8, ViewWarned, ViewEscrow
    <2>2. WarningAge = 0 /\ WarningAge' = 0
      BY <1>1, <1>5, <2>1, AgeOne DEF Known, Mined
    <2>a. Moves("escrow", None, None, "warned", r, None)
      BY <1>4, <2>1
    <2>3. Promise!Warn(r)
      BY <1>r, <2>2, <2>a DEF Promise!Warn, Moves
    <2> QED
      BY <2>3 DEF Promise!Next, Promise!Trader, Role
  <1>9. ASSUME NEW w, NEW n \in Nat \ {0}, WarningsIn(Known) = {w}, WarningsIn(known2) = {w},
               tx.ins[1] \in Inputs(tx), tx.ins[1].tx = w, tx.seq = n
        PROVE  WarningAge' = WarningAge /\ WarningAge >= n
    <2>1. w \in Mined /\ depth[w] >= n
      BY <1>9 DEF Publish, Accepts, SequenceMet
    <2>2. WarningAge = depth[w] /\ WarningAge' = depth[w]
      BY <1>5, <1>9, <2>1, AgeOne DEF Mined
    <2> QED
      BY <2>1, <2>2
  <1>10. ASSUME NEW d, NEW w, NEW r \in Role, Warned(Known, d, w, r), Claimed(known2, d, w, r, tx)
         PROVE  Promise!Next
    <2>1. View(Known, "warned", r, None) /\ View(known2, "claimed", r, r)
          /\ WarningsIn(Known) = {w} /\ WarningsIn(known2) = {w}
      BY <1>10, ViewWarned, ViewClaimed
    <2>2. tx.ins[1] \in Inputs(tx) /\ tx.ins[1].tx = w /\ tx.seq = t2 /\ t2 \in Nat \ {0}
      BY <1>10, InputsOf DEF Claimed, ClaimShape, t2
    <2>3. WarningAge' = WarningAge /\ WarningAge >= t2
      BY <1>9, <2>1, <2>2
    <2>a. Moves("warned", r, None, "claimed", r, r)
      BY <1>4, <2>1
    <2>4. Promise!Claim(r)
      BY <1>r, <2>3, <2>a DEF Promise!Claim, Moves
    <2> QED
      BY <2>4 DEF Promise!Next, Promise!Trader, Role
  <1>11. ASSUME NEW d, NEW w, NEW r \in Role, Warned(Known, d, w, Other(r)),
                Redirected(known2, d, w, r, tx)
         PROVE  Promise!Next
    <2>1. View(Known, "warned", Other(r), None) /\ View(known2, "redirected", Other(r), r)
          /\ WarningsIn(Known) = {w} /\ WarningsIn(known2) = {w}
      BY <1>11, ViewWarned, ViewRedirected, OtherRole
    <2>2. tx.ins[1] \in Inputs(tx) /\ tx.ins[1].tx = w /\ tx.seq = t1 /\ t1 \in Nat \ {0}
      BY <1>11, InputsOf DEF Redirected, RedirectShape, t1
    <2>3. WarningAge' = WarningAge /\ WarningAge >= t1
      BY <1>9, <2>1, <2>2
    <2>a. Moves("warned", Other(r), None, "redirected", Other(r), r)
      BY <1>4, <2>1
    <2>4. Promise!Redirect(r)
      BY <1>r, <2>3, <2>a, OtherRole DEF Promise!Redirect, Moves
    <2> QED
      BY <2>4 DEF Promise!Next, Promise!Trader, Role
  <1>12. ASSUME NEW d, NEW w, Warned(Known, d, w, "Buyer"), Emptied(known2, d, w, tx)
         PROVE  Promise!Empty
    <2>1. View(Known, "warned", "Buyer", None) /\ View(known2, "emptied", "Buyer", "Buyer")
          /\ WarningsIn(Known) = {w} /\ WarningsIn(known2) = {w}
      BY <1>12, ViewWarned, ViewEmptied DEF Role
    <2>2. WarningAge' = WarningAge
      BY <1>5, <2>1, AgeOne
    <2>3. Released
      BY <1>r, <1>12 DEF Emptied
    <2>4. Moves("warned", "Buyer", None, "emptied", "Buyer", "Buyer")
      BY <1>4, <2>1
    <2> QED
      BY <1>r, <2>2, <2>3, <2>4 DEF Promise!Empty, Moves
  <1>13. Promise!Next \/ (Known = {} /\ InEscrow(known2, tx))
    <2>1. CASE \E d : InEscrow(Known, d) /\ (Swapped(known2, d, tx) \/ HalfTaken(known2, d, tx))
      BY <1>a, <1>b, <2>1 DEF Promise!Next
    <2>2. CASE \E d, s : Swapped(Known, d, s) /\ Exchanged(known2, d, s, tx)
      BY <1>c, <2>2 DEF Promise!Next
    <2>3. CASE \E d, k : HalfTaken(Known, d, k) /\ Exchanged(known2, d, tx, k)
      BY <1>d, <2>3 DEF Promise!Next
    <2>4. CASE \E d, w : Warned(Known, d, w, "Buyer") /\ Emptied(known2, d, w, tx)
      BY <1>12, <2>4 DEF Promise!Next
    <2> QED
      BY <1>2, <1>8, <1>10, <1>11, <2>1, <2>2, <2>3, <2>4 DEF Advance, known2
  <1> QED
    BY <1>3, <1>6, <1>13

\* A block ages the warning, or changes nothing that Escrow sees.
LEMMA BlockStep ==
    ASSUME ChainInv, PhaseInv, MineBlock, UNCHANGED net4
    PROVE  PhaseInv' /\ [Promise!Next]_(Promise!evars)
  <1>1. Known' = Known
    BY MineKnown
  <1>2. PICK block : /\ depth' = [tx \in Mined \cup block |->
                                    IF tx \in block THEN 1
                                    ELSE IF depth[tx] < t2 THEN depth[tx] + 1 ELSE t2]
                     /\ block \subseteq mempool
    BY DEF MineBlock
  <1>3. PICK at, by, to :
          /\ View(Known, at, by, to)
          /\ WarningsIn(Known) = {} \/ (by \in Role /\ \E w : WarningsIn(Known) = {w})
    BY PhaseViews DEF PhaseInv, OneView
  <1>4. /\ EscrowAt' = EscrowAt /\ PaidIn(WarningTxs)' = PaidIn(WarningTxs)
        /\ Resolver' = Resolver /\ PaidIn(WarningTxs) = by
        /\ Released' = Released
        /\ WarningAge = AgeIn(Known, depth) /\ WarningAge' = AgeIn(Known, depth')
    BY <1>1, <1>3, Mapping, MappingNext DEF Agrees, View, Released
  <1>5. WarningAge' = WarningAge \/ (by \in Role /\ WarningAge < t2 /\ WarningAge' = WarningAge + 1)
    <2>1. CASE WarningsIn(Known) = {}
      BY <1>4, <2>1, AgeOne
    <2>2. ASSUME NEW w, WarningsIn(Known) = {w}, by \in Role
          PROVE  WarningAge' = WarningAge
                 \/ (WarningAge < t2 /\ WarningAge' = WarningAge + 1)
      <3>1. /\ WarningAge = IF w \in Mined THEN depth[w] ELSE 0
            /\ WarningAge' = IF w \in Mined \cup block THEN depth'[w] ELSE 0
        <4>1. DOMAIN depth' = Mined \cup block
          BY <1>2
        <4> QED
          BY <1>4, <2>2, <4>1, AgeOne DEF Mined
      <3>2. w \in Mined => w \notin block /\ depth[w] \in 1 .. t2
        BY <1>2 DEF ChainInv
      <3>3. CASE w \in Mined
        BY <1>2, <3>1, <3>2, <3>3 DEF t2
      <3>4. CASE w \notin Mined
        BY <1>2, <3>1, <3>4 DEF t2
      <3> QED
        BY <3>3, <3>4
    <2> QED
      BY <1>3, <2>1, <2>2
  <1>6. by \in Role => by # None
    BY DEF Role, None
  <1>7. PhaseInv'
    BY <1>1 DEF PhaseInv
  <1> QED
    BY <1>4, <1>5, <1>6, <1>7 DEF Promise!Next, Promise!Block, Promise!evars, Resolver

\* A step that leaves the chain alone is the seller's release of her key, or
\* nothing to Escrow.
LEMMA QuietStep ==
    ASSUME SInv, PhaseInv, ReleaseInv', [Next]_vars, UNCHANGED chain
    PROVE  PhaseInv' /\ [Promise!Next]_(Promise!evars)
  <1>1. Known' = Known /\ depth' = depth
    BY DEF chain, Known, Mined
  <1>2. UNCHANGED <<EscrowAt, PaidIn(WarningTxs), Resolver, WarningAge>>
    BY <1>1, Mapping, MappingNext DEF Agrees
  <1>3. PhaseInv'
    BY <1>1 DEF PhaseInv
  <1>4. CASE UNCHANGED Released
    BY <1>2, <1>3, <1>4 DEF Promise!evars, Resolver
  <1>5. CASE ~UNCHANGED Released
    <2>1. Released' = TRUE
      <3>1. Released => Released'
        BY SwapsSent DEF Released
      <3>2. Released \in BOOLEAN /\ Released' \in BOOLEAN
        BY DEF Released
      <3> QED
        BY <1>5, <3>1, <3>2
    <2>2. Known # {}
      BY <1>1, <2>1 DEF ReleaseInv
    <2>3. PICK at, by, to : View(Known, at, by, to) /\ at # "wallets"
      BY <2>2, PhaseViews DEF PhaseInv, OneView
    <2>4. EscrowAt # "wallets"
      BY <2>3, Mapping DEF Agrees, View
    <2>5. Promise!Release
      BY <1>2, <2>1, <2>4 DEF Promise!Release, Resolver
    <2> QED
      BY <1>3, <2>5 DEF Promise!Next
  <1> QED
    BY <1>4, <1>5

\* With one coin per wallet every step of the traders, the node and the miners
\* is one of Escrow's or leaves the escrow alone: however often the traders
\* restart, whatever they are told and whichever calls fail, the funds go into
\* escrow once, each part of them leaves it once, nothing is swapped before the
\* seller has sent her adapted SwapTx, and a warning is left only after the lock
\* of the transaction that leaves it -- or at once, by a buyer whose own warning
\* it is and who has the secret of P' from that SwapTx.
THEOREM KeepsPromise == ASSUME OneCoinEach PROVE Spec => ImplementsEscrow
  <1>1. Init => PhaseInv /\ Promise!Init
    <2> SUFFICES ASSUME Init PROVE PhaseInv /\ Promise!Init
      OBVIOUS
    <2>1. Known = {} /\ ~Released
      BY DEF Init, ChainInit, Known, Mined, Released
    <2>2. View(Known, "wallets", None, None) /\ WarningAge = 0
      BY <2>1, ViewNothing, AgeOne, Mapping DEF Agrees
    <2> QED
      BY <2>1, <2>2, Mapping DEF Agrees, View, PhaseInv, Phase, Promise!Init, Resolver
  <1>2. /\ SInv /\ ChainInv /\ ReleaseInv /\ PhaseInv /\ ReleaseInv' /\ [Next]_vars
        => PhaseInv' /\ [Promise!Next]_(Promise!evars)
    <2> SUFFICES ASSUME SInv, ChainInv, ReleaseInv, PhaseInv, ReleaseInv', [Next]_vars
                 PROVE  PhaseInv' /\ [Promise!Next]_(Promise!evars)
      OBVIOUS
    <2>1. CASE UNCHANGED chain
      BY <2>1, QuietStep
    <2>2. CASE MineBlock /\ UNCHANGED net4
      BY <2>2, BlockStep
    <2>3. CASE \E tx : Publish(tx)
      BY <2>3, PublishStep
    <2> QED
      BY <2>1, <2>2, <2>3, ChainSteps
  <1> QED
    BY <1>1, <1>2, SafetyInvariance, ChainInvariance, PTL DEF Spec, ImplementsEscrow, Promise!Spec

=============================================================================
