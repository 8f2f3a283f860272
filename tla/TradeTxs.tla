------------------------------ MODULE TradeTxs ------------------------------
(***************************************************************************)
(* The keys, scripts, transactions and MuSig2 signatures of one trade, as  *)
(* protocol/src/protocol_musig_adaptor.rs builds them: pure operators.     *)
(*                                                                         *)
(* A key share is named by its public point, and its secret scalar by the  *)
(* same record.  A script is the sequence of the points that must sign:    *)
(* two for an aggregated (2-of-2) key, one for a wallet address.  A        *)
(* transaction is its own txid: a record of the outpoints it spends, the   *)
(* outputs it makes and its relative time lock (0 for Sequence::MAX).      *)
(***************************************************************************)
EXTENDS Integers, Sequences, F32

CONSTANTS
    MaxSession,    \* bound: a trader starts the protocol at most MaxSession + 1 times
    Coins,         \* the number of coins each wallet was funded with
    Selectable,    \* the coins that coin selection may pick, per session
    Less(_, _)     \* the order `<` of the curve points

Role    == {"Seller", "Buyer"}
Session == 0 .. MaxSession
Tik     == {"p", "q"}
Point   == [tik : Tik, role : Role, session : Session]

ASSUME BoundAssumption == MaxSession \in Nat
ASSUME CoinsAssumption ==
    /\ Coins \in [Role -> Nat \ {0}]
    /\ Selectable \in [Role -> [Session -> SUBSET Nat]]
    /\ \A r \in Role, s \in Session : Selectable[r][s] \subseteq 1 .. Coins[r]
\* Points are compared by value: of two different points exactly one is smaller.
ASSUME LessAssumption ==
    \A a, b \in Point : /\ Less(a, b) \in BOOLEAN
                        /\ a # b => (Less(a, b) <=> ~Less(b, a))

\* ProtocolRole::other
Other(r) == IF r = "Seller" THEN "Buyer" ELSE "Seller"

-----------------------------------------------------------------------------
(* Keys and scripts.                                                       *)

NoPoint == [tik |-> "none", role |-> "none", session |-> 0]

\* The share a fresh AggKey draws: never the share of another session.
NewPoint(tik, r, s) == [tik |-> tik, role |-> r, session |-> s]

\* Mutant: the pubkeys are not sorted.
AggPointUnsorted(mine, other) == <<mine, other>>

\* AggKey::aggregate_key: both sides list the smaller point first.
AggPoint(mine, other) ==
    IF Less(mine, other) THEN <<mine, other>> ELSE <<other, mine>>

\* Mutant: the secrets are not put in the order of the pubkeys.
AggSecretUnsorted(sec, pub, other_sec, other) == <<sec, other_sec>>

\* The aggregated secret, in the order of the public points (reveal2other).
AggSecret(sec, pub, other_sec, other) ==
    IF Less(pub, other) THEN <<sec, other_sec>> ELSE <<other_sec, sec>>

\* next_unused_address: the same address until a transaction pays to it.
Wallet(r) == << [tik |-> "wallet", role |-> r, session |-> 0] >>

\* The two addresses of get_dao_bm.
Dao(i) == << [tik |-> "dao", role |-> "DAO", session |-> i] >>

-----------------------------------------------------------------------------
(* Transactions.                                                           *)

FEE    == 1000     \* the flat fee of every prepared transaction
ANCHOR == 330      \* ANCHOR_AMOUNT
t1     == 1        \* the relative lock of RedirectTx, in blocks
t2     == 2        \* the relative lock of ClaimTx, in blocks

NoTx == [ins |-> <<>>, outs |-> <<>>, seq |-> 0]
Out(script, value) == [script |-> script, value |-> value]
OutPoint(tx, vout) == [tx |-> tx, vout |-> vout]
Prevout(op) == op.tx.outs[op.vout]

\* The confirmed transaction that funded a wallet before the trade.  The coins'
\* amounts and the change outputs of the DepositTx are left out.
FundingTx(r) ==
    [ins |-> <<>>, outs |-> [i \in 1 .. Coins[r] |-> Out(Wallet(r), 0)], seq |-> 0]
CoinsOf(r) == { OutPoint(FundingTx(r), i) : i \in 1 .. Coins[r] }

\* TransactionExt::output_index: the position of the output locked by key.
OutputIndex(tx, key) ==
    CHOOSE i \in 1 .. Len(tx.outs) :
        /\ tx.outs[i].script = key
        /\ \A j \in 1 .. i - 1 : tx.outs[j].script # key

\* sort: inputs by previous output, outputs by script, whoever merges.
SortIns(a, b)  == IF a.tx = FundingTx("Seller") THEN <<a, b>> ELSE <<b, a>>
SortOuts(a, b) == IF Less(a.script[1], b.script[1]) THEN <<a, b>> ELSE <<b, a>>

\* DepositTx::build_and_merge_tx: my inputs first, then the peer's, sorted.
BuildDeposit(terms, p, q, mine, theirs) ==
    [ins  |-> SortIns(mine, theirs),
     outs |-> SortOuts(Out(p, terms.seller_amount), Out(q, terms.buyer_amount)),
     seq  |-> 0]

\* Mutant: the SwapTx spends the output of the seller's deposit.
BuildSwapFirst(q, deposit, spend) ==
    LET i == IF OutputIndex(deposit, q) = 1 THEN 2 ELSE 1
    IN  [ins  |-> << OutPoint(deposit, i) >>,
         outs |-> << Out(spend, deposit.outs[i].value - FEE) >>,
         seq  |-> 0]

\* SwapTx::build: the buyer's deposit output, paid to the seller.
BuildSwap(q, deposit, spend) ==
    LET i == OutputIndex(deposit, q)
    IN  [ins  |-> << OutPoint(deposit, i) >>,
         outs |-> << Out(spend, deposit.outs[i].value - FEE) >>,
         seq  |-> 0]

\* WarningTx::build, the key that locks output 0 of the warning of `role`.
KeySpend(role, p, q) == IF role = "Seller" THEN q ELSE p

\* WarningTx::build: both deposit outputs, P' as input 0 and Q' as input 1.
BuildWarning(role, terms, p, q, deposit, anchor) ==
    [ins  |-> << OutPoint(deposit, OutputIndex(deposit, p)),
                 OutPoint(deposit, OutputIndex(deposit, q)) >>,
     outs |-> << Out(KeySpend(role, p, q),
                     terms.buyer_amount + terms.seller_amount - ANCHOR - FEE),
                 Out(anchor, ANCHOR) >>,
     seq  |-> 0]

\* WarningTx::funds_as_outpoint and funds_as_output: output 0.
FundsOf(warning) == OutPoint(warning, 1)

\* Mutant: the claim is locked no longer than the redirect.
BuildClaimEarly(warning, spend) ==
    [ins  |-> << FundsOf(warning) >>,
     outs |-> << Out(spend, Prevout(FundsOf(warning)).value - FEE) >>,
     seq  |-> t1]

\* ClaimTx::build
BuildClaim(warning, spend) ==
    [ins  |-> << FundsOf(warning) >>,
     outs |-> << Out(spend, Prevout(FundsOf(warning)).value - FEE) >>,
     seq  |-> t2]

\* Mutant: the redirect's input is left at Sequence::MAX.
BuildRedirectUnlocked(warning, anchor) ==
    LET amount == Prevout(FundsOf(warning)).value - FEE
    IN  [ins  |-> << FundsOf(warning) >>,
         outs |-> << Out(Dao(1), DaoShare(amount, 1)),
                     Out(Dao(2), DaoShare(amount, 2)),
                     Out(anchor, ANCHOR) >>,
         seq  |-> 0]

\* RedirectTx::build: the DAO's shares in f32 arithmetic, then the anchor.
BuildRedirect(warning, anchor) ==
    LET amount == Prevout(FundsOf(warning)).value - FEE
    IN  [ins  |-> << FundsOf(warning) >>,
         outs |-> << Out(Dao(1), DaoShare(amount, 1)),
                     Out(Dao(2), DaoShare(amount, 2)),
                     Out(anchor, ANCHOR) >>,
         seq  |-> t1]

\* A wallet that holds the whole secret of a key spends what it locks alone, as
\* test_q_tik does.  It sets the fee itself, so the amount is left out.
BuildKeySpend(op, spend) ==
    [ins |-> <<op>>, outs |-> << Out(spend, 0) >>, seq |-> 0]

\* What the halves of the deposit pay in fees: an input, the trader's output and
\* his change, at 20 sat/vB, for each.
PART_FEES == 2 * 20 * 155

\* generate_part_tx: the amount of the context that this trader funds.
FundedByMe(terms, role) ==
    IF role = "Seller" THEN terms.seller_amount ELSE terms.buyer_amount

\* build_and_merge_tx: what is left for the fee when the peer funded his half
\* with `funded` and the outputs are those of my terms.  Cast to u64, a negative
\* rest is a fee that no inputs cover.  (DepositMerge has it in detail.)
MergedFee(terms, role, funded) == PART_FEES + funded - FundedByMe(terms, Other(role))

\* Amount subtraction panics on underflow, in every build of round 2.
AmountsFit(terms) ==
    /\ terms.buyer_amount >= FEE
    /\ terms.buyer_amount + terms.seller_amount >= ANCHOR + 2 * FEE

-----------------------------------------------------------------------------
(* MuSig2.  A partial signature is the scalar determined by the signer's   *)
(* share, its nonce, the peer's nonce, the adaptor point and the message,  *)
(* so verify_partial accepts exactly the record built from those values.   *)

\* The signing contexts (TMuSig2 values) of a trader.
Ctx == {"swap", "warn_me_p", "warn_me_q", "warn_peer_p", "warn_peer_q",
        "claim_me", "claim_peer", "redirect_me", "redirect_peer"}

\* The peer's context for the same signature: his warning_tx_peer is mine.
PeerCtx(c) ==
    CASE c = "swap"          -> "swap"
      [] c = "warn_me_p"     -> "warn_peer_p"
      [] c = "warn_me_q"     -> "warn_peer_q"
      [] c = "warn_peer_p"   -> "warn_me_p"
      [] c = "warn_peer_q"   -> "warn_me_q"
      [] c = "claim_me"      -> "claim_peer"
      [] c = "claim_peer"    -> "claim_me"
      [] c = "redirect_me"   -> "redirect_peer"
      [] c = "redirect_peer" -> "redirect_me"

\* The contexts whose partial signature is sent in Round3Parameter, and the
\* ones that round4 aggregates.
SentCtx == {"swap", "warn_peer_p", "warn_peer_q", "claim_peer", "redirect_peer"}
MyCtx   == {"swap", "warn_me_p", "warn_me_q", "claim_me", "redirect_me"}

Nonce    == [ctx : Ctx, role : Role, session : Session]
OneNonce == [ctx |-> "one", role |-> "none", session |-> 0]  \* SecNonce(1, 1)
NoNonce  == [ctx |-> "none", role |-> "none", session |-> 0]

\* Mutant: the seed does not change from one session to the next.
NewNonceFixedSeed(c, r, s) == [ctx |-> c, role |-> r, session |-> 0]

\* TMuSig2::new draws a nonce for one context of one session.
NewNonce(c, r, s) == [ctx |-> c, role |-> r, session |-> s]

Infinity == <<>>     \* no adaptor
Msg(tx, input_index) == [tx |-> tx, input_index |-> input_index]

PartialSig(key, signer, sec_nonce, other_nonce, adaptor, msg) ==
    [key |-> key, signer |-> signer, nonce |-> sec_nonce, other |-> other_nonce,
     adaptor |-> adaptor, msg |-> msg]

\* An aggregated signature: an adaptor signature until it is adapted.
AggSig(key, nonces, adaptor, msg) ==
    [key |-> key, nonces |-> nonces, adaptor |-> adaptor, msg |-> msg]
=============================================================================
