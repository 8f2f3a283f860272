---------------------------- MODULE BMPProtocol ----------------------------
(***************************************************************************)
(* Two traders, each running protocol_musig_adaptor.rs's BMPProtocol: five *)
(* rounds that exchange key shares, merge and broadcast the DepositTx and  *)
(* pre-sign the SwapTx, WarningTxs, ClaimTxs and RedirectTxs with MuSig2.  *)
(*                                                                         *)
(* The transport between them is not in the repository.  Every parameter a *)
(* round returns stays in the set of messages ever sent, so a round may be *)
(* given a late, repeated or stale parameter of the right type, and a lost *)
(* one is never consumed.  A trader may crash and start over with the same *)
(* BMPContext, the only thing the code asks its caller to persist.         *)
(***************************************************************************)
EXTENDS Chain

CONSTANTS
    TermsChoices,   \* the amounts the two contexts may be created with
    Faulty          \* bound: the traders whose wallet or node may return errors

Terms == [seller_amount : Nat, buyer_amount : Nat]
ASSUME TermsAssumption == TermsChoices \subseteq [Role -> Terms]
ASSUME FaultyAssumption == Faulty \subseteq Role

VARIABLES
    terms,      \* BMPContext: the amounts each trader was told
    session,    \* which BMPProtocol value of the trader this is (keys are fresh)
    round,      \* BMPProtocol.round: the last round entered
    failed,     \* a round of this session returned an error or panicked
    tik,        \* p_tik and q_tik: the two AggKeys
    part,       \* deposit_tx.part_psbt: the coin the wallet selected, or <<>>
    txs,        \* the prepared transactions
    musig,      \* the TMuSig2 values of those transactions
    net1, net2, net3, net4,   \* the RoundNParameters ever returned
    signed      \* history: every partial signature ever made

sessionVars == <<session, round, failed, tik, part, txs, musig>>
net         == <<net1, net2, net3, net4>>
chain       == <<mempool, depth>>
vars        == <<terms, sessionVars, net, signed, chain>>

TxName == {"deposit", "swap", "warning_me", "warning_peer",
           "claim_me", "claim_peer", "redirect_me", "redirect_peer"}

-----------------------------------------------------------------------------
(* BMPProtocol::new and its parts.                                         *)

\* AggKey::new
NewAggKey(t, r, s) ==
    [pub |-> NewPoint(t, r, s), other |-> NoPoint, agg |-> <<>>, agg_sec |-> <<>>]

\* A TMuSig2 that has not signed: its adaptor point is still at infinity.
MuSigFor(key, signer, nonce, stage) ==
    [key |-> key, signer |-> signer, pub_nonce |-> nonce, sec_nonce |-> nonce,
     other_nonce |-> NoNonce, adaptor |-> Infinity, msg |-> Msg(NoTx, 0), stage |-> stage]

NoMuSig == MuSigFor(<<>>, NoPoint, NoNonce, "none")

NewTik(r, s)  == [t \in Tik |-> NewAggKey(t, r, s)]
NewTxs        == [n \in TxName |-> NoTx]
NewMuSigs     == [c \in Ctx |-> NoMuSig]

Init ==
    /\ terms \in TermsChoices
    /\ session = [r \in Role |-> 0]
    /\ round = [r \in Role |-> 0]
    /\ failed = [r \in Role |-> FALSE]
    /\ tik = [r \in Role |-> NewTik(r, 0)]
    /\ part = [r \in Role |-> <<>>]
    /\ txs = [r \in Role |-> NewTxs]
    /\ musig = [r \in Role |-> NewMuSigs]
    /\ net1 = {} /\ net2 = {} /\ net3 = {} /\ net4 = {}
    /\ signed = {}
    /\ ChainInit

\* check_round panics unless the rounds are called in order; the caller stops
\* at the first error, so a failed session enters no further round.
CheckRound(r, k) == round[r] = k - 1 /\ ~failed[r]

\* The round counter moves before any of the round's work.
Enter(r, k) == round' = [round EXCEPT ![r] = k]

\* Round k of r ends in an error (`?`) or a panic.  What it assigned before
\* that is never read again: the session is over.
Fail(r, k) ==
    /\ Enter(r, k)
    /\ failed' = [failed EXCEPT ![r] = TRUE]
    /\ UNCHANGED <<terms, session, tik, part, txs, musig, net, signed>>

-----------------------------------------------------------------------------
(* Round 1: the wallet selects a coin for this trader's part of the deposit.*)

\* generate_part_tx: the coins the wallet may fund r's part with.
PartTxs(r) == { OutPoint(FundingTx(r), i) : i \in Selectable[r][session[r]] }

Round1(r) ==
    /\ CheckRound(r, 1)
    /\ Enter(r, 1)
    /\ \E coin \in PartTxs(r) :
        /\ part' = [part EXCEPT ![r] = <<coin>>]
        /\ net1' = net1 \cup
             { [from |-> r, p_a |-> tik[r]["p"].pub, q_a |-> tik[r]["q"].pub,
                dep_part_psbt |-> [coin |-> coin, amount |-> FundedByMe(terms[r], r)],
                swap_script |-> IF r = "Seller" THEN Wallet(r) ELSE <<>>,
                spend |-> Wallet(r)] }
    /\ UNCHANGED <<terms, session, failed, tik, txs, musig, net2, net3, net4, signed, chain>>

\* The wallet cannot fund its part, or cannot merge and sign the whole.
WalletFails(r) ==
    /\ r \in Faulty
    /\ \E k \in 1 .. 2 : CheckRound(r, k) /\ Fail(r, k)
    /\ UNCHANGED chain

-----------------------------------------------------------------------------
(* Round 2: aggregate the keys and build every transaction.                *)

\* aggregate_key
Aggregate(key, other) ==
    [pub |-> key.pub, other |-> other, agg |-> AggPoint(key.pub, other),
     agg_sec |-> key.agg_sec]

\* The key that locks the funds of the warning of r: claim_tx_me's tik and,
\* for the other trader, redirect_tx_me's.
WarnTik(r) == IF r = "Seller" THEN "q" ELSE "p"

\* The transactions r builds from the peer's Round1Parameter.
BuildTxs(r, m, p, q) ==
    LET dep  == BuildDeposit(terms[r], p, q, part[r][1], m.dep_part_psbt.coin)
        me   == BuildWarning(r, terms[r], p, q, dep, Wallet(r))
        peer == BuildWarning(Other(r), terms[r], p, q, dep, m.spend)
    IN  [n \in TxName |->
            CASE n = "deposit"       -> dep
              [] n = "warning_me"    -> me
              [] n = "warning_peer"  -> peer
              [] n = "swap"          -> BuildSwap(q, dep, IF r = "Seller" THEN Wallet(r)
                                                          ELSE m.swap_script)
              [] n = "claim_me"      -> BuildClaim(me, Wallet(r))
              [] n = "claim_peer"    -> BuildClaim(peer, m.spend)
              [] n = "redirect_me"   -> BuildRedirect(peer, Wallet(r))
              [] n = "redirect_peer" -> BuildRedirect(me, m.spend)]

\* Mutant: claims are signed under the key of the other trader's warning.
CtxTikSwapped(r, c) ==
    CASE c \in {"swap", "warn_me_q", "warn_peer_q"}   -> "q"
      [] c \in {"warn_me_p", "warn_peer_p"}           -> "p"
      [] c \in {"claim_peer", "redirect_peer"}        -> WarnTik(r)
      [] c \in {"claim_me", "redirect_me"}            -> WarnTik(Other(r))

\* Which AggKey a signing context is created with.
CtxTik(r, c) ==
    CASE c \in {"swap", "warn_me_q", "warn_peer_q"}   -> "q"
      [] c \in {"warn_me_p", "warn_peer_p"}           -> "p"
      [] c \in {"claim_me", "redirect_peer"}          -> WarnTik(r)
      [] c \in {"claim_peer", "redirect_me"}          -> WarnTik(Other(r))

\* Mutant: the announced nonce is the erased one.
NewMuSigErased(r, key, c) ==
    MuSigFor(key.agg, key.pub, OneNonce, "new")

\* TMuSig2::new, for every transaction that was built.
NewMuSig(r, key, c) ==
    MuSigFor(key.agg, key.pub, NewNonce(c, r, session[r]), "new")

\* The asserts of round2, the fraud check on the peer's inputs, a fee that the
\* halves do not cover, a missing swap_script, and the Amount subtractions.
Round2Checks(r, m) ==
    /\ m.p_a # m.q_a
    /\ m.p_a # tik[r]["p"].pub /\ m.q_a # tik[r]["q"].pub
    /\ m.dep_part_psbt.coin \notin CoinsOf(r)
    /\ MergedFee(terms[r], r, m.dep_part_psbt.amount) >= 0
    /\ r = "Buyer" => m.swap_script # <<>>
    /\ AmountsFit(terms[r])

Round2(r, m) ==
    /\ CheckRound(r, 2)
    /\ Round2Checks(r, m)
    /\ Enter(r, 2)
    /\ LET keys == [t \in Tik |-> Aggregate(tik[r][t], IF t = "p" THEN m.p_a ELSE m.q_a)]
           built == BuildTxs(r, m, keys["p"].agg, keys["q"].agg)
           sigs == [c \in Ctx |-> NewMuSig(r, keys[CtxTik(r, c)], c)]
       IN  /\ tik' = [tik EXCEPT ![r] = keys]
           /\ txs' = [txs EXCEPT ![r] = built]
           /\ musig' = [musig EXCEPT ![r] = sigs]
           /\ net2' = net2 \cup
                { [from |-> r, p_agg |-> keys["p"].agg, q_agg |-> keys["q"].agg,
                   deposit_tx_signed |-> built["deposit"],
                   nonces |-> [c \in Ctx |-> sigs[c].pub_nonce]] }
    /\ part' = [part EXCEPT ![r] = <<>>]
    /\ UNCHANGED <<terms, session, failed, net1, net3, net4, signed, chain>>

Round2Panics(r, m) ==
    /\ CheckRound(r, 2)
    /\ ~Round2Checks(r, m)
    /\ Fail(r, 2)
    /\ UNCHANGED chain

-----------------------------------------------------------------------------
(* Round 3: broadcast the deposit, then sign everything.                   *)

\* The input each context signs, numbered from 0 as in the code.
CtxMsg(built, c) ==
    CASE c = "swap"          -> Msg(built["swap"], 0)
      [] c = "warn_me_p"     -> Msg(built["warning_me"], 0)
      [] c = "warn_me_q"     -> Msg(built["warning_me"], 1)
      [] c = "warn_peer_p"   -> Msg(built["warning_peer"], 0)
      [] c = "warn_peer_q"   -> Msg(built["warning_peer"], 1)
      [] c = "claim_me"      -> Msg(built["claim_me"], 0)
      [] c = "claim_peer"    -> Msg(built["claim_peer"], 0)
      [] c = "redirect_me"   -> Msg(built["redirect_me"], 0)
      [] c = "redirect_peer" -> Msg(built["redirect_peer"], 0)

\* Only the SwapTx is adapted, with the seller's share of P' as the point.
Adaptor(r, c) ==
    IF c # "swap" THEN Infinity
    ELSE IF r = "Seller" THEN <<tik[r]["p"].pub>> ELSE <<tik[r]["p"].other>>

\* generate_adapted_partial_sig: the nonce is overwritten once it is used.
Sign(mu, other_nonce, adaptor, msg) ==
    [key |-> mu.key, signer |-> mu.signer, pub_nonce |-> mu.pub_nonce,
     sec_nonce |-> OneNonce, other_nonce |-> other_nonce, adaptor |-> adaptor,
     msg |-> msg, stage |-> "signed"]

\* The partial signature that Sign produces from the state before it.
PartialOf(mu, other_nonce, adaptor, msg) ==
    PartialSig(mu.key, mu.signer, mu.sec_nonce, other_nonce, adaptor, msg)

\* Mutant: the asserts ("actually this next test is not necessary") are gone.
Round3ChecksNothing(r, m) == TRUE

\* transfer_sig_and_broadcast asserts that both merged the same transaction.
SameDeposit(r, m) == m.deposit_tx_signed = txs[r]["deposit"]

\* The asserts of round3.
Round3Checks(r, m) ==
    /\ m.p_agg = tik[r]["p"].agg
    /\ m.q_agg = tik[r]["q"].agg
    /\ SameDeposit(r, m)

Round3(r, m) ==
    /\ CheckRound(r, 3)
    /\ Round3Checks(r, m)
    /\ BroadcastOk(txs[r]["deposit"])
    /\ Enter(r, 3)
    /\ mempool' = mempool \cup ({txs[r]["deposit"]} \ Mined)
    /\ LET parts == [c \in Ctx |-> PartialOf(musig[r][c], m.nonces[PeerCtx(c)],
                                             Adaptor(r, c), CtxMsg(txs[r], c))]
       IN  /\ signed' = signed \cup { parts[c] : c \in Ctx }
           /\ net3' = net3 \cup { [from |-> r, deposit_txid |-> txs[r]["deposit"],
                                   part_sigs |-> [c \in SentCtx |-> parts[c]]] }
    /\ musig' = [musig EXCEPT ![r] =
                   [c \in Ctx |-> Sign(musig[r][c], m.nonces[PeerCtx(c)],
                                       Adaptor(r, c), CtxMsg(txs[r], c))]]
    /\ UNCHANGED <<terms, session, failed, tik, part, txs, net1, net2, net4, depth>>

Round3Panics(r, m) ==
    /\ CheckRound(r, 3)
    /\ ~Round3Checks(r, m)
    /\ Fail(r, 3)
    /\ UNCHANGED chain

\* The broadcast fails: the node refuses the deposit, or cannot be reached, or
\* took it and its answer was lost.
Round3BroadcastFails(r, m) ==
    /\ CheckRound(r, 3)
    /\ Round3Checks(r, m)
    /\ Fail(r, 3)
    /\ \/ ~BroadcastOk(txs[r]["deposit"]) /\ mempool' = mempool
       \/ r \in Faulty /\ mempool' = mempool
       \/ r \in Faulty /\ Accepts(txs[r]["deposit"])
                       /\ mempool' = mempool \cup {txs[r]["deposit"]}
    /\ UNCHANGED depth

-----------------------------------------------------------------------------
(* Round 4: verify and aggregate the peer's partial signatures.            *)

\* Mutant: the peer's partial signatures are taken unverified.
VerifiesAnything(mu, other_point, sig) == TRUE

\* verify_partial: the peer signed what I signed, with the nonce he announced.
Verifies(mu, other_point, sig) ==
    sig = PartialSig(mu.key, other_point, mu.other_nonce, mu.pub_nonce, mu.adaptor, mu.msg)

\* Of the five contexts, and SwapTx::sign: adapting needs the secret of the
\* adaptor point, which for the seller is p_tik.sec.
Round4Checks(r, m) ==
    /\ \A c \in MyCtx :
          Verifies(musig[r][c], tik[r][CtxTik(r, c)].other, m.part_sigs[PeerCtx(c)])
    /\ r = "Seller" => musig[r]["swap"].adaptor = <<tik[r]["p"].pub>>

\* The aggregated signature of a context: adapted and in the witness when the
\* stage is "final", an adaptor signature when it is "aggregated".
SigOf(mu) == AggSig(mu.key, {mu.pub_nonce, mu.other_nonce}, mu.adaptor, mu.msg)

\* Mutant: the seller's SwapTx is aggregated but never adapted.
StageUnadapted(r, c) == IF c = "swap" THEN "aggregated" ELSE "final"

\* SwapTx::aggregate_sigs leaves the buyer with the adaptor signature only;
\* the other contexts sign with the zero scalar.
StageAfterRound4(r, c) ==
    IF c = "swap" /\ r = "Buyer" THEN "aggregated" ELSE "final"

Round4(r, m) ==
    /\ CheckRound(r, 4)
    /\ Round4Checks(r, m)
    /\ Enter(r, 4)
    /\ musig' = [musig EXCEPT ![r] =
                   [c \in Ctx |-> IF c \in MyCtx
                                  THEN [musig[r][c] EXCEPT !.stage = StageAfterRound4(r, c)]
                                  ELSE musig[r][c]]]
    /\ net4' = net4 \cup
         { [from |-> r,
            swap_onchain |-> IF r = "Seller"
                             THEN << [tx |-> txs[r]["swap"], sig |-> SigOf(musig[r]["swap"])] >>
                             ELSE <<>>] }
    /\ UNCHANGED <<terms, session, failed, tik, part, txs, net1, net2, net3, signed, chain>>

Round4Panics(r, m) ==
    /\ CheckRound(r, 4)
    /\ ~Round4Checks(r, m)
    /\ Fail(r, 4)
    /\ UNCHANGED chain

-----------------------------------------------------------------------------
(* Round 5: the buyer extracts the seller's share from the signed SwapTx.  *)

\* reveal_secret answers only for an adaptation of our own adaptor signature.
Round5Checks(r, m) ==
    r = "Buyer" => /\ m.swap_onchain # <<>>
                   /\ m.swap_onchain[1].sig = SigOf(musig[r]["swap"])

\* SwapTx::reveal and reveal2other: the secret of the adaptor point, and with
\* it the aggregated secret of P'.
Reveal(r) ==
    LET key == tik[r]["p"]
    IN  [key EXCEPT !.agg_sec = AggSecret(key.pub, key.pub, musig[r]["swap"].adaptor[1], key.other)]

Round5(r, m) ==
    /\ CheckRound(r, 5)
    /\ Round5Checks(r, m)
    /\ Enter(r, 5)
    /\ tik' = IF r = "Buyer" THEN [tik EXCEPT ![r]["p"] = Reveal(r)] ELSE tik
    /\ UNCHANGED <<terms, session, failed, part, txs, musig, net, signed, chain>>

Round5Panics(r, m) ==
    /\ CheckRound(r, 5)
    /\ ~Round5Checks(r, m)
    /\ Fail(r, 5)
    /\ UNCHANGED chain

-----------------------------------------------------------------------------
(* Broadcasting the prepared transactions, and starting over.              *)

\* The contexts whose signatures fill the witness, in the order of the inputs.
WitnessCtx(n) ==
    CASE n = "swap"        -> <<"swap">>
      [] n = "warning_me"  -> <<"warn_me_p", "warn_me_q">>
      [] n = "claim_me"    -> <<"claim_me">>
      [] n = "redirect_me" -> <<"redirect_me">>

Broadcastable == {"swap", "warning_me", "claim_me", "redirect_me"}

HasWitness(r, n) ==
    \A i \in 1 .. Len(WitnessCtx(n)) : musig[r][WitnessCtx(n)[i]].stage = "final"

\* The node verifies every input's signature against the script it spends.
WitnessValid(r, n) ==
    /\ HasWitness(r, n)
    /\ Len(WitnessCtx(n)) = Len(txs[r][n].ins)
    /\ \A i \in 1 .. Len(WitnessCtx(n)) :
          LET mu == musig[r][WitnessCtx(n)[i]]
          IN  /\ mu.key = Prevout(txs[r][n].ins[i]).script
              /\ mu.msg = Msg(txs[r][n], i - 1)

\* SwapTx::, WarningTx::, ClaimTx:: and RedirectTx::broadcast.  A refused
\* broadcast changes nothing.
Broadcast(r, n) ==
    /\ WitnessValid(r, n)
    /\ Accepts(txs[r][n])
    /\ mempool' = mempool \cup {txs[r][n]}
    /\ UNCHANGED <<terms, sessionVars, net, signed, depth>>

\* What the buyer's wallet makes of the outputs of tx, given their keys.
KeySpendsOf(tx) ==
    { BuildKeySpend(OutPoint(tx, i), Wallet("Buyer")) : i \in 1 .. Len(tx.outs) }

\* SwapTx::reveal: the buyer imports the aggregated secret of P' into his wallet,
\* which from then on can spend any output on chain that P' locks.
SpendWithKey ==
    /\ tik["Buyer"]["p"].agg_sec # <<>>
    /\ \E parent \in Known : \E tx \in KeySpendsOf(parent) :
        /\ Prevout(tx.ins[1]).script = tik["Buyer"]["p"].agg_sec
        /\ Accepts(tx)
        /\ mempool' = mempool \cup {tx}
    /\ UNCHANGED <<terms, sessionVars, net, signed, depth>>

\* A crash loses the BMPProtocol value; BMPProtocol::new starts another one.
Restart(r) ==
    /\ session[r] < MaxSession
    /\ session' = [session EXCEPT ![r] = @ + 1]
    /\ round' = [round EXCEPT ![r] = 0]
    /\ failed' = [failed EXCEPT ![r] = FALSE]
    /\ tik' = [tik EXCEPT ![r] = NewTik(r, session[r] + 1)]
    /\ part' = [part EXCEPT ![r] = <<>>]
    /\ txs' = [txs EXCEPT ![r] = NewTxs]
    /\ musig' = [musig EXCEPT ![r] = NewMuSigs]
    /\ UNCHANGED <<terms, net, signed, chain>>

Mine == MineBlock /\ UNCHANGED <<terms, sessionVars, net, signed>>

From(msgs, r) == { m \in msgs : m.from = r }

Next ==
    \/ \E r \in Role :
        \/ Round1(r)
        \/ WalletFails(r)
        \/ \E m \in From(net1, Other(r)) : Round2(r, m) \/ Round2Panics(r, m)
        \/ \E m \in From(net2, Other(r)) :
              Round3(r, m) \/ Round3Panics(r, m) \/ Round3BroadcastFails(r, m)
        \/ \E m \in From(net3, Other(r)) : Round4(r, m) \/ Round4Panics(r, m)
        \/ \E m \in From(net4, Other(r)) : Round5(r, m) \/ Round5Panics(r, m)
        \/ \E n \in Broadcastable : Broadcast(r, n)
        \/ Restart(r)
    \/ SpendWithKey
    \/ Mine

Spec == Init /\ [][Next]_vars

-----------------------------------------------------------------------------
(* Types.                                                                  *)

AnyPoint == Point \cup {NoPoint}
AnyNonce == Nonce \cup {NoNonce, OneNonce}
Stage    == {"none", "new", "signed", "aggregated", "final"}

AggKeyOK(key) ==
    key \in [pub : Point, other : AnyPoint, agg : Seq(Point), agg_sec : Seq(AnyPoint)]
MuSigOK(mu) ==
    mu \in [key : Seq(Point), signer : AnyPoint, pub_nonce : AnyNonce, sec_nonce : AnyNonce,
            other_nonce : AnyNonce, adaptor : Seq(AnyPoint), msg : {mu.msg}, stage : Stage]

\* The types of the variables.  A transaction nests the transactions it
\* spends, so only the places that hold one are typed, not its inside.
TypeOK ==
    /\ terms \in [Role -> Terms]
    /\ session \in [Role -> Session]
    /\ round \in [Role -> 0 .. 5]
    /\ failed \in [Role -> BOOLEAN]
    /\ DOMAIN tik = Role /\ DOMAIN musig = Role /\ DOMAIN txs = Role /\ DOMAIN part = Role
    /\ \A r \in Role :
        /\ DOMAIN tik[r] = Tik /\ \A t \in Tik : AggKeyOK(tik[r][t])
        /\ DOMAIN txs[r] = TxName
        /\ DOMAIN musig[r] = Ctx /\ \A c \in Ctx : MuSigOK(musig[r][c])
    /\ \A m \in net1 : m.from \in Role /\ m.p_a \in Point /\ m.q_a \in Point
    /\ \A m \in net2 : m.from \in Role /\ m.nonces \in [Ctx -> Nonce]
    /\ \A s \in signed : s.nonce \in AnyNonce

-----------------------------------------------------------------------------
(* Safety.                                                                 *)

\* r has completed round 3 of its current session.
HasSigned(r) == musig[r]["swap"].stage \in {"signed", "aggregated", "final"}

\* No secret nonce ever signs twice, over all sessions of both traders, with
\* restarts and stale parameters (generate_adapted_partial_sig reads sec_nonce
\* once and check_round keeps round3 from running again).
NonceSingleUse == \A s, t \in signed : s.nonce = t.nonce => s = t

\* Once both traders have signed, they signed for the same trade: the same
\* deposit, aggregated keys and amounts, and each context signs the message
\* the peer signs in the matching one -- whatever stale parameters of earlier
\* sessions the rounds were given (the asserts of round3).
AgreedTrade ==
    (\A r \in Role : HasSigned(r)) =>
        /\ txs["Seller"]["deposit"] = txs["Buyer"]["deposit"]
        /\ terms["Seller"] = terms["Buyer"]
        /\ \A t \in Tik : tik["Seller"][t].agg = tik["Buyer"][t].agg
        /\ \A c \in Ctx : CtxMsg(txs["Seller"], c) = CtxMsg(txs["Buyer"], PeerCtx(c))

\* The owners that must sign for an outpoint.
Owners(op) == { Prevout(op).script[k] : k \in 1 .. Len(Prevout(op).script) }

\* The seller has given the buyer his share of the key of op: round 4 sent a
\* SwapTx whose signature is adapted with the secret of one of its points.
GivenAway(op) ==
    \E m \in net4 : \E owner \in Owners(op) :
        m.swap_onchain # <<>> /\ m.swap_onchain[1].sig.adaptor = <<owner>>

\* Whatever spends an aggregated key on chain was signed by both owners of the
\* key, for that very input (verify_partial in round4 against the announced
\* nonce, the adaptor and the message), or is the buyer's own spend of an output
\* whose key the seller has completed for him with his SwapTx.
TwoOfTwo ==
    \A tx \in Known : \A i \in 1 .. Len(tx.ins) :
        \/ GivenAway(tx.ins[i]) /\ tx = BuildKeySpend(tx.ins[i], Wallet("Buyer"))
        \/ \A owner \in Owners(tx.ins[i]) \cap Point :
              \E s \in signed : s.signer = owner /\ s.msg = Msg(tx, i - 1)

\* A transaction whose witness round4 filled in is one the node can verify:
\* signed under the key its input is locked with, over its own sighash.
FinalWitnessesValid ==
    \A r \in Role, n \in Broadcastable : HasWitness(r, n) => WitnessValid(r, n)

\* Before block t2 the funds of a mined WarningTx can only go to the DAO, or to
\* a buyer who was given the key of his own WarningTx; and the warned trader who
\* finished round 4 can send them to the DAO while nobody has taken them.
RedirectWindow ==
    \A r \in Role : LET w == txs[r]["warning_me"] IN
        w \in Mined =>
            /\ \A tx \in Known : FundsOf(w) \in Inputs(tx) /\ depth[w] < t2 =>
                    \/ tx.outs[1].script = Dao(1)
                    \/ /\ r = "Buyer" /\ GivenAway(FundsOf(w))
                       /\ tx.outs[1].script = Wallet("Buyer")
            /\ ~Spent(FundsOf(w)) /\ HasWitness(Other(r), "redirect_me")
                 /\ txs[Other(r)]["deposit"] = txs[r]["deposit"] =>
                    WitnessValid(Other(r), "redirect_me") /\ Accepts(txs[Other(r)]["redirect_me"])

\* The output of the deposit that holds the seller's deposit and trade amount.
SellerOutput(deposit, key) == OutPoint(deposit, OutputIndex(deposit, key))

\* A published SwapTx hands the buyer who signed it the trade: its signature
\* yields the secret of P', and only he has spent the output P' locks.
SwapGivesBuyerKey ==
    musig["Buyer"]["swap"].stage = "aggregated" /\ txs["Buyer"]["swap"] \in Known =>
        LET out == SellerOutput(txs["Buyer"]["deposit"], tik["Buyer"]["p"].agg)
        IN  /\ Reveal("Buyer").agg_sec = tik["Buyer"]["p"].agg
            /\ \A tx \in Known : out \in Inputs(tx) => tx = BuildKeySpend(out, Wallet("Buyer"))

\* The buyer holds the secret of P' only if the seller of that trade can have
\* his side of it: a SwapTx that verifies and pays the seller's wallet.
KeyGivesSellerSwap ==
    tik["Buyer"]["p"].agg_sec # <<>> =>
        /\ tik["Buyer"]["p"].agg_sec = tik["Buyer"]["p"].agg
        /\ txs["Seller"]["deposit"] = txs["Buyer"]["deposit"] =>
              /\ WitnessValid("Seller", "swap")
              /\ txs["Seller"]["swap"].outs[1].script = Wallet("Seller")

\* Two traders who were told the same amounts and have not restarted accept
\* every parameter of each other: no assert, verification or reveal fails.
HonestPeersAccept ==
    (\A r \in Role : session[r] = 0 /\ terms[r] = terms[Other(r)] /\ AmountsFit(terms[r])) =>
        \A r \in Role :
            /\ CheckRound(r, 2) => \A m \in From(net1, Other(r)) : Round2Checks(r, m)
            /\ CheckRound(r, 3) => \A m \in From(net2, Other(r)) : Round3Checks(r, m)
            /\ CheckRound(r, 4) => \A m \in From(net3, Other(r)) : Round4Checks(r, m)
            /\ CheckRound(r, 5) => \A m \in From(net4, Other(r)) : Round5Checks(r, m)

-----------------------------------------------------------------------------
(* Liveness.  The caller of a trader's rounds calls the next one as soon   *)
(* as the peer's parameter is there, miners empty the mempool, and a       *)
(* trader who wants out keeps broadcasting what he has; nothing is assumed *)
(* of his peer.                                                            *)

\* A round of r can be called and will succeed.
RoundReady(r) ==
    \/ CheckRound(r, 1) /\ PartTxs(r) # {}
    \/ CheckRound(r, 2) /\ \E m \in From(net1, Other(r)) : Round2Checks(r, m)
    \/ CheckRound(r, 3) /\ \E m \in From(net2, Other(r)) :
                              Round3Checks(r, m) /\ BroadcastOk(txs[r]["deposit"])
    \/ CheckRound(r, 4) /\ \E m \in From(net3, Other(r)) : Round4Checks(r, m)
    \/ CheckRound(r, 5) /\ \E m \in From(net4, Other(r)) : Round5Checks(r, m)

\* Only r's own steps take a ready round away, so never leaving one ready for
\* ever is weak fairness of r's rounds.
FairRounds(r) == []<>~RoundReady(r)

FairMining == WF_vars(MineAll /\ Mine)

\* The buyer has taken the seller's output of r's deposit with the key of P'.
Taken(r) == KeySpendsOf(txs[r]["deposit"]) \cap Known # {}

\* A seller whose output was taken is left with the SwapTx.
FairExit(r) ==
    /\ WF_vars(Broadcast(r, "warning_me"))
    /\ WF_vars(Broadcast(r, "claim_me"))
    /\ WF_vars(Broadcast(r, "redirect_me"))
    /\ r = "Seller" => WF_vars(Taken(r) /\ Broadcast(r, "swap"))

LiveSpec == Spec /\ FairMining

\* Two traders who never restart, were told the same amounts and call their
\* rounds finish all five with the deposit mined, in whatever order their
\* parameters arrive.
SetupCompletes ==
    [](\A r \in Role : session[r] = 0) /\ FairRounds("Seller") /\ FairRounds("Buyer") =>
        <>(\A r \in Role : round[r] = 5 /\ txs[r]["deposit"] \in Mined)

\* The escrowed funds have left the escrow for good: r's side of them, if the
\* two outputs of the deposit are spent apart.
Settled(r) ==
    \/ \E n \in {"swap", "claim_me", "claim_peer", "redirect_me", "redirect_peer"} :
          txs[r][n] \in Mined
    \/ \E n \in {"warning_me", "warning_peer"} : KeySpendsOf(txs[r][n]) \cap Mined # {}
    \/ r = "Buyer" /\ KeySpendsOf(txs[r]["deposit"]) \cap Mined # {}

CanExit(r) == HasWitness(r, "warning_me") ~> (Settled(r) \/ ~HasWitness(r, "warning_me"))

\* A trader who has finished round 4 and does not crash gets the funds moved
\* without any help of the peer: by WarningTx and ClaimTx, by RedirectTx if the
\* peer warns first, or by SwapTx if the buyer takes his part of them.
SellerCanExit == FairExit("Seller") => CanExit("Seller")
BuyerCanExit  == FairExit("Buyer")  => CanExit("Buyer")

\* A seller who has the adapted SwapTx and keeps broadcasting it gets it mined,
\* whether or not the deposit is mined yet, unless a WarningTx comes first.
SellerCanSwap ==
    WF_vars(Broadcast("Seller", "swap")) =>
        (HasWitness("Seller", "swap") ~>
            \/ txs["Seller"]["swap"] \in Mined
            \/ \E n \in {"warning_me", "warning_peer"} : txs["Seller"][n] \in Known
            \/ ~HasWitness("Seller", "swap"))

\* A buyer who was given the secret of P' and keeps trying to spend with it gets
\* the trade amount mined into his wallet, whether or not the seller ever
\* publishes the SwapTx, unless a WarningTx comes first.
BuyerCanTake ==
    WF_vars(SpendWithKey) =>
        (tik["Buyer"]["p"].agg_sec # <<>> ~>
            \/ KeySpendsOf(txs["Buyer"]["deposit"]) \cap Mined # {}
            \/ \E n \in {"warning_me", "warning_peer"} : txs["Buyer"][n] \in Known
            \/ tik["Buyer"]["p"].agg_sec = <<>>)

-----------------------------------------------------------------------------
(* What the concept documents say and the code does not do.                *)

\* SingleTxOverview.md: if a buyer who was given the secret of P' posts his
\* WarningTx before the SwapTx, the seller can still broadcast her RedirectTx,
\* because the buyer has no secret that empties the WarningTx.
SellerCanStillRedirect ==
    LET w == txs["Buyer"]["warning_me"]
        redirect == txs["Seller"]["redirect_me"]
    IN  /\ tik["Buyer"]["p"].agg_sec # <<>>
        /\ w \in Mined /\ t1 <= depth[w] /\ depth[w] < t2
        /\ HasWitness("Seller", "redirect_me")
        /\ txs["Seller"]["deposit"] = txs["Buyer"]["deposit"]
        => redirect \in Known \/ Accepts(redirect)

\* SingleTxOverview.md: once the DepositTx is broadcast, each trader can post a
\* WarningTx if the peer is gone: he has one, or what he needs to finish it.
DepositedCanWarn ==
    \A r \in Role : HasSigned(r) /\ ~failed[r] /\ failed[Other(r)] =>
        \/ HasWitness(r, "warning_me")
        \/ \E m \in From(net3, Other(r)) : Round4Checks(r, m)
=============================================================================
