--------------------------- MODULE BMPSafety_proofs ---------------------------
(***************************************************************************)
(* What BMPProtocol's signatures are worth, for any number of restarts,    *)
(* any amounts, any coins, any order of the points and any faults: every   *)
(* complete witness is valid, whatever spends an aggregated key was signed *)
(* by both owners, a buyer who holds the secret of P' faces a seller who   *)
(* can publish his SwapTx.  And two traders who run the protocol, were     *)
(* told the same amounts and have not restarted never reject each other:   *)
(* no assert, no verification and no reveal fails, in whatever order the   *)
(* parameters arrive and however often they are repeated.                  *)
(***************************************************************************)
EXTENDS BMPProtocol_proofs

-----------------------------------------------------------------------------
(* The invariant.  Its parts are predicates of values, not of variables:   *)
(* what one trader does leaves the values of the other as they are.        *)

\* The keys of session s of r, aggregated with the shares of session o of the
\* peer (aggregate_key).
KeysWith(r, s, key, o) ==
    \A t \in Tik : /\ key[t].pub = NewPoint(t, r, s)
                   /\ key[t].other = NewPoint(t, Other(r), o)
                   /\ key[t].agg = AggPoint(NewPoint(t, r, s), NewPoint(t, Other(r), o))

\* A Round1Parameter of session s of r, among the ones sent.
Offer(m, r, s, sent) == m \in sent /\ m.from = r /\ m.p_a.session = s

\* The deposit spends the coins that the two sessions offered.
DepositOf(r, s, dep, sent, o) ==
    /\ \E mine \in sent, theirs \in sent :
          /\ Offer(mine, r, s, sent) /\ Offer(theirs, Other(r), o, sent)
          /\ dep.ins = SortIns(mine.dep_part_psbt.coin, theirs.dep_part_psbt.coin)
    /\ dep = [ins |-> dep.ins, outs |-> dep.outs, seq |-> 0]

SignedBy(owner, msg, sigs) == \E s \in sigs : s.signer = owner /\ s.msg = msg

\* What TMuSig2::new leaves in a context.
CtxReady(r, c, s, key, mu) ==
    /\ mu.key = key[CtxTik(r, c)].agg
    /\ mu.signer = key[CtxTik(r, c)].pub
    /\ mu.pub_nonce = NewNonce(c, r, s)

\* The adaptor point of a context: the seller's share of P' for the SwapTx.
AdaptorOf(r, c, s, o) ==
    IF c = "swap" THEN << NewPoint("p", "Seller", IF r = "Seller" THEN s ELSE o) >>
                  ELSE Infinity

\* What round 3 leaves in a context, and round 4 once the peer's signature
\* is verified.
CtxSigned(r, c, s, key, built, mu, sigs, o) ==
    /\ mu.stage \in {"signed", "aggregated", "final"}
    /\ mu.other_nonce = NewNonce(PeerCtx(c), Other(r), o)
    /\ mu.adaptor = AdaptorOf(r, c, s, o)
    /\ mu.msg = CtxMsg(built, c)
    /\ SignedBy(key[CtxTik(r, c)].pub, mu.msg, sigs)
    /\ mu.stage # "signed" =>
          /\ c \in MyCtx /\ mu.stage = StageAfterRound4(r, c)
          /\ SignedBy(key[CtxTik(r, c)].other, mu.msg, sigs)

\* Session s of r is in a trade with session o of the peer.
InTrade(r, s, key, built, mus, sent, sigs, o) ==
    /\ KeysWith(r, s, key, o)
    /\ DepositOf(r, s, built["deposit"], sent, o)
    /\ \A c \in Ctx : CtxReady(r, c, s, key, mus[c])
    /\ \/ \A c \in Ctx : mus[c].stage = "new"
       \/ \A c \in Ctx : CtxSigned(r, c, s, key, built, mus[c], sigs, o)

\* Before round 2 a session is as BMPProtocol::new made it.
Fresh(r, s, key, built, mus) == key = NewTik(r, s) /\ built = NewTxs /\ mus = NewMuSigs

TraderInv(r) ==
    \/ Fresh(r, session[r], tik[r], txs[r], musig[r])
    \/ \E o \in Session : InTrade(r, session[r], tik[r], txs[r], musig[r], net1, signed, o)

\* Round 1 runs once per session, and the part PSBT it keeps is the one it sent.
OfferOK(m) ==
    /\ m.dep_part_psbt.coin \in CoinsOf(m.from)
    /\ m.dep_part_psbt.amount = FundedByMe(terms[m.from], m.from)
    /\ m.p_a.session = session[m.from] => round[m.from] >= 1
PartOK(r) ==
    round[r] = 1 /\ ~failed[r] =>
        \E m \in net1 : Offer(m, r, session[r], net1) /\ part[r] = <<m.dep_part_psbt.coin>>
OneOffer == \A m, n \in net1 : m.from = n.from /\ m.p_a.session = n.p_a.session => m = n
OfferInv == (\A m \in net1 : OfferOK(m)) /\ OneOffer /\ (\A r \in Role : PartOK(r))

\* A Round2Parameter announces the nonces of one session, which has its keys.
AnnounceOK(m) ==
    /\ \A c \in Ctx : m.nonces[c] = NewNonce(c, m.from, Own(m))
    /\ Own(m) = session[m.from] => Built(m.from)
AnnounceInv == \A m \in net2 : AnnounceOK(m)

\* The partial signature a context has made once round 3 is done.
PartialMade(mu) ==
    PartialSig(mu.key, mu.signer, mu.pub_nonce, mu.other_nonce, mu.adaptor, mu.msg)

\* A Round3Parameter carries signatures that were made, all in session k.
PartialsOf(m, k) ==
    \A c \in SentCtx : m.part_sigs[c] \in signed
                       /\ m.part_sigs[c].nonce = NewNonce(c, m.from, k)
PartialsOK(m) ==
    m.from \in Role /\ \E k \in Session :
        /\ k <= session[m.from] /\ PartialsOf(m, k)
        /\ k = session[m.from] =>
              /\ HasSigned(m.from)
              /\ \A c \in SentCtx : m.part_sigs[c] = PartialMade(musig[m.from][c])
PartialsInv == \A m \in net3 : PartialsOK(m)

\* The SwapTx of a Round4Parameter was signed in session k of the seller.
SwapOf(m, k, o) ==
    /\ m.swap_onchain # <<>>
    /\ m.swap_onchain[1].sig.key = AggPoint(NewPoint("q", "Seller", k), NewPoint("q", "Buyer", o))
SwapOK(m) ==
    m.from = "Seller" => \E k, o \in Session :
        /\ k <= session["Seller"] /\ SwapOf(m, k, o)
        /\ k = session["Seller"] =>
              /\ musig["Seller"]["swap"].stage = "final"
              /\ m.swap_onchain[1].sig = SigOf(musig["Seller"]["swap"])
SwapInv == \A m \in net4 : SwapOK(m)

\* The buyer's secret of P' comes from a SwapTx under his own Q'.
SecretInv ==
    tik["Buyer"]["p"].agg_sec # <<>> =>
        /\ tik["Buyer"]["p"].agg_sec = tik["Buyer"]["p"].agg
        /\ \E m \in net4 : /\ m.from = "Seller" /\ m.swap_onchain # <<>>
                           /\ m.swap_onchain[1].sig.key = tik["Buyer"]["q"].agg
                           /\ m.swap_onchain[1].sig.adaptor = << tik["Buyer"]["p"].other >>

SInv ==
    /\ IInv
    /\ \A r \in Role : TraderInv(r)
    /\ OfferInv /\ AnnounceInv /\ PartialsInv /\ SwapInv /\ SecretInv
    /\ TwoOfTwo

-----------------------------------------------------------------------------
(* A trader's own part of the invariant.                                   *)

\* Further messages and signatures take nothing away from a trade.
LEMMA InTradeGrows ==
    ASSUME NEW r, NEW s, NEW key, NEW built, NEW mus, NEW o,
           NEW sent, NEW sigs, NEW sent2, NEW sigs2,
           InTrade(r, s, key, built, mus, sent, sigs, o),
           sent \subseteq sent2, sigs \subseteq sigs2
    PROVE  InTrade(r, s, key, built, mus, sent2, sigs2, o)
  <1>1. DepositOf(r, s, built["deposit"], sent2, o)
    BY DEF InTrade, DepositOf, Offer
  <1>2. \A owner, msg : SignedBy(owner, msg, sigs) => SignedBy(owner, msg, sigs2)
    BY DEF SignedBy
  <1>3. \A c \in Ctx : CtxSigned(r, c, s, key, built, mus[c], sigs, o)
                          => CtxSigned(r, c, s, key, built, mus[c], sigs2, o)
    BY <1>2 DEF CtxSigned
  <1> QED
    BY <1>1, <1>3 DEF InTrade

\* A step that leaves a trader's values alone keeps his part of the invariant.
LEMMA TraderFrame ==
    ASSUME NEW x \in Role, TraderInv(x),
           session'[x] = session[x], tik'[x] = tik[x], txs'[x] = txs[x], musig'[x] = musig[x],
           net1 \subseteq net1', signed \subseteq signed'
    PROVE  TraderInv(x)'
  <1>1. CASE Fresh(x, session[x], tik[x], txs[x], musig[x])
    BY <1>1 DEF TraderInv, Fresh
  <1>2. ASSUME NEW o \in Session,
               InTrade(x, session[x], tik[x], txs[x], musig[x], net1, signed, o)
        PROVE  TraderInv(x)'
    <2>1. InTrade(x, session[x], tik[x], txs[x], musig[x], net1', signed', o)
      BY <1>2, InTradeGrows
    <2>2. InTrade(x, session'[x], tik'[x], txs'[x], musig'[x], net1', signed', o)
      BY <2>1
    <2> QED
      BY <1>2, <2>2 DEF TraderInv
  <1> QED
    BY <1>1, <1>2 DEF TraderInv

\* A trader has built his transactions exactly if he is in a trade.
LEMMA BuiltInTrade ==
    ASSUME NEW r \in Role, TraderInv(r), session[r] \in Session
    PROVE  /\ Built(r) <=> ~Fresh(r, session[r], tik[r], txs[r], musig[r])
           /\ ~Built(r) => ~HasSigned(r) /\ \A c \in Ctx : musig[r][c].stage = "none"
           /\ Built(r) => \E o \in Session :
                InTrade(r, session[r], tik[r], txs[r], musig[r], net1, signed, o)
  <1>1. "p" \in Tik /\ "swap" \in Ctx
    BY DEF Tik, Ctx
  <1>2. ASSUME Fresh(r, session[r], tik[r], txs[r], musig[r])
        PROVE  ~Built(r) /\ ~HasSigned(r) /\ \A c \in Ctx : musig[r][c].stage = "none"
    BY <1>1, <1>2 DEF Fresh, Built, HasSigned, NewTik, NewAggKey, NewMuSigs, NoMuSig, MuSigFor
  <1>3. ASSUME NEW o \in Session,
               InTrade(r, session[r], tik[r], txs[r], musig[r], net1, signed, o)
        PROVE  Built(r)
    <2>1. tik[r]["p"].agg = AggPoint(NewPoint("p", r, session[r]), NewPoint("p", Other(r), o))
      BY <1>1, <1>3 DEF InTrade, KeysWith
    <2>2. NewPoint("p", r, session[r]) \in Point /\ NewPoint("p", Other(r), o) \in Point
      BY <1>1, <1>3, OtherRole, NewPointType
    <2> QED
      BY <2>1, <2>2, AggPointType DEF Built
  <1> QED
    BY <1>2, <1>3 DEF TraderInv

\* The contexts of a trader sign together.
LEMMA SignedInTrade ==
    ASSUME NEW r, NEW s, NEW key, NEW built, NEW mus, NEW sent, NEW sigs, NEW o,
           InTrade(r, s, key, built, mus, sent, sigs, o), NEW c \in Ctx,
           mus[c].stage \in {"signed", "aggregated", "final"}
    PROVE  \A d \in Ctx : CtxSigned(r, d, s, key, built, mus[d], sigs, o)
  BY DEF InTrade

-----------------------------------------------------------------------------
(* Every action preserves the traders' parts.                              *)

\* The invariant holds of two new BMPProtocols.
LEMMA InitSInv == Init => SInv
  <1> SUFFICES ASSUME Init PROVE SInv
    OBVIOUS
  <1>1. IInv
    BY InitIInv
  <1>2. \A r \in Role : TraderInv(r)
    BY DEF Init, TraderInv, Fresh
  <1>3. OfferInv /\ AnnounceInv /\ PartialsInv /\ SwapInv
    BY DEF Init, OfferInv, OneOffer, PartOK, AnnounceInv, PartialsInv, SwapInv
  <1>4. SecretInv
    BY DEF Init, SecretInv, NewTik, NewAggKey, Role, Tik
  <1>5. TwoOfTwo
    BY DEF Init, TwoOfTwo, ChainInit, Known, Mined
  <1> QED
    BY <1>1, <1>2, <1>3, <1>4, <1>5 DEF SInv

\* The keys that round 2 aggregates from a Round1Parameter of session o.
LEMMA Round2Keys ==
    ASSUME IInv, NEW r \in Role, NEW m \in From(net1, Other(r)), NEW keys,
           keys = [t \in Tik |-> Aggregate(tik[r][t], IF t = "p" THEN m.p_a ELSE m.q_a)]
    PROVE  /\ m.p_a.session \in Session
           /\ KeysWith(r, session[r], keys, m.p_a.session)
           /\ \A t \in Tik : keys[t].agg_sec = tik[r][t].agg_sec
  <1> DEFINE o == m.p_a.session
  <1>1. /\ m \in net1 /\ m.from = Other(r) /\ Other(r) \in Role
        /\ m.p_a = NewPoint("p", Other(r), o) /\ m.q_a = NewPoint("q", Other(r), o)
        /\ o \in Session
    BY OtherRole DEF From, IInv, TypeOK, KeyInv, Point
  <1> HIDE DEF o
  <1>2. \A t \in Tik : (IF t = "p" THEN m.p_a ELSE m.q_a) = NewPoint(t, Other(r), o)
    BY <1>1 DEF Tik
  <1>3. \A t \in Tik : tik[r][t].pub = NewPoint(t, r, session[r])
    BY DEF IInv, KeyInv
  <1>4. ASSUME NEW t \in Tik
        PROVE  /\ keys[t].pub = NewPoint(t, r, session[r])
               /\ keys[t].other = NewPoint(t, Other(r), o)
               /\ keys[t].agg = AggPoint(NewPoint(t, r, session[r]), NewPoint(t, Other(r), o))
               /\ keys[t].agg_sec = tik[r][t].agg_sec
    <2>1. keys[t] = Aggregate(tik[r][t], NewPoint(t, Other(r), o))
      BY <1>2, <1>4
    <2> QED
      BY <2>1, <1>3, <1>4 DEF Aggregate
  <1> QED
    BY <1>1, <1>4 DEF KeysWith, o

\* round2 puts a trader into a trade with the session whose offer he was given.
LEMMA Round2Trader ==
    ASSUME SInv, NEW r \in Role, NEW m \in From(net1, Other(r)), Round2(r, m)
    PROVE  /\ \A x \in Role : TraderInv(x)'
           /\ Built(r)' /\ ~HasSigned(r)'
           /\ \A t \in Tik : tik'[r][t].agg_sec = tik[r][t].agg_sec
           /\ \A c \in Ctx : musig'[r][c].pub_nonce = NewNonce(c, r, session[r])
  <1> DEFINE s == session[r]
             o == m.p_a.session
             keys == [t \in Tik |-> Aggregate(tik[r][t], IF t = "p" THEN m.p_a ELSE m.q_a)]
             built == BuildTxs(r, m, keys["p"].agg, keys["q"].agg)
             sigs == [c \in Ctx |-> NewMuSig(r, keys[CtxTik(r, c)], c)]
  <1>1. /\ round[r] = 1 /\ ~failed[r] /\ Round2Checks(r, m)
        /\ tik' = [tik EXCEPT ![r] = keys]
        /\ txs' = [txs EXCEPT ![r] = built]
        /\ musig' = [musig EXCEPT ![r] = sigs]
        /\ UNCHANGED <<terms, session, net1, signed>>
    BY DEF Round2, CheckRound, Enter
  <1>2. o \in Session /\ KeysWith(r, s, keys, o)
        /\ \A t \in Tik : keys[t].agg_sec = tik[r][t].agg_sec
    BY Round2Keys DEF SInv
  <1> HIDE DEF keys
  <1>3. \A c \in Ctx : CtxReady(r, c, s, keys, sigs[c]) /\ sigs[c].stage = "new"
                       /\ sigs[c].pub_nonce = NewNonce(c, r, s)
    BY DEF CtxReady, NewMuSig, MuSigFor
  <1>4. DepositOf(r, s, built["deposit"], net1, o)
    <2>1. PICK mine \in net1 : Offer(mine, r, s, net1) /\ part[r] = <<mine.dep_part_psbt.coin>>
      BY <1>1 DEF SInv, OfferInv, PartOK
    <2>2. Offer(m, Other(r), o, net1)
      BY DEF Offer, From
    <2>3. part[r][1] = mine.dep_part_psbt.coin
      BY <2>1
    <2>4. built["deposit"].ins = SortIns(mine.dep_part_psbt.coin, m.dep_part_psbt.coin)
          /\ built["deposit"] = [ins |-> built["deposit"].ins, outs |-> built["deposit"].outs,
                                 seq |-> 0]
      BY <2>3 DEF BuildTxs, TxName, BuildDeposit
    <2> QED
      BY <2>1, <2>2, <2>4 DEF DepositOf, Offer
  <1>5. /\ tik'[r] = keys /\ txs'[r] = built /\ musig'[r] = sigs
        /\ \A x \in Role : x # r => tik'[x] = tik[x] /\ txs'[x] = txs[x] /\ musig'[x] = musig[x]
    BY <1>1 DEF SInv, IInv, TypeOK
  <1> HIDE DEF built, sigs
  <1>6. InTrade(r, s, keys, built, sigs, net1, signed, o)
    BY <1>2, <1>3, <1>4 DEF InTrade
  <1>7. InTrade(r, session'[r], tik'[r], txs'[r], musig'[r], net1', signed', o)
    BY <1>1, <1>5, <1>6
  <1>8. TraderInv(r)'
    BY <1>2, <1>7 DEF TraderInv
  <1>9. \A x \in Role : TraderInv(x)'
    <2> SUFFICES ASSUME NEW x \in Role, x # r PROVE TraderInv(x)'
      BY <1>8
    <2>1. TraderInv(x)
      BY DEF SInv
    <2> QED
      BY <2>1, <1>1, <1>5, TraderFrame
  <1>10. Built(r)'
    <2>1. keys["p"].agg = AggPoint(NewPoint("p", r, s), NewPoint("p", Other(r), o))
      BY <1>2 DEF KeysWith, Tik
    <2>2. s \in Session /\ "p" \in Tik
      BY DEF SInv, IInv, TypeOK, Tik
    <2> HIDE DEF s, o
    <2>3. NewPoint("p", r, s) \in Point /\ NewPoint("p", Other(r), o) \in Point
      BY <1>2, <2>2, OtherRole, NewPointType
    <2> QED
      BY <1>5, <2>1, <2>3, AggPointType DEF Built
  <1>11. ~HasSigned(r)'
    BY <1>3, <1>5 DEF HasSigned, Ctx
  <1> QED
    BY <1>2, <1>3, <1>5, <1>9, <1>10, <1>11

\* The session that answered a trader's offer is the one he is in a trade with
\* (the asserts of round3).
LEMMA AnsweredSession ==
    ASSUME SInv, NEW r \in Role, NEW m \in From(net2, Other(r)), Round3Checks(r, m),
           NEW o \in Session,
           KeysWith(r, session[r], tik[r], o)
    PROVE  Own(m) = o
  <1>1. /\ m \in net2 /\ m.from = Other(r) /\ Own(m) \in Session /\ session[r] \in Session
        /\ Other(r) \in Role /\ Other(r) # r /\ Other(Other(r)) = r /\ "p" \in Tik
    BY OtherRole DEF From, SInv, IInv, TypeOK, Own, Ctx, Nonce, Tik
  <1>2. PICK x \in Session : MsgFor(m, x)
    BY <1>1 DEF SInv, IInv, Net2Inv
  <1>3. AggPoint(NewPoint("p", Other(r), Own(m)), NewPoint("p", r, x))
          = AggPoint(NewPoint("p", r, session[r]), NewPoint("p", Other(r), o))
    BY <1>1, <1>2 DEF MsgFor, KeysWith, Round3Checks
  <1>4. /\ NewPoint("p", r, session[r]) \in Point /\ NewPoint("p", Other(r), o) \in Point
        /\ NewPoint("p", r, session[r]) # NewPoint("p", Other(r), o)
    BY <1>1, NewPointType DEF NewPoint
  <1>5. AggPoint(NewPoint("p", Other(r), Own(m)), NewPoint("p", r, x))
          = AggPoint(NewPoint("p", Other(r), o), NewPoint("p", r, session[r]))
    BY <1>3, <1>4, AggPointSymmetric
  <1> QED
    BY <1>1, <1>2, <1>5, AggPointInjective

\* The adaptor point of a signing trader is the seller's share of P'.
LEMMA AdaptorInTrade ==
    ASSUME NEW r \in Role, NEW c \in Ctx, NEW o, KeysWith(r, session[r], tik[r], o)
    PROVE  Adaptor(r, c) = AdaptorOf(r, c, session[r], o)
  <1>1. /\ tik[r]["p"].pub = NewPoint("p", r, session[r])
        /\ tik[r]["p"].other = NewPoint("p", Other(r), o)
    BY DEF KeysWith, Tik
  <1> QED
    BY <1>1 DEF Adaptor, AdaptorOf, Role, Other

\* round3 signs every context of the trade, with its announced nonce, and sends
\* the peer's halves.
LEMMA Round3Trader ==
    ASSUME SInv, NEW r \in Role, NEW m \in From(net2, Other(r)), Round3(r, m)
    PROVE  /\ \A x \in Role : TraderInv(x)'
           /\ HasSigned(r)' /\ Built(r)
           /\ \E sent : /\ net3' = net3 \cup {sent} /\ sent.from = r
                        /\ \A c \in SentCtx : /\ sent.part_sigs[c] = PartialMade(musig'[r][c])
                                              /\ sent.part_sigs[c] \in signed'
                                              /\ sent.part_sigs[c].nonce = NewNonce(c, r, session[r])
  <1> DEFINE s == session[r]
             other(c) == m.nonces[PeerCtx(c)]
             part3(c) == PartialOf(musig[r][c], other(c), Adaptor(r, c), CtxMsg(txs[r], c))
             sigs == [c \in Ctx |-> Sign(musig[r][c], other(c), Adaptor(r, c), CtxMsg(txs[r], c))]
  <1>1. /\ round[r] = 2 /\ ~failed[r] /\ Round3Checks(r, m)
        /\ musig' = [musig EXCEPT ![r] = sigs]
        /\ signed' = signed \cup { part3(c) : c \in Ctx }
        /\ net3' = net3 \cup { [from |-> r, deposit_txid |-> txs[r]["deposit"],
                                part_sigs |-> [c \in SentCtx |-> [d \in Ctx |-> part3(d)][c]]] }
        /\ UNCHANGED <<terms, session, tik, txs, net1>>
    BY DEF Round3, CheckRound, Enter
  <1>2. Built(r) /\ TraderInv(r) /\ session[r] \in Session
    BY <1>1 DEF SInv, IInv, StageInv, TypeOK
  <1>3. PICK o \in Session : InTrade(r, s, tik[r], txs[r], musig[r], net1, signed, o)
    BY <1>2, BuiltInTrade
  <1>4. KeysWith(r, s, tik[r], o) /\ \A c \in Ctx : CtxReady(r, c, s, tik[r], musig[r][c])
    BY <1>3 DEF InTrade
  <1>5. \A c \in Ctx : other(c) = NewNonce(PeerCtx(c), Other(r), o)
    <2>1. Own(m) = o
      BY <1>1, <1>4, AnsweredSession
    <2> QED
      BY <2>1, PeerCtxType DEF SInv, AnnounceInv, AnnounceOK, From
  <1>6. \A c \in Ctx : Adaptor(r, c) = AdaptorOf(r, c, s, o)
    BY <1>4, AdaptorInTrade
  <1>7. \A c \in Ctx : musig[r][c].sec_nonce = NewNonce(c, r, s)
    BY <1>1 DEF SInv, IInv, NonceInv
  <1>8. /\ musig'[r] = sigs
        /\ \A x \in Role : x # r => musig'[x] = musig[x]
    BY <1>1 DEF SInv, IInv, TypeOK
  <1>9. ASSUME NEW c \in Ctx
        PROVE  /\ CtxReady(r, c, s, tik[r], sigs[c])
               /\ CtxSigned(r, c, s, tik[r], txs[r], sigs[c], signed', o)
               /\ part3(c) \in signed' /\ part3(c) = PartialMade(sigs[c])
               /\ part3(c).nonce = NewNonce(c, r, s)
    <2>1. sigs[c] = Sign(musig[r][c], other(c), Adaptor(r, c), CtxMsg(txs[r], c))
      BY <1>9
    <2>2. part3(c) \in signed'
      BY <1>1, <1>9
    <2>3. CtxReady(r, c, s, tik[r], sigs[c])
      BY <2>1, <1>4 DEF CtxReady, Sign
    <2>4. part3(c).signer = musig[r][c].signer /\ part3(c).msg = CtxMsg(txs[r], c)
          /\ part3(c).nonce = NewNonce(c, r, s)
      BY <1>7, <1>9 DEF PartialOf, PartialSig
    <2>5. part3(c) = PartialMade(sigs[c])
      BY <2>1, <1>4, <1>7, <1>9 DEF PartialOf, PartialMade, Sign, CtxReady
    <2> HIDE DEF part3
    <2>6. SignedBy(tik[r][CtxTik(r, c)].pub, CtxMsg(txs[r], c), signed')
      BY <2>2, <2>4, <1>4 DEF SignedBy, CtxReady
    <2> HIDE DEF sigs, other
    <2>7. CtxSigned(r, c, s, tik[r], txs[r], sigs[c], signed', o)
      BY <2>1, <2>6, <1>5, <1>6 DEF CtxSigned, Sign
    <2> QED
      BY <2>2, <2>3, <2>4, <2>5, <2>7
  <1>10. HasSigned(r)'
    BY <1>8, <1>9 DEF HasSigned, CtxSigned, Ctx
  <1>11. \E sent : /\ net3' = net3 \cup {sent} /\ sent.from = r
                   /\ \A c \in SentCtx : /\ sent.part_sigs[c] = PartialMade(musig'[r][c])
                                         /\ sent.part_sigs[c] \in signed'
                                         /\ sent.part_sigs[c].nonce = NewNonce(c, r, session[r])
    <2> DEFINE sent == [from |-> r, deposit_txid |-> txs[r]["deposit"],
                        part_sigs |-> [c \in SentCtx |-> [d \in Ctx |-> part3(d)][c]]]
    <2>1. SentCtx \subseteq Ctx
      BY DEF SentCtx, Ctx
    <2>2. \A c \in SentCtx : sent.part_sigs[c] = part3(c)
      BY <2>1
    <2>3. net3' = net3 \cup {sent} /\ sent.from = r
      BY <1>1
    <2> HIDE DEF sent, part3, sigs
    <2> QED
      BY <2>1, <2>2, <2>3, <1>8, <1>9
  <1> HIDE DEF sigs, part3, other
  <1>12. DepositOf(r, s, txs[r]["deposit"], net1, o)
    BY <1>3 DEF InTrade
  <1>13. InTrade(r, s, tik[r], txs[r], sigs, net1, signed', o)
    BY <1>4, <1>9, <1>12 DEF InTrade
  <1>14. InTrade(r, session'[r], tik'[r], txs'[r], musig'[r], net1', signed', o)
    BY <1>1, <1>8, <1>13
  <1>15. \A x \in Role : TraderInv(x)'
    <2>1. TraderInv(r)'
      BY <1>14 DEF TraderInv
    <2> SUFFICES ASSUME NEW x \in Role, x # r PROVE TraderInv(x)'
      BY <2>1
    <2>2. TraderInv(x)
      BY DEF SInv
    <2> QED
      BY <2>2, <1>1, <1>8, TraderFrame
  <1> QED
    BY <1>2, <1>10, <1>11, <1>15

\* The contexts that round4 aggregates are the ones whose halves were sent.
LEMMA PeerCtxOfMine == \A c \in MyCtx : c \in Ctx /\ PeerCtx(c) \in SentCtx
  BY DEF MyCtx, Ctx, SentCtx, PeerCtx

\* round4 completes the signatures of a trader with verified halves of the
\* peer, which were made by the peer over the same messages.
LEMMA Round4Trader ==
    ASSUME SInv, NEW r \in Role, NEW m \in From(net3, Other(r)), Round4(r, m)
    PROVE  /\ \A x \in Role : TraderInv(x)'
           /\ HasSigned(r) /\ HasSigned(r)' /\ Built(r)
           /\ musig'[r]["swap"].stage = StageAfterRound4(r, "swap")
           /\ \A c \in Ctx : PartialMade(musig'[r][c]) = PartialMade(musig[r][c])
           /\ \A c \in Ctx : SigOf(musig'[r][c]) = SigOf(musig[r][c])
           /\ \A x \in Role : x # r => musig'[x] = musig[x]
  <1> DEFINE s == session[r]
             sigs == [c \in Ctx |-> IF c \in MyCtx
                                    THEN [musig[r][c] EXCEPT !.stage = StageAfterRound4(r, c)]
                                    ELSE musig[r][c]]
  <1>1. /\ round[r] = 3 /\ ~failed[r] /\ Round4Checks(r, m)
        /\ musig' = [musig EXCEPT ![r] = sigs]
        /\ UNCHANGED <<terms, session, tik, txs, net1, signed>>
    BY DEF Round4, CheckRound, Enter
  <1>2. HasSigned(r) /\ Built(r) /\ TraderInv(r) /\ session[r] \in Session
    BY <1>1 DEF SInv, IInv, StageInv, TypeOK
  <1>3. PICK o \in Session : InTrade(r, s, tik[r], txs[r], musig[r], net1, signed, o)
    BY <1>2, BuiltInTrade
  <1>4. \A c \in Ctx : /\ CtxReady(r, c, s, tik[r], musig[r][c])
                       /\ CtxSigned(r, c, s, tik[r], txs[r], musig[r][c], signed, o)
    <2>1. "swap" \in Ctx
      BY DEF Ctx
    <2> QED
      BY <1>2, <1>3, <2>1, SignedInTrade DEF HasSigned, InTrade
  <1>5. /\ musig'[r] = sigs
        /\ \A x \in Role : x # r => musig'[x] = musig[x]
    BY <1>1 DEF SInv, IInv, TypeOK
  <1>6. ASSUME NEW c \in Ctx
        PROVE  /\ sigs[c].key = musig[r][c].key /\ sigs[c].signer = musig[r][c].signer
               /\ sigs[c].pub_nonce = musig[r][c].pub_nonce
               /\ sigs[c].other_nonce = musig[r][c].other_nonce
               /\ sigs[c].adaptor = musig[r][c].adaptor /\ sigs[c].msg = musig[r][c].msg
               /\ sigs[c].stage = IF c \in MyCtx THEN StageAfterRound4(r, c)
                                                  ELSE musig[r][c].stage
    <2>1. MuSigOK(musig[r][c])
      BY <1>6 DEF SInv, IInv, TypeOK
    <2> QED
      BY <2>1, <1>6 DEF MuSigOK
  <1>7. \A c \in MyCtx : SignedBy(tik[r][CtxTik(r, c)].other, musig[r][c].msg, signed)
    <2> SUFFICES ASSUME NEW c \in MyCtx
                 PROVE  SignedBy(tik[r][CtxTik(r, c)].other, musig[r][c].msg, signed)
      OBVIOUS
    <2> DEFINE sig == m.part_sigs[PeerCtx(c)]
    <2>1. sig \in signed
      BY PeerCtxOfMine DEF SInv, PartialsInv, PartialsOK, PartialsOf, From
    <2>2. sig.signer = tik[r][CtxTik(r, c)].other /\ sig.msg = musig[r][c].msg
      <3>1. Verifies(musig[r][c], tik[r][CtxTik(r, c)].other, sig)
        BY <1>1 DEF Round4Checks
      <3> HIDE DEF sig
      <3> QED
        BY <3>1 DEF Verifies, PartialSig
    <2> HIDE DEF sig
    <2> QED
      BY <2>1, <2>2 DEF SignedBy
  <1> HIDE DEF sigs
  <1>8. ASSUME NEW c \in Ctx
        PROVE  /\ CtxReady(r, c, s, tik[r], sigs[c])
               /\ CtxSigned(r, c, s, tik[r], txs[r], sigs[c], signed, o)
    <2>1. CtxReady(r, c, s, tik[r], sigs[c])
      BY <1>4, <1>6, <1>8 DEF CtxReady
    <2>2. CASE c \in MyCtx
      <3>1. sigs[c].stage = StageAfterRound4(r, c)
            /\ StageAfterRound4(r, c) \in {"aggregated", "final"}
        BY <1>6, <2>2, <1>8 DEF StageAfterRound4
      <3> QED
        BY <1>4, <1>6, <1>7, <2>1, <2>2, <3>1, <1>8 DEF CtxSigned
    <2>3. CASE c \notin MyCtx
      BY <1>4, <1>6, <2>1, <2>3, <1>8 DEF CtxSigned
    <2> QED
      BY <2>2, <2>3
  <1>9. DepositOf(r, s, txs[r]["deposit"], net1, o) /\ KeysWith(r, s, tik[r], o)
    BY <1>3 DEF InTrade
  <1>10. InTrade(r, s, tik[r], txs[r], sigs, net1, signed, o)
    BY <1>8, <1>9 DEF InTrade
  <1>11. InTrade(r, session'[r], tik'[r], txs'[r], musig'[r], net1', signed', o)
    BY <1>1, <1>5, <1>10
  <1>12. \A x \in Role : TraderInv(x)'
    <2>1. TraderInv(r)'
      BY <1>11 DEF TraderInv
    <2> SUFFICES ASSUME NEW x \in Role, x # r PROVE TraderInv(x)'
      BY <2>1
    <2>2. TraderInv(x)
      BY DEF SInv
    <2> QED
      BY <2>2, <1>1, <1>5, TraderFrame
  <1>13. "swap" \in Ctx /\ "swap" \in MyCtx
    BY DEF Ctx, MyCtx
  <1>14. HasSigned(r)' /\ musig'[r]["swap"].stage = StageAfterRound4(r, "swap")
    BY <1>5, <1>6, <1>13 DEF HasSigned, StageAfterRound4
  <1>15. \A c \in Ctx : PartialMade(musig'[r][c]) = PartialMade(musig[r][c])
                        /\ SigOf(musig'[r][c]) = SigOf(musig[r][c])
    BY <1>5, <1>6 DEF PartialMade, SigOf
  <1> QED
    BY <1>2, <1>5, <1>12, <1>14, <1>15

\* Every context is locked to one of the two aggregated keys.
LEMMA CtxTikType == \A r \in Role, c \in Ctx : CtxTik(r, c) \in Tik
  BY OtherRole DEF CtxTik, Ctx, Tik, WarnTik

\* The secret of a key plays no part in the trade.
LEMMA InTradeSameKeys ==
    ASSUME NEW r \in Role, NEW s, NEW key, NEW key2, NEW built, NEW mus, NEW o, NEW sent, NEW sigs,
           InTrade(r, s, key, built, mus, sent, sigs, o),
           \A t \in Tik : /\ key2[t].pub = key[t].pub /\ key2[t].other = key[t].other
                          /\ key2[t].agg = key[t].agg
    PROVE  InTrade(r, s, key2, built, mus, sent, sigs, o)
  <1>1. KeysWith(r, s, key2, o)
    BY DEF InTrade, KeysWith
  <1>2. \A c \in Ctx : CtxReady(r, c, s, key2, mus[c])
    BY CtxTikType DEF InTrade, CtxReady
  <1>3. \A c \in Ctx : CtxSigned(r, c, s, key, built, mus[c], sigs, o)
                          => CtxSigned(r, c, s, key2, built, mus[c], sigs, o)
    BY CtxTikType DEF CtxSigned
  <1> QED
    BY <1>1, <1>2, <1>3 DEF InTrade

\* Reveal changes nothing of the key but its aggregated secret.
LEMMA RevealKey ==
    ASSUME TypeOK, NEW r \in Role
    PROVE  /\ Reveal(r).pub = tik[r]["p"].pub /\ Reveal(r).other = tik[r]["p"].other
           /\ Reveal(r).agg = tik[r]["p"].agg
           /\ Reveal(r).agg_sec = AggSecret(tik[r]["p"].pub, tik[r]["p"].pub,
                                            musig[r]["swap"].adaptor[1], tik[r]["p"].other)
  <1>1. AggKeyOK(tik[r]["p"])
    BY DEF TypeOK, Tik
  <1>2. \A key, sec : AggKeyOK(key) => /\ [key EXCEPT !.agg_sec = sec].pub = key.pub
                                       /\ [key EXCEPT !.agg_sec = sec].other = key.other
                                       /\ [key EXCEPT !.agg_sec = sec].agg = key.agg
                                       /\ [key EXCEPT !.agg_sec = sec].agg_sec = sec
    BY DEF AggKeyOK
  <1> QED
    BY <1>1, <1>2 DEF Reveal

\* What the buyer reveals from his own adaptor signature is the secret of P'.
LEMMA RevealsSecret ==
    ASSUME SInv, HasSigned("Buyer")
    PROVE  Reveal("Buyer").agg_sec = tik["Buyer"]["p"].agg
  <1>1. /\ "Buyer" \in Role /\ "swap" \in Ctx /\ "p" \in Tik
        /\ session["Buyer"] \in Session /\ TraderInv("Buyer") /\ Built("Buyer")
    BY DEF Role, Ctx, Tik, SInv, IInv, TypeOK, StageInv
  <1>2. PICK o \in Session : InTrade("Buyer", session["Buyer"], tik["Buyer"], txs["Buyer"],
                                     musig["Buyer"], net1, signed, o)
    BY <1>1, BuiltInTrade
  <1>3. musig["Buyer"]["swap"].adaptor = << NewPoint("p", "Seller", o) >>
    <2>1. CtxSigned("Buyer", "swap", session["Buyer"], tik["Buyer"], txs["Buyer"],
                    musig["Buyer"]["swap"], signed, o)
      BY <1>1, <1>2, SignedInTrade DEF HasSigned
    <2> QED
      BY <2>1 DEF CtxSigned, AdaptorOf
  <1>4. /\ tik["Buyer"]["p"].pub = NewPoint("p", "Buyer", session["Buyer"])
        /\ tik["Buyer"]["p"].other = NewPoint("p", "Seller", o)
        /\ tik["Buyer"]["p"].agg = AggPoint(NewPoint("p", "Buyer", session["Buyer"]),
                                            NewPoint("p", "Seller", o))
    BY <1>1, <1>2 DEF InTrade, KeysWith, Other
  <1>5. Reveal("Buyer").agg_sec = AggSecret(tik["Buyer"]["p"].pub, tik["Buyer"]["p"].pub,
                                            NewPoint("p", "Seller", o), tik["Buyer"]["p"].other)
    <2>1. musig["Buyer"]["swap"].adaptor[1] = NewPoint("p", "Seller", o)
      BY <1>3
    <2> QED
      BY <2>1, <1>1, RevealKey DEF SInv, IInv
  <1> QED
    BY <1>4, <1>5 DEF AggSecret, AggPoint

\* round5 completes the buyer's secret of P' and changes nothing else.
LEMMA Round5Trader ==
    ASSUME SInv, NEW r \in Role, NEW m \in From(net4, Other(r)), Round5(r, m)
    PROVE  /\ \A x \in Role : TraderInv(x)'
           /\ \A x \in Role, t \in Tik : tik'[x][t].agg = tik[x][t].agg
           /\ SecretInv'
  <1>1. /\ round[r] = 4 /\ ~failed[r] /\ Round5Checks(r, m)
        /\ tik' = IF r = "Buyer" THEN [tik EXCEPT ![r]["p"] = Reveal(r)] ELSE tik
        /\ UNCHANGED <<terms, session, txs, musig, net1, net4, signed>>
    BY DEF Round5, CheckRound, Enter, net
  <1>2. HasSigned(r) /\ Built(r) /\ session[r] \in Session /\ TypeOK
    BY <1>1 DEF SInv, IInv, StageInv, TypeOK
  <1>3. CASE r # "Buyer"
    <2>1. UNCHANGED tik
      BY <1>1, <1>3
    <2>2. \A x \in Role : TraderInv(x)'
      <3> SUFFICES ASSUME NEW x \in Role PROVE TraderInv(x)'
        OBVIOUS
      <3>1. TraderInv(x)
        BY DEF SInv
      <3> QED
        BY <3>1, <2>1, <1>1, TraderFrame
    <2> QED
      BY <2>1, <2>2, <1>1 DEF SInv, SecretInv
  <1>4. CASE r = "Buyer"
    <2>1. /\ tik'["Buyer"]["p"] = Reveal("Buyer") /\ tik'["Buyer"]["q"] = tik["Buyer"]["q"]
          /\ \A x \in Role : x # "Buyer" => tik'[x] = tik[x]
      <3>1. tik' = [tik EXCEPT !["Buyer"] = [tik["Buyer"] EXCEPT !["p"] = Reveal("Buyer")]]
        BY <1>1, <1>4
      <3> QED
        BY <3>1, <1>2 DEF TypeOK, Role, Tik
    <2>2. \A t \in Tik : /\ tik'["Buyer"][t].pub = tik["Buyer"][t].pub
                         /\ tik'["Buyer"][t].other = tik["Buyer"][t].other
                         /\ tik'["Buyer"][t].agg = tik["Buyer"][t].agg
      BY <2>1, <1>2, RevealKey DEF Tik, Role
    <2>3. PICK o \in Session : InTrade("Buyer", session["Buyer"], tik["Buyer"], txs["Buyer"],
                                       musig["Buyer"], net1, signed, o)
      BY <1>2, <1>4, BuiltInTrade DEF SInv
    <2>4. InTrade("Buyer", session["Buyer"], tik'["Buyer"], txs["Buyer"],
                  musig["Buyer"], net1, signed, o)
      BY <2>2, <2>3, InTradeSameKeys DEF Role
    <2>5. TraderInv("Buyer")'
      BY <2>4, <1>1 DEF TraderInv
    <2>6. \A x \in Role : TraderInv(x)'
      <3> SUFFICES ASSUME NEW x \in Role, x # "Buyer" PROVE TraderInv(x)'
        BY <2>5
      <3>1. TraderInv(x)
        BY DEF SInv
      <3> QED
        BY <3>1, <2>1, <1>1, TraderFrame
    <2>7. SecretInv'
      <3>1. /\ m \in net4 /\ m.from = "Seller" /\ m.swap_onchain # <<>>
            /\ m.swap_onchain[1].sig.key = musig["Buyer"]["swap"].key
            /\ m.swap_onchain[1].sig.adaptor = musig["Buyer"]["swap"].adaptor
        BY <1>1, <1>4 DEF From, Other, Round5Checks, SigOf, AggSig
      <3>2. musig["Buyer"]["swap"].key = tik["Buyer"]["q"].agg
        <4>1. CtxReady("Buyer", "swap", session["Buyer"], tik["Buyer"], musig["Buyer"]["swap"])
          BY <2>3 DEF InTrade, Ctx
        <4> QED
          BY <4>1 DEF CtxReady, CtxTik
      <3>3. tik'["Buyer"]["p"].agg_sec = tik'["Buyer"]["p"].agg
        BY <2>1, <2>2, <1>2, <1>4, RevealsSecret DEF Tik
      <3>4. musig["Buyer"]["swap"].adaptor = << tik["Buyer"]["p"].other >>
        <4>1. CtxSigned("Buyer", "swap", session["Buyer"], tik["Buyer"], txs["Buyer"],
                        musig["Buyer"]["swap"], signed, o)
          BY <1>2, <1>4, <2>3, SignedInTrade DEF HasSigned, Ctx
        <4>2. tik["Buyer"]["p"].other = NewPoint("p", "Seller", o)
          BY <2>3 DEF InTrade, KeysWith, Other, Tik
        <4> QED
          BY <4>1, <4>2 DEF CtxSigned, AdaptorOf
      <3> QED
        BY <3>1, <3>2, <3>3, <3>4, <2>2, <1>1 DEF SecretInv, Tik
    <2> QED
      BY <2>1, <2>2, <2>6, <2>7
  <1> QED
    BY <1>3, <1>4

\* A restart begins a fresh session.
LEMMA RestartTrader ==
    ASSUME SInv, NEW r \in Role, Restart(r)
    PROVE  /\ \A x \in Role : TraderInv(x)'
           /\ ~Built(r)'
  <1>1. /\ session'[r] = session[r] + 1 /\ tik'[r] = NewTik(r, session[r] + 1)
        /\ txs'[r] = NewTxs /\ musig'[r] = NewMuSigs
        /\ \A x \in Role : x # r => /\ session'[x] = session[x] /\ tik'[x] = tik[x]
                                    /\ txs'[x] = txs[x] /\ musig'[x] = musig[x]
        /\ UNCHANGED <<net1, signed>>
    BY DEF Restart, SInv, IInv, TypeOK, net
  <1>2. TraderInv(r)'
    BY <1>1 DEF TraderInv, Fresh
  <1>3. \A x \in Role : TraderInv(x)'
    <2> SUFFICES ASSUME NEW x \in Role, x # r PROVE TraderInv(x)'
      BY <1>2
    <2>1. TraderInv(x)
      BY DEF SInv
    <2> QED
      BY <2>1, <1>1, TraderFrame
  <1>4. ~Built(r)'
    BY <1>1 DEF Built, NewTik, NewAggKey, Tik
  <1> QED
    BY <1>3, <1>4

\* A step that leaves the traders' keys, transactions and contexts alone.
LEMMA OtherStepTrader ==
    ASSUME SInv, UNCHANGED <<session, tik, txs, musig, signed>>, net1 \subseteq net1'
    PROVE  \A x \in Role : TraderInv(x)'
  <1> SUFFICES ASSUME NEW x \in Role PROVE TraderInv(x)'
    OBVIOUS
  <1>1. TraderInv(x)
    BY DEF SInv
  <1> QED
    BY <1>1, TraderFrame

-----------------------------------------------------------------------------
(* Every action preserves what the messages sent so far say.               *)

\* A step of trader x that takes nothing back: it restarts, or what it had
\* built, signed and finished stays so.
Kept(x) ==
    \/ session'[x] = session[x] + 1
    \/ /\ session'[x] = session[x] /\ round'[x] >= round[x]
       /\ Built(x) => Built(x)'
       /\ HasSigned(x) => /\ HasSigned(x)'
                          /\ \A c \in Ctx : PartialMade(musig'[x][c]) = PartialMade(musig[x][c])
       /\ musig[x]["swap"].stage = "final" =>
              /\ musig'[x]["swap"].stage = "final"
              /\ SigOf(musig'[x]["swap"]) = SigOf(musig[x]["swap"])

\* The messages sent before a step in which both traders are Kept still hold.
LEMMA OldMessages ==
    ASSUME SInv, TypeOK', \A x \in Role : Kept(x), UNCHANGED terms, signed \subseteq signed'
    PROVE  /\ \A m \in net1 : OfferOK(m)'
           /\ \A m \in net2 : AnnounceOK(m)'
           /\ \A m \in net3 : PartialsOK(m)'
           /\ \A m \in net4 : SwapOK(m)'
  <1>1. \A x \in Role : /\ session[x] \in Int /\ round[x] \in Int
                        /\ session'[x] \in Int /\ round'[x] \in Int
                        /\ session[x] \in Session /\ session'[x] \in Session
    <2>1. session \in [Role -> Session] /\ round \in [Role -> 0 .. 5]
      BY DEF SInv, IInv, TypeOK
    <2>2. session' \in [Role -> Session] /\ round' \in [Role -> 0 .. 5]
      BY DEF TypeOK
    <2>3. Session \subseteq Int /\ 0 .. 5 \subseteq Int
      BY BoundAssumption DEF Session
    <2> QED
      BY <2>1, <2>2, <2>3
  <1>2. \A x \in Role, k \in Session :
            /\ k \in Int
            /\ k <= session[x] => k <= session'[x]
            /\ k <= session[x] /\ k = session'[x] => k = session[x] /\ session'[x] = session[x]
    BY <1>1, BoundAssumption DEF Session, Kept
  <1>3. ASSUME NEW m \in net1 PROVE OfferOK(m)'
    <2>1. OfferOK(m) /\ m.from \in Role /\ m.p_a.session \in Session
          /\ m.p_a.session <= session[m.from]
      BY <1>3 DEF SInv, OfferInv, IInv, TypeOK, KeyInv, Point
    <2>2. ASSUME m.p_a.session = session'[m.from] PROVE round'[m.from] >= 1
      <3>1. m.p_a.session = session[m.from] /\ session'[m.from] = session[m.from]
        BY <2>1, <2>2, <1>2
      <3>2. round'[m.from] >= round[m.from]
        BY <2>1, <3>1, <1>1 DEF Kept
      <3> QED
        BY <2>1, <3>1, <3>2, <1>1 DEF OfferOK
    <2> QED
      BY <2>1, <2>2 DEF OfferOK
  <1>4. ASSUME NEW m \in net2 PROVE AnnounceOK(m)'
    <2>1. AnnounceOK(m) /\ m.from \in Role /\ Own(m) \in Session /\ Own(m) <= session[m.from]
      BY <1>4 DEF SInv, AnnounceInv, IInv, TypeOK, Net2Inv, Own, Ctx, Nonce
    <2>2. ASSUME Own(m) = session'[m.from] PROVE Built(m.from)'
      <3>1. Own(m) = session[m.from] /\ session'[m.from] = session[m.from]
        BY <2>1, <2>2, <1>2
      <3>2. Built(m.from)
        BY <2>1, <3>1 DEF AnnounceOK
      <3> QED
        BY <2>1, <3>1, <3>2, <1>1 DEF Kept
    <2> QED
      BY <2>1, <2>2 DEF AnnounceOK, Own
  <1>5. ASSUME NEW m \in net3 PROVE PartialsOK(m)'
    <2>1. m.from \in Role
      BY <1>5 DEF SInv, PartialsInv, PartialsOK
    <2>2. PICK k \in Session :
            /\ k <= session[m.from] /\ PartialsOf(m, k)
            /\ k = session[m.from] =>
                  /\ HasSigned(m.from)
                  /\ \A c \in SentCtx : m.part_sigs[c] = PartialMade(musig[m.from][c])
      BY <1>5 DEF SInv, PartialsInv, PartialsOK
    <2>3. k <= session'[m.from] /\ PartialsOf(m, k)'
      BY <2>1, <2>2, <1>2 DEF PartialsOf
    <2>4. ASSUME k = session'[m.from]
          PROVE  /\ HasSigned(m.from)'
                 /\ \A c \in SentCtx : m.part_sigs[c] = PartialMade(musig'[m.from][c])
      <3>1. k = session[m.from] /\ session'[m.from] = session[m.from]
        BY <2>1, <2>2, <2>4, <1>2
      <3>2. HasSigned(m.from) /\ Kept(m.from)
        BY <2>1, <2>2, <3>1
      <3>3. /\ HasSigned(m.from)'
            /\ \A c \in Ctx : PartialMade(musig'[m.from][c]) = PartialMade(musig[m.from][c])
        BY <2>1, <3>1, <3>2, <1>1 DEF Kept
      <3>4. SentCtx \subseteq Ctx
        BY DEF SentCtx, Ctx
      <3> QED
        BY <2>2, <3>1, <3>3, <3>4
    <2>5. (\A c \in SentCtx : m.part_sigs[c] = PartialMade(musig[m.from][c]))'
          <=> \A c \in SentCtx : m.part_sigs[c] = PartialMade(musig'[m.from][c])
      BY DEF PartialMade
    <2> QED
      BY <2>1, <2>3, <2>4, <2>5 DEF PartialsOK
  <1>6. ASSUME NEW m \in net4, m.from = "Seller" PROVE SwapOK(m)'
    <2>1. PICK k \in Session, o \in Session :
            /\ k <= session["Seller"] /\ SwapOf(m, k, o)
            /\ k = session["Seller"] =>
                  /\ musig["Seller"]["swap"].stage = "final"
                  /\ m.swap_onchain[1].sig = SigOf(musig["Seller"]["swap"])
      BY <1>6 DEF SInv, SwapInv, SwapOK
    <2>2. "Seller" \in Role
      BY DEF Role
    <2>3. k <= session'["Seller"]
      BY <2>1, <2>2, <1>2
    <2>4. ASSUME k = session'["Seller"]
          PROVE  /\ musig'["Seller"]["swap"].stage = "final"
                 /\ m.swap_onchain[1].sig = SigOf(musig'["Seller"]["swap"])
      <3>1. k = session["Seller"] /\ session'["Seller"] = session["Seller"]
        BY <2>1, <2>2, <2>4, <1>2
      <3> QED
        BY <2>1, <2>2, <3>1, <1>1 DEF Kept
    <2> QED
      BY <2>1, <2>3, <2>4 DEF SwapOK, SwapOf, SigOf
  <1> QED
    BY <1>3, <1>4, <1>5, <1>6 DEF SwapOK

MessageInv == OfferInv /\ AnnounceInv /\ PartialsInv /\ SwapInv /\ SecretInv

\* A trader whose keys and contexts stay as they are is Kept.
LEMMA KeptFrame ==
    ASSUME NEW x, session'[x] = session[x], round'[x] >= round[x],
           tik'[x] = tik[x], musig'[x] = musig[x]
    PROVE  Kept(x)
  BY DEF Kept, Built, HasSigned

\* A part PSBT stays the one that was offered.
LEMMA PartFrame ==
    ASSUME NEW x, PartOK(x), session'[x] = session[x], round'[x] = round[x],
           failed'[x] = failed[x], part'[x] = part[x], net1 \subseteq net1'
    PROVE  PartOK(x)'
  BY DEF PartOK, Offer

\* The buyer's secret stays the one he got.
LEMMA SecretFrame ==
    ASSUME SecretInv, tik'["Buyer"] = tik["Buyer"], net4 \subseteq net4'
    PROVE  SecretInv'
  BY DEF SecretInv

\* Before round 2 a trader's keys have no secret.
LEMMA NoSecretYet ==
    ASSUME SInv, NEW r \in Role, ~Built(r)
    PROVE  tik[r]["p"].agg_sec = <<>>
  <1>1. Fresh(r, session[r], tik[r], txs[r], musig[r])
    BY BuiltInTrade DEF SInv, IInv, TypeOK
  <1> QED
    BY <1>1 DEF Fresh, NewTik, NewAggKey, Tik

\* A step that sends nothing.
LEMMA QuietMessages ==
    ASSUME SInv, TypeOK', \A x \in Role : Kept(x), UNCHANGED <<terms, net, signed>>,
           \A x \in Role : PartOK(x)', SecretInv'
    PROVE  MessageInv'
  <1>1. UNCHANGED <<terms, net1, net2, net3, net4, signed>>
    BY DEF net
  <1>2. /\ \A m \in net1 : OfferOK(m)'
        /\ \A m \in net2 : AnnounceOK(m)'
        /\ \A m \in net3 : PartialsOK(m)'
        /\ \A m \in net4 : SwapOK(m)'
    BY <1>1, OldMessages
  <1>3. OneOffer'
    BY <1>1 DEF SInv, OfferInv, OneOffer
  <1> QED
    BY <1>1, <1>2, <1>3 DEF MessageInv, OfferInv, AnnounceInv, PartialsInv, SwapInv

\* A failing round sends nothing.
LEMMA FailMessages ==
    ASSUME SInv, TypeOK', NEW r \in Role, NEW k \in 1 .. 5, CheckRound(r, k), Fail(r, k)
    PROVE  MessageInv'
  <1>1. /\ round[r] = k - 1 /\ round' = [round EXCEPT ![r] = k]
        /\ failed' = [failed EXCEPT ![r] = TRUE]
        /\ UNCHANGED <<terms, session, tik, part, txs, musig, net, signed>>
    BY DEF CheckRound, Fail, Enter
  <1>2. round \in [Role -> 0 .. 5] /\ failed \in [Role -> BOOLEAN]
    BY DEF SInv, IInv, TypeOK
  <1>3. \A x \in Role : /\ round'[x] >= round[x]
                        /\ x = r => failed'[x]
                        /\ x # r => round'[x] = round[x] /\ failed'[x] = failed[x]
    <2>1. \A x \in Role : round'[x] >= round[x] /\ (x # r => round'[x] = round[x])
      BY <1>1, <1>2
    <2>2. \A x \in Role : (x = r => failed'[x]) /\ (x # r => failed'[x] = failed[x])
      BY <1>1, <1>2, Zenon
    <2> QED
      BY <2>1, <2>2
  <1>4. \A x \in Role : Kept(x)
    BY <1>1, <1>3, KeptFrame
  <1>5. \A x \in Role : PartOK(x)'
    <2> SUFFICES ASSUME NEW x \in Role PROVE PartOK(x)'
      OBVIOUS
    <2>1. CASE x = r
      BY <2>1, <1>3 DEF PartOK
    <2>2. CASE x # r
      <3>1. PartOK(x)
        BY DEF SInv, OfferInv
      <3> QED
        BY <3>1, <2>2, <1>1, <1>3, PartFrame DEF net
    <2> QED
      BY <2>1, <2>2
  <1>6. SecretInv'
    BY <1>1, SecretFrame DEF SInv, net
  <1> QED
    BY <1>1, <1>4, <1>5, <1>6, QuietMessages

\* round1 makes the only offer of the session.
LEMMA Round1Messages ==
    ASSUME SInv, TypeOK', NEW r \in Role, Round1(r)
    PROVE  MessageInv'
  <1>1. PICK coin, m :
          /\ coin \in PartTxs(r)
          /\ part' = [part EXCEPT ![r] = <<coin>>]
          /\ net1' = net1 \cup {m}
          /\ m.from = r /\ m.p_a = tik[r]["p"].pub /\ m.dep_part_psbt.coin = coin
          /\ m.dep_part_psbt.amount = FundedByMe(terms[r], r)
    <2> DEFINE msg(coin) == [from |-> r, p_a |-> tik[r]["p"].pub, q_a |-> tik[r]["q"].pub,
                dep_part_psbt |-> [coin |-> coin, amount |-> FundedByMe(terms[r], r)],
                swap_script |-> IF r = "Seller" THEN Wallet(r) ELSE <<>>,
                spend |-> Wallet(r)]
    <2>1. PICK coin \in PartTxs(r) : part' = [part EXCEPT ![r] = <<coin>>]
                                     /\ net1' = net1 \cup {msg(coin)}
      BY DEF Round1
    <2>2. /\ msg(coin).from = r /\ msg(coin).p_a = tik[r]["p"].pub
          /\ msg(coin).dep_part_psbt.coin = coin
          /\ msg(coin).dep_part_psbt.amount = FundedByMe(terms[r], r)
      OBVIOUS
    <2> HIDE DEF msg
    <2> QED
      BY <2>1, <2>2
  <1>2. /\ round[r] = 0 /\ round' = [round EXCEPT ![r] = 1]
        /\ UNCHANGED <<terms, session, failed, tik, txs, musig, net2, net3, net4, signed>>
    BY DEF Round1, CheckRound, Enter
  <1>3. round \in [Role -> 0 .. 5] /\ session[r] \in Session /\ DOMAIN part = Role
    BY DEF SInv, IInv, TypeOK
  <1>4. \A x \in Role : Kept(x)
    <2>1. \A x \in Role : round'[x] >= round[x]
      BY <1>2, <1>3
    <2> QED
      BY <2>1, <1>2, KeptFrame
  <1>5. /\ \A n \in net1 : OfferOK(n)'
        /\ \A n \in net2 : AnnounceOK(n)'
        /\ \A n \in net3 : PartialsOK(n)'
        /\ \A n \in net4 : SwapOK(n)'
    BY <1>2, <1>4, OldMessages
  <1>6. m.p_a.session = session[r]
    <2>1. tik[r]["p"].pub = NewPoint("p", r, session[r])
      BY DEF SInv, IInv, KeyInv, Tik
    <2> QED
      BY <2>1, <1>1 DEF NewPoint
  <1>7. OfferOK(m)'
    <2>1. coin \in CoinsOf(r)
      BY <1>1, <1>3, CoinsAssumption DEF PartTxs, CoinsOf
    <2>2. round'[r] >= 1
      BY <1>2, <1>3
    <2> QED
      BY <1>1, <1>2, <2>1, <2>2 DEF OfferOK
  <1>8. \A n \in net1 : n.from # r \/ n.p_a.session # session[r]
    BY <1>2 DEF SInv, OfferInv, OfferOK
  <1>9. OneOffer'
    BY <1>1, <1>6, <1>8 DEF SInv, OfferInv, OneOffer
  <1>10. \A x \in Role : PartOK(x)'
    <2> SUFFICES ASSUME NEW x \in Role PROVE PartOK(x)'
      OBVIOUS
    <2>1. CASE x = r
      <3>1. part'[r] = <<m.dep_part_psbt.coin>> /\ Offer(m, r, session'[r], net1')
        BY <1>1, <1>2, <1>3, <1>6 DEF Offer
      <3> QED
        BY <3>1, <2>1, <1>1 DEF PartOK, Offer
    <2>2. CASE x # r
      <3>1. PartOK(x)
        BY DEF SInv, OfferInv
      <3> QED
        BY <3>1, <2>2, <1>1, <1>2, <1>3, PartFrame
    <2> QED
      BY <2>1, <2>2
  <1>11. SecretInv'
    BY <1>2, SecretFrame DEF SInv
  <1>12. OfferInv'
    BY <1>1, <1>5, <1>7, <1>9, <1>10 DEF OfferInv
  <1> QED
    BY <1>2, <1>5, <1>11, <1>12 DEF MessageInv, AnnounceInv, PartialsInv, SwapInv

\* round2 announces the nonces of the session.
LEMMA Round2Messages ==
    ASSUME SInv, TypeOK', NEW r \in Role, NEW m \in From(net1, Other(r)), Round2(r, m)
    PROVE  MessageInv'
  <1>1. PICK msg : /\ net2' = net2 \cup {msg} /\ msg.from = r
                   /\ \A c \in Ctx : msg.nonces[c] = musig'[r][c].pub_nonce
    <2> DEFINE keys == [t \in Tik |-> Aggregate(tik[r][t], IF t = "p" THEN m.p_a ELSE m.q_a)]
               sigs == [c \in Ctx |-> NewMuSig(r, keys[CtxTik(r, c)], c)]
               built == BuildTxs(r, m, keys["p"].agg, keys["q"].agg)
               sent == [from |-> r, p_agg |-> keys["p"].agg, q_agg |-> keys["q"].agg,
                        deposit_tx_signed |-> built["deposit"],
                        nonces |-> [c \in Ctx |-> sigs[c].pub_nonce]]
    <2>1. net2' = net2 \cup {sent} /\ musig' = [musig EXCEPT ![r] = sigs]
      BY DEF Round2
    <2>2. musig'[r] = sigs
      BY <2>1 DEF SInv, IInv, TypeOK
    <2>3. sent.from = r /\ \A c \in Ctx : sent.nonces[c] = sigs[c].pub_nonce
      OBVIOUS
    <2> HIDE DEF sent, sigs
    <2> QED
      BY <2>1, <2>2, <2>3
  <1>2. /\ round[r] = 1 /\ ~failed[r] /\ round' = [round EXCEPT ![r] = 2]
        /\ part' = [part EXCEPT ![r] = <<>>]
        /\ UNCHANGED <<terms, session, failed, net1, net3, net4, signed>>
    BY DEF Round2, CheckRound, Enter
  <1>3. round \in [Role -> 0 .. 5] /\ DOMAIN part = Role /\ DOMAIN tik = Role /\ DOMAIN musig = Role
    BY DEF SInv, IInv, TypeOK
  <1>4. \A x \in Role : x # r => /\ tik'[x] = tik[x] /\ musig'[x] = musig[x]
                                 /\ part'[x] = part[x] /\ round'[x] = round[x]
    <2>1. \A x \in Role : x # r => tik'[x] = tik[x] /\ musig'[x] = musig[x]
      BY <1>3 DEF Round2
    <2> QED
      BY <2>1, <1>2, <1>3
  <1>5. /\ Built(r)'
        /\ \A c \in Ctx : musig'[r][c].pub_nonce = NewNonce(c, r, session[r])
        /\ tik'[r]["p"].agg_sec = tik[r]["p"].agg_sec
    BY Round2Trader DEF Tik
  <1>6. ~HasSigned(r) /\ ~Built(r)
    BY <1>2 DEF SInv, IInv, StageInv
  <1>7. \A x \in Role : Kept(x)
    <2> SUFFICES ASSUME NEW x \in Role PROVE Kept(x)
      OBVIOUS
    <2>1. CASE x = r
      <3>1. musig[r]["swap"].stage # "final"
        BY <1>6 DEF HasSigned
      <3>2. round'[r] >= round[r]
        BY <1>2, <1>3
      <3> QED
        BY <2>1, <3>1, <3>2, <1>2, <1>6 DEF Kept
    <2>2. CASE x # r
      <3>1. round'[x] >= round[x]
        BY <2>2, <1>2, <1>3
      <3> QED
        BY <2>2, <3>1, <1>2, <1>4, KeptFrame
    <2> QED
      BY <2>1, <2>2
  <1>8. /\ \A n \in net1 : OfferOK(n)'
        /\ \A n \in net2 : AnnounceOK(n)'
        /\ \A n \in net3 : PartialsOK(n)'
        /\ \A n \in net4 : SwapOK(n)'
    BY <1>2, <1>7, OldMessages
  <1>9. AnnounceOK(msg)'
    <2>1. Own(msg) = session[r]
      BY <1>1, <1>5 DEF Own, Ctx, NewNonce
    <2> QED
      BY <2>1, <1>1, <1>5 DEF AnnounceOK, Own
  <1>10. \A x \in Role : PartOK(x)'
    <2> SUFFICES ASSUME NEW x \in Role PROVE PartOK(x)'
      OBVIOUS
    <2>1. CASE x = r
      <3>1. round'[x] = 2
        BY <2>1, <1>2, <1>3
      <3> QED
        BY <3>1 DEF PartOK
    <2>2. CASE x # r
      <3>1. PartOK(x)
        BY DEF SInv, OfferInv
      <3> QED
        BY <3>1, <2>2, <1>2, <1>4, PartFrame
    <2> QED
      BY <2>1, <2>2
  <1>11. SecretInv'
    <2>1. CASE r = "Buyer"
      <3>1. tik'["Buyer"]["p"].agg_sec = <<>>
        BY <2>1, <1>5, <1>6, NoSecretYet
      <3> QED
        BY <3>1 DEF SecretInv
    <2>2. CASE r # "Buyer"
      BY <2>2, <1>2, <1>4, SecretFrame DEF SInv, Role
    <2> QED
      BY <2>1, <2>2
  <1>12. OneOffer'
    BY <1>2 DEF SInv, OfferInv, OneOffer
  <1> QED
    BY <1>1, <1>2, <1>8, <1>9, <1>10, <1>11, <1>12
       DEF MessageInv, OfferInv, AnnounceInv, PartialsInv, SwapInv

\* round3 sends halves that are signed with the nonces of the session.
LEMMA Round3Messages ==
    ASSUME SInv, TypeOK', NEW r \in Role, NEW m \in From(net2, Other(r)), Round3(r, m)
    PROVE  MessageInv'
  <1>1. PICK sent : /\ net3' = net3 \cup {sent} /\ sent.from = r
                    /\ \A c \in SentCtx : /\ sent.part_sigs[c] = PartialMade(musig'[r][c])
                                          /\ sent.part_sigs[c] \in signed'
                                          /\ sent.part_sigs[c].nonce = NewNonce(c, r, session[r])
    BY Round3Trader
  <1>2. /\ round[r] = 2 /\ round' = [round EXCEPT ![r] = 3]
        /\ UNCHANGED <<terms, session, failed, tik, part, net1, net2, net4>>
        /\ signed \subseteq signed'
        /\ \A x \in Role : x # r => musig'[x] = musig[x]
    BY DEF Round3, CheckRound, Enter, SInv, IInv, TypeOK
  <1>3. round \in [Role -> 0 .. 5] /\ session[r] \in Session /\ session[r] <= session[r]
    BY BoundAssumption DEF SInv, IInv, TypeOK, Session
  <1>4. ~HasSigned(r) /\ HasSigned(r)'
    BY <1>2, Round3Trader DEF SInv, IInv, StageInv
  <1>5. \A x \in Role : Kept(x)
    <2> SUFFICES ASSUME NEW x \in Role PROVE Kept(x)
      OBVIOUS
    <2>1. round'[x] >= round[x]
      BY <1>2, <1>3
    <2>2. CASE x = r
      <3>1. musig[r]["swap"].stage # "final"
        BY <1>4 DEF HasSigned
      <3> QED
        BY <2>1, <2>2, <3>1, <1>2, <1>4 DEF Kept, Built
    <2>3. CASE x # r
      BY <2>1, <2>3, <1>2, KeptFrame
    <2> QED
      BY <2>2, <2>3
  <1>6. /\ \A n \in net1 : OfferOK(n)'
        /\ \A n \in net2 : AnnounceOK(n)'
        /\ \A n \in net3 : PartialsOK(n)'
        /\ \A n \in net4 : SwapOK(n)'
    BY <1>2, <1>5, OldMessages
  <1>7. PartialsOK(sent)'
    <2>1. PartialsOf(sent, session[r])'
      BY <1>1, <1>2 DEF PartialsOf
    <2>2. \A c \in SentCtx : sent.part_sigs[c] = PartialMade(musig[sent.from][c])'
      BY <1>1 DEF PartialMade
    <2> QED
      BY <2>1, <2>2, <1>1, <1>2, <1>3, <1>4 DEF PartialsOK
  <1>8. \A x \in Role : PartOK(x)'
    <2> SUFFICES ASSUME NEW x \in Role PROVE PartOK(x)'
      OBVIOUS
    <2>1. CASE x = r
      <3>1. round'[x] = 3
        BY <2>1, <1>2, <1>3
      <3> QED
        BY <3>1 DEF PartOK
    <2>2. CASE x # r
      <3>1. PartOK(x)
        BY DEF SInv, OfferInv
      <3> QED
        BY <3>1, <2>2, <1>2, <1>3, PartFrame
    <2> QED
      BY <2>1, <2>2
  <1>9. SecretInv' /\ OneOffer'
    BY <1>2, SecretFrame DEF SInv, OfferInv, OneOffer
  <1> QED
    BY <1>1, <1>2, <1>6, <1>7, <1>8, <1>9
       DEF MessageInv, OfferInv, AnnounceInv, PartialsInv, SwapInv

\* round4 of the seller sends the SwapTx with the signature he completed.
LEMMA Round4Messages ==
    ASSUME SInv, TypeOK', NEW r \in Role, NEW m \in From(net3, Other(r)), Round4(r, m)
    PROVE  MessageInv'
  <1>1. PICK sent : /\ net4' = net4 \cup {sent} /\ sent.from = r
                    /\ r = "Seller" => /\ sent.swap_onchain # <<>>
                                       /\ sent.swap_onchain[1].sig = SigOf(musig[r]["swap"])
    <2> DEFINE msg == [from |-> r,
            swap_onchain |-> IF r = "Seller"
                             THEN << [tx |-> txs[r]["swap"], sig |-> SigOf(musig[r]["swap"])] >>
                             ELSE <<>>]
    <2>1. net4' = net4 \cup {msg}
      BY DEF Round4
    <2>2. msg.from = r /\ (r = "Seller" => /\ msg.swap_onchain # <<>>
                                           /\ msg.swap_onchain[1].sig = SigOf(musig[r]["swap"]))
      OBVIOUS
    <2> HIDE DEF msg
    <2> QED
      BY <2>1, <2>2
  <1>2. /\ round[r] = 3 /\ round' = [round EXCEPT ![r] = 4]
        /\ UNCHANGED <<terms, session, failed, tik, part, net1, net2, net3, signed>>
    BY DEF Round4, CheckRound, Enter
  <1>3. /\ HasSigned(r) /\ HasSigned(r)' /\ Built(r)
        /\ musig'[r]["swap"].stage = StageAfterRound4(r, "swap")
        /\ \A c \in Ctx : PartialMade(musig'[r][c]) = PartialMade(musig[r][c])
        /\ SigOf(musig'[r]["swap"]) = SigOf(musig[r]["swap"])
        /\ \A x \in Role : x # r => musig'[x] = musig[x]
    BY Round4Trader DEF Ctx
  <1>4. round \in [Role -> 0 .. 5] /\ session[r] \in Session /\ session[r] <= session[r]
        /\ TraderInv(r)
    BY BoundAssumption DEF SInv, IInv, TypeOK, Session
  <1>5. PICK o \in Session : InTrade(r, session[r], tik[r], txs[r], musig[r], net1, signed, o)
    BY <1>3, <1>4, BuiltInTrade
  <1>6. \A x \in Role : Kept(x)
    <2> SUFFICES ASSUME NEW x \in Role PROVE Kept(x)
      OBVIOUS
    <2>1. round'[x] >= round[x]
      BY <1>2, <1>4
    <2>2. CASE x = r
      <3>1. musig[r]["swap"].stage = "final" => musig'[r]["swap"].stage = "final"
        <4>1. "swap" \in Ctx
          BY DEF Ctx
        <4>2. CtxSigned(r, "swap", session[r], tik[r], txs[r], musig[r]["swap"], signed, o)
          BY <4>1, <1>3, <1>5, SignedInTrade DEF HasSigned
        <4> QED
          BY <4>2, <1>3 DEF CtxSigned
      <3> QED
        BY <2>1, <2>2, <3>1, <1>2, <1>3 DEF Kept, Built
    <2>3. CASE x # r
      BY <2>1, <2>3, <1>2, <1>3, KeptFrame
    <2> QED
      BY <2>2, <2>3
  <1>7. /\ \A n \in net1 : OfferOK(n)'
        /\ \A n \in net2 : AnnounceOK(n)'
        /\ \A n \in net3 : PartialsOK(n)'
        /\ \A n \in net4 : SwapOK(n)'
    BY <1>2, <1>6, OldMessages
  <1>8. SwapOK(sent)'
    <2> SUFFICES ASSUME r = "Seller" PROVE SwapOK(sent)'
      BY <1>1 DEF SwapOK
    <2>1. sent.swap_onchain[1].sig.key = AggPoint(NewPoint("q", "Seller", session[r]),
                                                  NewPoint("q", "Buyer", o))
      <3>1. CtxReady(r, "swap", session[r], tik[r], musig[r]["swap"])
            /\ KeysWith(r, session[r], tik[r], o)
        BY <1>5 DEF InTrade, Ctx
      <3>2. musig[r]["swap"].key = tik[r]["q"].agg
        BY <3>1 DEF CtxReady, CtxTik
      <3>3. SigOf(musig[r]["swap"]).key = musig[r]["swap"].key
        BY DEF SigOf, AggSig
      <3> QED
        BY <3>1, <3>2, <3>3, <1>1 DEF KeysWith, Tik, Other
    <2>2. musig'["Seller"]["swap"].stage = "final"
      BY <1>3 DEF StageAfterRound4
    <2>3. SwapOf(sent, session[r], o)'
      BY <1>1, <1>2, <2>1 DEF SwapOf
    <2>4. sent.swap_onchain[1].sig = SigOf(musig["Seller"]["swap"])'
      BY <1>1, <1>3 DEF SigOf
    <2> QED
      BY <2>2, <2>3, <2>4, <1>2, <1>4 DEF SwapOK
  <1>9. \A x \in Role : PartOK(x)'
    <2> SUFFICES ASSUME NEW x \in Role PROVE PartOK(x)'
      OBVIOUS
    <2>1. CASE x = r
      <3>1. round'[x] = 4
        BY <2>1, <1>2, <1>4
      <3> QED
        BY <3>1 DEF PartOK
    <2>2. CASE x # r
      <3>1. PartOK(x)
        BY DEF SInv, OfferInv
      <3> QED
        BY <3>1, <2>2, <1>2, <1>4, PartFrame
    <2> QED
      BY <2>1, <2>2
  <1>10. SecretInv' /\ OneOffer'
    BY <1>1, <1>2, SecretFrame DEF SInv, OfferInv, OneOffer
  <1> QED
    BY <1>1, <1>2, <1>7, <1>8, <1>9, <1>10
       DEF MessageInv, OfferInv, AnnounceInv, PartialsInv, SwapInv

\* round5 sends nothing.
LEMMA Round5Messages ==
    ASSUME SInv, TypeOK', NEW r \in Role, NEW m \in From(net4, Other(r)), Round5(r, m)
    PROVE  MessageInv'
  <1>1. /\ round[r] = 4 /\ round' = [round EXCEPT ![r] = 5]
        /\ UNCHANGED <<terms, session, failed, part, musig, net, signed>>
    BY DEF Round5, CheckRound, Enter
  <1>2. SecretInv' /\ \A x \in Role, t \in Tik : tik'[x][t].agg = tik[x][t].agg
    BY Round5Trader
  <1>3. round \in [Role -> 0 .. 5]
    BY DEF SInv, IInv, TypeOK
  <1>4. \A x \in Role : Kept(x)
    <2> SUFFICES ASSUME NEW x \in Role PROVE Kept(x)
      OBVIOUS
    <2>1. round'[x] >= round[x] /\ (Built(x) => Built(x)') /\ (HasSigned(x) => HasSigned(x)')
      BY <1>1, <1>2, <1>3 DEF Built, HasSigned, Tik
    <2> QED
      BY <2>1, <1>1 DEF Kept
  <1>5. \A x \in Role : PartOK(x)'
    <2> SUFFICES ASSUME NEW x \in Role PROVE PartOK(x)'
      OBVIOUS
    <2>1. CASE x = r
      <3>1. round'[x] = 5
        BY <2>1, <1>1, <1>3
      <3> QED
        BY <3>1 DEF PartOK
    <2>2. CASE x # r
      <3>1. PartOK(x)
        BY DEF SInv, OfferInv
      <3> QED
        BY <3>1, <2>2, <1>1, <1>3, PartFrame DEF net
    <2> QED
      BY <2>1, <2>2
  <1> QED
    BY <1>1, <1>2, <1>4, <1>5, QuietMessages

\* A restart sends nothing, and no message names the new session.
LEMMA RestartMessages ==
    ASSUME SInv, TypeOK', NEW r \in Role, Restart(r)
    PROVE  MessageInv'
  <1>1. /\ session'[r] = session[r] + 1 /\ round'[r] = 0 /\ tik'[r] = NewTik(r, session[r] + 1)
        /\ \A x \in Role : x # r => /\ session'[x] = session[x] /\ round'[x] = round[x]
                                    /\ failed'[x] = failed[x] /\ tik'[x] = tik[x]
                                    /\ part'[x] = part[x] /\ musig'[x] = musig[x]
        /\ UNCHANGED <<terms, net, signed>>
    BY DEF Restart, SInv, IInv, TypeOK
  <1>2. round \in [Role -> 0 .. 5]
    BY DEF SInv, IInv, TypeOK
  <1>3. \A x \in Role : Kept(x)
    <2> SUFFICES ASSUME NEW x \in Role PROVE Kept(x)
      OBVIOUS
    <2>1. CASE x = r
      BY <2>1, <1>1 DEF Kept
    <2>2. CASE x # r
      <3>1. round'[x] >= round[x]
        BY <2>2, <1>1, <1>2
      <3> QED
        BY <2>2, <3>1, <1>1, KeptFrame
    <2> QED
      BY <2>1, <2>2
  <1>4. \A x \in Role : PartOK(x)'
    <2> SUFFICES ASSUME NEW x \in Role PROVE PartOK(x)'
      OBVIOUS
    <2>1. CASE x = r
      BY <2>1, <1>1 DEF PartOK
    <2>2. CASE x # r
      <3>1. PartOK(x)
        BY DEF SInv, OfferInv
      <3> QED
        BY <3>1, <2>2, <1>1, PartFrame DEF net
    <2> QED
      BY <2>1, <2>2
  <1>5. SecretInv'
    <2>1. CASE r = "Buyer"
      <3>1. tik'["Buyer"]["p"].agg_sec = <<>>
        BY <2>1, <1>1 DEF NewTik, NewAggKey, Tik
      <3> QED
        BY <3>1 DEF SecretInv
    <2>2. CASE r # "Buyer"
      BY <2>2, <1>1, SecretFrame DEF SInv, Role, net
    <2> QED
      BY <2>1, <2>2
  <1> QED
    BY <1>1, <1>3, <1>4, <1>5, QuietMessages

\* The node and the miners send nothing.
LEMMA ChainMessages ==
    ASSUME SInv, TypeOK', UNCHANGED <<terms, sessionVars, net, signed>>
    PROVE  MessageInv'
  <1>1. UNCHANGED <<terms, session, round, failed, tik, part, musig, net1, net, signed>>
    BY DEF sessionVars, net
  <1>2. round \in [Role -> 0 .. 5]
    BY DEF SInv, IInv, TypeOK
  <1>3. \A x \in Role : Kept(x)
    BY <1>1, <1>2, KeptFrame
  <1>4. \A x \in Role : PartOK(x)'
    BY <1>1, PartFrame DEF SInv, OfferInv
  <1>5. SecretInv'
    BY <1>1, SecretFrame DEF SInv, net
  <1> QED
    BY <1>1, <1>3, <1>4, <1>5, QuietMessages

-----------------------------------------------------------------------------
(* Whatever spends an aggregated key was signed by its owners.             *)

\* The owners of every prevout of tx that is locked by key shares have signed
\* for it.
Authorised(tx, sigs) ==
    \A i \in 1 .. Len(tx.ins) :
        \A owner \in Owners(tx.ins[i]) \cap Point : SignedBy(owner, Msg(tx, i - 1), sigs)

\* tx is the buyer's spend of an output whose key was completed for him.
Licensed(tx) == \E op : GivenAway(op) /\ tx = BuildKeySpend(op, Wallet("Buyer"))

\* A wallet coin is not locked by a key share.
LEMMA CoinScript ==
    ASSUME NEW r \in Role, NEW op \in CoinsOf(r)
    PROVE  /\ Prevout(op).script = Wallet(r)
           /\ \A owner \in { Wallet(r)[k] : k \in 1 .. Len(Wallet(r)) } : owner \notin Point
  <1>1. PICK i \in 1 .. Coins[r] : op = OutPoint(FundingTx(r), i)
    BY DEF CoinsOf
  <1>2. Prevout(op) = FundingTx(r).outs[i]
    BY <1>1 DEF Prevout, OutPoint
  <1>3. Prevout(op).script = Wallet(r)
    BY <1>1, <1>2 DEF FundingTx, Out
  <1>4. ASSUME NEW owner \in { Wallet(r)[k] : k \in 1 .. Len(Wallet(r)) }
        PROVE  owner \notin Point
    <2>1. owner = [tik |-> "wallet", role |-> r, session |-> 0]
      BY <1>4 DEF Wallet
    <2>2. owner.tik = "wallet"
      BY <2>1
    <2> QED
      BY <2>2 DEF Point, Tik
  <1> QED
    BY <1>3, <1>4

\* The coins of the two wallets are different ones.
LEMMA DistinctCoins ==
    /\ \A z \in Role : \A op \in CoinsOf(z) : op.tx = FundingTx(z)
    /\ FundingTx("Seller") # FundingTx("Buyer")
  <1>1. \A z \in Role : FundingTx(z).outs[1].script = Wallet(z)
    BY CoinsAssumption DEF FundingTx, Out
  <1>2. Wallet("Seller") # Wallet("Buyer")
    <2>1. Wallet("Seller")[1].role = "Seller" /\ Wallet("Buyer")[1].role = "Buyer"
      BY DEF Wallet
    <2> QED
      BY <2>1
  <1>3. FundingTx("Seller") # FundingTx("Buyer")
    BY <1>1, <1>2 DEF Role
  <1> QED
    BY <1>3 DEF CoinsOf, OutPoint

\* The deposit of a trade spends two coins, one of each trader.
LEMMA DepositInputs ==
    ASSUME SInv, NEW r \in Role, NEW s, NEW o, NEW dep, DepositOf(r, s, dep, net1, o)
    PROVE  \E a \in CoinsOf("Seller"), b \in CoinsOf("Buyer") : dep.ins = <<a, b>>
  <1>1. PICK mine \in net1, theirs \in net1 :
          /\ mine.from = r /\ theirs.from = Other(r)
          /\ dep.ins = SortIns(mine.dep_part_psbt.coin, theirs.dep_part_psbt.coin)
    BY DEF DepositOf, Offer
  <1> DEFINE x == mine.dep_part_psbt.coin
             y == theirs.dep_part_psbt.coin
  <1>2. x \in CoinsOf(r) /\ y \in CoinsOf(Other(r))
    BY <1>1 DEF SInv, OfferInv, OfferOK
  <1>3. dep.ins = SortIns(x, y)
    BY <1>1
  <1> HIDE DEF x, y
  <1>4. FundingTx("Seller") # FundingTx("Buyer")
    BY DistinctCoins
  <1>5. \A z \in Role : \A op \in CoinsOf(z) : op.tx = FundingTx(z)
    BY DistinctCoins
  <1>6. CASE r = "Seller"
    <2>1. y \in CoinsOf("Buyer") /\ x \in CoinsOf("Seller") /\ x.tx = FundingTx("Seller")
      BY <1>2, <1>5, <1>6 DEF Other, Role
    <2>2. dep.ins = <<x, y>>
      BY <1>3, <2>1 DEF SortIns
    <2> QED
      BY <2>1, <2>2
  <1>7. CASE r = "Buyer"
    <2>1. y \in CoinsOf("Seller") /\ x \in CoinsOf("Buyer") /\ x.tx # FundingTx("Seller")
      BY <1>2, <1>4, <1>5, <1>7 DEF Other, Role
    <2>2. dep.ins = <<y, x>>
      BY <1>3, <2>1 DEF SortIns
    <2> QED
      BY <2>1, <2>2
  <1> QED
    BY <1>6, <1>7 DEF Role

\* The DepositTx needs no signature of an aggregated key.
LEMMA DepositAuthorised ==
    ASSUME SInv, NEW r \in Role, Built(r)
    PROVE  Authorised(txs[r]["deposit"], signed)
  <1> DEFINE dep == txs[r]["deposit"]
  <1>1. PICK a \in CoinsOf("Seller"), b \in CoinsOf("Buyer") : dep.ins = <<a, b>>
    <2>1. TraderInv(r) /\ session[r] \in Session
      BY DEF SInv, IInv, TypeOK
    <2>2. PICK o \in Session : DepositOf(r, session[r], dep, net1, o)
      BY <2>1, BuiltInTrade DEF InTrade
    <2> QED
      BY <2>2, DepositInputs
  <1> HIDE DEF dep
  <1> SUFFICES ASSUME NEW i \in 1 .. Len(dep.ins), NEW owner \in Owners(dep.ins[i])
               PROVE  owner \notin Point
    BY DEF Authorised, dep
  <1>2. dep.ins[i] \in CoinsOf("Seller") \/ dep.ins[i] \in CoinsOf("Buyer")
    BY <1>1
  <1>3. PICK z \in Role : dep.ins[i] \in CoinsOf(z)
    BY <1>2 DEF Role
  <1>4. Prevout(dep.ins[i]).script = Wallet(z)
    BY <1>3, CoinScript
  <1> QED
    BY <1>3, <1>4, CoinScript DEF Owners

\* A complete witness: both owners of the key have signed.
LEMMA WitnessAuthorised ==
    ASSUME SInv, NEW r \in Role, NEW n \in Broadcastable, WitnessValid(r, n)
    PROVE  Authorised(txs[r][n], signed)
  <1> DEFINE tx == txs[r][n]
  <1> SUFFICES ASSUME NEW i \in 1 .. Len(tx.ins), NEW owner \in Owners(tx.ins[i])
               PROVE  SignedBy(owner, Msg(tx, i - 1), signed)
    BY DEF Authorised
  <1> DEFINE c == WitnessCtx(n)[i]
  <1>1. /\ c \in Ctx /\ musig[r][c].stage = "final"
        /\ musig[r][c].key = Prevout(tx.ins[i]).script
        /\ musig[r][c].msg = Msg(tx, i - 1)
    <2>1. Len(WitnessCtx(n)) = Len(tx.ins) /\ HasWitness(r, n)
      BY DEF WitnessValid
    <2>2. i \in 1 .. Len(WitnessCtx(n))
      BY <2>1
    <2>3. \A j \in 1 .. Len(WitnessCtx(n)) : WitnessCtx(n)[j] \in Ctx
      BY DEF WitnessCtx, Broadcastable, Ctx
    <2> QED
      BY <2>1, <2>2, <2>3 DEF WitnessValid, HasWitness
  <1> HIDE DEF c
  <1>2. session[r] \in Session /\ TraderInv(r)
    BY DEF SInv, IInv, TypeOK
  <1>3. PICK o \in Session : InTrade(r, session[r], tik[r], txs[r], musig[r], net1, signed, o)
    <2>1. Built(r)
      BY <1>1, <1>2, BuiltInTrade
    <2> QED
      BY <1>2, <2>1, BuiltInTrade
  <1>4. CtxSigned(r, c, session[r], tik[r], txs[r], musig[r][c], signed, o)
    BY <1>1, <1>3, SignedInTrade
  <1>5. CtxReady(r, c, session[r], tik[r], musig[r][c]) /\ KeysWith(r, session[r], tik[r], o)
    BY <1>1, <1>3 DEF InTrade
  <1> DEFINE key == tik[r][CtxTik(r, c)]
  <1>6. SignedBy(key.pub, Msg(tx, i - 1), signed) /\ SignedBy(key.other, Msg(tx, i - 1), signed)
    BY <1>1, <1>4 DEF CtxSigned
  <1>7. owner \in {key.pub, key.other}
    <2>1. Prevout(tx.ins[i]).script = AggPoint(key.pub, key.other)
      BY <1>1, <1>5, CtxTikType DEF CtxReady, KeysWith
    <2> HIDE DEF tx, key
    <2> QED
      BY <2>1 DEF AggPoint, Owners
  <1> QED
    BY <1>6, <1>7

\* The buyer can sign for P' alone only after the seller's round 4.
LEMMA KeySpendLicensed ==
    ASSUME SInv, SpendWithKey
    PROVE  \E tx : /\ Licensed(tx) /\ Accepts(tx) /\ tx.ins[1].tx \in Known
                   /\ tx.ins[1] = OutPoint(tx.ins[1].tx, tx.ins[1].vout)
                   /\ tx.ins[1].vout \in 1 .. Len(tx.ins[1].tx.outs)
                   /\ tx = BuildKeySpend(tx.ins[1], Wallet("Buyer"))
                   /\ Prevout(tx.ins[1]).script = tik["Buyer"]["p"].agg
                   /\ GivenAway(tx.ins[1])
                   /\ mempool' = mempool \cup {tx}
                   /\ UNCHANGED <<terms, sessionVars, net, signed, depth>>
  <1>1. tik["Buyer"]["p"].agg_sec # <<>> /\ "Buyer" \in Role /\ "p" \in Tik
    BY DEF SpendWithKey, Role, Tik
  <1>2. PICK parent \in Known : \E x \in KeySpendsOf(parent) :
          /\ Prevout(x.ins[1]).script = tik["Buyer"]["p"].agg_sec
          /\ Accepts(x) /\ mempool' = mempool \cup {x}
    BY DEF SpendWithKey
  <1>3. PICK i \in 1 .. Len(parent.outs) :
          LET x == BuildKeySpend(OutPoint(parent, i), Wallet("Buyer"))
          IN  /\ Prevout(x.ins[1]).script = tik["Buyer"]["p"].agg_sec
              /\ Accepts(x) /\ mempool' = mempool \cup {x}
    BY <1>2 DEF KeySpendsOf
  <1> DEFINE op == OutPoint(parent, i)
             tx == BuildKeySpend(op, Wallet("Buyer"))
  <1>4. tx.ins[1] = op /\ op.tx = parent /\ op.vout = i
    BY DEF BuildKeySpend, OutPoint
  <1>5. Prevout(op).script = tik["Buyer"]["p"].agg
    BY <1>1, <1>3, <1>4 DEF SInv, SecretInv
  <1>6. PICK m \in net4 : /\ m.swap_onchain # <<>>
                          /\ m.swap_onchain[1].sig.adaptor = << tik["Buyer"]["p"].other >>
    BY <1>1 DEF SInv, SecretInv
  <1>7. tik["Buyer"]["p"].other \in Owners(op)
    <2>1. Built("Buyer") /\ TraderInv("Buyer") /\ session["Buyer"] \in Session
      BY <1>1, NoSecretYet DEF SInv, IInv, TypeOK
    <2>2. PICK o \in Session : KeysWith("Buyer", session["Buyer"], tik["Buyer"], o)
      BY <1>1, <2>1, BuiltInTrade DEF InTrade
    <2>3. Prevout(op).script = AggPoint(tik["Buyer"]["p"].pub, tik["Buyer"]["p"].other)
      BY <1>1, <1>5, <2>2 DEF KeysWith
    <2> HIDE DEF op
    <2> QED
      BY <2>3 DEF AggPoint, Owners
  <1>8. GivenAway(op)
    BY <1>6, <1>7 DEF GivenAway
  <1>9. /\ Licensed(tx) /\ Accepts(tx) /\ tx = BuildKeySpend(op, Wallet("Buyer"))
        /\ mempool' = mempool \cup {tx}
        /\ op = OutPoint(op.tx, op.vout) /\ op.tx \in Known /\ op.vout \in 1 .. Len(op.tx.outs)
        /\ UNCHANGED <<terms, sessionVars, net, signed, depth>>
    BY <1>3, <1>4, <1>8 DEF Licensed, SpendWithKey
  <1> HIDE DEF op, tx
  <1> QED
    BY <1>4, <1>5, <1>8, <1>9

\* What round 4 has sent is never taken back.
LEMMA SwapsSent ==
    ASSUME [Next]_vars
    PROVE  net4 \subseteq net4'
  <1>1. ASSUME NEW r \in Role, NEW k, Fail(r, k) PROVE net4' = net4
    BY <1>1 DEF Fail, net
  <1>2. ASSUME NEW r \in Role, NEW m, Round4(r, m) PROVE net4 \subseteq net4'
    BY <1>2 DEF Round4
  <1>3. ASSUME NEW r \in Role, NEW m, NEW n,
               \/ Round1(r) \/ Round2(r, m) \/ Round3(r, m) \/ Round5(r, m)
               \/ Broadcast(r, n) \/ Restart(r)
        PROVE  net4' = net4
    BY <1>3 DEF Round1, Round2, Round3, Round5, Broadcast, Restart, net
  <1>4. ASSUME NEW r \in Role, NEW m,
               \/ WalletFails(r) \/ Round2Panics(r, m) \/ Round3Panics(r, m)
               \/ Round3BroadcastFails(r, m) \/ Round4Panics(r, m) \/ Round5Panics(r, m)
        PROVE  net4' = net4
    BY <1>1, <1>4 DEF WalletFails, Round2Panics, Round3Panics, Round3BroadcastFails, Round4Panics,
                      Round5Panics
  <1>5. ASSUME Mine \/ SpendWithKey \/ UNCHANGED vars PROVE net4' = net4
    BY <1>5 DEF Mine, SpendWithKey, vars, net
  <1> QED
    BY <1>2, <1>3, <1>4, <1>5 DEF Next

\* Transactions that were authorised stay so, and so do keys given away: a step
\* that adds only such transactions keeps the property.
LEMMA TwoOfTwoStep ==
    ASSUME TwoOfTwo, signed \subseteq signed', net4 \subseteq net4',
           \A tx \in Known' : tx \in Known \/ Authorised(tx, signed) \/ Licensed(tx)
    PROVE  TwoOfTwo'
  <1>1. \A tx \in Known : Authorised(tx, signed) \/ Licensed(tx)
    BY DEF TwoOfTwo, Authorised, Licensed, SignedBy
  <1>2. \A tx \in Known' : Authorised(tx, signed) \/ Licensed(tx)
    BY <1>1
  <1>3. ASSUME NEW tx \in Known', Authorised(tx, signed)
        PROVE  Authorised(tx, signed')
    BY <1>3 DEF Authorised, SignedBy
  <1>4. ASSUME NEW tx \in Known', Licensed(tx)
        PROVE  \A i \in 1 .. Len(tx.ins) :
                  GivenAway(tx.ins[i])' /\ tx = BuildKeySpend(tx.ins[i], Wallet("Buyer"))
    <2>1. PICK op : GivenAway(op) /\ tx = BuildKeySpend(op, Wallet("Buyer"))
      BY <1>4 DEF Licensed
    <2>2. tx.ins = <<op>>
      BY <2>1 DEF BuildKeySpend
    <2>3. GivenAway(op)'
      BY <2>1 DEF GivenAway
    <2> QED
      BY <2>1, <2>2, <2>3
  <1> QED
    BY <1>2, <1>3, <1>4 DEF TwoOfTwo, Authorised, SignedBy

\* The miners move transactions from the mempool to the blocks, no others.
LEMMA MineKnown ==
    ASSUME MineBlock
    PROVE  Known' = Known
  BY DEF MineBlock, Known, Mined

\* Broadcasting adds a transaction with a complete witness, round 3 the deposit.
LEMMA TwoOfTwoNext ==
    ASSUME SInv, [Next]_vars
    PROVE  TwoOfTwo'
  <1>0. /\ TwoOfTwo /\ \A r \in Role : round[r] = 2 /\ ~failed[r] => Built(r)
        /\ net4 \subseteq net4'
    BY SwapsSent DEF SInv, IInv, StageInv
  <1>1. CASE UNCHANGED <<chain, signed>>
    <2>1. Known' = Known /\ signed' = signed
      BY <1>1 DEF chain, Known, Mined
    <2> QED
      BY <2>1, <1>0, TwoOfTwoStep
  <1>2. CASE Mine
    <2>1. Known' = Known /\ signed' = signed
      BY <1>2, MineKnown DEF Mine
    <2> QED
      BY <2>1, <1>0, TwoOfTwoStep
  <1>3. ASSUME NEW r \in Role, NEW n \in Broadcastable, Broadcast(r, n) PROVE TwoOfTwo'
    <2>1. Authorised(txs[r][n], signed)
      BY <1>3, WitnessAuthorised DEF Broadcast
    <2>2. Known' = Known \cup {txs[r][n]} /\ signed' = signed
      BY <1>3 DEF Broadcast, Known, Mined
    <2> QED
      BY <2>1, <2>2, <1>0, TwoOfTwoStep
  <1>4. ASSUME NEW r \in Role, NEW m, Round3(r, m) PROVE TwoOfTwo'
    <2>1. Authorised(txs[r]["deposit"], signed)
      BY <1>0, <1>4, DepositAuthorised DEF Round3, CheckRound
    <2>2. Known' \subseteq Known \cup {txs[r]["deposit"]} /\ signed \subseteq signed'
      BY <1>4 DEF Round3, Known, Mined
    <2> QED
      BY <2>1, <2>2, <1>0, TwoOfTwoStep
  <1>5. ASSUME NEW r \in Role, NEW m, Round3BroadcastFails(r, m) PROVE TwoOfTwo'
    <2>1. Authorised(txs[r]["deposit"], signed)
      BY <1>0, <1>5, DepositAuthorised DEF Round3BroadcastFails, CheckRound
    <2>2. Known' \subseteq Known \cup {txs[r]["deposit"]} /\ signed \subseteq signed'
      BY <1>5 DEF Round3BroadcastFails, Fail, Known, Mined
    <2> QED
      BY <2>1, <2>2, <1>0, TwoOfTwoStep
  <1>6. ASSUME NEW r \in Role, NEW m,
               \/ Round1(r) \/ WalletFails(r) \/ Round2(r, m) \/ Round2Panics(r, m)
               \/ Round3Panics(r, m) \/ Round4(r, m) \/ Round4Panics(r, m)
               \/ Round5(r, m) \/ Round5Panics(r, m) \/ Restart(r)
        PROVE  TwoOfTwo'
    <2>1. UNCHANGED <<chain, signed>>
      BY <1>6 DEF Round1, WalletFails, Round2, Round2Panics, Round3Panics, Round4, Round4Panics,
                  Round5, Round5Panics, Restart, Fail
    <2> QED
      BY <2>1, <1>1
  <1>7. CASE UNCHANGED vars
    BY <1>1, <1>7 DEF vars
  <1>8. CASE SpendWithKey
    <2>1. PICK tx : Licensed(tx) /\ mempool' = mempool \cup {tx} /\ UNCHANGED <<signed, depth>>
      BY <1>8, KeySpendLicensed
    <2>2. Known' = Known \cup {tx}
      BY <2>1 DEF Known, Mined
    <2> QED
      BY <2>1, <2>2, <1>0, TwoOfTwoStep
  <1> QED
    BY <1>2, <1>3, <1>4, <1>5, <1>6, <1>7, <1>8 DEF Next

\* Every step preserves the traders' parts and what the messages say.
LEMMA PartsNext ==
    ASSUME SInv, [Next]_vars
    PROVE  (\A x \in Role : TraderInv(x)') /\ MessageInv'
  <1>0. TypeOK'
    BY NextStep DEF SInv, IInv
  <1>1. CASE UNCHANGED <<terms, sessionVars, net, signed>>
    BY <1>0, <1>1, OtherStepTrader, ChainMessages DEF sessionVars, net
  <1>2. ASSUME NEW r \in Role, NEW k \in 1 .. 5, CheckRound(r, k), Fail(r, k)
        PROVE  (\A x \in Role : TraderInv(x)') /\ MessageInv'
    <2>1. UNCHANGED <<session, tik, txs, musig, signed>> /\ net1 \subseteq net1'
      BY <1>2 DEF Fail, net
    <2> QED
      BY <2>1, <1>0, <1>2, OtherStepTrader, FailMessages
  <1>3. ASSUME NEW r \in Role, Round1(r)
        PROVE  (\A x \in Role : TraderInv(x)') /\ MessageInv'
    <2>1. UNCHANGED <<session, tik, txs, musig, signed>> /\ net1 \subseteq net1'
      BY <1>3 DEF Round1
    <2> QED
      BY <2>1, <1>0, <1>3, OtherStepTrader, Round1Messages
  <1>4. ASSUME NEW r \in Role, NEW m \in From(net1, Other(r)), Round2(r, m)
        PROVE  (\A x \in Role : TraderInv(x)') /\ MessageInv'
    BY <1>0, <1>4, Round2Trader, Round2Messages
  <1>5. ASSUME NEW r \in Role, NEW m \in From(net2, Other(r)), Round3(r, m)
        PROVE  (\A x \in Role : TraderInv(x)') /\ MessageInv'
    BY <1>0, <1>5, Round3Trader, Round3Messages
  <1>6. ASSUME NEW r \in Role, NEW m \in From(net3, Other(r)), Round4(r, m)
        PROVE  (\A x \in Role : TraderInv(x)') /\ MessageInv'
    BY <1>0, <1>6, Round4Trader, Round4Messages
  <1>7. ASSUME NEW r \in Role, NEW m \in From(net4, Other(r)), Round5(r, m)
        PROVE  (\A x \in Role : TraderInv(x)') /\ MessageInv'
    BY <1>0, <1>7, Round5Trader, Round5Messages
  <1>8. ASSUME NEW r \in Role, Restart(r)
        PROVE  (\A x \in Role : TraderInv(x)') /\ MessageInv'
    BY <1>0, <1>8, RestartTrader, RestartMessages
  <1>9. ASSUME NEW r \in Role, NEW m,
               \/ WalletFails(r) \/ Round2Panics(r, m) \/ Round3Panics(r, m)
               \/ Round3BroadcastFails(r, m) \/ Round4Panics(r, m) \/ Round5Panics(r, m)
        PROVE  (\A x \in Role : TraderInv(x)') /\ MessageInv'
    <2>1. \E k \in 1 .. 5 : CheckRound(r, k) /\ Fail(r, k)
      BY <1>9 DEF WalletFails, Round2Panics, Round3Panics, Round3BroadcastFails, Round4Panics,
                  Round5Panics
    <2> QED
      BY <1>2, <1>9, <2>1
  <1>10. ASSUME NEW r \in Role, NEW n, Broadcast(r, n)
         PROVE  UNCHANGED <<terms, sessionVars, net, signed>>
    BY <1>10 DEF Broadcast
  <1>11. ASSUME Mine \/ SpendWithKey \/ UNCHANGED vars
         PROVE  UNCHANGED <<terms, sessionVars, net, signed>>
    BY <1>11 DEF Mine, SpendWithKey, vars
  <1> QED
    BY <1>1, <1>3, <1>4, <1>5, <1>6, <1>7, <1>8, <1>9, <1>10, <1>11 DEF Next

\* The invariant holds of every reachable state.
LEMMA SafetyInvariance == Spec => []SInv
  <1>1. SInv /\ [Next]_vars => SInv'
    <2> SUFFICES ASSUME SInv, [Next]_vars PROVE SInv'
      OBVIOUS
    <2>1. IInv'
      BY NextStep DEF SInv
    <2> QED
      BY <2>1, PartsNext, TwoOfTwoNext DEF SInv, MessageInv
  <1> QED
    BY InitSInv, <1>1, PTL DEF Spec

\* Nothing on chain spends an aggregated key that one of its owners did not
\* sign away for that very input -- verify_partial and the node see to it --
\* unless the seller had given the buyer her share of it with the SwapTx; and
\* then the buyer alone spends it.  Whatever the traders restart, repeat or lose.
THEOREM OnlyBothSpend == Spec => []TwoOfTwo
  <1>1. SInv => TwoOfTwo
    BY DEF SInv
  <1> QED
    BY <1>1, SafetyInvariance, PTL

-----------------------------------------------------------------------------
(* Every complete witness is valid.                                        *)

\* TransactionExt::output_index finds the output of a key that has one.
LEMMA OutputIndexFinds ==
    ASSUME NEW tx, NEW key, \E j \in 1 .. Len(tx.outs) : tx.outs[j].script = key,
           Len(tx.outs) = 2
    PROVE  OutputIndex(tx, key) \in 1 .. 2 /\ tx.outs[OutputIndex(tx, key)].script = key
  <1>1. \E i \in 1 .. Len(tx.outs) : /\ tx.outs[i].script = key
                                     /\ \A j \in 1 .. i - 1 : tx.outs[j].script # key
    <2>1. CASE tx.outs[1].script = key
      BY <2>1
    <2>2. CASE tx.outs[1].script # key
      <3>1. tx.outs[2].script = key
        BY <2>2
      <3> QED
        BY <2>2, <3>1
    <2> QED
      BY <2>1, <2>2
  <1> QED
    BY <1>1 DEF OutputIndex

\* Both outputs of the deposit are found.
LEMMA DepositOutputs ==
    ASSUME NEW dep, NEW p, NEW q, NEW x, NEW y, dep.outs = SortOuts(Out(p, x), Out(q, y)),
           NEW key \in {p, q}
    PROVE  /\ OutputIndex(dep, key) \in 1 .. 2
           /\ dep.outs[OutputIndex(dep, key)].script = key
  <1>1. Len(dep.outs) = 2
    BY DEF SortOuts
  <1>2. \E j \in 1 .. Len(dep.outs) : dep.outs[j].script = key
    <2>1. Out(p, x).script = p /\ Out(q, y).script = q
      BY DEF Out
    <2>2. \/ dep.outs[1] = Out(p, x) /\ dep.outs[2] = Out(q, y)
          \/ dep.outs[1] = Out(q, y) /\ dep.outs[2] = Out(p, x)
      BY DEF SortOuts
    <2> QED
      BY <1>1, <2>1, <2>2
  <1> QED
    BY <1>1, <1>2, OutputIndexFinds

\* The inputs of the transactions of a trade and the scripts they spend.
LEMMA SpentScripts ==
    ASSUME NEW r \in Role, NEW tms, NEW p, NEW q, NEW dep, NEW x, NEW y,
           dep.outs = SortOuts(Out(p, x), Out(q, y)),
           NEW built, built = TxsOf(r, tms, p, q, dep)
    PROVE  /\ Len(built["swap"].ins) = 1 /\ Prevout(built["swap"].ins[1]).script = q
           /\ Len(built["warning_me"].ins) = 2
           /\ Prevout(built["warning_me"].ins[1]).script = p
           /\ Prevout(built["warning_me"].ins[2]).script = q
           /\ Len(built["claim_me"].ins) = 1
           /\ Prevout(built["claim_me"].ins[1]).script = KeySpend(r, p, q)
           /\ Len(built["redirect_me"].ins) = 1
           /\ Prevout(built["redirect_me"].ins[1]).script = KeySpend(Other(r), p, q)
  <1>1. /\ dep.outs[OutputIndex(dep, p)].script = p
        /\ dep.outs[OutputIndex(dep, q)].script = q
    BY DepositOutputs
  <1>2. built["swap"].ins = << OutPoint(dep, OutputIndex(dep, q)) >>
    BY DEF TxsOf, TxName, BuildSwap
  <1>3. built["warning_me"].ins = << OutPoint(dep, OutputIndex(dep, p)),
                                     OutPoint(dep, OutputIndex(dep, q)) >>
    BY DEF TxsOf, TxName, BuildWarning
  <1>4. built["claim_me"].ins = << FundsOf(BuildWarning(r, tms, p, q, dep, Wallet(r))) >>
    BY DEF TxsOf, TxName, BuildClaim
  <1>5. built["redirect_me"].ins
          = << FundsOf(BuildWarning(Other(r), tms, p, q, dep, Wallet(Other(r)))) >>
    BY DEF TxsOf, TxName, BuildRedirect
  <1>6. \A z, a : Prevout(FundsOf(BuildWarning(z, tms, p, q, dep, a))).script = KeySpend(z, p, q)
    BY DEF Prevout, FundsOf, OutPoint, BuildWarning, Out
  <1>7. \A i : Prevout(OutPoint(dep, i)) = dep.outs[i]
    BY DEF Prevout, OutPoint
  <1>8. Len(built["swap"].ins) = 1 /\ Prevout(built["swap"].ins[1]).script = q
    BY <1>1, <1>2, <1>7
  <1>9. /\ Len(built["warning_me"].ins) = 2
        /\ Prevout(built["warning_me"].ins[1]).script = p
        /\ Prevout(built["warning_me"].ins[2]).script = q
    BY <1>1, <1>3, <1>7
  <1> QED
    BY <1>4, <1>5, <1>6, <1>8, <1>9

\* A witness that round4 filled in is valid: every context of the transaction
\* was locked to the key of the input it signs.
LEMMA WitnessesValid == SInv => FinalWitnessesValid
  <1> SUFFICES ASSUME SInv, NEW r \in Role, NEW n \in Broadcastable, HasWitness(r, n)
               PROVE  WitnessValid(r, n)
    BY DEF FinalWitnessesValid
  <1> DEFINE p == tik[r]["p"].agg
             q == tik[r]["q"].agg
             built == txs[r]
             dep == txs[r]["deposit"]
  <1>1. session[r] \in Session /\ TraderInv(r)
    BY DEF SInv, IInv, TypeOK
  <1>2. \A i \in 1 .. Len(WitnessCtx(n)) : WitnessCtx(n)[i] \in Ctx
    BY DEF WitnessCtx, Broadcastable, Ctx
  <1>3. Built(r)
    <2>1. 1 \in 1 .. Len(WitnessCtx(n))
      BY DEF WitnessCtx, Broadcastable
    <2> QED
      BY <1>1, <1>2, <2>1, BuiltInTrade DEF HasWitness
  <1>4. PICK o \in Session : InTrade(r, session[r], tik[r], txs[r], musig[r], net1, signed, o)
    BY <1>1, <1>3, BuiltInTrade
  <1>5. ASSUME NEW i \in 1 .. Len(WitnessCtx(n))
        PROVE  /\ musig[r][WitnessCtx(n)[i]].key = tik[r][CtxTik(r, WitnessCtx(n)[i])].agg
               /\ musig[r][WitnessCtx(n)[i]].msg = CtxMsg(built, WitnessCtx(n)[i])
    <2> DEFINE c == WitnessCtx(n)[i]
    <2>1. c \in Ctx /\ musig[r][c].stage = "final"
      BY <1>2, <1>5 DEF HasWitness
    <2> HIDE DEF c
    <2>2. CtxReady(r, c, session[r], tik[r], musig[r][c])
      BY <1>4, <2>1 DEF InTrade
    <2>3. CtxSigned(r, c, session[r], tik[r], txs[r], musig[r][c], signed, o)
      BY <1>4, <2>1, SignedInTrade
    <2> QED
      BY <2>2, <2>3 DEF CtxReady, CtxSigned, c
  <1>6. /\ built = TxsOf(r, terms[r], p, q, dep)
        /\ dep.outs = SortOuts(Out(p, terms[r].seller_amount), Out(q, terms[r].buyer_amount))
    BY <1>3 DEF SInv, IInv, BuiltInv
  <1> HIDE DEF p, q, built, dep
  <1>7. /\ Len(built["swap"].ins) = 1 /\ Prevout(built["swap"].ins[1]).script = q
        /\ Len(built["warning_me"].ins) = 2
        /\ Prevout(built["warning_me"].ins[1]).script = p
        /\ Prevout(built["warning_me"].ins[2]).script = q
        /\ Len(built["claim_me"].ins) = 1
        /\ Prevout(built["claim_me"].ins[1]).script = KeySpend(r, p, q)
        /\ Len(built["redirect_me"].ins) = 1
        /\ Prevout(built["redirect_me"].ins[1]).script = KeySpend(Other(r), p, q)
    BY <1>6, SpentScripts
  <1>8. /\ KeySpend(r, p, q) = tik[r][WarnTik(r)].agg
        /\ KeySpend(Other(r), p, q) = tik[r][WarnTik(Other(r))].agg
    BY DEF KeySpend, WarnTik, p, q
  <1>9. CASE n = "swap"
    <2>1. WitnessCtx(n) = <<"swap">>
      BY <1>9 DEF WitnessCtx
    <2>2. /\ musig[r]["swap"].key = tik[r]["q"].agg
          /\ musig[r]["swap"].msg = Msg(built["swap"], 0)
      BY <1>5, <2>1 DEF CtxTik, CtxMsg
    <2> QED
      BY <1>7, <1>9, <2>1, <2>2 DEF WitnessValid, built, q
  <1>10. CASE n = "warning_me"
    <2>1. WitnessCtx(n) = <<"warn_me_p", "warn_me_q">>
      BY <1>10 DEF WitnessCtx
    <2>2. /\ musig[r]["warn_me_p"].key = tik[r]["p"].agg
          /\ musig[r]["warn_me_p"].msg = Msg(built["warning_me"], 0)
      BY <1>5, <2>1 DEF CtxTik, CtxMsg
    <2>3. /\ musig[r]["warn_me_q"].key = tik[r]["q"].agg
          /\ musig[r]["warn_me_q"].msg = Msg(built["warning_me"], 1)
      BY <1>5, <2>1 DEF CtxTik, CtxMsg
    <2> QED
      BY <1>7, <1>10, <2>1, <2>2, <2>3 DEF WitnessValid, built, p, q
  <1>11. CASE n = "claim_me"
    <2>1. WitnessCtx(n) = <<"claim_me">>
      BY <1>11 DEF WitnessCtx
    <2>2. /\ musig[r]["claim_me"].key = tik[r][WarnTik(r)].agg
          /\ musig[r]["claim_me"].msg = Msg(built["claim_me"], 0)
      BY <1>5, <2>1 DEF CtxTik, CtxMsg
    <2> QED
      BY <1>7, <1>8, <1>11, <2>1, <2>2 DEF WitnessValid, built
  <1>12. CASE n = "redirect_me"
    <2>1. WitnessCtx(n) = <<"redirect_me">>
      BY <1>12 DEF WitnessCtx
    <2>2. /\ musig[r]["redirect_me"].key = tik[r][WarnTik(Other(r))].agg
          /\ musig[r]["redirect_me"].msg = Msg(built["redirect_me"], 0)
      BY <1>5, <2>1 DEF CtxTik, CtxMsg
    <2> QED
      BY <1>7, <1>8, <1>12, <2>1, <2>2 DEF WitnessValid, built
  <1> QED
    BY <1>9, <1>10, <1>11, <1>12 DEF Broadcastable

\* A transaction whose witness round4 completed is always one the node can
\* verify: right key, right input, right transaction, in any session.
THEOREM CompleteWitnessesVerify == Spec => []FinalWitnessesValid
  BY WitnessesValid, SafetyInvariance, PTL

-----------------------------------------------------------------------------
(* A deposit determines its trade.                                         *)

\* An aggregated key of r's session s and the peer's session o.
LEMMA TradeKeys ==
    ASSUME NEW r \in Role, NEW s \in Session, NEW o \in Session, NEW key, KeysWith(r, s, key, o),
           NEW t \in Tik
    PROVE  /\ key[t].agg \in Seq(Point) /\ Len(key[t].agg) = 2
           /\ key[t].agg[1].tik = t /\ key[t].agg[2].tik = t
  <1>1. key[t].agg = AggPoint(NewPoint(t, r, s), NewPoint(t, Other(r), o))
    BY DEF KeysWith
  <1>2. NewPoint(t, r, s) \in Point /\ NewPoint(t, Other(r), o) \in Point
    BY OtherRole, NewPointType
  <1>3. NewPoint(t, r, s).tik = t /\ NewPoint(t, Other(r), o).tik = t
    BY DEF NewPoint
  <1> QED
    BY <1>1, <1>2, <1>3 DEF AggPoint

\* The two outputs of a deposit can be told apart by their keys.
LEMMA SameOuts ==
    ASSUME NEW p1, NEW q1, NEW p2, NEW q2, NEW x1, NEW y1, NEW x2, NEW y2,
           p1 # q2, p2 # q1,
           SortOuts(Out(p1, x1), Out(q1, y1)) = SortOuts(Out(p2, x2), Out(q2, y2))
    PROVE  p1 = p2 /\ q1 = q2 /\ x1 = x2 /\ y1 = y2
  <1>1. \A k, v, l, w : Out(k, v) = Out(l, w) => k = l /\ v = w
    BY DEF Out
  <1>2. \A v1, v2, w1, w2 : <<v1, v2>> = <<w1, w2>> => v1 = w1 /\ v2 = w2
    OBVIOUS
  <1>3. \/ Out(p1, x1) = Out(p2, x2) /\ Out(q1, y1) = Out(q2, y2)
        \/ Out(p1, x1) = Out(q2, y2) /\ Out(q1, y1) = Out(p2, x2)
    BY <1>2 DEF SortOuts
  <1> QED
    BY <1>1, <1>3

\* Two traders whose deposits are the same are in the same trade.
LEMMA SameDepositSameTrade ==
    ASSUME SInv, NEW r \in Role, Built(r),
           txs[Other(r)]["deposit"] = txs[r]["deposit"]
    PROVE  /\ Built(Other(r))
           /\ terms[Other(r)] = terms[r]
           /\ \A t \in Tik : tik[Other(r)][t].agg = tik[r][t].agg
  <1> DEFINE z == Other(r)
  <1>1. /\ z \in Role /\ session[r] \in Session /\ session[z] \in Session
        /\ TraderInv(r) /\ TraderInv(z) /\ "p" \in Tik /\ "q" \in Tik
    BY OtherRole DEF SInv, IInv, TypeOK, Tik
  <1>2. txs[r]["deposit"].outs = SortOuts(Out(tik[r]["p"].agg, terms[r].seller_amount),
                                          Out(tik[r]["q"].agg, terms[r].buyer_amount))
    BY DEF SInv, IInv, BuiltInv
  <1>3. Built(z)
    <2> SUFFICES ASSUME ~Built(z) PROVE FALSE
      OBVIOUS
    <2>1. txs[z] = NewTxs
      BY <1>1, BuiltInTrade DEF Fresh
    <2>2. txs[z]["deposit"].outs = <<>>
      BY <2>1 DEF NewTxs, NoTx, TxName
    <2>3. Len(txs[r]["deposit"].outs) = 2
      BY <1>2 DEF SortOuts
    <2> QED
      BY <2>2, <2>3
  <1>4. txs[z]["deposit"].outs = SortOuts(Out(tik[z]["p"].agg, terms[z].seller_amount),
                                          Out(tik[z]["q"].agg, terms[z].buyer_amount))
    BY <1>1, <1>3 DEF SInv, IInv, BuiltInv
  <1>5. \A x \in Role : Built(x) => tik[x]["p"].agg[1].tik = "p" /\ tik[x]["q"].agg[1].tik = "q"
    <2> SUFFICES ASSUME NEW x \in Role, Built(x)
                 PROVE  tik[x]["p"].agg[1].tik = "p" /\ tik[x]["q"].agg[1].tik = "q"
      OBVIOUS
    <2>1. session[x] \in Session /\ TraderInv(x)
      BY DEF SInv, IInv, TypeOK
    <2>2. PICK o \in Session : KeysWith(x, session[x], tik[x], o)
      BY <2>1, BuiltInTrade DEF InTrade
    <2> QED
      BY <2>1, <2>2, <1>1, TradeKeys
  <1>6. tik[r]["p"].agg # tik[z]["q"].agg /\ tik[z]["p"].agg # tik[r]["q"].agg
    BY <1>1, <1>3, <1>5
  <1>7. /\ tik[r]["p"].agg = tik[z]["p"].agg /\ tik[r]["q"].agg = tik[z]["q"].agg
        /\ terms[r].seller_amount = terms[z].seller_amount
        /\ terms[r].buyer_amount = terms[z].buyer_amount
    BY <1>2, <1>4, <1>6, SameOuts
  <1>8. terms[z] = terms[r]
    <2>1. terms[z] \in Terms /\ terms[r] \in Terms
      BY <1>1 DEF SInv, IInv, TypeOK
    <2> QED
      BY <2>1, <1>7 DEF Terms
  <1> QED
    BY <1>3, <1>7, <1>8 DEF Tik

\* The secret of P' came from the seller's session of the trade, which had
\* completed its SwapTx.
LEMMA SecretNeedsSwap == SInv => KeyGivesSellerSwap
  <1> SUFFICES ASSUME SInv, tik["Buyer"]["p"].agg_sec # <<>>
               PROVE  /\ tik["Buyer"]["p"].agg_sec = tik["Buyer"]["p"].agg
                      /\ txs["Seller"]["deposit"] = txs["Buyer"]["deposit"] =>
                            /\ WitnessValid("Seller", "swap")
                            /\ txs["Seller"]["swap"].outs[1].script = Wallet("Seller")
    BY DEF KeyGivesSellerSwap
  <1>1. /\ "Seller" \in Role /\ "Buyer" \in Role /\ "q" \in Tik
        /\ Other("Buyer") = "Seller" /\ Other("Seller") = "Buyer"
        /\ \A x \in Role : session[x] \in Session /\ TraderInv(x)
    BY DEF Role, Other, Tik, SInv, IInv, TypeOK
  <1>2. tik["Buyer"]["p"].agg_sec = tik["Buyer"]["p"].agg
    BY DEF SInv, SecretInv
  <1>3. PICK m \in net4 : /\ m.from = "Seller" /\ m.swap_onchain # <<>>
                          /\ m.swap_onchain[1].sig.key = tik["Buyer"]["q"].agg
    BY DEF SInv, SecretInv
  <1>4. Built("Buyer")
    BY <1>1, NoSecretYet
  <1> SUFFICES ASSUME txs["Seller"]["deposit"] = txs["Buyer"]["deposit"]
               PROVE  /\ WitnessValid("Seller", "swap")
                      /\ txs["Seller"]["swap"].outs[1].script = Wallet("Seller")
    BY <1>2
  <1>5. Built("Seller") /\ tik["Seller"]["q"].agg = tik["Buyer"]["q"].agg
    BY <1>1, <1>4, SameDepositSameTrade
  <1>6. PICK k \in Session, o \in Session :
          /\ k <= session["Seller"] /\ SwapOf(m, k, o)
          /\ k = session["Seller"] =>
                /\ musig["Seller"]["swap"].stage = "final"
                /\ m.swap_onchain[1].sig = SigOf(musig["Seller"]["swap"])
    BY <1>3 DEF SInv, SwapInv, SwapOK
  <1>7. k = session["Seller"]
    <2>1. PICK b \in Session : KeysWith("Seller", session["Seller"], tik["Seller"], b)
      BY <1>1, <1>5, BuiltInTrade DEF InTrade
    <2>2. tik["Seller"]["q"].agg = AggPoint(NewPoint("q", "Seller", session["Seller"]),
                                            NewPoint("q", Other("Seller"), b))
      BY <1>1, <2>1 DEF KeysWith
    <2>3. tik["Seller"]["q"].agg = AggPoint(NewPoint("q", "Seller", k),
                                            NewPoint("q", Other("Seller"), o))
      BY <1>1, <1>3, <1>5, <1>6 DEF SwapOf
    <2> QED
      BY <1>1, <2>2, <2>3, AggPointInjective
  <1>8. HasWitness("Seller", "swap") /\ "swap" \in Broadcastable
    BY <1>6, <1>7 DEF HasWitness, WitnessCtx, Broadcastable
  <1>9. WitnessValid("Seller", "swap")
    BY <1>1, <1>8, WitnessesValid DEF FinalWitnessesValid
  <1>10. txs["Seller"]["swap"].outs[1].script = Wallet("Seller")
    <2>1. PICK p, q, dep : txs["Seller"] = TxsOf("Seller", terms["Seller"], p, q, dep)
      BY <1>1, <1>5 DEF SInv, IInv, BuiltInv
    <2> QED
      BY <2>1 DEF TxsOf, TxName, BuildSwap, Out
  <1> QED
    BY <1>9, <1>10

\* A buyer who learned the secret of P' in round5 faces a seller who, if they
\* are still in the same trade, can publish a valid SwapTx to his own wallet.
THEOREM SecretForSwap == Spec => []KeyGivesSellerSwap
  BY SecretNeedsSwap, SafetyInvariance, PTL

-----------------------------------------------------------------------------
(* The trade of two sessions that were given each other's shares.          *)

\* Who merges the parts makes no difference to the order of the inputs.
LEMMA SortInsSymmetric ==
    ASSUME NEW r \in Role, NEW a \in CoinsOf(r), NEW b \in CoinsOf(Other(r))
    PROVE  SortIns(a, b) = SortIns(b, a)
  <1>1. a.tx = FundingTx(r) /\ b.tx = FundingTx(Other(r))
    BY OtherRole, DistinctCoins
  <1>2. (a.tx = FundingTx("Seller")) <=> (b.tx # FundingTx("Seller"))
    BY <1>1, DistinctCoins DEF Role, Other
  <1> QED
    BY <1>2 DEF SortIns

\* Both traders are in a trade with the other's current session.
Paired(r) ==
    /\ InTrade(r, session[r], tik[r], txs[r], musig[r], net1, signed, session[Other(r)])
    /\ InTrade(Other(r), session[Other(r)], tik[Other(r)], txs[Other(r)], musig[Other(r)],
               net1, signed, session[r])

\* Two sessions that know each other's shares aggregate the same keys.
LEMMA PairedKeys ==
    ASSUME SInv, NEW r \in Role, Paired(r), NEW t \in Tik
    PROVE  /\ tik[Other(r)][t].agg = tik[r][t].agg
           /\ tik[Other(r)][t].pub = tik[r][t].other
  <1> DEFINE z == Other(r)
  <1>1. /\ z \in Role /\ Other(z) = r /\ z # r
        /\ session[r] \in Session /\ session[z] \in Session
    BY OtherRole DEF SInv, IInv, TypeOK
  <1>2. /\ tik[r][t].agg = AggPoint(NewPoint(t, r, session[r]), NewPoint(t, z, session[z]))
        /\ tik[r][t].other = NewPoint(t, z, session[z])
    BY DEF Paired, InTrade, KeysWith
  <1>3. /\ tik[z][t].agg = AggPoint(NewPoint(t, z, session[z]), NewPoint(t, r, session[r]))
        /\ tik[z][t].pub = NewPoint(t, z, session[z])
    BY <1>1 DEF Paired, InTrade, KeysWith
  <1>4. /\ NewPoint(t, r, session[r]) \in Point /\ NewPoint(t, z, session[z]) \in Point
        /\ NewPoint(t, r, session[r]) # NewPoint(t, z, session[z])
    BY <1>1, NewPointType DEF NewPoint
  <1> QED
    BY <1>2, <1>3, <1>4, AggPointSymmetric

\* Two such sessions that were told the same amounts build the same deposit.
LEMMA PairedDeposit ==
    ASSUME SInv, NEW r \in Role, Paired(r), Built(r), Built(Other(r)),
           terms[r] = terms[Other(r)]
    PROVE  txs[Other(r)]["deposit"] = txs[r]["deposit"]
  <1> DEFINE z == Other(r)
             dr == txs[r]["deposit"]
             dz == txs[z]["deposit"]
  <1>1. z \in Role /\ Other(z) = r /\ "p" \in Tik /\ "q" \in Tik
    BY OtherRole DEF Tik
  <1>2. dr.outs = dz.outs
    <2>1. /\ dr.outs = SortOuts(Out(tik[r]["p"].agg, terms[r].seller_amount),
                                Out(tik[r]["q"].agg, terms[r].buyer_amount))
          /\ dz.outs = SortOuts(Out(tik[z]["p"].agg, terms[z].seller_amount),
                                Out(tik[z]["q"].agg, terms[z].buyer_amount))
      BY <1>1 DEF SInv, IInv, BuiltInv
    <2>2. tik[z]["p"].agg = tik[r]["p"].agg /\ tik[z]["q"].agg = tik[r]["q"].agg
      BY <1>1, PairedKeys
    <2> QED
      BY <2>1, <2>2
  <1>3. DepositOf(r, session[r], dr, net1, session[z]) /\ DepositOf(z, session[z], dz, net1, session[r])
    BY <1>1 DEF Paired, InTrade
  <1> HIDE DEF dr, dz
  <1>4. PICK mine \in net1, theirs \in net1 :
          /\ mine.from = r /\ mine.p_a.session = session[r]
          /\ theirs.from = z /\ theirs.p_a.session = session[z]
          /\ dr.ins = SortIns(mine.dep_part_psbt.coin, theirs.dep_part_psbt.coin)
    BY <1>3 DEF DepositOf, Offer
  <1>5. PICK mine2 \in net1, theirs2 \in net1 :
          /\ mine2.from = z /\ mine2.p_a.session = session[z]
          /\ theirs2.from = r /\ theirs2.p_a.session = session[r]
          /\ dz.ins = SortIns(mine2.dep_part_psbt.coin, theirs2.dep_part_psbt.coin)
    BY <1>1, <1>3 DEF DepositOf, Offer
  <1>6. mine2 = theirs /\ theirs2 = mine
    BY <1>4, <1>5 DEF SInv, OfferInv, OneOffer
  <1>7. mine.dep_part_psbt.coin \in CoinsOf(r) /\ theirs.dep_part_psbt.coin \in CoinsOf(z)
    BY <1>4 DEF SInv, OfferInv, OfferOK
  <1>8. dr.ins = dz.ins
    BY <1>4, <1>5, <1>6, <1>7, SortInsSymmetric
  <1>9. /\ dr = [ins |-> dr.ins, outs |-> dr.outs, seq |-> 0]
        /\ dz = [ins |-> dz.ins, outs |-> dz.outs, seq |-> 0]
    BY <1>3 DEF DepositOf
  <1>10. dr = dz
    BY <1>2, <1>8, <1>9
  <1> QED
    BY <1>10 DEF dr, dz

\* The peer's name of a context is the same key, the other way round.
LEMMA PeerCtxTik ==
    ASSUME NEW r \in Role, NEW c \in Ctx
    PROVE  /\ PeerCtx(c) \in Ctx /\ PeerCtx(PeerCtx(c)) = c
           /\ CtxTik(Other(r), PeerCtx(c)) = CtxTik(r, c)
  BY OtherRole DEF Ctx, PeerCtx, CtxTik, Role, Other, WarnTik

\* Two sessions that have signed for each other's shares: what one made in a
\* context is what the other expects in the matching one.
LEMMA PairedContexts ==
    ASSUME SInv, NEW r \in Role, Paired(r), HasSigned(r), HasSigned(Other(r)), NEW c \in Ctx
    PROVE  LET mine == musig[r][c]
               theirs == musig[Other(r)][PeerCtx(c)]
           IN  /\ theirs.key = mine.key
               /\ theirs.signer = tik[r][CtxTik(r, c)].other
               /\ theirs.pub_nonce = mine.other_nonce
               /\ theirs.other_nonce = mine.pub_nonce
               /\ theirs.adaptor = mine.adaptor
               /\ theirs.msg = mine.msg
  <1> DEFINE z == Other(r)
             d == PeerCtx(c)
             mine == musig[r][c]
             theirs == musig[z][d]
             t == CtxTik(r, c)
  <1>1. /\ z \in Role /\ Other(z) = r /\ d \in Ctx /\ PeerCtx(d) = c /\ CtxTik(z, d) = t
        /\ t \in Tik /\ "swap" \in Ctx
    BY OtherRole, PeerCtxTik, CtxTikType DEF Ctx
  <1>2. /\ CtxReady(r, c, session[r], tik[r], mine)
        /\ CtxReady(z, d, session[z], tik[z], theirs)
    BY <1>1 DEF Paired, InTrade
  <1>3. /\ CtxSigned(r, c, session[r], tik[r], txs[r], mine, signed, session[z])
        /\ CtxSigned(z, d, session[z], tik[z], txs[z], theirs, signed, session[r])
    BY <1>1, SignedInTrade DEF Paired, HasSigned
  <1>4. /\ theirs.key = mine.key /\ theirs.signer = tik[r][t].other
    BY <1>1, <1>2, PairedKeys DEF CtxReady
  <1>5. theirs.pub_nonce = mine.other_nonce /\ theirs.other_nonce = mine.pub_nonce
    BY <1>1, <1>2, <1>3 DEF CtxReady, CtxSigned
  <1>6. theirs.adaptor = mine.adaptor
    <2>1. AdaptorOf(z, d, session[z], session[r]) = AdaptorOf(r, c, session[r], session[z])
      BY <1>1 DEF AdaptorOf, Role, Other, Ctx, PeerCtx
    <2> QED
      BY <1>3, <2>1 DEF CtxSigned
  <1>7. theirs.msg = mine.msg
    <2>1. \A x \in Role : HasSigned(x)
      BY DEF Role, Other
    <2>2. \A e \in Ctx : CtxMsg(txs["Seller"], e) = CtxMsg(txs["Buyer"], PeerCtx(e))
      BY <2>1, Agreement DEF SInv, AgreedTrade
    <2>3. CtxMsg(txs[z], d) = CtxMsg(txs[r], c)
      BY <1>1, <2>2 DEF Role, Other
    <2> QED
      BY <1>3, <2>3 DEF CtxSigned
  <1> QED
    BY <1>4, <1>5, <1>6, <1>7

-----------------------------------------------------------------------------
(* What each round accepts.                                                *)

\* Two traders of the first sessions who were told the same, feasible amounts.
SameStart ==
    \A r \in Role : session[r] = 0 /\ terms[r] = terms[Other(r)] /\ AmountsFit(terms[r])

\* In the first sessions both traders know each other's shares.
LEMMA FirstSessionsPaired ==
    ASSUME SInv, SameStart, NEW r \in Role, Built(r), Built(Other(r))
    PROVE  Paired(r)
  <1>1. ASSUME NEW x \in Role, Built(x)
        PROVE  InTrade(x, session[x], tik[x], txs[x], musig[x], net1, signed, session[Other(x)])
    <2>1. session[x] \in Session /\ TraderInv(x) /\ Other(x) \in Role
      BY OtherRole DEF SInv, IInv, TypeOK
    <2>2. PICK o \in Session :
             InTrade(x, session[x], tik[x], txs[x], musig[x], net1, signed, o)
      BY <1>1, <2>1, BuiltInTrade
    <2>3. PICK m \in net1 : m.from = Other(x) /\ m.p_a.session = o
      BY <2>2 DEF InTrade, DepositOf, Offer
    <2>4. o <= session[Other(x)]
      BY <2>3 DEF SInv, IInv, KeyInv
    <2>5. o = session[Other(x)]
      BY <2>1, <2>4, BoundAssumption DEF SameStart, Session
    <2> QED
      BY <2>2, <2>5
  <1>2. Other(r) \in Role /\ Other(Other(r)) = r
    BY OtherRole
  <1>3. InTrade(r, session[r], tik[r], txs[r], musig[r], net1, signed, session[Other(r)])
    BY <1>1
  <1>4. InTrade(Other(r), session[Other(r)], tik[Other(r)], txs[Other(r)], musig[Other(r)],
                net1, signed, session[Other(Other(r))])
    BY <1>1, <1>2
  <1> QED
    BY <1>2, <1>3, <1>4 DEF Paired

\* round2 takes every offer of the peer.
LEMMA Round2Accepts ==
    ASSUME SInv, SameStart, NEW r \in Role, NEW m \in From(net1, Other(r))
    PROVE  Round2Checks(r, m)
  <1>1. /\ m \in net1 /\ m.from = Other(r) /\ Other(r) \in Role /\ Other(r) # r
        /\ Other(Other(r)) = r /\ "p" \in Tik /\ "q" \in Tik
    BY OtherRole DEF From, Tik
  <1>2. /\ m.p_a = NewPoint("p", Other(r), m.p_a.session)
        /\ m.q_a = NewPoint("q", Other(r), m.p_a.session)
        /\ m.from = "Seller" => m.swap_script = Wallet("Seller")
        /\ tik[r]["p"].pub = NewPoint("p", r, session[r])
        /\ tik[r]["q"].pub = NewPoint("q", r, session[r])
    BY <1>1 DEF SInv, IInv, KeyInv
  <1>3. m.p_a # m.q_a /\ m.p_a # tik[r]["p"].pub /\ m.q_a # tik[r]["q"].pub
    <2>1. \A t, u \in Tik, x, y \in Role : \A s, o :
             NewPoint(t, x, s) = NewPoint(u, y, o) => t = u /\ x = y
      BY DEF NewPoint
    <2> QED
      BY <1>1, <1>2, <2>1
  <1>4. m.dep_part_psbt.coin \notin CoinsOf(r)
    <2>1. m.dep_part_psbt.coin \in CoinsOf(Other(r))
      BY <1>1 DEF SInv, OfferInv, OfferOK
    <2>2. FundingTx(r) # FundingTx(Other(r))
      BY DistinctCoins DEF Role, Other
    <2> QED
      BY <1>1, <2>1, <2>2, DistinctCoins
  <1>5. MergedFee(terms[r], r, m.dep_part_psbt.amount) >= 0
    <2>1. m.dep_part_psbt.amount = FundedByMe(terms[r], Other(r))
      BY <1>1 DEF SInv, OfferInv, OfferOK, SameStart
    <2>2. FundedByMe(terms[r], Other(r)) \in Int
      BY DEF SInv, IInv, TypeOK, Terms, FundedByMe
    <2>3. MergedFee(terms[r], r, m.dep_part_psbt.amount) = PART_FEES
      BY <2>1, <2>2 DEF MergedFee, PART_FEES
    <2> QED
      BY <2>3 DEF PART_FEES
  <1>6. r = "Buyer" => m.swap_script # <<>>
    <2>1. Wallet("Seller") # <<>>
      BY DEF Wallet
    <2>2. r = "Buyer" => m.from = "Seller"
      BY <1>1 DEF Other
    <2> QED
      BY <1>2, <2>1, <2>2
  <1>7. AmountsFit(terms[r])
    BY DEF SameStart
  <1> QED
    BY <1>3, <1>4, <1>5, <1>6, <1>7 DEF Round2Checks

\* round3 takes every announcement of the peer.
LEMMA Round3Accepts ==
    ASSUME SInv, SameStart, NEW r \in Role, CheckRound(r, 3), NEW m \in From(net2, Other(r))
    PROVE  Round3Checks(r, m)
  <1> DEFINE z == Other(r)
  <1>1. /\ m \in net2 /\ m.from = z /\ z \in Role /\ "p" \in Tik /\ "q" \in Tik
        /\ session[z] = 0 /\ terms[r] = terms[z]
    BY OtherRole DEF From, Tik, SameStart
  <1>2. Built(r)
    BY DEF CheckRound, SInv, IInv, StageInv
  <1>3. Own(m) = session[z]
    <2>1. Own(m) \in Session /\ Own(m) <= session[z]
      BY <1>1 DEF SInv, IInv, TypeOK, Net2Inv, Own, Ctx, Nonce
    <2> QED
      BY <1>1, <2>1, BoundAssumption DEF Session
  <1>4. Built(z)
    BY <1>1, <1>3 DEF SInv, AnnounceInv, AnnounceOK
  <1>5. /\ m.p_agg = tik[z]["p"].agg /\ m.q_agg = tik[z]["q"].agg
        /\ m.deposit_tx_signed = txs[z]["deposit"]
    <2>1. PICK n \in net2 : /\ n.from = z /\ Own(n) = session[z]
                            /\ n.p_agg = tik[z]["p"].agg /\ n.q_agg = tik[z]["q"].agg
                            /\ n.deposit_tx_signed = txs[z]["deposit"]
      BY <1>1, <1>4 DEF SInv, IInv, BuiltInv
    <2>2. n = m
      BY <1>1, <1>3, <2>1 DEF SInv, IInv, Net2Inv
    <2> QED
      BY <2>1, <2>2
  <1>6. Paired(r)
    BY <1>2, <1>4, FirstSessionsPaired
  <1>7. /\ tik[z]["p"].agg = tik[r]["p"].agg /\ tik[z]["q"].agg = tik[r]["q"].agg
        /\ txs[z]["deposit"] = txs[r]["deposit"]
    BY <1>1, <1>2, <1>4, <1>6, PairedKeys, PairedDeposit
  <1> QED
    BY <1>5, <1>7 DEF Round3Checks, SameDeposit

\* round4 takes every set of halves of the peer.
LEMMA Round4Accepts ==
    ASSUME SInv, SameStart, NEW r \in Role, CheckRound(r, 4), NEW m \in From(net3, Other(r))
    PROVE  Round4Checks(r, m)
  <1> DEFINE z == Other(r)
  <1>1. m \in net3 /\ m.from = z /\ z \in Role /\ session[z] = 0
    BY OtherRole DEF From, SameStart
  <1>2. HasSigned(r) /\ Built(r)
    BY DEF CheckRound, SInv, IInv, StageInv
  <1>3. /\ HasSigned(z)
        /\ \A c \in SentCtx : m.part_sigs[c] = PartialMade(musig[z][c])
    <2>1. PICK k \in Session :
            /\ k <= session[m.from]
            /\ k = session[m.from] =>
                  /\ HasSigned(m.from)
                  /\ \A c \in SentCtx : m.part_sigs[c] = PartialMade(musig[m.from][c])
      BY <1>1 DEF SInv, PartialsInv, PartialsOK
    <2>2. k = session[m.from]
      BY <1>1, <2>1, BoundAssumption DEF Session
    <2> QED
      BY <1>1, <2>1, <2>2
  <1>4. Built(z)
    BY <1>1, <1>3 DEF SInv, IInv, StageInv
  <1>5. Paired(r)
    BY <1>2, <1>4, FirstSessionsPaired
  <1>6. ASSUME NEW c \in MyCtx
        PROVE  Verifies(musig[r][c], tik[r][CtxTik(r, c)].other, m.part_sigs[PeerCtx(c)])
    <2> DEFINE mine == musig[r][c]
               theirs == musig[z][PeerCtx(c)]
    <2>1. c \in Ctx /\ PeerCtx(c) \in SentCtx
      BY PeerCtxOfMine
    <2>2. m.part_sigs[PeerCtx(c)] = PartialMade(theirs)
      BY <1>3, <2>1
    <2>3. /\ theirs.key = mine.key
          /\ theirs.signer = tik[r][CtxTik(r, c)].other
          /\ theirs.pub_nonce = mine.other_nonce
          /\ theirs.other_nonce = mine.pub_nonce
          /\ theirs.adaptor = mine.adaptor
          /\ theirs.msg = mine.msg
      BY <1>2, <1>3, <1>5, <2>1, PairedContexts
    <2> HIDE DEF mine, theirs
    <2>4. PartialMade(theirs) = PartialSig(mine.key, tik[r][CtxTik(r, c)].other, mine.other_nonce,
                                           mine.pub_nonce, mine.adaptor, mine.msg)
      BY <2>3 DEF PartialMade
    <2> QED
      BY <2>2, <2>4 DEF Verifies, mine
  <1>7. r = "Seller" => musig[r]["swap"].adaptor = <<tik[r]["p"].pub>>
    <2> SUFFICES ASSUME r = "Seller" PROVE musig[r]["swap"].adaptor = <<tik[r]["p"].pub>>
      OBVIOUS
    <2>1. /\ CtxSigned(r, "swap", session[r], tik[r], txs[r], musig[r]["swap"], signed, session[z])
          /\ KeysWith(r, session[r], tik[r], session[z]) /\ "swap" \in Ctx
      <3>1. "swap" \in Ctx
        BY DEF Ctx
      <3>2. InTrade(r, session[r], tik[r], txs[r], musig[r], net1, signed, session[z])
        BY <1>5 DEF Paired
      <3>3. musig[r]["swap"].stage \in {"signed", "aggregated", "final"}
        BY <1>2 DEF HasSigned
      <3> QED
        BY <3>1, <3>2, <3>3, SignedInTrade DEF InTrade
    <2>2. musig[r]["swap"].adaptor = << NewPoint("p", "Seller", session[r]) >>
      BY <2>1 DEF CtxSigned, AdaptorOf
    <2>3. tik[r]["p"].pub = NewPoint("p", "Seller", session[r])
      BY <2>1 DEF KeysWith, Tik
    <2> QED
      BY <2>2, <2>3
  <1> QED
    BY <1>6, <1>7 DEF Round4Checks

\* round5 takes the seller's signed SwapTx.
LEMMA Round5Accepts ==
    ASSUME SInv, SameStart, NEW r \in Role, CheckRound(r, 5), NEW m \in From(net4, Other(r))
    PROVE  Round5Checks(r, m)
  <1> SUFFICES ASSUME r = "Buyer"
               PROVE  m.swap_onchain # <<>> /\ m.swap_onchain[1].sig = SigOf(musig["Buyer"]["swap"])
    BY DEF Round5Checks
  <1>1. /\ m \in net4 /\ m.from = "Seller" /\ session["Seller"] = 0
        /\ "Seller" \in Role /\ "Buyer" \in Role /\ "swap" \in Ctx
        /\ Other("Buyer") = "Seller" /\ PeerCtx("swap") = "swap"
    BY DEF From, Other, SameStart, Role, Ctx, PeerCtx
  <1>2. HasSigned("Buyer") /\ Built("Buyer")
    BY DEF CheckRound, SInv, IInv, StageInv
  <1>3. /\ m.swap_onchain # <<>> /\ musig["Seller"]["swap"].stage = "final"
        /\ m.swap_onchain[1].sig = SigOf(musig["Seller"]["swap"])
    <2>1. PICK k \in Session :
            /\ k <= session["Seller"] /\ m.swap_onchain # <<>>
            /\ k = session["Seller"] =>
                  /\ musig["Seller"]["swap"].stage = "final"
                  /\ m.swap_onchain[1].sig = SigOf(musig["Seller"]["swap"])
      BY <1>1 DEF SInv, SwapInv, SwapOK, SwapOf
    <2>2. k = session["Seller"]
      BY <1>1, <2>1, BoundAssumption DEF Session
    <2> QED
      BY <2>1, <2>2
  <1>4. HasSigned("Seller") /\ Built("Seller")
    BY <1>1, <1>3 DEF HasSigned, SInv, IInv, StageInv
  <1>5. Paired("Buyer")
    BY <1>1, <1>2, <1>4, FirstSessionsPaired
  <1> DEFINE mine == musig["Buyer"]["swap"]
             theirs == musig["Seller"]["swap"]
  <1>6. /\ theirs.key = mine.key
        /\ theirs.pub_nonce = mine.other_nonce
        /\ theirs.other_nonce = mine.pub_nonce
        /\ theirs.adaptor = mine.adaptor
        /\ theirs.msg = mine.msg
    BY <1>1, <1>2, <1>4, <1>5, PairedContexts
  <1> HIDE DEF mine, theirs
  <1>7. SigOf(theirs) = SigOf(mine)
    <2>1. {theirs.pub_nonce, theirs.other_nonce} = {mine.pub_nonce, mine.other_nonce}
      BY <1>6
    <2> QED
      BY <1>6, <2>1 DEF SigOf
  <1> QED
    BY <1>3, <1>7 DEF mine, theirs

\* Two traders who were told the same feasible amounts and have not restarted
\* accept each other's parameters in every round: the asserts of round2 and
\* round3, verify_partial in round4 and the reveal of round5 never fail them.
THEOREM HonestPeersAgree == Spec => []HonestPeersAccept
  <1>1. SInv => HonestPeersAccept
    <2> SUFFICES ASSUME SInv, SameStart, NEW r \in Role
                 PROVE  /\ CheckRound(r, 2) => \A m \in From(net1, Other(r)) : Round2Checks(r, m)
                        /\ CheckRound(r, 3) => \A m \in From(net2, Other(r)) : Round3Checks(r, m)
                        /\ CheckRound(r, 4) => \A m \in From(net3, Other(r)) : Round4Checks(r, m)
                        /\ CheckRound(r, 5) => \A m \in From(net4, Other(r)) : Round5Checks(r, m)
      BY DEF HonestPeersAccept, SameStart
    <2> QED
      BY Round2Accepts, Round3Accepts, Round4Accepts, Round5Accepts
  <1> QED
    BY <1>1, SafetyInvariance, PTL
=============================================================================
