------------------------- MODULE BMPProtocol_proofs -------------------------
(***************************************************************************)
(* Proofs about BMPProtocol, for any number of restarts, any amounts, any  *)
(* coins, any order of the points and any faults: type correctness, single *)
(* use of every nonce, and agreement of the two traders on the trade.      *)
(***************************************************************************)
EXTENDS BMPProtocol, TLAPS

-----------------------------------------------------------------------------
(* Both traders compute the same aggregated key from the same two shares,  *)
(* and a key determines its shares.                                        *)

\* ProtocolRole::other is an involution without fixed point.
LEMMA OtherRole == \A r \in Role : Other(r) \in Role /\ Other(r) # r /\ Other(Other(r)) = r
  BY DEF Role, Other

\* A fresh share is a point.
LEMMA NewPointType ==
    ASSUME NEW t \in Tik, NEW r \in Role, NEW s \in Session
    PROVE  NewPoint(t, r, s) \in Point
  BY DEF NewPoint, Point

\* AggKey::aggregate_key gives the same point on both sides (it sorts).
LEMMA AggPointSymmetric ==
    ASSUME NEW a \in Point, NEW b \in Point, a # b
    PROVE  AggPoint(a, b) = AggPoint(b, a)
  BY LessAssumption DEF AggPoint

\* An aggregated key names its two shares.
LEMMA AggPointInjective ==
    ASSUME NEW t \in Tik, NEW r \in Role,
           NEW s1 \in Session, NEW o1 \in Session, NEW s2 \in Session, NEW o2 \in Session,
           AggPoint(NewPoint(t, r, s1), NewPoint(t, Other(r), o1))
             = AggPoint(NewPoint(t, r, s2), NewPoint(t, Other(r), o2))
    PROVE  s1 = s2 /\ o1 = o2
  BY OtherRole DEF AggPoint, NewPoint

\* An aggregated key is a non-empty sequence of points.
LEMMA AggPointType ==
    ASSUME NEW a \in Point, NEW b \in Point
    PROVE  AggPoint(a, b) \in Seq(Point) /\ AggPoint(a, b) # <<>>
  BY DEF AggPoint

\* The peer's name for a signing context names a context.
LEMMA PeerCtxType == \A c \in Ctx : PeerCtx(c) \in Ctx
  BY DEF Ctx, PeerCtx

\* aggregate_key keeps the type of the key and its own share.
LEMMA AggregateType ==
    ASSUME NEW key, AggKeyOK(key), NEW other \in Point
    PROVE  /\ AggKeyOK(Aggregate(key, other))
           /\ Aggregate(key, other).pub = key.pub
           /\ Aggregate(key, other).agg = AggPoint(key.pub, other)
  <1>1. key \in [pub : Point, other : AnyPoint, agg : Seq(Point), agg_sec : Seq(AnyPoint)]
    BY DEF AggKeyOK
  <1>2. AggPoint(key.pub, other) \in Seq(Point) /\ other \in AnyPoint
    BY <1>1, AggPointType DEF AnyPoint
  <1>3. Aggregate(key, other) = [pub |-> key.pub, other |-> other,
                                 agg |-> AggPoint(key.pub, other), agg_sec |-> key.agg_sec]
    BY <1>1 DEF Aggregate
  <1> QED
    BY <1>1, <1>2, <1>3 DEF AggKeyOK

\* TMuSig2::new: a context with a nonce of its own session, not yet used.
LEMMA NewMuSigType ==
    ASSUME NEW r \in Role, session[r] \in Session, NEW key, AggKeyOK(key), NEW c \in Ctx
    PROVE  /\ MuSigOK(NewMuSig(r, key, c))
           /\ NewMuSig(r, key, c).stage = "new"
           /\ NewMuSig(r, key, c).sec_nonce = NewNonce(c, r, session[r])
           /\ NewMuSig(r, key, c).pub_nonce = NewNonce(c, r, session[r])
           /\ NewNonce(c, r, session[r]) \in Nonce
  <1> DEFINE nonce == NewNonce(c, r, session[r])
  <1>1. nonce \in Nonce /\ nonce \in AnyNonce /\ NoNonce \in AnyNonce
    BY DEF NewNonce, Nonce, AnyNonce
  <1>2. key.agg \in Seq(Point) /\ key.pub \in AnyPoint /\ Infinity \in Seq(AnyPoint)
    BY DEF AggKeyOK, AnyPoint, Infinity
  <1>3. NewMuSig(r, key, c) =
          [key |-> key.agg, signer |-> key.pub, pub_nonce |-> nonce, sec_nonce |-> nonce,
           other_nonce |-> NoNonce, adaptor |-> Infinity, msg |-> Msg(NoTx, 0), stage |-> "new"]
    BY DEF NewMuSig, MuSigFor
  <1> HIDE DEF nonce
  <1> QED
    BY <1>1, <1>2, <1>3 DEF MuSigOK, Stage, nonce

\* Signing keeps the type of a context and marks it signed.
LEMMA SignType ==
    ASSUME NEW mu, MuSigOK(mu), NEW on \in Nonce, NEW ad \in Seq(AnyPoint), NEW msg
    PROVE  /\ MuSigOK(Sign(mu, on, ad, msg))
           /\ Sign(mu, on, ad, msg).stage = "signed"
           /\ Sign(mu, on, ad, msg).adaptor = ad
  BY DEF Sign, MuSigOK, AnyNonce, Stage

-----------------------------------------------------------------------------
(* The inductive invariant.                                                *)

\* r has completed round 2 of its current session.
Built(r) == tik[r]["p"].agg # <<>>

\* Where a session stands, in terms of its round counter.
StageInv ==
    \A r \in Role :
        /\ Built(r) => round[r] >= 2
        /\ HasSigned(r) => round[r] >= 3 /\ Built(r)
        /\ round[r] = 2 /\ ~failed[r] => Built(r)
        /\ round[r] >= 3 /\ ~failed[r] => HasSigned(r) /\ Len(musig[r]["swap"].adaptor) = 1

\* Before round 3 every context of a session holds a nonce of its own, and a
\* nonce of a trader's current session has signed only if round 3 was entered.
NonceInv ==
    /\ \A r \in Role, c \in Ctx :
          round[r] = 2 /\ ~failed[r] => musig[r][c].sec_nonce = NewNonce(c, r, session[r])
    /\ \A s \in signed :
          /\ s.nonce \in Nonce
          /\ s.nonce.session <= session[s.nonce.role]
          /\ s.nonce.session = session[s.nonce.role] => round[s.nonce.role] >= 3

\* The shares of a trader belong to his current session; a Round1Parameter
\* carries the shares of one past or present session of its sender.
KeyInv ==
    /\ \A r \in Role, t \in Tik : tik[r][t].pub = NewPoint(t, r, session[r])
    /\ \A m \in net1 :
          /\ m.p_a = NewPoint("p", m.from, m.p_a.session)
          /\ m.q_a = NewPoint("q", m.from, m.p_a.session)
          /\ m.p_a.session <= session[m.from]
          /\ m.spend = Wallet(m.from)
          /\ m.from = "Seller" => m.swap_script = Wallet("Seller")

\* The session of the sender of a Round2Parameter, and whether the parameter
\* was built with the shares of the receiver's session o.
Own(m) == m.nonces["swap"].session
MsgFor(m, o) ==
    /\ m.p_agg = AggPoint(NewPoint("p", m.from, Own(m)), NewPoint("p", Other(m.from), o))
    /\ m.q_agg = AggPoint(NewPoint("q", m.from, Own(m)), NewPoint("q", Other(m.from), o))

\* Round 2 runs once per session, with shares that exist, and never do two
\* Round2Parameters of the traders cross: if each was built with shares of an
\* earlier session of the peer than the one the peer answers from, both
\* sessions would have started after the other.
Net2Inv ==
    /\ \A m \in net2 : /\ Own(m) <= session[m.from]
                       /\ Own(m) = session[m.from] => round[m.from] >= 2
                       /\ \E o \in Session : o <= session[Other(m.from)] /\ MsgFor(m, o)
    /\ \A m, n \in net2 : m.from = n.from /\ Own(m) = Own(n) => m = n
    /\ \A m, n \in net2 : \A a, b \in Session :
          m.from = "Seller" /\ n.from = "Buyer" /\ MsgFor(m, b) /\ MsgFor(n, a) =>
              ~(Own(m) < a /\ Own(n) < b)

\* The transactions of a trader, from what both traders know of the trade.
TxsOf(r, tms, p, q, dep) ==
    LET me   == BuildWarning(r, tms, p, q, dep, Wallet(r))
        peer == BuildWarning(Other(r), tms, p, q, dep, Wallet(Other(r)))
    IN  [n \in TxName |->
            CASE n = "deposit"       -> dep
              [] n = "warning_me"    -> me
              [] n = "warning_peer"  -> peer
              [] n = "swap"          -> BuildSwap(q, dep, Wallet("Seller"))
              [] n = "claim_me"      -> BuildClaim(me, Wallet(r))
              [] n = "claim_peer"    -> BuildClaim(peer, Wallet(Other(r)))
              [] n = "redirect_me"   -> BuildRedirect(peer, Wallet(r))
              [] n = "redirect_peer" -> BuildRedirect(me, Wallet(Other(r)))]

\* After round 2 the session has announced the trade it is in, and its
\* transactions are the ones of that trade.
BuiltInv ==
    \A r \in Role : Built(r) =>
        /\ \E m \in net2 : /\ m.from = r /\ Own(m) = session[r]
                           /\ m.p_agg = tik[r]["p"].agg /\ m.q_agg = tik[r]["q"].agg
                           /\ m.deposit_tx_signed = txs[r]["deposit"]
        /\ txs[r] = TxsOf(r, terms[r], tik[r]["p"].agg, tik[r]["q"].agg, txs[r]["deposit"])
        /\ txs[r]["deposit"].outs = SortOuts(Out(tik[r]["p"].agg, terms[r].seller_amount),
                                             Out(tik[r]["q"].agg, terms[r].buyer_amount))

\* Whoever has signed has seen the peer announce the same trade.
SignedInv ==
    \A r \in Role : HasSigned(r) =>
        \E m \in net2 : /\ m.from = Other(r)
                        /\ m.p_agg = tik[r]["p"].agg /\ m.q_agg = tik[r]["q"].agg
                        /\ m.deposit_tx_signed = txs[r]["deposit"]

IInv == TypeOK /\ StageInv /\ NonceInv /\ NonceSingleUse /\ KeyInv
          /\ Net2Inv /\ BuiltInv /\ SignedInv

-----------------------------------------------------------------------------
(* Every action preserves the inductive invariant.                         *)

\* The invariant holds of two new BMPProtocols.
LEMMA InitIInv == Init => IInv
  <1> SUFFICES ASSUME Init PROVE IInv
    OBVIOUS
  <1> USE DEF Init
  <1>0. 0 \in Session
    BY BoundAssumption DEF Session
  <1>1. TypeOK
    <2>1. \A r \in Role, t \in Tik : AggKeyOK(tik[r][t])
      BY <1>0 DEF NewTik, NewAggKey, AggKeyOK, NewPoint, Point, AnyPoint
    <2>2. \A r \in Role, c \in Ctx : MuSigOK(musig[r][c])
      BY DEF NewMuSigs, NoMuSig, MuSigFor, MuSigOK, AnyPoint, AnyNonce, Stage, Infinity
    <2> QED
      BY <1>0, <2>1, <2>2, TermsAssumption DEF TypeOK, NewTik, NewTxs, NewMuSigs
  <1>2. \A r \in Role : ~Built(r) /\ ~HasSigned(r)
    BY DEF Built, HasSigned, NewTik, NewAggKey, NewMuSigs, NoMuSig, MuSigFor, Ctx, Tik
  <1>3. KeyInv
    BY DEF KeyInv, NewTik, NewAggKey
  <1> QED
    BY <1>1, <1>2, <1>3 DEF IInv, StageInv, NonceInv, NonceSingleUse, Net2Inv, BuiltInv, SignedInv

\* Steps of the node, the miners and the broadcasts leave the traders alone.
LEMMA FrameStep ==
    ASSUME IInv, UNCHANGED <<terms, sessionVars, net, signed>>
    PROVE  IInv'
  <1>1. TypeOK'
    BY DEF IInv, TypeOK, sessionVars, net
  <1>2. StageInv' /\ NonceInv' /\ NonceSingleUse' /\ KeyInv'
    BY DEF IInv, StageInv, NonceInv, NonceSingleUse, KeyInv, sessionVars, net, Built, HasSigned
  <1>3. Net2Inv' /\ BuiltInv' /\ SignedInv'
    BY DEF IInv, Net2Inv, BuiltInv, SignedInv, sessionVars, net, Built, HasSigned, Own, MsgFor
  <1> QED
    BY <1>1, <1>2, <1>3 DEF IInv

\* A failing round moves the round counter and ends the session.
LEMMA FailStep ==
    ASSUME IInv, NEW r \in Role, NEW k \in 1 .. 5, CheckRound(r, k), Fail(r, k)
    PROVE  IInv'
  <1> USE DEF IInv, CheckRound, Fail, Enter, net
  <1>1. TypeOK'
    BY DEF TypeOK
  <1>2. StageInv'
    BY DEF TypeOK, StageInv, Built, HasSigned
  <1>3. NonceInv' /\ NonceSingleUse' /\ KeyInv'
    BY DEF TypeOK, NonceInv, NonceSingleUse, KeyInv, Nonce
  <1>4. Net2Inv'
    BY DEF TypeOK, Net2Inv, Own, MsgFor
  <1>5. BuiltInv' /\ SignedInv'
    BY DEF TypeOK, BuiltInv, SignedInv, Built, HasSigned, Own
  <1> QED
    BY <1>1, <1>2, <1>3, <1>4, <1>5

\* round1 preserves the invariant.
LEMMA Round1Step ==
    ASSUME IInv, NEW r \in Role, Round1(r)
    PROVE  IInv'
  <1> USE DEF IInv, CheckRound, Enter
  <1>1. TypeOK'
    <2>1. tik[r]["p"].pub \in Point /\ tik[r]["q"].pub \in Point
      BY DEF TypeOK, Tik, AggKeyOK
    <2>2. \A m \in net1' : m.from \in Role /\ m.p_a \in Point /\ m.q_a \in Point
      BY <2>1 DEF TypeOK, Round1
    <2> QED
      BY <2>2 DEF TypeOK, Round1
  <1>2. StageInv'
    BY DEF TypeOK, Round1, StageInv, Built, HasSigned
  <1>3. NonceInv' /\ NonceSingleUse'
    BY DEF TypeOK, Round1, NonceInv, NonceSingleUse, Nonce
  <1>4. KeyInv'
    <2>1. \A x \in Role, t \in Tik : tik'[x][t].pub = NewPoint(t, x, session'[x])
      BY DEF KeyInv, Round1
    <2>2. /\ tik[r]["p"].pub = NewPoint("p", r, session[r])
          /\ tik[r]["q"].pub = NewPoint("q", r, session[r])
      BY DEF KeyInv, Tik
    <2>3. session[r] \in Int /\ NewPoint("p", r, session[r]).session = session[r]
      BY BoundAssumption DEF TypeOK, Session, NewPoint
    <2>4. SUFFICES ASSUME NEW m \in net1'
                   PROVE  /\ m.p_a = NewPoint("p", m.from, m.p_a.session)
                          /\ m.q_a = NewPoint("q", m.from, m.p_a.session)
                          /\ m.p_a.session <= session[m.from]
                          /\ m.spend = Wallet(m.from)
                          /\ m.from = "Seller" => m.swap_script = Wallet("Seller")
      BY <2>1 DEF KeyInv, Round1
    <2>5. CASE m \in net1
      BY <2>5 DEF KeyInv
    <2>6. CASE m \notin net1
      BY <2>2, <2>3, <2>6 DEF Round1
    <2> QED
      BY <2>5, <2>6
  <1>5. Net2Inv'
    BY DEF TypeOK, Round1, Net2Inv, Own, MsgFor
  <1>6. BuiltInv' /\ SignedInv'
    BY DEF TypeOK, Round1, BuiltInv, SignedInv, Built, HasSigned, Own
  <1> QED
    BY <1>1, <1>2, <1>3, <1>4, <1>5, <1>6

\* round2 preserves the invariant; the parameter it sends crosses no other.
LEMMA Round2Step ==
    ASSUME IInv, NEW r \in Role, NEW m \in From(net1, Other(r)), Round2(r, m)
    PROVE  IInv'
  <1> USE DEF IInv
  <1> DEFINE s == session[r]
             o == m.p_a.session
             keys == [t \in Tik |-> Aggregate(tik[r][t], IF t = "p" THEN m.p_a ELSE m.q_a)]
             built == BuildTxs(r, m, keys["p"].agg, keys["q"].agg)
             sigs == [c \in Ctx |-> NewMuSig(r, keys[CtxTik(r, c)], c)]
             msg == [from |-> r, p_agg |-> keys["p"].agg, q_agg |-> keys["q"].agg,
                     deposit_tx_signed |-> built["deposit"],
                     nonces |-> [c \in Ctx |-> sigs[c].pub_nonce]]
  <1>1. /\ m \in net1 /\ m.from = Other(r) /\ Other(r) \in Role
        /\ m.p_a \in Point /\ m.q_a \in Point
        /\ m.p_a = NewPoint("p", Other(r), o) /\ m.q_a = NewPoint("q", Other(r), o)
        /\ o \in Session /\ o <= session[Other(r)]
    BY OtherRole DEF From, TypeOK, KeyInv, Point
  <1>2. /\ round[r] = 1 /\ ~failed[r] /\ round' = [round EXCEPT ![r] = 2]
        /\ tik' = [tik EXCEPT ![r] = keys]
        /\ txs' = [txs EXCEPT ![r] = built]
        /\ musig' = [musig EXCEPT ![r] = sigs]
        /\ net2' = net2 \cup {msg}
        /\ part' = [part EXCEPT ![r] = <<>>]
        /\ UNCHANGED <<terms, session, failed, net1, net3, net4, signed>>
    BY DEF Round2, CheckRound, Enter
  <1>3. s \in Session /\ s \in Int /\ o \in Int /\ session \in [Role -> Int]
    BY <1>1, BoundAssumption DEF TypeOK, Session
  <1>4. \A t \in Tik : /\ tik[r][t].pub = NewPoint(t, r, s)
                       /\ tik[r][t].pub \in Point
                       /\ AggKeyOK(tik[r][t])
    BY <1>3, NewPointType DEF TypeOK, KeyInv
  <1>5. /\ keys["p"].agg = AggPoint(NewPoint("p", r, s), NewPoint("p", Other(r), o))
        /\ keys["q"].agg = AggPoint(NewPoint("q", r, s), NewPoint("q", Other(r), o))
        /\ \A t \in Tik : keys[t].pub = tik[r][t].pub /\ AggKeyOK(keys[t])
        /\ keys["p"].agg # <<>>
    <2>4. \A t \in Tik : AggKeyOK(keys[t]) /\ keys[t].pub = tik[r][t].pub
                          /\ keys[t].agg = AggPoint(tik[r][t].pub, IF t = "p" THEN m.p_a ELSE m.q_a)
      <3> SUFFICES ASSUME NEW t \in Tik, NEW pt \in Point, pt = IF t = "p" THEN m.p_a ELSE m.q_a
                   PROVE  LET key == Aggregate(tik[r][t], pt)
                          IN  AggKeyOK(key) /\ key.pub = tik[r][t].pub
                              /\ key.agg = AggPoint(tik[r][t].pub, pt)
        BY <1>1
      <3> QED
        BY <1>4, AggregateType
    <2> HIDE DEF keys
    <2>5. "p" \in Tik /\ "q" \in Tik /\ "p" # "q"
      BY DEF Tik
    <2>6. keys["p"].agg # <<>>
      BY <2>4, <2>5, <1>1, <1>4, AggPointType
    <2> QED
      BY <2>4, <2>5, <2>6, <1>1, <1>4
  <1>6. \A c \in Ctx : /\ MuSigOK(sigs[c]) /\ sigs[c].stage = "new"
                       /\ sigs[c].sec_nonce = NewNonce(c, r, s)
                       /\ sigs[c].pub_nonce = NewNonce(c, r, s)
    <2> HIDE DEF keys
    <2> SUFFICES ASSUME NEW c \in Ctx
                 PROVE  LET mu == NewMuSig(r, keys[CtxTik(r, c)], c)
                        IN  /\ MuSigOK(mu) /\ mu.stage = "new"
                            /\ mu.sec_nonce = NewNonce(c, r, s)
                            /\ mu.pub_nonce = NewNonce(c, r, s)
      OBVIOUS
    <2>1. CtxTik(r, c) \in Tik
      BY OtherRole DEF CtxTik, Ctx, Tik, WarnTik
    <2>2. PICK key : key = keys[CtxTik(r, c)] /\ AggKeyOK(key)
      BY <2>1, <1>5
    <2>4. LET mu == NewMuSig(r, key, c)
          IN  /\ MuSigOK(mu) /\ mu.stage = "new"
              /\ mu.sec_nonce = NewNonce(c, r, s)
              /\ mu.pub_nonce = NewNonce(c, r, s)
      BY <2>2, <1>3, NewMuSigType
    <2> QED
      BY <2>2, <2>4
  <1>7. msg.nonces \in [Ctx -> Nonce] /\ Own(msg) = s
    <2>1. \A c \in Ctx : NewNonce(c, r, s) \in Nonce
      BY <1>3 DEF NewNonce, Nonce
    <2>2. "swap" \in Ctx /\ NewNonce("swap", r, s).session = s
      BY DEF Ctx, NewNonce
    <2> HIDE DEF sigs
    <2> QED
      BY <1>6, <2>1, <2>2 DEF Own
  <1>8. DOMAIN built = TxName /\ DOMAIN keys = Tik /\ DOMAIN sigs = Ctx
    BY DEF BuildTxs
  <1> HIDE DEF keys, built, sigs
  <1>9. TypeOK'
    <2>1. \A x \in Role : /\ x = r => tik'[x] = keys /\ txs'[x] = built /\ musig'[x] = sigs
                          /\ x # r => tik'[x] = tik[x] /\ txs'[x] = txs[x] /\ musig'[x] = musig[x]
      BY <1>2 DEF TypeOK
    <2>2. ASSUME NEW x \in Role
          PROVE  /\ DOMAIN tik'[x] = Tik /\ \A t \in Tik : AggKeyOK(tik'[x][t])
                 /\ DOMAIN txs'[x] = TxName
                 /\ DOMAIN musig'[x] = Ctx /\ \A c \in Ctx : MuSigOK(musig'[x][c])
      <3>1. CASE x = r
        <4>1. tik'[x] = keys /\ txs'[x] = built /\ musig'[x] = sigs
          BY <2>2, <3>1, <2>1
        <4>2. \A t \in Tik : AggKeyOK(tik'[x][t])
          BY <4>1, <1>5, Zenon
        <4>3. \A c \in Ctx : MuSigOK(musig'[x][c])
          BY <4>1, <1>6, Zenon
        <4> QED
          BY <4>1, <4>2, <4>3, <1>8, Zenon
      <3>2. CASE x # r
        <4>1. tik'[x] = tik[x] /\ txs'[x] = txs[x] /\ musig'[x] = musig[x]
          BY <2>2, <3>2, <2>1
        <4> QED
          BY <2>2, <4>1, Zenon DEF TypeOK
      <3> QED
        BY <3>1, <3>2
    <2>3. \A n \in net2' : n.from \in Role /\ n.nonces \in [Ctx -> Nonce]
      BY <1>2, <1>7 DEF TypeOK
    <2>4. /\ DOMAIN tik' = Role /\ DOMAIN musig' = Role /\ DOMAIN txs' = Role /\ DOMAIN part' = Role
          /\ round' \in [Role -> 0 .. 5]
      BY <1>2 DEF TypeOK
    <2>5. \A x \in Role : /\ \A t \in Tik : AggKeyOK(tik[x][t])'
                          /\ \A c \in Ctx : MuSigOK(musig[x][c])'
      BY <2>2 DEF AggKeyOK, MuSigOK
    <2> HIDE DEF msg
    <2> QED
      BY <1>2, <2>2, <2>3, <2>4, <2>5 DEF TypeOK
  <1>10. StageInv'
    <2>1. "swap" \in Ctx /\ "p" \in Tik
      BY DEF Ctx, Tik
    <2> QED
      BY <1>2, <1>5, <1>6, <2>1 DEF StageInv, TypeOK, Built, HasSigned
  <1>11. NonceInv' /\ NonceSingleUse'
    BY <1>2, <1>6 DEF NonceInv, NonceSingleUse, TypeOK, Nonce
  <1>12. KeyInv'
    BY <1>2, <1>4, <1>5 DEF KeyInv, TypeOK
  <1>13. MsgFor(msg, o)
    BY <1>5, <1>7 DEF MsgFor
  <1>14. Net2Inv'
    <2>1. \A n \in net2 : Own(n) # s \/ n.from # r
      BY <1>2 DEF Net2Inv
    <2>2. \A n \in net2 : n.from \in Role /\ Own(n) \in Int /\ Own(n) <= session[n.from]
      BY BoundAssumption DEF Net2Inv, TypeOK, Own, Ctx, Nonce, Session
    <2>3. \A b \in Session : MsgFor(msg, b) => b = o
      BY <1>13, <1>1, <1>3, <1>7, AggPointInjective DEF MsgFor, Tik
    <2>4. \A n \in net2, a \in Session : MsgFor(n, a) => a <= session[Other(n.from)]
      <3> SUFFICES ASSUME NEW n \in net2, NEW a \in Session, MsgFor(n, a)
                   PROVE  a <= session[Other(n.from)]
        OBVIOUS
      <3>1. PICK b \in Session : b <= session[Other(n.from)] /\ MsgFor(n, b)
        BY DEF Net2Inv
      <3>2. n.from \in Role /\ Own(n) \in Session
        BY DEF TypeOK, Own, Ctx, Nonce
      <3>3. a = b
        BY <3>1, <3>2, AggPointInjective DEF MsgFor, Tik
      <3> QED
        BY <3>1, <3>3
    <2>5. \A n \in net2' : /\ Own(n) <= session[n.from]
                           /\ Own(n) = session[n.from] => round'[n.from] >= 2
                           /\ \E b \in Session : b <= session[Other(n.from)] /\ MsgFor(n, b)
      <3> SUFFICES ASSUME NEW n \in net2'
                   PROVE  /\ Own(n) <= session[n.from]
                          /\ Own(n) = session[n.from] => round'[n.from] >= 2
                          /\ \E b \in Session : b <= session[Other(n.from)] /\ MsgFor(n, b)
        OBVIOUS
      <3>1. CASE n \in net2
        <4>1. /\ Own(n) <= session[n.from]
              /\ \E b \in Session : b <= session[Other(n.from)] /\ MsgFor(n, b)
          BY <3>1 DEF Net2Inv
        <4>2. ASSUME Own(n) = session[n.from] PROVE round'[n.from] >= 2
          <5>1. round[n.from] >= 2 /\ n.from \in Role
            BY <3>1, <4>2, <2>2 DEF Net2Inv
          <5>2. n.from # r
            BY <5>1, <1>2
          <5> QED
            BY <5>1, <5>2, <1>2 DEF TypeOK
        <4> QED
          BY <4>1, <4>2
      <3>2. CASE n = msg
        <4>1. n.from = r /\ Own(n) = s /\ MsgFor(n, o)
          BY <3>2, <1>7, <1>13
        <4> HIDE DEF msg
        <4>2. round'[r] >= 2
          BY <1>2 DEF TypeOK
        <4> QED
          BY <4>1, <4>2, <1>1, <1>3
      <3> QED
        BY <3>1, <3>2, <1>2
    <2>6. \A n1, n2 \in net2' : n1.from = n2.from /\ Own(n1) = Own(n2) => n1 = n2
      BY <1>2, <1>7, <2>1 DEF Net2Inv
    <2>7. \A n1, n2 \in net2' : \A a, b \in Session :
             n1.from = "Seller" /\ n2.from = "Buyer" /\ MsgFor(n1, b) /\ MsgFor(n2, a) =>
                 ~(Own(n1) < a /\ Own(n2) < b)
      <3> SUFFICES ASSUME NEW n1 \in net2', NEW n2 \in net2', NEW a \in Session, NEW b \in Session,
                          n1.from = "Seller", n2.from = "Buyer", MsgFor(n1, b), MsgFor(n2, a)
                   PROVE  ~(Own(n1) < a /\ Own(n2) < b)
        OBVIOUS
      <3>0. a \in Int /\ b \in Int
        BY BoundAssumption DEF Session
      <3>1. CASE n1 \in net2 /\ n2 \in net2
        BY <3>1 DEF Net2Inv
      <3>2. CASE n1 = msg /\ n2 \in net2
        \* A fresh parameter of the seller: the buyer cannot have used a later session.
        <4>1. r = "Seller" /\ Own(n1) = session["Seller"]
          BY <3>2, <1>7
        <4>2. a <= session["Seller"]
          BY <2>4, <3>2 DEF Other
        <4> QED
          BY <4>1, <4>2, <3>0, <1>3
      <3>3. CASE n1 \in net2 /\ n2 = msg
        <4>1. r = "Buyer" /\ Own(n2) = session["Buyer"]
          BY <3>3, <1>7
        <4>2. b <= session["Buyer"]
          BY <2>4, <3>3 DEF Other
        <4> QED
          BY <4>1, <4>2, <3>0, <1>3
      <3>4. ~(n1 = msg /\ n2 = msg)
        OBVIOUS
      <3> QED
        BY <3>1, <3>2, <3>3, <3>4, <1>2
    <2> HIDE DEF msg
    <2>8. (\A n \in net2 : /\ Own(n) <= session[n.from]
                           /\ Own(n) = session[n.from] => round[n.from] >= 2
                           /\ \E b \in Session : b <= session[Other(n.from)] /\ MsgFor(n, b))'
      BY <2>5, <1>2 DEF MsgFor, Own
    <2>9. (\A n1, n2 \in net2 : n1.from = n2.from /\ Own(n1) = Own(n2) => n1 = n2)'
      BY <2>6 DEF Own
    <2>10. (\A n1, n2 \in net2 : \A a, b \in Session :
             n1.from = "Seller" /\ n2.from = "Buyer" /\ MsgFor(n1, b) /\ MsgFor(n2, a) =>
                 ~(Own(n1) < a /\ Own(n2) < b))'
      BY <2>7 DEF Own, MsgFor
    <2> QED
      BY <2>8, <2>9, <2>10 DEF Net2Inv
  <1>15. BuiltInv'
    <2>1. built = TxsOf(r, terms[r], keys["p"].agg, keys["q"].agg, built["deposit"])
      <3>1. m.spend = Wallet(Other(r))
            /\ (IF r = "Seller" THEN Wallet(r) ELSE m.swap_script) = Wallet("Seller")
        BY <1>1 DEF KeyInv, Other, Role
      <3> QED
        BY <3>1 DEF built, BuildTxs, TxsOf, TxName
    <2>2. built["deposit"].outs = SortOuts(Out(keys["p"].agg, terms[r].seller_amount),
                                           Out(keys["q"].agg, terms[r].buyer_amount))
      BY DEF built, BuildTxs, BuildDeposit, TxName
    <2>3. msg \in net2' /\ msg.from = r /\ Own(msg) = s /\ msg.p_agg = keys["p"].agg
          /\ msg.q_agg = keys["q"].agg /\ msg.deposit_tx_signed = built["deposit"]
      BY <1>2, <1>7
    <2> HIDE DEF msg
    <2> SUFFICES ASSUME NEW x \in Role, Built(x)'
                 PROVE  (/\ \E n \in net2 : /\ n.from = x /\ Own(n) = session[x]
                                  /\ n.p_agg = tik[x]["p"].agg /\ n.q_agg = tik[x]["q"].agg
                                  /\ n.deposit_tx_signed = txs[x]["deposit"]
                         /\ txs[x] = TxsOf(x, terms[x], tik[x]["p"].agg, tik[x]["q"].agg, txs[x]["deposit"])
                         /\ txs[x]["deposit"].outs = SortOuts(Out(tik[x]["p"].agg, terms[x].seller_amount),
                                                     Out(tik[x]["q"].agg, terms[x].buyer_amount)))'
      BY DEF BuiltInv
    <2>4. CASE x = r
      <3>1. tik'[x] = keys /\ txs'[x] = built /\ session'[x] = s /\ terms'[x] = terms[r]
        BY <2>4, <1>2 DEF TypeOK
      <3> QED
        BY <2>1, <2>2, <2>3, <2>4, <3>1 DEF Own
    <2>5. CASE x # r
      <3>1. tik'[x] = tik[x] /\ txs'[x] = txs[x] /\ session'[x] = session[x]
            /\ terms'[x] = terms[x] /\ net2 \subseteq net2'
        BY <2>5, <1>2 DEF TypeOK
      <3>2. Built(x)
        BY <3>1 DEF Built
      <3> QED
        BY <3>1, <3>2 DEF BuiltInv, Own
    <2> QED
      BY <2>4, <2>5
  <1>16. SignedInv'
    <2>1. ~HasSigned(r)'
      BY <1>2, <1>6 DEF HasSigned, TypeOK, Ctx
    <2> HIDE DEF msg
    <2>2. \A x \in Role : x # r => /\ HasSigned(x)' = HasSigned(x)
                                   /\ tik'[x] = tik[x] /\ txs'[x] = txs[x]
      BY <1>2 DEF HasSigned, TypeOK
    <2>3. net2 \subseteq net2'
      BY <1>2
    <2> QED
      BY <2>1, <2>2, <2>3 DEF SignedInv
  <1> QED
    BY <1>9, <1>10, <1>11, <1>12, <1>14, <1>15, <1>16

\* Round 3 uses up the nonces of the session, one for each context.
LEMMA Round3Step ==
    ASSUME IInv, NEW r \in Role, NEW m \in From(net2, Other(r)), Round3(r, m)
    PROVE  IInv'
  <1> USE DEF IInv
  <1> DEFINE other(c) == m.nonces[PeerCtx(c)]
             part3(c) == PartialOf(musig[r][c], other(c), Adaptor(r, c), CtxMsg(txs[r], c))
             sigs == [c \in Ctx |-> Sign(musig[r][c], other(c), Adaptor(r, c), CtxMsg(txs[r], c))]
  <1>1. /\ m \in net2 /\ m.from = Other(r) /\ Other(r) \in Role
        /\ \A c \in Ctx : other(c) \in Nonce
    BY OtherRole, PeerCtxType DEF From, TypeOK
  <1>2. /\ round[r] = 2 /\ ~failed[r] /\ round' = [round EXCEPT ![r] = 3]
        /\ Round3Checks(r, m)
        /\ musig' = [musig EXCEPT ![r] = sigs]
        /\ signed' = signed \cup { part3(c) : c \in Ctx }
        /\ UNCHANGED <<terms, session, failed, tik, part, txs, net1, net2, net4>>
    BY DEF Round3, CheckRound, Enter
  <1>3. /\ session[r] \in Session /\ session[r] \in Int
        /\ "swap" \in Ctx /\ "p" \in Tik
    BY BoundAssumption DEF TypeOK, Session, Ctx, Tik
  <1>4. \A c \in Ctx : /\ part3(c).nonce = NewNonce(c, r, session[r])
                       /\ NewNonce(c, r, session[r]) \in Nonce
    BY <1>2, <1>3 DEF NonceInv, PartialOf, PartialSig, NewNonce, Nonce
  <1>5. \A c \in Ctx : Adaptor(r, c) \in Seq(AnyPoint) /\ Len(Adaptor(r, "swap")) = 1
    <2>1. tik[r]["p"].pub \in AnyPoint /\ tik[r]["p"].other \in AnyPoint
      BY <1>3 DEF TypeOK, AggKeyOK, AnyPoint
    <2> QED
      BY <2>1 DEF Adaptor, Infinity
  <1>6. \A c \in Ctx : /\ MuSigOK(sigs[c]) /\ sigs[c].stage = "signed"
                       /\ sigs[c].adaptor = Adaptor(r, c)
    <2> SUFFICES ASSUME NEW c \in Ctx
                 PROVE  /\ MuSigOK(sigs[c]) /\ sigs[c].stage = "signed"
                        /\ sigs[c].adaptor = Adaptor(r, c)
      OBVIOUS
    <2>1. MuSigOK(musig[r][c]) /\ other(c) \in Nonce /\ Adaptor(r, c) \in Seq(AnyPoint)
      BY <1>1, <1>5 DEF TypeOK
    <2>2. sigs[c] = Sign(musig[r][c], other(c), Adaptor(r, c), CtxMsg(txs[r], c))
      OBVIOUS
    <2> HIDE DEF sigs, other
    <2> QED
      BY <2>1, <2>2, SignType
  <1>7. \A x \in Role : /\ x = r => musig'[x] = sigs /\ round'[x] = 3
                        /\ x # r => musig'[x] = musig[x] /\ round'[x] = round[x]
    BY <1>2 DEF TypeOK
  <1>8. Built(r)
    BY <1>2 DEF StageInv
  <1> HIDE DEF sigs, part3, other
  <1>9. TypeOK'
    <2>1. \A x \in Role : DOMAIN musig'[x] = Ctx /\ \A c \in Ctx : MuSigOK(musig'[x][c])
      <3>1. DOMAIN sigs = Ctx
        BY DEF sigs
      <3> QED
        BY <3>1, <1>6, <1>7 DEF TypeOK
    <2>2. \A x \in Role, c \in Ctx : MuSigOK(musig[x][c])'
      BY <2>1 DEF MuSigOK
    <2>3. \A x \in Role, t \in Tik : AggKeyOK(tik[x][t])'
      BY <1>2 DEF TypeOK, AggKeyOK
    <2>4. \A s \in signed' : s.nonce \in AnyNonce
      BY <1>2, <1>4 DEF TypeOK, AnyNonce
    <2>5. round' \in [Role -> 0 .. 5] /\ DOMAIN musig' = Role
      BY <1>2 DEF TypeOK
    <2> QED
      BY <1>2, <2>1, <2>2, <2>3, <2>4, <2>5 DEF TypeOK
  <1>10. StageInv'
    <2> SUFFICES ASSUME NEW x \in Role
                 PROVE  (/\ Built(x) => round[x] >= 2
                         /\ HasSigned(x) => round[x] >= 3 /\ Built(x)
                         /\ round[x] = 2 /\ ~failed[x] => Built(x)
                         /\ round[x] >= 3 /\ ~failed[x] => /\ HasSigned(x)
                                                          /\ Len(musig[x]["swap"].adaptor) = 1)'
      BY DEF StageInv
    <2>1. CASE x = r
      BY <2>1, <1>2, <1>3, <1>5, <1>6, <1>7, <1>8 DEF Built, HasSigned
    <2>2. CASE x # r
      BY <2>2, <1>2, <1>7 DEF StageInv, Built, HasSigned
    <2> QED
      BY <2>1, <2>2
  <1>11. NonceInv'
    <2>1. \A x \in Role, c \in Ctx :
             round'[x] = 2 /\ ~failed'[x] => musig'[x][c].sec_nonce = NewNonce(c, x, session'[x])
      BY <1>2, <1>7 DEF NonceInv
    <2>2. ASSUME NEW s \in signed'
          PROVE  /\ s.nonce \in Nonce
                 /\ s.nonce.session <= session[s.nonce.role]
                 /\ s.nonce.session = session[s.nonce.role] => round'[s.nonce.role] >= 3
      <3>1. CASE s \in signed
        BY <3>1, <1>2, <1>7 DEF NonceInv, Nonce, TypeOK
      <3>2. CASE s \notin signed
        <4>1. PICK c \in Ctx : s.nonce = NewNonce(c, r, session[r])
          BY <2>2, <3>2, <1>2, <1>4
        <4> QED
          BY <4>1, <1>3, <1>4, <1>7 DEF NewNonce
      <3> QED
        BY <3>1, <3>2
    <2> QED
      BY <1>2, <2>1, <2>2 DEF NonceInv
  <1>12. NonceSingleUse'
    <2>1. \A s \in signed, c \in Ctx : s.nonce # NewNonce(c, r, session[r])
      BY <1>2 DEF NonceInv, NewNonce
    <2>2. \A c, d \in Ctx : NewNonce(c, r, session[r]) = NewNonce(d, r, session[r]) => c = d
      BY DEF NewNonce
    <2> SUFFICES ASSUME NEW s \in signed', NEW t \in signed', s.nonce = t.nonce
                 PROVE  s = t
      BY DEF NonceSingleUse
    <2>3. CASE s \in signed /\ t \in signed
      BY <2>3 DEF NonceSingleUse
    <2>4. CASE s \notin signed \/ t \notin signed
      <3>1. s \notin signed /\ t \notin signed
        BY <2>1, <2>4, <1>2, <1>4
      <3>2. PICK c, d \in Ctx : s = part3(c) /\ t = part3(d)
        BY <3>1, <1>2
      <3> QED
        BY <3>2, <2>2, <1>4
    <2> QED
      BY <2>3, <2>4
  <1>13. KeyInv' /\ Net2Inv'
    BY <1>2, <1>7 DEF TypeOK, KeyInv, Net2Inv, Own, MsgFor
  <1>14. BuiltInv'
    BY <1>2 DEF BuiltInv, Built, Own
  <1>15. SignedInv'
    <2> SUFFICES ASSUME NEW x \in Role, HasSigned(x)'
                 PROVE  \E n \in net2 : /\ n.from = Other(x)
                                        /\ n.p_agg = tik[x]["p"].agg /\ n.q_agg = tik[x]["q"].agg
                                        /\ n.deposit_tx_signed = txs[x]["deposit"]
      BY <1>2 DEF SignedInv
    <2>1. CASE x = r
      BY <2>1, <1>1, <1>2 DEF Round3Checks, SameDeposit
    <2>2. CASE x # r
      <3>1. HasSigned(x)
        BY <2>2, <1>7 DEF HasSigned
      <3> QED
        BY <3>1 DEF SignedInv
    <2> QED
      BY <2>1, <2>2
  <1> QED
    BY <1>9, <1>10, <1>11, <1>12, <1>13, <1>14, <1>15
\* Round 4 only moves the stage of the contexts it aggregates.
LEMMA Round4Step ==
    ASSUME IInv, NEW r \in Role, NEW m, Round4(r, m)
    PROVE  IInv'
  <1> USE DEF IInv
  <1> DEFINE sigs == [c \in Ctx |-> IF c \in MyCtx
                                    THEN [musig[r][c] EXCEPT !.stage = StageAfterRound4(r, c)]
                                    ELSE musig[r][c]]
  <1>1. /\ round[r] = 3 /\ ~failed[r] /\ round' = [round EXCEPT ![r] = 4]
        /\ musig' = [musig EXCEPT ![r] = sigs]
        /\ UNCHANGED <<terms, session, failed, tik, part, txs, net1, net2, net3, signed>>
    BY DEF Round4, CheckRound, Enter
  <1>2. "swap" \in Ctx /\ "swap" \in MyCtx
    BY DEF Ctx, MyCtx
  <1>3. \A c \in Ctx : MuSigOK(sigs[c])
    <2> SUFFICES ASSUME NEW c \in Ctx PROVE MuSigOK(sigs[c])
      OBVIOUS
    <2>1. MuSigOK(musig[r][c]) /\ StageAfterRound4(r, c) \in Stage
      BY DEF TypeOK, StageAfterRound4, Stage
    <2>2. \A mu, st : MuSigOK(mu) /\ st \in Stage => MuSigOK([mu EXCEPT !.stage = st])
      BY DEF MuSigOK
    <2> QED
      BY <2>1, <2>2
  <1>4. /\ sigs["swap"].stage \in {"aggregated", "final"}
        /\ sigs["swap"].adaptor = musig[r]["swap"].adaptor
    <2>1. sigs["swap"] = [musig[r]["swap"] EXCEPT !.stage = StageAfterRound4(r, "swap")]
      BY <1>2
    <2>2. StageAfterRound4(r, "swap") \in {"aggregated", "final"}
      BY DEF StageAfterRound4
    <2>3. \A mu, st : MuSigOK(mu) => /\ [mu EXCEPT !.stage = st].stage = st
                                     /\ [mu EXCEPT !.stage = st].adaptor = mu.adaptor
      BY DEF MuSigOK
    <2>4. MuSigOK(musig[r]["swap"])
      BY <1>2 DEF TypeOK
    <2> HIDE DEF sigs
    <2> QED
      BY <2>1, <2>2, <2>3, <2>4
  <1>5. HasSigned(r) /\ Len(musig[r]["swap"].adaptor) = 1 /\ Built(r)
    BY <1>1 DEF StageInv
  <1>6. DOMAIN sigs = Ctx
    OBVIOUS
  <1> HIDE DEF sigs
  <1>7. \A x \in Role : /\ x = r => musig'[x] = sigs /\ round'[x] = 4
                        /\ x # r => musig'[x] = musig[x] /\ round'[x] = round[x]
    BY <1>1 DEF TypeOK
  <1>8. \A x \in Role : /\ HasSigned(x)' <=> HasSigned(x)
                        /\ musig'[x]["swap"].adaptor = musig[x]["swap"].adaptor
    BY <1>4, <1>5, <1>7 DEF HasSigned
  <1>9. TypeOK'
    <2>1. \A x \in Role : DOMAIN musig'[x] = Ctx /\ \A c \in Ctx : MuSigOK(musig'[x][c])
      BY <1>3, <1>6, <1>7 DEF TypeOK
    <2>2. \A x \in Role, c \in Ctx : MuSigOK(musig[x][c])'
      BY <2>1 DEF MuSigOK
    <2>3. \A x \in Role, t \in Tik : AggKeyOK(tik[x][t])'
      BY <1>1 DEF TypeOK, AggKeyOK
    <2>4. round' \in [Role -> 0 .. 5] /\ DOMAIN musig' = Role
      BY <1>1 DEF TypeOK
    <2> QED
      BY <1>1, <2>1, <2>2, <2>3, <2>4 DEF TypeOK
  <1>10. StageInv'
    <2> SUFFICES ASSUME NEW x \in Role
                 PROVE  (/\ Built(x) => round[x] >= 2
                         /\ HasSigned(x) => round[x] >= 3 /\ Built(x)
                         /\ round[x] = 2 /\ ~failed[x] => Built(x)
                         /\ round[x] >= 3 /\ ~failed[x] => HasSigned(x)
                                                 /\ Len(musig[x]["swap"].adaptor) = 1)'
      BY DEF StageInv
    <2>1. Built(x)' <=> Built(x)
      BY <1>1 DEF Built
    <2>2. CASE x = r
      BY <2>1, <2>2, <1>1, <1>5, <1>7, <1>8
    <2>3. CASE x # r
      BY <2>1, <2>3, <1>1, <1>7, <1>8 DEF StageInv
    <2> QED
      BY <2>2, <2>3
  <1>11. NonceInv' /\ NonceSingleUse'
    BY <1>1, <1>7 DEF NonceInv, NonceSingleUse, Nonce, TypeOK
  <1>12. KeyInv' /\ Net2Inv'
    BY <1>1, <1>7 DEF TypeOK, KeyInv, Net2Inv, Own, MsgFor
  <1>13. BuiltInv'
    BY <1>1 DEF BuiltInv, Built, Own
  <1>14. SignedInv'
    BY <1>1, <1>8 DEF SignedInv
  <1> QED
    BY <1>9, <1>10, <1>11, <1>12, <1>13, <1>14

\* Round 5 adds the secret of P' to the buyer's key.
LEMMA Round5Step ==
    ASSUME IInv, NEW r \in Role, NEW m, Round5(r, m)
    PROVE  IInv'
  <1> USE DEF IInv
  <1>1. /\ round[r] = 4 /\ ~failed[r] /\ round' = [round EXCEPT ![r] = 5]
        /\ tik' = IF r = "Buyer" THEN [tik EXCEPT ![r]["p"] = Reveal(r)] ELSE tik
        /\ UNCHANGED <<terms, session, failed, part, txs, musig, net1, net2, net3, net4, signed>>
    BY DEF Round5, CheckRound, Enter, net
  <1>2. "p" \in Tik /\ "q" \in Tik /\ "p" # "q" /\ "swap" \in Ctx
    BY DEF Tik, Ctx
  <1>3. /\ AggKeyOK(Reveal(r))
        /\ Reveal(r).pub = tik[r]["p"].pub /\ Reveal(r).agg = tik[r]["p"].agg
    <2>1. AggKeyOK(tik[r]["p"]) /\ musig[r]["swap"].adaptor[1] \in AnyPoint
      <3>1. MuSigOK(musig[r]["swap"]) /\ Len(musig[r]["swap"].adaptor) = 1
        BY <1>1, <1>2 DEF TypeOK, StageInv
      <3> QED
        BY <3>1, <1>2 DEF TypeOK, MuSigOK
    <2>2. \A key, sec : AggKeyOK(key) /\ sec \in AnyPoint =>
              AggSecret(key.pub, key.pub, sec, key.other) \in Seq(AnyPoint)
      <3>1. \A a, b \in AnyPoint : <<a, b>> \in Seq(AnyPoint)
        OBVIOUS
      <3>2. \A key : AggKeyOK(key) => key.pub \in AnyPoint
        BY DEF AggKeyOK, AnyPoint
      <3> QED
        BY <3>1, <3>2 DEF AggSecret
    <2>3. \A key, sec : AggKeyOK(key) /\ sec \in Seq(AnyPoint) =>
              /\ AggKeyOK([key EXCEPT !.agg_sec = sec])
              /\ [key EXCEPT !.agg_sec = sec].pub = key.pub
              /\ [key EXCEPT !.agg_sec = sec].agg = key.agg
      BY DEF AggKeyOK
    <2> QED
      BY <2>1, <2>2, <2>3 DEF Reveal
  <1>4. /\ DOMAIN tik' = Role
        /\ \A x \in Role : /\ DOMAIN tik'[x] = Tik
                           /\ \A t \in Tik : /\ AggKeyOK(tik'[x][t])
                                             /\ tik'[x][t].pub = tik[x][t].pub
                                             /\ tik'[x][t].agg = tik[x][t].agg
    <2>1. CASE r = "Buyer"
      <3>1. tik' = [tik EXCEPT ![r] = [tik[r] EXCEPT !["p"] = Reveal(r)]]
        BY <2>1, <1>1
      <3> QED
        BY <3>1, <1>2, <1>3 DEF TypeOK
    <2>2. CASE r # "Buyer"
      BY <2>2, <1>1 DEF TypeOK
    <2> QED
      BY <2>1, <2>2
  <1>5. \A x \in Role : /\ Built(x)' <=> Built(x)
                        /\ HasSigned(x)' <=> HasSigned(x)
                        /\ x = r => round'[x] = 5
                        /\ x # r => round'[x] = round[x]
    BY <1>1, <1>2, <1>4 DEF TypeOK, Built, HasSigned
  <1>6. TypeOK'
    <2>1. \A x \in Role, t \in Tik : AggKeyOK(tik[x][t])'
      BY <1>4 DEF AggKeyOK
    <2>2. \A x \in Role, c \in Ctx : MuSigOK(musig[x][c])'
      BY <1>1 DEF TypeOK, MuSigOK
    <2>3. round' \in [Role -> 0 .. 5]
      BY <1>1 DEF TypeOK
    <2> QED
      BY <1>1, <1>4, <2>1, <2>2, <2>3 DEF TypeOK
  <1>7. StageInv'
    BY <1>1, <1>5 DEF StageInv
  <1>8. NonceInv' /\ NonceSingleUse'
    BY <1>1, <1>5 DEF NonceInv, NonceSingleUse, Nonce, TypeOK
  <1>9. KeyInv'
    BY <1>1, <1>4 DEF KeyInv
  <1>10. Net2Inv'
    BY <1>1, <1>5 DEF TypeOK, Net2Inv, Own, MsgFor
  <1>11. BuiltInv'
    BY <1>1, <1>2, <1>4, <1>5 DEF BuiltInv, Own
  <1>12. SignedInv'
    BY <1>1, <1>2, <1>4, <1>5 DEF SignedInv
  <1> QED
    BY <1>6, <1>7, <1>8, <1>9, <1>10, <1>11, <1>12

\* A restart draws the shares of a session that no message names yet.
LEMMA RestartStep ==
    ASSUME IInv, NEW r \in Role, Restart(r)
    PROVE  IInv'
  <1> USE DEF IInv
  <1>1. /\ session[r] \in Int /\ session[r] + 1 \in Session /\ session' \in [Role -> Session]
        /\ session'[r] = session[r] + 1
        /\ \A x \in Role : x # r => session'[x] = session[x]
        /\ \A x \in Role : session[x] \in Int /\ session[x] <= session'[x]
    BY BoundAssumption DEF Restart, TypeOK, Session
  <1>2. \A x \in Role : /\ x # r => /\ round'[x] = round[x] /\ failed'[x] = failed[x]
                                    /\ tik'[x] = tik[x] /\ txs'[x] = txs[x]
                                    /\ musig'[x] = musig[x]
                        /\ x = r => /\ round'[x] = 0 /\ tik'[x] = NewTik(r, session[r] + 1)
                                    /\ txs'[x] = NewTxs /\ musig'[x] = NewMuSigs
    BY DEF Restart, TypeOK
  <1>3. UNCHANGED <<terms, net1, net2, net3, net4, signed>>
    BY DEF Restart, net
  <1>4. ~Built(r)' /\ ~HasSigned(r)'
    <2>1. tik'[r]["p"] = NewAggKey("p", r, session[r] + 1)
      BY <1>2 DEF NewTik, Tik
    <2>2. musig'[r]["swap"] = NoMuSig
      BY <1>2 DEF NewMuSigs, Ctx
    <2> QED
      BY <2>1, <2>2 DEF Built, HasSigned, NewAggKey, NoMuSig, MuSigFor
  <1>5. \A x \in Role : x # r => (Built(x)' <=> Built(x)) /\ (HasSigned(x)' <=> HasSigned(x))
    BY <1>2 DEF Built, HasSigned
  <1>6. TypeOK'
    <2>1. ASSUME NEW x \in Role
          PROVE  /\ DOMAIN tik'[x] = Tik /\ \A t \in Tik : AggKeyOK(tik'[x][t])
                 /\ DOMAIN txs'[x] = TxName
                 /\ DOMAIN musig'[x] = Ctx /\ \A c \in Ctx : MuSigOK(musig'[x][c])
      <3>1. CASE x = r
        <4>1. \A t \in Tik : AggKeyOK(NewAggKey(t, r, session[r] + 1))
          BY <1>1, NewPointType DEF NewAggKey, AggKeyOK, AnyPoint
        <4>2. MuSigOK(NoMuSig)
          BY DEF NoMuSig, MuSigFor, MuSigOK, AnyPoint, AnyNonce, Stage, Infinity
        <4>3. /\ tik'[x] = [t \in Tik |-> NewAggKey(t, r, session[r] + 1)]
              /\ txs'[x] = [n \in TxName |-> NoTx]
              /\ musig'[x] = [c \in Ctx |-> NoMuSig]
          BY <3>1, <1>2 DEF NewTik, NewTxs, NewMuSigs
        <4> QED
          BY <4>1, <4>2, <4>3
      <3>2. CASE x # r
        BY <2>1, <3>2, <1>2 DEF TypeOK
      <3> QED
        BY <3>1, <3>2
    <2>2. \A x \in Role : /\ \A t \in Tik : AggKeyOK(tik[x][t])'
                          /\ \A c \in Ctx : MuSigOK(musig[x][c])'
      BY <2>1 DEF AggKeyOK, MuSigOK
    <2>3. /\ round' \in [Role -> 0 .. 5] /\ failed' \in [Role -> BOOLEAN]
          /\ DOMAIN tik' = Role /\ DOMAIN musig' = Role /\ DOMAIN txs' = Role /\ DOMAIN part' = Role
      BY DEF Restart, TypeOK
    <2> QED
      BY <1>1, <1>3, <2>1, <2>2, <2>3 DEF TypeOK
  <1>7. StageInv'
    <2>1. \A x \in Role : x # r => round'[x] = round[x] /\ failed'[x] = failed[x]
                                   /\ musig'[x] = musig[x]
      BY <1>2
    <2>2. round'[r] = 0
      BY <1>2
    <2> QED
      BY <1>4, <1>5, <2>1, <2>2 DEF StageInv
  <1>8. NonceInv' /\ NonceSingleUse'
    <2>1. \A x \in Role, c \in Ctx :
             round'[x] = 2 /\ ~failed'[x] => musig'[x][c].sec_nonce = NewNonce(c, x, session'[x])
      BY <1>1, <1>2 DEF NonceInv
    <2>2. ASSUME NEW s \in signed
          PROVE  /\ s.nonce \in Nonce
                 /\ s.nonce.session <= session'[s.nonce.role]
                 /\ s.nonce.session = session'[s.nonce.role] => round'[s.nonce.role] >= 3
      <3>1. /\ s.nonce \in Nonce /\ s.nonce.role \in Role /\ s.nonce.session \in Int
            /\ s.nonce.session <= session[s.nonce.role]
            /\ s.nonce.session = session[s.nonce.role] => round[s.nonce.role] >= 3
        BY <2>2, BoundAssumption DEF NonceInv, Nonce, Session
      <3>2. CASE s.nonce.role = r
        BY <3>1, <3>2, <1>1
      <3>3. CASE s.nonce.role # r
        BY <3>1, <3>3, <1>1, <1>2
      <3> QED
        BY <3>2, <3>3
    <2> QED
      BY <1>3, <2>1, <2>2 DEF NonceInv, NonceSingleUse
  <1>9. KeyInv'
    <2>1. \A x \in Role, t \in Tik : tik'[x][t].pub = NewPoint(t, x, session'[x])
      <3> SUFFICES ASSUME NEW x \in Role, NEW t \in Tik
                   PROVE  tik'[x][t].pub = NewPoint(t, x, session'[x])
        OBVIOUS
      <3>1. CASE x = r
        <4>1. tik'[x][t] = NewAggKey(t, r, session[r] + 1)
          BY <3>1, <1>2 DEF NewTik
        <4> QED
          BY <3>1, <4>1, <1>1 DEF NewAggKey
      <3>2. CASE x # r
        BY <3>2, <1>1, <1>2 DEF KeyInv
      <3> QED
        BY <3>1, <3>2
    <2>2. \A m \in net1 : m.p_a.session <= session'[m.from]
      <3> SUFFICES ASSUME NEW m \in net1 PROVE m.p_a.session <= session'[m.from]
        OBVIOUS
      <3>1. m.p_a.session \in Int /\ m.from \in Role /\ m.p_a.session <= session[m.from]
        BY BoundAssumption DEF TypeOK, KeyInv, Point, Session
      <3> QED
        BY <3>1, <1>1
    <2> QED
      BY <1>3, <2>1, <2>2 DEF KeyInv
  <1>10. Net2Inv'
    <2>1. ASSUME NEW m \in net2
          PROVE  /\ Own(m) <= session'[m.from]
                 /\ Own(m) = session'[m.from] => round'[m.from] >= 2
                 /\ \E o \in Session : o <= session'[Other(m.from)] /\ MsgFor(m, o)
      <3>1. /\ m.from \in Role /\ Other(m.from) \in Role /\ Own(m) \in Int
            /\ Own(m) <= session[m.from]
            /\ Own(m) = session[m.from] => round[m.from] >= 2
        BY <2>1, OtherRole, BoundAssumption DEF Net2Inv, TypeOK, Own, Ctx, Nonce, Session
      <3>2. PICK o \in Session : o <= session[Other(m.from)] /\ MsgFor(m, o)
        BY <2>1 DEF Net2Inv
      <3>3. o <= session'[Other(m.from)]
        BY <3>1, <3>2, <1>1, BoundAssumption DEF Session
      <3>4. CASE m.from = r
        BY <3>1, <3>2, <3>3, <3>4, <1>1
      <3>5. CASE m.from # r
        BY <3>1, <3>2, <3>3, <3>5, <1>1, <1>2
      <3> QED
        BY <3>4, <3>5
    <2>2. (\A m \in net2 : /\ Own(m) <= session[m.from]
                           /\ Own(m) = session[m.from] => round[m.from] >= 2
                           /\ \E o \in Session : o <= session[Other(m.from)] /\ MsgFor(m, o))'
      BY <2>1, <1>3 DEF Own, MsgFor
    <2> QED
      BY <1>3, <2>2 DEF Net2Inv, Own, MsgFor
  <1>11. BuiltInv'
    <2>1. \A x \in Role : x # r => /\ tik'[x] = tik[x] /\ txs'[x] = txs[x]
                                   /\ session'[x] = session[x]
      BY <1>1, <1>2
    <2> QED
      BY <1>3, <1>4, <1>5, <2>1 DEF BuiltInv, Own
  <1>12. SignedInv'
    <2>1. \A x \in Role : x # r => tik'[x] = tik[x] /\ txs'[x] = txs[x]
      BY <1>2
    <2> QED
      BY <1>3, <1>4, <1>5, <2>1 DEF SignedInv
  <1> QED
    BY <1>6, <1>7, <1>8, <1>9, <1>10, <1>11, <1>12
\* Every step preserves the invariant.
LEMMA NextStep ==
    ASSUME IInv, [Next]_vars
    PROVE  IInv'
  <1>1. CASE UNCHANGED vars
    BY <1>1, FrameStep DEF vars
  <1>2. CASE Mine
    BY <1>2, FrameStep DEF Mine
  <1>3. ASSUME NEW r \in Role, Round1(r) PROVE IInv'
    BY <1>3, Round1Step
  <1>4. ASSUME NEW r \in Role, NEW m \in From(net1, Other(r)), Round2(r, m) PROVE IInv'
    BY <1>4, Round2Step
  <1>5. ASSUME NEW r \in Role, NEW m \in From(net2, Other(r)), Round3(r, m) PROVE IInv'
    BY <1>5, Round3Step
  <1>6. ASSUME NEW r \in Role, NEW m, Round4(r, m) PROVE IInv'
    BY <1>6, Round4Step
  <1>7. ASSUME NEW r \in Role, NEW m, Round5(r, m) PROVE IInv'
    BY <1>7, Round5Step
  <1>8. ASSUME NEW r \in Role, WalletFails(r) PROVE IInv'
    <2>1. PICK k \in 1 .. 2 : CheckRound(r, k) /\ Fail(r, k)
      BY <1>8 DEF WalletFails
    <2> QED
      BY <1>8, <2>1, FailStep
  <1>9. ASSUME NEW r \in Role, NEW m,
               \/ Round2Panics(r, m) \/ Round3Panics(r, m) \/ Round3BroadcastFails(r, m)
               \/ Round4Panics(r, m) \/ Round5Panics(r, m)
        PROVE  IInv'
    <2>1. \E k \in 1 .. 5 : CheckRound(r, k) /\ Fail(r, k)
      BY <1>9 DEF Round2Panics, Round3Panics, Round3BroadcastFails, Round4Panics, Round5Panics
    <2> QED
      BY <1>9, <2>1, FailStep
  <1>10. ASSUME NEW r \in Role, NEW n, Broadcast(r, n) PROVE IInv'
    BY <1>10, FrameStep DEF Broadcast
  <1>11. ASSUME NEW r \in Role, Restart(r) PROVE IInv'
    BY <1>11, RestartStep
  <1>12. CASE SpendWithKey
    BY <1>12, FrameStep DEF SpendWithKey
  <1> QED
    BY <1>1, <1>2, <1>3, <1>4, <1>5, <1>6, <1>7, <1>8, <1>9, <1>10, <1>11, <1>12 DEF Next

\* The invariant holds of every reachable state.
LEMMA Invariance == Spec => []IInv
  <1>1. IInv /\ [Next]_vars => IInv'
    BY NextStep
  <1> QED
    BY InitIInv, <1>1, PTL DEF Spec

\* Every value the rounds, the restarts and the chain leave in the state of
\* BMPProtocol has its type.
THEOREM TypeCorrect == Spec => []TypeOK
  <1>1. IInv => TypeOK
    BY DEF IInv
  <1> QED
    BY <1>1, Invariance, PTL

\* generate_adapted_partial_sig never signs two different things with one
\* nonce, whatever restarts, repeated and stale parameters the traders meet.
THEOREM NoncesUsedOnce == Spec => []NonceSingleUse
  <1>1. IInv => NonceSingleUse
    BY DEF IInv
  <1> QED
    BY <1>1, Invariance, PTL

-----------------------------------------------------------------------------
(* Agreement.  Each trader has announced the trade it is in, and has seen  *)
(* the peer announce it.  What it has seen may come from an earlier        *)
(* session of the peer; as parameters never cross, that cannot be so for   *)
(* both, and the announcement that is current is the peer's own trade.     *)

\* The keys of a trader and of the peer's parameter he signed on agree, so the
\* parameter names the sessions his own one names.
LEMMA SameSessions ==
    ASSUME NEW m, NEW n, NEW o \in Session, NEW x \in Session,
           m.from \in Role, n.from = Other(m.from), Own(m) \in Session, Own(n) \in Session,
           MsgFor(m, o), MsgFor(n, x), n.p_agg = m.p_agg
    PROVE  Own(n) = o /\ x = Own(m)
  <1> DEFINE r == m.from
  <1>1. Other(r) \in Role /\ Other(r) # r /\ Other(Other(r)) = r /\ "p" \in Tik
    BY OtherRole DEF Tik
  <1>2. /\ NewPoint("p", Other(r), Own(n)) \in Point /\ NewPoint("p", r, x) \in Point
        /\ NewPoint("p", Other(r), Own(n)) # NewPoint("p", r, x)
    BY <1>1, NewPointType DEF NewPoint
  <1>3. AggPoint(NewPoint("p", r, Own(m)), NewPoint("p", Other(r), o))
          = AggPoint(NewPoint("p", r, x), NewPoint("p", Other(r), Own(n)))
    BY <1>1, <1>2, AggPointSymmetric DEF MsgFor
  <1> QED
    BY <1>1, <1>3, AggPointInjective

\* The two traders' transactions of one trade are the same transactions.
LEMMA SameMessages ==
    ASSUME NEW tms, NEW p, NEW q, NEW dep, NEW c \in Ctx
    PROVE  CtxMsg(TxsOf("Seller", tms, p, q, dep), c)
             = CtxMsg(TxsOf("Buyer", tms, p, q, dep), PeerCtx(c))
  <1>1. \A n \in TxName : TxsOf("Seller", tms, p, q, dep)[n] =
          CASE n = "deposit"       -> TxsOf("Buyer", tms, p, q, dep)["deposit"]
            [] n = "swap"          -> TxsOf("Buyer", tms, p, q, dep)["swap"]
            [] n = "warning_me"    -> TxsOf("Buyer", tms, p, q, dep)["warning_peer"]
            [] n = "warning_peer"  -> TxsOf("Buyer", tms, p, q, dep)["warning_me"]
            [] n = "claim_me"      -> TxsOf("Buyer", tms, p, q, dep)["claim_peer"]
            [] n = "claim_peer"    -> TxsOf("Buyer", tms, p, q, dep)["claim_me"]
            [] n = "redirect_me"   -> TxsOf("Buyer", tms, p, q, dep)["redirect_peer"]
            [] n = "redirect_peer" -> TxsOf("Buyer", tms, p, q, dep)["redirect_me"]
    BY DEF TxsOf, TxName, Other
  <1> QED
    BY <1>1 DEF CtxMsg, PeerCtx, Ctx, TxName

\* The invariant implies agreement on the trade.
LEMMA Agreement == IInv => AgreedTrade
  <1> SUFFICES ASSUME IInv, HasSigned("Seller"), HasSigned("Buyer")
               PROVE  /\ txs["Seller"]["deposit"] = txs["Buyer"]["deposit"]
                      /\ terms["Seller"] = terms["Buyer"]
                      /\ \A t \in Tik : tik["Seller"][t].agg = tik["Buyer"][t].agg
                      /\ \A c \in Ctx : CtxMsg(txs["Seller"], c) = CtxMsg(txs["Buyer"], PeerCtx(c))
    BY DEF AgreedTrade, Role
  <1> USE DEF IInv
  <1>1. /\ "Seller" \in Role /\ "Buyer" \in Role
        /\ Other("Seller") = "Buyer" /\ Other("Buyer") = "Seller"
        /\ Built("Seller") /\ Built("Buyer")
    BY DEF Role, Other, StageInv
  <1>2. \A m \in net2 : m.from \in Role /\ Own(m) \in Session
    BY DEF TypeOK, Own, Ctx, Nonce
  <1>3. \A r \in Role : session[r] \in Session /\ session[r] \in Int
    BY BoundAssumption DEF TypeOK, Session
  <1>4. ASSUME NEW r \in Role
        PROVE  \E m, n \in net2, o \in Session :
                 /\ m.from = r /\ Own(m) = session[r] /\ MsgFor(m, o)
                 /\ m.p_agg = tik[r]["p"].agg /\ m.q_agg = tik[r]["q"].agg
                 /\ m.deposit_tx_signed = txs[r]["deposit"]
                 /\ n.from = Other(r) /\ Own(n) = o /\ MsgFor(n, session[r])
                 /\ o <= session[Other(r)]
                 /\ n.p_agg = tik[r]["p"].agg /\ n.q_agg = tik[r]["q"].agg
                 /\ n.deposit_tx_signed = txs[r]["deposit"]
    <2>0. Built(r) /\ HasSigned(r)
      BY <1>1, <1>4 DEF Role
    <2>1. PICK m \in net2 : /\ m.from = r /\ Own(m) = session[r]
                            /\ m.p_agg = tik[r]["p"].agg /\ m.q_agg = tik[r]["q"].agg
                            /\ m.deposit_tx_signed = txs[r]["deposit"]
      BY <2>0, <1>4 DEF BuiltInv
    <2>2. PICK n \in net2 : /\ n.from = Other(r)
                            /\ n.p_agg = tik[r]["p"].agg /\ n.q_agg = tik[r]["q"].agg
                            /\ n.deposit_tx_signed = txs[r]["deposit"]
      BY <2>0, <1>4 DEF SignedInv
    <2>3. PICK o \in Session : o <= session[Other(r)] /\ MsgFor(m, o)
      BY <2>1 DEF Net2Inv
    <2>4. PICK x \in Session : MsgFor(n, x)
      BY <2>2 DEF Net2Inv
    <2>5. Own(n) = o /\ x = Own(m)
      BY <2>1, <2>2, <2>3, <2>4, <1>2, <1>4, SameSessions
    <2> QED
      BY <2>1, <2>2, <2>3, <2>4, <2>5
  <1>5. PICK mS \in net2, nB \in net2, b \in Session :
                 /\ mS.from = "Seller" /\ Own(mS) = session["Seller"] /\ MsgFor(mS, b)
                 /\ mS.p_agg = tik["Seller"]["p"].agg /\ mS.q_agg = tik["Seller"]["q"].agg
                 /\ mS.deposit_tx_signed = txs["Seller"]["deposit"]
                 /\ nB.from = "Buyer" /\ Own(nB) = b /\ MsgFor(nB, session["Seller"])
                 /\ b <= session["Buyer"]
                 /\ nB.p_agg = tik["Seller"]["p"].agg /\ nB.q_agg = tik["Seller"]["q"].agg
                 /\ nB.deposit_tx_signed = txs["Seller"]["deposit"]
    BY <1>1, <1>4
  <1>6. PICK mB \in net2, nS \in net2, a \in Session :
                 /\ mB.from = "Buyer" /\ Own(mB) = session["Buyer"] /\ MsgFor(mB, a)
                 /\ mB.p_agg = tik["Buyer"]["p"].agg /\ mB.q_agg = tik["Buyer"]["q"].agg
                 /\ mB.deposit_tx_signed = txs["Buyer"]["deposit"]
                 /\ nS.from = "Seller" /\ Own(nS) = a /\ MsgFor(nS, session["Buyer"])
                 /\ a <= session["Seller"]
                 /\ nS.p_agg = tik["Buyer"]["p"].agg /\ nS.q_agg = tik["Buyer"]["q"].agg
                 /\ nS.deposit_tx_signed = txs["Buyer"]["deposit"]
    BY <1>1, <1>4
  <1>7. a = session["Seller"] \/ b = session["Buyer"]
    <2>1. ~(Own(nS) < session["Seller"] /\ Own(nB) < session["Buyer"])
      BY <1>1, <1>3, <1>5, <1>6 DEF Net2Inv
    <2>2. a \in Int /\ b \in Int
      BY BoundAssumption DEF Session
    <2> QED
      BY <2>1, <2>2, <1>1, <1>3, <1>5, <1>6
  <1>8. /\ txs["Seller"]["deposit"] = txs["Buyer"]["deposit"]
        /\ tik["Seller"]["p"].agg = tik["Buyer"]["p"].agg
        /\ tik["Seller"]["q"].agg = tik["Buyer"]["q"].agg
    <2>1. CASE a = session["Seller"]
      <3>1. nS = mS
        BY <2>1, <1>5, <1>6 DEF Net2Inv
      <3> QED
        BY <3>1, <1>5, <1>6
    <2>2. CASE b = session["Buyer"]
      <3>1. nB = mB
        BY <2>2, <1>5, <1>6 DEF Net2Inv
      <3> QED
        BY <3>1, <1>5, <1>6
    <2> QED
      BY <2>1, <2>2, <1>7
  <1> DEFINE p == tik["Seller"]["p"].agg
             q == tik["Seller"]["q"].agg
             dep == txs["Seller"]["deposit"]
  <1>9. terms["Seller"] = terms["Buyer"]
    <2>1. \A r \in Role : dep.outs = SortOuts(Out(p, terms[r].seller_amount),
                                              Out(q, terms[r].buyer_amount))
      BY <1>1, <1>8 DEF BuiltInv, Role
    <2> HIDE DEF p, q, dep
    <2>2. /\ terms["Seller"].seller_amount = terms["Buyer"].seller_amount
          /\ terms["Seller"].buyer_amount = terms["Buyer"].buyer_amount
      <3>1. \A x, y : SortOuts(Out(p, x), Out(q, y)) =
                        IF Less(p[1], q[1]) THEN <<Out(p, x), Out(q, y)>>
                                            ELSE <<Out(q, y), Out(p, x)>>
        BY DEF SortOuts, Out
      <3>2. \A x, y, z, w : Out(p, x) = Out(p, z) /\ Out(q, y) = Out(q, w) => x = z /\ y = w
        BY DEF Out
      <3>3. \A x, y, z, w : SortOuts(Out(p, x), Out(q, y)) = SortOuts(Out(p, z), Out(q, w)) =>
                                Out(p, x) = Out(p, z) /\ Out(q, y) = Out(q, w)
        <4>1. \A v1, v2, w1, w2 : <<v1, v2>> = <<w1, w2>> => v1 = w1 /\ v2 = w2
          OBVIOUS
        <4> QED
          BY <3>1, <4>1
      <3> QED
        BY <2>1, <3>2, <3>3, <1>1
    <2> QED
      BY <2>2, <1>1 DEF TypeOK, Terms
  <1>10. /\ txs["Seller"] = TxsOf("Seller", terms["Seller"], p, q, dep)
         /\ txs["Buyer"] = TxsOf("Buyer", terms["Seller"], p, q, dep)
    BY <1>1, <1>8, <1>9 DEF BuiltInv
  <1>11. \A t \in Tik : tik["Seller"][t].agg = tik["Buyer"][t].agg
    BY <1>8 DEF Tik
  <1>12. \A c \in Ctx : CtxMsg(txs["Seller"], c) = CtxMsg(txs["Buyer"], PeerCtx(c))
    <2> SUFFICES ASSUME NEW c \in Ctx
                 PROVE  CtxMsg(txs["Seller"], c) = CtxMsg(txs["Buyer"], PeerCtx(c))
      OBVIOUS
    <2> HIDE DEF p, q, dep
    <2> QED
      BY <1>10, SameMessages
  <1> QED
    BY <1>8, <1>9, <1>11, <1>12

\* Two traders who have both signed are in the same trade, for any number of
\* restarts, any stale or repeated parameters and any amounts they were told.
THEOREM TradersAgree == Spec => []AgreedTrade
  BY Agreement, Invariance, PTL
=============================================================================
