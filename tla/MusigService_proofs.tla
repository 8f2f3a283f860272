------------------------ MODULE MusigService_proofs ------------------------
(***************************************************************************)
(* Proofs about MusigService, for any number of repeats, restarts and      *)
(* crashes, any late copies of calls and any trades that are begun over.   *)
(* They rest on lemmas about TradeModel, which come first: what its        *)
(* handlers return, and which parts of a model they change.                *)
(***************************************************************************)
EXTENDS MusigService, SequenceTheorems, TLAPS


Opt(S) == {<<>>} \cup { <<x>> : x \in S }

PointT == [output : Output \cup {"none"}, trader : Trader \cup {"none"}, gen : Nat]
NonceT == [ctx : Ctx \cup {"none"}, trader : Trader \cup {"none"}, n : Nat]
KeyT   == {<<>>} \cup (PointT \X PointT)

\* A partial signature, and an aggregated one.
SigT   == [ctx : Ctx, key : KeyT, signer : PointT, nonce : NonceT,
           agg_nonce : SUBSET NonceT, adaptor : PointT]
FinalT == [ctx : Ctx, key : KeyT, nonces : SUBSET NonceT, adaptor : PointT]

ModelT ==
    [mine          : [Output -> PointT],
     peers         : [Output -> PointT],
     peers_prv     : [Output -> BOOLEAN],
     agg           : [Output -> KeyT],
     agg_prv       : [Output -> BOOLEAN],
     adaptor_point : PointT,
     pub_nonce     : [Ctx -> NonceT],
     sec_nonce     : [Ctx -> NonceT],
     peers_nonce   : [Ctx -> NonceT],
     agg_nonce     : [Ctx -> SUBSET NonceT],
     my_sig        : [Ctx -> Opt(SigT)],
     peers_sig     : [Ctx -> Opt(SigT)],
     agg_sig       : [Ctx -> Opt(FinalT)]]

\* The shares of r's g-th model, and the nonces of his n-th draw.
KeysOf(r, g)   == [o \in Output |-> Point(o, r, g)]
NoncesOf(r, n) == [c \in Ctx |-> IF n = 0 THEN NoNonce ELSE Nonce(c, r, n)]

\* The signatures a trader passes on: some contexts with theirs, or without.
Sigs(sigs) == DOMAIN sigs \subseteq Ctx /\ sigs \in [DOMAIN sigs -> Opt(SigT)]

-----------------------------------------------------------------------------
(* Constants of the model.                                                 *)

\* Every context has a key, and every trader completes some of them.
LEMMA Contexts ==
    /\ "swap_tx_input" \in Ctx
    /\ \A c \in Ctx : KeyCtx(c) \in Output
    /\ \A r \in Trader : CtxSet(OwnCtx(r)) \subseteq Ctx
  <1>1. "swap_tx_input" \in Ctx /\ \A c \in Ctx : KeyCtx(c) \in Output
    BY DEF Ctx, BuyerKeyCtx, SellerKeyCtx, KeyCtx, Output
  <1>2. \A r \in Trader : CtxSet(OwnCtx(r)) \subseteq Ctx
    BY DEF Ctx, BuyerKeyCtx, SellerKeyCtx, Trader, OwnCtx, CtxSet
  <1> QED
    BY <1>1, <1>2

\* What stands for no point and no nonce.
LEMMA NoneTypes == NoPoint \in PointT /\ NoNonce \in NonceT
  BY DEF NoPoint, NoNonce, Point, Nonce, PointT, NonceT

\* A point is of the type of points.
LEMMA PointTypes ==
    \A o \in Output, r \in Trader, g \in Nat : Point(o, r, g) \in PointT
  BY DEF Point, PointT

\* A nonce is of the type of nonces.
LEMMA NonceTypes ==
    \A c \in Ctx, r \in Trader, n \in Nat :
        Nonce(c, r, n) \in NonceT /\ NoncesOf(r, n) \in [Ctx -> NonceT]
  BY NoneTypes DEF Nonce, NonceT, NoncesOf

\* init_my_key_shares gives a model of the right type, and the shares of its
\* number.
LEMMA NewModelType ==
    ASSUME NEW r \in Trader, NEW g \in Nat
    PROVE  /\ NewModel(r, g) \in ModelT
           /\ NewModel(r, g).mine = KeysOf(r, g)
           /\ NewModel(r, g).pub_nonce = NoncesOf(r, 0)
           /\ NewModel(r, g).sec_nonce = NoncesOf(r, 0)
  <1>1. /\ KeysOf(r, g) \in [Output -> PointT]
        /\ [o \in Output |-> Point(o, r, g)] = KeysOf(r, g)
    BY PointTypes DEF KeysOf
  <1>2. Point("buyer_output", r, g) \in PointT
    BY PointTypes DEF Output
  <1>3. NoncesOf(r, 0) = [c \in Ctx |-> NoNonce] /\ NoncesOf(r, 0) \in [Ctx -> NonceT]
    BY NonceTypes DEF NoncesOf
  <1> QED
    BY <1>1, <1>2, <1>3, NoneTypes DEF NewModel, ModelT, KeyT, Opt

-----------------------------------------------------------------------------
(* What the handlers do.                                                   *)

\* get_nonce_shares sets the keys and draws nonces; what was signed stays.
GotNonces(r, m, shares, n, out) ==
    /\ out.model \in ModelT /\ out.reply = <<NoncesOf(r, n)>>
    /\ out.model.mine = m.mine
    /\ out.model.peers = shares
    /\ out.model.peers_prv = [o \in Output |-> FALSE]
    /\ out.model.agg = [o \in Output |-> KeyShares(r, m.mine[o], shares[o])]
    /\ out.model.agg_prv = [o \in Output |-> FALSE]
    /\ out.model.pub_nonce = NoncesOf(r, n)
    /\ out.model.sec_nonce = NoncesOf(r, n)
    /\ out.model.adaptor_point =
         IF r = "Buyer" THEN shares["buyer_output"] ELSE m.adaptor_point
    /\ out.model.agg_nonce = m.agg_nonce
    /\ out.model.my_sig = m.my_sig
    /\ out.model.peers_sig = m.peers_sig
    /\ out.model.agg_sig = m.agg_sig

\* What get_nonce_shares leaves behind and replies.
LEMMA GetNonceSharesEffect ==
    ASSUME NEW r \in Trader, NEW m \in ModelT, NEW shares \in [Output -> PointT],
           NEW n \in Nat \ {0}, NEW out, out = GetNonceShares(r, m, shares, n)
    PROVE  GotNonces(r, m, shares, n, out)
  <1>1. NoncesOf(r, n) = [c \in Ctx |-> Nonce(c, r, n)] /\ NoncesOf(r, n) \in [Ctx -> NonceT]
    BY NonceTypes DEF NoncesOf
  <1> DEFINE a == IF r = "Buyer" THEN shares["buyer_output"] ELSE m.adaptor_point
  <1>2. /\ out.reply = <<NoncesOf(r, n)>>
        /\ out.model = [m EXCEPT !.peers = shares,
                     !.peers_prv = [o \in Output |-> FALSE],
                     !.agg = [o \in Output |-> KeyShares(r, m.mine[o], shares[o])],
                     !.agg_prv = [o \in Output |-> FALSE],
                     !.adaptor_point = a,
                     !.pub_nonce = NoncesOf(r, n),
                     !.sec_nonce = NoncesOf(r, n)]
    BY <1>1 DEF GetNonceShares, Ok
  <1>3. [o \in Output |-> KeyShares(r, m.mine[o], shares[o])] \in [Output -> KeyT]
    BY DEF KeyShares, KeyT, ModelT
  <1>4. a \in PointT
    BY DEF ModelT, Output
  <1> HIDE DEF a
  <1>5. /\ out.model.mine = m.mine
        /\ out.model.peers = shares
        /\ out.model.agg_nonce = m.agg_nonce
        /\ out.model.my_sig = m.my_sig
        /\ out.model.peers_sig = m.peers_sig
        /\ out.model.agg_sig = m.agg_sig
    BY <1>2 DEF ModelT
  <1>6. /\ out.model.peers_prv = [o \in Output |-> FALSE]
           /\ out.model.agg = [o \in Output |-> KeyShares(r, m.mine[o], shares[o])]
           /\ out.model.agg_prv = [o \in Output |-> FALSE]
           /\ out.model.pub_nonce = NoncesOf(r, n)
           /\ out.model.sec_nonce = NoncesOf(r, n)
    BY <1>2 DEF ModelT
  <1>7. out.model.adaptor_point = a
    BY <1>2 DEF ModelT
  <1>8. out.model \in ModelT
    <2> DEFINE f == [o \in Output |-> FALSE]
               k == [o \in Output |-> KeyShares(r, m.mine[o], shares[o])]
    <2>1. f \in [Output -> BOOLEAN] /\ k \in [Output -> KeyT]
      BY <1>3
    <2> HIDE DEF f, k, KeyT, PointT, NonceT, SigT, FinalT, Opt
    <2>2. out.model = [m EXCEPT !.peers = shares, !.peers_prv = f, !.agg = k, !.agg_prv = f, 
                                !.adaptor_point = a, !.pub_nonce = NoncesOf(r, n),
                                !.sec_nonce = NoncesOf(r, n)]
      BY <1>2 DEF f, k
    <2> HIDE DEF NoncesOf
    <2>3. PICK x : x = NoncesOf(r, n) /\ x \in [Ctx -> NonceT]
      BY <1>1
    <2>4. PICK y : y = [m EXCEPT !.peers = shares, !.peers_prv = f, !.agg = k, !.agg_prv = f]
      OBVIOUS
    <2>5. y \in ModelT
      BY <2>1, <2>4 DEF ModelT
    <2>6. out.model = [y EXCEPT !.adaptor_point = a, !.pub_nonce = x, !.sec_nonce = x]
      BY <2>2, <2>3, <2>4
    <2> QED
      BY <1>4, <2>3, <2>5, <2>6 DEF ModelT
  <1> QED
    BY <1>1, <1>2, <1>3, <1>4, <1>5, <1>6, <1>7, <1>8 DEF GotNonces, a

\* The fields that only get_nonce_shares changes.
SameKeys(m, x) ==
    /\ x.mine = m.mine /\ x.peers = m.peers /\ x.agg = m.agg
    /\ x.adaptor_point = m.adaptor_point /\ x.pub_nonce = m.pub_nonce

\* A partial signature records what it was made with.
LEMMA PartialSigType ==
    ASSUME NEW m \in ModelT, NEW c \in Ctx
    PROVE  /\ PartialSig(m, c) \in SigT
           /\ PartialSig(m, c).ctx = c
           /\ PartialSig(m, c).key = m.agg[KeyCtx(c)]
           /\ PartialSig(m, c).signer = m.mine[KeyCtx(c)]
           /\ PartialSig(m, c).nonce = m.sec_nonce[c]
           /\ PartialSig(m, c).agg_nonce = m.agg_nonce[c]
           /\ PartialSig(m, c).adaptor = AdaptorOf(m, c)
  <1>1. KeyCtx(c) \in Output /\ AdaptorOf(m, c) \in PointT
    BY Contexts, NoneTypes DEF AdaptorOf, ModelT
  <1>2. /\ m.agg[KeyCtx(c)] \in KeyT /\ m.mine[KeyCtx(c)] \in PointT
        /\ m.sec_nonce[c] \in NonceT /\ m.agg_nonce[c] \in SUBSET NonceT
    BY <1>1 DEF ModelT
  <1> QED
    BY <1>1, <1>2 DEF PartialSig, SigT

\* get_partial_signatures signs every context and uses up the secret nonces,
\* or it signs nothing and leaves them.
SignedPartially(r, m, nonces, out) ==
    /\ out.model \in ModelT /\ SameKeys(m, out.model)
    /\ out.model.peers_prv = m.peers_prv /\ out.model.agg_prv = m.agg_prv
    /\ out.model.peers_sig = m.peers_sig /\ out.model.agg_sig = m.agg_sig
    /\ \/ /\ out.reply = <<>>
          /\ out.model.sec_nonce = m.sec_nonce /\ out.model.my_sig = m.my_sig
          /\ \/ out.model.agg_nonce = m.agg_nonce
             \/ /\ \A c \in Ctx : m.pub_nonce[c] # NoNonce
                /\ out.model.agg_nonce = [c \in Ctx |-> {m.pub_nonce[c], nonces[c]}]
       \/ /\ out.reply = <<SigsOnPeerTxs(r, out.model)>>
          /\ \A c \in Ctx : m.pub_nonce[c] # NoNonce /\ m.sec_nonce[c] # NoNonce
          /\ out.model.sec_nonce = NoncesOf(r, 0)
          /\ out.model.agg_nonce = [c \in Ctx |-> {m.pub_nonce[c], nonces[c]}]
          /\ \A c \in Ctx : \E s \in SigT :
                /\ out.model.my_sig[c] = <<s>>
                /\ s.ctx = c /\ s.key = m.agg[KeyCtx(c)]
                /\ s.signer = m.mine[KeyCtx(c)] /\ s.nonce = m.sec_nonce[c]
                /\ s.agg_nonce = {m.pub_nonce[c], nonces[c]}
                /\ s.adaptor = AdaptorOf(m, c)

\* What get_partial_signatures leaves behind and replies.
LEMMA GetPartialSignaturesEffect ==
    ASSUME NEW r \in Trader, NEW m \in ModelT, NEW nonces \in [Ctx -> NonceT],
           NEW out, out = GetPartialSignatures(r, m, nonces)
    PROVE  SignedPartially(r, m, nonces, out)
  <1> DEFINE stored == [m EXCEPT !.peers_nonce = nonces]
             sums   == [c \in Ctx |-> {m.pub_nonce[c], nonces[c]}]
             summed == [stored EXCEPT !.agg_nonce = sums]
             sigs   == [c \in Ctx |-> <<PartialSig(summed, c)>>]
             result == [TakeNonce(summed) EXCEPT !.my_sig = sigs]
  <1>1. /\ stored \in ModelT /\ SameKeys(m, stored)
        /\ stored.peers_prv = m.peers_prv /\ stored.agg_prv = m.agg_prv
        /\ stored.peers_sig = m.peers_sig /\ stored.agg_sig = m.agg_sig
        /\ stored.sec_nonce = m.sec_nonce /\ stored.my_sig = m.my_sig
        /\ stored.agg_nonce = m.agg_nonce
    BY DEF ModelT, SameKeys
  <1>2. sums \in [Ctx -> SUBSET NonceT]
    BY DEF ModelT
  <1> HIDE DEF stored, sums
  <1>3. /\ summed \in ModelT /\ SameKeys(m, summed)
        /\ summed.peers_prv = m.peers_prv /\ summed.agg_prv = m.agg_prv
        /\ summed.peers_sig = m.peers_sig /\ summed.agg_sig = m.agg_sig
        /\ summed.sec_nonce = m.sec_nonce /\ summed.my_sig = m.my_sig
        /\ summed.agg_nonce = sums
    BY <1>1, <1>2 DEF ModelT, SameKeys
  <1> HIDE DEF summed
  <1>4. \A c \in Ctx : /\ PartialSig(summed, c) \in SigT
                       /\ PartialSig(summed, c).ctx = c
                       /\ PartialSig(summed, c).key = m.agg[KeyCtx(c)]
                       /\ PartialSig(summed, c).signer = m.mine[KeyCtx(c)]
                       /\ PartialSig(summed, c).nonce = m.sec_nonce[c]
                       /\ PartialSig(summed, c).agg_nonce = {m.pub_nonce[c], nonces[c]}
                       /\ PartialSig(summed, c).adaptor = AdaptorOf(m, c)
    BY <1>3, PartialSigType DEF SameKeys, AdaptorOf, sums
  <1>5. sigs \in [Ctx -> Opt(SigT)]
    BY <1>4 DEF Opt
  <1>6. /\ TakeNonce(summed) = [summed EXCEPT !.sec_nonce = NoncesOf(r, 0)]
        /\ NoncesOf(r, 0) \in [Ctx -> NonceT]
    BY NonceTypes DEF TakeNonce, NoncesOf
  <1>7. \A c \in Ctx : sigs[c] = <<PartialSig(summed, c)>>
    OBVIOUS
  <1> HIDE DEF sigs
  <1>8. /\ result \in ModelT /\ SameKeys(m, result)
        /\ result.peers_prv = m.peers_prv /\ result.agg_prv = m.agg_prv
        /\ result.peers_sig = m.peers_sig /\ result.agg_sig = m.agg_sig
        /\ result.sec_nonce = NoncesOf(r, 0) /\ result.my_sig = sigs
        /\ result.agg_nonce = sums
    <2> HIDE DEF NoncesOf
    <2> QED
      BY <1>3, <1>5, <1>6 DEF ModelT, SameKeys
  <1>9. out = IF \E c \in Ctx : m.pub_nonce[c] = NoNonce THEN Err(stored)
              ELSE IF \E c \in Ctx : m.sec_nonce[c] = NoNonce THEN Err(summed)
              ELSE Ok(result, SigsOnPeerTxs(r, result))
    BY DEF GetPartialSignatures, stored, sums, summed, sigs
  <1> HIDE DEF result
  <1>10. CASE \E c \in Ctx : m.pub_nonce[c] = NoNonce
    <2>1. out.model = stored /\ out.reply = <<>>
      BY <1>9, <1>10 DEF Err
    <2> QED
      BY <1>1, <2>1 DEF SignedPartially
  <1>11. CASE /\ \A c \in Ctx : m.pub_nonce[c] # NoNonce
              /\ \E c \in Ctx : m.sec_nonce[c] = NoNonce
    <2>1. out.model = summed /\ out.reply = <<>>
      BY <1>9, <1>11 DEF Err
    <2> QED
      BY <1>3, <1>11, <2>1 DEF SignedPartially, sums
  <1>12. CASE \A c \in Ctx : m.pub_nonce[c] # NoNonce /\ m.sec_nonce[c] # NoNonce
    <2>1. out.model = result /\ out.reply = <<SigsOnPeerTxs(r, result)>>
      BY <1>9, <1>12 DEF Ok
    <2> QED
      BY <1>4, <1>7, <1>8, <1>12, <2>1 DEF SignedPartially, sums
  <1> QED
    BY <1>10, <1>11, <1>12 DEF SignedPartially

\* A complete signature records what it was made with.
LEMMA AggSigType ==
    ASSUME NEW m \in ModelT, NEW c \in Ctx, NEW o \in Output
    PROVE  /\ AggSig(m, c, o) \in FinalT
           /\ AggSig(m, c, o) = [ctx |-> c, key |-> m.agg[o], nonces |-> m.agg_nonce[c],
                                 adaptor |-> AdaptorOf(m, c)]
  <1>1. AdaptorOf(m, c) \in PointT
    BY NoneTypes DEF AdaptorOf, ModelT
  <1>2. m.agg[o] \in KeyT /\ m.agg_nonce[c] \in SUBSET NonceT
    BY DEF ModelT
  <1> QED
    BY <1>1, <1>2 DEF AggSig, FinalT

\* Storing and completing signatures changes neither keys nor nonces nor my own
\* signatures.
SameButSigs(m, x) ==
    /\ SameKeys(m, x)
    /\ x.peers_prv = m.peers_prv /\ x.agg_prv = m.agg_prv
    /\ x.sec_nonce = m.sec_nonce /\ x.agg_nonce = m.agg_nonce
    /\ x.my_sig = m.my_sig

\* The model after the signatures of the peer were stored.
LEMMA StoredSigs ==
    ASSUME NEW m \in ModelT, NEW peers \in [Ctx -> Opt(SigT)],
           NEW stored, stored = [m EXCEPT !.peers_sig = peers]
    PROVE  /\ stored \in ModelT /\ SameButSigs(m, stored)
           /\ stored.peers_sig = peers /\ stored.agg_sig = m.agg_sig
  BY DEF ModelT, SameButSigs, SameKeys

\* The model after signatures were completed.
LEMMA CompletedSigs ==
    ASSUME NEW m \in ModelT, NEW sigs \in [Ctx -> Opt(FinalT)],
           NEW after, after = [m EXCEPT !.agg_sig = sigs]
    PROVE  /\ after \in ModelT /\ SameButSigs(m, after)
           /\ after.peers_sig = m.peers_sig /\ after.agg_sig = sigs
           /\ \A c \in Ctx, o \in Output :
                /\ CanAggregate(after, c, o) <=> CanAggregate(m, c, o)
                /\ AggSig(after, c, o) = AggSig(m, c, o)
  <1>1. /\ after \in ModelT /\ SameButSigs(m, after)
        /\ after.peers_sig = m.peers_sig /\ after.agg_sig = sigs
    BY DEF ModelT, SameButSigs, SameKeys
  <1>2. \A c \in Ctx : AdaptorOf(after, c) = AdaptorOf(m, c)
    BY <1>1 DEF AdaptorOf, SameButSigs, SameKeys
  <1>3. after.agg = m.agg /\ after.agg_nonce = m.agg_nonce /\ after.my_sig = m.my_sig
    BY <1>1 DEF SameButSigs, SameKeys
  <1>4. ASSUME NEW c \in Ctx, NEW o \in Output
        PROVE  /\ CanAggregate(after, c, o) <=> CanAggregate(m, c, o)
               /\ AggSig(after, c, o) = AggSig(m, c, o)
    <2>1. AdaptorOf(after, c) = AdaptorOf(m, c)
      BY <1>2
    <2> HIDE DEF AdaptorOf
    <2>2. CanAggregate(after, c, o) <=> CanAggregate(m, c, o)
      BY <1>1, <1>3, <2>1 DEF CanAggregate
    <2>3. AggSig(after, c, o) = AggSig(m, c, o)
      BY <1>3, <2>1 DEF AggSig
    <2> QED
      BY <2>2, <2>3
  <1> QED
    BY <1>1, <1>4

\* sign_deposit_tx completes only signatures that verify, and answers only if it
\* has completed all of them, the buyer's with the swap's.
SignedDeposit(r, m, sigs, out) ==
    /\ out.model \in ModelT /\ SameButSigs(m, out.model)
    /\ out.model.peers_sig = [c \in Ctx |->
           IF c \in DOMAIN sigs THEN sigs[c] ELSE m.peers_sig[c]]
    /\ out.reply = <<>> \/ out.reply = <<"deposit_psbt">>
    /\ \A c \in Ctx :
         \/ out.model.agg_sig[c] = m.agg_sig[c]
         \/ /\ CanAggregate(out.model, c, KeyCtx(c))
            /\ out.model.agg_sig[c] = <<AggSig(out.model, c, KeyCtx(c))>>
    /\ out.reply # <<>> /\ r = "Buyer" =>
         /\ CanAggregate(out.model, "swap_tx_input", "seller_output")
         /\ out.model.agg_sig["swap_tx_input"]
              = <<AggSig(out.model, "swap_tx_input", "seller_output")>>
    /\ r = "Seller" =>
         out.model.agg_sig["swap_tx_input"] = m.agg_sig["swap_tx_input"]

\* What sign_deposit_tx leaves behind, also when it fails half way.
LEMMA SignDepositTxEffect ==
    ASSUME NEW r \in Trader, NEW m \in ModelT, NEW sigs, Sigs(sigs),
           NEW out, out = SignDepositTx(r, m, sigs)
    PROVE  SignedDeposit(r, m, sigs, out)
  <1> DEFINE peers  == [c \in Ctx |-> IF c \in DOMAIN sigs THEN sigs[c] ELSE m.peers_sig[c]]
             stored == [m EXCEPT !.peers_sig = peers]
             order  == AggregatedCtx(r)
             Fine(k) == \A i \in 1 .. k : CanAggregate(stored, order[i], KeyCtx(order[i]))
             done   == { order[k] : k \in { i \in 1 .. Len(order) : Fine(i) } }
             aggs   == [c \in Ctx |-> IF c \in done THEN <<AggSig(stored, c, KeyCtx(c))>>
                                                    ELSE m.agg_sig[c]]
             after  == [stored EXCEPT !.agg_sig = aggs]
  <1>1. out = IF Fine(Len(order)) THEN Ok(after, "deposit_psbt") ELSE Err(after)
    BY DEF SignDepositTx
  <1>2. peers \in [Ctx -> Opt(SigT)]
    BY DEF ModelT, Sigs
  <1>3. /\ stored \in ModelT /\ SameButSigs(m, stored)
        /\ stored.peers_sig = peers /\ stored.agg_sig = m.agg_sig
    <2> HIDE DEF peers
    <2> QED
      BY <1>2, StoredSigs
  <1> HIDE DEF stored
  <1>4. aggs \in [Ctx -> Opt(FinalT)]
    <2>1. \A c \in Ctx : AggSig(stored, c, KeyCtx(c)) \in FinalT
      BY <1>3, Contexts, AggSigType
    <2>2. \A c \in Ctx : m.agg_sig[c] \in Opt(FinalT)
      BY DEF ModelT
    <2> QED
      BY <2>1, <2>2 DEF Opt
  <1>5. /\ after \in ModelT /\ SameButSigs(stored, after)
        /\ after.peers_sig = peers /\ after.agg_sig = aggs
        /\ \A c \in Ctx, o \in Output :
             /\ CanAggregate(after, c, o) <=> CanAggregate(stored, c, o)
             /\ AggSig(after, c, o) = AggSig(stored, c, o)
    <2> HIDE DEF aggs, peers
    <2> QED
      BY <1>3, <1>4, CompletedSigs
  <1>6. SameButSigs(m, after)
    BY <1>3, <1>5 DEF SameButSigs, SameKeys
  <1>7. \A c \in done : CanAggregate(stored, c, KeyCtx(c))
    <2> SUFFICES ASSUME NEW k \in 1 .. Len(order), Fine(k)
                 PROVE  CanAggregate(stored, order[k], KeyCtx(order[k]))
      OBVIOUS
    <2>1. k \in 1 .. k
      OBVIOUS
    <2> QED
      BY <2>1
  <1>8. r = "Buyer" => Len(order) = 4 /\ order[4] = "swap_tx_input"
    BY DEF AggregatedCtx, OwnCtx
  <1>9. r = "Seller" => "swap_tx_input" \notin done
    <2> SUFFICES ASSUME r = "Seller" PROVE \A k \in 1 .. Len(order) : order[k] # "swap_tx_input"
      OBVIOUS
    <2> QED
      BY DEF AggregatedCtx, OwnCtx
  <1>10. r = "Buyer" /\ Fine(Len(order)) => "swap_tx_input" \in done
    BY <1>8
  <1> HIDE DEF done, Fine, order
  <1>11. \A c \in Ctx :
           \/ after.agg_sig[c] = m.agg_sig[c]
           \/ /\ CanAggregate(after, c, KeyCtx(c))
              /\ after.agg_sig[c] = <<AggSig(after, c, KeyCtx(c))>>
    <2> TAKE c \in Ctx
    <2>1. KeyCtx(c) \in Output
      BY Contexts
    <2>2. CASE c \in done
      BY <1>5, <1>7, <2>1, <2>2
    <2>3. CASE c \notin done
      BY <1>5, <2>3
    <2> QED
      BY <2>2, <2>3
  <1>12. "swap_tx_input" \in Ctx /\ KeyCtx("swap_tx_input") = "seller_output"
         /\ "seller_output" \in Output
    BY Contexts DEF KeyCtx, BuyerKeyCtx, Output
  <1>13. "swap_tx_input" \in done =>
           /\ CanAggregate(after, "swap_tx_input", "seller_output")
           /\ after.agg_sig["swap_tx_input"] = <<AggSig(after, "swap_tx_input", "seller_output")>>
    BY <1>5, <1>7, <1>12
  <1>14. "swap_tx_input" \notin done =>
           after.agg_sig["swap_tx_input"] = m.agg_sig["swap_tx_input"]
    BY <1>5, <1>12
  <1>15. out.model = after /\ (out.reply = <<>> \/ out.reply = <<"deposit_psbt">>)
         /\ (out.reply # <<>> => Fine(Len(order)))
    <2> HIDE DEF after
    <2> QED
      BY <1>1 DEF Ok, Err
  <1> HIDE DEF after, aggs, peers
  <1> QED
    BY <1>5, <1>6, <1>9, <1>10, <1>11, <1>13, <1>14, <1>15 DEF SignedDeposit, peers

\* sign_swap_tx hands out the swap only with a signature that it has completed,
\* made for the secret that it puts in.
SignedSwap(m, sig, out) ==
    /\ out.model \in ModelT /\ SameButSigs(m, out.model)
    /\ \A c \in Ctx \ {"swap_tx_input"} : /\ out.model.agg_sig[c] = m.agg_sig[c]
                                          /\ out.model.peers_sig[c] = m.peers_sig[c]
    /\ out.model.peers_sig["swap_tx_input"] = <<sig>>
    /\ \/ out.reply = <<>>
       \/ /\ CanAggregate(out.model, "swap_tx_input", "seller_output")
          /\ out.reply = <<[swap_tx |-> [ctx     |-> "swap_tx_input",
                                         key     |-> m.agg["seller_output"],
                                         nonces  |-> m.agg_nonce["swap_tx_input"],
                                         adaptor |-> m.mine["buyer_output"]],
                            share   |-> m.mine["buyer_output"]]>>

\* What sign_swap_tx leaves behind and replies.
LEMMA SignSwapTxEffect ==
    ASSUME NEW m \in ModelT, NEW sig \in SigT, NEW out,
           out = SignSwapTx("Seller", m, sig)
    PROVE  SignedSwap(m, sig, out)
  <1> DEFINE swap   == "swap_tx_input"
             peers  == [m.peers_sig EXCEPT ![swap] = <<sig>>]
             stored == [m EXCEPT !.peers_sig["swap_tx_input"] = <<sig>>]
             agg    == AggSig(stored, "swap_tx_input", MyOutput("Seller"))
             aggs   == [stored.agg_sig EXCEPT ![swap] = <<agg>>]
             after  == [stored EXCEPT !.agg_sig["swap_tx_input"] = <<agg>>]
  <1>0. /\ swap \in Ctx /\ "seller_output" \in Output /\ "buyer_output" \in Output
        /\ MyOutput("Seller") = "seller_output"
    BY Contexts DEF Output, MyOutput
  <1>1. out = IF ~CanAggregate(stored, swap, "seller_output") THEN Err(stored)
              ELSE Ok(after, [swap_tx |-> [agg EXCEPT !.adaptor = m.mine["buyer_output"]],
                              share   |-> m.mine["buyer_output"]])
    <2>1. SignSwapTx("Seller", m, sig)
            = IF ~CanAggregate(stored, "swap_tx_input", MyOutput("Seller")) THEN Err(stored)
              ELSE IF SellersPrvKey("Seller", after) = <<>> THEN Err(after)
              ELSE Ok(after, [swap_tx |-> [agg EXCEPT !.adaptor = SellersPrvKey("Seller", after)[1]],
                              share   |-> ShareForPeer("Seller", m)])
      BY DEF SignSwapTx
    <2>3. ShareForPeer("Seller", m) = m.mine["buyer_output"]
      BY DEF ShareForPeer
    <2>4. SellersPrvKey("Seller", after) = <<m.mine["buyer_output"]>>
      BY DEF SellersPrvKey, ModelT
    <2>5. <<m.mine["buyer_output"]>> # <<>> /\ <<m.mine["buyer_output"]>>[1] = m.mine["buyer_output"]
      OBVIOUS
    <2> HIDE DEF stored, after, agg
    <2> QED
      BY <1>0, <2>1, <2>3, <2>4, <2>5
  <1>2. peers \in [Ctx -> Opt(SigT)] /\ peers[swap] = <<sig>>
        /\ \A c \in Ctx \ {swap} : peers[c] = m.peers_sig[c]
    BY <1>0 DEF ModelT, Opt
  <1>3. /\ stored \in ModelT /\ SameButSigs(m, stored)
        /\ stored.peers_sig = peers /\ stored.agg_sig = m.agg_sig
    <2>1. stored = [m EXCEPT !.peers_sig = peers]
      OBVIOUS
    <2> HIDE DEF peers, stored
    <2> QED
      BY <1>2, <2>1, StoredSigs
  <1> HIDE DEF stored
  <1>4. /\ agg \in FinalT
        /\ agg = [ctx |-> swap, key |-> m.agg["seller_output"], nonces |-> m.agg_nonce[swap],
                  adaptor |-> AdaptorOf(stored, swap)]
    BY <1>0, <1>3, AggSigType DEF SameButSigs, SameKeys
  <1> HIDE DEF agg
  <1>5. aggs \in [Ctx -> Opt(FinalT)] /\ \A c \in Ctx \ {swap} : aggs[c] = m.agg_sig[c]
    BY <1>0, <1>3, <1>4 DEF ModelT, Opt
  <1>6. /\ after \in ModelT /\ SameButSigs(stored, after)
        /\ after.peers_sig = peers /\ after.agg_sig = aggs
        /\ CanAggregate(after, swap, "seller_output")
             <=> CanAggregate(stored, swap, "seller_output")
    <2>1. after = [stored EXCEPT !.agg_sig = aggs]
      OBVIOUS
    <2> HIDE DEF aggs, peers, after
    <2> QED
      BY <1>0, <1>3, <1>5, <2>1, CompletedSigs
  <1> HIDE DEF after, aggs, peers
  <1>7. CASE ~CanAggregate(stored, swap, "seller_output")
    <2>1. out.model = stored /\ out.reply = <<>>
      BY <1>1, <1>7 DEF Err
    <2> QED
      BY <1>2, <1>3, <2>1 DEF SignedSwap
  <1>8. CASE CanAggregate(stored, swap, "seller_output")
    <2>1. /\ out.model = after
          /\ out.reply = <<[swap_tx |-> [agg EXCEPT !.adaptor = m.mine["buyer_output"]],
                            share   |-> m.mine["buyer_output"]]>>
      BY <1>1, <1>8 DEF Ok
    <2>2. SameButSigs(m, after)
      BY <1>3, <1>6 DEF SameButSigs, SameKeys
    <2>3. [agg EXCEPT !.adaptor = m.mine["buyer_output"]]
            = [ctx |-> swap, key |-> m.agg["seller_output"], nonces |-> m.agg_nonce[swap],
               adaptor |-> m.mine["buyer_output"]]
      BY <1>4
    <2> QED
      BY <1>2, <1>3, <1>5, <1>6, <1>8, <2>1, <2>2, <2>3 DEF SignedSwap
  <1> QED
    BY <1>7, <1>8 DEF SignedSwap

\* close_trade learns a share of the peer's only from its secret, which it is
\* given or finds in the completed signature of the swap.
Closing(r, m, request, out) ==
    /\ out.model \in ModelT /\ SameKeys(m, out.model)
    /\ out.model.sec_nonce = m.sec_nonce /\ out.model.agg_nonce = m.agg_nonce
    /\ out.model.my_sig = m.my_sig /\ out.model.peers_sig = m.peers_sig
    /\ out.model.agg_sig = m.agg_sig
    /\ out.reply = <<>> \/ out.reply = <<ShareForPeer(r, m)>>
    /\ \/ /\ out.model.peers_prv = m.peers_prv /\ out.model.agg_prv = m.agg_prv
          /\ out.reply = <<>> \/ request = [prv |-> <<>>, swap_tx |-> <<>>]
       \/ /\ m.peers[MyOutput(r)] # NoPoint
          /\ out.reply # <<>>
          /\ out.model.peers_prv = [m.peers_prv EXCEPT ![MyOutput(r)] = TRUE]
          /\ out.model.agg_prv = [m.agg_prv EXCEPT ![MyOutput(r)] = TRUE]
          /\ \/ request.prv = <<m.peers[MyOutput(r)]>>
             \/ /\ r = "Buyer"
                /\ request.prv = <<>> /\ request.swap_tx # <<>>
                /\ m.agg_sig["swap_tx_input"] = request.swap_tx
                /\ request.swap_tx[1].adaptor = m.peers[MyOutput(r)]
       \/ /\ m.peers_prv[MyOutput(r)] /\ out.model.peers_prv = m.peers_prv
          /\ out.model.agg_prv = [m.agg_prv EXCEPT ![MyOutput(r)] = TRUE]
          /\ r = "Seller"

\* What close_trade leaves behind and replies.
LEMMA CloseTradeEffect ==
    ASSUME NEW r \in Trader, NEW m \in ModelT,
           NEW request \in [prv : Opt(PointT), swap_tx : Opt(FinalT)],
           NEW out, out = CloseTrade(r, m, request)
    PROVE  Closing(r, m, request, out)
  <1> DEFINE o == MyOutput(r)
             learnt == [m EXCEPT !.peers_prv[o] = TRUE, !.agg_prv[o] = TRUE]
             recovered == [m EXCEPT !.agg_prv[o] = TRUE]
  <1>1. o \in Output
    BY DEF MyOutput, Output
  <1>2. /\ learnt \in ModelT /\ SameKeys(m, learnt)
        /\ learnt.sec_nonce = m.sec_nonce /\ learnt.agg_nonce = m.agg_nonce
        /\ learnt.my_sig = m.my_sig /\ learnt.peers_sig = m.peers_sig
        /\ learnt.agg_sig = m.agg_sig
        /\ learnt.peers_prv = [m.peers_prv EXCEPT ![o] = TRUE]
        /\ learnt.agg_prv = [m.agg_prv EXCEPT ![o] = TRUE]
    <2> DEFINE p == [m.peers_prv EXCEPT ![o] = TRUE]
               a == [m.agg_prv EXCEPT ![o] = TRUE]
    <2>1. learnt = [m EXCEPT !.peers_prv = p, !.agg_prv = a]
      OBVIOUS
    <2>2. p \in [Output -> BOOLEAN] /\ a \in [Output -> BOOLEAN]
      BY DEF ModelT
    <2> HIDE DEF p, a, learnt
    <2>3. /\ learnt \in ModelT /\ SameKeys(m, learnt)
          /\ learnt.sec_nonce = m.sec_nonce /\ learnt.agg_nonce = m.agg_nonce
          /\ learnt.my_sig = m.my_sig /\ learnt.peers_sig = m.peers_sig
          /\ learnt.agg_sig = m.agg_sig
          /\ learnt.peers_prv = p /\ learnt.agg_prv = a
      BY <2>1, <2>2 DEF ModelT, SameKeys
    <2> QED
      BY <2>3 DEF p, a
  <1>3. /\ recovered \in ModelT /\ SameKeys(m, recovered)
        /\ recovered.sec_nonce = m.sec_nonce /\ recovered.agg_nonce = m.agg_nonce
        /\ recovered.my_sig = m.my_sig /\ recovered.peers_sig = m.peers_sig
        /\ recovered.agg_sig = m.agg_sig /\ recovered.peers_prv = m.peers_prv
        /\ recovered.agg_prv = [m.agg_prv EXCEPT ![o] = TRUE]
    <2> DEFINE a == [m.agg_prv EXCEPT ![o] = TRUE]
    <2>1. recovered = [m EXCEPT !.agg_prv = a]
      OBVIOUS
    <2>2. a \in [Output -> BOOLEAN]
      BY DEF ModelT
    <2> HIDE DEF a, recovered
    <2>3. /\ recovered \in ModelT /\ SameKeys(m, recovered)
          /\ recovered.sec_nonce = m.sec_nonce /\ recovered.agg_nonce = m.agg_nonce
          /\ recovered.my_sig = m.my_sig /\ recovered.peers_sig = m.peers_sig
          /\ recovered.agg_sig = m.agg_sig /\ recovered.peers_prv = m.peers_prv
          /\ recovered.agg_prv = a
      BY <2>1, <2>2 DEF ModelT, SameKeys
    <2> QED
      BY <2>3 DEF a
  <1> HIDE DEF learnt, recovered
  <1>4. ASSUME NEW secret, out = LearnShare(r, m, o, secret)
        PROVE  \/ out.model = m /\ out.reply = <<>>
               \/ /\ out.model = learnt /\ out.reply = <<ShareForPeer(r, m)>>
                  /\ m.peers[o] # NoPoint /\ secret = m.peers[o]
    <2>1. out = IF m.peers[o] = NoPoint \/ secret # m.peers[o] THEN Err(m)
                ELSE Ok(learnt, ShareForPeer(r, m))
      BY <1>4 DEF LearnShare, learnt
    <2> HIDE DEF o
    <2> QED
      BY <2>1 DEF Ok, Err
  <1>5. CASE request.prv # <<>>
    <2>1. out = LearnShare(r, m, o, request.prv[1])
      BY <1>5 DEF CloseTrade
    <2>2. PICK x \in PointT : request.prv = <<x>>
      BY <1>5 DEF Opt
    <2> HIDE DEF o
    <2>3. \/ out.model = m /\ out.reply = <<>>
          \/ /\ out.model = learnt /\ out.reply = <<ShareForPeer(r, m)>>
             /\ m.peers[o] # NoPoint /\ x = m.peers[o]
      BY <1>4, <2>1, <2>2
    <2>4. CASE out.model = m /\ out.reply = <<>>
      BY <2>4 DEF Closing, SameKeys
    <2>5. CASE /\ out.model = learnt /\ out.reply = <<ShareForPeer(r, m)>>
               /\ m.peers[o] # NoPoint /\ x = m.peers[o]
      BY <1>2, <2>2, <2>5 DEF Closing, o
    <2> QED
      BY <2>3, <2>4, <2>5
  <1>6. CASE request.prv = <<>> /\ request.swap_tx # <<>>
    <2>1. PICK x \in FinalT : request.swap_tx = <<x>>
      BY <1>6 DEF Opt
    <2>2. out = RecoverShare(r, m, x)
      BY <1>6, <2>1 DEF CloseTrade
    <2>3. CASE m.agg_sig["swap_tx_input"] # <<x>>
      <3>1. out.model = m /\ out.reply = <<>>
        BY <2>2, <2>3 DEF RecoverShare, Err
      <3> QED
        BY <3>1 DEF Closing, SameKeys
    <2>4. CASE m.agg_sig["swap_tx_input"] = <<x>> /\ r = "Buyer"
      <3>1. out = LearnShare(r, m, o, x.adaptor)
        BY <2>2, <2>4 DEF RecoverShare, o, MyOutput
      <3> HIDE DEF o
      <3>2. \/ out.model = m /\ out.reply = <<>>
            \/ /\ out.model = learnt /\ out.reply = <<ShareForPeer(r, m)>>
               /\ m.peers[o] # NoPoint /\ x.adaptor = m.peers[o]
        BY <1>4, <3>1
      <3> QED
        BY <1>2, <1>6, <2>1, <2>4, <3>2 DEF Closing, SameKeys, o
    <2>5. CASE m.agg_sig["swap_tx_input"] = <<x>> /\ r # "Buyer"
      <3>1. out = IF m.peers_prv[o] THEN Ok(recovered, ShareForPeer(r, m)) ELSE Err(m)
        BY <2>2, <2>5 DEF RecoverShare, recovered
      <3>2. r = "Seller"
        BY <2>5 DEF Trader
      <3>3. \/ out.model = m /\ out.reply = <<>>
            \/ out.model = recovered /\ out.reply = <<ShareForPeer(r, m)>> /\ m.peers_prv[o]
        <4> HIDE DEF o
        <4> QED
          BY <3>1 DEF Ok, Err
      <3> QED
        BY <1>3, <3>2, <3>3 DEF Closing, SameKeys
    <2> QED
      BY <2>3, <2>4, <2>5
  <1>7. CASE request.prv = <<>> /\ request.swap_tx = <<>>
    <2>1. out.model = m /\ out.reply = <<ShareForPeer(r, m)>>
      BY <1>7 DEF CloseTrade, Ok
    <2>2. request = [prv |-> <<>>, swap_tx |-> <<>>]
      BY <1>7
    <2> QED
      BY <2>1, <2>2 DEF Closing, SameKeys
  <1> QED
    BY <1>5, <1>6, <1>7 DEF Closing


-----------------------------------------------------------------------------
(* The types of everything that is stored or sent.                         *)

\* The shares of some model of r.
SharesOf(r, shares) == \E g \in 1 .. Len(models[r]) : shares = KeysOf(r, g)

\* Model m is r's g-th, and was given the shares of the peer's h-th, or none yet.
Keyed(r, g, h, m) ==
    /\ m.mine = KeysOf(r, g)
    /\ m.peers = [o \in Output |-> IF h = 0 THEN NoPoint ELSE Point(o, Peer(r), h)]
    /\ m.agg = [o \in Output |-> IF h = 0 THEN <<>>
                                 ELSE KeyShares(r, Point(o, r, g), Point(o, Peer(r), h))]
    /\ m.adaptor_point = IF r = "Seller" THEN Point("buyer_output", r, g)
                         ELSE IF h = 0 THEN NoPoint ELSE Point("buyer_output", "Seller", h)
    /\ \A o \in Output : m.peers_prv[o] => h # 0
    /\ \A o \in Output : m.agg_prv[o] => m.peers_prv[o]

ModelsInv ==
    /\ models \in [Trader -> Seq(ModelT)]
    /\ \A r \in Trader : \A g \in 1 .. Len(models[r]) :
         \E h \in 0 .. Len(models[Peer(r)]) : Keyed(r, g, h, models[r][g])

ServerInv ==
    /\ store \in [Trader -> Nat] /\ \A r \in Trader : store[r] <= Len(models[r])
    /\ draws \in [Trader -> Nat]

\* The argument of r's call of an RPC.
ArgOk(r, rpc, arg) ==
    /\ rpc = "get_nonce_shares"       => SharesOf(Peer(r), arg)
    /\ rpc = "get_partial_signatures" => arg \in [Ctx -> NonceT]
    /\ rpc = "sign_deposit_tx"        => Sigs(arg)
    /\ rpc = "sign_swap_tx"           => arg \in SigT /\ r = "Seller"
    /\ rpc = "close_trade"            => arg \in [prv : Opt(PointT), swap_tx : Opt(FinalT)]

CallOk(call) ==
    /\ call = [from |-> call.from, rpc |-> call.rpc, arg |-> call.arg, id |-> call.id,
               model |-> call.model]
    /\ call.from \in Trader /\ call.id \in Nat
    /\ call.model \in 0 .. Len(models[call.from])
    /\ ArgOk(call.from, call.rpc, call.arg)

CallsInv == \A call \in calls : CallOk(call)

\* What r has told the peer.
BodyOk(r, kind, body) ==
    /\ kind = "keys"     => SharesOf(r, body)
    /\ kind = "nonces"   => body \in [Ctx -> NonceT]
    /\ kind = "sigs"     => Sigs(body)
    /\ kind = "swap_sig" => body \in SigT
    /\ kind = "prv"      => body \in PointT
    /\ kind = "swap_tx"  => body \in FinalT

ToldInv == \A t \in told : t.from \in Trader /\ BodyOk(t.from, t.kind, t.body)

ClientTypes ==
    /\ step \in [Trader -> 1 .. 7] /\ repeats \in [Trader -> Nat]
    /\ waiting \in [Trader -> BOOLEAN] /\ stopped \in [Trader -> BOOLEAN]

\* A client keeps the buyer's signature on the swap, or the seller's swap, from
\* the call that returns it.
KeptInv ==
    /\ kept \in [Trader -> Opt(SigT) \cup Opt(FinalT)]
    /\ kept["Buyer"] \in Opt(SigT) /\ (step["Buyer"] >= 4 => kept["Buyer"] # <<>>)
    /\ kept["Seller"] \in Opt(FinalT) /\ (step["Seller"] >= 6 => kept["Seller"] # <<>>)

ClientInv == ClientTypes /\ KeptInv

HistoryInv ==
    /\ signed \subseteq SigT /\ finals \subseteq FinalT /\ closed \subseteq KeyT

TypeInv == ModelsInv /\ ServerInv /\ CallsInv /\ ToldInv /\ ClientInv /\ HistoryInv

-----------------------------------------------------------------------------
(* The scripts of the clients.                                             *)

\* The peer of a trader is the other one.
LEMMA Peers ==
    /\ Peer("Buyer") = "Seller" /\ Peer("Seller") = "Buyer"
    /\ \A r \in Trader : Peer(r) \in Trader /\ Peer(Peer(r)) = r /\ Peer(r) # r
  BY DEF Peer, Trader

\* Each script has six calls; which position makes which.
LEMMA Scripts ==
    /\ \A r \in Trader : Len(Script(r)) = 6
    /\ \A r \in Trader, i \in 1 .. 6 :
         /\ Script(r)[i] = "init_trade" <=> i = 1
         /\ Script(r)[i] = "get_nonce_shares" <=> i = 2
         /\ Script(r)[i] = "get_partial_signatures" <=> i = 3
         /\ Script(r)[i] = "sign_deposit_tx" <=> i = 4
         /\ Script(r)[i] = "publish_deposit_tx" <=> i = 5 /\ r = "Buyer"
         /\ Script(r)[i] = "sign_swap_tx" <=> i = 5 /\ r = "Seller"
         /\ Script(r)[i] = "close_trade" <=> i = 6
  <1>1. \A r \in Trader : Len(Script(r)) = 6
    BY DEF Script, Trader
  <1>2. ASSUME NEW r \in Trader, NEW i \in 1 .. 6
        PROVE  /\ Script(r)[i] = "init_trade" <=> i = 1
               /\ Script(r)[i] = "get_nonce_shares" <=> i = 2
               /\ Script(r)[i] = "get_partial_signatures" <=> i = 3
               /\ Script(r)[i] = "sign_deposit_tx" <=> i = 4
               /\ Script(r)[i] = "publish_deposit_tx" <=> i = 5 /\ r = "Buyer"
               /\ Script(r)[i] = "sign_swap_tx" <=> i = 5 /\ r = "Seller"
               /\ Script(r)[i] = "close_trade" <=> i = 6
    <2>1. i = 1 \/ i = 2 \/ i = 3 \/ i = 4 \/ i = 5 \/ i = 6
      OBVIOUS
    <2>2. CASE r = "Buyer"
      BY <2>1, <2>2 DEF Script
    <2>3. CASE r = "Seller"
      BY <2>1, <2>3 DEF Script
    <2> QED
      BY <2>2, <2>3 DEF Trader
  <1> QED
    BY <1>1, <1>2

-----------------------------------------------------------------------------
(* What grows: the models of a trader.                                     *)

Grows == \A r \in Trader : Len(models'[r]) \in Nat /\ Len(models[r]) \in Nat
                           /\ Len(models[r]) <= Len(models'[r])

\* Every model of a trader is a model.
LEMMA ModelsTypes ==
    ASSUME models \in [Trader -> Seq(ModelT)], NEW r \in Trader
    PROVE  /\ models[r] \in Seq(ModelT) /\ Len(models[r]) \in Nat
           /\ DOMAIN models[r] = 1 .. Len(models[r])
           /\ \A g \in 1 .. Len(models[r]) : models[r][g] \in ModelT
  <1>1. models[r] \in Seq(ModelT)
    OBVIOUS
  <1> QED
    BY <1>1, LenProperties, ElementOfSeq

\* What was typed stays typed when models are added.
LEMMA GrowthKeeps ==
    ASSUME Grows
    PROVE  /\ \A r \in Trader : \A shares : SharesOf(r, shares) => SharesOf(r, shares)'
           /\ \A r \in Trader : \A kind, body : BodyOk(r, kind, body) => BodyOk(r, kind, body)'
           /\ \A r \in Trader : \A rpc, arg : ArgOk(r, rpc, arg) => ArgOk(r, rpc, arg)'
           /\ \A call : CallOk(call) => CallOk(call)'
  <1>1. ASSUME NEW r \in Trader, NEW shares, SharesOf(r, shares)
        PROVE  SharesOf(r, shares)'
    BY <1>1 DEF SharesOf, Grows
  <1>2. \A r \in Trader : \A kind, body : BodyOk(r, kind, body) => BodyOk(r, kind, body)'
    BY <1>1 DEF BodyOk
  <1>3. ASSUME NEW r \in Trader, NEW rpc, NEW arg, ArgOk(r, rpc, arg)
        PROVE  ArgOk(r, rpc, arg)'
    <2>1. Peer(r) \in Trader
      BY Peers
    <2> QED
      BY <1>1, <1>3, <2>1 DEF ArgOk
  <1>4. ASSUME NEW call, CallOk(call)
        PROVE  CallOk(call)'
    <2>1. call.from \in Trader
      BY <1>4 DEF CallOk
    <2>2. ArgOk(call.from, call.rpc, call.arg)'
      BY <1>3, <1>4, <2>1 DEF CallOk
    <2>3. call.model \in 0 .. Len(models'[call.from])
      BY <1>4, <2>1 DEF CallOk, Grows
    <2> QED
      BY <1>4, <2>1, <2>2, <2>3 DEF CallOk
  <1> QED
    BY <1>1, <1>2, <1>3, <1>4

\* init_trade adds a model.
LEMMA AddedModel ==
    ASSUME models \in [Trader -> Seq(ModelT)], NEW r \in Trader, NEW m \in ModelT,
           models' = [models EXCEPT ![r] = Append(@, m)]
    PROVE  /\ models' \in [Trader -> Seq(ModelT)] /\ Grows
           /\ \A q \in Trader \ {r} : models'[q] = models[q]
           /\ Len(models'[r]) = Len(models[r]) + 1
           /\ models'[r][Len(models[r]) + 1] = m
           /\ \A g \in 1 .. Len(models[r]) : models'[r][g] = models[r][g]
  <1>1. models[r] \in Seq(ModelT) /\ models'[r] = Append(models[r], m)
    OBVIOUS
  <1>2. /\ Len(models'[r]) = Len(models[r]) + 1 /\ models'[r] \in Seq(ModelT)
        /\ models'[r][Len(models[r]) + 1] = m
        /\ \A g \in 1 .. Len(models[r]) : models'[r][g] = models[r][g]
    BY <1>1, AppendProperties, LenProperties
  <1>3. models' \in [Trader -> Seq(ModelT)]
    BY <1>2
  <1>4. \A q \in Trader : Len(models[q]) \in Nat
    BY ModelsTypes
  <1>5. \A q \in Trader \ {r} : models'[q] = models[q]
    OBVIOUS
  <1> QED
    BY <1>2, <1>3, <1>4, <1>5 DEF Grows

\* A handler replaces one.
Replaced(r, g, m) == [models EXCEPT ![r][g] = m]

\* What remains when one model of a trader is replaced.
LEMMA ChangedModel ==
    ASSUME models \in [Trader -> Seq(ModelT)], NEW r \in Trader,
           NEW g \in 1 .. Len(models[r]), NEW m \in ModelT,
           models' = Replaced(r, g, m)
    PROVE  /\ models' \in [Trader -> Seq(ModelT)] /\ Grows
           /\ \A q \in Trader \ {r} : models'[q] = models[q]
           /\ \A q \in Trader : Len(models'[q]) = Len(models[q])
           /\ models'[r][g] = m
           /\ \A h \in 1 .. Len(models[r]) : h # g => models'[r][h] = models[r][h]
  <1> DEFINE n == Len(models[r])
  <1>1. /\ models[r] \in Seq(ModelT) /\ n \in Nat /\ DOMAIN models[r] = 1 .. n
        /\ \A h \in 1 .. n : models[r][h] \in ModelT
    BY ModelsTypes
  <1>0. models' = [models EXCEPT ![r][g] = m]
    BY DEF Replaced
  <1>2. models'[r] = [models[r] EXCEPT ![g] = m]
    BY <1>0
  <1>3. models'[r] \in [1 .. n -> ModelT]
    <2> HIDE DEF n
    <2>1. models[r] = [h \in 1 .. n |-> models[r][h]]
      BY <1>1, SeqDef
    <2> QED
      BY <1>1, <1>2, <2>1
  <1>4. models'[r] \in Seq(ModelT) /\ Len(models'[r]) = n
    <2> DEFINE t == models'[r]
    <2> HIDE DEF n, t
    <2>1. n \in Nat /\ t \in [1 .. n -> ModelT]
      BY <1>1, <1>3 DEF t
    <2>2. t \in Seq(ModelT)
      BY <2>1, SeqDef
    <2>3. Len(t) \in Nat /\ DOMAIN t = 1 .. Len(t) /\ DOMAIN t = 1 .. n
      BY <2>1, <2>2, LenProperties
    <2>4. Len(t) = n
      BY <2>1, <2>3
    <2> QED
      BY <2>2, <2>4 DEF t
  <1>5. models' \in [Trader -> Seq(ModelT)]
    BY <1>0, <1>4
  <1>6. \A q \in Trader : Len(models[q]) \in Nat
    BY ModelsTypes
  <1>7. \A q \in Trader \ {r} : models'[q] = models[q]
    BY <1>0
  <1>8. models'[r][g] = m /\ \A h \in 1 .. n : h # g => models'[r][h] = models[r][h]
    BY <1>1, <1>2
  <1>9. \A q \in Trader : Len(models'[q]) = Len(models[q])
    BY <1>4, <1>7
  <1>10. Grows
    BY <1>6, <1>9 DEF Grows
  <1> QED
    BY <1>5, <1>7, <1>8, <1>9, <1>10, Zenon

-----------------------------------------------------------------------------
(* What the clients do to the types.                                       *)

\* What a client can make a call with is what its peer was answered.
LEMMA ArgumentsOk ==
    ASSUME ToldInv, NEW r \in Trader, NEW i \in 1 .. 6,
           NEW arg \in Arguments(r, Script(r)[i])
    PROVE  ArgOk(r, Script(r)[i], arg)
  <1> DEFINE rpc == Script(r)[i]
  <1>1. Peer(r) \in Trader
    BY Peers
  <1>2. \A q \in Trader : \A kind : \A body \in Told(q, kind) : BodyOk(q, kind, body)
    BY DEF Told, ToldInv
  <1>3. rpc = "get_nonce_shares" => SharesOf(Peer(r), arg)
    BY <1>1, <1>2 DEF Arguments, BodyOk
  <1>4. rpc = "get_partial_signatures" => arg \in [Ctx -> NonceT]
    BY <1>1, <1>2 DEF Arguments, BodyOk
  <1>5. rpc = "sign_deposit_tx" => Sigs(arg)
    BY <1>1, <1>2 DEF Arguments, BodyOk
  <1>6. rpc = "sign_swap_tx" => arg \in SigT /\ r = "Seller"
    BY <1>1, <1>2, Scripts DEF Arguments, BodyOk
  <1>7. ASSUME rpc = "close_trade"
        PROVE  arg \in [prv : Opt(PointT), swap_tx : Opt(FinalT)]
    <2>1. \/ \E s \in Told(Peer(r), "prv") : arg = [prv |-> <<s>>, swap_tx |-> <<>>]
          \/ arg = [prv |-> <<>>, swap_tx |-> <<>>]
          \/ \E s \in Told("Seller", "swap_tx") : arg = [prv |-> <<>>, swap_tx |-> <<s>>]
      BY <1>7 DEF Arguments
    <2>2. \A s \in Told(Peer(r), "prv") : s \in PointT
      BY <1>1, <1>2 DEF BodyOk
    <2>3. \A s \in Told("Seller", "swap_tx") : s \in FinalT
      BY <1>2 DEF BodyOk, Trader
    <2> QED
      BY <2>1, <2>2, <2>3 DEF Opt
  <1> QED
    BY <1>3, <1>4, <1>5, <1>6, <1>7 DEF ArgOk

\* A call that is made is well formed.
LEMMA NewCallOk ==
    ASSUME TypeInv, NEW r \in Trader, Busy(r), NEW id \in Nat,
           NEW arg \in Arguments(r, Script(r)[step[r]])
    PROVE  step[r] \in 1 .. 6 /\ CallOk(NewCall(r, arg, id))
  <1>1. PICK i \in 1 .. 6 : i = step[r]
    BY Scripts DEF Busy, TypeInv, ClientInv, ClientTypes
  <1>2. ArgOk(r, Script(r)[i], arg)
    BY <1>1, ArgumentsOk DEF TypeInv
  <1>3. Len(models[r]) \in Nat
    BY ModelsTypes DEF TypeInv, ModelsInv
  <1> QED
    BY <1>1, <1>2, <1>3 DEF CallOk, NewCall

\* What a server may answer.
AnswerOk(r, rpc, x) ==
    /\ rpc = "init_trade"             => SharesOf(r, x)
    /\ rpc = "get_nonce_shares"       => x \in [Ctx -> NonceT]
    /\ rpc = "get_partial_signatures" =>
          Sigs(x) /\ "swap_tx_input" \in DOMAIN x /\ x["swap_tx_input"] # <<>>
    /\ rpc = "sign_swap_tx"           => x.swap_tx \in FinalT /\ x.share \in PointT
    /\ rpc = "close_trade"            => x \in PointT

\* The call that a client waits for is that of its step.
LEMMA AwaitedStep ==
    ASSUME ClientTypes, NEW r \in Trader, NEW call, Awaited(r, call)
    PROVE  \E i \in 1 .. 6 : i = step[r] /\ call.rpc = Script(r)[i]
  <1>1. step[r] \in 1 .. 7 /\ step[r] <= 6
    BY Scripts DEF Awaited, Busy, ClientTypes
  <1> QED
    BY <1>1 DEF Awaited

\* The messages that follow from an answer.
LEMMA MessagesOk ==
    ASSUME ClientInv, NEW r \in Trader, NEW call, NEW x, Awaited(r, call),
           AnswerOk(r, call.rpc, x)'
    PROVE  \A t \in Messages(r, call, x) : t.from = r /\ BodyOk(t.from, t.kind, t.body)'
  <1>1. PICK i \in 1 .. 6 : i = step[r] /\ call.rpc = Script(r)[i]
    BY AwaitedStep DEF ClientInv
  <1>2. SUFFICES ASSUME NEW t \in Messages(r, call, x)
                 PROVE  t.from = r /\ BodyOk(r, t.kind, t.body)'
    OBVIOUS
  <1>3. CASE i = 1
    <2>1. t = [from |-> r, kind |-> "keys", body |-> x]
      BY <1>1, <1>3, Scripts DEF Messages, Tell
    <2> QED
      BY <1>1, <1>3, <2>1, Scripts DEF AnswerOk, BodyOk
  <1>4. CASE i = 2
    <2>1. t = [from |-> r, kind |-> "nonces", body |-> x]
      BY <1>1, <1>4, Scripts DEF Messages, Tell
    <2> QED
      BY <1>1, <1>4, <2>1, Scripts DEF AnswerOk, BodyOk
  <1>5. CASE i = 3
    <2>1. t = [from |-> r, kind |-> "sigs", body |-> Redact(r, x)]
      BY <1>1, <1>5, Scripts DEF Messages, Tell
    <2>2. Sigs(x)
      BY <1>1, <1>5, Scripts DEF AnswerOk
    <2>3. Sigs(Redact(r, x))
      BY <2>2 DEF Redact, Sigs, Opt
    <2> QED
      BY <2>1, <2>3 DEF BodyOk
  <1>6. CASE i = 4
    BY <1>1, <1>6, Scripts DEF Messages
  <1>7. CASE i = 5 /\ r = "Buyer"
    <2>1. t = [from |-> r, kind |-> "swap_sig", body |-> kept[r][1]]
      BY <1>1, <1>7, Scripts DEF Messages, Tell
    <2>2. kept["Buyer"] \in Opt(SigT) /\ kept["Buyer"] # <<>>
      <3>0. step["Buyer"] = 5
        BY <1>1, <1>7
      <3>1. step["Buyer"] >= 4
        BY <3>0
      <3> QED
        BY <3>1 DEF ClientInv, KeptInv
    <2>3. kept[r][1] \in SigT
      BY <1>7, <2>2 DEF Opt
    <2> QED
      BY <2>1, <2>3 DEF BodyOk
  <1>8. CASE i = 5 /\ r = "Seller"
    <2>1. t = [from |-> r, kind |-> "prv", body |-> x.share]
      BY <1>1, <1>8, Scripts DEF Messages, Tell
    <2> QED
      BY <1>1, <1>8, <2>1, Scripts DEF AnswerOk, BodyOk
  <1>9. CASE i = 6
    <2>1. x \in PointT
      BY <1>1, <1>9, Scripts DEF AnswerOk
    <2>2. CASE r = "Buyer"
      <3>1. t = [from |-> r, kind |-> "prv", body |-> x]
        BY <1>1, <1>9, <2>2, Scripts DEF Messages, Tell
      <3> QED
        BY <2>1, <3>1 DEF BodyOk
    <2>3. CASE r = "Seller"
      <3>1. t = [from |-> r, kind |-> "swap_tx", body |-> kept[r][1]]
        BY <1>1, <1>9, <2>3, Scripts DEF Messages, Tell
      <3>2. kept["Seller"] \in Opt(FinalT) /\ kept["Seller"] # <<>>
        <4>0. step["Seller"] = 6
          BY <1>1, <1>9, <2>3
        <4>1. step["Seller"] >= 6
          BY <4>0
        <4> QED
          BY <4>1 DEF ClientInv, KeptInv
      <3>3. kept[r][1] \in FinalT
        BY <2>3, <3>2 DEF Opt
      <3> QED
        BY <3>1, <3>3 DEF BodyOk
    <2> QED
      BY <2>2, <2>3 DEF Trader
  <1> QED
    BY <1>1, <1>3, <1>4, <1>5, <1>6, <1>7, <1>8, <1>9 DEF Trader

\* A client that gets an answer.
LEMMA ReceiveOk ==
    ASSUME ClientInv, NEW r \in Trader, NEW call, NEW reply, Awaited(r, call),
           Receive(r, call, reply),
           reply = <<>> \/ \E x : reply = <<x>> /\ AnswerOk(r, call.rpc, x)'
    PROVE  ClientInv'
  <1>1. PICK i \in 1 .. 6 : i = step[r] /\ call.rpc = Script(r)[i]
    BY AwaitedStep DEF ClientInv
  <1>2. waiting' \in [Trader -> BOOLEAN] /\ stopped' \in [Trader -> BOOLEAN]
        /\ repeats' \in [Trader -> Nat]
    BY DEF Receive, ClientInv, ClientTypes
  <1>3. CASE reply = <<>>
    <2>1. step' = step /\ kept' = kept
      BY <1>3 DEF Receive
    <2> QED
      BY <1>2, <2>1 DEF ClientInv, ClientTypes, KeptInv
  <1>4. CASE reply # <<>>
    <2>1. PICK x : reply = <<x>> /\ AnswerOk(r, call.rpc, x)'
      BY <1>4
    <2> DEFINE k == Keeps(r, call, x)
    <2>2. step' = [step EXCEPT ![r] = @ + 1] /\ kept' = [kept EXCEPT ![r] = k]
      BY <1>4, <2>1 DEF Receive
    <2> HIDE DEF k
    <2>3. ClientTypes'
      BY <1>1, <1>2, <2>2 DEF ClientInv, ClientTypes
    <2>4. /\ step'[r] = i + 1 /\ kept'[r] = k
          /\ \A q \in Trader \ {r} : step'[q] = step[q] /\ kept'[q] = kept[q]
      BY <1>1, <2>2 DEF ClientInv, ClientTypes, KeptInv
    <2>5. CASE r = "Buyer"
      <3>1. k \in Opt(SigT) /\ (i >= 3 => k # <<>>)
        <4>1. CASE i = 3
          <5>1. Sigs(x) /\ "swap_tx_input" \in DOMAIN x /\ x["swap_tx_input"] # <<>>
            BY <1>1, <2>1, <4>1, Scripts DEF AnswerOk
          <5>2. k = x["swap_tx_input"]
            BY <1>1, <2>5, <4>1, Scripts DEF Keeps, k
          <5> QED
            BY <5>1, <5>2 DEF Sigs
        <4>2. CASE i # 3
          <5>1. k = kept[r]
            BY <1>1, <2>5, <4>2, Scripts DEF Keeps, k
          <5> QED
            BY <1>1, <2>5, <4>2, <5>1 DEF ClientInv, KeptInv
        <4> QED
          BY <4>1, <4>2
      <3>2. kept' \in [Trader -> Opt(SigT) \cup Opt(FinalT)]
        BY <2>2, <3>1 DEF ClientInv, KeptInv
      <3>3. kept'["Buyer"] \in Opt(SigT) /\ (step'["Buyer"] >= 4 => kept'["Buyer"] # <<>>)
        BY <1>1, <2>4, <2>5, <3>1
      <3>4. kept'["Seller"] = kept["Seller"] /\ step'["Seller"] = step["Seller"]
        BY <2>4, <2>5 DEF Trader
      <3> QED
        BY <2>3, <3>2, <3>3, <3>4 DEF ClientInv, KeptInv
    <2>6. CASE r = "Seller"
      <3>1. k \in Opt(FinalT) /\ (i >= 5 => k # <<>>)
        <4>1. CASE i = 5
          <5>1. x.swap_tx \in FinalT
            BY <1>1, <2>1, <2>6, <4>1, Scripts DEF AnswerOk
          <5>2. k = <<x.swap_tx>>
            BY <1>1, <2>6, <4>1, Scripts DEF Keeps, k
          <5> QED
            BY <5>1, <5>2 DEF Opt
        <4>2. CASE i # 5
          <5>1. k = kept[r]
            BY <1>1, <2>6, <4>2, Scripts DEF Keeps, k
          <5> QED
            BY <1>1, <2>6, <4>2, <5>1 DEF ClientInv, KeptInv
        <4> QED
          BY <4>1, <4>2
      <3>2. kept' \in [Trader -> Opt(SigT) \cup Opt(FinalT)]
        BY <2>2, <3>1 DEF ClientInv, KeptInv
      <3>3. kept'["Seller"] \in Opt(FinalT) /\ (step'["Seller"] >= 6 => kept'["Seller"] # <<>>)
        BY <1>1, <2>4, <2>6, <3>1
      <3>4. kept'["Buyer"] = kept["Buyer"] /\ step'["Buyer"] = step["Buyer"]
        BY <2>4, <2>6 DEF Trader
      <3> QED
        BY <2>3, <3>2, <3>3, <3>4 DEF ClientInv, KeptInv
    <2> QED
      BY <2>5, <2>6 DEF Trader
  <1> QED
    BY <1>3, <1>4

\* Answering a call keeps what is typed typed.
LEMMA AnswerTypes ==
    ASSUME TypeInv, Grows, NEW r \in Trader, NEW call \in calls, NEW reply,
           Answer(r, call, reply),
           reply = <<>> \/ \E x : reply = <<x>> /\ AnswerOk(r, call.rpc, x)'
    PROVE  CallsInv' /\ ToldInv' /\ ClientInv'
  <1>1. CallsInv'
    BY GrowthKeeps DEF Answer, TypeInv, CallsInv
  <1>2. \A t \in told : t.from \in Trader /\ BodyOk(t.from, t.kind, t.body)'
    BY GrowthKeeps DEF TypeInv, ToldInv
  <1>3. CASE Awaited(r, call) /\ Receive(r, call, reply)
    <2>1. ClientInv'
      BY <1>3, ReceiveOk DEF TypeInv
    <2>2. CASE reply = <<>>
      BY <1>1, <1>2, <1>3, <2>1, <2>2 DEF Receive, ToldInv
    <2>3. CASE reply # <<>>
      <3>1. PICK x : reply = <<x>> /\ AnswerOk(r, call.rpc, x)'
        BY <2>3
      <3>2. told' = told \cup Messages(r, call, x)
        BY <1>3, <2>3, <3>1 DEF Receive
      <3>3. \A t \in Messages(r, call, x) : t.from = r /\ BodyOk(t.from, t.kind, t.body)'
        BY <1>3, <3>1, MessagesOk DEF TypeInv
      <3> QED
        BY <1>1, <1>2, <2>1, <3>2, <3>3 DEF ToldInv
    <2> QED
      BY <2>2, <2>3
  <1>4. CASE UNCHANGED client
    <2>1. told' = told /\ ClientInv'
      BY <1>4 DEF client, TypeInv, ClientInv, ClientTypes, KeptInv
    <2> QED
      BY <1>1, <1>2, <2>1 DEF ToldInv
  <1> QED
    BY <1>3, <1>4 DEF Answer

-----------------------------------------------------------------------------
(* Every step keeps the types.                                             *)

\* Models that stay count as having grown.
LEMMA NoGrowth == TypeInv /\ models' = models => Grows
  BY ModelsTypes DEF TypeInv, ModelsInv, Grows

\* Steps of a client alone.
LEMMA ClientStepTypes ==
    ASSUME TypeInv, NEW r \in Trader, Call(r) \/ Retry(r) \/ StartOver(r)
    PROVE  TypeInv'
  <1>1. UNCHANGED <<models, store, draws, told, signed, finals, closed>>
    BY DEF Call, Retry, StartOver, server, history
  <1>2. ModelsInv' /\ ServerInv' /\ ToldInv' /\ HistoryInv'
    BY <1>1 DEF TypeInv, ModelsInv, ServerInv, ToldInv, HistoryInv, BodyOk, SharesOf
  <1>3. \A call : CallOk(call) => CallOk(call)'
    BY <1>1, NoGrowth, GrowthKeeps
  <1>4. repeats[r] \in Nat /\ repeats[r] + 1 \in Nat
    BY DEF TypeInv, ClientInv, ClientTypes
  <1>5. CASE Call(r)
    <2>1. CallsInv'
      <3>1. PICK arg \in Arguments(r, Script(r)[step[r]]) :
               calls' = calls \cup {NewCall(r, arg, repeats[r])}
        BY <1>5 DEF Call
      <3>2. CallOk(NewCall(r, arg, repeats[r]))
        BY <1>4, <1>5, NewCallOk DEF Call
      <3> QED
        BY <1>3, <3>1, <3>2 DEF CallsInv, TypeInv
    <2>2. ClientInv'
      BY <1>5 DEF Call, TypeInv, ClientInv, ClientTypes, KeptInv
    <2> QED
      BY <1>2, <2>1, <2>2 DEF TypeInv
  <1>6. CASE Retry(r)
    <2>1. CallsInv'
      <3>1. PICK arg \in Arguments(r, Script(r)[step[r]]) :
               calls' = calls \cup {NewCall(r, arg, repeats[r] + 1)}
        BY <1>6 DEF Retry
      <3>2. CallOk(NewCall(r, arg, repeats[r] + 1))
        BY <1>4, <1>6, NewCallOk DEF Retry
      <3> QED
        BY <1>3, <3>1, <3>2 DEF CallsInv, TypeInv
    <2>2. ClientInv'
      BY <1>6 DEF Retry, TypeInv, ClientInv, ClientTypes, KeptInv
    <2> QED
      BY <1>2, <2>1, <2>2 DEF TypeInv
  <1>7. CASE StartOver(r)
    <2>1. CallsInv'
      BY <1>3, <1>7 DEF StartOver, CallsInv, TypeInv
    <2>2. ClientTypes'
      BY <1>7 DEF StartOver, TypeInv, ClientInv, ClientTypes
    <2>3. /\ kept' = [kept EXCEPT ![r] = <<>>] /\ step' = [step EXCEPT ![r] = 1]
      BY <1>7 DEF StartOver
    <2>4. \A q \in Trader : \/ q = r /\ kept'[q] = <<>> /\ step'[q] = 1
                            \/ kept'[q] = kept[q] /\ step'[q] = step[q]
      BY <2>3 DEF TypeInv, ClientInv, ClientTypes, KeptInv
    <2>5. kept' \in [Trader -> Opt(SigT) \cup Opt(FinalT)]
      BY <2>3 DEF TypeInv, ClientInv, KeptInv, Opt
    <2>6. KeptInv'
      BY <2>4, <2>5 DEF TypeInv, ClientInv, KeptInv, Opt, Trader
    <2> QED
      BY <1>2, <2>1, <2>2, <2>6 DEF TypeInv, ClientInv
  <1> QED
    BY <1>5, <1>6, <1>7

\* A model stays keyed as others are added.
LEMMA KeyedLonger ==
    ASSUME TypeInv, Grows, NEW r \in Trader, NEW g \in 1 .. Len(models[r])
    PROVE  \E h \in 0 .. Len(models'[Peer(r)]) : Keyed(r, g, h, models[r][g])
  <1>1. PICK h \in 0 .. Len(models[Peer(r)]) : Keyed(r, g, h, models[r][g])
    BY DEF TypeInv, ModelsInv
  <1> QED
    BY <1>1, Peers DEF Grows

\* init_trade adds a model that no key or nonce was exchanged for.
LEMMA InitTradeTypes ==
    ASSUME TypeInv, NEW r \in Trader, InitTrade(r)
    PROVE  TypeInv'
  <1>0. PICK g \in Nat : g = Len(models[r]) + 1
    BY ModelsTypes DEF TypeInv, ModelsInv
  <1> DEFINE m == NewModel(r, g)
  <1>1. PICK call \in calls :
          /\ call.from = r /\ call.rpc = "init_trade"
          /\ models' = [models EXCEPT ![r] = Append(@, m)]
          /\ store' = [store EXCEPT ![r] = g]
          /\ Answer(r, call, <<m.mine>>)
          /\ UNCHANGED <<draws, history>>
    BY <1>0 DEF InitTrade
  <1>2. g - 1 = Len(models[r]) /\ g = Len(models[r]) + 1 /\ Len(models[r]) \in Nat
        /\ models \in [Trader -> Seq(ModelT)]
    BY <1>0, ModelsTypes DEF TypeInv, ModelsInv
  <1>3. m \in ModelT /\ m.mine = KeysOf(r, g)
    BY <1>2, NewModelType
  <1>4. Keyed(r, g, 0, m)
    BY DEF Keyed, NewModel, KeysOf
  <1> HIDE DEF m
  <1>5. /\ models' \in [Trader -> Seq(ModelT)] /\ Grows
        /\ \A q \in Trader \ {r} : models'[q] = models[q]
        /\ Len(models'[r]) = g /\ models'[r][g] = m
        /\ \A k \in 1 .. Len(models[r]) : models'[r][k] = models[r][k]
    BY <1>1, <1>2, <1>3, AddedModel
  <1>6. ModelsInv'
    <2> SUFFICES ASSUME NEW q \in Trader, NEW k \in 1 .. Len(models'[q])
                 PROVE  \E h \in 0 .. Len(models'[Peer(q)]) : Keyed(q, k, h, models'[q][k])
      BY <1>5 DEF ModelsInv
    <2>1. CASE q = r /\ k = g
      BY <1>4, <1>5, <2>1, Peers DEF Grows
    <2>2. CASE q # r \/ k # g
      <3>1. k \in 1 .. Len(models[q]) /\ models'[q][k] = models[q][k]
        BY <1>2, <1>5, <2>2
      <3> QED
        BY <1>5, <3>1, KeyedLonger
    <2> QED
      BY <2>1, <2>2
  <1>7. ServerInv'
    <2>1. store' \in [Trader -> Nat] /\ draws' = draws
      BY <1>1, <1>2 DEF TypeInv, ServerInv
    <2>2. \A q \in Trader : store'[q] <= Len(models'[q])
      BY <1>1, <1>2, <1>5 DEF TypeInv, ServerInv
    <2> QED
      BY <2>1, <2>2 DEF TypeInv, ServerInv
  <1>8. SharesOf(r, m.mine)'
    BY <1>2, <1>3, <1>5 DEF SharesOf
  <1>9. CallsInv' /\ ToldInv' /\ ClientInv'
    <2>1. AnswerOk(r, call.rpc, m.mine)'
      BY <1>1, <1>8 DEF AnswerOk
    <2> QED
      BY <1>1, <1>5, <2>1, AnswerTypes
  <1>10. HistoryInv'
    BY <1>1 DEF history, TypeInv, HistoryInv
  <1> QED
    BY <1>6, <1>7, <1>9, <1>10 DEF TypeInv

\* The other steps in which no handler runs.
LEMMA FetchTypes ==
    ASSUME TypeInv, NEW r \in Trader, GetTradeModel(r) \/ MissingTrade(r) \/ Crash(r)
    PROVE  TypeInv'
  <1>1. UNCHANGED <<models, draws, signed, finals, closed>>
    BY DEF GetTradeModel, MissingTrade, Crash, server, history
  <1>2. Grows
    BY <1>1, NoGrowth
  <1>3. ModelsInv' /\ HistoryInv'
    BY <1>1 DEF TypeInv, ModelsInv, HistoryInv
  <1>4. ToldInv /\ UNCHANGED told => ToldInv'
    BY <1>1 DEF ToldInv, BodyOk, SharesOf
  <1>5. \A call : CallOk(call) => CallOk(call)'
    BY <1>2, GrowthKeeps
  <1>6. CASE GetTradeModel(r)
    <2>1. PICK call \in calls :
            /\ call.from = r
            /\ calls' = (calls \ {call}) \cup {[call EXCEPT !.model = store[r]]}
            /\ UNCHANGED <<server, client, history>>
      BY <1>6 DEF GetTradeModel
    <2>a. PICK new : new = [call EXCEPT !.model = store[r]]
      OBVIOUS
    <2>2. CallOk(new)'
      <3>1. /\ call = [from |-> call.from, rpc |-> call.rpc, arg |-> call.arg, id |-> call.id,
                       model |-> call.model]
            /\ CallOk(call)'
        BY <1>5 DEF CallOk, TypeInv, CallsInv
      <3>2. store[r] \in 0 .. Len(models'[r])
        BY <1>1 DEF TypeInv, ServerInv, ModelsInv
      <3>3. [call EXCEPT !.model = store[r]]
              = [from |-> call.from, rpc |-> call.rpc, arg |-> call.arg, id |-> call.id,
                 model |-> store[r]]
        BY <3>1
      <3> QED
        BY <2>1, <2>a, <3>1, <3>2, <3>3 DEF CallOk
    <2>3. CallsInv'
      BY <1>5, <2>1, <2>a, <2>2 DEF TypeInv, CallsInv
    <2>4. ServerInv' /\ ClientInv' /\ ToldInv'
      BY <1>4, <2>1 DEF server, client, TypeInv, ServerInv, ClientInv, ClientTypes, KeptInv
    <2> QED
      BY <1>3, <2>3, <2>4 DEF TypeInv
  <1>7. CASE MissingTrade(r)
    <2>1. PICK call \in calls : Answer(r, call, <<>>) /\ store' = store
      BY <1>7 DEF MissingTrade, server
    <2>2. CallsInv' /\ ToldInv' /\ ClientInv'
      BY <1>2, <2>1, AnswerTypes
    <2> QED
      BY <1>1, <1>3, <2>1, <2>2 DEF TypeInv, ServerInv
  <1>8. CASE Crash(r)
    <2>1. CallsInv' /\ ToldInv'
      BY <1>4, <1>5, <1>8 DEF Crash, TypeInv, CallsInv
    <2>2. ClientInv'
      <3>1. /\ repeats' = [repeats EXCEPT ![r] = @ + 1]
            /\ stopped' = [stopped EXCEPT ![r] = @ \/ waiting[r]]
            /\ waiting' = [waiting EXCEPT ![r] = FALSE]
            /\ UNCHANGED <<step, kept>>
        BY <1>8 DEF Crash
      <3>2. (stopped[r] \/ waiting[r]) \in BOOLEAN
        OBVIOUS
      <3>3. repeats' \in [Trader -> Nat] /\ waiting' \in [Trader -> BOOLEAN]
        BY <3>1 DEF TypeInv, ClientInv, ClientTypes
      <3>4. stopped' \in [Trader -> BOOLEAN]
        BY <3>1, <3>2 DEF TypeInv, ClientInv, ClientTypes
      <3> QED
        BY <3>1, <3>3, <3>4 DEF TypeInv, ClientInv, ClientTypes, KeptInv
    <2>3. ServerInv'
      <3>1. store' = [store EXCEPT ![r] = 0]
        BY <1>8 DEF Crash
      <3>2. \A q \in Trader : Len(models[q]) \in Nat
        BY ModelsTypes DEF TypeInv, ModelsInv
      <3> QED
        BY <1>1, <3>1, <3>2 DEF TypeInv, ServerInv
    <2> QED
      BY <1>3, <2>1, <2>2, <2>3 DEF TypeInv
  <1> QED
    BY <1>6, <1>7, <1>8

\* A handler changes the model of its call, and no other.
LEMMA Handled ==
    ASSUME TypeInv, NEW r \in Trader, NEW rpc, NEW call \in Held(r, rpc),
           NEW out, Handle(r, call, out), out.model \in ModelT
    PROVE  /\ models' \in [Trader -> Seq(ModelT)] /\ Grows /\ store' = store
           /\ call \in calls /\ call.from = r /\ call.rpc = rpc /\ CallOk(call)
           /\ call.model \in 1 .. Len(models[r])
           /\ \A q \in Trader : Len(models'[q]) = Len(models[q])
           /\ models'[r][call.model] = out.model
           /\ \A q \in Trader : \A g \in 1 .. Len(models[q]) :
                q # r \/ g # call.model => models'[q][g] = models[q][g]
  <1>1. /\ call \in calls /\ call.from = r /\ call.rpc = rpc /\ call.model > 0
        /\ CallOk(call) /\ models \in [Trader -> Seq(ModelT)]
    BY DEF Held, TypeInv, CallsInv, ModelsInv
  <1>2. call.model \in 1 .. Len(models[r])
    BY <1>1, ModelsTypes DEF CallOk
  <1>3. models' = [models EXCEPT ![r][call.model] = out.model] /\ store' = store
    BY DEF Handle
  <1> HIDE DEF Handle
  <1>4. PICK g \in 1 .. Len(models[r]) : g = call.model
    BY <1>2
  <1>5. PICK m \in ModelT : m = out.model
    OBVIOUS
  <1>6. models' = Replaced(r, g, m)
    BY <1>3, <1>4, <1>5 DEF Replaced
  <1>7. /\ models' \in [Trader -> Seq(ModelT)] /\ Grows
        /\ \A q \in Trader \ {r} : models'[q] = models[q]
        /\ \A q \in Trader : Len(models'[q]) = Len(models[q])
        /\ models'[r][g] = m
        /\ \A h \in 1 .. Len(models[r]) : h # g => models'[r][h] = models[r][h]
    BY <1>1, <1>6, ChangedModel
  <1> QED
    BY <1>1, <1>2, <1>3, <1>4, <1>5, <1>7

\* What all handlers have in common: they change one model and answer one call.
LEMMA HandleTypes ==
    ASSUME TypeInv, NEW r \in Trader, NEW rpc, NEW call \in Held(r, rpc),
           NEW out, Handle(r, call, out), out.model \in ModelT,
           NEW h \in 0 .. Len(models[Peer(r)]), Keyed(r, call.model, h, out.model),
           out.reply = <<>> \/ \E x : out.reply = <<x>> /\ AnswerOk(r, rpc, x)'
    PROVE  ModelsInv' /\ CallsInv' /\ ToldInv' /\ ClientInv' /\ store' = store /\ Grows
  <1>1. /\ models' \in [Trader -> Seq(ModelT)] /\ Grows /\ store' = store
        /\ call \in calls /\ call.from = r /\ call.rpc = rpc
        /\ \A q \in Trader : Len(models'[q]) = Len(models[q])
        /\ models'[r][call.model] = out.model
        /\ \A q \in Trader : \A g \in 1 .. Len(models[q]) :
             q # r \/ g # call.model => models'[q][g] = models[q][g]
    BY Handled
  <1>2. ModelsInv'
    <2> SUFFICES ASSUME NEW q \in Trader, NEW g \in 1 .. Len(models'[q])
                 PROVE  \E k \in 0 .. Len(models'[Peer(q)]) : Keyed(q, g, k, models'[q][g])
      BY <1>1 DEF ModelsInv
    <2>1. Len(models'[Peer(q)]) = Len(models[Peer(q)])
      BY <1>1, Peers
    <2>2. CASE q = r /\ g = call.model
      BY <1>1, <2>1, <2>2
    <2>3. CASE q # r \/ g # call.model
      BY <1>1, <2>1, <2>3 DEF TypeInv, ModelsInv
    <2> QED
      BY <2>2, <2>3
  <1>3. Answer(r, call, out.reply)
    BY DEF Handle
  <1>4. out.reply = <<>> \/ \E x : out.reply = <<x>> /\ AnswerOk(r, call.rpc, x)'
    BY <1>1
  <1>5. CallsInv' /\ ToldInv' /\ ClientInv'
    <2>1. PICK reply : reply = out.reply
      OBVIOUS
    <2> QED
      BY <1>1, <1>3, <1>4, <2>1, AnswerTypes
  <1> QED
    BY <1>1, <1>2, <1>5

\* A model whose keys do not change stays keyed.
LEMMA KeyedStays ==
    ASSUME NEW r \in Trader, NEW g, NEW h, NEW m \in ModelT, NEW x \in ModelT,
           Keyed(r, g, h, m), SameKeys(m, x), x.peers_prv = m.peers_prv, x.agg_prv = m.agg_prv
    PROVE  Keyed(r, g, h, x)
  BY DEF Keyed, SameKeys

\* The model of a call.
LEMMA HeldModel ==
    ASSUME TypeInv, NEW r \in Trader, NEW rpc, NEW call \in Held(r, rpc)
    PROVE  /\ call.model \in 1 .. Len(models[r]) /\ call.from = r /\ call.rpc = rpc
           /\ models[r][call.model] \in ModelT
           /\ CallOk(call) /\ ArgOk(r, rpc, call.arg)
           /\ \E h \in 0 .. Len(models[Peer(r)]) : Keyed(r, call.model, h, models[r][call.model])
  <1>1. /\ call \in calls /\ call.from = r /\ call.rpc = rpc /\ call.model > 0
        /\ CallOk(call) /\ models \in [Trader -> Seq(ModelT)]
    BY DEF Held, TypeInv, CallsInv, ModelsInv
  <1>2. call.model \in 1 .. Len(models[r])
    BY <1>1, ModelsTypes DEF CallOk
  <1>3. models[r][call.model] \in ModelT
    BY <1>1, <1>2, ModelsTypes
  <1> QED
    BY <1>1, <1>2, <1>3 DEF CallOk, TypeInv, ModelsInv

-----------------------------------------------------------------------------
(* What each handler does: the model m of the call, and out, what the      *)
(* handler makes of it.                                                    *)

\* The handler ran get_nonce_shares with keys that the peer told.
LEMMA GetNonceSharesStep ==
    ASSUME TypeInv, NEW r \in Trader, HandleGetNonceShares(r)
    PROVE  \E call \in Held(r, "get_nonce_shares"), m \in ModelT,
              shares \in [Output -> PointT], h \in 1 .. Len(models[Peer(r)]),
              n \in Nat \ {0} : \E out :
             /\ m = models[r][call.model] /\ shares = call.arg
             /\ shares = KeysOf(Peer(r), h) /\ n = draws[r] + 1
             /\ Handle(r, call, out) /\ GotNonces(r, m, shares, n, out)
             /\ draws' = [draws EXCEPT ![r] = @ + 1]
             /\ UNCHANGED history
  <1>1. PICK call \in Held(r, "get_nonce_shares") :
          /\ Handle(r, call, GetNonceShares(r, models[r][call.model], call.arg, draws[r] + 1))
          /\ draws' = [draws EXCEPT ![r] = @ + 1]
          /\ UNCHANGED history
    BY DEF HandleGetNonceShares
  <1>2. PICK m \in ModelT : m = models[r][call.model]
    BY HeldModel
  <1>3. PICK h \in 1 .. Len(models[Peer(r)]) : call.arg = KeysOf(Peer(r), h)
    BY HeldModel DEF ArgOk, SharesOf
  <1>4. PICK n \in Nat \ {0} : n = draws[r] + 1
    BY DEF TypeInv, ServerInv
  <1>5. Len(models[Peer(r)]) \in Nat
    BY ModelsTypes, Peers DEF TypeInv, ModelsInv
  <1>6. PICK shares \in [Output -> PointT] : shares = call.arg
    BY <1>3, <1>5, PointTypes, Peers DEF KeysOf
  <1>7. PICK out : out = GetNonceShares(r, m, shares, n)
    OBVIOUS
  <1>8. Handle(r, call, out)
    BY <1>1, <1>2, <1>4, <1>6, <1>7
  <1>9. GotNonces(r, m, shares, n, out)
    BY <1>7, GetNonceSharesEffect
  <1>10. draws' = [draws EXCEPT ![r] = @ + 1] /\ UNCHANGED history
    BY <1>1
  <1> QED
    BY <1>2, <1>3, <1>4, <1>6, <1>8, <1>9, <1>10

\* The handler ran get_partial_signatures with nonces that the peer told.
LEMMA GetPartialSignaturesStep ==
    ASSUME TypeInv, NEW r \in Trader, HandleGetPartialSignatures(r)
    PROVE  \E call \in Held(r, "get_partial_signatures"), m \in ModelT,
              nonces \in [Ctx -> NonceT] : \E out :
             /\ m = models[r][call.model] /\ nonces = call.arg
             /\ Handle(r, call, out) /\ SignedPartially(r, m, nonces, out)
             /\ signed' = IF out.reply = <<>> THEN signed
                          ELSE signed \cup { out.model.my_sig[c][1] : c \in Ctx }
             /\ UNCHANGED <<draws, finals, closed>>
  <1>1. PICK call \in Held(r, "get_partial_signatures") :
          LET out == GetPartialSignatures(r, models[r][call.model], call.arg)
          IN  /\ Handle(r, call, out)
              /\ signed' = IF out.reply = <<>> THEN signed
                           ELSE signed \cup { out.model.my_sig[c][1] : c \in Ctx }
              /\ UNCHANGED <<draws, finals, closed>>
    BY DEF HandleGetPartialSignatures
  <1>2. PICK m \in ModelT : m = models[r][call.model]
    BY HeldModel
  <1>3. PICK nonces \in [Ctx -> NonceT] : nonces = call.arg
    BY HeldModel DEF ArgOk
  <1>4. PICK out : out = GetPartialSignatures(r, m, nonces)
    OBVIOUS
  <1>5. /\ Handle(r, call, out)
        /\ signed' = IF out.reply = <<>> THEN signed
                     ELSE signed \cup { out.model.my_sig[c][1] : c \in Ctx }
        /\ UNCHANGED <<draws, finals, closed>>
    BY <1>1, <1>2, <1>3, <1>4
  <1>6. SignedPartially(r, m, nonces, out)
    BY <1>4, GetPartialSignaturesEffect
  <1> QED
    BY <1>2, <1>3, <1>5, <1>6

\* The handler ran sign_deposit_tx with signatures that the peer told.
LEMMA SignDepositTxStep ==
    ASSUME TypeInv, NEW r \in Trader, HandleSignDepositTx(r)
    PROVE  \E call \in Held(r, "sign_deposit_tx"), m \in ModelT : \E sigs, out :
             /\ m = models[r][call.model] /\ sigs = call.arg /\ Sigs(sigs)
             /\ Handle(r, call, out) /\ SignedDeposit(r, m, sigs, out)
             /\ UNCHANGED <<draws, history>>
  <1>1. PICK call \in Held(r, "sign_deposit_tx") :
          /\ Handle(r, call, SignDepositTx(r, models[r][call.model], call.arg))
          /\ UNCHANGED <<draws, history>>
    BY DEF HandleSignDepositTx
  <1>2. PICK m \in ModelT : m = models[r][call.model]
    BY HeldModel
  <1>3. PICK sigs : sigs = call.arg /\ Sigs(sigs)
    BY HeldModel DEF ArgOk
  <1>4. PICK out : out = SignDepositTx(r, m, sigs)
    OBVIOUS
  <1>5. Handle(r, call, out) /\ UNCHANGED <<draws, history>>
    BY <1>1, <1>2, <1>3, <1>4
  <1>6. SignedDeposit(r, m, sigs, out)
    BY <1>3, <1>4, SignDepositTxEffect
  <1> QED
    BY <1>2, <1>3, <1>5, <1>6

\* The handler ran publish_deposit_tx, which leaves the model alone.
LEMMA PublishDepositTxStep ==
    ASSUME TypeInv, NEW r \in Trader, HandlePublishDepositTx(r)
    PROVE  \E call \in Held(r, "publish_deposit_tx"), m \in ModelT : \E out :
             /\ m = models[r][call.model]
             /\ Handle(r, call, out) /\ out.model = m /\ out.reply = <<"confirmed">>
             /\ UNCHANGED <<draws, history>>
  <1>1. PICK call \in Held(r, "publish_deposit_tx") :
          /\ Handle(r, call, PublishDepositTx(r, models[r][call.model]))
          /\ UNCHANGED <<draws, history>>
    BY DEF HandlePublishDepositTx
  <1>2. PICK m \in ModelT : m = models[r][call.model]
    BY HeldModel
  <1>3. PICK out : out = PublishDepositTx(r, m)
    OBVIOUS
  <1>4. Handle(r, call, out) /\ UNCHANGED <<draws, history>>
    BY <1>1, <1>2, <1>3
  <1>5. out.model = m /\ out.reply = <<"confirmed">>
    BY <1>3 DEF PublishDepositTx, Ok
  <1> QED
    BY <1>2, <1>4, <1>5

\* The handler ran sign_swap_tx with the signature that the buyer withheld.
LEMMA SignSwapTxStep ==
    ASSUME TypeInv, NEW r \in Trader, HandleSignSwapTx(r)
    PROVE  \E call \in Held(r, "sign_swap_tx"), m \in ModelT, sig \in SigT : \E out :
             /\ m = models[r][call.model] /\ sig = call.arg /\ r = "Seller"
             /\ Handle(r, call, out) /\ SignedSwap(m, sig, out)
             /\ finals' = IF out.reply = <<>> THEN finals ELSE finals \cup {out.reply[1].swap_tx}
             /\ UNCHANGED <<draws, signed, closed>>
  <1>1. PICK call \in Held(r, "sign_swap_tx") :
          LET out == SignSwapTx(r, models[r][call.model], call.arg)
          IN  /\ Handle(r, call, out)
              /\ finals' = IF out.reply = <<>> THEN finals
                           ELSE finals \cup {out.reply[1].swap_tx}
              /\ UNCHANGED <<draws, signed, closed>>
    BY DEF HandleSignSwapTx
  <1>2. PICK m \in ModelT : m = models[r][call.model]
    BY HeldModel
  <1>3. PICK sig \in SigT : sig = call.arg /\ r = "Seller"
    BY HeldModel DEF ArgOk
  <1>4. PICK out : out = SignSwapTx("Seller", m, sig)
    OBVIOUS
  <1>5. /\ Handle(r, call, out) /\ UNCHANGED <<draws, signed, closed>>
        /\ finals' = IF out.reply = <<>> THEN finals ELSE finals \cup {out.reply[1].swap_tx}
    BY <1>1, <1>2, <1>3, <1>4
  <1>6. SignedSwap(m, sig, out)
    BY <1>4, SignSwapTxEffect
  <1> QED
    BY <1>2, <1>3, <1>5, <1>6

\* The handler ran close_trade with a secret or with the swap.
LEMMA CloseTradeStep ==
    ASSUME TypeInv, NEW r \in Trader, HandleCloseTrade(r)
    PROVE  \E call \in Held(r, "close_trade"), m \in ModelT,
              request \in [prv : Opt(PointT), swap_tx : Opt(FinalT)] : \E out :
             /\ m = models[r][call.model] /\ request = call.arg
             /\ Handle(r, call, out) /\ Closing(r, m, request, out)
             /\ closed' = IF out.reply # <<>> /\ out.model.agg_prv[MyOutput(r)]
                          THEN closed \cup {out.model.agg[MyOutput(r)]} ELSE closed
             /\ UNCHANGED <<draws, signed, finals>>
  <1>1. PICK call \in Held(r, "close_trade") :
          LET out == CloseTrade(r, models[r][call.model], call.arg)
          IN  /\ Handle(r, call, out)
              /\ closed' = IF out.reply # <<>> /\ out.model.agg_prv[MyOutput(r)]
                           THEN closed \cup {out.model.agg[MyOutput(r)]} ELSE closed
              /\ UNCHANGED <<draws, signed, finals>>
    BY DEF HandleCloseTrade
  <1>2. PICK m \in ModelT : m = models[r][call.model]
    BY HeldModel
  <1>3. PICK request \in [prv : Opt(PointT), swap_tx : Opt(FinalT)] : request = call.arg
    BY HeldModel DEF ArgOk
  <1>4. PICK out : out = CloseTrade(r, m, request)
    OBVIOUS
  <1>5. /\ Handle(r, call, out) /\ UNCHANGED <<draws, signed, finals>>
        /\ closed' = IF out.reply # <<>> /\ out.model.agg_prv[MyOutput(r)]
                     THEN closed \cup {out.model.agg[MyOutput(r)]} ELSE closed
    BY <1>1, <1>2, <1>3, <1>4
  <1>6. Closing(r, m, request, out)
    BY <1>4, CloseTradeEffect
  <1> QED
    BY <1>2, <1>3, <1>5, <1>6

\* get_nonce_shares preserves the types.
LEMMA GetNonceSharesTypes ==
    ASSUME TypeInv, NEW r \in Trader, HandleGetNonceShares(r)
    PROVE  TypeInv'
  <1>1. PICK call, m, shares, h, n, out :
          /\ call \in Held(r, "get_nonce_shares")
          /\ m \in ModelT
          /\ shares \in [Output -> PointT]
          /\ h \in 1 .. Len(models[Peer(r)])
          /\ n \in Nat \ {0}
          /\ m = models[r][call.model] /\ shares = KeysOf(Peer(r), h) /\ n = draws[r] + 1
          /\ Handle(r, call, out) /\ GotNonces(r, m, shares, n, out)
          /\ draws' = [draws EXCEPT ![r] = @ + 1]
          /\ UNCHANGED history
    BY GetNonceSharesStep
  <1>2. PICK k : Keyed(r, call.model, k, m)
    BY <1>1, HeldModel
  <1>3. Len(models[Peer(r)]) \in Nat
    BY ModelsTypes, Peers DEF TypeInv, ModelsInv
  <1>8. /\ out.model \in ModelT /\ out.reply = <<NoncesOf(r, n)>>
        /\ out.model.mine = m.mine
        /\ out.model.peers = shares
        /\ out.model.peers_prv = [o \in Output |-> FALSE]
        /\ out.model.agg = [o \in Output |-> KeyShares(r, m.mine[o], shares[o])]
        /\ out.model.agg_prv = [o \in Output |-> FALSE]
        /\ out.model.adaptor_point =
             IF r = "Buyer" THEN shares["buyer_output"] ELSE m.adaptor_point
    BY <1>1 DEF GotNonces
  <1>9. Keyed(r, call.model, h, out.model)
    <2>1. h # 0
      BY <1>1, <1>3
    <2>0. m.mine = KeysOf(r, call.model)
      BY <1>2 DEF Keyed
    <2>2. /\ \A o \in Output : m.mine[o] = Point(o, r, call.model)
          /\ \A o \in Output : shares[o] = Point(o, Peer(r), h)
          /\ shares = [o \in Output |-> Point(o, Peer(r), h)]
      BY <1>1, <2>0 DEF KeysOf
    <2>3. out.model.agg = [o \in Output |-> KeyShares(r, Point(o, r, call.model),
                                                      Point(o, Peer(r), h))]
      BY <1>8, <2>2
    <2>4. r = "Buyer" => shares["buyer_output"] = Point("buyer_output", "Seller", h)
      BY <2>2, Peers DEF Output
    <2>5. r = "Seller" => m.adaptor_point = Point("buyer_output", r, call.model)
      BY <1>2 DEF Keyed
    <2>6. out.model.adaptor_point = IF r = "Seller" THEN Point("buyer_output", r, call.model)
                                    ELSE Point("buyer_output", "Seller", h)
      BY <1>8, <2>4, <2>5 DEF Trader
    <2>7. /\ out.model.peers = [o \in Output |-> IF h = 0 THEN NoPoint ELSE Point(o, Peer(r), h)]
          /\ out.model.agg = [o \in Output |-> IF h = 0 THEN <<>>
                                 ELSE KeyShares(r, Point(o, r, call.model), Point(o, Peer(r), h))]
      BY <1>8, <2>1, <2>2, <2>3
    <2>8. \A o \in Output : ~out.model.peers_prv[o] /\ ~out.model.agg_prv[o]
      BY <1>8
    <2> QED
      BY <1>8, <2>0, <2>1, <2>2, <2>3, <2>6, <2>7, <2>8 DEF Keyed
  <1>10. AnswerOk(r, "get_nonce_shares", NoncesOf(r, n))'
    BY <1>1, NonceTypes, Contexts DEF AnswerOk
  <1>12. ModelsInv' /\ CallsInv' /\ ToldInv' /\ ClientInv' /\ store' = store /\ Grows
    <2>1. h \in 0 .. Len(models[Peer(r)])
      BY <1>1
    <2>2. call \in Held(r, "get_nonce_shares") /\ Handle(r, call, out)
      BY <1>1
    <2>3. out.reply = <<>> \/ \E x : out.reply = <<x>> /\ AnswerOk(r, "get_nonce_shares", x)'
      BY <1>8, <1>10
    <2>4. out.model \in ModelT
      BY <1>8
    <2> HIDE DEF Handle
    <2> QED
      BY <1>9, <2>1, <2>2, <2>3, <2>4, HandleTypes
  <1>13. ServerInv'
    <2>1. draws' \in [Trader -> Nat]
      BY <1>1 DEF TypeInv, ServerInv
    <2>2. store' \in [Trader -> Nat] /\ \A q \in Trader : store'[q] <= Len(models'[q])
      BY <1>12 DEF Grows, TypeInv, ServerInv
    <2> QED
      BY <2>1, <2>2 DEF ServerInv
  <1> QED
    BY <1>1, <1>12, <1>13 DEF history, TypeInv, HistoryInv

\* A handler that leaves the keys alone.
LEMMA KeepsTypes ==
    ASSUME TypeInv, NEW r \in Trader, NEW rpc, NEW call \in Held(r, rpc),
           NEW out, Handle(r, call, out), out.model \in ModelT,
           SameKeys(models[r][call.model], out.model),
           out.model.peers_prv = models[r][call.model].peers_prv,
           out.model.agg_prv = models[r][call.model].agg_prv,
           out.reply = <<>> \/ \E x : out.reply = <<x>> /\ AnswerOk(r, rpc, x)'
    PROVE  ModelsInv' /\ CallsInv' /\ ToldInv' /\ ClientInv' /\ store' = store /\ Grows
  <1>1. PICK m \in ModelT : m = models[r][call.model]
    BY HeldModel
  <1>2. PICK h \in 0 .. Len(models[Peer(r)]) : Keyed(r, call.model, h, m)
    BY <1>1, HeldModel
  <1>3. Keyed(r, call.model, h, out.model)
    BY <1>1, <1>2, KeyedStays
  <1> QED
    BY <1>3, HandleTypes

\* get_partial_signatures preserves the types.
LEMMA GetPartialSignaturesTypes ==
    ASSUME TypeInv, NEW r \in Trader, HandleGetPartialSignatures(r)
    PROVE  TypeInv'
  <1>5. PICK call, m, nonces, out :
          /\ call \in Held(r, "get_partial_signatures")
          /\ m \in ModelT
          /\ nonces \in [Ctx -> NonceT]
          /\ m = models[r][call.model]
          /\ Handle(r, call, out) /\ SignedPartially(r, m, nonces, out)
          /\ signed' = IF out.reply = <<>> THEN signed
                       ELSE signed \cup { out.model.my_sig[c][1] : c \in Ctx }
          /\ UNCHANGED <<draws, finals, closed>>
    BY GetPartialSignaturesStep
  <1>7. /\ out.model \in ModelT /\ SameKeys(m, out.model)
        /\ out.model.peers_prv = m.peers_prv /\ out.model.agg_prv = m.agg_prv
        /\ \/ out.reply = <<>>
           \/ /\ out.reply = <<SigsOnPeerTxs(r, out.model)>>
              /\ \A c \in Ctx : \E s \in SigT : out.model.my_sig[c] = <<s>>
    BY <1>5 DEF SignedPartially
  <1>8. ASSUME out.reply # <<>>
        PROVE  AnswerOk(r, "get_partial_signatures", SigsOnPeerTxs(r, out.model))'
    <2> DEFINE D == CtxSet(OwnCtx(Peer(r))) \cup {"swap_tx_input"}
    <2>1. D \subseteq Ctx
      BY Contexts, Peers
    <2>2. PICK x : x = [c \in D |-> out.model.my_sig[c]]
      OBVIOUS
    <2>3. x = SigsOnPeerTxs(r, out.model)
      BY <2>2 DEF SigsOnPeerTxs
    <2> HIDE DEF D
    <2>4. DOMAIN x = D /\ \A c \in D : x[c] = out.model.my_sig[c] /\ x[c] \in Opt(SigT)
      BY <1>7, <1>8, <2>1, <2>2 DEF Opt
    <2>5. "swap_tx_input" \in D
      BY DEF D
    <2>6. x["swap_tx_input"] # <<>>
      BY <1>7, <1>8, <2>1, <2>4, <2>5
    <2>7. Sigs(x)
      BY <2>1, <2>2, <2>4 DEF Sigs
    <2> QED
      BY <2>3, <2>4, <2>5, <2>6, <2>7 DEF AnswerOk
  <1>9. ModelsInv' /\ CallsInv' /\ ToldInv' /\ ClientInv' /\ store' = store /\ Grows
    <2>1. out.reply = <<>> \/ \E x : out.reply = <<x>> /\ AnswerOk(r, "get_partial_signatures", x)'
      BY <1>7, <1>8
    <2> QED
      BY <1>5, <1>7, <2>1, KeepsTypes
  <1>10. signed' \subseteq SigT
    BY <1>5, <1>7 DEF TypeInv, HistoryInv
  <1>11. ServerInv'
    BY <1>5, <1>9 DEF Grows, TypeInv, ServerInv
  <1> QED
    BY <1>5, <1>9, <1>10, <1>11 DEF TypeInv, HistoryInv

\* sign_deposit_tx preserves the types.
LEMMA SignDepositTxTypes ==
    ASSUME TypeInv, NEW r \in Trader, HandleSignDepositTx(r)
    PROVE  TypeInv'
  <1>5. PICK call, m, sigs, out :
          /\ call \in Held(r, "sign_deposit_tx")
          /\ m \in ModelT
          /\ m = models[r][call.model] /\ Sigs(sigs)
          /\ Handle(r, call, out) /\ SignedDeposit(r, m, sigs, out)
          /\ UNCHANGED <<draws, history>>
    BY SignDepositTxStep
  <1>7. /\ out.model \in ModelT /\ SameKeys(m, out.model)
        /\ out.model.peers_prv = m.peers_prv /\ out.model.agg_prv = m.agg_prv
        /\ out.reply = <<>> \/ out.reply = <<"deposit_psbt">>
    BY <1>5 DEF SignedDeposit, SameButSigs
  <1>8. AnswerOk(r, "sign_deposit_tx", "deposit_psbt")'
    BY DEF AnswerOk
  <1>9. ModelsInv' /\ CallsInv' /\ ToldInv' /\ ClientInv' /\ store' = store /\ Grows
    BY <1>5, <1>7, <1>8, KeepsTypes
  <1>10. ServerInv'
    BY <1>5, <1>9 DEF Grows, TypeInv, ServerInv
  <1> QED
    BY <1>5, <1>9, <1>10 DEF history, TypeInv, HistoryInv

\* publish_deposit_tx preserves the types.
LEMMA PublishDepositTxTypes ==
    ASSUME TypeInv, NEW r \in Trader, HandlePublishDepositTx(r)
    PROVE  TypeInv'
  <1>5. PICK call, m, out :
          /\ call \in Held(r, "publish_deposit_tx")
          /\ m \in ModelT
          /\ m = models[r][call.model]
          /\ Handle(r, call, out) /\ out.model = m /\ out.reply = <<"confirmed">>
          /\ UNCHANGED <<draws, history>>
    BY PublishDepositTxStep
  <1>7. /\ out.model \in ModelT /\ SameKeys(m, out.model)
        /\ out.model.peers_prv = m.peers_prv /\ out.model.agg_prv = m.agg_prv
        /\ out.reply = <<"confirmed">>
    BY <1>5 DEF SameKeys
  <1>8. AnswerOk(r, "publish_deposit_tx", "confirmed")'
    BY DEF AnswerOk
  <1>9. ModelsInv' /\ CallsInv' /\ ToldInv' /\ ClientInv' /\ store' = store /\ Grows
    BY <1>5, <1>7, <1>8, KeepsTypes
  <1>10. UNCHANGED <<draws, history>>
    BY <1>5
  <1>11. ServerInv'
    BY <1>9, <1>10 DEF Grows, TypeInv, ServerInv
  <1> QED
    BY <1>9, <1>10, <1>11 DEF history, TypeInv, HistoryInv

\* sign_swap_tx preserves the types.
LEMMA SignSwapTxTypes ==
    ASSUME TypeInv, NEW r \in Trader, HandleSignSwapTx(r)
    PROVE  TypeInv'
  <1>5. PICK call, m, sig, out :
          /\ call \in Held(r, "sign_swap_tx")
          /\ m \in ModelT
          /\ sig \in SigT
          /\ m = models[r][call.model]
          /\ Handle(r, call, out) /\ SignedSwap(m, sig, out)
          /\ finals' = IF out.reply = <<>> THEN finals ELSE finals \cup {out.reply[1].swap_tx}
          /\ UNCHANGED <<draws, signed, closed>>
    BY SignSwapTxStep
  <1> DEFINE swap == [ctx |-> "swap_tx_input", key |-> m.agg["seller_output"],
                      nonces |-> m.agg_nonce["swap_tx_input"],
                      adaptor |-> m.mine["buyer_output"]]
  <1>7. /\ out.model \in ModelT /\ SameKeys(m, out.model)
        /\ out.model.peers_prv = m.peers_prv /\ out.model.agg_prv = m.agg_prv
        /\ \/ out.reply = <<>>
           \/ out.reply = <<[swap_tx |-> swap, share |-> m.mine["buyer_output"]]>>
    BY <1>5 DEF SignedSwap, SameButSigs
  <1>8. swap \in FinalT /\ m.mine["buyer_output"] \in PointT
    BY <1>5, Contexts DEF ModelT, FinalT, Output
  <1> HIDE DEF swap
  <1>9. AnswerOk(r, "sign_swap_tx", [swap_tx |-> swap, share |-> m.mine["buyer_output"]])'
    BY <1>8 DEF AnswerOk
  <1>10. ModelsInv' /\ CallsInv' /\ ToldInv' /\ ClientInv' /\ store' = store /\ Grows
    BY <1>5, <1>7, <1>9, KeepsTypes
  <1>11. finals' \subseteq FinalT
    BY <1>5, <1>7, <1>8 DEF TypeInv, HistoryInv
  <1>12. ServerInv'
    BY <1>5, <1>10 DEF Grows, TypeInv, ServerInv
  <1> QED
    BY <1>5, <1>10, <1>11, <1>12 DEF TypeInv, HistoryInv

\* close_trade preserves the types.
LEMMA CloseTradeTypes ==
    ASSUME TypeInv, NEW r \in Trader, HandleCloseTrade(r)
    PROVE  TypeInv'
  <1>5. PICK call, m, request, out :
          /\ call \in Held(r, "close_trade")
          /\ m \in ModelT
          /\ request \in [prv : Opt(PointT), swap_tx : Opt(FinalT)]
          /\ m = models[r][call.model]
          /\ Handle(r, call, out) /\ Closing(r, m, request, out)
          /\ closed' = IF out.reply # <<>> /\ out.model.agg_prv[MyOutput(r)]
                       THEN closed \cup {out.model.agg[MyOutput(r)]} ELSE closed
          /\ UNCHANGED <<draws, signed, finals>>
    BY CloseTradeStep
  <1>7. PICK h \in 0 .. Len(models[Peer(r)]) : Keyed(r, call.model, h, m)
    BY <1>5, HeldModel
  <1>8. PICK o \in Output : o = MyOutput(r)
    BY DEF MyOutput, Output
  <1>9. /\ out.model \in ModelT /\ SameKeys(m, out.model)
        /\ out.reply = <<>> \/ out.reply = <<ShareForPeer(r, m)>>
        /\ \/ out.model.peers_prv = m.peers_prv /\ out.model.agg_prv = m.agg_prv
           \/ /\ m.peers[o] # NoPoint
              /\ out.model.peers_prv = [m.peers_prv EXCEPT ![o] = TRUE]
              /\ out.model.agg_prv = [m.agg_prv EXCEPT ![o] = TRUE]
           \/ /\ m.peers_prv[o] /\ out.model.peers_prv = m.peers_prv
              /\ out.model.agg_prv = [m.agg_prv EXCEPT ![o] = TRUE]
    BY <1>5, <1>8 DEF Closing
  <1>10. Keyed(r, call.model, h, out.model)
    <2>1. m.peers[o] # NoPoint => h # 0
      BY <1>7 DEF Keyed
    <2>2. /\ \A p \in Output : m.peers_prv[p] => h # 0
          /\ \A p \in Output : m.agg_prv[p] => m.peers_prv[p]
          /\ m.peers_prv \in [Output -> BOOLEAN] /\ m.agg_prv \in [Output -> BOOLEAN]
      BY <1>5, <1>7 DEF Keyed, ModelT
    <2>3. \A p \in Output : out.model.peers_prv[p] => h # 0
      BY <1>9, <2>1, <2>2
    <2>4. \A p \in Output : out.model.agg_prv[p] => out.model.peers_prv[p]
      BY <1>9, <2>2
    <2> QED
      BY <1>7, <1>9, <2>3, <2>4 DEF Keyed, SameKeys
  <1>11. ShareForPeer(r, m) \in PointT
    BY <1>5 DEF ShareForPeer, ModelT, Output
  <1>12. AnswerOk(r, "close_trade", ShareForPeer(r, m))'
    BY <1>11 DEF AnswerOk
  <1>13. ModelsInv' /\ CallsInv' /\ ToldInv' /\ ClientInv' /\ store' = store /\ Grows
    BY <1>5, <1>9, <1>10, <1>12, HandleTypes
  <1>14. closed' \subseteq KeyT
    BY <1>5, <1>8, <1>9 DEF TypeInv, HistoryInv, ModelT
  <1>15. ServerInv'
    BY <1>5, <1>13 DEF Grows, TypeInv, ServerInv
  <1> QED
    BY <1>5, <1>13, <1>14, <1>15 DEF TypeInv, HistoryInv

-----------------------------------------------------------------------------
(* Invariance.                                                             *)

\* Types of the initial state.
LEMMA InitTypes == Init => TypeInv
  <1> SUFFICES ASSUME Init PROVE TypeInv
    OBVIOUS
  <1>1. \A r \in Trader : models[r] = <<>> /\ Len(models[r]) = 0
    BY DEF Init
  <1>2. models \in [Trader -> Seq(ModelT)]
    BY EmptySeq DEF Init
  <1>3. ModelsInv /\ ServerInv
    BY <1>1, <1>2 DEF Init, ModelsInv, ServerInv
  <1>4. CallsInv /\ ToldInv /\ HistoryInv
    BY DEF Init, CallsInv, ToldInv, HistoryInv
  <1>5. ClientTypes
    BY DEF Init, ClientTypes
  <1>6. KeptInv
    BY DEF Init, KeptInv, Opt, Trader
  <1> QED
    BY <1>3, <1>4, <1>5, <1>6 DEF TypeInv, ClientInv

\* Every step preserves the types, action by action.
LEMMA TypesStep == TypeInv /\ [Next]_vars => TypeInv'
  <1> SUFFICES ASSUME TypeInv, [Next]_vars PROVE TypeInv'
    OBVIOUS
  <1>1. CASE UNCHANGED vars
    BY <1>1 DEF vars, server, client, history, TypeInv, ModelsInv, ServerInv, CallsInv, CallOk,
                ArgOk, ToldInv, BodyOk, SharesOf, ClientInv, ClientTypes, KeptInv, HistoryInv
  <1>2. CASE Next
    <2>1. PICK r \in Trader :
            \/ Call(r) \/ Retry(r) \/ StartOver(r)
            \/ InitTrade(r) \/ GetTradeModel(r) \/ MissingTrade(r) \/ Crash(r)
            \/ HandleGetNonceShares(r) \/ HandleGetPartialSignatures(r) \/ HandleSignDepositTx(r)
            \/ HandlePublishDepositTx(r) \/ HandleSignSwapTx(r) \/ HandleCloseTrade(r)
      BY <1>2 DEF Next
    <2> QED
      BY <2>1, ClientStepTypes, InitTradeTypes, FetchTypes, GetNonceSharesTypes,
         GetPartialSignaturesTypes, SignDepositTxTypes, PublishDepositTxTypes, SignSwapTxTypes,
         CloseTradeTypes
  <1> QED
    BY <1>1, <1>2

\* The typed parts of the state stay typed: whatever a client sends or gets, the
\* handlers work on models, keys, nonces and signatures of the right kind.
THEOREM Types == Spec => []TypeInv
  <1> QED
    BY InitTypes, TypesStep, PTL DEF Spec

-----------------------------------------------------------------------------
(* Nonces.  Every draw of r's gets a number of its own.  A model holds the *)
(* public nonces of one draw and the secret ones of the same, or none; an  *)
(* unused draw is in one model only, and nothing is signed with it yet.    *)

Holds(r, n, m) ==
    /\ m.pub_nonce = NoncesOf(r, n)
    /\ m.sec_nonce = NoncesOf(r, n) \/ m.sec_nonce = NoncesOf(r, 0)

Unused(r, g, n) == models[r][g].sec_nonce = NoncesOf(r, n)

DrawnInv == \A r \in Trader : \A g \in 1 .. Len(models[r]) :
                \E n \in 0 .. draws[r] : Holds(r, n, models[r][g])

OneModelInv == \A r \in Trader : \A g, h \in 1 .. Len(models[r]) : \A n \in 1 .. draws[r] :
                   Unused(r, g, n) /\ Unused(r, h, n) => g = h

UsedInv == \A s \in signed : \E r \in Trader : \E n \in 1 .. draws[r] :
               /\ s.nonce = Nonce(s.ctx, r, n)
               /\ \A g \in 1 .. Len(models[r]) : ~Unused(r, g, n)

NonceInv == DrawnInv /\ OneModelInv /\ UsedInv /\ NonceNotReused

\* The sets of nonces of a trader are told apart by their numbers.
LEMMA NoncesDiffer ==
    ASSUME NEW r \in Trader, NEW n \in Nat, NEW k \in Nat
    PROVE  /\ NoncesOf(r, n) = NoncesOf(r, k) => n = k
           /\ \A c \in Ctx : n # 0 => NoncesOf(r, n)[c] = Nonce(c, r, n) /\ NoncesOf(r, n)[c] # NoNonce
           /\ \A c \in Ctx : NoncesOf(r, 0)[c] = NoNonce
  <1>1. PICK c \in Ctx : c = "swap_tx_input"
    BY Contexts
  <1>2. \A d \in Ctx : Nonce(d, r, n) # NoNonce /\ Nonce(d, r, k) # NoNonce
    BY DEF Nonce, NoNonce, Trader
  <1>3. \A j \in Nat : NoncesOf(r, j)[c] = IF j = 0 THEN NoNonce ELSE Nonce(c, r, j)
    BY <1>1 DEF NoncesOf
  <1>4. Nonce(c, r, n) = Nonce(c, r, k) => n = k
    BY DEF Nonce
  <1>5. NoncesOf(r, n) = NoncesOf(r, k) => n = k
    BY <1>2, <1>3, <1>4
  <1>6. /\ \A d \in Ctx : n # 0 => NoncesOf(r, n)[d] = Nonce(d, r, n) /\ NoncesOf(r, n)[d] # NoNonce
        /\ \A d \in Ctx : NoncesOf(r, 0)[d] = NoNonce
    BY <1>2 DEF NoncesOf
  <1> QED
    BY <1>5, <1>6

\* Steps that neither draw nor sign.  New models hold no nonces.
LEMMA NoncesKept ==
    ASSUME TypeInv, TypeInv', NonceInv, UNCHANGED <<draws, signed>>,
           \A r \in Trader : \A g \in 1 .. Len(models'[r]) :
              \/ Holds(r, 0, models'[r][g])
              \/ /\ g \in 1 .. Len(models[r])
                 /\ models'[r][g].pub_nonce = models[r][g].pub_nonce
                 /\ models'[r][g].sec_nonce = models[r][g].sec_nonce
    PROVE  NonceInv'
  <1>1. \A r \in Trader : draws[r] \in Nat
    BY DEF TypeInv, ServerInv
  <1>2. DrawnInv'
    <2> SUFFICES ASSUME NEW r \in Trader, NEW g \in 1 .. Len(models'[r])
                 PROVE  \E n \in 0 .. draws[r] : Holds(r, n, models'[r][g])
      BY DEF DrawnInv
    <2>1. CASE Holds(r, 0, models'[r][g])
      BY <1>1, <2>1
    <2>2. CASE /\ g \in 1 .. Len(models[r])
               /\ models'[r][g].pub_nonce = models[r][g].pub_nonce
               /\ models'[r][g].sec_nonce = models[r][g].sec_nonce
      BY <2>2 DEF NonceInv, DrawnInv, Holds
    <2> QED
      BY <2>1, <2>2
  <1>3. ASSUME NEW r \in Trader, NEW g \in 1 .. Len(models'[r]), NEW n \in 1 .. draws[r],
               Unused(r, g, n)'
        PROVE  g \in 1 .. Len(models[r]) /\ Unused(r, g, n)
    <2>1. n \in Nat /\ n # 0
      BY <1>1
    <2>2. ~Holds(r, 0, models'[r][g])
      BY <1>3, <2>1, NoncesDiffer DEF Unused, Holds
    <2> QED
      BY <1>3, <2>2 DEF Unused
  <1>4. OneModelInv'
    BY <1>3 DEF NonceInv, OneModelInv
  <1>5. UsedInv'
    BY <1>3 DEF NonceInv, UsedInv
  <1>6. NonceNotReused'
    BY DEF NonceInv, NonceNotReused
  <1> QED
    BY <1>2, <1>4, <1>5, <1>6 DEF NonceInv

\* A handler that changes no nonces.
LEMMA HandledNonces ==
    ASSUME TypeInv, TypeInv', NonceInv, UNCHANGED <<draws, signed>>,
           NEW r \in Trader, NEW rpc, NEW call \in Held(r, rpc), NEW out, Handle(r, call, out),
           out.model \in ModelT,
           out.model.pub_nonce = models[r][call.model].pub_nonce,
           out.model.sec_nonce = models[r][call.model].sec_nonce
    PROVE  NonceInv'
  <1>1. /\ \A q \in Trader : Len(models'[q]) = Len(models[q])
        /\ models'[r][call.model] = out.model
        /\ \A q \in Trader : \A g \in 1 .. Len(models[q]) :
             q # r \/ g # call.model => models'[q][g] = models[q][g]
    BY Handled
  <1>2. ASSUME NEW q \in Trader, NEW g \in 1 .. Len(models'[q])
        PROVE  /\ g \in 1 .. Len(models[q])
               /\ models'[q][g].pub_nonce = models[q][g].pub_nonce
               /\ models'[q][g].sec_nonce = models[q][g].sec_nonce
    BY <1>1
  <1> QED
    BY <1>2, NoncesKept

\* get_nonce_shares draws nonces that nothing was signed with.
LEMMA GetNonceSharesNonces ==
    ASSUME TypeInv, TypeInv', NonceInv, NEW r \in Trader, HandleGetNonceShares(r)
    PROVE  NonceInv'
  <1>1. PICK call, m, shares, h, n, out :
          /\ call \in Held(r, "get_nonce_shares")
          /\ m \in ModelT
          /\ shares \in [Output -> PointT]
          /\ h \in 1 .. Len(models[Peer(r)])
          /\ n \in Nat \ {0}
          /\ n = draws[r] + 1
          /\ Handle(r, call, out) /\ GotNonces(r, m, shares, n, out)
          /\ draws' = [draws EXCEPT ![r] = @ + 1]
          /\ UNCHANGED history
    BY GetNonceSharesStep
  <1>2. out.model \in ModelT /\ out.model.pub_nonce = NoncesOf(r, n)
        /\ out.model.sec_nonce = NoncesOf(r, n)
    BY <1>1 DEF GotNonces
  <1>3. /\ call.model \in 1 .. Len(models[r])
        /\ \A q \in Trader : Len(models'[q]) = Len(models[q])
        /\ models'[r][call.model] = out.model
        /\ \A q \in Trader : \A g \in 1 .. Len(models[q]) :
             q # r \/ g # call.model => models'[q][g] = models[q][g]
    BY <1>1, <1>2, Handled
  <1>4. /\ \A q \in Trader : draws[q] \in Nat /\ draws'[q] \in Nat
        /\ draws'[r] = n /\ \A q \in Trader \ {r} : draws'[q] = draws[q]
    BY <1>1 DEF TypeInv, ServerInv
  <1>5. signed' = signed
    BY <1>1 DEF history
  <1>6. ASSUME NEW q \in Trader, NEW g \in 1 .. Len(models[q]), q # r \/ g # call.model
        PROVE  /\ \E k \in 0 .. draws[q] : Holds(q, k, models[q][g])
               /\ models'[q][g] = models[q][g]
               /\ ~Unused(r, g, n) \/ q # r
    <2>1. PICK k \in 0 .. draws[q] : Holds(q, k, models[q][g])
      BY DEF NonceInv, DrawnInv
    <2>2. CASE q = r
      <3>1. k \in Nat /\ k # n
        BY <1>1, <1>4, <2>2
      <3>2. NoncesOf(r, k) # NoncesOf(r, n) /\ NoncesOf(r, 0) # NoncesOf(r, n)
        BY <1>1, <3>1, NoncesDiffer
      <3> QED
        BY <1>3, <1>6, <2>1, <2>2, <3>2 DEF Holds, Unused
    <2> QED
      BY <1>3, <1>6, <2>1, <2>2
  <1>7. DrawnInv'
    <2> SUFFICES ASSUME NEW q \in Trader, NEW g \in 1 .. Len(models'[q])
                 PROVE  \E k \in 0 .. draws'[q] : Holds(q, k, models'[q][g])
      BY DEF DrawnInv
    <2>1. CASE q = r /\ g = call.model
      <3>1. Holds(r, n, models'[q][g])
        BY <1>2, <1>3, <2>1 DEF Holds
      <3> QED
        BY <1>4, <2>1, <3>1
    <2>2. CASE q # r \/ g # call.model
      <3>1. PICK k \in 0 .. draws[q] : Holds(q, k, models'[q][g])
        BY <1>3, <1>6, <2>2
      <3>2. k \in 0 .. draws'[q]
        BY <1>1, <1>4
      <3> QED
        BY <3>1, <3>2
    <2> QED
      BY <2>1, <2>2
  <1>8. ASSUME NEW q \in Trader, NEW g \in 1 .. Len(models[q]), NEW k \in 1 .. draws'[q],
               Unused(q, g, k)', q # r \/ g # call.model
        PROVE  k \in 1 .. draws[q] /\ Unused(q, g, k)
    <2>1. Unused(q, g, k)
      BY <1>6, <1>8 DEF Unused
    <2>2. k # n \/ q # r
      BY <1>6, <1>8, <2>1
    <2> QED
      BY <1>1, <1>4, <2>1, <2>2
  <1>9. ASSUME NEW k \in 1 .. draws'[r], Unused(r, call.model, k)'
        PROVE  k = n
    <2>1. k \in Nat /\ NoncesOf(r, k) = NoncesOf(r, n)
      BY <1>2, <1>3, <1>4, <1>9 DEF Unused
    <2> QED
      BY <1>1, <2>1, NoncesDiffer
  <1>10. OneModelInv'
    <2> SUFFICES ASSUME NEW q \in Trader, NEW g \in 1 .. Len(models'[q]),
                        NEW f \in 1 .. Len(models'[q]), NEW k \in 1 .. draws'[q],
                        Unused(q, g, k)', Unused(q, f, k)'
                 PROVE  g = f
      BY DEF OneModelInv
    <2>1. g \in 1 .. Len(models[q]) /\ f \in 1 .. Len(models[q])
      BY <1>3
    <2>2. CASE q # r \/ (g # call.model /\ f # call.model)
      BY <1>8, <2>1, <2>2 DEF NonceInv, OneModelInv
    <2>3. CASE q = r /\ g = call.model
      <3>1. k = n
        BY <1>9, <2>3
      <3>2. f # call.model => k \in 1 .. draws[r]
        BY <1>8, <2>1, <2>3
      <3>3. n \notin 1 .. draws[r]
        BY <1>1, <1>4
      <3> QED
        BY <2>3, <3>1, <3>2, <3>3
    <2>4. CASE q = r /\ f = call.model
      <3>1. k = n
        BY <1>9, <2>4
      <3>2. g # call.model => k \in 1 .. draws[r]
        BY <1>8, <2>1, <2>4
      <3>3. n \notin 1 .. draws[r]
        BY <1>1, <1>4
      <3> QED
        BY <2>4, <3>1, <3>2, <3>3
    <2> QED
      BY <2>2, <2>3, <2>4
  <1>11. UsedInv'
    <2> SUFFICES ASSUME NEW s \in signed
                 PROVE  \E q \in Trader : \E k \in 1 .. draws'[q] :
                          /\ s.nonce = Nonce(s.ctx, q, k)
                          /\ \A g \in 1 .. Len(models'[q]) : ~Unused(q, g, k)'
      BY <1>5 DEF UsedInv
    <2>0. PICK q \in Trader : \E k \in 1 .. draws[q] :
            /\ s.nonce = Nonce(s.ctx, q, k)
            /\ \A g \in 1 .. Len(models[q]) : ~Unused(q, g, k)
      BY DEF NonceInv, UsedInv
    <2>1. PICK k \in 1 .. draws[q] :
            /\ s.nonce = Nonce(s.ctx, q, k)
            /\ \A g \in 1 .. Len(models[q]) : ~Unused(q, g, k)
      BY <2>0
    <2>2. k \in 1 .. draws'[q] /\ (q = r => k # n)
      BY <1>1, <1>4
    <2>3. \A g \in 1 .. Len(models'[q]) : ~Unused(q, g, k)'
      BY <1>3, <1>8, <1>9, <2>1, <2>2
    <2> QED
      BY <2>1, <2>2, <2>3
  <1>12. NonceNotReused'
    BY <1>5 DEF NonceInv, NonceNotReused
  <1> QED
    BY <1>7, <1>10, <1>11, <1>12 DEF NonceInv

\* get_partial_signatures signs with nonces that it takes out of the model.
LEMMA GetPartialSignaturesNonces ==
    ASSUME TypeInv, TypeInv', NonceInv, NEW r \in Trader, HandleGetPartialSignatures(r)
    PROVE  NonceInv'
  <1>1. PICK call, m, nonces, out :
          /\ call \in Held(r, "get_partial_signatures")
          /\ m \in ModelT
          /\ nonces \in [Ctx -> NonceT]
          /\ m = models[r][call.model]
          /\ Handle(r, call, out) /\ SignedPartially(r, m, nonces, out)
          /\ signed' = IF out.reply = <<>> THEN signed
                       ELSE signed \cup { out.model.my_sig[c][1] : c \in Ctx }
          /\ UNCHANGED <<draws, finals, closed>>
    BY GetPartialSignaturesStep
  <1>2. /\ out.model \in ModelT /\ out.model.pub_nonce = m.pub_nonce
        /\ \/ out.reply = <<>> /\ out.model.sec_nonce = m.sec_nonce
           \/ /\ out.reply # <<>>
              /\ \A c \in Ctx : m.sec_nonce[c] # NoNonce
              /\ out.model.sec_nonce = NoncesOf(r, 0)
              /\ \A c \in Ctx : \E s \in SigT :
                    out.model.my_sig[c] = <<s>> /\ s.ctx = c /\ s.nonce = m.sec_nonce[c]
    <2>1. SignedPartially(r, m, nonces, out)
      BY <1>1
    <2>2. <<SigsOnPeerTxs(r, out.model)>> # <<>>
      OBVIOUS
    <2>3. out.model \in ModelT /\ out.model.pub_nonce = m.pub_nonce
      BY <2>1 DEF SignedPartially, SameKeys
    <2>4. CASE out.reply = <<>>
      <3>1. out.model.sec_nonce = m.sec_nonce
        BY <2>1, <2>2, <2>4 DEF SignedPartially
      <3> QED
        BY <2>3, <2>4, <3>1
    <2>5. CASE out.reply # <<>>
      <3>1. /\ \A c \in Ctx : m.sec_nonce[c] # NoNonce
            /\ out.model.sec_nonce = NoncesOf(r, 0)
            /\ \A c \in Ctx : \E s \in SigT :
                  out.model.my_sig[c] = <<s>> /\ s.ctx = c /\ s.nonce = m.sec_nonce[c]
        BY <2>1, <2>5 DEF SignedPartially
      <3> QED
        BY <2>3, <2>5, <3>1
    <2> QED
      BY <2>4, <2>5
  <1>3. CASE out.reply = <<>>
    BY <1>1, <1>2, <1>3, HandledNonces
  <1>4. CASE out.reply # <<>>
    <2>1. /\ call.model \in 1 .. Len(models[r])
          /\ \A q \in Trader : Len(models'[q]) = Len(models[q])
          /\ models'[r][call.model] = out.model
          /\ \A q \in Trader : \A g \in 1 .. Len(models[q]) :
               q # r \/ g # call.model => models'[q][g] = models[q][g]
      BY <1>1, <1>2, Handled
    <2>2. PICK n \in 0 .. draws[r] : Holds(r, n, m)
      BY <1>1, <2>1 DEF NonceInv, DrawnInv
    <2>3. \A q \in Trader : draws[q] \in Nat
      BY DEF TypeInv, ServerInv
    <2>4. n \in 1 .. draws[r] /\ n \in Nat /\ m.sec_nonce = NoncesOf(r, n)
      <3>1. m.sec_nonce # NoncesOf(r, 0)
        BY <1>2, <1>4, Contexts, NoncesDiffer
      <3> QED
        BY <2>2, <2>3, <3>1 DEF Holds
    <2>5. \A c \in Ctx : \E s \in SigT :
             out.model.my_sig[c] = <<s>> /\ s.ctx = c /\ s.nonce = Nonce(c, r, n)
      BY <1>2, <1>4, <2>4, NoncesDiffer
    <2>6. \A s \in signed' \ signed :
             s.ctx \in Ctx /\ out.model.my_sig[s.ctx] = <<s>> /\ s.nonce = Nonce(s.ctx, r, n)
      <3> SUFFICES ASSUME NEW c \in Ctx, NEW s, s = out.model.my_sig[c][1]
                   PROVE  s.ctx \in Ctx /\ out.model.my_sig[s.ctx] = <<s>> /\ s.nonce = Nonce(s.ctx, r, n)
        BY <1>1, <1>4
      <3> QED
        BY <2>5
    <2>7. Unused(r, call.model, n)
      BY <1>1, <2>4 DEF Unused
    <2>8. DrawnInv'
      <3> SUFFICES ASSUME NEW q \in Trader, NEW g \in 1 .. Len(models'[q])
                   PROVE  \E k \in 0 .. draws[q] : Holds(q, k, models'[q][g])
        BY <1>1 DEF DrawnInv
      <3>1. CASE q = r /\ g = call.model
        <4>1. Holds(r, n, models'[q][g])
          BY <1>2, <1>4, <2>1, <2>2, <3>1 DEF Holds
        <4> QED
          BY <2>2, <3>1, <4>1
      <3>2. CASE q # r \/ g # call.model
        BY <2>1, <3>2 DEF NonceInv, DrawnInv
      <3> QED
        BY <3>1, <3>2
    <2>9. ASSUME NEW q \in Trader, NEW g \in 1 .. Len(models'[q]), NEW k \in 1 .. draws[q],
                 Unused(q, g, k)'
          PROVE  Unused(q, g, k) /\ (q = r => k # n)
      <3>1. g \in 1 .. Len(models[q]) /\ k \in Nat /\ k # 0
        BY <2>1, <2>3
      <3>2. q # r \/ g # call.model
        BY <1>2, <1>4, <2>1, <2>9, <3>1, NoncesDiffer DEF Unused
      <3>3. Unused(q, g, k)
        BY <2>1, <2>9, <3>1, <3>2 DEF Unused
      <3>4. q = r => k # n
        BY <2>1, <2>7, <3>1, <3>2, <3>3 DEF NonceInv, OneModelInv
      <3> QED
        BY <3>3, <3>4
    <2>10. OneModelInv'
      BY <1>1, <2>1, <2>9 DEF NonceInv, OneModelInv
    <2>11. UsedInv'
      <3> SUFFICES ASSUME NEW s \in signed'
                   PROVE  \E q \in Trader : \E k \in 1 .. draws[q] :
                            /\ s.nonce = Nonce(s.ctx, q, k)
                            /\ \A g \in 1 .. Len(models'[q]) : ~Unused(q, g, k)'
        BY <1>1 DEF UsedInv
      <3>1. CASE s \in signed
        BY <2>1, <2>9, <3>1 DEF NonceInv, UsedInv
      <3>2. CASE s \notin signed
        BY <2>4, <2>6, <2>9, <3>2
      <3> QED
        BY <3>1, <3>2
    <2>12. NonceNotReused'
      <3> SUFFICES ASSUME NEW s \in signed', NEW t \in signed', s.nonce = t.nonce
                   PROVE  s = t
        BY DEF NonceNotReused
      <3>1. ASSUME NEW u \in signed, NEW v \in signed' \ signed
            PROVE  u.nonce # v.nonce
        <4>0. PICK q \in Trader : \E k \in 1 .. draws[q] :
                /\ u.nonce = Nonce(u.ctx, q, k)
                /\ \A g \in 1 .. Len(models[q]) : ~Unused(q, g, k)
          BY DEF NonceInv, UsedInv
        <4>1. PICK k \in 1 .. draws[q] :
                /\ u.nonce = Nonce(u.ctx, q, k)
                /\ \A g \in 1 .. Len(models[q]) : ~Unused(q, g, k)
          BY <4>0
        <4>2. ASSUME q = r, k = n PROVE FALSE
          <5>1. call.model \in 1 .. Len(models[q])
            BY <2>1, <4>2
          <5>2. ~Unused(q, call.model, k)
            BY <4>1, <5>1
          <5> QED
            BY <2>7, <4>2, <5>2
        <4>3. v.nonce = Nonce(v.ctx, r, n)
          BY <2>6
        <4>4. Nonce(u.ctx, q, k) # Nonce(v.ctx, r, n)
          BY <4>2 DEF Nonce
        <4> QED
          BY <4>1, <4>3, <4>4
      <3>2. CASE s \in signed /\ t \in signed
        BY <3>2 DEF NonceInv, NonceNotReused
      <3>3. CASE s \notin signed /\ t \notin signed
        <4>0. Nonce(s.ctx, r, n) = Nonce(t.ctx, r, n)
          BY <2>6, <3>3
        <4>1. s.ctx = t.ctx
          BY <4>0 DEF Nonce
        <4>2. <<s>> = <<t>>
          BY <2>6, <3>3, <4>1
        <4> QED
          BY <4>2
      <3> QED
        BY <3>1, <3>2, <3>3
    <2> QED
      BY <2>8, <2>10, <2>11, <2>12 DEF NonceInv
  <1> QED
    BY <1>3, <1>4

\* The steps that run no such handler.
LEMMA OtherNonces ==
    ASSUME TypeInv, TypeInv', NonceInv, NEW r \in Trader,
           \/ Call(r) \/ Retry(r) \/ StartOver(r)
           \/ InitTrade(r) \/ GetTradeModel(r) \/ MissingTrade(r) \/ Crash(r)
           \/ HandleSignDepositTx(r) \/ HandlePublishDepositTx(r)
           \/ HandleSignSwapTx(r) \/ HandleCloseTrade(r)
    PROVE  NonceInv'
  <1>1. CASE \/ Call(r) \/ Retry(r) \/ StartOver(r)
             \/ GetTradeModel(r) \/ MissingTrade(r) \/ Crash(r)
    <2>1. UNCHANGED <<models, draws, signed>>
      BY <1>1 DEF Call, Retry, StartOver, GetTradeModel, MissingTrade, Crash, server, history
    <2> QED
      BY <2>1, NoncesKept
  <1>2. CASE InitTrade(r)
    <2>1. PICK g \in Nat : g = Len(models[r]) + 1
      BY ModelsTypes DEF TypeInv, ModelsInv
    <2>2. PICK m : m = NewModel(r, g)
      OBVIOUS
    <2>3. /\ models' = [models EXCEPT ![r] = Append(@, m)]
          /\ UNCHANGED <<draws, signed>>
      BY <1>2, <2>1, <2>2 DEF InitTrade, history
    <2>4. m \in ModelT /\ Holds(r, 0, m)
      BY <2>2, NewModelType DEF Holds
    <2>5. models \in [Trader -> Seq(ModelT)]
      BY DEF TypeInv, ModelsInv
    <2>6. /\ \A q \in Trader \ {r} : models'[q] = models[q]
          /\ Len(models'[r]) = Len(models[r]) + 1
          /\ models'[r][Len(models[r]) + 1] = m
          /\ \A k \in 1 .. Len(models[r]) : models'[r][k] = models[r][k]
      BY <2>3, <2>4, <2>5, AddedModel
    <2>7. ASSUME NEW q \in Trader, NEW k \in 1 .. Len(models'[q])
          PROVE  \/ Holds(q, 0, models'[q][k])
                 \/ k \in 1 .. Len(models[q]) /\ models'[q][k] = models[q][k]
      <3>1. CASE q = r /\ k = g
        BY <2>1, <2>4, <2>6, <3>1
      <3>2. CASE q # r \/ k # g
        BY <2>1, <2>6, <3>2
      <3> QED
        BY <3>1, <3>2
    <2> QED
      BY <2>3, <2>7, NoncesKept
  <1>3. CASE HandleSignDepositTx(r)
    <2>1. PICK call, m, sigs, out :
            /\ call \in Held(r, "sign_deposit_tx")
            /\ m \in ModelT
            /\ m = models[r][call.model]
            /\ Handle(r, call, out) /\ SignedDeposit(r, m, sigs, out)
            /\ UNCHANGED <<draws, history>>
      BY <1>3, SignDepositTxStep
    <2>2. /\ out.model \in ModelT /\ out.model.pub_nonce = m.pub_nonce
          /\ out.model.sec_nonce = m.sec_nonce
      BY <2>1 DEF SignedDeposit, SameButSigs, SameKeys
    <2> QED
      BY <2>1, <2>2, HandledNonces DEF history
  <1>4. CASE HandlePublishDepositTx(r)
    <2>1. PICK call, m, out :
            /\ call \in Held(r, "publish_deposit_tx")
            /\ m \in ModelT
            /\ m = models[r][call.model] /\ Handle(r, call, out) /\ out.model = m
            /\ UNCHANGED <<draws, history>>
      BY <1>4, PublishDepositTxStep
    <2> QED
      BY <2>1, HandledNonces DEF history
  <1>5. CASE HandleSignSwapTx(r)
    <2>1. PICK call, m, sig, out :
            /\ call \in Held(r, "sign_swap_tx")
            /\ m \in ModelT
            /\ sig \in SigT
            /\ m = models[r][call.model]
            /\ Handle(r, call, out) /\ SignedSwap(m, sig, out)
            /\ UNCHANGED <<draws, signed>>
      BY <1>5, SignSwapTxStep
    <2>2. /\ out.model \in ModelT /\ out.model.pub_nonce = m.pub_nonce
          /\ out.model.sec_nonce = m.sec_nonce
      BY <2>1 DEF SignedSwap, SameButSigs, SameKeys
    <2> QED
      BY <2>1, <2>2, HandledNonces
  <1>6. CASE HandleCloseTrade(r)
    <2>1. PICK call, m, request, out :
            /\ call \in Held(r, "close_trade")
            /\ m \in ModelT
            /\ request \in [prv : Opt(PointT), swap_tx : Opt(FinalT)]
            /\ m = models[r][call.model]
            /\ Handle(r, call, out) /\ Closing(r, m, request, out)
            /\ UNCHANGED <<draws, signed>>
      BY <1>6, CloseTradeStep
    <2>2. /\ out.model \in ModelT /\ out.model.pub_nonce = m.pub_nonce
          /\ out.model.sec_nonce = m.sec_nonce
      BY <2>1 DEF Closing, SameKeys
    <2> QED
      BY <2>1, <2>2, HandledNonces
  <1> QED
    BY <1>1, <1>2, <1>3, <1>4, <1>5, <1>6

\* Nothing is signed at first.
LEMMA InitNonces == Init => NonceInv
  <1> SUFFICES ASSUME Init PROVE NonceInv
    OBVIOUS
  <1>1. \A r \in Trader : Len(models[r]) = 0
    BY DEF Init
  <1>2. DrawnInv /\ OneModelInv
    BY <1>1 DEF DrawnInv, OneModelInv
  <1>3. UsedInv /\ NonceNotReused
    BY DEF Init, UsedInv, NonceNotReused
  <1> QED
    BY <1>2, <1>3 DEF NonceInv

\* Every step preserves what is known of the nonces.
LEMMA NoncesStep == TypeInv /\ TypeInv' /\ NonceInv /\ [Next]_vars => NonceInv'
  <1> SUFFICES ASSUME TypeInv, TypeInv', NonceInv, [Next]_vars PROVE NonceInv'
    OBVIOUS
  <1>1. CASE UNCHANGED vars
    <2>1. UNCHANGED <<models, draws, signed>>
      BY <1>1 DEF vars, server, history
    <2> QED
      BY <2>1, NoncesKept
  <1>2. CASE Next
    <2>1. PICK r \in Trader :
            \/ Call(r) \/ Retry(r) \/ StartOver(r)
            \/ InitTrade(r) \/ GetTradeModel(r) \/ MissingTrade(r) \/ Crash(r)
            \/ HandleGetNonceShares(r) \/ HandleGetPartialSignatures(r) \/ HandleSignDepositTx(r)
            \/ HandlePublishDepositTx(r) \/ HandleSignSwapTx(r) \/ HandleCloseTrade(r)
      BY <1>2 DEF Next
    <2> QED
      BY <2>1, GetNonceSharesNonces, GetPartialSignaturesNonces, OtherNonces
  <1> QED
    BY <1>1, <1>2

\* No secret nonce makes two different signatures, however often calls are
\* repeated, late or made with other arguments, and however many models of the
\* trade there are.
THEOREM NoncesAreUsedOnce == Spec => []NonceNotReused
  <1>1. Spec => [](TypeInv /\ NonceInv)
    BY InitTypes, TypesStep, InitNonces, NoncesStep, PTL DEF Spec
  <1>2. NonceInv => NonceNotReused
    BY DEF NonceInv
  <1> QED
    BY <1>1, <1>2, PTL

-----------------------------------------------------------------------------
(* The type invariant that the runs check.                                 *)

\* The inductive types imply those of the run.
LEMMA TypesOK == TypeInv /\ NonceInv => TypeOK
  <1> SUFFICES ASSUME TypeInv, NonceInv PROVE TypeOK
    OBVIOUS
  <1>1. \A r \in Trader : Len(models[r]) \in Nat /\ Len(models[Peer(r)]) \in Nat
    BY ModelsTypes, Peers DEF TypeInv, ModelsInv
  <1>2. ASSUME NEW r \in Trader PROVE store[r] \in 0 .. Len(models[r])
    <2>1. store[r] \in Nat /\ store[r] <= Len(models[r])
      BY DEF TypeInv, ServerInv
    <2> QED
      BY <1>1, <2>1
  <1>3. \A call \in calls : call.from \in Trader /\ call.model \in 0 .. Len(models[call.from])
    BY DEF TypeInv, CallsInv, CallOk
  <1>4. ASSUME NEW r \in Trader, NEW g \in 1 .. Len(models[r]), NEW m, m = models[r][g]
        PROVE  /\ \A o \in Output : /\ m.mine[o] = Point(o, r, g)
                                    /\ m.peers[o] \in Points(Peer(r)) \cup {NoPoint}
                                    /\ m.agg[o] = <<>> <=> m.peers[o] = NoPoint
                                    /\ m.agg_prv[o] => m.peers_prv[o]
               /\ \A c \in Ctx : m.sec_nonce[c] \in {m.pub_nonce[c], NoNonce}
    <2>1. PICK h \in 0 .. Len(models[Peer(r)]) : Keyed(r, g, h, m)
      BY <1>4 DEF TypeInv, ModelsInv
    <2>2. PICK n \in 0 .. draws[r] : Holds(r, n, m)
      BY <1>4 DEF NonceInv, DrawnInv
    <2>3. ASSUME NEW o \in Output
          PROVE  /\ m.mine[o] = Point(o, r, g)
                 /\ m.peers[o] \in Points(Peer(r)) \cup {NoPoint}
                 /\ m.agg[o] = <<>> <=> m.peers[o] = NoPoint
                 /\ m.agg_prv[o] => m.peers_prv[o]
      <3>1. /\ m.mine[o] = Point(o, r, g)
            /\ m.agg_prv[o] => m.peers_prv[o]
            /\ m.peers[o] = IF h = 0 THEN NoPoint ELSE Point(o, Peer(r), h)
            /\ m.agg[o] = IF h = 0 THEN <<>>
                          ELSE KeyShares(r, Point(o, r, g), Point(o, Peer(r), h))
        BY <2>1 DEF Keyed, KeysOf
      <3>2. CASE h = 0
        BY <3>1, <3>2
      <3>3. CASE h # 0
        <4>1. h \in 1 .. Len(models[Peer(r)])
          BY <1>1, <3>3
        <4>2. Point(o, Peer(r), h) \in Points(Peer(r))
          BY <4>1 DEF Points
        <4>3. Point(o, Peer(r), h) # NoPoint
          BY <3>3 DEF Point, NoPoint
        <4>4. KeyShares(r, Point(o, r, g), Point(o, Peer(r), h)) # <<>>
          BY DEF KeyShares
        <4> QED
          BY <3>1, <3>3, <4>2, <4>3, <4>4
      <3> QED
        BY <3>2, <3>3
    <2>4. \A c \in Ctx : m.sec_nonce[c] \in {m.pub_nonce[c], NoNonce}
      BY <2>2 DEF Holds, NoncesOf
    <2> QED
      BY <2>3, <2>4
  <1>5. \A r \in Trader : \A g \in 1 .. Len(models[r]) :
          LET m == models[r][g]
          IN  /\ \A o \in Output : /\ m.mine[o] = Point(o, r, g)
                                   /\ m.peers[o] \in Points(Peer(r)) \cup {NoPoint}
                                   /\ m.agg[o] = <<>> <=> m.peers[o] = NoPoint
                                   /\ m.agg_prv[o] => m.peers_prv[o]
              /\ \A c \in Ctx : m.sec_nonce[c] \in {m.pub_nonce[c], NoNonce}
    BY <1>4
  <1>6. draws \in [Trader -> Nat]
    BY DEF TypeInv, ServerInv
  <1>7. /\ repeats \in [Trader -> Nat] /\ step \in [Trader -> 1 .. 7]
        /\ waiting \in [Trader -> BOOLEAN] /\ stopped \in [Trader -> BOOLEAN]
    BY DEF TypeInv, ClientInv, ClientTypes
  <1> QED
    BY <1>2, <1>3, <1>5, <1>6, <1>7 DEF TypeOK

\* What the two servers hold fits together: a model's keys are made of its own
\* shares and of one model of the peer's, an aggregated secret is there only with
\* the peer's, and a secret nonce is that of the public one or used up.
THEOREM TypeCorrectness == Spec => []TypeOK
  <1>1. Spec => [](TypeInv /\ NonceInv)
    BY InitTypes, TypesStep, InitNonces, NoncesStep, PTL DEF Spec
  <1> QED
    BY <1>1, TypesOK, PTL

=============================================================================
