----------------------------- MODULE TradeModel -----------------------------
(***************************************************************************)
(* rpc/src/protocol.rs: the TradeModel that the Musig RPC service keeps    *)
(* for one trader of one trade, and what each RPC handler of               *)
(* rpc/src/server.rs does to it.  A handler returns the model it leaves    *)
(* behind and its reply, <<>> for an error: a handler that fails half way  *)
(* keeps what it has changed.                                              *)
(*                                                                         *)
(* The transactions to sign are fixed dummy messages, one per signing      *)
(* context, so a context stands for its message.  Amounts, fee rates,      *)
(* addresses and receivers are stored and never read, and are left out.    *)
(***************************************************************************)
EXTENDS Integers, Sequences

Trader == {"Buyer", "Seller"}
Peer(r) == IF r = "Buyer" THEN "Seller" ELSE "Buyer"
Output == {"buyer_output", "seller_output"}

\* The contexts that sign with the key of the buyer's output, and with the
\* seller's (init_my_nonce_shares, sign_partial).
BuyerKeyCtx  == {"buyers_warning_tx_buyer_input", "sellers_warning_tx_buyer_input",
                 "buyers_redirect_tx_input"}
SellerKeyCtx == {"swap_tx_input", "buyers_warning_tx_seller_input",
                 "sellers_warning_tx_seller_input", "sellers_redirect_tx_input"}
Ctx == BuyerKeyCtx \cup SellerKeyCtx
KeyCtx(c) == IF c \in BuyerKeyCtx THEN "buyer_output" ELSE "seller_output"

\* The contexts of r's own transactions, in the order they are aggregated.
OwnCtx(r) ==
    IF r = "Buyer"
    THEN << "buyers_warning_tx_buyer_input", "buyers_warning_tx_seller_input",
            "buyers_redirect_tx_input" >>
    ELSE << "sellers_warning_tx_buyer_input", "sellers_warning_tx_seller_input",
            "sellers_redirect_tx_input" >>

\* Mutant: the buyer does not aggregate the swap.
AggregatedCtxOwn(r) == OwnCtx(r)

\* The contexts that sign_deposit_tx aggregates.
AggregatedCtx(r) == IF r = "Buyer" THEN Append(OwnCtx(r), "swap_tx_input") ELSE OwnCtx(r)
CtxSet(s) == { s[i] : i \in 1 .. Len(s) }

Point(o, r, gen) == [output |-> o, trader |-> r, gen |-> gen]
NoPoint == Point("none", "none", 0)
Nonce(c, r, n) == [ctx |-> c, trader |-> r, n |-> n]
NoNonce == Nonce("none", "none", 0)

\* TradeModel::new and init_my_key_shares.  A share and its secret have one
\* name; peers_prv and agg_prv say whether the secret is known.
NewModel(r, gen) ==
    [mine          |-> [o \in Output |-> Point(o, r, gen)],
     peers         |-> [o \in Output |-> NoPoint],
     peers_prv     |-> [o \in Output |-> FALSE],
     agg           |-> [o \in Output |-> <<>>],
     agg_prv       |-> [o \in Output |-> FALSE],
     adaptor_point |-> IF r = "Seller" THEN Point("buyer_output", r, gen) ELSE NoPoint,
     pub_nonce     |-> [c \in Ctx |-> NoNonce],
     sec_nonce     |-> [c \in Ctx |-> NoNonce],
     peers_nonce   |-> [c \in Ctx |-> NoNonce],
     agg_nonce     |-> [c \in Ctx |-> {}],
     my_sig        |-> [c \in Ctx |-> <<>>],
     peers_sig     |-> [c \in Ctx |-> <<>>],
     agg_sig       |-> [c \in Ctx |-> <<>>]]

Ok(m, reply) == [model |-> m, reply |-> <<reply>>]
Err(m)       == [model |-> m, reply |-> <<>>]

-----------------------------------------------------------------------------
(* Keys and nonces.                                                        *)

\* Mutant: each side lists its own share first.
KeySharesMineFirst(r, mine, peers) == <<mine, peers>>

\* get_key_shares: the buyer's share first, on both sides.
KeyShares(r, mine, peers) == IF r = "Buyer" THEN <<mine, peers>> ELSE <<peers, mine>>

\* Mutant: the aggregated key pair keeps its private key.
GetNonceSharesKeepsPrv(r, m, shares, n) ==
    LET nonces == [c \in Ctx |-> Nonce(c, r, n)]
    IN  Ok([m EXCEPT !.peers = shares,
                     !.peers_prv = [o \in Output |-> FALSE],
                     !.agg = [o \in Output |-> KeyShares(r, m.mine[o], shares[o])],
                     !.adaptor_point = IF r = "Buyer" THEN shares["buyer_output"] ELSE @,
                     !.pub_nonce = nonces,
                     !.sec_nonce = nonces],
           nonces)

\* get_nonce_shares: the peer's shares, the aggregated keys and new nonces.  A
\* private key that was known is gone: the pairs are rebuilt from public keys.
GetNonceShares(r, m, shares, n) ==
    LET nonces == [c \in Ctx |-> Nonce(c, r, n)]
    IN  Ok([m EXCEPT !.peers = shares,
                     !.peers_prv = [o \in Output |-> FALSE],
                     !.agg = [o \in Output |-> KeyShares(r, m.mine[o], shares[o])],
                     !.agg_prv = [o \in Output |-> FALSE],
                     !.adaptor_point = IF r = "Buyer" THEN shares["buyer_output"] ELSE @,
                     !.pub_nonce = nonces,
                     !.sec_nonce = nonces],
           nonces)

\* The adaptor point of a context: only the swap has one.
AdaptorOf(m, c) == IF c = "swap_tx_input" THEN m.adaptor_point ELSE NoPoint

\* SigCtx::sign_partial
PartialSig(m, c) ==
    [ctx |-> c, key |-> m.agg[KeyCtx(c)], signer |-> m.mine[KeyCtx(c)],
     nonce |-> m.sec_nonce[c], agg_nonce |-> m.agg_nonce[c], adaptor |-> AdaptorOf(m, c)]

\* Mutant: the secret nonce is read, not taken.
TakeNonceKept(m) == m

\* sec_nonce.take()
TakeNonce(m) == [m EXCEPT !.sec_nonce = [c \in Ctx |-> NoNonce]]

\* get_my_partial_signatures_on_peer_txs
SigsOnPeerTxs(r, m) ==
    [c \in CtxSet(OwnCtx(Peer(r))) \cup {"swap_tx_input"} |-> m.my_sig[c]]

\* get_partial_signatures: the peer's nonces are stored and aggregated even if
\* signing then fails, because there is no nonce or it is used up (NonceReuse).
\* All contexts draw and use their nonces together, so the first one fails.
GetPartialSignatures(r, m, nonces) ==
    LET stored == [m EXCEPT !.peers_nonce = nonces]
        summed == [stored EXCEPT !.agg_nonce = [c \in Ctx |-> {m.pub_nonce[c], nonces[c]}]]
        signed == [TakeNonce(summed) EXCEPT !.my_sig = [c \in Ctx |-> <<PartialSig(summed, c)>>]]
    IN  IF \E c \in Ctx : m.pub_nonce[c] = NoNonce THEN Err(stored)
        ELSE IF \E c \in Ctx : m.sec_nonce[c] = NoNonce THEN Err(summed)
        ELSE Ok(signed, SigsOnPeerTxs(r, signed))

-----------------------------------------------------------------------------
(* Signatures.                                                             *)

\* musig2's aggregation verifies the result: it succeeds when both owners of
\* the key signed this context with the current nonces and adaptor point.
CanAggregate(m, c, o) ==
    /\ m.agg[o] # <<>> /\ m.agg_nonce[c] # {}
    /\ m.my_sig[c] # <<>> /\ m.peers_sig[c] # <<>>
    /\ LET sigs == {m.my_sig[c][1], m.peers_sig[c][1]}
       IN  /\ { s.signer : s \in sigs } = { m.agg[o][i] : i \in 1 .. 2 }
           /\ { s.nonce : s \in sigs } = m.agg_nonce[c]
           /\ \A s \in sigs : /\ s.ctx = c /\ s.key = m.agg[o]
                              /\ s.agg_nonce = m.agg_nonce[c]
                              /\ s.adaptor = AdaptorOf(m, c)

\* SigCtx::aggregate_partial_signatures
AggSig(m, c, o) ==
    [ctx |-> c, key |-> m.agg[o], nonces |-> m.agg_nonce[c], adaptor |-> AdaptorOf(m, c)]

\* sign_deposit_tx: the peer's signatures on my transactions are stored, the
\* one on the swap also when it is absent, and aggregated up to the first that
\* does not verify.
SignDepositTx(r, m, sigs) ==
    LET stored == [m EXCEPT !.peers_sig = [c \in Ctx |->
                       IF c \in DOMAIN sigs THEN sigs[c] ELSE m.peers_sig[c]]]
        order  == AggregatedCtx(r)
        Fine(k) == \A i \in 1 .. k : CanAggregate(stored, order[i], KeyCtx(order[i]))
        done   == { order[k] : k \in { i \in 1 .. Len(order) : Fine(i) } }
        after  == [stored EXCEPT !.agg_sig = [c \in Ctx |->
                       IF c \in done THEN <<AggSig(stored, c, KeyCtx(c))>> ELSE m.agg_sig[c]]]
    IN  IF Fine(Len(order)) THEN Ok(after, "deposit_psbt") ELSE Err(after)

\* publish_deposit_tx: the broadcast is still to be written.
PublishDepositTx(r, m) == Ok(m, "confirmed")

\* get_my_private_key_share_for_peer_output
ShareForPeer(r, m) == m.mine[IF r = "Buyer" THEN "seller_output" ELSE "buyer_output"]

\* The output whose key r wants in the end (get_my_key_ctx_mut).
MyOutput(r) == IF r = "Buyer" THEN "buyer_output" ELSE "seller_output"

\* get_sellers_prv_key, of the buyer's output.
SellersPrvKey(r, m) ==
    IF r = "Seller" THEN <<m.mine["buyer_output"]>>
    ELSE IF m.peers_prv["buyer_output"] THEN <<m.peers["buyer_output"]>> ELSE <<>>

\* sign_swap_tx: the seller completes the swap's signature and adapts it with
\* his secret, which is handed out with it (adaptor is the secret put in: not
\* the signature's adaptor, and no node would accept it).
SignSwapTx(r, m, sig) ==
    LET stored == [m EXCEPT !.peers_sig["swap_tx_input"] = <<sig>>]
        agg    == AggSig(stored, "swap_tx_input", MyOutput(r))
        after  == [stored EXCEPT !.agg_sig["swap_tx_input"] = <<agg>>]
    IN  IF ~CanAggregate(stored, "swap_tx_input", MyOutput(r)) THEN Err(stored)
        ELSE IF SellersPrvKey(r, after) = <<>> THEN Err(after)
        ELSE Ok(after, [swap_tx |-> [agg EXCEPT !.adaptor = SellersPrvKey(r, after)[1]],
                        share   |-> ShareForPeer(r, m)])

-----------------------------------------------------------------------------
(* Closing.                                                                *)

\* Mutant: set_prv_key does not compare the secret with the public share.
LearnShareUnchecked(r, m, o, secret) ==
    IF m.peers[o] = NoPoint THEN Err(m)
    ELSE Ok([m EXCEPT !.peers_prv[o] = TRUE, !.agg_prv[o] = TRUE], ShareForPeer(r, m))

\* set_prv_key on the peer's share of output o, which rejects a secret that is
\* not the share's, then aggregate_prv_key_shares.
LearnShare(r, m, o, secret) ==
    IF m.peers[o] = NoPoint \/ secret # m.peers[o] THEN Err(m)
    ELSE Ok([m EXCEPT !.peers_prv[o] = TRUE, !.agg_prv[o] = TRUE], ShareForPeer(r, m))

\* recover_seller_private_key_share_for_buyer_output: the secret is revealed by
\* a signature that completes our own adaptor signature.  The seller's model
\* learns nothing from it and has no secret of the buyer's to aggregate.
RecoverShare(r, m, sig) ==
    IF m.agg_sig["swap_tx_input"] # <<sig>> THEN Err(m)
    ELSE IF r = "Buyer" THEN LearnShare(r, m, "buyer_output", sig.adaptor)
    ELSE IF m.peers_prv[MyOutput(r)]
         THEN Ok([m EXCEPT !.agg_prv[MyOutput(r)] = TRUE], ShareForPeer(r, m))
    ELSE Err(m)

\* close_trade, with the peer's share, with a swap transaction, or with neither
\* (then the swap is to be published).  All return my share of the peer's key.
CloseTrade(r, m, request) ==
    IF request.prv # <<>> THEN LearnShare(r, m, MyOutput(r), request.prv[1])
    ELSE IF request.swap_tx # <<>> THEN RecoverShare(r, m, request.swap_tx[1])
    ELSE Ok(m, ShareForPeer(r, m))
=============================================================================
