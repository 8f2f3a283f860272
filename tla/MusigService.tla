---------------------------- MODULE MusigService ----------------------------
(***************************************************************************)
(* The Musig RPC service of two traders, each used by a client that makes  *)
(* the calls of TradeProtocolClient.java in order.  A client may lose an   *)
(* answer, repeat a call while the first copy is still on its way or in    *)
(* the server, or start the trade over under the same trade id; what it    *)
(* has told the peer's client stays told.  A server may crash: its store   *)
(* is in memory, so after that it misses the trade.                        *)
(*                                                                         *)
(* handle_request fetches the trade model under the lock of the store and  *)
(* runs under the lock of the model: between the two, init_trade may put   *)
(* another model under the same id.                                        *)
(***************************************************************************)
EXTENDS TradeModel, FiniteSets

CONSTANTS
    Repeats,       \* bound: how often each client repeats a call or starts
                   \* over, or its server crashes
    Repeatable,    \* the RPCs whose answers may be lost and that are repeated
    StartingOver,  \* the traders whose client may start over without a crash
    Crashing       \* the traders whose server may crash
ASSUME RepeatsAssumption ==
    /\ Repeats \in [Trader -> Nat]
    /\ StartingOver \subseteq Trader /\ Crashing \subseteq Trader

VARIABLES
    models,     \* every TradeModel r's server ever created
    store,      \* TRADE_MODELS: which of them is there under the trade id, or 0
    draws,      \* how many sets of nonces r's server has drawn
    calls,      \* the calls that have not been answered or given up by the server
    step,       \* the position of r's client in its script
    waiting,    \* r's client has made the call of its step
    repeats,    \* how often r's client has repeated or started over, or r's
                \* server has crashed
    stopped,    \* r's client was given an error
    kept,       \* what r's client keeps for a later message
    told,       \* what the clients have told each other
    signed,     \* history: every partial signature made
    finals,     \* history: every complete signature of the swap
    closed      \* history: the keys whose aggregated secret a server computed

server  == <<models, store, draws>>
client  == <<step, waiting, repeats, stopped, kept, told>>
history == <<signed, finals, closed>>
vars    == <<server, calls, client, history>>

\* The calls of the buyer's and of the seller's client.
Script(r) ==
    IF r = "Buyer"
    THEN <<"init_trade", "get_nonce_shares", "get_partial_signatures", "sign_deposit_tx",
           "publish_deposit_tx", "close_trade">>
    ELSE <<"init_trade", "get_nonce_shares", "get_partial_signatures", "sign_deposit_tx",
           "sign_swap_tx", "close_trade">>

Init ==
    /\ models = [r \in Trader |-> <<>>]
    /\ store = [r \in Trader |-> 0]
    /\ draws = [r \in Trader |-> 0]
    /\ calls = {}
    /\ step = [r \in Trader |-> 1]
    /\ waiting = [r \in Trader |-> FALSE]
    /\ repeats = [r \in Trader |-> 0]
    /\ stopped = [r \in Trader |-> FALSE]
    /\ kept = [r \in Trader |-> <<>>]
    /\ told = {}
    /\ signed = {} /\ finals = {} /\ closed = {}

-----------------------------------------------------------------------------
(* The clients.                                                            *)

Told(r, kind) == { t.body : t \in { u \in told : u.from = r /\ u.kind = kind } }

\* The arguments r's client can make the call with: what the peer has told it.
Arguments(r, rpc) ==
    CASE rpc \in {"init_trade", "publish_deposit_tx"} -> {<<>>}
      [] rpc = "get_nonce_shares"       -> Told(Peer(r), "keys")
      [] rpc = "get_partial_signatures" -> Told(Peer(r), "nonces")
      [] rpc = "sign_deposit_tx"        -> Told(Peer(r), "sigs")
      [] rpc = "sign_swap_tx"           -> Told(Peer(r), "swap_sig")
      [] rpc = "close_trade"            ->
            { [prv |-> <<s>>, swap_tx |-> <<>>] : s \in Told(Peer(r), "prv") } \cup
            IF r = "Seller" THEN {[prv |-> <<>>, swap_tx |-> <<>>]}
            ELSE { [prv |-> <<>>, swap_tx |-> <<s>>] : s \in Told("Seller", "swap_tx") }

\* r's client may repeat the call rpc once more.
CanRepeat(r, rpc) == rpc \in Repeatable /\ repeats[r] < Repeats[r]

Busy(r) == step[r] <= Len(Script(r)) /\ ~stopped[r]

\* The call of r's step, told apart from earlier copies by the repeat count.
NewCall(r, arg, id) ==
    [from |-> r, rpc |-> Script(r)[step[r]], arg |-> arg, id |-> id, model |-> 0]

Call(r) ==
    /\ Busy(r) /\ ~waiting[r]
    /\ \E arg \in Arguments(r, Script(r)[step[r]]) :
          calls' = calls \cup {NewCall(r, arg, repeats[r])}
    /\ waiting' = [waiting EXCEPT ![r] = TRUE]
    /\ UNCHANGED <<server, step, repeats, stopped, kept, told, history>>

\* The client's deadline passes; it repeats the call, with what it has then
\* heard from the peer.  Nothing cancels the first copy.
Retry(r) ==
    /\ Busy(r) /\ waiting[r] /\ CanRepeat(r, Script(r)[step[r]])
    /\ repeats' = [repeats EXCEPT ![r] = @ + 1]
    /\ \E arg \in Arguments(r, Script(r)[step[r]]) :
          calls' = calls \cup {NewCall(r, arg, repeats[r] + 1)}
    /\ UNCHANGED <<server, step, waiting, stopped, kept, told, history>>

\* The client begins the trade again, with the same trade id (once more after
\* each crash of its server); it waits for no call that it made before.
StartOver(r) ==
    /\ step[r] > 1
    /\ (r \in StartingOver /\ repeats[r] < Repeats[r]) \/ store[r] = 0
    /\ repeats' = [repeats EXCEPT ![r] = @ + 1]
    /\ step' = [step EXCEPT ![r] = 1]
    /\ waiting' = [waiting EXCEPT ![r] = FALSE]
    /\ stopped' = [stopped EXCEPT ![r] = FALSE]
    /\ kept' = [kept EXCEPT ![r] = <<>>]
    /\ UNCHANGED <<server, calls, told, history>>

Tell(r, kind, body) == { [from |-> r, kind |-> kind, body |-> body] }

\* The buyer's client withholds the signature on the swap.
Redact(r, sigs) == IF r = "Buyer" THEN [sigs EXCEPT !["swap_tx_input"] = <<>>] ELSE sigs

\* What the client tells the peer when a call is answered (messages A to G; the
\* swap transaction by publishing it).
Messages(r, call, x) ==
    CASE call.rpc = "init_trade"             -> Tell(r, "keys", x)
      [] call.rpc = "get_nonce_shares"       -> Tell(r, "nonces", x)
      [] call.rpc = "get_partial_signatures" -> Tell(r, "sigs", Redact(r, x))
      [] call.rpc = "sign_deposit_tx"        -> {}
      [] call.rpc = "publish_deposit_tx"     -> Tell(r, "swap_sig", kept[r][1])
      [] call.rpc = "sign_swap_tx"           -> Tell(r, "prv", x.share)
      [] call.rpc = "close_trade"            ->
            IF r = "Buyer" THEN Tell(r, "prv", x)
            ELSE IF call.arg.prv = <<>> THEN Tell(r, "swap_tx", kept[r][1]) ELSE {}

Keeps(r, call, x) ==
    CASE call.rpc = "get_partial_signatures" /\ r = "Buyer" -> x["swap_tx_input"]
      [] call.rpc = "sign_swap_tx" -> <<x.swap_tx>>
      [] OTHER -> kept[r]

\* Only the latest copy of the call still has a client waiting for it.
Awaited(r, call) ==
    /\ Busy(r) /\ waiting[r]
    /\ call.rpc = Script(r)[step[r]] /\ call.id = repeats[r]

\* The client gets the answer: it goes on, or stops at an error.
Receive(r, call, reply) ==
    /\ waiting' = [waiting EXCEPT ![r] = FALSE]
    /\ stopped' = [stopped EXCEPT ![r] = (reply = <<>>)]
    /\ step' = IF reply = <<>> THEN step ELSE [step EXCEPT ![r] = @ + 1]
    /\ told' = IF reply = <<>> THEN told ELSE told \cup Messages(r, call, reply[1])
    /\ kept' = IF reply = <<>> THEN kept ELSE [kept EXCEPT ![r] = Keeps(r, call, reply[1])]
    /\ UNCHANGED repeats

\* The answer reaches the client that waits for it, is lost on the way to it,
\* or is the answer to a call nobody waits for any more.
Answer(r, call, reply) ==
    /\ calls' = calls \ {call}
    /\ \/ Awaited(r, call) /\ Receive(r, call, reply)
       \/ Awaited(r, call) /\ CanRepeat(r, call.rpc) /\ UNCHANGED client
       \/ ~Awaited(r, call) /\ UNCHANGED client

-----------------------------------------------------------------------------
(* The server.                                                             *)

\* init_trade: a new model, in the store in place of any other of that id.
InitTrade(r) ==
    \E call \in calls :
        /\ call.from = r /\ call.rpc = "init_trade"
        /\ LET m == NewModel(r, Len(models[r]) + 1)
           IN  /\ models' = [models EXCEPT ![r] = Append(@, m)]
               /\ store' = [store EXCEPT ![r] = Len(models[r]) + 1]
               /\ Answer(r, call, <<m.mine>>)
        /\ UNCHANGED <<draws, history>>

\* handle_request: get_trade_model clones the Arc of the model in the store.
GetTradeModel(r) ==
    \E call \in calls :
        /\ call.from = r /\ call.rpc # "init_trade" /\ call.model = 0
        /\ store[r] # 0
        /\ calls' = (calls \ {call}) \cup {[call EXCEPT !.model = store[r]]}
        /\ UNCHANGED <<server, client, history>>

\* handle_request: there is no trade with that id.
MissingTrade(r) ==
    \E call \in calls :
        /\ call.from = r /\ call.rpc # "init_trade" /\ call.model = 0
        /\ store[r] = 0
        /\ Answer(r, call, <<>>)
        /\ UNCHANGED <<server, history>>

\* The daemon is killed and started again: the store is empty, and the calls
\* that were under way fail.
Crash(r) ==
    /\ r \in Crashing /\ store[r] # 0 /\ repeats[r] < Repeats[r]
    /\ store' = [store EXCEPT ![r] = 0]
    /\ calls' = { call \in calls : call.from # r }
    /\ repeats' = [repeats EXCEPT ![r] = @ + 1]
    /\ stopped' = [stopped EXCEPT ![r] = @ \/ waiting[r]]
    /\ waiting' = [waiting EXCEPT ![r] = FALSE]
    /\ UNCHANGED <<models, draws, step, kept, told, history>>

\* The calls of an RPC that hold a model.
Held(r, rpc) == { c \in calls : c.from = r /\ c.rpc = rpc /\ c.model > 0 }

\* handle_request: the handler ran on the model of the call, with result out.
Handle(r, call, out) ==
    /\ models' = [models EXCEPT ![r][call.model] = out.model]
    /\ Answer(r, call, out.reply)
    /\ UNCHANGED store

HandleGetNonceShares(r) ==
    \E call \in Held(r, "get_nonce_shares") :
        /\ Handle(r, call, GetNonceShares(r, models[r][call.model], call.arg, draws[r] + 1))
        /\ draws' = [draws EXCEPT ![r] = @ + 1]
        /\ UNCHANGED history

HandleGetPartialSignatures(r) ==
    \E call \in Held(r, "get_partial_signatures") :
        LET out == GetPartialSignatures(r, models[r][call.model], call.arg)
        IN  /\ Handle(r, call, out)
            /\ signed' = IF out.reply = <<>> THEN signed
                         ELSE signed \cup { out.model.my_sig[c][1] : c \in Ctx }
            /\ UNCHANGED <<draws, finals, closed>>

HandleSignDepositTx(r) ==
    \E call \in Held(r, "sign_deposit_tx") :
        /\ Handle(r, call, SignDepositTx(r, models[r][call.model], call.arg))
        /\ UNCHANGED <<draws, history>>

HandlePublishDepositTx(r) ==
    \E call \in Held(r, "publish_deposit_tx") :
        /\ Handle(r, call, PublishDepositTx(r, models[r][call.model]))
        /\ UNCHANGED <<draws, history>>

HandleSignSwapTx(r) ==
    \E call \in Held(r, "sign_swap_tx") :
        LET out == SignSwapTx(r, models[r][call.model], call.arg)
        IN  /\ Handle(r, call, out)
            /\ finals' = IF out.reply = <<>> THEN finals
                         ELSE finals \cup {out.reply[1].swap_tx}
            /\ UNCHANGED <<draws, signed, closed>>

HandleCloseTrade(r) ==
    \E call \in Held(r, "close_trade") :
        LET out == CloseTrade(r, models[r][call.model], call.arg)
        IN  /\ Handle(r, call, out)
            /\ closed' = IF out.reply # <<>> /\ out.model.agg_prv[MyOutput(r)]
                         THEN closed \cup {out.model.agg[MyOutput(r)]} ELSE closed
            /\ UNCHANGED <<draws, signed, finals>>

Next == \E r \in Trader :
    \/ Call(r) \/ Retry(r) \/ StartOver(r)
    \/ InitTrade(r) \/ GetTradeModel(r) \/ MissingTrade(r) \/ Crash(r)
    \/ HandleGetNonceShares(r) \/ HandleGetPartialSignatures(r) \/ HandleSignDepositTx(r)
    \/ HandlePublishDepositTx(r) \/ HandleSignSwapTx(r) \/ HandleCloseTrade(r)

Spec == Init /\ [][Next]_vars

-----------------------------------------------------------------------------
(* Safety.                                                                 *)

Swap == "swap_tx_input"
Points(r) == { Point(o, r, g) : o \in Output, g \in 1 .. Len(models[r]) }

\* The types of the variables; of a model, the parts the handlers test.
TypeOK ==
    /\ \A r \in Trader : store[r] \in 0 .. Len(models[r])
    /\ draws \in [Trader -> Nat] /\ repeats \in [Trader -> Nat]
    /\ step \in [Trader -> 1 .. 7]
    /\ waiting \in [Trader -> BOOLEAN] /\ stopped \in [Trader -> BOOLEAN]
    /\ \A call \in calls : call.from \in Trader /\ call.model \in 0 .. Len(models[call.from])
    /\ \A r \in Trader : \A g \in 1 .. Len(models[r]) :
        LET m == models[r][g]
        IN  /\ \A o \in Output : /\ m.mine[o] = Point(o, r, g)
                                 /\ m.peers[o] \in Points(Peer(r)) \cup {NoPoint}
                                 /\ m.agg[o] = <<>> <=> m.peers[o] = NoPoint
                                 /\ m.agg_prv[o] => m.peers_prv[o]
            /\ \A c \in Ctx : m.sec_nonce[c] \in {m.pub_nonce[c], NoNonce}

\* No secret nonce makes two different partial signatures, whatever calls are
\* repeated, late, or given other nonces of the peer (sec_nonce.take(), and new
\* nonces in every get_nonce_shares).
NonceNotReused == \A s, t \in signed : s.nonce = t.nonce => s = t

\* A complete signature of the swap exists only if the buyer's trade model that
\* signed for it has the matching adaptor signature, so that publishing the
\* swap reveals the seller's secret to him (unless a crash has cost him that
\* model) -- although the two servers make it from signatures exchanged at
\* different times, and calls are repeated.
BuyerHoldsAdaptorSig ==
    \A f \in finals : models["Buyer"][f.key[1].gen].agg_sig[Swap] = <<f>>

\* The key of output o in the trade of the buyer's model gb and the seller's gs.
TradeKey(o, gb, gs) == <<Point(o, "Buyer", gb), Point(o, "Seller", gs)>>

\* The buyer's model has everything it needs to fund the trade with gs.
Funded(gb, gs) ==
    models["Buyer"][gb].agg_sig[Swap] # <<>> /\
    models["Buyer"][gb].agg_sig[Swap][1].key = TradeKey("seller_output", gb, gs)

\* The buyer's server has the secret of a payout that was funded only when the
\* seller's has the complete swap of that trade, and it learns no share of the
\* seller's at all before some swap with it is complete; the seller's server
\* learns a share of the buyer's only when the buyer's has got a payout.
FairExchange ==
    \A key \in closed :
        LET gb == key[1].gen
            gs == key[2].gen
        IN  /\ key = TradeKey("buyer_output", gb, gs) =>
                  \E f \in finals : /\ f.adaptor = key[2]
                                    /\ Funded(gb, gs) => f.key = TradeKey("seller_output", gb, gs)
            /\ key = TradeKey("seller_output", gb, gs) =>
                  \E g \in 1 .. Len(models["Seller"]) : TradeKey("buyer_output", gb, g) \in closed

-----------------------------------------------------------------------------
(* Liveness: clients make their calls, repeat the ones whose answer is     *)
(* overdue, and the server works on what it got.                           *)

Progress(r) ==
    /\ WF_vars(Call(r)) /\ WF_vars(Retry(r))
    /\ WF_vars(InitTrade(r)) /\ WF_vars(GetTradeModel(r)) /\ WF_vars(MissingTrade(r))
    /\ WF_vars(HandleGetNonceShares(r)) /\ WF_vars(HandleGetPartialSignatures(r))
    /\ WF_vars(HandleSignDepositTx(r)) /\ WF_vars(HandlePublishDepositTx(r))
    /\ WF_vars(HandleSignSwapTx(r)) /\ WF_vars(HandleCloseTrade(r))

FairSpec == Spec /\ Progress("Buyer") /\ Progress("Seller")

\* Two clients both close the trade, by the peers' secrets or by the swap, and
\* the buyer's server ends up with the secret of his payout, even if the calls
\* after the signing (sign_deposit_tx to close_trade) lose their answers, are
\* repeated and arrive late.
TradeCloses ==
    <>(/\ \A r \in Trader : step[r] = 7
       /\ models["Buyer"][Len(models["Buyer"])].agg_prv["buyer_output"])

-----------------------------------------------------------------------------
(* What a comment says and the code does not ensure.                       *)

\* "This forms a validated adaptor signature on the swap tx for the buyer,
\* ensuring that the seller's private key share is revealed if the swap tx is
\* published": close_trade on the buyer's model that signed succeeds with it.
SwapRevealsShare ==
    \A f \in finals :
        RecoverShare("Buyer", models["Buyer"][f.key[1].gen], f).reply # <<>>
=============================================================================
