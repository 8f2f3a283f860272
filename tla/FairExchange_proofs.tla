------------------------ MODULE FairExchange_proofs ------------------------
(***************************************************************************)
(* Proofs that the two servers exchange the swap and the key shares        *)
(* fairly, for any number of repeats, restarts and crashes: whoever has a  *)
(* complete signature of the swap faces a buyer's model that holds the     *)
(* matching adaptor signature, and no server learns a share too early.     *)
(***************************************************************************)
EXTENDS MusigService_proofs

-----------------------------------------------------------------------------
(* Who says what.                                                          *)

\* r's client gets the answer x it waits for.
Heard(r, call, x) ==
    /\ Awaited(r, call)
    /\ told' = told \cup Messages(r, call, x)
    /\ step' = [step EXCEPT ![r] = @ + 1]
    /\ kept' = [kept EXCEPT ![r] = Keeps(r, call, x)]
Unheard == UNCHANGED <<told, step, kept>>

\* An answer is heard, or changes nothing that a client knows.
LEMMA Answered ==
    ASSUME NEW r, NEW call, NEW reply, Answer(r, call, reply)
    PROVE  /\ calls' = calls \ {call}
           /\ Unheard \/ (reply # <<>> /\ Heard(r, call, reply[1]))
  <1>0. calls' = calls \ {call}
    BY DEF Answer
  <1>1. CASE Awaited(r, call) /\ Receive(r, call, reply)
    <2>1. CASE reply = <<>>
      BY <1>0, <1>1, <2>1 DEF Receive, Unheard
    <2>2. CASE reply # <<>>
      BY <1>0, <1>1, <2>2 DEF Receive, Heard
    <2> QED
      BY <2>1, <2>2
  <1>2. CASE UNCHANGED client
    BY <1>2 DEF Answer, Unheard, client
  <1> QED
    BY <1>1, <1>2 DEF Answer

\* r's client has told the peer this one thing more.
Tells(r, kind, body) ==
    \A q, k : Told(q, k)' = IF q = r /\ k = kind THEN Told(q, k) \cup {body} ELSE Told(q, k)
Silence == \A q, k : Told(q, k)' = Told(q, k)

\* What adding a message to told does.
LEMMA Telling ==
    ASSUME NEW r, NEW kind, NEW body, told' = told \cup Tell(r, kind, body)
    PROVE  Tells(r, kind, body)
  <1> SUFFICES ASSUME NEW q, NEW k
               PROVE  Told(q, k)' = IF q = r /\ k = kind THEN Told(q, k) \cup {body}
                                    ELSE Told(q, k)
    BY DEF Tells
  <1> DEFINE t == [from |-> r, kind |-> kind, body |-> body]
  <1>1. told' = told \cup {t} /\ t.from = r /\ t.kind = kind /\ t.body = body
    BY DEF Tell
  <1> HIDE DEF t
  <1>2. \A b : b \in Told(q, k)' <=> b \in Told(q, k) \/ (q = r /\ k = kind /\ b = body)
    BY <1>1 DEF Told
  <1> QED
    BY <1>2

\* Telling nothing.
LEMMA NothingTold == told' = told => Silence
  BY DEF Told, Silence

\* What the client of r tells the peer when a call is answered with x.
LEMMA HeardTells ==
    ASSUME NEW r, NEW call, NEW x, Heard(r, call, x)
    PROVE  /\ call.rpc = "init_trade" => Tells(r, "keys", x)
           /\ call.rpc = "get_nonce_shares" => Tells(r, "nonces", x)
           /\ call.rpc = "get_partial_signatures" => Tells(r, "sigs", Redact(r, x))
           /\ call.rpc = "sign_deposit_tx" => Silence
           /\ call.rpc = "publish_deposit_tx" => Tells(r, "swap_sig", kept[r][1])
           /\ call.rpc = "sign_swap_tx" => Tells(r, "prv", x.share)
           /\ call.rpc = "close_trade" =>
                 \/ r = "Buyer" /\ Tells(r, "prv", x)
                 \/ r # "Buyer" /\ call.arg.prv = <<>> /\ Tells(r, "swap_tx", kept[r][1])
                 \/ r # "Buyer" /\ Silence
  <1>1. told' = told \cup Messages(r, call, x)
    BY DEF Heard
  <1>2. call.rpc = "init_trade" => Tells(r, "keys", x)
    BY <1>1, Telling DEF Messages
  <1>3. call.rpc = "get_nonce_shares" => Tells(r, "nonces", x)
    BY <1>1, Telling DEF Messages
  <1>4. call.rpc = "get_partial_signatures" => Tells(r, "sigs", Redact(r, x))
    BY <1>1, Telling DEF Messages
  <1>5. call.rpc = "sign_deposit_tx" => Silence
    BY <1>1, NothingTold DEF Messages
  <1>6. call.rpc = "publish_deposit_tx" => Tells(r, "swap_sig", kept[r][1])
    BY <1>1, Telling DEF Messages
  <1>7. call.rpc = "sign_swap_tx" => Tells(r, "prv", x.share)
    BY <1>1, Telling DEF Messages
  <1>8. ASSUME call.rpc = "close_trade"
        PROVE  \/ r = "Buyer" /\ Tells(r, "prv", x)
               \/ r # "Buyer" /\ call.arg.prv = <<>> /\ Tells(r, "swap_tx", kept[r][1])
               \/ r # "Buyer" /\ Silence
    <2>1. CASE r = "Buyer"
      BY <1>1, <1>8, <2>1, Telling DEF Messages
    <2>2. CASE r # "Buyer" /\ call.arg.prv = <<>>
      BY <1>1, <1>8, <2>2, Telling DEF Messages
    <2>3. CASE r # "Buyer" /\ call.arg.prv # <<>>
      <3>1. told' = told
        BY <1>1, <1>8, <2>3 DEF Messages
      <3> QED
        BY <2>3, <3>1, NothingTold
    <2> QED
      BY <2>1, <2>2, <2>3
  <1> QED
    BY <1>2, <1>3, <1>4, <1>5, <1>6, <1>7, <1>8

\* The answer of an RPC either tells nothing or what that RPC's answer tells.
LEMMA AnswerTells ==
    ASSUME NEW r, NEW call, NEW reply, Answer(r, call, reply)
    PROVE  \/ Silence /\ Unheard
           \/ reply # <<>> /\ Heard(r, call, reply[1])
  BY Answered, NothingTold DEF Unheard

-----------------------------------------------------------------------------
(* The kinds of steps.                                                     *)

\* A step that changes what the clients and servers know in no way.
Plain == UNCHANGED <<models, draws, told, history>>

\* The steps of r, and those among them that are plain.
Steps(r) ==
    \/ Call(r) \/ Retry(r) \/ StartOver(r)
    \/ InitTrade(r) \/ GetTradeModel(r) \/ MissingTrade(r) \/ Crash(r)
    \/ HandleGetNonceShares(r) \/ HandleGetPartialSignatures(r) \/ HandleSignDepositTx(r)
    \/ HandlePublishDepositTx(r) \/ HandleSignSwapTx(r) \/ HandleCloseTrade(r)
PlainSteps(r) ==
    \/ Call(r) \/ Retry(r) \/ StartOver(r)
    \/ GetTradeModel(r) \/ MissingTrade(r) \/ Crash(r)

\* The next-state relation is that of the traders.
LEMMA NextIsSteps == Next => \E r \in Trader : Steps(r)
  BY DEF Next, Steps

\* Asking, fetching, giving up and crashing tell nobody anything.
LEMMA PlainIsPlain ==
    ASSUME NEW r \in Trader, PlainSteps(r)
    PROVE  Plain
  <1>1. CASE MissingTrade(r)
    <2>1. PICK call \in calls : Answer(r, call, <<>>) /\ UNCHANGED <<server, history>>
      BY <1>1 DEF MissingTrade
    <2>2. told' = told
      BY <2>1, Answered DEF Unheard
    <2> QED
      BY <2>1, <2>2 DEF Plain, server
  <1>2. CASE Call(r)
    BY <1>2 DEF Call, Plain, server
  <1>3. CASE Retry(r)
    BY <1>3 DEF Retry, Plain, server
  <1>4. CASE StartOver(r)
    BY <1>4 DEF StartOver, Plain, server
  <1>5. CASE GetTradeModel(r)
    BY <1>5 DEF GetTradeModel, Plain, server, client
  <1>6. CASE Crash(r)
    BY <1>6 DEF Crash, Plain
  <1> QED
    BY <1>1, <1>2, <1>3, <1>4, <1>5, <1>6 DEF PlainSteps

\* The new model m is r's g-th, and its keys may be told.
Adds(r, g, m) ==
    /\ g = Len(models[r]) + 1 /\ m = NewModel(r, g)
    /\ Len(models'[r]) = g /\ models'[r][g] = m
    /\ \A q \in Trader : \A h \in 1 .. Len(models[q]) : models'[q][h] = models[q][h]
    /\ \A q \in Trader \ {r} : models'[q] = models[q]
    /\ UNCHANGED <<draws, history>>
    /\ store' = [store EXCEPT ![r] = g]
    /\ \E call \in calls : /\ call.from = r /\ call.rpc = "init_trade"
                           /\ Answer(r, call, <<m.mine>>)

\* init_trade adds a model.
LEMMA InitTradeEffect ==
    ASSUME TypeInv, NEW r \in Trader, InitTrade(r)
    PROVE  \E g \in Nat, m \in ModelT : Adds(r, g, m)
  <1>1. PICK g \in Nat : g = Len(models[r]) + 1
    BY ModelsTypes DEF TypeInv, ModelsInv
  <1>2. PICK m : m = NewModel(r, g)
    OBVIOUS
  <1>3. PICK call \in calls :
          /\ call.from = r /\ call.rpc = "init_trade"
          /\ models' = [models EXCEPT ![r] = Append(@, m)]
          /\ store' = [store EXCEPT ![r] = g]
          /\ Answer(r, call, <<m.mine>>)
          /\ UNCHANGED <<draws, history>>
    BY <1>1, <1>2 DEF InitTrade
  <1>4. m \in ModelT
    BY <1>2, NewModelType
  <1>5. models \in [Trader -> Seq(ModelT)]
    BY DEF TypeInv, ModelsInv
  <1>6. models' = [models EXCEPT ![r] = Append(@, m)]
    BY <1>3
  <1>7. /\ \A q \in Trader \ {r} : models'[q] = models[q]
        /\ Len(models'[r]) = g /\ models'[r][g] = m
        /\ \A k \in 1 .. Len(models[r]) : models'[r][k] = models[r][k]
    BY <1>1, <1>4, <1>5, <1>6, AddedModel
  <1>8. \A q \in Trader : \A h \in 1 .. Len(models[q]) : models'[q][h] = models[q][h]
    BY <1>7
  <1> QED
    BY <1>1, <1>2, <1>3, <1>4, <1>7, <1>8 DEF Adds

\* What only grows.
Later ==
    /\ Grows /\ \A r \in Trader : draws[r] \in Nat /\ draws'[r] \in Nat /\ draws[r] <= draws'[r]
    /\ \A r, kind : Told(r, kind) \subseteq Told(r, kind)'
    /\ signed \subseteq signed' /\ finals \subseteq finals' /\ closed \subseteq closed'

\* Nothing that was told, drawn, signed or closed is taken back.
LEMMA LaterStep == TypeInv /\ TypeInv' /\ [Next]_vars => Later
  <1> SUFFICES ASSUME TypeInv, TypeInv', [Next]_vars PROVE Later
    OBVIOUS
  <1>1. \A r \in Trader : draws[r] \in Nat /\ draws'[r] \in Nat
    BY DEF TypeInv, ServerInv
  <1>2. told \subseteq told' => \A r, kind : Told(r, kind) \subseteq Told(r, kind)'
    BY DEF Told
  <1>3. ASSUME NEW r, NEW call, NEW reply, Answer(r, call, reply)
        PROVE  told \subseteq told'
    BY <1>3, Answered DEF Heard, Unheard
  <1>4. CASE Plain
    <2>1. Grows
      BY <1>4, NoGrowth DEF Plain
    <2> QED
      BY <1>1, <1>2, <1>4, <2>1 DEF Later, Plain, history
  <1>5. CASE UNCHANGED vars
    BY <1>4, <1>5 DEF Plain, vars, server, client
  <1>6. ASSUME NEW r \in Trader, Steps(r), ~PlainSteps(r)
        PROVE  Later
    <2>1. CASE InitTrade(r)
      <3>1. PICK g \in Nat, m \in ModelT :
              /\ g = Len(models[r]) + 1
              /\ Len(models'[r]) = g
              /\ \A q \in Trader \ {r} : models'[q] = models[q]
              /\ UNCHANGED <<draws, history>>
              /\ \E call \in calls : Answer(r, call, <<m.mine>>)
        BY <2>1, InitTradeEffect DEF Adds
      <3>0. \A q \in Trader : Len(models[q]) \in Nat
        BY ModelsTypes DEF TypeInv, ModelsInv
      <3>2. Grows
        BY <3>0, <3>1 DEF Grows
      <3> QED
        BY <1>1, <1>2, <1>3, <3>1, <3>2 DEF Later, history
    <2>2. CASE HandleGetNonceShares(r)
      <3>1. PICK call, m, shares, h, n, out :
              /\ call \in Held(r, "get_nonce_shares") /\ m \in ModelT
              /\ Handle(r, call, out) /\ GotNonces(r, m, shares, n, out)
              /\ draws' = [draws EXCEPT ![r] = @ + 1]
              /\ UNCHANGED history
        BY <2>2, GetNonceSharesStep
      <3>2. Grows
        BY <3>1, Handled DEF GotNonces
      <3>3. told \subseteq told'
        BY <3>1, <1>3 DEF Handle
      <3>4. draws \in [Trader -> Nat]
        BY DEF TypeInv, ServerInv
      <3> QED
        BY <1>1, <1>2, <3>1, <3>2, <3>3, <3>4 DEF Later, history
    <2>3. CASE HandleGetPartialSignatures(r)
      <3>1. PICK call, m, nonces, out :
              /\ call \in Held(r, "get_partial_signatures") /\ m \in ModelT
              /\ Handle(r, call, out) /\ SignedPartially(r, m, nonces, out)
              /\ signed \subseteq signed'
              /\ UNCHANGED <<draws, finals, closed>>
        BY <2>3, GetPartialSignaturesStep
      <3>2. Grows
        BY <3>1, Handled DEF SignedPartially
      <3>3. told \subseteq told'
        BY <3>1, <1>3 DEF Handle
      <3> QED
        BY <1>1, <1>2, <3>1, <3>2, <3>3 DEF Later
    <2>4. CASE HandleSignDepositTx(r)
      <3>1. PICK call, m, sigs, out :
              /\ call \in Held(r, "sign_deposit_tx") /\ m \in ModelT
              /\ Handle(r, call, out) /\ SignedDeposit(r, m, sigs, out)
              /\ UNCHANGED <<draws, history>>
        BY <2>4, SignDepositTxStep
      <3>2. Grows
        BY <3>1, Handled DEF SignedDeposit
      <3>3. told \subseteq told'
        BY <3>1, <1>3 DEF Handle
      <3> QED
        BY <1>1, <1>2, <3>1, <3>2, <3>3 DEF Later, history
    <2>5. CASE HandlePublishDepositTx(r)
      <3>1. PICK call, m, out :
              /\ call \in Held(r, "publish_deposit_tx") /\ m \in ModelT
              /\ Handle(r, call, out) /\ out.model = m
              /\ UNCHANGED <<draws, history>>
        BY <2>5, PublishDepositTxStep
      <3>2. Grows
        BY <3>1, Handled
      <3>3. told \subseteq told'
        BY <3>1, <1>3 DEF Handle
      <3> QED
        BY <1>1, <1>2, <3>1, <3>2, <3>3 DEF Later, history
    <2>6. CASE HandleSignSwapTx(r)
      <3>1. PICK call, m, sig, out :
              /\ call \in Held(r, "sign_swap_tx") /\ m \in ModelT
              /\ Handle(r, call, out) /\ SignedSwap(m, sig, out)
              /\ finals \subseteq finals'
              /\ UNCHANGED <<draws, signed, closed>>
        BY <2>6, SignSwapTxStep
      <3>2. Grows
        BY <3>1, Handled DEF SignedSwap
      <3>3. told \subseteq told'
        BY <3>1, <1>3 DEF Handle
      <3> QED
        BY <1>1, <1>2, <3>1, <3>2, <3>3 DEF Later
    <2>7. CASE HandleCloseTrade(r)
      <3>1. PICK call, m, request, out :
              /\ call \in Held(r, "close_trade") /\ m \in ModelT
              /\ Handle(r, call, out) /\ Closing(r, m, request, out)
              /\ closed \subseteq closed'
              /\ UNCHANGED <<draws, signed, finals>>
        BY <2>7, CloseTradeStep
      <3>2. Grows
        BY <3>1, Handled DEF Closing
      <3>3. told \subseteq told'
        BY <3>1, <1>3 DEF Handle
      <3> QED
        BY <1>1, <1>2, <3>1, <3>2, <3>3 DEF Later
    <2> QED
      BY <1>6, <2>1, <2>2, <2>3, <2>4, <2>5, <2>6, <2>7 DEF Steps, PlainSteps
  <1> QED
    BY <1>4, <1>5, <1>6, NextIsSteps, PlainIsPlain

-----------------------------------------------------------------------------
(* Signatures on the swap.  A signature tells the model that made it, the  *)
(* draw of nonces it used up, and the draw of the peer's it is made for.   *)

\* r's client has told the peer the nonces of the n-th draw.
Says(r, n) == NoncesOf(r, n) \in Told(r, "nonces")

\* r's g-th model made s with the n-th draw.
Made(s, r, g, n) ==
    /\ s.ctx = Swap /\ s.signer = Point("seller_output", r, g) /\ s.nonce = Nonce(Swap, r, n)

\* It is for the peer's k-th draw.
MadeFor(s, r, k) == s.agg_nonce = {s.nonce, Nonce(Swap, Peer(r), k)}

MadeInv ==
    \A s \in signed : s.ctx = Swap =>
        \E r \in Trader : \E g \in 1 .. Len(models[r]), n \in 1 .. draws[r] :
           /\ Made(s, r, g, n)
           /\ \E k \in Nat : MadeFor(s, r, k) /\ Says(Peer(r), k)

\* What the clients pass on comes from the servers.
NoncesToldInv ==
    \A r \in Trader : \A b \in Told(r, "nonces") : \E n \in 1 .. draws[r] : b = NoncesOf(r, n)
SigsToldInv ==
    /\ \A r \in Trader : \A b \in Told(r, "sigs") :
         Swap \in DOMAIN b /\ b[Swap] # <<>> => b[Swap][1] \in signed
    /\ Told("Buyer", "swap_sig") \subseteq signed
    /\ \A s : kept["Buyer"] = <<s>> => s \in signed

\* The arguments of a call were told.
ArgHeard(r, rpc, arg) ==
    /\ rpc = "get_partial_signatures" => arg \in Told(Peer(r), "nonces")
    /\ rpc = "sign_deposit_tx" => arg \in Told(Peer(r), "sigs")
    /\ rpc = "sign_swap_tx" => arg \in Told(Peer(r), "swap_sig")
    /\ rpc = "close_trade" =>
         /\ arg.prv # <<>> => arg.prv[1] \in Told(Peer(r), "prv")
         /\ arg.swap_tx # <<>> => arg.swap_tx[1] \in Told("Seller", "swap_tx")
         /\ r = "Buyer" => arg.prv # <<>> \/ arg.swap_tx # <<>>

ArgsInv == \A call \in calls : ArgHeard(call.from, call.rpc, call.arg)

\* r's g-th model has signed with no draw later than the n-th.
Last(r, g, n) == \A s \in signed : \A k \in Nat : Made(s, r, g, k) => k <= n

\* The signatures a model holds have been made, its own one is its last, and it
\* has not signed with nonces later than those it holds.
OwnSig(r, g, m) ==
    m.my_sig[Swap] # <<>> =>
        /\ m.my_sig[Swap][1] \in signed
        /\ \E n \in Nat : Made(m.my_sig[Swap][1], r, g, n) /\ Last(r, g, n)
PeersSig(m) == m.peers_sig[Swap] # <<>> => m.peers_sig[Swap][1] \in signed
LastNonces(r, g, m) == \A n \in Nat : m.pub_nonce = NoncesOf(r, n) => Last(r, g, n)

HeldInv ==
    \A r \in Trader : \A g \in 1 .. Len(models[r]) :
        /\ OwnSig(r, g, models[r][g])
        /\ PeersSig(models[r][g])
        /\ LastNonces(r, g, models[r][g])

SigsInv == MadeInv /\ NoncesToldInv /\ SigsToldInv /\ ArgsInv /\ HeldInv

\* A signature says by which model and with which draw it was made.
LEMMA MadeOnce ==
    ASSUME NEW s, NEW r, NEW g, NEW n, NEW q, NEW h, NEW k, Made(s, r, g, n)
    PROVE  /\ Made(s, q, h, k) => r = q /\ g = h /\ n = k
           /\ s.signer = Point("seller_output", q, h) => r = q /\ g = h
           /\ s.nonce = Nonce(Swap, q, k) => r = q /\ n = k
  <1>1. s.signer.trader = r /\ s.signer.gen = g /\ s.nonce.trader = r /\ s.nonce.n = n
    BY DEF Made, Point, Nonce
  <1>2. s.signer = Point("seller_output", q, h) => r = q /\ g = h
    BY <1>1 DEF Point
  <1>3. s.nonce = Nonce(Swap, q, k) => r = q /\ n = k
    BY <1>1 DEF Nonce
  <1> QED
    BY <1>2, <1>3 DEF Made

\* A draw that is told was drawn.
LEMMA SaidIsDrawn ==
    ASSUME TypeInv, NoncesToldInv, NEW r \in Trader, NEW n \in Nat, Says(r, n)
    PROVE  n \in 1 .. draws[r]
  <1>1. PICK k \in 1 .. draws[r] : NoncesOf(r, n) = NoncesOf(r, k)
    BY DEF NoncesToldInv, Says
  <1>2. k \in Nat
    BY DEF TypeInv, ServerInv
  <1> QED
    BY <1>1, <1>2, NoncesDiffer

\* What a client can make a call with was told.
LEMMA ArgumentsHeard ==
    ASSUME TypeInv, NEW r \in Trader, NEW i \in 1 .. 6, NEW arg \in Arguments(r, Script(r)[i])
    PROVE  ArgHeard(r, Script(r)[i], arg)
  <1> DEFINE rpc == Script(r)[i]
  <1>1. rpc = "get_partial_signatures" => arg \in Told(Peer(r), "nonces")
    BY DEF Arguments
  <1>2. rpc = "sign_deposit_tx" => arg \in Told(Peer(r), "sigs")
    BY DEF Arguments
  <1>3. rpc = "sign_swap_tx" => arg \in Told(Peer(r), "swap_sig")
    BY DEF Arguments
  <1>4. ASSUME rpc = "close_trade"
        PROVE  /\ arg.prv # <<>> => arg.prv[1] \in Told(Peer(r), "prv")
               /\ arg.swap_tx # <<>> => arg.swap_tx[1] \in Told("Seller", "swap_tx")
               /\ r = "Buyer" => arg.prv # <<>> \/ arg.swap_tx # <<>>
    <2>1. \/ \E s \in Told(Peer(r), "prv") : arg = [prv |-> <<s>>, swap_tx |-> <<>>]
          \/ r = "Seller" /\ arg = [prv |-> <<>>, swap_tx |-> <<>>]
          \/ \E s \in Told("Seller", "swap_tx") : arg = [prv |-> <<>>, swap_tx |-> <<s>>]
      BY <1>4 DEF Arguments
    <2> QED
      BY <2>1
  <1> QED
    BY <1>1, <1>2, <1>3, <1>4 DEF ArgHeard

\* Every call is an old one, perhaps with a model now, or is made with what the
\* client has heard.
LEMMA CallsStep ==
    ASSUME TypeInv, [Next]_vars, NEW c \in calls'
    PROVE  \/ c \in calls
           \/ \E d \in calls : c.from = d.from /\ c.rpc = d.rpc /\ c.arg = d.arg
           \/ \E r \in Trader : \E i \in 1 .. 6 :
                 c.from = r /\ c.rpc = Script(r)[i] /\ c.arg \in Arguments(r, c.rpc)
  <1>1. ASSUME NEW r \in Trader, Busy(r), NEW id, NEW arg \in Arguments(r, Script(r)[step[r]]),
               c = NewCall(r, arg, id)
        PROVE  \E i \in 1 .. 6 :
                 c.from = r /\ c.rpc = Script(r)[i] /\ c.arg \in Arguments(r, c.rpc)
    <2>1. PICK i \in 1 .. 6 : i = step[r]
      BY <1>1, Scripts DEF Busy, TypeInv, ClientInv, ClientTypes
    <2> QED
      BY <1>1, <2>1 DEF NewCall
  <1>2. ASSUME NEW r \in Trader, Call(r)
        PROVE  \/ c \in calls
               \/ \E i \in 1 .. 6 :
                    c.from = r /\ c.rpc = Script(r)[i] /\ c.arg \in Arguments(r, c.rpc)
    BY <1>1, <1>2 DEF Call
  <1>3. ASSUME NEW r \in Trader, Retry(r)
        PROVE  \/ c \in calls
               \/ \E i \in 1 .. 6 :
                    c.from = r /\ c.rpc = Script(r)[i] /\ c.arg \in Arguments(r, c.rpc)
    BY <1>1, <1>3 DEF Retry
  <1>4. ASSUME NEW r \in Trader, GetTradeModel(r)
        PROVE  \/ c \in calls
               \/ \E d \in calls : c.from = d.from /\ c.rpc = d.rpc /\ c.arg = d.arg
    <2>1. PICK d \in calls : calls' = (calls \ {d}) \cup {[d EXCEPT !.model = store[r]]}
      BY <1>4 DEF GetTradeModel
    <2>2. d = [from |-> d.from, rpc |-> d.rpc, arg |-> d.arg, id |-> d.id, model |-> d.model]
      BY DEF TypeInv, CallsInv, CallOk
    <2>3. CASE c = [d EXCEPT !.model = store[r]]
      <3>1. c.from = d.from /\ c.rpc = d.rpc /\ c.arg = d.arg
        BY <2>2, <2>3
      <3> QED
        BY <3>1
    <2> QED
      BY <2>1, <2>3
  <1>5. ASSUME NEW r \in Trader, Steps(r), ~Call(r), ~Retry(r), ~GetTradeModel(r)
        PROVE  c \in calls
    <2>1. CASE StartOver(r) \/ Crash(r)
      BY <2>1 DEF StartOver, Crash
    <2>2. \A call, reply : Answer(r, call, reply) => calls' \subseteq calls
      BY Answered
    <2>3. CASE InitTrade(r) \/ MissingTrade(r)
      BY <2>2, <2>3 DEF InitTrade, MissingTrade
    <2>4. \A call, out : Handle(r, call, out) => calls' \subseteq calls
      BY <2>2 DEF Handle
    <2>5. CASE \/ HandleGetNonceShares(r) \/ HandleGetPartialSignatures(r)
               \/ HandleSignDepositTx(r) \/ HandlePublishDepositTx(r)
               \/ HandleSignSwapTx(r) \/ HandleCloseTrade(r)
      BY <2>4, <2>5 DEF HandleGetNonceShares, HandleGetPartialSignatures,
           HandleSignDepositTx, HandlePublishDepositTx, HandleSignSwapTx, HandleCloseTrade
    <2> QED
      BY <1>5, <2>1, <2>3, <2>5 DEF Steps
  <1>6. CASE UNCHANGED vars
    BY <1>6 DEF vars
  <1> QED
    BY <1>2, <1>3, <1>4, <1>5, <1>6, NextIsSteps

\* The arguments of every call have been told.
LEMMA ArgsStep ==
    ASSUME TypeInv, TypeInv', Later, ArgsInv, [Next]_vars
    PROVE  ArgsInv'
  <1>1. ASSUME NEW r, NEW rpc, NEW arg, ArgHeard(r, rpc, arg)
        PROVE  ArgHeard(r, rpc, arg)'
    BY <1>1 DEF ArgHeard, Later
  <1>2. SUFFICES ASSUME NEW c \in calls'
                 PROVE  ArgHeard(c.from, c.rpc, c.arg)'
    BY DEF ArgsInv
  <1>3. ASSUME NEW d \in calls, c.from = d.from, c.rpc = d.rpc, c.arg = d.arg
        PROVE  ArgHeard(c.from, c.rpc, c.arg)'
    BY <1>1, <1>3 DEF ArgsInv
  <1>4. ASSUME NEW r \in Trader, NEW i \in 1 .. 6,
               c.from = r, c.rpc = Script(r)[i], c.arg \in Arguments(r, c.rpc)
        PROVE  ArgHeard(c.from, c.rpc, c.arg)'
    BY <1>1, <1>4, ArgumentsHeard
  <1> QED
    BY <1>3, <1>4, CallsStep

\* What the client of r keeps when a call is answered with x.
LEMMA HeardKeeps ==
    ASSUME TypeInv, NEW r \in Trader, NEW call, NEW x, Heard(r, call, x)
    PROVE  /\ \A q \in Trader \ {r} : kept'[q] = kept[q]
           /\ call.rpc = "get_partial_signatures" =>
                 kept'[r] = IF r = "Buyer" THEN x[Swap] ELSE kept[r]
           /\ call.rpc = "sign_swap_tx" => kept'[r] = <<x.swap_tx>>
           /\ call.rpc \notin {"get_partial_signatures", "sign_swap_tx"} => kept'[r] = kept[r]
  <1>1. DOMAIN kept = Trader
    BY DEF TypeInv, ClientInv, KeptInv
  <1>2. kept' = [kept EXCEPT ![r] = Keeps(r, call, x)]
    BY DEF Heard
  <1>3. kept'[r] = Keeps(r, call, x) /\ \A q \in Trader \ {r} : kept'[q] = kept[q]
    BY <1>1, <1>2
  <1>4. call.rpc = "get_partial_signatures" =>
           Keeps(r, call, x) = IF r = "Buyer" THEN x[Swap] ELSE kept[r]
    BY DEF Keeps, Swap
  <1>5. call.rpc = "sign_swap_tx" => Keeps(r, call, x) = <<x.swap_tx>>
    BY DEF Keeps
  <1>6. call.rpc \notin {"get_partial_signatures", "sign_swap_tx"} => Keeps(r, call, x) = kept[r]
    BY DEF Keeps
  <1> QED
    BY <1>3, <1>4, <1>5, <1>6

\* Which client makes which call, and at which step.
LEMMA HeardStep ==
    ASSUME TypeInv, NEW r \in Trader, NEW call, NEW x, Heard(r, call, x)
    PROVE  /\ step'[r] = step[r] + 1 /\ \A q \in Trader \ {r} : step'[q] = step[q]
           /\ step[r] \in 1 .. 6
           /\ call.rpc = "init_trade" <=> step[r] = 1
           /\ call.rpc = "get_nonce_shares" <=> step[r] = 2
           /\ call.rpc = "get_partial_signatures" <=> step[r] = 3
           /\ call.rpc = "sign_deposit_tx" <=> step[r] = 4
           /\ call.rpc = "publish_deposit_tx" <=> step[r] = 5 /\ r = "Buyer"
           /\ call.rpc = "sign_swap_tx" <=> step[r] = 5 /\ r = "Seller"
           /\ call.rpc = "close_trade" <=> step[r] = 6
  <1>1. Awaited(r, call) /\ step' = [step EXCEPT ![r] = @ + 1]
    BY DEF Heard
  <1>2. PICK i \in 1 .. 6 : i = step[r] /\ call.rpc = Script(r)[i]
    BY <1>1, AwaitedStep DEF TypeInv, ClientInv
  <1>3. DOMAIN step = Trader
    BY DEF TypeInv, ClientInv, ClientTypes
  <1>4. step'[r] = step[r] + 1 /\ \A q \in Trader \ {r} : step'[q] = step[q]
    BY <1>1, <1>3
  <1> QED
    BY <1>2, <1>4, Scripts

\* s was made by a model of r's for a draw that the peer had told.
Signer(s, r) ==
    \E g \in 1 .. Len(models[r]), n \in 1 .. draws[r] :
       /\ Made(s, r, g, n)
       /\ \E k \in Nat : MadeFor(s, r, k) /\ Says(Peer(r), k)

\* What is known of the signatures made stays so.
LEMMA MadeKept ==
    ASSUME TypeInv, Later, MadeInv,
           \A s \in signed' : s.ctx = Swap => s \in signed \/ \E r \in Trader : Signer(s, r)
    PROVE  MadeInv'
  <1> SUFFICES ASSUME NEW s \in signed', s.ctx = Swap
               PROVE  \E r \in Trader : \E g \in 1 .. Len(models'[r]), n \in 1 .. draws'[r] :
                         /\ Made(s, r, g, n)
                         /\ \E k \in Nat : MadeFor(s, r, k) /\ Says(Peer(r), k)'
    BY DEF MadeInv
  <1>1. PICK r \in Trader : Signer(s, r)
    BY DEF MadeInv, Signer
  <1>2. PICK g \in 1 .. Len(models[r]), n \in 1 .. draws[r] :
            /\ Made(s, r, g, n)
            /\ \E k \in Nat : MadeFor(s, r, k) /\ Says(Peer(r), k)
    BY <1>1 DEF Signer
  <1>3. \E k \in Nat : MadeFor(s, r, k) /\ Says(Peer(r), k)'
    BY <1>2 DEF Says, Later
  <1>4. g \in 1 .. Len(models'[r]) /\ n \in 1 .. draws'[r]
    BY DEF Later, Grows
  <1> QED
    BY <1>2, <1>3, <1>4

\* No new nonces are told.
LEMMA NoncesToldKept ==
    ASSUME TypeInv, Later, NoncesToldInv, \A r : Told(r, "nonces")' = Told(r, "nonces")
    PROVE  NoncesToldInv'
  <1> SUFFICES ASSUME NEW r \in Trader, NEW b \in Told(r, "nonces")
               PROVE  \E n \in 1 .. draws'[r] : b = NoncesOf(r, n)
    BY DEF NoncesToldInv
  <1>1. PICK n \in 1 .. draws[r] : b = NoncesOf(r, n)
    BY DEF NoncesToldInv
  <1>2. n \in 1 .. draws'[r]
    BY DEF Later
  <1> QED
    BY <1>1, <1>2

\* No new signatures are told.
LEMMA SigsToldKept ==
    ASSUME Later, SigsToldInv, \A r : Told(r, "sigs")' = Told(r, "sigs"),
           Told("Buyer", "swap_sig")' = Told("Buyer", "swap_sig"),
           kept'["Buyer"] = kept["Buyer"] \/ kept'["Buyer"] = <<>>
    PROVE  SigsToldInv'
  <1>1. \A r \in Trader : \A b \in Told(r, "sigs")' :
           Swap \in DOMAIN b /\ b[Swap] # <<>> => b[Swap][1] \in signed'
    BY DEF Later, SigsToldInv
  <1>2. Told("Buyer", "swap_sig")' \subseteq signed'
    BY DEF Later, SigsToldInv
  <1>3. \A s : kept'["Buyer"] = <<s>> => s \in signed'
    BY DEF Later, SigsToldInv
  <1> QED
    BY <1>1, <1>2, <1>3 DEF SigsToldInv

\* The models that are as they were hold what they held.
LEMMA HeldSame ==
    ASSUME signed' = signed, NEW r, NEW g, NEW m, NEW x,
           x.my_sig[Swap] = m.my_sig[Swap], OwnSig(r, g, m)
    PROVE  OwnSig(r, g, x)'
  BY DEF OwnSig, Last

\* So it is with the nonces held.
LEMMA NoncesSame ==
    ASSUME signed' = signed, NEW r, NEW g, NEW m, NEW x,
           x.pub_nonce = m.pub_nonce, LastNonces(r, g, m)
    PROVE  LastNonces(r, g, x)'
  BY DEF LastNonces, Last

\* And with the signature of the peer's.
LEMMA PeersSigSame ==
    ASSUME signed \subseteq signed', NEW m, NEW x,
           x.peers_sig[Swap] = m.peers_sig[Swap], PeersSig(m)
    PROVE  PeersSig(x)'
  BY DEF PeersSig

\* A handler changes what one model holds; the others have not signed.
LEMMA HeldChanged ==
    ASSUME TypeInv, HeldInv, signed \subseteq signed',
           NEW r \in Trader, NEW rpc, NEW call \in Held(r, rpc), NEW out,
           Handle(r, call, out), out.model \in ModelT,
           \A q, g : q # r \/ g # call.model => \A n \in Nat : Last(q, g, n) => Last(q, g, n)',
           OwnSig(r, call.model, out.model)', PeersSig(out.model)',
           LastNonces(r, call.model, out.model)'
    PROVE  HeldInv'
  <1>1. /\ \A q \in Trader : Len(models'[q]) = Len(models[q])
        /\ models'[r][call.model] = out.model
        /\ \A q \in Trader : \A g \in 1 .. Len(models[q]) :
             q # r \/ g # call.model => models'[q][g] = models[q][g]
    BY Handled
  <1>2. SUFFICES ASSUME NEW q \in Trader, NEW g \in 1 .. Len(models'[q])
                 PROVE  /\ OwnSig(q, g, models[q][g])'
                        /\ PeersSig(models[q][g])'
                        /\ LastNonces(q, g, models[q][g])'
    BY DEF HeldInv
  <1>3. CASE q = r /\ g = call.model
    BY <1>1, <1>3
  <1>4. CASE q # r \/ g # call.model
    <2>1. PICK m : m = models[q][g] /\ m = models'[q][g]
      BY <1>1, <1>4
    <2>2. OwnSig(q, g, m) /\ PeersSig(m) /\ LastNonces(q, g, m)
      BY <1>1, <2>1 DEF HeldInv
    <2>3. \A n \in Nat : Last(q, g, n) => Last(q, g, n)'
      BY <1>4
    <2>4. OwnSig(q, g, m)'
      BY <2>2, <2>3 DEF OwnSig
    <2>5. PeersSig(m)'
      BY <2>2 DEF PeersSig
    <2>6. LastNonces(q, g, m)'
      BY <2>2, <2>3 DEF LastNonces
    <2> QED
      BY <2>1, <2>4, <2>5, <2>6
  <1> QED
    BY <1>3, <1>4

\* init_trade adds a model that holds and has signed nothing.
LEMMA InitTradeSigs ==
    ASSUME TypeInv, Later, SigsInv, NEW r \in Trader, InitTrade(r)
    PROVE  (MadeInv /\ NoncesToldInv /\ SigsToldInv /\ HeldInv)'
  <1>1. PICK g \in Nat, m \in ModelT :
          /\ g = Len(models[r]) + 1 /\ m = NewModel(r, g)
          /\ Len(models'[r]) = g /\ models'[r][g] = m
          /\ \A q \in Trader : \A h \in 1 .. Len(models[q]) : models'[q][h] = models[q][h]
          /\ \A q \in Trader \ {r} : models'[q] = models[q]
          /\ UNCHANGED <<draws, history>>
          /\ \E call \in calls : /\ call.from = r /\ call.rpc = "init_trade"
                                 /\ Answer(r, call, <<m.mine>>)
    BY InitTradeEffect DEF Adds
  <1>2. signed' = signed
    BY <1>1 DEF history
  <1>3. PICK call \in calls : /\ call.from = r /\ call.rpc = "init_trade"
                              /\ Answer(r, call, <<m.mine>>)
    BY <1>1
  <1>4. (Silence /\ Unheard) \/ Heard(r, call, m.mine)
    BY <1>3, AnswerTells
  <1>5. Silence \/ Tells(r, "keys", m.mine)
    BY <1>3, <1>4, HeardTells
  <1>6. kept'["Buyer"] = kept["Buyer"]
    <2>1. "Buyer" \in Trader
      BY DEF Trader
    <2> QED
      BY <1>3, <1>4, <2>1, HeardKeeps DEF Unheard
  <1>7. /\ \A q : Told(q, "nonces")' = Told(q, "nonces") /\ Told(q, "sigs")' = Told(q, "sigs")
        /\ Told("Buyer", "swap_sig")' = Told("Buyer", "swap_sig")
    BY <1>5 DEF Silence, Tells
  <1>8. HeldInv'
    <2> SUFFICES ASSUME NEW q \in Trader, NEW h \in 1 .. Len(models'[q])
                 PROVE  /\ OwnSig(q, h, models[q][h])'
                        /\ PeersSig(models[q][h])'
                        /\ LastNonces(q, h, models[q][h])'
      BY DEF HeldInv
    <2>1. CASE q = r /\ h = g
      <3>1. m.my_sig[Swap] = <<>> /\ m.peers_sig[Swap] = <<>> /\ m.pub_nonce = NoncesOf(r, 0)
        BY <1>1, NewModelType, Contexts DEF NewModel, Swap
      <3>2. \A n \in Nat : \A s \in signed : ~Made(s, r, g, n)
        <4> SUFFICES ASSUME NEW n \in Nat, NEW s \in signed, Made(s, r, g, n) PROVE FALSE
          OBVIOUS
        <4>1. PICK p \in Trader : \E f \in 1 .. Len(models[p]), k \in 1 .. draws[p] : Made(s, p, f, k)
          BY DEF SigsInv, MadeInv, Made
        <4>2. g \in 1 .. Len(models[r])
          BY <4>1, MadeOnce
        <4> QED
          BY <1>1, <4>2, ModelsTypes DEF TypeInv, ModelsInv
      <3>3. OwnSig(r, g, m)' /\ PeersSig(m)'
        BY <3>1 DEF OwnSig, PeersSig
      <3>4. LastNonces(r, g, m)'
        BY <1>2, <3>2 DEF LastNonces, Last
      <3> QED
        BY <1>1, <2>1, <3>3, <3>4
    <2>2. CASE q # r \/ h # g
      <3>1. h \in 1 .. Len(models[q])
        BY <1>1, <2>2, ModelsTypes DEF TypeInv, ModelsInv
      <3>2. PICK x : x = models[q][h] /\ x = models'[q][h]
        BY <1>1, <3>1
      <3>3. OwnSig(q, h, x) /\ PeersSig(x) /\ LastNonces(q, h, x)
        BY <3>1, <3>2 DEF SigsInv, HeldInv
      <3>4. OwnSig(q, h, x)' /\ PeersSig(x)' /\ LastNonces(q, h, x)'
        BY <1>2, <3>3, HeldSame, NoncesSame, PeersSigSame
      <3> QED
        BY <3>2, <3>4
    <2> QED
      BY <2>1, <2>2
  <1> QED
    BY <1>2, <1>6, <1>7, <1>8, MadeKept, NoncesToldKept, SigsToldKept DEF SigsInv

\* A handler that draws nothing, signs nothing, and changes no signatures but
\* those of the peer's that it stores.
LEMMA HandledSigs ==
    ASSUME TypeInv, Later, SigsInv, UNCHANGED <<draws, signed>>,
           NEW r \in Trader, NEW rpc, NEW call \in Held(r, rpc), NEW out,
           Handle(r, call, out), out.model \in ModelT,
           NEW m, m = models[r][call.model],
           out.model.my_sig = m.my_sig, out.model.pub_nonce = m.pub_nonce,
           \/ out.model.peers_sig[Swap] = m.peers_sig[Swap]
           \/ PeersSig(out.model)
    PROVE  HeldInv'
  <1>1. call.model \in 1 .. Len(models[r])
    BY Handled
  <1>2. OwnSig(r, call.model, m) /\ PeersSig(m) /\ LastNonces(r, call.model, m)
    BY <1>1 DEF SigsInv, HeldInv
  <1>3. PICK x : x = out.model
    OBVIOUS
  <1>4. OwnSig(r, call.model, x)'
    <2>1. x.my_sig[Swap] = m.my_sig[Swap]
      BY <1>3
    <2> QED
      BY <1>2, <2>1, HeldSame
  <1>5. LastNonces(r, call.model, x)'
    <2>1. x.pub_nonce = m.pub_nonce
      BY <1>3
    <2> QED
      BY <1>2, <2>1, NoncesSame
  <1>6. PeersSig(x)'
    BY <1>2, <1>3 DEF PeersSig
  <1>7. \A q, g : \A n \in Nat : Last(q, g, n) => Last(q, g, n)'
    BY DEF Last
  <1>8. HeldInv
    BY DEF SigsInv
  <1> QED
    BY <1>3, <1>4, <1>5, <1>6, <1>7, <1>8, HeldChanged

\* get_nonce_shares draws nonces that the model has not signed with.
LEMMA GetNonceSharesSigs ==
    ASSUME TypeInv, Later, SigsInv, NEW r \in Trader, HandleGetNonceShares(r)
    PROVE  (MadeInv /\ NoncesToldInv /\ SigsToldInv /\ HeldInv)'
  <1>1. PICK call, m, shares, h, n, out :
          /\ call \in Held(r, "get_nonce_shares") /\ m \in ModelT
          /\ n \in Nat \ {0}
          /\ m = models[r][call.model] /\ n = draws[r] + 1
          /\ Handle(r, call, out) /\ GotNonces(r, m, shares, n, out)
          /\ draws' = [draws EXCEPT ![r] = @ + 1]
          /\ UNCHANGED history
    BY GetNonceSharesStep
  <1>2. /\ out.model \in ModelT /\ out.reply = <<NoncesOf(r, n)>>
        /\ out.model.pub_nonce = NoncesOf(r, n) /\ out.model.my_sig = m.my_sig
        /\ out.model.peers_sig = m.peers_sig
    BY <1>1 DEF GotNonces
  <1>3. call.rpc = "get_nonce_shares" /\ call.model \in 1 .. Len(models[r])
    BY <1>1, <1>2, Handled
  <1>4. signed' = signed /\ draws'[r] = n /\ draws[r] \in Nat
    BY <1>1 DEF history, TypeInv, ServerInv
  <1>5. (Silence /\ Unheard) \/ Heard(r, call, NoncesOf(r, n))
    <2>1. Answer(r, call, <<NoncesOf(r, n)>>)
      BY <1>1, <1>2 DEF Handle
    <2> QED
      BY <2>1, AnswerTells
  <1>6. Silence \/ Tells(r, "nonces", NoncesOf(r, n))
    BY <1>3, <1>5, HeardTells
  <1>7. kept'["Buyer"] = kept["Buyer"]
    <2>1. "Buyer" \in Trader
      BY DEF Trader
    <2> QED
      BY <1>3, <1>5, <2>1, HeardKeeps DEF Unheard
  <1>8. NoncesToldInv'
    <2> SUFFICES ASSUME NEW q \in Trader, NEW b \in Told(q, "nonces")'
                 PROVE  \E k \in 1 .. draws'[q] : b = NoncesOf(q, k)
      BY DEF NoncesToldInv
    <2>1. CASE b \in Told(q, "nonces")
      <3>1. PICK k \in 1 .. draws[q] : b = NoncesOf(q, k)
        BY <2>1 DEF SigsInv, NoncesToldInv
      <3>2. k \in 1 .. draws'[q]
        BY DEF Later
      <3> QED
        BY <3>1, <3>2
    <2>2. CASE b \notin Told(q, "nonces")
      <3>1. q = r /\ b = NoncesOf(r, n)
        BY <1>6, <2>2 DEF Silence, Tells
      <3>2. n \in 1 .. draws'[q]
        BY <1>1, <1>4, <3>1
      <3> QED
        BY <3>1, <3>2
    <2> QED
      BY <2>1, <2>2
  <1>9. SigsToldInv'
    <2>1. /\ \A q : Told(q, "sigs")' = Told(q, "sigs")
          /\ Told("Buyer", "swap_sig")' = Told("Buyer", "swap_sig")
      BY <1>6 DEF Silence, Tells
    <2> QED
      BY <1>7, <2>1, SigsToldKept DEF SigsInv
  <1>10. MadeInv'
    BY <1>4, MadeKept DEF SigsInv
  <1>11. HeldInv'
    <2>1. PICK x : x = out.model
      OBVIOUS
    <2>2. PICK g : g = call.model
      OBVIOUS
    <2>3. OwnSig(r, g, m) /\ PeersSig(m)
      BY <1>1, <1>3, <2>2 DEF SigsInv, HeldInv
    <2>4. OwnSig(r, g, x)' /\ PeersSig(x)'
      <3>1. x.my_sig[Swap] = m.my_sig[Swap] /\ x.peers_sig[Swap] = m.peers_sig[Swap]
        BY <1>2, <2>1
      <3> QED
        BY <1>4, <2>3, <3>1, HeldSame, PeersSigSame
    <2>5. LastNonces(r, g, x)'
      <3> SUFFICES ASSUME NEW j \in Nat, x.pub_nonce = NoncesOf(r, j),
                          NEW s \in signed, NEW k \in Nat, Made(s, r, g, k)
                   PROVE  k <= j
        BY <1>4 DEF LastNonces, Last
      <3>1. j = n
        BY <1>1, <1>2, <2>1, NoncesDiffer
      <3>2. PICK p \in Trader : \E f \in 1 .. Len(models[p]), i \in 1 .. draws[p] : Made(s, p, f, i)
        BY DEF SigsInv, MadeInv, Made
      <3>3. k \in 1 .. draws[r]
        BY <3>2, MadeOnce
      <3> QED
        BY <1>1, <1>4, <3>1, <3>3
    <2>6. \A q, f : \A k \in Nat : Last(q, f, k) => Last(q, f, k)'
      BY <1>4 DEF Last
    <2>7. HeldInv /\ signed \subseteq signed'
      BY <1>4 DEF SigsInv
    <2> QED
      BY <1>1, <1>2, <2>1, <2>2, <2>4, <2>5, <2>6, <2>7, HeldChanged
  <1> QED
    BY <1>8, <1>9, <1>10, <1>11

\* sign_deposit_tx stores a signature that was told.
LEMMA SignDepositTxSigs ==
    ASSUME TypeInv, Later, SigsInv, NEW r \in Trader, HandleSignDepositTx(r)
    PROVE  (MadeInv /\ NoncesToldInv /\ SigsToldInv /\ HeldInv)'
  <1>1. PICK call, m, sigs, out :
          /\ call \in Held(r, "sign_deposit_tx") /\ m \in ModelT
          /\ m = models[r][call.model] /\ sigs = call.arg
          /\ Handle(r, call, out) /\ SignedDeposit(r, m, sigs, out)
          /\ UNCHANGED <<draws, history>>
    BY SignDepositTxStep
  <1>2. /\ out.model \in ModelT
        /\ out.model.pub_nonce = m.pub_nonce /\ out.model.my_sig = m.my_sig
        /\ out.model.peers_sig = [c \in Ctx |->
             IF c \in DOMAIN sigs THEN sigs[c] ELSE m.peers_sig[c]]
    BY <1>1 DEF SignedDeposit, SameButSigs, SameKeys
  <1>3. call.rpc = "sign_deposit_tx" /\ call.from = r /\ call \in calls
    BY <1>1, <1>2, Handled
  <1>4. signed' = signed /\ UNCHANGED draws
    BY <1>1 DEF history
  <1>5. (Silence /\ Unheard) \/ \E x : Heard(r, call, x)
    BY <1>1, AnswerTells DEF Handle
  <1>6. Silence
    BY <1>3, <1>5, HeardTells
  <1>7. kept'["Buyer"] = kept["Buyer"]
    <2>1. "Buyer" \in Trader
      BY DEF Trader
    <2> QED
      BY <1>3, <1>5, <2>1, HeardKeeps DEF Unheard
  <1>8. out.model.peers_sig[Swap] = m.peers_sig[Swap] \/ PeersSig(out.model)
    <2>1. sigs \in Told(Peer(r), "sigs")
      BY <1>1, <1>3 DEF SigsInv, ArgsInv, ArgHeard
    <2>2. Swap \in DOMAIN sigs /\ sigs[Swap] # <<>> => sigs[Swap][1] \in signed
      BY <2>1, Peers DEF SigsInv, SigsToldInv
    <2>3. Swap \in Ctx
      BY Contexts DEF Swap
    <2>4. out.model.peers_sig[Swap] = IF Swap \in DOMAIN sigs THEN sigs[Swap] ELSE m.peers_sig[Swap]
      BY <1>2, <2>3
    <2> QED
      BY <2>2, <2>4 DEF PeersSig
  <1>9. HeldInv'
    BY <1>1, <1>2, <1>4, <1>8, HandledSigs
  <1>10. MadeInv' /\ NoncesToldInv' /\ SigsToldInv'
    BY <1>4, <1>6, <1>7, MadeKept, NoncesToldKept, SigsToldKept DEF SigsInv, Silence
  <1> QED
    BY <1>9, <1>10

\* publish_deposit_tx lets the buyer tell the signature that he has kept.
LEMMA PublishDepositTxSigs ==
    ASSUME TypeInv, Later, SigsInv, NEW r \in Trader, HandlePublishDepositTx(r)
    PROVE  (MadeInv /\ NoncesToldInv /\ SigsToldInv /\ HeldInv)'
  <1>1. PICK call, m, out :
          /\ call \in Held(r, "publish_deposit_tx") /\ m \in ModelT
          /\ m = models[r][call.model]
          /\ Handle(r, call, out) /\ out.model = m
          /\ UNCHANGED <<draws, history>>
    BY PublishDepositTxStep
  <1>2. call.rpc = "publish_deposit_tx"
    BY <1>1, Handled
  <1>3. signed' = signed /\ UNCHANGED draws
    BY <1>1 DEF history
  <1>4. (Silence /\ Unheard) \/ \E x : Heard(r, call, x)
    BY <1>1, AnswerTells DEF Handle
  <1>5. Silence \/ (r = "Buyer" /\ step[r] = 5 /\ Tells(r, "swap_sig", kept[r][1]))
    BY <1>2, <1>4, HeardTells, HeardStep
  <1>6. kept'["Buyer"] = kept["Buyer"]
    <2>1. "Buyer" \in Trader
      BY DEF Trader
    <2> QED
      BY <1>2, <1>4, <2>1, HeardKeeps DEF Unheard
  <1>7. /\ \A q : Told(q, "nonces")' = Told(q, "nonces") /\ Told(q, "sigs")' = Told(q, "sigs")
        /\ Told("Buyer", "swap_sig")' \subseteq signed
    <2>1. step["Buyer"] = 5 => kept["Buyer"][1] \in signed
      <3>1. ASSUME step["Buyer"] = 5 PROVE \E s : kept["Buyer"] = <<s>>
        BY <3>1 DEF TypeInv, ClientInv, KeptInv, Opt
      <3> QED
        BY <3>1 DEF SigsInv, SigsToldInv
    <2>2. Told("Buyer", "swap_sig") \subseteq signed
      BY DEF SigsInv, SigsToldInv
    <2> QED
      BY <1>5, <2>1, <2>2 DEF Silence, Tells
  <1>8. SigsToldInv'
    BY <1>3, <1>6, <1>7 DEF SigsInv, SigsToldInv
  <1>9. HeldInv'
    BY <1>1, <1>3, HandledSigs
  <1> QED
    BY <1>3, <1>7, <1>8, <1>9, MadeKept, NoncesToldKept DEF SigsInv

\* sign_swap_tx stores the signature that the buyer told.
LEMMA SignSwapTxSigs ==
    ASSUME TypeInv, Later, SigsInv, NEW r \in Trader, HandleSignSwapTx(r)
    PROVE  (MadeInv /\ NoncesToldInv /\ SigsToldInv /\ HeldInv)'
  <1>1. PICK call, m, sig, out :
          /\ call \in Held(r, "sign_swap_tx") /\ m \in ModelT /\ sig \in SigT
          /\ m = models[r][call.model] /\ sig = call.arg /\ r = "Seller"
          /\ Handle(r, call, out) /\ SignedSwap(m, sig, out)
          /\ UNCHANGED <<draws, signed, closed>>
    BY SignSwapTxStep
  <1>2. /\ out.model \in ModelT
        /\ out.model.pub_nonce = m.pub_nonce /\ out.model.my_sig = m.my_sig
        /\ out.model.peers_sig[Swap] = <<sig>>
    BY <1>1 DEF SignedSwap, SameButSigs, SameKeys, Swap
  <1>3. call.rpc = "sign_swap_tx" /\ call.from = r /\ call \in calls
    BY <1>1, <1>2, Handled
  <1>4. (Silence /\ Unheard) \/ \E x : Heard(r, call, x)
    BY <1>1, AnswerTells DEF Handle
  <1>5. Silence \/ \E x : Tells(r, "prv", x)
    BY <1>3, <1>4, HeardTells
  <1>6. kept'["Buyer"] = kept["Buyer"]
    <2>1. "Buyer" \in Trader \ {r}
      BY <1>1 DEF Trader
    <2> QED
      BY <1>3, <1>4, <2>1, HeardKeeps DEF Unheard
  <1>7. /\ \A q : Told(q, "nonces")' = Told(q, "nonces") /\ Told(q, "sigs")' = Told(q, "sigs")
        /\ Told("Buyer", "swap_sig")' = Told("Buyer", "swap_sig")
    BY <1>5 DEF Silence, Tells
  <1>8. PeersSig(out.model)
    <2>1. sig \in Told("Buyer", "swap_sig")
      BY <1>1, <1>3, Peers DEF SigsInv, ArgsInv, ArgHeard
    <2>2. sig \in signed
      BY <2>1 DEF SigsInv, SigsToldInv
    <2> QED
      BY <1>2, <2>2 DEF PeersSig
  <1>9. HeldInv'
    BY <1>1, <1>2, <1>8, HandledSigs
  <1> QED
    BY <1>1, <1>6, <1>7, <1>9, MadeKept, NoncesToldKept, SigsToldKept DEF SigsInv

\* close_trade has nothing to do with signatures that are partial.
LEMMA CloseTradeSigs ==
    ASSUME TypeInv, Later, SigsInv, NEW r \in Trader, HandleCloseTrade(r)
    PROVE  (MadeInv /\ NoncesToldInv /\ SigsToldInv /\ HeldInv)'
  <1>1. PICK call, m, request, out :
          /\ call \in Held(r, "close_trade") /\ m \in ModelT
          /\ m = models[r][call.model]
          /\ Handle(r, call, out) /\ Closing(r, m, request, out)
          /\ UNCHANGED <<draws, signed, finals>>
    BY CloseTradeStep
  <1>2. /\ out.model \in ModelT
        /\ out.model.pub_nonce = m.pub_nonce /\ out.model.my_sig = m.my_sig
        /\ out.model.peers_sig[Swap] = m.peers_sig[Swap]
    BY <1>1 DEF Closing, SameKeys
  <1>3. call.rpc = "close_trade"
    BY <1>1, <1>2, Handled
  <1>4. (Silence /\ Unheard) \/ \E x : Heard(r, call, x)
    BY <1>1, AnswerTells DEF Handle
  <1>5. Silence \/ \E x : Tells(r, "prv", x) \/ Tells(r, "swap_tx", x)
    BY <1>3, <1>4, HeardTells
  <1>6. kept'["Buyer"] = kept["Buyer"]
    <2>1. "Buyer" \in Trader
      BY DEF Trader
    <2> QED
      BY <1>3, <1>4, <2>1, HeardKeeps DEF Unheard
  <1>7. /\ \A q : Told(q, "nonces")' = Told(q, "nonces") /\ Told(q, "sigs")' = Told(q, "sigs")
        /\ Told("Buyer", "swap_sig")' = Told("Buyer", "swap_sig")
    BY <1>5 DEF Silence, Tells
  <1>8. HeldInv'
    BY <1>1, <1>2, HandledSigs
  <1> QED
    BY <1>1, <1>6, <1>7, <1>8, MadeKept, NoncesToldKept, SigsToldKept DEF SigsInv

\* What r's g-th model m, with the n-th draw of nonces, signs the swap with, and
\* that it is for a draw k that the peer has told.
SignsSwap(r, g, m, n, k, s) ==
    /\ n \in 1 .. draws[r] /\ k \in 1 .. draws[Peer(r)] /\ n \in Nat /\ k \in Nat
    /\ m.pub_nonce = NoncesOf(r, n)
    /\ Made(s, r, g, n) /\ MadeFor(s, r, k) /\ Says(Peer(r), k)

\* A successful get_partial_signatures makes one signature on the swap.
LEMMA SwapIsSigned ==
    ASSUME TypeInv, NonceInv, SigsInv, NEW r \in Trader,
           NEW call \in Held(r, "get_partial_signatures"), NEW m \in ModelT,
           NEW nonces \in [Ctx -> NonceT], NEW out,
           m = models[r][call.model], nonces = call.arg,
           SignedPartially(r, m, nonces, out), out.reply # <<>>,
           signed' = signed \cup { out.model.my_sig[c][1] : c \in Ctx }
    PROVE  \E s \in signed' : \E n \in Nat, k \in Nat :
              /\ SignsSwap(r, call.model, m, n, k, s)
              /\ out.model.my_sig[Swap] = <<s>>
              /\ out.reply[1][Swap] = <<s>> /\ Swap \in DOMAIN out.reply[1]
              /\ \A t \in signed' : t.ctx = Swap => t \in signed \/ t = s
  <1>1. Swap \in Ctx /\ KeyCtx(Swap) = "seller_output"
    BY Contexts DEF Swap, KeyCtx, BuyerKeyCtx
  <1>2. /\ out.reply = <<SigsOnPeerTxs(r, out.model)>>
        /\ \A c \in Ctx : m.sec_nonce[c] # NoNonce
        /\ \A c \in Ctx : \E s \in SigT :
              /\ out.model.my_sig[c] = <<s>>
              /\ s.ctx = c /\ s.signer = m.mine[KeyCtx(c)] /\ s.nonce = m.sec_nonce[c]
              /\ s.agg_nonce = {m.pub_nonce[c], nonces[c]}
    <2>1. /\ out.reply = <<SigsOnPeerTxs(r, out.model)>>
          /\ \A c \in Ctx : m.sec_nonce[c] # NoNonce
      BY DEF SignedPartially
    <2>2. ASSUME NEW c \in Ctx
          PROVE  \E s \in SigT :
                    /\ out.model.my_sig[c] = <<s>>
                    /\ s.ctx = c /\ s.signer = m.mine[KeyCtx(c)] /\ s.nonce = m.sec_nonce[c]
                    /\ s.agg_nonce = {m.pub_nonce[c], nonces[c]}
      <3>1. PICK s \in SigT :
              /\ out.model.my_sig[c] = <<s>>
              /\ s.ctx = c /\ s.signer = m.mine[KeyCtx(c)] /\ s.nonce = m.sec_nonce[c]
              /\ s.agg_nonce = {m.pub_nonce[c], nonces[c]}
        BY DEF SignedPartially
      <3> QED
        BY <3>1
    <2> QED
      BY <2>1, <2>2
  <1>3. PICK s \in SigT :
          /\ out.model.my_sig[Swap] = <<s>>
          /\ s.ctx = Swap /\ s.signer = m.mine["seller_output"] /\ s.nonce = m.sec_nonce[Swap]
          /\ s.agg_nonce = {m.pub_nonce[Swap], nonces[Swap]}
    BY <1>1, <1>2
  <1>4. call.model \in 1 .. Len(models[r]) /\ call \in calls /\ call.from = r
        /\ call.rpc = "get_partial_signatures"
    BY HeldModel DEF Held
  <1>5. PICK n \in 0 .. draws[r] : Holds(r, n, m)
    BY <1>4 DEF NonceInv, DrawnInv
  <1>6. \A q \in Trader : draws[q] \in Nat
    BY DEF TypeInv, ServerInv
  <1>7. /\ n \in 1 .. draws[r] /\ n \in Nat /\ m.pub_nonce = NoncesOf(r, n)
        /\ m.pub_nonce[Swap] = Nonce(Swap, r, n) /\ s.nonce = Nonce(Swap, r, n)
    <2>1. n \in Nat
      BY <1>5, <1>6
    <2>2. m.sec_nonce # NoncesOf(r, 0)
      BY <1>1, <1>2, NoncesDiffer
    <2>3. m.sec_nonce = NoncesOf(r, n) /\ m.pub_nonce = NoncesOf(r, n)
      BY <1>5, <2>2 DEF Holds
    <2>4. n # 0
      BY <2>2, <2>3
    <2>5. NoncesOf(r, n)[Swap] = Nonce(Swap, r, n)
      BY <1>1, <2>1, <2>4, NoncesDiffer
    <2> QED
      BY <1>3, <1>5, <1>6, <2>1, <2>3, <2>4, <2>5
  <1>8. PICK k \in 1 .. draws[Peer(r)] : nonces = NoncesOf(Peer(r), k) /\ Says(Peer(r), k)
    <2>1. nonces \in Told(Peer(r), "nonces")
      BY <1>4 DEF SigsInv, ArgsInv, ArgHeard
    <2> QED
      BY <2>1, Peers DEF SigsInv, NoncesToldInv, Says
  <1>9. k \in Nat /\ nonces[Swap] = Nonce(Swap, Peer(r), k)
    <2>1. k \in Nat /\ k # 0
      BY <1>6, Peers
    <2> QED
      BY <1>1, <1>8, <2>1, NoncesDiffer, Peers
  <1>10. s.signer = Point("seller_output", r, call.model)
    <2>1. m.mine = KeysOf(r, call.model)
      BY <1>4 DEF TypeInv, ModelsInv, Keyed
    <2> QED
      BY <1>3, <2>1 DEF KeysOf, Output
  <1>11. Made(s, r, call.model, n) /\ MadeFor(s, r, k)
    BY <1>3, <1>7, <1>9, <1>10 DEF Made, MadeFor
  <1>12. SignsSwap(r, call.model, m, n, k, s)
    BY <1>7, <1>8, <1>9, <1>11 DEF SignsSwap
  <1>13. out.reply[1][Swap] = <<s>> /\ Swap \in DOMAIN out.reply[1]
    BY <1>2, <1>3 DEF SigsOnPeerTxs, Swap
  <1>14. s \in signed'
    BY <1>1, <1>3
  <1>15. ASSUME NEW t \in signed', t.ctx = Swap, t \notin signed PROVE t = s
    <2>1. PICK c \in Ctx : t = out.model.my_sig[c][1]
      BY <1>15
    <2>2. c = Swap
      BY <1>2, <1>15, <2>1
    <2> QED
      BY <1>3, <2>1, <2>2
  <1> QED
    BY <1>3, <1>7, <1>9, <1>12, <1>13, <1>14, <1>15

\* get_partial_signatures makes a signature for a draw that was told, with the
\* latest nonces of the model.
LEMMA GetPartialSignaturesSigs ==
    ASSUME TypeInv, NonceInv, Later, SigsInv, NEW r \in Trader, HandleGetPartialSignatures(r)
    PROVE  (MadeInv /\ NoncesToldInv /\ SigsToldInv /\ HeldInv)'
  <1>1. PICK call, m, nonces, out :
          /\ call \in Held(r, "get_partial_signatures") /\ m \in ModelT
          /\ nonces \in [Ctx -> NonceT]
          /\ m = models[r][call.model] /\ nonces = call.arg
          /\ Handle(r, call, out) /\ SignedPartially(r, m, nonces, out)
          /\ signed' = IF out.reply = <<>> THEN signed
                       ELSE signed \cup { out.model.my_sig[c][1] : c \in Ctx }
          /\ UNCHANGED <<draws, finals, closed>>
    BY GetPartialSignaturesStep
  <1>2. /\ out.model \in ModelT /\ out.model.pub_nonce = m.pub_nonce
        /\ out.model.peers_sig = m.peers_sig
        /\ out.reply = <<>> => out.model.my_sig = m.my_sig
    <2>1. <<SigsOnPeerTxs(r, out.model)>> # <<>>
      OBVIOUS
    <2> QED
      BY <1>1, <2>1 DEF SignedPartially, SameKeys
  <1>3. call.rpc = "get_partial_signatures" /\ call.model \in 1 .. Len(models[r])
    BY <1>1, <1>2, Handled
  <1>4. (Silence /\ Unheard) \/ (out.reply # <<>> /\ Heard(r, call, out.reply[1]))
    BY <1>1, AnswerTells DEF Handle
  <1>5. Silence \/ (out.reply # <<>> /\ Tells(r, "sigs", Redact(r, out.reply[1])))
    BY <1>3, <1>4, HeardTells
  <1>6. /\ \A q : Told(q, "nonces")' = Told(q, "nonces")
        /\ Told("Buyer", "swap_sig")' = Told("Buyer", "swap_sig")
    BY <1>5 DEF Silence, Tells
  <1>7. NoncesToldInv'
    BY <1>6, NoncesToldKept DEF SigsInv
  <1>8. CASE out.reply = <<>>
    <2>1. UNCHANGED <<draws, signed>>
      BY <1>1, <1>8
    <2>2. HeldInv'
      BY <1>1, <1>2, <1>8, <2>1, HandledSigs
    <2>3. Silence /\ kept' = kept
      BY <1>4, <1>5, <1>8 DEF Unheard
    <2>4. SigsToldInv'
      BY <1>6, <2>3, SigsToldKept DEF SigsInv, Silence
    <2>5. MadeInv'
      BY <2>1, MadeKept DEF SigsInv
    <2> QED
      BY <1>7, <2>2, <2>4, <2>5
  <1>9. CASE out.reply # <<>>
    <2>1. PICK s, n, k :
            /\ s \in signed' /\ n \in Nat /\ k \in Nat
            /\ SignsSwap(r, call.model, m, n, k, s)
            /\ out.model.my_sig[Swap] = <<s>>
            /\ out.reply[1][Swap] = <<s>> /\ Swap \in DOMAIN out.reply[1]
            /\ \A t \in signed' : t.ctx = Swap => t \in signed \/ t = s
      BY <1>1, <1>9, SwapIsSigned
    <2>2. Made(s, r, call.model, n) /\ m.pub_nonce = NoncesOf(r, n)
      BY <2>1 DEF SignsSwap
    <2>3. MadeInv'
      <3>1. Signer(s, r)
        BY <1>3, <2>1 DEF SignsSwap, Signer
      <3> QED
        BY <2>1, <3>1, MadeKept DEF SigsInv
    <2>4. SigsToldInv'
      <3>1. \A q \in Trader : \A b \in Told(q, "sigs")' :
              Swap \in DOMAIN b /\ b[Swap] # <<>> => b[Swap][1] \in signed'
        <4> SUFFICES ASSUME NEW q \in Trader, NEW b \in Told(q, "sigs")',
                            Swap \in DOMAIN b, b[Swap] # <<>>
                     PROVE  b[Swap][1] \in signed'
          OBVIOUS
        <4>1. CASE b \in Told(q, "sigs")
          BY <4>1 DEF SigsInv, SigsToldInv, Later
        <4>2. CASE b \notin Told(q, "sigs")
          <5>1. q = r /\ b = Redact(r, out.reply[1])
            BY <1>5, <4>2 DEF Silence, Tells
          <5>2. b[Swap] = IF r = "Buyer" THEN <<>> ELSE <<s>>
            BY <2>1, <5>1 DEF Redact, Swap
          <5>3. b[Swap] = <<s>>
            BY <5>2
          <5> QED
            BY <2>1, <5>3
        <4> QED
          BY <4>1, <4>2
      <3>2. Told("Buyer", "swap_sig")' \subseteq signed'
        BY <1>6 DEF SigsInv, SigsToldInv, Later
      <3>3. \A x : kept'["Buyer"] = <<x>> => x \in signed'
        <4>0. "Buyer" \in Trader
          BY DEF Trader
        <4>1. kept'["Buyer"] = kept["Buyer"] \/ kept'["Buyer"] = <<s>>
          BY <1>3, <1>4, <2>1, <4>0, HeardKeeps DEF Unheard
        <4> QED
          BY <2>1, <4>1 DEF SigsInv, SigsToldInv, Later
      <3> QED
        BY <3>1, <3>2, <3>3 DEF SigsToldInv
    <2>5. HeldInv'
      <3>1. PICK x : x = out.model
        OBVIOUS
      <3>2. PICK g : g = call.model
        OBVIOUS
      <3>3. PeersSig(m) /\ LastNonces(r, g, m)
        BY <1>1, <1>3, <3>2 DEF SigsInv, HeldInv
      <3>4. Last(r, g, n)
        BY <2>1, <2>2, <3>3 DEF LastNonces
      <3>5. Last(r, g, n)'
        <4> SUFFICES ASSUME NEW t \in signed', NEW j \in Nat, Made(t, r, g, j)
                     PROVE  j <= n
          BY DEF Last
        <4>1. CASE t \in signed
          BY <3>4, <4>1 DEF Last
        <4>2. CASE t = s
          <5>1. j = n
            BY <2>2, <3>2, <4>2, MadeOnce
          <5> QED
            BY <2>1, <5>1
        <4> QED
          BY <2>1, <4>1, <4>2 DEF Made
      <3>6. OwnSig(r, g, x)'
        BY <2>1, <2>2, <3>1, <3>2, <3>5 DEF OwnSig
      <3>7. PeersSig(x)'
        <4>1. x.peers_sig[Swap] = m.peers_sig[Swap]
          BY <1>2, <3>1
        <4> QED
          BY <3>3, <4>1, PeersSigSame DEF Later
      <3>8. LastNonces(r, g, x)'
        <4>1. \A j \in Nat : x.pub_nonce = NoncesOf(r, j) => j = n
          BY <1>2, <2>1, <2>2, <3>1, NoncesDiffer
        <4> QED
          BY <3>5, <4>1 DEF LastNonces
      <3>9. \A q, f : q # r \/ f # g => \A j \in Nat : Last(q, f, j) => Last(q, f, j)'
        <4> SUFFICES ASSUME NEW q, NEW f, q # r \/ f # g, NEW j \in Nat, Last(q, f, j),
                            NEW t \in signed', NEW i \in Nat, Made(t, q, f, i)
                     PROVE  i <= j
          BY DEF Last
        <4>1. t # s
          BY <2>2, <3>2, MadeOnce
        <4>2. t \in signed
          BY <2>1, <4>1 DEF Made
        <4> QED
          BY <4>2 DEF Last
      <3>10. HeldInv /\ signed \subseteq signed'
        BY DEF SigsInv, Later
      <3> QED
        BY <1>1, <1>2, <3>1, <3>2, <3>6, <3>7, <3>8, <3>9, <3>10, HeldChanged
    <2> QED
      BY <1>7, <2>3, <2>4, <2>5
  <1> QED
    BY <1>8, <1>9

\* Every step preserves what is known of the signatures on the swap.
LEMMA SigsStep ==
    TypeInv /\ TypeInv' /\ NonceInv /\ SigsInv /\ [Next]_vars => SigsInv'
  <1> SUFFICES ASSUME TypeInv, TypeInv', NonceInv, SigsInv, [Next]_vars PROVE SigsInv'
    OBVIOUS
  <1>1. Later
    BY LaterStep
  <1>2. ArgsInv'
    BY <1>1, ArgsStep DEF SigsInv
  <1>3. ASSUME Plain, kept'["Buyer"] = kept["Buyer"] \/ kept'["Buyer"] = <<>>
        PROVE  (MadeInv /\ NoncesToldInv /\ SigsToldInv /\ HeldInv)'
    <2>1. Silence /\ signed' = signed /\ models' = models
      BY <1>3, NothingTold DEF Plain, history
    <2>2. HeldInv'
      BY <2>1 DEF SigsInv, HeldInv, OwnSig, PeersSig, LastNonces, Last
    <2> QED
      BY <1>1, <1>3, <2>1, <2>2, MadeKept, NoncesToldKept, SigsToldKept DEF SigsInv, Silence
  <1>4. ASSUME NEW r \in Trader, PlainSteps(r)
        PROVE  kept'["Buyer"] = kept["Buyer"] \/ kept'["Buyer"] = <<>>
    <2>1. CASE StartOver(r)
      <3>1. kept' = [kept EXCEPT ![r] = <<>>]
        BY <2>1 DEF StartOver
      <3>2. kept \in [Trader -> Opt(SigT) \cup Opt(FinalT)] /\ "Buyer" \in Trader
        BY DEF TypeInv, ClientInv, KeptInv, Trader
      <3> QED
        BY <3>1, <3>2
    <2>2. CASE MissingTrade(r)
      <3>1. PICK call \in calls : Answer(r, call, <<>>)
        BY <2>2 DEF MissingTrade
      <3>2. Unheard
        BY <3>1, Answered
      <3> QED
        BY <3>2 DEF Unheard
    <2>3. CASE Call(r) \/ Retry(r) \/ GetTradeModel(r) \/ Crash(r)
      BY <2>3 DEF Call, Retry, GetTradeModel, Crash, client
    <2> QED
      BY <1>4, <2>1, <2>2, <2>3 DEF PlainSteps
  <1>5. ASSUME NEW r \in Trader, Steps(r)
        PROVE  (MadeInv /\ NoncesToldInv /\ SigsToldInv /\ HeldInv)'
    <2>1. CASE PlainSteps(r)
      BY <1>3, <1>4, <2>1, PlainIsPlain
    <2> QED
      BY <1>1, <1>5, <2>1, InitTradeSigs, GetNonceSharesSigs, GetPartialSignaturesSigs,
         SignDepositTxSigs, PublishDepositTxSigs, SignSwapTxSigs, CloseTradeSigs
         DEF Steps, PlainSteps
  <1>6. CASE UNCHANGED vars
    <2>1. Plain
      BY <1>6 DEF Plain, vars, server, client
    <2>2. kept' = kept
      BY <1>6 DEF vars, client
    <2> QED
      BY <1>2, <1>3, <2>1, <2>2 DEF SigsInv
  <1> QED
    BY <1>2, <1>5, <1>6, NextIsSteps DEF SigsInv

-----------------------------------------------------------------------------
(* The call that a client waits for.  A client's latest copy of its call is *)
(* the only one with the number of its repeats, and is awaited: whatever    *)
(* else its server still has to answer is too late to be heard.             *)

Live(r) == { c \in calls : c.from = r /\ c.id = repeats[r] }

IdOk(r) ==
    /\ \A c \in calls : c.from = r => c.id <= repeats[r]
    /\ \A c \in Live(r) : Awaited(r, c)
    /\ \A c, d \in Live(r) : c = d
IdInv == \A r \in Trader : IdOk(r)

\* The models of r's that the awaited call may still be answered from.
Current(r) == ({ c.model : c \in Live(r) } \cup {store[r]}) \ {0}

\* The steps of r that answer a call.
AnswerSteps(r) ==
    \/ InitTrade(r) \/ MissingTrade(r)
    \/ HandleGetNonceShares(r) \/ HandleGetPartialSignatures(r) \/ HandleSignDepositTx(r)
    \/ HandlePublishDepositTx(r) \/ HandleSignSwapTx(r) \/ HandleCloseTrade(r)

\* r's server runs an RPC.
Runs(r, rpc) ==
    \/ rpc = "init_trade" /\ InitTrade(r)
    \/ rpc = "get_nonce_shares" /\ HandleGetNonceShares(r)
    \/ rpc = "get_partial_signatures" /\ HandleGetPartialSignatures(r)
    \/ rpc = "sign_deposit_tx" /\ HandleSignDepositTx(r)
    \/ rpc = "publish_deposit_tx" /\ HandlePublishDepositTx(r)
    \/ rpc = "sign_swap_tx" /\ HandleSignSwapTx(r)
    \/ rpc = "close_trade" /\ HandleCloseTrade(r)

\* An answering step answers one call, and successfully only if it runs its RPC.
LEMMA AnswersOne ==
    ASSUME NEW r, AnswerSteps(r)
    PROVE  \E call \in calls : \E reply :
              /\ call.from = r /\ Answer(r, call, reply)
              /\ store' = store \/ InitTrade(r)
              /\ reply = <<>> \/ Runs(r, call.rpc)
  <1>1. CASE InitTrade(r)
    BY <1>1 DEF InitTrade, Runs
  <1>2. CASE MissingTrade(r)
    BY <1>2 DEF MissingTrade, server
  <1>3. ASSUME NEW rpc, NEW call \in Held(r, rpc), NEW out, Handle(r, call, out)
        PROVE  /\ call \in calls /\ call.from = r /\ Answer(r, call, out.reply)
               /\ store' = store /\ call.rpc = rpc
    BY <1>3 DEF Held, Handle
  <1>4. CASE HandleGetNonceShares(r)
    BY <1>3, <1>4 DEF HandleGetNonceShares, Runs
  <1>5. CASE HandleGetPartialSignatures(r)
    BY <1>3, <1>5 DEF HandleGetPartialSignatures, Runs
  <1>6. CASE HandleSignDepositTx(r)
    BY <1>3, <1>6 DEF HandleSignDepositTx, Runs
  <1>7. CASE HandlePublishDepositTx(r)
    BY <1>3, <1>7 DEF HandlePublishDepositTx, Runs
  <1>8. CASE HandleSignSwapTx(r)
    BY <1>3, <1>8 DEF HandleSignSwapTx, Runs
  <1>9. CASE HandleCloseTrade(r)
    BY <1>3, <1>9 DEF HandleCloseTrade, Runs
  <1> QED
    BY <1>1, <1>2, <1>4, <1>5, <1>6, <1>7, <1>8, <1>9 DEF AnswerSteps

\* What concerns q, of the calls, the clients and the store.
Untouched(q) ==
    /\ \A c : c.from = q => (c \in calls' <=> c \in calls)
    /\ step'[q] = step[q] /\ waiting'[q] = waiting[q] /\ stopped'[q] = stopped[q]
    /\ repeats'[q] = repeats[q] /\ kept'[q] = kept[q] /\ store'[q] = store[q]

\* A step of one trader does not touch the other's.
LEMMA OthersUntouched ==
    ASSUME TypeInv, NEW r \in Trader, Steps(r), NEW q \in Trader, q # r
    PROVE  Untouched(q)
  <1>0. /\ DOMAIN step = Trader /\ DOMAIN waiting = Trader /\ DOMAIN stopped = Trader
        /\ DOMAIN repeats = Trader /\ DOMAIN kept = Trader /\ DOMAIN store = Trader
    BY DEF TypeInv, ClientInv, ClientTypes, KeptInv, ServerInv
  <1>1. CASE Call(r)
    <2>1. PICK arg : calls' = calls \cup {NewCall(r, arg, repeats[r])}
      BY <1>1 DEF Call
    <2>2. NewCall(r, arg, repeats[r]).from = r
      BY DEF NewCall
    <2> QED
      BY <1>0, <1>1, <2>1, <2>2 DEF Call, Untouched, server
  <1>2. CASE Retry(r)
    <2>1. PICK arg : calls' = calls \cup {NewCall(r, arg, repeats[r] + 1)}
      BY <1>2 DEF Retry
    <2>2. NewCall(r, arg, repeats[r] + 1).from = r
      BY DEF NewCall
    <2> QED
      BY <1>0, <1>2, <2>1, <2>2 DEF Retry, Untouched, server
  <1>3. CASE StartOver(r)
    BY <1>0, <1>3 DEF StartOver, Untouched, server
  <1>4. CASE GetTradeModel(r)
    <2>1. PICK d \in calls : d.from = r /\ calls' = (calls \ {d}) \cup {[d EXCEPT !.model = store[r]]}
      BY <1>4 DEF GetTradeModel
    <2>2. d = [from |-> d.from, rpc |-> d.rpc, arg |-> d.arg, id |-> d.id, model |-> d.model]
      BY DEF TypeInv, CallsInv, CallOk
    <2>3. [d EXCEPT !.model = store[r]].from = r
      BY <2>1, <2>2
    <2> QED
      BY <1>4, <2>1, <2>3 DEF GetTradeModel, Untouched, server, client
  <1>5. CASE Crash(r)
    BY <1>0, <1>5 DEF Crash, Untouched
  <1>6. CASE AnswerSteps(r)
    <2>1. PICK call, reply : /\ call.from = r /\ Answer(r, call, reply)
                             /\ store' = store \/ InitTrade(r)
      BY <1>6, AnswersOne
    <2>2. store'[q] = store[q]
      BY <1>0, <2>1 DEF InitTrade
    <2>3. \A c : c.from = q => (c \in calls' <=> c \in calls)
      BY <2>1 DEF Answer
    <2>4. /\ step'[q] = step[q] /\ waiting'[q] = waiting[q] /\ stopped'[q] = stopped[q]
          /\ repeats'[q] = repeats[q] /\ kept'[q] = kept[q]
      <3>1. CASE UNCHANGED client
        BY <3>1 DEF client
      <3>2. CASE Receive(r, call, reply)
        BY <1>0, <3>2 DEF Receive
      <3> QED
        BY <2>1, <3>1, <3>2 DEF Answer
    <2> QED
      BY <2>2, <2>3, <2>4 DEF Untouched
  <1> QED
    BY <1>1, <1>2, <1>3, <1>4, <1>5, <1>6 DEF Steps, AnswerSteps

\* What is not touched stays.
LEMMA UntouchedKeeps ==
    ASSUME NEW q, Untouched(q)
    PROVE  /\ Live(q)' = Live(q) /\ Current(q)' = Current(q)
           /\ IdOk(q) => IdOk(q)'
  <1>1. Live(q)' = Live(q)
    BY DEF Untouched, Live
  <1>2. Current(q)' = Current(q)
    BY <1>1 DEF Untouched, Current
  <1>3. \A c : Awaited(q, c)' <=> Awaited(q, c)
    BY DEF Untouched, Awaited, Busy
  <1>4. IdOk(q) => IdOk(q)'
    BY <1>1, <1>3 DEF Untouched, IdOk
  <1> QED
    BY <1>1, <1>2, <1>4

\* r's client learns nothing, and no old model becomes current.
Stays(r) ==
    /\ step'[r] = step[r] /\ kept'[r] = kept[r] /\ told' = told
    /\ \/ Current(r)' \subseteq Current(r) /\ store'[r] = store[r]
       \/ Current(r)' = {} /\ store'[r] = 0
       \/ /\ store'[r] = Len(models[r]) + 1 /\ models'[r][store'[r]] = NewModel(r, store'[r])
          /\ Current(r)' \subseteq Current(r) \cup {store'[r]}

\* It begins again.
Restarts(r) == step'[r] = 1 /\ kept'[r] = <<>> /\ told' = told

\* An answer that is heard leaves no call with the number of the repeats.
LEMMA HeardClears ==
    ASSUME NEW r, IdOk(r), NEW call \in calls, call.from = r, NEW reply, NEW x,
           Answer(r, call, reply), Heard(r, call, x)
    PROVE  /\ call \in Live(r) /\ Live(r)' = {} /\ Current(r)' = {store'[r]} \ {0}
           /\ call.model # 0 => call.model \in Current(r)
  <1>1. call \in Live(r) /\ \A d \in Live(r) : d = call
    BY DEF Heard, Awaited, Live, IdOk
  <1>2. calls' = calls \ {call} /\ repeats' = repeats
    BY DEF Answer, Receive, client
  <1>3. Live(r)' = {}
    BY <1>1, <1>2 DEF Live
  <1>4. Current(r)' = {store'[r]} \ {0}
    BY <1>3 DEF Current
  <1>5. call.model # 0 => call.model \in Current(r)
    BY <1>1 DEF Current
  <1> QED
    BY <1>1, <1>3, <1>4, <1>5

\* Answering a call leaves at most one call to wait for.
LEMMA AnswerIds ==
    ASSUME TypeInv, NEW r \in Trader, IdOk(r), NEW call \in calls, call.from = r, NEW reply,
           Answer(r, call, reply)
    PROVE  /\ IdOk(r)' /\ Live(r)' \subseteq Live(r)
           /\ \/ step'[r] = step[r] /\ kept'[r] = kept[r] /\ told' = told
              \/ reply # <<>> /\ Heard(r, call, reply[1])
  <1>1. calls' = calls \ {call} /\ repeats' = repeats
    BY DEF Answer, Receive, client
  <1>2. Live(r)' = Live(r) \ {call}
    BY <1>1 DEF Live
  <1>3. \/ step'[r] = step[r] /\ kept'[r] = kept[r] /\ told' = told
        \/ reply # <<>> /\ Heard(r, call, reply[1])
    BY Answered DEF Unheard
  <1>4. \A c, d \in Live(r)' : c = d
    BY <1>2 DEF IdOk
  <1>5. \A c \in calls' : c.from = r => c.id <= repeats'[r]
    BY <1>1 DEF IdOk
  <1>6. \A c \in Live(r)' : Awaited(r, c)'
    <2>1. CASE UNCHANGED client
      <3>1. \A c : Awaited(r, c)' <=> Awaited(r, c)
        BY <2>1 DEF client, Awaited, Busy
      <3> QED
        BY <1>2, <3>1 DEF IdOk
    <2>2. CASE Awaited(r, call)
      <3>1. call \in Live(r)
        BY <2>2 DEF Awaited, Live
      <3>2. Live(r)' = {}
        BY <1>2, <3>1 DEF IdOk
      <3> QED
        BY <3>2
    <2> QED
      BY <2>1, <2>2 DEF Answer
  <1> QED
    BY <1>2, <1>3, <1>4, <1>5, <1>6 DEF IdOk

\* What a step of its own does to a trader's awaited call.
LEMMA OwnStep ==
    ASSUME TypeInv, NEW r \in Trader, Steps(r), IdOk(r)
    PROVE  /\ IdOk(r)'
           /\ \/ Stays(r)
              \/ Restarts(r) /\ StartOver(r)
              \/ \E call \in calls : \E reply :
                    /\ call.from = r /\ Answer(r, call, reply) /\ reply # <<>>
                    /\ Heard(r, call, reply[1]) /\ Runs(r, call.rpc)
  <1>0. /\ DOMAIN step = Trader /\ DOMAIN waiting = Trader /\ DOMAIN stopped = Trader
        /\ DOMAIN repeats = Trader /\ DOMAIN kept = Trader /\ DOMAIN store = Trader
        /\ repeats[r] \in Nat /\ \A c \in calls : c.id \in Nat
    BY DEF TypeInv, ClientInv, ClientTypes, KeptInv, ServerInv, CallsInv, CallOk
  <1>1. CASE Call(r)
    <2>1. PICK arg : calls' = calls \cup {NewCall(r, arg, repeats[r])}
      BY <1>1 DEF Call
    <2>2. PICK c : c = NewCall(r, arg, repeats[r])
      OBVIOUS
    <2>3. c.from = r /\ c.rpc = Script(r)[step[r]] /\ c.id = repeats[r] /\ c.model = 0
      BY <2>2 DEF NewCall
    <2>4. Live(r) = {}
      BY <1>1 DEF Call, IdOk, Awaited
    <2>5. /\ UNCHANGED <<step, stopped, repeats, kept, told, store>>
          /\ waiting'[r] = TRUE /\ Busy(r)
      BY <1>0, <1>1 DEF Call, server
    <2>6. Live(r)' = {c}
      BY <2>1, <2>2, <2>3, <2>4, <2>5 DEF Live
    <2>7. Awaited(r, c)'
      BY <2>3, <2>5 DEF Awaited, Busy
    <2>8. IdOk(r)'
      BY <1>0, <2>1, <2>2, <2>3, <2>5, <2>6, <2>7 DEF IdOk
    <2>9. Current(r)' \subseteq Current(r)
      BY <2>3, <2>5, <2>6 DEF Current
    <2> QED
      BY <2>5, <2>8, <2>9 DEF Stays
  <1>2. CASE Retry(r)
    <2>1. PICK arg : calls' = calls \cup {NewCall(r, arg, repeats[r] + 1)}
      BY <1>2 DEF Retry
    <2>2. PICK c : c = NewCall(r, arg, repeats[r] + 1)
      OBVIOUS
    <2>3. c.from = r /\ c.rpc = Script(r)[step[r]] /\ c.id = repeats[r] + 1 /\ c.model = 0
      BY <2>2 DEF NewCall
    <2>4. /\ UNCHANGED <<step, waiting, stopped, kept, told, store>>
          /\ repeats'[r] = repeats[r] + 1 /\ Busy(r) /\ waiting[r]
      BY <1>0, <1>2 DEF Retry, server
    <2>5. Live(r)' = {c}
      BY <1>0, <2>1, <2>2, <2>3, <2>4 DEF Live, IdOk
    <2>6. Awaited(r, c)'
      BY <2>3, <2>4 DEF Awaited, Busy
    <2>7. IdOk(r)'
      BY <1>0, <2>1, <2>2, <2>3, <2>4, <2>5, <2>6 DEF IdOk
    <2>8. Current(r)' \subseteq Current(r)
      BY <2>3, <2>4, <2>5 DEF Current
    <2> QED
      BY <2>4, <2>7, <2>8 DEF Stays
  <1>3. CASE StartOver(r)
    <2>1. /\ UNCHANGED <<calls, told>> /\ step'[r] = 1 /\ kept'[r] = <<>>
          /\ repeats'[r] = repeats[r] + 1
      BY <1>0, <1>3 DEF StartOver
    <2>2. Live(r)' = {}
      BY <1>0, <2>1 DEF Live, IdOk
    <2>3. IdOk(r)'
      BY <1>0, <2>1, <2>2 DEF IdOk
    <2> QED
      BY <1>3, <2>1, <2>3 DEF Restarts
  <1>4. CASE GetTradeModel(r)
    <2>1. PICK d \in calls :
            /\ d.from = r /\ store[r] # 0
            /\ calls' = (calls \ {d}) \cup {[d EXCEPT !.model = store[r]]}
            /\ UNCHANGED <<server, client>>
      BY <1>4 DEF GetTradeModel
    <2>2. d = [from |-> d.from, rpc |-> d.rpc, arg |-> d.arg, id |-> d.id, model |-> d.model]
      BY DEF TypeInv, CallsInv, CallOk
    <2>3. PICK c : c = [d EXCEPT !.model = store[r]]
      OBVIOUS
    <2>4. c.from = r /\ c.rpc = d.rpc /\ c.id = d.id /\ c.model = store[r]
      BY <2>1, <2>2, <2>3
    <2>5. UNCHANGED <<step, waiting, stopped, repeats, kept, told, store>>
      BY <2>1 DEF server, client
    <2>6. \A x : Awaited(r, x)' <=> Awaited(r, x)
      BY <2>5 DEF Awaited, Busy
    <2>7. calls' = (calls \ {d}) \cup {c}
      BY <2>1, <2>3
    <2>8. \A x \in Live(r)' : (x \in Live(r) /\ x # d) \/ (x = c /\ d \in Live(r))
      BY <2>1, <2>4, <2>5, <2>7 DEF Live
    <2>9. \A x \in Live(r)' : Awaited(r, x)'
      <3>1. d \in Live(r) => Awaited(r, c)
        BY <2>4 DEF IdOk, Awaited
      <3> QED
        BY <2>6, <2>8, <3>1 DEF IdOk
    <2>10. \A x, y \in Live(r)' : x = y
      BY <2>8 DEF IdOk
    <2>11. IdOk(r)'
      BY <2>1, <2>4, <2>5, <2>7, <2>9, <2>10 DEF IdOk
    <2>12. Current(r)' \subseteq Current(r)
      BY <2>1, <2>4, <2>5, <2>8 DEF Current
    <2> QED
      BY <2>5, <2>11, <2>12 DEF Stays
  <1>5. CASE Crash(r)
    <2>1. /\ \A c \in calls' : c.from # r
          /\ UNCHANGED <<step, kept, told>> /\ store'[r] = 0
      BY <1>0, <1>5 DEF Crash
    <2>2. Live(r)' = {}
      BY <2>1 DEF Live
    <2>3. IdOk(r)' /\ Current(r)' = {}
      BY <2>1, <2>2 DEF IdOk, Current
    <2> QED
      BY <2>1, <2>3 DEF Stays
  <1>6. CASE AnswerSteps(r)
    <2>1. PICK call \in calls : \E reply :
            /\ call.from = r /\ Answer(r, call, reply)
            /\ store' = store \/ InitTrade(r)
            /\ reply = <<>> \/ Runs(r, call.rpc)
      BY <1>6, AnswersOne
    <2>2. PICK reply : /\ Answer(r, call, reply) /\ (store' = store \/ InitTrade(r))
                       /\ reply = <<>> \/ Runs(r, call.rpc)
      BY <2>1
    <2>3. /\ IdOk(r)' /\ Live(r)' \subseteq Live(r)
          /\ \/ step'[r] = step[r] /\ kept'[r] = kept[r] /\ told' = told
             \/ reply # <<>> /\ Heard(r, call, reply[1])
      BY <2>1, <2>2, AnswerIds
    <2>4. CASE store' = store
      <3>1. Current(r)' \subseteq Current(r)
        BY <2>3, <2>4 DEF Current
      <3> QED
        BY <1>6, <2>1, <2>2, <2>3, <2>4, <3>1 DEF Stays
    <2>5. CASE InitTrade(r)
      <3>1. PICK g \in Nat, m \in ModelT :
              /\ g = Len(models[r]) + 1 /\ m = NewModel(r, g)
              /\ models'[r][g] = m
              /\ store' = [store EXCEPT ![r] = g]
        BY <2>5, InitTradeEffect DEF Adds
      <3>2. store'[r] = g
        BY <1>0, <3>1
      <3>3. Current(r)' \subseteq Current(r) \cup {store'[r]}
        BY <2>3 DEF Current
      <3> QED
        BY <1>6, <2>1, <2>2, <2>3, <3>1, <3>2, <3>3 DEF Stays
    <2> QED
      BY <2>2, <2>4, <2>5
  <1> QED
    BY <1>1, <1>2, <1>3, <1>4, <1>5, <1>6 DEF Steps, AnswerSteps

\* Every step preserves what is known of the awaited calls.
LEMMA IdStep == TypeInv /\ IdInv /\ [Next]_vars => IdInv'
  <1> SUFFICES ASSUME TypeInv, IdInv, [Next]_vars, NEW q \in Trader PROVE IdOk(q)'
    BY DEF IdInv
  <1>1. ASSUME NEW r \in Trader, Steps(r) PROVE IdOk(q)'
    BY <1>1, OwnStep, OthersUntouched, UntouchedKeeps DEF IdInv
  <1>2. CASE UNCHANGED vars
    BY <1>2, UntouchedKeeps DEF IdInv, Untouched, vars, server, client
  <1> QED
    BY <1>1, <1>2, NextIsSteps

-----------------------------------------------------------------------------
(* Nonces on offer.  A model that holds nonces which the peer knows, or has *)
(* signed with them, holds and has signed with no others that he knows.     *)

\* r's g-th model holds the nonces of the n-th draw or has signed with them.
Drawn(r, g, n) ==
    \/ models[r][g].pub_nonce = NoncesOf(r, n)
    \/ \E s \in signed : Made(s, r, g, n)
Offered(r, g, n) == Drawn(r, g, n) /\ Says(r, n)

OneOffered(r) ==
    \A g \in 1 .. Len(models[r]) : \A n, k \in Nat : Offered(r, g, n) /\ Offered(r, g, k) => n = k

\* While a client waits for nonces, no model that may give them has offered any.
Fresh(r) ==
    step[r] = 2 => \A g \in Current(r) : \A n \in Nat : ~Offered(r, g, n)

\* While it waits for signatures, the model of the store has offered nonces only
\* if no other model may sign.
OnlyStored(r) ==
    step[r] = 3 => \A n \in Nat : store[r] # 0 /\ Offered(r, store[r], n)
                                  => Current(r) \subseteq {store[r]}

OfferInv == \A r \in Trader : OneOffered(r) /\ Fresh(r) /\ OnlyStored(r)

\* A signature on the swap is some draw's that was made.
LEMMA MadeIsDrawn ==
    ASSUME TypeInv, MadeInv, NEW s \in signed, NEW r \in Trader, NEW g, NEW n, Made(s, r, g, n)
    PROVE  g \in 1 .. Len(models[r]) /\ n \in 1 .. draws[r]
  <1>1. PICK p \in Trader : \E f \in 1 .. Len(models[p]), i \in 1 .. draws[p] : Made(s, p, f, i)
    BY DEF MadeInv, Made
  <1> QED
    BY <1>1, MadeOnce

\* get_nonce_shares changes the nonces of the model of the call only.
GetsNonces(r, g, n) ==
    /\ HandleGetNonceShares(r) /\ n = draws[r] + 1
    /\ \/ told' = told /\ step'[r] = step[r]
       \/ /\ step[r] = 2 /\ step'[r] = 3 /\ g \in Current(r)
          /\ Tells(r, "nonces", NoncesOf(r, n))
          /\ Current(r)' = {store'[r]} \ {0}

\* Which draws a model holds or has used after a step: those before, none, or
\* the new one.
LEMMA DrawnStep ==
    ASSUME TypeInv, TypeInv', NonceInv, SigsInv, IdInv, [Next]_vars,
           NEW q \in Trader, NEW g \in 1 .. Len(models'[q]), NEW n \in Nat, n # 0,
           Drawn(q, g, n)'
    PROVE  \/ g \in 1 .. Len(models[q]) /\ Drawn(q, g, n)
           \/ GetsNonces(q, g, n)
  <1>1. ASSUME signed' = signed, g \in 1 .. Len(models[q]),
               models'[q][g].pub_nonce = models[q][g].pub_nonce
        PROVE  g \in 1 .. Len(models[q]) /\ Drawn(q, g, n)
    BY <1>1 DEF Drawn
  <1>2. CASE Plain
    BY <1>1, <1>2 DEF Plain, history
  <1>3. CASE UNCHANGED vars
    BY <1>2, <1>3 DEF Plain, vars, server, client
  <1>4. ASSUME NEW r \in Trader, NEW rpc, NEW call \in Held(r, rpc), NEW out,
               Handle(r, call, out), out.model \in ModelT, signed' = signed,
               out.model.pub_nonce = models[r][call.model].pub_nonce
        PROVE  g \in 1 .. Len(models[q]) /\ Drawn(q, g, n)
    <2>1. /\ \A p \in Trader : Len(models'[p]) = Len(models[p])
          /\ models'[r][call.model] = out.model
          /\ \A p \in Trader : \A f \in 1 .. Len(models[p]) :
               p # r \/ f # call.model => models'[p][f] = models[p][f]
      BY <1>4, Handled
    <2>2. models'[q][g].pub_nonce = models[q][g].pub_nonce
      BY <1>4, <2>1
    <2> QED
      BY <1>1, <1>4, <2>1, <2>2
  <1>5. ASSUME NEW r \in Trader, InitTrade(r)
        PROVE  g \in 1 .. Len(models[q]) /\ Drawn(q, g, n)
    <2>0. PICK f \in Nat, m \in ModelT : Adds(r, f, m)
      BY <1>5, InitTradeEffect
    <2>1. /\ f = Len(models[r]) + 1 /\ m = NewModel(r, f)
          /\ Len(models'[r]) = f /\ models'[r][f] = m
          /\ \A p \in Trader : \A h \in 1 .. Len(models[p]) : models'[p][h] = models[p][h]
          /\ \A p \in Trader \ {r} : models'[p] = models[p]
          /\ UNCHANGED <<draws, history>>
      BY <2>0 DEF Adds
    <2>2. signed' = signed
      BY <2>1 DEF history
    <2>3. CASE q # r \/ g # f
      <3>1. g \in 1 .. Len(models[q])
        BY <2>1, <2>3, ModelsTypes DEF TypeInv, ModelsInv
      <3> QED
        BY <1>1, <2>1, <2>2, <3>1
    <2>4. CASE q = r /\ g = f
      <3>1. models'[q][g].pub_nonce = NoncesOf(q, 0)
        BY <2>1, <2>4, NewModelType
      <3>2. PICK s \in signed : Made(s, q, g, n)
        BY <2>2, <3>1, NoncesDiffer DEF Drawn
      <3>3. g \in 1 .. Len(models[q])
        BY <3>2, MadeIsDrawn DEF SigsInv
      <3> QED
        BY <2>1, <2>4, <3>3, ModelsTypes DEF TypeInv, ModelsInv
    <2> QED
      BY <2>3, <2>4
  <1>6. ASSUME NEW r \in Trader, HandleGetPartialSignatures(r)
        PROVE  g \in 1 .. Len(models[q]) /\ Drawn(q, g, n)
    <2>1. PICK call, m, nonces, out :
            /\ call \in Held(r, "get_partial_signatures") /\ m \in ModelT
            /\ nonces \in [Ctx -> NonceT]
            /\ m = models[r][call.model] /\ nonces = call.arg
            /\ Handle(r, call, out) /\ SignedPartially(r, m, nonces, out)
            /\ signed' = IF out.reply = <<>> THEN signed
                         ELSE signed \cup { out.model.my_sig[c][1] : c \in Ctx }
      BY <1>6, GetPartialSignaturesStep
    <2>2. out.model \in ModelT /\ out.model.pub_nonce = m.pub_nonce
      BY <2>1 DEF SignedPartially, SameKeys
    <2>3. CASE out.reply = <<>>
      BY <1>4, <2>1, <2>2, <2>3
    <2>4. CASE out.reply # <<>>
      <3>1. PICK s, i, k :
              /\ s \in signed' /\ i \in Nat /\ k \in Nat
              /\ SignsSwap(r, call.model, m, i, k, s)
              /\ \A t \in signed' : t.ctx = Swap => t \in signed \/ t = s
        BY <2>1, <2>4, SwapIsSigned
      <3>2. /\ call.model \in 1 .. Len(models[r])
            /\ \A p \in Trader : Len(models'[p]) = Len(models[p])
            /\ models'[r][call.model] = out.model
            /\ \A p \in Trader : \A f \in 1 .. Len(models[p]) :
                 p # r \/ f # call.model => models'[p][f] = models[p][f]
        BY <2>1, <2>2, Handled
      <3>3. g \in 1 .. Len(models[q]) /\ models'[q][g].pub_nonce = models[q][g].pub_nonce
        BY <2>1, <2>2, <3>2
      <3>4. CASE models'[q][g].pub_nonce = NoncesOf(q, n)
        BY <3>3, <3>4 DEF Drawn
      <3>5. CASE \E t \in signed' : Made(t, q, g, n)
        <4>1. PICK t \in signed' : Made(t, q, g, n)
          BY <3>5
        <4>2. CASE t \in signed
          BY <3>3, <4>1, <4>2 DEF Drawn
        <4>3. CASE t = s
          <5>1. Made(s, r, call.model, i) /\ m.pub_nonce = NoncesOf(r, i)
            BY <3>1 DEF SignsSwap
          <5>2. q = r /\ g = call.model /\ n = i
            BY <4>1, <4>3, <5>1, MadeOnce
          <5> QED
            BY <2>1, <3>3, <5>1, <5>2 DEF Drawn
        <4> QED
          BY <3>1, <4>1, <4>2, <4>3 DEF Made
      <3> QED
        BY <3>4, <3>5 DEF Drawn
    <2> QED
      BY <2>3, <2>4
  <1>7. ASSUME NEW r \in Trader, HandleGetNonceShares(r)
        PROVE  \/ g \in 1 .. Len(models[q]) /\ Drawn(q, g, n)
               \/ GetsNonces(q, g, n)
    <2>1. PICK call, m, shares, h, i, out :
            /\ call \in Held(r, "get_nonce_shares") /\ m \in ModelT
            /\ i \in Nat \ {0} /\ i = draws[r] + 1
            /\ Handle(r, call, out) /\ GotNonces(r, m, shares, i, out)
            /\ UNCHANGED history
      BY <1>7, GetNonceSharesStep
    <2>2. /\ out.model \in ModelT /\ out.reply = <<NoncesOf(r, i)>>
          /\ out.model.pub_nonce = NoncesOf(r, i)
      BY <2>1 DEF GotNonces
    <2>3. /\ call \in calls /\ call.from = r /\ call.rpc = "get_nonce_shares"
          /\ call.model \in 1 .. Len(models[r])
          /\ \A p \in Trader : Len(models'[p]) = Len(models[p])
          /\ models'[r][call.model] = out.model
          /\ \A p \in Trader : \A f \in 1 .. Len(models[p]) :
               p # r \/ f # call.model => models'[p][f] = models[p][f]
      BY <2>1, <2>2, Handled
    <2>4. signed' = signed
      BY <2>1 DEF history
    <2>5. CASE q # r \/ g # call.model
      BY <1>1, <2>3, <2>4, <2>5
    <2>6. CASE q = r /\ g = call.model
      <3>1. CASE n = i
        <4>1. Answer(r, call, <<NoncesOf(r, i)>>)
          BY <2>1, <2>2 DEF Handle
        <4>2. Unheard \/ Heard(r, call, NoncesOf(r, i))
          BY <4>1, Answered
        <4>3. CASE Unheard
          BY <1>7, <2>1, <2>6, <3>1, <4>3 DEF GetsNonces, Unheard
        <4>4. CASE Heard(r, call, NoncesOf(r, i))
          <5>1. step[r] = 2 /\ step'[r] = 3
            BY <2>3, <4>4, HeardStep
          <5>2. Tells(r, "nonces", NoncesOf(r, i))
            BY <2>3, <4>4, HeardTells
          <5>3. IdOk(r)
            BY DEF IdInv
          <5>4. call.model # 0
            BY <2>3
          <5>5. Current(r)' = {store'[r]} \ {0} /\ call.model \in Current(r)
            BY <2>3, <4>1, <4>4, <5>3, <5>4, HeardClears
          <5> QED
            BY <1>7, <2>1, <2>6, <3>1, <5>1, <5>2, <5>5 DEF GetsNonces
        <4> QED
          BY <4>2, <4>3, <4>4
      <3>2. CASE n # i
        <4>1. models'[q][g].pub_nonce # NoncesOf(q, n)
          BY <2>1, <2>2, <2>3, <2>6, <3>2, NoncesDiffer
        <4>2. \E s \in signed : Made(s, q, g, n)
          BY <2>4, <4>1 DEF Drawn
        <4> QED
          BY <2>3, <2>6, <4>2 DEF Drawn
      <3> QED
        BY <3>1, <3>2
    <2> QED
      BY <2>5, <2>6
  <1>8. ASSUME NEW r \in Trader,
               \/ HandleSignDepositTx(r) \/ HandlePublishDepositTx(r)
               \/ HandleSignSwapTx(r) \/ HandleCloseTrade(r)
        PROVE  g \in 1 .. Len(models[q]) /\ Drawn(q, g, n)
    <2>1. CASE HandleSignDepositTx(r)
      <3>1. PICK call, m, sigs, out :
              /\ call \in Held(r, "sign_deposit_tx") /\ m = models[r][call.model]
              /\ Handle(r, call, out) /\ SignedDeposit(r, m, sigs, out)
              /\ UNCHANGED <<draws, history>>
        BY <2>1, SignDepositTxStep
      <3> QED
        BY <1>4, <3>1 DEF SignedDeposit, SameButSigs, SameKeys, history
    <2>2. CASE HandlePublishDepositTx(r)
      <3>1. PICK call, m, out :
              /\ call \in Held(r, "publish_deposit_tx")
              /\ m \in ModelT /\ m = models[r][call.model]
              /\ Handle(r, call, out) /\ out.model = m
              /\ UNCHANGED <<draws, history>>
        BY <2>2, PublishDepositTxStep
      <3> QED
        BY <1>4, <3>1 DEF history
    <2>3. CASE HandleSignSwapTx(r)
      <3>1. PICK call, m, sig, out :
              /\ call \in Held(r, "sign_swap_tx") /\ m = models[r][call.model]
              /\ Handle(r, call, out) /\ SignedSwap(m, sig, out)
              /\ UNCHANGED <<draws, signed, closed>>
        BY <2>3, SignSwapTxStep
      <3> QED
        BY <1>4, <3>1 DEF SignedSwap, SameButSigs, SameKeys
    <2>4. CASE HandleCloseTrade(r)
      <3>1. PICK call, m, request, out :
              /\ call \in Held(r, "close_trade") /\ m = models[r][call.model]
              /\ Handle(r, call, out) /\ Closing(r, m, request, out)
              /\ UNCHANGED <<draws, signed, finals>>
        BY <2>4, CloseTradeStep
      <3> QED
        BY <1>4, <3>1 DEF Closing, SameKeys
    <2> QED
      BY <1>8, <2>1, <2>2, <2>3, <2>4
  <1>9. ASSUME NEW r \in Trader, Steps(r)
        PROVE  \/ g \in 1 .. Len(models[q]) /\ Drawn(q, g, n)
               \/ GetsNonces(q, g, n)
    <2>1. CASE PlainSteps(r)
      BY <1>2, <2>1, PlainIsPlain
    <2> QED
      BY <1>5, <1>6, <1>7, <1>8, <1>9, <2>1 DEF Steps, PlainSteps
  <1> QED
    BY <1>3, <1>9, NextIsSteps

\* Only get_nonce_shares makes a client tell nonces, those it has just drawn.
LEMMA SaysStep ==
    ASSUME TypeInv, [Next]_vars, NEW q \in Trader, NEW n \in Nat, Says(q, n)', ~Says(q, n)
    PROVE  /\ HandleGetNonceShares(q) /\ n = draws[q] + 1 /\ step'[q] # step[q]
  <1>1. ~Silence
    BY DEF Silence, Says
  <1>2. ~Plain
    BY <1>1, NothingTold DEF Plain
  <1>3. ASSUME NEW r \in Trader, Steps(r)
        PROVE  /\ HandleGetNonceShares(q) /\ n = draws[q] + 1 /\ step'[q] # step[q]
    <2>1. AnswerSteps(r)
      BY <1>2, <1>3, PlainIsPlain DEF Steps, AnswerSteps, PlainSteps
    <2>2. PICK call, reply : /\ Answer(r, call, reply)
                             /\ reply = <<>> \/ Runs(r, call.rpc)
      BY <2>1, AnswersOne
    <2>3. Heard(r, call, reply[1]) /\ Runs(r, call.rpc)
      BY <1>1, <2>2, AnswerTells
    <2>4. call.rpc = "get_nonce_shares"
      <3>1. \A kind, x : kind # "nonces" => ~Tells(r, kind, x)
        BY DEF Tells, Says
      <3>2. \/ call.rpc = "init_trade" \/ call.rpc = "get_nonce_shares"
            \/ call.rpc = "get_partial_signatures" \/ call.rpc = "sign_deposit_tx"
            \/ call.rpc = "publish_deposit_tx" \/ call.rpc = "sign_swap_tx"
            \/ call.rpc = "close_trade"
        BY <2>3 DEF Runs
      <3> QED
        BY <1>1, <2>3, <3>1, <3>2, HeardTells
    <2>5. HandleGetNonceShares(r)
      BY <2>3, <2>4 DEF Runs
    <2>6. PICK held, m, shares, h, i, out :
            /\ held \in Held(r, "get_nonce_shares") /\ m \in ModelT
            /\ i \in Nat \ {0} /\ i = draws[r] + 1
            /\ Handle(r, held, out) /\ GotNonces(r, m, shares, i, out)
      BY <2>5, GetNonceSharesStep
    <2>7. Heard(r, held, NoncesOf(r, i)) /\ held.rpc = "get_nonce_shares"
      <3>1. Answer(r, held, <<NoncesOf(r, i)>>)
        BY <2>6 DEF GotNonces, Handle
      <3> QED
        BY <1>1, <2>6, <3>1, AnswerTells DEF Held
    <2>8. Tells(r, "nonces", NoncesOf(r, i))
      BY <2>7, HeardTells
    <2>9. q = r /\ NoncesOf(q, n) = NoncesOf(r, i)
      BY <2>8 DEF Tells, Says
    <2>10. n = i
      BY <2>6, <2>9, NoncesDiffer
    <2>11. step'[q] # step[q]
      BY <2>7, <2>9, HeardStep
    <2> QED
      BY <2>5, <2>6, <2>9, <2>10, <2>11
  <1>4. CASE UNCHANGED vars
    BY <1>2, <1>4 DEF Plain, vars, server, client
  <1> QED
    BY <1>3, <1>4, NextIsSteps

\* Which draws a model offers after a step: those before, or the new one.
LEMMA OfferedStep ==
    ASSUME TypeInv, TypeInv', NonceInv, SigsInv, SigsInv', IdInv, [Next]_vars,
           NEW q \in Trader, NEW g \in 1 .. Len(models'[q]), NEW n \in Nat, Offered(q, g, n)'
    PROVE  \/ g \in 1 .. Len(models[q]) /\ Offered(q, g, n)
           \/ GetsNonces(q, g, n) /\ step[q] = 2 /\ step'[q] = 3
  <1>1. Drawn(q, g, n)' /\ Says(q, n)'
    BY DEF Offered
  <1>2. n # 0
    <2>1. PICK k \in 1 .. draws'[q] : NoncesOf(q, n) = NoncesOf(q, k)
      BY <1>1 DEF Says, SigsInv, NoncesToldInv
    <2>2. k \in Nat /\ k # 0
      BY DEF TypeInv, ServerInv
    <2> QED
      BY <2>1, <2>2, NoncesDiffer
  <1>3. \/ g \in 1 .. Len(models[q]) /\ Drawn(q, g, n)
        \/ GetsNonces(q, g, n)
    BY <1>1, <1>2, DrawnStep
  <1>4. draws[q] \in Nat
    BY DEF TypeInv, ServerInv
  <1>5. CASE Says(q, n)
    <2>1. n \in 1 .. draws[q]
      BY <1>5, SaidIsDrawn DEF SigsInv
    <2>2. ~GetsNonces(q, g, n)
      BY <1>4, <2>1 DEF GetsNonces
    <2> QED
      BY <1>3, <1>5, <2>2 DEF Offered
  <1>6. CASE ~Says(q, n)
    <2>1. n = draws[q] + 1 /\ step'[q] # step[q]
      BY <1>1, <1>6, SaysStep
    <2>2. CASE GetsNonces(q, g, n)
      BY <2>1, <2>2 DEF GetsNonces
    <2>3. CASE g \in 1 .. Len(models[q]) /\ Drawn(q, g, n)
      <3>1. CASE models[q][g].pub_nonce = NoncesOf(q, n)
        <4>1. PICK k \in 0 .. draws[q] : Holds(q, k, models[q][g])
          BY <2>3 DEF NonceInv, DrawnInv
        <4>2. k \in Nat /\ NoncesOf(q, k) = NoncesOf(q, n)
          BY <1>4, <3>1, <4>1 DEF Holds
        <4>3. k = n
          BY <4>2, NoncesDiffer
        <4> QED
          BY <1>4, <2>1, <4>1, <4>3
      <3>2. CASE \E s \in signed : Made(s, q, g, n)
        <4>1. n \in 1 .. draws[q]
          BY <3>2, MadeIsDrawn DEF SigsInv
        <4> QED
          BY <1>4, <2>1, <4>1
      <3> QED
        BY <2>3, <3>1, <3>2 DEF Drawn
    <2> QED
      BY <1>3, <2>2, <2>3
  <1> QED
    BY <1>5, <1>6

\* r's client hears an answer of the RPC that its server runs.
Hears(r) ==
    \E call \in calls : \E reply :
        /\ call.from = r /\ Answer(r, call, reply) /\ reply # <<>>
        /\ Heard(r, call, reply[1]) /\ Runs(r, call.rpc)

\* What a step is for one of the traders.
LEMMA TraderStep ==
    ASSUME TypeInv, IdInv, [Next]_vars, NEW q \in Trader
    PROVE  Untouched(q) \/ Stays(q) \/ Restarts(q) \/ Hears(q)
  <1>1. ASSUME NEW r \in Trader, Steps(r)
        PROVE  Untouched(q) \/ Stays(q) \/ Restarts(q) \/ Hears(q)
    <2>1. CASE q # r
      BY <1>1, <2>1, OthersUntouched
    <2>2. CASE q = r
      BY <1>1, <2>2, OwnStep DEF IdInv, Hears
    <2> QED
      BY <2>1, <2>2
  <1>2. CASE UNCHANGED vars
    BY <1>2 DEF Untouched, vars, server, client
  <1> QED
    BY <1>1, <1>2, NextIsSteps

\* What hearing an answer leaves current.
LEMMA HearsClears ==
    ASSUME TypeInv, IdInv, NEW r \in Trader, Hears(r)
    PROVE  /\ Current(r)' = {store'[r]} \ {0} /\ step'[r] = step[r] + 1 /\ step[r] \in 1 .. 6
           /\ step[r] = 1 => store'[r] = Len(models[r]) + 1
  <1>1. PICK call \in calls : \E reply :
          /\ call.from = r /\ Answer(r, call, reply) /\ reply # <<>>
          /\ Heard(r, call, reply[1]) /\ Runs(r, call.rpc)
    BY DEF Hears
  <1>2. PICK reply : /\ Answer(r, call, reply) /\ Heard(r, call, reply[1])
                     /\ call.from = r /\ Runs(r, call.rpc)
    BY <1>1
  <1>3. Current(r)' = {store'[r]} \ {0}
    BY <1>2, HeardClears DEF IdInv
  <1>4. step'[r] = step[r] + 1 /\ step[r] \in 1 .. 6
    BY <1>2, HeardStep
  <1>5. ASSUME step[r] = 1 PROVE store'[r] = Len(models[r]) + 1
    <2>1. call.rpc = "init_trade"
      BY <1>2, <1>5, HeardStep
    <2>2. InitTrade(r)
      BY <1>2, <2>1 DEF Runs
    <2>3. PICK g \in Nat, m \in ModelT : g = Len(models[r]) + 1 /\ store' = [store EXCEPT ![r] = g]
      BY <2>2, InitTradeEffect DEF Adds
    <2>4. DOMAIN store = Trader
      BY DEF TypeInv, ServerInv
    <2> QED
      BY <2>3, <2>4
  <1> QED
    BY <1>3, <1>4, <1>5

\* The current models are models, after a step as well.
LEMMA CurrentModelsNext ==
    ASSUME TypeInv', NEW r \in Trader
    PROVE  Current(r)' \subseteq 1 .. Len(models'[r])
  <1>1. Len(models'[r]) \in Nat
    BY ModelsTypes DEF TypeInv, ModelsInv
  <1>2. \A c \in Live(r)' : c.model \in 0 .. Len(models'[r])
    BY DEF Live, TypeInv, CallsInv, CallOk
  <1>3. store'[r] \in 0 .. Len(models'[r])
    BY <1>1 DEF TypeInv, ServerInv
  <1> QED
    BY <1>1, <1>2, <1>3 DEF Current

\* Every step preserves what is known of the nonces on offer.
LEMMA OfferStep ==
    TypeInv /\ TypeInv' /\ NonceInv /\ SigsInv /\ SigsInv' /\ IdInv /\ OfferInv /\ [Next]_vars
    => OfferInv'
  <1> SUFFICES ASSUME TypeInv, TypeInv', NonceInv, SigsInv, SigsInv', IdInv, OfferInv,
                      [Next]_vars, NEW q \in Trader
               PROVE  OneOffered(q)' /\ Fresh(q)' /\ OnlyStored(q)'
    BY DEF OfferInv
  <1>0. Len(models[q]) \in Nat /\ Current(q)' \subseteq 1 .. Len(models'[q])
    BY ModelsTypes, CurrentModelsNext DEF TypeInv, ModelsInv
  <1>1. ASSUME NEW g \in 1 .. Len(models'[q]), NEW n \in Nat, Offered(q, g, n)'
        PROVE  \/ g \in 1 .. Len(models[q]) /\ Offered(q, g, n)
               \/ /\ step[q] = 2 /\ step'[q] = 3 /\ g \in Current(q) /\ n = draws[q] + 1
    BY <1>1, OfferedStep DEF GetsNonces
  <1>2. OneOffered(q)'
    <2> SUFFICES ASSUME NEW g \in 1 .. Len(models'[q]), NEW n \in Nat, NEW k \in Nat,
                        Offered(q, g, n)', Offered(q, g, k)'
                 PROVE  n = k
      BY DEF OneOffered
    <2>1. step[q] = 2 /\ g \in Current(q) => ~Offered(q, g, n) /\ ~Offered(q, g, k)
      BY DEF OfferInv, Fresh
    <2>2. CASE g \in 1 .. Len(models[q]) /\ Offered(q, g, n) /\ Offered(q, g, k)
      BY <2>2 DEF OfferInv, OneOffered
    <2> QED
      BY <1>1, <2>1, <2>2
  <1>3. Fresh(q)'
    <2> SUFFICES ASSUME step'[q] = 2, NEW g \in Current(q)', NEW n \in Nat, Offered(q, g, n)'
                 PROVE  FALSE
      BY DEF Fresh
    <2>1. g \in 1 .. Len(models[q]) /\ Offered(q, g, n)
      BY <1>0, <1>1
    <2>2. step[q] = 2 => g \notin Current(q)
      BY <2>1 DEF OfferInv, Fresh
    <2>3. CASE Untouched(q)
      BY <2>2, <2>3, UntouchedKeeps DEF Untouched
    <2>4. CASE Stays(q)
      BY <1>0, <2>1, <2>2, <2>4 DEF Stays
    <2>5. CASE Hears(q)
      <3>1. step[q] = 1 /\ g = Len(models[q]) + 1
        BY <2>5, HearsClears
      <3> QED
        BY <1>0, <2>1, <3>1
    <2> QED
      BY <2>3, <2>4, <2>5, TraderStep DEF Restarts
  <1>4. OnlyStored(q)'
    <2> SUFFICES ASSUME step'[q] = 3, NEW n \in Nat, store'[q] # 0, Offered(q, store[q], n)'
                 PROVE  Current(q)' \subseteq {store'[q]}
      BY DEF OnlyStored
    <2>1. store'[q] \in 1 .. Len(models'[q])
      <3>1. Len(models'[q]) \in Nat
        BY ModelsTypes DEF TypeInv, ModelsInv
      <3>2. store'[q] \in Nat /\ store'[q] <= Len(models'[q])
        BY DEF TypeInv, ServerInv
      <3>3. \A x, y \in Nat : x # 0 /\ x <= y => x \in 1 .. y
        OBVIOUS
      <3> QED
        BY <3>1, <3>2, <3>3
    <2>2. step[q] = 3 => store'[q] \in 1 .. Len(models[q]) /\ Offered(q, store'[q], n)
      <3>1. PICK g \in 1 .. Len(models'[q]) : g = store'[q]
        BY <2>1
      <3>2. Offered(q, g, n)'
        <4>1. Drawn(q, store[q], n)' /\ Says(q, n)'
          BY DEF Offered
        <4>2. Drawn(q, g, n)'
          BY <3>1, <4>1 DEF Drawn
        <4> QED
          BY <4>1, <4>2 DEF Offered
      <3> QED
        BY <1>1, <3>1, <3>2
    <2>3. step[q] = 3 /\ store'[q] = store[q] => Current(q) \subseteq {store'[q]}
      BY <2>2 DEF OfferInv, OnlyStored
    <2>4. CASE Untouched(q)
      BY <2>3, <2>4, UntouchedKeeps DEF Untouched
    <2>5. CASE Stays(q)
      BY <1>0, <2>2, <2>3, <2>5 DEF Stays
    <2>6. CASE Hears(q)
      BY <2>6, HearsClears
    <2> QED
      BY <2>4, <2>5, <2>6, TraderStep DEF Restarts
  <1> QED
    BY <1>2, <1>3, <1>4

-----------------------------------------------------------------------------
(* The two signatures that a complete signature of the swap is made of: the *)
(* buyer's model g and the seller's model h signed for each other, with     *)
(* nonces that both have told.                                              *)

\* r's g-th model made s with nonces that the peer knows.
MadeTold(s, r, g) == \E n \in Nat : Made(s, r, g, n) /\ Says(r, n)

\* s is the buyer's and p the seller's signature on the same.
Pair(s, p, g, h) ==
    /\ s \in signed /\ p \in signed
    /\ s.key = TradeKey("seller_output", g, h) /\ p.key = s.key /\ p.adaptor = s.adaptor
    /\ MadeTold(s, "Buyer", g) /\ MadeTold(p, "Seller", h)

\* What the two are completed to.
Final(s) == [ctx |-> s.ctx, key |-> s.key, nonces |-> s.agg_nonce, adaptor |-> s.adaptor]

\* Model m holds r's signature s and the peer's p, from which it completes the
\* swap.
Completes(r, g, h, m, s, p) ==
    /\ m.my_sig[Swap] = <<s>> /\ m.peers_sig[Swap] = <<p>>
    /\ s \in signed /\ p \in signed
    /\ m.agg["seller_output"] = TradeKey("seller_output", IF r = "Buyer" THEN g ELSE h,
                                                          IF r = "Buyer" THEN h ELSE g)
    /\ \A x \in {s, p} : /\ x.ctx = Swap /\ x.key = m.agg["seller_output"]
                         /\ x.agg_nonce = m.agg_nonce[Swap] /\ x.adaptor = m.adaptor_point
    /\ MadeTold(s, r, g) /\ MadeTold(p, Peer(r), h)

\* A model can complete the swap only from signatures by itself and by the
\* peer's model whose keys it has.
LEMMA CompletedFrom ==
    ASSUME TypeInv, MadeInv, NEW r \in Trader, NEW g, NEW h \in Nat, NEW m \in ModelT,
           Keyed(r, g, h, m), OwnSig(r, g, m), PeersSig(m),
           CanAggregate(m, Swap, "seller_output")
    PROVE  h # 0 /\ \E s, p : Completes(r, g, h, m, s, p)
  <1>0. Swap \in Ctx /\ Peer(r) \in Trader /\ Peer(r) # r /\ Peer(Peer(r)) = r
        /\ \A q \in Trader : draws[q] \in Nat
    BY Contexts, Peers DEF Swap, TypeInv, ServerInv
  <1>1. /\ m.agg["seller_output"] # <<>> /\ m.my_sig[Swap] # <<>> /\ m.peers_sig[Swap] # <<>>
        /\ LET sigs == {m.my_sig[Swap][1], m.peers_sig[Swap][1]}
           IN  /\ { x.signer : x \in sigs } = { m.agg["seller_output"][i] : i \in 1 .. 2 }
               /\ \A x \in sigs : /\ x.ctx = Swap /\ x.key = m.agg["seller_output"]
                                  /\ x.agg_nonce = m.agg_nonce[Swap]
                                  /\ x.adaptor = AdaptorOf(m, Swap)
    BY DEF CanAggregate
  <1>2. AdaptorOf(m, Swap) = m.adaptor_point
    BY DEF AdaptorOf, Swap
  <1>3. PICK s : m.my_sig[Swap] = <<s>>
    BY <1>0, <1>1 DEF ModelT, Opt
  <1>4. PICK p : m.peers_sig[Swap] = <<p>>
    BY <1>0, <1>1 DEF ModelT, Opt
  <1>5. /\ { x.signer : x \in {s, p} } = { m.agg["seller_output"][i] : i \in 1 .. 2 }
        /\ \A x \in {s, p} : /\ x.ctx = Swap /\ x.key = m.agg["seller_output"]
                             /\ x.agg_nonce = m.agg_nonce[Swap] /\ x.adaptor = m.adaptor_point
    BY <1>1, <1>2, <1>3, <1>4
  <1>6. PICK n \in Nat : s \in signed /\ Made(s, r, g, n)
    BY <1>3 DEF OwnSig
  <1>7. p \in signed
    BY <1>4 DEF PeersSig
  <1>8. PICK a, b : a = Point("seller_output", r, g) /\ b = Point("seller_output", Peer(r), h)
    OBVIOUS
  <1>9. h # 0 /\ m.agg["seller_output"] = IF r = "Buyer" THEN <<a, b>> ELSE <<b, a>>
    BY <1>1, <1>8 DEF Keyed, KeyShares, Output
  <1>10. p.signer = b
    <2>1. s.signer = a
      BY <1>6, <1>8 DEF Made
    <2>2. a # b
      BY <1>0, <1>8 DEF Point
    <2>3. { m.agg["seller_output"][i] : i \in 1 .. 2 } = {a, b}
      <3>1. \A x : x \in { m.agg["seller_output"][i] : i \in 1 .. 2 }
                   <=> x = m.agg["seller_output"][1] \/ x = m.agg["seller_output"][2]
        OBVIOUS
      <3>2. CASE r = "Buyer"
        BY <1>9, <3>1, <3>2
      <3>3. CASE r # "Buyer"
        BY <1>9, <3>1, <3>3
      <3> QED
        BY <3>2, <3>3
    <2> QED
      BY <1>5, <2>1, <2>2, <2>3
  <1>11. m.agg["seller_output"] = TradeKey("seller_output", IF r = "Buyer" THEN g ELSE h,
                                                            IF r = "Buyer" THEN h ELSE g)
    BY <1>8, <1>9, Peers DEF TradeKey, Trader
  <1>12. PICK i \in Nat, j \in Nat :
            /\ Made(p, Peer(r), h, i) /\ MadeFor(p, Peer(r), j) /\ Says(r, j)
    <2>1. PICK q \in Trader : \E f \in 1 .. Len(models[q]), i \in 1 .. draws[q] :
             Made(p, q, f, i) /\ \E j \in Nat : MadeFor(p, q, j) /\ Says(Peer(q), j)
      BY <1>5, <1>7 DEF MadeInv
    <2>2. PICK f \in 1 .. Len(models[q]), i \in 1 .. draws[q] :
             Made(p, q, f, i) /\ \E j \in Nat : MadeFor(p, q, j) /\ Says(Peer(q), j)
      BY <2>1
    <2>3. q = Peer(r) /\ f = h
      <3>1. Made(p, q, f, i) /\ p.signer = Point("seller_output", Peer(r), h)
        BY <1>8, <1>10, <2>2
      <3> QED
        BY <3>1, MadeOnce
    <2>4. i \in Nat
      BY <1>0
    <2> QED
      BY <1>0, <2>2, <2>3, <2>4
  <1>13. PICK k \in Nat : MadeFor(s, r, k) /\ Says(Peer(r), k)
    <2>1. PICK q \in Trader : \E f \in 1 .. Len(models[q]), l \in 1 .. draws[q] :
             Made(s, q, f, l) /\ \E k \in Nat : MadeFor(s, q, k) /\ Says(Peer(q), k)
      BY <1>5, <1>6 DEF MadeInv
    <2>2. q = r
      BY <1>6, <2>1, MadeOnce
    <2> QED
      BY <2>1, <2>2
  <1>14. n = j /\ i = k
    <2>1. /\ s.agg_nonce = {Nonce(Swap, r, n), Nonce(Swap, Peer(r), k)}
          /\ p.agg_nonce = {Nonce(Swap, Peer(r), i), Nonce(Swap, r, j)}
      BY <1>0, <1>6, <1>12, <1>13 DEF Made, MadeFor
    <2>2. s.agg_nonce = p.agg_nonce
      BY <1>5
    <2>3. \A x, y : /\ Nonce(Swap, r, x) = Nonce(Swap, r, y) => x = y
                    /\ Nonce(Swap, Peer(r), x) = Nonce(Swap, Peer(r), y) => x = y
                    /\ Nonce(Swap, r, x) # Nonce(Swap, Peer(r), y)
      BY <1>0 DEF Nonce
    <2>4. /\ Nonce(Swap, r, n) \in {Nonce(Swap, Peer(r), i), Nonce(Swap, r, j)}
          /\ Nonce(Swap, Peer(r), i) \in {Nonce(Swap, r, n), Nonce(Swap, Peer(r), k)}
      BY <2>1, <2>2
    <2> QED
      BY <2>3, <2>4
  <1>15. MadeTold(s, r, g) /\ MadeTold(p, Peer(r), h)
    BY <1>6, <1>12, <1>13, <1>14 DEF MadeTold
  <1> QED
    BY <1>3, <1>4, <1>5, <1>6, <1>7, <1>9, <1>11, <1>15 DEF Completes

\* The model x has completed the swap, as the buyer's g-th.
CompletesSwap(g, x) ==
    \E s, p, h : Pair(s, p, g, h) /\ x.my_sig[Swap] = <<s>> /\ x.agg_sig[Swap] = <<Final(s)>>

\* sign_deposit_tx left x where the model of the call was.
Deposits(r, call, reply, x) ==
    /\ call \in calls /\ call.from = r /\ call.model \in 1 .. Len(models[r])
    /\ Answer(r, call, reply) /\ UNCHANGED <<draws, history>> /\ Silence
    /\ models'[r][call.model] = x
    /\ \A q \in Trader : Len(models'[q]) = Len(models[q])
    /\ \A q \in Trader : \A f \in 1 .. Len(models[q]) :
         q # r \/ f # call.model => models'[q][f] = models[q][f]
    /\ \/ x.agg_sig[Swap] = models[r][call.model].agg_sig[Swap]
       \/ r = "Buyer" /\ CompletesSwap(call.model, x)
    /\ reply # <<>> /\ r = "Buyer" => CompletesSwap(call.model, x)

\* The buyer's sign_deposit_tx completes the swap with a pair of signatures, or
\* leaves what he has of it.
LEMMA DepositSigned ==
    ASSUME TypeInv, SigsInv, SigsInv', NEW r \in Trader, HandleSignDepositTx(r)
    PROVE  \E call, reply, x : Deposits(r, call, reply, x)
  <1>1. PICK call, m, sigs, out :
          /\ call \in Held(r, "sign_deposit_tx") /\ m \in ModelT
          /\ m = models[r][call.model]
          /\ Handle(r, call, out) /\ SignedDeposit(r, m, sigs, out)
          /\ UNCHANGED <<draws, history>>
    BY SignDepositTxStep
  <1>2. PICK x \in ModelT : x = out.model
    BY <1>1 DEF SignedDeposit
  <1>3. /\ SameButSigs(m, x)
        /\ x.agg_sig[Swap] = m.agg_sig[Swap] \/
             /\ CanAggregate(x, Swap, "seller_output")
             /\ x.agg_sig[Swap] = <<AggSig(x, Swap, "seller_output")>>
        /\ out.reply # <<>> /\ r = "Buyer" =>
             /\ CanAggregate(x, Swap, "seller_output")
             /\ x.agg_sig[Swap] = <<AggSig(x, Swap, "seller_output")>>
        /\ r = "Seller" => x.agg_sig[Swap] = m.agg_sig[Swap]
    <2>1. Swap \in Ctx /\ KeyCtx(Swap) = "seller_output" /\ Swap = "swap_tx_input"
      BY Contexts DEF Swap, KeyCtx, BuyerKeyCtx
    <2> QED
      BY <1>1, <1>2, <2>1 DEF SignedDeposit
  <1>4. /\ call \in calls /\ call.from = r /\ call.rpc = "sign_deposit_tx"
        /\ call.model \in 1 .. Len(models[r])
        /\ \A q \in Trader : Len(models'[q]) = Len(models[q])
        /\ models'[r][call.model] = x
        /\ \A q \in Trader : \A f \in 1 .. Len(models[q]) :
             q # r \/ f # call.model => models'[q][f] = models[q][f]
    BY <1>1, <1>2, Handled
  <1>5. PICK g : g = call.model
    OBVIOUS
  <1>6. PICK h \in Nat : Keyed(r, g, h, x)
    <2>1. PICK h \in 0 .. Len(models[Peer(r)]) : Keyed(r, g, h, m)
      BY <1>1, <1>5, HeldModel
    <2>2. Keyed(r, g, h, x)
      BY <1>1, <1>3, <2>1, KeyedStays DEF SameButSigs
    <2>3. h \in Nat
      BY ModelsTypes, Peers DEF TypeInv, ModelsInv
    <2> QED
      BY <2>2, <2>3
  <1>7. OwnSig(r, g, x) /\ PeersSig(x)
    <2>1. OwnSig(r, g, m)
      BY <1>1, <1>4, <1>5 DEF SigsInv, HeldInv
    <2>2. x.my_sig = m.my_sig
      BY <1>3 DEF SameButSigs
    <2>3. OwnSig(r, g, x)
      BY <2>1, <2>2 DEF OwnSig
    <2>4. PeersSig(models[r][g])'
      BY <1>4, <1>5 DEF SigsInv, HeldInv
    <2>5. signed' = signed
      BY <1>1 DEF history
    <2>6. PeersSig(x)
      BY <1>4, <1>5, <2>4, <2>5 DEF PeersSig
    <2> QED
      BY <2>3, <2>6
  <1>8. ASSUME r = "Buyer", CanAggregate(x, Swap, "seller_output"),
               x.agg_sig[Swap] = <<AggSig(x, Swap, "seller_output")>>
        PROVE  CompletesSwap(g, x)
    <2>1. PICK s, p : Completes(r, g, h, x, s, p)
      BY <1>6, <1>7, <1>8, CompletedFrom DEF SigsInv
    <2>2. /\ x.my_sig[Swap] = <<s>> /\ s \in signed /\ p \in signed
          /\ x.agg["seller_output"] = TradeKey("seller_output", g, h)
          /\ s.ctx = Swap /\ s.key = x.agg["seller_output"]
          /\ s.agg_nonce = x.agg_nonce[Swap] /\ s.adaptor = x.adaptor_point
          /\ p.key = x.agg["seller_output"] /\ p.adaptor = x.adaptor_point
          /\ MadeTold(s, "Buyer", g) /\ MadeTold(p, "Seller", h)
      BY <1>8, <2>1, Peers DEF Completes
    <2>3. Pair(s, p, g, h)
      BY <2>2 DEF Pair
    <2>4. AggSig(x, Swap, "seller_output") = Final(s)
      BY <2>2 DEF AggSig, Final, AdaptorOf, Swap
    <2> QED
      BY <1>8, <2>2, <2>3, <2>4 DEF CompletesSwap
  <1>9. Answer(r, call, out.reply)
    BY <1>1 DEF Handle
  <1>10. Silence
    <2>1. (Silence /\ Unheard) \/ Heard(r, call, out.reply[1])
      BY <1>9, AnswerTells
    <2> QED
      BY <1>4, <2>1, HeardTells
  <1>11. \/ x.agg_sig[Swap] = models[r][call.model].agg_sig[Swap]
         \/ r = "Buyer" /\ CompletesSwap(call.model, x)
    BY <1>1, <1>3, <1>5, <1>8 DEF Trader
  <1>12. out.reply # <<>> /\ r = "Buyer" => CompletesSwap(call.model, x)
    BY <1>3, <1>5, <1>8
  <1>13. Deposits(r, call, out.reply, x)
    BY <1>1, <1>4, <1>9, <1>10, <1>11, <1>12 DEF Deposits
  <1> QED
    BY <1>13

\* A model that signed with nonces which the peer knows did so once.
LEMMA MadeToldOnce ==
    ASSUME TypeInv, MadeInv, NonceNotReused, NEW r \in Trader, OneOffered(r),
           NEW s \in signed, NEW t \in signed, NEW g, MadeTold(s, r, g), MadeTold(t, r, g)
    PROVE  s = t
  <1>1. PICK n \in Nat : Made(s, r, g, n) /\ Says(r, n)
    BY DEF MadeTold
  <1>2. PICK k \in Nat : Made(t, r, g, k) /\ Says(r, k)
    BY DEF MadeTold
  <1>3. g \in 1 .. Len(models[r])
    BY <1>1, MadeIsDrawn
  <1>4. Offered(r, g, n) /\ Offered(r, g, k)
    BY <1>1, <1>2 DEF Offered, Drawn
  <1>5. n = k
    BY <1>3, <1>4 DEF OneOffered
  <1>6. s.nonce = t.nonce
    BY <1>1, <1>2, <1>5 DEF Made
  <1> QED
    BY <1>6 DEF NonceNotReused

\* What pairs stays a pair.
LEMMA PairStays ==
    ASSUME Later, NEW s, NEW p, NEW g, NEW h, Pair(s, p, g, h)
    PROVE  Pair(s, p, g, h)'
  <1>1. \A t, r, f : MadeTold(t, r, f) => MadeTold(t, r, f)'
    BY DEF Later, MadeTold, Says
  <1> QED
    BY <1>1 DEF Later, Pair

\* What the buyer's g-th model has of the swap.
BuyersSwap(g) == models["Buyer"][g].agg_sig[Swap]

\* What a step leaves the buyer's models of the swap: what they had, nothing, or
\* what a pair of signatures makes.
LEMMA SwapStep ==
    ASSUME TypeInv, SigsInv, SigsInv', [Next]_vars, NEW g \in 1 .. Len(models'["Buyer"])
    PROVE  \/ g \in 1 .. Len(models["Buyer"]) /\ BuyersSwap(g)' = BuyersSwap(g)
           \/ g \notin 1 .. Len(models["Buyer"]) /\ BuyersSwap(g)' = <<>>
           \/ /\ g \in 1 .. Len(models["Buyer"]) /\ Silence /\ signed' = signed
              /\ \E s, p, h : Pair(s, p, g, h) /\ BuyersSwap(g)' = <<Final(s)>>
  <1> DEFINE same == g \in 1 .. Len(models["Buyer"]) /\ BuyersSwap(g)' = BuyersSwap(g)
  <1>0. "Buyer" \in Trader /\ Swap \in Ctx
    BY Contexts DEF Trader, Swap
  <1>1. ASSUME models' = models PROVE same
    BY <1>1 DEF BuyersSwap
  <1>2. CASE Plain \/ UNCHANGED vars
    BY <1>1, <1>2 DEF Plain, vars, server
  <1>3. ASSUME NEW r \in Trader, NEW rpc, NEW call \in Held(r, rpc), NEW out,
               Handle(r, call, out), out.model \in ModelT,
               out.model.agg_sig = models[r][call.model].agg_sig
        PROVE  same
    <2>1. /\ \A p \in Trader : Len(models'[p]) = Len(models[p])
          /\ models'[r][call.model] = out.model
          /\ \A p \in Trader : \A f \in 1 .. Len(models[p]) :
               p # r \/ f # call.model => models'[p][f] = models[p][f]
      BY <1>3, Handled
    <2>2. models'["Buyer"][g].agg_sig = models["Buyer"][g].agg_sig
      BY <1>0, <1>3, <2>1
    <2> QED
      BY <1>0, <2>1, <2>2 DEF BuyersSwap
  <1>4. ASSUME NEW r \in Trader, InitTrade(r)
        PROVE  same \/ (g \notin 1 .. Len(models["Buyer"]) /\ BuyersSwap(g)' = <<>>)
    <2>0. PICK f \in Nat, m \in ModelT : Adds(r, f, m)
      BY <1>4, InitTradeEffect
    <2>1. /\ f = Len(models[r]) + 1 /\ m = NewModel(r, f)
          /\ Len(models'[r]) = f /\ models'[r][f] = m
          /\ \A p \in Trader : \A h \in 1 .. Len(models[p]) : models'[p][h] = models[p][h]
          /\ \A p \in Trader \ {r} : models'[p] = models[p]
      BY <2>0 DEF Adds
    <2>2. CASE g \in 1 .. Len(models["Buyer"])
      BY <1>0, <2>1, <2>2 DEF BuyersSwap
    <2>3. CASE g \notin 1 .. Len(models["Buyer"])
      <3>1. r = "Buyer" /\ g = f
        BY <1>0, <2>1, <2>3, ModelsTypes DEF TypeInv, ModelsInv
      <3>2. m.agg_sig[Swap] = <<>>
        BY <1>0, <2>1 DEF NewModel
      <3> QED
        BY <2>1, <2>3, <3>1, <3>2 DEF BuyersSwap
    <2> QED
      BY <2>2, <2>3
  <1>5. ASSUME NEW r \in Trader, HandleSignDepositTx(r)
        PROVE  \/ same
               \/ /\ g \in 1 .. Len(models["Buyer"]) /\ Silence /\ signed' = signed
                  /\ \E s, p, h : Pair(s, p, g, h) /\ BuyersSwap(g)' = <<Final(s)>>
    <2>1. PICK call, reply, x : Deposits(r, call, reply, x)
      BY <1>5, DepositSigned
    <2>2. g \in 1 .. Len(models["Buyer"]) /\ Silence /\ signed' = signed
      BY <1>0, <2>1 DEF Deposits, history
    <2>3. CASE r # "Buyer" \/ g # call.model
      <3>1. models'["Buyer"][g] = models["Buyer"][g]
        BY <1>0, <2>1, <2>2, <2>3 DEF Deposits
      <3> QED
        BY <2>2, <3>1 DEF BuyersSwap
    <2>4. CASE r = "Buyer" /\ g = call.model
      <3>1. BuyersSwap(g)' = x.agg_sig[Swap]
        BY <2>1, <2>4 DEF Deposits, BuyersSwap
      <3>2. CASE x.agg_sig[Swap] = models[r][call.model].agg_sig[Swap]
        BY <2>2, <2>4, <3>1, <3>2 DEF BuyersSwap
      <3>3. CASE CompletesSwap(g, x)
        BY <2>2, <3>1, <3>3 DEF CompletesSwap
      <3> QED
        BY <2>1, <2>4, <3>2, <3>3 DEF Deposits
    <2> QED
      BY <2>3, <2>4
  <1>6. ASSUME NEW r \in Trader,
               \/ HandleGetNonceShares(r) \/ HandleGetPartialSignatures(r)
               \/ HandlePublishDepositTx(r) \/ HandleCloseTrade(r)
        PROVE  same
    <2>1. CASE HandleGetNonceShares(r)
      <3>1. PICK call, m, shares, h, n, out :
              /\ call \in Held(r, "get_nonce_shares") /\ m = models[r][call.model]
              /\ Handle(r, call, out) /\ GotNonces(r, m, shares, n, out)
        BY <2>1, GetNonceSharesStep
      <3> QED
        BY <1>3, <3>1 DEF GotNonces
    <2>2. CASE HandleGetPartialSignatures(r)
      <3>1. PICK call, m, nonces, out :
              /\ call \in Held(r, "get_partial_signatures") /\ m = models[r][call.model]
              /\ Handle(r, call, out) /\ SignedPartially(r, m, nonces, out)
        BY <2>2, GetPartialSignaturesStep
      <3> QED
        BY <1>3, <3>1 DEF SignedPartially
    <2>3. CASE HandlePublishDepositTx(r)
      <3>1. PICK call, m, out :
              /\ call \in Held(r, "publish_deposit_tx")
              /\ m \in ModelT /\ m = models[r][call.model]
              /\ Handle(r, call, out) /\ out.model = m
        BY <2>3, PublishDepositTxStep
      <3> QED
        BY <1>3, <3>1
    <2>4. CASE HandleCloseTrade(r)
      <3>1. PICK call, m, request, out :
              /\ call \in Held(r, "close_trade") /\ m = models[r][call.model]
              /\ Handle(r, call, out) /\ Closing(r, m, request, out)
        BY <2>4, CloseTradeStep
      <3> QED
        BY <1>3, <3>1 DEF Closing
    <2> QED
      BY <1>6, <2>1, <2>2, <2>3, <2>4
  <1>7. ASSUME NEW r \in Trader, HandleSignSwapTx(r)
        PROVE  same
    <2>1. PICK call, m, sig, out :
            /\ call \in Held(r, "sign_swap_tx") /\ r = "Seller"
            /\ Handle(r, call, out) /\ SignedSwap(m, sig, out)
      BY <1>7, SignSwapTxStep
    <2>2. /\ \A p \in Trader : Len(models'[p]) = Len(models[p])
          /\ \A p \in Trader : \A f \in 1 .. Len(models[p]) :
               p # r \/ f # call.model => models'[p][f] = models[p][f]
      <3>1. out.model \in ModelT
        BY <2>1 DEF SignedSwap
      <3> QED
        BY <2>1, <3>1, Handled
    <2> QED
      BY <1>0, <2>1, <2>2 DEF BuyersSwap
  <1>8. ASSUME NEW r \in Trader, Steps(r), ~PlainSteps(r)
        PROVE  \/ same
               \/ g \notin 1 .. Len(models["Buyer"]) /\ BuyersSwap(g)' = <<>>
               \/ /\ g \in 1 .. Len(models["Buyer"]) /\ Silence /\ signed' = signed
                  /\ \E s, p, h : Pair(s, p, g, h) /\ BuyersSwap(g)' = <<Final(s)>>
    BY <1>4, <1>5, <1>6, <1>7, <1>8 DEF Steps, PlainSteps
  <1> QED
    BY <1>2, <1>8, NextIsSteps, PlainIsPlain

\* The buyer's models have the swap only from a pair of signatures.
AggInv ==
    \A g \in 1 .. Len(models["Buyer"]) : BuyersSwap(g) # <<>> =>
        \E s, p, h : Pair(s, p, g, h) /\ BuyersSwap(g) = <<Final(s)>>

\* Every step preserves that.
LEMMA AggStep ==
    ASSUME TypeInv, SigsInv, SigsInv', Later, AggInv, [Next]_vars
    PROVE  AggInv'
  <1> SUFFICES ASSUME NEW g \in 1 .. Len(models'["Buyer"]), BuyersSwap(g)' # <<>>
               PROVE  \E s, p, h : Pair(s, p, g, h)' /\ BuyersSwap(g)' = <<Final(s)>>
    BY DEF AggInv
  <1>1. PICK s, p, h : Pair(s, p, g, h) /\ BuyersSwap(g)' = <<Final(s)>>
    BY SwapStep DEF AggInv
  <1> QED
    BY <1>1, PairStays

\* What a buyer's model has of the swap stays.
LEMMA SwapKept ==
    ASSUME TypeInv, SigsInv, SigsInv', Later, NonceNotReused, OneOffered("Buyer"), AggInv,
           [Next]_vars, NEW g \in 1 .. Len(models["Buyer"]), BuyersSwap(g) # <<>>
    PROVE  g \in 1 .. Len(models'["Buyer"]) /\ BuyersSwap(g)' = BuyersSwap(g)
  <1>1. g \in 1 .. Len(models'["Buyer"])
    BY DEF Later, Grows, Trader
  <1>2. PICK s, p, h : Pair(s, p, g, h) /\ BuyersSwap(g) = <<Final(s)>>
    BY DEF AggInv
  <1>3. ASSUME NEW t, NEW q, NEW f, Pair(t, q, g, f)
        PROVE  t = s
    <2>1. s \in signed /\ t \in signed /\ MadeTold(s, "Buyer", g) /\ MadeTold(t, "Buyer", g)
      BY <1>2, <1>3 DEF Pair
    <2>2. "Buyer" \in Trader
      BY DEF Trader
    <2> QED
      BY <2>1, <2>2, MadeToldOnce DEF SigsInv
  <1> QED
    BY <1>1, <1>2, <1>3, SwapStep

-----------------------------------------------------------------------------
(* The signature that the buyer withholds.  He tells it only when his model *)
(* has the swap that it is part of.                                         *)

\* The buyer's model that made s has the swap from it.
Completed(s) ==
    /\ s \in signed
    /\ \E g \in 1 .. Len(models["Buyer"]) :
          (\E n \in Nat : Made(s, "Buyer", g, n)) /\ BuyersSwap(g) = <<Final(s)>>

\* While he waits for the seller's signatures, the one he has kept is the last
\* of the only model that can still complete a swap for him.
Signed ==
    step["Buyer"] = 4 =>
        \E s \in signed : \E g : \E n \in Nat :
           /\ kept["Buyer"] = <<s>> /\ Made(s, "Buyer", g, n)
           /\ \A h \in Current("Buyer") : \A k \in Nat :
                 Offered("Buyer", h, k) => h = g /\ k <= n

WithheldInv ==
    /\ Signed
    /\ step["Buyer"] = 5 => \E s : kept["Buyer"] = <<s>> /\ Completed(s)
    /\ \A s \in Told("Buyer", "swap_sig") : Completed(s)

\* f is a complete swap that the seller made of the signature the buyer withheld,
\* and puts in the secret of his own model that signed.
Earned(f) ==
    \E s, p, g, h : /\ Pair(s, p, g, h) /\ s \in Told("Buyer", "swap_sig")
                    /\ f = Final(s) /\ f.adaptor = Point("buyer_output", "Seller", h)

FinalsInv == \A f \in finals : Earned(f)

\* An answer that moves the client on is heard.
LEMMA MovesOn ==
    ASSUME NEW r, NEW call, NEW reply, Answer(r, call, reply), step'[r] # step[r]
    PROVE  reply # <<>> /\ Heard(r, call, reply[1])
  BY Answered DEF Unheard

\* What a client that hears an answer was waiting for.
LEMMA HearsRuns ==
    ASSUME TypeInv, NEW r \in Trader, Hears(r)
    PROVE  /\ step'[r] # step[r]
           /\ step[r] = 3 => HandleGetPartialSignatures(r)
           /\ step[r] = 4 => HandleSignDepositTx(r)
           /\ step[r] = 5 /\ r = "Buyer" => HandlePublishDepositTx(r)
           /\ step[r] = 5 /\ r = "Seller" => HandleSignSwapTx(r)
           /\ step[r] = 6 => HandleCloseTrade(r)
  <1>1. PICK call, reply : Heard(r, call, reply[1]) /\ Runs(r, call.rpc)
    BY DEF Hears
  <1>2. /\ step'[r] = step[r] + 1 /\ step[r] \in 1 .. 6
        /\ step[r] = 3 => call.rpc = "get_partial_signatures"
        /\ step[r] = 4 => call.rpc = "sign_deposit_tx"
        /\ step[r] = 5 /\ r = "Buyer" => call.rpc = "publish_deposit_tx"
        /\ step[r] = 5 /\ r = "Seller" => call.rpc = "sign_swap_tx"
        /\ step[r] = 6 => call.rpc = "close_trade"
    BY <1>1, HeardStep
  <1>3. step'[r] # step[r]
    BY <1>2
  <1>4. step[r] = 3 => HandleGetPartialSignatures(r)
    BY <1>1, <1>2 DEF Runs
  <1>5. step[r] = 4 => HandleSignDepositTx(r)
    BY <1>1, <1>2 DEF Runs
  <1>6. step[r] = 5 /\ r = "Buyer" => HandlePublishDepositTx(r)
    BY <1>1, <1>2 DEF Runs
  <1>7. step[r] = 5 /\ r = "Seller" => HandleSignSwapTx(r)
    BY <1>1, <1>2 DEF Runs
  <1>8. step[r] = 6 => HandleCloseTrade(r)
    BY <1>1, <1>2 DEF Runs
  <1> QED
    BY <1>3, <1>4, <1>5, <1>6, <1>7, <1>8

\* When a client tells a secret, the swap, or the buyer's signature on it.
LEMMA NewlyTold ==
    ASSUME TypeInv, [Next]_vars, NEW q \in Trader, NEW kind \in {"swap_sig", "prv", "swap_tx"},
           NEW b, b \in Told(q, kind)', b \notin Told(q, kind)
    PROVE  /\ Hears(q)
           /\ kind = "swap_sig" => q = "Buyer" /\ step[q] = 5 /\ b = kept[q][1]
           /\ kind = "prv" => (q = "Seller" /\ step[q] = 5) \/ (q = "Buyer" /\ step[q] = 6)
           /\ kind = "swap_tx" => q = "Seller" /\ step[q] = 6 /\ b = kept[q][1]
  <1>1. ~Silence
    BY DEF Silence
  <1>2. ~Plain /\ ~UNCHANGED vars
    BY <1>1, NothingTold DEF Plain, vars, client
  <1>3. PICK r \in Trader : Steps(r) /\ AnswerSteps(r)
    BY <1>2, NextIsSteps, PlainIsPlain DEF Steps, AnswerSteps, PlainSteps
  <1>4. PICK call \in calls : \E reply :
          /\ call.from = r /\ Answer(r, call, reply)
          /\ reply = <<>> \/ Runs(r, call.rpc)
    BY <1>3, AnswersOne
  <1>5. PICK reply : /\ call.from = r /\ Answer(r, call, reply)
                     /\ reply = <<>> \/ Runs(r, call.rpc)
    BY <1>4
  <1>6. reply # <<>> /\ Heard(r, call, reply[1])
    BY <1>1, <1>5, AnswerTells
  <1>7. Hears(r)
    BY <1>4, <1>5, <1>6 DEF Hears
  <1>8. \A k, y : Tells(r, k, y) => q = r /\ k = kind /\ b = y
    BY DEF Tells
  <1>9. CASE call.rpc \in {"init_trade", "get_nonce_shares", "get_partial_signatures",
                           "sign_deposit_tx"}
    BY <1>1, <1>6, <1>8, <1>9, HeardTells
  <1>10. CASE call.rpc = "publish_deposit_tx"
    <2>1. q = r /\ kind = "swap_sig" /\ b = kept[r][1]
      BY <1>6, <1>8, <1>10, HeardTells
    <2>2. step[r] = 5 /\ r = "Buyer"
      BY <1>6, <1>10, HeardStep
    <2> QED
      BY <1>7, <2>1, <2>2
  <1>11. CASE call.rpc = "sign_swap_tx"
    <2>1. q = r /\ kind = "prv"
      BY <1>6, <1>8, <1>11, HeardTells
    <2>2. step[r] = 5 /\ r = "Seller"
      BY <1>6, <1>11, HeardStep
    <2> QED
      BY <1>7, <2>1, <2>2
  <1>12. CASE call.rpc = "close_trade"
    <2>1. q = r /\ \/ r = "Buyer" /\ kind = "prv"
                   \/ r # "Buyer" /\ kind = "swap_tx" /\ b = kept[r][1]
      BY <1>1, <1>6, <1>8, <1>12, HeardTells
    <2>2. step[r] = 6
      BY <1>6, <1>12, HeardStep
    <2> QED
      BY <1>7, <2>1, <2>2 DEF Trader
  <1> QED
    BY <1>5, <1>6, <1>9, <1>10, <1>11, <1>12 DEF Runs

\* What is completed stays so.
LEMMA CompletedStays ==
    ASSUME TypeInv, SigsInv, SigsInv', Later, NonceNotReused, OneOffered("Buyer"), AggInv,
           [Next]_vars, NEW s, Completed(s)
    PROVE  Completed(s)'
  <1>1. PICK g \in 1 .. Len(models["Buyer"]) :
          (\E n \in Nat : Made(s, "Buyer", g, n)) /\ BuyersSwap(g) = <<Final(s)>>
    BY DEF Completed
  <1>2. BuyersSwap(g) # <<>>
    BY <1>1
  <1>3. g \in 1 .. Len(models'["Buyer"]) /\ BuyersSwap(g)' = <<Final(s)>>
    BY <1>1, <1>2, SwapKept
  <1>4. s \in signed'
    BY DEF Completed, Later
  <1> QED
    BY <1>1, <1>3, <1>4 DEF Completed

\* What the buyer's client keeps while it does not move on.
LEMMA KeptKept ==
    ASSUME NEW q, Untouched(q) \/ Stays(q)
    PROVE  step'[q] = step[q] /\ kept'[q] = kept[q]
  BY DEF Untouched, Stays

\* Every step preserves what is known of the signature while the buyer waits
\* for the seller's.
LEMMA SignedStep ==
    ASSUME TypeInv, TypeInv', NonceInv, SigsInv, SigsInv', IdInv, OfferInv, Later, Signed,
           [Next]_vars
    PROVE  Signed'
  <1> SUFFICES ASSUME step'["Buyer"] = 4
               PROVE  \E s \in signed' : \E g : \E n \in Nat :
                        /\ kept'["Buyer"] = <<s>> /\ Made(s, "Buyer", g, n)
                        /\ \A h \in Current("Buyer")' : \A k \in Nat :
                              Offered("Buyer", h, k)' => h = g /\ k <= n
    BY DEF Signed
  <1>0. "Buyer" \in Trader /\ Len(models["Buyer"]) \in Nat
        /\ Current("Buyer")' \subseteq 1 .. Len(models'["Buyer"])
    BY ModelsTypes, CurrentModelsNext DEF TypeInv, ModelsInv, Trader
  <1>1. ASSUME NEW h \in Current("Buyer")', NEW k \in Nat, Offered("Buyer", h, k)'
        PROVE  h \in 1 .. Len(models["Buyer"]) /\ Offered("Buyer", h, k)
    BY <1>0, <1>1, OfferedStep
  <1>2. CASE Untouched("Buyer") \/ Stays("Buyer")
    <2>1. step["Buyer"] = 4 /\ kept'["Buyer"] = kept["Buyer"]
      BY <1>2, KeptKept
    <2>2. PICK s \in signed : \E g : \E n \in Nat :
            /\ kept["Buyer"] = <<s>> /\ Made(s, "Buyer", g, n)
            /\ \A h \in Current("Buyer") : \A k \in Nat :
                  Offered("Buyer", h, k) => h = g /\ k <= n
      BY <2>1 DEF Signed
    <2>3. \A h \in Current("Buyer")' : h \in 1 .. Len(models["Buyer"]) => h \in Current("Buyer")
      <3>1. CASE Untouched("Buyer")
        BY <3>1, UntouchedKeeps
      <3>2. CASE Stays("Buyer")
        BY <1>0, <3>2 DEF Stays
      <3> QED
        BY <1>2, <3>1, <3>2
    <2>4. s \in signed'
      BY DEF Later
    <2> QED
      BY <1>1, <2>1, <2>2, <2>3, <2>4
  <1>3. CASE Hears("Buyer")
    <2>1. /\ step["Buyer"] = 3 /\ HandleGetPartialSignatures("Buyer")
          /\ step'["Buyer"] # step["Buyer"]
          /\ Current("Buyer")' = {store'["Buyer"]} \ {0}
      BY <1>0, <1>3, HearsClears, HearsRuns
    <2>2. PICK call, m, nonces, out :
            /\ call \in Held("Buyer", "get_partial_signatures") /\ m \in ModelT
            /\ nonces \in [Ctx -> NonceT]
            /\ m = models["Buyer"][call.model] /\ nonces = call.arg
            /\ Handle("Buyer", call, out) /\ SignedPartially("Buyer", m, nonces, out)
            /\ signed' = IF out.reply = <<>> THEN signed
                         ELSE signed \cup { out.model.my_sig[c][1] : c \in Ctx }
            /\ UNCHANGED <<draws, finals, closed>>
      BY <1>0, <2>1, GetPartialSignaturesStep
    <2>3. /\ out.reply # <<>> /\ Heard("Buyer", call, out.reply[1])
          /\ Answer("Buyer", call, out.reply)
      <3>1. Answer("Buyer", call, out.reply)
        BY <2>2 DEF Handle
      <3> QED
        BY <2>1, <3>1, MovesOn
    <2>4. /\ call \in calls /\ call.from = "Buyer" /\ call.rpc = "get_partial_signatures"
          /\ call.model \in 1 .. Len(models["Buyer"]) /\ store' = store
      <3>1. out.model \in ModelT
        BY <2>2 DEF SignedPartially
      <3> QED
        BY <1>0, <2>2, <3>1, Handled
    <2>5. PICK s, n, j :
            /\ s \in signed' /\ n \in Nat /\ j \in Nat
            /\ SignsSwap("Buyer", call.model, m, n, j, s)
            /\ out.reply[1][Swap] = <<s>>
      BY <1>0, <2>2, <2>3, SwapIsSigned
    <2>6. kept'["Buyer"] = <<s>>
      BY <1>0, <2>3, <2>4, <2>5, HeardKeeps
    <2>7. PICK g : g = call.model
      OBVIOUS
    <2>8. Made(s, "Buyer", g, n) /\ m.pub_nonce = NoncesOf("Buyer", n)
      BY <2>5, <2>7 DEF SignsSwap
    <2>9. g \in Current("Buyer")
      <3>1. IdOk("Buyer") /\ call.model # 0
        BY <1>0, <2>4 DEF IdInv
      <3> QED
        BY <2>3, <2>4, <2>7, <3>1, HeardClears
    <2>10. ASSUME NEW h \in Current("Buyer")', NEW k \in Nat, Offered("Buyer", h, k)'
           PROVE  h = g /\ k <= n
      <3>1. Offered("Buyer", h, k) /\ h = store["Buyer"] /\ store["Buyer"] # 0
        BY <1>1, <2>1, <2>4, <2>10
      <3>2. h = g
        BY <1>0, <2>1, <2>9, <3>1 DEF OfferInv, OnlyStored
      <3>3. LastNonces("Buyer", g, m)
        BY <1>0, <2>2, <2>4, <2>7 DEF SigsInv, HeldInv
      <3>4. CASE models["Buyer"][h].pub_nonce = NoncesOf("Buyer", k)
        <4>1. NoncesOf("Buyer", k) = NoncesOf("Buyer", n)
          BY <2>2, <2>7, <2>8, <3>2, <3>4
        <4>2. k = n
          BY <1>0, <2>5, <4>1, NoncesDiffer
        <4> QED
          BY <2>5, <3>2, <4>2
      <3>5. CASE \E t \in signed : Made(t, "Buyer", h, k)
        BY <2>5, <2>8, <3>2, <3>3, <3>5 DEF LastNonces, Last
      <3> QED
        BY <3>1, <3>4, <3>5 DEF Offered, Drawn
    <2> QED
      BY <2>5, <2>6, <2>8, <2>10
  <1> QED
    BY <1>0, <1>2, <1>3, TraderStep DEF Restarts

\* When the buyer's sign_deposit_tx succeeds, the swap is completed from the
\* signature that he has kept: his model has offered no other nonces.
LEMMA BuyerCompletes ==
    ASSUME TypeInv, TypeInv', NonceInv, SigsInv, SigsInv', IdInv, OfferInv, Later, Signed,
           [Next]_vars, Hears("Buyer"), step["Buyer"] = 4
    PROVE  \E s : kept'["Buyer"] = <<s>> /\ Completed(s)'
  <1>0. "Buyer" \in Trader
    BY DEF Trader
  <1>1. HandleSignDepositTx("Buyer") /\ step'["Buyer"] # step["Buyer"]
    BY <1>0, HearsRuns
  <1>2. PICK call, reply, x : Deposits("Buyer", call, reply, x)
    BY <1>0, <1>1, DepositSigned
  <1>3. PICK g : g = call.model
    OBVIOUS
  <1>4. /\ call \in calls /\ call.from = "Buyer" /\ g \in 1 .. Len(models["Buyer"])
        /\ Answer("Buyer", call, reply) /\ models'["Buyer"][g] = x
        /\ signed' = signed /\ Len(models'["Buyer"]) = Len(models["Buyer"])
        /\ reply # <<>> => CompletesSwap(g, x)
    BY <1>0, <1>2, <1>3 DEF Deposits, history
  <1>5. reply # <<>> /\ Heard("Buyer", call, reply[1])
    BY <1>1, <1>4, MovesOn
  <1>6. PICK t, p, h :
          Pair(t, p, g, h) /\ x.my_sig[Swap] = <<t>> /\ x.agg_sig[Swap] = <<Final(t)>>
    BY <1>4, <1>5 DEF CompletesSwap
  <1>7. PICK s \in signed : \E f : \E n \in Nat :
          /\ kept["Buyer"] = <<s>> /\ Made(s, "Buyer", f, n)
          /\ \A i \in Current("Buyer") : \A k \in Nat :
                Offered("Buyer", i, k) => i = f /\ k <= n
    BY DEF Signed
  <1>8. PICK f, n :
          /\ n \in Nat /\ kept["Buyer"] = <<s>> /\ Made(s, "Buyer", f, n)
          /\ \A i \in Current("Buyer") : \A k \in Nat :
                Offered("Buyer", i, k) => i = f /\ k <= n
    BY <1>7
  <1>9. g \in Current("Buyer")
    <2>1. IdOk("Buyer") /\ call.model # 0
      BY <1>0, <1>3, <1>4 DEF IdInv
    <2> QED
      BY <1>3, <1>4, <1>5, <2>1, HeardClears
  <1>10. PICK k \in Nat : Made(t, "Buyer", g, k) /\ Says("Buyer", k) /\ t \in signed
    BY <1>6 DEF Pair, MadeTold
  <1>11. g = f /\ k <= n
    BY <1>8, <1>9, <1>10 DEF Offered, Drawn
  <1>12. n <= k
    <2>1. OwnSig("Buyer", g, models["Buyer"][g])'
      BY <1>0, <1>4 DEF SigsInv, HeldInv
    <2>2. PICK j \in Nat : Made(t, "Buyer", g, j) /\ Last("Buyer", g, j)'
      BY <1>4, <1>6, <2>1 DEF OwnSig
    <2>3. j = k
      BY <1>10, <2>2, MadeOnce
    <2>4. s \in signed' /\ Made(s, "Buyer", g, n)
      BY <1>4, <1>8, <1>11
    <2> QED
      BY <1>8, <2>2, <2>3, <2>4 DEF Last
  <1>13. s = t
    <2>1. n = k
      BY <1>8, <1>10, <1>11, <1>12
    <2>2. s.nonce = t.nonce
      BY <1>8, <1>10, <2>1 DEF Made
    <2> QED
      BY <1>10, <2>2 DEF NonceInv, NonceNotReused
  <1>14. Completed(t)'
    BY <1>4, <1>6, <1>10 DEF Completed, BuyersSwap
  <1>15. kept'["Buyer"] = <<s>>
    <2>1. call.rpc = "sign_deposit_tx"
      BY <1>0, <1>5, HeardStep
    <2>2. kept'["Buyer"] = kept["Buyer"]
      BY <1>0, <1>5, <2>1, HeardKeeps
    <2> QED
      BY <1>8, <2>2
  <1> QED
    BY <1>13, <1>14, <1>15

\* Every step preserves what is known of the signature that the buyer withholds.
LEMMA WithheldStep ==
    ASSUME TypeInv, TypeInv', NonceInv, SigsInv, SigsInv', IdInv, OfferInv, Later, AggInv,
           WithheldInv, [Next]_vars
    PROVE  WithheldInv'
  <1>0. "Buyer" \in Trader /\ OneOffered("Buyer") /\ NonceNotReused /\ Signed
    BY DEF Trader, OfferInv, NonceInv, WithheldInv
  <1>1. Signed'
    BY <1>0, SignedStep
  <1>2. \A s : Completed(s) => Completed(s)'
    BY <1>0, CompletedStays
  <1>3. ASSUME step'["Buyer"] = 5
        PROVE  \E s : kept'["Buyer"] = <<s>> /\ Completed(s)'
    <2>1. CASE Untouched("Buyer") \/ Stays("Buyer")
      <3>1. step["Buyer"] = 5 /\ kept'["Buyer"] = kept["Buyer"]
        BY <1>3, <2>1, KeptKept
      <3> QED
        BY <1>2, <3>1 DEF WithheldInv
    <2>2. CASE Hears("Buyer")
      <3>1. step["Buyer"] = 4
        BY <1>0, <1>3, <2>2, HearsClears
      <3> QED
        BY <1>0, <2>2, <3>1, BuyerCompletes
    <2> QED
      BY <1>0, <1>3, <2>1, <2>2, TraderStep DEF Restarts
  <1>4. ASSUME NEW s \in Told("Buyer", "swap_sig")'
        PROVE  Completed(s)'
    <2>1. CASE s \in Told("Buyer", "swap_sig")
      BY <1>2, <2>1 DEF WithheldInv
    <2>2. CASE s \notin Told("Buyer", "swap_sig")
      <3>1. step["Buyer"] = 5 /\ s = kept["Buyer"][1]
        BY <1>0, <1>4, <2>2, NewlyTold
      <3>2. Completed(s)
        BY <3>1 DEF WithheldInv
      <3> QED
        BY <1>2, <3>2
    <2> QED
      BY <2>1, <2>2
  <1> QED
    BY <1>1, <1>3, <1>4 DEF WithheldInv

-----------------------------------------------------------------------------
(* The complete swap that the seller's server hands out.                    *)

\* sign_swap_tx answered the seller's call, with the swap f if it succeeded.
SwapSigned(r, call, reply, f) ==
    /\ r = "Seller" /\ call \in calls /\ call.from = r /\ call.rpc = "sign_swap_tx"
    /\ Answer(r, call, reply) /\ UNCHANGED <<draws, signed, closed>>
    /\ reply = <<>> => finals' = finals
    /\ reply # <<>> => /\ Earned(f) /\ finals' = finals \cup {f}
                       /\ reply[1].swap_tx = f /\ reply[1].share = f.adaptor

\* The seller's server makes the swap only of what the buyer told.
LEMMA SignSwapTxFinal ==
    ASSUME TypeInv, SigsInv, SigsInv', NEW r \in Trader, HandleSignSwapTx(r)
    PROVE  \E call, reply, f : SwapSigned(r, call, reply, f)
  <1>1. PICK call, m, sig, out :
          /\ call \in Held(r, "sign_swap_tx") /\ m \in ModelT /\ sig \in SigT
          /\ m = models[r][call.model] /\ sig = call.arg /\ r = "Seller"
          /\ Handle(r, call, out) /\ SignedSwap(m, sig, out)
          /\ finals' = IF out.reply = <<>> THEN finals ELSE finals \cup {out.reply[1].swap_tx}
          /\ UNCHANGED <<draws, signed, closed>>
    BY SignSwapTxStep
  <1>2. PICK x \in ModelT : x = out.model
    BY <1>1 DEF SignedSwap
  <1>3. /\ call \in calls /\ call.from = r /\ call.rpc = "sign_swap_tx"
        /\ call.model \in 1 .. Len(models[r]) /\ models'[r][call.model] = x
        /\ \A q \in Trader : Len(models'[q]) = Len(models[q])
        /\ Answer(r, call, out.reply)
    <2>1. Answer(r, call, out.reply)
      BY <1>1 DEF Handle
    <2> QED
      BY <1>1, <1>2, <2>1, Handled
  <1>4. CASE out.reply = <<>>
    <2>1. \A f : SwapSigned(r, call, out.reply, f)
      BY <1>1, <1>3, <1>4 DEF SwapSigned
    <2> QED
      BY <2>1
  <1>5. CASE out.reply # <<>>
    <2>1. /\ SameButSigs(m, x) /\ x.peers_sig[Swap] = <<sig>>
          /\ CanAggregate(x, Swap, "seller_output")
          /\ out.reply = <<[swap_tx |-> [ctx     |-> Swap,
                                         key     |-> m.agg["seller_output"],
                                         nonces  |-> m.agg_nonce[Swap],
                                         adaptor |-> m.mine["buyer_output"]],
                            share   |-> m.mine["buyer_output"]]>>
      BY <1>1, <1>2, <1>5 DEF SignedSwap, Swap
    <2>2. PICK f : f = [ctx     |-> Swap,
                        key     |-> m.agg["seller_output"],
                        nonces  |-> m.agg_nonce[Swap],
                        adaptor |-> m.mine["buyer_output"]]
      OBVIOUS
    <2>3. PICK g : g = call.model
      OBVIOUS
    <2>4. PICK h \in Nat : Keyed(r, g, h, x) /\ Keyed(r, g, h, m)
      <3>1. PICK h \in 0 .. Len(models[Peer(r)]) : Keyed(r, g, h, m)
        BY <1>1, <2>3, HeldModel
      <3>2. Keyed(r, g, h, x)
        BY <1>1, <2>1, <3>1, KeyedStays DEF SameButSigs
      <3>3. h \in Nat
        BY ModelsTypes, Peers DEF TypeInv, ModelsInv
      <3> QED
        BY <3>1, <3>2, <3>3
    <2>5. OwnSig(r, g, x) /\ PeersSig(x)
      <3>1. OwnSig(r, g, m)
        BY <1>1, <1>3, <2>3 DEF SigsInv, HeldInv
      <3>2. x.my_sig = m.my_sig
        BY <2>1 DEF SameButSigs
      <3>3. OwnSig(r, g, x)
        BY <3>1, <3>2 DEF OwnSig
      <3>4. PeersSig(models[r][g])'
        BY <1>3, <2>3 DEF SigsInv, HeldInv
      <3>5. PeersSig(x)
        BY <1>1, <1>3, <2>3, <3>4 DEF PeersSig
      <3> QED
        BY <3>3, <3>5
    <2>6. PICK p, s : Completes(r, g, h, x, p, s)
      BY <2>1, <2>4, <2>5, CompletedFrom DEF SigsInv
    <2>7. /\ p \in signed /\ s \in signed /\ s = sig
          /\ x.agg["seller_output"] = TradeKey("seller_output", h, g)
          /\ s.ctx = Swap /\ s.key = x.agg["seller_output"]
          /\ s.agg_nonce = x.agg_nonce[Swap] /\ s.adaptor = x.adaptor_point
          /\ p.key = x.agg["seller_output"] /\ p.adaptor = x.adaptor_point
          /\ MadeTold(p, "Seller", g) /\ MadeTold(s, "Buyer", h)
      <3>1. x.peers_sig[Swap] = <<s>>
        BY <2>6 DEF Completes
      <3>2. s = sig
        BY <2>1, <3>1
      <3> QED
        BY <1>1, <2>6, <3>2, Peers DEF Completes
    <2>8. Pair(s, p, h, g)
      BY <2>7 DEF Pair
    <2>9. s \in Told("Buyer", "swap_sig")
      BY <1>1, <1>3, <2>7, Peers DEF SigsInv, ArgsInv, ArgHeard
    <2>10. /\ m.agg = x.agg /\ m.agg_nonce = x.agg_nonce
           /\ x.adaptor_point = Point("buyer_output", "Seller", g)
           /\ m.mine["buyer_output"] = Point("buyer_output", "Seller", g)
      <3>1. m.agg = x.agg /\ m.agg_nonce = x.agg_nonce
        BY <2>1 DEF SameButSigs, SameKeys
      <3>2. x.adaptor_point = Point("buyer_output", "Seller", g)
        BY <1>1, <2>4 DEF Keyed
      <3>3. m.mine["buyer_output"] = Point("buyer_output", "Seller", g)
        BY <1>1, <2>4 DEF Keyed, KeysOf, Output
      <3> QED
        BY <3>1, <3>2, <3>3
    <2>11. f = Final(s) /\ f.adaptor = Point("buyer_output", "Seller", g)
      BY <2>2, <2>7, <2>10 DEF Final
    <2>12. Earned(f)
      BY <2>8, <2>9, <2>11 DEF Earned
    <2>13. out.reply[1].swap_tx = f /\ out.reply[1].share = f.adaptor
      BY <2>1, <2>2
    <2>14. finals' = finals \cup {f}
      BY <1>1, <1>5, <2>13
    <2>15. SwapSigned(r, call, out.reply, f)
      BY <1>1, <1>3, <1>5, <2>12, <2>13, <2>14 DEF SwapSigned
    <2> QED
      BY <2>15
  <1> QED
    BY <1>4, <1>5

\* Only sign_swap_tx completes a swap for its caller.
LEMMA FinalsChange ==
    ASSUME TypeInv, [Next]_vars, finals' # finals
    PROVE  HandleSignSwapTx("Seller")
  <1>1. ~Plain /\ ~UNCHANGED vars
    BY DEF Plain, vars, history
  <1>2. PICK r \in Trader : Steps(r) /\ ~PlainSteps(r)
    BY <1>1, NextIsSteps, PlainIsPlain
  <1>3. ~InitTrade(r)
    BY DEF InitTrade, history
  <1>4. ~HandleGetNonceShares(r) /\ ~HandleGetPartialSignatures(r)
    BY DEF HandleGetNonceShares, HandleGetPartialSignatures, history
  <1>5. ~HandleSignDepositTx(r) /\ ~HandlePublishDepositTx(r) /\ ~HandleCloseTrade(r)
    BY DEF HandleSignDepositTx, HandlePublishDepositTx, HandleCloseTrade, history
  <1>6. HandleSignSwapTx(r)
    BY <1>2, <1>3, <1>4, <1>5 DEF Steps, PlainSteps
  <1> QED
    BY <1>6, SignSwapTxStep

\* Every step preserves that swaps are complete only if they are earned.
LEMMA FinalsStep ==
    ASSUME TypeInv, SigsInv, SigsInv', Later, FinalsInv, [Next]_vars
    PROVE  FinalsInv'
  <1> SUFFICES ASSUME NEW f \in finals' PROVE Earned(f)'
    BY DEF FinalsInv
  <1>1. Earned(f)
    <2>1. CASE f \in finals
      BY <2>1 DEF FinalsInv
    <2>2. CASE f \notin finals
      <3>1. HandleSignSwapTx("Seller")
        BY <2>2, FinalsChange
      <3>2. PICK call, reply, e : SwapSigned("Seller", call, reply, e)
        BY <3>1, SignSwapTxFinal DEF Trader
      <3> QED
        BY <2>2, <3>2 DEF SwapSigned
    <2> QED
      BY <2>1, <2>2
  <1>2. PICK s, p, g, h : /\ Pair(s, p, g, h) /\ s \in Told("Buyer", "swap_sig")
                          /\ f = Final(s) /\ f.adaptor = Point("buyer_output", "Seller", h)
    BY <1>1 DEF Earned
  <1>3. Pair(s, p, g, h)' /\ s \in Told("Buyer", "swap_sig")'
    BY <1>2, PairStays DEF Later
  <1> QED
    BY <1>2, <1>3 DEF Earned

\* Whoever has a complete swap has it from a signature that the buyer told, so
\* the buyer's model has it too.
LEMMA BuyerHolds ==
    ASSUME WithheldInv, FinalsInv
    PROVE  BuyerHoldsAdaptorSig
  <1> SUFFICES ASSUME NEW f \in finals
               PROVE  models["Buyer"][f.key[1].gen].agg_sig[Swap] = <<f>>
    BY DEF BuyerHoldsAdaptorSig
  <1>1. PICK s, p, g, h : /\ Pair(s, p, g, h) /\ s \in Told("Buyer", "swap_sig")
                          /\ f = Final(s)
    BY DEF FinalsInv, Earned
  <1>2. f.key[1].gen = g
    BY <1>1 DEF Pair, Final, TradeKey, Point
  <1>3. Completed(s)
    BY <1>1 DEF WithheldInv
  <1>4. PICK f2 \in 1 .. Len(models["Buyer"]) :
          (\E n \in Nat : Made(s, "Buyer", f2, n)) /\ BuyersSwap(f2) = <<Final(s)>>
    BY <1>3 DEF Completed
  <1>5. f2 = g
    BY <1>1, <1>4, MadeOnce DEF Pair, MadeTold
  <1> QED
    BY <1>1, <1>2, <1>4, <1>5 DEF BuyersSwap

-----------------------------------------------------------------------------
(* Closing.  The seller's share of the buyer's output gets out only with a  *)
(* complete swap, and the buyer's of the seller's output only after the     *)
(* buyer's server has got the key of his own.                               *)

\* Some complete swap has the secret of x in it.
Revealed(x) == \E f \in finals : f.adaptor = x

\* The buyer's model gb has got the key of his output.
Paid(gb) == \E gs \in 1 .. Len(models["Seller"]) : TradeKey("buyer_output", gb, gs) \in closed

\* r's server may have the key.
KeyDue(r, key) ==
    \/ r = "Buyer" /\ Revealed(key[2])
       /\ \E gb \in 1 .. Len(models["Buyer"]) : \E gs : key = TradeKey("buyer_output", gb, gs)
    \/ r = "Seller" /\ \E gb, gs : key = TradeKey("seller_output", gb, gs) /\ Paid(gb)

ClosedInv == \A key \in closed : \E r \in Trader : KeyDue(r, key)

\* A model that knows the peer's share has closed.
SecretsInv ==
    \A r \in Trader : \A g \in 1 .. Len(models[r]) :
        models[r][g].peers_prv[MyOutput(r)] => models[r][g].agg[MyOutput(r)] \in closed

\* What the clients tell of their secrets.
SharesToldInv ==
    /\ \A x \in Told("Seller", "prv") : Revealed(x)
    /\ \A x \in Told("Buyer", "prv") :
          \E gb : x = Point("seller_output", "Buyer", gb) /\ Paid(gb)
    /\ Told("Seller", "swap_tx") \subseteq finals
    /\ step["Seller"] = 6 => kept["Seller"][1] \in finals

ClosingInv == ClosedInv /\ SecretsInv /\ SharesToldInv

\* close_trade answered r's call on his g-th model, which it leaves as x.
Closes(r, call, reply, g, x) ==
    /\ call \in calls /\ call.from = r /\ call.rpc = "close_trade"
    /\ g = call.model /\ g \in 1 .. Len(models[r])
    /\ Answer(r, call, reply)
    /\ models'[r][g] = x
    /\ \A q \in Trader : Len(models'[q]) = Len(models[q])
    /\ \A q \in Trader : \A f \in 1 .. Len(models[q]) :
         q # r \/ f # g => models'[q][f] = models[q][f]
    /\ \/ closed' = closed
       \/ closed' = closed \cup {x.agg[MyOutput(r)]} /\ KeyDue(r, x.agg[MyOutput(r)])
    /\ x.peers_prv[MyOutput(r)] => x.agg[MyOutput(r)] \in closed'
    /\ reply # <<>> /\ r = "Buyer" =>
         /\ reply[1] = Point("seller_output", "Buyer", g)
         /\ \E gs \in 1 .. Len(models["Seller"]) : TradeKey("buyer_output", g, gs) \in closed'

\* close_trade gets a key only if it is due.
LEMMA CloseTradeCloses ==
    ASSUME TypeInv, ArgsInv, ClosingInv, NEW r \in Trader, HandleCloseTrade(r)
    PROVE  \E call, reply, g, x : Closes(r, call, reply, g, x)
  <1>1. PICK call, m, request, out :
          /\ call \in Held(r, "close_trade") /\ m \in ModelT
          /\ request \in [prv : Opt(PointT), swap_tx : Opt(FinalT)]
          /\ m = models[r][call.model] /\ request = call.arg
          /\ Handle(r, call, out) /\ Closing(r, m, request, out)
          /\ closed' = IF out.reply # <<>> /\ out.model.agg_prv[MyOutput(r)]
                       THEN closed \cup {out.model.agg[MyOutput(r)]} ELSE closed
    BY CloseTradeStep
  <1>2. PICK x, reply : x \in ModelT /\ x = out.model /\ reply = out.reply
    BY <1>1 DEF Closing
  <1>3. /\ call \in calls /\ call.from = r /\ call.rpc = "close_trade"
        /\ call.model \in 1 .. Len(models[r]) /\ models'[r][call.model] = x
        /\ \A q \in Trader : Len(models'[q]) = Len(models[q])
        /\ \A q \in Trader : \A f \in 1 .. Len(models[q]) :
             q # r \/ f # call.model => models'[q][f] = models[q][f]
    BY <1>1, <1>2, Handled
  <1>4. Answer(r, call, reply)
    BY <1>1, <1>2 DEF Handle
  <1>5. PICK g : g = call.model
    OBVIOUS
  <1>6. PICK o \in Output : o = MyOutput(r)
    BY DEF MyOutput, Output
  <1>7. closed' = IF reply # <<>> /\ x.agg_prv[o] THEN closed \cup {x.agg[o]} ELSE closed
    BY <1>1, <1>2, <1>6
  <1>8. /\ x.agg = m.agg /\ m.mine = KeysOf(r, g)
        /\ reply = <<>> \/ reply = <<ShareForPeer(r, m)>>
        /\ \/ /\ x.peers_prv = m.peers_prv /\ x.agg_prv = m.agg_prv
              /\ reply = <<>> \/ request = [prv |-> <<>>, swap_tx |-> <<>>]
           \/ /\ m.peers[o] # NoPoint /\ reply # <<>>
              /\ x.agg_prv = [m.agg_prv EXCEPT ![o] = TRUE]
              /\ \/ request.prv = <<m.peers[o]>>
                 \/ /\ r = "Buyer" /\ request.swap_tx # <<>>
                    /\ request.swap_tx[1].adaptor = m.peers[o]
           \/ m.peers_prv[o] /\ x.peers_prv = m.peers_prv /\ r = "Seller"
    <2>1. /\ x.agg = m.agg
          /\ reply = <<>> \/ reply = <<ShareForPeer(r, m)>>
          /\ \/ /\ x.peers_prv = m.peers_prv /\ x.agg_prv = m.agg_prv
                /\ reply = <<>> \/ request = [prv |-> <<>>, swap_tx |-> <<>>]
             \/ /\ m.peers[o] # NoPoint /\ reply # <<>>
                /\ x.agg_prv = [m.agg_prv EXCEPT ![o] = TRUE]
                /\ \/ request.prv = <<m.peers[o]>>
                   \/ /\ r = "Buyer" /\ request.swap_tx # <<>>
                      /\ request.swap_tx[1].adaptor = m.peers[o]
             \/ m.peers_prv[o] /\ x.peers_prv = m.peers_prv /\ r = "Seller"
      BY <1>1, <1>2, <1>6 DEF Closing, SameKeys
    <2>2. PICK h \in 0 .. Len(models[Peer(r)]) : Keyed(r, g, h, m)
      BY <1>1, <1>5, HeldModel
    <2>3. m.mine = KeysOf(r, g)
      BY <2>2 DEF Keyed
    <2> QED
      BY <2>1, <2>3
  <1>9. PICK h \in 0 .. Len(models[Peer(r)]) : Keyed(r, g, h, m)
    BY <1>1, <1>5, HeldModel
  <1>10. m.peers_prv[o] => x.agg[o] \in closed
    BY <1>1, <1>3, <1>5, <1>6, <1>8 DEF ClosingInv, SecretsInv
  <1>11. x.agg[o] \in closed' => x.agg[o] \in closed \/ closed' = closed \cup {x.agg[o]}
    BY <1>7
  <1>12. ArgHeard(r, "close_trade", request)
    BY <1>1, <1>3 DEF ArgsInv
  <1>13. CASE /\ x.peers_prv = m.peers_prv /\ x.agg_prv = m.agg_prv
              /\ reply = <<>> \/ request = [prv |-> <<>>, swap_tx |-> <<>>]
    <2>1. closed' = closed
      BY <1>7, <1>9, <1>10, <1>13 DEF Keyed
    <2>2. r = "Buyer" => reply = <<>>
      BY <1>12, <1>13 DEF ArgHeard
    <2>3. Closes(r, call, reply, g, x)
      BY <1>3, <1>4, <1>5, <1>6, <1>10, <1>13, <2>1, <2>2 DEF Closes
    <2> QED
      BY <2>3
  <1>14. CASE m.peers_prv[o] /\ x.peers_prv = m.peers_prv /\ r = "Seller"
    <2>1. closed' = closed
      BY <1>7, <1>10, <1>14
    <2>2. Closes(r, call, reply, g, x)
      BY <1>3, <1>4, <1>5, <1>6, <1>10, <1>14, <2>1 DEF Closes
    <2> QED
      BY <2>2
  <1>15. CASE /\ m.peers[o] # NoPoint /\ reply # <<>>
              /\ x.agg_prv = [m.agg_prv EXCEPT ![o] = TRUE]
              /\ \/ request.prv = <<m.peers[o]>>
                 \/ /\ r = "Buyer" /\ request.swap_tx # <<>>
                    /\ request.swap_tx[1].adaptor = m.peers[o]
    <2>1. closed' = closed \cup {x.agg[o]}
      BY <1>1, <1>7, <1>15 DEF ModelT
    <2>2. /\ h # 0 /\ m.peers[o] = Point(o, Peer(r), h)
          /\ x.agg[o] = KeyShares(r, Point(o, r, g), Point(o, Peer(r), h))
      BY <1>8, <1>9, <1>15 DEF Keyed
    <2>3. \/ m.peers[o] \in Told(Peer(r), "prv")
          \/ r = "Buyer" /\ Revealed(m.peers[o])
      <3>1. CASE request.prv = <<m.peers[o]>>
        BY <1>12, <3>1 DEF ArgHeard
      <3>2. CASE /\ r = "Buyer" /\ request.swap_tx # <<>>
                 /\ request.swap_tx[1].adaptor = m.peers[o]
        <4>1. request.swap_tx[1] \in finals
          BY <1>12, <3>2 DEF ArgHeard, ClosingInv, SharesToldInv
        <4> QED
          BY <3>2, <4>1 DEF Revealed
      <3> QED
        BY <1>15, <3>1, <3>2
    <2>4. CASE r = "Buyer"
      <3>1. o = "buyer_output" /\ Peer(r) = "Seller"
        BY <1>6, <2>4, Peers DEF MyOutput
      <3>2. x.agg[o] = TradeKey("buyer_output", g, h) /\ x.agg[o][2] = m.peers[o]
        BY <2>2, <2>4, <3>1 DEF KeyShares, TradeKey
      <3>3. Revealed(x.agg[o][2])
        BY <2>3, <3>1, <3>2 DEF ClosingInv, SharesToldInv
      <3>4. KeyDue(r, x.agg[o])
        BY <1>3, <1>5, <2>4, <3>2, <3>3 DEF KeyDue
      <3>5. h \in 1 .. Len(models["Seller"]) /\ TradeKey("buyer_output", g, h) \in closed'
        BY <2>1, <2>2, <3>1, <3>2
      <3>6. reply[1] = Point("seller_output", "Buyer", g)
        <4>1. reply[1] = m.mine["seller_output"]
          BY <1>8, <1>15, <2>4 DEF ShareForPeer
        <4> QED
          BY <1>8, <2>4, <4>1 DEF KeysOf, Output
      <3>7. Closes(r, call, reply, g, x)
        BY <1>3, <1>4, <1>5, <1>6, <2>1, <3>4, <3>5, <3>6 DEF Closes
      <3> QED
        BY <3>7
    <2>5. CASE r = "Seller"
      <3>1. o = "seller_output" /\ Peer(r) = "Buyer" /\ r # "Buyer"
        BY <1>6, <2>5, Peers DEF MyOutput
      <3>2. x.agg[o] = TradeKey("seller_output", h, g)
        BY <2>2, <2>5, <3>1 DEF KeyShares, TradeKey
      <3>3. PICK gb : m.peers[o] = Point("seller_output", "Buyer", gb) /\ Paid(gb)
        BY <2>3, <3>1 DEF ClosingInv, SharesToldInv
      <3>4. gb = h
        BY <2>2, <3>1, <3>3 DEF Point
      <3>5. KeyDue(r, x.agg[o])
        BY <2>5, <3>2, <3>3, <3>4 DEF KeyDue
      <3>6. Closes(r, call, reply, g, x)
        BY <1>3, <1>4, <1>5, <1>6, <2>1, <3>1, <3>5 DEF Closes
      <3> QED
        BY <3>6
    <2> QED
      BY <2>4, <2>5 DEF Trader
  <1> QED
    BY <1>8, <1>13, <1>14, <1>15

\* What is due stays due.
LEMMA DueStays ==
    ASSUME TypeInv, TypeInv', Later
    PROVE  /\ \A x : Revealed(x) => Revealed(x)'
           /\ \A gb : Paid(gb) => Paid(gb)'
           /\ \A r, key : KeyDue(r, key) => KeyDue(r, key)'
  <1>1. \A x : Revealed(x) => Revealed(x)'
    BY DEF Revealed, Later
  <1>2. \A q \in Trader : 1 .. Len(models[q]) \subseteq 1 .. Len(models'[q])
    BY DEF Later, Grows
  <1>3. \A gb : Paid(gb) => Paid(gb)'
    BY <1>2 DEF Paid, Later, Trader
  <1>4. \A r, key : KeyDue(r, key) => KeyDue(r, key)'
    BY <1>1, <1>2, <1>3 DEF KeyDue, Trader
  <1> QED
    BY <1>1, <1>3, <1>4

\* Only close_trade gets keys.
LEMMA ClosedChange ==
    ASSUME TypeInv, ArgsInv, ClosingInv, [Next]_vars, closed' # closed
    PROVE  \E r \in Trader : \E call, reply, g, x : Closes(r, call, reply, g, x)
  <1>1. ~Plain /\ ~UNCHANGED vars
    BY DEF Plain, vars, history
  <1>2. PICK r \in Trader : Steps(r) /\ ~PlainSteps(r)
    BY <1>1, NextIsSteps, PlainIsPlain
  <1>3. ~InitTrade(r)
    BY DEF InitTrade, history
  <1>4. ~HandleGetNonceShares(r) /\ ~HandleGetPartialSignatures(r)
    BY DEF HandleGetNonceShares, HandleGetPartialSignatures, history
  <1>5. ~HandleSignDepositTx(r) /\ ~HandlePublishDepositTx(r) /\ ~HandleSignSwapTx(r)
    BY DEF HandleSignDepositTx, HandlePublishDepositTx, HandleSignSwapTx, history
  <1>6. HandleCloseTrade(r)
    BY <1>2, <1>3, <1>4, <1>5 DEF Steps, PlainSteps
  <1> QED
    BY <1>6, CloseTradeCloses

\* Every step preserves that the keys which the servers got were due.
LEMMA ClosedStep ==
    ASSUME TypeInv, TypeInv', ArgsInv, Later, ClosingInv, [Next]_vars
    PROVE  ClosedInv'
  <1> SUFFICES ASSUME NEW key \in closed'
               PROVE  \E r \in Trader : KeyDue(r, key)'
    BY DEF ClosedInv
  <1>1. \E r \in Trader : KeyDue(r, key)
    <2>1. CASE key \in closed
      BY <2>1 DEF ClosingInv, ClosedInv
    <2>2. CASE key \notin closed
      <3>1. PICK r \in Trader : \E call, reply, g, x : Closes(r, call, reply, g, x)
        BY <2>2, ClosedChange
      <3>2. PICK call, reply, g, x : Closes(r, call, reply, g, x)
        BY <3>1
      <3> QED
        BY <2>2, <3>2 DEF Closes
    <2> QED
      BY <2>1, <2>2
  <1> QED
    BY <1>1, DueStays

\* Every step preserves that a model learns the peer's share only by closing.
LEMMA SecretsStep ==
    ASSUME TypeInv, ArgsInv, Later, ClosingInv, [Next]_vars
    PROVE  SecretsInv'
  <1> SUFFICES ASSUME NEW q \in Trader, NEW g \in 1 .. Len(models'[q]),
                      NEW o \in Output, o = MyOutput(q), models'[q][g].peers_prv[o]
               PROVE  models'[q][g].agg[o] \in closed'
    BY DEF SecretsInv, MyOutput, Output
  <1>1. ASSUME g \in 1 .. Len(models[q]), models'[q][g].peers_prv[o] = models[q][g].peers_prv[o],
               models'[q][g].agg = models[q][g].agg
        PROVE  models'[q][g].agg[o] \in closed'
    BY <1>1 DEF ClosingInv, SecretsInv, Later
  <1>2. CASE Plain \/ UNCHANGED vars
    BY <1>1, <1>2 DEF Plain, vars, server
  <1>3. ASSUME NEW r \in Trader, NEW rpc, NEW call \in Held(r, rpc), NEW out,
               Handle(r, call, out), out.model \in ModelT,
               \/ ~out.model.peers_prv[o]
               \/ /\ out.model.agg = models[r][call.model].agg
                  /\ out.model.peers_prv = models[r][call.model].peers_prv
        PROVE  models'[q][g].agg[o] \in closed'
    <2>1. /\ \A p \in Trader : Len(models'[p]) = Len(models[p])
          /\ models'[r][call.model] = out.model
          /\ \A p \in Trader : \A f \in 1 .. Len(models[p]) :
               p # r \/ f # call.model => models'[p][f] = models[p][f]
      BY <1>3, Handled
    <2>2. CASE q # r \/ g # call.model
      BY <1>1, <2>1, <2>2
    <2>3. CASE q = r /\ g = call.model
      BY <1>1, <1>3, <2>1, <2>3
    <2> QED
      BY <2>2, <2>3
  <1>4. ASSUME NEW r \in Trader, InitTrade(r)
        PROVE  models'[q][g].agg[o] \in closed'
    <2>0. PICK f \in Nat, m \in ModelT : Adds(r, f, m)
      BY <1>4, InitTradeEffect
    <2>1. /\ f = Len(models[r]) + 1 /\ m = NewModel(r, f)
          /\ Len(models'[r]) = f /\ models'[r][f] = m
          /\ \A p \in Trader : \A h \in 1 .. Len(models[p]) : models'[p][h] = models[p][h]
          /\ \A p \in Trader \ {r} : models'[p] = models[p]
      BY <2>0 DEF Adds
    <2>2. CASE g \in 1 .. Len(models[q])
      BY <1>1, <2>1, <2>2
    <2>3. CASE g \notin 1 .. Len(models[q])
      <3>1. r = q /\ g = f
        BY <2>1, <2>3, ModelsTypes DEF TypeInv, ModelsInv
      <3>2. ~m.peers_prv[o]
        BY <2>1 DEF NewModel
      <3> QED
        BY <2>1, <3>1, <3>2
    <2> QED
      BY <2>2, <2>3
  <1>5. ASSUME NEW r \in Trader, HandleGetNonceShares(r)
        PROVE  models'[q][g].agg[o] \in closed'
    <2>1. PICK call, m, shares, h, n, out :
            /\ call \in Held(r, "get_nonce_shares") /\ m = models[r][call.model]
            /\ Handle(r, call, out) /\ GotNonces(r, m, shares, n, out)
      BY <1>5, GetNonceSharesStep
    <2>2. out.model \in ModelT /\ ~out.model.peers_prv[o]
      BY <2>1 DEF GotNonces
    <2> QED
      BY <1>3, <2>1, <2>2
  <1>6. ASSUME NEW r \in Trader, HandleGetPartialSignatures(r)
        PROVE  models'[q][g].agg[o] \in closed'
    <2>1. PICK call, m, nonces, out :
            /\ call \in Held(r, "get_partial_signatures") /\ m = models[r][call.model]
            /\ Handle(r, call, out) /\ SignedPartially(r, m, nonces, out)
      BY <1>6, GetPartialSignaturesStep
    <2> QED
      BY <1>3, <2>1 DEF SignedPartially, SameKeys
  <1>7. ASSUME NEW r \in Trader, HandlePublishDepositTx(r)
        PROVE  models'[q][g].agg[o] \in closed'
    <2>1. PICK call, m, out :
            /\ call \in Held(r, "publish_deposit_tx")
            /\ m \in ModelT /\ m = models[r][call.model]
            /\ Handle(r, call, out) /\ out.model = m
      BY <1>7, PublishDepositTxStep
    <2> QED
      BY <1>3, <2>1
  <1>8. ASSUME NEW r \in Trader, HandleSignDepositTx(r)
        PROVE  models'[q][g].agg[o] \in closed'
    <2>1. PICK call, m, sigs, out :
            /\ call \in Held(r, "sign_deposit_tx") /\ m = models[r][call.model]
            /\ Handle(r, call, out) /\ SignedDeposit(r, m, sigs, out)
      BY <1>8, SignDepositTxStep
    <2>2. out.model \in ModelT /\ SameButSigs(m, out.model)
      BY <2>1 DEF SignedDeposit
    <2> QED
      BY <1>3, <2>1, <2>2 DEF SameButSigs, SameKeys
  <1>9. ASSUME NEW r \in Trader, HandleSignSwapTx(r)
        PROVE  models'[q][g].agg[o] \in closed'
    <2>1. PICK call, m, sig, out :
            /\ call \in Held(r, "sign_swap_tx") /\ m = models[r][call.model]
            /\ Handle(r, call, out) /\ SignedSwap(m, sig, out)
      BY <1>9, SignSwapTxStep
    <2>2. out.model \in ModelT /\ SameButSigs(m, out.model)
      BY <2>1 DEF SignedSwap
    <2> QED
      BY <1>3, <2>1, <2>2 DEF SameButSigs, SameKeys
  <1>10. ASSUME NEW r \in Trader, HandleCloseTrade(r)
         PROVE  models'[q][g].agg[o] \in closed'
    <2>1. PICK call, reply, f, x : Closes(r, call, reply, f, x)
      BY <1>10, CloseTradeCloses
    <2>2. CASE q # r \/ g # f
      <3>1. g \in 1 .. Len(models[q]) /\ models'[q][g] = models[q][g]
        BY <2>1, <2>2 DEF Closes
      <3> QED
        BY <1>1, <3>1
    <2>3. CASE q = r /\ g = f
      BY <2>1, <2>3 DEF Closes
    <2> QED
      BY <2>2, <2>3
  <1>11. ASSUME NEW r \in Trader, Steps(r), ~PlainSteps(r)
         PROVE  models'[q][g].agg[o] \in closed'
    BY <1>4, <1>5, <1>6, <1>7, <1>8, <1>9, <1>10, <1>11 DEF Steps, PlainSteps
  <1> QED
    BY <1>2, <1>11, NextIsSteps, PlainIsPlain

\* The seller's client that hears the answer of sign_swap_tx keeps a complete
\* swap, and tells the secret in it.
LEMMA SellerSigns ==
    ASSUME TypeInv, TypeInv', SigsInv, SigsInv', IdInv, Hears("Seller"), step["Seller"] = 5
    PROVE  \E f : /\ f \in finals' /\ kept'["Seller"] = <<f>>
                  /\ Tells("Seller", "prv", f.adaptor)
  <1>0. "Seller" \in Trader
    BY DEF Trader
  <1>1. HandleSignSwapTx("Seller") /\ step'["Seller"] # step["Seller"]
    BY <1>0, HearsRuns
  <1>2. PICK call, reply, f : SwapSigned("Seller", call, reply, f)
    BY <1>0, <1>1, SignSwapTxFinal
  <1>3. reply # <<>> /\ Heard("Seller", call, reply[1])
    BY <1>1, <1>2, MovesOn DEF SwapSigned
  <1>4. /\ f \in finals' /\ reply[1].swap_tx = f /\ reply[1].share = f.adaptor
        /\ call.rpc = "sign_swap_tx"
    BY <1>2, <1>3 DEF SwapSigned
  <1>5. kept'["Seller"] = <<f>>
    BY <1>0, <1>3, <1>4, HeardKeeps
  <1>6. Tells("Seller", "prv", f.adaptor)
    BY <1>3, <1>4, HeardTells
  <1> QED
    BY <1>4, <1>5, <1>6

\* The buyer's client that hears the answer of close_trade tells the share of a
\* model that has got its key.
LEMMA BuyerCloses ==
    ASSUME TypeInv, TypeInv', ArgsInv, ClosingInv, IdInv, Hears("Buyer"), step["Buyer"] = 6
    PROVE  \E g : Paid(g)' /\ Tells("Buyer", "prv", Point("seller_output", "Buyer", g))
  <1>0. "Buyer" \in Trader /\ "Seller" \in Trader
    BY DEF Trader
  <1>1. HandleCloseTrade("Buyer") /\ step'["Buyer"] # step["Buyer"]
    BY <1>0, HearsRuns
  <1>2. PICK call, reply, g, x : Closes("Buyer", call, reply, g, x)
    BY <1>0, <1>1, CloseTradeCloses
  <1>3. reply # <<>> /\ Heard("Buyer", call, reply[1]) /\ call.rpc = "close_trade"
    BY <1>1, <1>2, MovesOn DEF Closes
  <1>4. /\ reply[1] = Point("seller_output", "Buyer", g)
        /\ \E gs \in 1 .. Len(models["Seller"]) : TradeKey("buyer_output", g, gs) \in closed'
    BY <1>2, <1>3 DEF Closes
  <1>5. Len(models'["Seller"]) = Len(models["Seller"])
    BY <1>0, <1>2 DEF Closes
  <1>6. Paid(g)'
    BY <1>4, <1>5 DEF Paid
  <1>7. Tells("Buyer", "prv", Point("seller_output", "Buyer", g))
    BY <1>3, <1>4, HeardTells
  <1> QED
    BY <1>6, <1>7

\* Every step preserves what the clients tell of their secrets.
LEMMA SharesToldStep ==
    ASSUME TypeInv, TypeInv', SigsInv, SigsInv', IdInv, Later, ClosingInv, [Next]_vars
    PROVE  SharesToldInv'
  <1>0. "Buyer" \in Trader /\ "Seller" \in Trader /\ ArgsInv
    BY DEF Trader, SigsInv
  <1>1. ASSUME NEW y \in Told("Seller", "prv")' PROVE Revealed(y)'
    <2>1. CASE y \in Told("Seller", "prv")
      BY <2>1, DueStays DEF ClosingInv, SharesToldInv
    <2>2. CASE y \notin Told("Seller", "prv")
      <3>1. Hears("Seller") /\ step["Seller"] = 5
        BY <1>0, <1>1, <2>2, NewlyTold
      <3>2. PICK f : f \in finals' /\ Tells("Seller", "prv", f.adaptor)
        BY <3>1, SellerSigns
      <3>3. y = f.adaptor
        BY <1>1, <2>2, <3>2 DEF Tells
      <3> QED
        BY <3>2, <3>3 DEF Revealed
    <2> QED
      BY <2>1, <2>2
  <1>2. ASSUME NEW y \in Told("Buyer", "prv")'
        PROVE  \E gb : y = Point("seller_output", "Buyer", gb) /\ Paid(gb)'
    <2>1. CASE y \in Told("Buyer", "prv")
      BY <2>1, DueStays DEF ClosingInv, SharesToldInv
    <2>2. CASE y \notin Told("Buyer", "prv")
      <3>1. Hears("Buyer") /\ step["Buyer"] = 6
        BY <1>0, <1>2, <2>2, NewlyTold
      <3>2. PICK g : Paid(g)' /\ Tells("Buyer", "prv", Point("seller_output", "Buyer", g))
        BY <1>0, <3>1, BuyerCloses
      <3>3. y = Point("seller_output", "Buyer", g)
        BY <1>2, <2>2, <3>2 DEF Tells
      <3> QED
        BY <3>2, <3>3
    <2> QED
      BY <2>1, <2>2
  <1>3. ASSUME NEW y \in Told("Seller", "swap_tx")' PROVE y \in finals'
    <2>1. CASE y \in Told("Seller", "swap_tx")
      BY <2>1 DEF ClosingInv, SharesToldInv, Later
    <2>2. CASE y \notin Told("Seller", "swap_tx")
      <3>1. step["Seller"] = 6 /\ y = kept["Seller"][1]
        BY <1>0, <1>3, <2>2, NewlyTold
      <3> QED
        BY <3>1 DEF ClosingInv, SharesToldInv, Later
    <2> QED
      BY <2>1, <2>2
  <1>4. ASSUME step'["Seller"] = 6 PROVE kept'["Seller"][1] \in finals'
    <2>1. CASE Untouched("Seller") \/ Stays("Seller")
      <3>1. step["Seller"] = 6 /\ kept'["Seller"] = kept["Seller"]
        BY <1>4, <2>1, KeptKept
      <3> QED
        BY <3>1 DEF ClosingInv, SharesToldInv, Later
    <2>2. CASE Hears("Seller")
      <3>1. step["Seller"] = 5
        BY <1>0, <1>4, <2>2, HearsClears
      <3>2. PICK f : f \in finals' /\ kept'["Seller"] = <<f>>
        BY <2>2, <3>1, SellerSigns
      <3> QED
        BY <3>2
    <2> QED
      BY <1>0, <1>4, <2>1, <2>2, TraderStep DEF Restarts
  <1> QED
    BY <1>1, <1>2, <1>3, <1>4 DEF SharesToldInv

\* Every step preserves what is known of closing.
LEMMA ClosingStep ==
    ASSUME TypeInv, TypeInv', SigsInv, SigsInv', IdInv, Later, ClosingInv, [Next]_vars
    PROVE  ClosingInv'
  <1>1. ArgsInv
    BY DEF SigsInv
  <1>2. ClosedInv' /\ SecretsInv' /\ SharesToldInv'
    BY <1>1, ClosedStep, SecretsStep, SharesToldStep
  <1> QED
    BY <1>2 DEF ClosingInv

\* The buyer gets the key of his output from a complete swap, and if that output
\* was funded, it is the swap of the same trade: the seller's model has told one
\* signature on the swap, and both are made with it.
LEMMA Fair ==
    ASSUME TypeInv, MadeInv, NonceNotReused, OneOffered("Seller"), AggInv, FinalsInv, ClosedInv
    PROVE  FairExchange
  <1> SUFFICES ASSUME NEW key \in closed, NEW gb, NEW gs, gb = key[1].gen, gs = key[2].gen
               PROVE  /\ key = TradeKey("buyer_output", gb, gs) =>
                           \E f \in finals :
                              /\ f.adaptor = key[2]
                              /\ Funded(gb, gs) => f.key = TradeKey("seller_output", gb, gs)
                      /\ key = TradeKey("seller_output", gb, gs) => Paid(gb)
    BY DEF FairExchange, Paid
  <1>1. \A o, h, k : TradeKey(o, h, k)[1].output = o /\ TradeKey(o, h, k)[1].gen = h
                     /\ TradeKey(o, h, k)[2] = Point(o, "Seller", k)
                     /\ TradeKey(o, h, k)[2].gen = k
    BY DEF TradeKey, Point
  <1>2. PICK r \in Trader : KeyDue(r, key)
    BY DEF ClosedInv
  <1>3. ASSUME key = TradeKey("buyer_output", gb, gs)
        PROVE  \E f \in finals :
                  /\ f.adaptor = key[2]
                  /\ Funded(gb, gs) => f.key = TradeKey("seller_output", gb, gs)
    <2>1. /\ Revealed(key[2])
          /\ \E h \in 1 .. Len(models["Buyer"]) : \E k : key = TradeKey("buyer_output", h, k)
      BY <1>1, <1>2, <1>3 DEF KeyDue
    <2>2. gb \in 1 .. Len(models["Buyer"])
      BY <1>1, <2>1
    <2>3. PICK f \in finals : f.adaptor = key[2]
      BY <2>1 DEF Revealed
    <2>4. PICK s, p, g, h : /\ Pair(s, p, g, h) /\ f = Final(s)
                            /\ f.adaptor = Point("buyer_output", "Seller", h)
      BY DEF FinalsInv, Earned
    <2>5. h = gs
      BY <1>1, <1>3, <2>3, <2>4 DEF Point
    <2>6. ASSUME Funded(gb, gs) PROVE f.key = TradeKey("seller_output", gb, gs)
      <3>1. BuyersSwap(gb) # <<>> /\ BuyersSwap(gb)[1].key = TradeKey("seller_output", gb, gs)
        BY <2>6 DEF Funded, BuyersSwap, Swap
      <3>2. PICK t, q, k : Pair(t, q, gb, k) /\ BuyersSwap(gb) = <<Final(t)>>
        BY <2>2, <3>1 DEF AggInv
      <3>3. t.key = TradeKey("seller_output", gb, gs) /\ t.key = TradeKey("seller_output", gb, k)
        BY <3>1, <3>2 DEF Final, Pair
      <3>4. k = gs
        BY <1>1, <3>3
      <3>5. p \in signed /\ q \in signed /\ MadeTold(p, "Seller", gs) /\ MadeTold(q, "Seller", gs)
        BY <2>4, <2>5, <3>2, <3>4 DEF Pair
      <3>6. p = q
        BY <3>5, MadeToldOnce DEF Trader
      <3>7. f.key = p.key /\ t.key = q.key
        BY <2>4, <3>2 DEF Pair, Final
      <3> QED
        BY <3>3, <3>6, <3>7
    <2> QED
      BY <2>3, <2>6
  <1>4. ASSUME key = TradeKey("seller_output", gb, gs) PROVE Paid(gb)
    <2>1. PICK h : (\E k : key = TradeKey("seller_output", h, k)) /\ Paid(h)
      BY <1>1, <1>2, <1>4 DEF KeyDue
    <2>2. h = gb
      BY <1>1, <2>1
    <2> QED
      BY <2>1, <2>2
  <1> QED
    BY <1>3, <1>4

-----------------------------------------------------------------------------
(* The theorems.                                                           *)

ExchangeInv ==
    /\ SigsInv /\ IdInv /\ OfferInv
    /\ AggInv /\ WithheldInv /\ FinalsInv /\ ClosingInv

\* Nothing is told, signed or drawn at first, and there are no models.
LEMMA InitExchange == Init => ExchangeInv
  <1> SUFFICES ASSUME Init PROVE ExchangeInv
    OBVIOUS
  <1>1. /\ calls = {} /\ signed = {} /\ finals = {} /\ closed = {}
        /\ \A q, kind : Told(q, kind) = {}
    BY DEF Init, Told
  <1>2. \A q \in Trader : /\ models[q] = <<>> /\ Len(models[q]) = 0 /\ 1 .. Len(models[q]) = {}
                          /\ store[q] = 0 /\ step[q] = 1 /\ kept[q] = <<>>
    BY DEF Init
  <1>3. "Buyer" \in Trader /\ "Seller" \in Trader
    BY DEF Trader
  <1>4. SigsInv
    BY <1>1, <1>2, <1>3 DEF SigsInv, MadeInv, NoncesToldInv, SigsToldInv, ArgsInv, HeldInv
  <1>5. ASSUME NEW q \in Trader
        PROVE  (\A c : c \notin Live(q)) /\ (\A h : h \notin Current(q))
    <2>1. ASSUME NEW c \in Live(q) PROVE FALSE
      BY <1>1, <2>1 DEF Live
    <2>2. ASSUME NEW h \in Current(q) PROVE FALSE
      <3>1. h # 0 /\ (h = store[q] \/ \E c \in Live(q) : h = c.model)
        BY <2>2 DEF Current
      <3> QED
        BY <1>2, <2>1, <3>1
    <2> QED
      BY <2>1, <2>2
  <1>6. IdInv
    BY <1>1, <1>5 DEF IdInv, IdOk
  <1>7. OfferInv
    BY <1>1, <1>2, <1>5 DEF OfferInv, OneOffered, Fresh, OnlyStored
  <1>8. AggInv /\ FinalsInv /\ WithheldInv
    BY <1>1, <1>2, <1>3 DEF AggInv, FinalsInv, WithheldInv, Signed
  <1>9. ClosingInv
    BY <1>1, <1>2, <1>3 DEF ClosingInv, ClosedInv, SecretsInv, SharesToldInv
  <1> QED
    BY <1>4, <1>6, <1>7, <1>8, <1>9 DEF ExchangeInv

\* Every step preserves all of it.
LEMMA ExchangeStep ==
    TypeInv /\ TypeInv' /\ NonceInv /\ ExchangeInv /\ [Next]_vars => ExchangeInv'
  <1> SUFFICES ASSUME TypeInv, TypeInv', NonceInv, ExchangeInv, [Next]_vars
               PROVE  ExchangeInv'
    OBVIOUS
  <1>1. /\ SigsInv /\ IdInv /\ OfferInv
        /\ AggInv /\ WithheldInv /\ FinalsInv /\ ClosingInv
    BY DEF ExchangeInv
  <1>2. Later
    BY LaterStep
  <1>3. SigsInv'
    BY <1>1, SigsStep
  <1>4. IdInv'
    BY <1>1, IdStep
  <1>5. OfferInv'
    BY <1>1, <1>3, OfferStep
  <1>6. AggInv'
    BY <1>1, <1>2, <1>3, AggStep
  <1>7. WithheldInv'
    BY <1>1, <1>2, <1>3, WithheldStep
  <1>8. FinalsInv'
    BY <1>1, <1>2, <1>3, FinalsStep
  <1>9. ClosingInv'
    BY <1>1, <1>2, <1>3, ClosingStep
  <1> QED
    BY <1>3, <1>4, <1>5, <1>6, <1>7, <1>8, <1>9 DEF ExchangeInv

\* The invariant of the two servers and their clients.
LEMMA Exchanging == Spec => [](TypeInv /\ NonceInv /\ ExchangeInv)
  BY InitTypes, TypesStep, InitNonces, NoncesStep, InitExchange, ExchangeStep, PTL DEF Spec

\* A complete signature of the swap exists only if the buyer's trade model that
\* signed for it has the matching adaptor signature, so that publishing the swap
\* reveals the seller's secret to him: however often calls are repeated, late or
\* cut off by crashes, and however often the trade is started over.
THEOREM BuyerHoldsTheAdaptorSig == Spec => []BuyerHoldsAdaptorSig
  <1>1. ExchangeInv => BuyerHoldsAdaptorSig
    BY BuyerHolds DEF ExchangeInv
  <1> QED
    BY <1>1, Exchanging, PTL

\* The buyer's server has the secret of a funded payout only when the seller's
\* has the complete swap of that trade, and none of the seller's shares before a
\* swap with it is complete; the seller's server learns a share of the buyer's
\* only when the buyer's has got a payout.
THEOREM ExchangeIsFair == Spec => []FairExchange
  <1>1. TypeInv /\ NonceInv /\ ExchangeInv => FairExchange
    <2>1. NonceInv /\ ExchangeInv =>
            /\ MadeInv /\ NonceNotReused /\ OneOffered("Seller")
            /\ AggInv /\ FinalsInv /\ ClosedInv
      BY DEF NonceInv, ExchangeInv, SigsInv, OfferInv, ClosingInv, Trader
    <2> QED
      BY <2>1, Fair
  <1> QED
    BY <1>1, Exchanging, PTL

=============================================================================
