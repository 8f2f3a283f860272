# A TLA+ model of the Bisq MuSig2 single-transaction trade protocol

This directory models the Rust code of the repository: two traders who lock
their deposits in a `DepositTx` under two 2-of-2 MuSig2 keys (`P'` and `Q'`),
pre-sign every way out of it (`SwapTx`, `WarningTx`, `ClaimTx`, `RedirectTx`),
and later exchange one adaptor secret for another party's signature.

Paths below are relative to the repository.  `PROJECT.json` holds the exact
line ranges each definition models.

## 1. Inventory

| Part | Where | State | Operations | Interacts with |
|---|---|---|---|---|
| `BMPProtocol` | `protocol/src/protocol_musig_adaptor.rs` | round counter, two `AggKey`s, eight transactions, nine `TMuSig2` contexts | `new`, `round1` … `round5`, `broadcast` of each transaction | the peer (by `RoundNParameter` values), its wallet, the node |
| Prepared transactions | same file | an unsigned `Transaction`, its signing contexts, at the end a witness | `build`, `build_partial_sig`, `aggregate_sigs`, `sign`, `broadcast`, `reveal` | the keys, the deposit |
| `AggKey`, `TMuSig2` | same file | secret share, peer's share, aggregate; secret and public nonce, adaptor point, message, signature | aggregation, partial signature, verification, adaptation, revealing | the `musig2` library (external) |
| `MemWallet`, node connection | same file, `protocol/src/nigiri.rs` | a BDK wallet, an Electrum client | funding a part of the deposit, signing it, `transaction_broadcast` | Bitcoin node (external) |
| `MusigImpl`, `TradeModel` | `rpc/src/server.rs`, `rpc/src/protocol.rs` | a map from trade id to a locked `TradeModel` | one handler per RPC | a Java client per trader |
| `Observable`, `ObservableHashMap` | `rpc/src/observable.rs` | values, each with the open channels that watch it | `observe`, `insert`, `remove`, `sync` | `WalletServiceImpl` |
| `WalletServiceImpl` | `rpc/src/wallet.rs` | a wallet behind an `RwLock`, the confidence map behind a `Mutex` | the polling loop, balance, addresses, confidence streams | the node, the RPC clients |
| Conversions, storage traits | `rpc/src/pb/convert.rs`, `rpc/src/storage.rs` | none | stateless | |
| Daemon, CLI, Java clients | `rpc/src/bin`, `rpc/src/main/java` | none of their own | call the RPCs in order | |
| `adaptor`, `bdktest` | `adaptor/`, `bdktest/` | | demonstrations and experiments | not used by the rest |

What makes this code hard:

* **Two actors, five rounds, no session id.**  A `RoundNParameter` carries
  nothing that ties it to a run of the protocol.  After a restart a trader may be
  handed parameters of the peer's earlier run.  The asserts of `round3` are the
  only barrier, and a comment calls them unnecessary.
* **A crash in the middle.**  Only `BMPContext` is meant to be persisted; keys,
  nonces and half-made signatures are lost while the deposit may be on chain.
* **MuSig2 nonces** must not sign twice; the code overwrites them after use.
* **Which key signs what.**  Nine contexts per trader, under two keys, named from
  "my" and "the peer's" side: each must meet its counterpart.
* **The chain decides.**  Deposits of two runs compete for the same coins; the
  two WarningTxs, the SwapTx, the claim and the redirect compete for the escrow,
  under relative locks of `t1 < t2` blocks.
* **A key is handed over** while the transactions it could conflict with stay valid:
  from round 5 on the buyer spends alone what `P'` locks, his own WarningTx included.
* **Broadcasts fail** half-way: refused, unreachable, or accepted with the answer
  lost.
* **Amounts** are split with `f32` arithmetic, and the fee of the deposit is what
  is left over when two halves, funded by two wallets that know nothing of each
  other, are merged by each trader for himself.
* **RPC handlers are not idempotent.**  A client that loses an answer repeats the
  call; the first copy may still be in the server.  `get_nonce_shares` replaces
  keys and nonces, `get_partial_signatures` uses nonces up, `init_trade` replaces
  the whole model, and a handler that fails half way keeps what it has done.
* **Confidence streams** are opened, read and dropped while one task follows the
  node, and start from whatever the map holds at that moment.  A transaction may
  be replaced or double spent, and the wallet that remembers it is lost with the
  daemon.

`PROJECT.json` lists these as hazards, each with its line and its properties.

## 2. Modules

```
F32 <- TradeTxs <- Chain <- BMPProtocol <- EscrowRefinement <- MCTrade
 ^                               ^               |
 |                               |               +-- INSTANCE Escrow
RedirectAmounts <- MCAmounts   BMPProtocol_proofs <- BMPSafety_proofs
                     |                                    |
DepositMerge <-------+             EscrowRefinement <- Settlement_proofs
RedirectAmounts, DepositMerge <- Amounts_proofs

TradeModel <- MusigService <- MCMusig
                    ^
              MusigService_proofs <- FairExchange_proofs

ObservableMap <- WalletService <- MCWallet
  |  ^   ^-- MCObservable   ^
  |  ObservableMap_proofs <- WalletService_proofs
  +-- INSTANCE WatchedMap
```

* **F32** — single-precision arithmetic (24-bit mantissa, round half to even,
  truncating conversion to `u64`), as `RedirectTx::build` uses it.
* **TradeTxs** — keys, scripts, the five kinds of transaction and MuSig2
  signatures, as pure operators.  A key share is its public point, the secret of
  a share is the same record; an aggregated key is the sequence of the two points
  in ascending order; a script is the sequence of points that must sign; a
  transaction is its own txid.  A partial signature is the record of everything
  it depends on (share, both nonces, adaptor point, message), so
  `verify_partial` accepts exactly one record.
* **Chain** — the node: first-seen mempool, blocks that take any closed part of
  the mempool, confirmations, BIP-68 locks.  External, from how the code and its
  tests use it.
* **BMPProtocol** — the two traders.  One action per round, one per way a round
  fails (`Round2Panics`, `Round3BroadcastFails`, …), `Broadcast` of a prepared
  transaction, `SpendWithKey` of the buyer who was given the secret of `P'`,
  `Restart`, `Mine`.  `net1` … `net4` are the parameters ever
  returned by a round; a round may be given *any* of them that has the right type
  and comes from the peer, which covers delay, loss, duplication and staleness.
* **Escrow** — the abstract specification.  Money goes from the wallets to the
  escrow.  From there it is swapped, the seller and the buyer taking their sides
  in either order, or moved to a warning that is redirected after `t1` or claimed
  after `t2` blocks.  Nothing is swapped before the seller releases her key; once
  she has, the buyer empties a warning of his own without waiting.
* **EscrowRefinement** — the refinement mapping, read off the chain and what was
  sent in round 4.
* **RedirectAmounts** — the split of the redirect against exact percentages.
* **DepositMerge** — the money of the deposit.  `GeneratePart` funds a trader's
  half with any selection of his coins that pays the amount, the fee and perhaps
  a change; `BuildAndMerge` builds the whole from both halves, takes the rest as
  the fee, and sorts what BDK shuffled.  The traders may have been told different
  amounts; `MergedFee` in TradeTxs is the same check on the fee within the trade.
* **Amounts_proofs** — the theorems about both computations on amounts, with what
  they need of sums, of sorting and of the rounding of f32.
* **BMPProtocol_proofs, BMPSafety_proofs, Settlement_proofs** — the theorems of
  the trade: agreement, then what the signatures are worth and that honest peers
  accept each other, then the chain and `Escrow`.
* **TradeModel** — the `TradeModel` of the RPC service as a record, and each RPC
  handler as an operator from a model and a request to the model it leaves behind
  and a reply (`<<>>` for an error).
* **MusigService** — two RPC services and their two clients.  Clients make the
  calls of `TradeProtocolClient.java` in order (`Call`), repeat one whose answer
  is overdue (`Retry`), begin again under the same trade id (`StartOver`), and
  pass on messages A to G.  On the server `GetTradeModel` takes the model out of
  the store and one `Handle…` action per RPC runs the handler under the lock of
  that model, so a late call may run on a model that is no longer in the store.
  A server may `Crash`; until the client starts over, its calls meet
  `MissingTrade`.
* **MusigService_proofs, FairExchange_proofs** — what each handler does to a model
  of the right type, as lemmas; the theorems of the RPC service.
* **ObservableMap** — `ObservableHashMap`: `Observe`, `InsertEntry`,
  `RemoveEntry`, `Sync`, and streams that are read and dropped at any time.
* **WatchedMap** — the abstract specification of ObservableMap: every key has a
  value or `None`, a watcher is shown the value of the moment he comes and then
  every change, once and in order.  No senders, no entries that come and go.
* **WalletService** — the connection task of `WalletServiceImpl` (`ApplyBlock`,
  `NoMoreBlocks`, `ApplyMempool`, `SyncTxConfidenceMap`, `Disconnect`) on top of
  ObservableMap, `Restart` of the daemon, clients that watch and are sent
  `ConfEvent`s, and a node that mines, reorganises, drops a transaction or
  replaces it by a rival (another spend of its coin).
* **ObservableMap_proofs, WalletService_proofs** — the theorems of the map, its
  refinement of WatchedMap, and of the wallet service on top of it.
* **MCTrade, MCAmounts, MCMusig, MCObservable, MCWallet** — constants for TLC.

### State and code

| Variable | Code |
|---|---|
| `terms` | `BMPContext.seller_amount`, `buyer_amount`: what each trader was told |
| `session` | which `BMPProtocol` value of the trader this is; its keys and nonces are fresh |
| `round` | `BMPProtocol.round`, moved by `check_round` before the round's work |
| `failed` | a round returned `Err` or panicked; the driver (`protocol/src/lib.rs`) stops there |
| `tik` | `p_tik`, `q_tik` |
| `part` | `deposit_tx.part_psbt` |
| `txs`, `musig` | the prepared transactions and their `TMuSig2`s |
| `net1` … `net4` | `Round1Parameter` … `Round4Parameter` values |
| `signed` | history: partial signatures made, for the properties only |
| `mempool`, `depth` | the node |
| `terms`, `part`, `merged` (DepositMerge) | both contexts' amounts; `deposit_tx.part_psbt` and `signed_psbt` of each trader |
| `models`, `store`, `draws` | every `TradeModel` ever created for the trade id, which of them is in `TRADE_MODELS`, and how many sets of nonces were drawn |
| `calls` | RPCs under way; `model` is the `Arc` a call has cloned, 0 before that |
| `step`, `waiting`, `repeats`, `stopped`, `kept`, `told` | the clients: position in the script, pending call, retries, last error, withheld value, messages exchanged |
| `map`, `streams` | `ObservableHashMap.map`; every channel opened, with all that was sent on it |
| `content`, `watchers` (WatchedMap) | what `ObservableMap` stands for: `Content`, `Watchers` |
| `chain`, `pool`, `made`, `dropped` | the node |
| `checkpoint`, `graph`, `latest`, `at` | the wallet's chain, its transactions and which spend of each coin was last in a mempool; the next step of `connect` |

### Abstractions

* Keys, nonces and signatures are symbolic: no forgery, no collision, fresh
  randomness never repeats.
* In the trade (TradeTxs, BMPProtocol) a half of the deposit is a coin and the
  amount it funds; its fee is that of one input with change (`PART_FEES`), and
  what remains of merge-and-sort is that both traders get the same order.  Round 2
  fails when the fee that is left would be negative.  Coins with amounts, change
  and several inputs are in DepositMerge, which shows that this is enough: if
  both were told the same they build the same.  The deposit's own input
  signatures are not modelled (the wallets sign in `round2`, and a deposit that
  reaches a node is fully signed).
* DepositMerge: BDK's coin selection is any selection that covers amount and fee;
  it adds a change output exactly if that is worth its own fee and not dust.  The
  check that the peer's inputs are not one's own is left out, because wallets
  share no coins.  Sizes are those of Taproot key spends; the error of the
  foreign inputs' weight (a TODO) has no effect, because the merged fee is
  absolute.
* `next_unused_address` yields one address per wallet.
* A buyer who was given the secret of `P'` spends one output it locks at a time,
  to his wallet, without a lock; he sets the fee himself, so the amount is left
  out (0).  No other aggregated secret is ever completed by the code, so nobody
  else spends with a key.  He spends with the secret of his present session, and a
  spend that conflicts with one in the mempool is refused like any other.
* A failed round leaves the session's fields as they were: nothing reads them
  afterwards, because the driver returns at the first error.
* A transaction is broadcast only if the node verifies its witness; a refused
  broadcast changes nothing.  In the trade there is no replacement (RBF), no fee
  policy and no chain reorganisation.
* Confirmations are counted up to `t2`, the largest lock in the code.
* RPC: the messages to sign are fixed dummy strings in the code, one per context,
  so a context stands for its message.  Amounts, fee rates, addresses and
  receivers are stored by the handlers and read by none; they and the decoding of
  requests are left out.  A crash empties the store, which is in memory only; a
  model that is lost stays in `models`, which the properties read, and no call
  reaches it.  The code has no recovery: a buyer whose server crashed has lost
  his adaptor signature, and the properties show that the peer gains no share by
  it.  An error of musig2's aggregation is modelled by its cause: a
  partial signature made for other keys, nonces, adaptor point or context.
* RPC clients: `TradeProtocolClient` is a sequential test of both sides.  The
  model lets the two sides run concurrently and adds deadlines and retries, which
  gRPC clients have and the service does not guard against.
* Wallet: the emitter gives the block after the last one that wallet and node
  agree on; every transaction concerns the wallet; a transaction that leaves a
  block goes back to the mempool if its coin is still there.  Of two rivals the
  wallet shows the confirmed one, else the one that was last in a mempool, else
  either (BDK orders transactions that were only ever in stale blocks by what the
  model does not have).  The mempool's times are taken to grow from one rival to
  the next.  What the mempool drops is not reported: the emitter has no such
  event.  The RPC error of `Disconnect` may hit any call to the node.
  Fetching a block and applying it are one step: nobody reads the wallet between.

## 3. Runs

| Run | Instance | Shows |
|---|---|---|
| `restarts` | each trader may restart once at any point; two coins per wallet | `TypeOK`, `NonceSingleUse`, `AgreedTrade`, `TwoOfTwo`, `FinalWitnessesValid` hold with every stale or repeated parameter |
| `settlement` | restarts, one coin per wallet, failing wallets and nodes, amounts that agree, disagree, or are too small | `RedirectWindow` (until `t2` warned funds go to the DAO, or to a buyer who was given the key of his own warning), `SwapGivesBuyerKey`, `KeyGivesSellerSwap`, `HonestPeersAccept`; the protocol implements `Escrow` (`ImplementsEscrow`) |
| `live` | restarts | `SetupCompletes`: two traders who do not restart finish five rounds with the deposit mined; `SellerCanExit`, `BuyerCanExit`: a trader who finished round 4 gets the escrow moved without the peer; `SellerCanSwap`: the adapted SwapTx is mined unless a WarningTx comes first; `BuyerCanTake`: so is the spend of a buyer who was given the secret of `P'`, with or without the SwapTx |
| `amounts` | 40 amounts around every power of two up to 2^31 satoshi; two coins per wallet and eight pairs of terms | the f32 shares are accurate to f32's resolution and leave a miner fee (`SharesAccurate`, `RedirectPaysFee`); the two traders merge the same deposit exactly if they were told the same (`BothMergeTheSame`), it pays the fee rate (`MergedFeeRate`), and neither pays for the other (`EachPaysHisShare`) |
| `rpc_retries` | each client repeats one call, any, or the seller's starts over, or the buyer's server crashes and his client starts over | `TypeOK`, `NonceNotReused`, `BuyerHoldsAdaptorSig`, `FairExchange` |
| `rpc_closes` | each client repeats one of the calls after the signing | `TradeCloses` |
| `observable` | two keys, two values, three streams | `StreamsUpToDate`, `NoRepeatedItem`, `PurgedBySync`; the map implements `WatchedMap` (`ImplementsWatchedMap`) |
| `wallet` | two rivals and a third transaction, three blocks or dropped transactions, one watcher, restarts, a connection that may end | `ConfidencesCoherent`, `NoRivalsInMap`, `WatchersLearnTruth` (while the connection lasts; a transaction the mempool dropped is only not shown as confirmed) |
| `doc_redirect`, `doc_can_warn`, `amounts_large`, `doc_swap_reveals` | violations | findings 1 to 4 below |

**Bounds.**  `MaxSession = 1` lets each trader start twice, so that a trader in
either run can meet parameters of either run of the peer: every pairing of
stale and fresh parameters occurs, with the two orders of the points in each key
(`MCLess`).  A third session would only add another copy of the same staleness.
Two coins let the second deposit of a trader both compete with and avoid the
first one.  `Faulty` names the traders whose wallet or node may fail.  The
relative locks are the code's own `t1 = 1` and `t2 = 2`.  f32's behaviour is
uniform between powers of two, so the windows sit around them.

One repeat for each client (`OneEach`) gives every call a late twin and every
model a successor under the same id, at both servers at once.  Only the buyer's
server crashes (`Crashing`), the one that holds the adaptor signature; a crash
counts as his repeat, and starting over after it is allowed beyond that.  Without
a crash only the seller's client starts over (`StartingOver`), as his repeat: the
buyer's second model is there after a crash, with the first one's messages still
on their way.  `MaxStreams = 3`
lets a stream of an entry be dropped while another watches it and a third comes,
`MaxLog = 3` lets it see a value come, change and go.  `MaxEvents = 3` counts the
node's blocks and dropped transactions: it is the least that has a block, and a
reorganisation that replaces it by two.  The coins of `amounts` leave a change,
too little for a change, and nothing at all to spare; the terms differ by nothing,
by less than the fees, and by more; one deposit is dust.  The merge runs at the
start of one window of the f32 split only, since the two share no state.  The
`Near` terms of `settlement` differ by less than the fees: both traders get as
far as building different deposits, and must reject each other.

`CHECK_DEADLOCK FALSE` is stated where the system may stop: a trade ends, or both
traders or clients have failed; the node makes no more blocks than its bound.

**Fairness.**  `FairRounds(r)`: the driver calls the next round as soon as the
peer's parameter is there.  It is stated as `[]<>~RoundReady(r)`, which with no
restarts is weak fairness of r's rounds: only a step of r takes a ready round
away.  `FairMining`: miners eventually take everything in the mempool.
`FairExit(r)`: a trader who wants out keeps trying to broadcast what he holds: the
WarningTx, the claim and the redirect, and the seller the SwapTx too once the buyer
has taken his output of the deposit, after which no WarningTx is possible.
`LiveSpec` assumes mining only; each property states what it assumes of the
traders, and `SellerCanExit` and `BuyerCanExit` assume nothing of the peer, who
may stop, restart, or broadcast any transaction he has.  `SellerCanSwap`
assumes that the seller keeps broadcasting the SwapTx (weak fairness: it stays
acceptable until the escrow is spent), and `BuyerCanTake` that the buyer keeps
spending with the secret of `P'`.  `Progress(r)` (RPC): a
client makes its calls and repeats one that is not answered, the server works on
what it got; starting over is never forced.  `WalletService!FairSpec`: tokio runs
the connection task and the clients read their streams; the node owes nothing,
and its blocks and drops are bounded, so that it comes to rest.  A restart ends
every stream, so the property speaks of those opened after the last one.

## 4. Findings

1. **`doc_redirect`** — `concept/SingleTxOverview.md` gives the two WarningTxs the
   other keys than the code: output 0 of the seller's has key spend `P'`, so that a
   buyer who was given the secret of `P'` takes it at once; the buyer's he cannot
   empty, and the seller can still redirect it.  `WarningTx::build` locks the
   seller's by `q_tik` and the buyer's by `p_tik`: with the same secret he empties
   his own at once, before `t1`, and cannot touch hers.
2. **`doc_can_warn`** — the document says that after the deposit is broadcast each
   trader can post a WarningTx.  `round3` broadcasts the deposit before the
   WarningTx signatures are exchanged; if the peer fails in its `round3`, the
   trader has a deposit and no WarningTx.
3. **`amounts_large`** — the DAO's shares are meant to add up to 100%; in f32 they
   exceed the amount, and near 71.6 BTC by more than the fee set aside.
4. **`doc_swap_reveals`** — a comment in `rpc/src/protocol.rs` says the buyer's
   adaptor signature ensures that the seller's share is revealed when the swap is
   published.  A `get_nonce_shares` that is handled after the signing replaces the
   seller's share and the adaptor point in the buyer's model (a TODO there asks
   for a check).  If it carries the keys of another attempt of the seller, the
   buyer's `close_trade` later rejects the secret that the swap reveals.

The seller's `round4` returns the signed SwapTx to the buyer unpublished; a comment
marks this as debugging.  Its consequence is in the model: from then on the buyer
can take his output of the deposit, or post his WarningTx and empty it with both
deposits.  The comment at `protocol_musig_adaptor.rs:814`, "there is no risc that
Alice may publish any transaction messing with it", holds only once the SwapTx is on
chain: before, either WarningTx spends the output that the buyer is about to take.
`SwapGivesBuyerKey` and `BuyerCanTake` say this.

## 5. Proofs

Every theorem below holds for all values of the constants, under the assumptions
named with it.  Where a theorem states a property, its name is in parentheses.

### The trade

`BMPProtocol_proofs`, `BMPSafety_proofs` and `Settlement_proofs`, for every
number of restarts, every set of coins and coin selection, every order of the
points, every set of amounts and every choice of failing wallets and nodes.
Assumptions: `BoundAssumption` (`MaxSession` is a natural number),
`CoinsAssumption` (selected coins exist), `LessAssumption` (of two different
points exactly one is smaller), `TermsAssumption`, `FaultyAssumption`.

* **TypeCorrect** (`TypeOK`), **NoncesUsedOnce** (`NonceSingleUse`),
  **TradersAgree** (`AgreedTrade`);
* **OnlyBothSpend** (`TwoOfTwo`), **CompleteWitnessesVerify**
  (`FinalWitnessesValid`), **SecretForSwap** (`KeyGivesSellerSwap`);
* **HonestPeersAgree** (`HonestPeersAccept`);
* **WarnedCanRedirect** (`RedirectWindow`), **SwapGivesTrade**
  (`SwapGivesBuyerKey`);
* **KeepsPromise** (`ImplementsEscrow`), for one coin per wallet
  (`OneCoinEach`, as in the run `settlement`).  With more coins the deposits of
  two sessions may both be mined, and there are two escrows.

The inductive invariant of the first three is `IInv`, a conjunction of named
parts:

* `TypeOK`, and `StageInv`: keys are aggregated only from round 2 on, contexts are
  signed only from round 3 on, and a session that has not failed has done what
  its round counter says.
* `NonceInv`, `NonceSingleUse`: a session in round 2 holds a nonce of its own in
  every context, and a nonce that has signed belongs to an earlier session or to
  a current one that entered round 3.  Without the second half, round 3 could
  meet a nonce that is already used.
* `KeyInv`: a trader's own shares are those of the current session, and a
  `Round1Parameter` carries the shares of one past or present session.
* `Net2Inv`: each `Round2Parameter` was built for one pair of sessions, there is
  one for each session of its sender, and two of them never cross: it cannot be
  that each was built with shares of a later session of the peer than the session
  of the peer's own parameter.  This is what makes stale parameters harmless.
* `BuiltInv`: a trader who completed round 2 has announced the keys and the
  deposit he holds, and his transactions are a function of them and his terms.
* `SignedInv`: whoever has signed saw the peer announce the same keys and deposit.

`AgreedTrade` follows: if both have signed, each saw the other's aggregates and
deposit, the aggregates contain shares of one session of each trader, and the
transactions are functions of the deposit and the keys.

`SInv` adds what a session and each message it sent have to do with each other:
`TraderInv` (a trader is fresh, or in a trade with one session of the peer: keys
aggregated from both sessions' shares, a deposit of both sessions' coins, each
context new or signed with the peer's session's nonce), `OfferInv`,
`AnnounceInv`, `PartialsInv`, `SwapInv` (what a message carries is what its
session offered, announced, signed), and `SecretInv` (the secret of `P'` comes
from a SwapTx under the buyer's own `Q'`).  A restart replaces the session, and
the messages outlive it, so each part names the session it is about.  `TwoOfTwo`
is inductive with it, because a transaction reaches the node only with a witness
the node verifies, and round 4 verifies the peer's signature before it makes one.  Its other case is the
buyer's spend with a key that was given away (`GivenAway`): he holds the secret of
`P'` only if a seller has sent a SwapTx adapted with her point of that key.

`ChainInv` is about the chain: only transactions of seven shapes are on it (the
trade's five, the buyer's spend of the deposit and that of his own warning, the
last only with a key that was given away), nothing is spent twice, every relative
lock was kept, confirmations run from 1 to `t2`.  `RedirectWindow` needs the locks
and what `ChainInv` says of emptied warnings; the rest of it, and
`SwapGivesBuyerKey`, follow from `SInv` and `ChainInv`.  `ReleaseInv` says that
traders sign only for a deposit that reached the node, and that a SwapTx is complete
only once it was sent in round 4: whatever is swapped or emptied was released.
`PhaseInv` says which sets of transactions the chain can hold with one coin per
wallet: one for each of the nine places where `Escrow` keeps the funds.

### The RPC service

`MusigService_proofs` begins with lemmas on each handler as an operator: the type
of the model and of the reply, and which fields it leaves alone.  It and
`FairExchange_proofs` have, for any number of repeats and crashes, any choice
of RPCs that are repeated, of clients that start over and of servers that crash,
and any interleaving of late and concurrent calls (`RepeatsAssumption`):

* **TypeCorrectness** (`TypeOK`);
* **NoncesAreUsedOnce** (`NonceNotReused`);
* **BuyerHoldsTheAdaptorSig** (`BuyerHoldsAdaptorSig`);
* **ExchangeIsFair** (`FairExchange`).

The inductive invariant is `TypeInv` (models, arguments of calls, messages and
kept values; a model that was given the peer's shares has aggregated them) with
`NonceInv`: the nonces of a model are of one draw, an unused draw is in one
model only, and what has signed is of a draw that no model holds unused.

The exchange needs `ExchangeInv` besides, which follows what the clients know:

* `SigsInv`: a signature on the swap names the model and the draw it was made
  with, and the draw of the peer's, which the peer's client had told; what clients
  pass on and what late calls carry came from a server.
* `IdInv`: a client waits for at most one of its calls, so that only the models
  that call may run on, or the one in the store, are *current* for it.
* `OfferInv`: of the draws of one model, the client tells at most one.  A model may
  draw often, but the client that has told a draw is past that call, and one that
  starts over waits for a new model.
* `AggInv`: the buyer's model has the aggregated swap only from a pair of
  signatures of one trade.  As each model's client has told one draw, and a nonce
  signs once, such a pair is unique, and the model never gets another swap.
* `WithheldInv`: the buyer's client passes on the signature on the swap that it
  withheld only after the model that made it has aggregated the swap.  At
  `sign_deposit_tx` the signature that it kept is the last one of the only current
  model that could sign, so that a late copy of an earlier call cannot put another
  in its place.
* `FinalsInv`: the seller's complete swap was made of that signature.  With
  `WithheldInv` this is `BuyerHoldsAdaptorSig`.
* `ClosingInv`: the buyer's server has a key only if a complete swap with the
  seller's secret exists, and the seller's only if the buyer's has one; the
  secrets that the clients tell came from the calls that made that so.  With the
  uniqueness of pairs this is `FairExchange`.

### The observable map and the wallet service

For any keys, values and number of streams, `ObservableMap_proofs`:

* **WatchersUpToDate** (`StreamsUpToDate`), **NothingTwice**
  (`NoRepeatedItem`), **SyncPurges** (`PurgedBySync`);
* **Refinement** (`ImplementsWatchedMap`).

The inductive invariant adds `SendersInv` to the two properties: an entry's
senders are streams of its key, so that an update reaches nobody else.

For any transactions, rivals, number of blocks, of dropped transactions and of
restarts, `WalletService_proofs`:

* **NoRivalsShown** (`NoRivalsInMap`), **OneViewShown** (`ConfidencesCoherent`);
* `ClientsUpToDate` carries `StreamsUpToDate` over to the wallet service, whose
  restarts end every stream, provided that every confidence is a value of the map
  (`ConfidencesAreValues`: `Value` is a parameter of ObservableMap).  It says no
  more than `WatchersUpToDate` and has no run of its own.

Coherence needs `ChainInv`: blocks are numbered in the order in which they were
made, in the node's chain and in the wallet's, and the two fork once, so that
`Agreed` counts a common prefix and `ApplyBlock` extends it.

### The amounts

`Amounts_proofs` has, for any finite wallets, coin values and pairs of amounts, any
selection of coins and any order in which BDK shuffles them
(`CoinsAssumption`, `TermsAssumption`; `OrderAssumption`: outpoints are strictly
and totally ordered, and so are the scripts of a deposit, as `sort` needs them):

* **MergeIsSame** (`BothMergeTheSame`), **MergePaysFeeRate** (`MergedFeeRate`),
  **MergeIsFair** (`EachPaysHisShare`).

The inductive invariant `MergeInv` says where everything came from: a half is the
one that some selection of its trader's coins funds, and what a trader merged is
built from both halves and his own terms.  Three things follow from it.

* *Sums.*  `InputSum` and `OutputSum` are folds, and the provers cannot instantiate
  a theorem on induction with an operator.  A finite set has, among the subsets
  for which a claim is false, one that contains no other (`Smallest`); the claim
  holds for what is left of that subset when the fold takes its first element, and
  so for the subset.  `SumProps` and `SumUnion` are shown in this way.
* *Sorting.*  The rank of an element is the number of elements before it.  Ranks
  are distinct, so the sequence by ranks exists and is the only one in order
  (`SortExists`, `SortUnique`): whatever came in, `sort` gives the same.
* *Balance.*  Each half pays its recipient, the fee of its own inputs and outputs,
  its change and less than what a change must be worth (`HalfPays`); the merged
  fee is what both halves left over.

For every amount below 2^31 (`WindowAssumption`), however large the windows are:

* **RedirectSplitsAccurately** (`SharesAccurate`);
* **RedirectLeavesFee** (`RedirectPaysFee`), if amounts are in satoshi (`Unit = 1`).
  In larger units it is false, as the run `amounts_large` shows.
* **RedirectStaysAffordable** (`RedirectAffordable`): below 2^32 satoshi, counted
  in two (`Unit` 1 or 2), the outputs do not exceed the input; `amounts_large`
  has its counterexample above that.

An exponent exists for every amount (`ExponentOf`), so the conversion is exact
below 2^23 and off by half a unit `u` above (`Converted`).  The product of two
mantissas, computed from halves of 12 bits, is the true one rounded to 24 bits
(`MulBy`), and truncation loses less than one (`Truncated`).  `ExactBounds` and
`CoarseBounds` add these errors up: a share is off by one satoshi at most if the
amount was exact, and otherwise by the resolution.  That is not enough for the
fee, where all errors at their worst would add up to 224 satoshi, 4 more than
there are.  But the rounded product is an integer: five times it is above three
times the mantissa by 4 at most, never by 4.5, and so on for the other cases, and
the shares exceed the amount by 204 satoshi at most.

### Only model-checked

All safety properties that a passing run checks are proved.  What is not:

* liveness (`SetupCompletes`, `SellerCanExit`, `BuyerCanExit`,
  `SellerCanSwap`, `BuyerCanTake`, `TradeCloses`, `WatchersLearnTruth`): fairness is beyond the
  prover.

## 6. Not modelled

* Balance and unspent outputs of the wallet service are reads of BDK's wallet
  that change nothing; the next address is a counter of BDK that the code neither
  persists nor reads again.
* Conversions (`rpc/src/pb/convert.rs`) other than `ConfEvent`: each copies its
  fields or rejects malformed bytes, without state.  `rpc/src/storage.rs` is
  type-level; `rpc/src/pb` otherwise generated.
* The command line and the Java wallet client: one call each, no state.
* `adaptor/`: a sequential demonstration of one adaptor signature, all of whose
  steps `TMuSig2` repeats.  `bdktest/`: experiments no other crate uses.
* The signatures on the deposit's own inputs, and a server that forges messages.

## 7. Plan

Every safety property and both refinements are proved; what remains open is the
liveness, which the prover cannot state.  The next steps are of the model: the
recovery from a crash, once the code persists `BMPContext` and the wallet service
its revealed addresses, and the closing of a trade over RPC once its messages are
the real ones.
