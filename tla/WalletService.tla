---------------------------- MODULE WalletService ----------------------------
(***************************************************************************)
(* rpc/src/wallet.rs: WalletServiceImpl.  One task follows the node, block *)
(* by block, applies its blocks and mempool to the wallet and then brings  *)
(* the map of transaction confidences into line; RPC clients watch the     *)
(* confidence of a transaction at any moment in between.                   *)
(*                                                                         *)
(* The node and BDK's wallet and emitter are external: blocks are numbered *)
(* and hold transactions, a reorganisation replaces the tip by two blocks  *)
(* and puts its transactions back into the mempool, and the emitter hands  *)
(* out the block after the last one the wallet and the node agree on.  Two *)
(* transactions that spend the same coin are rivals: at most one of them   *)
(* is in the chain or the mempool, and a later one may replace the other.  *)
(* Every transaction is taken to concern the wallet.                       *)
(***************************************************************************)
EXTENDS ObservableMap, SequencesExt

CONSTANTS
    Spends,        \* the coin that each transaction spends
    PaysMore(_, _),\* the order of the transactions by their fees
    MaxEvents,     \* bound: blocks the node makes and transactions it drops
    MayFail        \* whether a call to the node may fail

VARIABLES
    chain,      \* the node's best chain, a sequence of blocks
    pool,       \* the node's mempool
    made,       \* how many blocks were made: the next block's number
    dropped,    \* how many transactions the mempool dropped
    checkpoint, \* the wallet's chain (latest_checkpoint)
    graph,      \* the transactions the wallet has seen
    latest,     \* per coin: its spend that was last in a mempool (last_seen)
    at          \* what the connection task does next

node    == <<chain, pool, made, dropped>>
wallet  == <<checkpoint, graph, latest>>
wvars   == <<ovars, node, wallet, at>>

Txid == Key
Coin == { Spends[tx] : tx \in Txid }
ASSUME SpendsAssumption == DOMAIN Spends = Txid /\ None \notin Txid

Init ==
    /\ ObservableInit
    /\ chain = <<>> /\ pool = {} /\ made = 0 /\ dropped = 0
    /\ checkpoint = <<>> /\ graph = {} /\ latest = [c \in Coin |-> None]
    /\ at = "blocks"

-----------------------------------------------------------------------------
(* The node.                                                               *)

Confirmed(blocks) == UNION { blocks[h].txs : h \in DOMAIN blocks }

Rivals(tx) == { u \in Txid : u # tx /\ Spends[u] = Spends[tx] }

\* What is left of txs when `blocks` are the chain.
Without(txs, blocks) ==
    { tx \in txs : ({tx} \cup Rivals(tx)) \cap Confirmed(blocks) = {} }

\* A transaction reaches the mempool and replaces a rival that pays less.
Publish ==
    /\ \E tx \in Without(Txid \ pool, chain) :
        /\ \A u \in Rivals(tx) \cap pool : PaysMore(tx, u)
        /\ pool' = (pool \ Rivals(tx)) \cup {tx}
    /\ UNCHANGED <<ovars, chain, made, dropped, wallet, at>>

\* The mempool drops a transaction: it is full, or the transaction has expired.
DropTx ==
    /\ made + dropped < MaxEvents
    /\ \E tx \in pool : pool' = pool \ {tx}
    /\ dropped' = dropped + 1
    /\ UNCHANGED <<ovars, chain, made, wallet, at>>

Block(n, txs) == [id |-> n, txs |-> txs]

\* What the next block may hold: a miner may know other transactions.
Minable(blocks) ==
    { txs \in SUBSET Without(Txid, blocks) : \A tx \in txs : Rivals(tx) \cap txs = {} }

MineBlock ==
    /\ made + dropped < MaxEvents
    /\ \E txs \in Minable(chain) : chain' = Append(chain, Block(made + 1, txs))
    /\ pool' = Without(pool, chain')
    /\ made' = made + 1
    /\ UNCHANGED <<ovars, dropped, wallet, at>>

Reorganise ==
    /\ Len(chain) > 0 /\ made + dropped + 2 <= MaxEvents
    /\ \E txs \in Minable(Front(chain)) :
          chain' = Front(chain) \o << Block(made + 1, txs), Block(made + 2, {}) >>
    /\ pool' = Without(pool \cup Last(chain).txs, chain')
    /\ made' = made + 2
    /\ UNCHANGED <<ovars, dropped, wallet, at>>

-----------------------------------------------------------------------------
(* The confidence of a transaction, as a wallet with these blocks and      *)
(* transactions sees it.                                                   *)

\* next_height - conf_height
NumConfirmations(blocks, height) == (Len(blocks) + 1) - height

\* TxConfidence: the block that confirms it (0 if none), and how deep it is.
TxConfidence(blocks, tx) ==
    IF tx \in Confirmed(blocks)
    THEN LET h == CHOOSE i \in DOMAIN blocks : tx \in blocks[i].txs
         IN  [block |-> blocks[h].id, num_confirmations |-> NumConfirmations(blocks, h)]
    ELSE [block |-> 0, num_confirmations |-> 0]

\* Mutant: an entry that is there is not brought up to date.
TxConfidenceEntriesNew(blocks, txs) ==
    [tx \in txs |-> IF ValueOf(tx) # None THEN ValueOf(tx) ELSE TxConfidence(blocks, tx)]

\* tx_confidence_entries
TxConfidenceEntries(blocks, txs) == [tx \in txs |-> TxConfidence(blocks, tx)]

-----------------------------------------------------------------------------
(* The connection task.                                                    *)

\* How many blocks of the wallet's chain are on the node's.
Agreed ==
    LET same == { h \in 1 .. Len(checkpoint) : h <= Len(chain) /\ checkpoint[h] = chain[h] }
    IN  Cardinality(same)

\* next_block, and apply_block_connected_to: what the wallet had beyond the
\* block it connects to is gone.
ApplyBlock ==
    /\ at = "blocks" /\ Agreed < Len(chain)
    /\ checkpoint' = Append(SubSeq(checkpoint, 1, Agreed), chain[Agreed + 1])
    /\ graph' = graph \cup chain[Agreed + 1].txs
    /\ UNCHANGED <<ovars, node, latest, at>>

\* next_block has nothing more; the mempool is asked for in another call, and
\* the node may have moved on in between.
NoMoreBlocks ==
    /\ at = "blocks" /\ Agreed = Len(chain)
    /\ at' = "mempool"
    /\ UNCHANGED <<ovars, node, wallet>>

\* mempool and apply_unconfirmed_txs.  Of rivals the one in the mempool entered
\* it last, so its time is the latest.  What the mempool dropped is not reported.
ApplyMempool ==
    /\ at = "mempool"
    /\ graph' = graph \cup pool
    /\ latest' = [c \in Coin |-> IF \E tx \in pool : Spends[tx] = c
                                 THEN CHOOSE tx \in pool : Spends[tx] = c
                                 ELSE latest[c]]
    /\ at' = "sync"
    /\ UNCHANGED <<ovars, node, checkpoint>>

\* Mutant: the entries are written one by one, with the locks released between.
SyncTxConfidenceMapOneByOne ==
    /\ at = "sync"
    /\ \E tx \in graph : InsertEntry(tx, TxConfidence(checkpoint, tx))
    /\ at' \in {"sync", "blocks"}
    /\ UNCHANGED <<node, wallet>>

\* wallet.transactions: what is confirmed, then of every other coin the spend
\* that was last in the mempool, or one that was only ever in a stale block.
Canonical(tx) ==
    \/ tx \in Confirmed(checkpoint)
    \/ tx \in Without(graph, checkpoint) /\ latest[Spends[tx]] \in {tx, None}

\* BDK settles which of several stale spends it takes; here it is any.
Transactions ==
    LET txs == { tx \in graph : Canonical(tx) }
    IN  { view \in SUBSET txs : \A tx \in txs : tx \in view <=> Rivals(tx) \cap view = {} }

\* sync_tx_confidence_map holds the wallet's lock and the map's.  Then the task
\* waits for the next tick.
SyncTxConfidenceMap ==
    /\ at = "sync"
    /\ \E txs \in Transactions : Sync(TxConfidenceEntries(checkpoint, txs))
    /\ at' = "blocks"
    /\ UNCHANGED <<node, wallet>>

\* A call to the node fails: connect returns the error, nobody calls it again.
Disconnect ==
    /\ MayFail /\ at \in {"blocks", "mempool"}
    /\ at' = "ended"
    /\ UNCHANGED <<ovars, node, wallet>>

\* The daemon is started again.  Its wallet is not persisted: it follows the
\* chain from the beginning, and the streams of its clients have ended.
Restart ==
    /\ map' = <<>>
    /\ streams' = [s \in DOMAIN streams |-> Closed(streams[s])]
    /\ checkpoint' = <<>> /\ graph' = {} /\ latest' = [c \in Coin |-> None]
    /\ at' = "blocks"
    /\ UNCHANGED node

-----------------------------------------------------------------------------
(* RegisterConfidenceNtfn and its clients.                                 *)

\* Mutant: a client is told Unconfirmed of a transaction that is not there.
ConfEventNeverMissing(item) ==
    [confidence_type |-> IF item # None /\ item.block # 0 THEN "Confirmed" ELSE "Unconfirmed",
     num_confirmations |-> IF item # None THEN item.num_confirmations ELSE 0,
     block |-> IF item # None THEN item.block ELSE 0]

\* What an item is sent to the client as; the default ConfEvent for None.
ConfEvent(item) ==
    IF item = None THEN [confidence_type |-> "Missing", num_confirmations |-> 0, block |-> 0]
    ELSE [confidence_type |-> IF item.block # 0 THEN "Confirmed" ELSE "Unconfirmed",
          num_confirmations |-> item.num_confirmations, block |-> item.block]

GetTxConfidenceStream == \E tx \in Txid : Observe(tx) /\ UNCHANGED <<node, wallet, at>>
ReadItem   == \E s \in DOMAIN streams : Read(s) /\ UNCHANGED <<node, wallet, at>>
DropStream == \E s \in DOMAIN streams : Drop(s) /\ UNCHANGED <<node, wallet, at>>

Next ==
    \/ Publish \/ DropTx \/ MineBlock \/ Reorganise
    \/ ApplyBlock \/ NoMoreBlocks \/ ApplyMempool \/ SyncTxConfidenceMap \/ Disconnect
    \/ Restart
    \/ GetTxConfidenceStream \/ ReadItem \/ DropStream

Spec == Init /\ [][Next]_wvars

\* The task is scheduled, and the clients read what they are sent.
FairSpec ==
    /\ Spec
    /\ WF_wvars(ApplyBlock) /\ WF_wvars(NoMoreBlocks)
    /\ WF_wvars(ApplyMempool) /\ WF_wvars(SyncTxConfidenceMap)
    /\ \A s \in 1 .. MaxStreams :
          WF_wvars(s \in DOMAIN streams /\ Read(s) /\ UNCHANGED <<node, wallet, at>>)

-----------------------------------------------------------------------------

\* What the node would say of the transaction.
Event(type, num, block) ==
    [confidence_type |-> type, num_confirmations |-> num, block |-> block]
Truth(tx) ==
    IF tx \in Confirmed(chain)
    THEN LET h == CHOOSE i \in DOMAIN chain : tx \in chain[i].txs
         IN  Event("Confirmed", Cardinality(h .. Len(chain)), chain[h].id)
    ELSE Event(IF tx \in pool THEN "Unconfirmed" ELSE "Missing", 0, 0)

\* The node knows the transaction, or a rival because of which it is not to come.
Decided(tx) == ({tx} \cup Rivals(tx)) \cap (pool \cup Confirmed(chain)) # {}

\* Once the node has come to rest, every client that still watches has been
\* told the truth about its transaction last -- how deep it is in which block,
\* or Missing if it lost to a rival -- whenever it registered: before the
\* transaction existed, between a block and the sync, before a reorganisation
\* or after a restart; unless the connection has ended.  Of a transaction that
\* the mempool dropped for no rival, it was at least not told that it is
\* confirmed.
WatchersLearnTruth ==
    <>[](at # "ended" =>
           \A s \in DOMAIN streams : streams[s].open =>
               LET tx == streams[s].key
                   told == ConfEvent(Last(streams[s].log))
               IN  /\ streams[s].read = Len(streams[s].log)
                   /\ IF Decided(tx) THEN told = Truth(tx)
                                     ELSE told.confidence_type # "Confirmed")

\* No two transactions of which only one can come about are in the map at once
\* (wallet.transactions yields the canonical ones only, and sync removes the
\* others in the same step).
NoRivalsInMap ==
    \A t, u \in DOMAIN map :
        map[t].value # None /\ map[u].value # None => u \notin Rivals(t)

\* The map shows one state of the wallet (sync_tx_confidence_map holds both
\* locks): transactions of the same block never have different depths.
ConfidencesCoherent ==
    \A t, u \in DOMAIN map :
        map[t].value # None /\ map[u].value # None /\ map[t].value.block = map[u].value.block
            => map[t].value = map[u].value
=============================================================================
