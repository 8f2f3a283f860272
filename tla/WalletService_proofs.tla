----------------------- MODULE WalletService_proofs -----------------------
(***************************************************************************)
(* Proofs about WalletService, for any transactions, rivals and number of  *)
(* blocks: the map of confidences never holds two rivals, it always shows  *)
(* one state of the wallet, and its clients have been told what it shows.  *)
(***************************************************************************)
EXTENDS WalletService, ObservableMap_proofs, FiniteSetTheorems

BlockRec == [id : Nat, txs : SUBSET Txid]

-----------------------------------------------------------------------------
(* The inductive invariant.                                                *)

\* Blocks are numbered in the order in which they were made, up to n.
Numbered(blocks, n) ==
    /\ \A h \in 1 .. Len(blocks) : blocks[h].id \in 1 .. n
    /\ \A g, h \in 1 .. Len(blocks) : g < h => blocks[g].id < blocks[h].id

\* The two chains have their first n blocks in common, and no other block.
Fork(blocks, others, n) ==
    /\ n <= Len(blocks) /\ n <= Len(others)
    /\ \A h \in 1 .. n : blocks[h] = others[h]
    /\ \A h \in 1 .. Len(blocks) : n < h /\ h <= Len(others) => blocks[h] # others[h]

\* What the wallet follows is, or was, a chain of the node.
ChainInv ==
    /\ made \in Nat
    /\ chain \in Seq(BlockRec) /\ checkpoint \in Seq(BlockRec)
    /\ Numbered(chain, made) /\ Numbered(checkpoint, made)
    /\ \E n \in Nat : Fork(checkpoint, chain, n)

WInv == ChainInv /\ NoRivalsInMap /\ ConfidencesCoherent

-----------------------------------------------------------------------------
(* The blocks of the node and of the wallet.                               *)

\* A prefix of a chain and one more block.
LEMMA Extended ==
    ASSUME NEW s \in Seq(BlockRec), NEW n \in 0 .. Len(s), NEW b \in BlockRec
    PROVE  /\ SubSeq(s, 1, n) \in Seq(BlockRec)
           /\ Len(SubSeq(s, 1, n)) = n
           /\ \A h \in 1 .. n : SubSeq(s, 1, n)[h] = s[h]
           /\ Append(SubSeq(s, 1, n), b) \in Seq(BlockRec)
           /\ Len(Append(SubSeq(s, 1, n), b)) = n + 1
           /\ \A h \in 1 .. n : Append(SubSeq(s, 1, n), b)[h] = s[h]
           /\ Append(SubSeq(s, 1, n), b)[n + 1] = b
  <1> DEFINE p == SubSeq(s, 1, n)
  <1>1. Len(s) \in Nat /\ n \in Nat /\ n <= Len(s)
    BY LenProperties
  <1>2. \A i \in 1 .. n : s[i] \in BlockRec
    BY <1>1, ElementOfSeq
  <1>3. p \in Seq(BlockRec) /\ Len(p) = n /\ \A h \in 1 .. n : p[h] = s[h]
    BY <1>1, <1>2, SubSeqProperties
  <1> HIDE DEF p
  <1>4. /\ Append(p, b) \in Seq(BlockRec) /\ Len(Append(p, b)) = n + 1
        /\ \A h \in 1 .. n : Append(p, b)[h] = p[h]
        /\ Append(p, b)[n + 1] = b
    BY <1>1, <1>3, AppendProperties
  <1> QED
    BY <1>3, <1>4 DEF p

\* What is numbered up to n, and then a block with a later number.
LEMMA NumberedNext ==
    ASSUME NEW s \in Seq(BlockRec), NEW m \in Nat, NEW n \in Nat, Numbered(s, m),
           NEW t \in Seq(BlockRec), NEW k \in 0 .. Len(s), m <= n, Len(t) = k + 1,
           \A h \in 1 .. k : t[h] = s[h],
           t[k + 1].id \in 1 .. n,
           \A h \in 1 .. k : s[h].id < t[k + 1].id
    PROVE  Numbered(t, n)
  <1>1. Len(s) \in Nat /\ k \in Nat /\ k <= Len(s)
    BY LenProperties
  <1>2. ASSUME NEW h \in 1 .. k + 1
        PROVE  t[h].id \in 1 .. n
    <2>1. CASE h = k + 1
      BY <2>1
    <2>2. CASE h # k + 1
      <3>1. h \in 1 .. k /\ h \in 1 .. Len(s)
        BY <1>1, <2>2
      <3>2. s[h].id \in 1 .. m
        BY <3>1 DEF Numbered
      <3> QED
        BY <3>1, <3>2
    <2> QED
      BY <2>1, <2>2
  <1>3. ASSUME NEW g \in 1 .. k + 1, NEW h \in 1 .. k + 1, g < h
        PROVE  t[g].id < t[h].id
    <2>1. g \in 1 .. k /\ g \in 1 .. Len(s)
      BY <1>1, <1>3
    <2>2. CASE h = k + 1
      BY <2>1, <2>2
    <2>3. CASE h # k + 1
      <3>1. h \in 1 .. k /\ h \in 1 .. Len(s)
        BY <1>1, <2>3
      <3>2. s[g].id < s[h].id
        BY <1>3, <2>1, <3>1 DEF Numbered
      <3> QED
        BY <2>1, <3>1, <3>2
    <2> QED
      BY <2>2, <2>3
  <1> QED
    BY <1>2, <1>3 DEF Numbered

\* A longer count does not harm.
LEMMA NumberedMore ==
    ASSUME NEW s \in Seq(BlockRec), NEW m \in Nat, NEW n \in Nat, m <= n, Numbered(s, m)
    PROVE  Numbered(s, n)
  <1>1. \A h \in 1 .. Len(s) : s[h].id \in 1 .. n
    BY DEF Numbered
  <1> QED
    BY <1>1 DEF Numbered

\* The blocks that the wallet and the node agree on are the first ones, as
\* many as there are agreeing ones: what next_block starts from.
LEMMA AgreedFork ==
    ASSUME ChainInv
    PROVE  Agreed \in Nat /\ Fork(checkpoint, chain, Agreed)
  <1>1. PICK n \in Nat : Fork(checkpoint, chain, n)
    BY DEF ChainInv
  <1>2. Len(checkpoint) \in Nat /\ Len(chain) \in Nat
    BY LenProperties DEF ChainInv
  <1>3. { h \in 1 .. Len(checkpoint) : h <= Len(chain) /\ checkpoint[h] = chain[h] } = 1 .. n
    BY <1>1, <1>2 DEF Fork
  <1>4. Agreed = n
    <2>1. Cardinality(1 .. n) = n
      BY FS_Interval
    <2> QED
      BY <1>3, <2>1 DEF Agreed
  <1> QED
    BY <1>1, <1>4

-----------------------------------------------------------------------------
(* Every step preserves what is known of the blocks.                       *)

\* The blocks of the mined chain that the wallet may have are those it had.
LEMMA MineStep ==
    ASSUME ChainInv, MineBlock
    PROVE  ChainInv'
  <1>1. PICK txs \in Minable(chain) : chain' = Append(chain, Block(made + 1, txs))
    BY DEF MineBlock
  <1>2. made' = made + 1 /\ made' \in Nat /\ checkpoint' = checkpoint
    BY DEF MineBlock, wallet, ChainInv
  <1> DEFINE b == Block(made + 1, txs)
             m == Len(chain)
  <1>3. b \in BlockRec /\ b.id = made + 1
    BY DEF Block, BlockRec, Minable, Without, ChainInv
  <1> HIDE DEF b
  <1>4. m \in Nat /\ Len(checkpoint) \in Nat
    BY LenProperties DEF ChainInv
  <1>5. /\ chain' \in Seq(BlockRec) /\ Len(chain') = m + 1
        /\ \A h \in 1 .. m : chain'[h] = chain[h]
        /\ chain'[m + 1] = b
    <2>1. chain' = Append(chain, b)
      BY <1>1 DEF b
    <2> QED
      BY <1>3, <1>4, <2>1, AppendProperties DEF ChainInv
  <1>6. \A h \in 1 .. m : chain[h].id < made + 1
    BY DEF ChainInv, Numbered
  <1>7. Numbered(chain', made')
    <2> PICK t \in Seq(BlockRec) : t = chain'
      BY <1>5
    <2>1. /\ chain \in Seq(BlockRec) /\ Numbered(chain, made)
          /\ made \in Nat /\ made + 1 \in Nat /\ made <= made + 1 /\ m \in 0 .. Len(chain)
      BY <1>4 DEF ChainInv
    <2>2. /\ Len(t) = m + 1 /\ \A h \in 1 .. m : t[h] = chain[h]
          /\ t[m + 1].id = made + 1
      BY <1>3, <1>5
    <2>3. t[m + 1].id \in 1 .. made + 1 /\ \A h \in 1 .. m : chain[h].id < t[m + 1].id
      BY <1>6, <2>1, <2>2
    <2> HIDE DEF m
    <2>4. Numbered(t, made + 1)
      BY <2>1, <2>2, <2>3, NumberedNext
    <2> QED
      BY <1>2, <2>4
  <1>8. Numbered(checkpoint', made')
    <2>1. Numbered(checkpoint, made + 1)
      BY <1>2, NumberedMore DEF ChainInv
    <2> QED
      BY <1>2, <2>1 DEF Numbered
  <1>9. \E n \in Nat : Fork(checkpoint', chain', n)
    <2>1. PICK n \in Nat : Fork(checkpoint, chain, n)
      BY DEF ChainInv
    <2>2. ASSUME NEW h \in 1 .. Len(checkpoint), n < h, h <= m + 1
          PROVE  checkpoint[h] # chain'[h]
      <3>1. CASE h = m + 1
        <4>1. checkpoint[h].id \in 1 .. made
          BY DEF ChainInv, Numbered
        <4> QED
          BY <1>2, <1>3, <1>5, <3>1, <4>1 DEF ChainInv
      <3>2. CASE h # m + 1
        <4>1. h \in 1 .. m
          BY <1>4, <2>2, <3>2
        <4> QED
          BY <1>5, <2>1, <2>2, <4>1 DEF Fork
      <3> QED
        BY <3>1, <3>2
    <2>3. \A h \in 1 .. n : checkpoint[h] = chain'[h]
      BY <1>4, <1>5, <2>1 DEF Fork
    <2>4. n <= m
      BY <2>1 DEF Fork
    <2> QED
      BY <1>2, <1>4, <1>5, <2>1, <2>2, <2>3, <2>4 DEF Fork
  <1> QED
    BY <1>2, <1>5, <1>7, <1>8, <1>9 DEF ChainInv

\* A reorganisation replaces the last block by two new ones.
LEMMA ReorganiseStep ==
    ASSUME ChainInv, Reorganise
    PROVE  ChainInv'
  <1>1. PICK txs \in Minable(Front(chain)) :
          chain' = Front(chain) \o << Block(made + 1, txs), Block(made + 2, {}) >>
    BY DEF Reorganise
  <1>2. made' = made + 2 /\ made' \in Nat /\ checkpoint' = checkpoint /\ made \in Nat
    BY DEF Reorganise, wallet, ChainInv
  <1>3. PICK b \in BlockRec, c \in BlockRec :
          b = Block(made + 1, txs) /\ c = Block(made + 2, {})
    <2>1. txs \subseteq Txid /\ {} \subseteq Txid
      BY DEF Minable, Without
    <2>2. Block(made + 1, txs) \in BlockRec /\ Block(made + 2, {}) \in BlockRec
      BY <1>2, <2>1 DEF Block, BlockRec
    <2> QED
      BY <2>2
  <1>4. b.id = made + 1 /\ c.id = made + 2
    BY <1>3 DEF Block
  <1>5. PICK m \in Nat : Len(chain) = m + 1
    <2>1. Len(chain) \in Nat /\ Len(chain) > 0
      BY LenProperties DEF ChainInv, Reorganise
    <2>2. Len(chain) - 1 \in Nat /\ Len(chain) = (Len(chain) - 1) + 1
      BY <2>1
    <2> QED
      BY <2>2
  <1>6. /\ Front(chain) \in Seq(BlockRec) /\ Len(Front(chain)) = m
        /\ \A h \in 1 .. m : Front(chain)[h] = chain[h]
    <2>1. chain \in Seq(BlockRec) /\ m \in 0 .. Len(chain)
      BY <1>5 DEF ChainInv
    <2>2. Front(chain) = SubSeq(chain, 1, m)
      BY <1>5 DEF Front
    <2> QED
      BY <1>3, <2>1, <2>2, Extended
  <1>7. /\ chain' \in Seq(BlockRec) /\ Len(chain') = m + 2
        /\ \A h \in 1 .. m : chain'[h] = chain[h]
        /\ chain'[m + 1] = b /\ chain'[m + 2] = c
    <2>1. chain' = Front(chain) \o << b, c >>
      BY <1>1, <1>3
    <2>2. << b, c >> \in Seq(BlockRec) /\ Len(<< b, c >>) = 2
      OBVIOUS
    <2>3. /\ chain' \in Seq(BlockRec) /\ Len(chain') = m + 2
          /\ \A i \in 1 .. m + 2 : chain'[i] = IF i <= m THEN Front(chain)[i]
                                               ELSE << b, c >>[i - m]
      BY <1>6, <2>1, <2>2, ConcatProperties
    <2>4. chain'[m + 1] = << b, c >>[1] /\ chain'[m + 2] = << b, c >>[2]
      BY <2>3
    <2> QED
      BY <1>6, <2>3, <2>4
  <1>8. Numbered(chain', made')
    <2> PICK t \in Seq(BlockRec) : t = chain'
      BY <1>7
    <2>1. /\ \A h \in 1 .. m : t[h] = chain[h] /\ chain[h].id \in 1 .. made
          /\ \A g, h \in 1 .. m : g < h => chain[g].id < chain[h].id
      BY <1>5, <1>7 DEF ChainInv, Numbered
    <2>2. Len(t) = m + 2 /\ t[m + 1].id = made + 1 /\ t[m + 2].id = made + 2
      BY <1>4, <1>7
    <2>3. \A h \in 1 .. m + 2 : h \in 1 .. m \/ h = m + 1 \/ h = m + 2
      OBVIOUS
    <2>4. ASSUME NEW h \in 1 .. m + 2
          PROVE  t[h].id \in 1 .. made + 2
      <3>1. CASE h \in 1 .. m
        <4>1. t[h].id = chain[h].id /\ chain[h].id \in 1 .. made
          BY <2>1, <3>1
        <4> QED
          BY <1>2, <4>1
      <3>2. CASE h = m + 1
        BY <1>2, <2>2, <3>2
      <3>3. CASE h = m + 2
        BY <1>2, <2>2, <3>3
      <3> QED
        BY <2>3, <3>1, <3>2, <3>3
    <2>5. ASSUME NEW g \in 1 .. m + 2, NEW h \in 1 .. m + 2, g < h
          PROVE  t[g].id < t[h].id
      <3>1. CASE h \in 1 .. m
        <4>1. g \in 1 .. m
          BY <2>5, <3>1
        <4> QED
          BY <2>1, <2>5, <3>1, <4>1
      <3>2. CASE h = m + 1
        <4>1. g \in 1 .. m
          BY <2>5, <3>2
        <4>2. t[g].id \in 1 .. made
          BY <2>1, <4>1
        <4> QED
          BY <1>2, <2>2, <3>2, <4>2
      <3>3. CASE h = m + 2
        <4>1. t[g].id \in 1 .. made \/ t[g].id = made + 1
          BY <2>1, <2>2, <2>3, <2>5, <3>3
        <4> QED
          BY <1>2, <2>2, <3>3, <4>1
      <3> QED
        BY <2>3, <3>1, <3>2, <3>3
    <2>6. Numbered(t, made + 2)
      BY <2>2, <2>4, <2>5 DEF Numbered
    <2> QED
      BY <1>2, <2>6
  <1>9. Numbered(checkpoint', made')
    <2>1. Numbered(checkpoint, made + 2)
      BY <1>2, NumberedMore DEF ChainInv
    <2> QED
      BY <1>2, <2>1 DEF Numbered
  <1>10. \E n \in Nat : Fork(checkpoint', chain', n)
    <2>1. PICK n \in Nat : Fork(checkpoint, chain, n)
      BY DEF ChainInv
    <2>2. Len(checkpoint) \in Nat /\ n <= Len(checkpoint) /\ n <= m + 1
      BY <1>5, <2>1, LenProperties DEF ChainInv, Fork
    <2>3. PICK k \in Nat : k = IF n = m + 1 THEN m ELSE n
      OBVIOUS
    <2>4. k <= Len(checkpoint) /\ k <= m /\ k <= n
      BY <2>2, <2>3
    <2>5. \A h \in 1 .. k : checkpoint[h] = chain'[h]
      BY <1>7, <2>1, <2>4 DEF Fork
    <2>6. ASSUME NEW h \in 1 .. Len(checkpoint), k < h, h <= m + 2
          PROVE  checkpoint[h] # chain'[h]
      <3>1. checkpoint[h].id \in 1 .. made
        BY DEF ChainInv, Numbered
      <3>2. CASE h > m
        <4>1. h = m + 1 \/ h = m + 2
          BY <2>2, <2>6, <3>2
        <4>2. chain'[h].id = made + 1 \/ chain'[h].id = made + 2
          BY <1>4, <1>7, <4>1
        <4> QED
          BY <1>2, <3>1, <4>2
      <3>3. CASE h <= m
        <4>1. n < h /\ h \in 1 .. m /\ h <= Len(chain)
          BY <1>5, <2>2, <2>3, <2>6, <3>3
        <4> QED
          BY <1>7, <2>1, <4>1 DEF Fork
      <3> QED
        BY <2>2, <3>2, <3>3
    <2> QED
      BY <1>2, <1>7, <2>4, <2>5, <2>6 DEF Fork
  <1> QED
    BY <1>2, <1>7, <1>8, <1>9, <1>10 DEF ChainInv

\* The wallet's chain becomes a prefix of the node's.
LEMMA ApplyStep ==
    ASSUME ChainInv, ApplyBlock
    PROVE  ChainInv'
  <1>1. PICK n \in Nat : n = Agreed /\ Fork(checkpoint, chain, n)
    BY AgreedFork
  <1>2. /\ checkpoint' = Append(SubSeq(checkpoint, 1, n), chain[n + 1]) /\ n < Len(chain)
        /\ UNCHANGED <<chain, made>>
    BY <1>1 DEF ApplyBlock, node
  <1>3. Len(checkpoint) \in Nat /\ Len(chain) \in Nat /\ n <= Len(checkpoint)
        /\ \A h \in 1 .. n : checkpoint[h] = chain[h]
    BY <1>1, LenProperties DEF ChainInv, Fork
  <1>4. chain[n + 1] \in BlockRec
    BY <1>2, <1>3, ElementOfSeq DEF ChainInv
  <1>5. /\ checkpoint' \in Seq(BlockRec) /\ Len(checkpoint') = n + 1
        /\ \A h \in 1 .. n : checkpoint'[h] = checkpoint[h]
        /\ checkpoint'[n + 1] = chain[n + 1]
    <2>1. checkpoint \in Seq(BlockRec) /\ n \in 0 .. Len(checkpoint)
      BY <1>3 DEF ChainInv
    <2> QED
      BY <1>2, <1>4, <2>1, Extended
  <1>6. \A h \in 1 .. n + 1 : checkpoint'[h] = chain[h]
    BY <1>3, <1>5
  <1>7. Numbered(checkpoint', made')
    <2>1. \A h \in 1 .. n + 1 : h \in 1 .. Len(chain)
      BY <1>2, <1>3
    <2>2. /\ \A h \in 1 .. n + 1 : chain[h].id \in 1 .. made
          /\ \A g, h \in 1 .. n + 1 : g < h => chain[g].id < chain[h].id
      BY <2>1 DEF ChainInv, Numbered
    <2> QED
      BY <1>2, <1>5, <1>6, <2>2 DEF Numbered
  <1>8. Numbered(chain', made')
    BY <1>2 DEF ChainInv
  <1>9. Fork(checkpoint', chain', n + 1)
    BY <1>2, <1>3, <1>5, <1>6 DEF Fork
  <1> QED
    BY <1>2, <1>5, <1>7, <1>8, <1>9 DEF ChainInv

\* A wallet that starts again has no block.
LEMMA EmptyWallet ==
    ASSUME made \in Nat, chain \in Seq(BlockRec), Numbered(chain, made)
    PROVE  /\ <<>> \in Seq(BlockRec) /\ Numbered(<<>>, made) /\ Fork(<<>>, chain, 0)
  <1>1. Len(<<>>) = 0 /\ Len(chain) \in Nat
    BY LenProperties
  <1> QED
    BY <1>1 DEF Numbered, Fork

-----------------------------------------------------------------------------
(* Every step preserves what is known of the map.                          *)

\* What holds of the values in the map holds when none is changed.
LEMMA ValuesKept ==
    ASSUME NoRivalsInMap, ConfidencesCoherent,
           \A k \in DOMAIN map' : map'[k].value # None =>
             k \in DOMAIN map /\ map'[k].value = map[k].value
    PROVE  NoRivalsInMap' /\ ConfidencesCoherent'
  <1>1. NoRivalsInMap'
    BY DEF NoRivalsInMap, Rivals
  <1>2. ConfidencesCoherent'
    BY DEF ConfidencesCoherent
  <1> QED
    BY <1>1, <1>2

\* A new stream changes no value, be the key there or not.
LEMMA ObserveKeeps ==
    ASSUME NEW tx \in Txid, Observe(tx)
    PROVE  \A k \in DOMAIN map' : map'[k].value # None =>
             k \in DOMAIN map /\ map'[k].value = map[k].value
  <1> DEFINE e(j) == IF j # tx THEN map[j]
                     ELSE [value |-> ValueOf(tx),
                           senders |-> (IF tx \in DOMAIN map THEN map[tx].senders ELSE {})
                                         \cup {Len(streams) + 1}]
  <1>1. map' = [j \in DOMAIN map \cup {tx} |-> e(j)]
    BY DEF Observe
  <1>2. e(tx).value = ValueOf(tx) /\ \A j : j # tx => e(j) = map[j]
    OBVIOUS
  <1> HIDE DEF e
  <1> QED
    BY <1>1, <1>2 DEF ValueOf

\* Of a wallet's blocks each has its own number, so what two transactions are
\* told of the same block is the same.
LEMMA OneDepthPerBlock ==
    ASSUME NEW blocks \in Seq(BlockRec), NEW n \in Nat, Numbered(blocks, n),
           NEW t, NEW u,
           TxConfidence(blocks, t).block = TxConfidence(blocks, u).block
    PROVE  TxConfidence(blocks, t) = TxConfidence(blocks, u)
  <1>1. Len(blocks) \in Nat /\ DOMAIN blocks = 1 .. Len(blocks)
    BY LenProperties
  <1> DEFINE Height(tx) == CHOOSE i \in DOMAIN blocks : tx \in blocks[i].txs
  <1>2. ASSUME NEW tx \in Confirmed(blocks)
        PROVE  /\ Height(tx) \in 1 .. Len(blocks)
               /\ TxConfidence(blocks, tx)
                    = [block |-> blocks[Height(tx)].id,
                       num_confirmations |-> NumConfirmations(blocks, Height(tx))]
               /\ blocks[Height(tx)].id \in 1 .. n
    <2>1. \E i \in DOMAIN blocks : tx \in blocks[i].txs
      BY <1>2 DEF Confirmed
    <2>2. Height(tx) \in 1 .. Len(blocks)
      BY <1>1, <2>1
    <2> QED
      BY <1>2, <2>2 DEF TxConfidence, Numbered
  <1>3. ASSUME NEW tx, tx \notin Confirmed(blocks)
        PROVE  TxConfidence(blocks, tx) = [block |-> 0, num_confirmations |-> 0]
    BY <1>3 DEF TxConfidence
  <1> HIDE DEF Height
  <1>4. CASE t \in Confirmed(blocks) /\ u \in Confirmed(blocks)
    <2>1. PICK g, h \in 1 .. Len(blocks) : g = Height(t) /\ h = Height(u)
      BY <1>2, <1>4
    <2>2. blocks[g].id = blocks[h].id /\ blocks[g].id \in Nat /\ blocks[h].id \in Nat
      BY <1>2, <1>4, <2>1
    <2>3. ~ (g < h) /\ ~ (h < g)
      BY <2>2 DEF Numbered
    <2>4. g = h
      BY <1>1, <2>3
    <2> QED
      BY <1>2, <1>4, <2>1, <2>4
  <1>5. CASE t \notin Confirmed(blocks) /\ u \notin Confirmed(blocks)
    BY <1>3, <1>5
  <1>6. ASSUME NEW tx \in Confirmed(blocks), NEW other, other \notin Confirmed(blocks)
        PROVE  TxConfidence(blocks, tx).block # TxConfidence(blocks, other).block
    <2>1. TxConfidence(blocks, other).block = 0
      BY <1>3, <1>6
    <2>2. TxConfidence(blocks, tx).block \in 1 .. n
      BY <1>2, <1>6
    <2> QED
      BY <2>1, <2>2
  <1> QED
    BY <1>4, <1>5, <1>6

\* sync replaces the whole content by one view of the wallet.
LEMMA SyncStep ==
    ASSUME ChainInv, SyncTxConfidenceMap
    PROVE  NoRivalsInMap' /\ ConfidencesCoherent'
  <1>1. PICK txs \in Transactions : Sync(TxConfidenceEntries(checkpoint, txs))
    BY DEF SyncTxConfidenceMap
  <1> DEFINE entries == TxConfidenceEntries(checkpoint, txs)
             target == [k \in DOMAIN map \cup DOMAIN entries |->
                          IF k \in DOMAIN entries THEN entries[k] ELSE None]
             D == { j \in DOMAIN map \cup DOMAIN target : Stays(j, target) }
             e(k) == IF k \in DOMAIN target THEN [value |-> target[k], senders |-> Live(k)]
                                            ELSE map[k]
  <1>2. map' = [k \in D |-> e(k)]
    BY <1>1 DEF Sync, Update
  <1>3. DOMAIN entries = txs /\ \A k \in txs : entries[k] = TxConfidence(checkpoint, k)
    BY DEF TxConfidenceEntries
  <1>4. ASSUME NEW k \in DOMAIN map', map'[k].value # None
        PROVE  k \in txs /\ map'[k].value = TxConfidence(checkpoint, k)
    <2>1. k \in DOMAIN target
      BY <1>2
    <2>2. map'[k].value = target[k]
      BY <1>2, <2>1
    <2> QED
      BY <1>3, <1>4, <2>1, <2>2
  <1> HIDE DEF entries, target, D, e
  <1>5. /\ txs \subseteq graph
        /\ \A t, u \in txs : u \notin Rivals(t)
    BY DEF Transactions
  <1>6. NoRivalsInMap'
    BY <1>4, <1>5 DEF NoRivalsInMap, Rivals
  <1>7. ConfidencesCoherent'
    <2> SUFFICES ASSUME NEW t \in DOMAIN map', NEW u \in DOMAIN map',
                        map'[t].value # None, map'[u].value # None,
                        map'[t].value.block = map'[u].value.block
                 PROVE  map'[t].value = map'[u].value
      BY DEF ConfidencesCoherent
    <2>1. /\ map'[t].value = TxConfidence(checkpoint, t)
          /\ map'[u].value = TxConfidence(checkpoint, u)
      BY <1>4
    <2> QED
      BY <2>1, OneDepthPerBlock DEF ChainInv
  <1> QED
    BY <1>6, <1>7

-----------------------------------------------------------------------------
(* What the wallet's map shows.                                            *)

\* A new wallet, on a new chain.
LEMMA WInvInit == Init => WInv
  <1> SUFFICES ASSUME Init PROVE WInv
    OBVIOUS
  <1>1. chain = <<>> /\ checkpoint = <<>> /\ made = 0 /\ map = <<>>
    BY DEF Init, ObservableInit
  <1>2. <<>> \in Seq(BlockRec) /\ Numbered(<<>>, 0)
    BY DEF Numbered
  <1>3. ChainInv
    BY <1>1, <1>2, EmptyWallet DEF ChainInv
  <1>4. NoRivalsInMap /\ ConfidencesCoherent
    BY <1>1 DEF NoRivalsInMap, ConfidencesCoherent
  <1> QED
    BY <1>3, <1>4 DEF WInv

\* One step per action, and what it can disturb.
LEMMA WInvStep == WInv /\ [Next]_wvars => WInv'
  <1> SUFFICES ASSUME WInv, [Next]_wvars PROVE WInv'
    OBVIOUS
  <1> USE DEF WInv
  <1>1. ASSUME UNCHANGED <<chain, made, checkpoint>>
        PROVE  ChainInv'
    BY <1>1 DEF ChainInv
  <1>2. ASSUME UNCHANGED map
        PROVE  NoRivalsInMap' /\ ConfidencesCoherent'
    BY <1>2 DEF NoRivalsInMap, ConfidencesCoherent, Rivals
  <1>3. CASE Publish \/ DropTx
    BY <1>1, <1>2, <1>3 DEF Publish, DropTx, ovars, wallet
  <1>4. CASE MineBlock
    BY <1>2, <1>4, MineStep DEF MineBlock, ovars
  <1>5. CASE Reorganise
    BY <1>2, <1>5, ReorganiseStep DEF Reorganise, ovars
  <1>6. CASE ApplyBlock
    BY <1>2, <1>6, ApplyStep DEF ApplyBlock, ovars
  <1>7. CASE NoMoreBlocks \/ ApplyMempool \/ Disconnect
    BY <1>1, <1>2, <1>7 DEF NoMoreBlocks, ApplyMempool, Disconnect, ovars, node, wallet
  <1>8. CASE SyncTxConfidenceMap
    BY <1>1, <1>8, SyncStep DEF SyncTxConfidenceMap, node, wallet
  <1>9. CASE Restart
    <2>1. checkpoint' = <<>> /\ map' = <<>> /\ UNCHANGED <<chain, made>>
      BY <1>9 DEF Restart, node
    <2>2. ChainInv'
      BY <2>1, EmptyWallet DEF ChainInv
    <2>3. NoRivalsInMap' /\ ConfidencesCoherent'
      BY <2>1 DEF NoRivalsInMap, ConfidencesCoherent
    <2> QED
      BY <2>2, <2>3
  <1>10. CASE GetTxConfidenceStream
    <2>1. PICK tx \in Txid : Observe(tx)
      BY <1>10 DEF GetTxConfidenceStream
    <2>2. NoRivalsInMap' /\ ConfidencesCoherent'
      BY <2>1, ObserveKeeps, ValuesKept
    <2> QED
      BY <1>1, <1>10, <2>2 DEF GetTxConfidenceStream, node, wallet
  <1>11. CASE ReadItem \/ DropStream
    BY <1>1, <1>2, <1>11 DEF ReadItem, DropStream, Read, Drop, node, wallet
  <1>12. CASE UNCHANGED wvars
    BY <1>1, <1>2, <1>12 DEF wvars, ovars, node, wallet
  <1> QED
    BY <1>3, <1>4, <1>5, <1>6, <1>7, <1>8, <1>9, <1>10, <1>11, <1>12 DEF Next

\* The invariant holds in every state.
LEMMA WalletInvariance == Spec => []WInv
  BY WInvInit, WInvStep, PTL DEF Spec

\* However blocks, reorganisations, restarts and clients interleave with the
\* connection task, the map of transaction confidences never holds two
\* transactions of which only one can come about.
THEOREM NoRivalsShown == Spec => []NoRivalsInMap
  <1>1. WInv => NoRivalsInMap
    BY DEF WInv
  <1> QED
    BY <1>1, WalletInvariance, PTL

\* The map shows one state of the wallet: it never holds two transactions of
\* one block with different depths, also while the wallet is behind the node,
\* after a reorganisation and while clients open and drop streams.
THEOREM OneViewShown == Spec => []ConfidencesCoherent
  <1>1. WInv => ConfidencesCoherent
    BY DEF WInv
  <1> QED
    BY <1>1, WalletInvariance, PTL

-----------------------------------------------------------------------------
(* What the clients are told.                                              *)

\* The values of the map are confidences.
ConfidencesAreValues ==
    \A b, n \in Nat : [block |-> b, num_confirmations |-> n] \in Value

\* What the wallet has seen are transactions, and the map is as ObservableMap
\* would have it.
ClientInv == ChainInv /\ graph \subseteq Txid /\ pool \subseteq Txid /\ IInv

\* A confidence of a wallet is a value of the map.
LEMMA ConfidenceType ==
    ASSUME ConfidencesAreValues,
           NEW blocks \in Seq(BlockRec), NEW n \in Nat, Numbered(blocks, n), NEW tx
    PROVE  TxConfidence(blocks, tx) \in Value
  <1>1. Len(blocks) \in Nat /\ DOMAIN blocks = 1 .. Len(blocks)
    BY LenProperties
  <1>2. CASE tx \in Confirmed(blocks)
    <2> DEFINE h == CHOOSE i \in DOMAIN blocks : tx \in blocks[i].txs
    <2>1. \E i \in DOMAIN blocks : tx \in blocks[i].txs
      BY <1>2 DEF Confirmed
    <2>2. h \in 1 .. Len(blocks)
      BY <1>1, <2>1
    <2>3. TxConfidence(blocks, tx)
            = [block |-> blocks[h].id, num_confirmations |-> NumConfirmations(blocks, h)]
      BY <1>2 DEF TxConfidence
    <2> HIDE DEF h
    <2>4. blocks[h].id \in Nat /\ NumConfirmations(blocks, h) \in Nat
      BY <1>1, <2>2 DEF Numbered, NumConfirmations
    <2> QED
      BY <2>3, <2>4 DEF ConfidencesAreValues
  <1>3. CASE tx \notin Confirmed(blocks)
    BY <1>3 DEF TxConfidence, ConfidencesAreValues
  <1> QED
    BY <1>2, <1>3

\* The map and its streams after a sync with the wallet.
LEMMA ClientSync ==
    ASSUME ConfidencesAreValues, ClientInv, SyncTxConfidenceMap
    PROVE  IInv'
  <1>1. PICK txs \in Transactions : Sync(TxConfidenceEntries(checkpoint, txs))
    BY DEF SyncTxConfidenceMap
  <1>2. txs \in SUBSET Key
    BY DEF Transactions, ClientInv, Txid
  <1>3. PICK entries \in [txs -> Value] : entries = TxConfidenceEntries(checkpoint, txs)
    <2>1. \A tx \in txs : TxConfidence(checkpoint, tx) \in Value
      BY ConfidenceType DEF ClientInv, ChainInv
    <2> QED
      BY <2>1 DEF TxConfidenceEntries
  <1>4. Sync(entries)
    BY <1>1, <1>3
  <1>5. PICK target : /\ target = [k \in DOMAIN map \cup DOMAIN entries |->
                                     IF k \in DOMAIN entries THEN entries[k] ELSE None]
                      /\ Target(target) /\ Update(target)
    BY <1>2, <1>4, Targets DEF Sync, ClientInv, IInv
  <1> QED
    BY <1>5, UpdateStep DEF ClientInv

\* A daemon that starts again has an empty map and no stream.
LEMMA ClientRestart ==
    ASSUME IInv, Restart
    PROVE  IInv'
  <1>1. PICK n \in Nat : /\ DOMAIN streams = 1 .. n
                         /\ \A s \in 1 .. n : streams[s] \in Stream
    BY LenProperties, ElementOfSeq DEF IInv, TypeInv
  <1>2. map' = <<>> /\ streams' = [s \in 1 .. n |-> Closed(streams[s])]
    BY <1>1 DEF Restart
  <1>3. ASSUME NEW s \in 1 .. n
        PROVE  /\ Closed(streams[s]) \in Stream
               /\ Closed(streams[s]).log = <<>> /\ Closed(streams[s]).read = 0
               /\ ~ Closed(streams[s]).open
    BY <1>1 DEF Closed, Stream
  <1>4. DOMAIN streams' = 1 .. n /\ \A s \in 1 .. n : /\ streams'[s] \in Stream
                                                      /\ streams'[s].log = <<>>
                                                      /\ streams'[s].read = 0
                                                      /\ ~ streams'[s].open
    BY <1>2, <1>3
  <1>5. streams' \in Seq(Stream)
    <2>1. streams' \in [1 .. n -> Stream]
      BY <1>2, <1>4
    <2> QED
      BY <2>1, SeqDef
  <1>6. DOMAIN map' = {} /\ map' \in [DOMAIN map' -> Entry]
    BY <1>2
  <1>7. TypeInv'
    <2>1. Len(<<>>) = 0
      OBVIOUS
    <2> QED
      BY <1>4, <1>5, <1>6, <2>1 DEF TypeInv
  <1>8. SendersInv'
    BY <1>6 DEF SendersInv
  <1>9. StreamsUpToDate'
    BY <1>4 DEF StreamsUpToDate
  <1>10. NoRepeatedItem'
    <2>1. \A i \in 1 .. Len(<<>>) - 1 : FALSE
      OBVIOUS
    <2> QED
      BY <1>4, <2>1 DEF NoRepeatedItem
  <1> QED
    BY <1>7, <1>8, <1>9, <1>10 DEF IInv

\* One step per action, and what it can disturb.
LEMMA ClientStep ==
    ASSUME ConfidencesAreValues, WInv, ClientInv, [Next]_wvars
    PROVE  ClientInv'
  <1>1. ChainInv'
    BY WInvStep DEF WInv
  <1> USE DEF ClientInv
  <1>2. ASSUME UNCHANGED ovars
        PROVE  IInv'
    BY <1>2 DEF ovars, IInv, TypeInv, SendersInv, StreamsUpToDate, NoRepeatedItem,
                Live, ValueOf
  <1>3. CASE Publish \/ DropTx
    <2>1. pool' \subseteq Txid
      BY <1>3 DEF Publish, DropTx, Without
    <2> QED
      BY <1>1, <1>2, <1>3, <2>1 DEF Publish, DropTx, wallet
  <1>4. CASE MineBlock
    <2>1. pool' \subseteq Txid
      BY <1>4 DEF MineBlock, Without
    <2> QED
      BY <1>1, <1>2, <1>4, <2>1 DEF MineBlock, wallet
  <1>5. CASE Reorganise
    <2>1. Last(chain).txs \subseteq Txid
      <3>1. Len(chain) \in 1 .. Len(chain)
        BY <1>5, LenProperties DEF Reorganise, ChainInv
      <3>2. chain[Len(chain)] \in BlockRec
        BY <3>1, ElementOfSeq DEF ChainInv
      <3> QED
        BY <3>2 DEF Last, BlockRec
    <2>2. pool' \subseteq Txid
      BY <1>5, <2>1 DEF Reorganise, Without
    <2> QED
      BY <1>1, <1>2, <1>5, <2>2 DEF Reorganise, wallet
  <1>6. CASE ApplyBlock
    <2>1. Agreed + 1 \in 1 .. Len(chain)
      BY <1>6, AgreedFork, LenProperties DEF ApplyBlock, ChainInv
    <2>2. chain[Agreed + 1] \in BlockRec
      BY <2>1, ElementOfSeq DEF ChainInv
    <2>3. graph' \subseteq Txid
      BY <1>6, <2>2 DEF ApplyBlock, BlockRec
    <2> QED
      BY <1>1, <1>2, <1>6, <2>3 DEF ApplyBlock, node
  <1>7. CASE NoMoreBlocks \/ Disconnect
    BY <1>1, <1>2, <1>7 DEF NoMoreBlocks, Disconnect, node, wallet
  <1>8. CASE ApplyMempool
    BY <1>1, <1>2, <1>8 DEF ApplyMempool, node
  <1>9. CASE SyncTxConfidenceMap
    BY <1>1, <1>9, ClientSync DEF SyncTxConfidenceMap, node, wallet
  <1>10. CASE Restart
    BY <1>1, <1>10, ClientRestart DEF Restart, node
  <1>11. CASE GetTxConfidenceStream
    <2>1. PICK tx \in Key : Observe(tx)
      BY <1>11 DEF GetTxConfidenceStream, Txid
    <2>2. IInv'
      BY <2>1, ObserveStep
    <2> QED
      BY <1>1, <1>11, <2>2 DEF GetTxConfidenceStream, node, wallet
  <1>12. CASE ReadItem \/ DropStream
    <2>1. PICK s \in DOMAIN streams : Read(s) \/ Drop(s)
      BY <1>12 DEF ReadItem, DropStream
    <2>2. IInv'
      BY <2>1, ConsumerStep
    <2> QED
      BY <1>1, <1>12, <2>2 DEF ReadItem, DropStream, node, wallet
  <1>13. CASE UNCHANGED wvars
    BY <1>1, <1>2, <1>13 DEF wvars, node, wallet
  <1> QED
    BY <1>3, <1>4, <1>5, <1>6, <1>7, <1>8, <1>9, <1>10, <1>11, <1>12, <1>13 DEF Next

\* A client that watches a transaction has been sent last what the map shows
\* of it, across restarts of the daemon and whatever the wallet does, when
\* every confidence is a value of the map.
THEOREM ClientsUpToDate ==
    ASSUME ConfidencesAreValues
    PROVE  Spec => []StreamsUpToDate
  <1>1. Init => ClientInv
    <2> SUFFICES ASSUME Init PROVE ClientInv
      OBVIOUS
    <2>1. ChainInv
      BY WInvInit DEF WInv
    <2>2. IInv /\ graph \subseteq Txid /\ pool \subseteq Txid
      BY InitInv DEF Init
    <2> QED
      BY <2>1, <2>2 DEF ClientInv
  <1>2. WInv /\ ClientInv /\ [Next]_wvars => ClientInv'
    BY ClientStep
  <1>3. ClientInv => StreamsUpToDate
    BY DEF ClientInv, IInv
  <1> QED
    BY <1>1, <1>2, <1>3, WalletInvariance, PTL DEF Spec

=============================================================================
