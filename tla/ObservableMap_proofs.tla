----------------------- MODULE ObservableMap_proofs -----------------------
(***************************************************************************)
(* Proofs about ObservableMap, for any keys, values and number of streams: *)
(* watchers are up to date and are never told the same twice, a sync       *)
(* purges what nobody watches, and the map implements WatchedMap.          *)
(***************************************************************************)
EXTENDS ObservableMap, SequenceTheorems, TLAPS

Item   == Value \cup {None}
Stream == [key : Key, log : Seq(Item), read : Nat, open : BOOLEAN]
Entry  == [value : Item, senders : SUBSET Nat]

-----------------------------------------------------------------------------
(* The inductive invariant.                                                *)

\* Streams are numbered in the order in which they were opened, and entries
\* have keys; what was read was sent, and who watches was sent something.
TypeInv ==
    /\ streams \in Seq(Stream)
    /\ DOMAIN map \subseteq Key /\ map \in [DOMAIN map -> Entry]
    /\ \A s \in DOMAIN streams : /\ streams[s].read <= Len(streams[s].log)
                                 /\ streams[s].open => streams[s].log # <<>>

\* A sender of an entry belongs to a stream that was opened for its key.
SendersInv ==
    \A k \in DOMAIN map : \A s \in map[k].senders :
        s \in DOMAIN streams /\ streams[s].key = k

IInv == TypeInv /\ SendersInv /\ StreamsUpToDate /\ NoRepeatedItem

-----------------------------------------------------------------------------
(* Sequences.                                                              *)

\* The items after the n-th of a log that has grown.
LEMMA DueAppend ==
    ASSUME NEW S, NEW log \in Seq(S), NEW x \in S, NEW n \in 0 .. Len(log)
    PROVE  SubSeq(Append(log, x), n + 1, Len(Append(log, x)))
             = Append(SubSeq(log, n + 1, Len(log)), x)
  <1> DEFINE l == SubSeq(Append(log, x), n + 1, Len(Append(log, x)))
             r == Append(SubSeq(log, n + 1, Len(log)), x)
             m == Len(log)
  <1>1. m \in Nat /\ Append(log, x) \in Seq(S) /\ Len(Append(log, x)) = m + 1
        /\ \A i \in 1 .. m : Append(log, x)[i] = log[i]
        /\ Append(log, x)[m + 1] = x
    BY AppendProperties, LenProperties
  <1>2. \A i \in n + 1 .. m + 1 : Append(log, x)[i] \in S
    BY <1>1, ElementOfSeq
  <1>3. l \in Seq(S) /\ Len(l) = m + 1 - n
        /\ \A i \in 1 .. m + 1 - n : l[i] = Append(log, x)[n + i]
    BY <1>1, <1>2, SubSeqProperties
  <1>4. \A i \in n + 1 .. m : log[i] \in S
    BY <1>1, ElementOfSeq
  <1> DEFINE t == SubSeq(log, n + 1, m)
  <1>5. t \in Seq(S) /\ Len(t) = m - n /\ \A i \in 1 .. m - n : t[i] = log[n + i]
    BY <1>1, <1>4, SubSeqProperties
  <1> HIDE DEF t, l
  <1>6. r \in Seq(S) /\ Len(r) = m + 1 - n
        /\ (\A i \in 1 .. m - n : r[i] = t[i]) /\ r[m - n + 1] = x
    BY <1>1, <1>5, AppendProperties DEF t
  <1> HIDE DEF r
  <1>7. ASSUME NEW i \in 1 .. Len(l)
        PROVE  l[i] = r[i]
    <2>0. i \in 1 .. m + 1 - n /\ m \in Nat /\ n \in Nat
      BY <1>1, <1>3
    <2>1. CASE i = m + 1 - n
      <3>1. l[i] = Append(log, x)[m + 1]
        BY <1>3, <2>0, <2>1
      <3> QED
        BY <1>1, <1>6, <2>0, <2>1, <3>1
    <2>2. CASE i < m + 1 - n
      <3>1. i \in 1 .. m - n /\ n + i \in 1 .. m
        BY <2>0, <2>2
      <3>2. l[i] = log[n + i] /\ r[i] = log[n + i]
        BY <1>1, <1>3, <1>5, <1>6, <2>0, <3>1
      <3> QED
        BY <3>2
    <2> QED
      BY <2>0, <2>1, <2>2
  <1> QED
    BY <1>1, <1>3, <1>6, <1>7, SeqEqual DEF l, r

\* The items after the next one.
LEMMA DueTail ==
    ASSUME NEW S, NEW log \in Seq(S), NEW n \in Nat, n < Len(log)
    PROVE  /\ SubSeq(log, n + 1, Len(log)) # <<>>
           /\ SubSeq(log, n + 2, Len(log)) = Tail(SubSeq(log, n + 1, Len(log)))
  <1>1. Len(log) \in Nat /\ n + 1 \in 1 .. Len(log) /\ Len(log) \in n + 1 .. Len(log)
    BY LenProperties
  <1>2. \A i \in n + 1 .. Len(log) : log[i] \in S
    BY <1>1, ElementOfSeq
  <1>3. Len(SubSeq(log, n + 1, Len(log))) = Len(log) - n
    BY <1>1, <1>2, SubSeqProperties
  <1>4. SubSeq(log, n + 1, Len(log)) # <<>>
    <2> SUFFICES ASSUME SubSeq(log, n + 1, Len(log)) = <<>> PROVE FALSE
      OBVIOUS
    <2>1. Len(<<>>) = Len(log) - n
      BY <1>3
    <2> QED
      BY <1>1, <2>1
  <1>5. Tail(SubSeq(log, n + 1, Len(log))) = SubSeq(log, (n + 1) + 1, Len(log))
    BY <1>1, HeadTailOfSubSeq
  <1>6. (n + 1) + 1 = n + 2
    OBVIOUS
  <1> QED
    BY <1>4, <1>5, <1>6

\* All of a log of one item is due.
LEMMA DueOfOne == \A x : SubSeq(<<x>>, 1, Len(<<x>>)) = <<x>>
  <1> TAKE x
  <1>1. <<x>> \in Seq({x})
    OBVIOUS
  <1> QED
    BY <1>1, SubSeqFull

-----------------------------------------------------------------------------
(* What the parts of a step do.                                            *)

\* A target of Update: some keys with their new values.
Target(target) == DOMAIN target \subseteq Key /\ target \in [DOMAIN target -> Item]

\* insert, remove and sync are updates with a target.
LEMMA Targets ==
    ASSUME TypeInv
    PROVE  /\ \A k \in Key, v \in Value : Target([j \in {k} |-> v])
           /\ \A k \in Key : Target([j \in {k} |-> None])
           /\ \A present \in SUBSET Key : \A entries \in [present -> Value] :
                Target([k \in DOMAIN map \cup DOMAIN entries |->
                          IF k \in DOMAIN entries THEN entries[k] ELSE None])
  BY DEF Target, Item, TypeInv

\* A stream that is sent an item keeps everything else.
LEMMA UpdatedStreams ==
    ASSUME TypeInv, NEW target, Target(target), Update(target)
    PROVE  /\ streams' \in Seq(Stream) /\ DOMAIN streams' = DOMAIN streams
           /\ \A s \in DOMAIN streams :
                /\ streams[s] \in Stream
                /\ streams'[s].key = streams[s].key
                /\ streams'[s].open = streams[s].open
                /\ streams'[s].read = streams[s].read
                /\ streams'[s].log = IF Receives(s, target)
                                     THEN Append(streams[s].log, target[streams[s].key])
                                     ELSE streams[s].log
  <1> DEFINE new(s) == IF Receives(s, target)
                       THEN [streams[s] EXCEPT !.log = Append(@, target[streams[s].key])]
                       ELSE streams[s]
  <1>1. PICK n \in Nat : n = Len(streams) /\ DOMAIN streams = 1 .. n
    BY LenProperties DEF TypeInv
  <1>2. streams' = [s \in 1 .. n |-> new(s)]
    BY <1>1 DEF Update
  <1>3. ASSUME NEW s \in DOMAIN streams
        PROVE  /\ streams[s] \in Stream /\ new(s) \in Stream
               /\ new(s).key = streams[s].key
               /\ new(s).open = streams[s].open
               /\ new(s).read = streams[s].read
               /\ new(s).log = IF Receives(s, target)
                               THEN Append(streams[s].log, target[streams[s].key])
                               ELSE streams[s].log
    <2>1. streams[s] \in Stream
      BY <1>1, <1>3, ElementOfSeq DEF TypeInv
    <2>2. ASSUME Receives(s, target)
          PROVE  Append(streams[s].log, target[streams[s].key]) \in Seq(Item)
      <3>1. target[streams[s].key] \in Item
        BY <2>2 DEF Receives, Target
      <3> QED
        BY <2>1, <3>1, AppendProperties DEF Stream
    <2> QED
      BY <2>1, <2>2 DEF Stream
  <1>4. streams' \in [1 .. n -> Stream]
    BY <1>1, <1>2, <1>3
  <1>5. streams' \in Seq(Stream)
    BY <1>4, SeqDef
  <1> QED
    BY <1>1, <1>2, <1>3, <1>5

\* An entry that is touched has its target and forgets the dropped streams.
LEMMA UpdatedMap ==
    ASSUME TypeInv, SendersInv, NEW target, Target(target), Update(target)
    PROVE  /\ DOMAIN map' = { k \in DOMAIN map \cup DOMAIN target : Stays(k, target) }
           /\ \A k \in DOMAIN map' :
                /\ map'[k].value = IF k \in DOMAIN target THEN target[k] ELSE map[k].value
                /\ map'[k].senders = IF k \in DOMAIN target THEN Live(k) ELSE map[k].senders
                /\ k \in DOMAIN target \/ k \in DOMAIN map
           /\ DOMAIN map' \subseteq Key /\ map' \in [DOMAIN map' -> Entry]
  <1> DEFINE D == { k \in DOMAIN map \cup DOMAIN target : Stays(k, target) }
             e(k) == IF k \in DOMAIN target THEN [value |-> target[k], senders |-> Live(k)]
                                            ELSE map[k]
  <1>1. map' = [k \in D |-> e(k)]
    BY DEF Update
  <1>2. ASSUME NEW k \in D
        PROVE  /\ e(k) \in Entry /\ k \in Key
               /\ e(k).value = IF k \in DOMAIN target THEN target[k] ELSE map[k].value
               /\ e(k).senders = IF k \in DOMAIN target THEN Live(k) ELSE map[k].senders
    <2>1. Live(k) \in SUBSET Nat
      BY DEF Live, TypeInv, Entry
    <2> QED
      BY <2>1 DEF Target, TypeInv, Entry
  <1> QED
    BY <1>1, <1>2

\* The value of a key after an update.
LEMMA UpdatedValue ==
    ASSUME TypeInv, SendersInv, NEW target, Target(target), Update(target), NEW k \in Key
    PROVE  ValueOf(k)' = IF k \in DOMAIN target THEN target[k] ELSE ValueOf(k)
  BY UpdatedMap DEF ValueOf, Stays

\* Who receives an item is exactly who watches a key whose value changes.
LEMMA ReceivesChange ==
    ASSUME IInv, NEW target, Target(target), Update(target),
           NEW s \in DOMAIN streams, NEW k \in Key, k = streams[s].key
    PROVE  /\ Receives(s, target) <=> streams[s].open /\ ValueOf(k)' # ValueOf(k)
           /\ Receives(s, target) => target[k] = ValueOf(k)'
  <1>1. ValueOf(k)' = IF k \in DOMAIN target THEN target[k] ELSE ValueOf(k)
    BY UpdatedValue DEF IInv
  <1>2. s \in Live(k) => streams[s].open /\ k \in DOMAIN map /\ ValueOf(k) = map[k].value
    BY DEF Live, ValueOf
  <1>3. streams[s].open => s \in Live(k)
    BY DEF IInv, StreamsUpToDate
  <1> QED
    BY <1>1, <1>2, <1>3 DEF Receives

-----------------------------------------------------------------------------
(* Every step preserves the invariant.                                     *)

\* insert, remove and sync.
LEMMA UpdateStep ==
    ASSUME IInv, NEW target, Target(target), Update(target)
    PROVE  IInv'
  <1>1. /\ streams' \in Seq(Stream) /\ DOMAIN streams' = DOMAIN streams
        /\ \A s \in DOMAIN streams :
             /\ streams[s] \in Stream
             /\ streams'[s].key = streams[s].key
             /\ streams'[s].open = streams[s].open
             /\ streams'[s].read = streams[s].read
             /\ streams'[s].log = IF Receives(s, target)
                                  THEN Append(streams[s].log, target[streams[s].key])
                                  ELSE streams[s].log
    BY UpdatedStreams DEF IInv
  <1>2. /\ DOMAIN map' = { k \in DOMAIN map \cup DOMAIN target : Stays(k, target) }
        /\ \A k \in DOMAIN map' :
             /\ map'[k].value = IF k \in DOMAIN target THEN target[k] ELSE map[k].value
             /\ map'[k].senders = IF k \in DOMAIN target THEN Live(k) ELSE map[k].senders
             /\ k \in DOMAIN target \/ k \in DOMAIN map
        /\ DOMAIN map' \subseteq Key /\ map' \in [DOMAIN map' -> Entry]
    BY UpdatedMap DEF IInv
  \* A log that receives an item grows at its end.
  <1>3. ASSUME NEW s \in DOMAIN streams, Receives(s, target)
        PROVE  /\ streams[s].log \in Seq(Item) /\ Len(streams[s].log) \in Nat
               /\ Len(streams'[s].log) = Len(streams[s].log) + 1
               /\ \A i \in 1 .. Len(streams[s].log) :
                    streams'[s].log[i] = streams[s].log[i]
               /\ streams'[s].log[Len(streams[s].log) + 1] = target[streams[s].key]
               /\ streams'[s].log # <<>>
    <2>1. streams[s].log \in Seq(Item) /\ target[streams[s].key] \in Item
      BY <1>1, <1>3 DEF Receives, Target, Stream
    <2>2. streams'[s].log = Append(streams[s].log, target[streams[s].key])
      BY <1>1, <1>3
    <2> QED
      BY <2>1, <2>2, AppendProperties, LenProperties
  <1>4. TypeInv'
    <2>1. ASSUME NEW s \in DOMAIN streams
          PROVE  /\ streams'[s].read <= Len(streams'[s].log)
                 /\ streams'[s].open => streams'[s].log # <<>>
      <3>1. /\ streams[s].read \in Nat /\ streams[s].read <= Len(streams[s].log)
            /\ streams[s].open => streams[s].log # <<>>
        BY <1>1 DEF IInv, TypeInv, Stream
      <3> QED
        BY <1>1, <1>3, <3>1
    <2> QED
      BY <1>1, <1>2, <2>1 DEF TypeInv
  <1>5. SendersInv'
    BY <1>1, <1>2 DEF IInv, SendersInv, Live
  <1>6. ASSUME NEW s \in DOMAIN streams, streams[s].open, NEW k \in Key, k = streams[s].key
        PROVE  /\ s \in Live(k)'
               /\ streams'[s].log[Len(streams'[s].log)] = ValueOf(k)'
    <2>1. s \in Live(k) /\ streams[s].log[Len(streams[s].log)] = ValueOf(k)
      BY <1>6 DEF IInv, StreamsUpToDate
    <2>2. k \in DOMAIN map /\ s \in map[k].senders /\ Stays(k, target)
      BY <2>1 DEF Live, Stays
    <2>3. k \in DOMAIN map' /\ s \in map'[k].senders /\ streams'[s].open
      BY <1>1, <1>2, <1>6, <2>1, <2>2
    <2>4. CASE Receives(s, target)
      <3>1. target[k] = ValueOf(k)'
        BY <1>6, <2>4, ReceivesChange
      <3> QED
        BY <1>3, <1>6, <2>3, <2>4, <3>1 DEF Live
    <2>5. CASE ~Receives(s, target)
      <3>1. ValueOf(k)' = ValueOf(k)
        BY <1>6, <2>5, ReceivesChange
      <3> QED
        BY <1>1, <2>1, <2>3, <2>5, <3>1 DEF Live
    <2> QED
      BY <2>4, <2>5
  <1>7. StreamsUpToDate'
    <2> SUFFICES ASSUME NEW s \in DOMAIN streams', streams'[s].open
                 PROVE  /\ s \in Live(streams[s].key)'
                        /\ streams'[s].log[Len(streams'[s].log)] = ValueOf(streams[s].key)'
      BY DEF StreamsUpToDate
    <2>1. PICK k \in Key : k = streams[s].key
      BY <1>1 DEF Stream
    <2>2. streams'[s].key = k /\ streams[s].open /\ s \in DOMAIN streams
      BY <1>1, <2>1
    <2>3. s \in Live(k)' /\ streams'[s].log[Len(streams'[s].log)] = ValueOf(k)'
      BY <1>6, <2>1, <2>2
    <2> QED
      BY <2>2, <2>3 DEF Live, ValueOf
  <1>8. NoRepeatedItem'
    <2> SUFFICES ASSUME NEW s \in DOMAIN streams', NEW i \in 1 .. Len(streams'[s].log) - 1
                 PROVE  streams'[s].log[i] # streams'[s].log[i + 1]
      BY DEF NoRepeatedItem
    <2>1. s \in DOMAIN streams
          /\ \A j \in 1 .. Len(streams[s].log) - 1 : streams[s].log[j] # streams[s].log[j + 1]
      BY <1>1 DEF IInv, NoRepeatedItem
    <2>2. CASE ~Receives(s, target)
      BY <1>1, <2>1, <2>2
    <2>3. CASE Receives(s, target)
      <3>1. PICK n \in Nat : n = Len(streams[s].log) /\ i \in 1 .. n
        BY <1>3, <2>1, <2>3
      <3>2. CASE i = n
        <4>1. streams'[s].log[i] = streams[s].log[n]
          BY <1>3, <2>1, <2>3, <3>1, <3>2
        <4>2. streams'[s].log[i + 1] = target[streams[s].key]
          BY <1>3, <2>1, <2>3, <3>1, <3>2
        <4>3. streams[s].log[n] = map[streams[s].key].value
          BY <2>1, <2>3, <3>1 DEF IInv, StreamsUpToDate, Receives, Live, ValueOf
        <4> QED
          BY <2>3, <4>1, <4>2, <4>3 DEF Receives
      <3>3. CASE i < n
        <4>1. i \in 1 .. n /\ i + 1 \in 1 .. n /\ i \in 1 .. n - 1
          BY <3>1, <3>3
        <4> QED
          BY <1>3, <2>1, <2>3, <3>1, <4>1
      <3> QED
        BY <3>1, <3>2, <3>3
    <2> QED
      BY <2>2, <2>3
  <1> QED
    BY <1>4, <1>5, <1>7, <1>8 DEF IInv

\* What an observer adds: his stream, and his sender in the entry of his key.
LEMMA Observed ==
    ASSUME TypeInv, NEW k \in Key, Observe(k)
    PROVE  \E n \in Nat :
             /\ n = Len(streams) /\ DOMAIN streams = 1 .. n
             /\ streams' \in Seq(Stream) /\ DOMAIN streams' = 1 .. n + 1
             /\ \A s \in 1 .. n : streams'[s] = streams[s]
             /\ streams'[n + 1] = [key |-> k, log |-> <<ValueOf(k)>>, read |-> 0, open |-> TRUE]
             /\ DOMAIN map' = DOMAIN map \cup {k} /\ map' \in [DOMAIN map' -> Entry]
             /\ \A j \in DOMAIN map \ {k} : map'[j] = map[j]
             /\ map'[k].value = ValueOf(k)
             /\ map'[k].senders = (IF k \in DOMAIN map THEN map[k].senders ELSE {})
                                    \cup {n + 1}
  <1> DEFINE new == [key |-> k, log |-> <<ValueOf(k)>>, read |-> 0, open |-> TRUE]
  <1>1. PICK n \in Nat : n = Len(streams) /\ DOMAIN streams = 1 .. n
    BY LenProperties DEF TypeInv
  <1>2. ValueOf(k) \in Item
    BY DEF ValueOf, Item, TypeInv, Entry
  <1>3. new \in Stream
    BY <1>2 DEF Stream
  <1>4. streams' = Append(streams, new)
    BY DEF Observe
  <1> HIDE DEF new
  <1>5. /\ streams' \in Seq(Stream) /\ DOMAIN streams' = 1 .. n + 1
        /\ \A s \in 1 .. n : streams'[s] = streams[s]
        /\ streams'[n + 1] = new
    <2>1. streams \in Seq(Stream)
      BY DEF TypeInv
    <2>2. Len(streams') = n + 1 /\ DOMAIN streams' = 1 .. Len(streams')
      BY <1>1, <1>3, <1>4, <2>1, AppendProperties, LenProperties
    <2> QED
      BY <1>1, <1>3, <1>4, <2>1, <2>2, AppendProperties
  <1> DEFINE before == IF k \in DOMAIN map THEN map[k].senders ELSE {}
             entry == [value |-> ValueOf(k), senders |-> before \cup {n + 1}]
  <1>6. map' = [j \in DOMAIN map \cup {k} |-> IF j # k THEN map[j] ELSE entry]
    BY <1>1 DEF Observe
  <1>7. entry \in Entry
    BY <1>1, <1>2 DEF TypeInv, Entry
  <1>8. entry.value = ValueOf(k) /\ entry.senders = before \cup {n + 1}
    OBVIOUS
  <1> HIDE DEF entry
  <1>9. map' \in [DOMAIN map' -> Entry]
    BY <1>6, <1>7 DEF TypeInv
  <1> QED
    BY <1>1, <1>5, <1>6, <1>8, <1>9 DEF new

\* observe: the new stream starts with the present value, and its sender joins
\* those of the key.
LEMMA ObserveStep ==
    ASSUME IInv, NEW k \in Key, Observe(k)
    PROVE  IInv'
  <1>1. PICK n \in Nat :
             /\ n = Len(streams) /\ DOMAIN streams = 1 .. n
             /\ streams' \in Seq(Stream) /\ DOMAIN streams' = 1 .. n + 1
             /\ \A s \in 1 .. n : streams'[s] = streams[s]
             /\ streams'[n + 1] = [key |-> k, log |-> <<ValueOf(k)>>, read |-> 0, open |-> TRUE]
             /\ DOMAIN map' = DOMAIN map \cup {k} /\ map' \in [DOMAIN map' -> Entry]
             /\ \A j \in DOMAIN map \ {k} : map'[j] = map[j]
             /\ map'[k].value = ValueOf(k)
             /\ map'[k].senders = (IF k \in DOMAIN map THEN map[k].senders ELSE {})
                                    \cup {n + 1}
    BY Observed DEF IInv
  <1>2. \A s \in 1 .. n + 1 : s \in 1 .. n \/ s = n + 1
    OBVIOUS
  <1>3. /\ Len(streams'[n + 1].log) = 1 /\ streams'[n + 1].log[1] = ValueOf(k)
        /\ streams'[n + 1].log # <<>> /\ streams'[n + 1].read = 0
    BY <1>1
  <1>4. TypeInv'
    <2>1. ASSUME NEW s \in 1 .. n + 1
          PROVE  /\ streams'[s].read <= Len(streams'[s].log)
                 /\ streams'[s].open => streams'[s].log # <<>>
      <3>1. CASE s \in 1 .. n
        BY <1>1, <3>1 DEF IInv, TypeInv
      <3>2. CASE s = n + 1
        BY <1>3, <3>2
      <3> QED
        BY <1>2, <3>1, <3>2
    <2>2. DOMAIN map' \subseteq Key
      BY <1>1 DEF IInv, TypeInv
    <2> QED
      BY <1>1, <2>1, <2>2 DEF TypeInv
  <1>5. SendersInv'
    <2>1. \A j \in DOMAIN map : \A s \in map[j].senders : s \in 1 .. n /\ streams[s].key = j
      BY <1>1 DEF IInv, SendersInv
    <2>2. \A s \in map'[k].senders : s \in 1 .. n + 1 /\ streams'[s].key = k
      BY <1>1, <2>1
    <2> QED
      BY <1>1, <2>1, <2>2 DEF SendersInv
  <1>6. \A j \in Key : ValueOf(j)' = ValueOf(j)
    BY <1>1 DEF ValueOf
  <1>7. \A j \in Key : \A s \in Live(j) : s \in Live(j)'
    <2>1. \A j \in DOMAIN map : \A s \in map[j].senders :
            s \in 1 .. n /\ j \in DOMAIN map' /\ s \in map'[j].senders
      BY <1>1 DEF IInv, SendersInv
    <2> QED
      BY <1>1, <2>1 DEF Live
  <1>8. StreamsUpToDate'
    <2> SUFFICES ASSUME NEW s \in 1 .. n + 1, streams'[s].open
                 PROVE  /\ s \in Live(streams[s].key)'
                        /\ streams'[s].log[Len(streams'[s].log)] = ValueOf(streams[s].key)'
      BY <1>1 DEF StreamsUpToDate
    <2>1. CASE s \in 1 .. n
      <3>1. PICK j \in Key : j = streams[s].key
        <4>1. streams \in Seq(Stream)
          BY DEF IInv, TypeInv
        <4>2. streams[s] \in Stream
          BY <1>1, <2>1, <4>1, ElementOfSeq
        <4> QED
          BY <4>2 DEF Stream
      <3>2. s \in Live(j) /\ streams[s].log[Len(streams[s].log)] = ValueOf(j)
        BY <1>1, <2>1, <3>1 DEF IInv, StreamsUpToDate
      <3>3. s \in Live(j)' /\ streams'[s].log[Len(streams'[s].log)] = ValueOf(j)'
        BY <1>1, <1>6, <1>7, <2>1, <3>2
      <3>4. streams'[s].key = j
        BY <1>1, <2>1, <3>1
      <3> QED
        BY <3>3, <3>4 DEF Live, ValueOf
    <2>2. CASE s = n + 1
      <3>1. k \in DOMAIN map' /\ s \in map'[k].senders /\ streams'[s].key = k
        BY <1>1, <2>2
      <3>2. s \in Live(k)' /\ ValueOf(k)' = ValueOf(k)
        BY <1>6, <3>1 DEF Live
      <3> QED
        BY <1>3, <2>2, <3>1, <3>2 DEF Live, ValueOf
    <2> QED
      BY <1>2, <2>1, <2>2
  <1>9. NoRepeatedItem'
    <2>1. ASSUME NEW s \in 1 .. n, NEW i \in 1 .. Len(streams'[s].log) - 1
          PROVE  streams'[s].log[i] # streams'[s].log[i + 1]
      BY <1>1, <2>1 DEF IInv, NoRepeatedItem
    <2>2. \A i \in 1 .. Len(streams'[n + 1].log) - 1 : FALSE
      BY <1>3
    <2> QED
      BY <1>1, <1>2, <2>1, <2>2 DEF NoRepeatedItem
  <1> QED
    BY <1>4, <1>5, <1>8, <1>9 DEF IInv

\* The consumer of a stream takes an item or goes: no log and no entry changes
\* except for the log that is gone with him.
LEMMA ConsumerStep ==
    ASSUME IInv, NEW s \in DOMAIN streams, Read(s) \/ Drop(s)
    PROVE  IInv'
  <1>1. PICK n \in Nat : DOMAIN streams = 1 .. n /\ streams \in Seq(Stream)
    BY LenProperties DEF IInv, TypeInv
  <1>2. \A r \in 1 .. n : streams[r] \in Stream
    BY <1>1, ElementOfSeq
  <1>3. streams[s].read \in Nat /\ Len(streams[s].log) \in Nat /\ streams[s].open
    BY <1>1, <1>2, LenProperties DEF Stream, Read, Drop
  <1>4. PICK new \in Stream :
          /\ streams' = [streams EXCEPT ![s] = new]
          /\ new.key = streams[s].key
          /\ new.read <= Len(new.log)
          /\ \/ new.open /\ new.log = streams[s].log
             \/ ~new.open /\ new.log = <<>>
    <2>1. CASE Read(s)
      <3> DEFINE new == [streams[s] EXCEPT !.read = @ + 1]
      <3>1. new \in Stream
        <4>1. streams[s] \in Stream /\ streams[s].read + 1 \in Nat
          BY <1>1, <1>2, <1>3
        <4> QED
          BY <4>1 DEF Stream
      <3>2. streams' = [streams EXCEPT ![s] = new]
        BY <2>1 DEF Read
      <3>3. /\ new.key = streams[s].key /\ new.log = streams[s].log
            /\ new.open = streams[s].open /\ new.read = streams[s].read + 1
        BY <1>1, <1>2 DEF Stream
      <3>4. new.read <= Len(new.log) /\ new.open
        BY <1>3, <2>1, <3>3 DEF Read
      <3> QED
        BY <3>1, <3>2, <3>3, <3>4
    <2>2. CASE Drop(s)
      <3> DEFINE new == Closed(streams[s])
      <3>1. /\ new.key = streams[s].key /\ new.log = <<>> /\ new.read = 0 /\ ~new.open
            /\ new \in Stream
        BY <1>1, <1>2, EmptySeq DEF Closed, Stream
      <3>2. streams' = [streams EXCEPT ![s] = new]
        BY <2>2 DEF Drop
      <3>3. new.read <= Len(new.log)
        BY <3>1
      <3> QED
        BY <3>1, <3>2, <3>3
    <2> QED
      BY <2>1, <2>2
  <1>5. /\ DOMAIN streams' = 1 .. n /\ streams'[s] = new
        /\ \A r \in 1 .. n \ {s} : streams'[r] = streams[r]
    BY <1>1, <1>4
  <1>6. map' = map
    BY DEF Read, Drop
  <1>7. TypeInv'
    <2>1. streams' \in [1 .. n -> Stream]
      BY <1>1, <1>2, <1>4
    <2>2. streams' \in Seq(Stream)
      BY <2>1, SeqDef
    <2> QED
      BY <1>1, <1>3, <1>4, <1>5, <1>6, <2>2 DEF IInv, TypeInv
  <1>8. \A r \in 1 .. n : streams'[r].key = streams[r].key
    BY <1>1, <1>4, <1>5
  <1>9. SendersInv'
    BY <1>1, <1>5, <1>6, <1>8 DEF IInv, SendersInv
  <1>10. StreamsUpToDate'
    <2> SUFFICES ASSUME NEW r \in 1 .. n, streams'[r].open
                 PROVE  /\ r \in Live(streams[r].key)'
                        /\ streams'[r].log[Len(streams'[r].log)] = ValueOf(streams[r].key)'
      BY <1>5 DEF StreamsUpToDate
    <2>1. streams[r].open /\ streams'[r].log = streams[r].log
      BY <1>1, <1>3, <1>4, <1>5
    <2>2. r \in Live(streams[r].key)
          /\ streams[r].log[Len(streams[r].log)] = ValueOf(streams[r].key)
      BY <1>1, <2>1 DEF IInv, StreamsUpToDate
    <2> QED
      BY <1>6, <1>8, <2>1, <2>2 DEF Live, ValueOf
  <1>11. NoRepeatedItem'
    <2>1. ASSUME NEW r \in 1 .. n
          PROVE  streams'[r].log = streams[r].log \/ streams'[r].log = <<>>
      BY <1>1, <1>4, <1>5
    <2>2. \A i \in 1 .. Len(<<>>) - 1 : FALSE
      OBVIOUS
    <2> QED
      BY <1>1, <1>5, <2>1, <2>2 DEF IInv, NoRepeatedItem
  <1> QED
    BY <1>7, <1>9, <1>10, <1>11 DEF IInv

-----------------------------------------------------------------------------
(* The theorems about the map.                                             *)

\* An empty map without streams.
LEMMA InitInv == ObservableInit => IInv
  <1> SUFFICES ASSUME ObservableInit PROVE IInv
    OBVIOUS
  <1>1. map = <<>> /\ streams = <<>> /\ DOMAIN map = {} /\ DOMAIN streams = {}
    BY DEF ObservableInit
  <1>2. streams \in Seq(Stream) /\ map \in [DOMAIN map -> Entry]
    BY <1>1, EmptySeq
  <1> QED
    BY <1>1, <1>2 DEF IInv, TypeInv, SendersInv, StreamsUpToDate, NoRepeatedItem

\* A sync is an update of all keys that are present or get a value.
LEMMA SyncTarget ==
    ASSUME TypeInv, SyncAny
    PROVE  \E target : Target(target) /\ Update(target) /\ DOMAIN map \subseteq DOMAIN target
  <1>1. PICK present \in SUBSET Key : \E entries \in [present -> Value] : Sync(entries)
    BY DEF SyncAny
  <1>2. PICK entries \in [present -> Value] : Sync(entries)
    BY <1>1
  <1> DEFINE target == [k \in DOMAIN map \cup DOMAIN entries |->
                          IF k \in DOMAIN entries THEN entries[k] ELSE None]
  <1>3. Target(target)
    BY Targets
  <1>4. Update(target)
    BY <1>2 DEF Sync
  <1> QED
    BY <1>3, <1>4

\* Every step is an update with a target, an observation, or a consumer's.
LEMMA Steps ==
    ASSUME TypeInv, ObservableNext
    PROVE  \/ \E target : Target(target) /\ Update(target)
           \/ \E k \in Key : Observe(k)
           \/ \E s \in DOMAIN streams : Read(s) \/ Drop(s)
  <1>1. CASE \E k \in Key, v \in Value : InsertEntry(k, v)
    BY <1>1, Targets DEF InsertEntry
  <1>2. CASE \E k \in Key : RemoveEntry(k)
    BY <1>2, Targets DEF RemoveEntry
  <1>3. CASE SyncAny
    BY <1>3, SyncTarget
  <1> QED
    BY <1>1, <1>2, <1>3 DEF ObservableNext

\* Every step preserves the invariant.
LEMMA NextStep == IInv /\ [ObservableNext]_ovars => IInv'
  <1> SUFFICES ASSUME IInv, [ObservableNext]_ovars PROVE IInv'
    OBVIOUS
  <1>1. CASE UNCHANGED ovars
    BY <1>1 DEF ovars, IInv, TypeInv, SendersInv, StreamsUpToDate, NoRepeatedItem,
                Live, ValueOf
  <1>2. CASE ObservableNext
    BY <1>2, Steps, UpdateStep, ObserveStep, ConsumerStep DEF IInv
  <1> QED
    BY <1>1, <1>2

\* The inductive invariant of the map holds in every state.
THEOREM Invariance == ObservableSpec => []IInv
  BY InitInv, NextStep, PTL DEF ObservableSpec

\* Whoever watches a key has been sent its present value last, whatever keys,
\* values and streams there are.
THEOREM WatchersUpToDate == ObservableSpec => []StreamsUpToDate
  BY Invariance, PTL DEF IInv

\* No stream is sent the same value twice in a row.
THEOREM NothingTwice == ObservableSpec => []NoRepeatedItem
  BY Invariance, PTL DEF IInv

\* What a sync leaves behind has a value or is watched, and only by streams
\* that are still there, whoever dropped his stream before.
THEOREM SyncPurges == ObservableSpec => PurgedBySync
  <1> DEFINE Purged == \A k \in DOMAIN map' :
                         /\ map'[k].value = None => map'[k].senders # {}
                         /\ \A s \in map'[k].senders : streams'[s].open
  <1>1. ASSUME IInv, SyncAny
        PROVE  Purged
    <2>1. TypeInv /\ SendersInv
      BY <1>1 DEF IInv
    <2>2. PICK target : Target(target) /\ Update(target) /\ DOMAIN map \subseteq DOMAIN target
      BY <1>1, <2>1, SyncTarget
    <2>3. /\ DOMAIN map' = { k \in DOMAIN map \cup DOMAIN target : Stays(k, target) }
          /\ \A k \in DOMAIN map' : /\ k \in DOMAIN target
                                    /\ map'[k].value = target[k]
                                    /\ map'[k].senders = Live(k)
      BY <2>1, <2>2, UpdatedMap
    <2>4. \A s \in DOMAIN streams : streams'[s].open = streams[s].open
      BY <2>1, <2>2, UpdatedStreams
    <2>5. \A k \in DOMAIN map' : \A s \in Live(k) : s \in DOMAIN streams /\ streams[s].open
      BY <2>1 DEF Live, SendersInv
    <2> QED
      BY <2>3, <2>4, <2>5 DEF Stays
  <1>2. IInv => [SyncAny => Purged]_ovars
    BY <1>1
  <1> HIDE DEF Purged
  <1>3. ObservableSpec => [][SyncAny => Purged]_ovars
    BY <1>2, Invariance, PTL
  <1> QED
    BY <1>3 DEF PurgedBySync, Purged

-----------------------------------------------------------------------------
(* The map implements WatchedMap: entries without a value, senders of      *)
(* dropped streams and the moment at which they are cleaned up are hidden. *)

\* An update changes the keys whose value is new, and shows it to whoever
\* watches them.
LEMMA UpdateRefines ==
    ASSUME IInv, NEW target, Target(target), Update(target)
    PROVE  Abstract!Change
  <1>1. TypeInv /\ SendersInv
    BY DEF IInv
  <1>2. ASSUME NEW k \in Key
        PROVE  ValueOf(k)' \in Value \cup {None} /\ Content[k] = ValueOf(k)
               /\ Content'[k] = ValueOf(k)'
    <2>1. ValueOf(k) \in Item
      BY <1>1 DEF ValueOf, TypeInv, Entry, Item
    <2>2. ValueOf(k)' = IF k \in DOMAIN target THEN target[k] ELSE ValueOf(k)
      BY <1>1, UpdatedValue
    <2> QED
      BY <2>1, <2>2 DEF Target, Item, Content
  <1>3. Content' \in [Key -> Value \cup {None}]
    BY <1>2 DEF Content
  <1>4. /\ DOMAIN streams' = DOMAIN streams
        /\ \A s \in DOMAIN streams :
             /\ streams[s] \in Stream
             /\ streams'[s].key = streams[s].key
             /\ streams'[s].open = streams[s].open
             /\ streams'[s].read = streams[s].read
             /\ streams'[s].log = IF Receives(s, target)
                                  THEN Append(streams[s].log, target[streams[s].key])
                                  ELSE streams[s].log
    BY <1>1, UpdatedStreams
  <1> DEFINE W(s) == [key  |-> streams[s].key,
                      due  |-> SubSeq(streams[s].log, streams[s].read + 1,
                                      Len(streams[s].log)),
                      open |-> streams[s].open]
             shown(s) == LET k == streams[s].key
                         IN  IF W(s).open /\ Content'[k] # Content[k]
                             THEN [W(s) EXCEPT !.due = Append(@, Content'[k])]
                             ELSE W(s)
  <1>5. ASSUME NEW s \in DOMAIN streams
        PROVE  [key  |-> streams'[s].key,
                due  |-> SubSeq(streams'[s].log, streams'[s].read + 1, Len(streams'[s].log)),
                open |-> streams'[s].open] = shown(s)
    <2>1. PICK k \in Key : k = streams[s].key
      BY <1>4 DEF Stream
    <2>2. /\ Receives(s, target) <=> streams[s].open /\ Content'[k] # Content[k]
          /\ Receives(s, target) => target[k] = Content'[k]
      BY <1>2, <2>1, ReceivesChange
    <2>3. CASE Receives(s, target)
      <3>0. streams[s].log \in Seq(Item)
        BY <1>4 DEF Stream
      <3>1. streams[s].log \in Seq(Item) /\ target[k] \in Item
        BY <1>4, <2>1, <2>3, <3>0 DEF Receives, Target
      <3>2. streams[s].read \in 0 .. Len(streams[s].log)
        BY <1>1, <1>4, <3>1, LenProperties DEF TypeInv, Stream
      <3>3. SubSeq(streams'[s].log, streams'[s].read + 1, Len(streams'[s].log))
              = Append(SubSeq(streams[s].log, streams[s].read + 1, Len(streams[s].log)),
                       target[k])
        <4>1. streams'[s].log = Append(streams[s].log, target[k])
              /\ streams'[s].read = streams[s].read
          BY <1>4, <2>1, <2>3
        <4>2. PICK log, n, x : log = streams[s].log /\ n = streams[s].read /\ x = target[k]
          OBVIOUS
        <4>3. log \in Seq(Item) /\ x \in Item /\ n \in 0 .. Len(log)
          BY <3>1, <3>2, <4>2
        <4>4. SubSeq(Append(log, x), n + 1, Len(Append(log, x)))
                = Append(SubSeq(log, n + 1, Len(log)), x)
          BY <4>3, DueAppend
        <4> QED
          BY <4>1, <4>2, <4>4
      <3> QED
        BY <1>4, <2>1, <2>2, <2>3, <3>3
    <2>4. CASE ~Receives(s, target)
      BY <1>4, <2>1, <2>2, <2>4
    <2> QED
      BY <2>3, <2>4
  <1>6. /\ DOMAIN Watchers = DOMAIN streams
        /\ \A s \in DOMAIN streams : Watchers[s] = W(s) /\ Watchers[s].key = streams[s].key
    BY DEF Watchers
  <1>7. Watchers' = [s \in DOMAIN streams |-> shown(s)]
    BY <1>4, <1>5 DEF Watchers
  <1>8. Watchers' = [w \in DOMAIN Watchers |->
                       LET k == Watchers[w].key
                       IN  IF Watchers[w].open /\ Content'[k] # Content[k]
                           THEN [Watchers[w] EXCEPT !.due = Append(@, Content'[k])]
                           ELSE Watchers[w]]
    <2> HIDE DEF W
    <2> QED
      BY <1>6, <1>7
  <1> QED
    BY <1>3, <1>8 DEF Abstract!Change

\* An observer starts to watch, and is due the present value.
LEMMA ObserveRefines ==
    ASSUME IInv, NEW k \in Key, Observe(k)
    PROVE  Abstract!Watch(k)
  <1>1. PICK n \in Nat :
             /\ n = Len(streams) /\ DOMAIN streams = 1 .. n
             /\ streams' \in Seq(Stream) /\ DOMAIN streams' = 1 .. n + 1
             /\ \A s \in 1 .. n : streams'[s] = streams[s]
             /\ streams'[n + 1] = [key |-> k, log |-> <<ValueOf(k)>>, read |-> 0, open |-> TRUE]
             /\ DOMAIN map' = DOMAIN map \cup {k} /\ map' \in [DOMAIN map' -> Entry]
             /\ \A j \in DOMAIN map \ {k} : map'[j] = map[j]
             /\ map'[k].value = ValueOf(k)
             /\ map'[k].senders = (IF k \in DOMAIN map THEN map[k].senders ELSE {})
                                    \cup {n + 1}
    BY Observed DEF IInv
  <1>2. \A j \in Key : ValueOf(j)' = ValueOf(j)
    BY <1>1 DEF ValueOf
  <1>3. Content' = Content /\ Content[k] = ValueOf(k)
    BY <1>2 DEF Content
  <1> DEFINE W(stream) == [key  |-> stream.key,
                           due  |-> SubSeq(stream.log, stream.read + 1, Len(stream.log)),
                           open |-> stream.open]
             new == [key |-> k, due |-> <<Content[k]>>, open |-> TRUE]
  <1>4. W(streams'[n + 1]) = new
    <2>1. SubSeq(<<ValueOf(k)>>, 0 + 1, Len(<<ValueOf(k)>>)) = <<ValueOf(k)>>
      <3>1. 0 + 1 = 1
        OBVIOUS
      <3> QED
        BY <3>1, DueOfOne
    <2>2. /\ streams'[n + 1].key = k /\ streams'[n + 1].log = <<ValueOf(k)>>
          /\ streams'[n + 1].read = 0 /\ streams'[n + 1].open = TRUE
      BY <1>1
    <2>3. SubSeq(streams'[n + 1].log, streams'[n + 1].read + 1, Len(streams'[n + 1].log))
            = <<Content[k]>>
      BY <1>3, <2>1, <2>2
    <2> QED
      BY <2>2, <2>3
  <1> HIDE DEF new
  <1>5. Watchers = [s \in 1 .. n |-> W(streams[s])]
        /\ Watchers' = [s \in 1 .. n + 1 |-> W(streams'[s])]
    BY <1>1 DEF Watchers
  <1> DEFINE WS == { W(streams[s]) : s \in 1 .. n } \cup {new}
  <1> HIDE DEF W
  <1>6. Watchers \in Seq(WS) /\ new \in WS /\ Len(Watchers) = n
    <2>1. Watchers \in [1 .. n -> WS]
      BY <1>5
    <2>2. Watchers \in Seq(WS)
      BY <2>1, SeqDef
    <2>3. DOMAIN Watchers = 1 .. n
      BY <1>5
    <2> QED
      BY <2>2, <2>3, LenProperties
  <1> DEFINE added == Append(Watchers, new)
  <1>7. /\ DOMAIN added = 1 .. n + 1 /\ added \in Seq(WS)
        /\ \A s \in 1 .. n : added[s] = Watchers[s]
        /\ added[n + 1] = new
    BY <1>6, AppendProperties, LenProperties
  <1>8. Watchers' = added
    <2>1. \A s \in 1 .. n + 1 : W(streams'[s]) = added[s]
      BY <1>1, <1>4, <1>5, <1>7
    <2>2. added = [s \in 1 .. n + 1 |-> added[s]]
      <3> HIDE DEF added
      <3> QED
        BY <1>7, SeqDef
    <2> QED
      BY <1>5, <2>1, <2>2
  <1> QED
    BY <1>3, <1>8 DEF Abstract!Watch, new

\* A consumer who takes an item is shown the next one due, and one who drops
\* his stream leaves.
LEMMA ConsumerRefines ==
    ASSUME IInv, NEW s \in DOMAIN streams, Read(s) \/ Drop(s)
    PROVE  Abstract!Show(s) \/ Abstract!Leave(s)
  <1> DEFINE W(stream) == [key  |-> stream.key,
                           due  |-> SubSeq(stream.log, stream.read + 1, Len(stream.log)),
                           open |-> stream.open]
  <1>1. /\ DOMAIN Watchers = DOMAIN streams
        /\ \A r \in DOMAIN streams : Watchers[r] = W(streams[r])
    BY DEF Watchers
  <1>0. s \in DOMAIN Watchers
    BY <1>1
  <1>2. Content' = Content
    BY DEF Read, Drop, Content, ValueOf
  <1>3. /\ streams[s].log \in Seq(Item) /\ streams[s].read \in Nat
        /\ Len(streams[s].log) \in Nat
    <2>1. streams[s] \in Stream
      BY ElementOfSeq, LenProperties DEF IInv, TypeInv
    <2> QED
      BY <2>1, LenProperties DEF Stream
  <1>4. ASSUME DOMAIN streams' = DOMAIN streams,
               \A r \in DOMAIN streams \ {s} : streams'[r] = streams[r]
        PROVE  Watchers' = [Watchers EXCEPT ![s] = W(streams'[s])]
    <2>1. Watchers' = [r \in DOMAIN streams |-> W(streams'[r])]
      BY <1>4 DEF Watchers
    <2>2. Watchers = [r \in DOMAIN streams |-> W(streams[r])]
      BY DEF Watchers
    <2> HIDE DEF W
    <2> QED
      BY <1>4, <2>1, <2>2
  <1>5. CASE Read(s)
    <2>1. /\ streams[s].open /\ streams[s].read < Len(streams[s].log)
          /\ streams' = [streams EXCEPT ![s].read = @ + 1]
      BY <1>5 DEF Read
    <2>2. /\ DOMAIN streams' = DOMAIN streams
          /\ \A r \in DOMAIN streams \ {s} : streams'[r] = streams[r]
          /\ streams'[s] = [streams[s] EXCEPT !.read = @ + 1]
      BY <2>1
    <2>3. streams[s] \in Stream
      BY ElementOfSeq, LenProperties DEF IInv, TypeInv
    <2>4. /\ streams'[s].key = streams[s].key /\ streams'[s].log = streams[s].log
          /\ streams'[s].open = streams[s].open /\ streams'[s].read = streams[s].read + 1
      BY <2>2, <2>3 DEF Stream
    <2> DEFINE due == SubSeq(streams[s].log, streams[s].read + 1, Len(streams[s].log))
    <2>5. /\ due # <<>>
          /\ SubSeq(streams[s].log, streams[s].read + 2, Len(streams[s].log)) = Tail(due)
      BY <1>3, <2>1, DueTail
    <2>6. streams'[s].read + 1 = streams[s].read + 2
      BY <1>3, <2>4
    <2>7. Watchers[s] = [key |-> streams[s].key, due |-> due, open |-> streams[s].open]
      BY <1>1
    <2>8. W(streams'[s])
            = [key |-> streams[s].key, due |-> Tail(due), open |-> streams[s].open]
      BY <2>4, <2>5, <2>6
    <2>9. Watchers' = [Watchers EXCEPT ![s] = W(streams'[s])]
      BY <1>4, <2>2
    <2> HIDE DEF due
    <2>10. Watchers' = [Watchers EXCEPT ![s].due = Tail(due)]
      <3>1. Watchers' = [Watchers EXCEPT ![s] = [key |-> streams[s].key, due |-> Tail(due),
                                                 open |-> streams[s].open]]
        BY <2>8, <2>9
      <3>2. \A o, x : [[key |-> streams[s].key, due |-> due, open |-> o] EXCEPT !.due = x]
                        = [key |-> streams[s].key, due |-> x, open |-> o]
        OBVIOUS
      <3>3. [Watchers EXCEPT ![s].due = Tail(due)]
              = [Watchers EXCEPT ![s] = [@ EXCEPT !.due = Tail(due)]]
        OBVIOUS
      <3> QED
        BY <1>0, <2>7, <3>1, <3>2, <3>3
    <2>11. Watchers[s].due = due /\ Watchers[s].open
      BY <2>1, <2>7
    <2> QED
      BY <1>2, <2>5, <2>10, <2>11 DEF Abstract!Show
  <1>6. CASE Drop(s)
    <2>1. streams[s].open /\ streams' = [streams EXCEPT ![s] = Closed(@)]
      BY <1>6 DEF Drop
    <2>2. /\ DOMAIN streams' = DOMAIN streams
          /\ \A r \in DOMAIN streams \ {s} : streams'[r] = streams[r]
          /\ streams'[s] = Closed(streams[s])
      BY <2>1
    <2>3. W(Closed(streams[s])) = [key |-> streams[s].key, due |-> <<>>, open |-> FALSE]
      <3>1. 0 + 1 = 1 /\ Len(<<>>) = 0 /\ SubSeq(<<>>, 1, 0) = <<>>
        BY SubSeqEmpty
      <3> QED
        BY <3>1 DEF Closed
    <2>4. Watchers' = [Watchers EXCEPT ![s] = W(streams'[s])]
      BY <1>4, <2>2
    <2> DEFINE due == SubSeq(streams[s].log, streams[s].read + 1, Len(streams[s].log))
    <2>5. Watchers[s] = [key |-> streams[s].key, due |-> due, open |-> streams[s].open]
      BY <1>1
    <2> HIDE DEF due
    <2>6. Watchers' = [Watchers EXCEPT ![s].open = FALSE, ![s].due = <<>>]
      <3>1. Watchers' = [Watchers EXCEPT ![s] = [key |-> streams[s].key, due |-> <<>>,
                                                 open |-> FALSE]]
        BY <2>2, <2>3, <2>4
      <3>2. \A o, p : [[key |-> streams[s].key, due |-> due, open |-> p] EXCEPT !.open = o]
                        = [key |-> streams[s].key, due |-> due, open |-> o]
        OBVIOUS
      <3>3. \A o, x : [[key |-> streams[s].key, due |-> due, open |-> o] EXCEPT !.due = x]
                        = [key |-> streams[s].key, due |-> x, open |-> o]
        OBVIOUS
      <3>4. [Watchers EXCEPT ![s].open = FALSE, ![s].due = <<>>]
              = [Watchers EXCEPT ![s] = [[@ EXCEPT !.open = FALSE] EXCEPT !.due = <<>>]]
        OBVIOUS
      <3>5. [[Watchers[s] EXCEPT !.open = FALSE] EXCEPT !.due = <<>>]
              = [key |-> streams[s].key, due |-> <<>>, open |-> FALSE]
        <4>1. [Watchers[s] EXCEPT !.open = FALSE]
                = [key |-> streams[s].key, due |-> due, open |-> FALSE]
          BY <2>5, <3>2
        <4> QED
          BY <3>3, <4>1
      <3> QED
        BY <1>0, <3>1, <3>4, <3>5
    <2> QED
      BY <1>2, <2>1, <2>5, <2>6 DEF Abstract!Leave
  <1> QED
    BY <1>5, <1>6

\* The empty map stands for the one without values and watchers.
LEMMA InitRefines == ObservableInit => Abstract!Init
  BY DEF ObservableInit, Abstract!Init, Content, Watchers, ValueOf

\* Every step is one of WatchedMap or leaves it alone.
LEMMA StepRefines == IInv /\ [ObservableNext]_ovars => [Abstract!Next]_(Abstract!wmvars)
  <1> SUFFICES ASSUME IInv, [ObservableNext]_ovars
               PROVE  Abstract!Next \/ UNCHANGED Abstract!wmvars
    OBVIOUS
  <1>1. CASE UNCHANGED ovars
    BY <1>1 DEF ovars, Abstract!wmvars, Content, Watchers, ValueOf
  <1>2. CASE \E target : Target(target) /\ Update(target)
    BY <1>2, UpdateRefines DEF Abstract!Next
  <1>3. CASE \E k \in Key : Observe(k)
    BY <1>3, ObserveRefines DEF Abstract!Next
  <1>4. CASE \E s \in DOMAIN streams : Read(s) \/ Drop(s)
    <2>1. DOMAIN Watchers = DOMAIN streams
      BY DEF Watchers
    <2> QED
      BY <1>4, <2>1, ConsumerRefines DEF Abstract!Next
  <1> QED
    BY <1>1, <1>2, <1>3, <1>4, Steps DEF IInv

\* The map implements WatchedMap: every operation shows each watcher exactly
\* the changes of his key, in their order.
THEOREM Refinement == ObservableSpec => ImplementsWatchedMap
  <1>1. ObservableSpec => Abstract!Init
    BY InitRefines DEF ObservableSpec
  <1>2. ObservableSpec => [][Abstract!Next]_(Abstract!wmvars)
    BY Invariance, StepRefines, PTL DEF ObservableSpec
  <1> QED
    BY <1>1, <1>2 DEF ImplementsWatchedMap, Abstract!Spec
=============================================================================
