--------------------------- MODULE ObservableMap ---------------------------
(***************************************************************************)
(* rpc/src/observable.rs: ObservableHashMap, a map whose entries may be    *)
(* watched by streams, also while they are absent.  Every operation runs   *)
(* under an exclusive borrow; reading and dropping a stream do not, and    *)
(* the map only notices a dropped stream when it next touches the entry.   *)
(***************************************************************************)
EXTENDS Naturals, Sequences

CONSTANTS
    Key, Value,
    None,          \* the value of an absent key
    MaxStreams,    \* bound: how many streams are ever opened
    MaxLog         \* bound: how many items one stream is sent

ASSUME ObservableAssumption == None \notin Value /\ MaxStreams \in Nat /\ MaxLog \in Nat

VARIABLES
    map,       \* the HashMap: an Observable, its value and senders, per key present
    streams    \* every stream opened: its key, what was sent, how much was read

ovars == <<map, streams>>

ObservableInit == map = <<>> /\ streams = <<>>

\* What get would say of k: the entry may be missing, or be there with None.
ValueOf(k) == IF k \in DOMAIN map THEN map[k].value ELSE None

\* The senders of k whose stream has not been dropped (retain).
Live(k) == IF k \in DOMAIN map THEN { s \in map[k].senders : streams[s].open } ELSE {}

\* Mutant: a value that did not change is sent again.
ReceivesAll(s, target) ==
    LET k == streams[s].key IN k \in DOMAIN target /\ s \in Live(k)

\* Observable::replace: stream s is sent the new value of its key, if it is new.
Receives(s, target) ==
    LET k == streams[s].key
    IN  k \in DOMAIN target /\ s \in Live(k) /\ target[k] # map[k].value

\* Mutant: an entry without value is kept although nobody watches it.
StaysAlways(k, target) == TRUE

\* Mutant: a removed entry goes, with the streams that watch it.
StaysWithValue(k, target) == k \in DOMAIN target => target[k] # None

\* try_into_unobserved: a removed entry stays while it is watched.
Stays(k, target) == k \in DOMAIN target => target[k] # None \/ Live(k) # {}

\* The keys of target get their new values, None for removal.
Update(target) ==
    /\ map' = [k \in { j \in DOMAIN map \cup DOMAIN target : Stays(j, target) } |->
                 IF k \in DOMAIN target THEN [value |-> target[k], senders |-> Live(k)]
                                        ELSE map[k]]
    /\ streams' = [s \in DOMAIN streams |->
                     IF Receives(s, target)
                     THEN [streams[s] EXCEPT !.log = Append(@, target[streams[s].key])]
                     ELSE streams[s]]

\* Mutant: an entry that is there is replaced by a new Observable.
InsertFresh(k, v) ==
    /\ map' = [j \in DOMAIN map \cup {k} |->
                 IF j = k THEN [value |-> v, senders |-> {}] ELSE map[j]]
    /\ UNCHANGED streams

InsertEntry(k, v) == Update([j \in {k} |-> v])
RemoveEntry(k)    == Update([j \in {k} |-> None])

\* Mutant: what is not among the entries stays.
SyncInsertsOnly(entries) == Update(entries)

\* sync: insert the entries, remove every other key.
Sync(entries) ==
    Update([k \in DOMAIN map \cup DOMAIN entries |->
              IF k \in DOMAIN entries THEN entries[k] ELSE None])

\* observe: a new stream that starts with the present value; an unknown key
\* gets an entry without value.
Observe(k) ==
    /\ Len(streams) < MaxStreams
    /\ streams' = Append(streams, [key |-> k, log |-> <<ValueOf(k)>>, read |-> 0, open |-> TRUE])
    /\ map' = [j \in DOMAIN map \cup {k} |->
                 IF j # k THEN map[j]
                 ELSE [value |-> ValueOf(k),
                       senders |-> (IF k \in DOMAIN map THEN map[k].senders ELSE {})
                                     \cup {Len(streams) + 1}]]

\* What is kept of a stream whose receiver is gone.
Closed(stream) == [key |-> stream.key, log |-> <<>>, read |-> 0, open |-> FALSE]

\* The consumer of a stream takes the next item, or drops the stream.
Read(s) ==
    /\ streams[s].open /\ streams[s].read < Len(streams[s].log)
    /\ streams' = [streams EXCEPT ![s].read = @ + 1]
    /\ UNCHANGED map

Drop(s) ==
    /\ streams[s].open
    /\ streams' = [streams EXCEPT ![s] = Closed(@)]
    /\ UNCHANGED map

-----------------------------------------------------------------------------
(* The map on its own, with any sequence of operations.                    *)

InBounds == \A s \in DOMAIN streams : streams[s].open => Len(streams[s].log) < MaxLog

SyncAny == \E present \in SUBSET Key : \E entries \in [present -> Value] : Sync(entries)

ObservableNext ==
    \/ \E k \in Key : Observe(k)
    \/ \E k \in Key, v \in Value : InBounds /\ InsertEntry(k, v)
    \/ \E k \in Key : InBounds /\ RemoveEntry(k)
    \/ InBounds /\ SyncAny
    \/ \E s \in DOMAIN streams : Read(s) \/ Drop(s)

ObservableSpec == ObservableInit /\ [][ObservableNext]_ovars

-----------------------------------------------------------------------------

\* The map of WatchedMap that this one stands for: an entry with None and no
\* entry are the same, and so are a dropped stream that still has its sender
\* and one that was forgotten.
Content  == [k \in Key |-> ValueOf(k)]
Watchers ==
    [s \in DOMAIN streams |->
        [key  |-> streams[s].key,
         due  |-> SubSeq(streams[s].log, streams[s].read + 1, Len(streams[s].log)),
         open |-> streams[s].open]]
Abstract == INSTANCE WatchedMap WITH content <- Content, watchers <- Watchers

\* Every operation shows each watcher exactly the changes of his key, in their
\* order, although entries come and go with removals and syncs, and although
\* an entry learns of a dropped stream only when it is next touched.
ImplementsWatchedMap == Abstract!Spec

\* Whoever watches a key has been sent its present value last, also for a key
\* that was absent, removed, or touched while other streams were dropped.
StreamsUpToDate ==
    \A s \in DOMAIN streams :
        streams[s].open => /\ s \in Live(streams[s].key)
                           /\ streams[s].log[Len(streams[s].log)] = ValueOf(streams[s].key)

\* No stream is sent the same value twice in a row ("nothing should be streamed").
NoRepeatedItem ==
    \A s \in DOMAIN streams : \A i \in 1 .. Len(streams[s].log) - 1 :
        streams[s].log[i] # streams[s].log[i + 1]

\* An entry without a value is there because a stream watched it, and a sync
\* purges those whose streams are gone and the senders of dropped streams.
PurgedBySync ==
    [][SyncAny => \A k \in DOMAIN map' :
          /\ map'[k].value = None => map'[k].senders # {}
          /\ \A s \in map'[k].senders : streams'[s].open]_ovars
=============================================================================
