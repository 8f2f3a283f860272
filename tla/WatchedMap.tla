----------------------------- MODULE WatchedMap -----------------------------
(***************************************************************************)
(* What rpc/src/observable.rs promises: a map in which every key has a     *)
(* value or None, and watchers.  Whoever watches a key is shown its value  *)
(* of that moment and from then on every change of it, each once and in    *)
(* order.  There are no senders, no entries that come and go and no lazy   *)
(* clean-up here.                                                          *)
(***************************************************************************)
EXTENDS Naturals, Sequences

CONSTANTS Key, Value, None

VARIABLES
    content,    \* the value of every key
    watchers    \* per watcher: its key, the items he was not shown yet, and
                \* whether he still watches

wmvars == <<content, watchers>>

Init == content = [k \in Key |-> None] /\ watchers = <<>>

Watch(k) ==
    /\ watchers' = Append(watchers, [key |-> k, due |-> <<content[k]>>, open |-> TRUE])
    /\ UNCHANGED content

\* Any number of keys change at once; their watchers get the new values.
Change ==
    /\ content' \in [Key -> Value \cup {None}]
    /\ watchers' = [w \in DOMAIN watchers |->
                      LET k == watchers[w].key
                      IN  IF watchers[w].open /\ content'[k] # content[k]
                          THEN [watchers[w] EXCEPT !.due = Append(@, content'[k])]
                          ELSE watchers[w]]

\* A watcher is shown the next item, or leaves.
Show(w) ==
    /\ watchers[w].open /\ watchers[w].due # <<>>
    /\ watchers' = [watchers EXCEPT ![w].due = Tail(@)]
    /\ UNCHANGED content

Leave(w) ==
    /\ watchers[w].open
    /\ watchers' = [watchers EXCEPT ![w].open = FALSE, ![w].due = <<>>]
    /\ UNCHANGED content

Next ==
    \/ \E k \in Key : Watch(k)
    \/ Change
    \/ \E w \in DOMAIN watchers : Show(w) \/ Leave(w)

Spec == Init /\ [][Next]_wmvars
=============================================================================
