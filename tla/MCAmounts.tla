------------------------------ MODULE MCAmounts ------------------------------
(***************************************************************************)
(* The two computations on amounts, side by side: the split of a redirect  *)
(* and the merge of a deposit.  They share no state, so their steps are    *)
(* not interleaved: deposits are merged at the start of one window only.   *)
(***************************************************************************)
EXTENDS RedirectAmounts, DepositMerge

Init == SplitInit /\ MergeInit
Next ==
    \/ part = [r \in Role |-> None] /\ SplitNext /\ UNCHANGED dvars
    \/ base = (CHOOSE w \in Windows : TRUE) /\ amount = base /\ MergeNext /\ UNCHANGED avars
Spec == Init /\ [][Next]_<<avars, dvars>>

\* Amounts around every power of two, where f32's resolution changes, the
\* amount of the driver, and the largest TLC can represent.
MCWindows == {1} \cup { 2^k - 20 : k \in 5 .. 30 } \cup {158997670, 2147483600}

\* Around 71.6 BTC, in units of 16 satoshi.
LargeWindows == {447403560}

\* The amounts of the driver in protocol/src/lib.rs; a price on which the two
\* disagree by less than the fees and by more; and a deposit that is dust.
Driver == [seller_amount |-> 140000000, buyer_amount |-> 20000000]
Near   == [Driver EXCEPT !.seller_amount = 140001000]
Far    == [Driver EXCEPT !.seller_amount = 150000000]
Tiny   == [Driver EXCEPT !.buyer_amount = 300]
MCTerms == [Role -> {Driver, Near}] \cup [Role -> {Driver, Far}] \cup { [r \in Role |-> Tiny] }

\* Coins that leave change, too little for change, and nothing at all.  The
\* outpoints and scripts of the two traders alternate in their order.
Order == << <<"Seller", 1>>, <<"Buyer", 1>>, <<"Buyer", 2>>, <<"Seller", 2>>,
            <<"change", "Buyer">>, <<"agg", "q">>, <<"change", "Seller">>, <<"agg", "p">> >>
MCBefore(a, b) ==
    \E i, j \in 1 .. Len(Order) : i < j /\ Order[i] = a /\ Order[j] = b

MCCoins == [r \in Role |-> { <<r, n>> : n \in 1 .. 2 }]
MCValueOf ==
    [c \in MCCoins["Seller"] \cup MCCoins["Buyer"] |->
        CASE c = <<"Seller", 1>> -> 200000000
          [] c = <<"Seller", 2>> -> 140003000
          [] c = <<"Buyer", 1>>  -> 20002240
          [] c = <<"Buyer", 2>>  -> 150000000]
=============================================================================
