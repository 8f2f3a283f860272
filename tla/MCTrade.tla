------------------------------ MODULE MCTrade ------------------------------
(***************************************************************************)
(* Instances of BMPProtocol and EscrowRefinement for TLC.                  *)
(***************************************************************************)
EXTENDS EscrowRefinement, TLC

\* The points in ascending order.  In session 0 the seller's share comes first
\* in P' and the buyer's in Q', in session 1 the other way round; the deposit
\* lists P' first in session 0 and Q' first in session 1.
MCOrder == << NewPoint("p", "Seller", 0), NewPoint("q", "Buyer", 0),
              NewPoint("q", "Seller", 0), NewPoint("p", "Buyer", 0),
              NewPoint("q", "Seller", 1), NewPoint("p", "Buyer", 1),
              NewPoint("q", "Buyer", 1),  NewPoint("p", "Seller", 1) >>
MCLess(a, b) ==
    \E i, j \in 1 .. Len(MCOrder) : i < j /\ MCOrder[i] = a /\ MCOrder[j] = b

\* One coin per wallet: every deposit of a trader competes for it.
OneCoin       == [r \in Role |-> 1]
SelectOneCoin == [r \in Role |-> [s \in Session |-> {1}]]

\* Two coins per wallet.  They differ in nothing but their outpoint, so the
\* first session may be taken to select coin 1 without loss of generality.
TwoCoins       == [r \in Role |-> 2]
SelectTwoCoins == [r \in Role |-> [s \in Session |-> IF s = 0 THEN {1} ELSE {1, 2}]]

\* The amounts of the driver in protocol/src/lib.rs, two other prices, one so
\* near that the fees of the halves cover the difference, and a buyer deposit
\* that does not cover the fee of the SwapTx.
Driver == [seller_amount |-> 140000000, buyer_amount |-> 20000000]
Repriced == [seller_amount |-> 150000000, buyer_amount |-> 20000000]
Near     == [seller_amount |-> 140001000, buyer_amount |-> 20000000]
Tiny     == [seller_amount |-> 140000000, buyer_amount |-> 900]

SameTerms == { [r \in Role |-> Driver] }
Told(seller, buyer) == [r \in Role |-> IF r = "Seller" THEN seller ELSE buyer]
AnyTerms  == { Told(Driver, Driver), Told(Tiny, Tiny), Told(Driver, Repriced),
               Told(Driver, Near) }
=============================================================================
