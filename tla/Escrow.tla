------------------------------- MODULE Escrow -------------------------------
(***************************************************************************)
(* What the trade promises on chain, without keys, signatures or rounds.   *)
(* The funds go from the wallets into escrow.  From there they are swapped *)
(* -- the seller takes the buyer's deposit and the buyer the rest, in      *)
(* either order -- or moved to a warning that ages with every block, which *)
(* its other trader may redirect to the DAO after t1 blocks and its own    *)
(* trader claim after t2.  A seller who is ready to swap first releases    *)
(* her key: only then can anything be swapped, and from then on the buyer  *)
(* waits for no block before he empties a warning of his own.              *)
(***************************************************************************)
EXTENDS Naturals

CONSTANTS
    Seller, Buyer,   \* the two traders
    t1, t2,          \* the delays of a redirect and of a claim, in blocks
    None             \* no trader

Trader == {Seller, Buyer}

VARIABLES
    at,         \* where the funds are
    released,   \* the seller has released her key
    by,         \* whose WarningTx it was, if one was posted
    to,         \* the trader who resolved the warning
    age         \* confirmations of the WarningTx, counted up to t2

evars == <<at, released, by, to, age>>

Init == at = "wallets" /\ ~released /\ by = None /\ to = None /\ age = 0

Deposit == at = "wallets" /\ at' = "escrow" /\ UNCHANGED <<released, by, to, age>>

Release == at # "wallets" /\ released' = TRUE /\ UNCHANGED <<at, by, to, age>>

\* The seller takes her side of the trade.
Swap ==
    /\ released
    /\ \/ at = "escrow" /\ at' = "swapped"
       \/ at = "taken"  /\ at' = "exchanged"
    /\ UNCHANGED <<released, by, to, age>>

\* The buyer takes his side of the trade.
Take ==
    /\ released
    /\ \/ at = "escrow"  /\ at' = "taken"
       \/ at = "swapped" /\ at' = "exchanged"
    /\ UNCHANGED <<released, by, to, age>>

Warn(r) ==
    at = "escrow" /\ at' = "warned" /\ by' = r /\ UNCHANGED <<released, to, age>>

Redirect(r) ==
    /\ at = "warned" /\ r # by /\ age >= t1
    /\ at' = "redirected" /\ to' = r /\ UNCHANGED <<released, by, age>>

Claim(r) ==
    /\ at = "warned" /\ r = by /\ age >= t2
    /\ at' = "claimed" /\ to' = r /\ UNCHANGED <<released, by, age>>

\* The buyer empties his own warning.
Empty ==
    /\ at = "warned" /\ by = Buyer /\ released
    /\ at' = "emptied" /\ to' = Buyer /\ UNCHANGED <<released, by, age>>

Block == by # None /\ age < t2 /\ age' = age + 1 /\ UNCHANGED <<at, released, by, to>>

Next ==
    \/ Deposit \/ Release \/ Swap \/ Take \/ Empty \/ Block
    \/ \E r \in Trader : Warn(r) \/ Redirect(r) \/ Claim(r)

Spec == Init /\ [][Next]_evars
=============================================================================
