--------------------------- MODULE RedirectAmounts ---------------------------
(***************************************************************************)
(* RedirectTx::build's split of a warning's funds among the DAO addresses, *)
(* in f32 arithmetic, against the exact split.  The state is the amount    *)
(* being split; it walks through windows of consecutive amounts.           *)
(***************************************************************************)
EXTENDS F32

CONSTANTS
    Windows,    \* the first amounts of the windows
    Width,      \* bound: the amounts looked at in each window
    Unit        \* satoshi per unit of an amount

\* The amounts stay below 2^31, the range of F32, which is also that of TLC's
\* integers: 21.47 BTC in satoshi, and as much as one likes in larger units.
\* An amount is counted in units of a power of two: scaling by one is exact in
\* f32, so for amounts of 2^27 units or more, whose shares are whole numbers of
\* units, nothing is lost, and amounts beyond TLC's integers can be reached.
ASSUME WindowAssumption ==
    /\ Windows \subseteq Nat \ {0} /\ Width \in Nat
    /\ \A w \in Windows : w + Width <= 2147483647
    /\ \E k \in 0 .. 10 : Unit = 2^k
    /\ Unit > 1 => \A w \in Windows : w >= 2^27

VARIABLES base, amount
avars == <<base, amount>>

SplitInit == base \in Windows /\ amount = base
SplitNext == amount < base + Width /\ amount' = amount + 1 /\ UNCHANGED base
SplitSpec == SplitInit /\ [][SplitNext]_avars

\* The exact shares of 60 and 40 percent, rounded down, without overflow.
ExactShare(n, i) ==
    LET tenths == IF i = 1 THEN 6 ELSE 4
    IN  (n \div 10) * tenths + (((n % 10) * tenths) \div 10)

\* What f32 can lose: its 24 bits resolve an amount n to n / 2^23.
Resolution(n) == (n \div 2^23) + 1

\* Each share is the exact one up to the resolution of f32.
SharesAccurate ==
    \A i \in 1 .. 2 :
        LET d == DaoShare(amount, i) - ExactShare(amount, i)
        IN  d <= Resolution(amount) /\ -d <= Resolution(amount)

\* By how much the shares exceed the amount they divide, in satoshi.
Excess == (DaoShare(amount, 1) - amount + DaoShare(amount, 2)) * Unit

\* The fee set aside for the redirect (1000) covers the anchor (330), which the
\* code does not subtract, and the rounding of the shares, and at least 450
\* satoshi are left for the miner, for every amount below 2^31 satoshi.
RedirectPaysFee == Excess + 330 <= 550

\* The percentages add up to 100%: the outputs never exceed the input.
RedirectAffordable == Excess + 330 <= 1000
=============================================================================
