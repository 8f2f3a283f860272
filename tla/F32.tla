-------------------------------- MODULE F32 --------------------------------
(***************************************************************************)
(* Single-precision arithmetic as RedirectTx::build uses it: a u64 amount  *)
(* is converted to f32, multiplied by an f32 ratio and truncated to u64.   *)
(* A float is a pair [m, e] standing for m * 2^e with a mantissa m of 24   *)
(* bits; every operation rounds to nearest, ties to even (IEEE 754).  The  *)
(* product of two mantissas has 48 bits, so it is computed in two halves   *)
(* of 24 bits each, which keeps every intermediate below 2^31.             *)
(***************************************************************************)
EXTENDS Integers

Mantissa == 2^24

\* Mutant: every inexact result is rounded up.
RoundUp(q, rem, unit) == IF rem > 0 THEN q + 1 ELSE q

\* q units and a remainder of rem / unit of a unit, rounded half to even.
RoundEven(q, rem, unit) ==
    IF 2 * rem > unit \/ (2 * rem = unit /\ q % 2 = 1) THEN q + 1 ELSE q

\* The binary exponent that gives a positive n < 2^31 a mantissa of 24 bits.
Exponent(n) ==
    CHOOSE e \in -23..7 : n >= 2^(23 + e) /\ n \div 2 < 2^(23 + e)

\* `n as f32` for an integer 0 < n < 2^31.
ToF32(n) ==
    LET e == Exponent(n)
    IN  [m |-> IF e < 0 THEN n * 2^(-e)
                        ELSE RoundEven(n \div 2^e, n % 2^e, 2^e),
         e |-> e]

\* The f32 product a * b, from the 12-bit halves of the mantissas.
MulF32(a, b) ==
    LET k    == 2^12
        mid  == (a.m \div k) * (b.m % k) + (a.m % k) * (b.m \div k)
                  + (((a.m % k) * (b.m % k)) \div k)
        high == (a.m \div k) * (b.m \div k) + (mid \div k)
        low  == ((mid % k) * k) + (((a.m % k) * (b.m % k)) % k)
    IN  IF high >= 2^23
        THEN [m |-> RoundEven(high, low, Mantissa), e |-> a.e + b.e + 24]
        ELSE [m |-> RoundEven(2 * high + (low \div 2^23), low % 2^23, 2^23),
              e |-> a.e + b.e + 23]

\* `x as u64`: truncation towards zero.
ToInt(x) == IF x.e >= 0 THEN x.m * 2^x.e ELSE x.m \div 2^(-x.e)

\* Mutant: the second contributor's ratio is 0.5, and the sum is not 1.
RatioUnbalanced == << [m |-> 10066330, e |-> -24], [m |-> 8388608, e |-> -24] >>

\* The literals 0.6f32 and 0.4f32 of get_dao_bm.
Ratio == << [m |-> 10066330, e |-> -24], [m |-> 13421773, e |-> -25] >>

\* (amount.to_sat() as f32 * *ratio) as u64
DaoShare(amount, i) ==
    IF amount = 0 THEN 0 ELSE ToInt(MulF32(ToF32(amount), Ratio[i]))
=============================================================================
