------------------------------- MODULE Linear11 -------------------------------
(***************************************************************************)
(* The LINEAR11 numbers of PMBus, as pms decodes them (lin5_11ToFloat1)    *)
(* and as they are defined: an exponent of 5 and a mantissa of 11 bits,    *)
(* both in two's complement.  A number is a fraction <<numerator,          *)
(* denominator>> with a positive denominator.                              *)
(***************************************************************************)
EXTENDS Integers

Word == {n \in Nat : n < 65536}

\* Mutant: the upper half of the table goes up instead of down.
exponent_up(k) == 2 ^ (k % 16)

\* The table exponent[32], which holds 2^16 .. 2^1 in its upper half.
exponent(k) == IF k < 16 THEN 2 ^ k ELSE 2 ^ (32 - k)

Field(w) == w \div 2048

\* The code takes the mantissa for sign and magnitude.
lin5_11ToFloat1(w) ==
  LET magnitude == w % 1024
      d == IF (w \div 1024) % 2 = 1 THEN -magnitude ELSE magnitude
  IN IF w >= 32768 THEN <<d, exponent(Field(w))>> ELSE <<d * exponent(Field(w)), 1>>

\* The definition.
Signed(n, half) == IF n < half THEN n ELSE n - 2 * half
Meaning(w) ==
  LET mantissa == Signed(w % 2048, 1024)
      power == Signed(Field(w), 16)
  IN IF power < 0 THEN <<mantissa, 2 ^ (-power)>> ELSE <<mantissa * 2 ^ power, 1>>

AtMost(x, b) == x[1] <= b * x[2]
AtLeast(x, b) == x[1] >= b * x[2]

\* A conversion to int cuts off the fraction.
ToInt(x) == IF x[1] < 0 THEN -((-x[1]) \div x[2]) ELSE x[1] \div x[2]

=============================================================================
