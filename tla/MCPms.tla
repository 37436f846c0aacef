-------------------------------- MODULE MCPms --------------------------------
(* An instance of Pms for TLC. *)
EXTENDS Pms

\* LINEAR11 words: mantissa and exponent, both in two's complement.
Lin(mantissa, power) == (power % 32) * 2048 + (mantissa % 2048)

\* Supplies in order but for one reading out of range or at the edge of it,
\* with positive and negative exponents.
Sound(label) ==
  CASE label = "12V" -> Lin(768, -6) [] label = "5Vsb" -> Lin(320, -6)
    [] label = "Fan_Speed" -> Lin(500, 4) [] OTHER -> Lin(120, -2)
Odd(label) ==
  CASE label = "12V" -> {Lin(640, -6), Lin(641, -6), Lin(895, -6), Lin(7, 1), Lin(-1, 0)}
    [] label = "5Vsb" -> {Lin(1, -16), Lin(7, 15)}
    [] label = "Fan_Speed" -> {Lin(0, 0), Lin(1, -1)}
    [] OTHER -> {Lin(3, -2)}

LabelOf(src) == CHOOSE l \in Readings : \E m \in Supply : Right(l, m) = src
AllSound == [src \in Measured |-> Sound(LabelOf(src))]
MCSenses ==
  {AllSound} \cup
  {[AllSound EXCEPT ![Right(l, 2)] = w] : l \in {"12V"}, w \in Odd("12V")} \cup
  UNION {{[AllSound EXCEPT ![Right(l, 1)] = w] : w \in Odd(l)} : l \in Readings \ {"12V"}}
MCFlagSets == {{"STATUS_FANS_1_2", "STATUS_IOUT"}, Details}
=============================================================================
