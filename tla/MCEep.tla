-------------------------------- MODULE MCEep --------------------------------
(* Instances of Eep: an EEPROM of a few bytes, and the texts that tell the   *)
(* cases apart.  A text that ends without its mark goes on with EOF.          *)
EXTENDS Eep, Sequences

Padded(text) == [n \in Index |-> IF n < Len(text) THEN text[n + 1] ELSE EOF]

A == 65
B == 66

\* An empty text, texts of every length, and one that fills the EEPROM.
MarkedTexts ==
  {Padded(t) : t \in {<<END>>, <<A, END>>, <<B, A, END>>, <<A, B, A, END>>, <<B, B, A, A>>}}

=============================================================================
