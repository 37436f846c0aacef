-------------------------------- MODULE MCLcm --------------------------------
(* Instances of Lcm: a display a few characters wide, and two buttons.       *)
EXTENDS Lcm

A == 65
B == 66
TwoKeys == {A, B}

=============================================================================
