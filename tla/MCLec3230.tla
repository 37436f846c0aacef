------------------------------ MODULE MCLec3230 ------------------------------
(* An instance of Lec3230 for TLC. *)
EXTENDS Lec3230

MCTimes == {{0, 3}}
\* Nothing is as the drivers want it: the watchdog counts, no pin is an
\* output but the button's, no relay is set either way.
MCPowerOn ==
  {[x \in Cells |-> IF x \in {Dir1, Dir2, Dir3} THEN {}
                    ELSE IF x = Dir4 THEN {3} ELSE Bit]}
=============================================================================
