-------------------------------- MODULE Bytes --------------------------------
(* A byte as the set of its bits that are 1. *)
EXTENDS Integers

Bit == 0 .. 7
Byte == SUBSET Bit
=============================================================================
