------------------------------ MODULE MCComPort ------------------------------
(* An instance of ComPort for TLC. *)
EXTENDS ComPort

Ask(type, port, mode, termination) ==
  [Type |-> type, port |-> port, mode |-> mode, termination |-> termination]

\* Ports 0 and 5 have their mode pins in two registers, port 1 shares one
\* register with port 0.
MCRequests ==
  {Ask(1, 0, 1, 1), Ask(1, 0, 0, 0), Ask(1, 1, 2, 0),
   Ask(2, 5, 2, 1), Ask(2, 5, 3, 0), Ask(2, 0, 2, 1), Ask(0, 1, 2, 1), Ask(0, 0, 3, 0)}
MCAtBoot == {{}, Bit}
=============================================================================
