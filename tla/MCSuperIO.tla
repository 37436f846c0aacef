------------------------------ MODULE MCSuperIO ------------------------------
(* An instance of SuperIO: three drivers, and a tool beside them.           *)
EXTENDS SuperIO

CONSTANTS wd, sled, eep, tool

Named(names) == {[name |-> n, time |-> {}] : n \in names}

\* 289 seconds, of which the 8-bit register holds 33.
Timer == [name |-> "start", time |-> {0, 5, 8}]

\* Each driver's operations are ioctls and its module init.  The tool is a
\* program with direct port access: the hardware monitor, or the LED utility
\* built with DIRECT_IO_ACCESS.
Ops == [t \in {wd, sled, eep, tool} |->
  CASE t = wd   -> {Timer} \cup Named({"stop", "wd_init"})
    [] t = sled -> Named({"red", "green", "dark", "sled_init"})
    [] t = eep  -> Named({"detect"})
    [] t = tool -> Named({"hwm_init", "green"})]

\* Every bit low, or every bit high (the BMC strap among them).
AllLowOrHigh == {[c \in Cells |-> {}], [c \in Cells |-> Bit]}

=============================================================================
