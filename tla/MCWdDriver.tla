------------------------------ MODULE MCWdDriver ------------------------------
(* Instances of WdDriver: two runs of the tool at a time.           *)
EXTENDS WdDriver

CONSTANTS p1, p2

\* Both ends of the range the tool accepts, and their neighbours.
RangeEnds == {0, 1, 255, 256}

=============================================================================
