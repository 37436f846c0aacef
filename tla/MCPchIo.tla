------------------------------- MODULE MCPchIo -------------------------------
(* An instance of PchIo for TLC: which tool each process runs. *)
EXTENDS PchIo
CONSTANTS dio1, dio2, cp1, cp2, btn1

MCToolOf == [p \in Procs |->
  CASE p \in {dio1, dio2} -> "dio" [] p \in {cp1, cp2} -> "cp" [] p = btn1 -> "btn"]
=============================================================================
