CONSTANTS
  Width = 4
  Keys <- TwoKeys
  Noise = 0
  Fifo = 1
  Kills = TRUE
  StackKeys = FALSE
SPECIFICATION Spec
INVARIANTS
  LinesAsPrinted
