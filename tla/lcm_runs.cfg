CONSTANTS
  Width = 4
  Keys <- TwoKeys
  Noise = 0
  Fifo = 2
  Kills = TRUE
  StackKeys = TRUE
SPECIFICATION FairSpec
INVARIANTS
  TypeOK
  LinesShown
  ShownAtLineStart
  ShiftStays
PROPERTIES
  BtnAnswers
