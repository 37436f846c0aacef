SPECIFICATION Spec
CONSTANTS
  Senses <- MCSenses
  FlagSets <- MCFlagSets
  Faults = TRUE
INVARIANTS TypeOK LabelsRight WarnedRight
