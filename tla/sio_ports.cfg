CONSTANTS
  wd = wd
  sled = sled
  eep = eep
  tool = tool
  Tasks = {wd, sled, eep, tool}
  UserTasks = {tool}
  OpsOf <- Ops
  Preemptive = FALSE
  PowerOn <- AllLowOrHigh
SPECIFICATION Spec
INVARIANTS
  TypeOK
  OperationInEffect
  BmcFlagSound
PROPERTIES
  ConfigModeLeft
  WriteHitsTarget
  ImplementsRegisterFile
