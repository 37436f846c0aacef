SPECIFICATION Spec
CONSTANTS
  Times <- MCTimes
  PowerOn <- MCPowerOn
INVARIANTS TypeOK OutputsAsAsked
PROPERTY OffBypassFirst
