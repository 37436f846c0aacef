SPECIFICATION Spec
CONSTANTS
  Times <- MCTimes
  PowerOn <- MCPowerOn
INVARIANT BypassAsCommanded
