SPECIFICATION CpSpec
CONSTANTS
  Requests <- MCRequests
  AtBoot <- MCAtBoot
  MaxFailures = 1
INVARIANTS CpTypeOK PortAsAsked OthersKept
