\* Two runs of the tool in the kernel at once, and rmmod at any time.
CONSTANTS
  p1 = p1
  p2 = p2
  Processes = {p1, p2}
  Values <- RangeEnds
SPECIFICATION FairSpec
INVARIANTS
  TypeOK
  OneFileUnlessRaced
  ReadyForNextCaller
  TimerAsAsked
PROPERTIES
  DeviceFreed
