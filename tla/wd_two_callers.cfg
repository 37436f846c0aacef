\* The same, asked for what the comment of wd_open says.
CONSTANTS
  p1 = p1
  p2 = p2
  Processes = {p1, p2}
  Values <- RangeEnds
SPECIFICATION FairSpec
INVARIANTS
  OneFile
