CONSTANTS
  Size = 4
  Files <- MarkedTexts
  Kills = TRUE
  SmbusFaults = TRUE
  BmcDeaf = FALSE
SPECIFICATION FairSpec
INVARIANTS
  TypeOK
  NoCollision
  BusHandedBack
  WriteStored
  ReadsBack
PROPERTIES
  BusReturned
