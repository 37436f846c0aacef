SPECIFICATION Spec
CONSTANTS
  dio1 = dio1
  dio2 = dio2
  cp1 = cp1
  cp2 = cp2
  btn1 = btn1
  Procs = {dio1, dio2, cp1, btn1}
  ToolOf <- MCToolOf
  Leftovers = {"y", "other"}
INVARIANTS TypeOK ReadsBack
PROPERTY LowLevelSeen
