SPECIFICATION Spec
CONSTANTS
  a = a
  b = b
  Procs = {a, b}
  WriteOnly = {b}
  Values = {x}
  Junk = Junk
  Hole = Hole
  Quanta = {1, 2}
  Qsets = {1, 2}
  InitQuantum = 2
  InitQset = 1
  Counts = {2}
  MaxPos = 4
  Seeks = {0, 2}
  NoProc = NoProc
INVARIANTS
  CurrentSizes
CHECK_DEADLOCK FALSE
