SPECIFICATION DriverSpec
CONSTANTS
  a = a
  b = b
  x = x
  Procs = {a, b}
  WriteOnly = {b}
  Values = {x}
  Junk = Junk
  Hole = Hole
  Quanta = {0, 1, 2}
  Qsets = {0, 1, 2}
  InitQuantum = 2
  InitQset = 2
  DefaultQuantum = 2
  DefaultQset = 2
  Counts = {2}
  MaxPos = 5
  Seeks = {1, 4}
  NoProc = NoProc
  Capable = {}
  Passed = {1}
INVARIANTS
  UnprivilegedHarmless
PROPERTIES
  ImplementsFile
