SPECIFICATION Spec
CONSTANTS
  a = a
  b = b
  Procs = {a, b}
  WriteOnly = {b}
  Values = {x}
  Junk = Junk
  Hole = Hole
  Quanta = {0, 2}
  Qsets = {1, 2}
  InitQuantum = 2
  InitQset = 1
  Counts = {1}
  MaxPos = 3
  Seeks = {0, 1, 2, 3}
  NoProc = NoProc
INVARIANTS
  LockBalanced
PROPERTIES
  OnlyStaleWritesMix
  OopsExplained
\* A process that an oops has ended keeps the mutex.
CHECK_DEADLOCK FALSE
