SPECIFICATION Spec
CONSTANTS
  a = a
  b = b
  c = c
  Readers = {a, b}
  Writers = {b, c}
  NonBlock = {}
  Async = {}
  Signalled = {}
  Values = {x}
  Junk = Junk
  BufMax = 3
  Sizes = {2, 3}
  InitSize = 2
  Counts = {2}
  NoProc = NoProc
INVARIANTS
  InsideAllocation
CHECK_DEADLOCK FALSE
