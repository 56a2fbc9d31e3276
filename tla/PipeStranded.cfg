SPECIFICATION Spec
CONSTANTS
  a = a
  b = b
  c = c
  Readers = {a, b}
  Writers = {b, c}
  NonBlock = {}
  Async = {}
  Signalled = {}
  Values = {x}
  Junk = Junk
  BufMax = 3
  Sizes = {3}
  InitSize = 3
  Counts = {2}
  NoProc = NoProc
INVARIANTS
  NoStrandedWriter
CHECK_DEADLOCK FALSE
