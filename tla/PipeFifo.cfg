SPECIFICATION Spec
CONSTANTS
  a = a
  b = b
  c = c
  Readers = {a, b}
  Writers = {a, b}
  NonBlock = {b}
  Async = {}
  Signalled = {a}
  Values = {x, y}
  Junk = Junk
  BufMax = 3
  Sizes = {3}
  InitSize = 3
  Counts = {1, 2}
  NoProc = NoProc
PROPERTIES
  ImplementsFifo
CHECK_DEADLOCK FALSE
