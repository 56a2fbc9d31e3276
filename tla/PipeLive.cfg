SPECIFICATION FairSpec
CONSTANTS
  a = a
  b = b
  c = c
  Readers = {a}
  Writers = {b}
  NonBlock = {}
  Async = {}
  Signalled = {b}
  Values = {x}
  Junk = Junk
  BufMax = 3
  Sizes = {2, 3}
  InitSize = 3
  Counts = {2}
  NoProc = NoProc
PROPERTIES
  DataWakesReader
  SignalEndsWrite
CHECK_DEADLOCK FALSE
