SPECIFICATION Spec
CONSTANTS
  a = a
  b = b
  c = c
  Readers = {a, b}
  Writers = {a, b, c}
  NonBlock = {}
  Async = {c}
  Signalled = {}
  Values = {x}
  Junk = Junk
  BufMax = 3
  Sizes = {3}
  InitSize = 3
  Counts = {2}
  NoProc = NoProc
INVARIANTS
  TypeOK
  LockBalanced
  BufferWhileOpen
  RingOK
  NoLostReader
  StrandedOnlyByOpen
\* Readers sleep for ever when there is no writer, and so may everyone else
\* once an open has stranded a writer.
CHECK_DEADLOCK FALSE
SYMMETRY Interchangeable
