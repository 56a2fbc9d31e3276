SPECIFICATION FairSpec
CONSTANTS
  a = a
  b = b
  c = c
  d = d
  u = u
  v = v
  t1 = t1
  t2 = t2
  Procs = {a, b, c, d}
  Devices = {"single", "uid", "wuid", "priv"}
  Builds = {TRUE, FALSE}
  Uid <- MCUid
  Euid <- MCEuid
  Root = Root
  Capable = {d}
  Tty <- MCTty
  NoTty = NoTty
  WriteOnly = {b}
  NonBlock = {a}
  Signalled = {c}
  NoProc = NoProc
INVARIANTS
  SingleExclusive
  AvailableExact
  SameUser
  NoLostOpener
  OneDevicePerTty
PROPERTIES
  OpenersWake
  ImplementsRules
