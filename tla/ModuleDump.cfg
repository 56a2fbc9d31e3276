CONSTANTS
  ScullDevs = {s0, s1}
  PipeDevs = {p0}
  AccessDevs = {single, priv}
  Priv = priv
  Procs = {a, b}
SPECIFICATION Spec
INVARIANTS DumpsSeeDevices
