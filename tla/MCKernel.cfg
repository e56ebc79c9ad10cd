\* Two session requests racing for one port fewer than two kernels of two
\* channels need, and a request that interrupts or kills one of them, with
\* kernel crashes, launcher failures and server stops.
CONSTANTS
  Kernel = {k1, k2}
  Caller = {c1}
  NoKernel = NoKernel
  Port = {p1, p2, p3}
  NoPort = NoPort
  NChannels = 2
  File = {k1, k2}
  FileOf <- MCFileOf
  Broken = Broken
  Nothing = Nothing
SYMMETRY Symmetry
SPECIFICATION Spec
INVARIANTS
  TypeOK
  PortsDisjoint
  
  CleanupReachesAll
  DroppedKernelsAreDead
  KilledMeansDead
PROPERTY ImplementsRegistry
CHECK_DEADLOCK FALSE
