\* A running and a killed kernel, both with a session, two connections and
\* a request; liveness, so no symmetry.
CONSTANTS
  Kernel = {k1, k2}
  Killed = {k2}
  Caller = {c1}
  NoKernel = NoKernel
  Port = {}
  NoPort = NoPort
  NChannels = 1
  File = {k1, k2}
  FileOf <- MCFileOf
  Broken = Broken
  Nothing = Nothing
  Conn = {w1, w2}
  NoConn = NoConn
SPECIFICATION FairWarmSpec
INVARIANTS
  ConnTypeOK
  SoleConnectionReachable
  CancelledByOwnDelete
PROPERTY CancelledKernelDies
CHECK_DEADLOCK FALSE
