\* The limit of the code.
CONSTANT ErrorLimit = 10
SPECIFICATION FairSpec
INVARIANTS
  TypeOK
  TtyOpenWhileUsed
PROPERTIES
  RunningShellKeptAlive
  DeadClientNoticed
  SessionEnds
CHECK_DEADLOCK FALSE
