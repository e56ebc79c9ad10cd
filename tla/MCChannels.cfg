\* Two sockets with two messages and one.
CONSTANTS
  iopub = iopub
  shell = shell
  Channel = {iopub, shell}
  MaxMsg <- MCMaxMsg
SPECIFICATION FairSpec
INVARIANTS
  TypeOK
  StreamIntact
  MutexOnlyAroundWrites
PROPERTIES
  EventuallyDelivered
  PollersEndOrStick
  NudgerEnds
CHECK_DEADLOCK FALSE
