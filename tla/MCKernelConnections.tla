------------------------ MODULE MCKernelConnections ------------------------
(* Model-checking instances of KernelConnections. *)
EXTENDS KernelConnections

CONSTANT Killed     \* kernels that were killed before the run begins

MCFileOf == [k \in Kernel |-> k]

\* Every kernel was started by a session request that got no port, the
\* requests running one after the other, and those in Killed were killed by
\* POST stop, which leaves their sessions: a state the service reaches.
WarmPorts == [k \in Kernel |-> [i \in 1..NChannels |-> NoPort]]

WarmInit ==
  /\ server = "up"
  /\ pc = [k \in Kernel |-> "done"]
  /\ ports = WarmPorts
  /\ tracked = {}
  /\ connFile = WarmPorts
  /\ proc = [k \in Kernel |-> IF k \in Killed THEN "exited" ELSE "running"]
  /\ bound = WarmPorts
  /\ stdin = {}
  /\ active = Kernel \ Killed
  /\ sessions = Kernel
  /\ call = [c \in Caller |-> IdleCall]
  /\ atSignal = {}
  /\ swept = {}
  /\ ws = [w \in Conn |-> [pc |-> "idle", id |-> NoKernel, sess |-> NoKernel]]
  /\ cancelled = {}
  /\ registry = [k \in Kernel |-> NoConn]

WarmSpec == WarmInit /\ [][ConnNext]_allVars

FairWarmSpec == WarmSpec /\ ConnFairness
=============================================================================
