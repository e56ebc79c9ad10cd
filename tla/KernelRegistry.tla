--------------------------- MODULE KernelRegistry ---------------------------
(***************************************************************************)
(* What the kernel service promises, without ports, files, handlers and    *)
(* maps: a kernel is started once, published once and only after it was    *)
(* started, opened as a session only after it was published, and withdrawn *)
(* only when its process is gone.  Nothing is undone: a dead process does  *)
(* not come back and a withdrawn kernel is not published again.            *)
(***************************************************************************)
CONSTANT Kernel

VARIABLES
  process,   \* "none", "running", "exited"
  registry,  \* "never", "listed", "withdrawn"
  opened     \* kernels with a session

Start(k) ==
  /\ process[k] = "none"
  /\ process' = [process EXCEPT ![k] = "running"]
  /\ UNCHANGED <<registry, opened>>

Exit(k) ==
  /\ process[k] = "running"
  /\ process' = [process EXCEPT ![k] = "exited"]
  /\ UNCHANGED <<registry, opened>>

Publish(k) ==
  /\ process[k] # "none"
  /\ registry[k] = "never"
  /\ registry' = [registry EXCEPT ![k] = "listed"]
  /\ UNCHANGED <<process, opened>>

Open(k) ==
  /\ registry[k] # "never"
  /\ k \notin opened
  /\ opened' = opened \cup {k}
  /\ UNCHANGED <<process, registry>>

Withdraw(k) ==
  /\ process[k] = "exited"
  /\ registry[k] = "listed"
  /\ registry' = [registry EXCEPT ![k] = "withdrawn"]
  /\ UNCHANGED <<process, opened>>

Init ==
  /\ process = [k \in Kernel |-> "none"]
  /\ registry = [k \in Kernel |-> "never"]
  /\ opened = {}

Next == \E k \in Kernel :
  Start(k) \/ Exit(k) \/ Publish(k) \/ Open(k) \/ Withdraw(k)

Spec == Init /\ [][Next]_<<process, registry, opened>>
=============================================================================
