---------------------------- MODULE KernelProofs ----------------------------
(***************************************************************************)
(* Theorems about KernelService, for every number of kernels, requests and *)
(* ports, and for every way kernel ids may share connection files; and on  *)
(* top of them about KernelConnections, for every number of websockets.    *)
(***************************************************************************)
EXTENDS KernelConnections, TLAPS

-----------------------------------------------------------------------------
(* KernelService: the inductive invariant, in parts *)

\* Where a session handler is tells whether its kernel has a process, and
\* the two maps hold only kernels whose handler has got that far.
LaunchInv ==
  \A k \in Kernel :
    /\ pc[k] \notin {"register", "store", "done"} => proc[k] = "none"
    /\ pc[k] \in {"register", "store", "done"} => proc[k] # "none"
    /\ k \in active => EverRegistered(k)
    /\ k \in sessions => pc[k] = "done"

\* What a kill request has read and done so far is still true of the
\* process when it takes its next step.
CallInv ==
  \A c \in Caller :
    /\ call[c].id # NoKernel => EverRegistered(call[c].id)
    /\ call[c].pc = "idle" => ~call[c].found
    /\ call[c].pc # "done" => call[c].reply = "none"
    /\ call[c].found => call[c].id # NoKernel
    /\ call[c].pc = "signal" /\ ~call[c].found /\ call[c].id # NoKernel
         => proc[call[c].id] = "exited"
    /\ call[c].pc = "delete" /\ call[c].id # NoKernel
         => proc[call[c].id] = "exited"

\* What Cleanup has killed stays dead, and it started from the registry.
StopInv ==
  /\ \A k \in swept : proc[k] = "exited"
  /\ \A k \in atSignal : EverRegistered(k)
  /\ server = "stopped" => \A k \in atSignal : proc[k] = "exited"

\* Every port a manager holds is tracked.
PortInv ==
  \A k \in Kernel : \A i \in DOMAIN ports[k] :
    ports[k][i] # NoPort => ports[k][i] \in tracked

\* No other kernel id shares k's connection file.
Alone(k) == \A m \in Kernel \ {k} : FileOf[m] # FileOf[k]

\* How many ports a handler has found, what is in the file it wrote, and what
\* its process has read from there.
FileInv ==
  \A k \in Kernel :
    /\ pc[k] \in {"idle", "lookup"} => Len(ports[k]) = 0
    /\ pc[k] = "ports" => Len(ports[k]) < NChannels
    /\ pc[k] \in {"write", "format", "launch", "register", "store", "done"} =>
         Len(ports[k]) = NChannels
    /\ Alone(k) /\ pc[k] \in {"format", "launch", "register", "store", "done"} =>
         connFile[FileOf[k]] \in {ports[k], Broken}
    /\ bound[k] # Nothing => pc[k] \in {"register", "store", "done"}
    /\ Alone(k) /\ bound[k] # Nothing => bound[k] = ports[k]

KillInv == LaunchInv /\ DroppedKernelsAreDead /\ CallInv /\ KilledMeansDead
             /\ StopInv

-----------------------------------------------------------------------------
(* Type correctness *)

\* The updates the handlers make to a request's record keep its type.
LEMMA CallUpdate ==
  ASSUME NEW r \in Call, NEW p \in CallPC, NEW o \in Op,
         NEW i \in Kernel \cup {NoKernel}, NEW f \in BOOLEAN, NEW y \in Reply
  PROVE  /\ [r EXCEPT !.pc = p, !.op = o, !.id = i] \in Call
         /\ [r EXCEPT !.pc = p, !.found = f] \in Call
         /\ [r EXCEPT !.pc = p, !.reply = y] \in Call
         /\ [r EXCEPT !.pc = p] \in Call
BY DEF Call

\* Every action of the service keeps the variables within their types.
LEMMA TypeStep ==
  ASSUME TypeOK, [Next]_vars
  PROVE  TypeOK'
<1>0. \A c \in Caller : call[c] \in Call
  BY DEF TypeOK
<1>a. /\ {"lookup", "signal", "delete", "done"} \subseteq CallPC
      /\ {"interrupt", "kill"} \subseteq Op
      /\ {"ok", "error"} \subseteq Reply
  BY DEF CallPC, Op, Reply
<1> USE ConstantAssumption DEF TypeOK, PortList, launchVars, procVars, stopVars
<1>1. ASSUME NEW k \in Kernel, CreateArrives(k) PROVE TypeOK'
  BY <1>1 DEF CreateArrives, Goto, CreatorPC
<1>2. ASSUME NEW k \in Kernel, LookupSession(k) PROVE TypeOK'
  BY <1>2 DEF LookupSession, Goto, CreatorPC
<1>3. ASSUME NEW k \in Kernel, FindAvailablePort(k) PROVE TypeOK'
  <2>1. ASSUME NEW p \in Port \cup {NoPort}, GotPort(k, p)
        PROVE ports' \in [Kernel -> PortList] /\ pc' \in [Kernel -> CreatorPC]
    BY <2>1 DEF GotPort, Goto, CreatorPC
  <2>2. ASSUME NEW p \in Port, tracked' = tracked \cup {p}, GotPort(k, p)
        PROVE TypeOK'
    BY <1>3, <2>1, <2>2 DEF FindAvailablePort
  <2>3. ASSUME UNCHANGED tracked, GotPort(k, NoPort)
        PROVE TypeOK'
    BY <1>3, <2>1, <2>3 DEF FindAvailablePort
  <2> QED
    BY <1>3, <2>2, <2>3 DEF FindAvailablePort
<1>4. ASSUME NEW k \in Kernel, WriteConnectionFile(k) PROVE TypeOK'
  <2>1. ASSUME NEW v \in PortList \cup {Broken},
               connFile' = [connFile EXCEPT ![FileOf[k]] = v]
        PROVE connFile' \in [File -> PortList \cup {Broken, Nothing}]
    BY <2>1
  <2>2. connFile' \in [File -> PortList \cup {Broken, Nothing}]
    BY <1>4, <2>1 DEF WriteConnectionFile
  <2> QED
    BY <1>4, <2>2 DEF WriteConnectionFile, Goto, CreatorPC
<1>5. ASSUME NEW k \in Kernel, FormatKernelCmd(k) PROVE TypeOK'
  BY <1>5 DEF FormatKernelCmd, Goto, CreatorPC
<1>6. ASSUME NEW k \in Kernel, LaunchKernel(k) PROVE TypeOK'
  BY <1>6 DEF LaunchKernel, Goto, CreatorPC
<1>7. ASSUME NEW k \in Kernel, RegisterKernel(k) PROVE TypeOK'
  BY <1>7 DEF RegisterKernel, Goto, CreatorPC
<1>8. ASSUME NEW k \in Kernel, StoreSession(k) PROVE TypeOK'
  BY <1>8 DEF StoreSession, Goto, CreatorPC
<1>9. ASSUME NEW k \in Kernel, ReadConnectionFile(k) PROVE TypeOK'
  <2>1. /\ proc' \in [Kernel -> {"none", "running", "exited"}]
        /\ bound' \in [Kernel -> PortList \cup {Nothing}]
    <3>1. CASE connFile[FileOf[k]] \in {Broken, Nothing}
      BY <1>9, <3>1 DEF ReadConnectionFile, Kill
    <3>2. CASE connFile[FileOf[k]] \notin {Broken, Nothing}
      BY <1>9, <3>2 DEF ReadConnectionFile
    <3> QED
      BY <3>1, <3>2
  <2> QED
    BY <1>9, <2>1 DEF ReadConnectionFile
<1>10. ASSUME NEW k \in Kernel, ProcessExit(k) PROVE TypeOK'
  BY <1>10 DEF ProcessExit, Kill
<1>11. ASSUME NEW k \in Kernel, StdinWrite(k) PROVE TypeOK'
  BY <1>11 DEF StdinWrite
<1>12. ASSUME NEW k \in Kernel, CopyOutputFails(k) PROVE TypeOK'
  BY <1>12 DEF CopyOutputFails
<1>13. ASSUME NEW c \in Caller, CallArrives(c) PROVE TypeOK'
  <2>1. PICK op \in {"interrupt", "kill"}, k \in Kernel \cup {NoKernel} :
          call' = [call EXCEPT ![c] =
                    [@ EXCEPT !.pc = "lookup", !.op = op, !.id = k]]
    BY <1>13 DEF CallArrives
  <2>2. [call[c] EXCEPT !.pc = "lookup", !.op = op, !.id = k] \in Call
    BY <1>0, <1>a, CallUpdate, Zenon
  <2> QED
    BY <1>13, <2>1, <2>2 DEF CallArrives
<1>14. ASSUME NEW c \in Caller, LookupKernel(c) PROVE TypeOK'
  <2> DEFINE f == call[c].id \in active
  <2>0. f \in BOOLEAN
    OBVIOUS
  <2>1. [call[c] EXCEPT !.pc = "signal", !.found = f] \in Call
    <3> HIDE DEF f
    <3> QED BY <1>0, <1>a, <2>0, CallUpdate, Zenon
  <2> QED
    BY <1>14, <2>1 DEF LookupKernel
<1>15. ASSUME NEW c \in Caller, SignalProcess(c) PROVE TypeOK'
  <2>1. call' \in [Caller -> Call]
    <3>1. /\ [call[c] EXCEPT !.pc = "done",
                !.reply = IF call[c].found THEN "ok" ELSE "error"] \in Call
          /\ [call[c] EXCEPT !.pc = "delete"] \in Call
      BY <1>0, <1>a, CallUpdate, Zenon
    <3> QED
      BY <1>15, <3>1 DEF SignalProcess
  <2>2. proc' \in [Kernel -> {"none", "running", "exited"}]
    BY <1>15 DEF SignalProcess, Kill
  <2> QED
    BY <1>15, <2>1, <2>2 DEF SignalProcess
<1>16. ASSUME NEW c \in Caller, DeleteKernel(c) PROVE TypeOK'
  <2>1. [call[c] EXCEPT !.pc = "done", !.reply = "ok"] \in Call
    BY <1>0, <1>a, CallUpdate, Zenon
  <2> QED
    BY <1>16, <2>1 DEF DeleteKernel
<1>17. ASSUME StopSignal PROVE TypeOK'
  BY <1>17 DEF StopSignal
<1>18. ASSUME CleanupKill PROVE TypeOK'
  BY <1>18 DEF CleanupKill, Kill
<1>19. ASSUME ServerExit PROVE TypeOK'
  BY <1>19 DEF ServerExit
<1>20. ASSUME MapFault PROVE TypeOK'
  BY <1>20 DEF MapFault
<1>21. CASE UNCHANGED vars
  BY <1>21 DEF vars
<1> QED
  BY <1>1, <1>2, <1>3, <1>4, <1>5, <1>6, <1>7, <1>8, <1>9, <1>10, <1>11,
     <1>12, <1>13, <1>14, <1>15, <1>16, <1>17, <1>18, <1>19, <1>20,
     <1>21 DEF Next, CreateStep, ProcessStep, CallStep, ServerStep

\* The variables of the kernel service have their types in every state.
THEOREM TypeCorrect == Spec => []TypeOK
<1>1. Init => TypeOK
  BY ConstantAssumption DEF Init, TypeOK, PortList, CreatorPC, Call, IdleCall,
     CallPC, Op, Reply
<1> QED
  BY <1>1, TypeStep, PTL DEF Spec

-----------------------------------------------------------------------------
(* Ports *)

\* What Append does to the positions of a sequence.
LEMMA AppendFacts ==
  ASSUME NEW S, NEW s \in Seq(S), NEW p \in S
  PROVE  /\ Len(s) \in Nat
         /\ DOMAIN s = 1..Len(s)
         /\ DOMAIN Append(s, p) = 1..(Len(s) + 1)
         /\ \A i \in DOMAIN s : Append(s, p)[i] = s[i]
         /\ Append(s, p)[Len(s) + 1] = p
OBVIOUS

\* Only findAvailablePort changes the ports of a manager or the port table.
LEMMA PortFrame ==
  ASSUME [Next]_vars,
         \A k \in Kernel : ~FindAvailablePort(k)
  PROVE  UNCHANGED <<ports, tracked>>
BY DEF Next, vars, CreateStep, ProcessStep, CallStep, ServerStep, launchVars,
   CreateArrives, LookupSession, WriteConnectionFile, FormatKernelCmd,
   LaunchKernel, RegisterKernel, StoreSession, ReadConnectionFile, ProcessExit,
   StdinWrite, CopyOutputFails, CallArrives, LookupKernel, SignalProcess,
   DeleteKernel, StopSignal, CleanupKill, ServerExit, MapFault

\* A fresh port appended to one manager's list keeps the lists disjoint and
\* tracked; port 0 does too.
LEMMA NewPort ==
  ASSUME TypeOK, PortInv, PortsDisjoint,
         NEW k \in Kernel, NEW p \in Port \cup {NoPort}, GotPort(k, p),
         \/ p \in Port \ tracked /\ tracked' = tracked \cup {p}
         \/ p = NoPort /\ tracked' = tracked
  PROVE  PortInv' /\ PortsDisjoint'
<1> DEFINE n == Len(ports[k]) + 1
<1>0. ports[k] \in Seq(Port \cup {NoPort})
  BY DEF TypeOK, PortList
<1>1. /\ DOMAIN ports'[k] = (DOMAIN ports[k]) \cup {n}
      /\ n \notin DOMAIN ports[k]
      /\ \A i \in DOMAIN ports[k] : ports'[k][i] = ports[k][i]
      /\ ports'[k][n] = p
  <2>1. ports'[k] = Append(ports[k], p)
    BY DEF GotPort, TypeOK
  <2> QED
    BY <1>0, <2>1, AppendFacts
<1>2. \A m \in Kernel \ {k} : ports'[m] = ports[m]
  BY DEF GotPort, TypeOK
<1> HIDE DEF n
<1>3. PortInv'
  BY <1>1, <1>2 DEF PortInv
<1>4. PortsDisjoint'
  <2> SUFFICES ASSUME NEW a \in Kernel, NEW b \in Kernel,
                      NEW i \in DOMAIN ports'[a], NEW j \in DOMAIN ports'[b],
                      ports'[a][i] = ports'[b][j], ports'[a][i] # NoPort
               PROVE  a = b /\ i = j
    BY DEF PortsDisjoint
  <2>1. CASE (a = k /\ i = n) /\ (b = k /\ j = n)
    BY <2>1
  <2>2. CASE (a = k /\ i = n) /\ ~(b = k /\ j = n)
    <3>1. j \in DOMAIN ports[b] /\ ports'[b][j] = ports[b][j]
      BY <1>1, <1>2, <2>2
    <3>2. p \in tracked
      BY <1>1, <2>2, <3>1 DEF PortInv
    <3> QED
      BY <1>1, <2>2, <3>2
  <2>3. CASE ~(a = k /\ i = n) /\ (b = k /\ j = n)
    <3>1. i \in DOMAIN ports[a] /\ ports'[a][i] = ports[a][i]
      BY <1>1, <1>2, <2>3
    <3>2. p \in tracked
      BY <1>1, <2>3, <3>1 DEF PortInv
    <3> QED
      BY <1>1, <2>3, <3>2
  <2>4. CASE ~(a = k /\ i = n) /\ ~(b = k /\ j = n)
    <3>1. /\ i \in DOMAIN ports[a] /\ ports'[a][i] = ports[a][i]
          /\ j \in DOMAIN ports[b] /\ ports'[b][j] = ports[b][j]
      BY <1>1, <1>2, <2>4
    <3>2. ports[a][i] = ports[b][j] /\ ports[a][i] # NoPort
      BY <3>1
    <3>3. \A x \in DOMAIN ports[a], y \in DOMAIN ports[b] :
            ports[a][x] = ports[b][y] /\ ports[a][x] # NoPort
              => a = b /\ x = y
      BY DEF PortsDisjoint
    <3> QED
      BY <3>1, <3>2, <3>3
  <2> QED
    BY <2>1, <2>2, <2>3, <2>4
<1> QED
  BY <1>3, <1>4

\* No manager has a port at first.
LEMMA PortInit == Init => PortInv /\ PortsDisjoint
BY DEF Init, PortInv, PortsDisjoint

\* Every step keeps the ports of the managers disjoint and tracked.
LEMMA PortStep ==
  ASSUME TypeOK, PortInv, PortsDisjoint, [Next]_vars
  PROVE  PortInv' /\ PortsDisjoint'
<1>1. ASSUME NEW k \in Kernel, FindAvailablePort(k)
      PROVE  PortInv' /\ PortsDisjoint'
  <2>1. \/ \E p \in Port \ tracked :
             tracked' = tracked \cup {p} /\ GotPort(k, p)
        \/ tracked' = tracked /\ GotPort(k, NoPort)
    BY <1>1 DEF FindAvailablePort
  <2> QED
    BY <2>1, NewPort
<1>2. CASE \A k \in Kernel : ~FindAvailablePort(k)
  BY <1>2, PortFrame DEF PortInv, PortsDisjoint
<1> QED
  BY <1>1, <1>2

\* Two channels, of one kernel or of two, never get the same port, however
\* the session handlers interleave: portExists and the append to
\* currentlyUsedPorts happen in one critical section, and nothing is released.
THEOREM PortsNeverShared == Spec => []PortsDisjoint
BY PortInit, PortStep, TypeCorrect, PTL DEF Spec

-----------------------------------------------------------------------------
(* Kills, crashes and shutdown *)

\* The fields of a request's record that a step of its handler leaves or sets.
LEMMA CallFields ==
  ASSUME NEW r \in Call, NEW p, NEW o, NEW i, NEW f, NEW y
  PROVE  /\ LET q == [r EXCEPT !.pc = p, !.op = o, !.id = i] IN
              /\ q.pc = p /\ q.op = o /\ q.id = i
              /\ q.found = r.found /\ q.reply = r.reply
         /\ LET q == [r EXCEPT !.pc = p, !.found = f] IN
              /\ q.pc = p /\ q.op = r.op /\ q.id = r.id
              /\ q.found = f /\ q.reply = r.reply
         /\ LET q == [r EXCEPT !.pc = p, !.reply = y] IN
              /\ q.pc = p /\ q.op = r.op /\ q.id = r.id
              /\ q.found = r.found /\ q.reply = y
         /\ LET q == [r EXCEPT !.pc = p] IN
              /\ q.pc = p /\ q.op = r.op /\ q.id = r.id
              /\ q.found = r.found /\ q.reply = r.reply
BY DEF Call

\* A step of a session handler that ends before a process exists disturbs
\* nothing.
LEMMA EarlyStep ==
  ASSUME TypeOK, KillInv, NEW k \in Kernel, NEW v,
         {pc[k], v} \cap {"register", "store", "done"} = {}, Goto(k, v),
         UNCHANGED <<server, proc, active, sessions, call, stopVars>>
  PROVE  KillInv'
<1>1. /\ \A m \in Kernel \ {k} : pc'[m] = pc[m]
      /\ pc'[k] = v
  BY DEF TypeOK, Goto
<1>2. LaunchInv' /\ DroppedKernelsAreDead'
  BY <1>1 DEF KillInv, LaunchInv, DroppedKernelsAreDead, EverRegistered
<1>3. \A m \in Kernel : EverRegistered(m) => EverRegistered(m)'
  BY <1>1 DEF EverRegistered
<1>4. CallInv' /\ KilledMeansDead' /\ StopInv'
  BY <1>3 DEF KillInv, CallInv, KilledMeansDead, StopInv, stopVars, TypeOK, Call
<1> QED
  BY <1>2, <1>4 DEF KillInv

\* Killing a process, or its own exit, disturbs nothing.
LEMMA KillStep ==
  ASSUME TypeOK, KillInv, NEW k \in Kernel, Kill(k),
         UNCHANGED <<server, pc, active, sessions, call, stopVars>>
  PROVE  KillInv'
BY DEF KillInv, LaunchInv, DroppedKernelsAreDead, CallInv, KilledMeansDead,
       StopInv, stopVars, EverRegistered, Kill, TypeOK

\* A step of a request handler that reads or writes nothing but its record
\* keeps what LaunchInv, DroppedKernelsAreDead and StopInv say.
LEMMA CallOnlyStep ==
  ASSUME KillInv, UNCHANGED <<server, pc, proc, active, sessions, stopVars>>
  PROVE  LaunchInv' /\ DroppedKernelsAreDead' /\ StopInv'
BY DEF KillInv, LaunchInv, DroppedKernelsAreDead, StopInv, stopVars,
       EverRegistered

\* Every step preserves the invariant.
LEMMA KillInvStep ==
  ASSUME TypeOK, KillInv, [Next]_vars
  PROVE  KillInv'
<1> USE DEF launchVars, procVars, stopVars
<1>1. ASSUME NEW k \in Kernel, CreateArrives(k) PROVE KillInv'
  BY <1>1, EarlyStep DEF CreateArrives
<1>2. ASSUME NEW k \in Kernel, LookupSession(k) PROVE KillInv'
  <2>1. pc[k] = "lookup"
    BY <1>2 DEF LookupSession
  <2>2. CASE Goto(k, "reused")
    BY <1>2, <2>1, <2>2, EarlyStep DEF LookupSession
  <2>3. CASE Goto(k, "ports")
    BY <1>2, <2>1, <2>3, EarlyStep DEF LookupSession
  <2> QED
    BY <1>2, <2>2, <2>3 DEF LookupSession
<1>3. ASSUME NEW k \in Kernel, FindAvailablePort(k) PROVE KillInv'
  <2>1. PICK v \in {"ports", "write"} : Goto(k, v)
    BY <1>3 DEF FindAvailablePort, GotPort
  <2> QED
    BY <1>3, <2>1, EarlyStep DEF FindAvailablePort
<1>4. ASSUME NEW k \in Kernel, WriteConnectionFile(k) PROVE KillInv'
  <2>1. PICK v \in {"format", "panicked"} : Goto(k, v)
    BY <1>4 DEF WriteConnectionFile
  <2> QED
    BY <1>4, <2>1, EarlyStep DEF WriteConnectionFile
<1>5. ASSUME NEW k \in Kernel, FormatKernelCmd(k) PROVE KillInv'
  <2>1. PICK v \in {"launch", "panicked"} : Goto(k, v)
    BY <1>5 DEF FormatKernelCmd
  <2> QED
    BY <1>5, <2>1, EarlyStep DEF FormatKernelCmd
<1>6. ASSUME NEW k \in Kernel, LaunchKernel(k) PROVE KillInv'
  <2>1. CASE Goto(k, "failed") /\ UNCHANGED proc
    BY <1>6, <2>1, EarlyStep DEF LaunchKernel
  <2>2. CASE Goto(k, "register") /\ proc' = [proc EXCEPT ![k] = "running"]
    <3>1. /\ pc[k] = "launch" /\ proc[k] = "none" /\ k \notin active
          /\ pc'[k] = "register" /\ proc'[k] = "running"
          /\ \A m \in Kernel \ {k} : pc'[m] = pc[m] /\ proc'[m] = proc[m]
          /\ UNCHANGED <<server, active, sessions, call, stopVars>>
      BY <1>6, <2>2 DEF LaunchKernel, Goto, KillInv, LaunchInv, TypeOK,
                        EverRegistered
    <3>2. LaunchInv' /\ DroppedKernelsAreDead'
      BY <3>1 DEF KillInv, LaunchInv, DroppedKernelsAreDead, EverRegistered
    <3>3. CallInv' /\ KilledMeansDead' /\ StopInv'
      BY <3>1 DEF KillInv, CallInv, KilledMeansDead, StopInv, EverRegistered,
                  TypeOK, Call
    <3> QED
      BY <3>2, <3>3 DEF KillInv
  <2> QED
    BY <1>6, <2>1, <2>2 DEF LaunchKernel
<1>7. ASSUME NEW k \in Kernel, RegisterKernel(k) PROVE KillInv'
  BY <1>7 DEF RegisterKernel, Goto, KillInv, LaunchInv, DroppedKernelsAreDead,
     CallInv, KilledMeansDead, StopInv, EverRegistered, TypeOK
<1>8. ASSUME NEW k \in Kernel, StoreSession(k) PROVE KillInv'
  BY <1>8 DEF StoreSession, Goto, KillInv, LaunchInv, DroppedKernelsAreDead,
     CallInv, KilledMeansDead, StopInv, EverRegistered, TypeOK
<1>9. ASSUME UNCHANGED <<pc, proc, active, sessions, call, stopVars>>,
             server' # "stopped"
      PROVE  KillInv'
  BY <1>9 DEF KillInv, LaunchInv, DroppedKernelsAreDead, CallInv,
     KilledMeansDead, StopInv, EverRegistered
<1>10. ASSUME NEW k \in Kernel, ReadConnectionFile(k) PROVE KillInv'
  <2>1. CASE Kill(k)
    BY <1>10, <2>1, KillStep DEF ReadConnectionFile
  <2>2. CASE UNCHANGED proc
    BY <1>10, <2>2 DEF ReadConnectionFile, KillInv, LaunchInv,
       DroppedKernelsAreDead, CallInv, KilledMeansDead, StopInv, EverRegistered
  <2> QED
    BY <1>10, <2>1, <2>2 DEF ReadConnectionFile
<1>11. ASSUME NEW k \in Kernel, ProcessExit(k) PROVE KillInv'
  BY <1>11, KillStep DEF ProcessExit
<1>12. ASSUME NEW k \in Kernel, StdinWrite(k) PROVE KillInv'
  BY <1>9, <1>12 DEF StdinWrite, Alive
<1>13. ASSUME NEW k \in Kernel, CopyOutputFails(k) PROVE KillInv'
  BY <1>9, <1>13 DEF CopyOutputFails
<1>14. ASSUME NEW c \in Caller, CallArrives(c) PROVE KillInv'
  <2>0. call[c] \in Call
    BY DEF TypeOK
  <2>1. PICK op \in {"interrupt", "kill"}, k \in Kernel \cup {NoKernel} :
          /\ k # NoKernel => EverRegistered(k)
          /\ call' = [call EXCEPT ![c] =
                       [@ EXCEPT !.pc = "lookup", !.op = op, !.id = k]]
    BY <1>14 DEF CallArrives
  <2>2. /\ call'[c].pc = "lookup" /\ call'[c].op = op /\ call'[c].id = k
        /\ call'[c].found = call[c].found /\ call'[c].reply = call[c].reply
    BY <2>0, <2>1, CallFields DEF TypeOK
  <2>3. /\ call[c].pc = "idle"
        /\ UNCHANGED <<server, pc, proc, active, sessions, stopVars>>
        /\ \A d \in Caller \ {c} : call'[d] = call[d]
    BY <1>14, <2>1 DEF CallArrives, TypeOK
  <2>4. CallInv' /\ KilledMeansDead'
    BY <2>1, <2>2, <2>3 DEF KillInv, CallInv, KilledMeansDead, EverRegistered
  <2> QED
    BY <2>3, <2>4, CallOnlyStep DEF KillInv
<1>15. ASSUME NEW c \in Caller, LookupKernel(c) PROVE KillInv'
  <2>0. call[c] \in Call /\ call[c].id \in Kernel \cup {NoKernel}
    BY DEF TypeOK, Call
  <2>2. /\ call'[c].pc = "signal" /\ call'[c].op = call[c].op
        /\ call'[c].id = call[c].id
        /\ call'[c].found = (call[c].id \in active)
        /\ call'[c].reply = call[c].reply
    BY <1>15, <2>0, CallFields DEF LookupKernel, TypeOK
  <2>3. /\ call[c].pc = "lookup"
        /\ UNCHANGED <<server, pc, proc, active, sessions, stopVars>>
        /\ \A d \in Caller \ {c} : call'[d] = call[d]
    BY <1>15 DEF LookupKernel, TypeOK
  <2>4. CallInv'
    <3>1. /\ call[c].id \in active => call[c].id # NoKernel
          /\ call[c].id \notin active /\ call[c].id # NoKernel
               => proc[call[c].id] = "exited"
      BY <2>0, ConstantAssumption
         DEF KillInv, CallInv, DroppedKernelsAreDead, TypeOK
    <3>2. /\ call'[c].found => call[c].id \in active
          /\ ~call'[c].found => call[c].id \notin active
      BY <2>2
    <3> QED
      BY <2>2, <2>3, <3>1, <3>2 DEF KillInv, CallInv, EverRegistered
  <2>5. KilledMeansDead'
    BY <2>2, <2>3 DEF KillInv, CallInv, KilledMeansDead
  <2> QED
    BY <2>3, <2>4, <2>5, CallOnlyStep DEF KillInv
<1>16. ASSUME NEW c \in Caller, SignalProcess(c) PROVE KillInv'
  <2>0. call[c] \in Call /\ call[c].id \in Kernel \cup {NoKernel}
    BY DEF TypeOK, Call
  <2>1. /\ call[c].pc = "signal"
        /\ UNCHANGED <<server, pc, active, sessions, stopVars>>
        /\ \A d \in Caller \ {c} : call'[d] = call[d]
    BY <1>16 DEF SignalProcess, TypeOK
  <2>2. CASE call[c].op = "interrupt"
    <3>1. /\ call'[c].pc = "done" /\ call'[c].op = "interrupt"
          /\ call'[c].id = call[c].id /\ call'[c].found = call[c].found
          /\ UNCHANGED proc
      BY <1>16, <2>0, <2>2, CallFields DEF SignalProcess, TypeOK
    <3>2. CallInv' /\ KilledMeansDead'
      BY <2>1, <3>1 DEF KillInv, CallInv, KilledMeansDead, EverRegistered
    <3> QED
      BY <2>1, <3>1, <3>2, CallOnlyStep DEF KillInv
  <2>3. CASE call[c].op # "interrupt"
    <3>1. /\ call'[c].pc = "delete" /\ call'[c].op = call[c].op
          /\ call'[c].id = call[c].id /\ call'[c].found = call[c].found
          /\ call'[c].reply = call[c].reply
      BY <1>16, <2>0, <2>3, CallFields DEF SignalProcess, TypeOK
    <3>2. /\ \A k \in Kernel : /\ proc[k] = "exited" => proc'[k] = "exited"
                               /\ proc[k] = "none" <=> proc'[k] = "none"
          /\ call[c].id # NoKernel => proc'[call[c].id] = "exited"
      <4>1. CASE call[c].found
        <5>1. call[c].id \in Kernel /\ proc[call[c].id] # "none"
          BY <2>0, <4>1 DEF KillInv, CallInv, LaunchInv, EverRegistered
        <5> QED
          BY <1>16, <2>3, <4>1, <5>1 DEF SignalProcess, Kill, TypeOK
      <4>2. CASE ~call[c].found
        <5>1. UNCHANGED proc
          BY <1>16, <4>2 DEF SignalProcess
        <5> QED
          BY <2>1, <4>2, <5>1 DEF KillInv, CallInv
      <4> QED
        BY <4>1, <4>2
    <3>3. LaunchInv' /\ DroppedKernelsAreDead' /\ StopInv'
      BY <2>1, <3>2 DEF KillInv, LaunchInv, DroppedKernelsAreDead, StopInv,
                        EverRegistered, TypeOK
    <3>4. CallInv'
      BY <2>0, <2>1, <3>1, <3>2 DEF KillInv, CallInv, EverRegistered, TypeOK,
                                    Call
    <3>5. KilledMeansDead'
      BY <2>0, <2>1, <3>1, <3>2 DEF KillInv, CallInv, KilledMeansDead, TypeOK,
                                    Call
    <3> QED
      BY <3>3, <3>4, <3>5 DEF KillInv
  <2> QED
    BY <2>2, <2>3
<1>17. ASSUME NEW c \in Caller, DeleteKernel(c) PROVE KillInv'
  <2>0. call[c] \in Call /\ call[c].id \in Kernel \cup {NoKernel}
    BY DEF TypeOK, Call
  <2>1. /\ call'[c].pc = "done" /\ call'[c].op = call[c].op
        /\ call'[c].id = call[c].id /\ call'[c].found = call[c].found
    BY <1>17, <2>0, CallFields DEF DeleteKernel, TypeOK
  <2>2. /\ call[c].pc = "delete"
        /\ active' = active \ {call[c].id}
        /\ UNCHANGED <<server, pc, proc, sessions, stopVars>>
        /\ \A d \in Caller \ {c} : call'[d] = call[d]
    BY <1>17 DEF DeleteKernel, TypeOK
  <2>3. LaunchInv' /\ DroppedKernelsAreDead' /\ StopInv'
    BY <2>0, <2>2, ConstantAssumption DEF KillInv, LaunchInv, CallInv,
       DroppedKernelsAreDead, StopInv, EverRegistered
  <2>4. CallInv' /\ KilledMeansDead'
    BY <2>1, <2>2 DEF KillInv, CallInv, KilledMeansDead, EverRegistered
  <2> QED
    BY <2>3, <2>4 DEF KillInv
<1>18. ASSUME StopSignal PROVE KillInv'
  BY <1>18 DEF StopSignal, KillInv, LaunchInv, DroppedKernelsAreDead, CallInv,
     KilledMeansDead, StopInv, EverRegistered, TypeOK
<1>19. ASSUME CleanupKill PROVE KillInv'
  BY <1>19 DEF CleanupKill, Kill, KillInv, LaunchInv, DroppedKernelsAreDead,
     CallInv, KilledMeansDead, StopInv, EverRegistered, TypeOK
<1>20. ASSUME ServerExit PROVE KillInv'
  BY <1>20 DEF ServerExit, KillInv, LaunchInv, DroppedKernelsAreDead, CallInv,
     KilledMeansDead, StopInv, EverRegistered, TypeOK
<1>21. ASSUME MapFault PROVE KillInv'
  BY <1>9, <1>21 DEF MapFault
<1>22. CASE UNCHANGED vars
  BY <1>22 DEF vars, KillInv, LaunchInv, DroppedKernelsAreDead, CallInv,
     KilledMeansDead, StopInv, EverRegistered
<1> QED
  BY <1>1, <1>2, <1>3, <1>4, <1>5, <1>6, <1>7, <1>8, <1>10, <1>11, <1>12,
     <1>13, <1>14, <1>15, <1>16, <1>17, <1>18, <1>19, <1>20, <1>21, <1>22
     DEF Next, CreateStep, ProcessStep, CallStep, ServerStep

\* It holds at first, when there are no requests and no processes.
LEMMA KillInit == Init => KillInv
BY DEF Init, IdleCall, KillInv, LaunchInv, DroppedKernelsAreDead, CallInv,
   KilledMeansDead, StopInv, EverRegistered

\* When main has returned, Cleanup or a request has killed each kernel.
LEMMA KillSuffices == KillInv => CleanupReachesAll
BY DEF KillInv, StopInv, CleanupReachesAll, Running

\* The invariant behind the three theorems below.
LEMMA KillInvariant == Spec => [](TypeOK /\ KillInv)
BY KillInit, KillInvStep, TypeCorrect, PTL DEF Spec

\* KillKernelById never drops a running kernel from ZasperActiveKernels, for
\* any number of requests killing, interrupting and creating kernels.
THEOREM NoRunningKernelIsDropped == Spec => []DroppedKernelsAreDead
BY KillInvariant, PTL DEF KillInv

\* A reply "Kernel killed successfully" for a kernel that ever existed is
\* true.
THEOREM KillRepliesAreTrue == Spec => []KilledMeansDead
BY KillInvariant, PTL DEF KillInv

\* Cleanup leaves none of the kernels that were registered when the signal
\* came, whatever the requests still running do to the map it ranges over.
THEOREM CleanupIsComplete == Spec => []CleanupReachesAll
BY KillSuffices, KillInvariant, PTL

-----------------------------------------------------------------------------
(* Connection files *)

\* Only a session handler and a starting process have to do with the files.
LEMMA FileFrame ==
  ASSUME [Next]_vars,
         \A k \in Kernel : ~CreateStep(k) /\ ~ReadConnectionFile(k)
  PROVE  UNCHANGED <<pc, ports, connFile, bound>>
BY DEF Next, vars, ProcessStep, CallStep, ServerStep, launchVars, procVars,
   ProcessExit, StdinWrite, CopyOutputFails, CallArrives, LookupKernel,
   SignalProcess, DeleteKernel, StopSignal, CleanupKill, ServerExit, MapFault

\* A step of a handler that only goes on in its code.
LEMMA GotoKeepsFileInv ==
  ASSUME TypeOK, FileInv, NEW k \in Kernel, NEW next, Goto(k, next),
         UNCHANGED <<ports, connFile, bound>>,
         \/ pc[k] = "idle" /\ next = "lookup"
         \/ pc[k] = "lookup" /\ next \in {"reused", "ports"}
         \/ pc[k] \in {"write", "format"} /\ next = "panicked" /\ bound[k] = Nothing
         \/ pc[k] = "format" /\ next = "launch"
         \/ pc[k] = "launch" /\ next \in {"register", "failed"}
         \/ pc[k] = "register" /\ next = "store"
         \/ pc[k] = "store" /\ next = "done"
  PROVE  FileInv'
<1> SUFFICES ASSUME NEW m \in Kernel
    PROVE  /\ (pc[m] \in {"idle", "lookup"} => Len(ports[m]) = 0)'
           /\ (pc[m] = "ports" => Len(ports[m]) < NChannels)'
           /\ (pc[m] \in {"write", "format", "launch", "register", "store", "done"} =>
                 Len(ports[m]) = NChannels)'
           /\ (Alone(m) /\ pc[m] \in {"format", "launch", "register", "store", "done"} =>
                 connFile[FileOf[m]] \in {ports[m], Broken})'
           /\ (bound[m] # Nothing => pc[m] \in {"register", "store", "done"})'
           /\ (Alone(m) /\ bound[m] # Nothing => bound[m] = ports[m])'
  BY DEF FileInv
<1>1. pc'[k] = next /\ \A x \in Kernel \ {k} : pc'[x] = pc[x]
  BY DEF Goto, TypeOK
<1>2. Alone(m)' = Alone(m)
  BY DEF Alone
<1>3. CASE m = k
  BY <1>1, <1>2, <1>3, ConstantAssumption DEF FileInv
<1>4. CASE m # k
  BY <1>1, <1>2, <1>4 DEF FileInv
<1> QED
  BY <1>3, <1>4

\* Nothing is written or bound at first.
LEMMA FileInit == Init => FileInv
<1>1. Init => \A k \in Kernel : ports[k] = <<>> /\ pc[k] = "idle"
                               /\ bound[k] = Nothing
  BY DEF Init
<1>2. Len(<<>>) = 0
  OBVIOUS
<1> QED
  BY <1>1, <1>2 DEF FileInv

\* A process whose kernel shares its file with no other has bound the ports
\* of its manager, which are all found by then.
LEMMA FileSuffices == FileInv => OwnConnectionInfo
BY DEF FileInv, Alone, OwnConnectionInfo

\* Every step keeps the files what their processes have read.
LEMMA FileStep ==
  ASSUME TypeOK, KillInv, FileInv, [Next]_vars
  PROVE  FileInv'
<1>1. CASE \A k \in Kernel : ~CreateStep(k) /\ ~ReadConnectionFile(k)
  BY <1>1, FileFrame DEF FileInv, Alone
<1>2. ASSUME NEW k \in Kernel, CreateStep(k)
      PROVE  FileInv'
  <2>1. CASE CreateArrives(k)
    BY <2>1, GotoKeepsFileInv DEF CreateArrives, procVars
  <2>2. CASE LookupSession(k)
    BY <2>2, GotoKeepsFileInv DEF LookupSession, procVars
  <2>3. CASE FindAvailablePort(k)
    <3>1. PICK p \in Port \cup {NoPort} : GotPort(k, p)
      BY <2>3 DEF FindAvailablePort
    <3>2. pc[k] = "ports" /\ UNCHANGED <<connFile, bound>>
      BY <2>3 DEF FindAvailablePort, procVars
    <3>3. ports[k] \in Seq(Port \cup {NoPort})
      BY DEF TypeOK, PortList
    <3>4. Len(ports[k]) \in Nat /\ Len(Append(ports[k], p)) = Len(ports[k]) + 1
      BY <3>3
    <3>5. ports'[k] = Append(ports[k], p)
          /\ \A x \in Kernel \ {k} : ports'[x] = ports[x] /\ pc'[x] = pc[x]
      BY <3>1 DEF GotPort, Goto, TypeOK
    <3>6. pc'[k] = IF Len(ports[k]) + 1 < NChannels THEN "ports" ELSE "write"
      BY <3>1 DEF GotPort, Goto, TypeOK
    <3>7. /\ Len(ports[k]) < NChannels /\ bound[k] = Nothing
      BY <3>2 DEF FileInv
    <3>8. /\ pc'[k] \in {"ports", "write"}
          /\ pc'[k] = "ports" => Len(ports'[k]) < NChannels
          /\ pc'[k] = "write" => Len(ports'[k]) = NChannels
      BY <3>4, <3>5, <3>6, <3>7, ConstantAssumption
    <3>9. \A x \in Kernel : Alone(x)' = Alone(x)
      BY DEF Alone
    <3> QED
      BY <3>2, <3>5, <3>7, <3>8, <3>9 DEF FileInv
  <2>4. CASE WriteConnectionFile(k)
    <3>1. pc[k] = "write" /\ UNCHANGED <<ports, bound>> /\ bound[k] = Nothing
      BY <2>4 DEF WriteConnectionFile, procVars, FileInv
    <3>2. CASE UNCHANGED connFile /\ Goto(k, "panicked")
      BY <3>1, <3>2, GotoKeepsFileInv
    <3>3. CASE Goto(k, "format") /\ \E content \in {ports[k], Broken} :
                 connFile' = [connFile EXCEPT ![FileOf[k]] = content]
      <4>1. connFile'[FileOf[k]] \in {ports[k], Broken}
        BY <3>3, ConstantAssumption DEF TypeOK
      <4>2. \A x \in Kernel \ {k} : FileOf[x] # FileOf[k] =>
              connFile'[FileOf[x]] = connFile[FileOf[x]]
        BY <3>3, ConstantAssumption DEF TypeOK
      <4>3. pc'[k] = "format" /\ \A x \in Kernel \ {k} : pc'[x] = pc[x]
        BY <3>3 DEF Goto, TypeOK
      <4>4. \A x \in Kernel : Alone(x)' = Alone(x)
            /\ (Alone(x) /\ x # k => FileOf[x] # FileOf[k])
        BY DEF Alone
      <4> QED
        BY <3>1, <4>1, <4>2, <4>3, <4>4 DEF FileInv
    <3> QED
      BY <2>4, <3>2, <3>3 DEF WriteConnectionFile
  <2>5. CASE FormatKernelCmd(k)
    BY <2>5, GotoKeepsFileInv DEF FormatKernelCmd, procVars, FileInv
  <2>6. CASE LaunchKernel(k)
    <3>1. UNCHANGED <<ports, connFile, bound>> /\ pc[k] = "launch"
      BY <2>6 DEF LaunchKernel
    <3> QED
      BY <2>6, <3>1, GotoKeepsFileInv DEF LaunchKernel
  <2>7. CASE RegisterKernel(k)
    BY <2>7, GotoKeepsFileInv DEF RegisterKernel, procVars
  <2>8. CASE StoreSession(k)
    BY <2>8, GotoKeepsFileInv DEF StoreSession, procVars
  <2> QED
    BY <1>2, <2>1, <2>2, <2>3, <2>4, <2>5, <2>6, <2>7, <2>8 DEF CreateStep
<1>3. ASSUME NEW k \in Kernel, ReadConnectionFile(k)
      PROVE  FileInv'
  <2>1. UNCHANGED <<pc, ports, connFile>> /\ Running(k)
    BY <1>3 DEF ReadConnectionFile, launchVars
  <2>2. pc[k] \in {"register", "store", "done"}
    BY <2>1 DEF KillInv, LaunchInv, Running
  <2>3. \A x \in Kernel \ {k} : bound'[x] = bound[x]
    BY <1>3 DEF ReadConnectionFile, TypeOK
  <2>4. Alone(k) /\ bound'[k] # Nothing => bound'[k] = ports[k]
    BY <1>3, <2>2 DEF ReadConnectionFile, TypeOK, FileInv
  <2>5. \A x \in Kernel : Alone(x)' = Alone(x)
    BY DEF Alone
  <2> QED
    BY <2>1, <2>2, <2>3, <2>4, <2>5 DEF FileInv
<1> QED
  BY <1>1, <1>2, <1>3

\* A process binds exactly what the manager of its kernel has noted down, so
\* that the websocket dials the right sockets, however the session handlers
\* interleave, as long as no two kernel ids share six characters.
THEOREM KernelsBindTheirPorts == Spec => []OwnConnectionInfo
BY FileInit, FileStep, FileSuffices, KillInvariant, PTL DEF Spec

-----------------------------------------------------------------------------
(* The service implements the abstract registry *)

\* A step that moves no handler into or out of the registry's states and
\* leaves processes and maps alone is invisible in the abstract registry.
LEMMA Invisible ==
  ASSUME \A k \in Kernel : EverRegistered(k)' <=> EverRegistered(k),
         UNCHANGED <<proc, active, sessions>>
  PROVE  UNCHANGED <<proc, Registry, sessions>>
BY DEF Registry

\* The end of a process is Exit, or invisible if it had ended before.
LEMMA KillRefines ==
  ASSUME TypeOK, NEW k \in Kernel, Kill(k), UNCHANGED <<pc, active, sessions>>
  PROVE  Abstract!Exit(k) \/ UNCHANGED <<proc, Registry, sessions>>
<1>1. UNCHANGED Registry
  BY DEF Registry, EverRegistered
<1>2. CASE proc[k] = "running"
  BY <1>1, <1>2 DEF Kill, Abstract!Exit, TypeOK
<1>3. CASE proc[k] # "running"
  BY <1>1, <1>3 DEF Kill, TypeOK
<1> QED
  BY <1>2, <1>3

\* A session handler's step that does not touch processes or maps.
LEMMA GotoRefines ==
  ASSUME TypeOK, NEW k \in Kernel, NEW v, Goto(k, v),
         {pc[k], v} \cap {"store", "done"} = {},
         UNCHANGED <<proc, active, sessions>>
  PROVE  UNCHANGED <<proc, Registry, sessions>>
<1>1. \A m \in Kernel : EverRegistered(m)' <=> EverRegistered(m)
  BY DEF Goto, EverRegistered, TypeOK
<1> QED
  BY <1>1, Invisible

\* The service starts where the abstract registry does.
LEMMA InitRefines == Init => Abstract!Init
BY DEF Init, Abstract!Init, Registry, EverRegistered

\* Every step of the service is a step of the abstract registry, or leaves
\* what it sees unchanged.
LEMMA StepRefines ==
  ASSUME TypeOK, KillInv, [Next]_vars
  PROVE  [Abstract!Next]_<<proc, Registry, sessions>>
<1> DEFINE Stutter == UNCHANGED <<proc, Registry, sessions>>
<1> SUFFICES Abstract!Next \/ Stutter
  OBVIOUS
<1> USE DEF launchVars, procVars, stopVars
<1>1. ASSUME NEW k \in Kernel, CreateArrives(k) PROVE Stutter
  BY <1>1, GotoRefines DEF CreateArrives
<1>2. ASSUME NEW k \in Kernel, LookupSession(k) PROVE Stutter
  <2>1. PICK v \in {"reused", "ports"} : Goto(k, v)
    BY <1>2 DEF LookupSession
  <2> QED
    BY <1>2, <2>1, GotoRefines DEF LookupSession
<1>3. ASSUME NEW k \in Kernel, FindAvailablePort(k) PROVE Stutter
  <2>1. PICK v \in {"ports", "write"} : Goto(k, v)
    BY <1>3 DEF FindAvailablePort, GotPort
  <2> QED
    BY <1>3, <2>1, GotoRefines DEF FindAvailablePort
<1>4. ASSUME NEW k \in Kernel, WriteConnectionFile(k) PROVE Stutter
  <2>1. PICK v \in {"format", "panicked"} : Goto(k, v)
    BY <1>4 DEF WriteConnectionFile
  <2> QED
    BY <1>4, <2>1, GotoRefines DEF WriteConnectionFile
<1>5. ASSUME NEW k \in Kernel, FormatKernelCmd(k) PROVE Stutter
  <2>1. PICK v \in {"launch", "panicked"} : Goto(k, v)
    BY <1>5 DEF FormatKernelCmd
  <2> QED
    BY <1>5, <2>1, GotoRefines DEF FormatKernelCmd
<1>6. ASSUME NEW k \in Kernel, LaunchKernel(k)
      PROVE  Abstract!Start(k) \/ Stutter
  <2>1. CASE Goto(k, "failed") /\ UNCHANGED proc
    BY <1>6, <2>1, GotoRefines DEF LaunchKernel
  <2>2. CASE Goto(k, "register") /\ proc' = [proc EXCEPT ![k] = "running"]
    <3>1. proc[k] = "none"
      BY <1>6 DEF LaunchKernel, KillInv, LaunchInv
    <3>2. UNCHANGED Registry
      BY <1>6, <2>2 DEF LaunchKernel, Goto, Registry, EverRegistered, TypeOK
    <3> QED
      BY <1>6, <2>2, <3>1, <3>2 DEF LaunchKernel, Abstract!Start
  <2> QED
    BY <1>6, <2>1, <2>2 DEF LaunchKernel
<1>7. ASSUME NEW k \in Kernel, RegisterKernel(k) PROVE Abstract!Publish(k)
  <2>1. proc[k] # "none" /\ Registry[k] = "never"
    BY <1>7 DEF RegisterKernel, KillInv, LaunchInv, Registry, EverRegistered
  <2>2. Registry' = [Registry EXCEPT ![k] = "listed"]
    BY <1>7 DEF RegisterKernel, Goto, Registry, EverRegistered, TypeOK
  <2> QED
    BY <1>7, <2>1, <2>2 DEF RegisterKernel, Abstract!Publish
<1>8. ASSUME NEW k \in Kernel, StoreSession(k) PROVE Abstract!Open(k)
  <2>1. Registry[k] # "never" /\ k \notin sessions
    BY <1>8 DEF StoreSession, KillInv, LaunchInv, Registry, EverRegistered
  <2>2. UNCHANGED Registry
    BY <1>8 DEF StoreSession, Goto, Registry, EverRegistered, TypeOK
  <2> QED
    BY <1>8, <2>1, <2>2 DEF StoreSession, Abstract!Open
<1>9. ASSUME UNCHANGED <<pc, proc, active, sessions>> PROVE Stutter
  BY <1>9 DEF Registry, EverRegistered
<1>10. ASSUME NEW k \in Kernel, ReadConnectionFile(k)
       PROVE  Abstract!Exit(k) \/ Stutter
  BY <1>9, <1>10, KillRefines DEF ReadConnectionFile
<1>11. ASSUME NEW k \in Kernel, ProcessExit(k)
       PROVE  Abstract!Exit(k) \/ Stutter
  BY <1>11, KillRefines DEF ProcessExit
<1>12. ASSUME NEW k \in Kernel, StdinWrite(k) \/ CopyOutputFails(k)
       PROVE  Stutter
  BY <1>9, <1>12 DEF StdinWrite, CopyOutputFails
<1>13. ASSUME NEW c \in Caller, CallArrives(c) \/ LookupKernel(c)
       PROVE  Stutter
  BY <1>9, <1>13 DEF CallArrives, LookupKernel
<1>14. ASSUME NEW c \in Caller, SignalProcess(c)
       PROVE  (\E k \in Kernel : Abstract!Exit(k)) \/ Stutter
  <2>1. CASE UNCHANGED proc
    BY <1>9, <1>14, <2>1 DEF SignalProcess
  <2>2. CASE call[c].found /\ Kill(call[c].id)
    <3>1. call[c].id \in Kernel
      BY <2>2 DEF KillInv, CallInv, TypeOK, Call
    <3> QED
      BY <1>14, <2>2, <3>1, KillRefines DEF SignalProcess
  <2> QED
    BY <1>14, <2>1, <2>2 DEF SignalProcess
<1>15. ASSUME NEW c \in Caller, DeleteKernel(c)
       PROVE  (\E k \in Kernel : Abstract!Withdraw(k)) \/ Stutter
  <2>1. CASE call[c].id \in active
    <3> DEFINE k == call[c].id
    <3>1. k \in Kernel /\ EverRegistered(k) /\ proc[k] = "exited"
      BY <1>15, <2>1, ConstantAssumption
         DEF DeleteKernel, KillInv, CallInv, LaunchInv, TypeOK
    <3>2. Registry[k] = "listed"
      BY <2>1, <3>1 DEF Registry
    <3>3. Registry' = [Registry EXCEPT ![k] = "withdrawn"]
      BY <1>15, <3>1 DEF DeleteKernel, Registry, EverRegistered
    <3> QED
      BY <1>15, <3>1, <3>2, <3>3 DEF DeleteKernel, Abstract!Withdraw
  <2>2. CASE call[c].id \notin active
    <3>1. active' = active
      BY <1>15, <2>2 DEF DeleteKernel
    <3> QED
      BY <1>9, <1>15, <3>1 DEF DeleteKernel
  <2> QED
    BY <2>1, <2>2
<1>16. ASSUME CleanupKill
       PROVE  (\E k \in Kernel : Abstract!Exit(k)) \/ Stutter
  BY <1>16, KillRefines DEF CleanupKill, TypeOK
<1>17. ASSUME StopSignal \/ ServerExit \/ MapFault PROVE Stutter
  BY <1>9, <1>17 DEF StopSignal, ServerExit, MapFault
<1>18. CASE UNCHANGED vars
  BY <1>9, <1>18 DEF vars
<1> HIDE DEF Stutter
<1> QED
  BY <1>1, <1>2, <1>3, <1>4, <1>5, <1>6, <1>7, <1>8, <1>10, <1>11, <1>12,
     <1>13, <1>14, <1>15, <1>16, <1>17, <1>18
     DEF Next, CreateStep, ProcessStep, CallStep, ServerStep, Abstract!Next

\* The kernel service implements KernelRegistry: a kernel is started once,
\* published and opened in that order, withdrawn only when dead, and none of
\* this is ever undone.
THEOREM ServiceImplementsRegistry == Spec => ImplementsRegistry
BY InitRefines, StepRefines, KillInvariant, PTL
   DEF Spec, ImplementsRegistry, Abstract!Spec

-----------------------------------------------------------------------------
(* KernelConnections: the inductive invariant, in parts *)

Open == {"live", "left"}

\* A stored connection was opened for the kernel it is stored under; a
\* connection with a registered kernel names one; only an open connection is
\* ever cancelled.
StoredInv ==
  /\ \A k \in Kernel : registry[k] # NoConn =>
       ws[registry[k]].id = k /\ ws[registry[k]].pc \in Open
  /\ \A w \in Conn : ws[w].pc \in {"connect", "register"} \cup Open =>
       ws[w].id \in Kernel
  /\ \A w \in cancelled : ws[w].pc \in Open

\* A request that is before its cancel or between cancel and removal is a
\* DELETE, and in between it has cancelled a connection of its kernel.
DeleteInv ==
  \A c \in Caller :
    /\ call[c].pc = "idle" => call[c].op = "none"
    /\ call[c].pc \in {"cancel", "unregister"} => call[c].op = "delete"
    /\ call[c].pc = "unregister" =>
         /\ call[c].id \in Kernel
         /\ \E w \in cancelled : ws[w].id = call[c].id

ConnInv == StoredInv /\ DeleteInv /\ CancelledByOwnDelete
             /\ SoleConnectionReachable

-----------------------------------------------------------------------------
(* What the parts of the kernel service do to requests *)

\* The record of a new DELETE request.
LEMMA NewDelete ==
  ASSUME NEW r \in Call, NEW k \in Kernel \cup {NoKernel}
  PROVE  LET q == [r EXCEPT !.pc = "cancel", !.op = "delete", !.id = k] IN
           q \in Call /\ q.pc = "cancel" /\ q.op = "delete" /\ q.id = k
BY DEF Call, CallPC, Op

\* A step of the kernel service leaves a request alone, starts an idle one
\* as an interrupt or a kill, or moves one on that is past its removal.
LEMMA RequestStep ==
  ASSUME TypeOK, [Next]_vars, NEW c \in Caller
  PROVE  \/ call'[c] = call[c]
         \/ call[c].pc = "idle" /\ call'[c].pc = "lookup"
         \/ /\ call[c].pc \in {"lookup", "signal", "delete"}
            /\ call'[c].pc \in {"signal", "delete", "done"}
            /\ call'[c].op = call[c].op /\ call'[c].id = call[c].id
<1> DEFINE Goal == \/ call'[c] = call[c]
                   \/ call[c].pc = "idle" /\ call'[c].pc = "lookup"
                   \/ /\ call[c].pc \in {"lookup", "signal", "delete"}
                      /\ call'[c].pc \in {"signal", "delete", "done"}
                      /\ call'[c].op = call[c].op /\ call'[c].id = call[c].id
<1>0. call \in [Caller -> Call] /\ call[c] \in Call
  BY DEF TypeOK
<1>1. ASSUME NEW d \in Caller, CallArrives(d) PROVE Goal
  <2>1. PICK op \in {"interrupt", "kill"}, k \in Kernel \cup {NoKernel} :
          call' = [call EXCEPT ![d] =
                    [@ EXCEPT !.pc = "lookup", !.op = op, !.id = k]]
    BY <1>1 DEF CallArrives
  <2> QED
    BY <1>0, <1>1, <2>1, CallFields DEF CallArrives
<1>2. ASSUME NEW d \in Caller, LookupKernel(d) PROVE Goal
  BY <1>0, <1>2, CallFields DEF LookupKernel
<1>3. ASSUME NEW d \in Caller, SignalProcess(d) PROVE Goal
  <2>1. call[d].pc = "signal"
    BY <1>3 DEF SignalProcess
  <2>2. CASE call[d].op = "interrupt"
    BY <1>0, <1>3, <2>1, <2>2, CallFields DEF SignalProcess
  <2>3. CASE call[d].op # "interrupt"
    BY <1>0, <1>3, <2>1, <2>3, CallFields DEF SignalProcess
  <2> QED
    BY <2>2, <2>3
<1>4. ASSUME NEW d \in Caller, DeleteKernel(d) PROVE Goal
  BY <1>0, <1>4, CallFields DEF DeleteKernel
<1>5. CASE UNCHANGED call
  BY <1>5
<1> QED
  BY <1>1, <1>2, <1>3, <1>4, <1>5
     DEF Next, vars, CreateStep, ProcessStep, CallStep, ServerStep,
     CreateArrives, LookupSession, FindAvailablePort, WriteConnectionFile,
     FormatKernelCmd, LaunchKernel, RegisterKernel, StoreSession,
     ReadConnectionFile, ProcessExit, StdinWrite, CopyOutputFails, StopSignal,
     CleanupKill, ServerExit, MapFault

\* The kernel service does not disturb the invariant.
LEMMA ServicePreserves ==
  ASSUME TypeOK, ConnInv, [Next]_vars, UNCHANGED connVars
  PROVE  ConnInv'
<1> USE DEF connVars
<1>1. StoredInv' /\ SoleConnectionReachable'
  BY DEF ConnInv, StoredInv, SoleConnectionReachable, Polls
<1>2. DeleteInv'
  <2> SUFFICES ASSUME NEW c \in Caller
      PROVE  /\ call'[c].pc = "idle" => call'[c].op = "none"
             /\ call'[c].pc \in {"cancel", "unregister"} =>
                  call'[c].op = "delete"
             /\ call'[c].pc = "unregister" =>
                  /\ call'[c].id \in Kernel
                  /\ \E w \in cancelled' : ws'[w].id = call'[c].id
    BY DEF DeleteInv
  <2> QED
    BY RequestStep DEF ConnInv, DeleteInv
<1>3. CancelledByOwnDelete'
  <2> SUFFICES ASSUME NEW w \in cancelled
      PROVE  \E c \in Caller : /\ call'[c].op = "delete"
                               /\ call'[c].id = ws[w].id
                               /\ call'[c].pc # "cancel"
    BY DEF CancelledByOwnDelete
  <2>1. PICK c \in Caller : /\ call[c].op = "delete"
                            /\ call[c].id = ws[w].id /\ call[c].pc # "cancel"
    BY DEF ConnInv, CancelledByOwnDelete
  <2>2. call[c].pc # "idle"
    BY <2>1 DEF ConnInv, DeleteInv
  <2> QED
    BY <2>1, <2>2, RequestStep
<1> QED
  BY <1>1, <1>2, <1>3 DEF ConnInv

-----------------------------------------------------------------------------
(* The websocket handlers and DELETE *)

\* A connection that moves on without becoming open or changing its kernel.
LEMMA WsMoves ==
  ASSUME ConnTypeOK, ConnInv, NEW w \in Conn, ws[w].pc \notin Open,
         NEW r \in Ws, ws' = [ws EXCEPT ![w] = r], r.pc \notin Open,
         r.pc \in {"connect", "register"} => r.id \in Kernel,
         UNCHANGED <<call, cancelled, registry>>
  PROVE  ConnInv'
<1>1. /\ ws'[w] = r
      /\ \A v \in Conn \ {w} : ws'[v] = ws[v]
  BY DEF ConnTypeOK
<1>2. w \notin cancelled /\ \A k \in Kernel : registry[k] # w
  BY ConnAssumption DEF ConnInv, StoredInv
<1>3. StoredInv'
  BY <1>1, <1>2 DEF ConnInv, StoredInv, ConnTypeOK
<1>4. DeleteInv' /\ CancelledByOwnDelete'
  BY <1>1, <1>2 DEF ConnInv, DeleteInv, CancelledByOwnDelete, ConnTypeOK
<1>5. SoleConnectionReachable'
  BY <1>1 DEF ConnInv, SoleConnectionReachable, Polls, Open
<1> QED
  BY <1>3, <1>4, <1>5 DEF ConnInv

\* A connection is stored over any earlier one of its kernel, which it then
\* keeps company.
LEMMA RegisterPreserves ==
  ASSUME ConnTypeOK, ConnInv, NEW w \in Conn, WsRegister(w)
  PROVE  ConnInv'
<1>1. /\ ws[w].pc = "register" /\ ws[w].id \in Kernel
      /\ ws'[w].pc = "live" /\ ws'[w].id = ws[w].id
      /\ \A v \in Conn \ {w} : ws'[v] = ws[v]
      /\ \A v \in Conn : ws'[v].id = ws[v].id
      /\ registry'[ws[w].id] = w
      /\ \A k \in Kernel \ {ws[w].id} : registry'[k] = registry[k]
      /\ UNCHANGED <<call, cancelled>>
  BY DEF WsRegister, WsGoto, ConnInv, StoredInv, ConnTypeOK, Ws, vars, Open
<1>2. w \notin cancelled /\ \A k \in Kernel : registry[k] # w
  BY <1>1, ConnAssumption DEF ConnInv, StoredInv, Open
<1>3. StoredInv'
  BY <1>1, <1>2 DEF ConnInv, StoredInv, ConnTypeOK, Open
<1>4. DeleteInv' /\ CancelledByOwnDelete'
  BY <1>1, <1>2 DEF ConnInv, DeleteInv, CancelledByOwnDelete, ConnTypeOK
<1>5. SoleConnectionReachable'
  <2> SUFFICES ASSUME NEW v \in Conn, Polls(v)', registry'[ws'[v].id] # v
      PROVE  \E u \in Conn \ {v} : ws'[u].id = ws'[v].id /\ ws'[u].pc \in Open
    BY DEF SoleConnectionReachable, Open
  <2>1. CASE v = w
    BY <1>1, <2>1
  <2>2. CASE v # w /\ ws[v].id = ws[w].id
    BY <1>1, <2>2 DEF Open
  <2>3. CASE v # w /\ ws[v].id # ws[w].id
    <3>1. Polls(v) /\ ws[v].id \in Kernel /\ registry[ws[v].id] # v
      BY <1>1, <2>3 DEF Polls, ConnInv, StoredInv, Open
    <3>2. PICK u \in Conn \ {v} : ws[u].id = ws[v].id /\ ws[u].pc \in Open
      BY <3>1 DEF ConnInv, SoleConnectionReachable, Open
    <3> QED
      BY <1>1, <2>3, <3>2 DEF Open
  <2> QED
    BY <2>1, <2>2, <2>3
<1> QED
  BY <1>3, <1>4, <1>5 DEF ConnInv

\* A client that leaves keeps its connection open in the sense of the
\* invariant: its pollers run on.
LEMMA LeavePreserves ==
  ASSUME ConnTypeOK, ConnInv, NEW w \in Conn, WsClientLeaves(w)
  PROVE  ConnInv'
<1>1. /\ \A v \in Conn : ws'[v].id = ws[v].id
      /\ \A v \in Conn : ws'[v].pc \in Open <=> ws[v].pc \in Open
      /\ \A v \in Conn \ {w} : ws'[v] = ws[v]
      /\ ws'[w].pc = "left"
      /\ UNCHANGED <<call, cancelled, registry>>
  BY DEF WsClientLeaves, WsGoto, ConnTypeOK, Ws, vars, Open
<1>2. StoredInv'
  BY <1>1, ConnAssumption DEF ConnInv, StoredInv, ConnTypeOK, Open
<1>3. DeleteInv' /\ CancelledByOwnDelete'
  BY <1>1 DEF ConnInv, DeleteInv, CancelledByOwnDelete, ConnTypeOK
<1>4. SoleConnectionReachable'
  BY <1>1 DEF ConnInv, SoleConnectionReachable, Polls, Open
<1> QED
  BY <1>2, <1>3, <1>4 DEF ConnInv

\* A DELETE arrives, on an idle handler.
LEMMA ArrivesPreserves ==
  ASSUME ConnTypeOK, ConnInv, NEW c \in Caller, DeleteArrives(c)
  PROVE  ConnInv'
<1>0. call \in [Caller -> Call] /\ call[c] \in Call
  BY DEF ConnTypeOK, TypeOK
<1>1. PICK k \in Kernel \cup {NoKernel} :
        call' = [call EXCEPT ![c] = [@ EXCEPT !.pc = "cancel",
                                              !.op = "delete", !.id = k]]
  BY DEF DeleteArrives, Known
<1>2. /\ call[c].pc = "idle" /\ call[c].op = "none"
      /\ call'[c].pc = "cancel" /\ call'[c].op = "delete"
      /\ \A d \in Caller \ {c} : call'[d] = call[d]
      /\ UNCHANGED <<ws, cancelled, registry>>
  <2>1. call[c].pc = "idle" /\ UNCHANGED <<ws, cancelled, registry>>
    BY DEF DeleteArrives, connVars
  <2>2. call[c].op = "none"
    BY <2>1 DEF ConnInv, DeleteInv
  <2>3. call'[c] = [call[c] EXCEPT !.pc = "cancel", !.op = "delete", !.id = k]
    BY <1>0, <1>1
  <2>4. call'[c].pc = "cancel" /\ call'[c].op = "delete"
    BY <1>0, <2>3 DEF Call
  <2> QED
    BY <1>0, <1>1, <2>1, <2>2, <2>4
<1>3. StoredInv' /\ SoleConnectionReachable'
  BY <1>2 DEF ConnInv, StoredInv, SoleConnectionReachable, Polls
<1>4. DeleteInv'
  BY <1>2 DEF ConnInv, DeleteInv
<1>5. CancelledByOwnDelete'
  BY <1>2 DEF ConnInv, CancelledByOwnDelete
<1> QED
  BY <1>3, <1>4, <1>5 DEF ConnInv

\* The connection that is cancelled is of the kernel the DELETE names.
LEMMA CancelPreserves ==
  ASSUME ConnTypeOK, ConnInv, NEW c \in Caller, CancelPolling(c)
  PROVE  ConnInv'
<1>0. call \in [Caller -> Call] /\ call[c] \in Call
  BY DEF ConnTypeOK, TypeOK
<1>1. /\ call[c].pc = "cancel" /\ call[c].op = "delete"
      /\ call'[c].op = "delete" /\ call'[c].id = call[c].id
      /\ call'[c].pc \in {"panicked", "unregister"}
      /\ \A d \in Caller \ {c} : call'[d] = call[d]
      /\ UNCHANGED <<ws, registry>>
  <2>1. PICK p \in {"panicked", "unregister"} :
          call' = [call EXCEPT ![c] = [@ EXCEPT !.pc = p]]
    BY DEF CancelPolling
  <2>2. call[c].pc = "cancel" /\ call[c].op = "delete"
    BY DEF CancelPolling, ConnInv, DeleteInv
  <2>3. call'[c].op = "delete" /\ call'[c].id = call[c].id /\ call'[c].pc = p
    BY <1>0, <2>1, <2>2, CallFields
  <2> QED
    BY <1>0, <2>1, <2>2, <2>3 DEF CancelPolling
<1>b. \/ call'[c].pc = "panicked" /\ UNCHANGED cancelled
      \/ /\ call'[c].pc = "unregister"
         /\ Registered(call[c].id) # NoConn
         /\ cancelled' = cancelled \cup {Registered(call[c].id)}
  <2>1. CASE Registered(call[c].id) = NoConn
    <3>1. /\ call' = [call EXCEPT ![c] = [@ EXCEPT !.pc = "panicked"]]
          /\ UNCHANGED cancelled
      BY <2>1 DEF CancelPolling
    <3> QED
      BY <1>0, <3>1 DEF Call
  <2>2. CASE Registered(call[c].id) # NoConn
    <3>1. /\ call' = [call EXCEPT ![c] = [@ EXCEPT !.pc = "unregister"]]
          /\ cancelled' = cancelled \cup {Registered(call[c].id)}
      BY <2>2 DEF CancelPolling
    <3> QED
      BY <1>0, <2>2, <3>1 DEF Call
  <2> QED
    BY <2>1, <2>2
<1>2. CASE call'[c].pc = "panicked"
  <2>1. UNCHANGED cancelled
    BY <1>b, <1>2
  <2> QED
    BY <1>1, <1>2, <2>1 DEF ConnInv, StoredInv, DeleteInv, Polls,
       CancelledByOwnDelete, SoleConnectionReachable
<1>3. CASE call'[c].pc = "unregister"
  <2> DEFINE w == Registered(call[c].id)
  <2>1. cancelled' = cancelled \cup {w} /\ w # NoConn
    BY <1>b, <1>3
  <2>2. /\ call[c].id \in Kernel /\ w \in Conn
        /\ ws[w].id = call[c].id /\ ws[w].pc \in Open
    BY <2>1 DEF Registered, ConnInv, StoredInv, ConnTypeOK
  <2> HIDE DEF w
  <2>3. StoredInv'
    BY <1>1, <2>1, <2>2 DEF ConnInv, StoredInv
  <2>4. DeleteInv'
    BY <1>1, <1>3, <2>1, <2>2 DEF ConnInv, DeleteInv
  <2>5. CancelledByOwnDelete'
    BY <1>1, <1>3, <2>1, <2>2 DEF ConnInv, CancelledByOwnDelete
  <2>6. SoleConnectionReachable'
    BY <1>1, <2>1 DEF ConnInv, SoleConnectionReachable, Polls
  <2> QED
    BY <2>3, <2>4, <2>5, <2>6 DEF ConnInv
<1> QED
  BY <1>1, <1>2, <1>3

\* The entry that is removed leaves another connection of its kernel behind:
\* the one this DELETE cancelled before.
LEMMA UnregisterPreserves ==
  ASSUME ConnTypeOK, ConnInv, NEW c \in Caller, UnregisterConn(c)
  PROVE  ConnInv'
<1>0. call \in [Caller -> Call] /\ call[c] \in Call
  BY DEF ConnTypeOK, TypeOK
<1>1. /\ call[c].pc = "unregister" /\ call[c].op = "delete"
      /\ call'[c].op = "delete" /\ call'[c].id = call[c].id
      /\ call'[c].pc = "lookup"
      /\ \A d \in Caller \ {c} : call'[d] = call[d]
      /\ UNCHANGED <<ws, cancelled>>
      /\ call[c].id \in Kernel
      /\ registry' = [registry EXCEPT ![call[c].id] = NoConn]
  BY <1>0, CallFields DEF UnregisterConn, ConnInv, DeleteInv
<1>2. /\ registry'[call[c].id] = NoConn
      /\ \A k \in Kernel \ {call[c].id} : registry'[k] = registry[k]
  BY <1>1 DEF ConnTypeOK
<1>3. PICK v \in cancelled : ws[v].id = call[c].id
  BY <1>1 DEF ConnInv, DeleteInv
<1>4. StoredInv'
  BY <1>1, <1>2 DEF ConnInv, StoredInv
<1>5. DeleteInv' /\ CancelledByOwnDelete'
  BY <1>1 DEF ConnInv, DeleteInv, CancelledByOwnDelete
<1>6. SoleConnectionReachable'
  <2> SUFFICES ASSUME NEW w \in Conn, Polls(w), registry'[ws[w].id] # w
      PROVE  \E u \in Conn \ {w} : ws[u].id = ws[w].id /\ ws[u].pc \in Open
    BY <1>1 DEF SoleConnectionReachable, Polls, Open
  <2>1. CASE ws[w].id = call[c].id
    <3>1. v \in Conn \ {w} /\ ws[v].pc \in Open
      BY <1>3 DEF Polls, ConnInv, StoredInv, ConnTypeOK
    <3> QED
      BY <1>3, <2>1, <3>1
  <2>2. CASE ws[w].id # call[c].id
    <3>1. ws[w].id \in Kernel
      BY DEF Polls, ConnInv, StoredInv, Open
    <3>2. registry[ws[w].id] # w
      BY <1>2, <2>2, <3>1
    <3> QED
      BY <3>2 DEF ConnInv, SoleConnectionReachable, Open
  <2> QED
    BY <2>1, <2>2
<1> QED
  BY <1>4, <1>5, <1>6 DEF ConnInv

-----------------------------------------------------------------------------
(* Types *)

\* Every step of the composition keeps the variables within their types.
LEMMA ConnTypeStep ==
  ASSUME ConnTypeOK, ConnInv, [ConnNext]_allVars
  PROVE  ConnTypeOK'
<1>0. call \in [Caller -> Call] /\ \A c \in Caller : call[c] \in Call
  BY DEF ConnTypeOK, TypeOK
<1>a. {"cancel", "unregister", "lookup", "panicked"} \subseteq CallPC
  BY DEF CallPC
<1>1. ASSUME [Next]_vars, UNCHANGED connVars PROVE ConnTypeOK'
  BY <1>1, TypeStep DEF ConnTypeOK, connVars
<1>2. ASSUME UNCHANGED vars, NEW w \in Conn, NEW r \in Ws,
             ws' = [ws EXCEPT ![w] = r],
             cancelled' \in SUBSET Conn,
             registry' \in [Kernel -> Conn \cup {NoConn}]
      PROVE  ConnTypeOK'
  <2>1. TypeOK'
    BY <1>2, TypeStep DEF ConnTypeOK
  <2> QED
    BY <1>2, <2>1 DEF ConnTypeOK
<1>3. ASSUME NEW w \in Conn, NEW p \in WsPC
      PROVE  [ws[w] EXCEPT !.pc = p] \in Ws
  BY DEF ConnTypeOK, Ws
<1>4. ASSUME NEW w \in Conn, WsArrives(w) PROVE ConnTypeOK'
  <2>1. PICK k \in Kernel \cup {NoKernel}, s \in Kernel \cup {NoKernel} :
          ws' = [ws EXCEPT ![w] = [pc |-> "session", id |-> k, sess |-> s]]
    BY <1>4 DEF WsArrives, Known, ConnTypeOK, TypeOK
  <2>2. [pc |-> "session", id |-> k, sess |-> s] \in Ws
    BY DEF Ws, WsPC
  <2>3. UNCHANGED vars /\ UNCHANGED <<cancelled, registry>>
    BY <1>4 DEF WsArrives
  <2> QED
    BY <1>2, <2>1, <2>2, <2>3 DEF ConnTypeOK
<1>5. ASSUME NEW w \in Conn, NEW p \in WsPC, WsGoto(w, p), UNCHANGED vars,
             cancelled' \in SUBSET Conn,
             registry' \in [Kernel -> Conn \cup {NoConn}]
      PROVE  ConnTypeOK'
  BY <1>2, <1>3, <1>5 DEF WsGoto, ConnTypeOK
<1>6. ASSUME NEW w \in Conn, WsStep(w) \/ WsClientLeaves(w) PROVE ConnTypeOK'
  <2>1. /\ UNCHANGED vars
        /\ \E p \in WsPC : WsGoto(w, p)
        /\ cancelled' \in SUBSET Conn
        /\ registry' \in [Kernel -> Conn \cup {NoConn}]
    BY <1>6 DEF WsStep, WsCheckSession, WsCheckKernel, WsConnect, WsRegister,
       WsClientLeaves, ConnTypeOK, WsPC
  <2> QED
    BY <1>5, <2>1
<1>7. ASSUME NEW c \in Caller, NEW r \in Call, call' = [call EXCEPT ![c] = r],
             UNCHANGED <<server, launchVars, procVars, active, sessions,
                         stopVars, ws>>,
             cancelled' \in SUBSET Conn,
             registry' \in [Kernel -> Conn \cup {NoConn}]
      PROVE  ConnTypeOK'
  <2>1. call' \in [Caller -> Call]
    BY <1>0, <1>7
  <2> QED
    BY <1>7, <2>1 DEF ConnTypeOK, TypeOK, launchVars, procVars, stopVars
<1>8. ASSUME NEW c \in Caller, DeleteArrives(c) PROVE ConnTypeOK'
  <2>1. PICK k \in Kernel \cup {NoKernel} :
          call' = [call EXCEPT ![c] = [@ EXCEPT !.pc = "cancel",
                                                !.op = "delete", !.id = k]]
    BY <1>8 DEF DeleteArrives, Known
  <2>2. [call[c] EXCEPT !.pc = "cancel", !.op = "delete", !.id = k] \in Call
    BY <1>0, NewDelete, Zenon
  <2> QED
    BY <1>7, <1>8, <2>1, <2>2 DEF DeleteArrives, connVars, ConnTypeOK
<1>9. ASSUME NEW c \in Caller, NEW p \in CallPC
      PROVE  [call[c] EXCEPT !.pc = p] \in Call
  BY <1>0 DEF Call
<1>10. ASSUME NEW c \in Caller, CancelPolling(c) PROVE ConnTypeOK'
  <2>1. \E p \in CallPC : call' = [call EXCEPT ![c] = [@ EXCEPT !.pc = p]]
    BY <1>10, <1>a DEF CancelPolling
  <2>2. cancelled' \in SUBSET Conn
    BY <1>10 DEF CancelPolling, Registered, ConnTypeOK
  <2> QED
    BY <1>7, <1>9, <1>10, <2>1, <2>2 DEF CancelPolling, ConnTypeOK
<1>11. ASSUME NEW c \in Caller, UnregisterConn(c) PROVE ConnTypeOK'
  <2>1. registry' \in [Kernel -> Conn \cup {NoConn}]
    BY <1>11 DEF UnregisterConn, ConnTypeOK
  <2>2. call' = [call EXCEPT ![c] = [@ EXCEPT !.pc = "lookup"]]
    BY <1>11 DEF UnregisterConn
  <2> QED
    BY <1>7, <1>9, <1>11, <1>a, <2>1, <2>2 DEF UnregisterConn, ConnTypeOK
<1>12. ASSUME ConnMapFault PROVE ConnTypeOK'
  BY <1>12 DEF ConnMapFault, ConnTypeOK, TypeOK, launchVars, procVars,
     stopVars, connVars
<1>13. CASE UNCHANGED allVars
  BY <1>1, <1>13 DEF allVars
<1> QED
  BY <1>1, <1>4, <1>6, <1>8, <1>10, <1>11, <1>12, <1>13
     DEF ConnNext, DeleteStep

-----------------------------------------------------------------------------
(* The theorems *)

\* Every step of the composition preserves the invariant.
LEMMA ConnInvStep ==
  ASSUME ConnTypeOK, ConnInv, [ConnNext]_allVars
  PROVE  ConnInv'
<1>0. TypeOK
  BY DEF ConnTypeOK
<1>1. ASSUME [Next]_vars, UNCHANGED connVars PROVE ConnInv'
  BY <1>0, <1>1, ServicePreserves
<1>2. ASSUME NEW w \in Conn, WsArrives(w) PROVE ConnInv'
  <2>1. PICK k \in Kernel \cup {NoKernel}, s \in Kernel \cup {NoKernel} :
          ws' = [ws EXCEPT ![w] = [pc |-> "session", id |-> k, sess |-> s]]
    BY <1>0, <1>2 DEF WsArrives, Known, TypeOK
  <2>2. [pc |-> "session", id |-> k, sess |-> s] \in Ws
    BY DEF Ws, WsPC
  <2>3. ws[w].pc = "idle" /\ UNCHANGED <<call, cancelled, registry>>
    BY <1>2 DEF WsArrives, vars
  <2> QED
    BY <2>1, <2>2, <2>3, WsMoves DEF Open
<1>3. ASSUME NEW w \in Conn, NEW p \in WsPC, WsGoto(w, p), p \notin Open,
             ws[w].pc \notin Open,
             p \in {"connect", "register"} => ws[w].id \in Kernel,
             UNCHANGED <<call, cancelled, registry>>
      PROVE  ConnInv'
  <2> DEFINE r == [ws[w] EXCEPT !.pc = p]
  <2>1. r \in Ws /\ r.pc = p /\ r.id = ws[w].id
    BY DEF ConnTypeOK, Ws
  <2>2. ws' = [ws EXCEPT ![w] = r]
    BY <1>3 DEF WsGoto
  <2> HIDE DEF r
  <2> QED
    BY <1>3, <2>1, <2>2, WsMoves
<1>4. ASSUME NEW w \in Conn, WsCheckSession(w) PROVE ConnInv'
  <2>1. PICK p \in {"kernel", "rejected"} : WsGoto(w, p)
    BY <1>4 DEF WsCheckSession
  <2> QED
    BY <1>3, <1>4, <2>1 DEF WsCheckSession, vars, WsPC, Open
<1>5. ASSUME NEW w \in Conn, WsCheckKernel(w) PROVE ConnInv'
  <2>1. PICK p \in {"connect", "rejected"} :
          WsGoto(w, p) /\ (p = "connect" => ws[w].id \in Kernel)
    BY <1>0, <1>5 DEF WsCheckKernel, TypeOK
  <2> QED
    BY <1>3, <1>5, <2>1 DEF WsCheckKernel, vars, WsPC, Open
<1>6. ASSUME NEW w \in Conn, WsConnect(w) PROVE ConnInv'
  BY <1>3, <1>6 DEF WsConnect, vars, WsPC, Open, ConnInv, StoredInv
<1>7. ASSUME ConnMapFault PROVE ConnInv'
  BY <1>7 DEF ConnMapFault, connVars, ConnInv, StoredInv, DeleteInv, Polls,
     CancelledByOwnDelete, SoleConnectionReachable
<1>8. CASE UNCHANGED allVars
  BY <1>1, <1>8 DEF allVars
<1> QED
  BY <1>1, <1>2, <1>4, <1>5, <1>6, <1>7, <1>8, RegisterPreserves,
     LeavePreserves, ArrivesPreserves, CancelPreserves, UnregisterPreserves
     DEF ConnNext, WsStep, DeleteStep

\* The invariant behind the theorems below.
LEMMA ConnInvariant == ConnSpec => [](ConnTypeOK /\ ConnInv)
<1>1. ConnInit => ConnTypeOK /\ ConnInv
  <2> SUFFICES ASSUME ConnInit PROVE ConnTypeOK /\ ConnInv
    OBVIOUS
  <2>1. TypeOK
    BY ConstantAssumption DEF ConnInit, Init, TypeOK, PortList, CreatorPC,
       Call, IdleCall, CallPC, Op, Reply
  <2>2. ConnTypeOK
    BY <2>1 DEF ConnInit, ConnTypeOK, Ws, WsPC
  <2>3. ConnInv
    BY DEF ConnInit, Init, IdleCall, ConnInv, StoredInv, DeleteInv, Polls,
       Open, CancelledByOwnDelete, SoleConnectionReachable
  <2> QED
    BY <2>2, <2>3
<1> QED
  BY <1>1, ConnTypeStep, ConnInvStep, PTL DEF ConnSpec

\* The connection map holds only connections of the right kernels, and all
\* variables have their types, in every state of the composition.
THEOREM ConnTypeCorrect == ConnSpec => []ConnTypeOK
BY ConnInvariant, PTL

\* DELETE never cancels the polling of another kernel's connection, for any
\* number of websockets and requests, whatever session ids clients send.
THEOREM DeleteCancelsItsOwn == ConnSpec => []CancelledByOwnDelete
BY ConnInvariant, PTL DEF ConnInv

\* A polling connection that the map does not hold is never the only one its
\* kernel had, for any number of websockets and requests.
THEOREM LostConnectionHasCompany == ConnSpec => []SoleConnectionReachable
BY ConnInvariant, PTL DEF ConnInv
-----------------------------------------------------------------------------
(* What the kernel service promises holds under the websocket handlers too *)

ServiceInv == PortInv /\ PortsDisjoint /\ KillInv /\ FileInv

\* DELETE moves its own request on, and touches nothing the kernel service
\* has read or written, until it calls KillKernelById.
LEMMA DeleteMoves ==
  ASSUME TypeOK, NEW c \in Caller, DeleteArrives(c) \/ DeleteStep(c)
  PROVE  /\ UNCHANGED <<server, launchVars, procVars, active, sessions,
                        stopVars>>
         /\ \A d \in Caller \ {c} : call'[d] = call[d]
         /\ call[c].pc \in {"idle", "cancel", "unregister"}
         /\ call'[c].pc \in {"cancel", "unregister", "panicked", "lookup"}
         /\ call'[c].found = call[c].found
         /\ call'[c].reply = call[c].reply
         /\ \/ call'[c].id = call[c].id
            \/ call[c].pc = "idle" /\ call'[c].id \in Known \cup {NoKernel}
<1>0. call \in [Caller -> Call] /\ call[c] \in Call
  BY DEF TypeOK
<1>1. CASE DeleteArrives(c)
  <2>1. PICK k \in Known \cup {NoKernel} :
          call' = [call EXCEPT ![c] = [@ EXCEPT !.pc = "cancel",
                                                !.op = "delete", !.id = k]]
    BY <1>1 DEF DeleteArrives
  <2>2. /\ call'[c].pc = "cancel" /\ call'[c].id = k
        /\ call'[c].found = call[c].found /\ call'[c].reply = call[c].reply
    BY <1>0, <2>1, CallFields
  <2> QED
    BY <1>0, <1>1, <2>1, <2>2 DEF DeleteArrives
<1>2. CASE DeleteStep(c)
  <2>1. PICK p \in {"panicked", "unregister", "lookup"} :
          call' = [call EXCEPT ![c] = [@ EXCEPT !.pc = p]]
    BY <1>2 DEF DeleteStep, CancelPolling, UnregisterConn
  <2>2. /\ call'[c].pc = p /\ call'[c].id = call[c].id
        /\ call'[c].found = call[c].found /\ call'[c].reply = call[c].reply
    BY <1>0, <2>1, CallFields
  <2>3. call[c].pc \in {"cancel", "unregister"}
    BY <1>2 DEF DeleteStep, CancelPolling, UnregisterConn
  <2>4. UNCHANGED <<server, launchVars, procVars, active, sessions, stopVars>>
    BY <1>2 DEF DeleteStep, CancelPolling, UnregisterConn
  <2> QED
    BY <1>0, <2>1, <2>2, <2>3, <2>4
<1> QED
  BY <1>1, <1>2

\* A step of the composition is one of the kernel service, or leaves it
\* alone but for the request of a DELETE or a crash of the server.
LEMMA ConnStep ==
  ASSUME [ConnNext]_allVars
  PROVE  \/ [Next]_vars
         \/ \E c \in Caller : DeleteArrives(c) \/ DeleteStep(c)
         \/ ConnMapFault
BY DEF ConnNext, allVars, WsStep, WsArrives, WsCheckSession, WsCheckKernel,
   WsConnect, WsRegister, WsClientLeaves

\* The websocket handlers and DELETE do not disturb the kernel service.
LEMMA ConnKeepsService ==
  ASSUME TypeOK, ServiceInv, [ConnNext]_allVars
  PROVE  ServiceInv'
<1>1. CASE [Next]_vars
  BY <1>1, PortStep, KillInvStep, FileStep DEF ServiceInv
<1>2. ASSUME NEW c \in Caller, DeleteArrives(c) \/ DeleteStep(c)
      PROVE  ServiceInv'
  <2>1. UNCHANGED <<server, pc, ports, tracked, connFile, proc, bound, active,
                    sessions, stopVars>>
    BY <1>2, DeleteMoves DEF launchVars, procVars
  <2>a. /\ \A d \in Caller \ {c} : call'[d] = call[d]
        /\ call[c].pc \in {"idle", "cancel", "unregister"}
        /\ call'[c].pc \in {"cancel", "unregister", "panicked", "lookup"}
        /\ call'[c].found = call[c].found /\ call'[c].reply = call[c].reply
        /\ \/ call'[c].id = call[c].id
           \/ call[c].pc = "idle" /\ call'[c].id \in Known \cup {NoKernel}
    BY <1>2, DeleteMoves
  <2>2. /\ call[c].pc = "idle" => ~call[c].found
        /\ call[c].found => call[c].id # NoKernel
        /\ call[c].reply = "none"
        /\ call'[c].id # NoKernel => EverRegistered(call'[c].id)
    BY <2>a DEF ServiceInv, KillInv, CallInv, Known
  <2>3. PortInv' /\ PortsDisjoint' /\ FileInv'
    BY <2>1 DEF ServiceInv, PortInv, PortsDisjoint, FileInv, Alone
  <2>4. CallInv' /\ KilledMeansDead'
    BY <2>1, <2>a, <2>2 DEF ServiceInv, KillInv, CallInv, KilledMeansDead,
                            EverRegistered
  <2> QED
    BY <2>1, <2>3, <2>4, CallOnlyStep DEF ServiceInv, KillInv
<1>3. CASE ConnMapFault
  BY <1>3 DEF ConnMapFault, launchVars, procVars, stopVars, ServiceInv,
     PortInv, PortsDisjoint, FileInv, Alone, KillInv, LaunchInv, CallInv,
     DroppedKernelsAreDead, KilledMeansDead, StopInv, EverRegistered
<1> QED
  BY <1>1, <1>2, <1>3, ConnStep

\* The kernel service's invariant, under the composition.
LEMMA ServiceInvariant == ConnSpec => [](TypeOK /\ ServiceInv)
<1>1. ConnInit => ServiceInv
  BY PortInit, KillInit, FileInit DEF ConnInit, ServiceInv
<1>2. ConnTypeOK => TypeOK
  BY DEF ConnTypeOK
<1> QED
  BY <1>1, <1>2, ConnKeepsService, ConnInvariant, PTL DEF ConnSpec

\* DELETE of a kernel drops it from ZasperActiveKernels only when it is dead,
\* however it interleaves with the websockets and the other requests.
THEOREM DeletedKernelsAreDead == ConnSpec => []DroppedKernelsAreDead
BY ServiceInvariant, PTL DEF ServiceInv, KillInv

\* A reply "ok" to a DELETE or a kill of a kernel that ever existed is true.
THEOREM DeleteRepliesAreTrue == ConnSpec => []KilledMeansDead
BY ServiceInvariant, PTL DEF ServiceInv, KillInv

\* The rest of what the kernel service promises holds with websockets and
\* DELETE requests as well: disjoint ports, the ports a kernel binds, and a
\* cleanup that reaches all kernels.
THEOREM ServiceKeepsItsPromises ==
  ConnSpec => [](PortsDisjoint /\ OwnConnectionInfo /\ CleanupReachesAll)
BY ServiceInvariant, FileSuffices, KillSuffices, PTL DEF ServiceInv

\* The kernel service with its websocket handlers and DELETE implements
\* KernelRegistry: none of what they add starts, publishes, opens or ends a
\* kernel in another way.
THEOREM ConnectionsImplementRegistry == ConnSpec => ImplementsRegistry
<1>1. TypeOK /\ KillInv /\ [ConnNext]_allVars
        => [Abstract!Next]_<<proc, Registry, sessions>>
  <2> SUFFICES ASSUME TypeOK, KillInv, [ConnNext]_allVars
               PROVE  [Abstract!Next]_<<proc, Registry, sessions>>
    OBVIOUS
  <2>1. CASE [Next]_vars
    BY <2>1, StepRefines
  <2>2. CASE \/ \E c \in Caller : DeleteArrives(c) \/ DeleteStep(c)
             \/ ConnMapFault
    <3>1. UNCHANGED <<pc, proc, active, sessions>>
      BY <2>2, DeleteMoves DEF ConnMapFault, launchVars, procVars
    <3> QED
      BY <3>1, Invisible DEF EverRegistered
  <2> QED
    BY <2>1, <2>2, ConnStep
<1>2. ServiceInv => KillInv
  BY DEF ServiceInv
<1>3. ConnInit => Abstract!Init
  BY InitRefines DEF ConnInit
<1> QED
  BY <1>1, <1>2, <1>3, ServiceInvariant, PTL
     DEF ConnSpec, ImplementsRegistry, Abstract!Spec
=============================================================================
