--------------------------- MODULE KernelService ---------------------------
(***************************************************************************)
(* The kernel service of the Zasper server: how a session request starts a *)
(* Jupyter kernel, how kernels are interrupted and killed, what happens to *)
(* the kernel processes when they die on their own, when the server is     *)
(* told to stop and when it crashes.                                       *)
(*                                                                         *)
(*   internal/session/session_manager.go    CreateSession                  *)
(*   internal/kernel/kernel_supervisor.go   the registry of active kernels *)
(*   internal/kernel/kernel_manager.go      prelaunch and launch           *)
(*   internal/kernel/utils.go               the port table                 *)
(*   internal/kernel/connection.go          the connection file            *)
(*   internal/kernel/launcher/launcher.go   the process and its goroutines *)
(*   app.go                                 signal, cleanup, exit          *)
(*                                                                         *)
(* net/http runs every request in a goroutine of its own, and no lock is   *)
(* held around the maps, so each step between two accesses to shared state *)
(* is an action.  A POST /api/sessions handler draws one fresh uuid for    *)
(* the session and one for the kernel; the model gives handler, session    *)
(* and kernel the same name k \in Kernel, used once.                       *)
(***************************************************************************)
EXTENDS Naturals, Sequences

CONSTANTS
  Kernel,       \* handlers of POST /api/sessions, and the ids they draw
  Caller,       \* handlers of the requests that name an existing kernel
  NoKernel,     \* an id in a request that never was a kernel's id
  Port,         \* the ports findAvailablePort draws from (5000..5999)
  NoPort,       \* the 0 it returns, with an error its caller drops
  NChannels,    \* ports per kernel: shell, iopub, stdin, hb, control
  File,         \* names of connection files
  FileOf,       \* kernel id -> file name: the first 6 characters of the id
  Broken,       \* content of a connection file whose encoding failed
  Nothing       \* no file on disk; no connection file read yet

ASSUME ConstantAssumption ==
  /\ NoKernel \notin Kernel
  /\ NoPort \notin Port
  /\ NChannels \in Nat \ {0}
  /\ FileOf \in [Kernel -> File]
  /\ Broken \notin Seq(Port \cup {NoPort})
  /\ Nothing \notin Seq(Port \cup {NoPort}) \cup {Broken}

VARIABLES
  server,       \* "up", "stopping" (in cleanup), "stopped", "crashed"
  pc,           \* where each session handler is
  ports,        \* km.ConnectionInfo: the ports found so far, in order
  tracked,      \* currentlyUsedPorts
  connFile,     \* the connection files on disk
  proc,         \* the kernel processes: "none", "running", "exited"
  bound,        \* the ports each process read from its file and bound
  stdin,        \* launcher goroutines that have not written to stdin yet
  active,       \* the keys of ZasperActiveKernels
  sessions,     \* the keys of core.ZasperSession
  call,         \* the requests on existing kernels
  atSignal,     \* the kernels active when the stop signal was handled
  swept         \* the kernels Cleanup has killed so far

launchVars == <<pc, ports, tracked, connFile>>
procVars   == <<proc, bound, stdin>>
stopVars   == <<atSignal, swept>>
vars == <<server, launchVars, procVars, active, sessions, call, stopVars>>

PortList == Seq(Port \cup {NoPort})

CreatorPC == {"idle", "lookup", "ports", "write", "format", "launch",
              "register", "store", "done", "reused", "failed", "panicked"}
CallPC    == {"idle", "cancel", "unregister", "lookup", "signal", "delete",
              "done", "panicked"}
Op        == {"none", "interrupt", "kill", "delete"}
Reply     == {"none", "ok", "error", "notfound"}
Call      == [pc : CallPC, op : Op, id : Kernel \cup {NoKernel},
              found : BOOLEAN, reply : Reply]

IdleCall == [pc |-> "idle", op |-> "none", id |-> NoKernel,
             found |-> FALSE, reply |-> "none"]

-----------------------------------------------------------------------------
(* State predicates *)

\* The server process exists; its goroutines run until main returns.
Alive == server \in {"up", "stopping"}

\* k was put into ZasperActiveKernels at some time, so a client can know it.
EverRegistered(k) == pc[k] \in {"store", "done"}

Running(k) == proc[k] = "running"

\* Ports a live kernel listens on: isPortAvailable cannot bind them.
InUse == UNION {{bound[k][i] : i \in DOMAIN bound[k]} :
                  k \in {x \in Kernel : Running(x) /\ bound[x] # Nothing}}

\* os.Process.Kill on a child.  The server never waits for its children, so
\* a dead kernel stays a zombie, its pid is not reused, and killing it again
\* changes nothing.
Kill(k) == proc' = [proc EXCEPT ![k] = IF @ = "running" THEN "exited" ELSE @]

-----------------------------------------------------------------------------
(* POST /api/sessions: CreateSession, startKernelForSession,               *)
(* StartKernelManager, StartKernel, asyncPrestartKernel, preLaunch         *)

Goto(k, next) == pc' = [pc EXCEPT ![k] = next]

CreateArrives(k) ==
  /\ Alive
  /\ pc[k] = "idle"
  /\ Goto(k, "lookup")
  /\ UNCHANGED <<server, ports, tracked, connFile, procVars, active, sessions,
                 call, stopVars>>

\* The request's session id is looked up: a known session is returned as it
\* is; otherwise a kernel manager is made and its ports are looked for.
LookupSession(k) ==
  /\ Alive
  /\ pc[k] = "lookup"
  /\ \/ sessions # {} /\ Goto(k, "reused")
     \/ Goto(k, "ports")
  /\ UNCHANGED <<server, ports, tracked, connFile, procVars, active, sessions,
                 call, stopVars>>

\* Mutant: one findAvailablePort call is forgotten.
GotPort_OneShort(k, p) ==
  /\ ports' = [ports EXCEPT ![k] = Append(@, p)]
  /\ Goto(k, IF Len(ports[k]) + 2 < NChannels THEN "ports" ELSE "write")

\* preLaunch goes on to the connection file after the last port.
GotPort(k, p) ==
  /\ ports' = [ports EXCEPT ![k] = Append(@, p)]
  /\ Goto(k, IF Len(ports[k]) + 1 < NChannels THEN "ports" ELSE "write")

\* Mutant: portExists is not consulted.
FindAvailablePort_Untracked(k) ==
  /\ Alive
  /\ pc[k] = "ports"
  /\ \/ \E p \in Port \ InUse :
          /\ tracked' = tracked \cup {p}
          /\ GotPort(k, p)
     \/ UNCHANGED tracked /\ GotPort(k, NoPort)
  /\ UNCHANGED <<server, connFile, procVars, active, sessions, call, stopVars>>

\* Mutant: the port is appended to currentlyUsedPorts on failure too.
FindAvailablePort_TracksZero(k) ==
  /\ Alive
  /\ pc[k] = "ports"
  /\ \E p \in (Port \ (tracked \cup InUse)) \cup {NoPort} :
       /\ tracked' = tracked \cup {p}
       /\ GotPort(k, p)
  /\ UNCHANGED <<server, connFile, procVars, active, sessions, call, stopVars>>

\* One call, atomic under portMutex: a port that is neither tracked nor
\* bound, or, when 100 random draws hit none, port 0 with an error that
\* preLaunch discards.
FindAvailablePort(k) ==
  /\ Alive
  /\ pc[k] = "ports"
  /\ \/ \E p \in Port \ (tracked \cup InUse) :
          /\ tracked' = tracked \cup {p}
          /\ GotPort(k, p)
     \/ UNCHANGED tracked /\ GotPort(k, NoPort)
  /\ UNCHANGED <<server, connFile, procVars, active, sessions, call, stopVars>>

\* os.Create truncates an older file of that name and the ports are encoded
\* into it.  When the file cannot be created, file.Name() dereferences nil;
\* an encoding error is returned and ignored.
WriteConnectionFile(k) ==
  /\ Alive
  /\ pc[k] = "write"
  /\ \/ /\ \E content \in {ports[k], Broken} :
             connFile' = [connFile EXCEPT ![FileOf[k]] = content]
        /\ Goto(k, "format")
     \/ UNCHANGED connFile /\ Goto(k, "panicked")
  /\ UNCHANGED <<server, ports, tracked, procVars, active, sessions, call,
                 stopVars>>

\* The kernelspec is read again; without one Argv is empty and cmd[0] panics
\* (net/http recovers: the handler is gone, what it claimed stays claimed).
FormatKernelCmd(k) ==
  /\ Alive
  /\ pc[k] = "format"
  /\ Goto(k, "launch") \/ Goto(k, "panicked")
  /\ UNCHANGED <<server, ports, tracked, connFile, procVars, active, sessions,
                 call, stopVars>>

\* Mutant: the error of cmd.Start is swallowed.
LaunchKernel_NoError(k) ==
  /\ Alive
  /\ pc[k] = "launch"
  /\ \/ /\ proc' = [proc EXCEPT ![k] = "running"]
        /\ stdin' = stdin \cup {k}
     \/ UNCHANGED <<proc, stdin>>
  /\ Goto(k, "register")
  /\ UNCHANGED <<server, ports, tracked, connFile, bound, active, sessions,
                 call, stopVars>>

\* cmd.Start succeeds and the stdin goroutine is spawned, or its error goes
\* up to the handler, which replies 500.
LaunchKernel(k) ==
  /\ Alive
  /\ pc[k] = "launch"
  /\ \/ /\ proc' = [proc EXCEPT ![k] = "running"]
        /\ stdin' = stdin \cup {k}
        /\ Goto(k, "register")
     \/ UNCHANGED <<proc, stdin>> /\ Goto(k, "failed")
  /\ UNCHANGED <<server, ports, tracked, connFile, bound, active, sessions,
                 call, stopVars>>

\* ZasperActiveKernels[kernelId] = km
RegisterKernel(k) ==
  /\ Alive
  /\ pc[k] = "register"
  /\ active' = active \cup {k}
  /\ Goto(k, "store")
  /\ UNCHANGED <<server, ports, tracked, connFile, procVars, sessions, call,
                 stopVars>>

\* core.ZasperSession[session_id] = session, and the reply
StoreSession(k) ==
  /\ Alive
  /\ pc[k] = "store"
  /\ sessions' = sessions \cup {k}
  /\ Goto(k, "done")
  /\ UNCHANGED <<server, ports, tracked, connFile, procVars, active, call,
                 stopVars>>

-----------------------------------------------------------------------------
(* The kernel process and the goroutines the launcher leaves behind        *)

\* The process reads the file named on its command line and binds the ports
\* it finds; with an unreadable file it gives up.  It needs no server.
ReadConnectionFile(k) ==
  /\ Running(k)
  /\ bound[k] = Nothing
  /\ IF connFile[FileOf[k]] \in {Broken, Nothing}
       THEN Kill(k) /\ UNCHANGED bound
       ELSE bound' = [bound EXCEPT ![k] = connFile[FileOf[k]]] /\ UNCHANGED proc
  /\ UNCHANGED <<server, launchVars, stdin, active, sessions, call, stopVars>>

\* The kernel exits or crashes on its own.  Nothing in the server notices.
ProcessExit(k) ==
  /\ Running(k)
  /\ Kill(k)
  /\ UNCHANGED <<server, launchVars, bound, stdin, active, sessions, call,
                 stopVars>>

\* The stdin goroutine writes its line; on the closed pipe of a dead process
\* the write fails and log.Fatal ends the whole server, without Cleanup.
StdinWrite(k) ==
  /\ Alive
  /\ k \in stdin
  /\ stdin' = stdin \ {k}
  /\ server' = IF Running(k) THEN server ELSE "crashed"
  /\ UNCHANGED <<launchVars, proc, bound, active, sessions, call, stopVars>>

\* Copying a kernel's output to the server's own stdout or stderr fails:
\* log.Fatal again.
CopyOutputFails(k) ==
  /\ Alive
  /\ Running(k)
  /\ server' = "crashed"
  /\ UNCHANGED <<launchVars, procVars, active, sessions, call, stopVars>>

-----------------------------------------------------------------------------
(* POST /api/kernels/{id}/stop and /interrupt: KillKernelById and          *)
(* interruptKernel                                                         *)

\* A client names a kernel it has been told of, or an id that never was one.
CallArrives(c) ==
  /\ Alive
  /\ call[c].pc = "idle"
  /\ \E op \in {"interrupt", "kill"},
        k \in {x \in Kernel : EverRegistered(x)} \cup {NoKernel} :
       call' = [call EXCEPT ![c] = [@ EXCEPT !.pc = "lookup", !.op = op,
                                             !.id = k]]
  /\ UNCHANGED <<server, launchVars, procVars, active, sessions, stopVars>>

\* Mutant: the manager is looked up in ZasperPendingKernels, always empty.
LookupKernel_Pending(c) ==
  /\ Alive
  /\ call[c].pc = "lookup"
  /\ call' = [call EXCEPT ![c] = [@ EXCEPT !.pc = "signal", !.found = FALSE]]
  /\ UNCHANGED <<server, launchVars, procVars, active, sessions, stopVars>>

\* km := ZasperActiveKernels[kernelId]: the zero value, pid 0, if absent
LookupKernel(c) ==
  /\ Alive
  /\ call[c].pc = "lookup"
  /\ call' = [call EXCEPT ![c] = [@ EXCEPT !.pc = "signal",
                                           !.found = call[c].id \in active]]
  /\ UNCHANGED <<server, launchVars, procVars, active, sessions, stopVars>>

\* Mutant: a kill sends the SIGINT of interruptKernel.
SignalProcess_Interrupt(c) ==
  /\ Alive
  /\ call[c].pc = "signal"
  /\ call' = [call EXCEPT ![c] =
       IF @.op = "interrupt"
         THEN [@ EXCEPT !.pc = "done",
                        !.reply = IF call[c].found THEN "ok" ELSE "error"]
         ELSE [@ EXCEPT !.pc = "delete"]]
  /\ UNCHANGED <<server, launchVars, procVars, active, sessions, stopVars>>

\* The signal goes to the pid that was read.  Signalling pid 0 is an error:
\* interruptKernel replies 500, killKernel only logs it.
SignalProcess(c) ==
  /\ Alive
  /\ call[c].pc = "signal"
  /\ IF call[c].found /\ call[c].op # "interrupt"
       THEN Kill(call[c].id)
       ELSE UNCHANGED proc
  /\ call' = [call EXCEPT ![c] =
       IF @.op = "interrupt"
         THEN [@ EXCEPT !.pc = "done",
                        !.reply = IF call[c].found THEN "ok" ELSE "error"]
         ELSE [@ EXCEPT !.pc = "delete"]]
  /\ UNCHANGED <<server, launchVars, bound, stdin, active, sessions, stopVars>>

\* delete(ZasperActiveKernels, kernelId); KillKernelById returns nil always
DeleteKernel(c) ==
  /\ Alive
  /\ call[c].pc = "delete"
  /\ active' = active \ {call[c].id}
  /\ call' = [call EXCEPT ![c] = [@ EXCEPT !.pc = "done", !.reply = "ok"]]
  /\ UNCHANGED <<server, launchVars, procVars, sessions, stopVars>>

-----------------------------------------------------------------------------
(* The end of the server                                                   *)

\* main receives SIGINT or SIGTERM and enters Cleanup; requests go on.
StopSignal ==
  /\ server = "up"
  /\ server' = "stopping"
  /\ atSignal' = active
  /\ UNCHANGED <<launchVars, procVars, active, sessions, call, swept>>

\* One iteration of Cleanup's range over the map: an entry added meanwhile
\* may be produced or skipped, one removed before it is reached is not.
CleanupKill ==
  /\ server = "stopping"
  /\ \E k \in active \ swept :
       /\ Kill(k)
       /\ swept' = swept \cup {k}
  /\ UNCHANGED <<server, launchVars, bound, stdin, active, sessions, call,
                 atSignal>>

\* Mutant: Cleanup runs in a goroutine main does not wait for.
ServerExit_NoWait ==
  /\ server = "stopping"
  /\ server' = "stopped"
  /\ UNCHANGED <<launchVars, procVars, active, sessions, call, stopVars>>

\* main returns: http.Server.Shutdown is never called, so every handler
\* still running is cut off where it is.
ServerExit ==
  /\ server = "stopping"
  /\ atSignal \cap active \subseteq swept
  /\ server' = "stopped"
  /\ UNCHANGED <<launchVars, procVars, active, sessions, call, stopVars>>

\* Go's runtime throws when a map write overlaps another access to the map:
\* the server ends without Cleanup.
ActiveWriters  == {k \in Kernel : pc[k] = "register"}
                    \cup {c \in Caller : call[c].pc = "delete"}
ActiveReaders  == {c \in Caller : call[c].pc = "lookup"}
                    \cup {r \in {"Cleanup"} : server = "stopping"}
SessionWriters == {k \in Kernel : pc[k] = "store"}
SessionReaders == {k \in Kernel : pc[k] = "lookup"}

Races(writers, readers) ==
  \E w \in writers : (writers \ {w}) \cup readers # {}

MapFault ==
  /\ Alive
  /\ \/ Races(ActiveWriters, ActiveReaders)
     \/ Races(SessionWriters, SessionReaders)
  /\ server' = "crashed"
  /\ UNCHANGED <<launchVars, procVars, active, sessions, call, stopVars>>

-----------------------------------------------------------------------------
Init ==
  /\ server = "up"
  /\ pc = [k \in Kernel |-> "idle"]
  /\ ports = [k \in Kernel |-> <<>>]
  /\ tracked = {}
  /\ connFile = [f \in File |-> Nothing]
  /\ proc = [k \in Kernel |-> "none"]
  /\ bound = [k \in Kernel |-> Nothing]
  /\ stdin = {}
  /\ active = {}
  /\ sessions = {}
  /\ call = [c \in Caller |-> IdleCall]
  /\ atSignal = {}
  /\ swept = {}

CreateStep(k) ==
  \/ CreateArrives(k)
  \/ LookupSession(k)
  \/ FindAvailablePort(k)
  \/ WriteConnectionFile(k)
  \/ FormatKernelCmd(k)
  \/ LaunchKernel(k)
  \/ RegisterKernel(k)
  \/ StoreSession(k)

ProcessStep(k) ==
  \/ ReadConnectionFile(k)
  \/ ProcessExit(k)
  \/ StdinWrite(k)
  \/ CopyOutputFails(k)

\* What the handler goroutine of a call does once the request is there.
CallStep(c) ==
  \/ LookupKernel(c)
  \/ SignalProcess(c)
  \/ DeleteKernel(c)

ServerStep == StopSignal \/ CleanupKill \/ ServerExit \/ MapFault

Next ==
  \/ \E k \in Kernel : CreateStep(k) \/ ProcessStep(k)
  \/ \E c \in Caller : CallArrives(c) \/ CallStep(c)
  \/ ServerStep

Spec == Init /\ [][Next]_vars
-----------------------------------------------------------------------------
(* Properties *)

TypeOK ==
  /\ server \in {"up", "stopping", "stopped", "crashed"}
  /\ pc \in [Kernel -> CreatorPC]
  /\ ports \in [Kernel -> PortList]
  /\ tracked \in SUBSET Port
  /\ connFile \in [File -> PortList \cup {Broken, Nothing}]
  /\ proc \in [Kernel -> {"none", "running", "exited"}]
  /\ bound \in [Kernel -> PortList \cup {Nothing}]
  /\ stdin \in SUBSET Kernel
  /\ active \in SUBSET Kernel
  /\ sessions \in SUBSET Kernel
  /\ call \in [Caller -> Call]
  /\ atSignal \in SUBSET Kernel
  /\ swept \in SUBSET Kernel

\* No port is handed out twice by findAvailablePort, whether to two channels
\* of one kernel or to two kernels whose handlers interleave their searches,
\* although a port is bound only long after it was found free.
PortsDisjoint ==
  \A k, m \in Kernel : \A i \in DOMAIN ports[k], j \in DOMAIN ports[m] :
    (ports[k][i] = ports[m][j] /\ ports[k][i] # NoPort)
      => (k = m /\ i = j)

\* What a kernel process binds is what its manager will dial: all the ports,
\* in order, unless another kernel's id begins with the same six characters.
OwnConnectionInfo ==
  \A k \in Kernel :
    bound[k] # Nothing =>
      \/ bound[k] = ports[k] /\ Len(ports[k]) = NChannels
      \/ \E m \in Kernel \ {k} : FileOf[m] = FileOf[k]

\* KillKernelById drops a kernel from the registry only after its process is
\* gone, whatever other kills, exits and crashes interleave: a registered
\* kernel never becomes a running process that no request can reach.
DroppedKernelsAreDead ==
  \A k \in Kernel : EverRegistered(k) /\ k \notin active => proc[k] = "exited"

\* "Kernel killed successfully" is true of every kernel that ever existed,
\* also when the lookup missed because another request was faster.
KilledMeansDead ==
  \A c \in Caller :
    call[c].op # "interrupt" /\ call[c].reply = "ok" /\ call[c].id # NoKernel
      => proc[call[c].id] = "exited"

\* When main returns, every kernel that was registered when the signal was
\* handled is dead: Cleanup reached it, or a request did before.
CleanupReachesAll ==
  server = "stopped" => \A k \in atSignal : ~Running(k)

\* The registry as KernelRegistry sees it.
Registry == [k \in Kernel |-> IF k \in active THEN "listed"
                              ELSE IF EverRegistered(k) THEN "withdrawn"
                              ELSE "never"]

Abstract == INSTANCE KernelRegistry
              WITH process <- proc, registry <- Registry, opened <- sessions

\* The whole service, with its interleavings, failures and crashes,
\* implements KernelRegistry.
ImplementsRegistry == Abstract!Spec
=============================================================================
