------------------------- MODULE KernelConnections -------------------------
(***************************************************************************)
(* The registry of kernel websocket connections, on top of KernelService:  *)
(*                                                                         *)
(*   GET    /ws/kernels/{id}/channels   HandleWebSocket                    *)
(*   DELETE /ws/kernels/{id}            KernelDeleteAPIHandler             *)
(*                                                                         *)
(* (internal/websocket/kernel_websocket_handler.go).  A connection is one  *)
(* websocket of one client to one kernel; its goroutines are the subject   *)
(* of KernelChannels, here only whether they poll and whether their        *)
(* context was cancelled matters.                                          *)
(***************************************************************************)
EXTENDS KernelService

CONSTANTS
  Conn,       \* HandleWebSocket handlers, and the connections they make
  NoConn      \* no entry in ZasperActiveKernelConnections

ASSUME ConnAssumption == NoConn \notin Conn

VARIABLES
  ws,         \* where each connection is, and the kernel it is for
  cancelled,  \* connections whose PollingCancel was called
  registry    \* ZasperActiveKernelConnections: kernel id -> connection

connVars == <<ws, cancelled, registry>>
allVars  == <<vars, connVars>>

WsPC == {"idle", "session", "kernel", "connect", "register", "live", "left",
         "rejected"}
Ws   == [pc : WsPC, id : Kernel \cup {NoKernel},
         sess : Kernel \cup {NoKernel}]

Known == {k \in Kernel : EverRegistered(k)}

WsGoto(w, next) == ws' = [ws EXCEPT ![w].pc = next]

-----------------------------------------------------------------------------
(* HandleWebSocket *)

\* A client opens a websocket for a kernel id and a session id; nothing
\* relates the two.
WsArrives(w) ==
  /\ Alive
  /\ ws[w].pc = "idle"
  /\ \E k \in Known \cup {NoKernel}, s \in sessions \cup {NoKernel} :
       ws' = [ws EXCEPT ![w] = [pc |-> "session", id |-> k, sess |-> s]]
  /\ UNCHANGED <<vars, cancelled, registry>>

\* core.ZasperSession[sessionId]: 404 if absent
WsCheckSession(w) ==
  /\ Alive
  /\ ws[w].pc = "session"
  /\ WsGoto(w, IF ws[w].sess \in sessions THEN "kernel" ELSE "rejected")
  /\ UNCHANGED <<vars, cancelled, registry>>

\* kernel.ZasperActiveKernels[kernelId]: 404 if absent.  The manager is
\* copied into the connection; the upgrade may fail if the client has gone.
WsCheckKernel(w) ==
  /\ Alive
  /\ ws[w].pc = "kernel"
  /\ \/ ws[w].id \in active /\ WsGoto(w, "connect")
     \/ WsGoto(w, "rejected")
  /\ UNCHANGED <<vars, cancelled, registry>>

\* Prepare and Connect: the sockets are dialled, the kernel is nudged for up
\* to two seconds, and the four pollers start.
WsConnect(w) ==
  /\ Alive
  /\ ws[w].pc = "connect"
  /\ WsGoto(w, "register")
  /\ UNCHANGED <<vars, cancelled, registry>>

\* Mutant: the connection is stored under the session's id.
WsRegister_BySession(w) ==
  /\ Alive
  /\ ws[w].pc = "register"
  /\ registry' = [registry EXCEPT ![ws[w].sess] = w]
  /\ WsGoto(w, "live")
  /\ UNCHANGED <<vars, cancelled>>

\* Under clientsMu the connection is stored, over any earlier one of the same
\* kernel; then its reader and writer start.
WsRegister(w) ==
  /\ Alive
  /\ ws[w].pc = "register"
  /\ registry' = [registry EXCEPT ![ws[w].id] = w]
  /\ WsGoto(w, "live")
  /\ UNCHANGED <<vars, cancelled>>

\* The client closes its side: the reader closes the websocket and ends.
\* The registry keeps the entry, and the pollers their context.
WsClientLeaves(w) ==
  /\ Alive
  /\ ws[w].pc = "live"
  /\ WsGoto(w, "left")
  /\ UNCHANGED <<vars, cancelled, registry>>

-----------------------------------------------------------------------------
(* KernelDeleteAPIHandler: three steps of its own, then KillKernelById     *)

DeleteArrives(c) ==
  /\ Alive
  /\ call[c].pc = "idle"
  /\ \E k \in Known \cup {NoKernel} :
       call' = [call EXCEPT ![c] = [@ EXCEPT !.pc = "cancel", !.op = "delete",
                                             !.id = k]]
  /\ UNCHANGED <<server, launchVars, procVars, active, sessions, stopVars,
                 connVars>>

Registered(k) == IF k \in Kernel THEN registry[k] ELSE NoConn

\* Mutant: no nil check, and the cancel function of nothing is called.
CancelPolling_OfNil(c) ==
  /\ Alive
  /\ call[c].pc = "cancel"
  /\ call' = [call EXCEPT ![c].pc = "unregister"]
  /\ cancelled' = cancelled \cup {Registered(call[c].id)}
  /\ UNCHANGED <<server, launchVars, procVars, active, sessions, stopVars, ws,
                 registry>>

\* Mutant: without a connection the handler skips the cancel and goes on.
CancelPolling_Skip(c) ==
  /\ Alive
  /\ call[c].pc = "cancel"
  /\ call[c].id \in Kernel
  /\ call' = [call EXCEPT ![c].pc = "unregister"]
  /\ cancelled' = cancelled \cup ({Registered(call[c].id)} \ {NoConn})
  /\ UNCHANGED <<server, launchVars, procVars, active, sessions, stopVars, ws,
                 registry>>

\* The connection is read without clientsMu; without one, calling
\* PollingCancel on nil panics and the request dies, the kernel untouched.
CancelPolling(c) ==
  /\ Alive
  /\ call[c].pc = "cancel"
  /\ IF Registered(call[c].id) = NoConn
       THEN /\ call' = [call EXCEPT ![c].pc = "panicked"]
            /\ UNCHANGED cancelled
       ELSE /\ call' = [call EXCEPT ![c].pc = "unregister"]
            /\ cancelled' = cancelled \cup {Registered(call[c].id)}
  /\ UNCHANGED <<server, launchVars, procVars, active, sessions, stopVars, ws,
                 registry>>

\* Mutant: the handler replies once the connection is gone, without the kill.
UnregisterConn_NoKill(c) ==
  /\ Alive
  /\ call[c].pc = "unregister"
  /\ registry' = [registry EXCEPT ![call[c].id] = NoConn]
  /\ call' = [call EXCEPT ![c].pc = "done"]
  /\ UNCHANGED <<server, launchVars, procVars, active, sessions, stopVars, ws,
                 cancelled>>

\* Under clientsMu the kernel's entry is deleted, whichever connection it
\* holds by now; KillKernelById follows.
UnregisterConn(c) ==
  /\ Alive
  /\ call[c].pc = "unregister"
  /\ registry' = [registry EXCEPT ![call[c].id] = NoConn]
  /\ call' = [call EXCEPT ![c].pc = "lookup"]
  /\ UNCHANGED <<server, launchVars, procVars, active, sessions, stopVars, ws,
                 cancelled>>

\* The unguarded read of the connection map overlaps a write: a fatal error
\* of the Go runtime.  HandleWebSocket's reads of the other two maps may
\* overlap their writes as well.
ConnMapFault ==
  /\ Alive
  /\ \/ /\ \E c \in Caller : call[c].pc = "cancel"
        /\ \/ \E w \in Conn : ws[w].pc = "register"
           \/ \E c \in Caller : call[c].pc = "unregister"
     \/ (\E w \in Conn : ws[w].pc = "session") /\ SessionWriters # {}
     \/ (\E w \in Conn : ws[w].pc = "kernel") /\ ActiveWriters # {}
  /\ server' = "crashed"
  /\ UNCHANGED <<launchVars, procVars, active, sessions, call, stopVars,
                 connVars>>

-----------------------------------------------------------------------------
ConnInit ==
  /\ Init
  /\ ws = [w \in Conn |-> [pc |-> "idle", id |-> NoKernel, sess |-> NoKernel]]
  /\ cancelled = {}
  /\ registry = [k \in Kernel |-> NoConn]

WsStep(w) ==
  \/ WsCheckSession(w)
  \/ WsCheckKernel(w)
  \/ WsConnect(w)
  \/ WsRegister(w)

DeleteStep(c) == CancelPolling(c) \/ UnregisterConn(c)

ConnNext ==
  \/ Next /\ UNCHANGED connVars
  \/ \E w \in Conn : WsArrives(w) \/ WsStep(w) \/ WsClientLeaves(w)
  \/ \E c \in Caller : DeleteArrives(c) \/ DeleteStep(c)
  \/ ConnMapFault

ConnSpec == ConnInit /\ [][ConnNext]_allVars

\* net/http's goroutines and Go's scheduler let a handler that can go on do
\* so; clients need not send anything.
ConnFairness ==
  \A c \in Caller : WF_allVars(CallStep(c) /\ UNCHANGED connVars)
                      /\ WF_allVars(DeleteStep(c))

-----------------------------------------------------------------------------
(* Properties *)

ConnTypeOK ==
  /\ TypeOK
  /\ ws \in [Conn -> Ws]
  /\ cancelled \in SUBSET Conn
  /\ registry \in [Kernel -> Conn \cup {NoConn}]

Polls(w) == ws[w].pc \in {"live", "left"} /\ w \notin cancelled

\* PollingCancel of a connection is called only by a DELETE request for the
\* kernel the connection was opened for, although the connection was opened
\* with an unrelated session id and the map is read outside its lock.
CancelledByOwnDelete ==
  \A w \in cancelled : \E c \in Caller :
    call[c].op = "delete" /\ call[c].id = ws[w].id /\ call[c].pc # "cancel"

\* A polling connection that DELETE can no longer find is never its kernel's
\* only one: it was replaced by a later connection, or it came while a DELETE
\* was between cancelling an earlier one and removing the entry.
SoleConnectionReachable ==
  \A w \in Conn : Polls(w) /\ registry[ws[w].id] # w =>
    \E v \in Conn \ {w} : ws[v].id = ws[w].id /\ ws[v].pc \in {"live", "left"}

\* Once a DELETE has cancelled a connection's polling, the connection's
\* kernel process ends, unless the server does.
CancelledKernelDies ==
  \A w \in Conn : w \in cancelled ~>
    (~Alive \/ \E k \in Kernel : k = ws[w].id /\ proc[k] = "exited")
=============================================================================
