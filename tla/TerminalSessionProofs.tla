----------------------- MODULE TerminalSessionProofs -----------------------
(***************************************************************************)
(* Safety of TerminalSession for every error limit.  The properties follow *)
(* from LifeInv, which ties the handler's place to the shell, the tty, the *)
(* websocket and the two goroutines it waits for.                          *)
(***************************************************************************)
EXTENDS TerminalSession, TLAPS

\* What the handler's place says about the rest.
HandlerInv ==
  /\ handler = "start" => /\ shell = "none" /\ conn = "open" /\ errors = 0
                          /\ keepalive = "none" /\ copier = "none"
  /\ handler = "wait" => /\ shell \in {"running", "exited"} /\ tty = "open"
                         /\ conn # "closed"
                         /\ keepalive # "none" /\ copier # "none"
  /\ handler = "cleanup" => /\ shell \in {"running", "exited"} /\ tty = "open"
                            /\ conn # "closed"
                            /\ keepalive = "done" /\ copier = "done"
  /\ handler = "done" => /\ shell = "reaped"
                         /\ keepalive = "done" /\ copier = "done"
  /\ handler = "failed" => /\ shell = "none"
                           /\ keepalive = "none" /\ copier = "none"

\* When the copier ends or says Bye, and how far it counts.
CopierInv ==
  /\ copier \in {"read", "write", "bye"} => errors <= ErrorLimit
  /\ copier = "bye" => shell # "running"
  /\ copier = "done" => shell # "running" \/ errors > ErrorLimit

\* Nothing is lost while the websocket works, and it works while the client
\* is there.
ConnInv ==
  /\ conn = "open" => errors = 0
  /\ conn = "failed" => client # "there"

LifeInv == TypeOK /\ HandlerInv /\ CopierInv /\ ConnInv

LEMMA LifeInvInit == Init => LifeInv
  <1> SUFFICES ASSUME Init PROVE LifeInv
    OBVIOUS
  <1>1. TypeOK
    <2>1. entry \in BOOLEAN
      BY Zenon DEF Init
    <2>2. errors \in 0..(ErrorLimit + 1) /\ silent \in 0..2
      BY LimitAssumption, SMT DEF Init
    <2> QED
      BY <2>1, <2>2, Zenon DEF Init, TypeOK
  <1>2. HandlerInv
    BY DEF Init, HandlerInv
  <1>3. CopierInv /\ ConnInv
    BY DEF Init, CopierInv, ConnInv
  <1> QED
    BY <1>1, <1>2, <1>3 DEF LifeInv

\* Every action keeps LifeInv.
LEMMA LifeInvStep == LifeInv /\ [Next]_vars => LifeInv'
  <1> SUFFICES ASSUME LifeInv, [Next]_vars PROVE LifeInv'
    OBVIOUS
  <1> USE LimitAssumption DEF LifeInv, TypeOK, HandlerInv, CopierInv, ConnInv,
                              ttyVars, Up
  <1>1. CASE StartTTY
    BY <1>1 DEF StartTTY
  <1>2. CASE StartTTYFails
    BY <1>2 DEF StartTTYFails
  <1>3. CASE Wait
    BY <1>3 DEF Wait
  <1>4. CASE CleanupTTY
    BY <1>4 DEF CleanupTTY
  <1>5. CASE KeepAlivePing
    BY <1>5 DEF KeepAlivePing, WriteSucceeds, WriteFails
  <1>6. CASE KeepAliveWake
    BY <1>6 DEF KeepAliveWake
  <1>7. CASE KeepAliveCheck
    BY <1>7 DEF KeepAliveCheck
  <1>8. CASE CopyRead
    BY <1>8 DEF CopyRead
  <1>9. CASE CopyReadFails
    BY <1>9 DEF CopyReadFails
  <1>10. CASE CopyWrite
    BY <1>10 DEF CopyWrite, WriteSucceeds, WriteFails
  <1>11. CASE CopyBye
    BY <1>11 DEF CopyBye, WriteSucceeds, WriteFails
  <1>12. CASE Feeder
    BY <1>12 DEF Feeder, FeedPong, FeedRead, FeedEmptyMessage, FeedWrite,
              FeedReadFails
  <1>13. CASE ConcurrentWrite
    BY <1>13 DEF ConcurrentWrite
  <1>14. CASE ShellExits
    BY <1>14 DEF ShellExits
  <1>15. CASE ClientGoes
    BY <1>15 DEF ClientGoes
  <1>16. CASE UNCHANGED vars
    BY <1>16 DEF vars
  <1> QED
    BY <1>1, <1>2, <1>3, <1>4, <1>5, <1>6, <1>7, <1>8, <1>9, <1>10, <1>11,
       <1>12, <1>13, <1>14, <1>15, <1>16
    DEF Next, Handler, KeepAlive, Copier

LEMMA LifeInvariant == Spec => []LifeInv
  BY LifeInvInit, LifeInvStep, PTL DEF Spec

\* The handler of a terminal's websocket and its goroutines keep their types,
\* and the count of lost outputs its bound, for any ErrorLimit.
THEOREM TypeCorrect == Spec => []TypeOK
  <1>1. LifeInv => TypeOK
    BY DEF LifeInv
  <1> QED
    BY <1>1, LifeInvariant, PTL

\* cleanupTTY closes the tty and the websocket only after the goroutines it
\* waits for have ended.
THEOREM TtyStaysOpen == Spec => []TtyOpenWhileUsed
  <1>1. LifeInv => TtyOpenWhileUsed
    BY DEF LifeInv, TypeOK, HandlerInv, TtyOpenWhileUsed
  <1> QED
    BY <1>1, LifeInvariant, PTL

\* A running shell is killed only when pinging has ended, more than
\* ErrorLimit outputs were lost and the client has gone.
THEOREM ShellIsKeptAlive == Spec => RunningShellKeptAlive
  <1>1. LifeInv /\ [Next]_vars =>
          [shell = "running" /\ shell' = "reaped"
             => errors > ErrorLimit /\ keepalive = "done" /\ client # "there"]_vars
    <2> SUFFICES ASSUME LifeInv, [Next]_vars,
                        shell = "running", shell' = "reaped"
                 PROVE  errors > ErrorLimit /\ keepalive = "done"
                          /\ client # "there"
      OBVIOUS
    <2>1. CleanupTTY
      BY DEF Next, vars, ttyVars, Handler, KeepAlive, Copier, Feeder, StartTTY,
             StartTTYFails, Wait, KeepAlivePing, KeepAliveWake, KeepAliveCheck,
             CopyRead, CopyReadFails, CopyWrite, CopyBye, FeedPong, FeedRead,
             FeedEmptyMessage, FeedWrite, FeedReadFails, ConcurrentWrite, ShellExits, ClientGoes
    <2>2. errors > ErrorLimit /\ keepalive = "done" /\ conn # "closed"
      BY <2>1 DEF CleanupTTY, LifeInv, HandlerInv, CopierInv
    <2>3. conn # "open"
      BY <2>2, LimitAssumption DEF LifeInv, ConnInv
    <2> QED
      BY <2>2, <2>3 DEF LifeInv, TypeOK, ConnInv
  <1> QED
    BY <1>1, LifeInvariant, PTL DEF Spec, RunningShellKeptAlive
=============================================================================
