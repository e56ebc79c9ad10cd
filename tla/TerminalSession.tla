-------------------------- MODULE TerminalSession --------------------------
(***************************************************************************)
(* A terminal in the browser: one websocket and the shell behind it        *)
(* (internal/websocket/terminal_websocket_handler.go).  The handler starts *)
(* the shell on a pseudo-terminal and waits for two goroutines, the one    *)
(* that pings the client (keepalive) and the one that copies the shell's   *)
(* output to the websocket (copier); then it kills and reaps the shell.    *)
(* A third goroutine feeds what the client sends to the shell (feeder);    *)
(* nobody waits for it.  Pongs are handled inside the feeder's reads.      *)
(***************************************************************************)
EXTENDS Naturals

CONSTANT ErrorLimit     \* DefaultConnectionErrorLimit

ASSUME LimitAssumption == ErrorLimit \in Nat

VARIABLES
  handler,    \* "start", "wait", "cleanup", "done", "failed"
  shell,      \* "none", "running", "exited", "reaped"
  tty,        \* "closed" or "open": the server's end of the pseudo-terminal
  entry,      \* the session is in terminalSessions
  keepalive,  \* "none", "write", "sleep", "check", "done"
  silent,     \* checks since the last pong, up to 2
  copier,     \* "none", "read", "write", "bye", "done"
  errors,     \* errorCounter
  feeder,     \* "none", "read", "write", "done"
  conn,       \* "open", "failed" (a write has failed), "closed" by the server
  client,     \* "there", "closed" its side, or "vanished" without a word
  server      \* "up" or "crashed"

ttyVars == <<shell, tty, entry>>
vars == <<handler, ttyVars, keepalive, silent, copier, errors, feeder, conn,
          client, server>>

Up == server = "up"

-----------------------------------------------------------------------------
(* HandleTerminalWebSocket, after the upgrade *)

\* startTTY succeeds and the three goroutines start; the copier begins with
\* a read, the keepalive with a ping.
StartTTY ==
  /\ Up
  /\ handler = "start"
  /\ handler' = "wait"
  /\ shell' = "running"
  /\ tty' = "open"
  /\ entry' = TRUE
  /\ keepalive' = "write"
  /\ copier' = "read"
  /\ feeder' = "read"
  /\ UNCHANGED <<silent, errors, conn, client, server>>

\* startTTY fails: the client is told and the websocket closed.
StartTTYFails ==
  /\ Up
  /\ handler = "start"
  /\ handler' = "failed"
  /\ conn' = "closed"
  /\ UNCHANGED <<ttyVars, keepalive, silent, copier, errors, feeder, client,
                 server>>

\* Mutant: waiter.Add(1).
Wait_One ==
  /\ Up
  /\ handler = "wait"
  /\ keepalive = "done" \/ copier = "done"
  /\ handler' = "cleanup"
  /\ UNCHANGED <<ttyVars, keepalive, silent, copier, errors, feeder, conn,
                 client, server>>

\* Mutant: the handler waits for the feeder too.
Wait_ForFeeder ==
  /\ Up
  /\ handler = "wait"
  /\ keepalive = "done" /\ copier = "done" /\ feeder = "done"
  /\ handler' = "cleanup"
  /\ UNCHANGED <<ttyVars, keepalive, silent, copier, errors, feeder, conn,
                 client, server>>

\* waiter.Wait() returns.
Wait ==
  /\ Up
  /\ handler = "wait"
  /\ keepalive = "done" /\ copier = "done"
  /\ handler' = "cleanup"
  /\ UNCHANGED <<ttyVars, keepalive, silent, copier, errors, feeder, conn,
                 client, server>>

\* cleanupTTY: unmap, kill, reap, close the tty and the websocket.
CleanupTTY ==
  /\ Up
  /\ handler = "cleanup"
  /\ handler' = "done"
  /\ entry' = FALSE
  /\ shell' = "reaped"
  /\ tty' = "closed"
  /\ conn' = "closed"
  /\ UNCHANGED <<keepalive, silent, copier, errors, feeder, client, server>>

-----------------------------------------------------------------------------
(* Writes to the websocket *)

\* What became of a write.  To a client that has gone it may still succeed,
\* into the socket's buffer; after one that failed all fail.
WriteSucceeds == conn = "open" /\ UNCHANGED conn
WriteFails ==
  \/ conn # "open" /\ UNCHANGED conn
  \/ conn = "open" /\ client # "there" /\ conn' = "failed"

\* Keepalive and copier write without a lock.  The websocket library panics
\* when it sees two writes overlap, which ends the server; it may also not
\* see it.
ConcurrentWrite ==
  /\ Up
  /\ keepalive = "write" /\ copier \in {"write", "bye"}
  /\ server' = "crashed"
  /\ UNCHANGED <<handler, ttyVars, keepalive, silent, copier, errors, feeder,
                 conn, client>>

-----------------------------------------------------------------------------
(* setupKeepAlive: ping, sleep ten seconds, check that the last pong is    *)
(* not older than twenty                                                   *)

KeepAlivePing ==
  /\ Up
  /\ keepalive = "write"
  /\ \/ WriteSucceeds /\ keepalive' = "sleep"
     \/ WriteFails /\ keepalive' = "done"
  /\ UNCHANGED <<handler, ttyVars, silent, copier, errors, feeder, client,
                 server>>

KeepAliveWake ==
  /\ Up
  /\ keepalive = "sleep"
  /\ keepalive' = "check"
  /\ UNCHANGED <<handler, ttyVars, silent, copier, errors, feeder, conn, client,
                 server>>

\* Mutant: lastPongTime is set by the check.
KeepAliveCheck_Resets ==
  /\ Up
  /\ keepalive = "check"
  /\ silent' = 0
  /\ keepalive' = "write"
  /\ UNCHANGED <<handler, ttyVars, copier, errors, feeder, conn, client, server>>

\* A pong during this sleep is at most ten seconds old, one during the last
\* about twenty, which may be just too old; an earlier one is too old.  (The
\* time a ping takes to write is neglected.)
KeepAliveCheck ==
  /\ Up
  /\ keepalive = "check"
  /\ \/ silent < 2 /\ keepalive' = "write" /\ silent' = silent + 1
     \/ silent > 0 /\ keepalive' = "done" /\ UNCHANGED silent
  /\ UNCHANGED <<handler, ttyVars, copier, errors, feeder, conn, client, server>>

-----------------------------------------------------------------------------
(* readFromTTY *)

\* The shell has written something;
CopyRead ==
  /\ Up
  /\ copier = "read"
  /\ shell = "running"
  /\ copier' = "write"
  /\ UNCHANGED <<handler, ttyVars, keepalive, silent, errors, feeder, conn,
                 client, server>>

\* reading fails once the shell has exited and its output is consumed.
CopyReadFails ==
  /\ Up
  /\ copier = "read"
  /\ shell \in {"exited", "reaped"}
  /\ copier' = "bye"
  /\ UNCHANGED <<handler, ttyVars, keepalive, silent, errors, feeder, conn,
                 client, server>>

\* Mutant: the loop ends at the first write that fails.
CopyWrite_FirstError ==
  /\ Up
  /\ copier = "write"
  /\ \/ /\ WriteSucceeds
        /\ errors' = 0
        /\ copier' = "read"
     \/ /\ WriteFails
        /\ errors' = errors + 1
        /\ copier' = "done"
  /\ UNCHANGED <<handler, ttyVars, keepalive, silent, feeder, client, server>>

\* Mutant: the counter is compared before it is incremented.
CopyWrite_OffByOne ==
  /\ Up
  /\ copier = "write"
  /\ \/ /\ WriteSucceeds
        /\ errors' = 0
        /\ copier' = "read"
     \/ /\ WriteFails
        /\ errors' = errors + 1
        /\ copier' = IF errors > ErrorLimit THEN "done" ELSE "read"
  /\ UNCHANGED <<handler, ttyVars, keepalive, silent, feeder, client, server>>

\* The output goes to the websocket, or is lost; the loop ends when more than
\* ErrorLimit outputs in a row were lost.
CopyWrite ==
  /\ Up
  /\ copier = "write"
  /\ \/ /\ WriteSucceeds
        /\ errors' = 0
        /\ copier' = "read"
     \/ /\ WriteFails
        /\ errors' = errors + 1
        /\ copier' = IF errors' > ErrorLimit THEN "done" ELSE "read"
  /\ UNCHANGED <<handler, ttyVars, keepalive, silent, feeder, client, server>>

\* "Bye!"; whether it arrives is only logged.
CopyBye ==
  /\ Up
  /\ copier = "bye"
  /\ WriteSucceeds \/ WriteFails
  /\ copier' = "done"
  /\ UNCHANGED <<handler, ttyVars, keepalive, silent, errors, feeder, client,
                 server>>

-----------------------------------------------------------------------------
(* writeToTTY *)

\* A pong is consumed by the read, which goes on.
FeedPong ==
  /\ Up
  /\ feeder = "read"
  /\ client = "there" /\ conn # "closed"
  /\ silent' = 0
  /\ UNCHANGED <<handler, ttyVars, keepalive, copier, errors, feeder, conn,
                 client, server>>

\* A message for the shell; a resize message goes to the tty and is done
\* with, as far as this model is concerned.
FeedRead ==
  /\ Up
  /\ feeder = "read"
  /\ client = "there" /\ conn # "closed"
  /\ feeder' = "write"
  /\ UNCHANGED <<handler, ttyVars, keepalive, silent, copier, errors, conn,
                 client, server>>

\* A binary message of zeros only: dataBuffer[0] panics, in a goroutine
\* nobody recovers, and the server ends.
FeedEmptyMessage ==
  /\ Up
  /\ feeder = "read"
  /\ client = "there" /\ conn # "closed"
  /\ server' = "crashed"
  /\ UNCHANGED <<handler, ttyVars, keepalive, silent, copier, errors, feeder,
                 conn, client>>

\* tty.Write returns; it blocks while the shell does not read, and then no
\* pong is seen.  Its error is only logged.
FeedWrite ==
  /\ Up
  /\ feeder = "write"
  /\ feeder' = "read"
  /\ UNCHANGED <<handler, ttyVars, keepalive, silent, copier, errors, conn,
                 client, server>>

\* The read fails once the websocket is closed; of a client that vanished
\* the operating system may never hear.
FeedReadFails ==
  /\ Up
  /\ feeder = "read"
  /\ client # "there" \/ conn = "closed"
  /\ feeder' = "done"
  /\ UNCHANGED <<handler, ttyVars, keepalive, silent, copier, errors, conn,
                 client, server>>

-----------------------------------------------------------------------------
(* The outside world *)

ShellExits ==
  /\ shell = "running"
  /\ shell' = "exited"
  /\ UNCHANGED <<handler, tty, entry, keepalive, silent, copier, errors, feeder,
                 conn, client, server>>

\* The client goes, when what it sent before has been read.
ClientGoes ==
  /\ client = "there"
  /\ client' \in {"closed", "vanished"}
  /\ UNCHANGED <<handler, ttyVars, keepalive, silent, copier, errors, feeder,
                 conn, server>>

-----------------------------------------------------------------------------
Init ==
  /\ handler = "start"
  /\ shell = "none" /\ tty = "closed" /\ entry = FALSE
  /\ keepalive = "none" /\ silent = 0
  /\ copier = "none" /\ errors = 0
  /\ feeder = "none"
  /\ conn = "open" /\ client = "there" /\ server = "up"

Handler   == StartTTY \/ StartTTYFails \/ Wait \/ CleanupTTY
KeepAlive == KeepAlivePing \/ KeepAliveWake \/ KeepAliveCheck
Copier    == CopyReadFails \/ CopyWrite \/ CopyBye
Feeder    == FeedPong \/ FeedRead \/ FeedEmptyMessage \/ FeedWrite \/ FeedReadFails

Next ==
  \/ Handler
  \/ KeepAlive
  \/ CopyRead \/ Copier
  \/ Feeder
  \/ ConcurrentWrite
  \/ ShellExits \/ ClientGoes

Spec == Init /\ [][Next]_vars

\* Go runs what can run.  The shell need not write or read, and the client
\* need not answer, so CopyRead and the feeder have no fairness.
Fairness == WF_vars(Handler) /\ WF_vars(KeepAlive) /\ WF_vars(Copier)

FairSpec == Spec /\ Fairness

-----------------------------------------------------------------------------
(* Properties *)

TypeOK ==
  /\ handler \in {"start", "wait", "cleanup", "done", "failed"}
  /\ shell \in {"none", "running", "exited", "reaped"}
  /\ tty \in {"closed", "open"} /\ entry \in BOOLEAN
  /\ keepalive \in {"none", "write", "sleep", "check", "done"}
  /\ silent \in 0..2
  /\ copier \in {"none", "read", "write", "bye", "done"}
  /\ errors \in 0..(ErrorLimit + 1)
  /\ feeder \in {"none", "read", "write", "done"}
  /\ conn \in {"open", "failed", "closed"}
  /\ client \in {"there", "closed", "vanished"}
  /\ server \in {"up", "crashed"}

\* The pseudo-terminal is not closed under the goroutine that reads from it
\* or under a ping in flight: cleanup waits for both.
TtyOpenWhileUsed ==
  copier \in {"read", "write", "bye"} \/ keepalive \in {"write", "sleep", "check"}
    => tty = "open" /\ conn # "closed"

\* A shell that still runs is killed only when the client can no longer be
\* reached: pinging has ended and more than ErrorLimit outputs in a row were
\* lost.  A silent client alone, or a few lost outputs, never kill it.
RunningShellKeptAlive ==
  [][shell = "running" /\ shell' = "reaped"
       => errors > ErrorLimit /\ keepalive = "done" /\ client # "there"]_vars

\* A client that has gone, with or without a word, is noticed, unless the
\* server crashes; the writes to it may all have succeeded.
DeadClientNoticed ==
  (handler = "wait" /\ client # "there") ~> (keepalive = "done" \/ ~Up)

\* Once the client has gone and the shell has exited the session ends, the
\* shell is reaped and the entry removed, also when the feeder still waits
\* for a client that vanished or for a write to the tty.
SessionEnds ==
  (handler = "wait" /\ client # "there" /\ shell = "exited") ~>
    ((shell = "reaped" /\ ~entry) \/ ~Up)
=============================================================================
