--------------------------- MODULE NotebookSession ---------------------------
(***************************************************************************)
(* The kernels of one notebook, as the client sees them: the session and   *)
(* the websocket that NotebookEditor.tsx works with, the two atoms in      *)
(* which the whole client keeps its kernels (kernelsAtom, which            *)
(* JupyterInfoPanel.tsx lists, and notebookKernelMapAtom, which            *)
(* TabIndex.tsx closes by), and the kernels that run on the server.        *)
(*                                                                         *)
(* A DELETE of a kernel or of a session under /api reaches no handler      *)
(* (app.go:171-179): the catch-all route answers it with the start page    *)
(* and status 202 (spa.go:28-37), so that the client takes it as done and  *)
(* nothing has happened.                                                   *)
(*                                                                         *)
(* Every start makes a session and a kernel of its own (the client sends   *)
(* no session id), which share the number of the start.  What the kernels  *)
(* answer to the cells is the subject of NotebookCells; the kernel's       *)
(* status is display only.                                                 *)
(***************************************************************************)
EXTENDS Naturals

CONSTANTS
  KernelSpec,      \* names of kernelspecs
  None,       \* the kernelspec 'none'
  MaxOps,     \* bound on the starts and reconnects
  MaxMounts   \* bound on how often the notebook is opened

ASSUME SessionAssumption ==
  None \notin KernelSpec /\ MaxOps \in Nat /\ MaxMounts \in Nat

Op == 1..MaxOps

VARIABLES
  mounted,      \* the notebook's tab is open
  mount,        \* how often it was opened
  kernelName,
  session,      \* the number of the session, 0 for none
  client,       \* the kernel the websocket client is connected to, or 0
  connected,    \* its readyState is OPEN
  showKernelSwitcher,
  showErrorDialog,
  ops,          \* what startASession and reConnectKernel have under way
  begun,        \* how many of them there are
  running,      \* kernels that run on the server
  kernels,      \* kernelsAtom
  mapped,       \* notebookKernelMap[path], 0 for none
  overlap,      \* history: in this mount one began while another went on
  dropped,      \* history: kernels the user had taken off the list
  sent          \* history: the requests that were sent to a kernel

editorVars == <<kernelName, session, client, connected, showKernelSwitcher,
                showErrorDialog>>
atomVars == <<kernels, mapped, dropped>>
vars == <<mounted, mount, editorVars, ops, begun, running, atomVars, overlap,
          sent>>

\* runs: whether the cells are run when it is done; asks: whether the kernel
\* switcher is shown when it fails.
Idle == [at |-> "idle", kernel |-> 0, name |-> None, mount |-> 0,
         runs |-> FALSE, asks |-> FALSE]

Pending == {"deleting", "posting", "answering", "opening", "executing"}
OpRecord == [at : Pending \cup {"idle", "done", "failed", "unopened"},
             kernel : 0..MaxOps, name : KernelSpec \cup {None},
             mount : 0..MaxMounts, runs : BOOLEAN, asks : BOOLEAN]

\* The editor that began o is still there.
Live(o) == mounted /\ ops[o].mount = mount

UnderWay(o) == ops[o].at \in Pending

\* A new operation of the mount m.
Begin(at, kernel, name, runs, asks, m) ==
  /\ begun < MaxOps
  /\ begun' = begun + 1
  /\ ops' = [ops EXCEPT ![begun + 1] =
               [at |-> at, kernel |-> kernel, name |-> name, mount |-> m,
                runs |-> runs, asks |-> asks]]
  /\ overlap' = \/ overlap /\ m = mount
                \/ \E o \in Op : UnderWay(o) /\ ops[o].mount = m

-----------------------------------------------------------------------------
(* startASession.                                                          *)

\* The server makes the session and starts its kernel.
PostServed(o) ==
  /\ ops[o].at = "posting"
  /\ running' = running \cup {ops[o].kernel}
  /\ ops' = [ops EXCEPT ![o].at = "answering"]
  /\ UNCHANGED <<mounted, mount, editorVars, begun, atomVars, overlap, sent>>

\* Mutant: the atom is replaced instead of extended.
Answered_Replaces(o) ==
  /\ ops[o].at = "answering"
  /\ session' = IF Live(o) THEN ops[o].kernel ELSE session
  /\ kernels' = {ops[o].kernel}
  /\ mapped' = ops[o].kernel
  /\ ops' = [ops EXCEPT ![o].at = "opening"]
  /\ UNCHANGED <<mounted, mount, kernelName, client, connected,
                 showKernelSwitcher, showErrorDialog, begun, running, overlap,
                 dropped, sent>>

\* The session is set before its websocket is opened.  The atoms are set even
\* if the tab was closed in the meantime.
Answered(o) ==
  /\ ops[o].at = "answering"
  /\ session' = IF Live(o) THEN ops[o].kernel ELSE session
  /\ kernels' = kernels \cup {ops[o].kernel}
  /\ mapped' = ops[o].kernel
  /\ ops' = [ops EXCEPT ![o].at = "opening"]
  /\ UNCHANGED <<mounted, mount, kernelName, client, connected,
                 showKernelSwitcher, showErrorDialog, begun, running, overlap,
                 dropped, sent>>

\* A request on the connection to a kernel, with the session's id; by is the
\* operation that made it, or 0.  muddled: whether session and client may
\* be those of different kernels, see RequestsOwnSession.
Request(s, k, by, muddled) ==
  [session |-> s, kernel |-> k, by |-> by, muddled |-> muddled]

Muddled == \/ overlap
           \/ session # 0 /\ ops[session].at \in {"opening", "unopened"}

\* Mutant: an open client is kept.
SocketOpens_KeepsOpen(o) ==
  /\ ops[o].at = "opening"
  /\ ops' = [ops EXCEPT ![o].at = "done"]
  /\ IF Live(o)
       THEN /\ client' = IF connected THEN client ELSE ops[o].kernel
            /\ connected' = TRUE
       ELSE UNCHANGED <<client, connected>>
  /\ UNCHANGED <<mounted, mount, kernelName, session, showKernelSwitcher,
                 showErrorDialog, begun, running, atomVars, overlap, sent>>

\* The websocket is open and becomes the client.  The client before it stays
\* open.  restartAndExecuteAllCells sets executeAllCellsFlag.
SocketOpens(o) ==
  /\ ops[o].at = "opening"
  /\ ops' = [ops EXCEPT ![o].at = IF ops[o].runs /\ Live(o) THEN "executing"
                                  ELSE "done"]
  /\ IF Live(o) THEN client' = ops[o].kernel /\ connected' = TRUE
     ELSE UNCHANGED <<client, connected>>
  /\ UNCHANGED <<mounted, mount, kernelName, session, showKernelSwitcher,
                 showErrorDialog, begun, running, atomVars, overlap, sent>>

\* The effect of executeAllCellsFlag, after the next render: the cells are run
\* with the session and the client of that render.
SubmitAllCells(o) ==
  /\ ops[o].at = "executing"
  /\ ops' = [ops EXCEPT ![o].at = "done"]
  /\ sent' = IF Live(o) /\ connected
               THEN sent \cup {Request(session, client, o, Muddled)} ELSE sent
  /\ UNCHANGED <<mounted, mount, editorVars, begun, running, atomVars,
                 overlap>>

\* What a failed start shows.
Fails(o) ==
  /\ showErrorDialog' = (showErrorDialog \/ Live(o))
  /\ showKernelSwitcher' = (showKernelSwitcher \/ (Live(o) /\ ops[o].asks))

\* Mutant: the status of the answer is not looked at.
PostFails_Unchecked(o) ==
  /\ ops[o].at \in {"posting", "answering"}
  /\ session' = IF Live(o) THEN ops[o].kernel ELSE session
  /\ kernels' = kernels \cup {ops[o].kernel}
  /\ mapped' = ops[o].kernel
  /\ ops' = [ops EXCEPT ![o].at = "opening"]
  /\ UNCHANGED <<mounted, mount, kernelName, client, connected,
                 showKernelSwitcher, showErrorDialog, begun, running, overlap,
                 dropped, sent>>

\* The POST fails, at the server or on its way there or back.  Then a kernel
\* that was started is known to nobody.
PostFails(o) ==
  /\ ops[o].at \in {"posting", "answering"}
  /\ Fails(o)
  /\ ops' = [ops EXCEPT ![o].at = "failed"]
  /\ UNCHANGED <<mounted, mount, kernelName, session, client, connected,
                 begun, running, atomVars, overlap, sent>>

\* The websocket fails; for reConnectKernel that is only logged.
SocketFails(o) ==
  /\ ops[o].at = "opening"
  /\ ops' = [ops EXCEPT ![o].at = "unopened"]
  /\ IF ops[o].kernel = o THEN Fails(o)
     ELSE UNCHANGED <<showErrorDialog, showKernelSwitcher>>
  /\ UNCHANGED <<mounted, mount, kernelName, session, client, connected,
                 begun, running, atomVars, overlap, sent>>

-----------------------------------------------------------------------------
(* What the user does in the editor.                                       *)

\* submitCell, submitPrompt and submitTabCompletion on an open connection;
\* without one nothing is sent and the cell waits.
Submit ==
  /\ mounted /\ session # 0 /\ connected
  /\ sent' = sent \cup {Request(session, client, 0, Muddled)}
  /\ UNCHANGED <<mounted, mount, editorVars, ops, begun, running, atomVars,
                 overlap>>

\* restartKernel and restartAndExecuteAllCells: the DELETE of the session, and
\* after it a start with the kernel's name of the click.
Restart(runs) ==
  /\ mounted /\ session # 0
  /\ Begin("deleting", begun + 1, kernelName, runs, FALSE, mount)
  /\ UNCHANGED <<mounted, mount, editorVars, running, atomVars, sent>>

\* Mutant: the start is not waited for.
DeleteAnswered_RunsAtOnce(o) ==
  /\ ops[o].at = "deleting"
  /\ ops' = [ops EXCEPT ![o].at = "posting"]
  /\ kernelName' = IF Live(o) THEN ops[o].name ELSE kernelName
  /\ sent' = IF Live(o) /\ ops[o].runs /\ connected
               THEN sent \cup {Request(session, client, o, Muddled)} ELSE sent
  /\ UNCHANGED <<mounted, mount, session, client, connected,
                 showKernelSwitcher, showErrorDialog, begun, running,
                 atomVars, overlap>>

DeleteAnswered(o) ==
  /\ ops[o].at = "deleting"
  /\ ops' = [ops EXCEPT ![o].at = "posting"]
  /\ kernelName' = IF Live(o) THEN ops[o].name ELSE kernelName
  /\ UNCHANGED <<mounted, mount, session, client, connected,
                 showKernelSwitcher, showErrorDialog, begun, running,
                 atomVars, overlap, sent>>

DeleteFails(o) ==
  /\ ops[o].at = "deleting"
  /\ ops' = [ops EXCEPT ![o].at = "failed"]
  /\ UNCHANGED <<mounted, mount, editorVars, begun, running, atomVars,
                 overlap, sent>>

\* reConnectKernel: another websocket to the session's kernel.
ReConnectKernel ==
  /\ mounted /\ session # 0
  /\ Begin("opening", session, kernelName, FALSE, FALSE, mount)
  /\ UNCHANGED <<mounted, mount, editorVars, running, atomVars, sent>>

\* The server, or the network, closes the client's connection.
ClientCloses ==
  /\ connected
  /\ connected' = FALSE
  /\ UNCHANGED <<mounted, mount, kernelName, session, client,
                 showKernelSwitcher, showErrorDialog, ops, begun, running,
                 atomVars, overlap, sent>>

\* changeKernel: the mapped kernel is taken off the map and the list and runs
\* on; another one is started if it is of another kernelspec.
ChangeKernel(value) ==
  /\ mounted /\ showKernelSwitcher
  /\ kernels' = kernels \ {mapped}
  /\ dropped' = dropped \cup ({mapped} \ {0})
  /\ mapped' = 0
  /\ IF kernelName # value
       THEN /\ kernelName' = value
            /\ Begin("posting", begun + 1, value, FALSE, TRUE, mount)
       ELSE UNCHANGED <<kernelName, ops, begun, overlap>>
  /\ showKernelSwitcher' = FALSE
  /\ UNCHANGED <<mounted, mount, session, client, connected, showErrorDialog,
                 running, sent>>

ToggleKernelSwitcher ==
  /\ mounted
  /\ showKernelSwitcher' = ~showKernelSwitcher
  /\ UNCHANGED <<mounted, mount, kernelName, session, client, connected,
                 showErrorDialog, ops, begun, running, atomVars, overlap,
                 sent>>

ToggleErrorDialog ==
  /\ mounted /\ showErrorDialog
  /\ showErrorDialog' = FALSE
  /\ UNCHANGED <<mounted, mount, kernelName, session, client, connected,
                 showKernelSwitcher, ops, begun, running, atomVars, overlap,
                 sent>>

-----------------------------------------------------------------------------
(* The tab bar and the info panel.                                         *)

\* The tab is opened, by the file browser with 'none' and by the launcher with
\* the name of a kernelspec: a new editor, whose effect starts a session.
OpenNotebook(kernelspec) ==
  /\ ~mounted /\ mount < MaxMounts
  /\ mounted' = TRUE
  /\ mount' = mount + 1
  /\ kernelName' = kernelspec
  /\ session' = 0
  /\ client' = 0
  /\ connected' = FALSE
  /\ showKernelSwitcher' = (kernelspec = None)
  /\ showErrorDialog' = FALSE
  /\ IF kernelspec = None
       THEN overlap' = FALSE /\ UNCHANGED <<ops, begun>>
       ELSE Begin("posting", begun + 1, kernelspec, FALSE, TRUE, mount + 1)
  /\ UNCHANGED <<running, atomVars, sent>>

\* handleTabClose, which throws if no kernel is mapped: such a tab cannot be
\* closed.  The DELETE is answered and does nothing, and the entry is
\* deleted from the old map, of which the new one is a copy made before.
HandleTabClose ==
  /\ mounted /\ mapped # 0
  /\ mounted' = FALSE
  /\ connected' = FALSE
  /\ kernels' = kernels \ {mapped}
  /\ dropped' = dropped \cup {mapped}
  /\ UNCHANGED <<mount, kernelName, session, client, showKernelSwitcher,
                 showErrorDialog, ops, begun, running, mapped, overlap, sent>>

\* The Kill button, and the answer 202.
KillKernel(k) ==
  /\ k \in kernels
  /\ kernels' = kernels \ {k}
  /\ dropped' = dropped \cup {k}
  /\ UNCHANGED <<mounted, mount, editorVars, ops, begun, running, mapped,
                 overlap, sent>>

-----------------------------------------------------------------------------
Init ==
  /\ mounted = FALSE /\ mount = 0
  /\ kernelName = None /\ session = 0 /\ client = 0 /\ connected = FALSE
  /\ showKernelSwitcher = FALSE /\ showErrorDialog = FALSE
  /\ ops = [o \in Op |-> Idle] /\ begun = 0
  /\ running = {}
  /\ kernels = {} /\ mapped = 0
  /\ overlap = FALSE /\ dropped = {} /\ sent = {}

Next ==
  \/ \E o \in Op :
       \/ PostServed(o) \/ Answered(o) \/ PostFails(o)
       \/ SocketOpens(o) \/ SocketFails(o) \/ SubmitAllCells(o)
       \/ DeleteAnswered(o) \/ DeleteFails(o)
  \/ Submit
  \/ \E runs \in BOOLEAN : Restart(runs)
  \/ ReConnectKernel \/ ClientCloses
  \/ \E value \in KernelSpec : ChangeKernel(value)
  \/ ToggleKernelSwitcher \/ ToggleErrorDialog
  \/ \E kernelspec \in KernelSpec \cup {None} : OpenNotebook(kernelspec)
  \/ HandleTabClose
  \/ \E k \in kernels : KillKernel(k)

Spec == Init /\ [][Next]_vars

-----------------------------------------------------------------------------
(* Properties.                                                             *)

\* Kernels the client knows of have been started: the session, the client, the
\* list and the map name no other.
TypeOK ==
  /\ mounted \in BOOLEAN /\ mount \in 0..MaxMounts
  /\ kernelName \in KernelSpec \cup {None}
  /\ connected \in BOOLEAN /\ overlap \in BOOLEAN
  /\ showKernelSwitcher \in BOOLEAN /\ showErrorDialog \in BOOLEAN
  /\ ops \in [Op -> OpRecord] /\ begun \in 0..MaxOps
  /\ running \subseteq 1..begun
  /\ {session, client, mapped} \subseteq running \cup {0}
  /\ kernels \cup dropped \subseteq running
  /\ \A r \in sent : r.session \in running /\ r.kernel \in running

\* A cell runs on the kernel that the toolbar interrupts and restarts: a
\* request carries the session of the kernel it goes to, unless the session's
\* websocket is still being opened or has failed, or two starts, restarts or
\* reconnects overlapped in this editor (startASession sets the session first
\* and the client after one more await, and keeps the old client meanwhile).
RequestsOwnSession ==
  \A r \in sent : r.muddled \/ r.session = r.kernel

\* "Now that new kernel is started, run all code cells": what
\* restartAndExecuteAllCells runs goes to the kernel it has started and not to
\* the one before, with the same exceptions.
RunAllOnNewKernel ==
  \A r \in sent : r.by # 0 => r.muddled \/ r.kernel = r.by

\* A kernel whose start was answered stays on the client's list of kernels,
\* also when answers of several starts interleave, until the user
\* changes the kernel, closes the tab or kills it there.
UnlistedWereDropped ==
  \A o \in Op :
    (ops[o].kernel = o /\ ops[o].at \in {"opening", "executing", "done", "unopened"})
      => o \in kernels \cup dropped

\* "No kernels running.", the info panel says when its list is empty: then no
\* kernel runs whose start the client has an answer for.
NoKernelsRunning ==
  kernels = {} =>
    \A k \in running : ops[k].at \in {"posting", "answering", "failed"}
=============================================================================
