# Zasper in TLA+

Zasper is an IDE for Jupyter notebooks: a Go server (`app.go`, `internal/`), a
React client (`ui/src/`) and an Electron shell (`ui/public/electron.js`). This
directory holds TLA+ models of the server's concurrent core and of the client's
state, the TLC configurations that check them on small instances, and theorems
about them that TLAPS proves for every value of the constants. `PROJECT.json`
lists the runs, the mutants that show each property can fail, the source lines
of every definition, the hazards, the findings and the theorems.

Contents: 1. the system; 2. the modules; 3. the runs; 4. findings; 5. proofs;
6. what is not modelled; 7. what is left; 8. how to run.

## 1. The system

### 1.1 How it fits together

`main` (`app.go`) sets up the configuration, the routes and a signal handler.
`net/http` serves each request in a goroutine of its own. The packages share
state through Go maps and the file system, mostly without locks. A client makes a
session (`POST /api/sessions`), which starts a kernel process; it then opens a
websocket to the kernel (`/ws/kernels/{id}/channels`), through which the server
relays messages between browser and ZeroMQ sockets. Terminals are websockets of
their own (`/ws/terminals/1`), files are read and written through
`/api/contents`. (A watcher websocket could tell the file browser to reload; the
client does not open it.)

The client is one JavaScript thread: what interleaves are its handlers between
their awaits. Its state is in the `useState` of components, which lives as long as
React keeps the component, and in atoms that all share; a handler works with the
values of the render it was made in, which after an await may be old.

A panic in a request handler is recovered by `net/http`: the request dies, what it
did remains. A panic in any other goroutine, a `log.Fatal`, and the Go runtime's
"concurrent map writes" end the process without cleanup. The models keep these
apart ("panicked" and "crashed").

### 1.2 Components

| component | state | operations | hard behaviour | what makes it correct |
|---|---|---|---|---|
| kernel service (`internal/session`, `internal/kernel` supervisor, manager, launcher, utils, connection) | `ZasperSession`, `ZasperActiveKernels`, `currentlyUsedPorts`, connection files, kernel processes | create session, interrupt, stop, Cleanup at exit | unlocked maps; ports chosen long before they are bound; dropped errors; `log.Fatal` in launcher goroutines; server exits under running handlers | no port given twice; a process binds what its manager dials; a kernel leaves the registry only when dead; a reported kill is true; Cleanup reaches what was registered |
| kernel connections (`websocket/kernel_websocket_handler.go`) | `ZasperActiveKernelConnections` | open websocket, DELETE kernel | read outside the lock, cancel, delete later; a second websocket replaces the first; nil connection | DELETE cancels its own kernel's connection, and that kernel dies; a connection it cannot find is not the only one |
| kernel channels (`kernel/channels.go`) | sockets, context, mutex, unbuffered `Send`, goroutines | nudge, poll, write, read, cancel | four pollers, one writer, one mutex, context watched only between blocking calls | streams intact; messages delivered; goroutines end, or are stuck only in known ways |
| kernel messages (`kernel_session.go`, `message.go`) | key | serialize, sign, deserialize | frames by position, header sent twice | what is serialized is deserialized; parent header relates reply and request |
| terminals (`terminal_websocket_handler.go`) | shell, pty, websocket, last pong, error count | start, copy out, feed in, resize, keepalive, cleanup | three goroutines, two of them waited for; vanished clients; unlocked websocket writes | pty open while used; a running shell not killed lightly; session ends |
| contents (`content_api_handler.go`, `content_manager.go`) | the project directory | create, save, upload, rename, delete, read | look up then create; truncate then write; errors dropped; two base directories | an acknowledged save is what a reader gets; created files are distinct |
| content watcher (`content_watcher.go`) | set of websockets, fsnotify watcher | subscribe, notify | a mutex per connection around a global map; watchers never stop; events ignored | a subscriber learns of every change |
| notebook format (`notebook.go`) | none | parse, convert to disk | MIME bundles, lines, attachments | load after save is the identity |
| configuration (`core/config.go`) | `config.json` | read, write, add project, theme | read-modify-write without lock, truncate then write | no lost update, never an empty file |
| file search | cache by query | suggest | stale cache | bounded staleness |
| authentication | access token, JWT key | login, check | — | only a token it issued is accepted |
| git client | repository | status, branches, commit, push | commit with `All: true`, push fails after commit | what is committed was chosen |
| kernelspecs | search path | find, list | first match versus last match | one name, one spec |
| server shell | routes, SPA, health, analytics | — | unrouted API paths get `index.html` with 202 | — |
| notebook editor, cells (`NotebookEditor.tsx`, `Cell.tsx`, `NbButtons.tsx`, `CellButtons.tsx`) | cells, their outputs, focus, copied cell, contents of each `Cell` | insert, remove, paste, edit, run, load, save | message id = cell id; two copies of a source; an index into a list that changes | the editor shows what is saved; output is shown where it was made; nothing is lost by adding; the focus is on a cell |
| notebook editor, session (`NotebookEditor.tsx`, `KernelSwitch.tsx`, `JupyterInfoPanel.tsx`) | session, websocket client, `kernelsAtom`, `notebookKernelMapAtom` | start, restart, run all, reconnect, change kernel, kill, close | session and client set at different awaits; DELETE to routes that do not exist | a request carries the session of its kernel; a kernel stays listed until it is taken off |
| tabs (`TabState.tsx`, `TabIndex.tsx`, `Launcher.tsx`) | `fileTabsAtom`, `terminalsAtom` | open, close, activate, new notebook, new terminal | tabs computed before an await and written after it | one editor shows; tabs leave only knowingly |
| editors (`ContentPanel.tsx`, `Editor.tsx`, `FileEditor.tsx`) | contents of each editor | load, type, save | editors are kept by index, not by tab | typed text is kept; a file keeps its own content |
| file browser (`FileBrowser.tsx`) | the list, each entry's names | list, create, rename, delete, open a directory | overlapping fetches; entries act by old names | when all is quiet, the list is the directory |
| other panels, Electron shell | — | single requests; start and kill the server | — | — |

## 2. The modules

| module | models | extends / composes |
|---|---|---|
| `KernelService` | the kernel service, with kernel processes and the end of the server | |
| `KernelRegistry` | abstract: what the kernel service promises | implemented by `KernelService` |
| `KernelConnections` | websocket handlers, DELETE and the connection map | extends `KernelService` |
| `KernelChannels` | the goroutines of one websocket connection | |
| `TerminalSession` | one terminal | |
| `Contents` | file requests on one directory | |
| `Tabs` | the tabs and the handlers that replace them | |
| `FileEditors` | the editors behind the tabs, and the files | extends `Tabs` |
| `NotebookCells` | the cells of one open notebook | |
| `NotebookSession` | the kernels of one notebook, as the client sees them | |
| `FileBrowser` | the file list against the directory | |
| `...Proofs` | theorems | extend the module they are about; `KernelProofs` is about `KernelService` and `KernelConnections`, `FileEditorsProofs` about `Tabs` and `FileEditors` |
| `MC...` | instances for TLC | |

A definition whose name has an underscore (`FindAvailablePort_Untracked`) is a
*mutant*: a plausible bug, standing before the definition it would replace and
used by no specification. With it in place, the run of the mutant's property
fails.

### 2.1 KernelService

A `POST /api/sessions` handler, the session it makes and the kernel it starts
have one name `k \in Kernel`, as each handler draws fresh ids. `pc[k]` is the
handler's place between two accesses to shared state:

    lookup -> ports (once per channel) -> write -> format -> launch -> register -> store

with `CreateSession`'s lookup, `findAvailablePort` (atomic, the code holds
`portMutex`; it may return 0 with an error that `preLaunch` drops),
`writeConnectionFile`, `formatKernelCmd` (panics without a kernelspec),
`LaunchKernel` (may fail), and the two map writes. A process reads its connection
file and binds its ports some time after it was launched; it may exit at any
time. The launcher's stdin goroutine and output copiers end the server by
`log.Fatal`. `Caller`s are requests on existing kernels: `KillKernelById` is
three steps, look up, signal, delete; `interruptKernel` two. `StopSignal`, the
iterations of Cleanup, and `ServerExit` run among all of them. `MapFault` is the
runtime's fatal error when unlocked accesses to a map overlap. Processes outlive
the server.

Connection files are named by the first six characters of the kernel id; `FileOf`
leaves open which ids share them.

### 2.2 KernelConnections

`HandleWebSocket` checks session and kernel, connects (up to two seconds of
nudging) and only then registers the connection under `clientsMu`.
`KernelDeleteAPIHandler` reads the map without the lock and calls
`PollingCancel`, deletes the entry under the lock, and runs `KillKernelById`,
which is `KernelService`'s. A connection's goroutines are abstracted to whether
they poll.

### 2.3 KernelChannels

One websocket: the handler's `createStream`, `nudge` with its two-second timeout
and the goroutine left waiting for the reply, `startPolling`, then a poller per
socket (check the context, `Recv`, hand over on the unbuffered `Send`, check
again), `WriteMessages` (check, receive, lock, write, unlock; a failed write
returns with the mutex locked) and `ReadMessagesFromClient`. The ZeroMQ sockets
deliver in order and fail when the context is cancelled. What the kernel publishes
before the iopub subscription is up never reaches the socket and is not in the
model.

### 2.4 TerminalSession

`HandleTerminalWebSocket` starts a shell and waits for two of three goroutines:
keepalive (ping, sleep, check the age of the last pong) and copier (`readFromTTY`);
the feeder (`writeToTTY`, in whose reads pongs are handled) is not waited for.
Time appears as the number of ten-second checks since the last pong, 0, 1 or
2; a check with one silent period behind it may go either way. A write to the
websocket may succeed, into a buffer, when the client has gone, and after one has
failed all fail. Overlapping writes of keepalive and copier may panic, and a
binary message of zeros does: both end the server.

### 2.5 Contents

A directory maps names to files, and a file has a content, so that a write to an
open file goes where the file is after a rename. Requests create (probe for a free
name, open with truncation, stat for the reply), save or upload (truncate, write;
either may fail), rename and delete. `untitled*.txt` and `Untitled*.ipynb` are two
series of names that never meet: a run has one of them. Saves resolve their path
against the process's directory (`ProcessDir`), all else against the project
directory (`HomeDir`). `clean` is a history variable: the saves that nothing
interfered with.

### 2.6 Tabs and FileEditors

`tabs` is the object in `fileTabsAtom`, `order` its keys in insertion order, which
is the order of the tab bar. Each handler of the file browser, the tab bar and the
launcher is one action, except `createNewNotebook`: `CreateNewNotebook` keeps the
tabs of the click's render, `CreateAnswered` goes on from them, whatever the tabs
have become. `FileEditors` runs every action of `Tabs` together with the render it
causes: `ContentPanel` keys the editors by their index, so `Rendered` keeps the
editor at an index if the tab now there wants the same kind of editor, and mounts a
new one otherwise; an editor whose tab has `load_required` fetches. A content is
followed by the file it came from. `unsafe` is a history variable: files saved from
an editor that had not loaded them.

### 2.7 NotebookCells

`cells`, `focusedIndex` and `copiedCell` are `NotebookEditor`'s state; `contents`
is the `cellContents` of each `Cell` that React keeps by its id. Every button and
key is an action; `SetNotebook` does the render that follows. Outputs arrays are
objects in a heap (`arrays`), as a pasted cell shares the array of the one it was
copied from. `KernelOutput` is `updateNotebook` for any message that adds an output,
at any time after the cell was sent. `lineage` and `lossy` are history variables.
The toolbar reads `cells[focusedIndex].cell_type` on every render; `Crashed` is the
state in which that throws and the interface is gone.

### 2.8 NotebookSession

Every call of `startASession` or `reConnectKernel` is an operation in `ops`, with
its place between two awaits:

    (deleting ->) posting -> answering -> opening (-> executing) -> done

and "failed" or "unopened" where a request or the websocket fails. A closed tab ends
its editor, not its operations: what they set afterwards is lost, except in the
atoms (`Live`). A DELETE under `/api` is answered by the catch-all route with
status 202 and does nothing, so `KillKernel`, `HandleTabClose` and the deletion in
`Restart` leave the server as it is.

### 2.9 FileBrowser

`items` maps the id of an entry to the state of its component; a reload replaces
all of them. A request is sent, served and answered in three steps, in any order
with others, or lost. `slips` is a history variable that names what the code does
not handle; `ListFaithful` is about behaviours without one.

## 3. The runs

All properties of the passing runs hold. Deadlock is not checked: a server at rest
and one that has ended have nothing to do. No liveness run uses symmetry.

| run | instance | properties |
|---|---|---|
| `kernel` | 2 session requests, 2 channels each, 3 ports, 1 other request | `TypeOK`, `PortsDisjoint`, `OwnConnectionInfo`, `CleanupReachesAll`, `DroppedKernelsAreDead`, `KilledMeansDead`, `ImplementsRegistry` |
| `connections` | a running and a killed kernel, 2 websockets, 1 request, fair handlers | `ConnTypeOK`, `SoleConnectionReachable`, `CancelledByOwnDelete`, `CancelledKernelDies` |
| `channels` | 2 sockets with 2 messages and 1, fair goroutines | `TypeOK`, `StreamIntact`, `MutexOnlyAroundWrites`, `EventuallyDelivered`, `PollersEndOrStick`, `NudgerEnds` |
| `terminal` | the code's error limit 10, fair goroutines | `TypeOK`, `TtyOpenWhileUsed`, `RunningShellKeptAlive`, `DeadClientNoticed`, `SessionEnds` |
| `contents` | 3 requests of any kind on 3 names | `TypeOK`, `AcknowledgedSaveKept` |
| `tabs` | a file, 2 notebooks, a terminal, 2 clicks on a kernel | `EditorsVisible`, `TabsLeaveKnowingly` |
| `file_editors` | 2 files, a new notebook, 1 save under way | `TypeOK`, `ContentsStayHome`, `TypedTextKept` |
| `notebook_cells` | 2 cells, 5 commands | `TypeOK`, `EditorShowsSource`, `OutputsTraceable`, `LoadedCellsKept`, `FocusLostByRemoval` |
| `notebook_session` | 2 kernelspecs, 3 starts or reconnects, the tab opened twice | `TypeOK`, `RequestsOwnSession`, `RunAllOnNewKernel`, `UnlistedWereDropped` |
| `file_browser` | a file, a directory, a free name, 6 commands, 4 requests | `TypeOK`, `ListFaithful` |
| `cells_focus` | violation | `FocusInBounds` |
| `kernels_listed` | violation | `NoKernelsRunning` |

What the properties say, and why the bounds are enough:

- **Kernel.** Two searches must interleave for a port to be given twice; with 3
  ports for 2 x 2 channels both exhaustion and port 0 happen. A second channel per
  kernel makes order and number of the ports matter for `OwnConnectionInfo`. The
  races of a kill are between its three steps and any step of another actor: the
  kernel's own launch, its exit, Cleanup, a crash, a second kernel, which are all in
  the run. Two kills that race on one kernel are not (they do not fit beside two
  launches), but the theorems of section 5 cover any number of requests.
- **Connections.** The run begins with kernels already started (`WarmInit`, a
  state the service reaches), one of them killed, as launching is the subject of
  `kernel`. Two websockets are needed for one to replace the other, two kernels for
  a DELETE to hit the wrong one. That several DELETEs race is covered by the
  theorems.
- **Channels.** Two sockets compete for one writer and order within a socket
  needs two messages. `Stuck` names the two ways in which a poller never ends;
  `PollersEndOrStick` says that there is no third.
- **Terminal.** Eleven lost outputs in a row are reachable with the real limit.
  `SessionEnds` assumes that the shell exits: if it runs on in silence after
  the client left, the copier waits in `tty.Read` and nothing ends the session.
  The two liveness properties allow for a crash of the server.
- **Contents.** A third name lets two creates and an existing file coexist, and
  three requests are a save and two creates racing for a name. `Probe` stops at
  the bound `MaxName`. That a failed save has destroyed the old content is
  in the model and contradicts no property.
- **Tabs.** Two clicks make an answer go on from tabs that another answer has
  replaced; a tab of each type is opened, closed and resurrected.
- **Editors.** Two files and a notebook of the launcher suffice for an editor to
  come to stand for another tab of its kind, and for a slot to change its kind.
  `ContentsStayHome` excludes saves from an editor that had not loaded the file it
  is shown for: section 4 says what those do.
- **Cells.** Five commands remove, paste, run and save in every order around two
  cells of different types. `FocusLostByRemoval` is what remains true of the focus;
  `FocusInBounds` is what the comment claims.
- **Session.** Three operations are a start with a restart or a reconnect on top
  and a third that overlaps; the second opening of the tab meets the answers of the
  first. `RequestsOwnSession` and `RunAllOnNewKernel` name the windows in which they
  do not hold: an operation that overlapped another in this editor, and a session
  whose websocket is not (yet) open.
- **File browser.** Six commands are enough for an entry to be edited and renamed twice
  around a reload, and for rename, delete and create to meet one; the instance of 5
  commands and 5 requests holds as well. Each slip that `ListFaithful` excludes is
  reachable, and without it the property fails: "overlap", the last one found, takes
  5 commands. The theorem of section 5 covers any number of both.

**Fairness.** Weak fairness of what a goroutine does on its own: Go's scheduler
runs every runnable goroutine. In `KernelChannels` `HandOver` has strong fairness:
senders queue on a Go channel in order, so a poller that waits is served.
No fairness is assumed of clients, kernels, shells or requests that may never be
made: `MessageArrives`, `NudgeReply`, `ReadRequest`, `ClientLeaves`, `Cancel`,
`CopyRead`, `ShellExits`, `ClientGoes`, all of the feeder, and all `...Arrives`.
`KernelService` alone has no liveness to offer: a handler may panic or the server
end at every point.

## 4. Findings

Two runs show that the code does not do what it says:

1. `NotebookEditor.tsx:597` "Check if focusedIndex is valid to avoid errors (e.g.,
   empty notebook or invalid index)": deleting or cutting the last of several
   cells leaves `focusedIndex` behind the end, and the toolbar's next render throws
   (`NbButtons.tsx:88`); without an error boundary the interface is gone
   (`cells_focus`).
2. `JupyterInfoPanel.tsx:79` "No kernels running.": the kernels killed there, and
   those of closed tabs, run on, as DELETE `/api/kernels/{id}` has no handler and
   the catch-all route answers it with 202 (`kernels_listed`).

Met while modelling, without a run of their own. On the server:

- `app.go:233` says "Shutdown the server gracefully", but `http.Server.Shutdown` is
  never called: a kernel launched and not yet registered when main returns survives.
- `kernel_websocket_handler.go:107` stores a cancel function "so it can be called
  later": a second websocket to a kernel replaces the first one's, whose polling
  nothing can cancel any more.
- `channels.go:40` "Call the cancel function to stop the polling goroutine": a poller
  blocked on `Send`, or on the mutex a failed write left locked, does not stop (one
  of the ways `Stuck` names).
- `content_manager.go:234`, `:282` "Create the file with the unique filename": two
  requests that look before either opens are given the same file.
- `content_manager.go:434`, `:444`: saves go to the directory the server was
  started in, everything else to the `-cwd` directory (`app.go:84`).

In the client:

- Editors are keyed by index: after a tab is closed, the editor of the next one goes
  on with the closed one's text, and a save before its own load writes that text
  into the file (`unsafe`).
- `createNewNotebook` writes the tabs of its click: tabs opened meanwhile go, closed
  ones come back; such a tab does not load, and saving it empties the file.
- A save before the load, or after it failed, writes an empty notebook (`lossy`).
- A notebook tab without a mapped kernel cannot be closed (`TabIndex.tsx:79` throws),
  for example after choosing the kernel it already has in "Switch Kernel".
- Restart leaves the old kernel running. Reconnect leaves the old socket open, so
  that outputs come twice.
- A pasted cell shares its outputs array with the original until one is run.
- The toolbar's "Run Cell" passes an index that is not there (`NbButtons.tsx:55`) and
  runs nothing. Only the ArrowUp and ArrowDown branches of `handleKeyDown` can be
  reached.
- In the file browser, deleting after an abandoned rename deletes by the edited text;
  a renamed directory is then used by its old path; of two notebooks created from one
  render the second is not listed; an upload always fails; a refused rename or delete
  looks as if it had worked. Enter pressed again, before the answer to a renaming, asks
  to rename the old name to the text by then: the server does the one it gets first and
  refuses the other, and the entry keeps the name of the one answered last.

## 5. Proofs

`KernelProofs`, for any kernels, requests, ports and channels, and any
sharing of connection files, from `ConstantAssumption` (the special values are
distinct from the others, there is a channel):

- `TypeCorrect`: `[]TypeOK`, by cases over the actions.
- `PortsNeverShared`: `[]PortsDisjoint`. Alone it is not inductive, as a port
  could be handed out that a manager holds but the table does not list: `PortInv`
  adds that every port held is tracked. Only `FindAvailablePort` touches either
  (`PortFrame`); what it appends is handled in `NewPort`.
- `NoRunningKernelIsDropped`, `KillRepliesAreTrue`, `CleanupIsComplete`: from one
  invariant `KillInv`, which adds three things: `LaunchInv` (which handler places
  imply a process, and an entry), `CallInv` (what a request has read stays true:
  at "delete" its kernel is dead, and a lookup that missed a registered kernel
  means that it is dead) and `StopInv` (what Cleanup has killed stays dead, and it
  started from what was registered).
- `KernelsBindTheirPorts`: `[]OwnConnectionInfo`. `FileInv` adds how many ports a
  handler has found at each place, and that the file holds them from its write on,
  if no other id shares it (`Alone`).
- `ServiceImplementsRegistry`: `Spec => Abstract!Spec`. Under the refinement
  mapping every action is a step of `KernelRegistry` or a stutter, given
  `TypeOK` and `KillInv`.

`TerminalSessionProofs`, for any error limit (`LimitAssumption`): `TypeCorrect`,
`TtyStaysOpen` (`[]TtyOpenWhileUsed`) and `ShellIsKeptAlive` (the action
property `RunningShellKeptAlive`). The invariant `LifeInv` says what the
handler's place implies (`HandlerInv`), that the copier ends only with the shell
or beyond the limit (`CopierInv`), and that outputs are lost only once the
websocket has failed, which takes a client that has gone (`ConnInv`).

The second half of `KernelProofs`, on top of that, for any connections:
`ConnTypeCorrect` (`[]ConnTypeOK`), `DeleteCancelsItsOwn`
(`[]CancelledByOwnDelete`) and `LostConnectionHasCompany`
(`[]SoleConnectionReachable`). The invariant `ConnInv` adds where the entries of
the map come from (`StoredInv`: a connection is stored under the kernel it was
opened for, and only an open one is ever cancelled) and what a request between
its cancel and its removal has done (`DeleteInv`: it is a DELETE and has
cancelled a connection of its kernel).

DELETE enters `KillKernelById` by a door of its own, so what is proved of the service
alone has to be proved again with it: `DeletedKernelsAreDead`, `DeleteRepliesAreTrue`,
`ServiceKeepsItsPromises` and `ConnectionsImplementRegistry` state the service's
invariants and its refinement for `ConnSpec`. The service's invariants, together
`ServiceInv`, are kept as they stand (`ConnKeepsService`): before its lookup a DELETE
only moves its own request on (`DeleteMoves`), with an id that was registered.

`FileEditorsProofs`, first about `Tabs`, for any files, notebooks and clicks:
`OneEditorAtATime` (`[]EditorsVisible`) and `TabsLeaveOnlyKnowingly` (the action
property). The invariant `TabsInv` asks of the tabs that any waiting
`createNewNotebook` goes on from what `EditorsVisible` asks of the shown ones.

Then about `FileEditors`, whose steps are those of `Tabs` with the render they cause:
`TypeCorrect`, `FilesKeepTheirContents` (`[]ContentsStayHome`) and `TypedTextIsKept`
(the action property). The tab bar lists each tab once (`BarInv`), also after an
answer put the tabs of an older render back, for which it has to speak of the tabs
that clicks keep as well. An editor loads once, and one that has loaded a file that is
not `unsafe` shows that file's content (`EditorInv`, of every slot: `SlotsInv`); so a
save under way for such a file carries its content (`DiskInv`). Last,
`EditorsImplementTabs` (`Spec => TabsSpec`): no step of an editor changes a tab, so
that the two theorems about `Tabs` hold with the editors too (`EditorsKeepTheTabs`).

`KernelChannelsProofs`, for any channels and any number of messages on each
(`ChannelAssumption`): `TypeCorrect`, `StreamsStayIntact` (`[]StreamIntact`) and
`MutexAroundWrites` (`[]MutexOnlyAroundWrites`). `StreamIntact` says that four
lists per channel, joined, are what arrived; it is not inductive, as a poller
could hold a message and receive another, or the writer be handed a second one.
`HeldInv` and `WritingInv` tie what each holds to its place in the code. The
four steps that move a message rest on four lemmas about lists (`ArrivesAtEnd`,
`FirstReceived`, `HandedOver`, `Written`); no other step touches the lists
(`StreamStays`).

`ContentsProofs`, for any requests and names, and a server that runs in the project
directory (`HomeDir = ProcessDir`, a hypothesis of the theorems; `-cwd` makes it
false, and then a save writes where GET does not look): `TypeCorrect` and
`SavesAreKept` (`[]AcknowledgedSaveKept`). The invariant says that a file has one
name and what a request is about to create nobody has (`OneName`, `FreshInv`), how
far a clean save has come (`SaveInv`), and what any other request can be at
meanwhile (`Apart`): it does not stand at the save's name, has not opened the
save's file, and a create that is past its probe has another name.

`NotebookSessionProofs`, for any kernelspecs and any number of starts and of times
the notebook is opened: `TypeCorrect`, `RequestsCarryOwnSession`
(`[]RequestsOwnSession`), `RunAllReachesNewKernel` (`[]RunAllOnNewKernel`) and
`KernelsStayListed` (`[]UnlistedWereDropped`). The invariant numbers every start
like the kernel it starts (`OpsInv`); the session of an open notebook is that of a
start of its own and, once its websocket is open and no two starts overlapped, the
client is that of its kernel (`SessionInv`); and an operation that has reached its
websocket works on the session, and is the only one under way, unless an overlap
was recorded (`OverlapInv`).

`NotebookCellsProofs`, for any notebook: `TypeCorrect`, `EditorAgrees`
(`[]EditorShowsSource`), `OutputsStayTraceable` (`[]OutputsTraceable`),
`FileKeepsItsCells` (`[]LoadedCellsKept`) and `FocusIsLostByRemoval`
(`FocusLostByRemoval`). A pasted cell shares its outputs array with the one it was
copied from, so that `OutputsTraceable` needs to know which cells hold which array
(`TraceInv`); the file is kept because the notebook and every save on its way keep
its cells too (`KeepInv`).

`FileBrowserProofs`, for any finite set of names, any directory to begin with, and any
number of commands and requests: `TypeCorrect` (`[]TypeOK`) and `ListStaysFaithful`
(`[]ListFaithful`). `ListFaithful` speaks of moments when nothing is under way; what
leads there is `ListInv`: as long as no slip has happened, either a new list is still
to come (`ToReload`), or an answer is on its way that will find its entry gone, which
is a slip (`Doomed`), or the list is right but for what is under way (`Orderly` and
`Faithful`). For the last, an entry whose renaming was served has its new name already
(`Names`), one whose deletion was served has gone (`Live`), and a directory with a
request on its way may show anything (`Waiting`). Every step but the answer with a
list keeps the first two (`ToComeStays`); that answer leads to one of the three
(`NewListInv`), as its entries are a bijection between fresh ids and what is on the
disk (`NewList`, from the theorems on cardinality); and the third is kept by the
steps of the user, of the server, and by the other answers (`CommandFaithful`,
`ServerFaithful`, `AnswerFaithful`). The attempt showed that two requests of one
entry, one of which renames or deletes it, break the property: this is the slip
"overlap", which the smaller instance of an earlier run could not reach.

Only model-checked: all liveness (`CancelledKernelDies`, `EventuallyDelivered`,
`PollersEndOrStick`, `NudgerEnds`, `DeadClientNoticed`, `SessionEnds`), which is out of
the prover's reach, and that the two runs of section 4 are violated. (The refinement
has no fairness to refine.) Every other property of a passing run is a theorem.

## 6. What is not modelled

- Read-only requests of the kernel service (lists of kernels and sessions) and
  handlers that no route reaches (`SessionDeleteApiHandler`); `stopPolling`, which
  nothing calls; `releasePort`, likewise.
- The bodies of kernel messages; the iopub subscription.
- In `Contents`: creation of directories and the replies of reads of directories
  and notebooks; sub-directories (all requests are on one).
- The map `terminalSessions`, which nothing reads; its unlocked writes are the
  fault `KernelService` models for its own maps.
- In the client: execution counts, the prompt for input and the inspect reply (the
  display of one message), the rendering of outputs, the kernel's status text, the
  language mode, the cursor position; `ImageEditor`; `FileUpload`. Terminal tabs
  show one `XTerm` each and have no state beyond the websocket. `NotebookSession`
  follows one notebook; two share only the atoms, each under its own keys.
- Kernel messages and the notebook format convert one value into another, field by
  field, and no state depends on the outcome. Kernelspecs and file search read the
  file system in one request. Git and authentication call a library. The content
  watcher has no client. The configuration is a read-modify-write of one file,
  listed as a hazard. Health, analytics, SPA, the other panels and the Electron shell
  are single requests, presentation or process control in one straight line.

## 7. What is left

The core of the plan is done: the server's concurrent components, the client's
tabs, editors, notebook and file browser, and the proofs of section 5. What a next
step would add, in order of importance:

1. The iopub subscription in `KernelChannels`: what the kernel publishes before it.
2. The conversions of `notebook.go` as pure operators against "load after save is the
   identity".
3. `Config`: concurrent read-modify-write with crashes, against an atomic register.

## 8. How to run

    tlc -workers 2 -config MCKernel.cfg MCKernelService
    tlapm KernelProofs.tla

`PROJECT.json` gives the module and the cfg of every run. The longest run takes
two to three minutes.
