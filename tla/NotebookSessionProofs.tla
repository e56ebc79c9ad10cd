------------------------ MODULE NotebookSessionProofs ------------------------
(***************************************************************************)
(* Theorems about NotebookSession, for every set of kernelspecs and every  *)
(* number of starts and of times the notebook is opened.                   *)
(***************************************************************************)
EXTENDS NotebookSession, TLAPS

-----------------------------------------------------------------------------
(* The inductive invariant, in parts *)

\* The start was answered, or the operation is a reconnect.
Started == {"opening", "executing", "done", "unopened"}

\* What an operation may be by where it is: a start is numbered like its
\* kernel until its websocket is opened, and a kernel that was started runs.
OpsInv ==
  \A o \in Op :
    /\ o > begun <=> ops[o].at = "idle"
    /\ ops[o].mount <= mount
    /\ ops[o].at # "idle" => ops[o].kernel \in 1..o
    /\ ops[o].at \in Started \cup {"answering"} => ops[o].kernel \in running
    /\ ops[o].at \in {"deleting", "posting", "answering"} => ops[o].kernel = o
    /\ ops[o].at # "idle" /\ ops[o].runs => ops[o].kernel = o
    /\ ops[o].at = "executing" => ops[o].runs

\* The session of an open notebook is that of a start of its own, and once its
\* websocket is open, the client is that of its kernel.
SessionInv ==
  /\ connected => mounted /\ client # 0
  /\ mounted /\ session # 0 =>
       /\ ops[session].kernel = session
       /\ ops[session].mount = mount
       /\ ops[session].at \in Started
       /\ ~overlap /\ ops[session].at \in {"executing", "done"} =>
            client = session

\* An operation of the open notebook that has reached its websocket works on
\* the session, and is the only one, unless two of them overlapped.
OverlapInv ==
  /\ \A o \in Op : Live(o) /\ ops[o].at \in {"opening", "executing"} =>
       /\ session # 0
       /\ ~overlap => session = ops[o].kernel
  /\ ~overlap => \A o, p \in Op :
       (/\ UnderWay(o) /\ ops[o].mount = mount
        /\ UnderWay(p) /\ ops[p].mount = mount) => o = p

RequestsInv == RequestsOwnSession /\ RunAllOnNewKernel

IInv == /\ TypeOK /\ OpsInv /\ SessionInv /\ OverlapInv
        /\ RequestsInv /\ UnlistedWereDropped

-----------------------------------------------------------------------------
(* What the steps do to the operations *)

At == Pending \cup {"idle", "done", "failed", "unopened"}

\* The operation o moves on to v and nothing else of any operation changes.
Moves(o, v) ==
  /\ ops' \in [Op -> OpRecord]
  /\ ops'[o].at = v
  /\ \A p \in Op : /\ p # o => ops'[p].at = ops[p].at
                   /\ ops'[p].kernel = ops[p].kernel
                   /\ ops'[p].mount = ops[p].mount
                   /\ ops'[p].runs = ops[p].runs

LEMMA MovesOn ==
  ASSUME ops \in [Op -> OpRecord], NEW o \in Op, NEW v \in At,
         ops' = [ops EXCEPT ![o].at = v]
  PROVE  Moves(o, v)
<1>1. \A p \in Op : p # o => ops'[p] = ops[p]
  OBVIOUS
<1>2. ops'[o] = [ops[o] EXCEPT !.at = v]
  OBVIOUS
<1>3. ASSUME NEW r \in OpRecord
      PROVE  LET s == [r EXCEPT !.at = v] IN
               /\ s \in OpRecord /\ s.at = v /\ s.kernel = r.kernel
               /\ s.mount = r.mount /\ s.runs = r.runs
  BY DEF OpRecord, At
<1>4. /\ ops'[o] \in OpRecord /\ ops'[o].at = v
      /\ ops'[o].kernel = ops[o].kernel
      /\ ops'[o].mount = ops[o].mount /\ ops'[o].runs = ops[o].runs
  BY <1>2, <1>3
<1>5. ops' \in [Op -> OpRecord]
  BY <1>1, <1>4
<1> QED
  BY <1>1, <1>4, <1>5 DEF Moves

\* The operation o is new, and the others are as before.
Begins(o, at, kernel, runs, m) ==
  /\ ops' \in [Op -> OpRecord]
  /\ ops'[o].at = at /\ ops'[o].kernel = kernel
  /\ ops'[o].mount = m /\ ops'[o].runs = runs
  /\ \A p \in Op \ {o} : ops'[p] = ops[p]

LEMMA BeginsNew ==
  ASSUME ops \in [Op -> OpRecord], begun \in 0..MaxOps,
         NEW at \in At, NEW kernel \in 0..MaxOps,
         NEW name \in KernelSpec \cup {None}, NEW runs \in BOOLEAN,
         NEW asks \in BOOLEAN, NEW m \in 0..MaxMounts,
         Begin(at, kernel, name, runs, asks, m)
  PROVE  /\ begun + 1 \in Op /\ begun' = begun + 1
         /\ Begins(begun + 1, at, kernel, runs, m)
<1> DEFINE r == [at |-> at, kernel |-> kernel, name |-> name, mount |-> m,
                 runs |-> runs, asks |-> asks]
<1>1. begun + 1 \in Op /\ begun' = begun + 1
  BY SessionAssumption DEF Begin, Op
<1>2. r \in OpRecord
  BY DEF OpRecord, At
<1>3. r.at = at /\ r.kernel = kernel /\ r.mount = m /\ r.runs = runs
  OBVIOUS
<1>4. ops' = [ops EXCEPT ![begun + 1] = r]
  BY DEF Begin
<1> HIDE DEF r
<1>5. /\ ops' \in [Op -> OpRecord] /\ ops'[begun + 1] = r
      /\ \A p \in Op \ {begun + 1} : ops'[p] = ops[p]
  BY <1>1, <1>2, <1>4
<1> QED
  BY <1>1, <1>3, <1>5 DEF Begins

\* A kernel is numbered like the operation that started it.
LEMMA KernelsAreOps ==
  ASSUME TypeOK
  PROVE  running \subseteq Op /\ session \in Op \cup {0}
<1>1. begun \in 0..MaxOps /\ running \subseteq 1..begun
      /\ session \in running \cup {0}
  BY DEF TypeOK
<1>2. \A k \in 1..begun : k \in Op
  BY <1>1, SessionAssumption DEF Op
<1> QED
  BY <1>1, <1>2

\* The fields of a request.
LEMMA RequestFields ==
  ASSUME NEW s, NEW k, NEW by, NEW b
  PROVE  LET r == Request(s, k, by, b) IN
           r.session = s /\ r.kernel = k /\ r.by = by /\ r.muddled = b
BY DEF Request

-----------------------------------------------------------------------------
(* The steps that send no request and begin nothing *)

\* startASession's POST is answered.
LEMMA AnsweredPreserves ==
  ASSUME IInv, NEW o \in Op, Answered(o)
  PROVE  IInv'
<1> USE DEF IInv, editorVars, atomVars
<1>0. /\ Moves(o, "opening") /\ ops[o].at = "answering"
      /\ ops[o].kernel = o /\ o \in running
  BY MovesOn DEF Answered, TypeOK, OpsInv, At, Pending, Started
<1>1. TypeOK'
  BY <1>0 DEF Answered, TypeOK, Moves
<1>2. OpsInv'
  BY <1>0 DEF Answered, OpsInv, Moves, Started
<1>3. SessionInv'
  BY <1>0 DEF Answered, SessionInv, OpsInv, Moves, Started, Live
<1>4. OverlapInv'
  <2>1. \A p \in Op : UnderWay(p)' => UnderWay(p)
    BY <1>0 DEF Moves, UnderWay, Pending
  <2>2. \A p \in Op : Live(p)' <=> Live(p)
    BY <1>0 DEF Answered, Moves, Live
  <2>3. ~overlap => \A p \in Op :
          Live(o) /\ Live(p) /\ UnderWay(p) => p = o
    BY <1>0 DEF OverlapInv, Live, UnderWay, Pending
  <2>4. ASSUME NEW p \in Op, Live(p)', ops'[p].at \in {"opening", "executing"}
        PROVE  session' # 0 /\ (~overlap => session' = ops'[p].kernel)
    <3>1. CASE p = o
      BY <1>0, <2>2, <2>4, <3>1 DEF Answered, Moves, Op
    <3>2. CASE p # o
      <4>1. /\ Live(p) /\ ops[p].at \in {"opening", "executing"}
            /\ UnderWay(p) /\ ops'[p].kernel = ops[p].kernel
        BY <1>0, <2>2, <2>4, <3>2 DEF Moves, UnderWay, Pending
      <4> QED
        BY <1>0, <2>3, <3>2, <4>1 DEF Answered, OverlapInv, Op
    <3> QED
      BY <3>1, <3>2
  <2> QED
    BY <1>0, <2>1, <2>4 DEF Answered, OverlapInv, Moves
<1>5. RequestsInv'
  BY DEF Answered, RequestsInv, RequestsOwnSession, RunAllOnNewKernel
<1>6. UnlistedWereDropped'
  BY <1>0 DEF Answered, UnlistedWereDropped, Moves
<1> QED
  BY <1>1, <1>2, <1>3, <1>4, <1>5, <1>6

\* The websocket is open, whether it becomes the client or not.
LEMMA SocketOpensPreserves ==
  ASSUME IInv, NEW o \in Op, SocketOpens(o)
  PROVE  IInv'
<1> USE DEF IInv, editorVars, atomVars
<1> DEFINE v == IF ops[o].runs /\ Live(o) THEN "executing" ELSE "done"
<1>0. /\ Moves(o, v) /\ ops[o].at = "opening" /\ v \in {"executing", "done"}
      /\ ops[o].kernel \in running /\ ops[o].kernel \in 1..o
  BY MovesOn DEF SocketOpens, TypeOK, OpsInv, At, Pending, Started
<1>a. v = "executing" => ops[o].runs
  OBVIOUS
<1> HIDE DEF v
<1>1. TypeOK'
  <2>1. connected' \in BOOLEAN /\ client' \in running \cup {0}
    BY <1>0 DEF SocketOpens, TypeOK
  <2> QED
    BY <1>0, <2>1 DEF SocketOpens, TypeOK, Moves
<1>2. OpsInv'
  BY <1>0, <1>a DEF SocketOpens, OpsInv, Moves, Started
<1>3. SessionInv'
  BY <1>0 DEF SocketOpens, SessionInv, OverlapInv, Moves, Started, Live, Op
<1>4. OverlapInv'
  BY <1>0 DEF SocketOpens, OverlapInv, Moves, Live, UnderWay, Pending
<1>5. RequestsInv'
  BY DEF SocketOpens, RequestsInv, RequestsOwnSession, RunAllOnNewKernel
<1>6. UnlistedWereDropped'
  BY <1>0 DEF SocketOpens, UnlistedWereDropped, Moves
<1> QED
  BY <1>1, <1>2, <1>3, <1>4, <1>5, <1>6

\* The server has made the session, the start or the deletion before it has
\* failed, or the session was deleted: neither the session nor the client
\* changes, and no operation reaches its websocket.
LEMMA EarlyMovePreserves ==
  ASSUME IInv, NEW o \in Op,
         PostServed(o) \/ PostFails(o) \/ DeleteAnswered(o) \/ DeleteFails(o)
  PROVE  IInv'
<1> USE DEF IInv, editorVars, atomVars
<1>0. PICK v \in {"answering", "posting", "failed"} :
        /\ Moves(o, v)
        /\ ops[o].at \in {"deleting", "posting", "answering"}
        /\ v = "answering" => ops[o].kernel \in running'
        /\ UnderWay(o)
  BY MovesOn DEF PostServed, PostFails, DeleteAnswered, DeleteFails, TypeOK,
     At, Pending, UnderWay
<1>1. /\ ops[o].kernel = o /\ o <= begun
      /\ UNCHANGED <<mounted, mount, session, client, connected, begun,
                     kernels, mapped, dropped, overlap, sent>>
      /\ running \subseteq running'
  BY <1>0 DEF PostServed, PostFails, DeleteAnswered, DeleteFails, OpsInv, Op,
     TypeOK
<1>2. /\ kernelName' \in KernelSpec \cup {None}
      /\ running' \subseteq 1..begun
  BY <1>0, <1>1 DEF PostServed, PostFails, DeleteAnswered, DeleteFails,
     OpsInv, Op, TypeOK, OpRecord
<1>3. showKernelSwitcher' \in BOOLEAN /\ showErrorDialog' \in BOOLEAN
  BY DEF PostServed, PostFails, DeleteAnswered, DeleteFails, Fails, TypeOK
<1>4. TypeOK'
  BY <1>0, <1>1, <1>2, <1>3 DEF TypeOK, Moves
<1>5. OpsInv'
  BY <1>0, <1>1 DEF OpsInv, Moves, Started
<1>6. SessionInv'
  BY <1>0, <1>1, KernelsAreOps DEF SessionInv, Moves, Started
<1>7. OverlapInv'
  BY <1>0, <1>1 DEF OverlapInv, Moves, Live, UnderWay, Pending
<1>8. RequestsInv' /\ UnlistedWereDropped'
  BY <1>0, <1>1 DEF RequestsInv, RequestsOwnSession, RunAllOnNewKernel,
     UnlistedWereDropped, Moves
<1> QED
  BY <1>4, <1>5, <1>6, <1>7, <1>8

\* The websocket fails to open.
LEMMA SocketFailsPreserves ==
  ASSUME IInv, NEW o \in Op, SocketFails(o)
  PROVE  IInv'
<1> USE DEF IInv, editorVars, atomVars
<1>0. Moves(o, "unopened") /\ ops[o].at = "opening" /\ UnderWay(o)
  BY MovesOn DEF SocketFails, TypeOK, At, Pending, UnderWay
<1>1. UNCHANGED <<mounted, mount, kernelName, session, client, connected,
                  begun, running, kernels, mapped, dropped, overlap, sent>>
  BY DEF SocketFails
<1>2. showKernelSwitcher' \in BOOLEAN /\ showErrorDialog' \in BOOLEAN
  BY DEF SocketFails, Fails, TypeOK
<1>3. TypeOK'
  BY <1>0, <1>1, <1>2 DEF TypeOK, Moves
<1>4. OpsInv' /\ SessionInv'
  BY <1>0, <1>1, KernelsAreOps DEF OpsInv, SessionInv, Moves, Started
<1>5. OverlapInv'
  BY <1>0, <1>1 DEF OverlapInv, Moves, Live, UnderWay, Pending
<1>6. RequestsInv' /\ UnlistedWereDropped'
  BY <1>0, <1>1 DEF RequestsInv, RequestsOwnSession, RunAllOnNewKernel,
     UnlistedWereDropped, Moves
<1> QED
  BY <1>3, <1>4, <1>5, <1>6

\* What disturbs neither the operations nor the session.
LEMMA DisplayPreserves ==
  ASSUME IInv,
         \/ ClientCloses \/ ToggleKernelSwitcher \/ ToggleErrorDialog
         \/ HandleTabClose \/ \E k \in kernels : KillKernel(k)
  PROVE  IInv'
<1> USE DEF IInv, editorVars, atomVars
<1>1. /\ UNCHANGED <<mount, kernelName, session, client, ops, begun, running,
                     mapped, overlap, sent>>
      /\ mounted' => mounted
      /\ connected' => connected /\ mounted'
  BY DEF ClientCloses, ToggleKernelSwitcher, ToggleErrorDialog,
     HandleTabClose, KillKernel, TypeOK, SessionInv
<1>a. /\ mounted' \in BOOLEAN /\ connected' \in BOOLEAN
      /\ kernels' \cup dropped' \subseteq running
      /\ kernels \cup dropped \subseteq kernels' \cup dropped'
  BY DEF ClientCloses, ToggleKernelSwitcher, ToggleErrorDialog,
     HandleTabClose, KillKernel, TypeOK
<1>2. showKernelSwitcher' \in BOOLEAN /\ showErrorDialog' \in BOOLEAN
  BY DEF ClientCloses, ToggleKernelSwitcher, ToggleErrorDialog,
     HandleTabClose, KillKernel, TypeOK
<1>3. TypeOK'
  BY <1>1, <1>a, <1>2 DEF TypeOK
<1>4. OpsInv' /\ SessionInv'
  BY <1>1 DEF OpsInv, SessionInv
<1>5. OverlapInv'
  BY <1>1 DEF OverlapInv, Live, UnderWay
<1>6. RequestsInv' /\ UnlistedWereDropped'
  BY <1>1, <1>a DEF RequestsInv, RequestsOwnSession, RunAllOnNewKernel,
     UnlistedWereDropped
<1> QED
  BY <1>3, <1>4, <1>5, <1>6

-----------------------------------------------------------------------------
(* The requests *)

\* The user runs a cell.
LEMMA SubmitPreserves ==
  ASSUME IInv, Submit
  PROVE  IInv'
<1> USE DEF IInv, editorVars, atomVars
<1> DEFINE q == Request(session, client, 0, Muddled)
<1>1. /\ sent' = sent \cup {q}
      /\ UNCHANGED <<mounted, mount, kernelName, session, client, connected,
                     showKernelSwitcher, showErrorDialog, ops, begun, running,
                     kernels, mapped, dropped, overlap>>
  BY DEF Submit
<1>2. /\ q.session = session /\ q.kernel = client /\ q.by = 0
      /\ q.muddled = Muddled
  BY RequestFields
<1>3. session \in running /\ client \in running
  BY DEF Submit, SessionInv, TypeOK
<1>4. Muddled \/ session = client
  BY DEF Submit, SessionInv, Muddled, Started
<1> HIDE DEF q
<1>5. TypeOK'
  BY <1>1, <1>2, <1>3 DEF TypeOK
<1>6. RequestsInv'
  BY <1>1, <1>2, <1>4 DEF RequestsInv, RequestsOwnSession, RunAllOnNewKernel
<1>7. OpsInv' /\ SessionInv' /\ OverlapInv' /\ UnlistedWereDropped'
  BY <1>1 DEF OpsInv, SessionInv, OverlapInv, UnlistedWereDropped, Live,
     UnderWay
<1> QED
  BY <1>5, <1>6, <1>7

\* All cells are run on the kernel that was started for it.
LEMMA SubmitAllPreserves ==
  ASSUME IInv, NEW o \in Op, SubmitAllCells(o)
  PROVE  IInv'
<1> USE DEF IInv, editorVars, atomVars
<1> DEFINE q == Request(session, client, o, Muddled)
<1>0. /\ Moves(o, "done") /\ ops[o].at = "executing" /\ ops[o].kernel = o
      /\ UnderWay(o)
  BY MovesOn DEF SubmitAllCells, TypeOK, OpsInv, At, Pending, UnderWay
<1>1. /\ \/ sent' = sent
         \/ sent' = sent \cup {q} /\ Live(o) /\ connected
      /\ UNCHANGED <<mounted, mount, kernelName, session, client, connected,
                     showKernelSwitcher, showErrorDialog, begun, running,
                     kernels, mapped, dropped, overlap>>
  BY DEF SubmitAllCells
<1>2. /\ q.session = session /\ q.kernel = client /\ q.by = o
      /\ q.muddled = Muddled
  BY RequestFields
<1>3. Live(o) /\ connected =>
        /\ session \in running /\ client \in running
        /\ Muddled \/ (session = client /\ client = o)
  BY <1>0 DEF SessionInv, OverlapInv, TypeOK, Muddled
<1> HIDE DEF q
<1>4. TypeOK'
  BY <1>0, <1>1, <1>2, <1>3 DEF TypeOK, Moves
<1>5. RequestsInv'
  BY <1>1, <1>2, <1>3 DEF RequestsInv, RequestsOwnSession, RunAllOnNewKernel
<1>6. OpsInv' /\ SessionInv'
  BY <1>0, <1>1, KernelsAreOps DEF OpsInv, SessionInv, Moves, Started
<1>7. OverlapInv'
  BY <1>0, <1>1 DEF OverlapInv, Moves, Live, UnderWay, Pending
<1>8. UnlistedWereDropped'
  BY <1>0, <1>1 DEF UnlistedWereDropped, Moves
<1> QED
  BY <1>4, <1>5, <1>6, <1>7, <1>8

-----------------------------------------------------------------------------
(* The beginnings *)

\* A new start, restart or reconnect of the open notebook disturbs nothing,
\* whatever becomes of the kernel's name, the list, the map and the switcher.
LEMMA BeginPreserves ==
  ASSUME IInv, mounted, NEW at \in {"deleting", "posting", "opening"},
         NEW kernel \in 0..MaxOps, NEW name \in KernelSpec \cup {None},
         NEW runs \in BOOLEAN, NEW asks \in BOOLEAN,
         Begin(at, kernel, name, runs, asks, mount),
         IF at = "opening"
           THEN session # 0 /\ kernel = session /\ runs = FALSE
           ELSE kernel = begun + 1,
         UNCHANGED <<mounted, mount, session, client, connected,
                     showErrorDialog, running, sent>>,
         kernelName' \in KernelSpec \cup {None}, mapped' \in {0, mapped},
         showKernelSwitcher' \in BOOLEAN,
         kernels' \cup dropped' \subseteq running,
         kernels \cup dropped \subseteq kernels' \cup dropped'
  PROVE  IInv'
<1> USE DEF IInv
<1> DEFINE n == begun + 1
<1>1. /\ n \in Op /\ begun' = n
      /\ Begins(n, at, kernel, runs, mount)
  <2>1. ops \in [Op -> OpRecord] /\ begun \in 0..MaxOps /\ mount \in 0..MaxMounts
    BY DEF TypeOK
  <2>2. at \in At
    BY DEF At, Pending
  <2> QED
    BY <2>1, <2>2, BeginsNew
<1>2. begun \in 0..MaxOps /\ n > begun
  BY SessionAssumption DEF TypeOK
<1>a. overlap' = \/ overlap /\ mount = mount
                 \/ \E o \in Op : UnderWay(o) /\ ops[o].mount = mount
  BY DEF Begin
<1>3. /\ running \subseteq Op /\ session \in Op \cup {0}
      /\ n \notin running /\ session # n
  BY <1>2, KernelsAreOps DEF TypeOK
<1>4. /\ ops[n].at = "idle"
      /\ \A o \in Op \ {n} : o > n <=> o > begun
  BY <1>1, <1>2 DEF OpsInv, Op
<1>5. overlap' \in BOOLEAN /\ (overlap => overlap')
  BY <1>a DEF TypeOK
<1>6. \A o \in Op \ {n} : /\ ops'[o] = ops[o]
                          /\ Live(o)' <=> Live(o)
                          /\ UnderWay(o)' <=> UnderWay(o)
  BY <1>1 DEF Begins, Live, UnderWay
<1>7. TypeOK'
  <2>1. running' \subseteq 1..begun'
    BY <1>1, <1>2 DEF TypeOK
  <2>2. begun' \in 0..MaxOps
    BY <1>1, SessionAssumption DEF Op
  <2> QED
    BY <1>1, <1>5, <2>1, <2>2 DEF TypeOK, Begins
<1>8. OpsInv'
  <2> SUFFICES ASSUME NEW o \in Op
      PROVE  /\ o > n <=> ops'[o].at = "idle"
             /\ ops'[o].mount <= mount
             /\ ops'[o].at # "idle" => ops'[o].kernel \in 1..o
             /\ ops'[o].at \in Started \cup {"answering"} =>
                  ops'[o].kernel \in running
             /\ ops'[o].at \in {"deleting", "posting", "answering"} =>
                  ops'[o].kernel = o
             /\ ops'[o].at # "idle" /\ ops'[o].runs => ops'[o].kernel = o
             /\ ops'[o].at = "executing" => ops'[o].runs
    BY <1>1 DEF OpsInv
  <2>1. CASE o = n
    <3>1. /\ ops'[o].at = at /\ ops'[o].kernel = kernel
          /\ ops'[o].mount = mount /\ ops'[o].runs = runs
      BY <1>1, <2>1 DEF Begins
    <3>2. kernel \in 1..n /\ mount <= mount
      BY <1>2, <1>3 DEF TypeOK
    <3>3. at = "opening" => kernel \in running /\ ~runs
      BY DEF TypeOK
    <3> QED
      BY <2>1, <3>1, <3>2, <3>3 DEF Started, Op
  <2>2. CASE o # n
    BY <1>4, <1>6, <2>2 DEF OpsInv
  <2> QED
    BY <2>1, <2>2
<1>9. SessionInv'
  BY <1>3, <1>5, <1>6 DEF SessionInv
<1>10. OverlapInv'
  <2>1. ASSUME NEW o \in Op, Live(o)', ops'[o].at \in {"opening", "executing"}
        PROVE  session # 0 /\ (~overlap' => session = ops'[o].kernel)
    <3>1. CASE o = n
      BY <1>1, <2>1, <3>1 DEF Begins
    <3>2. CASE o # n
      BY <1>5, <1>6, <2>1, <3>2 DEF OverlapInv
    <3> QED
      BY <3>1, <3>2
  <2>2. ~overlap' => \A o \in Op : UnderWay(o)' /\ ops'[o].mount = mount => o = n
    BY <1>a, <1>6
  <2> QED
    BY <2>1, <2>2 DEF OverlapInv
<1>11. RequestsInv'
  BY DEF RequestsInv, RequestsOwnSession, RunAllOnNewKernel
<1>12. UnlistedWereDropped'
  <2> SUFFICES ASSUME NEW o \in Op, ops'[o].kernel = o, ops'[o].at \in Started
      PROVE  o \in kernels' \cup dropped'
    BY DEF UnlistedWereDropped, Started
  <2>1. o # n
    BY <1>1, <1>3 DEF Begins, Started
  <2> QED
    BY <1>6, <2>1 DEF UnlistedWereDropped, Started
<1> QED
  BY <1>7, <1>8, <1>9, <1>10, <1>11, <1>12

\* The notebook is opened again: what goes on for the editors before does not
\* reach the new one.
LEMMA OpenPreserves ==
  ASSUME IInv, NEW kernelspec \in KernelSpec \cup {None},
         OpenNotebook(kernelspec)
  PROVE  IInv'
<1> USE DEF IInv, atomVars
<1>1. /\ mount' = mount + 1 /\ mount' \in 0..MaxMounts
      /\ mounted' = TRUE /\ connected' = FALSE /\ session' = 0 /\ client' = 0
      /\ kernelName' = kernelspec /\ showErrorDialog' = FALSE
      /\ showKernelSwitcher' = (kernelspec = None)
      /\ UNCHANGED <<running, kernels, mapped, dropped, sent>>
  BY SessionAssumption DEF OpenNotebook, TypeOK
<1>2. RequestsInv' /\ SessionInv'
  BY <1>1 DEF RequestsInv, RequestsOwnSession, RunAllOnNewKernel, SessionInv
<1>3. \A o \in Op : ops[o].mount <= mount + 1 /\ ops[o].mount # mount + 1
  BY DEF OpsInv, TypeOK, OpRecord
<1>4. CASE kernelspec = None
  <2>1. overlap' = FALSE /\ UNCHANGED <<ops, begun>>
    BY <1>4 DEF OpenNotebook
  <2>2. TypeOK'
    BY <1>1, <2>1 DEF TypeOK
  <2>3. OpsInv' /\ UnlistedWereDropped'
    BY <1>1, <1>3, <2>1 DEF OpsInv, UnlistedWereDropped
  <2>4. OverlapInv'
    BY <1>1, <1>3, <2>1 DEF OverlapInv, Live, UnderWay
  <2> QED
    BY <1>2, <2>2, <2>3, <2>4
<1>5. CASE kernelspec # None
  <2> DEFINE n == begun + 1
  <2>1. Begin("posting", n, kernelspec, FALSE, TRUE, mount + 1)
    BY <1>5 DEF OpenNotebook
  <2>2. begun \in 0..MaxOps /\ begun < MaxOps /\ n > begun /\ n \in 0..MaxOps
    BY <2>1, SessionAssumption DEF Begin, TypeOK
  <2>3. mount + 1 \in 0..MaxMounts
    BY <1>1
  <2>4. /\ n \in Op /\ begun' = n
        /\ Begins(n, "posting", n, FALSE, mount + 1)
    BY <2>1, <2>2, <2>3, BeginsNew DEF TypeOK, At, Pending
  <2>5. /\ overlap' = \/ overlap /\ mount + 1 = mount
                      \/ \E o \in Op : UnderWay(o) /\ ops[o].mount = mount + 1
        /\ mount + 1 # mount
    BY <2>1 DEF Begin, TypeOK
  <2>6. overlap' = FALSE
    BY <1>3, <2>5
  <2>7. TypeOK'
    <3>1. running' \subseteq 1..begun'
      BY <1>1, <2>2, <2>4 DEF TypeOK
    <3>2. /\ showKernelSwitcher' \in BOOLEAN /\ overlap' \in BOOLEAN
          /\ mounted' \in BOOLEAN /\ connected' \in BOOLEAN
          /\ showErrorDialog' \in BOOLEAN
      BY <1>1, <2>6
    <3> QED
      BY <1>1, <2>2, <2>4, <3>1, <3>2 DEF TypeOK, Begins
  <2>8. \A o \in Op \ {n} : ops'[o] = ops[o]
    BY <2>4 DEF Begins
  <2>9. /\ ops'[n].at = "posting" /\ ops'[n].kernel = n /\ ~ops'[n].runs
        /\ ops'[n].mount = mount + 1
    BY <2>4 DEF Begins
  <2>10. OpsInv'
    <3>1. \A o \in Op \ {n} : o > n <=> o > begun
      BY <2>2 DEF Op
    <3>2. n \in 1..n /\ mount + 1 <= mount'
      BY <1>1, <2>2
    <3> QED
      BY <1>1, <1>3, <2>4, <2>8, <2>9, <3>1, <3>2 DEF OpsInv, Started, Op
  <2>11. OverlapInv'
    BY <1>1, <1>3, <2>8, <2>9 DEF OverlapInv, Live, UnderWay
  <2>12. UnlistedWereDropped'
    BY <1>1, <2>8, <2>9 DEF UnlistedWereDropped
  <2> QED
    BY <1>2, <2>7, <2>10, <2>11, <2>12
<1> QED
  BY <1>4, <1>5

-----------------------------------------------------------------------------
(* The theorems *)

LEMMA InitIInv == Init => IInv
<1> SUFFICES ASSUME Init PROVE IInv
  OBVIOUS
<1> USE DEF Init
<1>1. Idle \in OpRecord /\ Idle.at = "idle" /\ Idle.mount = 0
  BY SessionAssumption DEF Idle, OpRecord
<1>2. \A o \in Op : ops[o] = Idle /\ o > 0
  BY DEF Op
<1>3. TypeOK
  <2>1. ops \in [Op -> OpRecord] /\ begun \in 0..MaxOps
    BY <1>1, SessionAssumption
  <2>2. mount \in 0..MaxMounts
    BY SessionAssumption
  <2> QED
    BY <2>1, <2>2 DEF TypeOK
<1>4. OpsInv /\ SessionInv /\ OverlapInv
  BY <1>1, <1>2 DEF OpsInv, SessionInv, OverlapInv, Started, Live, UnderWay,
     Pending
<1>5. RequestsInv /\ UnlistedWereDropped
  BY <1>1, <1>2 DEF RequestsInv, RequestsOwnSession, RunAllOnNewKernel,
     UnlistedWereDropped
<1> QED
  BY <1>3, <1>4, <1>5 DEF IInv

\* restartKernel, reConnectKernel and changeKernel are such beginnings, but
\* for a change to the kernelspec the notebook has.
LEMMA RestartPreserves ==
  ASSUME IInv, NEW runs \in BOOLEAN, Restart(runs)
  PROVE  IInv'
<1>1. Begin("deleting", begun + 1, kernelName, runs, FALSE, mount)
  BY DEF Restart
<1>2. begun + 1 \in 0..MaxOps
  BY <1>1, SessionAssumption DEF Begin, IInv, TypeOK
<1>3. /\ mounted
      /\ UNCHANGED <<mounted, mount, session, client, connected,
                     showErrorDialog, running, sent, kernelName, mapped,
                     showKernelSwitcher, kernels, dropped>>
      /\ kernelName \in KernelSpec \cup {None}
      /\ showKernelSwitcher \in BOOLEAN /\ kernels \cup dropped \subseteq running
  BY DEF Restart, editorVars, atomVars, IInv, TypeOK
<1> QED
  BY <1>1, <1>2, <1>3, BeginPreserves

LEMMA ReConnectPreserves ==
  ASSUME IInv, ReConnectKernel
  PROVE  IInv'
<1>1. Begin("opening", session, kernelName, FALSE, FALSE, mount)
  BY DEF ReConnectKernel
<1>2. session # 0 /\ session \in 0..MaxOps
  BY KernelsAreOps, SessionAssumption DEF ReConnectKernel, IInv, Op
<1>3. /\ mounted
      /\ UNCHANGED <<mounted, mount, session, client, connected,
                     showErrorDialog, running, sent, kernelName, mapped,
                     showKernelSwitcher, kernels, dropped>>
      /\ kernelName \in KernelSpec \cup {None}
      /\ showKernelSwitcher \in BOOLEAN /\ kernels \cup dropped \subseteq running
  BY DEF ReConnectKernel, editorVars, atomVars, IInv, TypeOK
<1> QED
  BY <1>1, <1>2, <1>3, BeginPreserves

LEMMA ChangeKernelPreserves ==
  ASSUME IInv, NEW value \in KernelSpec, ChangeKernel(value)
  PROVE  IInv'
<1>1. /\ mounted /\ kernels' = kernels \ {mapped} /\ mapped' = 0
      /\ dropped' = dropped \cup ({mapped} \ {0})
      /\ showKernelSwitcher' = FALSE
      /\ UNCHANGED <<mounted, mount, session, client, connected,
                     showErrorDialog, running, sent>>
  BY DEF ChangeKernel
<1>2. /\ kernels' \cup dropped' \subseteq running
      /\ kernels \cup dropped \subseteq kernels' \cup dropped'
      /\ kernelName' \in KernelSpec \cup {None}
  <2>1. 0 \notin running
    BY DEF IInv, TypeOK
  <2> QED
    BY <1>1, <2>1 DEF ChangeKernel, IInv, TypeOK
<1>3. CASE kernelName # value
  <2>1. Begin("posting", begun + 1, value, FALSE, TRUE, mount)
    BY <1>3 DEF ChangeKernel
  <2>2. begun + 1 \in 0..MaxOps
    BY <2>1, SessionAssumption DEF Begin, IInv, TypeOK
  <2> QED
    BY <1>1, <1>2, <2>1, <2>2, BeginPreserves
<1>4. CASE kernelName = value
  <2>1. UNCHANGED <<kernelName, ops, begun, overlap>>
    BY <1>4 DEF ChangeKernel
  <2>2. TypeOK'
    BY <1>1, <1>2, <2>1 DEF IInv, TypeOK
  <2>3. OpsInv' /\ SessionInv' /\ OverlapInv'
    BY <1>1, <2>1 DEF IInv, OpsInv, SessionInv, OverlapInv, Live, UnderWay
  <2>4. RequestsInv' /\ UnlistedWereDropped'
    BY <1>1, <1>2, <2>1 DEF IInv, RequestsInv, RequestsOwnSession,
       RunAllOnNewKernel, UnlistedWereDropped
  <2> QED
    BY <2>2, <2>3, <2>4 DEF IInv
<1> QED
  BY <1>3, <1>4

LEMMA Unchanged ==
  ASSUME IInv, UNCHANGED vars
  PROVE  IInv'
<1> USE DEF IInv, vars, editorVars, atomVars
<1>1. TypeOK'
  BY DEF TypeOK
<1>2. OpsInv' /\ SessionInv' /\ OverlapInv'
  BY DEF OpsInv, SessionInv, OverlapInv, Live, UnderWay
<1>3. RequestsInv' /\ UnlistedWereDropped'
  BY DEF RequestsInv, RequestsOwnSession, RunAllOnNewKernel,
     UnlistedWereDropped
<1> QED
  BY <1>1, <1>2, <1>3

LEMMA NextIInv == IInv /\ [Next]_vars => IInv'
<1> SUFFICES ASSUME IInv, [Next]_vars PROVE IInv'
  OBVIOUS
<1>1. ASSUME NEW o \in Op,
             \/ PostServed(o) \/ PostFails(o)
             \/ DeleteAnswered(o) \/ DeleteFails(o)
      PROVE  IInv'
  BY <1>1, EarlyMovePreserves
<1>2. ASSUME NEW o \in Op,
             Answered(o) \/ SocketOpens(o) \/ SocketFails(o)
               \/ SubmitAllCells(o)
      PROVE  IInv'
  BY <1>2, AnsweredPreserves, SocketOpensPreserves, SocketFailsPreserves,
     SubmitAllPreserves
<1>3. CASE Submit
  BY <1>3, SubmitPreserves
<1>4. ASSUME NEW runs \in BOOLEAN, Restart(runs) PROVE IInv'
  BY <1>4, RestartPreserves
<1>5. CASE ReConnectKernel
  BY <1>5, ReConnectPreserves
<1>6. ASSUME NEW value \in KernelSpec, ChangeKernel(value) PROVE IInv'
  BY <1>6, ChangeKernelPreserves
<1>7. ASSUME NEW kernelspec \in KernelSpec \cup {None},
             OpenNotebook(kernelspec)
      PROVE  IInv'
  BY <1>7, OpenPreserves
<1>8. CASE \/ ClientCloses \/ ToggleKernelSwitcher \/ ToggleErrorDialog
           \/ HandleTabClose \/ \E k \in kernels : KillKernel(k)
  BY <1>8, DisplayPreserves
<1>9. CASE UNCHANGED vars
  BY <1>9, Unchanged
<1> QED
  BY <1>1, <1>2, <1>3, <1>4, <1>5, <1>6, <1>7, <1>8, <1>9 DEF Next

LEMMA AlwaysIInv == Spec => []IInv
BY InitIInv, NextIInv, PTL DEF Spec

\* The session, the client, the list and the map of NotebookEditor.tsx name
\* only kernels that were started, whatever is answered or fails meanwhile.
THEOREM TypeCorrect == Spec => []TypeOK
<1>1. IInv => TypeOK
  BY DEF IInv
<1> QED
  BY <1>1, AlwaysIInv, PTL

\* What submitCell and the other senders of NotebookEditor.tsx send carries
\* the session of the kernel it goes to, unless that session's websocket is
\* not open or two operations of the editor overlapped.
THEOREM RequestsCarryOwnSession == Spec => []RequestsOwnSession
<1>1. IInv => RequestsOwnSession
  BY DEF IInv, RequestsInv
<1> QED
  BY <1>1, AlwaysIInv, PTL

\* restartAndExecuteAllCells runs the cells on the kernel it has started,
\* with the same exceptions.
THEOREM RunAllReachesNewKernel == Spec => []RunAllOnNewKernel
<1>1. IInv => RunAllOnNewKernel
  BY DEF IInv, RequestsInv
<1> QED
  BY <1>1, AlwaysIInv, PTL

\* A kernel startASession has an answer for leaves kernelsAtom only by what
\* the user does.
THEOREM KernelsStayListed == Spec => []UnlistedWereDropped
<1>1. IInv => UnlistedWereDropped
  BY DEF IInv
<1> QED
  BY <1>1, AlwaysIInv, PTL
=============================================================================
