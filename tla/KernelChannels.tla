--------------------------- MODULE KernelChannels ---------------------------
(***************************************************************************)
(* One websocket connection to a kernel (internal/kernel/channels.go): the *)
(* handler that dials the kernel and nudges it, the goroutine per ZeroMQ   *)
(* socket that polls for messages, the goroutine that writes them to the   *)
(* websocket, the one that reads the client's requests, their shared mutex *)
(* and the context that DELETE cancels.                                    *)
(*                                                                         *)
(* Messages of a channel are numbered in the order in which they reach the *)
(* socket; what the kernel publishes before the iopub subscription is up   *)
(* never does.                                                             *)
(***************************************************************************)
EXTENDS Naturals, Sequences

CONSTANTS
  Channel,      \* the polled sockets: iopub, control, stdin, shell
  MaxMsg        \* bound: messages that arrive on each channel

ASSUME ChannelAssumption == MaxMsg \in [Channel -> Nat]

VARIABLES
  handler,      \* where HandleWebSocket is
  nudger,       \* the goroutine that waits for the kernel_info_reply
  result,       \* the channel of capacity 1 it answers on
  arrived,      \* per channel, how many messages have reached the socket
  inbox,        \* per channel, those still waiting in it
  poller,       \* where each polling goroutine is
  held,         \* the message it has received and not handed over
  writer,       \* where WriteMessages is
  writing,      \* the message it has taken from Send, with its channel
  delivered,    \* per channel, messages written to the websocket
  reader,       \* where ReadMessagesFromClient is
  mu,           \* who holds kwsConn.mu
  cancelled,    \* PollingCancel was called
  conn,         \* "open" or "closed": the server's side of the websocket
  client        \* "there" or "gone"

dialVars  == <<handler, nudger, result>>
pollVars  == <<arrived, inbox, poller, held>>
writeVars == <<writer, writing, delivered>>
vars == <<dialVars, pollVars, writeVars, reader, mu, cancelled, conn, client>>

-----------------------------------------------------------------------------
(* HandleWebSocket after the upgrade: Connect = createStream; nudge;       *)
(* startPolling                                                            *)

\* The sockets are dialled; nudge opens a transient shell socket, sends one
\* kernel_info_request and starts a goroutine that waits for the answer.
CreateStreamAndNudge ==
  /\ handler = "stream"
  /\ handler' = "nudge"
  /\ nudger' = "recv"
  /\ UNCHANGED <<result, pollVars, writeVars, reader, mu, cancelled, conn,
                 client>>

\* Recv returns the kernel's reply, if the kernel answers,
NudgeReply ==
  /\ nudger = "recv" /\ handler = "nudge"
  /\ nudger' = "send"
  /\ UNCHANGED <<handler, result, pollVars, writeVars, reader, mu, cancelled,
                 conn, client>>

\* or an error, once nudge has closed the transient socket.
NudgeClosed ==
  /\ nudger = "recv" /\ handler # "nudge"
  /\ nudger' = "send"
  /\ UNCHANGED <<handler, result, pollVars, writeVars, reader, mu, cancelled,
                 conn, client>>

\* Mutant: result is made without a buffer, so the send needs a receiver.
NudgeSend_Unbuffered ==
  /\ nudger = "send"
  /\ handler = "nudge"
  /\ result' = "full"
  /\ nudger' = "done"
  /\ UNCHANGED <<handler, pollVars, writeVars, reader, mu, cancelled, conn,
                 client>>

\* The goroutine's only send goes to a buffer of one: it never blocks.
NudgeSend ==
  /\ nudger = "send"
  /\ result = "empty"
  /\ result' = "full"
  /\ nudger' = "done"
  /\ UNCHANGED <<handler, pollVars, writeVars, reader, mu, cancelled, conn,
                 client>>

\* Mutant: the select has no timeout.
NudgeReturns_NoTimeout ==
  /\ handler = "nudge"
  /\ result = "full" /\ result' = "empty"
  /\ handler' = "poll"
  /\ UNCHANGED <<nudger, pollVars, writeVars, reader, mu, cancelled, conn,
                 client>>

\* nudge's select: the result, or two seconds have passed.  Either way the
\* transient socket is closed and the connection goes on.
NudgeReturns ==
  /\ handler = "nudge"
  /\ \/ result = "full" /\ result' = "empty"    \* case res := <-result
     \/ UNCHANGED result                        \* case <-timeout
  /\ handler' = "poll"
  /\ UNCHANGED <<nudger, pollVars, writeVars, reader, mu, cancelled, conn,
                 client>>

\* startPolling: one goroutine per socket
StartPolling ==
  /\ handler = "poll"
  /\ handler' = "spawn"
  /\ poller' = [ch \in Channel |-> "check"]
  /\ UNCHANGED <<nudger, result, arrived, inbox, held, writeVars, reader, mu,
                 cancelled, conn, client>>

\* The connection is registered, and the reader and the writer start.
Spawn ==
  /\ handler = "spawn"
  /\ handler' = "done"
  /\ reader' = "check"
  /\ writer' = "check"
  /\ UNCHANGED <<nudger, result, pollVars, writing, delivered, mu, cancelled,
                 conn, client>>

-----------------------------------------------------------------------------
(* The kernel's side of the sockets (external)                             *)

MessageArrives(ch) ==
  /\ handler # "stream"
  /\ arrived[ch] < MaxMsg[ch]
  /\ arrived' = [arrived EXCEPT ![ch] = @ + 1]
  /\ inbox' = [inbox EXCEPT ![ch] = Append(@, arrived[ch] + 1)]
  /\ UNCHANGED <<dialVars, poller, held, writeVars, reader, mu,
                 cancelled, conn, client>>

-----------------------------------------------------------------------------
(* pollChannel: one goroutine per socket                                   *)

\* Mutant: the loop does not look at the context.
PollCheck_NoContext(ch) ==
  /\ poller[ch] = "check"
  /\ poller' = [poller EXCEPT ![ch] = "recv"]
  /\ UNCHANGED <<dialVars, arrived, inbox, held, writeVars, reader, mu,
                 cancelled, conn, client>>

\* select { case <-Context.Done(): return; default: ... }
PollCheck(ch) ==
  /\ poller[ch] = "check"
  /\ poller' = [poller EXCEPT ![ch] = IF cancelled THEN "return" ELSE "recv"]
  /\ UNCHANGED <<dialVars, arrived, inbox, held, writeVars, reader, mu,
                 cancelled, conn, client>>

\* socket.Recv returns the next message,
PollRecv(ch) ==
  /\ poller[ch] = "recv"
  /\ inbox[ch] # <<>>
  /\ inbox' = [inbox EXCEPT ![ch] = Tail(@)]
  /\ held' = [held EXCEPT ![ch] = <<Head(inbox[ch])>>]
  /\ poller' = [poller EXCEPT ![ch] = "send"]
  /\ UNCHANGED <<dialVars, arrived, writeVars, reader, mu, cancelled, conn,
                 client>>

\* Mutant: no continue after a failed Recv; the empty message is handed over.
PollRecvError_NoContinue(ch) ==
  /\ poller[ch] = "recv"
  /\ cancelled
  /\ held' = [held EXCEPT ![ch] = <<0>>]
  /\ poller' = [poller EXCEPT ![ch] = "send"]
  /\ UNCHANGED <<dialVars, arrived, inbox, writeVars, reader, mu, cancelled,
                 conn, client>>

\* or an error: the sockets were dialled with the connection's context.
PollRecvError(ch) ==
  /\ poller[ch] = "recv"
  /\ cancelled
  /\ poller' = [poller EXCEPT ![ch] = "check"]
  /\ UNCHANGED <<dialVars, arrived, inbox, held, writeVars, reader, mu,
                 cancelled, conn, client>>

\* Mutant: the poller offers the message again.
HandOver_Twice(ch) ==
  /\ poller[ch] = "send"
  /\ writer = "recv"
  /\ writer' = "lock"
  /\ writing' = <<<<ch, held[ch][1]>>>>
  /\ poller' = [poller EXCEPT ![ch] = "check"]
  /\ UNCHANGED <<dialVars, arrived, inbox, held, delivered, reader, mu,
                 cancelled, conn, client>>

\* Send is unbuffered: the poller's send and the writer's receive are one
\* step.  Neither of them watches the context while it waits.
HandOver(ch) ==
  /\ poller[ch] = "send"
  /\ writer = "recv"
  /\ writer' = "lock"
  /\ writing' = <<<<ch, held[ch][1]>>>>
  /\ held' = [held EXCEPT ![ch] = <<>>]
  /\ poller' = [poller EXCEPT ![ch] = "check"]
  /\ UNCHANGED <<dialVars, arrived, inbox, delivered, reader, mu, cancelled,
                 conn, client>>

\* The deferred function takes mu around pollingWait.Done().
PollReturn(ch) ==
  /\ poller[ch] = "return"
  /\ mu = "free"
  /\ poller' = [poller EXCEPT ![ch] = "done"]
  /\ UNCHANGED <<dialVars, arrived, inbox, held, writeVars, reader, mu,
                 cancelled, conn, client>>

-----------------------------------------------------------------------------
(* WriteMessages *)

WriteCheck ==
  /\ writer = "check"
  /\ writer' = IF cancelled THEN "done" ELSE "recv"
  /\ conn' = IF cancelled THEN "closed" ELSE conn
  /\ UNCHANGED <<dialVars, pollVars, writing, delivered, reader, mu, cancelled,
                 client>>

WriteLock ==
  /\ writer = "lock"
  /\ mu = "free"
  /\ mu' = "writer"
  /\ writer' = "write"
  /\ UNCHANGED <<dialVars, pollVars, writing, delivered, reader, cancelled,
                 conn, client>>

\* Mutant: the mutex is not unlocked after a write.
WriteMessage_KeepsLock ==
  /\ writer = "write"
  /\ conn = "open"
  /\ delivered' = [delivered EXCEPT ![writing[1][1]] =
                     Append(@, writing[1][2])]
  /\ writing' = <<>>
  /\ writer' = "check"
  /\ UNCHANGED <<dialVars, pollVars, reader, mu, cancelled, conn, client>>

\* The write to the websocket succeeds and mu is released; to a client that
\* has gone it may still succeed, into the socket's buffer.
WriteMessage ==
  /\ writer = "write"
  /\ conn = "open"
  /\ delivered' = [delivered EXCEPT ![writing[1][1]] =
                     Append(@, writing[1][2])]
  /\ writing' = <<>>
  /\ mu' = "free"
  /\ writer' = "check"
  /\ UNCHANGED <<dialVars, pollVars, reader, cancelled, conn, client>>

\* The write fails: the goroutine closes the websocket and returns, and mu
\* stays locked.
WriteError ==
  /\ writer = "write"
  /\ conn = "closed" \/ client = "gone"
  /\ conn' = "closed"
  /\ writer' = "done"
  /\ UNCHANGED <<dialVars, pollVars, writing, delivered, reader, mu, cancelled,
                 client>>

-----------------------------------------------------------------------------
(* ReadMessagesFromClient *)

ReadCheck ==
  /\ reader = "check"
  /\ reader' = IF cancelled THEN "done" ELSE "read"
  /\ conn' = IF cancelled THEN "closed" ELSE conn
  /\ UNCHANGED <<dialVars, pollVars, writeVars, mu, cancelled, client>>

\* A request of the client is passed on to the kernel's shell or stdin
\* socket, or dropped if it is not JSON; the reader never blocks on that.
ReadRequest ==
  /\ reader = "read"
  /\ client = "there" /\ conn = "open"
  /\ reader' = "check"
  /\ UNCHANGED <<dialVars, pollVars, writeVars, mu, cancelled, conn, client>>

\* ReadMessage fails: the deferred function closes the websocket.
ReadError ==
  /\ reader = "read"
  /\ client = "gone" \/ conn = "closed"
  /\ conn' = "closed"
  /\ reader' = "done"
  /\ UNCHANGED <<dialVars, pollVars, writeVars, mu, cancelled, client>>

-----------------------------------------------------------------------------
(* The outside world *)

ClientLeaves ==
  /\ client = "there"
  /\ client' = "gone"
  /\ UNCHANGED <<dialVars, pollVars, writeVars, reader, mu, cancelled, conn>>

\* KernelDeleteAPIHandler found the connection and calls PollingCancel.
Cancel ==
  /\ handler = "done"
  /\ ~cancelled
  /\ cancelled' = TRUE
  /\ UNCHANGED <<dialVars, pollVars, writeVars, reader, mu, conn, client>>

-----------------------------------------------------------------------------
Init ==
  /\ handler = "stream"
  /\ nudger = "none"
  /\ result = "empty"
  /\ arrived = [ch \in Channel |-> 0]
  /\ inbox = [ch \in Channel |-> <<>>]
  /\ poller = [ch \in Channel |-> "none"]
  /\ held = [ch \in Channel |-> <<>>]
  /\ writer = "none"
  /\ writing = <<>>
  /\ delivered = [ch \in Channel |-> <<>>]
  /\ reader = "none"
  /\ mu = "free"
  /\ cancelled = FALSE
  /\ conn = "open"
  /\ client = "there"

Dial == CreateStreamAndNudge \/ NudgeReturns \/ StartPolling \/ Spawn

Nudger == NudgeClosed \/ NudgeSend

Poller(ch) == PollCheck(ch) \/ PollRecv(ch) \/ PollRecvError(ch) \/ PollReturn(ch)

Writer == WriteCheck \/ WriteLock \/ WriteMessage \/ WriteError

Reader == ReadCheck \/ ReadError

Next ==
  \/ Dial \/ NudgeReply \/ Nudger
  \/ \E ch \in Channel : MessageArrives(ch) \/ Poller(ch) \/ HandOver(ch)
  \/ Writer
  \/ Reader \/ ReadRequest
  \/ ClientLeaves \/ Cancel

Spec == Init /\ [][Next]_vars

\* Go runs every goroutine that can run, and a sender queued on a channel
\* gets its turn.  Kernel, client and DELETE request may do nothing.
Fairness ==
  /\ WF_vars(Dial) /\ WF_vars(Nudger)
  /\ \A ch \in Channel : WF_vars(Poller(ch)) /\ SF_vars(HandOver(ch))
  /\ WF_vars(Writer) /\ WF_vars(Reader)

FairSpec == Spec /\ Fairness

-----------------------------------------------------------------------------
(* Properties *)

TypeOK ==
  /\ handler \in {"stream", "nudge", "poll", "spawn", "done"}
  /\ nudger \in {"none", "recv", "send", "done"}
  /\ result \in {"empty", "full"}
  /\ arrived \in [Channel -> Nat] /\ inbox \in [Channel -> Seq(Nat)]
  /\ held \in [Channel -> Seq(Nat)] /\ delivered \in [Channel -> Seq(Nat)]
  /\ \A ch \in Channel :
       /\ arrived[ch] <= MaxMsg[ch]
       /\ inbox[ch] \in Seq(1..MaxMsg[ch]) /\ held[ch] \in Seq(1..MaxMsg[ch])
       /\ delivered[ch] \in Seq(1..MaxMsg[ch])
  /\ poller \in [Channel -> {"none", "check", "recv", "send", "return", "done"}]
  /\ writer \in {"none", "check", "recv", "lock", "write", "done"}
  /\ writing \in Seq(Channel \X Nat)
  /\ reader \in {"none", "check", "read", "done"}
  /\ mu \in {"free", "writer"} /\ cancelled \in BOOLEAN
  /\ conn \in {"open", "closed"} /\ client \in {"there", "gone"}

\* What the writer holds of channel ch.
Taken(ch) == IF writing # <<>> /\ writing[1][1] = ch THEN <<writing[1][2]>>
             ELSE <<>>

\* Per channel nothing is lost, duplicated or reordered between the socket
\* and the websocket: what was written, what the writer and the poller hold
\* and what waits in the socket is what arrived, in its order, also after a
\* cancel, a failed write or a client that has gone.
StreamIntact ==
  \A ch \in Channel :
    delivered[ch] \o Taken(ch) \o held[ch] \o inbox[ch]
      = [n \in 1..arrived[ch] |-> n]

\* kwsConn.mu is held exactly around a write, except that the write that
\* fails leaves it held for ever.
MutexOnlyAroundWrites ==
  mu = "writer" <=> writer = "write" \/ (writer = "done" /\ writing # <<>>)

\* A message that arrived is written to the websocket in the end, however
\* the four pollers compete for the writer, unless the client left or the
\* polling was cancelled.
EventuallyDelivered ==
  \A ch \in Channel : \A n \in 1..MaxMsg[ch] :
    arrived[ch] >= n ~> \/ \E i \in DOMAIN delivered[ch] : delivered[ch][i] = n
                        \/ cancelled \/ client = "gone"

\* A poller that can never end: blocked on Send, whose only receiver has
\* returned, or on the mutex a failed write left locked.
Stuck(ch) ==
  /\ writer = "done"
  /\ poller[ch] = "send" \/ (poller[ch] = "return" /\ mu = "writer")

\* After a cancel each poller ends, or is stuck in one of these two ways.
PollersEndOrStick ==
  \A ch \in Channel : cancelled ~> (poller[ch] = "done" \/ Stuck(ch))

\* The goroutine nudge leaves behind ends, also when the kernel never
\* answers: its result fits into the channel nobody reads any more.
NudgerEnds == (nudger = "recv") ~> (nudger = "done")
=============================================================================
