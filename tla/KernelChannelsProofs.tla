------------------------ MODULE KernelChannelsProofs ------------------------
(***************************************************************************)
(* Theorems about KernelChannels, for any channels and any number of       *)
(* messages on each.                                                       *)
(***************************************************************************)
EXTENDS KernelChannels, SequenceTheorems, TLAPS

Msg(ch) == 1..MaxMsg[ch]

\* What a poller holds is the message it offers, and nothing else.
HeldInv ==
  \A ch \in Channel :
    IF poller[ch] = "send" THEN \E n \in Msg(ch) : held[ch] = <<n>>
    ELSE held[ch] = <<>>

\* The goroutines start one after the other.
StartInv ==
  /\ handler \in {"stream", "nudge", "poll"} =>
       \A ch \in Channel : poller[ch] = "none"
  /\ handler # "done" => writer = "none"

\* What the writer holds is one message, from its receive to its write.
HoldsOne == \E ch \in Channel : \E n \in Msg(ch) : writing = <<<<ch, n>>>>

WritingInv ==
  /\ writer \in {"none", "check", "recv"} => writing = <<>>
  /\ writer \in {"lock", "write"} => HoldsOne
  /\ writer = "done" => writing = <<>> \/ HoldsOne

IInv ==
  /\ TypeOK /\ HeldInv /\ StartInv /\ WritingInv
  /\ StreamIntact /\ MutexOnlyAroundWrites

-----------------------------------------------------------------------------
(* The four ways a message moves on, on sequences: what was written, what  *)
(* the writer holds, what the poller holds, what waits.                    *)

Upto(n) == [k \in 1..n |-> k]

LEMMA ConcatIn ==
  ASSUME NEW S, NEW s \in Seq(S), NEW t \in Seq(S)
  PROVE  s \o t \in Seq(S)
BY ConcatProperties

LEMMA EmptyList == <<>> \in Seq(Nat)
OBVIOUS

LEMMA OneElement ==
  ASSUME NEW x \in Nat
  PROVE  <<x>> \in Seq(Nat) /\ Len(<<x>>) = 1 /\ <<x>>[1] = x
OBVIOUS

\* Concatenation of message lists is associative.
LEMMA ConcatThree ==
  \A a, b, c \in Seq(Nat) : (a \o b) \o c = a \o (b \o c)
<1> SUFFICES ASSUME NEW a \in Seq(Nat), NEW b \in Seq(Nat), NEW c \in Seq(Nat)
             PROVE  (a \o b) \o c = a \o (b \o c)
  OBVIOUS
<1> DEFINE l == (a \o b) \o c
           r == a \o (b \o c)
<1>1. /\ a \o b \in Seq(Nat) /\ Len(a \o b) = Len(a) + Len(b)
      /\ b \o c \in Seq(Nat) /\ Len(b \o c) = Len(b) + Len(c)
      /\ Len(a) \in Nat /\ Len(b) \in Nat /\ Len(c) \in Nat
  OBVIOUS
<1>2. /\ l \in Seq(Nat) /\ Len(l) = Len(a) + Len(b) + Len(c)
      /\ r \in Seq(Nat) /\ Len(r) = Len(a) + Len(b) + Len(c)
  BY <1>1
<1>3. ASSUME NEW k \in 1..(Len(a) + Len(b) + Len(c))
      PROVE  l[k] = r[k]
  <2>1. CASE k <= Len(a)
    BY <1>1, <2>1
  <2>2. CASE Len(a) < k /\ k <= Len(a) + Len(b)
    BY <1>1, <2>2
  <2>3. CASE Len(a) + Len(b) < k
    BY <1>1, <2>3
  <2> QED
    BY <1>1, <2>1, <2>2, <2>3
<1>4. l = r
  <2> HIDE DEF l, r
  <2> QED
    BY <1>1, <1>2, <1>3, SeqEqual
<1> QED
  BY <1>4

\* An element appended to the second list is appended to both.
LEMMA AppendConcat ==
  ASSUME NEW s \in Seq(Nat), NEW i \in Seq(Nat), NEW e \in Nat
  PROVE  s \o Append(i, e) = (s \o i) \o <<e>>
<1>1. <<e>> \in Seq(Nat)
  BY OneElement
<1>2. Append(i, e) = i \o <<e>>
  BY AppendIsConcat
<1>3. (s \o i) \o <<e>> = s \o (i \o <<e>>)
  BY <1>1, ConcatThree, Zenon
<1> QED
  BY <1>2, <1>3

\* A message arrives at the end.
LEMMA ArrivesAtEnd ==
  ASSUME NEW s \in Seq(Nat), NEW i \in Seq(Nat), NEW n \in Nat,
         s \o i = Upto(n)
  PROVE  s \o Append(i, n + 1) = Upto(n + 1)
<1> DEFINE c == Upto(n)
           m == Upto(n + 1)
<1>1. n + 1 \in Nat
  OBVIOUS
<1>2. s \o Append(i, n + 1) = (s \o i) \o <<n + 1>>
  BY <1>1, AppendConcat
<1>3. c \in Seq(Nat) /\ Len(c) = n /\ \A k \in 1..n : c[k] = k
  BY DEF Upto
<1>4. m \in Seq(Nat) /\ Len(m) = n + 1 /\ \A k \in 1..(n + 1) : m[k] = k
  BY DEF Upto
<1>5. s \o i = c
  OBVIOUS
<1> HIDE DEF c, m
<1>6. c \o <<n + 1>> = Append(c, n + 1)
  BY <1>3, AppendIsConcat
<1>7. Append(c, n + 1) = m
  <2>1. /\ Append(c, n + 1) \in Seq(Nat) /\ Len(Append(c, n + 1)) = n + 1
        /\ \A k \in 1..n : Append(c, n + 1)[k] = c[k]
        /\ Append(c, n + 1)[n + 1] = n + 1
    BY <1>3, AppendProperties
  <2>2. \A k \in 1..(n + 1) : Append(c, n + 1)[k] = m[k]
    BY <1>3, <1>4, <2>1
  <2> QED
    BY <1>4, <2>1, <2>2, SeqEqual
<1> QED
  BY <1>2, <1>5, <1>6, <1>7 DEF m

\* The poller receives the first.
LEMMA FirstReceived ==
  ASSUME NEW s \in Seq(Nat), NEW i \in Seq(Nat), i # <<>>
  PROVE  (s \o <<Head(i)>>) \o Tail(i) = (s \o <<>>) \o i
<1>1. Head(i) \in Nat /\ Tail(i) \in Seq(Nat) /\ <<Head(i)>> \in Seq(Nat)
  BY HeadTailProperties
<1>2. i = <<Head(i)>> \o Tail(i)
  <2>1. Len(i) \in Nat \ {0} /\ Head(i) = i[1]
    BY EmptySeq
  <2>2. SubSeq(i, 1, Len(i)) = i /\ SubSeq(i, 2, Len(i)) = Tail(i)
    BY SubSeqFull, TailIsSubSeq
  <2>3. SubSeq(i, 1, Len(i)) = <<i[1]>> \o SubSeq(i, 1 + 1, Len(i))
    BY <2>1, SubSeqRecursiveFirst
  <2> QED
    BY <2>1, <2>2, <2>3
<1>3. s \o <<>> = s
  BY ConcatEmptySeq
<1>4. (s \o <<Head(i)>>) \o Tail(i) = s \o (<<Head(i)>> \o Tail(i))
  BY <1>1, ConcatThree, Zenon
<1> QED
  BY <1>2, <1>3, <1>4

\* The poller hands over what it holds.
LEMMA HandedOver ==
  ASSUME NEW d \in Seq(Nat), NEW x \in Nat
  PROVE  (d \o <<x>>) \o <<>> = (d \o <<>>) \o <<x>>
<1>1. d \o <<>> = d /\ <<x>> \in Seq(Nat)
  BY ConcatEmptySeq, OneElement
<1>2. d \o <<x>> \in Seq(Nat)
  BY <1>1, ConcatIn
<1>3. (d \o <<x>>) \o <<>> = d \o <<x>>
  BY <1>2, ConcatEmptySeq
<1> QED
  BY <1>1, <1>3

\* The writer writes what it holds.
LEMMA Written ==
  ASSUME NEW d \in Seq(Nat), NEW x \in Nat
  PROVE  Append(d, x) \in Seq(Nat) /\ Append(d, x) \o <<>> = d \o <<x>>
<1>1. Append(d, x) \in Seq(Nat)
  OBVIOUS
<1>2. Append(d, x) = d \o <<x>>
  OBVIOUS
<1> QED
  BY <1>1, <1>2, ConcatEmptySeq

-----------------------------------------------------------------------------
(* Initial states, and steps that move no message *)

LEMMA InitIInv == Init => IInv
<1> SUFFICES ASSUME Init PROVE IInv
  OBVIOUS
<1> USE DEF Init
<1>1. TypeOK
  <2>1. ASSUME NEW ch \in Channel
        PROVE  /\ arrived[ch] <= MaxMsg[ch]
               /\ inbox[ch] = <<>> /\ held[ch] = <<>> /\ delivered[ch] = <<>>
    BY ChannelAssumption
  <2>2. \A S : <<>> \in Seq(S)
    OBVIOUS
  <2> QED
    BY <2>1, <2>2 DEF TypeOK
<1>2. HeldInv /\ StartInv /\ WritingInv /\ MutexOnlyAroundWrites
  BY DEF HeldInv, StartInv, WritingInv, MutexOnlyAroundWrites
<1>3. StreamIntact
  <2> SUFFICES ASSUME NEW ch \in Channel
      PROVE  delivered[ch] \o Taken(ch) \o held[ch] \o inbox[ch]
               = [n \in 1..arrived[ch] |-> n]
    BY DEF StreamIntact
  <2>1. /\ delivered[ch] = <<>> /\ Taken(ch) = <<>> /\ held[ch] = <<>>
        /\ inbox[ch] = <<>> /\ arrived[ch] = 0
    BY DEF Taken
  <2>2. <<>> \in Seq(Nat) /\ <<>> \o <<>> = <<>>
    OBVIOUS
  <2>3. [n \in 1..0 |-> n] = <<>>
    OBVIOUS
  <2> QED
    BY <2>1, <2>2, <2>3
<1> QED
  BY <1>1, <1>2, <1>3 DEF IInv

\* Where the messages are.
messageVars == <<arrived, inbox, held, writing, delivered>>

LEMMA StreamStays ==
  ASSUME StreamIntact, UNCHANGED messageVars
  PROVE  StreamIntact'
BY DEF StreamIntact, Taken, messageVars

\* The handler, the nudging goroutine, the reader and the outside world touch
\* neither the messages nor the mutex.
LEMMA OtherStepsKeepIInv ==
  ASSUME IInv,
         Dial \/ NudgeReply \/ Nudger \/ Reader \/ ReadRequest
           \/ ClientLeaves \/ Cancel
  PROVE  IInv'
<1> USE DEF IInv, dialVars, pollVars, writeVars
<1>1. /\ UNCHANGED messageVars /\ UNCHANGED mu
      /\ poller' = poller \/ StartPolling
      /\ writer' = writer \/ Spawn
  BY DEF Dial, CreateStreamAndNudge, NudgeReturns, StartPolling, Spawn,
         NudgeReply, Nudger, NudgeClosed, NudgeSend, Reader, ReadCheck,
         ReadError, ReadRequest, ClientLeaves, Cancel, messageVars
<1>2. /\ handler' \in {"stream", "nudge", "poll", "spawn", "done"}
      /\ nudger' \in {"none", "recv", "send", "done"}
      /\ result' \in {"empty", "full"}
      /\ reader' \in {"none", "check", "read", "done"}
      /\ cancelled' \in BOOLEAN
      /\ conn' \in {"open", "closed"} /\ client' \in {"there", "gone"}
  BY DEF TypeOK, Dial, CreateStreamAndNudge, NudgeReturns, StartPolling, Spawn,
         NudgeReply, Nudger, NudgeClosed, NudgeSend, Reader, ReadCheck,
         ReadError, ReadRequest, ClientLeaves, Cancel
<1>3. TypeOK'
  BY <1>1, <1>2 DEF TypeOK, StartPolling, Spawn, messageVars
<1>4. HeldInv'
  BY <1>1 DEF HeldInv, StartInv, StartPolling, messageVars, Msg
<1>5. StartInv'
  BY DEF StartInv, Dial, CreateStreamAndNudge, NudgeReturns, StartPolling,
         Spawn, NudgeReply, Nudger, NudgeClosed, NudgeSend, Reader, ReadCheck,
         ReadError, ReadRequest, ClientLeaves, Cancel
<1>6. WritingInv' /\ MutexOnlyAroundWrites'
  BY <1>1 DEF WritingInv, MutexOnlyAroundWrites, HoldsOne, StartInv, Spawn,
              messageVars, Msg
<1>7. StreamIntact'
  BY <1>1, StreamStays
<1> QED
  BY <1>3, <1>4, <1>5, <1>6, <1>7

\* Nor do a poller that looks at the context, fails or returns, and the
\* writer up to its write move a message.
LEMMA QuietStepsKeepIInv ==
  ASSUME IInv,
         \/ \E ch \in Channel : PollCheck(ch) \/ PollRecvError(ch) \/ PollReturn(ch)
         \/ WriteCheck \/ WriteLock \/ WriteError
  PROVE  IInv'
<1> USE DEF IInv, dialVars, pollVars, writeVars
<1>1. UNCHANGED messageVars /\ UNCHANGED handler
  BY DEF PollCheck, PollRecvError, PollReturn, WriteCheck, WriteLock,
         WriteError, messageVars
<1>2. CASE \E ch \in Channel : PollCheck(ch) \/ PollRecvError(ch) \/ PollReturn(ch)
  <2>1. PICK ch \in Channel : PollCheck(ch) \/ PollRecvError(ch) \/ PollReturn(ch)
    BY <1>2
  <2>2. PICK at \in {"check", "recv", "return", "done"} :
           /\ poller[ch] \in {"check", "recv", "return"}
           /\ poller' = [poller EXCEPT ![ch] = at]
           /\ UNCHANGED <<nudger, result, writer, reader, mu, cancelled, conn, client>>
    BY <2>1 DEF PollCheck, PollRecvError, PollReturn
  <2>3. TypeOK'
    BY <1>1, <2>2 DEF TypeOK, messageVars
  <2>4. HeldInv' /\ StartInv'
    BY <1>1, <2>2 DEF HeldInv, StartInv, TypeOK, messageVars, Msg
  <2>5. WritingInv' /\ MutexOnlyAroundWrites'
    BY <1>1, <2>2 DEF WritingInv, MutexOnlyAroundWrites, HoldsOne, messageVars, Msg
  <2> QED
    BY <1>1, <2>3, <2>4, <2>5, StreamStays
<1>3. CASE WriteCheck \/ WriteLock \/ WriteError
  <2>1. TypeOK'
    BY <1>1, <1>3 DEF TypeOK, messageVars, WriteCheck, WriteLock, WriteError
  <2>2. HeldInv' /\ StartInv'
    BY <1>1, <1>3 DEF HeldInv, StartInv, messageVars, Msg, WriteCheck,
                      WriteLock, WriteError
  <2>3. WritingInv'
    BY <1>1, <1>3 DEF WritingInv, HoldsOne, messageVars, Msg, WriteCheck,
                      WriteLock, WriteError
  <2>4. MutexOnlyAroundWrites'
    <3>1. HoldsOne => writing # <<>>
      BY DEF HoldsOne
    <3> QED
      BY <1>1, <1>3, <3>1 DEF MutexOnlyAroundWrites, WritingInv, TypeOK,
                      messageVars, WriteCheck, WriteLock, WriteError
  <2> QED
    BY <1>1, <2>1, <2>2, <2>3, <2>4, StreamStays
<1> QED
  BY <1>2, <1>3

-----------------------------------------------------------------------------
(* Steps that move a message *)

\* Every list of messages is a list of numbers.
LEMMA MessageTypes ==
  ASSUME IInv, NEW ch \in Channel
  PROVE  /\ delivered[ch] \in Seq(Nat) /\ Taken(ch) \in Seq(Nat)
         /\ held[ch] \in Seq(Nat) /\ inbox[ch] \in Seq(Nat)
         /\ arrived[ch] \in Nat /\ MaxMsg[ch] \in Nat /\ Msg(ch) \subseteq Nat
<1>1. MaxMsg[ch] \in Nat /\ Msg(ch) \subseteq Nat
  BY ChannelAssumption DEF Msg
<1>2. /\ delivered[ch] \in Seq(Msg(ch)) /\ held[ch] \in Seq(Msg(ch))
      /\ inbox[ch] \in Seq(Msg(ch)) /\ arrived[ch] \in Nat
  BY DEF IInv, TypeOK, Msg
<1>3. delivered[ch] \in Seq(Nat) /\ held[ch] \in Seq(Nat) /\ inbox[ch] \in Seq(Nat)
  BY <1>1, <1>2, SeqMonotonic
<1>4. Taken(ch) \in Seq(Nat)
  <2>1. writing = <<>> \/ HoldsOne
    BY DEF IInv, WritingInv, TypeOK
  <2>2. CASE writing = <<>>
    <3>1. Taken(ch) = <<>>
      BY <2>2 DEF Taken
    <3> QED
      BY <3>1, EmptyList
  <2>3. CASE HoldsOne
    <3>1. PICK c \in Channel : \E n \in Msg(c) : writing = <<<<c, n>>>>
      BY <2>3 DEF HoldsOne
    <3>2. PICK n \in Msg(c) : writing = <<<<c, n>>>>
      BY <3>1
    <3>3. <<n>> \in Seq(Nat)
      BY ChannelAssumption, OneElement DEF Msg
    <3>4. Taken(ch) \in {<<n>>, <<>>}
      BY <3>2 DEF Taken
    <3> QED
      BY <3>3, <3>4, EmptyList
  <2> QED
    BY <2>1, <2>2, <2>3
<1> QED
  BY <1>1, <1>2, <1>3, <1>4

LEMMA ArrivalKeepsIInv ==
  ASSUME IInv, NEW ch \in Channel, MessageArrives(ch)
  PROVE  IInv'
<1> USE DEF IInv, dialVars, pollVars, writeVars
<1>1. /\ arrived[ch] < MaxMsg[ch]
      /\ arrived' = [arrived EXCEPT ![ch] = arrived[ch] + 1]
      /\ inbox' = [inbox EXCEPT ![ch] = Append(inbox[ch], arrived[ch] + 1)]
      /\ UNCHANGED <<dialVars, poller, held, writeVars, reader, mu, cancelled,
                     conn, client>>
  BY DEF MessageArrives
<1>2. arrived[ch] \in Nat /\ MaxMsg[ch] \in Nat
      /\ arrived[ch] + 1 \in 1..MaxMsg[ch]
  BY <1>1, MessageTypes
<1>3. TypeOK'
  <2>1. ASSUME NEW c \in Channel
        PROVE  arrived'[c] <= MaxMsg[c] /\ inbox'[c] \in Seq(1..MaxMsg[c])
    <3>1. CASE c = ch
      <4>1. inbox[ch] \in Seq(1..MaxMsg[ch])
        BY DEF TypeOK
      <4>2. Append(inbox[ch], arrived[ch] + 1) \in Seq(1..MaxMsg[ch])
        BY <1>2, <4>1, AppendProperties
      <4> QED
        BY <1>1, <1>2, <3>1, <4>2 DEF TypeOK
    <3>2. CASE c # ch
      BY <1>1, <3>2 DEF TypeOK
    <3> QED
      BY <3>1, <3>2
  <2>2. arrived' \in [Channel -> Nat]
    BY <1>1, <1>2 DEF TypeOK
  <2> QED
    BY <1>1, <2>1, <2>2 DEF TypeOK
<1>4. StreamIntact'
  <2> SUFFICES ASSUME NEW c \in Channel
      PROVE  (delivered[c] \o Taken(c) \o held[c] \o inbox[c]
               = [n \in 1..arrived[c] |-> n])'
    BY DEF StreamIntact
  <2> DEFINE s == delivered[c] \o Taken(c) \o held[c]
  <2>1. s \in Seq(Nat) /\ inbox[c] \in Seq(Nat)
    BY MessageTypes, ConcatIn
  <2>2. s \o inbox[c] = [n \in 1..arrived[c] |-> n]
    BY DEF StreamIntact
  <2>3. s' = s
    BY <1>1 DEF Taken
  <2> HIDE DEF s
  <2>4. CASE c = ch
    <3>1. s \o Append(inbox[c], arrived[c] + 1)
            = [n \in 1..(arrived[c] + 1) |-> n]
      <4> DEFINE i == inbox[c]
                 a == arrived[c]
      <4>1. s \in Seq(Nat) /\ i \in Seq(Nat) /\ a \in Nat
            /\ s \o i = Upto(a)
        BY <1>2, <2>1, <2>2, <2>4 DEF Upto
      <4> HIDE DEF i, a
      <4>2. s \o Append(i, a + 1) = Upto(a + 1)
        BY <4>1, ArrivesAtEnd
      <4> QED
        BY <4>2 DEF i, a, Upto
    <3>2. inbox'[c] = Append(inbox[c], arrived[c] + 1) /\ arrived'[c] = arrived[c] + 1
      BY <1>1, <2>4 DEF TypeOK, MessageArrives
    <3> QED
      BY <2>3, <3>1, <3>2 DEF s
  <2>5. CASE c # ch
    <3>1. inbox'[c] = inbox[c] /\ arrived'[c] = arrived[c]
      BY <1>1, <2>5 DEF TypeOK
    <3> QED
      BY <2>2, <2>3, <3>1 DEF s
  <2> QED
    BY <2>4, <2>5
<1>5. HeldInv' /\ StartInv' /\ WritingInv' /\ MutexOnlyAroundWrites'
  BY <1>1 DEF HeldInv, StartInv, WritingInv, HoldsOne, MutexOnlyAroundWrites, Msg
<1> QED
  BY <1>3, <1>4, <1>5

LEMMA RecvKeepsIInv ==
  ASSUME IInv, NEW ch \in Channel, PollRecv(ch)
  PROVE  IInv'
<1> USE DEF IInv, dialVars, pollVars, writeVars
<1> DEFINE x == Head(inbox[ch])
<1>1. /\ poller[ch] = "recv" /\ inbox[ch] # <<>>
      /\ inbox' = [inbox EXCEPT ![ch] = Tail(inbox[ch])]
      /\ held' = [held EXCEPT ![ch] = <<x>>]
      /\ poller' = [poller EXCEPT ![ch] = "send"]
      /\ UNCHANGED <<dialVars, arrived, writeVars, reader, mu, cancelled, conn,
                     client>>
  BY DEF PollRecv
<1>2. inbox[ch] \in Seq(Msg(ch)) /\ Msg(ch) \subseteq Nat
  BY MessageTypes DEF TypeOK, Msg
<1>3. x \in Msg(ch) /\ Tail(inbox[ch]) \in Seq(Msg(ch))
  BY <1>1, <1>2, HeadTailProperties
<1> HIDE DEF x
<1>4. <<x>> \in Seq(Msg(ch)) /\ <<x>> \in Seq(Nat) /\ Tail(inbox[ch]) \in Seq(Nat)
  <2>1. <<x>> \in Seq(Msg(ch))
    BY <1>3
  <2> QED
    BY <1>2, <1>3, <2>1, SeqMonotonic
<1>5. TypeOK'
  <2>1. ASSUME NEW c \in Channel
        PROVE  inbox'[c] \in Seq(1..MaxMsg[c]) /\ held'[c] \in Seq(1..MaxMsg[c])
    BY <1>1, <1>3, <1>4 DEF TypeOK, Msg
  <2>2. inbox' \in [Channel -> Seq(Nat)] /\ held' \in [Channel -> Seq(Nat)]
    BY <1>1, <1>4 DEF TypeOK
  <2>3. poller' \in [Channel -> {"none", "check", "recv", "send", "return", "done"}]
    BY <1>1 DEF TypeOK
  <2>4. \A c \in Channel : arrived'[c] <= MaxMsg[c]
                           /\ delivered'[c] \in Seq(1..MaxMsg[c])
    BY <1>1 DEF TypeOK
  <2>5. writing' \in Seq(Channel \X Nat) /\ arrived' \in [Channel -> Nat]
        /\ delivered' \in [Channel -> Seq(Nat)]
    BY <1>1 DEF TypeOK
  <2>6. \A c \in Channel :
          /\ arrived'[c] <= MaxMsg[c]
          /\ inbox'[c] \in Seq(1..MaxMsg[c]) /\ held'[c] \in Seq(1..MaxMsg[c])
          /\ delivered'[c] \in Seq(1..MaxMsg[c])
    BY <2>1, <2>4
  <2>7. UNCHANGED <<handler, nudger, result, writer, reader, mu, cancelled,
                    conn, client>>
    BY <1>1
  <2> QED
    BY <2>2, <2>3, <2>5, <2>6, <2>7 DEF TypeOK
<1>6. HeldInv'
  <2> SUFFICES ASSUME NEW c \in Channel
      PROVE  (IF poller[c] = "send" THEN \E n \in Msg(c) : held[c] = <<n>>
              ELSE held[c] = <<>>)'
    BY DEF HeldInv
  <2>1. CASE c = ch
    <3>1. poller'[c] = "send" /\ held'[c] = <<x>>
      BY <1>1, <2>1 DEF TypeOK
    <3> QED
      BY <1>3, <2>1, <3>1 DEF Msg
  <2>2. CASE c # ch
    <3>1. poller'[c] = poller[c] /\ held'[c] = held[c]
      BY <1>1, <2>2 DEF TypeOK
    <3> QED
      BY <3>1 DEF HeldInv, Msg
  <2> QED
    BY <2>1, <2>2
<1>7. StreamIntact'
  <2> SUFFICES ASSUME NEW c \in Channel
      PROVE  (delivered[c] \o Taken(c) \o held[c] \o inbox[c]
               = [n \in 1..arrived[c] |-> n])'
    BY DEF StreamIntact
  <2> DEFINE s == delivered[c] \o Taken(c)
  <2>1. s \in Seq(Nat) /\ inbox[c] \in Seq(Nat)
    BY MessageTypes, ConcatIn
  <2>2. s \o held[c] \o inbox[c] = [n \in 1..arrived[c] |-> n]
    BY DEF StreamIntact
  <2>3. s' = s /\ arrived'[c] = arrived[c]
    BY <1>1 DEF Taken
  <2> HIDE DEF s
  <2>4. CASE c = ch
    <3>1. held[c] = <<>>
      BY <1>1, <2>4 DEF HeldInv
    <3>2. (s \o <<x>>) \o Tail(inbox[c]) = (s \o <<>>) \o inbox[c]
      BY <1>1, <2>1, <2>4, FirstReceived DEF x
    <3>3. inbox'[c] = Tail(inbox[c]) /\ held'[c] = <<x>>
      BY <1>1, <2>4 DEF TypeOK
    <3> QED
      BY <2>2, <2>3, <3>1, <3>2, <3>3 DEF s
  <2>5. CASE c # ch
    <3>1. inbox'[c] = inbox[c] /\ held'[c] = held[c]
      BY <1>1, <2>5 DEF TypeOK
    <3> QED
      BY <2>2, <2>3, <3>1 DEF s
  <2> QED
    BY <2>4, <2>5
<1>8. StartInv' /\ WritingInv' /\ MutexOnlyAroundWrites'
  BY <1>1 DEF StartInv, WritingInv, HoldsOne, MutexOnlyAroundWrites, Msg, TypeOK
<1> QED
  BY <1>5, <1>6, <1>7, <1>8

LEMMA HandOverKeepsIInv ==
  ASSUME IInv, NEW ch \in Channel, HandOver(ch)
  PROVE  IInv'
<1> USE DEF IInv, dialVars, pollVars, writeVars
<1>1. PICK x \in Msg(ch) : held[ch] = <<x>>
  BY DEF HandOver, HeldInv
<1>2. /\ poller[ch] = "send" /\ writer = "recv" /\ writer' = "lock"
      /\ writing = <<>> /\ writing' = <<<<ch, x>>>>
      /\ held' = [held EXCEPT ![ch] = <<>>]
      /\ poller' = [poller EXCEPT ![ch] = "check"]
      /\ UNCHANGED <<dialVars, arrived, inbox, delivered, reader, mu, cancelled,
                     conn, client>>
  BY <1>1 DEF HandOver, WritingInv
<1>3. x \in Nat
  BY MessageTypes
<1>4. \A c \in Channel : held'[c] = IF c = ch THEN <<>> ELSE held[c]
  BY <1>2 DEF TypeOK
<1>5. TypeOK'
  <2>1. \A S : <<>> \in Seq(S)
    OBVIOUS
  <2>2. \A c \in Channel : held'[c] \in Seq(1..MaxMsg[c])
    BY <1>4, <2>1 DEF TypeOK
  <2>3. held' \in [Channel -> Seq(Nat)]
    BY <1>2, <2>1 DEF TypeOK
  <2>4. poller' \in [Channel -> {"none", "check", "recv", "send", "return", "done"}]
    BY <1>2 DEF TypeOK
  <2>5. writing' \in Seq(Channel \X Nat)
    BY <1>2, <1>3
  <2> QED
    BY <1>2, <2>2, <2>3, <2>4, <2>5 DEF TypeOK
<1>6. HeldInv'
  BY <1>2, <1>4 DEF HeldInv, TypeOK, Msg
<1>7. StreamIntact'
  <2> SUFFICES ASSUME NEW c \in Channel
      PROVE  (delivered[c] \o Taken(c) \o held[c] \o inbox[c]
               = [n \in 1..arrived[c] |-> n])'
    BY DEF StreamIntact
  <2>1. delivered[c] \o Taken(c) \o held[c] \o inbox[c]
          = [n \in 1..arrived[c] |-> n]
    BY DEF StreamIntact
  <2>2. Taken(c) = <<>> /\ delivered'[c] = delivered[c] /\ inbox'[c] = inbox[c]
        /\ arrived'[c] = arrived[c]
    BY <1>2 DEF Taken
  <2>3. CASE c = ch
    <3>1. Taken(c)' = <<x>> /\ held[c] = <<x>> /\ held'[c] = <<>>
      BY <1>1, <1>2, <1>4, <2>3 DEF Taken
    <3>2. (delivered[c] \o <<x>>) \o <<>> = (delivered[c] \o <<>>) \o <<x>>
      BY <1>3, MessageTypes, HandedOver
    <3> QED
      BY <2>1, <2>2, <3>1, <3>2
  <2>4. CASE c # ch
    <3>1. Taken(c)' = <<>> /\ held'[c] = held[c]
      BY <1>2, <1>4, <2>4 DEF Taken
    <3> QED
      BY <2>1, <2>2, <3>1
  <2> QED
    BY <2>3, <2>4
<1>8. WritingInv'
  <2>1. \E c \in Channel : \E n \in Msg(c) : writing' = <<<<c, n>>>>
    BY <1>2
  <2> QED
    BY <1>2, <2>1 DEF WritingInv, HoldsOne, Msg
<1>9. StartInv' /\ MutexOnlyAroundWrites'
  BY <1>2 DEF StartInv, MutexOnlyAroundWrites, TypeOK
<1> QED
  BY <1>5, <1>6, <1>7, <1>8, <1>9

LEMMA WriteKeepsIInv ==
  ASSUME IInv, WriteMessage
  PROVE  IInv'
<1> USE DEF IInv, dialVars, pollVars, writeVars
<1>1. PICK ch \in Channel : \E n \in Msg(ch) : writing = <<<<ch, n>>>>
  BY DEF WriteMessage, WritingInv, HoldsOne
<1>2. PICK x \in Msg(ch) : writing = <<<<ch, x>>>>
  BY <1>1
<1>3. /\ writer = "write" /\ writer' = "check" /\ mu' = "free"
      /\ delivered' = [delivered EXCEPT ![ch] = Append(delivered[ch], x)]
      /\ writing' = <<>>
      /\ UNCHANGED <<dialVars, pollVars, reader, cancelled, conn, client>>
  BY <1>2 DEF WriteMessage
<1>4. x \in Nat /\ delivered[ch] \in Seq(Nat)
  BY MessageTypes
<1>5. \A c \in Channel : delivered'[c] = IF c = ch THEN Append(delivered[ch], x)
                                         ELSE delivered[c]
  BY <1>3 DEF TypeOK
<1>6. TypeOK'
  <2>1. delivered[ch] \in Seq(Msg(ch))
    BY DEF TypeOK, Msg
  <2>2. Append(delivered[ch], x) \in Seq(Msg(ch))
        /\ Append(delivered[ch], x) \in Seq(Nat)
    BY <1>4, <2>1, AppendProperties
  <2>3. \A c \in Channel : delivered'[c] \in Seq(1..MaxMsg[c])
    BY <1>5, <2>2 DEF TypeOK, Msg
  <2>4. delivered' \in [Channel -> Seq(Nat)]
    BY <1>3, <2>2 DEF TypeOK
  <2>5. writing' \in Seq(Channel \X Nat)
    BY <1>3
  <2> QED
    BY <1>3, <2>3, <2>4, <2>5 DEF TypeOK
<1>7. StreamIntact'
  <2> SUFFICES ASSUME NEW c \in Channel
      PROVE  (delivered[c] \o Taken(c) \o held[c] \o inbox[c]
               = [n \in 1..arrived[c] |-> n])'
    BY DEF StreamIntact
  <2>1. delivered[c] \o Taken(c) \o held[c] \o inbox[c]
          = [n \in 1..arrived[c] |-> n]
    BY DEF StreamIntact
  <2>2. Taken(c)' = <<>> /\ held'[c] = held[c] /\ inbox'[c] = inbox[c]
        /\ arrived'[c] = arrived[c]
    BY <1>3 DEF Taken
  <2>3. CASE c = ch
    <3>1. Taken(c) = <<x>>
      BY <1>2, <2>3 DEF Taken
    <3>2. Append(delivered[c], x) \o <<>> = delivered[c] \o <<x>>
      BY <1>4, <2>3, Written
    <3> QED
      BY <1>5, <2>1, <2>2, <2>3, <3>1, <3>2
  <2>4. CASE c # ch
    <3>1. Taken(c) = <<>> /\ delivered'[c] = delivered[c]
      BY <1>2, <1>5, <2>4 DEF Taken
    <3> QED
      BY <2>1, <2>2, <3>1
  <2> QED
    BY <2>3, <2>4
<1>8. HeldInv' /\ StartInv' /\ WritingInv' /\ MutexOnlyAroundWrites'
  BY <1>3 DEF HeldInv, StartInv, WritingInv, HoldsOne, MutexOnlyAroundWrites, Msg
<1> QED
  BY <1>6, <1>7, <1>8

-----------------------------------------------------------------------------
(* The theorems *)

LEMMA StepIInv == IInv /\ [Next]_vars => IInv'
<1> SUFFICES ASSUME IInv, [Next]_vars PROVE IInv'
  OBVIOUS
<1>1. CASE UNCHANGED vars
  <2> USE DEF vars, dialVars, pollVars, writeVars, IInv
  <2>1. TypeOK'
    BY <1>1 DEF TypeOK
  <2>2. HeldInv' /\ StartInv' /\ WritingInv' /\ MutexOnlyAroundWrites'
    BY <1>1 DEF HeldInv, StartInv, WritingInv, HoldsOne, MutexOnlyAroundWrites, Msg
  <2>3. StreamIntact'
    BY <1>1, StreamStays DEF messageVars
  <2> QED
    BY <2>1, <2>2, <2>3
<1>2. CASE Next
  <2>1. CASE Dial \/ NudgeReply \/ Nudger \/ Reader \/ ReadRequest
               \/ ClientLeaves \/ Cancel
    BY <2>1, OtherStepsKeepIInv
  <2>2. CASE Writer
    BY <2>2, QuietStepsKeepIInv, WriteKeepsIInv DEF Writer
  <2>3. ASSUME NEW ch \in Channel,
               MessageArrives(ch) \/ Poller(ch) \/ HandOver(ch)
        PROVE  IInv'
    BY <2>3, ArrivalKeepsIInv, RecvKeepsIInv, HandOverKeepsIInv,
       QuietStepsKeepIInv DEF Poller
  <2> QED
    BY <1>2, <2>1, <2>2, <2>3 DEF Next
<1> QED
  BY <1>1, <1>2

\* However many channels and messages there are, the places of the goroutines,
\* the channels between them and what they hold keep their types,
THEOREM TypeCorrect == Spec => []TypeOK
<1>1. IInv => TypeOK
  BY DEF IInv
<1> QED
  BY InitIInv, StepIInv, <1>1, PTL DEF Spec

\* nothing is lost, duplicated or reordered on a channel from the socket by way
\* of pollChannel and Send to the websocket,
THEOREM StreamsStayIntact == Spec => []StreamIntact
<1>1. IInv => StreamIntact
  BY DEF IInv
<1> QED
  BY InitIInv, StepIInv, <1>1, PTL DEF Spec

\* and kwsConn.mu is held around the writes of WriteMessages, and after one
\* that fails.
THEOREM MutexAroundWrites == Spec => []MutexOnlyAroundWrites
<1>1. IInv => MutexOnlyAroundWrites
  BY DEF IInv
<1> QED
  BY InitIInv, StepIInv, <1>1, PTL DEF Spec
=============================================================================
