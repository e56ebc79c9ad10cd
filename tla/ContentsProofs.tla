--------------------------- MODULE ContentsProofs ---------------------------
(***************************************************************************)
(* Theorems about Contents, for any number of requests and names.          *)
(***************************************************************************)
EXTENDS Contents, TLAPS

At(h) == req[h].name
Here == dir[HomeDir]
IsSave(h) == req[h].op \in {"save", "upload"}

\* What the place a request is at says of its operation.
OpInv ==
  \A h \in Handler :
    /\ req[h].pc = "idle" => req[h].op = "none"
    /\ req[h].pc \in {"probe", "open", "stat"} => IsCreate(h)
    /\ req[h].pc \in {"truncate", "write"} => req[h].op = "notebook" \/ IsSave(h)
    /\ req[h].pc = "write" => req[h].open # NoFile
    /\ req[h].pc = "rename" => req[h].op = "rename"
    /\ req[h].pc = "delete" => req[h].op = "delete"

\* A file has one name, and what a request is about to create, nobody has.
OneName ==
  \A n, m \in Name : Here[n] = Here[m] /\ Here[n] # NoFile => n = m

Unused(f) ==
  /\ \A n \in Name : Here[n] # f
  /\ \A k \in Handler : req[k].open # f

FreshInv ==
  \A h \in Handler :
    /\ req[h].pc \in {"idle", "probe", "open"} => req[h].open = NoFile
    /\ req[h].pc \in {"idle", "probe", "open", "truncate"} =>
         \A i \in {1, 2} : req[h].open # <<h, i>> => Unused(<<h, i>>)

\* What request g can be at while the save h is clean: not at h's name, and a
\* create only when h has ended, past the names that are taken.
Apart(g, h) ==
  /\ Running(g) => IF IsCreate(g) THEN Ended(h) ELSE At(h) \notin Names(g)
  /\ req[g].pc = "write" /\ req[h].pc # "failed" /\ Here[At(h)] # NoFile
       => req[g].open # Here[At(h)]
  /\ req[h].pc = "done" /\ IsCreate(g) /\ req[g].pc \in {"open", "truncate"}
       => At(g) # At(h)

OthersInv ==
  \A h \in clean :
    /\ IsSave(h)
    /\ req[h].pc \in {"truncate", "write", "done", "failed"}
    /\ \A g \in Handler \ {h} : Apart(g, h)

\* How far a clean save has come.
SaveInv ==
  \A h \in clean :
    /\ req[h].pc = "write" =>
         Here[At(h)] = req[h].open /\ data[req[h].open] = "empty"
    /\ req[h].pc = "done" => Here[At(h)] # NoFile /\ data[Here[At(h)]] = h

IInv ==
  /\ TypeOK /\ OpInv /\ OneName /\ FreshInv /\ OthersInv /\ SaveInv
  /\ HomeDir = ProcessDir

-----------------------------------------------------------------------------
(* Requests *)

\* What a request is.
LEMMA RequestFields ==
  ASSUME NEW r \in Request
  PROVE  /\ r.op \in Op /\ r.pc \in PC /\ r.name \in Name
         /\ r.to \in Name /\ r.open \in File \cup {NoFile}
BY DEF Request

\* What a step of request g that only goes on in its code leaves alone.
Goes(g, pc) ==
  /\ req' \in [Handler -> Request]
  /\ req'[g].pc = pc
  /\ req'[g].op = req[g].op /\ req'[g].name = req[g].name
  /\ req'[g].to = req[g].to /\ req'[g].open = req[g].open
  /\ \A k \in Handler \ {g} : req'[k] = req[k]

LEMMA GotoGoes ==
  ASSUME TypeOK, NEW g \in Handler, NEW pc \in PC, Goto(g, pc)
  PROVE  Goes(g, pc)
<1>1. req[g] \in Request
  BY DEF TypeOK
<1>2. [req[g] EXCEPT !.pc = pc] \in Request
  BY <1>1 DEF Request
<1>3. req' = [req EXCEPT ![g] = [req[g] EXCEPT !.pc = pc]]
  BY DEF Goto
<1>4. req' \in [Handler -> Request]
  BY <1>2, <1>3 DEF TypeOK
<1>5. req'[g] = [req[g] EXCEPT !.pc = pc] /\ \A k \in Handler \ {g} : req'[k] = req[k]
  BY <1>3 DEF TypeOK
<1>6. LET r == [req[g] EXCEPT !.pc = pc] IN
        /\ r.pc = pc /\ r.op = req[g].op /\ r.name = req[g].name
        /\ r.to = req[g].to /\ r.open = req[g].open
  BY <1>1 DEF Request
<1> QED
  BY <1>4, <1>5, <1>6 DEF Goes

\* The file that os.OpenFile makes or empties.
LEMMA OpenTruncatedFacts ==
  ASSUME TypeOK, NEW g \in Handler, NEW n \in Name, HomeDir = ProcessDir,
         NEW d \in Dirs, OpenTruncated(g, d, n)
  PROVE  \E f \in File :
           /\ IF Here[n] # NoFile THEN f = Here[n]
              ELSE f \in {<<g, 1>>, <<g, 2>>} /\ f # req[g].open
           /\ Here' = [Here EXCEPT ![n] = f]
           /\ dir' \in [Dirs -> [Name -> File \cup {NoFile}]]
           /\ data' = [data EXCEPT ![f] = "empty"]
           /\ req' \in [Handler -> Request]
           /\ req'[g].pc = IF req[g].pc = "truncate" THEN "write"
                           ELSE IF req[g].op = "notebook" THEN "truncate"
                           ELSE "stat"
           /\ req'[g].op = req[g].op /\ req'[g].name = req[g].name
           /\ req'[g].to = req[g].to /\ req'[g].open = f
           /\ \A k \in Handler \ {g} : req'[k] = req[k]
<1> DEFINE made == CHOOSE f \in {<<g, 1>>, <<g, 2>>} : f # req[g].open
           f == IF Here[n] # NoFile THEN Here[n] ELSE made
           pc == IF req[g].pc = "truncate" THEN "write"
                 ELSE IF req[g].op = "notebook" THEN "truncate" ELSE "stat"
           r == [req[g] EXCEPT !.open = f, !.pc = pc]
<1>1. d = HomeDir /\ Dirs = {HomeDir}
  BY DEF Dirs
<1>2. \E x \in {<<g, 1>>, <<g, 2>>} : x # req[g].open
  <2>1. <<g, 1>> # <<g, 2>>
    OBVIOUS
  <2> QED
    BY <2>1
<1>3. made \in {<<g, 1>>, <<g, 2>>} /\ made # req[g].open
  BY <1>2
<1>4. made \in File
  BY <1>3 DEF File
<1>5. Here \in [Name -> File \cup {NoFile}]
  BY <1>1 DEF TypeOK, Here
<1>6. f \in File
  BY <1>4, <1>5
<1>7. req[g] \in Request
  BY DEF TypeOK
<1>8. pc \in PC
  BY DEF PC
<1>9. /\ dir' = [dir EXCEPT ![d][n] = f]
      /\ data' = [data EXCEPT ![f] = "empty"]
      /\ req' = [req EXCEPT ![g].open = f, ![g].pc = pc]
  BY <1>1 DEF OpenTruncated, Here
<1> HIDE DEF made, f, pc
<1>10. r \in Request /\ r.op = req[g].op /\ r.name = req[g].name
       /\ r.to = req[g].to /\ r.open = f /\ r.pc = pc
  BY <1>6, <1>7, <1>8 DEF Request
<1>11. req' = [req EXCEPT ![g] = r]
  BY <1>9 DEF TypeOK
<1> HIDE DEF r
<1>12. req' \in [Handler -> Request] /\ req'[g] = r
       /\ \A k \in Handler \ {g} : req'[k] = req[k]
  BY <1>10, <1>11 DEF TypeOK
<1>13. Here' = [Here EXCEPT ![n] = f]
  BY <1>1, <1>9 DEF TypeOK, Here
<1>14. dir' \in [Dirs -> [Name -> File \cup {NoFile}]]
  BY <1>6, <1>9 DEF TypeOK
<1>15. IF Here[n] # NoFile THEN f = Here[n]
       ELSE f \in {<<g, 1>>, <<g, 2>>} /\ f # req[g].open
  BY <1>3 DEF f
<1> QED
  BY <1>6, <1>9, <1>10, <1>12, <1>13, <1>14, <1>15 DEF pc

\* A request that is in its code joins no clean saves, and takes none away.
LEMMA CleanStays ==
  ASSUME TypeOK, OpInv, Remember, NEW g \in Handler, req[g].pc # "idle",
         \A k \in Handler \ {g} : req'[k] = req[k]
  PROVE  clean' \subseteq clean /\ clean' \subseteq Handler
<1>1. clean' \subseteq Handler
  BY DEF Remember
<1>2. ASSUME NEW h \in Handler, req[h].pc = "idle"
      PROVE  req'[h].op \notin {"save", "upload"}
  BY <1>2 DEF OpInv
<1> QED
  BY <1>1, <1>2 DEF Remember

-----------------------------------------------------------------------------
(* Steps that change nothing but how far a request is *)

\* The moves of Probe, of failed opens and of the reply.
Quiet(g, pc) ==
  \/ req[g].pc = "probe" /\ Here[At(g)] = NoFile /\ pc = "open"
  \/ req[g].pc = "open"
     /\ pc = IF req[g].op = "notebook" THEN "truncate" ELSE "stat"
  \/ req[g].pc = "stat" /\ pc \in {"done", "panicked"}
  \/ req[g].pc = "truncate"
     /\ pc = IF req[g].op = "notebook" THEN "stat" ELSE "failed"

LEMMA QuietKeepsIInv ==
  ASSUME IInv, NEW g \in Handler, NEW pc, Quiet(g, pc), Goes(g, pc),
         Remember, UNCHANGED <<dir, data, series>>
  PROVE  IInv'
<1> USE DEF IInv
<1>1. clean' \subseteq clean /\ clean' \subseteq Handler
  BY CleanStays DEF Goes, Quiet
<1>2. TypeOK'
  BY <1>1 DEF TypeOK, Goes
<1>3. OpInv'
  BY DEF OpInv, Goes, Quiet, IsCreate, IsSave
<1>4. OneName'
  BY DEF OneName, Here
<1>5. FreshInv'
  <2> SUFFICES ASSUME NEW h \in Handler
      PROVE  /\ (req[h].pc \in {"idle", "probe", "open"} => req[h].open = NoFile)'
             /\ (req[h].pc \in {"idle", "probe", "open", "truncate"} =>
                   \A i \in {1, 2} : req[h].open # <<h, i>> => Unused(<<h, i>>))'
    BY DEF FreshInv
  <2>1. \A k \in Handler : req'[k].open = req[k].open
    BY DEF Goes
  <2>2. \A f : Unused(f) => Unused(f)'
    BY <2>1 DEF Unused, Here
  <2>3. req'[h].pc \in {"idle", "probe", "open"} =>
          req[h].pc \in {"idle", "probe", "open"}
    BY DEF Goes, Quiet
  <2>4. req'[h].pc \in {"idle", "probe", "open", "truncate"} =>
          req[h].pc \in {"idle", "probe", "open", "truncate"}
    BY DEF Goes, Quiet
  <2> QED
    BY <2>1, <2>2, <2>3, <2>4 DEF FreshInv
<1>6. OthersInv'
  <2> SUFFICES ASSUME NEW h \in clean'
      PROVE  /\ IsSave(h)'
             /\ (req[h].pc \in {"truncate", "write", "done", "failed"})'
             /\ \A k \in Handler \ {h} : Apart(k, h)'
    BY DEF OthersInv
  <2>1. h \in clean /\ h \in Handler
    BY <1>1 DEF TypeOK
  <2>2. IsSave(h) /\ req[h].pc \in {"truncate", "write", "done", "failed"}
        /\ \A k \in Handler \ {h} : Apart(k, h)
    BY <2>1 DEF OthersInv
  <2>3. CASE g = h
    <3>1. req[h].pc = "truncate" /\ req'[h].pc = "failed" /\ IsSave(h)'
      BY <2>2, <2>3 DEF Quiet, Goes, IsSave
    <3>2. ASSUME NEW k \in Handler \ {h}
          PROVE  Apart(k, h)'
      <4>1. req'[k] = req[k] /\ Apart(k, h) /\ At(h)' = At(h)
        BY <2>2, <2>3 DEF Goes, At
      <4> QED
        BY <3>1, <4>1 DEF Apart, Running, Ended, IsCreate, Names
    <3> QED
      BY <3>1, <3>2
  <2>4. CASE g # h
    <3>1. req'[h] = req[h] /\ At(h)' = At(h) /\ Here' = Here
      BY <2>1, <2>4 DEF Goes, At, Here
    <3>2. ASSUME NEW k \in Handler \ {h}, k # g
          PROVE  Apart(k, h)'
      <4>1. req'[k] = req[k] /\ Apart(k, h)
        BY <2>2, <3>2 DEF Goes
      <4> QED
        BY <3>1, <4>1 DEF Apart, Running, Ended, IsCreate, Names, At
    <3>3. Apart(g, h)'
      <4>1. Apart(g, h)
        BY <2>2, <2>4
      <4>2. req'[g].pc # "write"
        BY DEF Quiet, Goes
      <4>3. Running(g)
        BY DEF Quiet, Running, Ended
      <4>4. IsCreate(g)' = IsCreate(g) /\ Names(g)' = Names(g) /\ At(g)' = At(g)
        BY DEF Goes, IsCreate, Names, At
      <4>5. Ended(h)' = Ended(h)
        BY <3>1 DEF Ended
      <4>6. ASSUME req[h].pc = "done", IsCreate(g), req'[g].pc \in {"open", "truncate"}
            PROVE  At(g) # At(h)
        <5>1. req[g].pc = "probe" => Here[At(g)] = NoFile
          BY DEF Quiet
        <5>2. Here[At(h)] # NoFile
          BY <2>1, <4>6 DEF SaveInv
        <5> QED
          BY <4>1, <4>6, <5>1, <5>2 DEF Apart, Quiet, Goes
      <4> QED
        BY <3>1, <4>1, <4>2, <4>3, <4>4, <4>5, <4>6 DEF Apart
    <3> QED
      BY <2>2, <3>1, <3>2, <3>3 DEF IsSave
  <2> QED
    BY <2>3, <2>4
<1>7. SaveInv'
  <2> SUFFICES ASSUME NEW h \in clean', req'[h].pc \in {"write", "done"}
      PROVE  /\ (req[h].pc = "write" =>
                   Here[At(h)] = req[h].open /\ data[req[h].open] = "empty")'
             /\ (req[h].pc = "done" =>
                   Here[At(h)] # NoFile /\ data[Here[At(h)]] = h)'
    BY DEF SaveInv
  <2>1. h \in clean /\ h \in Handler
    BY <1>1 DEF TypeOK
  <2>2. g # h
    BY <2>1, <1>1 DEF OthersInv, Quiet, Goes, IsSave, IsCreate, OpInv
  <2> QED
    BY <2>1, <2>2 DEF SaveInv, Goes, Here, At
<1> QED
  BY <1>2, <1>3, <1>4, <1>5, <1>6, <1>7

-----------------------------------------------------------------------------
(* Arrivals, and the next name *)

\* What a request is when it arrives.
Arrived(r) ==
  /\ r \in Request /\ r.open = NoFile
  /\ \/ r.op \in {"file", "notebook"} /\ r.pc = "probe"
     \/ r.op \in {"save", "upload"} /\ r.pc = "truncate"
     \/ r.op = "rename" /\ r.pc = "rename"
     \/ r.op = "delete" /\ r.pc = "delete"

LEMMA ArrivalKeepsIInv ==
  ASSUME IInv, NEW g \in Handler, NEW r, Arrived(r), req[g].pc = "idle",
         req' = [req EXCEPT ![g] = r], Remember,
         UNCHANGED <<dir, data, series>>
  PROVE  IInv'
<1> USE DEF IInv
<1>1. /\ req' \in [Handler -> Request] /\ req'[g] = r
      /\ \A k \in Handler \ {g} : req'[k] = req[k]
  BY DEF Arrived, TypeOK
<1>2. TypeOK'
  BY <1>1 DEF TypeOK, Remember
<1>3. OpInv'
  BY <1>1 DEF OpInv, Arrived, IsCreate, IsSave
<1>4. OneName'
  BY DEF OneName, Here
<1>5. \A k \in Handler : req'[k].open = req[k].open
  BY <1>1 DEF Arrived, FreshInv
<1>6. FreshInv'
  <2>1. \A f : Unused(f) => Unused(f)'
    BY <1>5 DEF Unused, Here
  <2> QED
    BY <1>1, <1>5, <2>1 DEF FreshInv
<1>7. ASSUME NEW h \in clean'
      PROVE  /\ h \in Handler
             /\ \/ h = g /\ r.pc = "truncate" /\ IsSave(h)'
                   /\ \A k \in Handler : ~Running(k)
                \/ h # g /\ h \in clean /\ ~Meddles(g, h)
  <2>1. h \in Handler
    BY DEF Remember
  <2>2. CASE h \in clean /\ \A k \in Handler \ {h} : ~Meddles(k, h)
    <3>1. req[h].pc # "idle"
      BY <2>2 DEF OthersInv
    <3> QED
      BY <2>1, <2>2, <3>1
  <2>3. CASE req[h].pc = "idle" /\ req'[h].op \in {"save", "upload"}
             /\ \A k \in Handler : ~Running(k)
    <3>1. h = g
      BY <1>1, <2>1, <2>3 DEF OpInv
    <3>2. r.pc = "truncate"
      BY <1>1, <2>3, <3>1 DEF Arrived
    <3> QED
      BY <2>1, <2>3, <3>1, <3>2 DEF IsSave
  <2> QED
    BY <2>2, <2>3 DEF Remember
<1>8. OthersInv'
  <2> SUFFICES ASSUME NEW h \in clean'
      PROVE  /\ IsSave(h)'
             /\ (req[h].pc \in {"truncate", "write", "done", "failed"})'
             /\ \A k \in Handler \ {h} : Apart(k, h)'
    BY DEF OthersInv
  <2>1. CASE h = g
    <3>1. r.pc = "truncate" /\ IsSave(h)' /\ req'[h].pc = "truncate"
      BY <1>1, <1>7, <2>1 DEF Running
    <3>2. ASSUME NEW k \in Handler \ {h}
          PROVE  ~Running(k)' /\ req'[k].pc # "write" /\ req'[h].pc # "done"
      BY <1>1, <1>7, <2>1, <3>1 DEF Running, Ended
    <3> QED
      BY <3>1, <3>2 DEF Apart
  <2>2. CASE h # g
    <3>1. h \in Handler /\ h \in clean /\ ~Meddles(g, h)
      BY <1>7, <2>2
    <3>2. req'[h] = req[h] /\ At(h)' = At(h) /\ Here' = Here
      BY <1>1, <2>2, <3>1 DEF At, Here
    <3>3. ASSUME NEW k \in Handler \ {h}, k # g
          PROVE  Apart(k, h)'
      <4>1. req'[k] = req[k] /\ Apart(k, h)
        BY <1>1, <3>1, <3>3 DEF OthersInv
      <4> QED
        BY <3>2, <4>1 DEF Apart, Running, Ended, IsCreate, Names, At
    <3>4. Apart(g, h)'
      <4>1. req'[g].pc \notin {"idle", "write", "open"}
        BY <1>1 DEF Arrived
      <4>2. IsCreate(g)' => req'[g].pc # "truncate"
        BY <1>1 DEF Arrived, IsCreate
      <4>3. IF IsCreate(g)' THEN Ended(h) ELSE At(h) \notin Names(g)'
        BY <3>1, <4>1 DEF Meddles, At
      <4>4. Ended(h)' = Ended(h)
        BY <3>2 DEF Ended
      <4> QED
        BY <3>2, <4>1, <4>2, <4>3, <4>4 DEF Apart
    <3> QED
      BY <3>1, <3>2, <3>3, <3>4 DEF OthersInv, IsSave
  <2> QED
    BY <2>1, <2>2
<1>9. SaveInv'
  <2> SUFFICES ASSUME NEW h \in clean', req'[h].pc \in {"write", "done"}
      PROVE  /\ (req[h].pc = "write" =>
                   Here[At(h)] = req[h].open /\ data[req[h].open] = "empty")'
             /\ (req[h].pc = "done" =>
                   Here[At(h)] # NoFile /\ data[Here[At(h)]] = h)'
    BY DEF SaveInv
  <2>1. h # g /\ h \in Handler /\ h \in clean
    BY <1>1, <1>7
  <2> QED
    BY <1>1, <2>1 DEF SaveInv, Here, At
<1> QED
  BY <1>2, <1>3, <1>4, <1>6, <1>8, <1>9

LEMMA NextNameKeepsIInv ==
  ASSUME IInv, NEW g \in Handler, req[g].pc = "probe", req[g].name < MaxName,
         req' = [req EXCEPT ![g].name = @ + 1], Remember,
         UNCHANGED <<dir, data, series>>
  PROVE  IInv'
<1> USE DEF IInv
<1> DEFINE r == [req[g] EXCEPT !.name = req[g].name + 1]
<1>1. req[g] \in Request /\ req[g].name + 1 \in Name
  <2>1. req[g] \in Request
    BY DEF TypeOK
  <2>2. req[g].name \in Name
    BY <2>1, RequestFields
  <2> QED
    BY <2>1, <2>2, ContentsAssumption DEF Name
<1>2. /\ r \in Request /\ r.op = req[g].op /\ r.pc = req[g].pc
      /\ r.open = req[g].open
  BY <1>1 DEF Request
<1>3. req' = [req EXCEPT ![g] = r]
  OBVIOUS
<1> HIDE DEF r
<1>4. /\ req' \in [Handler -> Request] /\ req'[g] = r
      /\ \A k \in Handler \ {g} : req'[k] = req[k]
  BY <1>2, <1>3 DEF TypeOK
<1>5. clean' \subseteq clean /\ clean' \subseteq Handler
  BY <1>4, CleanStays
<1>6. TypeOK'
  BY <1>4, <1>5 DEF TypeOK
<1>7. OpInv'
  BY <1>2, <1>4 DEF OpInv, IsCreate, IsSave
<1>8. OneName'
  BY DEF OneName, Here
<1>9. FreshInv'
  <2>1. \A k \in Handler : req'[k].open = req[k].open /\ req'[k].pc = req[k].pc
    BY <1>2, <1>4
  <2>2. \A f : Unused(f) => Unused(f)'
    BY <2>1 DEF Unused, Here
  <2> QED
    BY <2>1, <2>2 DEF FreshInv
<1>10. IsCreate(g) /\ IsCreate(g)' /\ req'[g].pc = "probe"
  BY <1>2, <1>4 DEF OpInv, IsCreate
<1>11. ASSUME NEW h \in clean'
       PROVE  h # g /\ h \in Handler /\ h \in clean /\ req'[h] = req[h]
  BY <1>4, <1>5 DEF OthersInv
<1>12. OthersInv'
  <2> SUFFICES ASSUME NEW h \in clean', NEW k \in Handler \ {h}
      PROVE  /\ IsSave(h)'
             /\ (req[h].pc \in {"truncate", "write", "done", "failed"})'
             /\ Apart(k, h)'
    <3>1. \A h \in clean' : \E k \in Handler \ {h} : TRUE
      BY <1>11
    <3> QED
      BY <3>1 DEF OthersInv
  <2>1. IsSave(h) /\ req[h].pc \in {"truncate", "write", "done", "failed"}
        /\ Apart(k, h)
    BY <1>11 DEF OthersInv
  <2>2. IsSave(h)' /\ At(h)' = At(h) /\ Ended(h)' = Ended(h) /\ Here' = Here
    BY <1>11, <2>1 DEF IsSave, At, Ended, Here
  <2>3. CASE k = g
    BY <1>10, <1>11, <2>1, <2>2, <2>3 DEF Apart, Running, Ended
  <2>4. CASE k # g
    <3>1. req'[k] = req[k]
      BY <1>4, <2>4
    <3> QED
      BY <1>11, <2>1, <2>2, <3>1 DEF Apart, Running, Ended, IsCreate, Names, At
  <2> QED
    BY <1>11, <2>1, <2>2, <2>3, <2>4
<1>13. SaveInv'
  BY <1>11 DEF SaveInv, Here, At
<1> QED
  BY <1>6, <1>7, <1>8, <1>9, <1>12, <1>13

-----------------------------------------------------------------------------
(* Steps on files *)

\* A request that is to open a file does not open that of a clean save,
\* unless the save has failed.
LEMMA OpensElsewhere ==
  ASSUME IInv, NEW h \in clean, NEW g \in Handler \ {h},
         req[g].pc \in {"open", "truncate"}
  PROVE  req[h].pc = "failed" \/ At(h) # At(g)
<1>1. Apart(g, h) /\ req[h].pc \in {"truncate", "write", "done", "failed"}
  BY DEF IInv, OthersInv
<1>2. Running(g)
  BY DEF Running, Ended
<1> QED
  BY <1>1, <1>2 DEF Apart, Names, At, Ended

LEMMA OpeningKeepsIInv ==
  ASSUME IInv, NEW g \in Handler, req[g].pc \in {"open", "truncate"},
         NEW d \in Dirs, OpenTruncated(g, d, At(g)), Remember,
         UNCHANGED series
  PROVE  IInv'
<1> USE DEF IInv
<1> DEFINE n == At(g)
<1>1. n \in Name
  <2>1. req[g] \in Request
    BY DEF TypeOK
  <2> QED
    BY <2>1, RequestFields DEF At
<1>2. PICK f \in File :
           /\ IF Here[n] # NoFile THEN f = Here[n]
              ELSE f \in {<<g, 1>>, <<g, 2>>} /\ f # req[g].open
           /\ Here' = [Here EXCEPT ![n] = f]
           /\ dir' \in [Dirs -> [Name -> File \cup {NoFile}]]
           /\ data' = [data EXCEPT ![f] = "empty"]
           /\ req' \in [Handler -> Request]
           /\ req'[g].pc = IF req[g].pc = "truncate" THEN "write"
                           ELSE IF req[g].op = "notebook" THEN "truncate"
                           ELSE "stat"
           /\ req'[g].op = req[g].op /\ req'[g].name = req[g].name
           /\ req'[g].to = req[g].to /\ req'[g].open = f
           /\ \A k \in Handler \ {g} : req'[k] = req[k]
  BY <1>1, OpenTruncatedFacts
<1> HIDE DEF n
<1>3. f # NoFile
  BY ContentsAssumption
<1>4. Here \in [Name -> File \cup {NoFile}]
  BY DEF TypeOK, Here, Dirs
<1>5. Here[n] = NoFile => \E i \in {1, 2} : f = <<g, i>> /\ Unused(f)
  <2> SUFFICES ASSUME Here[n] = NoFile
      PROVE  \E i \in {1, 2} : f = <<g, i>> /\ Unused(f)
    OBVIOUS
  <2>1. f \in {<<g, 1>>, <<g, 2>>} /\ req[g].open # f
    BY <1>2
  <2>2. PICK i \in {1, 2} : f = <<g, i>>
    BY <2>1
  <2>3. Unused(<<g, i>>)
    BY <2>1, <2>2 DEF FreshInv
  <2> QED
    BY <2>2, <2>3
\* The file is nobody else's.
<1>6. \A m \in Name \ {n} : Here[m] # f /\ Here'[m] = Here[m]
  BY <1>1, <1>2, <1>4, <1>5 DEF OneName, Unused
<1>7. Here'[n] = f
  BY <1>1, <1>2, <1>4
<1>8. clean' \subseteq clean /\ clean' \subseteq Handler
  BY <1>2, CleanStays
<1>9. TypeOK'
  BY <1>2, <1>8 DEF TypeOK
<1>10. OpInv'
  BY <1>2, <1>3 DEF OpInv, IsCreate, IsSave
<1>11. OneName'
  BY <1>6, <1>7 DEF OneName
<1>12. FreshInv'
  <2> SUFFICES ASSUME NEW h \in Handler
      PROVE  /\ (req[h].pc \in {"idle", "probe", "open"} => req[h].open = NoFile)'
             /\ (req[h].pc \in {"idle", "probe", "open", "truncate"} =>
                   \A i \in {1, 2} : req[h].open # <<h, i>> => Unused(<<h, i>>))'
    BY DEF FreshInv
  <2>1. \A x : Unused(x) /\ x # f => Unused(x)'
    BY <1>2, <1>6, <1>7 DEF Unused
  <2>2. CASE h = g
    <3>1. req'[h].pc \notin {"idle", "probe", "open"}
      BY <1>2, <2>2
    <3>2. req'[h].pc = "truncate" => req[h].pc = "open"
      BY <1>2, <2>2
    <3>3. ASSUME req[h].pc = "open", NEW i \in {1, 2}
          PROVE  Unused(<<h, i>>)
      <4>1. req[h].open = NoFile /\ <<h, i>> \in File
        BY <3>3 DEF FreshInv, File
      <4>2. req[h].open # <<h, i>>
        BY <4>1, ContentsAssumption
      <4> QED
        BY <3>3, <4>2 DEF FreshInv
    <3> QED
      BY <1>2, <2>1, <2>2, <3>1, <3>2, <3>3
  <2>3. CASE h # g
    <3>1. req'[h] = req[h]
      BY <1>2, <2>3
    <3>2. ASSUME NEW i \in {1, 2}, Unused(<<h, i>>)
          PROVE  Unused(<<h, i>>)'
      <4>1. <<h, i>> # f
        BY <1>1, <1>2, <2>3, <3>2 DEF Unused
      <4> QED
        BY <2>1, <3>2, <4>1
    <3> QED
      BY <3>1, <3>2 DEF FreshInv
  <2> QED
    BY <2>2, <2>3
<1>13. ASSUME NEW h \in clean'
       PROVE  /\ h \in clean /\ h \in Handler /\ At(h)' = At(h) /\ At(h) \in Name
              /\ IsSave(h) /\ IsSave(h)'
              /\ (h = g => req[h].pc = "truncate" /\ req'[h].pc = "write")
              /\ (h # g => req'[h] = req[h]
                          /\ (req[h].pc = "failed" \/ At(h) # n))
  <2>1. h \in clean /\ h \in Handler
    BY <1>8
  <2>2. At(h)' = At(h) /\ req'[h].op = req[h].op
    BY <1>2, <2>1 DEF At
  <2>3. IsSave(h) /\ IsSave(h)'
    BY <2>1, <2>2 DEF OthersInv, IsSave
  <2>4. h = g => req[h].pc = "truncate" /\ req'[h].pc = "write"
    BY <1>2, <2>1 DEF OthersInv
  <2>5. h # g => req'[h] = req[h] /\ (req[h].pc = "failed" \/ At(h) # n)
    BY <1>2, <2>1, OpensElsewhere DEF n
  <2>6. At(h) \in Name
    <3>1. req[h] \in Request
      BY <2>1 DEF TypeOK
    <3> QED
      BY <3>1, RequestFields DEF At
  <2> QED
    BY <2>1, <2>2, <2>3, <2>4, <2>5, <2>6
<1>14. OthersInv'
  <2> SUFFICES ASSUME NEW h \in clean'
      PROVE  /\ IsSave(h)'
             /\ (req[h].pc \in {"truncate", "write", "done", "failed"})'
             /\ \A k \in Handler \ {h} : Apart(k, h)'
    BY DEF OthersInv
  <2>1. /\ h \in clean /\ h \in Handler /\ At(h)' = At(h) /\ IsSave(h)'
        /\ req[h].pc \in {"truncate", "write", "done", "failed"}
        /\ \A k \in Handler \ {h} : Apart(k, h)
    BY <1>13 DEF OthersInv
  <2>2. (req[h].pc \in {"truncate", "write", "done", "failed"})'
        /\ (req'[h].pc = "failed" <=> req[h].pc = "failed")
        /\ (req'[h].pc = "done" <=> req[h].pc = "done")
    BY <1>13, <2>1
  <2>3. Ended(h)' = Ended(h)
    BY <1>13, <2>1 DEF Ended
  <2>4. ASSUME NEW k \in Handler \ {h}, k # g
        PROVE  Apart(k, h)'
    <3>1. req'[k] = req[k] /\ Apart(k, h)
      BY <1>2, <2>1, <2>4
    <3>2. ASSUME req[k].pc = "write", req[h].pc # "failed", Here'[At(h)] # NoFile
          PROVE  req[k].open # Here'[At(h)]
      <4>1. CASE At(h) # n
        BY <1>6, <1>13, <3>1, <3>2, <4>1 DEF Apart
      <4>2. CASE At(h) = n
        <5>1. CASE Here[n] = NoFile
          BY <1>5, <1>7, <4>2, <5>1 DEF Unused
        <5>2. CASE Here[n] # NoFile
          BY <1>2, <1>7, <3>1, <3>2, <4>2, <5>2 DEF Apart
        <5> QED
          BY <5>1, <5>2
      <4> QED
        BY <4>1, <4>2
    <3>3. /\ Running(k)' = Running(k) /\ IsCreate(k)' = IsCreate(k)
          /\ Names(k)' = Names(k) /\ At(k)' = At(k)
      BY <3>1 DEF Running, Ended, IsCreate, Names, At
    <3> QED
      BY <2>1, <2>2, <2>3, <3>1, <3>2, <3>3 DEF Apart
  <2>5. ASSUME g # h
        PROVE  Apart(g, h)'
    <3>1. Apart(g, h) /\ Running(g) /\ Running(g)'
      BY <1>2, <2>1, <2>5 DEF Running, Ended
    <3>2. /\ IsCreate(g)' = IsCreate(g) /\ Names(g)' = Names(g)
          /\ At(g)' = At(g)
      BY <1>2 DEF IsCreate, Names, At
    <3>3. req[h].pc # "failed" => Here'[At(h)] # f
      BY <1>6, <1>13, <2>5
    <3>4. req'[g].open = f
      BY <1>2
    <3>5. req'[g].pc \in {"open", "truncate"} => req[g].pc = "open"
      BY <1>2
    <3> QED
      BY <2>1, <2>2, <2>3, <3>1, <3>2, <3>3, <3>4, <3>5 DEF Apart
  <2> QED
    BY <2>1, <2>2, <2>4, <2>5
<1>15. SaveInv'
  <2> SUFFICES ASSUME NEW h \in clean', req'[h].pc \in {"write", "done"}
      PROVE  /\ (req[h].pc = "write" =>
                   Here[At(h)] = req[h].open /\ data[req[h].open] = "empty")'
             /\ (req[h].pc = "done" =>
                   Here[At(h)] # NoFile /\ data[Here[At(h)]] = h)'
    BY DEF SaveInv
  <2>1. data \in [File -> {"empty", "torn", "old"} \cup Handler]
    BY DEF TypeOK
  <2>2. CASE h = g
    <3>1. At(h)' = n /\ req'[h].pc = "write" /\ req'[h].open = f
      BY <1>2, <1>13, <2>2 DEF n
    <3> QED
      BY <1>2, <1>7, <2>1, <3>1
  <2>3. CASE h # g
    <3>1. req'[h] = req[h] /\ At(h) # n /\ At(h)' = At(h) /\ At(h) \in Name
      BY <1>13, <2>3
    <3>2. Here'[At(h)] = Here[At(h)] /\ Here[At(h)] # f
      BY <1>6, <3>1
    <3>3. data'[Here[At(h)]] = data[Here[At(h)]] \/ Here[At(h)] = NoFile
      BY <1>2, <1>4, <2>1, <3>1, <3>2
    <3>4. /\ (req[h].pc = "write" => Here[At(h)] = req[h].open /\ req[h].open # NoFile
                                     /\ data[req[h].open] = "empty")
          /\ (req[h].pc = "done" => Here[At(h)] # NoFile /\ data[Here[At(h)]] = h)
      BY <1>13 DEF SaveInv, OpInv
    <3> QED
      BY <3>1, <3>2, <3>3, <3>4
  <2> QED
    BY <2>2, <2>3
<1> QED
  BY <1>9, <1>10, <1>11, <1>12, <1>14, <1>15

\* Requests that go on to their end, or a write to the reply: nothing but
\* their place changes in the requests.
LEMMA EndingKeepsRequests ==
  ASSUME IInv, NEW g \in Handler, NEW pc, Goes(g, pc), Remember,
         Running(g), pc \in {"stat", "done", "failed"},
         pc = "stat" => IsCreate(g),
         g \in clean => req[g].pc = "write" /\ pc # "stat",
         \A n \in Name : Here'[n] \in {NoFile} \cup {Here[m] : m \in Name},
         \A h \in clean \ {g} : Here'[At(h)] = Here[At(h)],
         g \in clean => Here' = Here
  PROVE  OpInv' /\ FreshInv' /\ OthersInv'
         /\ clean' \subseteq clean /\ clean' \subseteq Handler
<1> USE DEF IInv
<1>1. clean' \subseteq clean /\ clean' \subseteq Handler
  BY CleanStays DEF Goes, Running
<1>2. OpInv'
  BY DEF OpInv, Goes, IsCreate, IsSave
<1>3. FreshInv'
  <2>1. \A k \in Handler : req'[k].open = req[k].open
    BY DEF Goes
  <2>2. ASSUME NEW f \in File, Unused(f)
        PROVE  Unused(f)'
    <3>1. f # NoFile
      BY ContentsAssumption
    <3> QED
      BY <2>1, <2>2, <3>1 DEF Unused
  <2>3. \A h \in Handler : \A i \in {1, 2} : <<h, i>> \in File
    BY DEF File
  <2> QED
    BY <2>1, <2>2, <2>3 DEF FreshInv, Goes
<1>4. OthersInv'
  <2> SUFFICES ASSUME NEW h \in clean'
      PROVE  /\ IsSave(h)'
             /\ (req[h].pc \in {"truncate", "write", "done", "failed"})'
             /\ \A k \in Handler \ {h} : Apart(k, h)'
    BY DEF OthersInv
  <2>1. /\ h \in clean /\ h \in Handler /\ IsSave(h)
        /\ req[h].pc \in {"truncate", "write", "done", "failed"}
        /\ \A k \in Handler \ {h} : Apart(k, h)
    BY <1>1 DEF OthersInv
  <2>2. At(h)' = At(h) /\ IsSave(h)' /\ Here'[At(h)] = Here[At(h)]
    BY <2>1 DEF Goes, At, IsSave
  <2>3. (req[h].pc \in {"truncate", "write", "done", "failed"})'
    BY <2>1 DEF Goes
  <2>4. ASSUME NEW k \in Handler \ {h}, k # g
        PROVE  Apart(k, h)'
    <3>1. req'[k] = req[k] /\ Apart(k, h)
      BY <2>1, <2>4 DEF Goes
    <3>2. /\ Running(k)' = Running(k) /\ IsCreate(k)' = IsCreate(k)
          /\ Names(k)' = Names(k) /\ At(k)' = At(k)
      BY <3>1 DEF Running, Ended, IsCreate, Names, At
    <3>3. CASE h = g
      <4>1. req[h].pc = "write" /\ ~Ended(h)
        BY <2>1, <3>3 DEF Ended
      <4>2. req[k].pc \in {"open", "truncate"} => Running(k)
        BY DEF Running, Ended
      <4> QED
        BY <2>2, <3>1, <3>2, <4>1, <4>2 DEF Apart
    <3>4. CASE h # g
      <4>1. req'[h] = req[h] /\ Ended(h)' = Ended(h)
        BY <2>1, <3>4 DEF Goes, Ended
      <4> QED
        BY <2>2, <3>1, <3>2, <4>1 DEF Apart
    <3> QED
      BY <3>3, <3>4
  <2>5. ASSUME g # h
        PROVE  Apart(g, h)'
    <3>1. Apart(g, h) /\ Running(g)
      BY <2>1, <2>5
    <3>2. IsCreate(g)' = IsCreate(g) /\ Names(g)' = Names(g)
      BY DEF Goes, IsCreate, Names
    <3>3. req'[h] = req[h] /\ Ended(h)' = Ended(h)
      BY <2>1, <2>5 DEF Goes, Ended
    <3>4. req'[g].pc \notin {"write", "open", "truncate"}
      BY DEF Goes
    <3> QED
      BY <2>2, <3>1, <3>2, <3>3, <3>4 DEF Apart
  <2> QED
    BY <2>2, <2>3, <2>4, <2>5
<1> QED
  BY <1>1, <1>2, <1>3, <1>4

LEMMA WriteKeepsIInv ==
  ASSUME IInv, NEW g \in Handler, WriteContent(g), Remember, UNCHANGED series
  PROVE  IInv'
<1> USE DEF IInv
<1> DEFINE o == req[g].open
<1>1. o \in File
  <2>1. req[g] \in Request
    BY DEF TypeOK
  <2> QED
    BY <2>1, RequestFields DEF OpInv, WriteContent
<1>2. PICK pc \in {"stat", "done", "failed"}, c \in {g, "torn", data[o]} :
         /\ Goto(g, pc) /\ data' = [data EXCEPT ![o] = c] /\ dir' = dir
         /\ (pc = "stat" <=> req[g].op = "notebook")
         /\ (pc = "done" /\ data[o] = "empty" => c = g)
  <2>1. data = [data EXCEPT ![o] = data[o]]
    BY DEF TypeOK
  <2> QED
    BY <2>1 DEF WriteContent
<1>3. pc \in PC
  BY DEF PC
<1>4. Goes(g, pc)
  BY <1>2, <1>3, GotoGoes
<1>5. data \in [File -> {"empty", "torn", "old"} \cup Handler]
  BY DEF TypeOK
<1>6. Running(g) /\ req[g].pc = "write"
  BY DEF Running, Ended, WriteContent
<1>7. Here' = Here
  BY <1>2 DEF Here
<1> HIDE DEF o
<1>8. g \in clean => pc # "stat"
  BY <1>2 DEF OthersInv, IsSave
<1>9. \A n \in Name : Here'[n] \in {NoFile} \cup {Here[m] : m \in Name}
  BY <1>7
<1>10. OpInv' /\ FreshInv' /\ OthersInv'
       /\ clean' \subseteq clean /\ clean' \subseteq Handler
  <2>1. pc = "stat" => IsCreate(g)
    BY <1>2 DEF IsCreate
  <2> QED
    BY <1>4, <1>6, <1>7, <1>8, <1>9, <2>1, EndingKeepsRequests
<1>11. TypeOK'
  <2>1. data' \in [File -> {"empty", "torn", "old"} \cup Handler]
    BY <1>1, <1>2, <1>5
  <2> QED
    BY <1>2, <1>4, <1>10, <2>1 DEF TypeOK, Goes
<1>12. OneName'
  BY <1>7 DEF OneName
<1>13. SaveInv'
  <2> SUFFICES ASSUME NEW h \in clean', req'[h].pc \in {"write", "done"}
      PROVE  /\ (req[h].pc = "write" =>
                   Here[At(h)] = req[h].open /\ data[req[h].open] = "empty")'
             /\ (req[h].pc = "done" =>
                   Here[At(h)] # NoFile /\ data[Here[At(h)]] = h)'
    BY DEF SaveInv
  <2>1. h \in clean /\ h \in Handler
    BY <1>10
  <2>2. CASE h = g
    <3>1. Here[At(h)] = o /\ data[o] = "empty"
      BY <1>6, <2>1, <2>2 DEF SaveInv, o
    <3>2. req'[h].pc = "done" /\ pc = "done" /\ At(h)' = At(h)
      BY <1>2, <1>4, <2>1, <2>2 DEF Goes, At
    <3>3. c = h
      BY <1>2, <2>2, <3>1, <3>2
    <3>4. data'[o] = h /\ o # NoFile
      BY <1>1, <1>2, <1>5, <3>3, ContentsAssumption
    <3> QED
      BY <1>7, <3>1, <3>2, <3>4
  <2>3. CASE h # g
    <3>1. req'[h] = req[h] /\ At(h)' = At(h)
      BY <1>4, <2>1, <2>3 DEF Goes, At
    <3>2. /\ (req[h].pc = "write" => Here[At(h)] = req[h].open /\ req[h].open # NoFile
                                     /\ data[req[h].open] = "empty")
          /\ (req[h].pc = "done" => Here[At(h)] # NoFile /\ data[Here[At(h)]] = h)
      BY <2>1 DEF SaveInv, OpInv
    <3>3. Here[At(h)] # o
      <4>1. Apart(g, h)
        BY <2>1, <2>3 DEF OthersInv
      <4> QED
        BY <1>6, <3>1, <3>2, <4>1 DEF Apart, o
    <3>4. At(h) \in Name
      <4>1. req[h] \in Request
        BY <2>1 DEF TypeOK
      <4> QED
        BY <4>1, RequestFields DEF At
    <3>5. Here[At(h)] \in File
      BY <3>1, <3>2, <3>4 DEF TypeOK, Here, Dirs
    <3>6. data'[Here[At(h)]] = data[Here[At(h)]]
      BY <1>2, <1>5, <3>3, <3>5
    <3> QED
      BY <1>7, <3>1, <3>2, <3>6
  <2> QED
    BY <2>2, <2>3
<1> QED
  BY <1>2, <1>10, <1>11, <1>12, <1>13

\* A rename or a delete touches the names of its request only.
LEMMA EditKeepsIInv ==
  ASSUME IInv, NEW g \in Handler, req[g].pc \in {"rename", "delete"},
         Goto(g, "done"), Remember, UNCHANGED <<data, series>>,
         dir' \in [Dirs -> [Name -> File \cup {NoFile}]],
         \A n \in Name : Here'[n] \in {NoFile} \cup {Here[m] : m \in Name},
         \A n \in Name \ {req[g].name, req[g].to} : Here'[n] = Here[n],
         OneName'
  PROVE  IInv'
<1> USE DEF IInv
<1>1. Goes(g, "done")
  <2>1. "done" \in PC
    BY DEF PC
  <2> QED
    BY <2>1, GotoGoes
<1>2. Running(g) /\ ~IsCreate(g) /\ g \notin clean
  BY DEF Running, Ended, IsCreate, OpInv, OthersInv
<1>3. ASSUME NEW h \in clean
      PROVE  h # g /\ h \in Handler /\ Here'[At(h)] = Here[At(h)]
  <2>1. h # g /\ h \in Handler
    BY <1>2 DEF TypeOK
  <2>2. At(h) \notin {req[g].name, req[g].to}
    <3>1. Apart(g, h)
      BY <2>1 DEF OthersInv
    <3> QED
      BY <1>2, <3>1 DEF Apart, Names
  <2>3. At(h) \in Name
    <3>1. req[h] \in Request
      BY <2>1 DEF TypeOK
    <3> QED
      BY <3>1, RequestFields DEF At
  <2> QED
    BY <2>1, <2>2, <2>3
<1>4. OpInv' /\ FreshInv' /\ OthersInv'
      /\ clean' \subseteq clean /\ clean' \subseteq Handler
  BY <1>1, <1>2, <1>3, EndingKeepsRequests
<1>5. TypeOK'
  BY <1>1, <1>4 DEF TypeOK, Goes
<1>6. SaveInv'
  BY <1>1, <1>3, <1>4 DEF SaveInv, Goes, At
<1> QED
  BY <1>4, <1>5, <1>6

-----------------------------------------------------------------------------
(* The theorem *)

LEMMA IdleFields ==
  /\ Idle \in Request
  /\ Idle.op = "none" /\ Idle.pc = "idle" /\ Idle.open = NoFile
BY ContentsAssumption DEF Idle, Request, Op, PC, Name

LEMMA InitIInv == Init /\ HomeDir = ProcessDir => IInv
<1> SUFFICES ASSUME Init, HomeDir = ProcessDir PROVE IInv
  OBVIOUS
<1>1. PICK f \in {NoFile, <<"initial", 1>>} :
         dir = [d \in Dirs |-> [n \in Name |->
                  IF d = HomeDir /\ n = 0 THEN f ELSE NoFile]]
  BY DEF Init
<1>2. Here = [n \in Name |-> IF n = 0 THEN f ELSE NoFile]
  BY <1>1 DEF Here, Dirs
<1>3. <<"initial", 1>> \in File
  BY DEF File
<1>4. Idle \in Request
  BY IdleFields
<1>5. \A h \in Handler : req[h] = Idle
  BY DEF Init
<1>6. TypeOK
  <2>1. dir \in [Dirs -> [Name -> File \cup {NoFile}]]
    BY <1>1, <1>3
  <2>2. data \in [File -> {"empty", "torn", "old"} \cup Handler]
    BY DEF Init
  <2>3. req \in [Handler -> Request]
    BY <1>4 DEF Init
  <2> QED
    BY <2>1, <2>2, <2>3 DEF Init, TypeOK
<1>7. OpInv
  BY <1>5, IdleFields DEF OpInv
<1>8. OneName
  BY <1>2 DEF OneName
<1>9. FreshInv
  <2>1. ASSUME NEW h \in Handler, NEW i \in {1, 2}
        PROVE  Unused(<<h, i>>)
    <3>1. <<h, i>> # <<"initial", 1>>
      BY ContentsAssumption
    <3>2. <<h, i>> \in File
      BY DEF File
    <3>3. \A n \in Name : Here[n] # <<h, i>>
      BY <1>2, <3>1, <3>2, ContentsAssumption
    <3>4. \A k \in Handler : req[k].open = NoFile
      BY <1>5, IdleFields
    <3> QED
      BY <3>2, <3>3, <3>4, ContentsAssumption DEF Unused
  <2> QED
    BY <1>5, <2>1, IdleFields DEF FreshInv
<1>10. OthersInv /\ SaveInv
  BY DEF Init, OthersInv, SaveInv
<1> QED
  BY <1>6, <1>7, <1>8, <1>9, <1>10 DEF IInv

LEMMA StepIInv == IInv /\ [Next]_vars => IInv'
<1> SUFFICES ASSUME IInv, [Next]_vars PROVE IInv'
  OBVIOUS
<1> USE DEF IInv
<1>1. CASE UNCHANGED vars
  BY <1>1 DEF vars, TypeOK, OpInv, OneName, FreshInv, OthersInv, SaveInv,
              Unused, Here, At, IsSave, IsCreate, Apart, Running, Ended, Names
<1>2. CASE Next
  <2>1. PICK g \in Handler : Step(g)
    BY <1>2 DEF Next
  <2>2. Remember /\ UNCHANGED series
    BY <1>2 DEF Next
  <2>3. req[g] \in Request
    BY DEF TypeOK
  <2>4. Here \in [Name -> File \cup {NoFile}] /\ DirOf(g) \in Dirs
        /\ HomeDir \in Dirs
    BY DEF TypeOK, Here, Dirs, DirOf
  <2>5. CASE CreateArrives(g)
    <3> DEFINE r == [Idle EXCEPT !.op = series, !.pc = "probe"]
    <3>1. Arrived(r)
      <4>1. series \in Op /\ "probe" \in PC
        BY DEF Op, PC, TypeOK
      <4>2. r \in Request /\ r.op = series /\ r.pc = "probe" /\ r.open = NoFile
        BY <4>1, IdleFields DEF Request
      <4> HIDE DEF r
      <4> QED
        BY <4>2 DEF Arrived, TypeOK
    <3>2. req' = [req EXCEPT ![g] = r] /\ req[g].pc = "idle"
          /\ UNCHANGED <<dir, data>>
      BY <2>5 DEF CreateArrives
    <3> HIDE DEF r
    <3> QED
      BY <2>2, <3>1, <3>2, ArrivalKeepsIInv
  <2>6. CASE SaveArrives(g)
    <3>1. PICK op \in {"save", "upload"}, n \in Name :
             req' = [req EXCEPT ![g] = [Idle EXCEPT !.op = op, !.pc = "truncate",
                                                    !.name = n]]
      BY <2>6 DEF SaveArrives
    <3> DEFINE r == [Idle EXCEPT !.op = op, !.pc = "truncate", !.name = n]
    <3>2. Arrived(r)
      <4>1. op \in Op /\ "truncate" \in PC
        BY DEF Op, PC
      <4>2. r \in Request /\ r.op = op /\ r.pc = "truncate" /\ r.open = NoFile
        BY <4>1, IdleFields DEF Request
      <4> HIDE DEF r
      <4> QED
        BY <4>2 DEF Arrived
    <3>3. req[g].pc = "idle" /\ UNCHANGED <<dir, data>>
          /\ req' = [req EXCEPT ![g] = r]
      BY <2>6, <3>1 DEF SaveArrives
    <3> HIDE DEF r
    <3> QED
      BY <2>2, <3>2, <3>3, ArrivalKeepsIInv
  <2>7. CASE RenameArrives(g)
    <3>1. PICK n \in Name, m \in Name :
             req' = [req EXCEPT ![g] = [Idle EXCEPT !.op = "rename",
                                          !.pc = "rename", !.name = n, !.to = m]]
      BY <2>7 DEF RenameArrives
    <3> DEFINE r == [Idle EXCEPT !.op = "rename", !.pc = "rename",
                                 !.name = n, !.to = m]
    <3>2. Arrived(r)
      <4>1. "rename" \in Op /\ "rename" \in PC
        BY DEF Op, PC
      <4>2. r \in Request /\ r.op = "rename" /\ r.pc = "rename" /\ r.open = NoFile
        BY <4>1, IdleFields DEF Request
      <4> HIDE DEF r
      <4> QED
        BY <4>2 DEF Arrived
    <3>3. req[g].pc = "idle" /\ UNCHANGED <<dir, data>>
          /\ req' = [req EXCEPT ![g] = r]
      BY <2>7, <3>1 DEF RenameArrives
    <3> HIDE DEF r
    <3> QED
      BY <2>2, <3>2, <3>3, ArrivalKeepsIInv
  <2>8. CASE DeleteArrives(g)
    <3>1. PICK n \in Name :
             req' = [req EXCEPT ![g] = [Idle EXCEPT !.op = "delete",
                                          !.pc = "delete", !.name = n]]
      BY <2>8 DEF DeleteArrives
    <3> DEFINE r == [Idle EXCEPT !.op = "delete", !.pc = "delete", !.name = n]
    <3>2. Arrived(r)
      <4>1. "delete" \in Op /\ "delete" \in PC
        BY DEF Op, PC
      <4>2. r \in Request /\ r.op = "delete" /\ r.pc = "delete" /\ r.open = NoFile
        BY <4>1, IdleFields DEF Request
      <4> HIDE DEF r
      <4> QED
        BY <4>2 DEF Arrived
    <3>3. req[g].pc = "idle" /\ UNCHANGED <<dir, data>>
          /\ req' = [req EXCEPT ![g] = r]
      BY <2>8, <3>1 DEF DeleteArrives
    <3> HIDE DEF r
    <3> QED
      BY <2>2, <3>2, <3>3, ArrivalKeepsIInv
  <2>9. ASSUME NEW pc \in PC, Quiet(g, pc), Goto(g, pc), UNCHANGED <<dir, data>>
        PROVE  IInv'
    BY <2>2, <2>9, GotoGoes, QuietKeepsIInv
  <2>10. CASE Probe(g)
    <3>1. CASE Here[At(g)] = NoFile
      BY <2>9, <2>10, <3>1 DEF Probe, Quiet, Here, At, PC
    <3>2. CASE Here[At(g)] # NoFile
      BY <2>2, <2>10, <3>2, NextNameKeepsIInv DEF Probe, Here, At
    <3> QED
      BY <3>1, <3>2
  <2>11. CASE CreateOpen(g)
    <3>1. CASE OpenTruncated(g, HomeDir, req[g].name)
      BY <2>2, <2>4, <2>11, <3>1, OpeningKeepsIInv DEF CreateOpen, At
    <3>2. CASE Goto(g, IF req[g].op = "notebook" THEN "truncate" ELSE "stat")
               /\ UNCHANGED <<dir, data>>
      BY <2>9, <2>11, <3>2 DEF CreateOpen, Quiet, PC
    <3> QED
      BY <2>11, <3>1, <3>2 DEF CreateOpen
  <2>12. CASE CreateStat(g)
    BY <2>9, <2>12 DEF CreateStat, Quiet, PC
  <2>13. CASE Truncate(g)
    <3>1. CASE OpenTruncated(g, DirOf(g), req[g].name)
      BY <2>2, <2>4, <2>13, <3>1, OpeningKeepsIInv DEF Truncate, At
    <3>2. CASE Goto(g, IF req[g].op = "notebook" THEN "stat" ELSE "failed")
               /\ UNCHANGED <<dir, data>>
      BY <2>9, <2>13, <3>2 DEF Truncate, Quiet, PC
    <3> QED
      BY <2>13, <3>1, <3>2 DEF Truncate
  <2>14. CASE WriteContent(g)
    BY <2>2, <2>14, WriteKeepsIInv
  <2>15. CASE Rename(g)
    <3> DEFINE n == req[g].name
               m == req[g].to
    <3>1. n \in Name /\ m \in Name
      BY <2>3, RequestFields
    <3>2. /\ Goto(g, "done") /\ req[g].pc = "rename" /\ UNCHANGED data
          /\ dir' = IF Here[n] = NoFile \/ n = m THEN dir
                    ELSE [dir EXCEPT ![HomeDir][m] = Here[n],
                                     ![HomeDir][n] = NoFile]
      BY <2>15 DEF Rename, Here
    <3> HIDE DEF n, m
    <3>3. dir' \in [Dirs -> [Name -> File \cup {NoFile}]]
      BY <2>4, <3>1, <3>2 DEF TypeOK
    <3>4. Here' = IF Here[n] = NoFile \/ n = m THEN Here
                  ELSE [Here EXCEPT ![m] = Here[n], ![n] = NoFile]
      BY <2>4, <3>2 DEF TypeOK, Here
    <3>5. \A x \in Name : Here'[x] \in {NoFile} \cup {Here[y] : y \in Name}
      BY <2>4, <3>1, <3>4
    <3>6. \A x \in Name \ {n, m} : Here'[x] = Here[x]
      BY <2>4, <3>4
    <3>7. OneName'
      BY <2>4, <3>1, <3>4 DEF OneName
    <3> QED
      BY <2>2, <3>2, <3>3, <3>5, <3>6, <3>7, EditKeepsIInv DEF n, m
  <2>16. CASE Delete(g)
    <3> DEFINE n == req[g].name
    <3>1. n \in Name
      BY <2>3, RequestFields
    <3>2. /\ Goto(g, "done") /\ req[g].pc = "delete" /\ UNCHANGED data
          /\ dir' = [dir EXCEPT ![HomeDir][n] = NoFile]
      BY <2>16 DEF Delete
    <3> HIDE DEF n
    <3>3. dir' \in [Dirs -> [Name -> File \cup {NoFile}]]
      BY <3>2 DEF TypeOK
    <3>4. Here' = [Here EXCEPT ![n] = NoFile]
      BY <2>4, <3>2 DEF TypeOK, Here
    <3>5. \A x \in Name : Here'[x] \in {NoFile} \cup {Here[y] : y \in Name}
      BY <2>4, <3>1, <3>4
    <3>6. \A x \in Name \ {n, req[g].to} : Here'[x] = Here[x]
      BY <2>4, <3>4
    <3>7. OneName'
      BY <2>4, <3>1, <3>4 DEF OneName
    <3> QED
      BY <2>2, <3>2, <3>3, <3>5, <3>6, <3>7, EditKeepsIInv DEF n
  <2> QED
    BY <2>1, <2>5, <2>6, <2>7, <2>8, <2>10, <2>11, <2>12, <2>13, <2>14,
       <2>15, <2>16 DEF Step
<1> QED
  BY <1>1, <1>2 DEF Next

\* However many requests there are on however many names, if the server runs in
\* the project directory, as it does unless started with -cwd, then the
\* directory, the files and the requests keep their types,
THEOREM TypeCorrect == Spec /\ HomeDir = ProcessDir => []TypeOK
<1>1. IInv => TypeOK
  BY DEF IInv
<1> QED
  BY InitIInv, StepIInv, <1>1, PTL DEF Spec

\* and what an acknowledged save that overlapped no other request has written
\* (putContent, uploadFile) stays what GET returns, whatever creates go on,
\* until a request about that very name arrives.
THEOREM SavesAreKept == Spec /\ HomeDir = ProcessDir => []AcknowledgedSaveKept
<1>1. IInv => AcknowledgedSaveKept
  BY DEF IInv, AcknowledgedSaveKept, SaveInv, Stored, Here, At
<1> QED
  BY InitIInv, StepIInv, <1>1, PTL DEF Spec
=============================================================================
