------------------------------ MODULE Contents ------------------------------
(***************************************************************************)
(* The contents API of the server (internal/content): the requests that    *)
(* create, save, upload, rename and delete the files of one directory of   *)
(* the project, each in a goroutine of its own and with no lock, against   *)
(* the file system.                                                        *)
(*                                                                         *)
(* A directory maps names to files and a file has a content, so that what  *)
(* is written to an open file after a rename or a delete goes where the    *)
(* file is.  The names are those of one series the server itself           *)
(* generates: untitled.txt, untitled1.txt, ... or Untitled.ipynb,          *)
(* Untitled1.ipynb, ...; the two series never meet.                        *)
(***************************************************************************)
EXTENDS Naturals

CONSTANTS
  Handler,      \* requests
  MaxName,      \* bound: the names are 0..MaxName
  HomeDir,      \* the project directory, the -cwd flag of the server
  ProcessDir,   \* the directory the server process runs in
  NoFile        \* no file of that name

Name == 0..MaxName
Dirs == {HomeDir, ProcessDir}

\* A request creates at most two files, in the directory of its own or of
\* a file another request removed in between.
File == (Handler \cup {"initial"}) \X {1, 2}

ASSUME ContentsAssumption ==
  MaxName \in Nat /\ NoFile \notin File /\ "initial" \notin Handler

VARIABLES
  series,   \* "file" or "notebook": the series of names, fixed
  dir,      \* directory -> name -> file
  data,     \* file -> "empty", "torn", "old", or the request that wrote it
  req,      \* the requests
  clean     \* completed or running saves nobody interfered with (see below)

vars == <<series, dir, data, req, clean>>

Op == {"none", "file", "notebook", "save", "upload", "rename", "delete"}
PC == {"idle", "probe", "open", "truncate", "write", "stat", "rename",
       "delete", "done", "failed", "panicked"}
Request == [op : Op, pc : PC, name : Name, to : Name,
            open : File \cup {NoFile}]

Idle == [op |-> "none", pc |-> "idle", name |-> 0, to |-> 0, open |-> NoFile]

Goto(h, pc) == req' = [req EXCEPT ![h].pc = pc]

\* Saves are written to the path in the request as it is, which the operating
\* system resolves against the process's directory; all else goes through
\* GetSafePath.
DirOf(h) == IF req[h].op = "save" THEN ProcessDir ELSE HomeDir

\* What GET of a name returns.
Stored(n) == IF dir[HomeDir][n] = NoFile THEN "absent"
             ELSE data[dir[HomeDir][n]]

\* os.OpenFile with O_CREATE and O_TRUNC: the file of that name is emptied,
\* or a new one made.
OpenTruncated(h, d, n) ==
  LET new == IF dir[d][n] # NoFile THEN dir[d][n]
             ELSE CHOOSE f \in {<<h, 1>>, <<h, 2>>} : f # req[h].open
  IN /\ dir' = [dir EXCEPT ![d][n] = new]
     /\ data' = [data EXCEPT ![new] = "empty"]
     /\ req' = [req EXCEPT ![h].open = new, ![h].pc =
                  IF req[h].pc = "truncate" THEN "write"
                  ELSE IF req[h].op = "notebook" THEN "truncate"
                  ELSE "stat"]

-----------------------------------------------------------------------------
(* POST /api/contents/create: newUntitledFile and newUntitledNotebook      *)

CreateArrives(h) ==
  /\ req[h].pc = "idle"
  /\ req' = [req EXCEPT ![h] = [Idle EXCEPT !.op = series, !.pc = "probe"]]
  /\ UNCHANGED <<dir, data>>

\* Mutant: the first name is taken without a look.
Probe_Never(h) ==
  /\ req[h].pc = "probe"
  /\ Goto(h, "open")
  /\ UNCHANGED <<dir, data>>

\* fileExists: one name after the other until one is free
Probe(h) ==
  /\ req[h].pc = "probe"
  /\ IF dir[HomeDir][req[h].name] = NoFile
       THEN Goto(h, "open")
       ELSE /\ req[h].name < MaxName
            /\ req' = [req EXCEPT ![h].name = @ + 1]
  /\ UNCHANGED <<dir, data>>

\* By now the name may be taken.  An error is logged and forgotten.
CreateOpen(h) ==
  /\ req[h].pc = "open"
  /\ \/ OpenTruncated(h, HomeDir, req[h].name)
     \/ /\ Goto(h, IF req[h].op = "notebook" THEN "truncate" ELSE "stat")
        /\ UNCHANGED <<dir, data>>

\* The reply is made from the file's Lstat; if the file has gone its nil
\* result is dereferenced.
CreateStat(h) ==
  /\ req[h].pc = "stat"
  /\ Goto(h, IF dir[HomeDir][req[h].name] = NoFile THEN "panicked" ELSE "done")
  /\ UNCHANGED <<dir, data>>

-----------------------------------------------------------------------------
(* PUT /api/contents, and the upload of a file                             *)

SaveArrives(h) ==
  /\ req[h].pc = "idle"
  /\ \E op \in {"save", "upload"}, n \in Name :
       req' = [req EXCEPT ![h] = [Idle EXCEPT !.op = op, !.pc = "truncate",
                                              !.name = n]]
  /\ UNCHANGED <<dir, data>>

\* os.WriteFile, os.Create: first the file is emptied,
Truncate(h) ==
  /\ req[h].pc = "truncate"
  /\ \/ OpenTruncated(h, DirOf(h), req[h].name)
     \/ /\ Goto(h, IF req[h].op = "notebook" THEN "stat" ELSE "failed")
        /\ UNCHANGED <<dir, data>>

\* then the content is written from its beginning on: over what a concurrent
\* request wrote, whose end remains if it was longer.  The write may fail,
\* half-way or at once; the old content is lost all the same.
WriteContent(h) ==
  /\ req[h].pc = "write"
  /\ \/ /\ data' \in {[data EXCEPT ![req[h].open] = c] :
                        c \in IF data[req[h].open] = "empty" THEN {h}
                              ELSE {h, "torn"}}
        /\ Goto(h, IF req[h].op = "notebook" THEN "stat" ELSE "done")
     \/ /\ data' \in {data, [data EXCEPT ![req[h].open] = "torn"]}
        /\ Goto(h, IF req[h].op = "notebook" THEN "stat" ELSE "failed")
  /\ UNCHANGED dir

-----------------------------------------------------------------------------
(* POST /api/contents/rename and DELETE /api/contents                      *)

RenameArrives(h) ==
  /\ req[h].pc = "idle"
  /\ \E n, m \in Name :
       req' = [req EXCEPT ![h] = [Idle EXCEPT !.op = "rename",
                                    !.pc = "rename", !.name = n, !.to = m]]
  /\ UNCHANGED <<dir, data>>

\* os.Rename replaces a file of the new name; its error is dropped and the
\* reply is 200 in any case.
Rename(h) ==
  /\ req[h].pc = "rename"
  /\ LET n == req[h].name
         m == req[h].to
     IN dir' = IF dir[HomeDir][n] = NoFile \/ n = m THEN dir
               ELSE [dir EXCEPT ![HomeDir][m] = dir[HomeDir][n],
                                ![HomeDir][n] = NoFile]
  /\ Goto(h, "done")
  /\ UNCHANGED data

DeleteArrives(h) ==
  /\ req[h].pc = "idle"
  /\ \E n \in Name :
       req' = [req EXCEPT ![h] = [Idle EXCEPT !.op = "delete",
                                    !.pc = "delete", !.name = n]]
  /\ UNCHANGED <<dir, data>>

\* Mutant: the name is forgotten, not freed.
Delete_Name(h) ==
  /\ req[h].pc = "delete"
  /\ dir' = [dir EXCEPT ![HomeDir] =
               [n \in Name \ {req[h].name} |-> dir[HomeDir][n]]]
  /\ Goto(h, "done")
  /\ UNCHANGED data

\* os.Remove; its error is dropped as well.
Delete(h) ==
  /\ req[h].pc = "delete"
  /\ dir' = [dir EXCEPT ![HomeDir][req[h].name] = NoFile]
  /\ Goto(h, "done")
  /\ UNCHANGED data

-----------------------------------------------------------------------------
(* The history variable clean, for AcknowledgedSaveKept *)

Ended(h) == req[h].pc \in {"done", "failed", "panicked"}

Running(h) == req[h].pc # "idle" /\ ~Ended(h)

IsCreate(h) == req[h].op \in {"file", "notebook"}

Names(h) == IF IsCreate(h) THEN Name ELSE {req[h].name, req[h].to}

\* Request g, which arrives in this step, may meddle with the save h: it is
\* about h's file, or a create that h overlaps.
Meddles(g, h) ==
  /\ req[g].pc = "idle" /\ req'[g].pc # "idle"
  /\ IF IsCreate(g)' THEN ~Ended(h) ELSE req[h].name \in Names(g)'

Remember ==
  clean' = {h \in Handler :
    \/ /\ h \in clean
       /\ \A g \in Handler \ {h} : ~Meddles(g, h)
    \/ /\ req[h].pc = "idle" /\ req'[h].op \in {"save", "upload"}
       /\ \A g \in Handler : ~Running(g)}

-----------------------------------------------------------------------------
Init ==
  /\ series \in {"file", "notebook"}
  /\ \E f \in {NoFile, <<"initial", 1>>} :
       dir = [d \in Dirs |-> [n \in Name |->
                IF d = HomeDir /\ n = 0 THEN f ELSE NoFile]]
  /\ data = [f \in File |-> IF f = <<"initial", 1>> THEN "old" ELSE "empty"]
  /\ req = [h \in Handler |-> Idle]
  /\ clean = {}

Step(h) ==
  \/ CreateArrives(h) \/ Probe(h) \/ CreateOpen(h) \/ CreateStat(h)
  \/ SaveArrives(h) \/ Truncate(h) \/ WriteContent(h)
  \/ RenameArrives(h) \/ Rename(h)
  \/ DeleteArrives(h) \/ Delete(h)

Next == (\E h \in Handler : Step(h)) /\ Remember /\ UNCHANGED series

Spec == Init /\ [][Next]_vars

-----------------------------------------------------------------------------
(* Properties *)

TypeOK ==
  /\ series \in {"file", "notebook"}
  /\ dir \in [Dirs -> [Name -> File \cup {NoFile}]]
  /\ data \in [File -> {"empty", "torn", "old"} \cup Handler]
  /\ req \in [Handler -> Request]
  /\ clean \in SUBSET Handler

\* A save that was acknowledged, and that overlapped no other request, is
\* what GET returns until another save, upload, rename or delete of that name
\* arrives: create requests, however many run at once, do not touch it.
AcknowledgedSaveKept ==
  \A h \in clean : req[h].pc = "done" => Stored(req[h].name) = h
=============================================================================
