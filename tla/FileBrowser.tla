----------------------------- MODULE FileBrowser -----------------------------
(***************************************************************************)
(* The file browser (FileBrowser.tsx): the list of the project's directory *)
(* as the client keeps it, against the directory itself, with requests     *)
(* whose answers come late, in any order, or not at all.                   *)
(*                                                                         *)
(* Every reload gives all entries fresh ids, so that React replaces their  *)
(* components: what an older one was waiting for is lost.  An entry acts   *)
(* by the names it keeps: name (contentName), text (its input, also when   *)
(* the input is closed without Enter), and, for a directory, path, the     *)
(* name it was listed with.                                                *)
(*                                                                         *)
(* What a directory holds is shown by its entry and works in the same way; *)
(* here it is a set of names, with the requests that fetch and extend it.  *)
(***************************************************************************)
EXTENDS Naturals, FiniteSets

CONSTANTS
  Name,         \* names in the project's directory
  NoName,       \* a request without that name
  Child,        \* names in its directories
  InitialDisk,  \* Name -> "none", "file" or "directory"
  MaxCommands,  \* bound on what the user does
  MaxOps        \* bound on the requests

ASSUME BrowserAssumption ==
  /\ IsFiniteSet(Name) /\ NoName \notin Name
  /\ InitialDisk \in [Name -> {"none", "file", "directory"}]
  /\ MaxCommands \in Nat /\ MaxOps \in Nat \ {0}

VARIABLES
  disk,         \* Name -> "none", "file" or "directory"
  inside,       \* what the directories hold
  items,        \* contents: id -> the state of its FileItem or DirectoryItem
  nextId,       \* the next uuidv4()
  reloadCount,  \* a prop, set by the launcher
  ops,          \* requests and the code that waits for their answers
  begun,        \* how many requests there were
  commands,     \* what the user has done so far
  slips         \* history: what went wrong, see ListFaithful

diskVars == <<disk, inside>>
vars == <<diskVars, items, nextId, reloadCount, ops, begun, commands, slips>>

\* content is null until the directory was fetched; open is isCollapsed, which
\* says the opposite of its name.
Item == [kind : {"file", "directory"}, name : Name, text : Name, path : Name,
         editing : BOOLEAN, deleted : BOOLEAN, open : BOOLEAN,
         fetched : BOOLEAN, content : SUBSET Child]

Listed(n) == [kind |-> disk[n], name |-> n, text |-> n, path |-> n,
              editing |-> FALSE, deleted |-> FALSE, open |-> FALSE,
              fetched |-> FALSE, content |-> {}]

\* A request: what it asks for, for which entry (0 for none), with which names,
\* and with which reloadCount.  Its answer: the entries or what a directory holds, and
\* whether the directory has changed since.
Requested(asks, id, from, to, seen) ==
  [at |-> "sent", asks |-> asks, id |-> id, from |-> from, to |-> to,
   seen |-> seen, got |-> {}, inside |-> {}, old |-> FALSE]

FetchData == Requested("list", 0, NoName, NoName, 0)
FetchDirectory(id, path) == Requested("listdir", id, path, NoName, 0)

UnderWay == DOMAIN ops

\* Another request on top of the operations os.
Send(os, request) ==
  /\ begun < MaxOps
  /\ begun' = begun + 1
  /\ ops' = [o \in DOMAIN os \cup {begun + 1} |->
               IF o = begun + 1 THEN request ELSE os[o]]

\* The server answers o after a change of the directory: what other answers
\* carry is old now.
Served(o, got, in) ==
  ops' = [p \in UnderWay |->
            IF p = o THEN [ops[o] EXCEPT !.at = "answered", !.got = got,
                                         !.inside = in]
            ELSE [ops[p] EXCEPT !.old = @ \/ (ops[p].at = "answered"
                                    /\ <<disk, inside>>' # <<disk, inside>>)]]

Slip(what) == slips' = slips \cup {what}

NoSlip == UNCHANGED slips

-----------------------------------------------------------------------------
(* The server (content_manager.go), which answers a rename, a delete and a *)
(* create alike whether it did anything or not.                            *)

Existing == {n \in Name : disk[n] # "none"}

ServerLists(o) ==
  /\ ops[o].at = "sent" /\ ops[o].asks = "list"
  /\ UNCHANGED diskVars
  /\ Served(o, {Listed(n) : n \in Existing}, {})
  /\ NoSlip

ServerListsDirectory(o) ==
  /\ ops[o].at = "sent" /\ ops[o].asks = "listdir"
  /\ UNCHANGED diskVars
  /\ Served(o, {}, inside[ops[o].from])
  /\ NoSlip

\* A file or directory with a name that is free; for a notebook of the
\* launcher too.
ServerCreates(o, n) ==
  /\ ops[o].at = "sent"
  /\ ops[o].asks \in {"file", "createdir", "notebook"}
  /\ disk[n] = "none"
  /\ disk' = [disk EXCEPT ![n] = IF ops[o].asks = "createdir"
                                   THEN "directory" ELSE "file"]
  /\ UNCHANGED inside
  /\ Served(o, {}, {})
  /\ NoSlip

ServerCreatesIn(o, c) ==
  /\ ops[o].at = "sent" /\ ops[o].asks = "createin"
  /\ IF disk[ops[o].from] = "directory"
       THEN /\ c \notin inside[ops[o].from]
            /\ inside' = [inside EXCEPT ![ops[o].from] = @ \cup {c}]
            /\ NoSlip
       ELSE UNCHANGED inside /\ Slip("refused")
  /\ UNCHANGED disk
  /\ Served(o, {}, {})

\* os.Rename: a file replaces a file, a directory an empty directory.
CanRename(from, to) ==
  /\ from # to
  /\ disk[from] # "none"
  /\ disk[to] \in {"none", disk[from]}
  /\ inside[to] = {}

ServerRenames(o) ==
  /\ ops[o].at = "sent" /\ ops[o].asks = "rename"
  /\ LET from == ops[o].from
         to   == ops[o].to
     IN /\ IF CanRename(from, to)
             THEN /\ disk' = [disk EXCEPT ![to] = disk[from], ![from] = "none"]
                  /\ inside' = [inside EXCEPT ![to] = inside[from],
                                              ![from] = {}]
             ELSE UNCHANGED diskVars
        /\ IF from = to /\ disk[from] # "none" THEN NoSlip
           ELSE IF ~CanRename(from, to) THEN Slip("refused")
           ELSE IF disk[to] # "none" THEN Slip("replaced")
           ELSE NoSlip
  /\ Served(o, {}, {})

\* Mutant: a directory that is not empty goes too.
ServerDeletes_NotEmpty(o) ==
  /\ ops[o].at = "sent" /\ ops[o].asks = "delete"
  /\ disk' = [disk EXCEPT ![ops[o].from] = "none"]
  /\ UNCHANGED inside
  /\ Served(o, {}, {})
  /\ NoSlip

\* os.Remove, which removes a directory only if it is empty.
ServerDeletes(o) ==
  /\ ops[o].at = "sent" /\ ops[o].asks = "delete"
  /\ IF disk[ops[o].from] # "none" /\ inside[ops[o].from] = {}
       THEN disk' = [disk EXCEPT ![ops[o].from] = "none"] /\ NoSlip
       ELSE UNCHANGED disk /\ Slip("refused")
  /\ UNCHANGED inside
  /\ Served(o, {}, {})

ServerStep ==
  /\ \E o \in UnderWay :
       \/ ServerLists(o) \/ ServerListsDirectory(o)
       \/ \E n \in Name : ServerCreates(o, n)
       \/ \E c \in Child : ServerCreatesIn(o, c)
       \/ ServerRenames(o) \/ ServerDeletes(o)
  /\ UNCHANGED <<items, nextId, reloadCount, begun, commands>>

-----------------------------------------------------------------------------
(* The answers.                                                            *)

Ended(o) == [p \in UnderWay \ {o} |-> ops[p]]

\* FetchData: a new list of new entries.
ListAnswered(o) ==
  /\ ops[o].at = "answered" /\ ops[o].asks = "list"
  /\ LET list == CHOOSE l \in [nextId..nextId + Cardinality(ops[o].got) - 1 ->
                                 ops[o].got] :
                   \A m \in ops[o].got : \E id \in DOMAIN l : l[id] = m
     IN items' = list
  /\ nextId' = nextId + Cardinality(ops[o].got)
  /\ ops' = Ended(o)
  /\ IF ops[o].old THEN Slip("old list") ELSE NoSlip
  /\ UNCHANGED <<diskVars, reloadCount, begun>>

\* createNewFile and createNewDirectory go on with FetchData.
CreateAnswered(o) ==
  /\ ops[o].at = "answered" /\ ops[o].asks \in {"file", "createdir"}
  /\ Send(Ended(o), FetchData)
  /\ NoSlip
  /\ UNCHANGED <<diskVars, items, nextId, reloadCount>>

\* Mutant: only the tab is opened.
NotebookAnswered_NoReload(o) ==
  /\ ops[o].at = "answered" /\ ops[o].asks = "notebook"
  /\ ops' = Ended(o)
  /\ NoSlip
  /\ UNCHANGED <<diskVars, items, nextId, reloadCount, begun>>

\* createNewNotebook sets reloadCount to one more than at the click; if it has
\* that value already, nothing is fetched.
NotebookAnswered(o) ==
  /\ ops[o].at = "answered" /\ ops[o].asks = "notebook"
  /\ reloadCount' = ops[o].seen + 1
  /\ IF reloadCount' # reloadCount
       THEN /\ Send(Ended(o), FetchData)
            /\ NoSlip
       ELSE /\ ops' = Ended(o)
            /\ Slip("same count")
            /\ UNCHANGED begun
  /\ UNCHANGED <<diskVars, items, nextId>>

\* An answer to an entry that was replaced changes nothing.
ToEntry(o, item) ==
  /\ items' = IF ops[o].id \in DOMAIN items
                THEN [items EXCEPT ![ops[o].id] = item] ELSE items
  /\ IF ops[o].id \in DOMAIN items THEN NoSlip ELSE Slip("replaced entry")

RenameAnswered(o) ==
  /\ ops[o].at = "answered" /\ ops[o].asks = "rename"
  /\ ToEntry(o, [items[ops[o].id] EXCEPT !.name = ops[o].to,
                                         !.editing = FALSE])
  /\ ops' = Ended(o)
  /\ UNCHANGED <<diskVars, nextId, reloadCount, begun>>

DeleteAnswered(o) ==
  /\ ops[o].at = "answered" /\ ops[o].asks = "delete"
  /\ ToEntry(o, [items[ops[o].id] EXCEPT !.deleted = TRUE])
  /\ ops' = Ended(o)
  /\ UNCHANGED <<diskVars, nextId, reloadCount, begun>>

\* Creating in a directory goes on with fetching it.
CreateInAnswered(o) ==
  /\ ops[o].at = "answered" /\ ops[o].asks = "createin"
  /\ Send(Ended(o), FetchDirectory(ops[o].id, ops[o].from))
  /\ NoSlip
  /\ UNCHANGED <<diskVars, items, nextId, reloadCount>>

DirectoryAnswered(o) ==
  /\ ops[o].at = "answered" /\ ops[o].asks = "listdir"
  /\ IF ops[o].id \in DOMAIN items
       THEN items' = [items EXCEPT ![ops[o].id].content = ops[o].inside,
                                   ![ops[o].id].fetched = TRUE]
       ELSE UNCHANGED items
  /\ IF ops[o].old THEN Slip("old list")
     ELSE IF ops[o].id \notin DOMAIN items THEN Slip("replaced entry")
     ELSE NoSlip
  /\ ops' = Ended(o)
  /\ UNCHANGED <<diskVars, nextId, reloadCount, begun>>

\* The request or its answer is lost: what waits for it ends there, which the
\* user is not told.
Lost(o) ==
  /\ ops' = Ended(o)
  /\ Slip("lost")
  /\ UNCHANGED <<diskVars, items, nextId, reloadCount, begun>>

Answer ==
  /\ \E o \in UnderWay :
       \/ ListAnswered(o) \/ CreateAnswered(o) \/ NotebookAnswered(o)
       \/ RenameAnswered(o) \/ DeleteAnswered(o)
       \/ CreateInAnswered(o) \/ DirectoryAnswered(o)
       \/ Lost(o)
  /\ UNCHANGED commands

-----------------------------------------------------------------------------
(* The user.                                                               *)

\* The buttons of the file browser, and a kernel of the launcher.
Create(asks) ==
  /\ Send(ops, Requested(asks, 0, NoName, NoName, reloadCount))
  /\ NoSlip
  /\ UNCHANGED <<items, reloadCount>>

Shown(id) == ~items[id].deleted

\* An entry's menu and its input.
StartEditing(id) ==
  /\ Shown(id)
  /\ items' = [items EXCEPT ![id].editing = TRUE]
  /\ NoSlip
  /\ UNCHANGED <<ops, begun, reloadCount>>

EditText(id, text) ==
  /\ Shown(id) /\ items[id].editing
  /\ items' = [items EXCEPT ![id].text = text]
  /\ NoSlip
  /\ UNCHANGED <<ops, begun, reloadCount>>

\* onBlur: the text stays what it was edited to.
OnBlur(id) ==
  /\ Shown(id) /\ items[id].editing
  /\ items' = [items EXCEPT ![id].editing = FALSE]
  /\ NoSlip
  /\ UNCHANGED <<ops, begun, reloadCount>>

\* The request names the entry by what it is not called any more, or another
\* one may be about to change that.
Overlaps(id, asks) ==
  \E o \in UnderWay : /\ ops[o].id = id
                      /\ {asks, ops[o].asks} \cap {"rename", "delete"} # {}

ByName(id, request) ==
  /\ Send(ops, request)
  /\ slips' = slips
       \cup {w \in {"wrong name"} : request.from # items[id].name}
       \cup {w \in {"overlap"} : Overlaps(id, request.asks)}

\* The input stays open until the answer: Enter can be pressed again.
RenameContent(id) ==
  /\ Shown(id) /\ items[id].editing
  /\ ByName(id, Requested("rename", id, items[id].name, items[id].text, 0))
  /\ UNCHANGED <<items, reloadCount>>

\* A file is deleted by its text, a directory by its path.
DeleteContent(id) ==
  /\ Shown(id)
  /\ LET name == IF items[id].kind = "file" THEN items[id].text
                 ELSE items[id].path
     IN ByName(id, Requested("delete", id, name, NoName, 0))
  /\ UNCHANGED <<items, reloadCount>>

HandleDirectoryClick(id) ==
  /\ Shown(id) /\ items[id].kind = "directory"
  /\ ByName(id, FetchDirectory(id, items[id].path))
  /\ items' = [items EXCEPT ![id].open = ~@]
  /\ UNCHANGED reloadCount

CreateIn(id) ==
  /\ Shown(id) /\ items[id].kind = "directory"
  /\ ByName(id, Requested("createin", id, items[id].path, NoName, 0))
  /\ UNCHANGED <<items, reloadCount>>

Command ==
  /\ commands < MaxCommands
  /\ commands' = commands + 1
  /\ \/ \E asks \in {"file", "createdir", "notebook"} : Create(asks)
     \/ \E id \in DOMAIN items :
          \/ StartEditing(id) \/ OnBlur(id)
          \/ \E text \in Name : EditText(id, text)
          \/ RenameContent(id) \/ DeleteContent(id)
          \/ HandleDirectoryClick(id) \/ CreateIn(id)
  /\ UNCHANGED <<diskVars, nextId>>

-----------------------------------------------------------------------------
\* FetchData runs once when the file browser is mounted.
Init ==
  /\ disk = InitialDisk
  /\ inside = [n \in Name |-> {}]
  /\ items = [id \in {} |-> Listed(id)]
  /\ nextId = 1
  /\ reloadCount = 0
  /\ ops = [o \in {1} |-> FetchData]
  /\ begun = 1
  /\ commands = 0
  /\ slips = {}

Next == Command \/ ServerStep \/ Answer

Spec == Init /\ [][Next]_vars

-----------------------------------------------------------------------------
(* Properties.                                                             *)

\* Every entry has an id of its own that was drawn before, and only a
\* directory holds anything: the server neither removes nor replaces one that
\* is not empty.
TypeOK ==
  /\ disk \in [Name -> {"none", "file", "directory"}]
  /\ inside \in [Name -> SUBSET Child]
  /\ \A n \in Name : inside[n] # {} => disk[n] = "directory"
  /\ \A id \in DOMAIN items : id < nextId /\ items[id] \in Item
  /\ begun \in 1..MaxOps

Entries == {id \in DOMAIN items : Shown(id)}

\* When nothing is under way, the list shows exactly what the directory holds,
\* each thing once, and an open directory exactly what is in it, unless an
\* entry's text was edited without renaming it or one of these happened, none
\* of which the code handles: a request was lost; an answer was older than
\* another request's change ("old list"); the server refused a rename or a
\* delete, or replaced a file by it; an entry was replaced while it waited; a
\* second notebook was created from the same render ("same count"); a file was
\* deleted by an edited text, or a directory used by the path it had before it
\* was renamed ("wrong name"); an entry was renamed or deleted while it waited
\* for another answer, or asked for more while it waited for that ("overlap").
ListFaithful ==
  slips = {} /\ UnderWay = {} /\ (\A id \in Entries :
                                    items[id].text = items[id].name) =>
    /\ {<<items[id].text, items[id].kind>> : id \in Entries}
         = {<<n, disk[n]>> : n \in Existing}
    /\ \A i, j \in Entries : items[i].text = items[j].text => i = j
    /\ \A id \in Entries : items[id].open /\ items[id].fetched =>
         items[id].content = inside[items[id].name]
=============================================================================
