----------------------------- MODULE FileEditors -----------------------------
(***************************************************************************)
(* The editors behind the tabs: ContentPanel renders an Editor for every   *)
(* tab, visible or not, and React keeps their state between renders.  The  *)
(* key of an editor is its index among the tabs, so that after each change *)
(* of the tabs the editor at an index goes on with whatever tab is there,  *)
(* if it is an editor of the same kind, and is replaced by a new one       *)
(* otherwise.                                                              *)
(*                                                                         *)
(* A content is followed by the file it came from, and whether the user    *)
(* has typed since.  A fetch is one step from its answer: the server's     *)
(* content for a file changes only by saves, and what matters of it here   *)
(* is where it came from.                                                  *)
(***************************************************************************)
EXTENDS Tabs, FiniteSets

CONSTANTS
  NoPath,    \* where the content '' of an editor comes from at first
  MaxPuts    \* bound on the saves under way

ASSUME EditorsAssumption == NoPath \notin Path /\ MaxPuts \in Nat

VARIABLES
  slots,    \* the editors in the order of their tabs
  disk,     \* file -> the path its content came from
  puts,     \* saves on their way to the server
  unsafe    \* history: files saved from an editor that had not loaded them

editorVars == <<slots, disk, puts, unsafe>>
vars == <<tabVars, editorVars>>

\* The component Editor returns for a tab of a type.  (For a file whose
\* extension is png it is ImageEditor, which loads like FileEditor and cannot
\* be edited; no file here is one.)
EditorOf == [launcher |-> "Launcher",       file     |-> "FileEditor",
             notebook |-> "NotebookEditor", terminal |-> "Terminal"]

Kind == {EditorOf[type] : type \in DOMAIN EditorOf}

\* Of an editor: where its content comes from, whether it was typed on, the
\* tab whose file it has loaded, or NoPath, and the fetches under way.
Slot == [kind : Kind, of : Path \cup {NoPath}, typed : BOOLEAN,
         loaded : Path \cup {NoPath}, loads : SUBSET Path]

Mounted(kind) == [kind |-> kind, of |-> NoPath, typed |-> FALSE,
                  loaded |-> NoPath, loads |-> {}]

\* What React makes of the editors for tabs ts in order o, with the effect of
\* FileEditor: who has to load asks for the file.
Rendered(o, ts) ==
  [i \in 1..Len(o) |->
     LET tab == ts[o[i]]
         kind == EditorOf[tab.type]
         kept == IF i <= Len(slots) /\ slots[i].kind = kind
                   THEN slots[i] ELSE Mounted(kind)
     IN IF tab.load_required /\ kind = "FileEditor"
          THEN [kept EXCEPT !.loads = @ \cup {o[i]}]
          ELSE kept]

\* A handler of Tabs and the render it causes.
TabStep ==
  /\ TabsNext
  /\ slots' = IF UNCHANGED <<tabs, order>> THEN slots
              ELSE Rendered(order', tabs')
  /\ UNCHANGED <<disk, puts, unsafe>>

-----------------------------------------------------------------------------
(* FetchFileData.  An editor that is gone when the answer comes ignores    *)
(* it.                                                                     *)

\* Mutant: the contents are kept in one place for the editor that is shown.
FetchAnswered_Shown(i, p) ==
  /\ p \in slots[i].loads
  /\ \E j \in DOMAIN slots :
       /\ tabs[order[j]].active
       /\ slots' = [slots EXCEPT ![j].of = disk[p], ![j].typed = FALSE,
                                 ![j].loaded = order[j],
                                 ![i].loads = @ \ {p}]
  /\ UNCHANGED <<tabVars, disk, puts, unsafe>>

FetchAnswered(i, p) ==
  /\ p \in slots[i].loads
  /\ slots' = [slots EXCEPT ![i].of = disk[p], ![i].typed = FALSE,
                            ![i].loaded = p, ![i].loads = @ \ {p}]
  /\ UNCHANGED <<tabVars, disk, puts, unsafe>>

-----------------------------------------------------------------------------
(* The editor.                                                             *)

ShownEditor(i) == slots[i].kind = "FileEditor" /\ tabs[order[i]].active

\* onChange of CodeMirror.
Type(i) ==
  /\ ShownEditor(i)
  /\ slots' = [slots EXCEPT ![i].of = IF @ = NoPath THEN order[i] ELSE @,
                            ![i].typed = TRUE]
  /\ UNCHANGED <<tabVars, disk, puts, unsafe>>

\* handleCmdEnter, Mod-s: the content is sent under the path of the tab the
\* editor is shown for now.  Nobody waits for the answer.
Save(i) ==
  /\ ShownEditor(i)
  /\ Cardinality(puts) < MaxPuts
  /\ puts' = puts \cup {[path |-> order[i], of |-> slots[i].of]}
  /\ unsafe' = IF slots[i].loaded = order[i] THEN unsafe
               ELSE unsafe \cup {order[i]}
  /\ UNCHANGED <<tabVars, slots, disk>>

\* The server writes what a save sent; saves overtake one another.
SaveArrives(put) ==
  /\ put \in puts
  /\ disk' = [disk EXCEPT ![put.path] = put.of]
  /\ puts' = puts \ {put}
  /\ UNCHANGED <<tabVars, slots, unsafe>>

SaveLost(put) ==
  /\ put \in puts
  /\ puts' = puts \ {put}
  /\ UNCHANGED <<tabVars, slots, disk, unsafe>>

-----------------------------------------------------------------------------
Init ==
  /\ TabsInit
  /\ slots = <<Mounted("Launcher")>>
  /\ disk = [p \in File |-> p]
  /\ puts = {}
  /\ unsafe = {}

Next ==
  \/ TabStep
  \/ \E i \in DOMAIN slots :
       \/ \E p \in slots[i].loads : FetchAnswered(i, p)
       \/ Type(i)
       \/ Save(i)
  \/ \E put \in puts : SaveArrives(put) \/ SaveLost(put)

Spec == Init /\ [][Next]_vars

-----------------------------------------------------------------------------
(* Properties.                                                             *)

\* The tabs are the ones the tab bar lists, each once, and each has its editor
\* of the right kind.
TypeOK ==
  /\ TabsOf(tabs)
  /\ \A i, j \in DOMAIN order : order[i] = order[j] => i = j
  /\ DOMAIN tabs = {order[i] : i \in DOMAIN order}
  /\ \A c \in Click : TabsOf(creates[c].tabs)
  /\ terminals \subseteq Terminal
  /\ Len(slots) = Len(order)
  /\ \A i \in DOMAIN slots :
       slots[i] \in Slot /\ slots[i].kind = EditorOf[tabs[order[i]].type]
  /\ disk \in [File -> Path \cup {NoPath}]
  /\ puts \subseteq [path : File, of : Path \cup {NoPath}]

\* A file holds what was once loaded from it or typed on top of that, however
\* late answers come and saves overtake each other, unless it was saved from an
\* editor that had not loaded it: before the first answer, or after the
\* editor had come to stand for another tab (FileEditor.tsx handleCmdEnter).
ContentsStayHome ==
  \A p \in File \ unsafe : disk[p] = p

\* Once a file is loaded, its content changes by typing only, until the
\* editor is gone: no activation of a tab, close of another, or answer still
\* on its way overwrites what the user has typed (load_required in
\* TabIndex.tsx and FileEditor.tsx).
TypedTextKept ==
  [][\A i \in DOMAIN slots \cap DOMAIN slots' :
       \/ slots[i].kind # "FileEditor" \/ slots'[i].kind # "FileEditor"
       \/ ~slots[i].typed \/ slots[i].loaded = NoPath
       \/ slots'[i].typed /\ slots'[i].of = slots[i].of]_vars
=============================================================================
