-------------------------------- MODULE Tabs --------------------------------
(***************************************************************************)
(* The tabs of the client: the atom fileTabsAtom (store/TabState.tsx) and  *)
(* the handlers that replace it, in the file browser, the tab bar and the  *)
(* launcher.                                                               *)
(*                                                                         *)
(* fileTabsAtom is a JavaScript object: tabs maps its keys to the tabs and *)
(* order has the keys in the order of their insertion, which is the order  *)
(* of the tab bar and of the editors.  (JavaScript would put keys that are *)
(* integers first; a file of such a name is left out.)  Every handler      *)
(* computes a whole new object from the one of the render it belongs to.   *)
(* For a click that is the current one; for what createNewNotebook does    *)
(* after its await it is the one of the click.                             *)
(***************************************************************************)
EXTENDS Naturals, Sequences

CONSTANTS
  Launcher,      \* the key of the launcher's tab
  File,          \* paths the file browser lists
  TypeOf,        \* File -> "file" or "notebook", as the server types them
  NewNotebook,   \* paths the server may give to a new notebook
  Click,         \* clicks on a kernel of the launcher
  MaxTerminals   \* bound on openTerminal

Terminal == {"Terminal"} \X (1..MaxTerminals)
Path == {Launcher} \cup File \cup NewNotebook \cup Terminal

ASSUME TabsAssumption ==
  /\ MaxTerminals \in Nat
  /\ TypeOf \in [File -> {"file", "notebook"}]
  /\ Launcher \notin File \cup NewNotebook \cup Terminal

VARIABLES
  tabs,            \* fileTabsAtom: path -> tab
  order,           \* its keys in insertion order
  creates,         \* click -> what createNewNotebook will go on from
  terminals,       \* terminalsAtom: the keys
  terminalsCount   \* terminalsCountAtom

tabVars == <<tabs, order, creates, terminals, terminalsCount>>

\* The fields of an IfileTab that decide something.
Tab == [type : {"launcher", "file", "notebook", "terminal"},
        active : BOOLEAN, load_required : BOOLEAN]

\* A click waits for its answer with the tabs of its render.
NotClicked == [at |-> "idle", tabs |-> <<>>, order |-> <<>>]

-----------------------------------------------------------------------------
(* handleTabActivate, of which there are three copies.                     *)

Deactivated(ts) ==
  [p \in DOMAIN ts |-> [ts[p] EXCEPT !.active = FALSE,
                                     !.load_required = FALSE]]

\* Mutant: the others need not be loaded again, the flag is left as it is.
Activated_KeepsLoad(ts, p, type) ==
  [q \in DOMAIN ts \cup {p} |->
     IF q \in DOMAIN ts
       THEN [ts[q] EXCEPT !.active = (q = p)]
       ELSE [type |-> type, active |-> TRUE, load_required |-> TRUE]]

\* All tabs are deactivated, then p is activated if it is open, and opened
\* otherwise, the one case in which an editor has to load.
Activated(ts, p, type) ==
  [q \in DOMAIN ts \cup {p} |->
     IF q \in DOMAIN ts
       THEN [Deactivated(ts)[q] EXCEPT !.active = (q = p)]
       ELSE [type |-> type, active |-> TRUE, load_required |-> TRUE]]

\* Mutant: assigning to a key moves it to the end.
OrderWith_Always(o, ts, p) == Append(o, p)

OrderWith(o, ts, p) == IF p \in DOMAIN ts THEN o ELSE Append(o, p)

\* The order o without the key p, which it has once.
Without(o, p) ==
  LET at == CHOOSE i \in DOMAIN o : o[i] = p
  IN [i \in 1..Len(o) - 1 |-> IF i < at THEN o[i] ELSE o[i + 1]]

HandleTabActivate(p, type) ==
  /\ tabs' = Activated(tabs, p, type)
  /\ order' = OrderWith(order, tabs, p)

-----------------------------------------------------------------------------
(* The handlers.                                                           *)

\* Mutant: the file replaces the last tab if that is a file too.
HandleFileClick_Preview(p) ==
  LET last == order[Len(order)]
      kept == IF p \notin DOMAIN tabs /\ tabs[last].type = "file"
                THEN [q \in DOMAIN tabs \ {last} |-> tabs[q]] ELSE tabs
  IN /\ tabs' = Activated(kept, p, TypeOf[p])
     /\ order' = OrderWith(IF kept = tabs THEN order
                             ELSE SubSeq(order, 1, Len(order) - 1), kept, p)
     /\ UNCHANGED <<creates, terminals, terminalsCount>>

\* A click on a file in the file browser.
HandleFileClick(p) ==
  /\ HandleTabActivate(p, TypeOf[p])
  /\ UNCHANGED <<creates, terminals, terminalsCount>>

\* A click on a tab.
ActivateTab(p) ==
  /\ p \in DOMAIN tabs
  /\ HandleTabActivate(p, tabs[p].type)
  /\ UNCHANGED <<creates, terminals, terminalsCount>>

\* The launcher's terminal icon.  The name is a new one each time.
OpenTerminal ==
  LET name == <<"Terminal", terminalsCount + 1>>
  IN /\ terminalsCount < MaxTerminals
     /\ HandleTabActivate(name, "terminal")
     /\ terminalsCount' = terminalsCount + 1
     /\ terminals' = terminals \cup {name}
     /\ UNCHANGED creates

\* createNewNotebook up to its await ...
CreateNewNotebook(c) ==
  /\ creates[c].at = "idle"
  /\ creates' = [creates EXCEPT ![c] =
                   [at |-> "waiting", tabs |-> tabs, order |-> order]]
  /\ UNCHANGED <<tabs, order, terminals, terminalsCount>>

\* ... and after it: the tabs become those of the click and the new one.
CreateAnswered(c, p) ==
  /\ creates[c].at = "waiting"
  /\ tabs' = Activated(creates[c].tabs, p, "notebook")
  /\ order' = OrderWith(creates[c].order, creates[c].tabs, p)
  /\ creates' = [creates EXCEPT ![c] = [NotClicked EXCEPT !.at = "done"]]
  /\ UNCHANGED <<terminals, terminalsCount>>

\* The request fails, or its answer has no name: handleTabActivate throws.
CreateFails(c) ==
  /\ creates[c].at = "waiting"
  /\ creates' = [creates EXCEPT ![c] = [NotClicked EXCEPT !.at = "done"]]
  /\ UNCHANGED <<tabs, order, terminals, terminalsCount>>

\* Mutant: the neighbour of the closed tab is activated, wherever it is.
HandleTabClose_Neighbour(p) ==
  /\ p \in DOMAIN tabs \ {Launcher}
  /\ order' = Without(order, p)
  /\ LET next == IF order'[Len(order')] = p THEN p ELSE order'[Len(order')]
     IN tabs' = [q \in DOMAIN tabs \ {p} |->
                   [tabs[q] EXCEPT !.active = @ \/ q = next,
                                   !.load_required = FALSE]]
  /\ terminals' = terminals \ {p}
  /\ UNCHANGED <<creates, terminalsCount>>

\* handleTabClose; the launcher's tab has no button for it.  The launcher
\* becomes active, and a tab that was active and is not the closed one stays
\* so.  What it does to a notebook's kernel, and that it throws for one
\* without a kernel, is the subject of NotebookSession.
HandleTabClose(p) ==
  /\ p \in DOMAIN tabs \ {Launcher}
  /\ tabs' = [q \in DOMAIN tabs \ {p} |->
                [tabs[q] EXCEPT !.active = @ \/ q = Launcher,
                                !.load_required = FALSE]]
  /\ order' = Without(order, p)
  /\ terminals' = terminals \ {p}
  /\ UNCHANGED <<creates, terminalsCount>>

-----------------------------------------------------------------------------
TabsInit ==
  /\ tabs = [p \in {Launcher} |-> [type |-> "launcher", active |-> TRUE,
                                   load_required |-> FALSE]]
  /\ order = <<Launcher>>
  /\ creates = [c \in Click |-> NotClicked]
  /\ terminals = {}
  /\ terminalsCount = 0

TabsNext ==
  \/ \E p \in File : HandleFileClick(p)
  \/ \E p \in Path : ActivateTab(p)
  \/ OpenTerminal
  \/ \E c \in Click : CreateNewNotebook(c) \/ CreateFails(c)
  \/ \E c \in Click, p \in NewNotebook : CreateAnswered(c, p)
  \/ \E p \in Path : HandleTabClose(p)

TabsSpec == TabsInit /\ [][TabsNext]_tabVars

-----------------------------------------------------------------------------
(* Properties.                                                             *)

TabsOf(ts) == DOMAIN ts \subseteq Path /\ ts \in [DOMAIN ts -> Tab]

\* The visible tabs of a dictionary: those whose class is d-block.
Visible(ts) == {p \in DOMAIN ts : ts[p].active}

\* Some tab is visible, the launcher's is always there, and beside it at
\* most one other tab is visible: handleTabClose activates the launcher without
\* deactivating anything, yet two editors never show at once.  This must also
\* hold of the dictionary an unanswered createNewNotebook goes on from.
OneEditorVisible(ts) ==
  /\ Launcher \in DOMAIN ts
  /\ Visible(ts) # {}
  /\ \A p, q \in Visible(ts) \ {Launcher} : p = q

\* At most one editor is visible and the tab bar is never without an active
\* tab (TabIndex.tsx handleTabActivate and handleTabClose).
EditorsVisible == OneEditorVisible(tabs)

\* A tab leaves the tab bar only because the user closes that tab, or because
\* a notebook was created whose click is older than the tab: nothing else the
\* user has open disappears (Launcher.tsx createNewNotebook).
TabsLeaveKnowingly ==
  [][\A p \in DOMAIN tabs \ DOMAIN tabs' :
       \/ /\ UNCHANGED creates
          /\ DOMAIN tabs' = DOMAIN tabs \ {p}
       \/ \E c \in Click : /\ creates[c].at = "waiting"
                           /\ creates'[c].at = "done"
                           /\ p \notin DOMAIN creates[c].tabs]_tabVars
=============================================================================
