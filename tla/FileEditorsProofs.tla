-------------------------- MODULE FileEditorsProofs --------------------------
(***************************************************************************)
(* Theorems about Tabs, for every set of files, notebooks, clicks and any  *)
(* number of terminals; and about FileEditors on top of it, for any number *)
(* of saves under way.                                                     *)
(***************************************************************************)
EXTENDS FileEditors, TLAPS

-----------------------------------------------------------------------------
(* Tabs: the inductive invariant                                           *)

TabType == {"launcher", "file", "notebook", "terminal"}

\* What every dictionary of tabs is, the present one and those that
\* unanswered creates go on from.
Good(ts) == TabsOf(ts) /\ OneEditorVisible(ts)

TabsInv ==
  /\ Good(tabs)
  /\ terminalsCount \in Nat
  /\ creates = [c \in Click |-> creates[c]]
  /\ \A c \in Click : creates[c].at = "waiting" => Good(creates[c].tabs)

-----------------------------------------------------------------------------
(* The two ways in which dictionaries are made                             *)

\* A tab with another active flag and nothing to load is a tab.
LEMMA TabUpdate ==
  ASSUME NEW t \in Tab, NEW a \in BOOLEAN
  PROVE  LET u == [t EXCEPT !.active = a, !.load_required = FALSE] IN
           u \in Tab /\ u.active = a /\ u.type = t.type
BY DEF Tab

\* Activating a path makes its tab the only visible one.
LEMMA ActivatedIsGood ==
  ASSUME NEW ts, TabsOf(ts), Launcher \in DOMAIN ts,
         NEW p \in Path, NEW type \in TabType
  PROVE  Good(Activated(ts, p, type))
<1> DEFINE new == Activated(ts, p, type)
<1>1. DOMAIN new = DOMAIN ts \cup {p}
  BY DEF Activated
<1>2. ASSUME NEW q \in DOMAIN ts
      PROVE  new[q] \in Tab /\ (new[q].active <=> q = p)
  <2>1. ts[q] \in Tab
    BY DEF TabsOf
  <2>2. new[q] = [[ts[q] EXCEPT !.active = FALSE, !.load_required = FALSE]
                    EXCEPT !.active = (q = p)]
    BY DEF Activated, Deactivated
  <2> DEFINE a == (q = p)
  <2>3. a \in BOOLEAN
    OBVIOUS
  <2>4. ASSUME NEW b \in BOOLEAN
        PROVE  LET u == [[ts[q] EXCEPT !.active = FALSE,
                                       !.load_required = FALSE]
                           EXCEPT !.active = b] IN
                 u \in Tab /\ u.active = b
    BY <2>1 DEF Tab
  <2> HIDE DEF a, new
  <2>5. new[q] \in Tab /\ new[q].active = a
    BY <2>2, <2>3, <2>4, Zenon DEF a
  <2> QED
    BY <2>5 DEF a
<1>3. p \notin DOMAIN ts => new[p] \in Tab /\ new[p].active
  BY DEF Activated, Tab, TabType
<1>4. new = [q \in DOMAIN new |-> new[q]]
  BY DEF Activated
<1> HIDE DEF new
<1>5. TabsOf(new)
  BY <1>1, <1>2, <1>3, <1>4 DEF TabsOf
<1>6. OneEditorVisible(new)
  BY <1>1, <1>2, <1>3 DEF OneEditorVisible, Visible
<1> QED
  BY <1>5, <1>6 DEF Good, new

\* Closing a tab makes the launcher visible beside what was visible before.
LEMMA ClosedIsGood ==
  ASSUME NEW ts, Good(ts), NEW p, p # Launcher
  PROVE  Good([q \in DOMAIN ts \ {p} |->
                 [ts[q] EXCEPT !.active = @ \/ q = Launcher,
                               !.load_required = FALSE]])
<1> DEFINE new == [q \in DOMAIN ts \ {p} |->
                     [ts[q] EXCEPT !.active = @ \/ q = Launcher,
                                   !.load_required = FALSE]]
<1>1. DOMAIN new = DOMAIN ts \ {p}
  OBVIOUS
<1>2. ASSUME NEW q \in DOMAIN new
      PROVE  /\ new[q] \in Tab
             /\ new[q].active <=> ts[q].active \/ q = Launcher
  <2>1. ts[q] \in Tab
    BY DEF Good, TabsOf
  <2> DEFINE a == ts[q].active \/ q = Launcher
  <2>2. a \in BOOLEAN
    OBVIOUS
  <2>3. new[q] = [ts[q] EXCEPT !.active = a, !.load_required = FALSE]
    OBVIOUS
  <2>4. ASSUME NEW b \in BOOLEAN
        PROVE  LET u == [ts[q] EXCEPT !.active = b, !.load_required = FALSE]
               IN u \in Tab /\ u.active = b
    BY <2>1, TabUpdate
  <2> HIDE DEF a, new
  <2>5. new[q] \in Tab /\ new[q].active = a
    BY <2>2, <2>3, <2>4, Zenon
  <2> QED
    BY <2>5 DEF a
<1>3. new = [q \in DOMAIN new |-> new[q]]
  OBVIOUS
<1> HIDE DEF new
<1>4. TabsOf(new)
  BY <1>1, <1>2, <1>3 DEF Good, TabsOf
<1>5. OneEditorVisible(new)
  BY <1>1, <1>2 DEF Good, OneEditorVisible, Visible
<1> QED
  BY <1>4, <1>5 DEF Good, new

-----------------------------------------------------------------------------
(* The invariant                                                           *)

\* A handler that changes the tabs and no click keeps the invariant if the
\* new tabs are good.
LEMMA TabsStep ==
  ASSUME TabsInv, UNCHANGED creates, Good(tabs'), terminalsCount' \in Nat
  PROVE  TabsInv'
BY DEF TabsInv

\* So does the end of a create.
LEMMA CreateEnds ==
  ASSUME TabsInv, NEW c \in Click, Good(tabs'), UNCHANGED terminalsCount,
         creates' = [creates EXCEPT ![c] = [NotClicked EXCEPT !.at = "done"]]
  PROVE  TabsInv'
<1>1. [NotClicked EXCEPT !.at = "done"].at = "done"
  BY DEF NotClicked
<1>2. /\ creates'[c].at # "waiting"
      /\ \A d \in Click \ {c} : creates'[d] = creates[d]
      /\ creates' = [d \in Click |-> creates'[d]]
  BY <1>1 DEF TabsInv
<1> QED
  BY <1>2 DEF TabsInv

\* The state of the client begins good, and every handler keeps it so.
LEMMA TabsInvariant == TabsSpec => []TabsInv
<1>1. TabsInit => TabsInv
  <2> SUFFICES ASSUME TabsInit PROVE TabsInv
    OBVIOUS
  <2>1. /\ DOMAIN tabs = {Launcher} /\ tabs[Launcher] \in Tab
        /\ tabs[Launcher].active
        /\ tabs = [p \in DOMAIN tabs |-> tabs[p]]
    BY DEF TabsInit, Tab
  <2>2. Good(tabs)
    BY <2>1 DEF Good, TabsOf, OneEditorVisible, Visible, Path
  <2>3. /\ creates = [c \in Click |-> creates[c]]
        /\ \A c \in Click : creates[c].at = "idle"
    BY DEF TabsInit, NotClicked
  <2> QED
    BY <2>2, <2>3 DEF TabsInv, TabsInit
<1>2. TabsInv /\ [TabsNext]_tabVars => TabsInv'
  <2> SUFFICES ASSUME TabsInv, [TabsNext]_tabVars PROVE TabsInv'
    OBVIOUS
  <2>0. Good(tabs) /\ TabsOf(tabs) /\ Launcher \in DOMAIN tabs
    BY DEF TabsInv, Good, OneEditorVisible
  <2>1. ASSUME NEW p \in Path, NEW type \in TabType,
               HandleTabActivate(p, type), UNCHANGED creates,
               terminalsCount' \in Nat
        PROVE  TabsInv'
    BY <2>0, <2>1, ActivatedIsGood, TabsStep DEF HandleTabActivate
  <2>2. ASSUME NEW p \in File, HandleFileClick(p) PROVE TabsInv'
    BY <2>1, <2>2, TabsAssumption
       DEF HandleFileClick, Path, TabType, TabsInv
  <2>3. ASSUME NEW p \in Path, ActivateTab(p) PROVE TabsInv'
    <3>1. tabs[p].type \in TabType
      BY <2>0, <2>3 DEF ActivateTab, TabsOf, Tab, TabType
    <3> QED
      BY <2>1, <2>3, <3>1 DEF ActivateTab, TabsInv
  <2>4. ASSUME OpenTerminal PROVE TabsInv'
    <3> DEFINE name == <<"Terminal", terminalsCount + 1>>
    <3>1. HandleTabActivate(name, "terminal") /\ UNCHANGED creates
      BY <2>4 DEF OpenTerminal
    <3>2. /\ terminalsCount + 1 \in 1..MaxTerminals
          /\ terminalsCount' \in Nat
      BY <2>4, TabsAssumption DEF OpenTerminal, TabsInv
    <3>3. name \in Path
      BY <3>2 DEF Path, Terminal
    <3> QED
      BY <2>1, <3>1, <3>2, <3>3 DEF TabType
  <2>5. ASSUME NEW c \in Click, CreateNewNotebook(c) PROVE TabsInv'
    <3> DEFINE w == [at |-> "waiting", tabs |-> tabs, order |-> order]
    <3>1. w.tabs = tabs
      OBVIOUS
    <3>2. /\ creates' = [creates EXCEPT ![c] = w]
          /\ UNCHANGED <<tabs, terminalsCount>>
      BY <2>5 DEF CreateNewNotebook
    <3> HIDE DEF w
    <3>3. /\ creates'[c] = w
          /\ \A d \in Click \ {c} : creates'[d] = creates[d]
          /\ creates' = [d \in Click |-> creates'[d]]
      BY <3>2 DEF TabsInv
    <3> QED
      BY <2>0, <3>1, <3>2, <3>3 DEF TabsInv
  <2>6. ASSUME NEW c \in Click, CreateFails(c) PROVE TabsInv'
    BY <2>0, <2>6, CreateEnds DEF CreateFails
  <2>7. ASSUME NEW c \in Click, NEW p \in NewNotebook, CreateAnswered(c, p)
        PROVE  TabsInv'
    <3>1. TabsOf(creates[c].tabs) /\ Launcher \in DOMAIN creates[c].tabs
      BY <2>7 DEF CreateAnswered, TabsInv, Good, OneEditorVisible
    <3>2. Good(tabs')
      BY <2>7, <3>1, ActivatedIsGood DEF CreateAnswered, Path, TabType
    <3> QED
      BY <2>7, <3>2, CreateEnds DEF CreateAnswered
  <2>8. ASSUME NEW p \in Path, HandleTabClose(p) PROVE TabsInv'
    BY <2>0, <2>8, ClosedIsGood, TabsStep DEF HandleTabClose, TabsInv
  <2>9. CASE UNCHANGED tabVars
    BY <2>0, <2>9, TabsStep DEF tabVars, TabsInv
  <2> QED
    BY <2>2, <2>3, <2>4, <2>5, <2>6, <2>7, <2>8, <2>9 DEF TabsNext
<1> QED
  BY <1>1, <1>2, PTL DEF TabsSpec

\* At most one editor is visible and some tab is, whatever files, tabs and
\* terminals the user opens and closes while notebooks are being created.
THEOREM OneEditorAtATime == TabsSpec => []EditorsVisible
<1>1. TabsInv => EditorsVisible
  BY DEF TabsInv, Good, EditorsVisible
<1> QED
  BY <1>1, TabsInvariant, PTL

-----------------------------------------------------------------------------
(* Tabs that leave                                                         *)

\* Activating a path closes nothing.
LEMMA ActivatedKeepsAll ==
  ASSUME NEW ts, NEW p, NEW type
  PROVE  DOMAIN ts \subseteq DOMAIN Activated(ts, p, type)
BY DEF Activated

\* No handler but the closing of a tab, and the answer to a create that the
\* user asked for before the tab was opened, takes a tab away.
THEOREM TabsLeaveOnlyKnowingly == TabsSpec => TabsLeaveKnowingly
<1> DEFINE Knowingly(p) ==
      \/ UNCHANGED creates /\ DOMAIN tabs' = DOMAIN tabs \ {p}
      \/ \E c \in Click : /\ creates[c].at = "waiting"
                          /\ creates'[c].at = "done"
                          /\ p \notin DOMAIN creates[c].tabs
<1>1. TabsInv /\ [TabsNext]_tabVars
        => [\A p \in DOMAIN tabs \ DOMAIN tabs' :
              \/ /\ UNCHANGED creates
                 /\ DOMAIN tabs' = DOMAIN tabs \ {p}
              \/ \E c \in Click : /\ creates[c].at = "waiting"
                                  /\ creates'[c].at = "done"
                                  /\ p \notin DOMAIN creates[c].tabs]_tabVars
  <2> SUFFICES ASSUME TabsInv, [TabsNext]_tabVars,
                      NEW p \in DOMAIN tabs, p \notin DOMAIN tabs'
               PROVE  Knowingly(p)
    OBVIOUS
  <2>1. ASSUME NEW q, NEW type, HandleTabActivate(q, type) PROVE FALSE
    BY <2>1, ActivatedKeepsAll DEF HandleTabActivate
  <2>2. ASSUME NEW q \in Path, HandleTabClose(q) PROVE Knowingly(p)
    <3>1. DOMAIN tabs' = DOMAIN tabs \ {q} /\ UNCHANGED creates
      BY <2>2 DEF HandleTabClose
    <3> QED
      BY <3>1
  <2>3. ASSUME NEW c \in Click, NEW q \in NewNotebook, CreateAnswered(c, q)
        PROVE  Knowingly(p)
    <3>1. /\ creates[c].at = "waiting" /\ p \notin DOMAIN creates[c].tabs
          /\ creates' = [creates EXCEPT ![c] = [NotClicked EXCEPT !.at = "done"]]
      BY <2>3, ActivatedKeepsAll DEF CreateAnswered
    <3>2. creates'[c].at = "done"
      BY <3>1 DEF TabsInv, NotClicked
    <3> QED
      BY <3>1, <3>2
  <2>4. CASE UNCHANGED tabs
    BY <2>4
  <2> QED
    BY <2>1, <2>2, <2>3, <2>4 DEF TabsNext, tabVars, HandleFileClick,
       ActivateTab, OpenTerminal, CreateNewNotebook, CreateFails
<1> QED
  BY <1>1, TabsInvariant, PTL DEF TabsSpec, TabsLeaveKnowingly

-----------------------------------------------------------------------------
(* FileEditors: the inductive invariant, in parts                          *)

\* The order o lists the tabs ts, each once, and only a file has a tab of type
\* "file".
Listed(ts, o) ==
  /\ TabsOf(ts)
  /\ o \in Seq(DOMAIN ts)
  /\ \A i, j \in DOMAIN o : o[i] = o[j] => i = j
  /\ \A p \in DOMAIN ts : \E i \in DOMAIN o : o[i] = p
  /\ \A p \in DOMAIN ts : ts[p].type = "file" => p \in File

\* The tabs, and those an unanswered create goes on from.
BarInv ==
  /\ Listed(tabs, order)
  /\ creates = [c \in Click |-> creates[c]]
  /\ \A c \in Click :
       IF creates[c].at = "waiting"
         THEN Listed(creates[c].tabs, creates[c].order)
         ELSE creates[c].tabs = <<>>
  /\ terminalsCount \in Nat /\ terminals \subseteq Terminal

\* An editor loads once, when it is new; what was typed has a path; and an
\* editor that has loaded a file nobody saved blindly shows its content.
EditorInv(e) ==
  /\ e \in Slot
  /\ e.loads # {} => e.loaded = NoPath /\ \E p \in File : e.loads = {p}
  /\ e.typed => e.of # NoPath
  /\ e.loaded \in File \ unsafe => e.of = e.loaded

SlotsInv ==
  /\ slots \in Seq(Slot) /\ Len(slots) = Len(order)
  /\ \A i \in DOMAIN slots :
       EditorInv(slots[i]) /\ slots[i].kind = EditorOf[tabs[order[i]].type]

\* What the server has, and will have, is what it should be.
DiskInv ==
  /\ disk \in [File -> Path \cup {NoPath}]
  /\ puts \subseteq [path : File, of : Path \cup {NoPath}]
  /\ \A put \in puts : put.path \notin unsafe => put.of = put.path
  /\ ContentsStayHome

IInv == BarInv /\ SlotsInv /\ DiskInv

-----------------------------------------------------------------------------
(* The order of the tabs                                                   *)

\* A function on 1..n is a list.
LEMMA IsOrder ==
  ASSUME NEW S, NEW n \in Nat, NEW f \in [1..n -> S]
  PROVE  f \in Seq(S) /\ Len(f) = n
OBVIOUS

\* Activating a path keeps the order that of the tabs; only a tab that was not
\* there has to load.
LEMMA ActivatedIsListed ==
  ASSUME NEW ts, NEW o, Listed(ts, o), NEW p \in Path, NEW type \in TabType,
         type = "file" => p \in File
  PROVE  LET new == Activated(ts, p, type)
             no  == OrderWith(o, ts, p)
         IN /\ Listed(new, no)
            /\ \A q \in DOMAIN new :
                 new[q].load_required => q = p /\ p \notin DOMAIN ts
                                         /\ new[q].type = type
            /\ p \notin DOMAIN ts => no = Append(o, p)
<1> DEFINE new == Activated(ts, p, type)
           no  == OrderWith(o, ts, p)
<1>1. DOMAIN new = DOMAIN ts \cup {p} /\ new = [q \in DOMAIN new |-> new[q]]
  BY DEF Activated
<1>2. ASSUME NEW q \in DOMAIN ts
      PROVE  /\ new[q] \in Tab /\ ~new[q].load_required
             /\ new[q].type = ts[q].type
  <2>1. ts[q] \in Tab
    BY DEF Listed, TabsOf
  <2>2. new[q] = [[ts[q] EXCEPT !.active = FALSE, !.load_required = FALSE]
                    EXCEPT !.active = (q = p)]
    BY DEF Activated, Deactivated
  <2>3. ASSUME NEW b \in BOOLEAN
        PROVE  LET u == [[ts[q] EXCEPT !.active = FALSE,
                                       !.load_required = FALSE]
                           EXCEPT !.active = b] IN
                 /\ u \in Tab /\ u.load_required = FALSE
                 /\ u.type = ts[q].type
    BY <2>1 DEF Tab
  <2> DEFINE a == (q = p)
  <2>4. a \in BOOLEAN
    OBVIOUS
  <2> HIDE DEF a, new
  <2> QED
    BY <2>2, <2>3, <2>4, Zenon DEF a
<1>3. p \notin DOMAIN ts => new[p] \in Tab /\ new[p].type = type
  BY DEF Activated, Tab, TabType
<1>4. /\ p \in DOMAIN ts => no = o
      /\ p \notin DOMAIN ts => no = Append(o, p)
  BY DEF OrderWith
<1> HIDE DEF new, no
<1>5. TabsOf(new)
  BY <1>1, <1>2, <1>3 DEF Listed, TabsOf
<1>6. \A q \in DOMAIN new : new[q].type = "file" => q \in File
  BY <1>1, <1>2, <1>3 DEF Listed
<1>7. CASE p \in DOMAIN ts
  <2>1. DOMAIN new = DOMAIN ts /\ no = o
    BY <1>1, <1>4, <1>7
  <2> QED
    BY <1>2, <1>5, <1>6, <1>7, <2>1 DEF Listed, new, no
<1>8. CASE p \notin DOMAIN ts
  <2>1. /\ no \in Seq(DOMAIN new) /\ DOMAIN no = 1..Len(o) + 1
        /\ Len(o) \in Nat /\ DOMAIN o = 1..Len(o)
        /\ \A i \in 1..Len(o) : no[i] = o[i] /\ o[i] \in DOMAIN ts
        /\ no[Len(o) + 1] = p
    <3>1. no = Append(o, p) /\ o \in Seq(DOMAIN new) /\ p \in DOMAIN new
      BY <1>1, <1>4, <1>8 DEF Listed
    <3> QED
      BY <3>1 DEF Listed
  <2>2. \A i, j \in DOMAIN no : no[i] = no[j] => i = j
    BY <1>8, <2>1 DEF Listed
  <2>3. \A q \in DOMAIN new : \E i \in DOMAIN no : no[i] = q
    BY <1>1, <2>1 DEF Listed
  <2> QED
    BY <1>1, <1>2, <1>3, <1>4, <1>5, <1>6, <1>8, <2>1, <2>2, <2>3
       DEF Listed, new, no
<1> QED
  BY <1>7, <1>8

\* So does closing a tab, after which none has to load.
LEMMA ClosedIsListed ==
  ASSUME NEW ts, NEW o, Listed(ts, o), NEW p \in DOMAIN ts
  PROVE  LET new == [q \in DOMAIN ts \ {p} |->
                       [ts[q] EXCEPT !.active = @ \/ q = Launcher,
                                     !.load_required = FALSE]]
         IN /\ Listed(new, Without(o, p))
            /\ \A q \in DOMAIN new : ~new[q].load_required
<1> DEFINE new == [q \in DOMAIN ts \ {p} |->
                     [ts[q] EXCEPT !.active = @ \/ q = Launcher,
                                   !.load_required = FALSE]]
           no  == Without(o, p)
           at  == CHOOSE i \in DOMAIN o : o[i] = p
<1>1. DOMAIN new = DOMAIN ts \ {p} /\ new = [q \in DOMAIN new |-> new[q]]
  OBVIOUS
<1>2. ASSUME NEW q \in DOMAIN new
      PROVE  new[q] \in Tab /\ ~new[q].load_required /\ new[q].type = ts[q].type
  <2>1. ts[q] \in Tab
    BY DEF Listed, TabsOf
  <2> DEFINE a == ts[q].active \/ q = Launcher
  <2>2. a \in BOOLEAN
    OBVIOUS
  <2>3. new[q] = [ts[q] EXCEPT !.active = a, !.load_required = FALSE]
    OBVIOUS
  <2>4. ASSUME NEW b \in BOOLEAN
        PROVE  LET u == [ts[q] EXCEPT !.active = b, !.load_required = FALSE]
               IN /\ u \in Tab /\ u.load_required = FALSE
                  /\ u.type = ts[q].type
    BY <2>1 DEF Tab
  <2> HIDE DEF a, new
  <2> QED
    BY <2>2, <2>3, <2>4, Zenon
<1>3. at \in DOMAIN o /\ o[at] = p
  BY DEF Listed
<1>4. no = [i \in 1..Len(o) - 1 |-> IF i < at THEN o[i] ELSE o[i + 1]]
  BY DEF Without
<1> HIDE DEF new, no, at
<1>5. Len(o) \in Nat /\ DOMAIN o = 1..Len(o) /\ at \in 1..Len(o)
  BY <1>3 DEF Listed
<1>6. \A i \in 1..Len(o) - 1 :
        \E j \in DOMAIN o : /\ j = IF i < at THEN i ELSE i + 1
                            /\ j # at /\ no[i] = o[j]
  BY <1>4, <1>5
<1>7. DOMAIN no = 1..Len(o) - 1 /\ Len(o) - 1 \in Nat
  BY <1>4, <1>5
<1>8. \A i \in DOMAIN no : no[i] \in DOMAIN new
  BY <1>1, <1>3, <1>6, <1>7 DEF Listed
<1>9. no \in Seq(DOMAIN new)
  <2> DEFINE n == Len(o) - 1
  <2>1. n \in Nat /\ DOMAIN no = 1..n /\ no = [i \in 1..n |-> no[i]]
    BY <1>4, <1>7
  <2> HIDE DEF n
  <2>2. no \in [1..n -> DOMAIN new]
    BY <1>8, <2>1
  <2> QED
    BY <2>1, <2>2, IsOrder, Zenon
<1>10. ASSUME NEW i \in DOMAIN no, NEW j \in DOMAIN no, no[i] = no[j]
       PROVE  i = j
  <2>1. PICK k \in DOMAIN o : /\ k = IF i < at THEN i ELSE i + 1
                              /\ no[i] = o[k]
    BY <1>6, <1>7
  <2>2. PICK l \in DOMAIN o : /\ l = IF j < at THEN j ELSE j + 1
                              /\ no[j] = o[l]
    BY <1>6, <1>7
  <2>3. k = l
    BY <1>10, <2>1, <2>2 DEF Listed
  <2> QED
    BY <1>5, <1>7, <2>1, <2>2, <2>3
<1>11. ASSUME NEW q \in DOMAIN new PROVE \E i \in DOMAIN no : no[i] = q
  <2>1. PICK j \in DOMAIN o : o[j] = q
    BY <1>1 DEF Listed
  <2>2. j # at
    BY <1>1, <1>3, <2>1
  <2>3. CASE j < at
    BY <1>4, <1>5, <1>7, <2>1, <2>3
  <2>4. CASE j > at
    <3>1. j - 1 \in DOMAIN no /\ ~(j - 1 < at) /\ (j - 1) + 1 = j
      BY <1>5, <1>7, <2>4
    <3> QED
      BY <1>4, <1>7, <2>1, <3>1
  <2> QED
    BY <1>5, <2>2, <2>3, <2>4
<1>12. TabsOf(new)
  BY <1>1, <1>2 DEF Listed, TabsOf
<1> QED
  BY <1>1, <1>2, <1>9, <1>10, <1>11, <1>12 DEF Listed, new, no
-----------------------------------------------------------------------------
(* Slots                                                                   *)

\* A new editor is one that has loaded nothing.
LEMMA MountedEditor ==
  ASSUME NEW kind \in Kind
  PROVE  EditorInv(Mounted(kind)) /\ Mounted(kind).kind = kind
         /\ Mounted(kind).loads = {} /\ Mounted(kind).loaded = NoPath
BY EditorsAssumption DEF EditorInv, Mounted, Slot, Path

\* An editor that has to load asks for one file.
LEMMA AskingEditor ==
  ASSUME NEW kind \in Kind, NEW p \in File
  PROVE  LET e == [Mounted(kind) EXCEPT !.loads = @ \cup {p}]
         IN EditorInv(e) /\ e.kind = kind
BY EditorsAssumption DEF EditorInv, Mounted, Slot, Path

\* The editors that React makes of the present ones are as they should be, if
\* only a tab behind the last one has to load.
LEMMA RenderedEditors ==
  ASSUME SlotsInv, NEW ts, NEW o, Listed(ts, o),
         \A i \in DOMAIN o :
           ts[o[i]].load_required /\ ts[o[i]].type = "file" => i > Len(slots)
  PROVE  LET new == Rendered(o, ts)
         IN /\ new \in Seq(Slot) /\ Len(new) = Len(o)
            /\ \A i \in DOMAIN new :
                 /\ EditorInv(new[i])
                 /\ new[i].kind = EditorOf[ts[o[i]].type]
                 /\ i \in DOMAIN slots /\ new[i].kind = slots[i].kind =>
                      new[i] = slots[i]
<1> DEFINE new == Rendered(o, ts)
<1>1. /\ Len(o) \in Nat /\ DOMAIN o = 1..Len(o)
      /\ DOMAIN new = 1..Len(o)
  BY DEF Rendered, Listed
<1>2. ASSUME NEW i \in 1..Len(o)
      PROVE  /\ EditorInv(new[i])
             /\ new[i].kind = EditorOf[ts[o[i]].type]
             /\ i \in DOMAIN slots /\ new[i].kind = slots[i].kind =>
                  new[i] = slots[i]
  <2> DEFINE tab == ts[o[i]]
             kind == EditorOf[tab.type]
             kept == IF i <= Len(slots) /\ slots[i].kind = kind
                       THEN slots[i] ELSE Mounted(kind)
  <2>1. /\ o[i] \in DOMAIN ts /\ tab \in Tab
        /\ tab.type = "file" => o[i] \in File
    BY <1>1 DEF Listed, TabsOf
  <2>2. kind \in Kind /\ (kind = "FileEditor" <=> tab.type = "file")
    BY <2>1 DEF Kind, EditorOf, Tab
  <2>3. new[i] = IF tab.load_required /\ kind = "FileEditor"
                   THEN [kept EXCEPT !.loads = @ \cup {o[i]}] ELSE kept
    BY DEF Rendered
  <2>4. /\ Len(slots) \in Nat /\ DOMAIN slots = 1..Len(slots)
        /\ \A j \in DOMAIN slots : EditorInv(slots[j])
    BY DEF SlotsInv
  <2> HIDE DEF new, kind
  <2>5. CASE tab.load_required /\ kind = "FileEditor"
    <3>1. i > Len(slots)
      BY <1>1, <2>2, <2>5
    <3>2. ~(i <= Len(slots)) /\ i \notin DOMAIN slots
      BY <2>4, <3>1
    <3>3. new[i] = [Mounted(kind) EXCEPT !.loads = @ \cup {o[i]}]
      BY <2>3, <2>5, <3>2
    <3> QED
      BY <2>1, <2>2, <2>5, <3>2, <3>3, AskingEditor DEF kind
  <2>6. CASE ~(tab.load_required /\ kind = "FileEditor")
    <3>1. CASE i \in DOMAIN slots /\ slots[i].kind = kind
      BY <2>3, <2>4, <2>6, <3>1 DEF kind
    <3>2. CASE ~(i \in DOMAIN slots /\ slots[i].kind = kind)
      <4>1. new[i] = Mounted(kind)
        BY <2>3, <2>4, <2>6, <3>2
      <4> QED
        BY <2>2, <3>2, <4>1, MountedEditor DEF kind
    <3> QED
      BY <3>1, <3>2
  <2> QED
    BY <2>5, <2>6
<1>3. new = [i \in 1..Len(o) |-> new[i]]
  BY DEF Rendered
<1>4. new \in Seq(Slot) /\ Len(new) = Len(o)
  <2> HIDE DEF new
  <2>1. \A i \in 1..Len(o) : new[i] \in Slot
    BY <1>2 DEF EditorInv
  <2>2. new \in [1..Len(o) -> Slot]
    BY <1>3, <2>1
  <2> QED
    BY <1>1, <2>2, IsOrder, Zenon
<1> HIDE DEF new
<1> QED
  BY <1>1, <1>2, <1>4 DEF new

-----------------------------------------------------------------------------
(* The handlers of the tabs                                                *)

\* What the tabs are after a handler of theirs, and which of them has to load.
BarStep ==
  /\ BarInv'
  /\ \A i \in DOMAIN order' :
       tabs'[order'[i]].load_required /\ tabs'[order'[i]].type = "file" =>
         i > Len(order)

\* Activating a path is such a step.
LEMMA ActivateBar ==
  ASSUME BarInv, NEW p \in Path, NEW type \in TabType,
         type = "file" => p \in File, HandleTabActivate(p, type),
         UNCHANGED creates, terminalsCount' \in Nat, terminals' \subseteq Terminal
  PROVE  BarStep
<1>1. /\ Listed(tabs', order')
      /\ \A q \in DOMAIN tabs' : tabs'[q].load_required =>
           q = p /\ p \notin DOMAIN tabs
      /\ p \notin DOMAIN tabs => order' = Append(order, p)
  BY ActivatedIsListed DEF BarInv, HandleTabActivate
<1>2. BarInv'
  BY <1>1 DEF BarInv
<1>3. ASSUME NEW i \in DOMAIN order', tabs'[order'[i]].load_required
      PROVE  i > Len(order)
  <2>1. /\ order \in Seq(DOMAIN tabs) /\ order' \in Seq(DOMAIN tabs')
        /\ DOMAIN order' = 1..Len(order') /\ order'[i] \in DOMAIN tabs'
    BY <1>1, <1>3 DEF Listed, BarInv
  <2>2. order'[i] = p /\ p \notin DOMAIN tabs /\ order' = Append(order, p)
    BY <1>1, <1>3, <2>1
  <2>3. CASE i \in 1..Len(order)
    <3>1. order'[i] = order[i] /\ order[i] \in DOMAIN tabs
      BY <2>1, <2>2, <2>3
    <3> QED
      BY <2>2, <3>1
  <2>4. i \in Nat /\ i >= 1 /\ Len(order) \in Nat
    BY <2>1
  <2> QED
    BY <2>3, <2>4
<1> QED
  BY <1>2, <1>3 DEF BarStep

\* So is the end of a create that leaves the tabs listed and loads no file.
LEMMA CreateEndsBar ==
  ASSUME BarInv, NEW c \in Click, Listed(tabs', order'),
         creates' = [creates EXCEPT ![c] = [NotClicked EXCEPT !.at = "done"]],
         UNCHANGED <<terminals, terminalsCount>>
  PROVE  BarInv'
<1>1. /\ [NotClicked EXCEPT !.at = "done"].at = "done"
      /\ [NotClicked EXCEPT !.at = "done"].tabs = <<>>
  BY DEF NotClicked
<1>2. /\ creates'[c].at # "waiting" /\ creates'[c].tabs = <<>>
      /\ \A d \in Click \ {c} : creates'[d] = creates[d]
      /\ creates' = [d \in Click |-> creates'[d]]
  BY <1>1 DEF BarInv
<1> QED
  BY <1>2 DEF BarInv

\* Every handler of the tabs that changes them is such a step.
LEMMA TabsNextBar ==
  ASSUME BarInv, TabsNext
  PROVE  BarInv' /\ (UNCHANGED <<tabs, order>> \/ BarStep)
<1>1. ASSUME NEW p \in File, HandleFileClick(p) PROVE BarStep
  BY <1>1, ActivateBar, TabsAssumption
     DEF HandleFileClick, Path, TabType, BarInv
<1>2. ASSUME NEW p \in Path, ActivateTab(p) PROVE BarStep
  <2>1. /\ tabs[p].type \in TabType
        /\ tabs[p].type = "file" => p \in File
    BY <1>2 DEF ActivateTab, BarInv, Listed, TabsOf, Tab, TabType
  <2> QED
    BY <1>2, <2>1, ActivateBar DEF ActivateTab, BarInv
<1>3. ASSUME OpenTerminal PROVE BarStep
  <2> DEFINE name == <<"Terminal", terminalsCount + 1>>
  <2>1. /\ HandleTabActivate(name, "terminal") /\ UNCHANGED creates
        /\ terminals' = terminals \cup {name}
    BY <1>3 DEF OpenTerminal
  <2>2. /\ terminalsCount + 1 \in 1..MaxTerminals
        /\ terminalsCount' \in Nat
    BY <1>3, TabsAssumption DEF OpenTerminal, BarInv
  <2>3. name \in Terminal /\ name \in Path
    BY <2>2 DEF Path, Terminal
  <2>4. terminals' \subseteq Terminal
    BY <2>1, <2>3 DEF BarInv
  <2> HIDE DEF name
  <2> QED
    BY <2>1, <2>2, <2>3, <2>4, ActivateBar DEF TabType
<1>4. ASSUME NEW c \in Click, CreateNewNotebook(c)
      PROVE  BarInv' /\ UNCHANGED <<tabs, order>>
  <2> DEFINE w == [at |-> "waiting", tabs |-> tabs, order |-> order]
  <2>1. w.tabs = tabs /\ w.order = order /\ w.at = "waiting"
    OBVIOUS
  <2>2. /\ creates' = [creates EXCEPT ![c] = w]
        /\ UNCHANGED <<tabs, order, terminals, terminalsCount>>
    BY <1>4 DEF CreateNewNotebook
  <2> HIDE DEF w
  <2>3. /\ creates'[c] = w
        /\ \A d \in Click \ {c} : creates'[d] = creates[d]
        /\ creates' = [d \in Click |-> creates'[d]]
    BY <2>2 DEF BarInv
  <2> QED
    BY <2>1, <2>2, <2>3 DEF BarInv
<1>5. ASSUME NEW c \in Click, CreateFails(c)
      PROVE  BarInv' /\ UNCHANGED <<tabs, order>>
  BY <1>5, CreateEndsBar DEF CreateFails, BarInv
<1>6. ASSUME NEW c \in Click, NEW p \in NewNotebook, CreateAnswered(c, p)
      PROVE  BarStep
  <2>1. Listed(creates[c].tabs, creates[c].order)
    BY <1>6 DEF CreateAnswered, BarInv
  <2>2. p \in Path /\ "notebook" \in TabType
    BY DEF Path, TabType
  <2>3. /\ Listed(tabs', order')
        /\ \A q \in DOMAIN tabs' : tabs'[q].load_required =>
             tabs'[q].type = "notebook"
    BY <1>6, <2>1, <2>2, ActivatedIsListed DEF CreateAnswered
  <2>4. \A i \in DOMAIN order' : order'[i] \in DOMAIN tabs'
    BY <2>3 DEF Listed
  <2>5. BarInv'
    BY <1>6, <2>3, CreateEndsBar DEF CreateAnswered
  <2> QED
    BY <2>3, <2>4, <2>5 DEF BarStep
<1>7. ASSUME NEW p \in Path, HandleTabClose(p) PROVE BarStep
  <2>1. /\ Listed(tabs', order')
        /\ \A q \in DOMAIN tabs' : ~tabs'[q].load_required
    BY <1>7, ClosedIsListed DEF HandleTabClose, BarInv
  <2>2. \A i \in DOMAIN order' : order'[i] \in DOMAIN tabs'
    BY <2>1 DEF Listed
  <2> QED
    BY <1>7, <2>1, <2>2 DEF BarStep, BarInv, HandleTabClose
<1> QED
  BY <1>1, <1>2, <1>3, <1>4, <1>5, <1>6, <1>7 DEF TabsNext, BarStep

\* The editors after it.
LEMMA TabStepSlots ==
  ASSUME IInv, TabStep
  PROVE  /\ IInv'
         /\ \A i \in DOMAIN slots \cap DOMAIN slots' :
              slots'[i].kind = slots[i].kind => slots'[i] = slots[i]
<1>1. BarInv' /\ (UNCHANGED <<tabs, order>> \/ BarStep)
  BY TabsNextBar DEF IInv, TabStep
<1>2. DiskInv' /\ UNCHANGED unsafe
  BY DEF IInv, DiskInv, TabStep, ContentsStayHome
<1>3. CASE UNCHANGED <<tabs, order>>
  <2>1. UNCHANGED slots
    BY <1>3 DEF TabStep
  <2>2. SlotsInv'
    BY <1>2, <1>3, <2>1 DEF IInv, SlotsInv, EditorInv
  <2> QED
    BY <1>1, <1>2, <2>1, <2>2 DEF IInv
<1>4. CASE ~UNCHANGED <<tabs, order>>
  <2>1. slots' = Rendered(order', tabs')
    BY <1>4 DEF TabStep
  <2>2. BarStep /\ Listed(tabs', order') /\ Len(slots) = Len(order)
    BY <1>1, <1>4 DEF BarInv, IInv, SlotsInv
  <2>3. \A i \in DOMAIN order' :
          tabs'[order'[i]].load_required /\ tabs'[order'[i]].type = "file" =>
            i > Len(slots)
    BY <2>2 DEF BarStep
  <2>4. /\ slots' \in Seq(Slot) /\ Len(slots') = Len(order')
        /\ \A i \in DOMAIN slots' :
             /\ EditorInv(slots'[i])
             /\ slots'[i].kind = EditorOf[tabs'[order'[i]].type]
             /\ i \in DOMAIN slots /\ slots'[i].kind = slots[i].kind =>
                  slots'[i] = slots[i]
    BY <2>1, <2>2, <2>3, RenderedEditors DEF IInv
  <2>5. SlotsInv'
    BY <1>2, <2>4 DEF SlotsInv, EditorInv
  <2> QED
    BY <1>1, <1>2, <2>4, <2>5 DEF IInv
<1> QED
  BY <1>3, <1>4
-----------------------------------------------------------------------------
(* The editors                                                             *)

\* What is typed, or loaded, into the editor at i leaves the others alone.
LEMMA OneEditor ==
  ASSUME IInv, NEW i \in DOMAIN slots, NEW e, EditorInv(e),
         e.kind = slots[i].kind, slots' = [slots EXCEPT ![i] = e],
         UNCHANGED <<tabVars, disk, puts, unsafe>>
  PROVE  IInv'
<1>1. /\ slots' \in Seq(Slot) /\ Len(slots') = Len(slots)
      /\ DOMAIN slots' = DOMAIN slots /\ slots'[i] = e
      /\ \A j \in DOMAIN slots \ {i} : slots'[j] = slots[j]
  BY DEF IInv, SlotsInv, EditorInv
<1>2. BarInv'
  BY DEF IInv, BarInv, tabVars
<1>3. DiskInv'
  BY DEF IInv, DiskInv, ContentsStayHome
<1>4. SlotsInv'
  <2>1. UNCHANGED <<order, tabs, unsafe>>
    BY DEF tabVars
  <2>2. \A j \in DOMAIN slots' : /\ EditorInv(slots'[j])
                                 /\ slots'[j].kind = slots[j].kind
    BY <1>1 DEF IInv, SlotsInv
  <2> QED
    BY <1>1, <2>1, <2>2 DEF IInv, SlotsInv, EditorInv
<1> QED
  BY <1>2, <1>3, <1>4 DEF IInv

\* An answer makes an editor that has loaded its file, which typed nothing
\* before.
LEMMA FetchedEditor ==
  ASSUME IInv, NEW i \in DOMAIN slots, NEW p \in slots[i].loads,
         FetchAnswered(i, p)
  PROVE  IInv' /\ slots[i].loaded = NoPath
<1> DEFINE e == [slots[i] EXCEPT !.of = disk[p], !.typed = FALSE,
                                 !.loaded = p, !.loads = @ \ {p}]
<1>1. /\ EditorInv(slots[i]) /\ slots[i] \in Slot
      /\ p \in File /\ slots[i].loads = {p} /\ slots[i].loaded = NoPath
  BY DEF IInv, SlotsInv, EditorInv
<1>2. /\ disk[p] \in Path \cup {NoPath} /\ p \in Path
      /\ p \notin unsafe => disk[p] = p
  BY <1>1 DEF IInv, DiskInv, ContentsStayHome, Path
<1>3. /\ e \in Slot /\ e.of = disk[p] /\ e.typed = FALSE /\ e.loaded = p
      /\ e.loads = {} /\ e.kind = slots[i].kind
  BY <1>1, <1>2 DEF Slot
<1>4. slots' = [slots EXCEPT ![i] = e]
  BY <1>1 DEF FetchAnswered, IInv, SlotsInv
<1>5. UNCHANGED <<tabVars, disk, puts, unsafe>>
  BY DEF FetchAnswered
<1> HIDE DEF e
<1>6. EditorInv(e)
  BY <1>1, <1>2, <1>3 DEF EditorInv
<1> QED
  BY <1>1, <1>3, <1>4, <1>5, <1>6, OneEditor

\* The editor that is shown is that of a file.
LEMMA ShownPath ==
  ASSUME IInv, NEW i \in DOMAIN slots, ShownEditor(i)
  PROVE  order[i] \in File /\ order[i] \in Path /\ order[i] # NoPath
<1>1. /\ DOMAIN slots = DOMAIN order /\ order[i] \in DOMAIN tabs
      /\ tabs[order[i]] \in Tab
      /\ EditorOf[tabs[order[i]].type] = "FileEditor"
  BY DEF IInv, SlotsInv, BarInv, Listed, TabsOf, ShownEditor
<1>2. tabs[order[i]].type = "file"
  BY <1>1 DEF EditorOf, Tab
<1>3. order[i] \in File
  BY <1>1, <1>2 DEF IInv, BarInv, Listed
<1> QED
  BY <1>3, EditorsAssumption DEF Path

\* Typing keeps what the editor has loaded, and what it shows once it was
\* typed on.
LEMMA TypedEditor ==
  ASSUME IInv, NEW i \in DOMAIN slots, Type(i)
  PROVE  /\ IInv'
         /\ \A j \in DOMAIN slots : slots[j].typed =>
              slots'[j].typed /\ slots'[j].of = slots[j].of
<1> DEFINE of == IF slots[i].of = NoPath THEN order[i] ELSE slots[i].of
           e  == [slots[i] EXCEPT !.of = of, !.typed = TRUE]
<1>1. EditorInv(slots[i]) /\ slots[i] \in Slot
  BY DEF IInv, SlotsInv, EditorInv
<1>2. order[i] \in Path /\ order[i] # NoPath
  BY ShownPath DEF Type
<1>3. /\ of \in Path /\ of # NoPath
      /\ slots[i].of # NoPath => of = slots[i].of
  BY <1>1, <1>2 DEF Slot
<1>4. slots' = [slots EXCEPT ![i] = e] /\ UNCHANGED <<tabVars, disk, puts, unsafe>>
  BY <1>1 DEF Type, IInv, SlotsInv
<1> HIDE DEF of
<1>5. /\ e \in Slot /\ e.of = of /\ e.typed = TRUE
      /\ e.loaded = slots[i].loaded /\ e.loads = slots[i].loads
      /\ e.kind = slots[i].kind
  BY <1>1, <1>3 DEF Slot
<1> HIDE DEF e
<1>6. EditorInv(e)
  <2>1. e.loaded \in File \ unsafe => e.of = e.loaded
    <3> SUFFICES ASSUME e.loaded \in File \ unsafe PROVE e.of = e.loaded
      OBVIOUS
    <3>1. slots[i].of = slots[i].loaded /\ slots[i].of # NoPath
      BY <1>1, <1>5, EditorsAssumption DEF EditorInv, Path
    <3> QED
      BY <1>3, <1>5, <3>1
  <2> QED
    BY <1>1, <1>3, <1>5, <2>1 DEF EditorInv
<1>7. IInv'
  BY <1>4, <1>5, <1>6, OneEditor
<1>8. /\ slots'[i] = e
      /\ \A j \in DOMAIN slots \ {i} : slots'[j] = slots[j]
  BY <1>4 DEF IInv, SlotsInv
<1>9. slots[i].typed => slots[i].of # NoPath
  BY <1>1 DEF EditorInv
<1> QED
  BY <1>3, <1>5, <1>7, <1>8, <1>9

\* A save sends what the editor shows; if it has not loaded the file, the file
\* counts as unsafe from now on.
LEMMA SavedEditor ==
  ASSUME IInv, NEW i \in DOMAIN slots, Save(i)
  PROVE  IInv'
<1>1. /\ UNCHANGED <<tabVars, slots, disk>> /\ unsafe \subseteq unsafe'
      /\ puts' = puts \cup {[path |-> order[i], of |-> slots[i].of]}
      /\ order[i] \notin unsafe' => slots[i].loaded = order[i]
  BY DEF Save
<1>2. order[i] \in File /\ EditorInv(slots[i]) /\ slots[i].of \in Path \cup {NoPath}
  BY ShownPath DEF Save, IInv, SlotsInv, EditorInv, Slot
<1>3. order[i] \notin unsafe' => slots[i].of = order[i]
  BY <1>1, <1>2 DEF EditorInv
<1>4. BarInv' /\ SlotsInv'
  BY <1>1 DEF IInv, BarInv, SlotsInv, EditorInv, tabVars
<1>5. DiskInv'
  <2>1. [path |-> order[i], of |-> slots[i].of]
          \in [path : File, of : Path \cup {NoPath}]
    BY <1>2
  <2>2. \A put \in puts' : put.path \notin unsafe' => put.of = put.path
    BY <1>1, <1>3 DEF IInv, DiskInv
  <2> QED
    BY <1>1, <2>1, <2>2 DEF IInv, DiskInv, ContentsStayHome
<1> QED
  BY <1>4, <1>5 DEF IInv

\* What the server writes then is what the file should hold.
LEMMA SaveEnds ==
  ASSUME IInv, NEW put \in puts, SaveArrives(put) \/ SaveLost(put)
  PROVE  IInv' /\ UNCHANGED slots
<1>1. /\ UNCHANGED <<tabVars, slots, unsafe>> /\ puts' = puts \ {put}
      /\ disk' \in {disk, [disk EXCEPT ![put.path] = put.of]}
  BY DEF SaveArrives, SaveLost
<1>2. /\ put.path \in File /\ put.of \in Path \cup {NoPath}
      /\ put.path \notin unsafe => put.of = put.path
  BY DEF IInv, DiskInv
<1>3. DiskInv'
  BY <1>1, <1>2 DEF IInv, DiskInv, ContentsStayHome
<1>4. BarInv' /\ SlotsInv'
  BY <1>1 DEF IInv, BarInv, SlotsInv, EditorInv, tabVars
<1> QED
  BY <1>1, <1>3, <1>4 DEF IInv

-----------------------------------------------------------------------------
(* FileEditors: the invariant and what follows                             *)

\* What no step does to the editor of a file that the user has typed on.
KeepsTyped ==
  \A i \in DOMAIN slots \cap DOMAIN slots' :
    \/ slots[i].kind # "FileEditor" \/ slots'[i].kind # "FileEditor"
    \/ ~slots[i].typed \/ slots[i].loaded = NoPath
    \/ slots'[i].typed /\ slots'[i].of = slots[i].of

\* Every step keeps the invariant and what was typed.
LEMMA EditorsStep ==
  ASSUME IInv, [Next]_vars
  PROVE  IInv' /\ KeepsTyped
<1>1. CASE TabStep
  <2>1. IInv' /\ \A i \in DOMAIN slots \cap DOMAIN slots' :
                   slots'[i].kind = slots[i].kind => slots'[i] = slots[i]
    BY <1>1, TabStepSlots
  <2> QED
    BY <2>1 DEF KeepsTyped
<1>2. ASSUME NEW i \in DOMAIN slots, NEW p \in slots[i].loads,
             FetchAnswered(i, p)
      PROVE  IInv' /\ KeepsTyped
  <2>1. IInv' /\ slots[i].loaded = NoPath
    BY <1>2, FetchedEditor
  <2>2. \A j \in DOMAIN slots \ {i} : slots'[j] = slots[j]
    BY <1>2 DEF FetchAnswered, IInv, SlotsInv
  <2> QED
    BY <2>1, <2>2 DEF KeepsTyped
<1>3. ASSUME NEW i \in DOMAIN slots, Type(i) PROVE IInv' /\ KeepsTyped
  BY <1>3, TypedEditor DEF KeepsTyped
<1>4. ASSUME NEW i \in DOMAIN slots, Save(i) PROVE IInv' /\ KeepsTyped
  <2>1. UNCHANGED slots
    BY <1>4 DEF Save
  <2> QED
    BY <1>4, <2>1, SavedEditor DEF KeepsTyped
<1>5. ASSUME NEW put \in puts, SaveArrives(put) \/ SaveLost(put)
      PROVE  IInv' /\ KeepsTyped
  BY <1>5, SaveEnds DEF KeepsTyped
<1>6. CASE UNCHANGED vars
  <2>1. UNCHANGED <<tabVars, slots, disk, puts, unsafe>>
    BY <1>6 DEF vars, editorVars
  <2>2. IInv'
    BY <2>1 DEF IInv, BarInv, SlotsInv, EditorInv, DiskInv, ContentsStayHome,
                tabVars
  <2> QED
    BY <2>1, <2>2 DEF KeepsTyped
<1> QED
  BY <1>1, <1>2, <1>3, <1>4, <1>5, <1>6 DEF Next

\* The client begins with the launcher's tab and editor.
LEMMA EditorsInit == Init => IInv
<1> SUFFICES ASSUME Init PROVE IInv
  OBVIOUS
<1>1. /\ DOMAIN tabs = {Launcher} /\ tabs[Launcher] \in Tab
      /\ tabs[Launcher].type = "launcher"
      /\ tabs = [p \in DOMAIN tabs |-> tabs[p]]
      /\ order = <<Launcher>>
  BY DEF Init, TabsInit, Tab
<1>2. Listed(tabs, order)
  <2>1. TabsOf(tabs)
    BY <1>1 DEF TabsOf, Path
  <2>2. order \in Seq(DOMAIN tabs) /\ DOMAIN order = {1} /\ order[1] = Launcher
    BY <1>1
  <2> QED
    BY <1>1, <2>1, <2>2 DEF Listed
<1>3. BarInv
  <2>1. /\ creates = [c \in Click |-> creates[c]]
        /\ \A c \in Click : creates[c].at = "idle" /\ creates[c].tabs = <<>>
    BY DEF Init, TabsInit, NotClicked
  <2> QED
    BY <1>2, <2>1 DEF BarInv, Init, TabsInit
<1>4. SlotsInv
  <2> DEFINE e == Mounted("Launcher")
  <2>1. "Launcher" \in Kind /\ EditorOf["launcher"] = "Launcher"
    BY DEF Kind, EditorOf
  <2>2. EditorInv(e) /\ e \in Slot /\ e.kind = "Launcher"
    BY <2>1, MountedEditor DEF EditorInv
  <2>3. slots = <<e>>
    BY DEF Init
  <2> HIDE DEF e
  <2>4. slots \in Seq(Slot) /\ DOMAIN slots = {1} /\ slots[1] = e
        /\ Len(slots) = 1 /\ Len(order) = 1 /\ order[1] = Launcher
    BY <1>1, <2>2, <2>3
  <2> QED
    BY <1>1, <2>1, <2>2, <2>4 DEF SlotsInv
<1>5. DiskInv
  BY DEF Init, DiskInv, ContentsStayHome, Path
<1> QED
  BY <1>3, <1>4, <1>5 DEF IInv

LEMMA EditorsInvariant == Spec => []IInv
<1>1. IInv /\ [Next]_vars => IInv'
  BY EditorsStep
<1> QED
  BY EditorsInit, <1>1, PTL DEF Spec

\* The editors are in step with the tabs: each tab is listed once and has an
\* editor of its kind, also right after a late createNewNotebook has put back
\* the tabs of its click.
THEOREM TypeCorrect == Spec => []TypeOK
<1>1. IInv => TypeOK
  <2> SUFFICES ASSUME IInv PROVE TypeOK
    OBVIOUS
  <2>1. /\ TabsOf(tabs) /\ DOMAIN tabs = {order[i] : i \in DOMAIN order}
        /\ \A i, j \in DOMAIN order : order[i] = order[j] => i = j
    <3>1. /\ \A i \in DOMAIN order : order[i] \in DOMAIN tabs
          /\ \A p \in DOMAIN tabs : \E i \in DOMAIN order : order[i] = p
      BY DEF IInv, BarInv, Listed
    <3>2. DOMAIN tabs = {order[i] : i \in DOMAIN order}
      BY <3>1, Zenon
    <3> QED
      BY <3>2 DEF IInv, BarInv, Listed
  <2>2. ASSUME NEW c \in Click PROVE TabsOf(creates[c].tabs)
    <3>1. CASE creates[c].at = "waiting"
      BY <3>1 DEF IInv, BarInv, Listed
    <3>2. CASE creates[c].at # "waiting"
      <4>1. creates[c].tabs = <<>>
        BY <3>2 DEF IInv, BarInv
      <4>2. TabsOf(<<>>)
        BY DEF TabsOf
      <4> QED
        BY <4>1, <4>2
    <3> QED
      BY <3>1, <3>2
  <2>3. /\ Len(slots) = Len(order)
        /\ \A i \in DOMAIN slots :
             slots[i] \in Slot /\ slots[i].kind = EditorOf[tabs[order[i]].type]
    BY DEF IInv, SlotsInv, EditorInv
  <2> QED
    BY <2>1, <2>2, <2>3 DEF TypeOK, IInv, BarInv, DiskInv
<1> QED
  BY <1>1, EditorsInvariant, PTL

\* A file holds what came from it, however saves and answers overtake each
\* other, unless it was saved from an editor that had not loaded it.
THEOREM FilesKeepTheirContents == Spec => []ContentsStayHome
<1>1. IInv => ContentsStayHome
  BY DEF IInv, DiskInv
<1> QED
  BY <1>1, EditorsInvariant, PTL

\* What the user has typed into a loaded file is never overwritten by an
\* answer or by a change of the tabs while the editor lives.
THEOREM TypedTextIsKept == Spec => TypedTextKept
<1>1. IInv /\ [Next]_vars => KeepsTyped
  BY EditorsStep
<1> QED
  BY <1>1, EditorsInvariant, PTL DEF Spec, TypedTextKept, KeepsTyped

-----------------------------------------------------------------------------
(* The editors implement the tabs                                          *)

\* Nothing an editor does opens, closes or activates a tab: with the editors
\* behind them the tabs behave as Tabs says.
THEOREM EditorsImplementTabs == Spec => TabsSpec
<1>1. Init => TabsInit
  BY DEF Init
<1>2. [Next]_vars => [TabsNext]_tabVars
  BY DEF Next, vars, TabStep, FetchAnswered, Type, Save, SaveArrives, SaveLost
<1> QED
  BY <1>1, <1>2, PTL DEF Spec, TabsSpec

\* So what is proved of the tabs alone holds with the editors too: at most one
\* editor is visible beside the launcher's, and no tab is lost but by its own
\* close or to a notebook created late.
THEOREM EditorsKeepTheTabs == Spec => []EditorsVisible /\ TabsLeaveKnowingly
BY EditorsImplementTabs, OneEditorAtATime, TabsLeaveOnlyKnowingly
=============================================================================
