------------------------- MODULE NotebookCellsProofs -------------------------
(***************************************************************************)
(* Theorems about NotebookCells, for every file and any number of commands *)
(* of the user.                                                            *)
(***************************************************************************)
EXTENDS NotebookCells, TLAPS

-----------------------------------------------------------------------------
(* The inductive invariant, in parts *)

DiskCell == [source : Source, type : CellType]

\* The types TypeOK leaves out.
AuxInv ==
  /\ nextId \in Nat
  /\ arrays \in Seq(SUBSET Nat)
  /\ puts \in Seq(Seq(DiskCell))

\* The cells whose outputs array still counts: the notebook's, and the copied
\* one.
Holders == {cells[i] : i \in DOMAIN cells} \cup ({copiedCell} \ {NoCell})

\* The array of c was written by cells c descends from, and so it will be by
\* every cell that shares it and of which a run was sent.
Traced(c) ==
  /\ c.id < nextId /\ c.out \in 0..Len(arrays)
  /\ c.out # 0 =>
       /\ arrays[c.out] \subseteq lineage[c.id]
       /\ \A i \in DOMAIN cells :
            cells[i].out = c.out /\ cells[i].id \in runs =>
              cells[i].id \in lineage[c.id]

TraceInv ==
  /\ \A id \in 0..nextId - 1 : id \in lineage[id]
  /\ \A c \in Holders : Traced(c)

\* The cells of the file are in s, in their order.
Keeps(s) ==
  \E at \in [DOMAIN DiskCells -> DOMAIN s] :
    /\ \A i \in DOMAIN DiskCells : /\ s[at[i]].source = DiskCells[i].source
                                   /\ s[at[i]].type = DiskCells[i].type
    /\ \A i, j \in DOMAIN DiskCells : i < j => at[i] < at[j]

\* They are kept by the file, by the notebook once it is loaded, and by the
\* saves on their way.
KeepInv ==
  ~lossy => /\ Keeps(disk)
            /\ load = "done" => Keeps(cells)
            /\ \A i \in DOMAIN puts : Keeps(puts[i])

FocusInv == cells = <<>> => focusedIndex = 0

IInv == /\ TypeOK /\ AuxInv /\ EditorShowsSource /\ TraceInv /\ KeepInv
        /\ FocusInv

-----------------------------------------------------------------------------
(* Cells in sequences *)

UniqueIds(cs) == \A i, j \in DOMAIN cs : cs[i].id = cs[j].id => i = j

\* The fields of a cell in a sequence.
LEMMA CellOf ==
  ASSUME NEW cs \in Seq(Cell), NEW i \in DOMAIN cs
  PROVE  /\ cs[i] \in Cell /\ i \in Nat /\ i \in 1..Len(cs)
         /\ cs[i].id \in Nat /\ cs[i].source \in Source
         /\ cs[i].type \in CellType /\ cs[i].out \in Nat
<1>1. cs[i] \in Cell /\ i \in 1..Len(cs)
  OBVIOUS
<1> QED
  BY <1>1 DEF Cell

\* A cell with one field changed.
LEMMA SourceField ==
  ASSUME NEW c \in Cell, NEW s \in Source
  PROVE  LET d == [c EXCEPT !.source = s] IN
           /\ d \in Cell /\ d.source = s
           /\ d.id = c.id /\ d.type = c.type /\ d.out = c.out
BY DEF Cell

LEMMA TypeField ==
  ASSUME NEW c \in Cell, NEW t \in CellType
  PROVE  LET d == [c EXCEPT !.type = t] IN
           /\ d \in Cell /\ d.type = t
           /\ d.id = c.id /\ d.source = c.source /\ d.out = c.out
BY DEF Cell

LEMMA OutField ==
  ASSUME NEW c \in Cell, NEW o \in Nat
  PROVE  LET d == [c EXCEPT !.out = o] IN
           /\ d \in Cell /\ d.out = o
           /\ d.id = c.id /\ d.source = c.source /\ d.type = c.type
BY DEF Cell

LEMMA NewCellFields ==
  ASSUME NEW i \in Nat, NEW s \in Source, NEW t \in CellType, NEW o \in Nat
  PROVE  LET c == NewCell(i, s, t, o) IN
           c \in Cell /\ c.id = i /\ c.source = s /\ c.type = t /\ c.out = o
BY DEF NewCell, Cell

\* An inserted cell stands at its place and the others keep their order.
LEMMA InsertedCells ==
  ASSUME NEW S, NEW cs \in Seq(S), NEW c \in S, NEW index \in 0..Len(cs)
  PROVE  /\ Inserted(cs, index, c) \in Seq(S)
         /\ Len(Inserted(cs, index, c)) = Len(cs) + 1
         /\ \A i \in 1..Len(cs) + 1 :
              Inserted(cs, index, c)[i] =
                IF i <= index THEN cs[i]
                ELSE IF i = index + 1 THEN c ELSE cs[i - 1]
<1> DEFINE n == Len(cs)
           f == [i \in 1..n + 1 |->
                   IF i <= index THEN cs[i]
                   ELSE IF i = index + 1 THEN c ELSE cs[i - 1]]
<1>1. n \in Nat /\ \A i \in 1..n : cs[i] \in S
  OBVIOUS
<1>2. \A i \in 1..n + 1 : f[i] \in S
  BY <1>1
<1>3. f \in Seq(S) /\ Len(f) = n + 1
  BY <1>1, <1>2
<1> QED
  BY <1>3 DEF Inserted

\* Without one cell the others keep their order.
LEMMA WithoutCell ==
  ASSUME NEW S, NEW cs \in Seq(S), NEW index \in 0..Len(cs) - 1
  PROVE  /\ Without(cs, index) \in Seq(S)
         /\ Len(Without(cs, index)) = Len(cs) - 1
         /\ \A i \in 1..Len(cs) - 1 :
              Without(cs, index)[i] = IF i <= index THEN cs[i] ELSE cs[i + 1]
<1> DEFINE n == Len(cs)
           f == [i \in 1..n - 1 |-> IF i <= index THEN cs[i] ELSE cs[i + 1]]
<1>1. n \in Nat /\ n >= 1 /\ \A i \in 1..n : cs[i] \in S
  OBVIOUS
<1>2. \A i \in 1..n - 1 : f[i] \in S
  BY <1>1
<1>3. f \in Seq(S) /\ Len(f) = n - 1
  BY <1>1, <1>2
<1> QED
  BY <1>3 DEF Without

\* One cell replaced.
LEMMA ReplacedCell ==
  ASSUME NEW S, NEW cs \in Seq(S), NEW k \in DOMAIN cs, NEW c \in S
  PROVE  LET ds == [cs EXCEPT ![k] = c] IN
           /\ ds \in Seq(S) /\ Len(ds) = Len(cs) /\ DOMAIN ds = DOMAIN cs
           /\ ds[k] = c
           /\ \A i \in DOMAIN cs : i # k => ds[i] = cs[i]
OBVIOUS

-----------------------------------------------------------------------------
(* The Cells that React keeps *)

\* Where every cell of cs is one of the notebook's with its source, or new,
\* what is rendered for it shows its source.
LEMMA RenderedShows ==
  ASSUME TypeOK, AuxInv, EditorShowsSource,
         NEW cs \in Seq(Cell), UniqueIds(cs),
         \A i \in DOMAIN cs :
           \/ cs[i].id >= nextId
           \/ \E j \in DOMAIN cells : /\ cs[i].id = cells[j].id
                                      /\ cs[i].source = cells[j].source
  PROVE  /\ Rendered(cs) \in [Ids(cs) -> Source]
         /\ \A i \in DOMAIN cs : Rendered(cs)[cs[i].id] = cs[i].source
<1>1. \A i \in DOMAIN cs : cs[i] \in Cell /\ cs[i].source \in Source
  BY CellOf
<1>2. \A j \in DOMAIN cells : /\ cells[j].id \in Nat /\ cells[j].id < nextId
                              /\ contents[cells[j].id] = cells[j].source
  BY CellOf DEF TypeOK, EditorShowsSource
<1>3. DOMAIN contents = Ids(cells)
  BY DEF TypeOK
<1>4. ASSUME NEW i \in DOMAIN cs
      PROVE  Rendered(cs)[cs[i].id] = cs[i].source
  <2>1. cs[i].id \in Ids(cs)
    BY DEF Ids
  <2>2. (CHOOSE k \in DOMAIN cs : cs[k].id = cs[i].id) = i
    BY DEF UniqueIds
  <2>3. CASE cs[i].id \in DOMAIN contents
    <3>1. PICK k \in DOMAIN cells : cells[k].id = cs[i].id
      BY <1>3, <2>3 DEF Ids
    <3>2. contents[cs[i].id] = cs[i].source
      <4>1. ~(cs[i].id >= nextId)
        BY <1>2, <3>1 DEF AuxInv
      <4> QED
        BY <1>2, <4>1
    <3> QED
      BY <2>1, <2>3, <3>2 DEF Rendered
  <2>4. CASE cs[i].id \notin DOMAIN contents
    BY <2>1, <2>2, <2>4 DEF Rendered
  <2> QED
    BY <2>3, <2>4
<1>5. \A id \in Ids(cs) : Rendered(cs)[id] \in Source
  BY <1>1, <1>4 DEF Ids
<1>6. Rendered(cs) \in [Ids(cs) -> Source]
  BY <1>5 DEF Rendered
<1> QED
  BY <1>4, <1>6

LEMMA NotebookSet ==
  ASSUME TypeOK, AuxInv, EditorShowsSource,
         NEW cs \in Seq(Cell), UniqueIds(cs), SetNotebook(cs),
         \A i \in DOMAIN cs :
           \/ cs[i].id >= nextId
           \/ \E j \in DOMAIN cells : /\ cs[i].id = cells[j].id
                                      /\ cs[i].source = cells[j].source
  PROVE  contents' \in [Ids(cells') -> Source] /\ EditorShowsSource'
BY RenderedShows DEF SetNotebook, EditorShowsSource

-----------------------------------------------------------------------------
(* The outputs *)

\* A cell keeps its id and keeps its array or drops it, or is new and has no
\* array or that of the copied cell; only a cell that has dropped its array is
\* run.
LEMMA TraceStep ==
  ASSUME TypeOK, AuxInv, TraceInv, NEW cs \in Seq(Cell), cells' = cs,
         nextId' \in Nat, nextId' >= nextId, arrays' = arrays,
         copiedCell' \in Holders \cup {NoCell},
         \A id \in 0..nextId - 1 : lineage'[id] = lineage[id],
         \A id \in nextId..nextId' - 1 : id \in lineage'[id],
         \A i \in DOMAIN cs :
           \/ \E j \in DOMAIN cells : /\ cs[i].id = cells[j].id
                                      /\ cs[i].out \in {0, cells[j].out}
           \/ /\ cs[i].id \in nextId..nextId' - 1
              /\ cs[i].out # 0 =>
                   /\ copiedCell # NoCell /\ cs[i].out = copiedCell.out
                   /\ lineage[copiedCell.id] \subseteq lineage'[cs[i].id],
         \A i \in DOMAIN cs :
           cs[i].id \in runs' => cs[i].id \in runs \/ cs[i].out = 0
  PROVE  TraceInv'
<1>1. /\ nextId \in Nat /\ runs \subseteq 0..nextId - 1
      /\ \A i \in DOMAIN cs : cs[i].id \in Nat /\ cs[i].out \in Nat
      /\ \A j \in DOMAIN cells : cells[j].id \in Nat /\ cells[j].id < nextId
  BY CellOf DEF AuxInv, TypeOK
<1>2. \A id \in 0..nextId' - 1 : id \in lineage'[id]
  BY <1>1 DEF TraceInv
<1>3. \A c \in Holders : /\ c.id \in 0..nextId - 1
                         /\ c.out \in Nat /\ c.out \in 0..Len(arrays)
  <2> SUFFICES ASSUME NEW c \in Holders
      PROVE  /\ c.id \in 0..nextId - 1
             /\ c.out \in Nat /\ c.out \in 0..Len(arrays)
    OBVIOUS
  <2>1. c \in Cell
    BY CellOf DEF Holders, TypeOK
  <2>2. c.id \in Nat /\ c.out \in Nat
    BY <2>1 DEF Cell
  <2>3. Traced(c)
    BY DEF TraceInv
  <2> QED
    BY <1>1, <2>2, <2>3 DEF Traced
\* What a holder passes on to the cell d.
<1>4. ASSUME NEW c \in Holders, NEW d, d.id \in 0..nextId' - 1,
             d.out = c.out, lineage[c.id] \subseteq lineage'[d.id]
      PROVE  Traced(d)'
  <2>1. Traced(c)
    BY DEF TraceInv
  <2>2. d.id < nextId' /\ d.out \in 0..Len(arrays)
    BY <1>3, <1>4
  <2>3. ASSUME d.out # 0
        PROVE  arrays[d.out] \subseteq lineage'[d.id]
    BY <1>4, <2>1, <2>3 DEF Traced
  <2>4. ASSUME d.out # 0, NEW i \in DOMAIN cs, cs[i].out = d.out,
               cs[i].id \in runs'
        PROVE  cs[i].id \in lineage'[d.id]
    <3>1. cs[i].id \in runs /\ ~(cs[i].id \in nextId..nextId' - 1)
      BY <1>1, <2>4
    <3>2. PICK j \in DOMAIN cells : /\ cs[i].id = cells[j].id
                                    /\ cs[i].out = cells[j].out
      BY <2>4, <3>1
    <3>3. cells[j].id \in lineage[c.id]
      BY <1>4, <2>1, <2>4, <3>1, <3>2 DEF Traced
    <3> QED
      BY <1>4, <3>2, <3>3
  <2> QED
    BY <2>2, <2>3, <2>4 DEF Traced
\* A cell without an array.
<1>5. ASSUME NEW d, d.id \in 0..nextId' - 1, d.out = 0
      PROVE  Traced(d)'
  <2>1. Len(arrays) \in Nat
    BY DEF AuxInv
  <2> QED
    BY <1>5, <2>1 DEF Traced
<1>6. ASSUME NEW i \in DOMAIN cs
      PROVE  Traced(cs[i])'
  <2>1. CASE \E j \in DOMAIN cells : /\ cs[i].id = cells[j].id
                                     /\ cs[i].out \in {0, cells[j].out}
    <3>1. PICK j \in DOMAIN cells : /\ cs[i].id = cells[j].id
                                    /\ cs[i].out \in {0, cells[j].out}
      BY <2>1
    <3>2. cells[j] \in Holders
      BY DEF Holders
    <3>3. /\ cs[i].id \in 0..nextId' - 1
          /\ lineage[cells[j].id] = lineage'[cs[i].id]
      BY <1>1, <3>1
    <3> QED
      BY <1>4, <1>5, <3>1, <3>2, <3>3
  <2>2. CASE /\ cs[i].id \in nextId..nextId' - 1
             /\ cs[i].out # 0 =>
                  /\ copiedCell # NoCell /\ cs[i].out = copiedCell.out
                  /\ lineage[copiedCell.id] \subseteq lineage'[cs[i].id]
    <3>1. cs[i].id \in 0..nextId' - 1
      BY <1>1, <2>2
    <3>2. copiedCell # NoCell => copiedCell \in Holders
      BY DEF Holders
    <3> QED
      BY <1>4, <1>5, <2>2, <3>1, <3>2
  <2> QED
    BY <2>1, <2>2
<1>7. copiedCell' # NoCell => Traced(copiedCell)'
  <2> SUFFICES ASSUME copiedCell' # NoCell PROVE Traced(copiedCell)'
    OBVIOUS
  <2>1. copiedCell' \in Holders
    OBVIOUS
  <2>2. /\ copiedCell'.id \in 0..nextId' - 1
        /\ lineage[copiedCell'.id] = lineage'[copiedCell'.id]
    BY <1>1, <1>3, <2>1
  <2> QED
    BY <1>4, <2>1, <2>2 DEF Traced
<1>8. Holders' = {cs[i] : i \in DOMAIN cs} \cup ({copiedCell'} \ {NoCell})
  BY DEF Holders
<1>9. ASSUME NEW c \in Holders'
      PROVE  Traced(c)'
  BY <1>6, <1>7, <1>8, <1>9 DEF Traced
<1> QED
  BY <1>2, <1>9 DEF TraceInv

-----------------------------------------------------------------------------
(* The cells of the file *)

\* What s keeps is kept by t, if the cells of s are among those of t in their
\* order.
LEMMA KeepsOn ==
  ASSUME NEW s, NEW t, NEW f \in [DOMAIN s -> DOMAIN t], Keeps(s),
         \A i \in DOMAIN s : /\ t[f[i]].source = s[i].source
                             /\ t[f[i]].type = s[i].type,
         \A i, j \in DOMAIN s : i < j => f[i] < f[j]
  PROVE  Keeps(t)
<1>1. PICK at \in [DOMAIN DiskCells -> DOMAIN s] :
        /\ \A i \in DOMAIN DiskCells : /\ s[at[i]].source = DiskCells[i].source
                                       /\ s[at[i]].type = DiskCells[i].type
        /\ \A i, j \in DOMAIN DiskCells : i < j => at[i] < at[j]
  BY DEF Keeps
<1> DEFINE g == [i \in DOMAIN DiskCells |-> f[at[i]]]
<1>2. g \in [DOMAIN DiskCells -> DOMAIN t]
  BY <1>1
<1>3. \A i \in DOMAIN DiskCells : /\ t[g[i]].source = DiskCells[i].source
                                  /\ t[g[i]].type = DiskCells[i].type
  BY <1>1
<1>4. \A i, j \in DOMAIN DiskCells : i < j => g[i] < g[j]
  BY <1>1
<1> QED
  BY <1>2, <1>3, <1>4 DEF Keeps

\* The same cells, whatever else of them has changed.
LEMMA KeepsSame ==
  ASSUME NEW s, NEW t, DOMAIN t = DOMAIN s, Keeps(s),
         \A i \in DOMAIN s : /\ t[i].source = s[i].source
                             /\ t[i].type = s[i].type
  PROVE  Keeps(t)
<1> DEFINE f == [i \in DOMAIN s |-> i]
<1>1. f \in [DOMAIN s -> DOMAIN t]
  OBVIOUS
<1>2. \A i, j \in DOMAIN s : i < j => f[i] < f[j]
  OBVIOUS
<1>3. \A i \in DOMAIN s : f[i] = i
  OBVIOUS
<1> HIDE DEF f
<1> QED
  BY <1>1, <1>2, <1>3, KeepsOn

LEMMA KeepsInserted ==
  ASSUME NEW cs \in Seq(Cell), NEW c \in Cell, NEW index \in 0..Len(cs),
         Keeps(cs)
  PROVE  Keeps(Inserted(cs, index, c))
<1> DEFINE t == Inserted(cs, index, c)
           f == [i \in DOMAIN cs |-> IF i <= index THEN i ELSE i + 1]
<1>1. /\ Len(cs) \in Nat /\ DOMAIN cs = 1..Len(cs)
      /\ t \in Seq(Cell) /\ DOMAIN t = 1..Len(cs) + 1
      /\ \A i \in 1..Len(cs) + 1 :
           t[i] = IF i <= index THEN cs[i]
                  ELSE IF i = index + 1 THEN c ELSE cs[i - 1]
  BY InsertedCells
<1> HIDE DEF t
<1>2. f \in [DOMAIN cs -> DOMAIN t]
  BY <1>1
<1>3. \A i \in DOMAIN cs : t[f[i]] = cs[i]
  BY <1>1
<1>4. \A i, j \in DOMAIN cs : i < j => f[i] < f[j]
  BY <1>1
<1> HIDE DEF f
<1> QED
  BY <1>2, <1>3, <1>4, KeepsOn DEF t

-----------------------------------------------------------------------------
(* The steps *)

\* The notebook with other outputs arrays, if any.
Variant(cs) ==
  /\ cs \in Seq(Cell) /\ Len(cs) = Len(cells)
  /\ \A i \in DOMAIN cells : /\ cs[i].id = cells[i].id
                             /\ cs[i].source = cells[i].source
                             /\ cs[i].type = cells[i].type
                             /\ cs[i].out \in {0, cells[i].out}

\* Only a cell whose outputs were emptied is run.
RunsEmptied(cs) ==
  /\ runs' \subseteq 0..nextId - 1
  /\ \A i \in DOMAIN cs :
       cs[i].id \in runs' => cs[i].id \in runs \/ cs[i].out = 0

\* A cell is inserted, whatever becomes of the focus.
LEMMA InsertPreserves ==
  ASSUME IInv, NEW cs, Variant(cs), RunsEmptied(cs),
         NEW index \in 0..Len(cs), NEW source \in Source,
         NEW type \in CellType, NEW out \in Nat, NEW from,
         InsertFresh(cs, index, source, type, out, from),
         out # 0 => /\ copiedCell # NoCell /\ out = copiedCell.out
                    /\ from = lineage[copiedCell.id],
         UNCHANGED <<copiedCell, arrays, lossy, fileVars>>,
         focusedIndex' \in Nat
  PROVE  IInv'
<1> DEFINE c == NewCell(nextId, source, type, out)
           ds == Inserted(cs, index, c)
<1> USE DEF IInv, fileVars
<1>1. /\ nextId \in Nat /\ nextId' = nextId + 1
      /\ c \in Cell /\ c.id = nextId /\ c.source = source /\ c.type = type
      /\ c.out = out
  BY NewCellFields DEF AuxInv, InsertFresh
<1>2. /\ cells \in Seq(Cell) /\ cs \in Seq(Cell)
      /\ Len(cells) \in Nat /\ Len(cs) = Len(cells)
      /\ DOMAIN cs = 1..Len(cells) /\ DOMAIN cells = 1..Len(cells)
      /\ index \in 0..Len(cells)
  BY DEF Variant, TypeOK
<1>3. /\ SetNotebook(ds) /\ cells' = ds
      /\ lineage' = [id \in DOMAIN lineage \cup {nextId} |->
                       IF id = nextId THEN {nextId} \cup from ELSE lineage[id]]
  BY DEF InsertFresh, SetNotebook
<1> HIDE DEF c
<1>4. /\ ds \in Seq(Cell) /\ DOMAIN ds = 1..Len(cells) + 1
      /\ Len(ds) = Len(cells) + 1
      /\ \A i \in 1..Len(cells) + 1 :
           ds[i] = IF i <= index THEN cs[i]
                   ELSE IF i = index + 1 THEN c ELSE cs[i - 1]
  <2>1. /\ ds \in Seq(Cell) /\ Len(ds) = Len(cs) + 1
        /\ \A i \in 1..Len(cs) + 1 :
             ds[i] = IF i <= index THEN cs[i]
                     ELSE IF i = index + 1 THEN c ELSE cs[i - 1]
    <3>1. c \in Cell /\ cs \in Seq(Cell) /\ index \in 0..Len(cs)
      BY <1>1, <1>2
    <3> QED
      BY <3>1, InsertedCells
  <2> HIDE DEF ds
  <2>2. Len(cs) = Len(cells) /\ Len(cells) \in Nat
    BY <1>2
  <2>3. /\ ds \in Seq(Cell) /\ Len(ds) = Len(cells) + 1
        /\ \A i \in 1..Len(cells) + 1 :
             ds[i] = IF i <= index THEN cs[i]
                     ELSE IF i = index + 1 THEN c ELSE cs[i - 1]
    BY <2>1, <2>2
  <2>4. DOMAIN ds = 1..Len(cells) + 1
    BY <2>3
  <2> QED
    BY <2>3, <2>4
<1> HIDE DEF ds
<1>5. /\ runs \subseteq 0..nextId - 1
      /\ DOMAIN lineage = 0..nextId - 1
      /\ \A i, j \in DOMAIN cells : cells[i].id = cells[j].id => i = j
      /\ \A i \in DOMAIN cells : /\ cells[i].id \in Nat /\ cells[i].id < nextId
                                 /\ cells[i].out \in 0..Len(arrays)
  BY CellOf DEF TypeOK
<1>6. \A j \in DOMAIN cells : /\ cs[j].id = cells[j].id
                              /\ cs[j].source = cells[j].source
                              /\ cs[j].out \in {0, cells[j].out}
  BY DEF Variant
<1>7. \A i \in DOMAIN ds :
        \/ i = index + 1 /\ ds[i] = c
        \/ \E j \in DOMAIN cells : /\ i = IF j <= index THEN j ELSE j + 1
                                   /\ ds[i] = cs[j]
  <2> SUFFICES ASSUME NEW i \in DOMAIN ds
      PROVE  \/ i = index + 1 /\ ds[i] = c
             \/ \E j \in DOMAIN cells : /\ i = IF j <= index THEN j ELSE j + 1
                                        /\ ds[i] = cs[j]
    OBVIOUS
  <2>1. CASE i <= index
    BY <1>2, <1>4, <2>1
  <2>2. CASE i = index + 1
    BY <1>2, <1>4, <2>2
  <2>3. CASE i > index + 1
    <3>1. i - 1 \in DOMAIN cells /\ ds[i] = cs[i - 1] /\ ~(i - 1 <= index)
          /\ i = (i - 1) + 1
      BY <1>2, <1>4, <2>3
    <3> QED
      BY <3>1
  <2> QED
    BY <1>2, <1>4, <2>1, <2>2, <2>3
<1>8. UniqueIds(ds)
  <2> SUFFICES ASSUME NEW i \in DOMAIN ds, NEW k \in DOMAIN ds,
                      ds[i].id = ds[k].id
      PROVE  i = k
    BY DEF UniqueIds
  <2>1. CASE ds[i] = c /\ i = index + 1
    BY <1>1, <1>5, <1>6, <1>7, <2>1
  <2>2. CASE \E j \in DOMAIN cells : /\ i = IF j <= index THEN j ELSE j + 1
                                     /\ ds[i] = cs[j]
    BY <1>1, <1>5, <1>6, <1>7, <2>2
  <2> QED
    BY <1>7, <2>1, <2>2
<1>9. contents' \in [Ids(cells') -> Source] /\ EditorShowsSource'
  <2>1. \A i \in DOMAIN ds :
          \/ ds[i].id >= nextId
          \/ \E j \in DOMAIN cells : /\ ds[i].id = cells[j].id
                                     /\ ds[i].source = cells[j].source
    BY <1>1, <1>6, <1>7
  <2> QED
    BY <1>3, <1>4, <1>8, <2>1, NotebookSet
<1>10. out \in 0..Len(arrays)
  <2>1. CASE out # 0
    <3>1. copiedCell \in Holders
      BY <2>1 DEF Holders
    <3> QED
      BY <2>1, <3>1 DEF TraceInv, Traced
  <2>2. CASE out = 0
    BY <2>2 DEF AuxInv
  <2> QED
    BY <2>1, <2>2
<1>11. TypeOK'
  <2>1. \A i \in DOMAIN ds : /\ ds[i].id < nextId'
                             /\ ds[i].out \in 0..Len(arrays)
    <3> SUFFICES ASSUME NEW i \in DOMAIN ds
        PROVE  ds[i].id < nextId' /\ ds[i].out \in 0..Len(arrays)
      OBVIOUS
    <3>1. CASE ds[i] = c
      BY <1>1, <1>10, <3>1
    <3>2. CASE \E j \in DOMAIN cells : ds[i] = cs[j]
      <4>1. PICK j \in DOMAIN cells : ds[i] = cs[j]
        BY <3>2
      <4>2. cs[j].id < nextId + 1 /\ Len(arrays) \in Nat
        BY <1>1, <1>5, <1>6 DEF AuxInv
      <4> QED
        BY <1>1, <1>5, <1>6, <4>1, <4>2
    <3> QED
      BY <1>7, <3>1, <3>2
  <2>2. runs' \subseteq 0..nextId' - 1
    BY <1>1 DEF RunsEmptied
  <2>3. DOMAIN lineage' = 0..nextId' - 1
    BY <1>1, <1>3, <1>5
  <2> QED
    BY <1>3, <1>4, <1>8, <1>9, <2>1, <2>2, <2>3 DEF TypeOK, UniqueIds
<1>12. AuxInv'
  BY <1>1 DEF AuxInv
<1>13. TraceInv'
  <2>1. /\ \A id \in 0..nextId - 1 : lineage'[id] = lineage[id]
        /\ lineage'[nextId] = {nextId} \cup from
    BY <1>1, <1>3, <1>5
  <2>2. \A i \in DOMAIN ds :
          \/ \E j \in DOMAIN cells : /\ ds[i].id = cells[j].id
                                     /\ ds[i].out \in {0, cells[j].out}
          \/ /\ ds[i].id \in nextId..nextId' - 1
             /\ ds[i].out # 0 =>
                  /\ copiedCell # NoCell /\ ds[i].out = copiedCell.out
                  /\ lineage[copiedCell.id] \subseteq lineage'[ds[i].id]
    BY <1>1, <1>6, <1>7, <2>1
  <2>3. \A i \in DOMAIN ds :
          ds[i].id \in runs' => ds[i].id \in runs \/ ds[i].out = 0
    BY <1>1, <1>2, <1>7 DEF RunsEmptied
  <2>4. \A id \in nextId..nextId' - 1 : id \in lineage'[id]
    BY <1>1, <2>1
  <2>5. copiedCell' \in Holders \cup {NoCell}
    BY DEF Holders
  <2>6. nextId' >= nextId
    BY <1>1
  <2>7. cells' = ds /\ ds \in Seq(Cell) /\ nextId' \in Nat /\ arrays' = arrays
    BY <1>1, <1>3, <1>4
  <2> QED
    BY <2>1, <2>2, <2>3, <2>4, <2>5, <2>6, <2>7, TraceStep
<1>14. KeepInv'
  <2>1. Keeps(cells) => Keeps(ds)
    <3> SUFFICES ASSUME Keeps(cells) PROVE Keeps(ds)
      OBVIOUS
    <3>1. Keeps(cs)
      BY <1>2, KeepsSame DEF Variant
    <3> QED
      BY <1>1, <1>2, <3>1, KeepsInserted DEF ds
  <2>2. Keeps(ds) => Keeps(cells)'
    BY <1>3 DEF Keeps
  <2>3. Keeps(disk) => Keeps(disk)'
    BY <1>3 DEF Keeps
  <2>4. ASSUME NEW i \in DOMAIN puts, Keeps(puts[i])
        PROVE  Keeps(puts[i])'
    BY <1>3, <2>4 DEF Keeps
  <2>5. lossy' = lossy /\ load' = load /\ puts' = puts
    BY <1>3
  <2> QED
    BY <2>1, <2>2, <2>3, <2>4, <2>5 DEF KeepInv
<1>15. FocusInv'
  BY <1>3, <1>4, <1>2 DEF FocusInv
<1> QED
  BY <1>9, <1>11, <1>12, <1>13, <1>14, <1>15

\* No cell is inserted or removed, and at most outputs are emptied, whatever
\* becomes of the focus, of the file and of the copied cell.
LEMMA VariantPreserves ==
  ASSUME IInv, NEW cs, Variant(cs), RunsEmptied(cs), cells' = cs,
         contents' = contents \/ SetNotebook(cs),
         UNCHANGED <<nextId, lineage, arrays>>,
         copiedCell' \in Holders \cup {NoCell},
         focusedIndex' \in Nat, cells' = <<>> => focusedIndex' = focusedIndex,
         disk' \in Seq(DiskCell), puts' \in Seq(Seq(DiskCell)), KeepInv'
  PROVE  IInv'
<1> USE DEF IInv
<1>1. /\ cells \in Seq(Cell) /\ cs \in Seq(Cell)
      /\ Len(cells) \in Nat /\ Len(cs) = Len(cells)
      /\ DOMAIN cs = 1..Len(cells) /\ DOMAIN cells = 1..Len(cells)
  BY DEF Variant, TypeOK
<1>2. \A j \in DOMAIN cells : /\ cs[j].id = cells[j].id
                              /\ cs[j].source = cells[j].source
                              /\ cs[j].out \in {0, cells[j].out}
  BY DEF Variant
<1>3. UniqueIds(cs)
  BY <1>1, <1>2 DEF TypeOK, UniqueIds
<1>4. contents' \in [Ids(cells') -> Source] /\ EditorShowsSource'
  <2>1. CASE contents' = contents
    <3>1. Ids(cs) = Ids(cells)
      BY <1>1, <1>2 DEF Ids
    <3>2. contents \in [Ids(cells) -> Source]
      BY DEF TypeOK
    <3> QED
      BY <1>1, <1>2, <2>1, <3>1, <3>2 DEF EditorShowsSource
  <2>2. CASE SetNotebook(cs)
    BY <1>1, <1>2, <1>3, <2>2, NotebookSet
  <2> QED
    BY <2>1, <2>2
<1>5. copiedCell' \in Cell \cup {NoCell}
  BY CellOf DEF Holders, TypeOK
<1>6. TypeOK'
  <2>1. \A i \in DOMAIN cs : cs[i].id < nextId /\ cs[i].out \in 0..Len(arrays)
    <3>1. Len(arrays) \in Nat
      BY DEF AuxInv
    <3>2. \A i \in DOMAIN cells : /\ cells[i].id < nextId
                                  /\ cells[i].out \in 0..Len(arrays)
      BY DEF TypeOK
    <3>3. ASSUME NEW i \in DOMAIN cs
          PROVE  cs[i].id < nextId /\ cs[i].out \in 0..Len(arrays)
      <4>1. i \in DOMAIN cells /\ 0 \in 0..Len(arrays)
        BY <1>1, <3>1
      <4> QED
        BY <1>2, <3>2, <4>1
    <3> QED
      BY <3>3
  <2>2. runs' \subseteq 0..nextId - 1
    BY DEF RunsEmptied
  <2> QED
    BY <1>1, <1>3, <1>4, <1>5, <2>1, <2>2 DEF TypeOK, UniqueIds, DiskCell
<1>7. AuxInv'
  BY DEF AuxInv
<1>8. TraceInv'
  <2>1. nextId' \in Nat /\ nextId' >= nextId /\ nextId' = nextId
    BY DEF AuxInv
  <2>2. \A i \in DOMAIN cs :
          \E j \in DOMAIN cells : /\ cs[i].id = cells[j].id
                                  /\ cs[i].out \in {0, cells[j].out}
    BY <1>1, <1>2
  <2>3. \A id \in nextId..nextId' - 1 : id \in lineage'[id]
    BY <2>1
  <2>4. \A i \in DOMAIN cs :
          cs[i].id \in runs' => cs[i].id \in runs \/ cs[i].out = 0
    BY DEF RunsEmptied
  <2>5. cs \in Seq(Cell) /\ arrays' = arrays
    BY <1>1
  <2> QED
    BY <2>1, <2>2, <2>3, <2>4, <2>5, TraceStep
<1>9. FocusInv'
  BY <1>1 DEF FocusInv
<1> QED
  BY <1>4, <1>6, <1>7, <1>8, <1>9

\* Emptying the outputs of one cell, or of none.
LEMMA EmptiedVariant ==
  ASSUME TypeOK
  PROVE  /\ Variant(cells)
         /\ \A i \in DOMAIN cells :
              /\ Variant(Emptied(cells, i))
              /\ Emptied(cells, i)[i].out = 0
<1>1. cells \in Seq(Cell)
  BY DEF TypeOK
<1>2. ASSUME NEW i \in DOMAIN cells
      PROVE  Variant(Emptied(cells, i)) /\ Emptied(cells, i)[i].out = 0
  <2> DEFINE c == [cells[i] EXCEPT !.out = 0]
  <2>1. /\ c \in Cell /\ c.out = 0 /\ c.id = cells[i].id
        /\ c.source = cells[i].source /\ c.type = cells[i].type
    <3>1. cells[i] \in Cell /\ 0 \in Nat
      BY <1>1, CellOf
    <3> QED
      BY <3>1, OutField
  <2>2. Emptied(cells, i) = [cells EXCEPT ![i] = c]
    BY DEF Emptied
  <2> HIDE DEF c
  <2>3. LET ds == [cells EXCEPT ![i] = c] IN
          /\ ds \in Seq(Cell) /\ Len(ds) = Len(cells)
          /\ ds[i] = c
          /\ \A k \in DOMAIN cells : k # i => ds[k] = cells[k]
    BY <1>1, <2>1, ReplacedCell
  <2> QED
    BY <2>1, <2>2, <2>3 DEF Variant
<1> QED
  BY <1>1, <1>2 DEF Variant

\* The notebook keeps the file's cells when outputs are emptied.
LEMMA KeepVariant ==
  ASSUME TypeOK, KeepInv, NEW cs, Variant(cs), cells' = cs,
         UNCHANGED <<lossy, fileVars>>
  PROVE  KeepInv'
<1>1. Keeps(cells) => Keeps(cs)
  <2>1. DOMAIN cs = DOMAIN cells
    BY DEF Variant, TypeOK
  <2> QED
    BY <2>1, KeepsSame DEF Variant
<1> QED
  BY <1>1 DEF KeepInv, Keeps, fileVars

\* The source or the type of a cell is changed, and the Cell with it.
LEMMA EditPreserves ==
  ASSUME IInv, NEW k \in DOMAIN cells, NEW c \in Cell,
         c.id = cells[k].id, c.out = cells[k].out,
         cells' = [cells EXCEPT ![k] = c],
         \/ contents' = contents /\ c.source = cells[k].source
         \/ contents' = [contents EXCEPT ![c.id] = c.source],
         lossy' = TRUE,
         UNCHANGED <<focusedIndex, copiedCell, nextId, lineage, kernelVars,
                     fileVars>>
  PROVE  IInv'
<1> USE DEF IInv, kernelVars, fileVars
<1>1. /\ cells \in Seq(Cell) /\ cells' \in Seq(Cell)
      /\ Len(cells') = Len(cells) /\ DOMAIN cells' = DOMAIN cells
      /\ cells'[k] = c
      /\ \A i \in DOMAIN cells : i # k => cells'[i] = cells[i]
  BY ReplacedCell DEF TypeOK
<1>2. \A i \in DOMAIN cells : /\ cells'[i].id = cells[i].id
                              /\ cells'[i].out = cells[i].out
  BY <1>1
<1>3. Ids(cells') = Ids(cells)
  BY <1>1, <1>2 DEF Ids
<1>4. contents' \in [Ids(cells') -> Source] /\ EditorShowsSource'
  <2>1. /\ contents \in [Ids(cells) -> Source] /\ c.source \in Source
        /\ \A i \in DOMAIN cells : cells[i].id \in Ids(cells)
        /\ \A i \in DOMAIN cells : i # k => cells[i].id # c.id
    BY DEF TypeOK, Cell, Ids
  <2>2. CASE contents' = contents /\ c.source = cells[k].source
    BY <1>1, <1>3, <2>1, <2>2 DEF EditorShowsSource
  <2>3. CASE contents' = [contents EXCEPT ![c.id] = c.source]
    BY <1>1, <1>3, <2>1, <2>3 DEF EditorShowsSource
  <2> QED
    BY <2>2, <2>3
<1>5. TypeOK'
  <2>1. \A i \in DOMAIN cells : /\ cells[i].id < nextId
                                /\ cells[i].out \in 0..Len(arrays)
    BY DEF TypeOK
  <2>2. \A i \in DOMAIN cells' : /\ cells'[i].id < nextId
                                 /\ cells'[i].out \in 0..Len(arrays)
    BY <1>1, <1>2, <2>1
  <2>3. \A i, j \in DOMAIN cells' : cells'[i].id = cells'[j].id => i = j
    BY <1>1, <1>2 DEF TypeOK
  <2> QED
    BY <1>1, <1>4, <2>2, <2>3 DEF TypeOK
<1>6. AuxInv' /\ KeepInv'
  BY DEF AuxInv, KeepInv
<1>7. TraceInv'
  <2>1. nextId' \in Nat /\ nextId' >= nextId /\ nextId' = nextId
    BY DEF AuxInv
  <2>2. \A i \in DOMAIN cells' :
          \E j \in DOMAIN cells : /\ cells'[i].id = cells[j].id
                                  /\ cells'[i].out \in {0, cells[j].out}
    BY <1>1, <1>2
  <2>3. \A id \in nextId..nextId' - 1 : id \in lineage'[id]
    BY <2>1
  <2>4. copiedCell' \in Holders \cup {NoCell}
    BY DEF Holders
  <2> QED
    BY <1>1, <2>1, <2>2, <2>3, <2>4, TraceStep
<1>8. FocusInv'
  <2>1. k \in 1..Len(cells) /\ Len(cells) \in Nat
    BY <1>1
  <2>2. cells' # <<>>
    BY <1>1, <2>1
  <2> QED
    BY <2>2 DEF FocusInv
<1> QED
  BY <1>4, <1>5, <1>6, <1>7, <1>8

\* The focused cell is removed.
LEMMA RemovePreserves ==
  ASSUME IInv, InBounds(cells, focusedIndex),
         SetNotebook(Without(cells, focusedIndex)), lossy' = TRUE,
         copiedCell' \in Holders \cup {NoCell},
         UNCHANGED <<focusedIndex, nextId, lineage, kernelVars, fileVars>>
  PROVE  IInv'
<1> DEFINE cs == Without(cells, focusedIndex)
<1> USE DEF IInv, kernelVars, fileVars
<1>1. /\ cells \in Seq(Cell) /\ Len(cells) \in Nat
      /\ DOMAIN cells = 1..Len(cells)
      /\ focusedIndex \in 0..Len(cells) - 1
  BY DEF TypeOK, InBounds
<1>2. /\ cs \in Seq(Cell) /\ Len(cs) = Len(cells) - 1
      /\ \A i \in 1..Len(cells) - 1 :
           cs[i] = IF i <= focusedIndex THEN cells[i] ELSE cells[i + 1]
  BY <1>1, WithoutCell
<1>3. SetNotebook(cs) /\ cells' = cs
  BY DEF SetNotebook
<1> HIDE DEF cs
<1>4. DOMAIN cs = 1..Len(cells) - 1
  BY <1>1, <1>2
<1>5. \A i \in DOMAIN cs :
        \E j \in DOMAIN cells : /\ cs[i] = cells[j]
                                /\ j = IF i <= focusedIndex THEN i ELSE i + 1
  BY <1>1, <1>2, <1>4
<1>6. UniqueIds(cs)
  BY <1>4, <1>5 DEF UniqueIds, TypeOK
<1>7. contents' \in [Ids(cells') -> Source] /\ EditorShowsSource'
  <2>1. \A i \in DOMAIN cs :
          \E j \in DOMAIN cells : /\ cs[i].id = cells[j].id
                                  /\ cs[i].source = cells[j].source
    BY <1>5
  <2> QED
    BY <1>2, <1>3, <1>6, <2>1, NotebookSet
<1>8. TypeOK'
  <2>1. \A i \in DOMAIN cs : /\ cs[i].id < nextId
                             /\ cs[i].out \in 0..Len(arrays)
    BY <1>5 DEF TypeOK
  <2>2. copiedCell' \in Cell \cup {NoCell}
    BY CellOf DEF Holders, TypeOK
  <2> QED
    BY <1>2, <1>3, <1>6, <1>7, <2>1, <2>2 DEF TypeOK, UniqueIds
<1>9. AuxInv' /\ KeepInv'
  BY DEF AuxInv, KeepInv
<1>10. TraceInv'
  <2>1. nextId' \in Nat /\ nextId' >= nextId /\ nextId' = nextId
    BY DEF AuxInv
  <2>2. \A i \in DOMAIN cs :
          \E j \in DOMAIN cells : /\ cs[i].id = cells[j].id
                                  /\ cs[i].out \in {0, cells[j].out}
    BY <1>5
  <2>3. \A id \in nextId..nextId' - 1 : id \in lineage'[id]
    BY <2>1
  <2> QED
    BY <1>2, <1>3, <2>1, <2>2, <2>3, TraceStep
<1>11. FocusInv'
  <2>1. cs = <<>> => Len(cs) = 0
    OBVIOUS
  <2>2. ASSUME NEW n \in Nat, NEW k \in 0..n - 1, n - 1 = 0
        PROVE  k = 0
    BY <2>2
  <2> QED
    BY <1>1, <1>2, <1>3, <2>1, <2>2 DEF FocusInv
<1> QED
  BY <1>7, <1>8, <1>9, <1>10, <1>11

\* An output comes for a cell that was run.
LEMMA OutputPreserves ==
  ASSUME IInv, NEW id \in runs, KernelOutput(id)
  PROVE  IInv'
<1> USE DEF IInv, fileVars
<1> DEFINE k == CHOOSE i \in DOMAIN cells : cells[i].id = id
           out == cells[k].out
<1>1. k \in DOMAIN cells /\ cells[k].id = id
  <2>1. \E i \in DOMAIN cells : cells[i].id = id
    BY DEF KernelOutput, Ids
  <2> QED
    BY <2>1
<1>2. IF out = 0
        THEN /\ arrays' = Append(arrays, {id})
             /\ cells' = [cells EXCEPT ![k].out = Len(arrays) + 1]
        ELSE /\ arrays' = [arrays EXCEPT ![out] = @ \cup {id}]
             /\ UNCHANGED cells
  BY DEF KernelOutput
<1>3. /\ UNCHANGED <<contents, focusedIndex, copiedCell, nextId, runs, lossy,
                     lineage, load, disk, puts>>
      /\ cells \in Seq(Cell) /\ DOMAIN cells = 1..Len(cells)
      /\ Len(cells) \in Nat /\ nextId \in Nat
      /\ Len(arrays) \in Nat /\ DOMAIN arrays = 1..Len(arrays)
  BY DEF KernelOutput, TypeOK, AuxInv
<1> HIDE DEF k
<1>4. /\ \A i \in DOMAIN cells : cells[i].id < nextId /\ cells[i].out \in Nat
      /\ \A i \in DOMAIN cells : cells[i].out \in 0..Len(arrays)
      /\ \A i, j \in DOMAIN cells : cells[i].id = cells[j].id => i = j
  BY CellOf DEF TypeOK
<1>5. id \in Nat /\ id \in 0..nextId - 1 /\ id \in lineage[id]
  BY DEF TypeOK, TraceInv
<1>6. /\ arrays' \in Seq(SUBSET Nat) /\ Len(arrays') \in Nat
      /\ out = 0 => Len(arrays') = Len(arrays) + 1
      /\ out # 0 => Len(arrays') = Len(arrays)
      /\ \A o \in 1..Len(arrays) :
           arrays'[o] = IF o = out THEN arrays[o] \cup {id} ELSE arrays[o]
      /\ out = 0 => arrays'[Len(arrays) + 1] = {id}
  <2>1. CASE out = 0
    <3>1. /\ arrays \in Seq(SUBSET Nat) /\ {id} \in SUBSET Nat
          /\ arrays' = Append(arrays, {id})
      BY <1>2, <1>5, <2>1 DEF AuxInv
    <3> HIDE DEF out
    <3>2. /\ arrays' \in Seq(SUBSET Nat) /\ Len(arrays') = Len(arrays) + 1
          /\ \A o \in 1..Len(arrays) : arrays'[o] = arrays[o]
          /\ arrays'[Len(arrays) + 1] = {id}
      BY <3>1
    <3> QED
      BY <1>3, <2>1, <3>2
  <2>2. CASE out # 0
    <3>1. out \in DOMAIN arrays
      BY <1>1, <1>3, <1>4, <2>2
    <3>2. arrays \in Seq(SUBSET Nat) /\ arrays[out] \cup {id} \in SUBSET Nat
      BY <1>5, <3>1 DEF AuxInv
    <3>3. arrays' = [arrays EXCEPT ![out] = arrays[out] \cup {id}]
      BY <1>2, <2>2
    <3> HIDE DEF out
    <3>4. LET ds == [arrays EXCEPT ![out] = arrays[out] \cup {id}] IN
            /\ ds \in Seq(SUBSET Nat) /\ Len(ds) = Len(arrays)
            /\ ds[out] = arrays[out] \cup {id}
            /\ \A o \in DOMAIN arrays : o # out => ds[o] = arrays[o]
      BY <3>1, <3>2, ReplacedCell
    <3> QED
      BY <1>3, <2>2, <3>3, <3>4
  <2> QED
    BY <2>1, <2>2
<1>7. /\ cells' \in Seq(Cell) /\ Len(cells') = Len(cells)
      /\ DOMAIN cells' = DOMAIN cells
      /\ \A i \in DOMAIN cells : /\ cells'[i].id = cells[i].id
                                 /\ cells'[i].source = cells[i].source
                                 /\ cells'[i].type = cells[i].type
                                 /\ i # k => cells'[i] = cells[i]
      /\ cells'[k].out = IF out = 0 THEN Len(arrays) + 1 ELSE out
  <2>1. CASE out = 0
    <3> DEFINE c == [cells[k] EXCEPT !.out = Len(arrays) + 1]
    <3>1. /\ c \in Cell /\ c.out = Len(arrays) + 1 /\ c.id = cells[k].id
          /\ c.source = cells[k].source /\ c.type = cells[k].type
      <4>1. cells[k] \in Cell /\ Len(arrays) + 1 \in Nat
        BY <1>1, <1>3, CellOf
      <4> QED
        BY <4>1, OutField
    <3>2. cells' = [cells EXCEPT ![k] = c]
      BY <1>2, <2>1
    <3> HIDE DEF c
    <3>3. LET ds == [cells EXCEPT ![k] = c] IN
            /\ ds \in Seq(Cell) /\ Len(ds) = Len(cells)
            /\ DOMAIN ds = DOMAIN cells /\ ds[k] = c
            /\ \A i \in DOMAIN cells : i # k => ds[i] = cells[i]
      BY <1>1, <1>3, <3>1, ReplacedCell
    <3> QED
      BY <1>1, <2>1, <3>1, <3>2, <3>3
  <2>2. CASE out # 0
    BY <1>2, <1>3, <2>2
  <2> QED
    BY <2>1, <2>2
<1>8. Ids(cells') = Ids(cells)
  BY <1>7 DEF Ids
<1>9. EditorShowsSource'
  BY <1>3, <1>7 DEF EditorShowsSource
<1>10. TypeOK'
  <2>1. \A i \in DOMAIN cells' : /\ cells'[i].id < nextId
                                 /\ cells'[i].out \in 0..Len(arrays')
    <3> SUFFICES ASSUME NEW i \in DOMAIN cells
        PROVE  cells'[i].id < nextId /\ cells'[i].out \in 0..Len(arrays')
      BY <1>7
    <3>1. CASE i = k
      BY <1>1, <1>3, <1>4, <1>6, <1>7, <3>1
    <3>2. CASE i # k
      BY <1>3, <1>4, <1>6, <1>7, <3>2
    <3> QED
      BY <3>1, <3>2
  <2>2. \A i, j \in DOMAIN cells' : cells'[i].id = cells'[j].id => i = j
    BY <1>4, <1>7
  <2>3. contents' \in [Ids(cells') -> Source]
    BY <1>3, <1>8 DEF TypeOK
  <2> QED
    BY <1>3, <1>7, <2>1, <2>2, <2>3 DEF TypeOK
<1>11. AuxInv' /\ FocusInv'
  <2>1. cells' = <<>> => cells = <<>>
    BY <1>3, <1>7
  <2> QED
    BY <1>3, <1>6, <2>1 DEF AuxInv, FocusInv
<1>12. KeepInv'
  <2>1. Keeps(cells) => Keeps(cells')
    BY <1>7, KeepsSame
  <2>2. UNCHANGED <<lossy, load, disk, puts>>
    BY <1>3
  <2> QED
    BY <2>1, <2>2 DEF KeepInv, Keeps
\* A holder of before keeps what is asked of it.
<1>13. ASSUME NEW c \in Holders, c = cells[k] => out # 0
       PROVE  Traced(c)'
  <2>1. Traced(c) /\ c.out \in Nat
    <3>1. c \in Cell
      BY CellOf DEF Holders, TypeOK
    <3> QED
      BY <3>1 DEF TraceInv, Cell
  <2>2. c.id < nextId /\ c.out \in 0..Len(arrays')
    BY <1>3, <1>6, <2>1 DEF Traced
  <2>3. ASSUME c.out # 0
        PROVE  arrays'[c.out] \subseteq lineage[c.id]
    <3>1. c.out \in 1..Len(arrays) /\ arrays[c.out] \subseteq lineage[c.id]
      BY <1>3, <2>1, <2>3 DEF Traced
    <3>2. CASE c.out = out
      <4>1. id \in lineage[c.id]
        BY <1>1, <2>1, <2>3, <3>2 DEF Traced
      <4> QED
        BY <1>6, <3>1, <3>2, <4>1
    <3>3. CASE c.out # out
      BY <1>6, <3>1, <3>3
    <3> QED
      BY <3>2, <3>3
  <2>4. ASSUME c.out # 0, NEW i \in DOMAIN cells, cells'[i].out = c.out,
               cells'[i].id \in runs
        PROVE  cells'[i].id \in lineage[c.id]
    <3>1. cells[i].out = c.out
      <4>1. c.out # Len(arrays) + 1
        BY <1>3, <2>1 DEF Traced
      <4>2. CASE i = k
        BY <1>7, <2>4, <4>1, <4>2
      <4>3. CASE i # k
        BY <1>7, <2>4, <4>3
      <4> QED
        BY <4>2, <4>3
    <3> QED
      BY <1>7, <2>1, <2>4, <3>1 DEF Traced
  <2> QED
    BY <1>3, <1>7, <2>2, <2>3, <2>4 DEF Traced
\* The cell that gets its first output has an array nobody shares.
<1>14. ASSUME out = 0, NEW d, d = cells'[k]
       PROVE  Traced(d)'
  <2>1. d.id = id /\ d.out = Len(arrays) + 1
    BY <1>1, <1>7, <1>14
  <2>2. \A i \in DOMAIN cells : cells'[i].out = Len(arrays) + 1 => i = k
    <3>1. \A i \in DOMAIN cells : cells[i].out # Len(arrays) + 1
      BY <1>3, <1>4
    <3> QED
      BY <1>7, <3>1
  <2>3. Len(arrays) + 1 \in 0..Len(arrays') /\ id < nextId
    BY <1>3, <1>5, <1>6, <1>14
  <2> QED
    BY <1>3, <1>5, <1>6, <1>7, <1>14, <2>1, <2>2, <2>3 DEF Traced
<1>15. TraceInv'
  <2> SUFFICES ASSUME NEW c \in Holders'
      PROVE  Traced(c)'
    BY <1>3 DEF TraceInv
  <2>1. CASE c = copiedCell /\ copiedCell # NoCell
    <3>1. c \in Holders
      BY <2>1 DEF Holders
    <3>2. CASE c = cells[k] /\ out = 0
      <4>1. c.id \in 0..nextId - 1 /\ c.out = 0
        BY <1>1, <1>5, <3>2
      <4> QED
        BY <1>3, <1>6, <4>1 DEF Traced
    <3> QED
      BY <1>13, <3>1, <3>2
  <2>2. CASE \E i \in DOMAIN cells : c = cells'[i]
    <3>1. PICK i \in DOMAIN cells : c = cells'[i]
      BY <2>2
    <3>2. CASE i = k /\ out = 0
      BY <1>14, <3>1, <3>2
    <3>3. CASE i # k
      <4>1. cells'[i] = cells[i] /\ cells[i] \in Holders /\ cells[i] # cells[k]
        BY <1>1, <1>4, <1>7, <3>3 DEF Holders
      <4> QED
        BY <1>13, <3>1, <4>1
    <3>4. CASE i = k /\ out # 0
      <4>1. cells'[i] = cells[i] /\ cells[i] \in Holders
        BY <1>2, <3>4 DEF Holders
      <4> QED
        BY <1>13, <3>1, <3>4, <4>1
    <3> QED
      BY <3>2, <3>3, <3>4
  <2> QED
    BY <1>3, <1>7, <2>1, <2>2 DEF Holders
<1> QED
  BY <1>9, <1>10, <1>11, <1>12, <1>15

\* What FetchFileData makes cells of.
LEMMA LoadedCells ==
  ASSUME TypeOK
  PROVE  /\ Loaded \in Seq(DiskCell) /\ Len(Loaded) \in Nat /\ Len(Loaded) >= 1
         /\ DOMAIN Loaded = 1..Len(Loaded)
         /\ \A i \in DOMAIN Loaded : /\ Loaded[i].source \in Source
                                     /\ Loaded[i].type \in CellType
<1>1. disk \in Seq(DiskCell)
  BY DEF TypeOK, DiskCell
<1>2. Loaded \in Seq(DiskCell) /\ Len(Loaded) >= 1
  <2>1. CASE disk = <<>>
    <3>1. Loaded = <<[source |-> Blank, type |-> "code"]>>
      BY <2>1 DEF Loaded
    <3>2. [source |-> Blank, type |-> "code"] \in DiskCell
      BY DEF DiskCell, Source, CellType
    <3> QED
      BY <3>1, <3>2
  <2>2. CASE disk # <<>>
    <3>1. Loaded = disk
      BY <2>2 DEF Loaded
    <3> QED
      BY <1>1, <2>2, <3>1
  <2> QED
    BY <2>1, <2>2
<1>3. Len(Loaded) \in Nat /\ DOMAIN Loaded = 1..Len(Loaded)
  BY <1>2
<1>4. \A i \in DOMAIN Loaded : Loaded[i] \in DiskCell
  BY <1>2
<1> QED
  BY <1>2, <1>3, <1>4 DEF DiskCell

\* The file is loaded.
LEMMA FetchPreserves ==
  ASSUME IInv, FetchAnswered
  PROVE  IInv'
<1> DEFINE n == Len(Loaded)
           cs == [i \in DOMAIN Loaded |->
                    NewCell(nextId + i - 1, Loaded[i].source,
                            Loaded[i].type, 0)]
<1> USE DEF IInv, kernelVars
<1>1. /\ Loaded \in Seq(DiskCell) /\ n \in Nat /\ n >= 1
      /\ DOMAIN Loaded = 1..n
      /\ \A i \in DOMAIN Loaded : /\ Loaded[i].source \in Source
                                  /\ Loaded[i].type \in CellType
  BY LoadedCells
<1>2. /\ SetNotebook(cs) /\ cells' = cs
      /\ nextId' = nextId + n /\ nextId \in Nat
      /\ lineage' = [id \in DOMAIN lineage \cup nextId..(nextId + n - 1) |->
                       IF id \in nextId..(nextId + n - 1) THEN {id}
                       ELSE lineage[id]]
      /\ load' = "done"
      /\ UNCHANGED <<focusedIndex, copiedCell, lossy, arrays, runs, disk, puts>>
  BY DEF FetchAnswered, SetNotebook, AuxInv
<1>3. ASSUME NEW i \in 1..n
      PROVE  /\ cs[i] \in Cell /\ cs[i].id = nextId + i - 1
             /\ cs[i].source = Loaded[i].source /\ cs[i].type = Loaded[i].type
             /\ cs[i].out = 0
  <2>1. cs[i] = NewCell(nextId + i - 1, Loaded[i].source, Loaded[i].type, 0)
    BY <1>1
  <2>2. nextId + i - 1 \in Nat /\ 0 \in Nat
    BY <1>1, <1>2
  <2>3. Loaded[i].source \in Source /\ Loaded[i].type \in CellType
    BY <1>1
  <2> QED
    BY <2>1, <2>2, <2>3, NewCellFields
<1>4. cs \in Seq(Cell) /\ Len(cs) = n /\ DOMAIN cs = 1..n
  <2>1. DOMAIN cs = 1..n
    BY <1>1
  <2> QED
    BY <1>1, <1>3, <2>1
<1> HIDE DEF cs
<1>5. UniqueIds(cs)
  BY <1>2, <1>3, <1>4 DEF UniqueIds
<1>6. contents' \in [Ids(cells') -> Source] /\ EditorShowsSource'
  <2>1. \A i \in DOMAIN cs : cs[i].id >= nextId
    BY <1>2, <1>3, <1>4
  <2> QED
    BY <1>2, <1>4, <1>5, <2>1, NotebookSet
<1>7. \A i \in DOMAIN cs : cs[i].id \in nextId..nextId' - 1
  BY <1>1, <1>2, <1>3, <1>4
<1>8. TypeOK'
  <2>1. \A i \in DOMAIN cs : cs[i].id < nextId' /\ cs[i].out \in 0..Len(arrays)
    <3>1. 0 \in 0..Len(arrays)
      BY DEF AuxInv
    <3> QED
      BY <1>2, <1>1, <1>3, <1>4, <3>1
  <2>2. runs' \subseteq 0..nextId' - 1
    BY <1>1, <1>2 DEF TypeOK
  <2>3. DOMAIN lineage' = 0..nextId' - 1
    BY <1>1, <1>2 DEF TypeOK
  <2> QED
    BY <1>2, <1>4, <1>5, <1>6, <2>1, <2>2, <2>3 DEF TypeOK, UniqueIds
<1>9. AuxInv'
  BY <1>1, <1>2 DEF AuxInv
<1>10. TraceInv'
  <2>1. /\ \A id \in 0..nextId - 1 : lineage'[id] = lineage[id]
        /\ \A id \in nextId..nextId' - 1 : id \in lineage'[id]
    BY <1>1, <1>2 DEF TypeOK
  <2>2. \A i \in DOMAIN cs : cs[i].out = 0
    BY <1>3, <1>4
  <2>3. copiedCell' \in Holders \cup {NoCell}
    BY <1>2 DEF Holders
  <2>4. nextId' \in Nat /\ nextId' >= nextId /\ arrays' = arrays
    BY <1>1, <1>2
  <2> QED
    BY <1>2, <1>4, <1>7, <2>1, <2>2, <2>3, <2>4, TraceStep
<1>11. KeepInv'
  <2>1. Keeps(disk) => Keeps(Loaded)
    <3>1. CASE disk # <<>>
      BY <3>1 DEF Loaded
    <3>2. CASE disk = <<>>
      <4> SUFFICES ASSUME Keeps(disk) PROVE Keeps(Loaded)
        OBVIOUS
      <4> DEFINE f == [i \in {} |-> i]
      <4>1. DOMAIN disk = {}
        BY <3>2
      <4>2. f \in [DOMAIN disk -> DOMAIN Loaded]
        BY <4>1
      <4> HIDE DEF f
      <4> QED
        BY <4>1, <4>2, KeepsOn
    <3> QED
      BY <3>1, <3>2
  <2>2. Keeps(Loaded) => Keeps(cs)
    BY <1>1, <1>3, <1>4, KeepsSame
  <2> QED
    BY <1>2, <2>1, <2>2 DEF KeepInv, Keeps
<1>12. FocusInv'
  <2>1. cs # <<>>
    BY <1>1, <1>4
  <2> QED
    BY <1>2, <2>1 DEF FocusInv
<1> QED
  BY <1>6, <1>8, <1>9, <1>10, <1>11, <1>12

\* The steps that touch neither the notebook nor its kernel: a failed fetch,
\* and the saves.
LEMMA FilePreserves ==
  ASSUME IInv, FetchFails \/ SaveNotebook
                 \/ \E i \in DOMAIN puts : SaveArrives(i) \/ SaveLost(i)
  PROVE  IInv'
<1> USE DEF IInv, kernelVars
<1>1. UNCHANGED <<cells, contents, focusedIndex, copiedCell, nextId, lineage,
                  arrays, runs>>
  BY DEF FetchFails, SaveNotebook, SaveArrives, SaveLost, PutEnds
<1>2. /\ disk' \in Seq(DiskCell) /\ puts' \in Seq(Seq(DiskCell)) /\ KeepInv'
  <2>1. CASE FetchFails
    <3>1. load' = "failed" /\ UNCHANGED <<disk, puts, lossy>>
      BY <2>1 DEF FetchFails
    <3>2. ~lossy => Keeps(disk) /\ \A i \in DOMAIN puts : Keeps(puts[i])
      BY DEF KeepInv
    <3>3. disk \in Seq(DiskCell) /\ puts \in Seq(Seq(DiskCell))
      BY DEF TypeOK, AuxInv, DiskCell
    <3>4. load' # "done"
      BY <3>1
    <3>5. KeepInv'
      BY <3>1, <3>2, <3>4 DEF KeepInv, Keeps
    <3> QED
      BY <3>1, <3>3, <3>5
  <2>2. CASE SaveNotebook
    <3>1. /\ puts' = Append(puts, Saved)
          /\ lossy' = (lossy \/ load # "done")
          /\ UNCHANGED <<load, disk>>
      BY <2>2 DEF SaveNotebook
    <3>2. /\ Saved \in Seq(DiskCell) /\ DOMAIN Saved = DOMAIN cells
          /\ \A i \in DOMAIN cells : /\ Saved[i].source = cells[i].source
                                     /\ Saved[i].type = cells[i].type
      <4>1. /\ Len(cells) \in Nat /\ DOMAIN cells = 1..Len(cells)
            /\ \A i \in DOMAIN cells : /\ cells[i].source \in Source
                                       /\ cells[i].type \in CellType
        BY CellOf DEF TypeOK
      <4>2. \A i \in DOMAIN cells :
              [source |-> cells[i].source, type |-> cells[i].type] \in DiskCell
        BY <4>1 DEF DiskCell
      <4> QED
        BY <4>1, <4>2 DEF Saved
    <3>3. Keeps(cells) => Keeps(Saved)
      BY <3>2, KeepsSame
    <3>4. /\ puts \in Seq(Seq(DiskCell)) /\ puts' \in Seq(Seq(DiskCell))
          /\ \A i \in DOMAIN puts' : \/ i \in DOMAIN puts /\ puts'[i] = puts[i]
                                     \/ puts'[i] = Saved
      BY <3>1, <3>2 DEF AuxInv
    <3>5. ~lossy' => /\ Keeps(disk) /\ Keeps(cells) /\ load = "done"
                     /\ \A i \in DOMAIN puts' : Keeps(puts'[i])
      BY <3>1, <3>3, <3>4 DEF KeepInv
    <3> QED
      BY <1>1, <3>1, <3>4, <3>5 DEF TypeOK, KeepInv, Keeps, DiskCell
  <2>3. ASSUME NEW i \in DOMAIN puts, SaveArrives(i) \/ SaveLost(i)
        PROVE  disk' \in Seq(DiskCell) /\ puts' \in Seq(Seq(DiskCell)) /\ KeepInv'
    <3>0. /\ puts' = [j \in 1..Len(puts) - 1 |-> IF j < i THEN puts[j]
                                                ELSE puts[j + 1]]
          /\ i \in 1..Len(puts) /\ Len(puts) \in Nat
      BY <2>3 DEF SaveArrives, SaveLost, PutEnds, AuxInv
    <3>1. puts' = Without(puts, i - 1)
      <4>1. \A j \in 1..Len(puts) - 1 : j < i <=> j <= i - 1
        BY <3>0
      <4> QED
        BY <3>0, <4>1 DEF Without
    <3>2. disk' \in {disk, puts[i]} /\ UNCHANGED <<load, lossy>>
      BY <2>3 DEF SaveArrives, SaveLost, PutEnds
    <3>3. /\ puts \in Seq(Seq(DiskCell)) /\ puts[i] \in Seq(DiskCell)
          /\ disk \in Seq(DiskCell) /\ i \in 1..Len(puts)
          /\ i - 1 \in 0..Len(puts) - 1 /\ Len(puts) \in Nat
      <4>1. puts \in Seq(Seq(DiskCell)) /\ disk \in Seq(DiskCell)
        BY DEF AuxInv, TypeOK, DiskCell
      <4> QED
        BY <3>0, <4>1
    <3>4. /\ puts' \in Seq(Seq(DiskCell))
          /\ Len(puts') = Len(puts) - 1
          /\ \A j \in 1..Len(puts) - 1 :
               puts'[j] = IF j <= i - 1 THEN puts[j] ELSE puts[j + 1]
      BY <3>1, <3>3, WithoutCell
    <3>5. \A j \in DOMAIN puts' : \E k \in DOMAIN puts : puts'[j] = puts[k]
      <4>1. /\ DOMAIN puts' = 1..Len(puts) - 1
            /\ DOMAIN puts = 1..Len(puts)
        BY <3>3, <3>4
      <4>2. \A j \in 1..Len(puts) - 1 : j \in 1..Len(puts) /\ j + 1 \in 1..Len(puts)
        BY <3>3
      <4> QED
        BY <3>4, <4>1, <4>2
    <3>6. ~lossy => /\ Keeps(disk') /\ (load = "done" => Keeps(cells))
                    /\ \A j \in DOMAIN puts' : Keeps(puts'[j])
      BY <3>2, <3>5 DEF KeepInv
    <3> QED
      BY <1>1, <3>2, <3>3, <3>4, <3>6 DEF KeepInv, Keeps
  <2> QED
    BY <2>1, <2>2, <2>3
<1>3. RunsEmptied(cells) /\ Variant(cells)
  BY <1>1, EmptiedVariant DEF RunsEmptied, TypeOK
<1>4. copiedCell' \in Holders \cup {NoCell} /\ focusedIndex' \in Nat
  BY <1>1 DEF Holders, TypeOK
<1> QED
  BY <1>1, <1>2, <1>3, <1>4, VariantPreserves

\* Where cells are inserted there is a place for them.
LEMMA Places ==
  ASSUME TypeOK
  PROVE  Above \in 0..Len(cells) /\ Below \in 0..Len(cells)
<1>1. Len(cells) \in Nat /\ focusedIndex \in Nat
  BY DEF TypeOK
<1> QED
  BY <1>1 DEF Above, Below, InBounds

\* Insertions with nothing run.
LEMMA PlainInsertPreserves ==
  ASSUME IInv, AddCellUp \/ AddCellDown \/ PasteCell
  PROVE  IInv'
<1> USE DEF kernelVars
<1>1. /\ TypeOK /\ Variant(cells) /\ Blank \in Source /\ "code" \in CellType
      /\ Above \in 0..Len(cells) /\ Below \in 0..Len(cells)
      /\ focusedIndex \in Nat /\ runs \subseteq 0..nextId - 1
  BY EmptiedVariant, Places DEF IInv, TypeOK, Source, CellType
<1>2. UNCHANGED <<focusedIndex, copiedCell, arrays, runs, lossy, fileVars>>
  BY DEF AddCellUp, AddCellDown, PasteCell
<1>3. RunsEmptied(cells)
  BY <1>1, <1>2 DEF RunsEmptied
<1>4. CASE AddCellUp
  <2>1. InsertFresh(cells, Above, Blank, "code", 0, {})
    BY <1>4 DEF AddCellUp
  <2> QED
    BY <1>1, <1>2, <1>3, <2>1, InsertPreserves
<1>5. CASE AddCellDown
  <2>1. InsertFresh(cells, Below, Blank, "code", 0, {})
    BY <1>5 DEF AddCellDown
  <2> QED
    BY <1>1, <1>2, <1>3, <2>1, InsertPreserves
<1>6. CASE PasteCell
  <2>1. /\ copiedCell # NoCell
        /\ InsertFresh(cells, Below, copiedCell.source, copiedCell.type,
                       copiedCell.out, lineage[copiedCell.id])
    BY <1>6 DEF PasteCell
  <2>2. /\ copiedCell.source \in Source /\ copiedCell.type \in CellType
        /\ copiedCell.out \in Nat
    <3>1. copiedCell \in Cell
      BY <1>1, <2>1 DEF TypeOK
    <3> QED
      BY <3>1 DEF Cell
  <2> QED
    BY <1>1, <1>2, <1>3, <2>1, <2>2, InsertPreserves
<1> QED
  BY <1>4, <1>5, <1>6

\* Running a cell, by its button or by Shift-Enter.
LEMMA RunPreserves ==
  ASSUME IInv, ~Crashed, SubmitCell \/ HandleCmdEnter
  PROVE  IInv'
<1> DEFINE k == focusedIndex + 1
<1>0. TypeOK /\ AuxInv /\ KeepInv
  BY DEF IInv
<1>1. /\ cells # <<>> /\ k \in DOMAIN cells /\ Focused = cells[k]
      /\ cells[k].id \in 0..nextId - 1
      /\ runs \subseteq 0..nextId - 1 /\ focusedIndex \in Nat /\ k \in Nat
      /\ \A i, j \in DOMAIN cells : cells[i].id = cells[j].id => i = j
  <2>1. cells # <<>> /\ InBounds(cells, focusedIndex)
    BY DEF SubmitCell, HandleCmdEnter, Crashed
  <2>2. k \in DOMAIN cells /\ focusedIndex \in Nat /\ k \in Nat
    BY <1>0, <2>1 DEF InBounds, TypeOK
  <2>3. cells[k].id \in Nat /\ cells[k].id < nextId /\ nextId \in Nat
    BY <1>0, <2>2, CellOf DEF TypeOK, AuxInv
  <2>4. cells[k].id \in 0..nextId - 1
    BY <2>3
  <2> QED
    BY <1>0, <2>1, <2>2, <2>4 DEF TypeOK, Focused
<1> HIDE DEF k
<1>2. Variant(cells) /\ Variant(Emptied(cells, k)) /\ Emptied(cells, k)[k].out = 0
  BY <1>0, <1>1, EmptiedVariant
<1>3. Send(cells[k].id) => RunsEmptied(Emptied(cells, k)) /\ arrays' = arrays
  <2> SUFFICES ASSUME Send(cells[k].id)
      PROVE  RunsEmptied(Emptied(cells, k)) /\ arrays' = arrays
    OBVIOUS
  <2>1. /\ runs' = runs \cup {cells[k].id} \/ runs' = runs
        /\ arrays' = arrays
    BY DEF Send
  <2>2. /\ DOMAIN Emptied(cells, k) = DOMAIN cells
        /\ \A i \in DOMAIN cells : Emptied(cells, k)[i].id = cells[i].id
    BY <1>0, <1>2 DEF Variant, TypeOK
  <2> QED
    BY <1>1, <1>2, <2>1, <2>2 DEF RunsEmptied
<1>4. copiedCell \in Holders \cup {NoCell}
  BY <1>0 DEF Holders, TypeOK
<1>5. disk \in Seq(DiskCell) /\ puts \in Seq(Seq(DiskCell))
  BY <1>0 DEF TypeOK, AuxInv, DiskCell
\* Nothing is inserted.
<1>6. ASSUME NEW cs \in {cells, Emptied(cells, k)}, RunsEmptied(cs), cells' = cs,
             contents' = contents \/ SetNotebook(cs), arrays' = arrays,
             UNCHANGED <<nextId, lineage, copiedCell, lossy, fileVars>>,
             focusedIndex' \in Nat
      PROVE  IInv'
  <2>1. Variant(cs)
    BY <1>2, <1>6
  <2>2. cells' # <<>>
    <3>1. Len(cs) = Len(cells) /\ cells # <<>> /\ cells \in Seq(Cell)
      BY <1>0, <1>1, <2>1 DEF Variant, TypeOK
    <3> QED
      BY <1>6, <3>1
  <2>3. KeepInv'
    BY <1>0, <1>6, <2>1, KeepVariant
  <2> QED
    BY <1>4, <1>5, <1>6, <2>1, <2>2, <2>3, VariantPreserves DEF fileVars
<1>7. CASE SubmitCell
  <2>1. /\ Send(cells[k].id) /\ cells' = Emptied(cells, k)
        /\ UNCHANGED <<contents, focusedIndex, copiedCell, nextId, lossy,
                       lineage, fileVars>>
    BY <1>1, <1>7 DEF SubmitCell, k
  <2> QED
    BY <1>1, <1>3, <1>6, <2>1
<1>8. CASE HandleCmdEnter
  <2> DEFINE run == Focused.type = "code"
             cs == IF run THEN Emptied(cells, k) ELSE cells
  <2>1. /\ IF run THEN Send(cells[k].id) ELSE UNCHANGED kernelVars
        /\ \/ InsertFresh(cs, Below, Blank, "code", 0, {})
           \/ SetNotebook(cs) /\ UNCHANGED <<nextId, lineage>>
        /\ focusedIndex' = focusedIndex + 1
        /\ UNCHANGED <<copiedCell, lossy, fileVars>>
    BY <1>1, <1>8 DEF HandleCmdEnter, k
  <2>2. RunsEmptied(cs) /\ arrays' = arrays
    <3>1. CASE run
      BY <1>3, <2>1, <3>1
    <3>2. CASE ~run
      BY <1>1, <2>1, <3>2 DEF RunsEmptied, kernelVars
    <3> QED
      BY <3>1, <3>2
  <2>3. cs \in {cells, Emptied(cells, k)} /\ Variant(cs)
    BY <1>2
  <2>4. focusedIndex' \in Nat
    BY <1>1, <2>1
  <2> HIDE DEF cs, run
  <2>5. CASE InsertFresh(cs, Below, Blank, "code", 0, {})
    <3>1. Below \in 0..Len(cs) /\ Blank \in Source /\ "code" \in CellType
      BY <1>0, <2>3, Places DEF Variant, Source, CellType
    <3> QED
      BY <2>1, <2>2, <2>3, <2>4, <2>5, <3>1, InsertPreserves
  <2>6. CASE SetNotebook(cs) /\ UNCHANGED <<nextId, lineage>>
    <3>1. cells' = cs
      BY <2>6 DEF SetNotebook
    <3> QED
      BY <1>6, <2>1, <2>2, <2>3, <2>4, <2>6, <3>1
  <2> QED
    BY <2>1, <2>5, <2>6
<1> QED
  BY <1>7, <1>8

\* Typing, and changing the type of a cell.
LEMMA ChangePreserves ==
  ASSUME IInv, ~Crashed, OnChange \/ \E type \in CellType : ChangeCellType(type)
  PROVE  IInv'
<1> DEFINE k == focusedIndex + 1
<1>1. cells \in Seq(Cell) /\ k \in DOMAIN cells
  <2>1. InBounds(cells, focusedIndex)
    BY DEF OnChange, ChangeCellType, Crashed
  <2> QED
    BY <2>1 DEF InBounds, IInv, TypeOK
<1>2. cells[k] \in Cell
  BY <1>1
<1>3. CASE OnChange
  <2> DEFINE c == [cells[k] EXCEPT !.source = Typed]
  <2>1. /\ c \in Cell /\ c.source = Typed /\ c.id = cells[k].id
        /\ c.out = cells[k].out
    <3>1. Typed \in Source
      BY DEF Source
    <3> QED
      BY <1>2, <3>1, SourceField
  <2>2. /\ cells' = [cells EXCEPT ![k] = c]
        /\ contents' = [contents EXCEPT ![cells[k].id] = Typed]
        /\ lossy' = TRUE
        /\ UNCHANGED <<focusedIndex, copiedCell, nextId, lineage, kernelVars,
                       fileVars>>
    BY <1>3 DEF OnChange, Focused
  <2> HIDE DEF c, k
  <2> QED
    BY <1>1, <2>1, <2>2, EditPreserves
<1>4. ASSUME NEW type \in CellType, ChangeCellType(type)
      PROVE  IInv'
  <2> DEFINE c == [cells[k] EXCEPT !.type = type]
  <2>1. /\ c \in Cell /\ c.source = cells[k].source /\ c.id = cells[k].id
        /\ c.out = cells[k].out
    BY <1>2, TypeField
  <2>2. /\ cells' = [cells EXCEPT ![k] = c]
        /\ contents' = contents
        /\ lossy' = TRUE
        /\ UNCHANGED <<focusedIndex, copiedCell, nextId, lineage, kernelVars,
                       fileVars>>
    BY <1>4 DEF ChangeCellType
  <2> HIDE DEF c, k
  <2> QED
    BY <1>1, <2>1, <2>2, EditPreserves
<1> QED
  BY <1>3, <1>4

\* What only moves the focus or copies, or finds no cell to remove.
LEMMA StandPreserves ==
  ASSUME IInv, UNCHANGED <<cells, contents, nextId, lossy, lineage, kernelVars,
                           fileVars>>,
         focusedIndex' \in Nat, cells = <<>> => focusedIndex' = focusedIndex,
         copiedCell' = copiedCell \/ CopyFocused
  PROVE  IInv'
<1> USE DEF kernelVars
<1>1. TypeOK /\ AuxInv /\ KeepInv
  BY DEF IInv
<1>2. RunsEmptied(cells) /\ Variant(cells)
  BY <1>1, EmptiedVariant DEF RunsEmptied, TypeOK
<1>3. copiedCell' \in Holders \cup {NoCell}
  <2>1. CASE copiedCell' = copiedCell
    BY <2>1 DEF Holders
  <2>2. CASE CopyFocused
    <3>1. InBounds(cells, focusedIndex) => focusedIndex + 1 \in DOMAIN cells
      BY <1>1 DEF InBounds, TypeOK
    <3> QED
      BY <2>2, <3>1 DEF CopyFocused, Focused, Holders
  <2> QED
    BY <2>1, <2>2
<1>4. disk' \in Seq(DiskCell) /\ puts' \in Seq(Seq(DiskCell))
  BY <1>1 DEF TypeOK, AuxInv, DiskCell, fileVars
<1>5. KeepInv'
  BY <1>1, <1>2, KeepVariant
<1> QED
  BY <1>2, <1>3, <1>4, <1>5, VariantPreserves

\* A step of the user.
LEMMA UserPreserves ==
  ASSUME IInv, ~Crashed, UserStep
  PROVE  IInv'
<1>1. CASE AddCellUp \/ AddCellDown \/ PasteCell
  BY <1>1, PlainInsertPreserves
<1>2. CASE SubmitCell \/ HandleCmdEnter
  BY <1>2, RunPreserves
<1>3. CASE OnChange \/ \E type \in CellType : ChangeCellType(type)
  BY <1>3, ChangePreserves
<1>4. CASE SaveNotebook
  BY <1>4, FilePreserves
<1>5. CASE DeleteCell \/ CutCell
  <2>1. /\ RemoveFocused
        /\ copiedCell' = copiedCell \/ CopyFocused
    BY <1>5 DEF DeleteCell, CutCell
  <2>2. focusedIndex' = focusedIndex /\ focusedIndex \in Nat
    BY <2>1 DEF RemoveFocused, IInv, TypeOK
  <2>3. CASE InBounds(cells, focusedIndex)
    <3>1. copiedCell' \in Holders \cup {NoCell}
      <4>1. focusedIndex + 1 \in DOMAIN cells
        BY <2>3 DEF InBounds, IInv, TypeOK
      <4> QED
        BY <2>1, <4>1 DEF CopyFocused, Focused, Holders
    <3>2. /\ SetNotebook(Without(cells, focusedIndex)) /\ lossy' = TRUE
          /\ UNCHANGED <<focusedIndex, nextId, lineage, kernelVars, fileVars>>
      BY <2>1, <2>3 DEF RemoveFocused
    <3> QED
      BY <2>3, <3>1, <3>2, RemovePreserves
  <2>4. CASE ~InBounds(cells, focusedIndex)
    <3>1. UNCHANGED <<cells, contents, nextId, lossy, lineage, kernelVars,
                      fileVars>>
      BY <2>1, <2>4 DEF RemoveFocused
    <3> QED
      BY <2>1, <2>2, <3>1, StandPreserves
  <2> QED
    BY <2>3, <2>4
<1>6. CASE CopyCell
  <2>1. /\ UNCHANGED <<cells, contents, nextId, lossy, lineage, kernelVars,
                       fileVars>>
        /\ focusedIndex' = focusedIndex /\ CopyFocused
    BY <1>6 DEF CopyCell
  <2>2. focusedIndex' \in Nat
    BY <2>1 DEF IInv, TypeOK
  <2> QED
    BY <2>1, <2>2, StandPreserves
<1>7. ASSUME NEW index \in Nat, SetFocus(index), cells # <<>>
      PROVE  IInv'
  <2>1. /\ UNCHANGED <<cells, contents, nextId, lossy, lineage, kernelVars,
                       fileVars>>
        /\ focusedIndex' = index /\ copiedCell' = copiedCell
    BY <1>7 DEF SetFocus
  <2> QED
    BY <1>7, <2>1, StandPreserves
<1>8. ASSUME NEW i \in DOMAIN cells, OnFocus(i)
      PROVE  IInv'
  <2>1. i - 1 \in Nat /\ cells # <<>>
    BY DEF IInv, TypeOK
  <2> QED
    BY <1>7, <1>8, <2>1 DEF OnFocus
<1>9. CASE GoToPreviousCell
  <2>1. (IF focusedIndex > 0 THEN focusedIndex - 1 ELSE 0) \in Nat
    BY DEF IInv, TypeOK
  <2> QED
    BY <1>7, <1>9, <2>1 DEF GoToPreviousCell
<1>10. CASE GoToNextCell
  <2>1. cells # <<>> => Len(cells) - 1 \in Nat /\ focusedIndex + 1 \in Nat
    BY DEF IInv, TypeOK
  <2> QED
    BY <1>7, <1>10, <2>1 DEF GoToNextCell
<1> QED
  BY <1>1, <1>2, <1>3, <1>4, <1>5, <1>6, <1>8, <1>9, <1>10 DEF UserStep

-----------------------------------------------------------------------------
(* The focus *)

\* A step of the user on an editor that works leaves the focus on a cell or
\* makes the notebook shorter.
LEMMA UserKeepsFocus ==
  ASSUME IInv, IInv', ~Crashed, UserStep
  PROVE  Crashed' => Len(cells') < Len(cells)
<1>1. /\ cells \in Seq(Cell) /\ Len(cells) \in Nat /\ focusedIndex \in Nat
      /\ cells' \in Seq(Cell) /\ Len(cells') \in Nat
      /\ cells = <<>> => focusedIndex = 0
      /\ cells = <<>> <=> Len(cells) = 0
      /\ Len(cells) > 0 => focusedIndex < Len(cells)
  <2>1. TypeOK /\ TypeOK' /\ FocusInv
    BY DEF IInv
  <2>2. Len(cells) > 0 => focusedIndex \in 0..Len(cells) - 1
    BY DEF Crashed, InBounds
  <2> QED
    BY <2>1, <2>2 DEF TypeOK, FocusInv
<1>2. (focusedIndex' \in Nat /\ focusedIndex' < Len(cells')) => ~Crashed'
  BY <1>1 DEF Crashed, InBounds
<1>3. ASSUME NEW cs, NEW index, NEW source, NEW type, NEW out, NEW from,
             cs \in Seq(Cell), Len(cs) = Len(cells),
             InsertFresh(cs, index, source, type, out, from)
      PROVE  Len(cells') = Len(cells) + 1
  <2>1. cells' = Inserted(cs, index, NewCell(nextId, source, type, out))
    BY <1>3 DEF InsertFresh, SetNotebook
  <2>2. DOMAIN cells' = 1..Len(cells) + 1
    BY <1>3, <2>1 DEF Inserted
  <2> QED
    BY <1>1, <2>2
<1>4. CASE AddCellUp \/ AddCellDown \/ PasteCell
  <2>1. focusedIndex' = focusedIndex /\ Len(cells') = Len(cells) + 1
    BY <1>1, <1>3, <1>4 DEF AddCellUp, AddCellDown, PasteCell
  <2> QED
    BY <1>1, <1>2, <2>1
<1>5. CASE HandleCmdEnter
  <2>0. cells # <<>> /\ focusedIndex' = focusedIndex + 1
    BY <1>5 DEF HandleCmdEnter
  <2>1. focusedIndex + 1 \in DOMAIN cells
    BY <1>1, <2>0
  <2>2. /\ Emptied(cells, focusedIndex + 1) \in Seq(Cell)
        /\ Len(Emptied(cells, focusedIndex + 1)) = Len(cells)
    BY <1>1, <2>1, EmptiedVariant DEF Variant, IInv
  <2>3. CASE Len(cells) = focusedIndex + 1
    <3>1. PICK cs \in {cells, Emptied(cells, focusedIndex + 1)} :
            InsertFresh(cs, Below, Blank, "code", 0, {})
      BY <1>5, <2>3 DEF HandleCmdEnter
    <3>2. Len(cells') = Len(cells) + 1
      BY <1>1, <1>3, <2>2, <3>1
    <3> QED
      BY <1>1, <1>2, <2>0, <2>3, <3>2
  <2>4. CASE Len(cells) # focusedIndex + 1
    <3>1. cells' \in {cells, Emptied(cells, focusedIndex + 1)}
      BY <1>5, <2>4 DEF HandleCmdEnter, SetNotebook
    <3>2. Len(cells') = Len(cells)
      BY <2>2, <3>1
    <3> QED
      BY <1>1, <1>2, <2>0, <2>4, <3>2
  <2> QED
    BY <2>3, <2>4
<1>6. CASE SubmitCell \/ OnChange \/ \E type \in CellType : ChangeCellType(type)
  <2>1. focusedIndex' = focusedIndex /\ DOMAIN cells' = DOMAIN cells
    <3>1. CASE SubmitCell
      BY <1>1, <3>1 DEF SubmitCell, Emptied
    <3>2. CASE OnChange
      BY <1>1, <3>2 DEF OnChange
    <3>3. ASSUME NEW type \in CellType, ChangeCellType(type)
          PROVE  focusedIndex' = focusedIndex /\ DOMAIN cells' = DOMAIN cells
      BY <1>1, <3>3 DEF ChangeCellType
    <3> QED
      BY <1>6, <3>1, <3>2, <3>3
  <2>2. Len(cells') = Len(cells)
    BY <1>1, <2>1
  <2>3. cells # <<>>
    BY <1>6 DEF SubmitCell, OnChange, ChangeCellType
  <2> QED
    BY <1>1, <1>2, <2>1, <2>2, <2>3
<1>7. CASE SaveNotebook \/ CopyCell
  BY <1>7 DEF SaveNotebook, CopyCell, Crashed, InBounds
<1>8. CASE DeleteCell \/ CutCell
  <2>1. RemoveFocused
    BY <1>8 DEF DeleteCell, CutCell
  <2>2. CASE InBounds(cells, focusedIndex)
    <3>1. cells' = Without(cells, focusedIndex)
      BY <2>1, <2>2 DEF RemoveFocused, SetNotebook
    <3>2. focusedIndex \in 0..Len(cells) - 1
      BY <2>2 DEF InBounds
    <3>3. Len(cells') = Len(cells) - 1
      BY <1>1, <3>1, <3>2, WithoutCell
    <3> QED
      BY <1>1, <3>3
  <2>3. CASE ~InBounds(cells, focusedIndex)
    BY <2>1, <2>3 DEF RemoveFocused, Crashed
  <2> QED
    BY <2>2, <2>3
<1>9. CASE \/ \E i \in DOMAIN cells : OnFocus(i)
           \/ GoToPreviousCell \/ GoToNextCell
  <2>1. cells' = cells /\ cells # <<>>
    BY <1>1, <1>9 DEF OnFocus, GoToPreviousCell, GoToNextCell, SetFocus
  <2>2. focusedIndex' \in Nat /\ focusedIndex' < Len(cells)
    <3>1. ASSUME NEW i \in DOMAIN cells, OnFocus(i)
          PROVE  focusedIndex' \in Nat /\ focusedIndex' < Len(cells)
      BY <1>1, <3>1 DEF OnFocus, SetFocus
    <3>2. CASE GoToPreviousCell
      BY <1>1, <2>1, <3>2 DEF GoToPreviousCell, SetFocus
    <3>3. CASE GoToNextCell
      BY <1>1, <2>1, <3>3 DEF GoToNextCell, SetFocus
    <3> QED
      BY <1>9, <3>1, <3>2, <3>3
  <2> QED
    BY <1>2, <2>1, <2>2
<1> QED
  BY <1>4, <1>5, <1>6, <1>7, <1>8, <1>9 DEF UserStep

-----------------------------------------------------------------------------
(* The theorems *)

LEMMA InitIInv == Init => IInv
<1> SUFFICES ASSUME Init PROVE IInv
  OBVIOUS
<1> USE DEF Init
<1>1. TypeOK
  <2>1. contents \in [Ids(cells) -> Source]
    BY DEF Ids
  <2>2. disk \in Seq([source : Source, type : CellType])
    BY CellsAssumption
  <2>3. cells \in Seq(Cell) /\ DOMAIN cells = {} /\ Len(arrays) = 0
    OBVIOUS
  <2>4. runs \subseteq 0..nextId - 1 /\ DOMAIN lineage = 0..nextId - 1
    OBVIOUS
  <2> QED
    BY <2>1, <2>2, <2>3, <2>4 DEF TypeOK
<1>2. AuxInv /\ EditorShowsSource /\ FocusInv
  BY DEF AuxInv, EditorShowsSource, FocusInv
<1>3. TraceInv
  BY DEF TraceInv, Holders
<1>4. KeepInv
  <2>1. DiskCells \in Seq(DiskCell)
    BY CellsAssumption DEF DiskCell
  <2> DEFINE f == [i \in DOMAIN DiskCells |-> i]
  <2>2. /\ f \in [DOMAIN DiskCells -> DOMAIN DiskCells]
        /\ \A i \in DOMAIN DiskCells : f[i] = i
    OBVIOUS
  <2> HIDE DEF f
  <2>3. Keeps(DiskCells)
    BY <2>2 DEF Keeps
  <2> QED
    BY <2>3 DEF KeepInv
<1> QED
  BY <1>1, <1>2, <1>3, <1>4 DEF IInv

LEMMA NextIInv == IInv /\ [Next]_vars => IInv'
<1> SUFFICES ASSUME IInv, [Next]_vars PROVE IInv'
  OBVIOUS
<1>1. CASE Command
  BY <1>1, UserPreserves DEF Command
<1>2. CASE Answer
  BY <1>2, OutputPreserves, FetchPreserves, FilePreserves DEF Answer
<1>3. CASE ServerStep
  BY <1>3, FilePreserves DEF ServerStep
<1>4. CASE UNCHANGED vars
  <2>1. /\ UNCHANGED <<cells, contents, nextId, lossy, lineage, kernelVars,
                       fileVars>>
        /\ focusedIndex' = focusedIndex /\ copiedCell' = copiedCell
    BY <1>4 DEF vars, kernelVars, fileVars
  <2>2. focusedIndex' \in Nat
    BY <2>1 DEF IInv, TypeOK
  <2> QED
    BY <2>1, <2>2, StandPreserves
<1> QED
  BY <1>1, <1>2, <1>3, <1>4 DEF Next

LEMMA AlwaysIInv == Spec => []IInv
BY InitIInv, NextIInv, PTL DEF Spec

\* Ids stay unique and React keeps exactly the Cells of the notebook, whatever
\* NotebookEditor.tsx inserts, removes, pastes and loads.
THEOREM TypeCorrect == Spec => []TypeOK
<1>1. IInv => TypeOK
  BY DEF IInv
<1> QED
  BY <1>1, AlwaysIInv, PTL

\* The two copies of a source, cellContents in Cell.tsx and cell.source in the
\* notebook, never differ.
THEOREM EditorAgrees == Spec => []EditorShowsSource
<1>1. IInv => EditorShowsSource
  BY DEF IInv
<1> QED
  BY <1>1, AlwaysIInv, PTL

\* updateNotebook shows an output in the cell that was run or in one pasted
\* from it, although cells share outputs arrays.
THEOREM OutputsStayTraceable == Spec => []OutputsTraceable
<1>1. IInv => OutputsTraceable
  BY DEF IInv, TraceInv, Traced, Holders, OutputsTraceable
<1> QED
  BY <1>1, AlwaysIInv, PTL

\* No save of NotebookEditor.tsx loses a cell of the file before the user has
\* removed or changed one or has saved a notebook that was not loaded.
THEOREM FileKeepsItsCells == Spec => []LoadedCellsKept
<1>1. IInv => LoadedCellsKept
  <2> SUFFICES ASSUME IInv, ~lossy
      PROVE  \E at \in [DOMAIN DiskCells -> DOMAIN disk] :
               /\ \A i \in DOMAIN DiskCells : disk[at[i]] = DiskCells[i]
               /\ \A i, j \in DOMAIN DiskCells : i < j => at[i] < at[j]
    BY DEF LoadedCellsKept
  <2>1. PICK at \in [DOMAIN DiskCells -> DOMAIN disk] :
          /\ \A i \in DOMAIN DiskCells :
               /\ disk[at[i]].source = DiskCells[i].source
               /\ disk[at[i]].type = DiskCells[i].type
          /\ \A i, j \in DOMAIN DiskCells : i < j => at[i] < at[j]
    BY DEF IInv, KeepInv, Keeps
  <2>2. ASSUME NEW r \in DiskCell, NEW s \in DiskCell,
               r.source = s.source, r.type = s.type
        PROVE  r = s
    BY <2>2 DEF DiskCell
  <2>3. disk \in Seq(DiskCell) /\ DiskCells \in Seq(DiskCell)
    BY CellsAssumption DEF IInv, TypeOK, DiskCell
  <2>4. ASSUME NEW i \in DOMAIN DiskCells
        PROVE  disk[at[i]] = DiskCells[i]
    <3>1. disk[at[i]] \in DiskCell /\ DiskCells[i] \in DiskCell
      <4>1. at[i] \in DOMAIN disk
        OBVIOUS
      <4> QED
        BY <2>3, <4>1
    <3> QED
      BY <2>1, <2>2, <3>1
  <2> QED
    BY <2>1, <2>4
<1> QED
  BY <1>1, AlwaysIInv, PTL

\* focusedIndex leaves the notebook only in a step that makes it shorter.
THEOREM FocusIsLostByRemoval == Spec => FocusLostByRemoval
<1>1. IInv /\ IInv' /\ [Next]_vars =>
        [(~Crashed /\ Crashed') => Len(cells') < Len(cells)]_vars
  <2> SUFFICES ASSUME IInv, IInv', Next, ~Crashed, Crashed'
      PROVE  Len(cells') < Len(cells)
    OBVIOUS
  <2>1. CASE Command
    BY <2>1, UserKeepsFocus DEF Command
  <2>2. CASE ServerStep \/ FetchFails \/ \E id \in runs : KernelOutput(id)
    <3>1. focusedIndex' = focusedIndex /\ DOMAIN cells' = DOMAIN cells
      BY <2>2 DEF ServerStep, FetchFails, KernelOutput, SaveArrives, SaveLost,
         PutEnds
    <3>2. Len(cells') = Len(cells) /\ (cells' # <<>> => cells # <<>>)
      BY <3>1 DEF IInv, TypeOK
    <3> QED
      BY <3>1, <3>2 DEF Crashed, InBounds
  <2>3. CASE FetchAnswered
    <3>1. /\ DOMAIN cells' = DOMAIN Loaded /\ focusedIndex' = focusedIndex
          /\ Len(Loaded) \in Nat /\ Len(Loaded) >= 1
          /\ DOMAIN Loaded = 1..Len(Loaded)
      BY <2>3, LoadedCells DEF FetchAnswered, SetNotebook, IInv
    <3>2. Len(cells') = Len(Loaded) /\ focusedIndex \in Nat
          /\ Len(cells) \in Nat
      BY <3>1 DEF IInv, TypeOK
    <3>3. focusedIndex >= Len(cells')
      BY <3>1, <3>2 DEF Crashed, InBounds
    <3>4. cells # <<>> /\ focusedIndex < Len(cells)
      BY <3>1, <3>2, <3>3 DEF Crashed, InBounds, IInv, FocusInv
    <3> QED
      BY <3>2, <3>3, <3>4
  <2> QED
    BY <2>1, <2>2, <2>3 DEF Next, Answer
<1> QED
  BY <1>1, AlwaysIInv, PTL DEF Spec, FocusLostByRemoval
=============================================================================
