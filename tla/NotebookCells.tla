---------------------------- MODULE NotebookCells ----------------------------
(***************************************************************************)
(* The cells of one open notebook: the state of NotebookEditor.tsx that    *)
(* its toolbar (NbButtons.tsx), its cells (Cell.tsx, CellButtons.tsx) and  *)
(* its keyboard handlers work on, from the first fetch of the file to the  *)
(* saves that write it, with the kernel as far as its output comes back    *)
(* into the cells.                                                         *)
(*                                                                         *)
(* focusedIndex counts from 0, as in the code; sequences count from 1.     *)
(* Source texts are told apart by where they come from.                    *)
(*                                                                         *)
(* The toolbar reads the type of the focused cell on every render.  When   *)
(* there are cells and focusedIndex is not one of them, that throws, and   *)
(* React, which finds no error boundary, unmounts the whole user           *)
(* interface: Crashed.                                                     *)
(***************************************************************************)
EXTENDS Naturals, Sequences

CONSTANTS
  DiskCells,   \* the file when it is opened: a sequence of [source, type]
  Blank,       \* the source ''
  Typed,       \* what the user types
  NoCell,      \* no copied cell
  MaxCommands  \* bound on what the user does

Source == {DiskCells[i].source : i \in DOMAIN DiskCells} \cup {Blank, Typed}
CellType == {"code", "markdown", "raw"}

ASSUME CellsAssumption ==
  /\ DiskCells \in Seq([source : Source, type : CellType])
  /\ MaxCommands \in Nat
  /\ Blank # Typed

VARIABLES
  cells,         \* notebook.cells
  focusedIndex,
  copiedCell,
  contents,      \* id -> cellContents of the Cell that React keeps for it
  arrays,        \* the outputs arrays in the heap: which cells' runs wrote them
  nextId,        \* the next uuidv4()
  runs,          \* the ids of the cells of which a run was sent to the kernel
  load,          \* FetchFileData: "pending", "done" or "failed"
  disk,          \* the file: a sequence of [source, type]
  puts,          \* saves on their way to the server
  commands,      \* what the user has done so far
  lossy,         \* history: the user removed or changed a cell, or saved
                 \* a notebook that was not loaded
  lineage        \* history: id -> the id itself and those it was pasted from

vars == <<cells, focusedIndex, copiedCell, contents, arrays, nextId, runs,
          load, disk, puts, commands, lossy, lineage>>

\* What a handler of the editor does not touch, apart from what it says.
kernelVars == <<arrays, runs>>
fileVars == <<load, disk, puts>>

\* out is the index in arrays of the cell's outputs, or 0 for an empty array.
\* (An empty one is never shared: who pushes to it makes a new one.)
Cell == [id : Nat, source : Source, type : CellType, out : Nat]

-----------------------------------------------------------------------------
(* Helpers.                                                                *)

Ids(cs) == {cs[i].id : i \in DOMAIN cs}

\* Mutant: the slice after the new cell starts one too late.
Inserted_Over(cs, index, cell) ==
  [i \in 1..(IF index < Len(cs) THEN Len(cs) ELSE Len(cs) + 1) |->
     IF i = index + 1 THEN cell ELSE cs[i]]

Inserted(cs, index, cell) ==
  [i \in 1..Len(cs) + 1 |->
     IF i <= index THEN cs[i] ELSE IF i = index + 1 THEN cell ELSE cs[i - 1]]

Without(cs, index) ==
  [i \in 1..Len(cs) - 1 |-> IF i <= index THEN cs[i] ELSE cs[i + 1]]

InBounds(cs, index) == index \in 0..Len(cs) - 1

Crashed == cells # <<>> /\ ~InBounds(cells, focusedIndex)

NewCell(id, source, type, out) ==
  [id |-> id, source |-> source, type |-> type, out |-> out]

\* Mutant: the Cells are keyed by their index.
Rendered_ByIndex(cs) ==
  LET kept(i) == i \in DOMAIN cells /\ cells[i].id \in DOMAIN contents
  IN [id \in Ids(cs) |->
        LET i == CHOOSE i \in DOMAIN cs : cs[i].id = id
        IN IF kept(i) THEN contents[cells[i].id] ELSE cs[i].source]

\* React keeps the Cell of an id and mounts one for a new id, with the source
\* as its first contents.
Rendered(cs) ==
  [id \in Ids(cs) |->
     IF id \in DOMAIN contents THEN contents[id]
     ELSE cs[CHOOSE i \in DOMAIN cs : cs[i].id = id].source]

SetNotebook(cs) ==
  /\ cells' = cs
  /\ contents' = Rendered(cs)

\* Where addCellDown and pasteCell insert, and where addCellUp does.
Below == IF InBounds(cells, focusedIndex) THEN focusedIndex + 1
         ELSE Len(cells)
Above == IF focusedIndex <= Len(cells) THEN focusedIndex ELSE Len(cells)

\* Inserts a cell with a fresh id into cs, which has the ids of cells; from
\* are the cells whose outputs it takes over.
InsertFresh(cs, index, source, type, out, from) ==
  /\ SetNotebook(Inserted(cs, index, NewCell(nextId, source, type, out)))
  /\ nextId' = nextId + 1
  /\ lineage' = [id \in DOMAIN lineage \cup {nextId} |->
                   IF id = nextId THEN {nextId} \cup from ELSE lineage[id]]

Focused == cells[focusedIndex + 1]

-----------------------------------------------------------------------------
(* The toolbar, the buttons of the focused cell, and the keys.             *)

\* Ctrl-A; every open notebook listens to it, shown or not.
AddCellUp ==
  /\ InsertFresh(cells, Above, Blank, "code", 0, {})
  /\ UNCHANGED <<focusedIndex, copiedCell, lossy, kernelVars, fileVars>>

\* Ctrl-B.
AddCellDown ==
  /\ InsertFresh(cells, Below, Blank, "code", 0, {})
  /\ UNCHANGED <<focusedIndex, copiedCell, lossy, kernelVars, fileVars>>

\* Removes the focused cell, if there is one.  focusedIndex stays.
RemoveFocused ==
  /\ IF InBounds(cells, focusedIndex)
       THEN SetNotebook(Without(cells, focusedIndex)) /\ lossy' = TRUE
       ELSE UNCHANGED <<cells, contents, lossy>>
  /\ UNCHANGED <<focusedIndex, nextId, lineage, kernelVars, fileVars>>

DeleteCell == RemoveFocused /\ UNCHANGED copiedCell

CopyFocused == copiedCell' = IF InBounds(cells, focusedIndex) THEN Focused
                             ELSE NoCell

CutCell == CopyFocused /\ RemoveFocused

CopyCell ==
  /\ CopyFocused
  /\ UNCHANGED <<cells, contents, focusedIndex, nextId, lossy, lineage,
                 kernelVars, fileVars>>

\* Mutant: the pasted cell keeps its id.
PasteCell_SameId ==
  /\ copiedCell # NoCell
  /\ SetNotebook(Inserted(cells, Below, copiedCell))
  /\ UNCHANGED <<focusedIndex, copiedCell, nextId, lossy, lineage,
                 kernelVars, fileVars>>

\* The copy has an id of its own and the outputs array of the original.
PasteCell ==
  /\ copiedCell # NoCell
  /\ InsertFresh(cells, Below, copiedCell.source, copiedCell.type,
                 copiedCell.out, lineage[copiedCell.id])
  /\ UNCHANGED <<focusedIndex, copiedCell, lossy, kernelVars, fileVars>>

SetFocus(index) ==
  /\ focusedIndex' = index
  /\ UNCHANGED <<cells, contents, copiedCell, nextId, lossy, lineage,
                 kernelVars, fileVars>>

\* A click on a cell, or the focus of its editor.
OnFocus(i) == SetFocus(i - 1)

\* ArrowUp in the first line of a cell, or its button.
GoToPreviousCell ==
  /\ cells # <<>>
  /\ SetFocus(IF focusedIndex > 0 THEN focusedIndex - 1 ELSE 0)

\* Mutant: the last cell is not the end.
GoToNextCell_NoMin ==
  /\ cells # <<>>
  /\ SetFocus(focusedIndex + 1)

\* ArrowDown in the last line of a cell, or its button.
GoToNextCell ==
  /\ cells # <<>>
  /\ SetFocus(IF focusedIndex + 1 < Len(cells) THEN focusedIndex + 1
              ELSE Len(cells) - 1)

\* onChange of the focused cell's CodeMirror: its contents and its source.
OnChange ==
  /\ cells # <<>>
  /\ cells' = [cells EXCEPT ![focusedIndex + 1].source = Typed]
  /\ contents' = [contents EXCEPT ![Focused.id] = Typed]
  /\ lossy' = TRUE
  /\ UNCHANGED <<focusedIndex, copiedCell, nextId, lineage, kernelVars,
                 fileVars>>

\* The toolbar offers each type, and Shift-M in a cell the next one.
ChangeCellType(type) ==
  /\ cells # <<>>
  /\ cells' = [cells EXCEPT ![focusedIndex + 1].type = type]
  /\ lossy' = TRUE
  /\ UNCHANGED <<contents, focusedIndex, copiedCell, nextId, lineage,
                 kernelVars, fileVars>>

-----------------------------------------------------------------------------
(* Running cells.                                                          *)

\* submitCell empties the cell's outputs first; whether there is an open
\* connection to send the request on is the subject of NotebookSession.
Emptied(cs, i) == [cs EXCEPT ![i].out = 0]

Send(id) ==
  /\ \E sent \in BOOLEAN : runs' = IF sent THEN runs \cup {id} ELSE runs
  /\ UNCHANGED arrays

\* The run button of the focused cell, whatever its type.
SubmitCell ==
  /\ cells # <<>>
  /\ Send(Focused.id)
  /\ cells' = Emptied(cells, focusedIndex + 1)
  /\ UNCHANGED <<contents, focusedIndex, copiedCell, nextId, lossy, lineage,
                 fileVars>>

\* Shift-Enter: a code cell is run, and the next cell gets the focus, a new
\* one if there is none.
HandleCmdEnter ==
  /\ cells # <<>>
  /\ LET run == Focused.type = "code"
         cs  == IF run THEN Emptied(cells, focusedIndex + 1) ELSE cells
     IN /\ IF run THEN Send(Focused.id) ELSE UNCHANGED kernelVars
        /\ IF Len(cells) = focusedIndex + 1
             THEN InsertFresh(cs, Below, Blank, "code", 0, {})
             ELSE SetNotebook(cs) /\ UNCHANGED <<nextId, lineage>>
  /\ focusedIndex' = focusedIndex + 1
  /\ UNCHANGED <<copiedCell, lossy, fileVars>>

\* Mutant: the output goes to the focused cell.
KernelOutput_Focused(id) ==
  /\ cells # <<>>
  /\ LET out == Focused.out
     IN IF out = 0
          THEN /\ arrays' = Append(arrays, {id})
               /\ cells' = [cells EXCEPT ![focusedIndex + 1].out =
                              Len(arrays) + 1]
          ELSE /\ arrays' = [arrays EXCEPT ![out] = @ \cup {id}]
               /\ UNCHANGED cells
  /\ UNCHANGED <<contents, focusedIndex, copiedCell, nextId, runs, lossy,
                 lineage, fileVars>>

\* updateNotebook for an output of the run of cell id, at any time after it
\* was sent.  The array is shared with every copy made since it is not empty.
KernelOutput(id) ==
  /\ id \in Ids(cells)
  /\ LET i   == CHOOSE i \in DOMAIN cells : cells[i].id = id
         out == cells[i].out
     IN IF out = 0
          THEN /\ arrays' = Append(arrays, {id})
               /\ cells' = [cells EXCEPT ![i].out = Len(arrays) + 1]
          ELSE /\ arrays' = [arrays EXCEPT ![out] = @ \cup {id}]
               /\ UNCHANGED cells
  /\ UNCHANGED <<contents, focusedIndex, copiedCell, nextId, runs, lossy,
                 lineage, fileVars>>

-----------------------------------------------------------------------------
(* The file.                                                               *)

\* A file without cells is answered with null, which becomes one cell.
Loaded == IF disk = <<>> THEN <<[source |-> Blank, type |-> "code"]>>
          ELSE disk

\* FetchFileData: every cell gets a fresh id.
FetchAnswered ==
  /\ load = "pending"
  /\ load' = "done"
  /\ LET ids == nextId..(nextId + Len(Loaded) - 1)
     IN /\ SetNotebook([i \in DOMAIN Loaded |->
                          NewCell(nextId + i - 1, Loaded[i].source,
                                  Loaded[i].type, 0)])
        /\ nextId' = nextId + Len(Loaded)
        /\ lineage' = [id \in DOMAIN lineage \cup ids |->
                         IF id \in ids THEN {id} ELSE lineage[id]]
  /\ UNCHANGED <<focusedIndex, copiedCell, lossy, kernelVars, disk, puts>>

\* The error is kept where nobody reads it; the notebook stays without cells.
FetchFails ==
  /\ load = "pending"
  /\ load' = "failed"
  /\ UNCHANGED <<cells, contents, focusedIndex, copiedCell, nextId, lossy,
                 lineage, kernelVars, disk, puts>>

\* handleCmdEnter of the notebook; nobody waits for the answer, so that saves
\* overtake one another.
Saved == [i \in DOMAIN cells |->
            [source |-> cells[i].source, type |-> cells[i].type]]

SaveNotebook ==
  /\ puts' = Append(puts, Saved)
  /\ lossy' = (lossy \/ load # "done")
  /\ UNCHANGED <<cells, contents, focusedIndex, copiedCell, nextId, lineage,
                 kernelVars, load, disk>>

PutEnds(i) ==
  /\ puts' = [j \in 1..Len(puts) - 1 |-> IF j < i THEN puts[j]
                                         ELSE puts[j + 1]]
  /\ UNCHANGED <<cells, contents, focusedIndex, copiedCell, nextId, lossy,
                 lineage, kernelVars, load>>

SaveArrives(i) == disk' = puts[i] /\ PutEnds(i)
SaveLost(i) == UNCHANGED disk /\ PutEnds(i)

-----------------------------------------------------------------------------
Init ==
  /\ cells = <<>>
  /\ focusedIndex = 0
  /\ copiedCell = NoCell
  /\ contents = <<>>
  /\ arrays = <<>>
  /\ nextId = 0
  /\ runs = {}
  /\ load = "pending"
  /\ disk = DiskCells
  /\ puts = <<>>
  /\ commands = 0
  /\ lossy = FALSE
  /\ lineage = <<>>

UserStep ==
  \/ AddCellUp \/ AddCellDown
  \/ DeleteCell \/ CutCell \/ CopyCell \/ PasteCell
  \/ \E i \in DOMAIN cells : OnFocus(i)
  \/ GoToPreviousCell \/ GoToNextCell
  \/ OnChange
  \/ \E type \in CellType : ChangeCellType(type)
  \/ SubmitCell \/ HandleCmdEnter
  \/ SaveNotebook

Command ==
  /\ ~Crashed
  /\ commands < MaxCommands
  /\ commands' = commands + 1
  /\ UserStep

\* An editor that is gone takes no answers.
Answer ==
  /\ ~Crashed
  /\ UNCHANGED commands
  /\ \/ \E id \in runs : KernelOutput(id)
     \/ FetchAnswered
     \/ FetchFails

ServerStep ==
  /\ UNCHANGED commands
  /\ \E i \in DOMAIN puts : SaveArrives(i) \/ SaveLost(i)

Next == Command \/ Answer \/ ServerStep

Spec == Init /\ [][Next]_vars

-----------------------------------------------------------------------------
(* Properties.                                                             *)

\* Every cell has an id of its own and an outputs array that exists, and the
\* Cells that React keeps are those of the notebook.
TypeOK ==
  /\ cells \in Seq(Cell)
  /\ \A i, j \in DOMAIN cells : cells[i].id = cells[j].id => i = j
  /\ \A i \in DOMAIN cells : /\ cells[i].id < nextId
                             /\ cells[i].out \in 0..Len(arrays)
  /\ focusedIndex \in Nat
  /\ copiedCell \in Cell \cup {NoCell}
  /\ contents \in [Ids(cells) -> Source]
  /\ runs \subseteq 0..nextId - 1
  /\ DOMAIN lineage = 0..nextId - 1
  /\ disk \in Seq([source : Source, type : CellType])

\* What the editor of a cell shows, and submits, is what the notebook has for
\* that cell, and saves: Cell.tsx keeps cellContents apart from cell.source and
\* takes the source over only when it mounts, whatever is inserted, pasted,
\* removed or loaded around it.
EditorShowsSource ==
  \A i \in DOMAIN cells : contents[cells[i].id] = cells[i].source

\* An output is shown in the cell that was run, or in a cell pasted from it,
\* however late it comes and whatever happened to the cells since
\* (updateNotebook finds the cell by the id of the request).
OutputsTraceable ==
  \A i \in DOMAIN cells :
    cells[i].out # 0 => arrays[cells[i].out] \subseteq lineage[cells[i].id]

\* Until the user removes or changes a cell, or saves a notebook that was not
\* loaded, the file keeps all cells it had, in their order, whatever is added,
\* pasted, run or saved out of order.
LoadedCellsKept ==
  ~lossy =>
    \E at \in [DOMAIN DiskCells -> DOMAIN disk] :
      /\ \A i \in DOMAIN DiskCells : disk[at[i]] = DiskCells[i]
      /\ \A i, j \in DOMAIN DiskCells : i < j => at[i] < at[j]

\* focusedIndex leaves the notebook only because the notebook has become
\* shorter: no navigation, insertion or run moves it out.
FocusLostByRemoval ==
  [][(~Crashed /\ Crashed') => Len(cells') < Len(cells)]_vars

\* "Check if focusedIndex is valid to avoid errors (e.g., empty notebook or
\* invalid index)": the index is that of a cell whenever there is one.
FocusInBounds == ~Crashed
=============================================================================
