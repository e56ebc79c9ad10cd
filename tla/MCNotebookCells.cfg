\* A notebook with a code cell and a markdown cell.
CONSTANTS
  a = a
  b = b
  DiskCells <- MCDiskCells
  Blank = Blank
  Typed = Typed
  NoCell = NoCell
  MaxCommands = 5
SPECIFICATION Spec
CHECK_DEADLOCK FALSE
INVARIANTS
  TypeOK
  EditorShowsSource
  OutputsTraceable
  
PROPERTIES
  FocusLostByRemoval
