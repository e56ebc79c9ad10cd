\* A file, a notebook, a new notebook with two clicks that may ask for it, and
\* a terminal.
CONSTANTS
  f1 = f1
  n1 = n1
  n2 = n2
  c1 = c1
  c2 = c2
  Launcher = Launcher
  File = {f1, n1}
  TypeOf <- MCTypeOf
  NewNotebook = {n2}
  Click = {c1, c2}
  MaxTerminals = 1
SPECIFICATION TabsSpec
INVARIANTS
  EditorsVisible
PROPERTIES
  TabsLeaveKnowingly
