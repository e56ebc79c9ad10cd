\* Two files and a new notebook whose request may answer late.
CONSTANTS
  f1 = f1
  f2 = f2
  n2 = n2
  c1 = c1
  Launcher = Launcher
  File = {f1, f2}
  TypeOf <- MCTypeOf
  NewNotebook = {n2}
  Click = {c1}
  MaxTerminals = 0
  NoPath = NoPath
  MaxPuts = 1
SYMMETRY Symmetry
SPECIFICATION Spec
INVARIANTS
  TypeOK
  ContentsStayHome

  
