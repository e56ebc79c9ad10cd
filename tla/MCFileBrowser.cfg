\* A file and a directory, and a name that is free.
CONSTANTS
  a = a
  b = b
  c = c
  Name = {a, b, c}
  NoName = NoName
  Child = {x}
  InitialDisk <- MCInitialDisk
  MaxCommands = 6
  MaxOps = 4
SPECIFICATION Spec
INVARIANTS
  TypeOK
  
CHECK_DEADLOCK FALSE
