\* Three requests on three names, the server started in the project.
CONSTANTS
  Handler = {h1, h2, h3}
  MaxName = 2
  HomeDir = home
  ProcessDir = home
  NoFile = NoFile
SPECIFICATION Spec
SYMMETRY Symmetry
INVARIANTS
  TypeOK
  
CHECK_DEADLOCK FALSE
