\* Two kernelspecs, three starts or reconnects, the tab opened twice.
CONSTANTS
  python = python
  julia = julia
  KernelSpec = {python, julia}
  None = None
  MaxOps = 3
  MaxMounts = 2
SYMMETRY Symmetry
SPECIFICATION Spec
CHECK_DEADLOCK FALSE
INVARIANTS
  NoKernelsRunning
