CONSTANTS
  Process = {p1, p2, p3}
  NoProcess = NoProcess
  MaxFile = 2
SYMMETRY Processes
SPECIFICATION Spec
INVARIANTS SingleHolder
