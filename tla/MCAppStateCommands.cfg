SPECIFICATION Spec
CONSTANTS
  Workspace = {w1, w2}
  Project = {p1, p2}
  Talk = {c1, c2}
  Turn = {1, 2}
  MaxProjects = 2
  MaxEvents = 1
  MaxThreads = 1
  None = None
SYMMETRY Symmetry
INVARIANTS RestartLoadsSnapshot StoreAccepts DeletionMirrors
CHECK_DEADLOCK FALSE
