SPECIFICATION Spec
CONSTANTS
  b1 = b1 b2 = b2 c1 = c1 c2 = c2 m = m None = None
  Objects = {b1, b2, c1, c2}
  Commits = {c1, c2}
  Reach <- MCReach
  main = main fork = fork pin = pin
  Rows = {main, fork}
  Pins = {}
  Retirable = {fork}
  Sources = {main}
  FirstRow = main FirstOid = c1
  w1 = w1 w2 = w2 p1 = p1 p2 = p2
  Writers = {w1, w2}
  Procs = {p1}
  ProcOf <- OneProc
  Collecting = TRUE
  ProofSize = 0
  BatchLimit = 1
  MaxCrashes = 1 MaxAborts = 1
INVARIANTS RootsClosed 
SYMMETRY SameWriters
CHECK_DEADLOCK FALSE
