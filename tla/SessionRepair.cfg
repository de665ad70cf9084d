CONSTANTS
  r1 = r1
  r2 = r2
  a = a
  b = b
  Runs = {r1, r2}
  Calls = {a, b}
  NoRun = NoRun
  MaxSteps = 1
  MaxExecutions = 3
SPECIFICATION Spec
SYMMETRY Symmetry
INVARIANTS
  TypeOK
  RepairSettlesRun
  EndIsLast
PROPERTIES
  SuspensionSurvivesRepair
CHECK_DEADLOCK FALSE
