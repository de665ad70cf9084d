CONSTANTS
  r1 = r1
  r2 = r2
  a = a
  b = b
  Runs = {r1, r2}
  Calls = {a, b}
  NoRun = NoRun
  MaxSteps = 1
  MaxExecutions = 4
SPECIFICATION Spec
SYMMETRY Symmetry
INVARIANT
  NoRunLeftOpen
CHECK_DEADLOCK FALSE
