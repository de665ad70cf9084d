CONSTANTS
  r1 = r1
  r2 = r2
  r3 = r3
  w1 = w1
  w2 = w2
  c1 = c1
  c2 = c2
  k1 = k1
  k2 = k2
  s1 = s1
  Runs = {r1, r2}
  Workers = {w1}
  Calls = {c1}
  Keys = {k1}
  SessionOf <- OneSession
  RunOfCall <- FirstRunCalls
  Outcomes = {"completed"}
  NoWorker = NoWorker
  NoRun = NoRun
  NoCall = NoCall
  NoKey = NoKey
  MaxAttempts = 2
  MaxInFlight = 2
  MaxSubmissions = 1
  MaxPending = 1
  SerialWriters = FALSE
SPECIFICATION FairSpec
PROPERTIES
  QueuedRunSettles
  KeyKeepsUnfinishedRun
CHECK_DEADLOCK FALSE
