CONSTANTS
  r1 = r1
  r2 = r2
  w1 = w1
  c1 = c1
  s1 = s1
  Runs = {r1, r2}
  SyncRuns = {r2}
  Cancellable = {}
  Workers = {w1}
  Calls = {}
  Keys = {}
  SessionOf <- OneSession
  RunOfCall <- FirstRunCalls
  Outcomes = {"completed", "failed", "cancelled"}
  NoWorker = NoWorker
  NoHolder = NoHolder
  NoRun = NoRun
  NoCall = NoCall
  NoKey = NoKey
  MaxAttempts = 1
  MaxInFlight = 2
  MaxSubmissions = 1
  MaxPending = 1
  SerialWriters = TRUE
SPECIFICATION WSpec
INVARIANTS
  OneStoryPerRun
  EffectOnceAfterRecord
  ControlFollowsLog
PROPERTIES
  FinishedRunAddsNothing
CHECK_DEADLOCK FALSE
