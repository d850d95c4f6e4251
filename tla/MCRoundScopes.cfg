SPECIFICATION FairSpec
CONSTANTS
  Contexts = {c1, c2}
  Rounds = {r1, r2}
  Envs = {e1, e2}
  NoEnv = NoEnv
  MaxTasks = 3
INVARIANTS
  OneLiveHolder
  OrderlyRounds
PROPERTIES
  StoredLeave
CHECK_DEADLOCK FALSE
