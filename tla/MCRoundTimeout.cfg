SPECIFICATION Spec
CONSTANTS
  Contexts = {c1, c2}
  Rounds = {r1, r2}
  Envs = {e1, e2}
  NoEnv = NoEnv
  MaxTasks = 3
INVARIANTS
  TimedOutReleased
CHECK_DEADLOCK FALSE
