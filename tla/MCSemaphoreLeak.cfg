CONSTANTS
  t1 = t1
  t2 = t2
  t3 = t3
  t4 = t4
  Tasks <- Tasks4
  Concurrency = 1
  QueueLimit = 1
SPECIFICATION Spec
INVARIANTS
  ProperlyReleased
CHECK_DEADLOCK FALSE
