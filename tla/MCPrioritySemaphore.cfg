CONSTANTS
  t1 = t1
  t2 = t2
  t3 = t3
  t4 = t4
  Tasks <- Tasks4
  Concurrency = 2
  QueueLimit = 0
SPECIFICATION Spec
INVARIANTS
  PermitsConserved
  IdlePermitsAccounted
PROPERTIES
  WaitersServed
  GrantsByPriority
  ImplementsCountingSemaphore
CHECK_DEADLOCK FALSE
