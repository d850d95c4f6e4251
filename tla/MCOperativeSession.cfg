CONSTANTS
  q1 = q1
  q2 = q2
  a1 = a1
  Nobody = Nobody
  Queries <- TwoQueries
  Replies <- OneReply
  MaxAsks = 2
SPECIFICATION Spec
INVARIANTS
  NobodyForgotten
  OrderlyServed
PROPERTIES
  RequestsEnd
CHECK_DEADLOCK FALSE
