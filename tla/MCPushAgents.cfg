CONSTANTS
  w1 = w1
  w2 = w2
  s1 = s1
  a = a
  b = b
  e1 = e1
  e2 = e2
  Workers = {w1, w2}
  Waiters = {s1}
  Idents = {a, b}
  Endpoints = {e1, e2}
  Queues = {2, 9}
  QwaitArgs <- MCQwaitArgs
  WorkerQueues = {2}
  Dead = {e2}
  SelfEndpoints = {e1}
  MaxErrors = 0
  Alloc = 2
  MaxSessions = 2
  MaxPasses = 3
  MaxAllocFailures = 1
  NoHolder = NoHolder
SPECIFICATION Spec
INVARIANT TypeOK
INVARIANT WithinAllocation
CHECK_DEADLOCK FALSE
