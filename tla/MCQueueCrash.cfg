CONSTANTS
  Ids <- MCIds
  r1 = r1
  r2 = r2
  Recips = {r1, r2}
  LineOrder <- MCLineOrder
  ReturnRcpt = r1
  Workers = {w1}
  MaxConcurrent = 1
  Targets = {0, 8}
  Submissions <- MCSubmissions
  MaxSubmissions = 1
  MaxCrashes = 1
  MaxDiskFailures = 0
  ForwardUndeliverable = FALSE
  BounceReturn = TRUE
  BounceBlockSpam = FALSE
  ArraySize = 2
  SlotsPerBucket = 2
  Mask = 1
  Unused = Unused
  NoToken = NoToken
  PushStages = {2}
  AgentScripts <- MCCrashScripts
  Empty = Empty
  EmptyMessage = FALSE
  NoFile = NoFile
SPECIFICATION Spec
INVARIANT QuiescentEntriesConsistent
CHECK_DEADLOCK FALSE
