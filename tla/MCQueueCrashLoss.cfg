CONSTANTS
  Ids <- MCIds
  r1 = r1
  r2 = r2
  Recips = {r1, r2}
  LineOrder <- MCLineOrder
  ReturnRcpt = r1
  Workers = {w1}
  MaxConcurrent = 1
  Targets = {0}
  Submissions <- MCSubmissions
  MaxSubmissions = 1
  MaxCrashes = 1
  MaxDiskFailures = 0
  ForwardUndeliverable = FALSE
  BounceReturn = TRUE
  BounceBlockSpam = FALSE
  ArraySize = 2
  SlotsPerBucket = 2
  Mask = 1
  Unused = Unused
  NoToken = NoToken
  PushStages = {}
  AgentScripts <- MCNoScripts
  Empty = Empty
  EmptyMessage = FALSE
  NoFile = NoFile
SPECIFICATION Spec
CHECK_DEADLOCK FALSE
INVARIANT RecipientConservation
