CONSTANTS
  host = host
  other = other
  Stores = {host, other}
  HostStore = host
  Passes <- MCPasses
  AllocSteps = 1
  ForwardUndeliverable = FALSE
SPECIFICATION Spec
INVARIANT TypeOK
INVARIANT OneDeliveryPerStore
INVARIANT RcptOnlyAfterAccept
INVARIANT SessionsEnded
CHECK_DEADLOCK FALSE
