CONSTANTS
  host = host
  other = other
  Stores = {host, other}
  HostStore = host
  Passes <- MCCalendarFirst
  AllocSteps = 1
  ForwardUndeliverable = FALSE
SPECIFICATION Spec




CHECK_DEADLOCK FALSE
INVARIANT DataHandleSound
