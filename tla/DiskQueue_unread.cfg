CONSTANTS
  Events = {e1, e2, e3}
  None = None
  MaxSeq = 1
  MaxFaults = 0
  MaxCrashes = 0
SPECIFICATION Spec
CHECK_DEADLOCK FALSE
INVARIANT UnreadNeverDeleted
