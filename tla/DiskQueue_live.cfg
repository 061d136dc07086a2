CONSTANTS
  Events = {e1, e2}
  None = None
  MaxSeq = 2
  MaxFaults = 1
  MaxCrashes = 1
SPECIFICATION QuietSpec
CHECK_DEADLOCK FALSE
INVARIANT NothingSkipped
PROPERTIES ImplementsAtLeastOnce SentIsHanded
