CONSTANTS
  Events = {e1, e2, e3}
  None = None
  MaxSeq = 2
  MaxFaults = 2
  MaxCrashes = 1
SPECIFICATION Spec
SYMMETRY Symmetry
CHECK_DEADLOCK FALSE
INVARIANTS TypeOK NothingLost TornOnlyAtTail WriterNotBehindReader EndedMeansDrained
PROPERTY CursorOnlyAdvances
