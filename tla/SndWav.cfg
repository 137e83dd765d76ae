SPECIFICATION Spec
CONSTANTS
  Periods = {1, 2}
  Lengths <- MCLengths
  Others <- MCOthers
  MaxFaults = 2
INVARIANTS
  TypeOK
  RecordedInOrder
  PlayedInOrder
  PlayedAll
  RoundTrip
PROPERTY
  PlaybackEnds
CHECK_DEADLOCK FALSE
