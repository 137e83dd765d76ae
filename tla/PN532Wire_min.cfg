SPECIFICATION Spec
CONSTANTS
  Commands <- MCCommands
  Strays <- MCStrays
  MaxLead = 2
  MaxData = 2
  MaxPad = 2
CHECK_DEADLOCK FALSE
INVARIANT
  PostambleIgnored
