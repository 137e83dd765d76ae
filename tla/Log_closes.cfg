SPECIFICATION LogSpec
CONSTANTS
  Idents <- MCIdents
  Channels <- MCChannels
  LogLevels <- MCLogLevels
INVARIANT
  ClosedHoldsNothing
