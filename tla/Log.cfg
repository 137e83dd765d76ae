SPECIFICATION LogSpec
CONSTANTS
  Idents <- MCIdents
  Channels <- MCChannels
  LogLevels <- MCLogLevels
INVARIANTS
  LogTypeOK
  SyslogReady
  OneIdentity
