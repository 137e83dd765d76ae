SPECIFICATION Spec
CONSTANTS
  Versions <- MCVersions
  Targets <- MCTargets
  MaxOutput = 4
INVARIANTS
  TypeOK
  UnheardBehindStatus
PROPERTY
  OwnAnswer
