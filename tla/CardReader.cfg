SPECIFICATION Spec
CONSTANTS
  Cards <- MCCards
  NoCard = NoCard
  RxMax = 64
  Pieces = {14}
INVARIANTS
  TypeOK
  ShownInStep
PROPERTIES
  FoundIsShown
  KeepsPolling
  BackInStep
