\* embed.Run over mixed and poison inputs, every client misbehaviour, cancellation at any point.
SPECIFICATION FairSpec
CONSTANTS
  InputLists <- MCInputLists
  Configs <- MCConfigs
  Providers <- MCProvidersAll
  DefaultMaxBatchInputs = 4
  DefaultMaxBatchTokens = 4
  MaxMixed = 3
  MaxPlain = 4
  NoVector = NoVector
  UnknownID = UnknownID
INVARIANTS
  NoInputLost
  ReportedOnce
  VectorMatchesInput
  PoisonIsolated
  CallsBounded
  RequestWithinLimits
  ResultInInputOrder
PROPERTIES
  CancelHonoured
  ImplementsContract
  RunReturns
