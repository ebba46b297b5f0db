\* A response with an unknown ID leaves inputs both embedded and failed.
SPECIFICATION Spec
CONSTANTS
  InputLists <- MCInputLists
  Configs <- MCConfigs
  Providers <- MCProvidersAll
  DefaultMaxBatchInputs = 4
  DefaultMaxBatchTokens = 4
  MaxMixed = 2
  MaxPlain = 2
  NoVector = NoVector
  UnknownID = UnknownID
INVARIANT
  RecordsAndFailuresDisjoint
