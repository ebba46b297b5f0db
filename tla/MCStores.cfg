\* Concurrent callers over either store, with lost requests and lost responses.
SPECIFICATION FairSpec
CONSTANTS
  c1 = c1
  c2 = c2
  Clients = {c1, c2}
  Keys = {1, 2}
  Bodies <- MCBodies
  PrefixSets <- MCPrefixSets
  PageSize = 1
  MaxInt = 7
  MaxComposeSources = 2
  SourceLists <- MCSourceLists
  MaxCalls = 2
INVARIANTS
  ReadsAsContract
PROPERTIES
  ImplementsStore
  ListFaithful
  ListReturns
\* Callers may stop calling.
CHECK_DEADLOCK FALSE
