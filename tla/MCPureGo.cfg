\* One call over every small document, with cancellation and timeout at any moment.
SPECIFICATION FairSpec
CONSTANTS
  Documents <- MCDocuments
  MaxPages = 3
INVARIANTS
  PagesComplete
  OutcomeHasCause
PROPERTIES
  PagesReturns
  WorkerEnds
