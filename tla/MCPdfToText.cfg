\* One call: every race of the child, the copying, the deadline and the caller.
SPECIFICATION FairSpec
CONSTANTS
  MaxOutput = 5
  WriteCap = 6
  Writes <- MCWrites
INVARIANTS
  OutputWholeAndBounded
  CapReportedAsCap
  PageNumbersPositional
PROPERTIES
  PagesReturns
