\* PPTX and DOCX extraction of every kind of archive, at every budget around its size.
SPECIFICATION FairSpec
CONSTANTS
  Archives <- MCArchives
  Budgets = {1, 3, 5, 6, 7, 9}
  SlideParts <- MCSlideParts
  number <- MCNumber
  relsOf <- MCRelsOf
  NoNumber <- MCNoNumber
INVARIANTS
  DeckInOrder
  BudgetShared
  MalformedHasCause
PROPERTIES
  ExtractReturns
