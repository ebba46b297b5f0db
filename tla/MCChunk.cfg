\* chunk.Split over small texts, every packing and splitting path.
SPECIFICATION Spec
CONSTANTS
  Sources <- MCSources
  Configs <- MCConfigs
  DefaultMaxTokens = 4
  DefaultOverlapTokens = 2
  CharsPerToken = 1
  MaxShort = 4
  MaxFenced = 5
  MaxRunes = 4
INVARIANTS
  StartsAdvance
  NothingLost
  SpanMatchesText
  RunesWhole
  FitsBudgetOneWidth
  OverlapWithinBudget
  NewTextInEachChunk
