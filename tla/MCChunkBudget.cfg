\* The budget of Split's comment, on prose whose runes have different widths.
SPECIFICATION Spec
CONSTANTS
  Sources <- MCSources
  Configs <- MCConfigs
  DefaultMaxTokens = 4
  DefaultOverlapTokens = 2
  CharsPerToken = 1
  MaxShort = 2
  MaxFenced = 1
  MaxRunes = 4
INVARIANTS
  HardSplitFitsBudget
