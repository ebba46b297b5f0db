\* The pass over every short text, each prefix of it included.
SPECIFICATION Spec
CONSTANTS
  LineKinds <- MCLineKinds
  MaxLines = 4
INVARIANTS
  UnitsTile
  StartsAreHeadings
