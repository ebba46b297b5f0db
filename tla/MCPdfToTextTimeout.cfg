\* A cancellation between the check of ctx and that of the derived context.
SPECIFICATION Spec
CONSTANTS
  MaxOutput = 5
  WriteCap = 6
  Writes <- MCWrites
INVARIANTS
  TimeoutIsOwn
