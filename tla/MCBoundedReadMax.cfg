\* A limit of the largest integer, which stands for math.MaxInt64.
SPECIFICATION Spec
CONSTANTS
  MaxInt = 7
  Limits = {7}
  Sizes <- MCSizes
  Buffers <- MCBuffers
INVARIANTS
  PositiveLimitWorks
