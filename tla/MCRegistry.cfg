\* One Extract call of a registry, over small sources of every kind.
SPECIFICATION RegistrySpec
CONSTANTS
  MaxInt = 7
  Limits = {3, 4}
  Sizes = {0, 1, 2, 3, 4}
  Buffers = {2, 6}
  canonical <- MCCanonical
  Invalid = "invalid"
  Preset <- MCPreset
  Extractors = {"text", "pdfNoEngine", "nil"}
  Sources <- MCSources
  MaxRegister = 1
INVARIANTS
  NeverTruncated
  OneByteOver
  DispatchAsRegistered
  ProseKept
  BodyVerbatim
