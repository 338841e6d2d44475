SPECIFICATION Spec
CONSTANTS
  Key = {k1, k2}
  Caller = {c1}
  Value = {v}
  Null = Null
  Boot = Boot
  Deferred = Deferred
  Pattern <- Patterns
  TtlArg = {0, 2}
  DefaultTtl = 1
  MaxItems = 1
  EvictionStrategy = "LFU"
  EvictionDeferred = TRUE
  ChangeDeferred = TRUE
  CleanStart = FALSE
  MaxNow = 3
  MaxUses = 1
  MaxScans = 1
SYMMETRY Symmetry
PROPERTIES
  StaysTracked
  ReloadTracks
