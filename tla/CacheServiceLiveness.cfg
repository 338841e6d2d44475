SPECIFICATION Spec
CONSTANTS
  Key = {k1, k2}
  Caller = {c1, c2}
  Value = {v}
  Null = Null
  Boot = Boot
  Deferred = Deferred
  Pattern <- Patterns
  TtlArg = {0, 2}
  DefaultTtl = 1
  MaxItems = 1
  EvictionStrategy = "FIFO"
  EvictionDeferred = FALSE
  ChangeDeferred = FALSE
  CleanStart = TRUE
  MaxNow = 2
  MaxUses = 1
  MaxScans = 2
PROPERTIES
  CallsReturn
