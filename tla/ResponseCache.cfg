SPECIFICATION RSpec
CONSTANTS
  Reader = {r1, r2}
  Writer = {w1, w2}
  Caller <- Requests
  Key = {k}
  Related = {k}
  Value <- Versions
  MaxVersion = 2
  Null = Null
  Boot = Boot
  Deferred = Deferred
  Pattern <- Patterns
  TtlArg = {1}
  DefaultTtl = 1
  MaxItems = 1
  EvictionStrategy = "LRU"
  EvictionDeferred = FALSE
  ChangeStrategy = "expire-related"
  ChangeDeferred = FALSE
  CleanStart = FALSE
  MaxNow = 2
  MaxUses = 1
  MaxScans = 2
SYMMETRY Symmetry
INVARIANTS
  StaleIsExplained
PROPERTIES
  UsesCacheService
