SPECIFICATION Spec
CONSTANTS
  Key = {k1, k2, k3}
  Caller = {c1, c2}
  Value = {v}
  Null = Null
  Boot = Boot
  Deferred = Deferred
  Pattern <- Patterns
  TtlArg = {0, 2}
  DefaultTtl = 1
  MaxItems = 2
  EvictionStrategy = "LRU"
  EvictionDeferred = FALSE
  ChangeDeferred = FALSE
  CleanStart = TRUE
  MaxNow = 3
  MaxUses = 2
  MaxScans = 2
SYMMETRY Symmetry
INVARIANTS
  StoreTracked
  MaxItemsHeld
