SPECIFICATION Spec
CONSTANTS
  Request = {r1, r2}
  Doc = {d1, d2}
  File = {f1, f2, f3}
  Null = Null
  IsArray = TRUE
  Default <- Empty
  Nullable = FALSE
  Calls <- NoneOrOne
  Faults = {"meta"}
  Orms = {"mongoose"}
SYMMETRY Symmetry
CHECK_DEADLOCK FALSE
PROPERTIES
  ErrorsLeaveNoFiles
