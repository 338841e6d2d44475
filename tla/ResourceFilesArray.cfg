SPECIFICATION Spec
CONSTANTS
  Request = {r1, r2}
  Doc = {d1, d2}
  File = {f1, f2}
  Null = Null
  IsArray = TRUE
  Default <- Empty
  Nullable = FALSE
  Calls <- OneOrTwo
  Faults <- BeforeSave
  Orms = {"mongoose"}
SYMMETRY Symmetry
CHECK_DEADLOCK FALSE
INVARIANTS
  NamesHaveFiles
  FilesBelongToOneDocument
