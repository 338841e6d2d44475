SPECIFICATION Spec
CONSTANTS
  Request = {r1, r2}
  Doc = {d1}
  File = {f1, f2, f3}
  Null = Null
  IsArray = FALSE
  Default = Null
  Nullable = TRUE
  Calls <- NoneOrOne
  Faults <- AllFaults
  Orms = {"mongoose", "typeorm"}
SYMMETRY Symmetry
CHECK_DEADLOCK FALSE
INVARIANTS
  MissingFilesAreExplained
  FilesAreAccountedFor
