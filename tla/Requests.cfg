SPECIFICATION Spec
CONSTANTS
  AuthType = {"jwt", "key"}
  Listed = {"jwt"}
  Nobody = Nobody
  Attribute = {"a", "b"}
  Choice = {1, 2}
  Part = {"id", "x", "file", "r", "r.x"}
  Dotted = {"r.x"}
  Linked = {"r"}
  Identity = "id"
  MaxBeside = 1
  FilePart = "file"
  Table = {"t1", "t2"}
  Root = "t1"
  FieldName = {"a", "b", "b_c", "name", "undefined"}
  Underscored = {"b_c"}
  Value = {1, 2}
  Relation = {"tags", "items"}
  Null = Null
  Record = {1, 2, 3}
  MaxSize = 2
  DefaultSize = 1
  Pool = 2
  MaxEdits = 2
  Since = 3
  NoRange = NoRange
  Model = {m1, m2, m3}
  FirstModel = m1
  LastModel = m3
  Parent = {"p1", "p2"}
  Child = {"c1", "c2"}
  Grandchild = {"g1"}
  NoDoc = NoDoc
  Id = {1, 2}
  Content = {1, 2}
  MaxBulk = 2
  MaxOthers = 1
  Client = {u1, u2}
  Fields <- MCFields
  Many = {"photos", "papers"}
  Upload = {1, 2, 3, 4, 5, 6, 7}
  MaxCount = 3
  MaxLength = 2
  NaN = NaN
  Undefined = Undefined
  Calls <- MCCalls
  Policing <- MCPolicing
  Besides <- MCBesides
  Shapes <- MCShapes
  Filter <- MCFilter
  Depth <- MCDepth
  Walks <- MCWalks
  Summaries <- MCSummaries
  Graphs <- MCGraphs
  Deletions <- MCDeletions
  Bulks <- MCBulks
  Documents <- MCDocuments
  Sendings <- MCSendings
  Askings <- MCAskings
  Downloaded <- MCDownloaded
  Caller = {c1, c2}
  Default = Default
  Layouts <- MCLayouts
  Declaring = {"a", "b"}
INVARIANTS
  HandlersAreGuarded
  DisabledOperationsAreOff
  RoutesReachTheirHandlers
  
  JoinsStand
  PolicyDecidesPopulation
  FiltersKeepTheirMeaning
  WalksShowEverything
  ConnectionsAreReturned
  ItemsStandForSteps
  HitsAreCurrent
  ReferencesFollowDeletions
  FilesFollowDeletions
  OnlyDependentsAreDeleted
  BulkAnswersAreExplained
  FileAnswersHold
  DownloadsAreExact
  StoredFilesStand
PROPERTIES
  FilesLeaveForAReason
CHECK_DEADLOCK FALSE
