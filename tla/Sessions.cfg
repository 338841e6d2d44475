SPECIFICATION AuthenticationSpec
CONSTANTS
  Request = {1, 2, 3}
  MaxTime = 2
  Null = Null
  Login = {1, 2}
  AdminTries = 2
  MaxChanges = 1
INVARIANTS
  EndedSessionsFail
  CachedUserIsCurrent
PROPERTIES
  RevertsAreRaces
  LoginsAreJust
CHECK_DEADLOCK FALSE
