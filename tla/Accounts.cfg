SPECIFICATION AccountsSpec
CONSTANTS
  Mail = {1, 2}
  Account = {1, 2}
  Redeemer = {1, 2}
  Attempts = 2
  MaxStalls = 1
  Tries = 2
  MaxFaults = 2
  Null = Null
INVARIANTS
  LateRequestsFail
  ChangesComeFromOwnMail
  BurntTokensAreExplained
  TokensAreMailed
PROPERTIES
  DeliversMail
CHECK_DEADLOCK FALSE
