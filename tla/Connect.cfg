SPECIFICATION FairSpec
CONSTANTS
  Protocols <- AllProtocols
  NtlmRounds = 2
  Exchanges = 2
  MaxAttempts = 4
INVARIANTS ConnectedIsAuthenticated OnlyRequestInClear TokensGoodOnce
PROPERTIES Answered ServerFreed
CHECK_DEADLOCK FALSE
