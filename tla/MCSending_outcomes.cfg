SPECIFICATION Spec
CONSTANTS
  Attempts = {a1, a2}
  Deliveries = {d1, d2}
  Identities = {own, theirs}
  own = own
  Own = own
  AddressNumbers = {25, 465}
  MaxCached = 1
  MaxSources = 3
  MaxMinted = 2
  MaxExcused = 2
  MaxOrphans = 1
  None = None
SYMMETRY Symmetry
INVARIANTS
  TypeOK
  OutcomeIsTrue
  OneEventPerAccount
  TokensAccountedFor
PROPERTY
  RefusedTokenNotReused
CHECK_DEADLOCK FALSE
