SPECIFICATION Spec
CHECK_DEADLOCK FALSE
CONSTANTS
  Asks = {a1, a2}
  Tries = {t1, t2}
  Visits = {v1}
  Roles = {"customer", "super_admin"}
  NoRow = NoRow
  Nobody = Nobody
  MaxCodeRequests = 1
  CodeRequestWindow = 1
  MaxGuesses = 3
  CodeLifetime = 2
  SessionLifetime = 2
  IdleTimeout = 2
  MaxClock = 2
  MaxOpen = 2
SYMMETRY SameRequests
INVARIANT TypeOK
INVARIANT SpentStaysSpent
INVARIANT LimitCountsLetters
PROPERTY LetInOnlyWhileSignedIn
