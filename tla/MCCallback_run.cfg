SPECIFICATION Spec
CHECK_DEADLOCK FALSE
CONSTANTS
  Callers = {c1, c2}
  Workers = {w1, w2}
  Urls = {u1, u2}
  NoUrl = NoUrl
  MaxFailures = 2
  MaxCount = 3
  MaxSecrets = 2
SYMMETRY Interchangeable
INVARIANT TypeOK
INVARIANT CallsAsRegistered
INVARIANT DeadIsSwitchedOff
