SPECIFICATION LimitSpec
CHECK_DEADLOCK FALSE
CONSTANTS
  Sources = {s1, s2}
  NoSource = NoSource
  Callers = {c1, c2}
  Unit = 2
  Burst = 2
  SweepEvery = 3
  MaxNow = 5
SYMMETRY Interchangeable
INVARIANTS
  LimitTypeOK
  WithinQuota
PROPERTY
  ImplementsQuota
