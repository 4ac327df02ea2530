SPECIFICATION Spec
CHECK_DEADLOCK FALSE
CONSTANTS
  p1 = p1
  p2 = p2
  s1 = s1
  s2 = s2
  s3 = s3
  s4 = s4
  People = {p1, p2}
  Sources = {s1, s2, s3, s4}
  ApiKeys = {k1}
  Requests = {r1, r2, r3, r4}
  Owner <- TwoOwners
  FirstRole <- TwoGovern
  Nobody = Nobody
  Nothing = Nothing
  MaxSources = 1
  MaxOpen = 2
SYMMETRY SameForms
INVARIANT TypeOK
INVARIANT OwnedWithinLimit
PROPERTY ChangedOnlyByTheEntitled
