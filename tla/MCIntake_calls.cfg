SPECIFICATION Spec
CHECK_DEADLOCK FALSE
CONSTANTS
  c1 = c1
  c2 = c2
  Calls = {c1, c2}
  Sources = {s1, s2}
  Keys = {k1}
  NoKey = NoKey
  Recipients = {"a"}
  Forms = {"plain", "two senders", "same recipient twice"}
  Attempts <- FirstRepeats
  NoMessage = NoMessage
SYMMETRY SameSources
INVARIANTS
  TypeOK
  ReceiptsAgree
  StoredWhole
PROPERTY
  ImplementsAcceptance
