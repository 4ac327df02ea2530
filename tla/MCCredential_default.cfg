SPECIFICATION Spec
CONSTANTS
  Ids = {i1, i2}
  Names = {n1, n2}
  NoName = NoName
  Callers = {c1, c2}
  Senders = {s1}
  None = None
  Ours = Ours
  Sources = {o1, o2}
  MaxChanges = 1
SYMMETRY Alike
INVARIANTS
  TypeOK
  NeverStandsIn
PROPERTIES
  DefaultStands
