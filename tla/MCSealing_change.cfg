SPECIFICATION FairSealingSpec
CONSTANTS
  gateway = gateway
  dispatcher = dispatcher
  register = register
  send1 = send1
  send2 = send2
  Credentials = {c1}
  Webhooks = {h1}
  Processes = {gateway, dispatcher}
  Tasks = {register, send1, send2}
  Host <- InTheirBinary
  Secrets = {s1}
  NoSecret = NoSecret
  LastKey = 3
INVARIANTS
  SealingTypeOK
  AlwaysOpens
  RotationStands
PROPERTY IdentitiesMoveOn
