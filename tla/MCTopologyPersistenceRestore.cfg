SPECIFICATION FairSpec
CONSTANTS
  a = a
  b = b
  None = None
  Replica = {r1}
  ServiceId = {a}
  Link <- SelfLink
  DependencyType = {http}
  NoType = NoType
  MaxDependencies = 2
  MaxSaving = 2
PROPERTY
  StartRestoresLatest
