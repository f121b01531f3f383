SPECIFICATION FairSpec
CONSTANTS
  a = a
  b = b
  None = None
  Replica = {r1}
  ServiceId = {a, b}
  Link <- OneLink
  DependencyType = {http}
  NoType = NoType
  MaxDependencies = 2
  MaxSaving = 2
INVARIANTS
  TypeOK
  ExportedGraphIsNewest
PROPERTY
  SettledGraphIsStored
