SPECIFICATION Spec
CONSTANTS
  Analysis = {k1, k2, k3}
  Direct = {d1}
  Call = {k1, k2, k3, d1}
  MaxRetries = 2
  MaxAsyncResults = 2
INVARIANTS
  TypeOK
  RecentResultIsKept
PROPERTY
  EveryFetchEnds
