SPECIFICATION WebFairSpec
CONSTANTS
  Request = {q1, q2}
  Call = {c1, c2}
  MaxToken = 3
  NoRequest = NoRequest
INVARIANTS
  WebTypeOK
  TabTradesTokensOnce
PROPERTY
  CallsEnd
