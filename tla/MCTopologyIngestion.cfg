SPECIFICATION IngestionSpec
CONSTANTS
  a = a
  b = b
  http = http
  grpc = grpc
  full = full
  NoType = NoType
  ServiceId = {a, b}
  ServiceData = {full}
  DependencyType = {http, grpc}
  MaxEdge = 3
  Client = {c1}
  Subscription <- MCSubscriptions
  Snapshots <- MCSnapshots
INVARIANTS
  TypeOK
  IngestionTypeOK
  ListsMirror
  NoDanglingEdge
  GaugesFollowRequests
  EventsTellTheGraph
  OnlyUpdatesBlur
PROPERTIES
  ForwardListsImplementGraph
  ReverseListsImplementGraph
