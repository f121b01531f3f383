SPECIFICATION QueriesSpec
CONSTANTS
  a = a
  b = b
  c = c
  d = d
  http = http
  grpc = grpc
  low = low
  high = high
  NoType = NoType
  AnyFilter = AnyFilter
  ServiceId = {a, b, c, d}
  ServiceData = {low, high}
  DependencyType = {http, grpc}
  MaxEdge = 5
  MaxWrites = 2
  DefaultDepth = 4
  DefaultRadius = 3
  Snapshots <- MCSnapshots
  ChangeType = {"deprecation", "retry_change"}
  Severity <- MCSeverity
  Criticality <- MCCriticality
  Api <- MCApi
INVARIANTS
  TransitiveIsNearest
  BlastRadiusIsMutual
  CyclesAreComponents
  SortRespectsDependencies
  ShortestPathIsShortest
  SubgraphIsInduced
  AnalysisAgreesWithTopology
  RiskGrowsWithGraph
  
  CompatibleStepsAddUp
CHECK_DEADLOCK FALSE
