SPECIFICATION Spec
CONSTANTS
  g1 = g1
  g2 = g2
  r1 = r1
  r2 = r2
  r3 = r3
  f1 = f1
  f2 = f2
  a1 = a1
  Gateway = {g1, g2}
  Request = {r1, r2, r3}
  Flush = {f1, f2}
  Admin = {a1}
  Threshold = {1, 2}
  seededThreshold = 2
  Weighting <- Weights
  Latency = {1}
  Cost <- Costs
  halfOpenRequests = 1
  degradedSkipThreshold = 1200
  MaxDisturbances = 1
INVARIANTS TypeOK OpensWhenEarned OnlyStragglersCallOpen RoutedAsRecorded SamplesAreAccountedFor
SYMMETRY Interchangeable
CHECK_DEADLOCK FALSE
