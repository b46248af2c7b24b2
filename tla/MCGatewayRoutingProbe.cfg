SPECIFICATION Spec
CONSTANTS
  g1 = g1
  g2 = g2
  r1 = r1
  r2 = r2
  r3 = r3
  f1 = f1
  f2 = f2
  a1 = a1
  Gateway = {g1}
  Request = {r1, r2}
  Flush = {f1}
  Admin = {a1}
  Threshold = {1, 2}
  seededThreshold = 1
  Weighting <- Weights
  Latency = {1}
  Cost <- Costs
  halfOpenRequests = 1
  degradedSkipThreshold = 1200
  MaxDisturbances = 1
PROPERTIES OpenCircuitIsProbed
CHECK_DEADLOCK FALSE
