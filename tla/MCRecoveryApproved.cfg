SPECIFICATION Spec
CONSTANTS
  w1 = w1
  v1 = v1
  j1 = j1
  Gateways = {"INTERSWITCH"}
  Worker = {w1}
  Visit = {v1}
  Job = {j1}
  OthersTo = {}
  MaxDisturbances = 0
INVARIANT AuthorisedIsApproved
CHECK_DEADLOCK FALSE
