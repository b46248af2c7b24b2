SPECIFICATION Spec
CONSTANTS
  q1 = q1
  q2 = q2
  q3 = q3
  k1 = k1
  k2 = k2
  o1 = o1
  o2 = o2
  NoRequest = NoRequest
  Request = {q1, q2}
  Key = {k1}
  Order = {o1, o2}
  OrdersOf <- OrderShared
  Answers = {"authorised", "declined", "pending"}
  Crashes = FALSE
SYMMETRY MCSymmetry
INVARIANTS RetryAfterFailure
CHECK_DEADLOCK FALSE
