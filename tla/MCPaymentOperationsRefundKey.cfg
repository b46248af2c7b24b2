SPECIFICATION Spec
CONSTANTS
  q1 = q1
  q2 = q2
  q3 = q3
  k1 = k1
  Request = {q1, q2}
  Ops = {"refund"}
  AmountPaise = 2
  Amounts = {1, 2}
  Key = {k1}
  LostAnswers = TRUE
  Crashes = FALSE
  MaxLive = 1
  Answers <- MockAdapter
SYMMETRY MCSymmetry
INVARIANTS RefundKeyUsedOnce
CHECK_DEADLOCK FALSE
