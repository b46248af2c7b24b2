SPECIFICATION Spec
CONSTANTS
  q1 = q1
  q2 = q2
  q3 = q3
  k1 = k1
  Request = {q1, q2, q3}
  Ops = {"capture", "refund", "void"}
  AmountPaise = 2
  Amounts = {1, 2}
  Key = {k1}
  LostAnswers = TRUE
  Crashes = TRUE
  MaxLive = 3
  Answers <- AnyAdapter
SYMMETRY MCSymmetry
INVARIANTS TypeOK ClaimsAreBacked AmountsAreBacked SuccessIsReal RefundNeedsCapture NoOrphanedOperation LoneRefundIsBooked
CHECK_DEADLOCK FALSE
