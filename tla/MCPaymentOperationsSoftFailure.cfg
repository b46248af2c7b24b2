SPECIFICATION Spec
CONSTANTS
  q1 = q1
  q2 = q2
  q3 = q3
  k1 = k1
  Request = {q1, q2}
  Ops = {"refund", "void"}
  AmountPaise = 2
  Amounts = {1, 2}
  Key = {k1}
  LostAnswers = FALSE
  Crashes = FALSE
  MaxLive = 1
  Answers <- InterswitchAdapter
SYMMETRY MCSymmetry
INVARIANTS OutcomeNeedsSuccess
CHECK_DEADLOCK FALSE
