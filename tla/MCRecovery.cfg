SPECIFICATION FairSpec
CONSTANTS
  w1 = w1
  v1 = v1
  j1 = j1
  Gateways = {"PAYSTACK", "FLUTTERWAVE", "INTERSWITCH", "OPAY"}
  Worker = {w1}
  Visit = {v1}
  Job = {j1}
  OthersTo = {"VOID_INITIATED", "REFUND_INITIATED"}
  MaxDisturbances = 1
INVARIANTS TypeOK OutcomeAgreesWithGateway CaptureIsBooked OverridesAreLogged PaidIsNotStranded
PROPERTIES RunLeavesCapturedAlone PaidIsCaptured
CHECK_DEADLOCK FALSE
