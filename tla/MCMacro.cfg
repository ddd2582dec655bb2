SPECIFICATION Spec
CONSTANTS
  Lower = {"a", "b"}
  UpperOf <- MCUpperOf
  Digit = {"1"}
  OwnFns <- MCOwnFns
  ArcFns <- MCArcFns
  Sources <- MCSources
INVARIANTS
  RulesSuffice
  DispatchRight
  AllReported
  AcceptedIsWellformed
  ExpandedAsWritten
CHECK_DEADLOCK FALSE
