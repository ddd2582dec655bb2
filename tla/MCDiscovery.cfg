SPECIFICATION DiscoverySpec
CONSTANTS
  s1 = s1
  s2 = s2
  s3 = s3
  f1 = f1
  l1 = l1
  l2 = l2
  Session = {s1, s2, s3}
  Foreign = {f1}
  LabelSets <- MCLabelSets
  Wanted = {l1}
  Tout = 2
  ListTout = 1
  FormatOf <- MCFormatOf
  OwnFormat = "json"
INVARIANTS
  DelayBounded
  UpIsFound
  StalenessBounded
  NeverMisread
CHECK_DEADLOCK FALSE
