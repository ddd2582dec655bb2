SPECIFICATION ServedSpec
CONSTANTS
  s1 = s1
  s2 = s2
  s3 = s3
  c1 = c1
  c2 = c2
  z1 = z1
  z2 = z2
  va = va
  vb = vb
  m1 = m1
  m9 = m9
  l1 = l1
  l2 = l2
  Server = {s1}
  Client = {c1, c2}
  Zid = {z1}
  Svc = {va, vb}
  Method = {m1, m9}
  Label = {l1, l2}
  ZidOf <- MCTwoSessions
  ServicesOf <- MCServices
  MethodsOf <- MCMethodsOf
  LabelsOf <- MCLabels
  Outcomes = {"value"}
  PanicAborts = FALSE
  Abortable = {s1}
  Crashable = {z1}
  RawClient = {c2}
  RawKeys <- MCRawKeys
  RawBodies = {"absent", "wellformed", "malformed"}
  ClientService <- MCOneService
  ClientLabels <- MCPickyLabels
  Requests <- MCSerializable
  MaxCalls = 1
INVARIANTS
  PendingIsHeld
  AdvertisedAnswerable
PROPERTIES
  ServeSurvivesGenerated
  CallReturns
  Drains
CHECK_DEADLOCK FALSE
