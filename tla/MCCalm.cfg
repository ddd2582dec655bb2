SPECIFICATION CalmSpec
CONSTANTS
  s1 = s1
  s2 = s2
  s3 = s3
  c1 = c1
  c2 = c2
  z1 = z1
  z2 = z2
  va = va
  vb = vb
  m1 = m1
  m9 = m9
  l1 = l1
  l2 = l2
  Server = {s1, s2}
  Client = {c1, c2}
  Zid = {z1, z2}
  Svc = {va, vb}
  Method = {m1}
  Label = {l1, l2}
  ZidOf <- MCTwoSessions
  ServicesOf <- MCServices
  MethodsOf <- MCMethodsOf
  LabelsOf <- MCLabels
  Outcomes = {"value", "NotImplemented"}
  PanicAborts = FALSE
  Abortable = {}
  Crashable = {}
  RawClient = {}
  RawKeys = {}
  RawBodies = {}
  ClientService <- MCClientService
  ClientLabels <- MCPickyLabels
  Requests <- MCWellformed
  MaxCalls = 2
INVARIANTS
  FoundIsReached
  AnswersArrive
CHECK_DEADLOCK FALSE
