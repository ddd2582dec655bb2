SPECIFICATION Spec
CONSTANTS
  s1 = s1
  s2 = s2
  s3 = s3
  c1 = c1
  c2 = c2
  z1 = z1
  z2 = z2
  va = va
  vb = vb
  m1 = m1
  m9 = m9
  l1 = l1
  l2 = l2
  Server = {s1}
  Client = {c1}
  Zid = {z1}
  Svc = {va, vb}
  Method = {m1, m9}
  Label = {l1, l2}
  ZidOf <- MCTwoSessions
  ServicesOf <- MCServices
  MethodsOf <- MCMethodsOf
  LabelsOf <- MCLabels
  Outcomes = {"value"}
  PanicAborts = FALSE
  Abortable = {}
  Crashable = {}
  RawClient = {c1}
  RawKeys <- MCUnknownKeys
  RawBodies = {"absent"}
  ClientService <- MCClientService
  ClientLabels <- MCPickyLabels
  Requests <- MCWellformed
  MaxCalls = 1
INVARIANTS
  UnknownIsInternalError
CHECK_DEADLOCK FALSE
