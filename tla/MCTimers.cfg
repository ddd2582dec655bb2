SPECIFICATION TimedSpec
CONSTANTS
  s1 = s1
  s2 = s2
  s3 = s3
  c1 = c1
  c2 = c2
  z1 = z1
  z2 = z2
  va = va
  vb = vb
  m1 = m1
  m9 = m9
  l1 = l1
  l2 = l2
  Server = {s1, s2, s3}
  Client = {c1}
  Zid = {z1, z2}
  Svc = {va, vb}
  Method = {m1}
  Label = {l1, l2}
  ZidOf <- MCSuccessor
  ServicesOf <- MCServices
  MethodsOf <- MCMethodsOf
  LabelsOf <- MCLabels
  Outcomes = {"value"}
  PanicAborts = TRUE
  Abortable = {s1}
  Crashable = {z1}
  RawClient = {}
  RawKeys = {}
  RawBodies = {}
  ClientService <- MCClientService
  ClientLabels <- MCLabelsOfBoth
  Requests <- MCSerializable
  MaxCalls = 1
INVARIANTS
  AtMostOnce
PROPERTIES
  ImplementsRpc
  CallReturns
CHECK_DEADLOCK FALSE
