SPECIFICATION BuilderSpec
CONSTANTS
  z1 = z1
  z2 = z2
  na = na
  nb = nb
  oa1 = oa1
  oa2 = oa2
  ob = ob
  l1 = l1
  l2 = l2
  BuilderSession = {z1, z2}
  ServiceObject = {oa1, oa2, ob}
  NameOf <- MCNameOf
  ServiceMaps <- MCServiceMaps
  BuilderLabel = {l1, l2}
  Timeouts = {1, 2}
  DefaultTimeout = 60
  MaxOps = 4
INVARIANTS
  BuiltAsAsked
CHECK_DEADLOCK FALSE
