SPECIFICATION Spec
CONSTANTS
  p1 = p1
  p2 = p2
  i1 = i1
  Absent = Absent
  c1 = c1
  c2 = c2
  Pods = {p1, p2}
  Ids = {i1}
  IdOf <- SameId
  Annotations <- MCAnnotations
  Conns = {c1, c2}
  Worlds <- MCWorlds
  MaxChanges = 1
  MaxRelists = 1
INVARIANTS QuotaExact
PROPERTIES RegistryFollowsPods
CHECK_DEADLOCK FALSE
