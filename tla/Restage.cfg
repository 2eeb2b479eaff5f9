SPECIFICATION Spec
CONSTANTS
  v1 = v1
  Vols = {v1}
  Pods = {p1, p2}
  Uses <- UsesOne
  Calls = {c1, c2}
  NoPath = NoPath
  LateOps = {}
  MaxFaults = 0
  MaxLost = 0
PROPERTY
  WrittenIsKept
CHECK_DEADLOCK FALSE
