SPECIFICATION Spec
CONSTANTS
  n1 = n1
  n2 = n2
  Names = {n1, n2}
  Within <- WithinOverlap
  VolIds = {v1, v2}
  VMs = {}
  Devices = {}
  Calls = {c1, c2}
  NoName = NoName
  NoVM = NoVM
  NoDev = NoDev
  NoVol = NoVol
  GiB = 2
  Bytes = {3}
  MaxPolls = 1
  MaxFaults = 0
  Outlive = FALSE
  Serial = TRUE
  Exclusive = TRUE
INVARIANT
  ClaimsDisjoint
SYMMETRY Sym
CHECK_DEADLOCK FALSE
