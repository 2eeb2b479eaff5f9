SPECIFICATION Spec
CONSTANTS
  n1 = n1
  n2 = n2
  Names = {n1, n2}
  Within <- WithinApart
  VolIds = {v1, v2, v3}
  VMs = {}
  Devices = {}
  Calls = {c1, c2}
  NoName = NoName
  NoVM = NoVM
  NoDev = NoDev
  NoVol = NoVol
  GiB = 2
  Bytes = {2, 3}
  MaxPolls = 1
  MaxFaults = 1
  Outlive = TRUE
  Serial = FALSE
  Exclusive = TRUE
INVARIANTS
  OneVolumePerName
  ClaimsDisjoint
  BoundVolumeKept
  ClaimSize
PROPERTY
  ClaimsSpec
SYMMETRY Sym
CHECK_DEADLOCK FALSE
