SPECIFICATION Spec
CONSTANTS
  n1 = n1
  n2 = n2
  Names = {n1}
  Within <- WithinApart
  VolIds = {v1}
  VMs = {m1, m2}
  Devices = {d1}
  Calls = {c1, c2}
  NoName = NoName
  NoVM = NoVM
  NoDev = NoDev
  NoVol = NoVol
  GiB = 2
  Bytes = {3}
  MaxPolls = 2
  MaxFaults = 0
  Outlive = FALSE
  Serial = TRUE
  Exclusive = TRUE
INVARIANT
  GoneVolumesAreDeleted
SYMMETRY Sym
CHECK_DEADLOCK FALSE
