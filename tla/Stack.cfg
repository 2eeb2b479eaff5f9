SPECIFICATION OwnedSpec
CONSTANTS
  Names = {n1, n2}
  Within <- Apart
  VolIds = {v1, v2}
  VMs = {m1, m2}
  Devices = {d1}
  Calls = {c1}
  Stages = {s1}
  NoName = NoName
  NoVM = NoVM
  NoDev = NoDev
  NoVol = NoVol
  GiB = 2
  Bytes = {2}
  MaxPolls = 1
  MaxFaults = 1
  Outlive = TRUE
  Serial = TRUE
  Exclusive = TRUE
INVARIANTS
  StagedOwn
PROPERTIES
  FormatsOnlyOwn
SYMMETRY Sym
CHECK_DEADLOCK FALSE
