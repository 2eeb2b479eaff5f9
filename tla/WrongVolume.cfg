SPECIFICATION StackSpec
CONSTANTS
  Names = {n1, n2}
  Within <- Apart
  VolIds = {v1, v2}
  VMs = {m1, m2}
  Devices = {d1}
  Calls = {c1}
  Stages = {s1, s2}
  NoName = NoName
  NoVM = NoVM
  NoDev = NoDev
  NoVol = NoVol
  GiB = 2
  Bytes = {2}
  MaxPolls = 1
  MaxFaults = 0
  Outlive = FALSE
  Serial = TRUE
  Exclusive = TRUE
PROPERTY
  DeviceIsOwn
SYMMETRY Sym
CHECK_DEADLOCK FALSE
