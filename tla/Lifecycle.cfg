SPECIFICATION FairSpec
CONSTANTS
  n1 = n1
  n2 = n2
  Names = {n1}
  Within <- WithinApart
  VolIds = {v1, v2}
  VMs = {m1}
  Devices = {d1}
  Calls = {c1, c2}
  NoName = NoName
  NoVM = NoVM
  NoDev = NoDev
  NoVol = NoVol
  GiB = 2
  Bytes = {3}
  MaxPolls = 2
  MaxFaults = 2
  Outlive = TRUE
  Serial = TRUE
  Exclusive = TRUE
INVARIANTS
  TypeOK
PROPERTIES
  ClaimEventuallyBound
  DeviceEventuallyAnswered
  UnpublishEventuallyAcked
  ReleasedEventuallySettles
CHECK_DEADLOCK FALSE
