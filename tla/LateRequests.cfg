SPECIFICATION StackSpec
CONSTANTS
  Names = {n1}
  Within <- Apart
  VolIds = {v1}
  VMs = {m1, m2}
  Devices = {d1}
  Calls = {c1, c2}
  Stages = {s1, s2}
  NoName = NoName
  NoVM = NoVM
  NoDev = NoDev
  NoVol = NoVol
  GiB = 2
  Bytes = {2}
  MaxPolls = 1
  MaxFaults = 3
  Outlive = TRUE
  Serial = TRUE
  Exclusive = TRUE
INVARIANTS
  StagedIsAttached
  AttachmentAccounted
  ContextIsAttachment
  UnprotectedOnlyWhenLeaving
PROPERTIES
  DetachOnlyWhenLeaving
  UseSpec
SYMMETRY Sym
CHECK_DEADLOCK FALSE
