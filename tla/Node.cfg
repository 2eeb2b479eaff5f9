SPECIFICATION FairSpec
CONSTANTS
  v1 = v1
  Vols = {v1}
  Pods = {p1, p2}
  Uses <- UsesOne
  Calls = {c1, c2}
  NoPath = NoPath
  LateOps = {"stage", "unstage", "publish", "unpublish"}
  MaxFaults = 1
  MaxLost = 1
INVARIANTS
  TypeOK
  RunningPodSeesVolume
  UnpublishedIsUnmounted
  MountsBounded
PROPERTIES
  RunningPodKeepsData
  GoneEventuallyUnmounted
  WantedEventuallyRuns
CHECK_DEADLOCK FALSE
