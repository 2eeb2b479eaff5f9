SPECIFICATION HostSpec
CONSTANTS
  ctrl = ctrl
  new = new
  node = node
  Procs = {ctrl, new, node}
  Enabled <- Started
  NoProc = NoProc
  Stale = Stale
  Clients = {attacher}
  Registrar = registrar
  MaxFaults = 2
INVARIANTS
  HostTypeOK
  ServedByController
PROPERTIES
  StoppedServerEndsProcess
  NodeAnswersAgain
  Settles
  NodeRegistered
CHECK_DEADLOCK FALSE
