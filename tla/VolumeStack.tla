---------------------------- MODULE VolumeStack ----------------------------
(* The controller of VolumeLifecycle together with the node services: the    *)
(* device the controller answered travels in a publish context to            *)
(* NodeStageVolume (pkg/driver/nodeserver.go), which formats and mounts      *)
(* whatever volume has that device on the node by then. A handler never looks *)
(* at the deadline of its call: one the kubelet has given up runs on. A node *)
(* is here its staging mounts; NodeServer has what goes on above them. The   *)
(* claims are bound, and their volumes written to, before the first step.    *)
EXTENDS VolumeLifecycle

CONSTANT Stages   \* a bound on the NodeStageVolume calls served at the same time

ASSUME StackAssumption == GiB \in Bytes

VARIABLES
  disk,       \* what is on a volume
  staged,     \* the volumes mounted on the staging path of a volume on a node
  stages,     \* the goroutines of NodeStageVolume
  put,        \* what the kubelet of a node knows of a staging path
  leftover    \* history: the nodes a volume left with a stage or a mount on them

stackVars == <<disk, staged, stages, put>>
allVars == <<vars, stackVars, leftover>>

NoStage == [pc |-> "idle", vol |-> NoVol, vm |-> NoVM, dev |-> NoDev, late |-> FALSE]
Stage == {NoStage} \cup [pc : {"mkfs", "mount"}, vol : VolIds, vm : VMs,
                         dev : Devices, late : BOOLEAN]

StackTypeOK ==
  /\ TypeOK
  /\ disk \in [VolIds -> {"empty", "written"}]
  /\ staged \in [VolIds -> [VMs -> SUBSET VolIds]]
  /\ stages \in [Stages -> Stage]
  /\ put \in [VolIds -> [VMs -> {"no", "unsure", "yes"}]]
  /\ leftover \in [VolIds -> SUBSET VMs]

OnNodes(x) == [v \in VolIds |-> [m \in VMs |-> x]]

StackInit ==
  /\ \E own \in [Names -> VolIds] :
       LET Of(v) == {n \in Names : own[n] = v} IN
       /\ \A n, k \in Names : own[n] = own[k] => n = k
       /\ claim = [n \in Names |-> [phase |-> "bound", vol |-> own[n], bytes |-> GiB]]
       /\ vols = [v \in VolIds |->
            IF Of(v) = {} THEN Absent
            ELSE [NewVolume(CHOOSE n \in Of(v) : TRUE, 1) EXCEPT !.status = "available"]]
  /\ ghosts = {} /\ calls = [c \in Calls |-> Idle]
  /\ va = OnNodes("none") /\ ctx = OnNodes(NoDev)
  /\ early = [v \in VolIds |-> {}] /\ late = [v \in VolIds |-> {}]
  /\ raced = {}
  /\ faults = 0
  /\ disk = [v \in VolIds |-> "written"]
  /\ staged = OnNodes({}) /\ stages = [s \in Stages |-> NoStage]
  /\ put = OnNodes("no") /\ leftover = [v \in VolIds |-> {}]

-----------------------------------------------------------------------------
(* The node services.                                                        *)

(* The volume a device name leads to on a node, if any.                      *)
Behind(m, d) == {w \in VolIds : vols[w].vm = m /\ vols[w].dev = d}
MountedOn(w, m) == \E v \in VolIds : w \in staged[v][m]

StageAt(s, pc) == stages[s].pc = pc
StagesOf(v, m) == {s \in Stages : stages[s].vol = v /\ stages[s].vm = m}
SetStage(s, stage) == stages' = [stages EXCEPT ![s] = stage]

(* What the kubelet learns from an answer; that of a call it has given up    *)
(* reaches nobody.                                                           *)
Learns(v, m, known) == put' = [put EXCEPT ![v][m] = known]
Answers(s, known) ==
  /\ SetStage(s, NoStage)
  /\ IF stages[s].late THEN UNCHANGED put ELSE Learns(stages[s].vol, stages[s].vm, known)

(* The kubelet stages a volume it is told is attached, one call at a time.   *)
(* NodeStageVolume refuses a publish context without a device, and is called *)
(* again.                                                                    *)
StageBegin(s, v, m) ==
  /\ va[v][m] = "attached" /\ ctx[v][m] # NoDev
  /\ put[v][m] # "yes"
  /\ StageAt(s, "idle") /\ \A t \in StagesOf(v, m) : stages[t].late
  /\ SetStage(s, [pc |-> "mkfs", vol |-> v, vm |-> m, dev |-> ctx[v][m], late |-> FALSE])
  /\ Learns(v, m, "unsure")
  /\ UNCHANGED <<vars, disk, staged>>

(* mkfs.ext4 fails when there is no such device, or it is mounted.           *)
StageFormat(s) ==
  LET free == {w \in Behind(stages[s].vm, stages[s].dev) : ~MountedOn(w, stages[s].vm)} IN
  /\ StageAt(s, "mkfs")
  /\ IF free = {}
     THEN Answers(s, "no") /\ UNCHANGED disk
     ELSE /\ \E w \in free : disk' = [disk EXCEPT ![w] = "empty"]
          /\ SetStage(s, [stages[s] EXCEPT !.pc = "mount"])
          /\ UNCHANGED put
  /\ UNCHANGED <<vars, staged>>

(* The kernel mounts a device on top of another one, but not of itself.      *)
StageMount(s) ==
  LET v == stages[s].vol
      m == stages[s].vm
      found == Behind(m, stages[s].dev) \ staged[v][m] IN
  /\ StageAt(s, "mount")
  /\ IF found = {}
     THEN Answers(s, "no") /\ UNCHANGED staged
     ELSE /\ \E w \in found : staged' = [staged EXCEPT ![v][m] = @ \cup {w}]
          /\ Answers(s, "yes")
  /\ UNCHANGED <<vars, disk>>

(* A pod of the volume writes to what its staging path shows.                *)
Write(v, m) ==
  /\ put[v][m] = "yes"
  /\ \E w \in staged[v][m] : disk' = [disk EXCEPT ![w] = "written"]
  /\ UNCHANGED <<vars, staged, stages, put>>

(* UnmountPath unmounts once, and succeeds when the path is a mount point no *)
(* more, or was none.                                                        *)
UnmountedOnce(mounts) == IF mounts = {} THEN {{}} ELSE {mounts \ {w} : w \in mounts}
Unstage(v, m) ==
  /\ put[v][m] # "no"
  /\ \A s \in StagesOf(v, m) : stages[s].late
  /\ \E mounts \in UnmountedOnce(staged[v][m]) :
       /\ staged' = [staged EXCEPT ![v][m] = mounts]
       /\ Learns(v, m, IF mounts = {} THEN "no" ELSE "unsure")
  /\ UNCHANGED <<vars, disk, stages>>

(* The kubelet gives a stage up; its goroutine goes on.                      *)
GivenUp(s) ==
  /\ Outlive /\ ~StageAt(s, "idle") /\ ~stages[s].late
  /\ SetStage(s, [stages[s] EXCEPT !.late = TRUE])
  /\ Fault(UNCHANGED ctrlVars)
  /\ UNCHANGED <<late, raced, disk, staged, put>>

NodeStep ==
  \/ \E s \in Stages :
       \/ StageFormat(s) \/ StageMount(s) \/ GivenUp(s)
       \/ \E v \in VolIds, m \in VMs : StageBegin(s, v, m)
  \/ \E v \in VolIds, m \in VMs : Write(v, m) \/ Unstage(v, m)

(* A volume is let go from a node once its kubelet does not use it.          *)
LetGo(v, m) == put[v][m] = "no" /\ Unwant(v, m)

ControlStep ==
  \/ \E c \in Calls :
       \/ \E v \in VolIds, m \in VMs : IssuePublish(c, v, m) \/ IssueUnpublish(c, v, m)
       \/ Serves(c) \/ Receive(c)
       \/ Fault(CallFails(c))
  \/ Fault(Crash)
  \/ \E v \in VolIds : Progress(v) \/ Fault(CloudFault(v) /\ UNCHANGED calls)
  \/ \E r \in ghosts : Late(r)
  \/ \E v \in VolIds, m \in VMs : Want(v, m) \/ LetGo(v, m)

(* History: a volume is let go from a node while a stage given up runs on    *)
(* there, or what it has mounted is still there, until that is gone.         *)
Busy(v, m) == StagesOf(v, m) # {} \/ staged[v][m] # {}
NotesLeftover ==
  leftover' = [v \in VolIds |->
    {m \in VMs : Busy(v, m)' /\ (m \in leftover[v] \/ va'[v][m] # "attached")}]

StackNext ==
  /\ \/ Noted(ControlStep) /\ UNCHANGED stackVars
     \/ NodeStep
  /\ NotesLeftover

StackSpec == StackInit /\ [][StackNext]_allVars

-----------------------------------------------------------------------------
(* Properties.                                                               *)

(* A staging path shows its own volume: publish contexts, devices that are   *)
(* given to other volumes, late requests and stages under way do not mix two *)
(* volumes up, but for a volume that is excused, or that was let go with a   *)
(* stage given up still on that node.                                        *)
StagedOwn ==
  \A v \in VolIds, m \in VMs :
    staged[v][m] \subseteq {v} \/ Excused(v) \/ m \in leftover[v]

(* A volume that is mounted as itself stays attached to its node: neither a  *)
(* repeated unpublish nor a late request takes it from under the mount,      *)
(* since a new attachment is protected. It takes a late detach and another   *)
(* late request beside it, or a kubelet that lets the volume go with a stage *)
(* it has given up, or the mount of one, still there.                        *)
StagedIsAttached ==
  \A v \in VolIds, m \in VMs : v \in staged[v][m] =>
    \/ vols[v].status = "in-use" /\ vols[v].vm = m
    \/ Undercut(v) \/ m \in leftover[v]

(* NodeStageVolume formats no volume but the one it is called for, also when *)
(* it outlives its call, with the same exceptions as StagedOwn.              *)
SparesOthers(s) ==
  StageFormat(s) => \A w \in VolIds \ {stages[s].vol} : disk'[w] = disk[w]
FormatsOnlyOwn ==
  [][\A s \in Stages :
       \/ SparesOthers(s)
       \/ Excused(stages[s].vol) \/ stages[s].vm \in leftover[stages[s].vol]]_allVars

-----------------------------------------------------------------------------
(* VolumeStack implements VolumeUse: a node uses a volume from the           *)
(* NodeStageVolume that finds its device until the staging path is unmounted.*)
PlaceOf(v) == IF vols[v].status = "in-use" THEN vols[v].vm ELSE NoVM
UsersOf(v) == {m \in VMs : Busy(v, m)}

Places == [v \in VolIds |-> PlaceOf(v)]
Users == [v \in VolIds |-> UsersOf(v)]
Astray == {v \in VolIds : Excused(v) \/ leftover[v] # {}}

Use == INSTANCE VolumeUse WITH
  Volumes <- VolIds, Nodes <- VMs, Nowhere <- NoVM,
  place <- Places, users <- Users, data <- disk, astray <- Astray

(* A volume is used on one node at a time, and where it is attached, it is   *)
(* not detached while it is used, and is formatted and written to by that    *)
(* node alone, step by step, but for a volume that is excused, or that was   *)
(* let go with a stage given up still on a node.                             *)
UseSpec == Use!Spec

-----------------------------------------------------------------------------
(* What the code takes for granted: a volume whose publish context has a     *)
(* device is attached, and the device is its own.                            *)
DeviceIsOwn == [][\A s \in Stages : SparesOthers(s)]_allVars
=============================================================================
