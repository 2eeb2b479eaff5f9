----------------------------- MODULE NodeServer -----------------------------
(* The CSI node service of one node, pkg/driver/nodeserver.go with           *)
(* UnmountPath of pkg/utils/mount/mount.go, under the kubelet that drives    *)
(* it. A handler runs in a goroutine of its own, takes no lock and never     *)
(* looks at the deadline of its call; it is split at each command it runs    *)
(* (mkfs.ext4, mount, umount). The kubelet, the commands and the kernel's    *)
(* mounts are external, modelled as far as the handlers depend on them.      *)
EXTENDS Integers, Sequences

CONSTANTS
  Vols,       \* the volumes used on the node; a volume names its staging path
  Pods,       \* the pods; a pod names its target path
  Uses,       \* the volume of each pod
  Calls,      \* a bound on the calls served at the same time
  NoPath,
  LateOps,    \* the operations that may outlive the deadline of their call
  MaxFaults,  \* a bound on failed commands and reboots
  MaxLost     \* a bound on calls that are given up and on restarts of the driver

ASSUME NodeAssumption ==
  /\ Vols \cap Pods = {} /\ NoPath \notin Vols \cup Pods
  /\ Uses \in [Pods -> Vols]
  /\ LateOps \subseteq {"stage", "unstage", "publish", "unpublish"}
  /\ MaxFaults \in Nat /\ MaxLost \in Nat

VARIABLES
  disk,       \* what is on a volume
  stack,      \* the mounts on each path, the last one on top
  calls,      \* the goroutines of the node service
  put,        \* what the kubelet knows of each path
  wants,      \* whether a pod is to run on the node
  told,       \* whether a volume is attached, and its publish context has the device
  disturbed,  \* history: the paths that a call given up has changed since
  forgotten,  \* history: the paths mounted when a publish was answered with an error
  faults, lost

vars == <<disk, stack, calls, put, wants, told, disturbed, forgotten, faults, lost>>
nodeVars == <<disk, stack>>
kubeVars == <<put, wants, told, disturbed, forgotten>>

Paths == Vols \cup Pods
VolumeOf(x) == IF x \in Vols THEN x ELSE Uses[x]

(* A mount shows a volume's file system, or the plain directory the staging  *)
(* path is when nothing is mounted on it.                                    *)
Shows == {"volume", "directory"}

Call == [op : {"none", "stage", "unstage", "publish", "unpublish"},
         pc : {"idle", "mkfs", "mount", "bind", "check", "umount", "recheck", "replied"},
         path : Paths \cup {NoPath}, device : BOOLEAN, ok : BOOLEAN, late : BOOLEAN]

Idle == [op |-> "none", pc |-> "idle", path |-> NoPath,
         device |-> FALSE, ok |-> FALSE, late |-> FALSE]

TypeOK ==
  /\ disk \in [Vols -> {"blank", "empty", "written"}]
  /\ stack \in [Paths -> Seq(Shows)]
  /\ \A v \in Vols : stack[v] \in {<<>>, <<"volume">>}
  /\ calls \in [Calls -> Call]
  /\ put \in [Paths -> {"no", "unsure", "yes"}]
  /\ wants \in [Pods -> BOOLEAN]
  /\ told \in [Vols -> BOOLEAN] /\ disturbed \subseteq Paths /\ forgotten \subseteq Paths
  /\ faults \in 0 .. MaxFaults /\ lost \in 0 .. MaxLost

Init ==
  /\ disk = [v \in Vols |-> "blank"]
  /\ stack = [x \in Paths |-> <<>>]
  /\ calls = [c \in Calls |-> Idle]
  /\ put = [x \in Paths |-> "no"]
  /\ wants = [p \in Pods |-> FALSE]
  /\ told = [v \in Vols |-> FALSE] /\ disturbed = {} /\ forgotten = {}
  /\ faults = 0 /\ lost = 0

-----------------------------------------------------------------------------
(* The handlers.                                                             *)

At(c, pc) == calls[c].pc = pc
Now(c, call) == calls' = [calls EXCEPT ![c] = call]
Goto(c, pc) == Now(c, [calls[c] EXCEPT !.pc = pc])
Reply(c, ok) == Now(c, [calls[c] EXCEPT !.pc = "replied", !.ok = ok])

Here(c) == calls[c].path
IsMounted(x) == stack[x] # <<>>
Top(x) == stack[x][Len(stack[x])]
Push(x, shown) == stack' = [stack EXCEPT ![x] = Append(@, shown)]
Pop(x) == stack' = [stack EXCEPT ![x] = SubSeq(@, 1, Len(@) - 1)]

(* The device is in use when its file system is mounted somewhere; mkfs.ext4 *)
(* with a single -F leaves such a device alone.                              *)
InUse(v) == \E x \in Paths : VolumeOf(x) = v /\ \E i \in DOMAIN stack[x] : stack[x][i] = "volume"
FormatsForced(v) == told[v]        \* mutant: -F given twice
FormatsBlank(v) == disk[v] = "blank" /\ ~InUse(v)   \* mutant: no -F at all
Formats(v) == told[v] /\ ~InUse(v)

(* NodeStageVolume: a file system is made on every stage.                    *)
StageFormat(c) ==
  /\ At(c, "mkfs")
  /\ IF calls[c].device /\ Formats(Here(c))
     THEN disk' = [disk EXCEPT ![Here(c)] = "empty"] /\ Goto(c, "mount")
     ELSE UNCHANGED disk /\ Reply(c, FALSE)
  /\ UNCHANGED stack

(* The kernel refuses to mount a device on top of itself, and one that is    *)
(* detached.                                                                 *)
StageMountAgain(c) ==           \* mutant: a bind mount, which it does not refuse
  /\ At(c, "mount")
  /\ Push(Here(c), "volume")
  /\ Reply(c, TRUE)
  /\ UNCHANGED disk
StageMount(c) ==
  /\ At(c, "mount")
  /\ IF IsMounted(Here(c)) \/ ~told[Here(c)]
     THEN UNCHANGED stack /\ Reply(c, FALSE)
     ELSE Push(Here(c), "volume") /\ Reply(c, TRUE)
  /\ UNCHANGED disk

(* NodePublishVolume: a bind mount of whatever the staging path shows.       *)
PublishUnstaged(c) ==           \* mutant: the staging path is not looked at
  /\ At(c, "bind")
  /\ Push(Here(c), "directory")
  /\ Reply(c, TRUE)
  /\ UNCHANGED disk
PublishChecked(c) ==            \* mutant: what is mounted is looked at afterwards
  LET v == VolumeOf(Here(c)) IN
  /\ At(c, "bind")
  /\ Push(Here(c), IF IsMounted(v) THEN Top(v) ELSE "directory")
  /\ Reply(c, IsMounted(v))
  /\ UNCHANGED disk
PublishBind(c) ==
  LET v == VolumeOf(Here(c)) IN
  /\ At(c, "bind")
  /\ Push(Here(c), IF IsMounted(v) THEN Top(v) ELSE "directory")
  /\ Reply(c, TRUE)
  /\ UNCHANGED disk

(* NodeUnpublishVolume and NodeUnstageVolume: UnmountPath unmounts once, and *)
(* succeeds when the path is a mount point no more.                          *)
UnmountCheck(c) ==
  /\ At(c, "check")
  /\ IF IsMounted(Here(c)) THEN Goto(c, "umount") ELSE Reply(c, TRUE)
  /\ UNCHANGED nodeVars

Unmount(c) ==
  /\ At(c, "umount")
  /\ IF IsMounted(Here(c))
     THEN Pop(Here(c)) /\ Goto(c, "recheck")
     ELSE UNCHANGED stack /\ Reply(c, FALSE)
  /\ UNCHANGED disk

UnmountAnswerBlind(c) ==        \* mutant: no second look
  /\ At(c, "recheck")
  /\ Reply(c, TRUE)
  /\ UNCHANGED nodeVars
UnmountAnswer(c) ==
  /\ At(c, "recheck")
  /\ Reply(c, ~IsMounted(Here(c)))
  /\ UNCHANGED nodeVars

CallStep(c) ==
  \/ StageFormat(c) \/ StageMount(c) \/ PublishBind(c)
  \/ UnmountCheck(c) \/ Unmount(c) \/ UnmountAnswer(c)

(* A command fails: nothing is mounted or unmounted; mkfs.ext4 may have      *)
(* written to the device.                                                    *)
CommandFails(c) ==
  /\ calls[c].pc \in {"mkfs", "mount", "bind", "umount"}
  /\ Reply(c, FALSE)
  /\ disk' \in IF At(c, "mkfs") /\ calls[c].device /\ Formats(Here(c))
               THEN {disk, [disk EXCEPT ![Here(c)] = "blank"]}
               ELSE {disk}
  /\ UNCHANGED stack

-----------------------------------------------------------------------------
(* The kubelet.                                                              *)

PodsOf(v) == {p \in Pods : Uses[p] = v}
Running(p) == wants[p] /\ put[p] = "yes"

(* One operation at a time for a volume, but for the unpublishes of its      *)
(* pods; a call the kubelet has given up does not count.                     *)
Excludes(a, op, x) ==
  /\ a # Idle /\ ~a.late
  /\ VolumeOf(a.path) = VolumeOf(x)
  /\ ~(a.op = "unpublish" /\ op = "unpublish" /\ a.path # x)

Issue(c, op, pc, x) ==
  /\ calls[c] = Idle
  /\ \A d \in Calls : ~Excludes(calls[d], op, x)
  /\ Now(c, [Idle EXCEPT !.op = op, !.pc = pc, !.path = x,
                         !.device = told[VolumeOf(x)]])
  /\ put' = [put EXCEPT ![x] = "unsure"]
  /\ forgotten' = forgotten \ {x}
  /\ UNCHANGED <<nodeVars, wants, told, disturbed>>

IssueStage(c, v) ==
  /\ put[v] # "yes"
  /\ \E p \in PodsOf(v) : wants[p]
  /\ Issue(c, "stage", "mkfs", v)

IssuePublish(c, p) ==
  /\ wants[p] /\ put[p] # "yes" /\ put[Uses[p]] = "yes"
  /\ Issue(c, "publish", "bind", p)

IssueUnpublish(c, p) ==
  /\ ~wants[p] /\ put[p] # "no"
  /\ Issue(c, "unpublish", "check", p)

IssueUnstage(c, v) ==
  /\ put[v] # "no"
  /\ \A p \in PodsOf(v) : ~wants[p] /\ put[p] = "no"
  /\ Issue(c, "unstage", "check", v)

(* An error is final: what could not be staged or published is taken to be   *)
(* absent. An unmount that failed leaves the path as it may be.              *)
Learns(call) ==
  IF call.op \in {"stage", "publish"}
  THEN IF call.ok THEN "yes" ELSE "no"
  ELSE IF call.ok THEN "no" ELSE "unsure"

Forgets(call) == call.op = "publish" /\ ~call.ok /\ IsMounted(call.path)

Receive(c) ==
  /\ At(c, "replied")
  /\ Now(c, Idle)
  /\ IF calls[c].late THEN UNCHANGED <<put, forgotten>>
     ELSE /\ put' = [put EXCEPT ![Here(c)] = Learns(calls[c])]
          /\ forgotten' = IF Forgets(calls[c]) THEN forgotten \cup {Here(c)} ELSE forgotten
  /\ UNCHANGED <<nodeVars, wants, told, disturbed>>

(* A pod comes with a target path of its own, never used before.             *)
PodComes(p) ==
  /\ ~wants[p] /\ put[p] = "no" /\ ~IsMounted(p)
  /\ \A c \in Calls : Here(c) # p
  /\ wants' = [wants EXCEPT ![p] = TRUE]
  /\ disturbed' = disturbed \ {p}
  /\ UNCHANGED <<nodeVars, calls, put, told, forgotten>>

PodGoes(p) ==
  /\ wants[p]
  /\ wants' = [wants EXCEPT ![p] = FALSE]
  /\ UNCHANGED <<nodeVars, calls, put, told, disturbed, forgotten>>

PodWrites(p) ==
  /\ Running(p) /\ IsMounted(p) /\ Top(p) = "volume"
  /\ disk' = [disk EXCEPT ![Uses[p]] = "written"]
  /\ UNCHANGED <<stack, calls, kubeVars>>

(* The volume is attached, and its device known, while a pod wants it; it is *)
(* detached when the kubelet has it in use no more.                          *)
Attached(v) ==
  /\ ~told[v] /\ \E p \in PodsOf(v) : wants[p]
  /\ told' = [told EXCEPT ![v] = TRUE]
  /\ UNCHANGED <<nodeVars, calls, put, wants, disturbed, forgotten>>
Detached(v) ==
  /\ told[v] /\ put[v] = "no" /\ ~InUse(v)
  /\ \A p \in PodsOf(v) : ~wants[p] /\ put[p] = "no"
  /\ told' = [told EXCEPT ![v] = FALSE]
  /\ UNCHANGED <<nodeVars, calls, put, wants, disturbed, forgotten>>

-----------------------------------------------------------------------------
(* Failures, and the specification.                                          *)

(* The kubelet gives a call up; its goroutine goes on.                       *)
GivenUp(c) ==
  /\ calls[c].op \in LateOps /\ ~calls[c].late /\ ~At(c, "replied")
  /\ Now(c, [calls[c] EXCEPT !.late = TRUE])
  /\ UNCHANGED <<nodeVars, kubeVars>>

DriverRestarts ==
  /\ \E c \in Calls : calls[c] # Idle
  /\ calls' = [c \in Calls |-> Idle]
  /\ UNCHANGED <<nodeVars, kubeVars>>

(* The pods of the node are started again after a reboot.                    *)
Reboot ==
  /\ stack' = [x \in Paths |-> <<>>]
  /\ calls' = [c \in Calls |-> Idle]
  /\ put' = [x \in Paths |-> "no"]
  /\ disturbed' = {} /\ forgotten' = {}
  /\ UNCHANGED <<disk, wants, told>>

Serves(c) ==
  /\ CallStep(c)
  /\ disturbed' = IF calls[c].late /\ calls[c].op # "stage" /\ stack' # stack
                  THEN disturbed \cup {Here(c)} ELSE disturbed
  /\ UNCHANGED <<put, wants, told, forgotten, faults, lost>>
Kubelet(A) == A /\ UNCHANGED <<faults, lost>>
Fault(F) == F /\ faults < MaxFaults /\ faults' = faults + 1 /\ UNCHANGED lost
Loss(F) == F /\ lost < MaxLost /\ lost' = lost + 1 /\ UNCHANGED faults

Next ==
  \/ \E c \in Calls :
       \/ Serves(c)
       \/ Kubelet(Receive(c))
       \/ \E v \in Vols : Kubelet(IssueStage(c, v)) \/ Kubelet(IssueUnstage(c, v))
       \/ \E p \in Pods : Kubelet(IssuePublish(c, p)) \/ Kubelet(IssueUnpublish(c, p))
       \/ Fault(CommandFails(c) /\ UNCHANGED kubeVars)
       \/ Loss(GivenUp(c))
  \/ \E p \in Pods : Kubelet(PodComes(p)) \/ Kubelet(PodGoes(p)) \/ Kubelet(PodWrites(p))
  \/ \E v \in Vols : Kubelet(Attached(v)) \/ Kubelet(Detached(v))
  \/ Fault(Reboot)
  \/ Loss(DriverRestarts)

Spec == Init /\ [][Next]_vars

(* Handlers run, the kubelet reads their answers, what is wanted is attached *)
(* and the reconciler of the kubelet comes back to every path.               *)
Fairness ==
  /\ \A c \in Calls : WF_vars(Serves(c) \/ Kubelet(Receive(c)))
  /\ \A v \in Vols :
       /\ WF_vars(Kubelet(Attached(v)))
       /\ SF_vars(\E c \in Calls : Kubelet(IssueStage(c, v)))
       /\ SF_vars(\E c \in Calls : Kubelet(IssueUnstage(c, v)))
  /\ \A p \in Pods :
       /\ SF_vars(\E c \in Calls : Kubelet(IssuePublish(c, p)))
       /\ SF_vars(\E c \in Calls : Kubelet(IssueUnpublish(c, p)))

FairSpec == Spec /\ Fairness

-----------------------------------------------------------------------------
(* Properties.                                                               *)

(* A running pod writes to its volume, never to the bare staging directory,  *)
(* though stage and publish are two calls and handlers take no lock: unless  *)
(* a late NodeUnstageVolume has unmounted the staging path under the kubelet.*)
RunningPodSeesVolume ==
  \A p \in Pods : Running(p) =>
    (IsMounted(p) /\ Top(p) = "volume") \/ Uses[p] \in disturbed

(* What a pod has written is not formatted away as long as a pod of the      *)
(* volume runs: a NodeStageVolume that is repeated, or late, is refused. The *)
(* exception is that of RunningPodSeesVolume.                                *)
RunningPodKeepsData ==
  [][\A v \in Vols :
       disk[v] = "written" /\ (\E p \in PodsOf(v) : Running(p))
         => disk'[v] = "written" \/ v \in disturbed]_vars

(* A NodeUnpublishVolume answered OK has left nothing on the target path,    *)
(* however many times NodePublishVolume has mounted there.                   *)
UnpublishedIsUnmounted ==
  \A c \in Calls :
    calls[c].op = "unpublish" /\ At(c, "replied") /\ calls[c].ok
      => ~IsMounted(Here(c)) \/ Here(c) \in disturbed

(* Mounts pile up on a target path no higher than answers were lost: what a  *)
(* repeated NodePublishVolume mounts once more is gone before the next pod.  *)
MountsBounded == \A x \in Paths : Len(stack[x]) <= lost + 1

(* The target path of a pod that is gone for good is unmounted in the end,   *)
(* and known to be, though answers are lost and a repeated publish mounts    *)
(* once more. Two things leave a mount there for ever: a repeated publish    *)
(* whose error hides that an earlier one has mounted, and a late publish.    *)
GoneEventuallyUnmounted ==
  \A p \in Pods : <>[]~wants[p] =>
    <>[](put[p] = "no" /\ (~IsMounted(p) \/ p \in forgotten \cup disturbed))

(* A pod that stays gets its volume, unless a NodeStageVolume whose answer   *)
(* was lost has left the volume mounted: the repeated one is then refused.   *)
WantedEventuallyRuns ==
  \A p \in Pods : wants[p] ~>
    Running(p) \/ ~wants[p] \/ (put[Uses[p]] # "yes" /\ InUse(Uses[p]))

(* What the chart says of the driver's volumes and the code does not do: a   *)
(* persistent volume keeps what was written to it.                           *)
WrittenIsKept == [][\A v \in Vols : disk[v] = "written" => disk'[v] = "written"]_vars
=============================================================================
