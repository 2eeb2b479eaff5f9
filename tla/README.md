# Verification of csi-hyperstack

TLA+ models of the Hyperstack CSI driver (`src/`), the TLC runs that check them
and theorems about them proved with TLAPS.

## The system

The driver is one binary (`main.go`) that the chart runs twice: a Deployment
with the *controller service* and its sidecars, a DaemonSet with the *node
service*. Nothing is persisted by the driver itself and no lock protects any of
its handlers; each gRPC call runs in a goroutine of its own.

| component | state | operations | modules |
|---|---|---|---|
| Hyperstack API wrapper, `pkg/hyperstack/hyperstack_volume.go` | none of its own; the volumes of the account | `GetVolumesByName`, `GetVolume`, `CreateVolume`, `DeleteVolume`, `AttachVolumeToNode`, `UpdateVolumeAttachment`, `DetachVolumeFromNode`, `GetClusterDetail` | `HyperstackCloud`; the last in `Metadata` |
| Controller service, `pkg/driver/controllerserver.go` | the stack of each call | `CreateVolume`, `DeleteVolume`, `ControllerPublishVolume`, `ControllerUnpublishVolume` | `ControllerServer`, `VolumeLifecycle`, `VolumeStack` |
| Sidecars and users (external) | claims, VolumeAttachments, connections | the calls, their retries, claims released, volumes wanted on nodes | `VolumeLifecycle`, `PluginHost` |
| Node service, `pkg/driver/nodeserver.go`, and `UnmountPath` | mounts of the node, file systems | `NodeStageVolume`, `NodePublishVolume`, `NodeUnpublishVolume`, `NodeUnstageVolume` | `NodeServer`, `VolumeStack` |
| Instance metadata and node labels, `pkg/utils/metadata`, `pkg/utils/kubernetes` | a cache, one shared mount point | `Get` from the metadata service and the config drive, `GetNodeLabel` | `Metadata` |
| Process and servers, `main.go`, `driver.go`, `server_grpc.go`, `server_http.go` | goroutines, a WaitGroup, the socket | start, listen, serve, stop | `DriverProcess` |
| Identity service, `pkg/driver/identityserver.go` | `ready` | `Probe`, `GetPluginCapabilities`; `ControllerGetCapabilities` of the controller service | `PluginHost` |
| Stubs, metrics, CLI, block devices, API client | none that changes | constant answers, reads | not modelled |

How they interact. The provisioner calls `CreateVolume` and `DeleteVolume`, the
attacher the two publish calls, each until it succeeds. The controller service
turns every call into two to four requests to Hyperstack, whose volumes change
status on their own in between. The device name the controller answers reaches
the node through the publish context of a VolumeAttachment; the kubelet passes
it to `NodeStageVolume`, which formats and mounts whatever has that name on the
node. Each `CreateVolume` and `NodeGetInfo` needs the host's name from the
metadata lookup and a label of the node of that name. All processes of the
driver on one host share one socket path, and the sidecars talk to whichever
process has it when they connect.

What is hard here: calls of different objects, and under two controllers of the same object,
interleave between the requests of a handler; a request may take effect after its call has failed,
or its answer may be lost, and the call is then repeated; the process may stop anywhere; statuses
and attachments that were read are stale by the time they are acted on, and a device name still
more so; mounts stack; handlers run on after the kubelet has given their call up, while their
volume is unmounted, detached and its device given to another; a stop of one server has to end the
process; processes take the socket from each other and are restarted for it; lookups share one
mount point and a cache without a lock.

What makes the components correct:

- *controller*: one volume per claim, of the right size, never deleted while the
  claim holds it; attachments only where somebody wants them; the device told is
  the device there is; retries converge.
- *controller and nodes together*: a node formats and mounts no volume but the one
  it was asked for, and what it has mounted stays attached.
- *node*: a running pod sees its volume and keeps its data; what was answered
  unmounted is unmounted; mounts do not pile up; a pod that stays gets to run.
- *process*: a stopped server ends the process; the processes of a host settle; the
  services can be reached again; no sidecar works with a process that lacks its service.
- *metadata*: lookups do not take the drive away from each other, none reads an
  answer that is not there, all of them end; a source that works is enough.

## Modules

**`HyperstackCloud`** — the volumes of the account (`vols`) and the requests that
outlived their calls (`ghosts`). A volume is a name, a size, a status, the VM it is
on, the device of its ATTACHED attachment (`NoDev` until then) and the protection
of the attachment. One operator per request: `Creates`, `Deletes`, `Attaches`,
`Unprotects`, `Detaches`, each guarded by when the service accepts it. Names are
model values; `Within` is the relation "occurs in" that `strings.Contains` computes
in `GetVolumesByName`. `RoundUpSize` is arithmetic on bytes with `GiB` as a
parameter. The status changes of the service (`CreateDone`, `AttachDone`,
`DeviceReady`, `DetachDone`, `DeleteDone`, `CreateBroken`, `AttachBroken`) are
external; they allow every order the driver's code expects. A volume id is never
used twice, an attachment becomes ATTACHED at or after the volume becomes in-use, and
two attachments of one VM have different devices.

**`ControllerServer`** — `calls[c]` is the goroutine of one call; `pc` says which request it sends
next. `CreateVolume` is `CreateList`, `CreatePost`, `CreatePoll`; `DeleteVolume` is `DeleteGet`,
`DeleteSend`; `ControllerPublishVolume` is `PublishLookup`, whose answer the code throws away,
`PublishGet`, `PublishAttach`; `ControllerUnpublishVolume` with `DetachVolumeFromNode` and
`UpdateVolumeAttachment` is `UnpublishGet`, `UnpublishAttachment`, `UnpublishUnprotect`,
`UnpublishDetach`. The label and cluster reads between list and POST change nothing here and fail
only as a call fails. `Metadata` has their steps, and those of the lookup of
`ControllerPublishVolume`, which may hang. `CallFails` covers a lost request, a lost answer and a
deadline; `Crash` a stopped process; `Panic` the index into an empty list of attachments.

**`VolumeLifecycle`** — the controller under its sidecars: `claim`, `va`
(VolumeAttachments) and `ctx` (publish contexts). `Issue*` and `Receive*` are the
sidecars; `Release`, `Want` and `Unwant` the users. `Serial` says that no object has
two calls open at a time (the sidecars' work queues), `FALSE` stands for two
controllers at once, as in a rolling update. `Exclusive` says that a volume is wanted
on one node at a time (ReadWriteOnce under the attach-detach controller). Three history
variables record what the properties have to except and no action reads: `early`, the VMs
whose unpublish read the volume while an attach to them was pending; `late`, the kinds
of requests about a volume (attach, unprotect, detach) that outlived their calls since the
volume was last at rest, wanted nowhere and on no VM; and `raced`, the names of which two
POSTs were on their way at once, each from a `CreateVolume` about to send it or left behind
by one that failed. A volume is `Undercut` when a late
detach is among several kinds in `late`, and `Excused` when it is undercut or in `early`.

**`VolumeClaims`** — what the above promises: bind to a fresh volume, release,
destroy, forget. `VolumeLifecycle!Claims` is the refinement mapping.

**`VolumeUse`** — what the controller and the nodes promise together, for volumes that are
used on one node at a time: where each is attached, which nodes use it, what is on it. A free
volume is attached, one that nobody uses is detached, a node begins to use a volume where it is
attached, and only that node formats it or writes to it. A volume that went astray is promised
none of this, for as long as it is used anywhere but where it is attached (`StaysAstray`).
`VolumeStack!Use` is the refinement mapping: the place is the VM of a volume in use, the users
are the nodes with a stage under way, given up or not, or a staging mount, astray are the
excused volumes and those with something left over on a node.

**`VolumeStack`** — `VolumeLifecycle` with the staging mounts of its nodes. `stages[s]` is the
goroutine of one `NodeStageVolume`: it reads the device from the publish context (`StageBegin`),
runs `mkfs.ext4` (`StageFormat`) and mounts (`StageMount`) as three steps; between them volumes are
detached, attached elsewhere and given devices. `Behind(m, d)` is the volume a device name leads to
on a VM at that moment; both commands fail when it is none. `staged` is what is mounted on each
staging path, `put` what the kubelet knows of it. The kubelet stages what its VolumeAttachment says
is attached, and the attach-detach controller lets a volume go once the kubelet takes it for not
staged (`LetGo`). The handler never looks at its deadline: a stage the kubelet has given up
(`GivenUp`) formats and mounts whenever it gets to it, also after the volume was unstaged, let go
and detached and its device given to another volume. The history variable `leftover` has the nodes
from which a volume was let go while such a stage, or what it mounted, was still there. A
`NodeUnstageVolume` that outlives its call only takes mounts away, and is in `NodeServer`. Claims
are bound and written to in the initial state: creation and deletion are the subject of the other
runs.

**`NodeServer`** — `stack` is the mounts on each staging and target path, `disk` what
a volume holds; a handler is split at `mkfs.ext4`, `mount` and `umount`. The kubelet
(`put`, `wants`) is external: one operation per volume at a time, retries, an error
answer to a stage or publish taken as "not there", a call whose answer is lost as
"unsure". A handler whose call is given up (`GivenUp`, for the operations in `LateOps`)
runs on beside what the kubelet asks next. Two history variables: `disturbed`, the
paths such a handler has mounted on or unmounted since, and `forgotten`, the paths that were
mounted when a publish of them was answered with an error. Assumed of the commands: one
`-F` makes `mkfs.ext4` refuse a device that is in use; the kernel refuses to mount a
device on a path it is mounted on and accepts any number of bind mounts;
`CleanupMountPoint` unmounts once, looks again, and fails when something is still
mounted. Volumes do not interact on a node but through device names, which
`VolumeStack` is about, so one volume with two pods is enough here.

**`DriverProcess`** — for each process of a host its three goroutines and the
WaitGroup; `socket` says whose listener the path leads to, `label` whether `NodeGetInfo`
would find the label of the host. The probes are those of the charts: the node's calls
`GetPluginInfo` and `NodeGetInfo` over the socket, the controller's looks for the file (the
probe that calls `ControllerGetCapabilities` is commented out in the chart; the mutant
`ControllerProbeCalls` shows why: with it the controller and the node plugin of a host
restart each other for ever). Three failed probes take longer than a process needs
from removing the socket to listening, hence the guard of `ProbeFails`.

**`PluginHost`** — `DriverProcess` with the sidecars. A sidecar connects to whoever has
the socket (`link`) and stays connected until that process ends, whatever becomes of
the path. The attacher asks `Probe`, `GetPluginCapabilities` and
`ControllerGetCapabilities` (`Handshake`) and then works, takes every volume for attached
(`"trivial"`), or gives up and is started again; the registrar asks for `NodeGetInfo`
(`Register`). `GetPluginCapabilities` claims a controller service in every process, also in
the node plugin.

**`Metadata`** — lookups in parallel, each at one of the steps of `Get` and
`getFromConfigDrive`, with the deferred calls as steps of their own; those of
`CreateVolume` (`Readers`) go on to `GetNodeLabel` and `GetClusterDetail`. An answer without
a UUID is refused by `parseMetadata`; one without a name is not, and is cached. The
metadata service may hang, since its request has no deadline. The directory for temporary
files is empty (it is in the image), so that removing it succeeds whenever nothing is
mounted there. Every command may fail; the error of the unmount is thrown away, and the drive
then stays mounted until the process ends. The history variable `broken` says whether a mount or
an unmount has failed since the process started.

`MC*` modules give TLC its values. The modules `*_proofs`, `VolumeLifecycle_refines`,
`VolumeLifecycle_names` and `VolumeLifecycle_attach` hold the theorems. Operators whose
comment says *mutant* are wrong on purpose: each property was seen to fail when one of them
replaces the definition that follows it.

## Runs

Passing:

| run | what it shows |
|---|---|
| `Lifecycle` | one claim, one VM, two calls at a time, two failures whose requests may land late, room for a second volume: the claim gets bound, devices get answered, unpublishes end, the released volume is disposed of |
| `Provision` | two controllers, three volumes, one failure, requests that land late: a name gets a second volume only when two of its POSTs raced, claims stay apart, bound volumes stay, sizes fit, and `VolumeClaims` is implemented |
| `Stack` | two volumes that take turns at the one device name of two nodes, one failure, which may be a stage given up or leave a late request: what is formatted and mounted is the volume asked for |
| `LateRequests` | one volume between two nodes, two calls at a time, two stages, three failures, requests and stages that come at any later time: the only way to an attachment nobody wants is an unpublish answered while the attach was pending, contexts match attachments, nothing is unprotected or detached behind a node's back, what it takes to take a volume from under its mount, and `VolumeUse` is implemented |
| `Node` | two pods of one volume with a failure and a call of any kind that is given up and runs on, or is lost with the driver: pods run on their volume and keep their data, gone pods are unmounted, mounts do not pile up, wanted pods run |
| `Process` | two controllers, the node plugin, an attacher and a registrar on one host, two failures or changes of the label: stopped servers end their process, the processes settle, the node service comes back on the socket and gets registered, sidecars work with a process that has their service |
| `Metadata` | two lookups, three faults: the shared mount point is never taken from a reader, nor left mounted but by a failed unmount, no empty cache is read, lookups end, a metadata service that stays up places volumes, a good drive fills the cache |

Violated, each by what the code does against what a comment, a message or a chart says
(`findings` in `PROJECT.json`):

| run | what it shows |
|---|---|
| `NamesOverlap` | a name inside another one gets the other claim's volume |
| `WrongVolume` | the device of another node is answered, and the volume that has that device here is formatted |
| `NoAttachment` | unpublish indexes an empty list and the process panics |
| `LeakedVolume` | `DeleteVolume` answers OK for a volume it did not delete |
| `Restage` | every stage formats the volume |

Where a passing property and a violated one are about the same thing, the passing one
names the exception:

- `OneVolumePerName` excepts a name that was raced. Two POSTs race under two controllers, or under
  one when the POST of a call that failed is still on its way at the retry's: the list of the
  retry does not see it. `ClaimEventuallyBound` fails only for such a name: once there are two
  volumes of it `CreateVolume` takes neither, for ever.
- `AttachmentAccounted` excepts a volume in `early`: one let go from a VM by an unpublish that
  met its attach pending. `WrongVolume` is what happens then.
- `ContextIsAttachment`, `StagedOwn`, `FormatsOnlyOwn` and `UseSpec` except a volume that is
  excused, which is one in `early` or one that is undercut. All but the first also except a
  volume in `leftover`: when the kubelet gives a stage up, the volume is let go and the device is
  given to another one, the stage formats or mounts that one.
- `StagedIsAttached` excepts a volume that is undercut, or in `leftover`. A late detach alone
  cannot take a volume from under its mount, because a new attachment is protected; what can is a
  late unprotect before it, or a late attach that an unpublish under way took for the attachment it
  had found.
- `UnprotectedOnlyWhenLeaving` and `DetachOnlyWhenLeaving` name the late request they meet.
- `RunningPodSeesVolume` and `RunningPodKeepsData` except a volume whose staging path a late
  `NodeUnstageVolume` has unmounted, `UnpublishedIsUnmounted` a target path a late call has
  changed. `MountsBounded` has no exception: mounts are at most one more than the calls given up
  or lost.
- `GoneEventuallyUnmounted` excepts a path that is `forgotten`, where a repeated publish failed on
  top of the mount of an earlier one and its error told the kubelet there is none, or `disturbed`,
  where a late publish mounted. Nothing unmounts either.
- `WantedEventuallyRuns` excepts a staged volume whose answer was lost, which the repeated stage
  cannot get past.
- `NodeAnswersAgain`, `Settles` and `NodeRegistered` except a label that is lost for good: the
  node plugin's probe then restarts it for ever, and each time it takes the socket.
- `NoMountLeft` excepts a drive whose unmount has failed.
- `VolumesPlaced` excepts a cached answer without a name, which stays until the process ends;
  `DriveFillsCache` the directory for temporary files that is gone after a failed mount, and a
  metadata service that hangs. A lookup that reads the drive removes the directory as well, but by
  then it has its answer: this is why the failed mount is part of the exception.

One more thing the models show without a run of its own: in `DriverProcess` a stop of the
gRPC server may end the process by a panic, because both servers count down a WaitGroup of one
(`Overdrawn`).

### Bounds

Two calls at a time are enough for every pair of handlers to interleave; a third only adds a
bystander, since a handler meets others through the volumes alone. `Stack` has one call of the
controller at a time beside the stages of the nodes, which are not calls of its bound, and one
device name, so that what one volume leaves another one gets; two calls at a time beside the stages
are in `LateRequests`, which has one volume instead. `UseSpec` is checked there, and for any number
of volumes proved. `Stages` bounds the stages that run at once: two in `LateRequests`, one that was
given up and one the kubelet waits for; one in `Stack`, where stages of two volumes take turns and
a late one runs between the steps of everything else. Stages of two volumes at once are left to the
theorems. `OwnedSpec` of `MCVolumeStack` is `StackSpec` with one choice of which claim has which
volume at first. The three failures of `LateRequests` leave an attach, an unprotect and a detach
behind together, one more than it takes to lose a volume. `Lifecycle` has one claim and one VM:
what two claims do to each other is in `Provision`, what two VMs do in `LateRequests`. The 15 polls
of `CreateVolume` are one or two: what counts is that polling may end before the volume is
available, and that a poll may be followed by another. A `GiB` has two bytes, so that capacities of
2 and 3 bytes are an exact and an inexact multiple. `MaxFaults` bounds failed calls, crashes,
broken volumes and stages given up together (in `Node` failed commands and reboots, in `Process`
failed servers, kills and changes of the label, in `Metadata` failed commands, restarts and changes
of the service), and is large enough for a failure and a failure of what repairs it, except in
`Provision`, `Stack` and `Node`, whose one fault is made up for by the theorems, which have no
bound. `MaxLost` is one in `Node`: one call that is given up, or lost with the driver, beside a
failed command or reboot. `VolIds` bounds how many volumes are ever created; when they are used up
a POST waits, as if the service did not answer. Deadlock is not checked: the controller's runs rest
legitimately once every claim is gone, `Process` once every process serves and no fault is left,
`Node` once no pod is wanted on the node and none comes, `Metadata` while its service hangs. That
nothing rests too early is what the liveness properties say.

### Fairness

Weak fairness of handlers, of the answers being read and of the service's own progress:
a goroutine that can run does. Strong fairness of the sidecars' and the kubelet's
issuing: their queues are FIFO and a call that stays wanted gets its turn although others
take the slot again and again. The handlers of `VolumeLifecycle` include the metadata lookup of
`ControllerPublishVolume`, which has no deadline: when it ends is what `LookupsEnd` says. In
`DriverProcess`, weak fairness of goroutines, of the
kubelet starting what is down and of probes that go on failing; in `PluginHost` also of the
sidecars, which are started again when they end; in `Metadata` of goroutines, and of callers
that come back. Nothing is assumed of users, nor that faults happen; that they stop is the bound
on them.

## Proofs

All theorems hold for every value of the constants: any number of names, volumes, VMs, pods,
processes, sidecars, lookups, calls at a time, polls and faults. What they assume beyond the
assumptions of the modules is stated with each.

**Claims** (`VolumeLifecycle_proofs`), with or without late requests, under one controller or two:

- `TypeCorrect`: `Spec => []TypeOK`. The invariant `TypeInv` adds what each handler has
  read by each step (a call that polls has a volume id, an unpublish that unprotects has
  an attachment) and that only a volume on a VM has a device.
- `ClaimsApart`, `BoundVolumesKept`, `ClaimsSized`: when no name occurs in another
  (`NamesApart`), no volume serves two claims, no bound claim's volume is deleted, and
  each bound claim's volume has the least size that holds it.

They rest on one inductive invariant `IInv`. The claims alone are not inductive: a claim is
bound from an answer, so `CreatesInv` says that the volume a create call carries has the
claim's name and size; a volume is deleted from a call or a late request, so `DeletesInv`
and `GhostsInv` say that what is about to be deleted belongs to a released claim; and since
nothing ever binds a released claim's volume again, `DoomInv` says that what is deleted has
no bound claim. `RoundUpSizeLeast` is the lemma about sizes. `NamesApart` is needed:
`NamesOverlap` is the counterexample without it. With the names external-provisioner gives
(`pvc-` and a UUID) it holds within one cluster.

**Refinement** (`VolumeLifecycle_refines`): `ImplementsClaims` says that under `NamesApart` every
behaviour of `VolumeLifecycle` is one of `VolumeClaims`, with the mapping the run `Provision`
checks. A step sets at most one volume and never saves a doomed one (`NextSets`), and a step that
changes a claim changes no volume (`ClaimSteps`); so a step is a stutter, a `Destroy` of a volume
that `DoomInv` says was discarded, or one of `Release`, `Bind` and `Forget`. That a bound volume is
fresh follows from `IInv`: whoever had it, or discarded it, would have the same name.

**One volume per name** (`VolumeLifecycle_names`): `NamesUnique` assumes nothing: any number of
controllers, late requests, names that occur in each other. The gap is between the list and the
POST of `CreateVolume`. `NameInv` says that as long as no two POSTs of a name have been on their
way at once, there is no live volume of the name while one is, and never a second one. A POST
gets on its way when the list finds no such volume (`NotFoundIsNone`), and only a POST brings a
volume to life (`NextNoneNew`), so the one POST there is lands where there is none.

**Attachments** (`VolumeLifecycle_attach`): `AttachmentsAccounted` assumes `Serial` only. An attach
is followed from the call that sends it, or leaves it behind as a late request, to the unpublish
that has to undo it: `DueInv` says that a volume on its way to a VM, or a late attach to it,
has a VolumeAttachment or is in `early`; `NotedInv` that an unpublish that has read the volume and
is not in `early` leaves neither behind.

**Controller and nodes** (`VolumeStack_proofs`), under `Tidy`: one sidecar (`Serial`) and exclusive
use, with any number of calls, failures, lost answers, restarts, cloud faults and late requests.

- `ContextHeld`, `ProtectionHeld`, `DetachesLeaving` about `VolumeLifecycle`: publish contexts tell
  the device there is, attachments keep their protection, and nothing is detached behind a node's
  back.
- `StackAccounted` (under `Serial`) and `StackKeepsPromises`: these, and `AttachmentsAccounted`,
  hold for `VolumeStack` too, which starts with its claims bound and has the nodes decide when a
  volume may go. It is the specification the runs `Stack` and `LateRequests` check.
- `StackTyped` (without `Tidy`), `StagedIsOwn`, `MountsAttached`, `FormatsOwn` about `VolumeStack`.
- `ImplementsUse`: every behaviour of `VolumeStack` is one of `VolumeUse`.

The invariant `CtrlInv` adds to that of `AttachmentsAccounted` that a volume has one
VolumeAttachment at a time (`OneNodeInv`), that devices on a VM are distinct (`DevicesInv`), that
contexts and the answers still on their way match the attachment (`CtxInv`, `AnswerInv`), and that
only an attachment being unpublished is unprotected, and no unpublish is answered before its
volume is detached (`ProtectInv`). On the nodes `HeldInv` says that a stage under way or a mount
holds the VolumeAttachment, or is left over; `OwnInv` that, unless it is left over or excused, it
has the device of the publish context, so that the volume behind that device is the volume itself
(`Reached`; `DevicesInv` leaves no other); `MountInv` that what is mounted as itself is attached.
A stage given up is no different as long as its volume is not let go: it holds the device the
context still names. That is why `leftover`, and not every late stage, is the exception.

Late requests are why each part names its exception. `LateInv` says that every request on its way
is noted in `late`; `TouchInv` that an unpublish which has read the volume in use still finds it so,
unless a late detach has taken it and a late attach put it elsewhere; `ProtectInv` that an
attachment without protection is leaving or has met a late unprotect. So a volume in use leaves its
VM by its own unpublish, or by a late detach of an attachment that something else late had bared
(`HeldStays`). And nothing that was noted is forgotten before the volume is at rest (`LateStays`,
`ExcuseStays`): no step makes an exception vanish while its damage is still to come.

For `ImplementsUse` a step of the controller moves at most one volume, and only to or from the VM
of its attachment, so it is an `Attach`, a `Detach` or neither; that a `Detach` meets no user is
`HeldInv` with `TouchInv`. A step of a node is a `Begin`, `Touch` or `End` of its volume, by
`OwnInv`, or a `Mistake` of a volume astray; and none is astray no more while it is used elsewhere
(`UsedInPlace`).

**Node** (`NodeServer_proofs`): `NodeTyped`, `PodsSeeVolumes`, `UnpublishedUnmounted`,
`PodsKeepData`, `MountsAreBounded`, whichever operations outlive their calls. The invariant says
that what is under way for a volume excludes the rest (`AloneInv`), that what the kubelet takes for
staged is there or disturbed (`StagedInv`), that a pod that is wanted has no unmount under way on
its path, for its path is new, and has only its volume there (`PodInv`), and that a publish beside
an unpublish of the same pod is late (`GoneInv`).

`MountsAreBounded` is a count. The property compares the mounts on a target path with the answers
lost so far; it is not inductive, for a publish under way, late or not, is about to add one.
`BoundInv` therefore counts for each path its mounts, the late publishes that still owe it one, and
one more while the kubelet has or may start a publish that mounts: together at most one more than
the answers lost. A late publish owes what its lost answer paid for; the one that is not late turns
its credit into a mount and has none left, for `PublishInv` says that a path has one publish at a
time and the kubelet does not take it for "not there" before it is answered.

**Metadata** (`Metadata_proofs`): `MetadataTyped`, `DriveIsHeld`, `DriveIsReleased`,
`AnswersAreThere`, for any search order. The kernel's refusal of a second mount is the lock the
code does not take: `DriveInv` says that at most one lookup is between a successful mount and its
unmount, and that without one the drive is mounted only after a failed unmount.

**Processes** (`PluginHost_proofs`): `HostTyped`, `SidecarsAreServed`, whatever
services the processes are started with. A sidecar that works is connected, and its process has
its service for as long as the connection lasts.

Only model-checked: liveness (under fairness, which is out of the prover's reach), hence
`ClaimEventuallyBound`, `DeviceEventuallyAnswered`, `UnpublishEventuallyAcked`,
`ReleasedEventuallySettles`, `StoppedServerEndsProcess`, `NodeAnswersAgain`, `Settles`,
`NodeRegistered`, `LookupsEnd`, `VolumesPlaced`, `DriveFillsCache`,
`GoneEventuallyUnmounted` and `WantedEventuallyRuns`. Every safety property of a passing run has a
theorem.

## Not modelled

- The stub calls (`ListVolumes`, snapshots, expansion, `ValidateVolumeCapabilities`,
  `NodeGetVolumeStats`, `NodeExpandVolume`) and `NodeGetCapabilities` neither read nor change
  state. That `ListVolumes` is empty is why `VolumeLifecycle` publishes again what is attached.
- Metrics are counters that nothing reads; the command line and the environment are read once,
  at the start; the API client adds a header; `logGRPC` passes answers on unchanged.
- `pkg/utils/blockdevice`, `pkg/utils/mount` but for `UnmountPath`, `GetDevicePath` and
  `CheckMetadataSearchOrder` of `pkg/utils/metadata`, and most of `pkg/utils/util.go` have no
  caller in the program; `Opts.RequestTimeout` is never read. The mocks are test doubles.
- Secrets, roles and images of the charts are configuration.

What is left without a caller is most of what the models do not cover: there is no behaviour of
the running driver in it.

## How it was built

In this order, each part modelled, checked and then proved: `HyperstackCloud`, `ControllerServer`,
`VolumeLifecycle` with its abstract specification; `NodeServer`; `DriverProcess`; `Metadata`;
`VolumeStack`, which composes the controller with the nodes; `PluginHost`, which composes the
processes with the sidecars. `VolumeUse` and the history of late requests came after them: the
theorems about attachments first held without late requests, and the counterexamples TLC found
with them are what `Undercut` describes. The stages that outlive their calls and the histories
`leftover`, `raced`, `broken` and `forgotten` came last, and with them properties that once held
only because a late stage, a late POST or a failing unmount was left out, or because the kubelet's
belief stood for the mount.
