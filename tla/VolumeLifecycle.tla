-------------------------- MODULE VolumeLifecycle --------------------------
(* The controller service under the container orchestrator that drives it:  *)
(* the external-provisioner and the external-attacher of the controller      *)
(* deployment (charts/csi-hyperstack/templates/deployment-controller.yaml),  *)
(* which call CreateVolume, DeleteVolume, ControllerPublishVolume and        *)
(* ControllerUnpublishVolume and repeat a call until it succeeds. Every      *)
(* claim is one volume name, used once. The side of the orchestrator is      *)
(* external: it is modelled by what the driver can be asked.                 *)
EXTENDS ControllerServer

CONSTANTS
  Bytes,      \* the capacities a claim may require
  Serial,     \* whether two calls for the same object are never open together
  Exclusive,  \* whether a volume is wanted on one node at a time
  MaxFaults   \* a bound on the failures of calls and of the service

ASSUME LifecycleAssumption ==
  /\ Bytes \subseteq Nat
  /\ Serial \in BOOLEAN /\ Exclusive \in BOOLEAN
  /\ MaxFaults \in Nat

VARIABLES
  claim,      \* the claims: their capacity, and the volume they are bound to
  va,         \* the VolumeAttachment objects
  ctx,        \* the device in the publish context of a VolumeAttachment
  early,      \* VMs whose unpublish was let go while their attach was pending
  late,       \* the late requests that may have met a volume in its present use
  raced,      \* the names two POSTs were on their way for at once
  faults

vars == <<vols, ghosts, calls, claim, va, ctx, early, late, raced, faults>>
coVars == <<claim, va, ctx, early>>

Phases == {"pending", "bound", "released", "gone"}
LateKinds == {"attach", "unprotect", "detach"}
Claim == [phase : Phases, vol : VolIds \cup {NoVol}, bytes : Bytes]

TypeOK ==
  /\ CtrlTypeOK
  /\ claim \in [Names -> Claim]
  /\ va \in [VolIds -> [VMs -> {"none", "wanted", "attached", "leaving"}]]
  /\ ctx \in [VolIds -> [VMs -> Devices \cup {NoDev}]]
  /\ early \in [VolIds -> SUBSET VMs]
  /\ late \in [VolIds -> SUBSET LateKinds]
  /\ raced \subseteq Names
  /\ faults \in 0 .. MaxFaults

Init ==
  /\ CtrlInit
  /\ \E b \in [Names -> Bytes] :
       claim = [n \in Names |-> [phase |-> "pending", vol |-> NoVol, bytes |-> b[n]]]
  /\ va = [v \in VolIds |-> [m \in VMs |-> "none"]]
  /\ ctx = [v \in VolIds |-> [m \in VMs |-> NoDev]]
  /\ early = [v \in VolIds |-> {}] /\ late = [v \in VolIds |-> {}]
  /\ raced = {}
  /\ faults = 0

-----------------------------------------------------------------------------
(* The orchestrator's calls.                                                 *)

(* The work queues of the sidecars never handle one object twice at a time;  *)
(* two controllers, which a rolling update of the Deployment starts, do.     *)
SameObject(a, b) ==
  \/ a.op \in {"create", "delete"} /\ b.op \in {"create", "delete"} /\ a.name = b.name
  \/ /\ a.op \in {"publish", "unpublish"} /\ b.op \in {"publish", "unpublish"}
     /\ a.vol = b.vol /\ a.vm = b.vm

Issue(c, call) ==
  /\ Enter(c, call)
  /\ Serial => \A d \in Calls : ~SameObject(calls[d], call)
  /\ UNCHANGED <<cloudVars, coVars, faults>>

IssueCreate(c, n) == claim[n].phase = "pending" /\ Issue(c, CreateCall(n, claim[n].bytes))
IssueDelete(c, n) == claim[n].phase = "released" /\ Issue(c, DeleteCall(n, claim[n].vol))

(* Besides the retries the attacher publishes again what it has attached:    *)
(* the driver says it lists published nodes and then lists none.             *)
Published(v, m) == va[v][m] \in {"wanted", "attached"}
IssuePublish(c, v, m) == Published(v, m) /\ Issue(c, PublishCall(v, m))
IssueUnpublish(c, v, m) == va[v][m] = "leaving" /\ Issue(c, UnpublishCall(v, m))

-----------------------------------------------------------------------------
(* What the users of the cluster do.                                         *)

SetClaim(n, cl) == claim' = [claim EXCEPT ![n] = cl]
Unwanted(v) == \A m \in VMs : va[v][m] = "none"

Release(n) ==
  /\ claim[n].phase = "bound"
  /\ Unwanted(claim[n].vol)
  /\ SetClaim(n, [claim[n] EXCEPT !.phase = "released"])
  /\ UNCHANGED <<ctrlVars, va, ctx, early, faults>>

Want(v, m) ==
  /\ \E n \in Names : claim[n].phase = "bound" /\ claim[n].vol = v
  /\ va[v][m] = "none"
  /\ Exclusive => Unwanted(v)
  /\ va' = [va EXCEPT ![v][m] = "wanted"]
  /\ early' = [early EXCEPT ![v] = @ \ {m}]
  /\ UNCHANGED <<ctrlVars, claim, ctx, faults>>

Unwant(v, m) ==
  /\ Published(v, m)
  /\ va' = [va EXCEPT ![v][m] = "leaving"]
  /\ UNCHANGED <<ctrlVars, claim, ctx, early, faults>>

-----------------------------------------------------------------------------
(* The answers.                                                              *)

Answered(c, op) == At(c, op, "replied") /\ Now(c, Idle)
Succeeds(c) == calls[c].code = "OK"

ReceiveCreate(c) ==
  LET n == calls[c].name IN
  /\ Answered(c, "create")
  /\ IF Succeeds(c) /\ claim[n].phase = "pending"
     THEN SetClaim(n, [claim[n] EXCEPT !.phase = "bound", !.vol = calls[c].vol])
     ELSE UNCHANGED claim
  /\ UNCHANGED <<cloudVars, va, ctx, early, faults>>

ReceiveDelete(c) ==
  LET n == calls[c].name IN
  /\ Answered(c, "delete")
  /\ IF Succeeds(c) /\ claim[n].phase = "released"
     THEN SetClaim(n, [claim[n] EXCEPT !.phase = "gone"])
     ELSE UNCHANGED claim
  /\ UNCHANGED <<cloudVars, va, ctx, early, faults>>

ReceivePublish(c) ==
  LET v == calls[c].vol
      m == calls[c].vm IN
  /\ Answered(c, "publish")
  /\ IF Succeeds(c) /\ Published(v, m)
     THEN /\ va' = [va EXCEPT ![v][m] = "attached"]
          /\ ctx' = [ctx EXCEPT ![v][m] = calls[c].dev]
     ELSE UNCHANGED <<va, ctx>>
  /\ UNCHANGED <<cloudVars, claim, early, faults>>

ReceiveUnpublish(c) ==
  LET v == calls[c].vol
      m == calls[c].vm IN
  /\ Answered(c, "unpublish")
  /\ IF Succeeds(c) /\ va[v][m] = "leaving"
     THEN /\ va' = [va EXCEPT ![v][m] = "none"]
          /\ ctx' = [ctx EXCEPT ![v][m] = NoDev]
     ELSE UNCHANGED <<va, ctx>>
  /\ UNCHANGED <<cloudVars, claim, early, faults>>

Receive(c) ==
  ReceiveCreate(c) \/ ReceiveDelete(c) \/ ReceivePublish(c) \/ ReceiveUnpublish(c)

-----------------------------------------------------------------------------
(* History: an unpublish that reads a volume whose attach to the same VM is  *)
(* under way, or still on its way, is about to let the VM go too early.      *)
AttachPending(v, m) ==
  \/ vols[v].status = "attaching" /\ vols[v].vm = m
  \/ Attach(v, m) \in ghosts

NotesEarly(c) ==
  LET v == calls[c].vol
      m == calls[c].vm IN
  IF At(c, "unpublish", "get") /\ AttachPending(v, m)
  THEN early' = [early EXCEPT ![v] = @ \cup {m}]
  ELSE UNCHANGED early

Serves(c) == CallStep(c) /\ NotesEarly(c) /\ UNCHANGED <<claim, va, ctx, faults>>

Fault(F) == F /\ faults < MaxFaults /\ faults' = faults + 1 /\ UNCHANGED coVars

Progress(v) == CloudProgress(v) /\ UNCHANGED <<calls, coVars, faults>>
Late(r) == GhostLands(r) /\ UNCHANGED <<calls, coVars, faults>>

(* History: the kinds of requests about a volume that have outlived their    *)
(* calls since the volume was at rest, wanted nowhere and on no VM, and      *)
(* those that are still on their way.                                        *)
OnItsWay(v) == vols[v].status \in {"attaching", "in-use"}
AtRest(v) == Unwanted(v) /\ ~OnItsWay(v)
KindsOf(requests, v) == {k \in LateKinds : \E r \in requests : r.kind = k /\ r.vol = v}

NotesLate ==
  late' = [v \in VolIds |->
             KindsOf(ghosts', v) \cup IF AtRest(v)' THEN {} ELSE late[v]]

(* History: the names two POSTs were on their way for at once, each from a   *)
(* CreateVolume about to send it or left behind by one that has failed.      *)
Posting(n) == {c \in Calls : At(c, "create", "post") /\ calls[c].name = n}
LatePosts(n) == {r \in ghosts : r.kind = "post" /\ r.name = n}
Racing(n) ==
  \/ \E c, d \in Posting(n) : c # d
  \/ \E r, q \in LatePosts(n) : r # q
  \/ Posting(n) # {} /\ LatePosts(n) # {}

NotesRaced == raced' = raced \cup {n \in Names : Racing(n)'}
Noted(A) == A /\ NotesLate /\ NotesRaced

Step ==
  \/ \E c \in Calls :
       \/ \E n \in Names : IssueCreate(c, n) \/ IssueDelete(c, n)
       \/ \E v \in VolIds, m \in VMs : IssuePublish(c, v, m) \/ IssueUnpublish(c, v, m)
       \/ Serves(c) \/ Receive(c)
       \/ Fault(CallFails(c))
  \/ Fault(Crash)
  \/ \E v \in VolIds :
       Progress(v) \/ Fault(CloudFault(v) /\ UNCHANGED calls)
  \/ \E r \in ghosts : Late(r)
  \/ \E n \in Names : Release(n)
  \/ \E v \in VolIds, m \in VMs : Want(v, m) \/ Unwant(v, m)

Next == Noted(Step)

Spec == Init /\ [][Next]_vars

(* The goroutine of a call runs, its answer is read, the service works on,   *)
(* and the queues of the sidecars are FIFO: an object that stays queued gets *)
(* its turn. Nothing is assumed of the users, and faults need not happen.    *)
Fairness ==
  /\ \A c \in Calls : WF_vars(Noted(Serves(c))) /\ WF_vars(Noted(Receive(c)))
  /\ \A v \in VolIds : WF_vars(Noted(Progress(v)))
  /\ \A n \in Names :
       /\ SF_vars(Noted(\E c \in Calls : IssueCreate(c, n)))
       /\ SF_vars(Noted(\E c \in Calls : IssueDelete(c, n)))
  /\ \A v \in VolIds, m \in VMs :
       /\ SF_vars(Noted(\E c \in Calls : IssuePublish(c, v, m)))
       /\ SF_vars(Noted(\E c \in Calls : IssueUnpublish(c, v, m)))

FairSpec == Spec /\ Fairness

-----------------------------------------------------------------------------
(* Properties.                                                               *)

(* No name occurs in another one: what GetVolumesByName takes for granted.   *)
NamesApart == Within = {<<n, n>> : n \in Names}

(* Two claims never get the same volume, now or after one another, however   *)
(* their CreateVolume calls, retries and late requests interleave.           *)
ClaimsDisjoint ==
  \A n, k \in Names :
    claim[n].vol # NoVol /\ claim[n].vol = claim[k].vol => n = k

(* The volume of a bound claim is not being deleted: a DeleteVolume call, or *)
(* a delete request that outlived its call, never hits another claim's data. *)
BoundVolumeKept ==
  \A n \in Names :
    claim[n].phase = "bound" =>
      vols[claim[n].vol].status \notin {"deleting", "deleted"}

(* CreateVolume answers with a volume that holds the capacity required, in   *)
(* the fewest allocation units that do, also when it found the volume.       *)
ClaimSize ==
  \A n \in Names : claim[n].phase # "pending" =>
    LET size == vols[claim[n].vol].size IN
    /\ GiB * size >= claim[n].bytes
    /\ GiB * (size - 1) < claim[n].bytes

(* CreateVolume calls, retried or under two controllers, leave one volume    *)
(* per name: a volume created by a call that failed is found by the next     *)
(* one. It takes a POST that is sent while another one of the name is on its *)
(* way, from a call that failed or one that is open, to make a second.       *)
Doubled(n) ==
  \E v, w \in VolIds :
    v # w /\ Exists(v) /\ Exists(w) /\ vols[v].name = n /\ vols[w].name = n
OneVolumePerName == \A n \in Names : Doubled(n) => n \in raced

(* A volume is on a VM, or on its way there, only as long as some            *)
(* VolumeAttachment says so, but for the VMs whose ControllerUnpublishVolume *)
(* was answered while the attach was pending.                                *)
AttachmentAccounted ==
  \A v \in VolIds : OnItsWay(v) =>
    va[v][vols[v].vm] # "none" \/ vols[v].vm \in early[v]

(* What the properties below leave out: a volume that was let go too early   *)
(* from some VM, and one that a late detach may take away because something  *)
(* else came late and cost it its protection, an unprotect, or an attach     *)
(* that an unpublish under way took for the attachment it had found.         *)
Undercut(v) == "detach" \in late[v] /\ late[v] # {"detach"}
Excused(v) == early[v] # {} \/ Undercut(v)

(* The device a node was told is the device the volume has on that node,     *)
(* however publishes, unpublishes and late requests interleave.              *)
ContextIsAttachment ==
  \A v \in VolIds, m \in VMs :
    va[v][m] = "attached" /\ ctx[v][m] # NoDev
      => (vols[v].vm = m /\ vols[v].dev = ctx[v][m]) \/ Excused(v)

(* An attachment in use has lost its protection only when its own VM is      *)
(* being unpublished, or to a late unprotect.                                *)
UnprotectedOnlyWhenLeaving ==
  \A v \in VolIds :
    vols[v].status = "in-use" /\ ~vols[v].protected =>
      va[v][vols[v].vm] = "leaving" \/ "unprotect" \in late[v] \/ Excused(v)

(* A volume in use is detached only from a VM that is being unpublished:     *)
(* neither a stale call nor one for another node takes it away, nor does a   *)
(* late detach alone.                                                        *)
DetachOnlyWhenLeaving ==
  [][\A v \in VolIds :
       vols[v].status = "in-use" /\ vols'[v].status # "in-use"
         => \/ va[v][vols[v].vm] = "leaving"
            \/ "detach" \in late[v] /\ Excused(v)]_vars

(* A claim is bound in the end, though calls fail and the service breaks a   *)
(* volume: a retried CreateVolume gets over what the last one left behind,   *)
(* unless that is a POST that lands after the retry has listed the volumes:  *)
(* of two volumes of one name CreateVolume takes neither.                    *)
ClaimEventuallyBound ==
  \A n \in Names :
    claim[n].phase = "pending" ~> claim[n].phase # "pending" \/ Doubled(n)

(* A node that goes on wanting a volume gets its device: the first publish   *)
(* is answered without one, and a later one has it. A volume the service failed *)
(* to create is not attached.                                                *)
DeviceEventuallyAnswered ==
  \A v \in VolIds, m \in VMs :
    Published(v, m) ~>
      \/ ctx[v][m] # NoDev
      \/ ~Published(v, m)
      \/ early[v] # {} \/ vols[v].status = "error"

(* An unpublish ends: unprotect and detach are repeated until they succeed.  *)
UnpublishEventuallyAcked ==
  \A v \in VolIds, m \in VMs :
    va[v][m] = "leaving" ~> va[v][m] = "none" \/ early[v] # {}

(* A released claim goes away, or its volume does (a DeleteVolume repeated   *)
(* after its answer was lost fails with NotFound for ever).                  *)
ReleasedEventuallySettles ==
  \A n \in Names :
    claim[n].phase = "released" ~>
      claim[n].phase = "gone" \/ \E v \in VolIds :
        claim[n].vol = v /\ (vols[v].status = "deleted" \/ early[v] # {})

-----------------------------------------------------------------------------
(* VolumeLifecycle implements VolumeClaims when no name occurs in another.   *)
Destroyed == {v \in VolIds : vols[v].status \in {"deleting", "deleted"}}

Claims == INSTANCE VolumeClaims WITH
  phase <- [n \in Names |-> claim[n].phase],
  volume <- [n \in Names |-> claim[n].vol],
  destroyed <- Destroyed

(* Every step of the calls, the service and the orchestrator binds a fresh   *)
(* volume, releases, destroys or forgets one, or changes none of that.       *)
ClaimsSpec == Claims!Spec

-----------------------------------------------------------------------------
(* What the code's comments and charts say, and the code does not do.        *)

(* The volume of a claim that is gone is deleted, or being deleted.          *)
GoneVolumesAreDeleted ==
  \A n \in Names :
    claim[n].phase = "gone" => vols[claim[n].vol].status \in {"deleting", "deleted"}

(* No ControllerUnpublishVolume finds a volume in use with no attachment.    *)
AttachmentFound == \A c \in Calls : ~FindsNoAttachment(c)
=============================================================================
