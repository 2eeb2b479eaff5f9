----------------------- MODULE VolumeLifecycle_proofs -----------------------
(* Proofs about VolumeLifecycle, for every value of the constants.           *)
EXTENDS VolumeLifecycle, TLAPS

(* What the goroutine of a call has read by the point it has reached.        *)
CallOK(k) ==
  /\ k.op = "none" => k.pc = "idle"
  /\ k.op = "create" =>
       /\ k.name \in Names /\ k.pc \in {"list", "post", "poll", "replied"}
       /\ k.pc = "poll" \/ k.code = "OK" => k.vol \in VolIds
  /\ k.op = "delete" =>
       k.name \in Names /\ k.vol \in VolIds /\ k.pc \in {"get", "delete", "replied"}
  /\ k.op = "publish" =>
       k.vol \in VolIds /\ k.vm \in VMs /\ k.pc \in {"lookup", "get", "attach", "replied"}
  /\ k.op = "unpublish" =>
       /\ k.vol \in VolIds /\ k.vm \in VMs
       /\ k.pc \in {"get", "attachment", "unprotect", "detach", "replied"}
       /\ k.pc = "unprotect" => k.att \in VMs

(* A volume that is on a VM, or on its way to or from one, knows which.      *)
VolumeOK(vol) ==
  /\ vol.status \in {"attaching", "in-use", "detaching"} => vol.vm \in VMs
  /\ vol.dev # NoDev => vol.status = "in-use"

ClaimOK(cl) == cl.phase # "pending" => cl.vol \in VolIds

TypeInv ==
  /\ TypeOK
  /\ \A c \in Calls : CallOK(calls[c])
  /\ \A v \in VolIds : VolumeOK(vols[v])
  /\ \A n \in Names : ClaimOK(claim[n])

-----------------------------------------------------------------------------
(* RoundUpSize is the least number of units that hold the bytes.             *)
LEMMA RoundUpSizeLeast ==
  ASSUME NEW b \in Nat, NEW u \in Nat \ {0}
  PROVE  /\ RoundUpSize(b, u) \in Nat
         /\ u * RoundUpSize(b, u) >= b
         /\ u * (RoundUpSize(b, u) - 1) < b
<1> DEFINE q == b \div u
           r == b % u
<1>1. q \in Nat /\ r \in 0 .. (u - 1) /\ b = u * q + r
  OBVIOUS
<1>2. RoundUpSize(b, u) = q + (IF r > 0 THEN 1 ELSE 0)
  BY DEF RoundUpSize
<1> HIDE DEF q, r
<1>3. CASE r > 0
  <2>1. RoundUpSize(b, u) = q + 1
    BY <1>2, <1>3
  <2>2. u * (q + 1) = u * q + u
    BY <1>1
  <2> QED
    BY <1>1, <1>3, <2>1, <2>2
<1>4. CASE ~(r > 0)
  <2>1. RoundUpSize(b, u) = q /\ r = 0
    BY <1>1, <1>2, <1>4
  <2>2. u * (q - 1) = u * q - u
    BY <1>1
  <2> QED
    BY <1>1, <2>1, <2>2
<1> QED
  BY <1>3, <1>4

-----------------------------------------------------------------------------
(* The type invariant.                                                       *)

USE DEF cloudVars, coVars, ctrlVars

LEMMA TypeInit == Init => TypeInv
<1> SUFFICES ASSUME Init PROVE TypeInv
  OBVIOUS
<1> USE CloudAssumption, ControllerAssumption, LifecycleAssumption
<1>1. vols \in [VolIds -> Volume]
  BY DEF Init, CtrlInit, CloudInit, Absent, Volume, Statuses, Live
<1>2. calls \in [Calls -> Call]
  BY DEF Init, CtrlInit, Idle, Call, Ops, Pcs, Codes
<1>3. claim \in [Names -> Claim]
  BY DEF Init, Claim, Phases
<1>4. TypeOK
  BY <1>1, <1>2, <1>3 DEF Init, CtrlInit, CloudInit, TypeOK, CtrlTypeOK, CloudTypeOK
<1> QED
  BY <1>4 DEF Init, CtrlInit, CloudInit, TypeInv, CallOK, VolumeOK, ClaimOK, Idle, Absent

(* What a step that changes one call, or one volume, has to show.            *)
CallsOK == calls \in [Calls -> Call] /\ \A c \in Calls : CallOK(calls[c])
VolumesOK == vols \in [VolIds -> Volume] /\ \A v \in VolIds : VolumeOK(vols[v])

LEMMA NowOK ==
  ASSUME CallsOK, NEW c \in Calls, NEW k \in Call, CallOK(k), Now(c, k)
  PROVE  CallsOK'
  BY DEF CallsOK, Now

LEMMA SetVolumeOK ==
  ASSUME VolumesOK, NEW v \in VolIds, NEW vol \in Volume, VolumeOK(vol), SetVolume(v, vol)
  PROVE  VolumesOK'
  BY DEF VolumesOK, SetVolume

LEMMA ReplyOK ==
  ASSUME CallsOK, NEW c \in Calls, calls[c].op # "none", NEW code \in Codes,
         calls[c].op = "create" => code # "OK", Reply(c, code)
  PROVE  CallsOK'
<1> DEFINE k == [calls[c] EXCEPT !.pc = "replied", !.code = code]
<1>0. calls[c] \in Call /\ CallOK(calls[c])
  BY DEF CallsOK
<1>1. k \in Call
  BY <1>0 DEF Call, Pcs
<1>2. CallOK(k)
  BY <1>0 DEF CallOK, Call
<1> QED
  BY <1>1, <1>2, NowOK DEF Reply

LEMMA ReplyCreatedOK ==
  ASSUME CallsOK, NEW c \in Calls, NEW v \in VolIds, calls[c].op = "create",
         ReplyCreated(c, v)
  PROVE  CallsOK'
<1> DEFINE k == [calls[c] EXCEPT !.pc = "replied", !.code = "OK", !.vol = v]
<1>0. calls[c] \in Call /\ CallOK(calls[c])
  BY DEF CallsOK
<1>1. k \in Call
  BY <1>0 DEF Call, Pcs, Codes
<1>2. CallOK(k)
  BY <1>0 DEF CallOK, Call
<1> QED
  BY <1>1, <1>2, NowOK DEF ReplyCreated

LEMMA GotoOK ==
  ASSUME CallsOK, NEW c \in Calls, NEW pc \in Pcs, Goto(c, pc),
         \/ calls[c].op = "create" /\ pc = "post"
         \/ calls[c].op = "delete" /\ pc = "delete"
         \/ calls[c].op = "publish" /\ pc \in {"get", "attach"}
         \/ calls[c].op = "unpublish" /\ pc \in {"attachment", "detach"}
  PROVE  CallsOK'
<1> DEFINE k == [calls[c] EXCEPT !.pc = pc]
<1>0. calls[c] \in Call /\ CallOK(calls[c])
  BY DEF CallsOK
<1>1. k \in Call
  BY <1>0 DEF Call
<1>2. CallOK(k)
  BY <1>0 DEF CallOK, Call
<1> QED
  BY <1>1, <1>2, NowOK DEF Goto

LEMMA IdleOK == Idle \in Call /\ CallOK(Idle)
  BY ControllerAssumption DEF Idle, Call, CallOK, Ops, Pcs, Codes

-----------------------------------------------------------------------------
(* The handlers.                                                             *)

LEMMA CreateOK ==
  ASSUME CallsOK, NEW c \in Calls, CreateList(c) \/ CreatePost(c) \/ CreatePoll(c)
  PROVE  CallsOK'
<1>1. CASE CreateList(c)
  BY <1>1, ReplyOK, ReplyCreatedOK, GotoOK DEF CreateList, CreateFound, CreateAmbiguous,
     CreateNotFound, At, Codes, Pcs
<1>2. CASE CreatePost(c)
  <2>1. PICK v \in VolIds : Now(c, [calls[c] EXCEPT !.pc = "poll", !.vol = v])
    BY <1>2 DEF CreatePost
  <2> DEFINE k == [calls[c] EXCEPT !.pc = "poll", !.vol = v]
  <2>0. calls[c] \in Call /\ CallOK(calls[c]) /\ calls[c].op = "create"
    BY <1>2 DEF CallsOK, CreatePost, At
  <2>2. k \in Call
    BY <2>0 DEF Call, Pcs
  <2>3. CallOK(k)
    BY <2>0 DEF CallOK, Call
  <2> QED
    BY <2>1, <2>2, <2>3, NowOK
<1>3. CASE CreatePoll(c)
  <2> DEFINE v == calls[c].vol
             k == [calls[c] EXCEPT !.polls = @ + 1]
  <2>1. v \in VolIds /\ calls[c].op = "create"
    BY <1>3 DEF CallsOK, CallOK, CreatePoll, At
  <2>2. ASSUME ~PollingEnds(c), Now(c, k) PROVE CallsOK'
    <3>1. calls[c].polls + 1 \in 0 .. (MaxPolls - 1)
      BY <2>2, ControllerAssumption DEF PollingEnds, CallsOK, Call
    <3>2. k \in Call
      BY <3>1 DEF CallsOK, Call
    <3>3. CallOK(k)
      BY <3>2 DEF CallsOK, CallOK, Call
    <3> QED
      BY <2>2, <3>2, <3>3, NowOK
  <2> QED
    BY <1>3, <2>1, <2>2, ReplyOK, ReplyCreatedOK DEF CreatePoll, Codes
<1> QED
  BY <1>1, <1>2, <1>3

LEMMA DeleteOK ==
  ASSUME CallsOK, NEW c \in Calls, DeleteGet(c) \/ DeleteSend(c)
  PROVE  CallsOK'
  BY ReplyOK, GotoOK DEF DeleteGet, DeleteSend, DeleteOf, At, Codes, Pcs

LEMMA PublishOK ==
  ASSUME CallsOK, VolumesOK, NEW c \in Calls, PublishLookup(c) \/ PublishGet(c) \/ PublishAttach(c)
  PROVE  CallsOK'
<1>1. ASSUME At(c, "publish", "get"), ReplyDevice(c, vols[calls[c].vol].dev) PROVE CallsOK'
  <2> DEFINE k == [calls[c] EXCEPT !.pc = "replied", !.code = "OK",
                                   !.dev = vols[calls[c].vol].dev]
  <2>0. calls[c] \in Call /\ CallOK(calls[c])
    BY DEF CallsOK
  <2>a. calls[c].vol \in VolIds
    BY <1>1, <2>0 DEF CallOK, At
  <2>b. vols[calls[c].vol] \in Volume
    BY <2>a DEF VolumesOK
  <2>c. vols[calls[c].vol].dev \in Devices \cup {NoDev}
    BY <2>b DEF Volume
  <2>1. k \in Call
    BY <2>0, <2>c DEF Call, Pcs, Codes
  <2>2. CallOK(k)
    BY <1>1, <2>0 DEF CallOK, Call, At
  <2> QED
    BY <1>1, <2>1, <2>2, NowOK DEF ReplyDevice
<1> QED
  BY <1>1, ReplyOK, GotoOK DEF PublishLookup, PublishGet, PublishAttach, At, Codes, Pcs

LEMMA UnpublishOK ==
  ASSUME CallsOK, VolumesOK, NEW c \in Calls,
         \/ UnpublishGet(c) \/ UnpublishAttachment(c)
         \/ UnpublishUnprotect(c) \/ UnpublishDetach(c)
  PROVE  CallsOK'
<1> DEFINE v == calls[c].vol
           k == [calls[c] EXCEPT !.pc = "unprotect", !.att = vols[v].vm]
<1>1. ASSUME At(c, "unpublish", "attachment"), HasAttachment(v), Now(c, k) PROVE CallsOK'
  <2>1. v \in VolIds /\ vols[v].vm \in VMs
    BY <1>1 DEF CallsOK, CallOK, VolumesOK, VolumeOK, At, HasAttachment
  <2>0. calls[c] \in Call /\ CallOK(calls[c])
    BY DEF CallsOK
  <2>2. k \in Call
    BY <2>0, <2>1 DEF Call, Pcs
  <2>3. CallOK(k)
    BY <1>1, <2>0, <2>1 DEF CallOK, Call, At
  <2> QED
    BY <1>1, <2>2, <2>3, NowOK
<1> QED
  BY <1>1, ReplyOK, GotoOK DEF UnpublishGet, UnpublishAttachment, UnpublishUnprotect,
     UnpublishDetach, At, Codes, Pcs

(* A request in flight is well formed, and so are those left behind.         *)
LEMMA InFlightRequest ==
  ASSUME CallsOK, NEW c \in Calls
  PROVE  InFlight(c) \subseteq Request
<1> USE DEF CallsOK, CallOK, Call
<1>1. CASE calls[c].pc = "post"
  BY <1>1 DEF InFlight, Post, Request, Ops
<1>2. CASE calls[c].pc = "delete"
  BY <1>2 DEF InFlight, Delete, Request, Ops
<1>3. CASE calls[c].pc = "attach"
  BY <1>3 DEF InFlight, Attach, Request, Ops
<1>4. CASE calls[c].pc = "unprotect"
  BY <1>4 DEF InFlight, Unprotect, Request, Ops
<1>5. CASE calls[c].pc = "detach"
  BY <1>5 DEF InFlight, Detach, Request, Ops
<1> QED
  BY <1>1, <1>2, <1>3, <1>4, <1>5 DEF InFlight

GhostsOK == ghosts \subseteq Request

LEMMA FailureOK ==
  ASSUME CallsOK, GhostsOK,
         \/ \E c \in Calls : CallFails(c)
         \/ Stops
  PROVE  CallsOK' /\ GhostsOK' /\ UNCHANGED vols
<1>1. CASE \E c \in Calls : CallFails(c)
  BY <1>1, InFlightRequest, NowOK, IdleOK DEF CallFails, LeavesBehind, GhostsOK
<1>2. CASE Stops
  <2>1. PICK lost \in SUBSET UNION {InFlight(c) : c \in Calls} : LeavesBehind(lost)
    BY <1>2 DEF Stops
  <2>2. lost \subseteq Request
    BY InFlightRequest
  <2> QED
    BY <1>2, <2>1, <2>2, IdleOK DEF Stops, LeavesBehind, GhostsOK, CallsOK
<1> QED
  BY <1>1, <1>2

-----------------------------------------------------------------------------
(* The volumes.                                                              *)

LEMMA RequestOK ==
  ASSUME VolumesOK, NEW v \in VolIds,
         \/ \E n \in Names, s \in Int : Creates(v, n, s)
         \/ Deletes(v)
         \/ \E m \in VMs : Attaches(v, m) \/ Unprotects(v, m) \/ Detaches(v, m)
  PROVE  VolumesOK'
<1>0. vols[v] \in Volume /\ VolumeOK(vols[v])
  BY DEF VolumesOK
<1> USE <1>0 DEF Volume, VolumeOK, Statuses, Live
<1>1. ASSUME NEW n \in Names, NEW s \in Int, Creates(v, n, s) PROVE VolumesOK'
  <2>1. NewVolume(n, s) \in Volume /\ VolumeOK(NewVolume(n, s))
    BY DEF NewVolume, Absent
  <2> QED
    BY <1>1, <2>1, SetVolumeOK DEF Creates
<1>2. CASE Deletes(v)
  BY <1>2, SetVolumeOK DEF Deletes, Deletable
<1>3. ASSUME NEW m \in VMs, Attaches(v, m) PROVE VolumesOK'
  BY <1>3, SetVolumeOK DEF Attaches, Attachable, Attaching
<1>4. ASSUME NEW m \in VMs, Unprotects(v, m) PROVE VolumesOK'
  BY <1>4, SetVolumeOK DEF Unprotects
<1>5. ASSUME NEW m \in VMs, Detaches(v, m) PROVE VolumesOK'
  BY <1>5, SetVolumeOK DEF Detaches, Detachable
<1> QED
  BY <1>1, <1>2, <1>3, <1>4, <1>5

LEMMA CloudOK ==
  ASSUME VolumesOK, NEW v \in VolIds, CloudProgress(v) \/ CloudFault(v)
  PROVE  VolumesOK' /\ UNCHANGED ghosts
<1>0. vols[v] \in Volume /\ VolumeOK(vols[v])
  BY DEF VolumesOK
<1> USE <1>0 DEF Volume, VolumeOK, Statuses, Live
<1>1. CASE CreateDone(v) \/ CreateBroken(v) \/ AttachDone(v) \/ DeleteDone(v)
  BY <1>1, SetVolumeOK DEF CreateDone, CreateBroken, AttachDone, DeleteDone, Becomes
<1>2. CASE DeviceReady(v)
  <2>1. PICK d \in Devices : SetVolume(v, [vols[v] EXCEPT !.dev = d])
    BY <1>2 DEF DeviceReady
  <2> QED
    BY <1>2, <2>1, SetVolumeOK DEF DeviceReady
<1>3. CASE AttachBroken(v) \/ DetachDone(v)
  <2>1. Detached(vols[v]) \in Volume /\ VolumeOK(Detached(vols[v]))
    BY CloudAssumption DEF Detached
  <2> QED
    BY <1>3, <2>1, SetVolumeOK DEF AttachBroken, DetachDone, Releases
<1> QED
  BY <1>1, <1>2, <1>3 DEF CloudProgress, CloudFault

LEMMA GhostOK ==
  ASSUME VolumesOK, GhostsOK, NEW r \in ghosts, GhostLands(r)
  PROVE  VolumesOK' /\ GhostsOK'
<1>1. r \in Request
  BY DEF GhostsOK
<1>2. CASE r.kind = "post" /\ \E v \in VolIds : Creates(v, r.name, r.size)
  <2>1. r.name \in Names /\ r.size \in Int
    BY <1>1, <1>2 DEF Request
  <2> QED
    BY <1>2, <2>1, RequestOK DEF GhostLands, GhostsOK
<1>3. CASE r.kind = "delete" /\ Deletes(r.vol)
  <2>1. r.vol \in VolIds
    BY <1>1, <1>3 DEF Request
  <2> QED
    BY <1>3, <2>1, RequestOK DEF GhostLands, GhostsOK
<1>4. CASE \/ r.kind = "attach" /\ Attaches(r.vol, r.vm)
           \/ r.kind = "unprotect" /\ Unprotects(r.vol, r.vm)
           \/ r.kind = "detach" /\ Detaches(r.vol, r.vm)
  <2>1. r.vol \in VolIds /\ r.vm \in VMs
    BY <1>1, <1>4 DEF Request
  <2> QED
    BY <1>4, <2>1, RequestOK DEF GhostLands, GhostsOK
<1>5. CASE UNCHANGED vols
  BY <1>5 DEF GhostLands, GhostsOK, VolumesOK
<1> QED
  BY <1>2, <1>3, <1>4, <1>5 DEF GhostLands

-----------------------------------------------------------------------------
(* A step of a handler, and the orchestrator's steps.                        *)

LEMMA CallStepOK ==
  ASSUME CallsOK, VolumesOK, GhostsOK, NEW c \in Calls, CallStep(c)
  PROVE  CallsOK' /\ VolumesOK' /\ GhostsOK'
<1> USE DEF GhostsOK
<1>a. ASSUME UNCHANGED vols PROVE VolumesOK'
  BY <1>a DEF VolumesOK
<1>1. CASE CreateList(c) \/ CreatePoll(c)
  BY <1>1, <1>a, CreateOK DEF CreateList, CreatePoll
<1>2. CASE CreatePost(c)
  <2>1. PICK v \in VolIds : Creates(v, calls[c].name, calls[c].size)
    BY <1>2 DEF CreatePost
  <2>2. calls[c].name \in Names /\ calls[c].size \in Int
    BY <1>2 DEF CreatePost, At, CallsOK, CallOK, Call
  <2> QED
    BY <1>2, <2>1, <2>2, CreateOK, RequestOK DEF CreatePost
<1>3. CASE DeleteGet(c) \/ DeleteSend(c)
  <2>1. calls[c].vol \in VolIds
    BY <1>3 DEF DeleteGet, DeleteSend, At, CallsOK, CallOK
  <2> QED
    BY <1>3, <1>a, <2>1, DeleteOK, RequestOK DEF DeleteGet, DeleteSend
<1>4. CASE PublishLookup(c) \/ PublishGet(c) \/ PublishAttach(c)
  <2>1. calls[c].vol \in VolIds /\ calls[c].vm \in VMs
    BY <1>4 DEF PublishLookup, PublishGet, PublishAttach, At, CallsOK, CallOK
  <2> QED
    BY <1>4, <1>a, <2>1, PublishOK, RequestOK DEF PublishLookup, PublishGet, PublishAttach
<1>5. CASE UnpublishGet(c) \/ UnpublishAttachment(c)
  BY <1>5, <1>a, UnpublishOK DEF UnpublishGet, UnpublishAttachment
<1>6. CASE UnpublishUnprotect(c)
  <2>1. calls[c].vol \in VolIds /\ calls[c].att \in VMs
    BY <1>6 DEF UnpublishUnprotect, At, CallsOK, CallOK
  <2> QED
    BY <1>6, <1>a, <2>1, UnpublishOK, RequestOK DEF UnpublishUnprotect
<1>7. CASE UnpublishDetach(c)
  <2>1. calls[c].vol \in VolIds /\ calls[c].vm \in VMs
    BY <1>7 DEF UnpublishDetach, At, CallsOK, CallOK
  <2> QED
    BY <1>7, <1>a, <2>1, UnpublishOK, RequestOK DEF UnpublishDetach
<1>8. CASE Panic(c)
  BY <1>8, <1>a, FailureOK DEF Panic
<1> QED
  BY <1>1, <1>2, <1>3, <1>4, <1>5, <1>6, <1>7, <1>8 DEF CallStep

ClaimsOK == claim \in [Names -> Claim] /\ \A n \in Names : ClaimOK(claim[n])

IssueSome(c) ==
  \/ \E n \in Names : IssueCreate(c, n) \/ IssueDelete(c, n)
  \/ \E v \in VolIds, m \in VMs : IssuePublish(c, v, m) \/ IssueUnpublish(c, v, m)

LEMMA IssueOK ==
  ASSUME CallsOK, ClaimsOK, NEW c \in Calls, IssueSome(c)
  PROVE  CallsOK' /\ UNCHANGED <<cloudVars, coVars, faults>>
<1> USE ControllerAssumption DEF Issue, Enter
<1>1. ASSUME NEW n \in Names, IssueCreate(c, n) PROVE CallsOK'
  <2> DEFINE k == CreateCall(n, claim[n].bytes)
  <2>1. RoundUpSize(claim[n].bytes, GiB) \in Int
    <3>1. claim[n].bytes \in Nat /\ GiB \in Nat \ {0}
      BY LifecycleAssumption, CloudAssumption DEF ClaimsOK, Claim
    <3> QED
      BY <3>1, RoundUpSizeLeast
  <2>2. k \in Call
    BY <2>1, IdleOK DEF CreateCall, Call, Ops, Pcs
  <2>3. CallOK(k)
    BY DEF CreateCall, Idle, CallOK
  <2> QED
    BY <1>1, <2>2, <2>3, NowOK DEF IssueCreate
<1>2. ASSUME NEW n \in Names, IssueDelete(c, n) PROVE CallsOK'
  <2> DEFINE k == DeleteCall(n, claim[n].vol)
  <2>1. claim[n].vol \in VolIds
    BY <1>2 DEF IssueDelete, ClaimsOK, ClaimOK
  <2>2. k \in Call
    BY <2>1, IdleOK DEF DeleteCall, Call, Ops, Pcs
  <2>3. CallOK(k)
    BY <2>1 DEF DeleteCall, Idle, CallOK
  <2> QED
    BY <1>2, <2>2, <2>3, NowOK DEF IssueDelete
<1>3. ASSUME NEW v \in VolIds, NEW m \in VMs, IssuePublish(c, v, m) PROVE CallsOK'
  <2>1. PublishCall(v, m) \in Call
    BY IdleOK DEF PublishCall, Call, Ops, Pcs
  <2>2. CallOK(PublishCall(v, m))
    BY DEF PublishCall, Idle, CallOK
  <2> QED
    BY <1>3, <2>1, <2>2, NowOK DEF IssuePublish
<1>4. ASSUME NEW v \in VolIds, NEW m \in VMs, IssueUnpublish(c, v, m) PROVE CallsOK'
  <2>1. UnpublishCall(v, m) \in Call
    BY IdleOK DEF UnpublishCall, Call, Ops, Pcs
  <2>2. CallOK(UnpublishCall(v, m))
    BY DEF UnpublishCall, Idle, CallOK
  <2> QED
    BY <1>4, <2>1, <2>2, NowOK DEF IssueUnpublish
<1> QED
  BY <1>1, <1>2, <1>3, <1>4 DEF IssueSome, IssueCreate, IssueDelete, IssuePublish, IssueUnpublish

(* The VolumeAttachments, their contexts, the history and the fault budget.  *)
AttachmentsOK ==
  /\ va \in [VolIds -> [VMs -> {"none", "wanted", "attached", "leaving"}]]
  /\ ctx \in [VolIds -> [VMs -> Devices \cup {NoDev}]]
  /\ early \in [VolIds -> SUBSET VMs]

VaStates == {"none", "wanted", "attached", "leaving"}

LEMMA SetVa ==
  ASSUME AttachmentsOK, NEW v \in VolIds, NEW m \in VMs, NEW s \in VaStates
  PROVE  [va EXCEPT ![v][m] = s] \in [VolIds -> [VMs -> VaStates]]
  BY DEF AttachmentsOK, VaStates

LEMMA SetCtx ==
  ASSUME AttachmentsOK, NEW v \in VolIds, NEW m \in VMs, NEW d \in Devices \cup {NoDev}
  PROVE  [ctx EXCEPT ![v][m] = d] \in [VolIds -> [VMs -> Devices \cup {NoDev}]]
  BY DEF AttachmentsOK

LEMMA ReceiveOK ==
  ASSUME CallsOK, ClaimsOK, AttachmentsOK, NEW c \in Calls, Receive(c)
  PROVE  CallsOK' /\ ClaimsOK' /\ AttachmentsOK' /\ UNCHANGED <<cloudVars, faults>>
<1>1. CallsOK'
  BY NowOK, IdleOK DEF Receive, ReceiveCreate, ReceiveDelete, ReceivePublish,
     ReceiveUnpublish, Answered
<1>2. CASE ReceiveCreate(c)
  <2> DEFINE n == calls[c].name
             cl == [claim[n] EXCEPT !.phase = "bound", !.vol = calls[c].vol]
  <2>1. n \in Names /\ (Succeeds(c) => calls[c].vol \in VolIds)
    BY <1>2 DEF ReceiveCreate, Answered, At, Succeeds, CallsOK, CallOK
  <2>2. Succeeds(c) => cl \in Claim /\ ClaimOK(cl)
    BY <2>1 DEF ClaimsOK, ClaimOK, Claim, Phases
  <2>3. ClaimsOK'
    BY <1>2, <2>1, <2>2 DEF ReceiveCreate, SetClaim, ClaimsOK
  <2> QED
    BY <1>1, <1>2, <2>3 DEF ReceiveCreate, AttachmentsOK
<1>3. CASE ReceiveDelete(c)
  <2> DEFINE n == calls[c].name
             cl == [claim[n] EXCEPT !.phase = "gone"]
  <2>1. n \in Names
    BY <1>3 DEF ReceiveDelete, Answered, At, CallsOK, CallOK
  <2>2. claim[n].phase = "released" => cl \in Claim /\ ClaimOK(cl)
    BY <2>1 DEF ClaimsOK, ClaimOK, Claim, Phases
  <2>3. ClaimsOK'
    BY <1>3, <2>1, <2>2 DEF ReceiveDelete, SetClaim, ClaimsOK
  <2> QED
    BY <1>1, <1>3, <2>3 DEF ReceiveDelete, AttachmentsOK
<1>4. CASE ReceivePublish(c) \/ ReceiveUnpublish(c)
  <2>1. /\ calls[c].vol \in VolIds /\ calls[c].vm \in VMs
        /\ calls[c].dev \in Devices \cup {NoDev}
    BY <1>4 DEF ReceivePublish, ReceiveUnpublish, Answered, At, CallsOK, CallOK, Call
  <2> DEFINE v == calls[c].vol
             m == calls[c].vm
  <2>3. \/ UNCHANGED <<va, ctx>>
        \/ /\ va' = [va EXCEPT ![v][m] = "attached"]
           /\ ctx' = [ctx EXCEPT ![v][m] = calls[c].dev]
        \/ /\ va' = [va EXCEPT ![v][m] = "none"]
           /\ ctx' = [ctx EXCEPT ![v][m] = NoDev]
    BY <1>4 DEF ReceivePublish, ReceiveUnpublish
  <2>4. /\ va' \in [VolIds -> [VMs -> VaStates]]
        /\ ctx' \in [VolIds -> [VMs -> Devices \cup {NoDev}]]
    <3> HIDE DEF v, m
    <3>1. v \in VolIds /\ m \in VMs /\ "attached" \in VaStates /\ "none" \in VaStates
      BY <2>1 DEF v, m, VaStates
    <3>2. CASE UNCHANGED <<va, ctx>>
      BY <3>2 DEF AttachmentsOK, VaStates
    <3>3. CASE /\ va' = [va EXCEPT ![v][m] = "attached"]
               /\ ctx' = [ctx EXCEPT ![v][m] = calls[c].dev]
      BY <2>1, <3>1, <3>3, SetVa, SetCtx
    <3>4. CASE /\ va' = [va EXCEPT ![v][m] = "none"]
               /\ ctx' = [ctx EXCEPT ![v][m] = NoDev]
      BY <3>1, <3>4, SetVa, SetCtx
    <3> QED
      BY <2>3, <3>2, <3>3, <3>4 DEF v, m
  <2>2. AttachmentsOK'
    BY <1>4, <2>4 DEF ReceivePublish, ReceiveUnpublish, AttachmentsOK, VaStates
  <2> QED
    BY <1>1, <1>4, <2>2 DEF ReceivePublish, ReceiveUnpublish, ClaimsOK
<1> QED
  BY <1>2, <1>3, <1>4 DEF Receive

UserStep ==
  \/ \E n \in Names : Release(n)
  \/ \E v \in VolIds, m \in VMs : Want(v, m) \/ Unwant(v, m)

LEMMA UserOK ==
  ASSUME ClaimsOK, AttachmentsOK, UserStep
  PROVE  ClaimsOK' /\ AttachmentsOK' /\ UNCHANGED <<ctrlVars, faults>>
<1>1. ASSUME NEW n \in Names, Release(n) PROVE ClaimsOK'
  <2> DEFINE cl == [claim[n] EXCEPT !.phase = "released"]
  <2>1. cl \in Claim /\ ClaimOK(cl)
    BY <1>1 DEF Release, ClaimsOK, ClaimOK, Claim, Phases
  <2> QED
    BY <1>1, <2>1 DEF Release, SetClaim, ClaimsOK
<1>2. ASSUME NEW v \in VolIds, NEW m \in VMs, Want(v, m) \/ Unwant(v, m) PROVE AttachmentsOK'
  <2>1. "wanted" \in VaStates /\ "leaving" \in VaStates
    BY DEF VaStates
  <2>2. va' \in [VolIds -> [VMs -> VaStates]]
    BY <1>2, <2>1, SetVa DEF Want, Unwant
  <2>3. ctx' = ctx /\ early' \in [VolIds -> SUBSET VMs]
    BY <1>2 DEF Want, Unwant, AttachmentsOK
  <2> QED
    BY <2>2, <2>3 DEF AttachmentsOK, VaStates
<1> QED
  BY <1>1, <1>2 DEF UserStep, Release, Want, Unwant, ClaimsOK, AttachmentsOK

LEMMA NotesEarlyOK ==
  ASSUME AttachmentsOK, CallsOK, NEW c \in Calls, NotesEarly(c), UNCHANGED <<va, ctx>>
  PROVE  AttachmentsOK'
<1>1. At(c, "unpublish", "get") => calls[c].vol \in VolIds /\ calls[c].vm \in VMs
  BY DEF At, CallsOK, CallOK
<1> QED
  BY <1>1 DEF NotesEarly, AttachmentsOK

-----------------------------------------------------------------------------
LEMMA TypeParts ==
  TypeInv <=> /\ VolumesOK /\ GhostsOK /\ CallsOK /\ ClaimsOK /\ AttachmentsOK
              /\ late \in [VolIds -> SUBSET LateKinds] /\ raced \subseteq Names
              /\ faults \in 0 .. MaxFaults
  BY DEF TypeInv, TypeOK, CtrlTypeOK, CloudTypeOK, VolumesOK, GhostsOK, CallsOK, ClaimsOK,
     AttachmentsOK

(* The disjuncts of Next, by what they touch.                                *)
FaultStep ==
  \/ \E c \in Calls : Fault(CallFails(c))
  \/ Fault(Crash)
  \/ \E v \in VolIds : Fault(CloudFault(v) /\ UNCHANGED calls)

LEMMA NextCases ==
  Next <=>
    /\ \/ \E c \in Calls : IssueSome(c) \/ Serves(c) \/ Receive(c)
       \/ FaultStep
       \/ \E v \in VolIds : Progress(v)
       \/ \E r \in ghosts : Late(r)
       \/ UserStep
    /\ NotesLate /\ NotesRaced
  BY DEF Next, Noted, Step, IssueSome, FaultStep, UserStep

LEMMA TypeNext == TypeInv /\ [Next]_vars => TypeInv'
<1> SUFFICES ASSUME TypeInv, [Next]_vars
             PROVE  TypeInv'
  OBVIOUS
<1>0. /\ VolumesOK /\ GhostsOK /\ CallsOK /\ ClaimsOK /\ AttachmentsOK
      /\ late \in [VolIds -> SUBSET LateKinds] /\ raced \subseteq Names
      /\ faults \in 0 .. MaxFaults
  BY TypeParts
<1>n. late' \in [VolIds -> SUBSET LateKinds] /\ raced' \subseteq Names
  BY <1>0, NextCases DEF NotesLate, NotesRaced, KindsOf, vars
<1> SUFFICES /\ VolumesOK' /\ GhostsOK' /\ CallsOK' /\ ClaimsOK' /\ AttachmentsOK'
             /\ faults' \in 0 .. MaxFaults
  BY <1>n DEF TypeInv, TypeOK, CtrlTypeOK, CloudTypeOK, VolumesOK, GhostsOK, CallsOK, ClaimsOK,
     AttachmentsOK
<1>a. UNCHANGED vols => VolumesOK'
  BY <1>0 DEF VolumesOK
<1>b. UNCHANGED ghosts => GhostsOK'
  BY <1>0 DEF GhostsOK
<1>c. UNCHANGED calls => CallsOK'
  BY <1>0 DEF CallsOK
<1>d. UNCHANGED claim => ClaimsOK'
  BY <1>0 DEF ClaimsOK
<1>e. UNCHANGED <<va, ctx, early>> => AttachmentsOK'
  BY <1>0 DEF AttachmentsOK
<1>1. CASE \E c \in Calls : IssueSome(c)
  BY <1>0, <1>1, <1>a, <1>b, <1>d, <1>e, IssueOK
<1>2. CASE \E c \in Calls : Serves(c)
  BY <1>0, <1>2, <1>d, CallStepOK, NotesEarlyOK DEF Serves
<1>3. CASE \E c \in Calls : Receive(c)
  BY <1>0, <1>3, <1>a, <1>b, ReceiveOK
<1>4. CASE FaultStep
  <2>1. UNCHANGED coVars /\ faults' \in 0 .. MaxFaults
    BY <1>0, <1>4, LifecycleAssumption DEF FaultStep, Fault
  <2>2. CASE \/ \E c \in Calls : Fault(CallFails(c))
             \/ Fault(Crash)
    BY <1>0, <2>1, <2>2, <1>a, <1>d, <1>e, FailureOK DEF Fault, Crash
  <2>3. CASE \E v \in VolIds : Fault(CloudFault(v) /\ UNCHANGED calls)
    BY <1>0, <2>1, <2>3, <1>b, <1>c, <1>d, <1>e, CloudOK DEF Fault
  <2> QED
    BY <1>4, <2>2, <2>3 DEF FaultStep
<1>5. CASE \E v \in VolIds : Progress(v)
  BY <1>0, <1>5, <1>b, <1>c, <1>d, <1>e, CloudOK DEF Progress
<1>6. CASE \E r \in ghosts : Late(r)
  BY <1>0, <1>6, <1>c, <1>d, <1>e, GhostOK DEF Late
<1>7. CASE UserStep
  BY <1>0, <1>7, <1>a, <1>b, <1>c, UserOK
<1>8. CASE UNCHANGED vars
  BY <1>0, <1>8, <1>a, <1>b, <1>c, <1>d, <1>e DEF vars
<1> QED
  BY <1>1, <1>2, <1>3, <1>4, <1>5, <1>6, <1>7, <1>8, NextCases

(* Every value the system reaches has its type, whatever the numbers of      *)
(* claims, volumes, nodes and concurrent calls and whatever fails.           *)
THEOREM TypeCorrect == Spec => []TypeOK
<1>1. Spec => []TypeInv
  BY TypeInit, TypeNext, PTL DEF Spec
<1>2. TypeInv => TypeOK
  BY DEF TypeInv
<1> QED
  BY <1>1, <1>2, PTL

-----------------------------------------------------------------------------
(* The inductive invariant behind the safety of claims: whatever a call, a   *)
(* claim or a late request refers to belongs to the claim's own name.        *)

Doom == {"deleting", "deleted"}
Over == {"released", "gone"}

Owns(n, v) == vols[v].status # "absent" /\ vols[v].name = n
SizeOf(n) == RoundUpSize(claim[n].bytes, GiB)

ClaimsInv ==
  \A n \in Names :
    IF claim[n].phase = "pending"
    THEN claim[n].vol = NoVol
    ELSE Owns(n, claim[n].vol) /\ vols[claim[n].vol].size = SizeOf(n)

CreatesInv ==
  \A c \in Calls : calls[c].op = "create" =>
    /\ calls[c].size = SizeOf(calls[c].name)
    /\ calls[c].pc = "poll" \/ calls[c].code = "OK" =>
         Owns(calls[c].name, calls[c].vol) /\ vols[calls[c].vol].size = calls[c].size

Discarded(v) == \E n \in Names : claim[n].phase \in Over /\ claim[n].vol = v

DeletesInv ==
  \A c \in Calls : calls[c].op = "delete" =>
    claim[calls[c].name].phase \in Over /\ claim[calls[c].name].vol = calls[c].vol

GhostsInv == \A v \in VolIds : Delete(v) \in ghosts => Discarded(v)
DoomInv == \A v \in VolIds : vols[v].status \in Doom => Discarded(v)

IInv == TypeInv /\ ClaimsInv /\ CreatesInv /\ DeletesInv /\ GhostsInv /\ DoomInv

-----------------------------------------------------------------------------
(* What no step does to a volume, and who can doom one.                      *)

Kept(v) ==
  vols[v].status # "absent" =>
    /\ vols'[v].status # "absent"
    /\ vols'[v].name = vols[v].name /\ vols'[v].size = vols[v].size

DeleteAsked(v) == (\E c \in Calls : At(c, "delete", "delete") /\ calls[c].vol = v)
                    \/ Delete(v) \in ghosts

VolumesKept == \A v \in VolIds :
  Kept(v) /\ (vols'[v].status \in Doom => vols[v].status \in Doom \/ DeleteAsked(v))

LEMMA UnchangedKept == ASSUME UNCHANGED vols PROVE VolumesKept
  BY DEF VolumesKept, Kept

LEMMA RequestKept ==
  ASSUME TypeInv, NEW w \in VolIds,
         \/ \E n \in Names, s \in Int : Creates(w, n, s)
         \/ Deletes(w) /\ DeleteAsked(w)
         \/ \E m \in VMs : Attaches(w, m) \/ Unprotects(w, m) \/ Detaches(w, m)
  PROVE  VolumesKept
<1> USE DEF VolumesKept, Kept, SetVolume, Doom
<1>0. vols \in [VolIds -> Volume]
  BY DEF TypeInv, TypeOK, CtrlTypeOK, CloudTypeOK
<1>1. ASSUME NEW n \in Names, NEW s \in Int, Creates(w, n, s) PROVE VolumesKept
  BY <1>0, <1>1 DEF Creates, NewVolume, Absent, Volume
<1>2. CASE Deletes(w) /\ DeleteAsked(w)
  BY <1>0, <1>2 DEF Deletes, Volume
<1>3. ASSUME NEW m \in VMs, Attaches(w, m) \/ Unprotects(w, m) \/ Detaches(w, m)
      PROVE  VolumesKept
  <2>1. CASE Attaches(w, m)
    BY <1>0, <2>1 DEF Attaches, Attaching, Volume
  <2>2. CASE Unprotects(w, m)
    BY <1>0, <2>2 DEF Unprotects, Volume
  <2>3. CASE Detaches(w, m)
    BY <1>0, <2>3 DEF Detaches, Volume
  <2> QED
    BY <1>3, <2>1, <2>2, <2>3
<1> QED
  BY <1>1, <1>2, <1>3

LEMMA CloudKept ==
  ASSUME TypeInv, NEW w \in VolIds, CloudProgress(w) \/ CloudFault(w)
  PROVE  VolumesKept
<1> USE DEF VolumesKept, Kept, SetVolume, Doom
<1>0. vols \in [VolIds -> Volume]
  BY DEF TypeInv, TypeOK, CtrlTypeOK, CloudTypeOK
<1>1. CASE CreateDone(w) \/ CreateBroken(w) \/ AttachDone(w) \/ DeleteDone(w)
  BY <1>0, <1>1 DEF CreateDone, CreateBroken, AttachDone, DeleteDone, Becomes, Volume
<1>2. CASE DeviceReady(w)
  BY <1>0, <1>2 DEF DeviceReady, Volume
<1>3. CASE AttachBroken(w) \/ DetachDone(w)
  <2> DEFINE d == Detached(vols[w])
  <2>1. d.name = vols[w].name /\ d.size = vols[w].size /\ d.status = "available"
    BY <1>0 DEF Detached, Volume
  <2>2. vols' = [vols EXCEPT ![w] = d]
    BY <1>3 DEF AttachBroken, DetachDone, Releases
  <2> HIDE DEF d
  <2> QED
    BY <1>0, <2>1, <2>2
<1> QED
  BY <1>1, <1>2, <1>3 DEF CloudProgress, CloudFault

LEMMA CallKept ==
  ASSUME TypeInv, NEW c \in Calls, CallStep(c)
  PROVE  VolumesKept
<1>0. CallOK(calls[c]) /\ calls[c] \in Call
  BY DEF TypeInv, TypeOK, CtrlTypeOK
<1>1. CASE UNCHANGED vols
  BY <1>1, UnchangedKept
<1>2. CASE CreatePost(c)
  <2>1. PICK v \in VolIds : Creates(v, calls[c].name, calls[c].size)
    BY <1>2 DEF CreatePost
  <2>2. calls[c].name \in Names /\ calls[c].size \in Int
    BY <1>0, <1>2 DEF CreatePost, At, CallOK, Call
  <2> QED
    BY <2>1, <2>2, RequestKept
<1>3. CASE DeleteSend(c) /\ Deletes(calls[c].vol)
  <2>1. calls[c].vol \in VolIds /\ DeleteAsked(calls[c].vol)
    BY <1>0, <1>3 DEF DeleteSend, At, CallOK, DeleteAsked
  <2> QED
    BY <1>3, <2>1, RequestKept
<1>4. CASE PublishAttach(c) /\ Attaches(calls[c].vol, calls[c].vm)
  BY <1>0, <1>4, RequestKept DEF PublishAttach, At, CallOK
<1>5. CASE UnpublishUnprotect(c) /\ Unprotects(calls[c].vol, calls[c].att)
  BY <1>0, <1>5, RequestKept DEF UnpublishUnprotect, At, CallOK
<1>6. CASE UnpublishDetach(c) /\ Detaches(calls[c].vol, calls[c].vm)
  BY <1>0, <1>6, RequestKept DEF UnpublishDetach, At, CallOK
<1> QED
  BY <1>1, <1>2, <1>3, <1>4, <1>5, <1>6 DEF CallStep, CreateList, CreatePoll, DeleteGet,
     DeleteSend, PublishLookup, PublishGet, PublishAttach, UnpublishGet, UnpublishAttachment,
     UnpublishUnprotect, UnpublishDetach, Panic, Stops

LEMMA LateKept ==
  ASSUME TypeInv, NEW r \in ghosts, GhostLands(r)
  PROVE  VolumesKept
<1>0. r \in Request
  BY DEF TypeInv, TypeOK, CtrlTypeOK, CloudTypeOK
<1>1. CASE r.kind = "post" /\ \E v \in VolIds : Creates(v, r.name, r.size)
  <2>1. r.name \in Names /\ r.size \in Int
    BY <1>0, <1>1 DEF Request
  <2> QED
    BY <1>1, <2>1, RequestKept
<1>2. CASE r.kind = "delete" /\ Deletes(r.vol)
  <2>1. r.vol \in VolIds /\ r = Delete(r.vol)
    BY <1>0, <1>2 DEF Request, Delete
  <2>2. DeleteAsked(r.vol)
    BY <2>1 DEF DeleteAsked
  <2> QED
    BY <1>2, <2>1, <2>2, RequestKept
<1>3. CASE \/ r.kind = "attach" /\ Attaches(r.vol, r.vm)
           \/ r.kind = "unprotect" /\ Unprotects(r.vol, r.vm)
           \/ r.kind = "detach" /\ Detaches(r.vol, r.vm)
  <2>1. r.vol \in VolIds /\ r.vm \in VMs
    BY <1>0, <1>3 DEF Request
  <2> QED
    BY <1>3, <2>1, RequestKept
<1>4. CASE UNCHANGED vols
  BY <1>4, UnchangedKept
<1> QED
  BY <1>1, <1>2, <1>3, <1>4 DEF GhostLands

LEMMA NextKept == ASSUME TypeInv, [Next]_vars PROVE VolumesKept
<1>1. CASE \E c \in Calls : IssueSome(c) \/ Receive(c)
  BY <1>1, UnchangedKept DEF IssueSome, IssueCreate, IssueDelete, IssuePublish, IssueUnpublish,
     Issue, Receive, ReceiveCreate, ReceiveDelete, ReceivePublish, ReceiveUnpublish
<1>2. CASE \E c \in Calls : Serves(c)
  BY <1>2, CallKept DEF Serves
<1>3. CASE FaultStep
  BY <1>3, UnchangedKept, CloudKept DEF FaultStep, Fault, CallFails, Crash, Stops
<1>4. CASE \E v \in VolIds : Progress(v)
  BY <1>4, CloudKept DEF Progress
<1>5. CASE \E r \in ghosts : Late(r)
  BY <1>5, LateKept DEF Late
<1>6. CASE UserStep
  BY <1>6, UnchangedKept DEF UserStep, Release, Want, Unwant
<1>7. CASE UNCHANGED vars
  BY <1>7, UnchangedKept DEF vars
<1> QED
  BY <1>1, <1>2, <1>3, <1>4, <1>5, <1>6, <1>7, NextCases

-----------------------------------------------------------------------------
(* What no step does to a claim, and which steps move a call.                *)

ClaimKept(n) ==
  /\ claim'[n].bytes = claim[n].bytes
  /\ claim[n].phase # "pending" => claim'[n].phase # "pending" /\ claim'[n].vol = claim[n].vol
  /\ claim[n].phase \in Over => claim'[n].phase \in Over

ClaimsKept == \A n \in Names : ClaimKept(n)

LEMMA NextClaims == ASSUME TypeInv, [Next]_vars PROVE ClaimsKept
<1> USE DEF ClaimsKept, ClaimKept, Over
<1>0. claim \in [Names -> Claim] /\ \A c \in Calls : CallOK(calls[c])
  BY DEF TypeInv, TypeOK
<1>a. UNCHANGED claim => ClaimsKept
  OBVIOUS
<1>1. CASE \E c \in Calls : IssueSome(c) \/ Serves(c)
  BY <1>1, <1>a DEF IssueSome, IssueCreate, IssueDelete, IssuePublish, IssueUnpublish,
     Issue, Serves
<1>2. ASSUME NEW c \in Calls, Receive(c) PROVE ClaimsKept
  <2>1. CASE ReceiveCreate(c)
    <3> DEFINE n == calls[c].name
               cl == [claim[n] EXCEPT !.phase = "bound", !.vol = calls[c].vol]
    <3>1. n \in Names
      BY <1>0, <2>1 DEF ReceiveCreate, Answered, At, CallOK
    <3>2. cl.bytes = claim[n].bytes /\ cl.phase = "bound"
      BY <1>0, <3>1 DEF Claim
    <3>3. claim' = claim \/ (claim[n].phase = "pending" /\ claim' = [claim EXCEPT ![n] = cl])
      BY <2>1 DEF ReceiveCreate, SetClaim
    <3> HIDE DEF n, cl
    <3> QED
      BY <1>0, <3>1, <3>2, <3>3
  <2>2. CASE ReceiveDelete(c)
    BY <1>0, <2>2 DEF ReceiveDelete, SetClaim, Claim
  <2> QED
    BY <1>2, <1>a, <2>1, <2>2 DEF Receive, ReceivePublish, ReceiveUnpublish
<1>3. CASE FaultStep \/ (\E v \in VolIds : Progress(v)) \/ (\E r \in ghosts : Late(r))
  BY <1>3, <1>a DEF FaultStep, Fault, Progress, Late
<1>4. ASSUME NEW n \in Names, Release(n) PROVE ClaimsKept
  BY <1>0, <1>4 DEF Release, SetClaim, Claim
<1>5. CASE UNCHANGED vars \/ \E v \in VolIds, m \in VMs : Want(v, m) \/ Unwant(v, m)
  BY <1>5, <1>a DEF vars, Want, Unwant
<1> QED
  BY <1>1, <1>2, <1>3, <1>4, <1>5, NextCases DEF UserStep

(* A call that an idle slot takes up, or the handler that moves it.          *)
LEMMA Moves ==
  ASSUME TypeInv, [Next]_vars, NEW d \in Calls, calls'[d] # calls[d],
         calls'[d].op \in {"create", "delete"}
  PROVE  \/ \E n \in Names : IssueCreate(d, n) \/ IssueDelete(d, n)
         \/ CreateList(d) \/ CreatePost(d) \/ CreatePoll(d)
         \/ DeleteGet(d) \/ DeleteSend(d)
<1>0. calls \in [Calls -> Call]
  BY DEF TypeInv, TypeOK, CtrlTypeOK
<1>i. Idle.op = "none"
  BY DEF Idle
<1>1. ASSUME NEW c \in Calls, NEW k, Now(c, k) PROVE c = d /\ calls'[d] = k
  BY <1>0, <1>1 DEF Now
<1>2. CASE \E c \in Calls : IssueSome(c)
  <2>1. PICK c \in Calls : IssueSome(c)
    BY <1>2
  <2>2. ASSUME NEW v \in VolIds, NEW m \in VMs, IssuePublish(c, v, m) \/ IssueUnpublish(c, v, m)
        PROVE  FALSE
    <3>1. PublishCall(v, m).op = "publish" /\ UnpublishCall(v, m).op = "unpublish"
      BY DEF PublishCall, UnpublishCall, Idle
    <3> QED
      BY <1>1, <2>2, <3>1 DEF IssuePublish, IssueUnpublish, Issue, Enter
  <2>3. PICK n \in Names : IssueCreate(c, n) \/ IssueDelete(c, n)
    BY <2>1, <2>2 DEF IssueSome
  <2>4. c = d
    BY <1>1, <2>3 DEF IssueCreate, IssueDelete, Issue, Enter
  <2> QED
    BY <2>3, <2>4
<1>3. ASSUME NEW c \in Calls, Stops \/ CallFails(c) \/ Receive(c) PROVE FALSE
  BY <1>1, <1>3, <1>i DEF Stops, CallFails, Receive, ReceiveCreate, ReceiveDelete,
     ReceivePublish, ReceiveUnpublish, Answered
<1>4. ASSUME NEW c \in Calls, CallStep(c)
      PROVE  \/ CreateList(d) \/ CreatePost(d) \/ CreatePoll(d)
             \/ DeleteGet(d) \/ DeleteSend(d)
  <2>1. CASE CreateList(c) \/ CreatePost(c) \/ CreatePoll(c)
    <3>1. c = d
      BY <1>1, <2>1 DEF CreateList, CreatePost, CreatePoll, CreateFound, CreateAmbiguous,
         CreateNotFound, Reply, ReplyCreated, Goto
    <3> QED
      BY <2>1, <3>1
  <2>2. CASE DeleteGet(c) \/ DeleteSend(c)
    <3>1. c = d
      BY <1>1, <2>2 DEF DeleteGet, DeleteSend, DeleteOf, Reply, Goto
    <3> QED
      BY <2>2, <3>1
  <2>3. CASE \/ PublishLookup(c) \/ PublishGet(c) \/ PublishAttach(c)
             \/ UnpublishGet(c) \/ UnpublishAttachment(c)
             \/ UnpublishUnprotect(c) \/ UnpublishDetach(c)
    <3>1. calls[c].op \in {"publish", "unpublish"} /\ calls[c] \in Call
      BY <1>0, <2>3 DEF PublishLookup, PublishGet, PublishAttach, UnpublishGet,
         UnpublishAttachment,
         UnpublishUnprotect, UnpublishDetach, At
    <3> DEFINE SameOp == \E k : Now(c, k) /\ k.op = calls[c].op
    <3>a. ASSUME NEW code, Reply(c, code) PROVE SameOp
      <4>1. [calls[c] EXCEPT !.pc = "replied", !.code = code].op = calls[c].op
        BY <3>1 DEF Call
      <4> QED
        BY <4>1, <3>a DEF Reply
    <3>b. ASSUME NEW dev, ReplyDevice(c, dev) PROVE SameOp
      <4>1. [calls[c] EXCEPT !.pc = "replied", !.code = "OK", !.dev = dev].op = calls[c].op
        BY <3>1 DEF Call
      <4> QED
        BY <4>1, <3>b DEF ReplyDevice
    <3>c. ASSUME NEW pc, Goto(c, pc) PROVE SameOp
      BY <3>1, <3>c DEF Goto, Call
    <3>d. ASSUME NEW m, Now(c, [calls[c] EXCEPT !.pc = "unprotect", !.att = m]) PROVE SameOp
      <4>1. [calls[c] EXCEPT !.pc = "unprotect", !.att = m].op = calls[c].op
        BY <3>1 DEF Call
      <4> QED
        BY <4>1, <3>d
    <3>e. SameOp
      <4> HIDE DEF SameOp
      <4> QED
        BY <2>3, <3>a, <3>b, <3>c, <3>d DEF PublishLookup, PublishGet, PublishAttach, UnpublishGet,
           UnpublishAttachment, UnpublishUnprotect, UnpublishDetach
    <3>2. PICK k : Now(c, k) /\ k.op = calls[c].op
      BY <3>e
    <3> QED
      BY <1>1, <3>1, <3>2
  <2>4. CASE Panic(c)
    BY <1>3, <2>4 DEF Panic
  <2> QED
    BY <1>4, <2>1, <2>2, <2>3, <2>4 DEF CallStep
<1>5. CASE (\E v \in VolIds : Progress(v)) \/ (\E r \in ghosts : Late(r)) \/ UserStep
           \/ UNCHANGED vars
  BY <1>5 DEF Progress, Late, UserStep, Release, Want, Unwant, vars
<1>6. CASE FaultStep
  BY <1>3, <1>6 DEF FaultStep, Fault, Crash
<1> QED
  BY <1>2, <1>3, <1>4, <1>5, <1>6, NextCases DEF Serves

-----------------------------------------------------------------------------
(* Each part of the invariant is preserved.                                  *)

LEMMA InvInit == Init => IInv
<1> SUFFICES ASSUME Init PROVE IInv
  OBVIOUS
<1>1. TypeInv
  BY TypeInit
<1>2. \A c \in Calls : calls[c].op = "none"
  BY DEF Init, CtrlInit, Idle
<1>3. ghosts = {} /\ \A v \in VolIds : vols[v].status = "absent"
  BY DEF Init, CtrlInit, CloudInit, Absent
<1>4. \A n \in Names : claim[n].phase = "pending" /\ claim[n].vol = NoVol
  BY DEF Init
<1> QED
  BY <1>1, <1>2, <1>3, <1>4 DEF IInv, ClaimsInv, CreatesInv, DeletesInv, GhostsInv, DoomInv, Doom

LEMMA DiscardedKept ==
  ASSUME ClaimsKept, NEW v \in VolIds, Discarded(v)
  PROVE  Discarded(v)'
  BY DEF ClaimsKept, ClaimKept, Discarded, Over

LEMMA AskedIsDiscarded ==
  ASSUME IInv, NEW v \in VolIds, DeleteAsked(v)
  PROVE  Discarded(v)
<1>1. ASSUME NEW c \in Calls, At(c, "delete", "delete"), calls[c].vol = v PROVE Discarded(v)
  <2>1. calls[c].name \in Names
    BY <1>1 DEF IInv, TypeInv, CallOK, At
  <2> QED
    BY <1>1, <2>1 DEF IInv, DeletesInv, Discarded, At
<1> QED
  BY <1>1 DEF DeleteAsked, IInv, GhostsInv

LEMMA DoomNext ==
  ASSUME IInv, VolumesKept, ClaimsKept
  PROVE  DoomInv'
<1> SUFFICES ASSUME NEW v \in VolIds, vols'[v].status \in Doom PROVE Discarded(v)'
  BY DEF DoomInv, Doom
<1>1. Discarded(v)
  BY AskedIsDiscarded DEF VolumesKept, IInv, DoomInv
<1> QED
  BY <1>1, DiscardedKept

(* What is left behind was in flight, and what is in flight is asked for.    *)
LEMMA GhostsNext ==
  ASSUME IInv, ClaimsKept, [Next]_vars
  PROVE  GhostsInv'
<1> SUFFICES ASSUME NEW v \in VolIds, Delete(v) \in ghosts' PROVE Discarded(v)'
  BY DEF GhostsInv, Delete
<1>0. ASSUME NEW c \in Calls, Delete(v) \in InFlight(c) PROVE DeleteAsked(v)
  <2>1. calls[c] \in Call /\ CallOK(calls[c])
    BY DEF IInv, TypeInv, TypeOK, CtrlTypeOK
  <2>2. calls[c].pc = "delete" /\ Delete(v) = Delete(calls[c].vol)
    BY <1>0 DEF InFlight, Delete, Post, Attach, Unprotect, Detach
  <2>3. At(c, "delete", "delete") /\ calls[c].vol = v
    BY <2>1, <2>2 DEF CallOK, Call, Ops, At, Delete
  <2> QED
    BY <2>3 DEF DeleteAsked
<1>1. ASSUME NEW c \in Calls, CallFails(c) PROVE DeleteAsked(v)
  <2>1. Delete(v) \in ghosts \/ Delete(v) \in InFlight(c)
    BY <1>1 DEF CallFails, LeavesBehind
  <2> QED
    BY <1>0, <2>1 DEF DeleteAsked
<1>2. CASE Stops
  <2>1. Delete(v) \in ghosts \/ \E c \in Calls : Delete(v) \in InFlight(c)
    BY <1>2 DEF Stops, LeavesBehind
  <2> QED
    BY <1>0, <2>1, AskedIsDiscarded, DiscardedKept DEF DeleteAsked
<1>3. CASE ghosts' \subseteq ghosts
  BY <1>3, AskedIsDiscarded, DiscardedKept DEF DeleteAsked
<1>4. \/ \E c \in Calls : CallFails(c)
      \/ Stops
      \/ ghosts' \subseteq ghosts
  <2>1. CASE \E c \in Calls : IssueSome(c) \/ Receive(c)
    BY <2>1 DEF IssueSome, IssueCreate, IssueDelete, IssuePublish, IssueUnpublish,
       Issue, Receive, ReceiveCreate, ReceiveDelete, ReceivePublish, ReceiveUnpublish
  <2>2. CASE \E c \in Calls : Serves(c)
    BY <2>2 DEF Serves, CallStep, CreateList, CreatePost, CreatePoll, DeleteGet, DeleteSend,
       PublishLookup, PublishGet, PublishAttach, UnpublishGet, UnpublishAttachment,
       UnpublishUnprotect, UnpublishDetach, Panic
  <2>3. CASE FaultStep
    BY <2>3 DEF FaultStep, Fault, Crash, CloudFault, CreateBroken, AttachBroken, Becomes, Releases
  <2>4. CASE \E w \in VolIds : Progress(w)
    BY <2>4 DEF Progress, CloudProgress, CreateDone, AttachDone, DeleteDone, DeviceReady,
       DetachDone, Becomes, Releases
  <2>5. CASE (\E r \in ghosts : Late(r)) \/ UserStep \/ UNCHANGED vars
    BY <2>5 DEF Late, GhostLands, UserStep, Release, Want, Unwant, vars
  <2> QED
    BY <2>1, <2>2, <2>3, <2>4, <2>5, NextCases
<1> QED
  BY <1>1, <1>2, <1>3, <1>4, AskedIsDiscarded, DiscardedKept

LEMMA DeletesNext ==
  ASSUME IInv, ClaimsKept, [Next]_vars
  PROVE  DeletesInv'
<1> SUFFICES ASSUME NEW d \in Calls, calls'[d].op = "delete"
             PROVE  /\ claim'[calls'[d].name].phase \in Over
                    /\ claim'[calls'[d].name].vol = calls'[d].vol
  BY DEF DeletesInv, Over
<1>0. calls \in [Calls -> Call] /\ \A c \in Calls : CallOK(calls[c])
  BY DEF IInv, TypeInv, TypeOK, CtrlTypeOK
<1> DEFINE SameArgs == /\ calls[d].op = "delete"
                       /\ calls'[d].name = calls[d].name /\ calls'[d].vol = calls[d].vol
<1>1. ASSUME SameArgs
      PROVE  /\ claim'[calls'[d].name].phase \in Over
             /\ claim'[calls'[d].name].vol = calls'[d].vol
  <2>1. calls[d].name \in Names
    BY <1>0, <1>1 DEF CallOK
  <2> QED
    BY <1>1, <2>1 DEF IInv, DeletesInv, ClaimsKept, ClaimKept, Over
<1>2. CASE calls'[d] = calls[d]
  BY <1>1, <1>2
<1>3. CASE DeleteGet(d) \/ DeleteSend(d)
  <2>1. ASSUME NEW code, Reply(d, code) PROVE SameArgs
    BY <1>0, <1>3, <2>1 DEF Reply, Now, Call, DeleteGet, DeleteSend, At
  <2>2. ASSUME NEW pc, Goto(d, pc) PROVE SameArgs
    BY <1>0, <1>3, <2>2 DEF Goto, Now, Call, DeleteGet, DeleteSend, At
  <2>3. SameArgs
    <3> HIDE DEF SameArgs
    <3> QED
      BY <1>3, <2>1, <2>2 DEF DeleteGet, DeleteSend, DeleteOf
  <2> QED
    BY <1>1, <2>3
<1>4. CASE CreateList(d) \/ CreatePost(d) \/ CreatePoll(d)
  <2>1. calls[d] \in Call /\ calls[d].op = "create"
    BY <1>0, <1>4 DEF CreateList, CreatePost, CreatePoll, At
  <2>2. ASSUME NEW code, Reply(d, code) PROVE FALSE
    BY <1>0, <2>1, <2>2 DEF Reply, Now, Call
  <2>3. ASSUME NEW pc, Goto(d, pc) PROVE FALSE
    BY <1>0, <2>1, <2>3 DEF Goto, Now, Call
  <2>4. ASSUME NEW v, ReplyCreated(d, v) PROVE FALSE
    BY <1>0, <2>1, <2>4 DEF ReplyCreated, Now, Call
  <2>5. ASSUME NEW v, Now(d, [calls[d] EXCEPT !.pc = "poll", !.vol = v]) PROVE FALSE
    BY <1>0, <2>1, <2>5 DEF Now, Call
  <2>6. ASSUME Now(d, [calls[d] EXCEPT !.polls = @ + 1]) PROVE FALSE
    BY <1>0, <2>1, <2>6 DEF Now, Call
  <2> QED
    BY <1>4, <2>2, <2>3, <2>4, <2>5, <2>6 DEF CreateList, CreatePost, CreatePoll, CreateFound,
       CreateAmbiguous, CreateNotFound
<1>5. ASSUME NEW n \in Names, IssueCreate(d, n) PROVE FALSE
  <2>1. CreateCall(n, claim[n].bytes).op = "create"
    BY DEF CreateCall, Idle
  <2> QED
    BY <1>0, <1>5, <2>1 DEF IssueCreate, Issue, Enter, Now
<1>6. ASSUME NEW n \in Names, IssueDelete(d, n)
      PROVE  /\ claim'[calls'[d].name].phase \in Over
             /\ claim'[calls'[d].name].vol = calls'[d].vol
  <2> DEFINE k == DeleteCall(n, claim[n].vol)
  <2>1. k.name = n /\ k.vol = claim[n].vol
    BY DEF DeleteCall, Idle
  <2>2. calls'[d] = k /\ claim' = claim /\ claim[n].phase = "released"
    BY <1>0, <1>6 DEF IssueDelete, Issue, Enter, Now
  <2> QED
    BY <2>1, <2>2 DEF Over
<1> QED
  BY <1>2, <1>3, <1>4, <1>5, <1>6, Moves DEF IInv

(* The same, of the state a step leads to.                                   *)
OwnsNext(n, v, size) ==
  vols'[v].status # "absent" /\ vols'[v].name = n /\ vols'[v].size = size
SizeNext(n) == RoundUpSize(claim'[n].bytes, GiB)

LEMMA OwnsKept ==
  ASSUME VolumesKept, NEW v \in VolIds, NEW n, Owns(n, v)
  PROVE  OwnsNext(n, v, vols[v].size)
  BY DEF VolumesKept, Kept, Owns, OwnsNext

(* A call's answer: what its poll or its list of volumes found is its own.   *)
OwnAnswer(k) ==
  k.pc = "poll" \/ k.code = "OK" => k.vol \in VolIds /\ OwnsNext(k.name, k.vol, k.size)

LEMMA CreatesNext ==
  ASSUME NamesApart, IInv, VolumesKept, ClaimsKept, [Next]_vars
  PROVE  CreatesInv'
<1> SUFFICES ASSUME NEW d \in Calls, calls'[d].op = "create"
             PROVE  calls'[d].size = SizeNext(calls'[d].name) /\ OwnAnswer(calls'[d])
  BY DEF CreatesInv, OwnAnswer, SizeOf, SizeNext, Owns, OwnsNext
<1>0. /\ calls \in [Calls -> Call] /\ \A c \in Calls : CallOK(calls[c])
      /\ vols \in [VolIds -> Volume]
  BY DEF IInv, TypeInv, TypeOK, CtrlTypeOK, CloudTypeOK
<1>s. ASSUME calls[d].op = "create", calls'[d].name = calls[d].name,
             calls'[d].size = calls[d].size
      PROVE  calls'[d].size = SizeNext(calls'[d].name)
  <2>1. calls[d].name \in Names
    BY <1>0, <1>s DEF CallOK
  <2> QED
    BY <1>s, <2>1 DEF IInv, CreatesInv, ClaimsKept, ClaimKept, SizeOf, SizeNext
<1>1. CASE calls'[d] = calls[d]
  <2>1. calls'[d].size = SizeNext(calls'[d].name)
    BY <1>1, <1>s
  <2>2. OwnAnswer(calls'[d])
    <3> SUFFICES ASSUME calls[d].pc = "poll" \/ calls[d].code = "OK"
                 PROVE  /\ calls[d].vol \in VolIds
                        /\ OwnsNext(calls[d].name, calls[d].vol, calls[d].size)
      BY <1>1 DEF OwnAnswer
    <3>1. calls[d].vol \in VolIds
      BY <1>0, <1>1 DEF CallOK
    <3> QED
      BY <1>1, <3>1, OwnsKept DEF IInv, CreatesInv
  <2> QED
    BY <2>1, <2>2
<1> DEFINE call == calls[d]
           Result == /\ calls'[d].name = call.name /\ calls'[d].size = call.size
                     /\ OwnAnswer(calls'[d])
<1>2. ASSUME call.op = "create", Result
      PROVE  calls'[d].size = SizeNext(calls'[d].name) /\ OwnAnswer(calls'[d])
  BY <1>2, <1>s
<1>3. CASE CreateList(d) \/ CreatePoll(d) \/ CreatePost(d)
  <2>0. call \in Call /\ call.op = "create" /\ call.name \in Names
    BY <1>0, <1>3 DEF CreateList, CreatePost, CreatePoll, At, CallOK
  <2>1. ASSUME NEW code, code # "OK", Reply(d, code) PROVE Result
    BY <1>0, <2>0, <2>1 DEF Reply, Now, Call, OwnAnswer
  <2>2. ASSUME CreateNotFound(d), CreateList(d) PROVE Result
    <3>1. calls'[d] = [call EXCEPT !.pc = "post"]
      BY <1>0, <2>2 DEF CreateNotFound, Goto, Now
    <3>2. call.code # "OK" \/ (call.vol \in VolIds /\ Owns(call.name, call.vol)
                                 /\ vols[call.vol].size = call.size)
      BY <1>0, <2>0 DEF IInv, CreatesInv, CallOK
    <3>3. vols' = vols
      BY <2>2 DEF CreateList
    <3> QED
      BY <2>0, <3>1, <3>2, <3>3 DEF Call, Owns, OwnsNext, OwnAnswer
  <2>3. ASSUME NEW v \in VolIds, ReplyCreated(d, v), OwnsNext(call.name, v, call.size)
        PROVE  Result
    <3> DEFINE k == [call EXCEPT !.pc = "replied", !.code = "OK", !.vol = v]
    <3>1. k.name = call.name /\ k.size = call.size /\ k.vol = v
      BY <2>0 DEF Call
    <3>2. calls'[d] = k
      BY <1>0, <2>3 DEF ReplyCreated, Now
    <3> HIDE DEF k
    <3> QED
      BY <2>3, <3>1, <3>2 DEF OwnAnswer
  <2>4. ASSUME NEW v \in VolIds, CreateFound(d, v), CreateList(d) PROVE Result
    <3>1. v \in Matching(call.name)
      BY <2>4 DEF CreateFound
    <3>2. Owns(call.name, v)
      BY <2>0, <3>1 DEF Matching, Exists, NameMatches, NamesApart, Owns, Live
    <3>3. vols[v].size = call.size => OwnsNext(call.name, v, call.size)
      BY <2>4, <3>2 DEF CreateList, Owns, OwnsNext
    <3> HIDE DEF Result
    <3> QED
      BY <2>1, <2>3, <2>4, <3>3 DEF CreateFound
  <2>5. ASSUME CreateList(d) PROVE Result
    <3> HIDE DEF Result
    <3>1. CASE CreateAmbiguous(d)
      <4>1. Reply(d, "Internal")
        BY <3>1 DEF CreateAmbiguous
      <4> QED
        BY <2>1, <4>1
    <3>2. CASE \E v \in VolIds : CreateFound(d, v)
      BY <2>4, <2>5, <3>2
    <3>3. CASE CreateNotFound(d)
      BY <2>2, <2>5, <3>3
    <3> QED
      BY <2>5, <3>1, <3>2, <3>3 DEF CreateList
  <2>6. ASSUME CreatePoll(d) PROVE Result
    <3>1. /\ call.pc = "poll" /\ call.vol \in VolIds /\ Owns(call.name, call.vol)
          /\ vols[call.vol].size = call.size
      BY <1>0, <2>6 DEF CreatePoll, At, IInv, CreatesInv, CallOK
    <3>2. vols' = vols
      BY <2>6 DEF CreatePoll
    <3>4. OwnsNext(call.name, call.vol, call.size)
      BY <3>1, <3>2 DEF Owns, OwnsNext
    <3>3. ASSUME Now(d, [call EXCEPT !.polls = @ + 1]) PROVE Result
      <4> DEFINE k == [call EXCEPT !.polls = @ + 1]
      <4>1. k.name = call.name /\ k.size = call.size /\ k.vol = call.vol
        BY <2>0 DEF Call
      <4>2. calls'[d] = k
        BY <1>0, <3>3 DEF Now
      <4> HIDE DEF k
      <4> QED
        BY <3>1, <3>4, <4>1, <4>2 DEF OwnAnswer
    <3> HIDE DEF Result
    <3> QED
      <4>1. ASSUME Reply(d, "Internal") PROVE Result
        BY <2>1, <4>1
      <4>2. ASSUME ReplyCreated(d, call.vol) PROVE Result
        BY <2>3, <3>1, <3>4, <4>2
      <4> QED
        BY <2>6, <3>3, <4>1, <4>2 DEF CreatePoll
  <2>7. ASSUME CreatePost(d) PROVE Result
    <3>1. PICK v \in VolIds : /\ Creates(v, call.name, call.size)
                              /\ Now(d, [call EXCEPT !.pc = "poll", !.vol = v])
      BY <2>7 DEF CreatePost
    <3>2. NewVolume(call.name, call.size).name = call.name
          /\ NewVolume(call.name, call.size).size = call.size
          /\ NewVolume(call.name, call.size).status = "creating"
      BY DEF NewVolume, Absent
    <3>3. OwnsNext(call.name, v, call.size)
      BY <1>0, <3>1, <3>2 DEF Creates, SetVolume, OwnsNext
    <3> DEFINE k == [call EXCEPT !.pc = "poll", !.vol = v]
    <3>4. k.name = call.name /\ k.size = call.size /\ k.vol = v
      BY <2>0 DEF Call
    <3>5. calls'[d] = k
      BY <1>0, <3>1 DEF Now
    <3> HIDE DEF k
    <3> QED
      BY <3>1, <3>3, <3>4, <3>5 DEF OwnAnswer
  <2> QED
    BY <1>2, <1>3, <2>0, <2>5, <2>6, <2>7
<1>4. ASSUME NEW n \in Names, IssueCreate(d, n)
      PROVE  calls'[d].size = SizeNext(calls'[d].name) /\ OwnAnswer(calls'[d])
  <2> DEFINE k == CreateCall(n, claim[n].bytes)
  <2>1. k.name = n /\ k.size = SizeOf(n) /\ k.pc = "list" /\ k.code = "none"
    BY DEF CreateCall, Idle, SizeOf
  <2>2. calls'[d] = k /\ claim' = claim
    BY <1>0, <1>4 DEF IssueCreate, Issue, Enter, Now
  <2> HIDE DEF k
  <2> QED
    BY <2>1, <2>2 DEF OwnAnswer, SizeOf, SizeNext
<1>5. ASSUME NEW n \in Names, IssueDelete(d, n) PROVE FALSE
  <2>1. DeleteCall(n, claim[n].vol).op = "delete"
    BY DEF DeleteCall, Idle
  <2> QED
    BY <1>0, <1>5, <2>1 DEF IssueDelete, Issue, Enter, Now
<1>6. CASE DeleteGet(d) \/ DeleteSend(d)
  <2>1. calls[d] \in Call /\ calls[d].op = "delete"
    BY <1>0, <1>6 DEF DeleteGet, DeleteSend, At
  <2>2. ASSUME NEW code, Reply(d, code) PROVE FALSE
    BY <1>0, <2>1, <2>2 DEF Reply, Now, Call
  <2>3. ASSUME NEW pc, Goto(d, pc) PROVE FALSE
    BY <1>0, <2>1, <2>3 DEF Goto, Now, Call
  <2> QED
    BY <1>6, <2>2, <2>3 DEF DeleteGet, DeleteSend, DeleteOf
<1> QED
  BY <1>1, <1>3, <1>4, <1>5, <1>6, Moves DEF IInv

(* A claim that was pending is bound to what its call owns.                  *)
LEMMA ClaimsNext ==
  ASSUME IInv, VolumesKept, ClaimsKept, [Next]_vars
  PROVE  ClaimsInv'
<1> SUFFICES ASSUME NEW n \in Names
             PROVE  IF claim'[n].phase = "pending"
                    THEN claim'[n].vol = NoVol
                    ELSE OwnsNext(n, claim'[n].vol, SizeNext(n))
  BY DEF ClaimsInv, Owns, SizeOf, OwnsNext, SizeNext
<1>0. /\ claim \in [Names -> Claim] /\ ClaimOK(claim[n])
      /\ \A c \in Calls : CallOK(calls[c])
  BY DEF IInv, TypeInv, TypeOK
<1>1. CASE claim[n].phase # "pending"
  <2>1. claim[n].vol \in VolIds
    BY <1>0, <1>1 DEF ClaimOK
  <2> QED
    BY <1>1, <2>1, OwnsKept DEF IInv, ClaimsInv, ClaimsKept, ClaimKept, SizeOf, SizeNext
<1>2. CASE claim'[n] = claim[n] /\ claim[n].phase = "pending"
  BY <1>2 DEF IInv, ClaimsInv
<1>3. ASSUME NEW c \in Calls, ReceiveCreate(c), claim[n].phase = "pending", claim'[n] # claim[n]
      PROVE  /\ claim'[n].phase # "pending"
             /\ OwnsNext(n, claim'[n].vol, SizeNext(n))
  <2> DEFINE cl == [claim[n] EXCEPT !.phase = "bound", !.vol = calls[c].vol]
  <2>1. calls[c].name = n /\ claim'[n] = cl /\ Succeeds(c) /\ calls[c].op = "create"
    BY <1>0, <1>3 DEF ReceiveCreate, SetClaim, Answered, At
  <2>2. /\ calls[c].vol \in VolIds /\ Owns(n, calls[c].vol)
        /\ vols[calls[c].vol].size = SizeOf(n)
    BY <1>0, <2>1 DEF Succeeds, CallOK, IInv, CreatesInv
  <2>3. cl.phase = "bound" /\ cl.vol = calls[c].vol /\ cl.bytes = claim[n].bytes
    BY <1>0 DEF Claim
  <2> HIDE DEF cl
  <2> QED
    BY <2>1, <2>2, <2>3, OwnsKept DEF SizeOf, SizeNext
<1>4. ASSUME claim[n].phase = "pending", claim'[n] # claim[n]
      PROVE  \E c \in Calls : ReceiveCreate(c)
  <2>1. CASE \E c \in Calls : IssueSome(c) \/ Serves(c)
    BY <1>4, <2>1 DEF IssueSome, IssueCreate, IssueDelete, IssuePublish, IssueUnpublish,
       Issue, Serves
  <2>2. ASSUME NEW c \in Calls, Receive(c) PROVE ReceiveCreate(c)
    BY <1>0, <1>4, <2>2 DEF Receive, ReceiveDelete, SetClaim, ReceivePublish, ReceiveUnpublish
  <2>3. CASE FaultStep \/ (\E v \in VolIds : Progress(v)) \/ (\E r \in ghosts : Late(r))
    BY <1>4, <2>3 DEF FaultStep, Fault, Progress, Late
  <2>4. CASE UserStep \/ UNCHANGED vars
    BY <1>0, <1>4, <2>4 DEF UserStep, Release, SetClaim, Want, Unwant, vars
  <2> QED
    BY <2>1, <2>2, <2>3, <2>4, NextCases
<1> QED
  BY <1>1, <1>2, <1>3, <1>4

LEMMA InvNext == NamesApart /\ IInv /\ [Next]_vars => IInv'
<1> SUFFICES ASSUME NamesApart, IInv, [Next]_vars PROVE IInv'
  OBVIOUS
<1>1. TypeInv /\ TypeInv'
  BY TypeNext DEF IInv
<1>2. VolumesKept /\ ClaimsKept
  BY <1>1, NextKept, NextClaims
<1> QED
  BY <1>1, <1>2, ClaimsNext, CreatesNext, DeletesNext, GhostsNext, DoomNext DEF IInv

LEMMA Invariance == NamesApart => (Spec => []IInv)
<1> SUFFICES ASSUME NamesApart PROVE Spec => []IInv
  OBVIOUS
<1>1. IInv /\ [Next]_vars => IInv'
  BY InvNext
<1> QED
  BY <1>1, InvInit, PTL DEF Spec

-----------------------------------------------------------------------------
(* The theorems.                                                             *)

(* When no volume name occurs in another one, two claims are never given the *)
(* same volume, with any number of calls, failures and late requests.        *)
THEOREM ClaimsApart == NamesApart => (Spec => []ClaimsDisjoint)
<1> SUFFICES ASSUME NamesApart PROVE Spec => []ClaimsDisjoint
  OBVIOUS
<1>1. IInv => ClaimsDisjoint
  BY DEF IInv, ClaimsInv, ClaimsDisjoint, Owns
<1> QED
  BY <1>1, Invariance, PTL

(* Under the same condition no delete, in time or late, reaches the volume   *)
(* of a claim that is bound.                                                 *)
THEOREM BoundVolumesKept == NamesApart => (Spec => []BoundVolumeKept)
<1> SUFFICES ASSUME NamesApart PROVE Spec => []BoundVolumeKept
  OBVIOUS
<1>1. IInv => BoundVolumeKept
  <2> SUFFICES ASSUME IInv, NEW n \in Names, claim[n].phase = "bound",
                      vols[claim[n].vol].status \in Doom
               PROVE  FALSE
    BY DEF BoundVolumeKept, Doom
  <2>1. claim[n].vol \in VolIds /\ vols[claim[n].vol].name = n
    BY DEF IInv, TypeInv, ClaimOK, ClaimsInv, Owns
  <2>2. PICK k \in Names : claim[k].phase \in Over /\ claim[k].vol = claim[n].vol
    BY <2>1 DEF IInv, DoomInv, Discarded
  <2>3. vols[claim[k].vol].name = k
    BY <2>2 DEF IInv, ClaimsInv, Owns, Over
  <2> QED
    BY <2>1, <2>2, <2>3 DEF Over
<1> QED
  BY <1>1, Invariance, PTL

(* Under the same condition the volume of a claim holds the capacity the     *)
(* claim required, in the fewest units that do.                              *)
THEOREM ClaimsSized == NamesApart => (Spec => []ClaimSize)
<1> SUFFICES ASSUME NamesApart PROVE Spec => []ClaimSize
  OBVIOUS
<1>1. IInv => ClaimSize
  <2> SUFFICES ASSUME IInv, NEW n \in Names, claim[n].phase # "pending"
               PROVE  LET size == vols[claim[n].vol].size IN
                      GiB * size >= claim[n].bytes /\ GiB * (size - 1) < claim[n].bytes
    BY DEF ClaimSize
  <2>1. vols[claim[n].vol].size = RoundUpSize(claim[n].bytes, GiB)
    BY DEF IInv, ClaimsInv, SizeOf
  <2>2. claim[n].bytes \in Nat /\ GiB \in Nat \ {0}
    BY LifecycleAssumption, CloudAssumption DEF IInv, TypeInv, TypeOK, Claim
  <2> QED
    BY <2>1, <2>2, RoundUpSizeLeast
<1> QED
  BY <1>1, Invariance, PTL
=============================================================================
