---------------------- MODULE VolumeLifecycle_refines ----------------------
(* VolumeLifecycle implements VolumeClaims: the proof, for every value of    *)
(* the constants. It rests on the inductive invariant of                     *)
(* VolumeLifecycle_proofs.                                                   *)
EXTENDS VolumeLifecycle_proofs

USE DEF cloudVars, coVars, ctrlVars

-----------------------------------------------------------------------------
(* What a step does to the volumes: it sets one of them, and one that is     *)
(* doomed stays so.                                                          *)

Sets(w, x) == SetVolume(w, x) /\ (vols[w].status \in Doom => x.status \in Doom)
OneVolume == UNCHANGED vols \/ \E w \in VolIds : \E x : Sets(w, x)

LEMMA RequestSets ==
  ASSUME TypeInv, NEW w \in VolIds,
         \/ \E n, s : Creates(w, n, s)
         \/ Deletes(w)
         \/ \E m : Attaches(w, m) \/ Unprotects(w, m) \/ Detaches(w, m)
  PROVE  OneVolume
<1> USE DEF OneVolume, Sets, Doom
<1>0. vols[w] \in Volume
  BY DEF TypeInv, TypeOK, CtrlTypeOK, CloudTypeOK
<1>1. ASSUME NEW n, NEW s, Creates(w, n, s) PROVE OneVolume
  BY <1>1 DEF Creates
<1>2. CASE Deletes(w)
  BY <1>2 DEF Deletes, Deletable
<1>3. ASSUME NEW m, Attaches(w, m) \/ Unprotects(w, m) \/ Detaches(w, m) PROVE OneVolume
  <2>1. CASE Attaches(w, m)
    BY <2>1 DEF Attaches, Attachable
  <2>2. CASE Unprotects(w, m)
    BY <2>2 DEF Unprotects, Unprotectable
  <2>3. CASE Detaches(w, m)
    BY <2>3 DEF Detaches, Detachable
  <2> QED
    BY <1>3, <2>1, <2>2, <2>3
<1> QED
  BY <1>1, <1>2, <1>3

LEMMA CloudSets ==
  ASSUME TypeInv, NEW w \in VolIds, CloudProgress(w) \/ CloudFault(w)
  PROVE  OneVolume
<1> USE DEF OneVolume, Sets, Doom
<1>0. vols[w] \in Volume
  BY DEF TypeInv, TypeOK, CtrlTypeOK, CloudTypeOK
<1>1. ASSUME NEW from, NEW to, Becomes(w, from, to), from \in Doom => to \in Doom
      PROVE  OneVolume
  <2> DEFINE x == [vols[w] EXCEPT !.status = to]
  <2>1. x.status = to
    BY <1>0 DEF Volume
  <2>2. Sets(w, x)
    BY <1>1, <2>1 DEF Becomes
  <2> QED
    BY <2>2
<1>2. CASE CreateDone(w) \/ CreateBroken(w) \/ AttachDone(w) \/ DeleteDone(w)
  <2> HIDE DEF OneVolume
  <2> QED
    BY <1>1, <1>2 DEF CreateDone, CreateBroken, AttachDone, DeleteDone
<1>3. CASE DeviceReady(w)
  BY <1>3 DEF DeviceReady
<1>4. CASE AttachBroken(w) \/ DetachDone(w)
  BY <1>4 DEF AttachBroken, DetachDone, Releases
<1> QED
  BY <1>2, <1>3, <1>4 DEF CloudProgress, CloudFault

LEMMA CallSets ==
  ASSUME TypeInv, NEW c \in Calls, CallStep(c)
  PROVE  OneVolume
<1>0. CallOK(calls[c])
  BY DEF TypeInv
<1>1. CASE UNCHANGED vols
  BY <1>1 DEF OneVolume
<1>2. CASE CreatePost(c)
  BY <1>2, RequestSets DEF CreatePost
<1>3. CASE DeleteSend(c) /\ Deletes(calls[c].vol)
  BY <1>0, <1>3, RequestSets DEF DeleteSend, At, CallOK
<1>4. CASE PublishAttach(c) /\ Attaches(calls[c].vol, calls[c].vm)
  BY <1>0, <1>4, RequestSets DEF PublishAttach, At, CallOK
<1>5. CASE UnpublishUnprotect(c) /\ Unprotects(calls[c].vol, calls[c].att)
  BY <1>0, <1>5, RequestSets DEF UnpublishUnprotect, At, CallOK
<1>6. CASE UnpublishDetach(c) /\ Detaches(calls[c].vol, calls[c].vm)
  BY <1>0, <1>6, RequestSets DEF UnpublishDetach, At, CallOK
<1> QED
  BY <1>1, <1>2, <1>3, <1>4, <1>5, <1>6 DEF CallStep, CreateList, CreatePoll, DeleteGet,
     DeleteSend, PublishLookup, PublishGet, PublishAttach, UnpublishGet, UnpublishAttachment,
     UnpublishUnprotect, UnpublishDetach, Panic, Stops

LEMMA LateSets ==
  ASSUME TypeInv, NEW r \in ghosts, GhostLands(r)
  PROVE  OneVolume
<1>0. r \in Request
  BY DEF TypeInv, TypeOK, CtrlTypeOK, CloudTypeOK
<1>1. CASE r.kind = "post" /\ \E v \in VolIds : Creates(v, r.name, r.size)
  BY <1>1, RequestSets
<1>2. CASE r.kind = "delete" /\ Deletes(r.vol)
  BY <1>0, <1>2, RequestSets DEF Request
<1>3. CASE \/ r.kind = "attach" /\ Attaches(r.vol, r.vm)
           \/ r.kind = "unprotect" /\ Unprotects(r.vol, r.vm)
           \/ r.kind = "detach" /\ Detaches(r.vol, r.vm)
  <2>1. r.vol \in VolIds
    BY <1>0, <1>3 DEF Request
  <2> QED
    BY <1>3, <2>1, RequestSets
<1>4. CASE UNCHANGED vols
  BY <1>4 DEF OneVolume
<1> QED
  BY <1>1, <1>2, <1>3, <1>4 DEF GhostLands

LEMMA NextSets == ASSUME TypeInv, [Next]_vars PROVE OneVolume
<1>a. UNCHANGED vols => OneVolume
  BY DEF OneVolume
<1>1. CASE \E c \in Calls : IssueSome(c) \/ Receive(c)
  BY <1>1, <1>a DEF IssueSome, IssueCreate, IssueDelete, IssuePublish, IssueUnpublish,
     Issue, Receive, ReceiveCreate, ReceiveDelete, ReceivePublish, ReceiveUnpublish
<1>2. CASE \E c \in Calls : Serves(c)
  BY <1>2, CallSets DEF Serves
<1>3. CASE FaultStep
  BY <1>3, <1>a, CloudSets DEF FaultStep, Fault, CallFails, Crash, Stops
<1>4. CASE \E v \in VolIds : Progress(v)
  BY <1>4, CloudSets DEF Progress
<1>5. CASE \E r \in ghosts : Late(r)
  BY <1>5, LateSets DEF Late
<1>6. CASE UserStep
  BY <1>6, <1>a DEF UserStep, Release, Want, Unwant
<1>7. CASE UNCHANGED vars
  BY <1>7, <1>a DEF vars
<1> QED
  BY <1>1, <1>2, <1>3, <1>4, <1>5, <1>6, <1>7, NextCases

-----------------------------------------------------------------------------
(* A step that changes a claim changes no volume, and is one of three.       *)

ClaimStep ==
  \/ \E n \in Names : Release(n)
  \/ \E c \in Calls : ReceiveCreate(c) \/ ReceiveDelete(c)

LEMMA ClaimSteps ==
  ASSUME [Next]_vars, claim' # claim
  PROVE  ClaimStep /\ UNCHANGED vols
<1>1. CASE \E c \in Calls : IssueSome(c) \/ Serves(c)
  BY <1>1 DEF IssueSome, IssueCreate, IssueDelete, IssuePublish, IssueUnpublish, Issue, Serves
<1>2. CASE \E c \in Calls : Receive(c)
  BY <1>2 DEF Receive, ReceiveCreate, ReceiveDelete, ReceivePublish, ReceiveUnpublish, ClaimStep
<1>3. CASE FaultStep \/ (\E v \in VolIds : Progress(v)) \/ (\E r \in ghosts : Late(r))
  BY <1>3 DEF FaultStep, Fault, Progress, Late
<1>4. CASE UserStep \/ UNCHANGED vars
  BY <1>4 DEF UserStep, Release, Want, Unwant, vars, ClaimStep
<1> QED
  BY <1>1, <1>2, <1>3, <1>4, NextCases

-----------------------------------------------------------------------------
(* The refinement mapping.                                                   *)

PhaseOf == [n \in Names |-> claim[n].phase]
VolumeOf == [n \in Names |-> claim[n].vol]
Abstract == <<PhaseOf, VolumeOf, Destroyed>>

LEMMA InitRefines == Init => Claims!Init
<1> SUFFICES ASSUME Init PROVE Claims!Init
  OBVIOUS
<1>1. \A v \in VolIds : vols[v].status = "absent"
  BY DEF Init, CtrlInit, CloudInit, Absent
<1>2. Destroyed = {}
  BY <1>1 DEF Destroyed
<1>3. \A n \in Names : claim[n].phase = "pending" /\ claim[n].vol = NoVol
  BY DEF Init
<1> QED
  BY <1>2, <1>3 DEF Claims!Init

LEMMA DestroyedKept == UNCHANGED vols => UNCHANGED Destroyed
  BY DEF Destroyed

(* Only a volume whose claim was released is destroyed.                      *)
LEMMA DestroyRefines ==
  ASSUME IInv, IInv', OneVolume, UNCHANGED claim
  PROVE  (\E n \in Names : Claims!Destroy(n)) \/ UNCHANGED Abstract
<1> USE DEF PhaseOf, VolumeOf, Abstract
<1>0. vols \in [VolIds -> Volume]
  BY DEF IInv, TypeInv, TypeOK, CtrlTypeOK, CloudTypeOK
<1>1. CASE UNCHANGED vols
  BY <1>1, DestroyedKept
<1>2. ASSUME NEW w \in VolIds, NEW x, Sets(w, x)
      PROVE  (\E n \in Names : Claims!Destroy(n)) \/ UNCHANGED Abstract
  <2>1. /\ vols'[w] = x
        /\ \A v \in VolIds : v # w => vols'[v] = vols[v]
        /\ vols[w].status \in Doom => x.status \in Doom
    BY <1>0, <1>2 DEF Sets, SetVolume
  <2>2. CASE x.status \in Doom /\ w \notin Destroyed
    <3>1. Destroyed' = Destroyed \cup {w}
      BY <2>1, <2>2 DEF Destroyed, Doom
    <3>2. PICK n \in Names : claim'[n].phase \in Over /\ claim'[n].vol = w
      BY <2>1, <2>2 DEF IInv, DoomInv, Discarded
    <3>3. Claims!Destroy(n)
      BY <3>1, <3>2 DEF Claims!Destroy, Over
    <3> QED
      BY <3>3
  <2>3. CASE x.status \notin Doom \/ w \in Destroyed
    <3>1. Destroyed' = Destroyed
      BY <2>1, <2>3 DEF Destroyed, Doom
    <3> QED
      BY <3>1
  <2> QED
    BY <2>2, <2>3
<1> QED
  BY <1>1, <1>2 DEF OneVolume

LEMMA ReleaseRefines ==
  ASSUME IInv, NEW n \in Names, Release(n)
  PROVE  Claims!Release(n)
<1>0. claim \in [Names -> Claim]
  BY DEF IInv, TypeInv, TypeOK
<1>1. claim' = [claim EXCEPT ![n].phase = "released"] /\ claim[n].phase = "bound"
  BY <1>0 DEF Release, SetClaim
<1>2. PhaseOf' = [PhaseOf EXCEPT ![n] = "released"] /\ VolumeOf' = VolumeOf
  BY <1>0, <1>1 DEF PhaseOf, VolumeOf, Claim
<1>3. Destroyed' = Destroyed
  BY DestroyedKept DEF Release
<1> QED
  BY <1>1, <1>2, <1>3 DEF Claims!Release, PhaseOf, VolumeOf

(* A claim is bound to a volume that no claim has and nobody is deleting:    *)
(* whoever had it, or discarded it, would have its name.                     *)
LEMMA BindRefines ==
  ASSUME IInv, NEW c \in Calls, ReceiveCreate(c), claim' # claim
  PROVE  \E n \in Names, v \in VolIds : Claims!Bind(n, v)
<1> DEFINE n == calls[c].name
           v == calls[c].vol
           cl == [claim[n] EXCEPT !.phase = "bound", !.vol = v]
<1>0. claim \in [Names -> Claim] /\ CallOK(calls[c]) /\ \A k \in Names : ClaimOK(claim[k])
  BY DEF IInv, TypeInv, TypeOK
<1>1. /\ calls[c].op = "create" /\ calls[c].code = "OK"
      /\ claim[n].phase = "pending" /\ claim' = [claim EXCEPT ![n] = cl]
      /\ UNCHANGED vols
  BY DEF ReceiveCreate, SetClaim, Answered, At, Succeeds
<1>2. n \in Names /\ v \in VolIds /\ Owns(n, v)
  BY <1>0, <1>1 DEF CallOK, IInv, CreatesInv
<1>3. cl.phase = "bound" /\ cl.vol = v
  BY <1>0, <1>2 DEF Claim
<1> HIDE DEF n, v, cl
<1>4. ASSUME NEW k \in Names, claim[k].vol = v PROVE FALSE
  <2>1. CASE claim[k].phase = "pending"
    BY <1>2, <1>4, <2>1, ControllerAssumption DEF IInv, ClaimsInv
  <2>2. CASE claim[k].phase # "pending"
    <3>1. Owns(k, v)
      BY <1>4, <2>2 DEF IInv, ClaimsInv
    <3> QED
      BY <1>1, <1>2, <2>2, <3>1 DEF Owns
  <2> QED
    BY <2>1, <2>2
<1>5. v \notin Destroyed
  <2>1. ~Discarded(v)
    BY <1>4 DEF Discarded
  <2> QED
    BY <1>2, <2>1 DEF IInv, DoomInv, Destroyed, Doom
<1>6. PhaseOf' = [PhaseOf EXCEPT ![n] = "bound"] /\ VolumeOf' = [VolumeOf EXCEPT ![n] = v]
  BY <1>0, <1>1, <1>2, <1>3 DEF PhaseOf, VolumeOf
<1>7. Destroyed' = Destroyed
  BY <1>1, DestroyedKept
<1>8. v \notin Claims!Taken
  BY <1>4 DEF Claims!Taken
<1>9. Claims!Bind(n, v)
  BY <1>1, <1>2, <1>5, <1>6, <1>7, <1>8 DEF Claims!Bind, PhaseOf, VolumeOf
<1> QED
  BY <1>2, <1>9 DEF Claims!Bind

LEMMA ForgetRefines ==
  ASSUME IInv, NEW c \in Calls, ReceiveDelete(c), claim' # claim
  PROVE  \E n \in Names : Claims!Forget(n)
<1> DEFINE n == calls[c].name
<1>0. claim \in [Names -> Claim] /\ CallOK(calls[c])
  BY DEF IInv, TypeInv, TypeOK
<1>1. /\ n \in Names /\ claim[n].phase = "released"
      /\ claim' = [claim EXCEPT ![n].phase = "gone"] /\ UNCHANGED vols
  BY <1>0 DEF ReceiveDelete, SetClaim, Answered, At, CallOK
<1> HIDE DEF n
<1>2. PhaseOf' = [PhaseOf EXCEPT ![n] = "gone"] /\ VolumeOf' = VolumeOf
  BY <1>0, <1>1 DEF PhaseOf, VolumeOf, Claim
<1>3. Destroyed' = Destroyed
  BY <1>1, DestroyedKept
<1> QED
  BY <1>1, <1>2, <1>3 DEF Claims!Forget, PhaseOf, VolumeOf

LEMMA StepRefines ==
  ASSUME IInv, IInv', [Next]_vars
  PROVE  Claims!Next \/ UNCHANGED Abstract
<1>1. CASE UNCHANGED claim
  <2>1. OneVolume
    BY NextSets DEF IInv
  <2> QED
    BY <1>1, <2>1, DestroyRefines DEF Claims!Next
<1>2. CASE claim' # claim
  BY <1>2, ClaimSteps, ReleaseRefines, BindRefines, ForgetRefines DEF ClaimStep, Claims!Next
<1> QED
  BY <1>1, <1>2

-----------------------------------------------------------------------------
(* When no volume name occurs in another one, the controller service, with   *)
(* its sidecars, its failures and its late requests, implements VolumeClaims:*)
(* every claim is bound to a fresh volume of its own, keeps it until it is   *)
(* released, and only then may the volume be destroyed.                      *)
THEOREM ImplementsClaims == NamesApart => (Spec => ClaimsSpec)
<1> SUFFICES ASSUME NamesApart PROVE Spec => ClaimsSpec
  OBVIOUS
<1>1. IInv /\ IInv' /\ [Next]_vars => [Claims!Next]_(Claims!claimVars)
  BY StepRefines DEF Claims!claimVars, Abstract, PhaseOf, VolumeOf
<1> QED
  BY <1>1, InitRefines, Invariance, PTL DEF Spec, ClaimsSpec, Claims!Spec
=============================================================================
