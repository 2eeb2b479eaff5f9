----------------------- MODULE VolumeLifecycle_attach -----------------------
(* No VM keeps a volume nobody wants there: what one sidecar (Serial) buys,  *)
(* with or without late requests. The invariant follows an attach from the   *)
(* ControllerPublishVolume that sends it, or leaves it behind, to the answer *)
(* of the ControllerUnpublishVolume that has to undo it.                     *)
EXTENDS VolumeLifecycle_proofs

USE DEF cloudVars, coVars, ctrlVars

OfAtt == {"publish", "unpublish"}
On(c, op, v, m) == calls[c].op = op /\ calls[c].vol = v /\ calls[c].vm = m
SameAtt(c, d) == calls[c].vol = calls[d].vol /\ calls[c].vm = calls[d].vm

(* The publish and unpublish calls that are open are for different           *)
(* VolumeAttachments.                                                        *)
AloneInv ==
  \A c, d \in Calls :
    calls[c].op \in OfAtt /\ calls[d].op \in OfAtt /\ SameAtt(c, d) => c = d

(* A VolumeAttachment a call is open for is there, and stays as it was asked.*)
AskedInv ==
  \A c \in Calls, v \in VolIds, m \in VMs :
    /\ On(c, "publish", v, m) => va[v][m] # "none"
    /\ On(c, "unpublish", v, m) => va[v][m] = "leaving"

(* A volume is on its way to a VM, or may still get on its way.              *)
OnVM(v, m) == OnItsWay(v) /\ vols[v].vm = m
Due(v, m) == OnVM(v, m) \/ Attach(v, m) \in ghosts

DueInv == \A v \in VolIds, m \in VMs : Due(v, m) => va[v][m] # "none" \/ m \in early[v]

(* What an unpublish has noted once it has read the volume, and when it has  *)
(* succeeded.                                                                *)
NotedInv ==
  \A c \in Calls, v \in VolIds, m \in VMs :
    On(c, "unpublish", v, m) /\ m \notin early[v] =>
      /\ calls[c].pc # "get" => Attach(v, m) \notin ghosts
      /\ calls[c].pc = "replied" /\ calls[c].code = "OK" => ~OnVM(v, m)

AttachInv == TypeInv /\ AloneInv /\ AskedInv /\ DueInv /\ NotedInv

-----------------------------------------------------------------------------
(* The steps of the calls.                                                   *)

Keeps(c, k) ==
  /\ Now(c, k) /\ k.op = calls[c].op
  /\ k.op \in OfAtt => k.vol = calls[c].vol /\ k.vm = calls[c].vm

LEMMA StepKeeps ==
  ASSUME TypeInv, NEW c \in Calls, CallStep(c)
  PROVE  Stops \/ \E k : Keeps(c, k)
<1> DEFINE Some == \E k : Keeps(c, k)
<1>0. calls[c] \in Call
  BY DEF TypeInv, TypeOK, CtrlTypeOK
<1>1. ASSUME NEW code, Reply(c, code) PROVE Some
  <2> DEFINE k == [calls[c] EXCEPT !.pc = "replied", !.code = code]
  <2>1. k.op = calls[c].op /\ k.vol = calls[c].vol /\ k.vm = calls[c].vm
    BY <1>0 DEF Call
  <2> QED
    BY <1>1, <2>1 DEF Reply, Keeps
<1>2. ASSUME NEW pc, Goto(c, pc) PROVE Some
  <2> DEFINE k == [calls[c] EXCEPT !.pc = pc]
  <2>1. k.op = calls[c].op /\ k.vol = calls[c].vol /\ k.vm = calls[c].vm
    BY <1>0 DEF Call
  <2> QED
    BY <1>2, <2>1 DEF Goto, Keeps
<1>3. ASSUME NEW d, ReplyDevice(c, d) PROVE Some
  <2> DEFINE k == [calls[c] EXCEPT !.pc = "replied", !.code = "OK", !.dev = d]
  <2>1. k.op = calls[c].op /\ k.vol = calls[c].vol /\ k.vm = calls[c].vm
    BY <1>0 DEF Call
  <2> QED
    BY <1>3, <2>1 DEF ReplyDevice, Keeps
<1>4. ASSUME NEW m, Now(c, [calls[c] EXCEPT !.pc = "unprotect", !.att = m]) PROVE Some
  <2> DEFINE k == [calls[c] EXCEPT !.pc = "unprotect", !.att = m]
  <2>1. k.op = calls[c].op /\ k.vol = calls[c].vol /\ k.vm = calls[c].vm
    BY <1>0 DEF Call
  <2> QED
    BY <1>4, <2>1 DEF Keeps
<1>5. ASSUME NEW k, Now(c, k), k.op = calls[c].op, calls[c].op = "create" PROVE Some
  BY <1>5 DEF Keeps, OfAtt
<1>6. ASSUME calls[c].op = "create", NEW v,
             \/ ReplyCreated(c, v)
             \/ Now(c, [calls[c] EXCEPT !.pc = "poll", !.vol = v])
             \/ Now(c, [calls[c] EXCEPT !.polls = @ + 1])
      PROVE  Some
  <2>1. /\ [calls[c] EXCEPT !.pc = "replied", !.code = "OK", !.vol = v].op = calls[c].op
        /\ [calls[c] EXCEPT !.pc = "poll", !.vol = v].op = calls[c].op
        /\ [calls[c] EXCEPT !.polls = @ + 1].op = calls[c].op
    BY <1>0 DEF Call
  <2> QED
    BY <1>5, <1>6, <2>1 DEF ReplyCreated
<1> HIDE DEF Some
<1>7. ASSUME CreateList(c) \/ CreatePost(c) \/ CreatePoll(c) PROVE Some
  BY <1>1, <1>2, <1>6, <1>7 DEF CreateList, CreatePost, CreatePoll, CreateFound,
     CreateAmbiguous, CreateNotFound, At
<1>8. ASSUME DeleteGet(c) \/ DeleteSend(c) PROVE Some
  BY <1>1, <1>2, <1>8 DEF DeleteGet, DeleteOf, DeleteSend
<1>9. ASSUME \/ PublishLookup(c) \/ PublishGet(c) \/ PublishAttach(c)
             \/ UnpublishGet(c) \/ UnpublishAttachment(c)
             \/ UnpublishUnprotect(c) \/ UnpublishDetach(c)
      PROVE  Some
  BY <1>1, <1>2, <1>3, <1>4, <1>9 DEF PublishLookup, PublishGet, PublishAttach, UnpublishGet,
     UnpublishAttachment, UnpublishUnprotect, UnpublishDetach
<1> QED
  BY <1>7, <1>8, <1>9 DEF CallStep, Panic, Some

(* A call of an attachment moves by entering, or by a step of its handler.   *)
EntersAtt(d) == \E v \in VolIds, m \in VMs : IssuePublish(d, v, m) \/ IssueUnpublish(d, v, m)
Works(d) == Serves(d) /\ Keeps(d, calls'[d])

LEMMA AttMoves ==
  ASSUME TypeInv, [Next]_vars, NEW d \in Calls, calls'[d].op \in OfAtt
  PROVE  calls'[d] = calls[d] \/ EntersAtt(d) \/ Works(d)
<1> SUFFICES ASSUME calls'[d] # calls[d] PROVE EntersAtt(d) \/ Works(d)
  OBVIOUS
<1>0. calls \in [Calls -> Call]
  BY DEF TypeInv, TypeOK, CtrlTypeOK
<1>i. Idle.op \notin OfAtt
  BY DEF Idle, OfAtt
<1>1. ASSUME NEW c \in Calls, NEW k, Now(c, k) PROVE c = d /\ calls'[d] = k
  BY <1>0, <1>1 DEF Now
<1>2. ASSUME NEW c \in Calls, IssueSome(c) PROVE EntersAtt(d)
  <2>1. ASSUME NEW n \in Names, IssueCreate(c, n) \/ IssueDelete(c, n) PROVE FALSE
    <3>1. /\ CreateCall(n, claim[n].bytes).op = "create"
          /\ DeleteCall(n, claim[n].vol).op = "delete"
      BY DEF CreateCall, DeleteCall, Idle
    <3> QED
      BY <1>1, <2>1, <3>1 DEF IssueCreate, IssueDelete, Issue, Enter, OfAtt
  <2>2. c = d
    BY <1>1, <1>2, <2>1 DEF IssueSome, IssuePublish, IssueUnpublish, Issue, Enter
  <2> QED
    BY <1>2, <2>1, <2>2 DEF IssueSome, EntersAtt
<1>3. ASSUME NEW c \in Calls, Stops \/ CallFails(c) \/ Receive(c) PROVE FALSE
  BY <1>1, <1>3, <1>i DEF Stops, CallFails, Receive, ReceiveCreate, ReceiveDelete,
     ReceivePublish, ReceiveUnpublish, Answered
<1>4. ASSUME NEW c \in Calls, Serves(c) PROVE Works(d)
  <2>1. PICK k : Keeps(c, k)
    BY <1>3, <1>4, StepKeeps DEF Serves
  <2>2. c = d /\ calls'[d] = k
    BY <1>1, <2>1 DEF Keeps
  <2> QED
    BY <1>4, <2>1, <2>2 DEF Works
<1>5. CASE (\E v \in VolIds : Progress(v)) \/ (\E r \in ghosts : Late(r)) \/ UserStep
           \/ UNCHANGED vars
  BY <1>5 DEF Progress, Late, UserStep, Release, Want, Unwant, vars
<1>6. CASE FaultStep
  BY <1>3, <1>6 DEF FaultStep, Fault, Crash
<1> QED
  BY <1>2, <1>3, <1>4, <1>5, <1>6, NextCases

LEMMA EnterAtt ==
  ASSUME TypeInv, NEW d \in Calls, EntersAtt(d)
  PROVE  /\ UNCHANGED <<vols, ghosts, va, early>>
         /\ \A c \in Calls : c # d => calls'[c] = calls[c]
         /\ calls'[d].pc = IF calls'[d].op = "publish" THEN "lookup" ELSE "get"
         /\ Serial => \A c \in Calls : ~SameObject(calls[c], calls'[d])
         /\ \E v \in VolIds, m \in VMs :
              /\ calls'[d].vol = v /\ calls'[d].vm = m
              /\ \/ calls'[d].op = "publish" /\ va[v][m] \in {"wanted", "attached"}
                 \/ calls'[d].op = "unpublish" /\ va[v][m] = "leaving"
<1>0. calls \in [Calls -> Call]
  BY DEF TypeInv, TypeOK, CtrlTypeOK
<1>1. PICK v \in VolIds, m \in VMs : IssuePublish(d, v, m) \/ IssueUnpublish(d, v, m)
  BY DEF EntersAtt
<1> DEFINE p == PublishCall(v, m)
           u == UnpublishCall(v, m)
<1>2. /\ p.op = "publish" /\ p.pc = "lookup" /\ p.vol = v /\ p.vm = m
      /\ u.op = "unpublish" /\ u.pc = "get" /\ u.vol = v /\ u.vm = m
  BY DEF PublishCall, UnpublishCall, Idle
<1>3. \/ Issue(d, p) /\ va[v][m] \in {"wanted", "attached"}
      \/ Issue(d, u) /\ va[v][m] = "leaving"
  BY <1>1 DEF IssuePublish, IssueUnpublish, Published
<1> HIDE DEF p, u
<1>4. ASSUME NEW k, Issue(d, k)
      PROVE  /\ UNCHANGED <<vols, ghosts, va, early>> /\ calls'[d] = k
             /\ \A c \in Calls : c # d => calls'[c] = calls[c]
             /\ Serial => \A c \in Calls : ~SameObject(calls[c], k)
  BY <1>0, <1>4 DEF Issue, Enter, Now
<1> QED
  BY <1>2, <1>3, <1>4

LEMMA WorkAtt ==
  ASSUME TypeInv, NEW d \in Calls, Works(d)
  PROVE  /\ UNCHANGED <<va, ghosts>> /\ CallStep(d) /\ NotesEarly(d)
         /\ calls'[d].op = calls[d].op
         /\ calls'[d].op \in OfAtt => calls'[d].vol = calls[d].vol /\ calls'[d].vm = calls[d].vm
<1>0. ~Panic(d)
  <2> SUFFICES ASSUME Panic(d) PROVE FALSE
    OBVIOUS
  <2>1. calls'[d].op = "none"
    BY DEF Panic, Stops, Idle
  <2>2. calls'[d].op = calls[d].op /\ calls[d].op = "unpublish"
    BY DEF Panic, FindsNoAttachment, At, Works, Keeps
  <2> QED
    BY <2>1, <2>2
<1> QED
  BY <1>0 DEF Works, Serves, Keeps, CallStep, CreateList, CreatePost, CreatePoll, DeleteGet,
     DeleteSend, PublishLookup, PublishGet, PublishAttach, UnpublishGet, UnpublishAttachment,
     UnpublishUnprotect, UnpublishDetach

(* How volumes get on their way to a VM.                                     *)
NoneArrives == \A v \in VolIds, m \in VMs : OnVM(v, m)' => OnVM(v, m)

LEMMA SetNoneArrives ==
  ASSUME TypeInv, NEW w \in VolIds, NEW x, SetVolume(w, x),
         \/ x.status \notin {"attaching", "in-use"}
         \/ OnItsWay(w) /\ x.vm = vols[w].vm
  PROVE  NoneArrives
  BY DEF TypeInv, TypeOK, CtrlTypeOK, CloudTypeOK, NoneArrives, SetVolume, OnVM, OnItsWay

LEMMA RequestNoneArrives ==
  ASSUME TypeInv, NEW w \in VolIds,
         \/ \E n \in Names, s \in Int : Creates(w, n, s)
         \/ Deletes(w)
         \/ \E m \in VMs : Unprotects(w, m) \/ Detaches(w, m)
  PROVE  NoneArrives
<1>0. vols[w] \in Volume
  BY DEF TypeInv, TypeOK, CtrlTypeOK, CloudTypeOK
<1>1. ASSUME NEW n \in Names, NEW s \in Int, Creates(w, n, s) PROVE NoneArrives
  <2>1. NewVolume(n, s).status = "creating"
    BY DEF NewVolume, Absent
  <2> QED
    BY <1>1, <2>1, SetNoneArrives DEF Creates
<1>2. CASE Deletes(w)
  <2>1. [vols[w] EXCEPT !.status = "deleting"].status = "deleting"
    BY <1>0 DEF Volume
  <2> QED
    BY <1>2, <2>1, SetNoneArrives DEF Deletes
<1>3. ASSUME NEW m \in VMs, Unprotects(w, m) PROVE NoneArrives
  <2>1. [vols[w] EXCEPT !.protected = FALSE].vm = vols[w].vm
    BY <1>0 DEF Volume
  <2> QED
    BY <1>3, <2>1, SetNoneArrives DEF Unprotects, Unprotectable, OnItsWay
<1>4. ASSUME NEW m \in VMs, Detaches(w, m) PROVE NoneArrives
  <2>1. [vols[w] EXCEPT !.status = "detaching", !.dev = NoDev].status = "detaching"
    BY <1>0 DEF Volume
  <2> QED
    BY <1>4, <2>1, SetNoneArrives DEF Detaches
<1> QED
  BY <1>1, <1>2, <1>3, <1>4

LEMMA CloudNoneArrives ==
  ASSUME TypeInv, NEW w \in VolIds, CloudProgress(w) \/ CloudFault(w)
  PROVE  NoneArrives
<1>0. vols[w] \in Volume
  BY DEF TypeInv, TypeOK, CtrlTypeOK, CloudTypeOK
<1>1. ASSUME NEW s PROVE LET x == [vols[w] EXCEPT !.status = s] IN x.status = s /\ x.vm = vols[w].vm
  BY <1>0 DEF Volume
<1>2. CASE CreateDone(w) \/ CreateBroken(w) \/ AttachDone(w) \/ DeleteDone(w)
  BY <1>1, <1>2, SetNoneArrives DEF CreateDone, CreateBroken, AttachDone, DeleteDone, Becomes,
     OnItsWay
<1>3. CASE DeviceReady(w)
  <2>1. PICK d \in Devices : SetVolume(w, [vols[w] EXCEPT !.dev = d])
    BY <1>3 DEF DeviceReady
  <2>2. [vols[w] EXCEPT !.dev = d].vm = vols[w].vm
    BY <1>0 DEF Volume
  <2> QED
    BY <1>3, <2>1, <2>2, SetNoneArrives DEF DeviceReady, OnItsWay
<1>4. CASE AttachBroken(w) \/ DetachDone(w)
  <2>1. Detached(vols[w]).status = "available"
    BY <1>0 DEF Detached, Volume
  <2> QED
    BY <1>4, <2>1, SetNoneArrives DEF AttachBroken, DetachDone, Releases
<1> QED
  BY <1>2, <1>3, <1>4 DEF CloudProgress, CloudFault

LEMMA AttachArrives ==
  ASSUME TypeInv, NEW w \in VolIds, NEW k \in VMs, Attaches(w, k),
         NEW v \in VolIds, NEW m \in VMs, OnVM(v, m)'
  PROVE  OnVM(v, m) \/ (v = w /\ m = k)
<1>0. vols \in [VolIds -> Volume]
  BY DEF TypeInv, TypeOK, CtrlTypeOK, CloudTypeOK
<1>1. Attaching(vols[w], k).vm = k
  BY <1>0 DEF Attaching, Volume
<1> QED
  BY <1>0, <1>1 DEF Attaches, SetVolume, OnVM, OnItsWay

(* Whose step gets a volume on its way.                                      *)
Sent(v, m) == \E c \in Calls : On(c, "publish", v, m) /\ Serves(c)

LEMMA CallArrives ==
  ASSUME TypeInv, NEW c \in Calls, Serves(c)
  PROVE  NoneArrives \/ \A v \in VolIds, m \in VMs : OnVM(v, m)' => OnVM(v, m) \/ Sent(v, m)
<1>0. CallOK(calls[c]) /\ calls[c] \in Call /\ CallStep(c)
  BY DEF TypeInv, TypeOK, CtrlTypeOK, Serves
<1>1. CASE UNCHANGED vols
  BY <1>1 DEF NoneArrives, OnVM, OnItsWay
<1>2. CASE CreatePost(c)
  <2>1. PICK v \in VolIds : Creates(v, calls[c].name, calls[c].size)
    BY <1>2 DEF CreatePost
  <2>2. calls[c].name \in Names /\ calls[c].size \in Int
    BY <1>0, <1>2 DEF CreatePost, At, CallOK, Call
  <2> QED
    BY <2>1, <2>2, RequestNoneArrives
<1>3. CASE DeleteSend(c) /\ Deletes(calls[c].vol)
  BY <1>0, <1>3, RequestNoneArrives DEF DeleteSend, At, CallOK
<1>4. CASE PublishAttach(c) /\ Attaches(calls[c].vol, calls[c].vm)
  BY <1>0, <1>4, AttachArrives DEF PublishAttach, At, CallOK, Sent, On
<1>5. CASE UnpublishUnprotect(c) /\ Unprotects(calls[c].vol, calls[c].att)
  BY <1>0, <1>5, RequestNoneArrives DEF UnpublishUnprotect, At, CallOK
<1>6. CASE UnpublishDetach(c) /\ Detaches(calls[c].vol, calls[c].vm)
  BY <1>0, <1>6, RequestNoneArrives DEF UnpublishDetach, At, CallOK
<1> QED
  BY <1>0, <1>1, <1>2, <1>3, <1>4, <1>5, <1>6 DEF CallStep, CreateList, CreatePoll, DeleteGet,
     DeleteSend, PublishLookup, PublishGet, PublishAttach, UnpublishGet, UnpublishAttachment,
     UnpublishUnprotect, UnpublishDetach, Panic, Stops

Landed(v, m) == Attach(v, m) \in ghosts /\ UNCHANGED <<calls, va, early>>

LEMMA LateArrives ==
  ASSUME TypeInv, NEW r \in ghosts, Late(r), NEW v \in VolIds, NEW m \in VMs, OnVM(v, m)'
  PROVE  OnVM(v, m) \/ Landed(v, m)
<1>0. r \in Request
  BY DEF TypeInv, TypeOK, CtrlTypeOK, CloudTypeOK
<1>a. NoneArrives => OnVM(v, m)
  BY DEF NoneArrives
<1>1. CASE r.kind = "post" /\ \E w \in VolIds : Creates(w, r.name, r.size)
  <2>1. r.name \in Names /\ r.size \in Int
    BY <1>0, <1>1 DEF Request
  <2> QED
    BY <1>1, <1>a, <2>1, RequestNoneArrives
<1>2. CASE r.kind = "delete" /\ Deletes(r.vol)
  <2>1. r.vol \in VolIds
    BY <1>0, <1>2 DEF Request
  <2> QED
    BY <1>2, <1>a, <2>1, RequestNoneArrives
<1>3. CASE r.kind = "attach" /\ Attaches(r.vol, r.vm)
  <2>1. r.vol \in VolIds /\ r.vm \in VMs /\ r = Attach(r.vol, r.vm)
    BY <1>0, <1>3 DEF Request, Attach
  <2> QED
    BY <1>3, <2>1, AttachArrives DEF Landed, Late
<1>4. CASE \/ r.kind = "unprotect" /\ Unprotects(r.vol, r.vm)
           \/ r.kind = "detach" /\ Detaches(r.vol, r.vm)
  <2>1. r.vol \in VolIds /\ r.vm \in VMs
    BY <1>0, <1>4 DEF Request
  <2> QED
    BY <1>4, <1>a, <2>1, RequestNoneArrives
<1>5. CASE UNCHANGED vols
  BY <1>5 DEF OnVM, OnItsWay
<1> QED
  BY <1>1, <1>2, <1>3, <1>4, <1>5 DEF Late, GhostLands

LEMMA Arrivals ==
  ASSUME TypeInv, [Next]_vars, NEW v \in VolIds, NEW m \in VMs, OnVM(v, m)'
  PROVE  OnVM(v, m) \/ Sent(v, m) \/ Landed(v, m)
<1>a. UNCHANGED vols => OnVM(v, m)
  BY DEF OnVM, OnItsWay
<1>b. NoneArrives => OnVM(v, m)
  BY DEF NoneArrives
<1>1. CASE \E c \in Calls : IssueSome(c) \/ Receive(c)
  BY <1>1, <1>a DEF IssueSome, IssueCreate, IssueDelete, IssuePublish, IssueUnpublish,
     Issue, Receive, ReceiveCreate, ReceiveDelete, ReceivePublish, ReceiveUnpublish
<1>2. CASE \E c \in Calls : Serves(c)
  BY <1>2, <1>b, CallArrives
<1>3. CASE FaultStep \/ \E w \in VolIds : Progress(w)
  BY <1>3, <1>a, <1>b, CloudNoneArrives DEF FaultStep, Fault, CallFails, Crash, Stops, Progress
<1>4. CASE \E r \in ghosts : Late(r)
  BY <1>4, LateArrives
<1>5. CASE UserStep \/ UNCHANGED vars
  BY <1>5, <1>a DEF UserStep, Release, Want, Unwant, vars
<1> QED
  BY <1>1, <1>2, <1>3, <1>4, <1>5, NextCases

-----------------------------------------------------------------------------
(* An attach outlives its call when the call fails, or the process stops.    *)
Left(v, m) ==
  /\ \E c \in Calls : On(c, "publish", v, m) /\ (CallFails(c) \/ Stops)
  /\ UNCHANGED <<va, early>>

LEMMA GhostSource ==
  ASSUME TypeInv, [Next]_vars, NEW v \in VolIds, NEW m \in VMs, Attach(v, m) \in ghosts'
  PROVE  Attach(v, m) \in ghosts \/ Left(v, m)
<1>0. calls \in [Calls -> Call] /\ \A c \in Calls : CallOK(calls[c])
  BY DEF TypeInv, TypeOK, CtrlTypeOK
<1>1. ASSUME NEW c \in Calls, Attach(v, m) \in InFlight(c) PROVE On(c, "publish", v, m)
  <2>1. calls[c].pc = "attach" /\ Attach(v, m) = Attach(calls[c].vol, calls[c].vm)
    BY <1>1 DEF InFlight, Attach, Post, Delete, Unprotect, Detach
  <2>2. v = calls[c].vol /\ m = calls[c].vm
    BY <2>1 DEF Attach
  <2> QED
    BY <1>0, <2>1, <2>2 DEF On, CallOK, Call, Ops
<1>2. ASSUME NEW c \in Calls, CallFails(c)
      PROVE  Attach(v, m) \in ghosts \/ On(c, "publish", v, m)
  BY <1>1, <1>2 DEF CallFails, LeavesBehind
<1>3. ASSUME Stops
      PROVE  Attach(v, m) \in ghosts \/ \E c \in Calls : On(c, "publish", v, m)
  BY <1>1, <1>3 DEF Stops, LeavesBehind
<1>4. CASE \E c \in Calls : IssueSome(c) \/ Receive(c)
  BY <1>4 DEF IssueSome, IssueCreate, IssueDelete, IssuePublish, IssueUnpublish,
     Issue, Receive, ReceiveCreate, ReceiveDelete, ReceivePublish, ReceiveUnpublish
<1>5. ASSUME NEW c \in Calls, Serves(c) PROVE Attach(v, m) \in ghosts \/ Left(v, m)
  <2>1. CASE Panic(c)
    <3>1. Stops /\ UNCHANGED <<va, early>>
      BY <1>5, <2>1 DEF Serves, NotesEarly, Panic, FindsNoAttachment, At
    <3> QED
      BY <1>3, <3>1 DEF Left
  <2>2. CASE ~Panic(c)
    <3>1. UNCHANGED ghosts
      BY <1>5, <2>2 DEF Serves, CallStep, CreateList, CreatePost, CreatePoll, DeleteGet,
         DeleteSend, PublishLookup, PublishGet, PublishAttach, UnpublishGet, UnpublishAttachment,
         UnpublishUnprotect, UnpublishDetach
    <3> QED
      BY <3>1
  <2> QED
    BY <2>1, <2>2
<1>6. CASE FaultStep
  <2>1. ASSUME NEW w \in VolIds, CloudFault(w) PROVE UNCHANGED ghosts
    BY <2>1 DEF CloudFault, CreateBroken, AttachBroken, Becomes, Releases
  <2> QED
    BY <1>2, <1>3, <1>6, <2>1 DEF FaultStep, Fault, Crash, Left
<1>7. CASE \E w \in VolIds : Progress(w)
  BY <1>7 DEF Progress, CloudProgress, CreateDone, AttachDone, DeleteDone, Becomes,
     DeviceReady, DetachDone, Releases
<1>8. CASE \E r \in ghosts : Late(r)
  BY <1>8 DEF Late, GhostLands
<1>9. CASE UserStep \/ UNCHANGED vars
  BY <1>9 DEF UserStep, Release, Want, Unwant, vars
<1> QED
  BY <1>4, <1>5, <1>6, <1>7, <1>8, <1>9, NextCases

-----------------------------------------------------------------------------
(* Who takes a VolumeAttachment away, or forgets what an unpublish noted.    *)
Acked(v, m) ==
  /\ \E c \in Calls :
       On(c, "unpublish", v, m) /\ At(c, "unpublish", "replied") /\ Succeeds(c)
         /\ calls'[c] = Idle
  /\ UNCHANGED <<vols, ghosts, early>>

LEMMA VaChanges ==
  ASSUME TypeInv, [Next]_vars, NEW v \in VolIds, NEW m \in VMs
  PROVE  \/ va'[v][m] = va[v][m]
         \/ va[v][m] = "none" /\ va'[v][m] = "wanted"
         \/ va[v][m] \in {"wanted", "attached"} /\ va'[v][m] \in {"attached", "leaving"}
         \/ va[v][m] = "leaving" /\ va'[v][m] = "none" /\ Acked(v, m)
<1>0. /\ va \in [VolIds -> [VMs -> {"none", "wanted", "attached", "leaving"}]]
      /\ calls \in [Calls -> Call] /\ \A c \in Calls : CallOK(calls[c])
  BY DEF TypeInv, TypeOK, CtrlTypeOK
<1>a. ASSUME NEW w \in VolIds, NEW k \in VMs, NEW s, va' = [va EXCEPT ![w][k] = s]
      PROVE  va'[v][m] = va[v][m] \/ (v = w /\ m = k /\ va'[v][m] = s)
  BY <1>0, <1>a
<1>1. CASE \E c \in Calls : IssueSome(c) \/ Serves(c)
  BY <1>1 DEF IssueSome, IssueCreate, IssueDelete, IssuePublish, IssueUnpublish, Issue, Serves
<1>2. ASSUME NEW c \in Calls, Receive(c), va'[v][m] # va[v][m]
      PROVE  \/ va[v][m] \in {"wanted", "attached"} /\ va'[v][m] = "attached"
             \/ va[v][m] = "leaving" /\ va'[v][m] = "none" /\ Acked(v, m)
  <2> DEFINE w == calls[c].vol
             k == calls[c].vm
  <2>1. ReceivePublish(c) \/ ReceiveUnpublish(c)
    BY <1>2 DEF Receive, ReceiveCreate, ReceiveDelete
  <2>2. w \in VolIds /\ k \in VMs
    BY <1>0, <2>1 DEF ReceivePublish, ReceiveUnpublish, Answered, At, CallOK
  <2>3. CASE ReceivePublish(c)
    <3>1. va' = [va EXCEPT ![w][k] = "attached"] /\ Published(w, k)
      BY <1>2, <2>3 DEF ReceivePublish
    <3> QED
      BY <1>2, <1>a, <2>2, <3>1 DEF Published
  <2>4. CASE ReceiveUnpublish(c)
    <3>1. va' = [va EXCEPT ![w][k] = "none"] /\ va[w][k] = "leaving" /\ Succeeds(c)
      BY <1>2, <2>4 DEF ReceiveUnpublish
    <3>2. v = w /\ m = k /\ va'[v][m] = "none"
      BY <1>2, <1>a, <2>2, <3>1
    <3>3. At(c, "unpublish", "replied") /\ calls'[c] = Idle /\ UNCHANGED <<vols, ghosts, early>>
      BY <1>0, <2>4 DEF ReceiveUnpublish, Answered, Now
    <3> QED
      BY <3>1, <3>2, <3>3 DEF Acked, On, At
  <2> QED
    BY <2>1, <2>3, <2>4
<1>3. CASE FaultStep \/ (\E w \in VolIds : Progress(w)) \/ (\E r \in ghosts : Late(r))
  BY <1>3 DEF FaultStep, Fault, Progress, Late
<1>4. CASE UserStep
  <2>1. ASSUME NEW w \in VolIds, NEW k \in VMs, Want(w, k), va'[v][m] # va[v][m]
        PROVE  va[v][m] = "none" /\ va'[v][m] = "wanted"
    BY <1>a, <2>1 DEF Want
  <2>2. ASSUME NEW w \in VolIds, NEW k \in VMs, Unwant(w, k), va'[v][m] # va[v][m]
        PROVE  va[v][m] \in {"wanted", "attached"} /\ va'[v][m] = "leaving"
    BY <1>a, <2>2 DEF Unwant, Published
  <2> QED
    BY <1>4, <2>1, <2>2 DEF UserStep, Release
<1>5. CASE UNCHANGED vars
  BY <1>5 DEF vars
<1> QED
  BY <1>1, <1>2, <1>3, <1>4, <1>5, NextCases

LEMMA EarlyChanges ==
  ASSUME TypeInv, [Next]_vars, NEW v \in VolIds, NEW m \in VMs, m \in early[v], m \notin early'[v]
  PROVE  va[v][m] = "none" /\ va'[v][m] = "wanted"
<1>0. /\ va \in [VolIds -> [VMs -> {"none", "wanted", "attached", "leaving"}]]
      /\ early \in [VolIds -> SUBSET VMs]
  BY DEF TypeInv, TypeOK
<1>1. CASE \E c \in Calls : IssueSome(c) \/ Receive(c)
  BY <1>1 DEF IssueSome, IssueCreate, IssueDelete, IssuePublish, IssueUnpublish,
     Issue, Receive, ReceiveCreate, ReceiveDelete, ReceivePublish, ReceiveUnpublish
<1>2. CASE \E c \in Calls : Serves(c)
  <2>1. PICK c \in Calls : NotesEarly(c)
    BY <1>2 DEF Serves
  <2> QED
    BY <1>0, <2>1 DEF NotesEarly
<1>3. CASE FaultStep \/ (\E w \in VolIds : Progress(w)) \/ (\E r \in ghosts : Late(r))
  BY <1>3 DEF FaultStep, Fault, Progress, Late
<1>4. CASE UserStep
  <2>1. PICK w \in VolIds, k \in VMs : Want(w, k)
    BY <1>4 DEF UserStep, Release, Unwant
  <2>2. early' = [early EXCEPT ![w] = early[w] \ {k}] /\ va[w][k] = "none"
        /\ va' = [va EXCEPT ![w][k] = "wanted"]
    BY <2>1 DEF Want
  <2>3. v = w /\ m = k
    BY <1>0, <2>2
  <2> QED
    BY <1>0, <2>2, <2>3
<1>5. CASE UNCHANGED vars
  BY <1>5 DEF vars
<1> QED
  BY <1>1, <1>2, <1>3, <1>4, <1>5, NextCases

-----------------------------------------------------------------------------
(* The invariant is kept.                                                    *)

LEMMA AloneNext ==
  ASSUME TypeInv, Serial, AloneInv, [Next]_vars
  PROVE  AloneInv'
<1> SUFFICES ASSUME NEW c \in Calls, NEW d \in Calls, calls'[c].op \in OfAtt,
                    calls'[d].op \in OfAtt, SameAtt(c, d)', c # d
             PROVE  FALSE
  BY DEF AloneInv
<1>1. ASSUME NEW e \in Calls, calls'[e].op \in OfAtt, ~EntersAtt(e)
      PROVE  calls'[e].op = calls[e].op /\ calls'[e].vol = calls[e].vol
               /\ calls'[e].vm = calls[e].vm
  BY <1>1, AttMoves, WorkAtt
<1>2. ASSUME NEW e \in Calls, NEW f \in Calls, e # f, EntersAtt(e),
             calls'[e].op \in OfAtt, calls'[f].op \in OfAtt, SameAtt(e, f)'
      PROVE  FALSE
  <2>1. calls'[f] = calls[f] /\ ~SameObject(calls[f], calls'[e])
    BY <1>2, EnterAtt
  <2> QED
    BY <1>2, <2>1 DEF SameObject, SameAtt, OfAtt
<1> QED
  BY <1>1, <1>2 DEF AloneInv, SameAtt

LEMMA AskedNext ==
  ASSUME AttachInv, Serial, [Next]_vars
  PROVE  AskedInv'
<1> SUFFICES ASSUME NEW c \in Calls, NEW v \in VolIds, NEW m \in VMs
             PROVE  /\ On(c, "publish", v, m)' => va'[v][m] # "none"
                    /\ On(c, "unpublish", v, m)' => va'[v][m] = "leaving"
  BY DEF AskedInv
<1> USE DEF AttachInv, OfAtt
<1>1. CASE calls'[c] = calls[c]
  <2>1. ASSUME Acked(v, m), On(c, "publish", v, m) \/ On(c, "unpublish", v, m) PROVE FALSE
    <3>1. PICK d \in Calls : On(d, "unpublish", v, m) /\ calls'[d] = Idle
      BY <2>1 DEF Acked
    <3>2. c = d
      BY <2>1, <3>1 DEF AloneInv, On, SameAtt
    <3> QED
      BY <1>1, <3>1, <3>2 DEF On, Idle
  <2> QED
    BY <1>1, <2>1, VaChanges DEF AskedInv, On
<1>2. CASE EntersAtt(c)
  BY <1>2, EnterAtt DEF On
<1>3. CASE Works(c)
  BY <1>3, WorkAtt DEF AskedInv, On
<1> QED
  BY <1>1, <1>2, <1>3, AttMoves DEF On

LEMMA DueNext ==
  ASSUME AttachInv, [Next]_vars
  PROVE  DueInv'
<1> SUFFICES ASSUME NEW v \in VolIds, NEW m \in VMs, Due(v, m)'
             PROVE  va'[v][m] # "none" \/ m \in early'[v]
  BY DEF DueInv
<1> USE DEF AttachInv
<1>1. CASE Due(v, m)
  <2>1. CASE Acked(v, m)
    <3>1. PICK c \in Calls : /\ On(c, "unpublish", v, m) /\ At(c, "unpublish", "replied")
                             /\ Succeeds(c)
      BY <2>1 DEF Acked
    <3>2. m \in early[v]
      BY <1>1, <3>1 DEF NotedInv, Due, At, Succeeds
    <3> QED
      BY <2>1, <3>2 DEF Acked
  <2>2. CASE ~Acked(v, m)
    <3>1. va[v][m] # "none" => va'[v][m] # "none"
      BY <2>2, VaChanges
    <3> QED
      BY <1>1, <3>1, EarlyChanges DEF DueInv
  <2> QED
    BY <2>1, <2>2
<1>2. CASE Sent(v, m) \/ Left(v, m)
  BY <1>2 DEF Sent, Left, Serves, AskedInv
<1>3. CASE Landed(v, m)
  BY <1>3 DEF Landed, DueInv, Due
<1> QED
  BY <1>1, <1>2, <1>3, Arrivals, GhostSource DEF Due

LEMMA NotedNext ==
  ASSUME AttachInv, [Next]_vars
  PROVE  NotedInv'
<1> SUFFICES ASSUME NEW c \in Calls, NEW v \in VolIds, NEW m \in VMs,
                    On(c, "unpublish", v, m)', m \notin early'[v]
             PROVE  /\ calls'[c].pc # "get" => Attach(v, m) \notin ghosts'
                    /\ calls'[c].pc = "replied" /\ calls'[c].code = "OK" => ~OnVM(v, m)'
  BY DEF NotedInv
<1> USE DEF AttachInv, OfAtt
<1>0. /\ calls \in [Calls -> Call] /\ calls[c] \in Call
      /\ vols \in [VolIds -> Volume] /\ early \in [VolIds -> SUBSET VMs]
  BY DEF TypeInv, TypeOK, CtrlTypeOK, CloudTypeOK
<1>1. CASE EntersAtt(c)
  <2>1. calls'[c].pc = "get"
    BY <1>1, EnterAtt DEF On
  <2> QED
    BY <2>1
<1>2. CASE ~EntersAtt(c)
  <2>1. On(c, "unpublish", v, m) /\ va[v][m] = "leaving"
    BY <1>2, AttMoves, WorkAtt DEF On, AskedInv
  <2>2. m \notin early[v]
    BY <2>1, EarlyChanges
  <2>3. ASSUME NEW d \in Calls, On(d, "publish", v, m) PROVE FALSE
    BY <2>1, <2>3 DEF AloneInv, On, SameAtt
  <2>4. ~Sent(v, m) /\ ~Left(v, m)
    BY <2>3 DEF Sent, Left
  <2>5. CASE calls'[c] = calls[c]
    BY <2>1, <2>2, <2>4, <2>5, Arrivals, GhostSource DEF NotedInv, On, Landed
  <2>6. CASE Works(c) /\ calls[c].pc = "get"
    <3>1. UnpublishGet(c) /\ NotesEarly(c) /\ UNCHANGED <<vols, ghosts>>
      BY <2>1, <2>6, WorkAtt DEF On, CallStep, CreateList, CreatePost, CreatePoll, DeleteGet,
         DeleteSend, PublishLookup, PublishGet, PublishAttach, UnpublishGet, UnpublishAttachment,
         UnpublishUnprotect, UnpublishDetach, Panic, FindsNoAttachment, At
    <3>2. ~AttachPending(v, m)
      BY <1>0, <2>1, <2>6, <3>1 DEF NotesEarly, On, At
    <3>3. ASSUME vols[v].status = "in-use" PROVE calls'[c].pc = "attachment"
      BY <1>0, <2>1, <3>1, <3>3 DEF UnpublishGet, UnpublishNeedsDetach, Exists, Live, Goto,
         Now, On, Call
    <3> QED
      BY <3>1, <3>2, <3>3 DEF AttachPending, OnVM, OnItsWay
  <2>7. CASE Works(c) /\ calls[c].pc # "get"
    <3>1. Attach(v, m) \notin ghosts'
      BY <2>1, <2>2, <2>7, WorkAtt DEF NotedInv
    <3>2. UnpublishAttachment(c) \/ UnpublishUnprotect(c) \/ UnpublishDetach(c)
      <4>1. ~Panic(c)
        BY <1>0, <2>7 DEF Panic, Stops, Works, Keeps, FindsNoAttachment, At, Idle
      <4> QED
        BY <2>1, <2>7, <4>1, WorkAtt DEF On, CallStep, CreateList, CreatePost, CreatePoll,
           DeleteGet, DeleteSend, PublishLookup, PublishGet, PublishAttach, UnpublishGet, At
    <3>3. ASSUME Reply(c, "Internal") PROVE calls'[c].code = "Internal"
      BY <1>0, <3>3 DEF Reply, Now, Call
    <3>4. ASSUME NEW pc, Goto(c, pc), pc # "replied" PROVE calls'[c].pc # "replied"
      BY <1>0, <3>4 DEF Goto, Now, Call
    <3>5. ASSUME NEW a, Now(c, [calls[c] EXCEPT !.pc = "unprotect", !.att = a])
          PROVE  calls'[c].pc # "replied"
      BY <1>0, <3>5 DEF Now, Call
    <3>6. ASSUME Detaches(v, m) PROVE ~OnVM(v, m)'
      BY <1>0, <3>6 DEF Detaches, SetVolume, OnVM, OnItsWay, Volume
    <3> QED
      BY <2>1, <3>1, <3>2, <3>3, <3>4, <3>5, <3>6 DEF UnpublishAttachment, UnpublishUnprotect,
         UnpublishDetach, On
  <2> QED
    BY <1>2, <2>5, <2>6, <2>7, AttMoves DEF On
<1> QED
  BY <1>1, <1>2

LEMMA AttachInit == Init => AttachInv
<1> SUFFICES ASSUME Init PROVE AttachInv
  OBVIOUS
<1>1. TypeInv
  BY TypeInit
<1>2. ghosts = {} /\ \A v \in VolIds : vols[v].status = "absent"
  BY DEF Init, CtrlInit, CloudInit, Absent
<1>3. \A c \in Calls : calls[c].op = "none"
  BY DEF Init, CtrlInit, Idle
<1> QED
  BY <1>1, <1>2, <1>3 DEF AttachInv, AloneInv, AskedInv, DueInv, NotedInv, Due, OnVM, OnItsWay,
     On, OfAtt

LEMMA AttachNext ==
  ASSUME AttachInv, Serial, [Next]_vars
  PROVE  AttachInv'
  BY TypeNext, AloneNext, AskedNext, DueNext, NotedNext DEF AttachInv

LEMMA AttachHolds == AttachInv => AttachmentAccounted
<1> SUFFICES ASSUME AttachInv, NEW v \in VolIds, OnItsWay(v)
             PROVE  va[v][vols[v].vm] # "none" \/ vols[v].vm \in early[v]
  BY DEF AttachmentAccounted
<1>1. vols[v].vm \in VMs
  BY DEF AttachInv, TypeInv, VolumeOK, OnItsWay
<1> QED
  BY <1>1 DEF AttachInv, DueInv, Due, OnVM

(* With one sidecar, which never has two calls for one VolumeAttachment      *)
(* open, a volume is on a VM, or on its way there, only as long as some      *)
(* VolumeAttachment says so, but for the VMs whose ControllerUnpublishVolume *)
(* read the volume while the attach was pending: however calls fail, and     *)
(* however late their requests take effect.                                  *)
THEOREM AttachmentsAccounted == Serial => (Spec => []AttachmentAccounted)
<1> SUFFICES ASSUME Serial PROVE Spec => []AttachmentAccounted
  OBVIOUS
<1> QED
  BY AttachNext, AttachHolds, AttachInit, PTL DEF Spec
=============================================================================
