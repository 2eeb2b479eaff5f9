------------------------- MODULE VolumeStack_proofs -------------------------
(* Why a node formats and mounts no volume but its own: what one sidecar     *)
(* (Serial) and one node at a time (Exclusive) buy, however calls fail, for  *)
(* any number of them, and whether or not their requests outlive them. The   *)
(* argument is that a device answered stays the device of the volume until   *)
(* its VolumeAttachment leaves, so no other volume of the node can have it:  *)
(* until then the volume is protected, unless an unprotect came late. A      *)
(* stage that its kubelet has given up keeps that device too, for as long as *)
(* the volume is not let go: leftover names the nodes where it was.          *)
EXTENDS VolumeStack, VolumeLifecycle_attach

USE DEF cloudVars, coVars, ctrlVars

Tidy == Serial /\ Exclusive

AttachedAt(v, m, d) == vols[v].status = "in-use" /\ vols[v].vm = m /\ vols[v].dev = d

OneNodeInv ==
  \A v \in VolIds, m \in VMs, k \in VMs :
    va[v][m] # "none" /\ va[v][k] # "none" => m = k

DevicesInv ==
  \A v \in VolIds, w \in VolIds :
    vols[v].dev # NoDev /\ vols[v].vm = vols[w].vm /\ vols[v].dev = vols[w].dev => v = w

(* The requests on their way are among those noted.                          *)
LateInv == \A v \in VolIds : KindsOf(ghosts, v) \subseteq late[v]

(* The device in a publish context, and in an answer that is on its way.     *)
CtxInv ==
  \A v \in VolIds, m \in VMs :
    va[v][m] = "attached" /\ ctx[v][m] # NoDev /\ ~Excused(v)
      => AttachedAt(v, m, ctx[v][m])

AnswerInv ==
  \A c \in Calls, v \in VolIds, m \in VMs : On(c, "publish", v, m) =>
    /\ calls[c].pc # "replied" => calls[c].dev = NoDev
    /\ calls[c].pc = "replied" /\ calls[c].code = "OK" /\ ~Excused(v) =>
         /\ calls[c].dev # NoDev => AttachedAt(v, m, calls[c].dev)
         /\ va[v][m] = "attached" /\ ctx[v][m] # NoDev => calls[c].dev = ctx[v][m]

(* An attachment without protection is being unpublished, by a call that     *)
(* does not succeed before the volume is detached, or an unprotect was late. *)
(* An unpublish that is about to touch the volume finds it in use, unless a  *)
(* late detach has taken it, and a late attach put it elsewhere.             *)
LetsDetach(v, m) ==
  /\ va[v][m] = "leaving"
  /\ \A c \in Calls :
       /\ ~On(c, "publish", v, m)
       /\ ~(On(c, "unpublish", v, m) /\ calls[c].pc = "replied" /\ calls[c].code = "OK")
Bared(v) == "unprotect" \in late[v] \/ Undercut(v)
ProtectInv ==
  \A v \in VolIds : OnItsWay(v) /\ ~vols[v].protected =>
    Bared(v) \/ (vols[v].status = "in-use" /\ \E m \in VMs : LetsDetach(v, m))

Touching == {"attachment", "unprotect", "detach"}
TouchInv ==
  \A c \in Calls, v \in VolIds, m \in VMs :
    On(c, "unpublish", v, m) /\ calls[c].pc \in Touching =>
      \/ vols[v].status = "in-use"
      \/ "detach" \in late[v] /\ (vols[v].status = "attaching" => "attach" \in late[v])

CtrlInv == /\ AttachInv /\ LateInv /\ OneNodeInv /\ DevicesInv
           /\ CtxInv /\ AnswerInv /\ ProtectInv /\ TouchInv

(* A stage under way, or a mount, holds the VolumeAttachment, or is left     *)
(* over; and it has the device of the volume unless that is excused.         *)
HeldInv ==
  \A v \in VolIds, m \in VMs :
    /\ Busy(v, m) => va[v][m] = "attached" \/ m \in leftover[v]
    /\ m \in leftover[v] => Busy(v, m)

OwnInv ==
  \A v \in VolIds, m \in VMs :
    Busy(v, m) /\ ~Excused(v) /\ m \notin leftover[v] =>
      /\ ctx[v][m] # NoDev
      /\ \A s \in StagesOf(v, m) : stages[s].dev = ctx[v][m]
      /\ staged[v][m] \subseteq {v}

MountInv ==
  \A v \in VolIds, m \in VMs : v \in staged[v][m] =>
    (vols[v].status = "in-use" /\ vols[v].vm = m) \/ Undercut(v) \/ m \in leftover[v]

StackInv == CtrlInv /\ StackTypeOK /\ HeldInv /\ OwnInv /\ MountInv

-----------------------------------------------------------------------------
(* How the volumes move: unprotect and detach come from an unpublish, or     *)
(* late.                                                                     *)

Unprotected(w, c) ==
  UnpublishUnprotect(c) /\ calls[c].vol = w /\ Unprotects(w, calls[c].att)
Taken(w, c) ==
  UnpublishDetach(c) /\ calls[c].vol = w /\ Detaches(w, calls[c].vm)
LateUnprotected(w) == "unprotect" \in late[w] /\ \E m \in VMs : Unprotects(w, m)
LateTaken(w) == "detach" \in late[w] /\ \E m \in VMs : Detaches(w, m)
OutOfUse(w) ==
  /\ vols[w].status # "in-use" /\ vols'[w].status # "in-use"
  /\ vols'[w].status = "attaching" => vols'[w].protected
Moved(w) ==
  /\ \A v \in VolIds \ {w} : vols'[v] = vols[v]
  /\ \/ OutOfUse(w) \/ AttachDone(w) \/ DeviceReady(w)
     \/ LateUnprotected(w) \/ LateTaken(w)
     \/ \E c \in Calls : Serves(c) /\ (Unprotected(w, c) \/ Taken(w, c))

LEMMA SetIs ==
  ASSUME TypeInv, NEW w \in VolIds, NEW x, SetVolume(w, x)
  PROVE  vols'[w] = x /\ \A v \in VolIds \ {w} : vols'[v] = vols[v]
  BY DEF TypeInv, TypeOK, CtrlTypeOK, CloudTypeOK, SetVolume

LEMMA RequestMoves ==
  ASSUME TypeInv, NEW w \in VolIds,
         \/ \E n \in Names, s \in Int : Creates(w, n, s)
         \/ Deletes(w)
         \/ \E m \in VMs : Attaches(w, m)
  PROVE  Moved(w)
<1>0. vols[w] \in Volume
  BY DEF TypeInv, TypeOK, CtrlTypeOK, CloudTypeOK
<1>1. ASSUME NEW n \in Names, NEW s \in Int, Creates(w, n, s) PROVE Moved(w)
  <2>1. NewVolume(n, s).status = "creating"
    BY DEF NewVolume, Absent
  <2> QED
    BY <1>1, <2>1, SetIs DEF Creates, Moved, OutOfUse
<1>2. CASE Deletes(w)
  <2>1. [vols[w] EXCEPT !.status = "deleting"].status = "deleting"
    BY <1>0 DEF Volume
  <2> QED
    BY <1>2, <2>1, SetIs DEF Deletes, Deletable, Moved, OutOfUse
<1>3. ASSUME NEW m \in VMs, Attaches(w, m) PROVE Moved(w)
  <2>1. Attaching(vols[w], m).status = "attaching" /\ Attaching(vols[w], m).protected
    BY <1>0 DEF Attaching, Volume
  <2> QED
    BY <1>3, <2>1, SetIs DEF Attaches, Attachable, Moved, OutOfUse
<1> QED
  BY <1>1, <1>2, <1>3

LEMMA CloudMoves ==
  ASSUME TypeInv, NEW w \in VolIds, CloudProgress(w) \/ CloudFault(w)
  PROVE  Moved(w)
<1>0. vols[w] \in Volume
  BY DEF TypeInv, TypeOK, CtrlTypeOK, CloudTypeOK
<1>1. ASSUME NEW s PROVE [vols[w] EXCEPT !.status = s].status = s
  BY <1>0 DEF Volume
<1>2. CASE CreateDone(w) \/ CreateBroken(w) \/ DeleteDone(w)
  <2>1. PICK from, to : Becomes(w, from, to) /\ from # "in-use" /\ to \notin {"attaching", "in-use"}
    BY <1>2 DEF CreateDone, CreateBroken, DeleteDone
  <2>2. vols'[w] = [vols[w] EXCEPT !.status = to] /\ \A v \in VolIds \ {w} : vols'[v] = vols[v]
    BY <2>1, SetIs DEF Becomes
  <2>3. vols[w].status = from /\ vols'[w].status = to
    BY <1>1, <2>1, <2>2 DEF Becomes
  <2> QED
    BY <2>1, <2>2, <2>3 DEF Moved, OutOfUse
<1>3. CASE AttachDone(w)
  BY <1>3, SetIs DEF AttachDone, Becomes, Moved
<1>4. CASE DeviceReady(w)
  BY <1>4, SetIs DEF DeviceReady, Moved
<1>5. CASE AttachBroken(w) \/ DetachDone(w)
  <2>1. Detached(vols[w]).status = "available"
    BY <1>0 DEF Detached, Volume
  <2> QED
    BY <1>5, <2>1, SetIs DEF AttachBroken, DetachDone, Releases, Moved, OutOfUse
<1> QED
  BY <1>2, <1>3, <1>4, <1>5 DEF CloudProgress, CloudFault

LEMMA CallMoves ==
  ASSUME TypeInv, NEW c \in Calls, Serves(c)
  PROVE  UNCHANGED vols \/ \E w \in VolIds : Moved(w)
<1>0. CallOK(calls[c]) /\ calls[c] \in Call /\ CallStep(c)
  BY DEF TypeInv, TypeOK, CtrlTypeOK, Serves
<1>2. CASE CreatePost(c)
  <2>1. PICK v \in VolIds : Creates(v, calls[c].name, calls[c].size)
    BY <1>2 DEF CreatePost
  <2>2. calls[c].name \in Names /\ calls[c].size \in Int
    BY <1>0, <1>2 DEF CreatePost, At, CallOK, Call
  <2> QED
    BY <2>1, <2>2, RequestMoves
<1>3. CASE DeleteSend(c) /\ Deletes(calls[c].vol)
  BY <1>0, <1>3, RequestMoves DEF DeleteSend, At, CallOK
<1>4. CASE PublishAttach(c) /\ Attaches(calls[c].vol, calls[c].vm)
  BY <1>0, <1>4, RequestMoves DEF PublishAttach, At, CallOK
<1>5. CASE UnpublishUnprotect(c) /\ Unprotects(calls[c].vol, calls[c].att)
  <2>1. calls[c].vol \in VolIds
    BY <1>0, <1>5 DEF UnpublishUnprotect, At, CallOK
  <2> QED
    BY <1>5, <2>1, SetIs DEF Unprotects, Moved, Unprotected
<1>6. CASE UnpublishDetach(c) /\ Detaches(calls[c].vol, calls[c].vm)
  <2>1. calls[c].vol \in VolIds
    BY <1>0, <1>6 DEF UnpublishDetach, At, CallOK
  <2> QED
    BY <1>6, <2>1, SetIs DEF Detaches, Moved, Taken
<1> QED
  BY <1>0, <1>2, <1>3, <1>4, <1>5, <1>6 DEF CallStep, CreateList, CreatePoll, DeleteGet,
     DeleteSend, PublishLookup, PublishGet, PublishAttach, UnpublishGet, UnpublishAttachment,
     UnpublishUnprotect, UnpublishDetach, Panic, Stops

LEMMA LateMoves ==
  ASSUME TypeInv, LateInv, NEW r \in ghosts, Late(r)
  PROVE  UNCHANGED vols \/ \E w \in VolIds : Moved(w)
<1>0. r \in Request
  BY DEF TypeInv, TypeOK, CtrlTypeOK, CloudTypeOK
<1>1. CASE r.kind = "post" /\ \E w \in VolIds : Creates(w, r.name, r.size)
  <2>1. r.name \in Names /\ r.size \in Int
    BY <1>0, <1>1 DEF Request
  <2> QED
    BY <1>1, <2>1, RequestMoves
<1>2. CASE r.kind = "delete" /\ Deletes(r.vol)
  <2>1. r.vol \in VolIds
    BY <1>0, <1>2 DEF Request
  <2> QED
    BY <1>2, <2>1, RequestMoves
<1>3. CASE r.kind = "attach" /\ Attaches(r.vol, r.vm)
  <2>1. r.vol \in VolIds /\ r.vm \in VMs
    BY <1>0, <1>3 DEF Request
  <2> QED
    BY <1>3, <2>1, RequestMoves
<1>4. ASSUME r.kind \in LateKinds
      PROVE  r.vol \in VolIds /\ r.vm \in VMs /\ r.kind \in late[r.vol]
  <2>1. r.vol \in VolIds /\ r.vm \in VMs
    BY <1>0, <1>4 DEF Request, LateKinds
  <2> QED
    BY <1>4, <2>1 DEF LateInv, KindsOf
<1>5. CASE r.kind = "unprotect" /\ Unprotects(r.vol, r.vm)
  <2>1. r.vol \in VolIds /\ LateUnprotected(r.vol)
    BY <1>4, <1>5 DEF LateUnprotected, LateKinds
  <2> QED
    BY <1>5, <2>1, SetIs DEF Moved, Unprotects
<1>6. CASE r.kind = "detach" /\ Detaches(r.vol, r.vm)
  <2>1. r.vol \in VolIds /\ LateTaken(r.vol)
    BY <1>4, <1>6 DEF LateTaken, LateKinds
  <2> QED
    BY <1>6, <2>1, SetIs DEF Moved, Detaches
<1> QED
  BY <1>1, <1>2, <1>3, <1>5, <1>6 DEF Late, GhostLands

LEMMA VolumesMove ==
  ASSUME TypeInv, LateInv, [Next]_vars
  PROVE  UNCHANGED vols \/ \E w \in VolIds : Moved(w)
<1>1. CASE \E c \in Calls : IssueSome(c) \/ Receive(c)
  BY <1>1 DEF IssueSome, IssueCreate, IssueDelete, IssuePublish, IssueUnpublish,
     Issue, Receive, ReceiveCreate, ReceiveDelete, ReceivePublish, ReceiveUnpublish
<1>2. CASE \E c \in Calls : Serves(c)
  BY <1>2, CallMoves
<1>3. CASE FaultStep \/ \E w \in VolIds : Progress(w)
  BY <1>3, CloudMoves DEF FaultStep, Fault, CallFails, Crash, Stops, Progress
<1>4. CASE \E r \in ghosts : Late(r)
  BY <1>4, LateMoves
<1>5. CASE UserStep \/ UNCHANGED vars
  BY <1>5 DEF UserStep, Release, Want, Unwant, vars
<1> QED
  BY <1>1, <1>2, <1>3, <1>4, <1>5, NextCases

LEMMA LateNext ==
  ASSUME LateInv, [Next]_vars
  PROVE  LateInv'
<1>1. CASE NotesLate
  BY <1>1 DEF NotesLate, LateInv
<1>2. CASE UNCHANGED vars
  BY <1>2 DEF LateInv, KindsOf, vars
<1> QED
  BY <1>1, <1>2, NextCases

(* Nothing is forgotten of a volume that is not at rest.                     *)
LEMMA LateStays ==
  ASSUME [Next]_vars, NEW v \in VolIds, ~AtRest(v)'
  PROVE  late[v] \subseteq late'[v] /\ (Undercut(v) => Undercut(v)')
<1>1. CASE NotesLate
  <2>1. late'[v] = KindsOf(ghosts', v) \cup late[v]
    BY <1>1 DEF NotesLate
  <2> QED
    BY <2>1 DEF Undercut
<1>2. CASE UNCHANGED vars
  BY <1>2 DEF Undercut, vars
<1> QED
  BY <1>1, <1>2, NextCases

(* The volume and the VM of an unpublish that touches a volume.              *)
LEMMA TouchedBy ==
  ASSUME TypeInv, NEW c \in Calls, NEW w \in VolIds, Serves(c),
         Unprotected(w, c) \/ Taken(w, c)
  PROVE  /\ calls[c].vm \in VMs /\ On(c, "unpublish", w, calls[c].vm)
         /\ Unprotected(w, c) => calls[c].pc = "unprotect" /\ calls'[c] # calls[c]
         /\ Taken(w, c) => calls[c].pc = "detach" /\ calls'[c] # calls[c]
                             /\ vols[w].vm = calls[c].vm
<1>0. calls \in [Calls -> Call] /\ calls[c] \in Call
  BY DEF TypeInv, TypeOK, CtrlTypeOK
<1>1. calls[c].vm \in VMs /\ On(c, "unpublish", w, calls[c].vm)
  BY DEF TypeInv, CallOK, Unprotected, Taken, UnpublishUnprotect, UnpublishDetach, At, On
<1>2. ASSUME Unprotected(w, c) PROVE calls[c].pc = "unprotect" /\ calls'[c] # calls[c]
  <2>1. calls[c].pc = "unprotect" /\ (Goto(c, "detach") \/ Reply(c, "Internal"))
    BY <1>2 DEF Unprotected, UnpublishUnprotect, At
  <2>2. Goto(c, "detach") => calls'[c].pc = "detach"
    BY <1>0 DEF Goto, Now, Call
  <2>3. Reply(c, "Internal") => calls'[c].pc = "replied"
    BY <1>0 DEF Reply, Now, Call
  <2> QED
    BY <2>1, <2>2, <2>3
<1>3. ASSUME Taken(w, c)
      PROVE  calls[c].pc = "detach" /\ calls'[c] # calls[c] /\ vols[w].vm = calls[c].vm
  <2>1. calls[c].pc = "detach" /\ (Reply(c, "OK") \/ Reply(c, "Internal"))
        /\ vols[w].vm = calls[c].vm
    BY <1>3 DEF Taken, UnpublishDetach, At, Detaches, Detachable
  <2>2. ASSUME NEW code, Reply(c, code) PROVE calls'[c].pc = "replied"
    BY <1>0, <2>2 DEF Reply, Now, Call
  <2> QED
    BY <2>1, <2>2
<1> QED
  BY <1>1, <1>2, <1>3

(* A volume in use stays as it is until it is detached: by a                 *)
(* ControllerUnpublishVolume for its own VM, whose VolumeAttachment leaves,  *)
(* or late.                                                                  *)
LEMMA InUseStays ==
  ASSUME AttachInv, LateInv, [Next]_vars, NEW v \in VolIds, vols[v].status = "in-use"
  PROVE  \/ /\ vols'[v].status = "in-use" /\ vols'[v].vm = vols[v].vm
            /\ vols[v].dev # NoDev => vols'[v].dev = vols[v].dev
         \/ /\ vols'[v].status = "detaching" /\ va[v][vols[v].vm] = "leaving"
            /\ \E c \in Calls : On(c, "unpublish", v, vols[v].vm) /\ calls'[c] # calls[c]
         \/ /\ vols'[v].status = "detaching" /\ "detach" \in late[v] /\ ~vols[v].protected
<1>0. TypeInv /\ vols[v] \in Volume
  BY DEF AttachInv, TypeInv, TypeOK, CtrlTypeOK, CloudTypeOK
<1>1. CASE UNCHANGED vols
  BY <1>1
<1>2. ASSUME NEW w \in VolIds, Moved(w), v # w PROVE vols'[v] = vols[v]
  BY <1>2 DEF Moved
<1>3. CASE AttachDone(v)
  BY <1>3 DEF AttachDone, Becomes
<1>4. CASE DeviceReady(v)
  <2>1. PICK d \in Devices : SetVolume(v, [vols[v] EXCEPT !.dev = d])
    BY <1>4 DEF DeviceReady
  <2>2. vols'[v] = [vols[v] EXCEPT !.dev = d]
    BY <1>0, <2>1, SetIs
  <2> QED
    BY <1>0, <1>4, <2>2 DEF DeviceReady, Volume
<1>5. ASSUME NEW c \in Calls, Serves(c), Unprotected(v, c)
      PROVE  vols'[v].status = "in-use" /\ vols'[v].vm = vols[v].vm /\ vols'[v].dev = vols[v].dev
  <2>1. vols'[v] = [vols[v] EXCEPT !.protected = FALSE]
    BY <1>0, <1>5, SetIs DEF Unprotected, Unprotects
  <2> QED
    BY <1>0, <2>1 DEF Volume
<1>6. ASSUME NEW c \in Calls, Serves(c), Taken(v, c)
      PROVE  /\ vols'[v].status = "detaching" /\ va[v][vols[v].vm] = "leaving"
             /\ On(c, "unpublish", v, vols[v].vm) /\ calls'[c] # calls[c]
  <2>1. /\ va[v][vols[v].vm] = "leaving" /\ On(c, "unpublish", v, vols[v].vm)
        /\ calls'[c] # calls[c]
    BY <1>0, <1>6, TouchedBy DEF AttachInv, AskedInv
  <2>2. vols'[v] = [vols[v] EXCEPT !.status = "detaching", !.dev = NoDev]
    BY <1>0, <1>6, SetIs DEF Taken, Detaches
  <2> QED
    BY <1>0, <2>1, <2>2 DEF Volume
<1>7. ASSUME LateUnprotected(v)
      PROVE  vols'[v].status = "in-use" /\ vols'[v].vm = vols[v].vm /\ vols'[v].dev = vols[v].dev
  <2>1. vols'[v] = [vols[v] EXCEPT !.protected = FALSE]
    BY <1>0, <1>7, SetIs DEF LateUnprotected, Unprotects
  <2> QED
    BY <1>0, <2>1 DEF Volume
<1>8. ASSUME LateTaken(v)
      PROVE  vols'[v].status = "detaching" /\ "detach" \in late[v] /\ ~vols[v].protected
  <2>1. /\ vols'[v] = [vols[v] EXCEPT !.status = "detaching", !.dev = NoDev]
        /\ "detach" \in late[v] /\ ~vols[v].protected
    BY <1>0, <1>8, SetIs DEF LateTaken, Detaches, Detachable
  <2> QED
    BY <1>0, <2>1 DEF Volume
<1> QED
  BY <1>0, <1>1, <1>2, <1>3, <1>4, <1>5, <1>6, <1>7, <1>8, VolumesMove DEF Moved, OutOfUse

-----------------------------------------------------------------------------
(* How the VolumeAttachments, their contexts and the history move.           *)

LEMMA Wanted ==
  ASSUME TypeInv, [Next]_vars, NEW v \in VolIds, NEW m \in VMs,
         va[v][m] = "none", va'[v][m] # "none"
  PROVE  /\ Exclusive => \A k \in VMs : va[v][k] = "none"
         /\ \A k \in VMs : k # m => va'[v][k] = va[v][k]
<1>0. va \in [VolIds -> [VMs -> {"none", "wanted", "attached", "leaving"}]]
  BY DEF TypeInv, TypeOK
<1>a. ASSUME NEW w \in VolIds, NEW k \in VMs, NEW s, va' = [va EXCEPT ![w][k] = s]
      PROVE  va'[v][m] = va[v][m] \/ (v = w /\ m = k)
  BY <1>0, <1>a
<1>1. CASE \E c \in Calls : IssueSome(c) \/ Serves(c)
  BY <1>1 DEF IssueSome, IssueCreate, IssueDelete, IssuePublish, IssueUnpublish, Issue, Serves
<1>2. ASSUME NEW c \in Calls, Receive(c) PROVE FALSE
  <2> DEFINE w == calls[c].vol
             k == calls[c].vm
  <2>1. ReceivePublish(c) \/ ReceiveUnpublish(c)
    BY <1>2 DEF Receive, ReceiveCreate, ReceiveDelete
  <2>2. w \in VolIds /\ k \in VMs
    BY <2>1 DEF ReceivePublish, ReceiveUnpublish, Answered, At, CallOK, TypeInv
  <2>3. CASE ReceivePublish(c)
    <3>1. va' = [va EXCEPT ![w][k] = "attached"] /\ va[w][k] # "none"
      BY <2>3 DEF ReceivePublish, Published
    <3> QED
      BY <1>a, <2>2, <3>1
  <2>4. CASE ReceiveUnpublish(c)
    <3>1. va' = [va EXCEPT ![w][k] = "none"] /\ va[w][k] = "leaving"
      BY <2>4 DEF ReceiveUnpublish
    <3> QED
      BY <1>a, <2>2, <3>1
  <2> QED
    BY <2>1, <2>3, <2>4
<1>3. CASE FaultStep \/ (\E w \in VolIds : Progress(w)) \/ (\E r \in ghosts : Late(r))
  BY <1>3 DEF FaultStep, Fault, Progress, Late
<1>4. CASE UserStep
  <2>1. ASSUME NEW w \in VolIds, NEW k \in VMs, Unwant(w, k) PROVE FALSE
    <3>1. va' = [va EXCEPT ![w][k] = "leaving"] /\ va[w][k] # "none"
      BY <2>1 DEF Unwant, Published
    <3> QED
      BY <1>a, <3>1
  <2>2. PICK w \in VolIds, k \in VMs : Want(w, k)
    BY <1>4, <2>1 DEF UserStep, Release
  <2>3. /\ va' = [va EXCEPT ![w][k] = "wanted"]
        /\ Exclusive => \A j \in VMs : va[w][j] = "none"
    BY <2>2 DEF Want, Unwanted
  <2>4. v = w /\ m = k
    BY <1>a, <2>3
  <2> QED
    BY <1>0, <2>3, <2>4
<1>5. CASE UNCHANGED vars
  BY <1>5 DEF vars
<1> QED
  BY <1>1, <1>2, <1>3, <1>4, <1>5, NextCases

LEMMA OneNodeNext ==
  ASSUME TypeInv, OneNodeInv, Exclusive, [Next]_vars
  PROVE  OneNodeInv'
<1> SUFFICES ASSUME NEW v \in VolIds, NEW m \in VMs, NEW k \in VMs,
                    va'[v][m] # "none", va'[v][k] # "none", m # k
             PROVE  FALSE
  BY DEF OneNodeInv
<1>1. CASE va[v][m] = "none"
  BY <1>1, Wanted
<1>2. CASE va[v][k] = "none"
  BY <1>2, Wanted
<1> QED
  BY <1>1, <1>2 DEF OneNodeInv

(* What was noted of a volume is not forgotten while a node has it.          *)
LEMMA EarlyStays ==
  ASSUME TypeInv, Exclusive, [Next]_vars, NEW v \in VolIds, NEW m \in VMs,
         va[v][m] # "none", early'[v] = {}
  PROVE  early[v] = {}
<1> SUFFICES ASSUME early[v] # {} PROVE FALSE
  OBVIOUS
<1>1. PICK k \in VMs : k \in early[v]
  BY DEF TypeInv, TypeOK
<1>2. va[v][k] = "none" /\ va'[v][k] # "none"
  BY <1>1, EarlyChanges
<1> QED
  BY <1>2, Wanted

LEMMA ExcuseStays ==
  ASSUME TypeInv, Exclusive, [Next]_vars, NEW v \in VolIds, NEW m \in VMs,
         va[v][m] # "none", va'[v][m] # "none", ~Excused(v)'
  PROVE  ~Excused(v)
<1>1. ~AtRest(v)'
  BY DEF AtRest, Unwanted
<1> QED
  BY <1>1, EarlyStays, LateStays DEF Excused

(* A device gets into a publish context by an answer.                        *)
Told(v, m) ==
  /\ \E c \in Calls : /\ On(c, "publish", v, m)
                      /\ calls[c].pc = "replied" /\ calls[c].code = "OK"
                      /\ calls'[c] = Idle /\ ctx'[v][m] = calls[c].dev
  /\ va[v][m] \in {"wanted", "attached"} /\ va'[v][m] = "attached"
  /\ UNCHANGED <<vols, early>>

LEMMA CtxChanges ==
  ASSUME TypeInv, [Next]_vars, NEW v \in VolIds, NEW m \in VMs, va'[v][m] = "attached"
  PROVE  Told(v, m) \/ (va[v][m] = "attached" /\ ctx'[v][m] = ctx[v][m])
<1>0. /\ va \in [VolIds -> [VMs -> {"none", "wanted", "attached", "leaving"}]]
      /\ ctx \in [VolIds -> [VMs -> Devices \cup {NoDev}]]
      /\ calls \in [Calls -> Call] /\ \A c \in Calls : CallOK(calls[c])
  BY DEF TypeInv, TypeOK, CtrlTypeOK
<1>a. UNCHANGED <<va, ctx>> => va[v][m] = "attached" /\ ctx'[v][m] = ctx[v][m]
  OBVIOUS
<1>1. CASE \E c \in Calls : IssueSome(c) \/ Serves(c)
  BY <1>1, <1>a DEF IssueSome, IssueCreate, IssueDelete, IssuePublish, IssueUnpublish, Issue,
     Serves
<1>2. ASSUME NEW c \in Calls, Receive(c)
      PROVE  Told(v, m) \/ (va[v][m] = "attached" /\ ctx'[v][m] = ctx[v][m])
  <2> DEFINE w == calls[c].vol
             k == calls[c].vm
  <2>1. CASE ReceivePublish(c)
    <3>1. w \in VolIds /\ k \in VMs /\ On(c, "publish", w, k) /\ calls[c].pc = "replied"
          /\ UNCHANGED <<vols, early>> /\ calls'[c] = Idle
      BY <1>0, <2>1 DEF ReceivePublish, Answered, At, CallOK, On, Now
    <3>2. CASE UNCHANGED <<va, ctx>>
      BY <1>a, <3>2
    <3>3. CASE ~UNCHANGED <<va, ctx>>
      <4>1. /\ va' = [va EXCEPT ![w][k] = "attached"] /\ ctx' = [ctx EXCEPT ![w][k] = calls[c].dev]
            /\ va[w][k] \in {"wanted", "attached"} /\ calls[c].code = "OK"
        BY <2>1, <3>3 DEF ReceivePublish, Published, Succeeds
      <4>2. CASE v = w /\ m = k
        BY <1>0, <3>1, <4>1, <4>2 DEF Told
      <4>3. CASE ~(v = w /\ m = k)
        BY <1>0, <3>1, <4>1, <4>3
      <4> QED
        BY <4>2, <4>3
    <3> QED
      BY <3>2, <3>3
  <2>2. CASE ReceiveUnpublish(c)
    <3>1. w \in VolIds /\ k \in VMs
      BY <1>0, <2>2 DEF ReceiveUnpublish, Answered, At, CallOK
    <3>2. CASE UNCHANGED <<va, ctx>>
      BY <1>a, <3>2
    <3>3. CASE ~UNCHANGED <<va, ctx>>
      <4>1. va' = [va EXCEPT ![w][k] = "none"] /\ ctx' = [ctx EXCEPT ![w][k] = NoDev]
        BY <2>2, <3>3 DEF ReceiveUnpublish
      <4>2. ~(v = w /\ m = k)
        BY <1>0, <3>1, <4>1
      <4> QED
        BY <1>0, <3>1, <4>1, <4>2
    <3> QED
      BY <3>2, <3>3
  <2> QED
    BY <1>2, <1>a, <2>1, <2>2 DEF Receive, ReceiveCreate, ReceiveDelete
<1>3. CASE FaultStep \/ (\E w \in VolIds : Progress(w)) \/ (\E r \in ghosts : Late(r))
  BY <1>3, <1>a DEF FaultStep, Fault, Progress, Late
<1>4. CASE UserStep
  <2>1. ASSUME NEW w \in VolIds, NEW k \in VMs, NEW s \in {"wanted", "leaving"},
               va' = [va EXCEPT ![w][k] = s]
        PROVE  va[v][m] = "attached"
    BY <1>0, <2>1
  <2> QED
    BY <1>4, <1>a, <2>1 DEF UserStep, Release, Want, Unwant
<1>5. CASE UNCHANGED vars
  BY <1>5, <1>a DEF vars
<1> QED
  BY <1>1, <1>2, <1>3, <1>4, <1>5, NextCases

LEMMA DevicesNext ==
  ASSUME TypeInv, LateInv, DevicesInv, [Next]_vars
  PROVE  DevicesInv'
<1>0. TypeInv'
  BY TypeNext
<1> SUFFICES ASSUME NEW v \in VolIds, NEW w \in VolIds, vols'[v].dev # NoDev,
                    vols'[v].vm = vols'[w].vm, vols'[v].dev = vols'[w].dev, v # w
             PROVE  FALSE
  BY DEF DevicesInv
<1>1. vols'[v].status = "in-use" /\ vols'[w].status = "in-use"
  BY <1>0 DEF TypeInv, VolumeOK
<1>2. vols' # vols
  BY DEF DevicesInv
<1>3. PICK x \in VolIds : Moved(x)
  BY <1>2, VolumesMove
<1>4. ~OutOfUse(x) \/ x \notin {v, w}
  BY <1>1 DEF OutOfUse
<1>5. CASE x \notin {v, w}
  BY <1>3, <1>5 DEF Moved, DevicesInv
<1> DEFINE y == IF x = v THEN w ELSE v
<1>6. ASSUME x \in {v, w}
      PROVE  /\ y \in VolIds /\ y # x /\ vols'[y] = vols[y]
             /\ vols'[x].dev = vols[y].dev /\ vols'[x].vm = vols[y].vm /\ vols[y].dev # NoDev
             /\ vols'[x].dev # NoDev
  BY <1>3, <1>6 DEF Moved
<1> HIDE DEF y
<1>7. vols[x] \in Volume /\ VolumeOK(vols[x])
  BY DEF TypeInv, TypeOK, CtrlTypeOK, CloudTypeOK
<1>8. ASSUME x \in {v, w}, AttachDone(x) PROVE FALSE
  <2>1. vols'[x] = [vols[x] EXCEPT !.status = "in-use"] /\ vols[x].status = "attaching"
    BY <1>8, SetIs DEF AttachDone, Becomes
  <2>2. vols'[x].dev = vols[x].dev /\ vols[x].dev = NoDev
    BY <1>7, <2>1 DEF Volume, VolumeOK
  <2> QED
    BY <1>6, <1>8, <2>2
<1>9. ASSUME x \in {v, w}, DeviceReady(x) PROVE FALSE
  <2>1. PICK d \in Devices : /\ \A u \in VolIds : vols[u].vm = vols[x].vm => vols[u].dev # d
                             /\ SetVolume(x, [vols[x] EXCEPT !.dev = d])
    BY <1>9 DEF DeviceReady
  <2>2. vols'[x] = [vols[x] EXCEPT !.dev = d]
    BY <2>1, SetIs
  <2>3. vols'[x].dev = d /\ vols'[x].vm = vols[x].vm
    BY <1>7, <2>2 DEF Volume
  <2> QED
    BY <1>6, <1>9, <2>1, <2>3
<1>10. ASSUME x \in {v, w}, NEW c \in Calls, Unprotected(x, c) PROVE FALSE
  <2>1. vols'[x] = [vols[x] EXCEPT !.protected = FALSE]
    BY <1>10, SetIs DEF Unprotected, Unprotects
  <2>2. vols'[x].dev = vols[x].dev /\ vols'[x].vm = vols[x].vm
    BY <1>7, <2>1 DEF Volume
  <2> QED
    BY <1>6, <1>10, <2>2 DEF DevicesInv
<1>11. ASSUME x \in {v, w}, NEW c \in Calls, Taken(x, c) PROVE FALSE
  <2>1. vols'[x] = [vols[x] EXCEPT !.status = "detaching", !.dev = NoDev]
    BY <1>11, SetIs DEF Taken, Detaches
  <2>2. vols'[x].dev = NoDev
    BY <1>7, <2>1 DEF Volume
  <2> QED
    BY <1>6, <1>11, <2>2
<1>12. ASSUME x \in {v, w}, LateUnprotected(x) PROVE FALSE
  <2>1. vols'[x] = [vols[x] EXCEPT !.protected = FALSE]
    BY <1>12, SetIs DEF LateUnprotected, Unprotects
  <2>2. vols'[x].dev = vols[x].dev /\ vols'[x].vm = vols[x].vm
    BY <1>7, <2>1 DEF Volume
  <2> QED
    BY <1>6, <1>12, <2>2 DEF DevicesInv
<1>13. ASSUME x \in {v, w}, LateTaken(x) PROVE FALSE
  <2>1. vols'[x] = [vols[x] EXCEPT !.status = "detaching", !.dev = NoDev]
    BY <1>13, SetIs DEF LateTaken, Detaches
  <2>2. vols'[x].dev = NoDev
    BY <1>7, <2>1 DEF Volume
  <2> QED
    BY <1>6, <1>13, <2>2
<1> QED
  BY <1>3, <1>4, <1>5, <1>8, <1>9, <1>10, <1>11, <1>12, <1>13 DEF Moved

-----------------------------------------------------------------------------
(* The invariant of the controller is kept.                                  *)

(* An attachment that nothing lets go is not detached.                       *)
LEMMA HeldStays ==
  ASSUME CtrlInv, [Next]_vars, NEW v \in VolIds, NEW m \in VMs,
         va[v][m] # "none", ~LetsDetach(v, m), ~Undercut(v),
         vols[v].status = "in-use", vols[v].vm = m,
         \A c \in Calls : On(c, "unpublish", v, m) => calls'[c] = calls[c]
  PROVE  /\ vols'[v].status = "in-use" /\ vols'[v].vm = m
         /\ vols[v].dev # NoDev => vols'[v].dev = vols[v].dev
<1>0. AttachInv /\ LateInv
  BY DEF CtrlInv
<1>1. ASSUME "detach" \in late[v], ~vols[v].protected PROVE FALSE
  <2>1. ~Bared(v)
    BY <1>1 DEF Bared, Undercut
  <2>2. PICK k \in VMs : LetsDetach(v, k)
    BY <1>1, <2>1 DEF CtrlInv, ProtectInv, OnItsWay
  <2>3. k = m
    BY <2>2 DEF CtrlInv, OneNodeInv, LetsDetach
  <2> QED
    BY <2>2, <2>3
<1> QED
  BY <1>0, <1>1, InUseStays

LEMMA CtxNext ==
  ASSUME CtrlInv, Tidy, [Next]_vars
  PROVE  CtxInv'
<1> SUFFICES ASSUME NEW v \in VolIds, NEW m \in VMs,
                    ~Excused(v)', va'[v][m] = "attached", ctx'[v][m] # NoDev
             PROVE  /\ vols'[v].status = "in-use" /\ vols'[v].vm = m
                    /\ vols'[v].dev = ctx'[v][m]
  BY DEF CtxInv, AttachedAt
<1>0. TypeInv /\ AttachInv
  BY DEF CtrlInv, AttachInv
<1>1. ASSUME va[v][m] # "none" PROVE ~Excused(v)
  BY <1>0, <1>1, ExcuseStays DEF Tidy
<1>2. CASE Told(v, m)
  <2>1. PICK c \in Calls : /\ On(c, "publish", v, m)
                           /\ calls[c].pc = "replied" /\ calls[c].code = "OK"
                           /\ ctx'[v][m] = calls[c].dev
    BY <1>2 DEF Told
  <2>2. ~Excused(v) /\ UNCHANGED vols
    BY <1>1, <1>2 DEF Told
  <2> QED
    BY <2>1, <2>2 DEF CtrlInv, AnswerInv, AttachedAt
<1>3. CASE va[v][m] = "attached" /\ ctx'[v][m] = ctx[v][m]
  <2>1. ~Excused(v) /\ AttachedAt(v, m, ctx[v][m])
    BY <1>1, <1>3 DEF CtrlInv, CtxInv
  <2>2. ~LetsDetach(v, m) /\ \A c \in Calls : ~On(c, "unpublish", v, m)
    BY <1>0, <1>3 DEF LetsDetach, AttachInv, AskedInv
  <2> QED
    BY <1>3, <2>1, <2>2, HeldStays DEF AttachedAt, Excused
<1> QED
  BY <1>0, <1>2, <1>3, CtxChanges

(* What a ControllerPublishVolume answers.                                   *)
LEMMA PublishAnswers ==
  ASSUME CtrlInv, NEW c \in Calls, NEW v \in VolIds, NEW m \in VMs, On(c, "publish", v, m),
         PublishLookup(c) \/ PublishGet(c) \/ PublishAttach(c)
  PROVE  /\ calls'[c].pc # "replied" => calls'[c].dev = NoDev
         /\ calls'[c].pc = "replied" /\ calls'[c].code = "OK" /\ ~Excused(v) =>
              /\ calls'[c].dev # NoDev =>
                   AttachedAt(v, m, calls'[c].dev) /\ UNCHANGED vols
              /\ va[v][m] = "attached" /\ ctx[v][m] # NoDev => calls'[c].dev = ctx[v][m]
<1>0. /\ TypeInv /\ calls \in [Calls -> Call] /\ calls[c] \in Call
      /\ calls[c].vol = v /\ calls[c].vm = m /\ calls[c].pc # "replied" /\ calls[c].dev = NoDev
      /\ VolumeOK(vols[v]) /\ va[v][m] # "none"
  BY DEF CtrlInv, AttachInv, AskedInv, TypeInv, TypeOK, CtrlTypeOK, On, PublishLookup, PublishGet,
     PublishAttach, At, AnswerInv
<1>1. ASSUME NEW code, Reply(c, code) PROVE calls'[c].dev = NoDev /\ calls'[c].code = code
  <2>1. calls'[c] = [calls[c] EXCEPT !.pc = "replied", !.code = code]
    BY <1>0, <1>1 DEF Reply, Now
  <2> QED
    BY <1>0, <2>1 DEF Call
<1>2. ASSUME NEW pc, Goto(c, pc), pc # "replied"
      PROVE  calls'[c].dev = NoDev /\ calls'[c].pc # "replied"
  <2>1. calls'[c] = [calls[c] EXCEPT !.pc = pc]
    BY <1>0, <1>2 DEF Goto, Now
  <2> QED
    BY <1>0, <1>2, <2>1 DEF Call
<1>3. ASSUME NEW d, ReplyDevice(c, d) PROVE calls'[c].dev = d /\ calls'[c].pc = "replied"
  <2>1. calls'[c] = [calls[c] EXCEPT !.pc = "replied", !.code = "OK", !.dev = d]
    BY <1>0, <1>3 DEF ReplyDevice, Now
  <2> QED
    BY <1>0, <2>1 DEF Call
<1>4. ASSUME ~Excused(v), AnswersDevice(v) PROVE vols[v].vm = m
  <2>1. vols[v].vm \in VMs /\ OnVM(v, vols[v].vm)
    BY <1>0, <1>4 DEF AnswersDevice, VolumeOK, OnVM, OnItsWay
  <2>2. va[v][vols[v].vm] # "none"
    BY <1>4, <2>1 DEF CtrlInv, AttachInv, DueInv, Due, Excused
  <2> QED
    BY <1>0, <2>1, <2>2 DEF CtrlInv, OneNodeInv
<1>5. ASSUME ~Excused(v), va[v][m] = "attached", ctx[v][m] # NoDev
      PROVE  AnswersDevice(v) /\ vols[v].dev = ctx[v][m] /\ vols[v].status # "available"
  <2>1. AttachedAt(v, m, ctx[v][m])
    BY <1>5 DEF CtrlInv, CtxInv
  <2> QED
    BY <1>5, <2>1 DEF AttachedAt, AnswersDevice, HasAttachment
<1>6. CASE PublishGet(c) /\ AnswersDevice(v) /\ ReplyDevice(c, vols[v].dev)
  <2>1. calls'[c].dev = vols[v].dev /\ calls'[c].pc = "replied" /\ UNCHANGED vols
    BY <1>3, <1>6 DEF PublishGet
  <2>2. ~Excused(v) => AttachedAt(v, m, calls'[c].dev)
    BY <1>4, <1>6, <2>1 DEF AttachedAt, AnswersDevice
  <2> QED
    BY <1>5, <2>1, <2>2
<1>7. CASE PublishGet(c) /\ Goto(c, "attach")
  BY <1>2, <1>7
<1>8. CASE PublishGet(c) /\ Reply(c, "NotFound")
  BY <1>1, <1>8
<1>9. CASE PublishGet(c) /\ ~AnswersDevice(v) /\ Reply(c, "OK")
  BY <1>1, <1>5, <1>9
<1>10. CASE PublishAttach(c) /\ Attaches(v, m) /\ Reply(c, "OK")
  BY <1>1, <1>5, <1>10 DEF Attaches, Attachable
<1>11. CASE PublishAttach(c) /\ Reply(c, "Internal")
  BY <1>1, <1>11
<1>12. CASE PublishLookup(c)
  BY <1>2, <1>12 DEF PublishLookup
<1> QED
  BY <1>0, <1>6, <1>7, <1>8, <1>9, <1>10, <1>11, <1>12 DEF PublishGet, PublishAttach

LEMMA AnswerNext ==
  ASSUME CtrlInv, Tidy, [Next]_vars
  PROVE  AnswerInv'
<1> SUFFICES ASSUME NEW c \in Calls, NEW v \in VolIds, NEW m \in VMs, On(c, "publish", v, m)'
             PROVE  /\ calls'[c].pc # "replied" => calls'[c].dev = NoDev
                    /\ calls'[c].pc = "replied" /\ calls'[c].code = "OK" /\ ~Excused(v)' =>
                         /\ calls'[c].dev # NoDev =>
                              vols'[v].status = "in-use" /\ vols'[v].vm = m
                                /\ vols'[v].dev = calls'[c].dev
                         /\ va'[v][m] = "attached" /\ ctx'[v][m] # NoDev
                              => calls'[c].dev = ctx'[v][m]
  BY DEF AnswerInv, AttachedAt
<1>0. TypeInv /\ AttachInv /\ calls \in [Calls -> Call]
  BY DEF CtrlInv, AttachInv, TypeInv, TypeOK, CtrlTypeOK
<1>v. AskedInv'
  BY AskedNext DEF CtrlInv, AttachInv, Tidy
<1>n. va'[v][m] # "none"
  BY <1>v DEF AskedInv, On
<1>1. CASE EntersAtt(c)
  <2>1. PICK w \in VolIds, k \in VMs : IssuePublish(c, w, k) \/ IssueUnpublish(c, w, k)
    BY <1>1 DEF EntersAtt
  <2>2. calls'[c] \in {PublishCall(w, k), UnpublishCall(w, k)}
    BY <1>0, <2>1 DEF IssuePublish, IssueUnpublish, Issue, Enter, Now
  <2> QED
    BY <2>2 DEF PublishCall, UnpublishCall, Idle
<1>2. CASE calls'[c] = calls[c]
  <2>1. On(c, "publish", v, m) /\ va[v][m] # "none"
    BY <1>2 DEF On, CtrlInv, AttachInv, AskedInv
  <2>2. ~Excused(v)' => ~Excused(v)
    BY <1>0, <1>n, <2>1, ExcuseStays DEF Tidy
  <2>3. ~Told(v, m)
    <3>1. ASSUME NEW d \in Calls, On(d, "publish", v, m), calls'[d] = Idle PROVE FALSE
      <4>1. c = d
        BY <2>1, <3>1 DEF CtrlInv, AttachInv, AloneInv, On, SameAtt, OfAtt
      <4> QED
        BY <1>2, <2>1, <3>1, <4>1 DEF On, Idle
    <3> QED
      BY <3>1 DEF Told
  <2>4. va'[v][m] = "attached" => va[v][m] = "attached" /\ ctx'[v][m] = ctx[v][m]
    BY <1>0, <2>3, CtxChanges
  <2>5. ASSUME ~Excused(v), NEW d \in Devices, AttachedAt(v, m, d)
        PROVE  vols'[v].status = "in-use" /\ vols'[v].vm = m /\ vols'[v].dev = d
    <3>1. vols[v].dev # NoDev
      BY <2>5, CloudAssumption DEF AttachedAt
    <3>2. ASSUME NEW d2 \in Calls, On(d2, "unpublish", v, m) PROVE FALSE
      BY <2>1, <3>2 DEF CtrlInv, AttachInv, AloneInv, On, SameAtt, OfAtt
    <3>3. ~LetsDetach(v, m)
      BY <2>1 DEF LetsDetach
    <3> QED
      BY <2>1, <2>5, <3>1, <3>2, <3>3, HeldStays DEF AttachedAt, Excused
  <2>6. calls[c].dev \in Devices \cup {NoDev}
    BY <1>0 DEF Call
  <2> QED
    BY <1>2, <2>1, <2>2, <2>4, <2>5, <2>6 DEF CtrlInv, AnswerInv
<1>3. CASE Works(c)
  <2>1. On(c, "publish", v, m) /\ UNCHANGED <<va, ghosts>> /\ CallStep(c) /\ NotesEarly(c)
    BY <1>0, <1>3, WorkAtt DEF On, OfAtt
  <2>2. PublishLookup(c) \/ PublishGet(c) \/ PublishAttach(c)
    BY <2>1 DEF On, CallStep, CreateList, CreatePost, CreatePoll, DeleteGet, DeleteSend,
       UnpublishGet, UnpublishAttachment, UnpublishUnprotect, UnpublishDetach, Panic,
       FindsNoAttachment, At
  <2>3. UNCHANGED ctx
    BY <1>3 DEF Works, Serves
  <2>4. ~Excused(v)' => ~Excused(v)
    BY <1>0, <1>n, <2>1, ExcuseStays DEF Tidy
  <2> QED
    BY <2>1, <2>2, <2>3, <2>4, PublishAnswers DEF AttachedAt
<1> QED
  BY <1>0, <1>1, <1>2, <1>3, AttMoves DEF On, OfAtt

(* What a ControllerUnpublishVolume goes on with, and answers.               *)
LEMMA UnpublishAnswers ==
  ASSUME TypeInv, NEW c \in Calls, NEW v \in VolIds, NEW m \in VMs, On(c, "unpublish", v, m),
         \/ UnpublishGet(c) \/ UnpublishAttachment(c)
         \/ UnpublishUnprotect(c) \/ UnpublishDetach(c)
  PROVE  /\ calls'[c].pc \in Touching =>
              /\ vols'[v].status = vols[v].status
              /\ calls[c].pc \in Touching \/ vols[v].status = "in-use"
         /\ calls'[c].pc = "replied" /\ calls'[c].code = "OK" => vols'[v].status # "in-use"
<1> USE DEF Touching
<1>0. /\ calls \in [Calls -> Call] /\ calls[c] \in Call
      /\ calls[c].vol = v /\ calls[c].vm = m /\ vols[v] \in Volume
  BY DEF TypeInv, TypeOK, CtrlTypeOK, CloudTypeOK, On
<1>1. ASSUME NEW code, Reply(c, code) PROVE calls'[c].pc = "replied" /\ calls'[c].code = code
  <2>1. calls'[c] = [calls[c] EXCEPT !.pc = "replied", !.code = code]
    BY <1>0, <1>1 DEF Reply, Now
  <2> QED
    BY <1>0, <2>1 DEF Call
<1>2. ASSUME NEW pc, Goto(c, pc) PROVE calls'[c].pc = pc
  BY <1>0, <1>2 DEF Goto, Now, Call
<1>3. ASSUME NEW a, Now(c, [calls[c] EXCEPT !.pc = "unprotect", !.att = a])
      PROVE  calls'[c].pc = "unprotect"
  BY <1>0, <1>3 DEF Now, Call
<1>4. CASE UnpublishGet(c)
  <2>1. UNCHANGED vols
    BY <1>4 DEF UnpublishGet
  <2>2. CASE ~Exists(v) /\ Reply(c, "NotFound")
    BY <1>1, <2>2
  <2>3. CASE UnpublishNeedsDetach(c) /\ Goto(c, "attachment")
    BY <1>0, <1>2, <2>1, <2>3 DEF UnpublishNeedsDetach
  <2>4. CASE ~UnpublishNeedsDetach(c) /\ Reply(c, "OK")
    BY <1>0, <1>1, <2>1, <2>4 DEF UnpublishNeedsDetach
  <2> QED
    BY <1>0, <1>4, <2>2, <2>3, <2>4 DEF UnpublishGet
<1>5. CASE UnpublishAttachment(c)
  <2>1. UNCHANGED vols /\ calls[c].pc = "attachment"
    BY <1>5 DEF UnpublishAttachment, At
  <2>2. CASE Reply(c, "Internal")
    BY <1>1, <2>2
  <2>3. CASE Now(c, [calls[c] EXCEPT !.pc = "unprotect", !.att = vols[v].vm])
    BY <1>3, <2>1, <2>3
  <2> QED
    BY <1>0, <1>5, <2>2, <2>3 DEF UnpublishAttachment
<1>6. CASE UnpublishUnprotect(c)
  <2>1. calls[c].pc = "unprotect"
    BY <1>6 DEF UnpublishUnprotect, At
  <2>2. CASE Unprotects(v, calls[c].att) /\ Goto(c, "detach")
    <3>1. vols'[v] = [vols[v] EXCEPT !.protected = FALSE]
      BY <2>2, SetIs DEF Unprotects
    <3>2. vols'[v].status = vols[v].status
      BY <1>0, <3>1 DEF Volume
    <3> QED
      BY <1>2, <2>1, <2>2, <3>2
  <2>3. CASE Reply(c, "Internal")
    BY <1>1, <2>3
  <2> QED
    BY <1>0, <1>6, <2>2, <2>3 DEF UnpublishUnprotect
<1>7. CASE UnpublishDetach(c)
  <2>1. CASE Detaches(v, m) /\ Reply(c, "OK")
    <3>1. vols'[v] = [vols[v] EXCEPT !.status = "detaching", !.dev = NoDev]
      BY <2>1, SetIs DEF Detaches
    <3>2. vols'[v].status = "detaching"
      BY <1>0, <3>1 DEF Volume
    <3> QED
      BY <1>1, <2>1, <3>2
  <2>2. CASE Reply(c, "Internal")
    BY <1>1, <2>2
  <2> QED
    BY <1>0, <1>7, <2>1, <2>2 DEF UnpublishDetach
<1> QED
  BY <1>4, <1>5, <1>6, <1>7

(* The step of a call that is an unpublish after it.                         *)
LEMMA UnpublishStep ==
  ASSUME TypeInv, NEW c \in Calls, NEW v \in VolIds, NEW m \in VMs, Works(c),
         On(c, "unpublish", v, m)'
  PROVE  /\ On(c, "unpublish", v, m)
         /\ \/ UnpublishGet(c) \/ UnpublishAttachment(c)
            \/ UnpublishUnprotect(c) \/ UnpublishDetach(c)
<1>1. On(c, "unpublish", v, m) /\ CallStep(c)
  BY WorkAtt DEF On, OfAtt
<1>2. ~Panic(c)
  BY DEF Panic, Stops, On, Idle
<1> QED
  BY <1>1, <1>2 DEF On, CallStep, CreateList, CreatePost, CreatePoll, DeleteGet, DeleteSend,
     PublishLookup, PublishGet, PublishAttach, At

(* What lets a detach through goes on doing so, as long as the volume is     *)
(* where it was.                                                             *)
LEMMA LetsDetachStays ==
  ASSUME CtrlInv, [Next]_vars, NEW v \in VolIds, NEW m \in VMs,
         LetsDetach(v, m), vols'[v].status = "in-use"
  PROVE  LetsDetach(v, m)'
<1>0. TypeInv
  BY DEF CtrlInv, AttachInv
<1>1. va'[v][m] = "leaving"
  <2>1. ~Acked(v, m)
    BY DEF Acked, At, Succeeds, LetsDetach, On
  <2> QED
    BY <1>0, <2>1, VaChanges DEF LetsDetach
<1> SUFFICES ASSUME NEW c \in Calls, NEW op \in OfAtt, On(c, op, v, m)'
             PROVE  op = "unpublish" /\ ~(calls'[c].pc = "replied" /\ calls'[c].code = "OK")
  BY <1>1 DEF LetsDetach, OfAtt, On
<1>2. CASE EntersAtt(c)
  BY <1>0, <1>2, EnterAtt DEF LetsDetach, On
<1>3. CASE calls'[c] = calls[c]
  BY <1>3 DEF LetsDetach, On, OfAtt
<1>4. CASE Works(c)
  <2>1. op = "unpublish"
    BY <1>0, <1>4, WorkAtt DEF LetsDetach, On, OfAtt
  <2> QED
    BY <1>0, <1>4, <2>1, UnpublishStep, UnpublishAnswers
<1> QED
  BY <1>0, <1>2, <1>3, <1>4, AttMoves DEF On

LEMMA ProtectNext ==
  ASSUME CtrlInv, Tidy, [Next]_vars
  PROVE  ProtectInv'
<1> SUFFICES ASSUME NEW v \in VolIds, OnItsWay(v)', ~vols'[v].protected
             PROVE  \/ Bared(v)'
                    \/ vols'[v].status = "in-use" /\ \E m \in VMs : LetsDetach(v, m)'
  BY DEF ProtectInv
<1>0. /\ TypeInv /\ LateInv /\ calls \in [Calls -> Call] /\ vols[v] \in Volume
      /\ vols'[v].status \in {"attaching", "in-use"}
  BY DEF CtrlInv, AttachInv, TypeInv, TypeOK, CtrlTypeOK, CloudTypeOK, OnItsWay
<1>a. ASSUME NEW s, vols'[v] = [vols[v] EXCEPT !.status = s]
      PROVE  vols'[v].status = s /\ vols'[v].protected = vols[v].protected
  BY <1>0, <1>a DEF Volume
<1>b. ASSUME NEW d, vols'[v] = [vols[v] EXCEPT !.dev = d]
      PROVE  vols'[v].status = vols[v].status /\ vols'[v].protected = vols[v].protected
  BY <1>0, <1>b DEF Volume
<1>c. ASSUME vols'[v] = [vols[v] EXCEPT !.protected = FALSE]
      PROVE  vols'[v].status = vols[v].status
  BY <1>0, <1>c DEF Volume
<1>d. vols'[v] # [vols[v] EXCEPT !.status = "detaching", !.dev = NoDev]
  <2>1. [vols[v] EXCEPT !.status = "detaching", !.dev = NoDev].status = "detaching"
    BY <1>0 DEF Volume
  <2> QED
    BY <1>0, <2>1
<1>e. ASSUME Bared(v) PROVE Bared(v)'
  BY <1>e, LateStays DEF Bared, AtRest
<1>1. CASE /\ ~vols[v].protected
           /\ \/ vols'[v].status = vols[v].status
              \/ vols[v].status = "attaching"
  <2>1. Bared(v) \/ (vols[v].status = "in-use" /\ \E m \in VMs : LetsDetach(v, m))
    BY <1>0, <1>1 DEF CtrlInv, ProtectInv, OnItsWay
  <2> QED
    BY <1>1, <1>e, <2>1, LetsDetachStays
<1>2. CASE vols'[v] = vols[v]
  BY <1>1, <1>2
<1>3. CASE OutOfUse(v)
  BY <1>0, <1>3 DEF OutOfUse
<1>4. CASE AttachDone(v)
  BY <1>0, <1>1, <1>4, <1>a, SetIs DEF AttachDone, Becomes
<1>5. CASE DeviceReady(v)
  BY <1>0, <1>1, <1>5, <1>b, SetIs DEF DeviceReady
<1>6. CASE LateUnprotected(v)
  BY <1>6, <1>e DEF LateUnprotected, Bared
<1>7. CASE LateTaken(v)
  BY <1>0, <1>7, <1>d, SetIs DEF LateTaken, Detaches
<1>8. ASSUME NEW c \in Calls, Serves(c), Taken(v, c) PROVE FALSE
  BY <1>0, <1>8, <1>d, SetIs DEF Taken, Detaches
<1>9. ASSUME NEW c \in Calls, Serves(c), Unprotected(v, c)
      PROVE  \/ Bared(v)'
             \/ vols'[v].status = "in-use" /\ \E m \in VMs : LetsDetach(v, m)'
  <2>1. PICK m \in VMs : On(c, "unpublish", v, m) /\ calls[c].pc = "unprotect"
    BY <1>0, <1>9, TouchedBy
  <2>2. /\ vols'[v].status = vols[v].status /\ UNCHANGED va
        /\ calls' = [calls EXCEPT ![c] = [calls[c] EXCEPT !.pc = "detach"]]
    BY <1>0, <1>9, <1>c, SetIs DEF Unprotected, Unprotects, UnpublishUnprotect, Goto, Now, Serves
  <2>3. CASE vols[v].status = "in-use"
    <3>1. va[v][m] = "leaving"
      BY <2>1 DEF CtrlInv, AttachInv, AskedInv
    <3>2. ASSUME NEW d \in Calls, d # c, NEW op \in OfAtt PROVE ~On(d, op, v, m)'
      <4>1. ~On(d, op, v, m)
        BY <2>1, <3>2 DEF CtrlInv, AttachInv, AloneInv, On, SameAtt, OfAtt
      <4> QED
        BY <1>0, <2>2, <3>2, <4>1 DEF On
    <3>3. calls'[c].pc = "detach" /\ calls'[c].op = "unpublish"
      <4>1. calls[c] \in Call /\ calls[c].op = "unpublish"
        BY <1>0, <2>1 DEF On
      <4> QED
        BY <1>0, <2>2, <4>1 DEF Call
    <3>4. \A d \in Calls : /\ ~On(d, "publish", v, m)'
                           /\ ~(On(d, "unpublish", v, m)' /\ calls'[d].pc = "replied")
      BY <3>2, <3>3 DEF OfAtt, On
    <3>5. LetsDetach(v, m)'
      BY <2>2, <3>1, <3>4 DEF LetsDetach, On
    <3> QED
      BY <2>1, <2>2, <2>3, <3>5
  <2>4. CASE vols[v].status = "attaching"
    <3>1. Undercut(v)
      BY <2>1, <2>4 DEF CtrlInv, TouchInv, Touching, Undercut
    <3> QED
      BY <1>e, <3>1 DEF Bared
  <2> QED
    BY <1>0, <2>2, <2>3, <2>4
<1> QED
  BY <1>0, <1>2, <1>3, <1>4, <1>5, <1>6, <1>7, <1>8, <1>9, VolumesMove DEF Moved

LEMMA TouchNext ==
  ASSUME CtrlInv, Tidy, [Next]_vars
  PROVE  TouchInv'
<1> SUFFICES ASSUME NEW c \in Calls, NEW v \in VolIds, NEW m \in VMs,
                    On(c, "unpublish", v, m)', calls'[c].pc \in Touching
             PROVE  \/ vols'[v].status = "in-use"
                    \/ /\ "detach" \in late'[v]
                       /\ vols'[v].status = "attaching" => "attach" \in late'[v]
  BY DEF TouchInv
<1>0. TypeInv /\ AttachInv /\ LateInv
  BY DEF CtrlInv, AttachInv
<1>1. late[v] \subseteq late'[v]
  <2>1. AskedInv'
    BY AskedNext DEF CtrlInv, AttachInv, Tidy
  <2>2. ~AtRest(v)'
    BY <2>1 DEF AskedInv, On, AtRest, Unwanted
  <2> QED
    BY <2>2, LateStays
<1>2. CASE EntersAtt(c)
  BY <1>0, <1>2, EnterAtt DEF Touching
<1>3. CASE calls'[c] = calls[c]
  <2>1. On(c, "unpublish", v, m) /\ va[v][m] = "leaving" /\ calls[c].pc \in Touching
    BY <1>3 DEF On, CtrlInv, AttachInv, AskedInv
  <2>2. ASSUME NEW d \in Calls, NEW op \in OfAtt, NEW k \in VMs, On(d, op, v, k),
               d # c
        PROVE  FALSE
    <3>1. va[v][k] # "none"
      BY <2>2 DEF CtrlInv, AttachInv, AskedInv, OfAtt
    <3>2. k = m
      BY <2>1, <3>1 DEF CtrlInv, OneNodeInv
    <3> QED
      BY <2>1, <2>2, <3>2 DEF CtrlInv, AttachInv, AloneInv, On, SameAtt, OfAtt
  <2>3. CASE vols[v].status = "in-use"
    <3>1. vols[v].vm \in VMs
      BY <1>0, <2>3 DEF TypeInv, VolumeOK
    <3> QED
      BY <1>0, <1>1, <1>3, <2>2, <2>3, <3>1, InUseStays DEF OfAtt
  <2>4. CASE vols[v].status # "in-use"
    <3>1. "detach" \in late[v] /\ (vols[v].status = "attaching" => "attach" \in late[v])
      BY <2>1, <2>4 DEF CtrlInv, TouchInv
    <3>2. ASSUME vols'[v].status = "attaching", vols[v].status # "attaching"
          PROVE  "attach" \in late[v]
      <4>1. PICK k \in VMs : k = vols'[v].vm
        BY <1>0, <3>2, TypeNext DEF TypeInv, VolumeOK
      <4>2. OnVM(v, k)' /\ ~OnVM(v, k)
        BY <2>4, <3>2, <4>1 DEF OnVM, OnItsWay
      <4>3. Sent(v, k) \/ Landed(v, k)
        BY <1>0, <4>2, Arrivals
      <4>4. ~Sent(v, k)
        <5> SUFFICES ASSUME NEW d \in Calls, On(d, "publish", v, k) PROVE FALSE
          BY DEF Sent
        <5>1. d # c
          BY <2>1 DEF On
        <5> QED
          BY <2>2, <5>1 DEF OfAtt
      <4>5. Attach(v, k) \in ghosts
        BY <4>3, <4>4 DEF Landed
      <4> QED
        BY <1>0, <4>5 DEF LateInv, KindsOf, Attach, LateKinds
    <3> QED
      BY <1>1, <3>1, <3>2
  <2> QED
    BY <2>3, <2>4
<1>4. CASE Works(c)
  <2>1. /\ On(c, "unpublish", v, m) /\ vols'[v].status = vols[v].status
        /\ calls[c].pc \in Touching \/ vols[v].status = "in-use"
    BY <1>0, <1>4, UnpublishStep, UnpublishAnswers
  <2> QED
    BY <1>1, <2>1 DEF CtrlInv, TouchInv
<1> QED
  BY <1>0, <1>2, <1>3, <1>4, AttMoves DEF On, OfAtt

LEMMA CtrlNext == Tidy /\ CtrlInv /\ [Next]_vars => CtrlInv'
<1> SUFFICES ASSUME Tidy, CtrlInv, [Next]_vars PROVE CtrlInv'
  OBVIOUS
<1>1. TypeInv /\ AttachInv /\ LateInv /\ OneNodeInv /\ DevicesInv
  BY DEF CtrlInv, AttachInv
<1>2. AttachInv' /\ LateInv' /\ OneNodeInv' /\ DevicesInv'
  BY <1>1, AttachNext, LateNext, OneNodeNext, DevicesNext DEF Tidy
<1> QED
  BY <1>2, CtxNext, AnswerNext, ProtectNext, TouchNext DEF CtrlInv

(* No volume is attached, wanted or asked for.                               *)
Still ==
  /\ ghosts = {} /\ calls = [c \in Calls |-> Idle]
  /\ va = [v \in VolIds |-> [m \in VMs |-> "none"]]
  /\ \A v \in VolIds : vols[v].status \notin {"attaching", "in-use"}

LEMMA CtrlStill ==
  ASSUME TypeInv, Still
  PROVE  CtrlInv
<1>1. \A c \in Calls : calls[c].op = "none"
  BY DEF Still, Idle
<1>2. \A v \in VolIds : ~OnItsWay(v) /\ vols[v].dev = NoDev
  BY DEF Still, OnItsWay, TypeInv, VolumeOK
<1>3. \A v \in VolIds, m \in VMs : va[v][m] = "none"
  BY DEF Still
<1>4. ghosts = {} /\ LateInv
  BY DEF Still, LateInv, KindsOf
<1>5. AttachInv
  BY <1>1, <1>2, <1>4 DEF AttachInv, AloneInv, AskedInv, DueInv, NotedInv, Due, OnVM, On, OfAtt
<1>6. OneNodeInv /\ DevicesInv /\ CtxInv
  BY <1>2, <1>3 DEF OneNodeInv, DevicesInv, CtxInv
<1>7. AnswerInv /\ ProtectInv /\ TouchInv
  BY <1>1, <1>2 DEF AnswerInv, ProtectInv, TouchInv, On
<1> QED
  BY <1>4, <1>5, <1>6, <1>7 DEF CtrlInv

LEMMA CtrlInitial == Init => CtrlInv
<1> SUFFICES ASSUME Init PROVE CtrlInv
  OBVIOUS
<1>1. TypeInv
  BY TypeInit
<1>2. Still
  BY DEF Init, CtrlInit, CloudInit, Absent, Still
<1> QED
  BY <1>1, <1>2, CtrlStill

-----------------------------------------------------------------------------
(* The theorems about the controller and its orchestrator. What they assume  *)
(* is Tidy; calls fail, and are lost with their answers, as often as they    *)
(* like, and their requests may land at any time after.                      *)

LEMMA Bare ==
  ASSUME CtrlInv, NEW v \in VolIds, vols[v].status = "in-use", ~vols[v].protected, early[v] = {}
  PROVE  va[v][vols[v].vm] = "leaving" \/ Bared(v)
<1> SUFFICES ASSUME ~Bared(v) PROVE va[v][vols[v].vm] = "leaving"
  OBVIOUS
<1>1. PICK m \in VMs : va[v][m] = "leaving"
  BY DEF CtrlInv, ProtectInv, OnItsWay, LetsDetach
<1>2. vols[v].vm \in VMs /\ OnVM(v, vols[v].vm)
  BY DEF CtrlInv, AttachInv, TypeInv, VolumeOK, OnVM, OnItsWay
<1>3. va[v][vols[v].vm] # "none"
  BY <1>2 DEF CtrlInv, AttachInv, DueInv, Due
<1> QED
  BY <1>1, <1>2, <1>3 DEF CtrlInv, OneNodeInv

LEMMA CtrlHolds == CtrlInv => ContextIsAttachment /\ UnprotectedOnlyWhenLeaving
<1>1. CtrlInv => ContextIsAttachment
  BY DEF CtrlInv, CtxInv, AttachedAt, ContextIsAttachment
<1>2. CtrlInv => UnprotectedOnlyWhenLeaving
  BY Bare DEF UnprotectedOnlyWhenLeaving, Bared, Excused
<1> QED
  BY <1>1, <1>2

(* The device a node was told is the device the volume has on that node,     *)
(* unless the volume is excused.                                             *)
THEOREM ContextHeld == Tidy => (Spec => []ContextIsAttachment)
<1> SUFFICES ASSUME Tidy PROVE Spec => []ContextIsAttachment
  OBVIOUS
<1> QED
  BY CtrlHolds, CtrlInitial, CtrlNext, PTL DEF Spec

(* An attachment in use has lost its protection only when its own VM is      *)
(* being unpublished, or to a late unprotect, with the same exception.       *)
THEOREM ProtectionHeld == Tidy => (Spec => []UnprotectedOnlyWhenLeaving)
<1> SUFFICES ASSUME Tidy PROVE Spec => []UnprotectedOnlyWhenLeaving
  OBVIOUS
<1> QED
  BY CtrlHolds, CtrlInitial, CtrlNext, PTL DEF Spec

LEMMA DetachStep ==
  ASSUME CtrlInv, [Next]_vars, NEW v \in VolIds,
         vols[v].status = "in-use", vols'[v].status # "in-use"
  PROVE  va[v][vols[v].vm] = "leaving" \/ ("detach" \in late[v] /\ Excused(v))
<1> SUFFICES ASSUME va[v][vols[v].vm] # "leaving"
             PROVE  "detach" \in late[v] /\ Excused(v)
  OBVIOUS
<1>1. "detach" \in late[v] /\ ~vols[v].protected
  BY InUseStays DEF CtrlInv
<1>2. early[v] # {} \/ Bared(v)
  BY <1>1, Bare
<1> QED
  BY <1>1, <1>2 DEF Bared, Excused, Undercut

(* A volume in use is detached only from a VM that is being unpublished:     *)
(* neither a stale call nor one for another node takes it away, nor does a   *)
(* late detach that nothing else helps.                                      *)
THEOREM DetachesLeaving == Tidy => (Spec => DetachOnlyWhenLeaving)
<1> SUFFICES ASSUME Tidy PROVE Spec => DetachOnlyWhenLeaving
  OBVIOUS
<1>1. CtrlInv /\ [Next]_vars =>
        [\A v \in VolIds :
           vols[v].status = "in-use" /\ vols'[v].status # "in-use"
             => \/ va[v][vols[v].vm] = "leaving"
                \/ "detach" \in late[v] /\ Excused(v)]_vars
  BY DetachStep
<1> QED
  BY <1>1, CtrlInitial, CtrlNext, PTL DEF Spec, DetachOnlyWhenLeaving

-----------------------------------------------------------------------------
(* The nodes.                                                                *)

LEMMA StackInitial == StackInit => StackInv
<1> SUFFICES ASSUME StackInit PROVE StackInv
  OBVIOUS
<1> USE DEF OnNodes
<1>1. PICK own \in [Names -> VolIds] :
        /\ claim = [n \in Names |-> [phase |-> "bound", vol |-> own[n], bytes |-> GiB]]
        /\ vols = [v \in VolIds |->
             IF {n \in Names : own[n] = v} = {} THEN Absent
             ELSE [NewVolume(CHOOSE n \in {k \in Names : own[k] = v} : TRUE, 1)
                     EXCEPT !.status = "available"]]
  BY DEF StackInit
<1>2. ASSUME NEW v \in VolIds
      PROVE  /\ vols[v] \in Volume /\ VolumeOK(vols[v])
             /\ vols[v].status \in {"absent", "available"}
  <2>1. CASE {n \in Names : own[n] = v} = {}
    <3>1. vols[v] = Absent
      BY <1>1, <2>1
    <3>2. Absent \in Volume /\ VolumeOK(Absent) /\ Absent.status = "absent"
      BY DEF Absent, Volume, VolumeOK, Statuses
    <3> QED
      BY <3>1, <3>2
  <2>2. CASE {n \in Names : own[n] = v} # {}
    <3>1. PICK k : k = CHOOSE n \in {n \in Names : own[n] = v} : TRUE
      OBVIOUS
    <3>2. k \in Names
      BY <2>2, <3>1
    <3>3. vols[v] = [NewVolume(k, 1) EXCEPT !.status = "available"]
      BY <1>1, <2>2, <3>1
    <3>4. vols[v] = [name |-> k, size |-> 1, status |-> "available",
                     vm |-> NoVM, dev |-> NoDev, protected |-> FALSE]
      BY <3>3 DEF NewVolume, Absent
    <3> QED
      BY <3>2, <3>4 DEF Volume, VolumeOK, Statuses, Live
  <2> QED
    BY <2>1, <2>2
<1>3. vols \in [VolIds -> Volume]
  BY <1>1, <1>2
<1>4. \A n \in Names : claim[n] \in Claim /\ ClaimOK(claim[n])
  BY <1>1, StackAssumption DEF Claim, Phases, ClaimOK
<1>5. claim \in [Names -> Claim]
  BY <1>1, <1>4
<1>6. /\ calls = [c \in Calls |-> Idle] /\ Idle \in Call /\ CallOK(Idle)
      /\ ghosts = {} /\ raced = {} /\ faults \in 0 .. MaxFaults
  BY LifecycleAssumption, ControllerAssumption
       DEF StackInit, Idle, Call, CallOK, Ops, Pcs, Codes
<1>a. /\ va = [v \in VolIds |-> [m \in VMs |-> "none"]]
      /\ ctx = [v \in VolIds |-> [m \in VMs |-> NoDev]]
      /\ early = [v \in VolIds |-> {}] /\ late = [v \in VolIds |-> {}]
      /\ disk = [v \in VolIds |-> "written"]
      /\ staged = [v \in VolIds |-> [m \in VMs |-> {}]]
      /\ stages = [s \in Stages |-> NoStage]
      /\ put = [v \in VolIds |-> [m \in VMs |-> "no"]]
      /\ leftover = [v \in VolIds |-> {}]
  BY DEF StackInit
<1>7. TypeOK
  BY <1>3, <1>5, <1>6, <1>a DEF TypeOK, CtrlTypeOK, CloudTypeOK
<1>8. TypeInv
  BY <1>2, <1>4, <1>6, <1>7 DEF TypeInv
<1>9. Still
  BY <1>2, <1>6, <1>a DEF Still
<1>10. StackTypeOK
  BY <1>7, <1>a DEF StackTypeOK, Stage
<1>11. \A v \in VolIds, m \in VMs : ~Busy(v, m) /\ staged[v][m] = {} /\ leftover[v] = {}
  BY <1>a, ControllerAssumption DEF Busy, StagesOf, NoStage
<1>12. HeldInv /\ OwnInv /\ MountInv
  BY <1>11 DEF HeldInv, OwnInv, MountInv
<1> QED
  BY <1>8, <1>9, <1>10, <1>12, CtrlStill DEF StackInv

LEMMA ControlIsNext == Noted(ControlStep) => Next
  BY DEF ControlStep, Next, Noted, Step, LetGo

(* A node step leaves the controller alone: at most, it counts as a fault.   *)
CtrlSame ==
  UNCHANGED <<vols, ghosts, calls, claim, va, ctx, early, late, raced>>
    /\ faults' \in 0 .. MaxFaults

LEMMA NodeIsApart == ASSUME TypeInv, NodeStep PROVE CtrlSame
<1>1. CASE \E s \in Stages : GivenUp(s)
  BY <1>1, LifecycleAssumption DEF GivenUp, Fault, CtrlSame, TypeInv, TypeOK
<1>2. CASE UNCHANGED vars
  BY <1>2 DEF vars, CtrlSame, TypeInv, TypeOK
<1> QED
  BY <1>1, <1>2 DEF NodeStep, StageBegin, StageFormat, StageMount, Write, Unstage

LEMMA TypeApart == ASSUME TypeInv, CtrlSame PROVE TypeInv'
  BY DEF CtrlSame, TypeInv, TypeOK, CtrlTypeOK, CloudTypeOK

LEMMA AttachApart == ASSUME AttachInv, CtrlSame PROVE AttachInv'
<1>1. TypeInv'
  BY TypeApart DEF AttachInv
<1>2. AloneInv' /\ AskedInv'
  BY DEF CtrlSame, AttachInv, AloneInv, AskedInv, SameAtt, On
<1>3. DueInv' /\ NotedInv'
  BY DEF CtrlSame, AttachInv, DueInv, NotedInv, Due, OnVM, OnItsWay, On
<1> QED
  BY <1>1, <1>2, <1>3 DEF AttachInv

LEMMA CtrlApart == ASSUME CtrlInv, CtrlSame PROVE CtrlInv'
<1> USE DEF CtrlSame
<1>1. AttachInv'
  BY AttachApart DEF CtrlInv
<1>2. LateInv' /\ OneNodeInv' /\ DevicesInv'
  BY DEF CtrlInv, LateInv, KindsOf, OneNodeInv, DevicesInv
<1>3. CtxInv' /\ AnswerInv'
  BY DEF CtrlInv, CtxInv, AnswerInv, AttachedAt, Excused, Undercut, On
<1>4. ProtectInv' /\ TouchInv'
  BY DEF CtrlInv, ProtectInv, TouchInv, Bared, LetsDetach, Undercut, OnItsWay, On
<1> QED
  BY <1>1, <1>2, <1>3, <1>4 DEF CtrlInv

LEMMA StackMoves == ASSUME TypeInv, [StackNext]_allVars PROVE [Next]_vars \/ CtrlSame
<1>1. CASE UNCHANGED allVars
  BY <1>1 DEF allVars
<1> QED
  BY <1>1, ControlIsNext, NodeIsApart DEF StackNext

-----------------------------------------------------------------------------
(* What a node does: it works on one volume, on one node.                    *)

LEMMA StageIs ==
  ASSUME StackTypeOK, NEW s \in Stages, ~StageAt(s, "idle")
  PROVE  /\ stages[s] \in Stage /\ stages[s] # NoStage
         /\ stages[s].vol \in VolIds /\ stages[s].vm \in VMs /\ stages[s].dev \in Devices
         /\ s \in StagesOf(stages[s].vol, stages[s].vm)
         /\ Busy(stages[s].vol, stages[s].vm)
<1>1. stages[s] \in Stage /\ stages[s] # NoStage
  BY DEF StackTypeOK, StageAt, NoStage
<1>2. stages[s].vol \in VolIds /\ stages[s].vm \in VMs /\ stages[s].dev \in Devices
  BY <1>1 DEF Stage
<1> QED
  BY <1>1, <1>2 DEF StagesOf, Busy

LEMMA StagesAre ==
  ASSUME StackTypeOK, NEW v \in VolIds, NEW m \in VMs, NEW s \in StagesOf(v, m)
  PROVE  s \in Stages /\ stages[s] # NoStage /\ ~StageAt(s, "idle") /\ stages[s].dev \in Devices
<1>1. s \in Stages /\ stages[s] \in Stage /\ stages[s].vol = v
  BY DEF StagesOf, StackTypeOK
<1>2. stages[s] # NoStage
  BY <1>1, ControllerAssumption DEF NoStage
<1> QED
  BY <1>1, <1>2 DEF Stage, StageAt

(* The volumes that the stages under way of a volume on a node may reach.    *)
Reach(v, m) == UNION {Behind(m, stages[s].dev) : s \in StagesOf(v, m)}
OfPlace(stage, v, m) == stage = NoStage \/ (stage.vol = v /\ stage.vm = m)

NodeMoves(v, m) ==
  /\ \A s \in Stages :
       \/ stages'[s] = stages[s]
       \/ OfPlace(stages[s], v, m) /\ OfPlace(stages'[s], v, m)
  /\ \A w \in VolIds, k \in VMs : w # v \/ k # m => staged'[w][k] = staged[w][k]
  /\ \A s \in StagesOf(v, m)' :
       \/ s \in StagesOf(v, m) /\ stages'[s].dev = stages[s].dev
       \/ va[v][m] = "attached" /\ ctx[v][m] # NoDev /\ stages'[s].dev = ctx[v][m]
  /\ staged'[v][m] \subseteq staged[v][m] \cup Reach(v, m)
  /\ staged'[v][m] # {} => Busy(v, m)
  /\ \/ UNCHANGED disk
     \/ /\ Busy(v, m) /\ Busy(v, m)'
        /\ \E w \in staged[v][m] \cup Reach(v, m), x \in {"empty", "written"} :
             disk' = [disk EXCEPT ![w] = x]

LEMMA NodeWorks ==
  ASSUME StackTypeOK, NodeStep
  PROVE  \E v \in VolIds, m \in VMs : NodeMoves(v, m)
<1>0. /\ stages \in [Stages -> Stage] /\ staged \in [VolIds -> [VMs -> SUBSET VolIds]]
      /\ NoStage \in Stage
  BY DEF StackTypeOK, Stage
<1>a. ASSUME NEW s \in Stages, NEW x, SetStage(s, x)
      PROVE  stages'[s] = x /\ \A t \in Stages : t # s => stages'[t] = stages[t]
  BY <1>0, <1>a DEF SetStage
<1>b. ASSUME NEW v \in VolIds, NEW m \in VMs, NEW x, staged' = [staged EXCEPT ![v][m] = x]
      PROVE  /\ staged'[v][m] = x
             /\ \A w \in VolIds, k \in VMs : w # v \/ k # m => staged'[w][k] = staged[w][k]
  BY <1>0, <1>b
<1>c. ASSUME NEW s \in Stages, NEW known, Answers(s, known) PROVE SetStage(s, NoStage)
  BY <1>c DEF Answers
<1>1. ASSUME NEW s \in Stages, NEW v \in VolIds, NEW m \in VMs, StageBegin(s, v, m)
      PROVE  NodeMoves(v, m)
  <2> DEFINE x == [pc |-> "mkfs", vol |-> v, vm |-> m, dev |-> ctx[v][m], late |-> FALSE]
  <2>1. /\ va[v][m] = "attached" /\ ctx[v][m] # NoDev /\ StageAt(s, "idle")
        /\ SetStage(s, x) /\ UNCHANGED <<staged, disk>>
    BY <1>1 DEF StageBegin
  <2>2. x.vol = v /\ x.vm = m /\ x.dev = ctx[v][m]
    OBVIOUS
  <2>3. stages[s] = NoStage
    BY <1>0, <2>1 DEF Stage, StageAt
  <2> HIDE DEF x
  <2>4. stages'[s] = x /\ \A t \in Stages : t # s => stages'[t] = stages[t]
    BY <1>a, <2>1
  <2> QED
    BY <2>1, <2>2, <2>3, <2>4 DEF NodeMoves, OfPlace, StagesOf, Busy
<1>2. ASSUME NEW s \in Stages, NEW v \in VolIds, NEW m \in VMs,
             stages[s].vol = v, stages[s].vm = m, StageFormat(s)
      PROVE  NodeMoves(v, m)
  <2> DEFINE x == [stages[s] EXCEPT !.pc = "mount"]
  <2>0. ~StageAt(s, "idle") /\ UNCHANGED staged
    BY <1>2 DEF StageFormat, StageAt
  <2>1. stages[s] \in Stage /\ stages[s] # NoStage /\ s \in StagesOf(v, m) /\ Busy(v, m)
    BY <1>2, <2>0, StageIs
  <2>2. CASE SetStage(s, NoStage) /\ UNCHANGED disk
    <3>1. stages'[s] = NoStage /\ \A t \in Stages : t # s => stages'[t] = stages[t]
      BY <1>a, <2>2
    <3>2. s \notin StagesOf(v, m)'
      BY <3>1, ControllerAssumption DEF StagesOf, NoStage
    <3> QED
      BY <1>2, <2>0, <2>1, <2>2, <3>1, <3>2 DEF NodeMoves, OfPlace, StagesOf
  <2>3. ASSUME NEW w \in Behind(m, stages[s].dev), disk' = [disk EXCEPT ![w] = "empty"],
               SetStage(s, x)
        PROVE  NodeMoves(v, m)
    <3>1. x.vol = v /\ x.vm = m /\ x.dev = stages[s].dev
      BY <1>2, <2>1 DEF Stage
    <3> HIDE DEF x
    <3>2. stages'[s] = x /\ \A t \in Stages : t # s => stages'[t] = stages[t]
      BY <1>a, <2>3
    <3>3. w \in Reach(v, m)
      BY <2>1, <2>3 DEF Reach
    <3>4. Busy(v, m)'
      BY <3>1, <3>2 DEF Busy, StagesOf
    <3> QED
      BY <1>2, <2>0, <2>1, <2>3, <3>1, <3>2, <3>3, <3>4 DEF NodeMoves, OfPlace, StagesOf
  <2> QED
    BY <1>2, <1>c, <2>2, <2>3 DEF StageFormat
<1>3. ASSUME NEW s \in Stages, NEW v \in VolIds, NEW m \in VMs,
             stages[s].vol = v, stages[s].vm = m, StageMount(s)
      PROVE  NodeMoves(v, m)
  <2>0. ~StageAt(s, "idle") /\ UNCHANGED disk
    BY <1>3 DEF StageMount, StageAt
  <2>1. stages[s] \in Stage /\ stages[s] # NoStage /\ s \in StagesOf(v, m) /\ Busy(v, m)
    BY <1>3, <2>0, StageIs
  <2>2. SetStage(s, NoStage)
    BY <1>3, <1>c DEF StageMount
  <2>3. stages'[s] = NoStage /\ \A t \in Stages : t # s => stages'[t] = stages[t]
    BY <1>a, <2>2
  <2>4. s \notin StagesOf(v, m)'
    BY <2>3, ControllerAssumption DEF StagesOf, NoStage
  <2>5. \/ UNCHANGED staged
        \/ \E w \in Behind(m, stages[s].dev) :
             staged' = [staged EXCEPT ![v][m] = staged[v][m] \cup {w}]
    BY <1>3 DEF StageMount
  <2>6. /\ \A w \in VolIds, k \in VMs : w # v \/ k # m => staged'[w][k] = staged[w][k]
        /\ staged'[v][m] \subseteq staged[v][m] \cup Reach(v, m)
    <3>1. ASSUME NEW w \in Behind(m, stages[s].dev),
                 staged' = [staged EXCEPT ![v][m] = staged[v][m] \cup {w}]
          PROVE  /\ \A u \in VolIds, k \in VMs : u # v \/ k # m => staged'[u][k] = staged[u][k]
                 /\ staged'[v][m] \subseteq staged[v][m] \cup Reach(v, m)
      BY <1>b, <2>1, <3>1 DEF Reach
    <3> QED
      BY <2>5, <3>1
  <2> QED
    BY <1>3, <2>0, <2>1, <2>3, <2>4, <2>6 DEF NodeMoves, OfPlace, StagesOf
<1>4. ASSUME NEW s \in Stages, NEW v \in VolIds, NEW m \in VMs,
             stages[s].vol = v, stages[s].vm = m, GivenUp(s)
      PROVE  NodeMoves(v, m)
  <2> DEFINE x == [stages[s] EXCEPT !.late = TRUE]
  <2>0. ~StageAt(s, "idle") /\ UNCHANGED <<disk, staged>> /\ SetStage(s, x)
    BY <1>4 DEF GivenUp
  <2>1. stages[s] \in Stage /\ stages[s] # NoStage /\ s \in StagesOf(v, m) /\ Busy(v, m)
    BY <1>4, <2>0, StageIs
  <2>2. x.vol = v /\ x.vm = m /\ x.dev = stages[s].dev
    BY <1>4, <2>1 DEF Stage
  <2> HIDE DEF x
  <2>3. stages'[s] = x /\ \A t \in Stages : t # s => stages'[t] = stages[t]
    BY <1>a, <2>0
  <2> QED
    BY <1>4, <2>0, <2>1, <2>2, <2>3 DEF NodeMoves, OfPlace, StagesOf
<1>5. ASSUME NEW v \in VolIds, NEW m \in VMs, Write(v, m) PROVE NodeMoves(v, m)
  <2>1. PICK w \in staged[v][m] : disk' = [disk EXCEPT ![w] = "written"]
    BY <1>5 DEF Write
  <2>2. UNCHANGED <<stages, staged>> /\ Busy(v, m) /\ Busy(v, m)'
    BY <1>5, <2>1 DEF Write, Busy
  <2> QED
    BY <2>1, <2>2 DEF NodeMoves, StagesOf
<1>6. ASSUME NEW v \in VolIds, NEW m \in VMs, Unstage(v, m) PROVE NodeMoves(v, m)
  <2>1. PICK mounts \in UnmountedOnce(staged[v][m]) : staged' = [staged EXCEPT ![v][m] = mounts]
    BY <1>6 DEF Unstage
  <2>2. mounts \subseteq staged[v][m] /\ UNCHANGED <<stages, disk>>
    BY <1>6 DEF Unstage, UnmountedOnce
  <2>3. /\ staged'[v][m] = mounts
        /\ \A w \in VolIds, k \in VMs : w # v \/ k # m => staged'[w][k] = staged[w][k]
    BY <1>0, <2>1
  <2> QED
    BY <2>2, <2>3 DEF NodeMoves, StagesOf, Busy
<1>7. ASSUME NEW s \in Stages, StageFormat(s) \/ StageMount(s) \/ GivenUp(s)
      PROVE  stages[s].vol \in VolIds /\ stages[s].vm \in VMs
  BY <1>7, StageIs DEF StageFormat, StageMount, GivenUp, StageAt
<1> QED
  BY <1>1, <1>2, <1>3, <1>4, <1>5, <1>6, <1>7 DEF NodeStep

(* Elsewhere, nothing moves.                                                 *)
LEMMA NodeElsewhere ==
  ASSUME NEW v \in VolIds, NEW m \in VMs, NodeMoves(v, m),
         NEW w \in VolIds, NEW k \in VMs, w # v \/ k # m
  PROVE  /\ StagesOf(w, k)' = StagesOf(w, k) /\ staged'[w][k] = staged[w][k]
         /\ \A s \in StagesOf(w, k) : stages'[s] = stages[s]
         /\ Busy(w, k)' <=> Busy(w, k)
<1>1. \A s \in Stages : stages[s].vol = w /\ stages[s].vm = k => ~OfPlace(stages[s], v, m)
  BY ControllerAssumption DEF OfPlace, NoStage
<1>2. \A s \in Stages : stages'[s].vol = w /\ stages'[s].vm = k => ~OfPlace(stages'[s], v, m)
  BY ControllerAssumption DEF OfPlace, NoStage
<1>3. StagesOf(w, k)' = StagesOf(w, k) /\ \A s \in StagesOf(w, k) : stages'[s] = stages[s]
  BY <1>1, <1>2 DEF NodeMoves, StagesOf
<1> QED
  BY <1>3 DEF NodeMoves, Busy

(* The types, which need nothing of Tidy.                                    *)
LEMMA NodeTypes ==
  ASSUME TypeInv, StackTypeOK, NodeStep
  PROVE  /\ disk' \in [VolIds -> {"empty", "written"}]
         /\ staged' \in [VolIds -> [VMs -> SUBSET VolIds]]
         /\ stages' \in [Stages -> Stage]
         /\ put' \in [VolIds -> [VMs -> {"no", "unsure", "yes"}]]
<1>0. /\ disk \in [VolIds -> {"empty", "written"}]
      /\ staged \in [VolIds -> [VMs -> SUBSET VolIds]]
      /\ stages \in [Stages -> Stage]
      /\ put \in [VolIds -> [VMs -> {"no", "unsure", "yes"}]]
      /\ \A v \in VolIds, m \in VMs : ctx[v][m] \in Devices \cup {NoDev}
      /\ NoStage \in Stage
  BY DEF StackTypeOK, TypeInv, TypeOK, Stage
<1>a. ASSUME NEW s \in Stages, NEW x \in Stage, SetStage(s, x)
      PROVE  stages' \in [Stages -> Stage]
  BY <1>0, <1>a DEF SetStage
<1>b. ASSUME NEW v \in VolIds, NEW m \in VMs, NEW x \in SUBSET VolIds,
             staged' = [staged EXCEPT ![v][m] = x]
      PROVE  staged' \in [VolIds -> [VMs -> SUBSET VolIds]]
  BY <1>0, <1>b
<1>c. ASSUME NEW v \in VolIds, NEW m \in VMs, NEW x \in {"no", "unsure", "yes"}, Learns(v, m, x)
      PROVE  put' \in [VolIds -> [VMs -> {"no", "unsure", "yes"}]]
  BY <1>0, <1>c DEF Learns
<1>d. ASSUME NEW s \in Stages, ~StageAt(s, "idle"),
             NEW x \in {"no", "unsure", "yes"}, Answers(s, x)
      PROVE  /\ stages' \in [Stages -> Stage]
             /\ put' \in [VolIds -> [VMs -> {"no", "unsure", "yes"}]]
  BY <1>0, <1>a, <1>c, <1>d, StageIs DEF Answers
<1>1. ASSUME NEW s \in Stages, NEW v \in VolIds, NEW m \in VMs, StageBegin(s, v, m)
      PROVE  /\ disk' \in [VolIds -> {"empty", "written"}]
             /\ staged' \in [VolIds -> [VMs -> SUBSET VolIds]]
             /\ stages' \in [Stages -> Stage]
             /\ put' \in [VolIds -> [VMs -> {"no", "unsure", "yes"}]]
  <2> DEFINE x == [pc |-> "mkfs", vol |-> v, vm |-> m, dev |-> ctx[v][m], late |-> FALSE]
  <2>1. /\ ctx[v][m] # NoDev /\ SetStage(s, x) /\ Learns(v, m, "unsure")
        /\ UNCHANGED <<staged, disk>>
    BY <1>1 DEF StageBegin
  <2>2. x \in Stage
    BY <1>0, <2>1 DEF Stage
  <2> HIDE DEF x
  <2> QED
    BY <1>0, <1>a, <1>c, <2>1, <2>2
<1>2. ASSUME NEW s \in Stages, StageFormat(s)
      PROVE  /\ disk' \in [VolIds -> {"empty", "written"}]
             /\ staged' \in [VolIds -> [VMs -> SUBSET VolIds]]
             /\ stages' \in [Stages -> Stage]
             /\ put' \in [VolIds -> [VMs -> {"no", "unsure", "yes"}]]
  <2> DEFINE x == [stages[s] EXCEPT !.pc = "mount"]
  <2>1. ~StageAt(s, "idle") /\ UNCHANGED staged
    BY <1>2 DEF StageFormat, StageAt
  <2>2. x \in Stage
    BY <2>1, StageIs DEF Stage
  <2>3. \/ Answers(s, "no") /\ UNCHANGED disk
        \/ /\ SetStage(s, x) /\ UNCHANGED put
           /\ \E w \in VolIds : disk' = [disk EXCEPT ![w] = "empty"]
    BY <1>2 DEF StageFormat, Behind
  <2> HIDE DEF x
  <2> QED
    BY <1>0, <1>a, <1>d, <2>1, <2>2, <2>3
<1>3. ASSUME NEW s \in Stages, StageMount(s)
      PROVE  /\ disk' \in [VolIds -> {"empty", "written"}]
             /\ staged' \in [VolIds -> [VMs -> SUBSET VolIds]]
             /\ stages' \in [Stages -> Stage]
             /\ put' \in [VolIds -> [VMs -> {"no", "unsure", "yes"}]]
  <2>1. ~StageAt(s, "idle") /\ UNCHANGED disk /\ (Answers(s, "no") \/ Answers(s, "yes"))
    BY <1>3 DEF StageMount, StageAt
  <2>2. PICK v \in VolIds, m \in VMs : v = stages[s].vol /\ m = stages[s].vm
    BY <2>1, StageIs
  <2>3. \/ UNCHANGED staged
        \/ \E w \in VolIds : staged' = [staged EXCEPT ![v][m] = staged[v][m] \cup {w}]
    BY <1>3, <2>2 DEF StageMount, Behind
  <2>4. ASSUME NEW w \in VolIds PROVE staged[v][m] \cup {w} \in SUBSET VolIds
    BY <1>0
  <2> QED
    BY <1>0, <1>b, <1>d, <2>1, <2>3, <2>4
<1>4. ASSUME NEW s \in Stages, GivenUp(s)
      PROVE  /\ disk' \in [VolIds -> {"empty", "written"}]
             /\ staged' \in [VolIds -> [VMs -> SUBSET VolIds]]
             /\ stages' \in [Stages -> Stage]
             /\ put' \in [VolIds -> [VMs -> {"no", "unsure", "yes"}]]
  <2> DEFINE x == [stages[s] EXCEPT !.late = TRUE]
  <2>1. ~StageAt(s, "idle") /\ SetStage(s, x) /\ UNCHANGED <<disk, staged, put>>
    BY <1>4 DEF GivenUp
  <2>2. x \in Stage
    BY <2>1, StageIs DEF Stage
  <2> HIDE DEF x
  <2> QED
    BY <1>0, <1>a, <2>1, <2>2
<1>5. ASSUME NEW v \in VolIds, NEW m \in VMs, Write(v, m)
      PROVE  disk' \in [VolIds -> {"empty", "written"}] /\ UNCHANGED <<staged, stages, put>>
  <2>0. staged[v][m] \subseteq VolIds
    BY <1>0
  <2>1. \E w \in VolIds : disk' = [disk EXCEPT ![w] = "written"]
    BY <1>5, <2>0 DEF Write
  <2> QED
    BY <1>0, <1>5, <2>1 DEF Write
<1>6. ASSUME NEW v \in VolIds, NEW m \in VMs, Unstage(v, m)
      PROVE  /\ staged' \in [VolIds -> [VMs -> SUBSET VolIds]]
             /\ put' \in [VolIds -> [VMs -> {"no", "unsure", "yes"}]]
             /\ UNCHANGED <<stages, disk>>
  <2>1. PICK mounts \in UnmountedOnce(staged[v][m]) :
          /\ staged' = [staged EXCEPT ![v][m] = mounts]
          /\ Learns(v, m, "no") \/ Learns(v, m, "unsure")
    BY <1>6 DEF Unstage
  <2>2. mounts \in SUBSET VolIds
    BY <1>0 DEF UnmountedOnce
  <2> QED
    BY <1>6, <1>b, <1>c, <2>1, <2>2 DEF Unstage
<1> QED
  BY <1>0, <1>1, <1>2, <1>3, <1>4, <1>5, <1>6 DEF NodeStep

LEMMA StackTypesNext ==
  ASSUME TypeInv, StackTypeOK, [StackNext]_allVars
  PROVE  TypeInv' /\ StackTypeOK'
<1>1. TypeInv'
  BY StackMoves, TypeApart, TypeNext
<1>3. CASE UNCHANGED allVars
  BY <1>1, <1>3 DEF StackTypeOK, allVars, stackVars, TypeInv
<1>4. CASE StackNext
  <2>1. leftover' \in [VolIds -> SUBSET VMs]
    BY <1>4 DEF StackNext, NotesLeftover
  <2>2. /\ disk' \in [VolIds -> {"empty", "written"}]
        /\ staged' \in [VolIds -> [VMs -> SUBSET VolIds]]
        /\ stages' \in [Stages -> Stage]
        /\ put' \in [VolIds -> [VMs -> {"no", "unsure", "yes"}]]
    BY <1>4, NodeTypes DEF StackNext, StackTypeOK, stackVars
  <2> QED
    BY <1>1, <2>1, <2>2 DEF StackTypeOK, TypeInv
<1> QED
  BY <1>3, <1>4

-----------------------------------------------------------------------------
(* The invariant.                                                            *)

(* Who holds a volume on a node after a step, and is not left over there,    *)
(* has held its VolumeAttachment before and after.                           *)
LEMMA Holding ==
  ASSUME StackInv, NotesLeftover, NEW v \in VolIds, NEW m \in VMs,
         Busy(v, m)', m \notin leftover'[v]
  PROVE  m \notin leftover[v] /\ va'[v][m] = "attached" /\ (Busy(v, m) => va[v][m] = "attached")
<1>1. m \notin leftover[v] /\ va'[v][m] = "attached"
  BY DEF NotesLeftover
<1> QED
  BY <1>1 DEF StackInv, HeldInv

LEMMA HeldNext == ASSUME NotesLeftover PROVE HeldInv'
  BY DEF HeldInv, NotesLeftover

(* A volume that a stage under way may reach.                                *)
LEMMA Reached ==
  ASSUME StackInv, NEW v \in VolIds, NEW m \in VMs, NEW w \in Reach(v, m)
  PROVE  /\ w \in VolIds /\ Busy(v, m)
         /\ vols[w].status = "in-use" /\ vols[w].vm = m
         /\ w = v \/ Excused(v) \/ m \in leftover[v]
<1>1. PICK s \in StagesOf(v, m) : w \in Behind(m, stages[s].dev)
  BY DEF Reach
<1>2. StackTypeOK /\ TypeInv
  BY DEF StackInv, CtrlInv, AttachInv
<1>3. stages[s].dev \in Devices
  BY <1>2, StagesAre
<1>4. w \in VolIds /\ vols[w].vm = m /\ vols[w].dev = stages[s].dev
  BY <1>1 DEF Behind
<1>5. vols[w].status = "in-use"
  BY <1>2, <1>3, <1>4, CloudAssumption DEF TypeInv, VolumeOK
<1>6. Busy(v, m)
  BY DEF Busy
<1>7. ASSUME ~Excused(v), m \notin leftover[v] PROVE w = v
  <2>1. va[v][m] = "attached" /\ ctx[v][m] # NoDev /\ stages[s].dev = ctx[v][m]
    BY <1>6, <1>7 DEF StackInv, HeldInv, OwnInv
  <2>2. AttachedAt(v, m, ctx[v][m])
    BY <1>7, <2>1 DEF StackInv, CtrlInv, CtxInv
  <2> QED
    BY <1>4, <2>1, <2>2 DEF AttachedAt, StackInv, CtrlInv, DevicesInv
<1> QED
  BY <1>4, <1>5, <1>6, <1>7

LEMMA StackControl ==
  ASSUME Tidy, StackInv, Noted(ControlStep), UNCHANGED stackVars, NotesLeftover
  PROVE  StackInv'
<1>0. TypeInv /\ AttachInv /\ CtrlInv /\ [Next]_vars
  BY ControlIsNext DEF StackInv, CtrlInv, AttachInv
<1>1. CtrlInv'
  BY <1>0, CtrlNext
<1>2. StackTypeOK'
  BY <1>0, StackTypesNext DEF StackInv, StackNext
<1>b. ASSUME NEW v \in VolIds, NEW m \in VMs
      PROVE  /\ Busy(v, m)' = Busy(v, m) /\ staged'[v][m] = staged[v][m]
             /\ StagesOf(v, m)' = StagesOf(v, m) /\ stages' = stages
  BY DEF Busy, StagesOf, stackVars
<1>3. ASSUME NEW v \in VolIds, NEW m \in VMs, Busy(v, m), m \notin leftover'[v]
      PROVE  /\ va[v][m] = "attached" /\ va'[v][m] = "attached" /\ m \notin leftover[v]
             /\ ~Excused(v)' => ~Excused(v) /\ ctx'[v][m] = ctx[v][m]
             /\ ~Undercut(v)' => ~Undercut(v)
  <2>1. va[v][m] = "attached" /\ va'[v][m] = "attached" /\ m \notin leftover[v]
    BY <1>b, <1>3, Holding
  <2>2. ASSUME ~Excused(v)' PROVE ~Excused(v)
    BY <1>0, <2>1, <2>2, ExcuseStays DEF Tidy
  <2>3. ~Undercut(v)' => ~Undercut(v)
    BY <1>0, <2>1, LateStays DEF AtRest, Unwanted
  <2>4. ASSUME ~Excused(v) PROVE ctx'[v][m] = ctx[v][m]
    <3>1. ctx[v][m] # NoDev
      BY <1>3, <2>1, <2>4 DEF StackInv, OwnInv
    <3>2. Told(v, m) => ctx'[v][m] = ctx[v][m]
      BY <2>1, <2>4, <3>1 DEF Told, StackInv, CtrlInv, AnswerInv
    <3> QED
      BY <1>0, <2>1, <3>2, CtxChanges
  <2> QED
    BY <2>1, <2>2, <2>3, <2>4
<1>4. OwnInv'
  <2> SUFFICES ASSUME NEW v \in VolIds, NEW m \in VMs,
                      Busy(v, m), ~Excused(v)', m \notin leftover'[v]
               PROVE  /\ ctx'[v][m] # NoDev
                      /\ \A s \in StagesOf(v, m) : stages[s].dev = ctx'[v][m]
                      /\ staged[v][m] \subseteq {v}
    BY <1>b DEF OwnInv
  <2> QED
    BY <1>3 DEF StackInv, OwnInv
<1>5. MountInv'
  <2> SUFFICES ASSUME NEW v \in VolIds, NEW m \in VMs,
                      v \in staged[v][m], ~Undercut(v)', m \notin leftover'[v]
               PROVE  vols'[v].status = "in-use" /\ vols'[v].vm = m
    BY <1>b DEF MountInv
  <2>1. Busy(v, m)
    BY DEF Busy
  <2>2. ~Undercut(v) /\ va[v][m] = "attached" /\ m \notin leftover[v]
    BY <1>3, <2>1
  <2>3. vols[v].status = "in-use" /\ vols[v].vm = m
    BY <2>2 DEF StackInv, MountInv
  <2>4. ~LetsDetach(v, m) /\ \A c \in Calls : ~On(c, "unpublish", v, m)
    BY <1>0, <2>2 DEF LetsDetach, AttachInv, AskedInv
  <2> QED
    BY <1>0, <2>2, <2>3, <2>4, HeldStays
<1> QED
  BY <1>1, <1>2, <1>4, <1>5, HeldNext DEF StackInv

LEMMA StackNodes ==
  ASSUME StackInv, NodeStep, NotesLeftover
  PROVE  StackInv'
<1>0. TypeInv /\ StackTypeOK /\ CtrlSame
  BY NodeIsApart DEF StackInv, CtrlInv, AttachInv
<1>1. CtrlInv'
  BY <1>0, CtrlApart DEF StackInv
<1>2. StackTypeOK'
  BY <1>0, StackTypesNext DEF StackNext
<1>3. PICK w \in VolIds, k \in VMs : NodeMoves(w, k)
  BY <1>0, NodeWorks
<1>4. /\ UNCHANGED <<vols, va, ctx>>
      /\ \A v \in VolIds : Excused(v)' = Excused(v) /\ Undercut(v)' = Undercut(v)
  BY <1>0 DEF CtrlSame, Excused, Undercut
<1>5. OwnInv'
  <2> SUFFICES ASSUME NEW v \in VolIds, NEW m \in VMs,
                      Busy(v, m)', ~Excused(v), m \notin leftover'[v]
               PROVE  /\ ctx[v][m] # NoDev
                      /\ \A s \in StagesOf(v, m)' : stages'[s].dev = ctx[v][m]
                      /\ staged'[v][m] \subseteq {v}
    BY <1>4 DEF OwnInv
  <2>1. m \notin leftover[v]
    BY Holding
  <2>2. CASE v # w \/ m # k
    <3>1. /\ StagesOf(v, m)' = StagesOf(v, m) /\ staged'[v][m] = staged[v][m] /\ Busy(v, m)
          /\ \A s \in StagesOf(v, m) : stages'[s] = stages[s]
      BY <1>3, <2>2, NodeElsewhere
    <3> QED
      BY <2>1, <3>1 DEF StackInv, OwnInv
  <2>3. CASE v = w /\ m = k
    <3>1. /\ \A s \in StagesOf(v, m)' :
               \/ s \in StagesOf(v, m) /\ stages'[s].dev = stages[s].dev
               \/ ctx[v][m] # NoDev /\ stages'[s].dev = ctx[v][m]
          /\ staged'[v][m] \subseteq staged[v][m] \cup Reach(v, m)
          /\ staged'[v][m] # {} => Busy(v, m)
      BY <1>3, <2>3 DEF NodeMoves
    <3>2. Busy(v, m) => /\ ctx[v][m] # NoDev
                        /\ \A s \in StagesOf(v, m) : stages[s].dev = ctx[v][m]
                        /\ staged[v][m] \subseteq {v}
      BY <2>1 DEF StackInv, OwnInv
    <3>3. Reach(v, m) \subseteq {v}
      BY <2>1, Reached
    <3>4. ctx[v][m] # NoDev
      BY <3>1, <3>2 DEF Busy
    <3>5. \A s \in StagesOf(v, m)' : stages'[s].dev = ctx[v][m]
      BY <3>1, <3>2 DEF Busy
    <3>6. staged'[v][m] \subseteq {v}
      BY <3>1, <3>2, <3>3
    <3> QED
      BY <3>4, <3>5, <3>6
  <2> QED
    BY <2>2, <2>3
<1>6. MountInv'
  <2> SUFFICES ASSUME NEW v \in VolIds, NEW m \in VMs,
                      v \in staged'[v][m], m \notin leftover'[v]
               PROVE  (vols[v].status = "in-use" /\ vols[v].vm = m) \/ Undercut(v)
    BY <1>4 DEF MountInv
  <2>1. Busy(v, m)'
    BY DEF Busy
  <2>2. m \notin leftover[v]
    BY <2>1, Holding
  <2>3. v \in staged[v][m] \/ v \in Reach(v, m)
    BY <1>3, NodeElsewhere DEF NodeMoves
  <2> QED
    BY <2>2, <2>3, Reached DEF StackInv, MountInv
<1> QED
  BY <1>1, <1>2, <1>5, <1>6, HeldNext DEF StackInv

LEMMA StackNextKeeps == Tidy /\ StackInv /\ [StackNext]_allVars => StackInv'
<1> SUFFICES ASSUME Tidy, StackInv, [StackNext]_allVars PROVE StackInv'
  OBVIOUS
<1>1. CASE UNCHANGED allVars
  <2> USE <1>1 DEF allVars, vars, stackVars
  <2>1. CtrlInv' /\ StackTypeOK'
    BY CtrlNext, StackTypesNext DEF StackInv, CtrlInv, AttachInv
  <2>2. \A v \in VolIds, m \in VMs :
          /\ Busy(v, m)' = Busy(v, m) /\ StagesOf(v, m)' = StagesOf(v, m)
          /\ Excused(v)' = Excused(v) /\ Undercut(v)' = Undercut(v)
    BY DEF Busy, StagesOf, Excused, Undercut
  <2>3. HeldInv' /\ OwnInv' /\ MountInv'
    BY <2>2 DEF StackInv, HeldInv, OwnInv, MountInv
  <2> QED
    BY <2>1, <2>3 DEF StackInv
<1> QED
  BY <1>1, StackControl, StackNodes DEF StackNext

-----------------------------------------------------------------------------
(* The theorems.                                                             *)

(* The types of VolumeStack: a stage under way has a device.                 *)
THEOREM StackTyped == StackSpec => []StackTypeOK
<1>1. StackInit => TypeInv /\ StackTypeOK
  BY StackInitial DEF StackInv, CtrlInv, AttachInv
<1>2. TypeInv /\ StackTypeOK /\ [StackNext]_allVars => TypeInv' /\ StackTypeOK'
  BY StackTypesNext
<1> QED
  BY <1>1, <1>2, PTL DEF StackSpec

(* With the nodes, too, a volume is on a VM only as long as somebody wants   *)
(* it there, but for the unpublishes that were answered too early.           *)
THEOREM StackAccounted == Serial => (StackSpec => []AttachmentAccounted)
<1> SUFFICES ASSUME Serial PROVE StackSpec => []AttachmentAccounted
  OBVIOUS
<1>1. StackInit => AttachInv
  BY StackInitial DEF StackInv, CtrlInv
<1>2. AttachInv /\ [StackNext]_allVars => AttachInv'
  BY StackMoves, AttachNext, AttachApart DEF AttachInv
<1>3. AttachInv => AttachmentAccounted
  BY AttachHolds
<1> QED
  BY <1>1, <1>2, <1>3, PTL DEF StackSpec

(* With the nodes, contexts tell the device there is, attachments keep their *)
(* protection, and volumes are detached only from VMs they leave.            *)
THEOREM StackKeepsPromises ==
  Tidy => (StackSpec => /\ [](ContextIsAttachment /\ UnprotectedOnlyWhenLeaving)
                        /\ DetachOnlyWhenLeaving)
<1> SUFFICES ASSUME Tidy
             PROVE  StackSpec => /\ [](ContextIsAttachment /\ UnprotectedOnlyWhenLeaving)
                                 /\ DetachOnlyWhenLeaving
  OBVIOUS
<1>1. StackInv => CtrlInv /\ TypeInv
  BY DEF StackInv, CtrlInv, AttachInv
<1>2. StackInv /\ [StackNext]_allVars =>
        [\A v \in VolIds :
           vols[v].status = "in-use" /\ vols'[v].status # "in-use"
             => \/ va[v][vols[v].vm] = "leaving"
                \/ "detach" \in late[v] /\ Excused(v)]_vars
  BY <1>1, DetachStep, StackMoves DEF CtrlSame
<1> QED
  BY <1>1, <1>2, CtrlHolds, StackInitial, StackNextKeeps, PTL DEF StackSpec, DetachOnlyWhenLeaving

(* A staging path shows its own volume, but for a volume that is excused, or *)
(* was let go with a stage given up still there: until then, the device in   *)
(* its publish context is its own, for stages that outlive their calls too.  *)
THEOREM StagedIsOwn == Tidy => (StackSpec => []StagedOwn)
<1> SUFFICES ASSUME Tidy PROVE StackSpec => []StagedOwn
  OBVIOUS
<1>1. StackInv => StagedOwn
  BY DEF StackInv, OwnInv, Busy, StagedOwn
<1> QED
  BY <1>1, StackInitial, StackNextKeeps, PTL DEF StackSpec

(* A volume that is mounted as itself stays attached to its node: a late     *)
(* detach finds it protected, unless another late request came before it, or *)
(* the volume was let go with a stage given up still there.                  *)
THEOREM MountsAttached == Tidy => (StackSpec => []StagedIsAttached)
<1> SUFFICES ASSUME Tidy PROVE StackSpec => []StagedIsAttached
  OBVIOUS
<1>1. StackInv => StagedIsAttached
  BY DEF StackInv, MountInv, StagedIsAttached
<1> QED
  BY <1>1, StackInitial, StackNextKeeps, PTL DEF StackSpec

(* NodeStageVolume formats no volume but the one it is called for, also when *)
(* it outlives its call, with the same exceptions as StagedOwn.              *)
THEOREM FormatsOwn == Tidy => (StackSpec => FormatsOnlyOwn)
<1> SUFFICES ASSUME Tidy PROVE StackSpec => FormatsOnlyOwn
  OBVIOUS
<1>1. ASSUME StackInv, NEW s \in Stages, StageFormat(s),
             ~Excused(stages[s].vol), stages[s].vm \notin leftover[stages[s].vol]
      PROVE  \A w \in VolIds \ {stages[s].vol} : disk'[w] = disk[w]
  <2>1. StackTypeOK /\ disk \in [VolIds -> {"empty", "written"}] /\ ~StageAt(s, "idle")
    BY <1>1 DEF StackInv, StackTypeOK, StageFormat, StageAt
  <2>2. PICK v \in VolIds, m \in VMs : v = stages[s].vol /\ m = stages[s].vm
    BY <2>1, StageIs
  <2>3. s \in StagesOf(v, m)
    BY <2>2 DEF StagesOf
  <2>4. Behind(m, stages[s].dev) \subseteq {v}
    BY <1>1, <2>2, <2>3, Reached DEF Reach
  <2>5. UNCHANGED disk \/ disk' = [disk EXCEPT ![v] = "empty"]
    BY <1>1, <2>2, <2>4 DEF StageFormat
  <2> QED
    BY <2>1, <2>2, <2>5
<1>2. StackInv /\ [StackNext]_allVars =>
        [\A s \in Stages :
           \/ SparesOthers(s)
           \/ Excused(stages[s].vol) \/ stages[s].vm \in leftover[stages[s].vol]]_allVars
  BY <1>1 DEF SparesOthers
<1> QED
  BY <1>2, StackInitial, StackNextKeeps, PTL DEF StackSpec, FormatsOnlyOwn

-----------------------------------------------------------------------------
(* The steps of VolumeStack are steps of VolumeUse.                          *)

(* Who uses a volume that is not astray is alone, and uses it in its place.  *)
LEMMA UsedInPlace ==
  ASSUME StackInv, NEW v \in VolIds, v \notin Astray, NEW m \in VMs, Busy(v, m)
  PROVE  /\ va[v][m] = "attached" /\ UsersOf(v) = {m}
         /\ AttachedAt(v, m, ctx[v][m]) /\ PlaceOf(v) = m
<1>1. ~Excused(v) /\ leftover[v] = {}
  BY DEF Astray
<1>2. \A k \in VMs : Busy(v, k) => va[v][k] = "attached"
  BY <1>1 DEF StackInv, HeldInv
<1>3. \A k \in VMs : Busy(v, k) => k = m
  BY <1>2 DEF StackInv, CtrlInv, OneNodeInv
<1>4. AttachedAt(v, m, ctx[v][m])
  BY <1>1, <1>2 DEF StackInv, OwnInv, CtrlInv, CtxInv
<1> QED
  BY <1>2, <1>3, <1>4 DEF UsersOf, PlaceOf, AttachedAt

InPlace == \A v \in VolIds \ Astray : UsersOf(v) \subseteq {PlaceOf(v)}

LEMMA UsersInPlace == StackInv => InPlace
<1> SUFFICES ASSUME StackInv, NEW v \in VolIds, v \notin Astray, NEW m \in UsersOf(v)
             PROVE  m = PlaceOf(v)
  BY DEF InPlace
<1> QED
  BY UsedInPlace DEF UsersOf

LEMMA UseInitial == StackInit => Use!Init
<1> SUFFICES ASSUME StackInit PROVE Use!Init
  OBVIOUS
<1>1. CtrlInv
  BY StackInitial DEF StackInv
<1>2. ASSUME NEW v \in VolIds
      PROVE  PlaceOf(v) = NoVM /\ UsersOf(v) = {} /\ ~Excused(v) /\ leftover[v] = {}
  <2>1. /\ \A m \in VMs : va[v][m] = "none" /\ staged[v][m] = {}
        /\ early[v] = {} /\ late[v] = {} /\ leftover[v] = {}
        /\ stages = [s \in Stages |-> NoStage]
    BY DEF StackInit, OnNodes
  <2>2. vols[v].status # "in-use"
    BY <1>1, <2>1 DEF CtrlInv, AttachInv, DueInv, Due, OnVM, OnItsWay, TypeInv, VolumeOK
  <2>3. \A m \in VMs : ~Busy(v, m)
    BY <2>1, ControllerAssumption DEF Busy, StagesOf, NoStage
  <2> QED
    BY <2>1, <2>2, <2>3 DEF PlaceOf, UsersOf, Excused, Undercut
<1>3. disk = [v \in VolIds |-> "written"]
  BY DEF StackInit
<1> QED
  BY <1>2, <1>3 DEF Use!Init, Places, Users, Astray

(* A volume changes its place only when nobody uses it, or it is astray.     *)
LEMMA PlaceMoves ==
  ASSUME StackInv, [Next]_vars, NEW v \in VolIds
  PROVE  \/ PlaceOf(v)' = PlaceOf(v)
         \/ PlaceOf(v) = NoVM /\ PlaceOf(v)' \in VMs
         \/ /\ PlaceOf(v) # NoVM /\ PlaceOf(v)' = NoVM
            /\ UsersOf(v) = {} \/ v \in Astray
<1>0. TypeInv /\ AttachInv /\ LateInv /\ CtrlInv
  BY DEF StackInv, CtrlInv, AttachInv
<1>1. /\ vols[v].status = "in-use" => vols[v].vm \in VMs
      /\ vols'[v].status = "in-use" => vols'[v].vm \in VMs
  BY <1>0, TypeNext DEF TypeInv, VolumeOK
<1>2. CASE vols[v].status # "in-use"
  BY <1>1, <1>2 DEF PlaceOf
<1>3. CASE vols[v].status = "in-use" /\ vols'[v].status = "in-use"
  BY <1>0, <1>3, InUseStays DEF PlaceOf
<1>4. CASE vols[v].status = "in-use" /\ vols'[v].status # "in-use"
  <2>1. ASSUME NEW m \in VMs, Busy(v, m), v \notin Astray PROVE FALSE
    <3>1. va[v][m] = "attached" /\ vols[v].vm = m /\ ~Undercut(v)
      BY <2>1, UsedInPlace DEF AttachedAt, Astray, Excused
    <3>2. ~LetsDetach(v, m) /\ \A c \in Calls : ~On(c, "unpublish", v, m)
      BY <1>0, <3>1 DEF LetsDetach, AttachInv, AskedInv
    <3> QED
      BY <1>0, <1>4, <2>1, <3>1, <3>2, HeldStays
  <2>2. vols[v].vm # NoVM
    BY <1>1, <1>4, CloudAssumption
  <2> QED
    BY <1>4, <2>1, <2>2 DEF PlaceOf, UsersOf
<1> QED
  BY <1>2, <1>3, <1>4

LEMMA ControlRefines ==
  ASSUME StackInv, Noted(ControlStep), UNCHANGED stackVars
  PROVE  Use!Control
<1>0. TypeInv /\ LateInv /\ [Next]_vars
  BY ControlIsNext DEF StackInv, CtrlInv, AttachInv
<1>1. UNCHANGED <<Users, disk>>
  BY DEF Users, UsersOf, Busy, StagesOf, stackVars
<1>2. Astray' \subseteq VolIds
  BY DEF Astray
<1>3. CASE UNCHANGED vols
  BY <1>1, <1>2, <1>3 DEF Use!Control, Places, PlaceOf
<1>4. ASSUME NEW w \in VolIds, Moved(w) PROVE Use!Control
  <2>1. \A v \in VolIds \ {w} : PlaceOf(v)' = PlaceOf(v)
    BY <1>4 DEF Moved, PlaceOf
  <2>2. Places' = [Places EXCEPT ![w] = PlaceOf(w)']
    BY <2>1 DEF Places
  <2>3. \/ Places' = Places
        \/ Places[w] = NoVM /\ \E m \in VMs : Places' = [Places EXCEPT ![w] = m]
        \/ /\ Places[w] # NoVM /\ Places' = [Places EXCEPT ![w] = NoVM]
           /\ Users[w] = {} \/ w \in Astray
    <3>1. Places[w] = PlaceOf(w) /\ Users[w] = UsersOf(w)
      BY DEF Places, Users
    <3>2. PlaceOf(w)' = PlaceOf(w) => Places' = Places
      BY <2>1 DEF Places
    <3> QED
      BY <1>0, <2>2, <3>1, <3>2, PlaceMoves
  <2> QED
    BY <1>1, <1>2, <2>3 DEF Use!Control, Use!Detach, Use!Attach
<1> QED
  BY <1>0, <1>3, <1>4, VolumesMove

(* A node step takes no volume astray: a stage begins where the volume is    *)
(* attached.                                                                 *)
LEMMA Begun ==
  ASSUME StackInv, NEW v \in VolIds, NEW m \in VMs, NodeMoves(v, m), ~Busy(v, m), Busy(v, m)'
  PROVE  va[v][m] = "attached" /\ ctx[v][m] # NoDev /\ UNCHANGED disk
<1>1. staged'[v][m] = {} /\ UNCHANGED disk
  BY DEF NodeMoves
<1>2. PICK s : s \in StagesOf(v, m)'
  BY <1>1 DEF Busy
<1>3. s \notin StagesOf(v, m)
  BY DEF Busy
<1> QED
  BY <1>1, <1>2, <1>3 DEF NodeMoves

LEMMA NodeAstray ==
  ASSUME StackInv, CtrlSame, NotesLeftover, NEW v \in VolIds, NEW m \in VMs, NodeMoves(v, m)
  PROVE  Astray' \subseteq Astray
<1>1. ASSUME NEW w \in VolIds, NEW k \in VMs, k \in leftover'[w] PROVE k \in leftover[w]
  <2>1. Busy(w, k)' /\ (k \in leftover[w] \/ va[w][k] # "attached")
    BY <1>1 DEF NotesLeftover, CtrlSame
  <2>2. CASE Busy(w, k)
    BY <2>1, <2>2 DEF StackInv, HeldInv
  <2>3. CASE ~Busy(w, k)
    BY <2>1, <2>3, Begun, NodeElsewhere
  <2> QED
    BY <2>2, <2>3
<1>2. \A w \in VolIds : leftover'[w] \subseteq VMs
  BY DEF NotesLeftover
<1>3. \A w \in VolIds : Excused(w)' = Excused(w)
  BY DEF CtrlSame, Excused, Undercut
<1> QED
  BY <1>1, <1>2, <1>3 DEF Astray

LEMMA NodeRefines ==
  ASSUME StackInv, NodeStep, NotesLeftover
  PROVE  Use!Control \/ \E v \in VolIds : Use!Node(v)
<1>0. CtrlSame /\ StackTypeOK
  BY NodeIsApart DEF StackInv, CtrlInv, AttachInv
<1>1. PICK v \in VolIds, m \in VMs : NodeMoves(v, m)
  BY <1>0, NodeWorks
<1>2. UNCHANGED Places /\ Astray' \subseteq Astray /\ Astray' \subseteq VolIds
  BY <1>0, <1>1, NodeAstray DEF Places, PlaceOf, CtrlSame, Astray
<1>3. \A w \in VolIds \ {v} : UsersOf(w)' = UsersOf(w)
  BY <1>1, NodeElsewhere DEF UsersOf
<1>4. \A k \in VMs \ {m} : Busy(v, k)' <=> Busy(v, k)
  BY <1>1, NodeElsewhere
<1>5. Users[v] = UsersOf(v) /\ Places[v] = PlaceOf(v)
  BY DEF Users, Places
<1>6. CASE Busy(v, m)' <=> Busy(v, m)
  <2>1. UNCHANGED Users
    BY <1>3, <1>4, <1>6 DEF Users, UsersOf
  <2>2. CASE UNCHANGED disk
    BY <1>2, <2>1, <2>2 DEF Use!Control
  <2>3. ASSUME Busy(v, m), NEW w \in staged[v][m] \cup Reach(v, m), NEW x \in {"empty", "written"},
               disk' = [disk EXCEPT ![w] = x]
        PROVE  Use!Node(v)
    <3>1. w \in VolIds /\ Users[v] # {}
      BY <1>0, <1>5, <2>3, Reached DEF StackTypeOK, UsersOf
    <3>2. CASE v \in Astray
      BY <1>2, <2>1, <2>3, <3>1, <3>2 DEF Use!Node, Use!Mistake
    <3>3. CASE v \notin Astray
      <4>1. w = v
        BY <2>3, <3>3, Reached DEF StackInv, OwnInv, Astray
      <4>2. Users[v] = {Places[v]}
        BY <1>5, <2>3, <3>3, UsedInPlace
      <4> QED
        BY <1>2, <2>1, <2>3, <4>1, <4>2 DEF Use!Node, Use!Touch
    <3> QED
      BY <3>2, <3>3
  <2> QED
    BY <1>1, <2>2, <2>3 DEF NodeMoves
<1>7. CASE ~Busy(v, m) /\ Busy(v, m)'
  <2>1. va[v][m] = "attached" /\ ctx[v][m] # NoDev /\ UNCHANGED disk
    BY <1>1, <1>7, Begun
  <2>2. UsersOf(v)' = UsersOf(v) \cup {m}
    BY <1>4, <1>7 DEF UsersOf
  <2>3. Users' = [Users EXCEPT ![v] = Users[v] \cup {m}]
    BY <1>3, <1>5, <2>2 DEF Users
  <2>4. ASSUME v \notin Astray PROVE UsersOf(v) = {} /\ PlaceOf(v) = m
    <3>1. AttachedAt(v, m, ctx[v][m])
      BY <2>1, <2>4 DEF StackInv, CtrlInv, CtxInv, Astray
    <3>2. ASSUME NEW k \in VMs, Busy(v, k) PROVE FALSE
      <4>1. va[v][k] = "attached" /\ PlaceOf(v) = k
        BY <2>4, <3>2, UsedInPlace
      <4> QED
        BY <1>7, <3>1, <3>2, <4>1 DEF AttachedAt, PlaceOf
    <3> QED
      BY <3>1, <3>2 DEF UsersOf, PlaceOf, AttachedAt
  <2> QED
    BY <1>2, <1>5, <2>1, <2>3, <2>4 DEF Use!Node, Use!Begin
<1>8. CASE Busy(v, m) /\ ~Busy(v, m)'
  <2>1. UNCHANGED disk
    BY <1>1, <1>8 DEF NodeMoves
  <2>2. UsersOf(v)' = UsersOf(v) \ {m} /\ m \in UsersOf(v)
    BY <1>4, <1>8 DEF UsersOf
  <2>3. Users' = [Users EXCEPT ![v] = Users[v] \ {m}]
    BY <1>3, <1>5, <2>2 DEF Users
  <2> QED
    BY <1>2, <1>5, <2>1, <2>2, <2>3 DEF Use!Node, Use!End
<1> QED
  BY <1>6, <1>7, <1>8

(* The controller, its sidecars and the nodes implement VolumeUse: a volume  *)
(* is used by one node at a time, in its place, is not taken away while it   *)
(* is used, and nobody else touches it, but for a volume that is excused, or *)
(* was let go with a stage given up still on a node.                         *)
THEOREM ImplementsUse == Tidy => (StackSpec => UseSpec)
<1> SUFFICES ASSUME Tidy PROVE StackSpec => UseSpec
  OBVIOUS
<1>1. StackInv /\ [StackNext]_allVars /\ InPlace' => [Use!Next]_(Use!useVars)
  <2> SUFFICES ASSUME StackInv, [StackNext]_allVars, InPlace'
               PROVE  Use!Next \/ UNCHANGED Use!useVars
    OBVIOUS
  <2>1. CASE UNCHANGED allVars
    BY <2>1 DEF Use!useVars, Places, PlaceOf, Users, UsersOf, Busy, StagesOf, Astray, Excused,
       Undercut, allVars, vars, stackVars
  <2>2. Use!StaysAstray
    BY DEF Use!StaysAstray, InPlace, Users, Places, Astray
  <2> QED
    BY <2>1, <2>2, ControlRefines, NodeRefines DEF StackNext, Use!Next
<1> QED
  BY <1>1, UsersInPlace, UseInitial, StackInitial, StackNextKeeps, PTL
       DEF StackSpec, UseSpec, Use!Spec
=============================================================================
