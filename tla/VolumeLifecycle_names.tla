------------------------ MODULE VolumeLifecycle_names ------------------------
(* One volume per name: the CreateVolume calls for a name make two volumes   *)
(* only when a POST is sent while another one of that name is on its way.    *)
(* The invariant is about the gap between the list and the POST.             *)
EXTENDS VolumeLifecycle_proofs

USE DEF cloudVars, coVars, ctrlVars

OfClaim == {"create", "delete"}

(* A live volume of a name, and a POST that will make one.                   *)
Lives(n, v) == Exists(v) /\ vols[v].name = n
Coming(n) == Posting(n) # {} \/ LatePosts(n) # {}

(* As long as no two POSTs of a name have been on their way at once, there   *)
(* is no volume of the name while one is, and never a second one.            *)
NameInv(n) ==
  n \notin raced =>
    /\ ~Racing(n) /\ ~Doubled(n)
    /\ Coming(n) => \A v \in VolIds : ~Lives(n, v)

NamesInv == TypeInv /\ \A n \in Names : NameInv(n)

-----------------------------------------------------------------------------
(* The steps other than a POST bring no volume to life.                      *)

NoneNew == \A v \in VolIds : vols'[v].status \in Live => vols[v].status \in Live

LEMMA SetNoneNew ==
  ASSUME TypeInv, NEW w \in VolIds, NEW x, SetVolume(w, x), vols[w].status \in Live
  PROVE  NoneNew
  BY DEF TypeInv, TypeOK, CtrlTypeOK, CloudTypeOK, NoneNew, SetVolume

LEMMA RequestNoneNew ==
  ASSUME TypeInv, NEW w \in VolIds,
         Deletes(w) \/ \E m \in VMs : Attaches(w, m) \/ Unprotects(w, m) \/ Detaches(w, m)
  PROVE  NoneNew
<1>1. CASE Deletes(w)
  BY <1>1, SetNoneNew DEF Deletes, Deletable, Live
<1>2. ASSUME NEW m \in VMs, Attaches(w, m) \/ Unprotects(w, m) \/ Detaches(w, m)
      PROVE  NoneNew
  BY <1>2, SetNoneNew DEF Attaches, Attachable, Unprotects, Unprotectable, Detaches,
     Detachable, Live
<1> QED
  BY <1>1, <1>2

LEMMA CloudNoneNew ==
  ASSUME TypeInv, NEW w \in VolIds, CloudProgress(w) \/ CloudFault(w)
  PROVE  NoneNew
<1>1. CASE CreateDone(w) \/ CreateBroken(w) \/ AttachDone(w) \/ DeleteDone(w)
  BY <1>1, SetNoneNew DEF CreateDone, CreateBroken, AttachDone, DeleteDone, Becomes, Live
<1>2. CASE DeviceReady(w)
  BY <1>2, SetNoneNew DEF DeviceReady, Live
<1>3. CASE AttachBroken(w) \/ DetachDone(w)
  BY <1>3, SetNoneNew DEF AttachBroken, DetachDone, Releases, Live
<1> QED
  BY <1>1, <1>2, <1>3 DEF CloudProgress, CloudFault

LEMMA CallNoneNew ==
  ASSUME TypeInv, NEW c \in Calls, CallStep(c), ~CreatePost(c)
  PROVE  NoneNew
<1>0. CallOK(calls[c])
  BY DEF TypeInv
<1>1. CASE UNCHANGED vols
  BY <1>1 DEF NoneNew
<1>2. CASE DeleteSend(c) /\ Deletes(calls[c].vol)
  BY <1>0, <1>2, RequestNoneNew DEF DeleteSend, At, CallOK
<1>3. CASE PublishAttach(c) /\ Attaches(calls[c].vol, calls[c].vm)
  BY <1>0, <1>3, RequestNoneNew DEF PublishAttach, At, CallOK
<1>4. CASE UnpublishUnprotect(c) /\ Unprotects(calls[c].vol, calls[c].att)
  BY <1>0, <1>4, RequestNoneNew DEF UnpublishUnprotect, At, CallOK
<1>5. CASE UnpublishDetach(c) /\ Detaches(calls[c].vol, calls[c].vm)
  BY <1>0, <1>5, RequestNoneNew DEF UnpublishDetach, At, CallOK
<1> QED
  BY <1>1, <1>2, <1>3, <1>4, <1>5 DEF CallStep, CreateList, CreatePoll, DeleteGet,
     DeleteSend, PublishLookup, PublishGet, PublishAttach, UnpublishGet, UnpublishAttachment,
     UnpublishUnprotect, UnpublishDetach, Panic, Stops

(* The landing of a late request is a POST that makes a volume, or makes none.*)
Lands(r, v) == Late(r) /\ r.kind = "post" /\ Creates(v, r.name, r.size)

LEMMA LateNoneNew ==
  ASSUME TypeInv, NEW r \in ghosts, Late(r)
  PROVE  NoneNew \/ \E v \in VolIds : Lands(r, v)
<1>0. r \in Request
  BY DEF TypeInv, TypeOK, CtrlTypeOK, CloudTypeOK
<1>1. CASE r.kind = "delete" /\ Deletes(r.vol)
  <2>1. r.vol \in VolIds
    BY <1>0, <1>1 DEF Request
  <2> QED
    BY <1>1, <2>1, RequestNoneNew
<1>2. CASE \/ r.kind = "attach" /\ Attaches(r.vol, r.vm)
           \/ r.kind = "unprotect" /\ Unprotects(r.vol, r.vm)
           \/ r.kind = "detach" /\ Detaches(r.vol, r.vm)
  <2>1. r.vol \in VolIds /\ r.vm \in VMs
    BY <1>0, <1>2 DEF Request
  <2> QED
    BY <1>2, <2>1, RequestNoneNew
<1>3. CASE UNCHANGED vols
  BY <1>3 DEF NoneNew
<1> QED
  BY <1>1, <1>2, <1>3 DEF Late, GhostLands, Lands

LEMMA NextNoneNew ==
  ASSUME TypeInv, [Next]_vars
  PROVE  \/ NoneNew
         \/ \E c \in Calls : Serves(c) /\ CreatePost(c)
         \/ \E r \in ghosts, v \in VolIds : Lands(r, v)
<1>a. UNCHANGED vols => NoneNew
  BY DEF NoneNew
<1>1. CASE \E c \in Calls : IssueSome(c) \/ Receive(c)
  BY <1>1, <1>a DEF IssueSome, IssueCreate, IssueDelete, IssuePublish, IssueUnpublish,
     Issue, Receive, ReceiveCreate, ReceiveDelete, ReceivePublish, ReceiveUnpublish
<1>2. CASE \E c \in Calls : Serves(c)
  BY <1>2, CallNoneNew DEF Serves
<1>3. CASE FaultStep
  BY <1>3, <1>a, CloudNoneNew DEF FaultStep, Fault, CallFails, Crash, Stops
<1>4. CASE \E v \in VolIds : Progress(v)
  BY <1>4, CloudNoneNew DEF Progress
<1>5. CASE \E r \in ghosts : Late(r)
  BY <1>5, LateNoneNew
<1>6. CASE UserStep \/ UNCHANGED vars
  BY <1>6, <1>a DEF UserStep, Release, Want, Unwant, vars
<1> QED
  BY <1>1, <1>2, <1>3, <1>4, <1>5, <1>6, NextCases

-----------------------------------------------------------------------------
(* What a POST that lands, in its call or late, does to its name.            *)

Fresh(v, n) ==
  /\ \A w \in VolIds : w # v => vols'[w] = vols[w]
  /\ vols'[v].name = n

LEMMA CreatesFresh ==
  ASSUME TypeInv, NEW v \in VolIds, NEW n \in Names, NEW s, Creates(v, n, s)
  PROVE  Fresh(v, n)
<1> DEFINE x == NewVolume(n, s)
<1>0. vols \in [VolIds -> Volume]
  BY DEF TypeInv, TypeOK, CtrlTypeOK, CloudTypeOK
<1>1. x.name = n
  BY DEF NewVolume, Absent
<1>2. vols' = [vols EXCEPT ![v] = x]
  BY DEF Creates, SetVolume
<1> HIDE DEF x
<1> QED
  BY <1>0, <1>1, <1>2 DEF Fresh

(* A POST of a name that has not been raced is the only one.                 *)
LEMMA PostAlone ==
  ASSUME TypeInv, NEW n \in Names, ~Racing(n), NEW c \in Posting(n), Serves(c), CreatePost(c)
  PROVE  ~Coming(n)'
<1>0. calls \in [Calls -> Call] /\ calls[c] \in Call
  BY DEF Posting, TypeInv, TypeOK, CtrlTypeOK
<1>1. PICK w \in VolIds : Now(c, [calls[c] EXCEPT !.pc = "poll", !.vol = w])
  BY DEF CreatePost
<1>2. calls'[c].pc = "poll" /\ \A d \in Calls : d # c => calls'[d] = calls[d]
  BY <1>0, <1>1 DEF Posting, Now, Call
<1>3. ASSUME NEW d \in Posting(n)' PROVE FALSE
  <2>1. d \in Posting(n) /\ d # c
    BY <1>2, <1>3 DEF Posting, At
  <2> QED
    BY <2>1 DEF Racing
<1>4. LatePosts(n)' = {}
  BY DEF Racing, LatePosts, CreatePost
<1> QED
  BY <1>3, <1>4 DEF Coming

LEMMA LandsAlone ==
  ASSUME NEW n \in Names, ~Racing(n), NEW r \in LatePosts(n), Late(r)
  PROVE  ~Coming(n)'
<1>1. Posting(n)' = {}
  BY DEF Racing, Posting, At, Late
<1>2. LatePosts(n)' = {}
  BY DEF Racing, LatePosts, Late, GhostLands
<1> QED
  BY <1>1, <1>2 DEF Coming

(* A volume that comes to life does so by a POST of its name.                *)
LEMMA Arrival ==
  ASSUME TypeInv, [Next]_vars, NEW n \in Names, NEW v \in VolIds, Lives(n, v)', ~Lives(n, v)
  PROVE  /\ Coming(n)
         /\ \A w \in VolIds : w # v => vols'[w] = vols[w]
         /\ ~Racing(n) => ~Coming(n)'
<1>1. CASE NoneNew
  <2>1. vols[v].status \in Live
    BY <1>1 DEF NoneNew, Lives, Exists
  <2>2. vols'[v].name = vols[v].name
    BY <2>1, NextKept DEF VolumesKept, Kept, Live
  <2> QED
    BY <2>1, <2>2 DEF Lives, Exists
<1>2. ASSUME NEW c \in Calls, Serves(c), CreatePost(c)
      PROVE  /\ Coming(n)
             /\ \A w \in VolIds : w # v => vols'[w] = vols[w]
             /\ ~Racing(n) => ~Coming(n)'
  <2>1. PICK u \in VolIds : Creates(u, calls[c].name, calls[c].size)
    BY <1>2 DEF CreatePost
  <2>2. calls[c].name \in Names /\ At(c, "create", "post")
    BY <1>2 DEF TypeInv, CallOK, CreatePost, At
  <2>3. Fresh(u, calls[c].name)
    BY <2>1, <2>2, CreatesFresh
  <2>4. u = v
    BY <2>3 DEF Fresh, Lives, Exists
  <2>5. c \in Posting(n)
    BY <2>2, <2>3, <2>4 DEF Fresh, Lives, Posting
  <2> QED
    BY <1>2, <2>3, <2>4, <2>5, PostAlone DEF Fresh, Coming
<1>3. ASSUME NEW r \in ghosts, NEW u \in VolIds, Lands(r, u)
      PROVE  /\ Coming(n)
             /\ \A w \in VolIds : w # v => vols'[w] = vols[w]
             /\ ~Racing(n) => ~Coming(n)'
  <2>1. r.name \in Names
    BY <1>3 DEF Lands, Request, TypeInv, TypeOK, CtrlTypeOK, CloudTypeOK
  <2>2. Fresh(u, r.name)
    BY <1>3, <2>1, CreatesFresh DEF Lands
  <2>3. u = v
    BY <2>2 DEF Fresh, Lives, Exists
  <2>4. r \in LatePosts(n)
    BY <1>3, <2>2, <2>3 DEF Fresh, Lives, LatePosts, Lands
  <2> QED
    BY <1>3, <2>2, <2>3, <2>4, LandsAlone DEF Fresh, Coming, Lands
<1> QED
  BY <1>1, <1>2, <1>3, NextNoneNew

-----------------------------------------------------------------------------
(* A POST that was not on its way before comes from a list of volumes that   *)
(* has none of its name.                                                     *)

SameName(d) == calls[d].op = calls'[d].op /\ calls[d].name = calls'[d].name
Enters(d) == \E n \in Names : IssueCreate(d, n) \/ IssueDelete(d, n)

LEMMA CallNames ==
  ASSUME TypeInv, [Next]_vars, NEW d \in Calls, calls'[d].op \in OfClaim
  PROVE  SameName(d) \/ Enters(d)
<1>0. calls \in [Calls -> Call] /\ calls[d] \in Call
  BY DEF TypeInv, TypeOK, CtrlTypeOK
<1>1. CASE calls'[d] = calls[d]
  BY <1>1 DEF SameName
<1>2. ASSUME NEW pc, Goto(d, pc) PROVE SameName(d)
  BY <1>0, <1>2 DEF Goto, Now, Call, SameName
<1>3. ASSUME NEW code, Reply(d, code) PROVE SameName(d)
  BY <1>0, <1>3 DEF Reply, Now, Call, SameName
<1>4. ASSUME NEW v, ReplyCreated(d, v) PROVE SameName(d)
  BY <1>0, <1>4 DEF ReplyCreated, Now, Call, SameName
<1>5. ASSUME NEW v, Now(d, [calls[d] EXCEPT !.pc = "poll", !.vol = v]) PROVE SameName(d)
  BY <1>0, <1>5 DEF Now, Call, SameName
<1>6. ASSUME Now(d, [calls[d] EXCEPT !.polls = @ + 1]) PROVE SameName(d)
  BY <1>0, <1>6 DEF Now, Call, SameName
<1>7. CASE CreateList(d) \/ CreatePost(d) \/ CreatePoll(d) \/ DeleteGet(d) \/ DeleteSend(d)
  BY <1>2, <1>3, <1>4, <1>5, <1>6, <1>7 DEF CreateList, CreatePost, CreatePoll, CreateFound,
     CreateAmbiguous, CreateNotFound, DeleteGet, DeleteOf, DeleteSend
<1> QED
  BY <1>1, <1>7, Moves DEF Enters, OfClaim

LEMMA EnterPc ==
  ASSUME TypeInv, NEW d \in Calls, Enters(d)
  PROVE  calls'[d].pc \in {"list", "get"}
<1>0. calls \in [Calls -> Call]
  BY DEF TypeInv, TypeOK, CtrlTypeOK
<1>1. PICK n \in Names :
        \/ Now(d, CreateCall(n, claim[n].bytes))
        \/ Now(d, DeleteCall(n, claim[n].vol))
  BY DEF Enters, IssueCreate, IssueDelete, Issue, Enter
<1> DEFINE create == CreateCall(n, claim[n].bytes)
           delete == DeleteCall(n, claim[n].vol)
<1>2. create.pc = "list" /\ delete.pc = "get"
  BY DEF CreateCall, DeleteCall, Idle
<1>3. calls'[d] \in {create, delete}
  BY <1>0, <1>1 DEF Now
<1> HIDE DEF create, delete
<1> QED
  BY <1>2, <1>3

(* A call about to POST was so before, or has just found no volume.          *)
LEMMA PostSource ==
  ASSUME TypeInv, [Next]_vars, NEW n \in Names, NEW d \in Posting(n)'
  PROVE  d \in Posting(n) \/ (calls[d].name = n /\ CreateList(d) /\ CreateNotFound(d))
<1>0. /\ calls \in [Calls -> Call] /\ d \in Calls /\ calls[d] \in Call
      /\ calls'[d].op = "create" /\ calls'[d].pc = "post" /\ calls'[d].name = n
  BY DEF TypeInv, TypeOK, CtrlTypeOK, Posting, At
<1>1. SameName(d)
  BY <1>0, CallNames, EnterPc DEF OfClaim
<1>2. calls[d].op = "create" /\ calls[d].name = n
  BY <1>0, <1>1 DEF SameName
<1>3. CASE calls[d].pc = "post"
  BY <1>0, <1>2, <1>3 DEF Posting, At
<1>4. CASE calls[d].pc # "post"
  <2>1. calls'[d] # calls[d]
    BY <1>0, <1>4
  <2>2. CreateList(d) \/ CreatePost(d) \/ CreatePoll(d)
    <3>1. ~(DeleteGet(d) \/ DeleteSend(d))
      BY <1>2 DEF DeleteGet, DeleteSend, At
    <3>2. ~Enters(d)
      BY <1>0, EnterPc
    <3> QED
      BY <1>0, <2>1, <3>1, <3>2, Moves DEF Enters
  <2>3. ASSUME NEW code, Reply(d, code) PROVE FALSE
    BY <1>0, <2>3 DEF Reply, Now, Call
  <2>4. ASSUME NEW w, ReplyCreated(d, w) PROVE FALSE
    BY <1>0, <2>4 DEF ReplyCreated, Now, Call
  <2>5. ASSUME Now(d, [calls[d] EXCEPT !.polls = @ + 1]) PROVE FALSE
    BY <1>0, <1>4, <2>5 DEF Now, Call
  <2> QED
    BY <1>2, <1>4, <2>2, <2>3, <2>4, <2>5 DEF CreateList, CreatePost, CreatePoll, CreateFound,
       CreateAmbiguous, At
<1> QED
  BY <1>3, <1>4

(* The list finds every live volume of the name.                             *)
LEMMA NotFoundIsNone ==
  ASSUME TypeInv, NEW d \in Calls, NEW n \in Names, calls[d].name = n,
         CreateList(d), CreateNotFound(d)
  PROVE  \A v \in VolIds : ~Lives(n, v)'
<1>1. ASSUME NEW v \in VolIds, Lives(n, v) PROVE FALSE
  BY <1>1, CloudAssumption DEF Lives, CreateNotFound, Matching, NameMatches
<1> QED
  BY <1>1 DEF CreateList, Lives, Exists

(* A late POST was late before, or one that its call was about to send.      *)
LEMMA LateSource ==
  ASSUME TypeInv, [Next]_vars, NEW n \in Names, LatePosts(n)' # {}
  PROVE  Coming(n)
<1>1. PICK r \in ghosts' : r.kind = "post" /\ r.name = n
  BY DEF LatePosts
<1>2. CASE r \in ghosts
  BY <1>1, <1>2 DEF Coming, LatePosts
<1>3. ASSUME NEW c \in Calls, r \in InFlight(c) PROVE c \in Posting(n)
  <2>0. CallOK(calls[c]) /\ calls[c] \in Call
    BY DEF TypeInv, TypeOK, CtrlTypeOK
  <2>1. calls[c].pc = "post" /\ r = Post(calls[c].name, calls[c].size)
    BY <1>1, <1>3 DEF InFlight, Delete, Attach, Unprotect, Detach
  <2>2. calls[c].op = "create" /\ calls[c].name = n
    BY <1>1, <2>0, <2>1 DEF CallOK, Call, Ops, Post
  <2> QED
    BY <2>1, <2>2 DEF Posting, At
<1>4. CASE Stops \/ \E c \in Calls : CallFails(c)
  BY <1>1, <1>2, <1>3, <1>4 DEF Stops, CallFails, LeavesBehind, Coming
<1>5. CASE ghosts' \subseteq ghosts
  BY <1>1, <1>2, <1>5
<1>6. CASE \E c \in Calls : IssueSome(c) \/ Receive(c)
  BY <1>5, <1>6 DEF IssueSome, IssueCreate, IssueDelete, IssuePublish, IssueUnpublish,
     Issue, Receive, ReceiveCreate, ReceiveDelete, ReceivePublish, ReceiveUnpublish
<1>7. CASE \E c \in Calls : Serves(c)
  BY <1>4, <1>5, <1>7 DEF Serves, CallStep, CreateList, CreatePost, CreatePoll, DeleteGet,
     DeleteSend, PublishLookup, PublishGet, PublishAttach, UnpublishGet, UnpublishAttachment,
     UnpublishUnprotect, UnpublishDetach, Panic
<1>8. CASE FaultStep \/ \E v \in VolIds : Progress(v)
  <2>1. ASSUME NEW v \in VolIds, CloudProgress(v) \/ CloudFault(v) PROVE UNCHANGED ghosts
    BY <2>1 DEF CloudProgress, CloudFault, CreateDone, CreateBroken, AttachDone, DeleteDone,
       Becomes, DeviceReady, AttachBroken, DetachDone, Releases
  <2> QED
    BY <1>4, <1>5, <1>8, <2>1 DEF FaultStep, Fault, Crash, Progress
<1>9. CASE (\E q \in ghosts : Late(q)) \/ UserStep \/ UNCHANGED vars
  BY <1>5, <1>9 DEF Late, GhostLands, UserStep, Release, Want, Unwant, vars
<1> QED
  BY <1>6, <1>7, <1>8, <1>9, NextCases

-----------------------------------------------------------------------------
LEMMA RacedNext ==
  ASSUME [Next]_vars, NEW n \in Names, n \notin raced', n \notin raced => ~Racing(n)
  PROVE  n \notin raced /\ ~Racing(n)'
<1>1. CASE Next
  BY <1>1, NextCases DEF NotesRaced
<1>2. CASE UNCHANGED vars
  BY <1>2 DEF vars, Racing, Posting, LatePosts, At
<1> QED
  BY <1>1, <1>2

LEMMA NameNext ==
  ASSUME NamesInv, [Next]_vars, NEW n \in Names
  PROVE  NameInv(n)'
<1> SUFFICES ASSUME n \notin raced'
             PROVE  /\ ~Racing(n)' /\ ~Doubled(n)'
                    /\ Coming(n)' => \A v \in VolIds : ~Lives(n, v)'
  BY DEF NameInv
<1>0. TypeInv /\ NameInv(n)
  BY DEF NamesInv
<1>1. n \notin raced /\ ~Racing(n)'
  BY <1>0, RacedNext DEF NameInv
<1>2. /\ ~Racing(n) /\ ~Doubled(n)
      /\ Coming(n) => \A v \in VolIds : ~Lives(n, v)
  BY <1>0, <1>1 DEF NameInv
<1>3. ASSUME NEW v \in VolIds, Lives(n, v)', ~Lives(n, v)
      PROVE  ~Doubled(n)' /\ ~Coming(n)'
  <2>1. /\ Coming(n) /\ ~Coming(n)'
        /\ \A w \in VolIds : w # v => vols'[w] = vols[w]
    BY <1>0, <1>2, <1>3, Arrival
  <2>2. ASSUME NEW w \in VolIds, w # v PROVE ~Lives(n, w)'
    BY <1>2, <2>1, <2>2 DEF Lives, Exists
  <2>3. ~Doubled(n)'
    BY <2>2 DEF Doubled, Lives
  <2> QED
    BY <2>1, <2>3
<1>4. CASE \A v \in VolIds : Lives(n, v)' => Lives(n, v)
  <2>1. ~Doubled(n)'
    BY <1>2, <1>4 DEF Doubled, Lives
  <2>2. CASE Coming(n)
    BY <1>1, <1>2, <1>4, <2>1, <2>2
  <2>3. ASSUME ~Coming(n), Coming(n)' PROVE \A v \in VolIds : ~Lives(n, v)'
    <3>1. PICK d \in Posting(n)' : TRUE
      BY <1>0, <2>3, LateSource DEF Coming
    <3>2. d \notin Posting(n) /\ d \in Calls
      BY <2>3, <3>1 DEF Coming, Posting
    <3> QED
      BY <1>0, <3>1, <3>2, PostSource, NotFoundIsNone
  <2> QED
    BY <1>1, <2>1, <2>2, <2>3
<1> QED
  BY <1>1, <1>3, <1>4

LEMMA NamesInit == Init => NamesInv
<1> SUFFICES ASSUME Init PROVE NamesInv
  OBVIOUS
<1>1. ghosts = {} /\ \A v \in VolIds : vols[v].status = "absent"
  BY DEF Init, CtrlInit, CloudInit, Absent
<1>2. \A c \in Calls : calls[c].op = "none"
  BY DEF Init, CtrlInit, Idle
<1>3. ASSUME NEW n \in Names PROVE Posting(n) = {} /\ LatePosts(n) = {} /\ ~Doubled(n)
  BY <1>1, <1>2 DEF Posting, LatePosts, At, Doubled, Exists, Live
<1> QED
  BY <1>3, TypeInit DEF NamesInv, NameInv, Racing, Coming

LEMMA NamesNext == NamesInv /\ [Next]_vars => NamesInv'
<1> SUFFICES ASSUME NamesInv, [Next]_vars PROVE NamesInv'
  OBVIOUS
<1> QED
  BY NameNext, TypeNext DEF NamesInv

-----------------------------------------------------------------------------
(* However many calls for a name are open, under how many controllers, and   *)
(* whatever late requests land: CreateVolume calls and their retries leave   *)
(* two volumes of one name only when two POSTs of the name were on their way *)
(* at once. Otherwise what a call that failed has made, or will make, is     *)
(* found by the next one.                                                    *)
THEOREM NamesUnique == Spec => []OneVolumePerName
<1>1. NamesInv => OneVolumePerName
  BY DEF NamesInv, NameInv, OneVolumePerName
<1> QED
  BY <1>1, NamesInit, NamesNext, PTL DEF Spec
=============================================================================
