-------------------------- MODULE ControllerServer --------------------------
(* The CSI controller service, pkg/driver/controllerserver.go, with the      *)
(* client calls it makes in pkg/hyperstack/hyperstack_volume.go. The gRPC    *)
(* server runs every call in a goroutine of its own and the driver keeps no  *)
(* lock, so a handler is split at each request it sends to Hyperstack and    *)
(* the steps of different calls interleave. calls[c] is the stack of one     *)
(* goroutine: where it is, its arguments and what it has read so far.        *)
EXTENDS HyperstackCloud

CONSTANTS
  Calls,      \* a bound on the calls served at the same time
  MaxPolls,   \* how often CreateVolume polls the new volume (15 in the code)
  NoVol

ASSUME ControllerAssumption ==
  /\ MaxPolls \in Nat \ {0}
  /\ NoVol \notin VolIds

VARIABLE calls

ctrlVars == <<vols, ghosts, calls>>

Ops == {"none", "create", "delete", "publish", "unpublish"}
Pcs == {"idle", "list", "post", "poll", "lookup", "get", "delete", "attach",
        "attachment", "unprotect", "detach", "replied"}
Codes == {"none", "OK", "AlreadyExists", "Internal", "NotFound", "FailedPrecondition"}

Call == [op : Ops, pc : Pcs, name : Names \cup {NoName}, size : Int,
         vol : VolIds \cup {NoVol}, vm : VMs \cup {NoVM}, att : VMs \cup {NoVM},
         polls : 0 .. (MaxPolls - 1), code : Codes, dev : Devices \cup {NoDev}]

Idle == [op |-> "none", pc |-> "idle", name |-> NoName, size |-> 0, vol |-> NoVol,
         vm |-> NoVM, att |-> NoVM, polls |-> 0, code |-> "none", dev |-> NoDev]

CtrlTypeOK == CloudTypeOK /\ calls \in [Calls -> Call]

CtrlInit == CloudInit /\ calls = [c \in Calls |-> Idle]

At(c, op, pc) == calls[c].op = op /\ calls[c].pc = pc
Now(c, call) == calls' = [calls EXCEPT ![c] = call]
Goto(c, pc) == Now(c, [calls[c] EXCEPT !.pc = pc])
Reply(c, code) == Now(c, [calls[c] EXCEPT !.pc = "replied", !.code = code])

-----------------------------------------------------------------------------
(* The calls, as they enter their handlers.                                  *)

CreateCall(n, bytes) ==
  [Idle EXCEPT !.op = "create", !.pc = "list", !.name = n,
               !.size = RoundUpSize(bytes, GiB)]
DeleteCall(n, v)    == [Idle EXCEPT !.op = "delete", !.pc = "get", !.name = n, !.vol = v]
PublishCall(v, m)   == [Idle EXCEPT !.op = "publish", !.pc = "lookup", !.vol = v, !.vm = m]
UnpublishCall(v, m) == [Idle EXCEPT !.op = "unpublish", !.pc = "get", !.vol = v, !.vm = m]

Enter(c, call) == calls[c] = Idle /\ Now(c, call)

-----------------------------------------------------------------------------
(* CreateVolume.                                                             *)

ReplyCreated(c, v) ==
  Now(c, [calls[c] EXCEPT !.pc = "replied", !.code = "OK", !.vol = v])

(* One volume found: it is the answer, whatever its status, when its size is *)
(* the size asked for.                                                       *)
CreateFoundAvailable(c, v) ==   \* mutant: what is found has to be available
  /\ Matching(calls[c].name) = {v}
  /\ IF vols[v].size # calls[c].size \/ vols[v].status # "available"
     THEN Reply(c, "AlreadyExists")
     ELSE ReplyCreated(c, v)
CreateFound(c, v) ==
  /\ Matching(calls[c].name) = {v}
  /\ IF vols[v].size # calls[c].size
     THEN Reply(c, "AlreadyExists")
     ELSE ReplyCreated(c, v)

CreateAmbiguous(c) ==
  /\ \E v, w \in Matching(calls[c].name) : v # w
  /\ Reply(c, "Internal")

(* None found: the handler reads the node's cluster label and the cluster,   *)
(* which changes nothing, and goes on to create the volume.                  *)
CreateNotFound(c) ==
  /\ Matching(calls[c].name) = {}
  /\ Goto(c, "post")

CreateList(c) ==
  /\ At(c, "create", "list")
  /\ \/ \E v \in VolIds : CreateFound(c, v)
     \/ CreateAmbiguous(c)
     \/ CreateNotFound(c)
  /\ UNCHANGED cloudVars

CreatePost(c) ==
  /\ At(c, "create", "post")
  /\ \E v \in VolIds :
       /\ Creates(v, calls[c].name, calls[c].size)
       /\ Now(c, [calls[c] EXCEPT !.pc = "poll", !.vol = v])
  /\ UNCHANGED ghosts

(* The last poll ends the loop as well as an available volume does, and the  *)
(* call succeeds in both cases.                                              *)
PollingEndsLate(c) ==           \* mutant: one poll too many
  vols[calls[c].vol].status = "available" \/ calls[c].polls = MaxPolls
PollingEnds(c) ==
  vols[calls[c].vol].status = "available" \/ calls[c].polls + 1 = MaxPolls

CreatePoll(c) ==
  /\ At(c, "create", "poll")
  /\ \/ Exists(calls[c].vol) /\ PollingEnds(c) /\ ReplyCreated(c, calls[c].vol)
     \/ /\ Exists(calls[c].vol) /\ ~PollingEnds(c)
        /\ Now(c, [calls[c] EXCEPT !.polls = @ + 1])
     \/ ~Exists(calls[c].vol) /\ Reply(c, "Internal")
  /\ UNCHANGED cloudVars

-----------------------------------------------------------------------------
(* DeleteVolume.                                                             *)

(* What the status read decides; a status that is neither in-use nor         *)
(* available is answered as a success.                                       *)
DeleteOfStrict(c, status) ==    \* mutant: only an available volume is let go
  CASE status \notin Live -> Reply(c, "NotFound")
    [] status = "in-use"  -> Reply(c, "FailedPrecondition")
    [] status = "available" -> Goto(c, "delete")
    [] OTHER -> Reply(c, "Internal")
DeleteOf(c, status) ==
  CASE status \notin Live -> Reply(c, "NotFound")
    [] status = "in-use"  -> Reply(c, "FailedPrecondition")
    [] status = "available" -> Goto(c, "delete")
    [] OTHER -> Reply(c, "OK")

DeleteGet(c) ==
  /\ At(c, "delete", "get")
  /\ DeleteOf(c, vols[calls[c].vol].status)
  /\ UNCHANGED cloudVars

DeleteSend(c) ==
  /\ At(c, "delete", "delete")
  /\ \/ Deletes(calls[c].vol) /\ Reply(c, "OK")
     \/ ~Deletable(calls[c].vol) /\ Reply(c, "Internal") /\ UNCHANGED vols
  /\ UNCHANGED ghosts

-----------------------------------------------------------------------------
(* ControllerPublishVolume.                                                  *)

(* The handler first looks its own host up in the instance metadata, without *)
(* a deadline, and ignores the answer. Metadata has the steps of the lookup. *)
PublishLookup(c) ==
  /\ At(c, "publish", "lookup")
  /\ Goto(c, "get")
  /\ UNCHANGED cloudVars

(* An attachment is answered with its device, whichever VM it is on.         *)
AnswersDeviceEarly(v) ==        \* mutant: asks at the wrong status
  vols[v].status = "attaching" /\ HasAttachment(v)
AnswersDevice(v) == vols[v].status = "in-use" /\ HasAttachment(v)

ReplyDevice(c, d) ==
  Now(c, [calls[c] EXCEPT !.pc = "replied", !.code = "OK", !.dev = d])

PublishGet(c) ==
  LET v == calls[c].vol IN
  /\ At(c, "publish", "get")
  /\ \/ ~Exists(v) /\ Reply(c, "NotFound")
     \/ AnswersDevice(v) /\ ReplyDevice(c, vols[v].dev)
     \/ vols[v].status = "available" /\ Goto(c, "attach")
     \/ /\ Exists(v) /\ ~AnswersDevice(v) /\ vols[v].status # "available"
        /\ Reply(c, "OK")
  /\ UNCHANGED cloudVars

(* The attachment is only requested: the answer has no device yet.           *)
PublishAttach(c) ==
  /\ At(c, "publish", "attach")
  /\ \/ Attaches(calls[c].vol, calls[c].vm) /\ Reply(c, "OK")
     \/ ~Attachable(calls[c].vol) /\ Reply(c, "Internal") /\ UNCHANGED vols
  /\ UNCHANGED ghosts

-----------------------------------------------------------------------------
(* ControllerUnpublishVolume, DetachVolumeFromNode, UpdateVolumeAttachment.  *)

UnpublishNeedsDetachOf(c) ==    \* mutant: nothing to do without a device
  vols[calls[c].vol].status = "in-use" /\ HasAttachment(calls[c].vol)
UnpublishNeedsDetach(c) == vols[calls[c].vol].status = "in-use"

UnpublishGet(c) ==
  /\ At(c, "unpublish", "get")
  /\ \/ ~Exists(calls[c].vol) /\ Reply(c, "NotFound")
     \/ UnpublishNeedsDetach(c) /\ Goto(c, "attachment")
     \/ Exists(calls[c].vol) /\ ~UnpublishNeedsDetach(c) /\ Reply(c, "OK")
  /\ UNCHANGED cloudVars

(* UpdateVolumeAttachment reads the volume again and takes its first         *)
(* attachment; the VM stands for the attachment's id.                        *)
UnpublishAttachment(c) ==
  LET v == calls[c].vol IN
  /\ At(c, "unpublish", "attachment")
  /\ \/ ~Exists(v) /\ Reply(c, "Internal")
     \/ /\ Exists(v) /\ HasAttachment(v)
        /\ Now(c, [calls[c] EXCEPT !.pc = "unprotect", !.att = vols[v].vm])
  /\ UNCHANGED cloudVars

UnpublishNoUnprotect(c) ==      \* mutant: the protection is left on
  /\ At(c, "unpublish", "unprotect")
  /\ Goto(c, "detach")
  /\ UNCHANGED cloudVars
UnpublishUnprotect(c) ==
  LET v == calls[c].vol
      a == calls[c].att IN
  /\ At(c, "unpublish", "unprotect")
  /\ \/ Unprotects(v, a) /\ Goto(c, "detach")
     \/ ~Unprotectable(v, a) /\ Reply(c, "Internal") /\ UNCHANGED vols
  /\ UNCHANGED ghosts

UnpublishDetachFound(c) ==      \* mutant: detaches from the VM it found
  LET v == calls[c].vol
      m == calls[c].att IN
  /\ At(c, "unpublish", "detach")
  /\ \/ Detaches(v, m) /\ Reply(c, "OK")
     \/ ~Detachable(v, m) /\ Reply(c, "Internal") /\ UNCHANGED vols
  /\ UNCHANGED ghosts
UnpublishDetach(c) ==
  LET v == calls[c].vol
      m == calls[c].vm IN
  /\ At(c, "unpublish", "detach")
  /\ \/ Detaches(v, m) /\ Reply(c, "OK")
     \/ ~Detachable(v, m) /\ Reply(c, "Internal") /\ UNCHANGED vols
  /\ UNCHANGED ghosts

-----------------------------------------------------------------------------
(* Failures.                                                                 *)

(* The request a call is waiting on, when that request changes a volume.     *)
InFlight(c) ==
  LET call == calls[c] IN
  CASE call.pc = "post"      -> {Post(call.name, call.size)}
    [] call.pc = "delete"    -> {Delete(call.vol)}
    [] call.pc = "attach"    -> {Attach(call.vol, call.vm)}
    [] call.pc = "unprotect" -> {Unprotect(call.vol, call.att)}
    [] call.pc = "detach"    -> {Detach(call.vol, call.vm)}
    [] OTHER                 -> {}

LeavesBehind(lost) == ghosts' = IF Outlive THEN ghosts \cup lost ELSE ghosts

(* A request, its answer or the call's own answer is lost, or the deadline   *)
(* of the call passes: the caller sees an error whatever the handler did.    *)
CallFails(c) ==
  /\ calls[c] # Idle
  /\ Now(c, Idle)
  /\ \E lost \in SUBSET InFlight(c) : LeavesBehind(lost)
  /\ UNCHANGED vols

(* The process stops: every call it serves fails.                            *)
Stops ==
  /\ calls' = [c \in Calls |-> Idle]
  /\ \E lost \in SUBSET UNION {InFlight(c) : c \in Calls} : LeavesBehind(lost)
  /\ UNCHANGED vols

Crash == (\E c \in Calls : calls[c] # Idle) /\ Stops

(* UpdateVolumeAttachment indexes the attachments of GetVolume without       *)
(* looking at their number, and nothing recovers from the panic.             *)
FindsNoAttachment(c) ==
  /\ At(c, "unpublish", "attachment")
  /\ Exists(calls[c].vol) /\ ~HasAttachment(calls[c].vol)
Panic(c) == FindsNoAttachment(c) /\ Stops

CallStep(c) ==
  \/ CreateList(c) \/ CreatePost(c) \/ CreatePoll(c)
  \/ DeleteGet(c) \/ DeleteSend(c)
  \/ PublishLookup(c) \/ PublishGet(c) \/ PublishAttach(c)
  \/ UnpublishGet(c) \/ UnpublishAttachment(c)
  \/ UnpublishUnprotect(c) \/ UnpublishDetach(c)
  \/ Panic(c)
=============================================================================
