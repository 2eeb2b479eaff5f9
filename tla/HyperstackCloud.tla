-------------------------- MODULE HyperstackCloud --------------------------
(* The volumes of one Hyperstack account, as the driver sees them through    *)
(* pkg/hyperstack/hyperstack_volume.go: the requests the driver sends, the   *)
(* answers it reads, and the status changes the service makes on its own.    *)
(* The service is external; its behaviour is what the driver's code expects  *)
(* of it (statuses available and in-use, attachments that become ATTACHED,   *)
(* protected attachments that must be unprotected before a detach).          *)
EXTENDS Integers, FiniteSets

CONSTANTS
  Names,      \* volume names: the names the provisioner gives its claims
  Within,     \* <<n, m>> is in Within when the name n occurs in the name m
  VolIds,     \* volume ids; a bound on how many volumes are ever created
  VMs,        \* virtual machines, the CSI node ids
  Devices,    \* device names a VM may give an attached volume
  GiB,        \* the bytes of the allocation unit
  NoName, NoVM, NoDev,
  Outlive     \* whether a request may take effect after its call has failed

ASSUME CloudAssumption ==
  /\ Within \subseteq Names \X Names
  /\ \A n \in Names : <<n, n>> \in Within
  /\ NoName \notin Names /\ NoVM \notin VMs /\ NoDev \notin Devices
  /\ GiB \in Nat \ {0}
  /\ Outlive \in BOOLEAN

VARIABLES
  vols,       \* the volumes of the account
  ghosts      \* requests whose call has failed and that may still take effect

cloudVars == <<vols, ghosts>>

(* What GetVolume and the list of volumes still return.                      *)
Live == {"creating", "available", "attaching", "in-use", "detaching",
         "error", "deleting"}
Statuses == Live \cup {"absent", "deleted"}

Volume == [name : Names \cup {NoName}, size : Int, status : Statuses,
           vm : VMs \cup {NoVM}, dev : Devices \cup {NoDev}, protected : BOOLEAN]

Absent == [name |-> NoName, size |-> 0, status |-> "absent",
           vm |-> NoVM, dev |-> NoDev, protected |-> FALSE]

(* The requests that change a volume.                                        *)
Post(n, s)      == [kind |-> "post", name |-> n, size |-> s]
Delete(v)       == [kind |-> "delete", vol |-> v]
Attach(v, m)    == [kind |-> "attach", vol |-> v, vm |-> m]
Unprotect(v, m) == [kind |-> "unprotect", vol |-> v, vm |-> m]
Detach(v, m)    == [kind |-> "detach", vol |-> v, vm |-> m]

Request == [kind : {"post"}, name : Names, size : Int]
             \cup [kind : {"delete"}, vol : VolIds]
             \cup [kind : {"attach", "unprotect", "detach"}, vol : VolIds, vm : VMs]

CloudTypeOK == vols \in [VolIds -> Volume] /\ ghosts \subseteq Request

CloudInit == vols = [v \in VolIds |-> Absent] /\ ghosts = {}

-----------------------------------------------------------------------------
(* Queries.                                                                  *)

Exists(v) == vols[v].status \in Live

(* GetVolumesByName keeps the rows whose name contains the one asked for.    *)
NameMatchesAny(n, v) == TRUE    \* mutant: the name is not looked at
NameMatches(n, v) == <<n, vols[v].name>> \in Within
MatchingAvailable(n) ==         \* mutant: only what is usable counts
  {v \in VolIds : vols[v].status = "available" /\ NameMatches(n, v)}
Matching(n) == {v \in VolIds : Exists(v) /\ NameMatches(n, v)}

(* GetVolume drops the attachments whose status is not ATTACHED; a volume    *)
(* has one attachment, and it has a device once it is ATTACHED.              *)
HasAttachment(v) == vols[v].dev # NoDev

RoundDownSize(bytes, unit) == bytes \div unit    \* mutant: the rest is dropped
RoundUpSize(bytes, unit) == bytes \div unit + (IF bytes % unit > 0 THEN 1 ELSE 0)

-----------------------------------------------------------------------------
(* Requests: when the service accepts one, and what it then does.            *)

SetVolume(v, vol) == vols' = [vols EXCEPT ![v] = vol]

NewVolume(n, s) == [Absent EXCEPT !.name = n, !.size = s, !.status = "creating"]

Creates(v, n, s) ==
  /\ vols[v].status = "absent"
  /\ SetVolume(v, NewVolume(n, s))

Deletable(v) == vols[v].status = "available"
Deletes(v) ==
  /\ Deletable(v)
  /\ SetVolume(v, [vols[v] EXCEPT !.status = "deleting"])

(* The driver attaches with Protected set.                                   *)
AttachingPlain(vol, m) ==       \* mutant: Protected is not set
  [vol EXCEPT !.status = "attaching", !.vm = m, !.protected = FALSE]
Attaching(vol, m) == [vol EXCEPT !.status = "attaching", !.vm = m, !.protected = TRUE]
Attachable(v) == vols[v].status = "available"
Attaches(v, m) ==
  /\ Attachable(v)
  /\ SetVolume(v, Attaching(vols[v], m))

Unprotectable(v, m) == vols[v].status \in {"attaching", "in-use"} /\ vols[v].vm = m
Unprotects(v, m) ==
  /\ Unprotectable(v, m)
  /\ SetVolume(v, [vols[v] EXCEPT !.protected = FALSE])

Detachable(v, m) ==
  vols[v].status = "in-use" /\ vols[v].vm = m /\ ~vols[v].protected
Detaches(v, m) ==
  /\ Detachable(v, m)
  /\ SetVolume(v, [vols[v] EXCEPT !.status = "detaching", !.dev = NoDev])

(* A request whose call has failed arrives late, or never.                   *)
GhostLands(r) ==
  /\ r \in ghosts
  /\ ghosts' = ghosts \ {r}
  /\ \/ r.kind = "post" /\ \E v \in VolIds : Creates(v, r.name, r.size)
     \/ r.kind = "delete" /\ Deletes(r.vol)
     \/ r.kind = "attach" /\ Attaches(r.vol, r.vm)
     \/ r.kind = "unprotect" /\ Unprotects(r.vol, r.vm)
     \/ r.kind = "detach" /\ Detaches(r.vol, r.vm)
     \/ UNCHANGED vols

-----------------------------------------------------------------------------
(* What the service does on its own.                                         *)

Becomes(v, from, to) ==
  /\ vols[v].status = from
  /\ SetVolume(v, [vols[v] EXCEPT !.status = to])
  /\ UNCHANGED ghosts

CreateDone(v)   == Becomes(v, "creating", "available")
CreateBroken(v) == Becomes(v, "creating", "error")
AttachDone(v)   == Becomes(v, "attaching", "in-use")
DeleteDone(v)   == Becomes(v, "deleting", "deleted")

(* The attachment of a volume in use becomes ATTACHED, with a device name    *)
(* that no other volume of the VM has.                                       *)
DeviceReady(v) ==
  /\ vols[v].status = "in-use" /\ vols[v].dev = NoDev
  /\ \E d \in Devices :
       /\ \A w \in VolIds : vols[w].vm = vols[v].vm => vols[w].dev # d
       /\ SetVolume(v, [vols[v] EXCEPT !.dev = d])
  /\ UNCHANGED ghosts

Detached(vol) == [vol EXCEPT !.status = "available", !.vm = NoVM, !.dev = NoDev,
                             !.protected = FALSE]
Releases(v, from) ==
  /\ vols[v].status = from
  /\ SetVolume(v, Detached(vols[v]))
  /\ UNCHANGED ghosts

AttachBroken(v) == Releases(v, "attaching")
DetachDone(v)   == Releases(v, "detaching")

CloudProgress(v) ==
  CreateDone(v) \/ AttachDone(v) \/ DeviceReady(v) \/ DetachDone(v) \/ DeleteDone(v)
CloudFault(v) == CreateBroken(v) \/ AttachBroken(v)
=============================================================================
