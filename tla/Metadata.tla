------------------------------ MODULE Metadata ------------------------------
(* pkg/utils/metadata/metadata.go and pkg/utils/kubernetes: the identity of  *)
(* the host, looked up on every ControllerPublishVolume, which ignores the   *)
(* answer, and by GetNodeLabel for every NodeGetInfo and CreateVolume, which *)
(* goes on to the cluster of the label and its environment. Get asks the     *)
(* metadata service and the config drive in the search order and caches what *)
(* it finds for the whole process, with no lock. The config drive is mounted *)
(* on the directory for temporary files itself, which all lookups share. A   *)
(* read or write of the pointer metadataCache is atomic in what the compiler *)
(* makes of it.                                                              *)
EXTENDS Integers, Sequences

CONSTANTS
  Lookups,    \* a bound on the calls of Get open at the same time
  Readers,    \* those of them that CreateVolume makes
  Order,      \* the search order
  MaxFaults   \* a bound on failed commands and changes of the service

Sources == {"metadataService", "configDrive"}

ASSUME MetadataAssumption ==
  /\ Readers \subseteq Lookups
  /\ Order \in Seq(Sources) /\ Order # <<>>
  /\ MaxFaults \in Nat

VARIABLES
  cached,     \* metadataCache
  lookup,     \* the goroutines in Get, GetNodeLabel and CreateVolume
  service,    \* what the metadata service answers
  drive,      \* what the config drive holds
  mounted,    \* whether the drive is mounted on the temporary directory
  tmp,        \* whether that directory is there, empty when nothing is mounted
  broken,     \* history: what has failed on the drive since the process started
  faults

vars == <<cached, lookup, service, drive, mounted, tmp, broken, faults>>
hostVars == <<service, drive, mounted, tmp, broken>>

(* What parseMetadata makes of an answer: nothing of one without a UUID, but *)
(* the name of the host may be missing.                                      *)
Answers == {"none", "nameless", "named"}

Pcs == {"idle", "service", "find", "mount", "read", "unmount", "remove", "decide",
        "found", "labelled", "placed", "failed"}
Lookup == [pc : Pcs, at : 1 .. Len(Order), md : Answers]

TypeOK ==
  /\ cached \in Answers
  /\ lookup \in [Lookups -> Lookup]
  /\ service \in Answers \cup {"hangs"} /\ drive \in Answers \cup {"absent"}
  /\ mounted \in BOOLEAN /\ tmp \in BOOLEAN
  /\ broken \subseteq {"mount", "unmount"}
  /\ faults \in 0 .. MaxFaults

Idle == [pc |-> "idle", at |-> 1, md |-> "none"]

Init ==
  /\ cached = "none"
  /\ lookup = [g \in Lookups |-> Idle]
  /\ service \in Answers \cup {"hangs"}
  /\ drive \in Answers \cup {"absent"}
  /\ mounted = FALSE /\ tmp = TRUE /\ broken = {}
  /\ faults = 0

-----------------------------------------------------------------------------
At(g, pc) == lookup[g].pc = pc
Goto(g, pc) == lookup' = [lookup EXCEPT ![g].pc = pc]
GotoWith(g, pc, md) == lookup' = [lookup EXCEPT ![g].pc = pc, ![g].md = md]

Asks(i) == IF Order[i] = "metadataService" THEN "service" ELSE "find"

(* Get: the cache is looked at once, on the way in.                          *)
Enter(g) ==
  /\ At(g, "idle")
  /\ IF cached = "none" THEN Goto(g, Asks(1)) ELSE Goto(g, "found")
  /\ UNCHANGED <<cached, hostVars>>

(* getFromMetadataService: its request has no deadline.                      *)
AskService(g) ==
  /\ At(g, "service") /\ service # "hangs"
  /\ GotoWith(g, "decide", service)
  /\ UNCHANGED <<cached, hostVars>>

(* getFromConfigDrive: the device is found by its label.                     *)
FindDrive(g) ==
  /\ At(g, "find")
  /\ IF drive = "absent" THEN GotoWith(g, "decide", "none") ELSE Goto(g, "mount")
  /\ UNCHANGED <<cached, hostVars>>

(* The drive mounts once; a second mount on the same directory is refused.   *)
Mounts == tmp /\ ~mounted
MountDriveDeferred(g) ==        \* mutant: the unmount is deferred too early
  /\ At(g, "mount")
  /\ IF Mounts
     THEN mounted' = TRUE /\ Goto(g, "read")
     ELSE UNCHANGED mounted /\ GotoWith(g, "unmount", "none")
  /\ UNCHANGED <<cached, service, drive, tmp, broken>>
MountDrive(g) ==
  /\ At(g, "mount")
  /\ IF Mounts
     THEN mounted' = TRUE /\ Goto(g, "read")
     ELSE UNCHANGED mounted /\ GotoWith(g, "remove", "none")
  /\ UNCHANGED <<cached, service, drive, tmp, broken>>

ReadDriveKept(g) ==             \* mutant: the drive stays mounted after an error
  /\ At(g, "read")
  /\ GotoWith(g, IF drive = "none" THEN "remove" ELSE "unmount", drive)
  /\ UNCHANGED <<cached, hostVars>>
ReadDrive(g) ==
  /\ At(g, "read")
  /\ GotoWith(g, "unmount", drive)
  /\ UNCHANGED <<cached, hostVars>>

(* The deferred calls: unmount, then removal of the mount point, which is    *)
(* the temporary directory, unless something is mounted on it.               *)
UnmountDrive(g) ==
  /\ At(g, "unmount")
  /\ mounted' = FALSE
  /\ Goto(g, "remove")
  /\ UNCHANGED <<cached, service, drive, tmp, broken>>

RemoveDir(g) ==
  /\ At(g, "remove")
  /\ tmp' = (tmp /\ mounted)
  /\ Goto(g, "decide")
  /\ UNCHANGED <<cached, service, drive, mounted, broken>>

(* The first source that answers ends the search and fills the cache; the    *)
(* error of the last one is the error of Get.                                *)
Found(g) == cached' = lookup[g].md /\ Goto(g, "found")
NextSource(g) ==
  LET l == lookup[g] IN
  IF l.at < Len(Order)
  THEN lookup' = [lookup EXCEPT ![g].pc = Asks(l.at + 1), ![g].at = @ + 1]
  ELSE Goto(g, "failed")
DecideAll(g) ==                 \* mutant: the search goes on after a success
  /\ At(g, "decide")
  /\ IF lookup[g].md # "none" /\ lookup[g].at = Len(Order)
     THEN Found(g) ELSE NextSource(g) /\ UNCHANGED cached
  /\ UNCHANGED hostVars
DecideUncached(g) ==            \* mutant: the answer of the drive is not cached
  LET l == lookup[g] IN
  /\ At(g, "decide")
  /\ IF l.md = "none" THEN NextSource(g) /\ UNCHANGED cached
     ELSE IF Asks(l.at) = "service" THEN Found(g)
     ELSE Goto(g, "found") /\ UNCHANGED cached
  /\ UNCHANGED hostVars
DecideCounting(g) ==            \* mutant: the place in the order is moved past its end
  LET l == lookup[g] IN
  /\ At(g, "decide")
  /\ IF l.md = "none"
     THEN /\ UNCHANGED cached
          /\ lookup' = [lookup EXCEPT
               ![g].pc = IF l.at < Len(Order) THEN Asks(l.at + 1) ELSE "failed",
               ![g].at = @ + 1]
     ELSE Found(g)
  /\ UNCHANGED hostVars
DecideSaving(g) ==              \* mutant: the cache is set before the error is looked at
  /\ At(g, "decide")
  /\ IF lookup[g].md = "none" THEN NextSource(g) /\ cached' = "none" ELSE Found(g)
  /\ UNCHANGED hostVars
DecideAgain(g) ==               \* mutant: the search starts again at its end
  LET l == lookup[g] IN
  /\ At(g, "decide")
  /\ IF l.md = "none"
     THEN lookup' = [lookup EXCEPT ![g].pc = Asks((l.at % Len(Order)) + 1),
                                   ![g].at = (l.at % Len(Order)) + 1] /\ UNCHANGED cached
     ELSE Found(g)
  /\ UNCHANGED hostVars
Decide(g) ==
  /\ At(g, "decide")
  /\ IF lookup[g].md = "none" THEN NextSource(g) /\ UNCHANGED cached ELSE Found(g)
  /\ UNCHANGED hostVars

(* GetNodeLabel: the node of the cached name is read from the API server.    *)
ReadLabel(g) ==
  /\ At(g, "found") /\ g \in Readers
  /\ Goto(g, IF cached = "named" THEN "labelled" ELSE "failed")
  /\ UNCHANGED <<cached, hostVars>>

(* GetClusterDetail: the environment a new volume is put in.                 *)
ReadCluster(g) ==
  /\ At(g, "labelled")
  /\ Goto(g, "placed")
  /\ UNCHANGED <<cached, hostVars>>

Leave(g) ==
  /\ lookup[g].pc \in {"placed", "failed"} \/ (At(g, "found") /\ g \notin Readers)
  /\ lookup' = [lookup EXCEPT ![g] = Idle]
  /\ UNCHANGED <<cached, hostVars>>

(* The lookup of the drive's label fails, or the API server does, or the     *)
(* node has no label that is the number of a cluster.                        *)
LookupFails(g) ==
  /\ \/ At(g, "find") /\ GotoWith(g, "decide", "none")
     \/ (At(g, "labelled") \/ (At(g, "found") /\ g \in Readers)) /\ Goto(g, "failed")
  /\ UNCHANGED broken

(* Neither file system type mounts, or the deferred unmount fails, whose     *)
(* error is thrown away.                                                     *)
DriveFails(g) ==
  \/ At(g, "mount") /\ GotoWith(g, "remove", "none") /\ broken' = broken \cup {"mount"}
  \/ At(g, "unmount") /\ Goto(g, "remove") /\ broken' = broken \cup {"unmount"}

CommandFails(g) ==
  /\ LookupFails(g) \/ DriveFails(g)
  /\ UNCHANGED <<cached, service, drive, mounted, tmp>>

(* The metadata service comes and goes.                                      *)
ServiceChanges ==
  /\ service' \in Answers \cup {"hangs"}
  /\ UNCHANGED <<cached, lookup, drive, mounted, tmp, broken>>

Restart ==
  /\ cached' = "none" /\ tmp' = TRUE /\ mounted' = FALSE /\ broken' = {}
  /\ lookup' = [g \in Lookups |-> Idle]
  /\ UNCHANGED <<service, drive>>

Fault(F) == F /\ faults < MaxFaults /\ faults' = faults + 1

Runs(g) ==
  /\ \/ AskService(g) \/ FindDrive(g) \/ MountDrive(g) \/ ReadDrive(g)
     \/ UnmountDrive(g) \/ RemoveDir(g) \/ Decide(g)
     \/ ReadLabel(g) \/ ReadCluster(g) \/ Leave(g)
  /\ UNCHANGED faults

Next ==
  \/ \E g \in Lookups : (Enter(g) /\ UNCHANGED faults) \/ Runs(g) \/ Fault(CommandFails(g))
  \/ Fault(ServiceChanges)
  \/ Fault(Restart)

Spec == Init /\ [][Next]_vars

(* Goroutines run, and callers come back.                                    *)
FairSpec ==
  Spec /\ \A g \in Lookups : WF_vars(Runs(g)) /\ WF_vars(Enter(g) /\ UNCHANGED faults)

-----------------------------------------------------------------------------
(* Properties.                                                               *)

(* A lookup that reads the config drive has it to itself, though lookups     *)
(* take no lock and all mount it on the one directory: none of the others    *)
(* unmounts it, or removes the directory, while it reads.                    *)
ReaderHasDrive ==
  \A g \in Lookups : At(g, "read") =>
    /\ mounted /\ tmp
    /\ \A h \in Lookups : h # g => lookup[h].pc \notin {"read", "unmount"}

(* The drive is mounted only while a lookup reads it: no error of a lookup,  *)
(* and no order of the deferred calls of two, leaves it behind, but for the  *)
(* error of the unmount itself, after which nothing unmounts it any more.    *)
NoMountLeft ==
  mounted => (\E g \in Lookups : lookup[g].pc \in {"read", "unmount"}) \/ "unmount" \in broken

(* Get returns what metadataCache is by then, not what it found: though      *)
(* lookups write the cache with no lock, and some of them fail, it is never  *)
(* nil where a lookup is about to read a field of it.                        *)
AnswerIsThere == \A g \in Lookups : At(g, "found") => cached # "none"

(* Every lookup ends, whatever the drive holds and whichever commands fail,  *)
(* unless the metadata service hangs for ever.                               *)
LookupsEnd == \A g \in Lookups : []<>At(g, "idle") \/ <>[](service = "hangs")

(* A metadata service that stays up makes CreateVolume find the place of its *)
(* volume again and again, whatever the drive holds and whatever became of   *)
(* the temporary directory, unless an answer without a name was cached       *)
(* before: that one stays until the process ends.                            *)
VolumesPlaced ==
  <>[](service = "named") =>
    \A g \in Readers : []<>At(g, "placed") \/ <>[](cached = "nameless")

(* A good config drive fills the cache without the metadata service, unless  *)
(* that one hangs, or the command of a mount has failed and the temporary    *)
(* directory is gone: a lookup that reads the drive removes the directory    *)
(* too, but not before it has an answer, and lookups that fail on each       *)
(* other's mounts, or on a drive that stays mounted, do not keep all of them *)
(* from reading.                                                             *)
DriveFillsCache ==
  drive \in {"nameless", "named"} =>
    \/ <>[](cached # "none")
    \/ <>[](~tmp /\ "mount" \in broken)
    \/ <>[](service = "hangs")
=============================================================================
