--------------------------- MODULE Metadata_proofs ---------------------------
(* Proofs about Metadata, for any number of lookups and faults and any       *)
(* search order: the config drive is read by one lookup at a time, is not    *)
(* left mounted, and no lookup reads a field of a nil answer.                *)
EXTENDS Metadata, TLAPS

(* The lookup that has mounted the drive, and those that have not.           *)
HoldsDrive(g) == lookup[g].pc \in {"read", "unmount"}

DriveInv ==
  /\ \A g \in Lookups : HoldsDrive(g) => mounted /\ tmp
  /\ \A g, h \in Lookups : HoldsDrive(g) /\ HoldsDrive(h) => g = h
  /\ NoMountLeft

(* A drive that is mounted, or about to be, is there.                        *)
DriveFound == \A g \in Lookups : lookup[g].pc \in {"mount", "read"} => drive # "absent"

Inv == TypeOK /\ DriveFound /\ DriveInv /\ AnswerIsThere

-----------------------------------------------------------------------------
LEMMA OrderFacts ==
  /\ Len(Order) \in Nat /\ Len(Order) >= 1
  /\ \A i \in 1 .. Len(Order) : Asks(i) \in {"service", "find"}
BY MetadataAssumption DEF Asks

(* The ways a lookup moves on keep the type of the lookups.                  *)
LEMMA MoveTyped ==
  ASSUME lookup \in [Lookups -> Lookup], NEW g \in Lookups,
         NEW pc \in Pcs, NEW md \in Answers
  PROVE  /\ Goto(g, pc) => lookup' \in [Lookups -> Lookup]
         /\ GotoWith(g, pc, md) => lookup' \in [Lookups -> Lookup]
<1>1. lookup[g] \in Lookup
  OBVIOUS
<1>2. [lookup[g] EXCEPT !.pc = pc] \in Lookup
  BY <1>1 DEF Lookup
<1>3. [[lookup[g] EXCEPT !.pc = pc] EXCEPT !.md = md] \in Lookup
  BY <1>1 DEF Lookup
<1>4. ASSUME Goto(g, pc) PROVE lookup' \in [Lookups -> Lookup]
  BY <1>2, <1>4 DEF Goto
<1>5. ASSUME GotoWith(g, pc, md) PROVE lookup' \in [Lookups -> Lookup]
  BY <1>3, <1>5 DEF GotoWith
<1> QED
  BY <1>4, <1>5

LEMMA NextSourceTyped ==
  ASSUME lookup \in [Lookups -> Lookup], NEW g \in Lookups, NextSource(g)
  PROVE  lookup' \in [Lookups -> Lookup]
<1>1. lookup[g] \in Lookup
  OBVIOUS
<1>2. CASE lookup[g].at < Len(Order)
  <2> DEFINE at == lookup[g].at + 1
  <2>1. at \in 1 .. Len(Order)
    BY <1>1, <1>2, OrderFacts DEF Lookup
  <2>2. Asks(at) \in Pcs
    BY <2>1, OrderFacts DEF Pcs
  <2>3. [[lookup[g] EXCEPT !.pc = Asks(at)] EXCEPT !.at = at] \in Lookup
    BY <1>1, <2>1, <2>2 DEF Lookup
  <2>4. lookup' = [lookup EXCEPT ![g] = [[lookup[g] EXCEPT !.pc = Asks(at)] EXCEPT !.at = at]]
    BY <1>2 DEF NextSource
  <2> QED
    BY <2>3, <2>4
<1>3. CASE ~(lookup[g].at < Len(Order))
  <2>1. Goto(g, "failed")
    BY <1>3 DEF NextSource
  <2> QED
    BY <2>1, MoveTyped DEF Pcs, Answers
<1> QED
  BY <1>2, <1>3

LEMMA IdleTyped == Idle \in Lookup
BY OrderFacts DEF Idle, Lookup, Pcs, Answers

LEMMA InitInv == Init => Inv
<1> SUFFICES ASSUME Init PROVE Inv
  OBVIOUS
<1>1. TypeOK
  <2>1. lookup \in [Lookups -> Lookup]
    BY IdleTyped DEF Init
  <2>2. faults \in 0 .. MaxFaults
    BY MetadataAssumption DEF Init
  <2> QED
    BY <2>1, <2>2 DEF Init, TypeOK, Answers
<1>2. DriveInv /\ DriveFound
  BY DEF Init, DriveInv, DriveFound, HoldsDrive, Idle, NoMountLeft
<1>3. AnswerIsThere
  BY DEF Init, AnswerIsThere, At, Idle
<1> QED
  BY <1>1, <1>2, <1>3 DEF Inv

-----------------------------------------------------------------------------
(* Type correctness: each step moves one lookup, or all of them.             *)
LEMMA TypeStep == TypeOK /\ DriveFound /\ [Next]_vars => TypeOK'
<1> SUFFICES ASSUME TypeOK, DriveFound, [Next]_vars PROVE TypeOK'
  OBVIOUS
<1>a. /\ cached \in Answers /\ lookup \in [Lookups -> Lookup]
      /\ service \in Answers \cup {"hangs"} /\ drive \in Answers \cup {"absent"}
      /\ mounted \in BOOLEAN /\ tmp \in BOOLEAN /\ faults \in 0 .. MaxFaults
      /\ broken \subseteq {"mount", "unmount"}
  BY DEF TypeOK
<1> HIDE DEF TypeOK
<1>b. ASSUME NEW g \in Lookups PROVE lookup[g].md \in Answers
  BY <1>a DEF Lookup
<1>1. CASE UNCHANGED vars
  BY <1>1, <1>a DEF vars, TypeOK
<1>2. ASSUME NEW g \in Lookups, Enter(g), UNCHANGED faults
      PROVE  TypeOK'
  <2>1. Asks(1) \in Pcs
    BY OrderFacts DEF Pcs
  <2>2. lookup' \in [Lookups -> Lookup]
    BY <1>2, <1>a, <2>1, MoveTyped DEF Enter, Pcs, Answers
  <2> QED
    BY <1>2, <1>a, <2>2 DEF Enter, hostVars, TypeOK
<1>3. ASSUME NEW g \in Lookups, Runs(g)
      PROVE  TypeOK'
  <2>1. CASE AskService(g)
    <3>1. service \in Answers
      BY <2>1, <1>a DEF AskService
    <3>2. lookup' \in [Lookups -> Lookup]
      BY <2>1, <3>1, <1>a, MoveTyped DEF AskService, Pcs
    <3> QED
      BY <1>3, <2>1, <1>a, <3>2 DEF Runs, AskService, hostVars, TypeOK
  <2>2. CASE FindDrive(g)
    <3>1. lookup' \in [Lookups -> Lookup]
      BY <2>2, <1>a, MoveTyped DEF FindDrive, Pcs, Answers
    <3> QED
      BY <1>3, <2>2, <1>a, <3>1 DEF Runs, FindDrive, hostVars, TypeOK
  <2>3. CASE MountDrive(g)
    <3>1. lookup' \in [Lookups -> Lookup]
      BY <2>3, <1>a, MoveTyped DEF MountDrive, Pcs, Answers
    <3> QED
      BY <1>3, <2>3, <1>a, <3>1 DEF Runs, MountDrive, TypeOK
  <2>4. CASE ReadDrive(g)
    <3>1. drive \in Answers
      BY <2>4, <1>a DEF ReadDrive, At, DriveFound
    <3>2. lookup' \in [Lookups -> Lookup]
      BY <2>4, <3>1, <1>a, MoveTyped DEF ReadDrive, Pcs
    <3> QED
      BY <1>3, <2>4, <1>a, <3>2 DEF Runs, ReadDrive, hostVars, TypeOK
  <2>5. CASE UnmountDrive(g)
    <3>1. lookup' \in [Lookups -> Lookup]
      BY <2>5, <1>a, MoveTyped DEF UnmountDrive, Pcs, Answers
    <3> QED
      BY <1>3, <2>5, <1>a, <3>1 DEF Runs, UnmountDrive, TypeOK
  <2>6. CASE RemoveDir(g)
    <3>1. lookup' \in [Lookups -> Lookup]
      BY <2>6, <1>a, MoveTyped DEF RemoveDir, Pcs, Answers
    <3> QED
      BY <1>3, <2>6, <1>a, <3>1 DEF Runs, RemoveDir, TypeOK
  <2>7. CASE Decide(g)
    <3>1. lookup' \in [Lookups -> Lookup] /\ cached' \in Answers
      BY <2>7, <1>a, <1>b, MoveTyped, NextSourceTyped DEF Decide, Found, Pcs, Answers
    <3> QED
      BY <1>3, <2>7, <1>a, <3>1 DEF Runs, Decide, hostVars, TypeOK
  <2>8. CASE ReadLabel(g) \/ ReadCluster(g)
    <3>1. lookup' \in [Lookups -> Lookup]
      BY <2>8, <1>a, MoveTyped DEF ReadLabel, ReadCluster, Pcs, Answers
    <3> QED
      BY <1>3, <2>8, <1>a, <3>1 DEF Runs, ReadLabel, ReadCluster, hostVars, TypeOK
  <2>9. CASE Leave(g)
    <3>1. lookup' \in [Lookups -> Lookup]
      BY <2>9, <1>a, IdleTyped DEF Leave
    <3> QED
      BY <1>3, <2>9, <1>a, <3>1 DEF Runs, Leave, hostVars, TypeOK
  <2> QED
    BY <1>3, <2>1, <2>2, <2>3, <2>4, <2>5, <2>6, <2>7, <2>8, <2>9 DEF Runs
<1>4. ASSUME NEW g \in Lookups, Fault(CommandFails(g))
      PROVE  TypeOK'
  <2>1. lookup' \in [Lookups -> Lookup]
    BY <1>4, <1>a, MoveTyped DEF Fault, CommandFails, LookupFails, DriveFails, Pcs, Answers
  <2>2. faults' \in 0 .. MaxFaults
    BY <1>4, <1>a, MetadataAssumption DEF Fault
  <2> QED
    BY <1>4, <1>a, <2>1, <2>2
    DEF Fault, CommandFails, LookupFails, DriveFails, TypeOK
<1>5. CASE Fault(ServiceChanges)
  <2>1. faults' \in 0 .. MaxFaults
    BY <1>5, <1>a, MetadataAssumption DEF Fault
  <2> QED
    BY <1>5, <1>a, <2>1 DEF Fault, ServiceChanges, TypeOK
<1>6. CASE Fault(Restart)
  <2>1. faults' \in 0 .. MaxFaults
    BY <1>6, <1>a, MetadataAssumption DEF Fault
  <2> QED
    BY <1>6, <1>a, <2>1, IdleTyped DEF Fault, Restart, TypeOK, Answers
<1> QED
  BY <1>1, <1>2, <1>3, <1>4, <1>5, <1>6 DEF Next
-----------------------------------------------------------------------------
(* A lookup that does not hold the drive moves to a place where it does not  *)
(* hold it either, and leaves the drive as it is.                            *)
LEMMA MovesAside ==
  ASSUME DriveFound, DriveInv, NEW g \in Lookups, ~HoldsDrive(g),
         lookup'[g].pc \notin {"mount", "read", "unmount"},
         \A h \in Lookups \ {g} : lookup'[h] = lookup[h],
         UNCHANGED <<drive, mounted, tmp>>, broken \subseteq broken'
  PROVE  DriveFound' /\ DriveInv'
<1>1. DriveFound'
  BY DEF DriveFound
<1>2. \A h \in Lookups : HoldsDrive(h)' <=> HoldsDrive(h)
  BY DEF HoldsDrive
<1>3. NoMountLeft'
  BY <1>2 DEF DriveInv, NoMountLeft, HoldsDrive
<1>4. \A h \in Lookups : HoldsDrive(h)' => (mounted /\ tmp)'
  BY <1>2 DEF DriveInv
<1>5. \A h, i \in Lookups : HoldsDrive(h)' /\ HoldsDrive(i)' => h = i
  BY <1>2 DEF DriveInv
<1> QED
  BY <1>1, <1>3, <1>4, <1>5 DEF DriveInv

(* What a step does to the places the lookups are at: one of them moves, or  *)
(* all of them are idle.                                                     *)
LEMMA DriveStep == Inv /\ [Next]_vars => DriveFound' /\ DriveInv'
<1> SUFFICES ASSUME Inv, [Next]_vars PROVE DriveFound' /\ DriveInv'
  OBVIOUS
<1>a. lookup \in [Lookups -> Lookup] /\ (\A g \in Lookups : lookup[g] \in Lookup)
  BY DEF Inv, TypeOK
<1>b. DriveFound /\ DriveInv
  BY DEF Inv
<1>c. ASSUME NEW g \in Lookups, NEW pc, NEW md, Goto(g, pc) \/ GotoWith(g, pc, md)
      PROVE  /\ lookup'[g].pc = pc
             /\ \A h \in Lookups \ {g} : lookup'[h] = lookup[h]
  BY <1>a, <1>c DEF Goto, GotoWith, Lookup
<1>1. CASE UNCHANGED vars
  BY <1>1, <1>b DEF vars, DriveFound, DriveInv, HoldsDrive, NoMountLeft
<1>2. ASSUME NEW g \in Lookups, Enter(g)
      PROVE  DriveFound' /\ DriveInv'
  <2>1. Asks(1) \in {"service", "find"}
    BY OrderFacts
  <2>2. PICK pc \in {"service", "find", "found"} : Goto(g, pc)
    BY <1>2, <2>1 DEF Enter
  <2>3. lookup'[g].pc = pc /\ \A h \in Lookups \ {g} : lookup'[h] = lookup[h]
    BY <1>c, <2>2
  <2>4. ~HoldsDrive(g) /\ UNCHANGED <<drive, mounted, tmp, broken>>
    BY <1>2 DEF Enter, At, HoldsDrive, hostVars
  <2> QED
    BY <1>b, <2>3, <2>4, MovesAside
<1>3. ASSUME NEW g \in Lookups, Runs(g)
      PROVE  DriveFound' /\ DriveInv'
  <2>1. CASE AskService(g)
    <3>1. lookup'[g].pc = "decide" /\ \A h \in Lookups \ {g} : lookup'[h] = lookup[h]
      BY <1>c, <2>1 DEF AskService
    <3>2. ~HoldsDrive(g) /\ UNCHANGED <<drive, mounted, tmp, broken>>
      BY <2>1 DEF AskService, At, HoldsDrive, hostVars
    <3> QED
      BY <1>b, <3>1, <3>2, MovesAside
  <2>2. CASE FindDrive(g)
    <3>0. ~HoldsDrive(g) /\ UNCHANGED <<drive, mounted, tmp, broken>>
      BY <2>2 DEF FindDrive, At, HoldsDrive, hostVars
    <3>1. CASE drive = "absent"
      <4>1. GotoWith(g, "decide", "none")
        BY <2>2, <3>1 DEF FindDrive
      <4>2. lookup'[g].pc = "decide" /\ \A h \in Lookups \ {g} : lookup'[h] = lookup[h]
        BY <1>c, <4>1
      <4> QED
        BY <1>b, <3>0, <4>2, MovesAside
    <3>2. CASE drive # "absent"
      <4>1. Goto(g, "mount")
        BY <2>2, <3>2 DEF FindDrive
      <4>2. lookup'[g].pc = "mount" /\ \A h \in Lookups \ {g} : lookup'[h] = lookup[h]
        BY <1>c, <4>1
      <4>3. \A h \in Lookups : HoldsDrive(h)' <=> HoldsDrive(h)
        BY <3>0, <4>2 DEF HoldsDrive
      <4>4. DriveFound'
        BY <1>b, <3>0, <3>2, <4>2 DEF DriveFound
      <4>5. DriveInv'
        BY <1>b, <3>0, <4>3 DEF DriveInv, NoMountLeft, HoldsDrive
      <4> QED
        BY <4>4, <4>5
    <3> QED
      BY <3>1, <3>2
  <2>3. CASE MountDrive(g)
    <3>1. CASE Mounts
      <4>1. Goto(g, "read") /\ mounted' /\ tmp' /\ UNCHANGED drive
        BY <2>3, <3>1 DEF MountDrive, Mounts
      <4>2. lookup'[g].pc = "read" /\ \A h \in Lookups \ {g} : lookup'[h] = lookup[h]
        BY <1>c, <4>1
      <4>3. \A h \in Lookups : ~HoldsDrive(h)
        BY <1>b, <3>1 DEF DriveInv, Mounts
      <4>4. \A h \in Lookups : HoldsDrive(h)' => h = g
        BY <4>2, <4>3 DEF HoldsDrive
      <4>5. drive # "absent"
        BY <1>b, <2>3 DEF MountDrive, At, DriveFound
      <4>6. DriveFound'
        BY <1>b, <4>1, <4>2, <4>5 DEF DriveFound
      <4>7. DriveInv'
        BY <4>1, <4>2, <4>4 DEF DriveInv, NoMountLeft
      <4> QED
        BY <4>6, <4>7
    <3>2. CASE ~Mounts
      <4>1. GotoWith(g, "remove", "none") /\ UNCHANGED <<drive, mounted, tmp, broken>>
        BY <2>3, <3>2 DEF MountDrive
      <4>2. lookup'[g].pc = "remove" /\ \A h \in Lookups \ {g} : lookup'[h] = lookup[h]
        BY <1>c, <4>1
      <4>3. ~HoldsDrive(g)
        BY <2>3 DEF MountDrive, At, HoldsDrive
      <4> QED
        BY <1>b, <4>1, <4>2, <4>3, MovesAside
    <3> QED
      BY <3>1, <3>2
  <2>4. CASE ReadDrive(g)
    <3>1. lookup'[g].pc = "unmount" /\ \A h \in Lookups \ {g} : lookup'[h] = lookup[h]
      BY <1>c, <2>4 DEF ReadDrive
    <3>2. HoldsDrive(g) /\ UNCHANGED <<drive, mounted, tmp, broken>>
      BY <2>4 DEF ReadDrive, At, HoldsDrive, hostVars
    <3>3. \A h \in Lookups : HoldsDrive(h)' <=> HoldsDrive(h)
      BY <3>1, <3>2 DEF HoldsDrive
    <3>4. DriveFound'
      BY <1>b, <3>1, <3>2 DEF DriveFound
    <3>5. DriveInv'
      BY <1>b, <3>2, <3>3 DEF DriveInv, NoMountLeft, HoldsDrive
    <3> QED
      BY <3>4, <3>5
  <2>5. CASE UnmountDrive(g)
    <3>1. lookup'[g].pc = "remove" /\ \A h \in Lookups \ {g} : lookup'[h] = lookup[h]
      BY <1>c, <2>5 DEF UnmountDrive
    <3>2. HoldsDrive(g) /\ UNCHANGED <<drive, tmp>> /\ ~mounted'
      BY <2>5 DEF UnmountDrive, At, HoldsDrive
    <3>3. \A h \in Lookups : HoldsDrive(h) => h = g
      BY <1>b, <3>2 DEF DriveInv
    <3>4. \A h \in Lookups : ~HoldsDrive(h)'
      BY <3>1, <3>3 DEF HoldsDrive
    <3>5. DriveFound'
      BY <1>b, <3>1, <3>2 DEF DriveFound
    <3>6. DriveInv'
      BY <3>2, <3>4 DEF DriveInv, NoMountLeft
    <3> QED
      BY <3>5, <3>6
  <2>6. CASE RemoveDir(g)
    <3>1. lookup'[g].pc = "decide" /\ \A h \in Lookups \ {g} : lookup'[h] = lookup[h]
      BY <1>c, <2>6 DEF RemoveDir
    <3>2. ~HoldsDrive(g) /\ UNCHANGED <<drive, mounted, broken>> /\ tmp' = (tmp /\ mounted)
      BY <2>6 DEF RemoveDir, At, HoldsDrive
    <3>3. \A h \in Lookups : HoldsDrive(h)' <=> HoldsDrive(h)
      BY <3>1, <3>2 DEF HoldsDrive
    <3>4. DriveFound'
      BY <1>b, <3>1, <3>2 DEF DriveFound
    <3>5. \A h \in Lookups : HoldsDrive(h)' => (mounted /\ tmp)'
      BY <1>b, <3>2, <3>3 DEF DriveInv
    <3>6. NoMountLeft' /\ \A h, i \in Lookups : HoldsDrive(h)' /\ HoldsDrive(i)' => h = i
      BY <1>b, <3>2, <3>3 DEF DriveInv, NoMountLeft, HoldsDrive
    <3> QED
      BY <3>4, <3>5, <3>6 DEF DriveInv
  <2>7. CASE Decide(g)
    <3>0. ~HoldsDrive(g) /\ UNCHANGED <<drive, mounted, tmp, broken>>
      BY <2>7 DEF Decide, At, HoldsDrive, hostVars
    <3>1. ASSUME NEW pc \in {"found", "failed"}, Goto(g, pc)
          PROVE  DriveFound' /\ DriveInv'
      <4>1. lookup'[g].pc = pc /\ \A h \in Lookups \ {g} : lookup'[h] = lookup[h]
        BY <1>c, <3>1
      <4> QED
        BY <1>b, <3>0, <4>1, MovesAside
    <3>2. CASE NextSource(g) /\ lookup[g].at < Len(Order)
      <4>1. lookup[g].at + 1 \in 1 .. Len(Order)
        BY <1>a, <3>2, OrderFacts DEF Lookup
      <4>2. /\ lookup'[g].pc = Asks(lookup[g].at + 1)
            /\ \A h \in Lookups \ {g} : lookup'[h] = lookup[h]
        BY <1>a, <3>2 DEF NextSource, Lookup
      <4>3. Asks(lookup[g].at + 1) \in {"service", "find"}
        BY <4>1, OrderFacts
      <4> QED
        BY <1>b, <3>0, <4>2, <4>3, MovesAside
    <3> QED
      BY <2>7, <3>1, <3>2 DEF Decide, Found, NextSource
  <2>8. CASE ReadLabel(g) \/ ReadCluster(g)
    <3>1. PICK pc \in {"labelled", "placed", "failed"} : Goto(g, pc)
      BY <2>8 DEF ReadLabel, ReadCluster
    <3>2. lookup'[g].pc = pc /\ \A h \in Lookups \ {g} : lookup'[h] = lookup[h]
      BY <1>c, <3>1
    <3>3. ~HoldsDrive(g) /\ UNCHANGED <<drive, mounted, tmp, broken>>
      BY <2>8 DEF ReadLabel, ReadCluster, At, HoldsDrive, hostVars
    <3> QED
      BY <1>b, <3>2, <3>3, MovesAside
  <2>9. CASE Leave(g)
    <3>1. lookup'[g].pc = "idle" /\ \A h \in Lookups \ {g} : lookup'[h] = lookup[h]
      BY <1>a, <2>9 DEF Leave, Idle
    <3>2. ~HoldsDrive(g) /\ UNCHANGED <<drive, mounted, tmp, broken>>
      BY <2>9 DEF Leave, At, HoldsDrive, hostVars
    <3> QED
      BY <1>b, <3>1, <3>2, MovesAside
  <2> QED
    BY <1>3, <2>1, <2>2, <2>3, <2>4, <2>5, <2>6, <2>7, <2>8, <2>9 DEF Runs
<1>4. ASSUME NEW g \in Lookups, CommandFails(g)
      PROVE  DriveFound' /\ DriveInv'
  <2>1. UNCHANGED <<drive, mounted, tmp>>
    BY <1>4 DEF CommandFails
  <2>2. CASE LookupFails(g) \/ At(g, "mount")
    <3>1. /\ lookup[g].pc \in {"find", "mount", "found", "labelled"}
          /\ lookup'[g].pc \in {"decide", "remove", "failed"}
          /\ \A h \in Lookups \ {g} : lookup'[h] = lookup[h]
          /\ broken \subseteq broken'
      BY <1>4, <1>c, <2>2 DEF CommandFails, LookupFails, DriveFails, At
    <3> QED
      BY <1>b, <2>1, <3>1, MovesAside DEF HoldsDrive
  <2>3. CASE DriveFails(g) /\ At(g, "unmount")
    <3>1. /\ lookup[g].pc = "unmount" /\ lookup'[g].pc = "remove"
          /\ \A h \in Lookups \ {g} : lookup'[h] = lookup[h]
          /\ "unmount" \in broken'
      BY <1>c, <2>3 DEF DriveFails, At
    <3>2. \A h \in Lookups : HoldsDrive(h)' => HoldsDrive(h)
      BY <3>1 DEF HoldsDrive
    <3>3. DriveFound'
      BY <1>b, <2>1, <3>1 DEF DriveFound
    <3>4. DriveInv'
      BY <1>b, <2>1, <3>1, <3>2 DEF DriveInv, NoMountLeft
    <3> QED
      BY <3>3, <3>4
  <2> QED
    BY <1>4, <2>2, <2>3 DEF CommandFails, DriveFails
<1>5. CASE ServiceChanges
  BY <1>5, <1>b DEF ServiceChanges, DriveFound, DriveInv, HoldsDrive, NoMountLeft
<1>6. CASE Restart
  BY <1>6 DEF Restart, Idle, DriveFound, DriveInv, HoldsDrive, NoMountLeft
<1> QED
  BY <1>1, <1>2, <1>3, <1>4, <1>5, <1>6 DEF Next, Fault

(* The cache is filled before a lookup is told so, and emptied only when     *)
(* there is no lookup any more.                                              *)
LEMMA AnswerStep == Inv /\ [Next]_vars => AnswerIsThere'
<1> SUFFICES ASSUME Inv, [Next]_vars PROVE AnswerIsThere'
  OBVIOUS
<1> USE DEF AnswerIsThere, At
<1>a. lookup \in [Lookups -> Lookup] /\ (\A g \in Lookups : lookup[g] \in Lookup)
  BY DEF Inv, TypeOK
<1>b. AnswerIsThere
  BY DEF Inv
<1>c. ASSUME NEW g \in Lookups, NEW pc, NEW md, Goto(g, pc) \/ GotoWith(g, pc, md)
      PROVE  /\ lookup'[g].pc = pc
             /\ \A h \in Lookups \ {g} : lookup'[h] = lookup[h]
  BY <1>a, <1>c DEF Goto, GotoWith, Lookup
<1>1. CASE UNCHANGED vars
  BY <1>1, <1>b DEF vars
<1>2. ASSUME NEW g \in Lookups, Enter(g)
      PROVE  AnswerIsThere'
  <2>1. Asks(1) # "found"
    BY OrderFacts
  <2> QED
    BY <1>2, <1>b, <1>c, <2>1 DEF Enter
<1>3. ASSUME NEW g \in Lookups, Runs(g)
      PROVE  AnswerIsThere'
  <2>1. CASE Decide(g) /\ lookup[g].md # "none"
    BY <2>1 DEF Decide, Found
  <2>2. CASE Decide(g) /\ lookup[g].md = "none"
    <3>1. CASE lookup[g].at < Len(Order)
      <4>1. lookup[g].at + 1 \in 1 .. Len(Order)
        BY <1>a, <3>1, OrderFacts DEF Lookup
      <4>2. /\ lookup'[g].pc # "found"
            /\ \A h \in Lookups \ {g} : lookup'[h] = lookup[h]
        BY <1>a, <2>2, <3>1, <4>1, OrderFacts DEF Decide, NextSource, Lookup
      <4> QED
        BY <1>b, <2>2, <4>2 DEF Decide
    <3>2. CASE ~(lookup[g].at < Len(Order))
      BY <1>b, <1>c, <2>2, <3>2 DEF Decide, NextSource
    <3> QED
      BY <3>1, <3>2
  <2>3. CASE Leave(g)
    BY <1>a, <1>b, <2>3 DEF Leave, Idle
  <2>4. ASSUME ~Decide(g), ~Leave(g)
        PROVE  AnswerIsThere'
    <3>1. PICK pc \in Pcs \ {"found"}, md \in Answers \cup {"absent", "hangs"} :
            Goto(g, pc) \/ GotoWith(g, pc, md)
      BY <1>3, <2>4
      DEF Runs, AskService, FindDrive, MountDrive, ReadDrive, UnmountDrive, RemoveDir,
          ReadLabel, ReadCluster, Pcs, Answers, Inv, TypeOK
    <3>2. UNCHANGED cached
      BY <1>3, <2>4
      DEF Runs, AskService, FindDrive, MountDrive, ReadDrive, UnmountDrive, RemoveDir,
          ReadLabel, ReadCluster
    <3> QED
      BY <1>b, <1>c, <3>1, <3>2
  <2> QED
    BY <2>1, <2>2, <2>3, <2>4
<1>4. ASSUME NEW g \in Lookups, CommandFails(g)
      PROVE  AnswerIsThere'
  BY <1>4, <1>b, <1>c DEF CommandFails, LookupFails, DriveFails
<1>5. CASE ServiceChanges
  BY <1>5, <1>b DEF ServiceChanges
<1>6. CASE Restart
  BY <1>6 DEF Restart, Idle
<1> QED
  BY <1>1, <1>2, <1>3, <1>4, <1>5, <1>6 DEF Next, Fault

LEMMA InvInductive == Spec => []Inv
<1>1. Inv /\ [Next]_vars => Inv'
  BY TypeStep, DriveStep, AnswerStep DEF Inv
<1> QED
  BY InitInv, <1>1, PTL DEF Spec

-----------------------------------------------------------------------------
(* Every state of a behaviour has its type.                                  *)
THEOREM MetadataTyped == Spec => []TypeOK
BY InvInductive, PTL DEF Inv

(* However many lookups mount the config drive on the one directory, in      *)
(* whatever order they fail and clean up, the one that reads has it mounted  *)
(* and nobody else unmounts it or removes the directory.                     *)
THEOREM DriveIsHeld == Spec => []ReaderHasDrive
<1>1. Inv => ReaderHasDrive
  BY DEF Inv, DriveInv, HoldsDrive, ReaderHasDrive, At
<1> QED
  BY InvInductive, <1>1, PTL

(* The drive is left mounted behind the lookups by an unmount that failed,   *)
(* and by nothing else.                                                      *)
THEOREM DriveIsReleased == Spec => []NoMountLeft
<1>1. Inv => NoMountLeft
  BY DEF Inv, DriveInv
<1> QED
  BY InvInductive, <1>1, PTL

(* A lookup that is about to read a field of metadataCache finds it set,     *)
(* whatever the other lookups, which share it without a lock, have found.    *)
THEOREM AnswersAreThere == Spec => []AnswerIsThere
BY InvInductive, PTL DEF Inv
=============================================================================
