-------------------------- MODULE NodeServer_proofs --------------------------
(* Proofs about NodeServer, for any volumes and pods, any number of calls at *)
(* the same time, failures and lost calls, whichever operations outlive      *)
(* their calls. Three things make the invariant: what is under way for a     *)
(* volume excludes the rest (AloneInv), what the kubelet has of a staging    *)
(* path (StagedInv), and that a pod that is wanted has no unmount under way  *)
(* on its path, for its path is new (PodInv).                                *)
EXTENDS NodeServer, FiniteSets, TLAPS, FiniteSetTheorems

Live(c) == calls[c] # Idle /\ ~calls[c].late
OnVolume == {"stage", "unstage"}
OnPod == {"publish", "unpublish"}
Answered(c) == At(c, "replied") /\ calls[c].ok

(* What a call is made of.                                                   *)
ShapeOf(k) ==
  /\ k.op = "none" => k = Idle
  /\ k.op \in OnVolume => k.path \in Vols
  /\ k.op \in OnPod => k.path \in Pods
  /\ k.pc \in {"mkfs", "mount"} => k.op = "stage"
  /\ k.pc = "bind" => k.op = "publish"
  /\ k.pc \in {"check", "umount", "recheck"} => k.op \in {"unstage", "unpublish"}
  /\ k.pc = "replied" => k.op # "none"
ShapeInv == \A c \in Calls : ShapeOf(calls[c])

AloneInv ==
  \A c, d \in Calls :
    c # d /\ Live(c) /\ Live(d) /\ calls[c].op \in OnVolume
      => VolumeOf(Here(c)) # VolumeOf(Here(d))

UnsureInv ==
  \A c \in Calls : Live(c) /\ calls[c].op \in OnVolume => put[Here(c)] = "unsure"

(* What is staged is there, unless a late unstage took it away.              *)
Shown(v) == stack[v] = <<"volume">> \/ v \in disturbed
StagedInv ==
  /\ \A v \in Vols : put[v] = "yes" => Shown(v)
  /\ \A c \in Calls :
       calls[c].op = "stage" /\ ~calls[c].late /\ Answered(c) => Shown(Here(c))

OnlyVolume(p) == \A i \in DOMAIN stack[p] : stack[p][i] = "volume"
PodInv ==
  \A p \in Pods : wants[p] =>
    /\ Uses[p] \in disturbed \/ OnlyVolume(p)
    /\ put[p] = "yes" => stack[p] # <<>>
    /\ \A c \in Calls : Here(c) = p =>
         /\ calls[c].op = "publish"
         /\ put[Uses[p]] = "yes"
         /\ Answered(c) => stack[p] # <<>>

(* A publish that runs beside an unpublish of its pod is late.               *)
GoneInv ==
  \A c, d \in Calls :
    calls[c].op = "unpublish" /\ calls[d].op = "publish" /\ Here(c) = Here(d)
      => calls[d].late

Inv == /\ TypeOK /\ ShapeInv /\ AloneInv /\ UnsureInv
       /\ StagedInv /\ PodInv /\ GoneInv /\ UnpublishedIsUnmounted

-----------------------------------------------------------------------------
(* Facts about paths, stacks and calls.                                      *)
LEMMA PathFacts ==
  /\ \A v \in Vols : v \in Paths /\ v \notin Pods /\ VolumeOf(v) = v /\ v # NoPath
  /\ \A p \in Pods : /\ p \in Paths /\ p \notin Vols /\ p # NoPath
                     /\ Uses[p] \in Vols /\ VolumeOf(p) = Uses[p]
BY NodeAssumption DEF Paths, VolumeOf

LEMMA IdleFacts == Idle \in Call /\ ShapeOf(Idle) /\ Idle.op = "none" /\ Idle.path = NoPath
                   /\ Idle.pc = "idle"
BY DEF Idle, Call, ShapeOf, OnVolume, OnPod

LEMMA PushFacts ==
  ASSUME NEW s \in Seq(Shows), NEW t \in Shows
  PROVE  /\ Append(s, t) \in Seq(Shows) /\ Append(s, t) # s /\ Append(s, t) # <<>>
         /\ (\A i \in DOMAIN s : s[i] = "volume") /\ t = "volume"
              => \A i \in DOMAIN Append(s, t) : Append(s, t)[i] = "volume"
<1>1. Append(s, t) \in Seq(Shows) /\ Len(Append(s, t)) = Len(s) + 1
  OBVIOUS
<1>2. Len(s) \in Nat /\ Len(<<>>) = 0
  OBVIOUS
<1>3. Append(s, t) # s /\ Append(s, t) # <<>>
  BY <1>1, <1>2
<1>4. \A i \in DOMAIN Append(s, t) :
        (i \in DOMAIN s /\ Append(s, t)[i] = s[i]) \/ Append(s, t)[i] = t
  OBVIOUS
<1> QED
  BY <1>1, <1>3, <1>4

LEMMA PopFacts ==
  ASSUME NEW s \in Seq(Shows), s # <<>>
  PROVE  /\ SubSeq(s, 1, Len(s) - 1) \in Seq(Shows)
         /\ SubSeq(s, 1, Len(s) - 1) # s
         /\ \A i \in DOMAIN SubSeq(s, 1, Len(s) - 1) :
              i \in DOMAIN s /\ SubSeq(s, 1, Len(s) - 1)[i] = s[i]
         /\ s = <<"volume">> => SubSeq(s, 1, Len(s) - 1) = <<>>
<1> DEFINE n == Len(s) - 1
<1>1. n \in Nat /\ n + 1 = Len(s)
  OBVIOUS
<1>2. SubSeq(s, 1, n) = [i \in 1 .. n |-> s[i]]
  BY <1>1
<1>3. SubSeq(s, 1, n) \in Seq(Shows) /\ Len(SubSeq(s, 1, n)) = n
  BY <1>1, <1>2
<1>4. SubSeq(s, 1, n) # s
  <2>0. Len(s) \in Nat /\ n # Len(s)
    OBVIOUS
  <2>1. Len(SubSeq(s, 1, n)) # Len(s)
    <3> HIDE DEF n
    <3> QED
      BY <1>3, <2>0
  <2> QED
    BY <2>1
<1>5. \A i \in DOMAIN SubSeq(s, 1, n) : i \in DOMAIN s /\ SubSeq(s, 1, n)[i] = s[i]
  BY <1>1, <1>2
<1>6. ASSUME s = <<"volume">> PROVE SubSeq(s, 1, n) = <<>>
  <2>1. n = 0
    BY <1>6
  <2>2. SubSeq(s, 1, 0) = << >>
    BY <1>2, <2>1
  <2> QED
    BY <2>1, <2>2
<1> QED
  BY <1>3, <1>4, <1>5, <1>6

(* A call moves on: its operation, its path and its lateness stay.           *)
Moves(c) ==
  /\ calls' \in [Calls -> Call]
  /\ \A d \in Calls \ {c} : calls'[d] = calls[d]
  /\ calls'[c].op = calls[c].op /\ calls'[c].path = calls[c].path
  /\ calls'[c].late = calls[c].late

LEMMA MovesOn ==
  ASSUME TypeOK, ShapeInv, NEW c \in Calls,
         NEW pc \in {"mkfs", "mount", "bind", "check", "umount", "recheck", "replied"},
         NEW ok \in BOOLEAN
  PROVE  /\ Goto(c, pc) => Moves(c) /\ calls'[c].pc = pc
         /\ Reply(c, ok) => Moves(c) /\ calls'[c].pc = "replied" /\ calls'[c].ok = ok
<1>1. calls \in [Calls -> Call] /\ calls[c] \in Call
  BY DEF TypeOK
<1>2. [calls[c] EXCEPT !.pc = pc] \in Call
  BY <1>1 DEF Call
<1>3. [calls[c] EXCEPT !.pc = "replied", !.ok = ok] \in Call
  BY <1>1 DEF Call
<1>4. ASSUME Goto(c, pc) PROVE Moves(c) /\ calls'[c].pc = pc
  BY <1>1, <1>2, <1>4 DEF Goto, Now, Moves, Call
<1>5. ASSUME Reply(c, ok)
      PROVE  Moves(c) /\ calls'[c].pc = "replied" /\ calls'[c].ok = ok
  BY <1>1, <1>3, <1>5 DEF Reply, Now, Moves, Call
<1> QED
  BY <1>4, <1>5

-----------------------------------------------------------------------------
(* What a step of a handler does to the mounts, and when it answers OK.      *)
Same == UNCHANGED stack
Stages(c) ==
  /\ calls[c].op = "stage" /\ stack[Here(c)] = <<>>
  /\ stack' = [stack EXCEPT ![Here(c)] = <<"volume">>]
Binds(c) ==
  /\ calls[c].op = "publish"
  /\ \E t \in Shows :
       /\ stack[Uses[Here(c)]] = <<"volume">> => t = "volume"
       /\ stack' = [stack EXCEPT ![Here(c)] = Append(@, t)]
Unmounts(c) ==
  /\ calls[c].op \in {"unstage", "unpublish"} /\ stack[Here(c)] # <<>>
  /\ stack' = [stack EXCEPT ![Here(c)] = SubSeq(@, 1, Len(@) - 1)]
AnswersRightly(c) ==
  calls'[c].pc = "replied" /\ calls'[c].ok =>
    /\ calls[c].op = "stage" => stack'[Here(c)] = <<"volume">>
    /\ calls[c].op = "publish" => stack'[Here(c)] # <<>>
    /\ calls[c].op = "unpublish" => stack'[Here(c)] = <<>>
StepOf(c) ==
  /\ Moves(c) /\ ShapeOf(calls'[c]) /\ calls[c].op # "none"
  /\ Same \/ Stages(c) \/ Binds(c) \/ Unmounts(c)
  /\ AnswersRightly(c)
  /\ disk' \in [Vols -> {"blank", "empty", "written"}]

LEMMA HandlerStep ==
  ASSUME TypeOK, ShapeInv, NEW c \in Calls, CallStep(c) \/ CommandFails(c)
  PROVE  StepOf(c)
<1>1. /\ calls[c] \in Call /\ ShapeOf(calls[c])
      /\ stack \in [Paths -> Seq(Shows)]
      /\ \A v \in Vols : stack[v] \in {<<>>, <<"volume">>}
      /\ disk \in [Vols -> {"blank", "empty", "written"}]
  BY DEF TypeOK, ShapeInv
<1>2. CASE StageFormat(c)
  <2>1. calls[c].op = "stage" /\ Here(c) \in Vols
    BY <1>1, <1>2 DEF StageFormat, At, ShapeOf, Here, OnVolume
  <2>2. Goto(c, "mount") \/ Reply(c, FALSE)
    BY <1>2 DEF StageFormat
  <2>3. disk' \in [Vols -> {"blank", "empty", "written"}]
    BY <1>1, <1>2, <2>1 DEF StageFormat
  <2>4. ShapeOf(calls'[c]) /\ Moves(c) /\ ~(calls'[c].pc = "replied" /\ calls'[c].ok)
    BY <1>1, <2>1, <2>2, MovesOn, PathFacts DEF Moves, ShapeOf, Here, OnVolume, OnPod
  <2> QED
    BY <1>2, <2>1, <2>3, <2>4 DEF StageFormat, StepOf, Same, AnswersRightly
<1>3. CASE StageMount(c)
  <2>1. calls[c].op = "stage" /\ Here(c) \in Vols
    BY <1>1, <1>3 DEF StageMount, At, ShapeOf, Here, OnVolume
  <2>2. ASSUME NEW ok \in BOOLEAN, Reply(c, ok)
        PROVE  ShapeOf(calls'[c]) /\ Moves(c) /\ calls'[c].ok = ok
    BY <1>1, <2>1, <2>2, MovesOn, PathFacts DEF Moves, ShapeOf, Here, OnVolume, OnPod
  <2>3. CASE IsMounted(Here(c)) \/ ~told[Here(c)]
    BY <1>1, <1>3, <2>1, <2>2, <2>3 DEF StageMount, StepOf, Same, AnswersRightly
  <2>4. CASE ~(IsMounted(Here(c)) \/ ~told[Here(c)])
    <3>1. Reply(c, TRUE) /\ Push(Here(c), "volume") /\ stack[Here(c)] = <<>>
      BY <1>3, <2>4 DEF StageMount, IsMounted
    <3>2. stack' = [stack EXCEPT ![Here(c)] = <<"volume">>]
      BY <3>1 DEF Push
    <3>3. stack'[Here(c)] = <<"volume">>
      BY <1>1, <2>1, <3>2, PathFacts
    <3> QED
      BY <1>1, <1>3, <2>1, <2>2, <3>1, <3>2, <3>3 DEF StageMount, StepOf, Stages, AnswersRightly
  <2> QED
    BY <2>3, <2>4
<1>4. CASE PublishBind(c)
  <2> DEFINE v == VolumeOf(Here(c))
             t == IF IsMounted(v) THEN Top(v) ELSE "directory"
  <2>1. calls[c].op = "publish" /\ Here(c) \in Pods /\ v = Uses[Here(c)] /\ v \in Vols
    BY <1>1, <1>4, PathFacts DEF PublishBind, At, ShapeOf, Here, OnPod
  <2>2. t \in Shows /\ (stack[v] = <<"volume">> => t = "volume")
    <3>1. CASE stack[v] = <<>>
      <4>1. <<>> # <<"volume">>
        OBVIOUS
      <4> QED
        BY <3>1, <4>1 DEF IsMounted, Shows
    <3>2. CASE stack[v] = <<"volume">>
      <4>1. t = "volume"
        BY <3>2 DEF IsMounted, Top
      <4> QED
        BY <4>1 DEF Shows
    <3> QED
      BY <1>1, <2>1, <3>1, <3>2
  <2>3. Reply(c, TRUE) /\ stack' = [stack EXCEPT ![Here(c)] = Append(@, t)]
    BY <1>4 DEF PublishBind, Push
  <2> HIDE DEF t
  <2>4. stack'[Here(c)] # <<>>
    BY <1>1, <2>1, <2>2, <2>3, PathFacts, PushFacts
  <2>5. ShapeOf(calls'[c]) /\ Moves(c)
    BY <1>1, <2>1, <2>3, MovesOn, PathFacts DEF Moves, ShapeOf, Here, OnVolume, OnPod
  <2>6. Binds(c)
    BY <2>1, <2>2, <2>3 DEF Binds
  <2> QED
    BY <1>1, <1>4, <2>1, <2>4, <2>5, <2>6 DEF PublishBind, StepOf, AnswersRightly
<1>5. CASE UnmountCheck(c) \/ Unmount(c) \/ UnmountAnswer(c)
  <2>1. /\ calls[c].op \in {"unstage", "unpublish"} /\ Here(c) \in Paths
        /\ UNCHANGED disk
    BY <1>1, <1>5, PathFacts
    DEF UnmountCheck, Unmount, UnmountAnswer, At, ShapeOf, Here, OnVolume, OnPod, nodeVars
  <2>2. ASSUME NEW pc \in {"umount", "recheck"}, Goto(c, pc)
        PROVE  ShapeOf(calls'[c]) /\ Moves(c) /\ calls'[c].pc = pc
    <3>1. Moves(c) /\ calls'[c].pc = pc
      BY <2>2, MovesOn
    <3> QED
      BY <1>1, <2>1, <2>2, <3>1 DEF Moves, ShapeOf, Here, OnVolume, OnPod
  <2>3. ASSUME NEW ok \in BOOLEAN, Reply(c, ok)
        PROVE  ShapeOf(calls'[c]) /\ Moves(c) /\ calls'[c].ok = ok
    BY <1>1, <2>1, <2>3, MovesOn, PathFacts DEF Moves, ShapeOf, Here, OnVolume, OnPod
  <2>4. CASE UnmountCheck(c)
    <3>1. CASE IsMounted(Here(c))
      BY <1>1, <2>1, <2>2, <2>4, <3>1
      DEF UnmountCheck, nodeVars, StepOf, Same, AnswersRightly
    <3>2. CASE ~IsMounted(Here(c))
      BY <1>1, <2>1, <2>3, <2>4, <3>2
      DEF UnmountCheck, nodeVars, StepOf, Same, AnswersRightly, IsMounted
    <3> QED
      BY <3>1, <3>2
  <2>5. CASE Unmount(c)
    <3>1. CASE IsMounted(Here(c))
      BY <1>1, <2>1, <2>2, <2>5, <3>1
      DEF Unmount, Pop, StepOf, Unmounts, AnswersRightly, IsMounted
    <3>2. CASE ~IsMounted(Here(c))
      BY <1>1, <2>1, <2>3, <2>5, <3>2 DEF Unmount, StepOf, Same, AnswersRightly
    <3> QED
      BY <3>1, <3>2
  <2>6. CASE UnmountAnswer(c)
    <3>1. Reply(c, ~IsMounted(Here(c))) /\ UNCHANGED stack
      BY <2>6 DEF UnmountAnswer, nodeVars
    <3>2. (~IsMounted(Here(c))) \in BOOLEAN
      OBVIOUS
    <3>3. ShapeOf(calls'[c]) /\ Moves(c) /\ calls'[c].ok = ~IsMounted(Here(c))
      BY <2>3, <3>1, <3>2
    <3>4. calls'[c].ok => stack[Here(c)] = <<>>
      BY <3>3 DEF IsMounted
    <3> QED
      BY <1>1, <2>1, <3>1, <3>3, <3>4 DEF StepOf, Same, AnswersRightly
  <2> QED
    BY <1>5, <2>4, <2>5, <2>6
<1>6. CASE CommandFails(c)
  <2>1. calls[c].op # "none"
    BY <1>1, <1>6 DEF CommandFails, ShapeOf
  <2>2. ShapeOf(calls'[c]) /\ Moves(c) /\ ~calls'[c].ok
    BY <1>1, <1>6, <2>1, MovesOn, PathFacts
    DEF CommandFails, Moves, ShapeOf, Here, OnVolume, OnPod
  <2>3. At(c, "mkfs") => Here(c) \in Vols
    BY <1>1 DEF At, ShapeOf, Here, OnVolume
  <2>4. disk' \in [Vols -> {"blank", "empty", "written"}]
    BY <1>1, <1>6, <2>3 DEF CommandFails
  <2> QED
    BY <1>6, <2>1, <2>2, <2>4 DEF CommandFails, StepOf, Same, AnswersRightly
<1> QED
  BY <1>2, <1>3, <1>4, <1>5, <1>6 DEF CallStep

-----------------------------------------------------------------------------
(* A step of a handler keeps the invariant: the mounts it changes are those  *)
(* of its path, and if its call is late they are noted.                      *)
Notes(c) ==
  /\ UNCHANGED <<put, wants, told, forgotten>>
  /\ disturbed \subseteq disturbed' /\ disturbed' \subseteq Paths
  /\ calls[c].late /\ calls[c].op # "stage" /\ stack' # stack => Here(c) \in disturbed'

(* The mounts on other paths stay.                                           *)
LEMMA StackStep ==
  ASSUME TypeOK, ShapeInv, NEW c \in Calls, StepOf(c)
  PROVE  /\ Here(c) \in Paths
         /\ stack' \in [Paths -> Seq(Shows)]
         /\ \A x \in Paths : x # Here(c) => stack'[x] = stack[x]
         /\ \A v \in Vols : stack'[v] \in {<<>>, <<"volume">>}
         /\ Binds(c) \/ Unmounts(c) => stack' # stack
<1>1. /\ calls[c] \in Call /\ ShapeOf(calls[c]) /\ calls[c].op # "none"
      /\ stack \in [Paths -> Seq(Shows)]
      /\ \A v \in Vols : stack[v] \in {<<>>, <<"volume">>}
  BY DEF TypeOK, ShapeInv, StepOf
<1>2. Here(c) \in Paths
  BY <1>1, PathFacts DEF Call, ShapeOf, Here, OnVolume, OnPod
<1>3. CASE Same
  <2>1. ~Binds(c) /\ ~Unmounts(c)
    <3>1. ~Binds(c)
      BY <1>1, <1>2, <1>3, PushFacts DEF Same, Binds
    <3>2. ~Unmounts(c)
      BY <1>1, <1>2, <1>3, PopFacts DEF Same, Unmounts
    <3> QED
      BY <3>1, <3>2
  <2> QED
    BY <1>1, <1>2, <1>3, <2>1 DEF Same
<1>4. CASE Stages(c)
  <2>1. <<"volume">> \in Seq(Shows)
    BY DEF Shows
  <2> QED
    BY <1>1, <1>2, <1>4, <2>1 DEF Stages, Binds, Unmounts
<1>5. CASE Binds(c)
  <2>1. PICK t \in Shows : stack' = [stack EXCEPT ![Here(c)] = Append(@, t)]
    BY <1>5 DEF Binds
  <2>2. Append(stack[Here(c)], t) \in Seq(Shows) /\ Append(stack[Here(c)], t) # stack[Here(c)]
    BY <1>1, <1>2, PushFacts
  <2>3. Here(c) \notin Vols
    BY <1>1, <1>5, PathFacts DEF Binds, ShapeOf, Here, OnPod
  <2>4. \A v \in Vols : v \in Paths
    BY PathFacts
  <2> QED
    BY <1>1, <1>2, <2>1, <2>2, <2>3, <2>4
<1>6. CASE Unmounts(c)
  <2> DEFINE s == stack[Here(c)]
  <2>1. s \in Seq(Shows) /\ s # <<>>
    BY <1>1, <1>2, <1>6 DEF Unmounts
  <2>2. /\ SubSeq(s, 1, Len(s) - 1) \in Seq(Shows) /\ SubSeq(s, 1, Len(s) - 1) # s
        /\ s = <<"volume">> => SubSeq(s, 1, Len(s) - 1) = <<>>
    BY <2>1, PopFacts
  <2>3. \A v \in Vols : v \in Paths
    BY PathFacts
  <2> QED
    BY <1>1, <1>2, <1>6, <2>1, <2>2, <2>3 DEF Unmounts
<1> QED
  BY <1>3, <1>4, <1>5, <1>6 DEF StepOf

LEMMA HandlerShapes ==
  ASSUME Inv, NEW c \in Calls, StepOf(c), Notes(c)
  PROVE  ShapeInv' /\ AloneInv' /\ UnsureInv' /\ GoneInv'
<1>1. /\ \A d \in Calls \ {c} : calls'[d] = calls[d]
      /\ ShapeOf(calls'[c]) /\ calls[c].op # "none" /\ calls'[c].op = calls[c].op
      /\ calls'[c].path = calls[c].path /\ calls'[c].late = calls[c].late
  BY DEF StepOf, Moves
<1>2. calls[c] # Idle
  BY <1>1, IdleFacts
<1>3. ShapeInv'
  BY <1>1 DEF Inv, ShapeInv
<1>4. AloneInv'
  BY <1>1, <1>2 DEF Inv, AloneInv, Live, Here
<1>5. UnsureInv'
  BY <1>1, <1>2 DEF Inv, UnsureInv, Live, Here, Notes
<1>6. GoneInv'
  BY <1>1 DEF Inv, GoneInv, Here
<1> QED
  BY <1>3, <1>4, <1>5, <1>6

LEMMA HandlerMounts ==
  ASSUME Inv, NEW c \in Calls, StepOf(c), Notes(c)
  PROVE  StagedInv' /\ PodInv' /\ UnpublishedIsUnmounted'
<1>1. /\ \A d \in Calls \ {c} : calls'[d] = calls[d]
      /\ calls'[c].op = calls[c].op /\ calls'[c].path = calls[c].path
      /\ calls'[c].late = calls[c].late /\ calls[c].op # "none"
      /\ AnswersRightly(c)
      /\ Same \/ Stages(c) \/ Binds(c) \/ Unmounts(c)
  BY DEF StepOf, Moves
<1>2. /\ TypeOK /\ ShapeInv /\ ShapeOf(calls[c]) /\ calls[c] # Idle
      /\ calls[c] \in Call
  BY <1>1, IdleFacts DEF Inv, ShapeInv, TypeOK
<1>3. /\ Here(c) \in Paths
      /\ \A x \in Paths : x # Here(c) => stack'[x] = stack[x]
      /\ \A v \in Vols : stack[v] \in {<<>>, <<"volume">>} /\ stack'[v] \in {<<>>, <<"volume">>}
      /\ Binds(c) \/ Unmounts(c) => stack' # stack
      /\ stack \in [Paths -> Seq(Shows)] /\ stack' \in [Paths -> Seq(Shows)]
  BY <1>2, StackStep DEF TypeOK
<1>4. UNCHANGED <<put, wants>> /\ disturbed \subseteq disturbed'
  BY DEF Notes
<1>5. ASSUME NEW v \in Vols, Shown(v),
             v = Here(c) => calls[c].late \/ calls[c].op = "stage"
      PROVE  Shown(v)'
  <2>1. CASE v # Here(c)
    BY <1>3, <1>4, <1>5, <2>1, PathFacts DEF Shown
  <2>2. CASE v = Here(c) /\ calls[c].op = "stage"
    <3>1. Same \/ Stages(c)
      BY <1>1, <2>2 DEF Binds, Unmounts
    <3>2. stack'[v] = stack[v] \/ stack'[v] = <<"volume">>
      BY <1>3, <2>2, <3>1 DEF Same, Stages
    <3> QED
      BY <1>4, <1>5, <3>2 DEF Shown
  <2>3. CASE v = Here(c) /\ calls[c].op # "stage" /\ calls[c].late
    <3>1. stack' # stack => v \in disturbed'
      BY <2>3 DEF Notes
    <3> QED
      BY <1>4, <1>5, <3>1 DEF Shown
  <2> QED
    BY <1>5, <2>1, <2>2, <2>3
<1>6. StagedInv'
  <2>1. ASSUME NEW v \in Vols, put'[v] = "yes"
        PROVE  Shown(v)'
    <3>1. put[v] = "yes" /\ Shown(v)
      BY <1>4, <2>1 DEF Inv, StagedInv
    <3>2. v = Here(c) => calls[c].late \/ calls[c].op = "stage"
      BY <1>2, <3>1, PathFacts DEF Inv, UnsureInv, Live, ShapeOf, Here, OnVolume, OnPod, Call
    <3> QED
      BY <1>5, <3>1, <3>2
  <2>2. ASSUME NEW d \in Calls, calls'[d].op = "stage", ~calls'[d].late,
               calls'[d].pc = "replied", calls'[d].ok
        PROVE  stack'[calls'[d].path] = <<"volume">> \/ calls'[d].path \in disturbed'
    <3>1. ASSUME d = c PROVE stack'[calls'[d].path] = <<"volume">>
      <4>1. calls[c].op = "stage" /\ calls'[c].pc = "replied" /\ calls'[c].ok
        BY <1>1, <2>2, <3>1
      <4>2. stack'[calls[c].path] = <<"volume">>
        BY <1>1, <4>1 DEF AnswersRightly, Here
      <4> QED
        BY <1>1, <3>1, <4>2
    <3>2. CASE d # c
      <4>1. /\ calls'[d] = calls[d] /\ calls[d].path \in Vols /\ calls[d] # Idle
            /\ Shown(calls[d].path) /\ calls[d].op \in OnVolume
        BY <1>1, <2>2, <3>2, IdleFacts
        DEF Inv, StagedInv, ShapeInv, ShapeOf, Answered, At, Here, OnVolume
      <4>2. calls[d].path = Here(c) => calls[c].late
        BY <1>2, <2>2, <3>2, <4>1 DEF Inv, AloneInv, Live, Here
      <4>3. Shown(calls[d].path)'
        BY <1>5, <4>1, <4>2
      <4> QED
        BY <4>1, <4>3 DEF Shown
    <3> QED
      BY <3>1, <3>2
  <2> QED
    BY <2>1, <2>2 DEF StagedInv, Answered, At, Here, Shown
<1>7. PodInv'
  <2> SUFFICES ASSUME NEW p \in Pods, wants'[p]
               PROVE  /\ (Uses[p] \in disturbed \/ OnlyVolume(p))'
                      /\ put'[p] = "yes" => stack'[p] # <<>>
                      /\ \A d \in Calls : calls'[d].path = p =>
                           /\ calls'[d].op = "publish" /\ put'[Uses[p]] = "yes"
                           /\ calls'[d].pc = "replied" /\ calls'[d].ok => stack'[p] # <<>>
    BY DEF PodInv, Answered, At, Here
  <2>1. /\ wants[p]
        /\ Uses[p] \in disturbed \/ OnlyVolume(p)
        /\ put[p] = "yes" => stack[p] # <<>>
        /\ \A d \in Calls : calls[d].path = p =>
             /\ calls[d].op = "publish" /\ put[Uses[p]] = "yes"
             /\ calls[d].pc = "replied" /\ calls[d].ok => stack[p] # <<>>
    BY <1>4 DEF Inv, PodInv, Answered, At, Here
  <2>2. p \in Paths /\ Uses[p] \in Vols
    BY PathFacts
  <2>3. CASE Here(c) # p \/ Same
    <3>1. stack'[p] = stack[p]
      BY <1>3, <2>2, <2>3 DEF Same
    <3>2. \A d \in Calls : calls'[d].path = calls[d].path /\ calls'[d].op = calls[d].op
      BY <1>1
    <3>3. ASSUME NEW d \in Calls, calls'[d].path = p, calls'[d].pc = "replied", calls'[d].ok
          PROVE  stack'[p] # <<>>
      <4>1. calls[d].path = p /\ calls[d].op = "publish"
        BY <2>1, <3>2, <3>3
      <4>2. CASE d = c
        BY <1>1, <3>3, <4>1, <4>2 DEF AnswersRightly, Here
      <4>3. CASE d # c
        BY <1>1, <2>1, <3>1, <3>3, <4>1, <4>3
      <4> QED
        BY <4>2, <4>3
    <3> QED
      BY <1>4, <2>1, <3>1, <3>2, <3>3 DEF OnlyVolume
  <2>4. CASE Here(c) = p /\ ~Same
    <3>1. calls[c].op = "publish" /\ put[Uses[p]] = "yes" /\ Shown(Uses[p])
      BY <2>1, <2>2, <2>4 DEF Here, Inv, StagedInv
    <3>2. PICK t \in Shows :
            /\ stack[Uses[p]] = <<"volume">> => t = "volume"
            /\ stack' = [stack EXCEPT ![p] = Append(@, t)]
      BY <1>1, <2>4, <3>1 DEF Stages, Binds, Unmounts
    <3>3. stack'[p] = Append(stack[p], t) /\ stack[p] \in Seq(Shows)
      BY <1>3, <2>2, <3>2
    <3>4. stack'[p] # <<>>
      BY <3>3, PushFacts
    <3>5. Uses[p] \in disturbed' \/ \A i \in DOMAIN stack'[p] : stack'[p][i] = "volume"
      BY <1>4, <2>1, <3>1, <3>2, <3>3, PushFacts DEF Shown, OnlyVolume
    <3> QED
      BY <1>1, <1>4, <2>1, <3>4, <3>5 DEF OnlyVolume
  <2> QED
    BY <2>3, <2>4
<1>8. UnpublishedIsUnmounted'
  <2> SUFFICES ASSUME NEW d \in Calls, calls'[d].op = "unpublish",
                      calls'[d].pc = "replied", calls'[d].ok
               PROVE  stack'[calls'[d].path] = <<>> \/ calls'[d].path \in disturbed'
    BY DEF UnpublishedIsUnmounted, At, Here, IsMounted
  <2>1. ASSUME d = c PROVE stack'[calls'[d].path] = <<>>
    <3>1. calls[c].op = "unpublish" /\ calls'[c].pc = "replied" /\ calls'[c].ok
      BY <1>1, <2>1
    <3>2. stack'[calls[c].path] = <<>>
      BY <1>1, <3>1 DEF AnswersRightly, Here
    <3> QED
      BY <1>1, <2>1, <3>2
  <2>2. CASE d # c
    <3>1. /\ calls'[d] = calls[d] /\ calls[d].path \in Pods /\ calls[d].path \in Paths
          /\ stack[calls[d].path] = <<>> \/ calls[d].path \in disturbed
      BY <1>1, <2>2, PathFacts
      DEF Inv, UnpublishedIsUnmounted, At, Here, IsMounted, ShapeInv, ShapeOf, OnPod
    <3>2. CASE calls[d].path # Here(c) \/ Same
      BY <1>3, <1>4, <3>1, <3>2 DEF Same
    <3>3. CASE calls[d].path = Here(c) /\ Unmounts(c)
      BY <1>4, <3>1, <3>3 DEF Unmounts
    <3>4. CASE calls[d].path = Here(c) /\ Stages(c)
      BY <1>2, <3>1, <3>4, PathFacts DEF Stages, ShapeOf, Here, OnVolume
    <3>5. CASE calls[d].path = Here(c) /\ Binds(c)
      <4>1. calls[c].op = "publish" /\ stack' # stack
        BY <1>3, <3>5 DEF Binds
      <4>2. calls[c].late
        BY <3>1, <3>5, <4>1 DEF Inv, GoneInv, Here
      <4> QED
        BY <3>1, <3>5, <4>1, <4>2 DEF Notes
    <3> QED
      BY <1>1, <3>2, <3>3, <3>4, <3>5
  <2> QED
    BY <2>1, <2>2
<1> QED
  BY <1>6, <1>7, <1>8

LEMMA HandlerKeeps ==
  ASSUME Inv, NEW c \in Calls, StepOf(c), Notes(c),
         faults' \in 0 .. MaxFaults, lost' \in 0 .. MaxLost
  PROVE  Inv'
<1>1. TypeOK /\ ShapeInv
  BY DEF Inv
<1>2. /\ stack' \in [Paths -> Seq(Shows)]
      /\ \A v \in Vols : stack'[v] \in {<<>>, <<"volume">>}
  BY <1>1, StackStep
<1>3. TypeOK'
  BY <1>1, <1>2 DEF TypeOK, StepOf, Moves, Notes
<1> QED
  BY <1>3, HandlerShapes, HandlerMounts DEF Inv

LEMMA ServesKeeps ==
  ASSUME Inv, NEW c \in Calls, Serves(c)
  PROVE  Inv'
<1>1. TypeOK /\ ShapeInv
  BY DEF Inv
<1>2. StepOf(c)
  BY <1>1, HandlerStep DEF Serves
<1>3. Here(c) \in Paths
  BY <1>1, <1>2, StackStep
<1>4. Notes(c)
  BY <1>1, <1>3 DEF Serves, Notes, TypeOK
<1> QED
  BY <1>1, <1>2, <1>4, HandlerKeeps DEF Serves, TypeOK

LEMMA FailureKeeps ==
  ASSUME Inv, NEW c \in Calls, Fault(CommandFails(c) /\ UNCHANGED kubeVars)
  PROVE  Inv'
<1>1. TypeOK /\ ShapeInv
  BY DEF Inv
<1>2. CommandFails(c) /\ UNCHANGED kubeVars /\ UNCHANGED stack
  BY DEF Fault, CommandFails
<1>3. StepOf(c)
  BY <1>1, <1>2, HandlerStep
<1>4. Notes(c)
  BY <1>1, <1>2 DEF Notes, TypeOK, kubeVars
<1>5. faults' \in 0 .. MaxFaults /\ lost' \in 0 .. MaxLost
  BY <1>1, NodeAssumption DEF Fault, TypeOK
<1> QED
  BY <1>3, <1>4, <1>5, HandlerKeeps

-----------------------------------------------------------------------------
(* Steps that leave the mounts alone, and in which calls end or are given up *)
(* and pods go.                                                              *)
Quiet ==
  /\ UNCHANGED <<stack, put, disturbed>>
  /\ \A p \in Pods : wants'[p] => wants[p]
  /\ \A c \in Calls :
       \/ calls'[c] = calls[c]
       \/ calls'[c] = Idle
       \/ /\ calls[c].op # "none" /\ calls'[c].late
          /\ calls'[c].op = calls[c].op /\ calls'[c].pc = calls[c].pc
          /\ calls'[c].path = calls[c].path /\ calls'[c].ok = calls[c].ok

LEMMA QuietKeeps ==
  ASSUME Inv, Quiet, TypeOK'
  PROVE  Inv'
<1>1. /\ UNCHANGED <<stack, put, disturbed>>
      /\ \A p \in Pods : wants'[p] => wants[p] /\ p # NoPath
  BY PathFacts DEF Quiet
<1>2. ASSUME NEW c \in Calls, calls'[c] # Idle, calls'[c].op # "none" \/ calls'[c].path # NoPath
      PROVE  /\ calls[c] # Idle
             /\ calls'[c].op = calls[c].op /\ calls'[c].pc = calls[c].pc
             /\ calls'[c].path = calls[c].path /\ calls'[c].ok = calls[c].ok
             /\ ~calls'[c].late => ~calls[c].late
             /\ calls[c].late => calls'[c].late
  <2>1. calls[c] = Idle => calls[c].op = "none"
    BY IdleFacts
  <2> QED
    BY <1>2, <2>1 DEF Quiet
<1>3. ASSUME NEW c \in Calls PROVE ShapeOf(calls'[c])
  <2>1. ShapeOf(calls[c])
    BY DEF Inv, ShapeInv
  <2>2. CASE calls'[c] \in {calls[c], Idle}
    BY <2>1, <2>2, IdleFacts
  <2>3. CASE calls'[c] \notin {calls[c], Idle}
    BY <2>1, <2>3 DEF Quiet, ShapeOf
  <2> QED
    BY <2>2, <2>3
<1>4. ShapeInv'
  BY <1>3 DEF ShapeInv
<1>5. \A c \in Calls : calls'[c].op # "none" => calls'[c] # Idle
  BY IdleFacts
<1>6. \A c \in Calls : calls'[c] # Idle => calls'[c].op # "none"
  BY <1>3 DEF ShapeOf
<1>7. AloneInv'
  BY <1>1, <1>2, <1>6 DEF Inv, AloneInv, Live, Here
<1>8. UnsureInv'
  BY <1>1, <1>2, <1>6 DEF Inv, UnsureInv, Live, Here
<1>9. StagedInv'
  BY <1>1, <1>2, <1>5 DEF Inv, StagedInv, Shown, Answered, At, Here
<1>10. PodInv'
  <2> SUFFICES ASSUME NEW p \in Pods, wants'[p]
               PROVE  /\ (Uses[p] \in disturbed \/ OnlyVolume(p))'
                      /\ put'[p] = "yes" => stack'[p] # <<>>
                      /\ \A d \in Calls : calls'[d].path = p =>
                           /\ calls'[d].op = "publish" /\ put'[Uses[p]] = "yes"
                           /\ calls'[d].pc = "replied" /\ calls'[d].ok => stack'[p] # <<>>
    BY DEF PodInv, Answered, At, Here
  <2>1. /\ wants[p] /\ p # NoPath
        /\ Uses[p] \in disturbed \/ OnlyVolume(p)
        /\ put[p] = "yes" => stack[p] # <<>>
        /\ \A d \in Calls : calls[d].path = p =>
             /\ calls[d].op = "publish" /\ put[Uses[p]] = "yes"
             /\ calls[d].pc = "replied" /\ calls[d].ok => stack[p] # <<>>
    BY <1>1 DEF Inv, PodInv, Answered, At, Here
  <2>2. ASSUME NEW d \in Calls, calls'[d].path = p
        PROVE  /\ calls[d].path = p /\ calls'[d].op = calls[d].op
               /\ calls'[d].pc = calls[d].pc /\ calls'[d].ok = calls[d].ok
    BY <1>2, <2>1, <2>2, IdleFacts
  <2> QED
    BY <1>1, <2>1, <2>2 DEF OnlyVolume
<1>11. GoneInv'
  BY <1>2, <1>5 DEF Inv, GoneInv, Here
<1>12. UnpublishedIsUnmounted'
  BY <1>1, <1>2, <1>5 DEF Inv, UnpublishedIsUnmounted, At, Here, IsMounted
<1> QED
  BY <1>4, <1>7, <1>8, <1>9, <1>10, <1>11, <1>12 DEF Inv

-----------------------------------------------------------------------------
(* The kubelet issues a call.                                                *)
LEMMA IssueKeeps ==
  ASSUME Inv, NEW c \in Calls, NEW x \in Paths,
         NEW op \in OnVolume \cup OnPod, NEW pc \in {"mkfs", "bind", "check"},
         Issue(c, op, pc, x), UNCHANGED <<faults, lost>>,
         op = "stage" <=> pc = "mkfs", op = "publish" <=> pc = "bind",
         op \in OnVolume => x \in Vols, op \in OnPod => x \in Pods,
         op = "stage" => put[x] # "yes",
         op = "unstage" => \A p \in PodsOf(x) : ~wants[p],
         op = "publish" => wants[x] /\ put[Uses[x]] = "yes",
         op = "unpublish" => ~wants[x]
  PROVE  Inv'
<1> DEFINE k == calls'[c]
<1>1. /\ TypeOK /\ calls \in [Calls -> Call] /\ put \in [Paths -> {"no", "unsure", "yes"}]
      /\ told \in [Vols -> BOOLEAN]
  BY DEF Inv, TypeOK
<1>2. /\ calls' = [calls EXCEPT ![c] = [Idle EXCEPT !.op = op, !.pc = pc, !.path = x,
                                                    !.device = told[VolumeOf(x)]]]
      /\ put' = [put EXCEPT ![x] = "unsure"]
      /\ UNCHANGED <<disk, stack, wants, told, disturbed, faults, lost>>
      /\ calls[c] = Idle /\ forgotten' \subseteq Paths
      /\ \A d \in Calls : ~Excludes(calls[d], op, x)
  BY DEF Issue, Now, nodeVars, Inv, TypeOK
<1>3. /\ k \in Call /\ k.op = op /\ k.pc = pc /\ k.path = x /\ ~k.late
      /\ \A d \in Calls \ {c} : calls'[d] = calls[d]
  <2>1. told[VolumeOf(x)] \in BOOLEAN
    BY <1>1, PathFacts DEF Paths
  <2> QED
    BY <1>1, <1>2, <2>1 DEF Idle, Call, OnVolume, OnPod
<1> HIDE DEF k
<1>4. k = calls'[c]
  BY DEF k
<1>5. TypeOK'
  <2>1. calls' \in [Calls -> Call]
    BY <1>1, <1>2, <1>3, <1>4
  <2> QED
    BY <1>1, <1>2, <2>1 DEF TypeOK
<1>6. \A y \in Paths : put'[y] = put[y] \/ (y = x /\ put'[y] = "unsure")
  BY <1>1, <1>2
<1>7. ShapeInv'
  <2>1. ShapeOf(k)
    BY <1>3 DEF ShapeOf, OnVolume, OnPod
  <2> QED
    BY <1>3, <1>4, <2>1 DEF Inv, ShapeInv
<1>8. ASSUME NEW d \in Calls, d # c, Live(d), op \in OnVolume \/ calls[d].op \in OnVolume
      PROVE  VolumeOf(calls[d].path) # VolumeOf(x)
  BY <1>2, <1>8 DEF Excludes, Live, OnVolume, OnPod
<1>9. AloneInv'
  <2> SUFFICES ASSUME NEW a \in Calls, NEW b \in Calls, a # b,
                      calls'[a] # Idle, ~calls'[a].late, calls'[b] # Idle, ~calls'[b].late,
                      calls'[a].op \in OnVolume
               PROVE  VolumeOf(calls'[a].path) # VolumeOf(calls'[b].path)
    BY DEF AloneInv, Live, Here
  <2>1. CASE a = c
    BY <1>3, <1>4, <1>8, <2>1 DEF Live
  <2>2. CASE b = c
    BY <1>3, <1>4, <1>8, <2>2 DEF Live
  <2>3. CASE a # c /\ b # c
    BY <1>3, <2>3 DEF Inv, AloneInv, Live, Here
  <2> QED
    BY <2>1, <2>2, <2>3
<1>10. UnsureInv'
  <2> SUFFICES ASSUME NEW d \in Calls, calls'[d] # Idle, ~calls'[d].late,
                      calls'[d].op \in OnVolume
               PROVE  put'[calls'[d].path] = "unsure"
    BY DEF UnsureInv, Live, Here
  <2>1. CASE d = c
    BY <1>1, <1>2, <1>3, <1>4, <2>1
  <2>2. CASE d # c
    <3>1. calls'[d] = calls[d] /\ put[calls[d].path] = "unsure" /\ calls[d].path \in Paths
      BY <1>3, <2>2, PathFacts DEF Inv, UnsureInv, ShapeInv, ShapeOf, Live, Here
    <3> QED
      BY <1>6, <3>1
  <2> QED
    BY <2>1, <2>2
<1>11. StagedInv'
  <2>1. \A v \in Vols : put'[v] = "yes" => put[v] = "yes"
    BY <1>6, PathFacts
  <2>2. \A d \in Calls : calls'[d].pc = "replied" => calls'[d] = calls[d]
    BY <1>3, <1>4
  <2>3. \A v \in Vols : put'[v] = "yes" => Shown(v)'
    BY <1>2, <2>1 DEF Inv, StagedInv, Shown
  <2>4. ASSUME NEW d \in Calls, calls'[d].op = "stage", ~calls'[d].late,
               calls'[d].pc = "replied", calls'[d].ok
        PROVE  stack'[calls'[d].path] = <<"volume">> \/ calls'[d].path \in disturbed'
    <3>1. stack[calls[d].path] = <<"volume">> \/ calls[d].path \in disturbed
      BY <2>2, <2>4 DEF Inv, StagedInv, Shown, Answered, At, Here
    <3> QED
      BY <1>2, <2>2, <2>4, <3>1
  <2> QED
    BY <2>3, <2>4 DEF StagedInv, Shown, Answered, At, Here
<1>12. PodInv'
  <2> SUFFICES ASSUME NEW p \in Pods, wants'[p]
               PROVE  /\ (Uses[p] \in disturbed \/ OnlyVolume(p))'
                      /\ put'[p] = "yes" => stack'[p] # <<>>
                      /\ \A d \in Calls : calls'[d].path = p =>
                           /\ calls'[d].op = "publish" /\ put'[Uses[p]] = "yes"
                           /\ calls'[d].pc = "replied" /\ calls'[d].ok => stack'[p] # <<>>
    BY DEF PodInv, Answered, At, Here
  <2>1. /\ wants[p] /\ p \in Paths /\ Uses[p] \in Vols /\ Uses[p] \in Paths /\ Uses[p] # p
        /\ Uses[p] \in disturbed \/ OnlyVolume(p)
        /\ put[p] = "yes" => stack[p] # <<>>
        /\ \A d \in Calls : calls[d].path = p =>
             /\ calls[d].op = "publish" /\ put[Uses[p]] = "yes"
             /\ calls[d].pc = "replied" /\ calls[d].ok => stack[p] # <<>>
    BY <1>2, PathFacts DEF Inv, PodInv, Answered, At, Here
  <2>2. put'[p] = "yes" => put[p] = "yes"
    BY <1>6, <2>1
  <2>3. ASSUME put[Uses[p]] = "yes" PROVE put'[Uses[p]] = "yes"
    <3>1. Uses[p] # x
      BY <2>1, <2>3, PathFacts DEF OnVolume, OnPod, PodsOf
    <3> QED
      BY <1>6, <2>1, <2>3, <3>1
  <2>4. ASSUME NEW d \in Calls, calls'[d].path = p
        PROVE  /\ calls'[d].op = "publish" /\ put'[Uses[p]] = "yes"
               /\ calls'[d].pc = "replied" /\ calls'[d].ok => stack'[p] # <<>>
    <3>1. CASE d = c
      <4>1. x = p /\ op = "publish" /\ pc = "bind"
        BY <1>3, <1>4, <2>1, <2>4, <3>1, PathFacts DEF OnVolume, OnPod
      <4> QED
        BY <1>3, <1>4, <2>3, <3>1, <4>1
    <3>2. CASE d # c
      BY <1>2, <1>3, <2>1, <2>3, <2>4, <3>2
    <3> QED
      BY <3>1, <3>2
  <2> QED
    BY <1>2, <2>1, <2>2, <2>4 DEF OnlyVolume
<1>13. GoneInv'
  <2> SUFFICES ASSUME NEW a \in Calls, NEW b \in Calls, calls'[a].op = "unpublish",
                      calls'[b].op = "publish", calls'[a].path = calls'[b].path
               PROVE  calls'[b].late
    BY DEF GoneInv, Here
  <2>1. CASE a = c
    <3>1. b # c /\ calls'[b] = calls[b] /\ op = "unpublish" /\ calls[b].path = x
      BY <1>3, <1>4, <2>1
    <3>2. calls[b] # Idle
      BY <3>1, IdleFacts
    <3> QED
      BY <1>2, <3>1, <3>2 DEF Excludes
  <2>2. CASE b = c
    <3>1. a # c /\ calls[a].op = "unpublish" /\ calls[a].path = x /\ op = "publish" /\ wants[x]
      BY <1>3, <1>4, <2>2
    <3>2. x \in Pods
      BY <3>1 DEF OnPod
    <3>3. calls[a].op = "publish"
      BY <3>1, <3>2 DEF Inv, PodInv, Here
    <3> QED
      BY <3>1, <3>3
  <2>3. CASE a # c /\ b # c
    BY <1>3, <2>3 DEF Inv, GoneInv, Here
  <2> QED
    BY <2>1, <2>2, <2>3
<1>14. UnpublishedIsUnmounted'
  <2>1. \A d \in Calls : calls'[d].pc = "replied" => calls'[d] = calls[d]
    BY <1>3, <1>4
  <2> QED
    BY <1>2, <2>1 DEF Inv, UnpublishedIsUnmounted, At, Here, IsMounted
<1> QED
  BY <1>5, <1>7, <1>9, <1>10, <1>11, <1>12, <1>13, <1>14 DEF Inv

(* The kubelet reads the answer of a call it has not given up.               *)
LEMMA AnswerKeeps ==
  ASSUME Inv, NEW c \in Calls, Receive(c), ~calls[c].late, UNCHANGED <<faults, lost>>
  PROVE  Inv'
<1> DEFINE x == calls[c].path
<1>1. /\ TypeOK /\ calls \in [Calls -> Call] /\ put \in [Paths -> {"no", "unsure", "yes"}]
      /\ calls[c] \in Call /\ ShapeOf(calls[c])
  BY DEF Inv, TypeOK, ShapeInv
<1>2. /\ calls' = [calls EXCEPT ![c] = Idle]
      /\ put' = [put EXCEPT ![x] = Learns(calls[c])]
      /\ UNCHANGED <<disk, stack, wants, told, disturbed, faults, lost>>
      /\ calls[c].pc = "replied" /\ calls[c].op # "none" /\ Live(c)
  <2>1. calls[c].op # "none"
    BY <1>1 DEF Receive, At, ShapeOf
  <2> QED
    BY <2>1, IdleFacts DEF Receive, Now, At, Here, nodeVars, Live
<1>3. x \in Paths
  BY <1>1, <1>2, PathFacts DEF Call, ShapeOf, OnVolume, OnPod
<1>4. Learns(calls[c]) \in {"no", "unsure", "yes"}
  BY DEF Learns
<1>5. TypeOK'
  <2>1. forgotten' \subseteq Paths
    BY <1>3 DEF Receive, Here, Inv, TypeOK
  <2> QED
    BY <1>1, <1>2, <1>4, <2>1, IdleFacts DEF TypeOK
<1>6. /\ calls'[c] = Idle /\ Idle.op = "none" /\ Idle.path = NoPath /\ Idle.pc = "idle"
      /\ \A d \in Calls \ {c} : calls'[d] = calls[d]
  BY <1>1, <1>2, IdleFacts
<1>7. /\ \A y \in Paths : y # x => put'[y] = put[y]
      /\ put'[x] = Learns(calls[c])
  BY <1>1, <1>2, <1>3
<1> HIDE DEF x
<1>8. x = Here(c)
  BY DEF x, Here
<1>9. calls[c].op \in OnVolume => x \in Vols /\ put[x] = "unsure"
  BY <1>1, <1>2, <1>8 DEF Inv, UnsureInv, ShapeOf, Here
<1>10. calls[c].op \in OnPod => x \in Pods
  BY <1>1, <1>8 DEF ShapeOf, Here
<1>11. calls[c].op \in OnVolume \cup OnPod
  BY <1>1, <1>2 DEF Call, OnVolume, OnPod
<1>12. ShapeInv'
  BY <1>6, IdleFacts DEF Inv, ShapeInv
<1>13. AloneInv'
  BY <1>6 DEF Inv, AloneInv, Live, Here
<1>14. UnsureInv'
  <2> SUFFICES ASSUME NEW d \in Calls, calls'[d] # Idle, ~calls'[d].late,
                      calls'[d].op \in OnVolume
               PROVE  put'[calls'[d].path] = "unsure"
    BY DEF UnsureInv, Live, Here
  <2>1. d # c /\ calls'[d] = calls[d] /\ Live(d)
    BY <1>6 DEF Live
  <2>2. put[calls[d].path] = "unsure" /\ calls[d].path \in Paths
    BY <2>1, PathFacts DEF Inv, UnsureInv, ShapeInv, ShapeOf, Here
  <2>3. VolumeOf(calls[d].path) # VolumeOf(x)
    BY <1>2, <1>8, <2>1 DEF Inv, AloneInv, Here
  <2> QED
    BY <1>7, <2>1, <2>2, <2>3
<1>15. StagedInv'
  <2>1. ASSUME NEW v \in Vols, put'[v] = "yes" PROVE Shown(v)'
    <3>1. CASE v # x
      BY <1>2, <1>7, <2>1, <3>1, PathFacts DEF Inv, StagedInv, Shown
    <3>2. CASE v = x
      <4>1. calls[c].op = "stage" /\ calls[c].ok
        BY <1>7, <1>10, <1>11, <2>1, <3>2, PathFacts DEF Learns, OnVolume, OnPod
      <4>2. Shown(x)
        BY <1>2, <1>8, <4>1 DEF Inv, StagedInv, Answered, At, Live
      <4> QED
        BY <1>2, <3>2, <4>2 DEF Shown
    <3> QED
      BY <3>1, <3>2
  <2>2. ASSUME NEW d \in Calls, calls'[d].op = "stage", ~calls'[d].late,
               calls'[d].pc = "replied", calls'[d].ok
        PROVE  stack'[calls'[d].path] = <<"volume">> \/ calls'[d].path \in disturbed'
    <3>1. calls'[d] = calls[d]
      BY <1>6, <2>2
    <3>2. stack[calls[d].path] = <<"volume">> \/ calls[d].path \in disturbed
      BY <2>2, <3>1 DEF Inv, StagedInv, Shown, Answered, At, Here
    <3> QED
      BY <1>2, <3>1, <3>2
  <2> QED
    BY <2>1, <2>2 DEF StagedInv, Shown, Answered, At, Here
<1>16. PodInv'
  <2> SUFFICES ASSUME NEW p \in Pods, wants'[p]
               PROVE  /\ (Uses[p] \in disturbed \/ OnlyVolume(p))'
                      /\ put'[p] = "yes" => stack'[p] # <<>>
                      /\ \A d \in Calls : calls'[d].path = p =>
                           /\ calls'[d].op = "publish" /\ put'[Uses[p]] = "yes"
                           /\ calls'[d].pc = "replied" /\ calls'[d].ok => stack'[p] # <<>>
    BY DEF PodInv, Answered, At, Here
  <2>1. /\ wants[p] /\ p \in Paths /\ p # NoPath
        /\ Uses[p] \in Vols /\ Uses[p] \in Paths /\ Uses[p] # p
        /\ Uses[p] \in disturbed \/ OnlyVolume(p)
        /\ put[p] = "yes" => stack[p] # <<>>
        /\ \A d \in Calls : calls[d].path = p =>
             /\ calls[d].op = "publish" /\ put[Uses[p]] = "yes"
             /\ calls[d].pc = "replied" /\ calls[d].ok => stack[p] # <<>>
    BY <1>2, PathFacts DEF Inv, PodInv, Answered, At, Here
  <2>2. ASSUME put'[p] = "yes" PROVE stack'[p] # <<>>
    <3>1. CASE p # x
      BY <1>2, <1>7, <2>1, <2>2, <3>1
    <3>2. CASE p = x
      <4>1. calls[c].path = p /\ calls[c].op = "publish"
        BY <1>8, <2>1, <3>2 DEF Here
      <4>2. calls[c].ok
        BY <1>7, <2>2, <3>2, <4>1 DEF Learns
      <4> QED
        BY <1>2, <2>1, <4>1, <4>2
    <3> QED
      BY <3>1, <3>2
  <2>3. ASSUME put[Uses[p]] = "yes" PROVE put'[Uses[p]] = "yes"
    <3>1. Uses[p] # x
      BY <1>9, <1>10, <1>11, <2>1, <2>3, PathFacts
    <3> QED
      BY <1>7, <2>1, <2>3, <3>1
  <2>4. ASSUME NEW d \in Calls, calls'[d].path = p
        PROVE  /\ calls'[d].op = "publish" /\ put'[Uses[p]] = "yes"
               /\ calls'[d].pc = "replied" /\ calls'[d].ok => stack'[p] # <<>>
    <3>1. calls'[d] = calls[d]
      BY <1>6, <2>1, <2>4
    <3> QED
      BY <1>2, <2>1, <2>3, <2>4, <3>1
  <2> QED
    BY <1>2, <2>1, <2>2, <2>4 DEF OnlyVolume
<1>17. GoneInv'
  BY <1>6 DEF Inv, GoneInv, Here
<1>18. UnpublishedIsUnmounted'
  <2>1. \A d \in Calls : calls'[d].pc = "replied" => calls'[d] = calls[d]
    BY <1>6
  <2> QED
    BY <1>2, <2>1 DEF Inv, UnpublishedIsUnmounted, At, Here, IsMounted
<1> QED
  BY <1>5, <1>12, <1>13, <1>14, <1>15, <1>16, <1>17, <1>18 DEF Inv

(* A pod comes: nothing is known, mounted or under way on its path.          *)
LEMMA PodComesKeeps ==
  ASSUME Inv, NEW p \in Pods, PodComes(p), UNCHANGED <<faults, lost>>
  PROVE  Inv'
<1>1. /\ TypeOK /\ stack[p] = <<>> /\ put[p] = "no"
      /\ \A c \in Calls : calls[c].path # p
      /\ wants' = [wants EXCEPT ![p] = TRUE] /\ disturbed' = disturbed \ {p}
      /\ UNCHANGED <<disk, stack, calls, put, told, forgotten, faults, lost>>
  BY DEF Inv, PodComes, IsMounted, Here, nodeVars
<1>2. \A v \in Vols : v # p /\ v \in Paths
  BY PathFacts
<1>3. TypeOK'
  BY <1>1 DEF TypeOK
<1>4. ShapeInv' /\ AloneInv' /\ UnsureInv' /\ GoneInv'
  BY <1>1 DEF Inv, ShapeInv, AloneInv, UnsureInv, GoneInv, Live, Here
<1>5. StagedInv'
  <2>1. \A v \in Vols : Shown(v) => Shown(v)'
    BY <1>1, <1>2 DEF Shown
  <2>2. ASSUME NEW d \in Calls, calls[d].op = "stage", ~calls[d].late,
               calls[d].pc = "replied", calls[d].ok
        PROVE  stack'[calls[d].path] = <<"volume">> \/ calls[d].path \in disturbed'
    <3>1. calls[d].path \in Vols
      BY <2>2 DEF Inv, ShapeInv, ShapeOf, OnVolume
    <3>2. stack[calls[d].path] = <<"volume">> \/ calls[d].path \in disturbed
      BY <2>2 DEF Inv, StagedInv, Shown, Answered, At, Here
    <3> QED
      BY <1>1, <1>2, <3>1, <3>2
  <2> QED
    BY <1>1, <2>1, <2>2 DEF Inv, StagedInv, Shown, Answered, At, Here
<1>6. PodInv'
  <2> SUFFICES ASSUME NEW q \in Pods, wants'[q]
               PROVE  /\ (Uses[q] \in disturbed \/ OnlyVolume(q))'
                      /\ put'[q] = "yes" => stack'[q] # <<>>
                      /\ \A d \in Calls : calls'[d].path = q =>
                           /\ calls'[d].op = "publish" /\ put'[Uses[q]] = "yes"
                           /\ calls'[d].pc = "replied" /\ calls'[d].ok => stack'[q] # <<>>
    BY DEF PodInv, Answered, At, Here
  <2>1. CASE q = p
    <3>1. OnlyVolume(p)
      BY <1>1 DEF OnlyVolume
    <3> QED
      BY <1>1, <2>1, <3>1 DEF OnlyVolume
  <2>2. CASE q # p
    <3>1. wants[q] /\ Uses[q] \in Vols
      BY <1>1, <2>2, PathFacts
    <3> QED
      BY <1>1, <1>2, <3>1 DEF Inv, PodInv, OnlyVolume, Answered, At, Here
  <2> QED
    BY <2>1, <2>2
<1>7. UnpublishedIsUnmounted'
  BY <1>1 DEF Inv, UnpublishedIsUnmounted, At, Here, IsMounted
<1> QED
  BY <1>3, <1>4, <1>5, <1>6, <1>7 DEF Inv

(* Nothing is mounted, known or under way, at the start and after a reboot.  *)
Nothing ==
  /\ stack = [x \in Paths |-> <<>>]
  /\ calls = [c \in Calls |-> Idle]
  /\ put = [x \in Paths |-> "no"]

LEMMA NothingKeeps == TypeOK /\ Nothing => Inv
<1> SUFFICES ASSUME TypeOK, Nothing PROVE Inv
  OBVIOUS
<1>1. \A c \in Calls : calls[c] = Idle
  BY DEF Nothing
<1>2. \A x \in Paths : stack[x] = <<>> /\ put[x] = "no"
  BY DEF Nothing
<1>3. ShapeInv /\ AloneInv /\ UnsureInv /\ GoneInv /\ UnpublishedIsUnmounted
  BY <1>1, IdleFacts
  DEF ShapeInv, AloneInv, UnsureInv, GoneInv, UnpublishedIsUnmounted, Live, At, Here
<1>4. StagedInv
  BY <1>1, <1>2, IdleFacts, PathFacts DEF StagedInv
<1>5. PodInv
  BY <1>1, <1>2, IdleFacts, PathFacts DEF PodInv, OnlyVolume, Here
<1> QED
  BY <1>3, <1>4, <1>5 DEF Inv

-----------------------------------------------------------------------------
(* The steps of the kubelet and the failures, one by one.                    *)
LEMMA KubeletKeeps ==
  ASSUME Inv, NEW c \in Calls,
         \/ Kubelet(Receive(c))
         \/ \E v \in Vols : Kubelet(IssueStage(c, v)) \/ Kubelet(IssueUnstage(c, v))
         \/ \E p \in Pods : Kubelet(IssuePublish(c, p)) \/ Kubelet(IssueUnpublish(c, p))
  PROVE  Inv'
<1>1. CASE Kubelet(Receive(c)) /\ ~calls[c].late
  BY <1>1, AnswerKeeps DEF Kubelet
<1>2. CASE Kubelet(Receive(c)) /\ calls[c].late
  <2>1. /\ calls' = [calls EXCEPT ![c] = Idle]
        /\ UNCHANGED <<put, disk, stack, wants, told, disturbed, forgotten, faults, lost>>
    BY <1>2 DEF Kubelet, Receive, Now, nodeVars
  <2>2. TypeOK'
    BY <2>1, IdleFacts DEF Inv, TypeOK
  <2>3. Quiet
    BY <2>1 DEF Inv, TypeOK, Quiet
  <2> QED
    BY <2>2, <2>3, QuietKeeps
<1>3. ASSUME NEW v \in Vols, Kubelet(IssueStage(c, v))
      PROVE  Inv'
  BY <1>3, IssueKeeps, PathFacts DEF Kubelet, IssueStage, OnVolume, OnPod
<1>4. ASSUME NEW v \in Vols, Kubelet(IssueUnstage(c, v))
      PROVE  Inv'
  BY <1>4, IssueKeeps, PathFacts DEF Kubelet, IssueUnstage, OnVolume, OnPod
<1>5. ASSUME NEW p \in Pods, Kubelet(IssuePublish(c, p))
      PROVE  Inv'
  BY <1>5, IssueKeeps, PathFacts DEF Kubelet, IssuePublish, OnVolume, OnPod
<1>6. ASSUME NEW p \in Pods, Kubelet(IssueUnpublish(c, p))
      PROVE  Inv'
  BY <1>6, IssueKeeps, PathFacts DEF Kubelet, IssueUnpublish, OnVolume, OnPod
<1> QED
  BY <1>1, <1>2, <1>3, <1>4, <1>5, <1>6

LEMMA PodKeeps ==
  ASSUME Inv, NEW p \in Pods,
         Kubelet(PodComes(p)) \/ Kubelet(PodGoes(p)) \/ Kubelet(PodWrites(p))
  PROVE  Inv'
<1>1. CASE Kubelet(PodComes(p))
  BY <1>1, PodComesKeeps DEF Kubelet
<1>2. CASE Kubelet(PodGoes(p))
  <2>1. /\ wants' = [wants EXCEPT ![p] = FALSE]
        /\ UNCHANGED <<put, disk, stack, calls, told, disturbed, forgotten, faults, lost>>
    BY <1>2 DEF Kubelet, PodGoes, nodeVars
  <2>2. TypeOK' /\ Quiet
    BY <2>1 DEF Inv, TypeOK, Quiet
  <2> QED
    BY <2>2, QuietKeeps
<1>3. CASE Kubelet(PodWrites(p))
  <2>1. /\ disk' = [disk EXCEPT ![Uses[p]] = "written"]
        /\ UNCHANGED <<put, stack, calls, told, wants, disturbed, forgotten, faults, lost>>
    BY <1>3 DEF Kubelet, PodWrites, kubeVars
  <2>2. TypeOK' /\ Quiet
    BY <2>1 DEF Inv, TypeOK, Quiet
  <2> QED
    BY <2>2, QuietKeeps
<1> QED
  BY <1>1, <1>2, <1>3

LEMMA AttachKeeps ==
  ASSUME Inv, NEW v \in Vols, Kubelet(Attached(v)) \/ Kubelet(Detached(v))
  PROVE  Inv'
<1>1. \E b \in BOOLEAN : told' = [told EXCEPT ![v] = b]
  BY DEF Kubelet, Attached, Detached
<1>2. UNCHANGED <<put, disk, stack, calls, wants, disturbed, forgotten, faults, lost>>
  BY DEF Kubelet, Attached, Detached, nodeVars
<1>3. TypeOK' /\ Quiet
  BY <1>1, <1>2 DEF Inv, TypeOK, Quiet
<1> QED
  BY <1>3, QuietKeeps

LEMMA LossKeeps ==
  ASSUME Inv, Loss(DriverRestarts) \/ \E c \in Calls : Loss(GivenUp(c))
  PROVE  Inv'
<1>1. /\ lost' \in 0 .. MaxLost
      /\ UNCHANGED <<put, disk, stack, wants, told, disturbed, forgotten, faults>>
  <2>1. lost < MaxLost /\ lost' = lost + 1 /\ UNCHANGED faults
    BY DEF Loss
  <2>2. UNCHANGED <<put, disk, stack, wants, told, disturbed, forgotten>>
    BY DEF Loss, DriverRestarts, GivenUp, nodeVars, kubeVars
  <2>3. lost' \in 0 .. MaxLost
    BY <2>1, NodeAssumption DEF Inv, TypeOK
  <2> QED
    BY <2>1, <2>2, <2>3
<1>2. CASE Loss(DriverRestarts)
  <2>1. calls' = [c \in Calls |-> Idle]
    BY <1>2 DEF Loss, DriverRestarts
  <2>2. TypeOK' /\ Quiet
    BY <1>1, <2>1, IdleFacts DEF Inv, TypeOK, Quiet
  <2> QED
    BY <2>2, QuietKeeps
<1>3. ASSUME NEW c \in Calls, Loss(GivenUp(c))
      PROVE  Inv'
  <2>1. /\ calls' = [calls EXCEPT ![c] = [calls[c] EXCEPT !.late = TRUE]]
        /\ calls[c].op # "none" /\ calls \in [Calls -> Call] /\ calls[c] \in Call
    BY <1>3, NodeAssumption DEF Loss, GivenUp, Now, Inv, TypeOK
  <2>2. /\ [calls[c] EXCEPT !.late = TRUE] \in Call
        /\ calls'[c] = [calls[c] EXCEPT !.late = TRUE]
        /\ \A d \in Calls \ {c} : calls'[d] = calls[d]
    BY <2>1 DEF Call
  <2>3. TypeOK'
    BY <1>1, <2>1, <2>2 DEF Inv, TypeOK
  <2>4. Quiet
    BY <1>1, <2>1, <2>2 DEF Quiet, Call
  <2> QED
    BY <2>3, <2>4, QuietKeeps
<1> QED
  BY <1>2, <1>3

LEMMA RebootKeeps ==
  ASSUME Inv, Fault(Reboot)
  PROVE  Inv'
<1>1. /\ stack' = [x \in Paths |-> <<>>] /\ calls' = [c \in Calls |-> Idle]
      /\ put' = [x \in Paths |-> "no"] /\ disturbed' = {}
      /\ forgotten' = {} /\ UNCHANGED <<disk, wants, told, lost>> /\ faults' \in 0 .. MaxFaults
  BY NodeAssumption DEF Fault, Reboot, Inv, TypeOK
<1>2. \A x \in Paths : stack'[x] = <<>> /\ <<>> \in Seq(Shows)
  BY <1>1
<1>3. TypeOK'
  BY <1>1, <1>2, IdleFacts, PathFacts DEF Inv, TypeOK
<1>4. Nothing'
  BY <1>1 DEF Nothing
<1> QED
  BY <1>3, <1>4, NothingKeeps, PTL

LEMMA InitHolds == Init => Inv
<1> SUFFICES ASSUME Init PROVE Inv
  OBVIOUS
<1>1. \A x \in Paths : stack[x] = <<>> /\ <<>> \in Seq(Shows)
  BY DEF Init
<1>2. TypeOK
  BY <1>1, IdleFacts, PathFacts, NodeAssumption DEF Init, TypeOK
<1> QED
  BY <1>2, NothingKeeps DEF Init, Nothing

LEMMA StepKeeps ==
  ASSUME Inv, [Next]_vars
  PROVE  Inv'
<1>1. CASE UNCHANGED vars
  <2>1. TypeOK' /\ Quiet
    BY <1>1 DEF Inv, TypeOK, Quiet, vars
  <2> QED
    BY <2>1, QuietKeeps
<1>2. CASE Next
  BY <1>2, ServesKeeps, FailureKeeps, KubeletKeeps, PodKeeps, AttachKeeps,
     LossKeeps, RebootKeeps
  DEF Next
<1> QED
  BY <1>1, <1>2

-----------------------------------------------------------------------------
(* The results.                                                              *)
LEMMA Holds == Spec => []Inv
BY InitHolds, StepKeeps, PTL DEF Spec

(* The mounts, the calls and what the kubelet knows stay what they are taken *)
(* to be; a staging path never has more than one mount, that of its volume.  *)
THEOREM NodeTyped == Spec => []TypeOK
<1>1. Inv => TypeOK
  BY DEF Inv
<1> QED
  BY <1>1, Holds, PTL

LEMMA OnlyVolumeOnTop ==
  ASSUME TypeOK, NEW p \in Pods, OnlyVolume(p), stack[p] # <<>>
  PROVE  Len(stack[p]) \in DOMAIN stack[p] /\ Top(p) = "volume"
<1>1. stack[p] \in Seq(Shows)
  BY PathFacts DEF TypeOK
<1>2. Len(stack[p]) \in DOMAIN stack[p]
  BY <1>1
<1> QED
  BY <1>2 DEF OnlyVolume, Top

(* A running pod sees its volume, whatever calls run at the same time, get   *)
(* lost or are repeated, unless a late unstage took the volume away.         *)
THEOREM PodsSeeVolumes == Spec => []RunningPodSeesVolume
<1>1. ASSUME Inv PROVE RunningPodSeesVolume
  <2> SUFFICES ASSUME NEW p \in Pods, Running(p), Uses[p] \notin disturbed
               PROVE  IsMounted(p) /\ Top(p) = "volume"
    BY DEF RunningPodSeesVolume
  <2>1. TypeOK /\ OnlyVolume(p) /\ stack[p] # <<>>
    BY <1>1 DEF Inv, PodInv, Running
  <2> QED
    BY <2>1, OnlyVolumeOnTop DEF IsMounted
<1> QED
  BY <1>1, Holds, PTL

(* An unpublish answered OK has left nothing on the target path.             *)
THEOREM UnpublishedUnmounted == Spec => []UnpublishedIsUnmounted
<1>1. Inv => UnpublishedIsUnmounted
  BY DEF Inv
<1> QED
  BY <1>1, Holds, PTL

(* The volume of a running pod is not formatted.                             *)
LEMMA DataStep ==
  ASSUME Inv, [Next]_vars, NEW v \in Vols, disk[v] = "written",
         NEW p \in PodsOf(v), Running(p), v \notin disturbed
  PROVE  disk'[v] = "written"
<1>1. /\ TypeOK /\ ShapeInv /\ disk \in [Vols -> {"blank", "empty", "written"}]
      /\ p \in Pods /\ Uses[p] = v
  BY DEF Inv, TypeOK, PodsOf
<1>2. InUse(v)
  <2>1. OnlyVolume(p) /\ stack[p] # <<>>
    BY <1>1 DEF Inv, PodInv, Running
  <2>2. Len(stack[p]) \in DOMAIN stack[p] /\ stack[p][Len(stack[p])] = "volume"
    BY <1>1, <2>1, OnlyVolumeOnTop DEF Top
  <2> QED
    BY <1>1, <2>2, PathFacts DEF InUse
<1>3. ~Formats(v)
  BY <1>2 DEF Formats
<1>4. UNCHANGED disk => disk'[v] = "written"
  OBVIOUS
<1>5. ASSUME NEW c \in Calls, Serves(c) \/ Fault(CommandFails(c) /\ UNCHANGED kubeVars)
      PROVE  disk'[v] = "written"
  <2>1. At(c, "mkfs") => Here(c) \in Vols
    BY <1>1 DEF ShapeInv, ShapeOf, At, Here, OnVolume
  <2>2. CASE StageFormat(c) \/ CommandFails(c)
    BY <1>1, <1>3, <2>1, <2>2 DEF StageFormat, CommandFails
  <2>3. CASE \/ StageMount(c) \/ PublishBind(c)
             \/ UnmountCheck(c) \/ Unmount(c) \/ UnmountAnswer(c)
    BY <1>4, <2>3
    DEF StageMount, PublishBind, UnmountCheck, Unmount, UnmountAnswer, nodeVars
  <2> QED
    BY <1>5, <2>2, <2>3 DEF Serves, Fault, CallStep
<1>6. ASSUME NEW c \in Calls, Kubelet(Receive(c)) \/ Loss(GivenUp(c))
      PROVE  disk'[v] = "written"
  BY <1>4, <1>6 DEF Kubelet, Loss, Receive, GivenUp, nodeVars
<1>7. ASSUME NEW c \in Calls, NEW w \in Vols,
             Kubelet(IssueStage(c, w)) \/ Kubelet(IssueUnstage(c, w))
      PROVE  disk'[v] = "written"
  BY <1>4, <1>7 DEF Kubelet, IssueStage, IssueUnstage, Issue, nodeVars
<1>8. ASSUME NEW c \in Calls, NEW q \in Pods,
             Kubelet(IssuePublish(c, q)) \/ Kubelet(IssueUnpublish(c, q))
      PROVE  disk'[v] = "written"
  BY <1>4, <1>8 DEF Kubelet, IssuePublish, IssueUnpublish, Issue, nodeVars
<1>9. ASSUME NEW q \in Pods, Kubelet(PodComes(q)) \/ Kubelet(PodGoes(q))
      PROVE  disk'[v] = "written"
  BY <1>4, <1>9 DEF Kubelet, PodComes, PodGoes, nodeVars
<1>10. ASSUME NEW q \in Pods, Kubelet(PodWrites(q))
       PROVE  disk'[v] = "written"
  <2>1. disk' = [disk EXCEPT ![Uses[q]] = "written"]
    BY <1>10 DEF Kubelet, PodWrites
  <2> QED
    BY <1>1, <2>1
<1>11. ASSUME NEW w \in Vols, Kubelet(Attached(w)) \/ Kubelet(Detached(w))
       PROVE  disk'[v] = "written"
  BY <1>4, <1>11 DEF Kubelet, Attached, Detached, nodeVars
<1>12. CASE Fault(Reboot) \/ Loss(DriverRestarts)
  BY <1>4, <1>12 DEF Fault, Loss, Reboot, DriverRestarts, nodeVars
<1>13. CASE UNCHANGED vars
  BY <1>4, <1>13 DEF vars
<1> QED
  BY <1>5, <1>6, <1>7, <1>8, <1>9, <1>10, <1>11, <1>12, <1>13 DEF Next

(* What a pod has written is kept as long as a pod of the volume runs.       *)
THEOREM PodsKeepData == Spec => RunningPodKeepsData
<1> DEFINE Kept == \A v \in Vols :
                     disk[v] = "written" /\ (\E p \in PodsOf(v) : Running(p))
                       => disk'[v] = "written" \/ v \in disturbed
<1>1. Inv /\ [Next]_vars => [Kept]_vars
  <2> SUFFICES ASSUME Inv, [Next]_vars PROVE Kept
    OBVIOUS
  <2> QED
    BY DataStep
<1> QED
  BY <1>1, Holds, PTL DEF Spec, RunningPodKeepsData
-----------------------------------------------------------------------------
(* How high the mounts on a target path pile up. A late publish that has yet *)
(* to mount owes its path a mount, and the kubelet may start one more as     *)
(* long as it does not have the path published; each was paid for by an      *)
(* answer that was lost, but the first.                                      *)
PublishOf(c, p) == Live(c) /\ calls[c].op = "publish" /\ Here(c) = p
Owed(p) == {c \in Calls : calls[c].late /\ At(c, "bind") /\ Here(c) = p}
MayMount(p) ==
  \/ \E c \in Calls : PublishOf(c, p) /\ At(c, "bind")
  \/ wants[p] /\ put[p] # "yes" /\ ~\E c \in Calls : PublishOf(c, p) /\ Answered(c)
Credit(p) == IF MayMount(p) THEN 1 ELSE 0

PublishInv ==
  /\ \A p \in Pods : \A c, d \in Calls : PublishOf(c, p) /\ PublishOf(d, p) => c = d
  /\ \A p \in Pods : \A c \in Calls : PublishOf(c, p) => put[p] = "unsure"
BoundAt(p) ==
  /\ IsFiniteSet(Owed(p))
  /\ Len(stack[p]) + Cardinality(Owed(p)) + Credit(p) <= lost + 1
BoundInv == \A p \in Pods : BoundAt(p)

MountInv == Inv /\ PublishInv /\ BoundInv

(* A path with no more owed to it, no more on it and no more to come.        *)
LEMMA NoMore ==
  ASSUME TypeOK, NEW p \in Pods, BoundAt(p),
         Owed(p)' \subseteq Owed(p), stack'[p] \in Seq(Shows),
         lost' \in Nat,
         \/ /\ lost' >= lost /\ Len(stack'[p]) <= Len(stack[p])
            /\ MayMount(p)' => MayMount(p)
         \/ lost' = lost + 1 /\ Len(stack'[p]) <= Len(stack[p])
         \/ /\ lost' = lost /\ Len(stack'[p]) = Len(stack[p]) + 1
            /\ MayMount(p) /\ ~MayMount(p)'
  PROVE  BoundAt(p)'
<1> DEFINE m == Cardinality(Owed(p))
           n == Cardinality(Owed(p)')
           a == Len(stack[p])
           b == Len(stack'[p])
<1>1. IsFiniteSet(Owed(p)) /\ a + m + Credit(p) <= lost + 1
  BY DEF BoundAt
<1>2. IsFiniteSet(Owed(p)') /\ n <= m /\ n \in Nat /\ m \in Nat
  BY <1>1, FS_Subset, FS_CardinalityType
<1>3. a \in Nat /\ b \in Nat /\ lost \in Nat
  BY PathFacts, NodeAssumption DEF TypeOK
<1>4. Credit(p) \in {0, 1} /\ Credit(p)' \in {0, 1}
  BY DEF Credit
<1>5. /\ (MayMount(p)' => MayMount(p)) => Credit(p)' <= Credit(p)
      /\ MayMount(p) /\ ~MayMount(p)' => Credit(p) = 1 /\ Credit(p)' = 0
  BY DEF Credit
<1>6. b + n + Credit(p)' <= lost' + 1
  <2> HIDE DEF a, b, m, n, Credit
  <2>1. CASE lost' >= lost /\ b <= a /\ (MayMount(p)' => MayMount(p))
    BY <1>1, <1>2, <1>3, <1>4, <1>5, <2>1
  <2>2. CASE lost' = lost + 1 /\ b <= a
    BY <1>1, <1>2, <1>3, <1>4, <2>2
  <2>3. CASE lost' = lost /\ b = a + 1 /\ MayMount(p) /\ ~MayMount(p)'
    BY <1>1, <1>2, <1>3, <1>4, <1>5, <2>3
  <2> QED
    BY <2>1, <2>2, <2>3 DEF a, b
<1> QED
  BY <1>2, <1>6 DEF BoundAt

(* A live publish that is given up owes its path what it might have mounted. *)
LEMMA OwesMore ==
  ASSUME TypeOK, NEW p \in Pods, BoundAt(p), NEW c \in Calls,
         Owed(p)' = Owed(p) \cup {c}, UNCHANGED stack,
         lost' = lost + 1, MayMount(p)' => MayMount(p)
  PROVE  BoundAt(p)'
<1> DEFINE m == Cardinality(Owed(p))
           n == Cardinality(Owed(p)')
           a == Len(stack[p])
<1>1. IsFiniteSet(Owed(p)) /\ a + m + Credit(p) <= lost + 1
  BY DEF BoundAt
<1>2. IsFiniteSet(Owed(p)') /\ n <= m + 1 /\ n \in Nat /\ m \in Nat
  <2> DEFINE S == Owed(p)
             T == Owed(p)'
  <2>1. IsFiniteSet(S) /\ T = S \cup {c}
    BY <1>1
  <2> HIDE DEF S, T
  <2>2. IsFiniteSet(T) /\ Cardinality(T) \in {Cardinality(S), Cardinality(S) + 1}
    BY <2>1, FS_AddElement
  <2>3. Cardinality(S) \in Nat /\ Cardinality(T) \in Nat
    BY <2>1, <2>2, FS_CardinalityType
  <2>4. Cardinality(T) <= Cardinality(S) + 1
    BY <2>2, <2>3
  <2> QED
    BY <2>2, <2>3, <2>4 DEF S, T
<1>3. a \in Nat /\ lost \in Nat
  BY PathFacts, NodeAssumption DEF TypeOK
<1>4. Credit(p) \in {0, 1} /\ Credit(p)' \in {0, 1} /\ Credit(p)' <= Credit(p)
  BY DEF Credit
<1>5. a + n + Credit(p)' <= lost' + 1
  <2> HIDE DEF a, m, n, Credit
  <2> QED
    BY <1>1, <1>2, <1>3, <1>4
<1> QED
  BY <1>2, <1>5 DEF BoundAt

(* A late publish pays its mount.                                            *)
LEMMA Pays ==
  ASSUME TypeOK, NEW p \in Pods, BoundAt(p), NEW c \in Owed(p),
         Owed(p)' = Owed(p) \ {c}, stack'[p] \in Seq(Shows),
         Len(stack'[p]) = Len(stack[p]) + 1,
         lost' = lost, MayMount(p)' => MayMount(p)
  PROVE  BoundAt(p)'
<1> DEFINE m == Cardinality(Owed(p))
           n == Cardinality(Owed(p)')
           a == Len(stack[p])
           b == Len(stack'[p])
<1>1. IsFiniteSet(Owed(p)) /\ a + m + Credit(p) <= lost + 1
  BY DEF BoundAt
<1>2. IsFiniteSet(Owed(p)') /\ n = m - 1 /\ n \in Nat /\ m \in Nat
  <2> DEFINE S == Owed(p)
             T == Owed(p)'
  <2>1. IsFiniteSet(S) /\ T = S \ {c} /\ c \in S
    BY <1>1
  <2> HIDE DEF S, T
  <2>2. IsFiniteSet(T) /\ Cardinality(T) = Cardinality(S) - 1
    BY <2>1, FS_RemoveElement
  <2>3. Cardinality(S) \in Nat /\ Cardinality(T) \in Nat
    BY <2>1, <2>2, FS_CardinalityType
  <2> QED
    BY <2>2, <2>3 DEF S, T
<1>3. a \in Nat /\ b \in Nat /\ lost \in Nat
  BY PathFacts, NodeAssumption DEF TypeOK
<1>4. Credit(p) \in {0, 1} /\ Credit(p)' \in {0, 1} /\ Credit(p)' <= Credit(p)
  BY DEF Credit
<1>5. b + n + Credit(p)' <= lost' + 1
  <2> HIDE DEF a, b, m, n, Credit
  <2> QED
    BY <1>1, <1>2, <1>3, <1>4 DEF a, b
<1> QED
  BY <1>2, <1>5 DEF BoundAt

(* A handler leaves "bind" when it mounts, and mounts only there.            *)
LEMMA BindStep ==
  ASSUME TypeOK, ShapeInv, NEW c \in Calls, CallStep(c) \/ CommandFails(c)
  PROVE  /\ calls'[c].pc # "bind" /\ ~Answered(c)
         /\ Binds(c) => At(c, "bind") /\ calls'[c].pc = "replied" /\ calls'[c].ok
<1>1. ShapeInv /\ ShapeOf(calls[c]) /\ StepOf(c)
  BY HandlerStep DEF ShapeInv
<1>2. ~Answered(c)
  BY DEF CallStep, CommandFails, StageFormat, StageMount, PublishBind, UnmountCheck,
         Unmount, UnmountAnswer, Answered, At
<1>3. CASE PublishBind(c)
  <2>1. Reply(c, TRUE)
    BY <1>3 DEF PublishBind
  <2>2. calls'[c].pc = "replied" /\ calls'[c].ok
    BY <2>1, MovesOn
  <2> QED
    BY <1>2, <1>3, <2>2 DEF PublishBind
<1>4. CASE ~PublishBind(c)
  <2>1. \/ UNCHANGED stack \/ calls[c].op # "publish"
    <3>1. CASE StageMount(c)
      BY <1>1, <3>1 DEF StageMount, At, ShapeOf
    <3>2. CASE Unmount(c)
      BY <1>1, <3>2 DEF Unmount, At, ShapeOf
    <3> QED
      BY <1>4, <3>1, <3>2
      DEF CallStep, CommandFails, StageFormat, UnmountCheck, UnmountAnswer, nodeVars
  <2>2. ~Binds(c)
    BY <1>1, <2>1, StackStep DEF Binds
  <2>3. \/ \E pc \in {"mount", "umount", "recheck"} : Goto(c, pc)
        \/ \E ok \in BOOLEAN : Reply(c, ok)
    BY <1>4 DEF CallStep, CommandFails, StageFormat, StageMount, UnmountCheck,
                Unmount, UnmountAnswer
  <2>4. calls'[c].pc # "bind"
    BY <2>3, MovesOn
  <2> QED
    BY <1>2, <2>2, <2>4
<1> QED
  BY <1>3, <1>4

LEMMA HandlerCounts ==
  ASSUME MountInv, NEW c \in Calls, CallStep(c) \/ CommandFails(c),
         UNCHANGED <<put, wants, lost>>
  PROVE  PublishInv' /\ BoundInv'
<1>1. /\ TypeOK /\ ShapeInv /\ ShapeOf(calls[c]) /\ StepOf(c)
      /\ PublishInv /\ BoundInv
  BY HandlerStep DEF MountInv, Inv, ShapeInv
<1>2. /\ \A d \in Calls \ {c} : calls'[d] = calls[d]
      /\ calls'[c].op = calls[c].op /\ calls'[c].path = calls[c].path
      /\ calls'[c].late = calls[c].late
      /\ calls[c].op # "none"
      /\ calls[c] # Idle /\ calls'[c] # Idle
  BY <1>1, IdleFacts DEF StepOf, Moves
<1>3. /\ calls'[c].pc # "bind" /\ ~Answered(c)
      /\ Binds(c) => At(c, "bind") /\ calls'[c].pc = "replied" /\ calls'[c].ok
  BY <1>1, BindStep
<1>4. ASSUME NEW p \in Pods, NEW d \in Calls
      PROVE  PublishOf(d, p)' <=> PublishOf(d, p)
  <2>1. CASE d = c
    BY <1>2, <2>1 DEF PublishOf, Live, Here
  <2>2. CASE d # c
    BY <1>2, <2>2 DEF PublishOf, Live, Here
  <2> QED
    BY <2>1, <2>2
<1>5. PublishInv'
  BY <1>1, <1>4 DEF PublishInv
<1>6. ASSUME NEW p \in Pods
      PROVE  BoundAt(p)'
  <2>1. BoundAt(p) /\ p \in Paths /\ p \notin Vols /\ lost \in Nat
    BY <1>1, PathFacts, NodeAssumption DEF BoundInv, TypeOK
  <2>2. /\ stack \in [Paths -> Seq(Shows)] /\ stack' \in [Paths -> Seq(Shows)]
        /\ Here(c) # p => stack'[p] = stack[p]
    BY <1>1, <2>1, StackStep DEF TypeOK
  <2>3. Owed(p)' = Owed(p) \ {c}
    BY <1>2, <1>3 DEF Owed, At, Here
  <2>4. MayMount(p)' => MayMount(p)
    <3>1. \A d \in Calls : At(d, "bind")' => At(d, "bind")
      BY <1>2, <1>3 DEF At
    <3>2. \A d \in Calls : Answered(d) => Answered(d)'
      BY <1>2, <1>3 DEF Answered, At
    <3> QED
      BY <1>4, <3>1, <3>2 DEF MayMount
  <2>5. CASE Here(c) # p \/ ~Binds(c)
    <3>1. Len(stack'[p]) <= Len(stack[p])
      <4>1. CASE Here(c) # p \/ Same \/ Stages(c)
        <5>1. stack'[p] = stack[p]
          BY <1>1, <2>1, <2>2, <4>1 DEF Same, Stages, ShapeOf, OnVolume, Here
        <5> QED
          BY <2>1, <2>2, <5>1
      <4>2. CASE Here(c) = p /\ Unmounts(c)
        <5>1. stack'[p] = SubSeq(stack[p], 1, Len(stack[p]) - 1) /\ stack[p] # <<>>
          BY <2>1, <2>2, <4>2 DEF Unmounts
        <5>2. stack[p] \in Seq(Shows) /\ Len(stack[p]) \in Nat /\ Len(stack[p]) # 0
          BY <2>1, <2>2, <5>1
        <5>3. Len(stack[p]) - 1 \in Nat
          BY <5>2
        <5>4. Len(stack'[p]) = Len(stack[p]) - 1
          BY <5>1, <5>2, <5>3
        <5> QED
          BY <5>2, <5>4
      <4> QED
        BY <1>1, <2>5, <4>1, <4>2 DEF StepOf
    <3> QED
      BY <1>1, <2>1, <2>2, <2>3, <2>4, <3>1, NoMore
  <2>6. CASE Here(c) = p /\ Binds(c)
    <3>1. PICK t \in Shows : stack' = [stack EXCEPT ![Here(c)] = Append(@, t)]
      BY <2>6 DEF Binds
    <3>2. Len(stack'[p]) = Len(stack[p]) + 1 /\ Len(stack[p]) \in Nat
      <4>1. stack'[p] = Append(stack[p], t) /\ stack[p] \in Seq(Shows)
        BY <2>1, <2>2, <2>6, <3>1
      <4> QED
        BY <4>1
    <3>3. /\ At(c, "bind") /\ calls[c].op = "publish"
          /\ calls'[c].pc = "replied" /\ calls'[c].ok
      BY <1>3, <2>6 DEF Binds
    <3>4. CASE calls[c].late
      <4>1. c \in Owed(p)
        BY <2>6, <3>3, <3>4 DEF Owed
      <4> QED
        BY <1>1, <2>1, <2>2, <2>3, <2>4, <3>2, <4>1, Pays
    <3>5. CASE ~calls[c].late
      <4>1. PublishOf(c, p) /\ PublishOf(c, p)' /\ Answered(c)'
        BY <1>2, <1>4, <2>6, <3>3, <3>5 DEF PublishOf, Live, Answered, At
      <4>2. MayMount(p)
        BY <3>3, <4>1 DEF MayMount
      <4>3. ~MayMount(p)'
        <5>1. \A d \in Calls : PublishOf(d, p)' => d = c
          BY <1>1, <1>4, <4>1 DEF PublishInv
        <5> QED
          BY <3>3, <4>1, <5>1 DEF MayMount, At
      <4> QED
        BY <1>1, <2>1, <2>2, <2>3, <3>2, <4>2, <4>3, NoMore
    <3> QED
      BY <3>4, <3>5
  <2> QED
    BY <2>5, <2>6
<1> QED
  BY <1>5, <1>6 DEF BoundInv


(* Steps that mount nothing, and in which calls end, are given up or start.  *)
LEMMA CalmCounts ==
  ASSUME MountInv, lost' \in Nat, lost' >= lost,
         \A x \in Paths : stack'[x] = stack[x],
         \A p \in Pods :
           /\ \A c \in Calls : PublishOf(c, p)' =>
                PublishOf(c, p) /\ put'[p] \in {put[p], "unsure"}
           /\ Owed(p)' \subseteq Owed(p)
           /\ (MayMount(p)' => MayMount(p)) \/ lost' = lost + 1
  PROVE  PublishInv' /\ BoundInv'
<1>1. TypeOK /\ PublishInv /\ BoundInv
  BY DEF MountInv, Inv
<1>2. PublishInv'
  BY <1>1 DEF PublishInv
<1>3. ASSUME NEW p \in Pods
      PROVE  BoundAt(p)'
  <2>1. BoundAt(p) /\ stack'[p] = stack[p] /\ stack[p] \in Seq(Shows)
    BY <1>1, PathFacts DEF BoundInv, TypeOK
  <2>2. stack'[p] \in Seq(Shows) /\ Len(stack'[p]) <= Len(stack[p])
    BY <2>1
  <2>3. (MayMount(p)' => MayMount(p)) \/ lost' = lost + 1
    OBVIOUS
  <2> QED
    BY <1>1, <2>1, <2>2, <2>3, NoMore
<1> QED
  BY <1>2, <1>3 DEF BoundInv

(* A path with nothing on it and no call on it.                              *)
Unused(p) == stack[p] = <<>> /\ \A c \in Calls : Here(c) # p
BoundOf(p, S, n) == IsFiniteSet(S) /\ Len(stack[p]) + Cardinality(S) + n <= lost + 1

LEMMA Fresh ==
  ASSUME lost \in Nat, NEW p \in Pods, Unused(p)
  PROVE  /\ \A n \in {0, 1} : BoundOf(p, {}, n)
         /\ BoundAt(p)
<1>1. IsFiniteSet({}) /\ Cardinality({}) = 0 /\ Len(stack[p]) = 0
  BY FS_EmptySet DEF Unused
<1>2. \A n \in {0, 1} : BoundOf(p, {}, n)
  BY <1>1 DEF BoundOf
<1>3. Credit(p) \in {0, 1}
  BY DEF Credit
<1>4. Owed(p) = {}
  BY DEF Owed, Unused
<1> QED
  BY <1>2, <1>3, <1>4 DEF BoundAt, BoundOf

LEMMA AnswerCounts ==
  ASSUME MountInv, NEW c \in Calls, Kubelet(Receive(c))
  PROVE  PublishInv' /\ BoundInv'
<1>1. /\ Inv /\ TypeOK /\ ShapeOf(calls[c]) /\ PublishInv /\ PodInv /\ GoneInv
      /\ calls \in [Calls -> Call] /\ put \in [Paths -> {"no", "unsure", "yes"}]
      /\ lost \in Nat
  BY NodeAssumption DEF MountInv, Inv, ShapeInv, TypeOK
<1>2. /\ calls' = [calls EXCEPT ![c] = Idle] /\ calls[c].pc = "replied"
      /\ put' = IF calls[c].late THEN put ELSE [put EXCEPT ![Here(c)] = Learns(calls[c])]
      /\ UNCHANGED <<stack, wants, lost>>
  BY DEF Kubelet, Receive, Now, nodeVars, At
<1>3. calls'[c] = Idle /\ \A d \in Calls \ {c} : calls'[d] = calls[d]
  BY <1>1, <1>2
<1>4. calls[c] # Idle
  BY <1>2, IdleFacts
<1>5. ASSUME NEW p \in Pods
      PROVE  /\ \A d \in Calls : PublishOf(d, p)' =>
                  PublishOf(d, p) /\ put'[p] \in {put[p], "unsure"}
             /\ Owed(p)' \subseteq Owed(p)
             /\ MayMount(p)' => MayMount(p)
  <2>1. p \in Paths /\ p \notin Vols
    BY PathFacts
  <2>2. \A d \in Calls : /\ ~PublishOf(c, p)'
                         /\ d # c => (PublishOf(d, p)' <=> PublishOf(d, p))
                         /\ d # c => At(d, "bind")' = At(d, "bind") /\ Answered(d)' = Answered(d)
    BY <1>3 DEF PublishOf, Live, Here, At, Answered
  <2>3. Owed(p)' \subseteq Owed(p)
    <3>1. ~calls'[c].late
      BY <1>3 DEF Idle
    <3> QED
      BY <1>3, <3>1 DEF Owed, At, Here
  <2>4. CASE put'[p] = put[p] /\ ~PublishOf(c, p)
    BY <1>2, <2>2, <2>3, <2>4 DEF MayMount
  <2>5. CASE put'[p] # put[p] \/ PublishOf(c, p)
    <3>1. Here(c) = p /\ Live(c) /\ put'[p] = Learns(calls[c])
      <4>1. CASE PublishOf(c, p)
        BY <1>1, <1>2, <2>1, <4>1 DEF PublishOf, Live
      <4>2. CASE put'[p] # put[p]
        BY <1>1, <1>2, <1>4, <2>1, <4>2 DEF Live
      <4> QED
        BY <2>5, <4>1, <4>2
    <3>2. calls[c].op \in {"publish", "unpublish"}
      BY <1>1, <1>2, <2>1, <3>1 DEF ShapeOf, Call, OnVolume, OnPod, Here
    <3>3. CASE calls[c].op = "unpublish"
      <4>1. \A d \in Calls : ~PublishOf(d, p)
        BY <1>1, <3>1, <3>3 DEF GoneInv, PublishOf, Live
      <4>2. ~wants[p]
        BY <1>1, <3>1, <3>3 DEF PodInv
      <4> QED
        BY <1>2, <2>2, <2>3, <4>1, <4>2 DEF MayMount
    <3>4. CASE calls[c].op = "publish"
      <4>1. PublishOf(c, p) /\ put[p] = "unsure"
        BY <1>1, <3>1, <3>4 DEF PublishOf, PublishInv
      <4>2. \A d \in Calls : PublishOf(d, p) => d = c
        BY <1>1, <4>1 DEF PublishInv
      <4>3. calls[c].ok => put'[p] = "yes"
        BY <3>1, <3>4 DEF Learns
      <4>4. ~calls[c].ok => ~\E d \in Calls : PublishOf(d, p) /\ Answered(d)
        BY <4>2 DEF Answered
      <4> QED
        BY <1>2, <2>2, <2>3, <4>1, <4>2, <4>3, <4>4 DEF MayMount
    <3> QED
      BY <3>2, <3>3, <3>4
  <2> QED
    BY <2>4, <2>5
<1> QED
  BY <1>1, <1>2, <1>5, CalmCounts

(* What the kubelet starts beside a publish is no publish of the same pod.   *)
LEMMA IssueCounts ==
  ASSUME MountInv, NEW c \in Calls, NEW x \in Paths,
         NEW op \in OnVolume \cup OnPod, NEW pc \in {"mkfs", "bind", "check"},
         Issue(c, op, pc, x), UNCHANGED <<faults, lost>>,
         op # "publish" => pc # "bind",
         op \in OnVolume => x \in Vols, op \in OnPod => x \in Pods,
         op = "publish" => wants[x] /\ put[x] # "yes",
         op = "unpublish" => ~wants[x]
  PROVE  PublishInv' /\ BoundInv'
<1>1. /\ TypeOK /\ ShapeInv /\ PublishInv /\ BoundInv /\ lost \in Nat
      /\ calls \in [Calls -> Call] /\ put \in [Paths -> {"no", "unsure", "yes"}]
      /\ told \in [Vols -> BOOLEAN]
  BY NodeAssumption DEF MountInv, Inv, TypeOK
<1>2. /\ calls' = [calls EXCEPT ![c] = [Idle EXCEPT !.op = op, !.pc = pc, !.path = x,
                                                    !.device = told[VolumeOf(x)]]]
      /\ put' = [put EXCEPT ![x] = "unsure"]
      /\ UNCHANGED <<stack, wants, lost>>
      /\ calls[c] = Idle
      /\ \A d \in Calls : ~Excludes(calls[d], op, x)
  BY DEF Issue, Now, nodeVars
<1>3. /\ \A d \in Calls \ {c} : calls'[d] = calls[d]
      /\ calls'[c].op = op /\ calls'[c].pc = pc /\ calls'[c].path = x /\ ~calls'[c].late
  BY <1>1, <1>2 DEF Idle
<1>4. ASSUME NEW p \in Pods
      PROVE  /\ p \in Paths /\ ~PublishOf(c, p)
             /\ Owed(p)' \subseteq Owed(p)
             /\ \A d \in Calls \ {c} : PublishOf(d, p)' <=> PublishOf(d, p)
             /\ p # x => put'[p] = put[p]
             /\ p = x => put'[p] = "unsure"
  <2>1. p \in Paths
    BY PathFacts
  <2>2. \A d \in Calls \ {c} : PublishOf(d, p)' <=> PublishOf(d, p)
    BY <1>3 DEF PublishOf, Live, Here
  <2>3. Owed(p)' \subseteq Owed(p)
    BY <1>3 DEF Owed, At, Here
  <2> QED
    BY <1>1, <1>2, <2>1, <2>2, <2>3 DEF PublishOf, Live
<1>5. \A d \in Calls \ {c} : At(d, "bind")' = At(d, "bind") /\ Answered(d)' = Answered(d)
  BY <1>3 DEF At, Answered
<1>6. ASSUME NEW p \in Pods, op # "publish" \/ p # x
      PROVE  ~PublishOf(c, p)' /\ (MayMount(p)' => MayMount(p))
  <2>1. ~PublishOf(c, p)'
    BY <1>3, <1>6 DEF PublishOf, Here
  <2>2. CASE p # x
    BY <1>2, <1>4, <1>5, <2>1, <2>2 DEF MayMount
  <2>3. CASE p = x
    <3>1. ~wants[p]
      BY <1>6, <2>3, PathFacts DEF OnVolume, OnPod
    <3> QED
      BY <1>2, <1>4, <1>5, <2>1, <3>1 DEF MayMount
  <2> QED
    BY <2>1, <2>2, <2>3
<1>7. CASE op # "publish"
  <2>1. ASSUME NEW p \in Pods
        PROVE  /\ \A d \in Calls : PublishOf(d, p)' =>
                  PublishOf(d, p) /\ put'[p] \in {put[p], "unsure"}
               /\ Owed(p)' \subseteq Owed(p)
               /\ MayMount(p)' => MayMount(p)
    BY <1>4, <1>6, <1>7
  <2> QED
    BY <1>1, <1>2, <2>1, CalmCounts
<1>8. CASE op = "publish"
  <2>1. x \in Pods /\ wants[x] /\ put[x] # "yes"
    BY <1>8 DEF OnPod
  <2>2. \A d \in Calls : ~PublishOf(d, x)
    BY <1>2, <1>8, <2>1, PathFacts DEF PublishOf, Live, Here, Excludes
  <2>3. PublishInv'
    <3> SUFFICES ASSUME NEW p \in Pods, NEW d \in Calls, PublishOf(d, p)'
                 PROVE  put'[p] = "unsure" /\ \A e \in Calls : PublishOf(e, p)' => d = e
      BY DEF PublishInv
    <3>1. CASE p = x
      BY <1>4, <2>2, <3>1
    <3>2. CASE p # x
      BY <1>1, <1>4, <1>6, <3>2 DEF PublishInv
    <3> QED
      BY <3>1, <3>2
  <2>4. ASSUME NEW p \in Pods
        PROVE  BoundAt(p)'
    <3>1. BoundAt(p) /\ stack[p] \in Seq(Shows)
      BY <1>1, PathFacts DEF BoundInv, TypeOK
    <3>2. MayMount(p)' => MayMount(p)
      <4>1. CASE p = x
        BY <2>1, <2>2, <4>1 DEF MayMount
      <4>2. CASE p # x
        BY <1>6, <4>2
      <4> QED
        BY <4>1, <4>2
    <3>3. stack'[p] \in Seq(Shows) /\ Len(stack'[p]) <= Len(stack[p]) /\ lost' >= lost
      BY <1>1, <1>2, <3>1
    <3> QED
      BY <1>1, <1>2, <1>4, <3>1, <3>2, <3>3, NoMore
  <2> QED
    BY <2>3, <2>4 DEF BoundInv
<1> QED
  BY <1>7, <1>8

(* The pods, the volumes that come and go, and lost answers.                 *)
LEMMA PodCounts ==
  ASSUME MountInv,
         \/ \E p \in Pods : Kubelet(PodComes(p)) \/ Kubelet(PodGoes(p)) \/ Kubelet(PodWrites(p))
         \/ \E v \in Vols : Kubelet(Attached(v)) \/ Kubelet(Detached(v))
         \/ UNCHANGED vars
  PROVE  PublishInv' /\ BoundInv'
<1>1. /\ TypeOK /\ PublishInv /\ BoundInv /\ lost \in Nat /\ wants \in [Pods -> BOOLEAN]
  BY NodeAssumption DEF MountInv, Inv, TypeOK
<1>2. UNCHANGED <<calls, stack, put, lost>>
  BY DEF Kubelet, PodComes, PodGoes, PodWrites, Attached, Detached, vars, nodeVars, kubeVars
<1>3. ASSUME NEW p \in Pods
      PROVE  /\ \A d \in Calls : PublishOf(d, p)' <=> PublishOf(d, p)
             /\ Owed(p)' = Owed(p)
             /\ (wants'[p] => wants[p]) => (MayMount(p)' => MayMount(p))
  BY <1>2 DEF PublishOf, Live, Here, Owed, At, MayMount, Answered
<1>4. PublishInv'
  BY <1>1, <1>2, <1>3 DEF PublishInv
<1>5. ASSUME NEW p \in Pods
      PROVE  BoundAt(p)'
  <2>1. BoundAt(p) /\ stack[p] \in Seq(Shows)
    BY <1>1, PathFacts DEF BoundInv, TypeOK
  <2>2. CASE wants'[p] => wants[p]
    BY <1>1, <1>2, <1>3, <2>1, <2>2, NoMore
  <2>3. CASE wants'[p] /\ ~wants[p]
    <3>1. PodComes(p)
      BY <1>1, <2>3
      DEF Kubelet, PodComes, PodGoes, PodWrites, Attached, Detached, vars, kubeVars
    <3>2. Unused(p)
      BY <3>1 DEF PodComes, IsMounted, Unused
    <3>3. Credit(p)' \in {0, 1}
      BY DEF Credit
    <3>4. BoundOf(p, {}, Credit(p)')
      BY <1>1, <3>2, <3>3, Fresh
    <3>5. Owed(p)' = {}
      BY <1>2, <3>2 DEF Owed, Unused, At, Here
    <3> QED
      BY <1>2, <3>4, <3>5 DEF BoundAt, BoundOf
  <2> QED
    BY <2>2, <2>3
<1> QED
  BY <1>4, <1>5 DEF BoundInv

LEMMA LossCounts ==
  ASSUME MountInv, Loss(DriverRestarts) \/ \E c \in Calls : Loss(GivenUp(c))
  PROVE  PublishInv' /\ BoundInv'
<1>1. /\ TypeOK /\ PublishInv /\ BoundInv /\ lost \in Nat
      /\ calls \in [Calls -> Call] /\ lost' = lost + 1
  BY NodeAssumption DEF MountInv, Inv, TypeOK, Loss
<1>2. UNCHANGED <<stack, put, wants>>
  BY DEF Loss, DriverRestarts, GivenUp, nodeVars, kubeVars
<1>3. CASE Loss(DriverRestarts)
  <2>1. \A c \in Calls : calls'[c] = Idle
    BY <1>3 DEF Loss, DriverRestarts
  <2>2. \A p \in Pods : Owed(p)' = {} /\ \A c \in Calls : ~PublishOf(c, p)'
    BY <2>1 DEF Owed, PublishOf, Live, Idle
  <2> QED
    BY <1>1, <1>2, <2>2, CalmCounts
<1>4. ASSUME NEW c \in Calls, Loss(GivenUp(c))
      PROVE  PublishInv' /\ BoundInv'
  <2>1. /\ calls' = [calls EXCEPT ![c] = [calls[c] EXCEPT !.late = TRUE]]
        /\ ~calls[c].late /\ ~At(c, "replied") /\ calls[c] \in Call
        /\ calls[c].op # "none"
    BY <1>1, <1>4, NodeAssumption DEF Loss, GivenUp, Now
  <2>2. /\ \A d \in Calls \ {c} : calls'[d] = calls[d]
        /\ calls'[c].late /\ calls'[c].op = calls[c].op
        /\ calls'[c].pc = calls[c].pc /\ calls'[c].path = calls[c].path
    BY <1>1, <2>1 DEF Call
  <2>3. \A p \in Pods : /\ ~PublishOf(c, p)'
                        /\ \A d \in Calls \ {c} : PublishOf(d, p)' <=> PublishOf(d, p)
    BY <2>2 DEF PublishOf, Live, Here
  <2>4. PublishInv'
    BY <1>1, <1>2, <2>3 DEF PublishInv
  <2>5. ASSUME NEW p \in Pods
        PROVE  BoundAt(p)'
    <3>1. BoundAt(p) /\ stack[p] \in Seq(Shows) /\ stack'[p] = stack[p]
      BY <1>1, <1>2, PathFacts DEF BoundInv, TypeOK
    <3>2. MayMount(p)' => MayMount(p)
      BY <1>2, <2>1, <2>2, <2>3 DEF MayMount, Answered, At
    <3>3. CASE At(c, "bind") /\ Here(c) = p
      <4>1. Owed(p)' = Owed(p) \cup {c}
        BY <2>2, <3>3 DEF Owed, At, Here
      <4> QED
        BY <1>1, <1>2, <3>1, <3>2, <4>1, OwesMore
    <3>4. CASE ~(At(c, "bind") /\ Here(c) = p)
      <4>1. Owed(p)' \subseteq Owed(p)
        BY <2>2, <3>4 DEF Owed, At, Here
      <4> QED
        BY <1>1, <3>1, <3>2, <4>1, NoMore
    <3> QED
      BY <3>3, <3>4
  <2> QED
    BY <2>4, <2>5 DEF BoundInv
<1> QED
  BY <1>3, <1>4

LEMMA NothingCounts == TypeOK /\ Nothing => PublishInv /\ BoundInv
<1> SUFFICES ASSUME TypeOK, Nothing PROVE PublishInv /\ BoundInv
  OBVIOUS
<1>1. /\ \A c \in Calls : calls[c] = Idle
      /\ \A p \in Pods : stack[p] = <<>> /\ p # NoPath
      /\ lost \in Nat
  BY PathFacts, NodeAssumption DEF Nothing, TypeOK
<1>2. \A c \in Calls, p \in Pods : ~PublishOf(c, p) /\ Here(c) # p
  BY <1>1, IdleFacts DEF PublishOf, Live, Here
<1> QED
  BY <1>1, <1>2, Fresh DEF PublishInv, BoundInv, Unused

LEMMA StepCounts ==
  ASSUME MountInv, [Next]_vars
  PROVE  MountInv'
<1>1. Inv /\ Inv'
  BY StepKeeps DEF MountInv
<1>2. ASSUME NEW c \in Calls, Serves(c) \/ Fault(CommandFails(c) /\ UNCHANGED kubeVars)
      PROVE  PublishInv' /\ BoundInv'
  BY <1>2, HandlerCounts DEF Serves, Fault, kubeVars
<1>3. ASSUME NEW c \in Calls, NEW v \in Vols,
             Kubelet(IssueStage(c, v)) \/ Kubelet(IssueUnstage(c, v))
      PROVE  PublishInv' /\ BoundInv'
  BY <1>3, IssueCounts, PathFacts DEF Kubelet, IssueStage, IssueUnstage, OnVolume, OnPod
<1>4. ASSUME NEW c \in Calls, NEW p \in Pods,
             Kubelet(IssuePublish(c, p)) \/ Kubelet(IssueUnpublish(c, p))
      PROVE  PublishInv' /\ BoundInv'
  BY <1>4, IssueCounts, PathFacts DEF Kubelet, IssuePublish, IssueUnpublish, OnVolume, OnPod
<1>5. CASE Fault(Reboot)
  <2>1. TypeOK' /\ Nothing'
    BY <1>1, <1>5 DEF Inv, Fault, Reboot, Nothing
  <2>2. PublishInv' /\ BoundInv'
    BY <2>1, NothingCounts, PTL
  <2> QED
    BY <1>1, <2>2 DEF MountInv
<1> QED
  BY <1>1, <1>2, <1>3, <1>4, <1>5, AnswerCounts, PodCounts, LossCounts DEF Next, MountInv

(* Mounts pile up on a path no higher than answers were lost.                *)
THEOREM MountsAreBounded == Spec => []MountsBounded
<1>1. Init => MountInv
  BY InitHolds, NothingCounts DEF Init, Nothing, MountInv, Inv
<1>2. MountInv /\ [Next]_vars => MountInv'
  BY StepCounts
<1>3. ASSUME MountInv PROVE MountsBounded
  <2> SUFFICES ASSUME NEW x \in Paths PROVE Len(stack[x]) <= lost + 1
    BY DEF MountsBounded
  <2>1. TypeOK /\ lost \in Nat
    BY <1>3, NodeAssumption DEF MountInv, Inv, TypeOK
  <2>2. CASE x \in Vols
    <3>1. stack[x] \in {<<>>, <<"volume">>}
      BY <2>1, <2>2 DEF TypeOK
    <3>2. Len(stack[x]) \in Nat /\ Len(stack[x]) <= 1
      BY <3>1
    <3> QED
      BY <2>1, <3>2
  <2>3. CASE x \in Pods
    <3>1. /\ IsFiniteSet(Owed(x)) /\ stack[x] \in Seq(Shows)
          /\ Len(stack[x]) + Cardinality(Owed(x)) + Credit(x) <= lost + 1
      BY <1>3, <2>1, <2>3 DEF MountInv, BoundInv, BoundAt, TypeOK
    <3>2. Len(stack[x]) \in Nat /\ Cardinality(Owed(x)) \in Nat /\ Credit(x) \in Nat
      BY <3>1, FS_CardinalityType DEF Credit
    <3> QED
      BY <2>1, <3>1, <3>2
  <2> QED
    BY <2>2, <2>3 DEF Paths
<1> QED
  BY <1>1, <1>2, <1>3, PTL DEF Spec
=============================================================================
