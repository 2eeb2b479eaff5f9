---------------------------- MODULE VolumeClaims ----------------------------
(* What the controller service promises the claims it serves: a claim is     *)
(* given a volume of its own, keeps it until it is released, and only then   *)
(* may the volume be destroyed. There are no calls here, no requests and no  *)
(* failures: VolumeLifecycle implements this module.                         *)
CONSTANTS Names, VolIds, NoVol

VARIABLES
  phase,      \* of a claim
  volume,     \* of a claim
  destroyed   \* the volumes that are deleted, or being deleted

claimVars == <<phase, volume, destroyed>>

Init ==
  /\ phase = [n \in Names |-> "pending"]
  /\ volume = [n \in Names |-> NoVol]
  /\ destroyed = {}

Taken == {volume[n] : n \in Names}

Bind(n, v) ==
  /\ phase[n] = "pending"
  /\ v \notin Taken \cup destroyed
  /\ phase' = [phase EXCEPT ![n] = "bound"]
  /\ volume' = [volume EXCEPT ![n] = v]
  /\ UNCHANGED destroyed

Release(n) ==
  /\ phase[n] = "bound"
  /\ phase' = [phase EXCEPT ![n] = "released"]
  /\ UNCHANGED <<volume, destroyed>>

Destroy(n) ==
  /\ phase[n] \in {"released", "gone"}
  /\ destroyed' = destroyed \cup {volume[n]}
  /\ UNCHANGED <<phase, volume>>

Forget(n) ==
  /\ phase[n] = "released"
  /\ phase' = [phase EXCEPT ![n] = "gone"]
  /\ UNCHANGED <<volume, destroyed>>

Next ==
  \E n \in Names :
    \/ \E v \in VolIds : Bind(n, v)
    \/ Release(n) \/ Destroy(n) \/ Forget(n)

Spec == Init /\ [][Next]_claimVars
=============================================================================
