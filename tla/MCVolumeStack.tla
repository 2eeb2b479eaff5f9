--------------------------- MODULE MCVolumeStack ---------------------------
EXTENDS VolumeStack, TLC

Apart == {<<n, n>> : n \in Names}

(* Which claim has which volume at first makes no difference: one choice is  *)
(* checked, and names are only renamed along with their volumes.             *)
Own == CHOOSE own \in [Names -> VolIds] :
         \A n, k \in Names : own[n] = own[k] => n = k
OwnedInit == StackInit /\ \A n \in Names : claim[n].vol = Own[n]
OwnedSpec == OwnedInit /\ [][StackNext]_allVars

Renamings ==
  {p \in {f @@ g : f \in Permutations(Names), g \in Permutations(VolIds)} :
     \A n \in Names : p[Own[n]] = Own[p[n]]}
Sym == Renamings \cup Permutations(Calls) \cup Permutations(VMs)
         \cup Permutations(Devices) \cup Permutations(Stages)
=============================================================================
