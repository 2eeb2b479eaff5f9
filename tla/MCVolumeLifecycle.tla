------------------------- MODULE MCVolumeLifecycle -------------------------
EXTENDS VolumeLifecycle, TLC
CONSTANTS n1, n2

WithinApart == {<<n, n>> : n \in Names}
WithinOverlap == WithinApart \cup {<<n1, n2>>}
Sym == Permutations(Calls) \cup Permutations(VolIds) \cup Permutations(VMs)
         \cup Permutations(Devices)
=============================================================================
