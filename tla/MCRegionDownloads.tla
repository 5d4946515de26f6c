------------------------- MODULE MCRegionDownloads -------------------------
EXTENDS RegionDownloads, TLC

CONSTANTS topo, lidar, a1, a2, b1

TopoAndLidar == {topo, lidar}
OnlyLidar    == {lidar}
ThreeIds     == {a1, a2, b1}
TwoOfTopo    == [i \in ThreeIds |-> IF i = b1 THEN lidar ELSE topo]
Symmetry     == Permutations({a1, a2})
=============================================================================
