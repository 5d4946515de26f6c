SPECIFICATION Spec
CONSTANTS
  topo = topo
  lidar = lidar
  a1 = a1
  a2 = a2
  b1 = b1
  None = None
  Ids <- ThreeIds
  Maps <- TopoAndLidar
  Clips <- OnlyLidar
  Areas <- OnlyLidar
  MapOf <- TwoOfTopo
  MaxKills = 1
INVARIANTS TypeOK MapKept RegisteredOnDisk NoLostFile  StaysWiped
SYMMETRY Symmetry
