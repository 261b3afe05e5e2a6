SPECIFICATION FairDiscoverySpec
CONSTANTS
  Proc = {p1, p2, p3}
  Lease = {l1, l2, l3, l4}
  NoProc = NoProc
  NoLease = NoLease
PROPERTIES
  StaysListed
  GhostLeaves
