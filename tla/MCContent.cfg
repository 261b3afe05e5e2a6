SPECIFICATION FairCacheSpec
CONSTANTS
  Post = {p1}
  Call = {c1, c2, c3}
INVARIANTS
  CacheBehindRow
  TakedownReachesSearch
PROPERTIES
  ContractSpec
  PublicationReachesSearch
