SPECIFICATION FairSpec
CONSTANTS
  Task = {t1}
  User = {u1, u2, u3}
  Call = {c1, c2}
  Nobody = Nobody
INVARIANTS
  TypeOK
  ClaimConsistent
  PendingCancelAuthorised
  CachedClaimantGenuine
PROPERTIES
  ContractSpec
  DueTaskLeavesOpen
