SPECIFICATION FairSpec
CONSTANTS
  User = {u}
  Boss = Boss
  School = {s}
  Call = {c1, c2}
  NoSchool = NoSchool
  NoRow = NoRow
INVARIANTS
  LoginsRespectBans
  
PROPERTIES
  AccountSettles
