SPECIFICATION FairSpec
CONSTANTS
  liked = liked
  ann = ann
  sysu = sysu
  Nobody = Nobody
  Event = {published, replied, liked}
  User = {ann}
  School = {sysu}
  Receiver <- Receivers
  SchoolOf <- Schools
  MaxSequence = 1
  MaxClock = 2
  MaxSetBacks = 1
  Retention = 0
  MaxRows = 2
INVARIANTS
  NothingForgotten
  DuplicatesAreUnanswered
PROPERTIES
  IdsGrow
  ReceiversAreTold
