SPECIFICATION FairQueueSpec
CONSTANTS
  Message = {m1, m2, m3}
  Foreign = {m2}
  Poison = {m3}
INVARIANTS
  AcceptedNotLost
PROPERTIES
  EventIsHandled
\* A consumer that has returned, or panicked, with every event published, is done.
CHECK_DEADLOCK FALSE
