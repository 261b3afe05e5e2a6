SPECIFICATION FairSpec
CONSTANTS
  Ip = {i1}
  Bucket = {b1, b2, b3}
  Burst = 1
  Req = {r1, r2}
  Nobody = Nobody
  NoBucket = NoBucket
  Asked <- AskedOps
  Shown <- ShownTokens
  Says = {"OK", "NotFound", "Unavailable"}
INVARIANTS
  BurstIsKept
  CallersAreEntitled
  AnswersAreTrue
PROPERTIES
  RequestEnds
