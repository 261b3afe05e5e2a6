SPECIFICATION FairSpec
CONSTANTS
  Content = {cat}
  User = {ann, bob}
  Category = {post, avatar}
  Call = {c1, c2}
  Retention = 1
  MaxMonth = 2
INVARIANTS
  AnsweredUrlServes
PROPERTIES
  LiveRowIsKept
  ContentIsFreed
