SPECIFICATION CountersSpec
CONSTANTS
  User = {u1, u2}
  Comment = {k1, k2, k3}
  Call = {c1, c2}
  TopLevel = TopLevel
  MaxLikes = 2
INVARIANTS
  LikesNotUndercounted
  CommentsNotOvercounted
