---------------------------- MODULE PostCounters ----------------------------
(***************************************************************************)
(* The two counters in the row of a post, likes_count and comment_count,   *)
(* and the tables they count: post_likes and post_comments                 *)
(* (cmd/content/service/post_service.go, cmd/content/repo/post_repo.go).   *)
(*                                                                         *)
(* A handler is split where it issues a new statement or commits a         *)
(* transaction.  Whether the caller owns a comment never changes, and one  *)
(* who does not is turned away before anything is written, so the authors  *)
(* of comments are not part of the model.                                  *)
(***************************************************************************)
EXTENDS Naturals, FiniteSets

CONSTANTS
  User,      \* students who like the post
  Comment,   \* comment ids
  Call,      \* concurrent RPCs the server may be running
  TopLevel,  \* parent_id = 0
  MaxLikes   \* bound: nobody likes the post while likes_count has reached it

ASSUME CountersAssumption ==
  /\ TopLevel \notin Comment
  /\ MaxLikes \in Nat
  /\ IsFiniteSet(User) /\ IsFiniteSet(Comment) /\ IsFiniteSet(Call)

VARIABLES
  liked,         \* students with a row in post_likes
  likesCount,    \* posts.likes_count
  parent,        \* post_comments.parent_id
  created,       \* comments ever inserted
  live,          \* comments with status 1 and no deleted_at
  commentCount,  \* posts.comment_count
  missed,        \* counters for which a statement of a handler never ran
  call           \* what each in-flight RPC is about to do

likes       == <<liked, likesCount>>
comments    == <<parent, created, live, commentCount>>
counterVars == <<likes, comments, missed, call>>

Idle == [op |-> "idle"]

InFlight ==
  [op : {"insert_like"}, user : User]
    \cup [op : {"increment", "decrement"}]
    \cup [op : {"insert_reply"}, comment : Comment, parent : Comment]
    \cup [op : {"delete", "cascade"}, comment : Comment]
    \cup [op : {"discount"}, replies : 1..Cardinality(Comment)]

CountersTypeOK ==
  /\ liked        \subseteq User
  /\ likesCount   \in 0..(MaxLikes + Cardinality(Call))
  /\ parent       \in [Comment -> Comment \cup {TopLevel}]
  /\ created      \subseteq Comment
  /\ live         \subseteq created
  /\ commentCount \in 0..Cardinality(Comment)
  /\ missed       \subseteq {"likes", "comments"}
  /\ call         \in [Call -> InFlight \cup {Idle}]

CountersInit ==
  /\ liked = {}
  /\ likesCount = 0
  /\ parent = [k \in Comment |-> TopLevel]
  /\ created = {}
  /\ live = {}
  /\ commentCount = 0
  /\ missed = {}
  /\ call = [c \in Call |-> Idle]

Begin(c, r) == call[c] = Idle /\ call' = [call EXCEPT ![c] = r]

Goto(c, r) == call' = [call EXCEPT ![c] = r]

Finish(c) == Goto(c, Idle)

HasLiked(u) == u \in liked

\* A comment that is not deleted.
GetCommentByID(k) == k \in live

-----------------------------------------------------------------------------
(* Likes                                                                   *)

\* AddLike, FirstOrCreate: SELECT finds no row of the student.
LikeRead(c, u) ==
  /\ ~HasLiked(u)
  /\ likesCount < MaxLikes
  /\ Begin(c, [op |-> "insert_like", user |-> u])
  /\ UNCHANGED <<likes, comments, missed>>

\* FirstOrCreate, INSERT: AddLike leaves the id 0, and the id is the primary
\* key without AUTO_INCREMENT, so a second row is a duplicate key, whoever owns
\* the first.
LikeInsert(c) ==
  /\ call[c].op = "insert_like"
  /\ IF liked = {}
     THEN liked' = {call[c].user} /\ Goto(c, [op |-> "increment"])
     ELSE Finish(c) /\ UNCHANGED liked
  /\ UNCHANGED <<likesCount, comments, missed>>

IncLikesCount(c) ==
  /\ call[c].op = "increment"
  /\ likesCount' = likesCount + 1
  /\ Finish(c)
  /\ UNCHANGED <<liked, comments, missed>>

\* Mutant: UnlikePost decrements whether or not it removed a row.
RemoveLikeAlways(u) == liked' = liked \ {u}

\* The DELETE affects a row.
RemoveLike(u) == u \in liked /\ liked' = liked \ {u}

UnlikePost(c, u) ==
  /\ RemoveLike(u)
  /\ Begin(c, [op |-> "decrement"])
  /\ UNCHANGED <<likesCount, comments, missed>>

\* WHERE likes_count > 0.
DecLikesCount(c) ==
  /\ call[c].op = "decrement"
  /\ likesCount' = IF likesCount > 0 THEN likesCount - 1 ELSE 0
  /\ Finish(c)
  /\ UNCHANGED <<liked, comments, missed>>

-----------------------------------------------------------------------------
(* Comments                                                                *)

\* The snowflake gives every comment an id of its own.
FreshComment(k) ==
  /\ k \notin created
  /\ \A c \in Call : call[c].op = "insert_reply" => call[c].comment # k

\* repo.CreateComment, one transaction: INSERT and comment_count + 1.
InsertComment(k, par) ==
  /\ created' = created \cup {k}
  /\ live' = live \cup {k}
  /\ parent' = [parent EXCEPT ![k] = par]
  /\ commentCount' = commentCount + 1

CreateComment(k) ==
  /\ FreshComment(k)
  /\ InsertComment(k, TopLevel)
  /\ UNCHANGED <<likes, missed, call>>

\* A reply first reads its parent, outside of the transaction that inserts it.
ReplyRead(c, k, par) ==
  /\ FreshComment(k)
  /\ GetCommentByID(par)
  /\ parent[par] = TopLevel
  /\ Begin(c, [op |-> "insert_reply", comment |-> k, parent |-> par])
  /\ UNCHANGED <<likes, comments, missed>>

ReplyInsert(c) ==
  /\ call[c].op = "insert_reply"
  /\ InsertComment(call[c].comment, call[c].parent)
  /\ Finish(c)
  /\ UNCHANGED <<likes, missed>>

\* DeleteOwnedComment: the SELECT takes no lock, and what the transaction then
\* writes does not depend on how many rows it changed.  A second one waits for
\* the first at its UPDATE and goes on all the same.
DeleteRead(c, k) ==
  /\ GetCommentByID(k)
  /\ Begin(c, [op |-> "delete", comment |-> k])
  /\ UNCHANGED <<likes, comments, missed>>

DeleteOwnedComment(c) ==
  LET k == call[c].comment IN
  /\ call[c].op = "delete"
  /\ live' = live \ {k}
  /\ commentCount' = IF commentCount > 0 THEN commentCount - 1 ELSE 0
  /\ IF parent[k] = TopLevel THEN Goto(c, [op |-> "cascade", comment |-> k]) ELSE Finish(c)
  /\ UNCHANGED <<likes, parent, created, missed>>

LiveReplies(k) == {r \in live : parent[r] = k}

CascadeSoftDeleteReplies(c) ==
  LET replies == LiveReplies(call[c].comment) IN
  /\ call[c].op = "cascade"
  /\ live' = live \ replies
  /\ IF replies = {} THEN Finish(c)
     ELSE Goto(c, [op |-> "discount", replies |-> Cardinality(replies)])
  /\ UNCHANGED <<likes, parent, created, commentCount, missed>>

\* Mutant: the discount forgets the replies.
DecCommentCountByOne(c) ==
  /\ call[c].op = "discount"
  /\ commentCount' = IF commentCount > 0 THEN commentCount - 1 ELSE 0
  /\ Finish(c)
  /\ UNCHANGED <<likes, parent, created, live, missed>>

\* GREATEST(comment_count - (1 + replies), 0).
DecCommentCountBy(c) ==
  /\ call[c].op = "discount"
  /\ LET delta == 1 + call[c].replies IN
     commentCount' = IF commentCount > delta THEN commentCount - delta ELSE 0
  /\ Finish(c)
  /\ UNCHANGED <<likes, parent, created, live, missed>>

-----------------------------------------------------------------------------
(* Failures                                                                *)

\* The counter a call in this state still owes a statement.
Counter(r) ==
  CASE r.op \in {"increment", "decrement"} -> {"likes"}
    [] r.op = "discount" -> {"comments"}
    [] OTHER -> {}

\* The statement fails; the handler logs the error and answers success.
CountFails(c) ==
  /\ Counter(call[c]) # {}
  /\ missed' = missed \cup Counter(call[c])
  /\ Finish(c)
  /\ UNCHANGED <<likes, comments>>

Restart ==
  /\ call' = [c \in Call |-> Idle]
  /\ missed' = missed \cup UNION {Counter(call[c]) : c \in Call}
  /\ UNCHANGED <<likes, comments>>

CountersNext ==
  \/ \E c \in Call, u \in User : LikeRead(c, u) \/ UnlikePost(c, u)
  \/ \E k \in Comment : CreateComment(k)
  \/ \E c \in Call, k, par \in Comment : ReplyRead(c, k, par)
  \/ \E c \in Call, k \in Comment : DeleteRead(c, k)
  \/ \E c \in Call :
       \/ LikeInsert(c)
       \/ IncLikesCount(c)
       \/ DecLikesCount(c)
       \/ ReplyInsert(c)
       \/ DeleteOwnedComment(c)
       \/ CascadeSoftDeleteReplies(c)
       \/ DecCommentCountBy(c)
       \/ CountFails(c)
  \/ Restart

CountersSpec == CountersInit /\ [][CountersNext]_counterVars

-----------------------------------------------------------------------------
(* Properties *)

About(op) == {c \in Call : call[c].op = op}

\* likes_count never falls short of the rows it counts once the handlers at
\* work are done: a like and an unlike that overtake each other may leave it too
\* high, since it stops at zero, and never too low.
LikesNotUndercounted ==
  "likes" \notin missed =>
    likesCount + Cardinality(About("increment"))
      >= Cardinality(liked) + Cardinality(About("decrement"))

\* The replies cascades have deleted and not discounted yet, numbered for each call.
Undiscounted ==
  {r \in Call \X (1..Cardinality(Comment)) :
     call[r[1]].op = "discount" /\ r[2] <= call[r[1]].replies}

\* comment_count never exceeds the comments it counts by more than the replies
\* a cascade has deleted and not discounted yet.
CommentsNotOvercounted ==
  "comments" \notin missed =>
    commentCount <= Cardinality(live) + Cardinality(Undiscounted)

\* A student whose like is inserted likes the post afterwards (content test cases,
\* TC-F-014).  Not so: every like has the primary key 0, and the second one fails.
LikeTakesEffect ==
  [][\A c \in Call : LikeInsert(c) => call[c].user \in liked']_counterVars

\* Deleting a comment with its replies takes as many off comment_count as there
\* were: the counter is right whenever no handler is at work.  Not so: the comment
\* itself is taken off twice (DeleteComment, post_service.go:479).
CommentCountExact ==
  (\A c \in Call : call[c] = Idle) /\ "comments" \notin missed
    => commentCount = Cardinality(live)
=============================================================================
