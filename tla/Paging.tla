------------------------------- MODULE Paging --------------------------------
(***************************************************************************)
(* The listings that are read page by page: the posts of a school and the  *)
(* users of one (by id, newest first; the audit log is read the same way), *)
(* the comments of a post and the replies to one (by id, oldest first),    *)
(* the notifications of a student (by time) and the tasks of a school (by  *)
(* deadline).  The server keeps nothing between two pages: the client      *)
(* hands back a cursor made from the last row of the page before, and      *)
(* meanwhile rows come and go.                                             *)
(*                                                                         *)
(* The cursor of tasks and notifications holds created_at in seconds,      *)
(* while the column, made by AutoMigrate, has milliseconds.                *)
(***************************************************************************)
EXTENDS Naturals, FiniteSets

CONSTANTS
  MaxId,      \* bound: ids are 1..MaxId
  MaxTime,    \* bound: the clock stops there
  PerSecond,  \* ticks of created_at in a second
  Deadline,   \* values of tasks.expired_at; rows that are not tasks have 0
  PageSize    \* rows of a page

ASSUME PagingAssumption ==
  /\ MaxId \in Nat /\ MaxTime \in Nat
  /\ PerSecond \in Nat \ {0}
  /\ PageSize \in Nat \ {0}
  /\ Deadline \subseteq Nat \ {0}

VARIABLES
  listing,  \* which listing the client reads
  now,      \* the clock
  table,    \* rows ever inserted
  listed,   \* rows that pass the filter of the listing
  cursor,   \* what the client hands back for the next page
  owed,     \* rows listed ever since the first page was read
  shown,    \* rows the client has got
  twice     \* rows the client has got more than once

vars == <<listing, now, table, listed, cursor, owed, shown, twice>>

Id   == 1..MaxId
Time == 0..MaxTime
Row  == [id : Id, created : Time, expires : Deadline \cup {0}]

Cursor == [at : {"start", "middle", "end"}, id : Id \cup {0}, created : Time]

Listing == {"posts", "users", "comments", "replies", "notifications", "tasks"}

\* Listings in the order of ids, whose cursor is an id.
NewestFirst == {"posts", "users"}
OldestFirst == {"comments", "replies"}
ById == NewestFirst \cup OldestFirst

TypeOK ==
  /\ listing \in Listing
  /\ now     \in Time
  /\ table   \subseteq Row
  /\ listed  \subseteq table
  /\ cursor  \in Cursor
  /\ owed    \subseteq listed
  /\ shown   \subseteq table
  /\ twice   \subseteq shown

Init ==
  /\ listing \in Listing
  /\ now = 0
  /\ table = {}
  /\ listed = {}
  /\ cursor = [at |-> "start", id |-> 0, created |-> 0]
  /\ owed = {}
  /\ shown = {}
  /\ twice = {}

-----------------------------------------------------------------------------
(* Rows come and go                                                        *)

Tick ==
  /\ now < MaxTime
  /\ now' = now + 1
  /\ UNCHANGED <<listing, table, listed, cursor, owed, shown, twice>>

\* A row comes into the listing: it is inserted, or its status becomes the one the
\* client asks for.  Ids and times are given out before the row is written, so that
\* neither is in the order of the inserts.
Insert(r) ==
  /\ r.created <= now
  /\ r.expires = 0 <=> listing # "tasks"
  /\ \A s \in table : s.id # r.id
  /\ table' = table \cup {r}
  /\ listed' = listed \cup {r}
  /\ UNCHANGED <<listing, now, cursor, owed, shown, twice>>

\* A row is deleted, or its status is no longer the one the client asks for.
Leave(r) ==
  /\ r \in listed
  /\ listed' = listed \ {r}
  /\ owed' = owed \ {r}
  /\ UNCHANGED <<listing, now, table, cursor, shown, twice>>

\* Only the status of a post, or of a user, becomes one again that it was before.
Return(r) ==
  /\ listing \in NewestFirst
  /\ r \in table \ listed
  /\ listed' = listed \cup {r}
  /\ UNCHANGED <<listing, now, table, cursor, owed, shown, twice>>

-----------------------------------------------------------------------------
(* One page                                                                *)

\* time.Unix(cursor.CreatedAt, 0), from CreatedAt.Unix().
Truncated(t) == PerSecond * (t \div PerSecond)

\* ORDER BY.  What is equal in it may come in either order.  A listing of tasks has
\* tasks of one status, so that the status does not tell them apart.
Precedes(a, b) ==
  CASE listing \in NewestFirst   -> a.id > b.id
    [] listing \in OldestFirst   -> a.id < b.id
    [] listing = "notifications" -> \/ a.created > b.created
                                    \/ a.created = b.created /\ a.id > b.id
    [] listing = "tasks"         -> \/ a.expires < b.expires
                                    \/ a.expires = b.expires /\ a.created > b.created

\* Mutant: the row of the cursor is part of the next page, too.
BeyondOrAt(r) ==
  \/ cursor.at = "start"
  \/ CASE listing \in NewestFirst -> r.id <= cursor.id
       [] listing \in OldestFirst -> r.id >= cursor.id
       [] OTHER                  -> \/ r.created < cursor.created
                                    \/ r.created = cursor.created /\ r.id <= cursor.id

\* WHERE, once the client has a cursor.
Beyond(r) ==
  \/ cursor.at = "start"
  \/ CASE listing \in NewestFirst -> r.id < cursor.id
       [] listing \in OldestFirst -> r.id > cursor.id
       [] OTHER                  -> \/ r.created < cursor.created
                                    \/ r.created = cursor.created /\ r.id < cursor.id

Rest == {r \in listed : Beyond(r)}

\* LIMIT pageSize + 1: one row more tells whether there is another page.
HasMore == Cardinality(Rest) > PageSize

\* P is a first page of R.
IsPage(P, R) ==
  /\ IF Cardinality(R) > PageSize THEN Cardinality(P) = PageSize ELSE P = R
  /\ \A a \in P, b \in R \ P : ~Precedes(b, a)

\* Mutant: the cursor is made from the row fetched to see whether there is more.
LastFetched(P) == {r \in Rest \ P : \A s \in Rest \ P : ~Precedes(s, r)}

Last(P) == {r \in P : \A s \in P : ~Precedes(r, s)}

CursorAt(r) ==
  [at |-> "middle", id |-> r.id,
   created |-> IF listing \in ById THEN 0 ELSE Truncated(r.created)]

NextPage ==
  /\ cursor.at # "end"
  /\ \E P \in SUBSET Rest :
       /\ IsPage(P, Rest)
       /\ shown' = shown \cup P
       /\ twice' = twice \cup (P \cap shown)
       /\ IF HasMore
          THEN \E r \in Last(P) : cursor' = CursorAt(r)
          ELSE cursor' = [cursor EXCEPT !.at = "end"]
  /\ owed' = IF cursor.at = "start" THEN listed ELSE owed
  /\ UNCHANGED <<listing, now, table, listed>>

\* The calls that answer a page.
ListPosts          == listing = "posts" /\ NextPage
ListUsers          == listing = "users" /\ NextPage
ListComments       == listing = "comments" /\ NextPage
ListCommentReplies == listing = "replies" /\ NextPage
ListNotifications  == listing = "notifications" /\ NextPage
ListTasks          == listing = "tasks" /\ NextPage

\* The client reads the listing from the start again.
Reopen ==
  /\ cursor.at = "end"
  /\ cursor' = [at |-> "start", id |-> 0, created |-> 0]
  /\ owed' = {}
  /\ shown' = {}
  /\ twice' = {}
  /\ UNCHANGED <<listing, now, table, listed>>

Next ==
  \/ Tick
  \/ \E r \in Row : Insert(r)
  \/ \E r \in table : Leave(r) \/ Return(r)
  \/ ListPosts \/ ListUsers
  \/ ListComments \/ ListCommentReplies
  \/ ListNotifications
  \/ ListTasks
  \/ Reopen

Spec == Init /\ [][Next]_vars

\* The client asks for the next page as long as it is told there is one.
FairSpec == Spec /\ WF_vars(NextPage)

-----------------------------------------------------------------------------
(* Properties *)

\* No row comes on two pages, although the pages are separate queries over a table
\* that changes; tasks are another matter (TaskNotTwice).
NothingTwice == listing # "tasks" => twice = {}

\* Posts, users, comments and replies that were there all the time are all shown,
\* whatever else was inserted, deleted or put back in between.
EverythingShown ==
  listing \in ById /\ cursor.at = "end" => owed \subseteq shown

\* Notifications are skipped: the cursor forgets the milliseconds.  What is skipped
\* is of the same second as a row that was shown.
SkippedWithinSecond ==
  listing = "notifications" /\ cursor.at = "end" =>
    \A r \in owed \ shown :
      \E s \in shown : Precedes(s, r) /\ Truncated(s.created) = Truncated(r.created)

\* Reading page after page comes to an end, even while rows are inserted.  Comments
\* and replies are read towards the newer ones and may never end.
ReadingEnds == listing \notin OldestFirst => []<>(cursor.at = "end")

\* The second page of tasks has no row of the first.  Not so: the order is that of the
\* deadlines, the cursor a time of creation (List, task_repo.go:105).
TaskNotTwice == listing = "tasks" => twice = {}
=============================================================================
