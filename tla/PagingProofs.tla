---------------------------- MODULE PagingProofs -----------------------------
(***************************************************************************)
(* Proofs about Paging, for any number of rows, any page size and clock:   *)
(* no row is shown twice, and none that was there all the time is missed,  *)
(* but for notifications of a second that a page ends in.                  *)
(*                                                                         *)
(* The three invariants speak of what a client has got at the end.  The    *)
(* inductive invariant says where every row stands while it reads: a row   *)
(* it has got is never beyond the cursor, and a row it is owed is either   *)
(* shown, or beyond the cursor, or lost to the truncation of the cursor.   *)
(*                                                                         *)
(* And about PostCounters, for any number of students, comments, likes and *)
(* overlapping handlers.  CountersInv ties each counter to what is still   *)
(* to be added or taken off by the calls under way.                        *)
(***************************************************************************)
EXTENDS Paging, PostCounters, FiniteSetTheorems, TLAPS

UniqueIds == \A r, s \in table : r.id = s.id => r = s

\* What has been shown does not come again.
ShownIsPast ==
  /\ cursor.at = "start" => shown = {}
  /\ listing # "tasks" /\ cursor.at = "middle" => \A r \in shown : ~Beyond(r)
  /\ NothingTwice

\* The row of a page's end hides those of its second that come after it.
Hidden(r) ==
  /\ listing = "notifications"
  /\ \E s \in shown : Precedes(s, r) /\ Truncated(s.created) = Truncated(r.created)

Accounted(r) ==
  \/ r \in shown
  \/ cursor.at # "end" /\ Beyond(r)
  \/ Hidden(r)

OwedAreAccounted ==
  listing # "tasks" => \A r \in owed : Accounted(r)

IInv == TypeOK /\ UniqueIds /\ ShownIsPast /\ OwedAreAccounted

-----------------------------------------------------------------------------
(* Truncation                                                              *)

LEMMA TruncatedBelow ==
  ASSUME NEW t \in Nat
  PROVE  /\ Truncated(t) \in Nat
         /\ Truncated(t) <= t
         /\ t < Truncated(t) + PerSecond
  <1>1. t \div PerSecond \in Nat
    BY PagingAssumption, SMT
  <1>2. t = PerSecond * (t \div PerSecond) + (t % PerSecond) /\ t % PerSecond \in 0..(PerSecond - 1)
    BY PagingAssumption, SMT
  <1>. QED BY <1>1, <1>2, PagingAssumption, SMT DEF Truncated

\* An earlier time of another second comes before the whole of the later second.
LEMMA OtherSecond ==
  ASSUME NEW s \in Nat, NEW t \in Nat, s <= t, Truncated(s) # Truncated(t)
  PROVE  s < Truncated(t)
  <1>. DEFINE m == s \div PerSecond
              n == t \div PerSecond
  <1>1. m \in Nat /\ n \in Nat
    BY PagingAssumption, SMT
  <1>2. PerSecond * m <= s /\ s < PerSecond * m + PerSecond
    BY TruncatedBelow DEF Truncated
  <1>3. PerSecond * n <= t /\ t < PerSecond * n + PerSecond
    BY TruncatedBelow DEF Truncated
  <1>4. SUFFICES ASSUME PerSecond * n <= s PROVE FALSE
    BY <1>1, PagingAssumption, SMT DEF Truncated
  <1>5. m # n
    BY DEF Truncated
  <1>. HIDE DEF m, n
  <1>6. CASE m < n
    <2>1. PerSecond * (m + 1) <= PerSecond * n
      BY <1>1, <1>6, PagingAssumption, SMT
    <2>. QED BY <1>1, <1>2, <1>4, <2>1, PagingAssumption, SMT
  <1>7. CASE n < m
    <2>1. PerSecond * (n + 1) <= PerSecond * m
      BY <1>1, <1>7, PagingAssumption, SMT
    <2>. QED BY <1>1, <1>2, <1>3, <2>1, PagingAssumption, SMT
  <1>. QED BY <1>1, <1>5, <1>6, <1>7, SMT

-----------------------------------------------------------------------------
(* A new cursor                                                            *)

LEMMA RowType ==
  ASSUME NEW r \in Row
  PROVE  /\ r.id \in Nat /\ r.id \in Id
         /\ r.created \in Nat /\ r.created \in Time
         /\ Truncated(r.created) \in Time
  <1>1. r.id \in Nat /\ r.id \in Id /\ r.created \in Nat /\ r.created \in Time
    BY PagingAssumption DEF Row, Id, Time
  <1>2. Truncated(r.created) \in Nat /\ Truncated(r.created) <= r.created
    BY <1>1, TruncatedBelow
  <1>. QED BY <1>1, <1>2, PagingAssumption DEF Time

\* The rows that do not come after the cursor's row are behind the cursor.
LEMMA CursorHidesPage ==
  ASSUME NEW l \in Row, NEW s \in Row, listing \in Listing \ {"tasks"},
         listing' = listing, cursor' = CursorAt(l), ~Precedes(l, s)
  PROVE  ~Beyond(s)'
  <1>1. /\ l.id \in Nat /\ s.id \in Nat /\ l.created \in Nat /\ s.created \in Nat
        /\ Truncated(l.created) \in Nat /\ Truncated(l.created) <= l.created
    BY RowType, TruncatedBelow
  <1>2. CASE listing \in NewestFirst
    BY <1>1, <1>2 DEF Precedes, Beyond, CursorAt, ById, NewestFirst, OldestFirst
  <1>3. CASE listing \in OldestFirst
    BY <1>1, <1>3 DEF Precedes, Beyond, CursorAt, ById, NewestFirst, OldestFirst
  <1>4. CASE listing = "notifications"
    BY <1>1, <1>4 DEF Precedes, Beyond, CursorAt, ById, NewestFirst, OldestFirst
  <1>. QED BY <1>2, <1>3, <1>4 DEF Listing, NewestFirst, OldestFirst

\* The cursor only moves on.
LEMMA CursorMovesOn ==
  ASSUME NEW l \in Row, NEW s \in Row, TypeOK, listing # "tasks",
         cursor.at = "middle", Beyond(l), ~Beyond(s),
         listing' = listing, cursor' = CursorAt(l)
  PROVE  ~Beyond(s)'
  <1>1. /\ l.id \in Nat /\ s.id \in Nat /\ l.created \in Nat /\ s.created \in Nat
        /\ Truncated(l.created) \in Nat /\ Truncated(l.created) <= l.created
    BY RowType, TruncatedBelow
  <1>2. cursor.id \in Nat /\ cursor.created \in Nat
    BY PagingAssumption DEF TypeOK, Id, Time, Cursor
  <1>3. CASE listing \in NewestFirst
    BY <1>1, <1>2, <1>3 DEF Beyond, CursorAt, ById, NewestFirst, OldestFirst
  <1>4. CASE listing \in OldestFirst
    BY <1>1, <1>2, <1>4 DEF Beyond, CursorAt, ById, NewestFirst, OldestFirst
  <1>5. CASE listing = "notifications"
    BY <1>1, <1>2, <1>5 DEF Beyond, CursorAt, ById, NewestFirst, OldestFirst
  <1>. QED BY <1>3, <1>4, <1>5 DEF TypeOK, Listing, NewestFirst, OldestFirst

\* A row that does not come before the cursor's row is beyond the cursor, or hidden.
LEMMA CursorKeepsRest ==
  ASSUME NEW l \in Row, NEW s \in Row, listing \in Listing \ {"tasks"}, l.id # s.id,
         listing' = listing, cursor' = CursorAt(l), ~Precedes(s, l)
  PROVE  \/ Beyond(s)'
         \/ /\ listing = "notifications"
            /\ Precedes(l, s)
            /\ Truncated(l.created) = Truncated(s.created)
  <1>1. l.id \in Nat /\ s.id \in Nat /\ l.created \in Nat /\ s.created \in Nat
    BY RowType
  <1>2. CASE listing \in NewestFirst
    <2>1. ~(s.id > l.id)
      BY <1>1, <1>2 DEF Precedes, NewestFirst, OldestFirst
    <2>2. s.id < l.id
      BY <1>1, <2>1
    <2>3. cursor'.id = l.id /\ listing' \in NewestFirst /\ listing' \notin OldestFirst
      BY <1>2 DEF CursorAt, NewestFirst, OldestFirst
    <2>4. Beyond(s)'
      BY <2>2, <2>3, Zenon DEF Beyond
    <2>. QED BY <2>4
  <1>3. CASE listing \in OldestFirst
    <2>1. ~(s.id < l.id)
      BY <1>1, <1>3 DEF Precedes, NewestFirst, OldestFirst
    <2>2. s.id > l.id
      BY <1>1, <2>1
    <2>3. cursor'.id = l.id /\ listing' \in OldestFirst /\ listing' \notin NewestFirst
      BY <1>3 DEF CursorAt, NewestFirst, OldestFirst
    <2>4. Beyond(s)'
      BY <2>2, <2>3 DEF Beyond
    <2>. QED BY <2>4
  <1>4. CASE listing = "notifications"
    <2>1. s.created <= l.created /\ Precedes(l, s)
      BY <1>1, <1>4 DEF Precedes, NewestFirst, OldestFirst
    <2>2. CASE Truncated(l.created) = Truncated(s.created)
      BY <1>4, <2>1, <2>2
    <2>3. CASE Truncated(l.created) # Truncated(s.created)
      <3>1. s.created < Truncated(l.created)
        BY <1>1, <2>1, <2>3, OtherSecond
      <3>. QED BY <1>4, <3>1 DEF Beyond, CursorAt, ById, NewestFirst, OldestFirst
    <2>. QED BY <2>2, <2>3
  <1>. QED BY <1>2, <1>3, <1>4 DEF Listing, NewestFirst, OldestFirst

-----------------------------------------------------------------------------
(* One page                                                                *)

\* What NextPage does, with the page named.
Page(P) ==
  /\ P \subseteq Rest
  /\ IsPage(P, Rest)
  /\ shown' = shown \cup P
  /\ twice' = twice \cup (P \cap shown)
  /\ \/ /\ HasMore
        /\ \E l \in Last(P) : cursor' = CursorAt(l)
     \/ /\ P = Rest
        /\ cursor' = [cursor EXCEPT !.at = "end"]

LEMMA SomePage ==
  ASSUME NextPage
  PROVE  \E P : Page(P)
  <1>1. PICK P \in SUBSET Rest :
          /\ IsPage(P, Rest)
          /\ shown' = shown \cup P
          /\ twice' = twice \cup (P \cap shown)
          /\ IF HasMore
             THEN \E l \in Last(P) : cursor' = CursorAt(l)
             ELSE cursor' = [cursor EXCEPT !.at = "end"]
    BY DEF NextPage
  <1>2. ~HasMore => P = Rest
    BY <1>1 DEF IsPage, HasMore
  <1>3. Page(P)
    BY <1>1, <1>2 DEF Page
  <1>. QED BY <1>3

\* What a step does; the calls differ in the listing alone.
LEMMA Steps ==
  ASSUME [Next]_vars
  PROVE  \/ UNCHANGED vars
         \/ Tick
         \/ \E r \in Row : Insert(r)
         \/ \E r \in table : Leave(r) \/ Return(r)
         \/ NextPage
         \/ Reopen
  BY DEF Next, ListPosts, ListUsers, ListComments, ListCommentReplies,
         ListNotifications, ListTasks

LEMMA TypeInit == Init => TypeOK
  BY PagingAssumption DEF Init, TypeOK, Cursor, Id, Time

LEMMA TypePage ==
  ASSUME TypeOK, NextPage
  PROVE  TypeOK'
  <1>1. PICK P : Page(P)
    BY SomePage
  <1>2. P \subseteq listed /\ P \subseteq table
    BY <1>1 DEF Page, Rest, TypeOK
  <1>3. cursor' \in Cursor
    <2>1. ASSUME NEW l \in Last(P), cursor' = CursorAt(l)
          PROVE  cursor' \in Cursor
      <3>1. l \in Row
        BY <1>2 DEF Last, TypeOK
      <3>2. l.id \in Id /\ Truncated(l.created) \in Time /\ 0 \in Time
        BY <3>1, RowType, PagingAssumption DEF Time
      <3>. QED BY <2>1, <3>2 DEF CursorAt, Cursor
    <2>2. CASE cursor' = [cursor EXCEPT !.at = "end"]
      BY <2>2 DEF TypeOK, Cursor
    <2>. QED BY <1>1, <2>1, <2>2 DEF Page
  <1>. QED BY <1>1, <1>2, <1>3 DEF Page, NextPage, TypeOK

LEMMA TypeStep == TypeOK /\ [Next]_vars => TypeOK'
  <1>. SUFFICES ASSUME TypeOK, [Next]_vars PROVE TypeOK'
    OBVIOUS
  <1>. USE DEF TypeOK
  <1>1. CASE UNCHANGED vars
    BY <1>1 DEF vars
  <1>2. CASE Tick
    BY <1>2, PagingAssumption DEF Tick, Time
  <1>3. ASSUME NEW r \in Row, Insert(r) PROVE TypeOK'
    BY <1>3 DEF Insert
  <1>4. ASSUME NEW r \in table, Leave(r) PROVE TypeOK'
    BY <1>4 DEF Leave
  <1>5. ASSUME NEW r \in table, Return(r) PROVE TypeOK'
    BY <1>5 DEF Return
  <1>6. CASE NextPage
    BY <1>6, TypePage
  <1>7. CASE Reopen
    BY <1>7, PagingAssumption DEF Reopen, Time, Cursor
  <1>. QED BY Steps, <1>1, <1>2, <1>3, <1>4, <1>5, <1>6, <1>7

-----------------------------------------------------------------------------
(* The inductive invariant                                                 *)

LEMMA UniqueStep ==
  ASSUME UniqueIds, [Next]_vars
  PROVE  UniqueIds'
  <1>1. CASE table' = table
    BY <1>1 DEF UniqueIds
  <1>2. ASSUME NEW r \in Row, Insert(r) PROVE UniqueIds'
    BY <1>2 DEF Insert, UniqueIds
  <1>3. table' = table \/ \E r \in Row : Insert(r)
    BY Steps DEF vars, Tick, Leave, Return, NextPage, Reopen
  <1>. QED BY <1>1, <1>2, <1>3

\* Whatever happens to the rows, what was shown stays past and what is owed stays
\* accounted for, until the client reads a page.
LEMMA RowsStep ==
  ASSUME ShownIsPast, OwedAreAccounted, owed' \subseteq owed,
         UNCHANGED <<listing, cursor, shown, twice>>
  PROVE  ShownIsPast' /\ OwedAreAccounted'
  <1>1. \A r : (Beyond(r)' <=> Beyond(r)) /\ (Hidden(r)' <=> Hidden(r))
    BY DEF Beyond, Hidden, Precedes, Truncated
  <1>2. \A r : Accounted(r)' <=> Accounted(r)
    BY <1>1 DEF Accounted
  <1>. QED BY <1>1, <1>2 DEF ShownIsPast, NothingTwice, OwedAreAccounted

LEMMA ReopenStep ==
  ASSUME Reopen
  PROVE  ShownIsPast' /\ OwedAreAccounted'
  BY DEF Reopen, ShownIsPast, NothingTwice, OwedAreAccounted

LEMMA PagePast ==
  ASSUME TypeOK, ShownIsPast, NextPage
  PROVE  ShownIsPast'
  <1>1. PICK P : Page(P)
    BY SomePage
  <1>2. P \subseteq listed /\ P \subseteq Row /\ shown \subseteq Row /\ \A r \in P : Beyond(r)
    BY <1>1 DEF Page, Rest, TypeOK
  <1>3. listing # "tasks" => P \cap shown = {}
    BY <1>2 DEF ShownIsPast, NextPage, TypeOK, Cursor
  <1>4. NothingTwice'
    BY <1>1, <1>3 DEF Page, NextPage, ShownIsPast, NothingTwice
  <1>5. ASSUME listing # "tasks", NEW l \in Last(P), cursor' = CursorAt(l), NEW r \in shown'
        PROVE  ~Beyond(r)'
    <2>1. l \in P /\ l \in Row /\ listing' = listing
      BY <1>2 DEF Last, NextPage
    <2>2. CASE r \in P
      <3>1. ~Precedes(l, r)
        BY <2>2 DEF Last
      <3>2. r \in Row /\ listing \in Listing \ {"tasks"}
        BY <1>2, <1>5, <2>2 DEF TypeOK
      <3>. QED BY <1>5, <2>1, <3>1, <3>2, CursorHidesPage
    <2>3. CASE r \in shown
      <3>1. cursor.at = "middle"
        BY <2>3 DEF ShownIsPast, NextPage, TypeOK, Cursor
      <3>2. ~Beyond(r) /\ Beyond(l) /\ r \in Row
        BY <1>2, <1>5, <2>1, <2>3, <3>1 DEF ShownIsPast
      <3>. QED BY <1>5, <2>1, <3>1, <3>2, CursorMovesOn
    <2>. QED BY <1>1, <1>5, <2>2, <2>3 DEF Page
  <1>6. CASE cursor' = [cursor EXCEPT !.at = "end"]
    <2>1. cursor'.at = "end"
      BY <1>6 DEF TypeOK
    <2>. QED BY <1>4, <2>1 DEF ShownIsPast
  <1>7. ASSUME NEW l \in Last(P), cursor' = CursorAt(l) PROVE ShownIsPast'
    <2>1. cursor'.at = "middle"
      BY <1>7 DEF CursorAt
    <2>2. listing' # "tasks" => \A r \in shown' : ~Beyond(r)'
      BY <1>5, <1>7 DEF NextPage
    <2>. QED BY <1>4, <2>1, <2>2 DEF ShownIsPast
  <1>. QED BY <1>1, <1>6, <1>7 DEF Page

LEMMA PageAccounts ==
  ASSUME TypeOK, UniqueIds, OwedAreAccounted, NextPage
  PROVE  OwedAreAccounted'
  <1>. SUFFICES ASSUME listing # "tasks", NEW r \in owed' PROVE Accounted(r)'
    BY DEF OwedAreAccounted, NextPage
  <1>1. PICK P : Page(P)
    BY SomePage
  <1>2. P \subseteq Rest /\ P \subseteq listed /\ listing' = listing /\ shown' = shown \cup P
    BY <1>1 DEF Page, Rest, NextPage
  <1>3. r \in listed /\ r \in table /\ r \in Row
    BY DEF NextPage, TypeOK
  <1>4. Accounted(r)
    BY DEF NextPage, OwedAreAccounted, Accounted, Beyond
  <1>5. CASE r \in shown \/ r \in P
    BY <1>2, <1>5 DEF Accounted
  <1>6. CASE Hidden(r)
    <2>1. PICK s \in shown : Precedes(s, r) /\ Truncated(s.created) = Truncated(r.created)
      BY <1>6 DEF Hidden
    <2>2. listing' = "notifications" /\ s \in shown' /\ (Precedes(s, r))'
      BY <1>2, <1>6, <2>1 DEF Hidden, Precedes
    <2>3. Hidden(r)'
      BY <2>1, <2>2 DEF Hidden, Truncated
    <2>. QED BY <2>3 DEF Accounted
  <1>7. CASE r \notin shown /\ r \notin P /\ Beyond(r)
    <2>1. r \in Rest
      BY <1>3, <1>7 DEF Rest
    <2>2. PICK l \in Last(P) : cursor' = CursorAt(l)
      BY <1>1, <1>7, <2>1 DEF Page
    <2>3. l \in P /\ l \in table /\ l \in Row /\ l # r
      BY <1>2, <1>7 DEF Last, TypeOK
    <2>4. l.id # r.id
      BY <1>3, <2>3 DEF UniqueIds
    <2>5. ~Precedes(r, l)
      BY <1>1, <1>7, <2>1, <2>3 DEF Page, IsPage
    <2>6. listing \in Listing \ {"tasks"}
      BY DEF TypeOK
    <2>7. \/ Beyond(r)'
          \/ /\ listing = "notifications"
             /\ Precedes(l, r)
             /\ Truncated(l.created) = Truncated(r.created)
      BY <1>2, <1>3, <2>2, <2>3, <2>4, <2>5, <2>6, CursorKeepsRest
    <2>8. cursor'.at = "middle"
      BY <2>2 DEF CursorAt
    <2>9. CASE Beyond(r)'
      BY <2>8, <2>9 DEF Accounted
    <2>10. CASE /\ listing = "notifications"
                /\ Precedes(l, r)
                /\ Truncated(l.created) = Truncated(r.created)
      <3>1. listing' = "notifications" /\ l \in shown' /\ (Precedes(l, r))'
        BY <1>2, <2>3, <2>10 DEF Precedes, NewestFirst, OldestFirst
      <3>2. Hidden(r)'
        BY <2>10, <3>1 DEF Hidden, Truncated
      <3>. QED BY <3>2 DEF Accounted
    <2>. QED BY <2>7, <2>9, <2>10
  <1>. QED BY <1>4, <1>5, <1>6, <1>7 DEF Accounted

\* The inductive invariant holds in every reachable state.
THEOREM Invariance == Spec => []IInv
  <1>1. Init => IInv
    <2>. SUFFICES ASSUME Init PROVE IInv
      OBVIOUS
    <2>1. TypeOK
      BY TypeInit
    <2>2. UniqueIds /\ ShownIsPast /\ OwedAreAccounted
      BY DEF Init, UniqueIds, ShownIsPast, NothingTwice, OwedAreAccounted
    <2>. QED BY <2>1, <2>2 DEF IInv
  <1>2. IInv /\ [Next]_vars => IInv'
    <2>. SUFFICES ASSUME IInv, [Next]_vars PROVE IInv'
      OBVIOUS
    <2>. USE DEF IInv
    <2>1. TypeOK' /\ UniqueIds'
      BY TypeStep, UniqueStep
    <2>2. CASE NextPage
      BY <2>1, <2>2, PagePast, PageAccounts
    <2>3. CASE Reopen
      BY <2>1, <2>3, ReopenStep
    <2>4. CASE owed' \subseteq owed /\ UNCHANGED <<listing, cursor, shown, twice>>
      BY <2>1, <2>4, RowsStep
    <2>5. \/ NextPage
          \/ Reopen
          \/ owed' \subseteq owed /\ UNCHANGED <<listing, cursor, shown, twice>>
      BY Steps DEF vars, Tick, Insert, Leave, Return
    <2>. QED BY <2>2, <2>3, <2>4, <2>5
  <1>. QED BY <1>1, <1>2, PTL DEF Spec

\* The variables of Paging keep their types.
THEOREM TypeCorrect == Spec => []TypeOK
  <1>1. IInv => TypeOK
    BY DEF IInv
  <1>. QED BY <1>1, Invariance, PTL

\* No listing but that of tasks shows a row twice, however the table changes
\* between two pages.
THEOREM PagesAreDisjoint == Spec => []NothingTwice
  <1>1. IInv => NothingTwice
    BY DEF IInv, ShownIsPast
  <1>. QED BY <1>1, Invariance, PTL

\* The id cursor of posts, users, comments and replies misses no row that was there all the time.
THEOREM PagesAreComplete == Spec => []EverythingShown
  <1>1. IInv => EverythingShown
    <2>. SUFFICES ASSUME IInv, listing \in ById, cursor.at = "end", NEW r \in owed
         PROVE  r \in shown
      BY DEF EverythingShown
    <2>1. listing # "tasks" /\ listing # "notifications"
      BY DEF ById, NewestFirst, OldestFirst
    <2>2. Accounted(r)
      BY <2>1 DEF IInv, OwedAreAccounted
    <2>. QED BY <2>1, <2>2 DEF Accounted, Hidden
  <1>. QED BY <1>1, Invariance, PTL

\* The truncated cursor of notifications misses only rows of a second it cut in two.
THEOREM SkipsAreWithinSecond == Spec => []SkippedWithinSecond
  <1>1. IInv => SkippedWithinSecond
    <2>. SUFFICES ASSUME IInv, listing = "notifications", cursor.at = "end",
                         NEW r \in owed, r \notin shown
         PROVE  Hidden(r)
      BY DEF SkippedWithinSecond, Hidden
    <2>1. Accounted(r)
      BY DEF IInv, OwedAreAccounted
    <2>. QED BY <2>1 DEF Accounted
  <1>. QED BY <1>1, Invariance, PTL

-----------------------------------------------------------------------------
(* The counters of a post                                                  *)

\* A handler that inserts a reply has an id that no comment and no other handler has.
RepliesAreFresh ==
  /\ \A c \in About("insert_reply") : call[c].comment \notin created
  /\ \A c, d \in About("insert_reply") : call[c].comment = call[d].comment => c = d

\* A like under way has been let in below the bound.
LikesBounded ==
  likesCount + Cardinality(About("insert_like")) + Cardinality(About("increment"))
    <= MaxLikes + Cardinality(Call)

CountersInv ==
  /\ CountersTypeOK
  /\ commentCount <= Cardinality(created)
  /\ LikesBounded
  /\ RepliesAreFresh
  /\ LikesNotUndercounted
  /\ CommentsNotOvercounted

LEMMA CountersFinite ==
  ASSUME CountersTypeOK
  PROVE  /\ IsFiniteSet(liked) /\ Cardinality(liked) \in Nat
         /\ IsFiniteSet(created) /\ Cardinality(created) \in Nat
         /\ IsFiniteSet(live) /\ Cardinality(live) \in Nat
         /\ Cardinality(created) <= Cardinality(Comment)
         /\ Cardinality(Comment) \in Nat /\ Cardinality(Call) \in Nat
         /\ \A op : IsFiniteSet(About(op)) /\ Cardinality(About(op)) \in Nat
                    /\ Cardinality(About(op)) <= Cardinality(Call)
         /\ IsFiniteSet(Undiscounted) /\ Cardinality(Undiscounted) \in Nat
  <1>1. /\ liked \in SUBSET User /\ created \in SUBSET Comment /\ live \in SUBSET Comment
        /\ \A op : About(op) \in SUBSET Call
    BY DEF CountersTypeOK, About
  <1>b. Cardinality(Comment) \in Nat
    BY FS_CardinalityType, CountersAssumption
  <1>c. IsFiniteSet(1..Cardinality(Comment))
    BY <1>b, FS_Interval
  <1>2. IsFiniteSet(Call \X (1..Cardinality(Comment)))
    BY <1>c, FS_Product, CountersAssumption
  <1>3. Undiscounted \in SUBSET (Call \X (1..Cardinality(Comment)))
    BY DEF Undiscounted
  <1>. DEFINE Below(S, T) == IsFiniteSet(T) /\ Cardinality(T) <= Cardinality(S)
  <1>a. \A S : IsFiniteSet(S) => \A T \in SUBSET S : Below(S, T)
    BY FS_Subset
  <1>4. /\ IsFiniteSet(liked) /\ IsFiniteSet(created) /\ IsFiniteSet(live)
        /\ Cardinality(created) <= Cardinality(Comment)
        /\ \A op : IsFiniteSet(About(op)) /\ Cardinality(About(op)) <= Cardinality(Call)
        /\ IsFiniteSet(Undiscounted)
    BY <1>1, <1>2, <1>3, <1>a, CountersAssumption
  <1>5. \A S : IsFiniteSet(S) => Cardinality(S) \in Nat
    BY FS_CardinalityType
  <1>. QED BY <1>4, <1>5, CountersAssumption

\* How a step of one handler changes the set of those about to run a statement.
LEMMA AboutAfter ==
  ASSUME CountersTypeOK, NEW c \in Call, NEW r, Goto(c, r), NEW op
  PROVE  About(op)' = IF r.op = op THEN About(op) \cup {c} ELSE About(op) \ {c}
  BY DEF CountersTypeOK, Goto, About

LEMMA AboutCounted ==
  ASSUME CountersTypeOK, NEW c \in Call, NEW r, Goto(c, r), NEW op
  PROVE  Cardinality(About(op)') =
           Cardinality(About(op)) + (IF r.op = op THEN 1 ELSE 0)
                                  - (IF call[c].op = op THEN 1 ELSE 0)
  <1>1. c \in About(op) <=> call[c].op = op
    BY DEF About
  <1>2. IsFiniteSet(About(op)) /\ Cardinality(About(op)) \in Nat
    BY CountersFinite
  <1>3. CASE r.op = op
    <2>1. About(op)' = About(op) \cup {c}
      BY <1>3, AboutAfter
    <2>2. Cardinality(About(op) \cup {c})
            = IF c \in About(op) THEN Cardinality(About(op)) ELSE Cardinality(About(op)) + 1
      BY <1>2, FS_AddElement
    <2>. QED BY <1>1, <1>2, <1>3, <2>1, <2>2
  <1>4. CASE r.op # op
    <2>1. About(op)' = About(op) \ {c}
      BY <1>4, AboutAfter
    <2>2. Cardinality(About(op) \ {c})
            = IF c \in About(op) THEN Cardinality(About(op)) - 1 ELSE Cardinality(About(op))
      BY <1>2, FS_RemoveElement
    <2>. QED BY <1>1, <1>2, <1>4, <2>1, <2>2
  <1>. QED BY <1>3, <1>4

\* The replies one handler has deleted and not discounted yet.
ToDiscount(r) == IF r.op = "discount" THEN r.replies ELSE 0

LEMMA UndiscountedCounted ==
  ASSUME CountersTypeOK, NEW c \in Call, NEW r \in InFlight \cup {Idle}, Goto(c, r)
  PROVE  Cardinality(Undiscounted') = Cardinality(Undiscounted) + ToDiscount(r) - ToDiscount(call[c])
  <1>. DEFINE Other == {p \in Undiscounted : p[1] # c}
              Slots(q) == {c} \X (1..ToDiscount(q))
  <1>1. call[c] \in InFlight \cup {Idle}
    BY DEF CountersTypeOK
  <1>2. Cardinality(Comment) \in Nat
    BY CountersFinite
  <1>3. \A q \in InFlight \cup {Idle} : ToDiscount(q) \in 0..Cardinality(Comment)
    <2>1. \A q \in InFlight : q.op = "discount" => q.replies \in 1..Cardinality(Comment)
      BY DEF InFlight
    <2>2. \A q \in InFlight : ToDiscount(q) \in 0..Cardinality(Comment)
      BY <1>2, <2>1 DEF ToDiscount
    <2>3. ToDiscount(Idle) = 0
      BY DEF ToDiscount, Idle
    <2>. QED BY <1>2, <2>2, <2>3
  <1>4. Undiscounted = Other \cup Slots(call[c]) /\ Other \cap Slots(call[c]) = {}
    <2>1. ASSUME NEW i \in 1..Cardinality(Comment)
          PROVE  (call[c].op = "discount" /\ i <= call[c].replies) <=> i \in 1..ToDiscount(call[c])
      BY <1>1, <1>2, <1>3, <2>1 DEF ToDiscount
    <2>2. \A p \in Undiscounted : p[1] = c => p \in Slots(call[c])
      BY <2>1 DEF Undiscounted
    <2>3. \A p \in Slots(call[c]) : p \in Undiscounted /\ p[1] = c
      BY <1>1, <1>2, <1>3, <2>1 DEF Undiscounted
    <2>. QED BY <2>2, <2>3
  <1>5. Undiscounted' = Other \cup Slots(r) /\ Other \cap Slots(r) = {}
    <2>0. call' = [call EXCEPT ![c] = r] /\ call \in [Call -> InFlight \cup {Idle}]
      BY DEF Goto, CountersTypeOK
    <2>1. ASSUME NEW i \in 1..Cardinality(Comment)
          PROVE  (r.op = "discount" /\ i <= r.replies) <=> i \in 1..ToDiscount(r)
      BY <1>2, <1>3, <2>1 DEF ToDiscount
    <2>2. \A p \in Call \X (1..Cardinality(Comment)) :
             p[1] # c => (p \in Undiscounted' <=> p \in Undiscounted)
      BY <2>0 DEF Undiscounted
    <2>3. \A p \in Undiscounted' : p[1] = c => p \in Slots(r)
      BY <2>0, <2>1 DEF Undiscounted
    <2>4. \A p \in Slots(r) : p \in Undiscounted' /\ p[1] = c
      BY <1>2, <1>3, <2>0, <2>1 DEF Undiscounted
    <2>5. Undiscounted \subseteq Call \X (1..Cardinality(Comment))
          /\ Undiscounted' \subseteq Call \X (1..Cardinality(Comment))
      BY DEF Undiscounted
    <2>. QED BY <2>2, <2>3, <2>4, <2>5
  <1>6. IsFiniteSet(Other)
    BY CountersFinite, FS_Subset, Other \in SUBSET Undiscounted
  <1>7. \A q \in InFlight \cup {Idle} : IsFiniteSet(Slots(q)) /\ Cardinality(Slots(q)) = ToDiscount(q)
    <2>1. \A n \in Nat : IsFiniteSet(1..n) /\ Cardinality(1..n) = n
      BY FS_Interval
    <2>2. IsFiniteSet({c}) /\ Cardinality({c}) = 1
      BY FS_Singleton
    <2>3. ASSUME NEW q \in InFlight \cup {Idle}
          PROVE  IsFiniteSet(Slots(q)) /\ Cardinality(Slots(q)) = ToDiscount(q)
      <3>1. ToDiscount(q) \in Nat
        BY <1>2, <1>3
      <3>2. IsFiniteSet(1..ToDiscount(q)) /\ Cardinality(1..ToDiscount(q)) = ToDiscount(q)
        BY <2>1, <3>1
      <3>3. IsFiniteSet(Slots(q)) /\ Cardinality(Slots(q)) = 1 * ToDiscount(q)
        <4>. DEFINE S == {c}
                    T == 1..ToDiscount(q)
        <4>1. IsFiniteSet(S) /\ IsFiniteSet(T) /\ Cardinality(S) = 1 /\ Cardinality(T) = ToDiscount(q)
          BY <2>2, <3>2
        <4>. HIDE DEF S, T
        <4>2. IsFiniteSet(S \X T) /\ Cardinality(S \X T) = Cardinality(S) * Cardinality(T)
          BY <4>1, FS_Product
        <4>3. IsFiniteSet(S \X T) /\ Cardinality(S \X T) = 1 * ToDiscount(q)
          BY <4>1, <4>2
        <4>. QED BY <4>3 DEF S, T
      <3>. QED BY <3>1, <3>3
    <2>. QED BY <2>3
  <1>8. /\ Cardinality(Undiscounted) = Cardinality(Other) + ToDiscount(call[c])
        /\ Cardinality(Undiscounted') = Cardinality(Other) + ToDiscount(r)
    <2>1. \A S, T : IsFiniteSet(S) /\ IsFiniteSet(T) /\ S \cap T = {}
                      => Cardinality(S \cup T) = Cardinality(S) + Cardinality(T)
      <3>1. SUFFICES ASSUME NEW S, NEW T, IsFiniteSet(S), IsFiniteSet(T), S \cap T = {}
                     PROVE  Cardinality(S \cup T) = Cardinality(S) + Cardinality(T)
        OBVIOUS
      <3>2. Cardinality(S \cup T) = Cardinality(S) + Cardinality(T) - 0
        BY <3>1, FS_Union, FS_EmptySet
      <3>. QED BY <3>1, <3>2, FS_CardinalityType
    <2>. HIDE DEF Other, Slots
    <2>. QED BY <1>1, <1>4, <1>5, <1>6, <1>7, <2>1
  <1>9. Cardinality(Other) \in Nat
    BY <1>6, FS_CardinalityType
  <1>. HIDE DEF Other
  <1>. QED BY <1>1, <1>2, <1>3, <1>8, <1>9

\* A step that leaves the comments alone and moves one handler.
LEMMA FreshKept ==
  ASSUME CountersInv, NEW c \in Call, NEW r \in InFlight \cup {Idle}, Goto(c, r),
         r.op # "insert_reply", created' = created
  PROVE  RepliesAreFresh'
  <1>1. About("insert_reply")' = About("insert_reply") \ {c}
    BY AboutAfter DEF CountersInv
  <1>2. \A d \in About("insert_reply") \ {c} : call'[d] = call[d]
    BY DEF Goto, About, CountersInv, CountersTypeOK
  <1>. QED BY <1>1, <1>2 DEF CountersInv, RepliesAreFresh

LEMMA CallTyped ==
  ASSUME CountersTypeOK, NEW c \in Call, NEW r \in InFlight \cup {Idle}, Goto(c, r)
  PROVE  call' \in [Call -> InFlight \cup {Idle}]
  BY DEF CountersTypeOK, Goto

\* What a step does to the counts of likes if it moves one handler.
LEMMA LikesStep ==
  ASSUME CountersInv, NEW c \in Call, NEW r \in InFlight \cup {Idle}, Goto(c, r),
         UNCHANGED <<comments, missed>>,
         liked' \in SUBSET User, likesCount' \in Nat,
         r.op \notin {"insert_reply", "discount"}, call[c].op # "discount",
         LikesBounded', LikesNotUndercounted'
  PROVE  CountersInv'
  <1>1. ToDiscount(r) = 0 /\ ToDiscount(call[c]) = 0
    BY DEF ToDiscount
  <1>2. Cardinality(Undiscounted') = Cardinality(Undiscounted)
    BY <1>1, UndiscountedCounted, CountersFinite DEF CountersInv
  <1>3. CommentsNotOvercounted'
    BY <1>2 DEF CountersInv, CommentsNotOvercounted, comments
  <1>4. RepliesAreFresh'
    BY FreshKept DEF comments
  <1>5. likesCount' \in 0..(MaxLikes + Cardinality(Call))
    <2>1. /\ IsFiniteSet(About("insert_like")') /\ IsFiniteSet(About("increment")')
      <3>1. About("insert_like")' \in SUBSET Call /\ About("increment")' \in SUBSET Call
        BY DEF About
      <3>. QED BY <3>1, FS_Subset, CountersAssumption
    <2>2. /\ Cardinality(About("insert_like")') \in Nat
          /\ Cardinality(About("increment")') \in Nat
          /\ Cardinality(Call) \in Nat
      BY <2>1, FS_CardinalityType, CountersAssumption
    <2>. QED BY <2>2, CountersAssumption DEF LikesBounded
  <1>6. CountersTypeOK'
    BY <1>5, CallTyped DEF CountersInv, CountersTypeOK, comments
  <1>. QED BY <1>3, <1>4, <1>6 DEF CountersInv, comments

\* What a step does to the comments if it moves one handler.
LEMMA CommentsStep ==
  ASSUME CountersInv, NEW c \in Call, NEW r \in InFlight \cup {Idle}, Goto(c, r),
         UNCHANGED <<likes, missed>>,
         \A op \in {"insert_like", "increment", "decrement"} : r.op # op /\ call[c].op # op,
         parent' \in [Comment -> Comment \cup {TopLevel}],
         created' \in SUBSET Comment, live' \in SUBSET created',
         commentCount' \in Nat, commentCount' <= Cardinality(created'),
         RepliesAreFresh', CommentsNotOvercounted'
  PROVE  CountersInv'
  <1>1. \A op \in {"insert_like", "increment", "decrement"} : About(op)' = About(op)
    <2>1. SUFFICES ASSUME NEW op \in {"insert_like", "increment", "decrement"}
                   PROVE  About(op)' = About(op)
      OBVIOUS
    <2>2. About(op)' = About(op) \ {c}
      BY AboutAfter DEF CountersInv
    <2>3. c \notin About(op)
      BY DEF About
    <2>. QED BY <2>2, <2>3
  <1>2. LikesBounded' /\ LikesNotUndercounted'
    BY <1>1 DEF CountersInv, LikesBounded, LikesNotUndercounted, likes
  <1>3. commentCount' \in 0..Cardinality(Comment)
    <2>1. Cardinality(created') <= Cardinality(Comment) /\ IsFiniteSet(created')
      BY FS_Subset, CountersAssumption
    <2>2. Cardinality(created') \in Nat /\ Cardinality(Comment) \in Nat
      BY <2>1, FS_CardinalityType, CountersAssumption
    <2>. QED BY <2>1, <2>2
  <1>4. CountersTypeOK'
    BY <1>3, CallTyped DEF CountersInv, CountersTypeOK, likes
  <1>. QED BY <1>2, <1>4 DEF CountersInv

\* The rows of likes and of comments are as they were, and a counter was missed
\* wherever a handler dropped the statement it owed.
LEMMA CountersInitially == CountersInit => CountersInv
  <1>. SUFFICES ASSUME CountersInit PROVE CountersInv
    OBVIOUS
  <1>1. Cardinality({}) = 0
    BY FS_EmptySet
  <1>2. \A op : op # "idle" => About(op) = {}
    BY DEF About, CountersInit, Idle
  <1>3. Undiscounted = {}
    BY DEF Undiscounted, CountersInit, Idle
  <1>4. Cardinality(Comment) \in Nat /\ Cardinality(Call) \in Nat
    BY FS_CardinalityType, CountersAssumption
  <1>5. CountersTypeOK
    BY <1>4, CountersAssumption DEF CountersTypeOK, CountersInit
  <1>6. LikesBounded /\ LikesNotUndercounted
    <2>1. About("insert_like") = {} /\ About("increment") = {} /\ About("decrement") = {}
      BY <1>2
    <2>. QED BY <1>1, <1>4, <2>1, CountersAssumption
             DEF LikesBounded, LikesNotUndercounted, CountersInit
  <1>7. CommentsNotOvercounted /\ commentCount <= Cardinality(created)
    BY <1>1, <1>3 DEF CommentsNotOvercounted, CountersInit
  <1>8. RepliesAreFresh
    <2>1. About("insert_reply") = {}
      BY <1>2
    <2>. QED BY <2>1 DEF RepliesAreFresh
  <1>. QED BY <1>5, <1>6, <1>7, <1>8 DEF CountersInv

-----------------------------------------------------------------------------
(* Likes                                                                   *)

LEMMA LikeReadKeeps ==
  ASSUME CountersInv, NEW c \in Call, NEW u \in User, LikeRead(c, u)
  PROVE  CountersInv'
  <1>. DEFINE r == [op |-> "insert_like", user |-> u]
  <1>1. r \in InFlight \cup {Idle} /\ Goto(c, r) /\ call[c] = Idle
    BY DEF InFlight, Goto, LikeRead, Begin
  <1>2. call[c].op = "idle" /\ r.op = "insert_like"
    BY <1>1 DEF Idle
  <1>3. CountersTypeOK
    BY DEF CountersInv
  <1>4. \A op \in {"increment", "decrement"} : About(op)' = About(op)
    <2>1. \A op : About(op)' = IF r.op = op THEN About(op) \cup {c} ELSE About(op) \ {c}
      BY <1>1, <1>3, AboutAfter
    <2>2. \A op : c \in About(op) <=> op = "idle"
      BY <1>2 DEF About
    <2>. QED BY <1>2, <2>1, <2>2
  <1>5. LikesNotUndercounted'
    BY <1>4 DEF CountersInv, LikesNotUndercounted, LikeRead, likes
  <1>6. LikesBounded'
    <2>1. About("insert_like")' \in SUBSET (Call \ About("increment"))
      BY <1>4 DEF About
    <2>2. Cardinality(About("insert_like")') <= Cardinality(Call \ About("increment"))
          /\ IsFiniteSet(About("insert_like")')
      BY <2>1, FS_Difference, FS_Subset, CountersAssumption
    <2>3. Cardinality(Call \ About("increment"))
            = Cardinality(Call) - Cardinality(About("increment"))
      <3>1. Call \cap About("increment") = About("increment")
        BY DEF About
      <3>. QED BY <3>1, FS_Difference, CountersAssumption
    <2>4. Cardinality(About("insert_like")') \in Nat
      BY <2>2, FS_CardinalityType
    <2>. QED BY <1>3, <1>4, <2>2, <2>3, <2>4, CountersFinite, CountersAssumption
             DEF LikesBounded, LikeRead, likes, CountersTypeOK
  <1>7. liked' \in SUBSET User /\ likesCount' \in Nat /\ UNCHANGED <<comments, missed>>
    BY <1>3, CountersFinite, CountersAssumption DEF CountersTypeOK, LikeRead, likes
  <1>. HIDE DEF r
  <1>. QED BY <1>1, <1>2, <1>5, <1>6, <1>7, LikesStep

LEMMA UnlikePostKeeps ==
  ASSUME CountersInv, NEW c \in Call, NEW u \in User, UnlikePost(c, u)
  PROVE  CountersInv'
  <1>. DEFINE r == [op |-> "decrement"]
  <1>1. r \in InFlight \cup {Idle} /\ Goto(c, r) /\ call[c] = Idle
    BY DEF InFlight, Goto, UnlikePost, Begin
  <1>2. call[c].op = "idle" /\ r.op = "decrement"
    BY <1>1 DEF Idle
  <1>3. CountersTypeOK
    BY DEF CountersInv
  <1>. HIDE DEF r
  <1>4. /\ Cardinality(About("insert_like")') = Cardinality(About("insert_like"))
        /\ Cardinality(About("increment")') = Cardinality(About("increment"))
        /\ Cardinality(About("decrement")') = Cardinality(About("decrement")) + 1
    BY <1>1, <1>2, <1>3, AboutCounted, CountersFinite
  <1>5. Cardinality(liked') = Cardinality(liked) - 1
    BY <1>3, CountersFinite, FS_RemoveElement DEF UnlikePost, RemoveLike
  <1>6. UNCHANGED <<likesCount, comments, missed>>
    BY DEF UnlikePost
  <1>7. LikesNotUndercounted'
    BY <1>3, <1>4, <1>5, <1>6, CountersFinite, CountersAssumption
       DEF CountersInv, LikesNotUndercounted, CountersTypeOK
  <1>8. LikesBounded'
    BY <1>4, <1>6 DEF CountersInv, LikesBounded
  <1>9. liked' \in SUBSET User /\ likesCount' \in Nat
    BY <1>3, <1>6, CountersFinite, CountersAssumption DEF CountersTypeOK, UnlikePost, RemoveLike
  <1>. QED BY <1>1, <1>2, <1>6, <1>7, <1>8, <1>9, LikesStep

LEMMA LikeInsertKeeps ==
  ASSUME CountersInv, NEW c \in Call, LikeInsert(c)
  PROVE  CountersInv'
  <1>. DEFINE r == IF liked = {} THEN [op |-> "increment"] ELSE Idle
  <1>1. r \in InFlight \cup {Idle} /\ Goto(c, r)
    BY DEF InFlight, Finish, LikeInsert
  <1>2. call[c].op = "insert_like" /\ r.op = (IF liked = {} THEN "increment" ELSE "idle")
    BY DEF Idle, LikeInsert
  <1>3. CountersTypeOK
    BY DEF CountersInv
  <1>4. call[c].user \in User
    BY <1>2, <1>3 DEF CountersTypeOK, InFlight, Idle
  <1>. HIDE DEF r
  <1>5. /\ Cardinality(About("insert_like")') = Cardinality(About("insert_like")) - 1
        /\ Cardinality(About("increment")')
             = Cardinality(About("increment")) + (IF liked = {} THEN 1 ELSE 0)
        /\ Cardinality(About("decrement")') = Cardinality(About("decrement"))
    BY <1>1, <1>2, <1>3, AboutCounted, CountersFinite
  <1>6. Cardinality(liked') = Cardinality(liked) + (IF liked = {} THEN 1 ELSE 0)
    <2>1. CASE liked = {}
      <3>1. Cardinality({}) = 0
        BY FS_EmptySet
      <3>2. Cardinality({call[c].user}) = 1
        BY FS_Singleton
      <3>. QED BY <2>1, <3>1, <3>2 DEF LikeInsert
    <2>2. CASE liked # {}
      BY <1>3, <2>2, CountersFinite DEF LikeInsert
    <2>. QED BY <2>1, <2>2
  <1>7. UNCHANGED <<likesCount, comments, missed>>
    BY DEF LikeInsert
  <1>8. LikesNotUndercounted'
    BY <1>3, <1>5, <1>6, <1>7, CountersFinite, CountersAssumption
       DEF CountersInv, LikesNotUndercounted, CountersTypeOK
  <1>9. LikesBounded'
    BY <1>3, <1>5, <1>7, CountersFinite, CountersAssumption
       DEF CountersInv, LikesBounded, CountersTypeOK
  <1>10. liked' \in SUBSET User /\ likesCount' \in Nat
    BY <1>3, <1>4, <1>7, CountersFinite, CountersAssumption DEF CountersTypeOK, LikeInsert
  <1>. QED BY <1>1, <1>2, <1>7, <1>8, <1>9, <1>10, LikesStep

LEMMA IncLikesCountKeeps ==
  ASSUME CountersInv, NEW c \in Call, IncLikesCount(c)
  PROVE  CountersInv'
  <1>1. Goto(c, Idle) /\ call[c].op = "increment" /\ Idle.op = "idle"
    BY DEF Finish, IncLikesCount, Idle
  <1>2. CountersTypeOK
    BY DEF CountersInv
  <1>3. /\ Cardinality(About("insert_like")') = Cardinality(About("insert_like"))
        /\ Cardinality(About("increment")') = Cardinality(About("increment")) - 1
        /\ Cardinality(About("decrement")') = Cardinality(About("decrement"))
    BY <1>1, <1>2, AboutCounted, CountersFinite
  <1>4. likesCount' = likesCount + 1 /\ likesCount \in Nat /\ UNCHANGED <<liked, comments, missed>>
    BY <1>2, CountersFinite, CountersAssumption DEF IncLikesCount, CountersTypeOK
  <1>5. LikesNotUndercounted'
    BY <1>2, <1>3, <1>4, CountersFinite DEF CountersInv, LikesNotUndercounted
  <1>6. LikesBounded'
    BY <1>2, <1>3, <1>4, CountersFinite, CountersAssumption DEF CountersInv, LikesBounded
  <1>7. liked' \in SUBSET User /\ likesCount' \in Nat
    BY <1>2, <1>4 DEF CountersTypeOK
  <1>. QED BY <1>1, <1>4, <1>5, <1>6, <1>7, LikesStep

LEMMA DecLikesCountKeeps ==
  ASSUME CountersInv, NEW c \in Call, DecLikesCount(c)
  PROVE  CountersInv'
  <1>1. Goto(c, Idle) /\ call[c].op = "decrement" /\ Idle.op = "idle"
    BY DEF Finish, DecLikesCount, Idle
  <1>2. CountersTypeOK
    BY DEF CountersInv
  <1>3. /\ Cardinality(About("insert_like")') = Cardinality(About("insert_like"))
        /\ Cardinality(About("increment")') = Cardinality(About("increment"))
        /\ Cardinality(About("decrement")') = Cardinality(About("decrement")) - 1
    BY <1>1, <1>2, AboutCounted, CountersFinite
  <1>4. /\ likesCount' = (IF likesCount > 0 THEN likesCount - 1 ELSE 0)
        /\ likesCount \in Nat /\ UNCHANGED <<liked, comments, missed>>
    BY <1>2, CountersFinite, CountersAssumption DEF DecLikesCount, CountersTypeOK
  <1>5. LikesNotUndercounted'
    BY <1>2, <1>3, <1>4, CountersFinite DEF CountersInv, LikesNotUndercounted
  <1>6. LikesBounded'
    BY <1>2, <1>3, <1>4, CountersFinite, CountersAssumption DEF CountersInv, LikesBounded
  <1>7. liked' \in SUBSET User /\ likesCount' \in Nat
    BY <1>2, <1>4 DEF CountersTypeOK
  <1>. QED BY <1>1, <1>4, <1>5, <1>6, <1>7, LikesStep

-----------------------------------------------------------------------------
(* Comments                                                                *)

LEMMA CreateCommentKeeps ==
  ASSUME CountersInv, NEW k \in Comment, CreateComment(k)
  PROVE  CountersInv'
  <1>1. CountersTypeOK
    BY DEF CountersInv
  <1>2. /\ k \notin created /\ k \notin live
        /\ created' = created \cup {k} /\ live' = live \cup {k}
        /\ parent' = [parent EXCEPT ![k] = TopLevel]
        /\ commentCount' = commentCount + 1
        /\ UNCHANGED <<liked, likesCount, missed, call>>
    BY <1>1 DEF CreateComment, FreshComment, InsertComment, likes, CountersTypeOK
  <1>3. /\ Cardinality(created') = Cardinality(created) + 1
        /\ Cardinality(live') = Cardinality(live) + 1
    BY <1>1, <1>2, CountersFinite, FS_AddElement
  <1>4. (\A op : About(op)' = About(op)) /\ Undiscounted' = Undiscounted
    BY <1>2 DEF About, Undiscounted
  <1>5. LikesBounded' /\ LikesNotUndercounted'
    BY <1>2, <1>4 DEF CountersInv, LikesBounded, LikesNotUndercounted
  <1>6. commentCount \in Nat
    BY <1>1, CountersFinite DEF CountersTypeOK
  <1>7. CommentsNotOvercounted' /\ commentCount' <= Cardinality(created')
    BY <1>1, <1>2, <1>3, <1>4, <1>6, CountersFinite DEF CountersInv, CommentsNotOvercounted
  <1>8. RepliesAreFresh'
    <2>1. \A d \in About("insert_reply") : call[d].comment # k
      BY DEF About, CreateComment, FreshComment
    <2>. QED BY <1>2, <1>4, <2>1 DEF CountersInv, RepliesAreFresh
  <1>9. created' \in SUBSET Comment /\ live' \in SUBSET created'
    BY <1>1, <1>2 DEF CountersTypeOK
  <1>10. commentCount' \in 0..Cardinality(Comment)
    <2>1. Cardinality(created') <= Cardinality(Comment)
      BY <1>9, FS_Subset, CountersAssumption
    <2>. QED BY <1>1, <1>2, <1>3, <1>6, <1>7, <2>1, CountersFinite
  <1>11. CountersTypeOK'
    BY <1>1, <1>2, <1>9, <1>10 DEF CountersTypeOK
  <1>. QED BY <1>5, <1>7, <1>8, <1>11 DEF CountersInv

LEMMA ReplyReadKeeps ==
  ASSUME CountersInv, NEW c \in Call, NEW k \in Comment, NEW par \in Comment, ReplyRead(c, k, par)
  PROVE  CountersInv'
  <1>. DEFINE r == [op |-> "insert_reply", comment |-> k, parent |-> par]
  <1>1. r \in InFlight \cup {Idle} /\ Goto(c, r) /\ call[c] = Idle
    BY DEF InFlight, Goto, ReplyRead, Begin
  <1>2. call[c].op = "idle" /\ r.op = "insert_reply" /\ r.comment = k
    BY <1>1 DEF Idle
  <1>3. CountersTypeOK
    BY DEF CountersInv
  <1>4. UNCHANGED <<liked, likesCount, parent, created, live, commentCount, missed>>
    BY DEF ReplyRead, likes, comments
  <1>5. RepliesAreFresh'
    <2>1. call' = [call EXCEPT ![c] = r] /\ call \in [Call -> InFlight \cup {Idle}]
      BY <1>1, <1>3 DEF Goto, CountersTypeOK
    <2>2. About("insert_reply")' = About("insert_reply") \cup {c} /\ c \notin About("insert_reply")
      BY <1>2, <2>1 DEF About
    <2>3. k \notin created /\ \A d \in About("insert_reply") : call[d].comment # k
      BY DEF About, ReplyRead, FreshComment
    <2>4. call'[c] = r /\ \A d \in About("insert_reply") : call'[d] = call[d]
      BY <2>1, <2>2 DEF About
    <2>. HIDE DEF r
    <2>. QED BY <1>2, <1>4, <2>2, <2>3, <2>4 DEF CountersInv, RepliesAreFresh
  <1>. HIDE DEF r
  <1>6. Cardinality(Undiscounted') = Cardinality(Undiscounted)
    BY <1>1, <1>2, <1>3, UndiscountedCounted, CountersFinite DEF ToDiscount
  <1>7. CommentsNotOvercounted'
    BY <1>4, <1>6 DEF CountersInv, CommentsNotOvercounted
  <1>8. /\ parent' \in [Comment -> Comment \cup {TopLevel}]
        /\ created' \in SUBSET Comment /\ live' \in SUBSET created'
        /\ commentCount' \in Nat /\ commentCount' <= Cardinality(created')
    BY <1>3, <1>4, CountersFinite DEF CountersInv, CountersTypeOK
  <1>9. UNCHANGED <<likes, missed>>
    BY <1>4 DEF likes
  <1>. QED BY <1>1, <1>2, <1>5, <1>7, <1>8, <1>9, CommentsStep

LEMMA ReplyInsertKeeps ==
  ASSUME CountersInv, NEW c \in Call, ReplyInsert(c)
  PROVE  CountersInv'
  <1>. DEFINE k == call[c].comment
  <1>1. Goto(c, Idle) /\ Idle.op = "idle" /\ call[c].op = "insert_reply"
    BY DEF ReplyInsert, Finish, Idle
  <1>2. CountersTypeOK
    BY DEF CountersInv
  <1>3. k \in Comment /\ call[c].parent \in Comment
    BY <1>1, <1>2 DEF CountersTypeOK, InFlight, Idle
  <1>4. /\ created' = created \cup {k} /\ live' = live \cup {k}
        /\ parent' = [parent EXCEPT ![k] = call[c].parent]
        /\ commentCount' = commentCount + 1
        /\ UNCHANGED <<likes, missed>>
    BY DEF ReplyInsert, InsertComment
  <1>5. c \in About("insert_reply") /\ k \notin created /\ k \notin live
    BY <1>1, <1>2 DEF About, CountersInv, RepliesAreFresh, CountersTypeOK
  <1>6. /\ Cardinality(created') = Cardinality(created) + 1
        /\ Cardinality(live') = Cardinality(live) + 1
    BY <1>2, <1>4, <1>5, CountersFinite, FS_AddElement
  <1>7. Cardinality(Undiscounted') = Cardinality(Undiscounted)
    BY <1>1, <1>2, UndiscountedCounted, CountersFinite DEF ToDiscount
  <1>8. commentCount \in Nat
    BY <1>2, CountersFinite DEF CountersTypeOK
  <1>9. CommentsNotOvercounted' /\ commentCount' <= Cardinality(created')
    BY <1>2, <1>4, <1>6, <1>7, <1>8, CountersFinite DEF CountersInv, CommentsNotOvercounted
  <1>10. RepliesAreFresh'
    <2>1. About("insert_reply")' = About("insert_reply") \ {c}
      BY <1>1, <1>2, AboutAfter
    <2>2. \A d \in About("insert_reply") \ {c} : call'[d] = call[d]
      BY <1>1, <1>2 DEF Goto, About, CountersTypeOK
    <2>3. \A d \in About("insert_reply") \ {c} : call[d].comment # k
      BY <1>5 DEF CountersInv, RepliesAreFresh
    <2>. QED BY <1>4, <2>1, <2>2, <2>3 DEF CountersInv, RepliesAreFresh
  <1>11. /\ parent' \in [Comment -> Comment \cup {TopLevel}]
         /\ created' \in SUBSET Comment /\ live' \in SUBSET created' /\ commentCount' \in Nat
    BY <1>2, <1>3, <1>4, <1>8 DEF CountersTypeOK
  <1>. QED BY <1>1, <1>4, <1>9, <1>10, <1>11, CommentsStep

LEMMA DeleteReadKeeps ==
  ASSUME CountersInv, NEW c \in Call, NEW k \in Comment, DeleteRead(c, k)
  PROVE  CountersInv'
  <1>. DEFINE r == [op |-> "delete", comment |-> k]
  <1>1. r \in InFlight \cup {Idle} /\ Goto(c, r) /\ call[c] = Idle
    BY DEF InFlight, Goto, DeleteRead, Begin
  <1>2. call[c].op = "idle" /\ r.op = "delete"
    BY <1>1 DEF Idle
  <1>3. CountersTypeOK
    BY DEF CountersInv
  <1>4. UNCHANGED <<liked, likesCount, parent, created, live, commentCount, missed>>
    BY DEF DeleteRead, likes, comments
  <1>. HIDE DEF r
  <1>5. RepliesAreFresh'
    BY <1>1, <1>2, <1>4, FreshKept
  <1>6. Cardinality(Undiscounted') = Cardinality(Undiscounted)
    BY <1>1, <1>2, <1>3, UndiscountedCounted, CountersFinite DEF ToDiscount
  <1>7. CommentsNotOvercounted'
    BY <1>4, <1>6 DEF CountersInv, CommentsNotOvercounted
  <1>8. /\ parent' \in [Comment -> Comment \cup {TopLevel}]
        /\ created' \in SUBSET Comment /\ live' \in SUBSET created'
        /\ commentCount' \in Nat /\ commentCount' <= Cardinality(created')
    BY <1>3, <1>4, CountersFinite DEF CountersInv, CountersTypeOK
  <1>9. UNCHANGED <<likes, missed>>
    BY <1>4 DEF likes
  <1>. QED BY <1>1, <1>2, <1>5, <1>7, <1>8, <1>9, CommentsStep

LEMMA DeleteOwnedCommentKeeps ==
  ASSUME CountersInv, NEW c \in Call, DeleteOwnedComment(c)
  PROVE  CountersInv'
  <1>. DEFINE k == call[c].comment
              r == IF parent[k] = TopLevel THEN [op |-> "cascade", comment |-> k] ELSE Idle
  <1>1. call[c].op = "delete" /\ r.op \in {"cascade", "idle"}
    BY DEF DeleteOwnedComment, Idle
  <1>2. CountersTypeOK
    BY DEF CountersInv
  <1>3. k \in Comment
    BY <1>1, <1>2 DEF CountersTypeOK, InFlight, Idle
  <1>4. r \in InFlight \cup {Idle} /\ Goto(c, r)
    BY <1>3 DEF DeleteOwnedComment, Finish, InFlight
  <1>5. /\ live' = live \ {k}
        /\ commentCount' = (IF commentCount > 0 THEN commentCount - 1 ELSE 0)
        /\ UNCHANGED <<likes, parent, created, missed>>
    BY DEF DeleteOwnedComment
  <1>6. Cardinality(live') >= Cardinality(live) - 1 /\ Cardinality(live') \in Nat
    <2>1. Cardinality(live') = IF k \in live THEN Cardinality(live) - 1 ELSE Cardinality(live)
      BY <1>2, <1>5, CountersFinite, FS_RemoveElement
    <2>2. IsFiniteSet(live')
      BY <1>2, <1>5, CountersFinite, FS_RemoveElement
    <2>3. Cardinality(live') \in Nat
      BY <2>2, FS_CardinalityType
    <2>. QED BY <1>2, <2>1, <2>3, CountersFinite
  <1>. HIDE DEF r, k
  <1>7. Cardinality(Undiscounted') = Cardinality(Undiscounted)
    BY <1>1, <1>2, <1>4, UndiscountedCounted, CountersFinite DEF ToDiscount
  <1>8. commentCount \in Nat
    BY <1>2, CountersFinite DEF CountersTypeOK
  <1>9. CommentsNotOvercounted' /\ commentCount' <= Cardinality(created') /\ commentCount' \in Nat
    BY <1>2, <1>5, <1>6, <1>7, <1>8, CountersFinite DEF CountersInv, CommentsNotOvercounted
  <1>10. RepliesAreFresh'
    BY <1>1, <1>4, <1>5, FreshKept
  <1>11. /\ parent' \in [Comment -> Comment \cup {TopLevel}]
         /\ created' \in SUBSET Comment /\ live' \in SUBSET created'
    BY <1>2, <1>5 DEF CountersTypeOK
  <1>. QED BY <1>1, <1>4, <1>5, <1>9, <1>10, <1>11, CommentsStep

LEMMA CascadeKeeps ==
  ASSUME CountersInv, NEW c \in Call, CascadeSoftDeleteReplies(c)
  PROVE  CountersInv'
  <1>. DEFINE replies == LiveReplies(call[c].comment)
              n == Cardinality(replies)
              r == IF replies = {} THEN Idle ELSE [op |-> "discount", replies |-> n]
  <1>1. call[c].op = "cascade"
    BY DEF CascadeSoftDeleteReplies
  <1>2. CountersTypeOK
    BY DEF CountersInv
  <1>3. /\ live' = live \ replies
        /\ UNCHANGED <<likes, parent, created, commentCount, missed>>
        /\ Goto(c, r)
    BY DEF CascadeSoftDeleteReplies, Finish
  <1>4. /\ replies \in SUBSET live /\ IsFiniteSet(replies) /\ n \in Nat
        /\ n <= Cardinality(Comment) /\ (n = 0 <=> replies = {})
    <2>1. replies \in SUBSET live /\ replies \in SUBSET Comment
      BY <1>2 DEF LiveReplies, CountersTypeOK
    <2>2. IsFiniteSet(replies) /\ n <= Cardinality(Comment)
      BY <2>1, FS_Subset, CountersAssumption
    <2>3. n \in Nat
      BY <2>2, FS_CardinalityType
    <2>4. n = 0 <=> replies = {}
      BY <2>2, FS_EmptySet
    <2>. QED BY <2>1, <2>2, <2>3, <2>4
  <1>5. Cardinality(live') = Cardinality(live) - n
    <2>1. live \cap replies = replies
      BY <1>4
    <2>. QED BY <1>2, <1>3, <2>1, CountersFinite, FS_Difference
  <1>. HIDE DEF n, replies
  <1>6. r \in InFlight \cup {Idle} /\ r.op \in {"discount", "idle"} /\ ToDiscount(r) = n
    <2>1. CASE replies = {}
      BY <1>4, <2>1 DEF Idle, ToDiscount
    <2>2. CASE replies # {}
      <3>1. n \in 1..Cardinality(Comment)
        BY <1>2, <1>4, <2>2, CountersFinite
      <3>. QED BY <2>2, <3>1 DEF InFlight, ToDiscount
    <2>. QED BY <2>1, <2>2
  <1>. HIDE DEF r
  <1>7. Cardinality(Undiscounted') = Cardinality(Undiscounted) + n
    <2>1. ToDiscount(call[c]) = 0
      BY <1>1 DEF ToDiscount
    <2>. QED BY <1>2, <1>3, <1>4, <1>6, <2>1, UndiscountedCounted, CountersFinite
  <1>8. CommentsNotOvercounted'
    BY <1>2, <1>3, <1>4, <1>5, <1>7, CountersFinite DEF CountersInv, CommentsNotOvercounted
  <1>9. RepliesAreFresh'
    BY <1>3, <1>6, FreshKept
  <1>10. /\ parent' \in [Comment -> Comment \cup {TopLevel}]
         /\ created' \in SUBSET Comment /\ live' \in SUBSET created'
         /\ commentCount' \in Nat /\ commentCount' <= Cardinality(created')
    BY <1>2, <1>3, CountersFinite DEF CountersInv, CountersTypeOK
  <1>. QED BY <1>1, <1>3, <1>6, <1>8, <1>9, <1>10, CommentsStep

LEMMA DecCommentCountKeeps ==
  ASSUME CountersInv, NEW c \in Call, DecCommentCountBy(c)
  PROVE  CountersInv'
  <1>. DEFINE n == call[c].replies
  <1>1. Goto(c, Idle) /\ Idle.op = "idle" /\ call[c].op = "discount"
    BY DEF DecCommentCountBy, Finish, Idle
  <1>2. CountersTypeOK
    BY DEF CountersInv
  <1>3. n \in Nat
    <2>1. \A q \in InFlight : q.op = "discount" => q.replies \in 1..Cardinality(Comment)
      BY DEF InFlight
    <2>. QED BY <1>1, <1>2, <2>1, CountersFinite DEF CountersTypeOK, Idle
  <1>4. /\ commentCount' = (IF commentCount > 1 + n THEN commentCount - (1 + n) ELSE 0)
        /\ UNCHANGED <<likes, parent, created, live, missed>>
    BY DEF DecCommentCountBy
  <1>5. Cardinality(Undiscounted') = Cardinality(Undiscounted) - n
    <2>1. ToDiscount(call[c]) = n /\ ToDiscount(Idle) = 0
      BY <1>1 DEF ToDiscount
    <2>. QED BY <1>1, <1>2, <1>3, <2>1, UndiscountedCounted, CountersFinite
  <1>. HIDE DEF n
  <1>6. commentCount \in Nat
    BY <1>2, CountersFinite DEF CountersTypeOK
  <1>7. Cardinality(Undiscounted') \in Nat
    <2>1. CountersTypeOK'
      <3>1. commentCount' \in 0..Cardinality(Comment)
        BY <1>2, <1>3, <1>4, CountersFinite DEF CountersTypeOK
      <3>. QED BY <1>1, <1>2, <1>4, <3>1, CallTyped DEF CountersTypeOK, likes
    <2>2. Undiscounted' \in SUBSET (Call \X (1..Cardinality(Comment)))
      BY DEF Undiscounted
    <2>3. IsFiniteSet(Call \X (1..Cardinality(Comment)))
      <3>1. Cardinality(Comment) \in Nat
        BY <1>2, CountersFinite
      <3>2. IsFiniteSet(1..Cardinality(Comment))
        BY <3>1, FS_Interval
      <3>. QED BY <3>2, FS_Product, CountersAssumption
    <2>4. IsFiniteSet(Undiscounted')
      BY <2>2, <2>3, FS_Subset
    <2>. QED BY <2>4, FS_CardinalityType
  <1>8. CommentsNotOvercounted' /\ commentCount' <= Cardinality(created') /\ commentCount' \in Nat
    BY <1>2, <1>3, <1>4, <1>5, <1>6, <1>7, CountersFinite DEF CountersInv, CommentsNotOvercounted
  <1>9. RepliesAreFresh'
    BY <1>1, <1>4, FreshKept
  <1>10. /\ parent' \in [Comment -> Comment \cup {TopLevel}]
         /\ created' \in SUBSET Comment /\ live' \in SUBSET created'
    BY <1>2, <1>4 DEF CountersTypeOK
  <1>. QED BY <1>1, <1>4, <1>8, <1>9, <1>10, CommentsStep

-----------------------------------------------------------------------------
(* Failures                                                                *)

\* A handler that stops owing nothing changes neither count.
LEMMA CountFailsKeeps ==
  ASSUME CountersInv, NEW c \in Call, CountFails(c)
  PROVE  CountersInv'
  <1>1. /\ Goto(c, Idle) /\ Idle.op = "idle"
        /\ call[c].op \in {"increment", "decrement", "discount"}
    BY DEF CountFails, Finish, Idle, Counter
  <1>2. CountersTypeOK
    BY DEF CountersInv
  <1>3. /\ missed' = missed \cup Counter(call[c])
        /\ UNCHANGED <<liked, likesCount, parent, created, live, commentCount>>
    BY DEF CountFails, likes, comments
  <1>4. Counter(call[c]) = IF call[c].op = "discount" THEN {"comments"} ELSE {"likes"}
    BY <1>1 DEF Counter
  <1>5. LikesBounded'
    <2>1. /\ Cardinality(About("insert_like")') = Cardinality(About("insert_like"))
          /\ Cardinality(About("increment")') <= Cardinality(About("increment"))
          /\ Cardinality(About("increment")') \in Int
      BY <1>1, <1>2, AboutCounted, CountersFinite
    <2>. QED BY <1>2, <1>3, <2>1, CountersFinite, CountersAssumption
             DEF CountersInv, LikesBounded, CountersTypeOK
  <1>6. LikesNotUndercounted'
    <2>1. CASE call[c].op = "discount"
      <3>1. /\ Cardinality(About("increment")') = Cardinality(About("increment"))
            /\ Cardinality(About("decrement")') = Cardinality(About("decrement"))
        BY <1>1, <1>2, <2>1, AboutCounted, CountersFinite
      <3>. QED BY <1>3, <1>4, <2>1, <3>1 DEF CountersInv, LikesNotUndercounted
    <2>2. CASE call[c].op # "discount"
      BY <1>3, <1>4, <2>2 DEF LikesNotUndercounted
    <2>. QED BY <2>1, <2>2
  <1>7. CommentsNotOvercounted'
    <2>1. CASE call[c].op = "discount"
      BY <1>3, <1>4, <2>1 DEF CommentsNotOvercounted
    <2>2. CASE call[c].op # "discount"
      <3>1. Cardinality(Undiscounted') = Cardinality(Undiscounted)
        BY <1>1, <1>2, <2>2, UndiscountedCounted, CountersFinite DEF ToDiscount
      <3>. QED BY <1>3, <3>1 DEF CountersInv, CommentsNotOvercounted
    <2>. QED BY <2>1, <2>2
  <1>8. RepliesAreFresh'
    BY <1>1, <1>3, FreshKept
  <1>9. CountersTypeOK'
    BY <1>1, <1>2, <1>3, <1>4, CallTyped DEF CountersTypeOK
  <1>. QED BY <1>3, <1>5, <1>6, <1>7, <1>8, <1>9 DEF CountersInv

\* A restart drops every handler: if none owed a statement of a counter there is
\* nothing to make up for it, and otherwise the counter is known to have missed one.
LEMMA RestartKeeps ==
  ASSUME CountersInv, Restart
  PROVE  CountersInv'
  <1>1. CountersTypeOK
    BY DEF CountersInv
  <1>2. /\ call' = [d \in Call |-> Idle]
        /\ missed' = missed \cup UNION {Counter(call[d]) : d \in Call}
        /\ UNCHANGED <<liked, likesCount, parent, created, live, commentCount>>
    BY DEF Restart, likes, comments
  <1>3. \A op : op # "idle" => About(op)' = {}
    BY <1>2 DEF About, Idle
  <1>4. Undiscounted' = {}
    BY <1>2 DEF Undiscounted, Idle
  <1>5. Cardinality({}) = 0
    BY FS_EmptySet
  <1>6. \A d \in Call : Counter(call[d]) \subseteq missed'
    BY <1>2
  <1>7. LikesBounded'
    <2>1. About("insert_like")' = {} /\ About("increment")' = {}
      BY <1>3
    <2>2. /\ Cardinality(Call) \in Nat
          /\ likesCount' \in 0..(MaxLikes + Cardinality(Call))
      BY <1>1, <1>2, CountersFinite DEF CountersTypeOK
    <2>3. /\ Cardinality(About("insert_like")') = 0
          /\ Cardinality(About("increment")') = 0
      BY <1>5, <2>1
    <2>. QED BY <2>2, <2>3, CountersAssumption DEF LikesBounded
  <1>8. LikesNotUndercounted'
    <2>1. SUFFICES ASSUME "likes" \notin missed'
                   PROVE  LikesNotUndercounted'
      BY DEF LikesNotUndercounted
    <2>2. \A d \in Call : call[d].op \notin {"increment", "decrement"}
      BY <1>6, <2>1 DEF Counter
    <2>3. About("increment") = {} /\ About("decrement") = {}
      BY <2>2 DEF About
    <2>4. About("increment")' = {} /\ About("decrement")' = {}
      BY <1>3
    <2>5. "likes" \notin missed
      BY <1>2, <2>1
    <2>. QED BY <1>2, <2>3, <2>4, <2>5 DEF CountersInv, LikesNotUndercounted
  <1>9. CommentsNotOvercounted'
    <2>1. SUFFICES ASSUME "comments" \notin missed'
                   PROVE  CommentsNotOvercounted'
      BY DEF CommentsNotOvercounted
    <2>2. \A d \in Call : call[d].op # "discount"
      BY <1>6, <2>1 DEF Counter
    <2>3. Undiscounted = {}
      BY <2>2 DEF Undiscounted
    <2>4. "comments" \notin missed
      BY <1>2, <2>1
    <2>. QED BY <1>2, <1>4, <2>3, <2>4 DEF CountersInv, CommentsNotOvercounted
  <1>10. RepliesAreFresh'
    <2>1. About("insert_reply")' = {}
      BY <1>3
    <2>. QED BY <2>1 DEF RepliesAreFresh
  <1>11. missed' \subseteq {"likes", "comments"}
    <2>1. \A d \in Call : Counter(call[d]) \subseteq {"likes", "comments"}
      BY DEF Counter
    <2>. QED BY <1>1, <1>2, <2>1 DEF CountersTypeOK
  <1>12. CountersTypeOK'
    BY <1>1, <1>2, <1>11 DEF CountersTypeOK
  <1>. QED BY <1>2, <1>7, <1>8, <1>9, <1>10, <1>12 DEF CountersInv

LEMMA CountersStepKeeps == CountersInv /\ [CountersNext]_counterVars => CountersInv'
  <1>. SUFFICES ASSUME CountersInv, [CountersNext]_counterVars
                PROVE  CountersInv'
    OBVIOUS
  <1>1. CASE CountersNext
    BY <1>1, LikeReadKeeps, UnlikePostKeeps, LikeInsertKeeps, IncLikesCountKeeps,
       DecLikesCountKeeps, CreateCommentKeeps, ReplyReadKeeps, ReplyInsertKeeps,
       DeleteReadKeeps, DeleteOwnedCommentKeeps, CascadeKeeps, DecCommentCountKeeps,
       CountFailsKeeps, RestartKeeps DEF CountersNext
  <1>2. CASE UNCHANGED counterVars
    BY <1>2 DEF counterVars, likes, comments, CountersInv, CountersTypeOK, LikesBounded,
       RepliesAreFresh, LikesNotUndercounted, CommentsNotOvercounted, About, Undiscounted
  <1>. QED BY <1>1, <1>2

-----------------------------------------------------------------------------
(* Theorems about the counters                                             *)

\* CountersInv holds always.
THEOREM CountersInvariance == CountersSpec => []CountersInv
  <1>1. CountersInit => CountersInv
    BY CountersInitially
  <1>2. CountersInv /\ [CountersNext]_counterVars => CountersInv'
    BY CountersStepKeeps
  <1>. QED BY <1>1, <1>2, PTL DEF CountersSpec

\* The row of a post and its handlers keep their types; in particular comment_count
\* never exceeds the comments there are, although its UPDATEs have no upper bound.
THEOREM CountersTypeCorrect == CountersSpec => []CountersTypeOK
  <1>1. CountersInv => CountersTypeOK
    BY DEF CountersInv
  <1>. QED BY <1>1, CountersInvariance, PTL

\* With the increments under way likes_count covers the rows of post_likes and the
\* decrements under way, whichever order likes and unlikes run in, as long as no
\* handler has lost the statement that moves the counter.
THEOREM LikesAreCounted == CountersSpec => []LikesNotUndercounted
  <1>1. CountersInv => LikesNotUndercounted
    BY DEF CountersInv
  <1>. QED BY <1>1, CountersInvariance, PTL

\* comment_count exceeds the comments of the post by no more than the replies that
\* a cascade has deleted and not taken off yet, however deletions and replies overlap.
THEOREM DeletedAreDiscounted == CountersSpec => []CommentsNotOvercounted
  <1>1. CountersInv => CommentsNotOvercounted
    BY DEF CountersInv
  <1>. QED BY <1>1, CountersInvariance, PTL
=============================================================================
