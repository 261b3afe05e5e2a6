# CampusHelper-Backend in TLA+

This directory holds a verification project for the Go backend of CampusHelper: a
set of gRPC services (task, content, message, user, file, AI moderation) behind an
HTTP gateway, over MySQL, Redis, RabbitMQ, Elasticsearch, MinIO and etcd. The modules
model the parts of the code that change state under concurrency and failure; TLC
checks them on small instances, and TLAPS proves the properties that matter most for
every value of the constants.

Paths below are relative to the repository root.

## 1. Inventory

| Component | State it keeps | Operations | Talks to | What makes it correct |
|---|---|---|---|---|
| Task service `cmd/task` | `tasks` rows, Redis entries | CreateTask, ClaimTask, CompleteTask, CancelTask, UpdateTask, DeleteTask, GetTask, ListTasks, the expiry loop | MySQL, Redis, `task.events` (no consumer) | claimant and status agree whatever races; the status machine; a copy never shows contacts to a stranger; a due task leaves `open` |
| Content service, posts `cmd/content` | `posts` rows | CreatePost (with AI moderation), Approve/Reject/TakedownPost, MarkRetrieved/MarkSold, UpdatePost, RenewPost, DeletePost, GetPost | MySQL, Redis, `content.events`, `notification.events`, AI moderation | the status machine; what is derived from a row (document, copy, notification) is late but never wrong |
| Likes and comments `cmd/content` | `post_likes`, `post_comments`, `likes_count`, `comment_count` | LikePost, UnlikePost, CreateComment, DeleteComment with its cascade | MySQL | the counters agree with the rows they count |
| ES-Sync `cmd/content/service/es_sync.go` | Elasticsearch documents | handlePublished, handleTakenDown | `content.events`, MySQL, Elasticsearch | a takedown reaches the index; a published post gets into it |
| Post cache `cmd/content/database/post_cache.go`, `pkg/cache` | Redis entries, singleflight calls | AsideGet, Delete, TTL | Redis, MySQL | an entry is never ahead of its row |
| Listings by cursor, in the repositories of all four databases | a cursor the client hands back | ListPosts, ListComments and replies, ListNotifications, ListTasks, SearchUsers, audit logs | MySQL | no row twice, none missed, although the table changes between two pages |
| Asynchronous AI review `cmd/content/service/async_*.go`, `taken_down_finalizer.go` | `ai.moderation.async_review`, post status, `ai_audit_logs` | PublishAsyncReviewEvent, the review, the scheduler's scan, the final takedown | AI client, queues | a review acts on the post as it is, not as it was when the model was asked; a grace period before the final takedown |
| Message queue `pkg/mq` | channels of publisher and consumer, the queue | Publish, Start, reconnect, handleMessage, Stop | RabbitMQ | an accepted event is handled at least once, in the end |
| Message service `cmd/message` | `notifications` | event handlers, List, UnreadCount, MarkRead, MarkAllRead, Delete, clean-up | `notification.events`, MySQL | an event becomes a notification, and more than one only if an answer was lost |
| User service `cmd/user` | `users`, audit rows, Redis entries, JWTs | WxLogin, RefreshToken, BindCampus, Ban/Unban, SetUserRole | MySQL, Redis, WeChat | a ban or a role change takes effect although tokens carry a copy |
| File service `cmd/file` | `files` rows, MinIO objects | Upload, GetFile, DeleteFile, clean-up | MySQL, MinIO | an URL that was handed out serves; what was deleted makes room in the end |
| AI moderation `cmd/ai-moderation`, `internal/ai_moderation` | loader, model, vocabulary | ModerateText, ModerateBatch, degrade, recover | model | degradation is entered and left; an answer says whether the model gave it |
| AI client `pkg/aiclient` | circuit breaker | ModerateText | AI moderation | open, half-open and closed follow the failures of the present generation |
| Gateway `cmd/gateway` | token buckets | rate limit, authentication, routes, handlers | all services | limits hold per client; a service is called for the entitled only; a refusal is not told as success |
| Discovery `pkg/discovery` | leases and keys in etcd | Register, keep-alive, cleanup, resolve | etcd | a running service is found, one that is gone is not |
| Snowflake `pkg/snowflake` | last time, sequence | NextID | clock | ids grow |
| Sensitive words `pkg/sensitive` | a trie, built once | Build, Match | | the hits are the occurrences |
| Infrastructure, generated code | pools, tables | lookups | | no protocol of their own |

Interactions. A handler of the content service commits its UPDATE, then starts
publishing to `content.events` (read by ES-Sync, in the same process) and
`notification.events` (read by the message service), or drops the Redis entry. None
of these is atomic with the UPDATE, every one may fail without the caller being told,
and the publisher's order is the order in which goroutines reach the broker, not the
order of the UPDATEs.

Hard behaviours, all of them modelled where the component is:
reads without a lock followed by UPDATEs that may or may not repeat what was checked;
events overtaking each other, delivered twice or put back behind later ones; copies
filled from a read that is older than an invalidation; a process dying between two
statements or between an UPDATE and its event; connections that break while a handler
runs; retries that never end. `PROJECT.json` lists them one by one, at their lines,
under `hazards`.

## 2. Modules

| Module | Models | State → code |
|---|---|---|
| `TaskContract` | what the task service promises: claims and statuses, no handlers | abstract |
| `TaskService` | `cmd/task` whole: handlers split at their statements, the expiry loop, the Redis copy, process deaths | `status`, `owner`, `claimant`, `deleted`, `due` are columns of `tasks`; `cache` the Redis entry; `load` the singleflight call; `call[c]` how far an RPC has got |
| `PostContract` | what posts and search promise: the status machine, a document that lags | abstract |
| `ContentPosts` | the handlers of posts, and the effects each still owes after its UPDATE | `status`, `deleted` are columns of `posts`; `call[c]` the sequence of effects a handler still has to bring about; `lost` posts with a dropped effect |
| `SearchIndex` | `ContentPosts` composed with `content.events` and ES-Sync | `contentEvents` the queue; `reading` what handlePublished holds between MySQL and Elasticsearch; `subscribed` whether deliveries arrive; `doc` the documents |
| `PostCache` | `SearchIndex` composed with the Redis copies | `cache`, `load` |
| `PostCounters` | likes, comments and the two counters of a post | `liked`, `live`, `parent` are rows; `likesCount`, `commentCount` columns; `missed` counters for which a statement never ran |
| `MessageQueue` | `pkg/mq`: Publisher, queue, Consumer with every error path | `publisher`, `channel` the channel fields (`nil`, open, broken); `pc` where Start is; `msgs` the deliveries it ranges over; `stop` how far Stop has got |
| `Paging` | the listings of posts, comments, notifications and tasks, page by page | `table` the rows, `listed` those that pass the filter; `cursor` what the client hands back; `owed`, `shown`, `twice` are history, for the properties |
| `Accounts` | the user service: login, refresh, binding, bans, roles, with tokens, Redis copies and the audit log | `row` the `users` table; `cache` the Redis entry; `access` the tokens that have not expired; `call[c]` how far an RPC has got, with the row it has read (`copy`) and whether the row has changed since (`stale`, history); `logged` the entries of `admin_audit_logs` |
| `Snowflake` | the generator of ids, with the wall clock | `lastTime`, `sequence` its fields; `spinning` a call that waits for the next millisecond; `latest` (history) the last id of this life |
| `Notifications` | the message service: handlers, the receiver's calls, the clean-up, over `Snowflake` | `queue`, `holding`, `written` the consumer; `table` the rows; `told`, `unanswered` history |
| `Files` | the file service: rows and objects | `row` the row of a content; `objects` what MinIO has; `call[c]` how far an upload has got; `promised` (history) the URLs students hold |
| `FallbackLoader` | the loader of the moderation service: model, mock, recovery check | `degraded`, `once` its fields; `watching` the goroutine; `sick` the model |
| `Breaker` | the circuit breaker of the AI client (gobreaker, as `circuit.go` configures it) | `breaker`, `failures` the state; `flight` the generation of each call |
| `Moderation` | `FallbackLoader` and `Breaker` composed with CreatePost's question, the asynchronous review and the finalizer | `client[c]`, `server[c]` how far a call has got on either side; `queue` the messages; `basis`, `moderated` (history) the answer a post starts from, and the posts a moderator has decided about |
| `RateLimit` | the token buckets and their sweep, with both mutexes | `table` the map; `holder` who has a bucket's mutex; `sweeping`, `todo`, `doomed` the sweep; `hand` the bucket a request has got; `meter` (history) what was let in |
| `Routes` | routes, middlewares, handlers' checks, error codes: operators without state | |
| `Gateway` | `RateLimit` and `Routes` composed: a request from its arrival to its answer | `req[r]` |
| `Discovery` | one address of one service in etcd and the processes that come and go there | `lease`, `alive`, `key` what etcd has; `at[p]` how far a main has got; `seen` what the gateway's resolver knows |
| `SensitiveWords`, `Tokenizer` | the trie and the WordPiece tokenizer: operators without state, the loops of the code as recursive functions | a trie is the sequence of its nodes, in the order they are made; a token is the runes it is written with, so that a text may spell a mark of the frame |
| `Screening` | what becomes of the text of a post, over the two | `words` the list, `dfaMatcher`, `vocab`; `request` the text under way |
| `TaskServiceProofs`, `AccountsProofs`, `FilesProofs` | theorems about the modules they are named after | |
| `SearchIndexProofs` | theorems about `SearchIndex`, its refinement of `PostContract`, and `PostCache` | |
| `PagingProofs` | theorems about `Paging` and `PostCounters` | |
| `NotificationsProofs` | theorems about `Notifications`, `Snowflake` and `MessageQueue` | |
| `ModerationProofs` | theorems about `Moderation`, its refinement of `PostContract`, and `Screening` | |
| `GatewayProofs` | theorems about `Gateway` and `Discovery` | |
| `MC...` | the instances TLC checks, one for each run | |

How a handler becomes actions. MySQL runs one statement at a time on a row, Redis one
command at a time, and every RPC has a goroutine of its own. A handler is therefore
one action per statement or command that another actor can observe or disturb; checks
and computations between two statements belong to the action of the first. Where the
second statement repeats everything the first one checked (`UpdateReview`,
`transitionStatus`), the second decides alone and the handler is one action up to
it. A gorm transaction does not join a read and an update: the reads take no lock and
InnoDB's UPDATE sees what is committed.

Where the data is abstracted: titles, contents, contacts, prices and reviewers are not
in the state; an answer of the AI moderation is one of four verdicts; an event is its
type and its post; a time is whether it has passed (`due`).

`Paging` has one variable for four listings: `listing` is chosen at the start, and the
order and the filter of the cursor depend on it. Users and audit logs are read as posts
are, replies as comments. Ids and creation times are given out by the program before
the INSERT, so that rows become visible in any order of either.

`PostCounters` leaves the Redis entry and the event of LikePost out: that an entry is
dropped at any time is an action of `PostCache` anyway (CacheExpire), ES-Sync ignores
`content.liked`, and the message service only logs it (Skip in `Notifications`).

In `Notifications` an id is a time and a sequence number, which compare as the packed
bits do. A second life of a process may issue an id that the table has already; the
primary key refuses the row, and the event is put back. An event is handled whole
between two statements: it has one INSERT. That fails without a row (CreateFails), or with
one whose answer is lost on the way (CreateUnanswered): the handler cannot tell, and the
event is put back either way.

In `Files` the clock counts months, as the storage key does. A content is what its sha256
says; two students may upload the same one at the same time, under two categories and so
under two keys.

`Moderation` has both sides of a call: the caller may give up (TimesOut) while the
service goes on, and its late answer is for nobody. Probabilities are tenths. What
moderators and authors do to a post meanwhile is one action each (ModeratorDecides,
OthersClose, Withdraw), since `ContentPosts` has their handlers. A post keeps the text it
was submitted with: UpdatePost writes another one without asking anybody, and
`ModelHasItsSay` is about the submitted one. ModerateBatch has no caller in the repository;
it is an RPC that anyone may call, and its texts are judged one after the other.

In `Gateway` tokens of a bucket are whole and are refilled when the time passes, not at
the next lock; no request takes ten minutes; and in ten minutes a bucket fills up (the
configuration has a rate of 100 and a burst of 200). A call of a service ends: it has no
deadline, but its client gives up or its connection breaks.

`Screening` builds the trie in Init, as newDFAMatcher does; nothing reloads it. Of the
marks of the frame only `[CLS]` is looked for when `vocab.txt` is read: a vocabulary without
another one would give it the id 0, which is the id of some other token. The module assumes
that all four are there (`ScreeningAssumption`), and a token stands for its id.

In `Accounts` a call of BanUser is checked against the token it was made with, which
carries the role and the school its owner had when it was signed. A refresh token names
its user only, is not replaced when it is used (TC-F-004 of the test cases would have a
new one) and lives longer than an access token: every user who has a row may present
one. `Boss` stands for a super administrator, made so in the database, whose own account
no handler of the module touches. An entry of the audit log whose INSERT fails, or that a
dying process never writes, counts in `logged`: the code drops that error on purpose, and
`AuditTrail` asks that nothing else loses an entry.

Two modules share a part of the system on purpose. `MessageQueue` has every step of
the consumer, with abstract events; `SearchIndex` has the handlers, with the consumer
reduced to what `MessageQueue` shows of it: one message at a time, acknowledged or
put back when its handler returns, and no subscription after a lost connection until
the process starts anew.

Assumed throughout: one instance of each service (two would only add calls); MySQL,
Redis and the durable queue survive the death of a process; the school id and the
identity of the caller are checked by the gateway and fixed for a call.

## 3. Runs

| Run | Instance | What it shows |
|---|---|---|
| `task` | 1 task, 3 students, 2 calls | claims, late cancels and stale copies stay right; the handlers implement `TaskContract`; a due task leaves `open` |
| `content` | 1 post, 3 calls | rows follow the state machine, searches and copies are late but never ahead, a takedown reaches every search and, with fairness, so does a publication |
| `counters` | 2 students, 3 comments, 2 calls | `likes_count` is never too low, `comment_count` never too high |
| `queue` | 3 events: handled, foreign, poison | an accepted event is not lost and is handled while the subscription lasts |
| `paging` | 3 rows, pages of 1 | no row comes twice, posts and comments miss none, notifications only some of a second that a page ends in; reading ends |
| `accounts` | 1 user, 1 school, 2 calls | whoever is banned when a login or a refresh begins gets no token; bans and promotions are in the audit log; tokens and the Redis copy agree with the row in the end |
| `notifications` | 3 events, 1 receiver, 3 milliseconds of 2 ids each, a clock set back once | no event is forgotten although processes die of the clock; a second notification comes of a lost answer only, the database's to the INSERT or the consumer's to the broker; the ids of one life grow; who is to be told is told |
| `files` | 1 content, 2 students, 2 categories, 2 uploads, 3 months | an URL that was answered serves its content for ever; nobody but its owner changes a live row; a deleted content can be uploaded again |
| `moderation` | 3 texts, 2 of them submitted, 2 calls, a breaker that opens after 2 failures | a post whose author was not told of a fallback starts from the model's verdict, and a doubtful one waits for a moderator; posts follow `PostContract`; a model that stays healthy serves again |
| `gateway` | 2 requests of 1 address, 3 buckets, a burst of 1, one operation of each kind, 5 tokens | the burst is kept but for a request the sweep overtakes; services are called for the entitled only; 200 is told exactly when the service answered success; every request ends |
| `discovery` | 3 processes, 4 leases, 1 address, 3 kinds of main | a stop takes no successor off the list, in the mains that stop in order; an address nobody is bound to goes from the gateway |
| `screening` | texts of up to 4 runes of 5 kinds, and of up to 3 with carriage returns, lists of up to 2 of 8 words, 3 vocabularies, inputs of 5 tokens | hits are exactly the occurrences; the model's input is framed and spells the text |

Each passing property has a mutant, or two, in `PROJECT.json`: a definition of the model
changed the way a plausible bug would change the code, under which TLC finds the
property violated.

Bounds, and why they are enough.
- One task or post: no statement but the expiry scan touches two rows, and the scan
  treats every row alike; the proofs of `TaskService` and `SearchIndex` have no bound.
- Two or three calls: every race in the code is between a handler that has read and
  one that writes; the third call of `content` lets a review overtake the events of
  another handler while a third one writes.
- Three students: the publisher, the claimant and one who comes too late.
- Three comments: a comment with two replies, the smallest case in which the discount
  of a cascade is more than one reply.
- `MaxLikes` = 2 stops likes from starting while `likes_count` is at the bound:
  an unlike whose decrement ran at zero leaves the count too high, and again for every
  such race, so that without a bound it grows for ever. Every combination of racing
  likes and unlikes of the two calls lies below it.
- One event of each kind in `queue`: an event is published once, and redelivery comes
  from lost acknowledgements and failing handlers, not from the publisher.
- One user in `accounts`: no handler touches two accounts, except through the token of
  the caller, and that user may be an admin with a stale token acting on the own account.
  The proofs have no bound on users, schools or calls.
- `notifications`: a liked event nobody is told of and two that have a receiver, so that
  one may be put back behind the other; `MaxSequence` = 1 uses a millisecond up with two
  ids; `MaxClock` = 2 leaves room for a clock that goes back by one and for one that is
  too early for a process's last id; `MaxRows` = 2 bounds duplicates, which come of lost
  answers without limit. `ReceiversAreTold` excuses a full table, a broken
  subscription, and an id that is late when the clock has come to its end.
- `files`: two uploads of the same content by two students under two categories are every
  race there is; `MaxMonth` = 2 with `Retention` = 1 has a row that is too young for the
  clean-up and one that is old enough.
- `moderation`: a text of each verdict, `MaxPosts` = 2 of which are submitted, in every
  combination; `Trip` = 2 instead of 5
  makes the breaker open with two calls, so that one of an earlier generation is still
  under way; `ScanFinds` has the one text whose review does anything, the blocked one,
  although the scans in the repository return none. The proofs have no bound.
- `gateway`: two requests of one address are what a mutex keeps apart; the third bucket
  is the one made after the sweep while both others are still held.
- `discovery`: a process, its successor at the same address, and the successor of that
  one, which is the victim of the first one's late deletion; a lease for each and one
  that outlives its process.
- `screening`: the texts of up to four runes over two alphabets of five, one of words,
  spaces and runes that are dropped, one that spells marks and suffixes, and texts of up to
  three runes with carriage returns, which are both spaces and runes that are dropped: the tokenizer drops
  them wherever they are; four runes are a
  word, its prefix, its suffix and one rune more, or a mark of two runes and two words. The
  words include each other and overlap; five tokens leave three for the text. The proofs
  have no bound.
- `MaxId` = 3 rows and pages of one in `paging`: a page boundary needs a row before it
  and one after it, and a third to be inserted, removed or put back meanwhile.
  `MaxTime` = 2 with `PerSecond` = 2 makes two seconds, the first with two times in it,
  which is what the truncated cursor cannot tell apart. `Deadline` = {1, 2} orders
  tasks by deadline against their times of creation.

Deadlock is checked except in the run of `MessageQueue`, where a consumer that has
returned, or has panicked, with every event published is done.

Fairness, and what in the code justifies it.
- `task`: weak fairness of the expiry scan. `startExpiryLoop` runs it at start and
  then at every tick.
- `content`: weak fairness of a handler's next effect (a goroutine runs on, or its
  process dies, which drops the effect); strong fairness of each successful step of
  ES-Sync, per post, while the consumer is subscribed: RabbitMQ delivers a message that
  was put back again and again, and a database or an index that is tried for ever
  answers in the end. The liveness property excuses a lost connection, a dropped event
  and a post that has moved on.
- `paging`: weak fairness of NextPage, the client asking for the next page while it is
  told that there is one; nothing of the rows. Comments are left out of `ReadingEnds`:
  they are read towards the newer ones, which may keep coming.
- `accounts`: weak fairness of a call's next step (its goroutine runs on), of the expiry of
  each access token (`AccessExpireH`) and of each Redis entry (`userCacheTTL`).
- `notifications`: strong fairness of the delivery and of a successful INSERT of each
  event with a receiver (RabbitMQ delivers again and again what is put back, and a
  database that is tried for ever answers in the end); weak fairness of a handler's next
  step; of the clock only that it leaves a time at which the next id is late.
- `files`: weak fairness of the clean-up, which runs at start and every 24 hours, and of
  the clock. Nothing of the students.
- `moderation`: weak fairness of Recover, which the ticker of recoveryCheck tries again
  and again; nothing of the model, whose lasting health is the premise of the property.
- `gateway`: weak fairness of a goroutine's next step and of the end of a call; strong
  fairness of the locks (a Go mutex hands itself over to a waiter that has been starving
  for a millisecond).
- `discovery`: weak fairness of etcd's end of a lease nobody keeps alive, and of its
  watches. Nothing of the processes: none has to be started again or to stop in time.
- `queue`: strong fairness of Connect, of Consume on an open channel
  and of a handler's success for each event that can be handled; weak fairness of the
  other steps of Start. Nothing is assumed of the publisher, of Stop, or of breaking
  connections.

## 4. Where the code does other than it says

`PROJECT.json` quotes the lines under `findings`. The first seven are stated as properties
in their modules, where a comment says that they do not hold ("Not so"); TLC finds each
of them violated when it is put into the run of its module (`TaskNotTwice` with pages of
two, `Resubscribes` without the deadlock check).

1. CancelTask's UPDATE names the id only, so it may overwrite `completed` or `expired`
   (`FollowsAllowedTransitions`). `TaskContract` is therefore implemented with
   `CancelFrom` the whole set of statuses; with `{"open", "in_progress"}`, the documented
   machine, it is not.
2. A document removed by `content.taken_down` comes back when `content.published` of
   the same post is later in the queue (`TakedownLeavesNoDocument`). What does hold is
   `TakedownReachesSearch`: a search for published posts does not find it.
3. AddLike leaves the primary key at 0, so that only one row fits into the table
   (`LikeTakesEffect`).
4. DeleteComment takes the comment itself off `comment_count` twice (`CommentCountExact`).
5. The consumer's `break` leaves the `select`, not the loop, so that a lost connection
   is never followed by a new subscription (`Resubscribes`).
6. ListTasks orders by `expired_at` and continues at a `created_at`: a task of the first
   page may come again on the second, and others on no page (`TaskNotTwice`).
7. The model's largest probability of any class decides, the harmless class included: a
   text it is sure to be harmless is blocked (`HarmlessIsNotBlocked`).

Others are seen in the definitions themselves:

8. The loader degrades on the first error, whatever MaxConsecutiveErrors says, and only
   once in its life; after a recovery every call asks the failing model first.
9. Services that refuse inside their answer use three-digit codes, which
   `errcode.HTTPStatus` turns into HTTP 500; the test cases expect 404 and 409. A second
   MarkRead of a read notification is refused in this way, too (TC-F-028 expects 200).
10. The clean-up of files goes by `created_at`, not by `deleted_at`; objects are never
    removed from MinIO.
11. A deleted file's row keeps its content from being uploaded, since the unique index
    sees it and the look-up does not.
12. RejectPost and TakedownPost publish to `content.events` only: the author is told of
    neither. The finalizer would publish to `notification.events` only, so that the document of
    the post would stay; its scan is a stub, and so this does not happen yet.

Smaller ones: the error path of the review speaks of a dead-letter queue, and none is
declared (`async_ai_review.go:134`); nothing but the scheduler's stub scan calls
PublishAsyncReviewEvent, so that in this build no post is reviewed again; a task, message
or file service that could not register calls a nil cleanup when it stops
(`cmd/task/main.go:100`); `cmd/ai-moderation` stops its server before it takes itself off
the list, and a process whose lease was lost serves on unlisted: both are premises of
`StaysListed`.

The properties of the runs say what the code does guarantee beside them.

## 5. Proofs

`TaskServiceProofs`, for every set of tasks, students and calls, from the assumption
that `Nobody` (claimant_id 0) is not a student:
- `Invariance`: `Spec => []IInv`, with `IInv` the type invariant, the three safety
  invariants of the run and `InFlightConsistent`. The last is the strengthening: a
  ClaimTask that has read its task may still count on what no step takes away, that
  the task exists and that the caller is not its publisher. Without it, ClaimWrite
  could make a publisher the claimant of a task of their own, since the UPDATE does
  not repeat that check.
- `TypeCorrect`, `ClaimsAreConsistent`, `CancelsAreAuthorised`,
  `CachedClaimantsAreGenuine`: its consequences.
- `ImplementsContract`: every step of the handlers is a step of `TaskContract` or
  leaves its variables alone, under the mapping withdrawn ← deleted.

`SearchIndexProofs`, for every set of posts and calls and a queue of any length, from
no assumption at all:
- `Invariance`: `TypeOK`, `ReadingConsistent` (a consumer that has read a row has a
  `content.published` message in its hands) and `TakedownSettles`. The second half of
  the last is the strengthening: `TakedownReachesSearch` says nothing of a consumer
  that read the row before the takedown and indexes it long after. `Settled` does, and
  it is kept because the message in the consumer's hands is not the one that deletes
  the document: while it holds a published row, `content.taken_down` is still behind it.
- `TypeCorrect`, `TakedownsReachSearch`: its consequences.
- `ImplementsContract`: every step of `SearchIndex` is a step of `PostContract` or leaves its
  variables alone. `ContractInv` is what that takes: an event that is queued, or still owed
  by a handler, says what stays true of its row (`EventsWarranted`), and a document, or the
  row the consumer has read, is of a post that is published or was, never ahead of it.
- `CacheChangesNothing`: a step of `PostCache` is one of `SearchIndex` or leaves its variables
  alone, so that all of the above holds with the cache, too. `CacheInvariance`
  and `CacheNeverAhead`: a copy in Redis, and the row a loader is about to put there, are
  never ahead of the row (`LoadsAreRows` is the strengthening).
- Lemmas on queues: an element is in `Append(q, e)` or in `q` as one expects, and
  putting the head back loses nothing (`InRequeue`).

`PagingProofs`, for any number of rows, any clock and any page size but 0
(`PagingAssumption`: a page size below 1 is replaced by 20 in the code):
- `Invariance`: the type invariant, `UniqueIds`, `ShownIsPast` and `OwedAreAccounted`.
  The properties of the run speak of the last page; the strengthening says where each
  row stands before it: a row that was shown is never beyond the cursor, and a row
  owed to the client is shown, or beyond the cursor, or hidden by the truncation.
- `PagesAreDisjoint`, `PagesAreComplete`, `SkipsAreWithinSecond`: its consequences.
- Lemmas on the cursor: it only moves on (`CursorMovesOn`), it leaves the page behind
  (`CursorHidesPage`) and hides nothing else but by truncation (`CursorKeepsRest`),
  which rests on the arithmetic of whole seconds (`OtherSecond`).

And for any finite sets of students, comments and calls (`CountersAssumption`: a server has
no other):
- `CountersInvariance`: the type invariant, the two invariants of the run, and what keeps
  them: the id of a reply under way is that of no comment and no other call
  (`RepliesAreFresh`), likes under way were let in below the bound (`LikesBounded`), and
  `comment_count` is at most the number of comments ever inserted. The argument counts:
  a statement of a call moves one comment or one student from one finite set to another,
  and the cardinalities on both sides of the inequality change together.
- `CountersTypeCorrect`, `LikesAreCounted`, `DeletedAreDiscounted`: its consequences.

`AccountsProofs`, for any number of users, schools and calls, from `AccountsAssumption`
(there is a user, `Boss` is not one of them, and 0 is not a school):
- `Invariance`: `TypeOK`, `RowsExist`, `LoginsFresh` and `AuditTrail`. `RowsExist` says
  that accounts are never deleted: whoever has a token, or is being read or changed, has
  a row; without it an UPDATE by id might make one up. `LoginsFresh` adds to
  `LoginsRespectBans` that the row read is there.
- `TypeCorrect`, `BannedGetNoToken`, `ChangesAreAudited`: its consequences.
- The steps fall into those that write a row (`WritesHow`) and those that do not
  (`QuietMoves`); each safety property is argued once for each of the two kinds.

`NotificationsProofs`, for any events, users, schools, clock and sequence, from
`SnowflakeAssumption` and `NotificationsAssumption`:
- `Invariance`: `TypeOK`, `LatestIsRemembered` (the generator has not forgotten the last
  id of its life: without it ids could repeat), `ToldAgain` (an event that is told and is
  still in the queue, or in a handler's hands, has lost an answer), and the two
  invariants of the run, which `ToldAgain` makes inductive.
- `TypeCorrect`, `NoEventIsForgotten`, `DuplicatesComeFromLostAnswers`; `IdsGrowInALife`,
  an action property that follows from `LatestIsRemembered` in every step.

And for any set of messages (`QueueAssumption` says only that foreign and poisonous ones are
messages):
- `QueueInvariance`: `QueueTypeOK`, `HandlingHead` (there is a message at the head while one
  is handled), `QueueIntegrity` (what is queued or was handled had been sent, and nothing is
  in the queue twice) and `AcceptedNotLost`. Without `QueueIntegrity` a message that is
  acknowledged might be another than the one that was handled.
- `AcceptedAreNotLost`, `QueueIsSound`: its consequences.

`FilesProofs`, for any contents, users, categories and calls, from `FilesAssumption`:
- `Invariance`: `TypeOK`, `AnsweredUrlServes` and `KeysHaveObjects`: the key of a row, and
  of an upload that is about to insert one, has its object. It is the strengthening, since
  an URL that is handed out is taken from a row or from such an upload.
- `TypeCorrect`, `AnsweredUrlsServe`; `LiveRowsAreKept`, an action property.

`ModerationProofs`, for any posts, classes, probabilities and calls, from
`BreakerAssumption` and `ModerationAssumption`:
- `Invariance`: `TypeOK`, `DegradedIsWatched`, `HonestCalls` (an answer on its way that
  does not say "fallback" is the model's verdict of its own post) and `AllHaveTheirSay`.
  The run's property, by which a doubtful post waits for a moderator, speaks of rows;
  `HonestCalls` follows the answer from the model
  through the service, past a caller that has given up, to the row.
- `TypeCorrect`, `DegradedIsAlwaysWatched`, `TheModelHasItsSay`.
- `ImplementsContract`: every step is one of `PostContract` or leaves its variables alone. It
  rests on `CreatesAreNew`: a post is created by one call at most, so that an INSERT after
  however late an answer is the first write to its row.

And for any runes, lists of words, vocabularies, texts and length of the input, from
`RuneAssumption`, `TokenizerAssumption` (no Chinese character is a space or a control
character, while a rune may be both of the latter, as `\r`, `\v`, `\f` and U+0085 are;
lower case is rune by rune; marks and `##` are not empty, no mark of the frame is `[UNK]`
or begins as `##` does, an input has room for `[CLS]` and `[SEP]`) and
`ScreeningAssumption`:
- `ScreeningInvariance`: a request holds what the scan, or the encoding, of its text gives.
  What these give is the bulk of the module:
- `ScansFindAll`: the hits are the occurrences of the words, each once and in the order of
  the text. The trie is `Labelled`: there is a label for every node, the runes on the way
  to it; children are labelled by one rune more, no two nodes have the same label, and the
  words at the nodes are those of the list so far. A walk stands at the node whose label is
  the text between its start and its end, and its hits `Collect` the places it has `Seen`.
- `InputsAreFramed`: what stands between `[CLS]` and `[SEP]` is a `Piece` of the text: a mark
  is among it only where the text spells it.
- `InputsSpellTexts`: what the tokens say so far (`Say`, `SaysSoFar`), and the word the loop
  has in hand, are the runes it has passed; a word of runes the vocabulary can say is never
  given up, since a single rune is always found; and cutting the input off leaves a prefix.
- The prover cannot be given an induction theorem, which takes an operator as a parameter.
  The module gets by with a set in its place: `UpTo` says that a subset of `0..n` that
  contains 0 and, with every number but n, the next one is all of `0..n`; it follows from
  the well-foundedness of `<`. `Iterated` gets from it that a loop over `1..n` has a result,
  so that the recursive functions of the models are what they are defined to be.
- `ScreeningTypeCorrect`: the children of a node are nodes behind the root, or none.

`GatewayProofs`, for any addresses, requests, buckets, burst, tokens and operations, from
`RateLimitAssumption` and `GatewayAssumption`:
- `Invariance`: `TypeOK`, `Separate`, `HandsEmpty`, `HandsFull`, `SweepOK` (who may hold
  which bucket at which stage; buckets of two addresses are different ones), `Balanced`
  (what was let in of an address and what is left in its bucket make up the burst),
  `CallersAreEntitled` and `AnswersAreTrue`. `Balanced` is the strengthening of
  `BurstIsKept`, and the rest is what keeps it through the sweep.
- `TypeCorrect`, `BurstIsAlwaysKept`, `CallersAreAlwaysEntitled`, `AnswersAreAlwaysTrue`;
  lemmas on `HTTPStatus` and on which middlewares stand before each route.

And for any processes and leases of one address, from `DiscoveryAssumption`:
- `DiscoveryInvariance`: `DiscoveryTypeOK` and `PortIsHeld`: a process has its port
  from Listen to its end, but in `cmd/ai-moderation`, which stops its server first. So no
  successor is listed at the address when a cleanup deletes the key.
- `DiscoveryTypeCorrect`; `ServersStayListed`, an action property that follows from it.

Every invariant, every action property and every refinement that a run checks is proved.
Checked by TLC only are the liveness properties (`DueTaskLeavesOpen`,
`PublicationReachesSearch`, `EventIsHandled`, `ReadingEnds`, `AccountSettles`,
`ReceiversAreTold`, `ContentIsFreed`, `ModelServesAgain`, `RequestEnds`, `GhostLeaves`),
since fairness and ENABLED are out of the prover's reach. No module uses a RECURSIVE
operator, with which it would lose its SMT backend.

## 6. Not modelled, and what could come next

- Of the user service: nickname and avatar (UpdateUserInfo writes back the one it has
  read, so that two calls lose a change, and no document promises otherwise);
  AuditContent and ListContentForAudit, stubs (the first writes an audit entry about a
  content it never touches); schools and their cache, which no handler changes.
- The list entries of the post cache: they are invalidated, and nothing reads them.
- `ai_audit_logs` and its statistics: written and read beside every decision, never part
  of one. Their ids come from a counter without a lock.
- The degradation middleware of the gateway, which the router does not install; its CORS,
  trace ids, and the translation of requests and answers by its handlers.
- WordManager, the reloading of sensitive words, the configuration manager of the AI
  moderation, RenewPost, MatchCount and GetUserCountBySchool: nothing in the repository
  calls them.
- `task.events`: published, with no consumer in the repository.
- Metrics, configuration, pools, tracing, the import of schools, generated stubs: I/O and
  formatting, no state that several actors write.

Next would be properties of the hazards that have none yet (`PROJECT.json` has a note for
each): above all one about Stop of the consumer, once the code makes up its mind what Start
should do after it, and one about audit rows whose ids two reviews draw at once, which
would bring `ai_audit_logs` into `Moderation`.
