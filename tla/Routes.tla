------------------------------- MODULE Routes --------------------------------
(***************************************************************************)
(* What the gateway asks of a request before it calls a service, and what  *)
(* it makes of the service's answer: the groups of routes and their        *)
(* middleware (cmd/gateway/router/app.go), the handlers (cmd/gateway/      *)
(* handler) and the error codes (pkg/errcode).  An operation is a handler; *)
(* /health, the fields of requests and answers and the trace are left out. *)
(***************************************************************************)
EXTENDS Integers

-----------------------------------------------------------------------------
(* Groups of routes *)

UserPublic    == {"WxLogin", "RefreshToken"}
UserAuth      == {"GetCurrentUser", "BindCampus"}
UserWrite     == {"UpdateUserInfo"}
Notifications == {"ListNotifications", "UnreadCount", "MarkRead", "MarkAllRead",
                  "DeleteNotification"}
TasksRead     == {"ListTasks", "GetTask"}
TasksWrite    == {"CreateTask", "UpdateTask", "DeleteTask", "ClaimTask", "CompleteTask",
                  "CancelTask"}
FilesRead     == {"GetFile"}
FilesUpload   == {"UploadFile"}
FilesDelete   == {"DeleteFile"}
Admin         == {"AdminBanUser", "AdminUnbanUser", "AdminListUsers",
                  "AdminListContentForAudit", "AdminAuditContent"}
SuperAdmin    == {"AdminSetUserRole"}
ContentRead   == {"ListPosts", "GetPost", "ListComments", "ListCommentReplies",
                  "SearchContent"}
ContentWrite  == {"CreatePost", "UpdatePost", "DeletePost", "LikePost", "UnlikePost",
                  "CreateComment", "DeleteComment"}
Schools       == {"ListSchools"}

\* Groups with OptionalJWTAuth.
ForGuests == Schools \cup TasksRead \cup FilesRead \cup ContentRead

\* Mutant: the group of task writes is mounted without RequireSchoolBound.
ForBoundButTasks == UserWrite \cup FilesDelete \cup ContentWrite

\* Groups with RequireSchoolBound behind JWTAuth.
ForBound == UserWrite \cup TasksWrite \cup FilesDelete \cup ContentWrite

\* Groups with JWTAuth.
ForUsers == UserAuth \cup UserWrite \cup Notifications \cup TasksWrite \cup FilesUpload
              \cup FilesDelete \cup Admin \cup SuperAdmin \cup ContentWrite

\* The argument of RequireRole, if the group has it.
MinRole(op) == IF op \in SuperAdmin THEN 3 ELSE IF op \in Admin THEN 2 ELSE 0

Op == UserPublic \cup ForGuests \cup ForUsers

-----------------------------------------------------------------------------
(* Tokens and identities *)

Identity == [user : Nat, role : 0..3, school : Nat]
Token    == [kind : {"missing", "expired", "invalid", "valid"}, who : Identity]

Guest == [user |-> 0, role |-> 0, school |-> 0]

\* JWTAuth; 0 stands for going on.
JWTAuth(t) == IF t.kind = "valid" THEN 0
              ELSE IF t.kind = "missing" THEN 20001
              ELSE IF t.kind = "expired" THEN 20002 ELSE 20003

\* OptionalJWTAuth: whoever has no valid token is a guest.
OptionalJWTAuth(t) == IF t.kind = "valid" THEN t.who ELSE Guest

\* The identity the handler of op finds.
Caller(op, t) == IF op \in ForGuests THEN OptionalJWTAuth(t)
                 ELSE IF op \in ForUsers THEN t.who ELSE Guest

RequireRole(op, who) == IF who.role < MinRole(op) THEN 20007 ELSE 0

RequireSchoolBound(op, who) == IF op \in ForBound /\ who.school = 0 THEN 20006 ELSE 0

\* The middleware between the bucket and the handler: the first code that is not 0.
Turnstile(op, t) ==
  IF op \in ForUsers /\ JWTAuth(t) # 0 THEN JWTAuth(t)
  ELSE IF RequireRole(op, Caller(op, t)) # 0 THEN RequireRole(op, Caller(op, t))
  ELSE RequireSchoolBound(op, Caller(op, t))

-----------------------------------------------------------------------------
(* Handlers, by what they want of the identity and do with the answer *)

LoginHandlers   == {"WxLogin", "RefreshToken"}
ProfileHandlers == {"BindCampus", "GetCurrentUser", "UpdateUserInfo"}
SchoolReads     == {"ListSchools"}

PostCreation  == {"CreatePost"}
PostReads     == {"ListPosts", "GetPost"}
PostEdits     == {"UpdatePost", "DeletePost", "CreateComment", "DeleteComment"}
CommentReads  == {"ListCommentReplies", "ListComments"}
Likes         == {"LikePost", "UnlikePost"}
Searches      == {"SearchContent"}

TaskCreation  == {"CreateTask"}
TaskReads     == {"ListTasks", "GetTask"}
TaskEdits     == {"UpdateTask", "DeleteTask"}
TaskMoves     == {"ClaimTask", "CompleteTask", "CancelTask"}

FileUploads   == {"UploadFile"}
FileReads     == {"GetFile"}
FileDeletions == {"DeleteFile"}

NotificationHandlers == {"ListNotifications", "UnreadCount", "MarkRead", "MarkAllRead",
                         "DeleteNotification"}

Bans          == {"AdminBanUser", "AdminUnbanUser"}
AdminReads    == {"AdminListUsers", "AdminListContentForAudit"}
RoleChanges   == {"AdminSetUserRole"}
Audits        == {"AdminAuditContent"}

\* Writes that belong to a school.
SchoolWrites == PostCreation \cup PostEdits \cup Likes \cup TaskCreation \cup TaskEdits
                  \cup TaskMoves \cup FileDeletions \cup {"UpdateUserInfo"}

\* authCtxWithIDs refuses who has no user id.
AuthCtxWithIDs(op, who) ==
  IF /\ op \in PostCreation \cup PostEdits \cup Likes \cup TaskCreation \cup TaskEdits
                 \cup TaskMoves \cup FileUploads \cup FileDeletions \cup Bans
                 \cup RoleChanges \cup Audits
     /\ who.user = 0
  THEN 20001 ELSE 0

\* Handlers that can refuse a request for its parameters.
HasInput(op) ==
  op \in LoginHandlers \cup (ProfileHandlers \ {"GetCurrentUser"}) \cup SchoolReads
           \cup PostCreation \cup (PostReads \ {"ListPosts"}) \cup PostEdits
           \cup CommentReads \cup Likes \cup Searches
           \cup TaskCreation \cup TaskReads \cup TaskEdits \cup TaskMoves
           \cup FileUploads \cup FileReads \cup FileDeletions
           \cup (NotificationHandlers \ {"UnreadCount", "MarkAllRead"})
           \cup Bans \cup RoleChanges \cup Audits

\* Handlers that look at the code inside an answer without an error.

\* Mutant: those of the notifications do not.
ReadsCodeOfSome(op) == op \in {"BindCampus", "UpdateUserInfo", "DeleteTask", "DeleteFile"}
                                \cup TaskMoves
ReadsCode(op) == op \in {"BindCampus", "UpdateUserInfo", "DeleteTask", "DeleteFile"} \cup TaskMoves
                          \cup {"MarkRead", "MarkAllRead", "DeleteNotification"}

\* What the handlers' own comments and the services rely on.
Entitled(op, who) ==
  /\ op \in SchoolWrites => who.user # 0 /\ who.school # 0
  /\ op \in ProfileHandlers \cup FileUploads \cup NotificationHandlers => who.user # 0
  /\ op \in Bans \cup AdminReads \cup Audits => who.user # 0 /\ who.role >= 2
  /\ op \in RoleChanges => who.user # 0 /\ who.role >= 3

-----------------------------------------------------------------------------
(* Answers *)

\* Codes a service puts into an answer without an error.
MessageCode == {0, 400, 404, 500}
ProfileCode == {0, 400, 401, 404, 500}
CodeOf(op)  == IF op \in {"BindCampus", "UpdateUserInfo"} THEN ProfileCode
               ELSE IF op \in {"MarkRead", "MarkAllRead", "DeleteNotification"} THEN MessageCode
               ELSE {0}

GrpcCode == {"OK", "Canceled", "Unknown", "InvalidArgument", "DeadlineExceeded", "NotFound",
             "AlreadyExists", "PermissionDenied", "ResourceExhausted", "FailedPrecondition",
             "Aborted", "OutOfRange", "Unimplemented", "Internal", "Unavailable",
             "DataLoss", "Unauthenticated"}

FromGRPC(c) ==
  CASE c = "OK"                                                        -> 0
    [] c = "InvalidArgument"                                           -> 50004
    [] c = "DeadlineExceeded"                                          -> 50002
    [] c = "NotFound"                                                  -> 50005
    [] c \in {"AlreadyExists", "FailedPrecondition", "OutOfRange"}     -> 40001
    [] c = "PermissionDenied"                                          -> 20007
    [] c = "ResourceExhausted"                                         -> 30001
    [] c \in {"Unimplemented", "Internal"}                             -> 50003
    [] c = "Unavailable"                                               -> 50001
    [] c = "Unauthenticated"                                           -> 20003
    [] OTHER                                                           -> 90001

Within(code, low, high) == low <= code /\ code < high

\* Codes that are in no band, those of HTTP among them, are a fault of the server.
HTTPStatus(code) ==
  CASE code = 0                      -> 200
    [] Within(code, 10000, 20000)    -> 502
    [] Within(code, 20000, 30000)    -> IF code \in {20006, 20007, 20008} THEN 403 ELSE 401
    [] Within(code, 30000, 40000)    -> 429
    [] Within(code, 40000, 50000)    -> 400
    [] Within(code, 50000, 60000)    -> CASE code = 50002 -> 504
                                          [] code = 50005 -> 404
                                          [] code = 50004 -> 400
                                          [] code = 50003 -> 500
                                          [] OTHER        -> 502
    [] OTHER                         -> 500

\* The status of the response when the service has said [grpc, code].
Respond(op, said) ==
  IF said.grpc # "OK" THEN HTTPStatus(FromGRPC(said.grpc))
  ELSE IF ReadsCode(op) THEN HTTPStatus(said.code) ELSE 200
=============================================================================
