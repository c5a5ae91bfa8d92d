----------------------------- MODULE ReviewQueue -----------------------------
(***************************************************************************)
(* GET /admin/submissions: the admin's list of submissions, newest first,  *)
(* paged by an offset into a list that is read, filtered and sorted anew   *)
(* for every page.  By default it leaves out what was archived or          *)
(* canceled, decided long ago, or never uploaded in time; the last of      *)
(* these is swept from DynamoDB as well.                                   *)
(*                                                                         *)
(* Submissions are numbered in the order of their creation, so no two have *)
(* the same createdAt.  Their rows are those of SubmissionTable with the   *)
(* detail gone that the list does not look at: every status but            *)
(* awaiting_upload, archived and canceled is "open", and whether a verdict *)
(* was good is not kept, so that any verdict may have been.                *)
(*                                                                         *)
(* A handler reads the submission, does what it has to do, and writes in   *)
(* another statement.  The reads are not steps: a write may come at any    *)
(* time after the row was there, for it may be that of a request that read *)
(* the row then and is still under way.                                    *)
(***************************************************************************)
EXTENDS Paging, FiniteSetsExt

CONSTANTS
  MaxSubmissions,  \* bound on the submissions of a behaviour
  ScanLimit,       \* the rows one read of the table returns at most
  Second,          \* the ticks of a second: the clock counts finer than the TTL
  Ttl,             \* AWAITING_UPLOAD_TTL_MS, in ticks
  Retention        \* REVIEW_QUEUE_RETENTION_MS, in ticks

ASSUME QueueBoundsAssumption ==
         /\ MaxSubmissions \in Nat /\ ScanLimit \in Nat
         /\ Second \in Nat \ {0} /\ Ttl \in Nat /\ Ttl >= Second
         /\ Retention \in Nat

Submissions == 1 .. MaxSubmissions

\* "stub": what an UpdateItem made of the key of a row that was swept before.
QueueRow ==
  [status : {"none", "awaiting_upload", "open", "withdrawn", "swept", "stub"},
   handedIn : BOOLEAN,              \* it has a validationJobId
   expiresAt : 0 .. MaxTime + Ttl,  \* in seconds; 0: none
   reviewedAt : 0 .. MaxTime]       \* 0: never

VARIABLE queue  \* the submissions table

\* The items of the table, and those isSubmissionRecord takes for submissions.
Items == {s \in Submissions : queue[s].status \notin {"none", "swept"}}
Stored == {s \in Items : queue[s].status # "stub"}

NoSubmission == [status |-> "none", handedIn |-> FALSE, expiresAt |-> 0,
                 reviewedAt |-> 0]

QueueInit == queue = [s \in Submissions |-> NoSubmission]

-----------------------------------------------------------------------------
\* createSubmission: the expiresAt is rounded down to a second.
Create(s) ==
  /\ queue[s].status = "none"
  /\ \A r \in 1 .. s - 1 : queue[r].status # "none"
  /\ queue' = [queue EXCEPT ![s].status = "awaiting_upload",
                            ![s].expiresAt = (now + Ttl) \div Second]

\* What an UpdateItem without a condition makes of a row.
Updated(row, changed) ==
  IF row.status \in {"swept", "stub"} THEN [NoSubmission EXCEPT !.status = "stub"]
                                     ELSE changed

\* Mutant: the UpdateExpression without REMOVE expiresAt.
HandInKeepingTtl(s) ==
  /\ queue[s].status # "none"
  /\ queue' = [queue EXCEPT ![s] =
                 Updated(@, [@ EXCEPT !.status = "open", !.handedIn = TRUE])]

\* markSubmissionValidationQueued, the last write of a request for validation:
\* by then its job was sent to the queue, a worker may have run it, and the TTL
\* may have taken the row.
HandIn(s) ==
  /\ queue[s].status # "none"
  /\ queue' = [queue EXCEPT ![s] =
                 Updated(@, [@ EXCEPT !.status = "open", !.handedIn = TRUE,
                                      !.expiresAt = 0])]

\* A worker writes its verdict, whatever the status is by then, be it before the
\* request marks the submission or without that it ever does.  The expiresAt
\* stays.
Finish(s) ==
  /\ queue[s].status # "none"
  /\ queue' = [queue EXCEPT ![s] =
                 Updated(@, [@ EXCEPT !.status = "open"])]

\* approveAdminSubmission asks for a passed validation and leaves the status.  The
\* verdict took the row out of awaiting_upload.  What the write makes of a row
\* that is gone by then, Reject makes of it.
Approve(s) ==
  /\ s \in Stored /\ queue[s].status # "awaiting_upload"
  /\ queue' = [queue EXCEPT ![s].reviewedAt = now]

\* rejectAdminSubmission asks for nothing.
Reject(s) ==
  /\ queue[s].status # "none"
  /\ queue' = [queue EXCEPT ![s] =
                 Updated(@, [@ EXCEPT !.status = "open", !.reviewedAt = now])]

\* archiveAdminSubmission and cancelOwnSubmission, which refuse a published
\* submission: another open one here.  Their updates want an item, and leave a
\* stub a stub.
Withdraw(s) ==
  /\ s \in Stored
  /\ queue' = [queue EXCEPT ![s].status = "withdrawn"]

\* isExpiredAwaitingUpload compares in milliseconds ...
Expired(s) == queue[s].expiresAt # 0 /\ now >= queue[s].expiresAt * Second

\* ... and DynamoDB in seconds.  It deletes a row some time after its expiresAt,
\* whatever its status.  Nothing in the repository deletes rows of Postgres.
Sweep(s) ==
  /\ adapter = "dynamodb"
  /\ s \in Stored
  /\ queue[s].expiresAt # 0 /\ now \div Second >= queue[s].expiresAt
  /\ queue' = [queue EXCEPT ![s] = [NoSubmission EXCEPT !.status = "swept"]]

QueueStep ==
  \E s \in Submissions :
    \/ Create(s) \/ HandIn(s) \/ Finish(s)
    \/ Approve(s) \/ Reject(s) \/ Withdraw(s) \/ Sweep(s)

-----------------------------------------------------------------------------
DecidedLongAgo(s) ==
  queue[s].reviewedAt # 0 /\ now - queue[s].reviewedAt > Retention

\* isHiddenFromDefaultReviewQueue.
Hidden(s) ==
  \/ queue[s].status = "withdrawn"
  \/ queue[s].status = "awaiting_upload" /\ Expired(s)
  \/ DecidedLongAgo(s)

QueueQueries == {"default", "history"}

\* isSubmissionRecord and filterAdminSubmissions on the items of one read.
Filtered(rows, query) ==
  {s \in rows \cap Stored : query = "history" \/ ~Hidden(s)}

\* listSubmissions: at most ScanLimit items, those that are no submissions among
\* them.  Neither the order in which DynamoDB scans nor the one in which Postgres
\* answers without ORDER BY is known, so these are any items.
Scans == kSubset(IF Cardinality(Items) < ScanLimit THEN Cardinality(Items)
                                                   ELSE ScanLimit, Items)

LastCreatedFirst(S) == Ordered(S, >)

\* Mutant: the row that would be alone on the last page is forgotten.
QueuePageForgetting(listed, token) ==
  LET page == Upto(After(LastCreatedFirst(listed), token), Limit)
      next == token + Len(page) IN
  [items |-> page, next |-> IF next + 1 < Cardinality(listed) THEN next ELSE 0]

\* Mutant: the page starts one row early, as if offsets counted from 1.
QueuePageOverlapping(listed, token) ==
  LET start == IF token = 0 THEN 0 ELSE token - 1
      page == Upto(After(LastCreatedFirst(listed), start), Limit)
      next == token + Len(page) IN
  [items |-> page, next |-> IF next < Cardinality(listed) THEN next ELSE 0]

\* listAdminSubmissions, once the rows it read are filtered.
QueuePage(listed, token) ==
  LET page == Upto(After(LastCreatedFirst(listed), token), Limit)
      next == token + Len(page) IN
  [items |-> page, next |-> IF next < Cardinality(listed) THEN next ELSE 0]

\* What may be left of the table when it is read and filtered.
Reads(query) == {Filtered(rows, query) : rows \in Scans}

QueueListed(query) == Filtered(Stored, query)

-----------------------------------------------------------------------------
QueueTypeOK == queue \in [Submissions -> QueueRow]

=============================================================================
