--------------------------- MODULE SubmissionTable ---------------------------
(***************************************************************************)
(* The rows of the `submissions` and `validation_jobs` tables, and what    *)
(* each single-statement write of the AdminRepository port does to a row.  *)
(* Both adapters (Postgres UPDATE ... WHERE, DynamoDB UpdateItem with a    *)
(* ConditionExpression) run one such write atomically, so a write is a     *)
(* function from the row it finds to the row it leaves.  Reading the row   *)
(* first, as most route handlers do, is a separate step of the modules     *)
(* that use this one.                                                      *)
(*                                                                         *)
(* A package is a value; its sha256 is represented by the package itself   *)
(* (SHA-256 taken as collision-free).  Names, notes, sizes and timestamps  *)
(* of a row are left out: no property tells them apart.                    *)
(***************************************************************************)

CONSTANTS
  Jobs,           \* job ids createValidationJob can draw
  Packages,       \* package contents a submitter can upload
  ValidPackages,  \* those that are non-empty and within MAX_PACKAGE_BYTES
  None            \* an absent column

ASSUME ValidAssumption == ValidPackages \subseteq Packages
ASSUME NoneAssumption == None \notin Jobs /\ None \notin Packages

SubmissionStatus ==
  {"awaiting_upload", "validation_queued", "validation_passed",
   "validation_failed", "rejected", "archived", "canceled", "published"}

SubmissionRow ==
  [status           : SubmissionStatus,
   validationStatus : {"pending", "queued", "passed", "failed"},
   reviewStatus     : {"pending", "approved", "rejected"},
   validationJobId  : Jobs \cup {None},
   sha256           : Packages \cup {None},
   expires          : BOOLEAN]

JobStatus == {"absent", "queued", "running", "passed", "failed"}

\* A job id whose row was never inserted is "absent" and belongs to nobody.
JobRow(Submissions) ==
  [status : JobStatus, submissionId : Submissions \cup {None}]

-----------------------------------------------------------------------------
\* buildSubmissionRecord: the row createSubmission inserts.  `expires` stands
\* for the awaiting_upload TTL.
NewSubmission ==
  [status |-> "awaiting_upload", validationStatus |-> "pending",
   reviewStatus |-> "pending", validationJobId |-> None,
   sha256 |-> None, expires |-> TRUE]

NoJobRow == [status |-> "absent", submissionId |-> None]

\* createValidationJob: INSERT of a queued job.
QueuedJob(s) == [status |-> "queued", submissionId |-> s]

\* Mutant: the two status columns of the UPDATE swapped.
MarkedQueuedSwapped(row, j) ==
  [row EXCEPT !.status = "queued", !.validationStatus = "validation_queued",
              !.validationJobId = j, !.expires = FALSE]

\* markSubmissionValidationQueued: no condition on the row's status.
MarkedQueued(row, j) ==
  [row EXCEPT !.status = "validation_queued", !.validationStatus = "queued",
              !.validationJobId = j, !.expires = FALSE]

\* updateSubmissionValidationResult: a column is written only when the update
\* carries a value for it, so a failed verdict leaves the old sha256 in place.
WithResult(row, verdict, sha) ==
  [row EXCEPT
     !.status = IF verdict = "passed" THEN "validation_passed"
                                      ELSE "validation_failed",
     !.validationStatus = verdict,
     !.sha256 = IF sha = None THEN @ ELSE sha]

\* updateValidationJob, reduced to the status column.
WithStatus(job, status) == [job EXCEPT !.status = status]

-----------------------------------------------------------------------------
(* The writes of the review desk and of publishSubmission.                 *)

\* approveSubmission leaves `status` alone and has no condition.
Approved(row) == [row EXCEPT !.reviewStatus = "approved"]

\* rejectSubmission has no condition either.
Rejected(row) == [row EXCEPT !.status = "rejected", !.reviewStatus = "rejected"]

\* Mutant: UPDATE without AND status <> 'published'.
CanceledAlways(row) == [row EXCEPT !.status = "canceled"]

\* archiveSubmission and cancelSubmission refuse a published row in the
\* statement itself.
Archived(row) ==
  IF row.status = "published" THEN row ELSE [row EXCEPT !.status = "archived"]
Canceled(row) ==
  IF row.status = "published" THEN row ELSE [row EXCEPT !.status = "canceled"]

\* The submission's part of publishSubmission, without a condition.
MarkedPublished(row) == [row EXCEPT !.status = "published"]

=============================================================================
