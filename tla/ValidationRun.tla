---------------------------- MODULE ValidationRun ----------------------------
(***************************************************************************)
(* What the two deployments of the validation pipeline share: the API      *)
(* handler POST /submissions/{id}/validate (enqueueSubmissionValidation)   *)
(* and one execution of runValidationJob by a worker.  The queue between   *)
(* them differs (Redis lists, SQS) and is added by RedisPipeline and       *)
(* SqsPipeline.                                                            *)
(*                                                                         *)
(* Every `await` of the code is a boundary between two actions, so any     *)
(* number of handlers and workers interleave between two statements of one *)
(* of them, and each of them ends as module Faults says.                   *)
(***************************************************************************)
EXTENDS SubmissionTable, Faults

CONSTANTS
  Submissions,
  Requests,   \* validate requests the API replicas serve at the same time
  Workers     \* worker processes, or Lambda invocations

ASSUME NoSubmissionAssumption == None \notin Submissions

VARIABLES
  submissions,  \* the submissions table
  jobs,         \* the validation_jobs table
  packages,     \* the object at each submission's packageS3Key
  request,      \* the API handlers' local state
  run           \* the workers' local state

-----------------------------------------------------------------------------
(* The API handler's local state: the statement it executes next.          *)

RequestState ==
  [pc : {"idle", "create", "push", "mark"},
   submission : Submissions \cup {None}, job : Jobs \cup {None}]

NoRequest == [pc |-> "idle", submission |-> None, job |-> None]

\* getSubmission and packageExists.  Neither a row nor an object is ever
\* deleted here, so both reads are one step; a missing package is the 400
\* that changes nothing.
CheckPackage(r, s) ==
  /\ request[r].pc = "idle"
  /\ packages[s] # None
  /\ request' = [request EXCEPT ![r] = [pc |-> "create", submission |-> s,
                                        job |-> None]]
  /\ UNCHANGED <<submissions, jobs, packages, run, faults>>

\* createValidationJob, with a fresh validation_<uuid>.  An error ends the
\* request with a 500.
CreateJob(r) ==
  /\ request[r].pc = "create"
  /\ \E j \in Jobs, o \in Outcomes :
       /\ jobs[j].status = "absent"
       /\ Ends(o)
       /\ jobs' = IF Executed(o)
                  THEN [jobs EXCEPT ![j] = QueuedJob(request[r].submission)]
                  ELSE jobs
       /\ request' = [request EXCEPT
                        ![r] = IF o = "done"
                               THEN [@ EXCEPT !.pc = "push", !.job = j]
                               ELSE NoRequest]
  /\ UNCHANGED <<submissions, packages, run>>

\* The part of enqueueValidationJob that does not depend on the queue.
AfterPush(r, o) ==
  /\ request[r].pc = "push"
  /\ Ends(o)
  /\ request' = [request EXCEPT ![r] = IF o = "done"
                                       THEN [@ EXCEPT !.pc = "mark"]
                                       ELSE NoRequest]
  /\ UNCHANGED <<submissions, jobs, packages, run>>

\* markSubmissionValidationQueued, after the message is already in the queue.
MarkQueued(r) ==
  /\ request[r].pc = "mark"
  /\ \E o \in Outcomes :
       /\ Ends(o)
       /\ submissions' =
            IF Executed(o)
            THEN [submissions EXCEPT ![request[r].submission] =
                    MarkedQueued(@, request[r].job)]
            ELSE submissions
  /\ request' = [request EXCEPT ![r] = NoRequest]
  /\ UNCHANGED <<jobs, packages, run>>

\* The API process dies while it serves the request.
RequestCrash(r) ==
  /\ Fault
  /\ request[r].pc # "idle"
  /\ request' = [request EXCEPT ![r] = NoRequest]
  /\ UNCHANGED <<submissions, jobs, packages, run>>

-----------------------------------------------------------------------------
(* runValidationJob.  pc names the statement the worker executes next;     *)
(* "resolved" and "rejected" are the fate of the promise it returns.       *)

RunPc == {"idle", "start", "read", "jobResult", "submissionResult",
          "jobFailed", "submissionFailed", "resolved", "rejected"}

RunState ==
  [pc : RunPc, job : Jobs \cup {None},
   verdict : {"none", "passed", "failed"}, sha256 : Packages \cup {None}]

Idle == [pc |-> "idle", job |-> None, verdict |-> "none", sha256 |-> None]
Begun(j) == [Idle EXCEPT !.pc = "start", !.job = j]

MoveTo(w, pc) == run' = [run EXCEPT ![w].pc = pc]

JobOf(w) == run[w].job
SubmissionOf(w) == jobs[JobOf(w)].submissionId

\* updateValidationJob(running): outside the try block, so an error rejects.
MarkRunning(w) ==
  /\ run[w].pc = "start"
  /\ \E o \in Outcomes :
       /\ Ends(o)
       /\ jobs' = IF Executed(o)
                  THEN [jobs EXCEPT ![JobOf(w)] = WithStatus(@, "running")]
                  ELSE jobs
       /\ MoveTo(w, IF o = "done" THEN "read" ELSE "rejected")
  /\ UNCHANGED <<submissions, packages, request>>

\* Mutant: the empty and oversized package checks dropped.
AcceptsAnySize(p) == p # None

\* validatePackageObject passes a package that is neither empty nor too large.
Accepts(p) == p \in ValidPackages

\* validatePackageObject: reads the object that is at the key now.  Only a
\* passed summary carries a sha256.
ValidatePackage(w) ==
  /\ run[w].pc = "read"
  /\ LET p == packages[SubmissionOf(w)] IN
       \/ /\ run' = [run EXCEPT ![w] =
                       IF Accepts(p)
                       THEN [@ EXCEPT !.pc = "jobResult", !.verdict = "passed",
                                      !.sha256 = p]
                       ELSE [@ EXCEPT !.pc = "jobResult", !.verdict = "failed"]]
          /\ UNCHANGED faults
       \/ Fault /\ MoveTo(w, "jobFailed")
  /\ UNCHANGED <<submissions, jobs, packages, request>>

\* updateValidationJob(summary.status).
RecordJobResult(w) ==
  /\ run[w].pc = "jobResult"
  /\ \E o \in Outcomes :
       /\ Ends(o)
       /\ jobs' = IF Executed(o)
                  THEN [jobs EXCEPT ![JobOf(w)] =
                          WithStatus(@, run[w].verdict)]
                  ELSE jobs
       /\ MoveTo(w, IF o = "done" THEN "submissionResult" ELSE "jobFailed")
  /\ UNCHANGED <<submissions, packages, request>>

\* updateSubmissionValidationResult with the summary.
RecordSubmissionResult(w) ==
  /\ run[w].pc = "submissionResult"
  /\ \E o \in Outcomes :
       /\ Ends(o)
       /\ submissions' =
            IF Executed(o)
            THEN [submissions EXCEPT ![SubmissionOf(w)] =
                    WithResult(@, run[w].verdict, run[w].sha256)]
            ELSE submissions
       /\ MoveTo(w, IF o = "done" THEN "resolved" ELSE "jobFailed")
  /\ UNCHANGED <<jobs, packages, request>>

\* Mutant: the catch block records the failure on the submission only.
RecordJobFailedSkipped(w) ==
  /\ run[w].pc = "jobFailed"
  /\ MoveTo(w, "submissionFailed")
  /\ UNCHANGED <<submissions, jobs, packages, request, faults>>

\* The catch block: first the job ...
RecordJobFailed(w) ==
  /\ run[w].pc = "jobFailed"
  /\ \E o \in Outcomes :
       /\ Ends(o)
       /\ jobs' = IF Executed(o)
                  THEN [jobs EXCEPT ![JobOf(w)] = WithStatus(@, "failed")]
                  ELSE jobs
       /\ MoveTo(w, IF o = "done" THEN "submissionFailed" ELSE "rejected")
  /\ UNCHANGED <<submissions, packages, request>>

\* ... then the submission.  An error in the catch block rejects.
RecordSubmissionFailed(w) ==
  /\ run[w].pc = "submissionFailed"
  /\ \E o \in Outcomes :
       /\ Ends(o)
       /\ submissions' =
            IF Executed(o)
            THEN [submissions EXCEPT ![SubmissionOf(w)] =
                    WithResult(@, "failed", None)]
            ELSE submissions
       /\ MoveTo(w, IF o = "done" THEN "resolved" ELSE "rejected")
  /\ UNCHANGED <<jobs, packages, request>>

RunStep(w) ==
  \/ MarkRunning(w)
  \/ ValidatePackage(w)
  \/ RecordJobResult(w)
  \/ RecordSubmissionResult(w)
  \/ RecordJobFailed(w)
  \/ RecordSubmissionFailed(w)

-----------------------------------------------------------------------------
\* The submitter PUTs the package to the presigned upload URL, once or again.
Upload(s, p) ==
  /\ packages[s] # p
  /\ packages' = [packages EXCEPT ![s] = p]
  /\ UNCHANGED <<submissions, jobs, request, run, faults>>

RunInit ==
  /\ submissions = [s \in Submissions |-> NewSubmission]
  /\ jobs = [j \in Jobs |-> NoJobRow]
  /\ packages = [s \in Submissions |-> None]
  /\ request = [r \in Requests |-> NoRequest]
  /\ run = [w \in Workers |-> Idle]
  /\ faults = 0

RunTypeOK ==
  /\ submissions \in [Submissions -> SubmissionRow]
  /\ jobs \in [Jobs -> JobRow(Submissions)]
  /\ packages \in [Submissions -> Packages \cup {None}]
  /\ request \in [Requests -> RequestState]
  /\ run \in [Workers -> RunState]
  /\ faults \in 0 .. MaxFaults

=============================================================================
