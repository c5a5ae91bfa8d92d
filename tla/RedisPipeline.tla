---------------------------- MODULE RedisPipeline ----------------------------
(***************************************************************************)
(* The self-hosted validation pipeline: API handlers LPUSH a job message,  *)
(* workers BRPOPLPUSH it onto the processing list, run it and LREM it.     *)
(* The processing list is one key shared by all workers (queue.ts defaults *)
(* it to `<jobsKey>:processing` and worker.ts passes no other), and no     *)
(* code reads it back.                                                     *)
(***************************************************************************)
EXTENDS ValidationRun, Naturals, Sequences

VARIABLES
  pending,     \* the jobs list, oldest first
  processing   \* the processing list; LREM removes by value, so order is moot

vars ==
  <<submissions, jobs, packages, request, run, faults, pending, processing>>

queueVars == <<pending, processing>>

Init == RunInit /\ pending = <<>> /\ processing = {}

-----------------------------------------------------------------------------
\* enqueueValidationJob: LPUSH of the job just created.
Push(r) ==
  /\ \E o \in Outcomes :
       /\ AfterPush(r, o)
       /\ pending' = IF Executed(o) THEN Append(pending, request[r].job)
                                    ELSE pending
  /\ UNCHANGED processing

RequestStep(r) ==
  \/ /\ CreateJob(r) \/ MarkQueued(r)
     /\ UNCHANGED queueVars
  \/ Push(r)

\* Mutant: the message is read without being removed (LINDEX for BRPOPLPUSH).
PopPeeking(w) ==
  /\ run[w].pc = "idle"
  /\ pending # <<>>
  /\ run' = [run EXCEPT ![w] = Begun(Head(pending))]
  /\ processing' = processing \cup {Head(pending)}
  /\ UNCHANGED <<submissions, jobs, packages, request, faults, pending>>

\* Mutant: BRPOP for BRPOPLPUSH, nothing is kept while the job runs.
PopForgetting(w) ==
  /\ run[w].pc = "idle"
  /\ pending # <<>>
  /\ run' = [run EXCEPT ![w] = Begun(Head(pending))]
  /\ pending' = Tail(pending)
  /\ UNCHANGED <<submissions, jobs, packages, request, faults, processing>>

\* BRPOPLPUSH moves the oldest message atomically, then the handler starts.
Pop(w) ==
  /\ run[w].pc = "idle"
  /\ pending # <<>>
  /\ run' = [run EXCEPT ![w] = Begun(Head(pending))]
  /\ pending' = Tail(pending)
  /\ processing' = processing \cup {Head(pending)}
  /\ UNCHANGED <<submissions, jobs, packages, request, faults>>

\* BRPOPLPUSH answers null after blockTimeout seconds; the loop goes round.
PollTimeout(w) ==
  /\ run[w].pc = "idle"
  /\ pending = <<>>
  /\ UNCHANGED vars

\* Mutant: the LREM looks for another string than the one popped.
AcknowledgeNothing(w) ==
  /\ run[w].pc = "resolved"
  /\ run' = [run EXCEPT ![w] = Idle]
  /\ UNCHANGED <<submissions, jobs, packages, request, faults, queueVars>>

\* LREM after the handler resolved.  An LREM that throws is caught like an
\* error of the handler: the worker logs it and polls again.
Acknowledge(w) ==
  /\ run[w].pc = "resolved"
  /\ \E o \in Outcomes :
       /\ Ends(o)
       /\ processing' = IF Executed(o) THEN processing \ {JobOf(w)}
                                       ELSE processing
  /\ run' = [run EXCEPT ![w] = Idle]
  /\ UNCHANGED <<submissions, jobs, packages, request, pending>>

\* Mutant: a rejected item goes back to the jobs list and runs again.
RequeueRejected(w) ==
  /\ run[w].pc = "rejected"
  /\ run' = [run EXCEPT ![w] = Idle]
  /\ pending' = Append(pending, JobOf(w))
  /\ processing' = processing \ {JobOf(w)}
  /\ UNCHANGED <<submissions, jobs, packages, request, faults>>

\* The handler rejected: the item stays on the processing list.
LeaveOnProcessing(w) ==
  /\ run[w].pc = "rejected"
  /\ run' = [run EXCEPT ![w] = Idle]
  /\ UNCHANGED <<submissions, jobs, packages, request, faults, queueVars>>

\* The worker process dies and is restarted, or a rejected BRPOPLPUSH or
\* close() ends it in the middle of a job.  Its memory is gone.
WorkerCrash(w) ==
  /\ Fault
  /\ run[w].pc # "idle"
  /\ run' = [run EXCEPT ![w] = Idle]
  /\ UNCHANGED <<submissions, jobs, packages, request, queueVars>>

WorkerStep(w) ==
  \/ Pop(w)
  \/ RunStep(w) /\ UNCHANGED queueVars
  \/ Acknowledge(w)
  \/ LeaveOnProcessing(w)

Environment ==
  \/ \E r \in Requests, s \in Submissions :
       CheckPackage(r, s) /\ UNCHANGED queueVars
  \/ \E s \in Submissions, p \in Packages :
       Upload(s, p) /\ UNCHANGED queueVars
  \/ \E r \in Requests : RequestCrash(r) /\ UNCHANGED queueVars
  \/ \E w \in Workers : WorkerCrash(w) \/ PollTimeout(w)

Next ==
  \/ \E r \in Requests : RequestStep(r)
  \/ \E w \in Workers : WorkerStep(w)
  \/ Environment

Spec == Init /\ [][Next]_vars

\* A request under way is carried on by the event loop and a worker by its
\* polling loop; nobody is obliged to upload or to ask for a validation.
FairSpec ==
  /\ Spec
  /\ \A r \in Requests : WF_vars(RequestStep(r))
  /\ \A w \in Workers : WF_vars(WorkerStep(w))

-----------------------------------------------------------------------------
\* Type invariant of the pipeline's tables, lists and local states.
TypeOK ==
  /\ RunTypeOK
  /\ pending \in Seq(Jobs)
  /\ processing \subseteq Jobs

Pending(j) == \E i \in 1 .. Len(pending) : pending[i] = j
Holds(w, j) == run[w].pc # "idle" /\ run[w].job = j
Finished == {"passed", "failed"}

\* No job is worked on twice: two workers never hold the same message, a held
\* message has left the jobs list and stays on the processing list until its
\* worker is through with it.
OneWorkerPerJob ==
  \A j \in Jobs, w \in Workers :
    Holds(w, j) =>
      /\ j \in processing
      /\ ~Pending(j)
      /\ \A v \in Workers : Holds(v, j) => v = w

\* A submission shown as passed carries the hash of an acceptable package,
\* whatever was uploaded, failed or re-validated in between.
PassedHasValidHash ==
  \A s \in Submissions :
    submissions[s].validationStatus = "passed" =>
      submissions[s].sha256 \in ValidPackages

\* The verdict on a submission is backed by its jobs: "failed" by a job of its
\* own that failed; "passed" by one that passed, except that a job may have
\* been turned to failed by a catch block that then died, in which case its
\* message is still on the processing list.
VerdictBacked ==
  \A s \in Submissions :
    LET own == {j \in Jobs : jobs[j].submissionId = s} IN
    /\ submissions[s].validationStatus = "failed" =>
         \E j \in own : jobs[j].status = "failed"
    /\ submissions[s].validationStatus = "passed" =>
         \E j \in own : \/ jobs[j].status = "passed"
                        \/ jobs[j].status = "failed" /\ j \in processing

\* The job a submission points to is never lost: it has its verdict or its
\* message is on one of the two lists, so nothing was acknowledged unrecorded.
MarkedJobIsNotLost ==
  \A s \in Submissions :
    LET j == submissions[s].validationJobId IN
    j # None => \/ jobs[j].status \in Finished
                \/ Pending(j)
                \/ j \in processing

\* The pipeline implements its contract: the job and verdict columns change
\* only as ValidationContract allows.
Contract ==
  INSTANCE ValidationContract WITH
    jobStatus <- [j \in Jobs |-> jobs[j].status],
    jobOwner <- [j \in Jobs |-> jobs[j].submissionId],
    shown <- [s \in Submissions |-> submissions[s].validationStatus]

ImplementsContract == Contract!Spec

\* When nothing fails (MaxFaults = 0), every job whose message reached Redis gets a verdict
\* and leaves the processing list.
PushedJobsFinish ==
  \A j \in Jobs :
    Pending(j) ~> jobs[j].status \in Finished /\ j \notin processing

\* markSubmissionValidationQueued "advances status": a submission that shows a
\* verdict becomes queued only for a job that has still to give its own, that is,
\* one without verdict or one whose worker has still to copy it to the submission.
MarkingAdvances ==
  [][\A s \in Submissions :
       LET j == submissions'[s].validationJobId IN
       /\ submissions[s].validationStatus \in Finished
       /\ submissions'[s].validationStatus = "queued"
       => jobs[j].status \notin Finished \/ \E w \in Workers : Holds(w, j)]_vars

=============================================================================
