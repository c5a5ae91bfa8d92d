------------------------- MODULE ValidationRunProofs -------------------------
(***************************************************************************)
(* What the building blocks that both deployments of the validation        *)
(* pipeline share do, field by field.  RedisPipelineProofs and             *)
(* SqsPipelineProofs rest on these lemmas.                                 *)
(***************************************************************************)
EXTENDS ValidationRun, TLAPS

\* A statement's outcome keeps the fault counter within its bound.
LEMMA EndsFacts ==
  ASSUME NEW o, Ends(o), faults \in 0 .. MaxFaults
  PROVE  faults' \in 0 .. MaxFaults
  BY FaultsAssumption DEF Ends, Fault

LEMMA FaultFacts ==
  ASSUME Fault, faults \in 0 .. MaxFaults
  PROVE  faults' \in 0 .. MaxFaults
  BY FaultsAssumption DEF Fault

\* MoveTo changes one worker's program counter and nothing else.
LEMMA MoveFacts ==
  ASSUME run \in [Workers -> RunState], NEW w \in Workers, NEW pc \in RunPc,
         MoveTo(w, pc)
  PROVE  /\ run' \in [Workers -> RunState]
         /\ run'[w].pc = pc
         /\ run'[w].job = run[w].job
         /\ run'[w].verdict = run[w].verdict
         /\ run'[w].sha256 = run[w].sha256
         /\ \A v \in Workers : v # w => run'[v] = run[v]
  BY DEF MoveTo, RunState

\* updateValidationJob changes the status of one job, or nothing.
LEMMA StatusFacts ==
  ASSUME jobs \in [Jobs -> JobRow(Submissions)], NEW j \in Jobs,
         NEW status \in JobStatus, NEW o,
         jobs' = IF Executed(o)
                 THEN [jobs EXCEPT ![j] = WithStatus(@, status)]
                 ELSE jobs
  PROVE  /\ jobs' \in [Jobs -> JobRow(Submissions)]
         /\ jobs'[j].status = IF Executed(o) THEN status ELSE jobs[j].status
         /\ jobs'[j].submissionId = jobs[j].submissionId
         /\ \A k \in Jobs : k # j => jobs'[k] = jobs[k]
  BY DEF WithStatus, JobRow

\* updateSubmissionValidationResult changes one row's verdict and hash.
LEMMA ResultFacts ==
  ASSUME submissions \in [Submissions -> SubmissionRow],
         NEW s \in Submissions, NEW verdict \in {"passed", "failed"},
         NEW sha \in Packages \cup {None}, NEW o,
         submissions' = IF Executed(o)
                        THEN [submissions EXCEPT
                                ![s] = WithResult(@, verdict, sha)]
                        ELSE submissions
  PROVE  /\ submissions' \in [Submissions -> SubmissionRow]
         /\ submissions'[s].validationStatus =
              IF Executed(o) THEN verdict ELSE submissions[s].validationStatus
         /\ submissions'[s].sha256 =
              IF Executed(o) /\ sha # None THEN sha ELSE submissions[s].sha256
         /\ submissions'[s].validationJobId = submissions[s].validationJobId
         /\ \A q \in Submissions : q # s => submissions'[q] = submissions[q]
<1> DEFINE new == WithResult(submissions[s], verdict, sha)
<1>1. /\ new \in SubmissionRow
      /\ new.validationStatus = verdict
      /\ new.sha256 = IF sha # None THEN sha ELSE submissions[s].sha256
      /\ new.validationJobId = submissions[s].validationJobId
  BY DEF WithResult, SubmissionRow, SubmissionStatus
<1> HIDE DEF new
<1>2. submissions' = IF Executed(o)
                     THEN [submissions EXCEPT ![s] = new] ELSE submissions
  BY DEF new
<1> QED
  BY <1>1, <1>2

\* markSubmissionValidationQueued changes one row.
LEMMA MarkedFacts ==
  ASSUME submissions \in [Submissions -> SubmissionRow],
         NEW s \in Submissions, NEW j \in Jobs, NEW o,
         submissions' = IF Executed(o)
                        THEN [submissions EXCEPT ![s] = MarkedQueued(@, j)]
                        ELSE submissions
  PROVE  /\ submissions' \in [Submissions -> SubmissionRow]
         /\ submissions'[s].validationStatus =
              IF Executed(o) THEN "queued" ELSE submissions[s].validationStatus
         /\ submissions'[s].validationJobId =
              IF Executed(o) THEN j ELSE submissions[s].validationJobId
         /\ submissions'[s].sha256 = submissions[s].sha256
         /\ \A q \in Submissions : q # s => submissions'[q] = submissions[q]
  BY DEF MarkedQueued, SubmissionRow, SubmissionStatus

\* A handler that answers or dies forgets its request.
LEMMA NoRequestType == NoRequest \in RequestState
  BY DEF NoRequest, RequestState

LEMMA IdleType == Idle \in RunState /\ Idle.pc = "idle"
  BY DEF Idle, RunState, RunPc

LEMMA BegunType ==
  ASSUME NEW j \in Jobs
  PROVE  /\ Begun(j) \in RunState
         /\ Begun(j).pc = "start"
         /\ Begun(j).job = j
  BY DEF Begun, Idle, RunState, RunPc

=============================================================================
