------------------------- MODULE RedisVerdictProofs -------------------------
(***************************************************************************)
(* What the verdicts of RedisPipeline are worth, and its refinement of     *)
(* ValidationContract, for any number of submissions, jobs, requests,      *)
(* workers and faults.  Every proof here uses QueueInv, which              *)
(* RedisPipelineProofs shows to be invariant.                              *)
(***************************************************************************)
EXTENDS RedisPipelineProofs

-----------------------------------------------------------------------------
(* A shown "passed" comes with the hash of a valid package.                *)

\* A verdict of "passed" travels with the hash of a valid package.
RunHash ==
  \A w \in Workers :
    /\ run[w].pc \in {"start", "read"} =>
         run[w].verdict = "none" /\ run[w].sha256 = None
    /\ run[w].pc \in {"jobResult", "submissionResult"}
         /\ run[w].verdict = "passed" => run[w].sha256 \in ValidPackages

HashInv == RunHash /\ PassedHasValidHash

\* A worker's step that leaves the submissions alone.
LEMMA HashRun ==
  ASSUME HashInv, NEW w \in Workers,
         \A v \in Workers : v # w => run'[v] = run[v],
         run'[w].pc \in {"start", "read"} =>
           run'[w].verdict = "none" /\ run'[w].sha256 = None,
         run'[w].pc \in {"jobResult", "submissionResult"}
           /\ run'[w].verdict = "passed" => run'[w].sha256 \in ValidPackages,
         UNCHANGED submissions
  PROVE  HashInv'
  BY DEF HashInv, RunHash, PassedHasValidHash

\* A step that leaves the workers and the submissions alone.
LEMMA HashOther ==
  ASSUME HashInv, UNCHANGED <<run, submissions>>
  PROVE  HashInv'
  BY DEF HashInv, RunHash, PassedHasValidHash

\* A verdict is written with its hash; after it the run holds no verdict.
LEMMA HashResult ==
  ASSUME QueueInv, HashInv, NEW w \in Workers, NEW s \in Submissions,
         NEW verdict \in {"passed", "failed"},
         NEW sha \in Packages \cup {None},
         verdict = "passed" => sha \in ValidPackages,
         NEW o,
         submissions' = IF Executed(o)
                        THEN [submissions EXCEPT ![s] =
                                WithResult(@, verdict, sha)]
                        ELSE submissions,
         NEW pc \in {"resolved", "rejected", "jobFailed"},
         MoveTo(w, pc)
  PROVE  HashInv'
<1>1. TypeOK
  BY DEF QueueInv
<1>2. /\ run'[w].pc = pc
      /\ \A v \in Workers : v # w => run'[v] = run[v]
  BY <1>1, MoveFacts DEF TypeOK, RunTypeOK, RunPc
<1>3. RunHash'
  BY <1>2 DEF HashInv, RunHash
<1>4. /\ submissions'[s].validationStatus =
           IF Executed(o) THEN verdict ELSE submissions[s].validationStatus
      /\ submissions'[s].sha256 =
           IF Executed(o) /\ sha # None THEN sha ELSE submissions[s].sha256
      /\ \A q \in Submissions : q # s => submissions'[q] = submissions[q]
  BY <1>1, ResultFacts DEF TypeOK, RunTypeOK
<1>5. None \notin ValidPackages
  BY ValidAssumption, NoneAssumption
<1>6. PassedHasValidHash'
  BY <1>4, <1>5 DEF HashInv, PassedHasValidHash
<1> QED
  BY <1>3, <1>6 DEF HashInv

\* Every step of a worker.
LEMMA HashWorker ==
  ASSUME QueueInv, HashInv, NEW w \in Workers, WorkerStep(w)
  PROVE  HashInv'
<1>1. TypeOK
  BY DEF QueueInv
<1>2. run[w] \in RunState
  BY <1>1 DEF TypeOK, RunTypeOK
<1>3. /\ run[w].pc \in {"start", "read"} =>
           run[w].verdict = "none" /\ run[w].sha256 = None
      /\ run[w].pc \in {"jobResult", "submissionResult"}
           /\ run[w].verdict = "passed" => run[w].sha256 \in ValidPackages
  BY DEF HashInv, RunHash
<1>4. \A pc \in RunPc : MoveTo(w, pc) =>
        /\ run'[w].pc = pc
        /\ run'[w].verdict = run[w].verdict
        /\ run'[w].sha256 = run[w].sha256
        /\ \A v \in Workers : v # w => run'[v] = run[v]
  BY <1>1, MoveFacts DEF TypeOK, RunTypeOK
<1>5. run[w].pc # "idle" => SubmissionOf(w) \in Submissions
  BY HolderHasSubmission DEF QueueInv
<1>6. CASE Pop(w)
  <2>1. /\ run' = [run EXCEPT ![w] = Begun(Head(pending))]
        /\ UNCHANGED submissions
    BY <1>6 DEF Pop
  <2>2. run'[w] = Begun(Head(pending)) /\ \A v \in Workers : v # w => run'[v] = run[v]
    BY <1>1, <2>1 DEF TypeOK, RunTypeOK
  <2>3. /\ run'[w].pc = "start" /\ run'[w].verdict = "none"
        /\ run'[w].sha256 = None
    BY <2>2 DEF Begun, Idle
  <2> QED
    BY <2>1, <2>2, <2>3, HashRun
<1>7. CASE MarkRunning(w)
  <2>1. /\ MoveTo(w, "read") \/ MoveTo(w, "rejected")
        /\ run[w].pc = "start"
        /\ UNCHANGED submissions
    BY <1>7 DEF MarkRunning
  <2> QED
    BY <2>1, <1>3, <1>4, HashRun DEF RunPc
<1>8. CASE ValidatePackage(w)
  <2>1. UNCHANGED submissions /\ run[w].pc = "read"
    BY <1>8 DEF ValidatePackage
  <2>2. CASE MoveTo(w, "jobFailed")
    BY <2>1, <2>2, <1>4, HashRun DEF RunPc
  <2>3. CASE run' = [run EXCEPT ![w] =
                       [@ EXCEPT !.pc = "jobResult", !.verdict = "failed"]]
    <3>1. /\ run'[w].pc = "jobResult" /\ run'[w].verdict = "failed"
          /\ \A v \in Workers : v # w => run'[v] = run[v]
      BY <2>3, <1>1 DEF TypeOK, RunTypeOK, RunState
    <3> QED
      BY <2>1, <3>1, HashRun
  <2>4. ASSUME NEW p \in ValidPackages,
               run' = [run EXCEPT ![w] =
                         [@ EXCEPT !.pc = "jobResult", !.verdict = "passed",
                                   !.sha256 = p]]
        PROVE  HashInv'
    <3>1. /\ run'[w].pc = "jobResult" /\ run'[w].sha256 = p
          /\ \A v \in Workers : v # w => run'[v] = run[v]
      BY <2>4, <1>1 DEF TypeOK, RunTypeOK, RunState
    <3> QED
      BY <2>1, <3>1, HashRun
  <2> QED
    BY <1>8, <2>2, <2>3, <2>4 DEF ValidatePackage, Accepts
<1>9. CASE RecordJobResult(w)
  <2>1. /\ MoveTo(w, "submissionResult") \/ MoveTo(w, "jobFailed")
        /\ run[w].pc = "jobResult"
        /\ UNCHANGED submissions
    BY <1>9 DEF RecordJobResult
  <2> QED
    BY <2>1, <1>3, <1>4, HashRun DEF RunPc
<1>10. CASE RecordSubmissionResult(w)
  <2>1. PICK o \in Outcomes :
          /\ submissions' = IF Executed(o)
                            THEN [submissions EXCEPT ![SubmissionOf(w)] =
                                    WithResult(@, run[w].verdict,
                                               run[w].sha256)]
                            ELSE submissions
          /\ MoveTo(w, IF o = "done" THEN "resolved" ELSE "jobFailed")
    BY <1>10 DEF RecordSubmissionResult
  <2>2. run[w].pc = "submissionResult"
    BY <1>10 DEF RecordSubmissionResult
  <2>3. run[w].verdict \in {"passed", "failed"}
    BY <1>2, <2>2 DEF QueueInv, RunMatchesJob, Matches, RunState
  <2>4. run[w].sha256 \in Packages \cup {None}
    BY <1>2 DEF RunState
  <2>5. (IF o = "done" THEN "resolved" ELSE "jobFailed")
          \in {"resolved", "rejected", "jobFailed"}
    OBVIOUS
  <2> QED
    BY <1>3, <1>5, <2>1, <2>2, <2>3, <2>4, <2>5, HashResult
<1>11. CASE RecordJobFailed(w)
  <2>1. /\ MoveTo(w, "submissionFailed") \/ MoveTo(w, "rejected")
        /\ UNCHANGED submissions
    BY <1>11 DEF RecordJobFailed
  <2> QED
    BY <2>1, <1>4, HashRun DEF RunPc
<1>12. CASE RecordSubmissionFailed(w)
  <2>1. PICK o \in Outcomes :
          /\ submissions' = IF Executed(o)
                            THEN [submissions EXCEPT ![SubmissionOf(w)] =
                                    WithResult(@, "failed", None)]
                            ELSE submissions
          /\ MoveTo(w, IF o = "done" THEN "resolved" ELSE "rejected")
    BY <1>12 DEF RecordSubmissionFailed
  <2>2. run[w].pc # "idle"
    BY <1>12 DEF RecordSubmissionFailed
  <2>3. (IF o = "done" THEN "resolved" ELSE "rejected")
          \in {"resolved", "rejected", "jobFailed"}
    OBVIOUS
  <2> QED
    BY <1>5, <2>1, <2>2, <2>3, HashResult
<1>13. ASSUME run' = [run EXCEPT ![w] = Idle], UNCHANGED submissions
       PROVE  HashInv'
  <2>1. run'[w].pc = "idle" /\ \A v \in Workers : v # w => run'[v] = run[v]
    BY <1>13, <1>1, IdleType DEF TypeOK, RunTypeOK
  <2> QED
    BY <1>13, <2>1, HashRun
<1> QED
  BY <1>6, <1>7, <1>8, <1>9, <1>10, <1>11, <1>12, <1>13
     DEF WorkerStep, RunStep, Acknowledge, LeaveOnProcessing

\* Every other step; marking a submission queued withdraws its verdict.
LEMMA HashStep == QueueInv /\ HashInv /\ [Next]_vars => HashInv'
<1> SUFFICES ASSUME QueueInv, HashInv, [Next]_vars PROVE HashInv'
  OBVIOUS
<1>1. ASSUME NEW r \in Requests, MarkQueued(r)
      PROVE  HashInv'
  <2>1. PICK o \in Outcomes :
          submissions' = IF Executed(o)
                         THEN [submissions EXCEPT ![request[r].submission] =
                                 MarkedQueued(@, request[r].job)]
                         ELSE submissions
    BY <1>1 DEF MarkQueued
  <2>2. request[r].submission \in Submissions /\ request[r].job \in Jobs
    BY <1>1 DEF QueueInv, RequestOwnsJob, MarkQueued
  <2>3. /\ submissions'[request[r].submission].validationStatus = "queued"
           \/ submissions' = submissions
        /\ \A q \in Submissions : q # request[r].submission =>
             submissions'[q] = submissions[q]
    BY <2>1, <2>2, MarkedFacts DEF QueueInv, TypeOK, RunTypeOK
  <2>4. UNCHANGED run
    BY <1>1 DEF MarkQueued
  <2>5. PassedHasValidHash'
    BY <2>3 DEF HashInv, PassedHasValidHash
  <2> QED
    BY <2>4, <2>5 DEF HashInv, RunHash
<1>2. ASSUME NEW w \in Workers, WorkerCrash(w)
      PROVE  HashInv'
  <2>1. run' = [run EXCEPT ![w] = Idle] /\ UNCHANGED submissions
    BY <1>2 DEF WorkerCrash
  <2>2. run'[w].pc = "idle" /\ \A v \in Workers : v # w => run'[v] = run[v]
    BY <2>1, IdleType DEF QueueInv, TypeOK, RunTypeOK
  <2> QED
    BY <2>1, <2>2, HashRun
<1>3. ASSUME UNCHANGED <<run, submissions>>
      PROVE  HashInv'
  BY <1>3, HashOther
<1>4. ASSUME NEW r \in Requests, RequestStep(r)
      PROVE  HashInv'
  BY <1>1, <1>3, <1>4 DEF RequestStep, CreateJob, Push, AfterPush
<1>5. CASE Environment
  BY <1>2, <1>3, <1>5 DEF Environment, CheckPackage, Upload, RequestCrash,
                          PollTimeout, vars
<1> QED
  BY <1>3, <1>4, <1>5, HashWorker DEF Next, vars

LEMMA HashInit == Init => HashInv
  BY DEF Init, RunInit, HashInv, RunHash, PassedHasValidHash, NewSubmission, Idle

\* "Passed" is never shown with the hash of a package that was not accepted,
\* however uploads, re-validations, faults and catch blocks interleave.
THEOREM PassedIsHashed == Spec => []PassedHasValidHash
<1>1. HashInv => PassedHasValidHash
  BY DEF HashInv
<1> QED
  BY <1>1, HashInit, HashStep, QueueInvariant, PTL DEF Spec

-----------------------------------------------------------------------------
(* No job that a submission points to is lost.                             *)

\* A handed-over job is finished or on a list.
Tracked(j) == jobs[j].status \in Finished \/ Pending(j) \/ j \in processing

HandedOverTracked ==
  /\ \A r \in Requests : request[r].pc = "mark" => Tracked(request[r].job)
  /\ \A s \in Submissions :
       submissions[s].validationJobId # None =>
         Tracked(submissions[s].validationJobId)

\* What no step does to a row of the jobs table: give it to another
\* submission, take a verdict back, or turn "failed" into anything else.
JobMoves(j) ==
  /\ jobs[j].status # "absent" => jobs'[j].submissionId = jobs[j].submissionId
  /\ jobs[j].status \in Finished => jobs'[j].status \in Finished
  /\ jobs[j].status = "failed" => jobs'[j].status = "failed"

LEMMA WriteMoves ==
  ASSUME QueueInv, NEW w \in Workers, run[w].pc # "idle",
         NEW status \in {"running", "passed", "failed"}, NEW o,
         jobs' = IF Executed(o)
                 THEN [jobs EXCEPT ![run[w].job] = WithStatus(@, status)]
                 ELSE jobs,
         jobs[run[w].job].status \in Finished => status = "failed"
  PROVE  \A j \in Jobs : JobMoves(j)
<1>1. run[w].job \in Jobs
  BY HolderHasSubmission
<1>2. /\ jobs'[run[w].job].status =
           IF Executed(o) THEN status ELSE jobs[run[w].job].status
      /\ jobs'[run[w].job].submissionId = jobs[run[w].job].submissionId
      /\ \A k \in Jobs : k # run[w].job => jobs'[k] = jobs[k]
  BY <1>1, StatusFacts DEF QueueInv, TypeOK, RunTypeOK, JobStatus
<1> QED
  BY <1>2 DEF JobMoves, Finished

LEMMA JobsMove ==
  ASSUME QueueInv, [Next]_vars
  PROVE  \A j \in Jobs : JobMoves(j)
<1>1. CASE UNCHANGED jobs
  BY <1>1 DEF JobMoves
<1>2. ASSUME NEW r \in Requests, CreateJob(r)
      PROVE  \A j \in Jobs : JobMoves(j)
  <2>1. PICK k \in Jobs, o \in Outcomes :
          /\ jobs[k].status = "absent"
          /\ jobs' = IF Executed(o)
                     THEN [jobs EXCEPT ![k] = QueuedJob(request[r].submission)]
                     ELSE jobs
    BY <1>2 DEF CreateJob
  <2>2. \A j \in Jobs : j # k => jobs'[j] = jobs[j]
    BY <2>1 DEF QueueInv, TypeOK, RunTypeOK
  <2> QED
    BY <2>1, <2>2 DEF JobMoves, Finished
<1>3. ASSUME NEW w \in Workers, MarkRunning(w)
      PROVE  \A j \in Jobs : JobMoves(j)
  <2>1. run[w].pc = "start" /\ jobs[run[w].job].status = "queued"
    BY <1>3 DEF MarkRunning, QueueInv, RunMatchesJob, Matches
  <2>2. PICK o \in Outcomes :
          jobs' = IF Executed(o)
                  THEN [jobs EXCEPT ![run[w].job] = WithStatus(@, "running")]
                  ELSE jobs
    BY <1>3 DEF MarkRunning, JobOf
  <2>3. jobs[run[w].job].status \notin Finished
    BY <2>1 DEF Finished
  <2> QED
    BY <2>1, <2>2, <2>3, WriteMoves
<1>4. ASSUME NEW w \in Workers, RecordJobResult(w)
      PROVE  \A j \in Jobs : JobMoves(j)
  <2>1. run[w].pc = "jobResult" /\ jobs[run[w].job].status = "running"
    BY <1>4 DEF RecordJobResult, QueueInv, RunMatchesJob, Matches
  <2>2. run[w].verdict \in {"passed", "failed"}
    BY <1>4 DEF RecordJobResult, QueueInv, RunMatchesJob, Matches, TypeOK,
                RunTypeOK, RunState
  <2>3. PICK o \in Outcomes :
          jobs' = IF Executed(o)
                  THEN [jobs EXCEPT
                          ![run[w].job] = WithStatus(@, run[w].verdict)]
                  ELSE jobs
    BY <1>4 DEF RecordJobResult, JobOf
  <2>4. jobs[run[w].job].status \notin Finished
    BY <2>1 DEF Finished
  <2> QED
    BY <2>1, <2>2, <2>3, <2>4, WriteMoves
<1>5. ASSUME NEW w \in Workers, RecordJobFailed(w)
      PROVE  \A j \in Jobs : JobMoves(j)
  <2>1. run[w].pc # "idle"
    BY <1>5 DEF RecordJobFailed
  <2>2. PICK o \in Outcomes :
          jobs' = IF Executed(o)
                  THEN [jobs EXCEPT ![run[w].job] = WithStatus(@, "failed")]
                  ELSE jobs
    BY <1>5 DEF RecordJobFailed, JobOf
  <2> QED
    BY <2>1, <2>2, WriteMoves
<1>6. ASSUME NEW r \in Requests, RequestStep(r)
      PROVE  \A j \in Jobs : JobMoves(j)
  BY <1>1, <1>2, <1>6 DEF RequestStep, MarkQueued, Push, AfterPush
<1>7. ASSUME NEW w \in Workers, WorkerStep(w)
      PROVE  \A j \in Jobs : JobMoves(j)
  BY <1>1, <1>3, <1>4, <1>5, <1>7
     DEF WorkerStep, RunStep, Pop, ValidatePackage, RecordSubmissionResult,
         RecordSubmissionFailed, Acknowledge, LeaveOnProcessing
<1>8. Environment => UNCHANGED jobs
  BY DEF Environment, CheckPackage, Upload, RequestCrash, WorkerCrash,
         PollTimeout, vars
<1> QED
  BY <1>1, <1>6, <1>7, <1>8 DEF Next, vars

\* A message leaves the jobs list for the processing list, and that one only
\* when its job has its verdict.
LEMMA TrackedStays ==
  ASSUME QueueInv, [Next]_vars, NEW j \in Jobs, Tracked(j)
  PROVE  Tracked(j)'
<1>1. jobs[j].status \in Finished => jobs'[j].status \in Finished
  BY JobsMove DEF JobMoves
<1>2. CASE UNCHANGED queueVars
  BY <1>1, <1>2 DEF Tracked, Pending, queueVars
<1>3. ASSUME NEW r \in Requests, Push(r)
      PROVE  Tracked(j)'
  <2>1. PICK o \in Outcomes :
          pending' = IF Executed(o) THEN Append(pending, request[r].job)
                                    ELSE pending
    BY <1>3 DEF Push
  <2>2. request[r].job \in Jobs
    BY <1>3 DEF Push, AfterPush, QueueInv, RequestOwnsJob
  <2>3. Pending(j) => Pending(j)'
    <3>1. /\ Len(pending) \in Nat
          /\ Len(pending') \in {Len(pending), Len(pending) + 1}
          /\ \A i \in 1 .. Len(pending) : pending'[i] = pending[i]
      BY <2>1, <2>2, AppendElements DEF QueueInv, TypeOK
    <3> QED
      BY <3>1 DEF Pending
  <2>4. UNCHANGED processing
    BY <1>3 DEF Push
  <2> QED
    BY <1>1, <2>3, <2>4 DEF Tracked
<1>4. ASSUME NEW w \in Workers, Pop(w)
      PROVE  Tracked(j)'
  <2>1. /\ pending # <<>>
        /\ pending' = Tail(pending)
        /\ processing' = processing \cup {Head(pending)}
    BY <1>4 DEF Pop
  <2>2. /\ Head(pending) = pending[1]
        /\ Len(pending) \in Nat
        /\ Len(pending') = Len(pending) - 1
        /\ \A i \in 1 .. Len(pending) - 1 : pending'[i] = pending[i + 1]
    BY <2>1, TailElements DEF QueueInv, TypeOK
  <2>3. ASSUME NEW i \in 1 .. Len(pending), pending[i] = j, i # 1
        PROVE  Pending(j)'
    <3>1. i - 1 \in 1 .. Len(pending') /\ pending'[i - 1] = j
      BY <2>2, <2>3
    <3> QED
      BY <3>1 DEF Pending
  <2>4. Pending(j) => Pending(j)' \/ j \in processing'
    BY <2>1, <2>2, <2>3 DEF Pending
  <2> QED
    BY <1>1, <2>1, <2>4 DEF Tracked
<1>5. ASSUME NEW w \in Workers, Acknowledge(w)
      PROVE  Tracked(j)'
  <2>1. /\ run[w].pc = "resolved"
        /\ processing' \in {processing, processing \ {run[w].job}}
        /\ UNCHANGED <<jobs, pending>>
    BY <1>5 DEF Acknowledge, JobOf
  <2>2. jobs[run[w].job].status \in Finished
    BY <2>1 DEF QueueInv, RunMatchesJob, Matches, Finished
  <2> QED
    BY <2>1, <2>2 DEF Tracked, Pending
<1> QED
  BY <1>2, <1>3, <1>4, <1>5
     DEF Next, RequestStep, WorkerStep, LeaveOnProcessing, Environment,
         WorkerCrash, PollTimeout, queueVars, vars

\* A step that hands nothing over.
LEMMA HandedOverKept ==
  ASSUME QueueInv, HandedOverTracked, [Next]_vars,
         \A r \in Requests :
           request'[r].pc = "mark" =>
             \/ request'[r] = request[r]
             \/ Tracked(request[r].job)',
         \A s \in Submissions :
           \/ submissions'[s].validationJobId = submissions[s].validationJobId
           \/ \E j \in Jobs : /\ submissions'[s].validationJobId = j
                              /\ Tracked(j)
  PROVE  HandedOverTracked'
<1>1. \A j \in Jobs : Tracked(j) => Tracked(j)'
  BY TrackedStays
<1>2. ASSUME NEW r \in Requests, request'[r].pc = "mark"
      PROVE  Tracked(request[r].job)'
  <2>1. CASE request'[r] = request[r]
    <3>1. request[r].job \in Jobs /\ Tracked(request[r].job)
      BY <1>2, <2>1 DEF QueueInv, RequestOwnsJob, HandedOverTracked
    <3> QED
      BY <1>1, <2>1, <3>1 DEF Tracked, Pending
  <2>2. CASE Tracked(request[r].job)'
    BY <2>2
  <2> QED
    BY <1>2, <2>1, <2>2
<1>3. ASSUME NEW s \in Submissions, submissions'[s].validationJobId # None
      PROVE  Tracked(submissions[s].validationJobId)'
  <2>1. PICK j \in Jobs : submissions'[s].validationJobId = j /\ Tracked(j)
    BY <1>3 DEF QueueInv, TypeOK, RunTypeOK, SubmissionRow, HandedOverTracked
  <2> QED
    BY <1>1, <2>1 DEF Tracked, Pending
<1> QED
  BY <1>2, <1>3 DEF HandedOverTracked

\* A worker's verdict does not change which job a submission points to.
LEMMA ResultKeepsJobId ==
  ASSUME QueueInv, NEW w \in Workers, run[w].pc # "idle",
         NEW verdict \in {"passed", "failed"},
         NEW sha \in Packages \cup {None}, NEW o,
         submissions' = IF Executed(o)
                        THEN [submissions EXCEPT ![SubmissionOf(w)] =
                                WithResult(@, verdict, sha)]
                        ELSE submissions
  PROVE  \A s \in Submissions :
           submissions'[s].validationJobId = submissions[s].validationJobId
<1>1. SubmissionOf(w) \in Submissions
  BY HolderHasSubmission
<1> DEFINE t == SubmissionOf(w)
<1>2. submissions \in [Submissions -> SubmissionRow]
  BY DEF QueueInv, TypeOK, RunTypeOK
<1>3. /\ submissions'[t].validationJobId = submissions[t].validationJobId
      /\ \A s \in Submissions : s # t => submissions'[s] = submissions[s]
  BY <1>1, <1>2, ResultFacts
<1> QED
  BY <1>3

LEMMA WorkerKeepsJobId ==
  ASSUME QueueInv, NEW w \in Workers, WorkerStep(w)
  PROVE  \A s \in Submissions :
           submissions'[s].validationJobId = submissions[s].validationJobId
<1>1. CASE RecordSubmissionResult(w)
  <2>1. PICK o \in Outcomes :
          submissions' = IF Executed(o)
                         THEN [submissions EXCEPT ![SubmissionOf(w)] =
                                 WithResult(@, run[w].verdict, run[w].sha256)]
                         ELSE submissions
    BY <1>1 DEF RecordSubmissionResult
  <2>2. /\ run[w].pc # "idle"
        /\ run[w].verdict \in {"passed", "failed"}
        /\ run[w].sha256 \in Packages \cup {None}
    BY <1>1 DEF RecordSubmissionResult, QueueInv, RunMatchesJob, Matches,
                TypeOK, RunTypeOK, RunState
  <2> QED
    BY <2>1, <2>2, ResultKeepsJobId
<1>2. CASE RecordSubmissionFailed(w)
  <2>1. PICK o \in Outcomes :
          submissions' = IF Executed(o)
                         THEN [submissions EXCEPT ![SubmissionOf(w)] =
                                 WithResult(@, "failed", None)]
                         ELSE submissions
    BY <1>2 DEF RecordSubmissionFailed
  <2>2. run[w].pc # "idle"
    BY <1>2 DEF RecordSubmissionFailed
  <2> QED
    BY <2>1, <2>2, ResultKeepsJobId
<1> QED
  BY <1>1, <1>2
     DEF WorkerStep, RunStep, Pop, MarkRunning, ValidatePackage,
         RecordJobResult, RecordJobFailed, Acknowledge, LeaveOnProcessing

LEMMA HandedOverStep ==
  QueueInv /\ HandedOverTracked /\ [Next]_vars => HandedOverTracked'
<1> SUFFICES ASSUME QueueInv, HandedOverTracked, [Next]_vars
             PROVE  HandedOverTracked'
  OBVIOUS
<1>1. request \in [Requests -> RequestState]
  BY DEF QueueInv, TypeOK, RunTypeOK
<1>2. ASSUME NEW r \in Requests, NEW state, state.pc # "mark",
             request' = [request EXCEPT ![r] = state],
             UNCHANGED submissions
      PROVE  HandedOverTracked'
  BY <1>1, <1>2, HandedOverKept
<1>3. CASE UNCHANGED <<request, submissions>>
  BY <1>3, HandedOverKept
<1>4. ASSUME NEW r \in Requests, CreateJob(r)
      PROVE  HandedOverTracked'
  <2>1. PICK j \in Jobs, o \in Outcomes :
          request' = [request EXCEPT
                        ![r] = IF o = "done"
                               THEN [@ EXCEPT !.pc = "push", !.job = j]
                               ELSE NoRequest]
    BY <1>4 DEF CreateJob
  <2> DEFINE state == IF o = "done"
                      THEN [request[r] EXCEPT !.pc = "push", !.job = j]
                      ELSE NoRequest
  <2>2. state.pc # "mark"
    BY <1>1 DEF RequestState, NoRequest
  <2>3. request' = [request EXCEPT ![r] = state] /\ UNCHANGED submissions
    BY <1>4, <2>1 DEF CreateJob
  <2> HIDE DEF state
  <2> QED
    BY <1>2, <2>2, <2>3
<1>5. ASSUME NEW r \in Requests, Push(r)
      PROVE  HandedOverTracked'
  <2>1. PICK o \in Outcomes :
          /\ request' = [request EXCEPT ![r] = IF o = "done"
                                              THEN [@ EXCEPT !.pc = "mark"]
                                              ELSE NoRequest]
          /\ pending' = IF Executed(o) THEN Append(pending, request[r].job)
                                       ELSE pending
          /\ UNCHANGED submissions
    BY <1>5 DEF Push, AfterPush
  <2>2. request[r].job \in Jobs
    BY <1>5 DEF Push, AfterPush, QueueInv, RequestOwnsJob
  <2>3. /\ \A q \in Requests : q # r => request'[q] = request[q]
        /\ request'[r].pc = "mark" =>
             o = "done" /\ request'[r].job = request[r].job
    BY <1>1, <2>1 DEF RequestState, NoRequest
  <2>4. o = "done" => /\ Len(pending) + 1 \in 1 .. Len(pending')
                      /\ pending'[Len(pending) + 1] = request[r].job
    BY <2>1, <2>2, AppendElements DEF Executed, QueueInv, TypeOK
  <2>5. request'[r].pc = "mark" => Tracked(request[r].job)'
    BY <2>3, <2>4 DEF Tracked, Pending
  <2> QED
    BY <2>1, <2>3, <2>5, HandedOverKept
<1>6. ASSUME NEW r \in Requests, MarkQueued(r)
      PROVE  HandedOverTracked'
  <2> DEFINE s == request[r].submission
             j == request[r].job
  <2>1. /\ request[r].pc = "mark"
        /\ request' = [request EXCEPT ![r] = NoRequest]
    BY <1>6 DEF MarkQueued
  <2>2. j \in Jobs /\ s \in Submissions /\ Tracked(j)
    BY <2>1 DEF QueueInv, RequestOwnsJob, HandedOverTracked
  <2>3. PICK o \in Outcomes :
          submissions' = IF Executed(o)
                         THEN [submissions EXCEPT ![s] = MarkedQueued(@, j)]
                         ELSE submissions
    BY <1>6 DEF MarkQueued
  <2>4. /\ submissions'[s].validationJobId =
             IF Executed(o) THEN j ELSE submissions[s].validationJobId
        /\ \A q \in Submissions : q # s => submissions'[q] = submissions[q]
    BY <2>2, <2>3, MarkedFacts DEF QueueInv, TypeOK, RunTypeOK
  <2>5. \A q \in Requests : request'[q].pc = "mark" => request'[q] = request[q]
    BY <1>1, <2>1 DEF NoRequest
  <2> QED
    BY <2>2, <2>4, <2>5, HandedOverKept
<1>7. ASSUME NEW w \in Workers, WorkerStep(w)
      PROVE  HandedOverTracked'
  <2>1. UNCHANGED request
    BY <1>7 DEF WorkerStep, RunStep, Pop, MarkRunning, ValidatePackage,
                RecordJobResult, RecordSubmissionResult, RecordJobFailed,
                RecordSubmissionFailed, Acknowledge, LeaveOnProcessing
  <2> QED
    BY <1>7, <2>1, WorkerKeepsJobId, HandedOverKept
<1>8. ASSUME NEW r \in Requests, NEW s \in Submissions, CheckPackage(r, s)
      PROVE  HandedOverTracked'
  BY <1>2, <1>8 DEF CheckPackage
<1>9. ASSUME NEW r \in Requests, RequestCrash(r)
      PROVE  HandedOverTracked'
  <2>1. NoRequest.pc # "mark"
    BY DEF NoRequest
  <2> QED
    BY <1>2, <1>9, <2>1 DEF RequestCrash
<1>10. CASE Environment
  BY <1>3, <1>8, <1>9, <1>10 DEF Environment, Upload, WorkerCrash, PollTimeout,
                                 vars
<1> QED
  BY <1>3, <1>4, <1>5, <1>6, <1>7, <1>10 DEF Next, RequestStep, vars

LEMMA HandedOverInit == Init => HandedOverTracked
  BY DEF Init, RunInit, HandedOverTracked, NewSubmission, NoRequest

\* The job a submission points to has its verdict or its message is still on
\* one of the two lists: BRPOPLPUSH and LREM leave no gap, wherever requests
\* and workers die and whichever replies are lost.
THEOREM MarkedJobsKept == Spec => []MarkedJobIsNotLost
<1>1. HandedOverTracked => MarkedJobIsNotLost
  BY DEF HandedOverTracked, Tracked, MarkedJobIsNotLost
<1> QED
  BY <1>1, HandedOverInit, HandedOverStep, QueueInvariant, PTL DEF Spec

-----------------------------------------------------------------------------
(* The verdict shown on a submission is that of one of its own jobs.       *)

\* VerdictBacked, with the backing job not about to be acknowledged.
Backs(j, s) ==
  /\ jobs[j].submissionId = s
  /\ \/ jobs[j].status = "passed"
     \/ /\ jobs[j].status = "failed"
        /\ j \in processing
        /\ \A w \in Workers : ~(run[w].pc = "resolved" /\ run[w].job = j)

StrongVerdict ==
  \A s \in Submissions :
    /\ submissions[s].validationStatus = "failed" =>
         \E j \in Jobs : jobs[j].submissionId = s /\ jobs[j].status = "failed"
    /\ submissions[s].validationStatus = "passed" =>
         \E j \in Jobs : Backs(j, s)

\* A worker writes to its own submission the verdict its job's row has.
Shows(j, s) ==
  /\ jobs[j].submissionId = s
  /\ jobs[j].status \in Finished
  /\ submissions'[s].validationStatus = jobs[j].status
  /\ \A q \in Submissions : q # s =>
       submissions'[q].validationStatus = submissions[q].validationStatus

SameShown ==
  \A s \in Submissions :
    submissions'[s].validationStatus = submissions[s].validationStatus

LEMMA WriteShows ==
  ASSUME QueueInv, NEW w \in Workers, run[w].pc # "idle",
         NEW verdict \in {"passed", "failed"},
         NEW sha \in Packages \cup {None}, NEW o,
         jobs[run[w].job].status = verdict,
         submissions' = IF Executed(o)
                        THEN [submissions EXCEPT ![SubmissionOf(w)] =
                                WithResult(@, verdict, sha)]
                        ELSE submissions
  PROVE  /\ Executed(o) => Shows(run[w].job, SubmissionOf(w))
         /\ ~Executed(o) => SameShown
<1> DEFINE t == SubmissionOf(w)
<1>1. t \in Submissions /\ jobs[run[w].job].submissionId = t
  BY HolderHasSubmission DEF SubmissionOf, JobOf
<1>2. submissions \in [Submissions -> SubmissionRow]
  BY DEF QueueInv, TypeOK, RunTypeOK
<1>3. /\ submissions'[t].validationStatus =
           IF Executed(o) THEN verdict ELSE submissions[t].validationStatus
      /\ \A s \in Submissions : s # t => submissions'[s] = submissions[s]
  BY <1>1, <1>2, ResultFacts
<1> QED
  BY <1>1, <1>3 DEF Shows, SameShown, Finished

\* updateSubmissionValidationResult with the summary, when it is reached.
LEMMA ResultShows ==
  ASSUME QueueInv, NEW w \in Workers, RecordSubmissionResult(w)
  PROVE  \/ Shows(run[w].job, SubmissionOf(w))
         \/ SameShown /\ run'[w].pc # "resolved"
<1>1. PICK o \in Outcomes :
        /\ submissions' = IF Executed(o)
                          THEN [submissions EXCEPT ![SubmissionOf(w)] =
                                  WithResult(@, run[w].verdict, run[w].sha256)]
                          ELSE submissions
        /\ MoveTo(w, IF o = "done" THEN "resolved" ELSE "jobFailed")
  BY DEF RecordSubmissionResult
<1>2. /\ run[w].pc # "idle"
      /\ jobs[run[w].job].status = run[w].verdict
      /\ run[w].verdict \in {"passed", "failed"}
      /\ run[w].sha256 \in Packages \cup {None}
  BY DEF RecordSubmissionResult, QueueInv, RunMatchesJob, Matches, TypeOK,
         RunTypeOK, RunState
<1>3. o # "done" => run'[w].pc # "resolved"
  BY <1>1, MoveFacts DEF QueueInv, TypeOK, RunTypeOK, RunPc
<1> QED
  BY <1>1, <1>2, <1>3, WriteShows DEF Executed

\* ... and the one in the catch block.
LEMMA FailureShows ==
  ASSUME QueueInv, NEW w \in Workers, RecordSubmissionFailed(w)
  PROVE  \/ Shows(run[w].job, SubmissionOf(w))
         \/ SameShown /\ run'[w].pc # "resolved"
<1>1. PICK o \in Outcomes :
        /\ submissions' = IF Executed(o)
                          THEN [submissions EXCEPT ![SubmissionOf(w)] =
                                  WithResult(@, "failed", None)]
                          ELSE submissions
        /\ MoveTo(w, IF o = "done" THEN "resolved" ELSE "rejected")
  BY DEF RecordSubmissionFailed
<1>2. run[w].pc # "idle" /\ jobs[run[w].job].status = "failed"
  BY DEF RecordSubmissionFailed, QueueInv, RunMatchesJob, Matches
<1>3. o # "done" => run'[w].pc # "resolved"
  BY <1>1, MoveFacts DEF QueueInv, TypeOK, RunTypeOK, RunPc
<1> QED
  BY <1>1, <1>2, <1>3, WriteShows DEF Executed

\* markSubmissionValidationQueued, when it is reached.
LEMMA MarkShows ==
  ASSUME QueueInv, NEW r \in Requests, MarkQueued(r)
  PROVE  \/ SameShown
         \/ /\ submissions'[request[r].submission].validationStatus = "queued"
            /\ \A q \in Submissions : q # request[r].submission =>
                 submissions'[q].validationStatus
                   = submissions[q].validationStatus
<1> DEFINE s == request[r].submission
           j == request[r].job
<1>1. j \in Jobs /\ s \in Submissions
  BY DEF QueueInv, RequestOwnsJob, MarkQueued
<1>2. PICK o \in Outcomes :
        submissions' = IF Executed(o)
                       THEN [submissions EXCEPT ![s] = MarkedQueued(@, j)]
                       ELSE submissions
  BY DEF MarkQueued
<1>3. /\ submissions'[s].validationStatus =
           IF Executed(o) THEN "queued" ELSE submissions[s].validationStatus
      /\ \A q \in Submissions : q # s => submissions'[q] = submissions[q]
  BY <1>1, <1>2, MarkedFacts DEF QueueInv, TypeOK, RunTypeOK
<1> QED
  BY <1>3 DEF SameShown

\* So what a step can do to the verdicts shown.
LEMMA ShownMoves ==
  ASSUME QueueInv, [Next]_vars, NEW s \in Submissions
  PROVE  \/ submissions'[s].validationStatus = submissions[s].validationStatus
         \/ submissions'[s].validationStatus = "queued"
         \/ \E j \in Jobs : Shows(j, s) /\ UNCHANGED jobs
<1>1. CASE UNCHANGED submissions
  BY <1>1
<1>2. ASSUME NEW r \in Requests, MarkQueued(r)
      PROVE  \/ submissions'[s].validationStatus
                  = submissions[s].validationStatus
             \/ submissions'[s].validationStatus = "queued"
  BY <1>2, MarkShows DEF SameShown
<1>3. ASSUME NEW w \in Workers,
             RecordSubmissionResult(w) \/ RecordSubmissionFailed(w)
      PROVE  \/ submissions'[s].validationStatus
                  = submissions[s].validationStatus
             \/ \E j \in Jobs : Shows(j, s) /\ UNCHANGED jobs
  <2>1. run[w].job \in Jobs /\ UNCHANGED jobs
    BY <1>3, HolderHasSubmission DEF RecordSubmissionResult, RecordSubmissionFailed
  <2>2. Shows(run[w].job, SubmissionOf(w)) \/ SameShown
    BY <1>3, ResultShows, FailureShows
  <2>3. CASE SubmissionOf(w) = s
    BY <2>1, <2>2, <2>3 DEF SameShown
  <2>4. CASE SubmissionOf(w) # s
    BY <2>2, <2>4 DEF SameShown, Shows
  <2> QED
    BY <2>3, <2>4
<1>4. ASSUME NEW w \in Workers, WorkerStep(w)
      PROVE  \/ submissions'[s].validationStatus
                  = submissions[s].validationStatus
             \/ \E j \in Jobs : Shows(j, s) /\ UNCHANGED jobs
  BY <1>1, <1>3, <1>4
     DEF WorkerStep, RunStep, Pop, MarkRunning, ValidatePackage,
         RecordJobResult, RecordJobFailed, Acknowledge, LeaveOnProcessing
<1>5. ASSUME NEW r \in Requests, RequestStep(r)
      PROVE  \/ submissions'[s].validationStatus
                  = submissions[s].validationStatus
             \/ submissions'[s].validationStatus = "queued"
  BY <1>1, <1>2, <1>5 DEF RequestStep, CreateJob, Push, AfterPush
<1>6. Environment => UNCHANGED submissions
  BY DEF Environment, CheckPackage, Upload, RequestCrash, WorkerCrash,
         PollTimeout, vars
<1> QED
  BY <1>1, <1>4, <1>5, <1>6 DEF Next, vars

\* A worker that moves on to anything but "resolved" keeps every Backs.
LEMMA BacksMove ==
  ASSUME QueueInv, [Next]_vars, NEW j \in Jobs, NEW s \in Submissions,
         Backs(j, s),
         NEW w \in Workers,
         run' \in [Workers -> RunState],
         \A v \in Workers : v # w => run'[v] = run[v],
         run'[w].pc = "resolved" /\ run'[w].job = j => jobs'[j].status = "passed",
         j \in processing => j \in processing' \/ jobs'[j].status = "passed",
         jobs'[j].status # jobs[j].status =>
           /\ j \in processing'
           /\ \A v \in Workers : run'[v].job = j => run'[v].pc # "resolved"
  PROVE  Backs(j, s)'
<1>1. JobMoves(j)
  BY JobsMove
<1>2. /\ jobs'[j].submissionId = s
      /\ jobs'[j].status \in Finished
  BY <1>1 DEF Backs, JobMoves, Finished
<1>3. CASE jobs[j].status = "failed"
  BY <1>1, <1>2, <1>3 DEF Backs, JobMoves, Finished
<1>4. CASE jobs[j].status = "passed"
  BY <1>1, <1>2, <1>4 DEF Backs, JobMoves, Finished
<1> QED
  BY <1>3, <1>4 DEF Backs

LEMMA BacksWorker ==
  ASSUME QueueInv, [Next]_vars, NEW j \in Jobs, NEW s \in Submissions,
         Backs(j, s), submissions'[s].validationStatus # "failed",
         NEW w \in Workers, WorkerStep(w)
  PROVE  Backs(j, s)'
<1>1. TypeOK
  BY DEF QueueInv
<1>2. JobMoves(j)
  BY JobsMove
<1>3. \A pc \in RunPc : MoveTo(w, pc) =>
        /\ run' \in [Workers -> RunState]
        /\ run'[w].pc = pc
        /\ run'[w].job = run[w].job
        /\ \A v \in Workers : v # w => run'[v] = run[v]
  BY <1>1, MoveFacts DEF TypeOK, RunTypeOK
<1>4. run[w].pc # "idle" =>
        /\ run[w].job \in processing /\ run[w].job \in Jobs
        /\ jobs[run[w].job].submissionId = SubmissionOf(w)
        /\ \A v \in Workers : v # w /\ run[v].pc # "idle"
                               => run[v].job # run[w].job
  BY DEF QueueInv, HeldOnce, TypeOK, SubmissionOf, JobOf
<1>5. Matches(run[w].pc, jobs[run[w].job].status, run[w].verdict)
  BY DEF QueueInv, RunMatchesJob
<1>6. jobs[j].status \in {"passed", "failed"}
  BY DEF Backs
\* The job table, the lists and the move of w to anything but "resolved".
<1>7. ASSUME NEW pc \in RunPc, pc # "resolved", MoveTo(w, pc),
             jobs'[j].status # jobs[j].status =>
               run[w].pc # "idle" /\ run[w].job = j,
             UNCHANGED processing
      PROVE  Backs(j, s)'
  <2>1. jobs'[j].status # jobs[j].status =>
          /\ j \in processing'
          /\ \A v \in Workers : run'[v].job = j => run'[v].pc # "resolved"
    BY <1>3, <1>4, <1>7
  <2> QED
    BY <1>3, <1>7, <2>1, BacksMove
<1>8. ASSUME UNCHANGED <<jobs, processing>>,
             run' \in [Workers -> RunState],
             \A v \in Workers : v # w => run'[v] = run[v],
             run'[w].pc # "resolved"
      PROVE  Backs(j, s)'
  BY <1>8, BacksMove
<1>9. CASE Pop(w)
  <2>1. /\ run' = [run EXCEPT ![w] = Begun(Head(pending))]
        /\ processing' = processing \cup {Head(pending)}
        /\ UNCHANGED jobs
        /\ Head(pending) \in Jobs
    BY <1>1, <1>9, TailElements DEF Pop, TypeOK
  <2>2. /\ run' \in [Workers -> RunState]
        /\ run'[w].pc # "resolved"
        /\ \A v \in Workers : v # w => run'[v] = run[v]
    BY <1>1, <2>1, BegunType DEF TypeOK, RunTypeOK
  <2> QED
    BY <2>1, <2>2, BacksMove
<1>10. CASE MarkRunning(w) /\ UNCHANGED queueVars
  <2>1. jobs'[j].status = jobs[j].status
    <3>1. jobs[run[w].job].status = "queued"
      BY <1>5, <1>10 DEF MarkRunning, Matches
    <3>2. PICK o \in Outcomes :
            jobs' = IF Executed(o)
                    THEN [jobs EXCEPT ![run[w].job] = WithStatus(@, "running")]
                    ELSE jobs
      BY <1>10 DEF MarkRunning, JobOf
    <3> QED
      BY <1>1, <1>6, <3>1, <3>2 DEF TypeOK, RunTypeOK
  <2>2. /\ MoveTo(w, "read") \/ MoveTo(w, "rejected")
        /\ UNCHANGED processing
    BY <1>10 DEF MarkRunning, queueVars
  <2> QED
    BY <1>7, <2>1, <2>2 DEF RunPc
<1>11. CASE ValidatePackage(w) /\ UNCHANGED queueVars
  <2>1. UNCHANGED <<jobs, processing>>
    BY <1>11 DEF ValidatePackage, queueVars
  <2>2. run' \in [Workers -> RunState]
    BY WorkerPreservesQueue DEF QueueInv, TypeOK, RunTypeOK
  <2>3. /\ run'[w].pc # "resolved"
        /\ \A v \in Workers : v # w => run'[v] = run[v]
    BY <1>1, <1>11 DEF ValidatePackage, MoveTo, TypeOK, RunTypeOK, RunState
  <2> QED
    BY <1>8, <2>1, <2>2, <2>3
<1>12. CASE RecordJobResult(w) /\ UNCHANGED queueVars
  <2>1. jobs'[j].status = jobs[j].status
    <3>1. jobs[run[w].job].status = "running"
      BY <1>5, <1>12 DEF RecordJobResult, Matches
    <3>2. PICK o \in Outcomes :
            jobs' = IF Executed(o)
                    THEN [jobs EXCEPT
                            ![run[w].job] = WithStatus(@, run[w].verdict)]
                    ELSE jobs
      BY <1>12 DEF RecordJobResult, JobOf
    <3> QED
      BY <1>1, <1>6, <3>1, <3>2 DEF TypeOK, RunTypeOK
  <2>2. /\ MoveTo(w, "submissionResult") \/ MoveTo(w, "jobFailed")
        /\ UNCHANGED processing
    BY <1>12 DEF RecordJobResult, queueVars
  <2> QED
    BY <1>7, <2>1, <2>2 DEF RunPc
<1>13. CASE RecordJobFailed(w) /\ UNCHANGED queueVars
  <2>1. /\ MoveTo(w, "submissionFailed") \/ MoveTo(w, "rejected")
        /\ UNCHANGED processing
        /\ run[w].pc # "idle"
    BY <1>13 DEF RecordJobFailed, queueVars
  <2>2. jobs'[j].status # jobs[j].status => run[w].job = j
    <3>1. PICK o \in Outcomes :
            jobs' = IF Executed(o)
                    THEN [jobs EXCEPT ![run[w].job] = WithStatus(@, "failed")]
                    ELSE jobs
      BY <1>13 DEF RecordJobFailed, JobOf
    <3> QED
      BY <1>1, <3>1 DEF TypeOK, RunTypeOK
  <2> QED
    BY <1>7, <2>1, <2>2 DEF RunPc
<1>14. ASSUME RecordSubmissionResult(w) \/ RecordSubmissionFailed(w),
              UNCHANGED queueVars
       PROVE  Backs(j, s)'
  <2>1. UNCHANGED <<jobs, processing>> /\ run[w].pc # "idle"
    BY <1>14 DEF RecordSubmissionResult, RecordSubmissionFailed, queueVars
  <2>2. MoveTo(w, "resolved") \/ MoveTo(w, "jobFailed") \/ MoveTo(w, "rejected")
    BY <1>14 DEF RecordSubmissionResult, RecordSubmissionFailed
  <2>3. /\ run' \in [Workers -> RunState]
        /\ run'[w].job = run[w].job
        /\ \A v \in Workers : v # w => run'[v] = run[v]
    BY <1>3, <2>2 DEF RunPc
  <2>4. run'[w].pc = "resolved" /\ run[w].job = j => jobs[j].status = "passed"
    <3>1. run'[w].pc = "resolved" => Shows(run[w].job, SubmissionOf(w))
      BY <1>14, ResultShows, FailureShows
    <3> QED
      BY <1>4, <1>6, <2>1, <3>1 DEF Shows, Backs
  <2> QED
    BY <2>1, <2>3, <2>4, BacksMove
<1>15. CASE Acknowledge(w)
  <2>1. /\ run[w].pc = "resolved"
        /\ run' = [run EXCEPT ![w] = Idle]
        /\ processing' \in {processing, processing \ {run[w].job}}
        /\ UNCHANGED jobs
    BY <1>15 DEF Acknowledge, JobOf
  <2>2. /\ run' \in [Workers -> RunState]
        /\ run'[w].pc = "idle"
        /\ \A v \in Workers : v # w => run'[v] = run[v]
    BY <1>1, <2>1, IdleType DEF TypeOK, RunTypeOK
  <2>3. CASE run[w].job = j
    <3>1. jobs'[j].status = "passed" /\ jobs'[j].submissionId = s
      BY <2>1, <2>3 DEF Backs
    <3> QED
      BY <3>1 DEF Backs
  <2>4. CASE run[w].job # j
    BY <2>1, <2>2, <2>4, BacksMove
  <2> QED
    BY <2>3, <2>4
<1>16. CASE LeaveOnProcessing(w)
  <2>1. /\ run' = [run EXCEPT ![w] = Idle]
        /\ UNCHANGED <<jobs, processing>>
    BY <1>16 DEF LeaveOnProcessing, queueVars
  <2>2. /\ run' \in [Workers -> RunState]
        /\ run'[w].pc = "idle"
        /\ \A v \in Workers : v # w => run'[v] = run[v]
    BY <1>1, <2>1, IdleType DEF TypeOK, RunTypeOK
  <2> QED
    BY <1>8, <2>1, <2>2
<1> QED
  BY <1>9, <1>10, <1>11, <1>12, <1>13, <1>14, <1>15, <1>16
     DEF WorkerStep, RunStep

\* A failed job stays failed and a backing job goes on backing its verdict.
LEMMA VerdictStep == QueueInv /\ StrongVerdict /\ [Next]_vars => StrongVerdict'
<1> SUFFICES ASSUME QueueInv, StrongVerdict, [Next]_vars,
                    NEW s \in Submissions
             PROVE  /\ submissions'[s].validationStatus = "failed" =>
                         \E j \in Jobs : /\ jobs'[j].submissionId = s
                                        /\ jobs'[j].status = "failed"
                    /\ submissions'[s].validationStatus = "passed" =>
                         \E j \in Jobs : Backs(j, s)'
  BY DEF StrongVerdict
<1>1. \A j \in Jobs : JobMoves(j)
  BY JobsMove
<1>2. ASSUME NEW j \in Jobs, Backs(j, s),
             submissions'[s].validationStatus = "passed"
      PROVE  Backs(j, s)'
  <2>1. ASSUME UNCHANGED <<jobs, run, processing>>
        PROVE  Backs(j, s)'
    BY <1>2, <2>1 DEF Backs
  <2>2. ASSUME NEW r \in Requests, RequestStep(r)
        PROVE  Backs(j, s)'
    <3>1. CASE CreateJob(r) /\ UNCHANGED queueVars
      <4>1. PICK k \in Jobs, o \in Outcomes :
              /\ jobs[k].status = "absent"
              /\ jobs' = IF Executed(o)
                         THEN [jobs EXCEPT
                                 ![k] = QueuedJob(request[r].submission)]
                         ELSE jobs
        BY <3>1 DEF CreateJob
      <4>2. k # j
        BY <1>2, <4>1 DEF Backs
      <4>3. jobs'[j] = jobs[j]
        BY <4>1, <4>2 DEF QueueInv, TypeOK, RunTypeOK
      <4>4. UNCHANGED <<run, processing>>
        BY <3>1 DEF CreateJob, queueVars
      <4> QED
        BY <1>2, <4>3, <4>4 DEF Backs
    <3>2. CASE MarkQueued(r) /\ UNCHANGED queueVars
      BY <2>1, <3>2 DEF MarkQueued, queueVars
    <3>3. CASE Push(r)
      BY <2>1, <3>3 DEF Push, AfterPush
    <3> QED
      BY <2>2, <3>1, <3>2, <3>3 DEF RequestStep
  <2>3. ASSUME NEW w \in Workers, WorkerStep(w)
        PROVE  Backs(j, s)'
    BY <1>2, <2>3, BacksWorker
  <2>4. ASSUME NEW w \in Workers, WorkerCrash(w)
        PROVE  Backs(j, s)'
    <3>1. run' = [run EXCEPT ![w] = Idle] /\ UNCHANGED <<jobs, processing>>
      BY <2>4 DEF WorkerCrash, queueVars
    <3>2. /\ run' \in [Workers -> RunState]
          /\ run'[w].pc = "idle"
          /\ \A v \in Workers : v # w => run'[v] = run[v]
      BY <3>1, IdleType DEF QueueInv, TypeOK, RunTypeOK
    <3> QED
      BY <1>2, <3>1, <3>2, BacksMove
  <2>5. CASE Environment
    BY <2>1, <2>4, <2>5 DEF Environment, CheckPackage, Upload, RequestCrash,
                            PollTimeout, queueVars, vars
  <2> QED
    BY <2>1, <2>2, <2>3, <2>5 DEF Next, vars
<1>3. CASE submissions'[s].validationStatus = submissions[s].validationStatus
  <2>1. submissions'[s].validationStatus = "failed" =>
          \E j \in Jobs : /\ jobs'[j].submissionId = s
                         /\ jobs'[j].status = "failed"
    <3> SUFFICES ASSUME submissions[s].validationStatus = "failed"
                 PROVE  \E j \in Jobs : /\ jobs'[j].submissionId = s
                                      /\ jobs'[j].status = "failed"
      BY <1>3
    <3>1. PICK j \in Jobs : jobs[j].submissionId = s /\ jobs[j].status = "failed"
      BY DEF StrongVerdict
    <3>2. jobs'[j].submissionId = s /\ jobs'[j].status = "failed"
      BY <1>1, <3>1 DEF JobMoves
    <3> QED
      BY <3>2
  <2>2. submissions'[s].validationStatus = "passed" =>
          \E j \in Jobs : Backs(j, s)'
    BY <1>2, <1>3 DEF StrongVerdict
  <2> QED
    BY <2>1, <2>2
<1>4. CASE submissions'[s].validationStatus = "queued"
  BY <1>4
<1>5. CASE \E j \in Jobs : Shows(j, s) /\ UNCHANGED jobs
  BY <1>5 DEF Shows, Backs
<1> QED
  BY <1>3, <1>4, <1>5, ShownMoves

LEMMA VerdictInit == Init => StrongVerdict
  BY DEF Init, RunInit, StrongVerdict, NewSubmission

\* What a submission shows is the verdict of a job of its own, and a "passed"
\* that its job lost to a catch block still has a message on the processing
\* list: no worker acknowledges a job before the submission agrees with it.
THEOREM VerdictsBacked == Spec => []VerdictBacked
<1>1. StrongVerdict => VerdictBacked
  BY DEF StrongVerdict, Backs, VerdictBacked
<1> QED
  BY <1>1, VerdictInit, VerdictStep, QueueInvariant, PTL DEF Spec

-----------------------------------------------------------------------------
(* The pipeline implements ValidationContract.                             *)

\* Only three kinds of write change what the contract sees of a job.
LEMMA JobSeen ==
  ASSUME QueueInv, NEW j \in Jobs, NEW status \in JobStatus, NEW o,
         jobs' = IF Executed(o)
                 THEN [jobs EXCEPT ![j] = WithStatus(@, status)]
                 ELSE jobs
  PROVE  /\ [k \in Jobs |-> jobs'[k].status] =
              IF Executed(o)
              THEN [[k \in Jobs |-> jobs[k].status] EXCEPT ![j] = status]
              ELSE [k \in Jobs |-> jobs[k].status]
         /\ [k \in Jobs |-> jobs'[k].submissionId] =
              [k \in Jobs |-> jobs[k].submissionId]
<1>1. /\ jobs'[j].status = IF Executed(o) THEN status ELSE jobs[j].status
      /\ jobs'[j].submissionId = jobs[j].submissionId
      /\ \A k \in Jobs : k # j => jobs'[k] = jobs[k]
  BY StatusFacts DEF QueueInv, TypeOK, RunTypeOK
<1> QED
  BY <1>1

LEMMA ShownSeen ==
  ASSUME NEW s \in Submissions, NEW status,
         submissions'[s].validationStatus = status,
         \A q \in Submissions : q # s =>
           submissions'[q].validationStatus = submissions[q].validationStatus
  PROVE  [q \in Submissions |-> submissions'[q].validationStatus] =
           [[q \in Submissions |-> submissions[q].validationStatus]
              EXCEPT ![s] = status]
  OBVIOUS

\* A submission gets the verdict of its job: the contract's Show.
LEMMA ShowStep ==
  ASSUME QueueInv, NEW j \in Jobs, NEW s \in Submissions,
         Shows(j, s), UNCHANGED jobs
  PROVE  Contract!Next
<1>1. Contract!Show(j, s)
  BY ShownSeen DEF Shows, Contract!Show, Finished
<1> QED
  BY <1>1 DEF Contract!Next

LEMMA ContractRequest ==
  ASSUME QueueInv, NEW r \in Requests, RequestStep(r)
  PROVE  Contract!Next \/ UNCHANGED Contract!contractVars
<1>1. CASE CreateJob(r)
  <2>0. PICK s \in Submissions : s = request[r].submission
    BY <1>1 DEF CreateJob, QueueInv, RequestOwnsJob
  <2>1. PICK j \in Jobs, o \in Outcomes :
          /\ jobs[j].status = "absent"
          /\ jobs' = IF Executed(o) THEN [jobs EXCEPT ![j] = QueuedJob(s)]
                                    ELSE jobs
    BY <1>1, <2>0 DEF CreateJob
  <2>2. UNCHANGED submissions
    BY <1>1 DEF CreateJob
  <2>3. CASE Executed(o)
    <3>1. /\ jobs'[j].status = "queued"
          /\ jobs'[j].submissionId = s
          /\ \A k \in Jobs : k # j => jobs'[k] = jobs[k]
      BY <2>1, <2>3 DEF QueueInv, TypeOK, RunTypeOK, QueuedJob
    <3>2. /\ [k \in Jobs |-> jobs'[k].status] =
               [[k \in Jobs |-> jobs[k].status] EXCEPT ![j] = "queued"]
          /\ [k \in Jobs |-> jobs'[k].submissionId] =
               [[k \in Jobs |-> jobs[k].submissionId] EXCEPT ![j] = s]
      BY <3>1
    <3>3. Contract!Open(j, s)
      BY <2>1, <2>2, <3>2 DEF Contract!Open
    <3> QED
      BY <2>2, <3>3 DEF Contract!Next
  <2>4. CASE ~Executed(o)
    BY <2>1, <2>2, <2>4 DEF Contract!contractVars
  <2> QED
    BY <2>3, <2>4
<1>2. CASE MarkQueued(r)
  <2>0. PICK s \in Submissions, j \in Jobs :
          s = request[r].submission /\ j = request[r].job
    BY <1>2 DEF MarkQueued, QueueInv, RequestOwnsJob
  <2>1. jobs[j].submissionId = s /\ UNCHANGED jobs
    BY <1>2, <2>0 DEF MarkQueued, QueueInv, RequestOwnsJob
  <2>2. CASE SameShown
    BY <2>1, <2>2 DEF SameShown, Contract!contractVars
  <2>3. CASE /\ submissions'[s].validationStatus = "queued"
             /\ \A q \in Submissions : q # s =>
                  submissions'[q].validationStatus
                    = submissions[q].validationStatus
    <3>1. Contract!Announce(j, s)
      BY <2>1, <2>3, ShownSeen DEF Contract!Announce
    <3> QED
      BY <2>1, <3>1 DEF Contract!Next
  <2> QED
    BY <1>2, <2>0, <2>2, <2>3, MarkShows
<1>3. CASE Push(r)
  BY <1>3 DEF Push, AfterPush, Contract!contractVars
<1> QED
  BY <1>1, <1>2, <1>3 DEF RequestStep

LEMMA ContractWorker ==
  ASSUME QueueInv, NEW w \in Workers, WorkerStep(w)
  PROVE  Contract!Next \/ UNCHANGED Contract!contractVars
<1>0. PICK j : j = run[w].job
  OBVIOUS
<1>1. run[w].pc # "idle" => j \in Jobs /\ SubmissionOf(w) \in Submissions
  BY <1>0, HolderHasSubmission
<1>2. Matches(run[w].pc, jobs[j].status, run[w].verdict)
  BY <1>0 DEF QueueInv, RunMatchesJob
<1>3. CASE UNCHANGED <<jobs, submissions>>
  BY <1>3 DEF Contract!contractVars
<1>4. CASE UNCHANGED jobs /\ SameShown
  BY <1>4 DEF SameShown, Contract!contractVars
\* Statements that write the status of the worker's job.
<1>5. ASSUME j \in Jobs, UNCHANGED submissions,
             NEW status \in {"running", "passed", "failed"}, NEW o,
             jobs' = IF Executed(o)
                     THEN [jobs EXCEPT ![j] = WithStatus(@, status)]
                     ELSE jobs,
             \/ status = "running" /\ jobs[j].status = "queued"
             \/ status # "running" /\ jobs[j].status = "running"
             \/ status = "failed" /\ jobs[j].status \in {"passed", "failed"}
      PROVE  Contract!Next \/ UNCHANGED Contract!contractVars
  <2>1. status \in JobStatus
    BY DEF JobStatus
  <2>2. /\ [k \in Jobs |-> jobs'[k].status] =
             IF Executed(o)
             THEN [[k \in Jobs |-> jobs[k].status] EXCEPT ![j] = status]
             ELSE [k \in Jobs |-> jobs[k].status]
        /\ [k \in Jobs |-> jobs'[k].submissionId] =
             [k \in Jobs |-> jobs[k].submissionId]
    BY <1>5, <2>1, JobSeen
  <2>3. CASE ~Executed(o)
    BY <1>5, <2>2, <2>3 DEF Contract!contractVars
  <2>4. CASE Executed(o) /\ status = "running" /\ jobs[j].status = "queued"
    <3>1. Contract!TakeUp(j)
      BY <1>5, <2>2, <2>4 DEF Contract!TakeUp
    <3> QED
      BY <1>5, <3>1 DEF Contract!Next
  <2>5. CASE /\ Executed(o)
             /\ \/ status # "running" /\ jobs[j].status = "running"
                \/ status = "failed" /\ jobs[j].status = "passed"
    <3>1. Contract!Decide(j, status)
      BY <1>5, <2>2, <2>5 DEF Contract!Decide
    <3>2. status \in {"passed", "failed"}
      BY <1>5, <2>5
    <3> QED
      BY <1>5, <3>1, <3>2 DEF Contract!Next
  <2>6. CASE Executed(o) /\ status = "failed" /\ jobs[j].status = "failed"
    BY <1>5, <2>2, <2>6 DEF Contract!contractVars
  <2> QED
    BY <1>5, <2>3, <2>4, <2>5, <2>6
<1>6. CASE MarkRunning(w)
  <2>1. PICK o \in Outcomes :
          jobs' = IF Executed(o)
                  THEN [jobs EXCEPT ![j] = WithStatus(@, "running")]
                  ELSE jobs
    BY <1>0, <1>6 DEF MarkRunning, JobOf
  <2>2. jobs[j].status = "queued" /\ UNCHANGED submissions /\ j \in Jobs
    BY <1>1, <1>2, <1>6 DEF MarkRunning, Matches
  <2> QED
    BY <1>5, <2>1, <2>2
<1>7. CASE RecordJobResult(w)
  <2>1. PICK o \in Outcomes :
          jobs' = IF Executed(o)
                  THEN [jobs EXCEPT ![j] = WithStatus(@, run[w].verdict)]
                  ELSE jobs
    BY <1>0, <1>7 DEF RecordJobResult, JobOf
  <2>2. jobs[j].status = "running" /\ UNCHANGED submissions /\ j \in Jobs
    BY <1>1, <1>2, <1>7 DEF RecordJobResult, Matches
  <2>3. run[w].verdict \in {"passed", "failed"}
    BY <1>2, <1>7 DEF RecordJobResult, Matches, QueueInv, TypeOK, RunTypeOK,
                      RunState
  <2> QED
    BY <1>5, <2>1, <2>2, <2>3
<1>8. CASE RecordJobFailed(w)
  <2>1. PICK o \in Outcomes :
          jobs' = IF Executed(o)
                  THEN [jobs EXCEPT ![j] = WithStatus(@, "failed")]
                  ELSE jobs
    BY <1>0, <1>8 DEF RecordJobFailed, JobOf
  <2>2. /\ jobs[j].status \in {"running", "passed", "failed"}
        /\ UNCHANGED submissions /\ j \in Jobs
    BY <1>1, <1>2, <1>8 DEF RecordJobFailed, Matches
  <2> QED
    BY <1>5, <2>1, <2>2
<1>9. ASSUME RecordSubmissionResult(w) \/ RecordSubmissionFailed(w)
      PROVE  Contract!Next \/ UNCHANGED Contract!contractVars
  <2>1. UNCHANGED jobs /\ run[w].pc # "idle"
    BY <1>9 DEF RecordSubmissionResult, RecordSubmissionFailed
  <2>2. Shows(j, SubmissionOf(w)) \/ SameShown
    BY <1>0, <1>9, ResultShows, FailureShows
  <2> QED
    BY <1>1, <1>4, <2>1, <2>2, ShowStep
<1> QED
  BY <1>3, <1>6, <1>7, <1>8, <1>9
     DEF WorkerStep, RunStep, Pop, ValidatePackage, Acknowledge,
         LeaveOnProcessing

LEMMA ContractStep ==
  QueueInv /\ [Next]_vars => [Contract!Next]_(Contract!contractVars)
<1> SUFFICES ASSUME QueueInv, [Next]_vars
             PROVE  Contract!Next \/ UNCHANGED Contract!contractVars
  OBVIOUS
<1>1. Environment \/ UNCHANGED vars => UNCHANGED <<jobs, submissions>>
  BY DEF Environment, CheckPackage, Upload, RequestCrash, WorkerCrash,
         PollTimeout, vars
<1>2. CASE UNCHANGED <<jobs, submissions>>
  BY <1>2 DEF Contract!contractVars
<1> QED
  BY <1>1, <1>2, ContractRequest, ContractWorker DEF Next

LEMMA ContractInit == Init => Contract!Init
  BY DEF Init, RunInit, Contract!Init, NoJobRow, NewSubmission

\* Queue, workers, crashes and lost replies are invisible in what the tables
\* show: every behaviour of the pipeline is one of ValidationContract.
THEOREM PipelineImplementsContract == Spec => ImplementsContract
  BY ContractInit, ContractStep, QueueInvariant, PTL
     DEF Spec, ImplementsContract, Contract!Spec

=============================================================================
