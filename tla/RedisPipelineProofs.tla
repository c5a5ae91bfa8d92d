------------------------- MODULE RedisPipelineProofs -------------------------
(***************************************************************************)
(* Types and ownership of jobs in RedisPipeline, for any number of         *)
(* submissions, jobs, requests, workers and faults.  RedisVerdictProofs    *)
(* builds on the invariant proved here.                                    *)
(***************************************************************************)
EXTENDS RedisPipeline, ValidationRunProofs

-----------------------------------------------------------------------------
(* The sequence facts the jobs list needs.                                 *)

\* LPUSH adds its element and nothing else.
LEMMA AppendElements ==
  ASSUME NEW S, NEW q \in Seq(S), NEW e \in S
  PROVE  /\ Append(q, e) \in Seq(S)
         /\ Len(Append(q, e)) = Len(q) + 1
         /\ Append(q, e)[Len(q) + 1] = e
         /\ \A i \in 1 .. Len(q) : Append(q, e)[i] = q[i]
  OBVIOUS

\* BRPOPLPUSH takes the oldest element and keeps the others in order.
LEMMA TailElements ==
  ASSUME NEW S, NEW q \in Seq(S), q # <<>>
  PROVE  /\ Head(q) \in S
         /\ Head(q) = q[1]
         /\ Len(q) >= 1
         /\ Tail(q) \in Seq(S)
         /\ Len(Tail(q)) = Len(q) - 1
         /\ \A i \in 1 .. Len(q) - 1 : Tail(q)[i] = q[i + 1]
  OBVIOUS

-----------------------------------------------------------------------------
(* The inductive invariant.                                                *)

\* A job id has a row exactly when it belongs to a submission.
JobRowsOwned ==
  \A j \in Jobs : jobs[j].status = "absent" <=> jobs[j].submissionId = None

\* The jobs list holds no message twice, and only messages of queued jobs that
\* no worker has taken.
PendingFresh ==
  /\ \A i, k \in 1 .. Len(pending) : pending[i] = pending[k] => i = k
  /\ \A i \in 1 .. Len(pending) :
       jobs[pending[i]].status = "queued" /\ pending[i] \notin processing

ProcessingExists == \A j \in processing : jobs[j].status # "absent"

\* A request about to push has the only reference to its job; one about to
\* mark has handed it over.
RequestOwnsJob ==
  \A r \in Requests :
    /\ request[r].pc # "idle" => request[r].submission \in Submissions
    /\ request[r].pc \in {"push", "mark"} =>
         /\ request[r].job \in Jobs
         /\ jobs[request[r].job].submissionId = request[r].submission
    /\ request[r].pc = "push" =>
         /\ jobs[request[r].job].status = "queued"
         /\ request[r].job \notin processing
         /\ ~Pending(request[r].job)
         /\ \A q \in Requests :
              request[q].pc = "push" /\ request[q].job = request[r].job
                => q = r

\* A worker's message is on the processing list and nobody else has it.
HeldOnce ==
  \A w \in Workers :
    run[w].pc # "idle" =>
      /\ run[w].job \in processing
      /\ \A v \in Workers :
           run[v].pc # "idle" /\ run[v].job = run[w].job => v = w

\* How far a run has come shows in the status of its job's row.
Matches(pc, status, verdict) ==
  /\ pc = "start" => status = "queued"
  /\ pc \in {"read", "jobResult"} => status = "running"
  /\ pc \in {"jobResult", "submissionResult"} => verdict # "none"
  /\ pc = "submissionResult" => status = verdict
  /\ pc = "jobFailed" => status \in {"running", "passed", "failed"}
  /\ pc = "submissionFailed" => status = "failed"
  /\ pc = "resolved" => status \in {"passed", "failed"}

RunMatchesJob ==
  \A w \in Workers :
    Matches(run[w].pc, jobs[run[w].job].status, run[w].verdict)

QueueInv ==
  /\ TypeOK
  /\ JobRowsOwned
  /\ PendingFresh
  /\ ProcessingExists
  /\ RequestOwnsJob
  /\ HeldOnce
  /\ RunMatchesJob

-----------------------------------------------------------------------------
(* Types and ownership of jobs are inductive.                              *)

LEMMA QueueInit == Init => QueueInv
<1> SUFFICES ASSUME Init PROVE QueueInv
  OBVIOUS
<1>1. TypeOK
  BY FaultsAssumption
     DEF Init, RunInit, TypeOK, RunTypeOK, SubmissionRow, NewSubmission,
         SubmissionStatus, JobRow, NoJobRow, JobStatus, RequestState,
         NoRequest, RunState, RunPc, Idle
<1>2. JobRowsOwned /\ PendingFresh /\ ProcessingExists
  BY DEF Init, RunInit, JobRowsOwned, PendingFresh, ProcessingExists, NoJobRow
<1>3. RequestOwnsJob /\ HeldOnce /\ RunMatchesJob
  BY DEF Init, RunInit, RequestOwnsJob, HeldOnce, RunMatchesJob, Matches,
         NoRequest, Idle
<1> QED
  BY <1>1, <1>2, <1>3 DEF QueueInv

\* A worker writes a status to the row of the job it holds.
LEMMA JobWrite ==
  ASSUME QueueInv,
         NEW w \in Workers, run[w].pc # "idle",
         NEW status \in {"running", "passed", "failed"},
         NEW pc \in RunPc, NEW o, Ends(o),
         jobs' = IF Executed(o)
                 THEN [jobs EXCEPT ![run[w].job] = WithStatus(@, status)]
                 ELSE jobs,
         MoveTo(w, pc),
         Matches(pc, IF Executed(o) THEN status ELSE jobs[run[w].job].status,
                 run[w].verdict),
         UNCHANGED <<submissions, packages, request, pending, processing>>
  PROVE  QueueInv'
<1> DEFINE j == run[w].job
<1>1. TypeOK
  BY DEF QueueInv
<1>2. j \in processing /\ j \in Jobs
  BY DEF QueueInv, HeldOnce, TypeOK
<1>3. /\ jobs' \in [Jobs -> JobRow(Submissions)]
      /\ jobs'[j].status = IF Executed(o) THEN status ELSE jobs[j].status
      /\ jobs'[j].submissionId = jobs[j].submissionId
      /\ \A k \in Jobs : k # j => jobs'[k] = jobs[k]
  BY <1>1, <1>2, StatusFacts DEF TypeOK, RunTypeOK, JobStatus
<1>4. /\ run' \in [Workers -> RunState]
      /\ run'[w].pc = pc
      /\ run'[w].job = j
      /\ run'[w].verdict = run[w].verdict
      /\ \A v \in Workers : v # w => run'[v] = run[v]
  BY <1>1, MoveFacts DEF TypeOK, RunTypeOK
<1>5. faults' \in 0 .. MaxFaults
  BY <1>1, EndsFacts DEF TypeOK, RunTypeOK
<1>6. TypeOK'
  BY <1>1, <1>3, <1>4, <1>5 DEF TypeOK, RunTypeOK
<1>7. JobRowsOwned'
  BY <1>2, <1>3 DEF QueueInv, JobRowsOwned, ProcessingExists
<1>8. PendingFresh'
  BY <1>1, <1>2, <1>3 DEF QueueInv, PendingFresh, TypeOK
<1>9. ProcessingExists'
  BY <1>1, <1>2, <1>3 DEF QueueInv, ProcessingExists, TypeOK
<1>10. RequestOwnsJob'
  BY <1>2, <1>3 DEF QueueInv, RequestOwnsJob, Pending
<1>11. HeldOnce'
  BY <1>4 DEF QueueInv, HeldOnce
<1>12. RunMatchesJob'
  <2> SUFFICES ASSUME NEW v \in Workers
               PROVE  Matches(run'[v].pc, jobs'[run'[v].job].status,
                              run'[v].verdict)
    BY DEF RunMatchesJob
  <2>1. CASE v = w
    BY <2>1, <1>3, <1>4
  <2>2. CASE v # w /\ run[v].pc # "idle"
    BY <2>2, <1>1, <1>2, <1>3, <1>4
       DEF QueueInv, HeldOnce, RunMatchesJob, TypeOK
  <2>3. CASE v # w /\ run[v].pc = "idle"
    BY <2>3, <1>4 DEF Matches
  <2> QED
    BY <2>1, <2>2, <2>3
<1> QED
  BY <1>6, <1>7, <1>8, <1>9, <1>10, <1>11, <1>12 DEF QueueInv

\* A worker goes on without touching the jobs table.
LEMMA RunOn ==
  ASSUME QueueInv,
         NEW w \in Workers, run[w].pc # "idle",
         run' \in [Workers -> RunState],
         run'[w].job = run[w].job,
         \A v \in Workers : v # w => run'[v] = run[v],
         Matches(run'[w].pc, jobs[run[w].job].status, run'[w].verdict),
         submissions' \in [Submissions -> SubmissionRow],
         faults' \in 0 .. MaxFaults,
         UNCHANGED <<jobs, packages, request, pending, processing>>
  PROVE  QueueInv'
<1>1. TypeOK'
  BY DEF QueueInv, TypeOK, RunTypeOK
<1>2. JobRowsOwned' /\ PendingFresh' /\ ProcessingExists'
  BY DEF QueueInv, JobRowsOwned, PendingFresh, ProcessingExists
<1>3. RequestOwnsJob'
  BY DEF QueueInv, RequestOwnsJob, Pending
<1>4. HeldOnce'
  BY DEF QueueInv, HeldOnce
<1>5. RunMatchesJob'
  BY DEF QueueInv, RunMatchesJob
<1> QED
  BY <1>1, <1>2, <1>3, <1>4, <1>5 DEF QueueInv

\* A worker forgets its job; the processing list loses at most that job.
LEMMA RunEnds ==
  ASSUME QueueInv,
         NEW w \in Workers, run[w].pc # "idle",
         run' = [run EXCEPT ![w] = Idle],
         processing' \in {processing, processing \ {run[w].job}},
         faults' \in 0 .. MaxFaults,
         UNCHANGED <<submissions, jobs, packages, request, pending>>
  PROVE  QueueInv'
<1>1. TypeOK'
  BY IdleType DEF QueueInv, TypeOK, RunTypeOK
<1>2. JobRowsOwned' /\ PendingFresh' /\ ProcessingExists'
  BY DEF QueueInv, JobRowsOwned, PendingFresh, ProcessingExists
<1>3. RequestOwnsJob'
  BY DEF QueueInv, RequestOwnsJob, Pending
<1>4. run'[w].pc = "idle" /\ \A v \in Workers : v # w => run'[v] = run[v]
  BY IdleType DEF QueueInv, TypeOK, RunTypeOK
<1>5. HeldOnce'
  BY <1>4 DEF QueueInv, HeldOnce
<1>6. RunMatchesJob'
  BY <1>4 DEF QueueInv, RunMatchesJob, Matches
<1> QED
  BY <1>1, <1>2, <1>3, <1>5, <1>6 DEF QueueInv

\* A request changes its own state only, to one that owns nothing new.
LEMMA RequestOn ==
  ASSUME QueueInv,
         NEW r \in Requests, NEW state \in RequestState,
         request' = [request EXCEPT ![r] = state],
         state.pc # "push",
         state.pc # "idle" => state.submission \in Submissions,
         state.pc = "mark" =>
           /\ state.job \in Jobs
           /\ jobs[state.job].submissionId = state.submission,
         submissions' \in [Submissions -> SubmissionRow],
         packages' \in [Submissions -> Packages \cup {None}],
         faults' \in 0 .. MaxFaults,
         UNCHANGED <<jobs, run, pending, processing>>
  PROVE  QueueInv'
<1>1. TypeOK'
  BY DEF QueueInv, TypeOK, RunTypeOK
<1>2. JobRowsOwned' /\ PendingFresh' /\ ProcessingExists'
  BY DEF QueueInv, JobRowsOwned, PendingFresh, ProcessingExists
<1>3. request'[r] = state /\ \A q \in Requests : q # r => request'[q] = request[q]
  BY DEF QueueInv, TypeOK, RunTypeOK
<1>4. RequestOwnsJob'
  BY <1>3 DEF QueueInv, RequestOwnsJob, Pending
<1>5. HeldOnce' /\ RunMatchesJob'
  BY DEF QueueInv, HeldOnce, RunMatchesJob
<1> QED
  BY <1>1, <1>2, <1>4, <1>5 DEF QueueInv

\* createValidationJob draws an id nobody refers to yet.
LEMMA CreateJobStep ==
  ASSUME QueueInv, NEW r \in Requests, CreateJob(r), UNCHANGED queueVars
  PROVE  QueueInv'
<1>1. TypeOK
  BY DEF QueueInv
<1>2. PICK j \in Jobs, o \in Outcomes :
        /\ jobs[j].status = "absent"
        /\ Ends(o)
        /\ jobs' = IF Executed(o)
                   THEN [jobs EXCEPT ![j] = QueuedJob(request[r].submission)]
                   ELSE jobs
        /\ request' = [request EXCEPT
                         ![r] = IF o = "done"
                                THEN [@ EXCEPT !.pc = "push", !.job = j]
                                ELSE NoRequest]
  BY DEF CreateJob
<1> DEFINE s == request[r].submission
<1>3. s \in Submissions
  BY DEF QueueInv, RequestOwnsJob, CreateJob
<1>4. /\ jobs' \in [Jobs -> JobRow(Submissions)]
      /\ \A k \in Jobs : k # j => jobs'[k] = jobs[k]
      /\ jobs'[j].status = IF Executed(o) THEN "queued" ELSE "absent"
      /\ jobs'[j].submissionId = IF Executed(o) THEN s
                                                ELSE jobs[j].submissionId
  BY <1>1, <1>2, <1>3 DEF TypeOK, RunTypeOK, QueuedJob, JobRow, JobStatus
<1>5. /\ request' \in [Requests -> RequestState]
      /\ \A q \in Requests : q # r => request'[q] = request[q]
      /\ o # "done" => request'[r].pc = "idle"
      /\ o = "done" => /\ request'[r].pc = "push"
                       /\ request'[r].job = j
                       /\ request'[r].submission = s
  BY <1>1, <1>2, <1>3 DEF TypeOK, RunTypeOK, RequestState, NoRequest
<1>6. UNCHANGED <<submissions, packages, run, pending, processing>>
  BY DEF CreateJob, queueVars
<1>7. faults' \in 0 .. MaxFaults
  BY <1>1, <1>2, EndsFacts DEF TypeOK, RunTypeOK
<1>8. j \notin processing /\ ~Pending(j)
  BY <1>2 DEF QueueInv, ProcessingExists, PendingFresh, Pending
<1>9. TypeOK'
  BY <1>1, <1>4, <1>5, <1>6, <1>7 DEF TypeOK, RunTypeOK
<1>10. JobRowsOwned'
  BY <1>2, <1>3, <1>4, NoSubmissionAssumption DEF QueueInv, JobRowsOwned
<1>11. PendingFresh'
  BY <1>1, <1>4, <1>6, <1>8 DEF QueueInv, PendingFresh, Pending, TypeOK
<1>12. ProcessingExists'
  BY <1>1, <1>4, <1>6, <1>8 DEF QueueInv, ProcessingExists, TypeOK
<1>13. RequestOwnsJob'
  <2>1. \A q \in Requests :
          request[q].pc \in {"push", "mark"} => request[q].job # j
    BY <1>2, <1>3, NoSubmissionAssumption
       DEF QueueInv, RequestOwnsJob, JobRowsOwned
  <2>2. ASSUME NEW q \in Requests, q # r
        PROVE  /\ request'[q].pc # "idle" => request'[q].submission \in Submissions
               /\ request'[q].pc \in {"push", "mark"} =>
                    /\ request'[q].job \in Jobs
                    /\ jobs'[request'[q].job].submissionId
                         = request'[q].submission
               /\ request'[q].pc = "push" =>
                    /\ jobs'[request'[q].job].status = "queued"
                    /\ request'[q].job \notin processing'
                    /\ ~Pending(request[q].job)'
    BY <2>1, <2>2, <1>4, <1>5, <1>6 DEF QueueInv, RequestOwnsJob, Pending
  <2>3. \A q, p \in Requests :
          request'[q].pc = "push" /\ request'[p].pc = "push"
            /\ request'[q].job = request'[p].job => q = p
    BY <2>1, <1>5 DEF QueueInv, RequestOwnsJob
  <2>4. request'[r].pc # "idle" =>
          /\ request'[r].submission \in Submissions
          /\ request'[r].job \in Jobs
          /\ jobs'[request'[r].job].submissionId = request'[r].submission
          /\ request'[r].pc = "push"
          /\ jobs'[request'[r].job].status = "queued"
          /\ request'[r].job \notin processing'
          /\ ~Pending(request[r].job)'
    BY <1>3, <1>4, <1>5, <1>6, <1>8 DEF Executed, Pending
  <2> QED
    BY <2>2, <2>3, <2>4 DEF RequestOwnsJob
<1>14. HeldOnce'
  BY <1>6 DEF QueueInv, HeldOnce
<1>15. RunMatchesJob'
  <2> SUFFICES ASSUME NEW w \in Workers
               PROVE  Matches(run[w].pc, jobs'[run[w].job].status,
                              run[w].verdict)
    BY <1>6 DEF RunMatchesJob
  <2>1. CASE run[w].pc = "idle"
    BY <2>1 DEF Matches
  <2>2. CASE run[w].pc # "idle"
    BY <2>2, <1>1, <1>4, <1>8 DEF QueueInv, HeldOnce, RunMatchesJob, TypeOK
  <2> QED
    BY <2>1, <2>2
<1> QED
  BY <1>9, <1>10, <1>11, <1>12, <1>13, <1>14, <1>15 DEF QueueInv

\* LPUSH hands the only reference to a job over to the jobs list.
LEMMA PushStep ==
  ASSUME QueueInv, NEW r \in Requests, Push(r)
  PROVE  QueueInv'
<1>1. TypeOK
  BY DEF QueueInv
<1> DEFINE j == request[r].job
<1>2. PICK o \in Outcomes :
        /\ Ends(o)
        /\ request[r].pc = "push"
        /\ request' = [request EXCEPT ![r] = IF o = "done"
                                             THEN [@ EXCEPT !.pc = "mark"]
                                             ELSE NoRequest]
        /\ pending' = IF Executed(o) THEN Append(pending, j) ELSE pending
        /\ UNCHANGED <<submissions, jobs, packages, run, processing>>
  BY DEF Push, AfterPush
<1>3. /\ j \in Jobs
      /\ jobs[j].status = "queued"
      /\ jobs[j].submissionId = request[r].submission
      /\ request[r].submission \in Submissions
      /\ j \notin processing
      /\ ~Pending(j)
      /\ \A q \in Requests : request[q].pc = "push" /\ request[q].job = j
                               => q = r
  BY <1>2 DEF QueueInv, RequestOwnsJob
<1>4. /\ request' \in [Requests -> RequestState]
      /\ \A q \in Requests : q # r => request'[q] = request[q]
      /\ request'[r].pc \in {"idle", "mark"}
      /\ request'[r].pc = "mark" => /\ request'[r].job = j
                                    /\ request'[r].submission
                                         = request[r].submission
  BY <1>1, <1>2 DEF TypeOK, RunTypeOK, RequestState, NoRequest
<1>5. faults' \in 0 .. MaxFaults
  BY <1>1, <1>2, EndsFacts DEF TypeOK, RunTypeOK
<1>6. /\ pending' \in Seq(Jobs)
      /\ \A k \in Jobs : Pending(k)' => Pending(k) \/ k = j
      /\ PendingFresh'
  <2>1. CASE Executed(o)
    <3>1. /\ pending' \in Seq(Jobs)
          /\ Len(pending') = Len(pending) + 1
          /\ pending'[Len(pending) + 1] = j
          /\ \A i \in 1 .. Len(pending) : pending'[i] = pending[i]
      BY <2>1, <1>1, <1>2, <1>3, AppendElements DEF TypeOK
    <3>2. Len(pending) \in Nat
      BY <1>1 DEF TypeOK
    <3>3. \A i \in 1 .. Len(pending') :
            i \in 1 .. Len(pending) \/ i = Len(pending) + 1
      BY <3>1, <3>2
    <3> QED
      BY <3>1, <3>2, <3>3, <1>2, <1>3 DEF QueueInv, PendingFresh, Pending
  <2>2. CASE ~Executed(o)
    BY <2>2, <1>1, <1>2 DEF QueueInv, PendingFresh, Pending, TypeOK
  <2> QED
    BY <2>1, <2>2
<1>7. TypeOK'
  BY <1>1, <1>2, <1>4, <1>5, <1>6 DEF TypeOK, RunTypeOK
<1>8. JobRowsOwned' /\ ProcessingExists' /\ HeldOnce' /\ RunMatchesJob'
  BY <1>2 DEF QueueInv, JobRowsOwned, ProcessingExists, HeldOnce, RunMatchesJob
<1>9. RequestOwnsJob'
  BY <1>2, <1>3, <1>4, <1>6 DEF QueueInv, RequestOwnsJob
<1> QED
  BY <1>6, <1>7, <1>8, <1>9 DEF QueueInv

\* BRPOPLPUSH gives the oldest message to one worker.
LEMMA PopStep ==
  ASSUME QueueInv, NEW w \in Workers, Pop(w)
  PROVE  QueueInv'
<1>1. TypeOK
  BY DEF QueueInv
<1> DEFINE j == Head(pending)
<1>2. /\ run[w].pc = "idle"
      /\ pending # <<>>
      /\ run' = [run EXCEPT ![w] = Begun(j)]
      /\ pending' = Tail(pending)
      /\ processing' = processing \cup {j}
      /\ UNCHANGED <<submissions, jobs, packages, request, faults>>
  BY DEF Pop
<1>3. /\ j \in Jobs
      /\ j = pending[1]
      /\ Len(pending) \in Nat
      /\ Len(pending) >= 1
      /\ pending' \in Seq(Jobs)
      /\ Len(pending') = Len(pending) - 1
      /\ \A i \in 1 .. Len(pending) - 1 : pending'[i] = pending[i + 1]
  BY <1>1, <1>2, TailElements DEF TypeOK
<1>4. Pending(j) /\ jobs[j].status = "queued" /\ j \notin processing
  BY <1>3 DEF QueueInv, PendingFresh, Pending
<1>5. \A i \in 1 .. Len(pending') : i + 1 \in 1 .. Len(pending) /\ i + 1 # 1
  BY <1>3
<1>6. PendingFresh'
  BY <1>2, <1>3, <1>5 DEF QueueInv, PendingFresh
<1>7. \A k \in Jobs : Pending(k)' => Pending(k)
  BY <1>3, <1>5 DEF Pending
<1>8. /\ run' \in [Workers -> RunState]
      /\ run'[w].pc = "start"
      /\ run'[w].job = j
      /\ \A v \in Workers : v # w => run'[v] = run[v]
  BY <1>1, <1>2, <1>3, BegunType DEF TypeOK, RunTypeOK
<1>9. TypeOK'
  BY <1>1, <1>2, <1>3, <1>8 DEF TypeOK, RunTypeOK
<1>10. JobRowsOwned' /\ ProcessingExists'
  BY <1>2, <1>4 DEF QueueInv, JobRowsOwned, ProcessingExists
<1>11. RequestOwnsJob'
  BY <1>2, <1>4, <1>7 DEF QueueInv, RequestOwnsJob
<1>12. HeldOnce'
  BY <1>2, <1>4, <1>8 DEF QueueInv, HeldOnce
<1>13. RunMatchesJob'
  BY <1>2, <1>4, <1>8 DEF QueueInv, RunMatchesJob, Matches
<1> QED
  BY <1>6, <1>9, <1>10, <1>11, <1>12, <1>13 DEF QueueInv

LEMMA StutterPreservesQueue ==
  ASSUME QueueInv, UNCHANGED vars
  PROVE  QueueInv'
<1>1. TypeOK'
  BY DEF QueueInv, TypeOK, RunTypeOK, vars
<1>2. JobRowsOwned' /\ PendingFresh' /\ ProcessingExists'
  BY DEF QueueInv, JobRowsOwned, PendingFresh, ProcessingExists, vars
<1>3. RequestOwnsJob' /\ HeldOnce' /\ RunMatchesJob'
  BY DEF QueueInv, RequestOwnsJob, HeldOnce, RunMatchesJob, Pending, vars
<1> QED
  BY <1>1, <1>2, <1>3 DEF QueueInv

\* Every step of a validate request keeps the queue invariant.
LEMMA RequestPreservesQueue ==
  ASSUME QueueInv, NEW r \in Requests, RequestStep(r)
  PROVE  QueueInv'
<1>1. TypeOK
  BY DEF QueueInv
<1>2. CASE CreateJob(r) /\ UNCHANGED queueVars
  BY <1>2, CreateJobStep
<1>3. CASE MarkQueued(r) /\ UNCHANGED queueVars
  <2>1. request[r].submission \in Submissions /\ request[r].job \in Jobs
    BY <1>3 DEF QueueInv, RequestOwnsJob, MarkQueued
  <2>2. PICK o \in Outcomes :
          /\ Ends(o)
          /\ submissions' = IF Executed(o)
                            THEN [submissions EXCEPT ![request[r].submission] =
                                    MarkedQueued(@, request[r].job)]
                            ELSE submissions
    BY <1>3 DEF MarkQueued
  <2>3. submissions' \in [Submissions -> SubmissionRow]
    BY <1>1, <2>1, <2>2, MarkedFacts DEF TypeOK, RunTypeOK
  <2>4. faults' \in 0 .. MaxFaults
    BY <1>1, <2>2, EndsFacts DEF TypeOK, RunTypeOK
  <2>5. packages' \in [Submissions -> Packages \cup {None}]
    BY <1>1, <1>3 DEF MarkQueued, TypeOK, RunTypeOK
  <2>6. NoRequest.pc = "idle"
    BY DEF NoRequest
  <2> QED
    BY <1>3, <2>3, <2>4, <2>5, <2>6, NoRequestType, RequestOn
       DEF MarkQueued, queueVars
<1>4. CASE Push(r)
  BY <1>4, PushStep
<1> QED
  BY <1>2, <1>3, <1>4 DEF RequestStep

\* A worker's job belongs to a submission.
LEMMA HolderHasSubmission ==
  ASSUME QueueInv, NEW w \in Workers, run[w].pc # "idle"
  PROVE  /\ run[w].job \in Jobs
         /\ SubmissionOf(w) \in Submissions
<1>1. run[w].job \in processing /\ run[w].job \in Jobs
  BY DEF QueueInv, HeldOnce, TypeOK
<1> QED
  BY <1>1 DEF QueueInv, ProcessingExists, JobRowsOwned, SubmissionOf, JobOf,
              TypeOK, RunTypeOK, JobRow

\* Every step of a worker keeps the queue invariant.
LEMMA WorkerPreservesQueue ==
  ASSUME QueueInv, NEW w \in Workers, WorkerStep(w)
  PROVE  QueueInv'
<1>1. TypeOK
  BY DEF QueueInv
<1>2. run[w].pc # "idle" => run[w].job \in Jobs /\ run[w].job \in processing
  BY DEF QueueInv, HeldOnce, TypeOK
<1>3. Matches(run[w].pc, jobs[run[w].job].status, run[w].verdict)
  BY DEF QueueInv, RunMatchesJob
<1>4. run[w] \in RunState
  BY <1>1 DEF TypeOK, RunTypeOK
<1>5. CASE Pop(w)
  BY <1>5, PopStep
<1>6. CASE MarkRunning(w) /\ UNCHANGED queueVars
  <2>1. PICK o \in Outcomes :
          /\ Ends(o)
          /\ jobs' = IF Executed(o)
                     THEN [jobs EXCEPT ![run[w].job] = WithStatus(@, "running")]
                     ELSE jobs
          /\ MoveTo(w, IF o = "done" THEN "read" ELSE "rejected")
    BY <1>6 DEF MarkRunning, JobOf
  <2> DEFINE pc == IF o = "done" THEN "read" ELSE "rejected"
  <2>2. pc \in RunPc /\ Matches(pc, IF Executed(o) THEN "running"
                                    ELSE jobs[run[w].job].status,
                                 run[w].verdict)
    BY DEF RunPc, Matches, Executed
  <2> HIDE DEF pc
  <2>3. UNCHANGED <<submissions, packages, request, pending, processing>>
    BY <1>6 DEF MarkRunning, queueVars
  <2>4. run[w].pc # "idle"
    BY <1>6 DEF MarkRunning
  <2> QED
    BY <2>1, <2>2, <2>3, <2>4, JobWrite DEF pc
<1>7. CASE ValidatePackage(w) /\ UNCHANGED queueVars
  <2>1. UNCHANGED <<submissions, jobs, packages, request, pending, processing>>
    BY <1>7 DEF ValidatePackage, queueVars
  <2>2. run[w].pc = "read" /\ jobs[run[w].job].status = "running"
    BY <1>3, <1>7 DEF ValidatePackage, Matches
  <2>3. /\ run' \in [Workers -> RunState]
        /\ run'[w].job = run[w].job
        /\ \A v \in Workers : v # w => run'[v] = run[v]
        /\ \/ run'[w].pc = "jobResult" /\ run'[w].verdict # "none"
           \/ run'[w].pc = "jobFailed"
        /\ faults' \in 0 .. MaxFaults
    <3>1. CASE Fault /\ MoveTo(w, "jobFailed")
      BY <3>1, <1>1, FaultFacts, MoveFacts DEF TypeOK, RunTypeOK, RunPc
    <3>2. CASE /\ run' = [run EXCEPT ![w] =
                     [@ EXCEPT !.pc = "jobResult", !.verdict = "failed"]]
               /\ UNCHANGED faults
      BY <3>2, <1>1 DEF TypeOK, RunTypeOK, RunState, RunPc
    <3>3. ASSUME NEW p \in ValidPackages,
                 run' = [run EXCEPT ![w] =
                     [@ EXCEPT !.pc = "jobResult", !.verdict = "passed",
                               !.sha256 = p]],
                 UNCHANGED faults
          PROVE  /\ run' \in [Workers -> RunState]
                 /\ run'[w].job = run[w].job
                 /\ \A v \in Workers : v # w => run'[v] = run[v]
                 /\ run'[w].pc = "jobResult" /\ run'[w].verdict # "none"
                 /\ faults' \in 0 .. MaxFaults
      BY <3>3, <1>1, ValidAssumption DEF TypeOK, RunTypeOK, RunState, RunPc
    <3> QED
      BY <1>7, <3>1, <3>2, <3>3 DEF ValidatePackage, Accepts
  <2>4. Matches(run'[w].pc, jobs[run[w].job].status, run'[w].verdict)
    BY <2>2, <2>3 DEF Matches
  <2>5. submissions' \in [Submissions -> SubmissionRow]
    BY <1>1, <2>1 DEF TypeOK, RunTypeOK
  <2> QED
    BY <2>1, <2>2, <2>3, <2>4, <2>5, RunOn
<1>8. run[w].pc # "idle" => SubmissionOf(w) \in Submissions
  BY <1>1, <1>2 DEF QueueInv, ProcessingExists, JobRowsOwned, SubmissionOf,
                    JobOf, TypeOK, RunTypeOK, JobRow
<1>9. CASE RecordJobResult(w) /\ UNCHANGED queueVars
  <2>1. PICK o \in Outcomes :
          /\ Ends(o)
          /\ jobs' = IF Executed(o)
                     THEN [jobs EXCEPT
                             ![run[w].job] = WithStatus(@, run[w].verdict)]
                     ELSE jobs
          /\ MoveTo(w, IF o = "done" THEN "submissionResult" ELSE "jobFailed")
    BY <1>9 DEF RecordJobResult, JobOf
  <2> DEFINE pc == IF o = "done" THEN "submissionResult" ELSE "jobFailed"
  <2>2. /\ run[w].pc = "jobResult"
        /\ jobs[run[w].job].status = "running"
        /\ run[w].verdict \in {"passed", "failed"}
    BY <1>3, <1>4, <1>9 DEF RecordJobResult, Matches, RunState
  <2>3. pc \in RunPc /\ Matches(pc, IF Executed(o) THEN run[w].verdict
                                    ELSE jobs[run[w].job].status,
                                 run[w].verdict)
    BY <2>2 DEF RunPc, Matches, Executed
  <2> HIDE DEF pc
  <2>4. UNCHANGED <<submissions, packages, request, pending, processing>>
    BY <1>9 DEF RecordJobResult, queueVars
  <2> QED
    BY <2>1, <2>2, <2>3, <2>4, JobWrite DEF pc
<1>10. CASE RecordSubmissionResult(w) /\ UNCHANGED queueVars
  <2>1. PICK o \in Outcomes :
          /\ Ends(o)
          /\ submissions' = IF Executed(o)
                            THEN [submissions EXCEPT ![SubmissionOf(w)] =
                                    WithResult(@, run[w].verdict,
                                               run[w].sha256)]
                            ELSE submissions
          /\ MoveTo(w, IF o = "done" THEN "resolved" ELSE "jobFailed")
    BY <1>10 DEF RecordSubmissionResult
  <2>2. /\ run[w].pc = "submissionResult"
        /\ jobs[run[w].job].status = run[w].verdict
        /\ run[w].verdict \in {"passed", "failed"}
        /\ run[w].sha256 \in Packages \cup {None}
    BY <1>3, <1>4, <1>10 DEF RecordSubmissionResult, Matches, RunState
  <2>3. submissions' \in [Submissions -> SubmissionRow]
    BY <1>1, <1>8, <2>1, <2>2, ResultFacts DEF TypeOK, RunTypeOK
  <2>4. faults' \in 0 .. MaxFaults
    BY <1>1, <2>1, EndsFacts DEF TypeOK, RunTypeOK
  <2>5. /\ run' \in [Workers -> RunState]
        /\ run'[w].pc \in {"resolved", "jobFailed"}
        /\ run'[w].job = run[w].job
        /\ \A v \in Workers : v # w => run'[v] = run[v]
    BY <1>1, <2>1, MoveFacts DEF TypeOK, RunTypeOK, RunPc
  <2>6. Matches(run'[w].pc, jobs[run[w].job].status, run'[w].verdict)
    BY <2>2, <2>5 DEF Matches
  <2>7. UNCHANGED <<jobs, packages, request, pending, processing>>
    BY <1>10 DEF RecordSubmissionResult, queueVars
  <2> QED
    BY <2>2, <2>3, <2>4, <2>5, <2>6, <2>7, RunOn
<1>11. CASE RecordJobFailed(w) /\ UNCHANGED queueVars
  <2>1. PICK o \in Outcomes :
          /\ Ends(o)
          /\ jobs' = IF Executed(o)
                     THEN [jobs EXCEPT ![run[w].job] = WithStatus(@, "failed")]
                     ELSE jobs
          /\ MoveTo(w, IF o = "done" THEN "submissionFailed" ELSE "rejected")
    BY <1>11 DEF RecordJobFailed, JobOf
  <2> DEFINE pc == IF o = "done" THEN "submissionFailed" ELSE "rejected"
  <2>2. pc \in RunPc /\ Matches(pc, IF Executed(o) THEN "failed"
                                    ELSE jobs[run[w].job].status,
                                 run[w].verdict)
    BY DEF RunPc, Matches, Executed
  <2> HIDE DEF pc
  <2>3. UNCHANGED <<submissions, packages, request, pending, processing>>
    BY <1>11 DEF RecordJobFailed, queueVars
  <2>4. run[w].pc # "idle"
    BY <1>11 DEF RecordJobFailed
  <2> QED
    BY <2>1, <2>2, <2>3, <2>4, JobWrite DEF pc
<1>12. CASE RecordSubmissionFailed(w) /\ UNCHANGED queueVars
  <2>1. PICK o \in Outcomes :
          /\ Ends(o)
          /\ submissions' = IF Executed(o)
                            THEN [submissions EXCEPT ![SubmissionOf(w)] =
                                    WithResult(@, "failed", None)]
                            ELSE submissions
          /\ MoveTo(w, IF o = "done" THEN "resolved" ELSE "rejected")
    BY <1>12 DEF RecordSubmissionFailed
  <2>2. run[w].pc = "submissionFailed" /\ jobs[run[w].job].status = "failed"
    BY <1>3, <1>12 DEF RecordSubmissionFailed, Matches
  <2>3. submissions' \in [Submissions -> SubmissionRow]
    BY <1>1, <1>8, <2>1, <2>2, ResultFacts DEF TypeOK, RunTypeOK
  <2>4. faults' \in 0 .. MaxFaults
    BY <1>1, <2>1, EndsFacts DEF TypeOK, RunTypeOK
  <2>5. /\ run' \in [Workers -> RunState]
        /\ run'[w].pc \in {"resolved", "rejected"}
        /\ run'[w].job = run[w].job
        /\ \A v \in Workers : v # w => run'[v] = run[v]
    BY <1>1, <2>1, MoveFacts DEF TypeOK, RunTypeOK, RunPc
  <2>6. Matches(run'[w].pc, jobs[run[w].job].status, run'[w].verdict)
    BY <2>2, <2>5 DEF Matches
  <2>7. UNCHANGED <<jobs, packages, request, pending, processing>>
    BY <1>12 DEF RecordSubmissionFailed, queueVars
  <2> QED
    BY <2>2, <2>3, <2>4, <2>5, <2>6, <2>7, RunOn
<1>13. CASE Acknowledge(w)
  <2>1. /\ run[w].pc = "resolved"
        /\ run' = [run EXCEPT ![w] = Idle]
        /\ processing' \in {processing, processing \ {run[w].job}}
        /\ UNCHANGED <<submissions, jobs, packages, request, pending>>
    BY <1>13 DEF Acknowledge, JobOf
  <2>2. faults' \in 0 .. MaxFaults
    BY <1>1, <1>13, EndsFacts DEF Acknowledge, TypeOK, RunTypeOK
  <2> QED
    BY <2>1, <2>2, RunEnds
<1>14. CASE LeaveOnProcessing(w)
  <2>1. faults' \in 0 .. MaxFaults
    BY <1>1, <1>14 DEF LeaveOnProcessing, TypeOK, RunTypeOK
  <2> QED
    BY <1>14, <2>1, RunEnds DEF LeaveOnProcessing, queueVars
<1> QED
  BY <1>5, <1>6, <1>7, <1>9, <1>10, <1>11, <1>12, <1>13, <1>14
     DEF WorkerStep, RunStep

\* Uploads, new requests and crashes keep the queue invariant.
LEMMA EnvironmentPreservesQueue ==
  ASSUME QueueInv, Environment
  PROVE  QueueInv'
<1>1. TypeOK
  BY DEF QueueInv
<1>2. ASSUME NEW r \in Requests, NEW s \in Submissions,
             CheckPackage(r, s), UNCHANGED queueVars
      PROVE  QueueInv'
  <2> DEFINE state == [pc |-> "create", submission |-> s, job |-> None]
  <2>1. /\ state \in RequestState
        /\ state.pc = "create"
        /\ state.submission \in Submissions
    BY DEF RequestState
  <2>2. /\ request' = [request EXCEPT ![r] = state]
        /\ UNCHANGED <<submissions, jobs, packages, run, faults, pending,
                       processing>>
    BY <1>2 DEF CheckPackage, queueVars
  <2>3. /\ submissions' \in [Submissions -> SubmissionRow]
        /\ packages' \in [Submissions -> Packages \cup {None}]
        /\ faults' \in 0 .. MaxFaults
    BY <1>1, <2>2 DEF TypeOK, RunTypeOK
  <2> HIDE DEF state
  <2> QED
    BY <2>1, <2>2, <2>3, RequestOn
<1>3. ASSUME NEW s \in Submissions, NEW p \in Packages,
             Upload(s, p), UNCHANGED queueVars
      PROVE  QueueInv'
  <2>1. UNCHANGED <<submissions, jobs, request, run, faults, pending,
                    processing>>
    BY <1>3 DEF Upload, queueVars
  <2>2. packages' \in [Submissions -> Packages \cup {None}]
    BY <1>1, <1>3 DEF Upload, TypeOK, RunTypeOK
  <2>3. TypeOK'
    BY <1>1, <2>1, <2>2 DEF TypeOK, RunTypeOK
  <2>4. JobRowsOwned' /\ PendingFresh' /\ ProcessingExists'
    BY <2>1 DEF QueueInv, JobRowsOwned, PendingFresh, ProcessingExists
  <2>5. RequestOwnsJob' /\ HeldOnce' /\ RunMatchesJob'
    BY <2>1 DEF QueueInv, RequestOwnsJob, HeldOnce, RunMatchesJob, Pending
  <2> QED
    BY <2>3, <2>4, <2>5 DEF QueueInv
<1>4. ASSUME NEW r \in Requests, RequestCrash(r), UNCHANGED queueVars
      PROVE  QueueInv'
  <2>1. /\ submissions' \in [Submissions -> SubmissionRow]
        /\ packages' \in [Submissions -> Packages \cup {None}]
        /\ faults' \in 0 .. MaxFaults
    BY <1>1, <1>4, FaultFacts DEF RequestCrash, TypeOK, RunTypeOK
  <2>2. NoRequest.pc = "idle"
    BY DEF NoRequest
  <2> QED
    BY <1>4, <2>1, <2>2, NoRequestType, RequestOn DEF RequestCrash, queueVars
<1>5. ASSUME NEW w \in Workers, WorkerCrash(w)
      PROVE  QueueInv'
  <2>1. faults' \in 0 .. MaxFaults
    BY <1>1, <1>5, FaultFacts DEF WorkerCrash, TypeOK, RunTypeOK
  <2> QED
    BY <1>5, <2>1, RunEnds DEF WorkerCrash, queueVars
<1>6. CASE UNCHANGED vars
  BY <1>6, StutterPreservesQueue
<1> QED
  BY <1>2, <1>3, <1>4, <1>5, <1>6 DEF Environment, PollTimeout

LEMMA QueueStep == QueueInv /\ [Next]_vars => QueueInv'
  BY RequestPreservesQueue, WorkerPreservesQueue, EnvironmentPreservesQueue,
     StutterPreservesQueue DEF Next

LEMMA QueueInvariant == Spec => []QueueInv
  BY QueueInit, QueueStep, PTL DEF Spec

\* Whatever goes wrong, every table, list and local state keeps its type: no
\* write of the pipeline puts a row into a state the schema does not know.
THEOREM TypeCorrect == Spec => []TypeOK
<1>1. QueueInv => TypeOK
  BY DEF QueueInv
<1> QED
  BY <1>1, QueueInvariant, PTL

\* However many workers, crashes and lost replies: no two workers ever hold
\* the same message, and a held one is on the processing list only.
THEOREM WorkersExclusive == Spec => []OneWorkerPerJob
<1>1. QueueInv => OneWorkerPerJob
  BY DEF QueueInv, HeldOnce, PendingFresh, OneWorkerPerJob, Holds, Pending
<1> QED
  BY <1>1, QueueInvariant, PTL

=============================================================================
