-------------------------- MODULE SqsPipelineProofs --------------------------
(***************************************************************************)
(* What holds of SqsPipeline for any number of submissions, jobs,          *)
(* requests, invocations, faults and records of a batch.  Nothing keeps    *)
(* two invocations from running the same job, and the first of them to     *)
(* return deletes its message under the other, so the proof never speaks   *)
(* of the one worker that has a job: it says what an invocation may rely   *)
(* on for each message of its event, whoever else works on it.             *)
(***************************************************************************)
EXTENDS SqsPipeline, ValidationRunProofs

-----------------------------------------------------------------------------
(* The inductive invariant.                                                *)

Exists(j) == j \in Jobs /\ jobs[j].status # "absent"

JobRowsOwned ==
  \A j \in Jobs : Exists(j) => jobs[j].submissionId \in Submissions

\* Only jobs that were inserted have messages.
MessagesExist ==
  /\ \A j \in messages : Exists(j)
  /\ \A w \in Workers : \A j \in taken[w] : Exists(j)

RequestsSound ==
  \A r \in Requests :
    /\ request[r].pc # "idle" => request[r].submission \in Submissions
    /\ request[r].pc \in {"push", "mark"} => Exists(request[r].job)

\* An invocation runs the first of the records it has left, all of which are
\* messages of its event.
BatchesSound ==
  \A w \in Workers :
    /\ run[w].pc = "idle" => batch[w] = <<>>
    /\ run[w].pc # "idle" =>
         /\ Len(batch[w]) >= 1
         /\ run[w].job = batch[w][1]
         /\ \A i \in 1 .. Len(batch[w]) : batch[w][i] \in taken[w]

\* A verdict of "passed" travels with the hash of a valid package.
VerdictSound(r) ==
  /\ r.pc \in {"start", "read"} => r.verdict = "none" /\ r.sha256 = None
  /\ r.pc \in {"jobResult", "submissionResult"} => r.verdict \in {"passed", "failed"}
  /\ r.pc \in {"jobResult", "submissionResult"} /\ r.verdict = "passed" =>
       r.sha256 \in ValidPackages

RunsSound == \A w \in Workers : VerdictSound(run[w])

Safe ==
  /\ TypeOK /\ JobRowsOwned /\ MessagesExist /\ RequestsSound
  /\ BatchesSound /\ RunsSound /\ PassedHasValidHash

\* The statements of a run before it has written a verdict to its job, and its
\* end without one.
Unfinished == {"start", "read", "jobResult", "jobFailed", "rejected"}

\* What RunStep(w) leaves: the types, the other invocations, the requests and
\* the job each submission points to; and its own job has a verdict or is
\* still to be done.
Worked(w) ==
  /\ RunTypeOK'
  /\ run'[w].pc # "idle" /\ run'[w].job = run[w].job
  /\ \A v \in Workers \ {w} : run'[v] = run[v]
  /\ UNCHANGED request
  /\ \A j \in Jobs : /\ jobs'[j].submissionId = jobs[j].submissionId
                     /\ jobs'[j].status = "absent" <=> jobs[j].status = "absent"
  /\ \A s \in Submissions :
       submissions'[s].validationJobId = submissions[s].validationJobId
  /\ VerdictSound(run'[w])
  /\ PassedHasValidHash'
  /\ \A j \in Jobs :
       jobs[j].status \in Finished =>
         \/ jobs'[j].status \in Finished
         \/ j = run[w].job /\ run'[w].pc \in Unfinished
  /\ run[w].pc \in Unfinished =>
       run'[w].pc \in Unfinished \/ jobs'[run[w].job].status \in Finished

-----------------------------------------------------------------------------
(* runValidationJob.                                                       *)

LEMMA HolderHasJob ==
  ASSUME Safe, NEW w \in Workers, run[w].pc # "idle"
  PROVE  /\ Exists(run[w].job) /\ run[w].job \in Jobs
         /\ SubmissionOf(w) \in Submissions
<1>1. Exists(run[w].job)
  BY DEF Safe, BatchesSound, MessagesExist
<1>2. QED  BY <1>1 DEF Safe, JobRowsOwned, SubmissionOf, JobOf, Exists

\* A status is written to the job, or the reply says that it was not.
LEMMA JobWritten ==
  ASSUME Safe, NEW w \in Workers, run[w].pc # "idle",
         NEW status \in {"running", "passed", "failed"},
         NEW pc \in RunPc \ {"idle"}, NEW o, Ends(o),
         jobs' = IF Executed(o)
                 THEN [jobs EXCEPT ![JobOf(w)] = WithStatus(@, status)]
                 ELSE jobs,
         MoveTo(w, pc), UNCHANGED <<submissions, packages, request>>,
         VerdictSound([run[w] EXCEPT !.pc = pc]),
         pc \in Unfinished \/ (Executed(o) /\ status \in Finished)
  PROVE  Worked(w)
<1>1. RunTypeOK
  BY DEF Safe, TypeOK
<1>2. /\ JobOf(w) = run[w].job /\ run[w].job \in Jobs
      /\ jobs[run[w].job].status # "absent"
  BY HolderHasJob DEF JobOf, Exists
<1>3. /\ jobs' \in [Jobs -> JobRow(Submissions)]
      /\ jobs'[run[w].job].status =
           IF Executed(o) THEN status ELSE jobs[run[w].job].status
      /\ jobs'[run[w].job].submissionId = jobs[run[w].job].submissionId
      /\ \A k \in Jobs : k # run[w].job => jobs'[k] = jobs[k]
  BY <1>1, <1>2, StatusFacts DEF RunTypeOK, JobStatus
<1>4. /\ run' \in [Workers -> RunState]
      /\ run'[w].pc = pc /\ run'[w].job = run[w].job
      /\ run'[w].verdict = run[w].verdict /\ run'[w].sha256 = run[w].sha256
      /\ \A v \in Workers : v # w => run'[v] = run[v]
  BY <1>1, MoveFacts DEF RunTypeOK
<1>5. RunTypeOK'
  BY <1>1, <1>3, <1>4, EndsFacts DEF RunTypeOK
<1>6. VerdictSound(run'[w])
  <2>1. [run[w] EXCEPT !.pc = pc].verdict = run[w].verdict
        /\ [run[w] EXCEPT !.pc = pc].sha256 = run[w].sha256
        /\ [run[w] EXCEPT !.pc = pc].pc = pc
    BY <1>1 DEF RunTypeOK, RunState
  <2>2. QED  BY <1>4, <2>1 DEF VerdictSound
<1>7. PassedHasValidHash'
  BY DEF Safe, PassedHasValidHash
<1>8. QED
  BY <1>3, <1>4, <1>5, <1>6, <1>7, <1>2 DEF Worked

\* A verdict is written to the submission, or the reply says that it was not.
LEMMA SubmissionWritten ==
  ASSUME Safe, NEW w \in Workers, run[w].pc \in {"submissionResult", "submissionFailed"},
         NEW verdict \in {"passed", "failed"}, NEW sha \in Packages \cup {None},
         verdict = "passed" => sha \in ValidPackages,
         NEW pc \in {"resolved", "rejected", "jobFailed"}, NEW o, Ends(o),
         submissions' = IF Executed(o)
                        THEN [submissions EXCEPT ![SubmissionOf(w)] =
                                WithResult(@, verdict, sha)]
                        ELSE submissions,
         MoveTo(w, pc), UNCHANGED <<jobs, packages, request>>
  PROVE  Worked(w)
<1>1. RunTypeOK
  BY DEF Safe, TypeOK
<1>2. SubmissionOf(w) \in Submissions
  BY HolderHasJob
<1>3. /\ submissions' \in [Submissions -> SubmissionRow]
      /\ submissions'[SubmissionOf(w)].validationStatus =
           IF Executed(o) THEN verdict
           ELSE submissions[SubmissionOf(w)].validationStatus
      /\ submissions'[SubmissionOf(w)].sha256 =
           IF Executed(o) /\ sha # None THEN sha
           ELSE submissions[SubmissionOf(w)].sha256
      /\ submissions'[SubmissionOf(w)].validationJobId =
           submissions[SubmissionOf(w)].validationJobId
      /\ \A q \in Submissions : q # SubmissionOf(w) => submissions'[q] = submissions[q]
  BY <1>1, <1>2, ResultFacts DEF RunTypeOK
<1>4. /\ run' \in [Workers -> RunState]
      /\ run'[w].pc = pc /\ run'[w].job = run[w].job
      /\ \A v \in Workers : v # w => run'[v] = run[v]
  BY <1>1, MoveFacts DEF RunTypeOK, RunPc
<1>5. RunTypeOK'
  BY <1>1, <1>3, <1>4, EndsFacts DEF RunTypeOK
<1>6. PassedHasValidHash'
  <2>1. None \notin ValidPackages
    BY ValidAssumption, NoneAssumption
  <2>2. QED  BY <1>2, <1>3, <2>1 DEF Safe, PassedHasValidHash
<1>7. VerdictSound(run'[w])
  BY <1>4 DEF VerdictSound
<1>8. QED
  BY <1>2, <1>3, <1>4, <1>5, <1>6, <1>7 DEF Worked, Unfinished

LEMMA RunWorks ==
  ASSUME Safe, NEW w \in Workers, RunStep(w)
  PROVE  Worked(w)
<1>1. RunTypeOK /\ VerdictSound(run[w]) /\ run[w] \in RunState
  BY DEF Safe, TypeOK, RunsSound, RunTypeOK
<1>2. CASE MarkRunning(w)
  <2>1. PICK o \in Outcomes :
          /\ Ends(o)
          /\ jobs' = IF Executed(o)
                     THEN [jobs EXCEPT ![JobOf(w)] = WithStatus(@, "running")]
                     ELSE jobs
          /\ MoveTo(w, IF o = "done" THEN "read" ELSE "rejected")
    BY <1>2 DEF MarkRunning
  <2>2. \A pc \in {"read", "rejected"} : VerdictSound([run[w] EXCEPT !.pc = pc])
    BY <1>1, <1>2 DEF MarkRunning, VerdictSound, RunState
  <2>3. run[w].pc # "idle" /\ UNCHANGED <<submissions, packages, request>>
    BY <1>2 DEF MarkRunning
  <2>4. QED  BY <2>1, <2>2, <2>3, JobWritten DEF RunPc, Unfinished
<1>3. CASE ValidatePackage(w)
  <2>1. run[w].pc = "read" /\ UNCHANGED <<submissions, jobs, packages, request>>
    BY <1>3 DEF ValidatePackage
  <2>2. ASSUME run' \in [Workers -> RunState], faults' \in 0 .. MaxFaults,
               run'[w].pc \in {"jobResult", "jobFailed"},
               run'[w].job = run[w].job, VerdictSound(run'[w]),
               \A v \in Workers : v # w => run'[v] = run[v]
        PROVE  Worked(w)
    BY <1>1, <2>1, <2>2
    DEF Worked, RunTypeOK, Safe, PassedHasValidHash, Unfinished
  <2>3. CASE Fault /\ MoveTo(w, "jobFailed")
    <3>1. /\ run' \in [Workers -> RunState]
          /\ run'[w].pc = "jobFailed" /\ run'[w].job = run[w].job
          /\ \A v \in Workers : v # w => run'[v] = run[v]
      BY <1>1, <2>3, MoveFacts DEF RunTypeOK, RunPc
    <3>2. QED
      BY <1>1, <2>2, <2>3, <3>1, FaultFacts DEF RunTypeOK, VerdictSound
  <2>4. ASSUME NEW p \in ValidPackages, UNCHANGED faults,
               run' = [run EXCEPT ![w] =
                         [@ EXCEPT !.pc = "jobResult", !.verdict = "passed",
                                   !.sha256 = p]]
        PROVE  Worked(w)
    <3>1. /\ run' \in [Workers -> RunState]
          /\ run'[w].pc = "jobResult" /\ run'[w].job = run[w].job
          /\ run'[w].verdict = "passed" /\ run'[w].sha256 = p
          /\ \A v \in Workers : v # w => run'[v] = run[v]
      BY <1>1, <2>4, ValidAssumption DEF RunTypeOK, RunState, RunPc
    <3>2. QED  BY <1>1, <2>2, <2>4, <3>1 DEF RunTypeOK, VerdictSound
  <2>5. ASSUME UNCHANGED faults,
               run' = [run EXCEPT ![w] =
                         [@ EXCEPT !.pc = "jobResult", !.verdict = "failed"]]
        PROVE  Worked(w)
    <3>1. /\ run' \in [Workers -> RunState]
          /\ run'[w].pc = "jobResult" /\ run'[w].job = run[w].job
          /\ run'[w].verdict = "failed"
          /\ \A v \in Workers : v # w => run'[v] = run[v]
      BY <1>1, <2>5 DEF RunTypeOK, RunState, RunPc
    <3>2. QED  BY <1>1, <2>2, <2>5, <3>1 DEF RunTypeOK, VerdictSound
  <2>6. QED
    BY <1>3, <2>3, <2>4, <2>5 DEF ValidatePackage, Accepts
<1>4. CASE RecordJobResult(w)
  <2>1. PICK o \in Outcomes :
          /\ Ends(o)
          /\ jobs' = IF Executed(o)
                     THEN [jobs EXCEPT ![JobOf(w)] = WithStatus(@, run[w].verdict)]
                     ELSE jobs
          /\ MoveTo(w, IF o = "done" THEN "submissionResult" ELSE "jobFailed")
    BY <1>4 DEF RecordJobResult
  <2>2. /\ run[w].pc = "jobResult" /\ run[w].verdict \in {"passed", "failed"}
        /\ UNCHANGED <<submissions, packages, request>>
    BY <1>1, <1>4 DEF RecordJobResult, VerdictSound
  <2>3. \A pc \in {"submissionResult", "jobFailed"} :
          VerdictSound([run[w] EXCEPT !.pc = pc])
    BY <1>1, <2>2 DEF VerdictSound, RunState
  <2>4. o = "done" => Executed(o)
    BY DEF Executed
  <2>5. QED
    BY <2>1, <2>2, <2>3, <2>4, JobWritten DEF RunPc, Unfinished, Finished
<1>5. CASE RecordSubmissionResult(w)
  <2>1. PICK o \in Outcomes :
          /\ Ends(o)
          /\ submissions' = IF Executed(o)
                            THEN [submissions EXCEPT ![SubmissionOf(w)] =
                                    WithResult(@, run[w].verdict, run[w].sha256)]
                            ELSE submissions
          /\ MoveTo(w, IF o = "done" THEN "resolved" ELSE "jobFailed")
    BY <1>5 DEF RecordSubmissionResult
  <2>2. /\ run[w].pc = "submissionResult" /\ run[w].verdict \in {"passed", "failed"}
        /\ run[w].verdict = "passed" => run[w].sha256 \in ValidPackages
        /\ run[w].sha256 \in Packages \cup {None}
        /\ UNCHANGED <<jobs, packages, request>>
    BY <1>1, <1>5 DEF RecordSubmissionResult, VerdictSound, RunState
  <2>3. QED  BY <2>1, <2>2, SubmissionWritten
<1>6. CASE RecordJobFailed(w)
  <2>1. PICK o \in Outcomes :
          /\ Ends(o)
          /\ jobs' = IF Executed(o)
                     THEN [jobs EXCEPT ![JobOf(w)] = WithStatus(@, "failed")]
                     ELSE jobs
          /\ MoveTo(w, IF o = "done" THEN "submissionFailed" ELSE "rejected")
    BY <1>6 DEF RecordJobFailed
  <2>2. run[w].pc = "jobFailed" /\ UNCHANGED <<submissions, packages, request>>
    BY <1>6 DEF RecordJobFailed
  <2>3. \A pc \in {"submissionFailed", "rejected"} :
          VerdictSound([run[w] EXCEPT !.pc = pc])
    BY <1>1 DEF VerdictSound, RunState
  <2>4. o = "done" => Executed(o)
    BY DEF Executed
  <2>5. QED
    BY <2>1, <2>2, <2>3, <2>4, JobWritten DEF RunPc, Unfinished, Finished
<1>7. CASE RecordSubmissionFailed(w)
  <2>1. PICK o \in Outcomes :
          /\ Ends(o)
          /\ submissions' = IF Executed(o)
                            THEN [submissions EXCEPT ![SubmissionOf(w)] =
                                    WithResult(@, "failed", None)]
                            ELSE submissions
          /\ MoveTo(w, IF o = "done" THEN "resolved" ELSE "rejected")
    BY <1>7 DEF RecordSubmissionFailed
  <2>2. run[w].pc = "submissionFailed" /\ UNCHANGED <<jobs, packages, request>>
    BY <1>7 DEF RecordSubmissionFailed
  <2>3. QED  BY <2>1, <2>2, SubmissionWritten
<1>8. QED
  BY <1>2, <1>3, <1>4, <1>5, <1>6, <1>7 DEF RunStep

-----------------------------------------------------------------------------
(* Safe is inductive.                                                      *)

LEMMA SafeInitially == Init => Safe
<1> SUFFICES ASSUME Init PROVE Safe
  OBVIOUS
<1>1. TypeOK
  BY FaultsAssumption
  DEF Init, RunInit, TypeOK, RunTypeOK, SubmissionRow, NewSubmission,
      SubmissionStatus, JobRow, NoJobRow, JobStatus, RequestState, NoRequest,
      RunState, RunPc, Idle
<1>2. JobRowsOwned /\ MessagesExist /\ RequestsSound
  BY DEF Init, RunInit, JobRowsOwned, MessagesExist, RequestsSound, Exists,
         NoJobRow, NoRequest
<1>3. BatchesSound /\ RunsSound /\ PassedHasValidHash
  BY DEF Init, RunInit, BatchesSound, RunsSound, VerdictSound, PassedHasValidHash,
         Idle, NewSubmission
<1>4. QED  BY <1>1, <1>2, <1>3 DEF Safe

\* Rows written or expired: what becomes of a row is one of the three states.
LEMMA RowStateType ==
  ASSUME TypeOK, Upserts
  PROVE  rowState' \in [Submissions -> {"whole", "gone", "partial"}]
BY DEF TypeOK, Upserts

LEMMA SafeAfterRun ==
  ASSUME Safe, NEW w \in Workers, RunRecord(w)
  PROVE  Safe'
<1>1. Worked(w) /\ run[w].pc # "idle"
  BY RunWorks DEF RunRecord, RunStep, MarkRunning, ValidatePackage,
     RecordJobResult, RecordSubmissionResult, RecordJobFailed, RecordSubmissionFailed
<1>2. TypeOK'
  <2>1. run[w].job \in Jobs
    BY <1>1, HolderHasJob
  <2>2. decided' \subseteq Jobs /\ UNCHANGED <<messages, visible, batch, taken, shared>>
    BY <2>1 DEF Safe, TypeOK, RunRecord
  <2>3. QED  BY <1>1, <2>2, RowStateType DEF Worked, Safe, TypeOK, RunRecord
<1>3. \A j : Exists(j) => Exists(j)' /\ jobs'[j].submissionId = jobs[j].submissionId
  BY <1>1 DEF Worked, Exists
<1>4. JobRowsOwned'
  BY <1>1 DEF Worked, Safe, JobRowsOwned, Exists
<1>5. MessagesExist' /\ RequestsSound'
  BY <1>1, <1>3 DEF Worked, Safe, MessagesExist, RequestsSound, RunRecord
<1>6. BatchesSound'
  BY <1>1 DEF Worked, Safe, BatchesSound, RunRecord
<1>7. RunsSound' /\ PassedHasValidHash'
  BY <1>1 DEF Worked, Safe, RunsSound
<1>8. QED  BY <1>2, <1>4, <1>5, <1>6, <1>7 DEF Safe

\* A request changes its own state, the jobs table, a submission or the queue.
LEMMA SafeAfterRequest ==
  ASSUME Safe, NEW r \in Requests, NEW state \in RequestState,
         request' = [request EXCEPT ![r] = state],
         state.pc # "idle" => state.submission \in Submissions,
         state.pc \in {"push", "mark"} => Exists(state.job)',
         faults' \in 0 .. MaxFaults,
         jobs' \in [Jobs -> JobRow(Submissions)],
         \A j \in Jobs : Exists(j) => jobs'[j] = jobs[j],
         JobRowsOwned',
         submissions' \in [Submissions -> SubmissionRow], PassedHasValidHash',
         visible' \subseteq messages', messages' \subseteq Jobs,
         \A j \in messages' : Exists(j)',
         rowState' \in [Submissions -> {"whole", "gone", "partial"}],
         UNCHANGED <<packages, run, batch, taken, history>>
  PROVE  Safe'
<1>1. \A j : Exists(j) => Exists(j)'
  BY DEF Exists
<1>2. TypeOK'
  BY DEF Safe, TypeOK, RunTypeOK, history
<1>3. MessagesExist'
  BY <1>1 DEF Safe, MessagesExist
<1>4. RequestsSound'
  BY <1>1 DEF Safe, TypeOK, RunTypeOK, RequestsSound
<1>5. BatchesSound' /\ RunsSound'
  BY DEF Safe, BatchesSound, RunsSound
<1>6. QED  BY <1>2, <1>3, <1>4, <1>5 DEF Safe

LEMMA SafeAfterCreate ==
  ASSUME Safe, NEW r \in Requests, CreateJob(r), Upserts, UNCHANGED queueVars
  PROVE  Safe'
<1>1. TypeOK /\ RunTypeOK /\ request[r] \in RequestState
  BY DEF Safe, TypeOK, RunTypeOK
<1>2. PICK j \in Jobs, o \in Outcomes :
        /\ jobs[j].status = "absent"
        /\ Ends(o)
        /\ jobs' = IF Executed(o)
                   THEN [jobs EXCEPT ![j] = QueuedJob(request[r].submission)]
                   ELSE jobs
        /\ request' = [request EXCEPT
                         ![r] = IF o = "done"
                                THEN [@ EXCEPT !.pc = "push", !.job = j]
                                ELSE NoRequest]
  BY <1>1 DEF CreateJob
<1>3. request[r].submission \in Submissions
  BY DEF Safe, RequestsSound, CreateJob
<1> DEFINE state == IF o = "done"
                    THEN [request[r] EXCEPT !.pc = "push", !.job = j]
                    ELSE NoRequest
<1>4. /\ state \in RequestState
      /\ state.pc # "idle" =>
           state.submission \in Submissions /\ state.job = j /\ o = "done"
  BY <1>1, <1>3, NoRequestType DEF RequestState, NoRequest
<1>5. request' = [request EXCEPT ![r] = state]
  BY <1>2
<1> HIDE DEF state
<1>6. QueuedJob(request[r].submission) \in JobRow(Submissions)
      /\ QueuedJob(request[r].submission).status = "queued"
      /\ QueuedJob(request[r].submission).submissionId \in Submissions
  BY <1>3 DEF QueuedJob, JobRow, JobStatus
<1>7. /\ jobs' \in [Jobs -> JobRow(Submissions)]
      /\ \A k \in Jobs : Exists(k) => jobs'[k] = jobs[k]
      /\ o = "done" => Exists(j)'
  BY <1>1, <1>2, <1>6 DEF RunTypeOK, Exists, Executed
<1>8. JobRowsOwned'
  BY <1>1, <1>2, <1>6 DEF Safe, JobRowsOwned, Exists, RunTypeOK
<1>9. faults' \in 0 .. MaxFaults
  BY <1>1, <1>2, EndsFacts DEF RunTypeOK
<1>10. UNCHANGED <<submissions, packages, run, messages, visible, batch, taken, history>>
  BY DEF CreateJob, queueVars
<1>11. /\ visible' \subseteq messages' /\ messages' \subseteq Jobs
       /\ \A k \in messages' : Exists(k)'
       /\ submissions' \in [Submissions -> SubmissionRow] /\ PassedHasValidHash'
  BY <1>1, <1>7, <1>10
  DEF Safe, TypeOK, RunTypeOK, MessagesExist, PassedHasValidHash, Exists
<1>12. QED
  BY <1>1, <1>4, <1>5, <1>7, <1>8, <1>9, <1>10, <1>11, RowStateType,
     SafeAfterRequest

\* The steps of a request that leave the jobs table alone.
LEMMA SafeAfterOther ==
  ASSUME Safe, NEW r \in Requests, NEW state \in RequestState,
         request' = [request EXCEPT ![r] = state],
         state.pc # "idle" => state.submission \in Submissions,
         state.pc \in {"push", "mark"} => Exists(state.job),
         faults' \in 0 .. MaxFaults,
         submissions' \in [Submissions -> SubmissionRow], PassedHasValidHash',
         visible' \subseteq messages', \A j \in messages' : Exists(j),
         rowState' \in [Submissions -> {"whole", "gone", "partial"}],
         UNCHANGED <<jobs, packages, run, batch, taken, history>>
  PROVE  Safe'
<1>1. \A j : Exists(j)' <=> Exists(j)
  BY DEF Exists
<1>2. JobRowsOwned' /\ jobs' \in [Jobs -> JobRow(Submissions)]
  BY <1>1 DEF Safe, TypeOK, RunTypeOK, JobRowsOwned
<1>3. messages' \subseteq Jobs
  BY DEF Exists
<1>4. QED  BY <1>1, <1>2, <1>3, SafeAfterRequest

LEMMA SafeAfterPush ==
  ASSUME Safe, NEW r \in Requests, Push(r)
  PROVE  Safe'
<1>1. TypeOK /\ RunTypeOK /\ request[r] \in RequestState
  BY DEF Safe, TypeOK, RunTypeOK
<1>2. PICK o \in Outcomes :
        /\ AfterPush(r, o)
        /\ messages' = messages \cup IF Executed(o) THEN {request[r].job} ELSE {}
        /\ visible' = visible \cup IF Executed(o) THEN {request[r].job} ELSE {}
  BY DEF Push
<1>3. request[r].submission \in Submissions /\ Exists(request[r].job)
  BY <1>2 DEF Safe, RequestsSound, AfterPush
<1> DEFINE state == IF o = "done" THEN [request[r] EXCEPT !.pc = "mark"]
                                  ELSE NoRequest
<1>4. /\ state \in RequestState
      /\ state.pc # "idle" =>
           state.submission \in Submissions /\ Exists(state.job)
  BY <1>1, <1>3, NoRequestType DEF RequestState, NoRequest
<1>5. request' = [request EXCEPT ![r] = state]
  BY <1>2 DEF AfterPush
<1> HIDE DEF state
<1>6. /\ faults' \in 0 .. MaxFaults
      /\ UNCHANGED <<submissions, jobs, packages, run, batch, taken, rowState, history>>
  BY <1>1, <1>2, EndsFacts DEF AfterPush, RunTypeOK, Push
<1>7. visible' \subseteq messages' /\ \A j \in messages' : Exists(j)
  BY <1>2, <1>3 DEF Safe, TypeOK, MessagesExist
<1>8. submissions' \in [Submissions -> SubmissionRow] /\ PassedHasValidHash'
  BY <1>1, <1>6 DEF Safe, RunTypeOK, PassedHasValidHash
<1>9. rowState' \in [Submissions -> {"whole", "gone", "partial"}]
  BY <1>1, <1>6 DEF TypeOK
<1>10. QED
  BY <1>4, <1>5, <1>6, <1>7, <1>8, <1>9, SafeAfterOther DEF RequestState

LEMMA SafeAfterMark ==
  ASSUME Safe, NEW r \in Requests, MarkQueued(r), Upserts, UNCHANGED queueVars
  PROVE  Safe'
<1>1. TypeOK /\ RunTypeOK
  BY DEF Safe, TypeOK
<1>2. request[r].submission \in Submissions /\ request[r].job \in Jobs
  BY DEF Safe, RequestsSound, MarkQueued, Exists
<1>3. PICK o \in Outcomes :
        /\ Ends(o)
        /\ submissions' =
             IF Executed(o)
             THEN [submissions EXCEPT ![request[r].submission] =
                     MarkedQueued(@, request[r].job)]
             ELSE submissions
  BY DEF MarkQueued
<1>4. /\ submissions' \in [Submissions -> SubmissionRow]
      /\ submissions'[request[r].submission].validationStatus = "queued"
           \/ submissions' = submissions
      /\ \A q \in Submissions : q # request[r].submission =>
           submissions'[q] = submissions[q]
  BY <1>1, <1>2, <1>3, MarkedFacts DEF RunTypeOK
<1>5. PassedHasValidHash'
  BY <1>4 DEF Safe, PassedHasValidHash
<1>6. /\ request' = [request EXCEPT ![r] = NoRequest]
      /\ UNCHANGED <<jobs, packages, run, messages, visible, batch, taken, history>>
      /\ faults' \in 0 .. MaxFaults
  BY <1>1, <1>3, EndsFacts DEF MarkQueued, queueVars, RunTypeOK
<1>7. visible' \subseteq messages' /\ \A j \in messages' : Exists(j)
  BY <1>6 DEF Safe, TypeOK, MessagesExist
<1>8. QED
  BY <1>1, <1>4, <1>5, <1>6, <1>7, NoRequestType, RowStateType, SafeAfterOther
  DEF NoRequest

LEMMA SafeAfterCheck ==
  ASSUME Safe, NEW r \in Requests,
         \/ \E s \in Submissions : Check(r, s)
         \/ RequestCrash(r) /\ UNCHANGED <<queueVars, rowState>>
  PROVE  Safe'
<1>1. TypeOK /\ RunTypeOK
  BY DEF Safe, TypeOK
<1>2. /\ UNCHANGED <<submissions, jobs, packages, run, rowState>>
      /\ UNCHANGED <<messages, visible, batch, taken, history>>
      /\ faults' \in 0 .. MaxFaults
  BY <1>1, FaultFacts
  DEF Check, CheckPackage, RequestCrash, queueVars, RunTypeOK
<1>3. PICK state \in RequestState :
        /\ request' = [request EXCEPT ![r] = state]
        /\ state.pc \in {"idle", "create"}
        /\ state.pc # "idle" => state.submission \in Submissions
  BY NoRequestType DEF Check, CheckPackage, RequestCrash, RequestState, NoRequest
<1>4. /\ visible' \subseteq messages' /\ \A j \in messages' : Exists(j)
      /\ submissions' \in [Submissions -> SubmissionRow] /\ PassedHasValidHash'
      /\ rowState' \in [Submissions -> {"whole", "gone", "partial"}]
  BY <1>1, <1>2
  DEF Safe, MessagesExist, RunTypeOK, TypeOK, PassedHasValidHash
<1>5. QED  BY <1>2, <1>3, <1>4, SafeAfterOther

\* An invocation changes its own state and the messages, the jobs of which exist.
LEMMA SafeAfterInvocation ==
  ASSUME Safe, NEW w \in Workers, NEW b \in Seq(Jobs), NEW t \in SUBSET Jobs,
         NEW r \in RunState,
         batch' = [batch EXCEPT ![w] = b],
         taken' = [taken EXCEPT ![w] = t],
         run' = [run EXCEPT ![w] = r],
         r.pc = "idle" => b = <<>>,
         r.pc # "idle" =>
           /\ Len(b) >= 1 /\ r.job = b[1]
           /\ \A i \in 1 .. Len(b) : b[i] \in t,
         VerdictSound(r),
         \A j \in t : Exists(j),
         visible' \subseteq messages', messages' \subseteq messages,
         shared' \subseteq Jobs,
         faults' \in 0 .. MaxFaults,
         UNCHANGED <<submissions, jobs, packages, request, rowState, decided>>
  PROVE  Safe'
<1>1. TypeOK'
  BY DEF Safe, TypeOK, RunTypeOK, Exists
<1>2. JobRowsOwned' /\ RequestsSound' /\ PassedHasValidHash'
  BY DEF Safe, JobRowsOwned, RequestsSound, PassedHasValidHash, Exists
<1>3. MessagesExist'
  BY DEF Safe, TypeOK, MessagesExist, Exists
<1>4. BatchesSound'
  BY DEF Safe, TypeOK, RunTypeOK, BatchesSound
<1>5. RunsSound'
  BY DEF Safe, TypeOK, RunTypeOK, RunsSound
<1>6. QED  BY <1>1, <1>2, <1>3, <1>4, <1>5 DEF Safe

LEMMA FreshVerdict ==
  /\ VerdictSound(Idle)
  /\ \A j : VerdictSound(Begun(j))
BY DEF VerdictSound, Begun, Idle

LEMMA SafeAfterReceive ==
  ASSUME Safe, NEW w \in Workers, Receive(w)
  PROVE  Safe'
<1>n. PICK n \in 1 .. BatchSize :
        \E records \in [1 .. n -> visible] :
          /\ batch' = [batch EXCEPT ![w] = records]
          /\ taken' = [taken EXCEPT ![w] = Range(records)]
          /\ shared' = shared \cup
                         {j \in Range(records) : \E v \in Workers : j \in taken[v]}
          /\ run' = [run EXCEPT ![w] = Begun(records[1])]
          /\ \/ visible' = visible \ Range(records) /\ UNCHANGED faults
             \/ Fault /\ UNCHANGED visible
  BY DEF Receive
<1>1. PICK records \in [1 .. n -> visible] :
        /\ batch' = [batch EXCEPT ![w] = records]
        /\ taken' = [taken EXCEPT ![w] = Range(records)]
        /\ shared' = shared \cup
                       {j \in Range(records) : \E v \in Workers : j \in taken[v]}
        /\ run' = [run EXCEPT ![w] = Begun(records[1])]
        /\ \/ visible' = visible \ Range(records) /\ UNCHANGED faults
           \/ Fault /\ UNCHANGED visible
  BY <1>n
<1>2. n \in Nat /\ n >= 1 /\ visible \subseteq Jobs
  BY BatchAssumption DEF Safe, TypeOK
<1>3. /\ records \in Seq(Jobs) /\ Len(records) = n
      /\ \A i \in 1 .. n : records[i] \in visible
  BY <1>2
<1>4. Range(records) \subseteq visible /\ \A i \in 1 .. n : records[i] \in Range(records)
  BY <1>3 DEF Range
<1>5. /\ Begun(records[1]) \in RunState /\ Begun(records[1]).pc = "start"
      /\ Begun(records[1]).job = records[1]
  BY <1>2, <1>3, BegunType
<1>6. faults' \in 0 .. MaxFaults
  BY <1>1, FaultFacts DEF Safe, TypeOK, RunTypeOK
<1>7. /\ \A j \in Range(records) : Exists(j)
      /\ visible' \subseteq messages' /\ messages' \subseteq messages
  BY <1>1, <1>4 DEF Safe, TypeOK, MessagesExist, Receive
<1>8. Range(records) \in SUBSET Jobs /\ shared' \subseteq Jobs
  BY <1>1, <1>2, <1>4 DEF Safe, TypeOK
<1>9. UNCHANGED <<submissions, jobs, packages, request, rowState, decided>>
  BY DEF Receive
<1>10. QED
  BY <1>1, <1>2, <1>3, <1>4, <1>5, <1>6, <1>7, <1>8, <1>9, FreshVerdict,
     SafeAfterInvocation

LEMMA TailElements ==
  ASSUME NEW S, NEW q \in Seq(S), Len(q) > 1
  PROVE  /\ Tail(q) \in Seq(S) /\ Len(Tail(q)) = Len(q) - 1
         /\ Len(q) \in Nat /\ q[2] \in S /\ Tail(q)[1] = q[2]
         /\ \A i \in 1 .. Len(q) - 1 : Tail(q)[i] = q[i + 1]
OBVIOUS

LEMMA SafeAfterNext ==
  ASSUME Safe, NEW w \in Workers, NextRecord(w)
  PROVE  Safe'
<1>1. /\ batch[w] \in Seq(Jobs) /\ taken[w] \in SUBSET Jobs /\ TypeOK
      /\ Len(batch[w]) > 1
  BY DEF Safe, TypeOK, NextRecord
<1>2. /\ batch' = [batch EXCEPT ![w] = Tail(batch[w])]
      /\ taken' = [taken EXCEPT ![w] = taken[w]]
      /\ run' = [run EXCEPT ![w] = Begun(batch[w][2])]
      /\ UNCHANGED <<submissions, jobs, packages, request, faults, messages, visible>>
      /\ UNCHANGED <<rowState, decided, shared>>
  BY <1>1 DEF NextRecord, TypeOK, history
<1>3. \A i \in 1 .. Len(batch[w]) : batch[w][i] \in taken[w]
  BY DEF Safe, BatchesSound, NextRecord
<1>4. /\ Tail(batch[w]) \in Seq(Jobs) /\ Len(Tail(batch[w])) >= 1
      /\ batch[w][2] \in Jobs /\ Tail(batch[w])[1] = batch[w][2]
      /\ \A i \in 1 .. Len(Tail(batch[w])) : Tail(batch[w])[i] \in taken[w]
  BY <1>1, <1>3, TailElements
<1>5. /\ Begun(batch[w][2]) \in RunState /\ Begun(batch[w][2]).pc = "start"
      /\ Begun(batch[w][2]).job = batch[w][2]
  BY <1>4, BegunType
<1>6. /\ \A j \in taken[w] : Exists(j)
      /\ visible' \subseteq messages' /\ messages' \subseteq messages
      /\ shared' \subseteq Jobs
      /\ faults' \in 0 .. MaxFaults
  BY <1>1, <1>2 DEF Safe, MessagesExist, TypeOK, RunTypeOK
<1>7. QED
  BY <1>1, <1>2, <1>4, <1>5, <1>6, FreshVerdict, SafeAfterInvocation

LEMMA SafeAfterEnd ==
  ASSUME Safe, NEW w \in Workers,
         InvocationSucceeds(w) \/ InvocationFails(w) \/ InvocationDies(w)
  PROVE  Safe'
<1>1. TypeOK /\ RunTypeOK
  BY DEF Safe, TypeOK
<1>2. /\ run' = [run EXCEPT ![w] = Idle]
      /\ batch' = [batch EXCEPT ![w] = <<>>]
      /\ taken' = [taken EXCEPT ![w] = {}]
      /\ UNCHANGED <<submissions, jobs, packages, request, rowState, decided, shared>>
      /\ faults' \in 0 .. MaxFaults
  BY <1>1, FaultFacts
  DEF InvocationSucceeds, InvocationFails, InvocationDies, GiveBack, Acknowledge,
      Over, history, RunTypeOK
<1>3. /\ visible' \subseteq messages' /\ messages' \subseteq messages
      /\ shared' \subseteq Jobs
  BY <1>1, <1>2
  DEF InvocationSucceeds, InvocationFails, InvocationDies, GiveBack, Acknowledge,
      Over, TypeOK
<1> DEFINE b == <<>>
            t == {}
<1>4. /\ b \in Seq(Jobs) /\ t \in SUBSET Jobs /\ \A j \in t : Exists(j)
      /\ batch' = [batch EXCEPT ![w] = b] /\ taken' = [taken EXCEPT ![w] = t]
  BY <1>2
<1>5. /\ Idle \in RunState /\ VerdictSound(Idle)
      /\ Idle.pc = "idle" => b = <<>>
      /\ Idle.pc # "idle" => /\ Len(b) >= 1 /\ Idle.job = b[1]
                             /\ \A i \in 1 .. Len(b) : b[i] \in t
  BY IdleType, FreshVerdict
<1> HIDE DEF b, t
<1>6. QED  BY <1>2, <1>3, <1>4, <1>5, SafeAfterInvocation

LEMMA SafeAfterUpload ==
  ASSUME Safe,
         \/ \E s \in Submissions, p \in Packages :
              Upload(s, p) /\ UNCHANGED <<queueVars, rowState>>
         \/ \E s \in Submissions : ExpireRow(s)
         \/ UNCHANGED vars
  PROVE  Safe'
<1>1. /\ UNCHANGED <<submissions, jobs, request, run, faults, batch, taken>>
      /\ UNCHANGED <<messages, visible, decided, shared>>
      /\ packages' \in [Submissions -> Packages \cup {None}]
      /\ rowState' \in [Submissions -> {"whole", "gone", "partial"}]
  BY DEF Safe, TypeOK, RunTypeOK, Upload, ExpireRow, queueVars, history, vars
<1>2. TypeOK'
  BY <1>1 DEF Safe, TypeOK, RunTypeOK
<1>3. QED
  BY <1>1, <1>2 DEF Safe, JobRowsOwned, MessagesExist, RequestsSound, BatchesSound,
     RunsSound, PassedHasValidHash, Exists

LEMMA SafeAfterStep == Safe /\ [Next]_vars => Safe'
<1> SUFFICES ASSUME Safe, [Next]_vars PROVE Safe'
  OBVIOUS
<1>1. ASSUME NEW r \in Requests, RequestStep(r) PROVE Safe'
  BY <1>1, SafeAfterCreate, SafeAfterPush, SafeAfterMark DEF RequestStep
<1>2. ASSUME NEW w \in Workers, WorkerStep(w) PROVE Safe'
  BY <1>2, SafeAfterReceive, SafeAfterRun, SafeAfterNext, SafeAfterEnd DEF WorkerStep
<1>3. CASE Environment
  BY <1>3, SafeAfterCheck, SafeAfterUpload, SafeAfterEnd DEF Environment
<1>4. QED  BY <1>1, <1>2, <1>3, SafeAfterUpload DEF Next

-----------------------------------------------------------------------------
(* No step loses a job.                                                    *)

\* A run of j went through, and j has a verdict unless it was written over.
Settled(j) == j \in decided /\ (jobs[j].status \in Finished \/ j \in shared)

Tracked(j) == Pending(j) \/ Settled(j)

\* The records invocation w has not run to the end.
Left(w) ==
  {batch[w][i] : i \in (IF run[w].pc = "resolved" THEN 2 ELSE 1) .. Len(batch[w])}

\* The statements of a run that follow the write of the verdict to its job.
Writing == {"submissionResult", "submissionFailed"}

\* What invocation w may rely on.  A message of its event that was deleted, or
\* that another invocation has too, is a shared one; a record it is through
\* with is settled; and its current job has a verdict to copy to the submission.
Careful(w) ==
  /\ run[w].pc = "idle" => taken[w] = {}
  /\ \A j \in taken[w] :
       /\ j \in messages \/ j \in shared
       /\ \A v \in Workers \ {w} : j \in taken[v] => j \in shared
       /\ j \in Left(w) \/ Settled(j)
  /\ run[w].pc \in Writing =>
       jobs[run[w].job].status \in Finished \/ run[w].job \in shared

AllCareful == \A w \in Workers : Careful(w)

\* A step of a run writes the verdict to the job before it goes on to the
\* submission or ends well, and takes no verdict from any other job.
LEMMA RunSettles ==
  ASSUME Safe, AllCareful, NEW w \in Workers, RunRecord(w)
  PROVE  /\ Worked(w)
         /\ run[w].pc \notin {"idle", "resolved"}
         /\ run[w].job \in taken[w] /\ run[w].job \in Left(w)
         /\ run'[w].pc \in Writing \cup {"resolved"} =>
              jobs'[run[w].job].status \in Finished \/ run[w].job \in shared
         /\ run'[w].pc = "resolved" => run[w].job \in decided'
<1>1. Worked(w) /\ RunStep(w)
  BY RunWorks DEF RunRecord
<1>2. run[w].pc \in (Unfinished \ {"rejected"}) \cup Writing
  BY <1>1 DEF RunStep, MarkRunning, ValidatePackage, RecordJobResult,
     RecordSubmissionResult, RecordJobFailed, RecordSubmissionFailed, Unfinished, Writing
<1>3. run[w].pc \notin {"idle", "resolved"}
  BY <1>2 DEF Unfinished, Writing
<1>4. /\ Len(batch[w]) >= 1 /\ run[w].job = batch[w][1]
      /\ \A i \in 1 .. Len(batch[w]) : batch[w][i] \in taken[w]
      /\ batch[w] \in Seq(Jobs)
  BY <1>3 DEF Safe, BatchesSound, TypeOK
<1>5. 1 \in 1 .. Len(batch[w])
  BY <1>4
<1>6. run[w].job \in taken[w] /\ run[w].job \in Left(w)
  BY <1>3, <1>4, <1>5 DEF Left
<1>7. ASSUME run'[w].pc \in Writing \cup {"resolved"}
      PROVE  jobs'[run[w].job].status \in Finished \/ run[w].job \in shared
  <2>1. run'[w].pc \notin Unfinished
    BY <1>7 DEF Unfinished, Writing
  <2>2. CASE run[w].pc \in Unfinished
    BY <1>1, <2>1, <2>2 DEF Worked
  <2>3. CASE run[w].pc \in Writing
    <3>1. jobs[run[w].job].status \in Finished \/ run[w].job \in shared
      BY <2>3 DEF AllCareful, Careful
    <3>2. run[w].job \in Jobs
      BY <1>4, <1>5
    <3>3. QED  BY <1>1, <2>1, <3>1, <3>2 DEF Worked
  <2>4. QED  BY <1>2, <2>2, <2>3
<1>8. run'[w].pc = "resolved" => run[w].job \in decided'
  BY DEF RunRecord
<1>9. QED  BY <1>1, <1>3, <1>6, <1>7, <1>8

\* A settled job stays settled, or is the shared or unfinished job of w.
LEMMA SettledAfterRun ==
  ASSUME Safe, AllCareful, NEW w \in Workers, RunRecord(w), NEW j \in Jobs, Settled(j),
         j # run[w].job \/ j \in shared
  PROVE  Settled(j)'
<1>1. Worked(w) /\ decided \subseteq decided' /\ UNCHANGED shared
  BY RunSettles DEF RunRecord
<1>2. QED  BY <1>1 DEF Worked, Settled

LEMMA CarefulAfterRun ==
  ASSUME Safe, AllCareful, NEW w \in Workers, RunRecord(w)
  PROVE  AllCareful'
<1>1. /\ Worked(w) /\ run[w].pc \notin {"idle", "resolved"}
      /\ run[w].job \in taken[w] /\ run[w].job \in Left(w)
      /\ run'[w].pc \in Writing \cup {"resolved"} =>
           jobs'[run[w].job].status \in Finished \/ run[w].job \in shared
      /\ run'[w].pc = "resolved" => run[w].job \in decided'
  BY RunSettles
<1>2. UNCHANGED <<messages, visible, batch, taken, shared>>
  BY DEF RunRecord
<1>3. /\ run'[w].pc # "idle" /\ run'[w].job = run[w].job
      /\ \A v \in Workers \ {w} : run'[v] = run[v]
  BY <1>1 DEF Worked
<1>4. \A v \in Workers : taken[v] \subseteq Jobs
  BY DEF Safe, TypeOK
<1>5. Careful(w)'
  <2>1. ASSUME NEW j \in taken[w] PROVE j \in Left(w)' \/ Settled(j)'
    <3>1. CASE j = run[w].job
      <4>1. CASE run'[w].pc = "resolved"
        BY <1>1, <1>2, <3>1, <4>1 DEF Settled
      <4>2. CASE run'[w].pc # "resolved"
        BY <1>1, <1>2, <3>1, <4>2 DEF Left
      <4>3. QED  BY <4>1, <4>2
    <3>2. CASE j # run[w].job /\ j \in Left(w)
      <4>1. PICK i \in 1 .. Len(batch[w]) : j = batch[w][i]
        BY <1>1, <3>2 DEF Left
      <4>2. batch[w][1] = run[w].job /\ Len(batch[w]) \in Nat
        BY <1>1 DEF Safe, BatchesSound, TypeOK
      <4>3. i \in 2 .. Len(batch[w])
        BY <3>2, <4>1, <4>2
      <4>4. QED  BY <1>2, <4>1, <4>3, <4>2 DEF Left
    <3>3. CASE j # run[w].job /\ Settled(j)
      BY <1>4, <2>1, <3>3, SettledAfterRun
    <3>4. QED  BY <2>1, <3>1, <3>2, <3>3 DEF AllCareful, Careful
  <2>2. QED  BY <1>1, <1>2, <1>3, <2>1 DEF AllCareful, Careful
<1>6. ASSUME NEW v \in Workers \ {w} PROVE Careful(v)'
  <2>1. Careful(v) /\ run'[v] = run[v] /\ Left(v)' = Left(v)
    BY <1>2, <1>3, <1>6 DEF AllCareful, Left
  <2>2. \A j \in taken[v] : j = run[w].job => j \in shared
    BY <1>1, <2>1 DEF Careful
  <2>3. \A j \in taken[v] : Settled(j) => Settled(j)'
    BY <1>4, <2>2, SettledAfterRun
  <2>4. ASSUME run[v].pc \in Writing
        PROVE  jobs'[run[v].job].status \in Finished \/ run[v].job \in shared
    <3>1. run[v].job \in taken[v] /\ run[v].job \in Jobs
      <4>1. 1 \in 1 .. Len(batch[v]) /\ run[v].job = batch[v][1]
            /\ \A i \in 1 .. Len(batch[v]) : batch[v][i] \in taken[v]
        BY <2>4 DEF Safe, BatchesSound, TypeOK, Writing
      <4>2. QED  BY <1>4, <4>1
    <3>2. QED  BY <1>1, <2>1, <2>2, <2>4, <3>1 DEF Careful, Worked
  <2>5. QED  BY <1>2, <2>1, <2>3, <2>4 DEF Careful
<1>7. QED  BY <1>5, <1>6 DEF AllCareful

\* No invocation is concerned: messages may come, a verdict may not go.
LEMMA CarefulOther ==
  ASSUME AllCareful, UNCHANGED <<run, batch, taken, decided, shared>>,
         messages \subseteq messages',
         \A j : jobs[j].status \in Finished => jobs'[j].status \in Finished
  PROVE  AllCareful'
<1> SUFFICES ASSUME NEW w \in Workers PROVE Careful(w)'
  BY DEF AllCareful
<1>1. Careful(w) /\ Left(w)' = Left(w)
  BY DEF AllCareful, Left
<1>2. \A j : Settled(j) => Settled(j)'
  BY DEF Settled
<1>3. QED  BY <1>1, <1>2 DEF Careful

LEMMA CarefulAfterReceive ==
  ASSUME Safe, AllCareful, NEW w \in Workers, Receive(w)
  PROVE  AllCareful'
<1>n. PICK n \in 1 .. BatchSize :
        \E records \in [1 .. n -> visible] :
          /\ batch' = [batch EXCEPT ![w] = records]
          /\ taken' = [taken EXCEPT ![w] = Range(records)]
          /\ shared' = shared \cup
                         {j \in Range(records) : \E v \in Workers : j \in taken[v]}
          /\ run' = [run EXCEPT ![w] = Begun(records[1])]
  BY DEF Receive
<1>1. PICK records \in [1 .. n -> visible] :
        /\ batch' = [batch EXCEPT ![w] = records]
        /\ taken' = [taken EXCEPT ![w] = Range(records)]
        /\ shared' = shared \cup
                       {j \in Range(records) : \E v \in Workers : j \in taken[v]}
        /\ run' = [run EXCEPT ![w] = Begun(records[1])]
  BY <1>n
<1>2. n \in Nat /\ n >= 1 /\ visible \subseteq messages /\ messages \subseteq Jobs
  BY BatchAssumption DEF Safe, TypeOK
<1>3. /\ records \in Seq(Jobs) /\ Len(records) = n
      /\ Range(records) \subseteq messages
  BY <1>2 DEF Range
<1>4. /\ batch'[w] = records /\ run'[w] = Begun(records[1])
      /\ taken'[w] = Range(records)
      /\ \A v \in Workers \ {w} :
           /\ run'[v] = run[v] /\ batch'[v] = batch[v] /\ taken'[v] = taken[v]
      /\ UNCHANGED <<jobs, messages, decided>>
  BY <1>1 DEF Safe, TypeOK, RunTypeOK, Receive
<1>5. run'[w].pc = "start"
  BY <1>2, <1>3, <1>4, BegunType
<1>6. \A j \in Range(records) : j \in Left(w)'
  BY <1>3, <1>4, <1>5 DEF Left, Range
<1>7. Careful(w)'
  BY <1>1, <1>3, <1>4, <1>5, <1>6 DEF Careful, Writing
<1>8. ASSUME NEW v \in Workers \ {w} PROVE Careful(v)'
  <2>1. Careful(v) /\ Left(v)' = Left(v)
    BY <1>4 DEF AllCareful, Left
  <2>2. \A j : Settled(j) => Settled(j)'
    BY <1>1, <1>4 DEF Settled
  <2>3. ASSUME NEW j \in taken[v], NEW u \in Workers \ {v}, j \in taken'[u]
        PROVE  j \in shared'
    <3>1. CASE u = w
      BY <1>1, <1>4, <2>3, <3>1
    <3>2. CASE u # w
      BY <1>1, <1>4, <2>1, <2>3, <3>2 DEF Careful
    <3>3. QED  BY <3>1, <3>2
  <2>4. QED  BY <1>1, <1>4, <2>1, <2>2, <2>3 DEF Careful
<1>9. QED  BY <1>7, <1>8 DEF AllCareful

LEMMA CarefulAfterNext ==
  ASSUME Safe, AllCareful, NEW w \in Workers, NextRecord(w)
  PROVE  AllCareful'
<1>1. TypeOK /\ batch[w] \in Seq(Jobs) /\ Len(batch[w]) > 1 /\ run[w].pc = "resolved"
  BY DEF Safe, TypeOK, NextRecord
<1>2. /\ batch'[w] = Tail(batch[w]) /\ run'[w] = Begun(batch[w][2])
      /\ \A v \in Workers \ {w} : run'[v] = run[v] /\ batch'[v] = batch[v]
      /\ UNCHANGED <<jobs, messages, taken, decided, shared>>
  BY <1>1 DEF NextRecord, TypeOK, RunTypeOK, history
<1>3. run'[w].pc = "start"
  BY <1>1, <1>2, TailElements, BegunType
<1>4. \A j \in Left(w) : j \in Left(w)'
  <2>1. ASSUME NEW i \in 2 .. Len(batch[w])
        PROVE  i - 1 \in 1 .. Len(batch'[w]) /\ batch'[w][i - 1] = batch[w][i]
    BY <1>1, <1>2, TailElements
  <2>2. QED  BY <1>1, <1>3, <2>1 DEF Left
<1>5. \A v \in Workers \ {w} : Left(v)' = Left(v)
  BY <1>2 DEF Left
<1>6. \A j : Settled(j) => Settled(j)'
  BY <1>2 DEF Settled
<1>7. Careful(w)'
  BY <1>2, <1>3, <1>4, <1>6 DEF AllCareful, Careful, Writing
<1>8. \A v \in Workers \ {w} : Careful(v)'
  BY <1>2, <1>5, <1>6 DEF AllCareful, Careful
<1>9. QED  BY <1>7, <1>8 DEF AllCareful

\* An invocation ends; of the messages, those it had may be deleted.
LEMMA CarefulAfterEnd ==
  ASSUME Safe, AllCareful, NEW w \in Workers,
         InvocationSucceeds(w) \/ InvocationFails(w) \/ InvocationDies(w)
  PROVE  AllCareful'
<1>1. /\ run'[w] = Idle /\ taken'[w] = {}
      /\ \A v \in Workers \ {w} :
           run'[v] = run[v] /\ batch'[v] = batch[v] /\ taken'[v] = taken[v]
      /\ UNCHANGED <<jobs, decided, shared>> /\ messages \ taken[w] \subseteq messages'
  BY DEF Safe, TypeOK, RunTypeOK, InvocationSucceeds, InvocationFails,
         InvocationDies, GiveBack, Acknowledge, Over, history
<1>2. Careful(w)'
  BY <1>1 DEF Careful, Idle, Writing
<1>3. ASSUME NEW v \in Workers \ {w} PROVE Careful(v)'
  <2>1. Careful(v) /\ Left(v)' = Left(v)
    BY <1>1 DEF AllCareful, Left
  <2>2. \A j : Settled(j) => Settled(j)'
    BY <1>1 DEF Settled
  <2>3. \A j \in taken[v] : j \in messages' \/ j \in shared
    BY <1>1, <2>1 DEF Careful
  <2>4. \A j \in taken[v] : \A u \in Workers \ {v} : j \in taken'[u] => j \in shared
    BY <1>1, <2>1 DEF Careful
  <2>5. QED  BY <1>1, <2>1, <2>2, <2>3, <2>4 DEF Careful
<1>4. QED  BY <1>2, <1>3 DEF AllCareful

\* What each kind of step that is not an invocation's does to the messages and
\* verdicts.
LEMMA OtherSteps ==
  ASSUME Safe, [Next]_vars,
         ~ \E w \in Workers : WorkerStep(w) \/ InvocationDies(w)
  PROVE  /\ UNCHANGED <<run, batch, taken, decided, shared>>
         /\ messages \subseteq messages' /\ visible \subseteq visible'
         /\ \A j : jobs[j].status \in Finished => jobs'[j].status \in Finished
<1>1. ASSUME NEW r \in Requests, RequestStep(r) PROVE
        /\ UNCHANGED <<run, batch, taken, decided, shared>>
        /\ messages \subseteq messages' /\ visible \subseteq visible'
        /\ \A j : jobs[j].status \in Finished => jobs'[j].status \in Finished
  <2>1. CASE CreateJob(r) /\ UNCHANGED queueVars
    <3>1. ASSUME NEW j, jobs[j].status \in Finished
          PROVE  jobs'[j].status \in Finished
      BY <2>1, <3>1 DEF CreateJob, Finished, Safe, TypeOK, RunTypeOK
    <3>2. QED  BY <2>1, <3>1 DEF CreateJob, queueVars, history
  <2>2. CASE Push(r)
    BY <2>2 DEF Push, AfterPush, history
  <2>3. CASE MarkQueued(r) /\ UNCHANGED queueVars
    BY <2>3 DEF MarkQueued, queueVars, history
  <2>4. QED  BY <1>1, <2>1, <2>2, <2>3 DEF RequestStep
<1>2. CASE Environment
  BY <1>2 DEF Environment, Check, CheckPackage, Upload, RequestCrash, ExpireRow,
     queueVars, history
<1>3. CASE UNCHANGED vars
  BY <1>3 DEF vars
<1>4. QED  BY <1>1, <1>2, <1>3 DEF Next

LEMMA CarefulInitially == Init => AllCareful
BY DEF Init, RunInit, AllCareful, Careful, Idle, Writing

LEMMA CarefulAfterStep == Safe /\ AllCareful /\ [Next]_vars => AllCareful'
<1> SUFFICES ASSUME Safe, AllCareful, [Next]_vars PROVE AllCareful'
  OBVIOUS
<1>1. ASSUME NEW w \in Workers, WorkerStep(w) \/ InvocationDies(w) PROVE AllCareful'
  BY <1>1, CarefulAfterRun, CarefulAfterReceive, CarefulAfterNext, CarefulAfterEnd
  DEF WorkerStep
<1>2. QED  BY <1>1, OtherSteps, CarefulOther

\* Whatever happens, a job whose message will be delivered or is being worked
\* on, or a run of which went through, goes on having one of the two.
LEMMA NoneLost ==
  ASSUME Safe, AllCareful, [Next]_vars, NEW j \in Jobs, Tracked(j)
  PROVE  Tracked(j)'
<1>1. ASSUME NEW w \in Workers, RunRecord(w) PROVE Tracked(j)'
  <2>1. UNCHANGED <<messages, visible, taken>>
    BY <1>1 DEF RunRecord
  <2>2. CASE Pending(j)
    BY <2>1, <2>2 DEF Tracked, Pending
  <2>3. CASE ~Pending(j)
    <3>1. j = run[w].job => j \in shared
      BY <1>1, <2>3, RunSettles DEF Pending, AllCareful, Careful
    <3>2. QED  BY <1>1, <2>3, <3>1, SettledAfterRun DEF Tracked
  <2>4. QED  BY <2>2, <2>3
<1>2. ASSUME NEW w \in Workers, Receive(w) PROVE Tracked(j)'
  <2>1. PICK records :
          /\ taken' = [taken EXCEPT ![w] = Range(records)]
          /\ shared \subseteq shared' /\ visible \ Range(records) \subseteq visible'
    BY <1>2 DEF Receive
  <2>2. /\ taken'[w] = Range(records) /\ taken[w] = {}
        /\ \A v \in Workers \ {w} : taken'[v] = taken[v]
        /\ UNCHANGED <<jobs, messages, decided>>
    BY <1>2, <2>1 DEF Safe, TypeOK, AllCareful, Careful, Receive
  <2>3. QED  BY <2>1, <2>2 DEF Tracked, Pending, Settled
<1>3. ASSUME NEW w \in Workers, NextRecord(w) PROVE Tracked(j)'
  BY <1>3 DEF NextRecord, Tracked, Pending, Settled, history
<1>4. ASSUME NEW w \in Workers, InvocationSucceeds(w) PROVE Tracked(j)'
  <2>1. /\ \A v \in Workers \ {w} : taken'[v] = taken[v]
        /\ UNCHANGED <<jobs, decided, shared>>
        /\ messages' = messages \ taken[w] /\ visible' = visible \ taken[w]
    BY <1>4 DEF InvocationSucceeds, Acknowledge, Over, history, Safe, TypeOK
  <2>2. Left(w) = {}
    BY <1>4 DEF InvocationSucceeds, Left
  <2>3. CASE j \in taken[w]
    BY <2>1, <2>2, <2>3 DEF AllCareful, Careful, Tracked, Settled
  <2>4. CASE j \notin taken[w]
    BY <2>1, <2>4 DEF Tracked, Pending, Settled
  <2>5. QED  BY <2>3, <2>4
<1>5. ASSUME NEW w \in Workers, InvocationFails(w) \/ InvocationDies(w)
      PROVE  Tracked(j)'
  <2>1. /\ \A v \in Workers \ {w} : taken'[v] = taken[v]
        /\ UNCHANGED <<jobs, messages, decided, shared>>
        /\ visible' = visible \cup (taken[w] \cap messages)
    BY <1>5 DEF InvocationFails, InvocationDies, GiveBack, Over, history, Safe, TypeOK
  <2>2. QED  BY <2>1 DEF Tracked, Pending, Settled
<1>6. CASE ~ \E w \in Workers : WorkerStep(w) \/ InvocationDies(w)
  BY <1>6, OtherSteps DEF Tracked, Pending, Settled
<1>7. QED  BY <1>1, <1>2, <1>3, <1>4, <1>5, <1>6 DEF WorkerStep

\* The jobs somebody counts on: that of a request about to mark, and the one a
\* submission points to.
HandedOver ==
  /\ \A r \in Requests : request[r].pc = "mark" => Tracked(request[r].job)
  /\ \A s \in Submissions :
       submissions[s].validationJobId # None =>
         Tracked(submissions[s].validationJobId)

\* Who comes to count on a job.
LEMMA NewReferences ==
  ASSUME Safe, [Next]_vars
  PROVE  /\ \A r \in Requests :
              request'[r].pc = "mark" =>
                \/ request[r].pc = "mark" /\ request'[r].job = request[r].job
                \/ request'[r].job \in visible'
         /\ \A s \in Submissions :
              submissions'[s].validationJobId # None =>
                \/ submissions'[s].validationJobId = submissions[s].validationJobId
                \/ \E r \in Requests :
                     /\ request[r].pc = "mark"
                     /\ submissions'[s].validationJobId = request[r].job
<1> DEFINE Marks(r) ==
             request'[r].pc = "mark" =>
               \/ request[r].pc = "mark" /\ request'[r].job = request[r].job
               \/ request'[r].job \in visible'
           Points(s) ==
             submissions'[s].validationJobId # None =>
               \/ submissions'[s].validationJobId = submissions[s].validationJobId
               \/ \E r \in Requests :
                    /\ request[r].pc = "mark"
                    /\ submissions'[s].validationJobId = request[r].job
<1> SUFFICES /\ \A r \in Requests : Marks(r)
             /\ \A s \in Submissions : Points(s)
  OBVIOUS
<1>t. TypeOK /\ RunTypeOK
  BY DEF Safe, TypeOK
<1>1. ASSUME NEW w \in Workers, WorkerStep(w)
      PROVE  (\A r \in Requests : Marks(r)) /\ (\A s \in Submissions : Points(s))
  <2>1. CASE RunRecord(w)
    BY <2>1, RunWorks DEF Worked, RunRecord
  <2>2. CASE UNCHANGED <<request, submissions>>
    BY <2>2
  <2>3. QED
    BY <1>1, <2>1, <2>2
    DEF WorkerStep, Receive, NextRecord, InvocationSucceeds, InvocationFails,
        GiveBack, Acknowledge, Over
<1>2. ASSUME NEW q \in Requests, CreateJob(q)
      PROVE  (\A r \in Requests : Marks(r)) /\ (\A s \in Submissions : Points(s))
  <2>1. PICK j \in Jobs, o \in Outcomes :
          request' = [request EXCEPT
                        ![q] = IF o = "done"
                               THEN [@ EXCEPT !.pc = "push", !.job = j]
                               ELSE NoRequest]
    BY <1>2 DEF CreateJob
  <2>2. request'[q].pc # "mark"
    BY <1>t, <2>1 DEF RunTypeOK, RequestState, NoRequest
  <2>3. \A r \in Requests : r # q => request'[r] = request[r]
    BY <1>t, <2>1 DEF RunTypeOK
  <2>4. QED  BY <1>2, <2>2, <2>3 DEF CreateJob
<1>3. ASSUME NEW q \in Requests, Push(q)
      PROVE  (\A r \in Requests : Marks(r)) /\ (\A s \in Submissions : Points(s))
  <2>1. PICK o \in Outcomes :
          /\ AfterPush(q, o)
          /\ visible' = visible \cup IF Executed(o) THEN {request[q].job} ELSE {}
    BY <1>3 DEF Push
  <2>2. \A r \in Requests : r # q => request'[r] = request[r]
    BY <1>t, <2>1 DEF RunTypeOK, AfterPush
  <2>3. CASE o = "done"
    <3>1. request'[q].job = request[q].job
      BY <1>t, <2>1, <2>3 DEF RunTypeOK, RequestState, AfterPush
    <3>2. QED  BY <2>1, <2>2, <2>3, <3>1 DEF AfterPush, Executed
  <2>4. CASE o # "done"
    <3>1. request'[q].pc # "mark"
      BY <1>t, <2>1, <2>4 DEF RunTypeOK, AfterPush, NoRequest
    <3>2. QED  BY <2>1, <2>2, <3>1 DEF AfterPush
  <2>5. QED  BY <2>3, <2>4
<1>4. ASSUME NEW q \in Requests, MarkQueued(q)
      PROVE  (\A r \in Requests : Marks(r)) /\ (\A s \in Submissions : Points(s))
  <2>1. PICK o \in Outcomes :
          submissions' =
            IF Executed(o)
            THEN [submissions EXCEPT ![request[q].submission] =
                    MarkedQueued(@, request[q].job)]
            ELSE submissions
    BY <1>4 DEF MarkQueued
  <2>2. /\ request[q].submission \in Submissions /\ request[q].job \in Jobs
        /\ request[q].pc = "mark"
    BY <1>4 DEF Safe, RequestsSound, MarkQueued, Exists
  <2>3. /\ submissions'[request[q].submission].validationJobId =
             IF Executed(o) THEN request[q].job
             ELSE submissions[request[q].submission].validationJobId
        /\ \A s \in Submissions : s # request[q].submission =>
             submissions'[s] = submissions[s]
    BY <1>t, <2>1, <2>2, MarkedFacts DEF RunTypeOK
  <2>4. /\ request'[q].pc # "mark"
        /\ \A r \in Requests : r # q => request'[r] = request[r]
    BY <1>t, <1>4 DEF RunTypeOK, MarkQueued, NoRequest
  <2>5. QED  BY <2>2, <2>3, <2>4
<1>5. ASSUME Environment
      PROVE  (\A r \in Requests : Marks(r)) /\ (\A s \in Submissions : Points(s))
  <2>1. CASE UNCHANGED <<request, submissions>>
    BY <2>1
  <2>2. ASSUME NEW q \in Requests, NEW s \in Submissions, Check(q, s)
        PROVE  (\A r \in Requests : Marks(r)) /\ UNCHANGED submissions
    BY <1>t, <2>2 DEF RunTypeOK, Check, CheckPackage
  <2>3. ASSUME NEW q \in Requests, RequestCrash(q)
        PROVE  (\A r \in Requests : Marks(r)) /\ UNCHANGED submissions
    BY <1>t, <2>3 DEF RunTypeOK, RequestCrash, NoRequest
  <2>4. CASE \E s \in Submissions, p \in Packages : Upload(s, p)
    BY <2>1, <2>4 DEF Upload
  <2>5. CASE \E s \in Submissions : ExpireRow(s)
    BY <2>1, <2>5 DEF ExpireRow
  <2>6. CASE \E w \in Workers : InvocationDies(w)
    BY <2>1, <2>6 DEF InvocationDies, GiveBack, Over
  <2>7. QED  BY <1>5, <2>2, <2>3, <2>4, <2>5, <2>6 DEF Environment
<1>6. CASE UNCHANGED vars
  BY <1>6 DEF vars
<1>7. QED
  BY <1>1, <1>2, <1>3, <1>4, <1>5, <1>6 DEF Next, RequestStep

LEMMA HandedOverAfterStep ==
  Safe /\ AllCareful /\ HandedOver /\ [Next]_vars => HandedOver'
<1> SUFFICES ASSUME Safe, AllCareful, HandedOver, [Next]_vars PROVE HandedOver'
  OBVIOUS
<1>1. \A j \in Jobs : Tracked(j) => Tracked(j)'
  BY NoneLost
<1>2. \A r \in Requests : request[r].pc = "mark" => request[r].job \in Jobs
  BY DEF Safe, RequestsSound, Exists
<1>3. \A s \in Submissions :
        submissions[s].validationJobId # None =>
          submissions[s].validationJobId \in Jobs
  BY DEF Safe, TypeOK, RunTypeOK, SubmissionRow
<1>4. ASSUME NEW r \in Requests, request'[r].pc = "mark"
      PROVE  Tracked(request[r].job)'
  <2>1. CASE request[r].pc = "mark" /\ request'[r].job = request[r].job
    BY <1>1, <1>2, <2>1 DEF HandedOver
  <2>2. CASE request'[r].job \in visible'
    BY <2>2, SafeAfterStep DEF Tracked, Pending, Safe, TypeOK
  <2>3. QED  BY <1>4, <2>1, <2>2, NewReferences
<1>5. ASSUME NEW s \in Submissions, submissions'[s].validationJobId # None
      PROVE  Tracked(submissions[s].validationJobId)'
  <2>1. CASE submissions'[s].validationJobId = submissions[s].validationJobId
    BY <1>1, <1>3, <1>5, <2>1 DEF HandedOver
  <2>2. ASSUME NEW r \in Requests, request[r].pc = "mark",
               submissions'[s].validationJobId = request[r].job
        PROVE  Tracked(submissions[s].validationJobId)'
    BY <1>1, <1>2, <2>2 DEF HandedOver
  <2>3. QED  BY <1>5, <2>1, <2>2, NewReferences
<1>6. QED  BY <1>4, <1>5 DEF HandedOver

LEMMA HandedOverInitially == Init => HandedOver
BY DEF Init, RunInit, HandedOver, NewSubmission, NoRequest

LEMMA HandedOverIsKept == HandedOver => MarkedJobIsNotLost
BY DEF HandedOver, MarkedJobIsNotLost, Tracked, Settled

-----------------------------------------------------------------------------
(* The theorems.                                                           *)

LEMMA AlwaysSafe == Spec => []Safe
<1>1. Init => Safe
  BY SafeInitially
<1>2. Safe /\ [Next]_vars => Safe'
  BY SafeAfterStep
<1>3. QED  BY <1>1, <1>2, PTL DEF Spec

\* The tables, the SQS messages, the Lambda events and the rows the TTL deletes
\* or an UpdateItem re-creates keep their types under every interleaving of
\* enqueueSubmissionValidation, createWorkerHandler and runValidationJob.
THEOREM SqsTypeCorrect == Spec => []TypeOK
<1>1. Safe => TypeOK
  BY DEF Safe
<1>2. QED  BY <1>1, AlwaysSafe, PTL

\* A submission shown as passed has the sha256 of a package that the validation
\* accepted, for any number of uploads, repeated deliveries and dead invocations
\* between the read of the package and the write of the verdict.
THEOREM SqsPassedIsHashed == Spec => []PassedHasValidHash
<1>1. Safe => PassedHasValidHash
  BY DEF Safe
<1>2. QED  BY <1>1, AlwaysSafe, PTL

\* The job a submission points to always has a message that SQS will deliver or
\* an invocation is busy with, or else a run of it has gone through and, unless
\* two invocations had it at the same time, it shows the verdict: no failed
\* record, dead invocation, second delivery, or deletion of a message under an
\* invocation that still works on it, loses it between enqueueValidationJob and
\* the worker.
THEOREM SqsMarkedJobsKept == Spec => []MarkedJobIsNotLost
<1>1. Init => AllCareful /\ HandedOver
  BY CarefulInitially, HandedOverInitially
<1>2. Safe /\ AllCareful /\ HandedOver /\ [Next]_vars => AllCareful' /\ HandedOver'
  BY CarefulAfterStep, HandedOverAfterStep
<1>3. HandedOver => MarkedJobIsNotLost
  BY HandedOverIsKept
<1>4. QED  BY <1>1, <1>2, <1>3, AlwaysSafe, PTL DEF Spec

=============================================================================
