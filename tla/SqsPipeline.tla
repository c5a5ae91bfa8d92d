----------------------------- MODULE SqsPipeline -----------------------------
(***************************************************************************)
(* The hosted validation pipeline: the API sends a job message to SQS, a   *)
(* Lambda invocation receives a batch of records and runs them one after   *)
(* the other (lambda-worker.ts).  A record that rejects fails the whole    *)
(* invocation, and SQS makes every message of the batch visible again.     *)
(* SQS may also deliver a message a second time while the first delivery   *)
(* is being processed; the first of the two invocations that returns       *)
(* deletes it for both.                                                    *)
(*                                                                         *)
(* The tables are DynamoDB's: a never-uploaded submission row may be       *)
(* deleted by its TTL, and UpdateItem on a missing key creates a row that  *)
(* has only the written attributes.                                        *)
(***************************************************************************)
EXTENDS ValidationRun, Sequences, Functions

CONSTANT BatchSize  \* records of one SQS event

ASSUME BatchAssumption == BatchSize \in Nat \ {0}

VARIABLES
  messages,  \* messages SQS holds: sent, and not deleted yet
  visible,   \* those of them it can deliver
  batch,     \* per invocation: records not yet run, the current one first
  taken,     \* per invocation: all messages of its event
  rowState,  \* whole, gone (TTL), or partial (re-created by an UpdateItem)
  \* What happened so far, for the properties to refer to:
  decided,   \* jobs a run of which has gone through
  shared     \* jobs that two invocations had in their events at the same time

vars == <<submissions, jobs, packages, request, run, faults,
          messages, visible, batch, taken, rowState, decided, shared>>

history == <<decided, shared>>
queueVars == <<messages, visible, batch, taken, history>>

Init ==
  /\ RunInit
  /\ messages = {}
  /\ visible = {}
  /\ batch = [w \in Workers |-> <<>>]
  /\ taken = [w \in Workers |-> {}]
  /\ rowState = [s \in Submissions |-> "whole"]
  /\ decided = {}
  /\ shared = {}

\* UpdateItem is an upsert: a write to a row that is gone leaves a partial one.
Upserts ==
  rowState' = [s \in Submissions |->
                 IF rowState[s] = "gone" /\ submissions'[s] # submissions[s]
                 THEN "partial" ELSE rowState[s]]

-----------------------------------------------------------------------------
\* enqueueValidationJob: SendMessage.
Push(r) ==
  /\ \E o \in Outcomes :
       /\ AfterPush(r, o)
       /\ LET sent == IF Executed(o) THEN {request[r].job} ELSE {} IN
            /\ messages' = messages \cup sent
            /\ visible' = visible \cup sent
  /\ UNCHANGED <<batch, taken, rowState, history>>

\* getSubmission answers undefined for a row that is gone or partial
\* (isSubmissionRecord), which is the 404 that changes nothing.
Check(r, s) ==
  /\ rowState[s] = "whole"
  /\ CheckPackage(r, s)
  /\ UNCHANGED <<queueVars, rowState>>

RequestStep(r) ==
  \/ /\ CreateJob(r) \/ MarkQueued(r)
     /\ Upserts
     /\ UNCHANGED queueVars
  \/ Push(r)

\* A new event: the messages it carries become invisible, or SQS delivers
\* them again later although they are being worked on.
Receive(w) ==
  /\ run[w].pc = "idle"
  /\ \E n \in 1 .. BatchSize : \E records \in [1 .. n -> visible] :
       /\ IsInjective(records)
       /\ batch' = [batch EXCEPT ![w] = records]
       /\ taken' = [taken EXCEPT ![w] = Range(records)]
       /\ shared' = shared \cup
                      {j \in Range(records) : \E v \in Workers : j \in taken[v]}
       /\ run' = [run EXCEPT ![w] = Begun(records[1])]
       /\ \/ visible' = visible \ Range(records) /\ UNCHANGED faults
          \/ Fault /\ UNCHANGED visible
  /\ UNCHANGED <<submissions, jobs, packages, request, messages, rowState, decided>>

\* One statement of runValidationJob for the current record.
RunRecord(w) ==
  /\ RunStep(w)
  /\ Upserts
  /\ decided' = IF run'[w].pc = "resolved" THEN decided \cup {run[w].job}
                                            ELSE decided
  /\ UNCHANGED <<messages, visible, batch, taken, shared>>

\* The for loop of createWorkerHandler goes to its next record ...
NextRecord(w) ==
  /\ run[w].pc = "resolved"
  /\ Len(batch[w]) > 1
  /\ batch' = [batch EXCEPT ![w] = Tail(@)]
  /\ run' = [run EXCEPT ![w] = Begun(batch[w][2])]
  /\ UNCHANGED <<submissions, jobs, packages, request, faults, messages, visible,
                 taken, rowState, history>>

\* The invocation is over and leaves SQS these messages, of which it can
\* deliver those in `seen`.
Over(w, left, seen) ==
  /\ messages' = left
  /\ visible' = seen
  /\ run' = [run EXCEPT ![w] = Idle]
  /\ batch' = [batch EXCEPT ![w] = <<>>]
  /\ taken' = [taken EXCEPT ![w] = {}]
  /\ UNCHANGED <<submissions, jobs, packages, request, rowState, history>>

\* The event is acknowledged: its messages are deleted, also where SQS has
\* made one of them visible again or has delivered it to somebody else.
Acknowledge(w) == Over(w, messages \ taken[w], visible \ taken[w])

\* Mutant: the handler returns after its first record.
FirstRecordOnly(w) ==
  /\ run[w].pc = "resolved"
  /\ Acknowledge(w)
  /\ UNCHANGED faults

\* ... or returns.
InvocationSucceeds(w) ==
  /\ run[w].pc = "resolved"
  /\ Len(batch[w]) = 1
  /\ Acknowledge(w)
  /\ UNCHANGED faults

\* Mutant: the error is swallowed, so SQS deletes the messages.
SwallowError(w) == Acknowledge(w)

\* The whole batch, records already processed included, becomes visible again,
\* apart from messages another invocation has acknowledged meanwhile.
GiveBack(w) == Over(w, messages, visible \cup (taken[w] \cap messages))

InvocationFails(w) ==
  /\ run[w].pc = "rejected"
  /\ GiveBack(w)
  /\ UNCHANGED faults

\* The Lambda times out or its sandbox dies.
InvocationDies(w) == Fault /\ run[w].pc # "idle" /\ GiveBack(w)

\* DynamoDB TTL deletes a submission whose package was never queued.
ExpireRow(s) ==
  /\ rowState[s] = "whole"
  /\ submissions[s].expires
  /\ rowState' = [rowState EXCEPT ![s] = "gone"]
  /\ UNCHANGED <<submissions, jobs, packages, request, run, faults, queueVars>>

WorkerStep(w) ==
  \/ Receive(w)
  \/ RunRecord(w)
  \/ NextRecord(w)
  \/ InvocationSucceeds(w)
  \/ InvocationFails(w)

Environment ==
  \/ \E r \in Requests, s \in Submissions : Check(r, s)
  \/ \E s \in Submissions, p \in Packages :
       Upload(s, p) /\ UNCHANGED <<queueVars, rowState>>
  \/ \E r \in Requests : RequestCrash(r) /\ UNCHANGED <<queueVars, rowState>>
  \/ \E w \in Workers : InvocationDies(w)
  \/ \E s \in Submissions : ExpireRow(s)

Next ==
  \/ \E r \in Requests : RequestStep(r)
  \/ \E w \in Workers : WorkerStep(w)
  \/ Environment

Spec == Init /\ [][Next]_vars

\* SQS keeps invoking the Lambda while messages are visible, and an invocation
\* runs to its end unless it dies, which it does at most MaxFaults times.
FairSpec ==
  /\ Spec
  /\ \A r \in Requests : WF_vars(RequestStep(r))
  /\ \A w \in Workers : WF_vars(WorkerStep(w))

-----------------------------------------------------------------------------
\* Type invariant of the hosted pipeline.
TypeOK ==
  /\ RunTypeOK
  /\ messages \subseteq Jobs
  /\ visible \subseteq messages
  /\ batch \in [Workers -> Seq(Jobs)]
  /\ taken \in [Workers -> SUBSET Jobs]
  /\ rowState \in [Submissions -> {"whole", "gone", "partial"}]
  /\ decided \subseteq Jobs
  /\ shared \subseteq Jobs

Finished == {"passed", "failed"}

\* The message of j will be delivered, or is being worked on.
Pending(j) ==
  /\ j \in messages
  /\ j \in visible \/ \E w \in Workers : j \in taken[w]

\* The job a submission points to is never lost between queue and worker,
\* after failed batches, dead invocations and second deliveries too: SQS still
\* has its message and will deliver it unless an invocation is busy with it, or
\* a run of the job has gone through, and then the job shows a verdict, unless
\* two invocations had it at the same time and the later one wrote over it.
MarkedJobIsNotLost ==
  \A s \in Submissions :
    LET j == submissions[s].validationJobId IN
    j # None =>
      \/ Pending(j)
      \/ j \in decided /\ (jobs[j].status \in Finished \/ j \in shared)

\* A submission shown as passed carries the hash of an acceptable package,
\* whatever was uploaded or run twice in between.
PassedHasValidHash ==
  \A s \in Submissions :
    submissions[s].validationStatus = "passed" =>
      submissions[s].sha256 \in ValidPackages

\* At-least-once delivery does its work: although up to MaxFaults things go
\* wrong, for every message that reached the queue a run of its job goes
\* through, and no invocation has it any more, nor does SQS.
PushedJobsFinish ==
  \A j \in Jobs :
    j \in visible ~>
      j \in decided /\ j \notin messages /\ \A w \in Workers : j \notin taken[w]

=============================================================================
