------------------------------ MODULE ReviewDesk ------------------------------
(***************************************************************************)
(* Submissions from their creation to the decision on them.  The handlers  *)
(* of approve and cancel check the row they read and write it in a later   *)
(* statement; each is a Begin action that reads and a Finish action that   *)
(* writes, with anything in between.  Reject has no check and archive      *)
(* repeats its check in the write, so each of these is one action.         *)
(*                                                                         *)
(* Of the validation pipeline only its two writes to the submissions table *)
(* are here, possible at any moment: enqueueSubmissionValidation checks no *)
(* status, and a worker may be arbitrarily late or early.                  *)
(***************************************************************************)
EXTENDS SubmissionTable, Faults

CONSTANTS
  Submissions,
  Uploads,     \* the packages a submission may carry over time
  Desks        \* approve, cancel and unhide requests served at the same time

ASSUME UploadsAssumption == Uploads \in [Submissions -> SUBSET Packages]
ASSUME NoSubmissionAssumption == None \notin Submissions

VARIABLES
  submissions,  \* the submissions table
  submitted,    \* the submissions whose row exists
  uploaded,     \* history: the packages a submission's packageS3Key has held
  desk          \* the handlers' local state

reviewVars == <<submissions, submitted, uploaded, desk>>

ReviewRequest == [op : {"approve", "cancel"}, target : Submissions]
NoDesk == [op |-> "idle", target |-> None]

Write(s, row) == submissions' = [submissions EXCEPT ![s] = row]

-----------------------------------------------------------------------------
\* createSubmission.  The checks on the target kit of a version update are in
\* Publication.
CreateSubmission(s) ==
  /\ s \notin submitted
  /\ submitted' = submitted \cup {s}
  /\ UNCHANGED <<submissions, uploaded, desk>>

\* A PUT to the URL that createSubmissionUploadUrl answered.  Nothing stops the
\* submitter from using it again before it expires, whatever became of the
\* submission meanwhile: the object is replaced, and no row changes.
Upload(s) ==
  /\ s \in submitted
  /\ \E p \in Uploads[s] : uploaded' = [uploaded EXCEPT ![s] = @ \cup {p}]
  /\ UNCHANGED <<submissions, submitted, desk>>

\* The pipeline marks a submission queued, for the first time or again, when it
\* finds an object at its key.
ValidationQueued(s) ==
  /\ uploaded[s] # {}
  /\ \E j \in Jobs : Write(s, MarkedQueued(submissions[s], j))
  /\ UNCHANGED <<submitted, uploaded, desk>>

\* A worker writes the verdict on the package it read, which need not be the
\* one that is at the key by now.  (One written before
\* the mark is overwritten by it and leaves the columns used here as one
\* written after an earlier mark does.)
ValidationFinished(s) ==
  /\ submissions[s].validationJobId # None
  /\ \/ \E p \in uploaded[s] \cap ValidPackages :
          Write(s, WithResult(submissions[s], "passed", p))
     \/ Write(s, WithResult(submissions[s], "failed", None))
  /\ UNCHANGED <<submitted, uploaded, desk>>

-----------------------------------------------------------------------------
\* approveAdminSubmission: the check ...
BeginApprove(d, s) ==
  /\ desk[d].op = "idle"
  /\ s \in submitted
  /\ submissions[s].validationStatus = "passed"
  /\ desk' = [desk EXCEPT ![d] = [op |-> "approve", target |-> s]]
  /\ UNCHANGED <<submissions, submitted, uploaded>>

\* ... and the write.
FinishApprove(d) ==
  /\ desk[d].op = "approve"
  /\ Write(desk[d].target, Approved(submissions[desk[d].target]))
  /\ desk' = [desk EXCEPT ![d] = NoDesk]
  /\ UNCHANGED <<submitted, uploaded>>

\* cancelOwnSubmission, for the submitter: the check ...
BeginCancel(d, s) ==
  /\ desk[d].op = "idle"
  /\ s \in submitted
  /\ submissions[s].status # "published"
  /\ submissions[s].reviewStatus = "pending"
  /\ desk' = [desk EXCEPT ![d] = [op |-> "cancel", target |-> s]]
  /\ UNCHANGED <<submissions, submitted, uploaded>>

\* ... and the write.
FinishCancel(d) ==
  /\ desk[d].op = "cancel"
  /\ Write(desk[d].target, Canceled(submissions[desk[d].target]))
  /\ desk' = [desk EXCEPT ![d] = NoDesk]
  /\ UNCHANGED <<submitted, uploaded>>

\* rejectAdminSubmission.
Reject(s) ==
  /\ s \in submitted
  /\ Write(s, Rejected(submissions[s]))
  /\ UNCHANGED <<submitted, uploaded, desk>>

\* archiveAdminSubmission.
Archive(s) ==
  /\ s \in submitted
  /\ Write(s, Archived(submissions[s]))
  /\ UNCHANGED <<submitted, uploaded, desk>>

ReviewStep ==
  \/ \E s \in Submissions :
       \/ Upload(s) \/ ValidationQueued(s) \/ ValidationFinished(s)
       \/ Reject(s) \/ Archive(s)
  \/ \E d \in Desks, s \in Submissions : BeginApprove(d, s) \/ BeginCancel(d, s)
  \/ \E d \in Desks : FinishApprove(d) \/ FinishCancel(d)

ReviewInit ==
  /\ submissions = [s \in Submissions |-> NewSubmission]
  /\ submitted = {}
  /\ uploaded = [s \in Submissions |-> {}]
  /\ desk = [d \in Desks |-> NoDesk]

=============================================================================
