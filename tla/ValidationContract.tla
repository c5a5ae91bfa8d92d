------------------------- MODULE ValidationContract -------------------------
(***************************************************************************)
(* What the validation pipeline promises its users, without queue, worker  *)
(* or failure: a job is opened for a submission, is taken up at most once, *)
(* gets a verdict that can afterwards only be withdrawn in favour of       *)
(* "failed" (the catch block of runValidationJob), and the verdict shown   *)
(* on a submission is the verdict its own job has at that moment.          *)
(***************************************************************************)
CONSTANTS Jobs, Submissions, None

VARIABLES jobStatus, jobOwner, shown

contractVars == <<jobStatus, jobOwner, shown>>

Init ==
  /\ jobStatus = [j \in Jobs |-> "absent"]
  /\ jobOwner = [j \in Jobs |-> None]
  /\ shown = [s \in Submissions |-> "pending"]

Open(j, s) ==
  /\ jobStatus[j] = "absent"
  /\ jobStatus' = [jobStatus EXCEPT ![j] = "queued"]
  /\ jobOwner' = [jobOwner EXCEPT ![j] = s]
  /\ UNCHANGED shown

Announce(j, s) ==
  /\ jobOwner[j] = s
  /\ shown' = [shown EXCEPT ![s] = "queued"]
  /\ UNCHANGED <<jobStatus, jobOwner>>

TakeUp(j) ==
  /\ jobStatus[j] = "queued"
  /\ jobStatus' = [jobStatus EXCEPT ![j] = "running"]
  /\ UNCHANGED <<jobOwner, shown>>

Decide(j, verdict) ==
  /\ \/ jobStatus[j] = "running"
     \/ jobStatus[j] = "passed" /\ verdict = "failed"
  /\ jobStatus' = [jobStatus EXCEPT ![j] = verdict]
  /\ UNCHANGED <<jobOwner, shown>>

Show(j, s) ==
  /\ jobOwner[j] = s
  /\ jobStatus[j] \in {"passed", "failed"}
  /\ shown' = [shown EXCEPT ![s] = jobStatus[j]]
  /\ UNCHANGED <<jobStatus, jobOwner>>

Next ==
  \/ \E j \in Jobs, s \in Submissions :
       Open(j, s) \/ Announce(j, s) \/ Show(j, s)
  \/ \E j \in Jobs : TakeUp(j)
  \/ \E j \in Jobs, verdict \in {"passed", "failed"} : Decide(j, verdict)

Spec == Init /\ [][Next]_contractVars

=============================================================================
