------------------------------- MODULE Payouts -------------------------------
(***************************************************************************)
(* The Stripe payout fields of an organization: reports of market-app that *)
(* a connected account was made or updated, served at the same time and    *)
(* with deletions of the organization.  The handler checks that there is   *)
(* such an organization, and so does the DynamoDB adapter again; then      *)
(* Postgres updates the row if it is there, while UpdateItem makes one if  *)
(* it is not.                                                              *)
(*                                                                         *)
(* chargesEnabled and payoutsEnabled are one flag, and the other columns   *)
(* of an organization are those of Organizations.                          *)
(***************************************************************************)
EXTENDS Deployment

CONSTANTS
  PayoutOrgs,
  Accounts,     \* Stripe account ids
  Reports,      \* requests served at the same time
  NoAccount

ASSUME NoAccountAssumption == NoAccount \notin Accounts
ASSUME PayoutOrgsAssumption == PayoutOrgs # {}

\* "ghost": a row UpdateItem made for an organization that was deleted.
PayoutRow ==
  [row : {"org", "deleted", "ghost"}, account : Accounts \cup {NoAccount},
   enabled : BOOLEAN, onboardedAt : 0 .. MaxTime]  \* 0: not set

NewPayout == [row |-> "org", account |-> NoAccount, enabled |-> FALSE,
              onboardedAt |-> 0]

VARIABLES
  payouts,  \* of the organizations table: the payout fields
  report    \* the handlers' local state

payoutVars == <<payouts, report>>

ReportState ==
  [pc : {"idle", "get", "update"}, org : PayoutOrgs,
   account : Accounts \cup {NoAccount}, enabled : BOOLEAN,
   onboardedAt : 0 .. MaxTime]

NoReport == [pc |-> "idle", org |-> CHOOSE o \in PayoutOrgs : TRUE,
             account |-> NoAccount, enabled |-> FALSE, onboardedAt |-> 0]

PayoutInit ==
  /\ payouts = [o \in PayoutOrgs |-> NewPayout]
  /\ report = [h \in Reports |-> NoReport]

-----------------------------------------------------------------------------
\* isOrganization asks for no more than the key.
IsOrganization(o) == payouts[o].row \in {"org", "ghost"}

\* setOrgStripeAccountHandler finds the organization.  The caller stamps
\* payoutOnboardedAt when payouts are enabled, as far as it knows for the first
\* time.
BeginReport(h, o, account, enabled) ==
  /\ report[h].pc = "idle"
  /\ IsOrganization(o)
  /\ \E stamp \in IF enabled THEN {0, now} ELSE {0} :
       report' = [report EXCEPT ![h] =
                    [pc |-> IF adapter = "dynamodb" THEN "get" ELSE "update",
                     org |-> o, account |-> account, enabled |-> enabled,
                     onboardedAt |-> stamp]]
  /\ UNCHANGED payouts

\* DynamoDB: the Get of setOrgStripeAccount.
GetOrg(h) ==
  /\ report[h].pc = "get"
  /\ report' = [report EXCEPT ![h] = IF IsOrganization(report[h].org)
                                     THEN [@ EXCEPT !.pc = "update"]
                                     ELSE NoReport]
  /\ UNCHANGED payouts

\* Mutant: the arguments of COALESCE swapped.
OnboardedLast(row, r) ==
  IF r.onboardedAt # 0 THEN r.onboardedAt ELSE row.onboardedAt

\* COALESCE(payout_onboarded_at, $5), if_not_exists(payoutOnboardedAt, ...).
Onboarded(row, r) ==
  IF row.onboardedAt # 0 THEN row.onboardedAt ELSE r.onboardedAt

Reported(row, r) ==
  [row EXCEPT !.account = r.account, !.enabled = r.enabled,
              !.onboardedAt = Onboarded(row, r)]

\* The row after the statement finds none: UPDATE ... WHERE leaves it so,
\* UpdateItem writes the key and the attributes of its expression.
WithoutRow(row, r) ==
  IF adapter = "postgres" THEN row ELSE [Reported(row, r) EXCEPT !.row = "ghost"]

FinishReport(h) ==
  /\ report[h].pc = "update"
  /\ LET r == report[h] IN
     payouts' = [payouts EXCEPT ![r.org] =
                   IF IsOrganization(r.org) THEN Reported(@, r) ELSE WithoutRow(@, r)]
  /\ report' = [report EXCEPT ![h] = NoReport]

\* The last statement of deleteOrg; its checks are in Organizations.
DeletePayoutOrg(o) ==
  /\ IsOrganization(o)
  /\ payouts' = [payouts EXCEPT ![o] = [NewPayout EXCEPT !.row = "deleted"]]
  /\ UNCHANGED report

PayoutStep ==
  \/ \E h \in Reports :
       \/ \E o \in PayoutOrgs, account \in Accounts, enabled \in BOOLEAN :
            BeginReport(h, o, account, enabled)
       \/ GetOrg(h) \/ FinishReport(h)
  \/ \E o \in PayoutOrgs : DeletePayoutOrg(o)

-----------------------------------------------------------------------------
PayoutTypeOK == /\ payouts \in [PayoutOrgs -> PayoutRow]
                /\ report \in [Reports -> ReportState]

\* "Keeps the first-enabled timestamp stable across updates": while an
\* organization is there, the time its payouts were first enabled stays,
\* whatever reports are served at the same time.
OnboardedAtIsKept ==
  [][\A o \in PayoutOrgs :
       payouts[o].onboardedAt # 0 /\ payouts'[o].row = payouts[o].row
         => payouts'[o].onboardedAt = payouts[o].onboardedAt]_payouts

=============================================================================
