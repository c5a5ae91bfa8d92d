---------------------------- MODULE PaymentsProofs ----------------------------
(***************************************************************************)
(* What holds of Payments for any number of buyers, kits, subscriptions,   *)
(* sellers and requests.  The table of entitlements never loses a row, and *)
(* no statement but the write of a grant changes the id or the             *)
(* subscription of a row that is there: RowsStay says so of every step.    *)
(* What is left is what a handler has copied from a row before it writes.  *)
(***************************************************************************)
EXTENDS Payments, FiniteSetTheorems, TLAPS

-----------------------------------------------------------------------------
(* Types, for both deployments however their requests overlap.             *)

\* A row that is there has an id, one that is not carries no subscription.
RowSound(row) == IF Exists(row) THEN row.id \in Ids ELSE row = NoRow

RowsSound == \A u \in Users, k \in Kits : RowSound(entitlements[u][k])

\* What a handler names at a statement that uses it.
RequestSound(r) ==
  /\ r.pc \in {"grant", "granted", "fetch"} =>
       r.user \in Users /\ r.kit \in Kits /\ r.id \in Ids
  /\ r.pc \in {"event", "update"} => r.sub \in Subscriptions
  /\ \A uk \in r.left : Exists(entitlements[uk[1]][uk[2]])

RequestsSound == \A h \in Handlers : RequestSound(handler[h])

Typed == TypeOK /\ RowsSound /\ RequestsSound

\* The same id and subscription as before.
SameRight(old, new) ==
  Exists(old) /\ Exists(new) /\ new.id = old.id /\ new.sub = old.sub

RowsKept ==
  \A u \in Users, k \in Kits :
    \/ entitlements'[u][k] = entitlements[u][k]
    \/ SameRight(entitlements[u][k], entitlements'[u][k])

RowsStay ==
  \A u \in Users, k \in Kits :
    \/ entitlements'[u][k] = entitlements[u][k]
    \/ SameRight(entitlements[u][k], entitlements'[u][k])
    \/ \E h \in Handlers :
         /\ handler[h].pc = "grant" /\ handler[h].user = u /\ handler[h].kit = k
         /\ entitlements'[u][k] = Granted(entitlements[u][k], handler[h].id,
                                          handler[h].sub, handler[h].expires)
         /\ UNCHANGED issued

LEMMA NoRowType == NoRow \in Row /\ ~Exists(NoRow)
BY DEF NoRow, Row, Expiries, EntitlementStatus, Exists

LEMMA NoHandlerType ==
  NoHandler \in HandlerState /\ NoHandler.pc = "idle" /\ NoHandler.left = {}
BY DEF NoHandler, HandlerState, Expiries, EntitlementStatus

\* The three ways a row is written.
LEMMA WrittenRows ==
  ASSUME NEW row \in Row
  PROVE  /\ \A id \in Ids, sub \in Subscriptions \cup {None}, e \in Expiries :
              RowSound(row) =>
                /\ Granted(row, id, sub, e) \in Row
                /\ Exists(Granted(row, id, sub, e))
                /\ Granted(row, id, sub, e).id \in Ids
         /\ Exists(row) => Revoked(row) \in Row /\ SameRight(row, Revoked(row))
         /\ \A status \in EntitlementStatus, e \in Expiries :
              Exists(row) => /\ WithStatus(row, status, e) \in Row
                             /\ SameRight(row, WithStatus(row, status, e))
BY DEF Row, RowSound, Granted, Revoked, WithStatus, SameRight, Exists,
       EntitlementStatus

\* A statement that updates rows that are there.
LEMMA UpdatedRows ==
  ASSUME Typed, NEW h \in Handlers, NEW rows \in SUBSET (Users \X Kits),
         \A uk \in rows : Exists(entitlements[uk[1]][uk[2]]),
         Update(h, rows)
  PROVE  entitlements' \in [Users -> [Kits -> Row]] /\ RowsKept
<1>1. /\ entitlements \in [Users -> [Kits -> Row]]
      /\ handler[h].status \in EntitlementStatus /\ handler[h].expires \in Expiries
  BY DEF Typed, TypeOK, EntitlementTypeOK, HandlerState
<1>2. ASSUME NEW u \in Users, NEW k \in Kits
      PROVE  /\ entitlements'[u][k] \in Row
             /\ \/ entitlements'[u][k] = entitlements[u][k]
                \/ SameRight(entitlements[u][k], entitlements'[u][k])
  <2>1. entitlements'[u][k] =
          IF <<u, k>> \in rows
          THEN WithStatus(entitlements[u][k], handler[h].status, handler[h].expires)
          ELSE entitlements[u][k]
    BY DEF Update
  <2>2. <<u, k>> \in rows => Exists(entitlements[u][k])
    OBVIOUS
  <2>3. entitlements[u][k] \in Row
    BY <1>1
  <2>4. QED  BY <1>1, <2>1, <2>2, <2>3, WrittenRows
<1>3. entitlements' \in [Users -> [Kits -> Row]]
  <2>1. entitlements' =
          [u \in Users |-> [k \in Kits |->
             IF <<u, k>> \in rows
             THEN WithStatus(entitlements[u][k], handler[h].status, handler[h].expires)
             ELSE entitlements[u][k]]]
    BY DEF Update
  <2>2. QED  BY <1>2, <2>1
<1>4. QED  BY <1>2, <1>3 DEF RowsKept

\* A statement that replaces one row.
LEMMA PutRow ==
  ASSUME Typed, NEW u \in Users, NEW k \in Kits, NEW row \in Row, Put(u, k, row)
  PROVE  /\ entitlements' \in [Users -> [Kits -> Row]]
         /\ entitlements'[u][k] = row
         /\ \A v \in Users, l \in Kits :
              <<v, l>> # <<u, k>> => entitlements'[v][l] = entitlements[v][l]
BY DEF Typed, TypeOK, EntitlementTypeOK, Put

\* Every row is there to stay, with the id and the subscription it has unless a
\* grant is written.
LEMMA StepKeepsRows ==
  ASSUME Typed, EntitlementStep
  PROVE  /\ entitlements' \in [Users -> [Kits -> Row]]
         /\ RowsStay
         /\ RowsKept \/ \E h \in Handlers : FinishGrant(h)
<1>t. /\ entitlements \in [Users -> [Kits -> Row]] /\ handler \in [Handlers -> HandlerState]
  BY DEF Typed, TypeOK, EntitlementTypeOK
<1>1. ASSUME UNCHANGED entitlements
      PROVE  entitlements' \in [Users -> [Kits -> Row]] /\ RowsKept
  BY <1>1, <1>t DEF RowsKept
<1>2. ASSUME NEW u \in Users, NEW k \in Kits, Revoke(u, k)
      PROVE  entitlements' \in [Users -> [Kits -> Row]] /\ RowsKept
  <2>1. /\ Revoked(entitlements[u][k]) \in Row
        /\ SameRight(entitlements[u][k], Revoked(entitlements[u][k]))
    BY <1>2, <1>t, WrittenRows DEF Revoke
  <2>2. QED  BY <1>2, <2>1, PutRow DEF Revoke, RowsKept
<1>3. ASSUME NEW h \in Handlers, FinishGrant(h)
      PROVE  entitlements' \in [Users -> [Kits -> Row]] /\ RowsStay
  <2> DEFINE r == handler[h]
             row == entitlements[r.user][r.kit]
             new == Granted(row, r.id, r.sub, r.expires)
  <2>1. /\ r.user \in Users /\ r.kit \in Kits /\ r.id \in Ids
        /\ r.sub \in Subscriptions \cup {None} /\ r.expires \in Expiries
    BY <1>3, <1>t DEF Typed, RequestsSound, RequestSound, FinishGrant, HandlerState
  <2>2. row \in Row /\ RowSound(row)
    BY <2>1, <1>t DEF Typed, RowsSound
  <2>3. new \in Row
    BY <2>1, <2>2, WrittenRows
  <2>4. Put(r.user, r.kit, new) /\ r.pc = "grant" /\ UNCHANGED issued
    BY <1>3 DEF FinishGrant
  <2>5. /\ entitlements' \in [Users -> [Kits -> Row]]
        /\ entitlements'[r.user][r.kit] = new
        /\ \A v \in Users, l \in Kits :
             <<v, l>> # <<r.user, r.kit>> => entitlements'[v][l] = entitlements[v][l]
    BY <2>1, <2>3, <2>4, PutRow
  <2>6. QED  BY <2>4, <2>5 DEF RowsStay
<1>4. ASSUME NEW h \in Handlers, UpdateMatching(h)
      PROVE  entitlements' \in [Users -> [Kits -> Row]] /\ RowsKept
  <2>1. handler[h].sub \in Subscriptions
    BY <1>4 DEF Typed, RequestsSound, RequestSound, UpdateMatching
  <2>2. \A uk \in Carrying(handler[h].sub) : Exists(entitlements[uk[1]][uk[2]])
    BY <2>1, NoneAssumption DEF Carrying, Typed, RowsSound, RowSound, NoRow
  <2>3. Carrying(handler[h].sub) \in SUBSET (Users \X Kits)
    BY DEF Carrying
  <2>4. QED  BY <1>4, <2>2, <2>3, UpdatedRows DEF UpdateMatching
<1>5. ASSUME NEW h \in Handlers, NEW uk \in Users \X Kits, UpdateRow(h, uk)
      PROVE  entitlements' \in [Users -> [Kits -> Row]] /\ RowsKept
  <2>1. Exists(entitlements[uk[1]][uk[2]])
    BY <1>5 DEF Typed, RequestsSound, RequestSound, UpdateRow
  <2>2. \A v \in {uk} : Exists(entitlements[v[1]][v[2]])
    BY <2>1
  <2>3. QED  BY <1>5, <2>2, UpdatedRows DEF UpdateRow
<1>6. RowsKept => RowsStay
  BY DEF RowsKept, RowsStay
<1>7. ASSUME NEW h \in Handlers, HandlerStep(h), ~FinishGrant(h)
      PROVE  entitlements' \in [Users -> [Kits -> Row]] /\ RowsKept
  <2>1. CASE UpdateMatching(h)
    BY <1>4, <2>1
  <2>2. CASE \E uk \in Users \X Kits : UpdateRow(h, uk)
    BY <1>5, <2>2
  <2>3. QED
    BY <1>1, <1>7, <2>1, <2>2
    DEF HandlerStep, BeginGrant, BeginFetch, BeginEvent, ScanRows, FinishFetch, EndRequest
<1>8. CASE \E h \in Handlers : FinishGrant(h)
  BY <1>3, <1>8
<1>9. CASE \A h \in Handlers : ~FinishGrant(h)
  BY <1>1, <1>2, <1>6, <1>7, <1>9 DEF EntitlementStep, Relist
<1>10. QED  BY <1>8, <1>9

LEMMA ExistingStay ==
  ASSUME Typed, RowsStay, NEW u \in Users, NEW k \in Kits, Exists(entitlements[u][k])
  PROVE  Exists(entitlements'[u][k])
<1>1. CASE entitlements'[u][k] = entitlements[u][k]
  BY <1>1 DEF Exists
<1>2. CASE SameRight(entitlements[u][k], entitlements'[u][k])
  BY <1>2 DEF SameRight
<1>3. \A row, id, sub, e : Exists(Granted(row, id, sub, e))
  BY DEF Granted, Exists
<1>4. QED  BY <1>1, <1>2, <1>3 DEF RowsStay

\* A step changes one handler at most, and leaves a sound request there.
LEMMA StepKeepsRequests ==
  ASSUME Typed, EntitlementStep, RowsStay
  PROVE  handler' \in [Handlers -> HandlerState] /\ RequestsSound'
<1>t. /\ entitlements \in [Users -> [Kits -> Row]]
      /\ handler \in [Handlers -> HandlerState]
  BY DEF Typed, TypeOK, EntitlementTypeOK
<1>1. \A uk \in Users \X Kits :
        Exists(entitlements[uk[1]][uk[2]]) => Exists(entitlements'[uk[1]][uk[2]])
  BY ExistingStay
<1>2. ASSUME NEW h \in Handlers, NEW r \in HandlerState,
             handler' = [handler EXCEPT ![h] = r],
             r.pc \in {"grant", "granted", "fetch"} =>
               r.user \in Users /\ r.kit \in Kits /\ r.id \in Ids,
             r.pc \in {"event", "update"} => r.sub \in Subscriptions,
             \A uk \in r.left : Exists(entitlements[uk[1]][uk[2]])
      PROVE  handler' \in [Handlers -> HandlerState] /\ RequestsSound'
  <2>1. handler' \in [Handlers -> HandlerState]
    BY <1>t, <1>2
  <2>2. \A g \in Handlers : handler'[g] = handler[g] \/ handler'[g] = r
    BY <1>t, <1>2
  <2>3. ASSUME NEW g \in Handlers PROVE RequestSound(handler[g])'
    <3>1. handler[g].left \subseteq Users \X Kits /\ r.left \subseteq Users \X Kits
      BY <1>t DEF HandlerState
    <3>2. CASE handler'[g] = handler[g]
      BY <1>1, <3>1, <3>2 DEF Typed, RequestsSound, RequestSound
    <3>3. CASE handler'[g] = r
      BY <1>1, <1>2, <3>1, <3>3 DEF RequestSound
    <3>4. QED  BY <2>2, <3>2, <3>3
  <2>4. QED  BY <2>1, <2>3 DEF RequestsSound
<1>3. CASE UNCHANGED handler
  <2>1. ASSUME NEW g \in Handlers PROVE RequestSound(handler[g])'
    <3>1. handler[g].left \subseteq Users \X Kits
      BY <1>t DEF HandlerState
    <3>2. QED  BY <1>1, <1>3, <3>1 DEF Typed, RequestsSound, RequestSound
  <2>2. QED  BY <1>3, <1>t, <2>1 DEF RequestsSound
<1>4. ASSUME NEW h \in Handlers, Done(h)
      PROVE  handler' \in [Handlers -> HandlerState] /\ RequestsSound'
  BY <1>2, <1>4, NoHandlerType DEF Done
<1>5. ASSUME NEW h \in Handlers, NEW u \in Users, NEW k \in Kits,
             NEW s \in Subscriptions \cup {None}, NEW e \in Expiries,
             BeginGrant(h, u, k, s, e)
      PROVE  handler' \in [Handlers -> HandlerState] /\ RequestsSound'
  <2>1. PICK id \in Ids :
          handler' = [handler EXCEPT ![h] =
                        [NoHandler EXCEPT !.pc = "grant", !.user = u, !.kit = k,
                           !.id = id, !.sub = s, !.expires = e]]
    BY <1>5 DEF BeginGrant
  <2> DEFINE r == [NoHandler EXCEPT !.pc = "grant", !.user = u, !.kit = k,
                     !.id = id, !.sub = s, !.expires = e]
  <2>2. /\ r \in HandlerState /\ r.left = {} /\ r.pc = "grant"
        /\ r.user = u /\ r.kit = k /\ r.id = id
    BY DEF NoHandler, HandlerState, EntitlementStatus
  <2>3. QED  BY <1>2, <2>1, <2>2
<1>6. ASSUME NEW h \in Handlers, NEW s \in Subscriptions, NEW st \in EntitlementStatus,
             NEW e \in Expiries, BeginEvent(h, s, st, e)
      PROVE  handler' \in [Handlers -> HandlerState] /\ RequestsSound'
  <2> DEFINE r == [NoHandler EXCEPT !.pc = "event", !.sub = s,
                     !.status = st, !.expires = e]
  <2>1. r \in HandlerState /\ r.left = {} /\ r.pc = "event" /\ r.sub = s
    BY DEF NoHandler, HandlerState
  <2>2. QED  BY <1>2, <1>6, <2>1 DEF BeginEvent
<1>7. ASSUME NEW h \in Handlers, NEW u \in Users, NEW k \in Kits, BeginFetch(h, u, k)
      PROVE  handler' \in [Handlers -> HandlerState] /\ RequestsSound'
  <2>1. entitlements[u][k].id \in Ids
    BY <1>7 DEF BeginFetch, IsActive, Typed, RowsSound, RowSound, NoRow
  <2> DEFINE r == [NoHandler EXCEPT !.pc = "fetch", !.user = u, !.kit = k,
                                    !.id = entitlements[u][k].id]
  <2>2. /\ r \in HandlerState /\ r.left = {} /\ r.pc = "fetch"
        /\ r.user = u /\ r.kit = k /\ r.id \in Ids
    BY <2>1 DEF NoHandler, HandlerState, EntitlementStatus, Expiries
  <2>3. QED  BY <1>2, <1>7, <2>2 DEF BeginFetch
<1>8. ASSUME NEW h \in Handlers, FinishGrant(h)
      PROVE  handler' \in [Handlers -> HandlerState] /\ RequestsSound'
  <2> DEFINE r == [handler[h] EXCEPT !.pc = "granted"]
  <2>1. /\ r \in HandlerState /\ r.left = handler[h].left /\ r.pc = "granted"
        /\ r.user = handler[h].user /\ r.kit = handler[h].kit /\ r.id = handler[h].id
    BY <1>t DEF HandlerState
  <2>2. handler' = [handler EXCEPT ![h] = r] /\ handler[h].pc = "grant"
    BY <1>8 DEF FinishGrant
  <2>3. RequestSound(handler[h])
    BY DEF Typed, RequestsSound
  <2>4. QED  BY <1>2, <2>1, <2>2, <2>3 DEF RequestSound
<1>9. ASSUME NEW h \in Handlers, ScanRows(h)
      PROVE  handler' \in [Handlers -> HandlerState] /\ RequestsSound'
  <2> DEFINE r == [handler[h] EXCEPT !.pc = "update", !.left = Carrying(handler[h].sub)]
  <2>1. Carrying(handler[h].sub) \subseteq Users \X Kits
    BY DEF Carrying
  <2>2. /\ r \in HandlerState /\ r.left = Carrying(handler[h].sub) /\ r.pc = "update"
        /\ r.sub = handler[h].sub
    BY <1>t, <2>1 DEF HandlerState
  <2>3. handler' = [handler EXCEPT ![h] = r] /\ handler[h].pc = "event"
    BY <1>9 DEF ScanRows
  <2>4. handler[h].sub \in Subscriptions
    BY <2>3 DEF Typed, RequestsSound, RequestSound
  <2>5. \A uk \in r.left : Exists(entitlements[uk[1]][uk[2]])
    BY <2>2, <2>4, NoneAssumption DEF Carrying, Typed, RowsSound, RowSound, NoRow
  <2>6. QED  BY <1>2, <2>2, <2>3, <2>4, <2>5
<1>10. ASSUME NEW h \in Handlers, NEW uk \in Users \X Kits, UpdateRow(h, uk)
       PROVE  handler' \in [Handlers -> HandlerState] /\ RequestsSound'
  <2> DEFINE r == [handler[h] EXCEPT !.left = @ \ {uk}]
  <2>1. /\ r \in HandlerState /\ r.left \subseteq handler[h].left /\ r.pc = "update"
        /\ r.sub = handler[h].sub
    BY <1>10, <1>t DEF HandlerState, UpdateRow
  <2>2. handler' = [handler EXCEPT ![h] = r] /\ handler[h].pc = "update"
    BY <1>10 DEF UpdateRow
  <2>3. RequestSound(handler[h])
    BY DEF Typed, RequestsSound
  <2>4. QED  BY <1>2, <2>1, <2>2, <2>3 DEF RequestSound
<1>11. ASSUME NEW h \in Handlers, HandlerStep(h)
       PROVE  handler' \in [Handlers -> HandlerState] /\ RequestsSound'
  BY <1>4, <1>5, <1>6, <1>7, <1>8, <1>9, <1>10, <1>11
  DEF HandlerStep, UpdateMatching, FinishFetch, EndRequest
<1>12. QED
  BY <1>3, <1>11 DEF EntitlementStep, Revoke, Relist

\* What the buyers were sent, and which kits are public.
LEMMA StepKeepsOthers ==
  ASSUME Typed, EntitlementStep
  PROVE  listed' \subseteq Kits /\ issued' \in [Users -> [Kits -> SUBSET Ids]]
<1>t. /\ issued \in [Users -> [Kits -> SUBSET Ids]] /\ listed \subseteq Kits
      /\ handler \in [Handlers -> HandlerState]
  BY DEF Typed, TypeOK, EntitlementTypeOK
<1>1. CASE UNCHANGED <<listed, issued>>
  BY <1>1, <1>t
<1>2. ASSUME NEW k \in Kits, Relist(k)
      PROVE  listed' \subseteq Kits /\ issued' \in [Users -> [Kits -> SUBSET Ids]]
  BY <1>2, <1>t DEF Relist
<1>3. ASSUME NEW h \in Handlers, FinishFetch(h)
      PROVE  listed' \subseteq Kits /\ issued' \in [Users -> [Kits -> SUBSET Ids]]
  <2>1. handler[h].user \in Users /\ handler[h].kit \in Kits /\ handler[h].id \in Ids
    BY <1>3 DEF Typed, RequestsSound, RequestSound, FinishFetch
  <2>2. QED  BY <1>3, <1>t, <2>1 DEF FinishFetch
<1>4. QED
  BY <1>1, <1>2, <1>3
  DEF EntitlementStep, HandlerStep, BeginGrant, FinishGrant, Revoke, BeginEvent,
      UpdateMatching, ScanRows, UpdateRow, BeginFetch, EndRequest

LEMMA RowsSoundAfterStep ==
  ASSUME Typed, RowsStay
  PROVE  RowsSound'
<1> SUFFICES ASSUME NEW u \in Users, NEW k \in Kits
             PROVE  RowSound(entitlements'[u][k])
  BY DEF RowsSound
<1>1. RowSound(entitlements[u][k]) /\ entitlements[u][k] \in Row
  BY DEF Typed, TypeOK, EntitlementTypeOK, RowsSound
<1>2. CASE entitlements'[u][k] = entitlements[u][k]
  BY <1>1, <1>2
<1>3. CASE SameRight(entitlements[u][k], entitlements'[u][k])
  BY <1>1, <1>3 DEF SameRight, RowSound
<1>4. ASSUME NEW h \in Handlers, handler[h].pc = "grant",
             entitlements'[u][k] = Granted(entitlements[u][k], handler[h].id,
                                           handler[h].sub, handler[h].expires)
      PROVE  RowSound(entitlements'[u][k])
  <2>1. handler[h] \in HandlerState /\ handler[h].id \in Ids
    BY <1>4 DEF Typed, TypeOK, EntitlementTypeOK, RequestsSound, RequestSound
  <2>2. handler[h].sub \in Subscriptions \cup {None} /\ handler[h].expires \in Expiries
    BY <2>1 DEF HandlerState
  <2>3. QED  BY <1>1, <1>4, <2>1, <2>2, WrittenRows DEF RowSound
<1>5. QED  BY <1>2, <1>3, <1>4 DEF RowsStay

-----------------------------------------------------------------------------
(* The side of the sellers.                                                *)

LEMMA NoReportType == NoReport \in ReportState /\ NewPayout \in PayoutRow
BY PayoutOrgsAssumption, MaxTimeAssumption
DEF NoReport, ReportState, NewPayout, PayoutRow

LEMMA ReportedRow ==
  ASSUME NEW row \in PayoutRow, NEW r \in ReportState
  PROVE  /\ Reported(row, r) \in PayoutRow
         /\ Reported(row, r).row = row.row
         /\ row.onboardedAt # 0 => Reported(row, r).onboardedAt = row.onboardedAt
         /\ WithoutRow(row, r) \in PayoutRow
         /\ WithoutRow(row, r) = row \/ WithoutRow(row, r).row = "ghost"
         /\ adapter = "postgres" => WithoutRow(row, r) = row
BY DEF PayoutRow, ReportState, Reported, Onboarded, WithoutRow

\* The one row a report under way or a deletion writes.
LEMMA PayoutWrites ==
  ASSUME PayoutTypeOK, PayoutStep, now \in Times
  PROVE  /\ PayoutTypeOK'
         /\ \A o \in PayoutOrgs :
              \/ payouts'[o] = payouts[o]
              \/ IsOrganization(o) /\ payouts'[o].row = "deleted"
              \/ /\ IsOrganization(o) /\ payouts'[o].row = payouts[o].row
                 /\ payouts[o].onboardedAt # 0 =>
                      payouts'[o].onboardedAt = payouts[o].onboardedAt
              \/ /\ adapter # "postgres" /\ ~IsOrganization(o)
                 /\ payouts'[o].row = "ghost"
<1>1. ASSUME NEW h \in Reports, NEW o \in PayoutOrgs, NEW account \in Accounts,
             NEW enabled \in BOOLEAN, BeginReport(h, o, account, enabled)
      PROVE  PayoutTypeOK' /\ UNCHANGED payouts
  <2>1. PICK stamp \in {0, now} :
          report' = [report EXCEPT ![h] =
                       [pc |-> IF adapter = "dynamodb" THEN "get" ELSE "update",
                        org |-> o, account |-> account, enabled |-> enabled,
                        onboardedAt |-> stamp]]
    BY <1>1 DEF BeginReport
  <2>2. stamp \in 0 .. MaxTime
    BY MaxTimeAssumption DEF Times
  <2>3. QED  BY <1>1, <2>1, <2>2 DEF BeginReport, PayoutTypeOK, ReportState
<1>2. ASSUME NEW h \in Reports, GetOrg(h)
      PROVE  PayoutTypeOK' /\ UNCHANGED payouts
  BY <1>2, NoReportType DEF GetOrg, PayoutTypeOK, ReportState
<1>3. ASSUME NEW h \in Reports, FinishReport(h)
      PROVE  /\ PayoutTypeOK'
             /\ \A o \in PayoutOrgs :
                  \/ payouts'[o] = payouts[o]
                  \/ /\ IsOrganization(o) /\ payouts'[o].row = payouts[o].row
                     /\ payouts[o].onboardedAt # 0 =>
                          payouts'[o].onboardedAt = payouts[o].onboardedAt
                  \/ /\ adapter # "postgres" /\ ~IsOrganization(o)
                     /\ payouts'[o].row = "ghost"
  <2> DEFINE r == report[h]
             p == r.org
             new == IF IsOrganization(p) THEN Reported(payouts[p], r)
                                         ELSE WithoutRow(payouts[p], r)
  <2>1. r \in ReportState /\ p \in PayoutOrgs /\ payouts[p] \in PayoutRow
    BY DEF PayoutTypeOK, ReportState
  <2>2. /\ payouts' = [payouts EXCEPT ![p] = new]
        /\ report' = [report EXCEPT ![h] = NoReport]
    BY <1>3 DEF FinishReport
  <2>3. /\ new \in PayoutRow
        /\ IsOrganization(p) =>
             /\ new.row = payouts[p].row
             /\ payouts[p].onboardedAt # 0 => new.onboardedAt = payouts[p].onboardedAt
        /\ ~IsOrganization(p) =>
             new = payouts[p] \/ (adapter # "postgres" /\ new.row = "ghost")
    BY <2>1, ReportedRow
  <2> HIDE DEF new
  <2>4. PayoutTypeOK'
    BY <2>1, <2>2, <2>3, NoReportType DEF PayoutTypeOK
  <2>5. /\ payouts'[p] = new
        /\ \A o \in PayoutOrgs : o # p => payouts'[o] = payouts[o]
    BY <2>1, <2>2 DEF PayoutTypeOK
  <2>6. QED  BY <2>3, <2>4, <2>5
<1>4. ASSUME NEW o \in PayoutOrgs, DeletePayoutOrg(o)
      PROVE  /\ PayoutTypeOK' /\ payouts'[o].row = "deleted" /\ IsOrganization(o)
             /\ \A p \in PayoutOrgs : p # o => payouts'[p] = payouts[p]
  BY <1>4, NoReportType DEF DeletePayoutOrg, PayoutTypeOK, PayoutRow, NewPayout
<1>5. QED  BY <1>1, <1>2, <1>3, <1>4 DEF PayoutStep

-----------------------------------------------------------------------------
(* Types and onboarding times, always.                                     *)

LEMMA TypedInitially == Init => Typed
<1> SUFFICES ASSUME Init PROVE Typed
  OBVIOUS
<1>1. adapter \in Adapters /\ now \in Times
  BY MaxTimeAssumption DEF Init, DeploymentInit, Times
<1>2. EntitlementTypeOK
  BY NoRowType, NoHandlerType DEF Init, EntitlementsInit, EntitlementTypeOK
<1>3. PayoutTypeOK
  BY NoReportType DEF Init, PayoutInit, PayoutTypeOK
<1>4. RowsSound
  BY NoRowType DEF Init, EntitlementsInit, RowsSound, RowSound
<1>5. RequestsSound
  BY NoHandlerType DEF Init, EntitlementsInit, RequestsSound, RequestSound
<1>6. QED  BY <1>1, <1>2, <1>3, <1>4, <1>5 DEF Typed, TypeOK

LEMMA TypedAfterStep == Typed /\ [Next]_vars => Typed'
<1> SUFFICES ASSUME Typed, [Next]_vars PROVE Typed'
  OBVIOUS
<1>t. /\ adapter \in Adapters /\ now \in Times
      /\ EntitlementTypeOK /\ PayoutTypeOK /\ RowsSound /\ RequestsSound
  BY DEF Typed, TypeOK
<1>1. CASE Buying
  <2>1. RowsStay /\ entitlements' \in [Users -> [Kits -> Row]]
    BY <1>1, StepKeepsRows DEF Buying
  <2>2. EntitlementTypeOK' /\ RequestsSound'
    BY <1>1, <2>1, StepKeepsRequests, StepKeepsOthers DEF Buying, EntitlementTypeOK
  <2>3. RowsSound'
    BY <2>1, RowsSoundAfterStep
  <2>4. PayoutTypeOK' /\ UNCHANGED <<adapter, now>>
    BY <1>1, <1>t DEF Buying, PayoutTypeOK, payoutVars, deploymentVars
  <2>5. QED  BY <1>t, <2>2, <2>3, <2>4 DEF Typed, TypeOK
<1>2. CASE UNCHANGED rightVars
  <2>1. EntitlementTypeOK' /\ RequestsSound' /\ RowsSound'
    BY <1>2, <1>t
    DEF rightVars, EntitlementTypeOK, RequestsSound, RequestSound, RowsSound
  <2>2. CASE Selling
    <3>1. PayoutTypeOK' /\ UNCHANGED <<adapter, now>>
      BY <1>t, <2>2, PayoutWrites DEF Selling, deploymentVars
    <3>2. QED  BY <1>t, <2>1, <3>1 DEF Typed, TypeOK
  <2>3. CASE UNCHANGED payoutVars /\ now' \in Times /\ UNCHANGED adapter
    <3>1. PayoutTypeOK'
      BY <1>t, <2>3 DEF PayoutTypeOK, payoutVars
    <3>2. QED  BY <1>t, <2>1, <2>3, <3>1 DEF Typed, TypeOK
  <2>4. TimePasses => UNCHANGED payoutVars /\ now' \in Times /\ UNCHANGED adapter
    BY <1>t, MaxTimeAssumption DEF TimePasses, Tick, Times
  <2>5. UNCHANGED vars => UNCHANGED payoutVars /\ now' \in Times /\ UNCHANGED adapter
    BY <1>t DEF vars, deploymentVars
  <2>6. QED
    BY <1>1, <2>2, <2>3, <2>4, <2>5 DEF Next
<1>3. Selling \/ TimePasses \/ UNCHANGED vars => UNCHANGED rightVars
  BY DEF Selling, TimePasses, vars
<1>4. QED  BY <1>1, <1>2, <1>3 DEF Next

LEMMA AlwaysTyped == Spec => []Typed
<1>1. Init => Typed
  BY TypedInitially
<1>2. Typed /\ [Next]_vars => Typed'
  BY TypedAfterStep
<1>3. QED  BY <1>1, <1>2, PTL DEF Spec

\* Entitlements, payout fields and the handlers of both sides keep their types,
\* in either deployment, for any number of requests at the same time.
THEOREM PaymentsTypeCorrect == Spec => []TypeOK
<1>1. Typed => TypeOK
  BY DEF Typed
<1>2. QED  BY <1>1, AlwaysTyped, PTL

\* What a step does to the payout fields of one organization.
LEMMA PayoutsAfterStep ==
  ASSUME Typed, [Next]_vars, NEW o \in PayoutOrgs
  PROVE  /\ UNCHANGED adapter
         /\ \/ payouts'[o] = payouts[o]
            \/ IsOrganization(o) /\ payouts'[o].row = "deleted"
            \/ /\ IsOrganization(o) /\ payouts'[o].row = payouts[o].row
               /\ payouts[o].onboardedAt # 0 =>
                    payouts'[o].onboardedAt = payouts[o].onboardedAt
            \/ /\ adapter # "postgres" /\ ~IsOrganization(o)
               /\ payouts'[o].row = "ghost"
<1>1. UNCHANGED adapter
  BY DEF Next, Buying, Selling, TimePasses, Tick, vars, deploymentVars
<1>2. CASE Selling
  BY <1>1, <1>2, PayoutWrites DEF Selling, Typed, TypeOK
<1>3. CASE UNCHANGED payouts
  BY <1>1, <1>3
<1>4. QED  BY <1>2, <1>3 DEF Next, Buying, TimePasses, vars, payoutVars

\* COALESCE and if_not_exists keep the first payoutOnboardedAt of an organization
\* that is there, in whatever order the reports of its account arrive and are
\* written; a deletion, and the row DynamoDB makes after it, start anew.
THEOREM OnboardedOnce == Spec => OnboardedAtIsKept
<1>1. Typed /\ [Next]_vars =>
        [\A o \in PayoutOrgs :
           payouts[o].onboardedAt # 0 /\ payouts'[o].row = payouts[o].row
             => payouts'[o].onboardedAt = payouts[o].onboardedAt]_payouts
  <2> SUFFICES ASSUME Typed, [Next]_vars, NEW o \in PayoutOrgs,
                      payouts[o].onboardedAt # 0, payouts'[o].row = payouts[o].row
               PROVE  payouts'[o].onboardedAt = payouts[o].onboardedAt
    OBVIOUS
  <2>1. QED  BY PayoutsAfterStep DEF IsOrganization
<1>2. QED  BY <1>1, AlwaysTyped, PTL DEF Spec, OnboardedAtIsKept

-----------------------------------------------------------------------------
(* The watermark.  A DynamoDB deployment puts the row it has computed, so  *)
(* two grants at the same time may give a buyer two ids; what follows is   *)
(* about deployments whose statements cannot cross each other that way.    *)

Careful == adapter = "postgres" \/ adapter \notin Overlapping

OneAtATime ==
  adapter \notin Overlapping =>
    \A g, h \in Handlers :
      handler[g].pc # "idle" /\ handler[h].pc # "idle" => g = h

\* A handler's copy of the right is still what the row says.
CopySound(h) ==
  LET r == handler[h]
      row == entitlements[r.user][r.kit] IN
  /\ r.pc = "fetch" => Exists(row) /\ r.id = row.id
  /\ r.pc = "grant" /\ adapter # "postgres" /\ Exists(row) => r.id = row.id
  /\ r.pc = "update" => r.left \subseteq Carrying(r.sub)
  /\ r.pc = "update" => adapter # "postgres"

\* All that was sent carries the id of the row.
WatermarksSound == \A u \in Users, k \in Kits : issued[u][k] \subseteq {entitlements[u][k].id}

Stable ==
  Careful => OneAtATime /\ (\A h \in Handlers : CopySound(h)) /\ WatermarksSound

\* Whatever is written, the id of a right that is there stays.
LEMMA IdsStay ==
  ASSUME Typed, RowsStay, Careful, Stable, NEW u \in Users, NEW k \in Kits,
         Exists(entitlements[u][k])
  PROVE  /\ Exists(entitlements'[u][k])
         /\ entitlements'[u][k].id = entitlements[u][k].id
<1>1. CASE \/ entitlements'[u][k] = entitlements[u][k]
           \/ SameRight(entitlements[u][k], entitlements'[u][k])
  BY <1>1 DEF SameRight
<1>2. ASSUME NEW h \in Handlers, handler[h].pc = "grant",
             handler[h].user = u, handler[h].kit = k,
             entitlements'[u][k] = Granted(entitlements[u][k], handler[h].id,
                                           handler[h].sub, handler[h].expires)
      PROVE  /\ Exists(entitlements'[u][k])
             /\ entitlements'[u][k].id = entitlements[u][k].id
  <2>1. adapter # "postgres" => handler[h].id = entitlements[u][k].id
    BY <1>2 DEF Stable, CopySound
  <2>2. QED  BY <1>2, <2>1 DEF Granted, Exists
<1>3. QED  BY <1>1, <1>2 DEF RowsStay

\* A step of one handler, which was busy or may begin.
LEMMA StillOneAtATime ==
  ASSUME Typed, OneAtATime, UNCHANGED adapter, NEW h \in Handlers,
         \A g \in Handlers : g # h => handler'[g] = handler[g],
         handler[h].pc # "idle" \/ MayBegin(h) \/ handler'[h].pc = "idle"
  PROVE  OneAtATime'
BY DEF OneAtATime, MayBegin

\* While a handler is busy where requests do not overlap, no other one moves.
LEMMA OthersWait ==
  ASSUME OneAtATime, adapter \notin Overlapping, NEW h \in Handlers, HandlerStep(h),
         NEW g \in Handlers, g # h
  PROVE  handler[g].pc = "idle"
<1>1. handler[h].pc # "idle" => handler[g].pc = "idle"
  BY DEF OneAtATime
<1>2. MayBegin(h) => handler[g].pc = "idle"
  BY DEF MayBegin
<1>3. QED
  BY <1>1, <1>2
  DEF HandlerStep, BeginGrant, BeginFetch, UpdateRow, FinishGrant, BeginEvent,
      UpdateMatching, ScanRows, FinishFetch, EndRequest

LEMMA StepIsLocal ==
  ASSUME Typed, NEW h \in Handlers, HandlerStep(h)
  PROVE  /\ \A g \in Handlers : g # h => handler'[g] = handler[g]
         /\ handler[h].pc # "idle" \/ MayBegin(h)
<1>1. handler \in [Handlers -> HandlerState]
  BY DEF Typed, TypeOK, EntitlementTypeOK
<1>2. QED
  BY <1>1
  DEF HandlerStep, BeginGrant, BeginFetch, UpdateRow, FinishGrant, BeginEvent,
      UpdateMatching, ScanRows, FinishFetch, EndRequest, Done

\* What every right keeps cannot make a copy wrong.
LEMMA CopyOutlivesRows ==
  ASSUME Typed, RowsKept, UNCHANGED adapter, NEW h \in Handlers, CopySound(h),
         UNCHANGED handler[h]
  PROVE  CopySound(h)'
<1> DEFINE r == handler[h]
<1>1. /\ r \in HandlerState
      /\ r.pc \in {"fetch", "grant"} => r.user \in Users /\ r.kit \in Kits
  BY DEF Typed, TypeOK, EntitlementTypeOK, RequestsSound, RequestSound
<1>2. \A u \in Users, k \in Kits :
        /\ Exists(entitlements'[u][k]) <=> Exists(entitlements[u][k])
        /\ entitlements'[u][k].id = entitlements[u][k].id
        /\ entitlements'[u][k].sub = entitlements[u][k].sub
  BY DEF RowsKept, SameRight
<1>3. Carrying(r.sub)' = Carrying(r.sub)
  BY <1>2 DEF Carrying
<1>4. QED  BY <1>1, <1>2, <1>3 DEF CopySound

\* The copy a handler has after its own step.
LEMMA CopyAfterStep ==
  ASSUME Typed, Typed', Careful, OneAtATime, UNCHANGED adapter, NEW h \in Handlers,
         HandlerStep(h), CopySound(h),
         RowsKept \/ \E g \in Handlers : FinishGrant(g)
  PROVE  CopySound(h)'
<1>t. handler \in [Handlers -> HandlerState]
  BY DEF Typed, TypeOK, EntitlementTypeOK
<1>1. CASE handler'[h].pc \notin {"fetch", "grant", "update"}
  BY <1>1 DEF CopySound
<1>2. ASSUME NEW u \in Users, NEW k \in Kits,
             \/ \E s \in Subscriptions \cup {None}, e \in Expiries :
                  BeginGrant(h, u, k, s, e)
             \/ BeginFetch(h, u, k)
      PROVE  CopySound(h)'
  <2>1. /\ UNCHANGED entitlements
        /\ handler'[h].user = u /\ handler'[h].kit = k
        /\ handler'[h].pc \in {"grant", "fetch"}
        /\ Exists(entitlements[u][k]) => handler'[h].id = entitlements[u][k].id
        /\ handler'[h].pc = "fetch" => IsActive(entitlements[u][k])
    BY <1>2, <1>t DEF BeginGrant, BeginFetch, NoHandler
  <2>2. QED  BY <2>1 DEF CopySound, IsActive, Exists
<1>3. CASE ScanRows(h)
  BY <1>3, <1>t DEF ScanRows, CopySound, HandlerState, Carrying
<1>4. ASSUME NEW uk \in Users \X Kits, UpdateRow(h, uk)
      PROVE  CopySound(h)'
  <2>1. \A g \in Handlers : ~FinishGrant(g)
    <3>1. adapter # "postgres" /\ adapter \notin Overlapping
      BY <1>4 DEF UpdateRow, CopySound, Careful
    <3>2. QED  BY <1>4, <3>1, OthersWait DEF FinishGrant, UpdateRow
  <2>2. \A u \in Users, k \in Kits : entitlements'[u][k].sub = entitlements[u][k].sub
    BY <2>1 DEF RowsKept, SameRight
  <2>3. Carrying(handler[h].sub)' = Carrying(handler[h].sub)
    BY <1>4, <1>t, <2>2 DEF Carrying, UpdateRow, HandlerState
  <2>4. /\ handler'[h].pc = "update" /\ handler'[h].sub = handler[h].sub
        /\ handler'[h].left \subseteq handler[h].left
        /\ handler[h].pc = "update"
    BY <1>4, <1>t DEF UpdateRow, HandlerState
  <2>5. QED  BY <2>3, <2>4 DEF CopySound
<1>5. CASE Done(h)
  BY <1>1, <1>5, <1>t DEF Done, NoHandler
<1>6. CASE FinishGrant(h)
  BY <1>1, <1>6, <1>t DEF FinishGrant, HandlerState
<1>7. CASE \E s \in Subscriptions, st \in EntitlementStatus, e \in Expiries :
             BeginEvent(h, s, st, e)
  BY <1>1, <1>7, <1>t DEF BeginEvent, NoHandler
<1>8. QED
  BY <1>2, <1>3, <1>4, <1>5, <1>6, <1>7
  DEF HandlerStep, UpdateMatching, FinishFetch, EndRequest

LEMMA StableAfterBuying ==
  ASSUME Typed, Typed', Stable, EntitlementStep, UNCHANGED adapter
  PROVE  Stable'
<1> SUFFICES ASSUME Careful
             PROVE  OneAtATime' /\ (\A h \in Handlers : CopySound(h)') /\ WatermarksSound'
  BY DEF Stable, Careful
<1>1. OneAtATime /\ (\A h \in Handlers : CopySound(h)) /\ WatermarksSound
  BY DEF Stable
<1>2. RowsStay /\ (RowsKept \/ \E h \in Handlers : FinishGrant(h))
  BY StepKeepsRows
<1>3. OneAtATime'
  <2>1. CASE UNCHANGED handler
    BY <1>1, <2>1 DEF OneAtATime
  <2>2. ASSUME NEW h \in Handlers, HandlerStep(h) PROVE OneAtATime'
    BY <1>1, <2>2, StepIsLocal, StillOneAtATime
  <2>3. QED  BY <2>1, <2>2 DEF EntitlementStep, Revoke, Relist
<1>4. ASSUME NEW h \in Handlers PROVE CopySound(h)'
  <2>1. CASE HandlerStep(h)
    BY <1>1, <1>2, <2>1, CopyAfterStep
  <2>2. ASSUME NEW g \in Handlers, g # h, HandlerStep(g) PROVE CopySound(h)'
    <3>1. handler'[h] = handler[h]
      BY <2>2, StepIsLocal
    <3>2. CASE adapter = "postgres"
      <4>1. handler[h].pc = "fetch" => handler[h].user \in Users /\ handler[h].kit \in Kits
        BY DEF Typed, RequestsSound, RequestSound
      <4>2. QED  BY <1>1, <1>2, <3>1, <3>2, <4>1, IdsStay DEF CopySound
    <3>3. CASE adapter \notin Overlapping
      <4>1. handler'[h].pc = "idle"
        BY <1>1, <2>2, <3>1, <3>3, OthersWait
      <4>2. QED  BY <4>1 DEF CopySound
    <3>4. QED  BY <3>2, <3>3 DEF Careful
  <2>3. CASE UNCHANGED handler /\ RowsKept
    BY <1>1, <2>3, CopyOutlivesRows
  <2>4. ASSUME NEW u \in Users, NEW k \in Kits, Revoke(u, k)
        PROVE  UNCHANGED handler /\ RowsKept
    <3>1. UNCHANGED handler
      BY <2>4 DEF Revoke
    <3>2. entitlements[u][k] \in Row /\ entitlements \in [Users -> [Kits -> Row]]
      BY DEF Typed, TypeOK, EntitlementTypeOK
    <3>3. SameRight(entitlements[u][k], Revoked(entitlements[u][k]))
      BY <2>4, <3>2, WrittenRows DEF Revoke
    <3>4. QED  BY <2>4, <3>1, <3>2, <3>3, PutRow, WrittenRows DEF Revoke, RowsKept
  <2>5. ASSUME NEW k \in Kits, Relist(k) PROVE UNCHANGED handler /\ RowsKept
    BY <2>5 DEF Relist, RowsKept
  <2>6. QED  BY <2>1, <2>2, <2>3, <2>4, <2>5 DEF EntitlementStep
<1>5. WatermarksSound'
  <2> SUFFICES ASSUME NEW u \in Users, NEW k \in Kits, NEW id \in issued'[u][k]
               PROVE  id = entitlements'[u][k].id
    BY DEF WatermarksSound
  <2>t. /\ issued \in [Users -> [Kits -> SUBSET Ids]]
        /\ RowSound(entitlements[u][k])
    BY DEF Typed, TypeOK, EntitlementTypeOK, RowsSound
  <2>1. CASE id \in issued[u][k]
    <3>1. id = entitlements[u][k].id /\ id \in Ids
      BY <1>1, <2>1, <2>t DEF WatermarksSound
    <3>2. Exists(entitlements[u][k])
      BY <2>t, <3>1, NoneAssumption DEF RowSound, NoRow
    <3>3. QED  BY <3>1, <3>2, <1>2, IdsStay
  <2>2. ASSUME NEW h \in Handlers, FinishFetch(h), id \notin issued[u][k]
        PROVE  id = entitlements'[u][k].id
    <3>1. handler[h].user \in Users /\ handler[h].kit \in Kits
      BY <2>2 DEF Typed, RequestsSound, RequestSound, FinishFetch
    <3>2. handler[h].user = u /\ handler[h].kit = k /\ id = handler[h].id
      BY <2>2, <2>t, <3>1 DEF FinishFetch
    <3>3. QED  BY <1>1, <2>2, <3>2 DEF FinishFetch, CopySound
  <2>3. QED
    BY <2>1, <2>2
    DEF EntitlementStep, HandlerStep, BeginGrant, FinishGrant, Revoke, BeginEvent,
        UpdateMatching, ScanRows, UpdateRow, BeginFetch, EndRequest, Relist
<1>6. QED  BY <1>3, <1>4, <1>5

LEMMA StableAfterStep == Typed /\ Stable /\ [Next]_vars => Stable'
<1> SUFFICES ASSUME Typed, Stable, [Next]_vars PROVE Stable'
  OBVIOUS
<1>1. Typed'
  BY TypedAfterStep
<1>2. UNCHANGED adapter
  BY DEF Next, Buying, Selling, TimePasses, Tick, vars, deploymentVars
<1>3. CASE Buying
  BY <1>1, <1>2, <1>3, StableAfterBuying DEF Buying
<1>4. CASE UNCHANGED rightVars
  <2>1. \A sub : Carrying(sub)' = Carrying(sub)
    BY <1>4 DEF rightVars, Carrying
  <2>2. QED
    BY <1>2, <1>4, <2>1
    DEF rightVars, Stable, Careful, OneAtATime, CopySound, WatermarksSound
<1>5. QED  BY <1>3, <1>4 DEF Next, Selling, TimePasses, vars

LEMMA AlwaysStable == Spec => []Stable
<1>1. Init => Stable
  BY DEF Init, EntitlementsInit, Stable, OneAtATime, CopySound, WatermarksSound, NoHandler
<1>2. Typed /\ Stable /\ [Next]_vars => Stable'
  BY StableAfterStep
<1>3. QED  BY <1>1, <1>2, AlwaysTyped, PTL DEF Spec

LEMMA CarefulStays ==
  ASSUME "dynamodb" \notin Overlapping
  PROVE  Spec => [](Typed /\ Careful /\ Stable)
<1>1. Typed => Careful
  BY AdaptersAssumption DEF Typed, TypeOK, Careful
<1>2. QED  BY <1>1, AlwaysTyped, AlwaysStable, PTL

\* A buyer whose right to a kit is granted again, also by two requests at the
\* same time, gets every package with the watermark of the first: the upsert of
\* grantEntitlement keeps the id of the row.  A DynamoDB deployment must not serve
\* its requests at the same time for this: it puts the row with the id it drew.
THEOREM OneWatermark ==
  ASSUME "dynamodb" \notin Overlapping
  PROVE  Spec => []WatermarkIsStable
<1>1. Typed /\ Careful /\ Stable => WatermarkIsStable
  <2> SUFFICES ASSUME Typed, Careful, Stable, NEW u \in Users, NEW k \in Kits
               PROVE  Cardinality(issued[u][k]) <= 1
    BY DEF WatermarkIsStable
  <2>1. issued[u][k] \subseteq {entitlements[u][k].id}
    BY DEF Stable, WatermarksSound
  <2>2. /\ IsFiniteSet({entitlements[u][k].id})
        /\ Cardinality({entitlements[u][k].id}) = 1
    BY FS_Singleton
  <2>3. QED  BY <2>1, <2>2, FS_Subset
<1>2. QED  BY <1>1, CarefulStays, PTL

=============================================================================
