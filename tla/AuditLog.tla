------------------------------ MODULE AuditLog ------------------------------
(***************************************************************************)
(* The append-only audit log: handlers that stamp an event and record it   *)
(* best-effort after their mutation succeeded (withAudit, emitAudit), and  *)
(* the pages of GET /admin/audit-logs, which an admin walks while the log  *)
(* grows.  Postgres pages by offset, DynamoDB by the key of the last row   *)
(* it evaluated, and its Limit counts rows before the filter.              *)
(*                                                                         *)
(* Events are numbered in the order of their random auditId, which breaks  *)
(* ties between equal timestamps in both adapters.  A read sees every      *)
(* recorded row (DynamoDB's eventual consistency is left out).             *)
(***************************************************************************)
EXTENDS Paging

CONSTANTS
  MaxEvents,     \* bound on the events of a behaviour
  Kinds,         \* what an event may say: actor, target and action
  AuditQueries,  \* the filters of a walk
  Unset            \* a filter that is not set

ASSUME MaxEventsAssumption == MaxEvents \in Nat
ASSUME UnsetAssumption == Unset \notin Nat

Events == 1 .. MaxEvents
Fields == {"actor", "type", "target", "action"}

EventState == {"absent", "stamped", "recorded", "dropped"}
EventRow ==
  [state : EventState, time : 0 .. MaxTime, kind : Kinds \cup {Unset}]

VARIABLE events  \* the audit_logs table and the events on their way to it

Recorded == {e \in Events : events[e].state = "recorded"}

AuditInit ==
  events = [e \in Events |-> [state |-> "absent", time |-> 0, kind |-> Unset]]

-----------------------------------------------------------------------------
\* A mutation answered 2xx: its handler stamps the event ...
Stamp(e, kind) ==
  /\ events[e].state = "absent"
  /\ events' = [events EXCEPT ![e] =
                  [state |-> "stamped", time |-> now, kind |-> kind]]

\* ... and records it; an error is swallowed.
Record(e) ==
  /\ events[e].state = "stamped"
  /\ \E outcome \in {"recorded", "dropped"} :
       events' = [events EXCEPT ![e].state = outcome]

AuditStep ==
  \E e \in Events : Record(e) \/ \E kind \in Kinds : Stamp(e, kind)

-----------------------------------------------------------------------------
Newer(d, e) ==
  events[d].time > events[e].time \/ (events[d].time = events[e].time /\ d > e)

NewestFirst(S) == Ordered(S, Newer)

Has(e, q, field) == q[field] = Unset \/ events[e].kind[field] = q[field]

InRange(e, q) == /\ q.since = Unset \/ q.since <= events[e].time
                 /\ q.until = Unset \/ events[e].time <= q.until

\* The WHERE clause of Postgres.
Matches(e, q) == InRange(e, q) /\ \A field \in Fields : Has(e, q, field)

\* The index DynamoDB queries, the rows of its key condition, and the filter
\* applied to the rows read.
Index(q) == IF q.actor # Unset THEN "actor"
            ELSE IF q.type # Unset /\ q.target # Unset THEN "target" ELSE "log"

InIndex(e, q) ==
  /\ InRange(e, q)
  /\ Index(q) = "actor" => Has(e, q, "actor")
  /\ Index(q) = "target" => Has(e, q, "type") /\ Has(e, q, "target")

PassesFilter(e, q) ==
  /\ Has(e, q, "action")
  /\ Index(q) = "actor" /\ q.type # Unset /\ q.target # Unset
       => Has(e, q, "type") /\ Has(e, q, "target")
  /\ Index(q) = "log" => Has(e, q, "type")

\* Mutant: the token counts the extra row of LIMIT limit + 1.
OffsetPageSkipping(q, token) ==
  LET rows == NewestFirst({e \in Recorded : Matches(e, q)})
      rest == After(rows, token) IN
  [items |-> Upto(rest, Limit),
   next |-> IF Len(rest) > Limit THEN token + Limit + 1 ELSE 0]

\* Mutant: a token with every page.
OffsetPageEndless(q, token) ==
  LET rows == NewestFirst({e \in Recorded : Matches(e, q)})
      rest == After(rows, token) IN
  [items |-> Upto(rest, Limit), next |-> token + Limit]

\* Postgres: LIMIT limit + 1 OFFSET token; the extra row says there is more.
OffsetPage(q, token) ==
  LET rows == NewestFirst({e \in Recorded : Matches(e, q)})
      rest == After(rows, token) IN
  [items |-> Upto(rest, Limit),
   next |-> IF Len(rest) > Limit THEN token + Limit ELSE 0]

\* Mutant: no token with an empty page.
KeyPageStopping(q, token) ==
  LET rows == NewestFirst({e \in Recorded :
                             InIndex(e, q) /\ (token = 0 \/ Newer(token, e))})
      items == NewestFirst({e \in ToSet(Upto(rows, Limit)) : PassesFilter(e, q)}) IN
  [items |-> items,
   next |-> IF Len(rows) >= Limit /\ items # <<>> THEN rows[Limit] ELSE 0]

\* Mutant: the row of the token is read again.
KeyPageInclusive(q, token) ==
  LET rows == NewestFirst({e \in Recorded :
                             InIndex(e, q) /\ (token = 0 \/ ~Newer(e, token))}) IN
  [items |-> NewestFirst({e \in ToSet(Upto(rows, Limit)) : PassesFilter(e, q)}),
   next |-> IF Len(rows) >= Limit THEN rows[Limit] ELSE 0]

\* DynamoDB: Limit rows after ExclusiveStartKey are read, then filtered;
\* LastEvaluatedKey is there whenever the limit ended the reading.
KeyPage(q, token) ==
  LET rows == NewestFirst({e \in Recorded :
                             InIndex(e, q) /\ (token = 0 \/ Newer(token, e))}) IN
  [items |-> NewestFirst({e \in ToSet(Upto(rows, Limit)) : PassesFilter(e, q)}),
   next |-> IF Len(rows) >= Limit THEN rows[Limit] ELSE 0]

\* listAuditLogsHandler.
AuditPage(q, token) ==
  IF adapter = "postgres" THEN OffsetPage(q, token) ELSE KeyPage(q, token)

AuditListed(q) == {e \in Recorded : Matches(e, q)}

-----------------------------------------------------------------------------
AuditTypeOK == events \in [Events -> EventRow]

=============================================================================
