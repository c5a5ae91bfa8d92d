----------------------------- MODULE Entitlements -----------------------------
(***************************************************************************)
(* The rights of buyers to paid kits: grants, revocations, subscription    *)
(* events forwarded from Stripe, and the licensed package they give access *)
(* to, with the EntitlementRepository of both adapters.  Expiry 0 means    *)
(* none.                                                                   *)
(*                                                                         *)
(* A row keeps what decides access and the watermark: the entitlementId    *)
(* (grantedAt always goes with it), status, subscription and expiry.       *)
(* Licence texts and the source of a grant are left out.                   *)
(***************************************************************************)
EXTENDS Deployment, FiniteSets

CONSTANTS
  Users,
  Kits,
  Ids,            \* the ids ent_<uuid> the adapters can draw
  Subscriptions,  \* Stripe subscription ids
  Handlers,       \* requests served at the same time
  None

ASSUME NoneAssumption == None \notin Ids \cup Subscriptions

Expiries == {0} \cup Times
EntitlementStatus == {"active", "revoked", "expired"}

Row == [status : EntitlementStatus \cup {"absent"}, id : Ids \cup {None},
        sub : Subscriptions \cup {None}, expires : Expiries]

NoRow == [status |-> "absent", id |-> None, sub |-> None, expires |-> 0]

VARIABLES
  entitlements,  \* the entitlements table
  listed,        \* the kits that are public
  handler,       \* the handlers' local state
  issued         \* the ids in the watermarks handed out so far

rightVars == <<entitlements, listed, handler, issued>>

\* pc is the statement the handler executes next; at "granted" it
\* has answered.
HandlerState ==
  [pc : {"idle", "grant", "granted", "event", "update", "fetch"},
   user : Users \cup {None}, kit : Kits \cup {None},
   id : Ids \cup {None}, sub : Subscriptions \cup {None},
   status : EntitlementStatus, expires : Expiries,
   left : SUBSET (Users \X Kits)]   \* rows found by a Scan, not yet updated

NoHandler ==
  [pc |-> "idle", user |-> None, kit |-> None, id |-> None, sub |-> None,
   status |-> "active", expires |-> 0, left |-> {}]

EntitlementsInit ==
  /\ entitlements = [u \in Users |-> [k \in Kits |-> NoRow]]
  /\ listed = Kits
  /\ handler = [h \in Handlers |-> NoHandler]
  /\ issued = [u \in Users |-> [k \in Kits |-> {}]]

Exists(row) == row.status # "absent"
Put(u, k, row) == entitlements' = [entitlements EXCEPT ![u][k] = row]

\* A request is taken up; in a deployment whose requests do not overlap, when
\* no other is under way.
MayBegin(h) ==
  /\ handler[h].pc = "idle"
  /\ adapter \in Overlapping \/ \A g \in Handlers : handler[g].pc = "idle"

Done(h) == handler' = [handler EXCEPT ![h] = NoHandler]

\* A random id is one nobody has.
Fresh(id) ==
  /\ \A h \in Handlers : handler[h].id # id
  /\ \A u \in Users, k \in Kits : entitlements[u][k].id # id /\ id \notin issued[u][k]

-----------------------------------------------------------------------------
(* grantEntitlement reads the row, keeps its id or draws one, and writes.  *)

\* Mutant: the row is not read first.
BeginGrantBlind(h, u, k, sub, expires) ==
  /\ MayBegin(h)
  /\ \E id \in Ids :
       /\ Fresh(id)
       /\ handler' = [handler EXCEPT ![h] =
                        [NoHandler EXCEPT !.pc = "grant", !.user = u, !.kit = k,
                           !.id = id, !.sub = sub, !.expires = expires]]
  /\ UNCHANGED <<entitlements, listed, issued>>

BeginGrant(h, u, k, sub, expires) ==
  /\ MayBegin(h)
  /\ LET prior == entitlements[u][k] IN
     \E id \in Ids :
       /\ IF Exists(prior) THEN id = prior.id ELSE Fresh(id)
       /\ handler' = [handler EXCEPT ![h] =
                        [NoHandler EXCEPT !.pc = "grant", !.user = u, !.kit = k,
                           !.id = id, !.sub = sub, !.expires = expires]]
  /\ UNCHANGED <<entitlements, listed, issued>>

\* Mutant: entitlement_id among the columns the upsert updates.
GrantedRenumbered(row, id, sub, expires) ==
  [status |-> "active", id |-> id, sub |-> sub, expires |-> expires]

\* The upsert of Postgres keeps the id of a row that is there by then; the
\* PutItem of DynamoDB replaces the row.
Granted(row, id, sub, expires) ==
  [status |-> "active", id |-> IF adapter = "postgres" /\ Exists(row) THEN row.id ELSE id,
   sub |-> sub, expires |-> expires]

FinishGrant(h) ==
  /\ handler[h].pc = "grant"
  /\ LET r == handler[h] IN
     Put(r.user, r.kit,
         Granted(entitlements[r.user][r.kit], r.id, r.sub, r.expires))
  /\ handler' = [handler EXCEPT ![h].pc = "granted"]
  /\ UNCHANGED <<listed, issued>>

\* Mutant: the word used for memberships.
RevokedAsRemoved(row) == [row EXCEPT !.status = "removed"]

Revoked(row) == [row EXCEPT !.status = "revoked"]

\* revokeEntitlement, of a row that exists.
Revoke(u, k) ==
  /\ Exists(entitlements[u][k])
  /\ Put(u, k, Revoked(entitlements[u][k]))
  /\ UNCHANGED <<listed, handler, issued>>

-----------------------------------------------------------------------------
(* setEntitlementStatusBySubscription, called for the webhook events of a  *)
(* subscription, in whatever order they come.                              *)

BeginEvent(h, sub, status, expires) ==
  /\ MayBegin(h)
  /\ handler' = [handler EXCEPT ![h] =
                   [NoHandler EXCEPT !.pc = "event", !.sub = sub,
                      !.status = status, !.expires = expires]]
  /\ UNCHANGED <<entitlements, listed, issued>>

Carrying(sub) == {uk \in Users \X Kits : entitlements[uk[1]][uk[2]].sub = sub}

\* An event without expiry leaves the old one.
WithStatus(row, status, expires) ==
  [row EXCEPT !.status = status, !.expires = IF expires = 0 THEN @ ELSE expires]

Update(h, rows) ==
  entitlements' =
    [u \in Users |-> [k \in Kits |->
       IF <<u, k>> \in rows
       THEN WithStatus(entitlements[u][k], handler[h].status, handler[h].expires)
       ELSE entitlements[u][k]]]

\* Postgres: one UPDATE.
UpdateMatching(h) ==
  /\ adapter = "postgres"
  /\ handler[h].pc = "event"
  /\ Update(h, Carrying(handler[h].sub))
  /\ Done(h)
  /\ UNCHANGED <<listed, issued>>

\* DynamoDB: a Scan, then an UpdateItem without condition on each row found.
ScanRows(h) ==
  /\ adapter = "dynamodb"
  /\ handler[h].pc = "event"
  /\ handler' = [handler EXCEPT ![h].pc = "update",
                                ![h].left = Carrying(handler[h].sub)]
  /\ UNCHANGED <<entitlements, listed, issued>>

UpdateRow(h, uk) ==
  /\ handler[h].pc = "update"
  /\ uk \in handler[h].left
  /\ Update(h, {uk})
  /\ handler' = [handler EXCEPT ![h].left = @ \ {uk}]
  /\ UNCHANGED <<listed, issued>>

-----------------------------------------------------------------------------
(* licensedPackageHandler.                                                 *)

\* isEntitlementActive.
IsActive(row) == row.status = "active" /\ (row.expires = 0 \/ row.expires > now)

BeginFetch(h, u, k) ==
  /\ MayBegin(h)
  /\ IsActive(entitlements[u][k])
  /\ handler' = [handler EXCEPT ![h] =
                   [NoHandler EXCEPT !.pc = "fetch", !.user = u, !.kit = k,
                                     !.id = entitlements[u][k].id]]
  /\ UNCHANGED <<entitlements, listed, issued>>

\* getKit, then the package with the watermark of the entitlement read before.
\* Version and package of a public kit are in place (see Publication).
FinishFetch(h) ==
  /\ handler[h].pc = "fetch"
  /\ LET u == handler[h].user
         k == handler[h].kit IN
     issued' = IF k \in listed
               THEN [issued EXCEPT ![u][k] = @ \cup {handler[h].id}] ELSE issued
  /\ Done(h)
  /\ UNCHANGED <<entitlements, listed>>

-----------------------------------------------------------------------------
\* The answer is sent, an error ends the request, or the process dies.
EndRequest(h) ==
  /\ handler[h].pc # "idle"
  /\ Done(h)
  /\ UNCHANGED <<entitlements, listed, issued>>

\* The kit is hidden or shown again; Publication has the details.
Relist(k) ==
  /\ listed' = IF k \in listed THEN listed \ {k} ELSE listed \cup {k}
  /\ UNCHANGED <<entitlements, handler, issued>>

HandlerStep(h) ==
  \/ \E u \in Users, k \in Kits :
       \/ \E s \in Subscriptions \cup {None}, e \in Expiries : BeginGrant(h, u, k, s, e)
       \/ BeginFetch(h, u, k)
       \/ UpdateRow(h, <<u, k>>)
  \/ FinishGrant(h)
  \/ \E s \in Subscriptions, st \in EntitlementStatus, e \in Expiries :
       BeginEvent(h, s, st, e)
  \/ UpdateMatching(h) \/ ScanRows(h)
  \/ FinishFetch(h) \/ EndRequest(h)

EntitlementStep ==
  \/ \E h \in Handlers : HandlerStep(h)
  \/ \E u \in Users, k \in Kits : Revoke(u, k)
  \/ \E k \in Kits : Relist(k)

-----------------------------------------------------------------------------
EntitlementTypeOK ==
  /\ entitlements \in [Users -> [Kits -> Row]]
  /\ listed \subseteq Kits
  /\ handler \in [Handlers -> HandlerState]
  /\ issued \in [Users -> [Kits -> SUBSET Ids]]

\* "Re-granting keeps the original entitlementId + grantedAt so the watermark
\* canary stays stable for a buyer": all packages a buyer ever gets of a kit
\* carry the same watermark, whatever grants ran at the same time.
WatermarkIsStable ==
  \A u \in Users, k \in Kits : Cardinality(issued[u][k]) <= 1

=============================================================================
