---------------------------- MODULE Organizations ----------------------------
(***************************************************************************)
(* Organizations, their memberships and invites, and the kits they own:    *)
(* the handlers of Market Phase 2 with the OrgRepository of both adapters. *)
(* A handler reads (getOrg, getMembership, listKitsForOrg) and then writes *)
(* one or more rows, each statement by itself; any number of handlers      *)
(* interleave between two statements.  Only createOrg of Postgres uses a   *)
(* transaction.  Postgres says which adapter.                              *)
(*                                                                         *)
(* All orgs ask for the same base slug; slug n is the one dedupeSlug       *)
(* gives the suffix -n, slug 1 the base itself.  Texts, timestamps and the *)
(* role of an invite (that of its membership) are left out; the Stripe     *)
(* fields are in Payouts.                                                  *)
(***************************************************************************)
EXTENDS Faults, FiniteSets, FiniteSetsExt

CONSTANTS
  OrgIds,       \* the ids org_<uuid> the adapters can draw: bounds the orgs created
  Users,
  Kits,
  Handlers,     \* requests served at the same time
  Roles,        \* the roles a member can be invited to
  Postgres,     \* TRUE: Postgres, FALSE: DynamoDB
  InitialOrgs,  \* the organizations table at the start
  KitOwner,     \* the owning org of each kit at the start
  None

OrgTypes == {"team", "personal"}

\* One more than there are organizations at any time: dedupeSlug always finds one.
Slugs == 1 .. Cardinality(OrgIds) + 1

\* A "deleted" org has no row; its id is not drawn again.  What its row held is
\* kept for the handlers that read it before.
OrgRow == [status : {"absent", "live", "deleted"}, type : OrgTypes,
           owner : Users \cup {None}, slug : Slugs \cup {0}]

NoOrgRow == [status |-> "absent", type |-> "team", owner |-> None, slug |-> 0]

MemberRow == [status : {"absent", "invited", "active", "removed"},
              role : Roles \cup {"owner", "none"}]

NoMember == [status |-> "absent", role |-> "none"]
OwnerMember == [status |-> "active", role |-> "owner"]

\* Mutant: the status of an invite instead of that of a membership.
InvitedAsPending(role) == [status |-> "pending", role |-> role]

Invited(role) == [status |-> "invited", role |-> role]

ASSUME OrgIdsAssumption == IsFiniteSet(OrgIds)
ASSUME InitialOrgsAssumption ==
         /\ InitialOrgs \in [OrgIds -> OrgRow]
         /\ \A o \in OrgIds :
              InitialOrgs[o].status # "absent" => InitialOrgs[o].owner \in Users
         /\ \A o, p \in OrgIds :
              /\ InitialOrgs[o].status = "live" /\ InitialOrgs[p].status = "live"
              /\ InitialOrgs[o].slug = InitialOrgs[p].slug
              => o = p
ASSUME KitOwnerAssumption == KitOwner \in [Kits -> OrgIds]
ASSUME NoneAssumption == None \notin OrgIds \cup Users \cup Kits

VARIABLES
  orgs,      \* the organizations table
  members,   \* the org_memberships table
  invites,   \* the org_invites table
  kits,      \* of the kits table: the owning org, which removeKit keeps
  late,      \* history: the rows written while their org was being deleted
  handler    \* the handlers' local state

vars == <<orgs, members, invites, kits, late, handler, faults>>

\* The statement a handler executes next; "refused" is the 409 of an
\* organization that still owns kits.
Statements ==
  {"idle", "slug", "insertOrg", "insertOwner", "actor", "putMember",
   "putInvite", "markRemoved", "dropInvite", "listKits", "members",
   "membersLeft", "invites", "invitesLeft", "org", "refused",
   "source", "target", "targetMember", "transfer"}

HandlerState ==
  [pc : Statements,
   op : {"none", "create", "add", "remove", "accept", "delete", "transfer"},
   org : OrgIds \cup {None},      \* the org of the request
   user : Users \cup {None},      \* the member, the owner-to-be, the actor
   role : Roles \cup {"none"}, type : OrgTypes, slug : Slugs \cup {0},
   kit : Kits \cup {None},
   target : OrgIds \cup {None},   \* where a kit is transferred to
   left : SUBSET Users]           \* rows found by a Query, not yet deleted

NoHandler ==
  [pc |-> "idle", op |-> "none", org |-> None, user |-> None, role |-> "none",
   type |-> "team", slug |-> 0, kit |-> None, target |-> None, left |-> {}]

Init ==
  /\ orgs = InitialOrgs
  /\ members = [o \in OrgIds |-> [u \in Users |->
                  IF InitialOrgs[o].status = "live" /\ u = InitialOrgs[o].owner
                  THEN OwnerMember ELSE NoMember]]
  /\ invites = {}
  /\ late = {}
  /\ kits = KitOwner
  /\ handler = [h \in Handlers |-> NoHandler]
  /\ faults = 0

Live(o) == orgs[o].status = "live"
IsActive(o, u) == members[o][u].status = "active"
Manages(o, u) == IsActive(o, u) /\ members[o][u].role \in {"owner", "admin"}

At(h, pc) == handler[h].pc = pc
Goto(h, pc) == handler' = [handler EXCEPT ![h].pc = pc]
Done(h) == handler' = [handler EXCEPT ![h] = NoHandler]

\* deleteOrg has begun to delete, or has finished.
BeingDeleted(o) ==
  \/ orgs[o].status = "deleted"
  \/ \E h \in Handlers :
       /\ handler[h].org = o
       /\ handler[h].pc \in {"members", "membersLeft", "invites", "invitesLeft", "org"}

\* A row of <<org, user>> is written to the memberships or the invites.
NoteLate(o, u) ==
  late' = IF BeingDeleted(o) THEN late \cup {<<o, u>>} ELSE late

-----------------------------------------------------------------------------
(* createOrg and ensurePersonalOrg.                                        *)

\* The bound on the orgs created: an id is left for each create under way.
IdLeft == Cardinality({h \in Handlers : handler[h].op = "create"}) <
            Cardinality({o \in OrgIds : orgs[o].status = "absent"})

BeginCreate(h, u) ==
  /\ At(h, "idle")
  /\ IdLeft
  /\ handler' = [handler EXCEPT ![h] =
                   [NoHandler EXCEPT !.pc = "slug", !.op = "create",
                                     !.user = u, !.type = "team"]]
  /\ UNCHANGED <<orgs, members, invites, kits, late, faults>>

\* ensurePersonalOrg goes on only if it finds no personal org of the user.  With
\* DynamoDB it looks into an index that may lag behind (ownerUserId-index).
BeginPersonal(h, u) ==
  /\ At(h, "idle")
  /\ IdLeft
  /\ Postgres => ~ \E o \in OrgIds :
       Live(o) /\ orgs[o].type = "personal" /\ orgs[o].owner = u
  /\ handler' = [handler EXCEPT ![h] =
                   [NoHandler EXCEPT !.pc = "slug", !.op = "create",
                                     !.user = u, !.type = "personal"]]
  /\ UNCHANGED <<orgs, members, invites, kits, late, faults>>

Taken == {orgs[o].slug : o \in {p \in OrgIds : Live(p)}}

\* uniqueSlug: dedupeSlug over the slugs read.
ReadSlugs(h) ==
  /\ At(h, "slug")
  /\ handler' = [handler EXCEPT ![h].pc = "insertOrg",
                                ![h].slug = Min(Slugs \ Taken)]
  /\ UNCHANGED <<orgs, members, invites, kits, late, faults>>

NewOrg(h) == [status |-> "live", type |-> handler[h].type,
              owner |-> handler[h].user, slug |-> handler[h].slug]

PutOrg(h, o) == orgs' = [orgs EXCEPT ![o] = NewOrg(h)]
PutOwner(o, u) == members' = [members EXCEPT ![o][u] = OwnerMember]

\* Mutant: the two INSERTs without BEGIN and COMMIT.
InsertOrgUnwrapped(h) ==
  /\ At(h, "insertOrg")
  /\ \E o \in OrgIds :
       /\ orgs[o].status = "absent"
       /\ handler[h].slug \notin Taken
       /\ PutOrg(h, o)
       /\ handler' = [handler EXCEPT ![h].pc = "insertOwner", ![h].org = o]
  /\ UNCHANGED <<members, invites, kits, late, faults>>

\* Mutant: the index on organizations.slug is not UNIQUE.
InsertOrgAnySlug(h) ==
  /\ At(h, "insertOrg")
  /\ \E o \in OrgIds :
       /\ orgs[o].status = "absent"
       /\ PutOrg(h, o) /\ PutOwner(o, handler[h].user) /\ Done(h)
  /\ UNCHANGED <<invites, kits, late, faults>>

\* Postgres: both INSERTs at COMMIT, or a 500 when the unique index on
\* organizations.slug refuses the first.  DynamoDB: a PutItem whose condition is
\* on the fresh id only; the membership follows.
InsertOrg(h) ==
  /\ At(h, "insertOrg")
  /\ \E o \in OrgIds :
       /\ orgs[o].status = "absent"
       /\ \/ /\ Postgres /\ handler[h].slug \notin Taken
             /\ PutOrg(h, o) /\ PutOwner(o, handler[h].user) /\ Done(h)
          \/ /\ Postgres /\ handler[h].slug \in Taken
             /\ Done(h) /\ UNCHANGED <<orgs, members>>
          \/ /\ ~Postgres /\ PutOrg(h, o)
             /\ handler' = [handler EXCEPT ![h].pc = "insertOwner", ![h].org = o]
             /\ UNCHANGED members
  /\ UNCHANGED <<invites, kits, late, faults>>

InsertOwner(h) ==
  /\ At(h, "insertOwner")
  /\ PutOwner(handler[h].org, handler[h].user)
  /\ NoteLate(handler[h].org, handler[h].user)
  /\ Done(h)
  /\ UNCHANGED <<orgs, invites, kits, faults>>

-----------------------------------------------------------------------------
(* addMember, removeMember, acceptInvite and deleteOrg.                    *)

\* getOrg of the handlers that manage an org.
BeginManage(h, op, o, u, role) ==
  /\ At(h, "idle")
  /\ Live(o)
  /\ handler' = [handler EXCEPT ![h] =
                   [NoHandler EXCEPT !.pc = "actor", !.op = op, !.org = o,
                                     !.user = u, !.role = role]]
  /\ UNCHANGED <<orgs, members, invites, kits, late, faults>>

\* The 404 of a request on an org that does not exist.
OrgNotFound(h, o) ==
  /\ At(h, "idle")
  /\ ~Live(o)
  /\ UNCHANGED vars

\* Mutant: the check on org.ownerUserId dropped.
AfterCheckAnyone(h) ==
  CASE handler[h].op = "add" -> "putMember"
    [] handler[h].op = "remove" -> "markRemoved"
    [] handler[h].op = "delete" /\ orgs[handler[h].org].type = "team" -> "listKits"
    [] OTHER -> "idle"

\* What the handler goes on to: it refuses to remove the owner recorded in the
\* org, and to delete a personal org.
AfterCheck(h) ==
  LET org == orgs[handler[h].org] IN
  CASE handler[h].op = "add" -> "putMember"
    [] handler[h].op = "remove" /\ handler[h].user # org.owner -> "markRemoved"
    [] handler[h].op = "delete" /\ org.type = "team" -> "listKits"
    [] OTHER -> "idle"

\* getMembership of the actor: 403 unless an active owner or admin.
CheckActor(h) ==
  /\ At(h, "actor")
  /\ \E actor \in Users :
       IF Manages(handler[h].org, actor) /\ AfterCheck(h) # "idle"
       THEN Goto(h, AfterCheck(h)) ELSE Done(h)
  /\ UNCHANGED <<orgs, members, invites, kits, late, faults>>

\* addMember: the upsert of the membership, whatever it was ...
PutMember(h) ==
  /\ At(h, "putMember")
  /\ members' = [members EXCEPT ![handler[h].org][handler[h].user] =
                   Invited(handler[h].role)]
  /\ NoteLate(handler[h].org, handler[h].user)
  /\ Goto(h, "putInvite")
  /\ UNCHANGED <<orgs, invites, kits, faults>>

\* ... and that of the invite.
PutInvite(h) ==
  /\ At(h, "putInvite")
  /\ invites' = invites \cup {<<handler[h].org, handler[h].user>>}
  /\ NoteLate(handler[h].org, handler[h].user)
  /\ Done(h)
  /\ UNCHANGED <<orgs, members, kits, faults>>

\* removeMember: Postgres marks a row that exists; DynamoDB's UpdateItem creates
\* one, without a role, for a user who has none.
MarkRemoved(h) ==
  /\ At(h, "markRemoved")
  /\ members' = [members EXCEPT ![handler[h].org][handler[h].user] =
                   IF Postgres /\ @.status = "absent"
                   THEN @ ELSE [@ EXCEPT !.status = "removed"]]
  /\ Goto(h, "dropInvite")
  /\ UNCHANGED <<orgs, invites, kits, late, faults>>

\* Mutant: the UPDATE without AND status = 'invited'.
AcceptAnyRow(h, o, u) ==
  /\ At(h, "idle")
  /\ members[o][u].status # "absent"
  /\ members' = [members EXCEPT ![o][u].status = "active"]
  /\ handler' = [handler EXCEPT ![h] =
                   [NoHandler EXCEPT !.pc = "dropInvite", !.op = "accept",
                                     !.org = o, !.user = u]]
  /\ UNCHANGED <<orgs, invites, kits, late, faults>>

\* acceptInvite: the conditional UPDATE; 404 when it matches no row.
Accept(h, o, u) ==
  /\ At(h, "idle")
  /\ members[o][u].status = "invited"
  /\ members' = [members EXCEPT ![o][u].status = "active"]
  /\ handler' = [handler EXCEPT ![h] =
                   [NoHandler EXCEPT !.pc = "dropInvite", !.op = "accept",
                                     !.org = o, !.user = u]]
  /\ UNCHANGED <<orgs, invites, kits, late, faults>>

\* acceptInvite and removeMember end with the DELETE of the invite.
DropInvite(h) ==
  /\ At(h, "dropInvite")
  /\ invites' = invites \ {<<handler[h].org, handler[h].user>>}
  /\ Done(h)
  /\ UNCHANGED <<orgs, members, kits, late, faults>>

\* deleteOrgHandler counts all kits of the org, removed ones too: removeKit is a
\* soft delete.
ListKits(h) ==
  /\ At(h, "listKits")
  /\ Goto(h, IF \E k \in Kits : kits[k] = handler[h].org THEN "refused"
             ELSE IF Postgres THEN "invites" ELSE "members")
  /\ UNCHANGED <<orgs, members, invites, kits, late, faults>>

EndRefused(h) ==
  /\ At(h, "refused")
  /\ Done(h)
  /\ UNCHANGED <<orgs, members, invites, kits, late, faults>>

\* Mutant: only the rows of the first table are deleted.
AfterRowsShort(part) == "org"

\* deleteOrg: Postgres deletes the invites, then the memberships, each with one
\* statement; DynamoDB the memberships, then the invites, each row a Query
\* found with a statement of its own.
AfterRows(part) ==
  IF Postgres THEN IF part = "invites" THEN "members" ELSE "org"
              ELSE IF part = "members" THEN "invites" ELSE "org"

InvitedTo(o) == {u \in Users : <<o, u>> \in invites}

\* isMembership: a row without a role counts as none, here and in every read.
MembersOf(o) == {u \in Users : members[o][u].role # "none"}

EraseMembers(o, us) ==
  members' = [members EXCEPT ![o] =
                [u \in Users |-> IF u \in us THEN NoMember ELSE @[u]]]
EraseInvites(o, us) == invites' = invites \ ({o} \X us)

DeleteAllRows(h, part) ==
  /\ Postgres
  /\ At(h, part)
  /\ part \in {"members", "invites"}
  /\ Goto(h, AfterRows(part))
  /\ IF part = "members"
     THEN EraseMembers(handler[h].org, Users) /\ UNCHANGED invites
     ELSE EraseInvites(handler[h].org, Users) /\ UNCHANGED members
  /\ UNCHANGED <<orgs, kits, late, faults>>

QueryRows(h, part) ==
  /\ ~Postgres
  /\ At(h, part)
  /\ LET o == handler[h].org
         found == IF part = "members" THEN MembersOf(o) ELSE InvitedTo(o) IN
     handler' = [handler EXCEPT
                   ![h].pc = IF part = "members" THEN "membersLeft"
                                                 ELSE "invitesLeft",
                   ![h].left = found]
  /\ UNCHANGED <<orgs, members, invites, kits, late, faults>>

DeleteRow(h, u) ==
  /\ u \in handler[h].left
  /\ handler' = [handler EXCEPT ![h].left = @ \ {u}]
  /\ \/ At(h, "membersLeft") /\ EraseMembers(handler[h].org, {u})
        /\ UNCHANGED invites
     \/ At(h, "invitesLeft") /\ EraseInvites(handler[h].org, {u})
        /\ UNCHANGED members
  /\ UNCHANGED <<orgs, kits, late, faults>>

RowsDeleted(h) ==
  /\ handler[h].left = {}
  /\ \/ At(h, "membersLeft") /\ Goto(h, AfterRows("members"))
     \/ At(h, "invitesLeft") /\ Goto(h, AfterRows("invites"))
  /\ UNCHANGED <<orgs, members, invites, kits, late, faults>>

DeleteOrgRow(h) ==
  /\ At(h, "org")
  /\ orgs' = [orgs EXCEPT ![handler[h].org].status = "deleted"]
  /\ Done(h)
  /\ UNCHANGED <<members, invites, kits, late, faults>>

-----------------------------------------------------------------------------
(* transferKitHandler.                                                     *)

\* getKit.  Kits without owning org are in Publication.
BeginTransfer(h, k, actor, o) ==
  /\ At(h, "idle")
  /\ handler' = [handler EXCEPT ![h] =
                   [NoHandler EXCEPT !.pc = "source", !.op = "transfer",
                                     !.org = kits[k], !.user = actor,
                                     !.kit = k, !.target = o]]
  /\ UNCHANGED <<orgs, members, invites, kits, late, faults>>

\* The three reads: the actor's membership of the owning org, the target org,
\* the actor's membership there.
CheckTransfer(h) ==
  /\ LET r == handler[h]
         on(pc, ok, next) == At(h, pc) /\ IF ok THEN Goto(h, next) ELSE Done(h) IN
     \/ on("source", Manages(r.org, r.user), "target")
     \/ on("target", Live(r.target), "targetMember")
     \/ on("targetMember", IsActive(r.target, r.user), "transfer")
  /\ UNCHANGED <<orgs, members, invites, kits, late, faults>>

\* setKitOwnerOrg.
TransferKit(h) ==
  /\ At(h, "transfer")
  /\ kits' = [kits EXCEPT ![handler[h].kit] = handler[h].target]
  /\ Done(h)
  /\ UNCHANGED <<orgs, members, invites, late, faults>>

-----------------------------------------------------------------------------
\* A statement fails or the process dies: the handler goes no further, and an
\* open transaction is rolled back.
HandlerFails(h) ==
  /\ ~At(h, "idle") /\ ~At(h, "refused")
  /\ Fault
  /\ Done(h)
  /\ UNCHANGED <<orgs, members, invites, kits, late>>

HandlerStep(h) ==
  \/ \E u \in Users : BeginCreate(h, u) \/ BeginPersonal(h, u)
  \/ ReadSlugs(h) \/ InsertOrg(h) \/ InsertOwner(h)
  \/ \E o \in OrgIds, u \in Users :
       \/ \E r \in Roles : BeginManage(h, "add", o, u, r)
       \/ BeginManage(h, "remove", o, u, "none")
       \/ Accept(h, o, u)
  \/ \E o \in OrgIds : BeginManage(h, "delete", o, None, "none")
  \/ \E o \in OrgIds : OrgNotFound(h, o)
  \/ CheckActor(h) \/ PutMember(h) \/ PutInvite(h) \/ MarkRemoved(h)
  \/ DropInvite(h) \/ ListKits(h) \/ EndRefused(h)
  \/ \E part \in {"members", "invites"} : DeleteAllRows(h, part) \/ QueryRows(h, part)
  \/ \E u \in Users : DeleteRow(h, u)
  \/ RowsDeleted(h) \/ DeleteOrgRow(h)
  \/ \E k \in Kits, u \in Users, o \in OrgIds : BeginTransfer(h, k, u, o)
  \/ CheckTransfer(h) \/ TransferKit(h) \/ HandlerFails(h)

Next == \E h \in Handlers : HandlerStep(h)

Spec == Init /\ [][Next]_vars

-----------------------------------------------------------------------------
\* Type invariant.
TypeOK ==
  /\ orgs \in [OrgIds -> OrgRow]
  /\ members \in [OrgIds -> [Users -> MemberRow]]
  /\ invites \subseteq OrgIds \X Users
  /\ late \subseteq OrgIds \X Users
  /\ kits \in [Kits -> OrgIds]
  /\ handler \in [Handlers -> HandlerState]
  /\ faults \in 0 .. MaxFaults

\* "Creates an org with a unique slug", also when several requests deduplicate
\* the same name at once.
SlugsAreUnique ==
  \A o, p \in OrgIds : Live(o) /\ Live(p) /\ orgs[o].slug = orgs[p].slug => o = p

\* "The org owner cannot be removed."
OwnerIsNotRemoved ==
  \A o \in OrgIds : Live(o) => members[o][orgs[o].owner].status # "removed"

\* createOrg gives an org its owner's membership, and the owner keeps a row
\* (active, or invited again by an admin) until the org is being deleted.
OwnerHasRow ==
  \A o \in OrgIds :
    Live(o) /\ members[o][orgs[o].owner].status = "absent" =>
      \E h \in Handlers : handler[h].op = "delete" /\ handler[h].org = o

\* A removed member becomes active again only through a new invite, however
\* late an acceptance arrives.
RemovedStaysOut ==
  [][\A o \in OrgIds, u \in Users :
       members[o][u].status = "removed" => members'[o][u].status # "active"]_vars

\* "This organization still owns kits.  Transfer or remove them before deleting
\* the organization": a kit is never owned by an org that is gone.  It is when a
\* transfer that has found the org ends after deleteOrg listed its kits.
KitOwnerExists == \A k \in Kits : orgs[kits[k]].status # "deleted"

\* "Hard-deletes an org and all its memberships + invites": once the org is gone,
\* only what another request wrote during the deletion or after it is left of it
\* (and, with DynamoDB, rows without a role, which deleteOrg does not see).
DeletionIsComplete ==
  \A o \in OrgIds, u \in Users :
    orgs[o].status = "deleted" /\ u \in MembersOf(o) \cup InvitedTo(o)
      => <<o, u>> \in late

=============================================================================
