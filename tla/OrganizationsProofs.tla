------------------------- MODULE OrganizationsProofs -------------------------
(***************************************************************************)
(* What holds of Organizations for any number of orgs, users, kits,        *)
(* handlers and faults.  The invariant Safe says what a handler that has   *)
(* read its org may rely on when it writes: the org still has or had a     *)
(* row, whose owner never changes, and a handler about to mark a member    *)
(* removed is not about to mark that owner.                                *)
(***************************************************************************)
EXTENDS Organizations, FiniteSetTheorems, WellFoundedInduction, TLAPS

\* The statements of a handler that has found, or created, its org.
OrgFound ==
  {"insertOwner", "actor", "putMember", "putInvite", "markRemoved",
   "dropInvite", "listKits", "refused", "members", "membersLeft", "invites",
   "invitesLeft", "org"}

\* The statements of a handler whose request names a user.
UserGiven ==
  {"slug", "insertOrg", "insertOwner", "putMember", "putInvite", "markRemoved"}

\* Those of a handler that deletes its org.
Deleting ==
  {"listKits", "refused", "members", "membersLeft", "invites", "invitesLeft", "org"}

TransferUnderWay == {"source", "target", "targetMember", "transfer"}

HandlerSound(r, rows) ==
  /\ r \in HandlerState
  /\ r.pc \in OrgFound => r.org \in OrgIds /\ rows[r.org].status # "absent"
  /\ r.pc \in UserGiven => r.user \in Users
  /\ r.pc = "actor" /\ r.op \in {"add", "remove"} => r.user \in Users
  /\ r.pc \in Deleting => r.op = "delete"
  /\ r.pc = "insertOwner" => r.user = rows[r.org].owner
  /\ r.pc = "markRemoved" => r.user # rows[r.org].owner
  /\ r.pc \in TransferUnderWay => r.target \in OrgIds /\ r.kit \in Kits

HandlersSound == \A h \in Handlers : HandlerSound(handler[h], orgs)

\* An org that was never created has no members.
AbsentIsEmpty ==
  \A o \in OrgIds, u \in Users :
    orgs[o].status = "absent" => members[o][u].status = "absent"

\* An org, live or deleted, has an owner, who was not removed from it.
OwnerKept ==
  \A o \in OrgIds :
    orgs[o].status # "absent" =>
      orgs[o].owner \in Users /\ members[o][orgs[o].owner].status # "removed"

Safe == TypeOK /\ HandlersSound /\ AbsentIsEmpty /\ OwnerKept

\* What no step does to the organizations table: undo the creation of an org,
\* or give it another owner.
RowsKept(old, new) ==
  \A o \in OrgIds : old[o].status # "absent" =>
    new[o].status # "absent" /\ new[o].owner = old[o].owner

-----------------------------------------------------------------------------
(* dedupeSlug finds a slug: there is one more than there are live orgs.    *)

LEMMA TakenIsSmall ==
  ASSUME orgs \in [OrgIds -> OrgRow]
  PROVE  IsFiniteSet(Taken) /\ Cardinality(Taken) <= Cardinality(OrgIds)
<1> DEFINE live == {p \in OrgIds : Live(p)}
           slugOf == [o \in live |-> orgs[o].slug]
<1>1. IsFiniteSet(live) /\ Cardinality(live) <= Cardinality(OrgIds)
  BY FS_Subset, OrgIdsAssumption
<1>2. slugOf \in Surjection(live, Taken)
  BY DEF Surjection, Taken
<1>3. IsFiniteSet(Taken) /\ Cardinality(Taken) <= Cardinality(live)
  BY <1>1, <1>2, FS_Surjection
<1> HIDE DEF live
<1>4. /\ Cardinality(Taken) \in Nat /\ Cardinality(live) \in Nat
      /\ Cardinality(OrgIds) \in Nat
  BY <1>1, <1>3, FS_CardinalityType, OrgIdsAssumption
<1>5. QED  BY <1>1, <1>3, <1>4

\* A non-empty set of naturals has a least element: of the intervals 0 .. n, none
\* of which is infinite, one is least for strict inclusion.
LEMMA LeastExists ==
  ASSUME NEW S, S \subseteq Nat, S # {}
  PROVE  Min(S) \in S
<1> DEFINE Below == {0 .. n : n \in S}
<1>1. Below \subseteq FiniteSubsetsOf(Nat) /\ Below # {}
  <2>1. ASSUME NEW n \in S PROVE 0 .. n \in FiniteSubsetsOf(Nat)
    <3>1. IsFiniteSet(0 .. n)
      BY FS_Interval
    <3>2. QED  BY <3>1 DEF FiniteSubsetsOf
  <2>2. QED  BY <2>1
<1>2. PICK I \in Below :
         \A J \in Below : ~ (<<J, I>> \in StrictSubsetOrdering(Nat))
  BY <1>1, WFMin, FS_StrictSubsetOrderingWellFounded, Zenon
<1>3. PICK x \in S : I = 0 .. x
  OBVIOUS
<1>4. ASSUME NEW y \in S PROVE x <= y
  <2>1. SUFFICES ASSUME y < x PROVE FALSE
    OBVIOUS
  <2>2. 0 .. y \subseteq 0 .. x /\ x \in 0 .. x /\ x \notin 0 .. y
    BY <2>1
  <2>3. <<0 .. y, 0 .. x>> \in StrictSubsetOrdering(Nat)
    BY <2>2 DEF StrictSubsetOrdering
  <2>4. QED  BY <1>2, <1>3, <2>3
<1>5. QED  BY <1>4 DEF Min

LEMMA SlugFound ==
  ASSUME orgs \in [OrgIds -> OrgRow]
  PROVE  Min(Slugs \ Taken) \in Slugs
<1>1. /\ Cardinality(OrgIds) \in Nat
      /\ IsFiniteSet(Slugs) /\ Cardinality(Slugs) = Cardinality(OrgIds) + 1
  <2>1. Cardinality(OrgIds) \in Nat
    BY FS_CardinalityType, OrgIdsAssumption
  <2>2. QED  BY <2>1, FS_Interval DEF Slugs
<1>2. Slugs \ Taken # {}
  <2>1. SUFFICES ASSUME Slugs \subseteq Taken PROVE FALSE
    OBVIOUS
  <2>2. IsFiniteSet(Taken) /\ Cardinality(Taken) <= Cardinality(OrgIds)
    BY TakenIsSmall
  <2>3. Cardinality(Slugs) <= Cardinality(Taken) /\ Cardinality(Taken) \in Nat
    BY <2>1, <2>2, FS_Subset, FS_CardinalityType
  <2>4. QED  BY <1>1, <2>2, <2>3
<1>3. Slugs \ Taken \subseteq Nat
  BY <1>1 DEF Slugs
<1>4. QED  BY <1>2, <1>3, LeastExists

-----------------------------------------------------------------------------
(* The steps of a handler.  Safe is taken apart once: what a step of h may *)
(* rely on is that HandlerSound holds of handler[h].                       *)

LEMMA StepKeepsRows ==
  ASSUME TypeOK, NEW h \in Handlers, HandlerStep(h)
  PROVE  RowsKept(orgs, orgs')
<1> USE DEF TypeOK, OrgRow, RowsKept
<1>1. CASE InsertOrg(h)
  BY <1>1 DEF InsertOrg, PutOrg, NewOrg
<1>2. CASE DeleteOrgRow(h)
  BY <1>2 DEF DeleteOrgRow
<1>3. CASE UNCHANGED orgs
  BY <1>3
<1> HIDE DEF TypeOK, OrgRow, RowsKept
<1>4. QED
  BY <1>1, <1>2, <1>3
  DEF HandlerStep, BeginCreate, BeginPersonal, ReadSlugs, InsertOwner, BeginManage,
      OrgNotFound, vars, Accept, CheckActor, PutMember, PutInvite, MarkRemoved,
      DropInvite, ListKits, EndRefused, DeleteAllRows, QueryRows, DeleteRow,
      RowsDeleted, BeginTransfer, CheckTransfer, TransferKit, HandlerFails

\* Only InsertOrg creates an org, for the user of its request.
LEMMA StepCreates ==
  ASSUME TypeOK, HandlersSound, NEW h \in Handlers, HandlerStep(h),
         NEW o \in OrgIds, orgs[o].status = "absent", orgs'[o].status # "absent"
  PROVE  orgs'[o].owner \in Users
<1>1. HandlerSound(handler[h], orgs) /\ orgs \in [OrgIds -> OrgRow]
  BY DEF TypeOK, HandlersSound
<1>2. CASE InsertOrg(h)
  <2>1. handler[h].user \in Users
    BY <1>1, <1>2 DEF InsertOrg, At, HandlerSound, UserGiven
  <2>2. orgs'[o] = NewOrg(h)
    BY <1>1, <1>2 DEF InsertOrg, PutOrg
  <2>3. QED  BY <2>1, <2>2 DEF NewOrg
<1>3. CASE DeleteOrgRow(h)
  <2>1. handler[h].org # o
    BY <1>1, <1>3 DEF DeleteOrgRow, At, HandlerSound, OrgFound
  <2>2. QED  BY <1>1, <1>3, <2>1 DEF DeleteOrgRow
<1>4. QED
  BY <1>2, <1>3
  DEF HandlerStep, BeginCreate, BeginPersonal, ReadSlugs, InsertOwner, BeginManage,
      OrgNotFound, vars, Accept, CheckActor, PutMember, PutInvite, MarkRemoved,
      DropInvite, ListKits, EndRefused, DeleteAllRows, QueryRows, DeleteRow,
      RowsDeleted, BeginTransfer, CheckTransfer, TransferKit, HandlerFails

LEMMA SoundOutlivesRows ==
  ASSUME NEW r, NEW old, NEW new, RowsKept(old, new), HandlerSound(r, old)
  PROVE  HandlerSound(r, new)
BY DEF RowsKept, HandlerSound, OrgFound

\* A handler that has finished relies on nothing.
LEMMA FreshSound == \A rows : HandlerSound(NoHandler, rows)
BY NoneAssumption
DEF HandlerSound, NoHandler, HandlerState, Statements, OrgTypes, OrgFound,
    UserGiven, Deleting, TransferUnderWay

\* What a handler keeps of its request from one statement to the next.
SameRequest(r, s) ==
  /\ s.op = r.op /\ s.org = r.org /\ s.user = r.user
  /\ s.kit = r.kit /\ s.target = r.target

LEMMA GoingTo ==
  ASSUME HandlersSound, handler \in [Handlers -> HandlerState],
         NEW h \in Handlers, NEW pc \in Statements, Goto(h, pc)
  PROVE  /\ handler'[h] \in HandlerState
         /\ handler'[h].pc = pc
         /\ SameRequest(handler[h], handler'[h])
<1>1. handler'[h] = [handler[h] EXCEPT !.pc = pc]
  BY DEF Goto
<1>2. QED  BY <1>1 DEF HandlerState, SameRequest

LEMMA Finishing ==
  ASSUME handler \in [Handlers -> HandlerState], NEW h \in Handlers, Done(h)
  PROVE  HandlerSound(handler'[h], orgs')
<1>1. handler'[h] = NoHandler
  BY DEF Done
<1>2. QED  BY <1>1, FreshSound

\* A step of h changes no other handler.
LEMMA StepIsLocal ==
  ASSUME TypeOK, NEW h \in Handlers, HandlerStep(h)
  PROVE  /\ handler' = [g \in Handlers |-> handler'[g]]
         /\ \A g \in Handlers \ {h} : handler'[g] = handler[g]
<1> USE DEF TypeOK, Goto, Done
<1>1. CASE Done(h) \/ \E pc : Goto(h, pc)
  BY <1>1
<1>2. CASE UNCHANGED handler
  BY <1>2
<1>3. CASE \/ \E u \in Users : BeginCreate(h, u) \/ BeginPersonal(h, u)
           \/ \E op, o, u, r : BeginManage(h, op, o, u, r)
           \/ \E o \in OrgIds, u \in Users : Accept(h, o, u)
           \/ \E k \in Kits, u \in Users, o \in OrgIds : BeginTransfer(h, k, u, o)
  BY <1>3 DEF BeginCreate, BeginPersonal, BeginManage, Accept, BeginTransfer
<1>4. CASE ReadSlugs(h) \/ InsertOrg(h)
  BY <1>4 DEF ReadSlugs, InsertOrg
<1>5. CASE \/ \E u \in Users : DeleteRow(h, u)
           \/ \E part \in {"members", "invites"} : QueryRows(h, part)
  BY <1>5 DEF DeleteRow, QueryRows
<1> HIDE DEF TypeOK, Goto, Done
<1>6. CASE \/ InsertOwner(h) \/ CheckActor(h) \/ PutMember(h) \/ PutInvite(h)
           \/ MarkRemoved(h) \/ DropInvite(h) \/ ListKits(h) \/ EndRefused(h)
           \/ RowsDeleted(h) \/ DeleteOrgRow(h) \/ CheckTransfer(h)
           \/ TransferKit(h) \/ HandlerFails(h)
           \/ \E part \in {"members", "invites"} : DeleteAllRows(h, part)
  BY <1>6, <1>1
  DEF InsertOwner, CheckActor, PutMember, PutInvite, MarkRemoved, DropInvite,
      ListKits, EndRefused, DeleteAllRows, RowsDeleted, DeleteOrgRow,
      CheckTransfer, TransferKit, HandlerFails
<1>7. QED
  BY <1>2, <1>3, <1>4, <1>5, <1>6 DEF HandlerStep, OrgNotFound, vars

LEMMA StepIsSound ==
  ASSUME TypeOK, HandlersSound, AbsentIsEmpty, NEW h \in Handlers, HandlerStep(h)
  PROVE  HandlerSound(handler'[h], orgs')
<1> DEFINE r == handler[h]
           s == handler'[h]
<1>t. r \in HandlerState /\ HandlerSound(r, orgs)
  BY DEF TypeOK, HandlersSound
<1>k. RowsKept(orgs, orgs')
  BY StepKeepsRows
<1>f. handler \in [Handlers -> HandlerState]
  BY DEF TypeOK
<1> HIDE DEF r
<1>1. ASSUME NEW u \in Users, BeginCreate(h, u) \/ BeginPersonal(h, u)
      PROVE  HandlerSound(s, orgs')
  <2>1. PICK type \in OrgTypes :
          s = [NoHandler EXCEPT !.pc = "slug", !.op = "create",
                                !.user = u, !.type = type]
    BY <1>1, <1>f DEF BeginCreate, BeginPersonal, OrgTypes
  <2>2. QED
    BY <2>1 DEF HandlerSound, NoHandler, HandlerState, Statements, OrgTypes,
                OrgFound, UserGiven, Deleting, TransferUnderWay
<1>2. CASE ReadSlugs(h)
  <2>1. Min(Slugs \ Taken) \in Slugs
    BY SlugFound DEF TypeOK
  <2>2. s = [r EXCEPT !.pc = "insertOrg", !.slug = Min(Slugs \ Taken)]
    BY <1>2, <1>f DEF ReadSlugs, r
  <2>3. r.user \in Users
    BY <1>2, <1>t DEF ReadSlugs, At, HandlerSound, UserGiven, Deleting, r
  <2>4. QED
    BY <1>t, <2>1, <2>2, <2>3
    DEF HandlerSound, HandlerState, Statements, OrgFound, UserGiven, Deleting,
        TransferUnderWay
<1>3. CASE InsertOrg(h)
  <2>1. r.user \in Users
    BY <1>3, <1>t DEF InsertOrg, At, HandlerSound, UserGiven, Deleting, r
  <2>2. ASSUME NEW o \in OrgIds, PutOrg(h, o),
               s = [r EXCEPT !.pc = "insertOwner", !.org = o]
        PROVE  HandlerSound(s, orgs')
    <3>1. orgs'[o].status = "live" /\ orgs'[o].owner = r.user
      BY <2>2 DEF PutOrg, NewOrg, TypeOK, r
    <3>2. QED
      BY <1>t, <2>1, <2>2, <3>1
      DEF HandlerSound, HandlerState, Statements, OrgFound, UserGiven, Deleting,
          TransferUnderWay
  <2>3. CASE Done(h)
    BY <2>3, <1>f, Finishing
  <2>4. QED
    BY <1>3, <1>f, <2>2, <2>3 DEF InsertOrg, r
<1>4. ASSUME NEW op \in {"add", "remove", "delete"}, NEW o \in OrgIds,
             NEW u \in Users \cup {None}, NEW role \in Roles \cup {"none"},
             op # "delete" => u \in Users, BeginManage(h, op, o, u, role)
      PROVE  HandlerSound(s, orgs')
  <2>1. s = [NoHandler EXCEPT !.pc = "actor", !.op = op, !.org = o,
                              !.user = u, !.role = role]
    BY <1>4, <1>f DEF BeginManage
  <2>2. orgs'[o].status # "absent"
    BY <1>4, <1>k DEF BeginManage, Live, RowsKept
  <2>3. QED
    BY <1>4, <2>1, <2>2 DEF HandlerSound, NoHandler, HandlerState, Statements,
       OrgTypes, OrgFound, UserGiven, Deleting, TransferUnderWay
<1>5. ASSUME NEW o \in OrgIds, NEW u \in Users, Accept(h, o, u)
      PROVE  HandlerSound(s, orgs')
  <2>1. s = [NoHandler EXCEPT !.pc = "dropInvite", !.op = "accept",
                              !.org = o, !.user = u]
    BY <1>5, <1>f DEF Accept
  <2>2. orgs[o].status # "absent"
    BY <1>5 DEF Accept, AbsentIsEmpty
  <2>3. QED
    BY <1>5, <1>k, <2>1, <2>2
    DEF RowsKept, HandlerSound, NoHandler, HandlerState, Statements, OrgTypes,
        OrgFound, UserGiven, Deleting, TransferUnderWay
<1>6. ASSUME NEW pc \in Statements, Goto(h, pc),
             pc \in OrgFound => r.pc \in OrgFound,
             pc \in UserGiven => r.user \in Users,
             pc \in Deleting => r.op = "delete",
             pc = "actor" => r.pc = "actor",
             pc # "insertOwner",
             pc = "markRemoved" => r.user # orgs[r.org].owner,
             pc \in TransferUnderWay => r.pc \in TransferUnderWay
      PROVE  HandlerSound(s, orgs')
  <2>1. s \in HandlerState /\ s.pc = pc /\ SameRequest(r, s)
    BY <1>6, <1>f, GoingTo DEF r
  <2>2. HandlerSound(s, orgs)
    BY <1>6, <1>t, <2>1 DEF HandlerSound, SameRequest
  <2>3. QED  BY <2>2, <1>k, SoundOutlivesRows
<1>7. CASE Done(h)
  BY <1>7, <1>f, Finishing
<1>8. CASE CheckActor(h)
  <2>1. r.pc = "actor"
    BY <1>8 DEF CheckActor, At, r
  <2>2. CASE Goto(h, AfterCheck(h)) /\ AfterCheck(h) # "idle"
    <3>1. CASE r.op = "add" /\ AfterCheck(h) = "putMember"
      BY <1>6, <1>t, <2>1, <2>2, <3>1
      DEF HandlerSound, Statements, OrgFound, UserGiven, Deleting,
          TransferUnderWay
    <3>2. CASE /\ r.op = "remove" /\ AfterCheck(h) = "markRemoved"
               /\ r.user # orgs[r.org].owner
      BY <1>6, <1>t, <2>1, <2>2, <3>2
      DEF HandlerSound, Statements, OrgFound, UserGiven, Deleting,
          TransferUnderWay
    <3>3. CASE r.op = "delete" /\ AfterCheck(h) = "listKits"
      BY <1>6, <2>1, <2>2, <3>3
      DEF Statements, OrgFound, UserGiven, Deleting, TransferUnderWay
    <3>4. QED
      BY <2>2, <3>1, <3>2, <3>3 DEF AfterCheck, r
  <2>3. QED  BY <1>7, <1>8, <2>2 DEF CheckActor
<1>9. CASE PutMember(h)
  BY <1>6, <1>9, <1>t DEF PutMember, At, HandlerSound, Statements, OrgFound,
     UserGiven, Deleting, TransferUnderWay, r
<1>10. CASE MarkRemoved(h)
  BY <1>6, <1>10, <1>t
  DEF MarkRemoved, At, Statements, OrgFound, UserGiven, Deleting,
      TransferUnderWay, r
<1>11. CASE ListKits(h)
  <2>1. PICK pc \in {"refused", "invites", "members"} : Goto(h, pc)
    BY <1>11 DEF ListKits
  <2>2. QED
    BY <1>6, <1>11, <1>t, <2>1
    DEF ListKits, At, HandlerSound, Statements, OrgFound, UserGiven, Deleting,
        TransferUnderWay, r
<1>12. ASSUME NEW part \in {"members", "invites"}, DeleteAllRows(h, part)
       PROVE  HandlerSound(s, orgs')
  BY <1>6, <1>12, <1>t
  DEF DeleteAllRows, AfterRows, At, HandlerSound, Statements, OrgFound,
      UserGiven, Deleting, TransferUnderWay, r
<1>13. CASE RowsDeleted(h)
  BY <1>6, <1>13, <1>t
  DEF RowsDeleted, AfterRows, At, HandlerSound, Statements, OrgFound, UserGiven,
      Deleting, TransferUnderWay, r
<1>14. ASSUME NEW part \in {"members", "invites"}, QueryRows(h, part)
       PROVE  HandlerSound(s, orgs')
  <2>1. PICK pc \in {"membersLeft", "invitesLeft"}, us \in SUBSET Users :
          s = [r EXCEPT !.pc = pc, !.left = us]
    BY <1>14, <1>f DEF QueryRows, MembersOf, InvitedTo, r
  <2>2. r.pc \in OrgFound /\ r.pc \in Deleting /\ UNCHANGED orgs
    BY <1>14 DEF QueryRows, At, OrgFound, Deleting, r
  <2>3. QED
    BY <1>t, <2>1, <2>2 DEF HandlerSound, HandlerState, Statements, OrgFound,
       UserGiven, Deleting, TransferUnderWay
<1>15. ASSUME NEW u \in Users, DeleteRow(h, u)
       PROVE  HandlerSound(s, orgs')
  <2>1. s = [r EXCEPT !.left = @ \ {u}] /\ UNCHANGED orgs
    BY <1>15, <1>f DEF DeleteRow, r
  <2>2. s \in HandlerState /\ s.pc = r.pc /\ SameRequest(r, s)
    BY <1>t, <2>1 DEF HandlerState, SameRequest
  <2>3. QED
    BY <1>t, <2>1, <2>2 DEF HandlerSound, SameRequest
<1>16. ASSUME NEW k \in Kits, NEW u \in Users, NEW o \in OrgIds,
              BeginTransfer(h, k, u, o)
       PROVE  HandlerSound(s, orgs')
  <2>1. kits[k] \in OrgIds
    BY DEF TypeOK
  <2>2. s = [NoHandler EXCEPT !.pc = "source", !.op = "transfer",
                              !.org = kits[k], !.user = u,
                              !.kit = k, !.target = o]
    BY <1>16, <1>f DEF BeginTransfer
  <2>3. QED
    BY <2>1, <2>2 DEF HandlerSound, NoHandler, HandlerState, Statements,
       OrgTypes, OrgFound, UserGiven, Deleting, TransferUnderWay
<1>17. CASE CheckTransfer(h)
  <2>1. ASSUME NEW pc \in {"target", "targetMember", "transfer"}, Goto(h, pc),
               r.pc \in TransferUnderWay
        PROVE  HandlerSound(s, orgs')
    BY <1>6, <2>1
    DEF Statements, OrgFound, UserGiven, Deleting, TransferUnderWay
  <2>2. QED
    BY <1>7, <1>17, <2>1 DEF CheckTransfer, At, TransferUnderWay, r
<1>18. CASE UNCHANGED vars
  BY <1>18, <1>t DEF vars, r
<1>19. QED
  BY <1>1, <1>2, <1>3, <1>4, <1>5, <1>7, <1>8, <1>9, <1>10, <1>11, <1>12, <1>13,
     <1>14, <1>15, <1>16, <1>17, <1>18
  DEF HandlerStep, InsertOwner, PutInvite, DropInvite, EndRefused, DeleteOrgRow,
      TransferKit, HandlerFails, OrgNotFound

-----------------------------------------------------------------------------
(* The tables.                                                             *)

\* Who notes a late row.
LEMMA LateWrites ==
  ASSUME NEW h \in Handlers, HandlerStep(h)
  PROVE  UNCHANGED late \/ InsertOwner(h) \/ PutMember(h) \/ PutInvite(h)
BY DEF HandlerStep, BeginCreate, BeginPersonal, ReadSlugs, InsertOrg, BeginManage,
   OrgNotFound, vars, Accept, CheckActor, MarkRemoved, DropInvite, ListKits,
   EndRefused, DeleteAllRows, QueryRows, DeleteRow, RowsDeleted, DeleteOrgRow,
   BeginTransfer, CheckTransfer, TransferKit, HandlerFails

LEMMA StepKeepsTables ==
  ASSUME Safe, NEW h \in Handlers, HandlerStep(h)
  PROVE  /\ orgs' \in [OrgIds -> OrgRow]
         /\ members' \in [OrgIds -> [Users -> MemberRow]]
         /\ invites' \subseteq OrgIds \X Users
         /\ kits' \in [Kits -> OrgIds]
         /\ late' \subseteq OrgIds \X Users
         /\ faults' \in 0 .. MaxFaults
<1> DEFINE r == handler[h]
<1>r. r \in HandlerState /\ HandlerSound(r, orgs)
  BY DEF Safe, TypeOK, HandlersSound
<1>t. TypeOK
  BY DEF Safe
<1> HIDE DEF r
<1>1. orgs' \in [OrgIds -> OrgRow]
  <2>1. CASE InsertOrg(h)
    <3>1. NewOrg(h) \in OrgRow
      BY <1>r DEF NewOrg, OrgRow, HandlerState, r
    <3>2. QED  BY <1>t, <2>1, <3>1 DEF InsertOrg, PutOrg, TypeOK
  <2>2. CASE DeleteOrgRow(h)
    BY <1>t, <2>2 DEF DeleteOrgRow, TypeOK, OrgRow
  <2>3. CASE UNCHANGED orgs
    BY <1>t, <2>3 DEF TypeOK
  <2>4. QED
    BY <2>1, <2>2, <2>3
    DEF HandlerStep, BeginCreate, BeginPersonal, ReadSlugs, InsertOwner,
        BeginManage, OrgNotFound, vars, Accept, CheckActor, PutMember, PutInvite,
        MarkRemoved, DropInvite, ListKits, EndRefused, DeleteAllRows, QueryRows,
        DeleteRow, RowsDeleted, BeginTransfer, CheckTransfer, TransferKit,
        HandlerFails
<1>2. members' \in [OrgIds -> [Users -> MemberRow]]
  <2> USE <1>t DEF TypeOK, MemberRow
  <2>1. ASSUME NEW o, NEW u, PutOwner(o, u)
        PROVE  members' \in [OrgIds -> [Users -> MemberRow]]
    BY <2>1 DEF PutOwner, OwnerMember
  <2>2. CASE PutMember(h)
    <3>1. Invited(handler[h].role) \in MemberRow
      BY <1>r DEF Invited, HandlerState, r
    <3>2. QED  BY <2>2, <3>1 DEF PutMember
  <2>3. CASE MarkRemoved(h)
    <3>1. r.org \in OrgIds /\ r.user \in Users
      BY <1>r, <2>3 DEF MarkRemoved, At, HandlerSound, OrgFound, UserGiven, r
    <3> DEFINE m == members[r.org][r.user]
               n == IF Postgres /\ m.status = "absent"
                    THEN m ELSE [m EXCEPT !.status = "removed"]
    <3>2. members' = [members EXCEPT ![r.org][r.user] = n]
      BY <2>3 DEF MarkRemoved, r
    <3>3. m \in MemberRow
      BY <3>1
    <3>4. n \in MemberRow
      BY <3>3
    <3> HIDE DEF MemberRow, n
    <3>5. QED  BY <3>1, <3>2, <3>4
  <2>4. ASSUME NEW o \in OrgIds, NEW u \in Users, Accept(h, o, u)
        PROVE  members' \in [OrgIds -> [Users -> MemberRow]]
    <3> DEFINE m == [members[o][u] EXCEPT !.status = "active"]
    <3>1. members' = [members EXCEPT ![o][u] = m]
      BY <2>4 DEF Accept
    <3>2. members[o][u] \in MemberRow
      OBVIOUS
    <3>3. m \in MemberRow
      BY <3>2
    <3> HIDE DEF MemberRow, m
    <3>4. QED  BY <3>1, <3>3
  <2>5. ASSUME NEW o, NEW us, EraseMembers(o, us)
        PROVE  members' \in [OrgIds -> [Users -> MemberRow]]
    <3>1. NoMember \in MemberRow
      BY DEF NoMember
    <3> HIDE DEF MemberRow
    <3>2. QED  BY <2>5, <3>1 DEF EraseMembers
  <2>6. CASE UNCHANGED members
    BY <2>6
  <2> HIDE DEF TypeOK, MemberRow
  <2>7. CASE InsertOrg(h) \/ InsertOwner(h)
    BY <2>1, <2>6, <2>7 DEF InsertOrg, InsertOwner
  <2>8. CASE \/ \E u \in Users : DeleteRow(h, u)
             \/ \E part \in {"members", "invites"} : DeleteAllRows(h, part)
    BY <2>5, <2>6, <2>8 DEF DeleteRow, DeleteAllRows
  <2>9. QED
    BY <2>2, <2>3, <2>4, <2>6, <2>7, <2>8
    DEF HandlerStep, BeginCreate, BeginPersonal, ReadSlugs, BeginManage,
        OrgNotFound, vars, CheckActor, PutInvite, DropInvite, ListKits,
        EndRefused, QueryRows, RowsDeleted, DeleteOrgRow, BeginTransfer,
        CheckTransfer, TransferKit, HandlerFails
<1>3. invites' \subseteq OrgIds \X Users
  <2>1. CASE PutInvite(h)
    <3>1. r.org \in OrgIds /\ r.user \in Users
      BY <1>r, <2>1 DEF PutInvite, At, HandlerSound, OrgFound, UserGiven, r
    <3>2. QED  BY <1>t, <2>1, <3>1 DEF PutInvite, TypeOK, r
  <2>2. CASE invites' \subseteq invites
    BY <1>t, <2>2 DEF TypeOK
  <2>3. QED
    BY <2>1, <2>2
    DEF HandlerStep, BeginCreate, BeginPersonal, ReadSlugs, InsertOrg,
        InsertOwner, BeginManage, OrgNotFound, vars, Accept, CheckActor,
        PutMember, MarkRemoved, DropInvite, ListKits, EndRefused, DeleteAllRows,
        QueryRows, DeleteRow, EraseInvites, RowsDeleted, DeleteOrgRow,
        BeginTransfer, CheckTransfer, TransferKit, HandlerFails
<1>4. kits' \in [Kits -> OrgIds]
  <2>1. CASE TransferKit(h)
    <3>1. r.target \in OrgIds
      BY <1>r, <2>1 DEF TransferKit, At, HandlerSound, TransferUnderWay, r
    <3>2. QED  BY <1>t, <2>1, <3>1 DEF TransferKit, TypeOK, r
  <2>2. CASE UNCHANGED kits
    BY <1>t, <2>2 DEF TypeOK
  <2>3. QED
    BY <2>1, <2>2
    DEF HandlerStep, BeginCreate, BeginPersonal, ReadSlugs, InsertOrg,
        InsertOwner, BeginManage, OrgNotFound, vars, Accept, CheckActor,
        PutMember, PutInvite, MarkRemoved, DropInvite, ListKits, EndRefused,
        DeleteAllRows, QueryRows, DeleteRow, RowsDeleted, DeleteOrgRow,
        BeginTransfer, CheckTransfer, HandlerFails
<1>5. faults' \in 0 .. MaxFaults
  <2>1. CASE HandlerFails(h)
    BY <1>t, <2>1, FaultsAssumption DEF HandlerFails, Fault, TypeOK
  <2>2. CASE UNCHANGED faults
    BY <1>t, <2>2 DEF TypeOK
  <2>3. QED
    BY <2>1, <2>2
    DEF HandlerStep, BeginCreate, BeginPersonal, ReadSlugs, InsertOrg,
        InsertOwner, BeginManage, OrgNotFound, vars, Accept, CheckActor,
        PutMember, PutInvite, MarkRemoved, DropInvite, ListKits, EndRefused,
        DeleteAllRows, QueryRows, DeleteRow, RowsDeleted, DeleteOrgRow,
        BeginTransfer, CheckTransfer, TransferKit
<1>6. late' \subseteq OrgIds \X Users
  <2>1. CASE InsertOwner(h) \/ PutMember(h) \/ PutInvite(h)
    <3>1. r.org \in OrgIds /\ r.user \in Users
      BY <1>r, <2>1
      DEF InsertOwner, PutMember, PutInvite, At, HandlerSound, OrgFound, UserGiven, r
    <3>2. late' \subseteq late \cup {<<r.org, r.user>>}
      BY <2>1 DEF InsertOwner, PutMember, PutInvite, NoteLate, r
    <3>3. QED  BY <1>t, <3>1, <3>2 DEF TypeOK
  <2>2. CASE UNCHANGED late
    BY <1>t, <2>2 DEF TypeOK
  <2>3. QED  BY <2>1, <2>2, LateWrites
<1>7. QED  BY <1>1, <1>2, <1>3, <1>4, <1>5, <1>6

\* The ways a step writes memberships: only an owner who was not removed, or
\* somebody invited, becomes active.
LEMMA MemberWrites ==
  ASSUME Safe, NEW h \in Handlers, HandlerStep(h)
  PROVE  \/ UNCHANGED members
         \/ \E o \in OrgIds, u \in Users :
              /\ PutOwner(o, u)
              /\ orgs'[o].status # "absent" /\ members[o][u].status # "removed"
         \/ \E o \in OrgIds, u \in Users : Accept(h, o, u)
         \/ PutMember(h) \/ MarkRemoved(h)
         \/ \E o, us : EraseMembers(o, us)
<1> DEFINE r == handler[h]
<1>r. r \in HandlerState /\ HandlerSound(r, orgs)
  BY DEF Safe, TypeOK, HandlersSound
<1>t. TypeOK /\ AbsentIsEmpty /\ OwnerKept
  BY DEF Safe
<1>k. RowsKept(orgs, orgs')
  BY <1>t, StepKeepsRows
<1> HIDE DEF r
<1>1. ASSUME InsertOrg(h), ~ UNCHANGED members
      PROVE  \E o \in OrgIds, u \in Users :
               /\ PutOwner(o, u)
               /\ orgs'[o].status # "absent" /\ members[o][u].status # "removed"
  <2>1. r.user \in Users
    BY <1>1, <1>r DEF InsertOrg, At, HandlerSound, UserGiven, Deleting, r
  <2>2. PICK o \in OrgIds :
          orgs[o].status = "absent" /\ PutOrg(h, o) /\ PutOwner(o, r.user)
    BY <1>1 DEF InsertOrg, r
  <2>3. members[o][r.user].status # "removed"
    BY <1>t, <2>1, <2>2 DEF AbsentIsEmpty
  <2>4. orgs'[o].status # "absent"
    BY <1>t, <2>2 DEF PutOrg, NewOrg, TypeOK
  <2>5. QED  BY <2>1, <2>2, <2>3, <2>4
<1>2. ASSUME InsertOwner(h)
      PROVE  \E o \in OrgIds, u \in Users :
               /\ PutOwner(o, u)
               /\ orgs'[o].status # "absent" /\ members[o][u].status # "removed"
  <2>1. /\ r.org \in OrgIds /\ orgs[r.org].status # "absent"
        /\ r.user \in Users /\ r.user = orgs[r.org].owner
    BY <1>2, <1>r DEF InsertOwner, At, HandlerSound, OrgFound, UserGiven, r
  <2>2. members[r.org][r.user].status # "removed"
    BY <1>t, <2>1 DEF OwnerKept
  <2>3. QED  BY <1>2, <1>k, <2>1, <2>2 DEF InsertOwner, RowsKept, r
<1>3. QED
  BY <1>1, <1>2
  DEF HandlerStep, BeginCreate, BeginPersonal, ReadSlugs, BeginManage,
      OrgNotFound, vars, CheckActor, PutInvite, DropInvite, ListKits, EndRefused,
      DeleteAllRows, QueryRows, DeleteRow, RowsDeleted, DeleteOrgRow,
      BeginTransfer, CheckTransfer, TransferKit, HandlerFails

\* What becomes of one membership.
LEMMA MemberSteps ==
  ASSUME Safe, NEW h \in Handlers, HandlerStep(h),
         NEW o \in OrgIds, NEW u \in Users
  PROVE  /\ orgs'[o].status = "absent" => members'[o][u].status = "absent"
         /\ members[o][u].status = "removed" => members'[o][u].status # "active"
         /\ /\ members'[o][u].status = "removed"
            /\ members[o][u].status # "removed"
            => u # orgs[o].owner /\ orgs[o].status # "absent"
<1> DEFINE r == handler[h]
           Good == /\ orgs'[o].status = "absent" => members'[o][u].status = "absent"
                   /\ members[o][u].status = "removed" =>
                        members'[o][u].status # "active"
                   /\ /\ members'[o][u].status = "removed"
                      /\ members[o][u].status # "removed"
                      => u # orgs[o].owner /\ orgs[o].status # "absent"
<1>r. r \in HandlerState /\ HandlerSound(r, orgs)
  BY DEF Safe, TypeOK, HandlersSound
<1>t. TypeOK /\ AbsentIsEmpty /\ OwnerKept
  BY DEF Safe
<1>k. orgs'[o].status = "absent" =>
        orgs[o].status = "absent" /\ members[o][u].status = "absent"
  BY <1>t, StepKeepsRows DEF RowsKept, AbsentIsEmpty
<1>m. members \in [OrgIds -> [Users -> MemberRow]]
  BY <1>t DEF TypeOK
<1> SUFFICES Good
  OBVIOUS
<1> HIDE DEF r
<1>1. CASE UNCHANGED members
  BY <1>1, <1>k
<1>2. ASSUME NEW p \in OrgIds, NEW v \in Users, PutOwner(p, v),
             orgs'[p].status # "absent", members[p][v].status # "removed"
      PROVE  Good
  BY <1>2, <1>k, <1>m DEF PutOwner, OwnerMember
<1>3. ASSUME NEW p \in OrgIds, NEW v \in Users, Accept(h, p, v)
      PROVE  Good
  BY <1>3, <1>k, <1>m DEF Accept, MemberRow
<1>4. CASE PutMember(h)
  <2>1. /\ r.org \in OrgIds /\ orgs[r.org].status # "absent"
        /\ r.user \in Users
    BY <1>4, <1>r DEF PutMember, At, HandlerSound, OrgFound, UserGiven, r
  <2>2. members' = [members EXCEPT ![r.org][r.user] = Invited(r.role)]
    BY <1>4 DEF PutMember, r
  <2>3. UNCHANGED orgs
    BY <1>4 DEF PutMember
  <2>4. QED  BY <1>k, <1>m, <2>1, <2>2, <2>3 DEF Invited
<1>5. CASE MarkRemoved(h)
  <2>1. /\ r.org \in OrgIds /\ orgs[r.org].status # "absent"
        /\ r.user \in Users /\ r.user # orgs[r.org].owner
    BY <1>5, <1>r DEF MarkRemoved, At, HandlerSound, OrgFound, UserGiven, r
  <2>2. /\ UNCHANGED orgs
        /\ members' = [members EXCEPT ![r.org][r.user] =
                         IF Postgres /\ @.status = "absent"
                         THEN @ ELSE [@ EXCEPT !.status = "removed"]]
    BY <1>5 DEF MarkRemoved, r
  <2>3. CASE o = r.org /\ u = r.user
    BY <1>k, <1>m, <2>1, <2>2, <2>3 DEF MemberRow
  <2>4. CASE ~(o = r.org /\ u = r.user)
    <3>1. members'[o][u] = members[o][u]
      BY <1>m, <2>1, <2>2, <2>4
    <3>2. QED  BY <1>k, <3>1
  <2>5. QED  BY <2>3, <2>4
<1>6. ASSUME NEW p, NEW us, EraseMembers(p, us)
      PROVE  Good
  <2>1. \/ members'[o][u] = members[o][u]
        \/ members'[o][u] = NoMember
    BY <1>m, <1>6 DEF EraseMembers
  <2>2. QED  BY <1>k, <2>1 DEF NoMember
<1>7. QED
  BY <1>1, <1>2, <1>3, <1>4, <1>5, <1>6, MemberWrites

-----------------------------------------------------------------------------
(* The theorems.                                                           *)

LEMMA SafeInitially == Init => Safe
<1> SUFFICES ASSUME Init PROVE Safe
  OBVIOUS
<1>1. TypeOK
  <2>1. NoHandler \in HandlerState
    BY FreshSound DEF HandlerSound
  <2>2. members \in [OrgIds -> [Users -> MemberRow]]
    BY DEF Init, OwnerMember, NoMember, MemberRow
  <2>3. QED
    BY <2>1, <2>2, InitialOrgsAssumption, KitOwnerAssumption, FaultsAssumption
    DEF Init, TypeOK
<1>2. HandlersSound
  BY FreshSound DEF Init, HandlersSound
<1>3. AbsentIsEmpty
  BY DEF Init, AbsentIsEmpty, NoMember
<1>4. OwnerKept
  BY InitialOrgsAssumption DEF Init, OwnerKept, NoMember, OwnerMember
<1>5. QED  BY <1>1, <1>2, <1>3, <1>4 DEF Safe

LEMMA SafeAfterStep ==
  ASSUME Safe, NEW h \in Handlers, HandlerStep(h)
  PROVE  Safe'
<1>s. TypeOK /\ HandlersSound /\ AbsentIsEmpty /\ OwnerKept
  BY DEF Safe
<1>k. RowsKept(orgs, orgs')
  BY <1>s, StepKeepsRows
<1>1. HandlersSound' /\ handler' \in [Handlers -> HandlerState]
  <2>1. ASSUME NEW g \in Handlers PROVE HandlerSound(handler'[g], orgs')
    <3>1. CASE g = h
      BY <1>s, <3>1, StepIsSound
    <3>2. CASE g # h
      BY <1>s, <1>k, <3>2, StepIsLocal, SoundOutlivesRows DEF HandlersSound
    <3>3. QED  BY <3>1, <3>2
  <2>2. handler' \in [Handlers -> HandlerState]
    BY <1>s, <2>1, StepIsLocal DEF HandlerSound, TypeOK
  <2>3. QED  BY <2>1, <2>2 DEF HandlersSound
<1>2. TypeOK'
  BY <1>1, StepKeepsTables DEF TypeOK
<1>3. AbsentIsEmpty'
  BY MemberSteps DEF AbsentIsEmpty
<1>4. OwnerKept'
  <2> SUFFICES ASSUME NEW o \in OrgIds, orgs'[o].status # "absent"
               PROVE  /\ orgs'[o].owner \in Users
                      /\ members'[o][orgs'[o].owner].status # "removed"
    BY DEF OwnerKept
  <2>1. CASE orgs[o].status # "absent"
    BY <1>s, <1>k, <2>1, MemberSteps DEF OwnerKept, RowsKept
  <2>2. CASE orgs[o].status = "absent"
    <3>1. orgs'[o].owner \in Users
      BY <1>s, <2>2, StepCreates
    <3>2. members[o][orgs'[o].owner].status = "absent"
      BY <1>s, <2>2, <3>1 DEF AbsentIsEmpty
    <3>3. QED  BY <2>2, <3>1, <3>2, MemberSteps
  <2>3. QED  BY <2>1, <2>2
<1>5. QED  BY <1>1, <1>2, <1>3, <1>4 DEF Safe

LEMMA SafeUnchanged == Safe /\ UNCHANGED vars => Safe'
<1> SUFFICES ASSUME Safe, UNCHANGED vars PROVE Safe'
  OBVIOUS
<1>1. TypeOK'
  BY DEF Safe, TypeOK, vars
<1>2. QED
  BY <1>1 DEF Safe, HandlersSound, AbsentIsEmpty, OwnerKept, vars

LEMMA Safety == Spec => []Safe
<1>1. Safe /\ [Next]_vars => Safe'
  BY SafeAfterStep, SafeUnchanged DEF Next
<1>2. QED  BY <1>1, SafeInitially, PTL DEF Spec

\* Type correctness of the organization handlers and of their tables, whichever
\* the adapter and whatever fails.
THEOREM OrganizationsTypeCorrect == Spec => []TypeOK
<1>1. Safe => TypeOK
  BY DEF Safe
<1>2. QED  BY <1>1, Safety, PTL

\* removeMember never marks the owner recorded in the org, on either adapter and
\* whatever other handlers do between its check and its write.
THEOREM OwnerCannotBeRemoved == Spec => []OwnerIsNotRemoved
<1>1. Safe => OwnerIsNotRemoved
  BY DEF Safe, OwnerKept, OwnerIsNotRemoved, Live
<1>2. QED  BY <1>1, Safety, PTL

\* A removed membership does not become active in one step: the UPDATE of
\* acceptInvite applies to invited rows only, and the owner's INSERT, which comes
\* after the org's on DynamoDB, finds no removed row.
THEOREM RemovedNeedsInvite == Spec => RemovedStaysOut
<1> DEFINE Out == \A o \in OrgIds, u \in Users :
                    members[o][u].status = "removed" =>
                      members'[o][u].status # "active"
<1>1. Safe /\ [Next]_vars => Out
  <2> SUFFICES ASSUME Safe, [Next]_vars PROVE Out
    OBVIOUS
  <2>1. ASSUME NEW h \in Handlers, HandlerStep(h) PROVE Out
    BY <2>1, MemberSteps
  <2>2. CASE UNCHANGED members
    BY <2>2
  <2>3. QED  BY <2>1, <2>2 DEF Next, vars
<1>2. QED  BY <1>1, Safety, PTL DEF Spec, RemovedStaysOut

-----------------------------------------------------------------------------
(* Postgres.                                                               *)

\* "Creates an org with a unique slug": the unique index of Postgres refuses the
\* slug that another request took between uniqueSlug's read and the INSERT.
THEOREM SlugsStayUnique ==
  ASSUME Postgres
  PROVE  Spec => []SlugsAreUnique
<1>1. Init => SlugsAreUnique
  BY InitialOrgsAssumption DEF Init, SlugsAreUnique, Live
<1>2. Safe /\ SlugsAreUnique /\ [Next]_vars => SlugsAreUnique'
  <2> SUFFICES ASSUME Safe, SlugsAreUnique, [Next]_vars
               PROVE  SlugsAreUnique'
    OBVIOUS
  <2>t. orgs \in [OrgIds -> OrgRow]
    BY DEF Safe, TypeOK
  <2>1. ASSUME NEW h \in Handlers, InsertOrg(h), ~ UNCHANGED orgs
        PROVE  SlugsAreUnique'
    <3>1. PICK o \in OrgIds : PutOrg(h, o) /\ handler[h].slug \notin Taken
      BY <2>1 DEF InsertOrg
    <3>2. \A p \in OrgIds : Live(p) => orgs[p].slug # handler[h].slug
      BY <3>1 DEF Taken
    <3>3. orgs'[o].slug = handler[h].slug
      BY <2>t, <3>1 DEF PutOrg, NewOrg
    <3>4. \A p \in OrgIds \ {o} : orgs'[p] = orgs[p]
      BY <2>t, <3>1 DEF PutOrg
    <3>5. QED  BY <3>2, <3>3, <3>4 DEF SlugsAreUnique, Live
  <2>2. ASSUME NEW h \in Handlers, DeleteOrgRow(h)
        PROVE  SlugsAreUnique'
    <3>1. \A p \in OrgIds : orgs'[p].status = "live" =>
            orgs[p].status = "live" /\ orgs'[p].slug = orgs[p].slug
      BY <2>t, <2>2 DEF DeleteOrgRow
    <3>2. QED  BY <3>1 DEF SlugsAreUnique, Live
  <2>3. CASE UNCHANGED orgs
    BY <2>3 DEF SlugsAreUnique, Live
  <2>4. ASSUME NEW h \in Handlers, HandlerStep(h)
        PROVE  SlugsAreUnique'
    BY <2>1, <2>2, <2>3, <2>4
    DEF HandlerStep, BeginCreate, BeginPersonal, ReadSlugs, InsertOwner,
        BeginManage, OrgNotFound, vars, Accept, CheckActor, PutMember, PutInvite,
        MarkRemoved, DropInvite, ListKits, EndRefused, DeleteAllRows, QueryRows,
        DeleteRow, RowsDeleted, BeginTransfer, CheckTransfer, TransferKit,
        HandlerFails
  <2>5. QED  BY <2>3, <2>4 DEF Next, vars
<1>3. QED  BY <1>1, <1>2, Safety, PTL DEF Spec

\* An org whose owner has no row is about to be deleted.
RowUntilTheEnd ==
  \A o \in OrgIds :
    Live(o) /\ members[o][orgs[o].owner].status = "absent" =>
      \E h \in Handlers : At(h, "org") /\ handler[h].org = o

\* Postgres finds no rows to delete one by one.
NoRowByRow == \A h \in Handlers : handler[h].pc \notin {"membersLeft", "invitesLeft"}

LEMMA StaysAllRows ==
  ASSUME Postgres, Safe, NoRowByRow, NEW h \in Handlers, HandlerStep(h)
  PROVE  handler'[h].pc \notin {"membersLeft", "invitesLeft"}
<1> DEFINE Left == {"membersLeft", "invitesLeft"}
<1>f. handler \in [Handlers -> HandlerState]
  BY DEF Safe, TypeOK
<1>n. handler[h].pc \notin Left
  BY DEF NoRowByRow
<1>1. ASSUME NEW pc \in Statements \ Left, Goto(h, pc)
      PROVE  handler'[h].pc \notin Left
  BY <1>1, <1>f, GoingTo DEF Safe
<1>2. CASE Done(h)
  BY <1>2, <1>f DEF Done, NoHandler
<1>3. CASE \/ \E u \in Users : BeginCreate(h, u) \/ BeginPersonal(h, u)
           \/ \E op, o, u, r : BeginManage(h, op, o, u, r)
           \/ \E o \in OrgIds, u \in Users : Accept(h, o, u)
           \/ \E k \in Kits, u \in Users, o \in OrgIds : BeginTransfer(h, k, u, o)
  BY <1>3, <1>f
  DEF BeginCreate, BeginPersonal, BeginManage, Accept, BeginTransfer, NoHandler
<1>4. CASE ReadSlugs(h) \/ (InsertOrg(h) /\ ~ Done(h))
  BY <1>4, <1>f DEF ReadSlugs, InsertOrg, HandlerState
<1>5. CASE CheckActor(h) /\ ~ Done(h)
  <2>1. AfterCheck(h) \in Statements \ Left /\ Goto(h, AfterCheck(h))
    BY <1>5 DEF CheckActor, AfterCheck, Statements
  <2>2. QED  BY <1>1, <2>1
<1>6. CASE PutMember(h) \/ MarkRemoved(h) \/ ListKits(h)
  <2>1. PICK pc \in {"putInvite", "dropInvite", "refused", "invites", "members"} :
          Goto(h, pc)
    BY <1>6 DEF PutMember, MarkRemoved, ListKits
  <2>2. QED  BY <1>1, <2>1 DEF Statements
<1>7. ASSUME NEW part \in {"members", "invites"}, DeleteAllRows(h, part)
      PROVE  handler'[h].pc \notin Left
  <2>1. AfterRows(part) \in {"members", "invites", "org"} /\ Goto(h, AfterRows(part))
    BY <1>7 DEF DeleteAllRows, AfterRows
  <2>2. QED  BY <1>1, <2>1 DEF Statements
<1>8. CASE CheckTransfer(h) /\ ~ Done(h)
  <2>1. PICK pc \in {"target", "targetMember", "transfer"} : Goto(h, pc)
    BY <1>8 DEF CheckTransfer
  <2>2. QED  BY <1>1, <2>1 DEF Statements
<1>9. CASE UNCHANGED vars
  BY <1>9, <1>n DEF vars
<1>10. QED
  BY <1>2, <1>3, <1>4, <1>5, <1>6, <1>7, <1>8, <1>9, <1>n
  DEF HandlerStep, InsertOwner, PutInvite, DropInvite, EndRefused, QueryRows,
      DeleteRow, RowsDeleted, DeleteOrgRow, TransferKit, HandlerFails,
      OrgNotFound, At

LEMMA OnlyDeleteErases ==
  ASSUME Postgres, Safe, NoRowByRow, NEW h \in Handlers, HandlerStep(h),
         ~ DeleteAllRows(h, "members"),
         NEW o \in OrgIds, NEW u \in Users, members'[o][u].status = "absent"
  PROVE  members[o][u].status = "absent"
<1>m. members \in [OrgIds -> [Users -> MemberRow]]
  BY DEF Safe, TypeOK
<1>1. ASSUME NEW p, NEW v, PutOwner(p, v)
      PROVE  members[o][u].status = "absent"
  BY <1>1, <1>m DEF PutOwner, OwnerMember
<1>2. ASSUME NEW p \in OrgIds, NEW v \in Users, Accept(h, p, v)
      PROVE  members[o][u].status = "absent"
  BY <1>2, <1>m DEF Accept, MemberRow
<1>3. CASE PutMember(h)
  BY <1>3, <1>m DEF PutMember, Invited
<1>4. CASE MarkRemoved(h)
  BY <1>4, <1>m DEF MarkRemoved, MemberRow
<1>5. CASE UNCHANGED members
  BY <1>5
<1>6. ~ \E v \in Users : DeleteRow(h, v)
  BY DEF DeleteRow, NoRowByRow, At
<1>7. QED
  BY <1>1, <1>2, <1>3, <1>4, <1>5, <1>6
  DEF HandlerStep, BeginCreate, BeginPersonal, ReadSlugs, InsertOrg,
      InsertOwner, BeginManage, OrgNotFound, vars, CheckActor, PutInvite,
      DropInvite, ListKits, EndRefused, DeleteAllRows, QueryRows, RowsDeleted,
      DeleteOrgRow, BeginTransfer, CheckTransfer, TransferKit, HandlerFails

LEMMA NothingFails ==
  ASSUME MaxFaults = 0, Safe, NEW h \in Handlers
  PROVE  ~ HandlerFails(h)
BY DEF Safe, TypeOK, HandlerFails, Fault

\* A live org was live before, and h was not about to delete it, unless InsertOrg
\* has just created it.
LEMMA LiveBefore ==
  ASSUME Postgres, MaxFaults = 0, Safe, NEW h \in Handlers, HandlerStep(h),
         NEW o \in OrgIds, orgs'[o].status = "live"
  PROVE  \/ Live(o) /\ ~ (At(h, "org") /\ handler[h].org = o)
         \/ InsertOrg(h) /\ PutOrg(h, o) /\ PutOwner(o, handler[h].user)
<1>t. orgs \in [OrgIds -> OrgRow]
  BY DEF Safe, TypeOK
<1>1. CASE InsertOrg(h)
  <2>1. CASE UNCHANGED orgs
    BY <1>1, <2>1 DEF InsertOrg, Live, At
  <2>2. ASSUME NEW p \in OrgIds, PutOrg(h, p), PutOwner(p, handler[h].user), p # o
        PROVE  Live(o) /\ ~ At(h, "org")
    BY <1>1, <1>t, <2>2 DEF InsertOrg, PutOrg, Live, At
  <2>3. QED  BY <1>1, <2>1, <2>2 DEF InsertOrg
<1>2. CASE DeleteOrgRow(h)
  BY <1>2, <1>t DEF DeleteOrgRow, Live
<1>3. CASE UNCHANGED orgs /\ ~ At(h, "org")
  BY <1>3 DEF Live
<1>4. CASE UNCHANGED vars /\ \E p \in OrgIds : OrgNotFound(h, p)
  BY <1>4 DEF vars, OrgNotFound, At, Live
<1>5. QED
  BY <1>1, <1>2, <1>3, <1>4, NothingFails
  DEF HandlerStep, BeginCreate, BeginPersonal, ReadSlugs, InsertOwner,
      BeginManage, OrgNotFound, Accept, CheckActor, PutMember, PutInvite,
      MarkRemoved, DropInvite, ListKits, EndRefused, DeleteAllRows, QueryRows,
      DeleteRow, RowsDeleted, BeginTransfer, CheckTransfer, TransferKit, At

LEMMA RowUntilTheEndStep ==
  ASSUME Postgres, MaxFaults = 0, Safe, NoRowByRow, RowUntilTheEnd,
         NEW h \in Handlers, HandlerStep(h)
  PROVE  RowUntilTheEnd'
<1> SUFFICES ASSUME NEW o \in OrgIds, Live(o)',
                    members'[o][orgs'[o].owner].status = "absent"
             PROVE  \E g \in Handlers : At(g, "org")' /\ handler'[g].org = o
  BY DEF RowUntilTheEnd
<1>s. TypeOK /\ HandlersSound /\ OwnerKept
  BY DEF Safe
<1>1. CASE Live(o) /\ ~ (At(h, "org") /\ handler[h].org = o)
  <2> DEFINE owner == orgs[o].owner
  <2>1. orgs'[o].owner = owner /\ owner \in Users
    BY <1>1, <1>s, StepKeepsRows DEF RowsKept, OwnerKept, Live
  <2>2. CASE members[o][owner].status = "absent"
    <3>1. PICK g \in Handlers : At(g, "org") /\ handler[g].org = o
      BY <1>1, <2>2 DEF RowUntilTheEnd
    <3>2. handler'[g] = handler[g]
      BY <1>1, <1>s, <3>1, StepIsLocal
    <3>3. QED  BY <3>1, <3>2 DEF At
  <2>3. CASE members[o][owner].status # "absent"
    <3>1. DeleteAllRows(h, "members")
      BY <2>1, <2>3, OnlyDeleteErases
    <3>2. handler[h].org = o
      BY <1>s, <2>1, <2>3, <3>1 DEF DeleteAllRows, EraseMembers, TypeOK
    <3>3. Goto(h, "org")
      BY <3>1 DEF DeleteAllRows, AfterRows
    <3>4. handler'[h].pc = "org" /\ handler'[h].org = o
      BY <1>s, <3>2, <3>3, GoingTo DEF TypeOK, SameRequest, Statements
    <3>5. QED  BY <3>4 DEF At
  <2>4. QED  BY <2>2, <2>3
<1>2. CASE InsertOrg(h) /\ PutOrg(h, o) /\ PutOwner(o, handler[h].user)
  <2>1. handler[h].user \in Users
    BY <1>2, <1>s DEF InsertOrg, At, HandlersSound, HandlerSound, UserGiven
  <2>2. orgs'[o].owner = handler[h].user
    BY <1>2, <1>s DEF PutOrg, NewOrg, TypeOK
  <2>3. QED
    BY <1>2, <1>s, <2>1, <2>2 DEF PutOwner, OwnerMember, TypeOK
<1>3. QED  BY <1>1, <1>2, LiveBefore DEF Live

\* createOrg gives an org its owner's membership, and on Postgres the owner keeps
\* a row until a deleteOrg that is under way has erased the memberships, as long
\* as no handler fails.
THEOREM OwnerKeepsRow ==
  ASSUME Postgres, MaxFaults = 0
  PROVE  Spec => []OwnerHasRow
<1> DEFINE Kept == NoRowByRow /\ RowUntilTheEnd
<1>1. Init => Kept
  BY InitialOrgsAssumption
  DEF Init, NoRowByRow, RowUntilTheEnd, NoHandler, Live, OwnerMember
<1>2. Safe /\ Kept /\ [Next]_vars => Kept'
  <2> SUFFICES ASSUME Safe, Kept, [Next]_vars PROVE Kept'
    OBVIOUS
  <2>1. ASSUME NEW h \in Handlers, HandlerStep(h) PROVE Kept'
    <3>1. NoRowByRow'
      BY <2>1, StaysAllRows, StepIsLocal DEF Safe, NoRowByRow
    <3>2. QED  BY <2>1, <3>1, RowUntilTheEndStep
  <2>2. CASE UNCHANGED <<orgs, members, handler>>
    BY <2>2 DEF NoRowByRow, RowUntilTheEnd, Live, At
  <2>3. QED  BY <2>1, <2>2 DEF Next, vars
<1>3. Safe /\ Kept => OwnerHasRow
  BY
  DEF Safe, HandlersSound, HandlerSound, Deleting, RowUntilTheEnd, OwnerHasRow,
      At
<1>4. QED  BY <1>1, <1>2, <1>3, Safety, PTL DEF Spec

-----------------------------------------------------------------------------
(* deleteOrg.  Requests come while an org is being deleted, and nothing    *)
(* keeps them from writing rows of it: what is shown is that deleteOrg     *)
(* itself forgets none.                                                    *)

\* The statements of deleteOrg.
Emptying == {"members", "membersLeft", "invites", "invitesLeft", "org"}

DeletingStep(h) ==
  \/ RowsDeleted(h)
  \/ \E part \in {"members", "invites"} : DeleteAllRows(h, part) \/ QueryRows(h, part)
  \/ \E u \in Users : DeleteRow(h, u)

\* Statements at which nothing of an org has been deleted.
Unaware ==
  {"idle", "slug", "insertOrg", "insertOwner", "actor", "putMember", "putInvite",
   "markRemoved", "dropInvite", "listKits", "refused", "source", "target",
   "targetMember", "transfer"}

\* The steps that lead to a statement of deleteOrg.
LEMMA Moves ==
  ASSUME Safe, NEW h \in Handlers, HandlerStep(h)
  PROVE  \/ handler'[h].pc \in Unaware
         \/ ListKits(h) \/ DeletingStep(h)
         \/ UNCHANGED vars
<1>f. handler \in [Handlers -> HandlerState]
  BY DEF Safe, TypeOK
<1>1. ASSUME NEW pc \in Statements, Goto(h, pc)
      PROVE  handler'[h].pc = pc
  BY <1>1, <1>f, GoingTo DEF Safe
<1>2. CASE Done(h)
  BY <1>2, <1>f DEF Done, NoHandler, Unaware
<1>3. CASE \/ \E u \in Users : BeginCreate(h, u) \/ BeginPersonal(h, u)
           \/ \E op, o, u, r : BeginManage(h, op, o, u, r)
           \/ \E o \in OrgIds, u \in Users : Accept(h, o, u)
           \/ \E k \in Kits, u \in Users, o \in OrgIds : BeginTransfer(h, k, u, o)
  BY <1>3, <1>f
  DEF BeginCreate, BeginPersonal, BeginManage, Accept, BeginTransfer, NoHandler, Unaware
<1>4. CASE ReadSlugs(h) \/ (InsertOrg(h) /\ ~ Done(h))
  BY <1>4, <1>f DEF ReadSlugs, InsertOrg, HandlerState, Unaware
<1>5. CASE CheckActor(h) /\ ~ Done(h)
  <2>1. AfterCheck(h) \in {"putMember", "markRemoved", "listKits", "idle"}
    BY DEF AfterCheck
  <2>2. Goto(h, AfterCheck(h))
    BY <1>5 DEF CheckActor
  <2>3. QED  BY <1>1, <2>1, <2>2 DEF Statements, Unaware
<1>6. CASE PutMember(h) \/ MarkRemoved(h)
  BY <1>1, <1>6 DEF PutMember, MarkRemoved, Statements, Unaware
<1>7. CASE CheckTransfer(h) /\ ~ Done(h)
  <2>1. PICK pc \in {"target", "targetMember", "transfer"} : Goto(h, pc)
    BY <1>7 DEF CheckTransfer
  <2>2. QED  BY <1>1, <2>1 DEF Statements, Unaware
<1>8. QED
  BY <1>2, <1>3, <1>4, <1>5, <1>6, <1>7
  DEF HandlerStep, DeletingStep, InsertOwner, PutInvite, DropInvite, EndRefused,
      DeleteOrgRow, TransferKit, HandlerFails, OrgNotFound

\* Who writes the organizations.
LEMMA OrgWrites ==
  ASSUME NEW h \in Handlers, HandlerStep(h)
  PROVE  UNCHANGED orgs \/ InsertOrg(h) \/ DeleteOrgRow(h)
BY DEF HandlerStep, BeginCreate, BeginPersonal, ReadSlugs, InsertOwner, BeginManage,
   OrgNotFound, vars, Accept, CheckActor, PutMember, PutInvite, MarkRemoved,
   DropInvite, ListKits, EndRefused, DeleteAllRows, QueryRows, DeleteRow,
   RowsDeleted, BeginTransfer, CheckTransfer, TransferKit, HandlerFails

\* A statement of deleteOrg before the last keeps the request and the late rows.
LEMMA EmptyingSteps ==
  ASSUME Safe, NEW h \in Handlers, DeletingStep(h)
  PROVE  /\ handler[h].pc \in Emptying /\ handler'[h].pc \in Emptying
         /\ SameRequest(handler[h], handler'[h]) /\ UNCHANGED late
<1> DEFINE Good == /\ handler[h].pc \in Emptying /\ handler'[h].pc \in Emptying
                   /\ SameRequest(handler[h], handler'[h]) /\ UNCHANGED late
<1>f. handler \in [Handlers -> HandlerState]
  BY DEF Safe, TypeOK
<1>1. ASSUME NEW pc \in Emptying, Goto(h, pc)
      PROVE  handler'[h].pc = pc /\ SameRequest(handler[h], handler'[h])
  BY <1>1, <1>f, GoingTo DEF Safe, Emptying, Statements
<1>2. CASE RowsDeleted(h)
  BY <1>1, <1>2 DEF RowsDeleted, AfterRows, At, Emptying
<1>3. ASSUME NEW part \in {"members", "invites"}, DeleteAllRows(h, part)
      PROVE  Good
  BY <1>1, <1>3 DEF DeleteAllRows, AfterRows, At, Emptying
<1>4. ASSUME NEW part \in {"members", "invites"}, QueryRows(h, part)
      PROVE  Good
  BY <1>f, <1>4 DEF QueryRows, At, Emptying, SameRequest, HandlerState
<1>5. ASSUME NEW u \in Users, DeleteRow(h, u)
      PROVE  Good
  BY <1>f, <1>5 DEF DeleteRow, At, Emptying, SameRequest, HandlerState
<1>6. QED  BY <1>2, <1>3, <1>4, <1>5 DEF DeletingStep

Late(o) == {u \in Users : <<o, u>> \in late}

\* While an org is being deleted and after it, only late rows are added to it.
LEMMA GrowthIsLate ==
  ASSUME Safe, NEW h \in Handlers, HandlerStep(h), NEW o \in OrgIds, BeingDeleted(o)
  PROVE  /\ Late(o) \subseteq Late(o)'
         /\ MembersOf(o)' \subseteq MembersOf(o) \cup Late(o)'
         /\ InvitedTo(o)' \subseteq InvitedTo(o) \cup Late(o)'
<1> DEFINE r == handler[h]
<1>t. /\ TypeOK /\ HandlersSound /\ HandlerSound(r, orgs) /\ r \in HandlerState
      /\ members \in [OrgIds -> [Users -> MemberRow]]
  BY DEF Safe, TypeOK, HandlersSound
<1>p. orgs[o].status # "absent"
  <2>1. CASE orgs[o].status = "deleted"
    BY <2>1
  <2>2. ASSUME NEW g \in Handlers, handler[g].org = o,
               handler[g].pc \in {"members", "membersLeft", "invites", "invitesLeft", "org"}
        PROVE  orgs[o].status # "absent"
    BY <1>t, <2>2 DEF HandlersSound, HandlerSound, OrgFound
  <2>3. QED  BY <2>1, <2>2 DEF BeingDeleted
<1>n. ASSUME NEW u, NoteLate(r.org, u)
      PROVE  late \subseteq late' /\ (r.org = o => <<o, u>> \in late')
  BY <1>n DEF NoteLate
<1>1. Late(o) \subseteq Late(o)'
  <2>1. late \subseteq late'
    BY <1>n, LateWrites DEF InsertOwner, PutMember, PutInvite
  <2>2. QED  BY <2>1 DEF Late
<1>2. MembersOf(o)' \subseteq MembersOf(o) \cup Late(o)'
  <2> SUFFICES ASSUME NEW u \in Users, members'[o][u].role # "none"
               PROVE  members[o][u].role # "none" \/ <<o, u>> \in late'
    BY DEF MembersOf, Late
  <2>1. CASE InsertOrg(h) /\ ~ UNCHANGED members
    <3>1. PICK q \in OrgIds : orgs[q].status = "absent" /\ PutOwner(q, r.user)
      BY <2>1 DEF InsertOrg
    <3>2. QED  BY <1>p, <1>t, <3>1 DEF PutOwner
  <2>2. CASE InsertOwner(h)
    <3>1. CASE r.org = o /\ r.user = u
      BY <1>n, <2>2, <3>1 DEF InsertOwner
    <3>2. CASE ~ (r.org = o /\ r.user = u)
      <4>1. members'[o][u] = members[o][u]
        BY <1>t, <2>2, <3>2 DEF InsertOwner, PutOwner
      <4>2. QED  BY <4>1
    <3>3. QED  BY <3>1, <3>2
  <2>3. CASE PutMember(h)
    <3>1. CASE r.org = o /\ r.user = u
      BY <1>n, <2>3, <3>1 DEF PutMember
    <3>2. CASE ~ (r.org = o /\ r.user = u)
      <4>1. members'[o][u] = members[o][u]
        BY <1>t, <2>3, <3>2 DEF PutMember
      <4>2. QED  BY <4>1
    <3>3. QED  BY <3>1, <3>2
  <2>4. CASE MarkRemoved(h)
    <3>1. members'[o][u].role = members[o][u].role
      <4>1. CASE r.org = o /\ r.user = u
        <5>1. \/ members'[o][u] = members[o][u]
              \/ members'[o][u] = [members[o][u] EXCEPT !.status = "removed"]
          BY <1>t, <2>4, <4>1 DEF MarkRemoved
        <5>2. members[o][u] \in MemberRow
          BY <1>t
        <5>3. QED  BY <5>1, <5>2 DEF MemberRow
      <4>2. CASE ~ (r.org = o /\ r.user = u)
        BY <1>t, <2>4, <4>2 DEF MarkRemoved
      <4>3. QED  BY <4>1, <4>2
    <3>2. QED  BY <3>1
  <2>5. ASSUME NEW q \in OrgIds, NEW v \in Users, Accept(h, q, v)
        PROVE  members'[o][u].role = members[o][u].role
    <3>1. CASE q = o /\ v = u
      <4>1. members'[o][u] = [members[o][u] EXCEPT !.status = "active"]
        BY <1>t, <2>5, <3>1 DEF Accept
      <4>2. members[o][u] \in MemberRow
        BY <1>t
      <4>3. QED  BY <4>1, <4>2 DEF MemberRow
    <3>2. CASE ~ (q = o /\ v = u)
      BY <1>t, <2>5, <3>2 DEF Accept
    <3>3. QED  BY <3>1, <3>2
  <2>6. ASSUME NEW q, NEW us, EraseMembers(q, us)
        PROVE  members[o][u].role # "none"
    BY <1>t, <2>6 DEF EraseMembers, NoMember
  <2>7. CASE UNCHANGED members
    BY <2>7
  <2>8. QED
    BY <2>1, <2>2, <2>3, <2>4, <2>5, <2>6, <2>7
    DEF HandlerStep, BeginCreate, BeginPersonal, ReadSlugs, BeginManage,
        OrgNotFound, vars, CheckActor, PutInvite, DropInvite, ListKits, EndRefused,
        DeleteAllRows, QueryRows, DeleteRow, RowsDeleted, DeleteOrgRow,
        BeginTransfer, CheckTransfer, TransferKit, HandlerFails
<1>3. InvitedTo(o)' \subseteq InvitedTo(o) \cup Late(o)'
  <2> SUFFICES ASSUME NEW u \in Users, <<o, u>> \in invites'
               PROVE  <<o, u>> \in invites \/ <<o, u>> \in late'
    BY DEF InvitedTo, Late
  <2>1. CASE PutInvite(h)
    BY <1>n, <2>1 DEF PutInvite
  <2>2. CASE invites' \subseteq invites
    BY <2>2
  <2>3. QED
    BY <2>1, <2>2
    DEF HandlerStep, BeginCreate, BeginPersonal, ReadSlugs, InsertOrg, InsertOwner,
        BeginManage, OrgNotFound, vars, Accept, CheckActor, PutMember, MarkRemoved,
        DropInvite, ListKits, EndRefused, DeleteAllRows, QueryRows, DeleteRow,
        EraseInvites, RowsDeleted, DeleteOrgRow, BeginTransfer, CheckTransfer,
        TransferKit, HandlerFails
<1>4. QED  BY <1>1, <1>2, <1>3

\* What is left of the org a handler deletes, late rows apart.
Left(r) ==
  /\ r.pc \in {"membersLeft", "invitesLeft"} => ~Postgres
  /\ r.pc = "membersLeft" => MembersOf(r.org) \subseteq r.left \cup Late(r.org)
  /\ r.pc = "invitesLeft" => InvitedTo(r.org) \subseteq r.left \cup Late(r.org)
  /\ r.pc \in {"invites", "invitesLeft"} /\ ~Postgres => MembersOf(r.org) \subseteq Late(r.org)
  /\ r.pc = "members" /\ Postgres => InvitedTo(r.org) \subseteq Late(r.org)
  /\ r.pc = "org" => /\ MembersOf(r.org) \subseteq Late(r.org)
                     /\ InvitedTo(r.org) \subseteq Late(r.org)

DeletedLeaveLate ==
  \A o \in OrgIds : orgs[o].status = "deleted" =>
    MembersOf(o) \subseteq Late(o) /\ InvitedTo(o) \subseteq Late(o)

Emptied == DeletedLeaveLate /\ \A h \in Handlers : Left(handler[h])

\* The statements of deleteOrg, one after the other.
LEMMA RowsLeft ==
  ASSUME Safe, NEW h \in Handlers, Left(handler[h]), DeletingStep(h)
  PROVE  Left(handler[h])'
<1> DEFINE r == handler[h]
           s == handler'[h]
<1>t. /\ members \in [OrgIds -> [Users -> MemberRow]] /\ r.org \in OrgIds
      /\ handler \in [Handlers -> HandlerState] /\ Left(r)
  <2>1. /\ r.pc \in Emptying /\ HandlerSound(r, orgs)
    BY EmptyingSteps DEF Safe, HandlersSound
  <2>2. QED  BY <2>1 DEF Safe, TypeOK, HandlerSound, Emptying, OrgFound
<1> PICK o \in OrgIds : o = handler[h].org
  BY <1>t
<1>e. s.org = o /\ UNCHANGED late
  BY EmptyingSteps DEF SameRequest
<1>l. Late(o)' = Late(o)
  BY <1>e DEF Late
<1>g. ASSUME NEW pc \in Emptying, Goto(h, pc)
      PROVE  s.pc = pc
  BY <1>g, <1>t, GoingTo DEF Safe, Emptying, Statements, SameRequest
<1>1. CASE RowsDeleted(h)
  BY <1>1, <1>e, <1>l, <1>g, <1>t
  DEF RowsDeleted, AfterRows, At, Emptying, Left, MembersOf, InvitedTo
<1>2. CASE DeleteAllRows(h, "members")
  <2>1. MembersOf(o)' = {} /\ UNCHANGED invites
    BY <1>2, <1>t DEF DeleteAllRows, At, EraseMembers, NoMember, MembersOf
  <2>2. InvitedTo(o)' \subseteq Late(o)'
    BY <1>2, <1>t, <1>l, <2>1 DEF DeleteAllRows, At, Left, InvitedTo
  <2>3. s.pc = "org"
    BY <1>2, <1>g DEF DeleteAllRows, AfterRows, Emptying
  <2>4. QED  BY <1>e, <2>1, <2>2, <2>3 DEF Left, MembersOf, InvitedTo, Late
<1>3. CASE DeleteAllRows(h, "invites")
  <2>1. InvitedTo(o)' = {}
    BY <1>3, <1>t DEF DeleteAllRows, EraseInvites, InvitedTo
  <2>2. s.pc = "members" /\ Postgres
    BY <1>3, <1>g DEF DeleteAllRows, AfterRows, Emptying
  <2>3. QED  BY <1>e, <2>1, <2>2 DEF Left, InvitedTo
<1>4. CASE QueryRows(h, "members") \/ QueryRows(h, "invites")
  <2>1. /\ ~Postgres /\ UNCHANGED <<members, invites>>
        /\ \/ s.pc = "membersLeft" /\ s.left = MembersOf(o)
           \/ /\ s.pc = "invitesLeft" /\ s.left = InvitedTo(o)
              /\ r.pc = "invites"
    BY <1>4, <1>t DEF QueryRows, At, HandlerState
  <2>2. QED  BY <1>e, <1>l, <1>t, <2>1 DEF Left, MembersOf, InvitedTo, Late
<1>5. ASSUME NEW u \in Users, DeleteRow(h, u)
      PROVE  Left(handler[h])'
  <2>1. s.pc = r.pc /\ s.left = r.left \ {u}
    BY <1>5, <1>t DEF DeleteRow, HandlerState
  <2>2. CASE r.pc = "membersLeft"
    <3>1. EraseMembers(r.org, {u})
      BY <1>5, <2>2 DEF DeleteRow, At
    <3>2. MembersOf(o)' \subseteq s.left \cup Late(o)
      BY <1>t, <2>1, <2>2, <3>1 DEF EraseMembers, NoMember, MembersOf, Left
    <3>3. QED  BY <1>e, <1>l, <1>t, <2>1, <2>2, <3>2 DEF Left, MembersOf, Late
  <2>3. CASE r.pc = "invitesLeft"
    <3>1. EraseInvites(r.org, {u}) /\ UNCHANGED members
      BY <1>5, <2>3 DEF DeleteRow, At
    <3>2. InvitedTo(o)' \subseteq s.left \cup Late(o)
      BY <1>t, <2>1, <2>3, <3>1 DEF EraseInvites, InvitedTo, Left
    <3>3. QED
      BY <1>e, <1>l, <1>t, <2>1, <2>3, <3>1, <3>2 DEF Left, MembersOf, InvitedTo, Late
  <2>4. QED  BY <1>5, <2>2, <2>3 DEF DeleteRow, At
<1>6. QED  BY <1>1, <1>2, <1>3, <1>4, <1>5 DEF DeletingStep

LEMMA EmptiedStays ==
  ASSUME Safe, Emptied, NEW h \in Handlers, HandlerStep(h)
  PROVE  Emptied'
<1>t. /\ TypeOK /\ HandlersSound /\ DeletedLeaveLate
      /\ handler \in [Handlers -> HandlerState] /\ orgs \in [OrgIds -> OrgRow]
  BY DEF Safe, TypeOK, Emptied
<1>1. DeletedLeaveLate'
  <2> SUFFICES ASSUME NEW o \in OrgIds, orgs'[o].status = "deleted"
               PROVE  MembersOf(o)' \subseteq Late(o)' /\ InvitedTo(o)' \subseteq Late(o)'
    BY DEF DeletedLeaveLate
  <2>1. CASE orgs[o].status = "deleted"
    <3>1. MembersOf(o) \subseteq Late(o) /\ InvitedTo(o) \subseteq Late(o)
      BY <1>t, <2>1 DEF DeletedLeaveLate
    <3>2. BeingDeleted(o)
      BY <2>1 DEF BeingDeleted
    <3>3. QED  BY <3>1, <3>2, GrowthIsLate
  <2>2. CASE orgs[o].status # "deleted"
    <3>1. DeleteOrgRow(h) /\ handler[h].org = o
      <4>1. ~ InsertOrg(h) /\ ~ UNCHANGED orgs
        BY <1>t, <2>2 DEF InsertOrg, PutOrg, NewOrg
      <4>2. QED  BY <1>t, <2>2, <4>1, OrgWrites DEF DeleteOrgRow
    <3>2. MembersOf(o) \subseteq Late(o) /\ InvitedTo(o) \subseteq Late(o)
      BY <3>1 DEF DeleteOrgRow, At, Left, Emptied
    <3>3. QED  BY <3>1, <3>2 DEF DeleteOrgRow, MembersOf, InvitedTo, Late
  <2>3. QED  BY <2>1, <2>2
<1>2. ASSUME NEW g \in Handlers, g # h
      PROVE  Left(handler[g])'
  <2>1. handler'[g] = handler[g] /\ Left(handler[g])
    BY <1>t, <1>2, StepIsLocal DEF Emptied
  <2>2. CASE handler[g].pc \notin Emptying
    BY <2>1, <2>2 DEF Left, Emptying
  <2>3. CASE handler[g].pc \in Emptying
    <3>1. PICK o \in OrgIds : o = handler[g].org
      BY <1>t, <2>3 DEF HandlersSound, HandlerSound, Emptying, OrgFound
    <3>2. BeingDeleted(o)
      BY <2>3, <3>1 DEF BeingDeleted, Emptying
    <3>3. /\ Late(o) \subseteq Late(o)'
          /\ MembersOf(o)' \subseteq MembersOf(o) \cup Late(o)'
          /\ InvitedTo(o)' \subseteq InvitedTo(o) \cup Late(o)'
      BY <3>2, GrowthIsLate
    <3>4. /\ MembersOf(handler[g].org)' = MembersOf(o)'
          /\ InvitedTo(handler[g].org)' = InvitedTo(o)'
          /\ Late(handler[g].org)' = Late(o)'
      BY <2>1, <3>1 DEF MembersOf, InvitedTo, Late
    <3>5. QED  BY <2>1, <3>1, <3>3, <3>4 DEF Left
  <2>4. QED  BY <2>2, <2>3
<1>3. Left(handler[h])'
  <2>1. CASE handler'[h].pc \in Unaware
    BY <2>1 DEF Left, Unaware
  <2>2. CASE ListKits(h)
    <3>1. PICK pc \in {"refused", IF Postgres THEN "invites" ELSE "members"} : Goto(h, pc)
      BY <2>2 DEF ListKits
    <3>2. handler'[h].pc = pc
      BY <1>t, <3>1, GoingTo DEF Statements
    <3>3. QED  BY <3>1, <3>2 DEF Left
  <2>3. CASE DeletingStep(h)
    BY <2>3, RowsLeft DEF Emptied
  <2>4. CASE UNCHANGED vars
    BY <2>4 DEF vars, Left, MembersOf, InvitedTo, Late, Emptied
  <2>5. QED  BY <2>1, <2>2, <2>3, <2>4, Moves
<1>4. QED  BY <1>1, <1>2, <1>3 DEF Emptied

\* "Hard-deletes an org and all its memberships + invites": in either adapter's
\* order of statements, whatever fails and whatever other requests do meanwhile,
\* the row of the org goes only when every membership and every invite is gone
\* that was there when deleteOrg began; what is left was written since.
THEOREM DeletedOrgsAreEmpty == Spec => []DeletionIsComplete
<1>1. Init /\ Safe => Emptied
  <2> SUFFICES ASSUME Init, Safe PROVE Emptied
    OBVIOUS
  <2>1. ASSUME NEW o \in OrgIds, orgs[o].status = "deleted"
        PROVE  MembersOf(o) = {} /\ InvitedTo(o) = {}
    BY <2>1 DEF Init, MembersOf, InvitedTo, NoMember
  <2>2. QED  BY <2>1 DEF Init, Emptied, DeletedLeaveLate, Left, NoHandler
<1>2. Safe /\ Emptied /\ [Next]_vars => Emptied'
  <2> SUFFICES ASSUME Safe, Emptied, [Next]_vars PROVE Emptied'
    OBVIOUS
  <2>1. CASE UNCHANGED vars
    BY <2>1 DEF vars, Emptied, DeletedLeaveLate, Left, MembersOf, InvitedTo, Late
  <2>2. QED  BY <2>1, EmptiedStays DEF Next
<1>3. Emptied => DeletionIsComplete
  BY DEF Emptied, DeletedLeaveLate, DeletionIsComplete, Late
<1>4. QED  BY <1>1, <1>2, <1>3, Safety, SafeInitially, PTL DEF Spec

=============================================================================
