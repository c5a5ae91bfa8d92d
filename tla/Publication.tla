----------------------------- MODULE Publication -----------------------------
(***************************************************************************)
(* From an approved submission to a kit in the catalog: the publish        *)
(* handler (publishAdminSubmission) with the publishSubmission of both     *)
(* adapters, and the operations of admins and owners on a kit that race    *)
(* with it.  Transactional says which adapter: Postgres writes kit,        *)
(* version and submission in one transaction; DynamoDB gets three          *)
(* independent writes under one Promise.all.  Postgres runs at READ        *)
(* COMMITTED and its SELECT takes no lock, so the kit row that is written  *)
(* back may be older than the one it replaces in either adapter.           *)
(***************************************************************************)
EXTENDS ReviewDesk, KitTable, FiniteSets

CONSTANTS
  Kits,
  Publishers,     \* publish requests served at the same time
  Transactional,  \* TRUE: Postgres, FALSE: DynamoDB
  KitOf,          \* the kit a submission creates or updates
  VersionOf,      \* its version
  Updates,        \* the version_update submissions; the others are new_kit
  PersonalOrg,    \* the personal org of the submitter
  Legacy,         \* kits in the catalog from before there were organizations
  LegacyPackage,  \* the package of their version 1
  TermsOffered,   \* the pricing an owner may set
  Visibilities    \* the visibility an owner may set

ASSUME KitOfAssumption == KitOf \in [Submissions -> Kits]
ASSUME VersionOfAssumption == VersionOf \in [Submissions -> 1 .. MaxVersion]
ASSUME UpdatesAssumption == Updates \subseteq Submissions
ASSUME LegacyAssumption == /\ Legacy \subseteq Kits
                           /\ LegacyPackage \in ValidPackages
                           /\ Legacy # {} => MaxVersion >= 1
ASSUME InputAssumption == /\ TermsOffered \subseteq Terms
                          /\ Visibilities \subseteq {"public", "private"}
ASSUME OrgAssumption == PersonalOrg \in Orgs

VARIABLES
  kits,          \* the kits table
  versions,      \* the kit_versions table: the sha256 of each version, ...
  packageS3Key,  \* ... and the submission whose object it points to (None: no
                 \* row, or a legacy version, whose object is out of reach)
  publisher      \* the publish handlers' local state

vars == <<submissions, submitted, uploaded, desk, faults, kits, versions,
          packageS3Key, publisher>>

catalog == <<kits, versions, packageS3Key>>

Versions == 1 .. MaxVersion
Parts == {"kit", "version", "submission"}

PublisherState ==
  [pc : {"idle", "target", "duplicate", "select", "write", "answered"},
   submission : Submissions \cup {None}, sha256 : Packages \cup {None},
   existing : KitRow,          \* the kit row publishSubmission read
   todo : SUBSET Parts,        \* writes of the Promise.all not yet settled
   ok : BOOLEAN]               \* none of them failed so far

NoPublisher ==
  [pc |-> "idle", submission |-> None, sha256 |-> None, existing |-> NoKit,
   todo |-> {}, ok |-> TRUE]

UnhideRequest == [op : {"unhide"}, target : Kits]

Init ==
  /\ ReviewInit
  /\ faults = 0
  /\ kits = [k \in Kits |-> IF k \in Legacy THEN LegacyKit ELSE NoKit]
  /\ versions = [k \in Kits |-> [v \in Versions |->
                   IF k \in Legacy /\ v = 1 THEN LegacyPackage ELSE None]]
  /\ packageS3Key = [k \in Kits |-> [v \in Versions |-> None]]
  /\ publisher = [h \in Publishers |-> NoPublisher]

-----------------------------------------------------------------------------
\* createSubmissionUploadUrl: a version update needs a kit and a version above
\* its current one.  Publishing repeats both checks, so that the reads and the
\* insert are one step here loses nothing but requests answered 409 later on.
\* The duplicate check forbids nothing, a request may ask to skip it
\* (allowDuplicate); a new kit gets an id of its own.
Submit(s) ==
  /\ s \in Updates => /\ Exists(kits[KitOf[s]])
                      /\ VersionOf[s] > kits[KitOf[s]].current
  /\ CreateSubmission(s)
  /\ UNCHANGED <<faults, catalog, publisher>>

-----------------------------------------------------------------------------
\* Mutant: publish looks at neither status.
ReadyUnchecked(row) == row \in SubmissionRow

Ready(row) == row.validationStatus = "passed" /\ row.reviewStatus = "approved"

\* publishAdminSubmission reads the submission; everything later works on this
\* copy.
BeginPublish(h, s) ==
  /\ publisher[h].pc = "idle"
  /\ s \in submitted
  /\ Ready(submissions[s])
  /\ publisher' =
       [publisher EXCEPT ![h] =
          [NoPublisher EXCEPT !.pc = IF s \in Updates THEN "target"
                                                      ELSE "duplicate",
                              !.submission = s,
                              !.sha256 = submissions[s].sha256]]
  /\ UNCHANGED <<reviewVars, faults, catalog>>

\* For a version update: getKit and the version check.  The owner check always
\* succeeds, createSubmissionUploadUrl accepts updates of the owner only.
CheckTarget(h) ==
  /\ publisher[h].pc = "target"
  /\ LET s == publisher[h].submission
         higher == VersionOf[s] > kits[KitOf[s]].current IN
       publisher' = [publisher EXCEPT ![h] =
                       IF higher THEN [@ EXCEPT !.pc = "duplicate"]
                                 ELSE NoPublisher]
  /\ UNCHANGED <<reviewVars, faults, catalog>>

\* Mutant: the answer of findKitVersionBySha256 is not looked at.
CheckDuplicateIgnored(h) ==
  /\ publisher[h].pc = "duplicate"
  /\ publisher' = [publisher EXCEPT ![h].pc = "select"]
  /\ UNCHANGED <<reviewVars, faults, catalog>>

\* findKitVersionBySha256 returns one of the rows with that hash, any of them;
\* one that is not the version being published refuses the request.
CheckDuplicate(h) ==
  /\ publisher[h].pc = "duplicate"
  /\ LET s == publisher[h].submission
         own == <<KitOf[s], VersionOf[s]>>
         found == {kv \in Kits \X Versions :
                     versions[kv[1]][kv[2]] = publisher[h].sha256} IN
       \/ /\ found = {} \/ own \in found
          /\ publisher' = [publisher EXCEPT ![h].pc = "select"]
       \/ /\ found \ {own} # {}
          /\ publisher' = [publisher EXCEPT ![h] = NoPublisher]
  /\ UNCHANGED <<reviewVars, faults, catalog>>

\* publishSubmission reads the existing kit.
SelectKit(h) ==
  /\ publisher[h].pc = "select"
  /\ publisher' = [publisher EXCEPT
                     ![h].pc = "write", ![h].todo = Parts,
                     ![h].existing = kits[KitOf[publisher[h].submission]]]
  /\ UNCHANGED <<reviewVars, faults, catalog>>

\* ensurePersonalOrg is asked for a new kit only, and the row of a submission
\* carries no org: buildSubmissionRecord does not copy the one chosen.
OrgOf(s) == IF s \in Updates THEN NoOrg ELSE PersonalOrg

WriteKit(h) ==
  LET s == publisher[h].submission IN
  kits' = [kits EXCEPT ![KitOf[s]] =
             Republished(publisher[h].existing, VersionOf[s], OrgOf(s))]

\* The row takes over hash and key of the submission; the object is not copied.
WriteVersion(h) ==
  LET s == publisher[h].submission IN
  /\ versions' =
       [versions EXCEPT ![KitOf[s]][VersionOf[s]] = publisher[h].sha256]
  /\ packageS3Key' = [packageS3Key EXCEPT ![KitOf[s]][VersionOf[s]] = s]

WriteSubmission(h) ==
  LET s == publisher[h].submission IN
  Write(s, MarkedPublished(submissions[s]))

\* Mutant: no BEGIN, so a statement that fails leaves the earlier one behind.
CommitUnwrapped(h) ==
  /\ Transactional
  /\ publisher[h].pc = "write"
  /\ \E o \in Outcomes :
       /\ Ends(o)
       /\ WriteKit(h)
       /\ IF Executed(o) THEN WriteVersion(h) /\ WriteSubmission(h)
                         ELSE UNCHANGED <<versions, packageS3Key, submissions>>
       /\ publisher' = [publisher EXCEPT ![h] =
                          IF o = "done" THEN [@ EXCEPT !.pc = "answered"]
                                        ELSE NoPublisher]
  /\ UNCHANGED <<submitted, uploaded, desk>>

\* Mutant: the error is swallowed after the ROLLBACK.
CommitErrorSwallowed(h) ==
  /\ Transactional
  /\ publisher[h].pc = "write"
  /\ \E o \in Outcomes :
       /\ Ends(o)
       /\ IF Executed(o)
          THEN WriteKit(h) /\ WriteVersion(h) /\ WriteSubmission(h)
          ELSE UNCHANGED <<catalog, submissions>>
       /\ publisher' = [publisher EXCEPT ![h].pc = "answered"]
  /\ UNCHANGED <<submitted, uploaded, desk>>

\* Postgres: the upserts and the UPDATE become visible at COMMIT, or never.
Commit(h) ==
  /\ Transactional
  /\ publisher[h].pc = "write"
  /\ \E o \in Outcomes :
       /\ Ends(o)
       /\ IF Executed(o)
          THEN WriteKit(h) /\ WriteVersion(h) /\ WriteSubmission(h)
          ELSE UNCHANGED <<catalog, submissions>>
       /\ publisher' = [publisher EXCEPT ![h] =
                          IF o = "done" THEN [@ EXCEPT !.pc = "answered"]
                                        ELSE NoPublisher]
  /\ UNCHANGED <<submitted, uploaded, desk>>

\* Mutant: Promise.allSettled, whose failures nobody looks at.
SettleIgnored(h, part, o) ==
  LET left == publisher[h].todo \ {part} IN
  publisher' = [publisher EXCEPT ![h] =
                  IF left # {} THEN [@ EXCEPT !.todo = left]
                               ELSE [@ EXCEPT !.todo = {}, !.pc = "answered"]]

\* One write of the Promise.all settles; with the last one the handler has
\* answered, 200 if none was rejected.
Settle(h, part, o) ==
  LET left == publisher[h].todo \ {part}
      ok == publisher[h].ok /\ o = "done" IN
  publisher' = [publisher EXCEPT ![h] =
                  IF left # {} THEN [@ EXCEPT !.todo = left, !.ok = ok]
                  ELSE IF ok THEN [@ EXCEPT !.todo = {}, !.pc = "answered"]
                  ELSE NoPublisher]

\* DynamoDB: PutItem, PutItem and UpdateItem, in any order.
WritePart(h, part) ==
  /\ ~Transactional
  /\ publisher[h].pc = "write"
  /\ part \in publisher[h].todo
  /\ \E o \in Outcomes :
       /\ Ends(o)
       /\ Settle(h, part, o)
       /\ IF Executed(o) /\ part = "kit" THEN WriteKit(h) ELSE UNCHANGED kits
       /\ IF Executed(o) /\ part = "version" THEN WriteVersion(h)
          ELSE UNCHANGED <<versions, packageS3Key>>
       /\ IF Executed(o) /\ part = "submission" THEN WriteSubmission(h)
                                                ELSE UNCHANGED submissions
  /\ UNCHANGED <<submitted, uploaded, desk>>

\* The 200 has been sent.
EndPublish(h) ==
  /\ publisher[h].pc = "answered"
  /\ publisher' = [publisher EXCEPT ![h] = NoPublisher]
  /\ UNCHANGED <<reviewVars, faults, catalog>>

\* The API process dies; an open transaction is rolled back.
PublisherCrash(h) ==
  /\ Fault
  /\ publisher[h].pc \notin {"idle", "answered"}
  /\ publisher' = [publisher EXCEPT ![h] = NoPublisher]
  /\ UNCHANGED <<reviewVars, catalog>>

PublishStep(h) ==
  \/ \E s \in Submissions : BeginPublish(h, s)
  \/ CheckTarget(h) \/ CheckDuplicate(h) \/ SelectKit(h)
  \/ Commit(h)
  \/ \E part \in Parts : WritePart(h, part)
  \/ EndPublish(h) \/ PublisherCrash(h)

-----------------------------------------------------------------------------
(* Operations on a kit.  Rows are never deleted and the role checks do not *)
(* depend on the fields below, so an operation is the write it ends with.  *)

SetKit(k, kit) ==
  /\ Exists(kits[k])
  /\ kits' = [kits EXCEPT ![k] = kit]
  /\ UNCHANGED <<submissions, submitted, uploaded, faults, versions,
                 packageS3Key, publisher>>

\* hideKit and removeKit: whatever the status was.
Hide(k) == SetKit(k, [kits[k] EXCEPT !.status = "hidden"]) /\ UNCHANGED desk

Remove(k) == SetKit(k, [kits[k] EXCEPT !.status = "removed"]) /\ UNCHANGED desk

SetPricing(k, t) ==
  SetKit(k, [kits[k] EXCEPT !.terms = t]) /\ UNCHANGED desk

SetVisibility(k, v) ==
  SetKit(k, [kits[k] EXCEPT !.visibility = v]) /\ UNCHANGED desk

Transfer(k, o) ==
  SetKit(k, [kits[k] EXCEPT !.ownerOrg = o]) /\ UNCHANGED desk

\* createKitDownloadUrl counts a download of a public, downloadable kit whose
\* current version has its row.
Download(k) ==
  /\ Downloadable(kits[k])
  /\ versions[k][kits[k].current] # None
  /\ kits[k].downloads < MaxDownloads
  /\ SetKit(k, [kits[k] EXCEPT !.downloads = @ + 1])
  /\ UNCHANGED desk

\* unhideAdminKit, and unhideKit again, check the row they read ...
BeginUnhide(d, k) ==
  /\ desk[d].op = "idle"
  /\ kits[k].status = "hidden"
  /\ desk' = [desk EXCEPT ![d] = [op |-> "unhide", target |-> k]]
  /\ UNCHANGED <<submissions, submitted, uploaded, faults, catalog, publisher>>

\* ... and its UPDATE has no condition on the status.
FinishUnhide(d) ==
  /\ desk[d].op = "unhide"
  /\ SetKit(desk[d].target,
            [kits[desk[d].target] EXCEPT !.status = "published"])
  /\ desk' = [desk EXCEPT ![d] = NoDesk]

KitStep ==
  \/ \E k \in Kits :
       \/ Hide(k) \/ Remove(k) \/ Download(k)
       \/ \E t \in TermsOffered : SetPricing(k, t)
       \/ \E v \in Visibilities : SetVisibility(k, v)
       \/ \E o \in Orgs : Transfer(k, o)
  \/ \E d \in Desks, k \in Kits : BeginUnhide(d, k)
  \/ \E d \in Desks : FinishUnhide(d)

Next ==
  \/ \E s \in Submissions : Submit(s)
  \/ ReviewStep /\ UNCHANGED <<faults, catalog, publisher>>
  \/ \E h \in Publishers : PublishStep(h)
  \/ KitStep

Spec == Init /\ [][Next]_vars

-----------------------------------------------------------------------------
\* Type invariant of the review desk and the catalog.
TypeOK ==
  /\ submissions \in [Submissions -> SubmissionRow]
  /\ submitted \subseteq Submissions
  /\ uploaded \in [Submissions -> SUBSET Packages]
  /\ desk \in [Desks -> ReviewRequest \cup UnhideRequest \cup {NoDesk}]
  /\ faults \in 0 .. MaxFaults
  /\ kits \in [Kits -> KitRow]
  /\ versions \in [Kits -> [Versions -> Packages \cup {None}]]
  /\ packageS3Key \in [Kits -> [Versions -> Submissions \cup {None}]]
  /\ publisher \in [Publishers -> PublisherState]

VersionRow(s) == versions[KitOf[s]][VersionOf[s]]

\* publishSubmission is atomic: a published submission has its version row,
\* and a kit in the table points to a version that exists.
PublishedIsComplete ==
  /\ \A s \in Submissions :
       submissions[s].status = "published" => VersionRow(s) # None
  /\ \A k \in Kits :
       Exists(kits[k]) => versions[k][kits[k].current] # None

\* A version that was published has the hash of a package that passed
\* validation and was uploaded under the key it points to, although the
\* submission may be validated again, with another upload, while it is being
\* published.  So what a download serves is what was validated as long as the
\* upload URL was used for one package; an object replaced later on is served
\* under the old hash.
VersionsWereValidated ==
  \A k \in Kits, v \in Versions :
    LET s == packageS3Key[k][v] IN
    s # None => versions[k][v] \in ValidPackages \cap uploaded[s]

\* When publish answers 200, kit and version are in the tables, whichever of
\* the three writes failed or came late.
AnsweredIsPublished ==
  \A h \in Publishers :
    publisher[h].pc = "answered" =>
      LET s == publisher[h].submission IN
      VersionRow(s) # None /\ Exists(kits[KitOf[s]])

\* A published submission is neither archived nor canceled, also by a request
\* that read the row before it was published.
PublishedIsNotWithdrawn ==
  [][\A s \in Submissions :
       submissions[s].status = "published" =>
         submissions'[s].status \notin {"archived", "canceled"}]_vars

CatalogStatus == [k \in Kits |-> kits[k].status]
CatalogCurrent == [k \in Kits |-> kits[k].current]
CatalogPublished == {s \in Submissions : submissions[s].status = "published"}

Contract == INSTANCE CatalogContract WITH
  status <- CatalogStatus, current <- CatalogCurrent,
  published <- CatalogPublished

\* Postgres: whatever interleaves, whichever statement fails, a publication is
\* one step of the contract, and nothing else changes what the catalog holds.
ImplementsCatalog == Contract!Spec

\* "Reject a byte-identical re-upload of any already-published version": no two
\* versions have the same hash, as long as one publication follows the other.
PackagesAreUnique ==
  \A k, l \in Kits, v, w \in Versions :
    versions[k][v] # None /\ versions[k][v] = versions[l][w]
      => k = l /\ v = w

\* "Org ownership is set on first publish from the submission and never
\* reassigned by a version_update (transfer is the explicit path)."
UpdateKeepsOwnerOrg ==
  [][\A k \in Kits :
       Exists(kits[k]) /\ kits'[k].current # kits[k].current
         => kits'[k].ownerOrg = kits[k].ownerOrg]_vars

=============================================================================
