-------------------------- MODULE PublicationProofs --------------------------
(***************************************************************************)
(* What holds of Publication for any number of submissions, kits, versions,*)
(* requests and faults.  The invariant Safe says what the handlers may     *)
(* rely on: rows and handlers' copies of them that were judged "passed"    *)
(* carry the hash of a valid package, and a publication has written the    *)
(* parts it no longer has to do.  Most steps are one of two kinds: those   *)
(* that write a submission without publishing it, and those that change a  *)
(* kit without moving its version.                                         *)
(***************************************************************************)
EXTENDS Publication, TLAPS

\* A row that shows "passed" has the hash of a valid package among those that
\* were uploaded for it.
Sound(row, packages) ==
  /\ row \in SubmissionRow
  /\ row.validationStatus = "passed" => row.sha256 \in ValidPackages \cap packages

\* What the review desk and the pipeline do to a row.
Reviewed(old, new, packages) ==
  /\ Sound(new, packages)
  /\ new.status = "published" => old.status = "published"
  /\ old.status = "published" => new.status \notin {"archived", "canceled"}

RowsSound == \A s \in Submissions : Sound(submissions[s], uploaded[s])

\* A publish request works on the hash of a package that was uploaded and
\* found valid, and the parts it
\* has written are in the tables as long as none of them failed.
Written(p, part) ==
  (p.pc = "write" /\ p.ok /\ part \notin p.todo) \/ p.pc = "answered"

HandlerSound(p, packages, kitRows, versionRows) ==
  /\ p.pc # "idle" =>
       /\ p.submission \in Submissions
       /\ p.sha256 \in ValidPackages \cap packages[p.submission]
  /\ Written(p, "version") =>
       versionRows[KitOf[p.submission]][VersionOf[p.submission]] # None
  /\ Written(p, "kit") => Exists(kitRows[KitOf[p.submission]])

HandlersSound ==
  \A h \in Publishers : HandlerSound(publisher[h], uploaded, kits, versions)

Safe == TypeOK /\ RowsSound /\ VersionsWereValidated /\ HandlersSound

-----------------------------------------------------------------------------
(* The writes to a submission.                                             *)

LEMMA ReviewedRows ==
  ASSUME NEW row, NEW packages, Sound(row, packages)
  PROVE  /\ \A j \in Jobs : Reviewed(row, MarkedQueued(row, j), packages)
         /\ \A p \in packages \cap ValidPackages :
              Reviewed(row, WithResult(row, "passed", p), packages)
         /\ Reviewed(row, WithResult(row, "failed", None), packages)
         /\ Reviewed(row, Approved(row), packages)
         /\ Reviewed(row, Rejected(row), packages)
         /\ Reviewed(row, Archived(row), packages)
         /\ Reviewed(row, Canceled(row), packages)
         /\ Sound(MarkedPublished(row), packages)
<1> USE DEF Reviewed, Sound, SubmissionRow, SubmissionStatus
<1>1. \A j \in Jobs : Reviewed(row, MarkedQueued(row, j), packages)
  BY DEF MarkedQueued
<1>2. \A p \in packages \cap ValidPackages :
        Reviewed(row, WithResult(row, "passed", p), packages)
  BY ValidAssumption, NoneAssumption DEF WithResult
<1>3. Reviewed(row, WithResult(row, "failed", None), packages)
  BY DEF WithResult
<1>4. Reviewed(row, Approved(row), packages) /\ Reviewed(row, Rejected(row), packages)
  BY DEF Approved, Rejected
<1>5. Reviewed(row, Archived(row), packages) /\ Reviewed(row, Canceled(row), packages)
  BY DEF Archived, Canceled
<1>6. Sound(MarkedPublished(row), packages)
  BY DEF MarkedPublished
<1> QED
  BY <1>1, <1>2, <1>3, <1>4, <1>5, <1>6


\* A submission's upload may be replaced, but not undone.
UploadsGrow ==
  /\ uploaded' \in [Submissions -> SUBSET Packages]
  /\ \A s \in Submissions : uploaded[s] \subseteq uploaded'[s]

\* A step of the desk writes one submission, in a way the review desk may.
WroteOne ==
  \/ UNCHANGED submissions
  \/ \E s \in Submissions, row \in SubmissionRow :
       Reviewed(submissions[s], row, uploaded[s]) /\ Write(s, row)

LEMMA ReviewWrites ==
  ASSUME TypeOK, RowsSound, ReviewStep
  PROVE  /\ WroteOne
         /\ UploadsGrow
         /\ submitted' \subseteq Submissions
         /\ desk' \in [Desks -> ReviewRequest \cup UnhideRequest \cup {NoDesk}]
<1>1. \A t \in Submissions : Sound(submissions[t], uploaded[t])
  BY DEF RowsSound
<1>2. ASSUME NEW s \in Submissions, NEW row, Reviewed(submissions[s], row, uploaded[s]),
             Write(s, row)
      PROVE  WroteOne
  <2>1. row \in SubmissionRow
    BY <1>2 DEF Reviewed, Sound
  <2> QED
    BY <1>2, <2>1 DEF WroteOne
<1>3. ASSUME NEW s \in Submissions, ValidationQueued(s)
      PROVE  WroteOne
  <2>1. PICK j \in Jobs : Write(s, MarkedQueued(submissions[s], j))
    BY <1>3 DEF ValidationQueued
  <2> QED
    BY <1>1, <1>2, <2>1, ReviewedRows
<1>4. ASSUME NEW s \in Submissions, ValidationFinished(s)
      PROVE  WroteOne
  <2>1. CASE \E p \in uploaded[s] \cap ValidPackages :
               Write(s, WithResult(submissions[s], "passed", p))
    BY <1>1, <1>2, <2>1, ReviewedRows
  <2>2. CASE Write(s, WithResult(submissions[s], "failed", None))
    BY <1>1, <1>2, <2>2, ReviewedRows
  <2> QED
    BY <1>4, <2>1, <2>2 DEF ValidationFinished
<1>5. ASSUME NEW s \in Submissions, Reject(s) \/ Archive(s)
      PROVE  WroteOne
  BY <1>1, <1>2, <1>5, ReviewedRows DEF Reject, Archive
<1>6. ASSUME NEW d \in Desks, FinishApprove(d) \/ FinishCancel(d)
      PROVE  WroteOne
  <2>1. desk[d].target \in Submissions
    BY <1>6, NoSubmissionAssumption DEF FinishApprove, FinishCancel, TypeOK,
      ReviewRequest, UnhideRequest, NoDesk
  <2> QED
    BY <1>1, <1>2, <1>6, <2>1, ReviewedRows DEF FinishApprove, FinishCancel
<1>7. WroteOne
  <2>0. CASE \E s \in Submissions : Upload(s)
    BY <2>0 DEF Upload, WroteOne
  <2>1. CASE \E s \in Submissions : ValidationQueued(s) \/ ValidationFinished(s)
                                      \/ Reject(s) \/ Archive(s)
    BY <2>1, <1>3, <1>4, <1>5
  <2>2. CASE \E d \in Desks, s \in Submissions : BeginApprove(d, s) \/ BeginCancel(d, s)
    BY <2>2 DEF BeginApprove, BeginCancel, WroteOne
  <2>3. CASE \E d \in Desks : FinishApprove(d) \/ FinishCancel(d)
    BY <2>3, <1>6
  <2> QED
    BY <2>0, <2>1, <2>2, <2>3 DEF ReviewStep
<1>8. submitted' = submitted
  BY DEF ReviewStep, Upload, ValidationQueued, ValidationFinished, Reject, Archive,
    BeginApprove, BeginCancel, FinishApprove, FinishCancel
<1>9. desk' \in [Desks -> ReviewRequest \cup UnhideRequest \cup {NoDesk}]
  BY DEF ReviewStep, Upload, ValidationQueued, ValidationFinished, Reject, Archive,
    BeginApprove, BeginCancel, FinishApprove, FinishCancel, TypeOK,
    ReviewRequest
<1>10. UploadsGrow
  <2>1. uploaded \in [Submissions -> SUBSET Packages]
    BY DEF TypeOK
  <2>2. CASE UNCHANGED uploaded
    BY <2>1, <2>2 DEF UploadsGrow
  <2>3. CASE \E s \in Submissions : Upload(s)
    BY <2>1, <2>3, UploadsAssumption DEF Upload, UploadsGrow
  <2> QED
    BY <2>2, <2>3 DEF ReviewStep, ValidationQueued, ValidationFinished, Reject,
      Archive, BeginApprove, BeginCancel, FinishApprove, FinishCancel
<1> QED
  BY <1>7, <1>8, <1>9, <1>10 DEF TypeOK

\* What such a write leaves.
LEMMA UnpublishedRows ==
  ASSUME TypeOK, WroteOne
  PROVE  /\ submissions' \in [Submissions -> SubmissionRow]
         /\ \A t \in Submissions : submissions'[t].status = "published"
              => submissions[t].status = "published"
  BY DEF TypeOK, WroteOne, Write, Reviewed

LEMMA WrittenRows ==
  ASSUME TypeOK, RowsSound, WroteOne, UploadsGrow
  PROVE  RowsSound'
<1>1. \A t \in Submissions : \A row :
        Sound(row, uploaded[t]) => Sound(row, uploaded'[t])
  BY DEF Sound, UploadsGrow
<1> QED
  BY <1>1 DEF TypeOK, WroteOne, Write, Reviewed, RowsSound

-----------------------------------------------------------------------------
(* The writes to a kit.                                                    *)

\* An operation on a kit leaves it in the table, at the version it had.
Moderated(old, new) ==
  new \in KitRow /\ Exists(new) /\ new.current = old.current

ModeratedOne ==
  \/ UNCHANGED kits
  \/ \E k \in Kits, kit \in KitRow :
       /\ Exists(kits[k]) /\ Moderated(kits[k], kit)
       /\ kits' = [kits EXCEPT ![k] = kit]

LEMMA ModeratedRows ==
  ASSUME NEW kit \in KitRow, Exists(kit)
  PROVE  /\ Moderated(kit, [kit EXCEPT !.status = "hidden"])
         /\ Moderated(kit, [kit EXCEPT !.status = "removed"])
         /\ Moderated(kit, [kit EXCEPT !.status = "published"])
         /\ \A t \in TermsOffered : Moderated(kit, [kit EXCEPT !.terms = t])
         /\ \A v \in Visibilities : Moderated(kit, [kit EXCEPT !.visibility = v])
         /\ \A o \in Orgs : Moderated(kit, [kit EXCEPT !.ownerOrg = o])
         /\ kit.downloads < MaxDownloads
              => Moderated(kit, [kit EXCEPT !.downloads = @ + 1])
<1> USE DEF Moderated, KitRow, KitStatus, Exists
<1>1. /\ Moderated(kit, [kit EXCEPT !.status = "hidden"])
      /\ Moderated(kit, [kit EXCEPT !.status = "removed"])
      /\ Moderated(kit, [kit EXCEPT !.status = "published"])
  OBVIOUS
<1>2. \A t \in TermsOffered : Moderated(kit, [kit EXCEPT !.terms = t])
  BY InputAssumption
<1>3. \A v \in Visibilities : Moderated(kit, [kit EXCEPT !.visibility = v])
  BY InputAssumption
<1>4. \A o \in Orgs : Moderated(kit, [kit EXCEPT !.ownerOrg = o])
  OBVIOUS
<1>5. kit.downloads < MaxDownloads
        => Moderated(kit, [kit EXCEPT !.downloads = @ + 1])
  BY KitBoundsAssumption
<1> QED
  BY <1>1, <1>2, <1>3, <1>4, <1>5

LEMMA KitWrites ==
  ASSUME TypeOK, KitStep
  PROVE  /\ ModeratedOne
         /\ UNCHANGED <<submissions, submitted, uploaded, faults, versions,
                        packageS3Key, publisher>>
         /\ desk' \in [Desks -> ReviewRequest \cup UnhideRequest \cup {NoDesk}]
<1>1. \A k \in Kits : kits[k] \in KitRow
  BY DEF TypeOK
<1>2. ASSUME NEW k \in Kits, NEW kit, SetKit(k, kit),
             Exists(kits[k]) => Moderated(kits[k], kit)
      PROVE  ModeratedOne
  <2>1. Exists(kits[k]) /\ Moderated(kits[k], kit) /\ kit \in KitRow
    BY <1>2 DEF SetKit, Moderated
  <2> QED
    BY <1>2, <2>1 DEF SetKit, ModeratedOne
<1>3. ASSUME NEW k \in Kits, Hide(k) \/ Remove(k)
      PROVE  ModeratedOne
  BY <1>1, <1>2, <1>3, ModeratedRows DEF Hide, Remove
<1>4. ASSUME NEW k \in Kits, Download(k)
      PROVE  ModeratedOne
  BY <1>1, <1>2, <1>4, ModeratedRows DEF Download
<1>5. ASSUME NEW d \in Desks, FinishUnhide(d)
      PROVE  ModeratedOne
  <2>1. desk[d].target \in Kits
    BY <1>5 DEF FinishUnhide, TypeOK, ReviewRequest, UnhideRequest, NoDesk
  <2>2. SetKit(desk[d].target,
               [kits[desk[d].target] EXCEPT !.status = "published"])
    BY <1>5 DEF FinishUnhide
  <2>3. ASSUME NEW k \in Kits,
               SetKit(k, [kits[k] EXCEPT !.status = "published"])
        PROVE  ModeratedOne
    BY <1>1, <1>2, <2>3, ModeratedRows
  <2> QED
    BY <2>1, <2>2, <2>3
<1>6. ASSUME NEW k \in Kits,
             \/ Hide(k) \/ Remove(k) \/ Download(k)
             \/ \E t \in TermsOffered : SetPricing(k, t)
             \/ \E v \in Visibilities : SetVisibility(k, v)
             \/ \E o \in Orgs : Transfer(k, o)
      PROVE  ModeratedOne /\ UNCHANGED desk
  <2>1. ModeratedOne
    <3>1. CASE Hide(k) \/ Remove(k)
      BY <3>1, <1>3
    <3>2. CASE Download(k)
      BY <3>2, <1>4
    <3>3. CASE \E t \in TermsOffered : SetPricing(k, t)
      BY <3>3, <1>1, <1>2, ModeratedRows DEF SetPricing
    <3>4. CASE \E v \in Visibilities : SetVisibility(k, v)
      BY <3>4, <1>1, <1>2, ModeratedRows DEF SetVisibility
    <3>5. CASE \E o \in Orgs : Transfer(k, o)
      BY <3>5, <1>1, <1>2, ModeratedRows DEF Transfer
    <3> QED
      BY <3>1, <3>2, <3>3, <3>4, <3>5, <1>6
  <2>2. UNCHANGED desk
    BY <1>6 DEF Hide, Remove, Download, SetPricing, SetVisibility, Transfer
  <2> QED
    BY <2>1, <2>2
<1>7. ASSUME NEW d \in Desks, NEW k \in Kits, BeginUnhide(d, k)
      PROVE  /\ ModeratedOne
             /\ desk' = [desk EXCEPT ![d] = [op |-> "unhide", target |-> k]]
  BY <1>7 DEF BeginUnhide, catalog, ModeratedOne
<1>8. ASSUME NEW d \in Desks, FinishUnhide(d)
      PROVE  desk' = [desk EXCEPT ![d] = NoDesk]
  BY <1>8 DEF FinishUnhide
<1>9. ModeratedOne
  BY <1>5, <1>6, <1>7 DEF KitStep
<1>10. desk' \in [Desks -> ReviewRequest \cup UnhideRequest \cup {NoDesk}]
  <2>1. desk \in [Desks -> ReviewRequest \cup UnhideRequest \cup {NoDesk}]
    BY DEF TypeOK
  <2>2. \A k \in Kits : [op |-> "unhide", target |-> k] \in UnhideRequest
    BY DEF UnhideRequest
  <2> QED
    BY <2>1, <2>2, <1>6, <1>7, <1>8 DEF KitStep
<1>11. UNCHANGED <<submissions, submitted, uploaded, faults, versions,
                        packageS3Key, publisher>>
  BY DEF KitStep, Hide, Remove, Download, SetPricing, SetVisibility, Transfer,
    BeginUnhide, FinishUnhide, SetKit, catalog
<1> QED
  BY <1>9, <1>10, <1>11

\* What such a write leaves.
LEMMA ModeratedKits ==
  ASSUME TypeOK, ModeratedOne
  PROVE  /\ kits' \in [Kits -> KitRow]
         /\ \A k \in Kits : /\ Exists(kits'[k]) <=> Exists(kits[k])
                            /\ kits'[k].current = kits[k].current
  BY DEF TypeOK, ModeratedOne, Moderated

-----------------------------------------------------------------------------
(* The steps of a publish request.                                         *)

\* Kits and versions never leave the tables, and a version is always valid.
KitsGrow ==
  /\ kits' \in [Kits -> KitRow]
  /\ \A k \in Kits : Exists(kits[k]) => Exists(kits'[k])

VersionsGrow ==
  /\ versions' \in [Kits -> [Versions -> Packages \cup {None}]]
  /\ packageS3Key' \in [Kits -> [Versions -> Submissions \cup {None}]]
  /\ \A k \in Kits, v \in Versions :
       versions[k][v] # None => versions'[k][v] # None
  /\ \A k \in Kits, v \in Versions :
       LET s == packageS3Key'[k][v] IN
       s # None => versions'[k][v] \in ValidPackages \cap uploaded[s]

RowsStay == submissions' \in [Submissions -> SubmissionRow] /\ RowsSound'

DeskStays ==
  /\ UploadsGrow
  /\ submitted' \subseteq Submissions
  /\ desk' \in [Desks -> ReviewRequest \cup UnhideRequest \cup {NoDesk}]

\* What a request knows stays true while the tables grow.
LEMMA StillSound ==
  ASSUME UploadsGrow, KitsGrow, VersionsGrow, NEW p, HandlerSound(p, uploaded, kits, versions)
  PROVE  HandlerSound(p, uploaded', kits', versions')
  BY KitOfAssumption, VersionOfAssumption
    DEF UploadsGrow, KitsGrow, VersionsGrow, HandlerSound, Written, Versions

\* A step that changes at most what one request knows.
LEMMA Frame ==
  ASSUME Safe, KitsGrow, VersionsGrow, RowsStay, DeskStays,
         faults' \in 0 .. MaxFaults,
         publisher' \in [Publishers -> PublisherState],
         \A h \in Publishers : \/ publisher'[h] = publisher[h]
                               \/ HandlerSound(publisher'[h], uploaded', kits', versions')
  PROVE  Safe'
<1>1. TypeOK'
  BY DEF TypeOK, KitsGrow, VersionsGrow, RowsStay, DeskStays, UploadsGrow
<1>2. VersionsWereValidated'
  BY DEF VersionsWereValidated, VersionsGrow, DeskStays, UploadsGrow
<1>3. HandlersSound'
  BY StillSound DEF Safe, HandlersSound, DeskStays
<1> QED
  BY <1>1, <1>2, <1>3 DEF Safe, RowsStay

LEMMA NothingWritten ==
  ASSUME Safe
  PROVE  /\ UNCHANGED kits => KitsGrow
         /\ UNCHANGED <<versions, packageS3Key>> => VersionsGrow
         /\ UNCHANGED submissions /\ DeskStays => RowsStay
         /\ UNCHANGED <<submitted, uploaded, desk>> => DeskStays
         /\ \A o \in Outcomes : Ends(o) => faults' \in 0 .. MaxFaults
         /\ Fault => faults' \in 0 .. MaxFaults
<1>1. UNCHANGED kits => KitsGrow
  BY DEF Safe, TypeOK, KitsGrow
<1>2. UNCHANGED <<versions, packageS3Key>> => VersionsGrow
  BY DEF Safe, TypeOK, VersionsGrow, VersionsWereValidated
<1>3. UNCHANGED submissions /\ DeskStays => RowsStay
  BY DEF Safe, TypeOK, RowsStay, RowsSound, Sound, DeskStays, UploadsGrow
<1>4. UNCHANGED <<submitted, uploaded, desk>> => DeskStays
  BY DEF Safe, TypeOK, DeskStays, UploadsGrow
<1>5. /\ \A o \in Outcomes : Ends(o) => faults' \in 0 .. MaxFaults
      /\ Fault => faults' \in 0 .. MaxFaults
  BY FaultsAssumption DEF Safe, TypeOK, Ends, Fault
<1> QED
  BY <1>1, <1>2, <1>3, <1>4, <1>5

\* The three writes of publishSubmission.
LEMMA PublishedRows ==
  ASSUME Safe, NEW h \in Publishers, publisher[h].pc # "idle"
  PROVE  /\ publisher[h].submission \in Submissions
         /\ WriteKit(h) =>
              /\ KitsGrow
              /\ Exists(kits'[KitOf[publisher[h].submission]])
         /\ WriteVersion(h) =>
              /\ VersionsGrow
              /\ versions'[KitOf[publisher[h].submission]]
                          [VersionOf[publisher[h].submission]] # None
         /\ WriteSubmission(h) /\ DeskStays => RowsStay
<1> DEFINE s == publisher[h].submission
           kit == Republished(publisher[h].existing, VersionOf[s], OrgOf(s))
<1>1. s \in Submissions /\ publisher[h].sha256 \in ValidPackages \cap uploaded[s]
  BY DEF Safe, HandlersSound, HandlerSound, Written
<1>2. KitOf[s] \in Kits /\ VersionOf[s] \in Versions
  BY <1>1, KitOfAssumption, VersionOfAssumption DEF Versions
<1>3. kit \in KitRow /\ Exists(kit)
  <2>1. publisher[h].existing \in KitRow
    BY DEF Safe, TypeOK, PublisherState
  <2>2. OrgOf(s) \in Orgs \cup {NoOrg}
    BY OrgAssumption DEF OrgOf
  <2>3. VersionOf[s] \in 0 .. MaxVersion
    BY <1>2, KitBoundsAssumption DEF Versions
  <2> QED
    BY <2>1, <2>2, <2>3 DEF Republished, KitRow, KitStatus, Terms, Exists
<1>4. WriteKit(h) => KitsGrow /\ Exists(kits'[KitOf[s]])
  <2>1. SUFFICES ASSUME WriteKit(h)
                 PROVE  KitsGrow /\ Exists(kits'[KitOf[s]])
    OBVIOUS
  <2>2. kits' = [kits EXCEPT ![KitOf[s]] = kit]
    BY <2>1 DEF WriteKit
  <2> HIDE DEF kit, s
  <2> QED
    BY <1>2, <1>3, <2>2 DEF Safe, TypeOK, KitsGrow
<1>5. WriteVersion(h) =>
        VersionsGrow /\ versions'[KitOf[s]][VersionOf[s]] # None
  <2> HIDE DEF s
  <2>1. SUFFICES ASSUME versions' = [versions EXCEPT ![KitOf[s]][VersionOf[s]] =
                                       publisher[h].sha256],
                        packageS3Key' = [packageS3Key EXCEPT
                                           ![KitOf[s]][VersionOf[s]] = s]
                 PROVE  VersionsGrow /\ versions'[KitOf[s]][VersionOf[s]] # None
    BY DEF WriteVersion, s
  <2>2. publisher[h].sha256 \in Packages /\ publisher[h].sha256 # None
    BY <1>1, ValidAssumption, NoneAssumption
  <2>3. ASSUME NEW k \in Kits, NEW v \in Versions, packageS3Key'[k][v] # None
        PROVE  versions'[k][v] \in ValidPackages \cap uploaded[packageS3Key'[k][v]]
    <3>1. CASE k = KitOf[s] /\ v = VersionOf[s]
      BY <1>1, <2>1, <3>1 DEF Safe, TypeOK
    <3>2. CASE ~(k = KitOf[s] /\ v = VersionOf[s])
      BY <1>2, <2>1, <2>3, <3>2 DEF Safe, TypeOK, VersionsWereValidated
    <3> QED
      BY <3>1, <3>2
  <2> QED
    BY <1>1, <1>2, <2>1, <2>2, <2>3 DEF Safe, TypeOK, VersionsGrow
<1>6. WriteSubmission(h) /\ DeskStays => RowsStay
  <2>1. Sound(submissions[s], uploaded[s])
    BY <1>1 DEF Safe, RowsSound
  <2>2. Sound(MarkedPublished(submissions[s]), uploaded[s])
    BY <2>1, ReviewedRows
  <2>3. \A t \in Submissions : \A row :
          DeskStays /\ Sound(row, uploaded[t]) => Sound(row, uploaded'[t])
    BY DEF Sound, DeskStays, UploadsGrow
  <2>4. WriteSubmission(h) /\ DeskStays => RowsSound'
    BY <1>1, <2>2, <2>3 DEF WriteSubmission, Write, RowsSound, Safe, TypeOK
  <2> QED
    BY <1>1, <2>2, <2>4 DEF WriteSubmission, Write, RowsStay, Safe, TypeOK, Sound
<1> QED
  BY <1>1, <1>4, <1>5, <1>6

\* The checks of a request, before it writes anything.
LEMMA ChecksSafe ==
  ASSUME Safe, NEW h \in Publishers,
         \/ \E s \in Submissions : BeginPublish(h, s)
         \/ CheckTarget(h) \/ CheckDuplicate(h) \/ SelectKit(h)
         \/ EndPublish(h) \/ PublisherCrash(h)
  PROVE  Safe'
<1>1. publisher \in [Publishers -> PublisherState]
  BY DEF Safe, TypeOK
<1>2. UNCHANGED <<kits, versions, packageS3Key, submissions, submitted, uploaded, desk>>
  BY DEF BeginPublish, CheckTarget, CheckDuplicate, SelectKit, EndPublish,
    PublisherCrash, reviewVars, catalog
<1>3. faults' \in 0 .. MaxFaults
  <2>1. UNCHANGED faults \/ Fault
    BY DEF BeginPublish, CheckTarget, CheckDuplicate, SelectKit, EndPublish,
      PublisherCrash
  <2> QED
    BY <2>1, NothingWritten DEF Safe, TypeOK
<1>4. ASSUME NEW p \in PublisherState, HandlerSound(p, uploaded, kits, versions),
             publisher' = [publisher EXCEPT ![h] = p]
      PROVE  Safe'
  <2>1. /\ publisher' \in [Publishers -> PublisherState]
        /\ \A g \in Publishers : \/ publisher'[g] = publisher[g]
                                 \/ HandlerSound(publisher'[g], uploaded', kits', versions')
    BY <1>1, <1>2, <1>4
  <2> QED
    BY <1>2, <1>3, <2>1, Frame, NothingWritten
<1>5. NoPublisher \in PublisherState /\ HandlerSound(NoPublisher, uploaded, kits, versions)
  BY KitBoundsAssumption DEF NoPublisher, PublisherState, NoKit, KitRow,
    KitStatus, Terms, HandlerSound, Written
<1>6. CASE \/ CheckTarget(h) /\ publisher' = [publisher EXCEPT ![h] = NoPublisher]
           \/ CheckDuplicate(h) /\ publisher' = [publisher EXCEPT ![h] = NoPublisher]
           \/ EndPublish(h) \/ PublisherCrash(h)
  BY <1>4, <1>5, <1>6 DEF EndPublish, PublisherCrash
<1>7. CASE \E s \in Submissions : BeginPublish(h, s)
  <2>1. PICK s \in Submissions : BeginPublish(h, s)
    BY <1>7
  <2> DEFINE p == [NoPublisher EXCEPT
                     !.pc = IF s \in Updates THEN "target" ELSE "duplicate",
                     !.submission = s, !.sha256 = submissions[s].sha256]
  <2>2. submissions[s].sha256 \in ValidPackages \cap uploaded[s]
    BY <2>1 DEF BeginPublish, Ready, Safe, RowsSound, Sound
  <2>3. p \in PublisherState /\ HandlerSound(p, uploaded, kits, versions)
    BY <2>2, <1>5, ValidAssumption
      DEF NoPublisher, PublisherState, HandlerSound, Written
  <2>4. publisher' = [publisher EXCEPT ![h] = p]
    BY <2>1 DEF BeginPublish
  <2> HIDE DEF p
  <2> QED
    BY <1>4, <2>3, <2>4
<1>8. ASSUME publisher[h].pc # "idle",
             NEW pc \in {"duplicate", "select"},
             publisher' = [publisher EXCEPT ![h].pc = pc]
      PROVE  Safe'
  <2> DEFINE p == [publisher[h] EXCEPT !.pc = pc]
  <2>1. p \in PublisherState
    BY <1>1, <1>8 DEF PublisherState
  <2>2. HandlerSound(p, uploaded, kits, versions)
    BY <1>1, <1>8
      DEF Safe, HandlersSound, HandlerSound, Written, PublisherState
  <2>3. publisher' = [publisher EXCEPT ![h] = p]
    BY <1>1, <1>8
  <2> HIDE DEF p
  <2> QED
    BY <1>4, <2>1, <2>2, <2>3
<1>9. CASE \/ CheckTarget(h) /\ publisher' = [publisher EXCEPT ![h].pc = "duplicate"]
           \/ CheckDuplicate(h) /\ publisher' = [publisher EXCEPT ![h].pc = "select"]
  BY <1>8, <1>9 DEF CheckTarget, CheckDuplicate
<1>10. CASE SelectKit(h)
  <2> DEFINE p == [publisher[h] EXCEPT
                     !.pc = "write", !.todo = Parts,
                     !.existing = kits[KitOf[publisher[h].submission]]]
  <2>1. publisher[h].submission \in Submissions
    BY <1>10 DEF SelectKit, Safe, HandlersSound, HandlerSound, Written
  <2>2. kits[KitOf[publisher[h].submission]] \in KitRow
    BY <2>1, KitOfAssumption DEF Safe, TypeOK
  <2>3. p \in PublisherState
    BY <1>1, <2>2 DEF PublisherState
  <2>4. HandlerSound(p, uploaded, kits, versions)
    BY <1>1, <1>10, <2>2
      DEF SelectKit, Safe, HandlersSound, HandlerSound, Written,
      Parts, PublisherState
  <2>5. publisher' = [publisher EXCEPT ![h] = p]
    BY <1>1, <1>10 DEF SelectKit, PublisherState
  <2> HIDE DEF p
  <2> QED
    BY <1>4, <2>3, <2>4, <2>5
<1>11. CASE CheckTarget(h)
  <2>1. \/ publisher' = [publisher EXCEPT ![h] = NoPublisher]
        \/ publisher' = [publisher EXCEPT ![h].pc = "duplicate"]
    BY <1>11 DEF CheckTarget
  <2> QED
    BY <1>6, <1>9, <1>11, <2>1
<1>12. CASE CheckDuplicate(h)
  <2>1. \/ publisher' = [publisher EXCEPT ![h] = NoPublisher]
        \/ publisher' = [publisher EXCEPT ![h].pc = "select"]
    BY <1>12 DEF CheckDuplicate
  <2> QED
    BY <1>6, <1>9, <1>12, <2>1
<1> QED
  BY <1>6, <1>7, <1>10, <1>11, <1>12

\* Postgres: all three writes or none.
LEMMA CommitSafe ==
  ASSUME Safe, NEW h \in Publishers, Commit(h)
  PROVE  Safe'
<1>1. publisher \in [Publishers -> PublisherState] /\ publisher[h].pc = "write"
  BY DEF Safe, TypeOK, Commit
<1>2. PICK o \in Outcomes :
        /\ Ends(o)
        /\ IF Executed(o)
           THEN WriteKit(h) /\ WriteVersion(h) /\ WriteSubmission(h)
           ELSE UNCHANGED <<catalog, submissions>>
        /\ publisher' = [publisher EXCEPT ![h] =
                           IF o = "done" THEN [@ EXCEPT !.pc = "answered"]
                                         ELSE NoPublisher]
  BY DEF Commit
<1>4. DeskStays /\ faults' \in 0 .. MaxFaults
  BY <1>2, NothingWritten DEF Commit
<1>3. KitsGrow /\ VersionsGrow /\ RowsStay
  BY <1>1, <1>2, <1>4, NothingWritten, PublishedRows DEF catalog
<1> DEFINE p == IF o = "done" THEN [publisher[h] EXCEPT !.pc = "answered"]
                              ELSE NoPublisher
<1>5. p \in PublisherState
  BY <1>1, KitBoundsAssumption DEF PublisherState, NoPublisher, NoKit, KitRow,
    KitStatus, Terms
<1>6. HandlerSound(p, uploaded', kits', versions')
  <2>1. CASE o = "done"
    <3>1. /\ Exists(kits'[KitOf[publisher[h].submission]])
          /\ versions'[KitOf[publisher[h].submission]]
                      [VersionOf[publisher[h].submission]] # None
      BY <1>1, <1>2, <2>1, PublishedRows DEF Executed
    <3> QED
      BY <1>1, <2>1, <3>1
        DEF Commit, Safe, HandlersSound, HandlerSound, Written, PublisherState
  <2>2. CASE o # "done"
    BY <2>2 DEF HandlerSound, Written, NoPublisher
  <2> QED
    BY <2>1, <2>2
<1>7. publisher' = [publisher EXCEPT ![h] = p]
  BY <1>1, <1>2
<1> HIDE DEF p
<1> QED
  BY <1>1, <1>3, <1>4, <1>5, <1>6, <1>7, Frame

\* DynamoDB: one of the three writes.
LEMMA PartSafe ==
  ASSUME Safe, NEW h \in Publishers, NEW part \in Parts, WritePart(h, part)
  PROVE  Safe'
<1>1. publisher \in [Publishers -> PublisherState] /\ publisher[h].pc = "write"
  BY DEF Safe, TypeOK, WritePart
<1>2. PICK o \in Outcomes :
        /\ Ends(o) /\ Settle(h, part, o)
        /\ IF Executed(o) /\ part = "kit" THEN WriteKit(h) ELSE UNCHANGED kits
        /\ IF Executed(o) /\ part = "version" THEN WriteVersion(h)
           ELSE UNCHANGED <<versions, packageS3Key>>
        /\ IF Executed(o) /\ part = "submission" THEN WriteSubmission(h)
                                                 ELSE UNCHANGED submissions
  BY DEF WritePart
<1>4. DeskStays /\ faults' \in 0 .. MaxFaults
  BY <1>2, NothingWritten DEF WritePart
<1>3. KitsGrow /\ VersionsGrow /\ RowsStay
  BY <1>1, <1>2, <1>4, NothingWritten, PublishedRows
<1> DEFINE left == publisher[h].todo \ {part}
           ok == publisher[h].ok /\ o = "done"
           p == IF left # {} THEN [publisher[h] EXCEPT !.todo = left, !.ok = ok]
                ELSE IF ok
                THEN [publisher[h] EXCEPT !.todo = {}, !.pc = "answered"]
                ELSE NoPublisher
<1>5. p \in PublisherState
  <2>1. left \in SUBSET Parts /\ ok \in BOOLEAN
    BY <1>1 DEF PublisherState
  <2>2. NoPublisher \in PublisherState
    BY KitBoundsAssumption DEF PublisherState, NoPublisher, NoKit, KitRow,
      KitStatus, Terms
  <2> HIDE DEF left, ok
  <2> QED
    BY <1>1, <2>1, <2>2 DEF PublisherState
<1>6. HandlerSound(p, uploaded', kits', versions')
  <2>1. HandlerSound(publisher[h], uploaded', kits', versions')
    BY <1>3, <1>4, StillSound DEF Safe, HandlersSound, DeskStays
  <2>2. ok /\ part = "kit" => Exists(kits'[KitOf[publisher[h].submission]])
    BY <1>1, <1>2, PublishedRows DEF Executed
  <2>3. ok /\ part = "version" =>
          versions'[KitOf[publisher[h].submission]]
                   [VersionOf[publisher[h].submission]] # None
    BY <1>1, <1>2, PublishedRows DEF Executed
  <2>4. CASE left # {}
    <3>1. /\ p.pc = "write" /\ p.todo = left /\ p.ok = ok
          /\ p.submission = publisher[h].submission
          /\ p.sha256 = publisher[h].sha256
      BY <1>1, <2>4 DEF PublisherState
    <3>2. ok => publisher[h].ok
      BY <1>1 DEF PublisherState
    <3> HIDE DEF p, ok
    <3> QED
      BY <1>1, <2>1, <2>2, <2>3, <3>1, <3>2 DEF HandlerSound, Written
  <2>5. CASE left = {} /\ ok
    <3>1. /\ p.pc = "answered" /\ p.submission = publisher[h].submission
          /\ p.sha256 = publisher[h].sha256
      BY <1>1, <2>5 DEF PublisherState
    <3>2. publisher[h].ok /\ publisher[h].todo = {part}
      BY <1>1, <2>5 DEF PublisherState, WritePart
    <3> HIDE DEF p
    <3> QED
      BY <1>1, <2>1, <2>2, <2>3, <2>5, <3>1, <3>2 DEF HandlerSound, Written
  <2>6. CASE left = {} /\ ~ok
    BY <2>6 DEF HandlerSound, Written, NoPublisher
  <2> QED
    BY <2>4, <2>5, <2>6
<1>7. publisher' = [publisher EXCEPT ![h] = p]
  BY <1>1, <1>2 DEF Settle
<1> HIDE DEF p, left, ok
<1> QED
  BY <1>1, <1>3, <1>4, <1>5, <1>6, <1>7, Frame

-----------------------------------------------------------------------------
(* The invariant.                                                          *)

LEMMA InitSafe == Init => Safe
<1> SUFFICES ASSUME Init
             PROVE  Safe
  OBVIOUS
<1>1. NewSubmission \in SubmissionRow /\ (\A s \in Submissions : Sound(NewSubmission, {}))
  BY DEF NewSubmission, SubmissionRow, SubmissionStatus, Sound
<1>2. /\ submissions \in [Submissions -> SubmissionRow] /\ RowsSound
      /\ submitted \subseteq Submissions
      /\ uploaded \in [Submissions -> SUBSET Packages]
      /\ desk \in [Desks -> ReviewRequest \cup UnhideRequest \cup {NoDesk}]
  BY <1>1 DEF Init, ReviewInit, RowsSound
<1>3. faults \in 0 .. MaxFaults
  BY FaultsAssumption DEF Init
<1>4. NoKit \in KitRow /\ (Legacy # {} => LegacyKit \in KitRow)
  <2>1. NoKit \in KitRow
    BY KitBoundsAssumption DEF NoKit, KitRow, KitStatus, Terms
  <2>2. Legacy # {} => 1 \in 0 .. MaxVersion
    BY KitBoundsAssumption, LegacyAssumption
  <2> QED
    BY <2>1, <2>2 DEF LegacyKit, KitRow, KitStatus
<1>5. kits \in [Kits -> KitRow]
  BY <1>4 DEF Init
<1>6. /\ versions \in [Kits -> [Versions -> Packages \cup {None}]]
      /\ packageS3Key \in [Kits -> [Versions -> Submissions \cup {None}]]
      /\ VersionsWereValidated
  BY LegacyAssumption, ValidAssumption, NoneAssumption
    DEF Init, VersionsWereValidated, Versions
<1>7. publisher \in [Publishers -> PublisherState] /\ HandlersSound
  BY <1>4
    DEF Init, NoPublisher, PublisherState, HandlersSound, HandlerSound, Written
<1> QED
  BY <1>2, <1>3, <1>5, <1>6, <1>7 DEF Safe, TypeOK

LEMMA NextSafe == Safe /\ [Next]_vars => Safe'
<1> SUFFICES ASSUME Safe, [Next]_vars
             PROVE  Safe'
  OBVIOUS
<1>1. publisher \in [Publishers -> PublisherState] /\ faults \in 0 .. MaxFaults
  BY DEF Safe, TypeOK
<1>2. CASE \E s \in Submissions : Submit(s)
  <2>1. DeskStays
    BY <1>2 DEF Submit, CreateSubmission, DeskStays, UploadsGrow, Safe, TypeOK
  <2>2. UNCHANGED <<submissions, faults, kits, versions, packageS3Key, publisher>>
    BY <1>2 DEF Submit, CreateSubmission, catalog
  <2> QED
    BY <1>1, <2>1, <2>2, Frame, NothingWritten
<1>3. CASE ReviewStep /\ UNCHANGED <<faults, catalog, publisher>>
  <2>1. RowsStay /\ DeskStays
    BY <1>3, ReviewWrites, WrittenRows, UnpublishedRows
      DEF Safe, RowsStay, DeskStays
  <2>2. UNCHANGED <<faults, kits, versions, packageS3Key, publisher>>
    BY <1>3 DEF catalog
  <2> QED
    BY <1>1, <2>1, <2>2, Frame, NothingWritten
<1>4. CASE \E h \in Publishers : PublishStep(h)
  BY <1>4, ChecksSafe, CommitSafe, PartSafe DEF PublishStep
<1>5. CASE KitStep
  <2>1. KitsGrow
    BY <1>5, KitWrites, ModeratedKits DEF Safe, KitsGrow
  <2>2. UNCHANGED <<submissions, submitted, uploaded, faults, versions,
                        packageS3Key, publisher>> /\ DeskStays
    BY <1>5, KitWrites DEF Safe, DeskStays, UploadsGrow, TypeOK
  <2> QED
    BY <1>1, <2>1, <2>2, Frame, NothingWritten
<1>6. CASE UNCHANGED vars
  BY <1>1, <1>6, Frame, NothingWritten DEF vars
<1> QED
  BY <1>2, <1>3, <1>4, <1>5, <1>6 DEF Next

LEMMA SafeAlways == Spec => []Safe
  BY InitSafe, NextSafe, PTL DEF Spec

\* The rows of the three tables and the handlers' local state keep their
\* types, whatever the review desk, publications and owners do to them.
THEOREM PublicationTypeCorrect == Spec => []TypeOK
<1>1. Safe => TypeOK
  BY DEF Safe
<1> QED
  BY <1>1, SafeAlways, PTL

\* The hash of a published version is that of a package that was uploaded under
\* the key the version points to and passed validation, in either adapter and
\* however uploads, re-validations and failures interleave with publications.
THEOREM ValidatedOnly == Spec => []VersionsWereValidated
<1>1. Safe => VersionsWereValidated
  BY DEF Safe
<1> QED
  BY <1>1, SafeAlways, PTL

\* Whenever publish answers 200, kit and version are in the tables.
THEOREM AnswersTrue == Spec => []AnsweredIsPublished
<1>1. Safe => AnsweredIsPublished
  BY DEF Safe, HandlersSound, HandlerSound, Written, AnsweredIsPublished,
      VersionRow
<1> QED
  BY <1>1, SafeAlways, PTL

-----------------------------------------------------------------------------
(* What an atomic write may rely on, in either deployment.                 *)

\* A submission and a version are written by one request at a time.
LEMMA Writers ==
  ASSUME Safe, [Next]_vars
  PROVE  /\ \/ WroteOne
            \/ \E h \in Publishers : publisher[h].pc = "write" /\ WriteSubmission(h)
         /\ \/ UNCHANGED versions
            \/ \E h \in Publishers : publisher[h].pc = "write" /\ WriteVersion(h)
<1>1. CASE \E s \in Submissions : Submit(s)
  BY <1>1 DEF Submit, CreateSubmission, catalog, WroteOne
<1>2. CASE ReviewStep /\ UNCHANGED <<faults, catalog, publisher>>
  BY <1>2, ReviewWrites DEF catalog, Safe
<1>3. ASSUME NEW h \in Publishers, PublishStep(h)
      PROVE  /\ \/ UNCHANGED submissions
                \/ publisher[h].pc = "write" /\ WriteSubmission(h)
             /\ \/ UNCHANGED versions
                \/ publisher[h].pc = "write" /\ WriteVersion(h)
  <2>1. CASE Commit(h) \/ \E part \in Parts : WritePart(h, part)
    BY <2>1 DEF Commit, WritePart, catalog
  <2> QED
    BY <1>3, <2>1 DEF PublishStep, BeginPublish, CheckTarget, CheckDuplicate,
      SelectKit, EndPublish, PublisherCrash, reviewVars, catalog
<1>4. CASE \E h \in Publishers : PublishStep(h)
  BY <1>3, <1>4 DEF WroteOne
<1>5. CASE KitStep
  BY <1>5, KitWrites DEF Safe, WroteOne
<1>6. CASE UNCHANGED vars
  BY <1>6 DEF vars, WroteOne
<1> QED
  BY <1>1, <1>2, <1>4, <1>5, <1>6 DEF Next

\* "AND status <> 'published'" is part of the UPDATEs of archiveSubmission and
\* cancelSubmission: a submission that was published after such a request had
\* looked at it is not withdrawn, for any number of requests at the same time.
THEOREM PublishedStays == Spec => PublishedIsNotWithdrawn
<1>1. ASSUME Safe, [Next]_vars, NEW s \in Submissions,
             submissions[s].status = "published"
      PROVE  submissions'[s].status \notin {"archived", "canceled"}
  <2>1. CASE WroteOne
    BY <1>1, <2>1 DEF WroteOne, Write, Reviewed, Safe, TypeOK
  <2>2. ASSUME NEW h \in Publishers, WriteSubmission(h)
        PROVE  submissions'[s].status = "published"
    <3>1. \A row \in SubmissionRow : MarkedPublished(row).status = "published"
      BY DEF MarkedPublished, SubmissionRow
    <3> QED
      BY <1>1, <2>2, <3>1 DEF WriteSubmission, Write, Safe, TypeOK
  <2> QED
    BY <1>1, <2>1, <2>2, Writers
<1>2. Safe /\ [Next]_vars =>
        [\A s \in Submissions :
           submissions[s].status = "published" =>
             submissions'[s].status \notin {"archived", "canceled"}]_vars
  BY <1>1
<1> QED
  BY <1>2, SafeAlways, PTL DEF Spec, PublishedIsNotWithdrawn

\* Past the search for its hash, a request knows of no other version with it.
NoneElse(p) ==
  \A k \in Kits, v \in Versions :
    versions[k][v] = p.sha256 => k = KitOf[p.submission] /\ v = VersionOf[p.submission]

Searched ==
  \A h \in Publishers : publisher[h].pc \in {"select", "write"} => NoneElse(publisher[h])

\* What a publish request does between its checks and its writes.
LEMMA RequestSteps ==
  ASSUME Safe, NEW h \in Publishers, PublishStep(h),
         publisher'[h].pc \in {"select", "write"}
  PROVE  /\ publisher'[h].submission = publisher[h].submission
         /\ publisher'[h].sha256 = publisher[h].sha256
         /\ publisher[h].pc \notin {"select", "write"} =>
              /\ UNCHANGED versions
              /\ publisher[h].pc = "duplicate"
              /\ LET s == publisher[h].submission
                     found == {kv \in Kits \X Versions :
                                 versions[kv[1]][kv[2]] = publisher[h].sha256} IN
                 found = {} \/ <<KitOf[s], VersionOf[s]>> \in found
<1>1. publisher \in [Publishers -> PublisherState]
  BY DEF Safe, TypeOK
<1>2. publisher'[h] # NoPublisher
  BY DEF NoPublisher
<1>3. CASE CheckDuplicate(h)
  BY <1>1, <1>2, <1>3 DEF CheckDuplicate, PublisherState, catalog
<1>4. CASE CheckTarget(h) \/ SelectKit(h)
  BY <1>1, <1>2, <1>4 DEF CheckTarget, SelectKit, PublisherState
<1>5. CASE \E s \in Submissions : BeginPublish(h, s)
  BY <1>1, <1>5 DEF BeginPublish, NoPublisher, PublisherState
<1>6. CASE Commit(h)
  BY <1>1, <1>2, <1>6 DEF Commit, PublisherState
<1>7. CASE \E part \in Parts : WritePart(h, part)
  BY <1>1, <1>2, <1>7 DEF WritePart, Settle, PublisherState
<1>8. CASE EndPublish(h) \/ PublisherCrash(h)
  BY <1>1, <1>2, <1>8 DEF EndPublish, PublisherCrash
<1> QED
  BY <1>3, <1>4, <1>5, <1>6, <1>7, <1>8 DEF PublishStep

\* Where publications follow one another, nothing is published between the
\* search of one and its write.
LEMMA UniqueStep ==
  ASSUME \A g, h \in Publishers : g = h,
         Safe, PackagesAreUnique, Searched, [Next]_vars
  PROVE  PackagesAreUnique' /\ Searched'
<1>t. /\ versions \in [Kits -> [Versions -> Packages \cup {None}]]
      /\ publisher \in [Publishers -> PublisherState]
  BY DEF Safe, TypeOK
<1>1. CASE \E h \in Publishers : PublishStep(h)
  <2> PICK h \in Publishers : PublishStep(h)
    BY <1>1
  <2> DEFINE s == publisher[h].submission
  <2>1. ASSUME WriteVersion(h), publisher[h].pc = "write"
        PROVE  /\ KitOf[s] \in Kits /\ VersionOf[s] \in Versions
               /\ versions'[KitOf[s]][VersionOf[s]] = publisher[h].sha256
               /\ \A k \in Kits, v \in Versions :
                    (k = KitOf[s] /\ v = VersionOf[s]) \/ versions'[k][v] = versions[k][v]
    <3>1. s \in Submissions
      BY <2>1 DEF Safe, HandlersSound, HandlerSound
    <3>2. KitOf[s] \in Kits /\ VersionOf[s] \in Versions
      BY <3>1, KitOfAssumption, VersionOfAssumption DEF Versions
    <3> QED
      BY <1>t, <2>1, <3>2 DEF WriteVersion
  <2>2. UNCHANGED versions \/ (publisher[h].pc = "write" /\ WriteVersion(h))
    BY Writers
  <2>3. PackagesAreUnique'
    <3>1. CASE UNCHANGED versions
      BY <3>1 DEF PackagesAreUnique
    <3>2. CASE publisher[h].pc = "write" /\ WriteVersion(h)
      <4>1. NoneElse(publisher[h])
        BY <3>2 DEF Searched
      <4> QED
        BY <2>1, <3>2, <4>1 DEF PackagesAreUnique, NoneElse
    <3> QED
      BY <2>2, <3>1, <3>2
  <2>4. ASSUME publisher'[h].pc \in {"select", "write"}
        PROVE  NoneElse(publisher[h])'
    <3>1. CASE publisher[h].pc \in {"select", "write"}
      <4>1. NoneElse(publisher[h])
        BY <3>1 DEF Searched
      <4>2. /\ publisher'[h].submission = s
            /\ publisher'[h].sha256 = publisher[h].sha256
        BY <2>4, RequestSteps
      <4> QED
        BY <2>1, <2>2, <4>1, <4>2 DEF NoneElse
    <3>2. CASE publisher[h].pc \notin {"select", "write"}
      <4> DEFINE found == {kv \in Kits \X Versions :
                             versions[kv[1]][kv[2]] = publisher[h].sha256}
      <4>1. /\ UNCHANGED versions /\ publisher[h].pc = "duplicate"
            /\ publisher'[h].submission = s
            /\ publisher'[h].sha256 = publisher[h].sha256
            /\ found = {} \/ <<KitOf[s], VersionOf[s]>> \in found
        BY <2>4, <3>2, RequestSteps
      <4>2. publisher[h].sha256 # None
        BY <4>1, ValidAssumption, NoneAssumption DEF Safe, HandlersSound, HandlerSound
      <4>3. ASSUME NEW k \in Kits, NEW v \in Versions,
                   versions[k][v] = publisher[h].sha256
            PROVE  k = KitOf[s] /\ v = VersionOf[s]
        <5>1. <<k, v>> \in found
          BY <4>3
        <5>2. /\ KitOf[s] \in Kits /\ VersionOf[s] \in Versions
              /\ versions[KitOf[s]][VersionOf[s]] = publisher[h].sha256
          BY <4>1, <5>1
        <5> QED
          BY <4>2, <4>3, <5>2 DEF PackagesAreUnique
      <4> QED
        BY <4>1, <4>3 DEF NoneElse
    <3> QED
      BY <3>1, <3>2
  <2> QED
    BY <2>3, <2>4 DEF Searched
<1>2. CASE UNCHANGED <<versions, publisher>>
  BY <1>2 DEF PackagesAreUnique, Searched, NoneElse
<1>3. KitStep => UNCHANGED <<versions, publisher>>
  BY KitWrites DEF Safe
<1> QED
  BY <1>1, <1>2, <1>3 DEF Next, Submit, catalog, vars

\* findKitVersionBySha256 keeps a package that is in the catalog from being
\* published as another version: no two versions have one hash, as long as a
\* publish request ends before the next begins (the search and the INSERT are
\* apart, and no index on sha256 repeats the check) and the catalog began with
\* one kit of the legacy package at most.
THEOREM UniqueOneByOne ==
  ASSUME \A g, h \in Publishers : g = h,
         \A k, l \in Legacy : k = l
  PROVE  Spec => []PackagesAreUnique
<1>1. Init => PackagesAreUnique /\ Searched
  BY DEF Init, PackagesAreUnique, Searched, NoPublisher
<1>2. Safe /\ PackagesAreUnique /\ Searched /\ [Next]_vars
        => PackagesAreUnique' /\ Searched'
  BY UniqueStep
<1> QED
  BY <1>1, <1>2, SafeAlways, PTL DEF Spec

-----------------------------------------------------------------------------
(* One transaction per publication.                                        *)

\* With Postgres, the tables change in three ways only.
LEMMA StepKinds ==
  ASSUME Safe, Transactional, [Next]_vars
  PROVE  \/ \E h \in Publishers : /\ publisher[h].pc = "write"
                                  /\ WriteKit(h) /\ WriteVersion(h)
                                  /\ WriteSubmission(h)
         \/ WroteOne /\ UNCHANGED <<kits, versions>>
         \/ ModeratedOne /\ UNCHANGED <<submissions, versions>>
<1>1. CASE \E s \in Submissions : Submit(s)
  BY <1>1 DEF Submit, CreateSubmission, catalog, WroteOne
<1>2. CASE ReviewStep /\ UNCHANGED <<faults, catalog, publisher>>
  BY <1>2, ReviewWrites DEF catalog, Safe
<1>3. ASSUME NEW h \in Publishers, PublishStep(h)
      PROVE  \/ /\ publisher[h].pc = "write"
                /\ WriteKit(h) /\ WriteVersion(h) /\ WriteSubmission(h)
             \/ UNCHANGED <<submissions, kits, versions>>
  BY <1>3 DEF PublishStep, BeginPublish, CheckTarget, CheckDuplicate, SelectKit,
    Commit, WritePart, EndPublish, PublisherCrash, reviewVars, catalog
<1>4. CASE \E h \in Publishers : PublishStep(h)
  BY <1>3, <1>4 DEF WroteOne
<1>5. CASE KitStep
  BY <1>5, KitWrites DEF Safe
<1>6. CASE UNCHANGED vars
  BY <1>6 DEF vars, WroteOne
<1> QED
  BY <1>1, <1>2, <1>4, <1>5, <1>6 DEF Next

\* What a transaction leaves, table by table.
LEMMA Transaction ==
  ASSUME Safe, NEW h \in Publishers, publisher[h].pc = "write",
         WriteKit(h), WriteVersion(h), WriteSubmission(h)
  PROVE  LET s == publisher[h].submission IN
         /\ s \in Submissions /\ publisher[h].sha256 \in ValidPackages
         /\ \A k \in Kits :
              /\ kits'[k].status = IF k = KitOf[s] THEN "published"
                                                   ELSE kits[k].status
              /\ kits'[k].current = IF k = KitOf[s] THEN VersionOf[s]
                                                    ELSE kits[k].current
         /\ versions' = [versions EXCEPT ![KitOf[s]][VersionOf[s]] =
                           publisher[h].sha256]
         /\ \A t \in Submissions :
              submissions'[t].status = IF t = s THEN "published"
                                                ELSE submissions[t].status
<1> DEFINE s == publisher[h].submission
           old == publisher[h].existing
           kit == Republished(old, VersionOf[s], OrgOf(s))
<1>1. s \in Submissions /\ publisher[h].sha256 \in ValidPackages
  BY DEF Safe, HandlersSound, HandlerSound
<1>2. old \in KitRow
  BY DEF Safe, TypeOK, PublisherState
<1>3. kit.status = "published" /\ kit.current = VersionOf[s]
  BY <1>2 DEF Republished, KitRow
<1>4. kits' = [kits EXCEPT ![KitOf[s]] = kit] /\ KitOf[s] \in Kits
  BY <1>1, KitOfAssumption DEF WriteKit
<1>5. kits \in [Kits -> KitRow] /\ submissions \in [Submissions -> SubmissionRow]
  BY DEF Safe, TypeOK
<1>6. \A k \in Kits :
        /\ kits'[k].status = IF k = KitOf[s] THEN "published"
                                             ELSE kits[k].status
        /\ kits'[k].current = IF k = KitOf[s] THEN VersionOf[s]
                                              ELSE kits[k].current
  <2> HIDE DEF kit, s
  <2> QED
    BY <1>3, <1>4, <1>5
<1>7. \A t \in Submissions :
        submissions'[t].status = IF t = s THEN "published"
                                          ELSE submissions[t].status
  <2>1. MarkedPublished(submissions[s]).status = "published"
    BY <1>1, <1>5 DEF MarkedPublished, SubmissionRow
  <2> QED
    BY <1>1, <1>5, <2>1 DEF WriteSubmission, Write
<1> QED
  BY <1>1, <1>6, <1>7 DEF WriteVersion

LEMMA CompleteInit == Init => PublishedIsComplete
<1> SUFFICES ASSUME Init
             PROVE  PublishedIsComplete
  OBVIOUS
<1>1. \A s \in Submissions : submissions[s].status # "published"
  BY DEF Init, ReviewInit, NewSubmission
<1>2. ASSUME NEW k \in Kits, Exists(kits[k])
      PROVE  k \in Legacy /\ kits[k].current = 1
  BY <1>2 DEF Init, Exists, NoKit, LegacyKit
<1>3. \A k \in Legacy : 1 \in Versions /\ versions[k][1] = LegacyPackage
  BY LegacyAssumption, KitBoundsAssumption DEF Init, Versions
<1>4. LegacyPackage # None
  BY LegacyAssumption, ValidAssumption, NoneAssumption
<1> QED
  BY <1>1, <1>2, <1>3, <1>4 DEF PublishedIsComplete

LEMMA CompleteStep ==
  ASSUME Safe, Transactional, PublishedIsComplete, [Next]_vars
  PROVE  PublishedIsComplete'
<1>1. kits \in [Kits -> KitRow]
      /\ versions \in [Kits -> [Versions -> Packages \cup {None}]]
  BY DEF Safe, TypeOK
<1>2. \A s \in Submissions : KitOf[s] \in Kits /\ VersionOf[s] \in Versions
  BY KitOfAssumption, VersionOfAssumption DEF Versions
<1>3. ASSUME NEW h \in Publishers, publisher[h].pc = "write",
             WriteKit(h), WriteVersion(h), WriteSubmission(h)
      PROVE  PublishedIsComplete'
  <2> DEFINE s == publisher[h].submission
  <2>1. s \in Submissions /\ publisher[h].sha256 # None
    BY <1>3, Transaction, ValidAssumption, NoneAssumption
  <2>2. VersionsGrow /\ versions'[KitOf[s]][VersionOf[s]] # None
    BY <1>3, PublishedRows
  <2>3. \A t \in Submissions :
          submissions'[t].status = "published" => VersionRow(t)' # None
    BY <1>2, <1>3, <2>1, <2>2, Transaction
      DEF PublishedIsComplete, VersionRow, VersionsGrow
  <2>4. ASSUME NEW k \in Kits, Exists(kits'[k])
        PROVE  versions'[k][kits'[k].current] # None
    <3>1. CASE k = KitOf[s]
      BY <1>3, <2>1, <2>2, <3>1, Transaction
    <3>2. CASE k # KitOf[s]
      <4>1. kits'[k].current = kits[k].current /\ Exists(kits[k])
        BY <1>3, <2>4, <3>2, Transaction DEF Exists
      <4>2. versions'[k] = versions[k]
        BY <1>1, <1>2, <1>3, <2>1, <3>2, Transaction
      <4> QED
        BY <4>1, <4>2 DEF PublishedIsComplete
    <3> QED
      BY <3>1, <3>2
  <2> QED
    BY <2>3, <2>4 DEF PublishedIsComplete
<1>4. CASE WroteOne /\ UNCHANGED <<kits, versions>>
  BY <1>4, UnpublishedRows DEF Safe, PublishedIsComplete, VersionRow
<1>5. CASE ModeratedOne /\ UNCHANGED <<submissions, versions>>
  BY <1>5, ModeratedKits DEF Safe, PublishedIsComplete, VersionRow
<1> QED
  BY <1>3, <1>4, <1>5, StepKinds

\* publishSubmission of Postgres is atomic: a published submission has its
\* version and every kit points to a version that exists, at any moment.
THEOREM PublishComplete ==
  ASSUME Transactional
  PROVE  Spec => []PublishedIsComplete
<1>1. Safe /\ PublishedIsComplete /\ [Next]_vars => PublishedIsComplete'
  BY CompleteStep
<1> QED
  BY <1>1, CompleteInit, SafeAlways, PTL DEF Spec

-----------------------------------------------------------------------------
(* The contract.                                                           *)

LEMMA ContractInit == Init => Contract!Init
<1> SUFFICES ASSUME Init
             PROVE  Contract!Init
  OBVIOUS
<1>1. \A k \in Kits :
        /\ kits[k].status = IF k \in Legacy THEN "published" ELSE "absent"
        /\ kits[k].current = IF k \in Legacy THEN 1 ELSE 0
  BY DEF Init, NoKit, LegacyKit
<1>2. CatalogPublished = {}
  BY DEF Init, ReviewInit, NewSubmission, CatalogPublished
<1>3. versions = [k \in Kits |-> [v \in 1 .. MaxVersion |->
                    IF k \in Legacy /\ v = 1 THEN LegacyPackage ELSE None]]
  BY DEF Init, Versions
<1> QED
  BY <1>1, <1>2, <1>3 DEF Contract!Init, CatalogStatus, CatalogCurrent

\* Each kind of step is a step of the contract, or none.
LEMMA ContractStep ==
  ASSUME Safe, Transactional, [Next]_vars
  PROVE  [Contract!Next]_(Contract!contractVars)
<1> USE DEF Contract!contractVars
<1>1. ASSUME NEW h \in Publishers, publisher[h].pc = "write",
             WriteKit(h), WriteVersion(h), WriteSubmission(h)
      PROVE  Contract!Next
  <2> DEFINE s == publisher[h].submission
  <2>1. s \in Submissions /\ publisher[h].sha256 \in ValidPackages
    BY <1>1, Transaction
  <2>2. CatalogStatus' = [CatalogStatus EXCEPT ![KitOf[s]] = "published"]
    BY <1>1, Transaction DEF CatalogStatus
  <2>3. CatalogCurrent' = [CatalogCurrent EXCEPT ![KitOf[s]] = VersionOf[s]]
    BY <1>1, Transaction DEF CatalogCurrent
  <2>4. CatalogPublished' = CatalogPublished \cup {s}
    BY <1>1, Transaction DEF CatalogPublished
  <2>5. versions' = [versions EXCEPT ![KitOf[s]][VersionOf[s]] =
                       publisher[h].sha256]
    BY <1>1, Transaction
  <2>6. Contract!Publish(s, publisher[h].sha256)
    BY <2>2, <2>3, <2>4, <2>5 DEF Contract!Publish
  <2> QED
    BY <2>1, <2>6 DEF Contract!Next
<1>2. CASE WroteOne /\ UNCHANGED <<kits, versions>>
  <2>1. UNCHANGED <<CatalogStatus, CatalogCurrent>>
    BY <1>2 DEF CatalogStatus, CatalogCurrent
  <2>2. CASE UNCHANGED submissions
    BY <1>2, <2>1, <2>2 DEF CatalogPublished
  <2>3. ASSUME NEW s \in Submissions, NEW row \in SubmissionRow,
               Reviewed(submissions[s], row, uploaded[s]), Write(s, row)
        PROVE  CatalogPublished' = CatalogPublished
                 \/ CatalogPublished' = CatalogPublished \ {s}
    BY <2>3 DEF Safe, TypeOK, Reviewed, Write, CatalogPublished
  <2>4. \/ UNCHANGED CatalogPublished
        \/ \E s \in Submissions : CatalogPublished' = CatalogPublished \ {s}
    BY <1>2, <2>2, <2>3 DEF WroteOne, CatalogPublished
  <2> QED
    BY <1>2, <2>1, <2>4 DEF Contract!Next, Contract!Retract
<1>3. CASE ModeratedOne /\ UNCHANGED <<submissions, versions>>
  <2>1. UNCHANGED <<CatalogCurrent, CatalogPublished>>
    BY <1>3, ModeratedKits DEF Safe, CatalogCurrent, CatalogPublished
  <2>2. CASE UNCHANGED kits
    BY <1>3, <2>1, <2>2 DEF CatalogStatus
  <2>3. ASSUME NEW k \in Kits, NEW kit \in KitRow, Exists(kits[k]),
               Moderated(kits[k], kit), kits' = [kits EXCEPT ![k] = kit]
        PROVE  Contract!Moderate(k, kit.status)
                 /\ kit.status \in {"published", "hidden", "removed"}
    <3>1. kit.status \in {"published", "hidden", "removed"}
      BY <2>3 DEF Moderated, Exists, KitRow, KitStatus
    <3>2. CatalogStatus' = [CatalogStatus EXCEPT ![k] = kit.status]
      BY <2>3 DEF Safe, TypeOK, CatalogStatus
    <3>3. CatalogStatus[k] # "absent"
      BY <2>3 DEF CatalogStatus, Exists
    <3> QED
      BY <1>3, <2>1, <3>1, <3>2, <3>3 DEF Contract!Moderate
  <2> QED
    BY <1>3, <2>2, <2>3 DEF ModeratedOne, Contract!Next
<1> QED
  BY <1>1, <1>2, <1>3, StepKinds

\* Publishing with Postgres is the contract: kit, version and submission
\* change together, and nothing else moves a version.
THEOREM CatalogImplemented ==
  ASSUME Transactional
  PROVE  Spec => ImplementsCatalog
<1>1. Safe /\ [Next]_vars => [Contract!Next]_(Contract!contractVars)
  BY ContractStep
<1> QED
  BY <1>1, ContractInit, SafeAlways, PTL
    DEF Spec, ImplementsCatalog, Contract!Spec

=============================================================================
