------------------------------- MODULE KitTable -------------------------------
(***************************************************************************)
(* The rows of the `kits` table and the single-statement writes to them.   *)
(* A kit's validation and review status are constants of publishSubmission *)
(* and its owner is its first submitter for good, so they are left out;    *)
(* slug, texts, licence and timestamps too.                                *)
(***************************************************************************)
EXTENDS Naturals

CONSTANTS
  Orgs,
  NoOrg,         \* a kit without owning org
  MaxVersion,    \* bound on version numbers
  MaxDownloads   \* bound on the download counter

ASSUME NoOrgAssumption == NoOrg \notin Orgs
ASSUME KitBoundsAssumption == MaxVersion \in Nat /\ MaxDownloads \in Nat

\* "removed" is a soft delete; "absent" means there is no row.
KitStatus == {"absent", "published", "hidden", "removed"}

\* Pricing as far as downloads and the publish path tell it apart: "online" is
\* a paid kit, "open" a paid kit marked downloadable, "trial" a paid
\* subscription with trialDays.
Terms == {"free", "online", "open", "trial"}

KitRow ==
  [status : KitStatus, current : 0 .. MaxVersion, ownerOrg : Orgs \cup {NoOrg},
   visibility : {"public", "private"}, terms : Terms,
   downloads : 0 .. MaxDownloads]

\* No row; the other fields are what publishSubmission assumes of a new kit.
NoKit ==
  [status |-> "absent", current |-> 0, ownerOrg |-> NoOrg,
   visibility |-> "public", terms |-> "free", downloads |-> 0]

\* A kit published before organizations were introduced.
LegacyKit == [NoKit EXCEPT !.status = "published", !.current = 1]

Exists(kit) == kit.status # "absent"

\* publishSubmission builds the whole row from the one it read before: status
\* and version are new, what the owner set is copied, except trialDays, which
\* the copied fields do not include.
Republished(existing, version, org) ==
  [existing EXCEPT !.status = "published", !.current = version,
                   !.ownerOrg = IF @ = NoOrg THEN org ELSE @,
                   !.terms = IF @ = "trial" THEN "online" ELSE @]

\* isPublicKit and isKitDownloadable.
Downloadable(kit) ==
  kit.status = "published" /\ kit.terms \in {"free", "open"}

=============================================================================
