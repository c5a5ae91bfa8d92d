--------------------------- MODULE CatalogContract ---------------------------
(***************************************************************************)
(* What publishing promises when it is one transaction, without handlers,  *)
(* failures or stale reads: a submission becomes published in the same     *)
(* step in which its kit points to its version and the version is recorded *)
(* with the hash of a package that passed.  Afterwards the kit may be      *)
(* hidden or removed and the submission may lose its status (rejected, or  *)
(* validated again), but neither changes what the catalog holds.           *)
(***************************************************************************)
EXTENDS Naturals

CONSTANTS Submissions, Kits, KitOf, VersionOf, MaxVersion, ValidPackages, None,
          Legacy, LegacyPackage

VARIABLES
  status,    \* of a kit
  current,   \* the version a kit points to
  versions,  \* the hash recorded with each version of each kit
  published  \* the submissions that count as published

contractVars == <<status, current, versions, published>>

Init ==
  /\ status = [k \in Kits |-> IF k \in Legacy THEN "published" ELSE "absent"]
  /\ current = [k \in Kits |-> IF k \in Legacy THEN 1 ELSE 0]
  /\ versions = [k \in Kits |-> [v \in 1 .. MaxVersion |->
                   IF k \in Legacy /\ v = 1 THEN LegacyPackage ELSE None]]
  /\ published = {}

Publish(s, package) ==
  /\ status' = [status EXCEPT ![KitOf[s]] = "published"]
  /\ current' = [current EXCEPT ![KitOf[s]] = VersionOf[s]]
  /\ versions' = [versions EXCEPT ![KitOf[s]][VersionOf[s]] = package]
  /\ published' = published \cup {s}

Moderate(k, new) ==
  /\ status[k] # "absent"
  /\ status' = [status EXCEPT ![k] = new]
  /\ UNCHANGED <<current, versions, published>>

Retract(s) ==
  /\ published' = published \ {s}
  /\ UNCHANGED <<status, current, versions>>

Next ==
  \/ \E s \in Submissions, package \in ValidPackages : Publish(s, package)
  \/ \E k \in Kits, new \in {"published", "hidden", "removed"} : Moderate(k, new)
  \/ \E s \in Submissions : Retract(s)

Spec == Init /\ [][Next]_contractVars

=============================================================================
