------------------------------ MODULE MCListings ------------------------------
(* Small instances of Listings for TLC: two kinds of audit events, a walk    *)
(* without filter or with those of the contract test; three kits, of which   *)
(* the second may take the name of the first.                                *)
EXTENDS Listings

Kind(actor, type, target, action) ==
  [actor |-> actor, type |-> type, target |-> target, action |-> action]

MCKinds == {Kind("a", "kit", "k", "published"),
            Kind("b", "submission", "s", "approved")}

All == [actor |-> Unset, type |-> Unset, target |-> Unset, action |-> Unset,
        since |-> Unset, until |-> Unset]

MCAuditQueries == {All, [All EXCEPT !.actor = "a", !.action = "published"],
                   [All EXCEPT !.type = "submission", !.target = "s",
                               !.action = "approved"],
                   [All EXCEPT !.action = "published", !.since = 1, !.until = 1]}

\* The review queue of Postgres is that of DynamoDB without the sweep.
MCLists == ({"audit", "catalog", "favorites"} \X Adapters) \cup {<<"queue", "dynamodb">>}

MCSlugsOf == [k \in CatalogKits |-> IF k = 2 THEN {1, 2} ELSE {k}]
MCCatalogQueries == {CatalogKits, {1, 3}}

=============================================================================
