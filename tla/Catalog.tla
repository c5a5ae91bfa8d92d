------------------------------- MODULE Catalog -------------------------------
(***************************************************************************)
(* The public catalog: GET /kits, which a visitor walks page by page while *)
(* kits are published, hidden, removed or made private, and the lookup of  *)
(* a kit by its slug.  Postgres pages by offset over the public rows in    *)
(* the order of kit_id; DynamoDB scans from key to key, and its Limit      *)
(* counts rows before the filter.                                          *)
(*                                                                         *)
(* Kits are numbered in the order of kit_id, or of DynamoDB's hash.  A     *)
(* publication is here the write of its kit row; Publication has the       *)
(* handler around it.                                                      *)
(***************************************************************************)
EXTENDS Paging

CONSTANTS
  MaxKits,
  Slugs,           \* slugs of kit names
  SlugsOf,         \* the slugs a kit is published under
  CatalogQueries   \* searches, each as the set of kits that match it

CatalogKits == 1 .. MaxKits

ASSUME CatalogAssumption ==
         /\ MaxKits \in Nat
         /\ SlugsOf \in [CatalogKits -> (SUBSET Slugs) \ {{}}]
         /\ CatalogQueries \subseteq SUBSET CatalogKits

ShelfRow ==
  [status : {"absent", "published", "hidden", "removed"},
   private : BOOLEAN, slug : Slugs]

VARIABLE shelf  \* the kits table

InTable(k) == shelf[k].status # "absent"
Public(k) == shelf[k].status = "published" /\ ~shelf[k].private

CatalogInit ==
  shelf = [k \in CatalogKits |->
             [status |-> "absent", private |-> FALSE,
              slug |-> CHOOSE slug \in SlugsOf[k] : TRUE]]

-----------------------------------------------------------------------------
SlugTaken(k, slug) ==
  \E l \in CatalogKits \ {k} : InTable(l) /\ shelf[l].slug = slug

\* Mutant: kits_slug_uidx is not UNIQUE.
PublishKitAnySlug(k, slug) ==
  shelf' = [shelf EXCEPT ![k].status = "published", ![k].slug = slug]

\* The kit row of publishSubmission, for the first time or again; the slug is
\* made from the name in the submission's listing.  Postgres has a unique index
\* on it, which fails the transaction.
PublishKit(k, slug) ==
  /\ adapter = "postgres" => ~SlugTaken(k, slug)
  /\ shelf' = [shelf EXCEPT ![k].status = "published", ![k].slug = slug]

\* hideKit and removeKit.
TakeDown(k, status) ==
  /\ InTable(k)
  /\ shelf' = [shelf EXCEPT ![k].status = status]

Unhide(k) ==
  /\ shelf[k].status = "hidden"
  /\ shelf' = [shelf EXCEPT ![k].status = "published"]

\* setKitVisibility.
SetPrivate(k) ==
  /\ InTable(k)
  /\ shelf' = [shelf EXCEPT ![k].private = ~@]

CatalogStep ==
  \E k \in CatalogKits :
    \/ \E slug \in SlugsOf[k] : PublishKit(k, slug)
    \/ TakeDown(k, "hidden") \/ TakeDown(k, "removed")
    \/ Unhide(k) \/ SetPrivate(k)

-----------------------------------------------------------------------------
InKeyOrder(S) == Ordered(S, <)

\* Mutant: hasMore is decided after the search filter.
ShelfOffsetPageFiltered(query, token) ==
  LET rows == InKeyOrder({k \in CatalogKits : Public(k)})
      page == Upto(After(rows, token), Limit)
      items == InKeyOrder(ToSet(page) \cap query) IN
  [items |-> items,
   next |-> IF Len(items) = Limit THEN token + Len(page) ELSE 0]

\* Mutant: a cursor unless the page is longer than the limit.
ShelfOffsetPageEndless(query, token) ==
  LET rows == InKeyOrder({k \in CatalogKits : Public(k)})
      page == Upto(After(rows, token), Limit) IN
  [items |-> InKeyOrder(ToSet(page) \cap query),
   next |-> IF Len(page) <= Limit THEN token + Len(page) ELSE 0]

\* Postgres: LIMIT limit OFFSET token; a full page implies there may be more.
\* The search is applied to the rows of the page.
ShelfOffsetPage(query, token) ==
  LET rows == InKeyOrder({k \in CatalogKits : Public(k)})
      page == Upto(After(rows, token), Limit) IN
  [items |-> InKeyOrder(ToSet(page) \cap query),
   next |-> IF Len(page) = Limit THEN token + Len(page) ELSE 0]

\* DynamoDB: the filter, then the search, on the Limit rows read.
ShelfKeyPage(query, token) ==
  LET rows == InKeyOrder({k \in CatalogKits : InTable(k) /\ k > token}) IN
  [items |-> InKeyOrder({k \in ToSet(Upto(rows, Limit)) : Public(k) /\ k \in query}),
   next |-> IF Len(rows) >= Limit THEN rows[Limit] ELSE 0]

\* getPublicKits.
CatalogPage(query, token) ==
  IF adapter = "postgres" THEN ShelfOffsetPage(query, token)
                          ELSE ShelfKeyPage(query, token)

CatalogListed(query) == {k \in query : Public(k)}

-----------------------------------------------------------------------------
\* getPublicKitBySlug: one row with the slug, whichever (LIMIT 1), answered
\* when it is public; 0 is 404.
Answers(slug) ==
  {IF Public(k) THEN k ELSE 0 :
     k \in {l \in CatalogKits : InTable(l) /\ shelf[l].slug = slug}}

CatalogTypeOK == shelf \in [CatalogKits -> ShelfRow]

\* A kit in the catalog is what its page shows: whoever asks for the slug of a
\* public kit gets that kit, whatever other kits were published, renamed,
\* hidden or removed under the same name (Postgres).
PublicKitIsFound ==
  adapter = "postgres" =>
    \A k \in CatalogKits : Public(k) => Answers(shelf[k].slug) = {k}

=============================================================================
