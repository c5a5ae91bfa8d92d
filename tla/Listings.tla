------------------------------- MODULE Listings -------------------------------
(***************************************************************************)
(* The lists a client of the API reads: the audit log, the review queue,   *)
(* the public catalog, each walked page by page, and a user's favorites,   *)
(* answered in one piece.  No component of these reads a table of another, *)
(* so a behaviour exercises one of them, chosen at the beginning: a step   *)
(* of one is a stutter of the others.                                      *)
(***************************************************************************)
EXTENDS AuditLog, ReviewQueue, Catalog, Favorites

CONSTANT Lists  \* the lists a behaviour may be about, each with a deployment

ListNames == {"audit", "queue", "catalog", "favorites"}

ASSUME ListsAssumption == Lists \subseteq ListNames \X Adapters

VARIABLE list   \* the list of this behaviour

vars == <<deploymentVars, walkVars, list, events, queue, shelf, favoriteVars>>

Queries ==
  CASE list = "audit" -> AuditQueries
    [] list = "queue" -> QueueQueries
    [] list = "catalog" -> CatalogQueries
    [] OTHER -> {}

Rows == CASE list = "audit" -> Events
          [] list = "queue" -> Submissions
          [] list = "catalog" -> CatalogKits
          [] OTHER -> {}

\* The rows the client would be shown if its walk were one read, and the rows
\* that are cut into pages: the catalog is searched within a page.
Listed == CASE list = "audit" -> AuditListed(walk.query)
            [] list = "queue" -> QueueListed(walk.query)
            [] list = "catalog" -> CatalogListed(walk.query)
            [] OTHER -> {}

Paged == IF list = "catalog" THEN CatalogListed(CatalogKits) ELSE Listed

\* One read of the review queue does not return the whole table.
Cut == list = "queue" /\ Cardinality(Items) > ScanLimit

\* Before the first walk the query is any of the list's.
Init ==
  /\ DeploymentInit /\ list \in {l \in ListNames : <<l, adapter>> \in Lists}
  /\ PagingInit(IF Queries = {} THEN Unset ELSE CHOOSE q \in Queries : TRUE)
  /\ AuditInit /\ QueueInit /\ CatalogInit /\ FavoritesInit

-----------------------------------------------------------------------------
tables == <<events, queue, shelf, favoriteVars>>

Watch == Observe(Listed', Paged, Paged', Cut')

\* A step of one table.  What a walk has shown is looked at when it ends, and
\* then forgotten: nothing else happens in between that could make a difference.
TableStep(of) ==
  /\ list = of /\ walk.pc # "ended"
  /\ UNCHANGED <<deploymentVars, walk, list>>
  /\ Watch

AuditTurn == AuditStep /\ UNCHANGED <<queue, shelf, favoriteVars>> /\ TableStep("audit")
QueueTurn == QueueStep /\ UNCHANGED <<events, shelf, favoriteVars>> /\ TableStep("queue")
CatalogTurn ==
  CatalogStep /\ UNCHANGED <<events, queue, favoriteVars>> /\ TableStep("catalog")
FavoritesTurn ==
  FavoritesStep /\ UNCHANGED <<events, queue, shelf>> /\ TableStep("favorites")

TimePasses ==
  /\ walk.pc # "ended"
  /\ Tick
  /\ UNCHANGED <<tables, walk, list>>
  /\ Watch

ClientBegins ==
  /\ \E q \in Queries : BeginWalk(q)
  /\ UNCHANGED <<deploymentVars, tables, list>>
  /\ Watch

\* What the next request of the walk may be answered.  A read of the review
\* queue may be cut short.
Pages ==
  CASE list = "audit" -> {AuditPage(walk.query, walk.token)}
    [] list = "queue" -> {QueuePage(S, walk.token) : S \in Reads(walk.query)}
    [] list = "catalog" -> {CatalogPage(walk.query, walk.token)}
    [] OTHER -> {}

ReadPage ==
  /\ walk.pc = "walking"
  /\ UNCHANGED <<deploymentVars, tables, list>>
  /\ \E page \in Pages : Turn(page)
  /\ Watch

ClientForgets ==
  /\ EndWalk
  /\ UNCHANGED <<deploymentVars, tables, list>>
  /\ Watch

Next ==
  \/ AuditTurn \/ QueueTurn \/ CatalogTurn \/ FavoritesTurn \/ TimePasses
  \/ ClientBegins \/ ReadPage \/ ClientForgets

\* A client that asks for the next page as long as it is given a token.
Spec == Init /\ [][Next]_vars /\ WF_vars(ReadPage)

-----------------------------------------------------------------------------
\* Type invariant of the tables and the walk.
TypeOK ==
  /\ <<list, adapter>> \in Lists /\ now \in Times
  /\ AuditTypeOK /\ QueueTypeOK /\ CatalogTypeOK /\ FavoritesTypeOK
  /\ walk \in WalkState(Rows, Queries \cup {Unset})
  /\ watch \in WatchState(Rows)

\* Whether a token is an offset, which a row that leaves or enters shifts.
ByOffset == list = "queue" \/ adapter = "postgres"

\* A walk to the last page has shown every row that was in the list all the
\* time, whatever else came into it: an event stamped early and recorded late,
\* a new submission, a kit published meanwhile.  Where tokens are offsets this
\* needs that no row went out of the list, and the review queue needs a table
\* that one read returns.
WalkIsComplete ==
  walk.pc = "ended" /\ ~watch.cut /\ (ByOffset => ~watch.left)
    => watch.still \subseteq Seen

\* A walk shows no row twice.  Where tokens are offsets this needs that no row
\* came into the list.
WalkDoesNotRepeat ==
  ~watch.cut /\ (ByOffset => ~watch.entered)
    => Cardinality(Seen) = Len(walk.seen)

\* "Newest first": with the key pages of DynamoDB the events of a whole walk
\* over the audit log, not only of a page, come in strictly decreasing order.
WalkIsOrdered ==
  list = "audit" /\ adapter = "dynamodb" =>
    \A i, j \in DOMAIN walk.seen : i < j => Newer(walk.seen[i], walk.seen[j])

\* A client that follows the tokens comes to a last page, although the list
\* changes and pages may be empty.
WalkEnds == walk.pc = "walking" ~> walk.pc = "ended"

\* What the TTL takes out of the table was never marked as handed in, and if it
\* still waits for its upload the default queue does not show it any more: the
\* seconds of the sweep and the milliseconds of the lazy expiry agree.  It may
\* be a submission whose mark is still to come or never will.
SweepSparesHandedIn ==
  [][\A s \in Stored : queue'[s].status = "swept" =>
       /\ ~queue[s].handedIn
       /\ queue[s].status = "awaiting_upload" => Hidden(s)]_queue

=============================================================================
