# Verification of agentkitmarket-core

TLA+ models of the marketplace core in `src/`, the TLC runs that check them, and TLAPS proofs. Paths below are relative to the repository's `src/` directory unless they start with `test/`, `docs/` or `charts/`.

## The system

One code base serves two deployments. Hosted: API Gateway and Lambda, DynamoDB, S3, SQS. Self-hosted: an HTTP server and worker processes with Postgres, MinIO and Redis; the Helm chart runs several replicas of both (`charts/agentkitmarket/README.md`). `core/` holds the request handlers and the validation job; it talks to stores through the ports of `core/ports.ts`, which `adapters/aws` and `adapters/selfhost` implement.

A handler is a sequence of `await`ed statements. No handler holds a lock over two statements, and only two operations of the Postgres adapter open a transaction (`publishSubmission`, `insertOrgWithOwner`); nothing in the DynamoDB adapter uses `TransactWriteItems`. So the hard part of this code is what happens *between* two statements: another handler or worker runs, a statement fails or its reply is lost, the process dies.

| component | state | operations | interacts with |
|---|---|---|---|
| intake (`core/routes/index.ts` 476-557) | `submissions` | create a submission, presign the upload | review desk, pipeline |
| validation pipeline (routes 559-588, `core/services/validation.ts`, `adapters/selfhost/queue.ts`, `entrypoints/worker.ts`, `entrypoints/lambda-worker.ts`) | `submissions`, `validation_jobs`, Redis lists or SQS, the uploaded object | validate, run a job | queue, object store |
| review desk (routes 590-787) | `submissions` | list, approve, reject, archive, cancel | pipeline writes the same row |
| publication and kits (routes 799-1109, 1456-1489, 1673-1725) | `kits`, `kit_versions`, `submissions` | publish, hide, unhide, remove, transfer, pricing, visibility, download | review desk, organizations |
| organizations (routes 1178-1452) | `organizations`, `org_memberships`, `org_invites` | create, personal org, invite, accept, remove, delete, transfer | kits |
| entitlements (routes 1727-1886) | `entitlements` | grant, revoke, subscription events, licensed package | kits, Stripe events forwarded by the app |
| audit log (routes 1950-2042) | `audit_logs` | best-effort record, filtered paged list | every mutation |
| favorites (routes 1602-1666) | `favorites` | add, remove, list | kits |
| review queue (routes 590-628, 2086-2162) | reads `submissions` | paged list, newest first | review desk, pipeline, the TTL of DynamoDB |
| catalog (routes 426-474) | reads `kits` | paged list, search, detail by slug | publication and kits |
| payouts (routes 1500-1558) | Stripe columns of `organizations` | report of an account, status, lookup by account | organizations (deletion), the app's Stripe webhook |
| routing, configuration, object stores, ZIP injection, charts | none of their own | | |

What makes each one correct: a job is run once and its verdict reaches its submission; a submission is decided on its own validated package; what is published is complete, validated and stays as its owner set it; an org has one slug and an owner, and nothing is left of it once it is deleted; a kit is not left to an org that is gone; a buyer's watermark is stable; a walk over a paged list misses nothing and ends; a public kit is found under its slug; a submission that was handed in is not swept; the date of a first onboarding and that of a favorite stay.

## Modules

`MC...` modules give the constants of a module small values for TLC. The modules below are listed in the order they build on each other.

| module | models | correspondence |
|---|---|---|
| `Faults` | statements and their outcomes | `done`, `refused`, or `lost`: executed although the caller sees an error. `faults` counts what went wrong, up to `MaxFaults`. |
| `SubmissionTable` | rows of `submissions` and `validation_jobs` | one operator per single-statement write of the `AdminRepository` port: a function from the row it finds to the row it leaves. |
| `ValidationRun` | the validate handler and one run of `runValidationJob` | `request[r].pc` and `run[w].pc` name the next statement; one action per statement, with an outcome from `Faults`. |
| `RedisPipeline` | the self-hosted pipeline | adds `pending` and `processing`, the two Redis lists; BRPOPLPUSH is `Pop`, LREM is `Acknowledge`; `WorkerCrash` restarts a worker. |
| `SqsPipeline` | the hosted pipeline | adds the `messages` SQS holds and those of them that are `visible`, the batch of each invocation, and the state of the DynamoDB row (TTL, upsert of a missing row). A message may be delivered to a second invocation; the first of the two that returns deletes it for both. `decided` and `shared` are history: the jobs a run of which went through, and those two invocations had at once. |
| `ValidationContract` | what the pipeline promises | no queue, worker or failure: a job is opened, taken up once, decided, and shown. |
| `ReviewDesk` | decisions on a submission | `Begin...` reads and checks, `Finish...` writes; of the pipeline only its two writes to the row. `Upload` puts another package under the submission's key, `uploaded` remembers all that were there. |
| `KitTable` | rows of `kits` | `Republished` is the row `publishSubmission` builds from the one it read. |
| `Publication` | `ReviewDesk` composed with the publish handler and the operations on kits | `publisher[h].pc` is the handler's position; `Commit` is the Postgres transaction, `WritePart` and `Settle` the `Promise.all` of DynamoDB. A version row is its hash and its `packageS3Key`, the key of the submission's object, which is not copied. |
| `CatalogContract` | what publishing promises | no handler, failure or stale read: a publication moves kit, version (with the hash recorded in it) and submission in one step; kits are moderated, submissions lose their status. |
| `Organizations` | orgs, memberships, invites, owned kits | `handler[h].pc` is the next statement; adapter by the constant `Postgres`. Marking somebody removed who is no member makes a row without a role on DynamoDB, which `MembersOf` does not see; `BeginPersonal` of DynamoDB may look into an index that lags. `late` is history: the rows written to an org while or after it was deleted. |
| `Deployment` | the deployment of a behaviour and its clock | `adapter` is chosen initially, so that one run covers both; `Overlapping` names the deployments whose requests are served at the same time. |
| `Entitlements` | grants, events, licensed packages | the ids handed out in watermarks are remembered in `issued`. |
| `Payouts` | the Stripe fields of an organization | `report[h].pc` is the next statement of `setOrgStripeAccount`; a row is there, deleted, or a `ghost` that UpdateItem made of a deleted one. |
| `Payments` | `Entitlements` and `Payouts` side by side | a behaviour is about buyers or about sellers: neither reads what the other writes. |
| `Paging` | a client that walks a list page by page | `walk` is the client's state; `watch` remembers which rows were listed all the while, and whether one came or went. |
| `AuditLog` | recording and listing events | `OffsetPage` and `KeyPage` are the list operations of the two adapters. |
| `ReviewQueue` | the submissions as the admin's list sees them | the writes of intake, pipeline and review desk reduced to what `filterAdminSubmissions` looks at. Every write is a step of its own that may come at any time after the row was there, as the read before it was; on a row the TTL has taken it leaves a `stub`, an item that is no submission. `Sweep` is the TTL, in seconds, of a clock that ticks finer (`Second`). `Scans` is the one read of at most 100 items. |
| `Catalog` | the kits as visitors see them | `ShelfOffsetPage` and `ShelfKeyPage` are `listKits` of the adapters, `Answers` is the lookup by slug. |
| `Favorites` | a user's favorites | upsert, or get and put. |
| `Listings` | the four of them and the walking client | a behaviour is about one list of one deployment (`Lists`), as no list reads another's table. |
| `ValidationRunProofs` | lemmas on the building blocks of `ValidationRun`, for both pipelines | |
| `RedisPipelineProofs` | theorems about the queue of `RedisPipeline` | |
| `RedisVerdictProofs` | theorems about its verdicts, and the refinement | |
| `SqsPipelineProofs` | theorems about `SqsPipeline` | |
| `PublicationProofs` | theorems about `Publication`, and its refinement | |
| `OrganizationsProofs` | theorems about `Organizations` | |
| `PaymentsProofs` | theorems about `Payments` | |
| `ListingsProofs` | theorems about `Listings` | |

The order of a list (`Paging`) is not that of a sorting function but defined by ranks: the i-th row is the one that has i - 1 rows before it. A sort of a set by an arbitrary comparison is a definition the prover knows nothing about, a rank is a cardinality. The rows of a page that pass a filter are the set of them in the same order.

Each mutated form of a definition ("Mutant:" in its comment) stands before the definition it mutates; no specification uses one.

Abstractions. A package is a value, and its SHA-256 is the package itself (no collisions). Versions are numbers. Names, notes, texts and timestamps are left out, except the times that an expiry, a sort order or `addedAt` depends on. Random ids are fresh. Authorization by header is left out; roles stored in tables are modelled. DynamoDB reads by key are taken as consistent with earlier writes. Reads of an index may lag: that is modelled where a creation depends on it (`ownerUserId-index`, `BeginPersonal`); the search for a hash (`sha256-index`) is taken as consistent, as `PackagesAreUnique` is checked and proved of one publication after another. A read and a check in one statement's reply are one action; statements that read tables nothing in the module changes are merged with the next one.

## Runs

| run | question | result |
|---|---|---|
| `RedisPipeline` | 2 submissions, 2 jobs, 2 validate requests, 2 workers, 2 faults | type invariant; `OneWorkerPerJob`; `PassedHasValidHash`; `VerdictBacked`; `MarkedJobIsNotLost`; refinement `ImplementsContract` |
| `RedisPipelineLive` | 1 submission, 2 jobs, 2 requests, 2 workers, no fault, fairness | `PushedJobsFinish` |
| `RedisPipelineRace` | the same without fairness | `MarkingAdvances` is violated (below) |
| `SqsPipeline` | 1 submission, 2 jobs, batches of 2, 2 invocations, 1 package, 2 faults, fairness | type invariant; `MarkedJobIsNotLost`, `PushedJobsFinish`, although a message is delivered twice and one of its invocations fails, say |
| `PublicationPg` | new kit and update, 1 publisher, 1 desk, 1 fault, Postgres | `PublishedIsComplete`, `VersionsWereValidated`, `AnsweredIsPublished`, `PackagesAreUnique`; refinement `ImplementsCatalog` |
| `PublicationDynamo` | update of an existing kit, owner operations, 2 desks, 1 fault, DynamoDB | `AnsweredIsPublished`, `PublishedIsNotWithdrawn` |
| `PublicationOrg` | update and transfer, Postgres | `UpdateKeepsOwnerOrg` is violated (below) |
| `OrganizationsPg` | 2 handlers, 2 orgs to create, 2 users, Postgres | `SlugsAreUnique`, `OwnerIsNotRemoved`, `OwnerHasRow`, `DeletionIsComplete`, `RemovedStaysOut` |
| `OrganizationsDynamo` | 1 handler, 2 orgs, 2 users, 1 kit, 1 fault, DynamoDB | `DeletionIsComplete`, after deletions that died in between and with rows without a role |
| `OrganizationsKits` | 2 handlers, an org with a kit, another to create, Postgres | `KitOwnerExists` is violated (below) |
| `Payments` | 1 user, 1 kit, 2 ids, 2 subscriptions, 2 handlers; 2 orgs, 2 accounts, 2 reports; both deployments | `WatermarkIsStable`, `OnboardedAtIsKept` |
| `Listings` | 3 events, submissions or kits, 2 kits as favorites, 3 times, 2 ticks to the second, page size 1, fairness of the client; both deployments | `WalkIsComplete`, `WalkDoesNotRepeat`, `WalkIsOrdered`, `WalkEnds`, `PublicKitIsFound`, `SweepSparesHandedIn`, `AddedAtIsPreserved` |

Bounds. Every race in this code is between two actors on one row, and needs no more than one statement of each inside the other, so two workers, two requests and two handlers are enough to meet it; a second submission or kit shows that writes stay on their own row. One fault is enough to separate any two consecutive statements; the pipelines allow two, so that a catch block can fail as well, and so that a second delivery, which counts as a fault, can meet an invocation that fails or dies. In `Publication` an upload may be any package the submission is given in the configuration; a valid one may still fail its validation (the object could not be read), an invalid one always does. Jobs, ids, versions, downloads, clock ticks and events are bounded by the size of their sets (`Jobs`, `Ids`, `MaxVersion`, `MaxDownloads`, `MaxTime`, `MaxEvents`, `MaxSubmissions`, `MaxKits`); a request that would need another one simply does not come. A job id is drawn once, so `Jobs` bounds the validations of a behaviour. Symmetry is used for workers, requests, jobs, desks and handlers, and in `OrganizationsPg` for orgs and users, in runs without liveness. Page size 1 with three rows makes a walk cross two page boundaries while rows come and go; the read limit of the review queue, 100 in the code, is 2, so that a table of three submissions exceeds it. With two ticks to the second an expiry that the lazy check compares in milliseconds, and the TTL in seconds, can differ by the part of a second that was rounded off (`Ttl` = 2 ticks, `MaxTime` = 2). `Listings` leaves out the review queue of Postgres, which is that of DynamoDB without the sweep. Organizations of `Payments` are not created anew, so its behaviours end when all are deleted and nothing is under way; every other passing run is checked for deadlock.

Where a run serves one request after another (DynamoDB for the grants of `Payments` and the favorites of `Listings`; one publisher in `PublicationPg`), that is because the property does not hold of overlapping requests; "Known gaps" says which line is responsible. `OrganizationsDynamo` has one handler to keep the instance small: its property is proved of any number.

Fairness. `RequestStep` and `WorkerStep` are weakly fair: a request under way is carried on by the event loop, and a worker polls (or is invoked by SQS) as long as there is a message. Nobody is obliged to upload a package, to ask for a validation, to crash or to lose a reply. In `SqsPipeline` the liveness property needs faults to stop, which `MaxFaults` sees to. In `RedisPipelineLive` there is none: after a crash the item is on the processing list, which no code reads. In `Listings`, `WF_vars(ReadPage)` is a client that asks for the next page as long as it has a token; nobody else is obliged to anything, so that `WalkEnds` holds however long the rows keep changing.

## What is proved

`RedisPipelineProofs` and `RedisVerdictProofs` prove of `RedisPipeline`, for all constants that satisfy its assumptions (`None` is no job, package or submission; valid packages are packages; `MaxFaults` is a natural number):

* `TypeCorrect`: `Spec => []TypeOK`.
* `WorkersExclusive`: `Spec => []OneWorkerPerJob`. No message is held by two workers, and a held message has left the jobs list and is on the processing list until its worker is through with it.
* `PassedIsHashed`: `Spec => []PassedHasValidHash`. A submission that shows "passed" has the hash of a valid package.
* `MarkedJobsKept`: `Spec => []MarkedJobIsNotLost`. The job a submission points to is finished or its message is on one of the two lists.
* `VerdictsBacked`: `Spec => []VerdictBacked`. What a submission shows is backed by a job of its own.
* `PipelineImplementsContract`: `Spec => ImplementsContract`. The pipeline implements `ValidationContract`.

`OneWorkerPerJob` is not inductive: popping a message could create a second holder if the list held it twice, and pushing one could if a worker already had it. `QueueInv` adds what excludes both: the jobs list has no duplicates and only `queued` jobs that nobody holds; a request about to push holds a job that is on neither list and that no other request holds; a job without a row is referred to by nobody. `CreateJob` draws a job whose row is absent, so all of these come from the freshness of its id. The proof has one lemma per action (`QueueInvariant` collects them), under it one step per conjunct that the action can disturb, and rests on lemmas on `Append`, `Head` and `Tail` and on what each building block (`MoveTo`, `WithStatus`, `WithResult`, `MarkedQueued`) does to its row. TLC checked `QueueInv` on the small instance first.

The theorems of `RedisVerdictProofs` are proved on top of `QueueInv`:

* `HashInv` adds to `PassedHasValidHash` what a worker carries: no verdict and no hash before the package is read, and a valid hash with every "passed" it is about to write. An upload replaces the object and leaves the row alone, so the hash shown may be that of an earlier package, but always of one that was accepted.
* `HandedOverTracked` says of a request about to mark that its job is already tracked: finished, on the jobs list or on the processing list. Only `RecordJobResult`, `RecordJobFailed`, BRPOPLPUSH and LREM move a job between the three; a worker is through with a job only after it wrote its verdict, which is the place where the two lists and the table must agree.
* `StrongVerdict` splits `VerdictBacked` by verdict. A "passed" is backed by a job that passed, or by one that a catch block turned to "failed" afterwards; the latter's message is still on the processing list, and no worker is about to acknowledge it. `VerdictBacked` alone says nothing about that worker, and so is not inductive.
* The refinement maps the tables to themselves. `CreateJob` is the contract's `Open`, `MarkQueued` is `Announce`, `MarkRunning` is `TakeUp`, the two writes of a verdict to the job are `Decide` (or a stutter when it is the one already there), and the two writes to the submission are `Show`. That a worker shows the verdict its job really has is `RunMatchesJob`, a part of `QueueInv`; it needs the exclusiveness of workers.

`SqsPipelineProofs` proves of `SqsPipeline`, for the same constants and any batch size:

* `SqsTypeCorrect`: `Spec => []TypeOK`.
* `SqsPassedIsHashed`: `Spec => []PassedHasValidHash`.
* `SqsMarkedJobsKept`: `Spec => []MarkedJobIsNotLost`.

SQS delivers a message again while the first delivery is being worked on, so that two invocations may run one job and overwrite each other's verdict; nothing like `OneWorkerPerJob` holds, and the proofs of the self-hosted pipeline do not carry over. Nor does a message always outlive its job's verdict: an invocation that returns deletes it, although another one that got it too may be about to write "running" and die. That is the one way a marked job can be left without verdict and message, and the property says so: a job whose run went through (`decided`) shows a verdict unless two invocations had it at once (`shared`). `Safe` says only what each invocation can rely on by itself: it runs the first of its remaining records (`BatchesSound`), each of them a message of its event, the job of which was inserted (`MessagesExist`); and a "passed" it carries goes with a valid hash (`VerdictSound`). `MarkedJobIsNotLost` says nothing of the invocation that is about to delete a message, and so is not inductive. `Careful` says what each may rely on: a message of its event that was deleted meanwhile, or that another invocation has too, is a shared one; a record it is through with is settled (`Settled`: decided, and with a verdict or shared); and its current job has its verdict when the run goes on to the submission. `NoneLost` shows that no step takes a job out of `Tracked` (its message is pending, or it is settled): a message is deleted only by an invocation that is through with all its records; one that fails or dies gives back those SQS still holds; and a run that writes "running" over a verdict works on a message that is pending with its invocation, or shared. `HandedOver` says that the job of a request about to mark and the one a submission points to are tracked, since the message is sent before the row is marked.

`PublicationProofs` proves of `Publication`, for all constants that satisfy its assumptions (a submission has a kit and a version within the bounds, legacy packages are valid, the pricing and visibility on offer are those of the code):

* `PublicationTypeCorrect`: `Spec => []TypeOK`.
* `ValidatedOnly`: `Spec => []VersionsWereValidated`, in either adapter. A version published has the hash of a package that passed its validation and was uploaded under the key the version points to. Nothing stronger holds: the object may be replaced afterwards (below).
* `AnswersTrue`: `Spec => []AnsweredIsPublished`, in either adapter.
* `PublishComplete`: under `Transactional` (Postgres), `Spec => []PublishedIsComplete`.
* `CatalogImplemented`: under `Transactional`, `Spec => ImplementsCatalog`.
* `PublishedStays`: `Spec => PublishedIsNotWithdrawn`, in either adapter, for any number of requests.
* `UniqueOneByOne`: `Spec => []PackagesAreUnique`, if there is one publish handler and at most one kit began with the legacy package.

The inductive invariant is `Safe`. `VersionsWereValidated` by itself says nothing about the hash a publish handler copied before it writes it, nor about the row it copies it from: `RowsSound` says that every row judged "passed" has the hash of a valid package that was uploaded for that submission (a failed verdict and a new mark may leave an old hash behind, but take "passed" away), and `HandlerSound` the same of the copy. For the answer, `HandlerSound` says of each of the three writes that is no longer to be done that it has been done, as long as none failed; rows of kits and versions never leave their tables (`KitsGrow`, `VersionsGrow`), which is why no step of another request takes that away (`StillSound`, `Frame`). The desk's eight kinds of write and the owners' and admins' seven are each summed up in a lemma (`ReviewWrites`, `KitWrites`), and the three writes of a publication in `PublishedRows`. For the refinement, `StepKinds` says that with Postgres the tables change in three ways only: by a whole transaction, which is the contract's `Publish`; by one write of the desk, which is `Retract` or a stutter, because no write of the desk makes a submission published; by one operation on a kit, which is `Moderate`, because none of them moves its version. `PackagesAreUnique` does not hold of two publications that overlap (below), which is why one handler is assumed. With one it is not inductive either: that the hash is new is known to the handler since its search and used when it writes. `Searched` carries that over: from the search to the write no version has the hash, unless it is the version the handler is about to write over, since nobody else adds versions.

`OrganizationsProofs` proves of `Organizations`, for all constants that satisfy its assumptions (finitely many ids; every organization of the table at the start has an owner, and the live ones have distinct slugs):

* `OrganizationsTypeCorrect`: `Spec => []TypeOK`.
* `OwnerCannotBeRemoved`: `Spec => []OwnerIsNotRemoved`, in either adapter.
* `RemovedNeedsInvite`: `Spec => RemovedStaysOut`, in either adapter.
* `SlugsStayUnique`: under `Postgres`, `Spec => []SlugsAreUnique`.
* `OwnerKeepsRow`: under `Postgres` and without faults, `Spec => []OwnerHasRow`.
* `DeletedOrgsAreEmpty`: `Spec => []DeletionIsComplete`, in either adapter, for any number of handlers and faults.

The inductive invariant is again called `Safe`. `OwnerIsNotRemoved` says nothing of a handler between its check and its UPDATE, nor of an org that another handler deletes meanwhile: `HandlerSound` says that a handler about to mark a member has an org whose recorded owner is somebody else, and `OwnerKept` speaks of deleted orgs as well as of live ones. Both survive the steps of other handlers because no step gives an org another owner or undoes its creation (`StepKeepsRows`, `SoundOutlivesRows`). On DynamoDB the owner's row is written after the org's; `AbsentIsEmpty` excludes that an org about to be created already has a member, `OwnerKept` that the late INSERT revives a removed one, which is what `RemovedNeedsInvite` needs. `MemberWrites` sums up the ways a step writes memberships. That `dedupeSlug` finds a slug is a matter of counting (`TakenIsSmall`, `SlugFound`), and that there is a least one follows from the well-foundedness of strict inclusion between finite sets (`LeastExists`). `OwnerHasRow` is too weak to be inductive, since any handler that means to delete the org satisfies it: `RowUntilTheEnd` says that the owner's row is gone only when a handler is at the last statement of `deleteOrg`. Both bounds are needed: a handler that dies there leaves the org without the row, and on DynamoDB so does one that dies between the two writes of a creation.

`DeletionIsComplete` is about what is left of an org after its deletion: only rows that somebody wrote when the deletion had begun, and rows without a role. `Emptied` is what makes it inductive. It says of each handler in the course of a deletion, `Left`, which rows the part of it that is done can have left: none but late ones in the table already emptied, none but late ones and those its Query has found in the table it is working on. The two adapters empty their tables in opposite orders, and the DynamoDB one row by row. `GrowthIsLate` says that a row which enters a table while its org is being deleted is late; `RowsLeft` and `EmptiedStays` go through the steps. A deletion that died leaves the org live, and the next one starts with the lists anew, so faults change nothing.

`PaymentsProofs` proves of `Payments`, for all constants that satisfy its assumptions (there is an organization, time can pass):

* `PaymentsTypeCorrect`: `Spec => []TypeOK`.
* `OneWatermark`: `Spec => []WatermarkIsStable`, if DynamoDB is not among `Overlapping`.
* `OnboardedOnce`: `Spec => OnboardedAtIsKept`.

The hypothesis restricts DynamoDB alone: with Postgres any number of requests overlap. It is needed, as "Known gaps" says of two first grants. The theorem rests on `Typed`, whose `RowsSound` and `RequestsSound` say that a row that is there has an id and that a request names rows that are there, and on `RowsStay`: no statement but the write of a grant changes the id of a row, and none takes a row away. `WatermarkIsStable` looks at the ids already handed out only; `Stable` adds that each is the id the row has now, and what a handler read from a row is still there when it uses it. With Postgres it has read nothing it relies on, since the upsert looks at the row itself; with DynamoDB nobody else has written since.

`ListingsProofs` proves of `Listings`, for all constants that satisfy its assumptions (each kit has a name it may take, a page has at least one row, there is a kit to add to the favorites and its metadata has an edition):

* `ListingsTypeCorrect`: `Spec => []TypeOK`.
* `NothingMissed`: `Spec => []WalkIsComplete`.
* `NothingShownTwice`: `Spec => []WalkDoesNotRepeat`.
* `WalkComesInOrder`: `Spec => []WalkIsOrdered`.
* `CatalogAnswersItsKits`: `Spec => []PublicKitIsFound`.
* `TtlSparesHandedIn`: `Spec => SweepSparesHandedIn`.
* `FavoriteKeepsItsDate`: `Spec => AddedAtIsPreserved`, if DynamoDB is not among `Overlapping`.

The first part is about one page. The order of each list is strict and total (`OrderLaws`), so that ranks are a bijection (`OrderedByRank`) and a page is what lies between two ranks (`OffsetAnswer`) or two rows (`KeyAnswer`); each of the five page operators is shown to be one of the two (`AuditOffset`, `QueueOffset`, `CatalogOffset`, `AuditKey`, `CatalogKey`). Everything after that is about the two kinds and no longer about lists. The three statements about walks are not inductive, since they say nothing of a walk under way. `KeyWalk` says of one that goes by keys: what was shown is in order and none of it after the token, and every row the client looks for is shown up to the token. Nothing that happens to the table disturbs that, because a row that is settled keeps its place among the others (`OrderKept`; an event is settled once it is recorded). `OffsetWalk` says the same of ranks, and there the two halves need different hypotheses: a row that leaves lowers the ranks of others and so makes a walk miss one, a row that enters raises them and makes it repeat one (`RankMoves`). With the review queue a third comes in: one read may not return the whole table (`WholeTable`). The properties state exactly these hypotheses, in terms of what `watch` has seen.

For the rest, `UniqueSlugs` is what the slug index keeps, `Retained` that a row which was marked as handed in has no expiry (no later write gives it one, and a write to a swept row leaves a stub that is not marked), `WholeSeconds` the arithmetic by which a row that is due for the TTL, in whole seconds, is one the lazy check, in milliseconds, already hides, and `ItemKeepsDate` that a Put about to be made has the date of the item it replaces. TLC checked the invariants of this module on the instance of `Listings` before they were proved.

Only model-checked: liveness (`PushedJobsFinish`, `WalkEnds`), out of the prover's reach as is everything that needs `ENABLED`. What `Payments`, `Listings` and `PublicationPg` say of requests that follow one another is proved of those only. Every safety invariant, action property and refinement a passing run checks is a theorem.

## Disagreements with the documentation

* `RedisPipelineRace`. `enqueueSubmissionValidation` sends the message before it marks the submission queued (routes 580-581), and the mark has no condition. In the trace a worker has finished the job and written its verdict to both tables when the mark comes: the submission goes from "passed" back to "queued" and stays there, although its job is finished, until somebody asks for another validation. The contract suite says that the mark advances the status (`test/repository-contract.ts` 204).
* `PublicationOrg`. `publishSubmission` writes back a kit row it read without a lock (`adapters/selfhost/postgres.ts` 549-606; DynamoDB likewise), so a transfer that commits in between is undone. The comment at 572 says that a version update never reassigns the org.
* `OrganizationsKits`. `deleteOrgHandler` lists the kits of the org (routes 1357-1372) and deletes it in later statements; `transferKitHandler` looks at the target org (1433) and writes the new owner later. Neither repeats its check, so a transfer that ends in between leaves the kit to an org that is gone. The 409 says "This organization still owns kits. Transfer or remove them before deleting the organization." (1366).

## Known gaps

Statements found not to hold while the models were written. The modules contain the behaviour; they have no run because one line explains them, or because a run of the same kind is already there.

* SQS: a message that was delivered twice is deleted by the first invocation that returns; if the other one has written "running" over the verdict and dies, the job stays "running" and nobody delivers it again (`entrypoints/lambda-worker.ts` 51-63). `MarkedJobIsNotLost` excepts these jobs (`shared`).
* A crash leaves an item on the processing list for ever (`adapters/selfhost/queue.ts` 73-80).
* The TTL may delete a submission between the check and the mark of a validate request; the mark then creates an item with nothing else (`adapters/aws/index.ts` 306-323), which is no submission but counts toward the 100 of the review queue. Only the mark removes `expiresAt`: a worker's verdict leaves it, so a submission whose request died before the mark may be approved and published and swept afterwards, against the comment at 310 that a row handed in is retained. `SweepSparesHandedIn` speaks of rows that were marked.
* A version points to its submission's object, which is not copied (`adapters/aws/index.ts` 490): an upload URL, valid for 15 minutes, may replace the object after the validation, and it is then served under the hash recorded before. `VersionsWereValidated` says what remains.
* A submission approved between the check and the write of a cancellation is canceled (routes 780; `cancelSubmission` of both adapters).
* Validating a published submission again makes it archivable (routes 559-588).
* Two publications at the same time do not see each other's hash (routes 878; on DynamoDB the index of hashes may lag, so that one after another may not either) or version (routes 855-863); the lower version may be the last one written.
* The three DynamoDB writes of a publication are not atomic (`adapters/aws/index.ts` 499-525), which `docs/SELF_HOSTING_DESIGN.md` 60-62 wants. So `PublishedIsComplete` and `ImplementsCatalog` are not properties of `PublicationDynamo`.
* An update drops `trialDays` (`adapters/selfhost/postgres.ts` 577-606 and 894; `adapters/aws/index.ts` 447-498).
* The org chosen at submission is not stored (`core/services/index.ts` 45-77), so a new kit goes to the personal org.
* A kit removed between the check and the write of an unhide is published again (`adapters/selfhost/postgres.ts` 662-681).
* DynamoDB: two creations at the same time may share a slug (`adapters/aws/index.ts` 814-862), and an org may be left without an owner row (847-862). Both adapters: two first requests at the same time make two personal orgs (`adapters/selfhost/postgres.ts` 1012-1026), on DynamoDB also one after the other when the index of owners lags (`adapters/aws/index.ts` 891-905); an invite written to an org that is being deleted outlives it (routes 1265-1296; the rows in `late`); a stale invite (`adapters/selfhost/postgres.ts` 1055-1089).
* DynamoDB: marking somebody removed who never was a member makes a row without a role (`adapters/aws/index.ts` 992-999), which the deletion of the org does not list (797-802, 1010) and leaves behind.
* DynamoDB: `publishSubmission` puts the kit under its id without a look at its slug (`adapters/aws/index.ts` 499-503), and a GSI enforces nothing, so two kits may have one slug, which `schema.sql` 60 and `docs/SELF_HOSTING_DESIGN.md` 51 exclude. `getKitBySlug` reads one row of the slug, so a public kit may be answered 404. In Postgres, where the index is unique, `PublicKitIsFound` holds.
* Removed kits still block the deletion of their org (routes 1357-1372).
* DynamoDB: two first grants at the same time give two ids (`adapters/aws/index.ts` 1146-1170), and an event may expire a row that was granted anew meanwhile (1217-1251). Postgres: a grant may answer an id that is not the stored one (`adapters/selfhost/postgres.ts` 1175-1213).
* Offset pages of the Postgres audit log repeat an event when another one is recorded between two pages (`adapters/selfhost/postgres.ts` 1357-1387); DynamoDB ignores a `targetId` without a `targetType` (`adapters/aws/index.ts` 1424-1441).
* A row that leaves the review queue, or a kit that leaves the catalog of Postgres, between two pages makes the next page skip one; one that enters makes it repeat one (routes 600-628, `adapters/selfhost/postgres.ts` 349-372). `WalkIsComplete` and `WalkDoesNotRepeat` say what remains.
* The review queue is a list of at most 100 rows of the table, whichever they are (`adapters/aws/index.ts` 276-283, `adapters/selfhost/postgres.ts` 448-451); with Postgres nothing deletes the rows that were never uploaded, although `docs/SELF_HOSTING_DESIGN.md` 59 plans a cleanup job, so that they fill the 100 in time.
* A late verdict of a worker, and a new request for validation, take a canceled or archived submission back into the review queue (`adapters/selfhost/postgres.ts` 478-488 and 786-828).
* The versions of a kit's detail are sorted as texts, "10" before "9".
* DynamoDB: a report on a payout account that is under way while its organization is deleted makes a row with the Stripe fields only, which `isOrganization` accepts (`adapters/aws/index.ts` 792-795 and 1032-1063), so the lookup by account answers it. Both adapters: reports are applied in the order they arrive, so an older `account.updated` may be the last.
* DynamoDB: two additions of a favorite at the same time may change `addedAt` (`adapters/aws/index.ts` 1277-1296).

## Not modelled

The duplicate check of the intake: it is advisory (`allowDuplicate` skips it, rows that await their upload do not count), and nothing later relies on it. Lists answered in one read (members, versions, own submissions, favorites) and the projection of rows to answers. Routing and authorization by header; configuration and the schema script; the object-store adapters, apart from the object at a key; ZIP injection and other byte-level code; the charts.

## Plan

Done, in this order: pipeline core (`SubmissionTable`, `ValidationRun`, `RedisPipeline`, contract, proofs), `SqsPipeline`, `Publication` with `ReviewDesk`, `Organizations`, `Entitlements`, `AuditLog`, `Favorites`, `ReviewQueue`, `Catalog`, `Payouts`, `CatalogContract` and the proofs about `Publication`, `Organizations`, `SqsPipeline`, `Payments` and `Listings`.

Next:

1. Three versions of one kit, for the version check and the new_kit re-publication, and the retry of a partial DynamoDB publication as a liveness property.
2. The duplicate check of the intake, once something relies on it.
