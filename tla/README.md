# Verification of the Sevanna backend

The repository is the FastAPI backend of a school of natural cosmetics: students
register, buy courses and pay at an external provider (Wompi); the provider's
webhook settles the purchase, which opens the private links of the course.
Administrators keep the catalogue. One API process (asyncio) runs over
PostgreSQL. `docs/ARCHITECTURE.md` §8 lists the business rules (quoted below as
rule 1 to 10). The commerce routers are behind the flag `ENABLE_COMMERCE`, the
student accounts behind `ENABLE_ACCOUNTS`; the models describe the system with
both flags set.

- [1. The system](#1-the-system)
- [2. The modules](#2-the-modules)
- [3. What is checked](#3-what-is-checked)
- [4. What is proved](#4-what-is-proved)
- [5. What the code does not keep](#5-what-the-code-does-not-keep)
- [6. What is not modelled](#6-what-is-not-modelled)
- [7. Plan](#7-plan)

## 1. The system

### Components

| Component | Code (`src/`) | State | Operations | Correct when |
|---|---|---|---|---|
| Checkout | `app/services/purchase_service.py`, `payment_service.py:45-92` | `purchases`, `payments` rows | `create_purchase`, `create_payment` | the price is frozen as offered (rules 3, 4), one payment per purchase, one pending purchase per user and course |
| Settlement | `payment_service.py:94-176`, `enrollment_service.py`, `notification_service.py` | `purchases`, `payments`, `enrollments` rows; background tasks in memory | `process_webhook` (settle, fail, record, ignore), `activate_for_purchase`, schedule the confirmation | PAID and enrolled together (rule 8), access only if paid for (rules 2, 5, 6), idempotent (rule 7), no approval lost |
| Course administration and catalogue | `course_service.py`, `category_service.py`, `course_repository.py` | `courses`, `categories` rows | create, update, guarded delete, catalogue pages | the history keeps its course; slugs unique; a walk through the pages misses nothing |
| Payment providers | `app/integrations/payments/` | the cached provider with its secrets | sign a checkout URL, verify and parse a webhook | only authentic events, amounts exact in cents, nothing answered 200 is lost (rule 6) |
| Email delivery | `email_service.py`, `app/integrations/email/` | `email_logs` rows; tasks in memory | `send` with three attempts | logs tell the truth, copies are bounded, every task ends |
| Rate limiter | `app/core/rate_limit.py` | deques in memory | call, restart | exact sliding window, bounded deques |
| Accounts and tokens | `auth_service.py`, `core/security.py` | users and three token tables | register, login, refresh, logout, forgot and reset password, verify email | tokens single-use, rotation, revocation |
| Seeding, bootstrap and deployment | `scripts/`, `core/bootstrap.py`, `migrations/`, `Dockerfile` | course and category rows, `alembic_version` | seed at every boot, create the first administrator, migrate prices up and down | edits of administrators survive, prices follow the revision, a release comes up |
| Database session | `core/database.py`, `0001_initial_schema.py` | connections, identity map | begin, flush, commit, rollback | constraints hold, rollback on error |
| HTTP shell, schemas, storage, audit log | `main.py`, `core/`, `schemas/`, `integrations/storage/` | none beyond a request | routing, validation, rendering | (not a subject of the models) |

### Interactions

Handlers run on one event loop and interleave at every `await`; each request has
its own SQLAlchemy session (`get_db`), which is rolled back if the handler
raises. The components share only the tables. A settlement schedules the
confirmation as a background task of its response: it runs after the 200, in
the same process, with a session of its own. The provider calls the webhook at
least once per event, in any order, until it is answered 200. The webhook and the
payment endpoint pass the rate limiter first. A container runs the migrations, then the
API, whose startup synchronizes the catalogue; containers of two releases overlap
during a deployment and share the database.

### What is hard

- **Reads before a lock used under it.** The webhook loads the payment with its
  purchase, then locks the purchase row. The locking query does not ask for
  `populate_existing`, so the session keeps the attributes of the first read.
- **Check, then insert.** Purchases, payments, enrollments, courses, slugs and tokens are
  looked up and inserted some awaits later. Some pairs are backed by a
  constraint of the schema, some are not.
- **Redelivery and reordering** of provider events; a declined card followed by
  an approved one on the same reference.
- **Crashes** between a commit and its response, and of tasks that live in memory.
- **Several containers** that migrate, seed and serve one database at once, each
  from what it read some statements ago.
- **Settings cached** in a process while the provider's secrets change.
- **A commit inside a `try`** whose handler retries (`email_service.py:68`).
- **Boundaries** of the sliding window.

`PROJECT.json` lists each hazard with its line and the properties that catch it.

## 2. The modules

| Module | Models | Extends |
|---|---|---|
| `CommerceTables` | rows, sessions, repository queries, schema constraints | – |
| `Checkout` | `create_purchase`, `create_payment`, course update and delete | `CommerceTables` |
| `Settlement` | `process_webhook` | `CommerceTables` |
| `Commerce` | the composition, the provider, background tasks, crash; all properties | `Checkout`, `Settlement` |
| `AccessLedger` | abstract: what buying a course promises | – |
| `MCCommerce` | symmetry sets for TLC | `Commerce` |
| `CommerceProofs`, `CommerceSafetyProofs` | theorems: types and history; settlement and the ledger | `Commerce`, TLAPS |
| `EventChannel` | abstract: what a payment provider promises to the business logic | – |
| `Gateway` | both providers: checkout URL, verification, parsing; secrets, network | instance of `EventChannel` |
| `MCGateway`, `GatewayProofs` | prices, digits and lists for TLC; theorems | `Gateway` |
| `SlidingWindow` | abstract: a limiter with a complete log | – |
| `RateLimiter` | `RateLimiter.__call__` with its deques | instance of `SlidingWindow` |
| `MCRateLimiter`, `RateLimiterProofs` | instance for TLC; theorems | `RateLimiter` |
| `EmailDelivery` | `EmailService.send` | – |
| `ConnectionPool`, `EmailDeliveryProofs` | the connections that mails and webhooks share; theorems | `EmailDelivery` |
| `AuthSessions` | `AuthService` | – |
| `MCAuthSessions`, `AuthSessionsProofs` | symmetry for TLC; theorems | `AuthSessions` |
| `Catalog` | `CourseService`, `CategoryService` for administrators, `seed_catalog` at boot | – |
| `MCCatalog`, `CatalogProofs` | inputs and symmetry for TLC; theorems | `Catalog` |
| `StorefrontTables` | the revision, courses with price and `created_at`, the administrator | – |
| `Deployment` | containers, migrations, `bootstrap_data`, `seed.py`, downgrade, rollback | `StorefrontTables` |
| `CatalogPaging` | `list_catalog`, `list_admin`, `build_page` | `StorefrontTables` |
| `Storefront` | the composition; all properties | `Deployment`, `CatalogPaging` |
| `MCStorefront`, `StorefrontProofs` | courses and prices for TLC; theorems | `Storefront` |

### Commerce

*Tables.* `courses`, `purchases`, `payments`, `enrollments` map primary keys to
rows or `None`. An enrollment is keyed by its `purchase_id`, a payment by its
`external_reference`, both unique in the schema. Rows keep the columns that decide
something: user, course, amount, status, transaction id.

*Sessions.* `requests` and `webhooks` hold, per slot, the local state of a
handler between two awaits: where it is (`pc`) and what it remembers. One
action is one await and the code up to the next: the query at READ COMMITTED
sees the tables as they are then. The flush and commit at the end of a handler
are one action, for a second writer of the same unique key waits until the first
has committed.

| Action | Code |
|---|---|
| `ReadCourse`, `CheckAlreadyPurchased`, `ReusePending`, `InsertPurchase` | the four awaits of `PurchaseService.create_purchase` |
| `ReadPurchase`, `ReusePayment`, `InsertPayment` | those of `PaymentService.create_payment` (Wompi signs the URL locally) |
| `UpdateCourse` | `CourseService.update_course` for status and price |
| `CountPurchases`, `DeleteCourse` | the two awaits of `CourseService.delete_course`; the foreign keys make a late delete fail |
| `Lookup` | the search by reference, then by transaction id; unknown events are answered 200 |
| `LockPurchase` | `SELECT ... FOR UPDATE` returns; the session keeps `purchaseSeen`, `statusSeen`, `txSeen` |
| `AlreadyProcessed`, `SettlePaid`, `SettleConflict`, `RecordFailed`, `RecordOther` | the branches under the lock up to the commit or rollback. `Flushed` is the ORM's rule that only attributes that differ from their loaded value are written |
| `Respond` | the 200 leaves, the confirmation becomes due (`outbox`) |
| `RunConfirmation` | the background task starts (in detail: `EmailDelivery`) |
| `Crash` | sessions and tasks vanish, tables stay |
| `PayAtCheckout`, `PayElsewhere`, `UpdateTransaction`, `Deliver` | the provider (external): transactions on our references or not, pending ones that get decided, approved ones that get voided; delivery in any order and again |

An unauthentic event is refused before it touches a session, so here every event comes from
`issued`. `Gateway` shows how far that is true: transaction and status of what passes are as the provider
reported them, and the reference as long as no delivery is changed on its way, for Wompi
does not sign it (section 5).
`offered`, `acked`, `refused`, `confirmed` are history variables that the
properties need and no action reads, except that the provider stops redelivering
what is in `acked`.

*The ledger.* `AccessLedger` says what all this is for: purchases have terms that never
change, access needs an approval, is given once per user and course and never
taken back, an approval is acknowledged and the student told only when the access is
there. `ImplementsLedger` maps it on the tables: `terms` are the user, course and amount of
the purchase rows, `granted` the keys of `enrollments`, `approved` and `settled` the purchases
with an approval among the provider's events and among the answered ones, `told`
those with a confirmation sent, that is, whose task ran.

### Payment providers

`provider` is the setting; `held` is the generation of secrets that the cached provider
has read, `secret` that of the merchant account. A price is a `Decimal`, a
coefficient with an exponent; `ToCents` and `FromCents` are the conversions. `Receive` is the endpoint:
verification, parsing and the answer, 200 or 422; what happens to a parsed event is
`Settlement`. External: what the provider reports (`ReportPayment`, `ReportOther`,
`ReportByHand`), its repeated `Send`, and `Disturb`, which loses a delivery or changes any field
of its body or its signature.

Wompi's checksum is a hash of a text: the values that the event *itself* lists as signed, then its
timestamp, without separators (`Text`), then the secret. `Shown` is what a listed property
contributes: nothing when it is missing, unknown or zero, the digits of a number, and one symbol for an id, a
reference or a status. Symbols differ from each other and from digits, so of the ways in which two texts can
read alike the model has those where an amount and a timestamp share their digits differently
(`MCPrices`, `MCTimestamps`), where a value is dropped and where the list is another. The hash is taken as injective, so
the checksum is the text and, apart from it, the key. Of a transaction Wompi signs id,
status and amount (`WompiSigned`), not the reference. `wompi.py` does not look at the type of an
event, so an event that signs nothing of a transaction may arrive changed into one. The token of the fake
provider, which is for development, covers nothing of the body.

`altered` (history) has the answered notices whose delivery was changed where the signature alone binds
nothing (`Unbound`): the reference, the timestamp and the list of a transaction of Wompi's (`Vouched`), the
whole body of anything else. An amount that is not the one reported passes with such a change only.

`EventChannel` is written in the backend's terms. Its variables are what was `reported`, what was received `altered`
although its transaction is signed, the `stray` deliveries that were received changed with no transaction
signed, and what was `received`. An event that arrives is as it was reported, or has the transaction
and status of one that was (`SameFact`), which then counts as altered, or is the one untrue event that a stray
delivery brings. Where nothing is changed on the way, only what was reported arrives. The refinement translates a notice
(`Meaning`) to the price of the payment it is for, not to what the code parses.

### Rate limiter

`hits[k]` is the deque of a key, in ticks of the monotonic clock. `Call` is one
step since `__call__` has no await: it pops the hits at or before the cutoff,
and then refuses or appends. `log` (history) is what an ideal limiter would
remember and `verdict` the last answer; both are the variables of
`SlidingWindow`, whose `Admit` and `Refuse` count the log in `(now - Window, now]`.
`Restart` is a new process.

### Email delivery

Per mail: the place of the task (`pc`), the attempt, the state of its
session (`open`, or `dead` after a failed statement or commit, since nothing
rolls it back), the committed row and, externally, the copies the SMTP server
took. `Send` covers a send that is taken but raises (answer lost, timeout);
`Commit` covers a commit that raises although it took effect.

`ConnectionPool` composes the mails with the delivery of a payment's event: a mail `Holds` a connection
from its flush to its end, a webhook from its first query to its commit, and both wait
for one while `PoolSize` are in use (external: the defaults of SQLAlchemy, which `core/database.py` keeps).
A timeout ends the wait: `Refuse`, a 500 that the provider repeats, or a mail that
ends without a log, as after a failed flush. Settlement itself is in `Settlement`.

### Accounts and tokens

`accounts` is keyed by the normalized address, each table of tokens by the token
itself (its `jti` or hash). A slot is a request again, one action an await and
what follows it: `ReadRefresh`/`Rotate`, `CheckPassword`/`Login`,
`ReadForLogout`/`Logout`, `ReadReset`/`ScanTokens`/`ResetPassword` and so on; each
group is one function of `AuthService`. Queries whose answer cannot change in
between (the account of a token: accounts are never removed nor deactivated) are
merged into the next step, and so is the flush of a registration with its
commit. `ForgotPassword` is one step, since nothing it read can change. `Answer`
makes the tokens of a response, or of the mail that follows it, `known`; who
presents a token must know it. `Abort` is every way a handler may not finish.
`Expire` is the passing of time.

History in the rows lets properties speak of the past: a refresh token remembers
the login it goes back to and how often the account had been reset when that
login's password was checked; a verification token, the password of its
registration; `closed` the logins that were logged out.

### Catalogue

`courses` maps ids to slug, status and the origin of the image, which stands for
every column that only administrators and the seed write; prices are in
`Checkout`. `categories` maps names to slugs, where a slug is a stem and a
random suffix or none. A request adds the suffix when the stem is taken (`LookUpCategorySlug`); a boot adds the
first four letters of the name (`WithLetters`), a text that it does not look up again and that may be the
stem of a name of the administrators: "Velas" of the file becomes `velas-vela` once "Velas!" has `velas`,
and "Velas vela" has `velas-vela` as its plain slug. A title is represented by its slug; a slug with a random suffix (or
that of a title without any letter) by a member of `FreshSlugs`.

A boot (`seed_catalog`) is a session that reads for long and writes at the end:
its record holds what is left to look at and what its commit will do (`archive`,
`remove`, `fill`, `create`). Its categories are flushed one by one, in the order
of the file, and hold their unique keys (`HeldByBoot`) until the commit. Names and
slugs that are looked up and flushed in one iteration are one step
(`SyncCategory`); a conflict in it, with a row or with a name the boot has flushed before
(`FlushConflict`), is `FailBoot` like every other failure, after
which the API starts anyway. The names of the file have different stems and different
lettered slugs, and no lettered one is the stem of another, as with those of
`scripts/catalog_data.json` (`InputsAssumption`), so a boot is not in the way of itself or of earlier boots.
Categories of administrators may be: `UnhinderedBootCommits` names that exception, and section 5 the statement it refutes. Courses are looked at in any order: nothing depends
on it. `overlapped` has the boots in progress when someone else committed, `synced` says
that the last commit was that of an undisturbed boot (history).

### Deployment and catalogue pages

`Catalog` has a boot await by await, `Deployment` what is around it. A process is a
container, or the operator's console: `ReadVersion`, one `UpdatePrice` per row of `PRICES` and
`CommitMigration` are `alembic upgrade head` (or `downgrade 0001_initial` on the console),
`LookupAdmin`, `CreateAdmin`, `LookupCourses` and `CommitCatalog` are `bootstrap_data`, and then it
serves. Whatever goes wrong in between is swallowed and the container serves without another try
(`bootstrap.py:69`): an administrator or a course that came meanwhile (`CreateAdmin`, `CommitCatalog`), and by `GiveUp` any
other failure, at any of these steps, of a category for instance. The UPDATEs lock the rows they find until the commit (`Held`, with `rows`); alembic
moves `alembic_version` only from the revision it started at and raises
otherwise. All containers update in the order of `PRICES`, so the locks are never waited
for in a circle. The release before revision 0002 ("old") is external: the
same code without that revision and with the old prices in its catalogue. A release
that finds an unknown revision does not start. `LoadCourse` and `SavePrice` are the two
awaits of a PATCH, where SQLAlchemy writes a price only if it differs from the loaded one;
only courses of `PRICES` are edited, since no deployment writes the price of another. `CreateCourse` is a course
of the administrators under a slug of the catalogue, at their price; deletions, renamings and statuses are in `Catalog`.
`seed.py` fails on a row that has appeared, or otherwise.
`asked` and `misplaced` (history) name the courses whose price is not that of the
revision for a reason: an administrator set it, or the course was inserted where no
migration could see it. `hindered` (history) says that since a container last started something other than
another boot has made one give up: a failure of its own, a course that an administrator created, the administrator
that `seed.py` created.

`CatalogPaging` computes pages: `Ordered` is every order that the sorted column allows,
`PageOf` what OFFSET and LIMIT cut, `TotalPages` what the client is told. `Walk` is what a
client gets who takes `k` pages of one order and the others of another, so the
properties compare a state with itself and with the next, and no state of a
client is needed.

## 3. What is checked

| Run | Instance | Shows |
|---|---|---|
| `settle` | 1 user, 1 course, 2 purchases, 3 transactions, 2 deliveries, 1 crash | `PaidHasEnrollment`, `AccessWasPaidFor`, `AckedApprovalGrantsAccess`, `ImplementsLedger` (refinement) under overlapping deliveries with stale sessions |
| `checkout` | 2 requests, 2 prices, all course statuses | `HistoryFitsTogether` (no purchase has two payments or loses its course), `AmountWasOffered` against an administrator who reprices, archives and deletes |
| `serial` | 2 purchases, 2 transactions of every kind of status, 1 delivery at a time, 1 duplicate, 1 crash | `AccessNeedsPaid`, `ConfirmedAtMostOnce`, `PaidIsFinal`: reordering and redelivery of pending, approved, declined and voided events alone break nothing |
| `fair` | 1 purchase, 2 transactions, 2 deliveries, 1 duplicate, 1 crash | `ApprovalEndsInAccess`, `EventsAreAnswered` |
| `rate_limiter` | limits 1 and 2, window 3, clock to 8 | `Implements` (refinement) |
| `email` | 2 mails, 3 attempts, crash, every failure; 1 webhook, 2 connections | `LogIsTruthful`, `OutcomeLogged`, `CopiesBounded`, `ResentOnlyAfterDatabaseFailure`, `EveryTaskEnds`, `PaymentsGetThrough` |
| `auth_concurrent` | 1 address, 2 passwords, 2 refresh, 1 reset and 2 verification tokens, 2 concurrent requests | `KnownTokensExist`, `WelcomedOwnsAccount` in every interleaving |
| `auth_serial` | 3 refresh tokens, 2 reset tokens, 1 request at a time | `OneLivePerLogin`, `LogoutEndsLogin`, `ResetEndsSessions`, `EveryResetSpendsAToken` |
| `catalog` | 2 courses, a seeded slug, a removed one and a fresh one, 4 names of categories (2 of the file, 2 of administrators that read like the plain and the lettered slug of the first; requests for 3 of them), 1 administrator, 2 boots at once or in a row | `TypeOK`, `SlugsUnique`, `BoughtCoursesStay`, `SyncedCatalogIsComplete`, `UnhinderedBootCommits`, `BootsNeverDeadlock`, `BootIsIdempotent` |
| `gateway` | either provider, 1 reference, 1 transaction, 2 notices of 3 statuses, 2 prices and 2 timestamps whose digits can run together alike, 3 lists of signed properties, 1 rotation, 1 lost or changed delivery | `NoNoticeIsLost`, `ImplementsChannel` (refinement), `EveryNoticeAnswered` |
| `storefront` | a course that 0002 reprices, one that it does not, the sample course; 2 containers, 1 crash or given up synchronization, 1 downgrade, rollback or course of the administrators | `PricesFollowVersion`, `OnlyMigrationsReprice`, `RolloutCompletes`, `CatalogueArrives`, `WalkIsExact`, `GrowthSkipsNothing` |
| `stale_failure` | the smallest that suffices | violated: see section 5 |

**Bounds.** Two purchases of one user and course, and (in `settle`) one more
transaction than purchases, give the conflicts that matter: two approvals of one reference, a declined and an
approved one, and approvals of competing purchases. Two deliveries overlap in
every way; a third adds no new pair of stale read and commit, which is what the
violations and the invariants are about. One crash suffices for the safety
properties, since a crash forgets all sessions, so the state after it is one that
a fresh process could have met. `MaxDuplicates` counts only
deliveries that the provider need not make; an unanswered event is delivered
again without limit. The window of three ticks and limits one and two meet a full
deque, a hit exactly one window old, several calls at one tick and more than two full windows.
Three refresh tokens are a login and two rotations, or two logins and a
rotation; two reset tokens a reset and the next. Two courses are one of the seed and
one in its way; two boots are the least that show idempotence and what happens
to edits between them (`MaxBoots`). In `gateway` two notices are two statuses of one transaction, or one of it and one event about
something else; a second transaction or reference would only add pairs of independent ones. One changed delivery meets every
way in which an event may arrive in `EventChannel`; `GatewayProofs` has any number of faults. In `storefront` two containers are an old and a new release, or two that race; one
repriced course suffices since a migration treats its rows alike; in `email` the two mails can hold
both connections, and a mail and the webhook too; three courses at limits 1
and 2 give full, partial and several pages. An operation is a downgrade, a rollback or a course of the administrators
(`MaxOperations`), a failure a crash or a synchronization given up (`MaxFailures`).

The runs switch deadlock checking off where the system may stop: all
transactions reported and answered, all mails ended, all tokens used, all boots
done, the release served.

**Symmetry** is used in safety runs only: slots and the identifiers of rows and
transactions are interchangeable, no definition orders them.

**Fairness.** `Fairness` assumes that the event loop goes on with every webhook handler
and background task that can go on, and that the provider keeps delivering an
event for which it has no 200: Wompi documents retries, and the code counts on
them (500 asks for one). A waiting lock is no obstacle, since
every holder commits or rolls back. Nothing is assumed about students, administrators or
crashes. In `fair` only one purchase exists: with two competing ones, the approval
of the second is refused at each redelivery (section 5), so the
liveness would be false. `EmailDelivery` assumes that each task goes on: its sends
have a timeout of 20 seconds; a database that never answers is outside the
model. In the pool the provider repeats an event that failed. `Gateway` assumes that the provider repeats a notice, that what is not lost is handled, and that
whoever rotates the secrets restarts the process: without the last, every event is
refused for ever. Losses are bounded (`MaxFaults`), or else nothing need arrive. `Storefront` assumes
that the platform starts containers and replaces those of another release while
another one serves, and that a process goes on; a waiting UPDATE goes on
when the holder of the row commits, fails or crashes. `RolloutCompletes` and
`CatalogueArrives` speak of a release that stays deployed, and the latter only of behaviours where from some point on nothing
but other boots makes a container give up (`hindered`): nothing tries again until a container starts.

What `SlidingWindow` or `AccessLedger` already says is not checked twice: `Spaced`, `DequeBounded`,
`OneActiveEnrollment` and `ConfirmationNeedsAccess` are lemmas of the proofs, proved for every
instance, and so are the type invariants; that of `Catalog` is checked as well.

Every property of a passing run has a mutant: a definition of the model changed
as a bug would change it (the operators defined just before it), under which the property fails.

## 4. What is proved

TLAPS checks these for every value of the constants, under the assumptions of the
modules: bounds are naturals, `None` is no row or identifier, statuses are among
those of `models/enums.py`; limits and the window are positive.

| Theorem | Says |
|---|---|
| `TypeCorrect` of `CommerceProofs`, `CatalogProofs`, `RateLimiterProofs`, `AuthSessionsProofs`, `EmailDeliveryProofs`, `GatewayProofs`, `StorefrontProofs` | `Spec => []TypeOK` |
| `CommerceProofs!HistoryIsConsistent` | `Spec => []HistoryFitsTogether` |
| `CommerceProofs!AmountsWereOffered` | `Spec => []AmountWasOffered` |
| `CommerceSafetyProofs!PaidPurchasesAreEnrolled` | `Spec => []PaidHasEnrollment` |
| `CommerceSafetyProofs!EnrollmentsAreUnique` | `Spec => []OneActiveEnrollment` |
| `CommerceSafetyProofs!AccessIsPaidFor` | `Spec => []AccessWasPaidFor` |
| `CommerceSafetyProofs!NoApprovalIsLost` | `Spec => []AckedApprovalGrantsAccess` |
| `CommerceSafetyProofs!ConfirmationsFollowAccess` | `Spec => []ConfirmationNeedsAccess` |
| `CommerceSafetyProofs!LedgerRefinement` | `Spec => ImplementsLedger` |
| `CommerceSafetyProofs!AccessIsForPaidPurchases`, `!ConfirmationsAreUnique` | `ASSUME OneDelivery PROVE Spec => []P` for `AccessNeedsPaid`, `ConfirmedAtMostOnce` |
| `CommerceSafetyProofs!PaymentIsFinal` | `ASSUME OneDelivery PROVE Spec => PaidIsFinal` |
| `CatalogProofs!PurchasedCoursesStay`, `!SlugsStayUnique` | `Spec => []BoughtCoursesStay`, `Spec => []SlugsUnique` |
| `CatalogProofs!BootsFollowOneOrder` | `Spec => []BootsNeverDeadlock` |
| `CatalogProofs!UnhinderedBootCompletes`, `!UnhinderedBootsSucceed` | `Spec => []SyncedCatalogIsComplete`, `Spec => []UnhinderedBootCommits` |
| `CatalogProofs!SeedingIsIdempotent` | `Spec => BootIsIdempotent` |
| `RateLimiterProofs!AdmissionsAreSpaced`, `!DequesAreBounded` | `Spec => []Spaced`, `Spec => []DequeBounded` |
| `RateLimiterProofs!Refinement` | `Spec => Implements` |
| `GatewayProofs!NothingAnsweredIsLost` | `Spec => []NoNoticeIsLost` |
| `GatewayProofs!ChannelRefinement` | `Spec => ImplementsChannel` |
| `StorefrontProofs!PricesFollowTheRevision` | `Spec => []PricesFollowVersion` |
| `StorefrontProofs!BootsNeverReprice` | `Spec => OnlyMigrationsReprice` |
| `StorefrontProofs!WalksAreExact` | `Spec => []WalkIsExact` |
| `StorefrontProofs!GrowthIsHarmless` | `Spec => GrowthSkipsNothing` |
| `AuthSessionsProofs!HandedOutTokensExist` | `Spec => []KnownTokensExist` |
| `AuthSessionsProofs!RegistrationsAreExclusive` | `Spec => []WelcomedOwnsAccount` |
| `AuthSessionsProofs!RotationKeepsOneToken`, `!LogoutIsFinal`, `!ResetIsComplete` | `ASSUME Alone PROVE Spec => []P` for `OneLivePerLogin`, `LogoutEndsLogin`, `ResetEndsSessions` |
| `AuthSessionsProofs!ResetsAreSingleUse` | `ASSUME Alone PROVE Spec => []EveryResetSpendsAToken` |
| `EmailDeliveryProofs!LogsAreTruthful`, `!OutcomesAreLogged`, `!CopiesAreBounded` | `Spec => []P` for `LogIsTruthful`, `OutcomeLogged`, `CopiesBounded` |
| `EmailDeliveryProofs!ResentOnlyAfterFailure` | `Spec => ResentOnlyAfterDatabaseFailure` |
| `EmailDeliveryProofs!PoolImplementsDelivery` | `PoolSpec => Spec`: the mails of the pool are those of `EmailDelivery` |

**Commerce.** `TypeInv` is `TypeOK` with what the typing of a step needs:
requests and webhooks hold the values their `pc` implies, and rows that a session or
a payment refers to exist. `HistoryInv` is about the checkout: a request that goes to insert a
purchase remembers a course and a price that were once `offered`, one that goes to insert a
payment the amount of its purchase (`Remembers`); rows keep both (`PurchaseFits`,
`PaymentFits`), for a purchase never changes its amount and the course of one is not deleted.
That a published course is on offer at its present price (`OffersKept`) makes the read that starts
it all a true one.

`SafetyInv` conjoins the five properties with what makes them
inductive:

- `EnrollmentsMatch`: an enrollment has its purchase's user and course, and is ACTIVE;
- `TransactionsKnown`: a transaction that pays a reference has a payment and an
  event, and a payment's transaction id is one that pays its reference;
- `WebhooksKnow`: what a session knows after its lookup is *still* usable although it
  is stale. It found the payment of its event's reference; if it saw PAID, the
  enrollment exists; if it goes to answer 200 for an approval of ours, or to confirm,
  the enrollment exists.

The last is the heart of the argument: staleness is harmless for these
properties because enrollments are never removed. It is not harmless for the
purchase status, and there the runs of section 5 find their violations. The proof has one lemma
per group of actions and one step per disturbed conjunct.

The refinement of the ledger is proved from `SafetyInv` and `TypeInv`, action by action: an
`InsertPurchase` is an `Open`, a report of an approval an `Approve`, `SettlePaid` a `Grant` (the
unique index gives that no one else has the access), `Respond` a `Settle`, a scheduled
confirmation a `Tell`, and every other step, a crash included, leaves the five
variables of the ledger alone. Deliveries, locks, stale reads and redelivery are invisible to it.

`AccessNeedsPaid`, `ConfirmedAtMostOnce` and `PaidIsFinal` are false for overlapping deliveries
(section 5), so they are proved under `OneDelivery`, that there is one webhook slot, still for any number of
purchases, transactions, redeliveries, orders of events and crashes. `SerialInv` has what overlap destroys:
the status that a session has seen is that of the row (`SeenIsCurrent`). So no branch is taken on an
old status, an enrolled purchase stays PAID, and a session that is to confirm is the only one that
ever will (`ConfirmedOnce`).

**Catalogue.** `IInv` of `CatalogProofs` has three layers. `RowsHold` is about rows: types, what a request
holds at each await, different slugs, bought courses. `KeysHold` is about the unique keys of
`categories`, which uncommitted boots hold as well as rows (`FiledIsHeld`), and about the order in which
a boot goes through the file (`NamesInOrder`, `PartsInOrder`); from it follow unique slugs and
that waiting never turns in a circle. `CatalogInv` is what the last three theorems need: the plan of a boot
that nothing has overlapped is right about the rows as they are *now* (`PlanIsRight`) and
leaves nothing out of what it has looked at (`PlanIsWhole`). Of the slugs that an undisturbed boot tries, no
other name of the file has one (`OwnSlugsAreOwn`), so a conflict is with a category outside the file
(`OwnSlugIsOutside`); and then such categories hold both slugs of the name, which is the exception `UnhinderedBootsSucceed` allows. A commit, by whomever, makes the boots under way
overlapped, so there is nothing to show for them; after the boot's own commit the plan is the catalogue
(`Complete`), and a plan made from a complete catalogue is empty, which is idempotence.

**Rate limiter.** `DequeIsRecent`: a deque is the end of its log, and what was dropped is out
of the window. With `LogOrdered` the eviction keeps precisely the admissions
in the window (`KeptIsTheWindow`), so the deque's length is the count of the promise.

**Email.** `Settled`: a task that goes on after a confirmed send has a dead
session, so it can never commit FAILED over a mail that was delivered. The same invariant gives that
a mail whose task ended in an open session has its row, and that a confirmed one goes out again only from a
dead session, so after a failed commit. Waiting for a connection, or being refused one, is a step
of `EmailDelivery` or none (`PoolImplementsDelivery`), so all this holds in the pool, which is what the run checks.

**Accounts and tokens.** `IInv` adds to the types that whatever a session holds
(`Knows`) or `known` contains exists, and that an answer in flight is as true as one
that left. It is inductive because rows never vanish (`RowsStay`) and a step
changes one session (`StepIsLocal`). The three properties of rotation, logout and
reset are false for overlapping requests (section 5), so they are proved under
`Alone`: at most one request at a time. Their invariant `SerialInv` adds `StillTrue`,
that what a request has read holds when it writes, and `LoginsExist`, that every
login has its own token, so a new one starts a login that nothing goes back to. `SpendInv` adds that the resets of an
account are at most its spent tokens (`ResetsArePaid`) and that the token of a reset in progress is the account's
and unspent (`ResetIsOwed`): the step that counts a reset spends one more.

**Payment providers.** `IInv` says of every notice that it is `Genuine`, that is, carries the terms
of the payment it is for, and of every delivery on the wire what no change can forge
(`Delivery`): Wompi's checksum, if there still is one, is of the text of the notice, under some key. What the equality of two
texts gives is a matter of their symbols, since digits may run together: a text has the symbols of what is listed
(`SymbolsOfText`, `ShownSymbols`), so a body with the text of a transaction has its id and status
(`ChecksumBindsFact`). With reference, timestamp and list unchanged the amount is what is left between the same ends
(`MiddleIsSame`, `ChecksumCoversAmount`). Hence a delivery that passes keeps transaction and status
(`AcceptedKeepsFact`), and one not `altered` is, after parsing, the notice in our terms (`AcceptedIntact`). There the
proof uses that cents are exact (`CentsAreExact`), that a charged amount is positive (the
checksum drops a zero), that no provider status outside the map has a name of ours and that different numbers have
different digits (`DigitsAssumption`); `TextAssumption` keeps the symbols apart. Payments are only
added, so a notice keeps its meaning (`NoticesStay`).

**Deployment.** `IInv` adds to `PricesFollowVersion` that what processes, the editor and the
history speak of exists (`KnownExist`) and that a migration moves the revision (`Moves`), so
one that commits accounts for every price it changes; a course that an administrator creates is `asked` for, and a
boot that gives up changes no row. Steps are of three kinds, with a lemma each: those of a
process that write no course (`QuietStep`), those outside the processes (`OutsideStep`) and inserts
(`InsertingStep`); the commit of a migration and the save of a price are proved on their own.

**Pages.** What a client gets is a matter of the rows alone. In an unambiguous order the place of a course is the
number of courses up to it (`Ranks`), so two enumerations of one catalogue are the same (`SameOrder`), and
courses that come in move the others only towards the end (`RankGrows`). Pages are the
pieces of the enumeration (`Pages`) and laid end to end they are its prefixes, which `Walk` is shown to be
(`WalkTakesPages`): `Walk` is a recursive function on the number of pages, of which the prefixes are a
solution at 0 and at each successor. The induction that this takes is over the pages of one walk, thus
finite, and is itself a lemma (`Climb`), obtained from the pigeonhole principle, as the library's induction
theorems have an operator for a parameter. If the pages of two catalogues are mixed, the walk is the first `k` pages of the one followed by the
rest of the other (`WalkStitches`); a course is among the former, or at its new place among the latter.

**Only model-checked** is liveness under fairness: `ApprovalEndsInAccess`, `EventsAreAnswered`,
`EveryTaskEnds`, `PaymentsGetThrough`, `EveryNoticeAnswered`, `RolloutCompletes`, `CatalogueArrives`. Their fairness
is about ENABLED, for which the installed provers have no rules. Every invariant, action property and
refinement that a passing run checks is a theorem.

## 5. What the code does not keep

TLC refutes these statements of the documents, comments and tests. The first has a run of
its own; the others are refuted in the instance named, that of a run with the
property added or with one constant changed.

| Property | Refuted in | What happens |
|---|---|---|
| `AccessNeedsPaid` | run `stale_failure` | a declined attempt that overlaps the approval of the same reference writes FAILED over PAID; the enrollment stays ACTIVE (rule 2) |
| `AuthenticatedEventsAccepted` | `settle` | the approval of a second purchase of an owned course fails on the partial unique index and is answered 500 at every redelivery; the money is taken, the purchase stays PENDING |
| `RestoredCoursesStay` | `catalog` with `Edits <- MCStatusEdits` | a retired course that an administrator published again is archived by the next boot ("admin edits are never overwritten", `core/bootstrap.py:11`) |
| `ConfirmedAtMostOnce` | `serial` with two webhook slots | two overlapping deliveries of one approval: the second waits for the lock with PENDING in its identity map, settles again and sends a second confirmation (rule 7) |
| `OnePendingPurchase` | `checkout` | a double click: both requests find no pending purchase and both insert (`purchase_service.py:45`) |
| `MailNeverFailsPayments` | `email` | mails whose server hangs hold all connections through their attempts, for longer than the pool waits: the webhook is answered 500 ("never blocks or fails a payment/enrollment", `notification_service.py:4`; rule 10). `PaymentsGetThrough` is what is left: the provider's repetition gets through |
| `InterruptedMailIsLogged` | `email` | the log row is only flushed before the attempts, so a process that stops in between leaves no PENDING row (`docs/ARCHITECTURE.md:233`) |
| `OneLivePerLogin` | `auth_serial` with two slots | two refreshes with one token overlap (two tabs): both read it active, both rotate it, the login has two active tokens (`tests/test_auth.py:92`) |
| `EveryResetSpendsAToken` | `auth_serial` with two slots | two resets with one token overlap: both set the password, the later commit wins (`auth_service.py:7`) |
| `ResetEndsSessions` | `auth_serial` with two slots | a refresh or login that overlaps a reset inserts a token that the reset's query did not find (`auth_service.py:226`) |
| `ImagesSurviveBoot` | `catalog` with `Edits <- MCImageEdits` | an image set while a boot is between its lookup and its commit is overwritten with that of the file (`seed_catalog.py:83`) |
| `AuthenticNoticesAnswered` | `gateway` | an authentic event about something else than a transaction has no transaction id and is answered 422 at every repetition ("Returns 200 for authenticated events", `api/v1/payments.py:59`) |
| `UrlsStayGood` | `gateway` | after the integrity secret was rotated, `create_payment` hands out the payment in flight with the URL signed before; `create_purchase` reuses the pending purchase, so the student cannot pay for the course any more (`payment_service.py:61`) |
| `EventsAreAsReported` | `gateway` | the checksum covers the values that the event lists, where Wompi names no reference, and the code reads the reference all the same: a delivery whose reference was changed passes and is answered 200 (`wompi.py:120`, `:140`; rule 6, `docs/ARCHITECTURE.md:219`). `ImplementsChannel` is what is left: transaction and status are as reported |
| `EveryBootSyncs` | `catalog` | administrators' categories "Velas!" and "Velas vela" hold both slugs that a boot makes of "Velas", the second is not looked up, and every boot fails on it and leaves the catalogue as it was (`seed_catalog.py:48`; "Sync the catalog on every boot", `core/bootstrap.py:58`) |
| `FirstBootsBringTheCatalogue` | `storefront` | `seed.py` creates the administrator between the lookup and the insert of the first boots: the unique address makes them all give up, and the catalogue waits for the next start of a container; any failure that `bootstrap.py:69` swallows in all of them does the same ("is populated on first boot", `core/bootstrap.py:9`) |
| `NothingMisplaced` | `storefront` | a container of the old release that looked before the migration seeds after it, at the old price; nothing reprices the course later |
| `EveryWalkIsExact` | `storefront` | courses of one boot share `created_at = now()`, the default order: two pages may be cut from two orders, and a course is on neither (`course_repository.py:92`) |
| `GrowthAfterCountSkipsNothing` | `storefront` | a boot commits between the count and the rows of one request: `total_pages` is one too few and the client stops before the last page (`course_repository.py:81`) |

`EveryWalkIsExact` needs a second sort column, such as the id.

`AccessNeedsPaid` and `ConfirmedAtMostOnce` need one line
(`populate_existing=True` on the locking query): with fresh reads, the branch
under the lock decides on the committed status. The same with a lock would
serialize rotations and resets.

## 6. What is not modelled

- Profiles (a full name), access tokens (stateless), password hashes.
- `verify_payment` and `refund_payment` of the providers, and `event_id`: no caller.
- Free courses at Wompi: the provider charges no empty amount, so no event of one is ever
  reported; a zero in a signed property would be dropped by `or ""` (`wompi.py:120`).
- A PATCH that sets a field to null explicitly (`image_url`); the models have fields set and fields left out.
- Filters of the catalogue: they select the same rows for the count and the page.
- Revisions other than the two of `migrations/versions`; offline migrations.
- `CANCELLED` and `REFUNDED` purchases, `COMPLETED` enrollments: no code sets them.
- Users and their deactivation: an authenticated caller of the commerce
  endpoints is active when the request starts and none of its handlers looks again.
- Statement timeouts and network partitions; the pool for handlers other than the webhook, which
  meet it in the same way; a failing database in
  commerce handlers has the effect of a rollback, which is that of a request that was never made.
- The rate limiter's switch `settings.rate_limit_enabled` (taken as on); floating
  point time (a clock in ticks); several processes behind a balancer, which the
  docs name as a known limit.
- HTTP routing, schemas, error rendering, logging, templates, OpenAPI, storage and
  audit log: no state or no caller.

## 7. Plan

Done: the commerce core with its refinement of the ledger, the rate limiter with its
refinement, email delivery and its pool, accounts and tokens, the catalogue and its seeding, the payment
providers with their refinement, deployments and the pages of the catalogue; the proofs of every safety property
that a run checks.

Next, in this order:

1. An abstract token table (issued, spent, revoked), refined by `AuthSessions` under `Alone`, and what of it
   holds for overlapping requests.
2. The steps that the liveness properties take, as action properties with proofs: a due confirmation leaves
   `outbox` only by `RunConfirmation` or a crash, an event stays deliverable until it is answered 200.
3. `EventChannel` as the environment of `Commerce`, so that the refinement of `Gateway` justifies `Deliver`.
