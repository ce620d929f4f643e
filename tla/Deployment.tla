----------------------------- MODULE Deployment -----------------------------
(***************************************************************************)
(* How a release comes up.  The container runs `alembic upgrade head` and, *)
(* if that succeeds, the API, whose startup (bootstrap_data) creates the   *)
(* first administrator and synchronizes the catalogue before it serves.    *)
(* Several containers do so at once, of this release ("new") and of the    *)
(* one before revision 0002 ("old", external, whose catalogue has the old  *)
(* prices), while administrators work and operators run seed.py or         *)
(* `alembic downgrade` from a console.                                     *)
(*                                                                         *)
(* A migration is one transaction: its UPDATEs lock the rows they find, in *)
(* the order of PRICES, until the commit, which moves alembic_version only *)
(* from the revision it started at and fails otherwise.                    *)
(***************************************************************************)
EXTENDS StorefrontTables

CONSTANTS
    Containers,
    Console,       \* where `alembic downgrade` runs
    AdminPrices,   \* prices that administrators set
    MaxOperations, \* bound: rollbacks of the release, downgrades, courses created
    MaxFailures    \* bound: crashes and given up synchronizations

Processes == Containers \cup {Console}

ASSUME DeploymentAssumption ==
    /\ MaxOperations \in Nat /\ MaxFailures \in Nat
    /\ AdminPrices \subseteq Nat

VARIABLES
    deployed,   \* the release that the platform starts
    processes,
    editor,     \* a PATCH of a course between its two awaits
    script,     \* seed.py between its lookups and its commit
    operations, failures,
    asked,      \* history: courses whose price an administrator set since
                \* a migration last did
    hindered,   \* history: since a container last started, something other than
                \* another boot has made one give up its synchronization
    misplaced   \* history: courses inserted by a release of another revision, or
                \* while a migration that had passed them was under way

deployment == <<deployed, processes, editor, script, operations, failures,
                asked, hindered, misplaced>>

Releases == {"old", "new", "downgrade"}
Target(release) == IF release = "new" THEN "0002" ELSE "0001"
PrunedRevisions(release) == IF release = "old" THEN {"empty", "0001"} ELSE {"empty", "0002"}
Revisions(release) == IF release = "old" THEN {"empty", "0001"} ELSE Versions

Down == [pc |-> "down", release |-> "old", seen |-> "empty", next |-> 1,
         rows |-> {}, missing |-> {}]

At(p, pc) == processes[p].pc = pc
Continue(p, process) == processes' = [processes EXCEPT ![p] = process]
rest == <<deployed, editor, script, operations, failures, asked, hindered, misplaced>>

\* Rows that a migration has updated and not committed: other writers wait.
Held(s, except) == \E q \in Processes \ {except} : s \in processes[q].rows
-----------------------------------------------------------------------------
(* alembic upgrade head *)

Start(p) ==
    /\ At(p, "down")
    /\ IF p = Console
       THEN /\ operations < MaxOperations /\ version # "empty"
            /\ operations' = operations + 1
            /\ Continue(p, [Down EXCEPT !.pc = "version", !.release = "downgrade"])
       ELSE /\ UNCHANGED operations
            /\ Continue(p, [Down EXCEPT !.pc = "version", !.release = deployed])
    /\ hindered' = (hindered /\ p = Console)
    /\ UNCHANGED <<tables, deployed, editor, script, failures, asked, misplaced>>

\* Up to date: `&& uvicorn`, except on the console.
Migrated(p) == IF p = Console THEN Down ELSE [processes[p] EXCEPT !.pc = "admin", !.rows = {}]

\* An unknown revision or a failed migration ends the container.
ReadVersion(p) ==
    LET release == processes[p].release
    IN  /\ At(p, "version")
        /\ \/ version \notin Revisions(release) /\ Continue(p, Down)
           \/ version = Target(release) /\ Continue(p, Migrated(p))
           \/ /\ version \in Revisions(release) \ {Target(release)}
              /\ Continue(p, [processes[p] EXCEPT !.pc = "migrating", !.seen = version])
        /\ UNCHANGED <<tables, rest>>

Repriced(p) == [s \in Slugs |->
                   IF s \in processes[p].rows
                   THEN [courses[s] EXCEPT !.price = PriceAt(Target(processes[p].release))[s]]
                   ELSE courses[s]]

\* One UPDATE of _set_prices.
UpdateAutocommitted(p) ==
    LET s == PriceList[processes[p].next]
    IN  /\ At(p, "migrating") /\ processes[p].next <= Len(PriceList)
        /\ ~Held(s, p)
        /\ Continue(p, [processes[p] EXCEPT !.next = @ + 1])
        /\ courses' = IF s \in Present
                      THEN [courses EXCEPT ![s].price =
                               PriceAt(Target(processes[p].release))[s]]
                      ELSE courses
        /\ UNCHANGED <<version, admin, rest>>
UpdatePrice(p) ==
    LET s == PriceList[processes[p].next]
    IN  /\ At(p, "migrating") /\ processes[p].next <= Len(PriceList)
        /\ ~Held(s, p)
        /\ Continue(p, [processes[p] EXCEPT !.next = @ + 1,
                                            !.rows = @ \cup ({s} \cap Present)])
        /\ UNCHANGED <<tables, rest>>

\* Courses that came after the UPDATE that was to reprice them.
Missed(p) == (Listed \cap Present) \ processes[p].rows

CommitUncheckedMigration(p) ==
    /\ At(p, "migrating") /\ processes[p].next > Len(PriceList)
    /\ version' = Target(processes[p].release)
    /\ courses' = Repriced(p)
    /\ asked' = asked \ processes[p].rows
    /\ misplaced' = (misplaced \ processes[p].rows) \cup Missed(p)
    /\ Continue(p, Migrated(p))
    /\ UNCHANGED <<admin, deployed, editor, script, operations, failures, hindered>>
CommitMigration(p) ==
    /\ At(p, "migrating") /\ processes[p].next > Len(PriceList)
    /\ IF version = processes[p].seen
       THEN /\ version' = Target(processes[p].release)
            /\ courses' = Repriced(p)
            /\ asked' = asked \ processes[p].rows
            /\ misplaced' = (misplaced \ processes[p].rows) \cup Missed(p)
            /\ Continue(p, Migrated(p))
       ELSE Continue(p, Down) /\ UNCHANGED <<version, courses, asked, misplaced>>
    /\ UNCHANGED <<admin, deployed, editor, script, operations, failures, hindered>>
-----------------------------------------------------------------------------
(* bootstrap_data: whatever fails, the API starts, without another try. *)

Serve(p) == Continue(p, [processes[p] EXCEPT !.pc = "serving", !.missing = {}])

\* A failure that none of the other actions has: the database, the file, a
\* category.
GiveUp(p) ==
    /\ processes[p].pc \in {"admin", "create", "catalog", "seed"}
    /\ failures < MaxFailures
    /\ failures' = failures + 1
    /\ Serve(p) /\ hindered' = TRUE
    /\ UNCHANGED <<tables, deployed, editor, script, operations, asked, misplaced>>

LookupAdminOnce(p) ==
    /\ At(p, "admin")
    /\ IF admin THEN Serve(p) ELSE Continue(p, [processes[p] EXCEPT !.pc = "create"])
    /\ UNCHANGED <<tables, rest>>
LookupAdmin(p) ==
    /\ At(p, "admin")
    /\ Continue(p, [processes[p] EXCEPT !.pc = IF admin THEN "catalog" ELSE "create"])
    /\ UNCHANGED <<tables, rest>>

\* users.email is unique: the insert of a second boot raises, and with it
\* the whole bootstrap of that boot ends.
CreateAdmin(p) ==
    /\ At(p, "create")
    /\ IF admin THEN Serve(p)
                ELSE Continue(p, [processes[p] EXCEPT !.pc = "catalog"])
    /\ admin' = TRUE
    /\ UNCHANGED <<version, courses, rest>>

\* seed_catalog in two steps: Catalog has it in all its awaits, and the courses
\* that are deleted or renamed. Here courses are only ever added.
LookupCourses(p) ==
    /\ At(p, "catalog")
    /\ Continue(p, [processes[p] EXCEPT !.pc = "seed", !.missing = CatalogSlugs \ Present])
    /\ UNCHANGED <<tables, rest>>

SeedOverwriting(p) ==
    /\ At(p, "seed")
    /\ courses' = Inserted(CatalogSlugs, PriceAt(Target(processes[p].release)))
    /\ Serve(p)
    /\ UNCHANGED <<version, admin, rest>>
\* courses.slug is unique: a course that came in between, from another boot or an
\* administrator, ends the bootstrap.
CommitCatalog(p) ==
    /\ At(p, "seed")
    /\ IF processes[p].missing \cap Present = {}
       THEN /\ courses' = Inserted(processes[p].missing, PriceAt(Target(processes[p].release)))
            /\ misplaced' = IF version = Target(processes[p].release) THEN misplaced
                            ELSE misplaced \cup (processes[p].missing \cap Listed)
       ELSE UNCHANGED <<courses, misplaced>>
    /\ Serve(p)
    /\ UNCHANGED <<version, admin, deployed, editor, script, operations, failures, asked, hindered>>
-----------------------------------------------------------------------------
(* scripts/seed.py *)

LookupSample ==
    /\ script = None /\ version # "empty"
    /\ ~(admin /\ SampleSlug \in Present)
    /\ script' = [admin |-> admin, sample |-> SampleSlug \in Present]
    /\ UNCHANGED <<tables, deployed, processes, editor, operations, failures, asked, hindered,
                   misplaced>>

\* One commit, which fails for a row that has appeared since the lookup, or
\* otherwise.
CommitSample ==
    /\ script # None
    /\ \/ /\ (admin => script.admin) /\ (SampleSlug \in Present => script.sample)
          /\ admin' = TRUE
          /\ courses' = Inserted({SampleSlug} \ Present, NewPrice)
          /\ hindered' = (hindered \/ (~admin /\ \E p \in Containers : At(p, "create")))
       \/ UNCHANGED <<admin, courses, hindered>>
    /\ script' = None
    /\ UNCHANGED <<version, deployed, processes, editor, operations, failures, asked, misplaced>>
-----------------------------------------------------------------------------
(* The administrators *)

ApiServes == admin /\ \E p \in Containers : At(p, "serving")

\* POST /admin/courses whose title has a slug of the catalogue; one whose slug is
\* taken gets another.
CreateCourse(s, price) ==
    /\ ApiServes /\ s \in CatalogSlugs \ Present /\ operations < MaxOperations
    /\ operations' = operations + 1
    /\ courses' = Inserted({s}, [t \in Slugs |-> price])
    /\ asked' = asked \cup {s}
    /\ hindered' = (hindered \/ \E p \in Containers : s \in processes[p].missing)
    /\ UNCHANGED <<version, admin, deployed, processes, editor, script, failures, misplaced>>

\* PATCH /admin/courses/{id} of a course that migrations reprice: the price is
\* written only if it differs from the loaded row's.
LoadCourse(s) ==
    /\ editor = None /\ ApiServes /\ s \in Listed \cap Present
    /\ editor' = [slug |-> s, seen |-> courses[s].price]
    /\ UNCHANGED <<tables, deployed, processes, script, operations, failures, asked, hindered,
                   misplaced>>

SavePrice(price) ==
    /\ editor # None /\ ~Held(editor.slug, None)
    /\ IF price # editor.seen
       THEN /\ courses' = [courses EXCEPT ![editor.slug].price = price]
            /\ asked' = asked \cup {editor.slug}
       ELSE UNCHANGED <<courses, asked>>
    /\ editor' = None
    /\ UNCHANGED <<version, admin, deployed, processes, script, operations, failures, hindered,
                   misplaced>>
-----------------------------------------------------------------------------
(* The platform and its operators (external) *)

Deploy == /\ deployed = "old" /\ deployed' = "new"
          /\ UNCHANGED <<tables, processes, editor, script, operations, failures, asked, hindered,
                         misplaced>>

Rollback == /\ deployed = "new" /\ deployed' = "old"
            /\ operations < MaxOperations
            /\ operations' = operations + 1
            /\ UNCHANGED <<tables, processes, editor, script, failures, asked, hindered,
                           misplaced>>

\* A container of another release is replaced while another one serves.
Stop(p) ==
    /\ At(p, "serving") /\ processes[p].release # deployed
    /\ \E q \in Containers \ {p} : At(q, "serving")
    /\ Continue(p, Down)
    /\ UNCHANGED <<tables, rest>>

\* Open transactions roll back; a container that crashed is started again.
Crash(p) ==
    /\ ~At(p, "down") /\ failures < MaxFailures
    /\ failures' = failures + 1
    /\ Continue(p, Down)
    /\ UNCHANGED <<tables, deployed, editor, script, operations, asked, hindered, misplaced>>
-----------------------------------------------------------------------------
InitDeployment ==
    /\ version = "empty" /\ admin = FALSE
    /\ courses = [s \in Slugs |-> None]
    /\ deployed \in {"old", "new"}
    /\ processes = [p \in Processes |-> Down]
    /\ editor = None /\ script = None
    /\ operations = 0 /\ failures = 0
    /\ asked = {} /\ hindered = FALSE /\ misplaced = {}

Boot(p) == \/ LookupAdmin(p) \/ CreateAdmin(p) \/ LookupCourses(p) \/ CommitCatalog(p)
           \/ GiveUp(p)

MigrationStep(p) == ReadVersion(p) \/ UpdatePrice(p) \/ CommitMigration(p)

ProcessStep(p) == Start(p) \/ MigrationStep(p) \/ Boot(p)

AdminStep == \/ \E s \in Slugs : LoadCourse(s)
             \/ \E s \in Slugs, price \in AdminPrices : CreateCourse(s, price)
             \/ \E price \in AdminPrices : SavePrice(price)

DeploymentNext ==
    \/ \E p \in Processes : ProcessStep(p) \/ Crash(p)
    \/ \E p \in Containers : Stop(p)
    \/ LookupSample \/ CommitSample
    \/ AdminStep
    \/ Deploy \/ Rollback
=============================================================================
