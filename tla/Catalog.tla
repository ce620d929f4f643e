------------------------------- MODULE Catalog -------------------------------
(***************************************************************************)
(* CourseService and CategoryService for the administrators, and the       *)
(* catalogue that every boot of the API seeds from catalog_data.json.      *)
(*                                                                         *)
(* A slot is a request, or a booting process, with its database session;   *)
(* one action is one await and the code up to the next, reading committed  *)
(* rows.  Writes happen in the flush of the commit, except the categories  *)
(* of a boot, which are flushed one by one and hold their unique keys.     *)
(* The processes that boot overlap with those that serve: a deployment     *)
(* starts the new one before it stops the old one.                         *)
(*                                                                         *)
(* A title or requested slug is represented by what slugify makes of it; a *)
(* slug with a random suffix, by one that nobody asks for.  Categories are *)
(* never removed, so a course's category needs no state here.              *)
(***************************************************************************)
EXTENDS Naturals, FiniteSets

CONSTANTS
    CourseIds,
    BaseSlugs,    \* slugs of titles and requests
    FreshSlugs,   \* slugs with a random suffix
    SeedSlugs,    \* catalog_data.json: courses
    RemovedSlugs, \* catalog_data.json: removed_slugs
    Names,        \* names of categories, stripped
    SeedNames,    \* catalog_data.json: categories
    Position,     \* ... and their order there
    Stem,         \* slugify, on the names of categories: no two of the file alike
    Lettered,     \* ... and for those of the file, with a dash and its first four letters
    Requested,    \* the names that administrators create categories of
    Drafts,       \* the courses that administrators create
    Edits,        \* the bodies of their updates
    Admins,       \* concurrent requests of administrators
    Boots,        \* processes that boot at the same time
    MaxBoots,     \* bound: boots in a behaviour
    None

Slugs == BaseSlugs \cup FreshSlugs
CourseStatus == {"DRAFT", "PUBLISHED", "ARCHIVED"}

\* Where an image comes from; None is NULL.
Images == {"seed", "admin"}

CourseRow == [slug : Slugs, status : CourseStatus, image : Images \cup {None}]

\* A field that a PATCH does not set is None.
Edit == [slug : BaseSlugs \cup {None}, status : CourseStatus \cup {None},
         image : Images \cup {None}]

\* The slug of a category: its stem or, if that is taken, in a boot the one with
\* letters, which may be the stem of another name, and in a request the stem with
\* a random suffix.
CategorySlug == [text : {Stem[n] : n \in Names} \cup {Lettered[n] : n \in SeedNames},
                 random : BOOLEAN]
Plain(n)       == [text |-> Stem[n], random |-> FALSE]
WithLetters(n) == [text |-> Lettered[n], random |-> FALSE]

ASSUME SlugsAssumption ==
    /\ SeedSlugs \cup RemovedSlugs \subseteq BaseSlugs
    /\ SeedSlugs \cap RemovedSlugs = {}
    /\ BaseSlugs \cap FreshSlugs = {}
ASSUME InputsAssumption ==
    /\ SeedNames \cup Requested \subseteq Names
    /\ Position \in [SeedNames -> Nat]
    /\ \A m, n \in SeedNames :
          /\ Position[m] = Position[n] \/ Stem[m] = Stem[n] \/ Lettered[m] = Lettered[n] => m = n
          /\ Lettered[m] # Stem[n]
    /\ Drafts \subseteq [slug : BaseSlugs, status : CourseStatus, image : Images \cup {None}]
    /\ Edits \subseteq Edit
    /\ MaxBoots \in Nat
ASSUME NoneAssumption ==
    /\ None \notin CourseRow /\ None \notin CategorySlug /\ None \notin CourseIds
    /\ None \notin Slugs /\ None \notin Names /\ None \notin CourseStatus /\ None \notin Images

AdminPc == {"idle", "creating", "slugging", "updating", "deleting", "naming", "filing"}
AdminSession == [pc : AdminPc, course : CourseIds \cup {None},
                 row : CourseRow \cup {None}, edit : Edit \cup {None},
                 name : Names \cup {None}, slug : Slugs \cup CategorySlug \cup {None}]
IdleAdmin == [pc |-> "idle", course |-> None, row |-> None, edit |-> None,
              name |-> None, slug |-> None]

\* names and slugs are what the boot has still to look at, filed the categories
\* it has flushed; the rest is what its commit will do to courses.
BootPc == {"off", "categories", "removals", "courses", "commit"}
BootSession == [pc : BootPc, names : SUBSET SeedNames,
                slugs : SUBSET (SeedSlugs \cup RemovedSlugs),
                filed : [Names -> CategorySlug \cup {None}],
                archive : SUBSET CourseIds, remove : SUBSET CourseIds,
                fill : SUBSET CourseIds, create : SUBSET SeedSlugs]
Nothing == [n \in Names |-> None]
Off == [pc |-> "off", names |-> {}, slugs |-> {}, filed |-> Nothing,
        archive |-> {}, remove |-> {}, fill |-> {}, create |-> {}]

VARIABLES
    categories, \* per unique name: its slug
    courses,
    referenced, \* external: the courses with purchases
    admins,     \* sessions of requests
    boots,      \* sessions of booting processes
    started,    \* number of boots so far
    overlapped, \* history: the boots in progress that another commit overlapped
    synced,     \* history: nothing was committed since a boot that did not overlap
    retired,    \* history: the courses that a boot has archived
    restored    \* history: those of them an administrator has put back

vars == <<categories, courses, referenced, admins, boots, started, overlapped,
          synced, retired, restored>>
history == <<overlapped, synced, retired, restored>>

Init == /\ categories = Nothing
        /\ courses = [c \in CourseIds |-> None]
        /\ referenced = {}
        /\ admins = [s \in Admins |-> IdleAdmin]
        /\ boots = [b \in Boots |-> Off]
        /\ started = 0
        /\ overlapped = {} /\ synced = FALSE /\ retired = {} /\ restored = {}
-----------------------------------------------------------------------------
(* CourseRepository, CategoryRepository and the constraints *)

WithSlug(x) == {c \in CourseIds : courses[c] # None /\ courses[c].slug = x}

\* slug_exists with exclude_id.
SlugTaken(x, exclude) == WithSlug(x) \ exclude # {}

\* courses.slug is unique.
NoSlugConflict(x, exclude) == FALSE
SlugConflict(x, exclude) == WithSlug(x) \ exclude # {}

CategorySlugTaken(x) == \E n \in Names : categories[n] = x

\* The name or slug is in a category that a boot has flushed: an insert waits.
HeldByBoot(n, x, except) ==
    \E b \in Boots \ except :
        boots[b].filed[n] # None \/ \E m \in Names : boots[b].filed[m] = x

Busy == {b \in Boots : boots[b].pc # "off"}

\* Another session commits: the boots in progress overlap with it.
Committed == /\ overlapped' = overlapped \cup Busy
             /\ synced' = FALSE
-----------------------------------------------------------------------------
(* Requests of administrators *)

At(s, pc) == admins[s].pc = pc
Continue(s, session) ==
    /\ admins' = [admins EXCEPT ![s] = session]
    /\ UNCHANGED <<categories, courses, referenced, boots, started, history>>
Finish(s) == admins' = [admins EXCEPT ![s] = IdleAdmin]

\* _unique_slug: the wanted slug, or one with a random suffix.
UniqueSlugs(x, exclude) ==
    IF SlugTaken(x, exclude) THEN {f \in FreshSlugs : WithSlug(f) = {}} ELSE {x}

\* create_course
ChooseSlug(s, draft) ==
    /\ At(s, "idle")
    /\ \E x \in UniqueSlugs(draft.slug, {}) :
          Continue(s, [IdleAdmin EXCEPT !.pc = "creating", !.row = [draft EXCEPT !.slug = x]])

InsertCourse(s, c) ==
    LET row == admins[s].row
    IN  /\ At(s, "creating") /\ ~SlugConflict(row.slug, {}) /\ courses[c] = None
        /\ courses' = [courses EXCEPT ![c] = row]
        /\ Finish(s) /\ Committed
        /\ UNCHANGED <<categories, referenced, boots, started, retired, restored>>

\* update_course: the row is loaded, then a slug looked for if one is wanted.
ReadForUpdate(s, c, edit) ==
    /\ At(s, "idle") /\ courses[c] # None
    /\ Continue(s, [IdleAdmin EXCEPT !.pc = IF edit.slug = None THEN "updating" ELSE "slugging",
                                     !.course = c, !.row = courses[c], !.edit = edit])

ChooseNewSlug(s) ==
    /\ At(s, "slugging")
    /\ \E x \in UniqueSlugs(admins[s].edit.slug, {admins[s].course}) :
          Continue(s, [admins[s] EXCEPT !.pc = "updating", !.edit.slug = None, !.slug = x])

\* Only the fields that the body sets are assigned, and of those only the ones
\* that differ from the row as it was loaded are written.
WrittenAlways(loaded, value, now) == value
Written(loaded, value, now) == IF value \in {None, loaded} THEN now ELSE value
UpdatedRow(session, now) ==
    [slug   |-> Written(session.row.slug, session.slug, now.slug),
     status |-> Written(session.row.status, session.edit.status, now.status),
     image  |-> Written(session.row.image, session.edit.image, now.image)]

UpdateCourse(s) ==
    LET session == admins[s]
        c       == session.course
        row     == UpdatedRow(session, courses[c])
    IN  /\ At(s, "updating") /\ courses[c] # None
        /\ ~SlugConflict(row.slug, {c})
        /\ courses' = [courses EXCEPT ![c] = row]
        /\ restored' = IF c \in retired /\ row.status # "ARCHIVED"
                       THEN restored \cup {c} ELSE restored \ {c}
        /\ Finish(s) /\ Committed
        /\ UNCHANGED <<categories, referenced, boots, started, retired>>

\* delete_course counts the purchases; the foreign keys of those that come in
\* since then make the flush fail.
CountPurchases(s, c) ==
    /\ At(s, "idle") /\ courses[c] # None /\ c \notin referenced
    /\ Continue(s, [IdleAdmin EXCEPT !.pc = "deleting", !.course = c])

AnyDelete(c) == TRUE
DeleteAllowed(c) == c \notin referenced

DeleteCourse(s) ==
    LET c == admins[s].course
    IN  /\ At(s, "deleting") /\ DeleteAllowed(c)
        /\ courses' = [courses EXCEPT ![c] = None]
        /\ retired' = retired \ {c} /\ restored' = restored \ {c}
        /\ Finish(s) /\ Committed
        /\ UNCHANGED <<categories, referenced, boots, started>>

\* CategoryService.create looks for the name as it was typed, and would store
\* it stripped: a padded name is never found.
LookUpName(s, n, padded) ==
    /\ At(s, "idle") /\ (padded \/ categories[n] = None)
    /\ Continue(s, [IdleAdmin EXCEPT !.pc = "naming", !.name = n])

LookUpCategorySlug(s) ==
    LET plain == Plain(admins[s].name)
    IN  /\ At(s, "naming")
        /\ Continue(s, [admins[s] EXCEPT !.pc = "filing",
               !.slug = [plain EXCEPT !.random = CategorySlugTaken(plain)]])

\* Names and slugs are unique; random suffixes do not collide.
CategoryConflict(n, x) ==
    categories[n] # None \/ (~x.random /\ CategorySlugTaken(x))

InsertCategory(s) ==
    LET n == admins[s].name
        x == admins[s].slug
    IN  /\ At(s, "filing") /\ ~CategoryConflict(n, x) /\ ~HeldByBoot(n, x, {})
        /\ categories' = [categories EXCEPT ![n] = x]
        /\ Finish(s) /\ Committed
        /\ UNCHANGED <<courses, referenced, boots, started, retired, restored>>

\* A conflict at the commit (500) or any other end of the request.
Abort(s) == ~At(s, "idle") /\ Continue(s, IdleAdmin)

\* External: a student buys the course.
Purchase(c) ==
    /\ courses[c] # None /\ c \notin referenced
    /\ referenced' = referenced \cup {c} /\ Committed
    /\ UNCHANGED <<categories, courses, admins, boots, started, retired, restored>>
-----------------------------------------------------------------------------
(* seed_catalog at boot *)

Booting(b, pc) == boots[b].pc = pc
Proceed(b, session) ==
    /\ boots' = [boots EXCEPT ![b] = session]
    /\ UNCHANGED <<categories, courses, referenced, admins, history>>

Boot(b) ==
    /\ Booting(b, "off") /\ started < MaxBoots
    /\ started' = started + 1
    /\ boots' = [boots EXCEPT ![b] = [Off EXCEPT !.pc = "categories",
                                                 !.names = SeedNames, !.slugs = RemovedSlugs]]
    /\ UNCHANGED <<categories, courses, referenced, admins, history>>

AnyTurn(b, n) == Booting(b, "categories") /\ n \in boots[b].names
InTurn(b, n) == /\ Booting(b, "categories") /\ n \in boots[b].names
                /\ \A m \in boots[b].names : Position[n] <= Position[m]

\* get_by_name
Found(n) == categories[n] # None

FiledSlug(b, x) == \E m \in Names : boots[b].filed[m] = x

\* The slug with letters is not looked up again.
PlainSlug(b, n) == Plain(n)
BootSlug(b, n) == IF CategorySlugTaken(Plain(n)) \/ FiledSlug(b, Plain(n))
                  THEN WithLetters(n) ELSE Plain(n)

FlushConflict(b, n, x) == CategoryConflict(n, x) \/ FiledSlug(b, x)

\* A missing category is flushed at once; the boot waits for another that
\* holds its key.  A category that comes in between lookup and flush ends the
\* boot (FailBoot).
SyncCategory(b, n) ==
    LET x == BootSlug(b, n)
    IN  /\ InTurn(b, n)
        /\ \/ /\ Found(n)
              /\ Proceed(b, [boots[b] EXCEPT !.names = @ \ {n}])
           \/ /\ ~Found(n) /\ ~FlushConflict(b, n, x) /\ ~HeldByBoot(n, x, {b})
              /\ Proceed(b, [boots[b] EXCEPT !.names = @ \ {n}, !.filed[n] = x])
        /\ UNCHANGED started

NextPart(b, done, pc, slugs) ==
    /\ Booting(b, done) /\ boots[b].names = {}
    /\ done # "categories" => boots[b].slugs = {}
    /\ Proceed(b, [boots[b] EXCEPT !.pc = pc, !.slugs = slugs])
    /\ UNCHANGED started

\* A removed course is archived if it has purchases and deleted otherwise; of
\* the archived ones, only those that were not are written.
AlwaysReferenced(c) == TRUE
HasReferences(c) == c \in referenced

PlanRemoval(b, x) ==
    LET session == boots[b]
        found   == WithSlug(x)
        kept    == {c \in found : HasReferences(c)}
    IN  /\ Booting(b, "removals") /\ x \in session.slugs
        /\ Proceed(b, [session EXCEPT !.slugs = @ \ {x}, !.remove = @ \cup (found \ kept),
               !.archive = @ \cup {c \in kept : courses[c].status # "ARCHIVED"}])
        /\ UNCHANGED started

\* A missing course is created; an existing one gets its image if it has none.
Existing(x) == WithSlug(x)

PlanCourse(b, x) ==
    LET session == boots[b]
        found   == Existing(x)
    IN  /\ Booting(b, "courses") /\ x \in session.slugs
        /\ Proceed(b, [session EXCEPT !.slugs = @ \ {x},
               !.create = IF found = {} THEN @ \cup {x} ELSE @,
               !.fill = @ \cup {c \in found : courses[c].image = None}])
        /\ UNCHANGED started

\* What the flush of the commit demands: new slugs are free, updated rows are
\* still there, deleted ones still without purchases.
CanCommit(b) ==
    LET session == boots[b]
    IN  /\ \A x \in session.create : ~SlugConflict(x, {})
        /\ \A c \in session.archive \cup session.fill : courses[c] # None
        /\ \A c \in session.remove : DeleteAllowed(c)

WithoutImage(x) == [slug |-> x, status |-> "PUBLISHED", image |-> None]
SeededRow(x) == [slug |-> x, status |-> "PUBLISHED", image |-> "seed"]

\* The rows after the commit of a boot that gives new courses the ids.
Reseeded(session, ids) ==
    [c \in CourseIds |->
        IF c \in session.remove THEN None
        ELSE IF \E x \in session.create : ids[x] = c
        THEN SeededRow(CHOOSE x \in session.create : ids[x] = c)
        ELSE IF courses[c] = None THEN None
        ELSE [courses[c] EXCEPT !.status = IF c \in session.archive THEN "ARCHIVED" ELSE @,
                                !.image = IF c \in session.fill THEN "seed" ELSE @]]

NewIds(create) ==
    {ids \in [create -> {c \in CourseIds : courses[c] = None}] :
        \A x, y \in create : ids[x] = ids[y] => x = y}

CommitBoot(b) ==
    LET session == boots[b]
    IN  /\ Booting(b, "commit") /\ CanCommit(b)
        /\ \E ids \in NewIds(session.create) : courses' = Reseeded(session, ids)
        /\ categories' = [n \in Names |-> IF session.filed[n] # None THEN session.filed[n]
                                                                     ELSE categories[n]]
        /\ boots' = [boots EXCEPT ![b] = Off]
        /\ retired' = (retired \ session.remove) \cup session.archive
        /\ restored' = restored \ session.remove
        /\ overlapped' = (overlapped \cup Busy) \ {b}
        /\ synced' = (b \notin overlapped)
        /\ UNCHANGED <<referenced, admins, started>>

\* A conflict or another failure: logged, rolled back, and the API starts.
FailBoot(b) ==
    /\ ~Booting(b, "off")
    /\ boots' = [boots EXCEPT ![b] = Off]
    /\ overlapped' = overlapped \ {b}
    /\ UNCHANGED <<categories, courses, referenced, admins, started, synced, retired, restored>>

BootStep(b) ==
    \/ Boot(b) \/ CommitBoot(b) \/ FailBoot(b)
    \/ \E n \in SeedNames : SyncCategory(b, n)
    \/ NextPart(b, "categories", "removals", RemovedSlugs)
    \/ \E x \in RemovedSlugs : PlanRemoval(b, x)
    \/ NextPart(b, "removals", "courses", SeedSlugs)
    \/ \E x \in SeedSlugs : PlanCourse(b, x)
    \/ NextPart(b, "courses", "commit", {})

AdminStep(s) ==
    \/ \E draft \in Drafts : ChooseSlug(s, draft)
    \/ \E c \in CourseIds : InsertCourse(s, c) \/ CountPurchases(s, c)
    \/ \E c \in CourseIds, edit \in Edits : ReadForUpdate(s, c, edit)
    \/ ChooseNewSlug(s) \/ UpdateCourse(s) \/ DeleteCourse(s)
    \/ \E n \in Requested, padded \in BOOLEAN : LookUpName(s, n, padded)
    \/ LookUpCategorySlug(s) \/ InsertCategory(s) \/ Abort(s)

Next == \/ \E s \in Admins : AdminStep(s)
        \/ \E b \in Boots : BootStep(b)
        \/ \E c \in CourseIds : Purchase(c)

Spec == Init /\ [][Next]_vars
-----------------------------------------------------------------------------
(* Properties *)

\* The rows and the sessions have their types.
TypeOK == /\ categories \in [Names -> CategorySlug \cup {None}]
          /\ courses \in [CourseIds -> CourseRow \cup {None}]
          /\ referenced \subseteq CourseIds
          /\ admins \in [Admins -> AdminSession]
          /\ boots \in [Boots -> BootSession]
          /\ started \in 0 .. MaxBoots
          /\ overlapped \subseteq Boots /\ synced \in BOOLEAN
          /\ retired \subseteq CourseIds /\ restored \subseteq CourseIds

\* Two courses never share a slug, nor do two categories, whatever lookups of
\* requests and boots precede their inserts and renamings.
SlugsUnique ==
    /\ \A x \in Slugs : Cardinality(WithSlug(x)) <= 1
    /\ \A m, n \in Names :
          /\ categories[m] # None /\ categories[m] = categories[n]
          /\ ~categories[m].random
          => m = n

\* A course that students bought is never deleted, by an administrator or a
\* boot that counted the purchases before they came.
BoughtCoursesStay == \A c \in referenced : courses[c] # None

\* A boot that nothing overlapped leaves the whole catalogue: every seeded
\* category and course, and no removed course but archived ones with purchases.
SyncedCatalogIsComplete ==
    synced => /\ \A n \in SeedNames : categories[n] # None
              /\ \A x \in SeedSlugs : WithSlug(x) # {}
              /\ \A x \in RemovedSlugs : \A c \in WithSlug(x) :
                    courses[c].status = "ARCHIVED" /\ c \in referenced

\* A boot that nothing overlaps fails on no conflict but one: administrators have
\* categories with both slugs that it makes of a name.  It is never in its own way
\* or in that of earlier boots, and its courses are at the commit as it found them.
TakenOutside(x) == \E m \in Names \ SeedNames : categories[m] = x
UnhinderedBootCommits ==
    \A b \in Boots \ overlapped :
        /\ \A n \in SeedNames :
              InTurn(b, n) /\ ~Found(n) /\ FlushConflict(b, n, BootSlug(b, n))
              => TakenOutside(Plain(n)) /\ TakenOutside(WithLetters(n))
        /\ Booting(b, "commit") => CanCommit(b)

\* bootstrap.py: every boot syncs the catalogue.  Not kept, without any overlap,
\* once administrators have named categories "Velas!" and "Velas vela".
EveryBootSyncs ==
    \A b \in Boots \ overlapped, n \in SeedNames :
        InTurn(b, n) => Found(n) \/ ~FlushConflict(b, n, BootSlug(b, n))

\* Two boots that flush the same categories never wait for each other: both
\* follow the order of the file.
Waits(b, other) == \E n \in SeedNames :
    /\ InTurn(b, n) /\ ~Found(n)
    /\ HeldByBoot(n, BootSlug(b, n), Boots \ {other})
BootsNeverDeadlock == \A b, other \in Boots :
    b # other => ~(Waits(b, other) /\ Waits(other, b))

\* Seeding is idempotent: a boot that follows a boot, with nothing committed
\* since, changes nothing.
BootIsIdempotent ==
    [][\A b \in Boots : /\ Booting(b, "commit") /\ boots'[b].pc = "off"
                        /\ synced /\ b \notin overlapped
                        => UNCHANGED <<categories, courses>>]_vars

\* An administrator's decision to offer a retired course again survives the
\* next boot.
RestoredCoursesStay ==
    \A c \in restored : courses[c] # None /\ courses[c].status # "ARCHIVED"

\* An image that an administrator set is never replaced by that of the
\* catalogue file.  Not kept by a boot that overlaps with the PATCH.
ImagesSurviveBoot ==
    [][\A c \in CourseIds : /\ courses[c] # None /\ courses[c].image = "admin"
                            /\ courses'[c] # None
                            => courses'[c].image = "admin"]_vars
=============================================================================
