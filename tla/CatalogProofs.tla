---------------------------- MODULE CatalogProofs ----------------------------
(***************************************************************************)
(* Theorems of Catalog, for every set of courses, slugs and categories and *)
(* any number of administrators and boots.                                 *)
(*                                                                         *)
(* The invariant has three layers.  The rows: slugs differ, and courses    *)
(* with purchases are there.  The unique keys of the categories, which     *)
(* uncommitted boots hold as well as rows.  And what a boot knows that     *)
(* nothing has overlapped: all it has looked at is still as it was, so     *)
(* that what it plans is exactly what the catalogue lacks.                 *)
(***************************************************************************)
EXTENDS Catalog, FiniteSetTheorems, TLAPS

\* What a request holds at each of its awaits.
RequestHolds(session) ==
    /\ session.pc = "creating" => session.row \in CourseRow
    /\ session.pc \in {"slugging", "updating"} =>
           session.course \in CourseIds /\ session.row \in CourseRow /\ session.edit \in Edit
    /\ session.pc = "slugging" => session.edit.slug \in BaseSlugs
    /\ session.pc = "updating" => session.slug \in Slugs \cup {None}
    /\ session.pc = "deleting" => session.course \in CourseIds
    /\ session.pc \in {"naming", "filing"} => session.name \in Names
    /\ session.pc = "filing" => /\ session.slug \in CategorySlug
                                /\ session.slug.text = Stem[session.name]

\* The slugs that a boot can make of a name: no other name of the file has them.
OwnSlugs(n) == {Plain(n), WithLetters(n)}

\* The slug of a category comes from its name; letters, only from a boot.
CategorySlugsFit == \A n \in Names : categories[n] # None =>
    \/ categories[n].random \/ categories[n] = Plain(n)
    \/ n \in SeedNames /\ categories[n] = WithLetters(n)

CourseSlugsDiffer == \A c, d \in CourseIds :
    /\ courses[c] # None /\ courses[d] # None /\ courses[c].slug = courses[d].slug
    => c = d

CategorySlugsDiffer == \A m, n \in Names :
    /\ categories[m] # None /\ categories[m] = categories[n] /\ ~categories[m].random
    => m = n

\* A category that a boot has flushed: its keys are neither in the table nor
\* held by another boot.
FiledIsHeld(b, n) == boots[b].filed[n] # None =>
    /\ boots[b].pc # "off" /\ n \in SeedNames \ boots[b].names
    /\ boots[b].filed[n] \in OwnSlugs(n)
    /\ categories[n] = None /\ ~CategorySlugTaken(boots[b].filed[n])
    /\ \A other \in Boots : boots[other].filed[n] # None => other = b

\* A boot goes through the names in their order, and finds or files each.
NamesInOrder(session) == session.pc # "off" => \A m \in SeedNames \ session.names :
    /\ \A n \in session.names : Position[m] < Position[n]
    /\ categories[m] # None \/ session.filed[m] # None

PartsInOrder(session) ==
    /\ session.pc \in {"removals", "courses", "commit"} => session.names = {}
    /\ session.pc = "commit" => session.slugs = {}
    /\ session.pc \in {"off", "categories"} =>
           /\ session.archive = {} /\ session.remove = {}
           /\ session.fill = {} /\ session.create = {}

KeysHold == /\ CategorySlugsFit /\ CategorySlugsDiffer
            /\ \A b \in Boots : /\ \A n \in Names : FiledIsHeld(b, n)
                                /\ NamesInOrder(boots[b]) /\ PartsInOrder(boots[b])

RowsHold == /\ TypeOK /\ \A s \in Admins : RequestHolds(admins[s])
            /\ CourseSlugsDiffer /\ BoughtCoursesStay

\* The slugs that a boot has looked at.
LookedAtRemoved(session) == {x \in RemovedSlugs :
    \/ session.pc = "removals" /\ x \notin session.slugs
    \/ session.pc \in {"courses", "commit"}}
LookedAtSeeded(session) == {x \in SeedSlugs :
    \/ session.pc = "courses" /\ x \notin session.slugs
    \/ session.pc = "commit"}

Holds(c, slugs) == courses[c] # None /\ courses[c].slug \in slugs

\* What a boot plans is right, and it plans all that the catalogue lacks.
PlanIsRight(session) ==
    /\ \A x \in session.create : WithSlug(x) = {}
    /\ \A c \in session.archive : Holds(c, RemovedSlugs) /\ courses[c].status # "ARCHIVED"
    /\ \A c \in session.fill : Holds(c, SeedSlugs) /\ courses[c].image = None
    /\ \A c \in session.remove : Holds(c, RemovedSlugs) /\ c \notin referenced

PlanIsWhole(session, removed, seeded) ==
    /\ \A c \in CourseIds : Holds(c, removed) =>
           \/ c \in session.remove
           \/ c \in referenced /\ (c \in session.archive \/ courses[c].status = "ARCHIVED")
    /\ \A x \in seeded : WithSlug(x) # {} \/ x \in session.create
    /\ \A c \in CourseIds : Holds(c, seeded) => courses[c].image # None \/ c \in session.fill

BootKnows(session) ==
    /\ PlanIsRight(session)
    /\ PlanIsWhole(session, LookedAtRemoved(session), LookedAtSeeded(session))

\* The catalogue lacks nothing.
Complete == /\ \A n \in SeedNames : categories[n] # None
            /\ PlanIsWhole(Off, RemovedSlugs, SeedSlugs)

CatalogInv == /\ \A b \in Boots \ overlapped : BootKnows(boots[b])
              /\ synced => Complete

IInv == RowsHold /\ KeysHold /\ CatalogInv
-----------------------------------------------------------------------------
(* The rows: types, slugs of courses, courses with purchases *)

LEMMA OffTyped ==
    /\ Off \in BootSession
    /\ Off = [pc |-> "off", names |-> {}, slugs |-> {}, filed |-> Nothing,
              archive |-> {}, remove |-> {}, fill |-> {}, create |-> {}]
<1>. DEFINE nothing == Nothing
<1>1. nothing \in [Names -> CategorySlug \cup {None}]
  BY DEF Nothing
<1>. HIDE DEF nothing
<1>2. Off = [pc |-> "off", names |-> {}, slugs |-> {}, filed |-> nothing,
             archive |-> {}, remove |-> {}, fill |-> {}, create |-> {}]
  BY DEF Off, nothing
<1>. QED
  BY <1>1, <1>2 DEF nothing, BootSession, BootPc

LEMMA InitRows == Init => RowsHold
<1>. SUFFICES ASSUME Init PROVE RowsHold
  OBVIOUS
<1>1. IdleAdmin \in AdminSession
  BY DEF IdleAdmin, AdminSession, AdminPc
<1>2. Nothing \in [Names -> CategorySlug \cup {None}]
  BY DEF Nothing
<1>3. Off \in BootSession
  BY OffTyped
<1>4. TypeOK
  <2>1. started \in 0 .. MaxBoots
    BY InputsAssumption DEF Init
  <2>2. /\ courses \in [CourseIds -> CourseRow \cup {None}]
        /\ categories \in [Names -> CategorySlug \cup {None}]
    BY <1>2 DEF Init
  <2>3. admins \in [Admins -> AdminSession] /\ boots \in [Boots -> BootSession]
    BY <1>1, <1>3 DEF Init
  <2>. QED
    BY <2>1, <2>2, <2>3 DEF TypeOK, Init
<1>5. \A s \in Admins : RequestHolds(admins[s])
  BY DEF Init, IdleAdmin, RequestHolds
<1>. QED
  BY <1>4, <1>5 DEF RowsHold, CourseSlugsDiffer, BoughtCoursesStay, Init

\* A request that goes on with a session, or ends with the idle one.
LEMMA SessionsStayTyped ==
    ASSUME RowsHold, NEW s \in Admins, NEW session \in AdminSession,
           RequestHolds(session), admins' = [admins EXCEPT ![s] = session]
    PROVE  /\ admins' \in [Admins -> AdminSession]
           /\ \A n \in Admins : RequestHolds(admins'[n])
<1>1. admins \in [Admins -> AdminSession]
  BY DEF RowsHold, TypeOK
<1>2. \A n \in Admins : admins'[n] = IF n = s THEN session ELSE admins[n]
  BY <1>1
<1>. QED
  BY <1>1, <1>2 DEF RowsHold

LEMMA FinishTyped ==
    ASSUME RowsHold, NEW s \in Admins, Finish(s)
    PROVE  /\ admins' \in [Admins -> AdminSession]
           /\ \A n \in Admins : RequestHolds(admins'[n])
<1>1. IdleAdmin \in AdminSession /\ RequestHolds(IdleAdmin)
  BY DEF IdleAdmin, AdminSession, AdminPc, RequestHolds
<1>. QED
  BY <1>1, SessionsStayTyped DEF Finish

LEMMA ContinueRows ==
    ASSUME RowsHold, NEW s \in Admins, NEW session \in AdminSession,
           RequestHolds(session), Continue(s, session)
    PROVE  RowsHold'
<1>1. /\ admins' \in [Admins -> AdminSession]
      /\ \A n \in Admins : RequestHolds(admins'[n])
  BY SessionsStayTyped DEF Continue
<1>2. UNCHANGED <<categories, courses, referenced, boots, started, history>>
  BY DEF Continue
<1>3. TypeOK'
  BY <1>1, <1>2 DEF RowsHold, TypeOK, history
<1>. QED
  BY <1>1, <1>2, <1>3 DEF RowsHold, CourseSlugsDiffer, BoughtCoursesStay

LEMMA UniqueSlugsTyped ==
    ASSUME NEW x \in Slugs, NEW exclude PROVE UniqueSlugs(x, exclude) \subseteq Slugs
  BY DEF UniqueSlugs, Slugs

LEMMA RequestsRead ==
    ASSUME RowsHold, NEW s \in Admins
    PROVE  /\ \A draft \in Drafts : ChooseSlug(s, draft) => RowsHold'
           /\ \A c \in CourseIds, edit \in Edits : ReadForUpdate(s, c, edit) => RowsHold'
           /\ ChooseNewSlug(s) => RowsHold'
           /\ \A c \in CourseIds : CountPurchases(s, c) => RowsHold'
           /\ \A n \in Names, padded \in BOOLEAN : LookUpName(s, n, padded) => RowsHold'
           /\ LookUpCategorySlug(s) => RowsHold'
           /\ Abort(s) => RowsHold'
<1>. /\ IdleAdmin \in AdminSession
     /\ IdleAdmin = [pc |-> "idle", course |-> None, row |-> None, edit |-> None,
                     name |-> None, slug |-> None]
  BY DEF IdleAdmin, AdminSession, AdminPc
<1>. admins[s] \in AdminSession /\ RequestHolds(admins[s])
  BY DEF RowsHold, TypeOK
<1>1. ASSUME NEW draft \in Drafts, ChooseSlug(s, draft) PROVE RowsHold'
  <2>1. draft \in [slug : BaseSlugs, status : CourseStatus, image : Images \cup {None}]
    BY InputsAssumption
  <2>2. PICK x \in UniqueSlugs(draft.slug, {}) :
            Continue(s, [IdleAdmin EXCEPT !.pc = "creating", !.row = [draft EXCEPT !.slug = x]])
    BY <1>1 DEF ChooseSlug
  <2>3. x \in Slugs
    BY <2>1, <2>2, UniqueSlugsTyped DEF Slugs
  <2>4. [draft EXCEPT !.slug = x] \in CourseRow
    BY <2>1, <2>3 DEF CourseRow
  <2>. DEFINE session == [IdleAdmin EXCEPT !.pc = "creating", !.row = [draft EXCEPT !.slug = x]]
  <2>5. session \in AdminSession /\ RequestHolds(session)
    BY <2>4 DEF AdminSession, AdminPc, RequestHolds
  <2>. QED
    BY <2>2, <2>5, ContinueRows
<1>2. ASSUME NEW c \in CourseIds, NEW edit \in Edits, ReadForUpdate(s, c, edit) PROVE RowsHold'
  <2>. DEFINE pc == IF edit.slug = None THEN "updating" ELSE "slugging"
              session == [IdleAdmin EXCEPT !.pc = pc, !.course = c, !.row = courses[c],
                                           !.edit = edit]
  <2>1. Continue(s, session)
    BY <1>2 DEF ReadForUpdate
  <2>2. edit \in Edit /\ pc \in {"updating", "slugging"}
        /\ (pc = "slugging" => edit.slug \in BaseSlugs)
    BY InputsAssumption DEF Edit
  <2>3. courses[c] \in CourseRow
    BY <1>2 DEF ReadForUpdate, RowsHold, TypeOK
  <2>. HIDE DEF pc
  <2>4. session \in AdminSession /\ RequestHolds(session)
    BY <2>2, <2>3 DEF AdminSession, AdminPc, RequestHolds
  <2>. QED
    BY <2>1, <2>4, ContinueRows
<1>3. ASSUME ChooseNewSlug(s) PROVE RowsHold'
  <2>1. PICK x \in UniqueSlugs(admins[s].edit.slug, {admins[s].course}) :
            Continue(s, [admins[s] EXCEPT !.pc = "updating", !.edit.slug = None, !.slug = x])
    BY <1>3 DEF ChooseNewSlug
  <2>2. /\ admins[s].course \in CourseIds /\ admins[s].row \in CourseRow
        /\ admins[s].edit \in Edit /\ admins[s].edit.slug \in BaseSlugs
    BY <1>3 DEF ChooseNewSlug, At, RequestHolds
  <2>3. x \in Slugs
    BY <2>1, <2>2, UniqueSlugsTyped DEF Slugs
  <2>4. [admins[s].edit EXCEPT !.slug = None] \in Edit
    BY <2>2 DEF Edit
  <2>. DEFINE session == [admins[s] EXCEPT !.pc = "updating", !.edit.slug = None, !.slug = x]
  <2>5. session \in AdminSession /\ RequestHolds(session)
    BY <2>2, <2>3, <2>4 DEF AdminSession, AdminPc, RequestHolds
  <2>. QED
    BY <2>1, <2>5, ContinueRows
<1>4. ASSUME NEW c \in CourseIds, CountPurchases(s, c) PROVE RowsHold'
  <2>. DEFINE session == [IdleAdmin EXCEPT !.pc = "deleting", !.course = c]
  <2>1. session \in AdminSession /\ RequestHolds(session)
    BY DEF AdminSession, AdminPc, RequestHolds
  <2>. QED
    BY <1>4, <2>1, ContinueRows DEF CountPurchases
<1>5. ASSUME NEW n \in Names, NEW padded \in BOOLEAN, LookUpName(s, n, padded) PROVE RowsHold'
  <2>. DEFINE session == [IdleAdmin EXCEPT !.pc = "naming", !.name = n]
  <2>1. session \in AdminSession /\ RequestHolds(session)
    BY DEF AdminSession, AdminPc, RequestHolds
  <2>. QED
    BY <1>5, <2>1, ContinueRows DEF LookUpName
<1>6. ASSUME LookUpCategorySlug(s) PROVE RowsHold'
  <2>. DEFINE plain == Plain(admins[s].name)
              x == [plain EXCEPT !.random = CategorySlugTaken(plain)]
              session == [admins[s] EXCEPT !.pc = "filing", !.slug = x]
  <2>1. admins[s].name \in Names
    BY <1>6 DEF LookUpCategorySlug, At, RequestHolds
  <2>2. x \in CategorySlug /\ x.text = Stem[admins[s].name]
    BY <2>1 DEF CategorySlug, Plain, CategorySlugTaken
  <2>3. Continue(s, session)
    BY <1>6 DEF LookUpCategorySlug
  <2>. HIDE DEF x
  <2>4. session \in AdminSession /\ RequestHolds(session)
    BY <2>1, <2>2 DEF AdminSession, AdminPc, RequestHolds
  <2>. QED
    BY <2>3, <2>4, ContinueRows
<1>7. ASSUME Abort(s) PROVE RowsHold'
  BY <1>7, ContinueRows DEF Abort, RequestHolds
<1>. QED
  BY <1>1, <1>2, <1>3, <1>4, <1>5, <1>6, <1>7

LEMMA CommittedTyped ==
    ASSUME RowsHold, Committed PROVE overlapped' \subseteq Boots /\ synced' \in BOOLEAN
  BY DEF RowsHold, TypeOK, Committed, Busy

LEMMA InsertCourseRows ==
    ASSUME RowsHold, NEW s \in Admins, NEW c \in CourseIds, InsertCourse(s, c)
    PROVE  RowsHold'
<1>. DEFINE row == admins[s].row
<1>1. /\ ~SlugConflict(row.slug, {}) /\ courses[c] = None
      /\ courses' = [courses EXCEPT ![c] = row]
      /\ Finish(s) /\ Committed
      /\ UNCHANGED <<categories, referenced, boots, started, retired, restored>>
  BY DEF InsertCourse
<1>2. row \in CourseRow
  BY DEF InsertCourse, At, RowsHold, RequestHolds
<1>3. courses \in [CourseIds -> CourseRow \cup {None}]
  BY DEF RowsHold, TypeOK
<1>4. \A d \in CourseIds : courses'[d] = IF d = c THEN row ELSE courses[d]
  BY <1>1, <1>3
<1>5. TypeOK'
  <2>1. courses' \in [CourseIds -> CourseRow \cup {None}]
    BY <1>1, <1>2, <1>3
  <2>. QED
    BY <1>1, <2>1, CommittedTyped, FinishTyped DEF RowsHold, TypeOK
<1>6. CourseSlugsDiffer'
  <2>1. \A d \in CourseIds : courses[d] # None => courses[d].slug # row.slug
    BY <1>1 DEF SlugConflict, WithSlug
  <2>. HIDE DEF row
  <2>. QED
    BY <1>4, <2>1 DEF RowsHold, CourseSlugsDiffer
<1>7. BoughtCoursesStay'
  BY <1>1, <1>2, <1>4, NoneAssumption DEF RowsHold, BoughtCoursesStay, TypeOK
<1>. QED
  BY <1>1, <1>5, <1>6, <1>7, FinishTyped DEF RowsHold

LEMMA UpdatedRowTyped ==
    ASSUME NEW session \in AdminSession, NEW now \in CourseRow,
           session.edit \in Edit, session.slug \in Slugs \cup {None}
    PROVE  UpdatedRow(session, now) \in CourseRow
<1>1. Written(session.row.slug, session.slug, now.slug) \in Slugs
  BY DEF Written, CourseRow
<1>2. Written(session.row.status, session.edit.status, now.status) \in CourseStatus
  BY DEF Written, CourseRow, Edit
<1>3. Written(session.row.image, session.edit.image, now.image) \in Images \cup {None}
  BY DEF Written, CourseRow, Edit
<1>. QED
  BY <1>1, <1>2, <1>3 DEF UpdatedRow, CourseRow

LEMMA UpdateCourseRows ==
    ASSUME RowsHold, NEW s \in Admins, UpdateCourse(s)
    PROVE  RowsHold'
<1>. DEFINE c   == admins[s].course
            row == UpdatedRow(admins[s], courses[c])
<1>1. /\ courses[c] # None /\ ~SlugConflict(row.slug, {c})
      /\ courses' = [courses EXCEPT ![c] = row]
      /\ restored' = IF c \in retired /\ row.status # "ARCHIVED"
                     THEN restored \cup {c} ELSE restored \ {c}
      /\ Finish(s) /\ Committed
      /\ UNCHANGED <<categories, referenced, boots, started, retired>>
  BY DEF UpdateCourse
<1>2. courses \in [CourseIds -> CourseRow \cup {None}]
  BY DEF RowsHold, TypeOK
<1>3. c \in CourseIds /\ row \in CourseRow
  <2>1. admins[s] \in AdminSession /\ RequestHolds(admins[s]) /\ admins[s].pc = "updating"
    BY DEF UpdateCourse, At, RowsHold, TypeOK
  <2>2. c \in CourseIds /\ admins[s].edit \in Edit /\ admins[s].slug \in Slugs \cup {None}
    BY <2>1 DEF RequestHolds
  <2>. QED
    BY <1>1, <1>2, <2>1, <2>2, UpdatedRowTyped
<1>. HIDE DEF c, row
<1>4. \A d \in CourseIds : courses'[d] = IF d = c THEN row ELSE courses[d]
  BY <1>1, <1>2
<1>5. TypeOK'
  <2>1. courses' \in [CourseIds -> CourseRow \cup {None}]
    BY <1>1, <1>2, <1>3
  <2>. QED
    BY <1>1, <1>3, <2>1, CommittedTyped, FinishTyped DEF RowsHold, TypeOK
<1>6. CourseSlugsDiffer'
  <2>1. \A d \in CourseIds \ {c} : courses[d] # None => courses[d].slug # row.slug
    BY <1>1 DEF SlugConflict, WithSlug
  <2>. QED
    BY <1>4, <2>1 DEF RowsHold, CourseSlugsDiffer
<1>7. BoughtCoursesStay'
  BY <1>1, <1>3, <1>4, NoneAssumption DEF RowsHold, BoughtCoursesStay, TypeOK
<1>. QED
  BY <1>1, <1>5, <1>6, <1>7, FinishTyped DEF RowsHold

LEMMA DeleteCourseRows ==
    ASSUME RowsHold, NEW s \in Admins, DeleteCourse(s)
    PROVE  RowsHold'
<1>. DEFINE c == admins[s].course
<1>1. /\ c \notin referenced
      /\ courses' = [courses EXCEPT ![c] = None]
      /\ retired' = retired \ {c} /\ restored' = restored \ {c}
      /\ Finish(s) /\ Committed
      /\ UNCHANGED <<categories, referenced, boots, started>>
  BY DEF DeleteCourse, DeleteAllowed
<1>2. courses \in [CourseIds -> CourseRow \cup {None}]
  BY DEF RowsHold, TypeOK
<1>. HIDE DEF c
<1>3. \A d \in CourseIds : courses'[d] = IF d = c THEN None ELSE courses[d]
  BY <1>1, <1>2
<1>4. TypeOK'
  <2>1. courses' \in [CourseIds -> CourseRow \cup {None}]
    BY <1>1, <1>2
  <2>. QED
    BY <1>1, <2>1, CommittedTyped, FinishTyped DEF RowsHold, TypeOK
<1>5. CourseSlugsDiffer' /\ BoughtCoursesStay'
  BY <1>1, <1>3 DEF RowsHold, CourseSlugsDiffer, BoughtCoursesStay, TypeOK
<1>. QED
  BY <1>1, <1>4, <1>5, FinishTyped DEF RowsHold

LEMMA InsertCategoryRows ==
    ASSUME RowsHold, NEW s \in Admins, InsertCategory(s)
    PROVE  RowsHold'
<1>. DEFINE n == admins[s].name
            x == admins[s].slug
<1>1. /\ categories' = [categories EXCEPT ![n] = x]
      /\ Finish(s) /\ Committed
      /\ UNCHANGED <<courses, referenced, boots, started, retired, restored>>
  BY DEF InsertCategory
<1>2. x \in CategorySlug
  BY DEF InsertCategory, At, RowsHold, RequestHolds
<1>3. TypeOK'
  <2>1. categories' \in [Names -> CategorySlug \cup {None}]
    BY <1>1, <1>2 DEF RowsHold, TypeOK
  <2>. QED
    BY <1>1, <2>1, CommittedTyped, FinishTyped DEF RowsHold, TypeOK
<1>. QED
  BY <1>1, <1>3, FinishTyped DEF RowsHold, CourseSlugsDiffer, BoughtCoursesStay

LEMMA PurchaseRows ==
    ASSUME RowsHold, NEW c \in CourseIds, Purchase(c)
    PROVE  RowsHold'
  BY CommittedTyped DEF RowsHold, TypeOK, CourseSlugsDiffer, BoughtCoursesStay, Purchase

LEMMA AdminRows == ASSUME RowsHold, NEW s \in Admins, AdminStep(s) PROVE RowsHold'
  BY RequestsRead, InsertCourseRows, UpdateCourseRows, DeleteCourseRows, InsertCategoryRows,
     InputsAssumption DEF AdminStep

\* A boot that only changes its session.
LEMMA ProceedRows ==
    ASSUME RowsHold, NEW b \in Boots, NEW session \in BootSession,
           Proceed(b, session), UNCHANGED started
    PROVE  RowsHold'
<1>1. boots' \in [Boots -> BootSession]
  BY DEF Proceed, RowsHold, TypeOK
<1>. QED
  BY <1>1 DEF Proceed, RowsHold, TypeOK, CourseSlugsDiffer, BoughtCoursesStay, history

LEMMA BootRows ==
    ASSUME RowsHold, NEW b \in Boots, Boot(b) PROVE RowsHold'
<1>. DEFINE session == [Off EXCEPT !.pc = "categories", !.names = SeedNames, !.slugs = RemovedSlugs]
<1>1. session \in BootSession
  BY OffTyped DEF BootSession, BootPc
<1>. HIDE DEF session
<1>2. boots' = [boots EXCEPT ![b] = session]
  BY DEF Boot, session
<1>3. boots' \in [Boots -> BootSession]
  BY <1>1, <1>2 DEF RowsHold, TypeOK
<1>4. started' \in 0 .. MaxBoots /\ overlapped' \subseteq Boots
  BY InputsAssumption DEF Boot, history, RowsHold, TypeOK
<1>. QED
  BY <1>3, <1>4 DEF Boot, history, RowsHold, TypeOK, CourseSlugsDiffer, BoughtCoursesStay

LEMMA BootSlugTyped ==
    ASSUME NEW b \in Boots, NEW n \in SeedNames
    PROVE  /\ BootSlug(b, n) \in CategorySlug
           /\ BootSlug(b, n) \in OwnSlugs(n)
  BY InputsAssumption DEF BootSlug, CategorySlug, OwnSlugs, Plain, WithLetters

LEMMA OwnSlugsAreOwn ==
    ASSUME NEW m \in SeedNames, NEW n \in SeedNames, NEW x \in OwnSlugs(m)
    PROVE  /\ x # None /\ ~x.random
           /\ x \in OwnSlugs(n) => m = n
<1>1. x \in CategorySlug /\ ~x.random /\ x.text \in {Stem[m], Lettered[m]}
  <2>1. m \in Names
    BY InputsAssumption
  <2>2. CASE x = Plain(m)
    BY <2>1, <2>2 DEF CategorySlug, Plain
  <2>3. CASE x = WithLetters(m)
    BY <2>3 DEF CategorySlug, WithLetters
  <2>. QED
    BY <2>2, <2>3 DEF OwnSlugs
<1>2. x \in OwnSlugs(n) => x.text \in {Stem[n], Lettered[n]}
  BY DEF OwnSlugs, Plain, WithLetters
<1>. QED
  BY <1>1, <1>2, NoneAssumption, InputsAssumption

LEMMA SyncCategoryRows ==
    ASSUME RowsHold, NEW b \in Boots, NEW n \in SeedNames, SyncCategory(b, n)
    PROVE  RowsHold'
<1>. DEFINE x == BootSlug(b, n)
            found == [boots[b] EXCEPT !.names = @ \ {n}]
            filed == [boots[b] EXCEPT !.names = @ \ {n}, !.filed[n] = x]
<1>1. boots[b] \in BootSession
  BY DEF RowsHold, TypeOK
<1>2. x \in CategorySlug
  BY BootSlugTyped
<1>. HIDE DEF x
<1>3. [boots[b].filed EXCEPT ![n] = x] \in [Names -> CategorySlug \cup {None}]
  BY <1>1, <1>2 DEF BootSession
<1>4. found \in BootSession /\ filed \in BootSession
  BY <1>1, <1>3 DEF BootSession
<1>5. (Proceed(b, found) \/ Proceed(b, filed)) /\ UNCHANGED started
  BY DEF SyncCategory, x
<1>. QED
  BY <1>4, <1>5, ProceedRows

LEMMA NextPartRows ==
    ASSUME RowsHold, NEW b \in Boots, NEW done, NEW pc \in BootPc,
           NEW slugs \in SUBSET (SeedSlugs \cup RemovedSlugs), NextPart(b, done, pc, slugs)
    PROVE  RowsHold'
<1>. DEFINE session == [boots[b] EXCEPT !.pc = pc, !.slugs = slugs]
<1>1. boots[b] \in BootSession
  BY DEF RowsHold, TypeOK
<1>2. session \in BootSession
  BY <1>1 DEF BootSession
<1>. QED
  BY <1>2, ProceedRows DEF NextPart

LEMMA PlanRows ==
    ASSUME RowsHold, NEW b \in Boots, NEW x \in Slugs,
           \/ x \in RemovedSlugs /\ PlanRemoval(b, x)
           \/ x \in SeedSlugs /\ PlanCourse(b, x)
    PROVE  RowsHold'
<1>1. boots[b] \in BootSession
  BY DEF RowsHold, TypeOK
<1>2. WithSlug(x) \subseteq CourseIds
  BY DEF WithSlug
<1>3. CASE PlanRemoval(b, x)
  <2>. DEFINE found == WithSlug(x)
              kept == {c \in found : HasReferences(c)}
              archived == {c \in kept : courses[c].status # "ARCHIVED"}
              session == [boots[b] EXCEPT !.slugs = @ \ {x}, !.remove = @ \cup (found \ kept),
                                          !.archive = @ \cup archived]
  <2>1. Proceed(b, session) /\ UNCHANGED started
    BY <1>3 DEF PlanRemoval
  <2>2. found \subseteq CourseIds /\ archived \subseteq CourseIds
    BY <1>2
  <2>. HIDE DEF found, kept, archived
  <2>3. session \in BootSession
    BY <1>1, <2>2 DEF BootSession
  <2>. QED
    BY <2>1, <2>3, ProceedRows
<1>4. CASE x \in SeedSlugs /\ PlanCourse(b, x)
  <2>. DEFINE found == Existing(x)
              create == IF found = {} THEN boots[b].create \cup {x} ELSE boots[b].create
              filled == {c \in found : courses[c].image = None}
              session == [boots[b] EXCEPT !.slugs = @ \ {x}, !.create = create,
                                          !.fill = @ \cup filled]
  <2>1. Proceed(b, session) /\ UNCHANGED started
    BY <1>4 DEF PlanCourse
  <2>2. filled \subseteq CourseIds
    BY <1>2 DEF Existing
  <2>3. create \subseteq SeedSlugs
    BY <1>1, <1>4 DEF BootSession
  <2>. HIDE DEF found, create, filled
  <2>4. session \in BootSession
    BY <1>1, <2>2, <2>3 DEF BootSession
  <2>. QED
    BY <2>1, <2>4, ProceedRows
<1>. QED
  BY <1>3, <1>4

LEMMA FailBootRows ==
    ASSUME RowsHold, NEW b \in Boots, FailBoot(b) PROVE RowsHold'
<1>1. boots' \in [Boots -> BootSession]
  BY OffTyped DEF FailBoot, RowsHold, TypeOK
<1>. QED
  BY <1>1 DEF FailBoot, RowsHold, TypeOK, CourseSlugsDiffer, BoughtCoursesStay, history

\* What the commit of a boot makes of a course: it removes it, creates it for
\* one of its slugs, leaves it out, or keeps it with its slug.
LEMMA CommitEffect ==
    ASSUME RowsHold, NEW b \in Boots,
           NEW ids \in NewIds(boots[b].create), courses' = Reseeded(boots[b], ids),
           NEW c \in CourseIds
    PROVE  \/ c \in boots[b].remove /\ courses'[c] = None
           \/ /\ c \notin boots[b].remove
              /\ \E x \in boots[b].create : ids[x] = c /\ courses'[c] = SeededRow(x)
           \/ /\ c \notin boots[b].remove /\ courses[c] = None /\ courses'[c] = None
              /\ \A x \in boots[b].create : ids[x] # c
           \/ /\ c \notin boots[b].remove /\ courses[c] \in CourseRow
              /\ courses'[c] \in CourseRow /\ courses'[c].slug = courses[c].slug
              /\ courses'[c].status = IF c \in boots[b].archive THEN "ARCHIVED" ELSE courses[c].status
              /\ courses'[c].image = IF c \in boots[b].fill THEN "seed" ELSE courses[c].image
              /\ \A x \in boots[b].create : ids[x] # c
<1>. DEFINE session == boots[b]
            kept == [courses[c] EXCEPT !.status = IF c \in session.archive THEN "ARCHIVED" ELSE @,
                                       !.image = IF c \in session.fill THEN "seed" ELSE @]
            y == CHOOSE x \in session.create : ids[x] = c
<1>1. courses'[c] = IF c \in session.remove THEN None
                    ELSE IF \E x \in session.create : ids[x] = c THEN SeededRow(y)
                    ELSE IF courses[c] = None THEN None ELSE kept
  BY DEF Reseeded
<1>2. (\E x \in session.create : ids[x] = c) => y \in session.create /\ ids[y] = c
  OBVIOUS
<1>3. courses[c] # None =>
          /\ courses[c] \in CourseRow /\ kept \in CourseRow /\ kept.slug = courses[c].slug
          /\ kept.status = IF c \in session.archive THEN "ARCHIVED" ELSE courses[c].status
          /\ kept.image = IF c \in session.fill THEN "seed" ELSE courses[c].image
  BY DEF RowsHold, TypeOK, CourseRow, CourseStatus, Images
<1>. HIDE DEF y, kept
<1>4. CASE c \in session.remove
  BY <1>1, <1>4
<1>5. CASE c \notin session.remove /\ \E x \in session.create : ids[x] = c
  BY <1>1, <1>2, <1>5
<1>6. CASE c \notin session.remove /\ ~(\E x \in session.create : ids[x] = c) /\ courses[c] = None
  BY <1>1, <1>6
<1>7. CASE c \notin session.remove /\ ~(\E x \in session.create : ids[x] = c) /\ courses[c] # None
  BY <1>1, <1>3, <1>7
<1>. QED
  BY <1>4, <1>5, <1>6, <1>7

LEMMA SeededRowTyped ==
    ASSUME NEW x \in SeedSlugs
    PROVE  /\ SeededRow(x) \in CourseRow /\ SeededRow(x) # None /\ SeededRow(x).slug = x
           /\ SeededRow(x).status = "PUBLISHED" /\ SeededRow(x).image = "seed"
<1>1. SeededRow(x) \in CourseRow
  BY SlugsAssumption DEF SeededRow, CourseRow, Slugs, CourseStatus, Images
<1>. QED
  BY <1>1, NoneAssumption DEF SeededRow

LEMMA NewIdsDiffer ==
    ASSUME NEW create, NEW ids \in NewIds(create)
    PROVE  /\ \A x \in create : ids[x] \in CourseIds /\ courses[ids[x]] = None
           /\ \A x, y \in create : ids[x] = ids[y] => x = y
  BY DEF NewIds

LEMMA CommitBootRows ==
    ASSUME RowsHold, NEW b \in Boots, CommitBoot(b) PROVE RowsHold'
<1>. DEFINE session == boots[b]
            create == session.create
<1>1. PICK ids \in NewIds(create) : courses' = Reseeded(session, ids)
  BY DEF CommitBoot
<1>2. /\ \A x \in create : WithSlug(x) = {}
      /\ \A c \in session.remove : c \notin referenced
      /\ categories' = [n \in Names |-> IF session.filed[n] # None THEN session.filed[n]
                                                                    ELSE categories[n]]
      /\ boots' = [boots EXCEPT ![b] = Off]
      /\ retired' = (retired \ session.remove) \cup session.archive
      /\ restored' = restored \ session.remove
      /\ overlapped' = (overlapped \cup Busy) \ {b}
      /\ synced' = (b \notin overlapped)
      /\ UNCHANGED <<referenced, admins, started>>
  BY DEF CommitBoot, CanCommit, DeleteAllowed, SlugConflict
<1>3. session \in BootSession /\ create \subseteq SeedSlugs
  BY DEF RowsHold, TypeOK, BootSession
<1>4. \A x \in create : /\ SeededRow(x) \in CourseRow /\ SeededRow(x) # None
                        /\ SeededRow(x).slug = x
  BY <1>3, SeededRowTyped
<1>5. ASSUME NEW c \in CourseIds PROVE courses'[c] \in CourseRow \cup {None}
  <2>. HIDE DEF create, session
  <2>. QED
    BY <1>1, <1>4, CommitEffect DEF session, create
<1>6. TypeOK'
  <2>1. courses' \in [CourseIds -> CourseRow \cup {None}]
    BY <1>1, <1>5 DEF Reseeded
  <2>2. categories' \in [Names -> CategorySlug \cup {None}]
    <3>1. \A n \in Names : session.filed[n] \in CategorySlug \cup {None}
      BY <1>3 DEF BootSession
    <3>. QED
      BY <1>2, <3>1 DEF RowsHold, TypeOK
  <2>3. boots' \in [Boots -> BootSession]
    BY <1>2, OffTyped DEF RowsHold, TypeOK
  <2>4. retired' \subseteq CourseIds /\ restored' \subseteq CourseIds
    BY <1>2, <1>3 DEF RowsHold, TypeOK, BootSession
  <2>. QED
    BY <1>2, <2>1, <2>2, <2>3, <2>4 DEF RowsHold, TypeOK, Busy
<1>7. ASSUME NEW c \in CourseIds, NEW d \in CourseIds,
             courses'[c] # None, courses'[d] # None, courses'[c].slug = courses'[d].slug
      PROVE  c = d
  <2>1. \A e \in {c, d} : courses'[e] # None =>
            \/ \E x \in create : ids[x] = e /\ courses'[e].slug = x
            \/ courses[e] # None /\ courses[e].slug = courses'[e].slug
    BY <1>1, <1>4, CommitEffect, NoneAssumption
  <2>2. \A x \in create, e \in CourseIds : courses[e] # None => courses[e].slug # x
    BY <1>2 DEF WithSlug
  <2>3. \A x, y \in create : ids[x] = ids[y] => x = y
    BY <1>1, NewIdsDiffer
  <2>. QED
    BY <1>7, <2>1, <2>2, <2>3 DEF RowsHold, CourseSlugsDiffer
<1>8. BoughtCoursesStay'
  <2>1. \A c \in CourseIds : c \notin session.remove /\ courses[c] # None => courses'[c] # None
    BY <1>1, <1>4, CommitEffect, NoneAssumption
  <2>. QED
    BY <1>2, <2>1 DEF RowsHold, BoughtCoursesStay, TypeOK
<1>. QED
  BY <1>2, <1>6, <1>7, <1>8 DEF RowsHold, CourseSlugsDiffer

LEMMA BootStepRows == ASSUME RowsHold, NEW b \in Boots, BootStep(b) PROVE RowsHold'
<1>1. RemovedSlugs \cup SeedSlugs \subseteq Slugs
  BY SlugsAssumption DEF Slugs
<1>2. {"removals", "courses", "commit"} \subseteq BootPc
  BY DEF BootPc
<1>. QED
  BY <1>1, <1>2, BootRows, SyncCategoryRows, NextPartRows, PlanRows, FailBootRows, CommitBootRows
     DEF BootStep

LEMMA StutterRows == RowsHold /\ UNCHANGED vars => RowsHold'
  BY DEF RowsHold, TypeOK, CourseSlugsDiffer, BoughtCoursesStay, vars

LEMMA StepRows == RowsHold /\ [Next]_vars => RowsHold'
  BY AdminRows, BootStepRows, PurchaseRows, StutterRows DEF Next

\* The rows and the sessions of requests and boots have their types.
THEOREM TypeCorrect == Spec => []TypeOK
<1>1. RowsHold => TypeOK
  BY DEF RowsHold
<1>. QED
  BY <1>1, InitRows, StepRows, PTL DEF Spec

\* No interleaving of requests, purchases and boots deletes a course that a
\* student has bought.
THEOREM PurchasedCoursesStay == Spec => []BoughtCoursesStay
<1>1. RowsHold => BoughtCoursesStay
  BY DEF RowsHold
<1>. QED
  BY <1>1, InitRows, StepRows, PTL DEF Spec
-----------------------------------------------------------------------------
(* The unique keys of the categories *)

LEMMA InitKeys == Init => KeysHold
  BY OffTyped DEF Init, KeysHold, Nothing, CategorySlugsFit, CategorySlugsDiffer, FiledIsHeld,
                  NamesInOrder, PartsInOrder

LEMMA OtherStepKeys == ASSUME KeysHold, UNCHANGED <<categories, boots>> PROVE KeysHold'
  BY DEF KeysHold, CategorySlugsFit, CategorySlugsDiffer, FiledIsHeld, CategorySlugTaken,
         NamesInOrder, PartsInOrder

\* A request that inserts a category waits for the boots that hold its keys.
LEMMA InsertCategoryKeys ==
    ASSUME RowsHold, KeysHold, NEW s \in Admins, InsertCategory(s)
    PROVE  KeysHold'
<1>. DEFINE n == admins[s].name
            x == admins[s].slug
<1>1. /\ ~CategoryConflict(n, x) /\ ~HeldByBoot(n, x, {})
      /\ categories' = [categories EXCEPT ![n] = x] /\ UNCHANGED boots
  BY DEF InsertCategory
<1>2. n \in Names /\ x \in CategorySlug /\ x.text = Stem[n]
  BY DEF InsertCategory, At, RowsHold, RequestHolds
<1>3. categories \in [Names -> CategorySlug \cup {None}]
  BY DEF RowsHold, TypeOK
<1>4. x # None
  BY <1>2, NoneAssumption
<1>. HIDE DEF n, x
<1>5. \A m \in Names : categories'[m] = IF m = n THEN x ELSE categories[m]
  BY <1>1, <1>3
<1>6. CategorySlugsFit'
  <2>1. x.random \/ x = Plain(n)
    <3>1. x = [text |-> x.text, random |-> x.random] /\ x.random \in BOOLEAN
      BY <1>2 DEF CategorySlug
    <3>2. CASE x.random = FALSE
      BY <1>2, <3>1, <3>2 DEF Plain
    <3>. QED
      BY <3>1, <3>2
  <2>2. ASSUME NEW m \in Names, categories'[m] # None
        PROVE  \/ categories'[m].random \/ categories'[m] = Plain(m)
               \/ m \in SeedNames /\ categories'[m] = WithLetters(m)
    BY <1>5, <2>1, <2>2 DEF KeysHold, CategorySlugsFit
  <2>. QED
    BY <2>2 DEF CategorySlugsFit, Plain, WithLetters
<1>7. CategorySlugsDiffer'
  <2>1. x.random \/ \A m \in Names : categories[m] # x
    BY <1>1 DEF CategoryConflict, CategorySlugTaken
  <2>. QED
    BY <1>5, <2>1 DEF KeysHold, CategorySlugsDiffer
<1>8. ASSUME NEW b \in Boots, NEW m \in Names PROVE FiledIsHeld(b, m)'
  <2>1. boots[b].filed[n] = None /\ boots[b].filed[m] # x
    BY <1>1 DEF HeldByBoot
  <2>2. FiledIsHeld(b, m)
    BY DEF KeysHold
  <2>3. ~CategorySlugTaken(boots[b].filed[m]) => ~CategorySlugTaken(boots[b].filed[m])'
    BY <1>1, <1>5, <2>1 DEF CategorySlugTaken
  <2>. QED
    BY <1>1, <1>5, <2>1, <2>2, <2>3 DEF FiledIsHeld
<1>9. ASSUME NEW b \in Boots PROVE NamesInOrder(boots[b])' /\ PartsInOrder(boots[b])'
  BY <1>1, <1>4, <1>5, InputsAssumption DEF KeysHold, NamesInOrder, PartsInOrder
<1>. QED
  BY <1>6, <1>7, <1>8, <1>9 DEF KeysHold

\* A boot that keeps the categories it has filed.
LEMMA SessionKeys ==
    ASSUME RowsHold, KeysHold, NEW b \in Boots, NEW session \in BootSession,
           boots' = [boots EXCEPT ![b] = session], UNCHANGED categories,
           session.pc # "off", boots[b].pc # "off", session.names = boots[b].names,
           session.filed = boots[b].filed, PartsInOrder(session)
    PROVE  KeysHold'
<1>1. \A other \in Boots : boots'[other] = IF other = b THEN session ELSE boots[other]
  BY DEF RowsHold, TypeOK
<1>2. ASSUME NEW other \in Boots, NEW n \in Names PROVE FiledIsHeld(other, n)'
  BY <1>1 DEF KeysHold, FiledIsHeld, CategorySlugTaken
<1>3. ASSUME NEW other \in Boots PROVE NamesInOrder(boots[other])' /\ PartsInOrder(boots[other])'
  BY <1>1 DEF KeysHold, NamesInOrder, PartsInOrder
<1>. QED
  BY <1>2, <1>3 DEF KeysHold, CategorySlugsFit, CategorySlugsDiffer

LEMMA NextPartKeys ==
    ASSUME RowsHold, KeysHold, NEW b \in Boots,
           \/ NextPart(b, "categories", "removals", RemovedSlugs)
           \/ NextPart(b, "removals", "courses", SeedSlugs)
           \/ NextPart(b, "courses", "commit", {})
    PROVE  KeysHold'
<1>1. ASSUME NEW done, NEW pc, NEW slugs \in SUBSET (SeedSlugs \cup RemovedSlugs),
             NextPart(b, done, pc, slugs),
             \/ done = "categories" /\ pc = "removals"
             \/ done = "removals" /\ pc = "courses"
             \/ done = "courses" /\ pc = "commit" /\ slugs = {}
      PROVE  KeysHold'
  <2>. DEFINE session == [boots[b] EXCEPT !.pc = pc, !.slugs = slugs]
  <2>1. boots[b] \in BootSession
    BY DEF RowsHold, TypeOK
  <2>2. /\ session \in BootSession /\ session.pc = pc /\ session.slugs = slugs
        /\ session.names = boots[b].names /\ session.filed = boots[b].filed
    BY <1>1, <2>1 DEF BootSession, BootPc
  <2>3. /\ boots' = [boots EXCEPT ![b] = session] /\ UNCHANGED categories
        /\ boots[b].pc = done /\ boots[b].names = {}
    BY <1>1 DEF NextPart, Proceed, Booting
  <2>. HIDE DEF session
  <2>4. PartsInOrder(session)
    BY <1>1, <2>2, <2>3 DEF PartsInOrder
  <2>. QED
    BY <1>1, <2>2, <2>3, <2>4, SessionKeys
<1>. QED
  BY <1>1

LEMMA PlanKeys ==
    ASSUME RowsHold, KeysHold, NEW b \in Boots, NEW x, PlanRemoval(b, x) \/ PlanCourse(b, x),
           boots'[b] \in BootSession
    PROVE  KeysHold'
<1>. DEFINE old == boots[b]
<1>1. old \in BootSession
  BY DEF RowsHold, TypeOK
<1>2. PICK session : /\ boots' = [boots EXCEPT ![b] = session] /\ UNCHANGED categories
                     /\ session.pc = old.pc /\ session.pc \in {"removals", "courses"}
                     /\ session.names = old.names /\ session.filed = old.filed
  <2>2. CASE PlanRemoval(b, x)
    <3>1. PICK slugs, archive, remove :
              Proceed(b, [old EXCEPT !.slugs = slugs, !.remove = remove, !.archive = archive])
      BY <2>2 DEF PlanRemoval
    <3>. DEFINE new == [old EXCEPT !.slugs = slugs, !.remove = remove, !.archive = archive]
    <3>2. new.pc = old.pc /\ new.names = old.names /\ new.filed = old.filed
      BY <1>1 DEF BootSession
    <3>3. old.pc = "removals"
      BY <2>2 DEF PlanRemoval, Booting
    <3>. HIDE DEF new, old
    <3>. QED
      BY <3>1, <3>2, <3>3 DEF Proceed, new
  <2>3. CASE PlanCourse(b, x)
    <3>1. PICK slugs, create, fill :
              Proceed(b, [old EXCEPT !.slugs = slugs, !.create = create, !.fill = fill])
      BY <2>3 DEF PlanCourse
    <3>. DEFINE new == [old EXCEPT !.slugs = slugs, !.create = create, !.fill = fill]
    <3>2. new.pc = old.pc /\ new.names = old.names /\ new.filed = old.filed
      BY <1>1 DEF BootSession
    <3>3. old.pc = "courses"
      BY <2>3 DEF PlanCourse, Booting
    <3>. HIDE DEF new, old
    <3>. QED
      BY <3>1, <3>2, <3>3 DEF Proceed, new
  <2>. QED
    BY <2>2, <2>3
<1>3. session \in BootSession
  BY <1>2 DEF RowsHold, TypeOK
<1>4. PartsInOrder(session)
  BY <1>2 DEF KeysHold, PartsInOrder
<1>. QED
  BY <1>2, <1>3, <1>4, SessionKeys

LEMMA BootKeys == ASSUME RowsHold, KeysHold, NEW b \in Boots, Boot(b) PROVE KeysHold'
<1>. DEFINE session == [Off EXCEPT !.pc = "categories", !.names = SeedNames, !.slugs = RemovedSlugs]
<1>1. /\ session.pc = "categories" /\ session.names = SeedNames /\ session.filed = Nothing
      /\ session.archive = {} /\ session.remove = {} /\ session.fill = {} /\ session.create = {}
  BY OffTyped DEF BootSession
<1>. HIDE DEF session
<1>2. boots' = [boots EXCEPT ![b] = session] /\ UNCHANGED categories
  BY DEF Boot, session
<1>3. \A other \in Boots : boots'[other] = IF other = b THEN session ELSE boots[other]
  BY <1>2 DEF RowsHold, TypeOK
<1>4. ASSUME NEW other \in Boots, NEW n \in Names PROVE FiledIsHeld(other, n)'
  BY <1>1, <1>2, <1>3 DEF KeysHold, FiledIsHeld, CategorySlugTaken, Nothing
<1>5. ASSUME NEW other \in Boots PROVE NamesInOrder(boots[other])' /\ PartsInOrder(boots[other])'
  BY <1>1, <1>2, <1>3 DEF KeysHold, NamesInOrder, PartsInOrder
<1>. QED
  BY <1>2, <1>4, <1>5 DEF KeysHold, CategorySlugsFit, CategorySlugsDiffer

LEMMA FailBootKeys == ASSUME RowsHold, KeysHold, NEW b \in Boots, FailBoot(b) PROVE KeysHold'
<1>1. boots' = [boots EXCEPT ![b] = Off] /\ UNCHANGED categories
  BY DEF FailBoot
<1>2. \A other \in Boots : boots'[other] = IF other = b THEN Off ELSE boots[other]
  BY <1>1 DEF RowsHold, TypeOK
<1>3. ASSUME NEW other \in Boots, NEW n \in Names PROVE FiledIsHeld(other, n)'
  BY <1>1, <1>2, OffTyped DEF KeysHold, FiledIsHeld, CategorySlugTaken, Nothing
<1>4. ASSUME NEW other \in Boots PROVE NamesInOrder(boots[other])' /\ PartsInOrder(boots[other])'
  BY <1>1, <1>2, OffTyped DEF KeysHold, NamesInOrder, PartsInOrder
<1>. QED
  BY <1>1, <1>3, <1>4 DEF KeysHold, CategorySlugsFit, CategorySlugsDiffer

LEMMA FoundCategoryKeys ==
    ASSUME RowsHold, KeysHold, NEW b \in Boots, NEW n \in SeedNames, InTurn(b, n), Found(n),
           Proceed(b, [boots[b] EXCEPT !.names = @ \ {n}])
    PROVE  KeysHold'
<1>. DEFINE session == [boots[b] EXCEPT !.names = @ \ {n}]
<1>1. boots[b] \in BootSession /\ boots[b].pc = "categories"
  BY DEF RowsHold, TypeOK, InTurn, Booting
<1>2. /\ session.pc = "categories" /\ session.names = boots[b].names \ {n}
      /\ session.filed = boots[b].filed /\ session.archive = boots[b].archive
      /\ session.remove = boots[b].remove /\ session.fill = boots[b].fill
      /\ session.create = boots[b].create
  BY <1>1 DEF BootSession
<1>. HIDE DEF session
<1>3. boots' = [boots EXCEPT ![b] = session] /\ UNCHANGED categories
  BY DEF Proceed, session
<1>4. \A other \in Boots : boots'[other] = IF other = b THEN session ELSE boots[other]
  BY <1>3 DEF RowsHold, TypeOK
<1>5. ASSUME NEW other \in Boots, NEW m \in Names PROVE FiledIsHeld(other, m)'
  BY <1>1, <1>2, <1>3, <1>4 DEF KeysHold, FiledIsHeld, CategorySlugTaken
<1>6. ASSUME NEW other \in Boots PROVE NamesInOrder(boots[other])' /\ PartsInOrder(boots[other])'
  <2>1. CASE other # b
    BY <1>3, <1>4, <2>1 DEF KeysHold, NamesInOrder, PartsInOrder
  <2>2. \A m \in boots[b].names \ {n} : Position[n] < Position[m]
    <3>1. boots[b].names \subseteq SeedNames
      BY <1>1 DEF BootSession
    <3>. QED
      BY <3>1, InputsAssumption DEF InTurn
  <2>3. CASE other = b
    BY <1>1, <1>2, <1>3, <1>4, <2>2, <2>3 DEF KeysHold, NamesInOrder, PartsInOrder, Found
  <2>. QED
    BY <2>1, <2>3
<1>. QED
  BY <1>3, <1>5, <1>6 DEF KeysHold, CategorySlugsFit, CategorySlugsDiffer

LEMMA FileCategoryKeys ==
    ASSUME RowsHold, KeysHold, NEW b \in Boots, NEW n \in SeedNames, InTurn(b, n), ~Found(n),
           NEW x \in CategorySlug, x \in OwnSlugs(n),
           ~FlushConflict(b, n, x), ~HeldByBoot(n, x, {b}),
           Proceed(b, [boots[b] EXCEPT !.names = @ \ {n}, !.filed[n] = x])
    PROVE  KeysHold'
<1>. DEFINE filed   == [boots[b].filed EXCEPT ![n] = x]
            session == [boots[b] EXCEPT !.names = @ \ {n}, !.filed = filed]
<1>1. boots[b] \in BootSession /\ boots[b].pc = "categories"
  BY DEF RowsHold, TypeOK, InTurn, Booting
<1>2. \A m \in Names : filed[m] = IF m = n THEN x ELSE boots[b].filed[m]
  BY <1>1 DEF BootSession
<1>3. boots' = [boots EXCEPT ![b] = session] /\ UNCHANGED categories
  BY DEF Proceed
<1>. HIDE DEF filed
<1>4. /\ session.pc = "categories" /\ session.names = boots[b].names \ {n}
      /\ session.filed = filed /\ session.archive = boots[b].archive
      /\ session.remove = boots[b].remove /\ session.fill = boots[b].fill
      /\ session.create = boots[b].create
  BY <1>1 DEF BootSession
<1>. HIDE DEF session
<1>5. \A other \in Boots : boots'[other] = IF other = b THEN session ELSE boots[other]
  BY <1>3 DEF RowsHold, TypeOK
<1>6. /\ categories[n] = None /\ ~CategorySlugTaken(x) /\ x # None /\ n \in Names
      /\ \A other \in Boots \ {b} : boots[other].filed[n] = None
  <2>1. x # None /\ ~x.random
    BY OwnSlugsAreOwn
  <2>. QED
    BY <2>1, InputsAssumption DEF Found, FlushConflict, CategoryConflict, HeldByBoot
<1>7. ASSUME NEW other \in Boots, NEW m \in Names PROVE FiledIsHeld(other, m)'
  <2>1. FiledIsHeld(other, m)
    BY DEF KeysHold
  <2>2. CASE m = n
    BY <1>1, <1>2, <1>3, <1>4, <1>5, <1>6, <2>2 DEF FiledIsHeld, CategorySlugTaken
  <2>3. CASE m # n
    <3>1. \A o \in Boots : boots'[o].filed[m] = boots[o].filed[m]
      BY <1>2, <1>4, <1>5, <2>3
    <3>2. boots'[other].pc = boots[other].pc /\ boots'[other].names \subseteq boots[other].names
      BY <1>1, <1>4, <1>5
    <3>. QED
      BY <1>3, <2>1, <3>1, <3>2 DEF FiledIsHeld, CategorySlugTaken
  <2>. QED
    BY <2>2, <2>3
<1>8. ASSUME NEW other \in Boots PROVE NamesInOrder(boots[other])' /\ PartsInOrder(boots[other])'
  <2>1. CASE other # b
    BY <1>3, <1>5, <2>1 DEF KeysHold, NamesInOrder, PartsInOrder
  <2>2. \A m \in boots[b].names \ {n} : Position[n] < Position[m]
    <3>1. boots[b].names \subseteq SeedNames
      BY <1>1 DEF BootSession
    <3>. QED
      BY <3>1, InputsAssumption DEF InTurn
  <2>3. \A m \in SeedNames \ boots[b].names : filed[m] # None \/ categories[m] # None
    BY <1>1, <1>2, <1>6, InputsAssumption DEF KeysHold, NamesInOrder
  <2>4. CASE other = b
    <3>. boots'[other] = session
      BY <1>5, <2>4
    <3>1. NamesInOrder(boots[other])'
      <4>1. NamesInOrder(boots[b])
        BY DEF KeysHold
      <4>2. \A m \in SeedNames \ session.names, k \in session.names : Position[m] < Position[k]
        BY <1>1, <1>4, <2>2, <4>1 DEF NamesInOrder
      <4>3. \A m \in SeedNames \ session.names : categories'[m] # None \/ session.filed[m] # None
        BY <1>2, <1>3, <1>4, <1>6, <2>3
      <4>. QED
        BY <4>2, <4>3 DEF NamesInOrder
    <3>2. PartsInOrder(boots[other])'
      BY <1>1, <1>4 DEF KeysHold, PartsInOrder
    <3>. QED
      BY <3>1, <3>2
  <2>. QED
    BY <2>1, <2>4
<1>. QED
  BY <1>3, <1>7, <1>8 DEF KeysHold, CategorySlugsFit, CategorySlugsDiffer

LEMMA SyncCategoryKeys ==
    ASSUME RowsHold, KeysHold, NEW b \in Boots, NEW n \in SeedNames, SyncCategory(b, n)
    PROVE  KeysHold'
  BY FoundCategoryKeys, FileCategoryKeys, BootSlugTyped DEF SyncCategory

LEMMA CommitBootKeys ==
    ASSUME RowsHold, KeysHold, NEW b \in Boots, CommitBoot(b) PROVE KeysHold'
<1>. DEFINE filed == boots[b].filed
<1>1. /\ categories' = [n \in Names |-> IF filed[n] # None THEN filed[n] ELSE categories[n]]
      /\ boots' = [boots EXCEPT ![b] = Off]
  BY DEF CommitBoot
<1>2. \A other \in Boots : boots'[other] = IF other = b THEN Off ELSE boots[other]
  BY <1>1 DEF RowsHold, TypeOK
<1>3. \A n \in Names : categories'[n] = IF filed[n] # None THEN filed[n] ELSE categories[n]
  BY <1>1
<1>4. \A other \in Boots, n \in Names : FiledIsHeld(other, n)
  BY DEF KeysHold
<1>5. \A n \in Names : filed[n] # None =>
          /\ filed[n] \in OwnSlugs(n) /\ n \in SeedNames /\ categories[n] = None
          /\ \A m \in Names : categories[m] # filed[n]
          /\ \A other \in Boots \ {b} : boots[other].filed[n] = None
  BY <1>4 DEF FiledIsHeld, CategorySlugTaken
\* Names that are filed under one slug are one name.
<1>6. \A m, n \in Names, other \in Boots :
          filed[m] # None /\ boots[other].filed[n] = filed[m] => m = n
  <2>. SUFFICES ASSUME NEW m \in Names, NEW n \in Names, NEW other \in Boots,
                       filed[m] # None, boots[other].filed[n] = filed[m]
                PROVE  m = n
    OBVIOUS
  <2>1. /\ m \in SeedNames /\ filed[m] \in OwnSlugs(m)
        /\ n \in SeedNames /\ filed[m] \in OwnSlugs(n)
    BY <1>4 DEF FiledIsHeld
  <2>. QED
    BY <2>1, OwnSlugsAreOwn
<1>7. CategorySlugsFit'
  <2>1. ASSUME NEW n \in Names, categories'[n] # None
        PROVE  \/ categories'[n].random \/ categories'[n] = Plain(n)
               \/ n \in SeedNames /\ categories'[n] = WithLetters(n)
    BY <1>3, <1>5, <2>1 DEF KeysHold, CategorySlugsFit, OwnSlugs
  <2>. QED
    BY <2>1 DEF CategorySlugsFit, Plain, WithLetters
<1>8. CategorySlugsDiffer'
  BY <1>3, <1>5, <1>6 DEF KeysHold, CategorySlugsDiffer
<1>9. ASSUME NEW other \in Boots, NEW n \in Names PROVE FiledIsHeld(other, n)'
  <2>1. CASE other = b
    BY <1>2, <2>1, OffTyped DEF FiledIsHeld, Nothing
  <2>2. CASE other # b /\ boots[other].filed[n] # None
    <3>1. filed[n] = None
      BY <1>5, <2>2
    <3>2. ~CategorySlugTaken(boots[other].filed[n])'
      <4>1. \A m \in Names : categories'[m] # boots[other].filed[n]
        BY <1>3, <1>4, <1>6, <2>2, <3>1 DEF FiledIsHeld, CategorySlugTaken
      <4>. QED
        BY <1>2, <2>2, <4>1 DEF CategorySlugTaken
    <3>3. \A o \in Boots : boots'[o].filed[n] # None => o = other
      BY <1>2, <1>4, <2>2, OffTyped DEF FiledIsHeld, Nothing
    <3>. QED
      BY <1>2, <1>3, <1>4, <2>2, <3>1, <3>2, <3>3 DEF FiledIsHeld
  <2>3. CASE other # b /\ boots[other].filed[n] = None
    BY <1>2, <2>3 DEF FiledIsHeld
  <2>. QED
    BY <2>1, <2>2, <2>3
<1>10. ASSUME NEW other \in Boots PROVE NamesInOrder(boots[other])' /\ PartsInOrder(boots[other])'
  <2>1. CASE other = b
    BY <1>2, <2>1, OffTyped DEF NamesInOrder, PartsInOrder
  <2>2. CASE other # b
    BY <1>2, <1>3, <2>2, InputsAssumption DEF KeysHold, NamesInOrder, PartsInOrder
  <2>. QED
    BY <2>1, <2>2
<1>. QED
  BY <1>7, <1>8, <1>9, <1>10 DEF KeysHold

LEMMA AdminKeys == ASSUME RowsHold, KeysHold, NEW s \in Admins, AdminStep(s) PROVE KeysHold'
<1>1. InsertCategory(s) \/ UNCHANGED <<categories, boots>>
  BY DEF AdminStep, ChooseSlug, InsertCourse, CountPurchases, ReadForUpdate, ChooseNewSlug,
         UpdateCourse, DeleteCourse, LookUpName, LookUpCategorySlug, Abort, Continue
<1>. QED
  BY <1>1, InsertCategoryKeys, OtherStepKeys

LEMMA BootStepKeys == ASSUME RowsHold, KeysHold, NEW b \in Boots, BootStep(b) PROVE KeysHold'
<1>1. boots'[b] \in BootSession
  BY BootStepRows DEF RowsHold, TypeOK
<1>. QED
  BY <1>1, BootKeys, CommitBootKeys, FailBootKeys, SyncCategoryKeys, NextPartKeys, PlanKeys
     DEF BootStep

LEMMA StepKeys == RowsHold /\ KeysHold /\ [Next]_vars => KeysHold'
  BY AdminKeys, BootStepKeys, OtherStepKeys DEF Next, Purchase, vars

\* Two courses never share a slug, nor do two categories: the lookups of
\* requests and boots are backed by the unique keys.
THEOREM SlugsStayUnique == Spec => []SlugsUnique
<1>1. ASSUME RowsHold, KeysHold PROVE SlugsUnique
  <2>1. ASSUME NEW x \in Slugs PROVE Cardinality(WithSlug(x)) <= 1
    <3>1. CASE WithSlug(x) = {}
      BY <3>1, FS_EmptySet
    <3>2. CASE WithSlug(x) # {}
      <4>1. PICK c \in CourseIds : c \in WithSlug(x)
        BY <3>2 DEF WithSlug
      <4>2. WithSlug(x) = {c}
        BY <1>1, <4>1 DEF RowsHold, CourseSlugsDiffer, WithSlug
      <4>3. Cardinality({c}) = 1
        BY FS_Singleton
      <4>. QED
        BY <4>2, <4>3
    <3>. QED
      BY <3>1, <3>2
  <2>. QED
    BY <1>1, <2>1 DEF KeysHold, CategorySlugsDiffer, SlugsUnique
<1>2. Init => RowsHold /\ KeysHold
  BY InitRows, InitKeys
<1>3. RowsHold /\ KeysHold /\ [Next]_vars => RowsHold' /\ KeysHold'
  BY StepRows, StepKeys
<1>. QED
  BY <1>1, <1>2, <1>3, PTL DEF Spec

LEMMA RowsAndKeys == Spec => [](RowsHold /\ KeysHold)
  BY InitRows, InitKeys, StepRows, StepKeys, PTL DEF Spec

\* Two boots never wait for the categories that the other has flushed, since
\* both go through the names in the order of the file.
THEOREM BootsFollowOneOrder == Spec => []BootsNeverDeadlock
<1>1. ASSUME RowsHold, KeysHold PROVE BootsNeverDeadlock
  <2>1. ASSUME NEW b \in Boots, NEW other \in Boots, NEW n \in SeedNames, InTurn(b, n),
               HeldByBoot(n, BootSlug(b, n), Boots \ {other})
        PROVE  boots[other].filed[n] # None
    <3>1. BootSlug(b, n) \in OwnSlugs(n) /\ BootSlug(b, n) # None
      BY BootSlugTyped, OwnSlugsAreOwn
    <3>2. ASSUME NEW m \in Names, boots[other].filed[m] = BootSlug(b, n) PROVE m = n
      <4>1. m \in SeedNames /\ BootSlug(b, n) \in OwnSlugs(m)
        BY <1>1, <3>1, <3>2 DEF KeysHold, FiledIsHeld
      <4>. QED
        BY <3>1, <4>1, OwnSlugsAreOwn
    <3>. QED
      BY <2>1, <3>1, <3>2 DEF HeldByBoot
  <2>2. ASSUME NEW b \in Boots, NEW m \in SeedNames, NEW n \in SeedNames,
               InTurn(b, n), boots[b].filed[m] # None
        PROVE  Position[m] < Position[n]
    <3>1. m \in SeedNames \ boots[b].names
      BY <1>1, <2>2, InputsAssumption DEF KeysHold, FiledIsHeld
    <3>. QED
      BY <1>1, <2>2, <3>1 DEF KeysHold, NamesInOrder, InTurn, Booting
  <2>3. ASSUME NEW b \in Boots, NEW other \in Boots, Waits(b, other), Waits(other, b)
        PROVE  FALSE
    <3>1. PICK n \in SeedNames : InTurn(b, n) /\ HeldByBoot(n, BootSlug(b, n), Boots \ {other})
      BY <2>3 DEF Waits
    <3>2. PICK m \in SeedNames : InTurn(other, m) /\ HeldByBoot(m, BootSlug(other, m), Boots \ {b})
      BY <2>3 DEF Waits
    <3>3. boots[other].filed[n] # None /\ boots[b].filed[m] # None
      BY <2>1, <3>1, <3>2
    <3>4. Position[n] < Position[m] /\ Position[m] < Position[n]
      BY <2>2, <3>1, <3>2, <3>3
    <3>. QED
      BY <3>4, InputsAssumption
  <2>. QED
    BY <2>3 DEF BootsNeverDeadlock
<1>. QED
  BY <1>1, RowsAndKeys, PTL
-----------------------------------------------------------------------------
(* What a boot knows that nothing has overlapped *)

LEMMA InitCatalog == Init => CatalogInv
<1>1. ASSUME Init, NEW b \in Boots PROVE BootKnows(boots[b])
  BY <1>1, OffTyped DEF Init, BootKnows, PlanIsRight, PlanIsWhole, LookedAtRemoved,
                        LookedAtSeeded, Holds
<1>. QED
  BY <1>1 DEF Init, CatalogInv

LEMMA OtherStepCatalog ==
    ASSUME CatalogInv, UNCHANGED <<categories, courses, referenced, boots, overlapped, synced>>
    PROVE  CatalogInv'
  BY DEF CatalogInv, BootKnows, PlanIsRight, PlanIsWhole, LookedAtRemoved, LookedAtSeeded,
         Holds, WithSlug, Complete

\* A session that has not planned anything yet.
LEMMA NothingPlanned ==
    ASSUME NEW session, session.pc \in {"off", "categories"}, PartsInOrder(session)
    PROVE  /\ LookedAtRemoved(session) = {} /\ LookedAtSeeded(session) = {}
           /\ session.create = {} /\ session.archive = {} /\ session.fill = {}
           /\ session.remove = {}
  BY DEF PartsInOrder, LookedAtRemoved, LookedAtSeeded

LEMMA NothingPlannedKnows ==
    ASSUME NEW session, session.pc \in {"off", "categories"}, PartsInOrder(session)
    PROVE  BootKnows(session)
  BY NothingPlanned DEF BootKnows, PlanIsRight, PlanIsWhole, Holds

\* After a commit, the boots that have begun are overlapped.
LEMMA CommittedCatalog ==
    ASSUME KeysHold, Committed, UNCHANGED boots PROVE CatalogInv'
<1>1. ASSUME NEW b \in Boots \ overlapped' PROVE BootKnows(boots[b])'
  <2>1. boots[b].pc = "off" /\ PartsInOrder(boots[b])
    BY <1>1 DEF Committed, Busy, KeysHold
  <2>. QED
    BY <2>1, NothingPlanned DEF BootKnows, PlanIsRight, PlanIsWhole, Holds, LookedAtRemoved,
                                LookedAtSeeded
<1>. QED
  BY <1>1 DEF Committed, CatalogInv

\* A step of a boot that changes only its session.
LEMMA SessionCatalog ==
    ASSUME RowsHold, CatalogInv, NEW b \in Boots, NEW session,
           boots' = [boots EXCEPT ![b] = session],
           UNCHANGED <<categories, courses, referenced, synced>>,
           overlapped \subseteq overlapped' \cup {b},
           b \notin overlapped => BootKnows(session),
           b \in overlapped \ overlapped' => BootKnows(session)
    PROVE  CatalogInv'
<1>1. \A other \in Boots : boots'[other] = IF other = b THEN session ELSE boots[other]
  BY DEF RowsHold, TypeOK
<1>2. ASSUME NEW other \in Boots \ overlapped' PROVE BootKnows(boots[other])'
  <2>. DEFINE new == boots'[other]
  <2>1. BootKnows(new)
    BY <1>1, <1>2 DEF CatalogInv
  <2>. QED
    BY <2>1 DEF BootKnows, PlanIsRight, PlanIsWhole, LookedAtRemoved, LookedAtSeeded, Holds,
                WithSlug
<1>. QED
  BY <1>2 DEF CatalogInv, Complete, PlanIsWhole, Holds, WithSlug

LEMMA BootCatalog ==
    ASSUME RowsHold, CatalogInv, NEW b \in Boots, Boot(b) PROVE CatalogInv'
<1>. DEFINE session == [Off EXCEPT !.pc = "categories", !.names = SeedNames, !.slugs = RemovedSlugs]
<1>1. /\ session.pc = "categories" /\ PartsInOrder(session)
  BY OffTyped DEF BootSession, PartsInOrder
<1>2. boots' = [boots EXCEPT ![b] = session]
  BY DEF Boot
<1>. HIDE DEF session
<1>3. BootKnows(session)
  BY <1>1, NothingPlannedKnows
<1>. QED
  BY <1>2, <1>3, SessionCatalog DEF Boot, history

LEMMA FailBootCatalog ==
    ASSUME RowsHold, CatalogInv, NEW b \in Boots, FailBoot(b) PROVE CatalogInv'
<1>1. BootKnows(Off)
  BY OffTyped, NothingPlannedKnows DEF PartsInOrder
<1>. QED
  BY <1>1, SessionCatalog DEF FailBoot, history

LEMMA SyncCategoryCatalog ==
    ASSUME RowsHold, KeysHold, CatalogInv, NEW b \in Boots, NEW n \in SeedNames,
           SyncCategory(b, n)
    PROVE  CatalogInv'
<1>1. boots[b] \in BootSession /\ boots[b].pc = "categories" /\ PartsInOrder(boots[b])
  BY DEF RowsHold, TypeOK, SyncCategory, InTurn, Booting, KeysHold
<1>2. ASSUME NEW names, NEW filed, Proceed(b, [boots[b] EXCEPT !.names = names, !.filed = filed])
      PROVE  CatalogInv'
  <2>. DEFINE session == [boots[b] EXCEPT !.names = names, !.filed = filed]
  <2>1. session.pc = "categories" /\ PartsInOrder(session)
    BY <1>1 DEF BootSession, PartsInOrder
  <2>. HIDE DEF session
  <2>2. BootKnows(session)
    BY <2>1, NothingPlannedKnows
  <2>3. boots' = [boots EXCEPT ![b] = session]
        /\ UNCHANGED <<categories, courses, referenced, synced, overlapped>>
    BY <1>2 DEF Proceed, history, session
  <2>. QED
    BY <2>2, <2>3, SessionCatalog
<1>3. \/ Proceed(b, [boots[b] EXCEPT !.names = @ \ {n}])
      \/ Proceed(b, [boots[b] EXCEPT !.names = @ \ {n}, !.filed[n] = BootSlug(b, n)])
  BY DEF SyncCategory
<1>4. [boots[b] EXCEPT !.names = @ \ {n}]
      = [boots[b] EXCEPT !.names = @ \ {n}, !.filed = boots[b].filed]
  BY <1>1 DEF BootSession
<1>. QED
  BY <1>2, <1>3, <1>4

LEMMA NextPartCatalog ==
    ASSUME RowsHold, KeysHold, CatalogInv, NEW b \in Boots,
           \/ NextPart(b, "categories", "removals", RemovedSlugs)
           \/ NextPart(b, "removals", "courses", SeedSlugs)
           \/ NextPart(b, "courses", "commit", {})
    PROVE  CatalogInv'
<1>1. ASSUME NEW done, NEW pc, NEW slugs, NextPart(b, done, pc, slugs),
             \/ done = "categories" /\ pc = "removals" /\ slugs = RemovedSlugs
             \/ done = "removals" /\ pc = "courses" /\ slugs = SeedSlugs
             \/ done = "courses" /\ pc = "commit" /\ slugs = {}
      PROVE  CatalogInv'
  <2>. DEFINE session == [boots[b] EXCEPT !.pc = pc, !.slugs = slugs]
  <2>1. boots[b] \in BootSession
    BY DEF RowsHold, TypeOK
  <2>2. /\ session.pc = pc /\ session.slugs = slugs
        /\ session.create = boots[b].create /\ session.archive = boots[b].archive
        /\ session.fill = boots[b].fill /\ session.remove = boots[b].remove
    BY <2>1 DEF BootSession
  <2>3. /\ boots' = [boots EXCEPT ![b] = session]
        /\ UNCHANGED <<categories, courses, referenced, synced, overlapped>>
        /\ boots[b].pc = done /\ (done # "categories" => boots[b].slugs = {})
    BY <1>1 DEF NextPart, Proceed, Booting, history
  <2>. HIDE DEF session
  \* The part that ends has looked at all, the next one at nothing.
  <2>4. /\ LookedAtRemoved(session) = LookedAtRemoved(boots[b])
        /\ LookedAtSeeded(session) = LookedAtSeeded(boots[b])
    BY <1>1, <2>2, <2>3 DEF LookedAtRemoved, LookedAtSeeded
  <2>5. BootKnows(boots[b]) => BootKnows(session)
    BY <2>2, <2>4 DEF BootKnows, PlanIsRight, PlanIsWhole
  <2>. QED
    BY <2>3, <2>5, SessionCatalog DEF CatalogInv
<1>. QED
  BY <1>1

LEMMA PlanRemovalCatalog ==
    ASSUME RowsHold, CatalogInv, NEW b \in Boots, NEW x \in RemovedSlugs, PlanRemoval(b, x)
    PROVE  CatalogInv'
<1>. DEFINE old == boots[b]
            found == WithSlug(x)
            kept == {c \in found : HasReferences(c)}
            archived == {c \in kept : courses[c].status # "ARCHIVED"}
            session == [old EXCEPT !.slugs = @ \ {x}, !.remove = @ \cup (found \ kept),
                                   !.archive = @ \cup archived]
<1>1. old \in BootSession /\ old.pc = "removals"
  BY DEF RowsHold, TypeOK, PlanRemoval, Booting
<1>2. /\ session.pc = "removals" /\ session.slugs = old.slugs \ {x}
      /\ session.remove = old.remove \cup (found \ kept)
      /\ session.archive = old.archive \cup archived
      /\ session.create = old.create /\ session.fill = old.fill
  BY <1>1 DEF BootSession
<1>3. /\ boots' = [boots EXCEPT ![b] = session]
      /\ UNCHANGED <<categories, courses, referenced, synced, overlapped>>
  BY DEF PlanRemoval, Proceed, history
<1>. HIDE DEF session, old
<1>4. /\ LookedAtRemoved(session) \subseteq LookedAtRemoved(old) \cup {x}
      /\ LookedAtSeeded(session) = {} /\ LookedAtSeeded(old) = {}
  BY <1>1, <1>2 DEF LookedAtRemoved, LookedAtSeeded
<1>5. ASSUME BootKnows(old) PROVE BootKnows(session)
  <2>1. PlanIsRight(session)
    BY <1>2, <1>5 DEF BootKnows, PlanIsRight, Holds, WithSlug, HasReferences
  <2>2. ASSUME NEW c \in CourseIds, Holds(c, LookedAtRemoved(session))
        PROVE  \/ c \in session.remove
               \/ c \in referenced /\ (c \in session.archive \/ courses[c].status = "ARCHIVED")
    <3>1. CASE courses[c].slug = x
      BY <1>2, <2>2, <3>1 DEF Holds, WithSlug, HasReferences
    <3>2. CASE courses[c].slug \in LookedAtRemoved(old)
      BY <1>2, <1>5, <2>2, <3>2 DEF Holds, BootKnows, PlanIsWhole
    <3>. QED
      BY <1>4, <2>2, <3>1, <3>2 DEF Holds
  <2>. QED
    BY <1>4, <2>1, <2>2 DEF BootKnows, PlanIsWhole, Holds
<1>. QED
  BY <1>3, <1>5, SessionCatalog DEF CatalogInv, old

LEMMA PlanCourseCatalog ==
    ASSUME RowsHold, CatalogInv, NEW b \in Boots, NEW x \in SeedSlugs, PlanCourse(b, x)
    PROVE  CatalogInv'
<1>. DEFINE old == boots[b]
            found == WithSlug(x)
            create == IF found = {} THEN old.create \cup {x} ELSE old.create
            filled == {c \in found : courses[c].image = None}
            session == [old EXCEPT !.slugs = @ \ {x}, !.create = create, !.fill = @ \cup filled]
<1>1. old \in BootSession /\ old.pc = "courses"
  BY DEF RowsHold, TypeOK, PlanCourse, Booting
<1>2. /\ session.pc = "courses" /\ session.slugs = old.slugs \ {x}
      /\ session.create = create /\ session.fill = old.fill \cup filled
      /\ session.archive = old.archive /\ session.remove = old.remove
  BY <1>1 DEF BootSession
<1>3. /\ boots' = [boots EXCEPT ![b] = session]
      /\ UNCHANGED <<categories, courses, referenced, synced, overlapped>>
  BY DEF PlanCourse, Proceed, Existing, history
<1>. HIDE DEF session, old
<1>4. /\ LookedAtSeeded(session) \subseteq LookedAtSeeded(old) \cup {x}
      /\ LookedAtRemoved(session) = LookedAtRemoved(old)
  BY <1>1, <1>2 DEF LookedAtRemoved, LookedAtSeeded
<1>5. ASSUME BootKnows(old) PROVE BootKnows(session)
  <2>1. PlanIsRight(session)
    BY <1>2, <1>5 DEF BootKnows, PlanIsRight, Holds, WithSlug
  <2>2. ASSUME NEW y \in LookedAtSeeded(session)
        PROVE  WithSlug(y) # {} \/ y \in session.create
    BY <1>2, <1>4, <1>5, <2>2 DEF BootKnows, PlanIsWhole
  <2>3. ASSUME NEW c \in CourseIds, Holds(c, LookedAtSeeded(session))
        PROVE  courses[c].image # None \/ c \in session.fill
    BY <1>2, <1>4, <1>5, <2>3 DEF BootKnows, PlanIsWhole, Holds, WithSlug
  <2>. QED
    BY <1>2, <1>4, <1>5, <2>1, <2>2, <2>3 DEF BootKnows, PlanIsWhole
<1>. QED
  BY <1>3, <1>5, SessionCatalog DEF CatalogInv, old

\* A boot at its commit that nothing has overlapped.
LEMMA ReadyToCommit ==
    ASSUME RowsHold, KeysHold, CatalogInv, NEW b \in Boots \ overlapped, boots[b].pc = "commit"
    PROVE  /\ PlanIsRight(boots[b]) /\ PlanIsWhole(boots[b], RemovedSlugs, SeedSlugs)
           /\ \A n \in SeedNames : categories[n] # None \/ boots[b].filed[n] # None
<1>1. LookedAtRemoved(boots[b]) = RemovedSlugs /\ LookedAtSeeded(boots[b]) = SeedSlugs
  BY DEF LookedAtRemoved, LookedAtSeeded
<1>. QED
  BY <1>1 DEF CatalogInv, BootKnows, KeysHold, NamesInOrder, PartsInOrder

LEMMA CommitCompletes ==
    ASSUME RowsHold, KeysHold, CatalogInv, NEW b \in Boots \ overlapped, CommitBoot(b)
    PROVE  Complete'
<1>. DEFINE session == boots[b]
            create == session.create
<1>1. PICK ids \in NewIds(create) : courses' = Reseeded(session, ids)
  BY DEF CommitBoot
<1>2. /\ session.pc = "commit" /\ UNCHANGED referenced
      /\ categories' = [n \in Names |-> IF session.filed[n] # None THEN session.filed[n]
                                                                    ELSE categories[n]]
  BY DEF CommitBoot, Booting
<1>3. create \subseteq SeedSlugs
  BY DEF RowsHold, TypeOK, BootSession
<1>4. /\ \A x \in create : ids[x] \in CourseIds /\ courses[ids[x]] = None
      /\ \A x, y \in create : ids[x] = ids[y] => x = y
  BY <1>1, NewIdsDiffer
<1>5. /\ PlanIsRight(session) /\ PlanIsWhole(session, RemovedSlugs, SeedSlugs)
      /\ \A n \in SeedNames : categories[n] # None \/ session.filed[n] # None
  BY <1>2, ReadyToCommit
<1>6. \A x \in create : /\ SeededRow(x) # None /\ SeededRow(x).slug = x
                        /\ SeededRow(x).status = "PUBLISHED" /\ SeededRow(x).image = "seed"
  BY <1>3, SeededRowTyped
<1>. HIDE DEF create, session
\* A row of a slug was there before, or is a new one of that slug.
<1>7. ASSUME NEW c \in CourseIds, courses'[c] # None
      PROVE  \/ \E x \in create : ids[x] = c /\ courses'[c] = SeededRow(x)
             \/ /\ c \notin session.remove /\ courses[c] # None /\ courses'[c].slug = courses[c].slug
                /\ courses'[c].status = IF c \in session.archive THEN "ARCHIVED"
                                                                 ELSE courses[c].status
                /\ courses'[c].image = IF c \in session.fill THEN "seed" ELSE courses[c].image
  BY <1>1, <1>7, CommitEffect, NoneAssumption DEF session, create
<1>8. \A n \in SeedNames : categories'[n] # None
  BY <1>2, <1>5, InputsAssumption
<1>9. ASSUME NEW c \in CourseIds, Holds(c, RemovedSlugs)'
      PROVE  c \in referenced' /\ courses'[c].status = "ARCHIVED"
  <2>1. ~(\E x \in create : courses'[c] = SeededRow(x))
    BY <1>3, <1>6, <1>9, SlugsAssumption DEF Holds
  <2>2. Holds(c, RemovedSlugs) /\ c \notin session.remove
    BY <1>7, <1>9, <2>1 DEF Holds
  <2>. QED
    BY <1>2, <1>5, <1>7, <1>9, <2>1, <2>2 DEF PlanIsWhole, Holds
<1>10. ASSUME NEW x \in SeedSlugs PROVE WithSlug(x)' # {}
  <2>1. CASE x \in create
    <3>1. ids[x] \in CourseIds /\ ids[x] \notin session.remove
      BY <1>4, <1>5, <2>1 DEF PlanIsRight, Holds
    <3>2. courses'[ids[x]] = SeededRow(x)
      BY <1>1, <1>4, <2>1, <3>1, CommitEffect, NoneAssumption DEF session, create
    <3>. QED
      BY <1>6, <2>1, <3>1, <3>2 DEF WithSlug
  <2>2. CASE x \notin create
    <3>1. PICK c \in CourseIds : courses[c] # None /\ courses[c].slug = x
      BY <1>5, <2>2 DEF PlanIsWhole, WithSlug, create
    <3>2. c \notin session.remove
      BY <1>5, <3>1, SlugsAssumption DEF PlanIsRight, Holds
    <3>3. courses'[c] # None /\ courses'[c].slug = x
      BY <1>1, <1>4, <3>1, <3>2, CommitEffect, NoneAssumption DEF session, create
    <3>. QED
      BY <3>1, <3>3 DEF WithSlug
  <2>. QED
    BY <2>1, <2>2
<1>11. ASSUME NEW c \in CourseIds, Holds(c, SeedSlugs)' PROVE courses'[c].image # None
  <2>1. "seed" # None
    BY NoneAssumption DEF Images
  <2>2. CASE \E x \in create : courses'[c] = SeededRow(x)
    BY <1>6, <2>1, <2>2
  <2>3. CASE ~(\E x \in create : courses'[c] = SeededRow(x))
    <3>1. Holds(c, SeedSlugs)
      BY <1>7, <1>11, <2>3 DEF Holds
    <3>. QED
      BY <1>5, <1>7, <1>11, <2>1, <2>3, <3>1 DEF PlanIsWhole, Holds
  <2>. QED
    BY <2>2, <2>3
<1>. QED
  BY <1>8, <1>9, <1>10, <1>11, OffTyped DEF Complete, PlanIsWhole

LEMMA CommitBootCatalog ==
    ASSUME RowsHold, KeysHold, CatalogInv, NEW b \in Boots, CommitBoot(b)
    PROVE  CatalogInv'
<1>1. /\ boots' = [boots EXCEPT ![b] = Off] /\ overlapped' = (overlapped \cup Busy) \ {b}
      /\ synced' = (b \notin overlapped)
  BY DEF CommitBoot
<1>2. ASSUME NEW other \in Boots \ overlapped' PROVE BootKnows(boots[other])'
  <2>. DEFINE new == boots'[other]
  <2>1. \A o \in Boots : boots'[o] = IF o = b THEN Off ELSE boots[o]
    BY <1>1 DEF RowsHold, TypeOK
  <2>2. new.pc = "off" /\ PartsInOrder(new)
    BY <1>1, <1>2, <2>1, OffTyped DEF Busy, KeysHold, PartsInOrder
  <2>. HIDE DEF new
  <2>3. /\ LookedAtRemoved(new) = {} /\ LookedAtSeeded(new) = {} /\ new.create = {}
        /\ new.archive = {} /\ new.fill = {} /\ new.remove = {}
    BY <2>2, NothingPlanned
  <2>. QED
    BY <2>3 DEF new, BootKnows, PlanIsRight, PlanIsWhole, LookedAtRemoved, LookedAtSeeded, Holds
<1>. QED
  BY <1>1, <1>2, CommitCompletes DEF CatalogInv

LEMMA AdminCatalog ==
    ASSUME KeysHold, CatalogInv, NEW s \in Admins, AdminStep(s) PROVE CatalogInv'
<1>1. \/ Committed /\ UNCHANGED boots
      \/ UNCHANGED <<categories, courses, referenced, boots, overlapped, synced>>
  BY DEF AdminStep, ChooseSlug, InsertCourse, CountPurchases, ReadForUpdate, ChooseNewSlug,
         UpdateCourse, DeleteCourse, LookUpName, LookUpCategorySlug, InsertCategory, Abort,
         Continue, history
<1>. QED
  BY <1>1, CommittedCatalog, OtherStepCatalog

LEMMA StepCatalog == IInv /\ [Next]_vars => CatalogInv'
<1>. SUFFICES ASSUME IInv, [Next]_vars PROVE CatalogInv'
  OBVIOUS
<1>. RowsHold /\ KeysHold /\ CatalogInv
  BY DEF IInv
<1>1. ASSUME NEW b \in Boots, BootStep(b) PROVE CatalogInv'
  BY <1>1, BootCatalog, CommitBootCatalog, FailBootCatalog, SyncCategoryCatalog,
     NextPartCatalog, PlanRemovalCatalog, PlanCourseCatalog DEF BootStep
<1>2. ASSUME NEW c \in CourseIds, Purchase(c) PROVE CatalogInv'
  BY <1>2, CommittedCatalog DEF Purchase
<1>3. CASE UNCHANGED vars
  BY <1>3, OtherStepCatalog DEF vars
<1>. QED
  BY <1>1, <1>2, <1>3, AdminCatalog DEF Next

LEMMA Invariant == Spec => []IInv
<1>1. Init => IInv
  BY InitRows, InitKeys, InitCatalog DEF IInv
<1>2. IInv /\ [Next]_vars => IInv'
  BY StepRows, StepKeys, StepCatalog DEF IInv
<1>. QED
  BY <1>1, <1>2, PTL DEF Spec

\* A boot that nothing overlaps leaves the whole catalogue behind, and it stays
\* until something else is committed.
THEOREM UnhinderedBootCompletes == Spec => []SyncedCatalogIsComplete
<1>1. ASSUME IInv PROVE SyncedCatalogIsComplete
  <2>1. ASSUME Complete, NEW x \in RemovedSlugs, NEW c \in WithSlug(x)
        PROVE  courses[c].status = "ARCHIVED" /\ c \in referenced
    BY <2>1, OffTyped DEF Complete, PlanIsWhole, Holds, WithSlug
  <2>2. ASSUME Complete, NEW x \in SeedSlugs PROVE WithSlug(x) # {}
    BY <2>2, OffTyped DEF Complete, PlanIsWhole
  <2>. QED
    BY <1>1, <2>1, <2>2 DEF IInv, CatalogInv, Complete, SyncedCatalogIsComplete
<1>. QED
  BY <1>1, Invariant, PTL

\* Of the slugs that a boot can make of a name, neither it nor another name of
\* the file has one.
LEMMA OwnSlugIsOutside ==
    ASSUME IInv, NEW b \in Boots, NEW n \in SeedNames, InTurn(b, n), ~Found(n),
           NEW x \in OwnSlugs(n)
    PROVE  ~FiledSlug(b, x) /\ (CategorySlugTaken(x) => TakenOutside(x))
<1>1. x # None /\ ~x.random
  BY OwnSlugsAreOwn
<1>2. ASSUME NEW m \in Names, boots[b].filed[m] = x PROVE FALSE
  <2>1. m \in SeedNames \ boots[b].names /\ x \in OwnSlugs(m)
    BY <1>1, <1>2 DEF IInv, KeysHold, FiledIsHeld
  <2>2. m = n
    BY <2>1, OwnSlugsAreOwn
  <2>. QED
    BY <2>1, <2>2 DEF InTurn
<1>3. ASSUME NEW m \in SeedNames, categories[m] = x PROVE FALSE
  <2>1. x \in OwnSlugs(m)
    BY <1>1, <1>3, InputsAssumption DEF IInv, KeysHold, CategorySlugsFit, OwnSlugs
  <2>2. m = n
    BY <2>1, OwnSlugsAreOwn
  <2>. QED
    BY <1>1, <1>3, <2>2 DEF Found
<1>. QED
  BY <1>2, <1>3 DEF FiledSlug, CategorySlugTaken, TakenOutside

\* A boot that nothing overlaps meets no conflict, neither at the flush of a
\* category nor at its commit, unless categories that are not of the file have
\* both the slugs that seed_catalog makes of a name.
THEOREM UnhinderedBootsSucceed == Spec => []UnhinderedBootCommits
<1>1. ASSUME IInv, NEW b \in Boots \ overlapped, Booting(b, "commit") PROVE CanCommit(b)
  BY <1>1, ReadyToCommit DEF IInv, Booting, PlanIsRight, Holds, CanCommit, DeleteAllowed,
                             SlugConflict
<1>2. ASSUME IInv, NEW b \in Boots, NEW n \in SeedNames, InTurn(b, n), ~Found(n),
             FlushConflict(b, n, BootSlug(b, n))
      PROVE  TakenOutside(Plain(n)) /\ TakenOutside(WithLetters(n))
  <2>1. Plain(n) \in OwnSlugs(n) /\ WithLetters(n) \in OwnSlugs(n)
    BY DEF OwnSlugs
  <2>2. ~FiledSlug(b, Plain(n)) /\ ~FiledSlug(b, WithLetters(n))
    BY <1>2, <2>1, OwnSlugIsOutside
  <2>3. CategorySlugTaken(BootSlug(b, n))
    BY <1>2, <2>2 DEF FlushConflict, CategoryConflict, Found, BootSlug
  <2>4. CategorySlugTaken(Plain(n)) /\ CategorySlugTaken(WithLetters(n))
    BY <2>2, <2>3 DEF BootSlug
  <2>. QED
    BY <1>2, <2>1, <2>4, OwnSlugIsOutside
<1>3. IInv => UnhinderedBootCommits
  BY <1>1, <1>2 DEF UnhinderedBootCommits
<1>. QED
  BY <1>3, Invariant, PTL

\* Where the catalogue lacks nothing, a boot that nothing overlaps plans nothing.
LEMMA CommitOfNothing ==
    ASSUME IInv, NEW b \in Boots \ overlapped, synced, CommitBoot(b)
    PROVE  UNCHANGED <<categories, courses>>
<1>. DEFINE session == boots[b]
<1>1. RowsHold /\ KeysHold /\ CatalogInv /\ Complete
  BY DEF IInv, CatalogInv
<1>2. PICK ids \in NewIds(session.create) : courses' = Reseeded(session, ids)
  BY DEF CommitBoot
<1>3. /\ session.pc = "commit"
      /\ categories' = [n \in Names |-> IF session.filed[n] # None THEN session.filed[n]
                                                                    ELSE categories[n]]
  BY DEF CommitBoot, Booting
<1>4. PlanIsRight(session)
  BY <1>1, <1>3, ReadyToCommit
<1>5. /\ session.create = {} /\ session.archive = {} /\ session.fill = {} /\ session.remove = {}
  <2>1. session.create \subseteq SeedSlugs /\ session.archive \subseteq CourseIds
        /\ session.fill \subseteq CourseIds /\ session.remove \subseteq CourseIds
    BY <1>1 DEF RowsHold, TypeOK, BootSession
  <2>. QED
    BY <1>1, <1>4, <2>1, OffTyped DEF Complete, PlanIsRight, PlanIsWhole
<1>6. \A n \in Names : session.filed[n] = None
  BY <1>1 DEF KeysHold, FiledIsHeld, Complete
<1>7. categories' = categories
  BY <1>1, <1>3, <1>6 DEF RowsHold, TypeOK
<1>8. \A c \in CourseIds : courses'[c] = courses[c]
  <2>1. ASSUME NEW c \in CourseIds, courses[c] # None PROVE courses'[c] = courses[c]
    <3>1. /\ courses[c] \in CourseRow /\ courses'[c] \in CourseRow
          /\ courses'[c].slug = courses[c].slug /\ courses'[c].status = courses[c].status
          /\ courses'[c].image = courses[c].image
      BY <1>1, <1>2, <1>5, <2>1, CommitEffect
    <3>. QED
      BY <3>1 DEF CourseRow
  <2>2. ASSUME NEW c \in CourseIds, courses[c] = None PROVE courses'[c] = None
    BY <1>1, <1>2, <1>5, <2>2, CommitEffect, NoneAssumption
  <2>. QED
    BY <2>1, <2>2
<1>9. courses' = courses
  BY <1>1, <1>2, <1>8 DEF RowsHold, TypeOK, Reseeded
<1>. QED
  BY <1>7, <1>9

\* Only its commit or its failure ends a boot that has looked at everything.
LEMMA EndOfBoot ==
    ASSUME IInv, [Next]_vars, NEW b \in Boots, Booting(b, "commit"), boots'[b].pc = "off"
    PROVE  CommitBoot(b) \/ FailBoot(b)
<1>1. boots \in [Boots -> BootSession]
  BY DEF IInv, RowsHold, TypeOK
<1>2. ASSUME NEW s \in Admins, AdminStep(s) PROVE UNCHANGED boots
  BY <1>2 DEF AdminStep, ChooseSlug, InsertCourse, CountPurchases, ReadForUpdate, ChooseNewSlug,
              UpdateCourse, DeleteCourse, LookUpName, LookUpCategorySlug, InsertCategory, Abort,
              Continue
<1>3. ASSUME NEW other \in Boots, BootStep(other) PROVE other = b
  <2>1. \E session : boots' = [boots EXCEPT ![other] = session]
    BY <1>3 DEF BootStep, Boot, CommitBoot, FailBoot, SyncCategory, NextPart, PlanRemoval,
                PlanCourse, Proceed
  <2>. QED
    BY <1>1, <2>1 DEF Booting
<1>4. BootStep(b) => CommitBoot(b) \/ FailBoot(b)
  BY DEF BootStep, Boot, SyncCategory, InTurn, NextPart, PlanRemoval, PlanCourse, Booting
<1>. QED
  BY <1>2, <1>3, <1>4 DEF Next, Purchase, Booting, vars

\* Seeding is idempotent.
THEOREM SeedingIsIdempotent == Spec => BootIsIdempotent
<1>1. ASSUME IInv, [Next]_vars
      PROVE  [\A b \in Boots : /\ Booting(b, "commit") /\ boots'[b].pc = "off"
                               /\ synced /\ b \notin overlapped
                               => UNCHANGED <<categories, courses>>]_vars
  BY <1>1, EndOfBoot, CommitOfNothing DEF FailBoot
<1>. QED
  BY <1>1, Invariant, PTL DEF Spec, BootIsIdempotent
=============================================================================
