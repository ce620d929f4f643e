-------------------------- MODULE StorefrontTables --------------------------
(***************************************************************************)
(* What deployments write and visitors read: the revision of the schema,   *)
(* the courses with the columns that pages are sorted by, the first         *)
(* administrator.  Courses are keyed by their unique slug.                 *)
(***************************************************************************)
EXTENDS Naturals, Sequences, FiniteSets

CONSTANTS
    CatalogSlugs, \* scripts/catalog_data.json: courses
    SampleSlug,   \* scripts/seed.py: the sample course
    PriceList,    \* 0002_course_prices_2026_10.py: the slugs of PRICES, in order
    OldPrice, NewPrice, \* prices by slug, before and since that revision
    None

Slugs == CatalogSlugs \cup {SampleSlug}
Listed == {PriceList[i] : i \in DOMAIN PriceList}

ASSUME PricesAssumption ==
    /\ IsFiniteSet(CatalogSlugs) /\ SampleSlug \notin CatalogSlugs
    /\ PriceList \in Seq(CatalogSlugs)
    /\ OldPrice \in [Slugs -> Nat] /\ NewPrice \in [Slugs -> Nat]
    /\ \A s \in Slugs \ Listed : OldPrice[s] = NewPrice[s]

Versions == {"empty", "0001", "0002"}
PriceAt(v) == IF v = "0002" THEN NewPrice ELSE OldPrice

VARIABLES
    version, \* alembic_version
    courses, \* slug -> price, created_at
    admin    \* whether the first administrator exists

tables == <<version, courses, admin>>

CourseRow == [price : Nat, createdAt : Nat]
ASSUME NoneAssumption == None \notin CourseRow

Present   == {s \in Slugs : courses[s] # None}

\* created_at is now(), the time of the transaction: one for all it inserts.
Inserted(slugs, price) ==
    [s \in Slugs |->
        IF s \in slugs
        THEN [price |-> price[s], createdAt |-> Cardinality(Present)]
        ELSE courses[s]]
=============================================================================
