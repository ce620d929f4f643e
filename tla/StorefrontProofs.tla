-------------------------- MODULE StorefrontProofs --------------------------
(***************************************************************************)
(* Theorems about Storefront, for any number of containers, courses and    *)
(* prices.  The inductive invariant adds to the property of prices that    *)
(* what a migration has locked exists, and that it moves the revision.     *)
(* The walks through the pages are a matter of the rows alone.             *)
(***************************************************************************)
EXTENDS Storefront, Integers, FiniteSetTheorems, FunctionTheorems, SequenceTheorems,
        TLAPS

Pc == {"down", "version", "migrating", "admin", "create", "catalog", "seed", "serving"}

ProcessRow == [pc : Pc, release : Releases, seen : Versions,
               next : 1 .. Len(PriceList) + 1,
               rows : SUBSET Listed, missing : SUBSET CatalogSlugs]

TypeInv ==
    /\ version \in Versions /\ admin \in BOOLEAN
    /\ courses \in [Slugs -> CourseRow \cup {None}]
    /\ deployed \in {"old", "new"}
    /\ processes \in [Processes -> ProcessRow]
    /\ operations \in 0 .. MaxOperations /\ failures \in 0 .. MaxFailures
    /\ hindered \in BOOLEAN

\* What processes, the editor and the history speak of exists.
KnownExist ==
    /\ \A p \in Processes : processes[p].rows \subseteq Present
    /\ editor # None => editor.slug \in Present
    /\ asked \cup misplaced \subseteq Present

Moves(process) == process.pc = "migrating" => process.seen # Target(process.release)

IInv == /\ TypeInv /\ KnownExist /\ PricesFollowVersion
        /\ \A p \in Processes : Moves(processes[p])

\* One step of OnlyMigrationsReprice.
Reprices ==
    \A s \in Present : courses'[s].price # courses[s].price =>
        version' # version \/ (editor # None /\ editor.slug = s)
-----------------------------------------------------------------------------
(* Data *)

LEMMA ListedAreCourses == Listed \subseteq CatalogSlugs /\ Listed \subseteq Slugs
  BY PricesAssumption DEF Listed, Slugs

LEMMA DownIsARow == Down \in ProcessRow /\ Down.rows = {} /\ Moves(Down)
  BY PricesAssumption DEF Down, ProcessRow, Pc, Releases, Versions, Moves

LEMMA PricesOfARevision == ASSUME NEW v PROVE PriceAt(v) \in [Slugs -> Nat]
  BY PricesAssumption DEF PriceAt

LEMMA ContinuesAt ==
    ASSUME TypeInv, NEW p \in Processes, NEW process \in ProcessRow, Continue(p, process)
    PROVE  /\ processes' \in [Processes -> ProcessRow]
           /\ processes'[p] = process
           /\ \A q \in Processes \ {p} : processes'[q] = processes[q]
  BY DEF TypeInv, Continue

\* What a transaction inserts comes at its price; the other rows stay.
LEMMA InsertedGrows ==
    ASSUME TypeInv, NEW new \in SUBSET Slugs, NEW price \in [Slugs -> Nat],
           new \cap Present = {}, courses' = Inserted(new, price)
    PROVE  /\ courses' \in [Slugs -> CourseRow \cup {None}]
           /\ \A s \in Present : courses'[s] = courses[s]
           /\ \A s \in new : courses'[s].price = price[s]
           /\ Present' = Present \cup new
<1>1. Cardinality(Present) \in Nat
  <2>1. IsFiniteSet(Slugs)
    BY PricesAssumption, FS_Singleton, FS_Union DEF Slugs
  <2>2. IsFiniteSet(Present)
    BY <2>1, FS_Subset DEF Present
  <2> QED BY <2>2, FS_CardinalityType
<1>2. \A s \in Slugs : s \in new =>
          /\ courses'[s] = [price |-> price[s], createdAt |-> Cardinality(Present)]
          /\ courses'[s] \in CourseRow
  BY <1>1 DEF Inserted, CourseRow
<1>3. \A s \in Slugs : s \notin new => courses'[s] = courses[s]
  BY DEF Inserted
<1>4. courses' \in [Slugs -> CourseRow \cup {None}]
  <2>1. courses' = [s \in Slugs |-> courses'[s]]
    BY DEF Inserted
  <2> QED BY <1>2, <1>3, <2>1 DEF TypeInv
<1>5. \A s \in Slugs : s \in new => courses'[s] # None
  BY <1>2, NoneAssumption
<1>6. Present' = Present \cup new
  BY <1>3, <1>5 DEF Present
<1>7. \A s \in Present : courses'[s] = courses[s]
  BY <1>3 DEF Present
<1>8. \A s \in new : courses'[s].price = price[s]
  <2> SUFFICES ASSUME NEW s \in new PROVE courses'[s].price = price[s]
    OBVIOUS
  <2>1. courses'[s] = [price |-> price[s], createdAt |-> Cardinality(Present)]
    BY <1>2
  <2> QED BY <2>1
<1> QED BY <1>4, <1>6, <1>7, <1>8
-----------------------------------------------------------------------------
(* Steps that write no course *)

LEMMA QuietStep ==
    ASSUME IInv, NEW p \in Processes, NEW process \in ProcessRow,
           process.rows \subseteq Present, Moves(process), Continue(p, process),
           UNCHANGED <<version, courses, asked, misplaced>>,
           UNCHANGED editor,
           admin' \in BOOLEAN, deployed' \in {"old", "new"},
           operations' \in 0 .. MaxOperations, failures' \in 0 .. MaxFailures,
           hindered' \in BOOLEAN
    PROVE  IInv' /\ Reprices
<1>1. Present' = Present /\ PricesFollowVersion'
  BY DEF IInv, Present, PricesFollowVersion
<1>2. TypeInv'
  BY ContinuesAt DEF IInv, TypeInv
<1>3. \A q \in Processes : Moves(processes'[q]) /\ processes'[q].rows \subseteq Present
  BY ContinuesAt DEF IInv, KnownExist
<1>4. KnownExist'
  BY <1>1, <1>3 DEF IInv, KnownExist
<1>5. Reprices
  BY DEF Reprices
<1> QED BY <1>1, <1>2, <1>3, <1>4, <1>5 DEF IInv, Moves, Target

\* Steps of the administrator, the script and the platform keep processes.
LEMMA OutsideStep ==
    ASSUME IInv, UNCHANGED <<version, courses, asked, misplaced, processes, failures>>,
           editor' # None => editor'.slug \in Present,
           admin' \in BOOLEAN, deployed' \in {"old", "new"},
           operations' \in 0 .. MaxOperations, hindered' \in BOOLEAN
    PROVE  IInv' /\ Reprices
<1>1. Present' = Present /\ PricesFollowVersion'
  BY DEF IInv, Present, PricesFollowVersion
<1>2. TypeInv' /\ KnownExist' /\ Reprices
  BY <1>1 DEF IInv, TypeInv, KnownExist, Reprices
<1> QED BY <1>1, <1>2 DEF IInv, Moves, Target

LEMMA StartKeeps == ASSUME IInv, NEW p \in Processes, Start(p) PROVE IInv' /\ Reprices
<1> DEFINE release == IF p = Console THEN "downgrade" ELSE deployed
           process == [Down EXCEPT !.pc = "version", !.release = release]
<1>1. Continue(p, process) /\ operations' \in {operations, operations + 1}
      /\ operations' \in 0 .. MaxOperations
  <2>1. CASE p = Console
    BY <2>1, DeploymentAssumption DEF Start, IInv, TypeInv
  <2>2. CASE p # Console
    BY <2>2, DeploymentAssumption DEF Start, IInv, TypeInv
  <2> QED BY <2>1, <2>2
<1>2. process \in ProcessRow /\ process.rows = {} /\ Moves(process)
  BY DownIsARow DEF Down, ProcessRow, Pc, Releases, Moves, IInv, TypeInv
<1> HIDE DEF process
<1>3. hindered' \in BOOLEAN
  BY DEF Start
<1> QED BY <1>1, <1>2, <1>3, QuietStep DEF Start, tables, IInv, TypeInv

LEMMA ReadVersionKeeps ==
    ASSUME IInv, NEW p \in Processes, ReadVersion(p) PROVE IInv' /\ Reprices
<1>1. UNCHANGED <<tables, rest>>
  BY DEF ReadVersion
<1>2. processes[p] \in ProcessRow /\ processes[p].rows \subseteq Present
  BY DEF IInv, TypeInv, KnownExist
<1>3. PICK process \in {Down, Migrated(p), [processes[p] EXCEPT !.pc = "migrating",
                                                               !.seen = version]} :
         Continue(p, process) /\ Moves(process)
  <2>1. CASE Continue(p, Down)
    BY <2>1, DownIsARow
  <2>2. CASE Continue(p, Migrated(p))
    BY <1>2, <2>2, DownIsARow DEF Migrated, Moves, ProcessRow
  <2>3. CASE /\ version \in Revisions(processes[p].release) \ {Target(processes[p].release)}
             /\ Continue(p, [processes[p] EXCEPT !.pc = "migrating", !.seen = version])
    BY <1>2, <2>3 DEF Moves, ProcessRow
  <2> QED BY <2>1, <2>2, <2>3 DEF ReadVersion
<1>4. process \in ProcessRow /\ process.rows \subseteq Present
  BY <1>2, DownIsARow DEF Migrated, ProcessRow, Pc, IInv, TypeInv
<1> QED BY <1>1, <1>3, <1>4, QuietStep DEF tables, rest, IInv, TypeInv

LEMMA UpdatePriceKeeps ==
    ASSUME IInv, NEW p \in Processes, UpdatePrice(p) PROVE IInv' /\ Reprices
<1> DEFINE s == PriceList[processes[p].next]
           process == [processes[p] EXCEPT !.next = @ + 1, !.rows = @ \cup ({s} \cap Present)]
<1>1. processes[p] \in ProcessRow /\ processes[p].rows \subseteq Present /\ Moves(processes[p])
  BY DEF IInv, TypeInv, KnownExist
<1>2. Continue(p, process) /\ UNCHANGED <<tables, rest>>
      /\ processes[p].next <= Len(PriceList)
  BY DEF UpdatePrice
<1>3. Len(PriceList) \in Nat /\ processes[p].next \in DOMAIN PriceList
  BY <1>1, <1>2, PricesAssumption DEF ProcessRow
<1>4. process \in ProcessRow /\ process.rows \subseteq Present
  <2>1. processes[p].next + 1 \in 1 .. Len(PriceList) + 1
    BY <1>1, <1>2, <1>3 DEF ProcessRow
  <2>2. s \in Listed
    BY <1>3 DEF Listed
  <2>3. processes[p].rows \cup ({s} \cap Present) \in SUBSET Listed
    BY <1>1, <2>2 DEF ProcessRow
  <2> HIDE DEF s
  <2>4. process \in ProcessRow
    BY <1>1, <2>1, <2>3 DEF ProcessRow
  <2>5. process.rows = processes[p].rows \cup ({s} \cap Present)
    BY <1>1 DEF ProcessRow
  <2> QED BY <1>1, <2>4, <2>5
<1>5. Moves(process)
  BY <1>1 DEF Moves, ProcessRow
<1> HIDE DEF process
<1> QED BY <1>2, <1>4, <1>5, QuietStep DEF tables, rest, IInv, TypeInv

LEMMA BootReadsKeep ==
    ASSUME IInv, NEW p \in Processes, LookupAdmin(p) \/ LookupCourses(p) PROVE IInv' /\ Reprices
<1>1. processes[p] \in ProcessRow /\ processes[p].rows \subseteq Present
  BY DEF IInv, TypeInv, KnownExist
<1>2. UNCHANGED <<tables, rest>>
  BY DEF LookupAdmin, LookupCourses
<1>3. PICK process \in ProcessRow :
         Continue(p, process) /\ process.rows = processes[p].rows /\ process.pc # "migrating"
  <2>1. CASE LookupAdmin(p)
    <3>1. [processes[p] EXCEPT !.pc = IF admin THEN "catalog" ELSE "create"] \in ProcessRow
      BY <1>1 DEF ProcessRow, Pc
    <3> QED BY <1>1, <2>1, <3>1 DEF LookupAdmin, ProcessRow
  <2>2. CASE LookupCourses(p)
    <3>1. [processes[p] EXCEPT !.pc = "seed", !.missing = CatalogSlugs \ Present] \in ProcessRow
      BY <1>1 DEF ProcessRow, Pc
    <3> QED BY <1>1, <2>2, <3>1 DEF LookupCourses, ProcessRow
  <2> QED BY <2>1, <2>2
<1> QED BY <1>1, <1>2, <1>3, QuietStep DEF tables, rest, Moves, IInv, TypeInv

LEMMA Served ==
    ASSUME IInv, NEW p \in Processes, Serve(p)
    PROVE  \E process \in ProcessRow :
              Continue(p, process) /\ process.rows \subseteq Present /\ Moves(process)
<1>1. processes[p] \in ProcessRow /\ processes[p].rows \subseteq Present
  BY DEF IInv, TypeInv, KnownExist
<1> DEFINE process == [processes[p] EXCEPT !.pc = "serving", !.missing = {}]
<1>2. process \in ProcessRow
  BY <1>1 DEF ProcessRow, Pc
<1>3. process.rows = processes[p].rows /\ process.pc = "serving"
  BY <1>1 DEF ProcessRow
<1>4. Continue(p, process)
  BY DEF Serve
<1> HIDE DEF process
<1> QED BY <1>1, <1>2, <1>3, <1>4 DEF Moves

LEMMA GiveUpKeeps ==
    ASSUME IInv, NEW p \in Processes, GiveUp(p) PROVE IInv' /\ Reprices
<1>1. PICK process \in ProcessRow :
         Continue(p, process) /\ process.rows \subseteq Present /\ Moves(process)
  BY Served DEF GiveUp
<1>2. failures' \in 0 .. MaxFailures /\ hindered' \in BOOLEAN
  BY DeploymentAssumption DEF GiveUp, IInv, TypeInv
<1>3. UNCHANGED <<tables, deployed, editor, operations, asked, misplaced>>
  BY DEF GiveUp
<1> QED BY <1>1, <1>2, <1>3, QuietStep DEF tables, IInv, TypeInv

LEMMA CreateAdminKeeps ==
    ASSUME IInv, NEW p \in Processes, CreateAdmin(p) PROVE IInv' /\ Reprices
<1>1. processes[p] \in ProcessRow /\ processes[p].rows \subseteq Present
  BY DEF IInv, TypeInv, KnownExist
<1>2. UNCHANGED <<version, courses, rest>> /\ admin' = TRUE
  BY DEF CreateAdmin
<1>3. PICK process \in ProcessRow :
         Continue(p, process) /\ process.rows \subseteq Present /\ Moves(process)
  <2>1. CASE Serve(p)
    BY <2>1, Served
  <2>2. CASE Continue(p, [processes[p] EXCEPT !.pc = "catalog"])
    <3>1. [processes[p] EXCEPT !.pc = "catalog"] \in ProcessRow
      BY <1>1 DEF ProcessRow, Pc
    <3> QED BY <1>1, <2>2, <3>1 DEF Moves, ProcessRow
  <2> QED BY <2>1, <2>2 DEF CreateAdmin
<1> QED BY <1>2, <1>3, QuietStep DEF rest, IInv, TypeInv

LEMMA GoneKeeps ==
    ASSUME IInv, NEW p \in Processes, Stop(p) \/ Crash(p) PROVE IInv' /\ Reprices
<1>1. Continue(p, Down) /\ UNCHANGED <<tables, deployed, editor, asked, misplaced>>
  BY DEF Stop, Crash, rest
<1>2. operations' \in 0 .. MaxOperations /\ failures' \in 0 .. MaxFailures /\ hindered' \in BOOLEAN
  BY DeploymentAssumption DEF Stop, Crash, rest, IInv, TypeInv
<1> QED BY <1>1, <1>2, DownIsARow, QuietStep DEF tables, IInv, TypeInv

LEMMA OutsideKeeps ==
    ASSUME IInv,
           LookupSample \/ Deploy \/ Rollback \/ \E s \in Slugs : LoadCourse(s)
    PROVE  IInv' /\ Reprices
<1>1. UNCHANGED <<tables, asked, misplaced, processes, failures>>
  BY DEF LookupSample, Deploy, Rollback, LoadCourse
<1>2. editor' # None => editor'.slug \in Present
  BY DEF LookupSample, Deploy, Rollback, LoadCourse, IInv, KnownExist
<1>3. deployed' \in {"old", "new"} /\ operations' \in 0 .. MaxOperations /\ hindered' \in BOOLEAN
  BY DeploymentAssumption DEF LookupSample, Deploy, Rollback, LoadCourse, IInv, TypeInv
<1> QED BY <1>1, <1>2, <1>3, OutsideStep DEF tables, IInv, TypeInv
-----------------------------------------------------------------------------
(* Steps that write courses *)

\* A transaction that inserts courses at the price of the revision, or marks
\* the ones it inserts at another; an administrator's are asked for.
LEMMA InsertingStep ==
    ASSUME IInv, NEW new \in SUBSET Slugs, NEW price \in [Slugs -> Nat],
           new \cap Present = {}, courses' = Inserted(new, price),
           misplaced \subseteq misplaced', misplaced' \subseteq misplaced \cup new,
           asked \subseteq asked', asked' \subseteq asked \cup new,
           \A s \in new \cap Listed :
               price[s] = PriceAt(version)[s] \/ s \in asked' \cup misplaced',
           UNCHANGED <<version, deployed, editor, failures>>,
           admin' \in BOOLEAN, hindered' \in BOOLEAN, operations' \in 0 .. MaxOperations,
           processes' \in [Processes -> ProcessRow],
           \A q \in Processes : Moves(processes'[q]) /\ processes'[q].rows \subseteq Present
    PROVE  IInv' /\ Reprices
<1>1. /\ courses' \in [Slugs -> CourseRow \cup {None}]
      /\ \A s \in Present : courses'[s] = courses[s]
      /\ \A s \in new : courses'[s].price = price[s]
      /\ Present' = Present \cup new
  BY InsertedGrows DEF IInv
<1>2. TypeInv'
  BY <1>1 DEF IInv, TypeInv
<1>3. KnownExist'
  BY <1>1 DEF IInv, KnownExist
<1>4. Reprices
  BY <1>1 DEF Reprices
<1>5. PricesFollowVersion'
  <2> SUFFICES ASSUME NEW s \in Listed, s \in Present \cup new
               PROVE  \/ courses'[s].price = PriceAt(version)[s]
                      \/ s \in asked' \cup misplaced'
    BY <1>1 DEF PricesFollowVersion, PriceAt
  <2>1. CASE s \in new
    BY <1>1, <2>1
  <2>2. CASE s \in Present
    BY <1>1, <2>2 DEF IInv, PricesFollowVersion
  <2> QED BY <2>1, <2>2
<1> QED BY <1>2, <1>3, <1>4, <1>5 DEF IInv, Moves, Target

LEMMA CommitCatalogKeeps ==
    ASSUME IInv, NEW p \in Processes, CommitCatalog(p) PROVE IInv' /\ Reprices
<1> DEFINE new == processes[p].missing
           price == PriceAt(Target(processes[p].release))
<1>1. new \subseteq Slugs
  BY DEF IInv, TypeInv, ProcessRow, Slugs
<1>2. PICK process \in ProcessRow :
         Continue(p, process) /\ process.rows \subseteq Present /\ Moves(process)
  BY Served DEF CommitCatalog
<1>3. UNCHANGED <<version, admin, deployed, editor, operations, failures, asked, hindered>>
  BY DEF CommitCatalog
<1>4. CASE new \cap Present = {}
  <2>1. courses' = Inserted(new, price)
    BY <1>4 DEF CommitCatalog
  <2>2. /\ misplaced \subseteq misplaced' /\ misplaced' \subseteq misplaced \cup new
        /\ version # Target(processes[p].release) => new \cap Listed \subseteq misplaced'
    BY <1>4 DEF CommitCatalog
  <2>3. price \in [Slugs -> Nat]
    BY PricesOfARevision
  <2>4. \A s \in new \cap Listed : price[s] = PriceAt(version)[s] \/ s \in misplaced'
    BY <2>2
  <2>5. /\ processes' \in [Processes -> ProcessRow]
        /\ \A q \in Processes : Moves(processes'[q]) /\ processes'[q].rows \subseteq Present
    BY <1>2, ContinuesAt DEF IInv, KnownExist
  <2>6. admin' \in BOOLEAN /\ hindered' \in BOOLEAN /\ operations' \in 0 .. MaxOperations
    BY <1>3 DEF IInv, TypeInv
  <2> HIDE DEF new, price
  <2> QED BY <1>1, <1>3, <1>4, <2>1, <2>2, <2>3, <2>4, <2>5, <2>6, InsertingStep
<1>5. CASE new \cap Present # {}
  <2>1. UNCHANGED <<courses, misplaced>>
    BY <1>5 DEF CommitCatalog
  <2> QED BY <1>2, <1>3, <2>1, QuietStep DEF IInv, TypeInv
<1> QED BY <1>4, <1>5

LEMMA CommitSampleKeeps == ASSUME IInv, CommitSample PROVE IInv' /\ Reprices
<1> DEFINE new == {SampleSlug} \ Present
<1>1. UNCHANGED <<version, deployed, processes, editor, operations, failures, asked, misplaced>>
  BY DEF CommitSample
<1>2. admin' \in BOOLEAN /\ hindered' \in BOOLEAN /\ operations' \in 0 .. MaxOperations
  BY DEF CommitSample, IInv, TypeInv
<1>3. new \in SUBSET Slugs /\ new \cap Listed = {}
  BY PricesAssumption, ListedAreCourses DEF Slugs
<1>4. CASE courses' = Inserted(new, NewPrice)
  <2>1. /\ processes' \in [Processes -> ProcessRow]
        /\ \A q \in Processes : Moves(processes'[q]) /\ processes'[q].rows \subseteq Present
    BY <1>1 DEF IInv, TypeInv, KnownExist
  <2>2. NewPrice \in [Slugs -> Nat] /\ new \cap Present = {}
    BY PricesAssumption
  <2> HIDE DEF new
  <2> QED BY <1>1, <1>2, <1>3, <1>4, <2>1, <2>2, InsertingStep
<1>5. CASE UNCHANGED courses
  BY <1>1, <1>2, <1>5, OutsideStep DEF IInv, TypeInv, KnownExist
<1> QED BY <1>4, <1>5 DEF CommitSample

LEMMA CreateCourseKeeps ==
    ASSUME IInv, NEW s \in Slugs, NEW set \in AdminPrices, CreateCourse(s, set)
    PROVE  IInv' /\ Reprices
<1> DEFINE new == {s}
           price == [t \in Slugs |-> set]
<1>1. /\ courses' = Inserted(new, price) /\ asked' = asked \cup new
      /\ UNCHANGED <<version, admin, deployed, processes, editor, failures, misplaced>>
  BY DEF CreateCourse
<1>2. new \in SUBSET Slugs /\ new \cap Present = {}
  BY DEF CreateCourse
<1>3. price \in [Slugs -> Nat]
  BY DeploymentAssumption
<1>4. admin' \in BOOLEAN /\ hindered' \in BOOLEAN /\ operations' \in 0 .. MaxOperations
  BY DeploymentAssumption DEF CreateCourse, IInv, TypeInv
<1>5. /\ processes' \in [Processes -> ProcessRow]
      /\ \A q \in Processes : Moves(processes'[q]) /\ processes'[q].rows \subseteq Present
  BY <1>1 DEF IInv, TypeInv, KnownExist
<1> HIDE DEF new, price
<1> QED BY <1>1, <1>2, <1>3, <1>4, <1>5, InsertingStep

LEMMA SavePriceKeeps ==
    ASSUME IInv, NEW price \in AdminPrices, SavePrice(price) PROVE IInv' /\ Reprices
<1> DEFINE s == editor.slug
<1>1. UNCHANGED <<version, admin, deployed, processes, operations, failures, hindered, misplaced>>
      /\ editor' = None /\ editor # None
  BY DEF SavePrice
<1>2. s \in Present /\ s \in Slugs
  BY <1>1 DEF IInv, KnownExist, Present
<1>3. CASE UNCHANGED <<courses, asked>>
  BY <1>1, <1>3, OutsideStep DEF IInv, TypeInv
<1>4. CASE courses' = [courses EXCEPT ![s].price = price] /\ asked' = asked \cup {s}
  <2>1. courses[s] \in CourseRow
    BY <1>2 DEF Present, IInv, TypeInv
  <2>2. [courses[s] EXCEPT !.price = price] \in CourseRow
    BY <2>1, DeploymentAssumption DEF CourseRow
  <2>3. /\ courses' \in [Slugs -> CourseRow \cup {None}]
        /\ courses'[s] \in CourseRow
        /\ \A t \in Slugs \ {s} : courses'[t] = courses[t]
    BY <1>2, <1>4, <2>2 DEF IInv, TypeInv
  <2>4. Present' = Present
    BY <1>2, <2>3, NoneAssumption DEF Present
  <2>5. TypeInv'
    BY <1>1, <2>3 DEF IInv, TypeInv
  <2>6. KnownExist'
    BY <1>1, <1>2, <1>4, <2>4 DEF IInv, KnownExist
  <2>7. Reprices
    BY <1>1, <2>3 DEF Reprices, Present
  <2>8. PricesFollowVersion'
    <3>1. \A t \in Listed \cap Present : t # s => courses'[t] = courses[t]
      BY <2>3 DEF Present
    <3> QED BY <1>1, <1>4, <2>4, <3>1 DEF IInv, PricesFollowVersion, PriceAt
  <2> QED BY <1>1, <2>5, <2>6, <2>7, <2>8 DEF IInv, Moves, Target
<1> QED BY <1>3, <1>4 DEF SavePrice

LEMMA MigratedIsARow ==
    ASSUME IInv, NEW p \in Processes
    PROVE  Migrated(p) \in ProcessRow /\ Migrated(p).rows = {} /\ Moves(Migrated(p))
<1>1. processes[p] \in ProcessRow
  BY DEF IInv, TypeInv
<1>2. CASE p = Console
  BY <1>2, DownIsARow DEF Migrated
<1>3. CASE p # Console
  <2>1. [processes[p] EXCEPT !.pc = "admin", !.rows = {}] \in ProcessRow
    BY <1>1 DEF ProcessRow, Pc
  <2> QED BY <1>1, <1>3, <2>1 DEF Migrated, Moves, ProcessRow
<1> QED BY <1>2, <1>3

LEMMA CommitMigrationKeeps ==
    ASSUME IInv, NEW p \in Processes, CommitMigration(p) PROVE IInv' /\ Reprices
<1>1. UNCHANGED <<admin, deployed, editor, operations, failures, hindered>>
  BY DEF CommitMigration
<1>2. processes[p] \in ProcessRow /\ processes[p].rows \subseteq Present
      /\ Moves(processes[p]) /\ processes[p].pc = "migrating"
  BY DEF IInv, TypeInv, KnownExist, CommitMigration, At
<1>3. CASE version # processes[p].seen
  <2>1. Continue(p, Down) /\ UNCHANGED <<version, courses, asked, misplaced>>
    BY <1>3 DEF CommitMigration
  <2> QED BY <1>1, <2>1, DownIsARow, QuietStep DEF IInv, TypeInv
<1>4. CASE version = processes[p].seen
  <2> DEFINE rows == processes[p].rows
             price == PriceAt(version')
  <2>1. /\ version' = Target(processes[p].release)
        /\ courses' = Repriced(p)
        /\ asked' = asked \ rows
        /\ misplaced' = (misplaced \ rows) \cup Missed(p)
        /\ Continue(p, Migrated(p))
    BY <1>4 DEF CommitMigration
  <2>2. version' \in Versions /\ version' # version
    BY <1>2, <1>4, <2>1 DEF Moves, Target, Versions
  <2>3. price \in [Slugs -> Nat] /\ price = PriceAt(Target(processes[p].release))
    BY <2>1, PricesAssumption DEF PriceAt
  <2> HIDE DEF price
  <2>4. \A s \in Slugs : s \in rows => /\ courses'[s] \in CourseRow
                                      /\ courses'[s].price = price[s]
    <3> SUFFICES ASSUME NEW s \in Slugs, s \in rows
                 PROVE  courses'[s] \in CourseRow /\ courses'[s].price = price[s]
      OBVIOUS
    <3>1. courses[s] \in CourseRow
      BY <1>2 DEF Present, IInv, TypeInv
    <3>2. courses'[s] = [courses[s] EXCEPT !.price = price[s]]
      BY <2>1, <2>3 DEF Repriced
    <3>3. price[s] \in Nat
      BY <2>3
    <3> QED BY <3>1, <3>2, <3>3 DEF CourseRow
  <2>5. \A s \in Slugs : s \notin rows => courses'[s] = courses[s]
    BY <2>1 DEF Repriced
  <2>6. courses' \in [Slugs -> CourseRow \cup {None}]
    <3>1. courses' = [s \in Slugs |-> courses'[s]]
      BY <2>1 DEF Repriced
    <3> QED BY <2>4, <2>5, <3>1 DEF IInv, TypeInv
  <2>7. Present' = Present
    BY <1>2, <2>4, <2>5, NoneAssumption DEF Present
  <2>8. /\ processes' \in [Processes -> ProcessRow]
        /\ \A q \in Processes : Moves(processes'[q]) /\ processes'[q].rows \subseteq Present
    BY <2>1, MigratedIsARow, ContinuesAt DEF IInv, KnownExist
  <2>9. TypeInv'
    BY <1>1, <2>2, <2>6, <2>8 DEF IInv, TypeInv
  <2>10. KnownExist'
    BY <1>1, <2>1, <2>7, <2>8 DEF IInv, KnownExist, Missed
  <2>11. Reprices
    BY <2>2 DEF Reprices
  <2>12. PricesFollowVersion'
    <3> SUFFICES ASSUME NEW s \in Listed, s \in Present
                 PROVE  courses'[s].price = price[s] \/ s \in misplaced'
      BY <2>7 DEF PricesFollowVersion, price
    <3>1. CASE s \in rows
      BY <2>4, <3>1 DEF Present
    <3>2. CASE s \notin rows
      BY <2>1, <3>2 DEF Missed
    <3> QED BY <3>1, <3>2
  <2> QED BY <2>8, <2>9, <2>10, <2>11, <2>12 DEF IInv, Moves, Target
<1> QED BY <1>3, <1>4
-----------------------------------------------------------------------------
(* The invariant *)

LEMMA InitIInv == InitDeployment => IInv
<1> SUFFICES ASSUME InitDeployment PROVE IInv
  OBVIOUS
<1>1. Present = {}
  BY DEF InitDeployment, Present
<1>2. TypeInv
  <2>1. operations \in 0 .. MaxOperations /\ failures \in 0 .. MaxFailures
    BY DeploymentAssumption DEF InitDeployment
  <2>2. processes \in [Processes -> ProcessRow]
    BY DownIsARow DEF InitDeployment
  <2>3. courses \in [Slugs -> CourseRow \cup {None}]
    BY DEF InitDeployment
  <2> QED BY <2>1, <2>2, <2>3 DEF InitDeployment, TypeInv, Versions
<1>3. KnownExist /\ PricesFollowVersion
  BY <1>1, DownIsARow DEF InitDeployment, KnownExist, PricesFollowVersion
<1>4. \A p \in Processes : Moves(processes[p])
  BY DownIsARow DEF InitDeployment
<1> QED BY <1>2, <1>3, <1>4 DEF IInv

LEMMA NextKeeps == ASSUME IInv, DeploymentNext PROVE IInv' /\ Reprices
<1>1. ASSUME NEW p \in Processes, ProcessStep(p) PROVE IInv' /\ Reprices
  BY <1>1, StartKeeps, ReadVersionKeeps, UpdatePriceKeeps, CommitMigrationKeeps,
     BootReadsKeep, GiveUpKeeps, CreateAdminKeeps, CommitCatalogKeeps
     DEF ProcessStep, MigrationStep, Boot
<1>2. ASSUME NEW p \in Processes, Stop(p) \/ Crash(p) PROVE IInv' /\ Reprices
  BY <1>2, GoneKeeps
<1>3. CASE AdminStep
  BY <1>3, OutsideKeeps, CreateCourseKeeps, SavePriceKeeps DEF AdminStep
<1>4. CASE LookupSample \/ CommitSample \/ Deploy \/ Rollback
  BY <1>4, OutsideKeeps, CommitSampleKeeps
<1> QED BY <1>1, <1>2, <1>3, <1>4 DEF DeploymentNext, Processes

LEMMA StutterKeeps == ASSUME IInv, UNCHANGED vars PROVE IInv'
<1>1. Present' = Present
  BY DEF vars, tables, Present
<1> QED BY <1>1 DEF vars, tables, deployment, IInv, TypeInv, KnownExist,
                    PricesFollowVersion, Moves, Target

LEMMA Inductive == Spec => []IInv
<1>1. IInv /\ [DeploymentNext]_vars => IInv'
  BY NextKeeps, StutterKeeps
<1> QED BY <1>1, InitIInv, PTL DEF Spec

\* Every variable of the model of deployments holds values of its type, and
\* what processes and the history speak of exists, however many containers
\* boot, migrate, crash and are rolled back.
THEOREM TypeCorrect == Spec => []TypeOK
<1>1. IInv => TypeOK
  BY DEF IInv, TypeInv, KnownExist, ProcessRow, TypeOK
<1> QED BY <1>1, Inductive, PTL

\* 0002_course_prices_2026_10.py: the repriced courses have the prices of the
\* revision, except where an administrator or an insert the migration could
\* not see says otherwise.
THEOREM PricesFollowTheRevision == Spec => []PricesFollowVersion
<1>1. IInv => PricesFollowVersion
  BY DEF IInv
<1> QED BY <1>1, Inductive, PTL

\* bootstrap.py and 0002_course_prices_2026_10.py: boots and migrations that
\* lose to another leave the prices of the courses that exist.
THEOREM BootsNeverReprice == Spec => OnlyMigrationsReprice
<1>1. IInv /\ [DeploymentNext]_vars => [Reprices]_vars
  BY NextKeeps
<1> QED BY <1>1, Inductive, PTL DEF Spec, OnlyMigrationsReprice, Reprices
-----------------------------------------------------------------------------
(* Induction.  A set of the first numbers that 0 belongs to, and with a      *)
(* number its successor, holds the last one: else adding one would map it    *)
(* into itself without 0, and two numbers would have one successor.          *)

LEMMA Climb ==
    ASSUME NEW n \in Nat, NEW S \in SUBSET (0 .. n), 0 \in S,
           \A i \in 0 .. n : i \in S /\ i < n => i + 1 \in S
    PROVE  n \in S
<1>. SUFFICES ASSUME n \notin S PROVE FALSE
  OBVIOUS
<1>1. IsFiniteSet(S) /\ IsFiniteSet(S \ {0})
  <2>1. IsFiniteSet(0 .. n)
    BY FS_Interval
  <2>2. IsFiniteSet(S)
    BY <2>1, FS_Subset
  <2>. QED
    BY <2>2, FS_RemoveElement
<1>2. Cardinality(S \ {0}) = Cardinality(S) - 1 /\ Cardinality(S) \in Nat
  BY <1>1, FS_RemoveElement, FS_CardinalityType
<1>. DEFINE next == [i \in S |-> i + 1]
<1>3. next \in [S -> S \ {0}]
  OBVIOUS
<1>4. PICK i, j \in S : i # j /\ next[i] = next[j]
  <2>1. Cardinality(S \ {0}) < Cardinality(S)
    BY <1>2
  <2>. HIDE DEF next
  <2>. QED
    BY <1>1, <1>3, <2>1, FS_PigeonHole
<1>. QED
  BY <1>4
-----------------------------------------------------------------------------
(* Enumerations of a finite set P in the order R.                            *)

Upto(P, R, s) == {t \in P : <<t, s>> \in R}
Antisymmetric(P, R) == /\ \A s \in P : <<s, s>> \in R
                       /\ \A s, t \in P : <<s, t>> \in R /\ <<t, s>> \in R => s = t
Enumerates(P, R, x) ==
    /\ x \in [1 .. Cardinality(P) -> P]
    /\ \A i, j \in 1 .. Cardinality(P) : i < j => x[i] # x[j] /\ <<x[i], x[j]>> \in R

\* The place of an element is the number of those up to it.
LEMMA Ranks ==
    ASSUME NEW P, IsFiniteSet(P), NEW R, NEW x, Antisymmetric(P, R), Enumerates(P, R, x)
    PROVE  \A s \in P : Cardinality(Upto(P, R, s)) \in 1 .. Cardinality(P)
                        /\ x[Cardinality(Upto(P, R, s))] = s
<1>. DEFINE N == Cardinality(P)
<1>1. N \in Nat
  BY FS_CardinalityType
<1>. HIDE DEF N
<1>2. x \in [1 .. N -> P] /\ \A i, j \in 1 .. N : i < j => x[i] # x[j] /\ <<x[i], x[j]>> \in R
  BY DEF N, Enumerates
<1>3. \A i, j \in 1 .. N : x[i] = x[j] => i = j
  <2>. TAKE i, j \in 1 .. N
  <2>1. i < j \/ j < i \/ i = j
    BY <1>1
  <2>. QED
    BY <1>2, <2>1
<1>4. x \in Injection(1 .. N, P)
  BY <1>2, <1>3, Zenon DEF Injection, IsInjective
<1>5. IsFiniteSet(1 .. N) /\ Cardinality(1 .. N) = N
  BY <1>1, FS_Interval
<1>6. x \in Surjection(1 .. N, P)
  BY <1>4, <1>5, FS_Injection DEF N
<1>7. SUFFICES ASSUME NEW s \in P
               PROVE  \E i \in 1 .. N : x[i] = s /\ Cardinality(Upto(P, R, s)) = i
  BY DEF N
<1>8. PICK i \in 1 .. N : x[i] = s
  BY <1>6 DEF Surjection
<1>. DEFINE first == [j \in 1 .. i |-> x[j]]
<1>9. \A t \in Upto(P, R, s) : \E j \in 1 .. i : x[j] = t
  <2>. SUFFICES ASSUME NEW t \in Upto(P, R, s) PROVE \E j \in 1 .. i : x[j] = t
    OBVIOUS
  <2>1. PICK j \in 1 .. N : x[j] = t
    BY <1>6 DEF Surjection, Upto
  <2>2. ~(i < j)
    BY <1>2, <1>8, <2>1 DEF Antisymmetric, Upto
  <2>. QED
    BY <1>1, <2>1, <2>2
<1>10. \A j \in 1 .. i : j \in 1 .. N /\ x[j] \in Upto(P, R, s)
  <2>. SUFFICES ASSUME NEW j \in 1 .. i PROVE j \in 1 .. N /\ x[j] \in Upto(P, R, s)
    OBVIOUS
  <2>1. j \in 1 .. N /\ (j < i \/ j = i)
    BY <1>1
  <2>. QED
    BY <1>2, <1>8, <2>1 DEF Antisymmetric, Upto
<1>11. first \in Bijection(1 .. i, Upto(P, R, s))
  <2>1. first \in [1 .. i -> Upto(P, R, s)]
    BY <1>10
  <2>2. \A j, k \in 1 .. i : first[j] = first[k] => j = k
    BY <1>3, <1>10
  <2>3. \A t \in Upto(P, R, s) : \E j \in 1 .. i : first[j] = t
    BY <1>9
  <2>. HIDE DEF first
  <2>. QED
    BY <2>1, <2>2, <2>3, Zenon DEF Bijection, Injection, Surjection, IsInjective
<1>12. Cardinality(Upto(P, R, s)) = i
  <2>. HIDE DEF first
  <2>1. i \in Nat /\ ExistsBijection(1 .. i, Upto(P, R, s))
    BY <1>1, <1>11 DEF ExistsBijection
  <2>. QED
    BY <2>1, FS_CountingElements
<1>. QED
  BY <1>8, <1>12

\* There is one way to enumerate the set.
LEMMA SameOrder ==
    ASSUME NEW P, IsFiniteSet(P), NEW R, NEW x, NEW y, Antisymmetric(P, R),
           Enumerates(P, R, x), Enumerates(P, R, y)
    PROVE  x = y
<1>1. \A s \in P : /\ Cardinality(Upto(P, R, s)) \in 1 .. Cardinality(P)
                   /\ x[Cardinality(Upto(P, R, s))] = s /\ y[Cardinality(Upto(P, R, s))] = s
  BY Ranks
<1>2. Cardinality(P) \in Nat
  BY FS_CardinalityType
<1>3. \A i \in 1 .. Cardinality(P) : x[i] = y[i]
  <2>. TAKE i \in 1 .. Cardinality(P)
  <2>. DEFINE j == Cardinality(Upto(P, R, x[i]))
  <2>1. x[i] \in P
    BY DEF Enumerates
  <2>2. j \in 1 .. Cardinality(P) /\ x[j] = x[i] /\ y[j] = x[i]
    BY <1>1, <2>1
  <2>. HIDE DEF j
  <2>3. ~(i < j) /\ ~(j < i)
    BY <2>2 DEF Enumerates
  <2>. QED
    BY <1>2, <2>2, <2>3
<1>4. /\ x = [i \in 1 .. Cardinality(P) |-> x[i]]
      /\ y = [i \in 1 .. Cardinality(P) |-> y[i]]
  BY DEF Enumerates
<1>. QED
  BY <1>3, <1>4, Zenon
-----------------------------------------------------------------------------
(* Pages.                                                                   *)

\* As many pages as it takes, of which none is empty.
LEMMA Pages ==
    ASSUME NEW n \in Nat, NEW limit \in Nat \ {0}
    PROVE  /\ TotalPages(n, limit) \in Nat
           /\ n <= TotalPages(n, limit) * limit
           /\ \A i \in 1 .. TotalPages(n, limit) :
                  i * limit = (i - 1) * limit + limit /\ (i - 1) * limit \in Nat
                  /\ (i - 1) * limit < n
<1>. DEFINE T == TotalPages(n, limit)
<1>1. T \in Nat /\ T * limit <= n + limit - 1 /\ n + limit - 1 < T * limit + limit
  <2>1. n + limit - 1 \in Nat
    OBVIOUS
  <2>. DEFINE a == n + limit - 1
  <2>2. T = a \div limit
    BY DEF TotalPages
  <2>. HIDE DEF a
  <2>3. T \in Nat /\ T * limit <= a /\ a < T * limit + limit
    BY <2>1, <2>2 DEF a
  <2>. QED
    BY <2>3 DEF a
<1>. HIDE DEF T
<1>2. ASSUME NEW i \in 1 .. T
      PROVE  i * limit = (i - 1) * limit + limit /\ (i - 1) * limit \in Nat /\ (i - 1) * limit < n
  <2>1. i - 1 \in Nat /\ (i - 1) + 1 = i
    OBVIOUS
  <2>2. (i - 1) * limit \in Nat /\ i * limit = (i - 1) * limit + limit
    BY <2>1
  <2>3. i * limit <= T * limit
    BY <1>1
  <2>. QED
    BY <1>1, <2>2, <2>3
<1>3. T * limit \in Nat
  BY <1>1
<1>. QED
  BY <1>1, <1>2, <1>3 DEF T

\* The recursion of a walk has a solution, the prefixes of c; by induction it is
\* the one that Walk computes.
LEMMA WalkTakesPages ==
    ASSUME NEW S, NEW c \in Seq(S), NEW a, NEW b, NEW k, NEW limit \in Nat \ {0},
           \A i \in 1 .. TotalPages(Len(c), limit) :
               PageOf(IF i <= k THEN a ELSE b, i, limit) = PageOf(c, i, limit)
    PROVE  Walk(a, k, b, Len(c), limit) = c
<1>. DEFINE n == Len(c)
            T == TotalPages(n, limit)
            page(i) == PageOf(IF i <= k THEN a ELSE b, i, limit)
            cut(i) == IF i * limit < n THEN i * limit ELSE n
            upto[i \in 0 .. T] == IF i = 0 THEN << >> ELSE upto[i - 1] \o page(i)
            taken == [i \in 0 .. T |-> SubSeq(c, 1, cut(i))]
<1>1. n \in Nat /\ T \in Nat /\ n <= T * limit
  <2>1. n \in Nat
    BY LenProperties
  <2>. HIDE DEF n
  <2>. QED
    BY <2>1, Pages
<1>2. \A i \in 1 .. T : i * limit = (i - 1) * limit + limit
                        /\ (i - 1) * limit \in Nat /\ (i - 1) * limit < n
  BY <1>1, Pages
<1>3. SubSeq(c, 1, cut(0)) = << >>
  <2>1. cut(0) = 0
    BY <1>1
  <2>. QED
    BY <2>1, SubSeqEmpty
<1>4. \A i \in 1 .. T : SubSeq(c, 1, cut(i)) = SubSeq(c, 1, cut(i - 1)) \o page(i)
  <2>. TAKE i \in 1 .. T
  <2>. DEFINE from == (i - 1) * limit
              to == IF from + limit < n THEN from + limit ELSE n
  <2>1. cut(i - 1) = from /\ cut(i) = to /\ from \in 0 .. n /\ to \in from .. n
    BY <1>1, <1>2
  <2>2. page(i) = SubSeq(c, from + 1, to)
    BY DEF PageOf, Offset
  <2>. HIDE DEF from, to, cut, page
  <2>3. SubSeq(c, 1, from) \o SubSeq(c, from + 1, to) = SubSeq(c, 1, to)
    BY <1>1, <2>1, ConcatAdjacentSubSeq
  <2>. QED
    BY <2>1, <2>2, <2>3
<1>5. taken = [i \in 0 .. T |-> IF i = 0 THEN << >> ELSE taken[i - 1] \o page(i)]
  <2>1. \A i \in 0 .. T : i # 0 => i \in 1 .. T /\ i - 1 \in 0 .. T
    BY <1>1
  <2>. HIDE DEF T, page, cut
  <2>. QED
    BY <1>3, <1>4, <2>1
<1>6. upto = [i \in 0 .. T |-> IF i = 0 THEN << >> ELSE upto[i - 1] \o page(i)]
  <2>. HIDE DEF taken, T, page
  <2>. QED
    BY <1>5, Zenon DEF upto
<1>. DEFINE equal == {i \in 0 .. T : upto[i] = taken[i]}
<1>7. T \in equal
  <2>1. \A i \in 1 .. T : i - 1 \in 0 .. T
    BY <1>1
  <2>. HIDE DEF upto, taken, T, page, n
  <2>2. 0 \in equal
    BY <1>1, <1>5, <1>6
  <2>3. \A i \in 0 .. T : i \in equal /\ i < T => i + 1 \in equal
    <3>. SUFFICES ASSUME NEW i \in 0 .. T, i \in equal, i < T PROVE i + 1 \in equal
      OBVIOUS
    <3>1. i + 1 \in 0 .. T /\ i + 1 # 0 /\ (i + 1) - 1 = i
      BY <1>1
    <3>2. upto[i + 1] = upto[i] \o page(i + 1) /\ taken[i + 1] = taken[i] \o page(i + 1)
      BY <1>5, <1>6, <3>1
    <3>. QED
      BY <3>1, <3>2
  <2>. HIDE DEF equal
  <2>4. equal \in SUBSET (0 .. T)
    BY DEF equal
  <2>. QED
    BY <1>1, <2>2, <2>3, <2>4, Climb
<1>8. taken[T] = c
  <2>1. cut(T) = n
    BY <1>1
  <2>. QED
    BY <1>1, <2>1, SubSeqFull
<1>9. Walk(a, k, b, n, limit) = upto[T]
  BY DEF Walk
<1>. QED
  BY <1>7, <1>8, <1>9
\* What two sequences have in common.
LEMMA SamePart ==
    ASSUME NEW s, NEW t, NEW m \in Nat, NEW n \in Nat, \A i \in m .. n : s[i] = t[i]
    PROVE  SubSeq(s, m, n) = SubSeq(t, m, n)
<1>. DEFINE S == {s[i] : i \in m .. n}
<1>1. \A i \in m .. n : s[i] \in S /\ t[i] \in S
  OBVIOUS
<1>. HIDE DEF S
<1>2. /\ SubSeq(s, m, n) \in Seq(S) /\ SubSeq(t, m, n) \in Seq(S)
      /\ Len(SubSeq(s, m, n)) = IF m <= n THEN n - m + 1 ELSE 0
      /\ Len(SubSeq(t, m, n)) = IF m <= n THEN n - m + 1 ELSE 0
      /\ \A i \in 1 .. n - m + 1 : SubSeq(s, m, n)[i] = s[m + i - 1]
      /\ \A i \in 1 .. n - m + 1 : SubSeq(t, m, n)[i] = t[m + i - 1]
  BY <1>1, SubSeqProperties
<1>3. \A i \in 1 .. Len(SubSeq(s, m, n)) : SubSeq(s, m, n)[i] = SubSeq(t, m, n)[i]
  <2>. TAKE i \in 1 .. Len(SubSeq(s, m, n))
  <2>1. i \in 1 .. n - m + 1 /\ m + i - 1 \in m .. n
    BY <1>2
  <2>. QED
    BY <1>2, <2>1
<1>. QED
  BY <1>2, <1>3, SeqEqual

\* k pages of one sequence, and the rest of another.
LEMMA WalkStitches ==
    ASSUME NEW S, NEW a \in Seq(S), NEW b \in Seq(S), NEW k \in Nat, NEW limit \in Nat \ {0},
           \/ a = b
           \/ k * limit <= Len(a) /\ k * limit <= Len(b)
    PROVE  Walk(a, k, b, Len(b), limit) =
               [j \in 1 .. Len(b) |-> IF j <= k * limit THEN a[j] ELSE b[j]]
<1>. DEFINE n == Len(b)
            c == [j \in 1 .. n |-> IF j <= k * limit THEN a[j] ELSE b[j]]
<1>1. /\ n \in Nat /\ Len(a) \in Nat /\ k * limit \in Nat
      /\ \A j \in 1 .. n : b[j] \in S
      /\ \A j \in 1 .. Len(a) : a[j] \in S
  BY LenProperties, ElementOfSeq
<1>2. \A j \in 1 .. n : c[j] = (IF j <= k * limit THEN a[j] ELSE b[j]) /\ c[j] \in S
  BY <1>1
<1>3. c \in Seq(S) /\ Len(c) = n
  <2>1. c \in [1 .. n -> S]
    BY <1>2
  <2>. HIDE DEF c, n
  <2>2. c \in Seq(S)
    BY <1>1, <2>1, SeqDef
  <2>. QED
    BY <1>1, <2>1, <2>2, LenProperties
<1>4. \/ a = b
      \/ k * limit <= Len(a) /\ k * limit <= n
  OBVIOUS
<1>. HIDE DEF c, n
<1>5. ASSUME NEW i \in 1 .. TotalPages(n, limit)
      PROVE  PageOf(IF i <= k THEN a ELSE b, i, limit) = PageOf(c, i, limit)
  <2>. DEFINE from == (i - 1) * limit
              to(l) == IF from + limit < l THEN from + limit ELSE l
  <2>1. from \in Nat /\ i * limit = from + limit /\ from < n
    BY <1>1, Pages
  <2>2. to(n) \in Nat /\ \A j \in from + 1 .. to(n) : j \in 1 .. n /\ j <= i * limit /\ j > from
    BY <1>1, <2>1
  <2>3. PageOf(c, i, limit) = SubSeq(c, from + 1, to(n))
    BY <1>3 DEF PageOf, Offset
  <2>4. CASE i <= k /\ a # b
    <3>1. i * limit <= k * limit
      BY <2>4
    <3>2. to(n) = from + limit /\ to(Len(a)) = from + limit
      BY <1>1, <1>4, <2>1, <2>4, <3>1
    <3>3. PageOf(a, i, limit) = SubSeq(a, from + 1, to(n))
      BY <3>2 DEF PageOf, Offset
    <3>. HIDE DEF from, to
    <3>4. \A j \in from + 1 .. to(n) : c[j] = a[j]
      <4>. TAKE j \in from + 1 .. to(n)
      <4>1. j \in 1 .. n /\ j <= i * limit
        BY <2>2
      <4>2. j <= k * limit
        BY <1>1, <2>1, <3>1, <4>1
      <4>. QED
        BY <1>2, <4>1, <4>2
    <3>5. from + 1 \in Nat /\ to(n) \in Nat
      BY <2>1, <2>2
    <3>6. SubSeq(c, from + 1, to(n)) = SubSeq(a, from + 1, to(n))
      BY <3>4, <3>5, SamePart
    <3>. QED
      BY <2>3, <2>4, <3>3, <3>6
  <2>5. CASE i > k \/ a = b
    <3>1. (IF i <= k THEN a ELSE b) = b
      BY <2>5
    <3>2. PageOf(b, i, limit) = SubSeq(b, from + 1, to(n))
      BY DEF PageOf, Offset, n
    <3>3. i > k => k * limit <= from
      BY <2>1
    <3>. HIDE DEF from, to
    <3>4. \A j \in from + 1 .. to(n) : c[j] = b[j]
      <4>. TAKE j \in from + 1 .. to(n)
      <4>1. j \in 1 .. n /\ j > from
        BY <2>2
      <4>2. i > k => ~(j <= k * limit)
        BY <1>1, <2>1, <3>3, <4>1
      <4>. QED
        BY <1>2, <2>5, <4>1, <4>2
    <3>5. from + 1 \in Nat /\ to(n) \in Nat
      BY <2>1, <2>2
    <3>6. SubSeq(c, from + 1, to(n)) = SubSeq(b, from + 1, to(n))
      BY <3>4, <3>5, SamePart
    <3>. QED
      BY <2>3, <3>1, <3>2, <3>6
  <2>. QED
    BY <1>1, <2>4, <2>5
<1>6. Walk(a, k, b, Len(c), limit) = c
  BY <1>3, <1>5, WalkTakesPages
<1>. QED
  BY <1>3, <1>6 DEF c, n
-----------------------------------------------------------------------------
(* The rows of the catalogue, in the order of a column.                      *)

RowsTyped == courses \in [Slugs -> CourseRow \cup {None}]
Ordering(sort) == {pair \in Present \X Present : Precedes(sort, pair[1], pair[2])}

PresentIsOrdered ==
    /\ IsFiniteSet(Present)
    /\ \A sort \in Sorts :
        /\ Unambiguous(sort) => Antisymmetric(Present, Ordering(sort))
        /\ \A o \in Ordered(sort) :
               /\ Enumerates(Present, Ordering(sort), o)
               /\ o \in Seq(Present) /\ Len(o) = Cardinality(Present)

LEMMA OrderOfRows == RowsTyped => PresentIsOrdered
<1>. SUFFICES ASSUME RowsTyped PROVE PresentIsOrdered
  OBVIOUS
<1>1. IsFiniteSet(Present) /\ Present \subseteq Slugs
  <2>1. IsFiniteSet(Slugs)
    BY PricesAssumption, FS_Singleton, FS_Union DEF Slugs
  <2>. QED
    BY <2>1, FS_Subset DEF Present
<1>2. ASSUME NEW sort \in Sorts, NEW s \in Present PROVE Precedes(sort, s, s)
  <2>1. sort \in {"created_at", "price", "title", "-created_at", "-price", "-title"}
    BY PagingAssumption
  <2>2. courses[s].price \in Nat /\ courses[s].createdAt \in Nat /\ TitleRank[s] \in Nat
    BY <1>1, PagingAssumption DEF RowsTyped, Present, CourseRow
  <2>3. Key(sort)[s] \in Nat
    BY <2>1, <2>2 DEF Key
  <2>. QED
    BY <2>3 DEF Precedes
<1>3. ASSUME NEW sort \in Sorts, Unambiguous(sort)
      PROVE  Antisymmetric(Present, Ordering(sort))
  BY <1>2, <1>3 DEF Unambiguous, Antisymmetric, Ordering
<1>4. ASSUME NEW sort \in Sorts, NEW o \in Ordered(sort)
      PROVE  /\ Enumerates(Present, Ordering(sort), o)
             /\ o \in Seq(Present) /\ Len(o) = Cardinality(Present)
  <2>1. Cardinality(Present) \in Nat
    BY <1>1, FS_CardinalityType
  <2>2. o \in [1 .. Cardinality(Present) -> Present]
        /\ \A i, j \in 1 .. Cardinality(Present) : i < j => o[i] # o[j] /\ Precedes(sort, o[i], o[j])
    BY DEF Ordered
  <2>3. Enumerates(Present, Ordering(sort), o)
    BY <2>2 DEF Enumerates, Ordering
  <2>4. o \in Seq(Present)
    BY <2>1, <2>2, SeqDef
  <2>. QED
    BY <2>1, <2>2, <2>3, <2>4, LenProperties
<1>. QED
  BY <1>1, <1>3, <1>4 DEF PresentIsOrdered

\* An unambiguous order is the same for every page.
LEMMA WalkOfRows == RowsTyped => WalkIsExact
<1>. SUFFICES ASSUME RowsTyped, NEW sort \in Sorts, NEW limit \in Limits, Unambiguous(sort),
                     NEW o \in Ordered(sort), NEW again \in Ordered(sort),
                     NEW k \in 0 .. TotalPages(Len(o), limit)
              PROVE  Walk(o, k, again, Len(again), limit) = o
  BY DEF WalkIsExact
<1>1. /\ IsFiniteSet(Present) /\ Antisymmetric(Present, Ordering(sort))
      /\ Enumerates(Present, Ordering(sort), o) /\ Enumerates(Present, Ordering(sort), again)
      /\ o \in Seq(Present)
  BY OrderOfRows DEF PresentIsOrdered
<1>2. again = o
  BY <1>1, SameOrder
<1>3. k \in Nat /\ limit \in Nat \ {0}
  BY PagingAssumption
<1>4. Walk(o, k, o, Len(o), limit) = [j \in 1 .. Len(o) |-> IF j <= k * limit THEN o[j] ELSE o[j]]
  BY <1>1, <1>3, WalkStitches
<1>5. o = [j \in 1 .. Len(o) |-> o[j]]
  BY <1>1, LenProperties
<1>. QED
  BY <1>2, <1>4, <1>5

\* Courses that were added move the others back, never forward.
LEMMA RankGrows ==
    ASSUME RowsTyped, RowsTyped', \A s \in Present : courses'[s] = courses[s],
           NEW sort \in Sorts, NEW s \in Present
    PROVE  /\ Present \subseteq Present'
           /\ Cardinality(Upto(Present, Ordering(sort), s))
                  <= Cardinality(Upto(Present, Ordering(sort), s)')
<1>1. Present \subseteq Present'
  BY DEF Present
<1>2. \A t \in Present : Key(sort)'[t] = Key(sort)[t]
  <2>. TAKE t \in Present
  <2>1. t \in Present' /\ courses'[t] = courses[t]
    BY <1>1
  <2>2. sort \in {"created_at", "price", "title", "-created_at", "-price", "-title"}
    BY PagingAssumption
  <2>. QED
    BY <2>1, <2>2 DEF Key
<1>3. \A t \in Present : Precedes(sort, t, s) => Precedes(sort, t, s)'
  BY <1>2 DEF Precedes
<1>4. Upto(Present, Ordering(sort), s) \subseteq Upto(Present, Ordering(sort), s)'
  BY <1>1, <1>3 DEF Upto, Ordering
<1>5. IsFiniteSet(Upto(Present, Ordering(sort), s)')
  <2>1. RowsTyped' => PresentIsOrdered'
    BY OrderOfRows, PTL
  <2>2. IsFiniteSet(Present')
    BY <2>1 DEF PresentIsOrdered
  <2>3. Upto(Present, Ordering(sort), s)' \subseteq Present'
    BY DEF Upto
  <2>. QED
    BY <2>2, <2>3, FS_Subset
<1>. QED
  BY <1>1, <1>4, <1>5, FS_Subset

\* A course has its place among the first pages, that were taken before, or its
\* new place among the others.
LEMMA WalkOfGrowingRows ==
    ASSUME RowsTyped, RowsTyped', \A s \in Present : courses'[s] = courses[s],
           NEW sort \in Sorts, NEW limit \in Limits, Unambiguous(sort), Unambiguous(sort)',
           NEW o \in Ordered(sort), NEW after \in Ordered(sort)',
           NEW k \in 1 .. TotalPages(Len(o), limit) - 1
    PROVE  Present \subseteq Rows(Walk(o, k, after, Len(after), limit))
<1>1. /\ IsFiniteSet(Present) /\ Antisymmetric(Present, Ordering(sort))
      /\ Enumerates(Present, Ordering(sort), o)
      /\ o \in Seq(Present) /\ Len(o) = Cardinality(Present)
  BY OrderOfRows DEF PresentIsOrdered
<1>2. /\ IsFiniteSet(Present') /\ Antisymmetric(Present', Ordering(sort)')
      /\ Enumerates(Present', Ordering(sort)', after)
      /\ after \in Seq(Present') /\ Len(after) = Cardinality(Present')
  <2>1. RowsTyped' => PresentIsOrdered'
    BY OrderOfRows, PTL
  <2>. QED
    BY <2>1 DEF PresentIsOrdered
<1>3. o \in Seq(Present')
  <2>1. Present \subseteq Present'
    BY DEF Present
  <2>. QED
    BY <1>1, <2>1, SeqMonotonic
<1>4. k \in Nat /\ limit \in Nat \ {0} /\ k * limit \in Nat
      /\ Len(o) \in Nat /\ Len(after) \in Nat
  BY <1>1, <1>2, PagingAssumption, LenProperties
<1>5. k * limit <= Len(o)
  <2>1. TotalPages(Len(o), limit) \in Nat
    BY <1>4, Pages
  <2>2. k + 1 \in 1 .. TotalPages(Len(o), limit) /\ (k + 1) - 1 = k
    BY <2>1
  <2>3. ((k + 1) - 1) * limit < Len(o)
    BY <1>4, <2>2, Pages
  <2>. QED
    BY <1>4, <2>2, <2>3
<1>6. Len(o) <= Len(after)
  BY <1>1, <1>2, FS_Subset DEF Present
<1>. DEFINE walk == [j \in 1 .. Len(after) |-> IF j <= k * limit THEN o[j] ELSE after[j]]
<1>7. Walk(o, k, after, Len(after), limit) = walk
  <2>1. k * limit <= Len(after)
    BY <1>4, <1>5, <1>6
  <2>. QED
    BY <1>2, <1>3, <1>4, <1>5, <2>1, WalkStitches
<1>8. ASSUME NEW s \in Present PROVE s \in Rows(walk)
  <2>. DEFINE i == Cardinality(Upto(Present, Ordering(sort), s))
              j == Cardinality(Upto(Present', Ordering(sort)', s))
  <2>1. i <= j /\ s \in Present'
    BY RankGrows
  <2>2. i \in 1 .. Len(o) /\ o[i] = s
    BY <1>1, Ranks
  <2>3. j \in 1 .. Len(after) /\ after[j] = s
    BY <1>2, <2>1, Ranks
  <2>. HIDE DEF i, j
  <2>4. i \in 1 .. Len(after) /\ DOMAIN walk = 1 .. Len(after)
    BY <1>4, <1>6, <2>2
  <2>5. CASE i <= k * limit
    BY <2>2, <2>4, <2>5 DEF Rows
  <2>6. CASE ~(i <= k * limit)
    <3>1. ~(j <= k * limit)
      BY <1>4, <2>1, <2>2, <2>3, <2>6
    <3>. QED
      BY <2>3, <3>1 DEF Rows
  <2>. QED
    BY <2>5, <2>6
<1>. QED
  BY <1>7, <1>8

\* A client that walks through the pages of a catalogue that stays gets each
\* course once and stops after the last, in every unambiguous order, whatever
\* the number of courses and the size of the pages.
THEOREM WalksAreExact == Spec => []WalkIsExact
<1>1. IInv => WalkIsExact
  BY WalkOfRows DEF IInv, TypeInv, RowsTyped
<1>. QED
  BY <1>1, Inductive, PTL

\* Courses that are added between two pages hide none from the client.
THEOREM GrowthIsHarmless == Spec => GrowthSkipsNothing
<1>1. ASSUME IInv, IInv', \A s \in Present : courses'[s] = courses[s]
      PROVE  \A sort \in Sorts, limit \in Limits :
                 Unambiguous(sort) /\ Unambiguous(sort)' =>
                     \A o \in Ordered(sort), after \in Ordered(sort)' :
                         \A k \in 1 .. TotalPages(Len(o), limit) - 1 :
                             Present \subseteq Rows(Walk(o, k, after, Len(after), limit))
  <2>1. RowsTyped /\ RowsTyped'
    BY <1>1 DEF IInv, TypeInv, RowsTyped
  <2>. QED
    BY <1>1, <2>1, WalkOfGrowingRows
<1>2. IInv /\ IInv' =>
        [Present' # Present /\ (\A s \in Present : courses'[s] = courses[s]) =>
            \A sort \in Sorts, limit \in Limits :
                Unambiguous(sort) /\ Unambiguous(sort)' =>
                    \A o \in Ordered(sort), after \in Ordered(sort)' :
                        \A k \in 1 .. TotalPages(Len(o), limit) - 1 :
                            Present \subseteq Rows(Walk(o, k, after, Len(after), limit))]_vars
  BY <1>1
<1>. QED
  BY <1>2, Inductive, PTL DEF GrowthSkipsNothing
=============================================================================
