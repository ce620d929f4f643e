------------------------------ MODULE Storefront ------------------------------
(***************************************************************************)
(* Deployments and administrators write the catalogue that visitors page   *)
(* through.                                                                *)
(***************************************************************************)
EXTENDS Deployment, CatalogPaging

vars == <<tables, deployment>>

Spec == InitDeployment /\ [][DeploymentNext]_vars

\* The platform starts containers and stops the superseded ones; containers
\* and the console go on with what they began.
Fairness ==
    /\ \A p \in Containers : WF_vars(ProcessStep(p)) /\ WF_vars(Stop(p))
    /\ WF_vars(MigrationStep(Console))

FairSpec == Spec /\ Fairness
-----------------------------------------------------------------------------
(* Properties *)

\* Every variable holds rows, processes and sessions of its type.
TypeOK ==
    /\ version \in Versions /\ admin \in BOOLEAN
    /\ courses \in [Slugs -> CourseRow \cup {None}]
    /\ \A p \in Processes :
          /\ processes[p].next \in 1 .. Len(PriceList) + 1
          /\ processes[p].rows \subseteq Listed \cap Present
          /\ processes[p].missing \subseteq CatalogSlugs
    /\ operations \in 0 .. MaxOperations /\ failures \in 0 .. MaxFailures
    /\ asked \cup misplaced \subseteq Present /\ hindered \in BOOLEAN

\* The courses that revision 0002 reprices have the prices of the revision the
\* database is at, although containers migrate at once, crash and seed: unless
\* an administrator set the price since, or a container inserted the course
\* while a migration that had passed it was under way, or after the migration
\* to the revision of the other release.
PricesFollowVersion ==
    \A s \in Listed \cap Present :
        \/ courses[s].price = PriceAt(version)[s]
        \/ s \in asked \cup misplaced

\* bootstrap.py: admin edits are never overwritten.  The price of a course
\* that exists changes only by an administrator's update or together with the
\* revision; boots, and migrations that lose to another, change none.
OnlyMigrationsReprice ==
    [][\A s \in Present :
          courses'[s].price # courses[s].price =>
              version' # version \/ (editor # None /\ editor.slug = s)]_vars

\* Every container ends up serving the release that is deployed for good,
\* after lost races for the migration, unknown revisions and crashes.
RolloutCompletes ==
    \A p \in Containers :
        <>[](deployed = "new") => <>[](At(p, "serving") /\ processes[p].release = "new")

\* The catalogue gets there although containers crash, and boots that lose the
\* race for the administrator or for a course give up: the boot that won goes on,
\* unless something else hinders one. What is given up then waits for the next
\* start of a container, which nothing brings about: bootstrap_data swallows the
\* failure.
CatalogueArrives ==
    <>[](deployed = "new" /\ ~hindered) => <>(CatalogSlugs \subseteq Present)

\* A client that walks through the pages of an unambiguous order, while the
\* catalogue does not change, gets each course once and stops after the last.
WalkIsExact ==
    \A sort \in Sorts, limit \in Limits :
        Unambiguous(sort) =>
            \A o, again \in Ordered(sort) : \A k \in 0 .. TotalPages(Len(o), limit) :
                Walk(o, k, again, Len(again), limit) = o

\* When courses are added after the k-th page of such a walk, the client may
\* get a course twice, but every course that was there at least once.
GrowthSkipsNothing ==
    [][Present' # Present /\ (\A s \in Present : courses'[s] = courses[s]) =>
          \A sort \in Sorts, limit \in Limits :
              Unambiguous(sort) /\ Unambiguous(sort)' =>
                  \A o \in Ordered(sort), after \in Ordered(sort)' :
                      \A k \in 1 .. TotalPages(Len(o), limit) - 1 :
                          Present \subseteq Rows(Walk(o, k, after, Len(after), limit))]_vars

\* Not kept: the same in every order. All courses that one boot seeded are
\* equal in created_at, the default order, and may change places.
EveryWalkIsExact ==
    \A sort \in Sorts, limit \in Limits :
        \A o, again \in Ordered(sort) : \A k \in 0 .. TotalPages(Len(o), limit) :
            Present \subseteq Rows(Walk(o, k, again, Len(again), limit))

\* Not kept: growth between the two statements of a request, after the count.
GrowthAfterCountSkipsNothing ==
    [][Present' # Present =>
          \A sort \in Sorts, limit \in Limits :
              Unambiguous(sort) /\ Unambiguous(sort)' =>
                  \A o \in Ordered(sort), after \in Ordered(sort)' :
                      \A k \in 1 .. TotalPages(Len(o), limit) - 1 :
                          Present \subseteq Rows(Walk(o, k, after, Len(o), limit))]_vars

\* Not kept: the first boots bring the catalogue. When seed.py creates the
\* administrator between their lookup and their insert, or seed_catalog fails in
\* all of them, none is left to.
FirstBootsBringTheCatalogue ==
    <>[](deployed = "new") => <>(CatalogSlugs \subseteq Present)

\* Not kept: no course is left at a price of another revision. A container of
\* the old release that seeds after the migration leaves one.
NothingMisplaced == misplaced = {}
=============================================================================
