------------------------------ MODULE MCCatalog ------------------------------
(* Catalog for TLC: "Velas" and another category of the file, and two names *)
(* of administrators, "Velas!" and "Velas vela", that read like the plain   *)
(* and the lettered slug of the first; administrators who create a course   *)
(* under a removed slug and give it a seeded one.                           *)
EXTENDS Catalog, TLC

CONSTANTS Seed, Removed, First, Second, Third, Fourth

MCStem == [n \in Names |-> CASE n = Second -> "jabones" [] n = Fourth -> "velas-vela"
                             [] OTHER -> "velas"]
MCLettered == [n \in SeedNames |-> IF n = Second THEN "jabones-jabo" ELSE "velas-vela"]
MCPosition == [n \in SeedNames |-> IF n = First THEN 1 ELSE 2]
MCDrafts == {[slug |-> Removed, status |-> "PUBLISHED", image |-> None]}

NoEdit == [slug |-> None, status |-> None, image |-> None]
MCEdits == {[NoEdit EXCEPT !.slug = Seed]}

\* For RestoredCoursesStay and ImagesSurviveBoot, which are not kept.
MCStatusEdits == {[NoEdit EXCEPT !.status = "PUBLISHED"]}
MCImageEdits  == MCEdits \cup {[NoEdit EXCEPT !.image = "admin"]}

Symmetric == Permutations(CourseIds) \cup Permutations(FreshSlugs)
             \cup Permutations(Admins) \cup Permutations(Boots)
=============================================================================
