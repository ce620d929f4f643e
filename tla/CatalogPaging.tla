---------------------------- MODULE CatalogPaging ----------------------------
(***************************************************************************)
(* The pages of the catalogue, for visitors and for administrators.  Each  *)
(* page is a request of its own: it counts the courses, sorts them by one  *)
(* column, and cuts one page.  The database may order rows that are equal  *)
(* in that column differently each time, and rows come between requests.   *)
(* Filters, and the status that hides a course from visitors, select the   *)
(* rows alike for the count and the page: here they select all.            *)
(***************************************************************************)
EXTENDS StorefrontTables

CONSTANTS
    Sorts,    \* the orders that clients ask for; -created_at is the default
    Limits,   \* rows of a page
    TitleRank \* the alphabetical order of the titles

ASSUME PagingAssumption ==
    /\ Sorts \subseteq {"created_at", "price", "title", "-created_at", "-price", "-title"}
    /\ Limits \subseteq Nat \ {0}
    /\ TitleRank \in [Slugs -> Nat]

Key(sort) ==
    CASE sort \in {"title", "-title"}           -> TitleRank
      [] sort \in {"price", "-price"}           -> [s \in Present |-> courses[s].price]
      [] sort \in {"created_at", "-created_at"} -> [s \in Present |-> courses[s].createdAt]

Precedes(sort, s, t) ==
    IF sort \in {"title", "price", "created_at"} THEN Key(sort)[s] <= Key(sort)[t]
                                                 ELSE Key(sort)[s] >= Key(sort)[t]

\* ORDER BY: any order of the rows that the column allows.
Ordered(sort) ==
    {o \in [1 .. Cardinality(Present) -> Present] :
        \A i, j \in DOMAIN o : i < j => o[i] # o[j] /\ Precedes(sort, o[i], o[j])}

NextOffset(page, limit) == page * limit
Offset(page, limit) == (page - 1) * limit

\* OFFSET and LIMIT
PageOf(o, page, limit) ==
    SubSeq(o, Offset(page, limit) + 1,
           IF Offset(page, limit) + limit < Len(o) THEN Offset(page, limit) + limit ELSE Len(o))

FullPages(total, limit)  == total \div limit
TotalPages(total, limit) == (total + limit - 1) \div limit
-----------------------------------------------------------------------------
\* What a client gets that takes k pages of o, then the others of `after`, as
\* far as the total_pages of a catalogue of `total` courses goes.
Walk(o, k, after, total, limit) ==
    LET page(i) == PageOf(IF i <= k THEN o ELSE after, i, limit)
        upto[i \in 0 .. TotalPages(total, limit)] ==
            IF i = 0 THEN << >> ELSE upto[i - 1] \o page(i)
    IN  upto[TotalPages(total, limit)]

Unambiguous(sort) == \A s, t \in Present : Precedes(sort, s, t) /\ Precedes(sort, t, s) => s = t
Rows(walk) == {walk[i] : i \in DOMAIN walk}
=============================================================================
