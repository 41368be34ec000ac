------------------------------ MODULE Listing ------------------------------
(***************************************************************************)
(* GET /shipments, /drivers and /vehicles: filters, the total and the      *)
(* page, and a client that walks through the pages while other requests    *)
(* insert, change and delete rows of the table it lists.                   *)
(*                                                                         *)
(* A list request is two statements, the count and the page, and for       *)
(* shipments a third that loads the routes of the page.                    *)
(***************************************************************************)
EXTENDS Integers, FiniteSets

CONSTANTS
    User, Status,
    Id,             \* ids of the listed table, in the order of ORDER BY id
    Size,           \* weights or capacities
    Rows,           \* what the rows are made of, a subset of Row
    Query,          \* the filters that clients use
    limit,
    NULL,           \* a filter that is not given; an id never handed out
    GONE            \* an id whose row was deleted

ASSUME IdAssumption == Id \subseteq Nat \ {0} /\ IsFiniteSet(Id)
ASSUME LimitAssumption == limit \in Nat \ {0}

Endpoint == {"shipments", "drivers", "vehicles"}

\* valid: what is stored passes the response schema (a PATCH of a driver or a
\* vehicle may store an empty key, which the schema of the answer refuses).
Row == [owner: User, status: Status, size: Size, valid: BOOLEAN]

\* The range has two names at each end.  A bound is applied when the `applied'
\* name is given, with the value of the `preferred' one if that is given too:
\* min_weight_kg and weight_min, capacity_min and min_capacity_kg.
FilterOf(u, status, applied_min, applied_max, preferred_min, preferred_max) ==
    [user |-> u, status |-> status,
     applied_min |-> applied_min, applied_max |-> applied_max,
     preferred_min |-> preferred_min, preferred_max |-> preferred_max]

ASSUME QueryAssumption ==
    Query \subseteq
        [user: User, status: Status \cup {NULL},
         applied_min: Size \cup {NULL}, applied_max: Size \cup {NULL},
         preferred_min: Size \cup {NULL}, preferred_max: Size \cup {NULL}]
ASSUME SizeAssumption == Size \subseteq Int /\ NULL \notin Size \cup Status
ASSUME RowAssumption == Rows \subseteq Row /\ NULL # GONE /\ {NULL, GONE} \cap Row = {}

VARIABLES
    endpoint,       \* which table this is about
    rows,           \* the table
    walk,           \* the client that walks through the pages
    watch           \* what happened to the table during the walk

listVars == <<endpoint, rows, walk, watch>>
-----------------------------------------------------------------------------
(* Filters                                                                  *)

effective_min(q) == IF q.preferred_min # NULL THEN q.preferred_min ELSE q.applied_min
effective_max(q) == IF q.preferred_max # NULL THEN q.preferred_max ELSE q.applied_max

Unbounded(q) ==
    {q.applied_min, q.applied_max, q.preferred_min, q.preferred_max} = {NULL}

Reversed(lo, hi) == lo # NULL /\ hi # NULL /\ lo > hi

\* drivers have no range; vehicles check the applied names by themselves first.
RangeError(q) ==
    \/ endpoint = "vehicles" /\ Reversed(q.applied_min, q.applied_max)
    \/ endpoint # "drivers" /\ Reversed(effective_min(q), effective_max(q))

\* Mutant: the upper bound is tested against the name that may be absent.
mutant_Matches(row, q) ==
    /\ row.owner = q.user
    /\ q.status # NULL => row.status = q.status
    /\ q.applied_min # NULL => row.size >= effective_min(q)
    /\ q.preferred_max # NULL => row.size <= effective_max(q)

Matches(row, q) ==
    /\ row.owner = q.user
    /\ q.status # NULL => row.status = q.status
    /\ q.applied_min # NULL => row.size >= effective_min(q)
    /\ q.applied_max # NULL => row.size <= effective_max(q)

Live(s) == rows[s] \notin {NULL, GONE}
MatchingOf(table, q) ==
    {s \in Id : table[s] \notin {NULL, GONE} /\ Matches(table[s], q)}
Matching(q) == MatchingOf(rows, q)
-----------------------------------------------------------------------------
(* The list request                                                         *)

AtMost(n, k) == IF n <= k THEN n ELSE k

\* Mutant: ORDER BY is missing, and any rows may come first.
mutant_First(A, n, M) ==
    A \subseteq M /\ Cardinality(A) = AtMost(n, Cardinality(M))

\* A is the first n rows of M by id.
First(A, n, M) ==
    /\ A \subseteq M
    /\ \A s \in A, t \in M : t < s => t \in A
    /\ Cardinality(A) = AtMost(n, Cardinality(M))

\* What OFFSET skips, and up to where LIMIT goes.
Skipped(A, M) == First(A, walk.offset, M)

\* Mutant: the page has no LIMIT.
mutant_Limited(A, M) == A = M

Limited(A, M) == First(A, walk.offset + limit, M)

\* The range is judged before any statement.
Request(q) ==
    /\ walk.step = "idle"
    /\ walk' = [walk EXCEPT !.step = IF RangeError(q) THEN "refused" ELSE "count",
                            !.query = q]
    /\ watch' = [watch EXCEPT !.stayed = Matching(q)]
    /\ UNCHANGED <<endpoint, rows>>

\* Mutant: the total counts the caller's rows, without the filters.
mutant_Count ==
    /\ walk.step = "count"
    /\ walk' = [walk EXCEPT !.step = "page",
                   !.total = Cardinality({s \in Id : /\ Live(s)
                                /\ rows[s].owner = walk.query.user})]
    /\ watch' = [watch EXCEPT !.touched = FALSE]
    /\ UNCHANGED <<endpoint, rows>>

Count ==
    /\ walk.step = "count"
    /\ walk' = [walk EXCEPT !.step = "page",
                            !.total = Cardinality(Matching(walk.query))]
    /\ watch' = [watch EXCEPT !.touched = FALSE]
    /\ UNCHANGED <<endpoint, rows>>

\* The client asks for the next page until one is not full.  A row that the
\* response schema refuses turns the whole answer into a 500.
AfterPage(page) ==
    IF \E s \in page : ~rows[s].valid THEN "internal_error"
    ELSE IF Cardinality(page) < limit THEN "done"
    ELSE "count"

Last(s, page) ==
    IF page = {} THEN s = watch.cursor ELSE s \in page /\ \A t \in page : t <= s

Page ==
    LET M == Matching(walk.query) IN
    /\ walk.step = "page"
    /\ \E skipped, upto \in SUBSET M :
         LET page == upto \ skipped IN
         /\ Skipped(skipped, M)
         /\ Limited(upto, M)
         /\ walk' = [walk EXCEPT
              !.step = IF endpoint = "shipments" THEN "routes" ELSE AfterPage(page),
              !.offset = @ + limit,
              !.page = page,
              !.listed = @ \cup page,
              !.repeated = @ \/ page \cap walk.listed # {}]
         /\ \E s \in Id \cup {watch.cursor} :
               Last(s, page) /\ watch' = [watch EXCEPT !.cursor = s]
    /\ UNCHANGED <<endpoint, rows>>

\* A shipment that was deleted after the page statement has no route, which the
\* response schema requires.
Routes ==
    /\ walk.step = "routes"
    /\ walk' = [walk EXCEPT !.step =
                   IF \A s \in walk.page : Live(s) THEN AfterPage(walk.page)
                                                   ELSE "internal_error"]
    /\ UNCHANGED <<endpoint, rows, watch>>
-----------------------------------------------------------------------------
(* The writers                                                              *)

\* What a write of row s does to the pages: watch.stayed are the rows that have
\* matched ever since the walk began; left and came tell whether one at or
\* before the last row that was listed went out of the filter or into it.
Write(s, row) ==
    LET before == Matching(walk.query)
        after == MatchingOf([rows EXCEPT ![s] = row], walk.query)
    IN /\ rows' = [rows EXCEPT ![s] = row]
       /\ watch' = [watch EXCEPT
            !.stayed = @ \cap after,
            !.left = @ \/ (s <= watch.cursor /\ s \in before \ after),
            !.came = @ \/ (s <= watch.cursor /\ s \in after \ before),
            !.touched = @ \/ before # after]
       /\ UNCHANGED <<endpoint, walk>>

\* Bound: what is written after the last page no longer matters.
Over == walk.step \in {"done", "refused", "internal_error"}

\* Ids are handed out in order but may be committed in another.
Insert(s) == rows[s] = NULL /\ \E row \in Rows : row.valid /\ Write(s, row)

\* PATCH keeps the owner; the weight of a shipment is in no schema but POST's.
Change(s) ==
    /\ Live(s)
    /\ \E row \in Rows :
          /\ row.owner = rows[s].owner /\ row # rows[s]
          /\ endpoint = "shipments" => row.size = rows[s].size /\ row.valid
          /\ Write(s, row)

Delete(s) == Live(s) /\ Write(s, GONE)
-----------------------------------------------------------------------------
ListInit ==
    /\ endpoint \in Endpoint
    /\ rows = [s \in Id |-> NULL]
    /\ walk \in [step: {"idle"}, query: Query, offset: {0}, total: {0},
                 page: {{}}, listed: {{}}, repeated: {FALSE}]
    /\ endpoint = "drivers" => Unbounded(walk.query)
    /\ watch = [stayed |-> {}, cursor |-> 0, left |-> FALSE, came |-> FALSE,
                touched |-> FALSE]

list == Request(walk.query) \/ Count \/ Page \/ Routes

ListNext ==
    \/ list
    \/ ~Over /\ \E s \in Id : Insert(s) \/ Change(s) \/ Delete(s)

ListSpec == ListInit /\ [][ListNext]_listVars
-----------------------------------------------------------------------------
(* Properties                                                               *)

Walk == [step: {"idle", "refused", "count", "page", "routes", "internal_error",
                "done"},
         query: Query, offset: Nat, total: Nat,
         page: SUBSET Id, listed: SUBSET Id, repeated: BOOLEAN]
Watch == [stayed: SUBSET Id, cursor: Nat, left: BOOLEAN, came: BOOLEAN,
          touched: BOOLEAN]

\* Table, client and history have their shapes, and no page exceeds the limit.
ListTypeOK ==
    /\ Cardinality(walk.page) <= limit
    /\ endpoint \in Endpoint
    /\ rows \in [Id -> Row \cup {NULL, GONE}]
    /\ walk \in Walk
    /\ watch \in Watch

\* A client that walks to the last page has been shown every row that matched
\* its filter all along, unless a row it had already passed was deleted or
\* changed out of the filter; inserts never make it miss one.
WalkComplete ==
    walk.step = "done" /\ ~watch.left => watch.stayed \subseteq walk.listed

\* No row is shown twice, unless one came in among those already passed (a PATCH
\* into the filter, or an id committed after a higher one).
NoRepeats == walk.repeated => watch.came

\* The total and the page are of two statements; with no write in between, the
\* page is as long as the total, the offset and the limit say.
PageAgreesWithTotal ==
    [][walk.step = "page" /\ walk'.step # "page" /\ ~watch.touched =>
           Cardinality(walk'.page) =
               IF walk.total <= walk.offset THEN 0
               ELSE AtMost(limit, walk.total - walk.offset)]_listVars

\* What a page shows is the caller's, and keeps to the bounds of the names that
\* the filter tests when the others are not given.
FiltersHonoured ==
    [][walk.step = "page" /\ walk'.step # "page" => \A s \in walk'.page :
          LET q == walk.query IN
          /\ rows[s].owner = q.user
          /\ q.status \in {NULL, rows[s].status}
          /\ q.preferred_min = NULL /\ q.applied_min # NULL
                => rows[s].size >= q.applied_min
          /\ q.preferred_max = NULL /\ q.applied_max # NULL
                => rows[s].size <= q.applied_max]_listVars

\* app/schemas.py:230: "a given offset/limit returns consistent results across
\* requests, even with concurrent writes".  A row that is deleted, or leaves the
\* filter, shifts the rest by one and the next page skips a row.
PagesAreConsistent == walk.step = "done" => watch.stayed \subseteq walk.listed
=============================================================================
