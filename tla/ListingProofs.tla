--------------------------- MODULE ListingProofs ---------------------------
(***************************************************************************)
(* Listing for any table, filter and limit: what a walk through the pages  *)
(* still shows although each page is cut by offset.                        *)
(*                                                                         *)
(* The rows a page skips and the rows up to its end are initial segments   *)
(* of the matching rows, and of two initial segments one includes the      *)
(* other.  The invariant compares the offset with how many matching rows   *)
(* lie at or before the last one that was listed: at least as many unless  *)
(* one left, at most as many unless one came in.                           *)
(***************************************************************************)
EXTENDS Listing, FiniteSetTheorems, TLAPS

Segment(A, M) == A \subseteq M /\ \A s \in A, t \in M : t < s => t \in A

LEMMA SegmentsNest ==
    ASSUME NEW M \in SUBSET Id, NEW A, NEW B, Segment(A, M), Segment(B, M),
           Cardinality(A) <= Cardinality(B)
    PROVE  A \subseteq B
<1>1. IsFiniteSet(A) /\ IsFiniteSet(B) /\ A \subseteq Id /\ B \subseteq Id
  BY IdAssumption, FS_Subset DEF Segment
<1>2. Cardinality(A) \in Nat /\ Cardinality(B) \in Nat
  BY <1>1, FS_CardinalityType
<1>3. SUFFICES ASSUME NEW a \in A, a \notin B PROVE FALSE
  OBVIOUS
<1>4. B \subseteq A
  <2> SUFFICES ASSUME NEW b \in B PROVE b \in A
    OBVIOUS
  <2>1. a \in Nat /\ b \in Nat
    BY <1>1, IdAssumption
  <2>2. ~(a < b)
    BY <1>3 DEF Segment
  <2>3. b < a
    BY <1>3, <2>1, <2>2
  <2> QED BY <2>3 DEF Segment
<1>5. Cardinality(B) <= Cardinality(A) /\ (Cardinality(A) = Cardinality(B) => A = B)
  BY <1>1, <1>4, FS_Subset
<1> QED BY <1>2, <1>3, <1>5

LEMMA FirstIsSegment ==
    ASSUME NEW M \in SUBSET Id, NEW n \in Nat, NEW A, First(A, n, M)
    PROVE  /\ Segment(A, M)
           /\ Cardinality(A) = AtMost(n, Cardinality(M))
           /\ Cardinality(A) \in Nat /\ Cardinality(M) \in Nat
           /\ IsFiniteSet(A) /\ IsFiniteSet(M)
<1>1. IsFiniteSet(M) /\ IsFiniteSet(A)
  BY IdAssumption, FS_Subset DEF First
<1>2. Segment(A, M) /\ Cardinality(A) = AtMost(n, Cardinality(M))
  BY DEF First, Segment
<1> QED BY <1>1, <1>2, FS_CardinalityType

-----------------------------------------------------------------------------
\* The matching rows at or before the last one that was listed.
PassedOf(M, cursor) == {t \in M : t <= cursor}
Passed == PassedOf(Matching(walk.query), watch.cursor)

Started == walk.step \in {"count", "page", "routes"}
Whole == \/ walk.step \in {"count", "page"}
         \/ walk.step = "routes" /\ Cardinality(walk.page) = limit
Over_ == \/ walk.step = "done"
         \/ walk.step = "routes" /\ Cardinality(walk.page) < limit

Fresh == walk.step = "idle" =>
            /\ walk.offset = 0 /\ watch.cursor = 0
            /\ walk.listed = {} /\ walk.page = {} /\ ~walk.repeated

Stayed == Started => watch.stayed \subseteq Matching(walk.query)

NotBehind == ~watch.left =>
    /\ Started => \A s \in watch.stayed \ walk.listed : watch.cursor < s
    /\ Whole => walk.offset <= Cardinality(Passed)
    /\ Over_ => watch.stayed \subseteq walk.listed

NotAhead == ~watch.came =>
    /\ Started => Cardinality(Passed) <= walk.offset
    /\ Started => \A s \in walk.listed : s <= watch.cursor
    /\ ~walk.repeated

Counted == walk.step = "page" /\ ~watch.touched =>
    walk.total = Cardinality(Matching(walk.query))

ListInv == ListTypeOK /\ Fresh /\ Stayed /\ NotBehind /\ NotAhead /\ Counted
-----------------------------------------------------------------------------
LEMMA MatchingFinite ==
    ASSUME NEW table, NEW q
    PROVE  /\ MatchingOf(table, q) \in SUBSET Id
           /\ IsFiniteSet(MatchingOf(table, q))
           /\ Cardinality(MatchingOf(table, q)) \in Nat
<1>1. MatchingOf(table, q) \in SUBSET Id
  BY DEF MatchingOf
<1> QED BY <1>1, IdAssumption, FS_Subset, FS_CardinalityType

LEMMA PassedFinite ==
    ASSUME NEW M \in SUBSET Id, NEW cursor
    PROVE  /\ IsFiniteSet(PassedOf(M, cursor)) /\ PassedOf(M, cursor) \in SUBSET Id
           /\ Cardinality(PassedOf(M, cursor)) \in Nat
<1>1. PassedOf(M, cursor) \in SUBSET Id
  BY DEF PassedOf
<1> QED BY <1>1, IdAssumption, FS_Subset, FS_CardinalityType

LEMMA ListInitially == ListInit => ListInv
<1> SUFFICES ASSUME ListInit PROVE ListInv
  OBVIOUS
<1>1. /\ walk.step = "idle" /\ walk.offset = 0 /\ walk.page = {}
      /\ walk.listed = {} /\ walk.repeated = FALSE /\ walk \in Walk
  <2>1. walk \in [step: {"idle"}, query: Query, offset: {0}, total: {0},
                  page: {{}}, listed: {{}}, repeated: {FALSE}]
    BY DEF ListInit
  <2>2. /\ walk.step = "idle" /\ walk.offset = 0 /\ walk.page = {}
        /\ walk.listed = {} /\ walk.repeated = FALSE
    BY <2>1
  <2>3. {{}} \subseteq SUBSET Id /\ {0} \subseteq Nat /\ {FALSE} \subseteq BOOLEAN
    OBVIOUS
  <2>4. walk \in Walk
    BY <2>1, <2>3 DEF Walk
  <2> QED BY <2>2, <2>4
<1>2. /\ watch \in Watch /\ watch.cursor = 0
  BY DEF ListInit, Watch
<1>3. Cardinality(walk.page) <= limit
  BY <1>1, FS_EmptySet, LimitAssumption
<1>4. rows \in [Id -> Row \cup {NULL, GONE}] /\ endpoint \in Endpoint
  BY DEF ListInit
<1>5. ListTypeOK
  BY <1>1, <1>2, <1>3, <1>4 DEF ListTypeOK
<1> QED
  BY <1>1, <1>2, <1>5 DEF ListInv, Fresh, Stayed, NotBehind, NotAhead, Counted,
     Started, Whole, Over_

\* The request starts the walk before the first row.
LEMMA RequestKeeps ==
    ASSUME ListInv, Request(walk.query)
    PROVE  ListInv'
<1>1. walk \in Walk /\ watch \in Watch /\ walk.query \in Query
  BY DEF ListInv, ListTypeOK, Walk
<1>2. /\ walk.step = "idle" /\ walk.offset = 0 /\ watch.cursor = 0
      /\ walk.listed = {} /\ walk.page = {} /\ ~walk.repeated
  BY DEF Request, ListInv, Fresh
<1>3. PICK step \in {"refused", "count"} :
         walk' = [walk EXCEPT !.step = step, !.query = walk.query]
  BY DEF Request
<1>4. /\ walk' \in Walk /\ walk'.step = step /\ walk'.query = walk.query
      /\ walk'.offset = 0 /\ walk'.listed = {} /\ walk'.page = {}
      /\ walk'.repeated = walk.repeated
  BY <1>1, <1>2, <1>3 DEF Walk
<1>5. PICK M : M = Matching(walk.query)
  OBVIOUS
<1>6. M \in SUBSET Id
  BY <1>5, MatchingFinite DEF Matching
<1>7. /\ watch' \in Watch /\ watch'.stayed = M /\ watch'.cursor = 0
  BY <1>1, <1>2, <1>5, <1>6 DEF Request, Watch
<1>8. rows' = rows /\ endpoint' = endpoint
  BY DEF Request
<1>9. Matching(walk.query)' = M
  BY <1>4, <1>5, <1>8 DEF Matching, MatchingOf, Matches, effective_min, effective_max
<1>10. Passed' = {}
  <2>1. \A t \in M : ~(t <= 0)
    BY <1>6, IdAssumption
  <2> QED BY <1>7, <1>9, <2>1 DEF Passed, PassedOf
<1>11. ListTypeOK'
  BY <1>2, <1>4, <1>7, <1>8 DEF ListInv, ListTypeOK
<1>12. Cardinality(Passed') = 0
  BY <1>10, FS_EmptySet
<1>13. \A s \in M : 0 < s
  BY <1>6, IdAssumption
<1>14. Fresh' /\ Stayed' /\ Counted'
  BY <1>4, <1>7, <1>9 DEF Fresh, Stayed, Counted
<1>15. NotBehind' /\ NotAhead'
  BY <1>2, <1>4, <1>7, <1>12, <1>13 DEF NotBehind, NotAhead, Over_
<1> QED BY <1>11, <1>14, <1>15 DEF ListInv

\* What each part of the invariant reads.
LEMMA SameMatching ==
    ASSUME rows' = rows, walk'.query = walk.query
    PROVE  Matching(walk.query)' = Matching(walk.query)
BY DEF Matching, MatchingOf, Matches, effective_min, effective_max

LEMMA CountKeeps ==
    ASSUME ListInv, Count
    PROVE  ListInv'
<1>1. /\ walk \in Walk /\ watch \in Watch /\ walk.step = "count"
      /\ rows' = rows /\ endpoint' = endpoint
  BY DEF ListInv, ListTypeOK, Count
<1>2. PICK n \in Nat : n = Cardinality(Matching(walk.query))
  BY MatchingFinite DEF Matching
<1>3. /\ walk' \in Walk /\ walk'.step = "page" /\ walk'.query = walk.query
      /\ walk'.offset = walk.offset /\ walk'.listed = walk.listed
      /\ walk'.page = walk.page /\ walk'.repeated = walk.repeated
      /\ walk'.total = n
  BY <1>1, <1>2 DEF Count, Walk
<1>4. /\ watch' \in Watch /\ watch'.stayed = watch.stayed
      /\ watch'.cursor = watch.cursor /\ watch'.left = watch.left
      /\ watch'.came = watch.came
  BY <1>1 DEF Count, Watch
<1>5. Matching(walk.query)' = Matching(walk.query)
  BY <1>1, <1>3, SameMatching
<1>6. Passed' = Passed
  BY <1>4, <1>5 DEF Passed, PassedOf
<1>7. ListTypeOK'
  BY <1>1, <1>3, <1>4 DEF ListInv, ListTypeOK
<1>8. Stayed' /\ Fresh' /\ Counted'
  BY <1>1, <1>2, <1>3, <1>4, <1>5 DEF ListInv, Stayed, Started, Fresh, Counted
<1>9. NotBehind' /\ NotAhead'
  BY <1>1, <1>3, <1>4, <1>6 DEF ListInv, NotBehind, NotAhead, Started, Whole, Over_
<1> QED BY <1>7, <1>8, <1>9 DEF ListInv

LEMMA RoutesKeeps ==
    ASSUME ListInv, Routes
    PROVE  ListInv'
<1>1. /\ walk \in Walk /\ walk.step = "routes" /\ UNCHANGED <<endpoint, rows, watch>>
  BY DEF ListInv, ListTypeOK, Routes
<1>2. PICK step : /\ walk' = [walk EXCEPT !.step = step]
                  /\ \/ step = "internal_error"
                     \/ step = "done" /\ Cardinality(walk.page) < limit
                     \/ step = "count" /\ ~(Cardinality(walk.page) < limit)
  BY DEF Routes, AfterPage
<1>3. /\ walk' \in Walk /\ walk'.step = step /\ walk'.query = walk.query
      /\ walk'.offset = walk.offset /\ walk'.listed = walk.listed
      /\ walk'.page = walk.page /\ walk'.repeated = walk.repeated
  BY <1>1, <1>2 DEF Walk
<1>4. Matching(walk.query)' = Matching(walk.query)
  BY <1>1, <1>3, SameMatching
<1>5. Passed' = Passed
  BY <1>1, <1>4 DEF Passed, PassedOf
<1>6. ListTypeOK'
  BY <1>1, <1>3 DEF ListInv, ListTypeOK
<1>7. Stayed' /\ Fresh' /\ Counted'
  BY <1>1, <1>2, <1>3, <1>4 DEF ListInv, Stayed, Started, Fresh, Counted
<1>8. step = "count" => Cardinality(walk.page) = limit
  <2>1. Cardinality(walk.page) \in Nat
    BY <1>1, IdAssumption, FS_Subset, FS_CardinalityType DEF Walk
  <2> QED BY <1>2, <2>1, LimitAssumption DEF ListInv, ListTypeOK
<1>9. NotBehind'
  BY <1>1, <1>2, <1>3, <1>5, <1>8 DEF ListInv, NotBehind, Started, Whole, Over_
<1>10. NotAhead'
  BY <1>1, <1>2, <1>3, <1>5 DEF ListInv, NotAhead, Started
<1> QED BY <1>6, <1>7, <1>9, <1>10 DEF ListInv

\* How the page statement cuts the matching rows M, with the last row it lists.
Cut(M, skipped, upto, last) ==
    /\ First(skipped, walk.offset, M) /\ First(upto, walk.offset + limit, M)
    /\ last \in Id \cup {watch.cursor} /\ Last(last, upto \ skipped)

\* How long the page is, and that what it skips and lists are initial segments.
LEMMA CutSegments ==
    ASSUME ListInv, NEW M, M = Matching(walk.query),
           NEW skipped, NEW upto, NEW last, Cut(M, skipped, upto, last),
           NEW page, page = upto \ skipped
    PROVE  /\ Segment(skipped, M) /\ Segment(upto, M) /\ skipped \subseteq upto
           /\ Cardinality(skipped) = AtMost(walk.offset, Cardinality(M))
           /\ Cardinality(upto) = AtMost(walk.offset + limit, Cardinality(M))
           /\ Cardinality(page) \in 0 .. limit
           /\ Cardinality(page) = limit => Cardinality(upto) = walk.offset + limit
           /\ Cardinality(page) < limit => upto = M
           /\ Cardinality(page) = IF Cardinality(M) <= walk.offset THEN 0
                                  ELSE AtMost(limit, Cardinality(M) - walk.offset)
           /\ \A p \in page, t \in skipped : t < p
<1>1. /\ walk.offset \in Nat /\ limit \in Nat \ {0}
      /\ M \in SUBSET Id /\ IsFiniteSet(M) /\ Cardinality(M) \in Nat
  BY LimitAssumption, MatchingFinite DEF ListInv, ListTypeOK, Walk, Matching
<1>2. PICK n \in Nat : n = walk.offset + limit
  BY <1>1
<1>3. First(skipped, walk.offset, M) /\ First(upto, n, M)
  BY <1>2 DEF Cut
<1>4. PICK k \in Nat : k = walk.offset
  BY <1>1
<1>5. /\ Segment(skipped, M) /\ Cardinality(skipped) = AtMost(k, Cardinality(M))
      /\ Cardinality(skipped) \in Nat /\ IsFiniteSet(skipped)
  <2>1. First(skipped, k, M)
    BY <1>3, <1>4
  <2> QED BY <1>1, <2>1, FirstIsSegment
<1>6. /\ Segment(upto, M) /\ Cardinality(upto) = AtMost(n, Cardinality(M))
      /\ Cardinality(upto) \in Nat /\ IsFiniteSet(upto)
  BY <1>1, <1>3, FirstIsSegment
<1>7. skipped \subseteq upto
  <2>1. Cardinality(skipped) <= Cardinality(upto)
    BY <1>1, <1>2, <1>4, <1>5, <1>6 DEF AtMost
  <2> QED BY <1>1, <1>5, <1>6, <2>1, SegmentsNest
<1>8. Cardinality(page) = Cardinality(upto) - Cardinality(skipped)
  <2>1. Cardinality(upto \ skipped) = Cardinality(upto) - Cardinality(upto \cap skipped)
    BY <1>5, <1>6, FS_Difference
  <2>2. upto \cap skipped = skipped
    BY <1>7
  <2> QED BY <2>1, <2>2
<1>9. /\ Cardinality(page) \in 0 .. limit
      /\ Cardinality(page) = limit => Cardinality(upto) = n
      /\ Cardinality(page) < limit => Cardinality(upto) = Cardinality(M)
      /\ Cardinality(page) = IF Cardinality(M) <= k THEN 0
                             ELSE AtMost(limit, Cardinality(M) - k)
  BY <1>1, <1>2, <1>4, <1>5, <1>6, <1>8 DEF AtMost
<1>10. Cardinality(page) < limit => upto = M
  <2>1. upto \in SUBSET M
    BY <1>6 DEF Segment
  <2> QED BY <1>1, <1>9, <2>1, FS_Subset
<1>11. ASSUME NEW p \in page, NEW t \in skipped PROVE t < p
  <2>1. p \in M /\ t \in M /\ p \in Nat /\ t \in Nat
    BY <1>1, <1>5, <1>6, IdAssumption DEF Segment
  <2>2. ~(p < t) /\ p # t
    BY <1>5, <2>1 DEF Segment
  <2> QED BY <2>1, <2>2
<1> QED BY <1>2, <1>4, <1>5, <1>6, <1>7, <1>9, <1>10, <1>11

\* Where the cursor gets to: everything that was skipped or listed is passed.
LEMMA CutFacts ==
    ASSUME ListInv, walk.step = "page", NEW M, M = Matching(walk.query),
           NEW skipped, NEW upto, NEW last, Cut(M, skipped, upto, last),
           NEW page, page = upto \ skipped
    PROVE  /\ page \in SUBSET Id /\ page \subseteq M /\ last \in Nat
           /\ Cardinality(page) \in 0 .. limit
           /\ Cardinality(page) = limit =>
                 walk.offset + limit <= Cardinality(PassedOf(M, last))
           /\ ~watch.came =>
                 /\ Cardinality(PassedOf(M, last)) <= walk.offset + limit
                 /\ page \cap walk.listed = {}
                 /\ \A s \in walk.listed \cup page : s <= last
           /\ ~watch.left =>
                 /\ \A s \in watch.stayed \ (walk.listed \cup page) : last < s
                 /\ Cardinality(page) < limit =>
                       watch.stayed \subseteq walk.listed \cup page
<1> DEFINE m == walk.offset
           B == PassedOf(M, watch.cursor)
           C == PassedOf(M, last)
<1>1. /\ walk \in Walk /\ watch \in Watch /\ m \in Nat /\ watch.cursor \in Nat
      /\ walk.listed \subseteq Id /\ limit \in Nat \ {0}
  BY LimitAssumption DEF ListInv, ListTypeOK, Walk, Watch
<1>2. M \in SUBSET Id /\ IsFiniteSet(M) /\ Cardinality(M) \in Nat
  BY MatchingFinite DEF Matching
<1>3. /\ Segment(skipped, M) /\ Segment(upto, M) /\ skipped \subseteq upto
      /\ Cardinality(skipped) = AtMost(m, Cardinality(M))
      /\ Cardinality(upto) = AtMost(m + limit, Cardinality(M))
      /\ Cardinality(page) \in 0 .. limit
      /\ Cardinality(page) = limit => Cardinality(upto) = m + limit
      /\ Cardinality(page) < limit => upto = M
      /\ \A p \in page, t \in skipped : t < p
  BY CutSegments
<1>4. page \in SUBSET Id /\ page \subseteq M
  BY <1>2, <1>3 DEF Segment
<1>5. last \in Nat
  BY <1>1, IdAssumption DEF Cut
<1>6. IsFiniteSet(B) /\ IsFiniteSet(C) /\ Cardinality(B) \in Nat /\ Cardinality(C) \in Nat
      /\ Segment(B, M) /\ Segment(C, M)
  <2>1. /\ IsFiniteSet(B) /\ IsFiniteSet(C)
        /\ Cardinality(B) \in Nat /\ Cardinality(C) \in Nat
    BY <1>2, PassedFinite
  <2>2. \A c \in Nat : Segment(PassedOf(M, c), M)
    <3> SUFFICES ASSUME NEW c \in Nat, NEW s \in PassedOf(M, c), NEW t \in M, t < s
                 PROVE  t \in PassedOf(M, c)
      BY DEF Segment, PassedOf
    <3>1. s \in Nat /\ t \in Nat /\ s <= c
      BY <1>2, IdAssumption DEF PassedOf
    <3> QED BY <3>1 DEF PassedOf
  <2> QED BY <1>1, <1>5, <2>1, <2>2
<1>7. /\ page = {} => last = watch.cursor
      /\ page # {} => last \in page /\ \A t \in page : t <= last
  BY DEF Cut, Last
<1>8. page # {} => upto = C
  <2> SUFFICES ASSUME page # {} PROVE upto = C
    OBVIOUS
  <2>1. last \in page /\ last \in upto
    BY <1>7
  <2>2. ASSUME NEW t \in upto PROVE t \in C
    <3>1. t \in M /\ t \in Nat
      BY <1>2, <1>3, IdAssumption DEF Segment
    <3>2. CASE t \in skipped
      <4>1. t < last
        BY <1>3, <2>1, <3>2
      <4> QED BY <1>5, <3>1, <4>1 DEF PassedOf
    <3>3. CASE t \notin skipped
      BY <1>7, <2>1, <3>1, <3>3 DEF PassedOf
    <3> QED BY <3>2, <3>3
  <2>3. ASSUME NEW t \in C PROVE t \in upto
    <3>1. t \in M /\ t <= last /\ t \in Nat
      BY <1>2, IdAssumption DEF PassedOf
    <3>2. t < last \/ t = last
      BY <1>5, <3>1
    <3> QED BY <1>3, <2>1, <3>1, <3>2 DEF Segment
  <2> QED BY <2>2, <2>3
<1> HIDE DEF B, C
<1>9. Cardinality(page) = limit => m + limit <= Cardinality(C)
  <2> SUFFICES ASSUME Cardinality(page) = limit PROVE m + limit <= Cardinality(C)
    OBVIOUS
  <2>1. page # {}
    BY <1>1, FS_EmptySet
  <2> QED BY <1>1, <1>3, <1>8, <2>1
<1>10. ASSUME ~watch.came
       PROVE  /\ Cardinality(C) <= m + limit
              /\ page \cap walk.listed = {}
              /\ \A s \in walk.listed \cup page : s <= last
  <2>1. Cardinality(B) <= m /\ \A s \in walk.listed : s <= watch.cursor
    BY <1>10 DEF ListInv, NotAhead, Started, Passed, B
  <2>2. B \subseteq skipped
    <3>1. Cardinality(B) <= Cardinality(M)
      BY <1>2, <1>6, FS_Subset DEF Segment
    <3>2. Cardinality(B) <= Cardinality(skipped)
      BY <1>1, <1>2, <1>3, <1>6, <2>1, <3>1 DEF AtMost
    <3> QED BY <1>2, <1>3, <1>6, <3>2, SegmentsNest
  <2>3. ASSUME NEW p \in page PROVE watch.cursor < p
    <3>1. p \in Nat /\ p \in M /\ p \notin B
      BY <1>2, <1>4, <2>2, IdAssumption
    <3> QED BY <1>1, <3>1 DEF B, PassedOf
  <2>4. page \cap walk.listed = {}
    <3> SUFFICES ASSUME NEW p \in page, p \in walk.listed PROVE FALSE
      OBVIOUS
    <3>1. p \in Nat /\ watch.cursor < p /\ p <= watch.cursor
      BY <1>4, <2>1, <2>3, IdAssumption
    <3> QED BY <1>1, <3>1
  <2>5. CASE page = {}
    <3>1. C = B /\ last = watch.cursor
      BY <1>7, <2>5 DEF B, C
    <3> QED BY <1>1, <1>6, <2>1, <2>4, <2>5, <3>1
  <2>6. CASE page # {}
    <3>1. Cardinality(C) <= m + limit
      BY <1>1, <1>2, <1>3, <1>8, <2>6 DEF AtMost
    <3>2. watch.cursor < last /\ \A t \in page : t <= last
      BY <1>7, <2>3, <2>6
    <3>3. \A s \in walk.listed : s <= last
      <4> SUFFICES ASSUME NEW s \in walk.listed PROVE s <= last
        OBVIOUS
      <4>1. s \in Nat /\ s <= watch.cursor
        BY <1>1, <2>1, IdAssumption
      <4> QED BY <1>1, <1>5, <3>2, <4>1
    <3> QED BY <2>4, <3>1, <3>2, <3>3
  <2> QED BY <2>5, <2>6
<1>11. ASSUME ~watch.left
       PROVE  /\ \A s \in watch.stayed \ (walk.listed \cup page) : last < s
              /\ Cardinality(page) < limit =>
                    watch.stayed \subseteq walk.listed \cup page
  <2>1. /\ m <= Cardinality(B) /\ watch.stayed \subseteq M
        /\ \A s \in watch.stayed \ walk.listed : watch.cursor < s
    BY <1>11 DEF ListInv, NotBehind, Stayed, Started, Whole, Passed, B
  <2>2. skipped \subseteq B
    <3>1. Cardinality(skipped) <= Cardinality(B) /\ Cardinality(skipped) \in Nat
      BY <1>1, <1>2, <1>3, <1>6, <2>1 DEF AtMost
    <3> QED BY <1>2, <1>3, <1>6, <3>1, SegmentsNest
  <2>3. ASSUME NEW s \in watch.stayed \ (walk.listed \cup page) PROVE s \notin upto
    <3>1. s \in Nat /\ s \in M /\ watch.cursor < s
      BY <1>2, <2>1, IdAssumption
    <3>2. s \notin B
      BY <1>1, <3>1 DEF B, PassedOf
    <3> QED BY <2>2, <3>2
  <2>4. ASSUME NEW s \in watch.stayed \ (walk.listed \cup page) PROVE last < s
    <3>1. s \in Nat /\ s \in M /\ watch.cursor < s
      BY <1>2, <2>1, IdAssumption
    <3>2. CASE page = {}
      BY <1>7, <3>1, <3>2
    <3>3. CASE page # {}
      <4>1. s \notin C
        BY <1>8, <2>3, <3>3
      <4> QED BY <1>5, <3>1, <4>1 DEF C, PassedOf
    <3> QED BY <3>2, <3>3
  <2>5. Cardinality(page) < limit => watch.stayed \subseteq walk.listed \cup page
    BY <1>3, <2>1, <2>3
  <2> QED BY <2>4, <2>5
<1> QED BY <1>3, <1>4, <1>5, <1>9, <1>10, <1>11 DEF C

\* What the page statement leaves behind, field by field.
PageMoves(M, skipped, upto, last, step) ==
    /\ Cut(M, skipped, upto, last)
    /\ walk' \in Walk /\ watch' \in Watch
    /\ walk'.step = step /\ walk'.query = walk.query /\ walk'.total = walk.total
    /\ walk'.offset = walk.offset + limit /\ walk'.page = upto \ skipped
    /\ walk'.listed = walk.listed \cup (upto \ skipped)
    /\ walk'.repeated = (walk.repeated \/ (upto \ skipped) \cap walk.listed # {})
    /\ watch'.stayed = watch.stayed /\ watch'.cursor = last
    /\ watch'.left = watch.left /\ watch'.came = watch.came
    /\ rows' = rows /\ endpoint' = endpoint

LEMMA PageSplit ==
    ASSUME ListInv, Page, NEW M, M = Matching(walk.query)
    PROVE  \E skipped, upto, last, step :
             /\ PageMoves(M, skipped, upto, last, step)
             /\ \/ step \in {"routes", "internal_error"}
                \/ step = "done" /\ Cardinality(upto \ skipped) < limit
                \/ step = "count" /\ ~(Cardinality(upto \ skipped) < limit)
<1>1. /\ walk \in Walk /\ watch \in Watch /\ walk.offset \in Nat /\ limit \in Nat
      /\ walk.listed \in SUBSET Id /\ M \in SUBSET Id /\ watch.cursor \in Nat
  BY MatchingFinite, LimitAssumption DEF ListInv, ListTypeOK, Walk, Watch, Matching
<1>2. PICK skipped \in SUBSET M, upto \in SUBSET M, last \in Id \cup {watch.cursor} :
        /\ First(skipped, walk.offset, M) /\ First(upto, walk.offset + limit, M)
        /\ Last(last, upto \ skipped)
        /\ walk' = [walk EXCEPT
              !.step = IF endpoint = "shipments" THEN "routes"
                       ELSE AfterPage(upto \ skipped),
              !.offset = @ + limit,
              !.page = upto \ skipped,
              !.listed = @ \cup (upto \ skipped),
              !.repeated = @ \/ (upto \ skipped) \cap walk.listed # {}]
        /\ watch' = [watch EXCEPT !.cursor = last]
        /\ UNCHANGED <<endpoint, rows>>
  BY DEF Page, Skipped, Limited
<1>3. Cut(M, skipped, upto, last)
  BY <1>2 DEF Cut
<1>4. PICK page : page = upto \ skipped
  OBVIOUS
<1>5. PICK step : /\ step = IF endpoint = "shipments" THEN "routes"
                            ELSE AfterPage(upto \ skipped)
  OBVIOUS
<1>6. /\ \/ step \in {"routes", "internal_error"}
         \/ step = "done" /\ Cardinality(page) < limit
         \/ step = "count" /\ ~(Cardinality(page) < limit)
      /\ step \in {"routes", "internal_error", "done", "count"}
  BY <1>4, <1>5 DEF AfterPage
<1>7. PICK again \in BOOLEAN : again = (walk.repeated \/ page \cap walk.listed # {})
  OBVIOUS
<1>8. PICK offset \in Nat : offset = walk.offset + limit
  BY <1>1
<1>9. PICK listed \in SUBSET Id : listed = walk.listed \cup page
  BY <1>1, <1>2, <1>4
<1>10. page \in SUBSET Id
  BY <1>1, <1>2, <1>4
<1>11. walk' = [walk EXCEPT !.step = step, !.offset = offset, !.page = page,
                            !.listed = listed, !.repeated = again]
  BY <1>2, <1>4, <1>5, <1>7, <1>8, <1>9, Zenon
<1>12. /\ walk'.step = step /\ walk'.offset = offset /\ walk'.page = page
       /\ walk'.listed = listed /\ walk'.repeated = again
       /\ walk'.query = walk.query /\ walk'.total = walk.total
       /\ walk' \in Walk
  BY <1>1, <1>6, <1>10, <1>11 DEF Walk
<1>13. /\ watch' \in Watch /\ watch'.cursor = last /\ watch'.stayed = watch.stayed
       /\ watch'.left = watch.left /\ watch'.came = watch.came
  BY <1>1, <1>2, IdAssumption DEF Watch
<1>14. PageMoves(M, skipped, upto, last, step)
  BY <1>2, <1>3, <1>4, <1>7, <1>8, <1>9, <1>12, <1>13 DEF PageMoves
<1> QED BY <1>4, <1>6, <1>14

LEMMA PageKeeps ==
    ASSUME ListInv, Page
    PROVE  ListInv'
<1>1. PICK M : M = Matching(walk.query)
  OBVIOUS
<1>2. PICK skipped, upto, last, step :
        /\ PageMoves(M, skipped, upto, last, step)
        /\ \/ step \in {"routes", "internal_error"}
           \/ step = "done" /\ Cardinality(upto \ skipped) < limit
           \/ step = "count" /\ ~(Cardinality(upto \ skipped) < limit)
  BY <1>1, PageSplit
<1>3. PICK page : page = upto \ skipped
  OBVIOUS
<1>4. /\ walk' \in Walk /\ watch' \in Watch /\ rows' = rows /\ endpoint' = endpoint
      /\ walk'.step = step /\ walk'.query = walk.query
      /\ walk'.offset = walk.offset + limit /\ walk'.page = page
      /\ walk'.listed = walk.listed \cup page
      /\ walk'.repeated = (walk.repeated \/ page \cap walk.listed # {})
      /\ watch'.stayed = watch.stayed /\ watch'.cursor = last
      /\ watch'.left = watch.left /\ watch'.came = watch.came
      /\ Cut(M, skipped, upto, last)
  BY <1>2, <1>3 DEF PageMoves
<1>5. walk.step = "page"
  BY DEF Page
<1>6. /\ page \in SUBSET Id /\ page \subseteq M /\ last \in Nat
      /\ Cardinality(page) \in 0 .. limit
      /\ Cardinality(page) = limit =>
            walk.offset + limit <= Cardinality(PassedOf(M, last))
      /\ ~watch.came =>
            /\ Cardinality(PassedOf(M, last)) <= walk.offset + limit
            /\ page \cap walk.listed = {}
            /\ \A s \in walk.listed \cup page : s <= last
      /\ ~watch.left =>
            /\ \A s \in watch.stayed \ (walk.listed \cup page) : last < s
            /\ Cardinality(page) < limit =>
                  watch.stayed \subseteq walk.listed \cup page
  <2>1. Cut(M, skipped, upto, last)
    BY <1>4
  <2> QED BY <1>1, <1>3, <1>5, <2>1, CutFacts
<1>7. Matching(walk.query)' = M
  BY <1>1, <1>4, SameMatching
<1>8. Passed' = PassedOf(M, last)
  BY <1>4, <1>7 DEF Passed, PassedOf
<1>9. /\ step # "page" /\ step # "idle" /\ step # "refused"
      /\ step = "done" => Cardinality(page) < limit
      /\ step = "count" => Cardinality(page) = limit
  <2>1. step = "count" => ~(Cardinality(page) < limit)
    BY <1>2, <1>3
  <2>2. step = "count" => Cardinality(page) = limit
    BY <1>6, <2>1, LimitAssumption
  <2> QED BY <1>2, <1>3, <2>2
<1>10. ListTypeOK'
  <2>1. Cardinality(page) <= limit
    BY <1>6, LimitAssumption
  <2> QED BY <1>4, <2>1 DEF ListInv, ListTypeOK
<1>11. Fresh' /\ Counted'
  BY <1>4, <1>9 DEF Fresh, Counted
<1>12. Stayed'
  <2>1. watch.stayed \subseteq M
    BY <1>1, <1>5 DEF ListInv, Stayed, Started
  <2> QED BY <1>4, <1>7, <2>1 DEF Stayed
<1>13. NotBehind'
  <2>1. Whole' => Cardinality(page) = limit
    BY <1>4, <1>9 DEF Whole
  <2>2. Over_' => Cardinality(page) < limit
    BY <1>4, <1>9 DEF Over_
  <2>3. ASSUME ~watch'.left
        PROVE  /\ \A s \in watch'.stayed \ walk'.listed : watch'.cursor < s
               /\ Whole' => walk'.offset <= Cardinality(Passed')
               /\ Over_' => watch'.stayed \subseteq walk'.listed
    <3>1. \A s \in watch'.stayed \ walk'.listed : watch'.cursor < s
      BY <1>4, <1>6, <2>3
    <3>2. Whole' => walk'.offset <= Cardinality(Passed')
      BY <1>4, <1>6, <1>8, <2>1
    <3>3. Over_' => watch'.stayed \subseteq walk'.listed
      BY <1>4, <1>6, <2>2, <2>3
    <3> QED BY <3>1, <3>2, <3>3
  <2> QED BY <2>3 DEF NotBehind
<1>14. NotAhead'
  <2>1. ASSUME ~watch'.came
        PROVE  /\ Cardinality(Passed') <= walk'.offset
               /\ \A s \in walk'.listed : s <= watch'.cursor
               /\ ~walk'.repeated
    <3>1. ~watch.came /\ ~walk.repeated
      BY <1>4, <2>1 DEF ListInv, NotAhead
    <3> QED BY <1>4, <1>6, <1>8, <3>1
  <2> QED BY <2>1 DEF NotAhead
<1> QED BY <1>10, <1>11, <1>12, <1>13, <1>14 DEF ListInv
-----------------------------------------------------------------------------
\* What a write of row s leaves behind, M and N being the matching rows before
\* and after it.
WriteMoves(s, M, N) ==
    /\ walk' = walk /\ endpoint' = endpoint
    /\ rows' \in [Id -> Row \cup {NULL, GONE}] /\ watch' \in Watch
    /\ watch'.stayed = watch.stayed \cap N /\ watch'.cursor = watch.cursor
    /\ watch'.left = (watch.left \/ (s <= watch.cursor /\ s \in M \ N))
    /\ watch'.came = (watch.came \/ (s <= watch.cursor /\ s \in N \ M))
    /\ watch'.touched = (watch.touched \/ M # N)

LEMMA WriteSplit ==
    ASSUME ListInv, NEW s \in Id, NEW row \in Row \cup {NULL, GONE}, Write(s, row),
           NEW M, M = Matching(walk.query), NEW N, N = Matching(walk.query)'
    PROVE  /\ WriteMoves(s, M, N)
           /\ M \in SUBSET Id /\ N \in SUBSET Id
           /\ \A t \in Id \ {s} : t \in M <=> t \in N
<1>1. /\ watch \in Watch /\ rows \in [Id -> Row \cup {NULL, GONE}]
      /\ watch.stayed \in SUBSET Id /\ watch.left \in BOOLEAN
      /\ watch.came \in BOOLEAN /\ watch.touched \in BOOLEAN
  BY DEF ListInv, ListTypeOK, Watch
<1>2. PICK table : table = [rows EXCEPT ![s] = row]
  OBVIOUS
<1>3. PICK q : q = walk.query
  OBVIOUS
<1>4. M = MatchingOf(rows, q) /\ rows' = table /\ walk' = walk /\ endpoint' = endpoint
  BY <1>2, <1>3 DEF Write, Matching
<1>5. N = MatchingOf(table, q)
  BY <1>3, <1>4 DEF Matching, MatchingOf, Matches, effective_min, effective_max
<1>6. watch' = [watch EXCEPT
        !.stayed = @ \cap N,
        !.left = @ \/ (s <= watch.cursor /\ s \in M \ N),
        !.came = @ \/ (s <= watch.cursor /\ s \in N \ M),
        !.touched = @ \/ M # N]
  <2>1. MatchingOf([rows EXCEPT ![s] = row], walk.query) = N
    BY <1>2, <1>3, <1>5
  <2> QED BY <2>1, Zenon DEF Write
<1>7. PICK left \in BOOLEAN : left = (watch.left \/ (s <= watch.cursor /\ s \in M \ N))
  OBVIOUS
<1>8. PICK came \in BOOLEAN : came = (watch.came \/ (s <= watch.cursor /\ s \in N \ M))
  OBVIOUS
<1>9. PICK touched \in BOOLEAN : touched = (watch.touched \/ M # N)
  OBVIOUS
<1>10. PICK stayed \in SUBSET Id : stayed = watch.stayed \cap N
  BY <1>1
<1>11. watch' = [watch EXCEPT !.stayed = stayed, !.left = left, !.came = came,
                              !.touched = touched]
  BY <1>6, <1>7, <1>8, <1>9, <1>10, Zenon
<1>12. /\ watch' \in Watch /\ watch'.cursor = watch.cursor
       /\ watch'.stayed = stayed /\ watch'.left = left /\ watch'.came = came
       /\ watch'.touched = touched
  BY <1>1, <1>11 DEF Watch
<1>13. table \in [Id -> Row \cup {NULL, GONE}]
       /\ \A t \in Id \ {s} : table[t] = rows[t]
  BY <1>1, <1>2
<1>14. WriteMoves(s, M, N)
  BY <1>4, <1>7, <1>8, <1>9, <1>10, <1>12, <1>13 DEF WriteMoves
<1>15. M \in SUBSET Id /\ N \in SUBSET Id
  BY <1>4, <1>5, MatchingFinite
<1>16. \A t \in Id \ {s} : t \in M <=> t \in N
  BY <1>4, <1>5, <1>13 DEF MatchingOf
<1> QED BY <1>14, <1>15, <1>16

\* Only a write that watch.left or watch.came records moves rows to the other
\* side of the cursor.
LEMMA WriteKeeps ==
    ASSUME ListInv, NEW s \in Id, NEW row \in Row \cup {NULL, GONE}, Write(s, row)
    PROVE  ListInv'
<1>1. PICK M : M = Matching(walk.query)
  OBVIOUS
<1>2. PICK N : N = Matching(walk.query)'
  OBVIOUS
<1>3. /\ WriteMoves(s, M, N) /\ M \in SUBSET Id /\ N \in SUBSET Id
      /\ \A t \in Id \ {s} : t \in M <=> t \in N
  BY <1>1, <1>2, WriteSplit
<1>4. PICK B : B = PassedOf(M, watch.cursor)
  OBVIOUS
<1>5. PICK C : C = PassedOf(N, watch.cursor)
  OBVIOUS
<1>6. Passed = B /\ Passed' = C
  BY <1>1, <1>2, <1>3, <1>4, <1>5 DEF Passed, PassedOf, WriteMoves
<1>7. /\ IsFiniteSet(B) /\ Cardinality(B) \in Nat
      /\ IsFiniteSet(C) /\ Cardinality(C) \in Nat
  BY <1>3, <1>4, <1>5, PassedFinite
<1>8. ListTypeOK'
  BY <1>3 DEF WriteMoves, ListInv, ListTypeOK
<1>9. Fresh' /\ Stayed'
  BY <1>2, <1>3 DEF WriteMoves, ListInv, Fresh, Stayed, Started
<1>10. Counted'
  BY <1>1, <1>2, <1>3 DEF WriteMoves, ListInv, Counted
<1>11. NotBehind'
  <2>1. ASSUME ~watch'.left PROVE Cardinality(B) <= Cardinality(C)
    <3>1. B \subseteq C
      BY <1>3, <1>4, <1>5, <2>1 DEF WriteMoves, PassedOf
    <3> QED BY <1>7, <3>1, FS_Subset
  <2>2. walk.offset \in Nat
    BY DEF ListInv, ListTypeOK, Walk
  <2>3. ASSUME ~watch'.left, Whole PROVE walk.offset <= Cardinality(C)
    <3>1. ~watch.left
      BY <1>3, <2>3 DEF WriteMoves
    <3>2. walk.offset <= Cardinality(B)
      BY <1>6, <2>3, <3>1 DEF ListInv, NotBehind
    <3> QED BY <1>7, <2>1, <2>2, <2>3, <3>2
  <2> QED BY <1>3, <1>6, <2>3 DEF WriteMoves, ListInv, NotBehind, Started, Whole, Over_
<1>12. NotAhead'
  <2>1. ASSUME ~watch'.came PROVE Cardinality(C) <= Cardinality(B)
    <3>1. C \subseteq B
      BY <1>3, <1>4, <1>5, <2>1 DEF WriteMoves, PassedOf
    <3> QED BY <1>7, <3>1, FS_Subset
  <2>2. walk.offset \in Nat
    BY DEF ListInv, ListTypeOK, Walk
  <2>3. ASSUME ~watch'.came, Started PROVE Cardinality(C) <= walk.offset
    <3>1. ~watch.came
      BY <1>3, <2>3 DEF WriteMoves
    <3>2. Cardinality(B) <= walk.offset
      BY <1>6, <2>3, <3>1 DEF ListInv, NotAhead
    <3> QED BY <1>7, <2>1, <2>2, <2>3, <3>2
  <2> QED BY <1>3, <1>6, <2>3 DEF WriteMoves, ListInv, NotAhead, Started
<1> QED BY <1>8, <1>9, <1>10, <1>11, <1>12 DEF ListInv
-----------------------------------------------------------------------------
LEMMA ListKeeps == ListInv /\ [ListNext]_listVars => ListInv'
<1> SUFFICES ASSUME ListInv, [ListNext]_listVars PROVE ListInv'
  OBVIOUS
<1>1. CASE Request(walk.query)
  BY <1>1, RequestKeeps
<1>2. CASE Count
  BY <1>2, CountKeeps
<1>3. CASE Page
  BY <1>3, PageKeeps
<1>4. CASE Routes
  BY <1>4, RoutesKeeps
<1>5. ASSUME NEW s \in Id, Insert(s) \/ Change(s) \/ Delete(s) PROVE ListInv'
  <2>1. PICK row \in Row \cup {NULL, GONE} : Write(s, row)
    BY <1>5, RowAssumption DEF Insert, Change, Delete
  <2> QED BY <2>1, WriteKeeps
<1>6. CASE UNCHANGED listVars
  BY <1>6 DEF listVars, ListInv, ListTypeOK, Fresh, Stayed, NotBehind, NotAhead,
     Counted, Started, Whole, Over_, Passed, PassedOf, Matching, MatchingOf, Matches,
     effective_min, effective_max
<1> QED BY <1>1, <1>2, <1>3, <1>4, <1>5, <1>6 DEF ListNext, list

\* Only the page statement leaves the step it is in.
LEMMA PageIsListed ==
    ASSUME [ListNext]_listVars, walk.step = "page", walk'.step # "page"
    PROVE  Page
BY DEF ListNext, list, listVars, Request, Count, Routes, Insert, Change, Delete, Write

LEMMA ListInductive == ListSpec => []ListInv
BY ListInitially, ListKeeps, PTL DEF ListSpec

\* The table, the client and the history keep their shapes, and no page is longer
\* than the limit, for any table and any limit.
THEOREM ListingTypeCorrect == ListSpec => []ListTypeOK
<1>1. ListInv => ListTypeOK
  BY DEF ListInv
<1> QED BY <1>1, ListInductive, PTL

\* A walk to the last page shows every row that matched all along, unless one
\* that was passed left the filter or the table.
THEOREM WalkCorrect == ListSpec => []WalkComplete
<1>1. ListInv => WalkComplete
  BY DEF ListInv, NotBehind, Over_, WalkComplete
<1> QED BY <1>1, ListInductive, PTL

\* No row is shown twice unless one came in behind the cursor.
THEOREM RepeatsCorrect == ListSpec => []NoRepeats
<1>1. ListInv => NoRepeats
  BY DEF ListInv, NotAhead, NoRepeats
<1> QED BY <1>1, ListInductive, PTL

\* What a page shows is the caller's, in any table and for any filter.
THEOREM FiltersCorrect == ListSpec => FiltersHonoured
<1> DEFINE Honoured ==
      walk.step = "page" /\ walk'.step # "page" => \A s \in walk'.page :
          LET q == walk.query IN
          /\ rows[s].owner = q.user
          /\ q.status \in {NULL, rows[s].status}
          /\ q.preferred_min = NULL /\ q.applied_min # NULL
                => rows[s].size >= q.applied_min
          /\ q.preferred_max = NULL /\ q.applied_max # NULL
                => rows[s].size <= q.applied_max
<1>1. ListInv /\ [ListNext]_listVars => Honoured
  <2> SUFFICES ASSUME ListInv, [ListNext]_listVars,
                      walk.step = "page", walk'.step # "page", NEW s \in walk'.page
               PROVE  LET q == walk.query IN
                      /\ rows[s].owner = q.user
                      /\ q.status \in {NULL, rows[s].status}
                      /\ q.preferred_min = NULL /\ q.applied_min # NULL
                            => rows[s].size >= q.applied_min
                      /\ q.preferred_max = NULL /\ q.applied_max # NULL
                            => rows[s].size <= q.applied_max
    OBVIOUS
  <2>1. Page
    BY PageIsListed
  <2>2. s \in Matching(walk.query)
    <3>1. PICK M : M = Matching(walk.query)
      OBVIOUS
    <3>2. PICK skipped, upto, last, step : PageMoves(M, skipped, upto, last, step)
      BY <2>1, <3>1, PageSplit
    <3>3. Cut(M, skipped, upto, last) /\ walk'.page = upto \ skipped
      BY <3>2 DEF PageMoves
    <3>4. Segment(upto, M)
      BY <3>1, <3>3, CutSegments
    <3> QED BY <3>1, <3>3, <3>4 DEF Segment
  <2>3. Matches(rows[s], walk.query)
    BY <2>2 DEF Matching, MatchingOf
  <2> QED BY <2>3 DEF Matches, effective_min, effective_max
<1> QED BY <1>1, ListInductive, PTL DEF ListSpec, FiltersHonoured

\* When nothing was written between its two statements, a page is as long as its
\* total says, for any limit.
THEOREM TotalCorrect == ListSpec => PageAgreesWithTotal
<1> DEFINE Agrees ==
      walk.step = "page" /\ walk'.step # "page" /\ ~watch.touched =>
          Cardinality(walk'.page) =
              IF walk.total <= walk.offset THEN 0
              ELSE AtMost(limit, walk.total - walk.offset)
<1>1. ListInv /\ [ListNext]_listVars => Agrees
  <2> SUFFICES ASSUME ListInv, [ListNext]_listVars,
                      walk.step = "page", walk'.step # "page", ~watch.touched
               PROVE  Cardinality(walk'.page) =
                          IF walk.total <= walk.offset THEN 0
                          ELSE AtMost(limit, walk.total - walk.offset)
    OBVIOUS
  <2>1. Page
    BY PageIsListed
  <2>2. PICK M : M = Matching(walk.query)
    OBVIOUS
  <2>3. PICK skipped, upto, last, step : PageMoves(M, skipped, upto, last, step)
    BY <2>1, <2>2, PageSplit
  <2>4. Cut(M, skipped, upto, last) /\ walk'.page = upto \ skipped
    BY <2>3 DEF PageMoves
  <2>5. Cardinality(walk'.page) = IF Cardinality(M) <= walk.offset THEN 0
                                  ELSE AtMost(limit, Cardinality(M) - walk.offset)
    BY <2>2, <2>4, CutSegments
  <2>6. walk.total = Cardinality(M)
    BY <2>2 DEF ListInv, Counted
  <2> QED BY <2>5, <2>6
<1> QED BY <1>1, ListInductive, PTL DEF ListSpec, PageAgreesWithTotal
=============================================================================
