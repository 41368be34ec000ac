----------------------------- MODULE MCListing -----------------------------
(* Listing with four ids, two accounts and pages of two.                    *)
EXTENDS Listing

CONSTANTS u1, u2, open, closed

Ids == 1 .. 4

RowOf(u, status, size, valid) ==
    [owner |-> u, status |-> status, size |-> size, valid |-> valid]

\* Rows that each filter below takes and leaves, one of another account and one
\* that no answer can carry.
SomeRows ==
    {RowOf(u1, open, 1, TRUE), RowOf(u1, closed, 2, TRUE),
     RowOf(u2, open, 1, TRUE), RowOf(u1, open, 1, FALSE)}

\* The status, the range by the applied names, and a range that is reversed in
\* one name of each kind.
Queries ==
    {FilterOf(u1, open, NULL, NULL, NULL, NULL),
     FilterOf(u1, NULL, 1, 1, NULL, NULL),
     FilterOf(u1, NULL, 2, NULL, NULL, 1)}

PreferredAlone == {FilterOf(u1, NULL, NULL, NULL, 2, NULL)}
=============================================================================
