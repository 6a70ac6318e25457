----------------------------- MODULE Pagination -----------------------------
(***************************************************************************)
(* How the list endpoints cut their rows into pages.  Campaigns, ad sets,  *)
(* ads, creatives and audit entries all do it the same way: rows are       *)
(* sorted newest first, counted from 0 here, and a page is the rows from   *)
(* "skip" on, at most "limit" of them.                                     *)
(***************************************************************************)
EXTENDS Integers

CONSTANTS
    NULL,   \* a query parameter that is absent or empty
    NaN     \* what parseInt makes of one that is no number

DefaultLimit == 20

MaxLimit == 100

(* Math.max and Math.min: not a number if either argument is none. *)
MathMax(a, b) == IF NaN \in {a, b} THEN NaN ELSE IF a > b THEN a ELSE b

MathMin(a, b) == IF NaN \in {a, b} THEN NaN ELSE IF a < b THEN a ELSE b

PageNumber(requested) == MathMax(1, IF requested = NULL THEN 1 ELSE requested)

PageLimit(requested) ==
    MathMin(MaxLimit, MathMax(1, IF requested = NULL THEN DefaultLimit ELSE requested))

(* The database refuses a skip or take that is not a number. *)
Answered(page, limit) == NaN \notin {PageNumber(page), PageLimit(limit)}

Skip(page, limit) == (page - 1) * limit

(* The rows of a page, by their position among total rows. *)
RowsOf(page, limit, total) == {i \in 0 .. total - 1 : Skip(page, limit) <= i /\ i < Skip(page, limit) + limit}

(* Math.ceil(total / limit) *)
TotalPages(limit, total) == (total + limit - 1) \div limit

=============================================================================
