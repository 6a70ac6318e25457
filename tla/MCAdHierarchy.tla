--------------------------- MODULE MCAdHierarchy ---------------------------
(***************************************************************************)
(* Small instances of AdHierarchy for TLC.                                 *)
(***************************************************************************)
EXTENDS AdHierarchy, Integers, TLC

CONSTANTS a1, a2, m1, m2, NaN

(* Each campaign in an account of its own, each account a customer. *)
AccountEach  == [m \in MetaCampaigns |-> IF m = m1 THEN a1 ELSE a2]
OwnCustomer  == [a \in Accounts |-> IF a = a1 THEN "OR-1001" ELSE "OR-1002"]

(* A status the schema has not, and one it has. *)
SeenAtMeta == {"IN_PROCESS"}
ActiveOnly == {"ACTIVE"}

Symmetry == Permutations(Requests)

(* The pages of the lists, on every small request and table: read in       *)
(* order they give the rows in order, limit at a time.                     *)
Pages == INSTANCE Pagination

ASSUME PagesInOrder ==
    \A limit \in 1 .. 4, total \in 0 .. 9 :
        /\ \A i \in 0 .. total - 1, p \in 1 .. 5 + total :
              i \in Pages!RowsOf(p, limit, total) <=> p = i \div limit + 1
        /\ \A p \in 1 .. 5 + total :
              Pages!RowsOf(p, limit, total) = {} <=> p > Pages!TotalPages(limit, total)

ASSUME ParametersRepaired ==
    \A r \in -3 .. 103 \cup {NULL, NaN} :
        /\ Pages!Answered(r, NULL) /\ Pages!Answered(NULL, r) <=> r # NaN
        /\ r # NaN => /\ Pages!PageLimit(r) = IF r = NULL THEN 20
                                             ELSE IF r < 1 THEN 1
                                             ELSE IF r > 100 THEN 100 ELSE r
                      /\ Pages!PageNumber(r) >= 1

=============================================================================
