-------------------------- MODULE PaginationProofs --------------------------
(***************************************************************************)
(* Theorems about Pagination, for every request and any number of rows.    *)
(***************************************************************************)
EXTENDS Pagination, TLAPS

(* Whatever number a client asks for, the page is one from 1 on, of 1 to   *)
(* 100 rows, and the query skips no negative number of them.  (A parameter *)
(* that is no number is refused, not repaired.)                            *)
THEOREM RequestsRepaired ==
    ASSUME NaN \notin Int, NULL # NaN,
           NEW page \in Int \cup {NULL}, NEW limit \in Int \cup {NULL}
    PROVE  /\ Answered(page, limit)
           /\ PageNumber(page) \in Int /\ PageNumber(page) >= 1
           /\ PageLimit(limit) \in 1 .. MaxLimit
           /\ Skip(PageNumber(page), PageLimit(limit)) >= 0
<1>1. PageNumber(page) \in Int /\ PageNumber(page) >= 1
  BY DEF PageNumber, MathMax
<1>2. PageLimit(limit) \in 1 .. MaxLimit
  BY DEF PageLimit, MathMax, MathMin, MaxLimit, DefaultLimit
<1>3. Answered(page, limit)
  BY <1>1, <1>2 DEF Answered
<1>4. ASSUME NEW a \in Nat, NEW b \in Nat
      PROVE  a * b >= 0
  BY <1>4
<1>5. Skip(PageNumber(page), PageLimit(limit)) >= 0
  <2>1. PageNumber(page) - 1 \in Nat /\ PageLimit(limit) \in Nat
    BY <1>1, <1>2 DEF MaxLimit
  <2> QED
    BY <1>4, <2>1 DEF Skip
<1> QED
  BY <1>1, <1>2, <1>3, <1>5

(* A later page starts no earlier than the page before it ends. *)
LEMMA PagesFollow ==
    ASSUME NEW limit \in Nat, NEW p \in Int, NEW q \in Int, p < q
    PROVE  Skip(p, limit) + limit <= Skip(q, limit)
<1>1. PICK d \in Nat : q = p + 1 + d
  <2>1. q - p - 1 \in Nat
    OBVIOUS
  <2> QED
    BY <2>1
<1>2. Skip(q, limit) = Skip(p, limit) + limit + d * limit
  BY <1>1 DEF Skip
<1>3. d * limit >= 0
  OBVIOUS
<1>4. Skip(p, limit) \in Int /\ d * limit \in Int
  BY DEF Skip
<1> QED
  BY <1>2, <1>3, <1>4

LEMMA Division ==
    ASSUME NEW n \in Nat, NEW d \in Nat, d >= 1
    PROVE  \E k \in Nat, r \in 0 .. d - 1 : k = n \div d /\ n = d * k + r
<1>1. PICK k \in Nat : k = n \div d
  OBVIOUS
<1>2. d * k <= n /\ n < d * k + d
  BY <1>1
<1>3. PICK m \in Int : m = d * k
  BY <1>1
<1>4. n - m \in 0 .. d - 1 /\ n = d * k + (n - m)
  BY <1>2, <1>3
<1> QED
  BY <1>1, <1>4

(* The pages 1 to totalPages that a client is told of cover the rows,      *)
(* every one of them exactly once, and every later page is empty.          *)
THEOREM PagesCoverOnce ==
    ASSUME NEW limit \in 1 .. MaxLimit, NEW total \in Nat, NEW i \in 0 .. total - 1
    PROVE  /\ \E p \in 1 .. TotalPages(limit, total) : i \in RowsOf(p, limit, total)
           /\ \A p, q \in Int :
                 i \in RowsOf(p, limit, total) /\ i \in RowsOf(q, limit, total) => p = q
           /\ \A p \in Int : p > TotalPages(limit, total) => RowsOf(p, limit, total) = {}
<1>0. limit \in Nat /\ limit >= 1
  BY DEF MaxLimit
<1>1. \A n \in Nat : \E k \in Nat, r \in 0 .. limit - 1 :
                        k = n \div limit /\ n = limit * k + r
  BY <1>0, Division
<1>2. PICK last \in Nat, rest \in 0 .. limit - 1 :
         TotalPages(limit, total) = last /\ total + limit - 1 = limit * last + rest
  BY <1>0, <1>1 DEF TotalPages
<1>3. total <= Skip(last, limit) + limit
  <2>1. Skip(last, limit) = limit * last - limit
    BY <1>0 DEF Skip
  <2>2. limit * last \in Int
    BY <1>0
  <2> QED
    BY <1>0, <1>2, <2>1, <2>2
<1>4. PICK k \in Nat, r \in 0 .. limit - 1 : i = limit * k + r
  <2>1. i \in Nat
    OBVIOUS
  <2> QED
    BY <1>1, <2>1
<1>5. Skip(k + 1, limit) = limit * k /\ limit * k \in Nat
  BY <1>0 DEF Skip
<1>6. i \in RowsOf(k + 1, limit, total)
  BY <1>0, <1>4, <1>5 DEF RowsOf
<1>7. k + 1 \in 1 .. last
  <2>1. CASE k + 1 > last
    <3>1. Skip(last, limit) + limit <= Skip(k + 1, limit)
      BY <1>0, <2>1, PagesFollow
    <3>2. Skip(last, limit) \in Int
      BY <1>0 DEF Skip
    <3> QED
      BY <1>0, <1>3, <1>4, <1>5, <3>1, <3>2
  <2> QED
    BY <2>1
<1>8. ASSUME NEW p \in Int, NEW q \in Int, p < q,
             i \in RowsOf(p, limit, total), i \in RowsOf(q, limit, total)
      PROVE  FALSE
  <2>1. Skip(p, limit) + limit <= Skip(q, limit)
    BY <1>0, <1>8, PagesFollow
  <2>2. Skip(p, limit) \in Int /\ Skip(q, limit) \in Int
    BY <1>0 DEF Skip
  <2> QED
    BY <1>0, <1>8, <2>1, <2>2 DEF RowsOf
<1>9. ASSUME NEW p \in Int, p > last
      PROVE  RowsOf(p, limit, total) = {}
  <2>1. Skip(last, limit) + limit <= Skip(p, limit)
    BY <1>0, <1>9, PagesFollow
  <2>2. Skip(last, limit) \in Int /\ Skip(p, limit) \in Int
    BY <1>0 DEF Skip
  <2> QED
    BY <1>0, <1>3, <2>1, <2>2 DEF RowsOf
<1> QED
  BY <1>2, <1>6, <1>7, <1>8, <1>9

(* A client reads one page after the other while new rows arrive, which    *)
(* sort first and push a row it has not seen from i to j.  It does not     *)
(* miss that row: it is on the next page or still ahead.                   *)
THEOREM NothingSlipsBy ==
    ASSUME NEW limit \in 1 .. MaxLimit, NEW page \in Int,
           NEW total \in Nat, NEW i \in Int, NEW j \in 0 .. total - 1,
           i >= Skip(page, limit), i <= j
    PROVE  j \in RowsOf(page, limit, total) \/ j >= Skip(page + 1, limit)
<1>1. Skip(page + 1, limit) = Skip(page, limit) + limit /\ Skip(page, limit) \in Int
  BY DEF Skip, MaxLimit
<1> QED
  BY <1>1 DEF RowsOf, MaxLimit

=============================================================================
