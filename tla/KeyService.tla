----------------------------- MODULE KeyService -----------------------------
(***************************************************************************)
(* What API keys promise: a user has one working key at most, a request    *)
(* is accepted as the user whose working key it presents at the moment it  *)
(* is looked up, and a new key replaces the old one the moment it is       *)
(* handed out.  Hashing, comparing and the requests in flight meanwhile do *)
(* not show.                                                               *)
(***************************************************************************)
CONSTANTS Users, Keys, Slots, NULL

VARIABLES
    working,    \* the one working key of each user, or NULL
    issuedTo,   \* the user each key was handed out to, or NULL
    caller      \* who each slot's request is accepted as, on which key; or NULL

Caller == [user : Users, key : Keys \cup {NULL}]

vars == <<working, issuedTo, caller>>

Init ==
    /\ working = [u \in Users |-> NULL]
    /\ issuedTo = [k \in Keys |-> NULL]
    /\ caller = [s \in Slots |-> NULL]

(* A request presents a key: who holds it is decided at once. *)
Accept(s, u, k) ==
    /\ caller[s] = NULL
    /\ working[u] = k
    /\ caller' = [caller EXCEPT ![s] = [user |-> u, key |-> k]]
    /\ UNCHANGED <<working, issuedTo>>

(* A request presents a signed-in session, which is not a matter of keys. *)
SignedIn(s, u) ==
    /\ caller[s] = NULL
    /\ caller' = [caller EXCEPT ![s] = [user |-> u, key |-> NULL]]
    /\ UNCHANGED <<working, issuedTo>>

(* The caller is handed a key nobody had; the previous one stops working. *)
Rotate(s, k) ==
    /\ caller[s] # NULL
    /\ issuedTo[k] = NULL
    /\ issuedTo' = [issuedTo EXCEPT ![k] = caller[s].user]
    /\ working' = [working EXCEPT ![caller[s].user] = k]
    /\ caller' = [caller EXCEPT ![s] = NULL]

Revoke(s) ==
    /\ caller[s] # NULL
    /\ working' = [working EXCEPT ![caller[s].user] = NULL]
    /\ caller' = [caller EXCEPT ![s] = NULL]
    /\ UNCHANGED issuedTo

(* Requests end: answered, failed, or lost in a restart. *)
End(ss) ==
    /\ caller' = [s \in Slots |-> IF s \in ss THEN NULL ELSE caller[s]]
    /\ UNCHANGED <<working, issuedTo>>

Next ==
    \/ \E s \in Slots :
          \/ \E u \in Users : SignedIn(s, u) \/ \E k \in Keys : Accept(s, u, k)
          \/ \E k \in Keys : Rotate(s, k)
          \/ Revoke(s)
    \/ \E ss \in SUBSET Slots : End(ss)

Spec == Init /\ [][Next]_vars

=============================================================================
