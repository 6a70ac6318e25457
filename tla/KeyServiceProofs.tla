-------------------------- MODULE KeyServiceProofs --------------------------
(***************************************************************************)
(* UserAccess implements KeyService, for every number of emails, keys,     *)
(* prefixes and concurrent requests: a simulation, step by step, that      *)
(* rests on the inductive invariant of UserAccessProofs.                   *)
(***************************************************************************)
EXTENDS UserAccessProofs

(* What KeyService sees of the state. *)
WorkingOf(row) == IF row # NULL THEN row.apiKey ELSE NULL

Working == [u \in Emails |-> IF Registered(u) THEN users[u].apiKey ELSE NULL]

Callers == [s \in Slots |-> CallerOf(requests[s])]

(* A step that leaves the three things it sees alone is a stutter. *)
LEMMA SeesNothing ==
    ASSUME Working' = Working, Callers' = Callers, issuedTo' = issuedTo
    PROVE  UNCHANGED K!vars
BY DEF K!vars, Working, Callers

LEMMA IdleIsNobody == CallerOf(Idle) = NULL
BY DEF CallerOf, Acting, Idle

LEMMA SameUsers ==
    ASSUME UNCHANGED users
    PROVE  Working' = Working
BY DEF Working, Registered

(* One request moves, and the caller of its slot becomes c. *)
LEMMA CallersMove ==
    ASSUME IInv, NEW s \in Slots, NEW new, Moves(s, new)
    PROVE  Callers' = [Callers EXCEPT ![s] = CallerOf(new)]
<1>1. /\ requests'[s] = new
      /\ \A t \in Slots \ {s} : requests'[t] = requests[t]
  BY DEF Moves, IInv, RequestsOK
<1>2. \A t \in Slots : CallerOf(requests'[t]) = IF t = s THEN CallerOf(new)
                                                ELSE CallerOf(requests[t])
  BY <1>1
<1>3. Callers' = [t \in Slots |-> CallerOf(requests'[t])]
  BY DEF Callers, CallerOf, Acting
<1>4. [Callers EXCEPT ![s] = CallerOf(new)] =
         [t \in Slots |-> IF t = s THEN CallerOf(new) ELSE CallerOf(requests[t])]
  BY DEF Callers
<1> QED
  BY <1>2, <1>3, <1>4

(* A request whose caller does not change, or ends, is a step of it. *)
LEMMA SameCaller ==
    ASSUME IInv, NEW s \in Slots, NEW new, Moves(s, new),
           CallerOf(new) = CallerOf(requests[s]), UNCHANGED <<users, issuedTo>>
    PROVE  UNCHANGED K!vars
<1>1. Callers' = Callers
  BY CallersMove DEF Callers
<1> QED
  BY <1>1, SameUsers, SeesNothing

LEMMA EndRefines ==
    ASSUME IInv, NEW s \in Slots, Ends(s), UNCHANGED <<users, issuedTo>>
    PROVE  K!Next
<1>1. Callers' = [t \in Slots |-> IF t \in {s} THEN NULL ELSE Callers[t]]
  <2>1. Callers' = [Callers EXCEPT ![s] = NULL]
    BY CallersMove, IdleIsNobody DEF Ends
  <2> QED
    BY <2>1 DEF Callers
<1>2. Working' = Working
  BY SameUsers
<1>3. K!End({s})
  BY <1>1, <1>2 DEF K!End, Working, Callers
<1> QED
  BY <1>3 DEF K!Next

LEMMA CrashRefines ==
    ASSUME Crash
    PROVE  K!Next
<1>1. Callers' = [t \in Slots |-> IF t \in Slots THEN NULL ELSE Callers[t]]
  <2>1. \A t \in Slots : requests'[t] = Idle
    BY DEF Crash
  <2>2. \A t \in Slots : CallerOf(requests'[t]) = NULL
    BY <2>1, IdleIsNobody
  <2>3. Callers' = [t \in Slots |-> CallerOf(requests'[t])]
    BY DEF Callers, CallerOf, Acting
  <2> QED
    BY <2>2, <2>3
<1>2. Working' = Working /\ issuedTo' = issuedTo
  BY SameUsers DEF Crash
<1>3. K!End(Slots)
  BY <1>1, <1>2 DEF K!End, Working, Callers
<1> QED
  BY <1>3 DEF K!Next

-----------------------------------------------------------------------------
(* Registration and login have no caller yet, and give nobody a key.       *)

LEMMA PublicRefines ==
    ASSUME IInv, NEW s \in Slots, PublicStep(s)
    PROVE  UNCHANGED K!vars
<1>1. ASSUME NEW u \in Emails, NEW p \in Passwords, RegisterFind(s, u, p)
      PROVE  UNCHANGED K!vars
  <2> DEFINE new == [Idle EXCEPT !.pc = "registering", !.user = u, !.given = p]
  <2>1. new.pc = "registering" /\ requests[s].pc = "idle"
    BY <1>1 DEF Idle, RegisterFind
  <2>2. CallerOf(new) = NULL /\ CallerOf(requests[s]) = NULL
    BY <2>1 DEF CallerOf, Acting
  <2>3. Moves(s, new) /\ UNCHANGED <<users, issuedTo>>
    BY <1>1 DEF RegisterFind
  <2> HIDE DEF new
  <2> QED
    BY <2>2, <2>3, SameCaller
<1>2. ASSUME NEW u \in Emails, NEW p \in Passwords, LoginFind(s, u, p)
      PROVE  UNCHANGED K!vars
  <2>0. PICK row : row = users[u]
    OBVIOUS
  <2> DEFINE new == [Idle EXCEPT !.pc = "loggingIn", !.user = u, !.given = p,
                                 !.stored = row.password]
  <2>1. new.pc = "loggingIn" /\ requests[s].pc = "idle"
    BY <1>2 DEF Idle, LoginFind
  <2>2. CallerOf(new) = NULL /\ CallerOf(requests[s]) = NULL
    BY <2>1 DEF CallerOf, Acting
  <2>3. Moves(s, new) /\ UNCHANGED <<users, issuedTo>>
    BY <1>2, <2>0 DEF LoginFind
  <2> HIDE DEF new
  <2> QED
    BY <2>2, <2>3, SameCaller
<1>3. CASE LoginCompare(s)
  <2>1. CallerOf(requests[s]) = NULL
    BY <1>3 DEF LoginCompare, CallerOf, Acting
  <2> QED
    BY <1>3, <2>1, IdleIsNobody, SameCaller DEF LoginCompare, Ends
<1>4. CASE RegisterCreate(s)
  <2>1. CallerOf(requests[s]) = NULL
    BY <1>4 DEF RegisterCreate, CallerOf, Acting
  <2>2. Callers' = Callers
    <3>1. Callers' = [Callers EXCEPT ![s] = NULL]
      BY <1>4, IdleIsNobody, CallersMove DEF RegisterCreate, Ends
    <3> QED
      BY <2>1, <3>1 DEF Callers
  <2>3. PICK row \in UserRow :
           /\ row.apiKey = NULL
           /\ users[requests[s].user] = NULL
           /\ users' = [users EXCEPT ![requests[s].user] = row]
    <3>1. requests[s].given \in Passwords
      BY <1>4 DEF RegisterCreate, IInv, RequestsOK, LocalsSet
    <3>2. [password |-> requests[s].given, apiKey |-> NULL] \in UserRow
      BY <3>1 DEF UserRow
    <3> QED
      BY <1>4, <3>2 DEF RegisterCreate, EmailFree, Registered
  <2>4. \A v \in Emails : WorkingOf(users'[v]) = WorkingOf(users[v])
    BY <2>3, RowsNotNull DEF WorkingOf, IInv, DataOK
  <2>5. Working' = Working
    BY <2>4 DEF Working, WorkingOf, Registered
  <2>6. issuedTo' = issuedTo
    BY <1>4 DEF RegisterCreate
  <2> QED
    BY <2>2, <2>5, <2>6, SeesNothing
<1> QED
  BY <1>1, <1>2, <1>3, <1>4 DEF PublicStep

-----------------------------------------------------------------------------
(* Authentication.                                                         *)

LEMMA AfterAuthCaller ==
    ASSUME NEW r \in RequestState, NEW fresh \in Keys \cup {NULL},
           r.op \in {"rotate", "revoke", "createApp"}
    PROVE  CallerOf(AfterAuth(r, fresh)) = [user |-> r.user, key |-> r.via]
<1>1. /\ AfterAuth(r, fresh).pc \in {"hashing", "revoking", "finding"}
      /\ AfterAuth(r, fresh).user = r.user /\ AfterAuth(r, fresh).via = r.via
  BY DEF AfterAuth, RequestState
<1> QED
  BY <1>1 DEF CallerOf, Acting

LEMMA BearerRefines ==
    ASSUME IInv, NEW s \in Slots, NEW u \in Emails, NEW op, NEW fresh \in Keys \cup {NULL},
           NEW app \in AppIds \cup {NULL}, NEW secret \in Secrets \cup {NULL},
           BearerAccepted(s, u, op, app, secret, fresh)
    PROVE  K!Next
<1> DEFINE r == [Idle EXCEPT !.op = op, !.user = u, !.app = app, !.secret = secret]
<1>1. op \in {"rotate", "revoke", "createApp"}
  BY DEF BearerAccepted, Asks
<1>2. r \in RequestState /\ r.op = op /\ r.user = u /\ r.via = NULL
  BY <1>1 DEF Idle, RequestState
<1>3. Moves(s, AfterAuth(r, fresh)) /\ UNCHANGED <<users, issuedTo>> /\ requests[s].pc = "idle"
  BY DEF BearerAccepted
<1> HIDE DEF r
<1>4. Callers' = [Callers EXCEPT ![s] = [user |-> u, key |-> NULL]]
  BY <1>1, <1>2, <1>3, AfterAuthCaller, CallersMove
<1>5. Callers[s] = NULL
  BY <1>3 DEF Callers, CallerOf, Acting
<1>6. K!SignedIn(s, u)
  BY <1>3, <1>4, <1>5, SameUsers DEF K!SignedIn, Callers, Working
<1> QED
  BY <1>6 DEF K!Next

LEMMA LookupRefines ==
    ASSUME IInv, NEW s \in Slots, NEW key \in Keys, NEW op,
           NEW app \in AppIds \cup {NULL}, NEW secret \in Secrets \cup {NULL},
           KeyLookup(s, key, op, app, secret)
    PROVE  K!Next \/ UNCHANGED K!vars
<1>1. PICK u \in WithPrefix(PrefixOf[key]) :
         Moves(s, [Idle EXCEPT !.pc = "comparing", !.op = op, !.user = u, !.via = key,
                               !.stored = users[u].apiKey, !.app = app, !.secret = secret])
  BY DEF KeyLookup
<1>2. PICK stored : stored = users[u].apiKey
  OBVIOUS
<1> DEFINE new == [Idle EXCEPT !.pc = "comparing", !.op = op, !.user = u, !.via = key,
                               !.stored = stored, !.app = app, !.secret = secret]
<1>3. u \in Emails /\ Registered(u)
  BY DEF WithPrefix, HasKey
<1>4. new.pc = "comparing" /\ new.user = u /\ new.via = key /\ new.stored = stored
  BY DEF Idle
<1>5. Moves(s, new) /\ UNCHANGED <<users, issuedTo>> /\ requests[s].pc = "idle"
  BY <1>1, <1>2 DEF KeyLookup
<1> HIDE DEF new
<1>6. CallerOf(requests[s]) = NULL
  BY <1>5 DEF CallerOf, Acting
<1>7. CASE stored = key
  <2>1. CallerOf(new) = [user |-> u, key |-> key]
    BY <1>4, <1>7 DEF CallerOf
  <2>2. Callers' = [Callers EXCEPT ![s] = [user |-> u, key |-> key]] /\ Callers[s] = NULL
    BY <1>5, <1>6, <2>1, CallersMove DEF Callers
  <2>3. Working[u] = key
    BY <1>2, <1>3, <1>7 DEF Working
  <2>4. K!Accept(s, u, key)
    BY <1>5, <2>2, <2>3, SameUsers DEF K!Accept, Callers, Working
  <2> QED
    BY <1>3, <2>4 DEF K!Next
<1>8. CASE stored # key
  <2>1. CallerOf(new) = NULL
    BY <1>4, <1>8 DEF CallerOf, Acting
  <2> QED
    BY <1>5, <1>6, <2>1, SameCaller
<1> QED
  BY <1>7, <1>8

LEMMA CompareRefines ==
    ASSUME IInv, NEW s \in Slots, NEW fresh \in Keys \cup {NULL}, KeyCompare(s, fresh)
    PROVE  UNCHANGED K!vars
<1>0. PICK r : r = requests[s]
  OBVIOUS
<1>1. r \in RequestState /\ LocalsSet(r) /\ r.pc = "comparing"
  BY <1>0 DEF KeyCompare, IInv, RequestsOK
<1>2. UNCHANGED <<users, issuedTo>>
  BY DEF KeyCompare
<1>3. CASE KeyMatches(r)
  <2>1. CallerOf(r) = [user |-> r.user, key |-> r.via]
    BY <1>1, <1>3 DEF CallerOf, KeyMatches
  <2>2. r.op \in {"rotate", "revoke", "createApp"}
    BY <1>1 DEF LocalsSet, Asks
  <2>3. CallerOf(AfterAuth(r, fresh)) = CallerOf(r)
    BY <1>1, <2>1, <2>2, AfterAuthCaller
  <2>4. Moves(s, AfterAuth(r, fresh))
    BY <1>0, <1>3 DEF KeyCompare
  <2> QED
    BY <1>0, <1>2, <2>3, <2>4, SameCaller
<1>4. CASE ~KeyMatches(r)
  <2>1. CallerOf(r) = NULL
    BY <1>1, <1>4 DEF CallerOf, Acting, KeyMatches
  <2>2. Moves(s, Idle)
    BY <1>0, <1>4 DEF KeyCompare, Ends
  <2> QED
    BY <1>0, <1>2, <2>1, <2>2, IdleIsNobody, SameCaller
<1> QED
  BY <1>3, <1>4

-----------------------------------------------------------------------------
(* Rotating and revoking.                                                  *)

LEMMA KeyChange ==
    ASSUME IInv, NEW u \in Emails, NEW key \in Keys \cup {NULL}, users[u] # NULL,
           users' = [users EXCEPT ![u].apiKey = key]
    PROVE  Working' = [Working EXCEPT ![u] = key]
<1>1. users[u] \in UserRow
  BY DEF IInv, DataOK
<1>2. users'[u] = [users[u] EXCEPT !.apiKey = key]
  BY DEF IInv, DataOK
<1>3. users'[u].apiKey = key /\ users'[u] \in UserRow
  BY <1>1, <1>2 DEF UserRow
<1>4. \A v \in Emails \ {u} : users'[v] = users[v]
  BY DEF IInv, DataOK
<1>5. \A v \in Emails : WorkingOf(users'[v]) = IF v = u THEN key ELSE WorkingOf(users[v])
  BY <1>3, <1>4, RowsNotNull DEF WorkingOf
<1>6. Working = [v \in Emails |-> WorkingOf(users[v])]
      /\ Working' = [v \in Emails |-> WorkingOf(users'[v])]
  BY DEF Working, WorkingOf, Registered
<1> QED
  BY <1>5, <1>6

LEMMA KeysRefine ==
    ASSUME IInv, NEW s \in Slots, RotateStore(s) \/ RevokeStore(s)
    PROVE  K!Next
<1>0. PICK u, key : u = requests[s].user /\ key = requests[s].fresh
  OBVIOUS
<1>1. /\ u \in Emails /\ users[u] # NULL
      /\ RotateStore(s) => key \in Keys /\ issuedTo[key] = NULL
  BY <1>0 DEF RotateStore, RevokeStore, IInv, RequestsOK, LocalsSet, ReliesOn, Acting
<1>2. Callers[s] = [user |-> u, key |-> requests[s].via]
  BY <1>0 DEF RotateStore, RevokeStore, Callers, CallerOf, Acting
<1>3. Callers[s] # NULL /\ Callers[s].user = u
  <2>1. requests[s].via \in Keys \cup {NULL}
    BY DEF IInv, RequestsOK, RequestState
  <2>2. [user |-> u, key |-> requests[s].via] \in Caller
    BY <1>1, <2>1 DEF Caller
  <2> QED
    BY <1>2, <2>2, AccessNullAssumption
<1>4. Callers' = [Callers EXCEPT ![s] = NULL]
  BY CallersMove, IdleIsNobody DEF RotateStore, RevokeStore, Ends
<1>5. CASE RotateStore(s)
  <2>1. users' = [users EXCEPT ![u].apiKey = key]
        /\ issuedTo' = [issuedTo EXCEPT ![key] = u]
    BY <1>0, <1>5 DEF RotateStore, KeyAfter
  <2>2. Working' = [Working EXCEPT ![u] = key]
    BY <1>1, <1>5, <2>1, KeyChange
  <2>3. K!Rotate(s, key)
    BY <1>1, <1>3, <1>4, <1>5, <2>1, <2>2 DEF K!Rotate, Callers, Working
  <2> QED
    BY <1>1, <1>5, <2>3 DEF K!Next
<1>6. CASE RevokeStore(s)
  <2>1. users' = [users EXCEPT ![u].apiKey = NULL] /\ issuedTo' = issuedTo
    BY <1>0, <1>6 DEF RevokeStore
  <2>2. Working' = [Working EXCEPT ![u] = NULL]
    BY <1>1, <2>1, KeyChange
  <2>3. K!Revoke(s)
    BY <1>3, <1>4, <2>1, <2>2 DEF K!Revoke, Callers, Working
  <2> QED
    BY <2>3 DEF K!Next
<1> QED
  BY <1>5, <1>6

LEMMA AppsRefine ==
    ASSUME IInv, NEW s \in Slots, AppFind(s) \/ AppVerify(s) \/ AppCreate(s) \/ RequestFails(s)
    PROVE  K!Next \/ UNCHANGED K!vars
<1>1. UNCHANGED <<users, issuedTo>>
  BY DEF AppFind, AppVerify, AppCreate, RequestFails
<1>2. CASE Ends(s)
  BY <1>1, <1>2, EndRefines
<1>3. CASE ~Ends(s)
  <2>0. PICK r : r = requests[s]
    OBVIOUS
  <2>1. PICK pc \in {"verifying", "inserting"} : Moves(s, [r EXCEPT !.pc = pc])
    BY <1>3, <2>0 DEF AppFind, AppVerify, AppCreate, RequestFails, Ends
  <2> DEFINE new == [r EXCEPT !.pc = pc]
  <2>2. r \in RequestState /\ r.pc \in {"finding", "verifying"}
    BY <1>3, <2>0 DEF AppFind, AppVerify, AppCreate, RequestFails, IInv, RequestsOK
  <2>3. new.pc \in {"verifying", "inserting"} /\ new.user = r.user /\ new.via = r.via
    BY <2>1, <2>2 DEF RequestState
  <2>4. CallerOf(new) = CallerOf(r)
    BY <2>2, <2>3 DEF CallerOf, Acting
  <2> HIDE DEF new
  <2> QED
    BY <1>1, <2>0, <2>1, <2>4, SameCaller DEF new
<1> QED
  BY <1>2, <1>3

-----------------------------------------------------------------------------

LEMMA InitRefines ==
    ASSUME Init
    PROVE  K!Init
<1>1. Working = [u \in Emails |-> NULL]
  BY DEF Init, Working, Registered
<1>2. Callers = [s \in Slots |-> NULL]
  BY IdleIsNobody DEF Init, Callers
<1> QED
  BY <1>1, <1>2 DEF Init, K!Init, Working, Callers

LEMMA AuthRefines ==
    ASSUME IInv, NEW s \in Slots, AuthStep(s)
    PROVE  K!Next \/ UNCHANGED K!vars
<1>1. ASSUME NEW op \in {"rotate", "revoke", "createApp"},
             NEW app \in AppIds \cup {NULL}, NEW secret \in Secrets \cup {NULL},
             NEW u \in Emails, NEW fresh \in Keys \cup {NULL},
             BearerAccepted(s, u, op, app, secret, fresh)
      PROVE  K!Next \/ UNCHANGED K!vars
  BY <1>1, BearerRefines
<1>2. ASSUME NEW op \in {"rotate", "revoke", "createApp"},
             NEW app \in AppIds \cup {NULL}, NEW secret \in Secrets \cup {NULL},
             NEW key \in Keys, KeyLookup(s, key, op, app, secret)
      PROVE  K!Next \/ UNCHANGED K!vars
  BY <1>2, LookupRefines
<1>3. ASSUME NEW fresh \in Keys \cup {NULL}, KeyCompare(s, fresh)
      PROVE  K!Next \/ UNCHANGED K!vars
  BY <1>3, CompareRefines
<1> QED
  BY <1>1, <1>2, <1>3 DEF AuthStep

LEMMA StepRefines ==
    ASSUME IInv, [Next]_vars
    PROVE  K!Next \/ UNCHANGED K!vars
<1>1. ASSUME NEW s \in Slots, PublicStep(s) \/ AuthStep(s) \/ HandlerStep(s)
      PROVE  K!Next \/ UNCHANGED K!vars
  BY <1>1, PublicRefines, AuthRefines, KeysRefine, AppsRefine DEF HandlerStep
<1>2. ASSUME \/ UNCHANGED vars
             \/ \E a \in AppIds, secret \in Secrets : ResetSecret(a, secret)
      PROVE  UNCHANGED K!vars
  <2>1. UNCHANGED <<users, requests, issuedTo>>
    BY <1>2 DEF vars, ResetSecret
  <2>2. Callers' = Callers
    BY <2>1 DEF Callers
  <2> QED
    BY <2>1, <2>2, SameUsers, SeesNothing
<1> QED
  BY <1>1, <1>2, CrashRefines DEF Next

(* The handlers of UserAccess, however slow their hashes and comparisons   *)
(* and however they interleave or fail, show no more of keys than          *)
(* KeyService does: one working key per user, replaced the moment a new    *)
(* one is handed out, and callers accepted on the key that worked when     *)
(* their request was looked up.                                            *)
THEOREM KeysImplement == Spec => ImplementsKeyService
<1>1. Init => K!Init
  BY InitRefines
<1>2. IInv /\ [Next]_vars => [K!Next]_(K!vars)
  BY StepRefines
<1> QED
  BY <1>1, <1>2, Invariance, PTL DEF Spec, ImplementsKeyService, K!Spec

-----------------------------------------------------------------------------
(* Retired keys.                                                           *)

(* What a retired key is, as KeyService sees it. *)
LEMMA RetiredSeen ==
    ASSUME NEW k \in Keys
    PROVE  Retired(k) <=> issuedTo[k] # NULL /\ \A u \in Emails : Working[u] # k
BY RowsNotNull DEF Retired, Working

LEMMA RetiredSeenNext ==
    ASSUME NEW k \in Keys
    PROVE  Retired(k)' <=> issuedTo'[k] # NULL /\ \A u \in Emails : Working'[u] # k
BY RowsNotNull DEF Retired, Working, Registered

(* KeyService has no step that brings a retired key back, or accepts it:   *)
(* a key is accepted that works, and handed out that nobody had.           *)
LEMMA RetiredForService ==
    ASSUME IInv, K!Next \/ UNCHANGED K!vars, NEW k \in Keys, issuedTo[k] # NULL,
           \A u \in Emails : Working[u] # k
    PROVE  /\ issuedTo'[k] # NULL
           /\ \A u \in Emails : Working'[u] # k
           /\ \A s \in Slots : (Callers'[s] # NULL /\ Callers'[s].key = k) =>
                 Callers'[s] = Callers[s]
<1> DEFINE Goal == /\ issuedTo'[k] # NULL
                   /\ \A u \in Emails : Working'[u] # k
                   /\ \A s \in Slots : (Callers'[s] # NULL /\ Callers'[s].key = k) =>
                         Callers'[s] = Callers[s]
<1>0. k # NULL
  BY RowsNotNull
<1>x. ASSUME NEW t \in Slots, NEW c, Callers' = [Callers EXCEPT ![t] = c],
             c.key # k, Working' = Working, issuedTo' = issuedTo
      PROVE  Goal
  <2>1. Callers'[t] = c /\ \A s \in Slots \ {t} : Callers'[s] = Callers[s]
    BY <1>x DEF Callers
  <2> QED
    BY <1>x, <2>1
<1>1. ASSUME NEW t \in Slots, NEW u \in Emails, K!SignedIn(t, u)
      PROVE  Goal
  <2>1. Callers' = [Callers EXCEPT ![t] = [user |-> u, key |-> NULL]]
        /\ Working' = Working /\ issuedTo' = issuedTo
    BY <1>1 DEF K!SignedIn, Callers, Working
  <2>2. PICK c : c = [user |-> u, key |-> NULL]
    OBVIOUS
  <2>3. c.key # k
    BY <1>0, <2>2
  <2> HIDE DEF Goal
  <2> QED
    BY <1>x, <2>1, <2>2, <2>3
<1>2. ASSUME NEW t \in Slots, NEW u \in Emails, NEW new \in Keys, K!Accept(t, u, new)
      PROVE  Goal
  <2>1. Callers' = [Callers EXCEPT ![t] = [user |-> u, key |-> new]]
        /\ Working' = Working /\ issuedTo' = issuedTo /\ Working[u] = new
    BY <1>2 DEF K!Accept, Callers, Working
  <2>2. PICK c : c = [user |-> u, key |-> new]
    OBVIOUS
  <2>3. c.key # k
    BY <2>1, <2>2
  <2> HIDE DEF Goal
  <2> QED
    BY <1>x, <2>1, <2>2, <2>3
<1>3. ASSUME NEW t \in Slots, NEW new \in Keys, K!Rotate(t, new)
      PROVE  Goal
  <2>1. PICK u : /\ Working' = [Working EXCEPT ![u] = new]
                 /\ issuedTo' = [issuedTo EXCEPT ![new] = u]
                 /\ Callers' = [Callers EXCEPT ![t] = NULL] /\ issuedTo[new] = NULL
    BY <1>3 DEF K!Rotate, Callers, Working
  <2>2. new # k /\ issuedTo'[k] = issuedTo[k]
    BY <2>1 DEF IInv, DataOK
  <2> QED
    BY <2>1, <2>2 DEF Callers, Working
<1>4. ASSUME NEW t \in Slots, K!Revoke(t)
      PROVE  Goal
  <2>1. PICK u : /\ Working' = [Working EXCEPT ![u] = NULL] /\ issuedTo' = issuedTo
                 /\ Callers' = [Callers EXCEPT ![t] = NULL]
    BY <1>4 DEF K!Revoke, Callers, Working
  <2> QED
    BY <1>0, <2>1 DEF Callers, Working
<1>5. ASSUME NEW ss \in SUBSET Slots, K!End(ss)
      PROVE  Goal
  <2>1. Callers' = [t \in Slots |-> IF t \in ss THEN NULL ELSE Callers[t]]
        /\ Working' = Working /\ issuedTo' = issuedTo
    BY <1>5 DEF K!End, Callers, Working
  <2> QED
    BY <2>1
<1>6. CASE UNCHANGED K!vars
  <2>1. Callers' = Callers /\ Working' = Working /\ issuedTo' = issuedTo
    BY <1>6 DEF K!vars, Callers, Working
  <2> QED
    BY <2>1
<1> QED
  BY <1>1, <1>2, <1>3, <1>4, <1>5, <1>6 DEF K!Next

(* A key that was replaced or revoked is out for good: no rotation, failed *)
(* store, shared prefix or slow comparison lets a later request in on it.  *)
(* Clients see no more than KeyService does, so it is proved of that.      *)
THEOREM OldKeysAreOut == Spec => OldKeysStayOut
<1>1. ASSUME IInv, [Next]_vars, NEW k \in Keys, Retired(k)
      PROVE  /\ Retired(k)'
             /\ \A s \in Slots :
                   (requests'[s].via = k /\ CallerOf(requests'[s]) # NULL) =>
                       CallerOf(requests'[s]) = CallerOf(requests[s])
  <2>1. issuedTo[k] # NULL /\ \A u \in Emails : Working[u] # k
    BY <1>1, RetiredSeen
  <2>2. K!Next \/ UNCHANGED K!vars
    BY <1>1, StepRefines
  <2>3. /\ issuedTo'[k] # NULL
        /\ \A u \in Emails : Working'[u] # k
        /\ \A s \in Slots : (Callers'[s] # NULL /\ Callers'[s].key = k) =>
              Callers'[s] = Callers[s]
    BY <1>1, <2>1, <2>2, RetiredForService
  <2>4. Retired(k)'
    BY <2>3, RetiredSeenNext
  <2>5. ASSUME NEW s \in Slots, requests'[s].via = k, CallerOf(requests'[s]) # NULL
        PROVE  CallerOf(requests'[s]) = CallerOf(requests[s])
    <3>1. CallerOf(requests'[s]).key = k
      BY <2>5 DEF CallerOf, Acting
    <3>2. Callers'[s] = CallerOf(requests'[s]) /\ Callers[s] = CallerOf(requests[s])
      BY DEF Callers
    <3> QED
      BY <2>3, <2>5, <3>1, <3>2
  <2> QED
    BY <2>4, <2>5
<1>2. IInv /\ [Next]_vars =>
         [\A k \in Keys : Retired(k) =>
            /\ Retired(k)'
            /\ \A s \in Slots :
                  (requests'[s].via = k /\ CallerOf(requests'[s]) # NULL) =>
                      CallerOf(requests'[s]) = CallerOf(requests[s])]_vars
  BY <1>1
<1> QED
  BY <1>2, Invariance, PTL DEF Spec, OldKeysStayOut

=============================================================================
