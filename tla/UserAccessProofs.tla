-------------------------- MODULE UserAccessProofs --------------------------
(***************************************************************************)
(* Theorems about UserAccess, for every number of emails, passwords, keys, *)
(* prefixes, apps, secrets and concurrent requests, and that it implements *)
(* KeyService.                                                             *)
(***************************************************************************)
EXTENDS UserAccess, TLAPS

(* The key in a row is one that was handed out to its user. *)
KeysAreTheirs == \A u \in Emails : HasKey(u) => issuedTo[users[u].apiKey] = u

(* The tables, the history and Meta's side. *)
DataOK ==
    /\ users \in [Emails -> UserRow \cup {NULL}]
    /\ apps \in [AppIds -> AppRow \cup {NULL}]
    /\ signed \in SUBSET (Emails \X Passwords)
    /\ issuedTo \in [Keys -> Emails \cup {NULL}]
    /\ secrets \in [AppIds -> [now : Secrets, had : SUBSET Secrets]]
    /\ SignedOnTheirPassword
    /\ KeysAreTheirs
    /\ SecretsWereValid
    /\ \A a \in AppIds : secrets[a].now \in secrets[a].had

(* What a suspended request r relies on, in tables us, a history of keys   *)
(* iss and secrets sec.                                                    *)
ReliesOn(r, us, iss, sec) ==
    /\ r.pc = "loggingIn" => us[r.user] # NULL /\ r.stored = us[r.user].password
    /\ (Acting(r) \/ r.pc = "comparing") => us[r.user] # NULL
    /\ r.pc = "comparing" => iss[r.stored] = r.user
    /\ (Acting(r) /\ r.via # NULL) => iss[r.via] = r.user
    /\ r.pc = "hashing" => iss[r.fresh] = NULL
    /\ r.pc = "inserting" => r.secret \in sec[r.app].had

RequestsOK ==
    /\ requests \in [Slots -> RequestState]
    /\ \A s \in Slots : /\ LocalsSet(requests[s])
                        /\ ReliesOn(requests[s], users, issuedTo, secrets)

(* No two requests are about to hand out the same key. *)
FreshApart ==
    \A s, t \in Slots :
        (s # t /\ requests[s].pc = "hashing" /\ requests[t].pc = "hashing") =>
            requests[s].fresh # requests[t].fresh

IInv == DataOK /\ RequestsOK /\ FreshApart

LEMMA RowsNotNull ==
    /\ \A r \in UserRow : r # NULL
    /\ \A r \in AppRow : r # NULL
    /\ \A u \in Emails : u # NULL
    /\ \A k \in Keys : k # NULL
BY AccessNullAssumption

LEMMA IdleOK ==
    ASSUME NEW us, NEW iss, NEW sec
    PROVE  Idle \in RequestState /\ LocalsSet(Idle) /\ ReliesOn(Idle, us, iss, sec)
           /\ Idle.pc = "idle"
BY DEF Idle, RequestState, LocalsSet, ReliesOn, Acting

(* Tables in which users stay, keys keep their owners and secrets stay     *)
(* known support every request they supported.                             *)
LEMMA ReliesStill ==
    ASSUME NEW r \in RequestState, LocalsSet(r),
           NEW us, NEW us2, NEW iss, NEW iss2, NEW sec, NEW sec2,
           ReliesOn(r, us, iss, sec),
           \A u \in Emails : us[u] # NULL => us2[u] # NULL /\ us2[u].password = us[u].password,
           \A k \in Keys : iss[k] # NULL => iss2[k] = iss[k],
           \A a \in AppIds : sec[a].had \subseteq sec2[a].had,
           r.pc = "hashing" => iss2[r.fresh] = NULL
    PROVE  ReliesOn(r, us2, iss2, sec2)
<1>1. /\ r.pc # "idle" => r.user \in Emails
      /\ r.pc = "comparing" => r.stored \in Keys
      /\ r.pc = "inserting" => r.app \in AppIds
      /\ r.via # NULL => r.via \in Keys
      /\ r.user # NULL => r.user \in Emails
  BY DEF LocalsSet, RequestState
<1> QED
  BY <1>1, RowsNotNull DEF ReliesOn, Acting

(* One request moves on, while the tables change as above. *)
LEMMA RequestsKept ==
    ASSUME RequestsOK, FreshApart, NEW s \in Slots, NEW new \in RequestState,
           LocalsSet(new), ReliesOn(new, users', issuedTo', secrets'),
           requests' = [requests EXCEPT ![s] = new],
           \A u \in Emails : users[u] # NULL =>
               users'[u] # NULL /\ users'[u].password = users[u].password,
           \A k \in Keys : issuedTo[k] # NULL => issuedTo'[k] = issuedTo[k],
           \A a \in AppIds : secrets[a].had \subseteq secrets'[a].had,
           \A t \in Slots \ {s} : requests[t].pc = "hashing" =>
               /\ issuedTo'[requests[t].fresh] = NULL
               /\ new.pc = "hashing" => new.fresh # requests[t].fresh
    PROVE  RequestsOK' /\ FreshApart'
<1>1. /\ requests'[s] = new
      /\ \A t \in Slots \ {s} : requests'[t] = requests[t]
      /\ requests' \in [Slots -> RequestState]
  BY DEF RequestsOK
<1>2. ASSUME NEW t \in Slots \ {s}
      PROVE  ReliesOn(requests[t], users', issuedTo', secrets')
  <2>1. requests[t] \in RequestState /\ LocalsSet(requests[t])
        /\ ReliesOn(requests[t], users, issuedTo, secrets)
    BY DEF RequestsOK
  <2> QED
    BY <2>1, ReliesStill
<1>3. RequestsOK'
  BY <1>1, <1>2 DEF RequestsOK
<1>4. FreshApart'
  BY <1>1 DEF FreshApart
<1> QED
  BY <1>3, <1>4

(* One request moves on and nothing else happens. *)
LEMMA OnlyMoves ==
    ASSUME IInv, NEW s \in Slots, NEW new \in RequestState, LocalsSet(new),
           ReliesOn(new, users, issuedTo, secrets), Moves(s, new),
           UNCHANGED <<users, apps, signed, issuedTo, secrets>>,
           new.pc = "hashing" =>
               \A t \in Slots \ {s} : requests[t].pc = "hashing" =>
                   new.fresh # requests[t].fresh
    PROVE  IInv'
<1>1. \A t \in Slots : requests[t].pc = "hashing" => issuedTo[requests[t].fresh] = NULL
  BY DEF IInv, RequestsOK, ReliesOn
<1>2. RequestsOK' /\ FreshApart'
  BY <1>1, RequestsKept DEF IInv, Moves
<1>3. DataOK'
  BY DEF IInv, DataOK, SignedOnTheirPassword, KeysAreTheirs, SecretsWereValid, HasKey, Registered
<1> QED
  BY <1>2, <1>3 DEF IInv

LEMMA FailStep ==
    ASSUME IInv, NEW s \in Slots, RequestFails(s)
    PROVE  IInv'
BY IdleOK, OnlyMoves DEF RequestFails, Ends

-----------------------------------------------------------------------------
(* Registration and login.                                                 *)

LEMMA FindSteps ==
    ASSUME IInv, NEW s \in Slots, NEW u \in Emails, NEW p \in Passwords,
           RegisterFind(s, u, p) \/ LoginFind(s, u, p)
    PROVE  IInv'
<1>1. CASE RegisterFind(s, u, p)
  <2> DEFINE new == [Idle EXCEPT !.pc = "registering", !.user = u, !.given = p]
  <2>1. new \in RequestState /\ LocalsSet(new) /\ new.pc = "registering"
    BY DEF Idle, RequestState, LocalsSet
  <2>2. ReliesOn(new, users, issuedTo, secrets)
    BY <2>1 DEF ReliesOn, Acting
  <2> HIDE DEF new
  <2> QED
    BY <1>1, <2>1, <2>2, OnlyMoves DEF RegisterFind, new
<1>2. CASE LoginFind(s, u, p)
  <2> DEFINE new == [Idle EXCEPT !.pc = "loggingIn", !.user = u, !.given = p,
                                 !.stored = users[u].password]
  <2>1. users[u] \in UserRow /\ users[u] # NULL
    BY <1>2 DEF LoginFind, Registered, IInv, DataOK
  <2>2. users[u].password \in Passwords
    BY <2>1 DEF UserRow
  <2>3. new \in RequestState /\ LocalsSet(new) /\ new.pc = "loggingIn" /\ new.user = u
        /\ new.stored = users[u].password
    BY <2>2 DEF Idle, RequestState, LocalsSet
  <2>4. ReliesOn(new, users, issuedTo, secrets)
    BY <2>1, <2>3 DEF ReliesOn, Acting
  <2> HIDE DEF new
  <2> QED
    BY <1>2, <2>3, <2>4, OnlyMoves DEF LoginFind, new
<1> QED
  BY <1>1, <1>2

LEMMA RegisterStep ==
    ASSUME IInv, NEW s \in Slots, RegisterCreate(s)
    PROVE  IInv'
<1> DEFINE u == requests[s].user
           p == requests[s].given
           row == [password |-> p, apiKey |-> NULL]
<1>1. u \in Emails /\ p \in Passwords
  BY DEF RegisterCreate, IInv, RequestsOK, LocalsSet
<1>2. row \in UserRow /\ row # NULL /\ row.password = p /\ row.apiKey = NULL
  BY <1>1, RowsNotNull DEF UserRow
<1>3. /\ users[u] = NULL
      /\ users' = [users EXCEPT ![u] = row]
      /\ signed' = signed \cup {<<u, p>>}
      /\ requests' = [requests EXCEPT ![s] = Idle]
      /\ apps' = apps /\ issuedTo' = issuedTo /\ secrets' = secrets
  BY DEF RegisterCreate, EmailFree, Registered, Sign, Ends, Moves
<1> HIDE DEF u, p, row
<1>4. /\ users' \in [Emails -> UserRow \cup {NULL}]
      /\ users'[u] = row
      /\ \A v \in Emails \ {u} : users'[v] = users[v]
  BY <1>1, <1>2, <1>3 DEF IInv, DataOK
<1>5. RequestsOK' /\ FreshApart'
  <2>1. \A t \in Slots : requests[t].pc = "hashing" => issuedTo[requests[t].fresh] = NULL
    BY DEF IInv, RequestsOK, ReliesOn
  <2>2. \A v \in Emails : users[v] # NULL =>
            users'[v] # NULL /\ users'[v].password = users[v].password
    BY <1>3, <1>4
  <2>3. /\ Idle \in RequestState /\ LocalsSet(Idle)
        /\ ReliesOn(Idle, users', issuedTo', secrets') /\ Idle.pc = "idle"
    BY IdleOK
  <2> QED
    BY <1>3, <2>1, <2>2, <2>3, RequestsKept DEF IInv
<1>6. SignedOnTheirPassword'
  <2> SUFFICES ASSUME NEW v \in Emails, NEW q \in Passwords, <<v, q>> \in signed'
               PROVE  users'[v] # NULL /\ users'[v].password = q
    BY <1>1, <1>3 DEF SignedOnTheirPassword, Registered, IInv, DataOK
  <2>1. CASE <<v, q>> = <<u, p>>
    BY <1>2, <1>4, <2>1
  <2>2. CASE <<v, q>> \in signed
    <3>1. users[v] # NULL /\ users[v].password = q
      BY <2>2 DEF IInv, DataOK, SignedOnTheirPassword, Registered
    <3> QED
      BY <1>3, <1>4, <3>1
  <2> QED
    BY <1>3, <2>1, <2>2
<1>7. KeysAreTheirs'
  BY <1>2, <1>3, <1>4 DEF KeysAreTheirs, HasKey, Registered, IInv, DataOK
<1>8. SecretsWereValid'
  BY <1>2, <1>3, <1>4, RowsNotNull DEF SecretsWereValid, Registered, IInv, DataOK, AppRow
<1>9. DataOK'
  BY <1>1, <1>3, <1>4, <1>6, <1>7, <1>8 DEF IInv, DataOK
<1> QED
  BY <1>5, <1>9 DEF IInv

LEMMA LoginStep ==
    ASSUME IInv, NEW s \in Slots, LoginCompare(s)
    PROVE  IInv'
<1> DEFINE u == requests[s].user
           p == requests[s].given
<1>1. u \in Emails /\ p \in Passwords /\ requests[s].stored = users[u].password /\ users[u] # NULL
  BY DEF LoginCompare, IInv, RequestsOK, LocalsSet, ReliesOn
<1>2. /\ requests' = [requests EXCEPT ![s] = Idle]
      /\ users' = users /\ apps' = apps /\ issuedTo' = issuedTo /\ secrets' = secrets
      /\ \/ signed' = signed
         \/ users[u].password = p /\ signed' = signed \cup {<<u, p>>}
  BY <1>1 DEF LoginCompare, Sign, Ends, Moves
<1> HIDE DEF u, p
<1>3. RequestsOK' /\ FreshApart'
  <2>1. \A t \in Slots : requests[t].pc = "hashing" => issuedTo[requests[t].fresh] = NULL
    BY DEF IInv, RequestsOK, ReliesOn
  <2>2. /\ Idle \in RequestState /\ LocalsSet(Idle)
        /\ ReliesOn(Idle, users', issuedTo', secrets') /\ Idle.pc = "idle"
    BY IdleOK
  <2> QED
    BY <1>2, <2>1, <2>2, RequestsKept DEF IInv
<1>4. SignedOnTheirPassword'
  <2> SUFFICES ASSUME NEW v \in Emails, NEW q \in Passwords, <<v, q>> \in signed'
               PROVE  users[v] # NULL /\ users[v].password = q
    BY <1>1, <1>2 DEF SignedOnTheirPassword, Registered, IInv, DataOK
  <2>1. CASE <<v, q>> \in signed
    BY <2>1 DEF IInv, DataOK, SignedOnTheirPassword, Registered
  <2>2. CASE <<v, q>> \notin signed
    <3>1. v = u /\ q = p /\ users[u].password = p
      BY <1>2, <2>2
    <3> QED
      BY <1>1, <3>1
  <2> QED
    BY <2>1, <2>2
<1>5. signed' \in SUBSET (Emails \X Passwords)
  BY <1>1, <1>2 DEF IInv, DataOK
<1>6. DataOK'
  BY <1>2, <1>4, <1>5 DEF IInv, DataOK, KeysAreTheirs, SecretsWereValid, HasKey, Registered
<1> QED
  BY <1>3, <1>6 DEF IInv

-----------------------------------------------------------------------------
(* Authentication.                                                         *)

(* A request that is accepted goes on with what it relies on.              *)
LEMMA Accepted ==
    ASSUME IInv, NEW s \in Slots, NEW r \in RequestState, NEW fresh \in Keys \cup {NULL},
           r.user \in Emails, users[r.user] # NULL, Asks(r.op, r.app, r.secret),
           r.via # NULL => issuedTo[r.via] = r.user,
           MayGenerate(r, fresh), Moves(s, AfterAuth(r, fresh)),
           UNCHANGED <<users, apps, signed, issuedTo, secrets>>
    PROVE  IInv'
<1> DEFINE new == AfterAuth(r, fresh)
<1>1. r.op \in {"rotate", "revoke", "createApp"}
  BY DEF Asks
<1>2. /\ new \in RequestState
      /\ new.user = r.user /\ new.via = r.via /\ new.fresh = fresh
      /\ new.app = r.app /\ new.secret = r.secret
      /\ new.pc \in {"hashing", "revoking", "finding"}
      /\ new.pc = "hashing" => r.op = "rotate"
      /\ new.pc = "finding" => r.op = "createApp"
  BY <1>1 DEF AfterAuth, RequestState
<1>3. LocalsSet(new)
  BY <1>2 DEF LocalsSet, MayGenerate, Asks
<1>4. new.pc = "hashing" =>
        issuedTo[fresh] = NULL /\ \A t \in Slots : fresh # requests[t].fresh
  BY <1>2 DEF MayGenerate
<1>5. ReliesOn(new, users, issuedTo, secrets)
  BY <1>2, <1>4 DEF ReliesOn
<1> HIDE DEF new
<1> QED
  BY <1>2, <1>3, <1>4, <1>5, OnlyMoves DEF new

LEMMA BearerStep ==
    ASSUME IInv, NEW s \in Slots, NEW u \in Emails, NEW op, NEW fresh \in Keys \cup {NULL},
           NEW app \in AppIds \cup {NULL}, NEW secret \in Secrets \cup {NULL},
           BearerAccepted(s, u, op, app, secret, fresh)
    PROVE  IInv'
<1> DEFINE r == [Idle EXCEPT !.op = op, !.user = u, !.app = app, !.secret = secret]
<1>1. Asks(op, app, secret) /\ op \in {"rotate", "revoke", "createApp"}
  BY DEF BearerAccepted, Asks
<1>2. r \in RequestState /\ r.op = op /\ r.user = u /\ r.app = app /\ r.secret = secret
      /\ r.via = NULL
  BY <1>1 DEF Idle, RequestState
<1>3. users[u] # NULL
  BY DEF BearerAccepted, IInv, DataOK, SignedOnTheirPassword, Registered
<1>4. MayGenerate(r, fresh) /\ Moves(s, AfterAuth(r, fresh))
      /\ UNCHANGED <<users, apps, signed, issuedTo, secrets>>
  BY DEF BearerAccepted
<1> HIDE DEF r
<1> QED
  BY <1>1, <1>2, <1>3, <1>4, Accepted

LEMMA LookupStep ==
    ASSUME IInv, NEW s \in Slots, NEW key \in Keys, NEW op,
           NEW app \in AppIds \cup {NULL}, NEW secret \in Secrets \cup {NULL},
           KeyLookup(s, key, op, app, secret)
    PROVE  IInv'
<1>1. PICK u \in WithPrefix(PrefixOf[key]) :
         Moves(s, [Idle EXCEPT !.pc = "comparing", !.op = op, !.user = u, !.via = key,
                               !.stored = users[u].apiKey, !.app = app, !.secret = secret])
  BY DEF KeyLookup
<1> DEFINE new == [Idle EXCEPT !.pc = "comparing", !.op = op, !.user = u, !.via = key,
                               !.stored = users[u].apiKey, !.app = app, !.secret = secret]
<1>2. Asks(op, app, secret) /\ op \in {"rotate", "revoke", "createApp"}
  BY DEF KeyLookup, Asks
<1>3. u \in Emails /\ HasKey(u) /\ users[u] # NULL
  BY DEF WithPrefix, HasKey, Registered
<1>4. users[u].apiKey \in Keys /\ issuedTo[users[u].apiKey] = u
  BY <1>3 DEF IInv, DataOK, KeysAreTheirs, UserRow, HasKey
<1>5. /\ new \in RequestState /\ new.pc = "comparing" /\ new.op = op /\ new.user = u
      /\ new.via = key /\ new.stored = users[u].apiKey /\ new.app = app /\ new.secret = secret
  BY <1>2, <1>3, <1>4 DEF Idle, RequestState
<1>6. LocalsSet(new)
  BY <1>2, <1>3, <1>4, <1>5 DEF LocalsSet
<1>7. ReliesOn(new, users, issuedTo, secrets)
  BY <1>3, <1>4, <1>5 DEF ReliesOn, Acting
<1>8. Moves(s, new) /\ UNCHANGED <<users, apps, signed, issuedTo, secrets>>
  BY <1>1 DEF KeyLookup
<1> HIDE DEF new
<1> QED
  BY <1>5, <1>6, <1>7, <1>8, OnlyMoves

LEMMA CompareStep ==
    ASSUME IInv, NEW s \in Slots, NEW fresh \in Keys \cup {NULL}, KeyCompare(s, fresh)
    PROVE  IInv'
<1> DEFINE r == requests[s]
<1>1. r \in RequestState /\ LocalsSet(r) /\ ReliesOn(r, users, issuedTo, secrets)
      /\ r.pc = "comparing"
  BY DEF KeyCompare, IInv, RequestsOK
<1>2. CASE KeyMatches(r)
  <2>1. r.user \in Emails /\ users[r.user] # NULL /\ Asks(r.op, r.app, r.secret)
        /\ issuedTo[r.via] = r.user
    BY <1>1, <1>2 DEF LocalsSet, ReliesOn, KeyMatches
  <2>2. MayGenerate(r, fresh) /\ Moves(s, AfterAuth(r, fresh))
        /\ UNCHANGED <<users, apps, signed, issuedTo, secrets>>
    BY <1>2 DEF KeyCompare
  <2> HIDE DEF r
  <2> QED
    BY <1>1, <2>1, <2>2, Accepted
<1>3. CASE ~KeyMatches(r)
  BY <1>3, IdleOK, OnlyMoves DEF KeyCompare, Ends
<1> QED
  BY <1>2, <1>3

-----------------------------------------------------------------------------
(* The key of a user changes.                                              *)

LEMMA KeyWritten ==
    ASSUME IInv, NEW s \in Slots, NEW u \in Emails, NEW key \in Keys \cup {NULL},
           users[u] # NULL, users' = [users EXCEPT ![u].apiKey = key],
           \/ key = NULL /\ issuedTo' = issuedTo
           \/ /\ key # NULL /\ issuedTo[key] = NULL
              /\ issuedTo' = [issuedTo EXCEPT ![key] = u]
              /\ \A t \in Slots \ {s} : requests[t].pc = "hashing" => requests[t].fresh # key,
           requests' = [requests EXCEPT ![s] = Idle],
           UNCHANGED <<apps, signed, secrets>>
    PROVE  IInv'
<1>1. users[u] \in UserRow
  BY DEF IInv, DataOK
<1>2. /\ users'[u] \in UserRow /\ users'[u] # NULL
      /\ users'[u].apiKey = key /\ users'[u].password = users[u].password
      /\ \A v \in Emails \ {u} : users'[v] = users[v]
      /\ users' \in [Emails -> UserRow \cup {NULL}]
  <2>1. [users[u] EXCEPT !.apiKey = key] \in UserRow
    BY <1>1 DEF UserRow
  <2>2. users'[u] = [users[u] EXCEPT !.apiKey = key]
    BY DEF IInv, DataOK
  <2>3. users'[u].apiKey = key /\ users'[u].password = users[u].password
    BY <1>1, <2>2 DEF UserRow
  <2>4. \A v \in Emails \ {u} : users'[v] = users[v]
    BY DEF IInv, DataOK
  <2>5. users' \in [Emails -> UserRow \cup {NULL}]
    BY <2>1 DEF IInv, DataOK
  <2> QED
    BY <2>1, <2>2, <2>3, <2>4, <2>5, RowsNotNull
<1>3. /\ issuedTo' \in [Keys -> Emails \cup {NULL}]
      /\ \A k \in Keys : issuedTo[k] # NULL => issuedTo'[k] = issuedTo[k]
      /\ key # NULL => issuedTo'[key] = u
      /\ \A k \in Keys : k # key => issuedTo'[k] = issuedTo[k]
  BY DEF IInv, DataOK
<1>4. \A t \in Slots \ {s} : requests[t].pc = "hashing" =>
          /\ requests[t].fresh \in Keys
          /\ issuedTo'[requests[t].fresh] = NULL
  <2>1. \A t \in Slots : requests[t].pc = "hashing" =>
            requests[t].fresh \in Keys /\ issuedTo[requests[t].fresh] = NULL
    BY DEF IInv, RequestsOK, ReliesOn, LocalsSet
  <2> QED
    BY <1>3, <2>1
<1>5. RequestsOK' /\ FreshApart'
  <2>1. /\ Idle \in RequestState /\ LocalsSet(Idle)
        /\ ReliesOn(Idle, users', issuedTo', secrets') /\ Idle.pc = "idle"
    BY IdleOK
  <2>2. \A v \in Emails : users[v] # NULL =>
            users'[v] # NULL /\ users'[v].password = users[v].password
    BY <1>2
  <2> QED
    BY <1>3, <1>4, <2>1, <2>2, RequestsKept DEF IInv
<1>6. SignedOnTheirPassword'
  BY <1>2 DEF SignedOnTheirPassword, Registered, IInv, DataOK
<1>7. KeysAreTheirs'
  <2> SUFFICES ASSUME NEW v \in Emails, users'[v] # NULL, users'[v].apiKey # NULL
               PROVE  issuedTo'[users'[v].apiKey] = v
    BY DEF KeysAreTheirs, HasKey, Registered
  <2>1. CASE v = u
    BY <1>2, <1>3, <2>1
  <2>2. CASE v # u
    <3>1. users'[v] = users[v] /\ users[v] \in UserRow
      BY <1>2, <2>2 DEF IInv, DataOK
    <3>2. users[v].apiKey \in Keys /\ issuedTo[users[v].apiKey] = v
      BY <3>1 DEF UserRow, IInv, DataOK, KeysAreTheirs, HasKey, Registered
    <3> QED
      BY <1>3, <3>1, <3>2, RowsNotNull
  <2> QED
    BY <2>1, <2>2
<1>8. SecretsWereValid'
  BY <1>2, RowsNotNull DEF SecretsWereValid, Registered, IInv, DataOK, AppRow
<1>9. DataOK'
  BY <1>2, <1>3, <1>6, <1>7, <1>8 DEF IInv, DataOK
<1> QED
  BY <1>5, <1>9 DEF IInv

LEMMA KeySteps ==
    ASSUME IInv, NEW s \in Slots, RotateStore(s) \/ RevokeStore(s)
    PROVE  IInv'
<1> DEFINE u == requests[s].user
           key == requests[s].fresh
<1>1. u \in Emails /\ users[u] # NULL
  BY DEF RotateStore, RevokeStore, IInv, RequestsOK, LocalsSet, ReliesOn, Acting
<1>2. CASE RotateStore(s)
  <2>1. key \in Keys /\ key # NULL /\ issuedTo[key] = NULL /\ requests[s].pc = "hashing"
    BY <1>2, RowsNotNull DEF RotateStore, IInv, RequestsOK, LocalsSet, ReliesOn
  <2>2. \A t \in Slots \ {s} : requests[t].pc = "hashing" => requests[t].fresh # key
    BY <2>1 DEF IInv, FreshApart
  <2>3. /\ users' = [users EXCEPT ![u].apiKey = key]
        /\ issuedTo' = [issuedTo EXCEPT ![key] = u]
        /\ requests' = [requests EXCEPT ![s] = Idle]
        /\ UNCHANGED <<apps, signed, secrets>>
    BY <1>2 DEF RotateStore, KeyAfter, Ends, Moves
  <2> HIDE DEF u, key
  <2> QED
    BY <1>1, <2>1, <2>2, <2>3, KeyWritten
<1>3. CASE RevokeStore(s)
  <2>1. /\ users' = [users EXCEPT ![u].apiKey = NULL]
        /\ issuedTo' = issuedTo
        /\ requests' = [requests EXCEPT ![s] = Idle]
        /\ UNCHANGED <<apps, signed, secrets>>
    BY <1>3 DEF RevokeStore, Ends, Moves
  <2> HIDE DEF u, key
  <2> QED
    BY <1>1, <2>1, KeyWritten
<1> QED
  BY <1>2, <1>3

-----------------------------------------------------------------------------
(* Registering a Meta app, and what happens at Meta.                       *)

LEMMA CheckSteps ==
    ASSUME IInv, NEW s \in Slots, AppFind(s) \/ AppVerify(s)
    PROVE  IInv'
<1> DEFINE r == requests[s]
<1>1. r \in RequestState /\ LocalsSet(r) /\ ReliesOn(r, users, issuedTo, secrets)
  BY DEF IInv, RequestsOK
<1>2. CASE AppFind(s)
  <2> DEFINE new == [r EXCEPT !.pc = "verifying"]
  <2>1. CASE apps[r.app] # NULL
    BY <1>2, <2>1, IdleOK, OnlyMoves DEF AppFind
  <2>2. CASE apps[r.app] = NULL
    <3>1. r.pc = "finding"
      BY <1>2 DEF AppFind
    <3>2. /\ new \in RequestState /\ new.pc = "verifying" /\ new.user = r.user
          /\ new.via = r.via /\ new.app = r.app /\ new.secret = r.secret
      BY <1>1 DEF RequestState
    <3>3. LocalsSet(new) /\ ReliesOn(new, users, issuedTo, secrets)
      BY <1>1, <3>1, <3>2 DEF LocalsSet, ReliesOn, Acting
    <3>4. Moves(s, new) /\ UNCHANGED <<users, apps, signed, issuedTo, secrets>>
      BY <1>2, <2>2 DEF AppFind
    <3> HIDE DEF new
    <3> QED
      BY <3>2, <3>3, <3>4, OnlyMoves
  <2> QED
    BY <2>1, <2>2
<1>3. CASE AppVerify(s)
  <2> DEFINE new == [r EXCEPT !.pc = "inserting"]
  <2>1. r.pc = "verifying" /\ secrets[r.app].now = r.secret
    BY <1>3 DEF AppVerify, MetaAccepts
  <2>2. /\ new \in RequestState /\ new.pc = "inserting" /\ new.user = r.user
        /\ new.via = r.via /\ new.app = r.app /\ new.secret = r.secret
    BY <1>1 DEF RequestState
  <2>3. r.app \in AppIds /\ r.secret \in secrets[r.app].had
    BY <1>1, <2>1 DEF LocalsSet, IInv, DataOK
  <2>4. LocalsSet(new) /\ ReliesOn(new, users, issuedTo, secrets)
    BY <1>1, <2>1, <2>2, <2>3 DEF LocalsSet, ReliesOn, Acting
  <2>5. Moves(s, new) /\ UNCHANGED <<users, apps, signed, issuedTo, secrets>>
    BY <1>3 DEF AppVerify
  <2> HIDE DEF new
  <2> QED
    BY <2>2, <2>4, <2>5, OnlyMoves
<1> QED
  BY <1>2, <1>3

LEMMA CreateStep ==
    ASSUME IInv, NEW s \in Slots, AppCreate(s)
    PROVE  IInv'
<1> DEFINE a == requests[s].app
           row == NewApp(requests[s])
<1>1. /\ a \in AppIds /\ requests[s].user \in Emails /\ requests[s].secret \in Secrets
      /\ users[requests[s].user] # NULL /\ requests[s].secret \in secrets[a].had
  BY DEF AppCreate, IInv, RequestsOK, LocalsSet, ReliesOn, Acting
<1>2. row \in AppRow /\ row.owner = requests[s].user /\ row.secret = requests[s].secret
  BY <1>1 DEF NewApp, AppRow
<1>3. /\ apps' = [apps EXCEPT ![a] = row]
      /\ requests' = [requests EXCEPT ![s] = Idle]
      /\ users' = users /\ signed' = signed /\ issuedTo' = issuedTo /\ secrets' = secrets
  BY DEF AppCreate, Ends, Moves
<1> HIDE DEF a, row
<1>4. RequestsOK' /\ FreshApart'
  <2>1. \A t \in Slots : requests[t].pc = "hashing" => issuedTo[requests[t].fresh] = NULL
    BY DEF IInv, RequestsOK, ReliesOn
  <2>2. /\ Idle \in RequestState /\ LocalsSet(Idle)
        /\ ReliesOn(Idle, users', issuedTo', secrets') /\ Idle.pc = "idle"
    BY IdleOK
  <2> QED
    BY <1>3, <2>1, <2>2, RequestsKept DEF IInv
<1>5. SecretsWereValid'
  BY <1>1, <1>2, <1>3 DEF SecretsWereValid, Registered, IInv, DataOK
<1>6. DataOK'
  BY <1>1, <1>2, <1>3, <1>5 DEF IInv, DataOK, SignedOnTheirPassword, KeysAreTheirs, HasKey, Registered
<1> QED
  BY <1>4, <1>6 DEF IInv

LEMMA ResetStep ==
    ASSUME IInv, NEW a \in AppIds, NEW secret \in Secrets, ResetSecret(a, secret)
    PROVE  IInv'
<1>1. /\ secrets' \in [AppIds -> [now : Secrets, had : SUBSET Secrets]]
      /\ \A b \in AppIds : /\ secrets[b].had \subseteq secrets'[b].had
                           /\ secrets'[b].now \in secrets'[b].had
  BY DEF ResetSecret, IInv, DataOK
<1>2. /\ users' = users /\ apps' = apps /\ requests' = requests
      /\ signed' = signed /\ issuedTo' = issuedTo
  BY DEF ResetSecret
<1>3. RequestsOK'
  <2>1. ASSUME NEW t \in Slots
        PROVE  ReliesOn(requests[t], users, issuedTo, secrets')
    <3>1. requests[t] \in RequestState /\ LocalsSet(requests[t])
          /\ ReliesOn(requests[t], users, issuedTo, secrets)
      BY DEF IInv, RequestsOK
    <3>2. requests[t].pc = "hashing" => issuedTo[requests[t].fresh] = NULL
      BY <3>1 DEF ReliesOn
    <3> QED
      BY <1>1, <3>1, <3>2, ReliesStill
  <2> QED
    BY <1>2, <2>1 DEF IInv, RequestsOK
<1>4. FreshApart'
  BY <1>2 DEF IInv, FreshApart
<1>5. DataOK'
  BY <1>1, <1>2 DEF IInv, DataOK, SignedOnTheirPassword, KeysAreTheirs, SecretsWereValid,
                    HasKey, Registered
<1> QED
  BY <1>3, <1>4, <1>5 DEF IInv

LEMMA CrashStep ==
    ASSUME IInv, Crash
    PROVE  IInv'
<1>1. /\ \A s \in Slots : requests'[s] = Idle
      /\ requests' \in [Slots -> RequestState]
  BY IdleOK DEF Crash
<1>2. RequestsOK'
  BY <1>1, IdleOK DEF RequestsOK
<1>3. FreshApart'
  BY <1>1, IdleOK DEF FreshApart
<1>4. DataOK'
  BY DEF Crash, IInv, DataOK, SignedOnTheirPassword, KeysAreTheirs, SecretsWereValid,
         HasKey, Registered
<1> QED
  BY <1>2, <1>3, <1>4 DEF IInv

-----------------------------------------------------------------------------

LEMMA InitIInv ==
    ASSUME Init
    PROVE  IInv
<1>1. secrets \in [AppIds -> [now : Secrets, had : SUBSET Secrets]]
      /\ \A a \in AppIds : secrets[a].now \in secrets[a].had
  <2>1. secrets \in [AppIds -> {[now |-> x, had |-> {x}] : x \in Secrets}]
    BY DEF Init
  <2>2. {[now |-> x, had |-> {x}] : x \in Secrets} \subseteq [now : Secrets, had : SUBSET Secrets]
    OBVIOUS
  <2>3. \A y \in {[now |-> x, had |-> {x}] : x \in Secrets} : y.now \in y.had
    OBVIOUS
  <2> QED
    BY <2>1, <2>2, <2>3
<1>2. DataOK
  BY <1>1 DEF Init, DataOK, SignedOnTheirPassword, KeysAreTheirs, SecretsWereValid,
              HasKey, Registered
<1>3. RequestsOK /\ FreshApart
  BY IdleOK DEF Init, RequestsOK, FreshApart
<1> QED
  BY <1>2, <1>3 DEF IInv

LEMMA AuthSteps ==
    ASSUME IInv, NEW s \in Slots, AuthStep(s)
    PROVE  IInv'
<1>1. ASSUME NEW op \in {"rotate", "revoke", "createApp"},
             NEW app \in AppIds \cup {NULL}, NEW secret \in Secrets \cup {NULL},
             NEW u \in Emails, NEW fresh \in Keys \cup {NULL},
             BearerAccepted(s, u, op, app, secret, fresh)
      PROVE  IInv'
  BY <1>1, BearerStep
<1>2. ASSUME NEW op \in {"rotate", "revoke", "createApp"},
             NEW app \in AppIds \cup {NULL}, NEW secret \in Secrets \cup {NULL},
             NEW key \in Keys, KeyLookup(s, key, op, app, secret)
      PROVE  IInv'
  BY <1>2, LookupStep
<1>3. ASSUME NEW fresh \in Keys \cup {NULL}, KeyCompare(s, fresh)
      PROVE  IInv'
  BY <1>3, CompareStep
<1> QED
  BY <1>1, <1>2, <1>3 DEF AuthStep

LEMMA NextIInv ==
    ASSUME IInv, [Next]_vars
    PROVE  IInv'
<1>1. ASSUME NEW s \in Slots, PublicStep(s)
      PROVE  IInv'
  BY <1>1, FindSteps, RegisterStep, LoginStep DEF PublicStep
<1>2. ASSUME NEW s \in Slots, HandlerStep(s)
      PROVE  IInv'
  BY <1>2, KeySteps, CheckSteps, CreateStep, FailStep DEF HandlerStep
<1>3. CASE UNCHANGED vars
  BY <1>3 DEF vars, IInv, DataOK, RequestsOK, FreshApart, SignedOnTheirPassword, KeysAreTheirs,
              SecretsWereValid, HasKey, Registered
<1> QED
  BY <1>1, <1>2, <1>3, AuthSteps, ResetStep, CrashStep DEF Next

(* Every reachable state satisfies the inductive invariant. *)
THEOREM Invariance == Spec => []IInv
BY InitIInv, NextIInv, PTL DEF Spec

(* The rows fit the schema, and every local of a suspended request is set  *)
(* before it is used.                                                      *)
THEOREM TypeCorrect == Spec => []TypeOK
<1>1. IInv => TypeOK
  BY DEF IInv, DataOK, RequestsOK, TypeOK
<1> QED
  BY <1>1, Invariance, PTL

(* A session token is only ever signed on the password the user registered *)
(* with.                                                                   *)
THEOREM SignedRightly == Spec => []SignedOnTheirPassword
<1>1. IInv => SignedOnTheirPassword
  BY DEF IInv, DataOK
<1> QED
  BY <1>1, Invariance, PTL

(* A request accepted on a key acts as the user the key was handed to.     *)
THEOREM KeysIdentify == Spec => []KeyIdentifiesUser
<1>1. IInv => KeyIdentifiesUser
  BY DEF IInv, RequestsOK, ReliesOn, KeyIdentifiesUser
<1> QED
  BY <1>1, Invariance, PTL

(* The secret kept for an app is one that Meta confirmed.                  *)
THEOREM SecretsValid == Spec => []SecretsWereValid
<1>1. IInv => SecretsWereValid
  BY DEF IInv, DataOK
<1> QED
  BY <1>1, Invariance, PTL

-----------------------------------------------------------------------------
(* What is registered stays.                                               *)

LEMMA RowsStay ==
    ASSUME IInv, [Next]_vars
    PROVE  /\ \A u \in Emails : Registered(u) =>
                 users'[u] # NULL /\ users'[u].password = users[u].password
           /\ \A a \in AppIds : apps[a] # NULL => apps'[a] = apps[a]
<1> DEFINE Stays == /\ \A u \in Emails : Registered(u) =>
                          users'[u] # NULL /\ users'[u].password = users[u].password
                    /\ \A a \in AppIds : apps[a] # NULL => apps'[a] = apps[a]
<1>1. UNCHANGED <<users, apps>> => Stays
  BY DEF Registered
<1>2. ASSUME NEW s \in Slots, RegisterCreate(s)
      PROVE  Stays
  <2>1. \A u \in Emails : Registered(u) => users'[u] = users[u]
    BY <1>2 DEF RegisterCreate, EmailFree, Registered, IInv, DataOK
  <2> QED
    BY <1>2, <2>1 DEF RegisterCreate, Registered
<1>3. ASSUME NEW u \in Emails, NEW key, users' = [users EXCEPT ![u].apiKey = key],
             users[u] # NULL, key \in Keys \cup {NULL}, UNCHANGED apps
      PROVE  Stays
  <2>1. users[u] \in UserRow
    BY <1>3 DEF IInv, DataOK
  <2>2. users'[u] = [users[u] EXCEPT !.apiKey = key]
    BY <1>3 DEF IInv, DataOK
  <2>3. users'[u] \in UserRow /\ users'[u].password = users[u].password
    BY <1>3, <2>1, <2>2 DEF UserRow
  <2>4. \A v \in Emails \ {u} : users'[v] = users[v]
    BY <1>3 DEF IInv, DataOK
  <2> QED
    BY <1>3, <2>3, <2>4, RowsNotNull DEF Registered
<1>4. ASSUME NEW s \in Slots, RotateStore(s) \/ RevokeStore(s)
      PROVE  Stays
  <2>1. requests[s].user \in Emails /\ users[requests[s].user] # NULL
        /\ (RotateStore(s) => requests[s].fresh \in Keys)
    BY <1>4 DEF RotateStore, RevokeStore, IInv, RequestsOK, LocalsSet, ReliesOn, Acting
  <2>2. CASE RotateStore(s)
    <3>1. users' = [users EXCEPT ![requests[s].user].apiKey = requests[s].fresh]
          /\ UNCHANGED apps
      BY <2>2 DEF RotateStore, KeyAfter
    <3> HIDE DEF Stays
    <3> QED
      BY <1>3, <2>1, <2>2, <3>1
  <2>3. CASE RevokeStore(s)
    <3>1. users' = [users EXCEPT ![requests[s].user].apiKey = NULL] /\ UNCHANGED apps
      BY <2>3 DEF RevokeStore
    <3> HIDE DEF Stays
    <3> QED
      BY <1>3, <2>1, <3>1
  <2> QED
    BY <1>4, <2>2, <2>3
<1>5. ASSUME NEW s \in Slots, AppCreate(s)
      PROVE  Stays
  BY <1>5 DEF AppCreate, AppFree, Registered, IInv, DataOK
<1> HIDE DEF Stays
<1>6. ASSUME NEW s \in Slots, PublicStep(s)
      PROVE  Stays
  BY <1>1, <1>2, <1>6 DEF PublicStep, RegisterFind, LoginFind, LoginCompare
<1>7. ASSUME NEW s \in Slots, AuthStep(s)
      PROVE  Stays
  <2>1. \A u, op, app, secret, fresh :
           BearerAccepted(s, u, op, app, secret, fresh) => UNCHANGED <<users, apps>>
    BY DEF BearerAccepted
  <2>2. \A key, op, app, secret : KeyLookup(s, key, op, app, secret) => UNCHANGED <<users, apps>>
    BY DEF KeyLookup
  <2>3. \A fresh : KeyCompare(s, fresh) => UNCHANGED <<users, apps>>
    BY DEF KeyCompare
  <2>4. UNCHANGED <<users, apps>>
    BY <1>7, <2>1, <2>2, <2>3 DEF AuthStep
  <2> QED
    BY <1>1, <2>4
<1>8. ASSUME NEW s \in Slots, HandlerStep(s)
      PROVE  Stays
  BY <1>1, <1>4, <1>5, <1>8 DEF HandlerStep, AppFind, AppVerify, RequestFails
<1>9. ASSUME \/ Crash
             \/ UNCHANGED vars
             \/ \E a \in AppIds, secret \in Secrets : ResetSecret(a, secret)
      PROVE  Stays
  BY <1>1, <1>9 DEF Crash, vars, ResetSecret
<1>10. Stays
  BY <1>6, <1>7, <1>8, <1>9 DEF Next
<1> QED
  BY <1>10 DEF Stays

(* An email or a Meta app stays with whoever registered it first.          *)
THEOREM RegistrationsStay == Spec => RegisteredOnce
BY RowsStay, Invariance, PTL DEF Spec, RegisteredOnce

=============================================================================
