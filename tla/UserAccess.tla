----------------------------- MODULE UserAccess -----------------------------
(***************************************************************************)
(* Who may call the API: registration, login, API keys, and the Meta apps  *)
(* users register.  Each of these looks a row up, then waits (for a slow   *)
(* hash, or for Meta), then writes or decides by what it read.  One step   *)
(* of the model is the code between two awaits.                            *)
(*                                                                         *)
(* Data abstraction.  A user is named by the email, which is unique and    *)
(* never changes; emails the collation takes for equal are one.  A key or  *)
(* a password stands for what bcrypt sees of it, its first 72 bytes, and   *)
(* a hash for what it was computed from.  Keys are generated at random, so *)
(* a generated key differs from every key before; its short prefix need    *)
(* not.  A session token is a JWT that is checked without the database:    *)
(* after it expires the user logs in again, so it is kept as "signed".     *)
(* Names, portal URLs and labels are data no property reads.               *)
(***************************************************************************)
CONSTANTS
    Emails,       \* emails people register with
    Passwords,    \* passwords they use or try
    Keys,         \* API keys, issued or made up; bounds the rotations
    Prefixes,     \* key prefixes, the columns looked up
    PrefixOf,     \* the prefix of each key
    AppIds,       \* Meta apps, by the id Meta gave them
    Secrets,      \* app secrets
    Slots,        \* slots for concurrent requests
    NULL          \* SQL NULL, "no row", "nothing yet"

ASSUME PrefixAssumption == PrefixOf \in [Keys -> Prefixes]

VARIABLES
    users,      \* the users table, by email
    apps,       \* the meta_apps table, by appId
    requests,   \* the request in each slot
    signed,     \* history: for whom a session token was signed, on which password
    issuedTo,   \* history: the user each key was returned to
    secrets     \* Meta's side: the secret each app has now, and all it has had

vars == <<users, apps, requests, signed, issuedTo, secrets>>

UserRow == [password : Passwords, apiKey : Keys \cup {NULL}]

AppRow == [owner : Emails, secret : Secrets]

(* Who a request was accepted as, and on which key, if any. *)
Caller == [user : Emails, key : Keys \cup {NULL}]

ASSUME AccessNullAssumption ==
    /\ NULL \notin UserRow \cup AppRow \cup Caller
    /\ NULL \notin Emails \cup Keys \cup Prefixes

(* pc names the await a request is suspended at. *)
RequestState ==
    [pc : {"idle", "registering", "loggingIn", "comparing", "finding", "verifying",
           "inserting", "hashing", "revoking"},
     op : {"none", "rotate", "revoke", "createApp"},
     user : Emails \cup {NULL},       \* who it is for, or about
     given : Passwords \cup {NULL},   \* the password presented
     via : Keys \cup {NULL},          \* the API key presented, if any
     stored : Passwords \cup Keys \cup {NULL},   \* the hash as it was read
     fresh : Keys \cup {NULL},        \* the key being generated
     app : AppIds \cup {NULL},
     secret : Secrets \cup {NULL}]

Idle == [pc |-> "idle", op |-> "none", user |-> NULL, given |-> NULL, via |-> NULL,
         stored |-> NULL, fresh |-> NULL, app |-> NULL, secret |-> NULL]

Init ==
    /\ users = [u \in Emails |-> NULL]
    /\ apps = [a \in AppIds |-> NULL]
    /\ requests = [s \in Slots |-> Idle]
    /\ signed = {}
    /\ issuedTo = [k \in Keys |-> NULL]
    /\ secrets \in [AppIds -> {[now |-> x, had |-> {x}] : x \in Secrets}]

Registered(u) == users[u] # NULL

HasKey(u) == Registered(u) /\ users[u].apiKey # NULL

(* The users a lookup by prefix finds: one at most, the column is unique. *)
WithPrefix(p) == {u \in Emails : HasKey(u) /\ PrefixOf[users[u].apiKey] = p}

Moves(s, request) == requests' = [requests EXCEPT ![s] = request]

Ends(s) == Moves(s, Idle)

Sign(u, password) == signed' = signed \cup {<<u, password>>}

-----------------------------------------------------------------------------
(* Registration and login.                                                 *)

(* findUnique by email; then the password is hashed. *)
RegisterFind(s, u, password) ==
    /\ requests[s].pc = "idle"
    /\ ~Registered(u)
    /\ Moves(s, [Idle EXCEPT !.pc = "registering", !.user = u, !.given = password])
    /\ UNCHANGED <<users, apps, signed, issuedTo, secrets>>

(* Mutant of EmailFree: no unique index. *)
EmailFreeAlways(u) == TRUE

EmailFree(u) == ~Registered(u)

(* create: the unique index refuses an email registered meanwhile. *)
RegisterCreate(s) ==
    LET r == requests[s]
    IN /\ r.pc = "registering"
       /\ EmailFree(r.user)
       /\ users' = [users EXCEPT ![r.user] = [password |-> r.given, apiKey |-> NULL]]
       /\ Sign(r.user, r.given)
       /\ Ends(s)
       /\ UNCHANGED <<apps, issuedTo, secrets>>

(* findUnique by email; an email nobody registered is a 401. *)
LoginFind(s, u, password) ==
    /\ requests[s].pc = "idle"
    /\ Registered(u)
    /\ Moves(s, [Idle EXCEPT !.pc = "loggingIn", !.user = u, !.given = password,
                             !.stored = users[u].password])
    /\ UNCHANGED <<users, apps, signed, issuedTo, secrets>>

(* Mutant of LoginCompare: the result of the comparison is not looked at. *)
LoginAnyway(s) ==
    /\ requests[s].pc = "loggingIn"
    /\ Sign(requests[s].user, requests[s].given)
    /\ Ends(s)
    /\ UNCHANGED <<users, apps, issuedTo, secrets>>

(* bcrypt.compare with the hash as it was read. *)
LoginCompare(s) ==
    LET r == requests[s]
    IN /\ r.pc = "loggingIn"
       /\ IF r.stored = r.given THEN Sign(r.user, r.given) ELSE UNCHANGED signed
       /\ Ends(s)
       /\ UNCHANGED <<users, apps, issuedTo, secrets>>

-----------------------------------------------------------------------------
(* Authentication, in front of every other request.                        *)

(* What a request goes on with once it is accepted: it generates a key,    *)
(* writes, or looks an app up.  A key differs from all keys before.        *)
AfterAuth(r, fresh) ==
    [r EXCEPT !.fresh = fresh, !.stored = NULL,
              !.pc = CASE r.op = "rotate" -> "hashing"
                       [] r.op = "revoke" -> "revoking"
                       [] r.op = "createApp" -> "finding"]

MayGenerate(r, fresh) ==
    IF r.op # "rotate" THEN fresh = NULL
    ELSE /\ fresh \in Keys
         /\ issuedTo[fresh] = NULL
         /\ \A s \in Slots : fresh \notin {requests[s].fresh, requests[s].via}

Asks(op, app, secret) ==
    IF op = "createApp" THEN app \in AppIds /\ secret \in Secrets
    ELSE op \in {"rotate", "revoke"} /\ app = NULL /\ secret = NULL

(* Authorization: Bearer.  The token alone says who the caller is. *)
BearerAccepted(s, u, op, app, secret, fresh) ==
    LET r == [Idle EXCEPT !.op = op, !.user = u, !.app = app, !.secret = secret]
    IN /\ requests[s].pc = "idle"
       /\ \E p \in Passwords : <<u, p>> \in signed
       /\ Asks(op, app, secret)
       /\ MayGenerate(r, fresh)
       /\ Moves(s, AfterAuth(r, fresh))
       /\ UNCHANGED <<users, apps, signed, issuedTo, secrets>>

(* X-API-Key: the user is looked up by the prefix of the key. *)
KeyLookup(s, key, op, app, secret) ==
    /\ requests[s].pc = "idle"
    /\ Asks(op, app, secret)
    /\ \E u \in WithPrefix(PrefixOf[key]) :
          Moves(s, [Idle EXCEPT !.pc = "comparing", !.op = op, !.user = u, !.via = key,
                                !.stored = users[u].apiKey, !.app = app, !.secret = secret])
    /\ UNCHANGED <<users, apps, signed, issuedTo, secrets>>

(* Mutant of KeyMatches: the prefix is taken for the key. *)
KeyMatchesPrefix(r) == TRUE

KeyMatches(r) == r.stored = r.via

(* bcrypt.compare with the hash as it was read, however old by now. *)
KeyCompare(s, fresh) ==
    LET r == requests[s]
    IN /\ r.pc = "comparing"
       /\ IF KeyMatches(r) THEN MayGenerate(r, fresh) /\ Moves(s, AfterAuth(r, fresh))
          ELSE fresh = NULL /\ Ends(s)
       /\ UNCHANGED <<users, apps, signed, issuedTo, secrets>>

-----------------------------------------------------------------------------
(* Rotating and revoking the key.                                          *)

(* The unique index on the prefix refuses a prefix another user has. *)
PrefixFree(u, key) == WithPrefix(PrefixOf[key]) \subseteq {u}

(* Mutant of KeyAfter: a key that is there is left, as if only the first   *)
(* one were ever stored.                                                   *)
KeyAfterFirst(old, fresh) == IF old = NULL THEN fresh ELSE old

(* The hash is stored over whatever key there is by now. *)
KeyAfter(old, fresh) == fresh

(* The update; the key itself is returned, and never again. *)
RotateStore(s) ==
    LET r == requests[s]
    IN /\ r.pc = "hashing"
       /\ PrefixFree(r.user, r.fresh)
       /\ users' = [users EXCEPT ![r.user].apiKey = KeyAfter(@, r.fresh)]
       /\ issuedTo' = [issuedTo EXCEPT ![r.fresh] = r.user]
       /\ Ends(s)
       /\ UNCHANGED <<apps, signed, secrets>>

RevokeStore(s) ==
    LET r == requests[s]
    IN /\ r.pc = "revoking"
       /\ users' = [users EXCEPT ![r.user].apiKey = NULL]
       /\ Ends(s)
       /\ UNCHANGED <<apps, signed, issuedTo, secrets>>

-----------------------------------------------------------------------------
(* Registering a Meta app.                                                 *)

(* findUnique by appId: any row at all is a 409. *)
AppFind(s) ==
    /\ requests[s].pc = "finding"
    /\ Moves(s, IF apps[requests[s].app] # NULL THEN Idle
                ELSE [requests[s] EXCEPT !.pc = "verifying"])
    /\ UNCHANGED <<users, apps, signed, issuedTo, secrets>>

(* Mutant of MetaAccepts: a secret is taken for good without asking. *)
MetaAcceptsAny(app, secret) == TRUE

(* Meta grants an app token for the secret the app has now. *)
MetaAccepts(app, secret) == secrets[app].now = secret

(* verifyMetaAppCredentials: any failure of the call counts as a refusal. *)
AppVerify(s) ==
    LET r == requests[s]
    IN /\ r.pc = "verifying"
       /\ MetaAccepts(r.app, r.secret)
       /\ Moves(s, [r EXCEPT !.pc = "inserting"])
       /\ UNCHANGED <<users, apps, signed, issuedTo, secrets>>

(* Mutant of AppFree: no unique index. *)
AppFreeAlways(a) == TRUE

AppFree(a) == apps[a] = NULL

(* Mutant of NewApp: two arguments are swapped. *)
NewAppSwapped(r) == [owner |-> r.user, secret |-> r.app]

NewApp(r) == [owner |-> r.user, secret |-> r.secret]

(* create: the unique index refuses an app registered meanwhile. *)
AppCreate(s) ==
    LET r == requests[s]
    IN /\ r.pc = "inserting"
       /\ AppFree(r.app)
       /\ apps' = [apps EXCEPT ![r.app] = NewApp(r)]
       /\ Ends(s)
       /\ UNCHANGED <<users, signed, issuedTo, secrets>>

(* The owner resets the app's secret at Meta, to one it did not have. *)
ResetSecret(a, secret) ==
    /\ secret \notin secrets[a].had
    /\ secrets' = [secrets EXCEPT ![a] = [now |-> secret, had |-> @.had \cup {secret}]]
    /\ UNCHANGED <<users, apps, requests, signed, issuedTo>>

-----------------------------------------------------------------------------
(* Any awaited call may fail and end the request: a refusal by a unique    *)
(* index or by Meta, the network, the database.                            *)
RequestFails(s) ==
    /\ requests[s].pc # "idle"
    /\ Ends(s)
    /\ UNCHANGED <<users, apps, signed, issuedTo, secrets>>

(* The process restarts, and every request is gone. *)
Crash ==
    /\ requests' = [s \in Slots |-> Idle]
    /\ UNCHANGED <<users, apps, signed, issuedTo, secrets>>

PublicStep(s) ==
    \/ \E u \in Emails, p \in Passwords : RegisterFind(s, u, p) \/ LoginFind(s, u, p)
    \/ RegisterCreate(s)
    \/ LoginCompare(s)

AuthStep(s) ==
    \/ \E op \in {"rotate", "revoke", "createApp"},
          app \in AppIds \cup {NULL}, secret \in Secrets \cup {NULL} :
             \/ \E u \in Emails, fresh \in Keys \cup {NULL} :
                   BearerAccepted(s, u, op, app, secret, fresh)
             \/ \E key \in Keys : KeyLookup(s, key, op, app, secret)
    \/ \E fresh \in Keys \cup {NULL} : KeyCompare(s, fresh)

HandlerStep(s) ==
    \/ RotateStore(s)
    \/ RevokeStore(s)
    \/ AppFind(s)
    \/ AppVerify(s)
    \/ AppCreate(s)
    \/ RequestFails(s)

Next ==
    \/ \E s \in Slots : PublicStep(s) \/ AuthStep(s) \/ HandlerStep(s)
    \/ \E a \in AppIds, secret \in Secrets : ResetSecret(a, secret)
    \/ Crash

Spec == Init /\ [][Next]_vars

-----------------------------------------------------------------------------
(* Properties.                                                             *)

(* The handlers that act for the user they have accepted. *)
Acting(r) == r.pc \in {"finding", "verifying", "inserting", "hashing", "revoking"}

(* The locals a handler has set at its program point. *)
LocalsSet(r) ==
    /\ r.pc # "idle" => r.user \in Emails
    /\ r.pc \in {"registering", "loggingIn"} => r.given \in Passwords
    /\ r.pc = "loggingIn" => r.stored \in Passwords
    /\ r.pc = "comparing" => r.via \in Keys /\ r.stored \in Keys /\ Asks(r.op, r.app, r.secret)
    /\ r.pc = "hashing" => r.fresh \in Keys
    /\ r.pc \in {"finding", "verifying", "inserting"} => r.app \in AppIds /\ r.secret \in Secrets

(* The rows fit the schema, and every local a handler goes on to use was   *)
(* set before its last await.                                              *)
TypeOK ==
    /\ users \in [Emails -> UserRow \cup {NULL}]
    /\ apps \in [AppIds -> AppRow \cup {NULL}]
    /\ requests \in [Slots -> RequestState]
    /\ \A s \in Slots : LocalsSet(requests[s])
    /\ signed \in SUBSET (Emails \X Passwords)
    /\ issuedTo \in [Keys -> Emails \cup {NULL}]
    /\ secrets \in [AppIds -> [now : Secrets, had : SUBSET Secrets]]

(* A session token is only ever signed for a user on the password that     *)
(* user registered with, though two people may register one email at once  *)
(* and log in meanwhile.                                                   *)
SignedOnTheirPassword ==
    \A u \in Emails, p \in Passwords :
        <<u, p>> \in signed => Registered(u) /\ users[u].password = p

(* A request accepted on an API key acts as the user the key was handed    *)
(* out to, although the lookup goes by a prefix that made-up and expired   *)
(* keys share, and the row may change during the comparison.               *)
KeyIdentifiesUser ==
    \A s \in Slots : (Acting(requests[s]) /\ requests[s].via # NULL) =>
        issuedTo[requests[s].via] = requests[s].user

(* An email or a Meta app stays with whoever registered it first: of two   *)
(* requests that both found it free, the slower one changes nothing.       *)
RegisteredOnce ==
    [][/\ \A u \in Emails : Registered(u) =>
             users'[u] # NULL /\ users'[u].password = users[u].password
       /\ \A a \in AppIds : apps[a] # NULL => apps'[a] = apps[a]]_vars

(* Nothing is stored that Meta did not confirm: the secret kept for an app *)
(* is one the app has had, though Meta was asked before the row was free   *)
(* to take and the secret may have been reset since.                       *)
SecretsWereValid ==
    \A a \in AppIds : apps[a] # NULL =>
        Registered(apps[a].owner) /\ apps[a].secret \in secrets[a].had

(* Who a request is accepted as, and on which key.  While its key is being *)
(* compared that is settled already: by the row that was read.             *)
CallerOf(r) ==
    IF Acting(r) \/ (r.pc = "comparing" /\ r.stored = r.via)
    THEN [user |-> r.user, key |-> r.via]
    ELSE NULL

K == INSTANCE KeyService WITH
        Users <- Emails,
        working <- [u \in Emails |-> IF Registered(u) THEN users[u].apiKey ELSE NULL],
        caller <- [s \in Slots |-> CallerOf(requests[s])]

(* "There is only ever one active key per user", and the old one stops     *)
(* working the moment a new one is handed out: slow hashes, comparisons    *)
(* and concurrent rotations and revocations add nothing a client could     *)
(* tell from a service that does each at once.                             *)
ImplementsKeyService == K!Spec

(* A key that was handed out and that nobody has any more. *)
Retired(k) ==
    issuedTo[k] # NULL /\ \A u \in Emails : Registered(u) => users[u].apiKey # k

(* A retired key never works again, whatever keys are hashed, stored or    *)
(* compared meanwhile and whatever prefix the new key has: only a request  *)
(* looked up while the key worked goes through with it, however late.      *)
OldKeysStayOut ==
    [][\A k \in Keys : Retired(k) =>
          /\ Retired(k)'
          /\ \A s \in Slots :
                (requests'[s].via = k /\ CallerOf(requests'[s]) # NULL) =>
                    CallerOf(requests'[s]) = CallerOf(requests[s])]_vars

=============================================================================
