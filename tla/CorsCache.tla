------------------------------ MODULE CorsCache ------------------------------
(***************************************************************************)
(* The origins a browser may call the API from: each client's portalUrl,   *)
(* read from the users table into a cache that is good for a minute.       *)
(* Every request passes here; those that find the cache stale each query   *)
(* the table, wait, and install what they were answered, in the order the  *)
(* answers come back.                                                      *)
(*                                                                         *)
(* Data abstraction.  A portal URL and an Origin header are compared as    *)
(* strings, so both are members of one set.  A user without a row and one  *)
(* without a portalUrl look the same here.  The minute is kept as whether  *)
(* it has passed.                                                          *)
(***************************************************************************)
CONSTANTS
    Users,        \* accounts, each with a portalUrl or none
    Origins,      \* portal URLs, and the Origin headers requests carry
    Configured,   \* env.ALLOWED_ORIGINS
    Slots,        \* slots for concurrent requests
    NULL          \* SQL NULL, no Origin header

ASSUME ConfiguredAssumption == Configured \subseteq Origins
ASSUME CorsNullAssumption == NULL \notin Origins

VARIABLES
    portals,    \* the portalUrl column of the users table
    cached,     \* cachedPortalOrigins
    fresh,      \* Date.now() < cacheExpiresAt
    requests,   \* the request in each slot
    wasIn,      \* history: the origins that were some user's portal at some time
                \* since the process started,
    wasOut      \* and those that were nobody's at some time since

vars == <<portals, cached, fresh, requests, wasIn, wasOut>>

(* pc names where a request is: "querying" awaits the database, "answered" *)
(* has an answer that the process has not yet run on.                      *)
RequestState ==
    [pc : {"idle", "querying", "answered", "allowed", "refused"},
     origin : Origins \cup {NULL},
     seen : SUBSET Origins]

Idle == [pc |-> "idle", origin |-> NULL, seen |-> {}]

(* Mutant of PortalOrigins: users without a portal are not filtered out.   *)
PortalOriginsUnfiltered(table) == {table[u] : u \in Users}

(* What the query answers, as a set. *)
PortalOrigins(table) == {table[u] : u \in Users} \ {NULL}

(* Mutant of InitiallyFresh: the empty cache counts as good at first.      *)
InitiallyFreshYes == TRUE

(* cacheExpiresAt = 0 *)
InitiallyFresh == FALSE

Init ==
    /\ portals = [u \in Users |-> NULL]
    /\ cached = {}
    /\ fresh = InitiallyFresh
    /\ requests = [s \in Slots |-> Idle]
    /\ wasIn = PortalOrigins(portals)
    /\ wasOut = Origins \ PortalOrigins(portals)

Moves(s, request) == requests' = [requests EXCEPT ![s] = request]

(* No Origin header, or one of the configured origins. *)
Exempt(origin) == origin \in Configured \cup {NULL}

Verdict(origin, origins) == IF origin \in origins THEN "allowed" ELSE "refused"

(* Mutant of MustQuery: only an empty cache is refreshed.                  *)
MustQueryIfEmpty == ~fresh /\ cached = {}

MustQuery == ~fresh

-----------------------------------------------------------------------------
(* A request whose verdict needs no query. *)
DecideAtOnce(s, origin) ==
    /\ requests[s].pc = "idle"
    /\ Exempt(origin) \/ ~MustQuery
    /\ Moves(s, [pc |-> IF Exempt(origin) THEN "allowed" ELSE Verdict(origin, cached),
                 origin |-> origin, seen |-> {}])
    /\ UNCHANGED <<portals, cached, fresh, wasIn, wasOut>>

(* The cache is stale: this request queries the table, whether or not      *)
(* others are querying already.                                            *)
StartRefresh(s, origin) ==
    /\ requests[s].pc = "idle"
    /\ ~Exempt(origin)
    /\ MustQuery
    /\ Moves(s, [pc |-> "querying", origin |-> origin, seen |-> {}])
    /\ UNCHANGED <<portals, cached, fresh, wasIn, wasOut>>

(* The database answers with the table as it is now. *)
DatabaseAnswers(s) ==
    /\ requests[s].pc = "querying"
    /\ Moves(s, [requests[s] EXCEPT !.pc = "answered", !.seen = PortalOrigins(portals)])
    /\ UNCHANGED <<portals, cached, fresh, wasIn, wasOut>>

(* Mutant of Refreshed: origins are added to the cache, and never leave.   *)
RefreshedAdds(seen) == cached \cup seen

Refreshed(seen) == seen

(* The answer is installed over whatever is cached by now, good for a      *)
(* minute from now, and decides this request.                              *)
InstallRefresh(s) ==
    LET r == requests[s]
    IN /\ r.pc = "answered"
       /\ cached' = Refreshed(r.seen)
       /\ fresh' = TRUE
       /\ Moves(s, [r EXCEPT !.pc = Verdict(r.origin, Refreshed(r.seen)), !.seen = {}])
       /\ UNCHANGED <<portals, wasIn, wasOut>>

(* The query fails.  Nothing awaits the rejected promise: the request gets *)
(* no answer and the client gives up, or (see Crash) the process ends.     *)
RefreshFails(s) ==
    /\ requests[s].pc = "querying"
    /\ Moves(s, Idle)
    /\ UNCHANGED <<portals, cached, fresh, wasIn, wasOut>>

(* The request goes on to its handler, or is answered with the refusal. *)
Done(s) ==
    /\ requests[s].pc \in {"allowed", "refused"}
    /\ Moves(s, Idle)
    /\ UNCHANGED <<portals, cached, fresh, wasIn, wasOut>>

(* A minute has passed since the last refresh. *)
Expire ==
    /\ fresh
    /\ fresh' = FALSE
    /\ UNCHANGED <<portals, cached, requests, wasIn, wasOut>>

(* registerUser or updateProfile sets the portalUrl of a user. *)
SetPortal(u, url) ==
    /\ portals[u] # url
    /\ portals' = [portals EXCEPT ![u] = url]
    /\ wasIn' = wasIn \cup PortalOrigins(portals')
    /\ wasOut' = wasOut \cup (Origins \ PortalOrigins(portals'))
    /\ UNCHANGED <<cached, fresh, requests>>

(* The process ends, for that rejection or any other reason, and restarts. *)
Crash ==
    /\ cached' = {}
    /\ fresh' = InitiallyFresh
    /\ requests' = [s \in Slots |-> Idle]
    /\ wasIn' = PortalOrigins(portals)
    /\ wasOut' = Origins \ PortalOrigins(portals)
    /\ UNCHANGED portals

RequestStep(s) ==
    \/ \E origin \in Origins \cup {NULL} : DecideAtOnce(s, origin) \/ StartRefresh(s, origin)
    \/ DatabaseAnswers(s)
    \/ InstallRefresh(s)
    \/ RefreshFails(s)
    \/ Done(s)

Next ==
    \/ \E s \in Slots : RequestStep(s)
    \/ Expire
    \/ \E u \in Users, url \in Origins \cup {NULL} : SetPortal(u, url)
    \/ Crash

Spec == Init /\ [][Next]_vars

(* A query ends, its answer is run on, a response is sent, a minute passes. *)
Fairness ==
    /\ \A s \in Slots :
          /\ WF_vars(DatabaseAnswers(s) \/ RefreshFails(s))
          /\ WF_vars(InstallRefresh(s))
          /\ WF_vars(Done(s))
    /\ WF_vars(Expire)

FairSpec == Spec /\ Fairness

-----------------------------------------------------------------------------
(* Properties.                                                             *)

TypeOK ==
    /\ portals \in [Users -> Origins \cup {NULL}]
    /\ cached \subseteq Origins
    /\ fresh \in BOOLEAN
    /\ requests \in [Slots -> RequestState]
    /\ wasIn \subseteq Origins
    /\ wasOut \subseteq Origins

(* Every verdict was right at some time since the process started: an      *)
(* origin is refused only if it has been no portal, and allowed only if it *)
(* has been one.  The empty cache of a process that just started, or       *)
(* restarted, decides nothing.                                             *)
VerdictsGrounded ==
    \A s \in Slots :
        LET r == requests[s]
        IN /\ r.pc = "allowed" => Exempt(r.origin) \/ r.origin \in wasIn
           /\ r.pc = "refused" => ~Exempt(r.origin) /\ r.origin \in wasOut

(* Whether these origins and the table agree on origin o. *)
AgreesOn(o, origins) == o \in origins <=> o \in PortalOrigins(portals)

(* The process has caught up with the table as far as o goes: the cache,   *)
(* if it counts, the answers still to be installed, and the verdicts.      *)
CaughtUpOn(o) ==
    /\ fresh => AgreesOn(o, cached)
    /\ \A s \in Slots :
          LET r == requests[s]
          IN /\ r.pc = "answered" => AgreesOn(o, r.seen)
             /\ r.origin = o =>
                   /\ r.pc = "allowed" => Exempt(o) \/ o \in PortalOrigins(portals)
                   /\ r.pc = "refused" => o \notin PortalOrigins(portals)

(* Caught up once, it stays so until that origin itself is taken up or     *)
(* given up: no overlap of refreshes, failed query, expiry, restart or     *)
(* change of another client's portal brings an old verdict back.           *)
StaysCaughtUp ==
    [][\A o \in Origins :
          (CaughtUpOn(o) /\ AgreesOn(o, PortalOrigins(portals'))) => CaughtUpOn(o)']_vars

(* "Each white-labeled client's own portalUrl is a valid CORS origin": a   *)
(* portal that stays is refused only for a while, however many refreshes   *)
(* overlap and whichever answer is installed last.                         *)
EventuallyAllowed ==
    \A o \in Origins :
        <>[](o \in PortalOrigins(portals)) =>
            <>[](\A s \in Slots : ~(requests[s].pc = "refused" /\ requests[s].origin = o))

(* A portal that is given up, and not configured either, is allowed only   *)
(* for a while.                                                            *)
EventuallyRefused ==
    \A o \in Origins \ Configured :
        <>[](o \notin PortalOrigins(portals)) =>
            <>[](\A s \in Slots : ~(requests[s].pc = "allowed" /\ requests[s].origin = o))

=============================================================================
