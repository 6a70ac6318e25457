--------------------------- MODULE CorsCacheProofs ---------------------------
(***************************************************************************)
(* Theorems about CorsCache, for every number of users, origins and        *)
(* concurrent requests.                                                    *)
(***************************************************************************)
EXTENDS CorsCache, TLAPS

(* A set of origins held anywhere agrees, origin by origin, with the table *)
(* at some time since the process started.                                 *)
Grounded(origins) ==
    origins \subseteq wasIn /\ Origins \ origins \subseteq wasOut

IInv ==
    /\ TypeOK
    /\ Grounded(PortalOrigins(portals))
    /\ fresh => Grounded(cached)
    /\ \A s \in Slots : requests[s].pc = "answered" => Grounded(requests[s].seen)
    /\ \A s \in Slots : requests[s].pc \in {"querying", "answered"} =>
                            ~Exempt(requests[s].origin)
    /\ VerdictsGrounded

LEMMA PortalOriginsType ==
    ASSUME NEW table \in [Users -> Origins \cup {NULL}]
    PROVE  PortalOrigins(table) \in SUBSET Origins
BY DEF PortalOrigins

LEMMA VerdictCases ==
    ASSUME NEW o, NEW origins
    PROVE  /\ Verdict(o, origins) \in {"allowed", "refused"}
           /\ Verdict(o, origins) = "allowed" => o \in origins
           /\ Verdict(o, origins) = "refused" => o \notin origins
BY DEF Verdict

LEMMA ExemptCases ==
    ASSUME NEW o \in Origins \cup {NULL}, ~Exempt(o)
    PROVE  o \in Origins
BY DEF Exempt

(* One request becomes r, whose verdict, if it has one, is grounded. *)
LEMMA OneMoves ==
    ASSUME IInv, NEW s \in Slots, NEW r \in RequestState, Moves(s, r),
           UNCHANGED <<portals, cached, fresh, wasIn, wasOut>>,
           r.pc = "answered" => Grounded(r.seen),
           r.pc \in {"querying", "answered"} => ~Exempt(r.origin),
           r.pc = "allowed" => Exempt(r.origin) \/ r.origin \in wasIn,
           r.pc = "refused" => ~Exempt(r.origin) /\ r.origin \in wasOut
    PROVE  IInv'
<1>1. /\ requests' \in [Slots -> RequestState]
      /\ requests'[s] = r
      /\ \A t \in Slots \ {s} : requests'[t] = requests[t]
  BY DEF Moves, IInv, TypeOK
<1>2. TypeOK'
  BY <1>1 DEF IInv, TypeOK
<1>3. Grounded(PortalOrigins(portals))' /\ (fresh => Grounded(cached))'
  BY DEF IInv, Grounded
<1>5. (\A t \in Slots : requests[t].pc = "answered" => Grounded(requests[t].seen))'
  BY <1>1 DEF IInv, Grounded
<1>6. VerdictsGrounded'
  BY <1>1 DEF IInv, VerdictsGrounded, Exempt
<1>7. (\A t \in Slots : requests[t].pc \in {"querying", "answered"} => ~Exempt(requests[t].origin))'
  BY <1>1 DEF IInv, Exempt
<1> QED
  BY <1>2, <1>3, <1>5, <1>6, <1>7 DEF IInv

LEMMA IdleOK == Idle \in RequestState /\ Idle.pc = "idle"
BY DEF Idle, RequestState

LEMMA ArrivalSteps ==
    ASSUME IInv, NEW s \in Slots, NEW origin \in Origins \cup {NULL},
           DecideAtOnce(s, origin) \/ StartRefresh(s, origin)
    PROVE  IInv'
<1>1. CASE StartRefresh(s, origin)
  <2> DEFINE r == [pc |-> "querying", origin |-> origin, seen |-> {}]
  <2>1. r \in RequestState /\ r.pc = "querying" /\ r.origin = origin
    BY DEF RequestState
  <2>2. Moves(s, r) /\ ~Exempt(origin) /\ UNCHANGED <<portals, cached, fresh, wasIn, wasOut>>
    BY <1>1 DEF StartRefresh
  <2> HIDE DEF r
  <2> QED
    BY <2>1, <2>2, OneMoves
<1>2. CASE DecideAtOnce(s, origin) /\ Exempt(origin)
  <2> DEFINE r == [pc |-> "allowed", origin |-> origin, seen |-> {}]
  <2>1. r \in RequestState /\ r.pc = "allowed" /\ r.origin = origin
    BY DEF RequestState
  <2>2. Moves(s, r) /\ UNCHANGED <<portals, cached, fresh, wasIn, wasOut>>
    BY <1>2 DEF DecideAtOnce
  <2> HIDE DEF r
  <2> QED
    BY <1>2, <2>1, <2>2, OneMoves
<1>3. CASE DecideAtOnce(s, origin) /\ ~Exempt(origin)
  <2>0. PICK verdict : verdict = Verdict(origin, cached)
    OBVIOUS
  <2> DEFINE r == [pc |-> verdict, origin |-> origin, seen |-> {}]
  <2>1. fresh /\ origin \in Origins
    BY <1>3, ExemptCases DEF DecideAtOnce, MustQuery
  <2>2. r \in RequestState /\ r.pc = verdict /\ r.origin = origin
        /\ verdict \in {"allowed", "refused"}
    BY <2>0, VerdictCases DEF RequestState
  <2>3. Moves(s, r) /\ UNCHANGED <<portals, cached, fresh, wasIn, wasOut>>
    BY <1>3, <2>0 DEF DecideAtOnce
  <2>4. /\ verdict = "allowed" => origin \in wasIn
        /\ verdict = "refused" => origin \in wasOut
    BY <2>0, <2>1, VerdictCases DEF IInv, Grounded
  <2> HIDE DEF r
  <2> QED
    BY <1>3, <2>2, <2>3, <2>4, OneMoves
<1> QED
  BY <1>1, <1>2, <1>3

LEMMA AnswerStep ==
    ASSUME IInv, NEW s \in Slots, DatabaseAnswers(s)
    PROVE  IInv'
<1>0. PICK old, seen : old = requests[s] /\ seen = PortalOrigins(portals)
  OBVIOUS
<1> DEFINE r == [old EXCEPT !.pc = "answered", !.seen = seen]
<1>1. old \in RequestState /\ old.pc = "querying" /\ seen \in SUBSET Origins
  BY <1>0, PortalOriginsType DEF DatabaseAnswers, IInv, TypeOK
<1>2. r \in RequestState /\ r.pc = "answered" /\ r.origin = old.origin /\ r.seen = seen
  BY <1>1 DEF RequestState
<1>3. Moves(s, r) /\ UNCHANGED <<portals, cached, fresh, wasIn, wasOut>>
  BY <1>0 DEF DatabaseAnswers
<1>4. Grounded(seen) /\ ~Exempt(old.origin)
  BY <1>0, <1>1 DEF IInv
<1> HIDE DEF r
<1> QED
  BY <1>2, <1>3, <1>4, OneMoves

LEMMA InstallStep ==
    ASSUME IInv, NEW s \in Slots, InstallRefresh(s)
    PROVE  IInv'
<1>0. PICK old, seen, verdict :
         old = requests[s] /\ seen = old.seen /\ verdict = Verdict(old.origin, seen)
  OBVIOUS
<1> DEFINE r == [old EXCEPT !.pc = verdict, !.seen = {}]
<1>1. /\ old \in RequestState /\ seen \in SUBSET Origins /\ old.origin \in Origins
      /\ ~Exempt(old.origin) /\ Grounded(seen)
  BY <1>0, ExemptCases DEF InstallRefresh, IInv, TypeOK, RequestState
<1>2. r \in RequestState /\ r.pc = verdict /\ r.origin = old.origin
      /\ verdict \in {"allowed", "refused"}
  BY <1>0, <1>1, VerdictCases DEF RequestState
<1>3. /\ Moves(s, r) /\ cached' = seen /\ fresh' = TRUE
      /\ portals' = portals
      /\ wasIn' = wasIn /\ wasOut' = wasOut
  BY <1>0 DEF InstallRefresh, Refreshed
<1>4. /\ verdict = "allowed" => old.origin \in wasIn
      /\ verdict = "refused" => old.origin \in wasOut
  BY <1>0, <1>1, VerdictCases DEF Grounded
<1> HIDE DEF r
<1>7. /\ requests' \in [Slots -> RequestState]
      /\ requests'[s] = r
      /\ \A t \in Slots \ {s} : requests'[t] = requests[t]
  BY <1>2, <1>3 DEF Moves, IInv, TypeOK
<1>8. TypeOK'
  BY <1>1, <1>3, <1>7 DEF IInv, TypeOK
<1>9. Grounded(PortalOrigins(portals))' /\ Grounded(cached)'
  BY <1>1, <1>3 DEF IInv, Grounded
<1>10. (\A t \in Slots : requests[t].pc = "answered" => Grounded(requests[t].seen))'
  BY <1>2, <1>3, <1>7 DEF IInv, Grounded
<1>11. VerdictsGrounded'
  BY <1>1, <1>2, <1>3, <1>4, <1>7 DEF IInv, VerdictsGrounded, Exempt
<1>12. (\A t \in Slots : requests[t].pc \in {"querying", "answered"} => ~Exempt(requests[t].origin))'
  BY <1>2, <1>7 DEF IInv, Exempt
<1> QED
  BY <1>8, <1>9, <1>10, <1>11, <1>12 DEF IInv

LEMMA EndSteps ==
    ASSUME IInv, NEW s \in Slots, RefreshFails(s) \/ Done(s)
    PROVE  IInv'
BY IdleOK, OneMoves DEF RefreshFails, Done

(* The history only grows while the process runs. *)
LEMMA PortalStep ==
    ASSUME IInv, NEW u \in Users, NEW url \in Origins \cup {NULL}, SetPortal(u, url)
    PROVE  IInv'
<1>1. /\ portals' \in [Users -> Origins \cup {NULL}]
      /\ cached' = cached /\ fresh' = fresh /\ requests' = requests
  BY DEF SetPortal, IInv, TypeOK
<1>2. /\ wasIn' = wasIn \cup PortalOrigins(portals')
      /\ wasOut' = wasOut \cup (Origins \ PortalOrigins(portals'))
  BY DEF SetPortal
<1>3. PortalOrigins(portals') \in SUBSET Origins
  BY <1>1, PortalOriginsType
<1>4. TypeOK'
  BY <1>1, <1>2, <1>3 DEF IInv, TypeOK
<1>5. Grounded(PortalOrigins(portals))'
  <2>1. PortalOrigins(portals)' = PortalOrigins(portals')
    BY DEF PortalOrigins
  <2> QED
    BY <1>2, <2>1 DEF Grounded
<1>6. (fresh => Grounded(cached))'
  BY <1>1, <1>2 DEF IInv, Grounded
<1>7. (\A t \in Slots : requests[t].pc = "answered" => Grounded(requests[t].seen))'
  BY <1>1, <1>2 DEF IInv, Grounded
<1>8. VerdictsGrounded'
  BY <1>1, <1>2 DEF IInv, VerdictsGrounded, Exempt
<1>9. (\A t \in Slots : requests[t].pc \in {"querying", "answered"} => ~Exempt(requests[t].origin))'
  BY <1>1 DEF IInv, Exempt
<1> QED
  BY <1>4, <1>5, <1>6, <1>7, <1>8, <1>9 DEF IInv

LEMMA CrashStep ==
    ASSUME IInv, Crash
    PROVE  IInv'
<1>1. /\ cached' = {} /\ fresh' = FALSE /\ portals' = portals
      /\ wasIn' = PortalOrigins(portals)
      /\ wasOut' = Origins \ PortalOrigins(portals)
      /\ requests' \in [Slots -> RequestState]
      /\ \A s \in Slots : requests'[s].pc = "idle"
  BY IdleOK DEF Crash, InitiallyFresh
<1>2. /\ wasIn' \in SUBSET Origins /\ wasOut' \in SUBSET Origins
      /\ Grounded(PortalOrigins(portals))'
  BY <1>1, PortalOriginsType DEF IInv, TypeOK, Grounded
<1>3. TypeOK'
  BY <1>1, <1>2 DEF IInv, TypeOK
<1>4. VerdictsGrounded'
  BY <1>1 DEF VerdictsGrounded
<1> QED
  BY <1>1, <1>2, <1>3, <1>4 DEF IInv

LEMMA InitIInv ==
    ASSUME Init
    PROVE  IInv
<1>1. /\ cached = {} /\ fresh = FALSE
      /\ portals \in [Users -> Origins \cup {NULL}]
      /\ wasIn = PortalOrigins(portals)
      /\ wasOut = Origins \ PortalOrigins(portals)
      /\ requests \in [Slots -> RequestState]
      /\ \A s \in Slots : requests[s].pc = "idle"
  BY IdleOK DEF Init, InitiallyFresh
<1>2. /\ wasIn \in SUBSET Origins /\ wasOut \in SUBSET Origins
      /\ Grounded(PortalOrigins(portals))
  BY <1>1, PortalOriginsType DEF Grounded
<1> QED
  BY <1>1, <1>2 DEF IInv, TypeOK, VerdictsGrounded

LEMMA NextIInv ==
    ASSUME IInv, [Next]_vars
    PROVE  IInv'
<1>1. ASSUME NEW s \in Slots, RequestStep(s)
      PROVE  IInv'
  BY <1>1, ArrivalSteps, AnswerStep, InstallStep, EndSteps DEF RequestStep
<1>2. CASE Expire
  BY <1>2 DEF Expire, IInv, TypeOK, Grounded, VerdictsGrounded, Exempt
<1>3. CASE UNCHANGED vars
  BY <1>3 DEF vars, IInv, TypeOK, Grounded, VerdictsGrounded, Exempt
<1> QED
  BY <1>1, <1>2, <1>3, PortalStep, CrashStep DEF Next

(* Every reachable state satisfies the inductive invariant. *)
THEOREM Invariance == Spec => []IInv
BY InitIInv, NextIInv, PTL DEF Spec

(* The cache holds origins only, and every request is in one of its states. *)
THEOREM TypeCorrect == Spec => []TypeOK
<1>1. IInv => TypeOK
  BY DEF IInv
<1> QED
  BY <1>1, Invariance, PTL

(* Every verdict was right at some time since the process started. *)
THEOREM VerdictsWereRight == Spec => []VerdictsGrounded
<1>1. IInv => VerdictsGrounded
  BY DEF IInv
<1> QED
  BY <1>1, Invariance, PTL

-----------------------------------------------------------------------------
(* What the process has caught up with, it does not fall behind on.        *)

(* One request's part of CaughtUpOn, when o is a portal iff In holds. *)
RequestCaughtUp(o, In, r) ==
    /\ r.pc = "answered" => (o \in r.seen <=> In)
    /\ r.origin = o => /\ r.pc = "allowed" => Exempt(o) \/ In
                       /\ r.pc = "refused" => ~In

LEMMA CaughtUpParts ==
    ASSUME NEW o
    PROVE  CaughtUpOn(o) <=>
              /\ fresh => (o \in cached <=> o \in PortalOrigins(portals))
              /\ \A s \in Slots : RequestCaughtUp(o, o \in PortalOrigins(portals), requests[s])
BY DEF CaughtUpOn, AgreesOn, RequestCaughtUp

(* A step that keeps both parts, request by request. *)
LEMMA StillCaughtUp ==
    ASSUME NEW o, CaughtUpOn(o),
           o \in PortalOrigins(portals') <=> o \in PortalOrigins(portals),
           fresh' => (o \in cached' <=> o \in PortalOrigins(portals)),
           \A s \in Slots : \/ requests'[s] = requests[s]
                            \/ RequestCaughtUp(o, o \in PortalOrigins(portals), requests'[s])
    PROVE  CaughtUpOn(o)'
<1>1. o \in PortalOrigins(portals)' <=> o \in PortalOrigins(portals)
  BY DEF PortalOrigins
<1>2. \A s \in Slots : RequestCaughtUp(o, o \in PortalOrigins(portals), requests'[s])
  BY CaughtUpParts
<1> QED
  BY <1>1, <1>2 DEF CaughtUpOn, AgreesOn, RequestCaughtUp, Exempt

(* A step that moves one request only. *)
LEMMA OneCaughtUp ==
    ASSUME NEW o, CaughtUpOn(o), IInv, NEW s \in Slots, NEW r, Moves(s, r),
           UNCHANGED <<portals, cached, fresh>>,
           RequestCaughtUp(o, o \in PortalOrigins(portals), r)
    PROVE  CaughtUpOn(o)'
<1>1. /\ requests'[s] = r
      /\ \A t \in Slots \ {s} : requests'[t] = requests[t]
  BY DEF Moves, IInv, TypeOK
<1>2. fresh' => (o \in cached' <=> o \in PortalOrigins(portals))
  BY CaughtUpParts
<1> QED
  BY <1>1, <1>2, StillCaughtUp

LEMMA StepCaughtUp ==
    ASSUME IInv, NEW o \in Origins, CaughtUpOn(o), [Next]_vars,
           o \in PortalOrigins(portals') <=> o \in PortalOrigins(portals)
    PROVE  CaughtUpOn(o)'
<1>1. ASSUME NEW s \in Slots, NEW origin \in Origins \cup {NULL}, DecideAtOnce(s, origin)
      PROVE  CaughtUpOn(o)'
  <2>0. PICK pc : pc = IF Exempt(origin) THEN "allowed" ELSE Verdict(origin, cached)
    OBVIOUS
  <2> DEFINE r == [pc |-> pc, origin |-> origin, seen |-> {}]
  <2>1. RequestCaughtUp(o, o \in PortalOrigins(portals), r)
    <3>1. CASE Exempt(origin)
      BY <2>0, <3>1 DEF RequestCaughtUp
    <3>2. CASE ~Exempt(origin)
      <4>1. fresh
        BY <1>1, <3>2 DEF DecideAtOnce, MustQuery
      <4>2. o \in cached <=> o \in PortalOrigins(portals)
        BY <4>1, CaughtUpParts
      <4> QED
        BY <2>0, <3>2, <4>2, VerdictCases DEF RequestCaughtUp
    <3> QED
      BY <3>1, <3>2
  <2>2. Moves(s, r) /\ UNCHANGED <<portals, cached, fresh>>
    BY <1>1, <2>0 DEF DecideAtOnce
  <2> HIDE DEF r
  <2> QED
    BY <2>1, <2>2, OneCaughtUp
<1>2. ASSUME NEW s \in Slots, NEW origin \in Origins \cup {NULL}, StartRefresh(s, origin)
      PROVE  CaughtUpOn(o)'
  <2> DEFINE r == [pc |-> "querying", origin |-> origin, seen |-> {}]
  <2>1. RequestCaughtUp(o, o \in PortalOrigins(portals), r)
    BY DEF RequestCaughtUp
  <2>2. Moves(s, r) /\ UNCHANGED <<portals, cached, fresh>>
    BY <1>2 DEF StartRefresh
  <2> HIDE DEF r
  <2> QED
    BY <2>1, <2>2, OneCaughtUp
<1>3. ASSUME NEW s \in Slots, DatabaseAnswers(s)
      PROVE  CaughtUpOn(o)'
  <2>0. PICK old, seen : old = requests[s] /\ seen = PortalOrigins(portals)
    OBVIOUS
  <2> DEFINE r == [old EXCEPT !.pc = "answered", !.seen = seen]
  <2>1. old \in RequestState
    BY <2>0 DEF IInv, TypeOK
  <2>2. r.pc = "answered" /\ r.seen = PortalOrigins(portals)
    BY <2>0, <2>1 DEF RequestState
  <2>3. RequestCaughtUp(o, o \in PortalOrigins(portals), r)
    BY <2>2 DEF RequestCaughtUp
  <2>4. Moves(s, r) /\ UNCHANGED <<portals, cached, fresh>>
    BY <1>3, <2>0 DEF DatabaseAnswers
  <2> HIDE DEF r
  <2> QED
    BY <2>3, <2>4, OneCaughtUp
<1>4. ASSUME NEW s \in Slots, InstallRefresh(s)
      PROVE  CaughtUpOn(o)'
  <2>0. PICK old, seen, verdict :
           old = requests[s] /\ seen = old.seen /\ verdict = Verdict(old.origin, seen)
    OBVIOUS
  <2> DEFINE r == [old EXCEPT !.pc = verdict, !.seen = {}]
  <2>1. old \in RequestState /\ old.pc = "answered"
    BY <1>4, <2>0 DEF InstallRefresh, IInv, TypeOK
  <2>2. o \in seen <=> o \in PortalOrigins(portals)
    BY <2>0, <2>1, CaughtUpParts DEF RequestCaughtUp
  <2>3. r.pc = verdict /\ r.origin = old.origin
    BY <2>1 DEF RequestState
  <2>4. RequestCaughtUp(o, o \in PortalOrigins(portals), r)
    BY <2>0, <2>2, <2>3, VerdictCases DEF RequestCaughtUp
  <2>5. cached' = seen /\ Moves(s, r)
    BY <1>4, <2>0 DEF InstallRefresh, Refreshed
  <2> HIDE DEF r
  <2>6. requests'[s] = r /\ \A t \in Slots \ {s} : requests'[t] = requests[t]
    BY <2>5 DEF Moves, IInv, TypeOK
  <2> QED
    BY <2>2, <2>4, <2>5, <2>6, StillCaughtUp
<1>5. ASSUME NEW s \in Slots, RefreshFails(s) \/ Done(s)
      PROVE  CaughtUpOn(o)'
  <2>1. RequestCaughtUp(o, o \in PortalOrigins(portals), Idle)
    BY IdleOK DEF RequestCaughtUp
  <2> QED
    BY <1>5, <2>1, OneCaughtUp DEF RefreshFails, Done
<1>6. CASE Expire \/ \E u \in Users, url \in Origins \cup {NULL} : SetPortal(u, url)
  <2>1. /\ fresh' => fresh
        /\ cached' = cached /\ requests' = requests
    BY <1>6 DEF Expire, SetPortal
  <2> QED
    BY <2>1, CaughtUpParts, StillCaughtUp
<1>7. CASE Crash
  <2>1. fresh' = FALSE /\ \A s \in Slots : requests'[s] = Idle
    BY <1>7 DEF Crash, InitiallyFresh
  <2>2. RequestCaughtUp(o, o \in PortalOrigins(portals), Idle)
    BY IdleOK DEF RequestCaughtUp
  <2> QED
    BY <2>1, <2>2, StillCaughtUp
<1>8. CASE UNCHANGED vars
  BY <1>8, CaughtUpParts, StillCaughtUp DEF vars
<1> QED
  BY <1>1, <1>2, <1>3, <1>4, <1>5, <1>6, <1>7, <1>8 DEF Next, RequestStep

(* Once the cache, the answers and the verdicts are right for an origin,   *)
(* only a change of that origin's own standing can make one wrong again.   *)
THEOREM CaughtUpForGood == Spec => StaysCaughtUp
<1>1. IInv /\ [Next]_vars =>
         [\A o \in Origins :
             (CaughtUpOn(o) /\ AgreesOn(o, PortalOrigins(portals'))) => CaughtUpOn(o)']_vars
  BY StepCaughtUp DEF AgreesOn
<1> QED
  BY <1>1, Invariance, PTL DEF Spec, StaysCaughtUp

=============================================================================
