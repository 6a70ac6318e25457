------------------------ MODULE MetaConnectionProofs ------------------------
(***************************************************************************)
(* Theorems about MetaConnection, for every number of users, apps, people, *)
(* ad accounts, tokens, concurrent flows, calls and job runs.              *)
(***************************************************************************)
EXTENDS MetaConnection, TLAPS

(* A flow past the consent dialog works with a token issued for exactly    *)
(* the user, app and person it carries.                                    *)
FlowTokens ==
    \A f \in Flows : flows[f].pc \notin {"idle", "consent"} =>
        minted[flows[f].token] =
            [user |-> flows[f].user, app |-> flows[f].app, fb |-> flows[f].fb]

DeadWasIssued == dead \subseteq IssuedTokens

(* The token in a row is in the history of the row. *)
RowsHold ==
    \A a \in AdAccounts : Connected(a) => accounts[a].token \in held[a]

(* A call was given a row that exists and a token the row has stored; it   *)
(* is rejected only for a dead one.                                        *)
CallsHold ==
    \A c \in Callers : calls[c].pc # "idle" =>
        /\ Connected(calls[c].account)
        /\ calls[c].row.token \in held[calls[c].account]
        /\ calls[c].pc = "rejected" => calls[c].row.token \in dead

(* A webhook is sent only after a token of its app and person was killed.  *)
EventsHaveCause ==
    \A e \in events : \E t \in dead : minted[t].app = e.app /\ minted[t].fb = e.fb

IInv ==
    /\ TypeOK
    /\ FlowTokens
    /\ DeadWasIssued
    /\ ProvenanceMatches
    /\ RowsHold
    /\ CallsHold
    /\ EventsHaveCause
    /\ InactiveHasCause


(* IInv, slot by slot: what one flow and one call have to satisfy. *)
FlowOK(flow) ==
    /\ flow \in FlowState
    /\ FlowLocalsSet(flow)
    /\ flow.pc \notin {"idle", "consent"} =>
          minted[flow.token] = [user |-> flow.user, app |-> flow.app, fb |-> flow.fb]

CallOK(call) ==
    /\ call \in CallState
    /\ CallLocalsSet(call)
    /\ call.pc # "idle" =>
          /\ Connected(call.account)
          /\ call.row.token \in held[call.account]
          /\ call.pc = "rejected" => call.row.token \in dead

LEMMA RowNotNull == \A r \in Row : r # NULL
BY NullAssumption

LEMMA GrantNotNull == \A g \in Grant : g # NULL
BY NullAssumption

(* An idle slot satisfies both, whatever the rest of the state. *)
LEMMA IdleOK == FlowOK(IdleFlow) /\ CallOK(IdleCall)
BY DEF FlowOK, CallOK, IdleFlow, IdleCall, FlowState, CallState,
       FlowLocalsSet, CallLocalsSet

LEMMA SlotsOK ==
    ASSUME IInv
    PROVE  /\ \A f \in Flows : FlowOK(flows[f])
           /\ \A c \in Callers : CallOK(calls[c])
BY DEF IInv, TypeOK, FlowTokens, CallsHold, FlowOK, CallOK

(* A step that only moves one flow preserves IInv if the flow stays OK. *)
LEMMA FlowMoves ==
    ASSUME IInv, NEW f \in Flows, NEW new, FlowOK(new),
           flows' = [flows EXCEPT ![f] = new],
           UNCHANGED <<db, calls, meta>>
    PROVE  IInv'
<1>1. /\ accounts' = accounts /\ held' = held /\ calls' = calls
      /\ minted' = minted /\ dead' = dead /\ lapsed' = lapsed /\ events' = events
  BY DEF db, meta
<1>2. /\ flows' \in [Flows -> FlowState]
      /\ \A g \in Flows : FlowLocalsSet(flows'[g])
  BY SMTT(30) DEF IInv, TypeOK, FlowOK
<1>3. TypeOK'
  BY <1>1, <1>2 DEF IInv, TypeOK
<1>4. FlowTokens'
  BY <1>1 DEF IInv, TypeOK, FlowTokens, FlowOK
<1>5. DeadWasIssued' /\ ProvenanceMatches' /\ RowsHold' /\ CallsHold'
      /\ EventsHaveCause' /\ InactiveHasCause'
  BY <1>1 DEF IInv, DeadWasIssued, ProvenanceMatches, RowsHold, CallsHold,
              EventsHaveCause, InactiveHasCause, IssuedTokens, Connected
<1> QED
  BY <1>3, <1>4, <1>5 DEF IInv

(* A step that only moves calls preserves IInv if every call stays OK. *)
LEMMA CallsMove ==
    ASSUME IInv, calls' \in [Callers -> CallState],
           \A c \in Callers : CallOK(calls'[c]),
           UNCHANGED <<db, flows, meta>>
    PROVE  IInv'
<1>1. /\ accounts' = accounts /\ held' = held /\ flows' = flows
      /\ minted' = minted /\ dead' = dead /\ lapsed' = lapsed /\ events' = events
  BY DEF db, meta
<1>2. TypeOK'
  BY <1>1 DEF IInv, TypeOK, CallOK
<1>3. CallsHold'
  BY <1>1 DEF CallsHold, CallOK, Connected
<1>4. FlowTokens' /\ DeadWasIssued' /\ ProvenanceMatches' /\ RowsHold'
      /\ EventsHaveCause' /\ InactiveHasCause'
  BY <1>1 DEF IInv, FlowTokens, DeadWasIssued, ProvenanceMatches, RowsHold,
              EventsHaveCause, InactiveHasCause, IssuedTokens, Connected
<1> QED
  BY <1>2, <1>3, <1>4 DEF IInv

LEMMA CallMoves ==
    ASSUME IInv, NEW c \in Callers, NEW new, CallOK(new),
           calls' = [calls EXCEPT ![c] = new],
           UNCHANGED <<db, flows, meta>>
    PROVE  IInv'
<1>1. /\ calls' \in [Callers -> CallState]
      /\ \A d \in Callers : CallOK(calls'[d])
  BY SlotsOK, SMTT(30) DEF IInv, TypeOK, CallOK
<1> QED
  BY <1>1, CallsMove

-----------------------------------------------------------------------------
(* The steps of a flow that leave the database alone.                      *)

LEMMA AfterAccountOK ==
    ASSUME NEW flow, FlowOK(flow), flow.pc \in {"finding", "upserting"},
           NEW a \in AdAccounts
    PROVE  FlowOK(AfterAccount(flow, a))
<1> DEFINE next == [flow EXCEPT !.pc = "finding", !.todo = @ \ {a}, !.target = NULL]
<1>1. next \in FlowState /\ FlowLocalsSet(next)
  BY DEF FlowOK, FlowState, FlowLocalsSet
<1>2. /\ next.token = flow.token /\ next.user = flow.user
      /\ next.app = flow.app /\ next.fb = flow.fb
  BY DEF FlowOK, FlowState
<1>3. FlowOK(next)
  BY <1>1, <1>2 DEF FlowOK
<1> QED
  BY <1>3, IdleOK DEF AfterAccount

LEMMA LocalFlowSteps ==
    ASSUME IInv, NEW f \in Flows,
           \/ \E u \in Users, app \in Apps : StartOAuth(f, u, app)
           \/ OAuthRefused(f)
           \/ \E d \in BOOLEAN : ExchangeCode(f, d)
           \/ \E as \in SUBSET AdAccounts : FetchAdAccounts(f, as)
           \/ \E a \in AdAccounts : FindExisting(f, a)
           \/ ConnectFind(f)
           \/ FlowFails(f)
    PROVE  IInv'
<1> DEFINE flow == flows[f]
<1>0. FlowOK(flow)
  BY SlotsOK
<1>1. ASSUME NEW u \in Users, NEW app \in Apps, StartOAuth(f, u, app)
      PROVE  IInv'
  <2>1. FlowOK([IdleFlow EXCEPT !.pc = "consent", !.user = u, !.app = app])
    BY DEF FlowOK, IdleFlow, FlowState, FlowLocalsSet
  <2> QED
    BY <1>1, <2>1, FlowMoves DEF StartOAuth
<1>2. CASE OAuthRefused(f) \/ FlowFails(f)
  BY <1>2, IdleOK, FlowMoves DEF OAuthRefused, FlowFails
<1>3. ASSUME NEW d \in BOOLEAN, ExchangeCode(f, d)
      PROVE  IInv'
  <2> DEFINE new == [flow EXCEPT !.pc = "fetching", !.expiresIn = d]
  <2>1. FlowOK(new)
    BY <1>0, <1>3 DEF ExchangeCode, FlowOK, FlowState, FlowLocalsSet
  <2>2. flows' = [flows EXCEPT ![f] = new]
    BY <1>3 DEF ExchangeCode
  <2> QED
    BY <1>3, <2>1, <2>2, FlowMoves DEF ExchangeCode
<1>4. ASSUME NEW as \in SUBSET AdAccounts, FetchAdAccounts(f, as)
      PROVE  IInv'
  <2> DEFINE new == IF as = {} THEN IdleFlow
                    ELSE [flow EXCEPT !.pc = "finding", !.todo = as]
  <2>1. FlowOK(new)
    BY <1>0, <1>4, IdleOK DEF FetchAdAccounts, FlowOK, FlowState, FlowLocalsSet
  <2>2. flows' = [flows EXCEPT ![f] = new]
    BY <1>4 DEF FetchAdAccounts
  <2> QED
    BY <1>4, <2>1, <2>2, FlowMoves DEF FetchAdAccounts
<1>5. ASSUME NEW a \in AdAccounts, FindExisting(f, a)
      PROVE  IInv'
  <2> DEFINE new == IF SkipsForeign(accounts[a], flow.user) THEN AfterAccount(flow, a)
                    ELSE [flow EXCEPT !.pc = "upserting", !.target = a]
  <2>1. FlowOK([flow EXCEPT !.pc = "upserting", !.target = a])
    BY <1>0, <1>5 DEF FindExisting, FlowOK, FlowState, FlowLocalsSet
  <2>2. FlowOK(new)
    BY <1>0, <1>5, <2>1, AfterAccountOK DEF FindExisting
  <2>3. flows' = [flows EXCEPT ![f] = new]
    BY <1>5 DEF FindExisting
  <2> QED
    BY <1>5, <2>2, <2>3, FlowMoves DEF FindExisting
<1>6. CASE ConnectFind(f)
  <2> DEFINE new == IF Connected(flow.target) THEN IdleFlow
                    ELSE [flow EXCEPT !.pc = "creating"]
  <2>1. FlowOK(new)
    BY <1>0, <1>6, IdleOK DEF ConnectFind, FlowOK, FlowState, FlowLocalsSet
  <2>2. flows' = [flows EXCEPT ![f] = new]
    BY <1>6 DEF ConnectFind
  <2> QED
    BY <1>6, <2>1, <2>2, FlowMoves DEF ConnectFind
<1> QED
  BY <1>1, <1>2, <1>3, <1>4, <1>5, <1>6

-----------------------------------------------------------------------------
(* The steps that issue a token: the callback and the manual connect.      *)

LEMMA TokenIssued ==
    ASSUME IInv, NEW f \in Flows, NEW t \in Tokens, NEW g \in Grant,
           minted[t] = NULL, minted' = [minted EXCEPT ![t] = g],
           NEW new \in FlowState, FlowLocalsSet(new), new.token = t,
           g = [user |-> new.user, app |-> new.app, fb |-> new.fb],
           flows' = [flows EXCEPT ![f] = new],
           UNCHANGED <<db, calls, dead, lapsed, events>>
    PROVE  IInv'
<1>1. /\ accounts' = accounts /\ held' = held /\ calls' = calls
      /\ dead' = dead /\ lapsed' = lapsed /\ events' = events
  BY DEF db
<1>2. /\ minted' \in [Tokens -> Grant \cup {NULL}]
      /\ \A s \in IssuedTokens : s \in Tokens /\ s # t /\ minted'[s] = minted[s]
  BY DEF IInv, TypeOK, IssuedTokens
<1>3. IssuedTokens \subseteq IssuedTokens'
  BY <1>2 DEF IssuedTokens
<1>4. TypeOK'
  <2>1. flows' \in [Flows -> FlowState] /\ \A h \in Flows : FlowLocalsSet(flows'[h])
    BY SMTT(30) DEF IInv, TypeOK
  <2> QED
    BY <1>1, <1>2, <2>1 DEF IInv, TypeOK
<1>5. FlowTokens'
  <2> SUFFICES ASSUME NEW h \in Flows, flows'[h].pc \notin {"idle", "consent"}
               PROVE  minted'[flows'[h].token] =
                         [user |-> flows'[h].user, app |-> flows'[h].app, fb |-> flows'[h].fb]
    BY DEF FlowTokens
  <2>1. CASE h = f
    BY <2>1 DEF IInv, TypeOK
  <2>2. CASE h # f
    <3>1. flows'[h] = flows[h] /\ flows[h] \in FlowState /\ flows[h].token \in Tokens
      BY <2>2 DEF IInv, TypeOK, FlowLocalsSet
    <3>2. minted[flows[h].token] =
             [user |-> flows[h].user, app |-> flows[h].app, fb |-> flows[h].fb]
      BY <3>1 DEF IInv, FlowTokens
    <3>3. flows[h].token # t
      <4>1. minted[flows[h].token] \in Grant \/ minted[flows[h].token] = NULL
        BY <3>1 DEF IInv, TypeOK
      <4>2. flows[h].pc \notin {"idle", "consent"} /\ flows[h].user \in Users
            /\ flows[h].app \in Apps \cup {NULL} /\ flows[h].fb \in FbUsers \cup {NULL}
        BY <3>1 DEF IInv, TypeOK, FlowLocalsSet, FlowState
      <4>3. minted[flows[h].token] \in Grant
        BY <3>2, <4>2 DEF Grant
      <4> QED
        BY <4>3, GrantNotNull
    <3> QED
      BY <3>1, <3>2, <3>3 DEF IInv, TypeOK
  <2> QED
    BY <2>1, <2>2
<1>6. DeadWasIssued' /\ RowsHold' /\ CallsHold'
  BY <1>1, <1>3 DEF IInv, DeadWasIssued, RowsHold, CallsHold, Connected
<1>7. ProvenanceMatches'
  BY <1>1, <1>2, <1>3 DEF IInv, ProvenanceMatches, Connected
<1>8. EventsHaveCause' /\ InactiveHasCause'
  BY <1>1, <1>2 DEF IInv, DeadWasIssued, EventsHaveCause, InactiveHasCause, Connected
<1> QED
  BY <1>4, <1>5, <1>6, <1>7, <1>8 DEF IInv

LEMMA IssuingSteps ==
    ASSUME IInv, NEW f \in Flows,
           \/ \E fb \in FbUsers, t \in Tokens : OAuthCallback(f, fb, t)
           \/ \E u \in Users, a \in AdAccounts, t \in Tokens, d \in BOOLEAN :
                 ConnectAccount(f, u, a, t, d)
    PROVE  IInv'
<1>1. ASSUME NEW fb \in FbUsers, NEW t \in Tokens, OAuthCallback(f, fb, t)
      PROVE  IInv'
  <2> DEFINE new == [flows[f] EXCEPT !.pc = "exchanging", !.fb = fb, !.token = t]
             g == [user |-> new.user, app |-> new.app, fb |-> new.fb]
  <2>1. flows[f] \in FlowState /\ flows[f].user \in Users /\ flows[f].app \in Apps
    BY <1>1 DEF IInv, TypeOK, OAuthCallback, FlowLocalsSet
  <2>2. new \in FlowState /\ FlowLocalsSet(new) /\ new.token = t /\ g \in Grant
        /\ new.user = flows[f].user /\ new.app = flows[f].app /\ new.fb = fb
    BY <2>1 DEF FlowState, FlowLocalsSet, Grant
  <2>3. flows' = [flows EXCEPT ![f] = new] /\ minted' = [minted EXCEPT ![t] = g]
        /\ minted[t] = NULL /\ UNCHANGED <<db, calls, dead, lapsed, events>>
    BY <1>1, <2>2 DEF OAuthCallback
  <2> HIDE DEF new, g
  <2> QED
    BY <2>2, <2>3, TokenIssued DEF g
<1>2. ASSUME NEW u \in Users, NEW a \in AdAccounts, NEW t \in Tokens, NEW d \in BOOLEAN,
             ConnectAccount(f, u, a, t, d)
      PROVE  IInv'
  <2> DEFINE new == [IdleFlow EXCEPT !.pc = "connecting", !.user = u, !.token = t,
                                     !.expiresIn = d, !.target = a]
             g == [user |-> new.user, app |-> new.app, fb |-> new.fb]
  <2>1. new \in FlowState /\ FlowLocalsSet(new) /\ new.token = t /\ g \in Grant
        /\ g = OwnGrant(u)
    BY DEF IdleFlow, FlowState, FlowLocalsSet, Grant, OwnGrant
  <2>2. flows' = [flows EXCEPT ![f] = new] /\ minted' = [minted EXCEPT ![t] = g]
        /\ minted[t] \in {NULL, g} /\ UNCHANGED <<db, calls, dead, lapsed, events>>
    BY <1>2, <2>1 DEF ConnectAccount
  <2> HIDE DEF new
  <2>3. CASE minted[t] = NULL
    <3> HIDE DEF g
    <3> QED
      BY <2>1, <2>2, <2>3, TokenIssued DEF g
  <2>4. CASE minted[t] = g
    <3>1. minted' = minted
      BY <2>2, <2>4 DEF IInv, TypeOK
    <3>2. FlowOK(new)
      BY <2>1, <2>4 DEF FlowOK
    <3> QED
      BY <2>2, <3>1, <3>2, FlowMoves DEF meta
  <2> QED
    BY <2>2, <2>3, <2>4
<1> QED
  BY <1>1, <1>2

-----------------------------------------------------------------------------
(* The steps that write a row: the upsert and the manual create.           *)

LEMMA RowWritten ==
    ASSUME IInv, NEW f \in Flows, NEW a \in AdAccounts, NEW row \in Row, NEW new,
           FlowOK(new), row.isActive, row.token \in Tokens,
           minted[row.token] \in Grant,
           row.metaAppId = minted[row.token].app,
           row.facebookUserId = minted[row.token].fb,
           accounts' = [accounts EXCEPT ![a] = row],
           held' = [held EXCEPT ![a] = @ \cup {row.token}],
           flows' = [flows EXCEPT ![f] = new],
           UNCHANGED <<calls, meta>>
    PROVE  IInv'
<1>1. /\ calls' = calls /\ minted' = minted
      /\ dead' = dead /\ lapsed' = lapsed /\ events' = events
  BY DEF meta
<1>2. TypeOK'
  <2>1. flows' \in [Flows -> FlowState] /\ \A h \in Flows : FlowLocalsSet(flows'[h])
    BY SMTT(30) DEF IInv, TypeOK, FlowOK
  <2>2. accounts' \in [AdAccounts -> Row \cup {NULL}]
    BY DEF IInv, TypeOK
  <2>3. held' \in [AdAccounts -> SUBSET Tokens]
    BY DEF IInv, TypeOK
  <2> QED
    BY <1>1, <2>1, <2>2, <2>3 DEF IInv, TypeOK
<1>3. FlowTokens'
  BY <1>1 DEF IInv, TypeOK, FlowTokens, FlowOK
<1>4. /\ accounts'[a] = row /\ held'[a] = held[a] \cup {row.token}
      /\ \A b \in AdAccounts \ {a} : accounts'[b] = accounts[b] /\ held'[b] = held[b]
      /\ row # NULL
  BY RowNotNull DEF IInv, TypeOK
<1>5. DeadWasIssued' /\ EventsHaveCause'
  BY <1>1 DEF IInv, DeadWasIssued, EventsHaveCause, IssuedTokens
<1>6. ProvenanceMatches'
  <2>1. row.token \in IssuedTokens
    BY GrantNotNull DEF IssuedTokens
  <2> QED
    BY <1>1, <1>4, <2>1 DEF IInv, ProvenanceMatches, Connected, IssuedTokens
<1>7. RowsHold' /\ InactiveHasCause'
  BY <1>1, <1>4 DEF IInv, RowsHold, InactiveHasCause, Connected
<1>8. CallsHold'
  <2> SUFFICES ASSUME NEW c \in Callers, calls[c].pc # "idle"
               PROVE  /\ accounts'[calls[c].account] # NULL
                      /\ calls[c].row.token \in held'[calls[c].account]
                      /\ calls[c].pc = "rejected" => calls[c].row.token \in dead
    BY <1>1 DEF CallsHold, Connected
  <2>1. calls[c].account \in AdAccounts
    BY DEF IInv, TypeOK, CallLocalsSet
  <2> QED
    BY <1>4, <2>1 DEF IInv, CallsHold, Connected
<1> QED
  BY <1>2, <1>3, <1>5, <1>6, <1>7, <1>8 DEF IInv

LEMMA UpsertStep ==
    ASSUME IInv, NEW f \in Flows, UpsertAccount(f)
    PROVE  IInv'
<1> DEFINE flow == flows[f]
           a == flow.target
           row == Saved(accounts[a], flow)
<1>1. FlowOK(flow) /\ flow.pc = "upserting"
  BY SlotsOK DEF UpsertAccount
<1>2. /\ a \in AdAccounts /\ flow.user \in Users /\ flow.app \in Apps
      /\ flow.fb \in FbUsers /\ flow.token \in Tokens
      /\ minted[flow.token] = [user |-> flow.user, app |-> flow.app, fb |-> flow.fb]
  BY <1>1 DEF FlowOK, FlowLocalsSet
<1>3. /\ row \in Row /\ row.isActive /\ row.token = flow.token
      /\ row.metaAppId = flow.app /\ row.facebookUserId = flow.fb
  BY <1>2 DEF IInv, TypeOK, Saved, Row, RefreshedDate, GivenDate
<1>4. minted[flow.token] \in Grant /\ minted[flow.token].app = flow.app
      /\ minted[flow.token].fb = flow.fb
  BY <1>2 DEF Grant
<1>5. FlowOK(AfterAccount(flow, a))
  BY <1>1, <1>2, AfterAccountOK
<1>6. /\ accounts' = [accounts EXCEPT ![a] = row]
      /\ held' = [held EXCEPT ![a] = @ \cup {row.token}]
      /\ flows' = [flows EXCEPT ![f] = AfterAccount(flow, a)]
      /\ UNCHANGED <<calls, meta>>
  BY <1>3 DEF UpsertAccount
<1> HIDE DEF row, a, flow
<1> QED
  BY <1>2, <1>3, <1>4, <1>5, <1>6, RowWritten

LEMMA CreateStep ==
    ASSUME IInv, NEW f \in Flows, ConnectCreate(f)
    PROVE  IInv'
<1> DEFINE flow == flows[f]
           a == flow.target
           row == [userId |-> flow.user, metaAppId |-> NULL,
                   facebookUserId |-> NULL, token |-> flow.token,
                   tokenExpiresAt |-> GivenDate(flow.expiresIn, flow.token, NULL),
                   isActive |-> TRUE]
<1>1. FlowOK(flow) /\ flow.pc = "creating"
  BY SlotsOK DEF ConnectCreate
<1>2. CASE Connected(a)
  BY <1>2, IdleOK, FlowMoves DEF ConnectCreate
<1>3. CASE ~Connected(a)
  <2>1. a \in AdAccounts /\ flow.user \in Users /\ flow.token \in Tokens
        /\ minted[flow.token] = [user |-> flow.user, app |-> flow.app, fb |-> flow.fb]
    BY <1>1 DEF FlowOK, FlowLocalsSet
  <2>2. flow.app = NULL /\ flow.fb = NULL
    BY <1>1 DEF FlowOK, FlowLocalsSet
  <2>3. row \in Row /\ row.isActive /\ row.token = flow.token
        /\ row.metaAppId = NULL /\ row.facebookUserId = NULL
    BY <2>1 DEF Row, GivenDate
  <2>4. minted[flow.token] \in Grant /\ minted[flow.token].app = NULL
        /\ minted[flow.token].fb = NULL
    BY <2>1, <2>2 DEF Grant
  <2>5. /\ accounts' = [accounts EXCEPT ![a] = row]
        /\ held' = [held EXCEPT ![a] = @ \cup {row.token}]
        /\ flows' = [flows EXCEPT ![f] = IdleFlow]
        /\ UNCHANGED <<calls, meta>>
    BY <1>3, <2>3 DEF ConnectCreate
  <2> HIDE DEF row, a, flow
  <2> QED
    BY <2>1, <2>3, <2>4, <2>5, RowWritten, IdleOK
<1> QED
  BY <1>2, <1>3

-----------------------------------------------------------------------------
(* The steps of calls and job runs.                                        *)

(* A call resolved now carries the row as it is now. *)
LEMMA ResolvedOK ==
    ASSUME IInv, NEW a \in AdAccounts, Connected(a)
    PROVE  CallOK([pc |-> "resolved", account |-> a, row |-> accounts[a]])
<1>1. accounts[a] \in Row /\ accounts[a].token \in held[a]
  BY DEF IInv, TypeOK, Connected, RowsHold
<1> QED
  BY <1>1 DEF CallOK, CallState, CallLocalsSet

LEMMA ReadingSteps ==
    ASSUME IInv,
           \/ \E c \in ApiCalls, u \in Users, a \in AdAccounts : ResolveAccount(c, u, a)
           \/ \E r \in Runs : StartJob(r)
    PROVE  IInv'
<1>1. ASSUME NEW c \in ApiCalls, NEW u \in Users, NEW a \in AdAccounts,
             ResolveAccount(c, u, a)
      PROVE  IInv'
  BY <1>1, ResolvedOK, CallMoves DEF ResolveAccount, Callers
<1>2. ASSUME NEW r \in Runs, StartJob(r)
      PROVE  IInv'
  <2>1. ASSUME NEW c \in Callers
        PROVE  CallOK(calls'[c])
    <3>1. CASE c \in {r} \X AdAccounts /\ Connected(c[2]) /\ accounts[c[2]].isActive
      <4>1. c[2] \in AdAccounts
        BY <3>1
      <4>2. calls'[c] = [pc |-> "resolved", account |-> c[2], row |-> accounts[c[2]]]
        BY <1>2, <2>1, <3>1 DEF StartJob
      <4> QED
        BY <3>1, <4>1, <4>2, ResolvedOK
    <3>2. CASE ~(c \in {r} \X AdAccounts /\ Connected(c[2]) /\ accounts[c[2]].isActive)
      <4>1. calls'[c] = calls[c]
        BY <1>2, <2>1, <3>2 DEF StartJob
      <4> QED
        BY <4>1, <2>1, SlotsOK
    <3> QED
      BY <3>1, <3>2
  <2>2. \A c \in Callers : calls'[c] \in CallState
    BY <2>1 DEF CallOK
  <2>3. calls' \in [Callers -> CallState]
    BY <1>2, <2>2, Zenon DEF StartJob
  <2> QED
    BY <1>2, <2>1, <2>3, CallsMove DEF StartJob
<1> QED
  BY <1>1, <1>2

LEMMA LocalCallSteps ==
    ASSUME IInv, NEW c \in Callers,
           CallMeta(c) \/ MetaAnswers(c) \/ CallFails(c) \/ CallAborted(c)
    PROVE  IInv'
<1>0. CallOK(calls[c])
  BY SlotsOK
<1>1. CASE CallMeta(c)
  <2> DEFINE new == IF Usable(calls[c].row) THEN [calls[c] EXCEPT !.pc = "sent"] ELSE IdleCall
  <2>1. CallOK([calls[c] EXCEPT !.pc = "sent"])
    BY <1>0, <1>1 DEF CallMeta, CallOK, CallState, CallLocalsSet
  <2>2. CallOK(new)
    BY <2>1, IdleOK
  <2>3. calls' = [calls EXCEPT ![c] = new] /\ UNCHANGED <<db, flows, meta>>
    BY <1>1 DEF CallMeta
  <2> QED
    BY <2>2, <2>3, CallMoves
<1>2. CASE MetaAnswers(c)
  <2> DEFINE new == IF calls[c].row.token \in dead THEN [calls[c] EXCEPT !.pc = "rejected"]
                    ELSE IdleCall
  <2>1. calls[c].row.token \in dead => CallOK([calls[c] EXCEPT !.pc = "rejected"])
    BY <1>0, <1>2 DEF MetaAnswers, CallOK, CallState, CallLocalsSet
  <2>2. CallOK(new)
    BY <2>1, IdleOK
  <2>3. calls' = [calls EXCEPT ![c] = new] /\ UNCHANGED <<db, flows, meta>>
    BY <1>2 DEF MetaAnswers
  <2> QED
    BY <2>2, <2>3, CallMoves
<1>3. CASE CallFails(c) \/ CallAborted(c)
  BY <1>3, IdleOK, CallMoves DEF CallFails, CallAborted
<1> QED
  BY <1>1, <1>2, <1>3

-----------------------------------------------------------------------------
(* Deactivation, by a call or by the webhook, switches some rows off.      *)

LEMMA RowsSwitchedOff ==
    ASSUME IInv, NEW Off \in SUBSET AdAccounts,
           \A a \in Off : /\ Connected(a)
                          /\ \E t \in dead :
                                \/ t \in held[a]
                                \/ /\ accounts[a].metaAppId # NULL
                                   /\ minted[t].app = accounts[a].metaAppId
                                   /\ minted[t].fb = accounts[a].facebookUserId,
           accounts' = [a \in AdAccounts |->
                           IF a \in Off THEN [accounts[a] EXCEPT !.isActive = FALSE]
                           ELSE accounts[a]],
           calls' \in [Callers -> CallState], \A c \in Callers : CallOK(calls'[c]),
           UNCHANGED <<held, flows, meta>>
    PROVE  IInv'
<1>1. /\ held' = held /\ flows' = flows /\ minted' = minted
      /\ dead' = dead /\ lapsed' = lapsed /\ events' = events
  BY DEF meta
<1>2. ASSUME NEW a \in AdAccounts, Connected(a)
      PROVE  /\ accounts'[a] \in Row
             /\ accounts'[a].token = accounts[a].token
             /\ accounts'[a].metaAppId = accounts[a].metaAppId
             /\ accounts'[a].facebookUserId = accounts[a].facebookUserId
             /\ a \notin Off => accounts'[a].isActive = accounts[a].isActive
  <2>1. accounts[a] \in Row
    BY <1>2 DEF IInv, TypeOK, Connected
  <2> QED
    BY <2>1 DEF Row
<1>3. \A a \in AdAccounts : ~Connected(a) => accounts'[a] = accounts[a]
  OBVIOUS
<1>4. \A a \in AdAccounts : (accounts'[a] # NULL) <=> Connected(a)
  BY <1>2, <1>3, RowNotNull DEF Connected
<1>5. TypeOK'
  <2>1. \A a \in AdAccounts : accounts'[a] \in Row \cup {NULL}
    BY <1>2, <1>3 DEF Connected
  <2>2. accounts' \in [AdAccounts -> Row \cup {NULL}]
    BY <2>1, Zenon
  <2> QED
    BY <1>1, <2>2 DEF IInv, TypeOK, CallOK
<1>6. FlowTokens' /\ DeadWasIssued' /\ EventsHaveCause'
  BY <1>1 DEF IInv, FlowTokens, DeadWasIssued, EventsHaveCause, IssuedTokens
<1>7. ProvenanceMatches' /\ RowsHold'
  BY <1>1, <1>2, <1>4 DEF IInv, ProvenanceMatches, RowsHold, IssuedTokens, Connected
<1>8. CallsHold'
  <2> SUFFICES ASSUME NEW c \in Callers, calls'[c].pc # "idle"
               PROVE  /\ accounts'[calls'[c].account] # NULL
                      /\ calls'[c].row.token \in held[calls'[c].account]
                      /\ calls'[c].pc = "rejected" => calls'[c].row.token \in dead
    BY <1>1 DEF CallsHold, Connected
  <2>1. calls'[c].account \in AdAccounts
    BY DEF CallOK, CallLocalsSet
  <2> QED
    BY <1>4, <2>1 DEF CallOK
<1>9. InactiveHasCause'
  <2> SUFFICES ASSUME NEW a \in AdAccounts, Connected(a), ~accounts'[a].isActive
               PROVE  \E t \in dead :
                         \/ t \in held[a]
                         \/ /\ accounts'[a].metaAppId # NULL
                            /\ minted[t].app = accounts'[a].metaAppId
                            /\ minted[t].fb = accounts'[a].facebookUserId
    BY <1>1, <1>4 DEF InactiveHasCause, Connected
  <2>1. PICK t \in dead :
           \/ t \in held[a]
           \/ /\ accounts[a].metaAppId # NULL
              /\ minted[t].app = accounts[a].metaAppId
              /\ minted[t].fb = accounts[a].facebookUserId
    BY <1>2 DEF IInv, InactiveHasCause
  <2> QED
    BY <2>1, <1>2
<1> QED
  BY <1>5, <1>6, <1>7, <1>8, <1>9 DEF IInv

LEMMA DeactivateStep ==
    ASSUME IInv, NEW c \in Callers, DeactivateAccount(c)
    PROVE  IInv'
<1> DEFINE a == calls[c].account
<1>1. CallOK(calls[c]) /\ calls[c].pc = "rejected"
  BY SlotsOK DEF DeactivateAccount
<1>2. a \in AdAccounts /\ Connected(a) /\ calls[c].row.token \in dead \cap held[a]
  BY <1>1 DEF CallOK, CallLocalsSet
<1>3. accounts' = [b \in AdAccounts |->
                      IF b \in {a} THEN [accounts[b] EXCEPT !.isActive = FALSE]
                      ELSE accounts[b]]
  BY <1>2 DEF DeactivateAccount, IInv, TypeOK
<1>4. calls' \in [Callers -> CallState] /\ \A d \in Callers : CallOK(calls'[d])
  BY SlotsOK, IdleOK, SMTT(30) DEF DeactivateAccount, IInv, TypeOK, CallOK
<1>5. UNCHANGED <<held, flows, meta>>
  BY DEF DeactivateAccount
<1> HIDE DEF a
<1> QED
  BY <1>2, <1>3, <1>4, <1>5, RowsSwitchedOff

LEMMA WebhookSteps ==
    ASSUME IInv, WebhookStep
    PROVE  IInv'
<1>1. ASSUME NEW e \in events, DeauthorizeWebhook(e)
      PROVE  IInv'
  <2> DEFINE Off == {a \in AdAccounts : GrantedThrough(accounts[a], e.app, e.fb)}
  <2>1. PICK t \in dead : minted[t].app = e.app /\ minted[t].fb = e.fb
    BY DEF IInv, EventsHaveCause
  <2>2. e.app # NULL
    BY NullAssumption DEF IInv, TypeOK, Event
  <2>3. \A a \in Off : Connected(a) /\ accounts[a].metaAppId # NULL
                       /\ minted[t].app = accounts[a].metaAppId
                       /\ minted[t].fb = accounts[a].facebookUserId
    BY <2>1, <2>2 DEF GrantedThrough, Connected
  <2>4. accounts' = [a \in AdAccounts |->
                        IF a \in Off THEN [accounts[a] EXCEPT !.isActive = FALSE]
                        ELSE accounts[a]]
    BY <1>1 DEF DeauthorizeWebhook
  <2>5. calls' = calls /\ UNCHANGED <<held, flows, meta>>
    BY <1>1 DEF DeauthorizeWebhook
  <2>6. calls' \in [Callers -> CallState] /\ \A c \in Callers : CallOK(calls'[c])
    BY <2>5, SlotsOK DEF IInv, TypeOK
  <2> HIDE DEF Off
  <2> QED
    BY <2>1, <2>3, <2>4, <2>5, <2>6, RowsSwitchedOff DEF Off
<1>2. ASSUME NEW e \in events, EventGone(e)
      PROVE  IInv'
  <2>1. /\ accounts' = accounts /\ held' = held /\ flows' = flows /\ calls' = calls
        /\ minted' = minted /\ dead' = dead /\ lapsed' = lapsed
        /\ events' \subseteq events
    BY <1>2 DEF EventGone, db
  <2> QED
    BY <2>1 DEF IInv, TypeOK, FlowTokens, DeadWasIssued, ProvenanceMatches, RowsHold,
                CallsHold, EventsHaveCause, InactiveHasCause, IssuedTokens, Connected
<1> QED
  BY <1>1, <1>2 DEF WebhookStep

-----------------------------------------------------------------------------
(* What happens at Meta and with time, and restarts.                       *)

LEMMA MetaSteps ==
    ASSUME IInv, MetaStep
    PROVE  IInv'
<1>1. /\ accounts' = accounts /\ held' = held /\ flows' = flows /\ calls' = calls
      /\ minted' = minted
  BY DEF MetaStep, RevokeApp, TokenDies, DateLapses, db
<1>2. /\ dead \subseteq dead' /\ dead' \subseteq IssuedTokens
      /\ lapsed' \subseteq Tokens /\ events' \subseteq Event
      /\ \A e \in events' : \E t \in dead' : minted[t].app = e.app /\ minted[t].fb = e.fb
  <2>1. ASSUME NEW app \in Apps, NEW fb \in FbUsers, RevokeApp(app, fb)
        PROVE  <1>2!:
    <3>1. PICK t \in GrantedTo(app, fb) : TRUE
      BY <2>1 DEF RevokeApp
    <3> QED
      BY <2>1, <3>1 DEF RevokeApp, GrantedTo, IssuedTokens, IInv, TypeOK, Event,
                        DeadWasIssued, EventsHaveCause
  <2>2. ASSUME NEW t \in Tokens, TokenDies(t) \/ DateLapses(t)
        PROVE  <1>2!:
    BY <2>2 DEF TokenDies, DateLapses, IssuedTokens, IInv, TypeOK, DeadWasIssued,
                EventsHaveCause
  <2> QED
    BY <2>1, <2>2 DEF MetaStep
<1>3. TypeOK'
  BY <1>1, <1>2 DEF IInv, TypeOK, IssuedTokens
<1>4. DeadWasIssued' /\ EventsHaveCause'
  BY <1>1, <1>2 DEF DeadWasIssued, EventsHaveCause, IssuedTokens
<1>5. FlowTokens' /\ ProvenanceMatches' /\ RowsHold' /\ CallsHold'
  BY <1>1, <1>2 DEF IInv, FlowTokens, ProvenanceMatches, RowsHold, CallsHold, Connected,
                    IssuedTokens
<1>6. InactiveHasCause'
  BY <1>1, <1>2 DEF IInv, InactiveHasCause, Connected
<1> QED
  BY <1>3, <1>4, <1>5, <1>6 DEF IInv

LEMMA CrashStep ==
    ASSUME IInv, Crash
    PROVE  IInv'
<1>1. /\ accounts' = accounts /\ held' = held /\ minted' = minted
      /\ dead' = dead /\ lapsed' = lapsed /\ events' = events
  BY DEF Crash, db, meta
<1>2. /\ flows' \in [Flows -> FlowState]
      /\ \A f \in Flows : FlowLocalsSet(flows'[f])
      /\ \A f \in Flows : flows'[f].pc \in {"idle", "consent"}
  BY IdleOK DEF Crash, IInv, TypeOK, FlowOK, IdleFlow
<1>3. calls' \in [Callers -> CallState] /\ \A c \in Callers : calls'[c] = IdleCall
  BY IdleOK DEF Crash, CallOK
<1>4. \A c \in Callers : calls'[c].pc = "idle"
  BY <1>3 DEF IdleCall
<1>5. TypeOK'
  BY <1>1, <1>2, <1>3, IdleOK DEF IInv, TypeOK, CallOK
<1>6. FlowTokens' /\ CallsHold'
  BY <1>2, <1>4 DEF FlowTokens, CallsHold
<1>7. DeadWasIssued' /\ ProvenanceMatches' /\ RowsHold' /\ EventsHaveCause' /\ InactiveHasCause'
  BY <1>1 DEF IInv, DeadWasIssued, ProvenanceMatches, RowsHold, EventsHaveCause,
              InactiveHasCause, IssuedTokens, Connected
<1> QED
  BY <1>5, <1>6, <1>7 DEF IInv

-----------------------------------------------------------------------------

LEMMA InitIInv ==
    ASSUME Init
    PROVE  IInv
<1>1. TypeOK
  BY IdleOK DEF Init, TypeOK, FlowOK, CallOK
<1>2. FlowTokens /\ CallsHold
  BY DEF Init, FlowTokens, CallsHold, IdleFlow, IdleCall
<1>3. DeadWasIssued /\ ProvenanceMatches /\ RowsHold /\ EventsHaveCause /\ InactiveHasCause
  BY DEF Init, DeadWasIssued, ProvenanceMatches, RowsHold, EventsHaveCause,
         InactiveHasCause, Connected
<1> QED
  BY <1>1, <1>2, <1>3 DEF IInv

LEMMA StutterIInv ==
    ASSUME IInv, UNCHANGED vars
    PROVE  IInv'
BY DEF vars, IInv, TypeOK, FlowTokens, DeadWasIssued, ProvenanceMatches, RowsHold, CallsHold,
       EventsHaveCause, InactiveHasCause, IssuedTokens, Connected

LEMMA NextIInv ==
    ASSUME IInv, [Next]_vars
    PROVE  IInv'
<1>1. ASSUME NEW f \in Flows, FlowStep(f)
      PROVE  IInv'
  BY <1>1, LocalFlowSteps, IssuingSteps, UpsertStep, CreateStep DEF FlowStep
<1>2. ASSUME NEW c \in Callers, CallStep(c)
      PROVE  IInv'
  BY <1>2, LocalCallSteps, DeactivateStep DEF CallStep
<1>3. CASE \/ \E c \in ApiCalls, u \in Users, a \in AdAccounts : ResolveAccount(c, u, a)
           \/ \E r \in Runs : StartJob(r)
  BY <1>3, ReadingSteps
<1>4. CASE WebhookStep \/ MetaStep \/ Crash
  BY <1>4, WebhookSteps, MetaSteps, CrashStep
<1>5. CASE UNCHANGED vars
  BY <1>5, StutterIInv
<1> QED
  BY <1>1, <1>2, <1>3, <1>4, <1>5 DEF Next

(* Every reachable state satisfies the inductive invariant. *)
THEOREM Invariance == Spec => []IInv
BY InitIInv, NextIInv, PTL DEF Spec

(* The rows fit the schema and every local is set before it is used,       *)
(* whatever the number of concurrent flows, calls and runs.                *)
THEOREM TypeCorrect == Spec => []TypeOK
<1>1. IInv => TypeOK
  BY DEF IInv
<1> QED
  BY <1>1, Invariance, PTL

(* The (app, person) pair the deauthorize webhook selects rows by is       *)
(* always the pair the stored token was granted through.                   *)
THEOREM Provenance == Spec => []ProvenanceMatches
<1>1. IInv => ProvenanceMatches
  BY DEF IInv
<1> QED
  BY <1>1, Invariance, PTL

(* Accounts are only ever disconnected because Meta killed a token of      *)
(* theirs, or of the same person and app.                                  *)
THEOREM NoCauselessDeactivation == Spec => []InactiveHasCause
<1>1. IInv => InactiveHasCause
  BY DEF IInv
<1> QED
  BY <1>1, Invariance, PTL

(* The steps that write rows. *)
LEMMA RowWriters ==
    ASSUME [Next]_vars
    PROVE  \/ accounts' = accounts
           \/ \E f \in Flows : UpsertAccount(f) \/ ConnectCreate(f)
           \/ \E c \in Callers : DeactivateAccount(c)
           \/ \E e \in events : DeauthorizeWebhook(e)
BY DEF Next, vars, db, FlowStep, StartOAuth, OAuthRefused, OAuthCallback, ExchangeCode,
       FetchAdAccounts, FindExisting, ConnectAccount, ConnectFind, FlowFails,
       CallStep, CallMeta, MetaAnswers, CallFails, CallAborted, ResolveAccount, StartJob,
       WebhookStep, EventGone, MetaStep, RevokeApp, TokenDies, DateLapses, Crash

(* No step makes a row change hands or disappear. *)
LEMMA OwnerKept ==
    ASSUME IInv, [Next]_vars, NEW a \in AdAccounts, Connected(a)
    PROVE  accounts'[a] # NULL /\ accounts'[a].userId = accounts[a].userId
<1>0. accounts[a] \in Row /\ accounts \in [AdAccounts -> Row \cup {NULL}]
  BY DEF IInv, TypeOK, Connected
<1>1. CASE accounts' = accounts
  BY <1>1 DEF Connected
<1>2. ASSUME NEW f \in Flows, UpsertAccount(f)
      PROVE  accounts'[a] # NULL /\ accounts'[a].userId = accounts[a].userId
  <2>1. IInv'
    BY <1>2, UpsertStep
  <2>2. accounts'[a] \in Row \cup {NULL}
    BY <2>1 DEF IInv, TypeOK
  <2>3. accounts'[a] = accounts[a] \/ accounts'[a] = Saved(accounts[a], flows[f])
    BY <1>0, <1>2 DEF UpsertAccount
  <2>4. Saved(accounts[a], flows[f]).userId = accounts[a].userId
    BY DEF Saved, Connected
  <2>5. Saved(accounts[a], flows[f]) \in Row
    <3>1. FlowOK(flows[f]) /\ flows[f].pc = "upserting"
      BY <1>2, SlotsOK DEF UpsertAccount
    <3> QED
      BY <1>0, <3>1 DEF FlowOK, FlowLocalsSet, Saved, Row, RefreshedDate, GivenDate, Connected
  <2> QED
    BY <1>0, <2>3, <2>4, <2>5, RowNotNull
<1>3. ASSUME NEW f \in Flows, ConnectCreate(f)
      PROVE  accounts'[a] # NULL /\ accounts'[a].userId = accounts[a].userId
  <2>1. accounts'[a] = accounts[a]
    BY <1>0, <1>3 DEF ConnectCreate, Connected, db
  <2> QED
    BY <2>1 DEF Connected
<1>4. ASSUME NEW c \in Callers, DeactivateAccount(c)
      PROVE  accounts'[a] # NULL /\ accounts'[a].userId = accounts[a].userId
  <2>1. \/ accounts'[a] = accounts[a]
        \/ accounts'[a] = [accounts[a] EXCEPT !.isActive = FALSE]
    BY <1>0, <1>4 DEF DeactivateAccount
  <2> QED
    BY <1>0, <2>1, RowNotNull DEF Row
<1>5. ASSUME NEW e \in events, DeauthorizeWebhook(e)
      PROVE  accounts'[a] # NULL /\ accounts'[a].userId = accounts[a].userId
  <2>1. \/ accounts'[a] = accounts[a]
        \/ accounts'[a] = [accounts[a] EXCEPT !.isActive = FALSE]
    BY <1>0, <1>5 DEF DeauthorizeWebhook
  <2> QED
    BY <1>0, <2>1, RowNotNull DEF Row
<1> QED
  BY <1>1, <1>2, <1>3, <1>4, <1>5, RowWriters

(* A connected ad account belongs to the same user for ever. *)
THEOREM OwnershipIsStable == Spec => OwnershipStable
<1>1. IInv /\ [Next]_vars =>
         [\A a \in AdAccounts : Connected(a) =>
             accounts'[a] # NULL /\ accounts'[a].userId = accounts[a].userId]_vars
  BY OwnerKept
<1> QED
  BY <1>1, Invariance, PTL DEF Spec, OwnershipStable

-----------------------------------------------------------------------------
(* A token is never put back to use.  A flow of the dialog has a token of  *)
(* its own, which no row it has yet to write has stored; a token posted by *)
(* hand may be an old one, but only finds a row to write when there is     *)
(* none, and then the row has no history.                                  *)

DialogPcs == {"exchanging", "fetching", "finding", "upserting"}

(* The token is new to every ad account this flow may still write. *)
FlowUnspent(flow) ==
    /\ flow.pc \in {"exchanging", "fetching"} =>
          \A a \in AdAccounts : flow.token \notin held[a]
    /\ flow.pc \in {"finding", "upserting"} =>
          \A a \in flow.todo : flow.token \notin held[a]
    /\ flow.pc = "upserting" => flow.target \in flow.todo

TokensApart ==
    \A f, g \in Flows :
        (f # g /\ flows[f].pc \in DialogPcs /\ flows[g].pc \in DialogPcs) =>
            flows[f].token # flows[g].token

HistoryOK ==
    \A a \in AdAccounts :
        /\ held[a] \subseteq IssuedTokens
        /\ held[a] # {} => Connected(a)

Unspent ==
    /\ \A f \in Flows : FlowUnspent(flows[f])
    /\ TokensApart
    /\ HistoryOK

(* A step that writes no row, in which flow f moves on with its token. *)
LEMMA UnspentFlowMoves ==
    ASSUME IInv, Unspent, NEW f \in Flows, NEW new, FlowUnspent(new),
           new.pc \in DialogPcs => flows[f].pc \in DialogPcs /\ new.token = flows[f].token,
           flows' = [flows EXCEPT ![f] = new],
           UNCHANGED db, IssuedTokens \subseteq IssuedTokens'
    PROVE  Unspent'
<1>1. accounts' = accounts /\ held' = held
  BY DEF db
<1>2. flows'[f] = new /\ \A g \in Flows \ {f} : flows'[g] = flows[g]
  BY DEF IInv, TypeOK
<1>3. \A g \in Flows : FlowUnspent(flows[g])'
  BY <1>1, <1>2 DEF Unspent, FlowUnspent
<1>4. TokensApart'
  BY <1>2 DEF Unspent, TokensApart
<1>5. HistoryOK'
  BY <1>1 DEF Unspent, HistoryOK, Connected
<1> QED
  BY <1>3, <1>4, <1>5 DEF Unspent

(* A step of anything but a flow, or one that ends flows. *)
LEMMA UnspentElsewhere ==
    ASSUME Unspent,
           \A f \in Flows : flows'[f] = flows[f] \/ flows'[f].pc \in {"idle", "consent"},
           UNCHANGED <<held, minted>>,
           \A a \in AdAccounts : Connected(a) => accounts'[a] # NULL
    PROVE  Unspent'
<1>1. \A f \in Flows : FlowUnspent(flows[f])'
  BY DEF Unspent, FlowUnspent
<1>2. TokensApart'
  BY DEF Unspent, TokensApart, DialogPcs
<1>3. HistoryOK'
  BY DEF Unspent, HistoryOK, Connected, IssuedTokens
<1> QED
  BY <1>1, <1>2, <1>3 DEF Unspent

LEMMA UnspentLocalSteps ==
    ASSUME IInv, Unspent, NEW f \in Flows,
           \/ \E u \in Users, app \in Apps : StartOAuth(f, u, app)
           \/ OAuthRefused(f)
           \/ \E d \in BOOLEAN : ExchangeCode(f, d)
           \/ \E as \in SUBSET AdAccounts : FetchAdAccounts(f, as)
           \/ \E a \in AdAccounts : FindExisting(f, a)
           \/ \E u \in Users, a \in AdAccounts, t \in Tokens, d \in BOOLEAN :
                 ConnectAccount(f, u, a, t, d)
           \/ ConnectFind(f)
           \/ FlowFails(f)
    PROVE  Unspent'
<1> DEFINE flow == flows[f]
           Follows(new) == /\ FlowUnspent(new)
                           /\ new.pc \in DialogPcs =>
                                 flow.pc \in DialogPcs /\ new.token = flow.token
                           /\ flows' = [flows EXCEPT ![f] = new]
<1>0. flow \in FlowState /\ FlowUnspent(flow)
  BY DEF IInv, TypeOK, Unspent
<1>1. UNCHANGED db
  BY DEF StartOAuth, OAuthRefused, ExchangeCode, FetchAdAccounts, FindExisting,
         ConnectAccount, ConnectFind, FlowFails
<1>2. IssuedTokens \subseteq IssuedTokens'
  <2>1. ASSUME NEW u \in Users, NEW t \in Tokens, minted' = [minted EXCEPT ![t] = OwnGrant(u)]
        PROVE  IssuedTokens \subseteq IssuedTokens'
    <3>1. OwnGrant(u) # NULL
      BY GrantNotNull DEF OwnGrant, Grant
    <3> QED
      BY <2>1, <3>1 DEF IssuedTokens, IInv, TypeOK
  <2> QED
    BY <2>1 DEF StartOAuth, OAuthRefused, ExchangeCode, FetchAdAccounts, FindExisting,
                ConnectAccount, ConnectFind, FlowFails, meta, IssuedTokens
<1>3. Follows(IdleFlow) \/ \E new : Follows(new)
  <2>1. CASE \/ \E u \in Users, app \in Apps : StartOAuth(f, u, app)
             \/ \E u \in Users, a \in AdAccounts, t \in Tokens, d \in BOOLEAN :
                   ConnectAccount(f, u, a, t, d)
    BY <2>1 DEF StartOAuth, ConnectAccount, IdleFlow, FlowUnspent, DialogPcs
  <2>2. CASE OAuthRefused(f) \/ FlowFails(f)
    BY <2>2 DEF OAuthRefused, FlowFails, IdleFlow, FlowUnspent, DialogPcs
  <2>3. ASSUME NEW d \in BOOLEAN, ExchangeCode(f, d)
        PROVE  \E new : Follows(new)
    <3> DEFINE new == [flow EXCEPT !.pc = "fetching", !.expiresIn = d]
    <3>1. Follows(new)
      BY <1>0, <2>3 DEF ExchangeCode, FlowState, FlowUnspent, DialogPcs
    <3> QED
      BY <3>1
  <2>4. ASSUME NEW as \in SUBSET AdAccounts, FetchAdAccounts(f, as)
        PROVE  \E new : Follows(new)
    <3> DEFINE new == IF as = {} THEN IdleFlow
                      ELSE [flow EXCEPT !.pc = "finding", !.todo = as]
    <3>1. Follows(new)
      BY <1>0, <2>4 DEF FetchAdAccounts, FlowState, FlowUnspent, DialogPcs, IdleFlow
    <3> QED
      BY <3>1
  <2>5. ASSUME NEW a \in AdAccounts, FindExisting(f, a)
        PROVE  \E new : Follows(new)
    <3> DEFINE new == IF SkipsForeign(accounts[a], flow.user) THEN AfterAccount(flow, a)
                      ELSE [flow EXCEPT !.pc = "upserting", !.target = a]
    <3>1. Follows(new)
      BY <1>0, <2>5 DEF FindExisting, AfterAccount, FlowState, FlowUnspent, DialogPcs, IdleFlow
    <3> QED
      BY <3>1
  <2>6. CASE ConnectFind(f)
    <3> DEFINE new == IF Connected(flow.target) THEN IdleFlow
                      ELSE [flow EXCEPT !.pc = "creating"]
    <3>1. Follows(new)
      BY <1>0, <2>6 DEF ConnectFind, FlowState, FlowUnspent, DialogPcs, IdleFlow
    <3> QED
      BY <3>1
  <2> QED
    BY <2>1, <2>2, <2>3, <2>4, <2>5, <2>6
<1>4. PICK new : Follows(new)
  BY <1>3
<1> QED
  BY <1>1, <1>2, <1>4, UnspentFlowMoves

(* The callback brings a token that no row and no other flow knows. *)
LEMMA UnspentCallback ==
    ASSUME IInv, Unspent, NEW f \in Flows, NEW fb \in FbUsers, NEW t \in Tokens,
           OAuthCallback(f, fb, t)
    PROVE  Unspent'
<1> DEFINE g == [user |-> flows[f].user, app |-> flows[f].app, fb |-> fb]
<1>1. /\ accounts' = accounts /\ held' = held
      /\ minted[t] = NULL /\ minted' = [minted EXCEPT ![t] = g]
      /\ flows[f].pc = "consent"
  BY DEF OAuthCallback, db
<1>2. flows[f].user \in Users /\ flows[f].app \in Apps
  BY DEF IInv, TypeOK, OAuthCallback, FlowLocalsSet
<1>3. IssuedTokens \subseteq IssuedTokens' /\ t \notin IssuedTokens
  BY <1>1 DEF IssuedTokens, IInv, TypeOK
<1>4. HistoryOK'
  BY <1>1, <1>3 DEF Unspent, HistoryOK, Connected
<1>5. \A a \in AdAccounts : t \notin held[a]
  BY <1>3 DEF Unspent, HistoryOK
<1>6. /\ flows'[f].pc = "exchanging" /\ flows'[f].token = t
      /\ \A h \in Flows \ {f} : flows'[h] = flows[h]
  BY DEF OAuthCallback, IInv, TypeOK, FlowState
<1>7. \A h \in Flows : FlowUnspent(flows[h])'
  BY <1>1, <1>5, <1>6 DEF Unspent, FlowUnspent
<1>8. ASSUME NEW h \in Flows, flows[h].pc \in DialogPcs
      PROVE  flows[h].token # t
  <2>1. flows[h].user \in Users /\ flows[h].app \in Apps /\ flows[h].fb \in FbUsers
        /\ flows[h].token \in Tokens
    BY <1>8 DEF IInv, TypeOK, FlowLocalsSet, DialogPcs
  <2>2. minted[flows[h].token] =
           [user |-> flows[h].user, app |-> flows[h].app, fb |-> flows[h].fb]
    BY <1>8 DEF IInv, FlowTokens, DialogPcs
  <2>3. minted[flows[h].token] \in Grant
    BY <2>1, <2>2 DEF Grant
  <2> QED
    BY <1>1, <2>3, GrantNotNull
<1>9. TokensApart'
  BY <1>1, <1>6, <1>8 DEF Unspent, TokensApart, DialogPcs
<1> QED
  BY <1>4, <1>7, <1>9 DEF Unspent

(* Flow f stores its token in ad account a, and no other flow of the       *)
(* dialog has that token.                                                  *)
LEMMA UnspentWrite ==
    ASSUME IInv, Unspent, NEW f \in Flows, NEW a \in AdAccounts,
           flows[f].token \in IssuedTokens,
           \A g \in Flows \ {f} : flows[g].pc \in DialogPcs =>
               flows[g].token # flows[f].token,
           held' = [held EXCEPT ![a] = @ \cup {flows[f].token}],
           \A b \in AdAccounts : accounts'[b] # NULL <=> (Connected(b) \/ b = a),
           NEW new, flows' = [flows EXCEPT ![f] = new], FlowUnspent(new)',
           new.pc \in DialogPcs => flows[f].pc \in DialogPcs /\ new.token = flows[f].token,
           UNCHANGED minted
    PROVE  Unspent'
<1>1. /\ held'[a] = held[a] \cup {flows[f].token}
      /\ \A b \in AdAccounts \ {a} : held'[b] = held[b]
  BY DEF IInv, TypeOK
<1>2. flows'[f] = new /\ \A g \in Flows \ {f} : flows'[g] = flows[g]
  BY DEF IInv, TypeOK
<1>3. ASSUME NEW g \in Flows
      PROVE  FlowUnspent(flows[g])'
  <2>1. CASE g = f
    BY <1>2, <2>1 DEF FlowUnspent
  <2>2. CASE g # f
    <3>1. flows[g] \in FlowState /\ FlowUnspent(flows[g])
      BY DEF IInv, TypeOK, Unspent
    <3>2. \A b \in AdAccounts : (flows[g].pc \in DialogPcs /\ flows[g].token \notin held[b])
                                    => flows[g].token \notin held'[b]
      BY <1>1, <2>2
    <3>3. flows[g].todo \subseteq AdAccounts
      BY <3>1 DEF FlowState
    <3> QED
      BY <1>2, <2>2, <3>1, <3>2, <3>3 DEF FlowUnspent, DialogPcs
  <2> QED
    BY <2>1, <2>2
<1>4. TokensApart'
  BY <1>2 DEF Unspent, TokensApart
<1>5. HistoryOK'
  BY <1>1 DEF Unspent, HistoryOK, Connected, IssuedTokens
<1> QED
  BY <1>3, <1>4, <1>5 DEF Unspent

(* What an upsert writes is new to the row. *)
LEMMA UpsertsUnspent ==
    ASSUME IInv, Unspent, NEW f \in Flows, flows[f].pc = "upserting"
    PROVE  /\ flows[f].target \in AdAccounts
           /\ flows[f].token \in IssuedTokens
           /\ flows[f].token \notin held[flows[f].target]
<1>1. FlowOK(flows[f]) /\ FlowUnspent(flows[f])
  BY SlotsOK DEF Unspent
<1>2. flows[f].target \in AdAccounts /\ flows[f].token \in Tokens
      /\ flows[f].user \in Users /\ flows[f].app \in Apps /\ flows[f].fb \in FbUsers
  BY <1>1 DEF FlowOK, FlowLocalsSet
<1>3. minted[flows[f].token] \in Grant
  BY <1>1, <1>2 DEF FlowOK, Grant
<1> QED
  BY <1>1, <1>2, <1>3, GrantNotNull DEF FlowUnspent, IssuedTokens

LEMMA UnspentUpsert ==
    ASSUME IInv, Unspent, NEW f \in Flows, UpsertAccount(f)
    PROVE  Unspent'
<1> DEFINE flow == flows[f]
           a == flow.target
<1>0. PICK new : new = AfterAccount(flow, a)
  OBVIOUS
<1>1. /\ flow \in FlowState /\ flow.pc = "upserting" /\ a \in AdAccounts
      /\ flow.token \in IssuedTokens /\ FlowUnspent(flow)
  BY UpsertsUnspent DEF UpsertAccount, IInv, TypeOK, Unspent
<1>2. \A g \in Flows \ {f} : flows[g].pc \in DialogPcs => flows[g].token # flow.token
  BY <1>1 DEF Unspent, TokensApart, DialogPcs
<1>3. /\ held' = [held EXCEPT ![a] = @ \cup {flow.token}]
      /\ flows' = [flows EXCEPT ![f] = new] /\ minted' = minted
  BY <1>0 DEF UpsertAccount, meta
<1>4. \A b \in AdAccounts : accounts'[b] # NULL <=> (Connected(b) \/ b = a)
  <2>1. accounts'[a] = Saved(accounts[a], flow)
        /\ \A b \in AdAccounts \ {a} : accounts'[b] = accounts[b]
    BY <1>1 DEF UpsertAccount, IInv, TypeOK
  <2>2. Saved(accounts[a], flow) \in Row
    <3>1. FlowOK(flow)
      BY SlotsOK
    <3> QED
      BY <1>1, <3>1 DEF IInv, TypeOK, FlowOK, FlowLocalsSet, Saved, Row, RefreshedDate, GivenDate
  <2> QED
    BY <2>1, <2>2, RowNotNull DEF Connected
<1>5. \A b \in AdAccounts \ {a} : held'[b] = held[b]
  BY <1>1, <1>3 DEF IInv, TypeOK
<1>6. FlowUnspent(new)' /\ (new.pc \in DialogPcs => new.token = flow.token)
  <2>1. CASE flow.todo = {a}
    <3>1. new.pc = "idle"
      BY <1>0, <2>1 DEF AfterAccount, IdleFlow
    <3> QED
      BY <3>1 DEF FlowUnspent, DialogPcs
  <2>2. CASE flow.todo # {a}
    <3>1. new.pc = "finding" /\ new.todo = flow.todo \ {a} /\ new.token = flow.token
          /\ flow.todo \subseteq AdAccounts
      BY <1>0, <1>1, <2>2 DEF AfterAccount, FlowState
    <3>2. \A b \in flow.todo : flow.token \notin held[b]
      BY <1>1 DEF FlowUnspent
    <3>3. \A b \in new.todo : new.token \notin held'[b]
      BY <1>5, <3>1, <3>2
    <3> QED
      BY <3>1, <3>3 DEF FlowUnspent
  <2> QED
    BY <2>1, <2>2
<1>7. flow.pc \in DialogPcs
  BY <1>1 DEF DialogPcs
<1> HIDE DEF a, flow
<1> QED
  BY <1>1, <1>2, <1>3, <1>4, <1>6, <1>7, UnspentWrite DEF flow

LEMMA UnspentCreate ==
    ASSUME IInv, Unspent, NEW f \in Flows, ConnectCreate(f)
    PROVE  Unspent'
<1> DEFINE flow == flows[f]
           a == flow.target
<1>1. FlowOK(flow) /\ flow.pc = "creating"
  BY SlotsOK DEF ConnectCreate
<1>2. flow.app = NULL /\ flow.fb = NULL /\ flow.user \in Users
      /\ flow.token \in Tokens /\ a \in AdAccounts
      /\ minted[flow.token] = [user |-> flow.user, app |-> flow.app, fb |-> flow.fb]
  BY <1>1 DEF FlowOK, FlowLocalsSet
<1>3. flow.token \in IssuedTokens
  <2>1. minted[flow.token] \in Grant
    BY <1>2 DEF Grant
  <2> QED
    BY <1>2, <2>1, GrantNotNull DEF IssuedTokens
<1>4. FlowUnspent(IdleFlow)' /\ FlowUnspent(IdleFlow) /\ IdleFlow.pc \notin DialogPcs
  BY DEF IdleFlow, FlowUnspent, DialogPcs
<1>5. CASE Connected(a)
  BY <1>4, <1>5, UnspentFlowMoves DEF ConnectCreate, meta, IssuedTokens
<1>6. CASE ~Connected(a)
  <2>1. \A g \in Flows \ {f} : flows[g].pc \in DialogPcs => flows[g].token # flow.token
    <3> SUFFICES ASSUME NEW g \in Flows, flows[g].pc \in DialogPcs,
                        flows[g].token = flow.token
                 PROVE  FALSE
      OBVIOUS
    <3>1. flows[g].app \in Apps
      BY DEF IInv, TypeOK, FlowLocalsSet, DialogPcs
    <3>2. minted[flows[g].token].app = flows[g].app
      <4>1. minted[flows[g].token] =
               [user |-> flows[g].user, app |-> flows[g].app, fb |-> flows[g].fb]
        BY DEF IInv, FlowTokens, DialogPcs
      <4> QED
        BY <4>1
    <3>3. minted[flow.token].app = NULL
      BY <1>2
    <3> QED
      BY <3>1, <3>2, <3>3, NullAssumption
  <2>2. /\ held' = [held EXCEPT ![a] = @ \cup {flow.token}]
        /\ flows' = [flows EXCEPT ![f] = IdleFlow] /\ minted' = minted
    BY <1>6 DEF ConnectCreate, meta
  <2>3. \A b \in AdAccounts : accounts'[b] # NULL <=> (Connected(b) \/ b = a)
    <3>1. accounts'[a] \in Row
      <4>1. accounts'[a] =
               [userId |-> flow.user, metaAppId |-> NULL,
                facebookUserId |-> NULL, token |-> flow.token,
                tokenExpiresAt |-> GivenDate(flow.expiresIn, flow.token, NULL),
                isActive |-> TRUE]
        BY <1>2, <1>6 DEF ConnectCreate, IInv, TypeOK
      <4> QED
        BY <1>2, <4>1 DEF Row, GivenDate
    <3>2. \A b \in AdAccounts \ {a} : accounts'[b] = accounts[b]
      BY <1>6 DEF ConnectCreate, IInv, TypeOK
    <3> QED
      BY <3>1, <3>2, RowNotNull DEF Connected
  <2> HIDE DEF a, flow
  <2> QED
    BY <1>2, <1>3, <1>4, <2>1, <2>2, <2>3, UnspentWrite DEF flow
<1> QED
  BY <1>5, <1>6

LEMMA NextUnspent ==
    ASSUME IInv, Unspent, [Next]_vars
    PROVE  Unspent'
<1>1. ASSUME NEW f \in Flows, FlowStep(f)
      PROVE  Unspent'
  BY <1>1, UnspentLocalSteps, UnspentCallback, UnspentUpsert, UnspentCreate DEF FlowStep
<1>2. CASE \/ \E c \in ApiCalls, u \in Users, a \in AdAccounts : ResolveAccount(c, u, a)
           \/ \E r \in Runs : StartJob(r)
           \/ \E c \in Callers : CallStep(c)
           \/ WebhookStep
           \/ MetaStep
           \/ Crash
           \/ UNCHANGED vars
  <2>1. \A a \in AdAccounts : Connected(a) => accounts'[a] # NULL
    BY OwnerKept
  <2>2. UNCHANGED <<held, minted>>
    BY <1>2 DEF ResolveAccount, StartJob, CallStep, CallMeta, MetaAnswers, CallFails,
                DeactivateAccount, CallAborted, WebhookStep, DeauthorizeWebhook, EventGone,
                MetaStep, RevokeApp, TokenDies, DateLapses, Crash, db, meta, vars
  <2>3. \A f \in Flows : flows'[f] = flows[f] \/ flows'[f].pc \in {"idle", "consent"}
    <3>1. CASE Crash
      BY <3>1 DEF Crash, IdleFlow
    <3>2. CASE ~Crash
      BY <1>2, <3>2 DEF ResolveAccount, StartJob, CallStep, CallMeta, MetaAnswers, CallFails,
                DeactivateAccount, CallAborted, WebhookStep, DeauthorizeWebhook, EventGone,
                MetaStep, RevokeApp, TokenDies, DateLapses, vars
    <3> QED
      BY <3>1, <3>2
  <2> QED
    BY <2>1, <2>2, <2>3, UnspentElsewhere
<1> QED
  BY <1>1, <1>2 DEF Next

LEMMA InitUnspent ==
    ASSUME Init
    PROVE  Unspent
BY DEF Init, Unspent, FlowUnspent, TokensApart, HistoryOK, IdleFlow, DialogPcs

LEMMA AlwaysUnspent == Spec => [](IInv /\ Unspent)
<1>1. Init => IInv /\ Unspent
  BY InitIInv, InitUnspent
<1>2. IInv /\ Unspent /\ [Next]_vars => (IInv /\ Unspent)'
  BY NextIInv, NextUnspent
<1> QED
  BY <1>1, <1>2, PTL DEF Spec

(* No step puts a token back to use that the row has stored before. *)
LEMMA NotBackToUse ==
    ASSUME IInv, Unspent, [Next]_vars, NEW a \in AdAccounts, NEW t \in held[a],
           ~LooksUsableWith(a, t)
    PROVE  ~LooksUsableWith(a, t)'
<1>1. lapsed \subseteq lapsed'
  BY DEF Next, vars, db, meta, FlowStep, StartOAuth, OAuthRefused, OAuthCallback, ExchangeCode,
         FetchAdAccounts, FindExisting, UpsertAccount, ConnectAccount, ConnectFind,
         ConnectCreate, FlowFails, CallStep, CallMeta, MetaAnswers, CallFails,
         DeactivateAccount, CallAborted, ResolveAccount, StartJob,
         WebhookStep, DeauthorizeWebhook, EventGone, MetaStep, RevokeApp, TokenDies,
         DateLapses, Crash
<1>2. CASE accounts'[a] = accounts[a]
  BY <1>1, <1>2 DEF LooksUsableWith, Usable, Connected
<1>3. ASSUME Connected(a), accounts'[a] = [accounts[a] EXCEPT !.isActive = FALSE]
      PROVE  ~LooksUsableWith(a, t)'
  <2>1. accounts[a] \in Row
    BY <1>3 DEF IInv, TypeOK, Connected
  <2>2. accounts'[a].isActive = FALSE
    BY <1>3, <2>1 DEF Row
  <2> QED
    BY <2>2 DEF LooksUsableWith, Usable
<1>4. Connected(a)
  BY DEF Unspent, HistoryOK
<1>5. ASSUME NEW f \in Flows, UpsertAccount(f)
      PROVE  ~LooksUsableWith(a, t)'
  <2>1. CASE a = flows[f].target
    <3>1. accounts'[a].token = flows[f].token
      BY <1>5, <2>1 DEF UpsertAccount, Saved, IInv, TypeOK
    <3>2. flows[f].token # t
      BY <1>5, <2>1, UpsertsUnspent DEF UpsertAccount
    <3> QED
      BY <3>1, <3>2 DEF LooksUsableWith
  <2>2. CASE a # flows[f].target
    BY <1>2, <1>5, <2>2 DEF UpsertAccount, IInv, TypeOK
  <2> QED
    BY <2>1, <2>2
<1>6. ASSUME NEW f \in Flows, ConnectCreate(f)
      PROVE  ~LooksUsableWith(a, t)'
  BY <1>2, <1>4, <1>6 DEF ConnectCreate, db, IInv, TypeOK, Connected
<1>7. ASSUME \/ \E c \in Callers : DeactivateAccount(c)
             \/ \E e \in events : DeauthorizeWebhook(e)
      PROVE  ~LooksUsableWith(a, t)'
  <2>1. \/ accounts'[a] = accounts[a]
        \/ accounts'[a] = [accounts[a] EXCEPT !.isActive = FALSE]
    BY <1>7 DEF DeactivateAccount, DeauthorizeWebhook, IInv, TypeOK
  <2> QED
    BY <1>2, <1>3, <1>4, <2>1
<1> QED
  BY <1>2, <1>5, <1>6, <1>7, RowWriters

(* Once a row is refused with a token, no flow, call or webhook makes it   *)
(* usable with that token again: for any number of flows at once.          *)
THEOREM ReconnectsTakeNewTokens == Spec => OnlyNewTokenReconnects
<1>1. IInv /\ Unspent /\ [Next]_vars =>
         [\A a \in AdAccounts : \A t \in held[a] :
             ~LooksUsableWith(a, t) => ~LooksUsableWith(a, t)']_vars
  BY NotBackToUse
<1> QED
  BY <1>1, AlwaysUnspent, PTL DEF Spec, OnlyNewTokenReconnects

-----------------------------------------------------------------------------
(* With one connect flow at a time nothing comes between the findUnique    *)
(* and the upsert, and the ownership test of the loop is enough.           *)

OneFlowAtATime == \A f, g \in Flows : f = g

(* The row about to be upserted is still absent or the flow's own. *)
UpsertsOwn ==
    \A f \in Flows : flows[f].pc = "upserting" =>
        ~SkipsForeign(accounts[flows[f].target], flows[f].user)

OneFlowInv == IInv /\ UpsertsOwn /\ TokenBelongsToOwner

(* A step that keeps every row's owner and token, and starts no upsert. *)
LEMMA OwnersUntouched ==
    ASSUME OneFlowInv, IInv',
           \A a \in AdAccounts :
              \/ accounts'[a] = accounts[a]
              \/ Connected(a) /\ accounts'[a] = [accounts[a] EXCEPT !.isActive = FALSE],
           \A f \in Flows : flows'[f].pc = "upserting" => flows'[f] = flows[f],
           \A t \in IssuedTokens : minted'[t] = minted[t]
    PROVE  OneFlowInv'
<1>1. ASSUME NEW a \in AdAccounts
      PROVE  /\ (accounts'[a] # NULL) <=> Connected(a)
             /\ Connected(a) => /\ accounts'[a].userId = accounts[a].userId
                                /\ accounts'[a].token = accounts[a].token
  <2>1. Connected(a) => accounts[a] \in Row
    BY DEF OneFlowInv, IInv, TypeOK, Connected
  <2>2. Connected(a) => [accounts[a] EXCEPT !.isActive = FALSE] \in Row
    BY <2>1 DEF Row
  <2> QED
    BY <2>1, <2>2, RowNotNull DEF Row, Connected
<1>2. TokenBelongsToOwner'
  <2> SUFFICES ASSUME NEW a \in AdAccounts, accounts'[a] # NULL
               PROVE  minted'[accounts'[a].token].user = accounts'[a].userId
    BY DEF TokenBelongsToOwner, Connected
  <2>1. Connected(a) /\ accounts[a].token \in IssuedTokens
    BY <1>1 DEF OneFlowInv, IInv, ProvenanceMatches
  <2> QED
    BY <1>1, <2>1 DEF OneFlowInv, TokenBelongsToOwner
<1>3. UpsertsOwn'
  <2> SUFFICES ASSUME NEW f \in Flows, flows'[f].pc = "upserting"
               PROVE  ~SkipsForeign(accounts'[flows'[f].target], flows'[f].user)
    BY DEF UpsertsOwn
  <2>1. flows'[f] = flows[f] /\ flows[f].target \in AdAccounts
    BY DEF OneFlowInv, IInv, TypeOK, FlowLocalsSet
  <2> QED
    BY <1>1, <2>1 DEF OneFlowInv, UpsertsOwn, SkipsForeign, Connected
<1> QED
  BY <1>2, <1>3 DEF OneFlowInv

LEMMA AfterAccountMovesOn ==
    ASSUME NEW flow \in FlowState, NEW a
    PROVE  AfterAccount(flow, a).pc # "upserting"
<1>1. [flow EXCEPT !.pc = "finding", !.todo = @ \ {a}, !.target = NULL].pc = "finding"
  BY DEF FlowState
<1> QED
  BY <1>1 DEF AfterAccount, IdleFlow

LEMMA FindOwn ==
    ASSUME OneFlowInv, OneFlowAtATime, IInv', NEW f \in Flows, NEW a \in AdAccounts,
           FindExisting(f, a)
    PROVE  OneFlowInv'
<1>1. accounts' = accounts /\ minted' = minted
  BY DEF FindExisting, db, meta
<1>2. TokenBelongsToOwner'
  BY <1>1 DEF OneFlowInv, TokenBelongsToOwner, Connected
<1>3. flows[f] \in FlowState
  BY DEF OneFlowInv, IInv, TypeOK
<1>4. AfterAccount(flows[f], a).pc # "upserting"
  BY <1>3, AfterAccountMovesOn
<1>5. flows'[f].pc = "upserting" =>
         /\ ~SkipsForeign(accounts[a], flows[f].user)
         /\ flows'[f].target = a /\ flows'[f].user = flows[f].user
  BY <1>3, <1>4 DEF FindExisting, OneFlowInv, IInv, TypeOK, FlowState
<1>6. UpsertsOwn'
  BY <1>1, <1>5 DEF UpsertsOwn, OneFlowAtATime
<1> QED
  BY <1>2, <1>6 DEF OneFlowInv

LEMMA WriteOwn ==
    ASSUME OneFlowInv, OneFlowAtATime, IInv', NEW f \in Flows,
           UpsertAccount(f) \/ ConnectCreate(f)
    PROVE  OneFlowInv'
<1> DEFINE flow == flows[f]
           a == flow.target
<1>0. FlowOK(flow) /\ flow.pc \in {"upserting", "creating"}
  BY SlotsOK DEF OneFlowInv, UpsertAccount, ConnectCreate
<1>1. /\ a \in AdAccounts /\ flow.user \in Users
      /\ minted[flow.token] = [user |-> flow.user, app |-> flow.app, fb |-> flow.fb]
      /\ accounts \in [AdAccounts -> Row \cup {NULL}] /\ minted' = minted
  BY <1>0 DEF FlowOK, FlowLocalsSet, OneFlowInv, IInv, TypeOK, UpsertAccount, ConnectCreate, meta
<1>2. \A b \in AdAccounts : \/ accounts'[b] = accounts[b]
                            \/ b = a /\ accounts'[b].userId = flow.user
                                     /\ accounts'[b].token = flow.token
  <2>1. CASE UpsertAccount(f)
    <3>1. ~SkipsForeign(accounts[a], flow.user)
      BY <2>1 DEF OneFlowInv, UpsertsOwn, UpsertAccount
    <3>2. /\ Saved(accounts[a], flow).userId = flow.user
          /\ Saved(accounts[a], flow).token = flow.token
      BY <3>1 DEF Saved, SkipsForeign
    <3> QED
      BY <1>1, <2>1, <3>2 DEF UpsertAccount
  <2>2. CASE ConnectCreate(f)
    BY <1>1, <2>2 DEF ConnectCreate, db
  <2> QED
    BY <2>1, <2>2
<1>3. TokenBelongsToOwner'
  BY <1>1, <1>2 DEF OneFlowInv, TokenBelongsToOwner, Connected
<1>4. flows'[f].pc # "upserting"
  <2>1. flows \in [Flows -> FlowState] /\ AfterAccount(flow, a).pc # "upserting"
    BY AfterAccountMovesOn DEF OneFlowInv, IInv, TypeOK
  <2>2. flows' = [flows EXCEPT ![f] = AfterAccount(flow, a)] \/ flows' = [flows EXCEPT ![f] = IdleFlow]
    BY DEF UpsertAccount, ConnectCreate
  <2>3. IdleFlow.pc # "upserting"
    BY DEF IdleFlow
  <2> QED
    BY <2>1, <2>2, <2>3
<1>5. UpsertsOwn'
  BY <1>4 DEF UpsertsOwn, OneFlowAtATime
<1> QED
  BY <1>3, <1>5 DEF OneFlowInv

LEMMA OneFlowNext ==
    ASSUME OneFlowInv, OneFlowAtATime, [Next]_vars
    PROVE  OneFlowInv'
<1>0. IInv'
  BY NextIInv DEF OneFlowInv
<1>1. ASSUME NEW f \in Flows, NEW a \in AdAccounts, FindExisting(f, a)
      PROVE  OneFlowInv'
  BY <1>0, <1>1, FindOwn
<1>2. ASSUME NEW f \in Flows, UpsertAccount(f) \/ ConnectCreate(f)
      PROVE  OneFlowInv'
  BY <1>0, <1>2, WriteOwn
<1>3. ASSUME NEW f \in Flows, FlowStep(f),
             ~ \E a \in AdAccounts : FindExisting(f, a),
             ~ (UpsertAccount(f) \/ ConnectCreate(f))
      PROVE  OneFlowInv'
  <2>1. accounts' = accounts
    BY <1>3 DEF FlowStep, StartOAuth, OAuthRefused, OAuthCallback, ExchangeCode,
                FetchAdAccounts, ConnectAccount, ConnectFind, FlowFails, db
  <2>2. \A t \in IssuedTokens : minted'[t] = minted[t]
    BY <1>3 DEF FlowStep, StartOAuth, OAuthRefused, OAuthCallback, ExchangeCode,
                FetchAdAccounts, ConnectAccount, ConnectFind, FlowFails, meta,
                IssuedTokens, OneFlowInv, IInv, TypeOK
  <2>3. flows'[f].pc # "upserting"
    <3>1. flows[f] \in FlowState /\ flows \in [Flows -> FlowState]
      BY DEF OneFlowInv, IInv, TypeOK
    <3>2. CASE \/ \E u \in Users, app \in Apps : StartOAuth(f, u, app)
               \/ \E u \in Users, a \in AdAccounts, t \in Tokens, d \in BOOLEAN :
                     ConnectAccount(f, u, a, t, d)
      BY <3>1, <3>2 DEF StartOAuth, ConnectAccount, IdleFlow
    <3>3. CASE OAuthRefused(f) \/ FlowFails(f)
      BY <3>1, <3>3 DEF OAuthRefused, FlowFails, IdleFlow
    <3>4. CASE \E fb \in FbUsers, t \in Tokens : OAuthCallback(f, fb, t)
      BY <3>1, <3>4 DEF OAuthCallback, FlowState
    <3>5. CASE \E d \in BOOLEAN : ExchangeCode(f, d)
      BY <3>1, <3>5 DEF ExchangeCode, FlowState
    <3>6. CASE \E as \in SUBSET AdAccounts : FetchAdAccounts(f, as)
      BY <3>1, <3>6 DEF FetchAdAccounts, IdleFlow, FlowState
    <3>7. CASE ConnectFind(f)
      BY <3>1, <3>7 DEF ConnectFind, IdleFlow, FlowState
    <3> QED
      BY <1>3, <3>2, <3>3, <3>4, <3>5, <3>6, <3>7 DEF FlowStep
  <2> QED
    BY <1>0, <2>1, <2>2, <2>3, OwnersUntouched DEF OneFlowAtATime
<1>4. ASSUME NEW c \in Callers, CallStep(c)
      PROVE  OneFlowInv'
  <2>1. flows' = flows /\ minted' = minted
    BY <1>4 DEF CallStep, CallMeta, MetaAnswers, CallFails, DeactivateAccount, CallAborted, meta
  <2>2. \A a \in AdAccounts :
           \/ accounts'[a] = accounts[a]
           \/ Connected(a) /\ accounts'[a] = [accounts[a] EXCEPT !.isActive = FALSE]
    <3>1. CASE DeactivateAccount(c)
      <4>1. CallOK(calls[c]) /\ calls[c].pc = "rejected"
        BY <3>1, SlotsOK DEF DeactivateAccount, OneFlowInv
      <4>2. Connected(calls[c].account)
        BY <4>1 DEF CallOK
      <4> QED
        BY <3>1, <4>2 DEF DeactivateAccount, OneFlowInv, IInv, TypeOK
    <3>2. CASE ~DeactivateAccount(c)
      BY <1>4, <3>2 DEF CallStep, CallMeta, MetaAnswers, CallFails, CallAborted, db
    <3> QED
      BY <3>1, <3>2
  <2> QED
    BY <1>0, <2>1, <2>2, OwnersUntouched
<1>5. CASE WebhookStep
  <2>1. flows' = flows /\ minted' = minted
    BY <1>5 DEF WebhookStep, DeauthorizeWebhook, EventGone, meta
  <2>2. \A a \in AdAccounts :
           \/ accounts'[a] = accounts[a]
           \/ Connected(a) /\ accounts'[a] = [accounts[a] EXCEPT !.isActive = FALSE]
    BY <1>5 DEF WebhookStep, DeauthorizeWebhook, EventGone, db, GrantedThrough, Connected
  <2> QED
    BY <1>0, <2>1, <2>2, OwnersUntouched
<1>6. CASE \/ \E c \in ApiCalls, u \in Users, a \in AdAccounts : ResolveAccount(c, u, a)
           \/ \E r \in Runs : StartJob(r)
           \/ MetaStep
           \/ Crash
           \/ UNCHANGED vars
  <2>1. accounts' = accounts /\ minted' = minted
    BY <1>6 DEF ResolveAccount, StartJob, MetaStep, RevokeApp, TokenDies, DateLapses, Crash,
                vars, db, meta
  <2>2. \A f \in Flows : flows'[f].pc = "upserting" => flows'[f] = flows[f]
    BY <1>6 DEF ResolveAccount, StartJob, MetaStep, RevokeApp, TokenDies, DateLapses, Crash,
                vars, IdleFlow
  <2> QED
    BY <1>0, <2>1, <2>2, OwnersUntouched
<1> QED
  BY <1>1, <1>2, <1>3, <1>4, <1>5, <1>6 DEF Next

(* When connects never overlap, a row only ever stores tokens its owner    *)
(* obtained; the run MCOwnerRace shows that two overlapping ones break it. *)
THEOREM TokensStayWithOwner ==
    ASSUME OneFlowAtATime
    PROVE  Spec => []TokenBelongsToOwner
<1>1. Init => OneFlowInv
  <2> SUFFICES ASSUME Init PROVE OneFlowInv
    OBVIOUS
  <2>1. IInv
    BY InitIInv
  <2>2. UpsertsOwn /\ TokenBelongsToOwner
    BY DEF Init, UpsertsOwn, TokenBelongsToOwner, IdleFlow, Connected
  <2> QED
    BY <2>1, <2>2 DEF OneFlowInv
<1>2. OneFlowInv /\ [Next]_vars => OneFlowInv'
  BY OneFlowNext
<1>3. OneFlowInv => TokenBelongsToOwner
  BY DEF OneFlowInv
<1> QED
  BY <1>1, <1>2, <1>3, PTL DEF Spec

=============================================================================
