--------------------- MODULE ConnectionLifecycleProofs ---------------------
(***************************************************************************)
(* MetaConnection implements ConnectionLifecycle, for every number of      *)
(* users, apps, people, ad accounts, tokens, flows, calls and job runs:    *)
(* a simulation, step by step, that rests on the inductive invariant of    *)
(* MetaConnectionProofs.                                                   *)
(***************************************************************************)
EXTENDS MetaConnectionProofs

(* What ConnectionLifecycle sees of the state. *)
ConnectedAccounts == {a \in AdAccounts : Connected(a)}

Conns == [a \in ConnectedAccounts |->
            [owner |-> accounts[a].userId, token |-> accounts[a].token,
             active |-> accounts[a].isActive]]

Granted == [t \in IssuedTokens |-> minted[t]]

(* A step that leaves the four things it sees alone is a stutter. *)
LEMMA SeesNothing ==
    ASSUME UNCHANGED <<accounts, minted, dead, held>>
    PROVE  UNCHANGED L!vars
BY DEF L!vars, Connected, IssuedTokens

-----------------------------------------------------------------------------
(* Issuing a token.                                                        *)

LEMMA IssueObtains ==
    ASSUME IInv, NEW t \in Tokens, NEW g \in Grant,
           minted[t] = NULL, minted' = [minted EXCEPT ![t] = g],
           UNCHANGED <<accounts, dead, held>>
    PROVE  L!Next
<1>1. IssuedTokens' = IssuedTokens \cup {t} /\ t \notin IssuedTokens
  BY GrantNotNull DEF IssuedTokens, IInv, TypeOK
<1>2. \A s \in IssuedTokens : s # t /\ minted'[s] = minted[s]
  BY <1>1 DEF IssuedTokens, IInv, TypeOK
<1>3. minted'[t] = g
  BY DEF IInv, TypeOK
<1>4. Granted' = L!With(Granted, t, g)
  <2>1. DOMAIN Granted = IssuedTokens /\ \A s \in IssuedTokens : Granted[s] = minted[s]
    BY DEF Granted
  <2>2. Granted' = [s \in IssuedTokens' |-> minted'[s]]
    BY DEF Granted
  <2>3. L!With(Granted, t, g) = [s \in IssuedTokens \cup {t} |-> IF s = t THEN g ELSE Granted[s]]
    BY <2>1 DEF L!With
  <2> QED
    BY <1>1, <1>2, <1>3, <2>1, <2>2, <2>3
<1>5. Conns' = Conns
  BY DEF Conns, ConnectedAccounts, Connected
<1>6. g \in L!Grants
  BY DEF Grant, L!Grants
<1>7. L!Obtain(t, g)
  BY <1>1, <1>4, <1>5 DEF L!Obtain, Granted, Conns, ConnectedAccounts
<1> QED
  BY <1>6, <1>7 DEF L!Next

LEMMA IssuingRefines ==
    ASSUME IInv, NEW f \in Flows,
           \/ \E fb \in FbUsers, t \in Tokens : OAuthCallback(f, fb, t)
           \/ \E u \in Users, a \in AdAccounts, t \in Tokens, d \in BOOLEAN :
                 ConnectAccount(f, u, a, t, d)
    PROVE  L!Next \/ UNCHANGED L!vars
<1>1. ASSUME NEW fb \in FbUsers, NEW t \in Tokens, OAuthCallback(f, fb, t)
      PROVE  L!Next
  <2>1. flows[f].user \in Users /\ flows[f].app \in Apps
    BY <1>1 DEF IInv, TypeOK, OAuthCallback, FlowLocalsSet
  <2>2. [user |-> flows[f].user, app |-> flows[f].app, fb |-> fb] \in Grant
    BY <2>1 DEF Grant
  <2> QED
    BY <1>1, <2>2, IssueObtains DEF OAuthCallback, db
<1>2. ASSUME NEW u \in Users, NEW a \in AdAccounts, NEW t \in Tokens, NEW d \in BOOLEAN,
             ConnectAccount(f, u, a, t, d)
      PROVE  L!Next \/ UNCHANGED L!vars
  <2>1. OwnGrant(u) \in Grant
    BY DEF Grant, OwnGrant
  <2>2. CASE minted[t] = NULL
    BY <1>2, <2>1, <2>2, IssueObtains DEF ConnectAccount, db
  <2>3. CASE minted[t] = OwnGrant(u)
    <3>1. minted' = minted
      BY <1>2, <2>3 DEF ConnectAccount, IInv, TypeOK
    <3> QED
      BY <1>2, <3>1, SeesNothing DEF ConnectAccount, db
  <2> QED
    BY <1>2, <2>2, <2>3 DEF ConnectAccount
<1> QED
  BY <1>1, <1>2

-----------------------------------------------------------------------------
(* Writing a row.                                                          *)

LEMMA WriteRefines ==
    ASSUME IInv, NEW a \in AdAccounts, NEW t \in Tokens, NEW row \in Row,
           t \in IssuedTokens, Connected(a) => t \notin held[a], row.token = t, row.isActive = TRUE,
           row.userId = IF Connected(a) THEN accounts[a].userId ELSE minted[t].user,
           accounts' = [accounts EXCEPT ![a] = row],
           held' = [held EXCEPT ![a] = @ \cup {t}],
           UNCHANGED <<minted, dead>>
    PROVE  L!Next
<1>1. accounts'[a] = row /\ row # NULL
      /\ \A b \in AdAccounts \ {a} : accounts'[b] = accounts[b]
  BY RowNotNull DEF IInv, TypeOK
<1>2. ConnectedAccounts' = ConnectedAccounts \cup {a}
  BY <1>1 DEF ConnectedAccounts, Connected
<1>3. \A b \in ConnectedAccounts \ {a} : Conns'[b] = Conns[b]
  BY <1>1, <1>2 DEF Conns, ConnectedAccounts
<1>4. Granted' = Granted
  BY DEF Granted, IssuedTokens
<1>5. Conns'[a] = [owner |-> row.userId, token |-> t, active |-> TRUE]
  BY <1>1, <1>2 DEF Conns
<1>6. /\ DOMAIN Conns = ConnectedAccounts /\ DOMAIN Granted = IssuedTokens
      /\ Granted[t] = minted[t]
      /\ Conns' = [b \in ConnectedAccounts \cup {a} |-> Conns'[b]]
  BY <1>2 DEF Conns, Granted
<1>7. CASE Connected(a)
  <2>1. a \in ConnectedAccounts
    BY <1>7 DEF ConnectedAccounts
  <2>2. Conns[a].owner = row.userId
    BY <1>7, <2>1 DEF Conns
  <2>3. Conns' = L!With(Conns, a, L!Connection(Conns[a].owner, t, TRUE))
    BY <1>3, <1>5, <1>6, <2>1, <2>2 DEF L!With, L!Connection
  <2>4. L!Refresh(a, t)
    BY <1>4, <1>7, <2>1, <2>3 DEF L!Refresh, Conns, Granted, ConnectedAccounts
  <2> QED
    BY <2>4 DEF L!Next
<1>8. CASE ~Connected(a)
  <2>1. a \notin ConnectedAccounts
    BY <1>8 DEF ConnectedAccounts
  <2>2. Conns' = L!With(Conns, a, L!Connection(Granted[t].user, t, TRUE))
    BY <1>3, <1>5, <1>6, <1>8, <2>1 DEF L!With, L!Connection
  <2>3. L!Connect(a, t)
    BY <1>4, <2>1, <2>2 DEF L!Connect, Conns, Granted, ConnectedAccounts
  <2> QED
    BY <2>3 DEF L!Next
<1> QED
  BY <1>7, <1>8

LEMMA UpsertRefines ==
    ASSUME IInv, Unspent, NEW f \in Flows, UpsertAccount(f)
    PROVE  L!Next
<1> DEFINE flow == flows[f]
           a == flow.target
           row == Saved(accounts[a], flow)
<1>1. FlowOK(flow) /\ flow.pc = "upserting"
  BY SlotsOK DEF UpsertAccount
<1>2. /\ a \in AdAccounts /\ flow.user \in Users /\ flow.app \in Apps
      /\ flow.fb \in FbUsers /\ flow.token \in Tokens
      /\ minted[flow.token] = [user |-> flow.user, app |-> flow.app, fb |-> flow.fb]
  BY <1>1 DEF FlowOK, FlowLocalsSet
<1>3. row \in Row /\ row.token = flow.token /\ row.isActive = TRUE
  BY <1>2 DEF IInv, TypeOK, Saved, Row, RefreshedDate, GivenDate
<1>4. minted[flow.token] \in Grant /\ minted[flow.token].user = flow.user
  BY <1>2 DEF Grant
<1>5. flow.token \in IssuedTokens
  BY <1>2, <1>4, GrantNotNull DEF IssuedTokens
<1>6. row.userId = IF Connected(a) THEN accounts[a].userId ELSE minted[flow.token].user
  BY <1>4 DEF Saved, Connected
<1>7. /\ accounts' = [accounts EXCEPT ![a] = row]
      /\ held' = [held EXCEPT ![a] = @ \cup {flow.token}]
      /\ UNCHANGED <<minted, dead>>
  BY DEF UpsertAccount, meta
<1>8. flow.token \notin held[a]
  BY <1>1, UpsertsUnspent
<1> HIDE DEF row, a, flow
<1> QED
  BY <1>2, <1>3, <1>5, <1>6, <1>7, <1>8, WriteRefines

LEMMA CreateRefines ==
    ASSUME IInv, NEW f \in Flows, ConnectCreate(f)
    PROVE  L!Next \/ UNCHANGED L!vars
<1> DEFINE flow == flows[f]
           a == flow.target
           row == [userId |-> flow.user, metaAppId |-> NULL,
                   facebookUserId |-> NULL, token |-> flow.token,
                   tokenExpiresAt |-> GivenDate(flow.expiresIn, flow.token, NULL),
                   isActive |-> TRUE]
<1>1. FlowOK(flow) /\ flow.pc = "creating"
  BY SlotsOK DEF ConnectCreate
<1>2. CASE Connected(a)
  BY <1>2, SeesNothing DEF ConnectCreate, db, meta
<1>3. CASE ~Connected(a)
  <2>1. a \in AdAccounts /\ flow.user \in Users /\ flow.token \in Tokens
        /\ flow.app = NULL /\ flow.fb = NULL
        /\ minted[flow.token] = [user |-> flow.user, app |-> flow.app, fb |-> flow.fb]
    BY <1>1 DEF FlowOK, FlowLocalsSet
  <2>2. row \in Row /\ row.token = flow.token /\ row.isActive = TRUE /\ row.userId = flow.user
    BY <2>1 DEF Row, GivenDate
  <2>3. minted[flow.token] \in Grant /\ minted[flow.token].user = flow.user
    BY <2>1 DEF Grant
  <2>4. flow.token \in IssuedTokens
    BY <2>1, <2>3, GrantNotNull DEF IssuedTokens
  <2>5. row.userId = IF Connected(a) THEN accounts[a].userId ELSE minted[flow.token].user
    BY <1>3, <2>2, <2>3
  <2>6. /\ accounts' = [accounts EXCEPT ![a] = row]
        /\ held' = [held EXCEPT ![a] = @ \cup {flow.token}]
        /\ UNCHANGED <<minted, dead>>
    BY <1>3 DEF ConnectCreate, meta
  <2> HIDE DEF row, a, flow
  <2> QED
    BY <1>3, <2>1, <2>2, <2>4, <2>5, <2>6, WriteRefines
<1> QED
  BY <1>2, <1>3

-----------------------------------------------------------------------------
(* Deactivation.                                                           *)

LEMMA OffRefines ==
    ASSUME IInv, NEW Off \in SUBSET AdAccounts,
           \A a \in Off : /\ Connected(a)
                          /\ \E t \in dead :
                                \/ t \in held[a]
                                \/ /\ accounts[a].metaAppId # NULL
                                   /\ minted[t].app = accounts[a].metaAppId
                                   /\ minted[t].fb = accounts[a].facebookUserId,
           accounts' = [a \in AdAccounts |->
                           IF a \in Off THEN [accounts[a] EXCEPT !.isActive = FALSE]
                           ELSE accounts[a]],
           UNCHANGED <<held, minted, dead>>
    PROVE  L!Next \/ UNCHANGED L!vars
<1>0. PICK as : as = {a \in Off : accounts[a].isActive}
  OBVIOUS
<1>1. \A a \in AdAccounts : Connected(a) => accounts[a] \in Row
  BY DEF IInv, TypeOK, Connected
<1>2. \A a \in AdAccounts : Connected(a) =>
         /\ accounts'[a] \in Row
         /\ accounts'[a].userId = accounts[a].userId
         /\ accounts'[a].token = accounts[a].token
         /\ accounts'[a].isActive = IF a \in as THEN FALSE ELSE accounts[a].isActive
  <2> SUFFICES ASSUME NEW a \in AdAccounts, Connected(a)
               PROVE /\ accounts'[a] \in Row
                     /\ accounts'[a].userId = accounts[a].userId
                     /\ accounts'[a].token = accounts[a].token
                     /\ accounts'[a].isActive = IF a \in as THEN FALSE ELSE accounts[a].isActive
    BY Zenon
  <2>1. accounts[a] \in Row
    BY <1>1
  <2> QED
    BY <1>0, <2>1 DEF Row
<1>3. ConnectedAccounts' = ConnectedAccounts
  BY <1>2, RowNotNull DEF ConnectedAccounts, Connected
<1>4. Granted' = Granted
  BY DEF Granted, IssuedTokens
<1>5. Conns' = [a \in ConnectedAccounts |->
                  IF a \in as THEN L!Connection(Conns[a].owner, Conns[a].token, FALSE)
                        ELSE Conns[a]]
  <2>1. Conns' = [a \in ConnectedAccounts |->
                    [owner |-> accounts'[a].userId, token |-> accounts'[a].token,
                     active |-> accounts'[a].isActive]]
    BY <1>3 DEF Conns
  <2>2. \A a \in ConnectedAccounts :
           [owner |-> accounts'[a].userId, token |-> accounts'[a].token,
            active |-> accounts'[a].isActive] =
           IF a \in as THEN L!Connection(Conns[a].owner, Conns[a].token, FALSE)
                        ELSE Conns[a]
    <3> SUFFICES ASSUME NEW a \in ConnectedAccounts
                 PROVE  [owner |-> accounts'[a].userId, token |-> accounts'[a].token,
                         active |-> accounts'[a].isActive] =
                        IF a \in as THEN L!Connection(Conns[a].owner, Conns[a].token, FALSE)
                        ELSE Conns[a]
      OBVIOUS
    <3>1. a \in AdAccounts /\ Connected(a)
      BY DEF ConnectedAccounts
    <3>2. Conns[a] = [owner |-> accounts[a].userId, token |-> accounts[a].token,
                      active |-> accounts[a].isActive]
      BY DEF Conns
    <3>3. CASE a \in as
      <4>1. accounts'[a].isActive = FALSE
        BY <1>2, <3>1, <3>3
      <4>2. /\ accounts'[a].userId = Conns[a].owner
            /\ accounts'[a].token = Conns[a].token
        BY <1>2, <3>1, <3>2
      <4> QED
        BY <3>3, <4>1, <4>2 DEF L!Connection
    <3>4. CASE a \notin as
      BY <1>2, <3>1, <3>2, <3>4
    <3> QED
      BY <3>3, <3>4
  <2> QED
    BY <2>1, <2>2
<1>6. DOMAIN Conns = ConnectedAccounts /\ as \in SUBSET ConnectedAccounts
  BY <1>0 DEF Conns, ConnectedAccounts
<1>7. CASE as = {}
  <2>1. Conns' = Conns
    <3>1. Conns' = [a \in ConnectedAccounts |-> Conns[a]]
      BY <1>5, <1>7
    <3>2. Conns = [a \in ConnectedAccounts |-> Conns[a]]
      BY DEF Conns
    <3> QED
      BY <3>1, <3>2
  <2> QED
    BY <1>4, <2>1 DEF L!vars, Conns, Granted, ConnectedAccounts
<1>8. CASE as # {}
  <2>1. ASSUME NEW a \in as
        PROVE  Conns[a].active /\ L!MayDisconnect(a)
    <3>1. a \in ConnectedAccounts /\ a \in AdAccounts /\ accounts[a].isActive /\ a \in Off
      BY <1>0, <1>6
    <3>2. Conns[a].active /\ Conns[a].token = accounts[a].token
      BY <3>1 DEF Conns
    <3>3. PICK t \in dead :
             \/ t \in held[a]
             \/ /\ accounts[a].metaAppId # NULL
                /\ minted[t].app = accounts[a].metaAppId
                /\ minted[t].fb = accounts[a].facebookUserId
      BY <3>1
    <3>4. /\ accounts[a].token \in IssuedTokens
          /\ accounts[a].metaAppId = minted[accounts[a].token].app
          /\ accounts[a].facebookUserId = minted[accounts[a].token].fb
          /\ t \in IssuedTokens
      BY <3>1 DEF IInv, ProvenanceMatches, DeadWasIssued, ConnectedAccounts
    <3>5. Granted[t] = minted[t] /\ Granted[accounts[a].token] = minted[accounts[a].token]
      BY <3>4 DEF Granted
    <3>6. t \in held[a] \/ L!SameGrant(Conns[a].token, t)
      BY <3>2, <3>3, <3>4, <3>5 DEF L!SameGrant, Granted
    <3> QED
      BY <3>2, <3>6 DEF L!MayDisconnect, Conns, ConnectedAccounts
  <2>2. L!Disconnect(as)
    BY <1>4, <1>5, <1>6, <1>8, <2>1 DEF L!Disconnect, Conns, Granted, ConnectedAccounts
  <2>3. as \in SUBSET DOMAIN Conns
    BY <1>6
  <2> QED
    BY <2>2, <2>3 DEF L!Next, Conns, ConnectedAccounts
<1> QED
  BY <1>7, <1>8

LEMMA DeactivateRefines ==
    ASSUME IInv, NEW c \in Callers, DeactivateAccount(c)
    PROVE  L!Next \/ UNCHANGED L!vars
<1> DEFINE a == calls[c].account
<1>1. CallOK(calls[c]) /\ calls[c].pc = "rejected"
  BY SlotsOK DEF DeactivateAccount
<1>2. a \in AdAccounts /\ Connected(a) /\ calls[c].row.token \in dead \cap held[a]
  BY <1>1 DEF CallOK, CallLocalsSet
<1>3. accounts' = [b \in AdAccounts |->
                      IF b \in {a} THEN [accounts[b] EXCEPT !.isActive = FALSE]
                      ELSE accounts[b]]
  BY <1>2 DEF DeactivateAccount, IInv, TypeOK
<1>4. UNCHANGED <<held, minted, dead>>
  BY DEF DeactivateAccount, meta
<1>5. \A b \in {a} : Connected(b) /\ \E t \in dead : t \in held[b]
  BY <1>2
<1> HIDE DEF a
<1> QED
  BY <1>2, <1>3, <1>4, <1>5, OffRefines

LEMMA WebhookRefines ==
    ASSUME IInv, WebhookStep
    PROVE  L!Next \/ UNCHANGED L!vars
<1>1. ASSUME NEW e \in events, DeauthorizeWebhook(e)
      PROVE  L!Next \/ UNCHANGED L!vars
  <2> DEFINE Off == {a \in AdAccounts : GrantedThrough(accounts[a], e.app, e.fb)}
  <2>1. PICK t \in dead : minted[t].app = e.app /\ minted[t].fb = e.fb
    BY DEF IInv, EventsHaveCause
  <2>2. e.app # NULL
    BY NullAssumption DEF IInv, TypeOK, Event
  <2>3. \A a \in Off : Connected(a) /\ accounts[a].metaAppId # NULL
                       /\ minted[t].app = accounts[a].metaAppId
                       /\ minted[t].fb = accounts[a].facebookUserId
    BY <2>1, <2>2 DEF GrantedThrough, Connected
  <2>4. accounts' = [a \in AdAccounts |->
                        IF a \in Off THEN [accounts[a] EXCEPT !.isActive = FALSE]
                        ELSE accounts[a]]
    BY <1>1 DEF DeauthorizeWebhook
  <2>5. UNCHANGED <<held, minted, dead>>
    BY <1>1 DEF DeauthorizeWebhook, meta
  <2> HIDE DEF Off
  <2> QED
    BY <2>1, <2>3, <2>4, <2>5, OffRefines DEF Off
<1>2. ASSUME NEW e \in events, EventGone(e)
      PROVE  UNCHANGED L!vars
  BY <1>2, SeesNothing DEF EventGone, db
<1> QED
  BY <1>1, <1>2 DEF WebhookStep

-----------------------------------------------------------------------------

LEMMA MetaRefines ==
    ASSUME IInv, MetaStep
    PROVE  L!Next \/ UNCHANGED L!vars
<1>1. ASSUME NEW ts, ts \subseteq IssuedTokens, dead' = dead \cup ts,
             UNCHANGED <<accounts, held, minted>>
      PROVE  L!Next
  <2>1. Conns' = Conns /\ Granted' = Granted
    BY <1>1 DEF Conns, Granted, ConnectedAccounts, Connected, IssuedTokens
  <2>2. L!Die(ts)
    BY <1>1, <2>1 DEF L!Die, Conns, Granted, ConnectedAccounts
  <2>3. ts \in SUBSET DOMAIN Granted
    BY <1>1 DEF Granted
  <2> QED
    BY <2>2, <2>3 DEF L!Next, Granted
<1>2. ASSUME NEW app \in Apps, NEW fb \in FbUsers, RevokeApp(app, fb)
      PROVE  L!Next
  BY <1>1, <1>2 DEF RevokeApp, db, GrantedTo
<1>3. ASSUME NEW t \in Tokens, TokenDies(t)
      PROVE  L!Next
  <2>1. {t} \subseteq IssuedTokens
    BY <1>3 DEF TokenDies
  <2> QED
    BY <1>1, <1>3, <2>1 DEF TokenDies, db
<1>4. ASSUME NEW t \in Tokens, DateLapses(t)
      PROVE  UNCHANGED L!vars
  BY <1>4, SeesNothing DEF DateLapses, db
<1> QED
  BY <1>2, <1>3, <1>4 DEF MetaStep

LEMMA InitRefines ==
    ASSUME Init
    PROVE  L!Init
<1>1. ConnectedAccounts = {} /\ IssuedTokens = {}
  BY DEF Init, ConnectedAccounts, Connected, IssuedTokens
<1> QED
  BY <1>1 DEF Init, L!Init, ConnectedAccounts

LEMMA StepRefines ==
    ASSUME IInv, Unspent, [Next]_vars
    PROVE  L!Next \/ UNCHANGED L!vars
<1>1. ASSUME NEW f \in Flows, FlowStep(f)
      PROVE  L!Next \/ UNCHANGED L!vars
  <2>1. CASE \/ \E u \in Users, app \in Apps : StartOAuth(f, u, app)
             \/ OAuthRefused(f)
             \/ \E d \in BOOLEAN : ExchangeCode(f, d)
             \/ \E as \in SUBSET AdAccounts : FetchAdAccounts(f, as)
             \/ \E a \in AdAccounts : FindExisting(f, a)
             \/ ConnectFind(f)
             \/ FlowFails(f)
    BY <2>1, SeesNothing DEF StartOAuth, OAuthRefused, ExchangeCode, FetchAdAccounts,
                             FindExisting, ConnectFind, FlowFails, db, meta
  <2> QED
    BY <1>1, <2>1, IssuingRefines, UpsertRefines, CreateRefines DEF FlowStep
<1>2. ASSUME NEW c \in Callers, CallStep(c)
      PROVE  L!Next \/ UNCHANGED L!vars
  <2>1. CASE CallMeta(c) \/ MetaAnswers(c) \/ CallFails(c) \/ CallAborted(c)
    BY <2>1, SeesNothing DEF CallMeta, MetaAnswers, CallFails, CallAborted, db, meta
  <2> QED
    BY <1>2, <2>1, DeactivateRefines DEF CallStep
<1>3. CASE \/ \E c \in ApiCalls, u \in Users, a \in AdAccounts : ResolveAccount(c, u, a)
           \/ \E r \in Runs : StartJob(r)
           \/ Crash
           \/ UNCHANGED vars
  BY <1>3, SeesNothing DEF ResolveAccount, StartJob, Crash, vars, db, meta
<1> QED
  BY <1>1, <1>2, <1>3, WebhookRefines, MetaRefines DEF Next

(* The handlers, job runs, calls and webhooks of MetaConnection, however   *)
(* they interleave and wherever they fail, do to a connection only what    *)
(* ConnectionLifecycle allows: connect it for the one who obtained the     *)
(* token, refresh it for the same owner with a token it never had,         *)
(* disconnect it for a cause.                                              *)
THEOREM ConnectionsImplement == Spec => ImplementsLifecycle
<1>1. Init => L!Init
  BY InitRefines
<1>2. IInv /\ Unspent /\ [Next]_vars => [L!Next]_(L!vars)
  BY StepRefines
<1> QED
  BY <1>1, <1>2, AlwaysUnspent, PTL DEF Spec, ImplementsLifecycle, L!Spec

=============================================================================
