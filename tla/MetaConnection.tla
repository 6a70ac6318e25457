--------------------------- MODULE MetaConnection ---------------------------
(***************************************************************************)
(* The life of a MetaAccount row: connected by hand or through the OAuth   *)
(* dialog, used by API calls and by the background sync job, deactivated   *)
(* when Meta rejects its token or a deauthorize webhook arrives, and       *)
(* reconnected.  One step of the model is the code between two awaits.     *)
(*                                                                         *)
(* Data abstraction.  An access token is a member of Tokens; every consent *)
(* dialog yields a new one, and one obtained by hand may be posted again.  *)
(* A date kept in tokenExpiresAt is named by the token it was computed     *)
(* for, and "lapsed" holds the dates that have passed.  A row is named by  *)
(* its ad account: metaAdAccountId is unique and no code deletes a row.    *)
(* MetaApp rows never change once registered, so AppOwner is a constant.   *)
(***************************************************************************)

CONSTANTS
    Users,        \* platform users
    Apps,         \* registered MetaApp rows
    AppOwner,     \* the user each MetaApp row belongs to
    FbUsers,      \* the people who sign in to Meta
    AdAccounts,   \* ad accounts at Meta: the unique key of a MetaAccount row
    Tokens,       \* access tokens; their number bounds the consents given
    Flows,        \* slots for concurrent connect flows
    ApiCalls,     \* slots for concurrent API requests that call Meta
    Runs,         \* slots for overlapping runs of the sync job
    NULL          \* SQL NULL, "no row", "nothing yet"

ASSUME AppOwnerAssumption == AppOwner \in [Apps -> Users]
VARIABLES
    accounts,   \* the meta_accounts table, by ad account
    flows,      \* the connect flow in each slot
    calls,      \* the Meta call in each slot, with the row it was given
    minted,     \* for whom each token was issued; NULL when not issued yet
    dead,       \* the tokens Meta rejects
    lapsed,     \* the tokens whose recorded expiry date has passed
    events,     \* deauthorize webhooks Meta may still deliver
    held        \* history: every token each row has ever stored

db   == <<accounts, held>>
meta == <<minted, dead, lapsed, events>>
vars == <<accounts, flows, calls, minted, dead, lapsed, events, held>>

JobCalls == Runs \X AdAccounts
Callers  == ApiCalls \cup JobCalls

Row == [userId : Users, metaAppId : Apps \cup {NULL},
        facebookUserId : FbUsers \cup {NULL}, token : Tokens,
        tokenExpiresAt : Tokens \cup {NULL}, isActive : BOOLEAN]

Grant == [user : Users, app : Apps \cup {NULL}, fb : FbUsers \cup {NULL}]

Event == [app : Apps, fb : FbUsers]

ASSUME NullAssumption == NULL \notin Row \cup Grant \cup Apps

(* A flow is idle, waits for the person in the consent dialog, or is a     *)
(* handler suspended at one of its awaits.                                 *)
FlowState ==
    [pc : {"idle", "consent", "exchanging", "fetching", "finding",
           "upserting", "connecting", "creating"},
     user : Users \cup {NULL}, app : Apps \cup {NULL},
     fb : FbUsers \cup {NULL}, token : Tokens \cup {NULL},
     expiresIn : BOOLEAN, todo : SUBSET AdAccounts,
     target : AdAccounts \cup {NULL}]

CallState ==
    [pc : {"idle", "resolved", "sent", "rejected"},
     account : AdAccounts \cup {NULL}, row : Row \cup {NULL}]

IdleFlow == [pc |-> "idle", user |-> NULL, app |-> NULL, fb |-> NULL,
             token |-> NULL, expiresIn |-> FALSE, todo |-> {}, target |-> NULL]

IdleCall == [pc |-> "idle", account |-> NULL, row |-> NULL]

Init ==
    /\ accounts = [a \in AdAccounts |-> NULL]
    /\ flows = [f \in Flows |-> IdleFlow]
    /\ calls = [c \in Callers |-> IdleCall]
    /\ minted = [t \in Tokens |-> NULL]
    /\ dead = {}
    /\ lapsed = {}
    /\ events = {}
    /\ held = [a \in AdAccounts |-> {}]

Connected(a) == accounts[a] # NULL

IssuedTokens == {t \in Tokens : minted[t] # NULL}

(* The tokens person fb granted through app. *)
GrantedTo(app, fb) ==
    {t \in IssuedTokens : minted[t].app = app /\ minted[t].fb = fb}

(* The date stored with token t: its own when one was given. *)
GivenDate(given, t, otherwise) == IF given THEN t ELSE otherwise

-----------------------------------------------------------------------------
(* Connecting through OAuth.                                               *)

(* GET /meta-accounts/oauth/start: the app must be the caller's own. *)
StartOAuth(f, u, app) ==
    /\ flows[f].pc = "idle"
    /\ AppOwner[app] = u
    /\ flows' = [flows EXCEPT ![f] =
                    [IdleFlow EXCEPT !.pc = "consent", !.user = u, !.app = app]]
    /\ UNCHANGED <<db, calls, meta>>

(* The callback carries a denial, an expired state or no code, or the      *)
(* person never comes back.                                                *)
OAuthRefused(f) ==
    /\ flows[f].pc = "consent"
    /\ flows' = [flows EXCEPT ![f] = IdleFlow]
    /\ UNCHANGED <<db, calls, meta>>

(* The callback with a valid state and the code Meta issued to person fb.  *)
(* The code and the tokens exchanged from it die together: all are t.      *)
OAuthCallback(f, fb, t) ==
    /\ flows[f].pc = "consent"
    /\ AppOwner[flows[f].app] = flows[f].user
    /\ minted[t] = NULL
    /\ minted' = [minted EXCEPT ![t] =
                    [user |-> flows[f].user, app |-> flows[f].app, fb |-> fb]]
    /\ flows' = [flows EXCEPT ![f].pc = "exchanging", ![f].fb = fb, ![f].token = t]
    /\ UNCHANGED <<db, calls, dead, lapsed, events>>

(* Code for short-lived token for long-lived token; Meta may or may not    *)
(* say when the long-lived token expires.                                  *)
ExchangeCode(f, expiresIn) ==
    /\ flows[f].pc = "exchanging"
    /\ flows[f].token \notin dead
    /\ flows' = [flows EXCEPT ![f].pc = "fetching", ![f].expiresIn = expiresIn]
    /\ UNCHANGED <<db, calls, meta>>

(* The ad accounts the person may reach and the person's id, both asked    *)
(* with the new token; no ad account at all ends the flow.                 *)
FetchAdAccounts(f, reachable) ==
    /\ flows[f].pc = "fetching"
    /\ flows[f].token \notin dead
    /\ flows' = [flows EXCEPT ![f] =
                    IF reachable = {} THEN IdleFlow
                    ELSE [@ EXCEPT !.pc = "finding", !.todo = reachable]]
    /\ UNCHANGED <<db, calls, meta>>

(* Mutant of AfterAccount: the ad account stays in the loop. *)
AfterAccountRepeats(flow, a) ==
    IF flow.todo = {} THEN IdleFlow ELSE [flow EXCEPT !.pc = "finding", !.target = NULL]

(* The rest of the loop once ad account a is dealt with. *)
AfterAccount(flow, a) ==
    IF flow.todo = {a} THEN IdleFlow
    ELSE [flow EXCEPT !.pc = "finding", !.todo = @ \ {a}, !.target = NULL]

(* Mutant of SkipsForeign: the ownership test is forgotten. *)
SkipsNothing(row, u) == FALSE

SkipsForeign(row, u) == row # NULL /\ row.userId # u

(* findUnique of the next ad account: someone else's row is skipped. *)
FindExisting(f, a) ==
    /\ flows[f].pc = "finding"
    /\ a \in flows[f].todo
    /\ flows' = [flows EXCEPT ![f] =
                    IF SkipsForeign(accounts[a], flows[f].user)
                    THEN AfterAccount(@, a)
                    ELSE [@ EXCEPT !.pc = "upserting", !.target = a]]
    /\ UNCHANGED <<db, calls, meta>>

(* The date a row keeps when the flow's token is written over it: an       *)
(* undefined tokenExpiresAt leaves the column alone.                       *)
RefreshedDate(row, flow) == GivenDate(flow.expiresIn, flow.token, row.tokenExpiresAt)

(* Mutants of Saved: the update branch changes the owner; it leaves the    *)
(* app and the person of the first connect; two arguments are swapped.     *)
SavedTakesOver(row, flow) ==
    [userId |-> flow.user, metaAppId |-> flow.app,
     facebookUserId |-> flow.fb, token |-> flow.token,
     tokenExpiresAt |-> GivenDate(flow.expiresIn, flow.token, NULL), isActive |-> TRUE]

SavedKeepsGrant(row, flow) ==
    IF row = NULL THEN SavedTakesOver(row, flow)
    ELSE [row EXCEPT !.token = flow.token, !.isActive = TRUE]

SavedSwapped(row, flow) ==
    [SavedTakesOver(row, flow) EXCEPT !.metaAppId = flow.fb, !.facebookUserId = flow.app]

(* The row an upsert leaves: the create branch when there is none, the     *)
(* update branch, which does not touch userId, otherwise.                  *)
Saved(row, flow) ==
    IF row = NULL
    THEN [userId |-> flow.user, metaAppId |-> flow.app,
          facebookUserId |-> flow.fb, token |-> flow.token,
          tokenExpiresAt |-> GivenDate(flow.expiresIn, flow.token, NULL),
          isActive |-> TRUE]
    ELSE [userId |-> row.userId, metaAppId |-> flow.app,
          facebookUserId |-> flow.fb, token |-> flow.token,
          tokenExpiresAt |-> RefreshedDate(row, flow), isActive |-> TRUE]

(* The upsert, in whatever state the row is by now. *)
UpsertAccount(f) ==
    LET a == flows[f].target
    IN /\ flows[f].pc = "upserting"
       /\ accounts' = [accounts EXCEPT ![a] = Saved(@, flows[f])]
       /\ held' = [held EXCEPT ![a] = @ \cup {flows[f].token}]
       /\ flows' = [flows EXCEPT ![f] = AfterAccount(@, a)]
       /\ UNCHANGED <<calls, meta>>

-----------------------------------------------------------------------------
(* Connecting by hand: the user posts a token of their own, a new one or   *)
(* the one they connected other ad accounts with.                          *)

OwnGrant(u) == [user |-> u, app |-> NULL, fb |-> NULL]

ConnectAccount(f, u, a, t, expiresIn) ==
    /\ flows[f].pc = "idle"
    /\ minted[t] \in {NULL, OwnGrant(u)}
    /\ minted' = [minted EXCEPT ![t] = OwnGrant(u)]
    /\ flows' = [flows EXCEPT ![f] =
                    [IdleFlow EXCEPT !.pc = "connecting", !.user = u, !.token = t,
                                     !.expiresIn = expiresIn, !.target = a]]
    /\ UNCHANGED <<db, calls, dead, lapsed, events>>

(* findUnique: any row at all for the ad account is a 409. *)
ConnectFind(f) ==
    /\ flows[f].pc = "connecting"
    /\ flows' = [flows EXCEPT ![f] =
                    IF Connected(flows[f].target) THEN IdleFlow
                    ELSE [@ EXCEPT !.pc = "creating"]]
    /\ UNCHANGED <<db, calls, meta>>

(* Mutant of ConnectCreate: no unique index. *)
ConnectCreateOver(f) ==
    LET a == flows[f].target
        flow == flows[f]
    IN /\ flow.pc = "creating"
       /\ accounts' = [accounts EXCEPT ![a] =
             [userId |-> flow.user, metaAppId |-> NULL, facebookUserId |-> NULL,
              token |-> flow.token, tokenExpiresAt |-> NULL, isActive |-> TRUE]]
       /\ held' = [held EXCEPT ![a] = @ \cup {flow.token}]
       /\ flows' = [flows EXCEPT ![f] = IdleFlow]
       /\ UNCHANGED <<calls, meta>>

(* create: the unique index refuses a row that appeared meanwhile. *)
ConnectCreate(f) ==
    LET a == flows[f].target
        flow == flows[f]
    IN /\ flow.pc = "creating"
       /\ IF Connected(a) THEN UNCHANGED db
          ELSE /\ accounts' = [accounts EXCEPT ![a] =
                     [userId |-> flow.user, metaAppId |-> NULL,
                      facebookUserId |-> NULL, token |-> flow.token,
                      tokenExpiresAt |-> GivenDate(flow.expiresIn, flow.token, NULL),
                      isActive |-> TRUE]]
               /\ held' = [held EXCEPT ![a] = @ \cup {flow.token}]
       /\ flows' = [flows EXCEPT ![f] = IdleFlow]
       /\ UNCHANGED <<calls, meta>>

(* Any awaited call of a handler may fail and end the request: Meta, the   *)
(* network, the database (a unique violation in the upsert among them).    *)
FlowFails(f) ==
    /\ flows[f].pc \notin {"idle", "consent"}
    /\ flows' = [flows EXCEPT ![f] = IdleFlow]
    /\ UNCHANGED <<db, calls, meta>>

-----------------------------------------------------------------------------
(* Using a connection.                                                     *)

(* resolveMetaAccount reads the caller's own row for ad account a. *)
ResolveAccount(c, u, a) ==
    /\ calls[c].pc = "idle"
    /\ Connected(a)
    /\ accounts[a].userId = u
    /\ calls' = [calls EXCEPT ![c] = [pc |-> "resolved", account |-> a, row |-> accounts[a]]]
    /\ UNCHANGED <<db, flows, meta>>

(* A run of the sync job reads every active row and starts a call for each. *)
StartJob(r) ==
    /\ \A a \in AdAccounts : calls[<<r, a>>].pc = "idle"
    /\ calls' = [c \in Callers |->
                    IF c \in {r} \X AdAccounts /\ Connected(c[2]) /\ accounts[c[2]].isActive
                    THEN [pc |-> "resolved", account |-> c[2], row |-> accounts[c[2]]]
                    ELSE calls[c]]
    /\ UNCHANGED <<db, flows, meta>>

(* The two refusals in the constructor of MetaAccountClient. *)
Usable(row) == row.isActive /\ row.tokenExpiresAt \notin lapsed

(* The client is built from the row as it was read, and calls Meta. *)
CallMeta(c) ==
    /\ calls[c].pc = "resolved"
    /\ calls' = [calls EXCEPT ![c] =
                    IF Usable(calls[c].row) THEN [@ EXCEPT !.pc = "sent"] ELSE IdleCall]
    /\ UNCHANGED <<db, flows, meta>>

(* Mutant of MetaAnswers: code 190 is not recognised. *)
MetaAnswersUnread(c) ==
    /\ calls[c].pc = "sent"
    /\ calls' = [calls EXCEPT ![c] = IdleCall]
    /\ UNCHANGED <<db, flows, meta>>

(* Meta serves the call, or rejects its token with code 190. *)
MetaAnswers(c) ==
    /\ calls[c].pc = "sent"
    /\ calls' = [calls EXCEPT ![c] =
                    IF calls[c].row.token \in dead THEN [@ EXCEPT !.pc = "rejected"]
                    ELSE IdleCall]
    /\ UNCHANGED <<db, flows, meta>>

(* Mutant of CallFails: every error is taken for a dead token. *)
CallFailsForGood(c) ==
    /\ calls[c].pc = "sent"
    /\ calls' = [calls EXCEPT ![c].pc = "rejected"]
    /\ UNCHANGED <<db, flows, meta>>

(* Any other error of the call: a 502, and the row is left alone. *)
CallFails(c) ==
    /\ calls[c].pc = "sent"
    /\ calls' = [calls EXCEPT ![c] = IdleCall]
    /\ UNCHANGED <<db, flows, meta>>

(* handleMetaError after a 190: the row is deactivated by its id. *)
DeactivateAccount(c) ==
    LET a == calls[c].account
    IN /\ calls[c].pc = "rejected"
       /\ accounts' = [accounts EXCEPT ![a].isActive = FALSE]
       /\ calls' = [calls EXCEPT ![c] = IdleCall]
       /\ UNCHANGED <<held, flows, meta>>

(* The database fails before the call, or while the row is deactivated. *)
CallAborted(c) ==
    /\ calls[c].pc \in {"resolved", "rejected"}
    /\ calls' = [calls EXCEPT ![c] = IdleCall]
    /\ UNCHANGED <<db, flows, meta>>

-----------------------------------------------------------------------------
(* The deauthorize webhook.                                                *)

(* Mutant of GrantedThrough: the rows of the person, whatever the app. *)
GrantedByPerson(row, app, fb) ==
    row # NULL /\ row.facebookUserId = fb

GrantedThrough(row, app, fb) ==
    row # NULL /\ row.metaAppId = app /\ row.facebookUserId = fb

(* One updateMany.  The event stays: Meta may deliver it again. *)
DeauthorizeWebhook(e) ==
    /\ accounts' = [a \in AdAccounts |->
                       IF GrantedThrough(accounts[a], e.app, e.fb)
                       THEN [accounts[a] EXCEPT !.isActive = FALSE]
                       ELSE accounts[a]]
    /\ UNCHANGED <<held, flows, calls, meta>>

(* Meta will not deliver the event any more, whether it ever did or not. *)
EventGone(e) ==
    /\ events' = events \ {e}
    /\ UNCHANGED <<db, flows, calls, minted, dead, lapsed>>

-----------------------------------------------------------------------------
(* What happens at Meta, and with time.                                    *)

(* A person removes an app from their Meta account. *)
RevokeApp(app, fb) ==
    /\ GrantedTo(app, fb) \ dead # {}
    /\ dead' = dead \cup GrantedTo(app, fb)
    /\ events' = events \cup {[app |-> app, fb |-> fb]}
    /\ UNCHANGED <<db, flows, calls, minted, lapsed>>

(* A token expires at Meta, or is invalidated without a webhook. *)
TokenDies(t) ==
    /\ t \in IssuedTokens \ dead
    /\ dead' = dead \cup {t}
    /\ UNCHANGED <<db, flows, calls, minted, lapsed, events>>

DateLapses(t) ==
    /\ t \in IssuedTokens \ lapsed
    /\ lapsed' = lapsed \cup {t}
    /\ UNCHANGED <<db, flows, calls, minted, dead, events>>

(* The process restarts: handlers and job runs are gone, while people in   *)
(* the consent dialog keep their signed state.                             *)
Crash ==
    /\ flows' = [f \in Flows |-> IF flows[f].pc = "consent" THEN flows[f] ELSE IdleFlow]
    /\ calls' = [c \in Callers |-> IdleCall]
    /\ UNCHANGED <<db, meta>>

-----------------------------------------------------------------------------

FlowStep(f) ==
    \/ \E u \in Users, app \in Apps : StartOAuth(f, u, app)
    \/ OAuthRefused(f)
    \/ \E fb \in FbUsers, t \in Tokens : OAuthCallback(f, fb, t)
    \/ \E d \in BOOLEAN : ExchangeCode(f, d)
    \/ \E as \in SUBSET AdAccounts : FetchAdAccounts(f, as)
    \/ \E a \in AdAccounts : FindExisting(f, a)
    \/ UpsertAccount(f)
    \/ \E u \in Users, a \in AdAccounts, t \in Tokens, d \in BOOLEAN :
          ConnectAccount(f, u, a, t, d)
    \/ ConnectFind(f)
    \/ ConnectCreate(f)
    \/ FlowFails(f)

CallStep(c) ==
    \/ CallMeta(c)
    \/ MetaAnswers(c)
    \/ CallFails(c)
    \/ DeactivateAccount(c)
    \/ CallAborted(c)

WebhookStep == \E e \in events : DeauthorizeWebhook(e) \/ EventGone(e)

MetaStep ==
    \/ \E app \in Apps, fb \in FbUsers : RevokeApp(app, fb)
    \/ \E t \in Tokens : TokenDies(t) \/ DateLapses(t)

Next ==
    \/ \E f \in Flows : FlowStep(f)
    \/ \E c \in ApiCalls, u \in Users, a \in AdAccounts : ResolveAccount(c, u, a)
    \/ \E r \in Runs : StartJob(r)
    \/ \E c \in Callers : CallStep(c)
    \/ WebhookStep
    \/ MetaStep
    \/ Crash

Spec == Init /\ [][Next]_vars

(* setInterval starts a run again and again, and restarts start one too;   *)
(* a call of the job that keeps being made is not refused by the network   *)
(* or the database every single time.                                      *)
JobFairness ==
    /\ \A r \in Runs : WF_vars(StartJob(r))
    /\ \A c \in JobCalls : /\ SF_vars(CallMeta(c))
                           /\ SF_vars(MetaAnswers(c))
                           /\ SF_vars(DeactivateAccount(c))

FairSpec == Spec /\ JobFairness

-----------------------------------------------------------------------------
(* Properties.                                                             *)

(* The locals a handler has set at its program point. *)
FlowLocalsSet(flow) ==
    /\ flow.pc # "idle" => flow.user \in Users
    /\ flow.pc \notin {"idle", "connecting", "creating"} => flow.app \in Apps
    /\ flow.pc \notin {"idle", "consent"} => flow.token \in Tokens
    /\ flow.pc \in {"exchanging", "fetching", "finding", "upserting"} => flow.fb \in FbUsers
    /\ flow.pc \in {"upserting", "connecting", "creating"} => flow.target \in AdAccounts
    /\ flow.pc \in {"connecting", "creating"} => flow.app = NULL /\ flow.fb = NULL

CallLocalsSet(call) ==
    call.pc # "idle" => call.account \in AdAccounts /\ call.row \in Row

(* The rows fit the columns of the schema, and every local a handler goes  *)
(* on to use was set before its last await.                                *)
TypeOK ==
    /\ accounts \in [AdAccounts -> Row \cup {NULL}]
    /\ flows \in [Flows -> FlowState]
    /\ \A f \in Flows : FlowLocalsSet(flows[f])
    /\ calls \in [Callers -> CallState]
    /\ \A c \in Callers : CallLocalsSet(calls[c])
    /\ minted \in [Tokens -> Grant \cup {NULL}]
    /\ dead \in SUBSET Tokens
    /\ lapsed \in SUBSET Tokens
    /\ events \in SUBSET Event
    /\ held \in [AdAccounts -> SUBSET Tokens]

(* The app and the person written in a row are those its current token     *)
(* was granted through, whichever flows raced on the row.  The deauthorize *)
(* webhook selects rows by that pair, so this is what makes it hit the     *)
(* rows whose token was revoked and no others.                             *)
ProvenanceMatches ==
    \A a \in AdAccounts : Connected(a) =>
        /\ accounts[a].token \in IssuedTokens
        /\ accounts[a].metaAppId = minted[accounts[a].token].app
        /\ accounts[a].facebookUserId = minted[accounts[a].token].fb

(* A row is only ever inactive because Meta killed something: a token the  *)
(* row has stored, or a token of the same person and app.  No network      *)
(* failure, lapsed date or foreign webhook disconnects an account, however *)
(* calls, reconnects and webhooks interleave.                              *)
InactiveHasCause ==
    \A a \in AdAccounts : (Connected(a) /\ ~accounts[a].isActive) =>
        \E t \in dead :
            \/ t \in held[a]
            \/ /\ accounts[a].metaAppId # NULL
               /\ minted[t].app = accounts[a].metaAppId
               /\ minted[t].fb = accounts[a].facebookUserId

(* A row never changes hands and never disappears: concurrent connects of  *)
(* two users leave the row with the user whose insert came first.          *)
OwnershipStable ==
    [][\A a \in AdAccounts : Connected(a) =>
          accounts'[a] # NULL /\ accounts'[a].userId = accounts[a].userId]_vars

(* The row holds a token that its owner obtained: accounts "already owned  *)
(* by a different user are skipped rather than overwritten".               *)
TokenBelongsToOwner ==
    \A a \in AdAccounts : Connected(a) =>
        minted[accounts[a].token].user = accounts[a].userId

(* An account is refused as expired only when the token it stores is the   *)
(* one whose date lapsed.                                                  *)
RefusedOnlyWhenExpired ==
    \A a \in AdAccounts : (Connected(a) /\ accounts[a].tokenExpiresAt \in lapsed) =>
        accounts[a].tokenExpiresAt = accounts[a].token

(* The row deactivated after a rejected call still stores the token Meta   *)
(* rejected: what handleMetaError read before its awaits is still true.    *)
DeactivatesTheRejected ==
    [][\A c \in Callers : DeactivateAccount(c) =>
          accounts[calls[c].account].token = calls[c].row.token]_vars

(* What the API and the job go by when they take row a, with token t, for  *)
(* a working connection.                                                   *)
LooksUsableWith(a, t) ==
    Connected(a) /\ accounts[a].token = t /\ Usable(accounts[a])

(* A dead token does not go on looking usable: the background job finds it *)
(* out even when the webhook was lost and nobody calls the API.            *)
DeadTokenNoticed ==
    \A a \in AdAccounts, t \in Tokens :
        (t \in dead /\ LooksUsableWith(a, t)) ~> ~LooksUsableWith(a, t)

(* And it stays found out, as does any token a row was refused with: flows *)
(* that finish late, a token posted again, concurrent upserts of one row   *)
(* never put a token back to use that the row has stored before.  Only a   *)
(* token new to the row reconnects it.                                     *)
OnlyNewTokenReconnects ==
    [][\A a \in AdAccounts : \A t \in held[a] :
          ~LooksUsableWith(a, t) => ~LooksUsableWith(a, t)']_vars

(* The table, read as the connections of ConnectionLifecycle: the app and  *)
(* the person of a row are left to its token.                              *)
L == INSTANCE ConnectionLifecycle WITH
        connections <- [a \in {b \in AdAccounts : Connected(b)} |->
                           [owner |-> accounts[a].userId, token |-> accounts[a].token,
                            active |-> accounts[a].isActive]],
        granted <- [t \in IssuedTokens |-> minted[t]]

(* However flows, calls, job runs, webhooks and restarts interleave, every *)
(* step is one of the few that ConnectionLifecycle allows, or none: the    *)
(* upsert connects or refreshes, a rejected call or a webhook disconnects  *)
(* what Meta gave cause for, and nothing else changes a connection.        *)
ImplementsLifecycle == L!Spec

=============================================================================
