# Formal model of the marketing-portal API

TLA+ modules of the parts of this server where the order of events matters,
the TLC runs that check them on small instances, and theorems, checked by
TLAPS, that hold for instances of any size.

## The system

An Express server over MySQL (Prisma). Clients register, log in or use an API
key, register their own Meta (Facebook) apps, connect ad accounts through Meta's
OAuth dialog, and manage campaigns, ad sets, ads and creatives, which live both
in the database and at Meta. One Node process runs everything, so JavaScript never runs in
parallel; but every `await` lets other handlers, the background job and the
webhooks run, and Meta and the people who use it act at any time. **A step of
every model is the code between two awaits.**

| Component | State | Operations | What makes it correct | Modelled in |
|---|---|---|---|---|
| OAuth connect, MetaAccount lifecycle | `meta_accounts` | connect, OAuth start and callback, deauthorize webhook | owners, tokens and their origin stay together; rows go inactive for a cause | `MetaConnection` |
| MetaAccountClient | row as read | constructor refusals, one Meta call, deactivation after code 190 | a dead token is noticed, a working one is not blamed | `MetaConnection` |
| Campaigns | `ad_campaigns`, campaigns at Meta | create, patch, delete, sync, list, get | one row per campaign, table converges to Meta, drafts stay local | `CampaignMirror` |
| Background sync job | none (interval timer) | for every active account: list at Meta, upsert | as above; one account's failure does not stop the others | `MetaConnection`, `CampaignMirror` |
| Meta events webhook | none | patch campaign, ad set, ad rows | lost, late and repeated changes do no lasting harm | `CampaignMirror`, `AdHierarchy` |
| Audit log | `audit_logs` | create, list | says only what happened; never fails the request | `CampaignMirror`, `AdHierarchy` |
| Ad sets, ads, creatives | `ad_sets`, `ads`, `ad_creatives` | create, sync, patch, delete, attach | the hierarchy agrees with Meta; rows stay within one ad account | `AdHierarchy` |
| MetaApp registry | `meta_apps` | create after verifying at Meta, list | one row per appId, with a secret Meta confirmed | `UserAccess` |
| Registration, login, profile | `users` | register, login, update | one user per email, who keeps it | `UserAccess`, `CorsCache` |
| API keys, authentication | `users.apiKeyPrefix/Hash` | rotate, revoke, verify | one working key per user, old ones stop working | `UserAccess` |
| CORS portal cache | two module variables | refresh, lookup | stale, but not for ever | `CorsCache` |
| Lists | none | page, limit | pages cover the rows without gap or overlap | `Pagination` |
| Insights, rate limits, validation, crypto, config | none | | no behaviour over time | |

Interaction: campaigns, ad sets, ads, creatives and insights build a
`MetaAccountClient` from a `MetaAccount` row they read first; the client writes
that row when Meta rejects the token. The job does the same for every active
row. The two webhooks write the tables the handlers are working on. Audit
entries are written after the fact by the handlers. Every request passes the
CORS check and, but for registration, login and the webhooks, authentication.

What is hard: check-then-act on rows across awaits; rows used after they were
read; webhooks lost, late, repeated or out of order; a write to Meta without
the matching write to the table and the reverse; slow hashes between a lookup
and the decision it leads to; caches refreshed side by side; restarts in the middle. The
full list, line by line, with the property that covers each hazard, is under
`hazards` in `PROJECT.json`.

## Modules

| Module | What it is |
|---|---|
| `ConnectionLifecycle` | what the life of a connection amounts to; `MetaConnection` implements it |
| `MetaConnection`, `MCMetaConnection` | life of MetaAccount rows: connects, calls, job runs, webhooks, events at Meta; its instances for TLC |
| `MetaConnectionProofs` | theorems about it |
| `ConnectionLifecycleProofs` | that it implements `ConnectionLifecycle`; extends `MetaConnectionProofs` |
| `CampaignMirror`, `MCCampaignMirror` | one account's campaigns in the table and at Meta |
| `CampaignMirrorProofs` | theorems about it |
| `AdHierarchy`, `MCAdHierarchy` | ad sets and ads below campaigns, creatives, in the tables and at Meta |
| `AdHierarchyProofs` | theorems about it |
| `KeyService` | what API keys promise; `UserAccess` implements it |
| `UserAccess`, `MCUserAccess` | registration, login, API keys, authentication, Meta apps |
| `UserAccessProofs` | theorems about it |
| `KeyServiceProofs` | that it implements `KeyService`; extends `UserAccessProofs` |
| `CorsCache`, `MCCorsCache` | the cache of portal origins |
| `CorsCacheProofs` | theorems about it |
| `Pagination`, `PaginationProofs` | page arithmetic as operators, and theorems about them |

### MetaConnection

`accounts` is the `meta_accounts` table, indexed by its unique
`metaAdAccountId`. `flows` are the handlers of `POST /meta-accounts` and of the
OAuth dialog: `pc` names the await a flow is suspended at and the other fields
are its locals. `calls` are requests and job runs on their way to Meta with the row *as
it was read*. `minted`, `dead`, `events` are Meta's side: who each token was
issued for, which tokens it rejects, which deauthorize webhooks it may (still)
deliver. `lapsed` is the clock, seen through the stored dates. `held` is
history: the tokens a row has stored.

| Actions | Code |
|---|---|
| `StartOAuth`, `OAuthRefused`, `OAuthCallback` | `startOAuth`, `oauthCallback` up to the exchange |
| `ExchangeCode`, `FetchAdAccounts` | the Graph API calls of `metaOAuth.service.ts` |
| `FindExisting`, `UpsertAccount` | the loop of `persistMetaAccountsFromOAuth`: one query, then one upsert per ad account |
| `ConnectAccount`, `ConnectFind`, `ConnectCreate` | `connectMetaAccount` |
| `ResolveAccount`, `StartJob` | rows read by `getOwnedMetaAccount*` and by `syncAllCampaigns` |
| `CallMeta`, `MetaAnswers`, `CallFails`, `DeactivateAccount` | `MetaAccountClient`: constructor, the call, `handleMetaError` |
| `DeauthorizeWebhook` | the handler and its one `updateMany` |
| `FlowFails`, `CallAborted`, `Crash` | a thrown error; a process restart |
| `EventGone`, `RevokeApp`, `TokenDies`, `DateLapses` | Meta, people and the clock (external) |

Abstractions. A token a user got by hand may be posted again, for the same or
another ad account; a token from the dialog is used by one flow. The
authorization code, the short-lived and the long-lived token of one flow are one
token; a revoked app kills all tokens granted through it. A stored date is named by the token it was
computed for. A restart may happen at any await. A webhook whose app row does
not exist, or whose signature is wrong, changes nothing and is left out.
`externalCustomerId`, `businessName` and redirects are data no property reads.
The ownership check of `ResolveAccount` is kept; a missing or foreign row is a 404.
The state token of the dialog can be used more than once within its ten
minutes; as starting a dialog changes nothing else, a second `StartOAuth` is the
same. On MySQL Prisma looks a row up and then inserts or updates it, so an upsert
overtaken by another insert fails on the unique key; `FlowFails` covers that, and
`UpsertAccount` is every other outcome.

`ConnectionLifecycle` is the abstract side. It knows connections (owner, token,
active or not), issued and dead tokens and the history, and five steps: a token
is obtained, an ad account is connected with it and belongs to the one who
obtained it, a connection is refreshed with a token it never had and keeps its owner,
connections are disconnected when Meta killed a token they stored or one of the
same grant, tokens die. Flows, calls, webhooks and the app and person columns do
not occur. `ImplementsLifecycle` maps the table to it: `Connect` and `Refresh` are
`UpsertAccount` or `ConnectCreate`, `Disconnect` is `DeauthorizeWebhook` or
`DeactivateAccount`, `Obtain` and `Die` are Meta's steps, everything else is a stutter.

### CampaignMirror

`rows` is the `ad_campaigns` table of one ad account, by primary key; `remote`
the account's campaigns at Meta; `changes` the campaign webhooks Meta may
deliver, any number of times, in any order or never. `requests` are handlers
suspended at an await, `syncs` the listings whose upserts have not all been done, one
slot for the job and the others for `POST /campaigns/sync`. `audit` is the
trail, `edits` counts what users and people at Meta did.

| Actions | Code |
|---|---|
| `CreateInsert`, `CreatePush`, `CreateLink` | `createCampaign`: insert, push when live, store `metaCampaignId` |
| `UpdateRead`, `UpdatePush`, `UpdateWrite` | `updateCampaign`: read, push when linked, write |
| `DeleteRead`, `DeleteRow` | `deleteCampaign`: Meta is not told |
| `WriteAudit`, `AuditFails`, `RequestFails` | `createAuditLog`; a thrown error |
| `SyncList`, `SyncUpsert`, `UpsertFails` | `syncCampaignsFromMeta`, and `syncAccount` of the job |
| `Webhook` | `receiveWebhook` with `handleChange` |
| `MetaEdit`, `ChangeGone` | people at Meta, Meta's delivery (external) |
| `Crash` | a process restart |

Abstractions. `name` stands for every field copied as it is; the status is kept
because it is converted (`Mapped` for a sync, `WebhookStatus` for a webhook) and
because the code branches on it. A disconnected account, an ownership failure, a field
the table does not have and a refusal by Meta are all `RequestFails`. Meta's
listing leaves out deleted and archived campaigns, as the Graph API does when
asked without a status filter, and is read in one page. Meta knows no `DRAFT`
status and refuses it. The job's own slot means that its runs do not overlap each other
(they are 30 minutes apart); API syncs overlap it. Lookups followed by writes
follow Prisma on MySQL: a row that goes between the two is passed over
(`Updated`), a row that comes in between makes an upsert fail (`UpsertFails`).

### AdHierarchy

`rows` holds the three tables of the hierarchy by primary key; the level of a
row is that of the object at Meta it is linked to, since the code of ad sets and
ads differs in little: `updateAdSet` pushes to Meta and `updateAd` does not, and
only ads have creatives. `creatives` is `ad_creatives`, with the ad account of each
row. `remote` are ad sets and ads at Meta, and `had` is history: every status each
has had there, which is also what webhooks may report, late or repeatedly.
`requests`, `syncs`, `audit` and `edits` are as in `CampaignMirror`, except that
a sync first reads the row it is for and lists later.

| Actions | Code |
|---|---|
| `CreateRead`, `CreatePush`, `CreateInsert` | `createAdSet`: read the campaign, push, insert |
| `UpdateRead`, `UpdatePush`, `UpdateWrite` | `updateAdSet`; `updateAd` skips the push |
| `DeleteRead`, `DeleteRow` | `deleteCampaign`, `deleteAdSet`, `deleteAd`, with the cascades of the schema |
| `UploadCreative`, `DeleteCreative`, `AttachCheck`, `Attach` | `creative.service.ts` |
| `WriteAudit`, `RequestFails` | as above |
| `SyncRead`, `SyncList`, `SyncUpsert`, `UpsertFails` | `syncAdSets`, `syncAds` |
| `Webhook` | the `adsets` and `ads` branches of `handleChange` |
| `CampaignStored` | a campaign sync inserts a row (in full in `CampaignMirror`) |
| `MetaCreate`, `MetaEdit` | people at Meta (external) |
| `Crash` | a process restart |

Abstractions. Only statuses are kept of ad sets and ads. Campaigns without a row
at Meta are left out: every operation below them is refused. So is
`POST .../ads`: it requires a `metaCreativeId`, which no code stores
(`createAdCreative` of the client is never called), and refuses before it
changes anything. The code does not validate the bodies of these requests;
clients are taken to send the fields the service types name, not, say, a
`campaignId` in a patch. An attach whose ad and creative are looked up in two
queries reads both in one step, as a delete of either in between shows again at
the write.

### UserAccess

`users` and `apps` are the tables `users` and `meta_apps`, by email and by
appId. `requests` are handlers suspended at an await; `pc` names it and the
other fields are the locals: among them `stored`, the hash *as it was read*, `via`,
the key the request presented, and `fresh`, the key being generated. `signed` and
`issuedTo` are history: the sessions signed and the keys handed out. `secrets` is
Meta's side.

| Actions | Code |
|---|---|
| `RegisterFind`, `RegisterCreate` | `registerUser`: lookup, slow hash, insert under the unique index |
| `LoginFind`, `LoginCompare` | `loginUser` |
| `BearerAccepted` | `authMiddleware` with a session token |
| `KeyLookup`, `KeyCompare` | `authMiddleware` with an API key: `verifyApiKey` |
| `RotateStore`, `RevokeStore` | `generateApiKey` after its hash, `revokeApiKey` |
| `AppFind`, `AppVerify`, `AppCreate` | `createMetaApp`: lookup, call to Meta, insert under the unique index |
| `RequestFails`, `Crash` | a thrown error; a process restart |
| `ResetSecret` | an app's owner at Meta (external) |

Abstractions. A user is named by the email, which no code changes; emails that
MySQL's collation takes for equal are one email. Of a password or a key bcrypt
sees the first 72 bytes, and a password or key of the model stands for these. A
generated key differs from all keys before it (it is random and long), but its
prefix, six random bytes, may collide: the unique index then refuses it. A session
token is a signed JWT that no code can revoke, so `signed` only grows; that it
expires only means another login. A write whose answer is lost is the write, then
`RequestFails` of whoever waited for it. The authenticated operations of this
module are rotate, revoke and creating an app; what the others do is in the other
modules.

`KeyService` is the abstract side: a user has one working key or none; a
request that presents it is accepted at once as that user; rotating hands out a
key and makes it the working one in the same step. In the code a comparison takes
long and goes by the row read before it. The refinement says how far that shows:
a request counts as accepted from the moment its row was *read* with the right
key (`CallerOf`), so a key revoked during the comparison still lets this one request
in, and none that is looked up later.

### CorsCache

`cached` and `fresh` are `cachedPortalOrigins` and whether `cacheExpiresAt` is
still to come; `requests` are requests in the CORS check, `querying` at its one
await and `answered` between the database's answer and the continuation that
installs it. `portals` is the `portalUrl` column. `wasIn` and `wasOut` are history:
the origins that were, and that were not, some user's portal at some time since the
process started.

| Actions | Code |
|---|---|
| `DecideAtOnce` | no Origin, a configured one, or a cache still good |
| `StartRefresh`, `InstallRefresh` | `getAllowedPortalOrigins` before and after its query |
| `DatabaseAnswers`, `RefreshFails` | the query (external) |
| `Done`, `Expire` | the response; the minute passes |
| `SetPortal` | the column as `registerUser` and `updateProfile` write it |
| `Crash` | a process restart |

Abstractions. Portal URL and Origin header are compared as strings, so both are
members of one set. Requests that find the cache stale all query, and the answers
are installed in the order they come back, not in the order they were asked: a
refresh may put back what a later one had replaced. A query that fails rejects a promise that nothing
handles: the request is never answered (`RefreshFails`), or the process ends (`Crash`).

### Pagination

Operators, no state: `PageNumber` and `PageLimit` are what the controllers make
of `page` and `limit`, `Skip`, `RowsOf` and `TotalPages` what the services make of
those. `parseInt` may yield NaN, which goes through `Math.max` and `Math.min` and is
refused by the database (`Answered`). Numbers too large for the database are
left out.

## Runs

| Run | Properties | Instance | Distinct states |
|---|---|---|---|
| `connect_races` | `TypeOK`, `ProvenanceMatches`, `InactiveHasCause`, `OwnershipStable`, `OnlyNewTokenReconnects`, `ImplementsLifecycle` | 2 users, an app each, 1 person, 2 ad accounts, 2 tokens, 2 flows | 611 000 |
| `dead_token` | `TokenBelongsToOwner`, `InactiveHasCause`, `DeadTokenNoticed` | 2 users, 1 app, 1 account, 2 tokens, 1 flow, 1 API call, the job | 199 000 |
| `mirror_races` | `TypeOK`, `OneRowPerCampaign`, `AuditTrue`, `LinkStable`, `StaysInSync` | 2 campaigns, 2 requests, the job, 3 edits | 235 000 |
| `mirror_converges` | `EventuallyInSync`, `DraftsAreLocal` | 1 campaign, 1 request, the job and an API sync, 3 edits | 78 000 |
| `hierarchy` | `TypeOK`, `HierarchyAgrees`, `OneRowPerObject`, `ShownWasAtMeta`, `AuditTrue`, `CreativeExists` | 2 campaigns in 2 accounts, an ad set, an ad, a creative, 2 requests, 1 sync, 3 edits | 855 000 |
| `access` | `TypeOK`, `SignedOnTheirPassword`, `KeyIdentifiesUser`, `SecretsWereValid`, `RegisteredOnce`, `ImplementsKeyService`, `OldKeysStayOut` | 2 emails, 2 passwords, 3 keys with 2 prefixes, 1 app, 2 secrets, 2 requests | 773 000 |
| `cors` | `TypeOK`, `VerdictsGrounded`, `StaysCaughtUp`, `EventuallyAllowed`, `EventuallyRefused` | 2 users, 3 origins of which 1 configured, 2 requests | 173 000 |

`MCAdHierarchy` also has TLC evaluate `Pagination` on every small request and table
(`PagesInOrder`, `ParametersRepaired`).

What the properties say, beyond their comments:

- `ProvenanceMatches` is what the deauthorize webhook needs: it selects rows by
  `(metaAppId, facebookUserId)`, so the pair must be that of the stored token,
  whichever flows raced.
- `InactiveHasCause` is the strongest form of "no account is disconnected for
  nothing" that holds. A webhook of a revocation that is delivered after the
  person connected again disconnects the new connection too; Meta did kill a
  token of that person and app, so this counts as a cause. So does a rejection of
  a token the row has since replaced, which `DeactivatesTheRejected` is about.
- `OnlyNewTokenReconnects`, `StaysInSync` and `StaysCaughtUp` are the other half of the
  liveness properties. `DeadTokenNoticed` says that a dead token comes to
  be noticed, `OnlyNewTokenReconnects` that no flow that finishes late undoes that.
  `EventuallyInSync` says that a campaign comes to be in sync and
  that old webhooks and listings run out, `StaysInSync` that once they have, no step takes
  the campaign back; `EventuallyAllowed` and `EventuallyRefused` that answers of
  older queries run out, `StaysCaughtUp` that then no step brings an old verdict
  back. The last two say nothing of stale news while it is on its way; that is
  what the liveness properties are for. As action properties they need no
  fairness, and are theorems.
- `TokenBelongsToOwner` holds when connects do not overlap (`dead_token`, and as a
  theorem) and fails when they do (`owner_race`).
- `DraftsAreLocal` likewise: it holds with one API request at a time, whatever
  syncs, webhooks and restarts do (`mirror_converges`, and as a theorem), and
  fails with two (`draft_race`). In the other direction the code promises nothing: a draft
  patched to `ACTIVE` is stored as `ACTIVE` and never pushed.
- `HierarchyAgrees` is about rows read before a delete and used after it: a
  campaign that is deleted and synced again has a new key, and creates and syncs
  that still hold the old one must come to nothing.
- `ShownWasAtMeta` is for ad sets. Ads have no such property: a patch of an ad
  is stored without telling Meta, and the next sync takes it back.
- `EventuallyInSync` speaks of the campaigns Meta lists. Rows of campaigns
  deleted or archived at Meta stay as they were, which the code does not
  promise to repair.
- `ImplementsLifecycle` and `ImplementsKeyService` are refinements: TLC checks
  that every step of the detailed module is a step of the abstract one or a stutter.
- `RegisteredOnce` and `SignedOnTheirPassword` are about two people who register
  one email at once: both find it free, both hash, and the unique index decides.
- `KeyIdentifiesUser` is about the lookup by prefix, which made-up keys and
  keys rotated away share with the working one. `OldKeysStayOut` says the same
  over time: whoever still has the old key gets in no more, though the
  comparison goes by a hash read earlier.
- `VerdictsGrounded` excludes verdicts that were never right; that they may be a
  minute old, or older when refreshes overlap, is how the cache works.
  `EventuallyAllowed` and `EventuallyRefused` say that this does not last: an old answer
  installed late is replaced a minute later.

### Disagreements between the code and what it says of itself

Each of these runs must end with a counterexample; `findings` in
`PROJECT.json` quotes the comment it contradicts.

| Run | Property | What happens |
|---|---|---|
| `owner_race` | `TokenBelongsToOwner` | two users connect one new ad account at once; the second upsert overwrites the first user's token |
| `stale_rejection` | `DeactivatesTheRejected` | a call made with the old token is rejected after a reconnect, and the row is deactivated by id |
| `reconnect_expired` | `RefusedOnlyWhenExpired` | a reconnect without `expires_in` keeps the old date, and the fresh token is refused |
| `draft_race` | `DraftsAreLocal` | a patch to `DRAFT` overtakes the link of a create |
| `attach_customer` | `CreativeOfSameCustomer` | a request without `externalCustomerId` attaches one customer's creative to another customer's ad |

### Bounds

- `Tokens` bounds the number of consents ever given. Two are enough for every
  pairwise race: old and new token, two owners, or two apps of one person.
- `Flows`, `ApiCalls`, `Requests`, `Syncs`, `Runs`, `Slots` are slots that are used again
  and again; two competitors of each kind that races are present in some run.
- `MaxEdits` bounds API requests and edits at Meta together. Three allow create,
  patch and delete of one campaign, or an edit at Meta between two requests.
  The job, webhooks and restarts are not bounded.
- In `CampaignMirror`, `Ids` must be at least `MaxEdits + Cardinality(MetaIds)`,
  otherwise inserts run out of keys. A campaign whose row was deleted is
  inserted again by the next sync, at most once per delete. In `hierarchy` keys
  can run out: two campaigns, an ad set and an ad need four, which leaves two
  for rows stored again after a delete.
- One campaign is enough for `mirror_converges`, whose property is about each
  campaign by itself; `Names` has one element where the status alone tells
  versions of a campaign apart.
- The hierarchy has two campaigns in two ad accounts, so that a wrong parent or
  account would show; three edits give an ad set, an ad and one request, or an
  ad set and two requests racing on it or on its campaign. With one ad set and one ad,
  upserts of several items side by side are left to the theorems.
- `connect_races` has no API call and no job, which have no part in a race of two
  connects; two ad accounts let the loop of a flow run twice. `dead_token` has
  one flow, so connects do not overlap in it.
- `Keys` bounds the rotations and has keys nobody was given besides: with three, a
  key can be rotated away, the next one be valid and a third be made up, and a
  prefix be shared or not. Two secrets let one be reset once.
- In `cors` the configured origin may be a portal as well; of the other two one
  can be given up while the other is taken, and two users can have one portal.
- Symmetry is used in safety runs only, for tokens, ad accounts of connections, flow slots, campaigns,
  request slots, and the emails, passwords and secrets of `access`. Users and apps
  are told apart by `AppOwner`, ad accounts of the hierarchy by `AccountOf`, API keys
  by `PrefixOf`, and row keys by the `CHOOSE` of `NewId`.

### Fairness

`dead_token` assumes `JobFairness`: the interval timer of `startSyncJob` starts
runs for ever, and a restart starts one (weak fairness of `StartJob`); a call that
the job makes again and again is not cut off by the network, the database or a
restart every single time (strong fairness of the three steps of a job call).
Nothing is assumed of users, API calls or the webhook.

`mirror_converges` assumes that handlers and syncs that have started end somehow
(weak fairness), that Meta gives up on a webhook at some point, that the job's
timer keeps firing and that its upsert of a campaign it lists for ever is not refused every
time (strong fairness). Webhooks may all be lost. No fairness is given to users, to Meta's
edits or to API syncs being started.

`cors` assumes that a query ends, one way or the other, that the process runs on
its answer, that a response is sent, and that a minute passes (weak fairness of
each). It does not assume that queries succeed, that requests come, or that
portals stop changing.

Deadlock is checked in every run. `AdHierarchy` and `UserAccess` have no timer and
no fairness: their properties are safety properties, as a client that gets no
answer asks again, and nothing else is promised.

## Theorems

A theorem here is `Spec => []P`, or `Spec => P` for an action property or a
refinement, for every value of the constants that satisfies the assumptions
named. Each is proved in
the same way: an inductive invariant `IInv`, that `Init`
implies it, that every step preserves it, one lemma per action, and that it
implies the property.

### Connections

`MetaConnectionProofs` proves, for all sets of users, apps, people, accounts,
tokens, flows, calls and runs, finite or not:

| Theorem | Statement |
|---|---|
| `Invariance` | `Spec => []IInv` |
| `TypeCorrect` | `Spec => []TypeOK` |
| `Provenance` | `Spec => []ProvenanceMatches` |
| `NoCauselessDeactivation` | `Spec => []InactiveHasCause` |
| `OwnershipIsStable` | `Spec => OwnershipStable` |
| `ReconnectsTakeNewTokens` | `Spec => OnlyNewTokenReconnects` |
| `TokensStayWithOwner` | with one flow slot, `Spec => []TokenBelongsToOwner` |

Assumptions: `AppOwnerAssumption` (every app has an owner) and `NullAssumption`
(NULL is not a row, a grant or an app).

The argument. `ProvenanceMatches` is not inductive: an upsert copies the app and
person of the *flow*, so what flows carry must match the token they carry
(`FlowTokens`). `InactiveHasCause` is not inductive either: a row is
deactivated by a call in flight or by a webhook, so a rejected call must hold a
dead token the row has stored (`CallsHold`, which needs `RowsHold`), and a
pending webhook must stand for a killed token (`EventsHaveCause`); that a dead
token keeps its grant needs `DeadWasIssued`. `IInv` is the conjunction. The
proof has a lemma per kind of step: steps local to a flow or a call, issuing a
token, the two writes of a row, reading rows, the two deactivations, events at
Meta, a restart. `OwnershipIsStable` follows from `IInv` step by step.
`ReconnectsTakeNewTokens` adds `Unspent`: the token a flow carries is new to every
ad account it may still write (`FlowUnspent`), no two flows of the dialog carry one
token (`TokensApart`, without which two loops could write the same token twice),
and what a row has stored was issued and came with a row (`HistoryOK`). A
token posted by hand may have been used before, but `ConnectCreate` only
writes where there is no row, and so where nothing was ever stored.
`TokensStayWithOwner` adds `UpsertsOwn`: the row a flow is about to upsert is
absent or its own, which only holds if no other flow can write in between.

`ConnectionLifecycleProofs` proves `ConnectionsImplement`,
`Spec => ImplementsLifecycle`, from the same assumptions: a simulation, step by
step. It needs the inductive invariants where the detailed step acts on locals:
`Unspent` makes an update a `Refresh`, with a token the row never held;
that the token of a flow was issued to the flow's user (`FlowTokens`) makes an
insert a `Connect`; that a row carries the app and person of its token
(`ProvenanceMatches`), that a webhook stands for a killed token and a rejected call for a dead
one that its row stored, make a deactivation a `Disconnect` with cause.

### Campaigns

`CampaignMirrorProofs` proves, for all sets of keys, campaigns, names, requests
and syncs, and any bound on edits:

| Theorem | Statement |
|---|---|
| `Invariance` | `Spec => []IInv` |
| `TypeCorrect` | `Spec => []TypeOK` |
| `OneRow` | `Spec => []OneRowPerCampaign` |
| `TrailIsTrue` | `Spec => []AuditTrue` |
| `LinksAreStable` | `Spec => LinkStable` |
| `InSyncStays` | `Spec => StaysInSync` |
| `DraftsStayLocal` | with one request slot, `Spec => []DraftsAreLocal` |

Assumptions: `RowAssumption` (the marks for unused and deleted keys are neither
rows nor each other, and NULL is neither a campaign nor an id of one),
`InputAssumption` (users set statuses of the schema's enum), `MetaAssumption`
(nobody sets `DRAFT` at Meta; for the last theorem) and `BoundAssumption`
(`MaxEdits` is a natural number).

The argument. `OneRowPerCampaign` rests on the unique index, which the steps
state as `MayLink` and `Mirrored`; what makes it inductive is only that every
write of a row is one of a few kinds (`MayWrite`): it keeps the row's campaign, or
takes one that no row has. `AuditTrue` is not inductive: an entry is written a step after
what it reports, from the locals of the handler, while others go on changing the
row. So `RequestsOK` says of every suspended request that what it is about to
claim is true already, and that the row it will link has no campaign yet.
For the second part two creates must never hold the same row (`CreatesApart`),
and no sync or webhook may link it. `LinksAtMeta` and `SyncsAtMeta` say that ids held
in rows and listings are of campaigns that exist. `IInv` is the conjunction;
TLC agreed that it is invariant on the instance of `mirror_races` before it was
proved. There is a lemma per action, above lemmas for the kinds of step: one request moves,
Meta stores a campaign, one row is written. Each shows `SafeStep`: `IInv` is
preserved and every row keeps its link, which is `LinksAreStable`.
`InSyncStays` needs no more than `IInv`. Its lemmas say of each step that it leaves the rows
of campaign m at what they show or puts them to what Meta has (`KeepsShown`), and puts nothing
on its way that is news about m (`BringsNoNews`):
webhooks and listings about m say what the row shows already, a step of a
request writes another row (`WorksElsewhere`), and what Meta stores is
another campaign or m as it was.
`DraftsStayLocal` adds `DraftInv`: Meta, its webhooks and listings know no draft
(`NoDraftAtMeta`), a row on its way to Meta is none, and a draft about to be
written goes into an unlinked row (`DraftApart`). The last two survive because
syncs and webhooks leave unlinked rows alone (`LeavesUnlinked`), and because there
is no other request, which is what `draft_race` takes away.

### Ad sets, ads and creatives

`AdHierarchyProofs` proves, for all sets of keys, objects, accounts, creatives,
requests and syncs, and any bound on edits:

| Theorem | Statement |
|---|---|
| `Invariance` | `Spec => []IInv` |
| `TypeCorrect` | `Spec => []TypeOK` |
| `HierarchyAlwaysAgrees` | `Spec => []HierarchyAgrees` |
| `RowsAreUnique` | `Spec => []OneRowPerObject` |
| `StatusesWereAtMeta` | `Spec => []ShownWasAtMeta` |
| `TrailIsTrue` | `Spec => []AuditTrue` |
| `CreativesExist` | `Spec => []CreativeExists` |

Assumptions: `LevelAssumption` (campaigns, ad sets and ads have different ids, and
NULL is no id or key of anything), `AccountAssumption` (every campaign has an ad
account), `RowAssumption` (the marks of unused and deleted keys are neither rows
nor accounts, NULL is no object), `StatusAssumption` (users set statuses of the
schema's enum) and `EditsAssumption` (`MaxEdits` is a natural number).

The argument. `HierarchyAgrees` alone is not inductive: a row may be inserted or
written with what a handler read before the campaign above it was deleted and
stored again. `Tree` says that the three tables are a forest with Meta's edges and one
account per tree; `HasRead`, of every suspended request and sync, that the row it read
is still the same object in the same account, or gone. A step is shown to satisfy
`Keeps` (a deleted row stays deleted, a key is used once, a row keeps its object, parent and
account, and nothing is inserted below a row that is gone) and `Grows` (Meta forgets
neither objects nor their history); whatever a handler has read survives any such
step, so only the handler that moves needs an argument. `CascadeClosed` uses that the
tree has three levels, which is why deleting the children and their children leaves
no row below a deleted one.

### Users and API keys

`UserAccessProofs` proves, for all sets of emails, passwords, keys, prefixes, apps,
secrets and slots:

| Theorem | Statement |
|---|---|
| `Invariance` | `Spec => []IInv` |
| `TypeCorrect` | `Spec => []TypeOK` |
| `SignedRightly` | `Spec => []SignedOnTheirPassword` |
| `KeysIdentify` | `Spec => []KeyIdentifiesUser` |
| `SecretsValid` | `Spec => []SecretsWereValid` |
| `RegistrationsStay` | `Spec => RegisteredOnce` |

Assumption: `AccessNullAssumption` (NULL is no row, caller, email, key or prefix).
The argument: `ReliesOn` says what each suspended request takes for granted (the hash a
login read is still the user's, since no code changes a password; the key a comparison
read was handed to the user it read; the key about to be stored was handed to
nobody), and `FreshApart` that two rotations never hold one key. These survive
other requests because users stay, keys keep their owners and secrets stay known.

`KeyServiceProofs` proves `KeysImplement`, `Spec => ImplementsKeyService`, from the
same invariant: a lookup that reads the presented key is `Accept`, a store is `Rotate` or
`Revoke`, the end of a request is `End`, everything else a stutter. That the key read
and the key presented agree is what the comparison then finds, however late.
`OldKeysAreOut`, `Spec => OldKeysStayOut`, uses the refinement: that a key out of
use stays out is shown of the five actions of `KeyService` and holds
of the code's handlers because clients see no more than those.

### CORS and pages

`CorsCacheProofs` proves `Invariance`, `TypeCorrect`, `VerdictsWereRight`
(`Spec => []VerdictsGrounded`) and `CaughtUpForGood` (`Spec => StaysCaughtUp`) for all sets of users, origins and slots, from no
assumption. The strengthening is `Grounded`, of the table, of a cache that counts
as good, and of every answer on its way: origin by origin it agrees with the table
at some time since the start. It does not hold of the empty cache after a start,
which is why it matters that this one counts as stale.

`PaginationProofs` proves, of the operators and for all integers: `RequestsRepaired`
(whatever number a client asks for, page, limit and skip are in range),
`PagesCoverOnce` (every row is on exactly one of the pages 1 to `TotalPages`, and
all later ones are empty) and `NothingSlipsBy` (rows that arrive while a
client reads page after page push a row to a later page, never past the client).
Rows deleted meanwhile can make a client miss one; the code promises nothing there.

### Only model-checked

The liveness properties `DeadTokenNoticed`, `EventuallyInSync`,
`EventuallyAllowed` and `EventuallyRefused`: liveness under fairness is beyond the
prover. What is proved of them is that what they promise to reach is not lost
again: `ReconnectsTakeNewTokens`, `InSyncStays` and `CaughtUpForGood`. Every other property of a passing run is also a theorem.

## Plan

What remains worth doing:

1. `MetaConnection` and `CampaignMirror` composed: a sync that is cut off by a
   deactivated account and resumes after the reconnect.
2. A client's walk through the pages of a list while rows come and go, as a state
   machine, beside the arithmetic of `Pagination`.
3. `CampaignMirror` and `AdHierarchy` meet in the rows of campaigns; a
   module that composes them would replace `CampaignStored`.

## Not modelled

- Who sends a webhook: the models take the sender to be Meta, and signatures are
  not looked at.
- Ad sets that reach Meta but not the table, when the insert after the push
  fails: the code reports an error and promises nothing more; a later sync stores
  them. The properties of `hierarchy` are about rows and do not see the orphan.
- Insights: read-only; its calls to Meta are among those of `MetaConnection`.
- Rate limiting: the configuration of a library.
- Validation schemas and status codes: a refused request changes nothing, and a thrown
  error ends the request (`RequestFails`, `FlowFails`) whatever its code.
- Encryption of tokens and secrets: a library call; what is read back is what was
  stored.
- Configuration, logging, Sentry, wiring of the app: no behaviour over time.
- That the SDK gives the first page of a list at Meta only: the models
  list everything at once, so for an account with more campaigns than a page
  `EventuallyInSync` speaks of the first page.
