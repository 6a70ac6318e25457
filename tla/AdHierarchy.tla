---------------------------- MODULE AdHierarchy ----------------------------
(***************************************************************************)
(* Ad sets and ads below the campaigns of one user, in the tables and at   *)
(* Meta, and the creatives attached to ads.  API requests create, patch    *)
(* and delete, API syncs copy what Meta lists below one row, webhooks      *)
(* patch rows, people act at Meta.  One step is the code between two       *)
(* awaits.                                                                 *)
(*                                                                         *)
(* Data abstraction.  The three tables are one function: the level of a    *)
(* row is that of the object at Meta it is linked to, and campaigns never  *)
(* linked are left out, since every operation refuses them.  Of an ad set  *)
(* or an ad the status is kept; a campaign's fields are CampaignMirror's.  *)
(* POST .../ads is left out: no code stores a metaCreativeId, so createAd  *)
(* refuses every creative before it changes anything.  Lookups followed by *)
(* writes are as in CampaignMirror.                                        *)
(***************************************************************************)
EXTENDS Naturals

CONSTANTS
    Ids,            \* primary keys of the three tables; bounds the inserts
    MetaCampaigns,  \* campaigns at Meta
    MetaAdSets,     \* ids Meta gives to ad sets
    MetaAds,        \* ids Meta gives to ads
    Accounts,       \* ad accounts of the user
    AccountOf,      \* the account a campaign at Meta belongs to
    CustomerOf,     \* the externalCustomerId of an account
    Creatives,      \* primary keys of creatives
    InputStatuses,  \* statuses API clients send
    MetaStatuses,   \* statuses people set at Meta
    Requests,       \* slots for concurrent API requests
    Syncs,          \* slots for concurrent API syncs
    MaxEdits,       \* bound on API requests and edits at Meta together
    NULL,           \* SQL NULL, a field left out, nothing there
    UNUSED, GONE    \* a key not inserted yet, a row deleted

(* The enums AdSetStatus and AdStatus. *)
AdStatus == {"ACTIVE", "PAUSED", "DELETED", "ARCHIVED"}

Below == MetaAdSets \cup MetaAds
Objects == MetaCampaigns \cup Below
Customers == {CustomerOf[a] : a \in Accounts}

ASSUME AccountAssumption == AccountOf \in [MetaCampaigns -> Accounts]
ASSUME CustomerAssumption == DOMAIN CustomerOf = Accounts
ASSUME LevelAssumption == /\ MetaCampaigns \cap Below = {}
                          /\ MetaAdSets \cap MetaAds = {}
                          /\ NULL \notin Ids
                          /\ NULL \notin Customers
                          /\ NULL \notin Objects \cup Accounts \cup Creatives
ASSUME StatusAssumption == InputStatuses \subseteq AdStatus
ASSUME EditsAssumption == MaxEdits \in Nat

VARIABLES
    rows,       \* the tables ad_campaigns, ad_sets and ads
    creatives,  \* the table ad_creatives: the account of each row
    remote,     \* ad sets and ads at Meta
    had,        \* history: the statuses Meta has had for each of them
    requests,   \* the API request in each slot
    syncs,      \* the API sync in each slot
    audit,      \* the audit_logs entries
    edits       \* how much of MaxEdits is spent

vars == <<rows, creatives, remote, had, requests, syncs, audit, edits>>

Statuses == AdStatus \cup MetaStatuses
Row == [metaId : Objects, parent : Ids \cup {NULL}, account : Accounts,
        status : AdStatus \cup {NULL}, creative : Creatives \cup {NULL}]
RemoteObject == [parent : Objects, status : Statuses]
Item == [id : Below, status : Statuses]
Entry == [action : {"CREATE", "UPDATE", "DELETE"}, id : Ids, status : InputStatuses \cup {NULL}]

ASSUME RowAssumption == /\ UNUSED # GONE
                        /\ {UNUSED, GONE} \cap (Row \cup Accounts) = {}
                        /\ NULL \notin RemoteObject

(* "step" is the await a handler is suspended at; "id" the row it has read *)
(* or inserted, "metaId" and "account" what it took from that row.         *)
RequestState ==
    [step : {"idle", "push", "insert", "patch", "write", "delete", "attach", "audit"},
     action : {"CREATE", "UPDATE", "DELETE", NULL}, id : Ids \cup {NULL},
     metaId : Objects \cup {NULL}, account : Accounts \cup {NULL},
     status : InputStatuses \cup {NULL}, creative : Creatives \cup {NULL}]

Idle == [step |-> "idle", action |-> NULL, id |-> NULL, metaId |-> NULL,
         account |-> NULL, status |-> NULL, creative |-> NULL]

SyncState ==
    [step : {"idle", "list", "upsert"}, id : Ids \cup {NULL}, metaId : Objects \cup {NULL},
     account : Accounts \cup {NULL}, items : SUBSET Item]

IdleSync == [step |-> "idle", id |-> NULL, metaId |-> NULL, account |-> NULL, items |-> {}]

Init ==
    /\ rows = [r \in Ids |-> UNUSED]
    /\ creatives = [k \in Creatives |-> UNUSED]
    /\ remote = [m \in Below |-> NULL]
    /\ had = [m \in Below |-> {}]
    /\ requests = [q \in Requests |-> Idle]
    /\ syncs = [s \in Syncs |-> IdleSync]
    /\ audit = {}
    /\ edits = 0

Stored(r) == rows[r] \notin {UNUSED, GONE}
StoredAs(r, objects) == Stored(r) /\ rows[r].metaId \in objects
Mirrored(m) == \E r \in Ids : StoredAs(r, {m})
Uploaded(k) == creatives[k] \notin {UNUSED, GONE}
AtMeta(m) == m \in MetaCampaigns \/ remote[m] # NULL

UnusedIds == {r \in Ids : rows[r] = UNUSED}

(* A uuid no row ever had.  Which one makes no difference. *)
NewId == CHOOSE r \in UnusedIds : TRUE

(* An update of row r: without effect when the row is gone by now. *)
Updated(r, row) == IF Stored(r) THEN [rows EXCEPT ![r] = row] ELSE rows

(* Mutants of MayInsert: metaAdSetId and metaAdId have no unique index;    *)
(* campaignId and adSetId are no foreign keys.                             *)
MayInsertTwice(m, parent) == Stored(parent) /\ UnusedIds # {}
MayInsertOrphan(m, parent) == ~Mirrored(m) /\ UnusedIds # {}

(* metaAdSetId and metaAdId are unique, and the row above must exist. *)
MayInsert(m, parent) == ~Mirrored(m) /\ Stored(parent) /\ UnusedIds # {}

Inserted(m, parent, account, status) ==
    [rows EXCEPT ![NewId] = [metaId |-> m, parent |-> parent, account |-> account,
                             status |-> status, creative |-> NULL]]

ChildrenOf(R) == {r \in Ids : Stored(r) /\ rows[r].parent \in R}

(* Mutant of Cascade: only the row itself is deleted. *)
CascadeNothing(r) == {r}

(* onDelete: Cascade, from campaigns to ad sets to ads. *)
Cascade(r) ==
    LET children == ChildrenOf({r}) IN {r} \cup children \cup ChildrenOf(children)

Without(R) == [r \in Ids |-> IF r \in R THEN GONE ELSE rows[r]]

(* Meta gives object m a status. *)
MetaSets(m, status) ==
    /\ remote' = [remote EXCEPT ![m].status = status]
    /\ had' = [had EXCEPT ![m] = @ \cup {status}]

MetaCreates(m, parent, status) ==
    /\ remote[m] = NULL
    /\ remote' = [remote EXCEPT ![m] = [parent |-> parent, status |-> status]]
    /\ had' = [had EXCEPT ![m] = @ \cup {status}]

Spend == edits < MaxEdits /\ edits' = edits + 1

-----------------------------------------------------------------------------
(* POST /campaigns/:campaignId/ad-sets: read, push, insert, audit.         *)

CreateRead(q, c, status) ==
    /\ requests[q].step = "idle"
    /\ Spend
    /\ StoredAs(c, MetaCampaigns)
    /\ requests' = [requests EXCEPT ![q] =
          [step |-> "push", action |-> "CREATE", id |-> c, metaId |-> rows[c].metaId,
           account |-> rows[c].account, status |-> status, creative |-> NULL]]
    /\ UNCHANGED <<rows, creatives, remote, had, syncs, audit>>

CreatePush(q, m) ==
    /\ requests[q].step = "push"
    /\ MetaCreates(m, requests[q].metaId, requests[q].status)
    /\ requests' = [requests EXCEPT ![q].step = "insert", ![q].metaId = m]
    /\ UNCHANGED <<rows, creatives, syncs, audit, edits>>

CreateInsert(q) ==
    LET req == requests[q]
    IN /\ req.step = "insert"
       /\ MayInsert(req.metaId, req.id)
       /\ rows' = Inserted(req.metaId, req.id, req.account, req.status)
       /\ requests' = [requests EXCEPT ![q].step = "audit", ![q].id = NewId]
       /\ UNCHANGED <<creatives, remote, had, syncs, audit, edits>>

-----------------------------------------------------------------------------
(* PATCH of an ad set: read, push, write, audit.  PATCH of an ad: the same *)
(* without the push.                                                       *)

UpdateRead(q, r, status) ==
    /\ requests[q].step = "idle"
    /\ Spend
    /\ StoredAs(r, Below)
    /\ requests' = [requests EXCEPT ![q] =
          [step |-> IF rows[r].metaId \in MetaAdSets THEN "patch" ELSE "write",
           action |-> "UPDATE", id |-> r, metaId |-> rows[r].metaId,
           account |-> rows[r].account, status |-> status, creative |-> NULL]]
    /\ UNCHANGED <<rows, creatives, remote, had, syncs, audit>>

(* Mutant of UpdatePush: Meta's refusal is passed over. *)
UpdatePushLenient(q) ==
    /\ requests[q].step = "patch"
    /\ requests' = [requests EXCEPT ![q].step = "write"]
    /\ \/ MetaSets(requests[q].metaId, requests[q].status)
       \/ UNCHANGED <<remote, had>>
    /\ UNCHANGED <<rows, creatives, syncs, audit, edits>>

UpdatePush(q) ==
    /\ requests[q].step = "patch"
    /\ MetaSets(requests[q].metaId, requests[q].status)
    /\ requests' = [requests EXCEPT ![q].step = "write"]
    /\ UNCHANGED <<rows, creatives, syncs, audit, edits>>

UpdateWrite(q) ==
    LET r == requests[q].id
    IN /\ requests[q].step = "write"
       /\ rows' = Updated(r, [rows[r] EXCEPT !.status = requests[q].status])
       /\ requests' = [requests EXCEPT ![q].step = "audit"]
       /\ UNCHANGED <<creatives, remote, had, syncs, audit, edits>>

-----------------------------------------------------------------------------
(* DELETE of a campaign, ad set or ad: read, delete the row and what is    *)
(* below it, audit.  Meta is not told.                                     *)

DeleteRead(q, r) ==
    /\ requests[q].step = "idle"
    /\ Spend
    /\ Stored(r)
    /\ requests' = [requests EXCEPT ![q] =
          [Idle EXCEPT !.step = "delete", !.action = "DELETE", !.id = r]]
    /\ UNCHANGED <<rows, creatives, remote, had, syncs, audit>>

(* Mutant of DeleteRow: a delete that fails is passed over. *)
DeleteRowLenient(q) ==
    /\ requests[q].step = "delete"
    /\ rows' \in {rows, Without(Cascade(requests[q].id))}
    /\ requests' = [requests EXCEPT ![q].step = "audit"]
    /\ UNCHANGED <<creatives, remote, had, syncs, audit, edits>>

DeleteRow(q) ==
    /\ requests[q].step = "delete"
    /\ rows' = Without(Cascade(requests[q].id))
    /\ requests' = [requests EXCEPT ![q].step = "audit"]
    /\ UNCHANGED <<creatives, remote, had, syncs, audit, edits>>

-----------------------------------------------------------------------------
(* Creatives: upload, delete, attach to an ad.                             *)

(* The media goes to Meta first, which nothing here depends on. *)
UploadCreative(k, account) ==
    /\ creatives[k] = UNUSED
    /\ creatives' = [creatives EXCEPT ![k] = account]
    /\ UNCHANGED <<rows, remote, had, requests, syncs, audit, edits>>

(* Mutant of DeleteCreative: ads keep pointing at it. *)
DeleteCreativeOnly(k) ==
    /\ Uploaded(k)
    /\ creatives' = [creatives EXCEPT ![k] = GONE]
    /\ UNCHANGED <<rows, remote, had, requests, syncs, audit, edits>>

(* onDelete: SetNull.  The lookup before has no effect. *)
DeleteCreative(k) ==
    /\ Uploaded(k)
    /\ creatives' = [creatives EXCEPT ![k] = GONE]
    /\ rows' = [r \in Ids |-> IF Stored(r) /\ rows[r].creative = k
                              THEN [rows[r] EXCEPT !.creative = NULL]
                              ELSE rows[r]]
    /\ UNCHANGED <<remote, had, requests, syncs, audit, edits>>

(* Ad and creative must be of the customer the request names, if any. *)
OfCustomer(account, customer) == customer = NULL \/ CustomerOf[account] = customer

AttachCheck(q, r, k, customer) ==
    /\ requests[q].step = "idle"
    /\ Spend
    /\ StoredAs(r, MetaAds)
    /\ OfCustomer(rows[r].account, customer)
    /\ Uploaded(k)
    /\ OfCustomer(creatives[k], customer)
    /\ requests' = [requests EXCEPT ![q] =
          [Idle EXCEPT !.step = "attach", !.id = r, !.creative = k]]
    /\ UNCHANGED <<rows, creatives, remote, had, syncs, audit>>

(* The creative is a foreign key. *)
Attach(q) ==
    LET r == requests[q].id
        k == requests[q].creative
    IN /\ requests[q].step = "attach"
       /\ Uploaded(k)
       /\ rows' = Updated(r, [rows[r] EXCEPT !.creative = k])
       /\ requests' = [requests EXCEPT ![q] = Idle]
       /\ UNCHANGED <<creatives, remote, had, syncs, audit, edits>>

-----------------------------------------------------------------------------
(* How requests end.                                                       *)

WriteAudit(q) ==
    /\ requests[q].step = "audit"
    /\ audit' = audit \cup {[action |-> requests[q].action, id |-> requests[q].id,
                             status |-> requests[q].status]}
    /\ requests' = [requests EXCEPT ![q] = Idle]
    /\ UNCHANGED <<rows, creatives, remote, had, syncs, edits>>

(* A refused call or a lost answer: the handler throws.  An audit entry    *)
(* that fails ends the request too.  What was done before stays.           *)
RequestFails(q) ==
    /\ requests[q].step # "idle"
    /\ requests' = [requests EXCEPT ![q] = Idle]
    /\ UNCHANGED <<rows, creatives, remote, had, syncs, audit, edits>>

-----------------------------------------------------------------------------
(* Sync of the ad sets of a campaign, or the ads of an ad set: read the    *)
(* row, list at Meta, upsert each item listed.                             *)

SyncRead(s, r) ==
    /\ syncs[s].step = "idle"
    /\ StoredAs(r, MetaCampaigns \cup MetaAdSets)
    /\ syncs' = [syncs EXCEPT ![s] =
          [step |-> "list", id |-> r, metaId |-> rows[r].metaId,
           account |-> rows[r].account, items |-> {}]]
    /\ UNCHANGED <<rows, creatives, remote, had, requests, audit, edits>>

(* Meta's default listing leaves deleted and archived objects out. *)
ListedUnder(parent) ==
    {m \in Below : AtMeta(m) /\ remote[m].parent = parent
                             /\ remote[m].status \notin {"DELETED", "ARCHIVED"}}

Rest(s, items) ==
    IF items = {} THEN IdleSync ELSE [syncs[s] EXCEPT !.step = "upsert", !.items = items]

SyncList(s) ==
    /\ syncs[s].step = "list"
    /\ syncs' = [syncs EXCEPT ![s] =
          Rest(s, {[id |-> m, status |-> remote[m].status] : m \in ListedUnder(syncs[s].metaId)})]
    /\ UNCHANGED <<rows, creatives, remote, had, requests, audit, edits>>

normalizeStatus(status) == IF status \in AdStatus THEN status ELSE "PAUSED"

(* The upserts run side by side and finish in any order.                   *)
SyncUpsert(s, item) ==
    /\ item \in syncs[s].items
    /\ \/ \E r \in Ids : /\ StoredAs(r, {item.id})
                         /\ rows' = [rows EXCEPT ![r].status = normalizeStatus(item.status)]
       \/ /\ MayInsert(item.id, syncs[s].id)
          /\ rows' = Inserted(item.id, syncs[s].id, syncs[s].account, normalizeStatus(item.status))
    /\ syncs' = [syncs EXCEPT ![s] = Rest(s, @.items \ {item})]
    /\ UNCHANGED <<creatives, remote, had, requests, audit, edits>>

(* One upsert fails; the others were started and go on. *)
UpsertFails(s, item) ==
    /\ item \in syncs[s].items
    /\ syncs' = [syncs EXCEPT ![s] = Rest(s, @.items \ {item})]
    /\ UNCHANGED <<rows, creatives, remote, had, requests, audit, edits>>

-----------------------------------------------------------------------------
(* Campaign syncs, webhooks, people at Meta, restarts.                     *)

(* A campaign sync or the job stores a campaign that has no row. *)
CampaignStored(m) ==
    /\ ~Mirrored(m)
    /\ UnusedIds # {}
    /\ rows' = Inserted(m, NULL, AccountOf[m], NULL)
    /\ UNCHANGED <<creatives, remote, had, requests, syncs, audit, edits>>

(* Mutant of WebhookStatus: no check against the schema. *)
WebhookStatusAsIs(status, current) == status

(* A status the schema does not have is ignored. *)
WebhookStatus(status, current) == IF status \in AdStatus THEN status ELSE current

(* Meta tells of any status object m has had, late and repeatedly.         *)
Webhook(m, status) ==
    /\ status \in had[m]
    /\ rows' = [r \in Ids |-> IF StoredAs(r, {m})
                              THEN [rows[r] EXCEPT !.status = WebhookStatus(status, @)]
                              ELSE rows[r]]
    /\ UNCHANGED <<creatives, remote, had, requests, syncs, audit, edits>>

(* People create ad sets and ads at Meta, and change their status. *)
MetaCreate(m, parent, status) ==
    /\ Spend
    /\ parent \in IF m \in MetaAdSets THEN MetaCampaigns ELSE {p \in MetaAdSets : AtMeta(p)}
    /\ MetaCreates(m, parent, status)
    /\ UNCHANGED <<rows, creatives, requests, syncs, audit>>

MetaEdit(m, status) ==
    /\ Spend
    /\ AtMeta(m)
    /\ remote[m].status # status
    /\ MetaSets(m, status)
    /\ UNCHANGED <<rows, creatives, requests, syncs, audit>>

Crash ==
    /\ requests' = [q \in Requests |-> Idle]
    /\ syncs' = [s \in Syncs |-> IdleSync]
    /\ UNCHANGED <<rows, creatives, remote, had, audit, edits>>

-----------------------------------------------------------------------------

RequestStarts(q) ==
    \/ \E r \in Ids, st \in InputStatuses : CreateRead(q, r, st) \/ UpdateRead(q, r, st)
    \/ \E r \in Ids : DeleteRead(q, r)
    \/ \E r \in Ids, k \in Creatives, c \in Customers \cup {NULL} : AttachCheck(q, r, k, c)

RequestStep(q) ==
    \/ \E m \in MetaAdSets : CreatePush(q, m)
    \/ CreateInsert(q) \/ UpdatePush(q) \/ UpdateWrite(q) \/ DeleteRow(q) \/ Attach(q)
    \/ WriteAudit(q) \/ RequestFails(q)

SyncStep(s) ==
    \/ \E r \in Ids : SyncRead(s, r)
    \/ SyncList(s)
    \/ \E item \in syncs[s].items : SyncUpsert(s, item) \/ UpsertFails(s, item)

CreativeStep(k) == (\E a \in Accounts : UploadCreative(k, a)) \/ DeleteCreative(k)

MetaStep(m) ==
    \/ \E p \in Objects, st \in MetaStatuses : MetaCreate(m, p, st)
    \/ \E st \in MetaStatuses : MetaEdit(m, st)
    \/ \E st \in had[m] : Webhook(m, st)

Next ==
    \/ \E q \in Requests : RequestStarts(q) \/ RequestStep(q)
    \/ \E s \in Syncs : SyncStep(s)
    \/ \E k \in Creatives : CreativeStep(k)
    \/ \E m \in MetaCampaigns : CampaignStored(m)
    \/ \E m \in Below : MetaStep(m)
    \/ Crash

Spec == Init /\ [][Next]_vars

-----------------------------------------------------------------------------
(* Properties.                                                             *)

(* Rows, objects at Meta, entries and suspended handlers have the fields   *)
(* of the schema and of the handlers; only ads have creatives, and only    *)
(* campaigns have nothing above them.                                      *)
TypeOK ==
    /\ rows \in [Ids -> Row \cup {UNUSED, GONE}]
    /\ \A r \in Ids : Stored(r) =>
          /\ rows[r].metaId \in MetaCampaigns <=> rows[r].parent = NULL
          /\ rows[r].creative # NULL => rows[r].metaId \in MetaAds
    /\ creatives \in [Creatives -> Accounts \cup {UNUSED, GONE}]
    /\ remote \in [Below -> RemoteObject \cup {NULL}]
    /\ had \in [Below -> SUBSET Statuses]
    /\ requests \in [Requests -> RequestState]
    /\ syncs \in [Syncs -> SyncState]
    /\ audit \subseteq Entry
    /\ edits \in 0 .. MaxEdits

(* The tables have Meta's hierarchy: the row above an ad set or an ad      *)
(* exists, it is the row of the object above it at Meta, and both are of   *)
(* one ad account; whatever was deleted or stored again while requests and *)
(* syncs were using rows they had read before.                             *)
HierarchyAgrees ==
    \A r \in Ids : StoredAs(r, Below) =>
        LET above == rows[r].parent
        IN /\ Stored(above)
           /\ rows[above].metaId = remote[rows[r].metaId].parent
           /\ rows[above].account = rows[r].account

(* An object at Meta has at most one row, though a create inserts the row  *)
(* of an ad set only after Meta, and every sync, has seen it.              *)
OneRowPerObject ==
    \A r, s \in Ids : (Stored(r) /\ Stored(s) /\ r # s) => rows[r].metaId # rows[s].metaId

(* An ad set is never shown with a status it has not had at Meta, in spite *)
(* of patches that fail half way and of lists and webhooks that are late.  *)
ShownWasAtMeta ==
    \A r \in Ids : StoredAs(r, MetaAdSets) =>
        \E st \in had[rows[r].metaId] : rows[r].status = normalizeStatus(st)

(* The trail does not claim what did not happen: a CREATE or UPDATE entry  *)
(* of an ad set means Meta has had the status it names, a DELETE entry     *)
(* that the row is gone with everything below it.                          *)
AuditTrue ==
    \A e \in audit :
        /\ (e.action \in {"CREATE", "UPDATE"} /\ StoredAs(e.id, MetaAdSets)) =>
              e.status \in had[rows[e.id].metaId]
        /\ e.action = "DELETE" => rows[e.id] = GONE /\ ChildrenOf({e.id}) = {}

(* An ad's creative exists, though it may be deleted while an attach is    *)
(* under way.                                                              *)
CreativeExists ==
    \A r \in Ids : (Stored(r) /\ rows[r].creative # NULL) => Uploaded(rows[r].creative)

(* "Verify both ad and creative belong to same user/customer": the         *)
(* creative of an ad is of the customer of the ad.                         *)
CreativeOfSameCustomer ==
    \A r \in Ids : (Stored(r) /\ rows[r].creative # NULL /\ Uploaded(rows[r].creative)) =>
        CustomerOf[rows[r].account] = CustomerOf[creatives[rows[r].creative]]

=============================================================================
