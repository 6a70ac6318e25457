--------------------------- MODULE CampaignMirror ---------------------------
(***************************************************************************)
(* The campaigns of one connected ad account, kept in two places: the      *)
(* ad_campaigns table and Meta.  API requests create, patch and delete     *)
(* rows and push to Meta; API syncs and the background job copy Meta's     *)
(* list into the table; Meta's campaign webhooks patch rows; people edit   *)
(* campaigns at Meta directly.  One step is the code between two awaits.   *)
(*                                                                         *)
(* Data abstraction.  Of a campaign's fields only the name, which stands   *)
(* for every field copied as it is, and the status, which is converted,    *)
(* are kept.  A refused connection is one of the ways a request fails.     *)
(* On MySQL Prisma looks a row up and then writes it: a row that goes in   *)
(* between is passed over, and a row that comes in between makes an upsert *)
(* fail.  A row that was gone before makes the write throw.                *)
(***************************************************************************)
EXTENDS Naturals

CONSTANTS
    Ids,            \* primary keys of rows; their number bounds the inserts
    MetaIds,        \* ids Meta gives to campaigns
    Names,          \* values of the fields copied as they are
    InputStatuses,  \* statuses API clients send
    MetaStatuses,   \* statuses people set at Meta
    Requests,       \* slots for concurrent create, patch, delete requests
    Syncs,          \* slots for concurrent API syncs
    Job,            \* the slot of the background sync job
    MaxEdits,       \* bound on API requests and edits at Meta together
    NULL,           \* SQL NULL, a field left out, "no campaign"
    UNUSED, GONE    \* a key not inserted yet, a row deleted

CampaignStatus == {"ACTIVE", "PAUSED", "DELETED", "ARCHIVED", "DRAFT"}

(* The statuses a new campaign is pushed with. *)
Live == {"ACTIVE", "PAUSED"}

ASSUME InputAssumption == InputStatuses \subseteq CampaignStatus
ASSUME MetaAssumption == MetaStatuses \cap {"DRAFT"} = {}
ASSUME JobAssumption == Job \notin Syncs
ASSUME BoundAssumption == MaxEdits \in Nat

VARIABLES
    rows,       \* the ad_campaigns table
    remote,     \* the campaigns at Meta
    changes,    \* campaign webhooks Meta may still deliver
    requests,   \* the API request in each slot
    syncs,      \* what each sync has listed and not upserted yet
    audit,      \* the audit_logs entries of campaigns
    edits       \* how much of MaxEdits is spent

vars == <<rows, remote, changes, requests, syncs, audit, edits>>

Campaign == [name : Names, status : CampaignStatus \cup MetaStatuses]
Listing  == [id : MetaIds, name : Names, status : CampaignStatus \cup MetaStatuses]
Row      == [metaId : MetaIds \cup {NULL}, name : Names, status : CampaignStatus]
Input    == [name : Names \cup {NULL}, status : InputStatuses \cup {NULL}]
Entry    == [action : {"CREATE", "UPDATE", "DELETE"}, id : Ids, status : CampaignStatus \cup {NULL}]

ASSUME RowAssumption ==
    UNUSED # GONE /\ UNUSED \notin Row /\ GONE \notin Row /\ NULL \notin MetaIds \cup Campaign

(* "step" is the await a handler is suspended at. *)
RequestState ==
    [step : {"idle", "push", "link", "patch", "write", "delete", "audit"},
     action : {"CREATE", "UPDATE", "DELETE", NULL}, id : Ids \cup {NULL},
     metaId : MetaIds \cup {NULL}, input : Input]

Idle == [step |-> "idle", action |-> NULL, id |-> NULL, metaId |-> NULL,
         input |-> [name |-> NULL, status |-> NULL]]

AllSyncs == Syncs \cup {Job}

Init ==
    /\ rows = [r \in Ids |-> UNUSED]
    /\ remote = [m \in MetaIds |-> NULL]
    /\ changes = {}
    /\ requests = [q \in Requests |-> Idle]
    /\ syncs = [s \in AllSyncs |-> {}]
    /\ audit = {}
    /\ edits = 0

Stored(r) == rows[r] \notin {UNUSED, GONE}
LinkedTo(r, m) == Stored(r) /\ rows[r].metaId = m
Mirrored(m) == \E r \in Ids : LinkedTo(r, m)
AtMeta(m) == remote[m] # NULL

UnusedIds == {r \in Ids : rows[r] = UNUSED}

(* A uuid no row ever had.  Which one makes no difference.  Every edit     *)
(* costs one key at most, beside one for each campaign: with MaxEdits +    *)
(* Cardinality(MetaIds) keys the inserts never run out.                    *)
NewId == CHOOSE r \in UnusedIds : TRUE

Given(value, current) == IF value = NULL THEN current ELSE value

(* Fields a partial update leaves out keep their value. *)
Patched(c, input) ==
    [c EXCEPT !.name = Given(input.name, @), !.status = Given(input.status, @)]

(* An update of row r: without effect when the row is gone by now. *)
Updated(r, row) == IF Stored(r) THEN [rows EXCEPT ![r] = row] ELSE rows

Notification(m, c) == [id |-> m, name |-> c.name, status |-> c.status]

(* Meta takes the campaign and notifies the webhook. *)
MetaStores(m, c) ==
    /\ remote' = [remote EXCEPT ![m] = c]
    /\ changes' = changes \cup {Notification(m, c)}

Spend == edits < MaxEdits /\ edits' = edits + 1

-----------------------------------------------------------------------------
(* POST /campaigns: insert, push, link, audit.                             *)

(* Mutant of CreateInsert: drafts are pushed as well. *)
CreateInsertPushesAll(q, name, status) ==
    /\ requests[q].step = "idle"
    /\ Spend
    /\ UnusedIds # {}
    /\ rows' = [rows EXCEPT ![NewId] = [metaId |-> NULL, name |-> name, status |-> status]]
    /\ requests' = [requests EXCEPT ![q] =
          [step |-> "push", action |-> "CREATE", id |-> NewId, metaId |-> NULL,
           input |-> [name |-> name, status |-> status]]]
    /\ UNCHANGED <<remote, changes, syncs, audit>>

CreateInsert(q, name, status) ==
    /\ requests[q].step = "idle"
    /\ Spend
    /\ UnusedIds # {}
    /\ rows' = [rows EXCEPT ![NewId] = [metaId |-> NULL, name |-> name, status |-> status]]
    /\ requests' = [requests EXCEPT ![q] =
          [step |-> IF status \in Live THEN "push" ELSE "audit", action |-> "CREATE",
           id |-> NewId, metaId |-> NULL, input |-> [name |-> name, status |-> status]]]
    /\ UNCHANGED <<remote, changes, syncs, audit>>

(* Meta creates the campaign as it was inserted. *)
CreatePush(q, m) ==
    /\ requests[q].step = "push"
    /\ ~AtMeta(m)
    /\ MetaStores(m, requests[q].input)
    /\ requests' = [requests EXCEPT ![q].step = "link", ![q].metaId = m]
    /\ UNCHANGED <<rows, syncs, audit, edits>>

(* Mutant of MayLink: metaCampaignId has no unique index. *)
MayLinkTwice(r, m) == TRUE

(* metaCampaignId is unique; a row that is gone is not linked. *)
MayLink(r, m) == Stored(r) => ~Mirrored(m)

(* Mutant of CreateLink: a link that fails is passed over. *)
CreateLinkLenient(q) ==
    /\ requests[q].step = "link"
    /\ requests' = [requests EXCEPT ![q].step = "audit"]
    /\ UNCHANGED <<rows, remote, changes, syncs, audit, edits>>

CreateLink(q) ==
    LET r == requests[q].id
        m == requests[q].metaId
    IN /\ requests[q].step = "link"
       /\ MayLink(r, m)
       /\ rows' = Updated(r, [rows[r] EXCEPT !.metaId = m])
       /\ requests' = [requests EXCEPT ![q].step = "audit"]
       /\ UNCHANGED <<remote, changes, syncs, audit, edits>>

-----------------------------------------------------------------------------
(* PATCH /campaigns/:id: read, push when linked, write, audit.             *)

UpdateRead(q, r, input) ==
    /\ requests[q].step = "idle"
    /\ Spend
    /\ Stored(r)
    /\ requests' = [requests EXCEPT ![q] =
          [step |-> IF rows[r].metaId # NULL THEN "patch" ELSE "write",
           action |-> "UPDATE", id |-> r, metaId |-> rows[r].metaId, input |-> input]]
    /\ UNCHANGED <<rows, remote, changes, syncs, audit>>

(* Meta knows no DRAFT: it rejects the call, and the request fails. *)
UpdatePush(q) ==
    LET m == requests[q].metaId
        input == requests[q].input
    IN /\ requests[q].step = "patch"
       /\ input.status # "DRAFT"
       /\ MetaStores(m, Patched(remote[m], input))
       /\ requests' = [requests EXCEPT ![q].step = "write"]
       /\ UNCHANGED <<rows, syncs, audit, edits>>

UpdateWrite(q) ==
    LET r == requests[q].id
    IN /\ requests[q].step = "write"
       /\ rows' = Updated(r, Patched(rows[r], requests[q].input))
       /\ requests' = [requests EXCEPT ![q].step = "audit"]
       /\ UNCHANGED <<remote, changes, syncs, audit, edits>>

-----------------------------------------------------------------------------
(* DELETE /campaigns/:id: read, delete the row, audit.  Meta is not told.  *)

DeleteRead(q, r) ==
    /\ requests[q].step = "idle"
    /\ Spend
    /\ Stored(r)
    /\ requests' = [requests EXCEPT ![q] =
          [Idle EXCEPT !.step = "delete", !.action = "DELETE", !.id = r]]
    /\ UNCHANGED <<rows, remote, changes, syncs, audit>>

DeleteRow(q) ==
    /\ requests[q].step = "delete"
    /\ rows' = [rows EXCEPT ![requests[q].id] = GONE]
    /\ requests' = [requests EXCEPT ![q].step = "audit"]
    /\ UNCHANGED <<remote, changes, syncs, audit, edits>>

-----------------------------------------------------------------------------
(* How every request ends.                                                 *)

WriteAudit(q) ==
    /\ requests[q].step = "audit"
    /\ audit' = audit \cup {[action |-> requests[q].action, id |-> requests[q].id,
                             status |-> requests[q].input.status]}
    /\ requests' = [requests EXCEPT ![q] = Idle]
    /\ UNCHANGED <<rows, remote, changes, syncs, edits>>

(* An audit entry that cannot be written is logged and forgotten. *)
AuditFails(q) ==
    /\ requests[q].step = "audit"
    /\ requests' = [requests EXCEPT ![q] = Idle]
    /\ UNCHANGED <<rows, remote, changes, syncs, audit, edits>>

(* Meta, the network or the database refuses an awaited call, or its       *)
(* answer is lost: the handler throws, and what it did before stays.       *)
RequestFails(q) ==
    /\ requests[q].step \notin {"idle", "audit"}
    /\ requests' = [requests EXCEPT ![q] = Idle]
    /\ UNCHANGED <<rows, remote, changes, syncs, audit, edits>>

-----------------------------------------------------------------------------
(* Sync: list at Meta, then upsert each campaign listed.                   *)

(* Meta's default listing leaves deleted and archived campaigns out. *)
Listed(m) == AtMeta(m) /\ remote[m].status \notin {"DELETED", "ARCHIVED"}

SyncList(s) ==
    /\ syncs[s] = {}
    /\ syncs' = [syncs EXCEPT ![s] =
                    {Notification(m, remote[m]) : m \in {n \in MetaIds : Listed(n)}}]
    /\ UNCHANGED <<rows, remote, changes, requests, audit, edits>>

(* Mutant of Mapped: the status goes into the row as Meta names it. *)
MappedAsIs(status) == status

(* A status the schema does not have becomes PAUSED. *)
Mapped(status) == IF status \in CampaignStatus THEN status ELSE "PAUSED"

UpsertedRow(item) ==
    [metaId |-> item.id, name |-> item.name, status |-> Mapped(item.status)]

(* Mutants of SyncUpsert: a row that exists is left alone; rows are found  *)
(* by name and take over the campaign.                                     *)
SyncInsertOnly(s, item) ==
    /\ item \in syncs[s]
    /\ \/ Mirrored(item.id) /\ UNCHANGED rows
       \/ /\ ~Mirrored(item.id)
          /\ UnusedIds # {}
          /\ rows' = [rows EXCEPT ![NewId] = UpsertedRow(item)]
    /\ syncs' = [syncs EXCEPT ![s] = @ \ {item}]
    /\ UNCHANGED <<remote, changes, requests, audit, edits>>

SyncByName(s, item) ==
    /\ item \in syncs[s]
    /\ \E r \in Ids : /\ Stored(r) /\ rows[r].name = item.name
                      /\ rows' = [rows EXCEPT ![r] = UpsertedRow(item)]
    /\ syncs' = [syncs EXCEPT ![s] = @ \ {item}]
    /\ UNCHANGED <<remote, changes, requests, audit, edits>>

(* The upserts run side by side and finish in any order.                   *)
SyncUpsert(s, item) ==
    /\ item \in syncs[s]
    /\ \/ \E r \in Ids : LinkedTo(r, item.id) /\ rows' = [rows EXCEPT ![r] = UpsertedRow(item)]
       \/ /\ ~Mirrored(item.id)
          /\ UnusedIds # {}
          /\ rows' = [rows EXCEPT ![NewId] = UpsertedRow(item)]
    /\ syncs' = [syncs EXCEPT ![s] = @ \ {item}]
    /\ UNCHANGED <<remote, changes, requests, audit, edits>>

(* One upsert fails; the others were started and go on. *)
UpsertFails(s, item) ==
    /\ item \in syncs[s]
    /\ syncs' = [syncs EXCEPT ![s] = @ \ {item}]
    /\ UNCHANGED <<rows, remote, changes, requests, audit, edits>>

-----------------------------------------------------------------------------
(* Webhooks, people at Meta, restarts.                                     *)

(* A status the schema does not have is ignored. *)
WebhookStatus(status, current) == IF status \in CampaignStatus THEN status ELSE current

(* updateMany: no row, no effect.  Meta may deliver the change again. *)
Webhook(e) ==
    /\ rows' = [r \in Ids |->
                   IF LinkedTo(r, e.id)
                   THEN [rows[r] EXCEPT !.name = e.name,
                                        !.status = WebhookStatus(e.status, @)]
                   ELSE rows[r]]
    /\ UNCHANGED <<remote, changes, requests, syncs, audit, edits>>

(* Never delivered again: it was handled, or acknowledged and then lost. *)
ChangeGone(e) ==
    /\ changes' = changes \ {e}
    /\ UNCHANGED <<rows, remote, requests, syncs, audit, edits>>

(* A campaign is created or edited at Meta. *)
MetaEdit(m, name, status) ==
    /\ Spend
    /\ remote[m] # [name |-> name, status |-> status]
    /\ MetaStores(m, [name |-> name, status |-> status])
    /\ UNCHANGED <<rows, requests, syncs, audit>>

Crash ==
    /\ requests' = [q \in Requests |-> Idle]
    /\ syncs' = [s \in AllSyncs |-> {}]
    /\ UNCHANGED <<rows, remote, changes, audit, edits>>

-----------------------------------------------------------------------------

RequestStarts(q) ==
    \/ \E n \in Names, st \in InputStatuses : CreateInsert(q, n, st)
    \/ \E r \in Ids, input \in Input : UpdateRead(q, r, input)
    \/ \E r \in Ids : DeleteRead(q, r)

RequestEnds(q) == WriteAudit(q) \/ AuditFails(q) \/ RequestFails(q)

RequestStep(q) ==
    \/ \E m \in MetaIds : CreatePush(q, m)
    \/ CreateLink(q)
    \/ UpdatePush(q)
    \/ UpdateWrite(q)
    \/ DeleteRow(q)
    \/ RequestEnds(q)

SyncStep(s) ==
    \E item \in syncs[s] : SyncUpsert(s, item) \/ UpsertFails(s, item)

Next ==
    \/ \E q \in Requests : RequestStarts(q) \/ RequestStep(q)
    \/ \E s \in AllSyncs : SyncList(s) \/ SyncStep(s)
    \/ \E e \in changes : Webhook(e) \/ ChangeGone(e)
    \/ \E m \in MetaIds, n \in Names, st \in MetaStatuses : MetaEdit(m, n, st)
    \/ Crash

Spec == Init /\ [][Next]_vars

(* Handlers and syncs that started end one way or another, Meta gives up   *)
(* on a webhook at some point, and the job's timer keeps firing: a         *)
(* campaign it lists again and again is not refused every single time.     *)
Fairness ==
    /\ \A q \in Requests : WF_vars(RequestStep(q))
    /\ \A s \in AllSyncs : WF_vars(SyncStep(s))
    /\ \A m \in MetaIds : WF_vars(\E e \in changes : e.id = m /\ ChangeGone(e))
    /\ WF_vars(SyncList(Job))
    /\ \A m \in MetaIds : SF_vars(\E item \in syncs[Job] : item.id = m /\ SyncUpsert(Job, item))

FairSpec == Spec /\ Fairness

-----------------------------------------------------------------------------
(* Properties.                                                             *)

(* What a handler suspended at a step works on next. *)
RequestLocalsSet(req) ==
    /\ req.step # "idle" => req.id \in Ids
    /\ req.step = "audit" => req.action \in {"CREATE", "UPDATE", "DELETE"}
    /\ req.step \in {"push", "link"} =>
          req.action = "CREATE" /\ req.input.name \in Names /\ req.input.status \in Live
    /\ req.step \in {"patch", "write"} => req.action = "UPDATE"
    /\ req.step = "delete" => req.action = "DELETE"
    /\ req.step \in {"link", "patch"} => req.metaId \in MetaIds

(* Rows, campaigns, requests and entries have the fields of the schema and *)
(* of the handlers, and a handler has what its next step works on.         *)
TypeOK ==
    /\ rows \in [Ids -> Row \cup {UNUSED, GONE}]
    /\ remote \in [MetaIds -> Campaign \cup {NULL}]
    /\ changes \subseteq Listing
    /\ requests \in [Requests -> RequestState]
    /\ \A q \in Requests : RequestLocalsSet(requests[q])
    /\ syncs \in [AllSyncs -> SUBSET Listing]
    /\ audit \subseteq Entry
    /\ edits \in 0 .. MaxEdits

(* A campaign at Meta has at most one row, however creates, syncs and the  *)
(* job race to store it.                                                   *)
OneRowPerCampaign ==
    \A r, s \in Ids : (Stored(r) /\ Stored(s) /\ r # s) =>
        (rows[r].metaId = NULL \/ rows[r].metaId # rows[s].metaId)

(* A row stays with the campaign it was linked to until it is deleted, and *)
(* a deleted row does not come back under its key.                         *)
LinkStable ==
    [][\A r \in Ids :
          /\ rows[r] = GONE => rows'[r] = GONE
          /\ (Stored(r) /\ rows[r].metaId # NULL) =>
                (rows'[r] = GONE \/ rows'[r].metaId = rows[r].metaId)]_vars

(* The trail does not claim what did not happen: a CREATE entry for a live *)
(* campaign means it reached Meta and its row was linked, a DELETE entry   *)
(* that the row is gone.                                                   *)
AuditTrue ==
    \A e \in audit :
        /\ (e.action = "CREATE" /\ e.status \in Live) =>
              (rows[e.id] = GONE \/ (Stored(e.id) /\ rows[e.id].metaId # NULL))
        /\ e.action = "DELETE" => rows[e.id] = GONE

(* Once nobody edits any more, the table shows every campaign Meta lists   *)
(* with Meta's name and status, for good: whatever was lost, failed or     *)
(* applied out of order before.                                            *)
ShownAsAtMeta(m) ==
    \E r \in Ids : LinkedTo(r, m) /\ rows[r].name = remote[m].name
                                  /\ rows[r].status = Mapped(remote[m].status)

EventuallyInSync == <>[](\A m \in MetaIds : Listed(m) => ShownAsAtMeta(m))

(* A request that is still going to touch campaign m or a row of it. *)
WorksOn(q, m) ==
    /\ requests[q].step \notin {"idle", "audit"}
    /\ requests[q].metaId = m \/ LinkedTo(requests[q].id, m)

IsNews(m, item) == item.id = m /\ item # Notification(m, remote[m])

(* Campaign m is in sync, and what is on its way about it is no news. *)
InSync(m) ==
    /\ Listed(m) => ShownAsAtMeta(m)
    /\ \A item \in changes \cup UNION {syncs[s] : s \in AllSyncs} : ~IsNews(m, item)
    /\ \A q \in Requests : ~WorksOn(q, m)

(* In sync once, with no news left on its way, a campaign stays so until   *)
(* somebody edits it: whatever repeated webhooks, overlapping syncs,       *)
(* restarts and requests about other campaigns do, in any order.           *)
StaysInSync ==
    [][\A m \in MetaIds :
          (InSync(m) /\ remote'[m] = remote[m] /\ \A q \in Requests : ~WorksOn(q, m)')
              => InSync(m)']_vars

(* "DRAFT stays local-only": no row is a draft here and a campaign at Meta. *)
DraftsAreLocal ==
    \A r \in Ids : (Stored(r) /\ rows[r].status = "DRAFT") => rows[r].metaId = NULL

=============================================================================
