------------------------ MODULE CampaignMirrorProofs ------------------------
(***************************************************************************)
(* Theorems about CampaignMirror, for every number of rows, campaigns,     *)
(* concurrent requests and syncs.                                          *)
(***************************************************************************)
EXTENDS CampaignMirror, TLAPS

(* A campaign a row is linked to exists at Meta, and so does one a sync    *)
(* has listed: Meta never forgets an id.                                   *)
LinksAtMeta ==
    \A r \in Ids : (Stored(r) /\ rows[r].metaId # NULL) => AtMeta(rows[r].metaId)

SyncsAtMeta == \A s \in AllSyncs : \A item \in syncs[s] : AtMeta(item.id)

Linked(r)   == Stored(r) /\ rows[r].metaId # NULL
Unlinked(r) == Stored(r) => rows[r].metaId = NULL

(* What an audit entry claims of its row. *)
Claim(action, id, status) ==
    /\ (action = "CREATE" /\ status \in Live) => (rows[id] = GONE \/ Linked(id))
    /\ action = "DELETE" => rows[id] = GONE

(* A suspended request works on a row that was inserted; the campaign it   *)
(* will link or patch exists; the row it will link has no campaign yet;    *)
(* what it will write to the trail is true.                                *)
RequestOK(req) ==
    /\ req \in RequestState
    /\ RequestLocalsSet(req)
    /\ req.step # "idle" => rows[req.id] # UNUSED
    /\ req.step \in {"link", "patch"} => AtMeta(req.metaId)
    /\ req.step \in {"push", "link"} => Unlinked(req.id)
    /\ req.step = "audit" => Claim(req.action, req.id, req.input.status)

RequestsOK == \A q \in Requests : RequestOK(requests[q])

(* Two creates never work on one row. *)
CreatesApart ==
    \A p, q \in Requests :
        (p # q /\ requests[p].step \in {"push", "link"} /\ requests[q].step \in {"push", "link"})
            => requests[p].id # requests[q].id

IInv ==
    /\ TypeOK
    /\ OneRowPerCampaign
    /\ AuditTrue
    /\ LinksAtMeta
    /\ SyncsAtMeta
    /\ RequestsOK
    /\ CreatesApart

-----------------------------------------------------------------------------
(* What steps do to rows and campaigns.                                    *)

(* Row r keeps the campaign it is linked to until it is deleted, and its   *)
(* key is not used again.                                                  *)
KeepsLink(r) ==
    /\ rows[r] = GONE => rows'[r] = GONE
    /\ rows[r] # UNUSED => rows'[r] # UNUSED
    /\ Linked(r) => \/ rows'[r] = GONE
                    \/ rows'[r] \notin {UNUSED, GONE} /\ rows'[r].metaId = rows[r].metaId

(* Row r is not linked by the step. *)
StaysUnlinked(r) ==
    (rows[r] # UNUSED /\ Unlinked(r)) =>
        (rows'[r] \notin {UNUSED, GONE} => rows'[r].metaId = NULL)

RemoteGrows == \A m \in MetaIds : remote[m] # NULL => remote'[m] # NULL

LEMMA IdleOK == RequestOK(Idle)
BY DEF RequestOK, Idle, RequestState, RequestLocalsSet, Input

LEMMA StoredRow ==
    ASSUME TypeOK, NEW r \in Ids, Stored(r)
    PROVE  rows[r] \in Row
BY DEF TypeOK, Stored

LEMMA CampaignNotNull ==
    ASSUME NEW c \in Campaign
    PROVE  c # NULL
BY RowAssumption

LEMMA MetaIdNotNull ==
    ASSUME NEW m \in MetaIds
    PROVE  m # NULL
BY RowAssumption

LEMMA RowIsStored ==
    ASSUME NEW row \in Row
    PROVE  row \notin {UNUSED, GONE}
BY RowAssumption

LEMMA NewIdUnused ==
    ASSUME UnusedIds # {}
    PROVE  NewId \in Ids /\ rows[NewId] = UNUSED
BY DEF NewId, UnusedIds

LEMMA AuditClaims == AuditTrue <=> \A e \in audit : Claim(e.action, e.id, e.status)
BY DEF AuditTrue, Claim, Linked

(* A request that is not moved stays OK, if its row keeps its link and is  *)
(* not linked behind its back.                                             *)
LEMMA RequestStaysOK ==
    ASSUME IInv, RemoteGrows, \A r \in Ids : KeepsLink(r),
           NEW q \in Requests, requests'[q] = requests[q],
           requests[q].step \in {"push", "link"} => StaysUnlinked(requests[q].id)
    PROVE  RequestOK(requests[q])'
<1> DEFINE req == requests[q]
<1>1. RequestOK(req)
  BY DEF IInv, RequestsOK
<1>2. req \in RequestState /\ RequestLocalsSet(req)
  BY <1>1 DEF RequestOK
<1>3. req.step # "idle" => req.id \in Ids /\ KeepsLink(req.id) /\ rows[req.id] # UNUSED
  BY <1>1, <1>2 DEF RequestOK, RequestLocalsSet
<1>4. req.step \in {"link", "patch"} => req.metaId \in MetaIds /\ remote'[req.metaId] # NULL
  BY <1>1, <1>2 DEF RequestOK, RequestLocalsSet, RemoteGrows, AtMeta
<1>5. req.step # "idle" => rows'[req.id] # UNUSED
  BY <1>3 DEF KeepsLink
<1>6. req.step \in {"push", "link"} => (rows'[req.id] \notin {UNUSED, GONE} => rows'[req.id].metaId = NULL)
  BY <1>1, <1>3 DEF RequestOK, StaysUnlinked
<1>7. req.step = "audit" =>
         /\ (req.action = "CREATE" /\ req.input.status \in Live) =>
               \/ rows'[req.id] = GONE
               \/ rows'[req.id] \notin {UNUSED, GONE} /\ rows'[req.id].metaId # NULL
         /\ req.action = "DELETE" => rows'[req.id] = GONE
  BY <1>1, <1>3 DEF RequestOK, Claim, KeepsLink, Linked
<1> HIDE DEF req
<1>8. requests'[q] = req
  BY DEF req
<1> QED
  BY <1>2, <1>4, <1>5, <1>6, <1>7, <1>8 DEF RequestOK, Claim, Linked, Unlinked, Stored, AtMeta

(* What the trail says stays true. *)
LEMMA TrailStaysTrue ==
    ASSUME IInv, \A r \in Ids : KeepsLink(r),
           \A e \in audit' : e \in audit \/ Claim(e.action, e.id, e.status)',
           audit' \subseteq Entry
    PROVE  AuditTrue'
<1>1. ASSUME NEW e \in audit'
      PROVE  Claim(e.action, e.id, e.status)'
  <2>1. CASE e \in audit
    <3>1. Claim(e.action, e.id, e.status)
      BY <2>1, AuditClaims DEF IInv
    <3>2. KeepsLink(e.id)
      BY <1>1 DEF Entry
    <3> QED
      BY <3>1, <3>2 DEF Claim, KeepsLink, Linked, Stored
  <2> QED
    BY <1>1, <2>1
<1> QED
  BY <1>1 DEF AuditTrue, Claim, Linked, Stored

(* What a step must do: preserve IInv and the links.                       *)
SafeStep == IInv' /\ \A r \in Ids : KeepsLink(r)

(* A step is safe if it grows what Meta has, keeps links, and whatever it  *)
(* moves or adds is OK.                                                    *)
LEMMA StepSafe ==
    ASSUME IInv, TypeOK', RemoteGrows, \A r \in Ids : KeepsLink(r),
           OneRowPerCampaign', LinksAtMeta', SyncsAtMeta', CreatesApart',
           \A q \in Requests :
              \/ RequestOK(requests[q])'
              \/ /\ requests'[q] = requests[q]
                 /\ requests[q].step \in {"push", "link"} => StaysUnlinked(requests[q].id),
           \A e \in audit' : e \in audit \/ Claim(e.action, e.id, e.status)'
    PROVE  SafeStep
<1>1. RequestsOK'
  BY RequestStaysOK DEF RequestsOK
<1>2. AuditTrue'
  BY TrailStaysTrue DEF TypeOK
<1> QED
  BY <1>1, <1>2 DEF IInv, SafeStep

(* Without a change of the rows, links and what is claimed of them stay.   *)
LEMMA RowsSame ==
    ASSUME IInv, rows' = rows, RemoteGrows
    PROVE  /\ \A r \in Ids : KeepsLink(r) /\ StaysUnlinked(r)
           /\ OneRowPerCampaign' /\ LinksAtMeta'
<1>1. \A r \in Ids : KeepsLink(r) /\ StaysUnlinked(r)
  BY DEF KeepsLink, StaysUnlinked, Linked, Unlinked, Stored
<1>2. OneRowPerCampaign'
  BY DEF IInv, OneRowPerCampaign, Stored
<1>3. LinksAtMeta'
  <2> SUFFICES ASSUME NEW r \in Ids, Stored(r), rows[r].metaId # NULL
               PROVE  remote'[rows[r].metaId] # NULL
    BY DEF LinksAtMeta, Stored, AtMeta
  <2>1. rows[r].metaId \in MetaIds
    BY StoredRow DEF IInv, Row
  <2> QED
    BY <2>1 DEF IInv, LinksAtMeta, RemoteGrows, AtMeta
<1> QED
  BY <1>1, <1>2, <1>3

-----------------------------------------------------------------------------
(* One request moves.                                                      *)

LEMMA RequestTypes ==
    ASSUME TypeOK, NEW q \in Requests, NEW new,
           new \in RequestState, RequestLocalsSet(new),
           requests' = [requests EXCEPT ![q] = new]
    PROVE  /\ requests' \in [Requests -> RequestState]
           /\ \A p \in Requests : RequestLocalsSet(requests'[p])
           /\ requests'[q] = new
           /\ \A p \in Requests : p # q => requests'[p] = requests[p]
<1>1. requests \in [Requests -> RequestState] /\ \A p \in Requests : RequestLocalsSet(requests[p])
  BY DEF TypeOK
<1>2. requests'[q] = new /\ \A p \in Requests : p # q => requests'[p] = requests[p]
  BY <1>1
<1>3. requests' \in [Requests -> RequestState]
  BY <1>1
<1>4. \A p \in Requests : RequestLocalsSet(requests'[p])
  BY <1>1, <1>2
<1> QED
  BY <1>2, <1>3, <1>4

LEMMA ApartStays ==
    ASSUME IInv, NEW q \in Requests, NEW new,
           \A p \in Requests : p # q => requests'[p] = requests[p],
           requests'[q] = new,
           new.step \in {"push", "link"} =>
              requests[q].step \in {"push", "link"} /\ new.id = requests[q].id
    PROVE  CreatesApart'
BY DEF IInv, CreatesApart

(* A request moves, and nothing else changes but the trail. *)
LEMMA RequestMoves ==
    ASSUME IInv, NEW q \in Requests, NEW new,
           requests' = [requests EXCEPT ![q] = new],
           UNCHANGED <<rows, remote, changes, syncs>>,
           edits' \in 0 .. MaxEdits, audit' \subseteq Entry,
           RequestOK(new), new.step \notin {"push", "link"},
           \A e \in audit' : e \in audit \/ Claim(e.action, e.id, e.status)
    PROVE  SafeStep
<1>0. RemoteGrows
  BY DEF RemoteGrows
<1>1. /\ \A r \in Ids : KeepsLink(r) /\ StaysUnlinked(r)
      /\ OneRowPerCampaign' /\ LinksAtMeta'
  BY <1>0, RowsSame
<1>2. /\ requests' \in [Requests -> RequestState]
      /\ \A p \in Requests : RequestLocalsSet(requests'[p])
      /\ requests'[q] = new
      /\ \A p \in Requests : p # q => requests'[p] = requests[p]
  BY RequestTypes DEF IInv, RequestOK
<1>3. TypeOK'
  BY <1>2 DEF IInv, TypeOK
<1>4. SyncsAtMeta'
  BY DEF IInv, SyncsAtMeta, AtMeta
<1>5. CreatesApart'
  BY <1>2, ApartStays
<1>6. RequestOK(requests[q])'
  BY <1>2 DEF RequestOK, Claim, Linked, Unlinked, Stored, AtMeta
<1>7. \A p \in Requests :
         \/ RequestOK(requests[p])'
         \/ /\ requests'[p] = requests[p]
            /\ requests[p].step \in {"push", "link"} => StaysUnlinked(requests[p].id)
  <2> SUFFICES ASSUME NEW p \in Requests, p # q, requests[p].step \in {"push", "link"}
               PROVE  StaysUnlinked(requests[p].id)
    BY <1>2, <1>6
  <2>1. requests[p].id \in Ids
    BY DEF IInv, TypeOK, RequestLocalsSet
  <2> QED
    BY <2>1, <1>1
<1>8. \A e \in audit' : e \in audit \/ Claim(e.action, e.id, e.status)'
  BY DEF Claim, Linked, Stored
<1> QED
  BY <1>0, <1>1, <1>3, <1>4, <1>5, <1>7, <1>8, StepSafe

LEMMA UpdateReadSafe ==
    ASSUME IInv, NEW q \in Requests, NEW r \in Ids, NEW input \in Input, UpdateRead(q, r, input)
    PROVE  SafeStep
<1> DEFINE new == [step |-> IF rows[r].metaId # NULL THEN "patch" ELSE "write",
                   action |-> "UPDATE", id |-> r, metaId |-> rows[r].metaId, input |-> input]
<1>1. rows[r] \in Row
  BY StoredRow DEF IInv, UpdateRead
<1>2. new \in RequestState
  BY <1>1 DEF RequestState, Row
<1>3. RequestLocalsSet(new)
  BY <1>1 DEF RequestLocalsSet, Row
<1>4. rows[r] # UNUSED /\ (new.step = "patch" => AtMeta(new.metaId))
  BY DEF UpdateRead, Stored, IInv, LinksAtMeta
<1>5. RequestOK(new) /\ new.step \notin {"push", "link"}
  BY <1>2, <1>3, <1>4 DEF RequestOK
<1>6. edits' \in 0 .. MaxEdits
  BY BoundAssumption DEF UpdateRead, Spend, IInv, TypeOK
<1> QED
  BY <1>5, <1>6, RequestMoves DEF UpdateRead, IInv, TypeOK

LEMMA DeleteReadSafe ==
    ASSUME IInv, NEW q \in Requests, NEW r \in Ids, DeleteRead(q, r)
    PROVE  SafeStep
<1> DEFINE new == [Idle EXCEPT !.step = "delete", !.action = "DELETE", !.id = r]
<1>1. RequestOK(new) /\ new.step \notin {"push", "link"}
  BY DEF RequestOK, Idle, RequestState, RequestLocalsSet, Input, DeleteRead, Stored
<1>2. edits' \in 0 .. MaxEdits
  BY BoundAssumption DEF DeleteRead, Spend, IInv, TypeOK
<1> QED
  BY <1>1, <1>2, RequestMoves DEF DeleteRead, IInv, TypeOK

LEMMA RequestEndsSafe ==
    ASSUME IInv, NEW q \in Requests, RequestEnds(q)
    PROVE  SafeStep
<1>0. Idle.step \notin {"push", "link"}
  BY DEF Idle
<1>1. CASE WriteAudit(q)
  <2> DEFINE e == [action |-> requests[q].action, id |-> requests[q].id,
                   status |-> requests[q].input.status]
  <2>1. RequestOK(requests[q]) /\ requests[q].step = "audit"
    BY <1>1 DEF WriteAudit, IInv, RequestsOK
  <2>2. Claim(e.action, e.id, e.status)
    BY <2>1 DEF RequestOK
  <2>3. e \in Entry
    BY <2>1, InputAssumption DEF RequestOK, RequestState, RequestLocalsSet, Input, Entry
  <2> QED
    BY <1>0, <1>1, <2>2, <2>3, IdleOK, RequestMoves DEF WriteAudit, IInv, TypeOK
<1>2. CASE AuditFails(q) \/ RequestFails(q)
  BY <1>0, <1>2, IdleOK, RequestMoves DEF AuditFails, RequestFails, IInv, TypeOK
<1> QED
  BY <1>1, <1>2 DEF RequestEnds

-----------------------------------------------------------------------------
(* Meta stores a campaign.                                                 *)

LEMMA MetaStoresGrows ==
    ASSUME IInv, NEW m \in MetaIds, NEW c \in Campaign, MetaStores(m, c)
    PROVE  /\ remote' \in [MetaIds -> Campaign \cup {NULL}]
           /\ changes' \subseteq Listing
           /\ RemoteGrows
           /\ remote'[m] # NULL
<1>1. c # NULL
  BY CampaignNotNull
<1>2. Notification(m, c) \in Listing
  BY DEF Notification, Listing, Campaign
<1>3. remote \in [MetaIds -> Campaign \cup {NULL}] /\ changes \subseteq Listing
  BY DEF IInv, TypeOK
<1> QED
  BY <1>1, <1>2, <1>3 DEF MetaStores, RemoteGrows

(* A step in which Meta stores a campaign and at most one request moves. *)
LEMMA MetaStepSafe ==
    ASSUME IInv, NEW m \in MetaIds, NEW c \in Campaign, MetaStores(m, c),
           UNCHANGED <<rows, syncs, audit>>, edits' \in 0 .. MaxEdits,
           requests' \in [Requests -> RequestState],
           \A q \in Requests : RequestLocalsSet(requests'[q]),
           CreatesApart',
           \A q \in Requests : requests'[q] = requests[q] \/ RequestOK(requests[q])'
    PROVE  SafeStep
<1>1. /\ remote' \in [MetaIds -> Campaign \cup {NULL}] /\ changes' \subseteq Listing
      /\ RemoteGrows
  BY MetaStoresGrows
<1>2. /\ \A r \in Ids : KeepsLink(r) /\ StaysUnlinked(r)
      /\ OneRowPerCampaign' /\ LinksAtMeta'
  BY <1>1, RowsSame
<1>3. TypeOK'
  BY <1>1 DEF IInv, TypeOK
<1>4. SyncsAtMeta'
  BY <1>1 DEF IInv, TypeOK, SyncsAtMeta, AtMeta, RemoteGrows, Listing
<1>5. \A q \in Requests : requests[q].step \in {"push", "link"} => StaysUnlinked(requests[q].id)
  BY <1>2 DEF IInv, TypeOK, RequestLocalsSet
<1> QED
  BY <1>1, <1>2, <1>3, <1>4, <1>5, StepSafe

LEMMA CreatePushSafe ==
    ASSUME IInv, NEW q \in Requests, NEW m \in MetaIds, CreatePush(q, m)
    PROVE  SafeStep
<1> DEFINE req == requests[q]
           new == [req EXCEPT !.step = "link", !.metaId = m]
<1>1. RequestOK(req) /\ req.step = "push"
  BY DEF IInv, RequestsOK, CreatePush
<1>2. req \in RequestState /\ RequestLocalsSet(req) /\ Unlinked(req.id) /\ rows[req.id] # UNUSED
  BY <1>1 DEF RequestOK
<1>3. req.input \in Campaign
  BY <1>1, <1>2 DEF RequestState, RequestLocalsSet, Input, Campaign, Live, CampaignStatus
<1>4. new \in RequestState /\ RequestLocalsSet(new)
  BY <1>1, <1>2 DEF RequestState, RequestLocalsSet
<1>5. requests' = [requests EXCEPT ![q] = new]
  BY DEF CreatePush
<1>6. /\ requests' \in [Requests -> RequestState]
      /\ \A p \in Requests : RequestLocalsSet(requests'[p])
      /\ requests'[q] = new
      /\ \A p \in Requests : p # q => requests'[p] = requests[p]
  BY <1>4, <1>5, RequestTypes DEF IInv
<1>7. remote'[m] # NULL
  BY <1>3, MetaStoresGrows DEF CreatePush
<1>8. new.step = "link" /\ new.metaId = m /\ new.id = req.id
  BY <1>2 DEF RequestState
<1>9. RequestOK(requests[q])'
  BY <1>2, <1>4, <1>6, <1>7, <1>8 DEF RequestOK, Unlinked, Stored, AtMeta, CreatePush
<1>10. CreatesApart'
  BY <1>1, <1>6, <1>8, ApartStays
<1> QED
  BY <1>3, <1>6, <1>9, <1>10, MetaStepSafe DEF CreatePush, IInv, TypeOK

LEMMA UpdatePushSafe ==
    ASSUME IInv, NEW q \in Requests, UpdatePush(q)
    PROVE  SafeStep
<1> DEFINE req == requests[q]
           new == [req EXCEPT !.step = "write"]
           m == req.metaId
           c == Patched(remote[m], req.input)
<1>1. RequestOK(req) /\ req.step = "patch"
  BY DEF IInv, RequestsOK, UpdatePush
<1>2. req \in RequestState /\ RequestLocalsSet(req) /\ m \in MetaIds /\ remote[m] # NULL
      /\ rows[req.id] # UNUSED
  BY <1>1 DEF RequestOK, RequestLocalsSet, AtMeta
<1>3. remote[m] \in Campaign /\ req.input \in Input
  BY <1>2 DEF IInv, TypeOK, RequestState
<1>4. c \in Campaign
  BY <1>3, InputAssumption DEF Patched, Given, Campaign, Input
<1>5. new \in RequestState /\ RequestLocalsSet(new) /\ new.step = "write" /\ new.id = req.id
  BY <1>1, <1>2 DEF RequestState, RequestLocalsSet
<1>6. requests' = [requests EXCEPT ![q] = new]
  BY DEF UpdatePush
<1>7. /\ requests' \in [Requests -> RequestState]
      /\ \A p \in Requests : RequestLocalsSet(requests'[p])
      /\ requests'[q] = new
      /\ \A p \in Requests : p # q => requests'[p] = requests[p]
  BY <1>5, <1>6, RequestTypes DEF IInv
<1>8. RequestOK(requests[q])'
  BY <1>2, <1>5, <1>7 DEF RequestOK, UpdatePush
<1>9. CreatesApart'
  BY <1>5, <1>7, ApartStays
<1>10. MetaStores(m, c) /\ UNCHANGED <<rows, syncs, audit>> /\ edits' \in 0 .. MaxEdits
  BY DEF UpdatePush, IInv, TypeOK
<1> HIDE DEF c, new, m, req
<1> QED
  BY <1>2, <1>4, <1>7, <1>8, <1>9, <1>10, MetaStepSafe

LEMMA MetaEditSafe ==
    ASSUME IInv, NEW m \in MetaIds, NEW n \in Names, NEW st \in MetaStatuses, MetaEdit(m, n, st)
    PROVE  SafeStep
<1> DEFINE c == [name |-> n, status |-> st]
<1>1. c \in Campaign
  BY DEF Campaign
<1>2. edits' \in 0 .. MaxEdits
  BY BoundAssumption DEF MetaEdit, Spend, IInv, TypeOK
<1>3. CreatesApart'
  BY DEF MetaEdit, IInv, CreatesApart
<1> QED
  BY <1>1, <1>2, <1>3, MetaStepSafe DEF MetaEdit, IInv, TypeOK

-----------------------------------------------------------------------------
(* One row is written.                                                     *)

(* A row may be written over row r: it keeps r's campaign, or takes one    *)
(* that no row has; a deleted row stays deleted.                           *)
MayWrite(r, row) ==
    /\ row \in Row \cup {GONE}
    /\ rows[r] = GONE => row = GONE
    /\ Linked(r) /\ row # GONE => row.metaId = rows[r].metaId
    /\ row # GONE /\ row.metaId # NULL =>
          AtMeta(row.metaId) /\ (LinkedTo(r, row.metaId) \/ ~Mirrored(row.metaId))

LEMMA RowWrite ==
    ASSUME IInv, NEW r \in Ids, NEW row, MayWrite(r, row),
           rows' = [rows EXCEPT ![r] = row], remote' = remote
    PROVE  /\ rows' \in [Ids -> Row \cup {UNUSED, GONE}]
           /\ rows'[r] = row
           /\ \A s \in Ids : KeepsLink(s) /\ (s # r => StaysUnlinked(s))
           /\ RemoteGrows /\ OneRowPerCampaign' /\ LinksAtMeta'
<1>1. rows \in [Ids -> Row \cup {UNUSED, GONE}]
  BY DEF IInv, TypeOK
<1>2. rows'[r] = row /\ \A s \in Ids : s # r => rows'[s] = rows[s]
  BY <1>1
<1>3. rows' \in [Ids -> Row \cup {UNUSED, GONE}]
  BY <1>1 DEF MayWrite
<1>4. row # UNUSED /\ (row # GONE => row \in Row /\ row \notin {UNUSED, GONE})
  BY RowAssumption, RowIsStored DEF MayWrite
<1>5. KeepsLink(r)
  BY <1>2, <1>4 DEF KeepsLink, MayWrite, Linked
<1>6. \A s \in Ids : s # r => KeepsLink(s) /\ StaysUnlinked(s)
  BY <1>2 DEF KeepsLink, StaysUnlinked, Linked, Unlinked, Stored
<1>7. OneRowPerCampaign'
  <2>1. ASSUME NEW s \in Ids, s # r, rows[s] \notin {UNUSED, GONE},
               row # GONE, row.metaId # NULL, rows[s].metaId = row.metaId
        PROVE  FALSE
    <3>1. LinkedTo(s, row.metaId) /\ Mirrored(row.metaId)
      BY <2>1 DEF LinkedTo, Mirrored, Stored
    <3>2. LinkedTo(r, row.metaId)
      BY <2>1, <3>1 DEF MayWrite
    <3> QED
      BY <2>1, <3>1, <3>2 DEF IInv, OneRowPerCampaign, LinkedTo
  <2> SUFFICES ASSUME NEW s \in Ids, NEW t \in Ids, s # t,
                      rows'[s] \notin {UNUSED, GONE}, rows'[t] \notin {UNUSED, GONE},
                      rows'[s].metaId # NULL
               PROVE  rows'[s].metaId # rows'[t].metaId
    BY DEF OneRowPerCampaign, Stored
  <2>2. CASE s # r /\ t # r
    BY <1>2, <2>2 DEF IInv, OneRowPerCampaign, Stored
  <2>3. CASE s = r
    BY <1>2, <2>1, <2>3
  <2>4. CASE t = r
    BY <1>2, <2>1, <2>4
  <2> QED
    BY <2>2, <2>3, <2>4
<1>8. LinksAtMeta'
  BY <1>2, <1>4 DEF LinksAtMeta, MayWrite, AtMeta, Stored, IInv
<1>9. RemoteGrows
  BY DEF RemoteGrows
<1> QED
  BY <1>2, <1>3, <1>5, <1>6, <1>7, <1>8, <1>9

(* A write of one row that does not link it, or links the row of the one   *)
(* request that is moved, preserves IInv.                                  *)
LEMMA WriteSafe ==
    ASSUME IInv, NEW r \in Ids, NEW row, MayWrite(r, row),
           rows' = [rows EXCEPT ![r] = row],
           UNCHANGED <<remote, changes, audit>>, edits' \in 0 .. MaxEdits,
           requests' \in [Requests -> RequestState],
           \A q \in Requests : RequestLocalsSet(requests'[q]),
           CreatesApart',
           syncs' \in [AllSyncs -> SUBSET Listing],
           \A s \in AllSyncs : syncs'[s] \subseteq syncs[s],
           \A q \in Requests :
              \/ RequestOK(requests[q])'
              \/ /\ requests'[q] = requests[q]
                 /\ (requests[q].step \in {"push", "link"} /\ requests[q].id = r) =>
                       StaysUnlinked(r)
    PROVE  SafeStep
<1>1. /\ rows' \in [Ids -> Row \cup {UNUSED, GONE}]
      /\ \A s \in Ids : KeepsLink(s) /\ (s # r => StaysUnlinked(s))
      /\ RemoteGrows /\ OneRowPerCampaign' /\ LinksAtMeta'
  BY RowWrite
<1>2. TypeOK'
  BY <1>1 DEF IInv, TypeOK
<1>3. SyncsAtMeta'
  BY DEF IInv, SyncsAtMeta, AtMeta
<1>4. \A q \in Requests : requests[q].step \in {"push", "link"} => requests[q].id \in Ids
  BY DEF IInv, TypeOK, RequestLocalsSet
<1> QED
  BY <1>1, <1>2, <1>3, <1>4, StepSafe

LEMMA CreateInsertSafe ==
    ASSUME IInv, NEW q \in Requests, NEW n \in Names, NEW st \in InputStatuses,
           CreateInsert(q, n, st)
    PROVE  SafeStep
<1> DEFINE row == [metaId |-> NULL, name |-> n, status |-> st]
           r == NewId
           new == [step |-> IF st \in Live THEN "push" ELSE "audit", action |-> "CREATE",
                   id |-> r, metaId |-> NULL, input |-> [name |-> n, status |-> st]]
<1>1. r \in Ids /\ rows[r] = UNUSED
  BY NewIdUnused DEF CreateInsert
<1>2. row \in Row
  BY InputAssumption DEF Row
<1>3. MayWrite(r, row)
  BY <1>1, <1>2, RowAssumption DEF MayWrite, Linked, Stored
<1>4. rows' = [rows EXCEPT ![r] = row] /\ requests' = [requests EXCEPT ![q] = new]
  BY DEF CreateInsert
<1>5. new \in RequestState /\ RequestLocalsSet(new)
  BY <1>1 DEF RequestState, RequestLocalsSet, Input
<1>6. /\ requests' \in [Requests -> RequestState]
      /\ \A p \in Requests : RequestLocalsSet(requests'[p])
      /\ requests'[q] = new
      /\ \A p \in Requests : p # q => requests'[p] = requests[p]
  BY <1>4, <1>5, RequestTypes DEF IInv
<1>7. rows'[r] = row
  BY <1>1, <1>3, <1>4, RowWrite DEF CreateInsert
<1>8. row \notin {UNUSED, GONE}
  BY <1>2, RowIsStored
<1>9. RequestOK(requests[q])'
  BY <1>5, <1>6, <1>7, <1>8 DEF RequestOK, Claim, Linked, Unlinked, Stored, AtMeta
<1>10. \A p \in Requests : requests[p].step # "idle" => requests[p].id # r
  BY <1>1 DEF IInv, RequestsOK, RequestOK
<1>11. CreatesApart'
  BY <1>6, <1>10 DEF IInv, CreatesApart
<1>12. edits' \in 0 .. MaxEdits
  BY BoundAssumption DEF CreateInsert, Spend, IInv, TypeOK
<1>13. UNCHANGED <<remote, changes, audit, syncs>>
  BY DEF CreateInsert
<1>14. syncs' \in [AllSyncs -> SUBSET Listing] /\ \A s \in AllSyncs : syncs'[s] \subseteq syncs[s]
  BY <1>13 DEF IInv, TypeOK
<1>15. \A p \in Requests :
         \/ RequestOK(requests[p])'
         \/ /\ requests'[p] = requests[p]
            /\ (requests[p].step \in {"push", "link"} /\ requests[p].id = r) => StaysUnlinked(r)
  BY <1>6, <1>9, <1>10
<1> HIDE DEF r, row, new
<1> QED
  BY <1>1, <1>3, <1>4, <1>6, <1>11, <1>12, <1>13, <1>14, <1>15, WriteSafe

(* The last write of a request, before its audit entry: it writes its row, *)
(* or finds it gone.                                                       *)
LEMMA LastWriteSafe ==
    ASSUME IInv, NEW q \in Requests, requests[q].step \in {"link", "write", "delete"},
           requests' = [requests EXCEPT ![q].step = "audit"],
           UNCHANGED <<remote, changes, syncs, audit, edits>>,
           NEW row, MayWrite(requests[q].id, row),
           rows' = [rows EXCEPT ![requests[q].id] = row],
           requests[q].action = "CREATE" => row # GONE /\ row.metaId # NULL,
           requests[q].action = "DELETE" => row = GONE,
           requests[q].action # "CREATE" => StaysUnlinked(requests[q].id)
    PROVE  SafeStep
<1> DEFINE req == requests[q]
           new == [req EXCEPT !.step = "audit"]
           r == req.id
<1>1. RequestOK(req)
  BY DEF IInv, RequestsOK
<1>2. req \in RequestState /\ RequestLocalsSet(req) /\ r \in Ids /\ rows[r] # UNUSED
  BY <1>1 DEF RequestOK, RequestLocalsSet
<1>3. new \in RequestState /\ RequestLocalsSet(new)
      /\ new.step = "audit" /\ new.id = r /\ new.action = req.action
      /\ new.input = req.input
  BY <1>2 DEF RequestState, RequestLocalsSet
<1>4. requests' = [requests EXCEPT ![q] = new]
  OBVIOUS
<1>5. /\ requests' \in [Requests -> RequestState]
      /\ \A p \in Requests : RequestLocalsSet(requests'[p])
      /\ requests'[q] = new
      /\ \A p \in Requests : p # q => requests'[p] = requests[p]
  BY <1>3, <1>4, RequestTypes DEF IInv
<1>6. rows'[r] = row
  BY <1>2, RowWrite
<1>7. row # UNUSED /\ (row # GONE => row \notin {UNUSED, GONE})
  BY RowAssumption, RowIsStored DEF MayWrite
<1>8. RequestOK(requests[q])'
  BY <1>3, <1>5, <1>6, <1>7 DEF RequestOK, Claim, Linked, Stored
<1>9. CreatesApart'
  BY <1>3, <1>5, ApartStays
<1>10. \A p \in Requests :
         \/ RequestOK(requests[p])'
         \/ /\ requests'[p] = requests[p]
            /\ (requests[p].step \in {"push", "link"} /\ requests[p].id = r) => StaysUnlinked(r)
  <2>1. CASE req.action = "CREATE"
    <3>1. req.step = "link"
      BY <1>2, <2>1 DEF RequestLocalsSet
    <3> QED
      BY <1>5, <1>8, <3>1 DEF IInv, CreatesApart
  <2>2. CASE req.action # "CREATE"
    BY <1>5, <1>8, <2>2
  <2> QED
    BY <2>1, <2>2
<1>11. /\ edits' \in 0 .. MaxEdits /\ syncs' \in [AllSyncs -> SUBSET Listing]
       /\ \A s \in AllSyncs : syncs'[s] \subseteq syncs[s]
  BY DEF IInv, TypeOK
<1>12. MayWrite(r, row) /\ rows' = [rows EXCEPT ![r] = row]
  OBVIOUS
<1> HIDE DEF r, req, new
<1> QED
  BY <1>2, <1>5, <1>9, <1>10, <1>11, <1>12, WriteSafe

LEMMA CreateLinkSafe ==
    ASSUME IInv, NEW q \in Requests, CreateLink(q)
    PROVE  SafeStep
<1> DEFINE req == requests[q]
           r == req.id
           m == req.metaId
           row == [rows[r] EXCEPT !.metaId = m]
<1>1. RequestOK(req) /\ req.step = "link"
  BY DEF IInv, RequestsOK, CreateLink
<1>2. /\ req \in RequestState /\ RequestLocalsSet(req) /\ r \in Ids /\ rows[r] # UNUSED
      /\ m \in MetaIds /\ m # NULL /\ AtMeta(m) /\ Unlinked(r) /\ req.action = "CREATE"
  BY <1>1, MetaIdNotNull DEF RequestOK, RequestLocalsSet
<1>3. CASE Stored(r)
  <2>1. rows[r] \in Row
    BY <1>2, <1>3, StoredRow DEF IInv
  <2>2. row \in Row /\ row.metaId = m
    BY <1>2, <2>1 DEF Row
  <2>3. row # GONE
    BY <2>2, RowIsStored
  <2>4. MayWrite(r, row)
    BY <1>2, <1>3, <2>2, <2>3 DEF MayWrite, CreateLink, MayLink, Linked, Unlinked, Stored
  <2>5. rows' = [rows EXCEPT ![r] = row] /\ requests' = [requests EXCEPT ![q].step = "audit"]
        /\ UNCHANGED <<remote, changes, syncs, audit, edits>>
    BY <1>3 DEF CreateLink, Updated
  <2> HIDE DEF row
  <2> QED
    BY <1>1, <1>2, <2>2, <2>3, <2>4, <2>5, LastWriteSafe
<1>4. CASE ~Stored(r)
  <2> DEFINE new == [req EXCEPT !.step = "audit"]
  <2>1. rows[r] = GONE
    BY <1>2, <1>4 DEF Stored
  <2>2. RequestOK(new) /\ new.step \notin {"push", "link"}
    BY <1>2, <2>1 DEF RequestOK, RequestState, RequestLocalsSet, Claim
  <2>3. /\ requests' = [requests EXCEPT ![q] = new]
        /\ UNCHANGED <<rows, remote, changes, syncs, audit, edits>>
    BY <1>4 DEF CreateLink, Updated
  <2> QED
    BY <2>2, <2>3, RequestMoves DEF IInv, TypeOK
<1> QED
  BY <1>3, <1>4

LEMMA UpdateWriteSafe ==
    ASSUME IInv, NEW q \in Requests, UpdateWrite(q)
    PROVE  SafeStep
<1> DEFINE req == requests[q]
           r == req.id
           row == Patched(rows[r], req.input)
<1>1. RequestOK(req) /\ req.step = "write"
  BY DEF IInv, RequestsOK, UpdateWrite
<1>2. /\ req \in RequestState /\ RequestLocalsSet(req) /\ r \in Ids /\ rows[r] # UNUSED
      /\ req.action = "UPDATE" /\ req.input \in Input
  BY <1>1 DEF RequestOK, RequestLocalsSet, RequestState
<1>3. CASE Stored(r)
  <2>1. rows[r] \in Row
    BY <1>2, <1>3, StoredRow DEF IInv
  <2>2. row \in Row /\ row.metaId = rows[r].metaId
    BY <1>2, <2>1, InputAssumption DEF Row, Patched, Given, Input
  <2>3. row # GONE
    BY <2>2, RowIsStored
  <2>4. MayWrite(r, row)
    BY <1>2, <1>3, <2>2, <2>3 DEF MayWrite, Stored, LinkedTo, LinksAtMeta, IInv
  <2>5. rows' = [rows EXCEPT ![r] = row] /\ requests' = [requests EXCEPT ![q].step = "audit"]
        /\ UNCHANGED <<remote, changes, syncs, audit, edits>>
    BY <1>3 DEF UpdateWrite, Updated
  <2>6. StaysUnlinked(r)
    BY <1>2, <1>3, <2>2, <2>4, <2>5, RowWrite DEF StaysUnlinked, Unlinked
  <2> HIDE DEF row
  <2> QED
    BY <1>1, <1>2, <2>3, <2>4, <2>5, <2>6, LastWriteSafe
<1>4. CASE ~Stored(r)
  <2> DEFINE new == [req EXCEPT !.step = "audit"]
  <2>1. RequestOK(new) /\ new.step \notin {"push", "link"}
    BY <1>2 DEF RequestOK, RequestState, RequestLocalsSet, Claim
  <2>2. /\ requests' = [requests EXCEPT ![q] = new]
        /\ UNCHANGED <<rows, remote, changes, syncs, audit, edits>>
    BY <1>4 DEF UpdateWrite, Updated
  <2> QED
    BY <2>1, <2>2, RequestMoves DEF IInv, TypeOK
<1> QED
  BY <1>3, <1>4

LEMMA DeleteRowSafe ==
    ASSUME IInv, NEW q \in Requests, DeleteRow(q)
    PROVE  SafeStep
<1> DEFINE req == requests[q]
           r == req.id
<1>1. RequestOK(req) /\ req.step = "delete"
  BY DEF IInv, RequestsOK, DeleteRow
<1>2. r \in Ids /\ req.action = "DELETE"
  BY <1>1 DEF RequestOK, RequestLocalsSet
<1>3. MayWrite(r, GONE)
  BY DEF MayWrite
<1>4. rows' = [rows EXCEPT ![r] = GONE] /\ requests' = [requests EXCEPT ![q].step = "audit"]
      /\ UNCHANGED <<remote, changes, syncs, audit, edits>>
  BY DEF DeleteRow
<1>5. StaysUnlinked(r)
  BY <1>2, <1>3, <1>4, RowWrite DEF StaysUnlinked
<1> QED
  BY <1>1, <1>2, <1>3, <1>4, <1>5, LastWriteSafe

-----------------------------------------------------------------------------
(* Syncs, webhooks, restarts.                                              *)

LEMMA SyncListSafe ==
    ASSUME IInv, NEW s \in AllSyncs, SyncList(s)
    PROVE  SafeStep
<1> DEFINE items == {Notification(m, remote[m]) : m \in {n \in MetaIds : Listed(n)}}
<1>1. \A item \in items : item \in Listing /\ AtMeta(item.id)
  <2> SUFFICES ASSUME NEW m \in MetaIds, Listed(m)
               PROVE  LET item == Notification(m, remote[m])
                      IN  item \in Listing /\ AtMeta(item.id)
    OBVIOUS
  <2>1. remote[m] \in Campaign /\ AtMeta(m)
    BY DEF Listed, AtMeta, IInv, TypeOK
  <2> QED
    BY <2>1 DEF Notification, Listing, Campaign
<1>2. syncs' = [syncs EXCEPT ![s] = items] /\ UNCHANGED <<rows, remote, changes, requests, audit, edits>>
  BY DEF SyncList
<1>3. syncs' \in [AllSyncs -> SUBSET Listing]
  BY <1>1, <1>2 DEF IInv, TypeOK
<1>4. SyncsAtMeta'
  BY <1>1, <1>2 DEF IInv, TypeOK, SyncsAtMeta, AtMeta
<1>5. TypeOK'
  BY <1>2, <1>3 DEF IInv, TypeOK
<1>6. RemoteGrows
  BY <1>2 DEF RemoteGrows
<1>7. /\ \A r \in Ids : KeepsLink(r) /\ StaysUnlinked(r)
      /\ OneRowPerCampaign' /\ LinksAtMeta'
  BY <1>2, <1>6, RowsSame
<1>8. CreatesApart'
  BY <1>2 DEF IInv, CreatesApart
<1>9. \A q \in Requests : requests[q].step \in {"push", "link"} => requests[q].id \in Ids
  BY DEF IInv, TypeOK, RequestLocalsSet
<1> QED
  BY <1>2, <1>4, <1>5, <1>6, <1>7, <1>8, <1>9, StepSafe

(* A sync drops an item, having written row r with it or not. *)
LEMMA SyncStepSafe ==
    ASSUME IInv, NEW s \in AllSyncs, SyncStep(s)
    PROVE  SafeStep
<1> PICK item \in syncs[s] : SyncUpsert(s, item) \/ UpsertFails(s, item)
  BY DEF SyncStep
<1>1. /\ syncs' = [syncs EXCEPT ![s] = @ \ {item}]
      /\ UNCHANGED <<remote, changes, requests, audit, edits>>
  BY DEF SyncUpsert, UpsertFails
<1>2. /\ syncs' \in [AllSyncs -> SUBSET Listing]
      /\ \A t \in AllSyncs : syncs'[t] \subseteq syncs[t]
  BY <1>1 DEF IInv, TypeOK
<1>3. item \in Listing /\ AtMeta(item.id)
  BY DEF IInv, TypeOK, SyncsAtMeta
<1>4. /\ edits' \in 0 .. MaxEdits
      /\ requests' \in [Requests -> RequestState]
      /\ \A q \in Requests : RequestLocalsSet(requests'[q])
      /\ CreatesApart'
  BY <1>1 DEF IInv, TypeOK, CreatesApart
<1> DEFINE row == UpsertedRow(item)
<1>5. row \in Row /\ row.metaId = item.id /\ item.id # NULL /\ row # GONE
  <2>1. row \in Row /\ row.metaId = item.id
    BY <1>3 DEF UpsertedRow, Row, Listing, Mapped, CampaignStatus
  <2> QED
    BY <1>3, <2>1, RowIsStored, MetaIdNotNull DEF Listing
<1>6. ASSUME NEW r \in Ids, rows' = [rows EXCEPT ![r] = row],
             LinkedTo(r, item.id) \/ (rows[r] = UNUSED /\ ~Mirrored(item.id))
      PROVE  SafeStep
  <2>1. MayWrite(r, row)
    BY <1>3, <1>5, <1>6, RowAssumption DEF MayWrite, LinkedTo, Linked, Stored
  <2>2. StaysUnlinked(r)
    BY <1>5, <1>6 DEF StaysUnlinked, Unlinked, LinkedTo
  <2> HIDE DEF row
  <2> QED
    BY <1>1, <1>2, <1>4, <1>6, <2>1, <2>2, WriteSafe
<1>7. CASE rows' = rows
  <2>1. RemoteGrows /\ SyncsAtMeta' /\ TypeOK'
    BY <1>1, <1>2, <1>7 DEF RemoteGrows, SyncsAtMeta, AtMeta, IInv, TypeOK
  <2>2. /\ \A r \in Ids : KeepsLink(r) /\ StaysUnlinked(r)
        /\ OneRowPerCampaign' /\ LinksAtMeta'
    BY <1>7, <2>1, RowsSame
  <2>3. \A q \in Requests : requests[q].step \in {"push", "link"} => requests[q].id \in Ids
    BY DEF IInv, TypeOK, RequestLocalsSet
  <2> QED
    BY <1>1, <1>4, <2>1, <2>2, <2>3, StepSafe
<1>8. CASE SyncUpsert(s, item)
  <2>1. CASE \E r \in Ids : LinkedTo(r, item.id) /\ rows' = [rows EXCEPT ![r] = row]
    BY <2>1, <1>6
  <2>2. CASE ~Mirrored(item.id) /\ UnusedIds # {} /\ rows' = [rows EXCEPT ![NewId] = row]
    BY <2>2, <1>6, NewIdUnused
  <2> QED
    BY <1>8, <2>1, <2>2 DEF SyncUpsert
<1> QED
  BY <1>7, <1>8 DEF UpsertFails

LEMMA WebhookSafe ==
    ASSUME IInv, NEW e \in changes, Webhook(e)
    PROVE  SafeStep
<1>0. UNCHANGED <<remote, changes, requests, syncs, audit, edits>> /\ e \in Listing
  BY DEF Webhook, IInv, TypeOK
<1>1. \A r \in Ids :
         \/ rows'[r] = rows[r]
         \/ /\ rows[r] \in Row /\ Stored(r)
            /\ rows'[r] \in Row /\ rows'[r].metaId = rows[r].metaId
  <2> SUFFICES ASSUME NEW r \in Ids, LinkedTo(r, e.id)
               PROVE  /\ rows[r] \in Row /\ Stored(r)
                      /\ rows'[r] \in Row /\ rows'[r].metaId = rows[r].metaId
    BY DEF Webhook
  <2>1. rows[r] \in Row /\ Stored(r)
    BY StoredRow DEF LinkedTo, IInv
  <2>2. rows'[r] = [rows[r] EXCEPT !.name = e.name, !.status = WebhookStatus(e.status, @)]
    BY DEF Webhook
  <2> QED
    BY <1>0, <2>1, <2>2 DEF Row, Listing, WebhookStatus
<1>2. rows' \in [Ids -> Row \cup {UNUSED, GONE}]
  <2>1. rows \in [Ids -> Row \cup {UNUSED, GONE}]
    BY DEF IInv, TypeOK
  <2>2. DOMAIN rows' = Ids /\ rows' = [r \in Ids |-> rows'[r]]
    BY DEF Webhook
  <2> QED
    BY <1>1, <2>1, <2>2
<1>3. \A r \in Ids : KeepsLink(r) /\ StaysUnlinked(r)
  BY <1>1, RowIsStored DEF KeepsLink, StaysUnlinked, Linked, Unlinked, Stored
<1>4. OneRowPerCampaign'
  BY <1>1 DEF IInv, OneRowPerCampaign, Stored
<1>5. LinksAtMeta'
  BY <1>0, <1>1 DEF IInv, LinksAtMeta, AtMeta, Stored
<1>6. TypeOK' /\ RemoteGrows /\ SyncsAtMeta' /\ CreatesApart'
  BY <1>0, <1>2 DEF IInv, TypeOK, RemoteGrows, SyncsAtMeta, AtMeta, CreatesApart
<1>7. \A q \in Requests : requests[q].step \in {"push", "link"} => requests[q].id \in Ids
  BY DEF IInv, TypeOK, RequestLocalsSet
<1> QED
  BY <1>0, <1>3, <1>4, <1>5, <1>6, <1>7, StepSafe

LEMMA ChangeGoneSafe ==
    ASSUME IInv, NEW e \in changes, ChangeGone(e)
    PROVE  SafeStep
<1>1. IInv'
  BY DEF ChangeGone, IInv, TypeOK, OneRowPerCampaign, AuditTrue, LinksAtMeta, SyncsAtMeta,
     RequestsOK, RequestOK, CreatesApart, Claim, Linked, Unlinked, Stored, AtMeta
<1>2. \A r \in Ids : KeepsLink(r)
  BY DEF ChangeGone, KeepsLink, Linked, Stored
<1> QED
  BY <1>1, <1>2 DEF SafeStep

LEMMA CrashSafe ==
    ASSUME IInv, Crash
    PROVE  SafeStep
<1>1. \A q \in Requests : requests'[q] = Idle /\ RequestOK(Idle)
  BY IdleOK DEF Crash
<1>2. Idle \in RequestState /\ RequestLocalsSet(Idle) /\ Idle.step = "idle"
  BY IdleOK DEF RequestOK, Idle
<1>3. TypeOK' /\ RemoteGrows /\ SyncsAtMeta' /\ CreatesApart'
  BY <1>2 DEF Crash, IInv, TypeOK, RemoteGrows, SyncsAtMeta, CreatesApart
<1>4. /\ \A r \in Ids : KeepsLink(r) /\ StaysUnlinked(r)
      /\ OneRowPerCampaign' /\ LinksAtMeta'
  BY <1>3, RowsSame DEF Crash
<1>5. \A q \in Requests : RequestOK(requests[q])'
  BY <1>1, <1>2 DEF RequestOK
<1> QED
  BY <1>3, <1>4, <1>5, StepSafe DEF Crash

-----------------------------------------------------------------------------
(* The theorems.                                                           *)

LEMMA InitIInv == Init => IInv
<1> SUFFICES ASSUME Init PROVE IInv
  OBVIOUS
<1>1. \A q \in Requests : requests[q] = Idle
  BY DEF Init
<1>2. Idle \in RequestState /\ RequestLocalsSet(Idle) /\ Idle.step = "idle"
  BY IdleOK DEF RequestOK, Idle
<1>3. RequestsOK /\ CreatesApart
  BY <1>1, <1>2, IdleOK DEF RequestsOK, CreatesApart
<1>4. TypeOK
  BY <1>2, BoundAssumption DEF Init, TypeOK
<1>5. OneRowPerCampaign /\ AuditTrue /\ LinksAtMeta /\ SyncsAtMeta
  BY DEF Init, OneRowPerCampaign, AuditTrue, LinksAtMeta, SyncsAtMeta, Stored
<1> QED
  BY <1>3, <1>4, <1>5 DEF IInv

LEMMA NextSafe == IInv /\ [Next]_vars => SafeStep
<1> SUFFICES ASSUME IInv, [Next]_vars PROVE SafeStep
  OBVIOUS
<1>1. ASSUME NEW q \in Requests, RequestStarts(q) PROVE SafeStep
  BY <1>1, CreateInsertSafe, UpdateReadSafe, DeleteReadSafe DEF RequestStarts
<1>2. ASSUME NEW q \in Requests, RequestStep(q) PROVE SafeStep
  BY <1>2, CreatePushSafe, CreateLinkSafe, UpdatePushSafe, UpdateWriteSafe, DeleteRowSafe,
     RequestEndsSafe DEF RequestStep
<1>3. ASSUME NEW s \in AllSyncs, SyncList(s) \/ SyncStep(s) PROVE SafeStep
  BY <1>3, SyncListSafe, SyncStepSafe
<1>4. ASSUME NEW e \in changes, Webhook(e) \/ ChangeGone(e) PROVE SafeStep
  BY <1>4, WebhookSafe, ChangeGoneSafe
<1>5. ASSUME NEW m \in MetaIds, NEW n \in Names, NEW st \in MetaStatuses, MetaEdit(m, n, st)
      PROVE  SafeStep
  BY <1>5, MetaEditSafe
<1>6. CASE Crash
  BY <1>6, CrashSafe
<1>7. CASE UNCHANGED vars
  BY <1>7 DEF vars, IInv, TypeOK, OneRowPerCampaign, AuditTrue, LinksAtMeta, SyncsAtMeta,
     RequestsOK, RequestOK, CreatesApart, Claim, Linked, Unlinked, Stored, AtMeta,
     SafeStep, KeepsLink
<1> QED
  BY <1>1, <1>2, <1>3, <1>4, <1>5, <1>6, <1>7 DEF Next

(* The inductive invariant holds in every reachable state. *)
THEOREM Invariance == Spec => []IInv
<1>1. IInv /\ [Next]_vars => IInv'
  BY NextSafe DEF SafeStep
<1> QED
  BY <1>1, InitIInv, PTL DEF Spec

(* Rows, campaigns, requests and entries have the fields of the schema,    *)
(* and every handler has what its next step works on.                      *)
THEOREM TypeCorrect == Spec => []TypeOK
<1>1. IInv => TypeOK
  BY DEF IInv
<1> QED
  BY <1>1, Invariance, PTL

(* A campaign at Meta never has two rows.                                  *)
THEOREM OneRow == Spec => []OneRowPerCampaign
<1>1. IInv => OneRowPerCampaign
  BY DEF IInv
<1> QED
  BY <1>1, Invariance, PTL

(* The audit trail claims nothing that did not happen.                     *)
THEOREM TrailIsTrue == Spec => []AuditTrue
<1>1. IInv => AuditTrue
  BY DEF IInv
<1> QED
  BY <1>1, Invariance, PTL

(* Whatever requests, syncs and webhooks overlap, a row stays with its     *)
(* campaign until it is deleted, and is not stored again under its key.    *)
THEOREM LinksAreStable == Spec => LinkStable
<1>1. IInv /\ [Next]_vars =>
         [\A r \in Ids :
             /\ rows[r] = GONE => rows'[r] = GONE
             /\ (Stored(r) /\ rows[r].metaId # NULL) =>
                   (rows'[r] = GONE \/ rows'[r].metaId = rows[r].metaId)]_vars
  BY NextSafe DEF SafeStep, KeepsLink, Linked
<1> QED
  BY <1>1, Invariance, PTL DEF Spec, LinkStable

-----------------------------------------------------------------------------
(* A campaign in sync stays in sync.                                       *)

(* Rows of campaign m keep what they show, or are shown as it is at Meta.  *)
KeepsShown(m) ==
    \A r \in Ids : LinkedTo(r, m) =>
        /\ rows'[r] \notin {UNUSED, GONE} /\ rows'[r].metaId = m
        /\ rows'[r].name \in {rows[r].name, remote[m].name}
        /\ rows'[r].status \in {rows[r].status, Mapped(remote[m].status)}

(* Whatever is on its way: webhooks that may come, items still to upsert.  *)
OnItsWay == changes \cup UNION {syncs[s] : s \in AllSyncs}

(* The step puts nothing on its way about m but how m is already.          *)
BringsNoNews(m) ==
    \A item \in OnItsWay' : item \in OnItsWay \/ ~IsNews(m, item)

LEMMA SyncStays ==
    ASSUME NEW m \in MetaIds, InSync(m), remote'[m] = remote[m],
           \A q \in Requests : ~WorksOn(q, m)',
           KeepsShown(m), BringsNoNews(m)
    PROVE  InSync(m)'
<1>1. (Listed(m) => ShownAsAtMeta(m))'
  <2> SUFFICES ASSUME Listed(m)'
               PROVE  ShownAsAtMeta(m)'
    OBVIOUS
  <2>1. Listed(m)
    BY DEF Listed, AtMeta
  <2>2. PICK r \in Ids : /\ LinkedTo(r, m) /\ rows[r].name = remote[m].name
                         /\ rows[r].status = Mapped(remote[m].status)
    BY <2>1 DEF InSync, ShownAsAtMeta
  <2>3. /\ rows'[r] \notin {UNUSED, GONE} /\ rows'[r].metaId = m
        /\ rows'[r].name = remote[m].name
        /\ rows'[r].status = Mapped(remote[m].status)
    BY <2>2 DEF KeepsShown
  <2> QED
    BY <2>3 DEF ShownAsAtMeta, LinkedTo, Stored
<1>2. \A item \in OnItsWay' : ~IsNews(m, item)'
  <2>1. \A item \in OnItsWay : ~IsNews(m, item)
    BY DEF InSync, OnItsWay
  <2> QED
    BY <2>1 DEF BringsNoNews, IsNews
<1> QED
  BY <1>1, <1>2 DEF InSync, OnItsWay

LEMMA RowsSameKeepsShown ==
    ASSUME NEW m \in MetaIds, rows' = rows
    PROVE  KeepsShown(m)
BY DEF KeepsShown, LinkedTo, Stored

(* A row that is not of campaign m is written. *)
LEMMA OtherRowWritten ==
    ASSUME IInv, NEW m \in MetaIds, NEW r \in Ids, NEW row, ~LinkedTo(r, m),
           rows' = [rows EXCEPT ![r] = row]
    PROVE  KeepsShown(m)
<1>1. \A s \in Ids : LinkedTo(s, m) => rows'[s] = rows[s]
  BY DEF IInv, TypeOK
<1> QED
  BY <1>1 DEF KeepsShown, LinkedTo, Stored

LEMMA QuietBringsNoNews ==
    ASSUME NEW m \in MetaIds, changes' \subseteq changes,
           \A s \in AllSyncs : syncs'[s] \subseteq syncs[s]
    PROVE  BringsNoNews(m)
BY DEF BringsNoNews, OnItsWay

(* Meta stores a campaign: another one, or m as it was. *)
LEMMA MetaStoresNoNews ==
    ASSUME IInv, NEW m \in MetaIds, NEW n \in MetaIds, NEW c, MetaStores(n, c),
           remote'[m] = remote[m], syncs' = syncs
    PROVE  BringsNoNews(m)
<1>1. changes' = changes \cup {Notification(n, c)}
  BY DEF MetaStores
<1>2. ~IsNews(m, Notification(n, c))
  <2>1. CASE n = m
    <3>1. c = remote[m]
      BY <2>1 DEF MetaStores, IInv, TypeOK
    <3> QED
      BY <2>1, <3>1 DEF IsNews
  <2>2. CASE n # m
    BY <2>2 DEF IsNews, Notification
  <2> QED
    BY <2>1, <2>2
<1> QED
  BY <1>1, <1>2 DEF BringsNoNews, OnItsWay

(* The row a request writes is not of a campaign nobody works on. *)
LEMMA WorksElsewhere ==
    ASSUME IInv, NEW m \in MetaIds, InSync(m), NEW q \in Requests,
           requests[q].step \in {"link", "write", "delete"}
    PROVE  requests[q].id \in Ids /\ ~LinkedTo(requests[q].id, m)
<1>1. requests[q].id \in Ids
  BY DEF IInv, TypeOK, RequestLocalsSet
<1>2. ~WorksOn(q, m)
  BY DEF InSync
<1> QED
  BY <1>1, <1>2 DEF WorksOn

LEMMA RequestsStayInSync ==
    ASSUME IInv, NEW m \in MetaIds, InSync(m), remote'[m] = remote[m],
           NEW q \in Requests, RequestStarts(q) \/ RequestStep(q)
    PROVE  KeepsShown(m) /\ BringsNoNews(m)
<1>1. ASSUME NEW n \in Names, NEW st \in InputStatuses, CreateInsert(q, n, st)
      PROVE  KeepsShown(m) /\ BringsNoNews(m)
  <2>1. NewId \in Ids /\ ~LinkedTo(NewId, m)
    BY <1>1, NewIdUnused DEF CreateInsert, LinkedTo, Stored
  <2>2. KeepsShown(m)
    BY <1>1, <2>1, OtherRowWritten DEF CreateInsert
  <2> QED
    BY <1>1, <2>2, QuietBringsNoNews DEF CreateInsert
<1>2. ASSUME \/ \E r \in Ids, input \in Input : UpdateRead(q, r, input)
             \/ \E r \in Ids : DeleteRead(q, r)
             \/ RequestEnds(q)
      PROVE  KeepsShown(m) /\ BringsNoNews(m)
  BY <1>2, RowsSameKeepsShown, QuietBringsNoNews
     DEF UpdateRead, DeleteRead, RequestEnds, WriteAudit, AuditFails, RequestFails
<1>3. ASSUME NEW n \in MetaIds, CreatePush(q, n)
      PROVE  KeepsShown(m) /\ BringsNoNews(m)
  BY <1>3, RowsSameKeepsShown, MetaStoresNoNews DEF CreatePush
<1>4. ASSUME UpdatePush(q)
      PROVE  KeepsShown(m) /\ BringsNoNews(m)
  <2>1. requests[q].metaId \in MetaIds
    BY <1>4 DEF UpdatePush, IInv, TypeOK, RequestLocalsSet
  <2> QED
    BY <1>4, <2>1, RowsSameKeepsShown, MetaStoresNoNews DEF UpdatePush
<1>5. ASSUME CreateLink(q) \/ UpdateWrite(q) \/ DeleteRow(q)
      PROVE  KeepsShown(m) /\ BringsNoNews(m)
  <2>1. requests[q].id \in Ids /\ ~LinkedTo(requests[q].id, m)
    BY <1>5, WorksElsewhere DEF CreateLink, UpdateWrite, DeleteRow
  <2>2. rows' = rows \/ \E row : rows' = [rows EXCEPT ![requests[q].id] = row]
    BY <1>5 DEF CreateLink, UpdateWrite, DeleteRow, Updated
  <2>3. KeepsShown(m)
    BY <2>1, <2>2, OtherRowWritten, RowsSameKeepsShown
  <2> QED
    BY <1>5, <2>3, QuietBringsNoNews DEF CreateLink, UpdateWrite, DeleteRow
<1> QED
  BY <1>1, <1>2, <1>3, <1>4, <1>5 DEF RequestStarts, RequestStep

LEMMA SyncsStayInSync ==
    ASSUME IInv, NEW m \in MetaIds, InSync(m), NEW s \in AllSyncs,
           SyncList(s) \/ SyncStep(s)
    PROVE  KeepsShown(m) /\ BringsNoNews(m)
<1>1. CASE SyncList(s)
  <2>1. \A item \in syncs'[s] : ~IsNews(m, item)
    BY <1>1 DEF SyncList, IInv, TypeOK, IsNews, Notification
  <2>2. \A t \in AllSyncs : t # s => syncs'[t] = syncs[t]
    BY <1>1 DEF SyncList, IInv, TypeOK
  <2>3. changes' = changes /\ rows' = rows
    BY <1>1 DEF SyncList
  <2>4. BringsNoNews(m)
    BY <2>1, <2>2, <2>3 DEF BringsNoNews, OnItsWay
  <2> QED
    BY <2>3, <2>4, RowsSameKeepsShown
<1>2. CASE SyncStep(s)
  <2>1. PICK item \in syncs[s] : SyncUpsert(s, item) \/ UpsertFails(s, item)
    BY <1>2 DEF SyncStep
  <2>2. BringsNoNews(m)
    <3>1. changes' = changes /\ \A t \in AllSyncs : syncs'[t] \subseteq syncs[t]
      BY <2>1 DEF SyncUpsert, UpsertFails, IInv, TypeOK
    <3> QED
      BY <3>1, QuietBringsNoNews
  <2>3. ASSUME NEW r \in Ids, LinkedTo(r, item.id), rows' = [rows EXCEPT ![r] = UpsertedRow(item)]
        PROVE  KeepsShown(m)
    <3>1. CASE item.id # m
      BY <2>3, <3>1, OtherRowWritten DEF LinkedTo
    <3>2. CASE item.id = m
      <4>1. item = Notification(m, remote[m])
        BY <3>2 DEF InSync, IsNews
      <4>2. /\ UpsertedRow(item).metaId = m
            /\ UpsertedRow(item).name = remote[m].name
            /\ UpsertedRow(item).status = Mapped(remote[m].status)
        BY <4>1 DEF UpsertedRow, Notification
      <4>3. UpsertedRow(item) \in Row
        <5>1. item \in Listing
          BY DEF IInv, TypeOK
        <5> QED
          BY <5>1 DEF UpsertedRow, Row, Listing, Mapped, CampaignStatus
      <4>4. rows'[r] = UpsertedRow(item) /\ \A t \in Ids : t # r => rows'[t] = rows[t]
        BY <2>3 DEF IInv, TypeOK
      <4> QED
        BY <4>2, <4>3, <4>4, RowIsStored DEF KeepsShown, LinkedTo, Stored
    <3> QED
      BY <3>1, <3>2
  <2>4. CASE ~Mirrored(item.id) /\ UnusedIds # {} /\ rows' = [rows EXCEPT ![NewId] = UpsertedRow(item)]
    <3>1. NewId \in Ids /\ ~LinkedTo(NewId, m)
      BY <2>4, NewIdUnused DEF LinkedTo, Stored
    <3> QED
      BY <2>2, <2>4, <3>1, OtherRowWritten
  <2> QED
    BY <2>1, <2>2, <2>3, <2>4, RowsSameKeepsShown DEF SyncUpsert, UpsertFails
<1> QED
  BY <1>1, <1>2

(* A webhook that brings no news leaves the row as it is at Meta; a status *)
(* the schema does not have is already shown as it can be.                 *)
LEMMA WebhooksStayInSync ==
    ASSUME IInv, NEW m \in MetaIds, InSync(m), NEW e \in changes,
           Webhook(e) \/ ChangeGone(e)
    PROVE  KeepsShown(m) /\ BringsNoNews(m)
<1>1. BringsNoNews(m)
  BY QuietBringsNoNews DEF Webhook, ChangeGone
<1>2. CASE ChangeGone(e)
  BY <1>1, <1>2, RowsSameKeepsShown DEF ChangeGone
<1>3. CASE Webhook(e)
  <2> SUFFICES ASSUME NEW r \in Ids, LinkedTo(r, m)
               PROVE  /\ rows'[r] \notin {UNUSED, GONE} /\ rows'[r].metaId = m
                      /\ rows'[r].name \in {rows[r].name, remote[m].name}
                      /\ rows'[r].status \in {rows[r].status, Mapped(remote[m].status)}
    BY <1>1 DEF KeepsShown
  <2>1. rows[r] \in Row
    BY StoredRow DEF LinkedTo, IInv
  <2>2. CASE e.id # m
    BY <1>3, <2>2 DEF Webhook, LinkedTo, Stored
  <2>3. CASE e.id = m
    <3>1. e.name = remote[m].name /\ e.status = remote[m].status
      BY <2>3 DEF InSync, IsNews, Notification
    <3>2. rows'[r] = [rows[r] EXCEPT !.name = e.name, !.status = WebhookStatus(e.status, @)]
      BY <1>3, <2>3 DEF Webhook
    <3>3. /\ rows'[r].metaId = m /\ rows'[r].name = e.name
          /\ rows'[r].status = WebhookStatus(e.status, rows[r].status)
      BY <2>1, <3>2 DEF Row, LinkedTo
    <3>4. rows'[r] \in Row
      <4>1. e \in Listing
        BY DEF IInv, TypeOK
      <4> QED
        BY <2>1, <3>2, <4>1 DEF Row, Listing, WebhookStatus
    <3> QED
      BY <3>1, <3>3, <3>4, RowIsStored DEF WebhookStatus, Mapped
  <2> QED
    BY <2>2, <2>3
<1> QED
  BY <1>2, <1>3

LEMMA NextStaysInSync ==
    ASSUME IInv, [Next]_vars, NEW m \in MetaIds, InSync(m), remote'[m] = remote[m],
           \A q \in Requests : ~WorksOn(q, m)'
    PROVE  InSync(m)'
<1>1. ASSUME NEW n \in MetaIds, NEW name \in Names, NEW st \in MetaStatuses,
             MetaEdit(n, name, st)
      PROVE  KeepsShown(m) /\ BringsNoNews(m)
  BY <1>1, RowsSameKeepsShown, MetaStoresNoNews DEF MetaEdit
<1>2. ASSUME Crash \/ UNCHANGED vars
      PROVE  KeepsShown(m) /\ BringsNoNews(m)
  BY <1>2, RowsSameKeepsShown, QuietBringsNoNews DEF Crash, vars
<1>3. KeepsShown(m) /\ BringsNoNews(m)
  BY <1>1, <1>2, RequestsStayInSync, SyncsStayInSync, WebhooksStayInSync DEF Next
<1> QED
  BY <1>3, SyncStays

(* Once a campaign is shown as it is at Meta, and nothing that says        *)
(* otherwise is under way, only an edit of that campaign changes that.     *)
THEOREM InSyncStays == Spec => StaysInSync
<1>1. IInv /\ [Next]_vars =>
         [\A m \in MetaIds :
             (InSync(m) /\ remote'[m] = remote[m] /\ \A q \in Requests : ~WorksOn(q, m)')
                 => InSync(m)']_vars
  BY NextStaysInSync
<1> QED
  BY <1>1, Invariance, PTL DEF Spec, StaysInSync

-----------------------------------------------------------------------------
(* Drafts, when API requests do not overlap.                               *)

OneRequestAtATime == \A p, q \in Requests : p = q

(* Meta knows no drafts, and so tells of none. *)
NoDraftAtMeta ==
    /\ \A m \in MetaIds : AtMeta(m) => remote[m].status # "DRAFT"
    /\ \A e \in changes : e.status # "DRAFT"
    /\ \A s \in AllSyncs : \A item \in syncs[s] : item.status # "DRAFT"

(* A row on its way to Meta is no draft, and a draft about to be written   *)
(* goes into a row that is not at Meta.                                    *)
DraftApart(req) ==
    /\ req.step \in {"push", "link"} => (Stored(req.id) => rows[req.id].status # "DRAFT")
    /\ (req.step = "write" /\ req.input.status = "DRAFT") => Unlinked(req.id)

DraftInv ==
    /\ DraftsAreLocal
    /\ NoDraftAtMeta
    /\ \A q \in Requests : DraftApart(requests[q])

(* A row that is not linked is left alone by everyone but its requests. *)
LeavesUnlinked ==
    \A r \in Ids : (rows[r] # UNUSED /\ Unlinked(r)) => rows'[r] = rows[r]

LEMMA OthersLeaveIt ==
    ASSUME IInv, DraftInv, LeavesUnlinked, requests' = requests
    PROVE  \A q \in Requests : DraftApart(requests[q])'
<1> SUFFICES ASSUME NEW q \in Requests
             PROVE  DraftApart(requests[q])'
  OBVIOUS
<1> DEFINE req == requests[q]
<1>1. RequestOK(req) /\ DraftApart(req) /\ requests'[q] = req
  BY DEF IInv, RequestsOK, DraftInv
<1>2. req.step \in {"push", "link", "write"} => req.id \in Ids /\ rows[req.id] # UNUSED
  BY <1>1 DEF RequestOK, RequestLocalsSet
<1>3. CASE req.step \in {"push", "link"}
  <2>1. rows'[req.id] = rows[req.id]
    BY <1>1, <1>2, <1>3 DEF RequestOK, LeavesUnlinked
  <2> QED
    BY <1>1, <1>3, <2>1 DEF DraftApart, Stored
<1>4. CASE req.step = "write" /\ req.input.status = "DRAFT"
  <2>1. Unlinked(req.id) /\ rows'[req.id] = rows[req.id]
    BY <1>1, <1>2, <1>4 DEF DraftApart, LeavesUnlinked
  <2> QED
    BY <1>1, <1>4, <2>1 DEF DraftApart, Unlinked, Stored
<1> QED
  BY <1>1, <1>3, <1>4 DEF DraftApart

(* Nothing at Meta changes. *)
LEMMA MetaSame ==
    ASSUME NoDraftAtMeta, UNCHANGED <<remote, changes>>,
           \A s \in AllSyncs : syncs'[s] \subseteq syncs[s]
    PROVE  NoDraftAtMeta'
BY DEF NoDraftAtMeta, AtMeta

LEMMA MetaStoresNoDraft ==
    ASSUME IInv, NoDraftAtMeta, NEW m \in MetaIds, NEW c, c.status # "DRAFT",
           MetaStores(m, c), UNCHANGED syncs
    PROVE  NoDraftAtMeta'
<1>1. remote \in [MetaIds -> Campaign \cup {NULL}]
  BY DEF IInv, TypeOK
<1>2. \A n \in MetaIds : remote'[n] = IF n = m THEN c ELSE remote[n]
  BY <1>1 DEF MetaStores
<1>3. \A e \in changes' : e.status # "DRAFT"
  BY DEF MetaStores, Notification, NoDraftAtMeta
<1>4. \A n \in MetaIds : remote'[n] # NULL => remote'[n].status # "DRAFT"
  BY <1>2 DEF NoDraftAtMeta, AtMeta
<1> QED
  BY <1>3, <1>4 DEF NoDraftAtMeta, AtMeta

LEMMA WriteNoDraft ==
    ASSUME IInv, DraftInv, NEW r \in Ids, NEW row,
           rows' = [rows EXCEPT ![r] = row],
           row = GONE \/ row.status # "DRAFT" \/ row.metaId = NULL
    PROVE  DraftsAreLocal'
<1>1. \A s \in Ids : rows'[s] = IF s = r THEN row ELSE rows[s]
  BY DEF IInv, TypeOK
<1> QED
  BY <1>1 DEF DraftInv, DraftsAreLocal, Stored

LEMMA RowsSameNoDraft ==
    ASSUME DraftInv, rows' = rows
    PROVE  DraftsAreLocal' /\ LeavesUnlinked
BY DEF DraftInv, DraftsAreLocal, LeavesUnlinked, Stored

(* A step of the one request there is. *)
LEMMA RequestKeepsDrafts ==
    ASSUME IInv, DraftInv, OneRequestAtATime, NEW q \in Requests,
           RequestStarts(q) \/ RequestStep(q)
    PROVE  DraftInv'
<1> DEFINE req == requests[q]
           r == req.id
<1>0. /\ RequestOK(req) /\ DraftApart(req) /\ req \in RequestState /\ RequestLocalsSet(req)
      /\ \A p \in Requests : p = q
      /\ requests \in [Requests -> RequestState]
      /\ req.step # "idle" => r \in Ids
  BY DEF IInv, RequestsOK, RequestOK, DraftInv, OneRequestAtATime, TypeOK, RequestLocalsSet
<1>1. ASSUME NEW n \in Names, NEW st \in InputStatuses, CreateInsert(q, n, st)
      PROVE  DraftInv'
  <2> DEFINE row == [metaId |-> NULL, name |-> n, status |-> st]
             new == [step |-> IF st \in Live THEN "push" ELSE "audit", action |-> "CREATE",
                     id |-> NewId, metaId |-> NULL, input |-> [name |-> n, status |-> st]]
  <2>1. NewId \in Ids /\ rows' = [rows EXCEPT ![NewId] = row] /\ requests'[q] = new
    BY <1>0, <1>1, NewIdUnused DEF CreateInsert
  <2>2. rows'[NewId] = row
    BY <2>1 DEF IInv, TypeOK
  <2>3. DraftApart(requests[q])'
    BY <2>1, <2>2 DEF DraftApart, Live
  <2>4. DraftsAreLocal'
    <3>1. row.metaId = NULL /\ NewId \in Ids /\ rows' = [rows EXCEPT ![NewId] = row]
      BY <2>1
    <3> HIDE DEF row
    <3> QED
      BY <3>1, WriteNoDraft
  <2>5. NoDraftAtMeta'
    BY <1>1, MetaSame DEF CreateInsert, DraftInv
  <2> QED
    BY <1>0, <2>3, <2>4, <2>5 DEF DraftInv
<1>2. ASSUME NEW m \in MetaIds, CreatePush(q, m)
      PROVE  DraftInv'
  <2>1. requests'[q] = [req EXCEPT !.step = "link", !.metaId = m] /\ req.step = "push"
    BY <1>0, <1>2 DEF CreatePush
  <2>2. req.input.status # "DRAFT"
    BY <1>0, <2>1 DEF RequestLocalsSet, Live
  <2>3. NoDraftAtMeta'
    BY <1>2, <2>2, MetaStoresNoDraft DEF CreatePush, DraftInv
  <2>4. requests'[q].step = "link" /\ requests'[q].id = r
    BY <1>0, <2>1 DEF RequestState
  <2>5. DraftApart(requests[q])'
    BY <1>0, <1>2, <2>1, <2>4 DEF DraftApart, CreatePush, Stored
  <2>6. DraftsAreLocal'
    BY <1>2 DEF CreatePush, DraftInv, DraftsAreLocal, Stored
  <2> QED
    BY <1>0, <2>3, <2>5, <2>6 DEF DraftInv
<1>3. CASE CreateLink(q)
  <2> DEFINE row == [rows[r] EXCEPT !.metaId = req.metaId]
  <2>1. req.step = "link" /\ requests'[q].step = "audit" /\ UNCHANGED <<remote, changes, syncs>>
    BY <1>0, <1>3 DEF CreateLink, RequestState
  <2>2. IF Stored(r) THEN rows' = [rows EXCEPT ![r] = row] ELSE rows' = rows
    BY <1>3 DEF CreateLink, Updated
  <2>3. ASSUME Stored(r) PROVE DraftsAreLocal'
    <3>1. rows[r] \in Row /\ rows[r].status # "DRAFT"
      BY <1>0, <2>1, <2>3, StoredRow DEF IInv, DraftApart
    <3>2. row.status # "DRAFT"
      BY <3>1 DEF Row
    <3> HIDE DEF row
    <3> QED
      BY <1>0, <2>1, <2>2, <2>3, <3>2, WriteNoDraft
  <2>4. DraftsAreLocal'
    BY <2>2, <2>3, RowsSameNoDraft
  <2>5. NoDraftAtMeta'
    BY <2>1, MetaSame DEF DraftInv
  <2> QED
    BY <1>0, <2>1, <2>4, <2>5 DEF DraftInv, DraftApart
<1>4. ASSUME NEW s \in Ids, NEW input \in Input, UpdateRead(q, s, input)
      PROVE  DraftInv'
  <2> DEFINE new == [step |-> IF rows[s].metaId # NULL THEN "patch" ELSE "write",
                     action |-> "UPDATE", id |-> s, metaId |-> rows[s].metaId, input |-> input]
  <2>1. requests'[q] = new /\ UNCHANGED <<rows, remote, changes, syncs>>
    BY <1>0, <1>4 DEF UpdateRead
  <2>2. DraftApart(requests[q])'
    BY <2>1 DEF DraftApart, Unlinked
  <2>3. DraftsAreLocal' /\ NoDraftAtMeta'
    BY <2>1, MetaSame, RowsSameNoDraft DEF DraftInv
  <2> QED
    BY <1>0, <2>2, <2>3 DEF DraftInv
<1>5. CASE UpdatePush(q)
  <2>1. /\ req.step = "patch" /\ req.input.status # "DRAFT" /\ UNCHANGED <<rows, syncs>>
        /\ MetaStores(req.metaId, Patched(remote[req.metaId], req.input))
        /\ requests'[q] = [req EXCEPT !.step = "write"]
    BY <1>0, <1>5 DEF UpdatePush
  <2>2. req.metaId \in MetaIds /\ AtMeta(req.metaId)
    BY <1>0, <2>1 DEF RequestOK, RequestLocalsSet
  <2>3. remote[req.metaId] \in Campaign /\ remote[req.metaId].status # "DRAFT"
    BY <2>2 DEF IInv, TypeOK, AtMeta, DraftInv, NoDraftAtMeta
  <2>4. Patched(remote[req.metaId], req.input).status # "DRAFT"
    BY <2>1, <2>3 DEF Patched, Given, Campaign
  <2>5. NoDraftAtMeta'
    BY <2>1, <2>2, <2>4, MetaStoresNoDraft DEF DraftInv
  <2>6. requests'[q].step = "write" /\ requests'[q].input.status # "DRAFT"
    BY <1>0, <2>1 DEF RequestState
  <2>7. DraftsAreLocal' /\ DraftApart(requests[q])'
    BY <2>1, <2>6 DEF DraftInv, DraftsAreLocal, DraftApart, Stored
  <2> QED
    BY <1>0, <2>5, <2>7 DEF DraftInv
<1>6. CASE UpdateWrite(q)
  <2> DEFINE row == Patched(rows[r], req.input)
  <2>1. req.step = "write" /\ requests'[q].step = "audit" /\ UNCHANGED <<remote, changes, syncs>>
    BY <1>0, <1>6 DEF UpdateWrite, RequestState
  <2>2. IF Stored(r) THEN rows' = [rows EXCEPT ![r] = row] ELSE rows' = rows
    BY <1>6 DEF UpdateWrite, Updated
  <2>3. ASSUME Stored(r) PROVE DraftsAreLocal'
    <3>1. rows[r] \in Row /\ (rows[r].status = "DRAFT" => rows[r].metaId = NULL)
      BY <1>0, <2>1, <2>3, StoredRow DEF IInv, DraftInv, DraftsAreLocal
    <3>2. req.input.status = "DRAFT" => rows[r].metaId = NULL
      BY <1>0, <2>1, <2>3 DEF DraftApart, Unlinked
    <3>3. row.metaId = rows[r].metaId /\ row.status = Given(req.input.status, rows[r].status)
      BY <3>1 DEF Patched, Row
    <3>4. row.status = "DRAFT" => row.metaId = NULL
      BY <3>1, <3>2, <3>3 DEF Given
    <3> HIDE DEF row
    <3> QED
      BY <1>0, <2>1, <2>2, <2>3, <3>4, WriteNoDraft
  <2>4. DraftsAreLocal'
    BY <2>2, <2>3, RowsSameNoDraft
  <2>5. NoDraftAtMeta'
    BY <2>1, MetaSame DEF DraftInv
  <2> QED
    BY <1>0, <2>1, <2>4, <2>5 DEF DraftInv, DraftApart
<1>7. CASE DeleteRow(q)
  <2>1. /\ req.step = "delete" /\ requests'[q].step = "audit" /\ UNCHANGED <<remote, changes, syncs>>
        /\ rows' = [rows EXCEPT ![r] = GONE]
    BY <1>0, <1>7 DEF DeleteRow, RequestState
  <2>2. DraftsAreLocal' /\ NoDraftAtMeta'
    BY <1>0, <2>1, WriteNoDraft, MetaSame DEF DraftInv, IInv
  <2> QED
    BY <1>0, <2>1, <2>2 DEF DraftInv, DraftApart
<1>8. CASE RequestEnds(q) \/ \E s \in Ids : DeleteRead(q, s)
  <2>1. /\ requests'[q].step \in {"idle", "delete"}
        /\ UNCHANGED <<rows, remote, changes, syncs>>
    <3>1. CASE RequestEnds(q)
      BY <1>0, <3>1 DEF RequestEnds, WriteAudit, AuditFails, RequestFails, Idle
    <3>2. ASSUME NEW s \in Ids, DeleteRead(q, s)
          PROVE  /\ requests'[q].step = "delete"
                 /\ UNCHANGED <<rows, remote, changes, syncs>>
      BY <1>0, <3>2 DEF DeleteRead, Idle
    <3> QED
      BY <1>8, <3>1, <3>2
  <2>2. DraftsAreLocal' /\ NoDraftAtMeta'
    BY <2>1, MetaSame, RowsSameNoDraft DEF DraftInv
  <2> QED
    BY <1>0, <2>1, <2>2 DEF DraftInv, DraftApart
<1> QED
  BY <1>1, <1>2, <1>3, <1>4, <1>5, <1>6, <1>7, <1>8 DEF RequestStarts, RequestStep

(* A sync lists or upserts: it writes linked rows and new ones. *)
LEMMA SyncKeepsDrafts ==
    ASSUME IInv, DraftInv, NEW s \in AllSyncs, SyncList(s) \/ SyncStep(s)
    PROVE  DraftInv'
<1>0. syncs \in [AllSyncs -> SUBSET Listing] /\ rows \in [Ids -> Row \cup {UNUSED, GONE}]
  BY DEF IInv, TypeOK
<1>1. CASE SyncList(s)
  <2>1. UNCHANGED <<rows, remote, changes, requests>>
    BY <1>1 DEF SyncList
  <2>2. \A item \in {Notification(m, remote[m]) : m \in {n \in MetaIds : Listed(n)}} :
           item.status # "DRAFT"
    BY DEF Notification, Listed, DraftInv, NoDraftAtMeta
  <2>3. NoDraftAtMeta'
    BY <1>0, <1>1, <2>1, <2>2 DEF SyncList, DraftInv, NoDraftAtMeta, AtMeta
  <2>4. LeavesUnlinked /\ DraftsAreLocal'
    BY <2>1 DEF LeavesUnlinked, DraftInv, DraftsAreLocal, Stored
  <2> QED
    BY <2>1, <2>3, <2>4, OthersLeaveIt DEF DraftInv
<1>2. ASSUME NEW item \in syncs[s], SyncUpsert(s, item) \/ UpsertFails(s, item)
      PROVE  DraftInv'
  <2> DEFINE row == UpsertedRow(item)
  <2>1. /\ UNCHANGED <<remote, changes, requests>>
        /\ \A t \in AllSyncs : syncs'[t] \subseteq syncs[t]
    BY <1>0, <1>2 DEF SyncUpsert, UpsertFails
  <2>2. item \in Listing /\ item.id # NULL /\ item.status # "DRAFT"
    BY <1>0, MetaIdNotNull DEF Listing, DraftInv, NoDraftAtMeta
  <2>3. row.status # "DRAFT"
    BY <2>2 DEF UpsertedRow, Mapped
  <2>4. \/ rows' = rows
        \/ \E r \in Ids : /\ rows' = [rows EXCEPT ![r] = row]
                          /\ LinkedTo(r, item.id) \/ rows[r] = UNUSED
    BY <1>2, NewIdUnused DEF SyncUpsert, UpsertFails
  <2> HIDE DEF row
  <2>5. ASSUME NEW r \in Ids, rows' = [rows EXCEPT ![r] = row],
               LinkedTo(r, item.id) \/ rows[r] = UNUSED
        PROVE  LeavesUnlinked /\ DraftsAreLocal'
    <3>1. LeavesUnlinked
      BY <1>0, <2>2, <2>5 DEF LeavesUnlinked, LinkedTo, Unlinked
    <3>2. DraftsAreLocal'
      BY <2>3, <2>5, WriteNoDraft
    <3> QED
      BY <3>1, <3>2
  <2>6. LeavesUnlinked /\ DraftsAreLocal'
    BY <2>4, <2>5, RowsSameNoDraft
  <2> QED
    BY <2>1, <2>6, OthersLeaveIt, MetaSame DEF DraftInv
<1> QED
  BY <1>1, <1>2 DEF SyncStep

(* A webhook writes rows linked to its campaign. *)
LEMMA WebhookKeepsDrafts ==
    ASSUME IInv, DraftInv, NEW e \in changes, Webhook(e)
    PROVE  DraftInv'
<1>1. e \in Listing /\ e.id # NULL /\ e.status # "DRAFT"
  BY MetaIdNotNull DEF IInv, TypeOK, Listing, DraftInv, NoDraftAtMeta
<1>2. UNCHANGED <<remote, changes, requests, syncs>>
  BY DEF Webhook
<1>3. LeavesUnlinked
  BY <1>1 DEF LeavesUnlinked, Webhook, LinkedTo, Unlinked
<1>4. ASSUME NEW r \in Ids, Stored(r)'
      PROVE  rows'[r].status = "DRAFT" => rows'[r].metaId = NULL
  <2>1. CASE LinkedTo(r, e.id)
    <3>1. rows[r] \in Row /\ rows[r].status # "DRAFT"
      BY <1>1, <2>1, StoredRow DEF IInv, LinkedTo, DraftInv, DraftsAreLocal
    <3>2. rows'[r] = [rows[r] EXCEPT !.name = e.name, !.status = WebhookStatus(e.status, @)]
      BY <2>1 DEF Webhook
    <3>3. rows'[r].status # "DRAFT"
      BY <1>1, <3>1, <3>2 DEF Row, WebhookStatus
    <3> QED
      BY <3>3
  <2>2. CASE ~LinkedTo(r, e.id)
    <3>1. rows'[r] = rows[r]
      BY <2>2 DEF Webhook
    <3> QED
      BY <1>4, <3>1 DEF DraftInv, DraftsAreLocal, Stored
  <2> QED
    BY <2>1, <2>2
<1>5. DraftsAreLocal'
  BY <1>4 DEF DraftsAreLocal
<1> QED
  BY <1>2, <1>3, <1>5, OthersLeaveIt, MetaSame DEF DraftInv

LEMMA NextKeepsDrafts ==
    ASSUME OneRequestAtATime
    PROVE  IInv /\ DraftInv /\ [Next]_vars => DraftInv'
<1> SUFFICES ASSUME IInv, DraftInv, [Next]_vars
             PROVE  DraftInv'
  OBVIOUS
<1>1. ASSUME NEW m \in MetaIds, NEW n \in Names, NEW st \in MetaStatuses, MetaEdit(m, n, st)
      PROVE  DraftInv'
  <2>1. UNCHANGED <<rows, requests, syncs>> /\ MetaStores(m, [name |-> n, status |-> st])
    BY <1>1 DEF MetaEdit
  <2>2. [name |-> n, status |-> st].status # "DRAFT"
    BY MetaAssumption
  <2>3. NoDraftAtMeta'
    BY <2>1, <2>2, MetaStoresNoDraft DEF DraftInv
  <2> QED
    BY <2>1, <2>3, RowsSameNoDraft, OthersLeaveIt DEF DraftInv
<1>2. ASSUME NEW e \in changes, ChangeGone(e)
      PROVE  DraftInv'
  <2>1. UNCHANGED <<rows, remote, requests, syncs>> /\ changes' \subseteq changes
    BY <1>2 DEF ChangeGone
  <2>2. NoDraftAtMeta'
    BY <2>1 DEF DraftInv, NoDraftAtMeta, AtMeta
  <2> QED
    BY <2>1, <2>2, RowsSameNoDraft, OthersLeaveIt DEF DraftInv
<1>3. CASE Crash
  <2>1. \A q \in Requests : DraftApart(requests[q])'
    BY <1>3 DEF Crash, DraftApart, Idle
  <2>2. NoDraftAtMeta'
    BY <1>3 DEF Crash, DraftInv, NoDraftAtMeta, AtMeta
  <2> QED
    BY <1>3, <2>1, <2>2, RowsSameNoDraft DEF Crash, DraftInv
<1>4. CASE UNCHANGED vars
  BY <1>4, RowsSameNoDraft, OthersLeaveIt, MetaSame DEF vars, DraftInv
<1> QED
  BY <1>1, <1>2, <1>3, <1>4, RequestKeepsDrafts, SyncKeepsDrafts, WebhookKeepsDrafts DEF Next

(* Without overlapping API requests, no row is a draft here and a campaign *)
(* at Meta; the run MCDraftRace shows that two overlapping ones make one.  *)
THEOREM DraftsStayLocal ==
    ASSUME OneRequestAtATime
    PROVE  Spec => []DraftsAreLocal
<1>1. Init => DraftInv
  BY DEF Init, DraftInv, DraftsAreLocal, NoDraftAtMeta, AtMeta, DraftApart, Idle, Stored
<1>2. IInv /\ DraftInv /\ [Next]_vars => DraftInv'
  BY NextKeepsDrafts
<1>3. DraftInv => DraftsAreLocal
  BY DEF DraftInv
<1> QED
  BY <1>1, <1>2, <1>3, Invariance, PTL DEF Spec

=============================================================================
