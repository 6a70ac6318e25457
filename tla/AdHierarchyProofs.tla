-------------------------- MODULE AdHierarchyProofs --------------------------
(***************************************************************************)
(* Theorems about AdHierarchy, for every number of rows, objects at Meta,  *)
(* accounts, creatives, concurrent requests and syncs.                     *)
(***************************************************************************)
EXTENDS AdHierarchy, TLAPS

(* The predicates below take the tables rs, Meta's objects rem and their   *)
(* history hd as parameters, so that they can be stated of the state       *)
(* before a step and of the state after it.                                *)

Live(rs, r) == rs[r] \notin {UNUSED, GONE}

(* The three tables are a forest with Meta's edges, one account a tree.    *)
Tree(rs, rem) ==
    /\ rs \in [Ids -> Row \cup {UNUSED, GONE}]
    /\ \A r \in Ids : Live(rs, r) =>
          /\ rs[r].metaId \in MetaCampaigns <=> rs[r].parent = NULL
          /\ rs[r].creative # NULL => rs[r].metaId \in MetaAds
          /\ rs[r].metaId \in Below =>
                /\ rem[rs[r].metaId] # NULL
                /\ Live(rs, rs[r].parent)
                /\ rs[rs[r].parent].metaId = rem[rs[r].metaId].parent
                /\ rs[rs[r].parent].account = rs[r].account
    /\ \A r, s \in Ids : (Live(rs, r) /\ Live(rs, s) /\ r # s) => rs[r].metaId # rs[s].metaId

(* Meta keeps ad sets below campaigns and ads below ad sets. *)
MetaOK(rem, hd) ==
    /\ rem \in [Below -> RemoteObject \cup {NULL}]
    /\ hd \in [Below -> SUBSET Statuses]
    /\ \A m \in Below : rem[m] # NULL =>
          /\ m \in MetaAdSets => rem[m].parent \in MetaCampaigns
          /\ m \in MetaAds => rem[m].parent \in MetaAdSets
          /\ rem[m].status \in hd[m]

Shown(rs, hd) ==
    \A r \in Ids : (Live(rs, r) /\ rs[r].metaId \in MetaAdSets) =>
        \E st \in hd[rs[r].metaId] : rs[r].status = normalizeStatus(st)

CreativesOK(rs, cr) ==
    /\ cr \in [Creatives -> Accounts \cup {UNUSED, GONE}]
    /\ \A r \in Ids : (Live(rs, r) /\ rs[r].creative # NULL) => Live(cr, rs[r].creative)

(* A handler has read row id, then linked to metaId in account; the row    *)
(* may be gone by now.                                                     *)
HasRead(rs, id, metaId, account) ==
    /\ id \in Ids
    /\ rs[id] # UNUSED
    /\ Live(rs, id) => rs[id].metaId = metaId /\ rs[id].account = account

(* What an entry claims of its row. *)
Claim(rs, hd, action, id, status) ==
    /\ id \in Ids /\ rs[id] # UNUSED
    /\ (action \in {"CREATE", "UPDATE"} /\ Live(rs, id) /\ rs[id].metaId \in MetaAdSets) =>
          status \in hd[rs[id].metaId]
    /\ action = "DELETE" =>
          rs[id] = GONE /\ \A x \in Ids : Live(rs, x) => rs[x].parent # id

RequestOK(req, rs, rem, hd) ==
    /\ req \in RequestState
    /\ req.step = "push" =>
          /\ HasRead(rs, req.id, req.metaId, req.account)
          /\ req.metaId \in MetaCampaigns /\ req.account \in Accounts
          /\ req.status \in InputStatuses /\ req.action = "CREATE"
    /\ req.step = "insert" =>
          /\ req.metaId \in MetaAdSets /\ rem[req.metaId] # NULL
          /\ HasRead(rs, req.id, rem[req.metaId].parent, req.account)
          /\ req.account \in Accounts /\ req.status \in InputStatuses
          /\ req.status \in hd[req.metaId] /\ req.action = "CREATE"
    /\ req.step = "patch" =>
          /\ HasRead(rs, req.id, req.metaId, req.account)
          /\ req.metaId \in MetaAdSets /\ rem[req.metaId] # NULL
          /\ req.status \in InputStatuses /\ req.action = "UPDATE"
    /\ req.step = "write" =>
          /\ HasRead(rs, req.id, req.metaId, req.account)
          /\ req.metaId \in Below
          /\ req.metaId \in MetaAdSets => req.status \in hd[req.metaId]
          /\ req.status \in InputStatuses /\ req.action = "UPDATE"
    /\ req.step = "delete" => req.id \in Ids /\ rs[req.id] # UNUSED /\ req.action = "DELETE"
    /\ req.step = "attach" =>
          /\ req.id \in Ids /\ rs[req.id] # UNUSED /\ req.creative \in Creatives
          /\ Live(rs, req.id) => rs[req.id].metaId \in MetaAds
    /\ req.step = "audit" =>
          /\ req.action \in {"CREATE", "UPDATE", "DELETE"}
          /\ Claim(rs, hd, req.action, req.id, req.status)

SyncOK(sync, rs, rem, hd) ==
    /\ sync \in SyncState
    /\ sync.step # "idle" =>
          /\ HasRead(rs, sync.id, sync.metaId, sync.account)
          /\ sync.metaId \in MetaCampaigns \cup MetaAdSets /\ sync.account \in Accounts
    /\ sync.step # "upsert" => sync.items = {}
    /\ \A item \in sync.items :
          /\ rem[item.id] # NULL /\ rem[item.id].parent = sync.metaId
          /\ item.status \in hd[item.id]

IInv ==
    /\ Tree(rows, remote)
    /\ MetaOK(remote, had)
    /\ Shown(rows, had)
    /\ CreativesOK(rows, creatives)
    /\ requests \in [Requests -> RequestState]
    /\ \A q \in Requests : RequestOK(requests[q], rows, remote, had)
    /\ syncs \in [Syncs -> SyncState]
    /\ \A s \in Syncs : SyncOK(syncs[s], rows, remote, had)
    /\ audit \subseteq Entry
    /\ \A e \in audit : Claim(rows, had, e.action, e.id, e.status)
    /\ edits \in 0 .. MaxEdits

-----------------------------------------------------------------------------
(* What every step does to rows and to Meta.                               *)

(* A deleted row stays deleted, a key is used once, a row keeps its place, *)
(* and a row is only inserted below one that is there.                     *)
Keeps(rs, rs2) ==
    \A r \in Ids :
        /\ rs[r] = GONE => rs2[r] = GONE
        /\ rs[r] # UNUSED => rs2[r] # UNUSED
        /\ (Live(rs, r) /\ Live(rs2, r)) =>
              /\ rs2[r].metaId = rs[r].metaId
              /\ rs2[r].parent = rs[r].parent
              /\ rs2[r].account = rs[r].account
        /\ (~Live(rs, r) /\ Live(rs2, r)) => rs2[r].parent = NULL \/ Live(rs, rs2[r].parent)

Grows(rem, rem2, hd, hd2) ==
    \A m \in Below :
        /\ hd[m] \subseteq hd2[m]
        /\ rem[m] # NULL => rem2[m] # NULL /\ rem2[m].parent = rem[m].parent

LEMMA KeepsSame ==
    ASSUME NEW rs
    PROVE  Keeps(rs, rs)
BY DEF Keeps

LEMMA GrowsSame ==
    ASSUME NEW rem, NEW hd
    PROVE  Grows(rem, rem, hd, hd)
BY DEF Grows

LEMMA LiveRow ==
    ASSUME NEW rs \in [Ids -> Row \cup {UNUSED, GONE}], NEW r \in Ids
    PROVE  Live(rs, r) <=> rs[r] \in Row
BY RowAssumption DEF Live

LEMMA HasReadStays ==
    ASSUME NEW rs, NEW rs2, Keeps(rs, rs2), NEW id, NEW metaId, NEW account,
           HasRead(rs, id, metaId, account)
    PROVE  HasRead(rs2, id, metaId, account)
BY DEF HasRead, Keeps, Live

LEMMA ClaimStays ==
    ASSUME NEW rs \in [Ids -> Row \cup {UNUSED, GONE}], NEW rs2, Keeps(rs, rs2),
           NEW rem, NEW rem2, NEW hd, NEW hd2, Grows(rem, rem2, hd, hd2),
           NEW action, NEW id, NEW status, Claim(rs, hd, action, id, status)
    PROVE  Claim(rs2, hd2, action, id, status)
<1>1. id \in Ids /\ rs[id] # UNUSED /\ rs2[id] # UNUSED
  BY DEF Claim, Keeps
<1>2. ASSUME action \in {"CREATE", "UPDATE"}, Live(rs2, id), rs2[id].metaId \in MetaAdSets
      PROVE  status \in hd2[rs2[id].metaId]
  <2>1. Live(rs, id) /\ rs[id].metaId = rs2[id].metaId
    BY <1>1, <1>2 DEF Keeps, Live
  <2> QED
    BY <1>2, <2>1 DEF Claim, Grows, Below
<1>3. ASSUME action = "DELETE"
      PROVE  rs2[id] = GONE /\ \A x \in Ids : Live(rs2, x) => rs2[x].parent # id
  <2>1. rs[id] = GONE /\ \A x \in Ids : Live(rs, x) => rs[x].parent # id
    BY <1>3 DEF Claim
  <2>2. ~Live(rs, id) /\ id # NULL
    BY <1>1, <2>1, LevelAssumption DEF Live
  <2> QED
    BY <1>1, <2>1, <2>2 DEF Keeps
<1> QED
  BY <1>1, <1>2, <1>3 DEF Claim

LEMMA RequestStays ==
    ASSUME NEW rs \in [Ids -> Row \cup {UNUSED, GONE}], NEW rs2, Keeps(rs, rs2),
           NEW rem, NEW rem2, NEW hd, NEW hd2, Grows(rem, rem2, hd, hd2),
           NEW req, RequestOK(req, rs, rem, hd)
    PROVE  RequestOK(req, rs2, rem2, hd2)
<1>1. req \in RequestState
  BY DEF RequestOK
<1>2. \A metaId, account :
         HasRead(rs, req.id, metaId, account) => HasRead(rs2, req.id, metaId, account)
  BY HasReadStays
<1>3. \A m \in MetaAdSets : /\ hd[m] \subseteq hd2[m]
                            /\ rem[m] # NULL => rem2[m] # NULL /\ rem2[m].parent = rem[m].parent
  BY DEF Grows, Below
<1>4. req.step = "audit" => Claim(rs2, hd2, req.action, req.id, req.status)
  BY ClaimStays DEF RequestOK
<1>5. req.step \in {"delete", "attach"} => rs2[req.id] # UNUSED
  BY DEF RequestOK, Keeps
<1>6. req.step = "attach" => (Live(rs2, req.id) => rs2[req.id].metaId \in MetaAds)
  BY DEF RequestOK, Keeps, Live
<1>7. CASE req.step = "push"
  BY <1>1, <1>2, <1>7 DEF RequestOK
<1>8. CASE req.step = "insert"
  BY <1>1, <1>2, <1>3, <1>8 DEF RequestOK
<1>9. CASE req.step = "patch"
  BY <1>1, <1>2, <1>3, <1>9 DEF RequestOK
<1>10. CASE req.step = "write"
  BY <1>1, <1>2, <1>3, <1>10 DEF RequestOK
<1>11. CASE req.step \in {"idle", "delete", "attach", "audit"}
  BY <1>1, <1>4, <1>5, <1>6, <1>11 DEF RequestOK
<1> QED
  BY <1>1, <1>7, <1>8, <1>9, <1>10, <1>11 DEF RequestState

LEMMA SyncStays ==
    ASSUME NEW rs, NEW rs2, Keeps(rs, rs2),
           NEW rem, NEW rem2, NEW hd, NEW hd2, Grows(rem, rem2, hd, hd2),
           NEW sync, SyncOK(sync, rs, rem, hd)
    PROVE  SyncOK(sync, rs2, rem2, hd2)
<1>1. \A item \in sync.items : item.id \in Below
  BY DEF SyncOK, SyncState, Item
<1>2. sync.step # "idle" => HasRead(rs2, sync.id, sync.metaId, sync.account)
  BY HasReadStays DEF SyncOK
<1> QED
  BY <1>1, <1>2 DEF SyncOK, Grows

(* A step that keeps rows and lets Meta grow is safe if the tables are in  *)
(* order after it, and whatever handler or entry it moves or adds.         *)
LEMMA StepSafe ==
    ASSUME IInv, Keeps(rows, rows'), Grows(remote, remote', had, had'),
           Tree(rows', remote'), MetaOK(remote', had'), Shown(rows', had'),
           CreativesOK(rows', creatives'),
           requests' \in [Requests -> RequestState],
           \A q \in Requests : requests'[q] = requests[q]
                               \/ RequestOK(requests'[q], rows', remote', had'),
           syncs' \in [Syncs -> SyncState],
           \A s \in Syncs : syncs'[s] = syncs[s] \/ SyncOK(syncs'[s], rows', remote', had'),
           audit' \subseteq Entry,
           \A e \in audit' : e \in audit \/ Claim(rows', had', e.action, e.id, e.status),
           edits' \in 0 .. MaxEdits
    PROVE  IInv'
<1>0. rows \in [Ids -> Row \cup {UNUSED, GONE}]
  BY DEF IInv, Tree
<1>1. \A q \in Requests : RequestOK(requests'[q], rows', remote', had')
  <2> SUFFICES ASSUME NEW q \in Requests, requests'[q] = requests[q]
               PROVE  RequestOK(requests'[q], rows', remote', had')
    OBVIOUS
  <2>1. RequestOK(requests[q], rows, remote, had)
    BY DEF IInv
  <2>2. RequestOK(requests[q], rows', remote', had')
    BY <1>0, <2>1, RequestStays
  <2> QED
    BY <2>2
<1>2. \A s \in Syncs : SyncOK(syncs'[s], rows', remote', had')
  <2> SUFFICES ASSUME NEW s \in Syncs, syncs'[s] = syncs[s]
               PROVE  SyncOK(syncs'[s], rows', remote', had')
    OBVIOUS
  <2>1. SyncOK(syncs[s], rows, remote, had)
    BY DEF IInv
  <2>2. SyncOK(syncs[s], rows', remote', had')
    BY <2>1, SyncStays
  <2> QED
    BY <2>2
<1>3. \A e \in audit' : Claim(rows', had', e.action, e.id, e.status)
  <2> SUFFICES ASSUME NEW e \in audit
               PROVE  Claim(rows', had', e.action, e.id, e.status)
    OBVIOUS
  <2>1. Claim(rows, had, e.action, e.id, e.status)
    BY DEF IInv
  <2> QED
    BY <1>0, <2>1, ClaimStays
<1> QED
  BY <1>1, <1>2, <1>3 DEF IInv

-----------------------------------------------------------------------------
(* Steps that leave the rows alone.                                        *)

LEMMA IdleOK ==
    ASSUME NEW rs, NEW rem, NEW hd
    PROVE  Idle \in RequestState /\ RequestOK(Idle, rs, rem, hd)
BY DEF Idle, RequestState, RequestOK

LEMMA IdleSyncOK ==
    ASSUME NEW rs, NEW rem, NEW hd
    PROVE  IdleSync \in SyncState /\ SyncOK(IdleSync, rs, rem, hd)
BY DEF IdleSync, SyncState, SyncOK

(* A request moves to "new", the trail may grow, nothing else changes. *)
LEMMA RequestMoves ==
    ASSUME IInv, NEW q \in Requests, NEW new, RequestOK(new, rows, remote, had),
           requests' = [requests EXCEPT ![q] = new],
           UNCHANGED <<rows, creatives, remote, had, syncs>>,
           edits' \in 0 .. MaxEdits, audit' \subseteq Entry,
           \A e \in audit' : e \in audit \/ Claim(rows, had, e.action, e.id, e.status)
    PROVE  IInv'
<1>1. new \in RequestState
  BY DEF RequestOK
<1>2. /\ requests' \in [Requests -> RequestState]
      /\ \A p \in Requests : requests'[p] = requests[p]
                             \/ RequestOK(requests'[p], rows', remote', had')
  BY <1>1 DEF IInv
<1>3. Keeps(rows, rows') /\ Grows(remote, remote', had, had')
  BY KeepsSame, GrowsSame
<1>4. /\ Tree(rows', remote') /\ MetaOK(remote', had') /\ Shown(rows', had')
      /\ CreativesOK(rows', creatives')
      /\ syncs' \in [Syncs -> SyncState]
      /\ \A s \in Syncs : syncs'[s] = syncs[s]
      /\ \A e \in audit' : e \in audit \/ Claim(rows', had', e.action, e.id, e.status)
  BY DEF IInv
<1> QED
  BY <1>2, <1>3, <1>4, StepSafe

LEMMA SpendOK ==
    ASSUME IInv, Spend
    PROVE  edits' \in 0 .. MaxEdits
BY EditsAssumption DEF IInv, Spend

LEMMA StoredLive ==
    ASSUME IInv, NEW r \in Ids, Stored(r)
    PROVE  /\ Live(rows, r) /\ rows[r] \in Row /\ rows[r] # UNUSED
           /\ HasRead(rows, r, rows[r].metaId, rows[r].account)
<1>1. Live(rows, r)
  BY DEF Stored, Live
<1> QED
  BY <1>1, LiveRow DEF IInv, Tree, HasRead, Live

LEMMA CreateReadSafe ==
    ASSUME IInv, NEW q \in Requests, NEW c \in Ids, NEW status \in InputStatuses,
           CreateRead(q, c, status)
    PROVE  IInv'
<1>1. PICK row : row = rows[c]
  OBVIOUS
<1> DEFINE new == [step |-> "push", action |-> "CREATE", id |-> c, metaId |-> row.metaId,
                   account |-> row.account, status |-> status, creative |-> NULL]
<1>2. row \in Row /\ row.metaId \in MetaCampaigns /\ HasRead(rows, c, row.metaId, row.account)
  BY <1>1, StoredLive DEF CreateRead, StoredAs
<1>3. RequestOK(new, rows, remote, had)
  BY <1>2 DEF RequestOK, RequestState, Row
<1>4. /\ requests' = [requests EXCEPT ![q] = new]
      /\ UNCHANGED <<rows, creatives, remote, had, syncs, audit>> /\ Spend
  BY <1>1 DEF CreateRead
<1> HIDE DEF new
<1> QED
  BY <1>3, <1>4, SpendOK, RequestMoves DEF IInv

LEMMA UpdateReadSafe ==
    ASSUME IInv, NEW q \in Requests, NEW r \in Ids, NEW status \in InputStatuses,
           UpdateRead(q, r, status)
    PROVE  IInv'
<1>1. PICK row, step : row = rows[r]
         /\ step = IF row.metaId \in MetaAdSets THEN "patch" ELSE "write"
  OBVIOUS
<1> DEFINE new == [step |-> step, action |-> "UPDATE", id |-> r, metaId |-> row.metaId,
                   account |-> row.account, status |-> status, creative |-> NULL]
<1>2. row \in Row /\ row.metaId \in Below /\ HasRead(rows, r, row.metaId, row.account)
      /\ remote[row.metaId] # NULL
  <2>1. row \in Row /\ row.metaId \in Below /\ HasRead(rows, r, row.metaId, row.account)
        /\ Live(rows, r)
    BY <1>1, StoredLive DEF UpdateRead, StoredAs
  <2> QED
    BY <1>1, <2>1 DEF IInv, Tree
<1>3. new \in RequestState
  BY <1>1, <1>2 DEF RequestState, Row
<1>4. RequestOK(new, rows, remote, had)
  BY <1>1, <1>2, <1>3 DEF RequestOK
<1>5. /\ requests' = [requests EXCEPT ![q] = new]
      /\ UNCHANGED <<rows, creatives, remote, had, syncs, audit>> /\ Spend
  BY <1>1 DEF UpdateRead
<1> HIDE DEF new
<1> QED
  BY <1>4, <1>5, SpendOK, RequestMoves DEF IInv

LEMMA DeleteReadSafe ==
    ASSUME IInv, NEW q \in Requests, NEW r \in Ids, DeleteRead(q, r)
    PROVE  IInv'
<1> DEFINE new == [Idle EXCEPT !.step = "delete", !.action = "DELETE", !.id = r]
<1>1. new \in RequestState /\ new.step = "delete" /\ new.action = "DELETE" /\ new.id = r
  BY DEF Idle, RequestState
<1>2. rows[r] # UNUSED
  BY DEF DeleteRead, Stored
<1>3. RequestOK(new, rows, remote, had)
  BY <1>1, <1>2 DEF RequestOK
<1>4. /\ requests' = [requests EXCEPT ![q] = new]
      /\ UNCHANGED <<rows, creatives, remote, had, syncs, audit>> /\ Spend
  BY DEF DeleteRead
<1> HIDE DEF new
<1> QED
  BY <1>3, <1>4, SpendOK, RequestMoves DEF IInv

LEMMA AttachCheckSafe ==
    ASSUME IInv, NEW q \in Requests, NEW r \in Ids, NEW k \in Creatives, NEW customer,
           AttachCheck(q, r, k, customer)
    PROVE  IInv'
<1> DEFINE new == [Idle EXCEPT !.step = "attach", !.id = r, !.creative = k]
<1>1. new \in RequestState /\ new.step = "attach" /\ new.id = r /\ new.creative = k
  BY DEF Idle, RequestState
<1>2. rows[r] # UNUSED /\ rows[r].metaId \in MetaAds
  BY DEF AttachCheck, StoredAs, Stored
<1>3. RequestOK(new, rows, remote, had)
  BY <1>1, <1>2 DEF RequestOK
<1>4. /\ requests' = [requests EXCEPT ![q] = new]
      /\ UNCHANGED <<rows, creatives, remote, had, syncs, audit>> /\ Spend
  BY DEF AttachCheck
<1> HIDE DEF new
<1> QED
  BY <1>3, <1>4, SpendOK, RequestMoves DEF IInv

LEMMA EndsSafe ==
    ASSUME IInv, NEW q \in Requests, WriteAudit(q) \/ RequestFails(q)
    PROVE  IInv'
<1>1. CASE WriteAudit(q)
  <2>1. PICK req : req = requests[q]
    OBVIOUS
  <2> DEFINE e == [action |-> req.action, id |-> req.id, status |-> req.status]
  <2>2. RequestOK(req, rows, remote, had) /\ req.step = "audit" /\ req \in RequestState
    BY <1>1, <2>1 DEF WriteAudit, IInv
  <2>3. e \in Entry /\ Claim(rows, had, e.action, e.id, e.status)
    BY <2>2 DEF RequestOK, RequestState, Entry, Claim
  <2>4. audit' = audit \cup {e}
    BY <1>1, <2>1 DEF WriteAudit
  <2>5. /\ requests' = [requests EXCEPT ![q] = Idle]
        /\ UNCHANGED <<rows, creatives, remote, had, syncs, edits>>
    BY <1>1 DEF WriteAudit
  <2> HIDE DEF e
  <2> QED
    BY <2>3, <2>4, <2>5, IdleOK, RequestMoves DEF IInv
<1>2. CASE RequestFails(q)
  BY <1>2, IdleOK, RequestMoves DEF RequestFails, IInv
<1> QED
  BY <1>1, <1>2

(* A sync moves to "new" and nothing else changes. *)
LEMMA SyncMoves ==
    ASSUME IInv, NEW s \in Syncs, NEW new, SyncOK(new, rows, remote, had),
           syncs' = [syncs EXCEPT ![s] = new],
           UNCHANGED <<rows, creatives, remote, had, requests, audit, edits>>
    PROVE  IInv'
<1>1. new \in SyncState
  BY DEF SyncOK
<1>2. /\ syncs' \in [Syncs -> SyncState]
      /\ \A t \in Syncs : syncs'[t] = syncs[t] \/ SyncOK(syncs'[t], rows', remote', had')
  BY <1>1 DEF IInv
<1>3. Keeps(rows, rows') /\ Grows(remote, remote', had, had')
  BY KeepsSame, GrowsSame
<1>4. /\ Tree(rows', remote') /\ MetaOK(remote', had') /\ Shown(rows', had')
      /\ CreativesOK(rows', creatives')
      /\ requests' \in [Requests -> RequestState]
      /\ \A q \in Requests : requests'[q] = requests[q]
      /\ audit' \subseteq Entry /\ edits' \in 0 .. MaxEdits
      /\ \A e \in audit' : e \in audit
  BY DEF IInv
<1> QED
  BY <1>2, <1>3, <1>4, StepSafe

LEMMA SyncReadSafe ==
    ASSUME IInv, NEW s \in Syncs, NEW r \in Ids, SyncRead(s, r)
    PROVE  IInv'
<1>1. PICK row : row = rows[r]
  OBVIOUS
<1> DEFINE new == [step |-> "list", id |-> r, metaId |-> row.metaId,
                   account |-> row.account, items |-> {}]
<1>2. row \in Row /\ row.metaId \in MetaCampaigns \cup MetaAdSets
      /\ HasRead(rows, r, row.metaId, row.account)
  BY <1>1, StoredLive DEF SyncRead, StoredAs
<1>3. SyncOK(new, rows, remote, had)
  BY <1>2 DEF SyncOK, SyncState, Row
<1>4. /\ syncs' = [syncs EXCEPT ![s] = new]
      /\ UNCHANGED <<rows, creatives, remote, had, requests, audit, edits>>
  BY <1>1 DEF SyncRead
<1> HIDE DEF new
<1> QED
  BY <1>3, <1>4, SyncMoves

(* What a sync goes on with: items that Meta has, below the row it read. *)
LEMMA RestOK ==
    ASSUME NEW sync, NEW rs, NEW rem, NEW hd, SyncOK(sync, rs, rem, hd), sync.step # "idle",
           NEW items \in SUBSET Item,
           \A item \in items : /\ rem[item.id] # NULL /\ rem[item.id].parent = sync.metaId
                               /\ item.status \in hd[item.id]
    PROVE  SyncOK([sync EXCEPT !.step = "upsert", !.items = items], rs, rem, hd)
<1> DEFINE new == [sync EXCEPT !.step = "upsert", !.items = items]
<1>1. sync \in SyncState
  BY DEF SyncOK
<1>2. /\ new \in SyncState /\ new.step = "upsert" /\ new.items = items /\ new.id = sync.id
      /\ new.metaId = sync.metaId /\ new.account = sync.account
  BY <1>1 DEF SyncState
<1> HIDE DEF new
<1>3. SyncOK(new, rs, rem, hd)
  BY <1>2 DEF SyncOK
<1> QED
  BY <1>3 DEF new

LEMMA SyncListSafe ==
    ASSUME IInv, NEW s \in Syncs, SyncList(s)
    PROVE  IInv'
<1>1. PICK sync : sync = syncs[s]
  OBVIOUS
<1>2. SyncOK(sync, rows, remote, had) /\ sync.step = "list"
  BY <1>1 DEF SyncList, IInv
<1>3. PICK items : items = {[id |-> m, status |-> remote[m].status] : m \in ListedUnder(sync.metaId)}
  OBVIOUS
<1>4. \A m \in ListedUnder(sync.metaId) :
         /\ m \in Below /\ remote[m] # NULL /\ remote[m].parent = sync.metaId
         /\ remote[m].status \in had[m] /\ remote[m].status \in Statuses
  BY LevelAssumption DEF ListedUnder, AtMeta, IInv, MetaOK, RemoteObject, Below
<1>5. items \in SUBSET Item
  BY <1>3, <1>4 DEF Item
<1>6. \A item \in items : /\ remote[item.id] # NULL /\ remote[item.id].parent = sync.metaId
                          /\ item.status \in had[item.id]
  BY <1>3, <1>4
<1>7. SyncOK([sync EXCEPT !.step = "upsert", !.items = items], rows, remote, had)
  BY <1>2, <1>5, <1>6, RestOK
<1>8. /\ syncs' = [syncs EXCEPT ![s] = IF items = {} THEN IdleSync
                        ELSE [sync EXCEPT !.step = "upsert", !.items = items]]
      /\ UNCHANGED <<rows, creatives, remote, had, requests, audit, edits>>
  BY <1>1, <1>3 DEF SyncList, Rest
<1> QED
  BY <1>7, <1>8, IdleSyncOK, SyncMoves

-----------------------------------------------------------------------------
(* Steps at Meta, and what handlers and people have Meta do.               *)

LEMMA MetaCreatesOK ==
    ASSUME IInv, NEW m \in Below, NEW parent \in Objects, NEW status \in Statuses,
           m \in MetaAdSets => parent \in MetaCampaigns,
           m \in MetaAds => parent \in MetaAdSets,
           MetaCreates(m, parent, status)
    PROVE  /\ MetaOK(remote', had') /\ Grows(remote, remote', had, had')
           /\ remote'[m] # NULL /\ remote'[m].parent = parent /\ status \in had'[m]
<1> DEFINE new == [parent |-> parent, status |-> status]
<1>1. new \in RemoteObject /\ new # NULL /\ new.parent = parent /\ new.status = status
  BY RowAssumption DEF RemoteObject
<1>2. /\ remote[m] = NULL
      /\ remote' = [remote EXCEPT ![m] = new]
      /\ had' = [had EXCEPT ![m] = @ \cup {status}]
  BY DEF MetaCreates
<1> HIDE DEF new
<1>3. /\ remote' \in [Below -> RemoteObject \cup {NULL}] /\ remote'[m] = new
      /\ \A n \in Below \ {m} : remote'[n] = remote[n] /\ had'[n] = had[n]
      /\ had' \in [Below -> SUBSET Statuses] /\ had'[m] = had[m] \cup {status}
  BY <1>1, <1>2 DEF IInv, MetaOK
<1>4. Grows(remote, remote', had, had')
  BY <1>2, <1>3 DEF Grows
<1>5. MetaOK(remote', had')
  BY <1>1, <1>3 DEF IInv, MetaOK
<1> QED
  BY <1>1, <1>3, <1>4, <1>5

LEMMA MetaSetsOK ==
    ASSUME IInv, NEW m \in Below, NEW status \in Statuses, remote[m] # NULL,
           MetaSets(m, status)
    PROVE  /\ MetaOK(remote', had') /\ Grows(remote, remote', had, had')
           /\ status \in had'[m]
<1>1. PICK old : old = remote[m]
  OBVIOUS
<1>2. old \in RemoteObject
  BY <1>1 DEF IInv, MetaOK
<1> DEFINE new == [old EXCEPT !.status = status]
<1>3. new \in RemoteObject /\ new # NULL /\ new.parent = old.parent /\ new.status = status
  BY <1>2, RowAssumption DEF RemoteObject
<1>4. /\ remote' = [remote EXCEPT ![m] = new]
      /\ had' = [had EXCEPT ![m] = @ \cup {status}]
  BY <1>1 DEF MetaSets
<1> HIDE DEF new
<1>5. /\ remote' \in [Below -> RemoteObject \cup {NULL}] /\ remote'[m] = new
      /\ \A n \in Below \ {m} : remote'[n] = remote[n] /\ had'[n] = had[n]
      /\ had' \in [Below -> SUBSET Statuses] /\ had'[m] = had[m] \cup {status}
  BY <1>3, <1>4 DEF IInv, MetaOK
<1>6. Grows(remote, remote', had, had')
  BY <1>1, <1>3, <1>5 DEF Grows
<1>7. MetaOK(remote', had')
  BY <1>1, <1>3, <1>5 DEF IInv, MetaOK
<1> QED
  BY <1>5, <1>6, <1>7

LEMMA TreeGrows ==
    ASSUME IInv, Grows(remote, remote', had, had')
    PROVE  Tree(rows, remote') /\ Shown(rows, had')
<1>1. \A r \in Ids : Live(rows, r) => rows[r] \in Row
  BY LiveRow DEF IInv, Tree
<1>2. Tree(rows, remote')
  BY DEF IInv, Tree, Grows
<1>3. Shown(rows, had')
  BY DEF IInv, Shown, Grows, Below
<1> QED
  BY <1>2, <1>3

(* Meta changes, and perhaps the request that made it. *)
LEMMA RemoteMoves ==
    ASSUME IInv, MetaOK(remote', had'), Grows(remote, remote', had, had'),
           UNCHANGED <<rows, creatives, syncs, audit>>, edits' \in 0 .. MaxEdits,
           \/ requests' = requests
           \/ \E q \in Requests : \E new \in RequestState :
                 /\ requests' = [requests EXCEPT ![q] = new]
                 /\ RequestOK(new, rows, remote', had')
    PROVE  IInv'
<1>1. Tree(rows', remote') /\ Shown(rows', had') /\ CreativesOK(rows', creatives')
  BY TreeGrows DEF IInv
<1>2. Keeps(rows, rows')
  BY KeepsSame
<1>3. /\ requests' \in [Requests -> RequestState]
      /\ \A q \in Requests : requests'[q] = requests[q]
                             \/ RequestOK(requests'[q], rows', remote', had')
  BY DEF IInv
<1>4. /\ syncs' \in [Syncs -> SyncState] /\ \A s \in Syncs : syncs'[s] = syncs[s]
      /\ audit' \subseteq Entry /\ \A e \in audit' : e \in audit
  BY DEF IInv
<1> QED
  BY <1>1, <1>2, <1>3, <1>4, StepSafe

LEMMA CreatePushSafe ==
    ASSUME IInv, NEW q \in Requests, NEW m \in MetaAdSets, CreatePush(q, m)
    PROVE  IInv'
<1>1. PICK req : req = requests[q]
  OBVIOUS
<1>2. RequestOK(req, rows, remote, had) /\ req.step = "push" /\ req \in RequestState
  BY <1>1 DEF CreatePush, IInv
<1>3. /\ HasRead(rows, req.id, req.metaId, req.account)
      /\ req.metaId \in MetaCampaigns /\ req.account \in Accounts
      /\ req.status \in InputStatuses /\ req.action = "CREATE"
  BY <1>2 DEF RequestOK
<1>4. /\ MetaOK(remote', had') /\ Grows(remote, remote', had, had')
      /\ remote'[m] # NULL /\ remote'[m].parent = req.metaId /\ req.status \in had'[m]
  <2>1. m \in Below /\ m \notin MetaAds /\ req.metaId \in Objects /\ req.status \in Statuses
    BY <1>3, LevelAssumption, StatusAssumption DEF Below, Objects, Statuses
  <2>2. MetaCreates(m, req.metaId, req.status)
    BY <1>1 DEF CreatePush
  <2> QED
    BY <1>3, <2>1, <2>2, MetaCreatesOK
<1> DEFINE new == [[req EXCEPT !.step = "insert"] EXCEPT !.metaId = m]
<1>5. /\ new \in RequestState /\ new.step = "insert" /\ new.metaId = m /\ new.id = req.id
      /\ new.account = req.account /\ new.status = req.status /\ new.action = req.action
  BY <1>2 DEF RequestState, Objects, Below
<1>6. /\ requests' = [requests EXCEPT ![q] = new]
      /\ UNCHANGED <<rows, creatives, syncs, audit, edits>>
  BY <1>1 DEF CreatePush, IInv
<1> HIDE DEF new
<1>7. RequestOK(new, rows, remote', had')
  BY <1>3, <1>4, <1>5 DEF RequestOK
<1> QED
  BY <1>4, <1>5, <1>6, <1>7, RemoteMoves DEF IInv

LEMMA UpdatePushSafe ==
    ASSUME IInv, NEW q \in Requests, UpdatePush(q)
    PROVE  IInv'
<1>1. PICK req : req = requests[q]
  OBVIOUS
<1>2. RequestOK(req, rows, remote, had) /\ req.step = "patch" /\ req \in RequestState
  BY <1>1 DEF UpdatePush, IInv
<1>3. /\ HasRead(rows, req.id, req.metaId, req.account)
      /\ req.metaId \in MetaAdSets /\ remote[req.metaId] # NULL
      /\ req.status \in InputStatuses /\ req.action = "UPDATE"
  BY <1>2 DEF RequestOK
<1>4. /\ MetaOK(remote', had') /\ Grows(remote, remote', had, had')
      /\ req.status \in had'[req.metaId]
  <2>1. req.metaId \in Below /\ req.status \in Statuses
    BY <1>3, StatusAssumption DEF Below, Statuses
  <2>2. MetaSets(req.metaId, req.status)
    BY <1>1 DEF UpdatePush
  <2> QED
    BY <1>3, <2>1, <2>2, MetaSetsOK
<1> DEFINE new == [req EXCEPT !.step = "write"]
<1>5. /\ new \in RequestState /\ new.step = "write" /\ new.metaId = req.metaId
      /\ new.id = req.id /\ new.account = req.account /\ new.status = req.status
      /\ new.action = req.action
  BY <1>2 DEF RequestState
<1>6. /\ requests' = [requests EXCEPT ![q] = new]
      /\ UNCHANGED <<rows, creatives, syncs, audit, edits>>
  BY <1>1 DEF UpdatePush, IInv
<1> HIDE DEF new
<1>7. RequestOK(new, rows, remote', had')
  BY <1>3, <1>4, <1>5 DEF RequestOK, Below
<1> QED
  BY <1>4, <1>5, <1>6, <1>7, RemoteMoves DEF IInv

LEMMA MetaActs ==
    ASSUME IInv, NEW m \in Below, NEW status \in MetaStatuses,
           MetaEdit(m, status) \/ \E parent \in Objects : MetaCreate(m, parent, status)
    PROVE  IInv'
<1>0. status \in Statuses
  BY DEF Statuses
<1>1. CASE MetaEdit(m, status)
  <2>1. remote[m] # NULL
    BY <1>1, LevelAssumption DEF MetaEdit, AtMeta, Below
  <2>2. MetaOK(remote', had') /\ Grows(remote, remote', had, had')
    BY <1>0, <1>1, <2>1, MetaSetsOK DEF MetaEdit
  <2> QED
    BY <1>1, <2>2, SpendOK, RemoteMoves DEF MetaEdit
<1>2. ASSUME NEW parent \in Objects, MetaCreate(m, parent, status)
      PROVE  IInv'
  <2>1. (m \in MetaAdSets => parent \in MetaCampaigns) /\ (m \in MetaAds => parent \in MetaAdSets)
    BY <1>2, LevelAssumption DEF MetaCreate
  <2>2. MetaOK(remote', had') /\ Grows(remote, remote', had, had')
    BY <1>0, <1>2, <2>1, MetaCreatesOK DEF MetaCreate
  <2> QED
    BY <1>2, <2>2, SpendOK, RemoteMoves DEF MetaCreate
<1> QED
  BY <1>1, <1>2

LEMMA CrashSafe ==
    ASSUME IInv, Crash
    PROVE  IInv'
<1>1. /\ requests' \in [Requests -> RequestState]
      /\ \A q \in Requests : requests'[q] = Idle
      /\ syncs' \in [Syncs -> SyncState]
      /\ \A s \in Syncs : syncs'[s] = IdleSync
  BY IdleOK, IdleSyncOK DEF Crash
<1>2. /\ \A q \in Requests : RequestOK(requests'[q], rows', remote', had')
      /\ \A s \in Syncs : SyncOK(syncs'[s], rows', remote', had')
  BY <1>1, IdleOK, IdleSyncOK
<1>3. UNCHANGED <<rows, creatives, remote, had, audit, edits>>
  BY DEF Crash
<1> QED
  BY <1>1, <1>2, <1>3 DEF IInv

LEMMA UploadSafe ==
    ASSUME IInv, NEW k \in Creatives, NEW a \in Accounts, UploadCreative(k, a)
    PROVE  IInv'
<1>1. /\ creatives' = [creatives EXCEPT ![k] = a] /\ a \notin {UNUSED, GONE}
      /\ UNCHANGED <<rows, remote, had, requests, syncs, audit, edits>>
  BY RowAssumption DEF UploadCreative
<1>2. \A r \in Ids : Live(rows, r) => rows[r].creative \in Creatives \cup {NULL}
  BY LiveRow DEF IInv, Tree, Row
<1>3. CreativesOK(rows', creatives')
  BY <1>1, <1>2 DEF IInv, CreativesOK, Live
<1> QED
  BY <1>1, <1>3 DEF IInv

-----------------------------------------------------------------------------
(* Steps that change rows in place.                                        *)

(* Row r becomes row2: of its place in the tree nothing changes, and if it *)
(* is an ad set, its status is still one Meta has had.                     *)
MayBecome(r, row2) ==
    /\ Live(rows, r)
    /\ row2 \in Row
    /\ row2.metaId = rows[r].metaId
    /\ row2.parent = rows[r].parent
    /\ row2.account = rows[r].account
    /\ row2.creative # NULL => rows[r].metaId \in MetaAds
    /\ \/ row2.status = rows[r].status
       \/ rows[r].metaId \in MetaAdSets =>
             \E st \in had[rows[r].metaId] : row2.status = normalizeStatus(st)

LEMMA RowsEdited ==
    ASSUME IInv, DOMAIN rows' = Ids, rows' = [r \in Ids |-> rows'[r]],
           \A r \in Ids : rows'[r] = rows[r] \/ MayBecome(r, rows'[r]),
           UNCHANGED <<remote, had>>
    PROVE  Keeps(rows, rows') /\ Tree(rows', remote') /\ Shown(rows', had')
<1>1. PICK rs2 : rs2 = rows'
  OBVIOUS
<1>2. /\ rows \in [Ids -> Row \cup {UNUSED, GONE}]
      /\ \A r \in Ids : rs2[r] = rows[r] \/ MayBecome(r, rs2[r])
      /\ rs2 = [r \in Ids |-> rs2[r]]
  BY <1>1 DEF IInv, Tree
<1>3. rs2 \in [Ids -> Row \cup {UNUSED, GONE}]
  <2>1. \A r \in Ids : rs2[r] \in Row \cup {UNUSED, GONE}
    BY <1>2 DEF MayBecome
  <2> QED
    BY <1>2, <2>1
<1>4. \A r \in Ids : /\ Live(rs2, r) <=> Live(rows, r)
                     /\ ~Live(rows, r) => rs2[r] = rows[r]
                     /\ Live(rows, r) => /\ rs2[r].metaId = rows[r].metaId
                                         /\ rs2[r].parent = rows[r].parent
                                         /\ rs2[r].account = rows[r].account
  <2> SUFFICES ASSUME NEW r \in Ids
               PROVE  /\ Live(rs2, r) <=> Live(rows, r)
                      /\ ~Live(rows, r) => rs2[r] = rows[r]
                      /\ Live(rows, r) => /\ rs2[r].metaId = rows[r].metaId
                                          /\ rs2[r].parent = rows[r].parent
                                          /\ rs2[r].account = rows[r].account
    BY Zenon
  <2>1. CASE rs2[r] = rows[r]
    BY <2>1 DEF Live
  <2>2. CASE MayBecome(r, rs2[r])
    <3>1. rs2[r] \in Row /\ Live(rows, r)
      BY <2>2 DEF MayBecome
    <3>2. Live(rs2, r)
      BY <3>1, RowAssumption DEF Live
    <3> QED
      BY <2>2, <3>1, <3>2 DEF MayBecome
  <2> QED
    BY <1>2, <2>1, <2>2
<1>5. Keeps(rows, rs2)
  <2>1. \A r \in Ids : rows[r] # UNUSED => rs2[r] # UNUSED
    BY <1>4 DEF Live
  <2>2. \A r \in Ids : rows[r] = GONE => rs2[r] = GONE
    BY <1>4 DEF Live
  <2> QED
    BY <1>4, <2>1, <2>2 DEF Keeps
<1>6. Tree(rs2, remote)
  <2>1. ASSUME NEW r \in Ids, Live(rs2, r)
        PROVE  /\ rs2[r].metaId \in MetaCampaigns <=> rs2[r].parent = NULL
               /\ rs2[r].creative # NULL => rs2[r].metaId \in MetaAds
               /\ rs2[r].metaId \in Below =>
                     /\ remote[rs2[r].metaId] # NULL
                     /\ Live(rs2, rs2[r].parent)
                     /\ rs2[rs2[r].parent].metaId = remote[rs2[r].metaId].parent
                     /\ rs2[rs2[r].parent].account = rs2[r].account
    <3>1. /\ Live(rows, r) /\ rs2[r].metaId = rows[r].metaId
          /\ rs2[r].parent = rows[r].parent /\ rs2[r].account = rows[r].account
      BY <1>4, <2>1
    <3>2. rs2[r].creative # NULL => rows[r].metaId \in MetaAds
      BY <1>2, <3>1 DEF MayBecome, IInv, Tree
    <3>3. rs2[r].metaId \in MetaCampaigns <=> rs2[r].parent = NULL
      BY <3>1 DEF IInv, Tree
    <3>4. ASSUME rows[r].metaId \in Below
          PROVE  /\ remote[rows[r].metaId] # NULL
                 /\ Live(rs2, rows[r].parent)
                 /\ rs2[rows[r].parent].metaId = remote[rows[r].metaId].parent
                 /\ rs2[rows[r].parent].account = rows[r].account
      <4>1. /\ remote[rows[r].metaId] # NULL
            /\ Live(rows, rows[r].parent)
            /\ rows[rows[r].parent].metaId = remote[rows[r].metaId].parent
            /\ rows[rows[r].parent].account = rows[r].account
            /\ rows[r].parent # NULL
        BY <3>1, <3>4, LevelAssumption DEF IInv, Tree
      <4>2. rows[r].parent \in Ids
        BY <1>2, <3>1, <4>1, LiveRow DEF Row
      <4> QED
        BY <1>4, <4>1, <4>2
    <3> QED
      BY <3>1, <3>2, <3>3, <3>4
  <2>2. \A r, s \in Ids : (Live(rs2, r) /\ Live(rs2, s) /\ r # s) => rs2[r].metaId # rs2[s].metaId
    BY <1>4 DEF IInv, Tree
  <2> QED
    BY <1>3, <2>1, <2>2 DEF Tree
<1>7. Shown(rs2, had)
  <2> SUFFICES ASSUME NEW r \in Ids, Live(rs2, r), rs2[r].metaId \in MetaAdSets
               PROVE  \E st \in had[rs2[r].metaId] : rs2[r].status = normalizeStatus(st)
    BY DEF Shown
  <2>1. Live(rows, r) /\ rs2[r].metaId = rows[r].metaId
    BY <1>4
  <2>2. \E st \in had[rows[r].metaId] : rows[r].status = normalizeStatus(st)
    BY <2>1 DEF IInv, Shown
  <2> QED
    BY <1>2, <2>1, <2>2 DEF MayBecome
<1> QED
  BY <1>1, <1>5, <1>6, <1>7

(* A status is stored in row r: one that Meta has had, or an ad's. *)
LEMMA StatusStored ==
    ASSUME IInv, NEW r \in Ids, Live(rows, r), NEW status \in AdStatus,
           rows[r].metaId \in MetaAdSets =>
              \E st \in had[rows[r].metaId] : status = normalizeStatus(st)
    PROVE  LET row2 == [rows[r] EXCEPT !.status = status]
           IN MayBecome(r, row2) /\ row2.creative = rows[r].creative
<1>1. PICK row : row = rows[r]
  OBVIOUS
<1>2. row \in Row /\ (row.creative # NULL => row.metaId \in MetaAds)
  BY <1>1, LiveRow DEF IInv, Tree
<1> DEFINE row2 == [row EXCEPT !.status = status]
<1>3. /\ row2 \in Row /\ row2.metaId = row.metaId /\ row2.parent = row.parent
      /\ row2.account = row.account /\ row2.creative = row.creative /\ row2.status = status
  BY <1>2 DEF Row
<1> HIDE DEF row2
<1>4. MayBecome(r, row2) /\ row2.creative = rows[r].creative
  BY <1>1, <1>2, <1>3 DEF MayBecome
<1> QED
  BY <1>1, <1>4 DEF row2

(* Rows whose creatives stay point at creatives that stay. *)
LEMMA CreativesSame ==
    ASSUME IInv, creatives' = creatives, Keeps(rows, rows'), Tree(rows', remote'),
           \A r \in Ids : Live(rows', r) => Live(rows, r) /\ rows'[r].creative = rows[r].creative
    PROVE  CreativesOK(rows', creatives')
BY DEF IInv, CreativesOK

LEMMA UpdateWriteSafe ==
    ASSUME IInv, NEW q \in Requests, UpdateWrite(q)
    PROVE  IInv'
<1>1. PICK req : req = requests[q]
  OBVIOUS
<1>2. RequestOK(req, rows, remote, had) /\ req.step = "write" /\ req \in RequestState
  BY <1>1 DEF UpdateWrite, IInv
<1>3. /\ HasRead(rows, req.id, req.metaId, req.account) /\ req.id \in Ids
      /\ req.metaId \in Below /\ req.status \in AdStatus /\ req.action = "UPDATE"
      /\ req.metaId \in MetaAdSets => req.status \in had[req.metaId]
  BY <1>2, StatusAssumption DEF RequestOK, HasRead
<1> DEFINE new == [req EXCEPT !.step = "audit"]
<1>4. /\ new \in RequestState /\ new.step = "audit" /\ new.id = req.id
      /\ new.status = req.status /\ new.action = req.action
  BY <1>2 DEF RequestState
<1>5. /\ requests' = [requests EXCEPT ![q] = new]
      /\ rows' = Updated(req.id, [rows[req.id] EXCEPT !.status = req.status])
      /\ UNCHANGED <<creatives, remote, had, syncs, audit, edits>>
  BY <1>1 DEF UpdateWrite, IInv
<1> HIDE DEF new
<1>6. Claim(rows, had, new.action, new.id, new.status)
  BY <1>3, <1>4 DEF Claim, HasRead
<1>7. CASE ~Live(rows, req.id)
  <2>1. rows' = rows
    BY <1>5, <1>7 DEF Updated, Stored, Live
  <2>2. RequestOK(new, rows, remote, had)
    BY <1>3, <1>4, <1>6 DEF RequestOK
  <2> QED
    BY <1>5, <2>1, <2>2, RequestMoves DEF IInv
<1>8. CASE Live(rows, req.id)
  <2>1. PICK row2 : row2 = [rows[req.id] EXCEPT !.status = req.status]
    OBVIOUS
  <2>2. MayBecome(req.id, row2) /\ row2.creative = rows[req.id].creative
    <3>1. rows[req.id].metaId \in MetaAdSets =>
             \E st \in had[rows[req.id].metaId] : req.status = normalizeStatus(st)
      BY <1>3, <1>8 DEF HasRead, normalizeStatus
    <3> QED
      BY <1>3, <1>8, <2>1, <3>1, StatusStored
  <2>3. rows' = [rows EXCEPT ![req.id] = row2]
    BY <1>5, <1>8, <2>1 DEF Updated, Stored, Live
  <2>4. /\ rows \in [Ids -> Row \cup {UNUSED, GONE}]
        /\ rows'[req.id] = row2
        /\ \A r \in Ids \ {req.id} : rows'[r] = rows[r]
    BY <1>3, <2>3 DEF IInv, Tree
  <2>5. Keeps(rows, rows') /\ Tree(rows', remote') /\ Shown(rows', had')
    <3>1. \A r \in Ids : rows'[r] = rows[r] \/ MayBecome(r, rows'[r])
      BY <2>2, <2>4
    <3>2. DOMAIN rows' = Ids /\ rows' = [r \in Ids |-> rows'[r]]
      BY <2>3, <2>4
    <3> QED
      BY <1>5, <3>1, <3>2, RowsEdited
  <2>6. CreativesOK(rows', creatives')
    <3>1. \A r \in Ids : Live(rows', r) => Live(rows, r) /\ rows'[r].creative = rows[r].creative
      BY <1>8, <2>2, <2>4 DEF Live
    <3> QED
      BY <1>5, <2>5, <3>1, CreativesSame
  <2>7. Grows(remote, remote', had, had')
    BY <1>5, GrowsSame
  <2>8. Claim(rows', had', new.action, new.id, new.status)
    BY <1>6, <2>4, <2>5, <2>7, ClaimStays
  <2>9. RequestOK(new, rows', remote', had')
    BY <1>3, <1>4, <2>8 DEF RequestOK
  <2>10. /\ requests' \in [Requests -> RequestState]
         /\ \A p \in Requests : requests'[p] = requests[p]
                                \/ RequestOK(requests'[p], rows', remote', had')
    BY <1>4, <1>5, <2>9 DEF IInv
  <2>11. /\ MetaOK(remote', had') /\ edits' \in 0 .. MaxEdits
         /\ syncs' \in [Syncs -> SyncState] /\ \A s \in Syncs : syncs'[s] = syncs[s]
         /\ audit' \subseteq Entry /\ \A e \in audit' : e \in audit
    BY <1>5 DEF IInv
  <2> QED
    BY <2>5, <2>6, <2>7, <2>10, <2>11, StepSafe
<1> QED
  BY <1>7, <1>8

(* Rows change, and the request or the sync that changed them goes on. *)
LEMMA RowsMove ==
    ASSUME IInv, Keeps(rows, rows'), Tree(rows', remote'), Shown(rows', had'),
           CreativesOK(rows', creatives'), UNCHANGED <<remote, had, audit, edits>>,
           \/ requests' = requests
           \/ \E q \in Requests : \E new \in RequestState :
                 /\ requests' = [requests EXCEPT ![q] = new]
                 /\ RequestOK(new, rows', remote', had'),
           \/ syncs' = syncs
           \/ \E s \in Syncs : \E new \in SyncState :
                 /\ syncs' = [syncs EXCEPT ![s] = new]
                 /\ SyncOK(new, rows', remote', had')
    PROVE  IInv'
<1>1. /\ requests' \in [Requests -> RequestState]
      /\ \A q \in Requests : requests'[q] = requests[q]
                             \/ RequestOK(requests'[q], rows', remote', had')
  BY DEF IInv
<1>2. /\ syncs' \in [Syncs -> SyncState]
      /\ \A s \in Syncs : syncs'[s] = syncs[s] \/ SyncOK(syncs'[s], rows', remote', had')
  BY DEF IInv
<1>3. /\ MetaOK(remote', had') /\ edits' \in 0 .. MaxEdits
      /\ audit' \subseteq Entry /\ \A e \in audit' : e \in audit
  BY DEF IInv
<1>4. Grows(remote, remote', had, had')
  BY GrowsSame
<1> QED
  BY <1>1, <1>2, <1>3, <1>4, StepSafe

LEMMA WebhookSafe ==
    ASSUME IInv, NEW m \in Below, NEW status \in had[m], Webhook(m, status)
    PROVE  IInv'
<1>1. /\ rows' = [r \in Ids |-> IF StoredAs(r, {m})
                              THEN [rows[r] EXCEPT !.status = WebhookStatus(status, @)]
                              ELSE rows[r]]
      /\ UNCHANGED <<creatives, remote, had, requests, syncs, audit, edits>>
  BY DEF Webhook
<1>2. ASSUME NEW r \in Ids
      PROVE  /\ rows'[r] = rows[r] \/ MayBecome(r, rows'[r])
             /\ Live(rows', r) => Live(rows, r) /\ rows'[r].creative = rows[r].creative
  <2>1. CASE ~StoredAs(r, {m})
    <3>1. rows'[r] = rows[r]
      BY <1>1, <2>1
    <3> QED
      BY <3>1 DEF Live
  <2>2. CASE StoredAs(r, {m})
    <3>1. PICK row : row = rows[r]
      OBVIOUS
    <3>2. /\ row \in Row /\ Live(rows, r) /\ row.metaId = m
          /\ row.creative # NULL => row.metaId \in MetaAds
      BY <2>2, <3>1, StoredLive DEF StoredAs, IInv, Tree
    <3>3. PICK st : st = WebhookStatus(status, row.status)
      OBVIOUS
    <3> DEFINE row2 == [row EXCEPT !.status = st]
    <3>4. /\ st \in AdStatus \cup {NULL}
          /\ st = row.status \/ st = normalizeStatus(status)
      BY <3>2, <3>3 DEF WebhookStatus, normalizeStatus, Row
    <3>5. /\ row2 \in Row /\ row2.metaId = row.metaId /\ row2.parent = row.parent
          /\ row2.account = row.account /\ row2.creative = row.creative /\ row2.status = st
      BY <3>2, <3>4 DEF Row
    <3>6. rows'[r] = row2
      BY <1>1, <2>2, <3>1, <3>3
    <3> HIDE DEF row2
    <3>7. MayBecome(r, row2)
      BY <3>1, <3>2, <3>4, <3>5 DEF MayBecome
    <3> QED
      BY <3>1, <3>2, <3>5, <3>6, <3>7
  <2> QED
    BY <2>1, <2>2
<1>3. Keeps(rows, rows') /\ Tree(rows', remote') /\ Shown(rows', had')
  <2>1. DOMAIN rows' = Ids /\ rows' = [r \in Ids |-> rows'[r]]
    BY <1>1
  <2> QED
    BY <1>1, <1>2, <2>1, RowsEdited
<1>4. CreativesOK(rows', creatives')
  BY <1>1, <1>2, <1>3, CreativesSame
<1> QED
  BY <1>1, <1>3, <1>4, RowsMove

(* One row is written: it becomes row2, or nothing when it is gone. *)
LEMMA RowWritten ==
    ASSUME IInv, NEW r \in Ids, NEW row2, MayBecome(r, row2),
           rows' = [rows EXCEPT ![r] = row2], UNCHANGED <<remote, had>>
    PROVE  /\ Keeps(rows, rows') /\ Tree(rows', remote') /\ Shown(rows', had')
           /\ rows'[r] = row2
           /\ \A x \in Ids \ {r} : rows'[x] = rows[x]
<1>1. /\ rows \in [Ids -> Row \cup {UNUSED, GONE}]
      /\ rows'[r] = row2
      /\ \A x \in Ids \ {r} : rows'[x] = rows[x]
      /\ DOMAIN rows' = Ids /\ rows' = [x \in Ids |-> rows'[x]]
  BY DEF IInv, Tree
<1>2. \A x \in Ids : rows'[x] = rows[x] \/ MayBecome(x, rows'[x])
  BY <1>1
<1> QED
  BY <1>1, <1>2, RowsEdited

LEMMA AttachSafe ==
    ASSUME IInv, NEW q \in Requests, Attach(q)
    PROVE  IInv'
<1>1. PICK req : req = requests[q]
  OBVIOUS
<1>2. RequestOK(req, rows, remote, had) /\ req.step = "attach" /\ req \in RequestState
  BY <1>1 DEF Attach, IInv
<1>3. /\ req.id \in Ids /\ req.creative \in Creatives
      /\ Live(rows, req.id) => rows[req.id].metaId \in MetaAds
  BY <1>2 DEF RequestOK
<1>4. /\ requests' = [requests EXCEPT ![q] = Idle]
      /\ rows' = Updated(req.id, [rows[req.id] EXCEPT !.creative = req.creative])
      /\ Uploaded(req.creative)
      /\ UNCHANGED <<creatives, remote, had, syncs, audit, edits>>
  BY <1>1 DEF Attach
<1>5. CASE ~Live(rows, req.id)
  <2>1. rows' = rows
    BY <1>4, <1>5 DEF Updated, Stored, Live
  <2> QED
    BY <1>4, <2>1, IdleOK, RequestMoves DEF IInv
<1>6. CASE Live(rows, req.id)
  <2>1. PICK row : row = rows[req.id]
    OBVIOUS
  <2>2. row \in Row /\ row.metaId \in MetaAds
    BY <1>3, <1>6, <2>1, LiveRow DEF IInv, Tree
  <2> DEFINE row2 == [row EXCEPT !.creative = req.creative]
  <2>3. /\ row2 \in Row /\ row2.metaId = row.metaId /\ row2.parent = row.parent
        /\ row2.account = row.account /\ row2.status = row.status
        /\ row2.creative = req.creative
    BY <1>3, <2>2 DEF Row
  <2>4. rows' = [rows EXCEPT ![req.id] = row2]
    BY <1>4, <1>6, <2>1 DEF Updated, Stored, Live
  <2> HIDE DEF row2
  <2>5. MayBecome(req.id, row2)
    BY <1>6, <2>1, <2>2, <2>3 DEF MayBecome
  <2>6. /\ Keeps(rows, rows') /\ Tree(rows', remote') /\ Shown(rows', had')
        /\ rows'[req.id] = row2
        /\ \A x \in Ids \ {req.id} : rows'[x] = rows[x]
    BY <1>3, <1>4, <2>4, <2>5, RowWritten
  <2>7. CreativesOK(rows', creatives')
    <3>1. \A x \in Ids \ {req.id} : Live(rows', x) <=> Live(rows, x)
      BY <2>6 DEF Live
    <3>2. Live(creatives, req.creative)
      BY <1>4 DEF Uploaded, Live
    <3> QED
      BY <1>3, <1>4, <2>3, <2>6, <3>1, <3>2 DEF CreativesOK, IInv
  <2> QED
    BY <1>4, <2>6, <2>7, IdleOK, RowsMove
<1> QED
  BY <1>5, <1>6

LEMMA DeleteCreativeSafe ==
    ASSUME IInv, NEW k \in Creatives, DeleteCreative(k)
    PROVE  IInv'
<1>1. /\ creatives' = [creatives EXCEPT ![k] = GONE]
      /\ rows' = [r \in Ids |-> IF Stored(r) /\ rows[r].creative = k
                                THEN [rows[r] EXCEPT !.creative = NULL]
                                ELSE rows[r]]
      /\ UNCHANGED <<remote, had, requests, syncs, audit, edits>>
  BY DEF DeleteCreative
<1>2. ASSUME NEW r \in Ids
      PROVE  /\ rows'[r] = rows[r] \/ MayBecome(r, rows'[r])
             /\ Live(rows', r) => /\ Live(rows, r) /\ rows'[r].creative # k
                                  /\ rows'[r].creative \in {rows[r].creative, NULL}
  <2>0. k # NULL
    BY LevelAssumption
  <2>1. CASE ~(Stored(r) /\ rows[r].creative = k)
    <3>1. rows'[r] = rows[r]
      BY <1>1, <2>1
    <3> QED
      BY <2>1, <3>1 DEF Live, Stored
  <2>2. CASE Stored(r) /\ rows[r].creative = k
    <3>1. PICK row : row = rows[r]
      OBVIOUS
    <3>2. row \in Row /\ Live(rows, r)
      BY <2>2, <3>1, StoredLive
    <3> DEFINE row2 == [row EXCEPT !.creative = NULL]
    <3>3. /\ row2 \in Row /\ row2.metaId = row.metaId /\ row2.parent = row.parent
          /\ row2.account = row.account /\ row2.creative = NULL /\ row2.status = row.status
      BY <3>2 DEF Row
    <3>4. rows'[r] = row2
      BY <1>1, <2>2, <3>1
    <3> HIDE DEF row2
    <3>5. MayBecome(r, row2)
      BY <3>1, <3>2, <3>3 DEF MayBecome
    <3> QED
      BY <2>0, <3>2, <3>3, <3>4, <3>5
  <2> QED
    BY <2>1, <2>2
<1>3. Keeps(rows, rows') /\ Tree(rows', remote') /\ Shown(rows', had')
  <2>1. DOMAIN rows' = Ids /\ rows' = [r \in Ids |-> rows'[r]]
    BY <1>1
  <2> QED
    BY <1>1, <1>2, <2>1, RowsEdited
<1>4. CreativesOK(rows', creatives')
  <2>1. /\ creatives' \in [Creatives -> Accounts \cup {UNUSED, GONE}]
        /\ \A c : c # k => (Live(creatives, c) => Live(creatives', c))
    BY <1>1 DEF IInv, CreativesOK, Live
  <2>2. ASSUME NEW r \in Ids, Live(rows', r), rows'[r].creative # NULL
        PROVE  Live(creatives', rows'[r].creative)
    <3>1. PICK c : c = rows'[r].creative
      OBVIOUS
    <3>2. Live(rows, r) /\ c = rows[r].creative /\ c # k /\ c # NULL
      BY <1>2, <2>2, <3>1
    <3>3. Live(creatives, c)
      BY <3>2 DEF IInv, CreativesOK
    <3> QED
      BY <2>1, <3>1, <3>2, <3>3
  <2> QED
    BY <2>1, <2>2 DEF CreativesOK
<1> QED
  BY <1>1, <1>3, <1>4, RowsMove

-----------------------------------------------------------------------------
(* Steps that insert rows.                                                 *)

LEMMA InsertOK ==
    ASSUME IInv, NEW m \in Objects, NEW parent \in Ids \cup {NULL}, NEW account \in Accounts,
           NEW status \in AdStatus \cup {NULL}, UnusedIds # {}, ~Mirrored(m),
           m \in MetaCampaigns <=> parent = NULL,
           m \in Below => /\ remote[m] # NULL /\ Live(rows, parent)
                          /\ rows[parent].metaId = remote[m].parent
                          /\ rows[parent].account = account,
           m \in MetaAdSets => \E st \in had[m] : status = normalizeStatus(st),
           rows' = Inserted(m, parent, account, status), UNCHANGED <<creatives, remote, had>>
    PROVE  /\ Keeps(rows, rows') /\ Tree(rows', remote') /\ Shown(rows', had')
           /\ CreativesOK(rows', creatives')
           /\ NewId \in Ids /\ Live(rows', NewId) /\ rows'[NewId].metaId = m
<1>1. PICK n : n = NewId
  OBVIOUS
<1>2. n \in Ids /\ rows[n] = UNUSED /\ ~Live(rows, n)
  BY <1>1 DEF NewId, UnusedIds, Live
<1>3. PICK row : row = [metaId |-> m, parent |-> parent, account |-> account,
                        status |-> status, creative |-> NULL]
  OBVIOUS
<1>4. /\ row \in Row /\ row.metaId = m /\ row.parent = parent /\ row.account = account
      /\ row.status = status /\ row.creative = NULL /\ row \notin {UNUSED, GONE}
  BY <1>3, RowAssumption DEF Row
<1>5. PICK rs2 : rs2 = rows'
  OBVIOUS
<1>6. /\ rows \in [Ids -> Row \cup {UNUSED, GONE}]
      /\ rs2 = [rows EXCEPT ![n] = row]
  BY <1>1, <1>3, <1>5 DEF IInv, Tree, Inserted
<1>7. /\ rs2 \in [Ids -> Row \cup {UNUSED, GONE}]
      /\ rs2[n] = row /\ Live(rs2, n)
      /\ \A x \in Ids \ {n} : rs2[x] = rows[x] /\ (Live(rs2, x) <=> Live(rows, x))
  BY <1>2, <1>4, <1>6 DEF Live
<1>8. \A x \in Ids : Live(rows, x) => /\ x # n /\ rows[x] \in Row /\ rows[x].metaId # m
  BY <1>2, <1>6, LiveRow DEF Mirrored, StoredAs, Stored, Live
<1>9. parent # NULL => Live(rows, parent)
  BY DEF Objects
<1>10. Keeps(rows, rs2)
  BY <1>2, <1>4, <1>7, <1>9, RowAssumption DEF Keeps, Live
<1>11. Tree(rs2, remote)
  <2>1. ASSUME NEW r \in Ids, Live(rs2, r)
        PROVE  /\ rs2[r].metaId \in MetaCampaigns <=> rs2[r].parent = NULL
               /\ rs2[r].creative # NULL => rs2[r].metaId \in MetaAds
               /\ rs2[r].metaId \in Below =>
                     /\ remote[rs2[r].metaId] # NULL
                     /\ Live(rs2, rs2[r].parent)
                     /\ rs2[rs2[r].parent].metaId = remote[rs2[r].metaId].parent
                     /\ rs2[rs2[r].parent].account = rs2[r].account
    <3>1. CASE r = n
      <4>1. m \in Below => /\ parent \in Ids /\ parent # n /\ Live(rs2, parent)
                           /\ rs2[parent] = rows[parent]
        BY <1>2, <1>7, LevelAssumption
      <4> QED
        BY <1>4, <1>7, <3>1, <4>1
    <3>2. CASE r # n
      <4>1. Live(rows, r) /\ rs2[r] = rows[r]
        BY <1>7, <2>1, <3>2
      <4>2. rows[r].metaId \in Below => /\ rows[r].parent \in Ids \ {n}
                                        /\ Live(rows, rows[r].parent)
        <5>1. rows[r].metaId \in Below => rows[r].parent # NULL /\ Live(rows, rows[r].parent)
          BY <4>1, LevelAssumption DEF IInv, Tree
        <5> QED
          BY <1>8, <4>1, <5>1 DEF Row
      <4> QED
        BY <1>7, <4>1, <4>2 DEF IInv, Tree
    <3> QED
      BY <3>1, <3>2
  <2>2. \A r, s \in Ids : (Live(rs2, r) /\ Live(rs2, s) /\ r # s) => rs2[r].metaId # rs2[s].metaId
    BY <1>4, <1>7, <1>8 DEF IInv, Tree
  <2> QED
    BY <1>7, <2>1, <2>2 DEF Tree
<1>12. Shown(rs2, had)
  BY <1>4, <1>7 DEF Shown, IInv
<1>13. CreativesOK(rs2, creatives)
  BY <1>4, <1>7 DEF CreativesOK, IInv
<1> QED
  BY <1>1, <1>2, <1>4, <1>5, <1>7, <1>10, <1>11, <1>12, <1>13

LEMMA CampaignStoredSafe ==
    ASSUME IInv, NEW m \in MetaCampaigns, CampaignStored(m)
    PROVE  IInv'
<1>1. /\ ~Mirrored(m) /\ UnusedIds # {}
      /\ rows' = Inserted(m, NULL, AccountOf[m], NULL)
      /\ UNCHANGED <<creatives, remote, had, requests, syncs, audit, edits>>
  BY DEF CampaignStored
<1>2. m \in Objects /\ m \notin Below /\ m \notin MetaAdSets /\ AccountOf[m] \in Accounts
  BY AccountAssumption, LevelAssumption DEF Objects, Below
<1>3. /\ Keeps(rows, rows') /\ Tree(rows', remote') /\ Shown(rows', had')
      /\ CreativesOK(rows', creatives')
  BY <1>1, <1>2, InsertOK
<1> QED
  BY <1>1, <1>3, RowsMove

LEMMA CreateInsertSafe ==
    ASSUME IInv, NEW q \in Requests, CreateInsert(q)
    PROVE  IInv'
<1>1. PICK req, n : req = requests[q] /\ n = NewId
  OBVIOUS
<1>2. RequestOK(req, rows, remote, had) /\ req.step = "insert" /\ req \in RequestState
  BY <1>1 DEF CreateInsert, IInv
<1>3. /\ req.metaId \in MetaAdSets /\ remote[req.metaId] # NULL
      /\ HasRead(rows, req.id, remote[req.metaId].parent, req.account)
      /\ req.account \in Accounts /\ req.status \in InputStatuses
      /\ req.status \in had[req.metaId] /\ req.action = "CREATE"
  BY <1>2 DEF RequestOK
<1>4. /\ ~Mirrored(req.metaId) /\ UnusedIds # {} /\ Live(rows, req.id)
      /\ rows' = Inserted(req.metaId, req.id, req.account, req.status)
      /\ requests' = [requests EXCEPT ![q].step = "audit", ![q].id = n]
      /\ UNCHANGED <<creatives, remote, had, syncs, audit, edits>>
  BY <1>1 DEF CreateInsert, MayInsert, Stored, Live
<1>5. /\ Keeps(rows, rows') /\ Tree(rows', remote') /\ Shown(rows', had')
      /\ CreativesOK(rows', creatives')
      /\ n \in Ids /\ Live(rows', n) /\ rows'[n].metaId = req.metaId
  <2>1. /\ req.metaId \in Objects /\ req.metaId \in Below /\ req.metaId \notin MetaCampaigns
        /\ req.id \in Ids /\ req.id # NULL /\ req.status \in AdStatus
    BY <1>3, LevelAssumption, StatusAssumption DEF Objects, Below, HasRead
  <2>2. /\ rows[req.id].metaId = remote[req.metaId].parent
        /\ rows[req.id].account = req.account
    BY <1>3, <1>4 DEF HasRead
  <2>3. \E st \in had[req.metaId] : req.status = normalizeStatus(st)
    BY <1>3, <2>1 DEF normalizeStatus
  <2> QED
    BY <1>1, <1>3, <1>4, <2>1, <2>2, <2>3, InsertOK
<1> DEFINE new == [[req EXCEPT !.step = "audit"] EXCEPT !.id = n]
<1>6. /\ new \in RequestState /\ new.step = "audit" /\ new.id = n
      /\ new.status = req.status /\ new.action = req.action
  BY <1>2, <1>5 DEF RequestState
<1>7. requests' = [requests EXCEPT ![q] = new]
  BY <1>1, <1>4 DEF IInv
<1> HIDE DEF new
<1>8. RequestOK(new, rows', remote', had')
  <2>1. Claim(rows', had', new.action, new.id, new.status)
    BY <1>3, <1>4, <1>5, <1>6 DEF Claim, Live
  <2> QED
    BY <1>3, <1>6, <2>1 DEF RequestOK
<1> QED
  BY <1>4, <1>5, <1>6, <1>7, <1>8, RowsMove

-----------------------------------------------------------------------------
(* Upserts of a sync.                                                      *)

(* With the item done, the sync goes on as before. *)
LEMMA ItemDone ==
    ASSUME IInv, NEW s \in Syncs, NEW item \in syncs[s].items,
           Keeps(rows, rows'), UNCHANGED <<remote, had>>,
           syncs' = [syncs EXCEPT ![s] = Rest(s, @.items \ {item})]
    PROVE  \E new \in SyncState : /\ syncs' = [syncs EXCEPT ![s] = new]
                                  /\ SyncOK(new, rows', remote', had')
<1>1. PICK sync : sync = syncs[s]
  OBVIOUS
<1>2. PICK items : items = sync.items \ {item}
  OBVIOUS
<1>3. SyncOK(sync, rows, remote, had) /\ sync.items # {}
  BY <1>1 DEF IInv
<1>4. SyncOK(sync, rows', remote', had')
  BY <1>3, GrowsSame, SyncStays
<1>5. /\ sync.step # "idle" /\ items \in SUBSET Item
      /\ \A i \in items : /\ remote'[i.id] # NULL /\ remote'[i.id].parent = sync.metaId
                          /\ i.status \in had'[i.id]
  BY <1>2, <1>3, <1>4 DEF SyncOK, SyncState
<1>6. SyncOK([sync EXCEPT !.step = "upsert", !.items = items], rows', remote', had')
  BY <1>4, <1>5, RestOK
<1>7. PICK new : new = IF items = {} THEN IdleSync
                       ELSE [sync EXCEPT !.step = "upsert", !.items = items]
  OBVIOUS
<1>8. SyncOK(new, rows', remote', had')
  BY <1>6, <1>7, IdleSyncOK
<1>9. new \in SyncState
  BY <1>8 DEF SyncOK
<1>10. syncs' = [syncs EXCEPT ![s] = new]
  BY <1>1, <1>2, <1>7 DEF Rest
<1> QED
  BY <1>8, <1>9, <1>10

LEMMA UpsertFailsSafe ==
    ASSUME IInv, NEW s \in Syncs, NEW item \in syncs[s].items, UpsertFails(s, item)
    PROVE  IInv'
<1>1. UNCHANGED <<rows, creatives, remote, had, requests, audit, edits>>
  BY DEF UpsertFails
<1>2. Keeps(rows, rows')
  BY <1>1, KeepsSame
<1>3. \E new \in SyncState : /\ syncs' = [syncs EXCEPT ![s] = new]
                             /\ SyncOK(new, rows', remote', had')
  BY <1>1, <1>2, ItemDone DEF UpsertFails
<1> QED
  BY <1>1, <1>3, SyncMoves

LEMMA SyncUpsertSafe ==
    ASSUME IInv, NEW s \in Syncs, NEW item \in syncs[s].items, SyncUpsert(s, item)
    PROVE  IInv'
<1>1. PICK sync : sync = syncs[s]
  OBVIOUS
<1>2. SyncOK(sync, rows, remote, had) /\ item \in sync.items
  BY <1>1 DEF IInv
<1>3. /\ item.id \in Below /\ sync.step # "idle"
      /\ HasRead(rows, sync.id, sync.metaId, sync.account) /\ sync.account \in Accounts
      /\ remote[item.id] # NULL /\ remote[item.id].parent = sync.metaId
      /\ item.status \in had[item.id]
  BY <1>2 DEF SyncOK, SyncState, Item
<1>4. PICK status : status = normalizeStatus(item.status)
  OBVIOUS
<1>5. status \in AdStatus /\ \E st \in had[item.id] : status = normalizeStatus(st)
  BY <1>3, <1>4 DEF normalizeStatus, AdStatus
<1>6. UNCHANGED <<creatives, remote, had, requests, audit, edits>>
  BY DEF SyncUpsert
<1>7. /\ Keeps(rows, rows') /\ Tree(rows', remote') /\ Shown(rows', had')
      /\ CreativesOK(rows', creatives')
  <2>1. ASSUME NEW r \in Ids, StoredAs(r, {item.id}),
               rows' = [rows EXCEPT ![r].status = status]
        PROVE  /\ Keeps(rows, rows') /\ Tree(rows', remote') /\ Shown(rows', had')
               /\ CreativesOK(rows', creatives')
    <3>1. Live(rows, r) /\ rows[r].metaId = item.id
      BY <2>1 DEF StoredAs, Stored, Live
    <3>2. PICK row2 : row2 = [rows[r] EXCEPT !.status = status]
      OBVIOUS
    <3>3. MayBecome(r, row2) /\ row2.creative = rows[r].creative
      BY <1>5, <3>1, <3>2, StatusStored
    <3>4. rows' = [rows EXCEPT ![r] = row2]
      BY <2>1, <3>2
    <3>5. /\ Keeps(rows, rows') /\ Tree(rows', remote') /\ Shown(rows', had')
          /\ rows'[r] = row2 /\ \A x \in Ids \ {r} : rows'[x] = rows[x]
      BY <1>6, <3>3, <3>4, RowWritten
    <3>6. \A x \in Ids : Live(rows', x) => Live(rows, x) /\ rows'[x].creative = rows[x].creative
      BY <3>1, <3>3, <3>5 DEF Live
    <3> QED
      BY <1>6, <3>5, <3>6, CreativesSame
  <2>2. ASSUME MayInsert(item.id, sync.id),
               rows' = Inserted(item.id, sync.id, sync.account, status)
        PROVE  /\ Keeps(rows, rows') /\ Tree(rows', remote') /\ Shown(rows', had')
               /\ CreativesOK(rows', creatives')
    <3>1. ~Mirrored(item.id) /\ UnusedIds # {} /\ Live(rows, sync.id)
      BY <2>2 DEF MayInsert, Stored, Live
    <3>2. /\ item.id \in Objects /\ item.id \notin MetaCampaigns
          /\ sync.id \in Ids /\ sync.id # NULL
      BY <1>3, LevelAssumption DEF Objects, Below, HasRead
    <3>3. /\ rows[sync.id].metaId = remote[item.id].parent
          /\ rows[sync.id].account = sync.account
      BY <1>3, <3>1 DEF HasRead
    <3> QED
      BY <1>3, <1>5, <1>6, <2>2, <3>1, <3>2, <3>3, InsertOK
  <2> QED
    BY <1>1, <1>4, <2>1, <2>2 DEF SyncUpsert
<1>8. \E new \in SyncState : /\ syncs' = [syncs EXCEPT ![s] = new]
                             /\ SyncOK(new, rows', remote', had')
  BY <1>6, <1>7, ItemDone DEF SyncUpsert
<1> QED
  BY <1>6, <1>7, <1>8, RowsMove

-----------------------------------------------------------------------------
(* Deletes.                                                                *)

(* Nothing that stays is below a row that a delete takes: the tree is      *)
(* three levels deep, and so is Cascade.                                   *)
LEMMA CascadeClosed ==
    ASSUME IInv, NEW r \in Ids, NEW x \in Ids, Live(rows, x), rows[x].parent \in Cascade(r)
    PROVE  x \in Cascade(r)
<1>1. \A y \in Ids : Live(rows, y) => rows[y] \in Row
  BY LiveRow DEF IInv, Tree
<1>2. ASSUME NEW y \in Ids, Live(rows, y), rows[y].parent \in Ids
      PROVE  /\ rows[y].metaId \in Below /\ remote[rows[y].metaId] # NULL
             /\ Live(rows, rows[y].parent)
             /\ rows[rows[y].parent].metaId = remote[rows[y].metaId].parent
  <2>1. rows[y].metaId \notin MetaCampaigns
    BY <1>2, LevelAssumption DEF IInv, Tree
  <2>2. rows[y].metaId \in Below
    BY <1>1, <1>2, <2>1 DEF Row, Objects
  <2> QED
    BY <1>2, <2>2 DEF IInv, Tree
<1>3. PICK children : children = ChildrenOf({r})
  OBVIOUS
<1>4. Cascade(r) = {r} \cup children \cup ChildrenOf(children) /\ children \subseteq Ids
  BY <1>3 DEF Cascade, ChildrenOf
<1>5. CASE rows[x].parent \in {r} \cup children
  BY <1>3, <1>4, <1>5 DEF ChildrenOf, Stored, Live
<1>6. ASSUME NEW y \in ChildrenOf(children), rows[x].parent = y
      PROVE  FALSE
  <2>1. y \in Ids /\ Live(rows, y) /\ rows[y].parent \in children
    BY DEF ChildrenOf, Stored, Live
  <2>2. PICK z : z = rows[y].parent
    OBVIOUS
  <2>3. z \in Ids /\ Live(rows, z) /\ rows[z].parent = r
    BY <1>3, <2>1, <2>2 DEF ChildrenOf, Stored, Live
  <2>4. rows[z].metaId \in Below
    BY <1>2, <2>3
  <2>5. rows[y].metaId \in Below /\ remote[rows[y].metaId] # NULL
        /\ remote[rows[y].metaId].parent \in Below
    BY <1>2, <2>1, <2>2, <2>3, <2>4
  <2>6. rows[y].metaId \in MetaAds
    BY <2>5, LevelAssumption DEF IInv, MetaOK, Below
  <2>7. rows[x].metaId \in Below /\ remote[rows[x].metaId] # NULL
        /\ remote[rows[x].metaId].parent \in MetaAds
    BY <1>2, <1>6, <2>1, <2>6
  <2> QED
    BY <2>7, LevelAssumption DEF IInv, MetaOK, Below
<1> QED
  BY <1>4, <1>5, <1>6

LEMMA CascadeOK ==
    ASSUME IInv, NEW r \in Ids, rows' = Without(Cascade(r)), UNCHANGED <<creatives, remote, had>>
    PROVE  /\ Keeps(rows, rows') /\ Tree(rows', remote') /\ Shown(rows', had')
           /\ CreativesOK(rows', creatives')
           /\ rows'[r] = GONE /\ \A x \in Ids : Live(rows', x) => rows'[x].parent # r
<1>1. PICK gone, rs2 : gone = Cascade(r) /\ rs2 = rows'
  OBVIOUS
<1>2. rows \in [Ids -> Row \cup {UNUSED, GONE}] /\ rs2 \in [Ids -> Row \cup {UNUSED, GONE}]
      /\ \A x \in Ids : rs2[x] = IF x \in gone THEN GONE ELSE rows[x]
  BY <1>1 DEF Without, IInv, Tree
<1>3. \A x \in Ids : Live(rs2, x) => x \notin gone /\ rs2[x] = rows[x] /\ Live(rows, x)
  BY <1>2 DEF Live
<1>4. \A x \in Ids \ gone : rs2[x] = rows[x] /\ (Live(rows, x) => Live(rs2, x))
  BY <1>2 DEF Live
<1>5. \A x \in Ids : (Live(rows, x) /\ x \notin gone) => rows[x].parent \notin gone
  BY <1>1, CascadeClosed
<1>6. r \in gone
  BY <1>1 DEF Cascade
<1>7. Keeps(rows, rs2)
  <2>1. \A x \in Ids : /\ rows[x] = GONE => rs2[x] = GONE
                       /\ rows[x] # UNUSED => rs2[x] # UNUSED
    BY <1>2, RowAssumption
  <2> QED
    BY <1>3, <2>1 DEF Keeps
<1>8. Tree(rs2, remote)
  <2>1. ASSUME NEW x \in Ids, Live(rs2, x)
        PROVE  /\ rs2[x].metaId \in MetaCampaigns <=> rs2[x].parent = NULL
               /\ rs2[x].creative # NULL => rs2[x].metaId \in MetaAds
               /\ rs2[x].metaId \in Below =>
                     /\ remote[rs2[x].metaId] # NULL
                     /\ Live(rs2, rs2[x].parent)
                     /\ rs2[rs2[x].parent].metaId = remote[rs2[x].metaId].parent
                     /\ rs2[rs2[x].parent].account = rs2[x].account
    <3>1. Live(rows, x) /\ rs2[x] = rows[x] /\ x \notin gone
      BY <1>3, <2>1
    <3>2. rows[x].metaId \in Below => rows[x].parent \in Ids \ gone
      <4>1. rows[x].metaId \in Below => rows[x].parent # NULL
        BY <3>1, LevelAssumption DEF IInv, Tree
      <4>2. rows[x] \in Row
        BY <1>2, <3>1, LiveRow
      <4> QED
        BY <1>5, <3>1, <4>1, <4>2 DEF Row
    <3> QED
      BY <1>4, <3>1, <3>2 DEF IInv, Tree
  <2>2. \A x, y \in Ids : (Live(rs2, x) /\ Live(rs2, y) /\ x # y) => rs2[x].metaId # rs2[y].metaId
    BY <1>3 DEF IInv, Tree
  <2> QED
    BY <1>2, <2>1, <2>2 DEF Tree
<1>9. Shown(rs2, had)
  BY <1>3 DEF Shown, IInv
<1>10. CreativesOK(rs2, creatives)
  BY <1>3 DEF CreativesOK, IInv
<1>11. rs2[r] = GONE /\ \A x \in Ids : Live(rs2, x) => rs2[x].parent # r
  BY <1>2, <1>3, <1>5, <1>6
<1> QED
  BY <1>1, <1>7, <1>8, <1>9, <1>10, <1>11

LEMMA DeleteRowSafe ==
    ASSUME IInv, NEW q \in Requests, DeleteRow(q)
    PROVE  IInv'
<1>1. PICK req : req = requests[q]
  OBVIOUS
<1>2. RequestOK(req, rows, remote, had) /\ req.step = "delete" /\ req \in RequestState
  BY <1>1 DEF DeleteRow, IInv
<1>3. req.id \in Ids /\ rows[req.id] # UNUSED /\ req.action = "DELETE"
  BY <1>2 DEF RequestOK
<1> DEFINE new == [req EXCEPT !.step = "audit"]
<1>4. new \in RequestState /\ new.step = "audit" /\ new.id = req.id /\ new.action = "DELETE"
  BY <1>2, <1>3 DEF RequestState
<1>5. /\ requests' = [requests EXCEPT ![q] = new]
      /\ rows' = Without(Cascade(req.id))
      /\ UNCHANGED <<creatives, remote, had, syncs, audit, edits>>
  BY <1>1 DEF DeleteRow, IInv
<1> HIDE DEF new
<1>6. /\ Keeps(rows, rows') /\ Tree(rows', remote') /\ Shown(rows', had')
      /\ CreativesOK(rows', creatives')
      /\ rows'[req.id] = GONE /\ \A x \in Ids : Live(rows', x) => rows'[x].parent # req.id
  BY <1>3, <1>5, CascadeOK
<1>7. Claim(rows', had', new.action, new.id, new.status)
  BY <1>3, <1>4, <1>6, RowAssumption DEF Claim
<1>8. RequestOK(new, rows', remote', had')
  BY <1>4, <1>7 DEF RequestOK
<1> QED
  BY <1>4, <1>5, <1>6, <1>8, RowsMove

-----------------------------------------------------------------------------
(* The invariant, and the theorems that follow from it.                    *)

LEMMA InitIInv == Init => IInv
<1> SUFFICES ASSUME Init
             PROVE  IInv
  OBVIOUS
<1>1. \A r \in Ids : rows[r] = UNUSED /\ ~Live(rows, r)
  BY DEF Init, Live
<1>2. Tree(rows, remote)
  BY <1>1 DEF Tree, Init
<1>3. MetaOK(remote, had) /\ Shown(rows, had) /\ CreativesOK(rows, creatives)
  BY <1>1 DEF MetaOK, Shown, CreativesOK, Init
<1>4. /\ requests \in [Requests -> RequestState]
      /\ \A q \in Requests : RequestOK(requests[q], rows, remote, had)
      /\ syncs \in [Syncs -> SyncState]
      /\ \A s \in Syncs : SyncOK(syncs[s], rows, remote, had)
  BY IdleOK, IdleSyncOK DEF Init
<1>5. audit = {} /\ edits \in 0 .. MaxEdits
  BY EditsAssumption DEF Init
<1> QED
  BY <1>2, <1>3, <1>4, <1>5 DEF IInv

LEMMA NextIInv == IInv /\ [Next]_vars => IInv'
<1> SUFFICES ASSUME IInv, [Next]_vars
             PROVE  IInv'
  OBVIOUS
<1>1. CASE UNCHANGED vars
  BY <1>1 DEF IInv, vars
<1>2. ASSUME NEW q \in Requests, RequestStarts(q)
      PROVE  IInv'
  BY <1>2, CreateReadSafe, UpdateReadSafe, DeleteReadSafe, AttachCheckSafe DEF RequestStarts
<1>3. ASSUME NEW q \in Requests, RequestStep(q)
      PROVE  IInv'
  BY <1>3, CreatePushSafe, CreateInsertSafe, UpdatePushSafe, UpdateWriteSafe, DeleteRowSafe,
     AttachSafe, EndsSafe
     DEF RequestStep
<1>4. ASSUME NEW s \in Syncs, SyncStep(s)
      PROVE  IInv'
  BY <1>4, SyncReadSafe, SyncListSafe, SyncUpsertSafe, UpsertFailsSafe DEF SyncStep
<1>5. ASSUME NEW k \in Creatives, CreativeStep(k)
      PROVE  IInv'
  BY <1>5, UploadSafe, DeleteCreativeSafe DEF CreativeStep
<1>6. ASSUME NEW m \in Below, MetaStep(m)
      PROVE  IInv'
  BY <1>6, MetaActs, WebhookSafe DEF MetaStep
<1> QED
  BY <1>1, <1>2, <1>3, <1>4, <1>5, <1>6, CampaignStoredSafe, CrashSafe DEF Next

(* The rows are a forest that agrees with Meta's, the statuses and         *)
(* creatives in them are grounded, and every suspended handler holds what  *)
(* its next step needs; whatever the interleaving.                         *)
THEOREM Invariance == Spec => []IInv
<1> QED
  BY InitIInv, NextIInv, PTL DEF Spec

(* Rows, Meta's objects, requests, syncs and the trail stay well formed.   *)
THEOREM TypeCorrect == Spec => []TypeOK
<1>1. IInv => TypeOK
  <2> SUFFICES ASSUME IInv
               PROVE  TypeOK
    OBVIOUS
  <2>1. \A r \in Ids : Stored(r) => /\ rows[r].metaId \in MetaCampaigns <=> rows[r].parent = NULL
                                    /\ rows[r].creative # NULL => rows[r].metaId \in MetaAds
    BY DEF IInv, Tree, Stored, Live
  <2> QED
    BY <2>1 DEF IInv, Tree, MetaOK, CreativesOK, TypeOK
<1> QED
  BY <1>1, Invariance, PTL

(* Deletes that cascade while creates and syncs hold rows they read before *)
(* never leave an ad set or an ad below a wrong row, or below none.        *)
THEOREM HierarchyAlwaysAgrees == Spec => []HierarchyAgrees
<1>1. IInv => HierarchyAgrees
  BY DEF IInv, Tree, HierarchyAgrees, StoredAs, Stored, Live
<1> QED
  BY <1>1, Invariance, PTL

(* The unique indexes keep a create and the syncs that overtake it to one  *)
(* row for each object.                                                    *)
THEOREM RowsAreUnique == Spec => []OneRowPerObject
<1>1. IInv => OneRowPerObject
  BY DEF IInv, Tree, OneRowPerObject, Stored, Live
<1> QED
  BY <1>1, Invariance, PTL

(* An ad set's status in the tables is one Meta has had: patches push      *)
(* before they write, and lists and webhooks report what was.              *)
THEOREM StatusesWereAtMeta == Spec => []ShownWasAtMeta
<1>1. IInv => ShownWasAtMeta
  BY DEF IInv, Shown, ShownWasAtMeta, StoredAs, Stored, Live
<1> QED
  BY <1>1, Invariance, PTL

(* Every entry of the trail stays true of its row. *)
THEOREM TrailIsTrue == Spec => []AuditTrue
<1>1. IInv => AuditTrue
  <2> SUFFICES ASSUME IInv, NEW e \in audit
               PROVE  /\ (e.action \in {"CREATE", "UPDATE"} /\ StoredAs(e.id, MetaAdSets)) =>
                            e.status \in had[rows[e.id].metaId]
                      /\ e.action = "DELETE" => rows[e.id] = GONE /\ ChildrenOf({e.id}) = {}
    BY DEF AuditTrue
  <2>1. Claim(rows, had, e.action, e.id, e.status)
    BY DEF IInv
  <2>2. (e.action \in {"CREATE", "UPDATE"} /\ StoredAs(e.id, MetaAdSets)) =>
           e.status \in had[rows[e.id].metaId]
    BY <2>1 DEF Claim, StoredAs, Stored, Live
  <2>3. e.action = "DELETE" => rows[e.id] = GONE /\ ChildrenOf({e.id}) = {}
    BY <2>1 DEF Claim, ChildrenOf, Stored, Live
  <2> QED
    BY <2>2, <2>3
<1> QED
  BY <1>1, Invariance, PTL

(* No ad points at a creative that is not stored. *)
THEOREM CreativesExist == Spec => []CreativeExists
<1>1. IInv => CreativeExists
  BY DEF IInv, CreativesOK, CreativeExists, Stored, Uploaded, Live
<1> QED
  BY <1>1, Invariance, PTL

=============================================================================
