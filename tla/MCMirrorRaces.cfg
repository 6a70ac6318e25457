SPECIFICATION Spec
CONSTANTS
    NULL = NULL
    UNUSED = UNUSED
    GONE = GONE
    Job = Job
    Ids = {r1,r2,r3,r4,r5}
    MetaIds = {m1,m2}
    Names = {n1}
    InputStatuses <- DraftOrActive
    MetaStatuses <- SeenAtMeta
    Requests = {q1,q2}
    Syncs = {}
    MaxEdits = 3
SYMMETRY Symmetry
INVARIANTS TypeOK OneRowPerCampaign AuditTrue
PROPERTIES LinkStable StaysInSync
