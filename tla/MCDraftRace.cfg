SPECIFICATION Spec
CONSTANTS
    NULL = NULL
    UNUSED = UNUSED
    GONE = GONE
    Job = Job
    Ids = {r1,r2,r3,r4}
    MetaIds = {m1}
    Names = {n1}
    InputStatuses <- DraftOrActive
    MetaStatuses <- SeenAtMeta
    Requests = {q1,q2}
    Syncs = {}
    MaxEdits = 3
INVARIANTS DraftsAreLocal
