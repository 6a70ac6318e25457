SPECIFICATION FairSpec
CONSTANTS
    NULL = NULL
    UNUSED = UNUSED
    GONE = GONE
    Job = Job
    Ids = {r1,r2,r3,r4}
    MetaIds = {m1}
    Names = {n1}
    InputStatuses <- DraftOrActive
    MetaStatuses <- AnyAtMeta
    Requests = {q1}
    Syncs = {s1}
    MaxEdits = 3
PROPERTIES EventuallyInSync
INVARIANTS DraftsAreLocal
