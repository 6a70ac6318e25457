SPECIFICATION Spec
CONSTANTS
    NULL = NULL
    Users = {u1,u2}
    Apps = {p1,p2}
    AppOwner <- OneAppEach
    FbUsers = {b1}
    AdAccounts = {a1,a2}
    Tokens = {t1,t2}
    Flows = {f1,f2}
    ApiCalls = {}
    Runs = {}
SYMMETRY Symmetry
INVARIANTS TypeOK ProvenanceMatches InactiveHasCause
PROPERTIES OwnershipStable OnlyNewTokenReconnects ImplementsLifecycle
