SPECIFICATION FairSpec
CONSTANTS
    NULL = NULL
    Users = {u1,u2}
    Apps = {p1}
    AppOwner <- OneOwner
    FbUsers = {b1}
    AdAccounts = {a1}
    Tokens = {t1,t2}
    Flows = {f1}
    ApiCalls = {c1}
    Runs = {r1}
INVARIANTS TokenBelongsToOwner InactiveHasCause
PROPERTIES DeadTokenNoticed
