SPECIFICATION Spec
CONSTANTS
    NULL = NULL
    Users = {u1}
    Apps = {p1}
    AppOwner <- OneOwner
    FbUsers = {b1}
    AdAccounts = {a1}
    Tokens = {t1,t2}
    Flows = {f1}
    ApiCalls = {c1}
    Runs = {}
PROPERTIES DeactivatesTheRejected
