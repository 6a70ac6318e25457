SPECIFICATION Spec
CONSTANTS
    NULL = NULL
    Emails = {e1,e2}
    Passwords = {w1,w2}
    Keys = {k1,k2,k3}
    Prefixes = {x1,x2}
    PrefixOf <- OneApart
    AppIds = {a1}
    Secrets = {z1,z2}
    Slots = {s1,s2}
SYMMETRY Symmetry
INVARIANTS TypeOK SignedOnTheirPassword KeyIdentifiesUser SecretsWereValid
PROPERTIES RegisteredOnce ImplementsKeyService OldKeysStayOut
