SPECIFICATION FairSpec
CONSTANTS
    NULL = NULL
    Users = {u1,u2}
    Origins = {o1,o2,c1}
    Configured = {c1}
    Slots = {s1,s2}
INVARIANTS TypeOK VerdictsGrounded
PROPERTIES StaysCaughtUp EventuallyAllowed EventuallyRefused
