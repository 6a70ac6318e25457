SPECIFICATION Spec
CONSTANTS
    NULL = NULL
    UNUSED = UNUSED
    GONE = GONE
    NaN = NaN
    a1 = a1
    a2 = a2
    m1 = m1
    m2 = m2
    Ids = {1,2,3,4}
    MetaCampaigns = {m1,m2}
    MetaAdSets = {as1}
    MetaAds = {ad1}
    Accounts = {a1,a2}
    AccountOf <- AccountEach
    CustomerOf <- OwnCustomer
    Creatives = {k1}
    InputStatuses <- ActiveOnly
    MetaStatuses <- ActiveOnly
    Requests = {q1}
    Syncs = {s1}
    MaxEdits = 3
INVARIANTS CreativeOfSameCustomer
