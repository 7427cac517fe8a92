\* One model, two refreshes and two chat requests at a time, one new login.
CONSTANTS
    gpt = gpt
    t1 = t1
    t2 = t2
    c1 = c1
    c2 = c2
    Account = account
    Models = {gpt}
    Tasks = {t1, t2}
    ModelLoop = t1
    Callers = {c1, c2}
    Catalogs <- TwoAccounts
    CatalogAge = 0
    RejectedFor = 1
    LimitedFor = 1
    Resets = {0, 3}
    MaxTime = 2
    ErrorCap = 1
SPECIFICATION FairSpec
INVARIANTS EtagNamesStoredModels FailClosed LimitHolds IdentityDiscarded
PROPERTIES AccountLimitHolds CatalogFollows
