\* One provider and two groups of the user's, two versions of the registry, two stored keys.
CONSTANTS
    p = p
    g = g
    h = h
    free = free
    k1 = k1
    k2 = k2
    Providers = {p}
    Groups = {g, h, free}
    Free = free
    GroupEdits = {{p}, {h}}
    Initially <- TwoGroups
    Registries <- TwoVersions
    Env <- FirstKey
    KeyNames = {n, o}
    Keys = {k1, k2}
    KeyCap = 2
    ChangeCap = 3
    FaultCap = 1
SPECIFICATION Spec
INVARIANTS Converged NothingManagedInFile PoolCurrent NoGroupCycles
