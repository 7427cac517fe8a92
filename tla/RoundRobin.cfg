\* Two requests while a group of two or three changes, the list of models or the
\* playground resolves it three times and the process restarts once.
CONSTANTS
    r1 = r1
    r2 = r2
    r3 = r3
    a = a
    b = b
    c = c
    Requests = {r1, r2}
    Endpoints = {a, b, c}
    Configs <- Edits
    Lists <- SubLists
    ExtraCap = 3
    CrashCap = 1
    StorageFails = TRUE
    None = None
SPECIFICATION Spec
SYMMETRY RequestSymmetry
INVARIANTS TypeOK EvenTurns
PROPERTIES OrderIsComplete
