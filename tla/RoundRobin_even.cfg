\* README.md:25: two requests over an unchanging group of two, nobody else.
CONSTANTS
    r1 = r1
    r2 = r2
    r3 = r3
    a = a
    b = b
    c = c
    Requests = {r1, r2}
    Endpoints = {a, b}
    Configs <- OnlyTwo
    Lists <- WholeLists
    ExtraCap = 0
    CrashCap = 0
    StorageFails = FALSE
    None = None
SPECIFICATION Spec
INVARIANTS EvenUse
