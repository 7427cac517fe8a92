\* Two requests at a time, four in all, and a page of three rows that learns two at a time.
CONSTANTS
    r = r
    s = s
    page = page
    Slots = {r, s}
    Pages = {page}
    Recent = 3
    Limit = 2
    ArrivalCap = 4
    FaultCap = 2
SPECIFICATION FairSpec
INVARIANT RowsComplete
PROPERTY PagesSettle
