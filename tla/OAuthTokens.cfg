\* The two loops, a chat request and a new login, by device or by redirect.
CONSTANTS
    chat = chat
    catalog = catalog
    usage = usage
    p = p
    Chats = {chat}
    Tests = {}
    Catalogs = {catalog}
    Usages = {usage}
    Loops = {catalog, usage}
    Pollers = {p}
    ExpiryCap = 1
    GrantCap = 2
    FaultCap = 1
SPECIFICATION FairSpec
INVARIANTS TypeOK RefreshTokenGood
PROPERTIES TokensRenewed MarkLifted
