\* A streamed and a buffered request over a Codex account, a chat endpoint and
\* one that is too small for them; cooldowns of one and two ticks, one restart.
CONSTANTS
    s = s
    b = b
    t = t
    codex = codex
    tiny = tiny
    chat = chat
    Requests = {s, b}
    Streaming = {s}
    HasReasoning = {s, b}
    Endpoints = {codex, tiny, chat}
    Responses = {codex}
    Codex = {codex}
    OAuth = {codex}
    TooLarge <- TooLargeForTiny
    Orders <- TwoOrders
    RetryAfters = {1}
    RateTicks = 2
    TimeoutTicks = 1
    TransientTicks = 1
    CrashCap = 1
SPECIFICATION FairSpec
INVARIANTS TypeOK AttemptsNumbered EndpointsInOrder OutcomeRecorded
PROPERTIES CooldownHolds RequestsEnd
