----------------------------- MODULE ChatRouting -----------------------------
(***************************************************************************)
(* POST /v1/chat/completions: the loop that tries the endpoints of a group  *)
(* one after another, the cooldowns that all requests share, and the rows   *)
(* of ProviderAttempts and Logs.  Both handlers are here: the buffered one  *)
(* (src/main_impl.py) and the one for "stream": true                        *)
(* (src/responses_streaming_entrypoint.py).                                 *)
(*                                                                         *)
(* One action runs from one await of the handler to the next.  Between two  *)
(* awaits nothing else runs in the process, so the record of an attempt,    *)
(* the cooldown it causes, the endpoints skipped after it and the choice of *)
(* the next one are one step.                                               *)
(*                                                                         *)
(* cool[e] is the time that remains of e's cooldown, in ticks; 0 is none.   *)
(***************************************************************************)
EXTENDS Integers, Sequences

CONSTANTS
    Requests,
    Streaming,       \* the requests with "stream": true
    HasReasoning,    \* those whose messages carry reasoning_content
    Endpoints,       \* provider and model, the key of a cooldown
    Responses,       \* endpoints with api_mode openai_responses, codex_responses
    Codex,           \* endpoints with api_mode codex_responses
    OAuth,           \* endpoints whose token may have to be refreshed first
    TooLarge,        \* <<r, e>>: the preflight estimate of r exceeds e's limits
    Orders,          \* what resolve_requested_model may return
    RetryAfters,     \* the values of a numeric Retry-After header
    RateTicks,       \* PROVIDER_RATE_LIMIT_COOLDOWN_SECONDS
    TimeoutTicks,    \* PROVIDER_TIMEOUT_COOLDOWN_SECONDS
    TransientTicks,  \* PROVIDER_TRANSIENT_COOLDOWN_SECONDS
    CrashCap         \* bound: restarts of the process

ASSUME EndpointsAssumption ==
    /\ Streaming \subseteq Requests
    /\ HasReasoning \subseteq Requests
    /\ Codex \subseteq Responses
    /\ Responses \subseteq Endpoints
    /\ OAuth \subseteq Endpoints
    /\ TooLarge \subseteq Requests \X Endpoints

\* The resolver leaves out duplicates and answers 503 itself for an empty list.
ASSUME OrdersAssumption ==
    \A o \in Orders :
        /\ o \in Seq(Endpoints) /\ Len(o) > 0
        /\ \A i, k \in 1 .. Len(o) : o[i] = o[k] => i = k

ASSUME TicksAssumption ==
    /\ RetryAfters \subseteq Nat \ {0}
    /\ RateTicks \in Nat /\ TimeoutTicks \in Nat /\ TransientTicks \in Nat
    /\ CrashCap \in Nat

VARIABLES
    req,      \* req[r]: where the handler of r is
    order,    \* order[r]: the endpoints resolve_requested_model returned
    rows,     \* rows[r]: the rows of ProviderAttempts with r's request_id
    logs,     \* logs[r]: the rows of Logs with r's request_id
    cool,     \* provider_cooldowns
    crashes   \* restarts so far

vars == <<req, order, rows, logs, cool, crashes>>

InFlight == {"refreshing", "asked", "streaming"}
Ended == {"answered", "errored", "broken", "failed", "left", "killed"}
Request == [pc: {"new"} \cup InFlight \cup Ended,
            at: Nat,          \* the position of the endpoint it is at
            attempt_no: Nat,  \* attempts begun; the number of the one under way
            clean: BOOLEAN]   \* reasoning_content has been stripped

Actions == {"cooldown_skip", "preflight_skip", "retry_sanitized", "fallback",
            "fallback_exception", "returned_error", "success", "stream_error"}
AttemptRow == [no: Nat, endpoint: Endpoints, action: Actions]

FallbackStatuses == {401, 403, 408, 409, 413, 425, 429, 500, 502, 503, 504}

\* One status for each way the handlers treat one, with the bodies they tell apart.
Answers ==
    [status: {200, 400, 408, 413, 429, 503}, body: {"json", "html"}]
    \cup {[status |-> 401, body |-> "token_expired"],
          [status |-> 400, body |-> "reasoning"],
          [status |-> 400, body |-> "model_not_found"]}

LogRow == [endpoint: Endpoints, status: {200, 400, 401, 502}]

Init ==
    /\ req = [r \in Requests |-> [pc |-> "new", at |-> 0, attempt_no |-> 0, clean |-> FALSE]]
    /\ order = [r \in Requests |-> <<>>]
    /\ rows = [r \in Requests |-> <<>>]
    /\ logs = [r \in Requests |-> <<>>]
    /\ cool = [e \in Endpoints |-> 0]
    /\ crashes = 0

-----------------------------------------------------------------------------
(* Cooldowns *)

Longer(s, t) == IF s >= t THEN s ELSE t

\* Mutant: the later failure decides, also when it asks for less.
SetCooldownLast(e, t) == IF t > 0 THEN [cool EXCEPT ![e] = t] ELSE cool

SetCooldown(e, t) == [cool EXCEPT ![e] = Longer(@, t)]

ClearCooldown(e) == [cool EXCEPT ![e] = 0]

\* apply_provider_cooldown_from_response; t is the Retry-After if there is one.
StatusTicks(status, t) ==
    IF status = 429 THEN t
    ELSE IF status = 408 THEN TimeoutTicks
    ELSE IF status \in {500, 502, 503, 504} THEN TransientTicks
    ELSE 0

-----------------------------------------------------------------------------
(* The loop *)

At(r) == order[r][req[r].at]

\* begin_attempt: attempt_no counts up, and its value is the new attempt's number.
BeginAttempt(n) == n + 1

\* record_attempt, with the number that the attempt began with.
WithRow(r, action) ==
    Append(rows[r], [no |-> req[r].attempt_no, endpoint |-> At(r), action |-> action])
WithLog(r, status) == Append(logs[r], [endpoint |-> At(r), status |-> status])

Open(r, e, c) == c[e] = 0 /\ <<r, e>> \notin TooLarge

\* From position i of order o on, with n attempts begun, the rows and logs so far
\* and cooldowns c: pass over the endpoints that are cooling or too small, each an
\* attempt with a number, then begin the attempt at the first other one, or answer
\* 502 when none is left.
Proceed(r, o, i, n, done, log, c) ==
    \E k \in (i + 1) .. (Len(o) + 1) :
        /\ \A m \in (i + 1) .. (k - 1) : ~Open(r, o[m], c)
        /\ k <= Len(o) => Open(r, o[k], c)
        /\ rows' = [rows EXCEPT ![r] = done \o
                     [m \in 1 .. (k - i - 1) |->
                        [no |-> n + m,
                         endpoint |-> o[i + m],
                         action |-> IF c[o[i + m]] > 0 THEN "cooldown_skip"
                                                       ELSE "preflight_skip"]]]
        /\ IF k <= Len(o)
           THEN /\ logs' = [logs EXCEPT ![r] = log]
                /\ \E pc \in {"asked"} \cup (IF o[k] \in OAuth THEN {"refreshing"} ELSE {}) :
                     req' = [req EXCEPT ![r] =
                               [pc |-> pc, at |-> k, clean |-> FALSE,
                                attempt_no |-> BeginAttempt(n + k - i - 1)]]
           ELSE /\ logs' = [logs EXCEPT ![r] =
                              Append(log, [endpoint |-> o[Len(o)], status |-> 502])]
                /\ req' = [req EXCEPT ![r] = [pc |-> "failed", at |-> k, clean |-> FALSE,
                                              attempt_no |-> n + k - i - 1]]

\* The request is authenticated, resolved and sent to its first endpoint.
Arrive(r) ==
    /\ req[r].pc = "new"
    /\ \E o \in Orders :
        /\ order' = [order EXCEPT ![r] = o]
        /\ Proceed(r, o, 0, req[r].attempt_no, rows[r], logs[r], cool)
    /\ UNCHANGED <<cool, crashes>>

\* The attempt at the current endpoint ends and the loop continues.
GoOn(r, action, log, c) ==
    /\ cool' = c
    /\ Proceed(r, order[r], req[r].at, req[r].attempt_no, WithRow(r, action), log, c)
    /\ UNCHANGED <<order, crashes>>

\* The request ends at the current endpoint.
Finish(r, pc, action, status, c) ==
    /\ cool' = c
    /\ rows' = [rows EXCEPT ![r] = WithRow(r, action)]
    /\ logs' = [logs EXCEPT ![r] = WithLog(r, status)]
    /\ req' = [req EXCEPT ![r].pc = pc]
    /\ UNCHANGED <<order, crashes>>

\* ensure_provider_token returns after a refresh.  The endpoint's cooldown is
\* not looked at again.
TokenReady(r) ==
    /\ req[r].pc = "refreshing"
    /\ req' = [req EXCEPT ![r].pc = "asked"]
    /\ UNCHANGED <<order, rows, logs, cool, crashes>>

-----------------------------------------------------------------------------
(* What the endpoint answers *)

\* An HTML page counts as a failure of its own, except for an error status of
\* a chat endpoint in the buffered handler.
Page(r, a) ==
    a.body = "html" /\ (a.status = 200 \/ At(r) \in Responses \/ r \in Streaming)

TokenExpired(r, a) == At(r) \in Codex /\ a.status = 401 /\ a.body = "token_expired"

\* codex_note_error says that another account may have the model.
ModelRejected(r, a) == At(r) \in Codex /\ a.status = 400 /\ a.body = "model_not_found"

\* Mutant: the payload is not compared with the stripped one.
SanitizesAlways(r, a) ==
    /\ At(r) \notin Responses
    /\ a.status = 400 /\ a.body = "reasoning"

Sanitizes(r, a) ==
    /\ At(r) \notin Responses
    /\ a.status = 400 /\ a.body = "reasoning"
    /\ r \in HasReasoning /\ ~req[r].clean

FallsBack(r, a) ==
    Page(r, a) \/ TokenExpired(r, a) \/ ModelRejected(r, a) \/ a.status \in FallbackStatuses

\* The buffered handler cools an endpoint that answers with a page, the other
\* one only if the page came with 200.
AnswerTicks(r, a, t) ==
    IF Page(r, a) /\ (a.status = 200 \/ r \notin Streaming) THEN TransientTicks
    ELSE StatusTicks(a.status, t)

\* Mutant: the sanitized retry goes on with the number of the attempt before it.
RetrySanitizedAsBefore(r) ==
    /\ req[r].pc = "asked"
    /\ \E a \in Answers : Sanitizes(r, a)
    /\ rows' = [rows EXCEPT ![r] = WithRow(r, "retry_sanitized")]
    /\ req' = [req EXCEPT ![r].clean = TRUE]
    /\ UNCHANGED <<order, logs, cool, crashes>>

\* 400 for reasoning_content: asked again at once, as an attempt of its own.
RetrySanitized(r) ==
    /\ req[r].pc = "asked"
    /\ \E a \in Answers : Sanitizes(r, a)
    /\ rows' = [rows EXCEPT ![r] = WithRow(r, "retry_sanitized")]
    /\ req' = [req EXCEPT ![r].clean = TRUE, ![r].attempt_no = BeginAttempt(@)]
    /\ UNCHANGED <<order, logs, cool, crashes>>

\* A page and an expired token leave a row in Logs too.
FallBack(r) ==
    /\ req[r].pc = "asked"
    /\ \E a \in Answers, t \in RetryAfters \cup {RateTicks} :
        /\ FallsBack(r, a)
        /\ GoOn(r, "fallback",
                IF TokenExpired(r, a) THEN WithLog(r, 401)
                ELSE IF Page(r, a) THEN WithLog(r, 502) ELSE logs[r],
                SetCooldown(At(r), AnswerTicks(r, a, t)))

ReturnError(r) ==
    /\ req[r].pc = "asked"
    /\ \E a \in Answers : a.status # 200 /\ ~FallsBack(r, a) /\ ~Sanitizes(r, a)
    /\ Finish(r, "errored", "returned_error", 400, cool)

\* The buffered handler has the whole answer.
Succeed(r) ==
    /\ req[r].pc = "asked" /\ r \notin Streaming
    /\ Finish(r, "answered", "success", 200, ClearCooldown(At(r)))

\* The other one starts to send it on.
StartStream(r) ==
    /\ req[r].pc = "asked" /\ r \in Streaming
    /\ req' = [req EXCEPT ![r].pc = "streaming"]
    /\ UNCHANGED <<order, rows, logs, cool, crashes>>

\* A timeout or a network error, while refreshing the token or asking.
LoseEndpoint(r) ==
    /\ req[r].pc \in {"refreshing", "asked"}
    /\ GoOn(r, "fallback_exception", logs[r], SetCooldown(At(r), TimeoutTicks))

\* Mutant: a rejected token is refreshed and the request sent again, for ever.
RaiseRefreshesAgain(r) ==
    /\ req[r].pc \in {"refreshing", "asked"}
    /\ req' = [req EXCEPT ![r].pc = "refreshing"]
    /\ UNCHANGED <<order, rows, logs, cool, crashes>>

\* Any other exception: a failed refresh, an invalid URL.
Raise(r) ==
    /\ req[r].pc \in {"refreshing", "asked"}
    /\ GoOn(r, "fallback_exception", logs[r], cool)

-----------------------------------------------------------------------------
(* The body of a stream *)

EndStream(r) ==
    /\ req[r].pc = "streaming"
    /\ Finish(r, "answered", "success", 200, ClearCooldown(At(r)))

\* Mutant: the error of the body is not looked at when it is recorded.
BreakStreamAsSuccess(r) ==
    /\ req[r].pc = "streaming"
    /\ Finish(r, "broken", "success", 200, SetCooldown(At(r), TimeoutTicks))

BreakStream(r) ==
    /\ req[r].pc = "streaming"
    /\ Finish(r, "broken", "stream_error", 502, SetCooldown(At(r), TimeoutTicks))

\* The client goes away.  Cancellation is no Exception: if the finally clause
\* runs to its end this counts as a success, and if its await is cancelled as
\* well, or the body was never started, nothing is recorded.
LeaveStream(r) ==
    /\ req[r].pc = "streaming"
    /\ \/ Finish(r, "left", "success", 200, ClearCooldown(At(r)))
       \/ /\ req' = [req EXCEPT ![r].pc = "left"]
          /\ UNCHANGED <<order, rows, logs, cool, crashes>>

\* The process restarts: cooldowns are in memory, the rows are not.
Restart ==
    /\ crashes < CrashCap
    /\ crashes' = crashes + 1
    /\ req' = [r \in Requests |-> IF req[r].pc \in InFlight
                                  THEN [req[r] EXCEPT !.pc = "killed"] ELSE req[r]]
    /\ cool' = [e \in Endpoints |-> 0]
    /\ UNCHANGED <<order, rows, logs>>

\* Mutant: an expired cooldown is not dropped.
LessBelowZero(t) == t - 1

Less(t) == IF t > 0 THEN t - 1 ELSE t

Tick ==
    /\ cool' = [e \in Endpoints |-> Less(cool[e])]
    /\ UNCHANGED <<req, order, rows, logs, crashes>>

-----------------------------------------------------------------------------

Handle(r) ==
    \/ TokenReady(r) \/ RetrySanitized(r) \/ FallBack(r) \/ ReturnError(r)
    \/ Succeed(r) \/ StartStream(r) \/ LoseEndpoint(r) \/ Raise(r)
    \/ EndStream(r) \/ BreakStream(r)

Next ==
    \/ \E r \in Requests : Arrive(r) \/ Handle(r) \/ LeaveStream(r)
    \/ Restart
    \/ Tick

Spec == Init /\ [][Next]_vars

\* Every await of a handler has a timeout, so it goes on; a stream ends or breaks.
FairSpec == Spec /\ \A r \in Requests : WF_vars(Handle(r))

-----------------------------------------------------------------------------
(* Properties *)

\* Type invariant: cooldowns, positions and the two tables keep their shape.
TypeOK ==
    /\ req \in [Requests -> Request]
    /\ order \in [Requests -> Orders \cup {<<>>}]
    /\ \A r \in Requests :
        /\ req[r].pc \in InFlight => req[r].at \in 1 .. Len(order[r])
        /\ (req[r].pc = "new") <=> (order[r] = <<>>)
    /\ rows \in [Requests -> Seq(AttemptRow)]
    /\ logs \in [Requests -> Seq(LogRow)]
    /\ cool \in [Endpoints -> Nat]
    /\ crashes \in Nat

\* README.md:274-279, "with an attempt number": the attempts recorded for a
\* request are numbered 1, 2, 3, ... without a gap or a repetition, across skips,
\* sanitized retries, exceptions and a restart.
AttemptsNumbered ==
    \A r \in Requests : \A i \in 1 .. Len(rows[r]) : rows[r][i].no = i

Position(r, e) == CHOOSE i \in 1 .. Len(order[r]) : order[r][i] = e

\* The endpoints of a request are decided in the resolver's order, each once,
\* but for the one sanitized retry directly before the second decision; and a
\* request moves past an endpoint only with a row for it.
EndpointsInOrder ==
    \A r \in Requests :
        /\ \A i, k \in 1 .. Len(rows[r]) :
             LET x == rows[r][i]
                 y == rows[r][k]
             IN i < k => \/ Position(r, x.endpoint) < Position(r, y.endpoint)
                         \/ /\ x.endpoint = y.endpoint /\ k = i + 1
                            /\ x.action = "retry_sanitized"
                            /\ y.action # "retry_sanitized"
        /\ \A m \in 1 .. (req[r].at - 1) :
             \E i \in 1 .. Len(rows[r]) : /\ rows[r][i].endpoint = order[r][m]
                                          /\ rows[r][i].action # "retry_sanitized"

\* The row that ends a chain says what the client got: the last attempt and the
\* last log of a request that ended name the endpoint that answered, and only a
\* request whose endpoints all failed gets 502.
LastRow(r) == rows[r][Len(rows[r])]
LastLog(r) == logs[r][Len(logs[r])]
Final == {"returned_error", "success", "stream_error"}

OutcomeRecorded ==
    \A r \in Requests :
        /\ req[r].pc \in {"answered", "errored", "broken"} =>
             /\ rows[r] # <<>> /\ logs[r] # <<>>
             /\ LastRow(r).endpoint = At(r) /\ LastLog(r).endpoint = At(r)
             /\ (req[r].pc = "answered") <=> (LastRow(r).action = "success")
             /\ (req[r].pc = "answered") <=> (LastLog(r).status = 200)
        /\ req[r].pc = "failed" =>
             /\ \A i \in 1 .. Len(rows[r]) : rows[r][i].action \notin Final
             /\ logs[r] # <<>> /\ LastLog(r).status = 502
        /\ req[r].pc \in InFlight =>
             \A i \in 1 .. Len(rows[r]) : rows[r][i].action \notin Final

\* No failure, of whatever request, shortens a cooldown: only time, a restart,
\* and a request that got its answer from that endpoint do.
CooldownHolds ==
    [][\A e \in Endpoints :
         cool'[e] < cool[e] =>
             \/ cool' = [x \in Endpoints |-> Less(cool[x])]
             \/ crashes' > crashes
             \/ \E r \in Requests :
                  /\ req[r].pc \in InFlight /\ At(r) = e
                  /\ req'[r].pc \in {"answered", "left"}]_vars

\* Every request that arrives ends, whatever the endpoints answer and the other
\* requests do to the cooldowns.
RequestsEnd ==
    \A r \in Requests : (req[r].pc # "new") ~> (req[r].pc \in Ended)

=============================================================================
