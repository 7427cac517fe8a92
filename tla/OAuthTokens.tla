----------------------------- MODULE OAuthTokens -----------------------------
(***************************************************************************)
(* The OAuth credentials of one provider (src/main_impl.py): who renews     *)
(* them, who replaces them, and who marks the provider as one that needs a  *)
(* new login.                                                               *)
(*                                                                         *)
(* Every request works on a copy of the provider's record that it took      *)
(* before its first await, and writes into the record it then finds by      *)
(* name.  The record is in memory and in config.yml: each save writes the   *)
(* one in memory to the file, and the watchdog's thread brings the file     *)
(* back into memory, in two steps.  Refresh tokens are good for one use, so *)
(* what one of them stores decides what the copies of the others are worth. *)
(***************************************************************************)
EXTENDS Integers, FiniteSets

CONSTANTS
    Chats,      \* chat requests at a time
    Tests,      \* an administrator's tests of the provider
    Catalogs,   \* refresh_catalog: of _model_loop, or after a login
    Usages,     \* fetch_codex_usage: of _usage_loop, refresh_now, or after a login
    Loops,      \* those of them that are _model_loop's and _usage_loop's own
    Pollers,    \* pages that wait for one device login
    ExpiryCap,  \* bound: dates that come due
    GrantCap,   \* bound: logins
    FaultCap    \* bound: lost answers, errors, answers without a refresh token or
                \* without expires_in, restarts and pages, together

Requests == Chats \cup Tests \cup Catalogs \cup Usages
None == [none |-> TRUE]

ASSUME TokensAssumption ==
    /\ Loops \subseteq Catalogs \cup Usages
    /\ (Chats \cup Tests) \cap (Catalogs \cup Usages) = {} /\ Catalogs \cap Usages = {}
    /\ ExpiryCap \in Nat /\ GrantCap \in Nat \ {0} /\ FaultCap \in Nat

Grants == 1..GrantCap
\* What the n-th answer after a login brings: a refresh token, a date.
Tokens == [grant: Grants, serial: Nat]
Token(g, n) == [grant |-> g, serial |-> n]

VARIABLES
    codex,      \* a Codex profile, or another provider with an authorize_url
    provider,   \* the record in config_data
    file,       \* the record in config.yml
    events,     \* the file was modified since the watchdog's last load
    watcher,    \* the record that the watchdog's thread has loaded
    page,       \* external: the record on an admin's page of the configuration
    requests,   \* requests under way
    device,     \* the device login in oauth_state_store, one at a time
    code,       \* external: whether its code may still be exchanged
    pollers,    \* the calls of admin_providers_codex_device_status
    callback,   \* admin_provider_oauth_callback: state sent out, or the record held
    answers,    \* external: the answers with tokens after each login
    good,       \* external: the serial of the good refresh token of each login
    due,        \* dates that have come
    grants,     \* external: logins so far
    lost,       \* history: logins whose good refresh token was lost on its way
    restored,   \* history: an older record was saved over the file's
    faults

files == <<file, events, watcher, page>>
logins == <<device, code, pollers, callback>>
tokens == <<answers, good, grants>>
histories == <<due, lost, restored, faults>>
vars == <<codex, provider, files, requests, logins, tokens, histories>>

\* refresh stands for access_token, api_key and refresh_token; expires for
\* expires_at, None if it is empty; reauth for oauth_reauth_required.
Record(refresh, expires, reauth) ==
    [refresh |-> refresh, expires |-> expires, reauth |-> reauth]

Init ==
    /\ codex \in BOOLEAN
    /\ provider = Record(Token(1, 0), Token(1, 0), FALSE)
    /\ file = provider /\ events = FALSE /\ watcher = None /\ page = None
    /\ requests = [r \in Requests |-> None]
    /\ device = "none" /\ code = "used" /\ callback = "none"
    /\ pollers = [p \in Pollers |-> [at |-> "idle", grant |-> 0]]
    /\ answers = [g \in Grants |-> 0] /\ good = answers
    /\ grants = 1
    /\ due = {} /\ lost = {} /\ restored = FALSE
    /\ faults = 0

Good(t) == t.serial = good[t.grant]

\* config_data is replaced by a copy: a record held from before is then one that
\* nobody reads (free_model_registry.py).
Replace(record) ==
    /\ provider' = record
    /\ callback' = IF callback = "holding" THEN "holding_old" ELSE callback

\* save_config of a record that was made from base; it is an older one if base was
\* not in the file any more.
Save(base, record) ==
    /\ Replace(record)
    /\ file' = record /\ events' = TRUE
    /\ restored' = IF base = file THEN restored
                   ELSE \/ restored
                        \/ record.refresh = base.refresh \/ record.expires = base.expires

Fault == faults < FaultCap /\ faults' = faults + 1

-----------------------------------------------------------------------------
(* Requests *)

Request(pc, token, expires) == [at |-> pc, token |-> token, expires |-> expires]
At(r, pc) == requests[r] # None /\ requests[r].at = pc
Goes(r, request) == requests' = [requests EXCEPT ![r] = request]

\* Mutant: the catalogs and the usage of a marked provider are not asked for.
MayAskInChat(r) ==
    /\ ~(codex /\ provider.reauth)
    /\ r \in Catalogs \cup Usages => codex

\* Only chat passes over a profile that is marked (_eligible).
MayAsk(r) ==
    /\ r \in Chats => ~(codex /\ provider.reauth)
    /\ r \in Catalogs \cup Usages => codex

\* The provider is asked.  Its answer matters here if it may mark the provider:
\* refresh_catalog never does, and chat and tests only a Codex profile.
Sending(r) == IF codex /\ r \notin Catalogs THEN Request("sending", None, None) ELSE None

\* ensure_provider_token
Ensure(r, token, expires) ==
    IF expires \in due THEN Request("renewing", token, None) ELSE Sending(r)

\* The others go from the copy to its token without an await.
Begin(r) ==
    /\ requests[r] = None
    /\ MayAsk(r)
    /\ Goes(r, IF r \in Chats THEN Request("copied", provider.refresh, provider.expires)
                ELSE Ensure(r, provider.refresh, provider.expires))
    /\ UNCHANGED <<codex, provider, files, logins, tokens, histories>>

\* It is the copy that is looked at, which is old by now if other endpoints were
\* tried before.
EnsureToken(r) ==
    /\ At(r, "copied")
    /\ Goes(r, Ensure(r, requests[r].token, requests[r].expires))
    /\ UNCHANGED <<codex, provider, files, logins, tokens, histories>>

\* External: the token endpoint exchanges a good refresh token for new tokens,
\* with the next refresh token or leaving this one good.
Exchange(r) ==
    /\ At(r, "renewing") /\ Good(requests[r].token)
    /\ LET g == requests[r].token.grant
           n == answers[g] + 1
       IN  /\ answers' = [answers EXCEPT ![g] = n]
           /\ \/ /\ good' = [good EXCEPT ![g] = n]
                 /\ Goes(r, Request("renewed", Token(g, n), Token(g, n)))
                 /\ UNCHANGED faults
              \/ /\ Fault
                 /\ Goes(r, Request("renewed", None, Token(g, n)))
                 /\ UNCHANGED good
    /\ UNCHANGED <<codex, provider, files, logins, grants, due, lost, restored>>

\* Mutant: the refresh token that came with the access token is not kept.
RenewedKeepingRefresh(r, expires) == Record(provider.refresh, expires, FALSE)

\* Mutant: the tokens are replaced, the mark is not taken off.
RenewedStillMarked(r, expires) ==
    Record(IF requests[r].token = None THEN provider.refresh ELSE requests[r].token,
           expires, provider.reauth)

\* refresh_provider_token writes into the record of the name, whatever has become
\* of it; without a refresh token the one found there stays.
Renewed(r, expires) ==
    Record(IF requests[r].token = None THEN provider.refresh ELSE requests[r].token,
           expires, FALSE)

\* Without expires_in the old expires_at stays.
StoreTokens(r) ==
    /\ At(r, "renewed")
    /\ \/ Save(provider, Renewed(r, requests[r].expires)) /\ UNCHANGED faults
       \/ Fault /\ Save(provider, Renewed(r, provider.expires))
    /\ Goes(r, Sending(r))
    /\ UNCHANGED <<codex, watcher, page, device, code, pollers, tokens, due, lost>>

\* fetch_codex_usage goes on with the tokens there are; the others give up.
Fail(r) == Goes(r, IF r \in Usages THEN Sending(r) ELSE None)

\* mark_provider_reauth_required, by name.
Mark == Save(provider, [provider EXCEPT !.reauth = TRUE])

\* The token endpoint answers with an error, of any status: for a token that is not
\* good, or for any other reason (429, 503).
RenewalRefused(r) ==
    /\ At(r, "renewing")
    /\ IF Good(requests[r].token) THEN Fault ELSE UNCHANGED faults
    /\ Fail(r)
    /\ Mark
    /\ UNCHANGED <<codex, watcher, page, device, code, pollers, tokens, due, lost>>

Losing(r) == At(r, "renewed") /\ requests[r].token # None

\* No answer from the token endpoint, or one without an access token: what it had
\* renewed is lost.
NoAnswer(r) ==
    /\ At(r, "renewing") \/ At(r, "renewed")
    /\ Fault
    /\ lost' = IF Losing(r) THEN lost \cup {requests[r].token.grant} ELSE lost
    /\ Fail(r)
    /\ UNCHANGED <<codex, provider, files, logins, tokens, due, restored>>

\* The provider answers, or does not; any request may end so.
Answered(r) ==
    /\ At(r, "sending")
    /\ Goes(r, None)
    /\ UNCHANGED <<codex, provider, files, logins, tokens, histories>>

\* A 401 that says that the token has expired, or any 401 or 403 for the usage,
\* whatever the token is worth.
Unauthorized(r) ==
    /\ At(r, "sending")
    /\ Goes(r, None)
    /\ Mark
    /\ UNCHANGED <<codex, watcher, page, device, code, pollers, tokens, due, lost, faults>>

-----------------------------------------------------------------------------
(* Device login, of a Codex profile *)

StartDevice ==
    /\ codex /\ device = "none"
    /\ \A p \in Pollers : pollers[p].at = "idle"
    /\ grants < GrantCap
    /\ device' = "pending"
    /\ code' = "unused"
    /\ UNCHANGED <<codex, provider, files, requests, pollers, callback, tokens, histories>>

Poller(p, pc, g) == pollers' = [pollers EXCEPT ![p] = [at |-> pc, grant |-> g]]

\* The state is read before the poll.
Poll(p) ==
    /\ device = "pending"
    /\ pollers[p].at = "idle"
    /\ Poller(p, "polled", 0)
    /\ UNCHANGED <<codex, provider, files, requests, device, code, callback, tokens,
                   histories>>

\* 15 minutes pass: the next page drops the login; those that wait go on.
ForgetDevice ==
    /\ device = "pending"
    /\ device' = "none"
    /\ UNCHANGED <<codex, provider, files, requests, code, pollers, callback, tokens,
                   histories>>

\* External: the user has logged in, and the code is exchanged for tokens, once.
ExchangeCode(p) ==
    /\ pollers[p].at = "polled"
    /\ code = "unused"
    /\ grants < GrantCap
    /\ grants' = grants + 1
    /\ code' = "used"
    /\ Poller(p, "exchanged", grants + 1)
    /\ UNCHANGED <<codex, provider, files, requests, device, callback, answers, good,
                   histories>>

\* The user has not logged in yet, or one of the two calls fails.
PollEnds(p) ==
    /\ pollers[p].at = "polled"
    /\ Poller(p, "idle", 0)
    /\ UNCHANGED <<codex, provider, files, requests, device, code, callback, tokens,
                   histories>>

\* Mutant: a login without a refresh token takes the old one away.
LoggedInEmptied(refresh) == Record(IF refresh = provider.refresh THEN None ELSE refresh, None, FALSE)

\* upsert_codex_profile: expires_at is emptied, so these tokens are never renewed.
LoggedIn(refresh) == Record(refresh, None, FALSE)

\* A login without a refresh token leaves the old one.
FinishDevice(p) ==
    /\ pollers[p].at = "exchanged"
    /\ \/ Save(provider, LoggedIn(Token(pollers[p].grant, 0))) /\ UNCHANGED faults
       \/ Fault /\ Save(provider, LoggedIn(provider.refresh))
    /\ device' = "none"
    /\ Poller(p, "idle", 0)
    /\ UNCHANGED <<codex, watcher, page, requests, code, tokens, due, lost>>

-----------------------------------------------------------------------------
(* Login by redirect, of another provider *)

Redirect ==
    /\ ~codex /\ callback = "none"
    /\ grants < GrantCap
    /\ callback' = "redirected"
    /\ UNCHANGED <<codex, provider, files, requests, device, code, pollers, tokens,
                   histories>>

\* The state is used up, and the record is held across the exchange of the code.
ReceiveCode ==
    /\ callback = "redirected"
    /\ callback' = "holding"
    /\ UNCHANGED <<codex, provider, files, requests, device, code, pollers, tokens,
                   histories>>

\* What came without a refresh token or an expiry leaves the old one; the mark
\* stays.  If config_data was replaced meanwhile, the tokens go nowhere.
FinishCallback ==
    /\ callback \in {"holding", "holding_old"}
    /\ grants < GrantCap
    /\ grants' = grants + 1
    /\ \E refresh \in {provider.refresh, Token(grants + 1, 0)},
          expires \in {provider.expires, Token(grants + 1, 0)} :
         provider' = IF callback = "holding_old" THEN provider
                     ELSE Record(refresh, expires, provider.reauth)
    /\ file' = provider' /\ events' = TRUE
    /\ restored' = (restored \/ provider # file)
    /\ callback' = "none"
    /\ UNCHANGED <<codex, watcher, page, requests, device, code, pollers, answers, good,
                   due, lost, faults>>

\* Denied, or the exchange fails.
CallbackFails ==
    /\ callback # "none"
    /\ callback' = "none"
    /\ UNCHANGED <<codex, provider, files, requests, device, code, pollers, tokens,
                   histories>>

-----------------------------------------------------------------------------
(* The file *)

\* Anybody else's save of config_data.
OtherSave ==
    /\ Save(provider, provider)
    /\ UNCHANGED <<codex, watcher, page, requests, device, code, pollers, tokens, due, lost,
                   faults>>

\* admin_config, and what an admin_config_save makes of it later.
RenderPage ==
    /\ Fault
    /\ page' = provider
    /\ UNCHANGED <<codex, provider, file, events, watcher, requests, logins, tokens, due,
                   lost, restored>>

SavePage ==
    /\ page # None
    /\ Save(page, page)
    /\ page' = None
    /\ UNCHANGED <<codex, watcher, requests, device, code, pollers, tokens, due, lost,
                   faults>>

\* reload_config: the lock is not held from the load to the assignment.
Load ==
    /\ events /\ watcher = None
    /\ watcher' = file
    /\ events' = FALSE
    /\ UNCHANGED <<codex, provider, file, page, requests, logins, tokens, histories>>

Assign ==
    /\ watcher # None
    /\ Replace(watcher)
    /\ watcher' = None
    /\ UNCHANGED <<codex, file, events, page, requests, device, code, pollers, tokens,
                   histories>>

\* The record is in config.yml; everything else is gone.
Restart ==
    /\ Fault
    /\ lost' = lost \cup {requests[r].token.grant : r \in {q \in Requests : Losing(q)}}
    /\ provider' = file /\ events' = FALSE /\ watcher' = None
    /\ requests' = [r \in Requests |-> None]
    /\ pollers' = [p \in Pollers |-> [at |-> "idle", grant |-> 0]]
    /\ device' = "none" /\ callback' = "none"
    /\ UNCHANGED <<codex, file, page, code, tokens, due, restored>>

\* expires_at is less than 60 seconds away, as the clock and the time zone of the
\* server have it: that may be long before the access token runs out, or after.
ComeDue ==
    /\ Cardinality(due) < ExpiryCap
    /\ \E t \in ({provider.expires} \cup {requests[r].expires : r \in {q \in Requests : At(q, "copied")}})
                  \ (due \cup {None}) : due' = due \cup {t}
    /\ UNCHANGED <<codex, provider, files, requests, logins, tokens, lost, restored,
                   faults>>

\* A request goes on: nothing waits without a timeout.
GoOn(r) ==
    \/ EnsureToken(r) \/ Exchange(r) \/ StoreTokens(r) \/ RenewalRefused(r) \/ Answered(r)

Next ==
    \/ \E r \in Requests : Begin(r) \/ GoOn(r) \/ NoAnswer(r) \/ Unauthorized(r)
    \/ \E p \in Pollers : Poll(p) \/ ExchangeCode(p) \/ PollEnds(p) \/ FinishDevice(p)
    \/ StartDevice \/ ForgetDevice
    \/ Redirect \/ ReceiveCode \/ FinishCallback \/ CallbackFails
    \/ OtherSave \/ RenderPage \/ SavePage \/ Load \/ Assign
    \/ Restart \/ ComeDue

Spec == Init /\ [][Next]_vars

\* The loops and the watchdog's thread never end; an answer comes or the call
\* times out.
FairSpec ==
    /\ Spec
    /\ \A r \in Loops : WF_vars(Begin(r))
    /\ \A r \in Requests : WF_vars(GoOn(r))
    /\ WF_vars(Load \/ Assign)

-----------------------------------------------------------------------------
(* Properties *)

RecordType == [refresh: Tokens, expires: Tokens \cup {None}, reauth: BOOLEAN]
RequestType ==
    [at: {"copied", "renewing"}, token: Tokens, expires: Tokens \cup {None}]
    \cup [at: {"renewed"}, token: Tokens \cup {None}, expires: Tokens]
    \cup [at: {"sending"}, token: {None}, expires: {None}]
PollerType == [at: {"idle", "polled"}, grant: {0}] \cup [at: {"exchanged"}, grant: Grants]

\* The types: a record never loses its refresh token altogether.
TypeOK ==
    /\ codex \in BOOLEAN /\ events \in BOOLEAN /\ restored \in BOOLEAN
    /\ provider \in RecordType /\ file \in RecordType
    /\ watcher \in RecordType \cup {None} /\ page \in RecordType \cup {None}
    /\ requests \in [Requests -> RequestType \cup {None}]
    /\ pollers \in [Pollers -> PollerType]
    /\ answers \in [Grants -> Nat] /\ good \in [Grants -> Nat]
    /\ due \subseteq Tokens
    /\ grants \in Grants /\ lost \subseteq Grants

\* Its successor is on its way into the record, or was lost on the way.
Succeeded(t) ==
    \/ t.grant \in lost
    \/ \E r \in Requests : /\ Losing(r) /\ Good(requests[r].token)
                           /\ requests[r].token.grant = t.grant

\* However requests and logins follow each other, the refresh token in config.yml
\* is one that the provider still accepts, or its successor is on its way, or was
\* lost on the way; and memory holds what the file holds, or a reload is still to
\* come that brings it there: no late answer, error or login puts a used token
\* back.  Only a save of an older record does: an admin's page that was rendered
\* before, or any save while a reload that crossed another one holds memory back.
RefreshTokenGood ==
    /\ Good(file.refresh) \/ Succeeded(file.refresh) \/ restored
    /\ provider = file \/ events \/ watcher = file

Due(record) == record.expires \in due

\* A profile whose tokens are due is renewed in the end, however often its token
\* endpoint has failed and whatever marks that has left, unless the refresh token
\* was lost or an older record was saved.
TokensRenewed ==
    <>[](codex => ~Due(file) \/ file.refresh.grant \in lost \/ restored)

\* A mark on a profile whose tokens are due goes without a new login: the mark
\* holds up chat, but not the renewal that takes it off.
MarkLifted ==
    (codex /\ file.reauth /\ Due(file))
        ~> (~file.reauth \/ file.refresh.grant \in lost \/ restored)
=============================================================================
