# A formal model of Simple AIproxy

TLA+ specifications of Simple AIproxy's state and concurrency, the TLC
configurations that check them on small instances, and theorems about them that
TLAPS proves for every value of the constants. The code is the reference
throughout; line numbers are those of the files under `src/`.

Running the checks, in this directory:

    tlc -workers 2 -config BackgroundJobs_one.cfg MCBackgroundJobs
    tlapm BackgroundJobs_proofs.tla

`PROJECT.json` lists the components, the runs, a mutant for each property (the
bug that the property would find), the source lines of every definition, the
hazards, the findings and the theorems.

## 1. The system

One process (FastAPI and one event loop, `main_impl.py` with a chain of
entrypoints that replace some of its functions) answers clients and admins. It
has a thread that watches `config.yml`, a few background tasks, and an SQLite
file. Worker processes (`slowbrain_worker.py`) share only that file with it.

| Component | State | Operations | Shared with | What makes it correct |
|---|---|---|---|---|
| Background job queue (`background_jobs.py`, `slowbrain_worker.py`, `main_impl.py` 2300-2460) | table BackgroundJobs; where each worker is | create, cancel, lease, heartbeat, append, complete, fail or retry, clean up | web process, workers, external sidecars through SQL | a lease that runs is exclusive; the answer of a late attempt never wins; attempts are bounded; every job ends |
| Chat routing (`main_impl.py` 2470-2730, `responses_streaming_entrypoint.py`) | where each request is; `provider_cooldowns`; tables ProviderAttempts and Logs | try an endpoint, fall back, retry without reasoning_content, stream | all requests share the cooldowns | the chain recorded is in order and says what the client got; failures keep endpoints closed; every request ends |
| Groups and round robin (`codex_registry.py` 205-269, `main_impl.py` 2094-2102, `live_logs_entrypoint.py`) | `route_counters`, the group's configuration | resolve (middleware, handler, model list, playground), edit | all resolutions share the counter; the watcher's thread replaces the configuration | the endpoints of a list come first equally often; no usable endpoint is lost |
| Provider monitor (`provider_monitor.py`, `main.py`) | failures and the alert flag of each provider | check, record, send | the configuration | one alert for an outage, a recovery only after it |
| Codex registry (`codex_registry.py`) | tables of catalogs, usage, blocks | refresh, block, note an error or a success, choose accounts | chat routing, background loops | etags stay with their models; an old catalog closes the models; a limit holds to its end |
| OAuth tokens and device login (`main_impl.py` 1999-2091, 2838-2955, `codex_usage_entrypoint.py` 172-229) | tokens and `oauth_reauth_required` in memory and `config.yml`; pending logins | refresh, mark, log in, save, reload | chat routing, usage and catalog loops, admin, watcher | no late answer puts a used refresh token back; tokens that are due are renewed whatever marked the provider |
| Configuration store (`main_impl.py` 154-362) | `config_data`, `config.yml` | load, save, reload | everybody | memory and file agree when nothing is left to load |
| Free model overlay (`free_model_registry.py`) | registry cache, managed providers | fetch, apply | configuration store | the pool is the one registry and keys call for, and is never in the file |
| Live logs (`live_logs_entrypoint.py`) | table of running requests | start, finish, list, poll | middleware, admin page | no stale marker, no row missed |
| Group administration (`main_impl.py` 1037-1120, 1337-1371) | groups of `config.yml` | save, rename, delete, resolve nested groups | configuration store | the groups stay acyclic |
| SSE translation (`codex_entrypoint.py`, `responses_streaming_entrypoint.py`) | state of one stream | one event in, chunks out | chat routing | both kinds of clients get the same calls, and no streamed text is lost |
| Playground jobs (`main_impl.py` 1497-1541) | dictionary in memory | start, finish, prune | admin page | a finished job keeps its fields |
| Audio, pricing, usage reports, benchmarks, API keys, templates | little or none | | | |

What is hard in it, and hard to test:

- **interleaving**: several worker processes over one table, where `cancel_job` and
  `fail_or_retry_job` read in one statement and write in another; requests that
  set and clear one another's cooldowns; the middleware and the handler that
  move the same counter; the watcher's thread; refreshes that read an etag or a token,
  await, and write when another has written; a poll that reads two tables;
- **failure**: workers that die or outlive their leases, a result that is
  committed before the statement after it raises, upstreams that time out, answer with
  pages or break in the middle of a stream, notifications that fail;
- **restart**: leases, attempt rows, catalogs, tokens and running markers are kept,
  cooldowns, counters, pending logins and monitor states are not;
- **boundaries**: attempts against `max_attempts`, the monitor's threshold, a
  counter that serves lists of changing length.

The hazards, each with its line and the properties that cover it, are in
`PROJECT.json`.

## 2. The modules and the plan

| # | Modules | Status |
|---|---|---|
| 1 | `BackgroundJobs`, its abstract specification `JobTable`, refinement | modelled, checked, proved |
| 2 | `ChatRouting` | modelled, checked, safety proved |
| 3 | `RoundRobin` | modelled, checked, proved |
| 4 | `ProviderMonitor` | modelled, checked, proved |
| 5 | `CodexRegistry`: catalogs, blocks, refreshes that race, a new login | modelled, checked, safety proved |
| 6 | `OAuthTokens`: renewals that race, marks, device login and redirect, saves and reloads of the record | modelled, checked, safety proved |
| 7 | `FreePool` (how the pool is made, functions) and `ConfigStore` (load, save, reload, overlay, groups; two threads), which extends it | modelled, checked, safety proved |
| 8 | `LiveLogs`: markers, rows and a page that polls | modelled, checked, safety proved |
| 9 | `StreamTranslation`: SSE events to chunks, against the buffered path | modelled, checked, safety proved |
| 10 | failing log statements in `ChatRouting`; its composition with `CodexRegistry` and `OAuthTokens` (each has the other's steps as actions that may happen at any time); playground jobs | planned |

Each module has one passing run (two for the queue, for safety and for liveness) on the
smallest instance in which its actors can get in each other's way. The abstract
specification is `JobTable`; in `StreamTranslation` the buffered path is the reference for the
streamed one.

The proofs of a module `M` are in `M_proofs`; those of `ProviderMonitor` and `LiveLogs` are
together in `Monitoring_proofs`, which extends both (this is why `LiveLogs` names its initial states and
steps `LogsInit` and `LogsNext`). `FreePool` is proved about in `ConfigStore_proofs`, and `JobTable` in
`BackgroundJobs_proofs`.

## 3. BackgroundJobs

**State.** `row[j]` is job j's row, `proc[p]` the place of process p in
`execute_background_job_once`, `cancelling` the job whose cancel request has
passed its check (the handler is synchronous inside the event loop, so there is one).
`crashes` counts against a bound and `reclaimed[j]` counts leases taken back; the
code keeps neither. Chunks are kept as the set of attempts that wrote some,
answers as the attempt that gave them. Times are what remains of them, in ticks.

**Atomicity.** One SQL statement, or one `BEGIN IMMEDIATE` block, is one
action. `cancel_job` is `CancelRead` then `CancelWrite`; `fail_or_retry_job` is
`FailOrRetryRead` then `FailOrRetryWrite`; anything may come between. The
attempt is `LeaseNextJob`, `HeartbeatJob` (whose result the code ignores),
`AppendPartialOutput`, then `CompleteJob` or `AttemptError`. `CompleteJob` may
end in the failure path: the row is read again after the commit, and an
exception there reaches the except clause of the attempt. `Crash` and `Restart`
are possible at every point. `CleanupExpiredLeases` is an operation of the
module that nothing under `src/` calls; it is included because an operator or a
sidecar may. Not modelled: `fail_or_retry_job` when its own reads raise inside
the except clause and the process goes on to die, which is `Crash`.

**Abstract specification.** `JobTable` is a table with atomic operations: `Submit`,
`Grant`, `Renew`, `Finish`, `PutBack`, `GiveUp`, `Cancel`, `Requeue`, and leases that `Lapse`. `BackgroundJobs` with the refinement mapping
`Table` (status classes, worker, attempts, output, the set of running leases)
implements it: split statements, late answers and crashes add no behaviour.

**Runs.**

| Run | Instance | Shows |
|---|---|---|
| `jobs_one` | one job, two processes with ids of their own, attempts that may outlive leases, two crashes, five leases | `NoLeaseStolen`, `OutputOfLatestAttempt`, `RetryBudget`, `UnownedCancelIsFinal`, the inductive invariant `Inv`, and `ImplementsTable` |
| `jobs_live` | two jobs, one of which no built-in worker can run, two fair workers, one crash, attempts within their leases | `JobsSettle`: each job created reaches a terminal status and stays |
| `jobs_cancel` | | finding: a cancelled running job does not stay cancelled |

*Bounds.* The rows do not interact except through the order in which they are
leased, so the safety run has one job and the liveness run two. Two processes are enough for an
attempt to be overtaken, and five leases allow max_attempts = 2 to be exceeded
by expired leases and then by crashes. Lease and retry last one tick and a running lease two, so that
both orders of their ends occur. Process symmetry is used in the safety run only.

*Fairness.* `JobsSettle` assumes weak fairness of each worker's own steps (the
loop of `run_worker` never ends, each await in it has a timeout), of `Restart`
(workers run under a supervisor) and of time. Nothing makes clients, cleanups
or crashes happen, and `AppendPartialOutput` is not fair: a stream ends. It is
checked with `SlowWorkers = FALSE`: if attempts may outlive their leases for
ever, they are retaken for ever, as `reclaimed` in `RetryBudget` records. The bound on the
leases (`AttemptCap = 4`) is what max_attempts plus one crash can use, so it hides nothing.

**Proofs** (`BackgroundJobs_proofs`). `NoLeaseStolen`
and `RetryBudget` are not inductive. `Inv` adds `Claim(p)`, what a process may rely
on: as long as the row bears its id, the row is in the attempt it leased, and
its answer to "attempts left?" still holds; while its lease runs, the row is its
own or has ended; and `Shape(j)`, what a row looks like in each status. From `Inv`
follow the invariants, the action property `UnownedCancelIsFinal`, and the
refinement: each step maps to one step of `JobTable` or to a stutter.

All but `TypeCorrect` assume `UniqueWorkerIds`. It is the README's convention
and not ensured by the code: two workers started without `--worker-id` share
`slowbrain-worker`, and then the fencing by id tells them apart no longer.

## 4. ChatRouting

**State.** `req[r]` (where the handler is, the position of the endpoint,
whether reasoning_content was stripped, and the handler's own counter `attempt_no`), `order[r]` (what the resolver
returned), `rows[r]` and `logs[r]` (what it wrote to ProviderAttempts and Logs),
`cool` (remaining cooldowns).

**Atomicity.** An action runs from one await of the handler to the next. The
operator `Proceed` is the rest of a turn of the loop: it records the endpoints
passed over because they cool or are too small, and begins the attempt at the
next one, or answers 502. Statuses and bodies are kept in the classes that the
handlers tell apart (`Answers`); both handlers are in the module and differ where
the code does: how they treat pages (`Page`, `AnswerTicks`) and the stream
(`StartStream`, `EndStream`, `BreakStream`, `LeaveStream`).

**Runs.** `routing`: a buffered and a streamed request, three endpoints (a Codex
account with OAuth, one too small for both requests, and a chat endpoint) in two
orders, one restart, all answers. Cooldown lengths 1 and 2 let one failure ask for less than what
remains of another. It shows `AttemptsNumbered`, `EndpointsInOrder`,
`OutcomeRecorded`, `CooldownHolds` and `RequestsEnd` over 244,238 states.
Two requests are enough for one to touch the other's cooldown; the three
endpoints include a skip of each kind between two attempts.

*Fairness.* Each handler goes on: all its awaits have a timeout
(`httpx.AsyncClient` is built with one, 375), and the body of a stream ends or
breaks off under the same read timeout. Clients, time and restarts are not fair.

**Proofs** (`ChatRouting_proofs`). `TypeCorrect`, `AttemptsAreNumbered`,
`OutcomeIsRecorded` and `FailuresKeepCooldowns`, for any requests, endpoints and
orders. Their core are lemmas on `Proceed`, on the concatenation of rows it
makes, and on the maximum in `SetCooldown`.

`AttemptsNumbered` is about two things the handler keeps apart: the counter that `begin_attempt` moves, on each path
that begins an attempt (a skip, a try, the sanitized retry), and the rows that are written later, on each path
that ends one. The invariant says what links them while an attempt is under way: the counter is one more than
the number of rows, unless the request has ended.

`ChainsFollowTheOrder` proves `EndpointsInOrder`, which is not inductive: it does not say how
far a chain has come. `Stage` does. `Decided(w, o, b)` says that the rows w settle the first b endpoints of the
order o, each once, and speak of no other; `Midway` that there is one more row, for the first try of a
sanitized retry, which settles nothing. A request in flight at position `at` is `Decided` to
`at - 1`, or `Midway` if its retry is running; one that failed is decided to the end. `Proceed` is the step that
matters: the skips it records settle the endpoints between the old position and the new.

**Left out.** A `stream` value that is truthy without being true (it takes a
third path, `proxy_stream`); statements on the log tables that raise (the
handler then takes them for a failure of the provider: a hazard without a property
yet); what a handler does to the Codex registry and to tokens (that is in
`CodexRegistry` and `OAuthTokens`). Whether an endpoint is too small is constant for a request.

## 5. RoundRobin

**State.** `config` (members and strategy of one group), `counter`, `loop` (the
resolution in progress; there is one, since the event loop runs them and they do not
await), `req`. `last` is history: the list last rotated, and how
often each endpoint has come first since another list was.
A resolution is two actions, `Begin` (the endpoints are collected) and `Route`
(the strategy is read and the counter moved): each takes `config_lock` for
itself, and the watcher's `ChangeConfig` may come between. What the accounts'
blocks, catalogs and logins leave of the members is a constant set of lists,
`Lists[c]`; nested groups and duplicates are inside it.

**Runs.** `round_robin`: two requests, each resolved by the middleware and then by the
handler, three resolutions by somebody else, three configurations (two lists of
different length and a fixed order), every subset of three endpoints eligible,
one restart (1.0 million states). It shows that while one list is rotated and no other, by whomever and through
whatever changes of the strategy, no endpoint has come first two times more than another
(`EvenTurns`), and that a rotation keeps each endpoint (`OrderIsComplete`). Seven rotations go twice around a list of
three. `round_robin_even` is a finding: with two endpoints, the
middleware takes every second turn, and each request begins at the same endpoint.

**What the model shows besides.** The counter is shared by all lists that a group has had. When an account
comes and goes between rotations, the lists alternate and turns are repeated or passed over: at 2, 3 and 4, the
lists abc, ab and abc begin with c, b and b. Nothing bounds this; `EvenTurns` begins to count anew whenever
another list is rotated, and no document says what the use of lists that change should be.

**Proofs** (`RoundRobin_proofs`). `TypeCorrect`, and `TurnsAreEven`, which proves `EvenTurns` for lists of any length.
The invariant `Balanced` says where the counts stand: each endpoint has had the same number of turns b, and those from some
position s up to the counter, going around the end, one more (`Even`, `Between`); s is where the counter stood when
the list was first rotated. A turn extends that interval by one, or closes the circle and raises b; the
rest is three lemmas on remainders. `OrdersAreComplete`: wherever a
rotation begins, it has the endpoints of its list and as many of them. `OrdersAreUsable` ties this
module to `ChatRouting`: every order that a request is given has endpoints, at least one and none twice, which is
what `OrdersAssumption` says there. The hypothesis `Unrepeated` of both is what the resolver's dictionary
`unique` (`codex_registry.py`:268) makes true of the lists. The playground does not go through it, so `TurnsAreEven` has
`MembersApart` too: no member is listed twice.

## 6. ProviderMonitor

**State.** `task` (where `provider_monitor_loop` is), `monitor` (the settings it
was built with), `states` (its `_states`), `results` and `events` (what the check
in progress has still to record and to send), `config` (what `get_ntfy_config`
would return). `outage` is history: for each name, failures since the last success, the alerts
raised and their fate. A test that raises is recorded under "unknown", as in
`test_all_provider_models` (1803). The list of providers is fixed, and a provider
has one model. The threshold is fixed at the start, edits of it wait for a restart.
An interval that is not a number ends the task (`dead`).

**Runs.** `monitor`: two providers, three checks, four configurations, one restart:
`OneAlertPerOutage`, `EveryAlertTried`, `RecoveryAnswersAlert`. With a threshold of two, three checks
reach an outage, an alert and a recovery, and a failure after the alert.

**Proofs** (`Monitoring_proofs`): the type invariant and the three
properties, from an invariant that ties `states` to the history (a provider is
marked as notified exactly if the outage has its one alert) and each waiting
alert to an event in the queue.

The module models the monitor as `main.startup` starts it. FastAPI has
registered the first `startup` before `main.py` (475) replaces the name, so a
deployment may not run the loop at all; that is listed as a hazard and outside the model.

## 7. CodexRegistry

**State.** For one Codex account: `catalog` and `models` (its row of CodexCatalogs, its rows of
CodexModels, taken as the catalog they came from), `blocks` (its rows of CodexBlocks, with `*`
for the whole account), `tasks` and `callers` (refreshes and chat requests under way),
`identity` (who is logged in) and, outside the code, `published` (which version the
provider lists). `limited`, `confirmed` and `late` are history.

**Atomicity.** A refresh is `BeginCatalog` (the etag and the tokens are read), the
answer of the provider, and the write in one transaction; usage likewise. A chat
request reads the registry when it asks and writes when its answer is noted, as a rejection
(`NoteRejected`), a limit (`NoteUsageLimit`, `NoteRateLimit`) or a success. `Login`
is `update_codex_profile` with another identity and may come between any two of these.

**Run.** `codex_registry`: one model, two refreshes and two requests at a time, two
versions of one catalog and an identity with another, one failed refresh or restart, a clock of two
values with ends of limits on both sides of it (1.7 million states). `EtagNamesStoredModels`: whatever
refreshes cross, the etag in the table is that of the models in the table. `FailClosed`:
a failed refresh makes no catalog young. `LimitHolds`: a row with two reasons is not deleted
for the wrong one. `AccountLimitHolds`, `IdentityDiscarded`, and `CatalogFollows`: when
catalogs and logins stop changing, the models in the table become those the
provider lists. Two refreshes are what it takes for one to write over the other's answer.

*Fairness.* Only the catalog task of `_model_loop`, which never ends (each pass catches its
exceptions, each request has a timeout).

**What the model shows besides.** `IdentityDiscarded` needs `late`: an answer to a request
of the old identity that arrives after the login is stored under the new one, and stays
until the next refresh. A 304 for an older etag gives the date of its check to a different catalog
stored meanwhile. A slow refresh that began with an old etag deletes a rejection
although the catalog has not changed since (331).

**Proofs** (`CodexRegistry_proofs`). All five safety properties, for any models, tasks, callers,
catalogs and lengths of time. The invariant adds to the types: the answer a task holds
is of the identity it asked for and under its own etag (`Answers`); no catalog is younger than the
last success (`Ages`); the account's row bears no reason that a catalog deletes, and
a model that was limited last has a row with the reason rate_limit that lasts as long (`Reasons`).

**Left out.** CodexQuota (shown to the admin only), the parsing of the answers.

## 8. OAuthTokens

**State.** One provider, which `codex` makes a Codex profile or another provider with an `authorize_url` (a
profile's is empty, 952, so it has only the device login). `provider` is its record in `config_data`, `file` the
one in `config.yml`: the refresh token (with the access token it came with), the token `expires_at` was given for, and
`oauth_reauth_required`. `events` and `watcher` are the watchdog's: the file was modified, and the record its thread has
loaded and not yet assigned. `page` is an admin's page of the configuration. `requests` are those under way, with the
copy that `provider_to_endpoint` made; `device`, `pollers` and `callback` the two kinds of login. Outside the
code: `good` (which refresh token of each login is accepted), `answers`, `code`, `grants`. `lost` and `restored` are
history. A token is the login it comes from and the number of the answer that brought it.

**Who acts.** Chat requests (`Chats`), tests by an admin (`Tests`), `refresh_catalog` (`Catalogs`) and
`fetch_codex_usage` (`Usages`), of which some are the loops' own (`Loops`) and the others follow a login. Only chat passes over a
marked profile (`_eligible`); a refused renewal ends the request, except that the usage goes on with the
tokens there are.

**Atomicity.** `Begin` takes the copy, and only in chat is there an await between it and `EnsureToken` (other endpoints
may have been tried before). `Exchange` is the provider's side: the next refresh token may come with the answer, or the old one
stays good. `StoreTokens` writes into the record it then finds by name. `RenewalRefused` is any error status, of a used token or of a
good one (429, 503); it marks the provider. `Unauthorized` marks too, whatever the token is worth. `Save` is
part of each action that saves: it writes the file, raises the event, and replaces the records, so one that is held across an await
(`admin_provider_oauth_callback`) becomes one nobody reads (`holding_old`). `Load` and `Assign` are the two halves of `reload_config`.

**Run.** `oauth_tokens`: a chat request, the catalog and the usage loop, one more login (by device, with a page
that polls, or by redirect), one date that comes due, and one fault: an error for a good token, a lost answer, an answer without a
refresh token or without `expires_in`, a restart, or an old page (594,000 states). Three requests are enough for one to renew while
another is refused and a third holds an older copy. `RefreshTokenGood`: the refresh token in the file is good, or its
successor is on its way or was lost with an answer; and memory is what the file is, or a reload is still to come.
`TokensRenewed`: a profile whose date has come is renewed, whatever failures and marks came before. `MarkLifted`: the mark of
such a profile goes with that, although chat passes over it meanwhile.

*What is exempted* (`restored`): an admin's page that was rendered before and is saved now, and any save while a reload that crossed
another save holds memory back, write an older record over the file's, used refresh token included. The code
does nothing against either; from then on the properties are silent about that behaviour. A reload alone is not exempted: it
brings the older record only into memory, and the event of the save that it crossed makes that good.

*Fairness.* `_model_loop` and `_usage_loop` begin again and again; each request goes on, since its calls have
timeouts; the watchdog's thread loads and assigns. Expiry, logins, pages, errors and lost answers are not fair, and
there are finitely many of them (`FaultCap`): a token endpoint that failed for ever would renew nothing.

**What the model shows besides.** Any error of the token endpoint, also a 429 for a good token, marks the
provider, and chat passes over the account until the next renewal. The loser of two renewals marks the provider after the
winner has stored its tokens: the mark then stays until the tokens are due again. A device login empties `expires_at`, so
its tokens are never renewed, and a late 401 for an older copy marks it until the next login. The
redirect login does not take the mark off. A renewal that began before a login overwrites the tokens of the login.

**Proofs** (`OAuthTokens_proofs`). `TypesHold` (no step leaves a record without a refresh token) and
`RefreshTokensAreGood`, for any requests, pages, logins and bounds. `RefreshTokenGood` is not inductive. The invariant `IInv`
adds to the types: nothing that is held anywhere (record, file, page, watcher, copies) is newer than
the last answer of its login (`Tracked`), so an answer's token is new; a token on its way into the record is the
good one, and nobody else has it (`OnTheWay`), so storing it is right whoever has saved in between; the tokens of logins to come, and of
those a page has yet to store, are with nobody (`Logins`); the watchdog has brought the file into memory or is about to (`Settling`).
`TokensRenewed` and `MarkLifted` are liveness properties and only model-checked.

**Abstractions.** A date comes due when `provider_token_expiring` says so, which may be before or after the access token runs out, since
the code takes 60 seconds off and reads its own naive UTC date as local time (2008, 2079): the model lets it come due at any moment.
Access tokens are not judged apart: every answer to a request is possible with every token.
**Left out.** Deletion of the provider, tokens pasted into the form of `admin_providers_add_codex_token` or edited by hand, a second device login at the same time, two providers at once.

## 9. FreePool and ConfigStore

**State.** `file` and `memory` are pairs of what is the user's (providers, groups) and the pools laid
over it. `loop` and `watcher` are the two threads; `events` says that the watchdog has
yet to load a change; `editor` and `page` hold what a human will write: an
editor's copy, a form of the admin's. `active` and `cache` are the registry in
memory and on disk, `keys` the table of stored keys. `FreePool` holds the functions that make the
pool of a registry version, the environment and the keys: who is eligible,
which keys serve an account, duplicates, the order of the members.

**Atomicity.** `config_lock` is held for a load, an assignment or an application, not from
one to the next. The watcher's reload is `Load`, `Assign`, `WatcherReads`, `WatcherApplies`; a save or a
change of keys in the event loop is the edit with its save, `LoopReads`, `LoopApplies`, and `SaveCache`
after a refresh. An edit makes its check (for example `HasCycle`) on the memory it finds.

**Run.** `config_store`: a provider, two groups and the pool's name, two keys, two versions of the
registry, three changes, one restart or failed read, beginning with a clean file or with one an older version wrote its
overlay into (842,000 states). `Converged`: a reload may
put an older file into memory for a moment, and the event of the save makes it good. `NothingManagedInFile`,
`PoolCurrent`, and `NoGroupCycles`: creations, renames and deletions that are acyclic
when checked do not make a cycle together, whatever was reloaded in between. Three changes are enough for a
save between `Load` and `Assign` and another one after it.

**What the model shows besides.** An edit made from memory that a reload has
just made old, or before a hand edit is loaded, writes old content over the file:
memory and file agree, but an edit is lost. A read of the keys that fails
gives an empty list and so an empty pool, until something applies the registry
again. The same holds when the watcher's thread has read the rows, or the registry, before the event loop changes and
applies them, and applies its own afterwards: the old pool stays. `PoolCurrent`, `PoolFollows` and `PoolStaysCurrent` leave
out exactly these cases (`stale`): they say that nothing else loses the pool or leaves an old one. A group of the user's that is named `free-models` is replaced by the pool and lost with the next save.

**Assumed and left out.** A save is one step: `config.yml` is opened with "w", so a crash, or the watcher's read, can meet a
half-written file, which the module does not have. Nobody writes a cycle, or an old pool, into the file by hand after the
start. Editors that replace the file by renaming raise no `on_modified` (nothing is loaded then). The
normalisation of old schemas (`normalize_config_schema` of `codex_entrypoint.py`, 102-150, adds entries to memory only,
so that memory then has more than the file until the next save), the fetching of the registry and the encryption of the keys are
left out. There is no liveness property: the watchdog promises none.

**Proofs** (`ConfigStore_proofs`). `FileAndMemoryConverge`, `FileStaysTheUsers`, `GroupsStayAcyclic`
and `PoolFollows`, for any providers, groups, registries and keys, from the invariant `IInv`.
`Converged` speaks of rest only; `InStep` says what holds before it: if no event waits and nobody is
editing the file, the data the watcher is about to assign is the file's, and otherwise memory is.
`FileClean`: only the start finds an old pool in the file, and then memory has it too and will be saved
without it. A reload by the watcher of the dirty file itself does not happen in the model, since nothing modifies it before the
clean-up has. `Shapes`: whatever may still be assigned or saved (the watcher's data, an
editor's copy, a page's form) is itself acyclic, since a check of memory says nothing of the others; the core is
the lemma that a group `HasCycle` does not find to lead back to itself closes no cycle (`NoCycleFound`).
`PoolFollows` says that the pool in memory at rest is what `PoolOf` makes of the registry and the
keys, unless it is stale. `PoolStaysCurrent` proves `PoolCurrent`, what FREE_MODELS.md promises of it, member by member: every usable key
of every chosen model is there, nothing else is, none is twice, and they are sorted with the keys of a model
together. The model sorts by rank: the i-th member is the one that i - 1 others are `Before`. The proof is that
`Before` is a strict order of the tuples, so that ranks are different and fill an interval, for any
finite set; that the first of several rows with the same key stands for all of them; and
that the tables keep their types (`Tables`).

## 10. LiveLogs

**State.** `logs` (how many rows Logs has), `markers` (ActiveRequests), `requests` under way, `pages`
(the rows and running requests a page shows, the last id it knows, the answer it waits
for). `orphans` and `flooded` are history.

**Atomicity.** The middleware's `Arrive` inserts the marker, the handler's `Log` the row, `Finish`
removes the marker when the body has been consumed. A poll is the read of the rows, the read of
the markers, and the page's update. `Raise`, `Abandon` (a body that is never iterated, a
cancelled task) and `Restart` end a request in other ways.

**Run.** `live_logs`: two requests at a time, four in all, a page that keeps three rows and is told of two
at a time, two restarts or failed polls (680,000 states). `RowsComplete`: all rows, each once, newest first, whatever is
logged during a poll. `PagesSettle`: a page comes to know the last row and to lose
each request that got to `finish_active_request`.

*Fairness.* A page that is shown polls every second; a request ends, by its timeout at the latest.

**What the model shows besides.** When more rows than the limit come between two polls, the newest id
is returned with the oldest rows, and the rest never shows up (`flooded`): with 100
rows a second, or after a page was hidden, since a hidden page does not poll. A marker whose request ended
without `finish_active_request` stays for ever (`orphans`).

**Proofs** (`Monitoring_proofs`). `PagesAreComplete` proves `RowsComplete`, for any slots, pages, sizes and
bounds. What a page is going to show depends on the answer it waits for, so the invariant speaks of both: the rows of an
answer follow each other, and if the answer was not cut off they go from the last row that the page knows to
the last that the answer names, whatever is logged in between. `addLog` takes the rows of an answer one by one; that a page
that had all rows up to the first has all rows up to the last is an induction over the answer,
made of a lemma on sets of numbers. Liveness (`PagesSettle`) is model-checked only.

## 11. StreamTranslation

**State.** Outside the code: the answer as the provider makes it (`items`, `sent`). In the code:
what `text_buffer` holds (`buffer`), `tool_states` (`tools`), `next_tool_index`, `saw_tool_call`.
`client` is what a chat client puts together from the chunks. A piece of text or
arguments is the number of the event that brought it. `BufferedCalls` and `BufferedText` are what
`extract_response_text_from_sse` makes of the whole transcript.

**Run.** `stream`: two items with three deltas, for the eight kinds of providers that announce calls or
not, number them or not, and list the output at the end or not (1.7 million states). `SameAnswer`: of an answer
that was completed, a client that streams gets the same calls as one that does not, and every piece of text that came in deltas;
if there are no calls, that is also the text the other one gets. `EndsProperly`: arguments come after their call's start, and a reason to stop
only when the provider has ended. Two items are enough for deltas to mix, three deltas for one
item to have several. Deadlock is not checked: streams end.

**What the model shows besides.** Each chunk is decoded by itself, so a character that the network cuts is damaged
(`damaged`). `response.failed`, or a stream that ends early, is reported as "stop". Text that comes
without deltas is not streamed, although the buffered path returns it. Of an answer with both text and calls the
buffered path returns the calls with `content: null` (`main.py` 171-172, 189-193, `runtime_entrypoint.py` 71-73), and the stream both:
the two kinds of clients do not get the same text then, and `SameAnswer` does not say so.

**Proofs** (`StreamTranslation_proofs`). `EndsAreProper` and `AnswersAreSame`, for answers of any length with any
number of items and any mixture of their events. The invariant has a part for each side. `Transcript`: each
event is of an item; an item's pieces are its deltas in their order, or one that came with the done; nothing follows an
item's done, and nothing `response.completed`. `CallsKnown`, `CallsTold`, `TextTold`: of the events read so far,
the calls known are those of which there was one, each with an index of its own, and the client has exactly their pieces up to the
last event read (`Upto`). `Ended`: a reason to stop is given when everything was read. At the end of a completed answer
"up to the last event read" is all, which is compared with what the buffered path collects: it sorts positions
(`Ascending`, sorted by rank), takes for each item the last event that shows it, which `Transcript` says is its done, and
joins the deltas' pieces.

**Assumed.** Events of an item bear its id, and the arguments of a call that was not announced come at once.
**Left out.** `chat_to_responses_payload`, the translation of requests.

## 12. What the findings say

1. `CancelIsFinal` (`jobs_cancel`): README.md:69 and `TERMINAL_STATUSES` against `complete_job` and
   `fail_or_retry_job`, whose WHERE does not look at the status.
2. `EvenUse` (`round_robin_even`): README.md:25 against the middleware that resolves the group as well.

Three more places where the documents and the code part are in the models as the code has them, without a run:
a built-in worker leases without `worker_types` and so takes, and fails, the jobs
README.md:346-347 gives to an external one; `clear_provider_cooldown` clears a
cooldown younger than the request that succeeds, so `Retry-After` is cut short (README.md:264-269);
and the one alert of an outage is noted as given before it is sent, so a failed notification is never
repeated (README.md:78-79).

## 13. Checked, proved, and neither

Proved, as listed in `PROJECT.json`: every safety property that a passing run checks, invariants and action
properties alike, for every value of the constants. Each is first checked by TLC, and so were
the inductive invariants while they were being found. Only model-checked are the liveness properties
`JobsSettle`, `RequestsEnd`, `CatalogFollows`, `TokensRenewed`, `MarkLifted` and `PagesSettle` (the prover has no
rules for fairness here). The two findings are counterexamples of TLC's.

Where a proof goes on from one element to the next (the rows of an answer, the ranks of a sorted set, the deltas of a
text), the library's induction theorems cannot be used, since they take a predicate as a parameter. The
induction is over sets instead: a set of numbers that is not empty has a least one (from the theorems on
well-founded relations), so a set that has 0 and with n has n + 1 has all.

The constants' assumptions (`JobsAssumption`, `TimeAssumption`,
`EndpointsAssumption`, `OrdersAssumption`, `TicksAssumption`,
`RoutingAssumption`, `MonitorAssumption`, `RegistryAssumption`, `TokensAssumption`, `PoolAssumption`,
`StoreAssumption`, `LiveLogsAssumption`, `StreamAssumption`) are evaluated by TLC in the runs. The
theorems use them and, for the queue, `UniqueWorkerIds`; `OrdersAreUsable` and `TurnsAreEven` of `RoundRobin` have the hypothesis
`Unrepeated`, the latter `MembersApart` too. No theorem relies on
the bounds `AttemptCap`, `CrashCap`, `ExtraCap` or `CheckCap` having a particular value.

**Not modelled.** Playground jobs (a dictionary in memory, pruned after an hour) and audio
transcriptions (the loop of `ChatRouting` without cooldowns and rows): little state, planned last. Not
planned: templates and layout, deployment files, pricing pages, usage reports and
benchmarks (reports over stored rows), API keys and admin authentication (single
statements). SQLite and the upstreams are present only through what the code does with
their answers: statements are atomic and durable.
