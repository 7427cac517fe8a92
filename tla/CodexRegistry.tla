---------------------------- MODULE CodexRegistry ----------------------------
(***************************************************************************)
(* What codex_registry.py remembers about one Codex account: the catalog    *)
(* of its models, and the models it may not be asked for.  (CodexQuota is   *)
(* for display only and is left out.)                                       *)
(*                                                                         *)
(* The tables are written by refreshes of the catalog and of the usage, by  *)
(* the answers to chat requests, and by a new login, which may put another  *)
(* ChatGPT identity under the same name.  Each of them sends with the       *)
(* tokens of the identity it found and writes when its answer is there, so  *)
(* any of them may come in between.                                         *)
(***************************************************************************)
EXTENDS Integers, Sequences

CONSTANTS
    Models,     \* slugs
    Account,    \* the slug '*': the window all models of the account share
    Tasks,      \* tasks that refresh: those of the two loops, of a login, of an admin
    ModelLoop,  \* the one of _model_loop
    Callers,    \* chat requests at a time
    Catalogs,   \* what the provider lists: identity -> version -> items
    CatalogAge, \* CATALOG_STALE_SECONDS
    RejectedFor,\* REJECTED_MODEL_SECONDS
    LimitedFor, \* the end of a limit that names none, in note_error
    Resets,     \* the ends of limits the provider names
    MaxTime,    \* bound: the clock
    ErrorCap    \* bound: refreshes that fail, and restarts

None == [none |-> TRUE]
Waiting == [waiting |-> TRUE]
Unchanged == [status |-> 304]

Identities == 1..Len(Catalogs)
Versions(i) == 1..Len(Catalogs[i])
Slugs == Models \cup {Account}

ASSUME RegistryAssumption ==
    /\ Account \notin Models
    /\ ModelLoop \in Tasks
    /\ Catalogs \in Seq(Seq(Seq([slug: Models, visible: BOOLEAN])))
    /\ Catalogs # <<>>
    /\ Resets \subseteq Nat
    /\ CatalogAge \in Nat /\ RejectedFor \in Nat /\ LimitedFor \in Nat \ {0}
    /\ MaxTime \in Nat /\ ErrorCap \in Nat

VARIABLES
    now,
    identity,   \* who is logged in
    published,  \* external: the version of its catalog each identity is shown
    catalog,    \* the row of CodexCatalogs
    models,     \* the rows of CodexModels: the catalog they were taken from
    blocks,     \* the rows of CodexBlocks
    tasks,      \* refreshes under way
    callers,    \* chat requests under way
    errors,     \* refreshes that have failed, and restarts
    limited,    \* history: the end of the limit that was the last the provider
                \* said of each model, 0 if it was something else
    confirmed,  \* history: when the last successful refresh of the catalog began
    late        \* history: an answer to an earlier identity was written

vars == <<now, identity, published, catalog, models, blocks, tasks,
          callers, errors, limited, confirmed, late>>

Max2(a, b) == IF a > b THEN a ELSE b

Init ==
    /\ now = 1
    /\ identity = 1
    /\ published = [i \in Identities |-> 1]
    /\ catalog = None /\ models = None
    /\ blocks = [s \in Slugs |-> None]
    /\ tasks = [t \in Tasks |-> None]
    /\ callers = [c \in Callers |-> None]
    /\ errors = 0
    /\ limited = [m \in Models |-> 0]
    /\ confirmed = 0
    /\ late = FALSE

-----------------------------------------------------------------------------
(* Which models the account is asked for *)

\* parse_models keeps the first visible item of each slug.
Listed(src) ==
    {item.slug : item \in {Catalogs[src.identity][src.version][k] :
        k \in {n \in DOMAIN Catalogs[src.identity][src.version] :
                   Catalogs[src.identity][src.version][n].visible}}}

Fresh == catalog # None /\ catalog.updated # 0 /\ now - catalog.updated <= CatalogAge

CatalogModels == IF Fresh /\ models # None THEN Listed(models) ELSE {}

\* block_until: the end of the blocks in force, 0 if there are none.
Blocks(m) == {s \in {m, Account} : blocks[s] # None /\ blocks[s].until > now}

Eligible(m) == m \in CatalogModels /\ Blocks(m) = {}

-----------------------------------------------------------------------------
(* Blocks *)

\* Mutant: a block keeps the reason it was first given.
BlockWithOldReason(old, reason, until) ==
    IF old = None THEN [reason |-> reason, until |-> until]
    ELSE [reason |-> old.reason, until |-> Max2(old.until, until)]

\* Mutant: a block ends when the last answer says.
BlockWithLastEnd(old, reason, until) == [reason |-> reason, until |-> until]

\* The row after INSERT ... ON CONFLICT: the last reason and the latest end.
Block(old, reason, until) ==
    [reason |-> reason, until |-> IF old = None THEN until ELSE Max2(old.until, until)]

RecordBlock(s, reason, until) ==
    blocks' = IF until <= now THEN blocks
              ELSE [blocks EXCEPT ![s] = Block(@, reason, until)]

Note(m, end) == limited' = [limited EXCEPT ![m] = end]

\* An end that has passed, or is missing, is replaced by a minute from now.
LimitEnd(end) == IF end <= now THEN now + LimitedFor ELSE end

-----------------------------------------------------------------------------
(* Chat requests *)

Ask(c, m) ==
    /\ callers[c] = None
    /\ Eligible(m)
    /\ callers' = [callers EXCEPT ![c] = [model |-> m, by |-> identity]]
    /\ UNCHANGED <<now, identity, published, catalog, models, blocks,
                   tasks, errors, limited, confirmed, late>>

Answered(c) ==
    /\ callers[c] # None
    /\ callers' = [callers EXCEPT ![c] = None]
    /\ late' = (late \/ callers[c].by # identity)
    /\ UNCHANGED <<now, identity, published, catalog, models, tasks,
                   errors, confirmed>>

\* 400 model_not_found.
NoteRejected(c) ==
    /\ Answered(c)
    /\ LET m == callers[c].model IN
         /\ RecordBlock(m, "model_not_found", now + RejectedFor)
         /\ Note(m, 0)

\* 429 usage_limit_reached: the account's own window.
NoteUsageLimit(c) ==
    /\ Answered(c)
    /\ \E end \in Resets : RecordBlock(Account, "usage_limit_reached", LimitEnd(end))
    /\ UNCHANGED limited

\* 429 with any other code: this model only.
NoteRateLimit(c) ==
    /\ Answered(c)
    /\ \E end \in Resets :
         LET m == callers[c].model IN
         /\ RecordBlock(m, "rate_limit", LimitEnd(end))
         /\ Note(m, LimitEnd(end))

\* The blocks note_success deletes.
Lifted(m) == {m}

NoteSuccess(c) ==
    /\ Answered(c)
    /\ LET m == callers[c].model IN
         /\ blocks' = [s \in Slugs |-> IF s \in Lifted(m) THEN None ELSE blocks[s]]
         /\ Note(m, 0)

\* Any other answer, or none: neither a block nor the end of one.
NoteNothing(c) == Answered(c) /\ UNCHANGED <<blocks, limited>>

-----------------------------------------------------------------------------
(* refresh_catalog *)

\* Up to the await: the etag and the tokens are those of now.
BeginCatalog(t) ==
    /\ tasks[t] = None
    /\ tasks' = [tasks EXCEPT ![t] =
           [table |-> "catalog", checked |-> now, by |-> identity,
            etag |-> IF catalog = None THEN None ELSE catalog.etag, reply |-> Waiting]]
    /\ UNCHANGED <<now, identity, published, catalog, models, blocks,
                   callers, errors, limited, confirmed, late>>

\* External: the provider answers for the identity asked, with 304 if the etag
\* is that of its catalog; a catalog may come without an etag.
Shown(i) == [identity |-> i, version |-> published[i]]

AnswerCatalog(t) ==
    /\ tasks[t] # None
    /\ tasks[t].table = "catalog"
    /\ tasks[t].reply = Waiting
    /\ LET src == Shown(tasks[t].by) IN
       IF tasks[t].etag = src
       THEN tasks' = [tasks EXCEPT ![t].reply = Unchanged]
       ELSE \E tag \in {src, None} :
                tasks' = [tasks EXCEPT ![t].reply = [models |-> src, etag |-> tag]]
    /\ UNCHANGED <<now, identity, published, catalog, models, blocks,
                   callers, errors, limited, confirmed, late>>

\* The task ends with an answer for the identity it asked for.
Written(t, table) ==
    /\ tasks[t] # None
    /\ tasks[t].table = table
    /\ tasks' = [tasks EXCEPT ![t] = None]
    /\ late' = (late \/ tasks[t].by # identity)
    /\ UNCHANGED <<now, identity, published, callers>>

\* Mutant: the row takes the etag that was sent.
StampWithEtag(t) ==
    IF catalog = None THEN None
    ELSE [etag |-> tasks[t].etag, updated |-> tasks[t].checked]

\* The row after UPDATE ... WHERE: only its age changes, and only if it is there.
Stamp(t) ==
    IF catalog = None THEN None ELSE [catalog EXCEPT !.updated = tasks[t].checked]

NotModified(t) ==
    /\ Written(t, "catalog")
    /\ tasks[t].reply = Unchanged
    /\ catalog' = Stamp(t)
    /\ confirmed' = Max2(confirmed, tasks[t].checked)
    /\ UNCHANGED <<models, blocks, errors, limited>>

\* One transaction: the row, the models, and, if the etag is not the one that
\* was sent, the end of the rejections.
StoreCatalog(t) ==
    /\ Written(t, "catalog")
    /\ tasks[t].reply \notin {Waiting, Unchanged}
    /\ LET reply == tasks[t].reply IN
         /\ catalog' = [etag |-> reply.etag, updated |-> tasks[t].checked]
         /\ models' = reply.models
         /\ blocks' = [s \in Slugs |->
                IF /\ tasks[t].etag # reply.etag
                   /\ blocks[s] # None /\ blocks[s].reason = "model_not_found"
                THEN None ELSE blocks[s]]
    /\ confirmed' = Max2(confirmed, tasks[t].checked)
    /\ UNCHANGED <<errors, limited>>

\* Mutant: a failure counts as a check of the catalog that is there.
RowAfterErrorAsFresh(t) ==
    [etag |-> IF catalog = None THEN None ELSE catalog.etag,
     updated |-> tasks[t].checked]

\* Mutant: the etag is kept before the catalog that bears it has been read.
RowAfterErrorWithEtag(t) ==
    [etag |-> Shown(tasks[t].by),
     updated |-> IF catalog = None THEN 0 ELSE catalog.updated]

\* A refresh that fails leaves the row as it is, or a row without a catalog.
RowAfterError(t) == IF catalog = None THEN [etag |-> None, updated |-> 0] ELSE catalog

CatalogFails(t) ==
    /\ Written(t, "catalog")
    /\ errors < ErrorCap
    /\ errors' = errors + 1
    /\ catalog' = RowAfterError(t)
    /\ UNCHANGED <<models, blocks, limited, confirmed>>

-----------------------------------------------------------------------------
(* refresh_usage *)

BeginUsage(t) ==
    /\ t # ModelLoop
    /\ tasks[t] = None
    /\ tasks' = [tasks EXCEPT ![t] =
           [table |-> "usage", checked |-> 0, by |-> identity, etag |-> None,
            reply |-> Waiting]]
    /\ UNCHANGED <<now, identity, published, catalog, models, blocks,
                   callers, errors, limited, confirmed, late>>

\* The latest reset of the exhausted windows that lies ahead ends the block.
StoreUsage(t) ==
    /\ Written(t, "usage")
    /\ \/ UNCHANGED blocks
       \/ \E end \in Resets : RecordBlock(Account, "usage_limit_reached", end)
    /\ UNCHANGED <<catalog, models, errors, limited, confirmed>>

\* Only the error of a row that is there changes.
UsageFails(t) ==
    /\ Written(t, "usage")
    /\ errors < ErrorCap
    /\ errors' = errors + 1
    /\ UNCHANGED <<catalog, models, blocks, limited, confirmed>>

-----------------------------------------------------------------------------

\* Mutant: the models of the old identity are left.
ModelsKept == models

ModelsAfterLogin == None

\* update_codex_profile: a new login discards what was learned of the old one.
\* The refreshes it starts are tasks that may begin at any time.
Login ==
    /\ identity < Len(Catalogs)
    /\ identity' = identity + 1
    /\ catalog' = None
    /\ models' = ModelsAfterLogin
    /\ blocks' = [s \in Slugs |-> None]
    /\ limited' = [m \in Models |-> 0]
    /\ confirmed' = 0
    /\ UNCHANGED <<now, published, tasks, callers, errors, late>>

\* The process restarts: what was under way is lost, the tables are not.
Restart ==
    /\ errors < ErrorCap
    /\ errors' = errors + 1
    /\ tasks' = [t \in Tasks |-> None]
    /\ callers' = [c \in Callers |-> None]
    /\ UNCHANGED <<now, identity, published, catalog, models, blocks,
                   limited, confirmed, late>>

\* External: the provider changes the catalog of an identity.
Publish(i) ==
    /\ published[i] + 1 \in Versions(i)
    /\ published' = [published EXCEPT ![i] = @ + 1]
    /\ UNCHANGED <<now, identity, catalog, models, blocks, tasks, callers,
                   errors, limited, confirmed, late>>

Tick ==
    /\ now < MaxTime
    /\ now' = now + 1
    /\ UNCHANGED <<identity, published, catalog, models, blocks, tasks,
                   callers, errors, limited, confirmed, late>>

CatalogTask(t) ==
    BeginCatalog(t) \/ AnswerCatalog(t) \/ NotModified(t) \/ StoreCatalog(t)

Next ==
    \/ \E c \in Callers :
         \/ \E m \in Models : Ask(c, m)
         \/ NoteRejected(c) \/ NoteUsageLimit(c) \/ NoteRateLimit(c)
         \/ NoteSuccess(c) \/ NoteNothing(c)
    \/ \E t \in Tasks :
         \/ CatalogTask(t) \/ CatalogFails(t)
         \/ BeginUsage(t) \/ StoreUsage(t) \/ UsageFails(t)
    \/ Login \/ Restart
    \/ \E i \in Identities : Publish(i)
    \/ Tick

\* _model_loop never ends, its requests time out, and the process is started again.
FairSpec == Init /\ [][Next]_vars /\ WF_vars(CatalogTask(ModelLoop))

-----------------------------------------------------------------------------
(* Properties *)

\* An etag in the table is that of the models in the table, whatever refreshes
\* and logins have come between: the next 304 speaks of the models that are
\* stored (refresh_catalog, update_codex_profile).
EtagNamesStoredModels ==
    catalog # None /\ catalog.etag # None => catalog.etag = models

\* A model is asked for only within CATALOG_STALE_SECONDS of a refresh that
\* succeeded since the last login: "Fail closed if discovery has never succeeded
\* or the catalog has expired."  A refresh that fails does not keep the catalog
\* young.
FailClosed ==
    (\E m \in Models : Eligible(m)) => confirmed # 0 /\ now - confirmed <= CatalogAge

\* A rate limit that was the last the provider said of a model holds to its end,
\* even if the row was made for a rejection, and whatever catalogs come in:
\* only a success, a later rejection or a login lets the model be asked for.
LimitHolds ==
    \A m \in Models : limited[m] > now => ~Eligible(m)

\* What is known is known of the identity that is logged in, unless an answer to
\* a request sent before the login came after it: "Discard old identity-specific
\* catalogs and quota windows."
IdentityDiscarded ==
    ~late =>
        /\ models # None => models.identity = identity
        /\ catalog # None /\ catalog.etag # None => catalog.etag.identity = identity

\* The window of the account is never shortened by the success of a model, by a
\* new catalog or by a limit with an earlier end; only a login ends it early.
AccountLimitHolds ==
    [][blocks[Account] # None /\ blocks[Account].until > now /\ identity' = identity
       => /\ blocks'[Account] # None
          /\ blocks'[Account].until >= blocks[Account].until]_vars

\* Once catalogs and logins no longer change, the stored models become those the
\* provider lists for the account, and stay so.
CatalogFollows == <>[](models = Shown(identity))
=============================================================================
