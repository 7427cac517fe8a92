------------------------- MODULE CodexRegistry_proofs -------------------------
(***************************************************************************)
(* Proofs about CodexRegistry, for any models, tasks, callers, catalogs and *)
(* lengths of time.                                                         *)
(***************************************************************************)
EXTENDS CodexRegistry, TLAPS

Source == [identity: Identities, version: Nat]
Etag == Source \cup {None}
Reply == {Waiting, Unchanged} \cup [models: Source, etag: Etag]
Task == [table: {"catalog", "usage"}, checked: Nat, by: Identities, etag: Etag,
         reply: Reply]

Codes == {"model_not_found", "usage_limit_reached", "rate_limit"}

Typed ==
    /\ now \in Nat /\ confirmed \in Nat
    /\ late \in BOOLEAN
    /\ identity \in Identities
    /\ published \in [Identities -> Nat]
    /\ catalog \in {None} \cup [etag: Etag, updated: Nat]
    /\ models \in {None} \cup Source
    /\ blocks \in [Slugs -> {None} \cup [reason: Codes, until: Nat]]
    /\ tasks \in [Tasks -> {None} \cup Task]
    /\ callers \in [Callers -> {None} \cup [model: Models, by: Identities]]
    /\ limited \in [Models -> Nat]

\* The answer of a task is of the identity it asked for, and so is its etag.
Answers ==
    \A t \in Tasks :
        tasks[t] # None /\ tasks[t].reply \notin {Waiting, Unchanged} =>
            /\ tasks[t].reply.models.identity = tasks[t].by
            /\ tasks[t].reply.etag # None =>
                   tasks[t].reply.etag = tasks[t].reply.models

\* A catalog is no younger than the last refresh that succeeded.
Ages == catalog # None => catalog.updated <= confirmed

\* The account is blocked for its window only, and a model that was limited last
\* has a row that no new catalog deletes.
Reasons ==
    /\ blocks[Account] # None => blocks[Account].reason = "usage_limit_reached"
    /\ \A m \in Models :
           limited[m] > now => /\ blocks[m] # None
                               /\ blocks[m].reason = "rate_limit"
                               /\ blocks[m].until >= limited[m]

IInv ==
    /\ Typed
    /\ Answers /\ Ages /\ Reasons
    /\ EtagNamesStoredModels /\ IdentityDiscarded

-----------------------------------------------------------------------------
(* Values *)

LEMMA NoneIsNoRow ==
    /\ \A r, u : [reason |-> r, until |-> u] # None
    /\ \A e, u : [etag |-> e, updated |-> u] # None
BY DEF None

LEMMA AnswersDiffer ==
    /\ Waiting # Unchanged
    /\ \A s, e : [models |-> s, etag |-> e] \notin {Waiting, Unchanged}
BY DEF Waiting, Unchanged

LEMMA SlugsKnown == Account \in Slugs /\ Models \subseteq Slugs /\ Account \notin Models
BY RegistryAssumption DEF Slugs

LEMMA LoginsKnown == Identities \subseteq Nat /\ 1 \in Identities
<1>1. Len(Catalogs) \in Nat /\ Len(Catalogs) > 0
  BY RegistryAssumption
<1> QED
  BY <1>1 DEF Identities

LEMMA Max2Bounds ==
    ASSUME NEW a \in Nat, NEW b \in Nat
    PROVE  Max2(a, b) \in Nat /\ Max2(a, b) >= a /\ Max2(a, b) >= b
BY DEF Max2

LEMMA ShownIsSource ==
    ASSUME Typed, NEW i \in Identities
    PROVE  Shown(i) \in Source /\ Shown(i).identity = i
BY DEF Typed, Shown, Source

-----------------------------------------------------------------------------
(* What the actions share *)

\* Nothing the other conjuncts speak of changes.
LEMMA OnlyTypesMatter ==
    ASSUME IInv, Typed',
           UNCHANGED <<now, identity, catalog, models, blocks, tasks, limited,
                       confirmed, late>>
    PROVE  IInv'
BY DEF IInv, Answers, Ages, Reasons, EtagNamesStoredModels, IdentityDiscarded

\* A task ends.
LEMMA TaskEnds ==
    ASSUME Typed, Answers, NEW t \in Tasks, tasks' = [tasks EXCEPT ![t] = None]
    PROVE  tasks' \in [Tasks -> {None} \cup Task] /\ Answers'
<1>1. tasks' \in [Tasks -> {None} \cup Task]
  BY DEF Typed
<1>2. \A u \in Tasks : tasks'[u] # None => tasks'[u] = tasks[u]
  BY DEF Typed
<1> QED
  BY <1>1, <1>2 DEF Answers

\* A task begins, with what it has yet to learn.
LEMMA TaskBegins ==
    ASSUME IInv, NEW t \in Tasks, NEW task \in Task, task.reply = Waiting,
           tasks' = [tasks EXCEPT ![t] = task],
           UNCHANGED <<now, identity, published, catalog, models, blocks,
                       callers, errors, limited, confirmed, late>>
    PROVE  IInv'
<1>1. Typed'
  BY DEF IInv, Typed
<1>2. Answers'
  <2>1. \A u \in Tasks : tasks'[u] = IF u = t THEN task ELSE tasks[u]
    BY DEF IInv, Typed
  <2> QED
    BY <2>1 DEF IInv, Answers
<1>3. Ages' /\ Reasons' /\ EtagNamesStoredModels' /\ IdentityDiscarded'
  BY DEF IInv, Ages, Reasons, EtagNamesStoredModels, IdentityDiscarded
<1> QED
  BY <1>1, <1>2, <1>3 DEF IInv

\* The row of a slug after a block has been recorded for it.
LEMMA BlockRecorded ==
    ASSUME Typed, NEW s \in Slugs, NEW reason \in Codes, NEW until \in Nat,
           RecordBlock(s, reason, until)
    PROVE  /\ blocks' \in [Slugs -> {None} \cup [reason: Codes, until: Nat]]
           /\ \A x \in Slugs : x # s => blocks'[x] = blocks[x]
           /\ until <= now => blocks' = blocks
           /\ until > now => /\ blocks'[s] # None
                            /\ blocks'[s].reason = reason
                            /\ blocks'[s].until >= until
           /\ blocks[s] # None => /\ blocks'[s] # None
                                 /\ blocks'[s].until >= blocks[s].until
<1>1. CASE until <= now
  <2>1. blocks' = blocks
    BY <1>1 DEF RecordBlock
  <2>2. until \in Nat /\ now \in Nat
    BY DEF Typed
  <2>3. blocks[s] # None => blocks[s].until \in Nat
    BY DEF Typed
  <2> QED
    BY <1>1, <2>1, <2>2, <2>3 DEF Typed
<1>2. CASE ~(until <= now)
  <2>1. blocks' = [blocks EXCEPT ![s] = Block(blocks[s], reason, until)]
    BY <1>2 DEF RecordBlock
  <2>2. PICK u : u = IF blocks[s] = None THEN until ELSE Max2(blocks[s].until, until)
    OBVIOUS
  <2>3. blocks[s] # None => blocks[s].until \in Nat
    BY DEF Typed
  <2>4. u \in Nat /\ u >= until /\ (blocks[s] # None => u >= blocks[s].until)
    <3>1. CASE blocks[s] = None
      BY <2>2, <3>1
    <3>2. CASE blocks[s] # None
      <4>1. u = Max2(blocks[s].until, until)
        BY <2>2, <3>2
      <4> QED
        BY <2>3, <3>2, <4>1, Max2Bounds
    <3> QED
      BY <3>1, <3>2
  <2>5. Block(blocks[s], reason, until) = [reason |-> reason, until |-> u]
    BY <2>2 DEF Block
  <2>6. blocks' = [blocks EXCEPT ![s] = [reason |-> reason, until |-> u]]
    BY <2>1, <2>5
  <2>7. /\ blocks' \in [Slugs -> {None} \cup [reason: Codes, until: Nat]]
        /\ blocks'[s] = [reason |-> reason, until |-> u]
        /\ \A x \in Slugs : x # s => blocks'[x] = blocks[x]
    BY <2>4, <2>6 DEF Typed
  <2> QED
    BY <1>2, <2>4, <2>7, NoneIsNoRow
<1> QED
  BY <1>1, <1>2

LEMMA LimitLiesAhead ==
    ASSUME Typed, NEW end \in Resets
    PROVE  LimitEnd(end) \in Nat /\ LimitEnd(end) > now
<1>1. end \in Nat /\ now \in Nat /\ LimitedFor \in Nat /\ LimitedFor > 0
  BY RegistryAssumption DEF Typed
<1> QED
  BY <1>1 DEF LimitEnd

-----------------------------------------------------------------------------
(* Chat requests *)

LEMMA AskKeeps ==
    ASSUME IInv, NEW c \in Callers, NEW m \in Models, Ask(c, m)
    PROVE  IInv'
<1>1. callers' \in [Callers -> {None} \cup [model: Models, by: Identities]]
  BY DEF Ask, IInv, Typed
<1>2. Typed'
  BY <1>1 DEF Ask, IInv, Typed
<1> QED
  BY <1>2, OnlyTypesMatter DEF Ask

\* An answer touches blocks and limits only.
LEMMA AnsweredKeeps ==
    ASSUME IInv, NEW c \in Callers, Answered(c),
           blocks' \in [Slugs -> {None} \cup [reason: Codes, until: Nat]],
           limited' \in [Models -> Nat], Reasons'
    PROVE  IInv'
<1>1. callers' \in [Callers -> {None} \cup [model: Models, by: Identities]]
  BY DEF Answered, IInv, Typed
<1>2. late' \in BOOLEAN /\ (late => late')
  BY DEF Answered
<1>3. UNCHANGED <<now, identity, published, catalog, models, tasks, errors, confirmed>>
  BY DEF Answered
<1>4. Typed'
  BY <1>1, <1>2, <1>3 DEF IInv, Typed
<1>5. Answers' /\ Ages' /\ EtagNamesStoredModels' /\ IdentityDiscarded'
  BY <1>2, <1>3 DEF IInv, Answers, Ages, EtagNamesStoredModels, IdentityDiscarded
<1> QED
  BY <1>4, <1>5 DEF IInv

LEMMA CallerModel ==
    ASSUME Typed, NEW c \in Callers, Answered(c)
    PROVE  /\ callers[c].model \in Models
           /\ callers[c].model \in Slugs /\ callers[c].model # Account
           /\ now' = now
BY SlugsKnown DEF Typed, Answered

LEMMA NoteRejectedKeeps ==
    ASSUME IInv, NEW c \in Callers, NoteRejected(c)
    PROVE  IInv'
<1>1. Answered(c) /\ Typed
  BY DEF NoteRejected, IInv
<1>2. PICK m : m = callers[c].model
  OBVIOUS
<1>3. m \in Models /\ m \in Slugs /\ m # Account /\ now' = now
  BY <1>1, <1>2, CallerModel
<1>a. PICK reason \in Codes : reason = "model_not_found"
  BY DEF Codes
<1>b. PICK until : until = now + RejectedFor
  OBVIOUS
<1>4. /\ RecordBlock(m, reason, until)
      /\ limited' = [limited EXCEPT ![m] = 0]
  BY <1>2, <1>a, <1>b DEF NoteRejected, Note
<1>5. until \in Nat
  BY <1>1, <1>b, RegistryAssumption DEF Typed
<1>6. /\ blocks' \in [Slugs -> {None} \cup [reason: Codes, until: Nat]]
      /\ \A x \in Slugs : x # m => blocks'[x] = blocks[x]
  BY <1>1, <1>3, <1>4, <1>5, BlockRecorded
<1>7. /\ limited' \in [Models -> Nat] /\ ~(limited'[m] > now)
      /\ \A x \in Models : x # m => limited'[x] = limited[x]
  BY <1>1, <1>3, <1>4 DEF Typed
<1>8. Reasons'
  BY <1>3, <1>6, <1>7, SlugsKnown DEF IInv, Reasons
<1> QED
  BY <1>1, <1>6, <1>7, <1>8, AnsweredKeeps

LEMMA NoteUsageLimitKeeps ==
    ASSUME IInv, NEW c \in Callers, NoteUsageLimit(c)
    PROVE  IInv'
<1>1. Answered(c) /\ Typed /\ now' = now /\ limited' = limited
  BY DEF NoteUsageLimit, IInv, Answered
<1>a. PICK reason \in Codes : reason = "usage_limit_reached"
  BY DEF Codes
<1>b. PICK end \in Resets : RecordBlock(Account, reason, LimitEnd(end))
  BY <1>a DEF NoteUsageLimit
<1>c. PICK until : until = LimitEnd(end)
  OBVIOUS
<1>2. RecordBlock(Account, reason, until)
  BY <1>b, <1>c
<1>3. until \in Nat /\ until > now
  BY <1>1, <1>c, LimitLiesAhead
<1>4. /\ blocks' \in [Slugs -> {None} \cup [reason: Codes, until: Nat]]
      /\ \A x \in Slugs : x # Account => blocks'[x] = blocks[x]
      /\ blocks'[Account].reason = reason
  BY <1>1, <1>2, <1>3, BlockRecorded, SlugsKnown
<1>5. Reasons'
  BY <1>1, <1>4, <1>a, SlugsKnown DEF IInv, Reasons
<1>6. limited' \in [Models -> Nat]
  BY <1>1 DEF Typed
<1> QED
  BY <1>1, <1>4, <1>5, <1>6, AnsweredKeeps

LEMMA NoteRateLimitKeeps ==
    ASSUME IInv, NEW c \in Callers, NoteRateLimit(c)
    PROVE  IInv'
<1>1. Answered(c) /\ Typed
  BY DEF NoteRateLimit, IInv
<1>2. PICK m : m = callers[c].model
  OBVIOUS
<1>3. m \in Models /\ m \in Slugs /\ m # Account /\ now' = now
  BY <1>1, <1>2, CallerModel
<1>a. PICK reason \in Codes : reason = "rate_limit"
  BY DEF Codes
<1>b. PICK end \in Resets : /\ RecordBlock(m, reason, LimitEnd(end))
                            /\ limited' = [limited EXCEPT ![m] = LimitEnd(end)]
  BY <1>2, <1>a DEF NoteRateLimit, Note
<1>c. PICK until : until = LimitEnd(end)
  OBVIOUS
<1>4. RecordBlock(m, reason, until) /\ limited' = [limited EXCEPT ![m] = until]
  BY <1>b, <1>c
<1>5. until \in Nat /\ until > now
  BY <1>1, <1>c, LimitLiesAhead
<1>6. /\ blocks' \in [Slugs -> {None} \cup [reason: Codes, until: Nat]]
      /\ \A x \in Slugs : x # m => blocks'[x] = blocks[x]
      /\ blocks'[m] # None /\ blocks'[m].reason = reason
      /\ blocks'[m].until >= until
  BY <1>1, <1>3, <1>4, <1>5, BlockRecorded
<1>7. /\ limited' \in [Models -> Nat] /\ limited'[m] = until
      /\ \A x \in Models : x # m => limited'[x] = limited[x]
  BY <1>1, <1>3, <1>4, <1>5 DEF Typed
<1>8. Reasons'
  BY <1>3, <1>6, <1>7, <1>a, SlugsKnown DEF IInv, Reasons
<1> QED
  BY <1>1, <1>6, <1>7, <1>8, AnsweredKeeps

LEMMA NoteSuccessKeeps ==
    ASSUME IInv, NEW c \in Callers, NoteSuccess(c)
    PROVE  IInv'
<1>1. Answered(c) /\ Typed
  BY DEF NoteSuccess, IInv
<1>2. PICK m : m = callers[c].model
  OBVIOUS
<1>3. m \in Models /\ m \in Slugs /\ m # Account /\ now' = now
  BY <1>1, <1>2, CallerModel
<1>4. /\ blocks' = [s \in Slugs |-> IF s \in {m} THEN None ELSE blocks[s]]
      /\ limited' = [limited EXCEPT ![m] = 0]
  BY <1>2 DEF NoteSuccess, Note, Lifted
<1>5. /\ blocks' \in [Slugs -> {None} \cup [reason: Codes, until: Nat]]
      /\ \A x \in Slugs : x # m => blocks'[x] = blocks[x]
  BY <1>1, <1>4 DEF Typed
<1>6. /\ limited' \in [Models -> Nat] /\ ~(limited'[m] > now)
      /\ \A x \in Models : x # m => limited'[x] = limited[x]
  BY <1>1, <1>3, <1>4 DEF Typed
<1>7. Reasons'
  BY <1>3, <1>5, <1>6, SlugsKnown DEF IInv, Reasons
<1> QED
  BY <1>1, <1>5, <1>6, <1>7, AnsweredKeeps

LEMMA NoteNothingKeeps ==
    ASSUME IInv, NEW c \in Callers, NoteNothing(c)
    PROVE  IInv'
<1>1. Answered(c) /\ UNCHANGED <<blocks, limited, now>>
  BY DEF NoteNothing, Answered
<1>2. /\ blocks' \in [Slugs -> {None} \cup [reason: Codes, until: Nat]]
      /\ limited' \in [Models -> Nat] /\ Reasons'
  BY <1>1 DEF IInv, Typed, Reasons
<1> QED
  BY <1>1, <1>2, AnsweredKeeps

-----------------------------------------------------------------------------
(* Refreshes *)

LEMMA BeginCatalogKeeps ==
    ASSUME IInv, NEW t \in Tasks, BeginCatalog(t)
    PROVE  IInv'
<1>1. PICK task : task = [table |-> "catalog", checked |-> now, by |-> identity,
                          etag |-> IF catalog = None THEN None ELSE catalog.etag,
                          reply |-> Waiting]
  OBVIOUS
<1>2. (IF catalog = None THEN None ELSE catalog.etag) \in Etag
  BY DEF IInv, Typed, Etag
<1>3. task \in Task /\ task.reply = Waiting
  BY <1>1, <1>2 DEF IInv, Typed, Task, Reply
<1>4. tasks' = [tasks EXCEPT ![t] = task]
  BY <1>1 DEF BeginCatalog
<1> QED
  BY <1>3, <1>4, TaskBegins DEF BeginCatalog

LEMMA BeginUsageKeeps ==
    ASSUME IInv, NEW t \in Tasks, BeginUsage(t)
    PROVE  IInv'
<1>1. PICK task : task = [table |-> "usage", checked |-> 0, by |-> identity,
                          etag |-> None, reply |-> Waiting]
  OBVIOUS
<1>2. task \in Task /\ task.reply = Waiting
  BY <1>1 DEF IInv, Typed, Task, Reply, Etag
<1>3. tasks' = [tasks EXCEPT ![t] = task]
  BY <1>1 DEF BeginUsage
<1> QED
  BY <1>2, <1>3, TaskBegins DEF BeginUsage

\* An answer, of either kind, is put into the record of the task.
LEMMA AnswerCatalogKeeps ==
    ASSUME IInv, NEW t \in Tasks, AnswerCatalog(t)
    PROVE  IInv'
<1>1. tasks[t] \in Task
  BY DEF AnswerCatalog, IInv, Typed
<1>2. PICK src : src = Shown(tasks[t].by)
  OBVIOUS
<1>3. src \in Source /\ src.identity = tasks[t].by
  BY <1>1, <1>2, ShownIsSource DEF IInv, Task
<1>4. PICK reply \in Reply :
        /\ tasks' = [tasks EXCEPT ![t].reply = reply]
        /\ \/ reply = Unchanged
           \/ reply.models = src /\ reply.etag \in {src, None}
  <2>1. CASE tasks[t].etag = src
    <3>1. Unchanged \in Reply
      BY DEF Reply
    <3>2. tasks' = [tasks EXCEPT ![t].reply = Unchanged]
      BY <1>2, <2>1 DEF AnswerCatalog
    <3> QED
      BY <3>1, <3>2
  <2>2. CASE tasks[t].etag # src
    <3>1. PICK tag \in {src, None} :
            tasks' = [tasks EXCEPT ![t].reply = [models |-> src, etag |-> tag]]
      BY <1>2, <2>2 DEF AnswerCatalog
    <3>2. [models |-> src, etag |-> tag] \in Reply
      BY <1>3 DEF Reply, Etag
    <3> QED
      BY <3>1, <3>2
  <2> QED
    BY <2>1, <2>2
<1>5. PICK task : task = [tasks[t] EXCEPT !.reply = reply]
  OBVIOUS
<1>6. task \in Task /\ task.reply = reply /\ task.by = tasks[t].by
  BY <1>1, <1>5 DEF Task
<1>7. tasks' = [tasks EXCEPT ![t] = task]
  BY <1>4, <1>5
<1>8. Typed'
  BY <1>6, <1>7 DEF AnswerCatalog, IInv, Typed
<1>9. Answers'
  <2>1. \A u \in Tasks : tasks'[u] = IF u = t THEN task ELSE tasks[u]
    BY <1>7 DEF IInv, Typed
  <2> QED
    BY <1>3, <1>4, <1>6, <2>1 DEF IInv, Answers
<1>10. Ages' /\ Reasons' /\ EtagNamesStoredModels' /\ IdentityDiscarded'
  BY DEF AnswerCatalog, IInv, Ages, Reasons, EtagNamesStoredModels, IdentityDiscarded
<1> QED
  BY <1>8, <1>9, <1>10 DEF IInv

\* What a task that ends may rely on.
LEMMA WrittenFacts ==
    ASSUME IInv, NEW t \in Tasks, NEW table, Written(t, table)
    PROVE  /\ tasks[t] \in Task
           /\ tasks' \in [Tasks -> {None} \cup Task] /\ Answers'
           /\ late' \in BOOLEAN /\ (late => late')
           /\ ~late' => tasks[t].by = identity
           /\ UNCHANGED <<now, identity, published, callers>>
<1>1. tasks' \in [Tasks -> {None} \cup Task] /\ Answers'
  BY TaskEnds DEF Written, IInv
<1> QED
  BY <1>1 DEF Written, IInv, Typed

LEMMA NotModifiedKeeps ==
    ASSUME IInv, NEW t \in Tasks, NotModified(t)
    PROVE  IInv'
<1>1. /\ tasks[t] \in Task
      /\ tasks' \in [Tasks -> {None} \cup Task] /\ Answers'
      /\ late' \in BOOLEAN /\ (late => late')
      /\ UNCHANGED <<now, identity, published, callers, models, blocks, limited>>
  BY WrittenFacts DEF NotModified
<1>2. PICK n \in Nat : n = tasks[t].checked
  BY <1>1 DEF Task
<1>3. confirmed' \in Nat /\ confirmed' >= n
  <2>1. confirmed' = Max2(confirmed, n) /\ confirmed \in Nat
    BY <1>2 DEF NotModified, IInv, Typed
  <2> QED
    BY <2>1, Max2Bounds
<1>4. /\ catalog = None => catalog' = None
      /\ catalog # None => /\ catalog' \in [etag: Etag, updated: Nat]
                           /\ catalog'.etag = catalog.etag /\ catalog'.updated = n
  BY <1>2 DEF NotModified, Stamp, IInv, Typed
<1>5. Typed'
  BY <1>1, <1>3, <1>4 DEF IInv, Typed
<1>6. Ages' /\ Reasons' /\ EtagNamesStoredModels' /\ IdentityDiscarded'
  BY <1>1, <1>3, <1>4 DEF IInv, Ages, Reasons, EtagNamesStoredModels, IdentityDiscarded
<1> QED
  BY <1>1, <1>5, <1>6 DEF IInv

LEMMA StoreCatalogKeeps ==
    ASSUME IInv, NEW t \in Tasks, StoreCatalog(t)
    PROVE  IInv'
<1>1. /\ tasks[t] \in Task
      /\ tasks' \in [Tasks -> {None} \cup Task] /\ Answers'
      /\ late' \in BOOLEAN /\ (late => late')
      /\ ~late' => tasks[t].by = identity
      /\ UNCHANGED <<now, identity, published, callers, limited>>
  BY WrittenFacts DEF StoreCatalog
<1>2. PICK reply : reply = tasks[t].reply
  OBVIOUS
<1>3. /\ reply \in [models: Source, etag: Etag]
      /\ reply.models.identity = tasks[t].by
      /\ reply.etag # None => reply.etag = reply.models
  BY <1>1, <1>2 DEF StoreCatalog, Written, IInv, Answers, Task, Reply
<1>4. PICK n \in Nat : n = tasks[t].checked
  BY <1>1 DEF Task
<1>5. confirmed' \in Nat /\ confirmed' >= n
  <2>1. confirmed' = Max2(confirmed, n) /\ confirmed \in Nat
    BY <1>4 DEF StoreCatalog, IInv, Typed
  <2> QED
    BY <2>1, Max2Bounds
<1>6. catalog' = [etag |-> reply.etag, updated |-> n] /\ models' = reply.models
  BY <1>2, <1>4 DEF StoreCatalog
<1>7. /\ blocks' \in [Slugs -> {None} \cup [reason: Codes, until: Nat]]
      /\ \A s \in Slugs :
            \/ blocks'[s] = blocks[s]
            \/ /\ blocks[s] # None /\ blocks[s].reason = "model_not_found"
               /\ blocks'[s] = None
  BY DEF StoreCatalog, IInv, Typed
<1>8. Typed'
  BY <1>1, <1>3, <1>5, <1>6, <1>7 DEF IInv, Typed
<1>9. Ages' /\ EtagNamesStoredModels'
  BY <1>3, <1>5, <1>6 DEF Ages, EtagNamesStoredModels
<1>10. IdentityDiscarded'
  BY <1>1, <1>3, <1>6 DEF IdentityDiscarded
<1>11. Reasons'
  <2>1. blocks'[Account] # None => blocks'[Account].reason = "usage_limit_reached"
    BY <1>7, SlugsKnown DEF IInv, Reasons
  <2>2. ASSUME NEW m \in Models, limited'[m] > now'
        PROVE  /\ blocks'[m] # None /\ blocks'[m].reason = "rate_limit"
               /\ blocks'[m].until >= limited'[m]
    <3>1. /\ blocks[m] # None /\ blocks[m].reason = "rate_limit"
          /\ blocks[m].until >= limited[m]
      BY <1>1, <2>2 DEF IInv, Reasons
    <3> QED
      BY <1>1, <1>7, <3>1, SlugsKnown
  <2> QED
    BY <2>1, <2>2 DEF Reasons
<1> QED
  BY <1>1, <1>8, <1>9, <1>10, <1>11 DEF IInv

LEMMA CatalogFailsKeeps ==
    ASSUME IInv, NEW t \in Tasks, CatalogFails(t)
    PROVE  IInv'
<1>1. /\ tasks' \in [Tasks -> {None} \cup Task] /\ Answers'
      /\ late' \in BOOLEAN /\ (late => late')
      /\ UNCHANGED <<now, identity, published, callers, models, blocks, limited,
                     confirmed>>
  BY WrittenFacts DEF CatalogFails
<1>2. catalog' = IF catalog = None THEN [etag |-> None, updated |-> 0] ELSE catalog
  BY DEF CatalogFails, RowAfterError
<1>3. Typed'
  <2>1. catalog' \in {None} \cup [etag: Etag, updated: Nat]
    BY <1>2 DEF IInv, Typed, Etag
  <2> QED
    BY <1>1, <2>1 DEF IInv, Typed
<1>4. Ages' /\ EtagNamesStoredModels' /\ IdentityDiscarded'
  <2>1. confirmed \in Nat
    BY DEF IInv, Typed
  <2>2. CASE catalog = None
    BY <1>1, <1>2, <2>1, <2>2 DEF IInv, Ages, EtagNamesStoredModels, IdentityDiscarded
  <2>3. CASE catalog # None
    BY <1>1, <1>2, <2>3 DEF IInv, Ages, EtagNamesStoredModels, IdentityDiscarded
  <2> QED
    BY <2>2, <2>3
<1>5. Reasons'
  BY <1>1 DEF IInv, Reasons
<1> QED
  BY <1>1, <1>3, <1>4, <1>5 DEF IInv

LEMMA StoreUsageKeeps ==
    ASSUME IInv, NEW t \in Tasks, StoreUsage(t)
    PROVE  IInv'
<1>1. /\ tasks' \in [Tasks -> {None} \cup Task] /\ Answers'
      /\ late' \in BOOLEAN /\ (late => late')
      /\ UNCHANGED <<now, identity, published, callers, catalog, models, limited,
                     confirmed>>
  BY WrittenFacts DEF StoreUsage
<1>2. /\ blocks' \in [Slugs -> {None} \cup [reason: Codes, until: Nat]]
      /\ Reasons'
  <2>1. CASE UNCHANGED blocks
    BY <1>1, <2>1 DEF IInv, Typed, Reasons
  <2>2. CASE \E end \in Resets : RecordBlock(Account, "usage_limit_reached", end)
    <3>a. PICK reason \in Codes : reason = "usage_limit_reached"
      BY DEF Codes
    <3>1. PICK end \in Resets : RecordBlock(Account, reason, end)
      BY <2>2, <3>a
    <3>2. end \in Nat /\ now \in Nat /\ Typed
      BY RegistryAssumption DEF IInv, Typed
    <3>3. /\ blocks' \in [Slugs -> {None} \cup [reason: Codes, until: Nat]]
          /\ \A x \in Slugs : x # Account => blocks'[x] = blocks[x]
          /\ blocks' = blocks \/ blocks'[Account].reason = reason
      BY <3>1, <3>2, BlockRecorded, SlugsKnown
    <3> QED
      BY <1>1, <3>3, <3>a, SlugsKnown DEF IInv, Reasons
  <2> QED
    BY <2>1, <2>2 DEF StoreUsage
<1>3. Typed'
  BY <1>1, <1>2 DEF IInv, Typed
<1>4. Ages' /\ EtagNamesStoredModels' /\ IdentityDiscarded'
  BY <1>1 DEF IInv, Ages, EtagNamesStoredModels, IdentityDiscarded
<1> QED
  BY <1>1, <1>2, <1>3, <1>4 DEF IInv

LEMMA UsageFailsKeeps ==
    ASSUME IInv, NEW t \in Tasks, UsageFails(t)
    PROVE  IInv'
<1>1. /\ tasks' \in [Tasks -> {None} \cup Task] /\ Answers'
      /\ late' \in BOOLEAN /\ (late => late')
      /\ UNCHANGED <<now, identity, published, callers, catalog, models, blocks,
                     limited, confirmed>>
  BY WrittenFacts DEF UsageFails
<1>2. Typed'
  BY <1>1 DEF IInv, Typed
<1>3. Ages' /\ Reasons' /\ EtagNamesStoredModels' /\ IdentityDiscarded'
  BY <1>1 DEF IInv, Ages, Reasons, EtagNamesStoredModels, IdentityDiscarded
<1> QED
  BY <1>1, <1>2, <1>3 DEF IInv

-----------------------------------------------------------------------------
(* The other steps *)

LEMMA LoginKeeps == IInv /\ Login => IInv'
<1> SUFFICES ASSUME IInv, Login PROVE IInv'
  OBVIOUS
<1>1. identity' \in Identities
  <2>1. Len(Catalogs) \in Nat
    BY RegistryAssumption
  <2> QED
    BY <2>1 DEF Login, IInv, Typed, Identities
<1>2. /\ catalog' = None /\ models' = None /\ confirmed' = 0
      /\ blocks' = [s \in Slugs |-> None] /\ limited' = [m \in Models |-> 0]
      /\ UNCHANGED <<now, published, tasks, callers, late>>
  BY DEF Login, ModelsAfterLogin
<1>3. Typed'
  BY <1>1, <1>2 DEF IInv, Typed
<1>4. Answers' /\ Ages' /\ EtagNamesStoredModels' /\ IdentityDiscarded'
  BY <1>2 DEF IInv, Answers, Ages, EtagNamesStoredModels, IdentityDiscarded
<1>5. Reasons'
  BY <1>2, SlugsKnown DEF IInv, Typed, Reasons
<1> QED
  BY <1>3, <1>4, <1>5 DEF IInv

LEMMA RestartKeeps == IInv /\ Restart => IInv'
<1> SUFFICES ASSUME IInv, Restart PROVE IInv'
  OBVIOUS
<1>1. Typed'
  BY DEF Restart, IInv, Typed
<1>2. Answers'
  BY DEF Restart, Answers
<1>3. Ages' /\ Reasons' /\ EtagNamesStoredModels' /\ IdentityDiscarded'
  BY DEF Restart, IInv, Ages, Reasons, EtagNamesStoredModels, IdentityDiscarded
<1> QED
  BY <1>1, <1>2, <1>3 DEF IInv

LEMMA PublishKeeps == ASSUME IInv, NEW i \in Identities, Publish(i) PROVE IInv'
<1>1. published' \in [Identities -> Nat]
  BY DEF Publish, IInv, Typed
<1>2. Typed'
  BY <1>1 DEF Publish, IInv, Typed
<1> QED
  BY <1>2, OnlyTypesMatter DEF Publish

LEMMA TickKeeps == IInv /\ Tick => IInv'
<1> SUFFICES ASSUME IInv, Tick PROVE IInv'
  OBVIOUS
<1>1. Typed'
  BY DEF Tick, IInv, Typed
<1>2. Reasons'
  <2>1. \A m \in Models : limited[m] > now' => limited[m] > now
    BY DEF Tick, IInv, Typed
  <2> QED
    BY <2>1 DEF Tick, IInv, Reasons
<1>3. Answers' /\ Ages' /\ EtagNamesStoredModels' /\ IdentityDiscarded'
  BY DEF Tick, IInv, Answers, Ages, EtagNamesStoredModels, IdentityDiscarded
<1> QED
  BY <1>1, <1>2, <1>3 DEF IInv

LEMMA StepKeeps == IInv /\ [Next]_vars => IInv'
<1> SUFFICES ASSUME IInv, [Next]_vars PROVE IInv'
  OBVIOUS
<1>1. CASE \E c \in Callers :
             \/ \E m \in Models : Ask(c, m)
             \/ NoteRejected(c) \/ NoteUsageLimit(c) \/ NoteRateLimit(c)
             \/ NoteSuccess(c) \/ NoteNothing(c)
  BY <1>1, AskKeeps, NoteRejectedKeeps, NoteUsageLimitKeeps, NoteRateLimitKeeps,
     NoteSuccessKeeps, NoteNothingKeeps
<1>2. CASE \E t \in Tasks : CatalogTask(t)
  BY <1>2, BeginCatalogKeeps, AnswerCatalogKeeps, NotModifiedKeeps, StoreCatalogKeeps
     DEF CatalogTask
<1>3. CASE \E t \in Tasks : CatalogFails(t) \/ BeginUsage(t) \/ StoreUsage(t) \/ UsageFails(t)
  BY <1>3, CatalogFailsKeeps, BeginUsageKeeps, StoreUsageKeeps, UsageFailsKeeps
<1>4. CASE Login \/ Restart \/ Tick \/ \E i \in Identities : Publish(i)
  BY <1>4, LoginKeeps, RestartKeeps, TickKeeps, PublishKeeps
<1>5. CASE UNCHANGED vars
  <2>1. Typed'
    BY <1>5 DEF IInv, Typed, vars
  <2> QED
    BY <1>5, <2>1, OnlyTypesMatter DEF vars
<1> QED
  BY <1>1, <1>2, <1>3, <1>4, <1>5 DEF Next

LEMMA InitHolds == Init => IInv
<1> SUFFICES ASSUME Init PROVE IInv
  OBVIOUS
<1>1. Typed
  BY LoginsKnown DEF Init, Typed
<1>2. Answers /\ Ages /\ EtagNamesStoredModels /\ IdentityDiscarded
  BY DEF Init, Answers, Ages, EtagNamesStoredModels, IdentityDiscarded
<1>3. Reasons
  BY SlugsKnown DEF Init, Reasons
<1> QED
  BY <1>1, <1>2, <1>3 DEF IInv

\* The tables keep their shape and the inductive invariant holds.
THEOREM InvariantHolds == FairSpec => []IInv
BY InitHolds, StepKeeps, PTL DEF FairSpec

-----------------------------------------------------------------------------
(* The properties *)

\* An etag in the table is that of the models in the table.
THEOREM EtagsNameTheirModels == FairSpec => []EtagNamesStoredModels
<1>1. IInv => EtagNamesStoredModels
  BY DEF IInv
<1> QED
  BY <1>1, InvariantHolds, PTL

\* A model is asked for only within the age of a refresh that succeeded since the
\* last login.
THEOREM OldCatalogsClose == FairSpec => []FailClosed
<1>1. IInv => FailClosed
  <2> SUFFICES ASSUME IInv, NEW m \in Models, Eligible(m)
               PROVE  confirmed # 0 /\ now - confirmed <= CatalogAge
    BY DEF FailClosed
  <2>1. Fresh
    BY DEF Eligible, CatalogModels
  <2>2. PICK n \in Nat : n = catalog.updated
    BY <2>1 DEF Fresh, IInv, Typed
  <2>3. n # 0 /\ now - n <= CatalogAge /\ n <= confirmed
    BY <2>1, <2>2 DEF Fresh, IInv, Ages
  <2>4. now \in Nat /\ confirmed \in Nat /\ CatalogAge \in Nat
    BY RegistryAssumption DEF IInv, Typed
  <2> QED
    BY <2>3, <2>4
<1> QED
  BY <1>1, InvariantHolds, PTL

\* A limit that was the last the provider said of a model closes it to its end.
THEOREM LimitsHold == FairSpec => []LimitHolds
<1>1. IInv => LimitHolds
  <2> SUFFICES ASSUME IInv, NEW m \in Models, limited[m] > now, Eligible(m)
               PROVE  FALSE
    BY DEF LimitHolds
  <2>1. /\ blocks[m] # None /\ blocks[m].until >= limited[m]
        /\ blocks[m].until \in Nat /\ limited[m] \in Nat /\ now \in Nat
    BY SlugsKnown DEF IInv, Typed, Reasons
  <2>2. blocks[m].until > now
    BY <2>1
  <2>3. m \in Blocks(m)
    BY <2>1, <2>2 DEF Blocks
  <2> QED
    BY <2>3 DEF Eligible
<1> QED
  BY <1>1, InvariantHolds, PTL

\* Nothing of an earlier identity stays, unless a late answer brought it.
THEOREM OldIdentityIsDiscarded == FairSpec => []IdentityDiscarded
<1>1. IInv => IdentityDiscarded
  BY DEF IInv
<1> QED
  BY <1>1, InvariantHolds, PTL

\* No step but a login deletes or shortens the block of the account.
LEMMA AccountStep ==
    ASSUME IInv, [Next]_vars, blocks[Account] # None, identity' = identity
    PROVE  blocks'[Account] # None /\ blocks'[Account].until >= blocks[Account].until
<1>1. blocks[Account].until \in Nat /\ Typed /\ now \in Nat
  BY SlugsKnown DEF IInv, Typed
<1>2. CASE blocks' = blocks
  BY <1>1, <1>2
<1>3. ASSUME NEW s \in Slugs, NEW reason \in Codes, NEW until \in Nat,
             RecordBlock(s, reason, until)
      PROVE  blocks'[Account] # None /\ blocks'[Account].until >= blocks[Account].until
  BY <1>1, <1>3, BlockRecorded, SlugsKnown
<1>4. CASE \E c \in Callers : NoteRejected(c)
  <2>1. PICK c \in Callers : NoteRejected(c)
    BY <1>4
  <2>a. PICK reason \in Codes : reason = "model_not_found"
    BY DEF Codes
  <2>b. PICK m, until : m = callers[c].model /\ until = now + RejectedFor
    OBVIOUS
  <2>2. RecordBlock(m, reason, until)
    BY <2>1, <2>a, <2>b DEF NoteRejected
  <2>3. m \in Slugs /\ until \in Nat
    BY <1>1, <2>1, <2>b, CallerModel, RegistryAssumption DEF NoteRejected
  <2> QED
    BY <1>3, <2>2, <2>3
<1>5. CASE \E c \in Callers : NoteUsageLimit(c)
  <2>a. PICK reason \in Codes : reason = "usage_limit_reached"
    BY DEF Codes
  <2>1. PICK end \in Resets : RecordBlock(Account, reason, LimitEnd(end))
    BY <1>5, <2>a DEF NoteUsageLimit
  <2>b. PICK until : until = LimitEnd(end)
    OBVIOUS
  <2>2. until \in Nat /\ RecordBlock(Account, reason, until)
    BY <1>1, <2>1, <2>b, LimitLiesAhead
  <2> QED
    BY <1>3, <2>2, SlugsKnown
<1>6. CASE \E c \in Callers : NoteRateLimit(c)
  <2>1. PICK c \in Callers : NoteRateLimit(c)
    BY <1>6
  <2>a. PICK reason \in Codes : reason = "rate_limit"
    BY DEF Codes
  <2>b. PICK m : m = callers[c].model
    OBVIOUS
  <2>2. PICK end \in Resets : RecordBlock(m, reason, LimitEnd(end))
    BY <2>1, <2>a, <2>b DEF NoteRateLimit
  <2>c. PICK until : until = LimitEnd(end)
    OBVIOUS
  <2>3. until \in Nat /\ RecordBlock(m, reason, until)
    BY <1>1, <2>2, <2>c, LimitLiesAhead
  <2>4. m \in Slugs
    BY <1>1, <2>1, <2>b, CallerModel DEF NoteRateLimit
  <2> QED
    BY <1>3, <2>3, <2>4
<1>7. CASE \E c \in Callers : NoteSuccess(c)
  <2>1. PICK c \in Callers : NoteSuccess(c)
    BY <1>7
  <2>2. callers[c].model # Account
    BY <1>1, <2>1, CallerModel DEF NoteSuccess
  <2>3. blocks'[Account] = blocks[Account]
    BY <2>1, <2>2, SlugsKnown DEF NoteSuccess, Lifted
  <2> QED
    BY <1>1, <2>3
<1>8. CASE \E t \in Tasks : StoreCatalog(t)
  <2>1. blocks[Account].reason = "usage_limit_reached"
    BY DEF IInv, Reasons
  <2>2. blocks'[Account] = blocks[Account]
    BY <1>8, <2>1, SlugsKnown DEF StoreCatalog
  <2> QED
    BY <1>1, <2>2
<1>9. CASE \E t \in Tasks : StoreUsage(t)
  <2>a. PICK reason \in Codes : reason = "usage_limit_reached"
    BY DEF Codes
  <2>1. CASE \E end \in Resets : RecordBlock(Account, reason, end)
    BY <1>3, <2>1, SlugsKnown, RegistryAssumption
  <2> QED
    BY <1>2, <1>9, <2>1, <2>a DEF StoreUsage
<1>10. CASE Login
  <2>1. identity \in Nat
    BY LoginsKnown DEF IInv, Typed
  <2> QED
    BY <1>10, <2>1 DEF Login
<1> QED
  BY <1>2, <1>4, <1>5, <1>6, <1>7, <1>8, <1>9, <1>10
     DEF Next, vars, Ask, NoteNothing, CatalogTask, BeginCatalog, AnswerCatalog,
         NotModified, CatalogFails, BeginUsage, UsageFails, Restart, Publish, Tick

\* The window of the account ends early by a login only.
THEOREM AccountLimitsHold == FairSpec => AccountLimitHolds
<1>1. IInv /\ [Next]_vars =>
        [blocks[Account] # None /\ blocks[Account].until > now /\ identity' = identity
         => /\ blocks'[Account] # None
            /\ blocks'[Account].until >= blocks[Account].until]_vars
  BY AccountStep
<1> QED
  BY <1>1, InvariantHolds, PTL DEF FairSpec, AccountLimitHolds
=============================================================================
