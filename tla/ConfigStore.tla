------------------------------ MODULE ConfigStore ------------------------------
(***************************************************************************)
(* config.yml, its copy in memory, and the free models laid over the copy.  *)
(*                                                                         *)
(* Requests change the copy and save it; the watchdog's thread loads the    *)
(* file whenever it was modified, by hand or by such a save; the registry   *)
(* and the table of its keys change what is laid over the copy, which must  *)
(* not get into the file.  config_lock is held for each load, assignment    *)
(* and application, but not from one to the next, and the table of keys is  *)
(* read outside of it.                                                      *)
(***************************************************************************)
EXTENDS FreePool, Functions

CONSTANTS
    Providers,  \* of the administrator
    Groups,     \* names of groups
    Free,       \* one of them: free-models
    GroupEdits, \* the members that a group may be given
    Initially,  \* what is in config.yml at first
    KeyNames,   \* names of stored keys
    Keys,       \* values of keys
    KeyCap,     \* bound: rows in the table of keys
    ChangeCap,  \* bound: edits, changes of keys and refreshes, together
    FaultCap    \* bound: restarts and reads of the keys that fail

Members == Providers \cup Groups
Empty == [providers |-> {}, groups |-> [g \in {} |-> {}]]

\* Among any groups there is one that names none of them.
Acyclic(groups) ==
    \A S \in (SUBSET DOMAIN groups) \ {{}} : \E g \in S : groups[g] \cap S = {}

\* Version 0 stands for none; config.yml is one that the checks of the pages pass.
ASSUME StoreAssumption ==
    /\ Free \in Groups /\ Providers \cap Groups = {} /\ 0 \notin Versions
    /\ Initially.groups \in UNION {[D -> SUBSET Members] : D \in SUBSET Groups}
    /\ Initially = [providers |-> Initially.providers, groups |-> Initially.groups]
    /\ Initially.providers \subseteq Providers /\ Acyclic(Initially.groups)
    /\ \A s \in GroupEdits : s # {} /\ s \subseteq Members
    /\ KeyCap \in Nat /\ ChangeCap \in Nat /\ FaultCap \in Nat

VARIABLES
    file,       \* config.yml: what is the user's, and managed entries left in it
    memory,     \* config_data, likewise
    events,     \* the file was modified since the watchdog's last load
    editor,     \* external: what an editor is about to write into the file
    page,       \* what a page of the admin's was rendered from
    loop,       \* the thread of the event loop
    watcher,    \* the thread of the watchdog
    active,     \* the version in _active_registry, 0 if there is none
    cache,      \* the version in free-models-registry.json, 0 if there is none
    keys,       \* the rows of FreeProviderKeys, by id
    stale,      \* history: what was applied last had been overtaken
    changes, faults

vars == <<file, memory, events, editor, page, loop, watcher, active, cache, keys,
          stale, changes, faults>>

At(pc) == [at |-> pc]

Init ==
    /\ \E pools \in {{}} \cup {{PoolOf(v, <<>>)} : v \in Versions} :
           file = [user |-> Initially, pools |-> pools]
    /\ memory = file
    /\ events = FALSE /\ editor = None /\ page = None
    /\ loop = At("starting") /\ watcher = At("idle")
    /\ active = 0 /\ cache = 0 /\ keys = <<>>
    /\ stale = FALSE /\ changes = 0 /\ faults = 0

-----------------------------------------------------------------------------
(* The overlay *)

\* Mutant: what is in memory is what is saved.
WithOverlay(c) == c

\* strip_managed_overlay
Stripped(c) == [c EXCEPT !.pools = {}]

\* _registry_for_impl
Registry == IF active # 0 THEN active ELSE cache

\* apply_registry: the pool takes the place of a group of its name.
Applied(c, v, rows) ==
    [user |-> [c.user EXCEPT !.groups = Restrict(@, DOMAIN @ \ {Free})],
     pools |-> {PoolOf(v, rows)}]

\* list_stored_key_records: none if the database fails.
ReadKeys(rows) ==
    \/ rows = keys /\ UNCHANGED faults
    \/ faults < FaultCap /\ rows = <<>> /\ faults' = faults + 1

\* Mutant: the watchdog passes over what the server itself writes.
SaveUnseen(c) == file' = Stripped(c) /\ UNCHANGED events

\* The watchdog sees every modification, the server's own too.
Save(c) == file' = Stripped(c) /\ events' = TRUE

\* The thread of the event loop begins something.
Change ==
    /\ loop.at = "idle"
    /\ changes < ChangeCap
    /\ changes' = changes + 1

-----------------------------------------------------------------------------
(* Edits: the whole of each, save_config included, within config_lock *)

User == memory.user

\* save_config_without_registry, called with the lock held.
Edit(user) ==
    /\ Change
    /\ Save([memory EXCEPT !.user = user])
    /\ IF Registry = 0
       THEN /\ memory' = Stripped([memory EXCEPT !.user = user])
            /\ UNCHANGED <<stale, faults>>
       ELSE \E rows \in {keys, <<>>} :
            /\ ReadKeys(rows)
            /\ memory' = Applied([memory EXCEPT !.user = user], Registry, rows)
            /\ stale' = (rows # keys)
    /\ UNCHANGED <<editor, page, loop, watcher, active, cache, keys>>

AddProvider(p) ==
    /\ p \notin User.providers
    /\ Edit([User EXCEPT !.providers = @ \cup {p}])

\* The provider goes from all groups, which may be left without members.
DeleteProvider(p) ==
    /\ p \in User.providers
    /\ Edit([providers |-> User.providers \ {p},
             groups |-> [g \in DOMAIN User.groups |-> User.groups[g] \ {p}]])

\* The groups in memory, the managed one included: its members are no groups.
Known(groups) == DOMAIN groups \cup (IF memory.pools # {} THEN {Free} ELSE {})

\* Mutant: only a group that names itself is refused.
HasCycleOfOne(name, members, groups) == name \in members

\* group_has_cycle: the search from the members comes to the group itself.
HasCycle(name, members, groups) ==
    \A found \in SUBSET Groups :
        /\ members \cap Groups \subseteq found
        /\ \A g \in (found \cap DOMAIN groups) \ {name} : groups[g] \cap Groups \subseteq found
        => name \in found

Put(name, members, groups) ==
    [g \in DOMAIN groups \cup {name} |-> IF g = name THEN members ELSE groups[g]]

\* save_group, with the name the group had before, if any.
SaveGroup(name, members, original) ==
    LET groups == IF memory.pools = {} THEN User.groups
                  ELSE Restrict(User.groups, DOMAIN User.groups \ {Free})
    IN  /\ members \cap Providers \subseteq User.providers
        /\ members \cap Groups \subseteq Known(groups)
        /\ ~HasCycle(name, members, groups)
        /\ original # name => name \notin Known(groups)
        /\ Edit([User EXCEPT !.groups =
                 Put(name, members, Restrict(groups, DOMAIN groups \ {original}))])

\* Those that refer to it still do.
DeleteGroup(name) ==
    /\ name \in Known(User.groups)
    /\ Edit([User EXCEPT !.groups = Restrict(@, DOMAIN @ \ {name})])

\* ensure_group_member, of a provider that upsert_codex_profile has put there.
EnsureMember(name, p) ==
    /\ name # Free /\ p \in User.providers
    /\ LET groups == User.groups
           old == IF name \in DOMAIN groups THEN groups[name] ELSE {}
       IN  Edit([User EXCEPT !.groups = Put(name, old \cup {p}, groups)])

-----------------------------------------------------------------------------
(* The whole file from a page, or from an API client *)

RenderPage ==
    /\ page' = User
    /\ UNCHANGED <<file, memory, events, editor, loop, watcher, active, cache, keys,
                   stale, changes, faults>>

\* Then the registry is applied in further steps of the thread.
ThenApply(fetched) ==
    loop' = IF Registry # 0 THEN [at |-> "reading", fetched |-> fetched] ELSE At("idle")

\* admin_config_save, api_config_update: what the page shows, or without a provider.
SavePage ==
    /\ Change
    /\ page # None
    /\ \E gone \in SUBSET page.providers :
         LET new == [page EXCEPT !.providers = @ \ gone] IN
         /\ Save([user |-> new, pools |-> {}])
         /\ memory' = [user |-> new, pools |-> {}]
    /\ page' = None
    /\ ThenApply(FALSE)
    /\ UNCHANGED <<editor, watcher, active, cache, keys, stale, faults>>

-----------------------------------------------------------------------------
(* The table of keys *)

\* Mutant: the pool is not built again after a change of the table.
LeaveIt == UNCHANGED loop

AfterKeyChange == ThenApply(FALSE)

KeyChange ==
    /\ Change
    /\ AfterKeyChange
    /\ UNCHANGED <<file, memory, events, editor, page, watcher, active, cache, stale,
                   faults>>

\* admin_free_provider_key_add: of an eligible provider, with an account if it
\* needs one; a key of the same name is replaced and turned on.
UpsertKey(name, p, key) ==
    /\ Registry # 0
    /\ p \in DOMAIN Registries[Registry] /\ Registries[Registry][p].eligible
    /\ LET row == [name |-> name, provider |-> p, key |-> key,
                   account |-> Registries[Registry][p].account, enabled |-> TRUE]
           old == {i \in DOMAIN keys : keys[i].name = name /\ keys[i].provider = p}
       IN  IF old # {}
           THEN keys' = [i \in DOMAIN keys |-> IF i \in old THEN row ELSE keys[i]]
           ELSE Len(keys) < KeyCap /\ keys' = Append(keys, row)
    /\ KeyChange

ToggleKey(i) ==
    /\ i \in DOMAIN keys
    /\ keys' = [keys EXCEPT ![i].enabled = ~@]
    /\ KeyChange

DeleteKey(i) ==
    /\ i \in DOMAIN keys
    /\ keys' = RemoveAt(keys, i)
    /\ KeyChange

-----------------------------------------------------------------------------
(* The registry *)

\* refresh_once, from the answer of the registry on; if there is none, nothing
\* changes.
Refresh(v) ==
    /\ Change
    /\ active' = v
    /\ loop' = [at |-> "reading", fetched |-> TRUE]
    /\ UNCHANGED <<file, memory, events, editor, page, watcher, cache, keys, stale,
                   faults>>

\* free_models_registry_startup: what an older version left in the file goes.
CleanUp ==
    /\ loop.at = "starting"
    /\ IF memory.pools # {}
       THEN Save(memory) /\ memory' = Stripped(memory)
       ELSE UNCHANGED <<file, memory, events>>
    /\ active' = cache
    /\ ThenApply(FALSE)
    /\ UNCHANGED <<editor, page, watcher, cache, keys, stale, changes, faults>>

\* _apply_to_impl: the rows are read first.
LoopReads ==
    /\ loop.at = "reading"
    /\ \E rows \in {keys, <<>>} :
         /\ ReadKeys(rows)
         /\ loop' = [at |-> "applying", fetched |-> loop.fetched, rows |-> rows]
    /\ UNCHANGED <<file, memory, events, editor, page, watcher, active, cache, keys,
                   stale, changes>>

\* And applied, under the lock, to what is in memory by then.
LoopApplies ==
    /\ loop.at = "applying"
    /\ memory' = Applied(memory, Registry, loop.rows)
    /\ stale' = (loop.rows # keys)
    /\ loop' = At(IF loop.fetched THEN "caching" ELSE "idle")
    /\ UNCHANGED <<file, events, editor, page, watcher, active, cache, keys, changes,
                   faults>>

SaveCache ==
    /\ loop.at = "caching"
    /\ cache' = active
    /\ loop' = At("idle")
    /\ UNCHANGED <<file, memory, events, editor, page, watcher, active, keys, stale,
                   changes, faults>>

-----------------------------------------------------------------------------
(* The thread of the watchdog *)

\* A modification may be told of more than once.
Load ==
    /\ events /\ watcher.at = "idle"
    /\ events' \in BOOLEAN
    /\ \/ watcher' = [at |-> "loaded", data |-> file]
       \* What an editor has not yet written in full may be no YAML.
       \/ /\ editor # None
          /\ watcher' = At(IF Registry # 0 THEN "reading" ELSE "idle")
    /\ UNCHANGED <<file, memory, editor, page, loop, active, cache, keys, stale,
                   changes, faults>>

\* config_lock was let go in between.
Assign ==
    /\ watcher.at = "loaded"
    /\ memory' = watcher.data
    /\ watcher' = At(IF Registry # 0 THEN "reading" ELSE "idle")
    /\ UNCHANGED <<file, events, editor, page, loop, active, cache, keys, stale,
                   changes, faults>>

WatcherReads ==
    /\ watcher.at = "reading"
    /\ \E rows \in {keys, <<>>} :
         /\ ReadKeys(rows)
         /\ watcher' = [at |-> "applying", registry |-> Registry, rows |-> rows]
    /\ UNCHANGED <<file, memory, events, editor, page, loop, active, cache, keys,
                   stale, changes>>

WatcherApplies ==
    /\ watcher.at = "applying"
    /\ memory' = Applied(memory, watcher.registry, watcher.rows)
    /\ stale' = (watcher.registry # Registry \/ watcher.rows # keys)
    /\ watcher' = At("idle")
    /\ UNCHANGED <<file, events, editor, page, loop, active, cache, keys, changes, faults>>

-----------------------------------------------------------------------------

\* External: an editor empties the file and then writes it, with one provider more.
\* What an older version left there is assumed to be gone.
BeginHandEdit ==
    /\ editor = None /\ file.pools = {}
    /\ changes < ChangeCap
    /\ changes' = changes + 1
    /\ \E p \in Providers : editor' = [file EXCEPT !.user.providers = @ \cup {p}]
    /\ file' = [user |-> Empty, pools |-> {}]
    /\ events' = TRUE
    /\ UNCHANGED <<memory, page, loop, watcher, active, cache, keys, stale, faults>>

EndHandEdit ==
    /\ editor # None
    /\ file' = editor
    /\ editor' = None
    /\ events' = TRUE
    /\ UNCHANGED <<memory, page, loop, watcher, active, cache, keys, stale, changes,
                   faults>>

\* Between two steps of any thread the process ends and is started again.
Restart ==
    /\ faults < FaultCap
    /\ faults' = faults + 1
    /\ memory' = file
    /\ events' = FALSE
    /\ loop' = At("starting") /\ watcher' = At("idle")
    /\ active' = 0
    /\ stale' = FALSE
    /\ UNCHANGED <<file, editor, page, cache, keys, changes>>

Next ==
    \/ \E p \in Providers : AddProvider(p) \/ DeleteProvider(p)
    \/ \E name, original \in Groups, members \in GroupEdits : SaveGroup(name, members, original)
    \/ \E name \in Groups : DeleteGroup(name)
    \/ \E name \in Groups, p \in Providers : EnsureMember(name, p)
    \/ RenderPage \/ SavePage
    \/ \E name \in KeyNames, p \in DOMAIN Env, key \in Keys : UpsertKey(name, p, key)
    \/ \E i \in 1..KeyCap : ToggleKey(i) \/ DeleteKey(i)
    \/ \E v \in Versions : Refresh(v)
    \/ CleanUp \/ LoopReads \/ LoopApplies \/ SaveCache
    \/ Load \/ Assign \/ WatcherReads \/ WatcherApplies
    \/ BeginHandEdit \/ EndHandEdit
    \/ Restart

Spec == Init /\ [][Next]_vars

-----------------------------------------------------------------------------
(* Properties *)

AtRest == loop.at = "idle" /\ watcher.at = "idle" /\ ~events /\ editor = None

\* When nothing is left to be loaded, the copy in memory is that of the file,
\* however edits, pages, hand edits and reloads have crossed; only a group of the
\* user's own that the pool has replaced may be missing.
Converged ==
    AtRest => /\ memory.user.providers = file.user.providers
              /\ \A g \in Groups \ {Free} :
                     /\ g \in DOMAIN memory.user.groups <=> g \in DOMAIN file.user.groups
                     /\ g \in DOMAIN file.user.groups =>
                            memory.user.groups[g] = file.user.groups[g]

\* "API keys are never ... written to config.yml"; those an older version wrote
\* are gone once the application has started, whatever was reloaded meanwhile
\* (strip_managed_overlay, free_models_registry_startup).
NothingManagedInFile ==
    loop.at # "starting" => file.pools = {}

\* At rest the pool in memory is the one that the registry and the table of keys
\* call for: no reload, save, refresh or failed fetch loses it or leaves an old
\* one, unless a thread applied rows or a registry that had been overtaken.
PoolCurrent ==
    AtRest /\ ~stale /\ Registry # 0 =>
        \E pool \in memory.pools : IsPool(pool, Registry, keys)

\* No group contains itself through others, whatever was created, renamed,
\* deleted or reloaded in between (group_has_cycle), unless by hand.
NoGroupCycles == Acyclic(memory.user.groups)
=============================================================================
