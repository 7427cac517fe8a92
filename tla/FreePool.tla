------------------------------- MODULE FreePool -------------------------------
(***************************************************************************)
(* How free_model_registry.py makes the group free-models out of a version *)
(* of the public registry, the environment and the table                    *)
(* FreeProviderKeys.  Providers and models are numbers, in the order of     *)
(* their ids.                                                               *)
(***************************************************************************)
EXTENDS Integers, Sequences, FiniteSets, SequencesExt

CONSTANTS
    Registries, \* the versions of the registry: sequences of its providers
    Env         \* the keys in the environment: provider -> key and account

None == [none |-> TRUE]

Versions == DOMAIN Registries

\* A provider is eligible if it is enabled, default_group_eligible and has a URL;
\* account says that its account_id_env is set; a model is chosen if it is
\* enabled and include_in_default_group.
Provider == [eligible: BOOLEAN, account: BOOLEAN,
             models: Seq([priority: Int, chosen: BOOLEAN])]

ASSUME PoolAssumption ==
    \A v \in Versions : /\ Registries[v] \in Seq(Provider)
                        /\ DOMAIN Registries[v] \subseteq DOMAIN Env

\* Who may have a key for a provider: the environment, which is number 0, and the
\* rows of the table, by id.
Source(p, rows, i) == IF i = 0 THEN Env[p] ELSE rows[i]

Offers(v, p, rows) ==
    {i \in 0..Len(rows) :
        /\ IF i = 0 THEN Env[p] # None ELSE rows[i].provider = p /\ rows[i].enabled
        /\ Registries[v][p].account => Source(p, rows, i).account}

\* The account is not kept where the provider names none.
Credential(v, p, rows, i) ==
    [key |-> Source(p, rows, i).key,
     account |-> Registries[v][p].account /\ Source(p, rows, i).account]

\* _credentials_for_provider: the first with each key and account.
Credentials(v, p, rows) ==
    {i \in Offers(v, p, rows) : \A j \in Offers(v, p, rows) :
        j < i => Credential(v, p, rows, j) # Credential(v, p, rows, i)}

ChosenModels(v, p) ==
    LET models == Registries[v][p].models IN {m \in DOMAIN models : models[m].chosen}

\* The order of the tuples that are sorted: item[:4].
Before(x, y) ==
    \/ x.priority < y.priority
    \/ x.priority = y.priority /\
         \/ x.provider < y.provider
         \/ x.provider = y.provider /\
              \/ x.model < y.model
              \/ x.model = y.model /\ x.index < y.index

\* build_registry_overlay: a member for each credential and chosen model.
RankedMembers(v, rows) ==
    UNION {{[priority |-> Registries[v][p].models[m].priority, provider |-> p,
             model |-> m, index |-> i, credential |-> Credential(v, p, rows, i)] :
                m \in ChosenModels(v, p), i \in Credentials(v, p, rows)} :
           p \in {q \in DOMAIN Registries[v] : Registries[v][q].eligible}}

\* Sorted, a member comes after as many as are before it.
Ranked(members, i) ==
    CHOOSE x \in members : Cardinality({y \in members : Before(y, x)}) = i - 1

Member(x) == [provider |-> x.provider, model |-> x.model, credential |-> x.credential]

PoolOf(v, rows) ==
    [i \in 1..Cardinality(RankedMembers(v, rows)) |->
        Member(Ranked(RankedMembers(v, rows), i))]

-----------------------------------------------------------------------------
(* What FREE_MODELS.md promises of the group, without the steps that make it *)

Usable(v, p, c) == Registries[v][p].account => c.account

\* The rows that are turned on and the environment are all used, and nothing else.
RightMembers(pool, v, rows) ==
    {[provider |-> pool[i].provider, model |-> pool[i].model,
      key |-> pool[i].credential.key] : i \in DOMAIN pool}
    = UNION {{[provider |-> p, model |-> m, key |-> c.key] :
                 m \in ChosenModels(v, p),
                 c \in {d \in {Env[p]} \ {None} : Usable(v, p, d)} \cup
                       {d \in ToSet(rows) : d.provider = p /\ d.enabled /\ Usable(v, p, d)}} :
             p \in {q \in DOMAIN Registries[v] : Registries[v][q].eligible}}

Prio(v, x) == Registries[v][x.provider].models[x.model].priority

\* By priority, the keys of a model next to each other, and no member twice.
RightOrder(pool, v) ==
    \A i, j \in DOMAIN pool : i < j =>
        /\ pool[i] # pool[j]
        /\ Prio(v, pool[i]) <= Prio(v, pool[j])
        /\ (pool[i].provider = pool[j].provider /\ pool[i].model = pool[j].model) =>
               \A k \in i..j : /\ pool[k].provider = pool[i].provider
                               /\ pool[k].model = pool[i].model

IsPool(pool, v, rows) == RightMembers(pool, v, rows) /\ RightOrder(pool, v)
=============================================================================
