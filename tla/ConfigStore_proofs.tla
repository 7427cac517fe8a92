-------------------------- MODULE ConfigStore_proofs --------------------------
(***************************************************************************)
(* Proofs about ConfigStore, for any providers, groups, registries and      *)
(* keys, and any number of edits, reloads and restarts: memory and file     *)
(* come to the same, nothing managed stays in the file, no groups form a    *)
(* cycle, and the pool at rest is what the registry and the keys call for,  *)
(* unless what was applied last had been overtaken.  This last result needs *)
(* facts of FreePool: that sorting by rank loses no member, and that of     *)
(* several rows with one key the first stands for all.                      *)
(***************************************************************************)
EXTENDS ConfigStore, TLAPS, FiniteSetTheorems

GroupMaps == UNION {[D -> SUBSET Members] : D \in SUBSET Groups}

Users == [providers: SUBSET Providers, groups: GroupMaps]

GoodUser(u) == u \in Users /\ Acyclic(u.groups)

GoodConfig(c) == c = [user |-> c.user, pools |-> c.pools] /\ GoodUser(c.user)

\* What the user wrote, wherever it is kept on its way, names no cycle.
Shapes ==
    /\ GoodConfig(file) /\ GoodConfig(memory)
    /\ editor # None => GoodConfig(editor)
    /\ page # None => GoodUser(page)
    /\ watcher.at = "loaded" => GoodConfig(watcher.data)

\* But for the group that the pool replaces.
SameUser(c, d) ==
    /\ c.user.providers = d.user.providers
    /\ \A g \in Groups \ {Free} :
           /\ g \in DOMAIN c.user.groups <=> g \in DOMAIN d.user.groups
           /\ g \in DOMAIN d.user.groups => c.user.groups[g] = d.user.groups[g]

\* Whoever is not told of a change of the file has, or is about to have, what is
\* in it.
InStep ==
    ~events /\ editor = None =>
        IF watcher.at = "loaded" THEN SameUser(watcher.data, file) ELSE SameUser(memory, file)

\* Before the start is over, the file may hold an old pool, which is in memory too.
FileClean ==
    /\ file.pools = {} \/ (/\ loop.at = "starting" /\ memory.pools # {}
                           /\ ~events /\ watcher.at = "idle")
    /\ editor # None => editor.pools = {} /\ file.pools = {}

\* Unless it is about to be applied, the pool is of the registry and the keys.
PoolMade ==
    /\ Registry # 0 /\ ~stale /\ loop.at \in {"idle", "caching"}
       /\ watcher.at \notin {"reading", "applying"}
           => memory.pools = {PoolOf(Registry, keys)}
    /\ loop.at \in {"reading", "applying"} /\ loop.fetched => active # 0
    /\ loop.at = "caching" => active # 0

IInv == Shapes /\ InStep /\ FileClean /\ PoolMade

-----------------------------------------------------------------------------
(* Groups *)

LEMMA FunctionsAreMaps ==
    ASSUME NEW G, DOMAIN G \subseteq Groups, G = [g \in DOMAIN G |-> G[g]],
           \A g \in DOMAIN G : G[g] \subseteq Members
    PROVE  G \in GroupMaps
<1>1. G \in [DOMAIN G -> SUBSET Members]
  OBVIOUS
<1> QED
  BY <1>1 DEF GroupMaps

LEMMA MapsAreFunctions ==
    ASSUME NEW G \in GroupMaps
    PROVE  /\ DOMAIN G \subseteq Groups /\ G = [g \in DOMAIN G |-> G[g]]
           /\ \A g \in DOMAIN G : G[g] \subseteq Members
BY DEF GroupMaps

\* Groups that name no more groups than before make no cycle.
LEMMA FewerMembers ==
    ASSUME NEW G \in GroupMaps, Acyclic(G), NEW H \in GroupMaps,
           \A g \in DOMAIN H : \/ H[g] \cap Groups = {}
                               \/ g \in DOMAIN G /\ H[g] \cap Groups \subseteq G[g]
    PROVE  Acyclic(H)
<1> SUFFICES ASSUME NEW S \in (SUBSET DOMAIN H) \ {{}}
             PROVE  \E g \in S : H[g] \cap S = {}
  BY DEF Acyclic
<1>1. S \subseteq Groups /\ S # {} /\ S \subseteq DOMAIN H
  <2>1. DOMAIN H \subseteq Groups
    BY MapsAreFunctions
  <2> QED
    BY <2>1
<1>2. CASE \E g \in S : H[g] \cap Groups = {}
  BY <1>1, <1>2
<1>3. CASE \A g \in S : H[g] \cap Groups # {}
  <2>1. S \in (SUBSET DOMAIN G) \ {{}}
    BY <1>1, <1>3
  <2>2. PICK g \in S : G[g] \cap S = {}
    BY <2>1 DEF Acyclic
  <2>3. H[g] \cap Groups \subseteq G[g]
    BY <1>1, <1>3
  <2> QED
    BY <1>1, <2>2, <2>3
<1> QED
  BY <1>2, <1>3

\* group_has_cycle finds the cycles that a new group would close.
LEMMA NoCycleFound ==
    ASSUME NEW G \in GroupMaps, Acyclic(G), NEW H \in GroupMaps,
           NEW name \in Groups, NEW members, ~HasCycle(name, members, G),
           H[name] = members,
           \A g \in DOMAIN H : g # name => g \in DOMAIN G /\ H[g] = G[g]
    PROVE  Acyclic(H)
<1> SUFFICES ASSUME NEW S \in (SUBSET DOMAIN H) \ {{}},
                    \A g \in S : H[g] \cap S # {}
             PROVE  FALSE
  BY DEF Acyclic
<1>1. S \subseteq Groups /\ S # {} /\ S \subseteq DOMAIN H
  <2>1. DOMAIN H \subseteq Groups
    BY MapsAreFunctions
  <2> QED
    BY <2>1
<1>2. CASE name \notin S
  <2>1. S \in (SUBSET DOMAIN G) \ {{}} /\ \A g \in S : G[g] \cap S # {}
    BY <1>1, <1>2
  <2> QED
    BY <2>1 DEF Acyclic
<1>3. CASE name \in S
  <2>1. PICK found \in SUBSET Groups :
            /\ members \cap Groups \subseteq found
            /\ \A g \in (found \cap DOMAIN G) \ {name} : G[g] \cap Groups \subseteq found
            /\ name \notin found
    BY DEF HasCycle
  <2>2. S \cap found # {}
    BY <1>1, <1>3, <2>1
  <2>3. \A g \in S \cap found : g \in DOMAIN G /\ G[g] \cap (S \cap found) # {}
    <3> SUFFICES ASSUME NEW g \in S \cap found
                 PROVE  g \in DOMAIN G /\ G[g] \cap (S \cap found) # {}
      OBVIOUS
    <3>1. g # name /\ g \in DOMAIN G /\ H[g] = G[g]
      BY <1>1, <2>1
    <3>2. PICK h \in S : h \in H[g]
      BY <1>1
    <3> QED
      BY <1>1, <2>1, <3>1, <3>2
  <2>4. S \cap found \in (SUBSET DOMAIN G) \ {{}}
    BY <2>2, <2>3
  <2> QED
    BY <2>3, <2>4 DEF Acyclic
<1> QED
  BY <1>2, <1>3

\* A group less.
Without(H, G, gone) == H = Restrict(G, DOMAIN G \ {gone})

LEMMA GroupGone ==
    ASSUME NEW G \in GroupMaps, Acyclic(G), NEW gone, NEW H, Without(H, G, gone)
    PROVE  /\ H \in GroupMaps /\ Acyclic(H)
           /\ DOMAIN H = DOMAIN G \ {gone} /\ \A g \in DOMAIN H : H[g] = G[g]
<1>1. /\ DOMAIN H = DOMAIN G \ {gone} /\ \A g \in DOMAIN H : H[g] = G[g]
      /\ H = [g \in DOMAIN H |-> H[g]]
  BY DEF Without, Restrict
<1>2. H \in GroupMaps
  BY <1>1, MapsAreFunctions, FunctionsAreMaps
<1>3. Acyclic(H)
  BY <1>1, <1>2, FewerMembers
<1> QED
  BY <1>1, <1>2, <1>3

\* A group more, or another one of the name.
IsPut(H, name, members, G) ==
    /\ name \in Groups /\ members \subseteq Members
    /\ H = Put(name, members, G)

PutFacts(H, name, members, G) ==
    /\ DOMAIN H = DOMAIN G \cup {name} /\ H[name] = members
    /\ \A g \in DOMAIN G : g # name => H[g] = G[g]

LEMMA GroupPut ==
    ASSUME NEW G \in GroupMaps, NEW name, NEW members, NEW H, IsPut(H, name, members, G)
    PROVE  H \in GroupMaps /\ PutFacts(H, name, members, G)
<1>1. /\ DOMAIN H = DOMAIN G \cup {name} /\ H[name] = members
      /\ \A g \in DOMAIN G : g # name => H[g] = G[g]
      /\ H = [g \in DOMAIN H |-> H[g]]
  BY DEF IsPut, Put
<1>2. H \in GroupMaps
  BY <1>1, MapsAreFunctions, FunctionsAreMaps DEF IsPut
<1> QED
  BY <1>1, <1>2 DEF PutFacts

-----------------------------------------------------------------------------
(* Configurations *)

Config(user, pools) == [user |-> user, pools |-> pools]

LEMMA ConfigGood ==
    ASSUME NEW user, GoodUser(user), NEW pools
    PROVE  /\ GoodConfig(Config(user, pools))
           /\ Config(user, pools).user = user /\ Config(user, pools).pools = pools
BY DEF Config, GoodConfig

LEMMA StrippedConfig ==
    ASSUME NEW c, GoodConfig(c)
    PROVE  Stripped(c) = Config(c.user, {})
BY DEF GoodConfig, Stripped, Config

LEMMA UserReplaced ==
    ASSUME NEW c, GoodConfig(c), NEW user
    PROVE  [c EXCEPT !.user = user] = Config(user, c.pools)
BY DEF GoodConfig, Config

\* The pool takes the place of the group of its name and leaves the rest.
LEMMA AppliedConfig ==
    ASSUME NEW c, GoodConfig(c), NEW v, NEW rows
    PROVE  /\ GoodConfig(Applied(c, v, rows))
           /\ Applied(c, v, rows).pools = {PoolOf(v, rows)}
           /\ \A d : SameUser(c, d) => SameUser(Applied(c, v, rows), d)
<1>a. PICK G : G = c.user.groups
  OBVIOUS
<1>b. PICK H : H = Restrict(G, DOMAIN G \ {Free})
  OBVIOUS
<1>e. Without(H, G, Free)
  BY <1>b DEF Without
<1>c. PICK u : u = [providers |-> c.user.providers, groups |-> H]
  OBVIOUS
<1>d. PICK pools : pools = {PoolOf(v, rows)}
  OBVIOUS
<1>1. G \in GroupMaps /\ Acyclic(G) /\ c.user \in Users
  BY <1>a DEF GoodConfig, GoodUser, Users
<1>2. /\ H \in GroupMaps /\ Acyclic(H)
      /\ DOMAIN H = DOMAIN G \ {Free} /\ \A g \in DOMAIN H : H[g] = G[g]
  BY <1>1, <1>e, GroupGone
<1>3. [c.user EXCEPT !.groups = Restrict(@, DOMAIN @ \ {Free})] = u
  BY <1>1, <1>a, <1>b, <1>c DEF Users
<1>4. Applied(c, v, rows) = Config(u, pools)
  BY <1>3, <1>d DEF Applied, Config
<1>5. GoodUser(u)
  BY <1>1, <1>2, <1>c DEF GoodUser, Users
<1>6. /\ GoodConfig(Config(u, pools))
      /\ Config(u, pools).user = u /\ Config(u, pools).pools = pools
  BY <1>5, ConfigGood
<1>7. ASSUME NEW d, SameUser(c, d) PROVE SameUser(Config(u, pools), d)
  <2>1. u.providers = d.user.providers
    BY <1>7, <1>c DEF SameUser
  <2>2. \A g \in Groups \ {Free} :
            /\ g \in DOMAIN H <=> g \in DOMAIN d.user.groups
            /\ g \in DOMAIN d.user.groups => H[g] = d.user.groups[g]
    BY <1>7, <1>2, <1>a DEF SameUser
  <2>3. u.groups = H
    BY <1>c
  <2> QED
    BY <1>6, <2>1, <2>2, <2>3 DEF SameUser
<1> QED
  BY <1>4, <1>6, <1>7, <1>d

LEMMA SameAsItself == \A c : SameUser(c, c)
BY DEF SameUser

-----------------------------------------------------------------------------
(* Edits *)

LEMMA EditKeeps ==
    ASSUME IInv, NEW user, GoodUser(user), Edit(user)
    PROVE  IInv'
<1>1. GoodConfig(memory) /\ GoodConfig(file)
  BY DEF IInv, Shapes
<1>a. PICK c : c = Config(user, memory.pools)
  OBVIOUS
<1>2. /\ [memory EXCEPT !.user = user] = c
      /\ GoodConfig(c) /\ c.user = user
  BY <1>1, <1>a, UserReplaced, ConfigGood
<1>b. PICK d : d = Config(user, {})
  OBVIOUS
<1>3. Stripped(c) = d /\ GoodConfig(d) /\ d.user = user /\ d.pools = {}
  BY <1>2, <1>b, StrippedConfig, ConfigGood
<1>4. file' = d /\ events' = TRUE
  BY <1>2, <1>3 DEF Edit, Save
<1>5. /\ GoodConfig(memory')
      /\ Registry # 0 /\ ~stale' => memory'.pools = {PoolOf(Registry, keys)}
  <2>1. CASE Registry = 0
    BY <1>2, <1>3, <2>1 DEF Edit
  <2>2. CASE Registry # 0
    <3>1. PICK rows \in {keys, <<>>} :
              memory' = Applied(c, Registry, rows) /\ stale' = (rows # keys)
      BY <1>2, <2>2 DEF Edit
    <3>2. /\ GoodConfig(Applied(c, Registry, rows))
          /\ Applied(c, Registry, rows).pools = {PoolOf(Registry, rows)}
      BY <1>2, AppliedConfig
    <3> QED
      BY <3>1, <3>2
  <2> QED
    BY <2>1, <2>2
<1>6. /\ UNCHANGED <<editor, page, loop, watcher, active, cache, keys>>
      /\ loop.at = "idle"
  BY DEF Edit, Change
<1>7. Shapes'
  BY <1>3, <1>4, <1>5, <1>6 DEF IInv, Shapes
<1>8. InStep' /\ FileClean'
  BY <1>3, <1>4, <1>6 DEF IInv, InStep, FileClean
<1>9. PoolMade'
  BY <1>5, <1>6 DEF IInv, PoolMade, Registry
<1> QED
  BY <1>7, <1>8, <1>9 DEF IInv

LEMMA UserIsGood ==
    ASSUME IInv
    PROVE  /\ GoodUser(User) /\ User \in Users
           /\ User.groups \in GroupMaps /\ Acyclic(User.groups)
BY DEF IInv, Shapes, GoodConfig, GoodUser, Users, User

LEMMA AddProviderKeeps == ASSUME IInv, NEW p \in Providers, AddProvider(p) PROVE IInv'
<1>a. PICK u : u = [User EXCEPT !.providers = @ \cup {p}]
  OBVIOUS
<1>1. u \in Users /\ u.groups = User.groups
  BY <1>a, UserIsGood DEF Users
<1>2. GoodUser(u)
  BY <1>1, UserIsGood DEF GoodUser
<1> QED
  BY <1>2, <1>a, EditKeeps DEF AddProvider

LEMMA DeleteProviderKeeps == ASSUME IInv, NEW p \in Providers, DeleteProvider(p) PROVE IInv'
<1>a. PICK G : G = User.groups
  OBVIOUS
<1>b. PICK H : H = [g \in DOMAIN G |-> G[g] \ {p}]
  OBVIOUS
<1>c. PICK u : u = [providers |-> User.providers \ {p}, groups |-> H]
  OBVIOUS
<1>1. G \in GroupMaps /\ Acyclic(G) /\ User \in Users
  BY <1>a, UserIsGood
<1>2. /\ DOMAIN H = DOMAIN G /\ H = [g \in DOMAIN H |-> H[g]]
      /\ \A g \in DOMAIN H : H[g] \subseteq G[g]
  BY <1>b
<1>3. H \in GroupMaps
  <2>1. DOMAIN G \subseteq Groups /\ \A g \in DOMAIN G : G[g] \subseteq Members
    BY <1>1, MapsAreFunctions
  <2>2. DOMAIN H \subseteq Groups /\ \A g \in DOMAIN H : H[g] \subseteq Members
    BY <1>2, <2>1
  <2> QED
    BY <1>2, <2>2, FunctionsAreMaps
<1>4. Acyclic(H)
  <2>1. \A g \in DOMAIN H : g \in DOMAIN G /\ H[g] \cap Groups \subseteq G[g]
    BY <1>2
  <2> QED
    BY <1>1, <1>3, <2>1, FewerMembers
<1>5. GoodUser(u)
  BY <1>1, <1>3, <1>4, <1>c DEF GoodUser, Users
<1> QED
  BY <1>5, <1>a, <1>b, <1>c, EditKeeps DEF DeleteProvider

LEMMA GroupsReplaced ==
    ASSUME IInv, NEW H \in GroupMaps, Acyclic(H), Edit([User EXCEPT !.groups = H])
    PROVE  IInv'
<1>a. PICK u : u = [User EXCEPT !.groups = H]
  OBVIOUS
<1>1. u \in Users /\ u.groups = H
  BY <1>a, UserIsGood DEF Users
<1>2. GoodUser(u)
  BY <1>1 DEF GoodUser
<1> QED
  BY <1>2, <1>a, EditKeeps

LEMMA SaveGroupKeeps ==
    ASSUME IInv, NEW name \in Groups, NEW original \in Groups, NEW members \in GroupEdits,
           SaveGroup(name, members, original)
    PROVE  IInv'
<1>a. PICK G : G = IF memory.pools = {} THEN User.groups
                   ELSE Restrict(User.groups, DOMAIN User.groups \ {Free})
  OBVIOUS
<1>1. G \in GroupMaps /\ Acyclic(G)
  <2>1. CASE memory.pools = {}
    BY <1>a, <2>1, UserIsGood
  <2>2. CASE memory.pools # {}
    <3>1. Without(G, User.groups, Free)
      BY <1>a, <2>2 DEF Without
    <3> QED
      BY <3>1, UserIsGood, GroupGone
  <2> QED
    BY <2>1, <2>2
<1>b. PICK rest : rest = Restrict(G, DOMAIN G \ {original})
  OBVIOUS
<1>2. /\ rest \in GroupMaps /\ DOMAIN rest = DOMAIN G \ {original}
      /\ \A g \in DOMAIN rest : rest[g] = G[g]
  <2>1. Without(rest, G, original)
    BY <1>b DEF Without
  <2> QED
    BY <1>1, <2>1, GroupGone
<1>c. PICK H : H = Put(name, members, rest)
  OBVIOUS
<1>3. /\ members \subseteq Members
      /\ ~HasCycle(name, members, G)
      /\ Edit([User EXCEPT !.groups = H])
  BY <1>a, <1>b, <1>c, StoreAssumption DEF SaveGroup
<1>4. /\ H \in GroupMaps /\ H[name] = members
      /\ \A g \in DOMAIN H : g # name => g \in DOMAIN G /\ H[g] = G[g]
  <2>1. IsPut(H, name, members, rest)
    BY <1>3, <1>c DEF IsPut
  <2>2. H \in GroupMaps /\ PutFacts(H, name, members, rest)
    BY <1>2, <2>1, GroupPut
  <2> QED
    BY <1>2, <2>2 DEF PutFacts
<1>5. Acyclic(H)
  BY <1>1, <1>3, <1>4, NoCycleFound
<1> QED
  BY <1>3, <1>4, <1>5, GroupsReplaced

LEMMA DeleteGroupKeeps == ASSUME IInv, NEW name \in Groups, DeleteGroup(name) PROVE IInv'
<1>a. PICK H : H = Restrict(User.groups, DOMAIN User.groups \ {name})
  OBVIOUS
<1>1. H \in GroupMaps /\ Acyclic(H)
  <2>1. Without(H, User.groups, name)
    BY <1>a DEF Without
  <2> QED
    BY <2>1, UserIsGood, GroupGone
<1>2. Edit([User EXCEPT !.groups = H])
  BY <1>a DEF DeleteGroup
<1> QED
  BY <1>1, <1>2, GroupsReplaced

LEMMA EnsureMemberKeeps ==
    ASSUME IInv, NEW name \in Groups, NEW p \in Providers, EnsureMember(name, p)
    PROVE  IInv'
<1>a. PICK G : G = User.groups
  OBVIOUS
<1>b. PICK old : old = IF name \in DOMAIN G THEN G[name] ELSE {}
  OBVIOUS
<1>c. PICK members : members = old \cup {p}
  OBVIOUS
<1>d. PICK H : H = Put(name, members, G)
  OBVIOUS
<1>1. G \in GroupMaps /\ Acyclic(G)
  BY <1>a, UserIsGood
<1>2. old \subseteq Members /\ (name \in DOMAIN G => old = G[name])
      /\ (name \notin DOMAIN G => old = {})
  BY <1>1, <1>b, MapsAreFunctions
<1>3. IsPut(H, name, members, G)
  BY <1>2, <1>c, <1>d DEF Members, IsPut
<1>4. /\ H \in GroupMaps /\ DOMAIN H = DOMAIN G \cup {name} /\ H[name] = members
      /\ \A g \in DOMAIN G : g # name => H[g] = G[g]
  <2>1. H \in GroupMaps /\ PutFacts(H, name, members, G)
    BY <1>1, <1>3, GroupPut
  <2> QED
    BY <2>1 DEF PutFacts
<1>5. members \cap Groups = old \cap Groups
  BY <1>c, StoreAssumption
<1>6. \A g \in DOMAIN H : \/ H[g] \cap Groups = {}
                          \/ g \in DOMAIN G /\ H[g] \cap Groups \subseteq G[g]
  BY <1>2, <1>4, <1>5
<1>7. Acyclic(H)
  BY <1>1, <1>4, <1>6, FewerMembers
<1>8. Edit([User EXCEPT !.groups = H])
  BY <1>a, <1>b, <1>c, <1>d DEF EnsureMember
<1> QED
  BY <1>4, <1>7, <1>8, GroupsReplaced

-----------------------------------------------------------------------------
(* Pages, keys and the registry *)

LEMMA RenderPageKeeps == IInv /\ RenderPage => IInv'
<1> SUFFICES ASSUME IInv, RenderPage PROVE IInv'
  OBVIOUS
<1>1. Shapes'
  BY UserIsGood DEF RenderPage, IInv, Shapes
<1>2. InStep' /\ FileClean' /\ PoolMade'
  BY DEF RenderPage, IInv, InStep, FileClean, PoolMade, Registry
<1> QED
  BY <1>1, <1>2 DEF IInv

\* The registry is applied soon, if there is one.
LEMMA AppliedSoon ==
    ASSUME IInv, ThenApply(FALSE), UNCHANGED <<active, cache>>
    PROVE  PoolMade' /\ loop'.at # "starting"
<1>1. CASE Registry # 0
  <2>1. loop'.at = "reading" /\ ~loop'.fetched
    BY <1>1 DEF ThenApply
  <2> QED
    BY <2>1 DEF PoolMade
<1>2. CASE Registry = 0
  <2>1. loop'.at = "idle" /\ Registry' = 0
    BY <1>2 DEF ThenApply, At, Registry
  <2> QED
    BY <2>1 DEF PoolMade
<1> QED
  BY <1>1, <1>2

LEMMA SavePageKeeps == IInv /\ SavePage => IInv'
<1> SUFFICES ASSUME IInv, SavePage PROVE IInv'
  OBVIOUS
<1>1. GoodUser(page)
  BY DEF SavePage, IInv, Shapes
<1>2. PICK gone \in SUBSET page.providers :
          /\ Save([user |-> [page EXCEPT !.providers = @ \ gone], pools |-> {}])
          /\ memory' = [user |-> [page EXCEPT !.providers = @ \ gone], pools |-> {}]
  BY DEF SavePage
<1>a. PICK new : new = [page EXCEPT !.providers = @ \ gone]
  OBVIOUS
<1>3. GoodUser(new)
  <2>1. new \in Users /\ new.groups = page.groups
    BY <1>1, <1>a DEF GoodUser, Users
  <2> QED
    BY <1>1, <2>1 DEF GoodUser
<1>b. PICK c : c = Config(new, {})
  OBVIOUS
<1>4. GoodConfig(c) /\ c.pools = {} /\ Stripped(c) = c
  <2>1. GoodConfig(c) /\ c.pools = {} /\ c.user = new
    BY <1>3, <1>b, ConfigGood
  <2> QED
    BY <2>1, <1>b, StrippedConfig
<1>5. memory' = c /\ file' = c /\ events' = TRUE
  BY <1>2, <1>4, <1>a, <1>b DEF Save, Config
<1>6. /\ page' = None /\ ThenApply(FALSE)
      /\ UNCHANGED <<editor, watcher, active, cache>>
  BY DEF SavePage
<1>7. Shapes'
  BY <1>4, <1>5, <1>6 DEF IInv, Shapes
<1>8. InStep' /\ FileClean'
  BY <1>4, <1>5, <1>6 DEF IInv, InStep, FileClean
<1> QED
  BY <1>6, <1>7, <1>8, AppliedSoon DEF IInv

LEMMA KeyChangeKeeps == IInv /\ KeyChange => IInv'
<1> SUFFICES ASSUME IInv, KeyChange PROVE IInv'
  OBVIOUS
<1>1. /\ ThenApply(FALSE) /\ loop.at = "idle"
      /\ UNCHANGED <<file, memory, events, editor, page, watcher, active, cache>>
  BY DEF KeyChange, AfterKeyChange, Change
<1>2. PoolMade' /\ loop'.at # "starting"
  BY <1>1, AppliedSoon
<1>3. Shapes' /\ InStep'
  BY <1>1 DEF IInv, Shapes, InStep
<1>4. FileClean'
  BY <1>1 DEF IInv, FileClean
<1> QED
  BY <1>2, <1>3, <1>4 DEF IInv

LEMMA RefreshKeeps == ASSUME IInv, NEW v \in Versions, Refresh(v) PROVE IInv'
<1>1. /\ loop'.at = "reading" /\ active' = v /\ loop.at = "idle"
      /\ UNCHANGED <<file, memory, events, editor, page, watcher>>
  BY DEF Refresh, Change
<1>2. active' # 0
  BY <1>1, StoreAssumption
<1>3. Shapes' /\ InStep'
  BY <1>1 DEF IInv, Shapes, InStep
<1>4. FileClean' /\ PoolMade'
  BY <1>1, <1>2 DEF IInv, FileClean, PoolMade
<1> QED
  BY <1>3, <1>4 DEF IInv

LEMMA CleanUpKeeps == IInv /\ CleanUp => IInv'
<1> SUFFICES ASSUME IInv, CleanUp PROVE IInv'
  OBVIOUS
<1>1. /\ active' = cache /\ ThenApply(FALSE) /\ loop.at = "starting"
      /\ UNCHANGED <<editor, page, watcher, cache>>
      /\ GoodConfig(memory)
  BY DEF CleanUp, IInv, Shapes
<1>2. PoolMade'
  <2>1. CASE Registry # 0
    <3>1. loop'.at = "reading" /\ ~loop'.fetched
      BY <1>1, <2>1 DEF ThenApply
    <3> QED
      BY <3>1 DEF PoolMade
  <2>2. CASE Registry = 0
    <3>1. loop'.at = "idle"
      BY <1>1, <2>2 DEF ThenApply, At
    <3>2. Registry' = 0
      BY <1>1, <2>2 DEF Registry
    <3> QED
      BY <3>1, <3>2 DEF PoolMade
  <2> QED
    BY <2>1, <2>2
<1>3. CASE memory.pools = {}
  <2>1. UNCHANGED <<file, memory, events>>
    BY <1>3 DEF CleanUp
  <2>2. Shapes' /\ InStep' /\ FileClean'
    BY <1>1, <1>3, <2>1 DEF IInv, Shapes, InStep, FileClean
  <2> QED
    BY <1>2, <2>2 DEF IInv
<1>4. CASE memory.pools # {}
  <2>a. PICK c : c = Config(memory.user, {})
    OBVIOUS
  <2>1. Stripped(memory) = c /\ GoodConfig(c) /\ c.pools = {}
    <3>1. GoodUser(memory.user)
      BY <1>1 DEF GoodConfig
    <3> QED
      BY <1>1, <2>a, <3>1, StrippedConfig, ConfigGood
  <2>2. file' = c /\ memory' = c /\ events' = TRUE
    BY <1>4, <2>1 DEF CleanUp, Save
  <2>3. Shapes' /\ InStep' /\ FileClean'
    BY <1>1, <2>1, <2>2 DEF IInv, Shapes, InStep, FileClean
  <2> QED
    BY <1>2, <2>3 DEF IInv
<1> QED
  BY <1>3, <1>4

LEMMA LoopReadsKeeps == IInv /\ LoopReads => IInv'
<1> SUFFICES ASSUME IInv, LoopReads PROVE IInv'
  OBVIOUS
<1>1. PICK rows : loop' = [at |-> "applying", fetched |-> loop.fetched, rows |-> rows]
  BY DEF LoopReads
<1>2. /\ loop'.at = "applying" /\ loop'.fetched = loop.fetched /\ loop.at = "reading"
      /\ UNCHANGED <<file, memory, events, editor, page, watcher, active, cache, keys, stale>>
  BY <1>1 DEF LoopReads
<1>3. Shapes' /\ InStep' /\ FileClean'
  BY <1>2 DEF IInv, Shapes, InStep, FileClean
<1>4. PoolMade'
  BY <1>2 DEF IInv, PoolMade
<1> QED
  BY <1>3, <1>4 DEF IInv

\* What an application leaves in memory.
LEMMA ApplicationKeeps ==
    ASSUME IInv, NEW v, NEW rows, memory' = Applied(memory, v, rows),
           loop.at # "starting" \/ watcher.at # "idle",
           UNCHANGED <<file, events, editor, page>>,
           watcher' = watcher \/ (watcher.at = "applying" /\ watcher'.at = "idle")
    PROVE  /\ Shapes' /\ InStep' /\ FileClean'
           /\ memory'.pools = {PoolOf(v, rows)}
<1>a. PICK c : c = Applied(memory, v, rows)
  OBVIOUS
<1>1. GoodConfig(memory)
  BY DEF IInv, Shapes
<1>2. /\ GoodConfig(c) /\ c.pools = {PoolOf(v, rows)}
      /\ \A d : SameUser(memory, d) => SameUser(c, d)
  BY <1>1, <1>a, AppliedConfig
<1>3. memory' = c
  BY <1>a
<1>4. watcher'.at = "loaded" => watcher' = watcher
  OBVIOUS
<1>5. Shapes'
  BY <1>2, <1>3, <1>4 DEF IInv, Shapes
<1>6. InStep'
  BY <1>2, <1>3, <1>4 DEF IInv, InStep
<1>7. FileClean'
  BY DEF IInv, FileClean
<1> QED
  BY <1>2, <1>3, <1>5, <1>6, <1>7

LEMMA LoopAppliesKeeps == IInv /\ LoopApplies => IInv'
<1> SUFFICES ASSUME IInv, LoopApplies PROVE IInv'
  OBVIOUS
<1>1. /\ loop.at = "applying"
      /\ memory' = Applied(memory, Registry, loop.rows)
      /\ stale' = (loop.rows # keys)
      /\ loop' = At(IF loop.fetched THEN "caching" ELSE "idle")
      /\ UNCHANGED <<file, events, editor, page, watcher, active, cache, keys>>
  BY DEF LoopApplies
<1>a. PICK v, rows : v = Registry /\ rows = loop.rows
  OBVIOUS
<1>2. /\ Shapes' /\ InStep' /\ FileClean'
      /\ memory'.pools = {PoolOf(v, rows)}
  <2>1. memory' = Applied(memory, v, rows)
    BY <1>1, <1>a
  <2> QED
    BY <1>1, <2>1, ApplicationKeeps
<1>3. /\ loop'.at \in {"idle", "caching"}
      /\ loop'.at = "caching" => loop.fetched
  BY <1>1 DEF At
<1>4. Registry' = v
  BY <1>1, <1>a DEF Registry
<1>5. PoolMade'
  BY <1>1, <1>2, <1>3, <1>4, <1>a DEF IInv, PoolMade
<1> QED
  BY <1>2, <1>5 DEF IInv

LEMMA SaveCacheKeeps == IInv /\ SaveCache => IInv'
<1> SUFFICES ASSUME IInv, SaveCache PROVE IInv'
  OBVIOUS
<1>1. /\ loop.at = "caching" /\ loop'.at = "idle"
      /\ UNCHANGED <<file, memory, events, editor, page, watcher, active, keys, stale>>
  BY DEF SaveCache, At
<1>2. Registry' = Registry
  BY <1>1 DEF IInv, PoolMade, Registry
<1>3. Shapes' /\ InStep' /\ FileClean'
  BY <1>1 DEF IInv, Shapes, InStep, FileClean
<1>4. PoolMade'
  BY <1>1, <1>2 DEF IInv, PoolMade
<1> QED
  BY <1>3, <1>4 DEF IInv

-----------------------------------------------------------------------------
(* The watchdog's thread, editors and restarts *)

LEMMA LoadKeeps == IInv /\ Load => IInv'
<1> SUFFICES ASSUME IInv, Load PROVE IInv'
  OBVIOUS
<1>1. /\ events /\ watcher.at = "idle"
      /\ UNCHANGED <<file, memory, editor, page, loop, active, cache, keys, stale>>
  BY DEF Load
<1>2. CASE watcher' = [at |-> "loaded", data |-> file]
  <2>1. watcher'.at = "loaded" /\ watcher'.data = file
    BY <1>2
  <2>2. Shapes' /\ FileClean'
    BY <1>1, <2>1 DEF IInv, Shapes, FileClean
  <2>3. InStep'
    BY <1>1, <2>1, SameAsItself DEF InStep
  <2>4. PoolMade'
    BY <1>1, <2>1 DEF IInv, PoolMade, Registry
  <2> QED
    BY <2>2, <2>3, <2>4 DEF IInv
<1>3. CASE editor # None /\ watcher' = At(IF Registry # 0 THEN "reading" ELSE "idle")
  <2>1. watcher'.at \in {"reading", "idle"}
    BY <1>3 DEF At
  <2>2. Shapes' /\ InStep'
    BY <1>1, <1>3, <2>1 DEF IInv, Shapes, InStep
  <2>3. FileClean'
    BY <1>1, <1>3, <2>1 DEF IInv, FileClean
  <2>4. PoolMade'
    BY <1>1, <2>1 DEF IInv, PoolMade, Registry
  <2> QED
    BY <2>2, <2>3, <2>4 DEF IInv
<1> QED
  BY <1>2, <1>3 DEF Load

LEMMA AssignKeeps == IInv /\ Assign => IInv'
<1> SUFFICES ASSUME IInv, Assign PROVE IInv'
  OBVIOUS
<1>1. /\ watcher.at = "loaded" /\ memory' = watcher.data
      /\ UNCHANGED <<file, events, editor, page, loop, active, cache, keys, stale>>
  BY DEF Assign
<1>2. /\ watcher'.at \in {"reading", "idle"}
      /\ watcher'.at = "idle" => Registry = 0
  BY DEF Assign, At
<1>3. Shapes' /\ InStep'
  BY <1>1, <1>2 DEF IInv, Shapes, InStep
<1>4. FileClean'
  BY <1>1, <1>2 DEF IInv, FileClean
<1>5. PoolMade'
  BY <1>1, <1>2 DEF IInv, PoolMade, Registry
<1> QED
  BY <1>3, <1>4, <1>5 DEF IInv

LEMMA WatcherReadsKeeps == IInv /\ WatcherReads => IInv'
<1> SUFFICES ASSUME IInv, WatcherReads PROVE IInv'
  OBVIOUS
<1>1. /\ watcher.at = "reading"
      /\ UNCHANGED <<file, memory, events, editor, page, loop, active, cache, keys, stale>>
  BY DEF WatcherReads
<1>2. watcher'.at = "applying"
  BY DEF WatcherReads
<1>3. Shapes' /\ InStep' /\ FileClean' /\ PoolMade'
  BY <1>1, <1>2 DEF IInv, Shapes, InStep, FileClean, PoolMade, Registry
<1> QED
  BY <1>3 DEF IInv

LEMMA WatcherAppliesKeeps == IInv /\ WatcherApplies => IInv'
<1> SUFFICES ASSUME IInv, WatcherApplies PROVE IInv'
  OBVIOUS
<1>1. /\ watcher.at = "applying"
      /\ memory' = Applied(memory, watcher.registry, watcher.rows)
      /\ stale' = (watcher.registry # Registry \/ watcher.rows # keys)
      /\ watcher' = At("idle")
      /\ UNCHANGED <<file, events, editor, page, loop, active, cache, keys>>
  BY DEF WatcherApplies
<1>2. watcher'.at = "idle"
  BY <1>1 DEF At
<1>a. PICK v, rows : v = watcher.registry /\ rows = watcher.rows
  OBVIOUS
<1>3. /\ Shapes' /\ InStep' /\ FileClean'
      /\ memory'.pools = {PoolOf(v, rows)}
  <2>1. memory' = Applied(memory, v, rows) /\ watcher.at # "idle"
    BY <1>1, <1>a
  <2> QED
    BY <1>1, <1>2, <2>1, ApplicationKeeps
<1>4. Registry' = Registry
  BY <1>1 DEF Registry
<1>5. PoolMade'
  BY <1>1, <1>3, <1>4, <1>a DEF IInv, PoolMade
<1> QED
  BY <1>3, <1>5 DEF IInv

LEMMA EmptyGood == GoodUser(Empty)
<1>1. Empty.groups \in GroupMaps
  BY DEF Empty, GroupMaps
<1>2. Acyclic(Empty.groups)
  BY DEF Empty, Acyclic
<1>3. Empty \in Users
  BY <1>1 DEF Empty, Users
<1> QED
  BY <1>2, <1>3 DEF GoodUser

LEMMA BeginHandEditKeeps == IInv /\ BeginHandEdit => IInv'
<1> SUFFICES ASSUME IInv, BeginHandEdit PROVE IInv'
  OBVIOUS
<1>1. /\ file.pools = {} /\ events' = TRUE
      /\ UNCHANGED <<memory, page, loop, watcher, active, cache, keys, stale>>
  BY DEF BeginHandEdit
<1>2. PICK p \in Providers : editor' = [file EXCEPT !.user.providers = @ \cup {p}]
  BY DEF BeginHandEdit
<1>a. PICK u : u = [file.user EXCEPT !.providers = @ \cup {p}]
  OBVIOUS
<1>3. GoodConfig(file) /\ GoodUser(file.user)
  BY DEF IInv, Shapes, GoodConfig
<1>4. GoodUser(u)
  <2>1. u \in Users /\ u.groups = file.user.groups
    BY <1>3, <1>a DEF GoodUser, Users
  <2> QED
    BY <1>3, <2>1 DEF GoodUser
<1>5. editor' = Config(u, {})
  <2>1. editor' = [file EXCEPT !.user = u]
    BY <1>2, <1>3, <1>a DEF GoodConfig
  <2> QED
    BY <1>1, <1>3, <2>1, UserReplaced
<1>6. GoodConfig(editor') /\ editor'.pools = {}
  BY <1>4, <1>5, ConfigGood
<1>7. file' = Config(Empty, {})
  BY DEF BeginHandEdit, Config
<1>8. GoodConfig(file') /\ file'.pools = {}
  BY <1>7, EmptyGood, ConfigGood
<1>9. Shapes' /\ InStep' /\ FileClean'
  BY <1>1, <1>6, <1>8 DEF IInv, Shapes, InStep, FileClean
<1>10. PoolMade'
  BY <1>1 DEF IInv, PoolMade, Registry
<1> QED
  BY <1>9, <1>10 DEF IInv

LEMMA EndHandEditKeeps == IInv /\ EndHandEdit => IInv'
<1> SUFFICES ASSUME IInv, EndHandEdit PROVE IInv'
  OBVIOUS
<1>1. /\ file' = editor /\ editor # None /\ editor' = None /\ events' = TRUE
      /\ UNCHANGED <<memory, page, loop, watcher, active, cache, keys, stale>>
  BY DEF EndHandEdit
<1>2. Shapes' /\ InStep' /\ FileClean' /\ PoolMade'
  BY <1>1 DEF IInv, Shapes, InStep, FileClean, PoolMade, Registry
<1> QED
  BY <1>2 DEF IInv

LEMMA RestartKeeps == IInv /\ Restart => IInv'
<1> SUFFICES ASSUME IInv, Restart PROVE IInv'
  OBVIOUS
<1>1. /\ memory' = file /\ events' = FALSE
      /\ loop'.at = "starting" /\ watcher'.at = "idle"
      /\ UNCHANGED <<file, editor, page>>
  BY DEF Restart, At
<1>2. Shapes' /\ PoolMade'
  BY <1>1 DEF IInv, Shapes, PoolMade
<1>3. InStep'
  BY <1>1, SameAsItself DEF InStep
<1>4. FileClean'
  BY <1>1 DEF IInv, FileClean
<1> QED
  BY <1>2, <1>3, <1>4 DEF IInv

-----------------------------------------------------------------------------
(* The invariant *)

LEMMA InitHolds == Init => IInv
<1> SUFFICES ASSUME Init PROVE IInv
  OBVIOUS
<1>1. PICK pools : file = [user |-> Initially, pools |-> pools]
  BY DEF Init
<1>2. GoodUser(Initially)
  BY StoreAssumption DEF GoodUser, Users, GroupMaps
<1>3. file = Config(Initially, pools) /\ GoodConfig(file)
  BY <1>1, <1>2, ConfigGood DEF Config
<1>4. /\ memory = file /\ events = FALSE /\ editor = None /\ page = None
      /\ loop.at = "starting" /\ watcher.at = "idle"
  BY DEF Init, At
<1>5. Shapes /\ PoolMade
  BY <1>3, <1>4 DEF Shapes, PoolMade
<1>6. InStep
  BY <1>4, SameAsItself DEF InStep
<1>7. FileClean
  BY <1>4 DEF FileClean
<1> QED
  BY <1>5, <1>6, <1>7 DEF IInv

LEMMA StepKeeps == IInv /\ [Next]_vars => IInv'
<1> SUFFICES ASSUME IInv, [Next]_vars PROVE IInv'
  OBVIOUS
<1>1. CASE \/ \E p \in Providers : AddProvider(p) \/ DeleteProvider(p)
           \/ \E name, original \in Groups, members \in GroupEdits :
                  SaveGroup(name, members, original)
           \/ \E name \in Groups : DeleteGroup(name)
           \/ \E name \in Groups, p \in Providers : EnsureMember(name, p)
  BY <1>1, AddProviderKeeps, DeleteProviderKeeps, SaveGroupKeeps, DeleteGroupKeeps,
     EnsureMemberKeeps
<1>2. CASE RenderPage \/ SavePage
  BY <1>2, RenderPageKeeps, SavePageKeeps
<1>3. CASE \/ \E name \in KeyNames, p \in DOMAIN Env, key \in Keys : UpsertKey(name, p, key)
           \/ \E i \in 1..KeyCap : ToggleKey(i) \/ DeleteKey(i)
  <2>1. KeyChange
    BY <1>3 DEF UpsertKey, ToggleKey, DeleteKey
  <2> QED
    BY <2>1, KeyChangeKeeps
<1>4. CASE \/ \E v \in Versions : Refresh(v)
           \/ CleanUp \/ LoopReads \/ LoopApplies \/ SaveCache
  BY <1>4, RefreshKeeps, CleanUpKeeps, LoopReadsKeeps, LoopAppliesKeeps, SaveCacheKeeps
<1>5. CASE Load \/ Assign \/ WatcherReads \/ WatcherApplies
  BY <1>5, LoadKeeps, AssignKeeps, WatcherReadsKeeps, WatcherAppliesKeeps
<1>6. CASE BeginHandEdit \/ EndHandEdit \/ Restart
  BY <1>6, BeginHandEditKeeps, EndHandEditKeeps, RestartKeeps
<1>7. CASE UNCHANGED vars
  BY <1>7 DEF vars, IInv, Shapes, InStep, FileClean, PoolMade, Registry
<1> QED
  BY <1>1, <1>2, <1>3, <1>4, <1>5, <1>6, <1>7 DEF Next

\* The inductive invariant holds.
THEOREM InvariantHolds == Spec => []IInv
BY InitHolds, StepKeeps, PTL DEF Spec

-----------------------------------------------------------------------------
(* The properties *)

\* When nothing is left to load, memory and file agree.
THEOREM FileAndMemoryConverge == Spec => []Converged
<1>1. IInv => Converged
  BY DEF IInv, InStep, SameUser, Converged, AtRest
<1> QED
  BY <1>1, InvariantHolds, PTL

\* Nothing managed is in the file once the application has started.
THEOREM FileStaysTheUsers == Spec => []NothingManagedInFile
<1>1. IInv => NothingManagedInFile
  BY DEF IInv, FileClean, NothingManagedInFile
<1> QED
  BY <1>1, InvariantHolds, PTL

\* No group contains itself through others, for groups of any number and depth.
THEOREM GroupsStayAcyclic == Spec => []NoGroupCycles
<1>1. IInv => NoGroupCycles
  BY DEF IInv, Shapes, GoodConfig, GoodUser, NoGroupCycles
<1> QED
  BY <1>1, InvariantHolds, PTL

\* At rest the pool in memory is what PoolOf makes of the registry and of the
\* table of keys, unless what was applied last had been overtaken.
PoolIsMade ==
    AtRest /\ ~stale /\ Registry # 0 => memory.pools = {PoolOf(Registry, keys)}

\* No reload, save, refresh or failed fetch of the registry loses the pool or leaves
\* an old one, with one exception, stale: whoever applies a pool has read the
\* registry and the rows of the keys before, and if either has changed since, or the
\* read of the keys had failed, the pool that is left is an old or an empty one until
\* something applies the registry again (_registry_for_impl, _apply_to_impl).
THEOREM PoolFollows == Spec => []PoolIsMade
<1>1. IInv => PoolIsMade
  BY DEF IInv, PoolMade, PoolIsMade, AtRest
<1> QED
  BY <1>1, InvariantHolds, PTL

-----------------------------------------------------------------------------
(* Sorting: as many places as there are members, each in its own *)

Ordered(S) ==
    /\ \A x \in S : ~Before(x, x)
    /\ \A x, y, z \in S : Before(x, y) /\ Before(y, z) => Before(x, z)
    /\ \A x, y \in S : x # y => Before(x, y) \/ Before(y, x)

Below(S, x) == {y \in S : Before(y, x)}

LEMMA BelowFewer ==
    ASSUME NEW S, IsFiniteSet(S), Ordered(S), NEW x \in S
    PROVE  /\ IsFiniteSet(Below(S, x)) /\ Cardinality(Below(S, x)) \in Nat
           /\ Cardinality(Below(S, x)) < Cardinality(S)
           /\ \A y \in S : Before(x, y) =>
                  Cardinality(Below(S, x)) < Cardinality(Below(S, y))
<1>1. ASSUME NEW T \in SUBSET S, Below(S, x) \subseteq T, x \in T
      PROVE  /\ IsFiniteSet(Below(S, x)) /\ Cardinality(Below(S, x)) \in Nat
             /\ Cardinality(Below(S, x)) < Cardinality(T)
  <2>1. IsFiniteSet(T)
    BY FS_Subset
  <2>2. x \notin Below(S, x)
    BY DEF Ordered, Below
  <2>3. PICK L : L = Below(S, x)
    OBVIOUS
  <2>4. L \in SUBSET T /\ L # T
    BY <1>1, <2>2, <2>3
  <2>5. /\ IsFiniteSet(L) /\ Cardinality(L) <= Cardinality(T)
        /\ Cardinality(T) # Cardinality(L)
    BY <2>1, <2>4, FS_Subset
  <2>6. Cardinality(L) \in Nat /\ Cardinality(T) \in Nat
    BY <2>1, <2>5, FS_CardinalityType
  <2> QED
    BY <2>3, <2>5, <2>6
<1>2. /\ IsFiniteSet(Below(S, x)) /\ Cardinality(Below(S, x)) \in Nat
      /\ Cardinality(Below(S, x)) < Cardinality(S)
  <2>1. Below(S, x) \subseteq S
    BY DEF Below
  <2> QED
    BY <1>1, <2>1
<1>3. ASSUME NEW y \in S, Before(x, y)
      PROVE  Cardinality(Below(S, x)) < Cardinality(Below(S, y))
  <2>1. Below(S, y) \subseteq S /\ x \in Below(S, y)
    BY <1>3 DEF Below
  <2>2. Below(S, x) \subseteq Below(S, y)
    BY <1>3 DEF Below, Ordered
  <2> QED
    BY <1>1, <2>1, <2>2
<1> QED
  BY <1>2, <1>3

\* The place of a member.
Place(S, x) == Cardinality(Below(S, x)) + 1

LEMMA RankedSorts ==
    ASSUME NEW S, IsFiniteSet(S), Ordered(S)
    PROVE  /\ Cardinality(S) \in Nat
           /\ \A i \in 1..Cardinality(S) : Ranked(S, i) \in S
           /\ \A x \in S : \E i \in 1..Cardinality(S) : Ranked(S, i) = x
           /\ \A i, j \in 1..Cardinality(S) : i < j => Before(Ranked(S, i), Ranked(S, j))
<1>1. PICK n : n = Cardinality(S)
  OBVIOUS
<1>2. n \in Nat
  BY <1>1, FS_CardinalityType
<1>3. \A x \in S : /\ Cardinality(Below(S, x)) \in Nat /\ Cardinality(Below(S, x)) < n
                   /\ \A y \in S : Before(x, y) =>
                          Cardinality(Below(S, x)) < Cardinality(Below(S, y))
  BY <1>1, BelowFewer
<1>4. PICK f : f = [x \in S |-> Place(S, x)]
  OBVIOUS
<1>5. /\ f \in [S -> 1..n]
      /\ \A x \in S : f[x] = Place(S, x)
      /\ \A x, y \in S : Before(x, y) => f[x] < f[y]
  <2>1. \A x \in S : /\ Place(S, x) \in 1..n
                     /\ \A y \in S : Before(x, y) => Place(S, x) < Place(S, y)
    BY <1>2, <1>3 DEF Place
  <2> QED
    BY <1>4, <2>1
<1>6. \A x, y \in S : f[x] = f[y] => x = y
  <2> SUFFICES ASSUME NEW x \in S, NEW y \in S, x # y PROVE f[x] # f[y]
    OBVIOUS
  <2>1. Before(x, y) \/ Before(y, x)
    BY DEF Ordered
  <2>2. f[x] \in 1..n /\ f[y] \in 1..n
    BY <1>5
  <2> QED
    BY <1>5, <2>1, <2>2
<1>7. f \in Surjection(S, 1..n)
  <2>1. f \in Injection(S, 1..n)
    BY <1>5, <1>6 DEF Injection, IsInjective
  <2>2. IsFiniteSet(1..n) /\ Cardinality(1..n) = n
    BY <1>2, FS_Interval
  <2> QED
    BY <1>1, <2>1, <2>2, FS_Injection
<1>8. \A i \in 1..n : \E x \in S : f[x] = i
  BY <1>7 DEF Surjection
<1>9. \A i \in 1..n : Ranked(S, i) \in S /\ f[Ranked(S, i)] = i
  <2> SUFFICES ASSUME NEW i \in 1..n
               PROVE  Ranked(S, i) \in S /\ f[Ranked(S, i)] = i
    OBVIOUS
  <2>1. \A x \in S : Cardinality(Below(S, x)) = i - 1 <=> f[x] = i
    BY <1>2, <1>3, <1>5 DEF Place
  <2>2. \E x \in S : Cardinality(Below(S, x)) = i - 1
    BY <1>8, <2>1
  <2>3. Ranked(S, i) = CHOOSE x \in S : Cardinality(Below(S, x)) = i - 1
    BY DEF Ranked, Below
  <2>4. PICK r : r = Ranked(S, i)
    OBVIOUS
  <2>5. r \in S /\ Cardinality(Below(S, r)) = i - 1
    BY <2>2, <2>3, <2>4
  <2> QED
    BY <2>1, <2>4, <2>5
<1>10. \A x \in S : Ranked(S, f[x]) = x
  <2> SUFFICES ASSUME NEW x \in S PROVE Ranked(S, f[x]) = x
    OBVIOUS
  <2>1. PICK i \in 1..n : i = f[x]
    BY <1>5
  <2> QED
    BY <1>6, <1>9, <2>1
<1>11. ASSUME NEW i \in 1..n, NEW j \in 1..n, i < j
       PROVE  Before(Ranked(S, i), Ranked(S, j))
  <2>1. PICK x \in S : x = Ranked(S, i) /\ f[x] = i
    BY <1>9
  <2>2. PICK y \in S : y = Ranked(S, j) /\ f[y] = j
    BY <1>9
  <2>3. x # y /\ ~(f[y] < f[x])
    BY <1>11, <2>1, <2>2
  <2>4. Before(x, y)
    BY <1>5, <2>3 DEF Ordered
  <2> QED
    BY <2>1, <2>2, <2>4
<1>12. \A x \in S : \E i \in 1..n : Ranked(S, i) = x
  BY <1>5, <1>10
<1> QED
  BY <1>1, <1>2, <1>9, <1>11, <1>12
-----------------------------------------------------------------------------
(* The members of the group, whose number is finite *)

EligibleOf(v) == {p \in DOMAIN Registries[v] : Registries[v][p].eligible}

\* A member is one key of a chosen model of an eligible provider.
IsMember(x, v, rows) ==
    /\ x.provider \in EligibleOf(v) /\ x.model \in ChosenModels(v, x.provider)
    /\ x.index \in Credentials(v, x.provider, rows)
    /\ x.priority = Registries[v][x.provider].models[x.model].priority
    /\ x.credential = Credential(v, x.provider, rows, x.index)
    /\ x = [priority |-> x.priority, provider |-> x.provider, model |-> x.model,
            index |-> x.index, credential |-> x.credential]

LEMMA MembersAre ==
    ASSUME NEW v, NEW rows
    PROVE  /\ \A x \in RankedMembers(v, rows) : IsMember(x, v, rows)
           /\ \A p \in EligibleOf(v) : \A m \in ChosenModels(v, p), i \in Credentials(v, p, rows) :
                  \E x \in RankedMembers(v, rows) :
                      /\ IsMember(x, v, rows)
                      /\ x.provider = p /\ x.model = m /\ x.index = i
<1>1. ASSUME NEW x \in RankedMembers(v, rows) PROVE IsMember(x, v, rows)
  <2>1. PICK p \in EligibleOf(v) : \E m \in ChosenModels(v, p), i \in Credentials(v, p, rows) :
            x = [priority |-> Registries[v][p].models[m].priority, provider |-> p,
                 model |-> m, index |-> i, credential |-> Credential(v, p, rows, i)]
    BY DEF RankedMembers, EligibleOf
  <2> QED
    BY <2>1 DEF IsMember
<1>2. ASSUME NEW p \in EligibleOf(v), NEW m \in ChosenModels(v, p),
             NEW i \in Credentials(v, p, rows)
      PROVE  \E x \in RankedMembers(v, rows) :
                 /\ IsMember(x, v, rows)
                 /\ x.provider = p /\ x.model = m /\ x.index = i
  <2>1. PICK x : x = [priority |-> Registries[v][p].models[m].priority, provider |-> p,
                      model |-> m, index |-> i, credential |-> Credential(v, p, rows, i)]
    OBVIOUS
  <2>2. x \in RankedMembers(v, rows)
    BY <2>1 DEF RankedMembers, EligibleOf
  <2>3. x.provider = p /\ x.model = m /\ x.index = i
    BY <2>1
  <2> QED
    BY <1>1, <2>2, <2>3
<1> QED
  BY <1>1, <1>2

LEMMA ElementsOf ==
    ASSUME NEW E, NEW s \in Seq(E)
    PROVE  \A i \in DOMAIN s : i \in Nat /\ s[i] \in E
OBVIOUS

\* The ranges of a member's numbers.
LEMMA Numbers ==
    ASSUME NEW v \in Versions, NEW E, NEW rows \in Seq(E),
           NEW x, IsMember(x, v, rows)
    PROVE  /\ x.provider \in DOMAIN Registries[v] /\ x.provider \in Nat
           /\ x.model \in DOMAIN Registries[v][x.provider].models /\ x.model \in Nat
           /\ x.index \in 0..Len(rows) /\ x.index \in Nat /\ x.priority \in Int
<1>1. PICK R : R = Registries[v]
  OBVIOUS
<1>2. R \in Seq(Provider)
  BY <1>1, PoolAssumption
<1>3. x.provider \in DOMAIN R /\ x.provider \in Nat /\ R[x.provider] \in Provider
  BY <1>1, <1>2 DEF IsMember, EligibleOf
<1>4. PICK M : M = R[x.provider].models
  OBVIOUS
<1>5. M \in Seq([priority: Int, chosen: BOOLEAN])
  BY <1>3, <1>4 DEF Provider
<1>6. x.model \in DOMAIN M /\ x.priority = M[x.model].priority
  BY <1>1, <1>4 DEF IsMember, ChosenModels
<1>7. x.model \in Nat /\ x.priority \in Int
  <2>1. x.model \in Nat /\ M[x.model] \in [priority: Int, chosen: BOOLEAN]
    BY <1>5, <1>6, ElementsOf
  <2> QED
    BY <1>6, <2>1
<1>8. x.index \in 0..Len(rows) /\ Len(rows) \in Nat
  BY DEF IsMember, Credentials, Offers
<1> QED
  BY <1>1, <1>3, <1>4, <1>6, <1>7, <1>8

\* Members of one provider, model and credential are one member.
LEMMA OneMember ==
    ASSUME NEW v, NEW rows, NEW x, NEW y, IsMember(x, v, rows), IsMember(y, v, rows),
           x.provider = y.provider, x.model = y.model, x.index = y.index
    PROVE  x = y
BY DEF IsMember

LEMMA MembersOrdered ==
    ASSUME NEW v \in Versions, NEW E, NEW rows \in Seq(E)
    PROVE  Ordered(RankedMembers(v, rows))
<1>1. PICK S : S = RankedMembers(v, rows)
  OBVIOUS
<1>2. \A x \in S : /\ x.provider \in Nat /\ x.model \in Nat
                   /\ x.index \in Nat /\ x.priority \in Int
  BY <1>1, MembersAre, Numbers
<1>3. \A x, y \in S : x.provider = y.provider /\ x.model = y.model /\ x.index = y.index
                      => x = y
  BY <1>1, MembersAre, OneMember
<1>4. \A x \in S : ~Before(x, x)
  BY <1>2 DEF Before
<1>5. \A x, y, z \in S : Before(x, y) /\ Before(y, z) => Before(x, z)
  BY <1>2 DEF Before
<1>6. \A x, y \in S : x # y => Before(x, y) \/ Before(y, x)
  BY <1>2, <1>3 DEF Before
<1> QED
  BY <1>1, <1>4, <1>5, <1>6 DEF Ordered

LEMMA MembersFinite ==
    ASSUME NEW v \in Versions, NEW E, NEW rows \in Seq(E)
    PROVE  IsFiniteSet(RankedMembers(v, rows))
<1>a. PICK S : S = RankedMembers(v, rows)
  OBVIOUS
<1>b. PICK R : R = Registries[v]
  OBVIOUS
<1>c. PICK Ms : Ms = {DOMAIN R[p].models : p \in DOMAIN R}
  OBVIOUS
<1>d. PICK All : All = (DOMAIN R) \X ((UNION Ms) \X (0..Len(rows)))
  OBVIOUS
<1>1. R \in Seq(Provider)
  BY <1>b, PoolAssumption
<1>2. IsFiniteSet(DOMAIN R) /\ \A p \in DOMAIN R : IsFiniteSet(DOMAIN R[p].models)
  <2>1. ASSUME NEW T, NEW Q \in Seq(T) PROVE IsFiniteSet(DOMAIN Q)
    <3>1. DOMAIN Q = 1..Len(Q) /\ Len(Q) \in Nat
      BY <2>1
    <3> QED
      BY <3>1, FS_Interval
  <2>2. \A p \in DOMAIN R : R[p].models \in Seq([priority: Int, chosen: BOOLEAN])
    <3>1. \A p \in DOMAIN R : R[p] \in Provider
      BY <1>1
    <3> QED
      BY <3>1 DEF Provider
  <2> QED
    BY <1>1, <2>1, <2>2
<1>3. IsFiniteSet(Ms)
  <2>1. PICK f : f = [p \in DOMAIN R |-> DOMAIN R[p].models]
    OBVIOUS
  <2>2. f \in Surjection(DOMAIN R, Ms)
    BY <1>c, <2>1 DEF Surjection
  <2> QED
    BY <1>2, <2>2, FS_Surjection
<1>4. IsFiniteSet(All)
  <2>1. IsFiniteSet(UNION Ms)
    BY <1>2, <1>3, <1>c, FS_UNION
  <2>2. IsFiniteSet(0..Len(rows))
    BY FS_Interval
  <2>3. IsFiniteSet((UNION Ms) \X (0..Len(rows)))
    BY <2>1, <2>2, FS_Product
  <2> QED
    BY <1>2, <1>d, <2>3, FS_Product
<1>5. PICK f : f = [x \in S |-> <<x.provider, <<x.model, x.index>>>>]
  OBVIOUS
<1>6. \A x \in S : /\ x.provider \in DOMAIN R /\ x.model \in DOMAIN R[x.provider].models
                   /\ x.index \in 0..Len(rows)
  BY <1>a, <1>b, MembersAre, Numbers
<1>7. \A x, y \in S : x.provider = y.provider /\ x.model = y.model /\ x.index = y.index
                      => x = y
  BY <1>a, MembersAre, OneMember
<1>8. f \in [S -> All]
  <2>1. \A x \in S : x.model \in UNION Ms
    BY <1>6, <1>c
  <2> QED
    BY <1>5, <1>6, <1>d, <2>1
<1>9. f \in Injection(S, All)
  BY <1>5, <1>7, <1>8 DEF Injection, IsInjective
<1> QED
  BY <1>a, <1>4, <1>9, FS_Injection

-----------------------------------------------------------------------------
(* The group that is made is the one that was promised *)

LEMMA LeastNumber ==
    ASSUME NEW T \in SUBSET Nat, T # {}
    PROVE  \E x \in T : \A y \in T : x <= y
<1>1. PICK R : R = OpToRel(<, Nat)
  OBVIOUS
<1>2. IsWellFoundedOn(R, Nat)
  BY <1>1, NatLessThanWellFounded
<1>3. PICK x \in T : \A y \in T : ~ (<<y, x>> \in R)
  BY <1>2, WFMin
<1>4. \A y \in T : ~(y < x)
  BY <1>1, <1>3 DEF OpToRel
<1> QED
  BY <1>4

\* What is offered twice is kept once.
LEMMA EachOfferKept ==
    ASSUME NEW v, NEW p, NEW E, NEW rows \in Seq(E), NEW i \in Offers(v, p, rows)
    PROVE  \E j \in Credentials(v, p, rows) :
               Credential(v, p, rows, j) = Credential(v, p, rows, i)
<1>1. PICK T : T = {j \in Offers(v, p, rows) :
                        Credential(v, p, rows, j) = Credential(v, p, rows, i)}
  OBVIOUS
<1>2. Offers(v, p, rows) \subseteq Nat
  BY DEF Offers
<1>3. T \in SUBSET Nat /\ T # {}
  BY <1>1, <1>2
<1>4. PICK j \in T : \A k \in T : j <= k
  BY <1>3, LeastNumber
<1>5. \A k \in Offers(v, p, rows) : k < j => k \notin T
  BY <1>2, <1>3, <1>4
<1>6. j \in Credentials(v, p, rows)
  BY <1>1, <1>4, <1>5 DEF Credentials
<1> QED
  BY <1>1, <1>4, <1>6

\* Who may have a key, as the promise has it.
Sources(v, p, rows) ==
    {d \in {Env[p]} \ {None} : Usable(v, p, d)} \cup
    {d \in ToSet(rows) : d.provider = p /\ d.enabled /\ Usable(v, p, d)}

LEMMA OffersAreSources ==
    ASSUME NEW v, NEW p, NEW E, NEW rows \in Seq(E)
    PROVE  Sources(v, p, rows) = {Source(p, rows, i) : i \in Offers(v, p, rows)}
<1>1. ASSUME NEW i \in Offers(v, p, rows) PROVE Source(p, rows, i) \in Sources(v, p, rows)
  <2>1. i \in 0..Len(rows) /\ Usable(v, p, Source(p, rows, i))
    BY DEF Offers, Usable
  <2>2. CASE i = 0
    BY <2>1, <2>2 DEF Offers, Source, Sources
  <2>3. CASE i # 0
    <3>1. i \in DOMAIN rows /\ rows[i].provider = p /\ rows[i].enabled
      BY <2>1, <2>3 DEF Offers
    <3> QED
      BY <2>1, <2>3, <3>1 DEF Source, Sources, ToSet
  <2> QED
    BY <2>2, <2>3
<1>2. ASSUME NEW d \in Sources(v, p, rows)
      PROVE  \E i \in Offers(v, p, rows) : d = Source(p, rows, i)
  <2>1. CASE d \in {Env[p]} \ {None} /\ Usable(v, p, d)
    <3>1. 0 \in Offers(v, p, rows) /\ Source(p, rows, 0) = d
      BY <2>1 DEF Offers, Source, Usable
    <3> QED
      BY <3>1
  <2>2. CASE d \in ToSet(rows) /\ d.provider = p /\ d.enabled /\ Usable(v, p, d)
    <3>1. PICK i \in DOMAIN rows : d = rows[i]
      BY <2>2 DEF ToSet
    <3>2. i \in Offers(v, p, rows) /\ Source(p, rows, i) = d
      BY <2>2, <3>1 DEF Offers, Source, Usable
    <3> QED
      BY <3>2
  <2> QED
    BY <2>1, <2>2 DEF Sources
<1> QED
  BY <1>1, <1>2

\* The keys of a provider.
LEMMA KeysKept ==
    ASSUME NEW v, NEW p, NEW E, NEW rows \in Seq(E)
    PROVE  /\ \A i \in Credentials(v, p, rows) : \E c \in Sources(v, p, rows) :
                  Credential(v, p, rows, i).key = c.key
           /\ \A c \in Sources(v, p, rows) : \E i \in Credentials(v, p, rows) :
                  Credential(v, p, rows, i).key = c.key
<1>1. \A i : Credential(v, p, rows, i).key = Source(p, rows, i).key
  BY DEF Credential
<1>2. Credentials(v, p, rows) \subseteq Offers(v, p, rows)
  BY DEF Credentials
<1>3. \A i \in Offers(v, p, rows) : \E j \in Credentials(v, p, rows) :
          Credential(v, p, rows, j) = Credential(v, p, rows, i)
  BY EachOfferKept
<1>4. Sources(v, p, rows) = {Source(p, rows, i) : i \in Offers(v, p, rows)}
  BY OffersAreSources
<1> QED
  BY <1>1, <1>2, <1>3, <1>4

LEMMA PoolPlaces ==
    ASSUME NEW v \in Versions, NEW E, NEW rows \in Seq(E),
           NEW S, S = RankedMembers(v, rows), NEW pool, pool = PoolOf(v, rows)
    PROVE  /\ \A i \in DOMAIN pool : /\ i \in Nat /\ Ranked(S, i) \in S
                                     /\ pool[i] = Member(Ranked(S, i))
           /\ \A x \in S : \E i \in DOMAIN pool : pool[i] = Member(x)
           /\ \A i, j \in DOMAIN pool : i < j => Before(Ranked(S, i), Ranked(S, j))
<1>1. IsFiniteSet(S) /\ Ordered(S)
  BY MembersFinite, MembersOrdered
<1>2. /\ DOMAIN pool = 1..Cardinality(S)
      /\ \A i \in DOMAIN pool : pool[i] = Member(Ranked(S, i))
  BY DEF PoolOf
<1> QED
  BY <1>1, <1>2, RankedSorts

LEMMA MembersAreRight ==
    ASSUME NEW v \in Versions, NEW E, NEW rows \in Seq(E)
    PROVE  RightMembers(PoolOf(v, rows), v, rows)
<1>a. PICK S : S = RankedMembers(v, rows)
  OBVIOUS
<1>b. PICK pool : pool = PoolOf(v, rows)
  OBVIOUS
<1> DEFINE Triple(p, m, k) == [provider |-> p, model |-> m, key |-> k]
           Made == {Triple(pool[i].provider, pool[i].model, pool[i].credential.key) :
                       i \in DOMAIN pool}
           Promised == UNION {{Triple(p, m, c.key) :
                           m \in ChosenModels(v, p), c \in Sources(v, p, rows)} :
                       p \in EligibleOf(v)}
<1>1. \A i \in DOMAIN pool : \E x \in S : pool[i] = Member(x)
  BY <1>a, <1>b, PoolPlaces
<1>2. \A x \in S : \E i \in DOMAIN pool : pool[i] = Member(x)
  BY <1>a, <1>b, PoolPlaces
<1>3. ASSUME NEW i \in DOMAIN pool
      PROVE  Triple(pool[i].provider, pool[i].model, pool[i].credential.key) \in Promised
  <2>1. PICK x \in S : pool[i] = Member(x)
    BY <1>1
  <2>2. /\ x.provider \in EligibleOf(v) /\ x.model \in ChosenModels(v, x.provider)
        /\ x.index \in Credentials(v, x.provider, rows)
        /\ x.credential = Credential(v, x.provider, rows, x.index)
    BY <1>a, MembersAre DEF IsMember
  <2>3. /\ pool[i].provider = x.provider /\ pool[i].model = x.model
        /\ pool[i].credential = x.credential
    BY <2>1 DEF Member
  <2>4. \E c \in Sources(v, x.provider, rows) : x.credential.key = c.key
    BY <2>2, KeysKept
  <2> QED
    BY <2>2, <2>3, <2>4
<1>4. ASSUME NEW t \in Promised PROVE t \in Made
  <2>1. PICK p \in EligibleOf(v) : \E m \in ChosenModels(v, p), c \in Sources(v, p, rows) :
            t = Triple(p, m, c.key)
    OBVIOUS
  <2>2. PICK m \in ChosenModels(v, p), c \in Sources(v, p, rows) : t = Triple(p, m, c.key)
    BY <2>1
  <2>3. PICK i \in Credentials(v, p, rows) : Credential(v, p, rows, i).key = c.key
    <3> HIDE DEF Promised, Triple
    <3> QED
      BY KeysKept
  <2>4. PICK x \in S : /\ IsMember(x, v, rows)
                       /\ x.provider = p /\ x.model = m /\ x.index = i
    BY <1>a, MembersAre
  <2>5. x.credential.key = c.key
    BY <2>3, <2>4 DEF IsMember
  <2>6. PICK j \in DOMAIN pool : pool[j] = Member(x)
    BY <1>2
  <2>7. /\ pool[j].provider = p /\ pool[j].model = m
        /\ pool[j].credential.key = c.key
    BY <2>4, <2>5, <2>6 DEF Member
  <2> QED
    BY <2>2, <2>7
<1>5. Made = Promised
  <2>1. ASSUME NEW t \in Made PROVE t \in Promised
    <3>1. PICK i \in DOMAIN pool :
              t = Triple(pool[i].provider, pool[i].model, pool[i].credential.key)
      OBVIOUS
    <3> HIDE DEF Promised
    <3> QED
      BY <1>3, <3>1
  <2> QED
    BY <2>1, <1>4
<1> QED
  BY <1>5, <1>b DEF RightMembers, Sources, EligibleOf

LEMMA OrderIsRight ==
    ASSUME NEW v \in Versions, NEW E, NEW rows \in Seq(E)
    PROVE  RightOrder(PoolOf(v, rows), v)
<1>a. PICK S : S = RankedMembers(v, rows)
  OBVIOUS
<1>b. PICK pool : pool = PoolOf(v, rows)
  OBVIOUS
<1>1. \A x \in S : /\ IsMember(x, v, rows)
                   /\ x.provider \in Nat /\ x.model \in Nat
                   /\ x.index \in Nat /\ x.priority \in Int
  BY <1>a, MembersAre, Numbers
<1>2. ASSUME NEW x \in S
      PROVE  /\ Member(x).provider = x.provider /\ Member(x).model = x.model
             /\ Member(x).credential = x.credential
             /\ Prio(v, Member(x)) = x.priority
  BY <1>1 DEF Member, Prio, IsMember
<1>3. ASSUME NEW x \in S, NEW y \in S, Before(x, y)
      PROVE  Member(x) # Member(y) /\ Prio(v, Member(x)) <= Prio(v, Member(y))
  <2>1. x.priority <= y.priority
    BY <1>1, <1>3 DEF Before
  <2>2. ASSUME Member(x) = Member(y) PROVE FALSE
    <3>1. x.provider = y.provider /\ x.model = y.model /\ x.credential = y.credential
          /\ x.priority = y.priority
      BY <1>2, <2>2
    <3>2. x.index < y.index
      BY <1>1, <1>3, <3>1 DEF Before
    <3> QED
      BY <1>1, <3>1, <3>2 DEF IsMember, Credentials
  <2> QED
    BY <1>2, <2>1, <2>2
<1>4. ASSUME NEW x \in S, NEW y \in S, NEW z \in S,
             Before(x, z) \/ x = z, Before(z, y) \/ z = y,
             x.provider = y.provider, x.model = y.model
      PROVE  z.provider = x.provider /\ z.model = x.model
  <2>1. x.priority = y.priority
    BY <1>1, <1>4 DEF IsMember
  <2> QED
    BY <1>1, <1>4, <2>1 DEF Before
<1>5. \A i \in DOMAIN pool : /\ i \in Nat /\ Ranked(S, i) \in S
                             /\ pool[i] = Member(Ranked(S, i))
  BY <1>a, <1>b, PoolPlaces
<1>6. \A i, j \in DOMAIN pool : i < j => Before(Ranked(S, i), Ranked(S, j))
  BY <1>a, <1>b, PoolPlaces
<1>7. ASSUME NEW i \in DOMAIN pool, NEW j \in DOMAIN pool, i < j,
             pool[i].provider = pool[j].provider, pool[i].model = pool[j].model,
             NEW k \in i..j
      PROVE  pool[k].provider = pool[i].provider /\ pool[k].model = pool[i].model
  <2>1. k \in DOMAIN pool /\ (i < k \/ i = k) /\ (k < j \/ k = j)
    <3>1. DOMAIN pool = 1..Cardinality(S)
      BY <1>a, <1>b DEF PoolOf
    <3>2. Cardinality(S) \in Nat
      BY <1>a, MembersFinite, FS_CardinalityType
    <3> QED
      BY <1>7, <3>1, <3>2
  <2>2. PICK x \in S : x = Ranked(S, i) /\ pool[i] = Member(x)
    BY <1>5
  <2>3. PICK y \in S : y = Ranked(S, j) /\ pool[j] = Member(y)
    BY <1>5
  <2>4. PICK z \in S : z = Ranked(S, k) /\ pool[k] = Member(z)
    BY <1>5, <2>1
  <2>5. (Before(x, z) \/ x = z) /\ (Before(z, y) \/ z = y)
    BY <1>6, <2>1, <2>2, <2>3, <2>4
  <2>6. x.provider = y.provider /\ x.model = y.model
    BY <1>2, <1>7, <2>2, <2>3
  <2>7. z.provider = x.provider /\ z.model = x.model
    BY <1>4, <2>5, <2>6
  <2> QED
    BY <1>2, <2>2, <2>4, <2>7
<1>8. \A i, j \in DOMAIN pool : i < j =>
          pool[i] # pool[j] /\ Prio(v, pool[i]) <= Prio(v, pool[j])
  BY <1>3, <1>5, <1>6
<1> QED
  BY <1>7, <1>8, <1>b DEF RightOrder

LEMMA PoolIsRight ==
    ASSUME NEW v \in Versions, NEW E, NEW rows \in Seq(E)
    PROVE  IsPool(PoolOf(v, rows), v, rows)
BY MembersAreRight, OrderIsRight DEF IsPool

-----------------------------------------------------------------------------
(* The tables: what the rows and the versions are *)

Row == [name: KeyNames, provider: DOMAIN Env, key: Keys, account: BOOLEAN,
        enabled: BOOLEAN]

Tables == keys \in Seq(Row) /\ active \in Versions \cup {0} /\ cache \in Versions \cup {0}

LEMMA RowRemoved ==
    ASSUME NEW E, NEW s \in Seq(E), NEW i \in DOMAIN s
    PROVE  RemoveAt(s, i) \in Seq(E)
<1>a. PICK front : front = SubSeq(s, 1, i - 1)
  OBVIOUS
<1>b. PICK back : back = SubSeq(s, i + 1, Len(s))
  OBVIOUS
<1>1. front \in Seq(E) /\ back \in Seq(E)
  BY <1>a, <1>b
<1>2. front \o back \in Seq(E)
  BY <1>1
<1> QED
  BY <1>2, <1>a, <1>b DEF RemoveAt

LEMMA TablesHold == Spec => []Tables
<1>1. Init => Tables
  BY DEF Init, Tables
<1>2. Tables /\ [Next]_vars => Tables'
  <2> SUFFICES ASSUME Tables, [Next]_vars PROVE Tables'
    OBVIOUS
  <2>1. active' \in Versions \cup {0} /\ cache' \in Versions \cup {0}
    BY DEF Tables, Next, vars, AddProvider, DeleteProvider, SaveGroup, DeleteGroup,
           EnsureMember, Edit, RenderPage, SavePage, UpsertKey, ToggleKey, DeleteKey,
           KeyChange, Refresh, CleanUp, LoopReads, LoopApplies, SaveCache, Load, Assign,
           WatcherReads, WatcherApplies, BeginHandEdit, EndHandEdit, Restart
  <2>2. ASSUME NEW name \in KeyNames, NEW p \in DOMAIN Env, NEW key \in Keys,
               UpsertKey(name, p, key)
        PROVE  keys' \in Seq(Row)
    <3>a. PICK row : row = [name |-> name, provider |-> p, key |-> key,
                            account |-> Registries[Registry][p].account, enabled |-> TRUE]
      OBVIOUS
    <3>1. Registry \in Versions
      BY <2>2 DEF UpsertKey, Registry, Tables
    <3>2. Registries[Registry][p] \in Provider
      BY <2>2, <3>1, PoolAssumption, ElementsOf DEF UpsertKey
    <3>3. row \in Row
      BY <3>2, <3>a DEF Provider, Row
    <3>4. \/ keys' = Append(keys, row)
          \/ \E old \in SUBSET DOMAIN keys :
                keys' = [i \in DOMAIN keys |-> IF i \in old THEN row ELSE keys[i]]
      BY <2>2, <3>a DEF UpsertKey
    <3> QED
      BY <3>3, <3>4 DEF Tables
  <2>3. ASSUME NEW i, ToggleKey(i) PROVE keys' \in Seq(Row)
    <3>1. /\ keys \in Seq(Row) /\ i \in DOMAIN keys
          /\ keys' = [keys EXCEPT ![i].enabled = ~@]
      BY <2>3 DEF ToggleKey, Tables
    <3>2. PICK row : row = [keys[i] EXCEPT !.enabled = ~@]
      OBVIOUS
    <3>3. keys[i] \in Row
      BY <3>1, ElementsOf
    <3>4. row \in Row
      BY <3>2, <3>3 DEF Row
    <3>5. keys' = [keys EXCEPT ![i] = row]
      BY <3>1, <3>2
    <3> QED
      BY <3>1, <3>4, <3>5
  <2>4. ASSUME NEW i, DeleteKey(i) PROVE keys' \in Seq(Row)
    BY <2>4, RowRemoved DEF DeleteKey, Tables
  <2>5. \/ UNCHANGED keys
        \/ \E name \in KeyNames, p \in DOMAIN Env, key \in Keys : UpsertKey(name, p, key)
        \/ \E i \in 1..KeyCap : ToggleKey(i) \/ DeleteKey(i)
    BY DEF Next, vars, AddProvider, DeleteProvider, SaveGroup, DeleteGroup,
           EnsureMember, Edit, RenderPage, SavePage, Refresh, CleanUp, LoopReads,
           LoopApplies, SaveCache, Load, Assign, WatcherReads, WatcherApplies,
           BeginHandEdit, EndHandEdit, Restart
  <2> QED
    BY <2>1, <2>2, <2>3, <2>4, <2>5 DEF Tables
<1> QED
  BY <1>1, <1>2, PTL DEF Spec

\* At rest the pool holds every usable key of every chosen model and no other, in
\* order and each once (build_registry_overlay, _credentials_for_provider), for any
\* registry and any rows.
THEOREM PoolStaysCurrent == Spec => []PoolCurrent
<1>1. PoolIsMade /\ Tables => PoolCurrent
  <2> SUFFICES ASSUME PoolIsMade, Tables, AtRest, ~stale, Registry # 0
               PROVE  \E pool \in memory.pools : IsPool(pool, Registry, keys)
    BY DEF PoolCurrent
  <2>1. memory.pools = {PoolOf(Registry, keys)}
    BY DEF PoolIsMade
  <2>2. Registry \in Versions /\ keys \in Seq(Row)
    BY DEF Tables, Registry
  <2>3. IsPool(PoolOf(Registry, keys), Registry, keys)
    BY <2>2, PoolIsRight
  <2> QED
    BY <2>1, <2>3
<1> QED
  BY <1>1, PoolFollows, TablesHold, PTL
=============================================================================
