------------------------------ MODULE RoundRobin ------------------------------
(***************************************************************************)
(* How a model group becomes the list of endpoints a request tries: the     *)
(* resolver (src/codex_registry.py), the counter that rotates the list      *)
(* (route_endpoints of src/main_impl.py) and everybody who resolves a group *)
(* and so moves the counter: the middleware that shows running requests     *)
(* (src/live_logs_entrypoint.py), the chat handler, the list of models and  *)
(* the admin playground.                                                   *)
(*                                                                         *)
(* One group.  All of them run in the event loop and a resolution has no    *)
(* await, so there is one at a time; but the file watcher's thread may      *)
(* replace the configuration between the part of it that collects the       *)
(* endpoints and the part that reads the strategy and moves the counter.    *)
(***************************************************************************)
EXTENDS Integers, Sequences, FiniteSets, SequencesExt

CONSTANTS
    Requests,     \* POST /v1/chat/completions for the group
    Endpoints,
    Configs,      \* what config.yml may say: [members, strategy]
    Lists,        \* Lists[c]: what _eligible may leave of c's members, in order,
                  \* as catalogs, blocks and logins of the accounts change
    ExtraCap,     \* bound: resolutions by the list of models and the playground
    CrashCap,     \* bound: restarts of the process
    StorageFails, \* TRUE: the middleware's SQL statements may raise
    None

ASSUME RoutingAssumption ==
    /\ \A c \in Configs : /\ c.members \in Seq(Endpoints)
                          /\ c.strategy \in {"round_robin", "fallback"}
                          /\ Lists[c] \subseteq Seq(Endpoints)
    /\ None # "extra"
    /\ {None, "extra"} \cap Requests = {}
    /\ ExtraCap \in Nat /\ CrashCap \in Nat
    /\ StorageFails \in BOOLEAN

VARIABLES
    config,    \* the group in config_data
    counter,   \* route_counters[group]
    req,       \* req[r]: where request r is and what it was told
    loop,      \* the resolution in progress in the event loop
    extra,     \* resolutions by others than requests so far
    crashes,   \* restarts so far
    last       \* history: the list last rotated, and how often each endpoint has
               \* come first since another list was rotated

vars == <<config, counter, req, loop, extra, crashes, last>>

Request == [pc: {"new", "tracked", "routed", "unavailable", "refused", "killed"},
            order: Seq(Endpoints)]

Free == [job |-> None, list |-> <<>>]
Extra == "extra"     \* the job of a resolution that no request makes
NoTurns == [list |-> <<>>, turns |-> [e \in Endpoints |-> 0]]

Init ==
    /\ config \in Configs
    /\ counter = 0
    /\ req = [r \in Requests |-> [pc |-> "new", order |-> <<>>]]
    /\ loop = Free
    /\ extra = 0
    /\ crashes = 0
    /\ last = NoTurns

-----------------------------------------------------------------------------
(* Who resolves the group *)

\* Mutant: a list without an eligible endpoint is routed like any other.
BeginAny(j, list) ==
    /\ loop = Free
    /\ loop' = [job |-> j, list |-> list]
    /\ UNCHANGED <<config, counter, req, extra, crashes, last>>

\* The resolution for job j begins: the endpoints are collected.
Begin(j, list) ==
    /\ loop = Free
    /\ list # <<>>
    /\ loop' = [job |-> j, list |-> list]
    /\ UNCHANGED <<config, counter, req, extra, crashes, last>>

\* track_running_requests resolves the model to name the provider it shows,
\* before the key of the request has been looked at.
Track(r) == req[r].pc = "new" /\ \E list \in Lists[config] : Begin(r, list)

\* It goes on without a provider if none is usable, or if the statement before
\* that raises.
TrackUnresolved(r) ==
    /\ req[r].pc = "new"
    /\ loop = Free
    /\ <<>> \in Lists[config] \/ StorageFails
    /\ req' = [req EXCEPT ![r].pc = "tracked"]
    /\ UNCHANGED <<config, counter, loop, extra, crashes, last>>

\* The handler refuses the key or the payload.
Refuse(r) ==
    /\ req[r].pc = "tracked"
    /\ loop = Free
    /\ req' = [req EXCEPT ![r].pc = "refused"]
    /\ UNCHANGED <<config, counter, loop, extra, crashes, last>>

\* The handler, buffered or streaming, resolves the model.
Handle(r) == req[r].pc = "tracked" /\ \E list \in Lists[config] : Begin(r, list)

\* 503, no eligible provider.
HandleUnavailable(r) ==
    /\ req[r].pc = "tracked"
    /\ loop = Free
    /\ <<>> \in Lists[config]
    /\ req' = [req EXCEPT ![r].pc = "unavailable"]
    /\ UNCHANGED <<config, counter, loop, extra, crashes, last>>

\* GET /v1/models resolves every group to see which to list; the playground
\* resolves the group with all its members, eligible or not.
OthersResolve ==
    /\ extra < ExtraCap
    /\ loop = Free
    /\ \E list \in Lists[config] \cup {config.members} :
        /\ list # <<>>
        /\ loop' = [job |-> Extra, list |-> list]
    /\ extra' = extra + 1
    /\ UNCHANGED <<config, counter, req, crashes, last>>

-----------------------------------------------------------------------------
(* route_endpoints *)

\* Mutant: the counter is read and not advanced.
NextCountStuck(c) == c

NextCount(c) == c + 1

Rotates(list) == config.strategy = "round_robin" /\ Len(list) > 1

\* Mutant: the part before the first endpoint loses its last one.
RotationShort(list, index) ==
    SubSeq(list, index + 1, Len(list)) \o SubSeq(list, 1, index - 1)

Rotation(list, index) ==
    SubSeq(list, index + 1, Len(list)) \o SubSeq(list, 1, index)

\* Endpoint e comes first of the list: history.
TakesTurn(list, e) ==
    LET before == IF last.list = list THEN last.turns ELSE NoTurns.turns IN
    [list |-> list, turns |-> [before EXCEPT ![e] = @ + 1]]

\* The middleware shows the first endpoint, the handler tries them in order.
Deliver(order) ==
    LET r == loop.job IN
    req' = IF r \notin Requests THEN req
           ELSE IF req[r].pc = "new" THEN [req EXCEPT ![r].pc = "tracked"]
           ELSE [req EXCEPT ![r].pc = "routed", ![r].order = order]

Route ==
    LET list == loop.list
        index == counter % Len(list)
    IN
    /\ loop # Free
    /\ loop' = Free
    /\ IF Rotates(list)
       THEN /\ counter' = NextCount(counter)
            /\ last' = TakesTurn(list, Rotation(list, index)[1])
            /\ Deliver(Rotation(list, index))
       ELSE /\ Deliver(list)
            /\ UNCHANGED <<counter, last>>
    /\ UNCHANGED <<config, extra, crashes>>

-----------------------------------------------------------------------------
(* The rest of the world *)

\* The watcher's thread reloads config.yml, or an admin saves a group.
ChangeConfig ==
    /\ config' \in Configs
    /\ UNCHANGED <<counter, req, loop, extra, crashes, last>>

\* Counters are in memory.
Restart ==
    /\ crashes < CrashCap
    /\ crashes' = crashes + 1
    /\ counter' = 0
    /\ loop' = Free
    /\ last' = NoTurns
    /\ req' = [r \in Requests |->
                 IF req[r].pc = "tracked" \/ loop.job = r
                 THEN [req[r] EXCEPT !.pc = "killed"] ELSE req[r]]
    /\ UNCHANGED <<config, extra>>

Next ==
    \/ \E r \in Requests : \/ Track(r) \/ TrackUnresolved(r) \/ Refuse(r)
                           \/ Handle(r) \/ HandleUnavailable(r)
    \/ OthersResolve
    \/ Route
    \/ ChangeConfig
    \/ Restart

Spec == Init /\ [][Next]_vars

-----------------------------------------------------------------------------
(* Properties *)

\* Type invariant: a resolution in progress has a list of endpoints to route,
\* a routed request an endpoint to begin at.
TypeOK ==
    /\ config \in Configs
    /\ counter \in Nat
    /\ req \in [Requests -> Request]
    /\ loop \in [job: Requests \cup {None, Extra}, list: Seq(Endpoints)]
    /\ loop # Free => loop.job # None /\ loop.list # <<>>
    /\ \A r \in Requests : req[r].pc = "routed" => req[r].order # <<>>
    /\ extra \in Nat /\ crashes \in Nat
    /\ last \in [list: Seq(Endpoints), turns: [Endpoints -> Nat]]

\* Even use, as far as the counter gives it: while one list is rotated and no
\* other, by whomever, whatever its position when it was first rotated, whatever
\* the strategy is changed to and back in between and in the middle of whose
\* resolution, no endpoint has come first two times more than another.
\* Nothing of the kind holds over lists of different lengths that alternate: they
\* share the counter, so <<a, b, c>>, <<a, b>> and <<a, b, c>> at 2, 3 and 4
\* begin with c, b and b.
EvenTurns ==
    \A e, f \in ToSet(last.list) : last.turns[e] <= last.turns[f] + 1

\* Whatever position a request begins at, it has each endpoint that was usable
\* when it was resolved, once, to fall back to.
OrderIsComplete ==
    [][\A r \in Requests :
         req[r].pc # "routed" /\ req'[r].pc = "routed" =>
             /\ ToSet(req'[r].order) = ToSet(loop.list)
             /\ Len(req'[r].order) = Len(loop.list)]_vars

-----------------------------------------------------------------------------
(* What the documents say and the code does not keep *)

\* README.md:25, "strategy: round_robin for even usage": of a group that does not
\* change, no endpoint is the first one of two more requests than another.
Starts(e) == Cardinality({r \in Requests : req[r].pc = "routed" /\ req[r].order[1] = e})

EvenUse ==
    \A e, f \in ToSet(config.members) : Starts(e) <= Starts(f) + 1
=============================================================================
