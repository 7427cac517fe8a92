---------------------------- MODULE ProviderMonitor ----------------------------
(***************************************************************************)
(* The ntfy alerts: the loop that tests every provider (src/main.py) and    *)
(* the record of who is down (src/provider_monitor.py).                     *)
(*                                                                         *)
(* One task.  A check is a turn of its loop: the tests, awaited together;   *)
(* their results, recorded in order without an await; and the events they   *)
(* raise, sent one at a time.  Edits of config.yml, failing tests, failing  *)
(* notifications and restarts come in between.                              *)
(***************************************************************************)
EXTENDS Integers, Sequences

CONSTANTS
    ProviderList,  \* the providers of config.yml, in the order tested
    Unknown,       \* whom a test that raises is recorded under
    Configs,       \* what config.yml may say of ntfy
    CheckCap,      \* bound: checks made in all
    CrashCap       \* bound: restarts

Names == {ProviderList[i] : i \in 1..Len(ProviderList)} \cup {Unknown}

ASSUME MonitorAssumption ==
    /\ ProviderList \in Seq(Names)
    /\ Configs \subseteq [enabled: BOOLEAN, failure_threshold: Int,
                          notify_recovery: BOOLEAN, interval: {"number", "text"}]
    /\ CheckCap \in Nat /\ CrashCap \in Nat

VARIABLES
    config,   \* get_ntfy_config()
    task,     \* where provider_monitor_loop is
    monitor,  \* the settings the ProviderDisconnectMonitor was built with
    states,   \* its _states
    results,  \* results of the tests still to be recorded
    events,   \* events of this check still to be sent
    checks, crashes,
    outage    \* history: for each name, how many times its tests have failed
              \* since one passed, the alerts raised about it, their fate

vars == <<config, task, monitor, states, results, events, checks, crashes, outage>>

Healthy == [consecutive_failures |-> 0, disconnect_notified |-> FALSE]
NoOutage == [failures |-> 0, alerts |-> 0, fate |-> "none"]

\* Mutant: the threshold is taken as configured.
Unclamped(n) == n

AtLeastOne(n) == IF n >= 1 THEN n ELSE 1

Fresh ==
    /\ states' = [n \in Names |-> Healthy]
    /\ outage' = [n \in Names |-> NoOutage]
    /\ results' = <<>>
    /\ events' = <<>>

Init ==
    /\ config \in Configs
    /\ task = "stopped"
    /\ monitor = [failure_threshold |-> 1, notify_recovery |-> TRUE]
    /\ states = [n \in Names |-> Healthy]
    /\ outage = [n \in Names |-> NoOutage]
    /\ results = <<>>
    /\ events = <<>>
    /\ checks = 0
    /\ crashes = 0

-----------------------------------------------------------------------------
(* provider_monitor_loop *)

\* The process starts.  A monitor is built, and keeps its settings, only if ntfy
\* is enabled at that time.
Startup ==
    /\ task = "stopped"
    /\ task' = IF config.enabled THEN "looping" ELSE "absent"
    /\ monitor' = IF config.enabled
                  THEN [failure_threshold |-> AtLeastOne(config.failure_threshold),
                        notify_recovery |-> config.notify_recovery]
                  ELSE monitor
    /\ UNCHANGED <<config, states, results, events, checks, crashes, outage>>

\* The interval is read outside the try: one that is not a number ends the task.
ReadInterval ==
    /\ task = "looping"
    /\ task' = IF config.interval = "number" THEN "sleeping" ELSE "dead"
    /\ UNCHANGED <<config, monitor, states, results, events, checks, crashes, outage>>

\* It wakes: nothing to do unless ntfy is enabled by now.
Wake ==
    /\ task = "sleeping"
    /\ checks < CheckCap
    /\ IF config.enabled
       THEN task' = "testing" /\ checks' = checks + 1
       ELSE task' = "looping" /\ UNCHANGED checks
    /\ UNCHANGED <<config, monitor, states, results, events, crashes, outage>>

\* All the tests have ended; one that raised has lost the name of its provider.
Result(i, outcome) ==
    [provider |-> IF outcome = "raised" THEN Unknown ELSE ProviderList[i],
     success |-> outcome = "passed"]

TestsEnd ==
    /\ task = "testing"
    /\ \E outcome \in [1..Len(ProviderList) -> {"passed", "failed", "raised"}] :
        results' = [i \in 1..Len(ProviderList) |-> Result(i, outcome[i])]
    /\ task' = "recording"
    /\ UNCHANGED <<config, monitor, states, events, checks, crashes, outage>>

\* test_all_provider_models itself raises; the loop goes on.
CheckFails ==
    /\ task = "testing"
    /\ task' = "looping"
    /\ UNCHANGED <<config, monitor, states, results, events, checks, crashes, outage>>

-----------------------------------------------------------------------------
(* ProviderDisconnectMonitor.record *)

\* Mutant: an alert that was raised does not keep the next from being raised.
TurnsDownAgain(s) == s.consecutive_failures + 1 >= monitor.failure_threshold

TurnsDown(s) ==
    /\ s.consecutive_failures + 1 >= monitor.failure_threshold
    /\ ~s.disconnect_notified

\* Mutant: any failure before it makes a success a recovery.
RecoversAfterAny(n) == states[n].consecutive_failures > 0 /\ monitor.notify_recovery

Recovers(n) == states[n].disconnect_notified /\ monitor.notify_recovery

RecordSuccess(n) ==
    /\ states' = [states EXCEPT ![n] = Healthy]
    /\ events' = IF Recovers(n)
                 THEN Append(events, [provider |-> n, event |-> "recovered"])
                 ELSE events
    /\ outage' = [outage EXCEPT ![n] = NoOutage]

RecordFailure(n) ==
    LET down == TurnsDown(states[n]) IN
    /\ states' = [states EXCEPT
         ![n] = [consecutive_failures |-> states[n].consecutive_failures + 1,
                 disconnect_notified |-> states[n].disconnect_notified \/ down]]
    /\ events' = IF down
                 THEN Append(events, [provider |-> n, event |-> "disconnected"])
                 ELSE events
    /\ outage' = [outage EXCEPT
         ![n] = [failures |-> outage[n].failures + 1,
                 alerts |-> IF down THEN outage[n].alerts + 1 ELSE outage[n].alerts,
                 fate |-> IF down THEN "waiting" ELSE outage[n].fate]]

Record ==
    /\ task = "recording"
    /\ results # <<>>
    /\ results' = Tail(results)
    /\ IF Head(results).success
       THEN RecordSuccess(Head(results).provider)
       ELSE RecordFailure(Head(results).provider)
    /\ UNCHANGED <<config, task, monitor, checks, crashes>>

Recorded ==
    /\ task = "recording"
    /\ results = <<>>
    /\ task' = "sending"
    /\ UNCHANGED <<config, monitor, states, results, events, checks, crashes, outage>>

-----------------------------------------------------------------------------
(* The notifications *)

\* Mutant: a notification that fails ends the check.
AfterFailureNothing(queue) == <<>>

AfterFailure(queue) == Tail(queue)

\* What became of the alert about n's outage, if the event is one.
Fated(event, fate) ==
    IF event.event = "disconnected"
    THEN [outage EXCEPT ![event.provider].fate = fate] ELSE outage

Send ==
    /\ task = "sending"
    /\ events # <<>>
    /\ \/ events' = Tail(events) /\ outage' = Fated(Head(events), "published")
       \/ events' = AfterFailure(events) /\ outage' = Fated(Head(events), "lost")
    /\ UNCHANGED <<config, task, monitor, states, results, checks, crashes>>

CheckEnds ==
    /\ task = "sending"
    /\ events = <<>>
    /\ task' = "looping"
    /\ UNCHANGED <<config, monitor, states, results, events, checks, crashes, outage>>

-----------------------------------------------------------------------------
(* The rest of the world *)

EditConfig ==
    /\ config' \in Configs
    /\ UNCHANGED <<task, monitor, states, results, events, checks, crashes, outage>>

\* The process stops, in the middle of anything; nothing of this is persisted.
Stop ==
    /\ task # "stopped"
    /\ crashes < CrashCap
    /\ crashes' = crashes + 1
    /\ task' = "stopped"
    /\ Fresh
    /\ UNCHANGED <<config, monitor, checks>>

Next ==
    \/ Startup \/ ReadInterval \/ Wake
    \/ TestsEnd \/ CheckFails
    \/ Record \/ Recorded
    \/ Send \/ CheckEnds
    \/ EditConfig \/ Stop

Spec == Init /\ [][Next]_vars

-----------------------------------------------------------------------------
(* Properties *)

State == [consecutive_failures: Nat, disconnect_notified: BOOLEAN]
Outage == [failures: Nat, alerts: Nat, fate: {"none", "waiting", "published", "lost"}]
Event == [provider: Names, event: {"disconnected", "recovered"}]

\* Type invariant; a monitor never has a threshold that no failure reaches first.
TypeOK ==
    /\ config \in Configs
    /\ task \in {"stopped", "absent", "looping", "sleeping", "testing", "recording",
                 "sending", "dead"}
    /\ monitor \in [failure_threshold: Nat \ {0}, notify_recovery: BOOLEAN]
    /\ states \in [Names -> State]
    /\ results \in Seq([provider: Names, success: BOOLEAN])
    /\ events \in Seq(Event)
    /\ checks \in Nat /\ crashes \in Nat
    /\ outage \in [Names -> Outage]

\* One alert for an outage that has reached the threshold and none for a shorter
\* one: however the tests that raise pool under one name, whatever is edited and
\* whatever becomes of the notification.
OneAlertPerOutage ==
    \A n \in Names :
        outage[n].alerts = IF outage[n].failures >= monitor.failure_threshold
                           THEN 1 ELSE 0

\* A provider that works again is announced exactly if an alert was raised about
\* the outage this ends and the monitor was built to announce recoveries.
RecoveryAnswersAlert ==
    [][\A n \in Names :
         outage[n].failures > 0 /\ outage'[n].failures = 0 /\ task' # "stopped" =>
             (events' = Append(events, [provider |-> n, event |-> "recovered"])
              <=> outage[n].alerts = 1 /\ monitor.notify_recovery)]_vars

\* A notification that fails does not stop the ones behind it: no alert is still
\* to be sent when the loop goes on, or when its task has ended.
EveryAlertTried ==
    task \notin {"recording", "sending"} =>
        \A n \in Names : outage[n].fate # "waiting"
=============================================================================
