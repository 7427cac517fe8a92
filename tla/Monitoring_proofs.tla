--------------------------- MODULE Monitoring_proofs ---------------------------
(***************************************************************************)
(* Proofs about what watches the proxy for its admin: ProviderMonitor and   *)
(* LiveLogs.  The two have nothing in common but their reader.              *)
(*                                                                         *)
(* Of the monitor, for any list of providers, any edits of the              *)
(* configuration and any number of checks and restarts: an outage has one   *)
(* alert, every alert is tried, and a recovery answers an alert.            *)
(*                                                                         *)
(* Of the page of logs, for any slots, pages, sizes and bounds: it has all  *)
(* rows.  That is no invariant that holds from step to step: what a page is *)
(* going to show depends on the answer that it waits for.  The invariant    *)
(* says of that answer that its rows follow each other, and, if it is not   *)
(* one of those that are cut off, that they go from the last row that the   *)
(* page knows to the last that the answer names.                            *)
(***************************************************************************)
EXTENDS ProviderMonitor, LiveLogs, TLAPS, WellFoundedInduction

-----------------------------------------------------------------------------
(* ProviderMonitor *)

\* What record remembers is what the history counts.
Tally ==
    \A n \in Names :
        /\ states[n].consecutive_failures = outage[n].failures
        /\ states[n].disconnect_notified <=> outage[n].alerts = 1

\* A process that has not begun has seen no outage.
NothingYet == task = "stopped" => \A n \in Names : outage[n] = NoOutage

\* Events are queued only from when they are raised to when they are sent.
Queued == task \notin {"recording", "sending"} => events = <<>>

\* Position i of the queue holds the alert about n.
AlertAt(queue, i, n) ==
    i \in 1..Len(queue) /\ queue[i].event = "disconnected" /\ queue[i].provider = n

\* An alert that is still to be sent is in the queue.
Waiting ==
    \A n \in Names : outage[n].fate = "waiting" => \E i \in Nat : AlertAt(events, i, n)

Inv ==
    /\ TypeOK
    /\ OneAlertPerOutage
    /\ Tally
    /\ NothingYet
    /\ Queued
    /\ Waiting

-----------------------------------------------------------------------------
(* One provider at a time *)

LEMMA QueueParts ==
    ASSUME NEW S, NEW queue \in Seq(S), queue # <<>>
    PROVE  Head(queue) \in S /\ Tail(queue) \in Seq(S)
  OBVIOUS

LEMMA InitInv == Init => Inv
  <1> SUFFICES ASSUME Init PROVE Inv
    OBVIOUS
  <1>1. /\ states \in [Names -> State]
        /\ \A n \in Names : states[n] = Healthy
    BY DEF Init, State, Healthy
  <1>2. /\ outage \in [Names -> Outage]
        /\ \A n \in Names : outage[n] = NoOutage
    BY DEF Init, Outage, NoOutage
  <1>3. TypeOK
    BY <1>1, <1>2 DEF Init, TypeOK
  <1>4. OneAlertPerOutage /\ Waiting
    BY <1>2 DEF Init, OneAlertPerOutage, Waiting, NoOutage
  <1>5. Tally
    <2>1. /\ Healthy.consecutive_failures = 0 /\ ~Healthy.disconnect_notified
          /\ NoOutage.failures = 0 /\ NoOutage.alerts = 0
      BY DEF Healthy, NoOutage
    <2> QED
      BY <1>1, <1>2, <2>1 DEF Tally
  <1> QED
    BY <1>2, <1>3, <1>4, <1>5 DEF Init, Inv, NothingYet, Queued

\* A step that touches neither the record nor the queue, and does not stop or
\* build a monitor, keeps the invariant if it keeps the types.
LEMMA LoopMoves ==
    ASSUME Inv, TypeOK', UNCHANGED <<monitor, states, outage, events>>,
           task' # "stopped",
           events = <<>> \/ task' \in {"recording", "sending"}
    PROVE  Inv'
  <1>1. OneAlertPerOutage' /\ Waiting' /\ NothingYet'
    BY DEF Inv, OneAlertPerOutage, Waiting, NothingYet
  <1>2. Tally'
    BY DEF Inv, Tally
  <1>3. Queued'
    BY DEF Queued
  <1> QED
    BY <1>1, <1>2, <1>3 DEF Inv

\* An alert stays in the queue when another event joins it.
LEMMA AppendKeeps ==
    ASSUME NEW queue \in Seq(Event), NEW e \in Event, NEW n \in Names, NEW i \in Nat,
           AlertAt(queue, i, n)
    PROVE  AlertAt(Append(queue, e), i, n)
  BY DEF AlertAt

\* An event that joins the queue is the last one.
LEMMA AppendPlaces ==
    ASSUME NEW queue \in Seq(Event), NEW n \in Names
    PROVE  LET e == [provider |-> n, event |-> "disconnected"] IN
           AlertAt(Append(queue, e), Len(queue) + 1, n)
  BY DEF AlertAt, Event

\* The alert that was sent aside, the others are one position nearer.
LEMMA TailKeeps ==
    ASSUME NEW queue \in Seq(Event), NEW n \in Names, NEW i \in Nat,
           AlertAt(queue, i, n), i # 1
    PROVE  AlertAt(Tail(queue), i - 1, n) /\ i - 1 \in Nat
  BY DEF AlertAt

\* A test that passed: the outage ends, and its alert with it.
LEMMA SuccessStep ==
    ASSUME Inv, NEW n \in Names, RecordSuccess(n),
           task = "recording", UNCHANGED <<task, monitor>>
    PROVE  /\ states' \in [Names -> State] /\ events' \in Seq(Event)
           /\ outage' \in [Names -> Outage]
           /\ OneAlertPerOutage' /\ Tally' /\ Waiting'
  <1>1. /\ Healthy \in State /\ NoOutage \in Outage
        /\ Healthy.consecutive_failures = 0 /\ ~Healthy.disconnect_notified
        /\ NoOutage.failures = 0 /\ NoOutage.alerts = 0 /\ NoOutage.fate = "none"
    BY DEF Healthy, NoOutage, State, Outage
  <1>2. /\ states \in [Names -> State] /\ outage \in [Names -> Outage]
        /\ events \in Seq(Event) /\ monitor.failure_threshold \in Nat \ {0}
    BY DEF Inv, TypeOK
  <1>3. /\ states' \in [Names -> State] /\ outage' \in [Names -> Outage]
        /\ states'[n] = Healthy /\ outage'[n] = NoOutage
        /\ \A m \in Names \ {n} : states'[m] = states[m] /\ outage'[m] = outage[m]
    BY <1>1, <1>2 DEF RecordSuccess
  <1>4. PICK e \in Event : events' = Append(events, e) \/ events' = events
    <2>1. [provider |-> n, event |-> "recovered"] \in Event
      BY DEF Event
    <2> QED
      BY <2>1 DEF RecordSuccess
  <1>5. events' \in Seq(Event)
    BY <1>2, <1>4
  <1>6. OneAlertPerOutage'
    BY <1>1, <1>2, <1>3 DEF Inv, OneAlertPerOutage
  <1>7. Tally'
    BY <1>1, <1>3 DEF Inv, Tally
  <1>8. Waiting'
    <2> SUFFICES ASSUME NEW m \in Names, outage'[m].fate = "waiting"
                 PROVE  \E i \in Nat : AlertAt(events', i, m)
      BY DEF Waiting
    <2>1. m # n /\ outage[m].fate = "waiting"
      BY <1>1, <1>3
    <2>2. PICK i \in Nat : AlertAt(events, i, m)
      BY <2>1 DEF Inv, Waiting
    <2>3. PICK queue \in Seq(Event) : queue = events
      BY <1>2
    <2>4. AlertAt(Append(queue, e), i, m)
      BY <2>2, <2>3, AppendKeeps
    <2> QED
      BY <1>4, <2>2, <2>3, <2>4
  <1> QED
    BY <1>3, <1>5, <1>6, <1>7, <1>8

\* A test that failed: it is counted, and the failure that reaches the threshold
\* raises the outage's only alert.
LEMMA FailureStep ==
    ASSUME Inv, NEW n \in Names, RecordFailure(n),
           task = "recording", UNCHANGED <<task, monitor>>
    PROVE  /\ states' \in [Names -> State] /\ events' \in Seq(Event)
           /\ outage' \in [Names -> Outage]
           /\ OneAlertPerOutage' /\ Tally' /\ Waiting'
  <1> DEFINE down == TurnsDown(states[n])
  <1>1. /\ states \in [Names -> State] /\ outage \in [Names -> Outage]
        /\ events \in Seq(Event) /\ monitor.failure_threshold \in Nat \ {0}
    BY DEF Inv, TypeOK
  <1>2. PICK f \in Nat : states[n].consecutive_failures = f /\ outage[n].failures = f
    BY <1>1 DEF Inv, Tally, State
  <1>3. PICK a \in Nat, s \in {"none", "waiting", "published", "lost"} :
          outage[n].alerts = a /\ outage[n].fate = s
    BY <1>1 DEF Outage
  <1>4. PICK e \in Event : e = [provider |-> n, event |-> "disconnected"]
    BY DEF Event
  <1>5. states[n].disconnect_notified \in BOOLEAN /\ (states[n].disconnect_notified <=> a = 1)
    BY <1>1, <1>3 DEF Inv, Tally, State
  <1>6. a = IF f >= monitor.failure_threshold THEN 1 ELSE 0
    BY <1>2, <1>3 DEF Inv, OneAlertPerOutage
  <1>7. down <=> f + 1 = monitor.failure_threshold
    BY <1>1, <1>2, <1>5, <1>6 DEF TurnsDown
  <1>8. CASE down
    <2>1. PICK b : b = [consecutive_failures |-> f + 1, disconnect_notified |-> TRUE]
      OBVIOUS
    <2>2. PICK o : o = [failures |-> f + 1, alerts |-> a + 1, fate |-> "waiting"]
      OBVIOUS
    <2>3. b \in State /\ o \in Outage
      BY <2>1, <2>2 DEF State, Outage
    <2>4. states' = [states EXCEPT ![n] = b]
      BY <1>2, <1>8, <2>1 DEF RecordFailure
    <2>5. outage' = [outage EXCEPT ![n] = o] /\ events' = Append(events, e)
      BY <1>2, <1>3, <1>4, <1>8, <2>2 DEF RecordFailure
    <2>6. /\ states' \in [Names -> State] /\ outage' \in [Names -> Outage]
          /\ states'[n] = b /\ outage'[n] = o
          /\ \A m \in Names \ {n} : states'[m] = states[m] /\ outage'[m] = outage[m]
          /\ events' \in Seq(Event)
      BY <1>1, <2>3, <2>4, <2>5
    <2>7. /\ o.failures = f + 1 /\ o.alerts = 1
          /\ b.consecutive_failures = f + 1 /\ b.disconnect_notified
      <3>1. a = 0
        BY <1>1, <1>6, <1>7, <1>8
      <3> QED
        BY <2>1, <2>2, <3>1
    <2>8. OneAlertPerOutage'
      <3>1. o.failures >= monitor.failure_threshold
        BY <1>1, <1>7, <1>8, <2>7
      <3> QED
        BY <2>6, <2>7, <3>1 DEF Inv, OneAlertPerOutage
    <2>9. Tally'
      BY <2>6, <2>7 DEF Inv, Tally
    <2>10. Waiting'
      <3> SUFFICES ASSUME NEW m \in Names, outage'[m].fate = "waiting"
                   PROVE  \E i \in Nat : AlertAt(events', i, m)
        BY DEF Waiting
      <3>1. PICK queue \in Seq(Event) : queue = events
        BY <1>1
      <3>2. CASE m = n
        <4>1. AlertAt(Append(queue, e), Len(queue) + 1, m)
          BY <1>4, <3>2, AppendPlaces
        <4>2. Len(queue) + 1 \in Nat
          OBVIOUS
        <4> QED
          BY <2>5, <3>1, <4>1, <4>2
      <3>3. CASE m # n
        <4>1. PICK i \in Nat : AlertAt(queue, i, m)
          BY <2>6, <3>1, <3>3 DEF Inv, Waiting
        <4>2. AlertAt(Append(queue, e), i, m)
          BY <4>1, AppendKeeps
        <4> QED
          BY <2>5, <3>1, <4>2
      <3> QED
        BY <3>2, <3>3
    <2> QED
      BY <2>6, <2>8, <2>9, <2>10
  <1>9. CASE ~down
    <2>1. PICK d \in BOOLEAN : d = states[n].disconnect_notified
      BY <1>5
    <2>2. PICK b : b = [consecutive_failures |-> f + 1, disconnect_notified |-> d]
      OBVIOUS
    <2>3. PICK o : o = [failures |-> f + 1, alerts |-> a, fate |-> s]
      OBVIOUS
    <2>4. b \in State /\ o \in Outage
      BY <2>2, <2>3 DEF State, Outage
    <2>5. states' = [states EXCEPT ![n] = b]
      <3>1. (states[n].disconnect_notified \/ down) = d
        BY <1>9, <2>1
      <3> QED
        BY <1>2, <2>2, <3>1 DEF RecordFailure
    <2>6. outage' = [outage EXCEPT ![n] = o] /\ events' = events
      BY <1>2, <1>3, <1>9, <2>3 DEF RecordFailure
    <2>7. /\ states' \in [Names -> State] /\ outage' \in [Names -> Outage]
          /\ states'[n] = b /\ outage'[n] = o
          /\ \A m \in Names \ {n} : states'[m] = states[m] /\ outage'[m] = outage[m]
      BY <1>1, <2>4, <2>5, <2>6
    <2>8. /\ o.failures = f + 1 /\ o.alerts = a /\ o.fate = s
          /\ b.consecutive_failures = f + 1
      BY <2>2, <2>3
    <2>9. b.disconnect_notified <=> a = 1
      BY <1>5, <2>1, <2>2
    <2>10. OneAlertPerOutage'
      <3>1. a = IF f + 1 >= monitor.failure_threshold THEN 1 ELSE 0
        BY <1>1, <1>6, <1>7, <1>9
      <3> QED
        BY <2>7, <2>8, <3>1 DEF Inv, OneAlertPerOutage
    <2>11. Tally'
      BY <2>7, <2>8, <2>9 DEF Inv, Tally
    <2>12. \A m \in Names : outage'[m].fate = outage[m].fate
      BY <1>3, <2>7, <2>8
    <2>13. Waiting'
      BY <2>6, <2>12 DEF Inv, Waiting
    <2> QED
      BY <1>1, <2>6, <2>7, <2>10, <2>11, <2>13
  <1> QED
    BY <1>8, <1>9

\* A notification, published or lost, leaves the queue with its fate noted.
LEMMA SendStep ==
    ASSUME Inv, Send
    PROVE  /\ outage' \in [Names -> Outage] /\ events' \in Seq(Event)
           /\ \A m \in Names : /\ outage'[m].failures = outage[m].failures
                               /\ outage'[m].alerts = outage[m].alerts
           /\ OneAlertPerOutage' /\ Tally' /\ Waiting'
  <1>1. /\ outage \in [Names -> Outage] /\ events \in Seq(Event) /\ events # <<>>
    BY DEF Inv, TypeOK, Send
  <1>2. PICK fate \in {"published", "lost"} :
          events' = Tail(events) /\ outage' = Fated(Head(events), fate)
    BY DEF Send, AfterFailure
  <1>3. PICK e \in Event : e = Head(events) /\ e = events[1]
    BY <1>1
  <1>4. e.provider \in Names
    BY DEF Event
  <1>5. /\ outage' \in [Names -> Outage]
        /\ \A m \in Names : /\ outage'[m].failures = outage[m].failures
                            /\ outage'[m].alerts = outage[m].alerts
                            /\ outage'[m].fate = "waiting" =>
                                 /\ outage[m].fate = "waiting"
                                 /\ ~(e.event = "disconnected" /\ e.provider = m)
    <2>1. CASE e.event = "disconnected"
      <3>1. PICK o : o = [outage[e.provider] EXCEPT !.fate = fate]
        OBVIOUS
      <3>2. outage[e.provider] \in Outage
        BY <1>1, <1>4
      <3>3. /\ o \in Outage /\ o.fate = fate
            /\ o.failures = outage[e.provider].failures
            /\ o.alerts = outage[e.provider].alerts
        BY <3>1, <3>2 DEF Outage
      <3>4. outage' = [outage EXCEPT ![e.provider] = o]
        BY <1>2, <1>3, <2>1, <3>1 DEF Fated
      <3> QED
        BY <1>1, <1>4, <3>3, <3>4
    <2>2. CASE e.event # "disconnected"
      BY <1>1, <1>2, <1>3, <2>2 DEF Fated
    <2> QED
      BY <2>1, <2>2
  <1>6. events' \in Seq(Event)
    BY <1>1, <1>2
  <1>7. monitor' = monitor /\ states' = states
    BY DEF Send
  <1>8. OneAlertPerOutage'
    BY <1>5, <1>7 DEF Inv, OneAlertPerOutage
  <1>9. Tally'
    BY <1>5, <1>7 DEF Inv, Tally
  <1>10. Waiting'
    <2> SUFFICES ASSUME NEW m \in Names, outage'[m].fate = "waiting"
                 PROVE  \E i \in Nat : AlertAt(events', i, m)
      BY DEF Waiting
    <2>1. outage[m].fate = "waiting" /\ ~(e.event = "disconnected" /\ e.provider = m)
      BY <1>5
    <2>2. PICK i \in Nat : AlertAt(events, i, m)
      BY <2>1 DEF Inv, Waiting
    <2>3. i # 1
      BY <1>3, <2>1, <2>2 DEF AlertAt
    <2>4. PICK queue \in Seq(Event) : queue = events
      BY <1>1
    <2>5. AlertAt(Tail(queue), i - 1, m) /\ i - 1 \in Nat
      BY <2>2, <2>3, <2>4, TailKeeps
    <2> QED
      BY <1>2, <2>4, <2>5
  <1> QED
    BY <1>5, <1>6, <1>8, <1>9, <1>10

-----------------------------------------------------------------------------
(* Every step *)

LEMMA StepType ==
    ASSUME Inv, Next
    PROVE  TypeOK'
  <1> USE DEF TypeOK, Inv
  <1>1. CASE Startup
    <2>1. monitor' \in [failure_threshold: Nat \ {0}, notify_recovery: BOOLEAN]
      <3>1. config \in [enabled: BOOLEAN, failure_threshold: Int,
                        notify_recovery: BOOLEAN, interval: {"number", "text"}]
        BY MonitorAssumption
      <3>2. PICK t \in Nat \ {0}, b \in BOOLEAN :
              t = AtLeastOne(config.failure_threshold) /\ b = config.notify_recovery
        BY <3>1 DEF AtLeastOne
      <3>3. CASE config.enabled
        <4>1. monitor' = [failure_threshold |-> t, notify_recovery |-> b]
          BY <1>1, <3>2, <3>3 DEF Startup
        <4> QED
          BY <4>1
      <3>4. CASE ~config.enabled
        BY <1>1, <3>4 DEF Startup
      <3> QED
        BY <3>3, <3>4
    <2> QED
      BY <1>1, <2>1 DEF Startup
  <1>2. CASE ReadInterval
    BY <1>2 DEF ReadInterval
  <1>3. CASE Wake
    BY <1>3 DEF Wake
  <1>4. CASE TestsEnd
    <2>1. PICK outcome \in [1..Len(ProviderList) -> {"passed", "failed", "raised"}] :
            results' = [i \in 1..Len(ProviderList) |-> Result(i, outcome[i])]
      BY <1>4 DEF TestsEnd
    <2>2. ASSUME NEW i \in 1..Len(ProviderList)
          PROVE  Result(i, outcome[i]) \in [provider: Names, success: BOOLEAN]
      <3>1. PICK n \in Names : n = IF outcome[i] = "raised" THEN Unknown ELSE ProviderList[i]
        BY DEF Names
      <3>2. PICK b \in BOOLEAN : b = (outcome[i] = "passed")
        OBVIOUS
      <3>3. Result(i, outcome[i]) = [provider |-> n, success |-> b]
        BY <3>1, <3>2 DEF Result
      <3> QED
        BY <3>3
    <2>3. Len(ProviderList) \in Nat
      BY MonitorAssumption
    <2>4. results' \in Seq([provider: Names, success: BOOLEAN])
      BY <2>1, <2>2, <2>3
    <2> QED
      BY <1>4, <2>4 DEF TestsEnd
  <1>5. CASE CheckFails
    BY <1>5 DEF CheckFails
  <1>6. CASE Record
    <2>1. /\ Head(results) \in [provider: Names, success: BOOLEAN]
          /\ results' \in Seq([provider: Names, success: BOOLEAN])
      <3>1. results # <<>> /\ results' = Tail(results)
        BY <1>6 DEF Record
      <3> QED
        BY <3>1, QueueParts
    <2>2. PICK n \in Names : n = Head(results).provider
      BY <2>1
    <2>3. RecordSuccess(n) \/ RecordFailure(n)
      BY <1>6, <2>2 DEF Record
    <2>4. task = "recording" /\ UNCHANGED <<config, task, monitor, checks, crashes>>
      BY <1>6 DEF Record
    <2>5. /\ states' \in [Names -> State] /\ events' \in Seq(Event)
          /\ outage' \in [Names -> Outage]
      BY <2>3, <2>4, SuccessStep, FailureStep
    <2> QED
      BY <2>1, <2>4, <2>5
  <1>7. CASE Recorded
    BY <1>7 DEF Recorded
  <1>8. CASE Send
    BY <1>8, SendStep DEF Send
  <1>9. CASE CheckEnds
    BY <1>9 DEF CheckEnds
  <1>10. CASE EditConfig
    BY <1>10 DEF EditConfig
  <1>11. CASE Stop
    BY <1>11 DEF Stop, Fresh, State, Healthy, Outage, NoOutage
  <1> QED
    BY <1>1, <1>2, <1>3, <1>4, <1>5, <1>6, <1>7, <1>8, <1>9, <1>10, <1>11 DEF Next

LEMMA NextInv == Inv /\ [Next]_vars => Inv'
  <1> SUFFICES ASSUME Inv, [Next]_vars PROVE Inv'
    OBVIOUS
  <1>1. CASE UNCHANGED vars
    BY <1>1 DEF vars, Inv, TypeOK, OneAlertPerOutage, Tally, NothingYet, Queued, Waiting
  <1>2. CASE Startup
    <2>1. task = "stopped" /\ task' # "stopped"
      BY <1>2 DEF Startup
    <2>2. UNCHANGED <<states, events, outage>>
      BY <1>2 DEF Startup
    <2>3. TypeOK'
      BY <1>2, StepType DEF Next
    <2>4. \A n \in Names : outage[n].failures = 0 /\ outage[n].alerts = 0
      BY <2>1 DEF Inv, NothingYet, NoOutage
    <2>5. OneAlertPerOutage'
      <3>1. monitor'.failure_threshold \in Nat \ {0}
        BY <2>3 DEF TypeOK
      <3> QED
        BY <2>2, <2>4, <3>1 DEF OneAlertPerOutage
    <2>6. Tally' /\ Waiting'
      BY <2>2 DEF Inv, Tally, Waiting
    <2>7. Queued' /\ NothingYet'
      BY <2>1, <2>2 DEF Inv, Queued, NothingYet
    <2> QED
      BY <2>3, <2>5, <2>6, <2>7 DEF Inv
  <1>3. CASE ReadInterval
    BY <1>3, StepType, LoopMoves DEF Next, ReadInterval, Inv, Queued
  <1>4. CASE Wake
    BY <1>4, StepType, LoopMoves DEF Next, Wake, Inv, Queued
  <1>5. CASE TestsEnd
    BY <1>5, StepType, LoopMoves DEF Next, TestsEnd
  <1>6. CASE CheckFails
    BY <1>6, StepType, LoopMoves DEF Next, CheckFails, Inv, Queued
  <1>7. CASE Record
    <2>1. task = "recording" /\ results # <<>> /\ UNCHANGED <<task, monitor>>
      BY <1>7 DEF Record
    <2>2. PICK n \in Names : n = Head(results).provider
      <3>1. results \in Seq([provider: Names, success: BOOLEAN])
        BY DEF Inv, TypeOK
      <3>2. Head(results) \in [provider: Names, success: BOOLEAN]
        BY <2>1, <3>1, QueueParts
      <3> QED
        BY <3>2
    <2>3. RecordSuccess(n) \/ RecordFailure(n)
      BY <1>7, <2>2 DEF Record
    <2>4. OneAlertPerOutage' /\ Tally' /\ Waiting'
      BY <2>1, <2>3, SuccessStep, FailureStep
    <2>5. TypeOK'
      BY <1>7, StepType DEF Next
    <2> QED
      BY <2>1, <2>4, <2>5 DEF Inv, NothingYet, Queued
  <1>8. CASE Recorded
    BY <1>8, StepType, LoopMoves DEF Next, Recorded
  <1>9. CASE Send
    <2>1. task = "sending" /\ task' = task
      BY <1>9 DEF Send
    <2>2. TypeOK'
      BY <1>9, StepType DEF Next
    <2>3. OneAlertPerOutage' /\ Tally' /\ Waiting'
      BY <1>9, SendStep
    <2> QED
      BY <2>1, <2>2, <2>3 DEF Inv, NothingYet, Queued
  <1>10. CASE CheckEnds
    BY <1>10, StepType, LoopMoves DEF Next, CheckEnds
  <1>11. CASE EditConfig
    <2>1. TypeOK'
      BY <1>11, StepType DEF Next
    <2> QED
      BY <1>11, <2>1 DEF EditConfig, Inv, OneAlertPerOutage, Tally, NothingYet, Queued,
                         Waiting
  <1>12. CASE Stop
    <2>1. TypeOK'
      BY <1>12, StepType DEF Next
    <2>2. /\ \A n \in Names : states'[n] = Healthy /\ outage'[n] = NoOutage
          /\ events' = <<>> /\ monitor' = monitor
      BY <1>12 DEF Stop, Fresh
    <2>3. /\ Healthy.consecutive_failures = 0 /\ ~Healthy.disconnect_notified
          /\ NoOutage.failures = 0 /\ NoOutage.alerts = 0 /\ NoOutage.fate = "none"
      BY DEF Healthy, NoOutage
    <2>4. OneAlertPerOutage'
      <3>1. monitor.failure_threshold \in Nat \ {0}
        BY DEF Inv, TypeOK
      <3> QED
        BY <2>2, <2>3, <3>1 DEF OneAlertPerOutage
    <2>5. Tally' /\ Waiting'
      BY <2>2, <2>3 DEF Tally, Waiting
    <2> QED
      BY <2>1, <2>2, <2>4, <2>5 DEF Inv, NothingYet, Queued
  <1> QED
    BY <1>1, <1>2, <1>3, <1>4, <1>5, <1>6, <1>7, <1>8, <1>9, <1>10, <1>11, <1>12
    DEF Next

THEOREM InvariantHolds == Spec => []Inv
  BY InitInv, NextInv, PTL DEF Spec

-----------------------------------------------------------------------------
(* The results *)

\* The state keeps its types, the threshold in use is never below one
\* (ProviderDisconnectMonitor.__init__).
THEOREM TypeCorrect == Spec => []TypeOK
  <1>1. Inv => TypeOK
    BY DEF Inv
  <1> QED
    BY <1>1, InvariantHolds, PTL

\* An outage has one alert from the failure that reaches the threshold on, and
\* none before (ProviderDisconnectMonitor.record).
THEOREM AlertedOnce == Spec => []OneAlertPerOutage
  <1>1. Inv => OneAlertPerOutage
    BY DEF Inv
  <1> QED
    BY <1>1, InvariantHolds, PTL

\* No alert is left behind in the queue of a check that has ended
\* (run_provider_monitor_once).
THEOREM AlertsAreTried == Spec => []EveryAlertTried
  <1>1. Inv => EveryAlertTried
    BY DEF Inv, Queued, Waiting, EveryAlertTried, AlertAt
  <1> QED
    BY <1>1, InvariantHolds, PTL

\* A recovery is announced exactly after an outage with an alert, if the monitor
\* announces recoveries at all (ProviderDisconnectMonitor.record).
THEOREM RecoveriesAnswer == Spec => RecoveryAnswersAlert
  <1> DEFINE Answers ==
        \A n \in Names :
          outage[n].failures > 0 /\ outage'[n].failures = 0 /\ task' # "stopped" =>
             (events' = Append(events, [provider |-> n, event |-> "recovered"])
              <=> outage[n].alerts = 1 /\ monitor.notify_recovery)
  <1>1. Inv /\ [Next]_vars => [Answers]_vars
    <2> SUFFICES ASSUME Inv, Next, NEW n \in Names, outage[n].failures > 0,
                        outage'[n].failures = 0, task' # "stopped"
                 PROVE  events' = Append(events, [provider |-> n, event |-> "recovered"])
                        <=> outage[n].alerts = 1 /\ monitor.notify_recovery
      OBVIOUS
    <2>1. /\ outage \in [Names -> Outage] /\ events \in Seq(Event)
          /\ \A m \in Names : outage[m].failures \in Nat
      BY DEF Inv, TypeOK, Outage
    <2>2. outage' # outage
      BY <2>1
    <2>3. CASE Send
      BY <2>1, <2>3, SendStep
    <2>4. CASE Record
      <3>1. PICK m \in Names : RecordSuccess(m) \/ RecordFailure(m)
        <4>1. results \in Seq([provider: Names, success: BOOLEAN]) /\ results # <<>>
          BY <2>4 DEF Inv, TypeOK, Record
        <4>2. Head(results) \in [provider: Names, success: BOOLEAN]
          BY <4>1, QueueParts
        <4> QED
          BY <2>4, <4>2 DEF Record
      <3>2. ~RecordFailure(m)
        <4> SUFFICES ASSUME RecordFailure(m) PROVE FALSE
          OBVIOUS
        <4>1. CASE m = n
          BY <2>1, <4>1 DEF RecordFailure
        <4>2. CASE m # n
          BY <2>1, <4>2 DEF RecordFailure
        <4> QED
          BY <4>1, <4>2
      <3>3. RecordSuccess(m) /\ m = n
        BY <2>1, <3>1, <3>2 DEF RecordSuccess
      <3>4. events' = IF Recovers(n)
                      THEN Append(events, [provider |-> n, event |-> "recovered"])
                      ELSE events
        BY <3>3 DEF RecordSuccess
      <3>5. Recovers(n) <=> outage[n].alerts = 1 /\ monitor.notify_recovery
        BY DEF Recovers, Inv, Tally
      <3>6. Append(events, [provider |-> n, event |-> "recovered"]) # events
        BY <2>1
      <3> QED
        BY <3>4, <3>5, <3>6
    <2>5. Send \/ Record
      BY <2>2 DEF Next, Startup, ReadInterval, Wake, TestsEnd, CheckFails, Recorded,
                  CheckEnds, EditConfig, Stop
    <2> QED
      BY <2>3, <2>4, <2>5
  <1> QED
    BY <1>1, InvariantHolds, PTL DEF Spec, RecoveryAnswersAlert

-----------------------------------------------------------------------------
(* LiveLogs *)

Answer == [rows : Seq(Nat), latest : Nat, running : {None} \cup [ids : SUBSET Nat]]

Page == [rows : Seq(Nat), running : SUBSET Nat, latest : Nat, answer : {None} \cup Answer]

\* Rows as a page shows them: the newest first, none after top.
Falling(rows, top) ==
    /\ rows \in Seq(Nat)
    /\ \A i \in 1..Len(rows) : rows[i] <= top
    /\ \A i \in 1..(Len(rows) - 1) : rows[i] > rows[i + 1]

\* All rows up to top that a page keeps.
Full(rows, top) ==
    /\ \A i \in DOMAIN rows : rows[i] = top - i + 1
    /\ Len(rows) = IF top < Recent THEN top ELSE Recent

\* The rows after before, one after the other.
Follow(new, before) ==
    new \in Seq(Nat) /\ \A i \in 1..Len(new) : new[i] = before + i

\* What a page that knows of the rows up to known is answered.
Fits(answer, known, whole, last) ==
    /\ answer.latest \in known..last
    /\ \E before \in known..answer.latest :
         /\ Follow(answer.rows, before)
         /\ before + Len(answer.rows) <= answer.latest
         /\ whole => before = known /\ before + Len(answer.rows) = answer.latest

\* A page that is to show all rows, or not, when last is the last row there is.
PageOK(page, whole, last) ==
    /\ page.latest \in 0..last
    /\ Falling(page.rows, page.latest)
    /\ whole => Full(page.rows, page.latest)
    /\ page.answer # None => Fits(page.answer, page.latest, whole, last)

IInv ==
    /\ logs \in Nat /\ arrivals \in Nat /\ markers \in SUBSET Nat
    /\ pages \in [Pages -> Page]
    /\ \A p \in Pages : PageOK(pages[p], p \notin flooded, logs)
-----------------------------------------------------------------------------
(* Numbers: what is true of 0 and goes on is true of all *)

LEMMA LeastNumber ==
    ASSUME NEW T \in SUBSET Nat, T # {}
    PROVE  \E x \in T : \A y \in T : x <= y
<1>1. PICK R : R = OpToRel(<, Nat)
    OBVIOUS
<1>2. IsWellFoundedOn(R, Nat)
    BY <1>1, NatLessThanWellFounded
<1>3. PICK x \in T : \A y \in T : ~ (<<y, x>> \in R)
    BY <1>2, WFMin
<1>4. \A y \in T : ~(y < x)
    BY <1>1, <1>3 DEF OpToRel
<1> QED
    BY <1>4

LEMMA GoesOn ==
    ASSUME NEW T, NEW last \in Nat, 0 \in T,
           \A n \in 0..last : n < last /\ n \in T => n + 1 \in T
    PROVE  \A n \in 0..last : n \in T
<1> SUFFICES ASSUME (0..last) \ T # {} PROVE FALSE
    OBVIOUS
<1> DEFINE S == (0..last) \ T
<1>1. PICK x \in S : \A y \in S : x <= y
  <2>1. S \in SUBSET Nat /\ S # {}
    OBVIOUS
  <2> HIDE DEF S
  <2> QED
    BY <2>1, LeastNumber
<1>2. x - 1 \in 0..last /\ x - 1 < last /\ x - 1 \in T
    BY <1>1
<1> QED
    BY <1>1, <1>2

-----------------------------------------------------------------------------
(* addLog, for one row and for the rows of an answer *)

\* The definition of Shown by recursion is one that a function satisfies.
LEMMA ShownSteps ==
    ASSUME NEW rows, NEW new \in Seq(Nat)
    PROVE  \E shown :
             /\ shown[0] = rows
             /\ \A n \in 1..Len(new) : shown[n] = AddLog(shown[n - 1], new[n])
             /\ Shown(rows, new) = shown[Len(new)]
<1> DEFINE Body(f, n) == IF n = 0 THEN rows ELSE AddLog(f[n - 1], new[n])
           Part(f, m) == f = [n \in 0..m |-> Body(f, n)]
           T == {m \in 0..Len(new) : \E f : Part(f, m)}
<1>1. Len(new) \in Nat
    OBVIOUS
<1>2. 0 \in T
  <2> DEFINE f == [n \in 0..0 |-> rows]
  <2>1. f = [n \in 0..0 |-> Body(f, n)]
    OBVIOUS
  <2>2. \E h : Part(h, 0)
    <3> HIDE DEF f, Body
    <3> QED
      BY <2>1
  <2> QED
    BY <1>1, <2>2
<1>3. ASSUME NEW m \in 0..Len(new), m < Len(new), m \in T
      PROVE  m + 1 \in T
  <2>1. PICK f : Part(f, m)
    BY <1>3
  <2> DEFINE g == [n \in 0..(m + 1) |-> Body(f, n)]
  <2>2. \A n \in 0..m : f[n] = g[n]
    BY <2>1
  <2>3. \A n \in 0..(m + 1) : n # 0 => n - 1 \in 0..m
    BY <1>1
  <2>4. \A n \in 0..(m + 1) : Body(f, n) = Body(g, n)
    <3> HIDE DEF g
    <3> QED
      BY <2>2, <2>3
  <2>5. g = [n \in 0..(m + 1) |-> Body(g, n)]
    <3>1. g = [n \in 0..(m + 1) |-> Body(f, n)]
      OBVIOUS
    <3> HIDE DEF g, Body
    <3> QED
      BY <2>4, <3>1
  <2>6. \E h : Part(h, m + 1)
    <3> HIDE DEF g, Body
    <3> QED
      BY <2>5
  <2> QED
    BY <1>1, <1>3, <2>6
<1>4. Len(new) \in T
  <2> HIDE DEF T
  <2>1. \A n \in 0..Len(new) : n < Len(new) /\ n \in T => n + 1 \in T
    BY <1>3
  <2>2. \A n \in 0..Len(new) : n \in T
    BY <1>1, <1>2, <2>1, GoesOn
  <2> QED
    BY <1>1, <2>2
<1> DEFINE Fix(f) == f = [n \in 0..Len(new) |-> IF n = 0 THEN rows
                                               ELSE AddLog(f[n - 1], new[n])]
           shown == CHOOSE f : Fix(f)
<1>5. Shown(rows, new) = shown[Len(new)]
    BY DEF Shown
<1>6. Fix(shown)
  <2>1. \E f : Fix(f)
    BY <1>4
  <2> HIDE DEF Fix
  <2> QED
    BY <2>1
<1> HIDE DEF shown
<1>7. shown[0] = rows
    BY <1>1, <1>6
<1>8. \A n \in 1..Len(new) : shown[n] = AddLog(shown[n - 1], new[n])
    BY <1>1, <1>6
<1> QED
    BY <1>5, <1>7, <1>8

LEMMA PutOnTop ==
    ASSUME NEW rows \in Seq(Nat), NEW row \in Nat
    PROVE  /\ <<row>> \o rows \in Seq(Nat)
           /\ Len(<<row>> \o rows) = Len(rows) + 1
           /\ (<<row>> \o rows)[1] = row
           /\ \A i \in 2..(Len(rows) + 1) : (<<row>> \o rows)[i] = rows[i - 1]
<1>1. PICK more : more = <<row>> \o rows
    OBVIOUS
<1>2. more \in Seq(Nat) /\ Len(more) = Len(rows) + 1
    BY <1>1
<1>3. more[1] = row
    BY <1>1
<1>4. \A i \in 2..(Len(rows) + 1) : more[i] = rows[i - 1]
    BY <1>1
<1> QED
    BY <1>1, <1>2, <1>3, <1>4

LEMMA FirstOf ==
    ASSUME NEW rows \in Seq(Nat), NEW n \in 0..Len(rows)
    PROVE  /\ SubSeq(rows, 1, n) \in Seq(Nat)
           /\ Len(SubSeq(rows, 1, n)) = n
           /\ \A i \in 1..n : SubSeq(rows, 1, n)[i] = rows[i]
<1>1. PICK first : first = SubSeq(rows, 1, n)
    OBVIOUS
<1>2. first \in Seq(Nat)
    BY <1>1
<1>3. Len(first) = n
    BY <1>1
<1>4. \A i \in 1..n : first[i] = rows[i]
    BY <1>1
<1> QED
    BY <1>1, <1>2, <1>3, <1>4

LEMMA FallingBelow ==
    ASSUME NEW low \in Nat, NEW top \in Nat, low <= top, NEW rows, Falling(rows, low)
    PROVE  Falling(rows, top)
<1>1. \A i \in 1..Len(rows) : rows[i] \in Nat /\ rows[i] <= low
    BY DEF Falling
<1>2. \A i \in 1..Len(rows) : rows[i] <= top
    BY <1>1
<1> QED
    BY <1>2 DEF Falling

\* A row after all that are shown goes on top of them.
LEMMA AddAbove ==
    ASSUME NEW top \in Nat, NEW row \in Nat, row > top, NEW rows, Falling(rows, top)
    PROVE  /\ Falling(AddLog(rows, row), row)
           /\ Full(rows, top) /\ row = top + 1 => Full(AddLog(rows, row), row)
<1>0. rows \in Seq(Nat) /\ Len(rows) \in Nat /\ \A i \in 1..Len(rows) : rows[i] \in Nat
    BY DEF Falling
<1>1. ~Contains(rows, row)
    BY <1>0 DEF Contains, Falling
<1>2. PICK more : more = <<row>> \o rows
    OBVIOUS
<1>3. /\ more \in Seq(Nat)
      /\ Len(more) = Len(rows) + 1
      /\ more[1] = row
      /\ \A i \in 2..(Len(rows) + 1) : more[i] = rows[i - 1]
    BY <1>0, <1>2, PutOnTop
<1>4. PICK n : n = IF Len(more) < Recent THEN Len(more) ELSE Recent
    OBVIOUS
<1>5. n \in 1..(Len(rows) + 1) /\ n \in 0..Len(more)
    BY <1>0, <1>3, <1>4, LiveLogsAssumption
<1>6. PICK kept : kept = SubSeq(more, 1, n)
    OBVIOUS
<1>7. AddLog(rows, row) = kept
    BY <1>1, <1>2, <1>4, <1>6 DEF AddLog
<1>8. kept \in Seq(Nat) /\ Len(kept) = n /\ \A i \in 1..n : kept[i] = more[i]
    BY <1>3, <1>5, <1>6, FirstOf
<1>9. kept[1] = row /\ \A i \in 2..n : kept[i] = rows[i - 1] /\ i - 1 \in 1..Len(rows)
    BY <1>0, <1>3, <1>5, <1>8
<1>10. Falling(kept, row)
  <2>1. \A i \in 1..n : kept[i] <= row
    <3> SUFFICES ASSUME NEW i \in 1..n PROVE kept[i] <= row
        OBVIOUS
    <3>1. CASE i = 1
        BY <1>9, <3>1
    <3>2. CASE i # 1
      <4>1. i \in 2..n
        BY <1>5, <3>2
      <4>2. kept[i] = rows[i - 1] /\ i - 1 \in 1..Len(rows)
        BY <1>9, <4>1
      <4>3. rows[i - 1] \in Nat /\ rows[i - 1] <= top
        BY <1>0, <4>2 DEF Falling
      <4> QED
        BY <4>2, <4>3
    <3> QED
        BY <3>1, <3>2
  <2>2. \A i \in 1..(n - 1) : kept[i] > kept[i + 1]
    <3> SUFFICES ASSUME NEW i \in 1..(n - 1) PROVE kept[i] > kept[i + 1]
        OBVIOUS
    <3>1. i + 1 \in 2..n /\ (i + 1) - 1 = i
        BY <1>5
    <3>2. kept[i + 1] = rows[i] /\ i \in 1..Len(rows)
        BY <1>9, <3>1
    <3>3. CASE i = 1
      <4>1. rows[i] \in Nat /\ rows[i] <= top
        BY <1>0, <3>2 DEF Falling
      <4> QED
        BY <1>9, <3>2, <3>3, <4>1
    <3>4. CASE i # 1
      <4>1. i \in 2..n /\ i - 1 \in 1..(Len(rows) - 1) /\ (i - 1) + 1 = i
        BY <1>0, <1>5, <3>2, <3>4
      <4>2. kept[i] = rows[i - 1]
        BY <1>9, <4>1
      <4>3. rows[i - 1] > rows[(i - 1) + 1]
        BY <4>1 DEF Falling
      <4> QED
        BY <3>2, <4>1, <4>2, <4>3
    <3> QED
        BY <3>3, <3>4
  <2> QED
    BY <1>8, <2>1, <2>2 DEF Falling
<1>11. ASSUME Full(rows, top), row = top + 1 PROVE Full(kept, row)
  <2>1. DOMAIN kept = 1..n /\ DOMAIN rows = 1..Len(rows)
    BY <1>0, <1>8
  <2>2. \A i \in 1..n : kept[i] = row - i + 1
    <3> SUFFICES ASSUME NEW i \in 1..n PROVE kept[i] = row - i + 1
        OBVIOUS
    <3>1. CASE i = 1
        BY <1>9, <3>1
    <3>2. CASE i # 1
      <4>1. i \in 2..n
        BY <1>5, <3>2
      <4>2. kept[i] = rows[i - 1] /\ i - 1 \in 1..Len(rows)
        BY <1>9, <4>1
      <4>3. rows[i - 1] = top - (i - 1) + 1
        BY <1>11, <2>1, <4>2 DEF Full
      <4> QED
        BY <1>11, <4>1, <4>2, <4>3
    <3> QED
        BY <3>1, <3>2
  <2>3. n = IF row < Recent THEN row ELSE Recent
    BY <1>0, <1>3, <1>4, <1>11, LiveLogsAssumption DEF Full
  <2> QED
    BY <1>8, <2>1, <2>2, <2>3 DEF Full
<1> QED
    BY <1>7, <1>10, <1>11

\* The rows of an answer, which follow each other and come after all that are
\* shown, go on top one by one; a page that had all rows has all rows again.
LEMMA ShownFalls ==
    ASSUME NEW before \in Nat, NEW rows, Falling(rows, before),
           NEW new, Follow(new, before)
    PROVE  /\ Falling(Shown(rows, new), before + Len(new))
           /\ Full(rows, before) => Full(Shown(rows, new), before + Len(new))
<1>1. new \in Seq(Nat) /\ Len(new) \in Nat
    BY DEF Follow
<1>2. PICK shown : /\ shown[0] = rows
                   /\ \A n \in 1..Len(new) : shown[n] = AddLog(shown[n - 1], new[n])
                   /\ Shown(rows, new) = shown[Len(new)]
    BY <1>1, ShownSteps
<1> DEFINE T == {n \in 0..Len(new) :
                    /\ Falling(shown[n], before + n)
                    /\ Full(rows, before) => Full(shown[n], before + n)}
<1>3. 0 \in T
    BY <1>1, <1>2
<1>4. ASSUME NEW n \in 0..Len(new), n < Len(new), n \in T
      PROVE  n + 1 \in T
  <2>1. n + 1 \in 1..Len(new) /\ (n + 1) - 1 = n
    BY <1>1, <1>4
  <2>2. new[n + 1] = before + (n + 1)
    BY <2>1 DEF Follow
  <2>3. shown[n + 1] = AddLog(shown[n], before + (n + 1))
    BY <1>2, <2>1, <2>2
  <2>4. Falling(shown[n], before + n)
    BY <1>4
  <2>5. /\ before + n \in Nat
        /\ before + (n + 1) \in Nat
        /\ before + (n + 1) > before + n
        /\ before + (n + 1) = (before + n) + 1
    OBVIOUS
  <2>6. /\ Falling(shown[n + 1], before + (n + 1))
        /\ Full(shown[n], before + n) => Full(shown[n + 1], before + (n + 1))
    <3> HIDE DEF T
    <3> QED
      BY <2>3, <2>4, <2>5, AddAbove
  <2>7. n + 1 \in 0..Len(new)
    BY <2>1
  <2> QED
    BY <1>4, <2>6, <2>7
<1>5. Len(new) \in T
  <2> HIDE DEF T
  <2>1. \A n \in 0..Len(new) : n < Len(new) /\ n \in T => n + 1 \in T
    BY <1>4
  <2>2. \A n \in 0..Len(new) : n \in T
    BY <1>1, <1>3, <2>1, GoesOn
  <2> QED
    BY <1>1, <2>2
<1> QED
    BY <1>2, <1>5

-----------------------------------------------------------------------------
(* The pages *)

LEMMA NewestFull ==
    ASSUME logs \in Nat
    PROVE  Falling(Newest(Recent), logs) /\ Full(Newest(Recent), logs)
<1>1. PICK n : n = IF logs < Recent THEN logs ELSE Recent
    OBVIOUS
<1>2. n \in 0..logs
    BY <1>1, LiveLogsAssumption
<1>3. PICK rows : rows = [i \in 1..n |-> logs - i + 1]
    OBVIOUS
<1>4. Newest(Recent) = rows
    BY <1>1, <1>3 DEF Newest
<1>5. \A i \in 1..n : rows[i] = logs - i + 1 /\ logs - i + 1 \in Nat
    BY <1>2, <1>3
<1>6. rows \in Seq(Nat) /\ Len(rows) = n /\ DOMAIN rows = 1..n
    BY <1>2, <1>3, <1>5
<1>7. \A i \in 1..n : rows[i] <= logs
    BY <1>2, <1>5
<1>8. \A i \in 1..(n - 1) : rows[i] > rows[i + 1]
    BY <1>2, <1>5
<1> QED
    BY <1>1, <1>4, <1>5, <1>6, <1>7, <1>8 DEF Falling, Full

\* What the server answers a page that knows of the rows up to known.
LEMMA NewRowsFollow ==
    ASSUME logs \in Nat, NEW known \in 0..logs
    PROVE  \E before \in known..logs :
             /\ Follow(NewRows(known), before)
             /\ before + Len(NewRows(known)) <= logs
             /\ logs - known <= Limit =>
                    before = known /\ before + Len(NewRows(known)) = logs
<1>1. PICK before : before = Before(known)
    OBVIOUS
<1>2. before \in known..logs /\ (logs - known <= Limit => before = known)
    BY <1>1, LiveLogsAssumption DEF Before
<1>3. PICK n : n = IF logs - before < Limit THEN logs - before ELSE Limit
    OBVIOUS
<1>4. n \in Nat /\ before + n <= logs /\ (logs - known <= Limit => before + n = logs)
    BY <1>2, <1>3, LiveLogsAssumption
<1>5. PICK new : new = [i \in 1..n |-> before + i]
    OBVIOUS
<1>6. NewRows(known) = new
    BY <1>1, <1>3, <1>5 DEF NewRows
<1>7. \A i \in 1..n : new[i] = before + i /\ before + i \in Nat
    BY <1>2, <1>4, <1>5
<1>8. new \in Seq(Nat) /\ Len(new) = n
    BY <1>4, <1>5, <1>7
<1>9. Follow(new, before)
    BY <1>7, <1>8 DEF Follow
<1> QED
    BY <1>2, <1>4, <1>6, <1>8, <1>9

LEMMA RenderedOK ==
    ASSUME logs \in Nat, NEW whole \in BOOLEAN
    PROVE  Rendered \in Page /\ PageOK(Rendered, whole, logs)
<1>1. Newest(Recent) \in Seq(Nat)
    BY NewestFull DEF Falling
<1>2. Rendered \in Page
    BY <1>1 DEF Rendered, Page
<1> QED
    BY <1>2, NewestFull DEF Rendered, PageOK

\* Rows that are logged meanwhile change nothing for a page.
LEMMA MoreLogs ==
    ASSUME NEW page, NEW whole, NEW last \in Nat, NEW more \in Nat, last <= more,
           PageOK(page, whole, last)
    PROVE  PageOK(page, whole, more)
<1>1. page.latest \in 0..more
    BY DEF PageOK
<1>2. ASSUME page.answer # None PROVE Fits(page.answer, page.latest, whole, more)
  <2>1. Fits(page.answer, page.latest, whole, last)
    BY <1>2 DEF PageOK
  <2>2. page.answer.latest \in page.latest..more
    BY <2>1, <1>1 DEF Fits
  <2> QED
    BY <2>1, <2>2 DEF Fits
<1> QED
    BY <1>1, <1>2 DEF PageOK

\* A request's step: the pages stay as they are, and rows may come.
LEMMA RequestStep ==
    ASSUME IInv, UNCHANGED <<pages, flooded>>, logs' \in Nat, logs <= logs',
           arrivals' \in Nat, markers' \in SUBSET Nat
    PROVE  IInv'
<1>1. \A p \in Pages : PageOK(pages[p], p \notin flooded, logs')
    BY MoreLogs DEF IInv
<1> QED
    BY <1>1 DEF IInv

\* A page's step: what is known of the others stays.
LEMMA PageStep ==
    ASSUME IInv, NEW p \in Pages, NEW page \in Page, pages' = [pages EXCEPT ![p] = page],
           PageOK(page, p \notin flooded', logs),
           \A q \in Pages : q # p => (q \in flooded' <=> q \in flooded),
           UNCHANGED <<logs, markers, arrivals>>
    PROVE  IInv'
<1>1. pages' \in [Pages -> Page]
    BY DEF IInv
<1>2. ASSUME NEW q \in Pages PROVE PageOK(pages'[q], q \notin flooded', logs)
  <2>1. CASE q = p
    <3>1. pages'[q] = page
        BY <2>1 DEF IInv
    <3> QED
        BY <2>1, <3>1
  <2>2. CASE q # p
    <3>1. pages'[q] = pages[q] /\ (q \notin flooded') = (q \notin flooded)
        BY <2>2 DEF IInv
    <3>2. PageOK(pages[q], q \notin flooded, logs)
        BY DEF IInv
    <3> QED
        BY <3>1, <3>2
  <2> QED
    BY <2>1, <2>2
<1>3. \A q \in Pages : PageOK(pages'[q], q \notin flooded', logs')
    BY <1>2
<1> QED
    BY <1>1, <1>3 DEF IInv

LEMMA AskKeeps ==
    ASSUME IInv, NEW p \in Pages, Ask(p)
    PROVE  IInv'
<1> DEFINE known == pages[p].latest
           answer == [rows |-> NewRows(known), latest |-> logs, running |-> None]
           page == [pages[p] EXCEPT !.answer = answer]
<1>1. pages[p] \in Page /\ known \in 0..logs /\ logs \in Nat
    BY DEF IInv, PageOK
<1>2. PICK before \in known..logs :
             /\ Follow(NewRows(known), before)
             /\ before + Len(NewRows(known)) <= logs
             /\ logs - known <= Limit =>
                    before = known /\ before + Len(NewRows(known)) = logs
  <2> HIDE DEF known
  <2> QED
    BY <1>1, NewRowsFollow
<1>3. pages' = [pages EXCEPT ![p] = page]
    BY DEF Ask, IInv
<1>4. answer \in Answer
    BY <1>1, <1>2 DEF Answer, Follow
<1>5. /\ page \in Page
      /\ page.rows = pages[p].rows /\ page.latest = known /\ page.answer = answer
    BY <1>1, <1>4 DEF Page
<1>6. p \notin flooded' => logs - known <= Limit /\ p \notin flooded
    BY <1>1, LiveLogsAssumption DEF Ask
<1>7. Fits(answer, known, p \notin flooded', logs)
    BY <1>1, <1>2, <1>6 DEF Fits
<1>8. PageOK(page, p \notin flooded', logs)
  <2>1. PageOK(pages[p], p \notin flooded, logs)
    BY DEF IInv
  <2> HIDE DEF page, answer, known
  <2>2. Fits(page.answer, page.latest, p \notin flooded', logs)
    BY <1>5, <1>7
  <2> QED
    BY <1>5, <1>6, <2>1, <2>2 DEF PageOK, known
<1>9. \A q \in Pages : q # p => (q \in flooded' <=> q \in flooded)
    BY DEF Ask
<1> QED
  <2> HIDE DEF page
  <2>1. UNCHANGED <<logs, markers, arrivals>>
    BY DEF Ask
  <2> QED
    BY <1>3, <1>5, <1>8, <1>9, <2>1, PageStep

LEMMA ReadRunningKeeps ==
    ASSUME IInv, NEW p \in Pages, ReadRunning(p)
    PROVE  IInv'
<1> DEFINE read == [ids |-> markers]
           answer == [pages[p].answer EXCEPT !.running = read]
           page == [pages[p] EXCEPT !.answer = answer]
<1>1. pages[p] \in Page /\ pages[p].answer \in Answer
    BY DEF IInv, Page, ReadRunning
<1>2. pages' = [pages EXCEPT ![p] = page]
    BY DEF ReadRunning, IInv
<1>3. /\ answer \in Answer
      /\ answer.rows = pages[p].answer.rows /\ answer.latest = pages[p].answer.latest
    BY <1>1 DEF Answer, IInv
<1>4. /\ page \in Page
      /\ page.rows = pages[p].rows /\ page.latest = pages[p].latest /\ page.answer = answer
    BY <1>1, <1>3 DEF Page
<1>5. PageOK(page, p \notin flooded', logs)
  <2>1. PageOK(pages[p], p \notin flooded, logs) /\ flooded' = flooded
    BY DEF IInv, ReadRunning
  <2>2. Fits(pages[p].answer, pages[p].latest, p \notin flooded, logs)
    BY <2>1 DEF PageOK, ReadRunning
  <2> HIDE DEF page, answer
  <2>3. Fits(page.answer, page.latest, p \notin flooded', logs)
    BY <1>3, <1>4, <2>1, <2>2 DEF Fits
  <2> QED
    BY <1>4, <2>1, <2>3 DEF PageOK
<1> QED
  <2> HIDE DEF page
  <2>1. UNCHANGED <<logs, markers, arrivals, flooded>>
    BY DEF ReadRunning
  <2> QED
    BY <1>2, <1>4, <1>5, <2>1, PageStep

LEMMA ShowKeeps ==
    ASSUME IInv, NEW p \in Pages, Show(p)
    PROVE  IInv'
<1> DEFINE new == pages[p].answer.rows
           latest == pages[p].answer.latest
           rows == Shown(pages[p].rows, new)
           page == [rows |-> rows, running |-> pages[p].answer.running.ids,
                    latest |-> latest, answer |-> None]
           whole == p \notin flooded
<1>1. pages[p] \in Page /\ pages[p].answer \in Answer /\ logs \in Nat
    BY DEF IInv, Page, Show
<1>2. PageOK(pages[p], whole, logs)
    BY DEF IInv
<1>3. Fits(pages[p].answer, pages[p].latest, whole, logs)
    BY <1>2 DEF PageOK, Show
<1>4. /\ pages[p].latest \in 0..logs /\ Falling(pages[p].rows, pages[p].latest)
      /\ whole => Full(pages[p].rows, pages[p].latest)
    BY <1>2 DEF PageOK
<1>5. latest \in pages[p].latest..logs /\ latest \in Nat
    BY <1>3, <1>4 DEF Fits
<1>6. LatestOf(p) = latest
    BY <1>4, <1>5 DEF LatestOf
<1>7. PICK before \in pages[p].latest..latest :
             /\ Follow(new, before)
             /\ before + Len(new) <= latest
             /\ whole => before = pages[p].latest /\ before + Len(new) = latest
    BY <1>3 DEF Fits
<1>8. before \in Nat /\ Len(new) \in Nat
    BY <1>4, <1>5, <1>7 DEF Follow
<1>9. Falling(pages[p].rows, before)
  <2>1. pages[p].latest \in Nat /\ pages[p].latest <= before
    BY <1>4, <1>5, <1>7
  <2> QED
    BY <1>4, <1>8, <2>1, FallingBelow
<1>10. /\ Falling(rows, before + Len(new))
       /\ Full(pages[p].rows, before) => Full(rows, before + Len(new))
  <2> HIDE DEF new
  <2> QED
    BY <1>7, <1>8, <1>9, ShownFalls
<1>11. Falling(rows, latest)
  <2> HIDE DEF rows, new, latest
  <2>1. before + Len(new) \in Nat /\ before + Len(new) <= latest
    BY <1>7, <1>8
  <2> QED
    BY <1>5, <1>10, <2>1, FallingBelow
<1>12. whole => Full(rows, latest)
  <2> HIDE DEF rows, new, latest
  <2> QED
    BY <1>4, <1>7, <1>10
<1>13. pages[p].answer.running.ids \in SUBSET Nat
    BY <1>1 DEF Answer, Show
<1>14. page \in Page
  <2> HIDE DEF rows, latest
  <2>1. rows \in Seq(Nat)
    BY <1>11 DEF Falling
  <2> QED
    BY <1>5, <1>13, <2>1 DEF Page
<1>15. pages' = [pages EXCEPT ![p] = page] /\ UNCHANGED <<logs, markers, arrivals, flooded>>
    BY <1>6 DEF Show
<1>16. PageOK(page, whole, logs)
  <2> HIDE DEF rows, latest
  <2> QED
    BY <1>4, <1>5, <1>11, <1>12 DEF PageOK
<1> QED
  <2> HIDE DEF page
  <2> QED
    BY <1>14, <1>15, <1>16, PageStep

LEMMA PollFailsKeeps ==
    ASSUME IInv, NEW p \in Pages, PollFails(p)
    PROVE  IInv'
<1> DEFINE page == [pages[p] EXCEPT !.answer = None]
<1>1. pages[p] \in Page /\ PageOK(pages[p], p \notin flooded, logs)
    BY DEF IInv
<1>2. pages' = [pages EXCEPT ![p] = page] /\ UNCHANGED <<logs, markers, arrivals, flooded>>
    BY DEF PollFails, IInv
<1>3. /\ page \in Page
      /\ page.rows = pages[p].rows /\ page.latest = pages[p].latest /\ page.answer = None
    BY <1>1 DEF Page
<1> HIDE DEF page
<1>4. PageOK(page, p \notin flooded', logs)
    BY <1>1, <1>2, <1>3 DEF PageOK
<1> QED
    BY <1>2, <1>3, <1>4, PageStep

LEMMA ReloadKeeps ==
    ASSUME IInv, NEW p \in Pages, Reload(p)
    PROVE  IInv'
<1>1. logs \in Nat
    BY DEF IInv
<1>2. Rendered \in Page /\ PageOK(Rendered, p \notin flooded', logs)
    BY <1>1, RenderedOK
<1>3. \A q \in Pages : q # p => (q \in flooded' <=> q \in flooded)
    BY DEF Reload
<1>4. UNCHANGED <<logs, markers, arrivals>> /\ pages' = [pages EXCEPT ![p] = Rendered]
    BY DEF Reload
<1> QED
    BY <1>2, <1>3, <1>4, PageStep

-----------------------------------------------------------------------------
LEMMA PagesFollow == FairSpec => []IInv
<1>1. LogsInit => IInv
  <2> SUFFICES ASSUME LogsInit PROVE IInv
    OBVIOUS
  <2>1. logs \in Nat
    BY DEF LogsInit
  <2>2. \A p \in Pages : Rendered \in Page /\ PageOK(Rendered, p \notin flooded, logs)
    BY <2>1, RenderedOK
  <2>3. \A p \in Pages : pages[p] = Rendered
    BY DEF LogsInit
  <2>4. pages \in [Pages -> Page]
    BY <2>2 DEF LogsInit
  <2> QED
    BY <2>2, <2>3, <2>4 DEF LogsInit, IInv
<1>2. IInv /\ [LogsNext]_logsVars => IInv'
  <2> SUFFICES ASSUME IInv, [LogsNext]_logsVars PROVE IInv'
    OBVIOUS
  <2>0. logs \in Nat /\ arrivals \in Nat /\ markers \in SUBSET Nat
    BY DEF IInv
  <2>1. CASE UNCHANGED logsVars
    BY <2>1 DEF logsVars, IInv
  <2>2. ASSUME NEW s \in Slots, Arrive(s) PROVE IInv'
    <3>1. UNCHANGED <<logs, pages, flooded>> /\ arrivals' \in Nat
        BY <2>0, <2>2 DEF Arrive
    <3>2. markers' \in SUBSET Nat
        BY <2>0, <2>2 DEF Arrive
    <3> QED
        BY <2>0, <3>1, <3>2, RequestStep
  <2>3. ASSUME NEW s \in Slots, Log(s) PROVE IInv'
    BY <2>0, <2>3, RequestStep DEF Log
  <2>4. ASSUME NEW s \in Slots, Finish(s) PROVE IInv'
    <3>1. UNCHANGED <<logs, pages, flooded, arrivals>>
        BY <2>4 DEF Finish, Gone
    <3>2. markers' \in SUBSET Nat
        BY <2>0, <2>4 DEF Finish, Removed
    <3> QED
        BY <2>0, <3>1, <3>2, RequestStep
  <2>5. ASSUME NEW s \in Slots, Raise(s) PROVE IInv'
    <3>1. UNCHANGED <<logs, pages, flooded, arrivals>>
        BY <2>5 DEF Raise, Gone
    <3>2. markers' \in SUBSET Nat
        BY <2>0, <2>5 DEF Raise, AfterRaise, Removed
    <3> QED
        BY <2>0, <3>1, <3>2, RequestStep
  <2>6. ASSUME NEW s \in Slots, Abandon(s) PROVE IInv'
    BY <2>0, <2>6, RequestStep DEF Abandon, Gone
  <2>7. CASE Restart
    BY <2>0, <2>7, RequestStep DEF Restart
  <2>8. ASSUME NEW p \in Pages, PollStep(p) PROVE IInv'
    BY <2>8, AskKeeps, ReadRunningKeeps, ShowKeeps DEF PollStep
  <2> QED
    BY <2>1, <2>2, <2>3, <2>4, <2>5, <2>6, <2>7, <2>8, PollFailsKeeps, ReloadKeeps DEF LogsNext
<1> QED
    BY <1>1, <1>2, PTL DEF FairSpec

\* A page shows its rows the newest first and each once, and all of them up to the
\* last it was told of, unless an answer was cut off at the limit: poll and addLog,
\* with rows logged between and during the polls, and polls that fail.
THEOREM PagesAreComplete == FairSpec => []RowsComplete
<1>1. IInv => RowsComplete
  <2> SUFFICES ASSUME IInv, NEW p \in Pages
               PROVE  LET rows == pages[p].rows IN
                      /\ \A i \in 1..(Len(rows) - 1) : rows[i] > rows[i + 1]
                      /\ p \notin flooded =>
                           /\ \A i \in DOMAIN rows : rows[i] = pages[p].latest - i + 1
                           /\ Len(rows) = IF pages[p].latest < Recent
                                          THEN pages[p].latest ELSE Recent
    BY DEF RowsComplete
  <2> QED
    BY DEF IInv, PageOK, Falling, Full
<1> QED
    BY <1>1, PagesFollow, PTL
=============================================================================
