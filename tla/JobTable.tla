------------------------------ MODULE JobTable ------------------------------
(***************************************************************************)
(* What the background-job queue promises, with no processes, statements or *)
(* clock: a table of jobs, each held by at most one worker at a time, whose *)
(* holder alone finishes it, gives it up or puts it back, in one step, with *)
(* the attempt it is in.                                                   *)
(***************************************************************************)
EXTENDS Integers

CONSTANTS Jobs, WorkerIds, MaxAttempts, None

VARIABLES
    state,     \* "absent", "waiting", "held" or how the job ended
    holder,    \* the worker the last lease went to, None if it was taken back
    attempts,  \* leases granted
    output,    \* the attempt whose answer is stored, 0 for none
    live       \* the jobs whose lease, or delay before a retry, has not run out

tvars == <<state, holder, attempts, output, live>>

TInit ==
    /\ state = [j \in Jobs |-> "absent"]
    /\ holder = [j \in Jobs |-> None]
    /\ attempts = [j \in Jobs |-> 0]
    /\ output = [j \in Jobs |-> 0]
    /\ live = {}

Submit(j) ==
    /\ state[j] = "absent"
    /\ state' = [state EXCEPT ![j] = "waiting"]
    /\ UNCHANGED <<holder, attempts, output, live>>

\* Nobody is granted a job whose lease is live.
Grant(j, w) ==
    /\ state[j] \in {"waiting", "held"}
    /\ j \notin live
    /\ state' = [state EXCEPT ![j] = "held"]
    /\ holder' = [holder EXCEPT ![j] = w]
    /\ attempts' = [attempts EXCEPT ![j] = @ + 1]
    /\ live' = live \cup {j}
    /\ UNCHANGED output

Renew(j, w) ==
    /\ state[j] = "held"
    /\ holder[j] = w
    /\ live' = live \cup {j}
    /\ UNCHANGED <<state, holder, attempts, output>>

\* The holder's own answer, never that of an attempt it has lost.
Finish(j, w) ==
    /\ holder[j] = w
    /\ state' = [state EXCEPT ![j] = "succeeded"]
    /\ output' = [output EXCEPT ![j] = attempts[j]]
    /\ live' = live \ {j}
    /\ UNCHANGED <<holder, attempts>>

\* A job is put back only while it has attempts left and fails only when none
\* is left: the count decides in the step that writes.
PutBack(j, w) ==
    /\ holder[j] = w
    /\ attempts[j] < MaxAttempts[j]
    /\ state' = [state EXCEPT ![j] = "waiting"]
    /\ live' \in {live \cup {j}, live \ {j}}   \* with or without a delay
    /\ UNCHANGED <<holder, attempts, output>>

GiveUp(j, w) ==
    /\ holder[j] = w
    /\ attempts[j] >= MaxAttempts[j]
    /\ state' = [state EXCEPT ![j] = "failed"]
    /\ live' = live \ {j}
    /\ UNCHANGED <<holder, attempts, output>>

\* A cancel takes effect in any state: the code's check may be out of date.
Cancel(j) ==
    /\ state[j] # "absent"
    /\ state' = [state EXCEPT ![j] = "cancelled"]
    /\ live' = live \ {j}
    /\ UNCHANGED <<holder, attempts, output>>

Requeue(S) ==
    /\ \A j \in S : state[j] = "held" /\ j \notin live
    /\ state' = [j \in Jobs |-> IF j \in S THEN "waiting" ELSE state[j]]
    /\ holder' = [j \in Jobs |-> IF j \in S THEN None ELSE holder[j]]
    /\ UNCHANGED <<attempts, output, live>>

Lapse(S) ==
    /\ live' = live \ S
    /\ UNCHANGED <<state, holder, attempts, output>>

TNext ==
    \/ \E j \in Jobs : Submit(j) \/ Cancel(j)
    \/ \E j \in Jobs, w \in WorkerIds :
         Grant(j, w) \/ Renew(j, w) \/ Finish(j, w) \/ PutBack(j, w) \/ GiveUp(j, w)
    \/ \E S \in SUBSET Jobs : Requeue(S) \/ Lapse(S)

TSpec == TInit /\ [][TNext]_tvars
=============================================================================
