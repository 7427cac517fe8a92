----------------------- MODULE BackgroundJobs_proofs -----------------------
(***************************************************************************)
(* Theorems about BackgroundJobs for any jobs, processes, leases and bounds *)
(***************************************************************************)
EXTENDS BackgroundJobs, TLAPS

USE DEF NoLease, WorkerStatuses, TerminalStatuses, JobStatuses, Executing

\* Replacing one row by another one keeps the table a table.
LEMMA PutRow ==
    ASSUME TypeOK, NEW j \in Jobs, NEW r \in Row, row' = [row EXCEPT ![j] = r]
    PROVE  row' \in [Jobs -> Row]
BY DEF TypeOK

\* The job of an executing process, and what the code reads of its row.
LEMMA ExecutingJob ==
    ASSUME TypeOK, NEW p \in Procs, proc[p].pc \in Executing
    PROVE  /\ proc[p] \in Process
           /\ proc[p].job \in Jobs
           /\ row[proc[p].job] \in Row
BY DEF TypeOK, Process

LEMMA LessType ==
    ASSUME NEW t \in Nat \cup {NoLease}
    PROVE  Less(t) \in Nat \cup {NoLease} /\ (t \in Nat => Less(t) \in Nat)
BY DEF Less

LEMMA TypePreserved == TypeOK /\ [Next]_vars => TypeOK'
<1> SUFFICES ASSUME TypeOK, [Next]_vars PROVE TypeOK'
    OBVIOUS
<1> USE JobsAssumption, TimeAssumption
<1>1. ASSUME NEW j \in Jobs, CreateJob(j) PROVE TypeOK'
    <2> DEFINE r == [row[j] EXCEPT !.status = "queued", !.created = inserted + 1]
    <2>1. inserted + 1 \in Nat /\ row[j] \in Row
        BY DEF TypeOK
    <2>2. r \in Row
        BY <2>1 DEF Row
    <2>3. row' = [row EXCEPT ![j] = r]
        BY <1>1 DEF CreateJob
    <2> HIDE DEF r
    <2> QED
        BY <1>1, <2>1, <2>2, <2>3, PutRow DEF CreateJob, TypeOK
<1>2. ASSUME NEW j \in Jobs, CancelRead(j) PROVE TypeOK'
    BY <1>2 DEF CancelRead, TypeOK
<1>3. CASE CancelWrite
    BY <1>3 DEF CancelWrite, TypeOK, Row
<1>4. CASE CancelError
    BY <1>4 DEF CancelError, TypeOK
<1>5. ASSUME NEW p \in Procs, LeaseNextJob(p) PROVE TypeOK'
    BY <1>5 DEF LeaseNextJob, TypeOK, Row, Process
<1>6. ASSUME NEW p \in Procs, RejectJob(p) PROVE TypeOK'
    BY <1>6 DEF RejectJob, TypeOK, Process
<1>7. ASSUME NEW p \in Procs, HeartbeatJob(p) PROVE TypeOK'
    <2> DEFINE j == proc[p].job
               r == [row[j] EXCEPT !.status = "running", !.lease = RunTicks]
    <2>1. j \in Jobs /\ row[j] \in Row /\ proc[p] \in Process
        BY <1>7, ExecutingJob DEF HeartbeatJob
    <2>2. r \in Row
        BY <2>1 DEF Row
    <2>3. row' = row \/ row' = [row EXCEPT ![j] = r]
        BY <1>7 DEF HeartbeatJob
    <2>4. proc' \in [Procs -> Process]
        BY <1>7 DEF HeartbeatJob, TypeOK, Process
    <2>5. \A q \in Procs : /\ proc'[q].job = proc[q].job
                          /\ proc'[q].pc \in Executing <=> proc[q].pc \in Executing
        BY <1>7 DEF HeartbeatJob, TypeOK, Process
    <2> HIDE DEF r
    <2> QED
        BY <1>7, <2>1, <2>2, <2>3, <2>4, <2>5, PutRow DEF HeartbeatJob, TypeOK
<1>8. ASSUME NEW p \in Procs, AppendPartialOutput(p) PROVE TypeOK'
    <2> DEFINE j == proc[p].job
               chunks == row[j].partial \cup {proc[p].attempt}
               r == [row[j] EXCEPT !.partial = chunks]
    <2>1. j \in Jobs /\ row[j] \in Row /\ proc[p] \in Process
        BY <1>8, ExecutingJob DEF AppendPartialOutput
    <2>2. chunks \in SUBSET Nat
        BY <2>1 DEF Row, Process
    <2> HIDE DEF chunks
    <2>3. r \in Row
        BY <2>1, <2>2 DEF Row
    <2>4. row' = [row EXCEPT ![j] = r]
        BY <1>8 DEF AppendPartialOutput, chunks
    <2> HIDE DEF r
    <2> QED
        BY <1>8, <2>1, <2>3, <2>4, PutRow DEF AppendPartialOutput, TypeOK
<1>9. ASSUME NEW p \in Procs, CompleteJob(p) PROVE TypeOK'
    <2> DEFINE j == proc[p].job
               r == [row[j] EXCEPT !.status = "succeeded",
                                   !.output = proc[p].attempt,
                                   !.lease = NoLease]
    <2>1. j \in Jobs /\ row[j] \in Row /\ proc[p].attempt \in Nat
        BY <1>9, ExecutingJob DEF CompleteJob, Process
    <2>2. r \in Row
        BY <2>1 DEF Row
    <2>3. row' = row \/ row' = [row EXCEPT ![j] = r]
        BY <1>9 DEF CompleteJob
    <2>4. /\ proc' \in [Procs -> Process]
          /\ \A q \in Procs : (proc'[q].pc \in Executing) <=> (proc'[q].job # None)
        <3>1. \/ proc' = [proc EXCEPT ![p] = Idle]
              \/ proc' = [proc EXCEPT ![p].pc = "failing"]
            BY <1>9 DEF CompleteJob
        <3>2. proc[p].job # None
            BY <1>9 DEF CompleteJob, TypeOK
        <3> QED
            BY <3>1, <3>2 DEF TypeOK, Process, Idle
    <2> HIDE DEF r
    <2> QED
        BY <1>9, <2>1, <2>2, <2>3, <2>4, PutRow DEF CompleteJob, TypeOK
<1>10. ASSUME NEW p \in Procs, AttemptError(p) PROVE TypeOK'
    BY <1>10 DEF AttemptError, TypeOK, Process
<1>11. ASSUME NEW p \in Procs, FailOrRetryRead(p) PROVE TypeOK'
    BY <1>11 DEF FailOrRetryRead, AttemptsLeft, TypeOK, Process, Idle
<1>12. ASSUME NEW p \in Procs, FailOrRetryWrite(p) PROVE TypeOK'
    <2> DEFINE j == proc[p].job
               again == [row[j] EXCEPT !.status = "retry_wait", !.lease = RetryTicks]
               over == [row[j] EXCEPT !.status = "failed", !.lease = NoLease]
    <2>1. j \in Jobs /\ row[j] \in Row
        BY <1>12, ExecutingJob DEF FailOrRetryWrite
    <2>2. again \in Row /\ over \in Row
        BY <2>1 DEF Row
    <2>3. \/ row' = row
          \/ row' = [row EXCEPT ![j] = again]
          \/ row' = [row EXCEPT ![j] = over]
        BY <1>12 DEF FailOrRetryWrite
    <2>4. /\ proc' \in [Procs -> Process]
          /\ \A q \in Procs : (proc'[q].pc \in Executing) <=> (proc'[q].job # None)
        BY <1>12 DEF FailOrRetryWrite, TypeOK, Process, Idle
    <2> HIDE DEF again, over
    <2> QED
        BY <1>12, <2>1, <2>2, <2>3, <2>4, PutRow DEF FailOrRetryWrite, TypeOK
<1>13. ASSUME NEW p \in Procs, Crash(p) PROVE TypeOK'
    BY <1>13 DEF Crash, TypeOK, Process, Idle, Down
<1>14. ASSUME NEW p \in Procs, Restart(p) PROVE TypeOK'
    BY <1>14 DEF Restart, TypeOK, Process, Idle
<1>15. CASE CleanupExpiredLeases
    <2>1. \A j \in Jobs : row'[j] \in Row
        BY <1>15 DEF CleanupExpiredLeases, TypeOK, Row
    <2>2. \A j \in Jobs : reclaimed'[j] \in {reclaimed[j], reclaimed[j] + 1}
        BY <1>15 DEF CleanupExpiredLeases
    <2>3. \A j \in Jobs : reclaimed'[j] \in Nat
        BY <2>2 DEF TypeOK
    <2> QED
        BY <1>15, <2>1, <2>3 DEF CleanupExpiredLeases, TypeOK
<1>16. CASE Tick
    <2>1. ASSUME NEW j \in Jobs PROVE row'[j] \in Row
        <3>1. row[j] \in Row /\ Less(row[j].lease) \in Nat \cup {NoLease}
            BY LessType DEF TypeOK, Row
        <3>2. row'[j] = [row[j] EXCEPT !.lease = Less(row[j].lease)]
            BY <1>16 DEF Tick
        <3> QED
            BY <3>1, <3>2 DEF Row
    <2>2. ASSUME NEW q \in Procs
          PROVE  /\ proc'[q] \in Process
                 /\ (proc'[q].pc \in Executing) <=> (proc'[q].job # None)
        <3>1. proc[q] \in Process /\ Less(proc[q].hold) \in Nat
            BY LessType DEF TypeOK, Process
        <3>2. proc'[q] = [proc[q] EXCEPT !.hold = Less(proc[q].hold)]
            BY <1>16 DEF Tick
        <3> QED
            BY <3>1, <3>2 DEF Process, TypeOK
    <2> QED
        BY <1>16, <2>1, <2>2 DEF Tick, TypeOK
<1>17. CASE UNCHANGED vars
    BY <1>17 DEF vars, TypeOK
<1> QED
    BY <1>1, <1>2, <1>3, <1>4, <1>5, <1>6, <1>7, <1>8, <1>9, <1>10, <1>11,
       <1>12, <1>13, <1>14, <1>15, <1>16, <1>17 DEF Next, WorkerStep

\* Type correctness: TypeOK holds in every reachable state.
THEOREM TypeCorrect == Spec => []TypeOK
<1>1. Init => TypeOK
    BY JobsAssumption DEF Init, TypeOK, Row, Process, Absent, Idle
<1> QED
    BY <1>1, TypePreserved, PTL DEF Spec

LEMMA InvPreserved ==
ASSUME UniqueWorkerIds, Inv, [Next]_vars PROVE Inv'
<1> SUFFICES Ties'
    BY TypePreserved DEF Inv
<1> USE JobsAssumption, TimeAssumption DEF UniqueWorkerIds
<1>1. ASSUME NEW j \in Jobs, CreateJob(j) PROVE Ties'
    BY <1>1 DEF CreateJob, Inv, Ties, Claim, Shape, TypeOK, Row, Process
<1>2. ASSUME NEW j \in Jobs, CancelRead(j) PROVE Ties'
    BY <1>2 DEF CancelRead, Inv, Ties, Claim, Shape, TypeOK, Row, Process
<1>3. CASE CancelWrite
    <2> DEFINE j == cancelling
    <2>1. j \in Jobs /\ row[j] \in Row
        BY <1>3 DEF CancelWrite, Inv, TypeOK
    <2>2. row' = [row EXCEPT ![j].status = "cancelled", ![j].lease = NoLease]
        BY <1>3 DEF CancelWrite
    <2>3. \A k \in Jobs : Shape(k)'
        BY <1>3, <2>1, <2>2 DEF CancelWrite, Inv, Ties, Shape, TypeOK, Row
    <2>4. \A q \in Procs : Claim(q)'
        BY <1>3, <2>1, <2>2 DEF CancelWrite, Inv, Ties, Claim, TypeOK, Row, Process
    <2> QED
        BY <1>3, <2>3, <2>4 DEF CancelWrite, Ties
<1>4. CASE CancelError
    BY <1>4 DEF CancelError, Inv, Ties, Claim, Shape, TypeOK, Row, Process
<1>5. ASSUME NEW p \in Procs, LeaseNextJob(p) PROVE Ties'
    BY <1>5 DEF LeaseNextJob, NextJob, Leasable, Inv, Ties, Claim, Shape, TypeOK, Row, Process
<1>6. ASSUME NEW p \in Procs, RejectJob(p) PROVE Ties'
    BY <1>6 DEF RejectJob, Inv, Ties, Claim, Shape, TypeOK, Row, Process
<1>7. ASSUME NEW p \in Procs, HeartbeatJob(p) PROVE Ties'
    <2> DEFINE j == proc[p].job
    <2>1. j \in Jobs /\ row[j] \in Row /\ proc[p] \in Process
        BY <1>7, ExecutingJob DEF HeartbeatJob, Inv, Ties
    <2>2. CASE Owns(p, j) /\ row[j].status \in WorkerStatuses
        <3>1. row' = [row EXCEPT ![j].status = "running", ![j].lease = RunTicks]
            BY <1>7, <2>2 DEF HeartbeatJob
        <3>2. \A k \in Jobs : Shape(k)'
            BY <1>7, <2>1, <2>2, <3>1 DEF HeartbeatJob, Inv, Ties, Shape, TypeOK, Row
        <3>3. \A q \in Procs \ {p} : Claim(q)'
            BY <1>7, <2>1, <2>2, <3>1 DEF HeartbeatJob, Owns, Inv, Ties, Claim, TypeOK, Row, Process
        <3>4. proc' = [proc EXCEPT ![p].pc = "running", ![p].hold = RunTicks]
            BY <1>7, <2>2 DEF HeartbeatJob
        <3>5. Claim(p)'
            BY <1>7, <2>1, <2>2, <3>1, <3>4 DEF HeartbeatJob, Owns, Inv, Ties, Claim, TypeOK, Row, Process
        <3> QED
            BY <1>7, <2>1, <3>1, <3>2, <3>3, <3>5 DEF HeartbeatJob, Inv, Ties, TypeOK, Row
    <2>3. CASE ~(Owns(p, j) /\ row[j].status \in WorkerStatuses)
        <3>1. row' = row
            BY <1>7, <2>3 DEF HeartbeatJob
        <3>2. /\ \A q \in Procs \ {p} : proc'[q] = proc[q]
              /\ proc'[p].pc = "running"
              /\ proc'[p].job = j
              /\ proc'[p].attempt = proc[p].attempt
              /\ proc'[p].hold = proc[p].hold
            BY <1>7, <2>3 DEF HeartbeatJob, Process, Inv, Ties, TypeOK
        <3>3. Claim(p) /\ proc[p].pc = "leased"
            BY <1>7 DEF HeartbeatJob, Inv, Ties
        <3>4. Claim(p)'
            BY <3>1, <3>2, <3>3 DEF Claim
        <3>5. \A q \in Procs \ {p} : Claim(q)'
            BY <3>1, <3>2 DEF Inv, Ties, Claim
        <3> QED
            BY <1>7, <3>1, <3>4, <3>5 DEF HeartbeatJob, Inv, Ties, Shape
    <2> QED
        BY <2>2, <2>3
<1>8. ASSUME NEW p \in Procs, AppendPartialOutput(p) PROVE Ties'
    <2>1. \A k \in Jobs : /\ row'[k].status = row[k].status
                         /\ row'[k].attempts = row[k].attempts
                         /\ row'[k].worker = row[k].worker
                         /\ row'[k].lease = row[k].lease
                         /\ row'[k].output = row[k].output
        BY <1>8 DEF AppendPartialOutput, Inv, Ties, TypeOK, Row
    <2> QED
        BY <1>8, <2>1 DEF AppendPartialOutput, Inv, Ties, Claim, Shape, TypeOK, Process
<1>9. ASSUME NEW p \in Procs, CompleteJob(p) PROVE Ties'
    <2> DEFINE j == proc[p].job
    <2>1. j \in Jobs /\ row[j] \in Row /\ proc[p] \in Process
        BY <1>9, ExecutingJob DEF CompleteJob, Inv, Ties
    <2>2. \A q \in Procs \ {p} : proc'[q] = proc[q]
        BY <1>9 DEF CompleteJob, Inv, Ties, TypeOK
    <2>3. proc'[p] = Idle \/ proc'[p] = [proc[p] EXCEPT !.pc = "failing"]
        BY <1>9 DEF CompleteJob, Inv, Ties, TypeOK
    <2>4. CASE Owns(p, j)
        <3>1. row' = [row EXCEPT ![j].status = "succeeded",
                                 ![j].output = proc[p].attempt,
                                 ![j].lease = NoLease]
            BY <1>9, <2>4 DEF CompleteJob
        <3>2. \A k \in Jobs : Shape(k)'
            BY <1>9, <2>1, <2>4, <3>1 DEF CompleteJob, Owns, Inv, Ties, Claim, Shape, TypeOK, Row, Process
        <3>3. \A q \in Procs \ {p} : Claim(q)'
            BY <2>1, <2>2, <2>4, <3>1 DEF Owns, Inv, Ties, Claim, TypeOK, Row, Process
        <3>4. Claim(p)'
            BY <1>9, <2>1, <2>3, <2>4, <3>1 DEF CompleteJob, Idle, Owns, Inv, Ties, Claim, TypeOK, Row, Process
        <3> QED
            BY <1>9, <2>1, <3>1, <3>2, <3>3, <3>4 DEF CompleteJob, Inv, Ties, TypeOK, Row
    <2>5. CASE ~Owns(p, j)
        <3>1. row' = row
            BY <1>9, <2>5 DEF CompleteJob
        <3> QED
            BY <1>9, <2>1, <2>2, <2>3, <2>5, <3>1 DEF CompleteJob, Idle, Inv, Ties, Claim, Shape, TypeOK, Process
    <2> QED
        BY <2>4, <2>5
<1>10. ASSUME NEW p \in Procs, AttemptError(p) PROVE Ties'
    BY <1>10 DEF AttemptError, Inv, Ties, Claim, Shape, TypeOK, Row, Process
<1>11. ASSUME NEW p \in Procs, FailOrRetryRead(p) PROVE Ties'
    BY <1>11 DEF FailOrRetryRead, AttemptsLeft, Owns, Idle, Inv, Ties, Claim, Shape, TypeOK, Row, Process
<1>12. ASSUME NEW p \in Procs, FailOrRetryWrite(p) PROVE Ties'
    <2> DEFINE j == proc[p].job
    <2>1. j \in Jobs /\ row[j] \in Row /\ proc[p] \in Process
        BY <1>12, ExecutingJob DEF FailOrRetryWrite, Inv, Ties
    <2>2. /\ \A q \in Procs \ {p} : proc'[q] = proc[q]
          /\ proc'[p] = Idle
        BY <1>12 DEF FailOrRetryWrite, Inv, Ties, TypeOK
    <2>3. Claim(p)'
        BY <2>2 DEF Claim, Idle
    <2>4. CASE ~Owns(p, j)
        <3>1. row' = row
            BY <1>12, <2>4 DEF FailOrRetryWrite
        <3>2. \A q \in Procs \ {p} : Claim(q)'
            BY <2>2, <3>1 DEF Inv, Ties, Claim
        <3> QED
            BY <1>12, <2>3, <3>1, <3>2 DEF FailOrRetryWrite, Inv, Ties, Shape
    <2>5. CASE Owns(p, j) /\ proc[p].pc = "retrying"
        <3>1. row' = [row EXCEPT ![j].status = "retry_wait", ![j].lease = RetryTicks]
            BY <1>12, <2>5 DEF FailOrRetryWrite
        <3>2. \A k \in Jobs : Shape(k)'
            BY <1>12, <2>1, <2>5, <3>1 DEF FailOrRetryWrite, Owns, Inv, Ties, Claim, Shape, TypeOK, Row, Process
        <3>3. \A q \in Procs \ {p} : Claim(q)'
            BY <2>1, <2>2, <2>5, <3>1 DEF Owns, Inv, Ties, Claim, TypeOK, Row, Process
        <3> QED
            BY <1>12, <2>1, <2>3, <3>1, <3>2, <3>3 DEF FailOrRetryWrite, Inv, Ties, TypeOK, Row
    <2>6. CASE Owns(p, j) /\ proc[p].pc = "giving_up"
        <3>1. row' = [row EXCEPT ![j].status = "failed", ![j].lease = NoLease]
            BY <1>12, <2>6 DEF FailOrRetryWrite
        <3>2. \A k \in Jobs : Shape(k)'
            BY <1>12, <2>1, <2>6, <3>1 DEF FailOrRetryWrite, Owns, Inv, Ties, Claim, Shape, TypeOK, Row, Process
        <3>3. \A q \in Procs \ {p} : Claim(q)'
            BY <2>1, <2>2, <2>6, <3>1 DEF Owns, Inv, Ties, Claim, TypeOK, Row, Process
        <3> QED
            BY <1>12, <2>1, <2>3, <3>1, <3>2, <3>3 DEF FailOrRetryWrite, Inv, Ties, TypeOK, Row
    <2> QED
        BY <1>12, <2>4, <2>5, <2>6 DEF FailOrRetryWrite
<1>13. ASSUME NEW p \in Procs, Crash(p) PROVE Ties'
    BY <1>13 DEF Crash, Idle, Down, Inv, Ties, Claim, Shape, TypeOK, Row, Process
<1>14. ASSUME NEW p \in Procs, Restart(p) PROVE Ties'
    BY <1>14 DEF Restart, Idle, Inv, Ties, Claim, Shape, TypeOK, Row, Process
<1>15. CASE CleanupExpiredLeases
    <2>1. ASSUME NEW k \in Jobs, Expired(k)
          PROVE  /\ row'[k].status = "queued"
                 /\ row'[k].worker = None
                 /\ row'[k].lease = NoLease
                 /\ row'[k].attempts = row[k].attempts
                 /\ reclaimed'[k] = reclaimed[k] + 1
        <3>1. row[k] \in Row /\ reclaimed'[k] = reclaimed[k] + 1
            BY <1>15, <2>1 DEF CleanupExpiredLeases, Inv, Ties, TypeOK
        <3>2. row'[k] = [row[k] EXCEPT !.status = "queued", !.worker = None,
                                       !.lease = NoLease]
            BY <1>15, <2>1 DEF CleanupExpiredLeases
        <3> QED
            BY <3>1, <3>2 DEF Row
    <2>2. ASSUME NEW k \in Jobs, ~Expired(k)
          PROVE  row'[k] = row[k] /\ reclaimed'[k] = reclaimed[k]
        BY <1>15, <2>2 DEF CleanupExpiredLeases
    <2>3. ASSUME NEW k \in Jobs PROVE Shape(k)'
        <3>1. /\ row[k].attempts \in Nat /\ reclaimed[k] \in Nat /\ MaxAttempts[k] \in Nat
              /\ Shape(k)
            BY DEF Inv, Ties, TypeOK, Row
        <3>2. CASE Expired(k)
            BY <2>1, <3>1, <3>2 DEF Shape
        <3>3. CASE ~Expired(k)
            BY <2>2, <3>1, <3>3 DEF Shape
        <3> QED
            BY <3>2, <3>3
    <2>4. ASSUME NEW q \in Procs PROVE Claim(q)'
        <3>1. Claim(q) /\ proc' = proc /\ proc[q] \in Process
            BY <1>15 DEF Inv, Ties, CleanupExpiredLeases, TypeOK
        <3>2. CASE proc[q].pc \in Executing
            <4> DEFINE k == proc[q].job
            <4>1. /\ k \in Jobs /\ row[k].attempts \in Nat
                  /\ proc[q].hold \in Nat /\ WorkerId[q] # None
                BY <3>2, ExecutingJob DEF Inv, Ties, Row, Process
            <4>2. CASE Expired(k)
                BY <2>1, <3>1, <3>2, <4>1, <4>2 DEF Claim, Expired
            <4>3. CASE ~Expired(k)
                BY <2>2, <3>1, <3>2, <4>1, <4>3 DEF Claim
            <4> QED
                BY <4>2, <4>3
        <3> QED
            BY <3>1, <3>2 DEF Claim
    <2>5. (cancelling # None => row[cancelling].status # "absent")'
        BY <1>15, <2>1, <2>2 DEF CleanupExpiredLeases, Inv, Ties, TypeOK, Row
    <2> QED
        BY <2>3, <2>4, <2>5 DEF Ties
<1>16. CASE Tick
    <2>1. ASSUME NEW k \in Jobs
          PROVE  /\ row'[k].status = row[k].status
                 /\ row'[k].worker = row[k].worker
                 /\ row'[k].attempts = row[k].attempts
                 /\ row'[k].output = row[k].output
                 /\ row'[k].lease = Less(row[k].lease)
        BY <1>16 DEF Tick, Inv, Ties, TypeOK, Row
    <2>2. ASSUME NEW q \in Procs
          PROVE  /\ proc'[q].pc = proc[q].pc
                 /\ proc'[q].job = proc[q].job
                 /\ proc'[q].attempt = proc[q].attempt
                 /\ proc'[q].hold = Less(proc[q].hold)
        BY <1>16 DEF Tick, Inv, Ties, TypeOK, Process
    <2>3. ASSUME NEW k \in Jobs PROVE Shape(k)'
        <3>1. Shape(k) /\ reclaimed' = reclaimed /\ Less(NoLease) = NoLease
            BY <1>16 DEF Inv, Ties, Tick, Less
        <3> QED
            BY <2>1, <3>1 DEF Shape
    <2>4. ASSUME NEW q \in Procs PROVE Claim(q)'
        <3>1. Claim(q) /\ proc[q] \in Process
            BY DEF Inv, Ties, TypeOK
        <3>2. CASE proc[q].pc \in Executing
            <4>1. proc[q].job \in Jobs
                BY <3>2, ExecutingJob DEF Inv, Ties
            <4>2. proc[q].hold \in Nat /\ (Less(proc[q].hold) > 0 => proc[q].hold > 0)
                BY <3>1 DEF Process, Less
            <4> QED
                BY <2>1, <2>2, <3>1, <3>2, <4>1, <4>2 DEF Claim
        <3>3. CASE proc[q].pc \notin Executing
            BY <2>2, <3>1, <3>3 DEF Claim, Less
        <3> QED
            BY <3>2, <3>3
    <2>5. (cancelling # None => row[cancelling].status # "absent")'
        BY <1>16, <2>1 DEF Tick, Inv, Ties, TypeOK, Row
    <2> QED
        BY <2>3, <2>4, <2>5 DEF Ties
<1>17. CASE UNCHANGED vars
    BY <1>17 DEF vars, Inv, Ties, Claim, Shape, TypeOK, Row, Process
<1> QED
    BY <1>1, <1>2, <1>3, <1>4, <1>5, <1>6, <1>7, <1>8, <1>9, <1>10, <1>11, <1>12, <1>13, <1>14, <1>15, <1>16, <1>17 DEF Next, WorkerStep

\* The inductive invariant holds whenever every process has its own id.
THEOREM InvariantHolds ==
    ASSUME UniqueWorkerIds PROVE Spec => []Inv
<1>1. Init => Inv
    <2> SUFFICES ASSUME Init PROVE Inv
        OBVIOUS
    <2>1. TypeOK
        BY JobsAssumption DEF Init, TypeOK, Row, Process, Absent, Idle
    <2>2. Ties
        BY JobsAssumption DEF Init, Ties, Claim, Shape, Absent, Idle
    <2> QED
        BY <2>1, <2>2 DEF Inv
<1>2. Inv /\ [Next]_vars => Inv'
    BY InvPreserved
<1> QED
    BY <1>1, <1>2, PTL DEF Spec

\* No process that is still within its lease loses its job to another one.
THEOREM LeaseIsExclusive ==
    ASSUME UniqueWorkerIds PROVE Spec => []NoLeaseStolen
<1>1. Inv => NoLeaseStolen
    BY DEF Inv, Ties, Claim, NoLeaseStolen
<1> QED
    BY <1>1, InvariantHolds, PTL

\* A result that is stored is the result of the latest attempt.
THEOREM LateAnswersAreFenced ==
    ASSUME UniqueWorkerIds PROVE Spec => []OutputOfLatestAttempt
<1>1. Inv => OutputOfLatestAttempt
    BY DEF Inv, Ties, Shape, OutputOfLatestAttempt
<1> QED
    BY <1>1, InvariantHolds, PTL

\* Only leases that expired are attempts beyond max_attempts.
THEOREM BudgetIsKept ==
    ASSUME UniqueWorkerIds PROVE Spec => []RetryBudget
<1>1. Inv => RetryBudget
    BY DEF Inv, Ties, Shape, RetryBudget
<1> QED
    BY <1>1, InvariantHolds, PTL

\* A row that is not assigned, or is assigned its own values, is unchanged.
LEMMA SameRow ==
    ASSUME NEW r \in Row, r.status = "cancelled", r.lease = NoLease
    PROVE  /\ r = [r EXCEPT !.partial = r.partial]
           /\ r = [r EXCEPT !.status = "cancelled", !.lease = NoLease]
           /\ r = [r EXCEPT !.lease = Less(@)]
<1>1. Less(r.lease) = r.lease
    BY DEF Less
<1> QED
    BY <1>1 DEF Row

LEMMA UnownedCancelStep ==
    ASSUME Inv, [Next]_vars, NEW j \in Jobs,
           row[j].status = "cancelled", row[j].worker = None
    PROVE  /\ row'[j] = [row[j] EXCEPT !.partial = row'[j].partial]
           /\ row[j].attempts = 0 => row'[j] = row[j]
<1>1. row[j] \in Row /\ row[j].lease = NoLease /\ row \in [Jobs -> Row]
    BY DEF Inv, Ties, Shape, TypeOK
<1>2. \A p \in Procs : ~Owns(p, j)
    BY JobsAssumption DEF Owns
<1>3. ~Leasable(j) /\ ~Expired(j)
    BY DEF Leasable, Expired
<1> SUFFICES \/ row'[j] = row[j]
             \/ /\ row[j].attempts # 0
                /\ \E c : row'[j] = [row[j] EXCEPT !.partial = c]
    BY <1>1, SameRow DEF Row
<1>4. ASSUME NEW k \in Jobs, CreateJob(k) PROVE row'[j] = row[j]
    BY <1>1, <1>4 DEF CreateJob
<1>5. ASSUME NEW k \in Jobs, CancelRead(k) PROVE row'[j] = row[j]
    BY <1>5 DEF CancelRead
<1>6. ASSUME CancelWrite PROVE row'[j] = row[j]
    BY <1>1, <1>6, SameRow DEF CancelWrite, Inv, TypeOK
<1>7. ASSUME CancelError PROVE row'[j] = row[j]
    BY <1>7 DEF CancelError
<1>8. ASSUME NEW p \in Procs, WorkerStep(p) \/ Crash(p) PROVE row'[j] = row[j]
    <2>1. CASE LeaseNextJob(p)
        BY <1>1, <1>3, <2>1 DEF LeaseNextJob, NextJob
    <2>2. CASE HeartbeatJob(p)
        BY <1>1, <1>2, <2>2 DEF HeartbeatJob
    <2>3. CASE CompleteJob(p)
        BY <1>1, <1>2, <2>3 DEF CompleteJob
    <2>4. CASE FailOrRetryWrite(p)
        BY <1>1, <1>2, <2>4 DEF FailOrRetryWrite
    <2>5. CASE \/ RejectJob(p) \/ AttemptError(p) \/ FailOrRetryRead(p)
               \/ Crash(p) \/ Restart(p)
        BY <2>5 DEF RejectJob, AttemptError, FailOrRetryRead, Crash, Restart
    <2> QED
        BY <1>8, <2>1, <2>2, <2>3, <2>4, <2>5 DEF WorkerStep
<1>9. ASSUME NEW p \in Procs, AppendPartialOutput(p)
      PROVE  \/ row'[j] = row[j]
             \/ /\ row[j].attempts # 0
                /\ \E c : row'[j] = [row[j] EXCEPT !.partial = c]
    <2>1. CASE proc[p].job # j
        BY <1>1, <1>9, <2>1 DEF AppendPartialOutput
    <2>2. CASE proc[p].job = j
        <3>1. row[j].attempts # 0
            BY <1>1, <1>9, <2>2 DEF AppendPartialOutput, Inv, Ties, Claim, Row
        <3>2. row'[j] = [row[j] EXCEPT !.partial = @ \cup {proc[p].attempt}]
            BY <1>1, <1>9, <2>2 DEF AppendPartialOutput
        <3> QED
            BY <3>1, <3>2
    <2> QED
        BY <2>1, <2>2
<1>10. ASSUME CleanupExpiredLeases PROVE row'[j] = row[j]
    BY <1>3, <1>10 DEF CleanupExpiredLeases
<1>11. ASSUME Tick PROVE row'[j] = row[j]
    BY <1>1, <1>11, SameRow DEF Tick
<1> QED
    BY <1>4, <1>5, <1>6, <1>7, <1>8, <1>9, <1>10, <1>11 DEF Next, vars

\* Once a job that no worker owns is cancelled, it stays as it is.
THEOREM UnownedCancelTheorem ==
    ASSUME UniqueWorkerIds PROVE Spec => UnownedCancelIsFinal
<1>1. Inv /\ [Next]_vars =>
        [\A j \in Jobs :
           row[j].status = "cancelled" /\ row[j].worker = None =>
             /\ row'[j] = [row[j] EXCEPT !.partial = row'[j].partial]
             /\ row[j].attempts = 0 => row'[j] = row[j]]_vars
    BY UnownedCancelStep
<1> QED
    BY <1>1, InvariantHolds, PTL DEF Spec, UnownedCancelIsFinal

-----------------------------------------------------------------------------
(***************************************************************************)
(* BackgroundJobs implements JobTable: the initial states map to its        *)
(* initial state, and every step to one of its steps or to none.           *)
(***************************************************************************)

\* Nothing but the status and the lease of one row changes.
Frame(j) ==
    /\ \A k \in Jobs : k # j => /\ row'[k].status = row[k].status
                                /\ row'[k].lease = row[k].lease
    /\ \A k \in Jobs : row'[k].worker = row[k].worker
    /\ \A k \in Jobs : row'[k].attempts = row[k].attempts
    /\ \A k \in Jobs : row'[k].output = row[k].output

States == [k \in Jobs |-> AbstractState(row[k].status)]
Live == {k \in Jobs : row[k].lease > 0}

\* The table seen through the mapping does not move when the fields it reads
\* keep their values.
LEMMA TableStutters ==
    ASSUME \A j \in Jobs : /\ row'[j].status = row[j].status
                           /\ row'[j].worker = row[j].worker
                           /\ row'[j].attempts = row[j].attempts
                           /\ row'[j].output = row[j].output
                           /\ row'[j].lease = row[j].lease
    PROVE  UNCHANGED Table!tvars
BY DEF Table!tvars

\* A step that writes one row, seen through the mapping.
LEMMA WriteSeen ==
    ASSUME NEW j \in Jobs,
           \A k \in Jobs : k # j => /\ row'[k].status = row[k].status
                                    /\ row'[k].lease = row[k].lease
    PROVE  /\ States' = [States EXCEPT ![j] = AbstractState(row'[j].status)]
           /\ row'[j].lease > 0 => Live' = Live \cup {j}
           /\ ~(row'[j].lease > 0) => Live' = Live \ {j}
<1>1. States' = [States EXCEPT ![j] = AbstractState(row'[j].status)]
    BY DEF States, AbstractState
<1>2. row'[j].lease > 0 => Live' = Live \cup {j}
    BY DEF Live
<1>3. ~(row'[j].lease > 0) => Live' = Live \ {j}
    BY DEF Live
<1> QED
    BY <1>1, <1>2, <1>3

LEMMA FrameSeen ==
    ASSUME NEW j, Frame(j)
    PROVE  /\ [k \in Jobs |-> row'[k].worker] = [k \in Jobs |-> row[k].worker]
           /\ [k \in Jobs |-> row'[k].attempts] = [k \in Jobs |-> row[k].attempts]
           /\ [k \in Jobs |-> row'[k].output] = [k \in Jobs |-> row[k].output]
BY DEF Frame

-----------------------------------------------------------------------------

LEMMA RefineCreate ==
    ASSUME Inv, NEW j \in Jobs, CreateJob(j) PROVE Table!Submit(j)
<1>1. /\ row[j].status = "absent" /\ row'[j].status = "queued"
      /\ \A k \in Jobs : /\ k # j => row'[k].status = row[k].status
                         /\ row'[k].worker = row[k].worker
                         /\ row'[k].attempts = row[k].attempts
                         /\ row'[k].output = row[k].output
                         /\ row'[k].lease = row[k].lease
    BY DEF Inv, TypeOK, CreateJob, Row
<1> QED
    BY <1>1 DEF Table!Submit, AbstractState

\* The UPDATE of a cancel, however late, is the table's cancel.
LEMMA RefineCancel ==
    ASSUME Inv, NEW j \in Jobs, j = cancelling, CancelWrite PROVE Table!Cancel(j)
<1>1. /\ row[j].status # "absent"
      /\ row'[j].status = "cancelled" /\ row'[j].lease = NoLease
      /\ Frame(j)
    BY DEF Inv, Ties, TypeOK, CancelWrite, Row, Frame
<1>2. /\ States' = [States EXCEPT ![j] = "cancelled"]
      /\ Live' = Live \ {j}
      /\ States[j] # "absent"
    BY <1>1, WriteSeen DEF AbstractState, States, Frame
<1> QED
    BY <1>1, <1>2, FrameSeen DEF Table!Cancel, States, Live

LEMMA RefineLease ==
    ASSUME Inv, NEW p \in Procs, LeaseNextJob(p)
    PROVE  \E j \in Jobs : Table!Grant(j, WorkerId[p])
<1>1. PICK j \in Jobs : /\ Leasable(j)
                        /\ row' = [row EXCEPT ![j].status = "leased",
                                              ![j].worker = WorkerId[p],
                                              ![j].lease = LeaseTicks,
                                              ![j].attempts = @ + 1]
    BY DEF LeaseNextJob, NextJob
<1>2. /\ row'[j].status = "leased" /\ row'[j].lease = LeaseTicks
      /\ row'[j].worker = WorkerId[p] /\ row'[j].attempts = row[j].attempts + 1
      /\ \A k \in Jobs : /\ k # j => /\ row'[k].status = row[k].status
                                     /\ row'[k].lease = row[k].lease
                                     /\ row'[k].worker = row[k].worker
                                     /\ row'[k].attempts = row[k].attempts
                         /\ row'[k].output = row[k].output
    BY <1>1 DEF Inv, TypeOK, Row
<1>3. row[j].status \in {"queued", "retry_wait"} \cup WorkerStatuses /\ ~(row[j].lease > 0)
    BY <1>1 DEF Leasable, Inv, Ties, Shape
<1>4. /\ States' = [States EXCEPT ![j] = "held"]
      /\ Live' = Live \cup {j}
    BY <1>2, WriteSeen, TimeAssumption DEF AbstractState
<1>5. States[j] \in {"waiting", "held"} /\ j \notin Live
    BY <1>3 DEF States, Live, AbstractState
<1>6. /\ [k \in Jobs |-> row'[k].worker]
         = [[k \in Jobs |-> row[k].worker] EXCEPT ![j] = WorkerId[p]]
      /\ [k \in Jobs |-> row'[k].output] = [k \in Jobs |-> row[k].output]
    BY <1>2
<1>7. [k \in Jobs |-> row'[k].attempts]
         = [[k \in Jobs |-> row[k].attempts] EXCEPT ![j] = @ + 1]
    BY <1>2
<1> QED
    BY <1>4, <1>5, <1>6, <1>7 DEF Table!Grant, States, Live

LEMMA RefineHeartbeat ==
    ASSUME Inv, NEW p \in Procs, HeartbeatJob(p)
    PROVE  \/ Table!Renew(proc[p].job, WorkerId[p])
           \/ UNCHANGED Table!tvars
<1> DEFINE j == proc[p].job
<1>1. CASE row' = row
    BY <1>1, TableStutters
<1>2. CASE row' # row
    <2>1. /\ Owns(p, j) /\ row[j].status \in WorkerStatuses
          /\ row' = [row EXCEPT ![j].status = "running", ![j].lease = RunTicks]
        BY <1>2 DEF HeartbeatJob
    <2>2. /\ j \in Jobs
          /\ row'[j].status = "running" /\ row'[j].lease = RunTicks
          /\ Frame(j)
        BY <2>1, ExecutingJob DEF HeartbeatJob, Inv, TypeOK, Row, Frame
    <2>3. States' = States
        BY <2>1, <2>2 DEF States, AbstractState, Frame
    <2>4. Live' = Live \cup {j}
        BY <2>2, WriteSeen, TimeAssumption DEF Frame
    <2>5. States[j] = "held"
        BY <2>1, <2>2 DEF States, AbstractState
    <2> QED
        BY <2>1, <2>2, <2>3, <2>4, <2>5, FrameSeen DEF Table!Renew, Owns, States, Live
<1> QED
    BY <1>1, <1>2

\* The answer of the owner is that of the attempt the table counts.
LEMMA RefineComplete ==
    ASSUME Inv, NEW p \in Procs, CompleteJob(p)
    PROVE  \/ Table!Finish(proc[p].job, WorkerId[p])
           \/ UNCHANGED Table!tvars
<1> DEFINE j == proc[p].job
<1>1. CASE ~Owns(p, j)
    BY <1>1, TableStutters DEF CompleteJob
<1>2. CASE Owns(p, j)
    <2>1. row' = [row EXCEPT ![j].status = "succeeded",
                             ![j].output = proc[p].attempt,
                             ![j].lease = NoLease]
        BY <1>2 DEF CompleteJob
    <2>2. j \in Jobs /\ proc[p].attempt = row[j].attempts
        BY <1>2, ExecutingJob DEF CompleteJob, Owns, Inv, Ties, Claim
    <2>3. /\ row'[j].status = "succeeded" /\ row'[j].lease = NoLease
          /\ row'[j].output = row[j].attempts
          /\ \A k \in Jobs : /\ k # j => /\ row'[k].status = row[k].status
                                         /\ row'[k].lease = row[k].lease
                                         /\ row'[k].output = row[k].output
                             /\ row'[k].worker = row[k].worker
                             /\ row'[k].attempts = row[k].attempts
        BY <2>1, <2>2 DEF Inv, TypeOK, Row
    <2>4. States' = [States EXCEPT ![j] = "succeeded"] /\ Live' = Live \ {j}
        BY <2>2, <2>3, WriteSeen DEF AbstractState
    <2>5. /\ [k \in Jobs |-> row'[k].output]
             = [[k \in Jobs |-> row[k].output] EXCEPT ![j] = row[j].attempts]
          /\ [k \in Jobs |-> row'[k].worker] = [k \in Jobs |-> row[k].worker]
          /\ [k \in Jobs |-> row'[k].attempts] = [k \in Jobs |-> row[k].attempts]
        BY <2>3
    <2> QED
        BY <1>2, <2>2, <2>4, <2>5 DEF Table!Finish, Owns, States, Live
<1> QED
    BY <1>1, <1>2

\* The two statements of fail_or_retry_job act as one: the attempts the SELECT
\* saw are the attempts at the UPDATE, if the UPDATE finds the row at all.
LEMMA RefineFailOrRetry ==
    ASSUME Inv, NEW p \in Procs, FailOrRetryWrite(p)
    PROVE  \/ Table!PutBack(proc[p].job, WorkerId[p])
           \/ Table!GiveUp(proc[p].job, WorkerId[p])
           \/ UNCHANGED Table!tvars
<1> DEFINE j == proc[p].job
<1>1. /\ j \in Jobs
      /\ row[j].worker = WorkerId[p] => row[j].attempts = proc[p].attempt
    BY ExecutingJob DEF FailOrRetryWrite, Inv, Ties, Claim
<1>2. CASE ~Owns(p, j)
    BY <1>2, TableStutters DEF FailOrRetryWrite
<1>3. CASE Owns(p, j) /\ proc[p].pc = "retrying"
    <2>1. row' = [row EXCEPT ![j].status = "retry_wait", ![j].lease = RetryTicks]
        BY <1>3 DEF FailOrRetryWrite
    <2>2. row'[j].status = "retry_wait" /\ row'[j].lease = RetryTicks /\ Frame(j)
        BY <1>1, <2>1 DEF Inv, TypeOK, Row, Frame
    <2>3. row[j].attempts < MaxAttempts[j]
        BY <1>1, <1>3 DEF Owns, Inv, Ties, Claim
    <2>4. /\ States' = [States EXCEPT ![j] = "waiting"]
          /\ Live' \in {Live \cup {j}, Live \ {j}}
        BY <1>1, <2>2, WriteSeen DEF AbstractState, Frame
    <2> QED
        BY <1>1, <1>3, <2>2, <2>3, <2>4, FrameSeen DEF Table!PutBack, Owns, States, Live
<1>4. CASE Owns(p, j) /\ proc[p].pc = "giving_up"
    <2>1. row' = [row EXCEPT ![j].status = "failed", ![j].lease = NoLease]
        BY <1>4 DEF FailOrRetryWrite
    <2>2. row'[j].status = "failed" /\ row'[j].lease = NoLease /\ Frame(j)
        BY <1>1, <2>1 DEF Inv, TypeOK, Row, Frame
    <2>3. row[j].attempts >= MaxAttempts[j]
        BY <1>1, <1>4 DEF Owns, Inv, Ties, Claim
    <2>4. States' = [States EXCEPT ![j] = "failed"] /\ Live' = Live \ {j}
        BY <1>1, <2>2, WriteSeen DEF AbstractState, Frame
    <2> QED
        BY <1>1, <1>4, <2>2, <2>3, <2>4, FrameSeen DEF Table!GiveUp, Owns, States, Live
<1> QED
    BY <1>2, <1>3, <1>4 DEF FailOrRetryWrite

LEMMA RefineCleanup ==
    ASSUME Inv, CleanupExpiredLeases,
           NEW S \in SUBSET Jobs, S = {j \in Jobs : Expired(j)}
    PROVE  Table!Requeue(S)
<1>1. \A k \in S : /\ row'[k].status = "queued" /\ row'[k].worker = None
                   /\ row'[k].lease = NoLease /\ row[k].lease = 0
                   /\ row[k].status \in WorkerStatuses
    BY DEF CleanupExpiredLeases, Inv, TypeOK, Row, Expired
<1>2. \A k \in Jobs \ S : row'[k] = row[k]
    BY DEF CleanupExpiredLeases
<1>3. \A k \in Jobs : row'[k].attempts = row[k].attempts /\ row'[k].output = row[k].output
    BY DEF CleanupExpiredLeases, Inv, TypeOK, Row
<1>4. \A k \in S : States[k] = "held" /\ k \notin Live
    BY <1>1 DEF States, Live, AbstractState
<1>5. States' = [k \in Jobs |-> IF k \in S THEN "waiting" ELSE States[k]]
    BY <1>1, <1>2 DEF States, AbstractState
<1>6. [k \in Jobs |-> row'[k].worker]
      = [k \in Jobs |-> IF k \in S THEN None ELSE [i \in Jobs |-> row[i].worker][k]]
    BY <1>1, <1>2
<1>7. Live' = Live
    BY <1>1, <1>2 DEF Live
<1>8. /\ [k \in Jobs |-> row'[k].attempts] = [k \in Jobs |-> row[k].attempts]
      /\ [k \in Jobs |-> row'[k].output] = [k \in Jobs |-> row[k].output]
    BY <1>3
<1> QED
    BY <1>4, <1>5, <1>6, <1>7, <1>8 DEF Table!Requeue, States, Live

LEMMA RefineTick ==
    ASSUME Inv, Tick, NEW S \in SUBSET Jobs, S = {j \in Jobs : row[j].lease = 1}
    PROVE  Table!Lapse(S)
<1>1. \A k \in Jobs : /\ row'[k].status = row[k].status
                      /\ row'[k].worker = row[k].worker
                      /\ row'[k].attempts = row[k].attempts
                      /\ row'[k].output = row[k].output
                      /\ row'[k].lease = Less(row[k].lease)
                      /\ row[k].lease \in Nat \cup {NoLease}
    BY DEF Tick, Inv, TypeOK, Row
<1>2. \A k \in Jobs : row'[k].lease > 0 <=> row[k].lease > 0 /\ row[k].lease # 1
    BY <1>1 DEF Less
<1>3. Live' = Live \ S
    BY <1>2 DEF Live
<1>4. States' = States
    BY <1>1 DEF States
<1>5. /\ [k \in Jobs |-> row'[k].worker] = [k \in Jobs |-> row[k].worker]
      /\ [k \in Jobs |-> row'[k].attempts] = [k \in Jobs |-> row[k].attempts]
      /\ [k \in Jobs |-> row'[k].output] = [k \in Jobs |-> row[k].output]
    BY <1>1
<1> QED
    BY <1>3, <1>4, <1>5 DEF Table!Lapse, States, Live

-----------------------------------------------------------------------------

\* Every step of the queue is a step of the table, or none.
LEMMA StepRefines ==
    ASSUME Inv, [Next]_vars PROVE [Table!TNext]_(Table!tvars)
<1> USE JobsAssumption
<1>1. ASSUME NEW j \in Jobs, CreateJob(j) PROVE Table!TNext
    BY <1>1, RefineCreate DEF Table!TNext
<1>2. ASSUME CancelWrite PROVE Table!TNext
    <2>1. PICK j \in Jobs : j = cancelling
        BY <1>2 DEF CancelWrite, Inv, TypeOK
    <2> QED
        BY <1>2, <2>1, RefineCancel DEF Table!TNext
<1>3. ASSUME NEW p \in Procs, LeaseNextJob(p) PROVE Table!TNext
    BY <1>3, RefineLease DEF Table!TNext
<1>4. ASSUME NEW p \in Procs, HeartbeatJob(p) PROVE [Table!TNext]_(Table!tvars)
    BY <1>4, RefineHeartbeat, ExecutingJob DEF Table!TNext, HeartbeatJob, Inv
<1>5. ASSUME NEW p \in Procs, CompleteJob(p) PROVE [Table!TNext]_(Table!tvars)
    BY <1>5, RefineComplete, ExecutingJob DEF Table!TNext, CompleteJob, Inv
<1>6. ASSUME NEW p \in Procs, FailOrRetryWrite(p) PROVE [Table!TNext]_(Table!tvars)
    BY <1>6, RefineFailOrRetry, ExecutingJob DEF Table!TNext, FailOrRetryWrite, Inv
<1>7. ASSUME CleanupExpiredLeases PROVE Table!TNext
    <2>1. PICK S \in SUBSET Jobs : S = {j \in Jobs : Expired(j)}
        OBVIOUS
    <2> QED
        BY <1>7, <2>1, RefineCleanup DEF Table!TNext
<1>8. ASSUME Tick PROVE Table!TNext
    <2>1. PICK S \in SUBSET Jobs : S = {j \in Jobs : row[j].lease = 1}
        OBVIOUS
    <2> QED
        BY <1>8, <2>1, RefineTick DEF Table!TNext
<1>9. ASSUME NEW p \in Procs, AppendPartialOutput(p) PROVE UNCHANGED Table!tvars
    BY <1>9, TableStutters DEF AppendPartialOutput, Inv, TypeOK, Row
<1>10. CASE row' = row
    BY <1>10, TableStutters
<1>11. ASSUME NEW p \in Procs,
              RejectJob(p) \/ AttemptError(p) \/ FailOrRetryRead(p) \/ Crash(p) \/ Restart(p)
       PROVE  row' = row
    BY <1>11 DEF RejectJob, AttemptError, FailOrRetryRead, Crash, Restart
<1>12. ASSUME NEW j \in Jobs, CancelRead(j) PROVE row' = row
    BY <1>12 DEF CancelRead
<1>13. CancelError \/ UNCHANGED vars => row' = row
    BY DEF CancelError, vars
<1> QED
    BY <1>1, <1>2, <1>3, <1>4, <1>5, <1>6, <1>7, <1>8, <1>9, <1>10, <1>11, <1>12, <1>13
       DEF Next, WorkerStep

\* Split statements, late answers, crashes and the clock add nothing to the
\* atomic table, for any number of jobs and processes, if their ids differ.
THEOREM QueueImplementsTable ==
    ASSUME UniqueWorkerIds PROVE Spec => ImplementsTable
<1>1. Init => Table!TInit
    BY DEF Init, Absent, Table!TInit, AbstractState
<1>2. Inv /\ [Next]_vars => [Table!TNext]_(Table!tvars)
    BY StepRefines
<1> QED
    BY <1>1, <1>2, InvariantHolds, PTL DEF Spec, ImplementsTable, Table!TSpec
=============================================================================
