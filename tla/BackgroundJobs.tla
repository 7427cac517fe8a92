--------------------------- MODULE BackgroundJobs ---------------------------
(***************************************************************************)
(* The durable background-job queue: the rows of the SQLite table          *)
(* BackgroundJobs (src/background_jobs.py), the worker processes that lease *)
(* and execute them (src/slowbrain_worker.py calling                       *)
(* execute_background_job_once of src/main_impl.py) and the web process    *)
(* that creates and cancels jobs.                                          *)
(*                                                                         *)
(* The grain of atomicity is one SQL statement.  lease_next_job runs under *)
(* BEGIN IMMEDIATE and is one action.  cancel_job and fail_or_retry_job    *)
(* first SELECT, which under Python's sqlite3 opens no transaction, and    *)
(* then UPDATE: each is two actions and any other process may act between. *)
(*                                                                         *)
(* A time stamp is kept as the time that remains until it, counted in      *)
(* ticks: lease_expires_at <= now is lease = 0, NULL is NoLease.           *)
(***************************************************************************)
EXTENDS Integers

CONSTANTS
    Jobs,         \* the job ids that may ever be created
    HttpJobs,     \* the jobs execute_background_job_once can run itself: type
                  \* llamacpp_rpc_worker and a configured endpoint
    Procs,        \* worker processes
    WorkerIds,    \* values of --worker-id
    WorkerId,     \* [Procs -> WorkerIds]: the id each process was started with
    MaxAttempts,  \* [Jobs -> Nat \ {0}]: max_attempts of the job's profile
    LeaseTicks,   \* lease_seconds of lease_next_job
    RunTicks,     \* timeout_seconds + 60, the lease the one heartbeat asks for
    RetryTicks,   \* retry_delay_seconds
    SlowWorkers,  \* TRUE: an attempt may outlive the lease it runs under
    AttemptCap,   \* bound: leases granted to one job
    CrashCap,     \* bound: crashes of worker processes
    None          \* NULL

NoLease == -1

WorkerStatuses == {"leased", "running"}
TerminalStatuses == {"succeeded", "failed", "cancelled"}
JobStatuses == {"queued", "retry_wait"} \cup WorkerStatuses \cup TerminalStatuses

ASSUME JobsAssumption ==
    /\ HttpJobs \subseteq Jobs
    /\ MaxAttempts \in [Jobs -> Nat \ {0}]
    /\ WorkerId \in [Procs -> WorkerIds]
    /\ None \notin Jobs \cup WorkerIds

ASSUME TimeAssumption ==
    /\ LeaseTicks \in Nat \ {0}
    /\ RunTicks \in Nat \ {0}
    /\ RetryTicks \in Nat
    /\ SlowWorkers \in BOOLEAN
    /\ AttemptCap \in Nat
    /\ CrashCap \in Nat

VARIABLES
    row,         \* row[j]: the table's row of job j
    inserted,    \* rows inserted so far; created_at is the count at the insert
    proc,        \* proc[p]: where process p is in execute_background_job_once
    cancelling,  \* the job whose cancel request has passed its status check
    crashes,     \* crashes so far
    reclaimed    \* history: leases of j taken back after they had expired

vars == <<row, inserted, proc, cancelling, crashes, reclaimed>>

(***************************************************************************)
(* partial is the set of the attempts whose chunks partial_output holds,   *)
(* output the attempt whose answer is final_output (0: NULL).              *)
(***************************************************************************)
Row == [status: JobStatuses \cup {"absent"},
        created: Nat,
        attempts: Nat,
        lease: Nat \cup {NoLease},
        worker: WorkerIds \cup {None},
        partial: SUBSET Nat,
        output: Nat]

(***************************************************************************)
(* attempt is the attempt_count the lease returned; hold is the time left  *)
(* on the last lease the process wrote for the job it executes.  The code  *)
(* keeps neither: they relate a process to the rows it may have lost.      *)
(***************************************************************************)
Executing == {"leased", "running", "failing", "retrying", "giving_up"}
Process == [pc: Executing \cup {"idle", "down"},
            job: Jobs \cup {None},
            attempt: Nat,
            hold: Nat]

Absent == [status |-> "absent", created |-> 0, attempts |-> 0,
           lease |-> NoLease, worker |-> None, partial |-> {}, output |-> 0]
Idle == [pc |-> "idle", job |-> None, attempt |-> 0, hold |-> 0]
Down == [Idle EXCEPT !.pc = "down"]

Init ==
    /\ row = [j \in Jobs |-> Absent]
    /\ inserted = 0
    /\ proc = [p \in Procs |-> Idle]
    /\ cancelling = None
    /\ crashes = 0
    /\ reclaimed = [j \in Jobs |-> 0]

-----------------------------------------------------------------------------
(* The web process *)

\* POST /jobs, or a chat completion with "background": true.
CreateJob(j) ==
    /\ row[j].status = "absent"
    /\ inserted' = inserted + 1
    /\ row' = [row EXCEPT ![j].status = "queued", ![j].created = inserted + 1]
    /\ UNCHANGED <<proc, cancelling, crashes, reclaimed>>

\* POST /jobs/{id}/cancel: the SELECT and the test of what it returned.  The
\* handler blocks the web process's event loop, so there is one at a time.
CancelRead(j) ==
    /\ cancelling = None
    /\ row[j].status \notin TerminalStatuses \cup {"absent"}
    /\ cancelling' = j
    /\ UNCHANGED <<row, inserted, proc, crashes, reclaimed>>

\* Mutant: a spelling that is not one of JOB_STATUSES.
CancelWriteMisspelt ==
    /\ cancelling # None
    /\ row' = [row EXCEPT ![cancelling].status = "canceled",
                          ![cancelling].lease = NoLease]
    /\ cancelling' = None
    /\ UNCHANGED <<inserted, proc, crashes, reclaimed>>

\* The UPDATE, WHERE id = ? only.
CancelWrite ==
    /\ cancelling # None
    /\ row' = [row EXCEPT ![cancelling].status = "cancelled",
                          ![cancelling].lease = NoLease]
    /\ cancelling' = None
    /\ UNCHANGED <<inserted, proc, crashes, reclaimed>>

\* The UPDATE raises ("database is locked") or the web process dies.
CancelError ==
    /\ cancelling # None
    /\ cancelling' = None
    /\ UNCHANGED <<row, inserted, proc, crashes, reclaimed>>

-----------------------------------------------------------------------------
(* The worker processes *)

\* Mutant: the lease of a job in progress is not looked at.
LeasableAnyTime(j) ==
    row[j].status \in {"queued", "retry_wait"} \cup WorkerStatuses

\* Mutant: every job that has not succeeded or failed, a cancelled one too.
LeasableUnlessEnded(j) ==
    /\ row[j].status \notin {"absent", "succeeded", "failed"}
    /\ row[j].lease \in {NoLease, 0}

\* Mutant: a lease that expired is left to cleanup_expired_leases.
LeasableOnlyWaiting(j) ==
    \/ row[j].status = "queued"
    \/ row[j].status = "retry_wait" /\ row[j].lease \in {NoLease, 0}

Leasable(j) ==
    \/ row[j].status = "queued"
    \/ row[j].status = "retry_wait" /\ row[j].lease \in {NoLease, 0}
    \/ row[j].status \in WorkerStatuses /\ row[j].lease = 0

\* ORDER BY created_at ASC LIMIT 1, among the jobs of every worker type.
NextJob(j) ==
    /\ Leasable(j)
    /\ \A k \in Jobs : Leasable(k) => row[j].created <= row[k].created

\* Mutant: the statements lose their AND worker_id = ?.
OwnsAny(p, j) == row[j].worker # None

Owns(p, j) == row[j].worker = WorkerId[p]

LeaseNextJob(p) ==
    /\ proc[p].pc = "idle"
    /\ \E j \in Jobs :
        /\ NextJob(j)
        /\ row[j].attempts < AttemptCap
        /\ row' = [row EXCEPT ![j].status = "leased",
                              ![j].worker = WorkerId[p],
                              ![j].lease = LeaseTicks,
                              ![j].attempts = @ + 1]
        /\ proc' = [proc EXCEPT ![p] = [pc |-> "leased", job |-> j,
                                        attempt |-> row[j].attempts + 1,
                                        hold |-> LeaseTicks]]
        /\ reclaimed' = IF row[j].status \in WorkerStatuses
                        THEN [reclaimed EXCEPT ![j] = @ + 1] ELSE reclaimed
    /\ UNCHANGED <<inserted, cancelling, crashes>>

\* A job for an external sidecar, or a profile without an endpoint.
RejectJob(p) ==
    /\ proc[p].pc = "leased"
    /\ proc[p].job \notin HttpJobs
    /\ proc' = [proc EXCEPT ![p].pc = "failing"]
    /\ UNCHANGED <<row, inserted, cancelling, crashes, reclaimed>>

\* The one heartbeat of an attempt.  The request is sent whether or not the
\* UPDATE found the row: the result of heartbeat_job is not looked at.
HeartbeatJob(p) ==
    LET j == proc[p].job
        held == Owns(p, j) /\ row[j].status \in WorkerStatuses
    IN
    /\ proc[p].pc = "leased"
    /\ j \in HttpJobs
    /\ row' = IF held THEN [row EXCEPT ![j].status = "running",
                                       ![j].lease = RunTicks]
                      ELSE row
    /\ proc' = [proc EXCEPT ![p].pc = "running",
                            ![p].hold = IF held THEN RunTicks ELSE @]
    /\ UNCHANGED <<inserted, cancelling, crashes, reclaimed>>

\* One chunk of a streamed answer, WHERE id = ? only.
AppendPartialOutput(p) ==
    /\ proc[p].pc = "running"
    /\ row' = [row EXCEPT ![proc[p].job].partial = @ \cup {proc[p].attempt}]
    /\ UNCHANGED <<inserted, proc, cancelling, crashes, reclaimed>>

\* The answer is complete: UPDATE ... WHERE id = ? AND worker_id = ?, whatever
\* the status.  complete_job then reads the row back on a new connection, and if
\* that read raises the handler below runs although the job has succeeded.
CompleteJob(p) ==
    LET j == proc[p].job IN
    /\ proc[p].pc = "running"
    /\ row' = IF Owns(p, j)
              THEN [row EXCEPT ![j].status = "succeeded",
                               ![j].output = proc[p].attempt,
                               ![j].lease = NoLease]
              ELSE row
    /\ \/ proc' = [proc EXCEPT ![p] = Idle]
       \/ proc' = [proc EXCEPT ![p].pc = "failing"]
    /\ UNCHANGED <<inserted, cancelling, crashes, reclaimed>>

\* The upstream answers >= 400, times out or breaks off, or a statement raises.
AttemptError(p) ==
    /\ proc[p].pc \in {"leased", "running"}
    /\ proc[p].job \in HttpJobs
    /\ proc' = [proc EXCEPT ![p].pc = "failing"]
    /\ UNCHANGED <<row, inserted, cancelling, crashes, reclaimed>>

\* Mutant: one attempt too many.
AttemptsLeftOffByOne(j) == row[j].attempts <= MaxAttempts[j]

AttemptsLeft(j) == row[j].attempts < MaxAttempts[j]

\* fail_or_retry_job: the SELECT WHERE id = ? AND worker_id = ?, and the branch.
FailOrRetryRead(p) ==
    LET j == proc[p].job IN
    /\ proc[p].pc = "failing"
    /\ proc' = [proc EXCEPT ![p] =
                  IF ~Owns(p, j) THEN Idle
                  ELSE IF AttemptsLeft(j)
                       THEN [@ EXCEPT !.pc = "retrying"]
                       ELSE [@ EXCEPT !.pc = "giving_up"]]
    /\ UNCHANGED <<row, inserted, cancelling, crashes, reclaimed>>

\* Mutant: a failed job keeps its lease.
FailOrRetryWriteKeepingLease(p) ==
    LET j == proc[p].job IN
    /\ proc[p].pc \in {"retrying", "giving_up"}
    /\ row' = IF ~Owns(p, j) THEN row
              ELSE IF proc[p].pc = "retrying"
                   THEN [row EXCEPT ![j].status = "retry_wait",
                                    ![j].lease = RetryTicks]
                   ELSE [row EXCEPT ![j].status = "failed"]
    /\ proc' = [proc EXCEPT ![p] = Idle]
    /\ UNCHANGED <<inserted, cancelling, crashes, reclaimed>>

\* fail_or_retry_job: either UPDATE, WHERE id = ? AND worker_id = ? again.
FailOrRetryWrite(p) ==
    LET j == proc[p].job IN
    /\ proc[p].pc \in {"retrying", "giving_up"}
    /\ row' = IF ~Owns(p, j) THEN row
              ELSE IF proc[p].pc = "retrying"
                   THEN [row EXCEPT ![j].status = "retry_wait",
                                    ![j].lease = RetryTicks]
                   ELSE [row EXCEPT ![j].status = "failed",
                                    ![j].lease = NoLease]
    /\ proc' = [proc EXCEPT ![p] = Idle]
    /\ UNCHANGED <<inserted, cancelling, crashes, reclaimed>>

\* A process dies at any point: a kill, or an exception outside the handler.
Crash(p) ==
    /\ proc[p].pc # "down"
    /\ crashes < CrashCap
    /\ proc' = [proc EXCEPT ![p] = Down]
    /\ crashes' = crashes + 1
    /\ UNCHANGED <<row, inserted, cancelling, reclaimed>>

\* The supervisor or timer starts it again, with the same --worker-id.
Restart(p) ==
    /\ proc[p].pc = "down"
    /\ proc' = [proc EXCEPT ![p] = Idle]
    /\ UNCHANGED <<row, inserted, cancelling, crashes, reclaimed>>

-----------------------------------------------------------------------------
(* Maintenance and time *)

\* Mutant: every lease counts as expired.
ExpiredOrNot(j) == row[j].status \in WorkerStatuses

Expired(j) == row[j].status \in WorkerStatuses /\ row[j].lease = 0

\* One UPDATE over all rows.  Nothing under src/ calls it; it is there for an
\* operator or a sidecar to call at any time.
CleanupExpiredLeases ==
    /\ \E j \in Jobs : Expired(j)
    /\ row' = [j \in Jobs |->
                 IF Expired(j) THEN [row[j] EXCEPT !.status = "queued",
                                                   !.worker = None,
                                                   !.lease = NoLease]
                               ELSE row[j]]
    /\ reclaimed' = [j \in Jobs |-> IF Expired(j) THEN reclaimed[j] + 1
                                                  ELSE reclaimed[j]]
    /\ UNCHANGED <<inserted, proc, cancelling, crashes>>

Less(t) == IF t > 0 THEN t - 1 ELSE t

\* Without slow workers no lease runs out under the process that wrote it.
Tick ==
    /\ SlowWorkers \/ \A p \in Procs : proc[p].hold # 1
    /\ row' = [j \in Jobs |-> [row[j] EXCEPT !.lease = Less(@)]]
    /\ proc' = [p \in Procs |-> [proc[p] EXCEPT !.hold = Less(@)]]
    /\ UNCHANGED <<inserted, cancelling, crashes, reclaimed>>

-----------------------------------------------------------------------------

\* What one process does when nothing goes wrong outside it.
WorkerStep(p) ==
    \/ LeaseNextJob(p)
    \/ RejectJob(p)
    \/ HeartbeatJob(p)
    \/ CompleteJob(p)
    \/ AttemptError(p)
    \/ FailOrRetryRead(p)
    \/ FailOrRetryWrite(p)
    \/ Restart(p)

Next ==
    \/ \E j \in Jobs : CreateJob(j) \/ CancelRead(j)
    \/ CancelWrite
    \/ CancelError
    \/ \E p \in Procs : WorkerStep(p) \/ AppendPartialOutput(p) \/ Crash(p)
    \/ CleanupExpiredLeases
    \/ Tick

Spec == Init /\ [][Next]_vars

(***************************************************************************)
(* run_worker's loop calls execute_background_job_once without end, every  *)
(* await in it has a timeout, a dead worker is restarted by its            *)
(* supervisor, and the clock advances.  Nothing makes a client call, a     *)
(* cleanup or a crash happen.                                              *)
(***************************************************************************)
FairSpec ==
    /\ Spec
    /\ \A p \in Procs : WF_vars(WorkerStep(p))
    /\ WF_vars(Tick)

-----------------------------------------------------------------------------
(* Properties *)

\* Type invariant: every row and every process keeps the shape the code gives
\* it; in particular only the seven statuses of JOB_STATUSES are ever written.
TypeOK ==
    /\ row \in [Jobs -> Row]
    /\ inserted \in Nat
    /\ proc \in [Procs -> Process]
    /\ \A p \in Procs : (proc[p].pc \in Executing) <=> (proc[p].job # None)
    /\ cancelling \in Jobs \cup {None}
    /\ crashes \in Nat
    /\ reclaimed \in [Jobs -> Nat]

\* No two processes run under one --worker-id.  The README's examples number
\* the ids; the default id of slowbrain_worker.py does not ensure it.
UniqueWorkerIds == \A p, q \in Procs : WorkerId[p] = WorkerId[q] => p = q

\* While the last lease a process wrote has not run out, the job it executes is
\* still its own and in the same attempt: no lease, cleanup or late answer of
\* another process, or a cancel, hands the job to somebody else.
NoLeaseStolen ==
    \A p \in Procs :
        proc[p].hold > 0 => LET r == row[proc[p].job] IN
                            /\ r.worker = WorkerId[p]
                            /\ r.attempts = proc[p].attempt

\* The answer stored in a succeeded job is that of the latest attempt leased:
\* a process that lost its lease, finishing late, never overwrites the row.
OutputOfLatestAttempt ==
    \A j \in Jobs :
        row[j].status = "succeeded" => /\ row[j].output > 0
                                       /\ row[j].output = row[j].attempts

\* A job is attempted beyond max_attempts only for the leases that expired and
\* were taken back: a failure that was reported always uses up the budget,
\* also when the row changed between the SELECT and the UPDATE of
\* fail_or_retry_job, and when a cancelled job is brought back by it.
RetryBudget ==
    \A j \in Jobs : row[j].attempts <= MaxAttempts[j] + reclaimed[j]

\* A cancel that takes effect on a job no worker owns is final: no process,
\* however late, changes the job's status, owner, attempts or final output
\* afterwards; if it was never leased the row does not change at all.
UnownedCancelIsFinal ==
    [][\A j \in Jobs :
         row[j].status = "cancelled" /\ row[j].worker = None =>
             /\ row'[j] = [row[j] EXCEPT !.partial = row'[j].partial]
             /\ row[j].attempts = 0 => row'[j] = row[j]]_vars

\* Every job that is created ends, for good: it succeeds, fails or is
\* cancelled, whatever crashes and late answers happen on the way, as long as
\* no attempt outlives its lease (SlowWorkers = FALSE).
JobsSettle ==
    \A j \in Jobs :
        (row[j].status # "absent") ~> [](row[j].status \in TerminalStatuses)

-----------------------------------------------------------------------------
(* The inductive invariant behind them, for unique worker ids *)

\* What an executing process may rely on.  It has the row only while the row
\* bears its id, and then in the same attempt, because a new lease always
\* writes another id; its answer to "attempts left?" stays right while it has
\* the row; and as long as its lease runs, the row is held or has ended.
Claim(p) ==
    LET r == row[proc[p].job]
        max == MaxAttempts[proc[p].job]
    IN
    IF proc[p].pc \in Executing
    THEN /\ r.status # "absent"
         /\ proc[p].attempt \in 1 .. r.attempts
         /\ r.worker = WorkerId[p] => r.attempts = proc[p].attempt
         /\ proc[p].pc = "retrying" => proc[p].attempt < max
         /\ proc[p].pc = "giving_up" => proc[p].attempt >= max
         /\ proc[p].hold > 0 =>
              /\ r.worker = WorkerId[p]
              /\ r.status \in WorkerStatuses \cup TerminalStatuses
              /\ r.status \in WorkerStatuses => r.lease = proc[p].hold
    ELSE proc[p].hold = 0

\* What a row looks like in each status.
Shape(j) ==
    LET r == row[j] IN
    /\ r.status = "absent" => r.attempts = 0
    /\ r.status \in {"absent", "queued"} => r.worker = None
    /\ r.status \in {"absent", "queued"} \cup TerminalStatuses => r.lease = NoLease
    /\ r.status = "succeeded" => r.output > 0 /\ r.output = r.attempts
    /\ r.status \in {"absent", "queued", "retry_wait"} =>
           r.attempts < MaxAttempts[j] + reclaimed[j]
    /\ r.attempts <= MaxAttempts[j] + reclaimed[j]

\* The strengthening that every step preserves.
Ties ==
    /\ \A p \in Procs : Claim(p)
    /\ \A j \in Jobs : Shape(j)
    /\ cancelling # None => row[cancelling].status # "absent"

Inv == TypeOK /\ Ties

-----------------------------------------------------------------------------
(* The abstract specification this one implements when worker ids are unique *)

AbstractState(s) ==
    IF s \in {"queued", "retry_wait"} THEN "waiting"
    ELSE IF s \in WorkerStatuses THEN "held" ELSE s

Table == INSTANCE JobTable WITH
    state <- [j \in Jobs |-> AbstractState(row[j].status)],
    holder <- [j \in Jobs |-> row[j].worker],
    attempts <- [j \in Jobs |-> row[j].attempts],
    output <- [j \in Jobs |-> row[j].output],
    live <- {j \in Jobs : row[j].lease > 0}

\* Split statements, late answers, crashes and the clock add nothing to the
\* atomic table of JobTable: the owner's id in every WHERE is enough.
ImplementsTable == Table!TSpec

-----------------------------------------------------------------------------
(* What the documents say and the code does not keep *)

\* README.md:69, "cancel a queued/running background job", and cancelled is one
\* of TERMINAL_STATUSES (background_jobs.py:11): a cancelled job stays so.
CancelIsFinal ==
    [][\A j \in Jobs : row[j].status = "cancelled" => row'[j].status = "cancelled"]_vars
=============================================================================
