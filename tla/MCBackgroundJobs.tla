-------------------------- MODULE MCBackgroundJobs --------------------------
(***************************************************************************)
(* Small instances of BackgroundJobs for TLC: each process has its own id, *)
(* every profile has the README's max_attempts of 2.                       *)
(***************************************************************************)
EXTENDS BackgroundJobs, TLC

OwnId == [p \in Procs |-> p]
TwoAttempts == [j \in Jobs |-> 2]
OneAttempt == [j \in Jobs |-> 1]

ASSUME UniqueWorkerIds

ProcSymmetry == Permutations(Procs)
=============================================================================
