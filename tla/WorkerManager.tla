--------------------------- MODULE WorkerManager ---------------------------
(***************************************************************************)
(* A worker manager (codalab/worker_manager/worker_manager.py): a program  *)
(* of a user that looks at the staged bundles and starts workers for them  *)
(* as jobs of Slurm (slurm_batch_worker_manager.py).  It learns about jobs *)
(* only from what the commands of Slurm print, remembers their ids in      *)
(* submitted_jobs, and a command that fails prints nothing.                *)
(***************************************************************************)
EXTENDS Naturals, FiniteSets

CONSTANTS
    Jobs,          \* ids of Slurm; one is used again when nobody knows it
    MinChoices,    \* values of the argument min_workers
    MaxWorkers,    \* the argument max_workers
    MaxFailed,     \* the argument exit_after_num_failed
    MaxStaged,     \* bound on staged bundles
    MaxWait,       \* min_seconds_between_workers, in rounds
    MaxTroubles    \* bound on commands that fail, odd ends and restarts

ASSUME ManagerAssumption ==
    /\ MaxWorkers \in Nat /\ MinChoices \subseteq 0 .. MaxWorkers
    /\ {MaxFailed, MaxStaged, MaxWait, MaxTroubles} \subseteq Nat

VARIABLES
    staged,          \* how many bundles of the user are STAGED
    slurm,           \* what Slurm knows of a job
    submitted_jobs,
    round,           \* run_one_iteration: where it is and what it has read
    min_workers,
    waiting,         \* rounds until min_seconds_between_workers have passed
    num_failed,
    unseen,          \* history: jobs whose id was not told when it was asked for
    troubles

countVars == <<min_workers, waiting, num_failed, unseen, troubles>>
managerVars == <<staged, slurm, submitted_jobs, round, countVars>>

(* "over" is COMPLETED, CANCELLED and TIMEOUT; "odd" is every other end    *)
(* that has no FAILED in its name: NODE_FAIL, OUT_OF_MEMORY, PREEMPTED.    *)
Ended == {"over", "FAILED", "odd"}

Live == {j \in Jobs : slurm[j] \in {"PENDING", "RUNNING"}}

Asleep == [pc |-> "sleep", staged |-> 0, left |-> {}, gone |-> {}]

ManagerTypeOK ==
    /\ staged \in 0 .. MaxStaged
    /\ slurm \in [Jobs -> {"unknown", "PENDING", "RUNNING"} \union Ended]
    /\ submitted_jobs \subseteq Jobs
    /\ round \in [pc : {"off", "load", "sleep", "fetch", "check", "launch"},
                  staged : 0 .. MaxStaged,
                  left : SUBSET submitted_jobs, gone : SUBSET submitted_jobs]
    /\ min_workers \in MinChoices \union {0}
    /\ waiting \in 0 .. MaxWait
    /\ num_failed \in 0 .. MaxFailed + 1
    /\ unseen \subseteq Live
    /\ troubles \in 0 .. MaxTroubles

ManagerInit ==
    /\ staged = 0
    /\ slurm = [j \in Jobs |-> "unknown"]
    /\ submitted_jobs = {}
    /\ round = [Asleep EXCEPT !.pc = "off"]
    /\ min_workers = 0
    /\ waiting = 0
    /\ num_failed = 0
    /\ unseen = {}
    /\ troubles = 0

Trouble == troubles < MaxTroubles /\ troubles' = troubles + 1

-----------------------------------------------------------------------------
(* Bundles that filter_bundles lets pass, and Slurm *)

StageBundle ==
    /\ staged < MaxStaged
    /\ staged' = staged + 1
    /\ UNCHANGED <<slurm, submitted_jobs, round, countVars>>

(* A worker has taken it, or its user has killed it. *)
UnstageBundle ==
    /\ staged > 0
    /\ staged' = staged - 1
    /\ UNCHANGED <<slurm, submitted_jobs, round, countVars>>

RunJob(j) ==
    /\ slurm[j] = "PENDING"
    /\ slurm' = [slurm EXCEPT ![j] = "RUNNING"]
    /\ UNCHANGED <<staged, submitted_jobs, round, countVars>>

EndJob(j) ==
    /\ j \in Live
    /\ \E end \in Ended : /\ slurm' = [slurm EXCEPT ![j] = end]
                          /\ IF end = "odd" THEN Trouble ELSE UNCHANGED troubles
    /\ unseen' = unseen \ {j}
    /\ UNCHANGED <<staged, submitted_jobs, round, min_workers, waiting, num_failed>>

(* Slurm keeps the record of a job that ended for some minutes only. *)
PurgeJob(j) ==
    /\ slurm[j] \in Ended
    /\ slurm' = [slurm EXCEPT ![j] = "unknown"]
    /\ UNCHANGED <<staged, submitted_jobs, round, countVars>>

-----------------------------------------------------------------------------
(* __init__: load_worker_jobs asks squeue for the jobs of the user. *)

StartManager ==
    /\ round.pc = "off"
    /\ round' = [round EXCEPT !.pc = "load"]
    /\ min_workers' \in MinChoices
    /\ UNCHANGED <<staged, slurm, submitted_jobs, waiting, num_failed, unseen, troubles>>

LoadWorkerJobs ==
    /\ round.pc = "load"
    /\ \/ submitted_jobs' = Live /\ UNCHANGED <<unseen, troubles>>
       \/ submitted_jobs' = {} /\ unseen' = Live /\ Live # {} /\ Trouble
    /\ round' = Asleep
    /\ waiting' = 0
    /\ num_failed' = 0
    /\ UNCHANGED <<staged, slurm, min_workers>>

(* It is stopped, or restarts itself after restart_after_seconds. *)
StopManager ==
    /\ \E pc \in {"off"} \union (IF round.pc = "fetch" THEN {"load"} ELSE {}) :
         round' = [Asleep EXCEPT !.pc = pc]
    /\ round.pc # "off" /\ Trouble
    /\ UNCHANGED <<staged, slurm, submitted_jobs, min_workers, waiting, num_failed, unseen>>

Wake ==
    /\ round.pc = "sleep"
    /\ round' = [round EXCEPT !.pc = "fetch"]
    /\ waiting' = IF waiting > 0 THEN waiting - 1 ELSE 0
    /\ UNCHANGED <<staged, slurm, submitted_jobs, min_workers, num_failed, unseen, troubles>>

(* The staged bundles are fetched; an error of the network ends the round. *)
FetchStaged ==
    /\ round.pc = "fetch"
    /\ \/ /\ round' = [round EXCEPT !.pc = "check", !.staged = staged, !.left = submitted_jobs]
          /\ UNCHANGED troubles
       \/ round' = Asleep /\ Trouble
    /\ UNCHANGED <<staged, slurm, submitted_jobs, min_workers, waiting, num_failed, unseen>>

-----------------------------------------------------------------------------
(* get_worker_jobs: scontrol for each of the jobs *)

Checked(j, gone) == [round EXCEPT !.left = @ \ {j}, !.gone = @ \union gone]

(* Mutant: a job Slurm says nothing about is over. *)
CheckSilent(j) ==
    /\ round.pc = "check" /\ j \in round.left
    /\ IF slurm[j] = "unknown" THEN UNCHANGED troubles ELSE Trouble
    /\ round' = Checked(j, {j})
    /\ UNCHANGED <<staged, slurm, submitted_jobs, min_workers, waiting, num_failed, unseen>>

(* scontrol prints nothing: the job stays. *)
SkipJob(j) ==
    /\ round.pc = "check" /\ j \in round.left
    /\ IF slurm[j] = "unknown" THEN UNCHANGED troubles ELSE Trouble
    /\ round' = Checked(j, {})
    /\ UNCHANGED <<staged, slurm, submitted_jobs, min_workers, waiting, num_failed, unseen>>

CheckJob(j) ==
    /\ round.pc = "check" /\ j \in round.left
    /\ slurm[j] \notin {"unknown", "FAILED"}
    /\ round' = Checked(j, {j} \intersect {i \in Jobs : slurm[i] = "over"})
    /\ UNCHANGED <<staged, slurm, submitted_jobs, countVars>>

(* exit_after_num_failed ends the program on the spot. *)
CheckFailedJob(j) ==
    /\ round.pc = "check" /\ j \in round.left
    /\ slurm[j] = "FAILED"
    /\ num_failed' = num_failed + 1
    /\ round' = IF num_failed' > MaxFailed THEN [Asleep EXCEPT !.pc = "off"] ELSE Checked(j, {j})
    /\ UNCHANGED <<staged, slurm, submitted_jobs, min_workers, waiting, unseen, troubles>>

(* squeue tells which jobs run; if it prints nothing, none does.  A worker *)
(* is wanted for the staged bundles, or because there are too few.         *)
Wanted(jobs, running) ==
    \/ /\ round.staged > 0 /\ waiting = 0
       /\ Cardinality(jobs \ running) < round.staged
       /\ Cardinality(jobs) < MaxWorkers
    \/ Cardinality(jobs) < min_workers

(* Mutant: a job that is over is counted all the same. *)
DecideKeeps ==
    /\ round.pc = "check" /\ round.left = {}
    /\ submitted_jobs' = submitted_jobs
    /\ \E running \in {{}, {j \in Jobs : slurm[j] = "RUNNING"}} :
         /\ IF running = {} /\ \E j \in Jobs : slurm[j] = "RUNNING"
            THEN Trouble ELSE UNCHANGED troubles
         /\ round' = [Asleep EXCEPT !.pc = IF Wanted(submitted_jobs', running)
                                           THEN "launch" ELSE @]
    /\ UNCHANGED <<staged, slurm, min_workers, waiting, num_failed, unseen>>

Decide ==
    /\ round.pc = "check" /\ round.left = {}
    /\ submitted_jobs' = submitted_jobs \ round.gone
    /\ \E running \in {{}, {j \in Jobs : slurm[j] = "RUNNING"}} :
         /\ IF running = {} /\ \E j \in Jobs : slurm[j] = "RUNNING"
            THEN Trouble ELSE UNCHANGED troubles
         /\ round' = [Asleep EXCEPT !.pc = IF Wanted(submitted_jobs', running)
                                           THEN "launch" ELSE @]
    /\ UNCHANGED <<staged, slurm, min_workers, waiting, num_failed, unseen>>

(* start_worker_job: its directory cannot be made, sbatch fails, or what   *)
(* sbatch printed is not understood, and the job starts all the same.      *)
Launch ==
    /\ round.pc = "launch"
    /\ \/ \E j \in Jobs \ (submitted_jobs \union Live) :
            /\ slurm' = [slurm EXCEPT ![j] = "PENDING"]
            /\ \/ submitted_jobs' = submitted_jobs \union {j} /\ UNCHANGED <<unseen, troubles>>
               \/ unseen' = unseen \union {j} /\ UNCHANGED submitted_jobs /\ Trouble
       \/ UNCHANGED <<slurm, submitted_jobs, unseen>> /\ Trouble
    /\ round' = Asleep
    /\ waiting' \in 0 .. MaxWait
    /\ UNCHANGED <<staged, min_workers, num_failed>>

-----------------------------------------------------------------------------
RunOneIteration ==
    \/ LoadWorkerJobs \/ Wake \/ FetchStaged \/ Decide \/ Launch
    \/ \E j \in Jobs : SkipJob(j) \/ CheckJob(j) \/ CheckFailedJob(j)

ManagerNext ==
    \/ RunOneIteration
    \/ StartManager \/ StopManager
    \/ StageBundle \/ UnstageBundle
    \/ \E j \in Jobs : RunJob(j) \/ EndJob(j) \/ PurgeJob(j)

(* run_loop goes on while the program runs. *)
ManagerFairness == WF_managerVars(RunOneIteration)

ManagerSpec == ManagerInit /\ [][ManagerNext]_managerVars /\ ManagerFairness

-----------------------------------------------------------------------------
(* Jobs the manager counts as pending for ever: it cannot hear of their    *)
(* end (slurm_batch_worker_manager.py:178).                                *)
Phantoms == {j \in submitted_jobs : slurm[j] \in {"unknown", "odd"}}

(* There are never more workers than max_workers, but for those whose id   *)
(* the manager was not told: a job it hears nothing of is not taken for    *)
(* one that is over (get_worker_jobs).                                     *)
WorkersLimited == Cardinality(Live \ unseen) <= MaxWorkers

(* While bundles are staged there is a worker again and again, unless the  *)
(* program has ended or counts a job whose end it will never hear of       *)
(* (run_one_iteration).                                                    *)
StagedIsServed == staged > 0 ~> (staged = 0 \/ Live # {} \/ Phantoms # {} \/ round.pc = "off")
=============================================================================
