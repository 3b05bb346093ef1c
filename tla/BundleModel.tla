---------------------------- MODULE BundleModel ----------------------------
(***************************************************************************)
(* The database of the bundle service: the bundle, worker and worker_run   *)
(* tables and the transactions of codalab/model/bundle_model.py and        *)
(* codalab/model/worker_model.py that move a run bundle through its        *)
(* lifecycle.  Every operator below is one database transaction and is     *)
(* therefore one atomic step; its callers (the bundle manager, the REST    *)
(* server) are other modules, which read in one step and write in another. *)
(*                                                                         *)
(* Of a bundle's metadata only what decides a state is kept: the failure   *)
(* message (none, some failure, a requested kill) and the flag             *)
(* on_preemptible_worker.  Exit codes are folded into the failure message, *)
(* as transition_bundle_finalizing writes a message for each non-zero one. *)
(***************************************************************************)
EXTENDS Naturals

CONSTANTS
    Bundles,             \* uuids of the run bundles
    Workers,             \* (user_id, worker_id) pairs that may check in
    PreemptibleWorkers   \* workers started with --preemptible

ASSUME PreemptibleAssumption == PreemptibleWorkers \subseteq Workers

VARIABLES
    state,           \* bundle.state, "deleted" when there is no bundle row
    failure,         \* bundle_metadata: failure_message
    onPreemptible,   \* bundle_metadata: on_preemptible_worker
    workerRun,       \* rows <<worker, run_uuid>> of worker_run
    worker           \* the worker row: "absent", "active" or "terminating"

dbVars == <<state, failure, onPreemptible, workerRun, worker>>

FinalStates == {"ready", "failed", "killed"}
ActiveStates == {"starting", "preparing", "running", "finalizing"}
BundleState == {"created", "staged", "worker_offline", "deleted"}
                 \union ActiveStates \union FinalStates
Failure == {"none", "failed", "killed"}

DbTypeOK ==
    /\ state \in [Bundles -> BundleState]
    /\ failure \in [Bundles -> Failure]
    /\ onPreemptible \in [Bundles -> BOOLEAN]
    /\ workerRun \subseteq Workers \X Bundles
    /\ worker \in [Workers -> {"absent", "active", "terminating"}]

DbInit ==
    /\ state = [b \in Bundles |-> "created"]
    /\ failure = [b \in Bundles |-> "none"]
    /\ onPreemptible = [b \in Bundles |-> FALSE]
    /\ workerRun = {}
    /\ worker = [w \in Workers |-> "absent"]

-----------------------------------------------------------------------------
(* Queries. *)

Exists(b) == state[b] # "deleted"

Claimants(b) == {w \in Workers : <<w, b>> \in workerRun}
Claimed(b) == Claimants(b) # {}

WithoutRunsOf(b) == workerRun \ (Workers \X {b})

-----------------------------------------------------------------------------
(* Transactions. *)

(* update_bundle with a new state, and with a failure message.  For a      *)
(* deleted bundle the metadata rows break their foreign key and nothing is *)
(* written.                                                                *)
UpdateState(b, s) ==
    /\ Exists(b)
    /\ state' = [state EXCEPT ![b] = s]
    /\ UNCHANGED <<failure, onPreemptible, workerRun, worker>>

UpdateStateAndFailure(b, s, f) ==
    /\ Exists(b)
    /\ state' = [state EXCEPT ![b] = s]
    /\ failure' = [failure EXCEPT ![b] = f]
    /\ UNCHANGED <<onPreemptible, workerRun, worker>>

(* Mutant: no worker_run row is inserted. *)
TransitionStartingNoRow(b, w) ==
    /\ Exists(b) /\ worker[w] = "active"
    /\ state' = [state EXCEPT ![b] = "starting"]
    /\ UNCHANGED <<failure, onPreemptible, workerRun, worker>>

(* transition_bundle_starting returns True: the bundle still exists and    *)
(* the worker row is there and not terminating.  The state of the bundle   *)
(* is not looked at.                                                       *)
TransitionStarting(b, w) ==
    /\ Exists(b)
    /\ worker[w] = "active"
    /\ state' = [state EXCEPT ![b] = "starting"]
    /\ workerRun' = workerRun \union {<<w, b>>}
    /\ UNCHANGED <<failure, onPreemptible, worker>>

(* Mutant: the worker_run row stays. *)
TransitionStagedKeepsRow(b) ==
    /\ Exists(b)
    /\ state' = [state EXCEPT ![b] = "staged"]
    /\ failure' = [failure EXCEPT ![b] = "none"]
    /\ onPreemptible' = [onPreemptible EXCEPT ![b] = FALSE]
    /\ UNCHANGED <<workerRun, worker>>

(* transition_bundle_staged: unconditional for a bundle that exists; all   *)
(* generated metadata is cleared and the worker_run row removed.           *)
TransitionStaged(b) ==
    /\ Exists(b)
    /\ state' = [state EXCEPT ![b] = "staged"]
    /\ failure' = [failure EXCEPT ![b] = "none"]
    /\ onPreemptible' = [onPreemptible EXCEPT ![b] = FALSE]
    /\ workerRun' = WithoutRunsOf(b)
    /\ UNCHANGED worker

(* transition_bundle_preparing returns True: the worker_run row fetched    *)
(* names the worker that asks.                                             *)
TransitionPreparing(b, w) ==
    /\ Exists(b)
    /\ w \in Claimants(b)
    /\ state' = [state EXCEPT ![b] = "preparing"]
    /\ onPreemptible' = [onPreemptible EXCEPT ![b] = (w \in PreemptibleWorkers)]
    /\ UNCHANGED <<failure, workerRun, worker>>

(* transition_bundle_running, for the state s the worker reports.  From    *)
(* WORKER_OFFLINE the worker_run row is inserted again: an existing row is *)
(* an IntegrityError, a worker without a row breaks the foreign key, and   *)
(* either rolls the whole transaction back.                                *)
TransitionRunning(b, w, s) ==
    /\ Exists(b)
    /\ state[b] = "worker_offline" => ~Claimed(b) /\ worker[w] # "absent"
    /\ state' = [state EXCEPT ![b] = s]
    /\ workerRun' = IF state[b] = "worker_offline"
                      THEN workerRun \union {<<w, b>>}
                      ELSE workerRun
    /\ UNCHANGED <<onPreemptible, worker>>

(* transition_bundle_finalizing: a failure message is written when the     *)
(* worker reports one, and an earlier one is left in place when it does    *)
(* not.                                                                    *)
RecordedFailure(b, f) == IF f = "none" THEN failure[b] ELSE f

(* bundle_checkin of one run reported as [bundle, state, failure].         *)
BundleCheckin(w, r) ==
    \/ /\ r.state = "staged"
       /\ TransitionStaged(r.bundle)
    \/ /\ r.state \in {"preparing", "running"}
       /\ TransitionRunning(r.bundle, w, r.state)
       /\ UNCHANGED failure
    \/ /\ r.state = "finalizing"
       /\ TransitionRunning(r.bundle, w, "finalizing")
       /\ failure' = [failure EXCEPT ![r.bundle] = RecordedFailure(r.bundle, r.failure)]

(* Mutant: the worker_run row stays. *)
TransitionWorkerOfflineKeepsRow(b, preemptibleCopy) ==
    /\ state' = IF state[b] \in {"running", "preparing", "finalizing"}
                  THEN [state EXCEPT ![b] = IF preemptibleCopy THEN "staged" ELSE "worker_offline"]
                  ELSE state
    /\ UNCHANGED <<failure, onPreemptible, workerRun, worker>>

(* Mutant: only runs in RUNNING are taken from their worker. *)
TransitionWorkerOfflineRunningOnly(b, preemptibleCopy) ==
    IF state[b] = "running"
      THEN /\ state' = [state EXCEPT
                          ![b] = IF preemptibleCopy THEN "staged" ELSE "worker_offline"]
           /\ workerRun' = WithoutRunsOf(b)
           /\ UNCHANGED <<failure, onPreemptible, worker>>
      ELSE UNCHANGED dbVars

(* transition_bundle_worker_offline(bundle): the state is checked inside   *)
(* the transaction, on_preemptible_worker comes from the caller's copy of  *)
(* the bundle.                                                             *)
TransitionWorkerOffline(b, preemptibleCopy) ==
    IF state[b] \in {"running", "preparing", "finalizing"}
      THEN /\ state' = [state EXCEPT
                          ![b] = IF preemptibleCopy THEN "staged" ELSE "worker_offline"]
           /\ workerRun' = WithoutRunsOf(b)
           /\ UNCHANGED <<failure, onPreemptible, worker>>
      ELSE UNCHANGED dbVars

(* Mutant: exit codes are ignored. *)
VerdictKillsOnly(failureCopy) == IF failureCopy = "killed" THEN "killed" ELSE "ready"

(* transition_bundle_finished(bundle): the verdict comes from the caller's *)
(* copy of the failure message.                                            *)
Verdict(failureCopy) ==
    CASE failureCopy = "none" -> "ready"
      [] failureCopy = "failed" -> "failed"
      [] failureCopy = "killed" -> "killed"

TransitionFinished(b, failureCopy) ==
    /\ Exists(b)
    /\ state' = [state EXCEPT ![b] = Verdict(failureCopy)]
    /\ workerRun' = WithoutRunsOf(b)
    /\ UNCHANGED <<failure, onPreemptible, worker>>

(* worker_checkin: insert or update the worker row. *)
WorkerCheckin(w, terminating) ==
    /\ worker' = [worker EXCEPT ![w] = IF terminating THEN "terminating" ELSE "active"]
    /\ UNCHANGED <<state, failure, onPreemptible, workerRun>>

(* worker_cleanup: the worker row and all its worker_run rows go. *)
WorkerCleanup(w) ==
    /\ worker' = [worker EXCEPT ![w] = "absent"]
    /\ workerRun' = workerRun \ ({w} \X Bundles)
    /\ UNCHANGED <<state, failure, onPreemptible>>

(* BundleModel.delete_bundles: metadata, worker_run rows and bundle row. *)
DeleteBundle(b) ==
    /\ state' = [state EXCEPT ![b] = "deleted"]
    /\ failure' = [failure EXCEPT ![b] = "none"]
    /\ onPreemptible' = [onPreemptible EXCEPT ![b] = FALSE]
    /\ workerRun' = WithoutRunsOf(b)
    /\ UNCHANGED worker
=============================================================================
