--------------------------- MODULE BundleManager ---------------------------
(***************************************************************************)
(* The bundle manager (codalab/server/bundle_manager.py): one process, one *)
(* thread for run bundles, which repeats _run_iteration.  Each phase reads *)
(* a list of bundles with batch_get_bundles and then writes for one bundle *)
(* after another, while workers check in and users kill and delete; bmList *)
(* holds the copies that are still to be processed.                        *)
(*                                                                         *)
(* A phase that finds nothing to do is not a step, and a phase may have    *)
(* read its empty list long before the next one reads: from "idle", any    *)
(* phase may be the next that finds work.  Elapsed time is a choice, as is *)
(* the answer of WorkerInfoAccessor.is_running: a copy was read some time  *)
(* before it is compared with the clock, and the accessor's rows are up to *)
(* worker_timeout_seconds old.                                             *)
(***************************************************************************)
EXTENDS Mailbox

CONSTANTS
    Deps,         \* Deps[b]: the parents of bundle b
    AllowFailed,  \* bundles created with --allow-failed-dependencies
    Faults        \* the kinds of disturbance that may happen

(* Faults of the environment, timeouts that pass, and requests of users.   *)
FaultKinds == {"timeout", "send", "lost_ack", "lost_message", "bm_abort",
               "unrunnable", "unresponsive", "kill", "quota", "delete",
               "checkin_lost", "upload", "crash", "sigterm", "restage"}

ASSUME FaultsAssumption == Faults \subseteq FaultKinds
ASSUME DepsAssumption == Deps \in [Bundles -> SUBSET Bundles]
ASSUME AllowFailedAssumption == AllowFailed \subseteq Bundles

VARIABLES
    bmPc,       \* the phase of _run_iteration
    bmList,     \* copies of the bundles this phase still has to process
    bmCurrent,  \* {<<worker, bundle>>} while a message for it is being sent
    bmTried     \* the workers tried for the bundle being dispatched

bmVars == <<bmPc, bmList, bmCurrent, bmTried>>

Phase == {"idle", "stage", "restage", "offline", "acknowledge",
          "finalize", "admit", "dispatch", "send", "unresponsive"}
Plan == {"none", "stage", "fail"}

(* What batch_get_bundles returns for a bundle, and what _stage_bundles    *)
(* then decides to do with it.                                             *)
BundleCopy == [bundle : Bundles, failure : Failure, onPreemptible : BOOLEAN, plan : Plan]

Copy(b, p) == [bundle |-> b, failure |-> failure[b],
               onPreemptible |-> onPreemptible[b], plan |-> p]
CopiesIn(states) == {Copy(b, "none") : b \in {x \in Bundles : state[x] \in states}}

BmTypeOK ==
    /\ bmPc \in Phase
    /\ bmList \subseteq BundleCopy
    /\ bmCurrent \subseteq Workers \X Bundles
    /\ bmTried \subseteq Workers

BmInit ==
    /\ bmPc = "idle"
    /\ bmList = {}
    /\ bmCurrent = {}
    /\ bmTried = {}

(* A phase reads its list ... *)
Enter(phase, copies) ==
    /\ bmPc = "idle"
    /\ copies # {}
    /\ bmPc' = phase
    /\ bmList' = copies
    /\ UNCHANGED <<bmCurrent, bmTried, dbVars, mailbox>>

(* ... and is done with one copy after another. *)
Done(c) ==
    /\ c \in bmList
    /\ bmList' = bmList \ {c}
    /\ bmPc' = IF bmList = {c} THEN "idle" ELSE bmPc
    /\ bmTried' = {}
    /\ UNCHANGED <<bmCurrent, mailbox>>

Sending(c) == \E w \in Workers : <<w, c.bundle>> \in bmCurrent

-----------------------------------------------------------------------------
(* _stage_bundles *)

AcceptableStates(b) == IF b \in AllowFailed THEN FinalStates ELSE {"ready"}

(* Mutant: a parent that has not failed is as good as a READY one. *)
StagePlanNoWait(b) ==
    IF \E p \in Deps[b] : ~Exists(p) \/ state[p] \in {"failed", "killed"}
      THEN "fail" ELSE "stage"

StagePlan(b) ==
    CASE \E p \in Deps[b] : ~Exists(p) -> "fail"
      [] b \notin AllowFailed /\ \E p \in Deps[b] : state[p] \in {"failed", "killed"} -> "fail"
      [] OTHER -> IF \A p \in Deps[b] : state[p] \in AcceptableStates(b)
                    THEN "stage" ELSE "none"

ReadCreated ==
    /\ Enter("stage",
             {Copy(b, StagePlan(b)) : b \in {x \in Bundles :
                                               state[x] = "created" /\ StagePlan(x) # "none"}})

(* All bundles to fail are written before the ones to stage. *)
FailUnstageable(c) ==
    /\ bmPc = "stage" /\ c.plan = "fail"
    /\ Done(c)
    /\ UpdateStateAndFailure(c.bundle, "failed", "failed")

StageReady(c) ==
    /\ bmPc = "stage" /\ c.plan = "stage"
    /\ \A d \in bmList : d.plan # "fail"
    /\ Done(c)
    /\ UpdateState(c.bundle, "staged")

-----------------------------------------------------------------------------
(* _cleanup_dead_workers: before the first phase of scheduling and again   *)
(* for every bundle dispatched.                                            *)

(* checkin_time is the one of the fetch: the worker may have checked in    *)
(* since, or may be gone already.                                          *)
CleanupDeadWorker(w) ==
    /\ bmPc \in {"idle", "dispatch"}
    /\ worker[w] # "absent"
    /\ WorkerCleanup(w)
    /\ UNCHANGED <<bmPc, bmList, bmCurrent, bmTried, mailbox>>

-----------------------------------------------------------------------------
(* _restage_stuck_starting_bundles *)

ReadStarting == Enter("restage", CopiesIn({"starting"}))

RestageUnclaimed(c) ==
    /\ bmPc = "restage"
    /\ ~Claimed(c.bundle)
    /\ Done(c)
    /\ TransitionStaged(c.bundle)

(* Five minutes have passed since last_updated, or the accessor had not    *)
(* yet seen the claim.                                                     *)
RestageStuck(c) ==
    /\ bmPc = "restage"
    /\ Claimed(c.bundle)
    /\ Done(c)
    /\ TransitionStaged(c.bundle)

KeepStarting(c) ==
    /\ bmPc = "restage"
    /\ Done(c)
    /\ UNCHANGED dbVars

-----------------------------------------------------------------------------
(* _bring_offline_stuck_running_bundles *)

ReadActive == Enter("offline", CopiesIn({"running", "preparing"}))

OfflineUnclaimedRun(c) ==
    /\ bmPc = "offline"
    /\ ~Claimed(c.bundle)
    /\ Done(c)
    /\ TransitionWorkerOffline(c.bundle, c.onPreemptible)

(* worker_timeout_seconds have passed since last_updated, or the accessor  *)
(* had not yet seen the claim.                                             *)
BringOffline(c) ==
    /\ bmPc = "offline"
    /\ Claimed(c.bundle)
    /\ Done(c)
    /\ TransitionWorkerOffline(c.bundle, c.onPreemptible)

KeepRunning(c) ==
    /\ bmPc = "offline"
    /\ Done(c)
    /\ UNCHANGED dbVars

-----------------------------------------------------------------------------
(* _acknowledge_recently_finished_bundles *)

ReadFinalizing == Enter("acknowledge", CopiesIn({"finalizing"}))

FinalizingUnclaimed(c) ==
    /\ bmPc = "acknowledge"
    /\ ~Claimed(c.bundle)
    /\ Done(c)
    /\ TransitionWorkerOffline(c.bundle, c.onPreemptible)

(* mark_finalized goes to the worker of the worker_run row fetched; the    *)
(* transaction that finishes the bundle comes after the acknowledgement.   *)
WriteMarkFinalized(c, w) ==
    /\ bmPc = "acknowledge"
    /\ c \in bmList
    /\ w \in Claimants(c.bundle)
    /\ Deliver(w, "mark_finalized", c.bundle)
    /\ UNCHANGED <<bmList, bmTried, dbVars>>

SendMarkFinalized(c, w) ==
    /\ WriteMarkFinalized(c, w)
    /\ bmPc' = "finalize"
    /\ bmCurrent' = {<<w, c.bundle>>}

(* Written, but not acknowledged: tried again until the timeout. *)
MarkFinalizedAckLost(c, w) ==
    /\ "lost_ack" \in Faults
    /\ WriteMarkFinalized(c, w)
    /\ UNCHANGED <<bmPc, bmCurrent>>

MarkFinalizedFails(c) ==
    /\ Faults \intersect {"send", "lost_ack"} # {}
    /\ bmPc = "acknowledge"
    /\ Claimed(c.bundle)
    /\ Done(c)
    /\ UNCHANGED dbVars

FinishBundle(c) ==
    /\ bmPc = "finalize" /\ Sending(c)
    /\ c \in bmList
    /\ TransitionFinished(c.bundle, c.failure)
    /\ bmPc' = IF bmList = {c} THEN "idle" ELSE "acknowledge"
    /\ bmList' = bmList \ {c}
    /\ bmCurrent' = {}
    /\ UNCHANGED <<bmTried, mailbox>>

-----------------------------------------------------------------------------
(* _get_staged_bundles_to_run and _schedule_run_bundles_on_workers.  Which *)
(* workers have the resources, and in which order they are tried, is left  *)
(* open: any worker of the accessor's list is a candidate.                 *)

ReadStaged == Enter("admit", CopiesIn({"staged"}))

FailUnrunnable(c) ==
    /\ bmPc = "admit"
    /\ "unrunnable" \in Faults
    /\ Done(c)
    /\ UpdateStateAndFailure(c.bundle, "failed", "failed")

BeginDispatch ==
    /\ bmPc = "admit"
    /\ bmPc' = "dispatch"
    /\ UNCHANGED <<bmList, bmCurrent, bmTried, dbVars, mailbox>>

(* _try_start_bundle up to the send: transition_bundle_starting, then      *)
(* workers.set_starting.                                                   *)
TryStart(c, w) ==
    /\ bmPc = "dispatch"
    /\ c \in bmList
    /\ w \notin bmTried
    /\ TransitionStarting(c.bundle, w)
    /\ bmPc' = "send"
    /\ bmCurrent' = {<<w, c.bundle>>}
    /\ bmTried' = bmTried \union {w}
    /\ UNCHANGED <<bmList, mailbox>>

WriteRun(c, w) ==
    /\ bmPc = "send" /\ <<w, c.bundle>> \in bmCurrent
    /\ c \in bmList
    /\ Deliver(w, "run", c.bundle)
    /\ UNCHANGED dbVars

(* Mutant: the loop over the workers goes on after a success. *)
SendRunNoBreak(c, w) ==
    /\ WriteRun(c, w)
    /\ bmPc' = "dispatch"
    /\ bmCurrent' = {}
    /\ UNCHANGED <<bmList, bmTried>>

SendRun(c, w) ==
    /\ WriteRun(c, w)
    /\ bmPc' = IF bmList = {c} THEN "idle" ELSE "dispatch"
    /\ bmList' = bmList \ {c}
    /\ bmCurrent' = {}
    /\ bmTried' = {}

RunAckLost(c, w) ==
    /\ "lost_ack" \in Faults
    /\ WriteRun(c, w)
    /\ UNCHANGED <<bmPc, bmList, bmCurrent, bmTried>>

(* Mutant: the bundle is not staged again before the next worker is tried. *)
SendRunFailsKeepsClaim(c) ==
    /\ Faults \intersect {"send", "lost_ack"} # {}
    /\ bmPc = "send" /\ Sending(c)
    /\ c \in bmList
    /\ bmPc' = "dispatch"
    /\ bmCurrent' = {}
    /\ UNCHANGED <<bmList, bmTried, mailbox, dbVars>>

(* The send times out: back to STAGED, and the next worker is tried. *)
SendRunFails(c) ==
    /\ Faults \intersect {"send", "lost_ack"} # {}
    /\ bmPc = "send" /\ Sending(c)
    /\ c \in bmList
    /\ TransitionStaged(c.bundle)
    /\ bmPc' = "dispatch"
    /\ bmCurrent' = {}
    /\ UNCHANGED <<bmList, bmTried, mailbox>>

(* No candidate could start the bundle: it waits for the next iteration. *)
SkipStaged(c) ==
    /\ bmPc = "dispatch"
    /\ Done(c)
    /\ UNCHANGED dbVars

-----------------------------------------------------------------------------
(* _fail_unresponsive_bundles *)

ReadUnresponsive ==
    /\ "unresponsive" \in Faults
    /\ Enter("unresponsive", CopiesIn({"staged", "running"}))

(* Created more than BUNDLE_TIMEOUT_DAYS ago. *)
FailUnresponsive(c) ==
    /\ bmPc = "unresponsive"
    /\ Done(c)
    /\ UpdateStateAndFailure(c.bundle, "failed", "failed")

KeepResponsive(c) ==
    /\ bmPc = "unresponsive"
    /\ Done(c)
    /\ UNCHANGED dbVars

(* An exception leaves the iteration (run() catches it), and a restart of  *)
(* the process loses as much: lists and accessor are local variables.      *)
LeaveIteration ==
    /\ bmPc' = "idle"
    /\ bmList' = {}
    /\ bmCurrent' = {}
    /\ bmTried' = {}
    /\ UNCHANGED <<dbVars, mailbox>>

(* The write for a bundle that has been deleted breaks a constraint. *)
AbortOnMissing ==
    /\ \E c \in bmList : ~Exists(c.bundle)
    /\ LeaveIteration

AbortIteration ==
    /\ "bm_abort" \in Faults
    /\ bmPc # "idle"
    /\ LeaveIteration

-----------------------------------------------------------------------------
BmNext ==
    \/ ReadCreated \/ ReadStarting \/ ReadActive \/ ReadFinalizing \/ ReadStaged
    \/ BeginDispatch \/ ReadUnresponsive \/ AbortOnMissing
    \/ \E c \in bmList :
         \/ FailUnstageable(c) \/ StageReady(c)
         \/ RestageUnclaimed(c) \/ KeepStarting(c)
         \/ OfflineUnclaimedRun(c) \/ KeepRunning(c)
         \/ FinalizingUnclaimed(c) \/ FinishBundle(c)
         \/ \E w \in Workers : SendMarkFinalized(c, w) \/ TryStart(c, w) \/ SendRun(c, w)
         \/ SkipStaged(c) \/ KeepResponsive(c)

BmTimeout ==
    \/ \E w \in Workers : CleanupDeadWorker(w)
    \/ \E c \in bmList : RestageStuck(c) \/ BringOffline(c)

BmFault ==
    \/ AbortIteration
    \/ \E c \in bmList :
         \/ MarkFinalizedFails(c) \/ SendRunFails(c)
         \/ FailUnrunnable(c) \/ FailUnresponsive(c)
         \/ \E w \in Workers : MarkFinalizedAckLost(c, w) \/ RunAckLost(c, w)
=============================================================================
