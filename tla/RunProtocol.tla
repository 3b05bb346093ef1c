---------------------------- MODULE RunProtocol ----------------------------
(***************************************************************************)
(* A run bundle from created to ready, failed or killed: the bundle        *)
(* manager, the REST handlers and the workers around the one database,     *)
(* with every interleaving of their transactions and messages.             *)
(***************************************************************************)
EXTENDS Worker

CONSTANT MaxFaults   \* bound: disturbances in one behaviour

ASSUME MaxFaultsAssumption == MaxFaults \in Nat

VARIABLES
    faults,      \* disturbances so far
    succeeded,   \* history: bundles of which a run ended without a failure
    reached      \* history: <<parent, final state it has been in>>

history == <<succeeded, reached>>

vars == <<dbVars, mailbox, bmVars, restVars, workerVars, faults, history>>

Init ==
    /\ DbInit /\ MailboxInit /\ BmInit /\ RestInit /\ WorkerInit
    /\ faults = 0
    /\ succeeded = {}
    /\ reached = {}

Parents == UNION {Deps[b] : b \in Bundles}

Record ==
    /\ succeeded' = succeeded \union
         {b \in Bundles : \E w \in Workers : /\ runs'[w][b].stage = "finalizing"
                                             /\ runs'[w][b].failure = "none"}
    /\ reached' = reached \union {<<p, state'[p]>> : p \in {q \in Parents : state'[q] \in FinalStates}}

(* The timeouts of the bundle manager are long against what they wait for. *)
(* They pass when it can no longer happen; when they pass although it      *)
(* could, on a slow network or an overloaded host, that is a disturbance.  *)
WorkerGone(w) == wstate[w] = "down" /\ \A c \in checkins : c.from # w

RunMessageGone(b) ==
    state[b] = "starting" /\ \A m \in mailbox : m.bundle = b => m.type # "run"

NobodyReports(b) ==
    /\ \A w \in Workers : wstate[w] # "down" => ~HasRun(w, b)
    /\ \A c \in checkins : \A r \in c.runs : r.bundle # b

DueTimeout ==
    \/ \E w \in Workers : WorkerGone(w) /\ CleanupDeadWorker(w)
    \/ \E c \in bmList :
         \/ RunMessageGone(c.bundle) /\ RestageStuck(c)
         \/ NobodyReports(c.bundle) /\ BringOffline(c)

Step ==
    \/ (BmNext \/ DueTimeout) /\ UNCHANGED <<restVars, workerVars>>
    \/ RestNext /\ UNCHANGED <<bmVars, workerVars>>
    \/ WorkerNext /\ UNCHANGED bmVars

Disturbance ==
    \/ (BmFault \/ ("timeout" \in Faults /\ BmTimeout)) /\ UNCHANGED <<restVars, workerVars>>
    \/ RestFault /\ UNCHANGED <<bmVars, workerVars>>
    \/ WorkerFault /\ UNCHANGED bmVars

Next ==
    /\ \/ Step /\ UNCHANGED faults
       \/ Disturbance /\ faults < MaxFaults /\ faults' = faults + 1
    /\ Record

Spec == Init /\ [][Next]_vars

-----------------------------------------------------------------------------
(* Fairness.  run() repeats the iteration for ever and catches exceptions, *)
(* so every phase comes back; a timeout that is due passes in some         *)
(* iteration; handlers and uploads end; a worker that is up keeps checking *)
(* in, takes its messages and moves its runs on, and jobs end.  Strong     *)
(* fairness stands for "at every turn of the loop", as other steps of the  *)
(* same loop disable the step in between.  A worker that is down may stay  *)
(* down.                                                                   *)
ByBm(A) == A /\ UNCHANGED <<restVars, workerVars, faults>> /\ Record
ByRest(A) == A /\ UNCHANGED <<bmVars, workerVars, faults>> /\ Record
ByWorker(A) == A /\ UNCHANGED <<bmVars, faults>> /\ Record

HandleCheckin(w, abandoned) ==
    \E c \in checkins :
      /\ c.from = w /\ c.abandoned = abandoned
      /\ RegisterWorker(c) \/ \E r \in c.runs : HandleReport(c, r) \/ ReportRejected(c, r)

EndUpload(w) == \E u \in uploads : u.from = w /\ (UploadForbidden(u) \/ UploadSucceeds(u))

TakeMessage(w) ==
    \E m \in mailbox : \/ StartGranted(w, m) \/ StartRefused(w, m) \/ DropMessage(w, m)
                       \/ ReceiveKill(w, m) \/ ReceiveMarkFinalized(w, m)

MoveRun(w, b) ==
    \/ BeginRunning(w, b) \/ EndPreparing(w, b) \/ EndRunning(w, b)
    \/ Restage(w, b) \/ ForgetFinalized(w, b)
    \/ UploadBegin(w, b) \/ EndUploading(w, b)

Fairness ==
    /\ WF_vars(ByBm(bmPc # "idle" /\ BmNext))
    /\ SF_vars(ByBm(ReadCreated)) /\ SF_vars(ByBm(ReadStarting))
    /\ SF_vars(ByBm(ReadActive)) /\ SF_vars(ByBm(ReadFinalizing))
    /\ SF_vars(ByBm(ReadStaged))
    /\ SF_vars(ByBm(\E c \in bmList, w \in Workers : TryStart(c, w)))
    /\ SF_vars(ByBm(DueTimeout))
    /\ SF_vars(ByBm(\E c \in bmList : RestageUnclaimed(c) \/ OfflineUnclaimedRun(c)))
    /\ \A w \in Workers :
         /\ \A a \in BOOLEAN : WF_vars(ByRest(HandleCheckin(w, a)))
         /\ WF_vars(ByRest(EndUpload(w)))
         /\ SF_vars(ByWorker(SendCheckin(w)))
         /\ SF_vars(ByWorker(TakeMessage(w)))
         /\ WF_vars(ByWorker(SaveState(w)))
         /\ SF_vars(ByWorker(CheckTermination(w)))
         /\ \A b \in Bundles : SF_vars(ByWorker(MoveRun(w, b)))

FairSpec == Spec /\ Fairness

-----------------------------------------------------------------------------
(* The shape of the tables, of the messages and requests under way and of  *)
(* what each process keeps between two of its steps.                       *)
TypeOK ==
    /\ DbTypeOK /\ MailboxTypeOK /\ BmTypeOK /\ RestTypeOK /\ WorkerTypeOK
    /\ faults \in 0..MaxFaults
    /\ succeeded \subseteq Bundles
    /\ reached \subseteq Bundles \X FinalStates

(* Never two worker_run rows for one bundle.  The table has no constraint  *)
(* that says so, get_bundle_worker and transition_bundle_preparing look at *)
(* the first row they fetch, and transition_bundle_starting inserts a row  *)
(* without looking for another: only the order in which the bundle manager *)
(* and the check-ins of late workers work makes it true.                   *)
OneClaim ==
    \A b \in Bundles : \A v, w \in Workers :
      <<v, b>> \in workerRun /\ <<w, b>> \in workerRun => v = w

(* A bundle in WORKER_OFFLINE has no worker_run row: what                  *)
(* transition_bundle_running calls a panic ("we should never get to this   *)
(* point") and what a worker needs to be able to resume the bundle.        *)
OfflineUnclaimed ==
    \A b \in Bundles : state[b] = "worker_offline" => ~Claimed(b)

(* A bundle that waits to be staged or dispatched, or is deleted, has no   *)
(* worker_run row ("STAGED, no worker_run DB entry" in                     *)
(* _schedule_run_bundles), however many check-ins, kills and deletions     *)
(* crossed the steps that brought it there.                                *)
StagedUnclaimed ==
    \A b \in Bundles : state[b] \in {"created", "staged", "deleted"} => ~Claimed(b)

(* What keeps OneClaim true: the copies the bundle manager took to stage   *)
(* or dispatch bundles are stale, but stay right in what matters.  Until   *)
(* the manager itself claims it, no check-in, kill, deletion or cleanup    *)
(* gives a bundle in its list a worker_run row, or brings it to            *)
(* WORKER_OFFLINE, from where a check-in could insert one.                 *)
QueuedUnclaimed ==
    /\ \A c, d \in bmList : c.bundle = d.bundle => c = d
    /\ \A p, q \in bmCurrent : p = q
    /\ bmPc \in {"stage", "admit", "dispatch", "send"} =>
         \A c \in bmList : /\ state[c.bundle] # "worker_offline"
                           /\ Claimed(c.bundle) => bmPc = "send" /\ Sending(c)

(* A READY bundle had a run that ended without a failure, although the     *)
(* verdict of transition_bundle_finished is taken from a copy of the       *)
(* metadata that was read before the acknowledgement was sent.             *)
ReadyMeansRan ==
    \A b \in Bundles : state[b] = "ready" => b \in succeeded

(* A bundle leaves CREATED for a run only after each of its dependencies   *)
(* was in a state it accepts, whatever happened to them since              *)
(* _stage_bundles read them.                                               *)
DependenciesFirst ==
    \A b \in Bundles :
      state[b] \notin {"created", "failed", "killed", "deleted"} =>
        \A p \in Deps[b] : \E s \in AcceptableStates(b) : <<p, s>> \in reached

(* Without disturbances the table of _schedule_run_bundles holds: a bundle *)
(* that is STARTING, PREPARING or RUNNING has a worker_run row, and from   *)
(* PREPARING on that worker has the run in its memory.                     *)
ActiveIsClaimed ==
    faults = 0 =>
      \A b \in Bundles :
        /\ state[b] \in {"starting", "preparing", "running"} => Claimed(b)
        /\ state[b] \in {"preparing", "running"} => \A w \in Claimants(b) : HasRun(w, b)

(* Without disturbances no bundle is run by two workers, or by one worker  *)
(* after the other as long as the first keeps the run.  With preemptible   *)
(* workers even this fails: see FinalIsFinished.                           *)
RunsOnOneWorker ==
    faults = 0 =>
      \A b \in Bundles : \A v, w \in Workers : HasRun(v, b) /\ HasRun(w, b) => v = w

(* worker_run is a table of exclusive leases: RunProtocol implements       *)
(* RunClaims.                                                              *)
WaitingStates == {"created", "staged", "worker_offline", "deleted"}

Claims == INSTANCE RunClaims WITH
    claims <- workerRun,
    waiting <- {b \in Bundles : state[b] \in WaitingStates}

ClaimsSpec == Claims!Spec

(* "Bundles stuck not running will eventually automatically be moved to a  *)
(* state where they can be deleted" (delete_bundles): no bundle stays in   *)
(* an active state for ever, whatever messages, check-ins and workers are  *)
(* lost.                                                                   *)
EventuallyDeletable == \A b \in Bundles : []<>(state[b] \notin ActiveStates)

(* Without disturbances every bundle whose dependencies come to rest in    *)
(* final states gets to one itself.  (A parent may be reopened and left in *)
(* WORKER_OFFLINE for good, see FinalIsFinished in DocumentedClaims: its   *)
(* children then stay in CREATED.)                                         *)
EventuallyFinal ==
    \A b \in Bundles :
      (\A p \in Deps[b] : <>[](state[p] \in FinalStates)) => <>(state[b] \in FinalStates)
=============================================================================
