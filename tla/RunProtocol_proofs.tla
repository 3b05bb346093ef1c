------------------------- MODULE RunProtocol_proofs -------------------------
(***************************************************************************)
(* Proofs about RunProtocol, for any sets of bundles and workers, any      *)
(* dependencies and any disturbances: its variables keep their types, the  *)
(* worker_run table holds one row per bundle and none for a bundle that    *)
(* waits, and RunProtocol implements RunClaims.  The second half is about  *)
(* behaviours without disturbances: there a bundle runs on one worker, the *)
(* one of its row.                                                         *)
(*                                                                         *)
(* The argument goes by transaction first and by actor second.  Every      *)
(* transaction of BundleModel keeps ClaimsOK and is a step of RunClaims,   *)
(* most of them without a condition (the lemmas of the first part).  The   *)
(* two that insert a row need one: for transition_bundle_running it is in  *)
(* the transaction itself, for transition_bundle_starting it is the        *)
(* invariant QueuedUnclaimed of the bundle manager's list, which the REST  *)
(* server and the workers keep because their transactions are Calm.        *)
(* Without disturbances the state of a bundle determines which messages,   *)
(* reports and runs of it there are (InCourse); what the bundle manager    *)
(* has read and what a worker has reported stay true until they are used.  *)
(***************************************************************************)
EXTENDS RunProtocol, TLAPS

WaitingUnclaimed ==
    \A b \in Bundles : state[b] \in WaitingStates => ~Claimed(b)

ClaimsOK == DbTypeOK /\ OneClaim /\ WaitingUnclaimed

(* A step that gives no bundle a row or the state WORKER_OFFLINE, except   *)
(* that a bundle in WORKER_OFFLINE may get a row.                          *)
Calm ==
    \A b \in Bundles :
      /\ Claimed(b)' /\ ~Claimed(b) => state[b] = "worker_offline"
      /\ state'[b] = "worker_offline" => state[b] = "worker_offline"

ClaimsStep == [Claims!Next]_(Claims!vars)

-----------------------------------------------------------------------------
(* Transactions that write no worker_run row. *)

(* update_bundle to a state in which nobody waits is a Report. *)
LEMMA UpdateStateReport ==
  ASSUME ClaimsOK, NEW b \in Bundles, NEW s \in BundleState \ WaitingStates,
         state' = [state EXCEPT ![b] = s],
         failure' \in [Bundles -> Failure], onPreemptible' \in [Bundles -> BOOLEAN],
         UNCHANGED <<workerRun, worker>>
  PROVE  ClaimsOK' /\ Calm /\ ClaimsStep
<1>1. DbTypeOK'
  BY DEF ClaimsOK, DbTypeOK, WaitingStates, BundleState
<1>2. OneClaim'
  BY DEF ClaimsOK, OneClaim
<1>3. WaitingUnclaimed'
  BY DEF ClaimsOK, DbTypeOK, WaitingUnclaimed, Claimed, Claimants
<1>4. Calm
  BY DEF ClaimsOK, DbTypeOK, Calm, Claimed, Claimants, WaitingStates
<1>5. Claims!Report(b)
  BY DEF Claims!Report, ClaimsOK, DbTypeOK
<1>6. QED
  BY <1>1, <1>2, <1>3, <1>4, <1>5 DEF ClaimsOK, ClaimsStep, Claims!Next

(* A worker that checks in writes its own row only. *)
LEMMA WorkerCheckinStutters ==
  ASSUME ClaimsOK, NEW w \in Workers, NEW t \in BOOLEAN, WorkerCheckin(w, t)
  PROVE  ClaimsOK' /\ Calm /\ ClaimsStep
<1>1. DbTypeOK'
  BY DEF ClaimsOK, DbTypeOK, WorkerCheckin
<1>2. OneClaim' /\ WaitingUnclaimed' /\ Calm
  BY DEF ClaimsOK, OneClaim, WaitingUnclaimed, Claimed, Claimants, Calm, WorkerCheckin
<1>3. UNCHANGED Claims!vars
  BY DEF Claims!vars, WorkerCheckin
<1>4. QED
  BY <1>1, <1>2, <1>3 DEF ClaimsOK, ClaimsStep

-----------------------------------------------------------------------------
(* Transactions that delete all worker_run rows of a bundle. *)

(* Deleting the rows of a bundle is a Release, whatever its new state. *)
LEMMA ReleaseKeepsClaims ==
  ASSUME ClaimsOK, NEW b \in Bundles, NEW s \in BundleState,
         state' = [state EXCEPT ![b] = s],
         failure' \in [Bundles -> Failure], onPreemptible' \in [Bundles -> BOOLEAN],
         workerRun' = WithoutRunsOf(b), UNCHANGED worker
  PROVE  /\ ClaimsOK' /\ ClaimsStep
         /\ ~Claimed(b)'
         /\ \A c \in Bundles : Claimed(c)' => Claimed(c)
<1>1. DbTypeOK'
  BY DEF ClaimsOK, DbTypeOK, WithoutRunsOf
<1>2. OneClaim'
  BY DEF ClaimsOK, OneClaim, WithoutRunsOf
<1>3. ~Claimed(b)' /\ \A c \in Bundles : Claimed(c)' => Claimed(c)
  BY DEF Claimed, Claimants, WithoutRunsOf
<1>4. WaitingUnclaimed'
  BY <1>3 DEF ClaimsOK, DbTypeOK, WaitingUnclaimed
<1>5. Claims!Release(b)
  BY DEF Claims!Release, ClaimsOK, DbTypeOK, WithoutRunsOf
<1>6. QED
  BY <1>1, <1>2, <1>3, <1>4, <1>5 DEF ClaimsOK, ClaimsStep, Claims!Next

(* transition_bundle_staged leaves a STAGED bundle without a row. *)
LEMMA StagedReleases ==
  ASSUME ClaimsOK, NEW b \in Bundles, TransitionStaged(b)
  PROVE  /\ ClaimsOK' /\ Calm /\ ClaimsStep
         /\ ~Claimed(b)' /\ state'[b] = "staged"
         /\ \A c \in Bundles : Claimed(c)' => Claimed(c)
<1>1. /\ "staged" \in BundleState
      /\ failure' \in [Bundles -> Failure] /\ onPreemptible' \in [Bundles -> BOOLEAN]
  BY DEF ClaimsOK, DbTypeOK, TransitionStaged, Failure, BundleState
<1>2. /\ ClaimsOK' /\ ClaimsStep
      /\ ~Claimed(b)'
      /\ \A c \in Bundles : Claimed(c)' => Claimed(c)
  BY <1>1, ReleaseKeepsClaims DEF TransitionStaged
<1>3. state'[b] = "staged" /\ Calm
  BY <1>2 DEF ClaimsOK, DbTypeOK, TransitionStaged, Calm
<1>4. QED
  BY <1>2, <1>3

(* transition_bundle_finished ends the lease in a final state. *)
LEMMA FinishedReleases ==
  ASSUME ClaimsOK, NEW b \in Bundles, NEW f \in Failure, TransitionFinished(b, f)
  PROVE  ClaimsOK' /\ ClaimsStep
<1>1. Verdict(f) \in BundleState
  BY DEF Verdict, Failure, BundleState, FinalStates
<1>2. failure' \in [Bundles -> Failure] /\ onPreemptible' \in [Bundles -> BOOLEAN]
  BY DEF ClaimsOK, DbTypeOK, TransitionFinished
<1>3. QED
  BY <1>1, <1>2, ReleaseKeepsClaims DEF TransitionFinished

(* delete_bundles ends the lease with the bundle. *)
LEMMA DeleteReleases ==
  ASSUME ClaimsOK, NEW b \in Bundles, DeleteBundle(b)
  PROVE  ClaimsOK' /\ Calm /\ ClaimsStep
<1>1. /\ "deleted" \in BundleState
      /\ failure' \in [Bundles -> Failure] /\ onPreemptible' \in [Bundles -> BOOLEAN]
  BY DEF ClaimsOK, DbTypeOK, DeleteBundle, Failure, BundleState
<1>2. /\ ClaimsOK' /\ ClaimsStep
      /\ \A c \in Bundles : Claimed(c)' => Claimed(c)
  BY <1>1, ReleaseKeepsClaims DEF DeleteBundle
<1>3. Calm
  BY <1>2 DEF ClaimsOK, DbTypeOK, DeleteBundle, Calm
<1>4. QED
  BY <1>2, <1>3

(* transition_bundle_worker_offline ends the lease, or does nothing. *)
LEMMA WorkerOfflineReleases ==
  ASSUME ClaimsOK, NEW b \in Bundles, NEW p \in BOOLEAN, TransitionWorkerOffline(b, p)
  PROVE  ClaimsOK' /\ ClaimsStep
<1>1. CASE state[b] \in {"running", "preparing", "finalizing"}
  <2>1. PICK s \in BundleState : state' = [state EXCEPT ![b] = s]
    BY <1>1 DEF TransitionWorkerOffline, BundleState
  <2>2. failure' \in [Bundles -> Failure] /\ onPreemptible' \in [Bundles -> BOOLEAN]
    BY <1>1 DEF ClaimsOK, DbTypeOK, TransitionWorkerOffline
  <2>3. QED
    BY <1>1, <2>1, <2>2, ReleaseKeepsClaims DEF TransitionWorkerOffline
<1>2. CASE state[b] \notin {"running", "preparing", "finalizing"}
  <2>1. UNCHANGED dbVars
    BY <1>2 DEF TransitionWorkerOffline
  <2>2. QED
    BY <2>1 DEF dbVars, ClaimsOK, DbTypeOK, OneClaim, WaitingUnclaimed, Claimed, Claimants,
                ClaimsStep, Claims!vars
<1>3. QED
  BY <1>1, <1>2

(* worker_cleanup is the loss of a worker. *)
LEMMA CleanupLosesWorker ==
  ASSUME ClaimsOK, NEW w \in Workers, WorkerCleanup(w)
  PROVE  ClaimsOK' /\ Calm /\ ClaimsStep
<1>1. DbTypeOK'
  BY DEF ClaimsOK, DbTypeOK, WorkerCleanup
<1>2. OneClaim'
  BY DEF ClaimsOK, OneClaim, WorkerCleanup
<1>3. WaitingUnclaimed' /\ Calm
  BY DEF ClaimsOK, WaitingUnclaimed, Claimed, Claimants, Calm, WorkerCleanup
<1>4. Claims!WorkerLost(w)
  BY DEF Claims!WorkerLost, WorkerCleanup
<1>5. QED
  BY <1>1, <1>2, <1>3, <1>4 DEF ClaimsOK, ClaimsStep, Claims!Next

-----------------------------------------------------------------------------
(* Transactions that insert a worker_run row. *)

(* transition_bundle_starting is a Grant, if the bundle has no row. *)
LEMMA StartingClaims ==
  ASSUME ClaimsOK, NEW b \in Bundles, NEW w \in Workers,
         ~Claimed(b), TransitionStarting(b, w)
  PROVE  /\ ClaimsOK' /\ ClaimsStep
         /\ \A c \in Bundles \ {b} : /\ state'[c] = state[c]
                                     /\ Claimed(c)' => Claimed(c)
<1>1. DbTypeOK'
  BY DEF ClaimsOK, DbTypeOK, TransitionStarting, BundleState, ActiveStates
<1>2. OneClaim'
  BY DEF ClaimsOK, OneClaim, TransitionStarting, Claimed, Claimants
<1>3. \A c \in Bundles \ {b} : state'[c] = state[c] /\ (Claimed(c)' => Claimed(c))
  BY DEF ClaimsOK, DbTypeOK, TransitionStarting, Claimed, Claimants
<1>4. WaitingUnclaimed'
  BY <1>3 DEF ClaimsOK, DbTypeOK, WaitingUnclaimed, TransitionStarting, WaitingStates
<1>5. Claims!Grant(w, b)
  BY DEF Claims!Grant, ClaimsOK, DbTypeOK, TransitionStarting, Claimed, Claimants, WaitingStates
<1>6. QED
  BY <1>1, <1>2, <1>3, <1>4, <1>5 DEF ClaimsOK, ClaimsStep, Claims!Next

(* transition_bundle_running is a Grant from WORKER_OFFLINE and a Report   *)
(* from any other state, without a condition.                              *)
LEMMA RunningClaims ==
  ASSUME ClaimsOK, NEW b \in Bundles, NEW w \in Workers,
         NEW s \in {"preparing", "running", "finalizing"},
         TransitionRunning(b, w, s), failure' \in [Bundles -> Failure]
  PROVE  ClaimsOK' /\ Calm /\ ClaimsStep
<1>1. s \in BundleState \ WaitingStates
  BY DEF BundleState, WaitingStates, ActiveStates
<1>2. onPreemptible' \in [Bundles -> BOOLEAN]
  BY DEF ClaimsOK, DbTypeOK, TransitionRunning
<1>3. CASE state[b] # "worker_offline"
  BY <1>1, <1>2, <1>3, UpdateStateReport DEF TransitionRunning
<1>4. CASE state[b] = "worker_offline"
  <2>1. ~Claimed(b) /\ workerRun' = workerRun \union {<<w, b>>}
    BY <1>4 DEF TransitionRunning
  <2>2. DbTypeOK'
    <3>1. state' \in [Bundles -> BundleState]
      BY <1>1 DEF ClaimsOK, DbTypeOK, TransitionRunning
    <3>2. workerRun' \subseteq Workers \X Bundles
      BY <2>1 DEF ClaimsOK, DbTypeOK
    <3>3. worker' \in [Workers -> {"absent", "active", "terminating"}]
      BY DEF ClaimsOK, DbTypeOK, TransitionRunning
    <3>4. QED
      BY <1>2, <3>1, <3>2, <3>3 DEF DbTypeOK
  <2>3. OneClaim'
    BY <2>1 DEF ClaimsOK, OneClaim, Claimed, Claimants
  <2>4. /\ \A c \in Bundles \ {b} : state'[c] = state[c] /\ (Claimed(c)' => Claimed(c))
        /\ state'[b] = s
    BY <2>1 DEF ClaimsOK, DbTypeOK, TransitionRunning, Claimed, Claimants
  <2>5. WaitingUnclaimed' /\ Calm
    BY <1>1, <1>4, <2>4 DEF ClaimsOK, WaitingUnclaimed, Calm, WaitingStates
  <2>6. Claims!Grant(w, b)
    BY <1>1, <2>1 DEF Claims!Grant, ClaimsOK, DbTypeOK, TransitionRunning, Claimed, Claimants
  <2>7. QED
    BY <2>2, <2>3, <2>5, <2>6 DEF ClaimsOK, ClaimsStep, Claims!Next
<1>5. QED
  BY <1>3, <1>4

(* bundle_checkin of any report keeps the claims. *)
LEMMA CheckinKeepsClaims ==
  ASSUME ClaimsOK, NEW w \in Workers, NEW r \in Report, BundleCheckin(w, r)
  PROVE  ClaimsOK' /\ Calm /\ ClaimsStep
<1>1. r.bundle \in Bundles /\ r.failure \in Failure
  BY DEF Report
<1>2. CASE r.state = "staged" /\ TransitionStaged(r.bundle)
  BY <1>1, <1>2, StagedReleases
<1>3. CASE r.state \in {"preparing", "running"} /\ TransitionRunning(r.bundle, w, r.state)
           /\ UNCHANGED failure
  <2>1. failure' \in [Bundles -> Failure]
    BY <1>3 DEF ClaimsOK, DbTypeOK
  <2>2. QED
    BY <1>1, <1>3, <2>1, RunningClaims
<1>4. CASE /\ TransitionRunning(r.bundle, w, "finalizing")
           /\ failure' = [failure EXCEPT ![r.bundle] = RecordedFailure(r.bundle, r.failure)]
  <2>1. failure' \in [Bundles -> Failure]
    BY <1>1, <1>4 DEF ClaimsOK, DbTypeOK, RecordedFailure
  <2>2. QED
    BY <1>1, <1>4, <2>1, RunningClaims
<1>5. QED
  BY <1>2, <1>3, <1>4 DEF BundleCheckin

(* Nothing changes in the database. *)
LEMMA NoTransaction ==
  ASSUME ClaimsOK, UNCHANGED dbVars
  PROVE  ClaimsOK' /\ Calm /\ ClaimsStep
BY DEF dbVars, ClaimsOK, DbTypeOK, OneClaim, WaitingUnclaimed, Claimed, Claimants, Calm,
       ClaimsStep, Claims!vars

-----------------------------------------------------------------------------
(* The list of the bundle manager. *)

(* Calm steps of others do not disturb the list. *)
LEMMA CalmKeepsQueue ==
  ASSUME BmTypeOK, QueuedUnclaimed, Calm, UNCHANGED bmVars
  PROVE  BmTypeOK' /\ QueuedUnclaimed'
<1>1. BmTypeOK'
  BY DEF BmTypeOK, bmVars
<1>2. \A c \in bmList : c.bundle \in Bundles
  BY DEF BmTypeOK, BundleCopy
<1>3. \A c \in bmList : Sending(c)' = Sending(c)
  BY DEF Sending, bmVars
<1>4. QueuedUnclaimed'
  BY <1>2, <1>3 DEF QueuedUnclaimed, Calm, bmVars
<1>5. QED
  BY <1>1, <1>4

(* Read in one query, a list has one copy of each bundle. *)
LEMMA CopiesTyped ==
  ASSUME DbTypeOK, NEW b \in Bundles, NEW p \in Plan
  PROVE  Copy(b, p) \in BundleCopy /\ Copy(b, p).bundle = b
BY DEF DbTypeOK, Copy, BundleCopy

(* A phase that starts on bundles without a row starts the queue right. *)
LEMMA EnterStartsQueue ==
  ASSUME ClaimsOK, BmTypeOK, QueuedUnclaimed,
         NEW phase \in Phase \ {"idle", "finalize", "dispatch", "send"},
         NEW copies \in SUBSET BundleCopy,
         \A c, d \in copies : c.bundle = d.bundle => c = d,
         phase \in {"stage", "admit"} => \A c \in copies : state[c.bundle] \in {"created", "staged"},
         Enter(phase, copies)
  PROVE  /\ ClaimsOK' /\ ClaimsStep
         /\ BmTypeOK' /\ QueuedUnclaimed' /\ UNCHANGED mailbox
<1>1. UNCHANGED dbVars /\ UNCHANGED mailbox
  BY DEF Enter
<1>2. ClaimsOK' /\ ClaimsStep /\ Calm
  BY <1>1, NoTransaction
<1>3. BmTypeOK'
  BY DEF BmTypeOK, Enter
<1>4. phase \in {"stage", "admit"} =>
        \A c \in copies : /\ state'[c.bundle] # "worker_offline"
                          /\ ~Claimed(c.bundle)'
  <2>1. \A c \in copies : c.bundle \in Bundles
    BY DEF BundleCopy
  <2>2. QED
    BY <1>1, <2>1 DEF ClaimsOK, WaitingUnclaimed, WaitingStates, Claimed, Claimants, dbVars
<1>5. QueuedUnclaimed'
  BY <1>4 DEF QueuedUnclaimed, Enter, Phase
<1>6. QED
  BY <1>1, <1>2, <1>3, <1>5

(* A copy is dealt with: the rest of the list stays right if the step for  *)
(* this bundle did not disturb it.                                         *)
LEMMA DoneKeepsQueue ==
  ASSUME BmTypeOK, QueuedUnclaimed, NEW c \in bmList, Done(c), bmPc # "send",
         Calm \/ bmPc \notin {"stage", "admit", "dispatch"}
  PROVE  BmTypeOK' /\ QueuedUnclaimed' /\ UNCHANGED mailbox
<1>1. BmTypeOK'
  BY DEF BmTypeOK, Done, Phase
<1>2. \A d \in bmList : d.bundle \in Bundles
  BY DEF BmTypeOK, BundleCopy
<1>3. bmPc' = "idle" \/ bmPc' = bmPc
  BY DEF Done
<1>4. /\ \A d, e \in bmList' : d.bundle = e.bundle => d = e
      /\ \A p, q \in bmCurrent' : p = q
  BY DEF QueuedUnclaimed, Done
<1>5. bmPc' \in {"stage", "admit", "dispatch"} =>
        \A d \in bmList' : state'[d.bundle] # "worker_offline" /\ ~Claimed(d.bundle)'
  BY <1>2, <1>3 DEF QueuedUnclaimed, Calm, Done
<1>6. QED
  BY <1>1, <1>3, <1>4, <1>5 DEF QueuedUnclaimed, Done

-----------------------------------------------------------------------------
(* The steps of the bundle manager. *)

BmInv == ClaimsOK /\ BmTypeOK /\ QueuedUnclaimed /\ MailboxTypeOK

(* The queries with which the phases begin. *)
LEMMA ReadSteps ==
  ASSUME BmInv,
         ReadCreated \/ ReadStarting \/ ReadActive \/ ReadFinalizing \/ ReadStaged \/ ReadUnresponsive
  PROVE  BmInv' /\ ClaimsStep
<1>1. \A b \in Bundles, p \in Plan : Copy(b, p) \in BundleCopy /\ Copy(b, p).bundle = b
  BY CopiesTyped DEF BmInv, ClaimsOK
<1>2. ASSUME UNCHANGED mailbox PROVE MailboxTypeOK'
  BY <1>2 DEF BmInv, MailboxTypeOK
<1>3. ASSUME NEW states, NEW phase \in Phase \ {"idle", "finalize", "dispatch", "send", "stage"},
             phase = "admit" => states = {"staged"}, Enter(phase, CopiesIn(states))
      PROVE  BmInv' /\ ClaimsStep
  <2>1. "none" \in Plan
    BY DEF Plan
  <2>2. /\ CopiesIn(states) \in SUBSET BundleCopy
        /\ \A c, d \in CopiesIn(states) : c.bundle = d.bundle => c = d
        /\ \A c \in CopiesIn(states) : state[c.bundle] \in states
    BY <1>1, <2>1 DEF CopiesIn
  <2>3. phase \in {"stage", "admit"} =>
          \A c \in CopiesIn(states) : state[c.bundle] \in {"created", "staged"}
    BY <1>3, <2>2
  <2>4. ClaimsOK' /\ ClaimsStep /\ BmTypeOK' /\ QueuedUnclaimed' /\ UNCHANGED mailbox
    BY <1>3, <2>2, <2>3, EnterStartsQueue DEF BmInv
  <2>5. QED
    BY <1>2, <2>4 DEF BmInv
<1>4. CASE ReadCreated
  <2> DEFINE copies == {Copy(b, StagePlan(b)) : b \in {x \in Bundles :
                                                 state[x] = "created" /\ StagePlan(x) # "none"}}
  <2>1. \A b \in Bundles : StagePlan(b) \in Plan
    BY DEF StagePlan, Plan
  <2>2. /\ copies \in SUBSET BundleCopy
        /\ \A c, d \in copies : c.bundle = d.bundle => c = d
        /\ \A c \in copies : state[c.bundle] \in {"created", "staged"}
    BY <1>1, <2>1
  <2>3. Enter("stage", copies) /\ "stage" \in Phase \ {"idle", "finalize", "dispatch", "send"}
    BY <1>4 DEF ReadCreated, Phase
  <2>4. ClaimsOK' /\ ClaimsStep /\ BmTypeOK' /\ QueuedUnclaimed' /\ UNCHANGED mailbox
    <3> HIDE DEF copies
    <3> QED
    BY <2>2, <2>3, EnterStartsQueue DEF BmInv
  <2>5. QED
    BY <1>2, <2>4 DEF BmInv
<1>5. CASE ReadStarting
  BY <1>3, <1>5 DEF ReadStarting, Phase
<1>6. CASE ReadActive
  BY <1>3, <1>6 DEF ReadActive, Phase
<1>7. CASE ReadFinalizing
  BY <1>3, <1>7 DEF ReadFinalizing, Phase
<1>8. CASE ReadStaged
  BY <1>3, <1>8 DEF ReadStaged, Phase
<1>9. CASE ReadUnresponsive
  BY <1>3, <1>9 DEF ReadUnresponsive, Phase
<1>10. QED
  BY <1>4, <1>5, <1>6, <1>7, <1>8, <1>9

(* Failing a bundle of the list is a Report. *)
LEMMA FailReports ==
  ASSUME ClaimsOK, NEW b \in Bundles, NEW s \in FinalStates, NEW f \in Failure,
         UpdateState(b, s) \/ UpdateStateAndFailure(b, s, f)
  PROVE  ClaimsOK' /\ Calm /\ ClaimsStep
<1>1. s \in BundleState \ WaitingStates
  BY DEF BundleState, FinalStates, WaitingStates
<1>2. failure' \in [Bundles -> Failure] /\ onPreemptible' \in [Bundles -> BOOLEAN]
  BY DEF ClaimsOK, DbTypeOK, UpdateState, UpdateStateAndFailure
<1>3. state' = [state EXCEPT ![b] = s] /\ UNCHANGED <<workerRun, worker>>
  BY DEF UpdateState, UpdateStateAndFailure
<1>4. QED
  BY <1>1, <1>2, <1>3, UpdateStateReport

(* The steps that deal with one copy by one transaction. *)
LEMMA DoneSteps ==
  ASSUME BmInv, NEW c \in bmList,
         \/ FailUnstageable(c) \/ StageReady(c)
         \/ RestageUnclaimed(c) \/ RestageStuck(c) \/ KeepStarting(c)
         \/ OfflineUnclaimedRun(c) \/ BringOffline(c) \/ KeepRunning(c)
         \/ FinalizingUnclaimed(c) \/ MarkFinalizedFails(c)
         \/ FailUnrunnable(c) \/ SkipStaged(c)
         \/ FailUnresponsive(c) \/ KeepResponsive(c)
  PROVE  BmInv' /\ ClaimsStep
<1>1. c.bundle \in Bundles /\ c.onPreemptible \in BOOLEAN
  BY DEF BmInv, BmTypeOK, BundleCopy
<1>2. ASSUME ClaimsOK', ClaimsStep, Done(c), bmPc # "send",
             Calm \/ bmPc \notin {"stage", "admit", "dispatch"}
      PROVE  BmInv' /\ ClaimsStep
  BY <1>2, DoneKeepsQueue DEF BmInv, MailboxTypeOK
<1>3. CASE FailUnstageable(c) \/ FailUnrunnable(c) \/ FailUnresponsive(c)
  <2>1. ClaimsOK' /\ Calm /\ ClaimsStep
    BY <1>1, <1>3, FailReports
    DEF BmInv, FailUnstageable, FailUnrunnable, FailUnresponsive, FinalStates, Failure
  <2>2. QED
    BY <1>2, <1>3, <2>1 DEF FailUnstageable, FailUnrunnable, FailUnresponsive
<1>4. CASE StageReady(c)
  <2>1. ~Claimed(c.bundle)
    BY <1>4 DEF StageReady, BmInv, QueuedUnclaimed
  <2>2. workerRun' = WithoutRunsOf(c.bundle)
    <3>1. workerRun' = workerRun
      BY <1>4 DEF StageReady, UpdateState
    <3>2. \A w \in Workers : <<w, c.bundle>> \notin workerRun
      BY <2>1 DEF Claimed, Claimants
    <3>3. \A e \in workerRun : e \notin Workers \X {c.bundle}
      BY <3>2
    <3>4. workerRun \ (Workers \X {c.bundle}) = workerRun
      BY <3>3
    <3>5. QED
      BY <3>1, <3>4 DEF WithoutRunsOf
  <2>3. /\ "staged" \in BundleState /\ state' = [state EXCEPT ![c.bundle] = "staged"]
        /\ failure' \in [Bundles -> Failure] /\ onPreemptible' \in [Bundles -> BOOLEAN]
        /\ UNCHANGED worker
    BY <1>4 DEF StageReady, UpdateState, BmInv, ClaimsOK, DbTypeOK, BundleState
  <2>4. /\ ClaimsOK' /\ ClaimsStep
        /\ \A d \in Bundles : Claimed(d)' => Claimed(d)
    BY <1>1, <2>2, <2>3, ReleaseKeepsClaims DEF BmInv
  <2>5. Calm
    BY <2>3, <2>4 DEF Calm, BmInv, ClaimsOK, DbTypeOK
  <2>6. QED
    BY <1>2, <1>4, <2>4, <2>5 DEF StageReady
<1>5. CASE RestageUnclaimed(c) \/ RestageStuck(c)
  <2>1. ClaimsOK' /\ Calm /\ ClaimsStep
    BY <1>1, <1>5, StagedReleases DEF BmInv, RestageUnclaimed, RestageStuck
  <2>2. QED
    BY <1>2, <1>5, <2>1 DEF RestageUnclaimed, RestageStuck
<1>6. CASE OfflineUnclaimedRun(c) \/ BringOffline(c) \/ FinalizingUnclaimed(c)
  <2>1. ClaimsOK' /\ ClaimsStep
    BY <1>1, <1>6, WorkerOfflineReleases
    DEF BmInv, OfflineUnclaimedRun, BringOffline, FinalizingUnclaimed
  <2>2. QED
    BY <1>2, <1>6, <2>1 DEF OfflineUnclaimedRun, BringOffline, FinalizingUnclaimed
<1>7. CASE \/ KeepStarting(c) \/ KeepRunning(c) \/ MarkFinalizedFails(c)
           \/ SkipStaged(c) \/ KeepResponsive(c)
  <2>1. ClaimsOK' /\ Calm /\ ClaimsStep
    BY <1>7, NoTransaction
    DEF BmInv, KeepStarting, KeepRunning, MarkFinalizedFails, SkipStaged, KeepResponsive
  <2>2. QED
    BY <1>2, <1>7, <2>1
    DEF KeepStarting, KeepRunning, MarkFinalizedFails, SkipStaged, KeepResponsive
<1>8. QED
  BY <1>3, <1>4, <1>5, <1>6, <1>7

(* A message that is written has its shape. *)
LEMMA DeliverTyped ==
  ASSUME MailboxTypeOK, NEW w \in Workers, NEW t \in MessageType, NEW b \in Bundles,
         Deliver(w, t, b)
  PROVE  MailboxTypeOK'
BY DEF MailboxTypeOK, Deliver, Msg, Message

(* mark_finalized, and the transaction that finishes the bundle. *)
LEMMA AcknowledgeSteps ==
  ASSUME BmInv, NEW c \in bmList,
         \/ FinishBundle(c)
         \/ \E w \in Workers : SendMarkFinalized(c, w) \/ MarkFinalizedAckLost(c, w)
  PROVE  BmInv' /\ ClaimsStep
<1>1. c.bundle \in Bundles /\ c.failure \in Failure
  BY DEF BmInv, BmTypeOK, BundleCopy
<1>2. ASSUME NEW w \in Workers, SendMarkFinalized(c, w) \/ MarkFinalizedAckLost(c, w)
      PROVE  BmInv' /\ ClaimsStep
  <2>1. ClaimsOK' /\ ClaimsStep
    BY <1>2, NoTransaction DEF BmInv, SendMarkFinalized, MarkFinalizedAckLost, WriteMarkFinalized
  <2>2. MailboxTypeOK'
    BY <1>1, <1>2, DeliverTyped
    DEF BmInv, SendMarkFinalized, MarkFinalizedAckLost, WriteMarkFinalized, MessageType
  <2>3. BmTypeOK'
    BY <1>1, <1>2
    DEF BmInv, BmTypeOK, SendMarkFinalized, MarkFinalizedAckLost, WriteMarkFinalized, Phase
  <2>4. QueuedUnclaimed'
    BY <1>2
    DEF BmInv, QueuedUnclaimed, SendMarkFinalized, MarkFinalizedAckLost, WriteMarkFinalized
  <2>5. QED
    BY <2>1, <2>2, <2>3, <2>4 DEF BmInv
<1>3. CASE FinishBundle(c)
  <2>1. ClaimsOK' /\ ClaimsStep
    BY <1>1, <1>3, FinishedReleases DEF BmInv, FinishBundle
  <2>2. BmTypeOK' /\ MailboxTypeOK'
    BY <1>3 DEF BmInv, BmTypeOK, MailboxTypeOK, FinishBundle, Phase
  <2>3. QueuedUnclaimed'
    BY <1>3 DEF BmInv, QueuedUnclaimed, FinishBundle
  <2>4. QED
    BY <2>1, <2>2, <2>3 DEF BmInv
<1>4. QED
  BY <1>2, <1>3

(* Dispatching: transition_bundle_starting is applied to a bundle that     *)
(* nobody has claimed.                                                     *)
LEMMA DispatchSteps ==
  ASSUME BmInv, NEW c \in bmList,
         \/ SendRunFails(c)
         \/ \E w \in Workers : TryStart(c, w) \/ SendRun(c, w) \/ RunAckLost(c, w)
  PROVE  BmInv' /\ ClaimsStep
<1>1. c.bundle \in Bundles /\ \A d \in bmList : d.bundle \in Bundles
  BY DEF BmInv, BmTypeOK, BundleCopy
<1>2. ASSUME NEW w \in Workers, TryStart(c, w)
      PROVE  BmInv' /\ ClaimsStep
  <2>1. ~Claimed(c.bundle)
    BY <1>2 DEF TryStart, BmInv, QueuedUnclaimed
  <2>2. /\ ClaimsOK' /\ ClaimsStep
        /\ \A b \in Bundles \ {c.bundle} : /\ state'[b] = state[b]
                                           /\ Claimed(b)' => Claimed(b)
    BY <1>1, <1>2, <2>1, StartingClaims DEF TryStart, BmInv
  <2>3. state'[c.bundle] = "starting"
    BY <1>1, <1>2 DEF TryStart, TransitionStarting, BmInv, ClaimsOK, DbTypeOK
  <2>4. Sending(c)'
    BY <1>2 DEF TryStart, Sending
  <2>5. BmTypeOK' /\ MailboxTypeOK'
    BY <1>1, <1>2 DEF TryStart, BmInv, BmTypeOK, MailboxTypeOK, Phase
  <2>6. \A d \in bmList : /\ state'[d.bundle] # "worker_offline"
                          /\ Claimed(d.bundle)' => Sending(d)'
    <3>1. ASSUME NEW d \in bmList PROVE /\ state'[d.bundle] # "worker_offline"
                                        /\ Claimed(d.bundle)' => Sending(d)'
      <4>1. CASE d = c
        BY <4>1, <2>3, <2>4
      <4>2. CASE d # c
        BY <4>2, <1>1, <1>2, <2>2 DEF TryStart, BmInv, QueuedUnclaimed
      <4>3. QED
        BY <4>1, <4>2
    <3>2. QED
      BY <3>1
  <2>7. QueuedUnclaimed'
    BY <1>2, <2>6 DEF TryStart, BmInv, QueuedUnclaimed
  <2>8. QED
    BY <2>2, <2>5, <2>7 DEF BmInv
<1>3. ASSUME bmPc = "send", Sending(c)
      PROVE  \A d \in bmList \ {c} : ~Claimed(d.bundle)
  BY <1>3 DEF BmInv, QueuedUnclaimed, Sending
<1>4. ASSUME NEW w \in Workers, SendRun(c, w) \/ RunAckLost(c, w)
      PROVE  BmInv' /\ ClaimsStep
  <2>1. UNCHANGED dbVars /\ bmPc = "send" /\ Sending(c)
    BY <1>4 DEF SendRun, RunAckLost, WriteRun, Sending
  <2>2. ClaimsOK' /\ Calm /\ ClaimsStep
    BY <2>1, NoTransaction DEF BmInv
  <2>3. MailboxTypeOK'
    BY <1>1, <1>4, DeliverTyped DEF SendRun, RunAckLost, WriteRun, BmInv, MessageType
  <2>4. BmTypeOK'
    BY <1>4 DEF SendRun, RunAckLost, BmInv, BmTypeOK, Phase
  <2>5. CASE SendRun(c, w)
    <3>1. bmList' = bmList \ {c} /\ bmCurrent' = {}
      <4>1. CASE bmList = {c}
        BY <2>5, <4>1 DEF SendRun
      <4>2. CASE bmList # {c}
        BY <2>5, <4>2 DEF SendRun
      <4>3. QED
        BY <4>1, <4>2
    <3>2. \A d \in bmList' : state'[d.bundle] # "worker_offline" /\ ~Claimed(d.bundle)'
      BY <1>1, <1>3, <2>1, <2>2, <3>1 DEF BmInv, QueuedUnclaimed, Calm
    <3>3. QueuedUnclaimed'
      BY <3>1, <3>2 DEF BmInv, QueuedUnclaimed
    <3>4. QED
      BY <2>2, <2>3, <2>4, <3>3 DEF BmInv
  <2>6. CASE RunAckLost(c, w)
    <3>1. QueuedUnclaimed'
      BY <2>2, <2>6, CalmKeepsQueue DEF RunAckLost, BmInv, bmVars
    <3>2. QED
      BY <2>2, <2>3, <2>4, <3>1 DEF BmInv
  <2>7. QED
    BY <1>4, <2>5, <2>6
<1>5. CASE SendRunFails(c)
  <2>1. /\ ClaimsOK' /\ Calm /\ ClaimsStep
        /\ ~Claimed(c.bundle)'
        /\ \A b \in Bundles : Claimed(b)' => Claimed(b)
    BY <1>1, <1>5, StagedReleases DEF SendRunFails, BmInv
  <2>2. BmTypeOK' /\ MailboxTypeOK'
    BY <1>5 DEF SendRunFails, BmInv, BmTypeOK, MailboxTypeOK, Phase
  <2>3. \A d \in bmList' : state'[d.bundle] # "worker_offline" /\ ~Claimed(d.bundle)'
    BY <1>1, <1>3, <1>5, <2>1 DEF SendRunFails, BmInv, QueuedUnclaimed, Calm
  <2>4. QueuedUnclaimed'
    BY <1>5, <2>3 DEF SendRunFails, BmInv, QueuedUnclaimed
  <2>5. QED
    BY <2>1, <2>2, <2>4 DEF BmInv
<1>6. QED
  BY <1>2, <1>4, <1>5

(* Steps without a copy. *)
LEMMA LoopSteps ==
  ASSUME BmInv,
         \/ BeginDispatch \/ AbortOnMissing \/ AbortIteration
         \/ \E w \in Workers : CleanupDeadWorker(w)
  PROVE  BmInv' /\ ClaimsStep
<1>1. CASE BeginDispatch
  <2>1. ClaimsOK' /\ ClaimsStep /\ UNCHANGED dbVars
    BY <1>1, NoTransaction DEF BeginDispatch, BmInv
  <2>2. BmTypeOK' /\ MailboxTypeOK'
    BY <1>1 DEF BeginDispatch, BmInv, BmTypeOK, MailboxTypeOK, Phase
  <2>3. QueuedUnclaimed'
    BY <1>1 DEF BeginDispatch, BmInv, QueuedUnclaimed, Claimed, Claimants, dbVars
  <2>4. QED
    BY <2>1, <2>2, <2>3 DEF BmInv
<1>2. CASE AbortOnMissing \/ AbortIteration
  <2>1. LeaveIteration
    BY <1>2 DEF AbortOnMissing, AbortIteration
  <2>2. ClaimsOK' /\ ClaimsStep
    BY <2>1, NoTransaction DEF LeaveIteration, BmInv
  <2>3. BmTypeOK' /\ MailboxTypeOK' /\ QueuedUnclaimed'
    BY <2>1 DEF LeaveIteration, BmInv, BmTypeOK, MailboxTypeOK, QueuedUnclaimed, Phase
  <2>4. QED
    BY <2>2, <2>3 DEF BmInv
<1>3. ASSUME NEW w \in Workers, CleanupDeadWorker(w)
      PROVE  BmInv' /\ ClaimsStep
  <2>1. ClaimsOK' /\ Calm /\ ClaimsStep
    BY <1>3, CleanupLosesWorker DEF CleanupDeadWorker, BmInv
  <2>2. BmTypeOK' /\ QueuedUnclaimed' /\ MailboxTypeOK'
    BY <1>3, <2>1, CalmKeepsQueue DEF CleanupDeadWorker, BmInv, bmVars, MailboxTypeOK
  <2>3. QED
    BY <2>1, <2>2 DEF BmInv
<1>4. QED
  BY <1>1, <1>2, <1>3

(* Every step of the bundle manager. *)
LEMMA BundleManagerSteps ==
  ASSUME BmInv, BmNext \/ BmTimeout \/ BmFault
  PROVE  BmInv' /\ ClaimsStep
<1>1. CASE BmNext
  BY <1>1, ReadSteps, DoneSteps, AcknowledgeSteps, DispatchSteps, LoopSteps DEF BmNext
<1>2. CASE BmTimeout
  BY <1>2, DoneSteps, LoopSteps DEF BmTimeout
<1>3. CASE BmFault
  BY <1>3, DoneSteps, AcknowledgeSteps, DispatchSteps, LoopSteps DEF BmFault
<1>4. QED
  BY <1>1, <1>2, <1>3

-----------------------------------------------------------------------------
(* The steps of the REST server are Calm, whatever its requests hold. *)

RestInv == ClaimsOK /\ RestTypeOK /\ MailboxTypeOK

(* What is left of a check-in after one report. *)
LEMMA AfterReportTyped ==
  ASSUME RestTypeOK, NEW c \in checkins, NEW r \in c.runs
  PROVE  AfterReport(c, r) \subseteq Checkin /\ r \in Report /\ c.from \in Workers
<1>1. c \in Checkin
  BY DEF RestTypeOK
<1>2. r \in Report /\ c.from \in Workers /\ [c EXCEPT !.runs = @ \ {r}] \in Checkin
  BY <1>1 DEF Checkin
<1>3. QED
  BY <1>2 DEF AfterReport, RestTypeOK

(* The steps of the check-in handler. *)
LEMMA CheckinSteps ==
  ASSUME RestInv, NEW c \in checkins,
         \/ RegisterWorker(c) \/ AbandonCheckin(c) \/ LoseCheckin(c)
         \/ \E r \in c.runs : HandleReport(c, r) \/ KillOverQuota(c, r) \/ ReportRejected(c, r)
  PROVE  RestInv' /\ Calm /\ ClaimsStep
<1>1. c \in Checkin
  BY DEF RestInv, RestTypeOK
<1>2. CASE RegisterWorker(c)
  <2>1. ClaimsOK' /\ Calm /\ ClaimsStep
    BY <1>1, <1>2, WorkerCheckinStutters DEF RegisterWorker, RestInv, Checkin
  <2>2. [c EXCEPT !.registered = TRUE] \in Checkin
    BY <1>1 DEF Checkin
  <2>3. RestTypeOK' /\ MailboxTypeOK'
    BY <1>2, <2>2 DEF RegisterWorker, RestInv, RestTypeOK, MailboxTypeOK
  <2>4. QED
    BY <2>1, <2>3 DEF RestInv
<1>3. CASE AbandonCheckin(c) \/ LoseCheckin(c)
  <2>1. ClaimsOK' /\ Calm /\ ClaimsStep
    BY <1>3, NoTransaction DEF AbandonCheckin, LoseCheckin, RestInv
  <2>2. [c EXCEPT !.abandoned = TRUE] \in Checkin
    BY <1>1 DEF Checkin
  <2>3. RestTypeOK' /\ MailboxTypeOK'
    BY <1>3, <2>2 DEF AbandonCheckin, LoseCheckin, RestInv, RestTypeOK, MailboxTypeOK
  <2>4. QED
    BY <2>1, <2>3 DEF RestInv
<1>4. ASSUME NEW r \in c.runs, HandleReport(c, r) \/ KillOverQuota(c, r) \/ ReportRejected(c, r)
      PROVE  RestInv' /\ Calm /\ ClaimsStep
  <2>1. AfterReport(c, r) \subseteq Checkin /\ r \in Report /\ c.from \in Workers
    BY AfterReportTyped DEF RestInv
  <2>2. ClaimsOK' /\ Calm /\ ClaimsStep
    <3>1. CASE WriteReport(c, r)
      BY <2>1, <3>1, CheckinKeepsClaims DEF WriteReport, RestInv
    <3>2. CASE ReportRejected(c, r)
      BY <3>2, NoTransaction DEF ReportRejected, RestInv
    <3>3. QED
      BY <1>4, <3>1, <3>2 DEF HandleReport, KillOverQuota
  <2>3. RestTypeOK'
    BY <1>4, <2>1
    DEF HandleReport, KillOverQuota, WriteReport, ReportRejected, RestInv, RestTypeOK
  <2>4. MailboxTypeOK'
    <3>1. CASE KillOverQuota(c, r)
      BY <2>1, <3>1, DeliverTyped DEF KillOverQuota, RestInv, Report, MessageType
    <3>2. CASE HandleReport(c, r) \/ ReportRejected(c, r)
      BY <3>2 DEF HandleReport, ReportRejected, RestInv, MailboxTypeOK
    <3>3. QED
      BY <1>4, <3>1, <3>2
  <2>5. QED
    BY <2>2, <2>3, <2>4 DEF RestInv
<1>5. QED
  BY <1>2, <1>3, <1>4

(* The steps of the kill action. *)
LEMMA KillSteps ==
  ASSUME RestInv,
         \/ \E b \in Bundles : KillRequest(b)
         \/ \E k \in kills : KillLookup(k) \/ KillFails(k) \/ KillOnServer(k)
                             \/ \E w \in Workers : KillSend(k, w)
  PROVE  RestInv' /\ Calm /\ ClaimsStep
<1>1. ASSUME NEW b \in Bundles, KillRequest(b)
      PROVE  RestInv' /\ Calm /\ ClaimsStep
  <2>1. ClaimsOK' /\ Calm /\ ClaimsStep
    BY <1>1, NoTransaction DEF KillRequest, RestInv
  <2> DEFINE k == [bundle |-> b, looked |-> FALSE, workers |-> {}]
  <2>k. k \in Kill
    BY DEF Kill
  <2>2. RestTypeOK' /\ MailboxTypeOK'
    <3>1. kills' = kills \union {k} /\ UNCHANGED <<checkins, deletes, uploads, mailbox>>
      BY <1>1 DEF KillRequest
    <3> HIDE DEF k
    <3>2. QED
      BY <2>k, <3>1 DEF RestInv, RestTypeOK, MailboxTypeOK
  <2>3. QED
    BY <2>1, <2>2 DEF RestInv
<1>2. ASSUME NEW k \in kills, KillLookup(k) \/ KillFails(k)
      PROVE  RestInv' /\ Calm /\ ClaimsStep
  <2>1. ClaimsOK' /\ Calm /\ ClaimsStep
    BY <1>2, NoTransaction DEF KillLookup, KillFails, RestInv
  <2>2. [k EXCEPT !.looked = TRUE, !.workers = Claimants(k.bundle)] \in Kill
    BY DEF RestInv, RestTypeOK, Kill, Claimants
  <2>3. RestTypeOK' /\ MailboxTypeOK'
    BY <1>2, <2>2 DEF KillLookup, KillFails, RestInv, RestTypeOK, MailboxTypeOK
  <2>4. QED
    BY <2>1, <2>3 DEF RestInv
<1>3. ASSUME NEW k \in kills, NEW w \in Workers, KillSend(k, w)
      PROVE  RestInv' /\ Calm /\ ClaimsStep
  <2>1. k.bundle \in Bundles
    BY DEF RestInv, RestTypeOK, Kill
  <2>2. ClaimsOK' /\ Calm /\ ClaimsStep
    BY <1>3, NoTransaction DEF KillSend, RestInv
  <2>3. RestTypeOK' /\ MailboxTypeOK'
    BY <1>3, <2>1, DeliverTyped DEF KillSend, RestInv, RestTypeOK, MessageType
  <2>4. QED
    BY <2>2, <2>3 DEF RestInv
<1>4. ASSUME NEW k \in kills, KillOnServer(k)
      PROVE  RestInv' /\ Calm /\ ClaimsStep
  <2>1. k.bundle \in Bundles
    BY DEF RestInv, RestTypeOK, Kill
  <2>2. ClaimsOK' /\ Calm /\ ClaimsStep
    <3>1. CASE Exists(k.bundle)
      BY <1>4, <2>1, <3>1, FailReports DEF KillOnServer, RestInv, FinalStates, Failure
    <3>2. CASE ~Exists(k.bundle)
      BY <1>4, <3>2, NoTransaction DEF KillOnServer, RestInv
    <3>3. QED
      BY <3>1, <3>2
  <2>3. RestTypeOK' /\ MailboxTypeOK'
    BY <1>4 DEF KillOnServer, RestInv, RestTypeOK, MailboxTypeOK
  <2>4. QED
    BY <2>2, <2>3 DEF RestInv
<1>5. QED
  BY <1>1, <1>2, <1>3, <1>4

(* The steps of a deletion. *)
LEMMA DeleteSteps ==
  ASSUME RestInv, NEW b \in Bundles, DeleteRequest(b) \/ DeleteApply(b)
  PROVE  RestInv' /\ Calm /\ ClaimsStep
<1>1. ClaimsOK' /\ Calm /\ ClaimsStep
  BY NoTransaction, DeleteReleases DEF DeleteRequest, DeleteApply, RestInv
<1>2. RestTypeOK' /\ MailboxTypeOK'
  BY DEF DeleteRequest, DeleteApply, RestInv, RestTypeOK, MailboxTypeOK
<1>3. QED
  BY <1>1, <1>2 DEF RestInv

(* An upload that is answered keeps its shape. *)
LEMMA AnswerTyped ==
  ASSUME RestInv, NEW u \in uploads, NEW a \in {"ok", "failed"}, Answer(u, a)
  PROVE  RestTypeOK' /\ MailboxTypeOK'
<1>1. [u EXCEPT !.result = a] \in Upload
  BY DEF RestInv, RestTypeOK, Upload
<1>2. QED
  BY <1>1 DEF Answer, RestInv, RestTypeOK, MailboxTypeOK

(* The ends of an upload. *)
LEMMA UploadSteps ==
  ASSUME RestInv, NEW u \in uploads,
         UploadForbidden(u) \/ UploadSucceeds(u) \/ UploadRefused(u) \/ UploadBreaks(u)
  PROVE  RestInv' /\ Calm /\ ClaimsStep
<1>1. u.bundle \in Bundles
  BY DEF RestInv, RestTypeOK, Upload
<1>2. CASE UploadForbidden(u) \/ UploadSucceeds(u)
  BY <1>2, NoTransaction, AnswerTyped DEF UploadForbidden, UploadSucceeds, RestInv
<1>3. CASE UploadRefused(u)
  BY <1>1, <1>3, FailReports, AnswerTyped DEF UploadRefused, RestInv, FinalStates, Failure
<1>4. CASE UploadBreaks(u)
  <2>1. /\ state' = [state EXCEPT ![u.bundle] = state[u.bundle]]
        /\ failure' = [failure EXCEPT ![u.bundle] = "failed"]
        /\ UNCHANGED <<onPreemptible, workerRun, worker>>
    BY <1>4 DEF UploadBreaks, UpdateStateAndFailure
  <2>2. UNCHANGED state
    BY <2>1 DEF RestInv, ClaimsOK, DbTypeOK
  <2>3. DbTypeOK'
    BY <2>1, <2>2 DEF RestInv, ClaimsOK, DbTypeOK, Failure
  <2>4. ClaimsOK' /\ Calm /\ ClaimsStep
    BY <2>1, <2>2, <2>3
    DEF RestInv, ClaimsOK, OneClaim, WaitingUnclaimed, Claimed, Claimants, Calm,
        ClaimsStep, Claims!vars
  <2>5. RestTypeOK' /\ MailboxTypeOK'
    <3>1. CASE Answer(u, "failed")
      BY <3>1, AnswerTyped
    <3>2. CASE UNCHANGED <<restVars, mailbox>>
      BY <3>2 DEF RestInv, RestTypeOK, MailboxTypeOK, restVars
    <3>3. QED
      BY <1>4, <3>1, <3>2 DEF UploadBreaks
  <2>6. QED
    BY <2>4, <2>5 DEF RestInv
<1>5. QED
  BY <1>2, <1>3, <1>4

(* Every step of the REST server. *)
LEMMA RestServerSteps ==
  ASSUME RestInv, RestNext \/ RestFault
  PROVE  RestInv' /\ Calm /\ ClaimsStep
<1>1. CASE RestNext
  BY <1>1, CheckinSteps, KillSteps, DeleteSteps, UploadSteps DEF RestNext
<1>2. CASE RestFault
  BY <1>2, CheckinSteps, KillSteps, DeleteSteps, UploadSteps DEF RestFault
<1>3. QED
  BY <1>1, <1>2

-----------------------------------------------------------------------------
(* The steps of the workers are Calm too. *)

WorkerInv == RestInv /\ WorkerTypeOK

(* The runs in the memory of a worker. *)
LEMMA RunTyped ==
  ASSUME WorkerTypeOK, NEW w \in Workers, NEW b \in Bundles
  PROVE  /\ runs[w][b] \in Run /\ NoRun \in Run /\ NewRun \in Run
         /\ \A r \in Run : Finalized(r) \in Run
<1>1. runs[w][b] \in Run
  BY DEF WorkerTypeOK
<1>2. NoRun \in Run /\ NewRun \in Run
  BY DEF Run, NoRun, NewRun, Stage, Failure
<1>3. \A r \in Run : Finalized(r) \in Run
  BY DEF Run, Finalized, Stage, Failure
<1>4. QED
  BY <1>1, <1>2, <1>3

(* Writing one run keeps the types of the worker. *)
LEMMA SetRunTyped ==
  ASSUME WorkerTypeOK, NEW w \in Workers, NEW b \in Bundles, NEW r \in Run, SetRun(w, b, r)
  PROVE  WorkerTypeOK'
BY DEF WorkerTypeOK, SetRun

(* A check-in reports the runs the worker has. *)
LEMMA SendCheckinStep ==
  ASSUME WorkerInv, NEW w \in Workers, SendCheckin(w)
  PROVE  WorkerInv' /\ Calm /\ ClaimsStep
<1>1. ClaimsOK' /\ Calm /\ ClaimsStep
  BY NoTransaction DEF SendCheckin, WorkerInv, RestInv
<1>2. \A b \in Bundles : HasRun(w, b) => ReportOf(w, b) \in Report
  <2>1. SUFFICES ASSUME NEW b \in Bundles, HasRun(w, b)
                 PROVE  ReportOf(w, b) \in Report
    OBVIOUS
  <2>2. runs[w][b] \in Run
    BY RunTyped DEF WorkerInv
  <2>3. /\ runs[w][b].stage \in {"preparing", "running", "uploading", "finalizing", "restaged"}
        /\ runs[w][b].failure \in Failure
    BY <2>1, <2>2 DEF HasRun, Run, Stage
  <2>4. ServerState(runs[w][b].stage) \in {"preparing", "running", "finalizing", "staged"}
    BY <2>3 DEF ServerState
  <2>5. QED
    BY <2>3, <2>4 DEF ReportOf, Report
<1>3. RestTypeOK'
  <2> DEFINE reports == {ReportOf(w, b) : b \in {x \in Bundles : HasRun(w, x)}}
             c == [from |-> w, abandoned |-> FALSE, terminating |-> wstate[w] = "restaging",
                   registered |-> FALSE, runs |-> reports]
  <2>1. reports \subseteq Report
    BY <1>2
  <2>2. c \in Checkin
    <3> HIDE DEF reports
    <3> QED
      BY <2>1 DEF Checkin
  <2>3. checkins' = checkins \union {c} /\ UNCHANGED <<kills, deletes, uploads>>
    BY DEF SendCheckin
  <2> HIDE DEF c
  <2>4. QED
    BY <2>2, <2>3 DEF WorkerInv, RestInv, RestTypeOK
<1>4. MailboxTypeOK' /\ WorkerTypeOK'
  BY DEF SendCheckin, WorkerInv, RestInv, MailboxTypeOK, WorkerTypeOK, workerVars
<1>5. QED
  BY <1>1, <1>3, <1>4 DEF WorkerInv, RestInv

(* The listening thread takes a message. *)
LEMMA MessageSteps ==
  ASSUME WorkerInv, NEW w \in Workers, NEW m \in mailbox,
         \/ StartGranted(w, m) \/ StartAnswerLost(w, m) \/ StartRefused(w, m)
         \/ ReceiveKill(w, m) \/ ReceiveMarkFinalized(w, m)
         \/ DropMessage(w, m) \/ LoseMessage(w, m)
  PROVE  WorkerInv' /\ Calm /\ ClaimsStep
<1>1. m.bundle \in Bundles
  BY DEF WorkerInv, RestInv, MailboxTypeOK, Message
<1>2. ASSUME Take(m), UNCHANGED restVars PROVE MailboxTypeOK' /\ RestTypeOK'
  BY <1>2 DEF Take, WorkerInv, RestInv, MailboxTypeOK, RestTypeOK, restVars
<1>3. ASSUME UNCHANGED workerVars PROVE WorkerTypeOK'
  BY <1>3 DEF WorkerInv, WorkerTypeOK, workerVars
<1>4. CASE StartGranted(w, m) \/ StartAnswerLost(w, m)
  <2>1. AskToStart(w, m)
    BY <1>4 DEF StartGranted, StartAnswerLost
  <2>2. /\ "preparing" \in BundleState \ WaitingStates
        /\ state' = [state EXCEPT ![m.bundle] = "preparing"]
        /\ failure' \in [Bundles -> Failure] /\ onPreemptible' \in [Bundles -> BOOLEAN]
        /\ UNCHANGED <<workerRun, worker>>
    <3>1. TransitionPreparing(m.bundle, w)
      BY <2>1 DEF AskToStart
    <3>2. "preparing" \in BundleState \ WaitingStates
      BY DEF BundleState, ActiveStates, WaitingStates
    <3>3. onPreemptible' \in [Bundles -> BOOLEAN]
      <4>1. (w \in PreemptibleWorkers) \in BOOLEAN
        OBVIOUS
      <4>2. /\ onPreemptible \in [Bundles -> BOOLEAN]
            /\ onPreemptible' = [onPreemptible EXCEPT ![m.bundle] = (w \in PreemptibleWorkers)]
        BY <3>1 DEF TransitionPreparing, WorkerInv, RestInv, ClaimsOK, DbTypeOK
      <4>3. QED
        BY <4>1, <4>2, Zenon
    <3>4. failure' \in [Bundles -> Failure]
      BY <3>1 DEF TransitionPreparing, WorkerInv, RestInv, ClaimsOK, DbTypeOK
    <3>5. state' = [state EXCEPT ![m.bundle] = "preparing"] /\ UNCHANGED <<workerRun, worker>>
      BY <3>1 DEF TransitionPreparing
    <3>6. QED
      BY <3>2, <3>3, <3>4, <3>5
  <2>3. ClaimsOK' /\ Calm /\ ClaimsStep
    BY <1>1, <2>2, UpdateStateReport DEF WorkerInv, RestInv
  <2>4. WorkerTypeOK'
    BY <1>1, <1>3, <1>4, RunTyped, SetRunTyped DEF StartGranted, StartAnswerLost, WorkerInv
  <2>5. QED
    BY <1>2, <2>1, <2>3, <2>4 DEF AskToStart, WorkerInv, RestInv
<1>5. CASE \/ StartRefused(w, m) \/ DropMessage(w, m) \/ LoseMessage(w, m)
           \/ ReceiveKill(w, m) \/ ReceiveMarkFinalized(w, m)
  <2>1. ClaimsOK' /\ Calm /\ ClaimsStep
    BY <1>5, NoTransaction
    DEF StartRefused, DropMessage, LoseMessage, ReceiveKill, ReceiveMarkFinalized, WorkerInv, RestInv
  <2>2. MailboxTypeOK' /\ RestTypeOK'
    BY <1>2, <1>5
    DEF StartRefused, DropMessage, LoseMessage, ReceiveKill, ReceiveMarkFinalized
  <2>3. WorkerTypeOK'
    <3>1. /\ [runs[w][m.bundle] EXCEPT !.killed = TRUE] \in Run
          /\ [runs[w][m.bundle] EXCEPT !.finalized = TRUE] \in Run
      <4>1. ASSUME NEW r \in Run
            PROVE  [r EXCEPT !.killed = TRUE] \in Run /\ [r EXCEPT !.finalized = TRUE] \in Run
        BY DEF Run
      <4>2. runs[w][m.bundle] \in Run
        BY <1>1, RunTyped DEF WorkerInv
      <4>3. QED
        BY <4>1, <4>2
    <3>2. CASE ReceiveKill(w, m)
      BY <1>1, <1>3, <3>1, <3>2, SetRunTyped DEF ReceiveKill, WorkerInv
    <3>3. CASE ReceiveMarkFinalized(w, m)
      BY <1>1, <1>3, <3>1, <3>3, SetRunTyped DEF ReceiveMarkFinalized, WorkerInv
    <3>4. CASE StartRefused(w, m) \/ DropMessage(w, m) \/ LoseMessage(w, m)
      BY <1>3, <3>4 DEF StartRefused, DropMessage, LoseMessage
    <3>5. QED
      BY <1>5, <3>2, <3>3, <3>4
  <2>4. QED
    BY <2>1, <2>2, <2>3 DEF WorkerInv, RestInv
<1>6. QED
  BY <1>4, <1>5

(* The stages of a run. *)
LEMMA ProcessSteps ==
  ASSUME WorkerInv, NEW w \in Workers, NEW b \in Bundles,
         \/ BeginRunning(w, b) \/ EndPreparing(w, b) \/ EndRunning(w, b)
         \/ Restage(w, b) \/ ForgetFinalized(w, b)
         \/ UploadBegin(w, b) \/ EndUploading(w, b)
  PROVE  WorkerInv' /\ Calm /\ ClaimsStep
<1>1. PICK s : Process(w, b, s)
  BY DEF BeginRunning, EndPreparing, EndRunning, Restage, ForgetFinalized, UploadBegin, EndUploading
<1>2. ClaimsOK' /\ Calm /\ ClaimsStep
  BY <1>1, NoTransaction DEF Process, WorkerInv, RestInv
<1>3. uploads' \subseteq Upload
  <2>1. [from |-> w, bundle |-> b, result |-> "pending"] \in Upload
    BY DEF Upload
  <2>2. uploads \subseteq Upload
    BY DEF WorkerInv, RestInv, RestTypeOK
  <2>3. QED
    BY <2>1, <2>2
    DEF BeginRunning, EndPreparing, EndRunning, Restage, ForgetFinalized, UploadBegin, EndUploading
<1>4. MailboxTypeOK' /\ RestTypeOK'
  BY <1>1, <1>3 DEF Process, WorkerInv, RestInv, MailboxTypeOK, RestTypeOK
<1>5. WorkerTypeOK'
  <2> DEFINE r0 == runs[w][b]
  <2>1. /\ r0 \in Run /\ NoRun \in Run
        /\ \A r \in Run : Finalized(r) \in Run
    BY RunTyped DEF WorkerInv
  <2>2. ASSUME NEW f \in Failure PROVE [r0 EXCEPT !.failure = f] \in Run
    BY <2>1 DEF Run
  <2>3. ASSUME NEW t \in Stage, NEW r \in Run PROVE [r EXCEPT !.stage = t] \in Run
    BY DEF Run
  <2>4. [r0 EXCEPT !.failure = "failed", !.killed = FALSE] \in Run
    BY <2>1 DEF Run, Failure
  <2>5. PICK r \in Run : SetRun(w, b, r) \/ UNCHANGED workerVars
    <3>1. CASE BeginRunning(w, b) \/ Restage(w, b) \/ ForgetFinalized(w, b) \/ UploadBegin(w, b)
      BY <2>1, <2>3, <3>1 DEF BeginRunning, Restage, ForgetFinalized, UploadBegin, Stage
    <3>2. CASE EndPreparing(w, b)
      BY <2>1, <2>2, <3>2 DEF EndPreparing, Failure
    <3>3. CASE EndRunning(w, b)
      <4>1. PICK r \in {[r0 EXCEPT !.failure = "none"], [r0 EXCEPT !.failure = "failed"],
                        [r0 EXCEPT !.failure = "failed", !.killed = FALSE]} :
              SetRun(w, b, IF w \in SharedFileSystem THEN Finalized(r)
                                                     ELSE [r EXCEPT !.stage = "uploading"])
        BY <3>3 DEF EndRunning
      <4>2. r \in Run
        BY <2>2, <2>4, <4>1 DEF Failure
      <4>3. Finalized(r) \in Run /\ [r EXCEPT !.stage = "uploading"] \in Run
        BY <2>1, <2>3, <4>2 DEF Stage
      <4>4. QED
        BY <4>1, <4>3
    <3>4. CASE EndUploading(w, b)
      BY <2>1, <2>2, <3>4 DEF EndUploading, Failure
    <3>5. QED
      BY <3>1, <3>2, <3>3, <3>4
  <2>6. QED
    BY <2>5, SetRunTyped DEF WorkerInv, WorkerTypeOK, workerVars
<1>6. QED
  BY <1>2, <1>4, <1>5 DEF WorkerInv, RestInv

(* Termination, crashes and restarts touch no row. *)
LEMMA LifeSteps ==
  ASSUME WorkerInv, NEW w \in Workers,
         \/ SaveState(w) \/ CheckTermination(w) \/ Restart(w)
         \/ TerminateAndRestage(w) \/ Terminate(w) \/ Crash(w)
  PROVE  WorkerInv' /\ Calm /\ ClaimsStep
<1>1. ClaimsOK' /\ Calm /\ ClaimsStep
  BY NoTransaction
  DEF SaveState, CheckTermination, Restart, TerminateAndRestage, Terminate, Crash, WorkerInv, RestInv
<1>2. MailboxTypeOK'
  BY DEF SaveState, CheckTermination, Restart, DropMailbox, TerminateAndRestage, Terminate, Crash,
         WorkerInv, RestInv, MailboxTypeOK
<1>3. RestTypeOK'
  <2>1. CASE Crash(w)
    <3>1. \A c \in checkins : [c EXCEPT !.abandoned = @ \/ c.from = w] \in Checkin
      BY DEF WorkerInv, RestInv, RestTypeOK, Checkin
    <3>2. QED
      BY <2>1, <3>1 DEF Crash, WorkerInv, RestInv, RestTypeOK
  <2>2. CASE \/ SaveState(w) \/ CheckTermination(w) \/ Restart(w)
             \/ TerminateAndRestage(w) \/ Terminate(w)
    BY <2>2
    DEF SaveState, CheckTermination, Restart, TerminateAndRestage, Terminate,
        WorkerInv, RestInv, RestTypeOK, restVars
  <2>3. QED
    BY <2>1, <2>2
<1>4. WorkerTypeOK'
  <2>1. /\ runs[w] \in [Bundles -> Run] /\ saved[w] \in [Bundles -> Run]
        /\ [b \in Bundles |-> NoRun] \in [Bundles -> Run]
    BY RunTyped DEF WorkerInv, WorkerTypeOK
  <2>2. CASE SaveState(w) \/ Restart(w) \/ TerminateAndRestage(w) \/ Terminate(w) \/ Crash(w)
    BY <2>1, <2>2
    DEF SaveState, Restart, TerminateAndRestage, Terminate, Crash, WorkerInv, WorkerTypeOK
  <2>3. CASE CheckTermination(w)
    <3>1. \A b \in Bundles : [runs[w][b] EXCEPT !.restaged = TRUE] \in Run
      <4>1. ASSUME NEW r \in Run PROVE [r EXCEPT !.restaged = TRUE] \in Run
        BY DEF Run
      <4>2. \A b \in Bundles : runs[w][b] \in Run
        BY <2>1
      <4>3. QED
        BY <4>1, <4>2
    <3>2. PICK f \in [Bundles -> Run] : runs' = [runs EXCEPT ![w] = f]
      BY <2>1, <2>3, <3>1 DEF CheckTermination
    <3>3. saved' \in [Workers -> [Bundles -> Run]]
      BY <2>1, <2>3 DEF CheckTermination, WorkerInv, WorkerTypeOK
    <3>4. wstate' \in [Workers -> {"up", "restaging", "down"}]
      BY <2>3 DEF CheckTermination, WorkerInv, WorkerTypeOK
    <3>5. QED
      BY <3>2, <3>3, <3>4 DEF WorkerInv, WorkerTypeOK
  <2>4. QED
    BY <2>2, <2>3
<1>5. QED
  BY <1>1, <1>2, <1>3, <1>4 DEF WorkerInv, RestInv

(* Every step of a worker. *)
LEMMA WorkerSteps ==
  ASSUME WorkerInv, WorkerNext \/ WorkerFault
  PROVE  WorkerInv' /\ Calm /\ ClaimsStep
<1>1. CASE WorkerNext
  BY <1>1, SendCheckinStep, MessageSteps, ProcessSteps, LifeSteps DEF WorkerNext
<1>2. CASE WorkerFault
  BY <1>2, MessageSteps, LifeSteps DEF WorkerFault
<1>3. QED
  BY <1>1, <1>2

-----------------------------------------------------------------------------
(* All of it. *)

Inv == TypeOK /\ OneClaim /\ WaitingUnclaimed /\ QueuedUnclaimed

(* The histories only note bundles and final states. *)
LEMMA RecordTyped ==
  ASSUME TypeOK, DbTypeOK', Record
  PROVE  succeeded' \subseteq Bundles /\ reached' \subseteq Bundles \X FinalStates
<1>1. Parents \subseteq Bundles
  BY DepsAssumption DEF Parents
<1>2. {<<p, state'[p]>> : p \in {q \in Parents : state'[q] \in FinalStates}}
        \subseteq Bundles \X FinalStates
  BY <1>1
<1>3. QED
  BY <1>2 DEF Record, TypeOK

(* A timeout that is due is one of those that may pass. *)
LEMMA DueTimeoutIsTimeout ==
  ASSUME DueTimeout
  PROVE  BmTimeout
BY DEF DueTimeout, BmTimeout

(* What every actor does to the database and its own variables, put        *)
(* together with what it leaves to the others.                             *)
LEMMA ActorSteps ==
  ASSUME Inv, Step \/ Disturbance
  PROVE  /\ ClaimsOK' /\ MailboxTypeOK' /\ BmTypeOK' /\ RestTypeOK' /\ WorkerTypeOK'
         /\ QueuedUnclaimed' /\ ClaimsStep
<1>1. BmInv /\ RestInv /\ WorkerInv
  BY DEF Inv, TypeOK, ClaimsOK, BmInv, RestInv, WorkerInv
<1>2. CASE /\ BmNext \/ BmTimeout \/ BmFault
           /\ UNCHANGED <<restVars, workerVars>>
  <2>1. BmInv' /\ ClaimsStep
    BY <1>1, <1>2, BundleManagerSteps
  <2>2. RestTypeOK' /\ WorkerTypeOK'
    BY <1>1, <1>2 DEF RestInv, WorkerInv, RestTypeOK, WorkerTypeOK, restVars, workerVars
  <2>3. QED
    BY <2>1, <2>2 DEF BmInv
<1>3. ASSUME Calm, UNCHANGED bmVars
      PROVE  BmTypeOK' /\ QueuedUnclaimed'
  BY <1>1, <1>3, CalmKeepsQueue DEF BmInv
<1>4. CASE (RestNext \/ RestFault) /\ UNCHANGED <<bmVars, workerVars>>
  <2>1. RestInv' /\ Calm /\ ClaimsStep
    BY <1>1, <1>4, RestServerSteps
  <2>2. WorkerTypeOK'
    BY <1>1, <1>4 DEF WorkerInv, WorkerTypeOK, workerVars
  <2>3. BmTypeOK' /\ QueuedUnclaimed'
    BY <1>3, <1>4, <2>1
  <2>4. QED
    BY <2>1, <2>2, <2>3 DEF RestInv
<1>5. CASE (WorkerNext \/ WorkerFault) /\ UNCHANGED bmVars
  <2>1. WorkerInv' /\ Calm /\ ClaimsStep
    BY <1>1, <1>5, WorkerSteps
  <2>2. BmTypeOK' /\ QueuedUnclaimed'
    BY <1>3, <1>5, <2>1
  <2>3. QED
    BY <2>1, <2>2 DEF WorkerInv, RestInv
<1>6. QED
  BY <1>2, <1>4, <1>5, DueTimeoutIsTimeout DEF Step, Disturbance

(* Inv holds when nothing has happened yet. *)
LEMMA InitEstablishesInv ==
  ASSUME Init
  PROVE  Inv /\ Claims!Init
<1>1. DbTypeOK
  BY DEF Init, DbInit, DbTypeOK, BundleState, Failure
<1>2. MailboxTypeOK /\ BmTypeOK /\ RestTypeOK
  BY DEF Init, MailboxInit, MailboxTypeOK, BmInit, BmTypeOK, Phase, RestInit, RestTypeOK
<1>3. WorkerTypeOK
  <2>1. NoRun \in Run
    BY DEF Run, NoRun, Stage, Failure
  <2>2. QED
    BY <2>1 DEF Init, WorkerInit, WorkerTypeOK
<1>4. faults \in 0..MaxFaults /\ succeeded \subseteq Bundles /\ reached \subseteq Bundles \X FinalStates
  BY MaxFaultsAssumption DEF Init
<1>5. OneClaim /\ WaitingUnclaimed
  BY DEF Init, DbInit, OneClaim, WaitingUnclaimed, Claimed, Claimants
<1>6. QueuedUnclaimed
  BY DEF Init, BmInit, QueuedUnclaimed
<1>7. Claims!Init
  BY DEF Init, DbInit, Claims!Init, WaitingStates
<1>8. QED
  BY <1>1, <1>2, <1>3, <1>4, <1>5, <1>6, <1>7 DEF Inv, TypeOK

(* A step that changes nothing keeps Inv and is a stutter of RunClaims. *)
LEMMA Stutter ==
  ASSUME Inv, UNCHANGED vars
  PROVE  Inv' /\ ClaimsStep
<1>1. TypeOK'
  BY DEF Inv, TypeOK, DbTypeOK, MailboxTypeOK, BmTypeOK, RestTypeOK, WorkerTypeOK,
         vars, dbVars, bmVars, restVars, workerVars, history
<1>2. OneClaim' /\ WaitingUnclaimed'
  BY DEF Inv, OneClaim, WaitingUnclaimed, Claimed, Claimants, vars, dbVars
<1>3. QueuedUnclaimed'
  <2>1. Calm /\ UNCHANGED bmVars
    BY DEF Calm, Claimed, Claimants, vars, dbVars
  <2>2. QED
    BY <2>1, CalmKeepsQueue DEF Inv, TypeOK
<1>4. ClaimsStep
  BY DEF ClaimsStep, Claims!vars, vars, dbVars
<1>5. QED
  BY <1>1, <1>2, <1>3, <1>4 DEF Inv

(* Inv is inductive, and under it every step is a step of RunClaims. *)
LEMMA NextKeepsInv ==
  ASSUME Inv, [Next]_vars
  PROVE  Inv' /\ ClaimsStep
<1>1. CASE Next
  <2>1. /\ ClaimsOK' /\ MailboxTypeOK' /\ BmTypeOK' /\ RestTypeOK' /\ WorkerTypeOK'
        /\ QueuedUnclaimed' /\ ClaimsStep
    BY <1>1, ActorSteps DEF Next
  <2>2. faults' \in 0..MaxFaults
    BY <1>1, MaxFaultsAssumption DEF Next, Inv, TypeOK
  <2>3. succeeded' \subseteq Bundles /\ reached' \subseteq Bundles \X FinalStates
    BY <1>1, <2>1, RecordTyped DEF Next, Inv, ClaimsOK
  <2>4. QED
    BY <2>1, <2>2, <2>3 DEF Inv, TypeOK, ClaimsOK
<1>2. CASE UNCHANGED vars
  BY <1>2, Stutter
<1>3. QED
  BY <1>1, <1>2

(* Inv holds in every state of every behaviour. *)
LEMMA InvHolds == Spec => []Inv
<1>1. Init => Inv
  BY InitEstablishesInv
<1>2. Inv /\ [Next]_vars => Inv'
  BY NextKeepsInv
<1>3. QED
  BY <1>1, <1>2, PTL DEF Spec

-----------------------------------------------------------------------------
(* The tables, the messages and requests under way and the memory of every *)
(* process keep their shape, whatever is lost and whoever crashes.         *)
THEOREM TypeCorrect == Spec => []TypeOK
<1>1. Inv => TypeOK
  BY DEF Inv
<1>2. QED
  BY <1>1, InvHolds, PTL

(* No bundle ever has two worker_run rows, although no constraint of the   *)
(* table forbids it: transition_bundle_starting never meets a row that a   *)
(* late check-in put back.                                                 *)
THEOREM AlwaysOneClaim == Spec => []OneClaim
<1>1. Inv => OneClaim
  BY DEF Inv
<1>2. QED
  BY <1>1, InvHolds, PTL

(* transition_bundle_running never finds a row for a bundle in             *)
(* WORKER_OFFLINE: the IntegrityError it calls a panic is not reachable.   *)
THEOREM AlwaysOfflineUnclaimed == Spec => []OfflineUnclaimed
<1>1. Inv => OfflineUnclaimed
  BY DEF Inv, WaitingUnclaimed, OfflineUnclaimed, WaitingStates
<1>2. QED
  BY <1>1, InvHolds, PTL

(* A bundle that waits to be staged or dispatched, or is deleted, has no   *)
(* worker_run row.                                                         *)
THEOREM AlwaysStagedUnclaimed == Spec => []StagedUnclaimed
<1>1. Inv => StagedUnclaimed
  BY DEF Inv, WaitingUnclaimed, StagedUnclaimed, WaitingStates
<1>2. QED
  BY <1>1, InvHolds, PTL

(* The stale copies from which the bundle manager stages and dispatches    *)
(* stay right about the worker_run table until it writes to it itself.     *)
THEOREM AlwaysQueuedUnclaimed == Spec => []QueuedUnclaimed
<1>1. Inv => QueuedUnclaimed
  BY DEF Inv
<1>2. QED
  BY <1>1, InvHolds, PTL

(* The worker_run table is a table of exclusive leases: every behaviour of *)
(* bundle manager, REST server and workers is one of RunClaims.            *)
THEOREM ImplementsRunClaims == Spec => ClaimsSpec
<1>1. Init => Claims!Init
  BY InitEstablishesInv
<1>2. Inv /\ [Next]_vars => [Claims!Next]_(Claims!vars)
  BY NextKeepsInv DEF ClaimsStep
<1>3. QED
  BY <1>1, <1>2, InvHolds, PTL DEF Spec, ClaimsSpec, Claims!Spec
-----------------------------------------------------------------------------
(* What nothing disturbs.  The order in which a bundle that nobody kills   *)
(* or deletes goes through its states is set by the messages about it, the *)
(* reports under way, the rows of worker_run and the bundle manager's list *)
(* together: each of them, if stale, could start the bundle a second time. *)

(* No request of a user is under way, no worker stops, no check-in was     *)
(* given up, and nothing calls a worker preemptible.                       *)
Quiet ==
    /\ kills = {} /\ deletes = {}
    /\ \A w \in Workers : wstate[w] = "up"
    /\ \A c \in checkins : ~c.abandoned
    /\ \A b \in Bundles : ~onPreemptible[b]
    /\ \A c \in bmList : ~c.onPreemptible
    /\ \A w \in Workers, b \in Bundles :
         ~runs[w][b].restaged /\ runs[w][b].stage # "restaged"

(* A worker that waits for the answer to its check-in changes no run, so   *)
(* what it reports is still true when it is written.                       *)
ReportsCurrent ==
    \A c \in checkins : \A r \in c.runs :
      /\ HasRun(c.from, r.bundle)
      /\ r.state = ServerState(runs[c.from][r.bundle].stage)

OneRun == \A b \in Bundles : \A v, w \in Workers : HasRun(v, b) /\ HasRun(w, b) => v = w

MessagesFor(b) == {m \in mailbox : m.bundle = b}

(* Nobody knows of the bundle, ... *)
Untouched(b) == ~Claimed(b) /\ MessagesFor(b) = {} /\ \A w \in Workers : ~HasRun(w, b)

(* ... a worker was chosen and is about to be told, ... *)
Assigned(b) ==
    /\ Claimed(b)
    /\ \A w \in Workers : ~HasRun(w, b)
    /\ \A m \in MessagesFor(b) : m.type = "run" /\ m.to \in Claimants(b)
    /\ MessagesFor(b) = {} => bmPc = "send" /\ \E w \in Workers : <<w, b>> \in bmCurrent

(* ... has the run, ... *)
Held(b) ==
    /\ Claimed(b) /\ MessagesFor(b) = {}
    /\ \A w \in Claimants(b) : HasRun(w, b) /\ ~runs[w][b].finalized

(* ... or is done with it. *)
Ended(b) ==
    /\ \A w \in Workers : HasRun(w, b) => runs[w][b].stage = "finalizing"
    /\ \A m \in MessagesFor(b) : m.type = "mark_finalized"

EndStates == {"finalizing", "worker_offline"} \union FinalStates

InCourse(b) ==
    \/ state[b] \in {"created", "staged"} /\ Untouched(b)
    \/ state[b] = "starting" /\ Assigned(b)
    \/ state[b] \in {"preparing", "running"} /\ Held(b)
    \/ state[b] \in EndStates /\ Ended(b)

(* What the bundle manager read when a phase began is still true.          *)
ListCurrent ==
    /\ bmPc = "stage" => \A c \in bmList : state[c.bundle] = "created"
    /\ bmPc \in {"admit", "dispatch"} => \A c \in bmList : state[c.bundle] = "staged"
    /\ bmPc = "send" =>
         /\ \A c \in bmList : state[c.bundle] = "staged" \/ Sending(c)
         /\ \A p \in bmCurrent : /\ state[p[2]] = "starting" /\ p \in workerRun
                                 /\ MessagesFor(p[2]) = {}
    /\ bmPc = "restage" => \A c \in bmList : Claimed(c.bundle)
    /\ bmPc \in {"acknowledge", "finalize"} => \A c \in bmList : state[c.bundle] \in EndStates

InOrder ==
    Quiet /\ ReportsCurrent /\ OneRun /\ ListCurrent /\ \A b \in Bundles : InCourse(b)

OrderInv == faults = 0 => InOrder

-----------------------------------------------------------------------------
(* A bundle that a step has nothing to do with stays in course. *)
LEMMA CourseKept ==
  ASSUME NEW b \in Bundles, InCourse(b), state'[b] = state[b],
         Claimants(b)' = Claimants(b), MessagesFor(b)' = MessagesFor(b),
         \A w \in Workers : runs'[w][b] = runs[w][b],
         bmPc = "send" /\ (\E w \in Workers : <<w, b>> \in bmCurrent) =>
           bmPc' = "send" /\ \E w \in Workers : <<w, b>> \in bmCurrent'
  PROVE  InCourse(b)'
<1>1. Untouched(b) => Untouched(b)'
  BY DEF Untouched, Claimed, HasRun
<1>2. Assigned(b) => Assigned(b)'
  BY DEF Assigned, Claimed, HasRun
<1>3. Held(b) => Held(b)'
  <2>1. Claimants(b) \subseteq Workers
    BY DEF Claimants
  <2>2. QED
    BY <2>1 DEF Held, Claimed, HasRun
<1>4. Ended(b) => Ended(b)'
  BY DEF Ended, HasRun
<1>5. QED
  BY <1>1, <1>2, <1>3, <1>4 DEF InCourse

(* What the states say of a bundle. *)
LEMMA CourseByState ==
  ASSUME NEW b \in Bundles, InCourse(b)
  PROVE  /\ state[b] # "deleted"
         /\ state[b] \in {"created", "staged"} => Untouched(b)
         /\ state[b] = "starting" => Assigned(b)
         /\ state[b] \in {"preparing", "running"} => Held(b)
         /\ state[b] \in EndStates => Ended(b)
BY DEF InCourse, EndStates, FinalStates

(* A bundle of which a worker has the run, or reports it, is being run or  *)
(* was run.                                                                *)
LEMMA RunMeansCourse ==
  ASSUME InOrder, NEW w \in Workers, NEW b \in Bundles, HasRun(w, b)
  PROVE  \/ state[b] \in {"preparing", "running"} /\ Held(b)
         \/ state[b] \in EndStates /\ Ended(b) /\ runs[w][b].stage = "finalizing"
<1>1. InCourse(b)
  BY DEF InOrder
<1>2. ~Untouched(b) /\ ~Assigned(b)
  BY DEF Untouched, Assigned
<1>3. Ended(b) => runs[w][b].stage = "finalizing"
  BY DEF Ended
<1>4. QED
  BY <1>1, <1>2, <1>3 DEF InCourse

-----------------------------------------------------------------------------
(* The steps of the bundle manager leave the workers and requests alone. *)
LEMMA ManagerLeaves ==
  ASSUME InOrder, UNCHANGED <<restVars, workerVars>>,
         \A b \in Bundles : ~onPreemptible'[b], \A c \in bmList' : ~c.onPreemptible
  PROVE  Quiet' /\ ReportsCurrent' /\ OneRun'
<1>1. Quiet'
  BY DEF InOrder, Quiet, restVars, workerVars
<1>2. ReportsCurrent'
  BY DEF InOrder, ReportsCurrent, HasRun, restVars, workerVars
<1>3. OneRun'
  BY DEF InOrder, OneRun, HasRun, workerVars
<1>4. QED
  BY <1>1, <1>2, <1>3

LEMMA EnterInOrder ==
  ASSUME InOrder, UNCHANGED <<restVars, workerVars>>,
         NEW phase \in Phase \ {"idle", "finalize", "dispatch", "send"},
         NEW copies \in SUBSET BundleCopy,
         \A c \in copies : ~c.onPreemptible,
         phase = "stage" => \A c \in copies : state[c.bundle] = "created",
         phase = "admit" => \A c \in copies : state[c.bundle] = "staged",
         phase = "restage" => \A c \in copies : state[c.bundle] = "starting",
         phase = "acknowledge" => \A c \in copies : state[c.bundle] = "finalizing",
         Enter(phase, copies)
  PROVE  InOrder'
<1>1. UNCHANGED <<dbVars, mailbox, bmCurrent>> /\ bmPc = "idle" /\ bmPc' = phase /\ bmList' = copies
  BY DEF Enter
<1>2. Quiet' /\ ReportsCurrent' /\ OneRun'
  BY <1>1, ManagerLeaves DEF dbVars, InOrder, Quiet
<1>3. ASSUME NEW b \in Bundles
      PROVE  InCourse(b)'
  <2>1. UNCHANGED <<runs, workerRun, mailbox, state>>
    BY <1>1 DEF dbVars, workerVars
  <2>2. Claimants(b)' = Claimants(b) /\ MessagesFor(b)' = MessagesFor(b)
    BY <2>1 DEF Claimants, MessagesFor
  <2>3. QED
    BY <1>1, <2>1, <2>2, CourseKept DEF InOrder
<1>4. \A c \in copies : c.bundle \in Bundles
  BY DEF BundleCopy
<1>5. phase = "restage" => \A c \in copies : Claimed(c.bundle)'
  <2>1. SUFFICES ASSUME phase = "restage", NEW c \in copies
                 PROVE  Claimed(c.bundle)'
    OBVIOUS
  <2>2. Assigned(c.bundle)
    BY <1>4, <2>1, CourseByState DEF InOrder
  <2>3. QED
    BY <1>1, <2>2 DEF Assigned, Claimed, Claimants, dbVars
<1>6. ListCurrent'
  BY <1>1, <1>5 DEF ListCurrent, EndStates, Phase, dbVars
<1>7. QED
  BY <1>2, <1>3, <1>6 DEF InOrder

(* Each phase reads bundles in the state it is for. *)
LEMMA ReadInOrder ==
  ASSUME Inv, InOrder, UNCHANGED <<restVars, workerVars>>,
         ReadCreated \/ ReadStarting \/ ReadActive \/ ReadFinalizing \/ ReadStaged \/ ReadUnresponsive
  PROVE  InOrder'
<1>1. DbTypeOK
  BY DEF Inv, TypeOK
<1>2. ASSUME NEW b \in Bundles, NEW p \in Plan
      PROVE  Copy(b, p) \in BundleCopy /\ Copy(b, p).bundle = b /\ ~Copy(b, p).onPreemptible
  <2>1. Copy(b, p) \in BundleCopy /\ Copy(b, p).bundle = b
    BY <1>1, CopiesTyped
  <2>2. ~onPreemptible[b]
    BY DEF InOrder, Quiet
  <2>3. QED
    BY <2>1, <2>2 DEF Copy
<1>3. ASSUME NEW S
      PROVE  /\ CopiesIn(S) \subseteq BundleCopy
             /\ \A c \in CopiesIn(S) : state[c.bundle] \in S /\ ~c.onPreemptible
  BY <1>2 DEF CopiesIn, Plan
<1>4. CASE ReadCreated
  <2> DEFINE copies == {Copy(b, StagePlan(b)) : b \in {x \in Bundles :
                                               state[x] = "created" /\ StagePlan(x) # "none"}}
  <2>1. \A b \in Bundles : StagePlan(b) \in Plan
    BY DEF StagePlan, Plan
  <2>2. copies \subseteq BundleCopy /\ \A c \in copies : state[c.bundle] = "created" /\ ~c.onPreemptible
    BY <1>2, <2>1
  <2>3. Enter("stage", copies)
    BY <1>4 DEF ReadCreated
  <2>4. QED
    BY <2>2, <2>3, EnterInOrder DEF Phase
<1>5. CASE ReadStarting
  BY <1>3, <1>5, EnterInOrder DEF ReadStarting, Phase
<1>6. CASE ReadActive
  BY <1>3, <1>6, EnterInOrder DEF ReadActive, Phase
<1>7. CASE ReadFinalizing
  BY <1>3, <1>7, EnterInOrder DEF ReadFinalizing, Phase
<1>8. CASE ReadStaged
  BY <1>3, <1>8, EnterInOrder DEF ReadStaged, Phase
<1>9. CASE ReadUnresponsive
  BY <1>3, <1>9, EnterInOrder DEF ReadUnresponsive, Phase
<1>10. QED
  BY <1>4, <1>5, <1>6, <1>7, <1>8, <1>9

(* A step about one bundle: the rest keep their course. *)
LEMMA OneCourse ==
  ASSUME Inv, InOrder, NEW b \in Bundles, InCourse(b)', workerRun' \subseteq Workers \X Bundles,
         \A x \in Bundles \ {b} :
           /\ state'[x] = state[x]
           /\ \A w \in Workers : <<w, x>> \in workerRun' <=> <<w, x>> \in workerRun
           /\ \A m \in Message : m.bundle = x => (m \in mailbox' <=> m \in mailbox)
           /\ \A w \in Workers : runs'[w][x] = runs[w][x]
           /\ bmPc = "send" /\ (\E w \in Workers : <<w, x>> \in bmCurrent) =>
                bmPc' = "send" /\ \E w \in Workers : <<w, x>> \in bmCurrent',
         mailbox' \subseteq Message
  PROVE  \A x \in Bundles : InCourse(x)'
<1>1. SUFFICES ASSUME NEW x \in Bundles \ {b}
               PROVE  InCourse(x)'
  OBVIOUS
<1>2. Claimants(x)' = Claimants(x)
  BY DEF Claimants
<1>3. mailbox \subseteq Message
  BY DEF Inv, TypeOK, MailboxTypeOK
<1>4. MessagesFor(x)' = MessagesFor(x)
  BY <1>3 DEF MessagesFor
<1>5. QED
  BY <1>2, <1>4, CourseKept DEF InOrder

(* The copies that remain after one is dealt with are of other bundles.    *)
LEMMA RestOfList ==
  ASSUME Inv, InOrder, NEW c \in bmList, bmPc # "send",
         bmList' = bmList \ {c}, bmPc' \in {"idle", "acknowledge", bmPc},
         bmPc' = "acknowledge" => bmPc \in {"acknowledge", "finalize"},
         \A x \in Bundles \ {c.bundle} :
           state'[x] = state[x] /\ \A w \in Workers : <<w, x>> \in workerRun => <<w, x>> \in workerRun'
  PROVE  ListCurrent' /\ \A d \in bmList' : ~d.onPreemptible
<1>1. \A d \in bmList' : d \in bmList /\ d.bundle \in Bundles \ {c.bundle}
  BY DEF Inv, QueuedUnclaimed, TypeOK, BmTypeOK, BundleCopy
<1>2. \A d \in bmList' : state'[d.bundle] = state[d.bundle] /\ (Claimed(d.bundle) => Claimed(d.bundle)')
  BY <1>1 DEF Claimed, Claimants
<1>3. ListCurrent
  BY DEF InOrder
<1>4. ListCurrent'
  BY <1>1, <1>2, <1>3 DEF ListCurrent, EndStates
<1>5. QED
  BY <1>1, <1>4 DEF InOrder, Quiet

(* A copy is dealt with, and nothing written. *)
LEMMA KeepInOrder ==
  ASSUME Inv, InOrder, UNCHANGED <<restVars, workerVars>>, NEW c \in bmList,
         KeepStarting(c) \/ KeepRunning(c) \/ SkipStaged(c) \/ KeepResponsive(c)
  PROVE  InOrder'
<1>1. /\ UNCHANGED <<dbVars, mailbox, bmCurrent>> /\ bmPc # "send" /\ bmPc # "acknowledge"
      /\ bmList' = bmList \ {c} /\ bmPc' \in {"idle", bmPc}
  BY DEF KeepStarting, KeepRunning, SkipStaged, KeepResponsive, Done
<1>2. ListCurrent' /\ \A d \in bmList' : ~d.onPreemptible
  BY <1>1, RestOfList DEF dbVars
<1>3. Quiet' /\ ReportsCurrent' /\ OneRun'
  BY <1>1, <1>2, ManagerLeaves DEF dbVars, InOrder, Quiet
<1>4. ASSUME NEW b \in Bundles
      PROVE  InCourse(b)'
  <2>1. UNCHANGED <<runs, workerRun, mailbox, state>>
    BY <1>1 DEF dbVars, workerVars
  <2>2. Claimants(b)' = Claimants(b) /\ MessagesFor(b)' = MessagesFor(b)
    BY <2>1 DEF Claimants, MessagesFor
  <2>3. QED
    BY <1>1, <2>1, <2>2, CourseKept DEF InOrder
<1>5. QED
  BY <1>2, <1>3, <1>4 DEF InOrder

(* A copy is dealt with by a write about its bundle, which stays in course.*)
LEMMA WriteInOrder ==
  ASSUME Inv, InOrder, UNCHANGED <<restVars, workerVars, mailbox, onPreemptible>>,
         NEW c \in bmList, NEW s \in BundleState,
         bmPc # "send", bmList' = bmList \ {c}, bmPc' \in {"idle", "acknowledge", bmPc},
         bmPc' = "acknowledge" => bmPc \in {"acknowledge", "finalize"},
         state' = [state EXCEPT ![c.bundle] = s],
         workerRun' = workerRun \/ workerRun' = WithoutRunsOf(c.bundle),
         InCourse(c.bundle)'
  PROVE  InOrder'
<1>1. c.bundle \in Bundles
  BY DEF Inv, TypeOK, BmTypeOK, BundleCopy
<1>2. \A x \in Bundles \ {c.bundle} : state'[x] = state[x]
  BY <1>1 DEF Inv, TypeOK, DbTypeOK
<1>3. \A x \in Bundles \ {c.bundle} : \A w \in Workers : <<w, x>> \in workerRun' <=> <<w, x>> \in workerRun
  BY DEF WithoutRunsOf
<1>4. ListCurrent' /\ \A d \in bmList' : ~d.onPreemptible
  BY <1>2, <1>3, RestOfList
<1>5. Quiet' /\ ReportsCurrent' /\ OneRun'
  BY <1>4, ManagerLeaves DEF InOrder, Quiet
<1>6. mailbox' = mailbox /\ mailbox \subseteq Message /\ runs' = runs
  BY DEF Inv, TypeOK, MailboxTypeOK, workerVars
<1>7. workerRun' \subseteq Workers \X Bundles
  BY DEF Inv, TypeOK, DbTypeOK, WithoutRunsOf
<1>8. \A x \in Bundles : InCourse(x)'
  BY <1>1, <1>2, <1>3, <1>6, <1>7, OneCourse
<1>9. QED
  BY <1>4, <1>5, <1>8 DEF InOrder

(* The state goes to one of the end, and the bundle was done with.         *)
LEMMA EndInCourse ==
  ASSUME NEW b \in Bundles, Untouched(b) \/ Ended(b), UNCHANGED <<runs, mailbox>>, state'[b] \in EndStates
  PROVE  InCourse(b)'
<1>1. Ended(b)'
  BY DEF Untouched, Ended, HasRun, MessagesFor
<1>2. QED
  BY <1>1 DEF InCourse

(* _stage_bundles *)
LEMMA StageInOrder ==
  ASSUME Inv, InOrder, UNCHANGED <<restVars, workerVars>>, NEW c \in bmList,
         FailUnstageable(c) \/ StageReady(c)
  PROVE  InOrder'
<1>1. /\ UNCHANGED <<mailbox, onPreemptible, workerRun>> /\ bmPc = "stage" /\ c.bundle \in Bundles
      /\ bmList' = bmList \ {c} /\ bmPc' \in {"idle", bmPc} /\ state \in [Bundles -> BundleState]
  BY DEF FailUnstageable, StageReady, Done, UpdateState, UpdateStateAndFailure, Inv, TypeOK, BmTypeOK,
         BundleCopy, DbTypeOK
<1>2. Untouched(c.bundle)
  BY <1>1, CourseByState DEF InOrder, ListCurrent
<1>3. CASE FailUnstageable(c)
  <2>1. state' = [state EXCEPT ![c.bundle] = "failed"]
    BY <1>3 DEF FailUnstageable, UpdateStateAndFailure
  <2>2. state'[c.bundle] \in EndStates
    BY <1>1, <2>1 DEF EndStates, FinalStates
  <2>3. InCourse(c.bundle)'
    BY <1>1, <1>2, <2>2, EndInCourse DEF workerVars
  <2>4. "failed" \in BundleState
    BY DEF BundleState, FinalStates
  <2>5. QED
    BY <1>1, <2>1, <2>3, <2>4, WriteInOrder
<1>4. CASE StageReady(c)
  <2>1. state' = [state EXCEPT ![c.bundle] = "staged"]
    BY <1>4 DEF StageReady, UpdateState
  <2>2. Untouched(c.bundle)'
    BY <1>1, <1>2 DEF Untouched, HasRun, MessagesFor, Claimed, Claimants, workerVars
  <2>3. InCourse(c.bundle)'
    BY <1>1, <2>1, <2>2 DEF InCourse
  <2>4. "staged" \in BundleState
    BY DEF BundleState
  <2>5. QED
    BY <1>1, <2>1, <2>3, <2>4, WriteInOrder
<1>5. QED
  BY <1>3, <1>4

(* A bundle taken offline is one that was done with: a worker that has its *)
(* run still reports it.                                                   *)
LEMMA OfflineInOrder ==
  ASSUME Inv, InOrder, UNCHANGED <<restVars, workerVars>>, NEW c \in bmList,
         state[c.bundle] \in EndStates, bmPc \in {"offline", "acknowledge"}, Done(c),
         TransitionWorkerOffline(c.bundle, c.onPreemptible)
  PROVE  InOrder'
<1>1. /\ UNCHANGED mailbox /\ c.bundle \in Bundles /\ state \in [Bundles -> BundleState]
      /\ bmList' = bmList \ {c} /\ bmPc' \in {"idle", bmPc} /\ ~c.onPreemptible
  BY DEF Done, Inv, TypeOK, BmTypeOK, BundleCopy, DbTypeOK, InOrder, Quiet
<1>2. Ended(c.bundle)
  BY <1>1, CourseByState DEF InOrder
<1>3. CASE state[c.bundle] = "finalizing"
  <2>1. /\ state' = [state EXCEPT ![c.bundle] = "worker_offline"]
        /\ workerRun' = WithoutRunsOf(c.bundle) /\ UNCHANGED onPreemptible
    BY <1>1, <1>3 DEF TransitionWorkerOffline
  <2>2. state'[c.bundle] \in EndStates
    BY <1>1, <2>1 DEF EndStates
  <2>3. InCourse(c.bundle)'
    BY <1>1, <1>2, <2>2, EndInCourse DEF workerVars
  <2>4. "worker_offline" \in BundleState
    BY DEF BundleState
  <2>5. QED
    BY <1>1, <2>1, <2>3, <2>4, WriteInOrder
<1>4. CASE state[c.bundle] # "finalizing"
  <2>1. UNCHANGED <<state, workerRun, onPreemptible>>
    BY <1>4 DEF TransitionWorkerOffline, EndStates, FinalStates, dbVars
  <2>2. state' = [state EXCEPT ![c.bundle] = state[c.bundle]] /\ state[c.bundle] \in BundleState
    BY <1>1, <2>1
  <2>3. InCourse(c.bundle)'
    BY <1>1, <1>2, <2>1, EndInCourse DEF workerVars
  <2>4. QED
    BY <1>1, <2>1, <2>2, <2>3, WriteInOrder
<1>5. QED
  BY <1>3, <1>4

(* A bundle that a worker prepares or runs has its row, and the worker     *)
(* reports it.                                                             *)
LEMMA ActiveInOrder ==
  ASSUME Inv, InOrder, NEW b \in Bundles, state[b] \in {"preparing", "running"}
  PROVE  Claimed(b) /\ ~NobodyReports(b)
<1>1. Held(b)
  BY CourseByState DEF InOrder
<1>2. PICK w \in Workers : <<w, b>> \in workerRun
  BY <1>1 DEF Held, Claimed, Claimants
<1>3. HasRun(w, b)
  BY <1>1, <1>2 DEF Held, Claimants
<1>4. wstate[w] = "up"
  BY DEF InOrder, Quiet
<1>5. QED
  BY <1>1, <1>3, <1>4 DEF Held, NobodyReports

(* _bring_offline_stuck_running_bundles *)
LEMMA BringOfflineInOrder ==
  ASSUME Inv, InOrder, UNCHANGED <<restVars, workerVars>>, NEW c \in bmList,
         OfflineUnclaimedRun(c) \/ (NobodyReports(c.bundle) /\ BringOffline(c))
  PROVE  InOrder'
<1>1. /\ UNCHANGED mailbox /\ c.bundle \in Bundles /\ state \in [Bundles -> BundleState]
      /\ bmList' = bmList \ {c} /\ bmPc' \in {"idle", bmPc} /\ bmPc = "offline" /\ ~c.onPreemptible
  BY DEF OfflineUnclaimedRun, BringOffline, Done, Inv, TypeOK, BmTypeOK, BundleCopy, DbTypeOK,
         InOrder, Quiet
<1>2. state[c.bundle] \notin {"preparing", "running"}
  BY <1>1, ActiveInOrder DEF OfflineUnclaimedRun, BringOffline
<1>3. CASE state[c.bundle] \in EndStates
  BY <1>1, <1>3, OfflineInOrder DEF OfflineUnclaimedRun, BringOffline
<1>4. CASE state[c.bundle] \notin EndStates
  <2>1. UNCHANGED <<state, workerRun, onPreemptible>>
    BY <1>2, <1>4 DEF OfflineUnclaimedRun, BringOffline, TransitionWorkerOffline, EndStates, dbVars
  <2>2. state' = [state EXCEPT ![c.bundle] = state[c.bundle]] /\ state[c.bundle] \in BundleState
    BY <1>1, <2>1
  <2>3. InCourse(c.bundle)'
    <3>1. Claimants(c.bundle)' = Claimants(c.bundle) /\ MessagesFor(c.bundle)' = MessagesFor(c.bundle)
      BY <1>1, <2>1 DEF Claimants, MessagesFor
    <3>2. QED
      BY <1>1, <2>1, <3>1, CourseKept DEF InOrder, workerVars
  <2>4. QED
    BY <1>1, <2>1, <2>2, <2>3, WriteInOrder
<1>5. QED
  BY <1>3, <1>4

(* _restage_stuck_starting_bundles finds nothing to restage: a bundle that *)
(* is STARTING has its row, and the message about it is on its way.        *)
LEMMA NothingRestaged ==
  ASSUME Inv, InOrder, NEW c \in bmList
  PROVE  ~RestageUnclaimed(c) /\ ~(RunMessageGone(c.bundle) /\ RestageStuck(c))
<1>1. c.bundle \in Bundles
  BY DEF Inv, TypeOK, BmTypeOK, BundleCopy
<1>2. ~RestageUnclaimed(c)
  BY DEF RestageUnclaimed, InOrder, ListCurrent
<1>3. ASSUME RunMessageGone(c.bundle), RestageStuck(c)
      PROVE  FALSE
  <2>1. Assigned(c.bundle) /\ bmPc = "restage"
    BY <1>1, <1>3, CourseByState DEF InOrder, RunMessageGone, RestageStuck
  <2>2. \A m \in MessagesFor(c.bundle) : m.type = "run" /\ m.type # "run"
    BY <1>3, <2>1 DEF Assigned, RunMessageGone, MessagesFor
  <2>3. QED
    BY <2>1, <2>2 DEF Assigned
<1>4. QED
  BY <1>2, <1>3

(* _acknowledge_recently_finished_bundles *)
LEMMA FinishInOrder ==
  ASSUME Inv, InOrder, UNCHANGED <<restVars, workerVars>>, NEW c \in bmList,
         FinalizingUnclaimed(c) \/ FinishBundle(c)
  PROVE  InOrder'
<1>1. c.bundle \in Bundles /\ c.failure \in Failure
  BY DEF Inv, TypeOK, BmTypeOK, BundleCopy
<1>2. state[c.bundle] \in EndStates
  BY DEF FinalizingUnclaimed, FinishBundle, InOrder, ListCurrent
<1>3. CASE FinalizingUnclaimed(c)
  BY <1>2, <1>3, OfflineInOrder DEF FinalizingUnclaimed
<1>4. CASE FinishBundle(c)
  <2>1. /\ UNCHANGED <<mailbox, onPreemptible>> /\ state \in [Bundles -> BundleState]
        /\ bmList' = bmList \ {c} /\ bmPc' \in {"idle", "acknowledge"} /\ bmPc = "finalize"
    BY <1>4 DEF FinishBundle, TransitionFinished, Inv, TypeOK, DbTypeOK
  <2>2. /\ state' = [state EXCEPT ![c.bundle] = Verdict(c.failure)]
        /\ workerRun' = WithoutRunsOf(c.bundle)
    BY <1>4 DEF FinishBundle, TransitionFinished
  <2>3. Verdict(c.failure) \in EndStates /\ Verdict(c.failure) \in BundleState
    BY <1>1 DEF Verdict, Failure, EndStates, FinalStates, BundleState
  <2>4. Ended(c.bundle)
    BY <1>1, <1>2, CourseByState DEF InOrder
  <2>5. InCourse(c.bundle)'
    BY <1>1, <2>1, <2>2, <2>3, <2>4, EndInCourse DEF workerVars
  <2>6. QED
    BY <2>1, <2>2, <2>3, <2>5, WriteInOrder
<1>5. QED
  BY <1>3, <1>4

LEMMA AcknowledgeInOrder ==
  ASSUME Inv, InOrder, UNCHANGED <<restVars, workerVars>>, NEW c \in bmList, NEW w \in Workers,
         SendMarkFinalized(c, w)
  PROVE  InOrder'
<1>1. /\ UNCHANGED <<bmList, state, workerRun, onPreemptible>> /\ UNCHANGED runs
      /\ bmPc = "acknowledge" /\ bmPc' = "finalize" /\ bmCurrent' = {<<w, c.bundle>>}
      /\ mailbox' = mailbox \union {Msg(w, "mark_finalized", c.bundle)}
      /\ c.bundle \in Bundles
  BY DEF SendMarkFinalized, WriteMarkFinalized, Deliver, dbVars, workerVars, Inv, TypeOK, BmTypeOK, BundleCopy
<1>2. state[c.bundle] \in EndStates
  BY <1>1 DEF InOrder, ListCurrent
<1>3. Ended(c.bundle)
  BY <1>1, <1>2, CourseByState DEF InOrder
<1>4. Ended(c.bundle)'
  BY <1>1, <1>3 DEF Ended, HasRun, MessagesFor, Msg
<1>5. InCourse(c.bundle)'
  BY <1>1, <1>2, <1>4 DEF InCourse
<1>6. mailbox' \subseteq Message /\ workerRun' \subseteq Workers \X Bundles
  BY <1>1 DEF Inv, TypeOK, MailboxTypeOK, DbTypeOK, Message, MessageType, Msg
<1>7. \A x \in Bundles \ {c.bundle} : \A m \in Message : m.bundle = x => (m \in mailbox' <=> m \in mailbox)
  BY <1>1 DEF Msg
<1>8. \A x \in Bundles : InCourse(x)'
  BY <1>1, <1>5, <1>6, <1>7, OneCourse
<1>9. ListCurrent'
  BY <1>1 DEF InOrder, ListCurrent
<1>10. Quiet' /\ ReportsCurrent' /\ OneRun'
  BY <1>1, ManagerLeaves DEF InOrder, Quiet
<1>11. QED
  BY <1>8, <1>9, <1>10 DEF InOrder

(* _schedule_run_bundles_on_workers *)
LEMMA DispatchInOrder ==
  ASSUME Inv, InOrder, UNCHANGED <<restVars, workerVars>>, NEW c \in bmList, NEW w \in Workers,
         TryStart(c, w) \/ SendRun(c, w)
  PROVE  InOrder'
<1> DEFINE b == c.bundle
<1>1. b \in Bundles /\ state \in [Bundles -> BundleState] /\ workerRun \subseteq Workers \X Bundles
  BY DEF Inv, TypeOK, BmTypeOK, BundleCopy, DbTypeOK
<1>2. CASE TryStart(c, w)
  <2>1. /\ UNCHANGED <<bmList, mailbox, onPreemptible>> /\ UNCHANGED runs
        /\ bmPc = "dispatch" /\ bmPc' = "send" /\ bmCurrent' = {<<w, b>>}
        /\ state' = [state EXCEPT ![b] = "starting"]
        /\ workerRun' = workerRun \union {<<w, b>>}
    BY <1>2 DEF TryStart, TransitionStarting, workerVars
  <2>2. state[b] = "staged" /\ Untouched(b)
    BY <1>1, <2>1, CourseByState DEF InOrder, ListCurrent
  <2>3. /\ <<w, b>> \in workerRun' /\ MessagesFor(b)' = {} /\ state'[b] = "starting"
        /\ \A v \in Workers : ~HasRun(v, b)'
    BY <1>1, <2>1, <2>2 DEF Untouched, MessagesFor, HasRun
  <2>4. InCourse(b)'
    BY <2>1, <2>3 DEF InCourse, Assigned, Claimed, Claimants
  <2>5. mailbox' \subseteq Message /\ workerRun' \subseteq Workers \X Bundles
    BY <1>1, <2>1 DEF Inv, TypeOK, MailboxTypeOK
  <2>6. \A x \in Bundles : InCourse(x)'
    BY <1>1, <2>1, <2>4, <2>5, OneCourse
  <2>7. \A d \in bmList : d = c \/ (d.bundle # b /\ state'[d.bundle] = "staged")
    <3>1. \A d \in bmList : d.bundle \in Bundles
      BY DEF Inv, TypeOK, BmTypeOK, BundleCopy
    <3>2. \A d \in bmList : state[d.bundle] = "staged" /\ (d.bundle = b => d = c)
      BY <2>1 DEF InOrder, ListCurrent, Inv, QueuedUnclaimed
    <3>3. QED
      BY <1>1, <2>1, <3>1, <3>2
  <2>8. ListCurrent'
    BY <2>1, <2>3, <2>7 DEF ListCurrent, Sending
  <2>9. Quiet' /\ ReportsCurrent' /\ OneRun'
    BY <2>1, ManagerLeaves DEF InOrder, Quiet
  <2>10. QED
    BY <2>6, <2>8, <2>9 DEF InOrder
<1>3. CASE SendRun(c, w)
  <2>1. /\ UNCHANGED <<state, workerRun, onPreemptible>> /\ UNCHANGED runs
        /\ bmPc = "send" /\ bmPc' \in {"idle", "dispatch"} /\ <<w, b>> \in bmCurrent /\ bmCurrent' = {}
        /\ bmList' = bmList \ {c}
        /\ mailbox' = mailbox \union {Msg(w, "run", b)}
    BY <1>3 DEF SendRun, WriteRun, Deliver, dbVars, workerVars
  <2>2. state[b] = "starting" /\ <<w, b>> \in workerRun /\ MessagesFor(b) = {}
    BY <2>1 DEF InOrder, ListCurrent
  <2>3. \A v \in Workers : ~HasRun(v, b)'
    BY <1>1, <2>1, <2>2, CourseByState DEF InOrder, Assigned, HasRun
  <2>4. MessagesFor(b)' = {Msg(w, "run", b)}
    BY <2>1, <2>2 DEF MessagesFor, Msg
  <2>5. Claimed(b)' /\ w \in Claimants(b)'
    BY <2>1, <2>2 DEF Claimed, Claimants
  <2>6. InCourse(b)'
    <3>1. /\ MessagesFor(b)' # {}
          /\ \A m \in MessagesFor(b)' : m.type = "run" /\ m.to = w
      BY <2>4 DEF Msg
    <3>2. Assigned(b)'
      BY <2>3, <2>5, <3>1 DEF Assigned
    <3>3. QED
      BY <2>1, <2>2, <3>2 DEF InCourse
  <2>7. mailbox' \subseteq Message
    BY <1>1, <2>1 DEF Inv, TypeOK, MailboxTypeOK, Message, MessageType, Msg
  <2>8. \A p \in bmCurrent : p = <<w, b>>
    BY <2>1 DEF Inv, QueuedUnclaimed
  <2>9. \A x \in Bundles \ {b} : \A m \in Message : m.bundle = x => (m \in mailbox' <=> m \in mailbox)
    BY <2>1 DEF Msg
  <2>10. \A x \in Bundles : InCourse(x)'
    BY <1>1, <2>1, <2>6, <2>7, <2>8, <2>9, OneCourse
  <2>11. \A d \in bmList' : state'[d.bundle] = "staged"
    <3>1. \A d \in bmList' : d.bundle # b
      BY <2>1 DEF Inv, QueuedUnclaimed
    <3>2. \A d \in bmList' : ~Sending(d)
      BY <2>8, <3>1 DEF Sending
    <3>3. QED
      BY <2>1, <3>2 DEF InOrder, ListCurrent
  <2>12. ListCurrent'
    BY <2>1, <2>11 DEF ListCurrent
  <2>13. Quiet' /\ ReportsCurrent' /\ OneRun'
    BY <2>1, ManagerLeaves DEF InOrder, Quiet
  <2>14. QED
    BY <2>10, <2>12, <2>13 DEF InOrder
<1>4. QED
  BY <1>2, <1>3

LEMMA BeginDispatchInOrder ==
  ASSUME Inv, InOrder, UNCHANGED <<restVars, workerVars>>, BeginDispatch
  PROVE  InOrder'
<1>1. /\ UNCHANGED <<bmList, bmCurrent, dbVars, mailbox>> /\ UNCHANGED runs
      /\ bmPc = "admit" /\ bmPc' = "dispatch"
  BY DEF BeginDispatch, workerVars
<1>2. \A b \in Bundles : InCourse(b)'
  <2>1. SUFFICES ASSUME NEW b \in Bundles
                 PROVE  InCourse(b)'
    OBVIOUS
  <2>2. Claimants(b)' = Claimants(b) /\ MessagesFor(b)' = MessagesFor(b)
    BY <1>1 DEF Claimants, MessagesFor, dbVars
  <2>3. QED
    BY <1>1, <2>2, CourseKept DEF InOrder, dbVars
<1>3. ListCurrent'
  BY <1>1 DEF InOrder, ListCurrent, dbVars
<1>4. Quiet' /\ ReportsCurrent' /\ OneRun'
  BY <1>1, ManagerLeaves DEF InOrder, Quiet, dbVars
<1>5. QED
  BY <1>2, <1>3, <1>4 DEF InOrder

(* No list has a bundle that is gone, and no worker that was up is cleaned *)
(* up.                                                                     *)
LEMMA NobodyGone ==
  ASSUME Inv, InOrder
  PROVE  ~AbortOnMissing /\ \A w \in Workers : ~WorkerGone(w)
<1>1. \A c \in bmList : c.bundle \in Bundles
  BY DEF Inv, TypeOK, BmTypeOK, BundleCopy
<1>2. \A b \in Bundles : Exists(b)
  BY CourseByState DEF InOrder, Exists
<1>3. QED
  BY <1>1, <1>2 DEF AbortOnMissing, WorkerGone, InOrder, Quiet

LEMMA ManagerInOrder ==
  ASSUME Inv, InOrder, UNCHANGED <<restVars, workerVars>>, BmNext \/ DueTimeout
  PROVE  InOrder'
<1>1. ASSUME NEW c \in bmList,
             \/ FailUnstageable(c) \/ StageReady(c) \/ RestageUnclaimed(c) \/ KeepStarting(c)
             \/ OfflineUnclaimedRun(c) \/ KeepRunning(c) \/ FinalizingUnclaimed(c) \/ FinishBundle(c)
             \/ SkipStaged(c) \/ KeepResponsive(c)
      PROVE  InOrder'
  BY <1>1, StageInOrder, NothingRestaged, KeepInOrder, BringOfflineInOrder, FinishInOrder
<1>2. ASSUME NEW c \in bmList, NEW w \in Workers,
             SendMarkFinalized(c, w) \/ TryStart(c, w) \/ SendRun(c, w)
      PROVE  InOrder'
  BY <1>2, AcknowledgeInOrder, DispatchInOrder
<1>3. CASE BmNext
  BY <1>1, <1>2, <1>3, ReadInOrder, BeginDispatchInOrder, NobodyGone DEF BmNext
<1>4. CASE DueTimeout
  BY <1>4, NobodyGone, NothingRestaged, BringOfflineInOrder DEF DueTimeout
<1>5. QED
  BY <1>3, <1>4

-----------------------------------------------------------------------------
(* The other side: requests handled and the steps of the workers.          *)

(* What the manager read stays true while others write: they touch no      *)
(* bundle that waits, and take no message from one that is being sent.     *)
LEMMA OthersKeepList ==
  ASSUME Inv, InOrder, UNCHANGED bmVars,
         workerRun \subseteq workerRun', mailbox' \subseteq mailbox,
         \A b \in Bundles :
           \/ state'[b] = state[b]
           \/ state[b] \in {"preparing", "running"}
           \/ state[b] \in EndStates /\ state'[b] \in EndStates
           \/ state[b] = "starting" /\ MessagesFor(b) # {}
  PROVE  ListCurrent'
<1>1. /\ \A c \in bmList : c.bundle \in Bundles
      /\ \A p \in bmCurrent : p[2] \in Bundles
  BY DEF Inv, TypeOK, BmTypeOK, BundleCopy
<1>2. UNCHANGED <<bmPc, bmList, bmCurrent>> /\ \A c \in bmList : Sending(c)' = Sending(c)
  BY DEF bmVars, Sending
<1>3. \A b \in Bundles : (Claimed(b) => Claimed(b)') /\ (MessagesFor(b) = {} => MessagesFor(b)' = {})
  BY DEF Claimed, Claimants, MessagesFor
<1>4. ASSUME NEW b \in Bundles
      PROVE  /\ state[b] \in {"created", "staged"} => state'[b] = state[b]
             /\ state[b] = "starting" /\ MessagesFor(b) = {} => state'[b] = state[b]
             /\ state[b] \in EndStates => state'[b] \in EndStates
  BY DEF EndStates, FinalStates
<1>5. ListCurrent
  BY DEF InOrder
<1>6. bmPc \in {"stage", "admit", "dispatch", "restage", "acknowledge", "finalize"} => ListCurrent'
  BY <1>1, <1>2, <1>3, <1>4, <1>5 DEF ListCurrent
<1>7. CASE bmPc = "send"
  <2>1. \A c \in bmList : state'[c.bundle] = "staged" \/ Sending(c)'
    BY <1>1, <1>2, <1>4, <1>5, <1>7 DEF ListCurrent
  <2>2. \A p \in bmCurrent : state'[p[2]] = "starting" /\ p \in workerRun' /\ MessagesFor(p[2])' = {}
    BY <1>1, <1>3, <1>4, <1>5, <1>7 DEF ListCurrent
  <2>3. QED
    BY <1>2, <1>7, <2>1, <2>2 DEF ListCurrent
<1>8. CASE bmPc \notin {"stage", "admit", "dispatch", "send", "restage", "acknowledge", "finalize"}
  BY <1>2, <1>8 DEF ListCurrent
<1>9. QED
  BY <1>6, <1>7, <1>8

(* Only requests change, and only the runs they report are left.           *)
LEMMA OnlyRequests ==
  ASSUME Inv, InOrder, UNCHANGED <<bmVars, runs, wstate, kills, deletes, mailbox>>,
         UNCHANGED <<state, workerRun, onPreemptible>>,
         \A d \in checkins' : /\ ~d.abandoned
                              /\ \A r \in d.runs : /\ HasRun(d.from, r.bundle)
                                                   /\ r.state = ServerState(runs[d.from][r.bundle].stage)
  PROVE  InOrder'
<1>1. Quiet'
  BY DEF InOrder, Quiet, bmVars
<1>2. ReportsCurrent' /\ OneRun'
  BY DEF InOrder, ReportsCurrent, OneRun, HasRun
<1>3. ListCurrent'
  BY OthersKeepList
<1>4. \A b \in Bundles : InCourse(b)'
  <2>1. SUFFICES ASSUME NEW b \in Bundles
                 PROVE  InCourse(b)'
    OBVIOUS
  <2>2. Claimants(b)' = Claimants(b) /\ MessagesFor(b)' = MessagesFor(b)
    BY DEF Claimants, MessagesFor
  <2>3. QED
    BY <2>2, CourseKept DEF InOrder, bmVars
<1>5. QED
  BY <1>1, <1>2, <1>3, <1>4 DEF InOrder

(* The requests that remain after one was handled in part. *)
LEMMA FewerReportsCurrent ==
  ASSUME Inv, InOrder, NEW c \in checkins, NEW r \in c.runs
  PROVE  \A d \in AfterReport(c, r) :
           ~d.abandoned /\ \E e \in checkins : d.from = e.from /\ d.runs \subseteq e.runs
<1>1. c \in Checkin
  BY DEF Inv, TypeOK, RestTypeOK
<1>2. \A d \in checkins : ~d.abandoned
  BY DEF InOrder, Quiet
<1>3. \A d \in AfterReport(c, r) : d \in checkins \/ d = [c EXCEPT !.runs = @ \ {r}]
  BY DEF AfterReport
<1>4. DEFINE e == [c EXCEPT !.runs = @ \ {r}]
<1>5. e.from = c.from /\ e.abandoned = c.abandoned /\ e.runs \subseteq c.runs
  BY <1>1 DEF Checkin
<1>6. QED
  BY <1>2, <1>3, <1>5

(* A report of a run that is not being restaged sets the state, and may    *)
(* insert the row of the worker that reports.                              *)
LEMMA ReportWrites ==
  ASSUME DbTypeOK, NEW w \in Workers, NEW r \in Report, r.state # "staged", BundleCheckin(w, r)
  PROVE  /\ state' = [state EXCEPT ![r.bundle] = r.state]
         /\ state[r.bundle] # "worker_offline" => workerRun' = workerRun
         /\ workerRun \subseteq workerRun'
         /\ workerRun' \subseteq workerRun \union {<<w, r.bundle>>}
         /\ UNCHANGED onPreemptible
<1>1. TransitionRunning(r.bundle, w, r.state)
  BY DEF BundleCheckin, Report
<1>2. QED
  BY <1>1 DEF TransitionRunning

(* A report is written: what it says of the bundle is true of the run.     *)
LEMMA ReportInOrder ==
  ASSUME Inv, InOrder, UNCHANGED <<bmVars, workerVars>>, NEW c \in checkins, NEW r \in c.runs,
         HandleReport(c, r)
  PROVE  InOrder'
<1> DEFINE b == r.bundle
           w == c.from
<1>1. /\ c \in Checkin /\ r \in Report /\ b \in Bundles /\ w \in Workers /\ DbTypeOK
      /\ state \in [Bundles -> BundleState] /\ workerRun \subseteq Workers \X Bundles
      /\ mailbox \subseteq Message
  BY DEF Inv, TypeOK, RestTypeOK, Checkin, Report, DbTypeOK, MailboxTypeOK
<1>2. HasRun(w, b) /\ r.state = ServerState(runs[w][b].stage)
  BY DEF InOrder, ReportsCurrent
<1>3. runs[w][b] \in Run
  BY <1>1 DEF Inv, TypeOK, WorkerTypeOK
<1>4. runs[w][b].stage \in {"preparing", "running", "uploading", "finalizing"}
  BY <1>1, <1>2, <1>3 DEF InOrder, Quiet, Run, Stage, HasRun
<1>5. /\ r.state \in {"preparing", "running", "finalizing"}
      /\ runs[w][b].stage = "finalizing" <=> r.state = "finalizing"
  BY <1>2, <1>4 DEF ServerState
<1>6. /\ state' = [state EXCEPT ![b] = r.state]
      /\ state[b] # "worker_offline" => workerRun' = workerRun
      /\ workerRun \subseteq workerRun' /\ workerRun' \subseteq workerRun \union {<<w, b>>}
      /\ UNCHANGED <<onPreemptible, mailbox, kills, deletes>> /\ UNCHANGED runs
      /\ checkins' = AfterReport(c, r)
  BY <1>1, <1>5, ReportWrites DEF HandleReport, WriteReport, workerVars
<1>7. ASSUME state[b] \in {"preparing", "running"}, Held(b)
      PROVE  InCourse(b)'
  <2>1. workerRun' = workerRun /\ \A v \in Workers : HasRun(v, b) => v = w
    BY <1>1, <1>2, <1>6, <1>7 DEF InOrder, OneRun
  <2>2. CASE r.state = "finalizing"
    <3>1. Ended(b)'
      BY <1>5, <1>6, <1>7, <2>1, <2>2 DEF Ended, Held, HasRun, MessagesFor
    <3>2. QED
      BY <1>1, <1>6, <2>2, <3>1 DEF InCourse, EndStates
  <2>3. CASE r.state # "finalizing"
    <3>1. Held(b)'
      BY <1>6, <1>7, <2>1 DEF Held, Claimed, Claimants, HasRun, MessagesFor
    <3>2. QED
      BY <1>1, <1>5, <1>6, <2>3, <3>1 DEF InCourse
  <2>4. QED
    BY <2>2, <2>3
<1>8. ASSUME state[b] \in EndStates, Ended(b), runs[w][b].stage = "finalizing"
      PROVE  InCourse(b)'
  <2>1. Ended(b)'
    BY <1>6, <1>8 DEF Ended, HasRun, MessagesFor
  <2>2. QED
    BY <1>1, <1>5, <1>6, <1>8, <2>1 DEF InCourse, EndStates
<1>9. InCourse(b)'
  BY <1>1, <1>2, <1>7, <1>8, RunMeansCourse
<1>10. \A x \in Bundles : InCourse(x)'
  <2>1. workerRun' \subseteq Workers \X Bundles
    BY <1>1, <1>6
  <2>2. QED
    BY <1>1, <1>6, <1>9, <2>1, OneCourse DEF bmVars
<1>11. ListCurrent'
  <2>1. ASSUME NEW x \in Bundles
        PROVE  \/ state'[x] = state[x]
               \/ state[x] \in {"preparing", "running"}
               \/ state[x] \in EndStates /\ state'[x] \in EndStates
    <3>1. x # b => state'[x] = state[x]
      BY <1>1, <1>6
    <3>2. runs[w][b].stage = "finalizing" => state'[b] \in EndStates
      BY <1>1, <1>5, <1>6 DEF EndStates
    <3>3. QED
      BY <1>1, <1>2, <3>1, <3>2, RunMeansCourse
  <2>2. QED
    BY <1>6, <2>1, OthersKeepList
<1>12. Quiet' /\ ReportsCurrent'
  <2>1. Quiet'
    BY <1>6, FewerReportsCurrent DEF InOrder, Quiet, bmVars, workerVars
  <2>2. ReportsCurrent'
    BY <1>6, FewerReportsCurrent DEF InOrder, ReportsCurrent, HasRun
  <2>3. QED
    BY <2>1, <2>2
<1>13. OneRun'
  BY <1>6 DEF InOrder, OneRun, HasRun
<1>14. QED
  BY <1>10, <1>11, <1>12, <1>13 DEF InOrder

(* The check-in, and the requests that write nothing about a bundle.       *)
LEMMA RequestInOrder ==
  ASSUME Inv, InOrder, UNCHANGED <<bmVars, workerVars>>, RestNext
  PROVE  InOrder'
<1>1. kills = {} /\ deletes = {} /\ \A d \in checkins : ~d.abandoned
  BY DEF InOrder, Quiet
<1>2. ReportsCurrent /\ UNCHANGED <<runs, wstate>>
  BY DEF InOrder, workerVars
<1>3. ASSUME NEW c \in checkins, RegisterWorker(c)
      PROVE  InOrder'
  <2>1. /\ UNCHANGED <<kills, deletes, mailbox>> /\ UNCHANGED <<state, workerRun, onPreemptible>>
        /\ \A d \in checkins' : d \in checkins \/ d = [c EXCEPT !.registered = TRUE]
    BY <1>3 DEF RegisterWorker, WorkerCheckin
  <2>2. c \in Checkin
    BY DEF Inv, TypeOK, RestTypeOK
  <2>3. DEFINE e == [c EXCEPT !.registered = TRUE]
  <2>4. e.from = c.from /\ e.abandoned = c.abandoned /\ e.runs = c.runs
    BY <2>2 DEF Checkin
  <2>5. \A d \in checkins' : ~d.abandoned /\ \E a \in checkins : d.from = a.from /\ d.runs = a.runs
    BY <1>1, <2>1, <2>4
  <2>6. QED
    BY <1>2, <2>1, <2>5, OnlyRequests DEF ReportsCurrent
<1>4. ASSUME NEW c \in checkins, NEW r \in c.runs, ReportRejected(c, r)
      PROVE  InOrder'
  <2>1. /\ UNCHANGED <<kills, deletes, mailbox>> /\ UNCHANGED <<state, workerRun, onPreemptible>>
        /\ checkins' = AfterReport(c, r)
    BY <1>4 DEF ReportRejected, dbVars
  <2>2. QED
    BY <1>2, <2>1, FewerReportsCurrent, OnlyRequests DEF ReportsCurrent
<1>5. ASSUME NEW u \in uploads, UploadForbidden(u) \/ UploadSucceeds(u)
      PROVE  InOrder'
  <2>1. UNCHANGED <<kills, deletes, mailbox>> /\ UNCHANGED <<state, workerRun, onPreemptible, checkins>>
    BY <1>5 DEF UploadForbidden, UploadSucceeds, Answer, dbVars
  <2>2. QED
    BY <1>1, <1>2, <2>1, OnlyRequests DEF ReportsCurrent
<1>6. \A k \in kills : FALSE
  BY <1>1
<1>7. \A b \in Bundles : ~DeleteApply(b)
  BY <1>1 DEF DeleteApply
<1>8. QED
  BY <1>3, <1>4, <1>5, <1>6, <1>7, ReportInOrder DEF RestNext

(* What a message says of its bundle. *)
LEMMA MessageMeansCourse ==
  ASSUME InOrder, NEW m \in mailbox, m.bundle \in Bundles
  PROVE  \/ m.type = "run" /\ m.to \in Claimants(m.bundle) /\ state[m.bundle] = "starting" /\ Assigned(m.bundle)
         \/ m.type = "mark_finalized" /\ state[m.bundle] \in EndStates /\ Ended(m.bundle)
<1>1. m \in MessagesFor(m.bundle)
  BY DEF MessagesFor
<1>2. InCourse(m.bundle)
  BY DEF InOrder
<1>3. ~Untouched(m.bundle) /\ ~Held(m.bundle)
  BY <1>1 DEF Untouched, Held
<1>4. Assigned(m.bundle) => m.type = "run" /\ m.to \in Claimants(m.bundle)
  BY <1>1 DEF Assigned
<1>5. Ended(m.bundle) => m.type = "mark_finalized"
  BY <1>1 DEF Ended
<1>6. QED
  BY <1>2, <1>3, <1>4, <1>5 DEF InCourse

(* A worker that waits for no answer has no report under way. *)
LEMMA FreeReports ==
  ASSUME InOrder, NEW w \in Workers, Free(w)
  PROVE  \A c \in checkins : c.from # w
BY DEF InOrder, Quiet, Free, Waiting

(* A run moves on, in a worker that waits for no answer. *)
LEMMA RunInOrder ==
  ASSUME Inv, InOrder, UNCHANGED <<bmVars, dbVars, checkins, kills, deletes, wstate>>,
         NEW w \in Workers, NEW b \in Bundles, Free(w), HasRun(w, b),
         NEW r \in Run, ~r.restaged, r.stage # "restaged",
         runs' = [runs EXCEPT ![w][b] = r], mailbox' \subseteq mailbox,
         \A m \in mailbox \ mailbox' : m.bundle = b,
         InCourse(b)'
  PROVE  InOrder'
<1>1. /\ runs \in [Workers -> [Bundles -> Run]] /\ mailbox \subseteq Message
      /\ workerRun \subseteq Workers \X Bundles
  BY DEF Inv, TypeOK, WorkerTypeOK, MailboxTypeOK, DbTypeOK
<1>2. /\ runs'[w][b] = r
      /\ \A v \in Workers, x \in Bundles : v # w \/ x # b => runs'[v][x] = runs[v][x]
  BY <1>1
<1>3. \A c \in checkins : c.from # w /\ c.from \in Workers /\ \A q \in c.runs : q.bundle \in Bundles
  BY FreeReports DEF Inv, TypeOK, RestTypeOK, Checkin, Report
<1>4. Quiet'
  BY <1>2 DEF InOrder, Quiet, dbVars, bmVars
<1>5. ReportsCurrent'
  BY <1>2, <1>3 DEF InOrder, ReportsCurrent, HasRun
<1>6. OneRun'
  BY <1>2 DEF InOrder, OneRun, HasRun
<1>7. ListCurrent'
  BY OthersKeepList DEF dbVars
<1>8. \A x \in Bundles : InCourse(x)'
  <2>1. mailbox' \subseteq Message /\ workerRun' \subseteq Workers \X Bundles
    BY <1>1 DEF dbVars
  <2>2. \A x \in Bundles \ {b} : \A m \in Message : m.bundle = x => (m \in mailbox' <=> m \in mailbox)
    OBVIOUS
  <2>3. QED
    BY <1>2, <2>1, <2>2, OneCourse DEF dbVars, bmVars
<1>9. QED
  BY <1>4, <1>5, <1>6, <1>7, <1>8 DEF InOrder

(* A bundle being run has one run, in the worker of its row, and that      *)
(* worker was not told to forget it.                                       *)
LEMMA HeldRun ==
  ASSUME InOrder, NEW w \in Workers, NEW b \in Bundles, HasRun(w, b), Held(b)
  PROVE  Claimants(b) = {w} /\ ~runs[w][b].finalized
<1>1. \A v \in Claimants(b) : v \in Workers /\ HasRun(v, b) /\ ~runs[v][b].finalized
  BY DEF Held, Claimants
<1>2. \A v \in Claimants(b) : v = w
  BY <1>1 DEF InOrder, OneRun
<1>3. Claimants(b) # {}
  BY DEF Held, Claimed
<1>4. QED
  BY <1>1, <1>2, <1>3

(* The transitions of a run that is not over.                              *)
LEMMA MoveInOrder ==
  ASSUME Inv, InOrder, UNCHANGED <<bmVars, dbVars, checkins, kills, deletes, wstate, mailbox>>,
         NEW w \in Workers, NEW b \in Bundles, Free(w),
         runs[w][b].stage \in {"preparing", "running", "uploading"},
         NEW r \in Run, r.stage \notin {"none", "restaged"}, ~r.restaged,
         r.finalized = runs[w][b].finalized,
         runs' = [runs EXCEPT ![w][b] = r]
  PROVE  InOrder'
<1>1. HasRun(w, b)
  BY DEF HasRun
<1>2. state[b] \in {"preparing", "running"} /\ Held(b)
  BY <1>1, RunMeansCourse
<1>3. Claimants(b) = {w} /\ ~r.finalized
  BY <1>1, <1>2, HeldRun
<1>4. runs'[w][b] = r
  BY DEF Inv, TypeOK, WorkerTypeOK
<1>5. Claimants(b)' = {w} /\ MessagesFor(b)' = {}
  BY <1>2, <1>3 DEF Claimants, MessagesFor, Held, dbVars
<1>6. Held(b)'
  BY <1>3, <1>4, <1>5 DEF Held, Claimed, HasRun
<1>7. InCourse(b)'
  BY <1>2, <1>6 DEF InCourse, dbVars
<1>8. QED
  BY <1>1, <1>7, RunInOrder

(* process_runs *)
LEMMA ProcessInOrder ==
  ASSUME Inv, InOrder, UNCHANGED bmVars, NEW w \in Workers, NEW b \in Bundles,
         \/ BeginRunning(w, b) \/ EndPreparing(w, b) \/ EndRunning(w, b)
         \/ Restage(w, b) \/ ForgetFinalized(w, b)
         \/ UploadBegin(w, b) \/ EndUploading(w, b)
  PROVE  InOrder'
<1>1. /\ runs \in [Workers -> [Bundles -> Run]] /\ runs[w][b] \in Run
      /\ ~runs[w][b].restaged
  BY DEF Inv, TypeOK, WorkerTypeOK, InOrder, Quiet
<1>2. ASSUME NEW s, Process(w, b, s)
      PROVE  /\ Free(w) /\ runs[w][b].stage = s
             /\ UNCHANGED <<dbVars, mailbox, checkins, kills, deletes>>
  BY <1>2 DEF Process
<1>3. ASSUME NEW r \in Run, NEW s \in {"running", "uploading"}
      PROVE  LET q == [r EXCEPT !.stage = s]
             IN  /\ q \in Run /\ q.stage = s
                 /\ q.finalized = r.finalized /\ q.restaged = r.restaged
  BY DEF Run, Stage
<1>4. ASSUME NEW r \in Run
      PROVE  /\ Finalized(r) \in Run /\ Finalized(r).stage = "finalizing"
             /\ Finalized(r).finalized = r.finalized /\ Finalized(r).restaged = r.restaged
  BY DEF Finalized, Run, Stage, Failure
<1>5. CASE BeginRunning(w, b)
  <2>1. UNCHANGED wstate /\ Process(w, b, "preparing")
    BY <1>5 DEF BeginRunning, SetRun
  <2>2. PICK q \in Run : /\ q.stage = "running" /\ q.finalized = runs[w][b].finalized
                         /\ q.restaged = runs[w][b].restaged
                         /\ runs' = [runs EXCEPT ![w][b] = q]
    BY <1>1, <1>3, <1>5 DEF BeginRunning, SetRun
  <2>3. QED
    BY <1>1, <1>2, <2>1, <2>2, MoveInOrder
<1>6. CASE EndPreparing(w, b)
  <2>1. PICK r \in Run : /\ r = runs[w][b] \/ r = [runs[w][b] EXCEPT !.failure = "failed"]
                         /\ runs' = [runs EXCEPT ![w][b] = Finalized(r)]
    <3>1. [runs[w][b] EXCEPT !.failure = "failed"] \in Run
      BY <1>1 DEF Run, Failure
    <3>2. QED
      BY <1>1, <1>6, <3>1 DEF EndPreparing, SetRun
  <2>2. UNCHANGED wstate /\ Process(w, b, "preparing")
    BY <1>6 DEF EndPreparing, SetRun
  <2>3. r.finalized = runs[w][b].finalized /\ r.restaged = runs[w][b].restaged
    BY <1>1, <2>1 DEF Run
  <2>4. PICK q \in Run : /\ q.stage = "finalizing" /\ q.finalized = r.finalized
                         /\ q.restaged = r.restaged
                         /\ runs' = [runs EXCEPT ![w][b] = q]
    BY <1>4, <2>1
  <2>5. QED
    BY <1>1, <1>2, <2>2, <2>3, <2>4, MoveInOrder
<1>7. CASE EndRunning(w, b)
  <2>1. PICK r \in {[runs[w][b] EXCEPT !.failure = "none"], [runs[w][b] EXCEPT !.failure = "failed"],
                    [runs[w][b] EXCEPT !.failure = "failed", !.killed = FALSE]} :
          runs' = [runs EXCEPT ![w][b] = IF w \in SharedFileSystem THEN Finalized(r)
                                           ELSE [r EXCEPT !.stage = "uploading"]]
    BY <1>7 DEF EndRunning, SetRun
  <2>2. UNCHANGED wstate /\ Process(w, b, "running")
    BY <1>7 DEF EndRunning, SetRun
  <2>3. r \in Run /\ r.finalized = runs[w][b].finalized /\ r.restaged = runs[w][b].restaged
    BY <1>1, <2>1 DEF Run, Failure
  <2>4. PICK q \in Run : /\ q.stage \in {"finalizing", "uploading"}
                         /\ q.finalized = r.finalized /\ q.restaged = r.restaged
                         /\ runs' = [runs EXCEPT ![w][b] = q]
    BY <1>3, <1>4, <2>1, <2>3
  <2>5. QED
    BY <1>1, <1>2, <2>2, <2>3, <2>4, MoveInOrder
<1>8. CASE Restage(w, b)
  BY <1>1, <1>8 DEF Restage
<1>9. CASE ForgetFinalized(w, b)
  <2>1. /\ runs' = [runs EXCEPT ![w][b] = NoRun] /\ UNCHANGED <<wstate>>
        /\ Process(w, b, "finalizing") /\ runs[w][b].finalized
    BY <1>9 DEF ForgetFinalized, SetRun
  <2>2. HasRun(w, b)
    BY <1>2, <2>1 DEF HasRun
  <2>3. state[b] \in EndStates /\ Ended(b)
    BY <2>1, <2>2, RunMeansCourse, HeldRun
  <2>4. \A v \in Workers : HasRun(v, b)' => HasRun(v, b) /\ runs'[v][b] = runs[v][b]
    BY <1>1, <2>1 DEF HasRun, NoRun
  <2>5. Ended(b)'
    BY <1>2, <2>1, <2>3, <2>4 DEF Ended, MessagesFor
  <2>6. InCourse(b)'
    BY <1>2, <2>1, <2>3, <2>5 DEF InCourse, dbVars
  <2>7. NoRun \in Run /\ ~NoRun.restaged /\ NoRun.stage # "restaged"
    BY DEF NoRun, Run, Stage, Failure
  <2>8. QED
    BY <1>2, <2>1, <2>2, <2>6, <2>7, RunInOrder
<1>10. CASE UploadBegin(w, b)
  <2>1. UNCHANGED <<dbVars, mailbox, checkins, kills, deletes>> /\ UNCHANGED <<runs, wstate>>
    BY <1>2, <1>10 DEF UploadBegin, workerVars
  <2>2. QED
    BY <2>1, OnlyRequests DEF InOrder, ReportsCurrent, Quiet, dbVars
<1>11. CASE EndUploading(w, b)
  <2>1. PICK r \in Run : /\ r = runs[w][b] \/ r = [runs[w][b] EXCEPT !.failure = "failed"]
                         /\ runs' = [runs EXCEPT ![w][b] = Finalized(r)]
    <3>1. [runs[w][b] EXCEPT !.failure = "failed"] \in Run
      BY <1>1 DEF Run, Failure
    <3>2. QED
      BY <1>1, <1>11, <3>1 DEF EndUploading, SetRun
  <2>2. UNCHANGED wstate /\ Process(w, b, "uploading")
    BY <1>11 DEF EndUploading, SetRun
  <2>3. r.finalized = runs[w][b].finalized /\ r.restaged = runs[w][b].restaged
    BY <1>1, <2>1 DEF Run
  <2>4. PICK q \in Run : /\ q.stage = "finalizing" /\ q.finalized = r.finalized
                         /\ q.restaged = r.restaged
                         /\ runs' = [runs EXCEPT ![w][b] = q]
    BY <1>4, <2>1
  <2>5. QED
    BY <1>1, <1>2, <2>2, <2>3, <2>4, MoveInOrder
<1>12. QED
  BY <1>5, <1>6, <1>7, <1>8, <1>9, <1>10, <1>11

(* process_message *)
LEMMA TakeInOrder ==
  ASSUME PreemptibleWorkers = {}, Inv, InOrder, UNCHANGED bmVars, NEW w \in Workers, NEW m \in mailbox,
         \/ StartGranted(w, m) \/ StartRefused(w, m)
         \/ ReceiveKill(w, m) \/ ReceiveMarkFinalized(w, m) \/ DropMessage(w, m)
  PROVE  InOrder'
<1> DEFINE b == m.bundle
<1>1. /\ m \in Message /\ b \in Bundles /\ mailbox \subseteq Message
      /\ runs \in [Workers -> [Bundles -> Run]] /\ runs[w][b] \in Run
      /\ state \in [Bundles -> BundleState] /\ onPreemptible \in [Bundles -> BOOLEAN]
      /\ workerRun \subseteq Workers \X Bundles
  BY DEF Inv, TypeOK, WorkerTypeOK, MailboxTypeOK, DbTypeOK, Message
<1>2. \/ m.type = "run" /\ m.to \in Claimants(b) /\ state[b] = "starting" /\ Assigned(b)
      \/ m.type = "mark_finalized" /\ state[b] \in EndStates /\ Ended(b)
  BY <1>1, MessageMeansCourse
<1>3. CASE StartGranted(w, m)
  <2>1. /\ Free(w) /\ m.type = "run" /\ m.to = w /\ mailbox' = mailbox \ {m}
        /\ UNCHANGED <<checkins, kills, deletes, wstate, workerRun>>
        /\ state' = [state EXCEPT ![b] = "preparing"]
        /\ runs' = [runs EXCEPT ![w][b] = NewRun]
        /\ onPreemptible' = [onPreemptible EXCEPT ![b] = (w \in PreemptibleWorkers)]
    BY <1>3 DEF StartGranted, AskToStart, Take, TransitionPreparing, SetRun, restVars
  <2>2. w \in Claimants(b) /\ state[b] = "starting" /\ Assigned(b)
    BY <1>2, <2>1
  <2>3. NewRun \in Run /\ NewRun.stage = "preparing" /\ ~NewRun.finalized /\ ~NewRun.restaged
    BY DEF NewRun, NoRun, Run, Stage, Failure
  <2>4. /\ runs'[w][b] = NewRun
        /\ \A v \in Workers, x \in Bundles : v # w \/ x # b => runs'[v][x] = runs[v][x]
    BY <1>1, <2>1
  <2>5. \A v \in Claimants(b) : v = w
    BY <1>1, <2>2 DEF Inv, OneClaim, Claimants
  <2>6. MessagesFor(b)' = {}
    <3>1. \A n \in MessagesFor(b) : n \in Message /\ n.type = "run" /\ n.to = w /\ n.bundle = b
      BY <1>1, <2>2, <2>5 DEF Assigned, MessagesFor
    <3>2. \A n \in MessagesFor(b) : n = m
      BY <1>1, <2>1, <3>1 DEF Message
    <3>3. QED
      BY <2>1, <3>2 DEF MessagesFor
  <2>7. InCourse(b)'
    <3>1. Claimants(b)' = Claimants(b)
      BY <2>1 DEF Claimants
    <3>2. HasRun(w, b)' /\ ~runs'[w][b].finalized
      BY <2>3, <2>4 DEF HasRun
    <3>3. Held(b)'
      BY <2>2, <2>5, <2>6, <3>1, <3>2 DEF Held, Claimed
    <3>4. state'[b] = "preparing"
      BY <1>1, <2>1
    <3>5. QED
      BY <3>3, <3>4 DEF InCourse
  <2>8. Quiet'
    <3>1. \A x \in Bundles : ~onPreemptible'[x]
      BY <1>1, <2>1 DEF InOrder, Quiet
    <3>2. QED
      BY <1>1, <2>1, <2>3, <2>4, <3>1 DEF InOrder, Quiet, bmVars
  <2>9. ReportsCurrent'
    <3>1. \A c \in checkins : c.from # w /\ c.from \in Workers /\ \A q \in c.runs : q.bundle \in Bundles
      BY <2>1, FreeReports DEF Inv, TypeOK, RestTypeOK, Checkin, Report
    <3>2. QED
      BY <2>1, <2>4, <3>1 DEF InOrder, ReportsCurrent, HasRun
  <2>10. OneRun'
    <3>1. \A v \in Workers : HasRun(v, b)' => v = w
      BY <1>1, <2>2, <2>4 DEF Assigned, HasRun
    <3>2. QED
      BY <1>1, <2>4, <3>1 DEF InOrder, OneRun, HasRun
  <2>11. ListCurrent'
    <3>1. \A x \in Bundles \ {b} : state'[x] = state[x]
      BY <1>1, <2>1
    <3>2. MessagesFor(b) # {}
      BY DEF MessagesFor
    <3>3. QED
      BY <2>1, <2>2, <3>1, <3>2, OthersKeepList
  <2>12. \A x \in Bundles : InCourse(x)'
    <3>1. mailbox' \subseteq Message /\ workerRun' \subseteq Workers \X Bundles
      BY <1>1, <2>1
    <3>2. \A x \in Bundles \ {b} : \A n \in Message : n.bundle = x => (n \in mailbox' <=> n \in mailbox)
      BY <2>1
    <3>3. \A x \in Bundles \ {b} : state'[x] = state[x]
      BY <1>1, <2>1
    <3>4. \A x \in Bundles \ {b} : \A v \in Workers :
            /\ <<v, x>> \in workerRun' <=> <<v, x>> \in workerRun
            /\ runs'[v][x] = runs[v][x]
      BY <2>1, <2>4
    <3>5. bmPc' = bmPc /\ bmCurrent' = bmCurrent
      BY DEF bmVars
    <3> HIDE DEF b
    <3>6. QED
      BY <1>1, <2>7, <3>1, <3>2, <3>3, <3>4, <3>5, OneCourse
  <2>13. QED
    BY <2>8, <2>9, <2>10, <2>11, <2>12 DEF InOrder
<1>4. CASE ReceiveMarkFinalized(w, m)
  <2>1. /\ Free(w) /\ m.type = "mark_finalized" /\ mailbox' = mailbox \ {m}
        /\ UNCHANGED <<dbVars, checkins, kills, deletes>>
    BY <1>4 DEF ReceiveMarkFinalized, Take, restVars
  <2>2. state[b] \in EndStates /\ Ended(b)
    BY <1>2, <2>1
  <2>3. CASE HasRun(w, b)
    <3> DEFINE r == [runs[w][b] EXCEPT !.finalized = TRUE]
    <3>1. runs' = [runs EXCEPT ![w][b] = r] /\ UNCHANGED wstate
      BY <1>4, <2>3 DEF ReceiveMarkFinalized, SetRun
    <3>2. r \in Run /\ r.stage = runs[w][b].stage /\ r.restaged = runs[w][b].restaged
      BY <1>1 DEF Run
    <3>3. \A v \in Workers : runs'[v][b].stage = runs[v][b].stage
      BY <1>1, <3>1, <3>2
    <3>4. Ended(b)'
      BY <2>1, <2>2, <3>3 DEF Ended, HasRun, MessagesFor
    <3>5. InCourse(b)'
      BY <2>1, <2>2, <3>4 DEF InCourse, dbVars
    <3>6. ~r.restaged /\ r.stage # "restaged"
      BY <1>1, <3>2 DEF InOrder, Quiet
    <3>7. \A n \in mailbox \ mailbox' : n.bundle = b
      BY <2>1
    <3> HIDE DEF r
    <3>8. QED
      BY <1>1, <2>1, <2>3, <3>1, <3>2, <3>5, <3>6, <3>7, RunInOrder
  <2>4. CASE ~HasRun(w, b)
    <3>1. UNCHANGED <<runs, wstate>>
      BY <1>4, <2>4 DEF ReceiveMarkFinalized, workerVars
    <3>2. Ended(b)'
      BY <2>1, <2>2, <3>1 DEF Ended, HasRun, MessagesFor
    <3>3. InCourse(b)'
      BY <2>1, <2>2, <3>2 DEF InCourse, dbVars
    <3>4. Quiet' /\ ReportsCurrent' /\ OneRun'
      BY <2>1, <3>1 DEF InOrder, Quiet, ReportsCurrent, OneRun, HasRun, dbVars, bmVars
    <3>5. ListCurrent'
      BY <2>1, OthersKeepList DEF dbVars
    <3>6. \A x \in Bundles : InCourse(x)'
      <4>1. mailbox' \subseteq Message /\ workerRun' \subseteq Workers \X Bundles
        BY <1>1, <2>1 DEF dbVars
      <4>2. \A x \in Bundles \ {b} : \A n \in Message : n.bundle = x => (n \in mailbox' <=> n \in mailbox)
        BY <2>1
      <4>3. QED
        BY <1>1, <2>1, <3>1, <3>3, <4>1, <4>2, OneCourse DEF dbVars, bmVars
    <3>7. QED
      BY <3>4, <3>5, <3>6 DEF InOrder
  <2>5. QED
    BY <2>3, <2>4
<1>5. ~StartRefused(w, m)
  BY <1>2 DEF StartRefused
<1>6. ~ReceiveKill(w, m)
  BY <1>2 DEF ReceiveKill
<1>7. ~DropMessage(w, m)
  BY DEF DropMessage, InOrder, Quiet
<1>8. QED
  BY <1>3, <1>4, <1>5, <1>6, <1>7

(* The main loop outside of its runs. *)
LEMMA LoopInOrder ==
  ASSUME Inv, InOrder, UNCHANGED bmVars, NEW w \in Workers,
         SendCheckin(w) \/ SaveState(w) \/ CheckTermination(w) \/ Restart(w)
  PROVE  InOrder'
<1>1. wstate[w] = "up" /\ ReportsCurrent /\ \A c \in checkins : ~c.abandoned
  BY DEF InOrder, Quiet
<1>2. CASE SendCheckin(w)
  <2> DEFINE c == [from |-> w, abandoned |-> FALSE, terminating |-> wstate[w] = "restaging",
                   registered |-> FALSE,
                   runs |-> {ReportOf(w, b) : b \in {x \in Bundles : HasRun(w, x)}}]
  <2>1. /\ checkins' = checkins \union {c}
        /\ UNCHANGED <<kills, deletes, mailbox>> /\ UNCHANGED <<state, workerRun, onPreemptible>>
        /\ UNCHANGED <<runs, wstate>>
    BY <1>2 DEF SendCheckin, dbVars, workerVars
  <2>2. \A r \in c.runs : HasRun(w, r.bundle) /\ r.state = ServerState(runs[w][r.bundle].stage)
    BY DEF ReportOf
  <2>3. c.from = w /\ ~c.abandoned
    OBVIOUS
  <2> HIDE DEF c
  <2>4. QED
    BY <1>1, <2>1, <2>2, <2>3, OnlyRequests DEF ReportsCurrent
<1>3. CASE SaveState(w)
  <2>1. /\ UNCHANGED <<kills, deletes, mailbox, checkins>> /\ UNCHANGED <<state, workerRun, onPreemptible>>
        /\ UNCHANGED <<runs, wstate>>
    BY <1>3 DEF SaveState, dbVars, restVars
  <2>2. QED
    BY <1>1, <2>1, OnlyRequests DEF ReportsCurrent
<1>4. ~CheckTermination(w) /\ ~Restart(w)
  BY <1>1 DEF CheckTermination, Restart
<1>5. QED
  BY <1>2, <1>3, <1>4

LEMMA WorkersInOrder ==
  ASSUME PreemptibleWorkers = {}, Inv, InOrder, UNCHANGED bmVars, WorkerNext
  PROVE  InOrder'
BY LoopInOrder, TakeInOrder, ProcessInOrder DEF WorkerNext

-----------------------------------------------------------------------------
LEMMA InitInOrder ==
  ASSUME Init
  PROVE  InOrder
<1>1. \A w \in Workers, b \in Bundles : runs[w][b] = NoRun
  BY DEF Init, WorkerInit
<1>2. Quiet
  BY <1>1 DEF Init, Quiet, DbInit, BmInit, RestInit, WorkerInit, NoRun
<1>3. ReportsCurrent /\ OneRun /\ ListCurrent
  BY <1>1 DEF Init, ReportsCurrent, OneRun, ListCurrent, RestInit, BmInit, HasRun, NoRun
<1>4. \A b \in Bundles : Untouched(b) /\ state[b] = "created"
  <2>1. \A b \in Bundles : Claimants(b) = {} /\ MessagesFor(b) = {} /\ state[b] = "created"
    BY DEF Init, DbInit, MailboxInit, Claimants, MessagesFor
  <2>2. \A w \in Workers, b \in Bundles : ~HasRun(w, b)
    BY <1>1 DEF HasRun, NoRun
  <2>3. QED
    BY <2>1, <2>2 DEF Untouched, Claimed
<1>5. QED
  BY <1>2, <1>3, <1>4 DEF InOrder, InCourse

LEMMA NextInOrder ==
  ASSUME PreemptibleWorkers = {}, Inv, OrderInv, [Next]_vars
  PROVE  OrderInv'
<1>1. SUFFICES ASSUME faults' = 0
               PROVE  InOrder'
  BY DEF OrderInv
<1>2. faults \in Nat
  BY MaxFaultsAssumption DEF Inv, TypeOK
<1>3. CASE Step /\ UNCHANGED faults
  <2>1. InOrder
    BY <1>1, <1>3 DEF OrderInv
  <2>2. QED
    BY <1>3, <2>1, ManagerInOrder, RequestInOrder, WorkersInOrder DEF Step
<1>4. CASE faults' = faults + 1
  BY <1>1, <1>2, <1>4
<1>5. CASE UNCHANGED vars
  <2>1. InOrder
    BY <1>1, <1>5 DEF OrderInv, vars
  <2>2. /\ UNCHANGED <<bmVars, runs, wstate, kills, deletes, mailbox, checkins>>
        /\ UNCHANGED <<state, workerRun, onPreemptible>>
    BY <1>5 DEF vars, dbVars, restVars, workerVars
  <2>3. QED
    BY <2>1, <2>2, OnlyRequests DEF InOrder, ReportsCurrent, Quiet
<1>6. QED
  BY <1>3, <1>4, <1>5 DEF Next

(* Without disturbances and preemptible workers every bundle goes its way  *)
(* in order.                                                               *)
THEOREM UndisturbedInOrder ==
  ASSUME PreemptibleWorkers = {}
  PROVE  Spec => []OrderInv
<1>1. Init => OrderInv
  BY InitInOrder DEF OrderInv
<1>2. Inv /\ OrderInv /\ [Next]_vars => OrderInv'
  BY NextInOrder
<1>3. QED
  BY <1>1, <1>2, InvHolds, PTL DEF Spec

(* Without disturbances no two workers have the run of one bundle.  The    *)
(* hypothesis is needed: a bundle taken from a preemptible worker goes     *)
(* back to STAGED while that worker may still have its run.                *)
THEOREM AlwaysOnOneWorker ==
  ASSUME PreemptibleWorkers = {}
  PROVE  Spec => []RunsOnOneWorker
<1>1. OrderInv => RunsOnOneWorker
  BY DEF OrderInv, InOrder, OneRun, RunsOnOneWorker
<1>2. QED
  BY <1>1, UndisturbedInOrder, PTL

(* Without disturbances a bundle in STARTING, PREPARING or RUNNING has a   *)
(* worker_run row, and from PREPARING on that worker has its run.          *)
THEOREM AlwaysActiveClaimed ==
  ASSUME PreemptibleWorkers = {}
  PROVE  Spec => []ActiveIsClaimed
<1>1. ASSUME InOrder, NEW b \in Bundles
      PROVE  /\ state[b] \in {"starting", "preparing", "running"} => Claimed(b)
             /\ state[b] \in {"preparing", "running"} => \A w \in Claimants(b) : HasRun(w, b)
  BY <1>1, CourseByState DEF InOrder, Assigned, Held
<1>2. OrderInv => ActiveIsClaimed
  BY <1>1 DEF OrderInv, ActiveIsClaimed
<1>3. QED
  BY <1>2, UndisturbedInOrder, PTL
=============================================================================
