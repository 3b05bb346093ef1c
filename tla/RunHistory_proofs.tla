------------------------- MODULE RunHistory_proofs --------------------------
(***************************************************************************)
(* Proofs about what must have happened before a bundle is in a state:     *)
(* that its dependencies were ready before it ran, and that a run of it    *)
(* ended well before it is READY.  A run leaves traces in the tables, in   *)
(* the bundle manager's copies, in the memory and the file of a worker and *)
(* in reports under way, and may come back from each of them; so all of    *)
(* them must tell the truth.                                               *)
(***************************************************************************)
EXTENDS RunProtocol_proofs

(* The bundles whose dependencies have all been in a state they accept.    *)
Cleared ==
    {b \in Bundles : \A p \in Deps[b] : \E s \in AcceptableStates(b) : <<p, s>> \in reached}

Unstarted == {"created", "failed", "killed", "deleted"}

(* What the tables, the copies, the reports and the runs say of the        *)
(* bundles that may run (S) and of those of which a run ended well (T).    *)
DbTells(S, T) ==
    /\ \A b \in Bundles :
         /\ state[b] \notin Unstarted => b \in S
         /\ state[b] = "ready" => b \in T
         /\ state[b] = "finalizing" /\ failure[b] = "none" => b \in T
    /\ \A w \in Workers, b \in Bundles : <<w, b>> \in workerRun => b \in S

CopiesTell(S, T) ==
    \A c \in bmList :
      /\ bmPc # "stage" \/ c.plan = "stage" => c.bundle \in S
      /\ bmPc \in {"acknowledge", "finalize"} /\ c.failure = "none" => c.bundle \in T

ReportTells(r, S, T) ==
    /\ r.bundle \in S
    /\ r.state = "finalizing" /\ r.failure = "none" => r.bundle \in T

ReportsTell(S, T) == \A c \in checkins : \A r \in c.runs : ReportTells(r, S, T)

RunsTell(S) ==
    \A w \in Workers, b \in Bundles :
      HasRun(w, b) \/ saved[w][b].stage # "none" => b \in S

Tells(S, T) == DbTells(S, T) /\ CopiesTell(S, T) /\ ReportsTell(S, T) /\ RunsTell(S)

(* What the history has recorded by itself.                                *)
Recorded ==
    /\ \A p \in Parents : state[p] \in FinalStates => <<p, state[p]>> \in reached
    /\ \A w \in Workers, b \in Bundles :
         runs[w][b].stage = "finalizing" /\ runs[w][b].failure = "none" => b \in succeeded

HistoryInv == Tells(Cleared, succeeded) /\ Recorded

-----------------------------------------------------------------------------
(* The transactions.  A write of a state that says nothing of the past.    *)
LEMMA SilentWrite ==
  ASSUME DbTypeOK, NEW S, NEW T, DbTells(S, T), NEW b \in Bundles,
         NEW s \in Unstarted \ {"ready"}, state' = [state EXCEPT ![b] = s],
         \A x \in Bundles \ {b} : failure'[x] = failure[x],
         workerRun' \subseteq workerRun
  PROVE  DbTells(S, T)'
BY DEF DbTypeOK, DbTells, Unstarted

(* A write of the state of a bundle that may run.                          *)
LEMMA StartedWrite ==
  ASSUME DbTypeOK, NEW S, NEW T, DbTells(S, T), NEW b \in S \intersect Bundles,
         NEW s \in BundleState,
         s = "ready" => b \in T,
         s = "finalizing" /\ failure'[b] = "none" => b \in T,
         state' = [state EXCEPT ![b] = s],
         \A x \in Bundles \ {b} : failure'[x] = failure[x],
         workerRun' \subseteq workerRun \union (Workers \X {b})
  PROVE  DbTells(S, T)'
BY DEF DbTypeOK, DbTells

LEMMA NothingWritten ==
  ASSUME NEW S, NEW T, DbTells(S, T), UNCHANGED <<state, failure>>, workerRun' \subseteq workerRun
  PROVE  DbTells(S, T)'
BY DEF DbTells

(* Failures, kills and deletions. *)
LEMMA EndTells ==
  ASSUME DbTypeOK, NEW S, NEW T, DbTells(S, T), NEW b \in Bundles,
         \/ UpdateState(b, "killed") \/ UpdateStateAndFailure(b, "failed", "failed")
         \/ DeleteBundle(b)
  PROVE  DbTells(S, T)'
<1>1. PICK s \in {"killed", "failed", "deleted"} : state' = [state EXCEPT ![b] = s]
  BY DEF UpdateState, UpdateStateAndFailure, DeleteBundle
<1>2. \A x \in Bundles \ {b} : failure'[x] = failure[x]
  BY DEF DbTypeOK, UpdateState, UpdateStateAndFailure, DeleteBundle
<1>3. workerRun' \subseteq workerRun
  BY DEF UpdateState, UpdateStateAndFailure, DeleteBundle, WithoutRunsOf
<1>4. QED
  BY <1>1, <1>2, <1>3, SilentWrite DEF Unstarted

(* Back to STAGED, from anywhere, for a bundle that was there before. *)
LEMMA StagedTells ==
  ASSUME DbTypeOK, NEW S, NEW T, DbTells(S, T), NEW b \in S \intersect Bundles,
         TransitionStaged(b) \/ UpdateState(b, "staged")
  PROVE  DbTells(S, T)'
<1>1. /\ state' = [state EXCEPT ![b] = "staged"]
      /\ \A x \in Bundles \ {b} : failure'[x] = failure[x]
      /\ workerRun' \subseteq workerRun
  BY DEF DbTypeOK, TransitionStaged, UpdateState, WithoutRunsOf
<1>2. "staged" \in BundleState
  BY DEF BundleState
<1>3. QED
  BY <1>1, <1>2, StartedWrite

LEMMA StartingTells ==
  ASSUME DbTypeOK, NEW S, NEW T, DbTells(S, T), NEW b \in S \intersect Bundles,
         NEW w \in Workers, TransitionStarting(b, w)
  PROVE  DbTells(S, T)'
<1>1. /\ state' = [state EXCEPT ![b] = "starting"] /\ UNCHANGED failure
      /\ workerRun' \subseteq workerRun \union (Workers \X {b})
  BY DEF TransitionStarting
<1>2. "starting" \in BundleState
  BY DEF BundleState, ActiveStates
<1>3. QED
  BY <1>1, <1>2, StartedWrite

(* start_bundle: the row of worker_run says that the bundle may run. *)
LEMMA PreparingTells ==
  ASSUME DbTypeOK, NEW S, NEW T, DbTells(S, T), NEW b \in Bundles,
         NEW w \in Workers, TransitionPreparing(b, w)
  PROVE  DbTells(S, T)' /\ b \in S
<1>1. b \in S
  BY DEF TransitionPreparing, Claimants, DbTells
<1>2. /\ state' = [state EXCEPT ![b] = "preparing"]
      /\ UNCHANGED <<failure, workerRun>>
  BY DEF TransitionPreparing
<1>3. "preparing" \in BundleState
  BY DEF BundleState, ActiveStates
<1>4. QED
  BY <1>1, <1>2, <1>3, StartedWrite

(* A report that tells the truth leaves the tables telling it. *)
LEMMA ReportWritten ==
  ASSUME DbTypeOK, NEW S, NEW T, DbTells(S, T), NEW w \in Workers, NEW r \in Report,
         ReportTells(r, S, T), BundleCheckin(w, r)
  PROVE  DbTells(S, T)'
<1>1. r.bundle \in S \intersect Bundles
  BY DEF Report, ReportTells
<1>2. CASE TransitionStaged(r.bundle)
  BY <1>1, <1>2, StagedTells
<1>3. ASSUME NEW s \in {"preparing", "running", "finalizing"}, TransitionRunning(r.bundle, w, s)
      PROVE  /\ state' = [state EXCEPT ![r.bundle] = s]
             /\ workerRun' \subseteq workerRun \union (Workers \X {r.bundle})
  BY <1>1, <1>3 DEF TransitionRunning
<1>4. CASE r.state \in {"preparing", "running"} /\ TransitionRunning(r.bundle, w, r.state)
           /\ UNCHANGED failure
  <2>1. r.state \in BundleState /\ r.state \notin {"ready", "finalizing"}
    BY <1>4 DEF BundleState, ActiveStates
  <2>2. /\ state' = [state EXCEPT ![r.bundle] = r.state]
        /\ workerRun' \subseteq workerRun \union (Workers \X {r.bundle})
    BY <1>3, <1>4
  <2>3. QED
    BY <1>1, <1>4, <2>1, <2>2, StartedWrite
<1>5. CASE /\ r.state = "finalizing" /\ TransitionRunning(r.bundle, w, "finalizing")
           /\ failure' = [failure EXCEPT ![r.bundle] = RecordedFailure(r.bundle, r.failure)]
  <2>1. \A x \in Bundles \ {r.bundle} : failure'[x] = failure[x]
    BY <1>5 DEF DbTypeOK
  <2>2. failure'[r.bundle] = "none" => r.failure = "none"
    BY <1>1, <1>5 DEF DbTypeOK, RecordedFailure
  <2>3. failure'[r.bundle] = "none" => r.bundle \in T
    BY <1>5, <2>2 DEF ReportTells
  <2>4. /\ state' = [state EXCEPT ![r.bundle] = "finalizing"]
        /\ workerRun' \subseteq workerRun \union (Workers \X {r.bundle})
    BY <1>3, <1>5
  <2>5. "finalizing" \in BundleState
    BY DEF BundleState, ActiveStates
  <2>6. QED
    BY <1>1, <2>1, <2>3, <2>4, <2>5, StartedWrite
<1>6. QED
  BY <1>2, <1>4, <1>5 DEF BundleCheckin

LEMMA OfflineTells ==
  ASSUME DbTypeOK, NEW S, NEW T, DbTells(S, T), NEW b \in Bundles, NEW p \in BOOLEAN,
         TransitionWorkerOffline(b, p)
  PROVE  DbTells(S, T)'
<1>1. CASE state[b] \in {"running", "preparing", "finalizing"}
  <2>1. b \in S
    BY <1>1 DEF DbTells, Unstarted
  <2>2. PICK s \in {"staged", "worker_offline"} : state' = [state EXCEPT ![b] = s]
    BY <1>1 DEF TransitionWorkerOffline
  <2>3. workerRun' \subseteq workerRun /\ UNCHANGED failure
    BY <1>1 DEF TransitionWorkerOffline, WithoutRunsOf
  <2>4. s \in BundleState /\ s \notin {"ready", "finalizing"}
    BY <2>2 DEF BundleState
  <2>5. QED
    BY <2>1, <2>2, <2>3, <2>4, StartedWrite
<1>2. CASE state[b] \notin {"running", "preparing", "finalizing"}
  BY <1>2, NothingWritten DEF TransitionWorkerOffline, dbVars
<1>3. QED
  BY <1>1, <1>2

LEMMA FinishedTells ==
  ASSUME DbTypeOK, NEW S, NEW T, DbTells(S, T), NEW b \in S \intersect Bundles,
         NEW f \in Failure, f = "none" => b \in T, TransitionFinished(b, f)
  PROVE  DbTells(S, T)'
<1>1. Verdict(f) # "finalizing" /\ (Verdict(f) = "ready" => f = "none")
  BY DEF Verdict, Failure
<1>2. workerRun' \subseteq workerRun
  BY DEF TransitionFinished, WithoutRunsOf
<1>3. Verdict(f) \in BundleState
  BY DEF Verdict, Failure, BundleState, FinalStates
<1>4. state' = [state EXCEPT ![b] = Verdict(f)] /\ UNCHANGED failure
  BY DEF TransitionFinished
<1>5. QED
  BY <1>1, <1>2, <1>3, <1>4, StartedWrite

(* An upload that breaks writes a failure and no state. *)
LEMMA BreakTells ==
  ASSUME DbTypeOK, NEW S, NEW T, DbTells(S, T), NEW b \in Bundles,
         UpdateStateAndFailure(b, state[b], "failed")
  PROVE  DbTells(S, T)'
BY DEF UpdateStateAndFailure, DbTypeOK, DbTells

LEMMA WorkerRowTells ==
  ASSUME NEW S, NEW T, DbTells(S, T), NEW w \in Workers,
         WorkerCleanup(w) \/ \E t \in BOOLEAN : WorkerCheckin(w, t)
  PROVE  DbTells(S, T)'
BY NothingWritten DEF WorkerCleanup, WorkerCheckin

LEMMA UnchangedTells ==
  ASSUME NEW S, NEW T, DbTells(S, T), UNCHANGED dbVars
  PROVE  DbTells(S, T)'
BY NothingWritten DEF dbVars

-----------------------------------------------------------------------------
(* The bundle manager. *)

ManagerTells(S, T) == DbTypeOK /\ BmTypeOK /\ DbTells(S, T) /\ CopiesTell(S, T)

(* Copies taken of bundles in STARTING or later, or STAGED. *)
LEMMA EnterTells ==
  ASSUME NEW S, NEW T, ManagerTells(S, T), NEW states \in SUBSET (BundleState \ Unstarted),
         NEW phase \in Phase \ {"stage", "finalize"},
         phase = "acknowledge" => states = {"finalizing"},
         Enter(phase, CopiesIn(states))
  PROVE  DbTells(S, T)' /\ CopiesTell(S, T)'
<1>1. DbTells(S, T)'
  BY UnchangedTells DEF Enter, ManagerTells
<1>2. \A c \in CopiesIn(states) :
        /\ c.bundle \in Bundles /\ state[c.bundle] \in states
        /\ c.failure = failure[c.bundle]
  BY DEF CopiesIn, Copy
<1>3. CopiesTell(S, T)'
  BY <1>2 DEF Enter, ManagerTells, CopiesTell, DbTells
<1>4. QED
  BY <1>1, <1>3

LEMMA ReadTells ==
  ASSUME NEW S, NEW T, ManagerTells(S, T),
         \A b \in Bundles : StagePlan(b) = "stage" => b \in S,
         \/ ReadCreated \/ ReadStarting \/ ReadActive
         \/ ReadFinalizing \/ ReadStaged \/ ReadUnresponsive
  PROVE  DbTells(S, T)' /\ CopiesTell(S, T)'
<1>1. CASE ReadCreated
  <2>1. DbTells(S, T)'
    BY <1>1, UnchangedTells DEF ReadCreated, Enter, ManagerTells
  <2>2. \A c \in bmList' : c.plan = "stage" => c.bundle \in S
    BY <1>1 DEF ReadCreated, Enter, Copy
  <2>3. bmPc' = "stage"
    BY <1>1 DEF ReadCreated, Enter
  <2>4. QED
    BY <2>1, <2>2, <2>3 DEF CopiesTell
<1>2. CASE ReadStarting
  <2>1. /\ {"starting"} \in SUBSET (BundleState \ Unstarted)
        /\ "restage" \in Phase \ {"stage", "finalize"}
    BY DEF BundleState, ActiveStates, Unstarted, Phase
  <2>2. QED
    BY <1>2, <2>1, EnterTells DEF ReadStarting
<1>3. CASE ReadActive
  <2>1. /\ {"running", "preparing"} \in SUBSET (BundleState \ Unstarted)
        /\ "offline" \in Phase \ {"stage", "finalize"}
    BY DEF BundleState, ActiveStates, Unstarted, Phase
  <2>2. QED
    BY <1>3, <2>1, EnterTells DEF ReadActive
<1>4. CASE ReadFinalizing
  <2>1. /\ {"finalizing"} \in SUBSET (BundleState \ Unstarted)
        /\ "acknowledge" \in Phase \ {"stage", "finalize"}
    BY DEF BundleState, ActiveStates, Unstarted, Phase
  <2>2. QED
    BY <1>4, <2>1, EnterTells DEF ReadFinalizing
<1>5. CASE ReadStaged
  <2>1. {"staged"} \in SUBSET (BundleState \ Unstarted) /\ "admit" \in Phase \ {"stage", "finalize"}
    BY DEF BundleState, ActiveStates, Unstarted, Phase
  <2>2. QED
    BY <1>5, <2>1, EnterTells DEF ReadStaged
<1>6. CASE ReadUnresponsive
  <2>1. /\ {"staged", "running"} \in SUBSET (BundleState \ Unstarted)
        /\ "unresponsive" \in Phase \ {"stage", "finalize"}
    BY DEF BundleState, ActiveStates, Unstarted, Phase
  <2>2. QED
    BY <1>6, <2>1, EnterTells DEF ReadUnresponsive
<1>7. QED
  BY <1>1, <1>2, <1>3, <1>4, <1>5, <1>6

(* The copies that are left say what they said. *)
LEMMA FewerCopies ==
  ASSUME NEW S, NEW T, CopiesTell(S, T), NEW c \in bmList, Done(c)
  PROVE  CopiesTell(S, T)'
<1>1. \A d \in bmList' : d \in bmList /\ bmPc' = bmPc
  BY DEF Done
<1>2. QED
  BY <1>1 DEF CopiesTell

LEMMA DoneTells ==
  ASSUME NEW S, NEW T, ManagerTells(S, T), NEW c \in bmList,
         \/ FailUnstageable(c) \/ StageReady(c)
         \/ RestageUnclaimed(c) \/ RestageStuck(c) \/ KeepStarting(c)
         \/ OfflineUnclaimedRun(c) \/ BringOffline(c) \/ KeepRunning(c)
         \/ FinalizingUnclaimed(c) \/ MarkFinalizedFails(c)
         \/ FailUnrunnable(c) \/ SkipStaged(c)
         \/ FailUnresponsive(c) \/ KeepResponsive(c)
  PROVE  DbTells(S, T)' /\ CopiesTell(S, T)'
<1> USE DEF ManagerTells
<1>1. Done(c)
  BY DEF FailUnstageable, StageReady, RestageUnclaimed, RestageStuck, KeepStarting,
         OfflineUnclaimedRun, BringOffline, KeepRunning, FinalizingUnclaimed,
         MarkFinalizedFails, FailUnrunnable, SkipStaged, FailUnresponsive, KeepResponsive
<1>2. CopiesTell(S, T)'
  BY <1>1, FewerCopies
<1>3. c.bundle \in Bundles /\ c.onPreemptible \in BOOLEAN
  BY DEF BmTypeOK, BundleCopy
<1>4. CASE FailUnstageable(c) \/ FailUnrunnable(c) \/ FailUnresponsive(c)
  BY <1>2, <1>3, <1>4, EndTells DEF FailUnstageable, FailUnrunnable, FailUnresponsive
<1>5. CASE StageReady(c) \/ RestageUnclaimed(c) \/ RestageStuck(c)
  <2>1. c.bundle \in S \intersect Bundles
    BY <1>3, <1>5 DEF StageReady, RestageUnclaimed, RestageStuck, CopiesTell
  <2>2. TransitionStaged(c.bundle) \/ UpdateState(c.bundle, "staged")
    BY <1>5 DEF StageReady, RestageUnclaimed, RestageStuck
  <2>3. QED
    BY <1>2, <2>1, <2>2, StagedTells
<1>6. CASE OfflineUnclaimedRun(c) \/ BringOffline(c) \/ FinalizingUnclaimed(c)
  BY <1>2, <1>3, <1>6, OfflineTells DEF OfflineUnclaimedRun, BringOffline, FinalizingUnclaimed
<1>7. CASE \/ KeepStarting(c) \/ KeepRunning(c) \/ MarkFinalizedFails(c)
           \/ SkipStaged(c) \/ KeepResponsive(c)
  BY <1>2, <1>7, UnchangedTells
  DEF KeepStarting, KeepRunning, MarkFinalizedFails, SkipStaged, KeepResponsive
<1>8. QED
  BY <1>4, <1>5, <1>6, <1>7

(* mark_finalized, and the verdict taken from a copy of the metadata. *)
LEMMA AcknowledgeTells ==
  ASSUME NEW S, NEW T, ManagerTells(S, T), NEW c \in bmList,
         \/ FinishBundle(c)
         \/ \E w \in Workers : SendMarkFinalized(c, w) \/ MarkFinalizedAckLost(c, w)
  PROVE  DbTells(S, T)' /\ CopiesTell(S, T)'
<1> USE DEF ManagerTells
<1>1. CASE FinishBundle(c)
  <2>1. c.bundle \in Bundles /\ c.failure \in Failure
    BY DEF BmTypeOK, BundleCopy
  <2>2. c.bundle \in S /\ (c.failure = "none" => c.bundle \in T)
    BY <1>1 DEF FinishBundle, CopiesTell
  <2>3. DbTells(S, T)'
    BY <1>1, <2>1, <2>2, FinishedTells DEF FinishBundle
  <2>4. \A d \in bmList' : d \in bmList /\ bmPc' = "acknowledge"
    BY <1>1 DEF FinishBundle
  <2>5. CopiesTell(S, T)'
    BY <1>1, <2>4 DEF FinishBundle, CopiesTell
  <2>6. QED
    BY <2>3, <2>5
<1>2. ASSUME NEW w \in Workers, SendMarkFinalized(c, w) \/ MarkFinalizedAckLost(c, w)
      PROVE  DbTells(S, T)' /\ CopiesTell(S, T)'
  <2>1. WriteMarkFinalized(c, w) /\ bmPc' \in {"acknowledge", "finalize"}
    BY <1>2 DEF SendMarkFinalized, MarkFinalizedAckLost, WriteMarkFinalized
  <2>2. DbTells(S, T)'
    BY <2>1, UnchangedTells DEF WriteMarkFinalized
  <2>3. CopiesTell(S, T)'
    BY <2>1 DEF WriteMarkFinalized, CopiesTell
  <2>4. QED
    BY <2>2, <2>3
<1>3. QED
  BY <1>1, <1>2

LEMMA DispatchTells ==
  ASSUME NEW S, NEW T, ManagerTells(S, T), NEW c \in bmList,
         \/ SendRunFails(c)
         \/ \E w \in Workers : TryStart(c, w) \/ SendRun(c, w) \/ RunAckLost(c, w)
  PROVE  DbTells(S, T)' /\ CopiesTell(S, T)'
<1> USE DEF ManagerTells
<1>1. bmPc \in {"dispatch", "send"}
  BY DEF SendRunFails, TryStart, SendRun, RunAckLost, WriteRun
<1>2. \A d \in bmList : d.bundle \in S \intersect Bundles
  BY <1>1 DEF CopiesTell, BmTypeOK, BundleCopy
<1>3. bmList' \subseteq bmList /\ bmPc' \in {"idle", "dispatch", "send"}
  BY <1>1 DEF SendRunFails, TryStart, SendRun, RunAckLost
<1>4. CopiesTell(S, T)'
  BY <1>2, <1>3 DEF CopiesTell
<1>5. CASE SendRunFails(c)
  BY <1>2, <1>4, <1>5, StagedTells DEF SendRunFails
<1>6. ASSUME NEW w \in Workers, TryStart(c, w)
      PROVE  DbTells(S, T)'
  BY <1>2, <1>6, StartingTells DEF TryStart
<1>7. ASSUME NEW w \in Workers, SendRun(c, w) \/ RunAckLost(c, w)
      PROVE  DbTells(S, T)'
  BY <1>7, UnchangedTells DEF SendRun, RunAckLost, WriteRun
<1>8. QED
  BY <1>4, <1>5, <1>6, <1>7

LEMMA LoopTells ==
  ASSUME NEW S, NEW T, ManagerTells(S, T),
         \/ BeginDispatch \/ AbortOnMissing \/ AbortIteration
         \/ \E w \in Workers : CleanupDeadWorker(w)
  PROVE  DbTells(S, T)' /\ CopiesTell(S, T)'
<1> USE DEF ManagerTells
<1>1. CASE BeginDispatch
  BY <1>1, UnchangedTells DEF BeginDispatch, CopiesTell
<1>2. CASE AbortOnMissing \/ AbortIteration
  BY <1>2, UnchangedTells DEF AbortOnMissing, AbortIteration, LeaveIteration, CopiesTell
<1>3. ASSUME NEW w \in Workers, CleanupDeadWorker(w)
      PROVE  DbTells(S, T)' /\ CopiesTell(S, T)'
  BY <1>3, WorkerRowTells DEF CleanupDeadWorker, CopiesTell
<1>4. QED
  BY <1>1, <1>2, <1>3

LEMMA BundleManagerTells ==
  ASSUME NEW S, NEW T, ManagerTells(S, T),
         \A b \in Bundles : StagePlan(b) = "stage" => b \in S,
         BmNext \/ BmTimeout \/ BmFault
  PROVE  DbTells(S, T)' /\ CopiesTell(S, T)'
<1>1. CASE BmNext
  BY <1>1, ReadTells, DoneTells, AcknowledgeTells, DispatchTells, LoopTells DEF BmNext
<1>2. CASE BmTimeout
  BY <1>2, DoneTells, LoopTells DEF BmTimeout
<1>3. CASE BmFault
  BY <1>3, DoneTells, AcknowledgeTells, DispatchTells, LoopTells DEF BmFault
<1>4. QED
  BY <1>1, <1>2, <1>3

-----------------------------------------------------------------------------
(* The REST server. *)

ServerTells(S, T) == DbTypeOK /\ RestTypeOK /\ DbTells(S, T) /\ ReportsTell(S, T)

(* Reports that are left say what they said. *)
LEMMA FewerReports ==
  ASSUME NEW S, NEW T, ReportsTell(S, T),
         \A c \in checkins' : \E d \in checkins : c.runs \subseteq d.runs
  PROVE  ReportsTell(S, T)'
BY DEF ReportsTell, ReportTells

LEMMA CheckinTells ==
  ASSUME NEW S, NEW T, ServerTells(S, T), NEW c \in checkins,
         \/ RegisterWorker(c) \/ AbandonCheckin(c) \/ LoseCheckin(c)
         \/ \E r \in c.runs : HandleReport(c, r) \/ KillOverQuota(c, r) \/ ReportRejected(c, r)
  PROVE  DbTells(S, T)' /\ ReportsTell(S, T)'
<1> USE DEF ServerTells
<1>1. c \in Checkin
  BY DEF RestTypeOK
<1>2. CASE RegisterWorker(c)
  <2>1. c.from \in Workers /\ c.terminating \in BOOLEAN
    BY <1>1 DEF Checkin
  <2>2. DbTells(S, T)'
    BY <1>2, <2>1, WorkerRowTells DEF RegisterWorker
  <2>3. [c EXCEPT !.registered = TRUE].runs = c.runs
    BY <1>1 DEF Checkin
  <2>4. \A d \in checkins' : d \in checkins \/ d.runs = c.runs
    BY <1>2, <2>3 DEF RegisterWorker
  <2>5. QED
    BY <2>2, <2>4, FewerReports
<1>3. CASE AbandonCheckin(c) \/ LoseCheckin(c)
  <2>1. DbTells(S, T)'
    BY <1>3, UnchangedTells DEF AbandonCheckin, LoseCheckin
  <2>2. [c EXCEPT !.abandoned = TRUE].runs = c.runs
    BY <1>1 DEF Checkin
  <2>3. \A d \in checkins' : d \in checkins \/ d.runs = c.runs
    BY <1>3, <2>2 DEF AbandonCheckin, LoseCheckin
  <2>4. QED
    BY <2>1, <2>3, FewerReports
<1>4. ASSUME NEW r \in c.runs, HandleReport(c, r) \/ KillOverQuota(c, r) \/ ReportRejected(c, r)
      PROVE  DbTells(S, T)' /\ ReportsTell(S, T)'
  <2>1. r \in Report /\ c.from \in Workers /\ [c EXCEPT !.runs = @ \ {r}].runs = c.runs \ {r}
    BY <1>1 DEF Checkin
  <2>2. checkins' = AfterReport(c, r)
    BY <1>4 DEF HandleReport, KillOverQuota, WriteReport, ReportRejected
  <2>3. \A d \in checkins' : d \in checkins \/ d.runs = c.runs \ {r}
    BY <2>1, <2>2 DEF AfterReport
  <2>4. ReportsTell(S, T)'
    BY <2>3, FewerReports
  <2>5. CASE HandleReport(c, r) \/ KillOverQuota(c, r)
    <3>1. ReportTells(r, S, T)
      BY DEF ReportsTell
    <3>2. BundleCheckin(c.from, r)
      BY <2>5 DEF HandleReport, KillOverQuota, WriteReport
    <3>3. QED
      BY <2>1, <2>4, <3>1, <3>2, ReportWritten
  <2>6. CASE ReportRejected(c, r)
    BY <2>4, <2>6, UnchangedTells DEF ReportRejected
  <2>7. QED
    BY <1>4, <2>5, <2>6
<1>5. QED
  BY <1>2, <1>3, <1>4

LEMMA RequestTells ==
  ASSUME NEW S, NEW T, ServerTells(S, T),
         \/ \E b \in Bundles : KillRequest(b) \/ DeleteRequest(b) \/ DeleteApply(b)
         \/ \E k \in kills : KillLookup(k) \/ KillFails(k) \/ KillOnServer(k)
                             \/ \E w \in Workers : KillSend(k, w)
  PROVE  DbTells(S, T)' /\ ReportsTell(S, T)'
<1> USE DEF ServerTells
<1>1. UNCHANGED checkins
  BY DEF KillRequest, DeleteRequest, DeleteApply, KillLookup, KillFails, KillOnServer, KillSend
<1>2. ReportsTell(S, T)'
  BY <1>1 DEF ReportsTell
<1>3. ASSUME NEW b \in Bundles, KillRequest(b) \/ DeleteRequest(b) \/ DeleteApply(b)
      PROVE  DbTells(S, T)'
  BY <1>3, UnchangedTells, EndTells DEF KillRequest, DeleteRequest, DeleteApply
<1>4. ASSUME NEW k \in kills, KillOnServer(k)
      PROVE  DbTells(S, T)'
  <2>1. k.bundle \in Bundles
    BY DEF RestTypeOK, Kill
  <2>2. QED
    BY <1>4, <2>1, UnchangedTells, EndTells DEF KillOnServer
<1>5. ASSUME NEW k \in kills, KillLookup(k) \/ KillFails(k) \/ \E w \in Workers : KillSend(k, w)
      PROVE  DbTells(S, T)'
  BY <1>5, UnchangedTells DEF KillLookup, KillFails, KillSend
<1>6. QED
  BY <1>2, <1>3, <1>4, <1>5

LEMMA UploadTells ==
  ASSUME NEW S, NEW T, ServerTells(S, T), NEW u \in uploads,
         UploadForbidden(u) \/ UploadSucceeds(u) \/ UploadRefused(u) \/ UploadBreaks(u)
  PROVE  DbTells(S, T)' /\ ReportsTell(S, T)'
<1> USE DEF ServerTells
<1>1. UNCHANGED checkins /\ u.bundle \in Bundles
  BY DEF RestTypeOK, Upload, UploadForbidden, UploadSucceeds, UploadRefused, UploadBreaks,
         Answer, restVars
<1>2. ReportsTell(S, T)'
  BY <1>1 DEF ReportsTell
<1>3. CASE UploadForbidden(u) \/ UploadSucceeds(u)
  BY <1>2, <1>3, UnchangedTells DEF UploadForbidden, UploadSucceeds
<1>4. CASE UploadRefused(u)
  BY <1>1, <1>2, <1>4, EndTells DEF UploadRefused
<1>5. CASE UploadBreaks(u)
  BY <1>1, <1>2, <1>5, BreakTells DEF UploadBreaks
<1>6. QED
  BY <1>3, <1>4, <1>5

LEMMA RestServerTells ==
  ASSUME NEW S, NEW T, ServerTells(S, T), RestNext \/ RestFault
  PROVE  DbTells(S, T)' /\ ReportsTell(S, T)'
<1>1. CASE RestNext
  BY <1>1, CheckinTells, RequestTells, UploadTells DEF RestNext
<1>2. CASE RestFault
  BY <1>2, CheckinTells, RequestTells, UploadTells DEF RestFault
<1>3. QED
  BY <1>1, <1>2

-----------------------------------------------------------------------------
(* The workers. *)

WorkersTell(S, T) == WorkerTypeOK /\ ServerTells(S, T) /\ RunsTell(S)

(* A check-in reports what the worker has, and nothing else. *)
LEMMA SendTells ==
  ASSUME NEW S, NEW T, WorkersTell(S, T), NEW w \in Workers, SendCheckin(w),
         \A b \in Bundles :
           runs[w][b].stage = "finalizing" /\ runs[w][b].failure = "none" => b \in T
  PROVE  DbTells(S, T)' /\ ReportsTell(S, T)' /\ RunsTell(S)'
<1> USE DEF WorkersTell, ServerTells
<1>1. \A b \in Bundles : HasRun(w, b) => ReportTells(ReportOf(w, b), S, T)
  <2>1. SUFFICES ASSUME NEW b \in Bundles, HasRun(w, b)
                 PROVE  ReportTells(ReportOf(w, b), S, T)
    OBVIOUS
  <2>2. runs[w][b].stage \in Stage \ {"none"}
    BY <2>1 DEF WorkerTypeOK, Run, HasRun
  <2>3. ServerState(runs[w][b].stage) = "finalizing" => runs[w][b].stage = "finalizing"
    BY <2>2 DEF ServerState, Stage
  <2>4. QED
    BY <2>1, <2>3 DEF RunsTell, ReportTells, ReportOf
<1>2. ReportsTell(S, T)'
  <2>1. \A c \in checkins' : \A r \in c.runs :
          c \in checkins \/ \E b \in Bundles : HasRun(w, b) /\ r = ReportOf(w, b)
    BY DEF SendCheckin
  <2>2. QED
    BY <1>1, <2>1 DEF ReportsTell, ReportTells
<1>3. DbTells(S, T)' /\ RunsTell(S)'
  BY UnchangedTells DEF SendCheckin, workerVars, RunsTell, HasRun
<1>4. QED
  BY <1>2, <1>3

(* One run changes, of a bundle that may run. *)
LEMMA SetRunTells ==
  ASSUME NEW S, WorkerTypeOK, RunsTell(S), NEW w \in Workers, NEW b \in Bundles, NEW r,
         SetRun(w, b, r), b \in S
  PROVE  RunsTell(S)'
<1>1. \A v \in Workers, x \in Bundles \ {b} : runs'[v][x] = runs[v][x]
  BY DEF SetRun, WorkerTypeOK
<1>2. QED
  BY <1>1 DEF RunsTell, HasRun, SetRun

LEMMA MessageTells ==
  ASSUME NEW S, NEW T, WorkersTell(S, T), MailboxTypeOK, NEW w \in Workers, NEW m \in mailbox,
         \/ StartGranted(w, m) \/ StartAnswerLost(w, m) \/ StartRefused(w, m)
         \/ ReceiveKill(w, m) \/ ReceiveMarkFinalized(w, m)
         \/ DropMessage(w, m) \/ LoseMessage(w, m)
  PROVE  DbTells(S, T)' /\ ReportsTell(S, T)' /\ RunsTell(S)'
<1> USE DEF WorkersTell, ServerTells
<1>1. m.bundle \in Bundles
  BY DEF MailboxTypeOK, Message
<1>2. UNCHANGED restVars
  BY DEF StartGranted, StartAnswerLost, AskToStart, StartRefused, ReceiveKill,
         ReceiveMarkFinalized, DropMessage, LoseMessage
<1>3. ReportsTell(S, T)'
  BY <1>2 DEF ReportsTell, restVars
<1>4. ASSUME UNCHANGED workerVars PROVE RunsTell(S)'
  BY <1>4 DEF RunsTell, HasRun, workerVars
<1>5. CASE StartGranted(w, m) \/ StartAnswerLost(w, m)
  <2>1. DbTells(S, T)' /\ m.bundle \in S
    BY <1>1, <1>5, PreparingTells DEF StartGranted, StartAnswerLost, AskToStart
  <2>2. RunsTell(S)'
    BY <1>1, <1>4, <1>5, <2>1, SetRunTells DEF StartGranted, StartAnswerLost
  <2>3. QED
    BY <1>3, <2>1, <2>2
<1>6. CASE ReceiveKill(w, m) \/ ReceiveMarkFinalized(w, m)
  <2>1. DbTells(S, T)'
    BY <1>6, UnchangedTells DEF ReceiveKill, ReceiveMarkFinalized
  <2>2. HasRun(w, m.bundle) => m.bundle \in S
    BY <1>1 DEF RunsTell
  <2>3. RunsTell(S)'
    BY <1>1, <1>4, <1>6, <2>2, SetRunTells DEF ReceiveKill, ReceiveMarkFinalized
  <2>4. QED
    BY <1>3, <2>1, <2>3
<1>7. CASE StartRefused(w, m) \/ DropMessage(w, m) \/ LoseMessage(w, m)
  BY <1>3, <1>4, <1>7, UnchangedTells DEF StartRefused, DropMessage, LoseMessage
<1>8. QED
  BY <1>5, <1>6, <1>7

LEMMA ProcessTells ==
  ASSUME NEW S, NEW T, WorkersTell(S, T), NEW w \in Workers, NEW b \in Bundles,
         \/ BeginRunning(w, b) \/ EndPreparing(w, b) \/ EndRunning(w, b)
         \/ Restage(w, b) \/ ForgetFinalized(w, b)
         \/ UploadBegin(w, b) \/ EndUploading(w, b)
  PROVE  DbTells(S, T)' /\ ReportsTell(S, T)' /\ RunsTell(S)'
<1> USE DEF WorkersTell, ServerTells
<1>1. PICK s \in Stage \ {"none"} : Process(w, b, s)
  BY DEF BeginRunning, EndPreparing, EndRunning, Restage, ForgetFinalized, UploadBegin,
         EndUploading, Stage
<1>2. DbTells(S, T)' /\ ReportsTell(S, T)'
  BY <1>1, UnchangedTells DEF Process, ReportsTell
<1>3. b \in S
  BY <1>1 DEF Process, RunsTell, HasRun
<1>4. UNCHANGED workerVars \/ \E r : SetRun(w, b, r)
  BY DEF BeginRunning, EndPreparing, EndRunning, Restage, ForgetFinalized, UploadBegin, EndUploading
<1>5. RunsTell(S)'
  <2>1. CASE UNCHANGED workerVars
    BY <2>1 DEF RunsTell, HasRun, workerVars
  <2>2. ASSUME NEW r, SetRun(w, b, r) PROVE RunsTell(S)'
    BY <1>3, <2>2, SetRunTells
  <2>3. QED
    BY <1>4, <2>1, <2>2
<1>6. QED
  BY <1>2, <1>5

(* Memory and file are copied to each other, or emptied. *)
LEMMA LifeTells ==
  ASSUME NEW S, NEW T, WorkersTell(S, T), NEW w \in Workers,
         \/ SaveState(w) \/ CheckTermination(w) \/ Restart(w)
         \/ TerminateAndRestage(w) \/ Terminate(w) \/ Crash(w)
  PROVE  DbTells(S, T)' /\ ReportsTell(S, T)' /\ RunsTell(S)'
<1> USE DEF WorkersTell, ServerTells
<1>1. DbTells(S, T)'
  BY UnchangedTells
  DEF SaveState, CheckTermination, Restart, TerminateAndRestage, Terminate, Crash
<1>2. ReportsTell(S, T)'
  <2>1. CASE Crash(w)
    <3> DEFINE left(c) == [c EXCEPT !.abandoned = @ \/ c.from = w]
    <3>1. \A c \in checkins : left(c).runs = c.runs
      BY DEF RestTypeOK, Checkin
    <3>2. checkins' = {left(c) : c \in checkins}
      BY <2>1 DEF Crash
    <3>3. \A c \in checkins' : \E d \in checkins : c.runs = d.runs
      <4> HIDE DEF left
      <4>1. QED
        BY <3>1, <3>2
    <3>4. QED
      BY <3>3, FewerReports
  <2>2. CASE ~Crash(w)
    <3>1. UNCHANGED checkins
      BY <2>2 DEF SaveState, CheckTermination, Restart, TerminateAndRestage, Terminate, restVars
    <3>2. QED
      BY <3>1 DEF ReportsTell
  <2>3. QED
    BY <2>1, <2>2
<1>3. \A v \in Workers, b \in Bundles :
        /\ runs'[v][b].stage # "none" => runs[v][b].stage # "none" \/ saved[v][b].stage # "none"
        /\ saved'[v][b].stage # "none" => runs[v][b].stage # "none" \/ saved[v][b].stage # "none"
  <2>1. CASE SaveState(w) \/ TerminateAndRestage(w) \/ Terminate(w)
    BY <2>1 DEF SaveState, TerminateAndRestage, Terminate, WorkerTypeOK
  <2>2. CASE Restart(w) \/ Crash(w)
    BY <2>2 DEF Restart, Crash, WorkerTypeOK
  <2>3. CASE CheckTermination(w)
    <3>1. NoRun.stage = "none"
      BY DEF NoRun
    <3>2. \A b \in Bundles : [runs[w][b] EXCEPT !.restaged = TRUE].stage = runs[w][b].stage
      BY DEF WorkerTypeOK, Run
    <3>3. QED
      BY <2>3, <3>1, <3>2 DEF CheckTermination, WorkerTypeOK
  <2>4. QED
    BY <2>1, <2>2, <2>3
<1>4. RunsTell(S)'
  BY <1>3 DEF RunsTell, HasRun
<1>5. QED
  BY <1>1, <1>2, <1>4

LEMMA WorkerTells ==
  ASSUME NEW S, NEW T, WorkersTell(S, T), MailboxTypeOK,
         \A w \in Workers, b \in Bundles :
           runs[w][b].stage = "finalizing" /\ runs[w][b].failure = "none" => b \in T,
         WorkerNext \/ WorkerFault
  PROVE  DbTells(S, T)' /\ ReportsTell(S, T)' /\ RunsTell(S)'
<1>1. CASE WorkerNext
  BY <1>1, SendTells, MessageTells, ProcessTells, LifeTells DEF WorkerNext
<1>2. CASE WorkerFault
  BY <1>2, MessageTells, LifeTells DEF WorkerFault
<1>3. QED
  BY <1>1, <1>2

-----------------------------------------------------------------------------
(* All together. *)

(* Whom the bundle manager stages may run, as its parents have been seen.  *)
LEMMA StagedIsCleared ==
  ASSUME Recorded, NEW b \in Bundles, StagePlan(b) = "stage"
  PROVE  b \in Cleared
<1>1. \A p \in Deps[b] : state[p] \in AcceptableStates(b)
  BY DEF StagePlan
<1>2. AcceptableStates(b) \subseteq FinalStates
  BY DEF AcceptableStates, FinalStates
<1>3. \A p \in Deps[b] : p \in Parents
  BY DEF Parents
<1>4. QED
  BY <1>1, <1>2, <1>3 DEF Cleared, Recorded

LEMMA StepTells ==
  ASSUME Inv, NEW S, NEW T, Tells(S, T),
         \A b \in Bundles : StagePlan(b) = "stage" => b \in S,
         \A w \in Workers, b \in Bundles :
           runs[w][b].stage = "finalizing" /\ runs[w][b].failure = "none" => b \in T,
         Step \/ Disturbance
  PROVE  Tells(S, T)'
<1>1. ManagerTells(S, T) /\ ServerTells(S, T) /\ WorkersTell(S, T) /\ MailboxTypeOK
  BY DEF Inv, TypeOK, Tells, ManagerTells, ServerTells, WorkersTell
<1>2. CASE (BmNext \/ BmTimeout \/ BmFault) /\ UNCHANGED <<restVars, workerVars>>
  <2>1. DbTells(S, T)' /\ CopiesTell(S, T)'
    BY <1>1, <1>2, BundleManagerTells
  <2>2. ReportsTell(S, T)' /\ RunsTell(S)'
    BY <1>2 DEF Tells, ReportsTell, RunsTell, HasRun, restVars, workerVars
  <2>3. QED
    BY <2>1, <2>2 DEF Tells
<1>3. CASE (RestNext \/ RestFault) /\ UNCHANGED <<bmVars, workerVars>>
  <2>1. DbTells(S, T)' /\ ReportsTell(S, T)'
    BY <1>1, <1>3, RestServerTells
  <2>2. CopiesTell(S, T)' /\ RunsTell(S)'
    BY <1>3 DEF Tells, CopiesTell, RunsTell, HasRun, bmVars, workerVars
  <2>3. QED
    BY <2>1, <2>2 DEF Tells
<1>4. CASE (WorkerNext \/ WorkerFault) /\ UNCHANGED bmVars
  <2>1. DbTells(S, T)' /\ ReportsTell(S, T)' /\ RunsTell(S)'
    BY <1>1, <1>4, WorkerTells
  <2>2. CopiesTell(S, T)'
    BY <1>4 DEF Tells, CopiesTell, bmVars
  <2>3. QED
    BY <2>1, <2>2 DEF Tells
<1>5. QED
  BY <1>2, <1>3, <1>4, DueTimeoutIsTimeout DEF Step, Disturbance

(* What was seen stays seen. *)
LEMMA TellsMore ==
  ASSUME NEW S, NEW T, Tells(S, T)', S \subseteq Cleared', T \subseteq succeeded'
  PROVE  Tells(Cleared, succeeded)'
<1>1. DbTells(Cleared, succeeded)'
  BY DEF Tells, DbTells
<1>2. CopiesTell(Cleared, succeeded)'
  BY DEF Tells, CopiesTell
<1>3. ReportsTell(Cleared, succeeded)'
  BY DEF Tells, ReportsTell, ReportTells
<1>4. RunsTell(Cleared)'
  BY DEF Tells, RunsTell
<1>5. QED
  BY <1>1, <1>2, <1>3, <1>4 DEF Tells

LEMMA NextKeepsHistory ==
  ASSUME Inv, HistoryInv, Next
  PROVE  HistoryInv'
<1>1. Recorded'
  BY DEF Next, Record, Recorded
<1>2. PICK S : S = Cleared
  OBVIOUS
<1>3. PICK T : T = succeeded
  OBVIOUS
<1>4. Tells(S, T) /\ \A b \in Bundles : StagePlan(b) = "stage" => b \in S
  BY <1>2, <1>3, StagedIsCleared DEF HistoryInv
<1>5. Tells(S, T)'
  BY <1>3, <1>4, StepTells DEF HistoryInv, Recorded, Next
<1>6. S \subseteq Cleared' /\ T \subseteq succeeded'
  BY <1>2, <1>3 DEF Cleared, Next, Record
<1>7. QED
  BY <1>1, <1>5, <1>6, TellsMore DEF HistoryInv

LEMMA StutterKeepsHistory ==
  ASSUME HistoryInv, UNCHANGED vars
  PROVE  HistoryInv'
<1> USE DEF vars, dbVars, bmVars, restVars, workerVars, history
<1>1. UNCHANGED Cleared
  BY DEF Cleared
<1>2. DbTells(Cleared, succeeded)' /\ CopiesTell(Cleared, succeeded)'
  BY <1>1 DEF HistoryInv, Tells, DbTells, CopiesTell
<1>3. ReportsTell(Cleared, succeeded)' /\ RunsTell(Cleared)'
  BY <1>1 DEF HistoryInv, Tells, ReportsTell, ReportTells, RunsTell, HasRun
<1>4. Recorded'
  BY DEF HistoryInv, Recorded
<1>5. QED
  BY <1>2, <1>3, <1>4 DEF HistoryInv, Tells

LEMMA InitTells ==
  ASSUME Init
  PROVE  HistoryInv
<1>1. DbTells(Cleared, succeeded)
  BY DEF Init, DbInit, DbTells, Unstarted
<1>2. CopiesTell(Cleared, succeeded) /\ ReportsTell(Cleared, succeeded)
  BY DEF Init, BmInit, RestInit, CopiesTell, ReportsTell
<1>3. RunsTell(Cleared)
  BY DEF Init, WorkerInit, NoRun, RunsTell, HasRun
<1>4. Recorded
  <2>1. Parents \subseteq Bundles
    BY DepsAssumption DEF Parents
  <2>2. QED
    BY <2>1 DEF Init, DbInit, WorkerInit, NoRun, Recorded, FinalStates
<1>5. QED
  BY <1>1, <1>2, <1>3, <1>4 DEF HistoryInv, Tells

(* What tables, copies, reports, memory and files of workers say of the    *)
(* past of a bundle is true in every state.                                *)
THEOREM HistoryInvHolds == Spec => []HistoryInv
<1>1. Init => HistoryInv
  BY InitTells
<1>2. Inv /\ HistoryInv /\ [Next]_vars => HistoryInv'
  BY NextKeepsHistory, StutterKeepsHistory
<1>3. QED
  BY <1>1, <1>2, InvHolds, PTL DEF Spec

(* A READY bundle had a run that ended without a failure: reports that are *)
(* late or repeated, copies of the metadata that are stale, messages of    *)
(* failed uploads and workers that come back with an old state change the  *)
(* verdict only for the worse.                                             *)
THEOREM AlwaysReadyMeansRan == Spec => []ReadyMeansRan
<1>1. HistoryInv => ReadyMeansRan
  BY DEF HistoryInv, Tells, DbTells, ReadyMeansRan
<1>2. QED
  BY <1>1, HistoryInvHolds, PTL

(* Whatever brings a bundle back to STAGED or into a run, its dependencies *)
(* were once all in a state it accepts, for any graph of dependencies.     *)
THEOREM AlwaysDependenciesFirst == Spec => []DependenciesFirst
<1>1. HistoryInv => DependenciesFirst
  BY DEF HistoryInv, Tells, DbTells, Cleared, Unstarted, DependenciesFirst
<1>2. QED
  BY <1>1, HistoryInvHolds, PTL
=============================================================================
