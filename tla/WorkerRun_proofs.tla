--------------------------- MODULE WorkerRun_proofs ---------------------------
(***************************************************************************)
(* Proofs about the runs of a worker and their dependencies, for any       *)
(* number of workers, runs and dependencies, and any disturbances.         *)
(***************************************************************************)
EXTENDS WorkerRun, FiniteSetTheorems, TLAPS

(* What ThreadKnown rests on, whether the manager is up or not. *)
ThreadInv == \A m \in Managers, d \in Deps : ~ThreadMissing(m, d)

(* No crash and no second message have made the worker forget a run. *)
Remembered == happened \intersect {"crash", "duplicate"} = {}

(* What CpuExclusive and Released rest on: a container belongs to a run    *)
(* that knows it, and one that runs to a run in RUNNING.                   *)
ContainerKnown ==
    \A r \in Runs :
      /\ container[r] = "running" => run[r].stage = "running"
      /\ container[r] # "absent" => /\ run[r].container_id
                                    /\ run[r].stage \in {"running", "cleaning_up"}

InRunning(m) == {r \in Runs : Home[r] = m /\ run[r].stage = "running"}

CpuInv == \A m \in Managers : Cardinality(InRunning(m)) <= Cpus

ReleasedInv ==
    \A r \in Runs : run[r].stage \in Past =>
        /\ \A d \in Deps : r \notin dep[d].dependents
        /\ r \notin links

PinInv ==
    \A d \in Deps :
      /\ dep[d].stage = "absent" => dep[d].dependents = {}
      /\ \A r \in dep[d].dependents : d \in Needs[r]

RunInv == TypeOK /\ ThreadInv /\ PinInv /\ (Remembered => ContainerKnown /\ CpuInv /\ ReleasedInv)

-----------------------------------------------------------------------------
(* What the dependency manager makes of an entry is an entry. *)
LEMMA AbsentType == Absent \in Entry /\ NoThread \in Thread
  BY DEF Absent, Entry, NoThread, Thread

(* get() of an entry is an entry, and so is what release() leaves of it. *)
LEMMA GetEntryType ==
    ASSUME NEW e \in Entry, NEW r \in Runs
    PROVE  GetEntry(e, r) \in Entry
  BY DEF GetEntry, Entry, Absent

(* release() takes one run from the dependents and adds none. *)
LEMMA ReleaseEntryType ==
    ASSUME NEW e \in Entry, NEW r \in Runs
    PROVE  /\ ReleaseEntry(e, r) \in Entry
           /\ ReleaseEntry(e, r).dependents \subseteq e.dependents
           /\ e.stage # "absent" => ReleaseEntry(e, r).dependents = e.dependents \ {r}
  BY DEF ReleaseEntry, Entry

(* So is the whole state file after the requests and releases of a run. *)
LEMMA GetType ==
    ASSUME DepTypeOK, NEW r \in Runs, NEW keys
    PROVE  Get(r, keys) \in [Deps -> Entry]
  BY GetEntryType DEF Get, DepTypeOK

LEMMA ReleaseType ==
    ASSUME DepTypeOK, NEW r \in Runs, NEW keys
    PROVE  Release(r, keys) \in [Deps -> Entry]
  BY ReleaseEntryType DEF Release, DepTypeOK

(* The copy of the state for a thread is a thread state. *)
LEMMA ThreadForType ==
    ASSUME NEW e \in Entry, NEW t \in Thread
    PROVE  ThreadFor(e, t) \in Thread
  BY DEF ThreadFor, Thread, Entry

(* A manager that has the threads it is said to have takes each entry to   *)
(* an entry, and keeps a thread for what it goes on downloading.           *)
LEMMA TransitionType ==
    ASSUME DepTypeOK, NEW m \in Managers, NEW d \in Deps, ~ThreadMissing(m, d)
    PROVE  /\ Transition(m, d)[1] \in Entry
           /\ Transition(m, d)[2] \in Thread
           /\ Transition(m, d)[1].dependents = dep[d].dependents
           /\ Transition(m, d)[1].stage = "downloading" /\ Transition(m, d)[1].by = m =>
                Transition(m, d)[2].pc # "none"
           /\ Transition(m, d)[1].by \in {m, None} \/ Transition(m, d)[1] = dep[d]
<1> DEFINE e == dep[d]
           t == ThreadFor(e, thread[m][d])
<1>1. e \in Entry /\ thread[m][d] \in Thread /\ t \in Thread
  BY ThreadForType DEF DepTypeOK
<1>2. CASE e.stage # "downloading" \/ (~Starts(e) /\ e.by # m)
  <2>1. Transition(m, d) = <<e, thread[m][d]>>
    BY <1>2 DEF Transition
  <2>2. QED
    BY <1>1, <1>2, <2>1
<1>3. CASE e.stage = "downloading" /\ (Starts(e) \/ e.by = m)
  <2>1. t.pc # "none"
    BY <1>1, <1>3 DEF ThreadFor, ThreadMissing, Thread
  <2>2. CASE Alive(t)
    <3> DEFINE f == [[e EXCEPT !.by = m] EXCEPT !.stale = t.stale]
    <3>1. f \in Entry /\ f.dependents = e.dependents /\ f.by = m
      BY <1>1 DEF Entry, Thread
    <3>2. Transition(m, d) = <<f, t>>
      BY <1>3, <2>2 DEF Transition, Alive
    <3> HIDE DEF f, t
    <3>3. QED
      BY <1>1, <2>1, <3>1, <3>2
  <2>3. CASE t.pc = "ok"
    <3> DEFINE f == [e EXCEPT !.by = None, !.stage = "ready"]
    <3>1. /\ f \in Entry /\ f.dependents = e.dependents /\ f.stage = "ready"
          /\ f.by = None
      BY <1>1 DEF Entry
    <3>2. Transition(m, d) = <<f, NoThread>>
      BY <1>3, <2>3 DEF Transition, Alive
    <3> HIDE DEF f
    <3>3. QED
      BY <3>1, <3>2, AbsentType
  <2>4. CASE t.pc = "failed"
    <3> DEFINE f == [e EXCEPT !.by = None, !.stage = "failed"]
    <3>1. /\ f \in Entry /\ f.dependents = e.dependents /\ f.stage = "failed"
          /\ f.by = None
      BY <1>1 DEF Entry
    <3>2. Transition(m, d) = <<f, NoThread>>
      BY <1>3, <2>4 DEF Transition, Alive
    <3> HIDE DEF f
    <3>3. QED
      BY <3>1, <3>2, AbsentType
  <2>5. QED
    BY <1>1, <2>1, <2>2, <2>3, <2>4 DEF Alive, Thread
<1>4. QED
  BY <1>2, <1>3
(* The state file holds run states. *)
LEMMA RunStateType ==
    /\ NoRun \in RunState /\ NewRun \in RunState
    /\ Stage = {"none", "preparing", "running", "cleaning_up", "uploading", "finalizing",
                "finished", "restaged"}
    /\ {"none", "dependency", "image", "mount", "start", "command", "upload"} = Failure
  BY DEF RunState, Stage, Failure, NoRun, NewRun

(* The updates of a run's state that the transitions make. *)
LEMMA RunStateUpdate ==
    ASSUME NEW s \in RunState
    PROVE  /\ [s EXCEPT !.killed = TRUE] \in RunState
           /\ [s EXCEPT !.finalized = TRUE] \in RunState
           /\ [s EXCEPT !.restaged = TRUE] \in RunState
           /\ \A c \in BOOLEAN : [s EXCEPT !.container_id = c] \in RunState
           /\ \A g \in Stage, f \in Failure :
                 /\ [s EXCEPT !.stage = g, !.failure = f] \in RunState
                 /\ [s EXCEPT !.stage = g, !.failure = f, !.killed = TRUE] \in RunState
           /\ \A g \in Stage, c \in BOOLEAN :
                 [s EXCEPT !.stage = g, !.container_id = c] \in RunState
           /\ \A g \in Stage :
                 [s EXCEPT !.stage = g, !.container_id = TRUE, !.has_contents = TRUE] \in RunState
<1>1. [s EXCEPT !.killed = TRUE] \in RunState
  BY DEF RunState
<1>2. [s EXCEPT !.finalized = TRUE] \in RunState
  BY DEF RunState
<1>3. [s EXCEPT !.restaged = TRUE] \in RunState
  BY DEF RunState
<1>4. ASSUME NEW c \in BOOLEAN PROVE [s EXCEPT !.container_id = c] \in RunState
  BY DEF RunState
<1>5. ASSUME NEW g \in Stage, NEW f \in Failure
      PROVE  [s EXCEPT !.stage = g, !.failure = f] \in RunState
  BY DEF RunState
<1>6. ASSUME NEW g \in Stage, NEW f \in Failure
      PROVE  [s EXCEPT !.stage = g, !.failure = f, !.killed = TRUE] \in RunState
  BY DEF RunState
<1>7. ASSUME NEW g \in Stage, NEW c \in BOOLEAN
      PROVE  [s EXCEPT !.stage = g, !.container_id = c] \in RunState
  BY DEF RunState
<1>8. ASSUME NEW g \in Stage
      PROVE  [s EXCEPT !.stage = g, !.container_id = TRUE, !.has_contents = TRUE] \in RunState
  BY DEF RunState
<1>9. QED
  BY <1>1, <1>2, <1>3, <1>4, <1>5, <1>6, <1>7, <1>8

(* What the file may hold of a run is a run state. *)
LEMMA InFileType ==
    ASSUME NEW s \in RunState
    PROVE  InFile(s) \subseteq RunState
<1>1. Before(s) \subseteq RunState
  <2>1. \A g \in Stage, f \in Failure : 
          /\ [s EXCEPT !.stage = g] \in RunState
          /\ [s EXCEPT !.stage = g, !.failure = f] \in RunState
          /\ [s EXCEPT !.stage = g, !.container_id = TRUE] \in RunState
    BY DEF RunState
  <2>4. [NoRun EXCEPT !.stage = "finalizing", !.finalized = TRUE] \in RunState
    BY DEF NoRun, RunState, Stage, Failure
  <2>2. s.stage \in Stage /\ s.failure \in Failure
    BY DEF RunState
  <2>3. QED
    BY <2>1, <2>2, <2>4, RunStateType, ZenonT(60) DEF Before
<1>2. \A b \in RunState, k \in BOOLEAN, f \in BOOLEAN :
        [b EXCEPT !.killed = k, !.finalized = f] \in RunState
  BY DEF RunState
<1>3. s.killed \in BOOLEAN /\ s.finalized \in BOOLEAN
  BY DEF RunState
<1>4. ASSUME NEW b \in RunState PROVE WithMessages(b, s) \subseteq RunState
  <2> DEFINE At(f) == {[b EXCEPT !.killed = k, !.finalized = f] : k \in {FALSE, s.killed}}
  <2>1. ASSUME NEW f \in {FALSE, s.finalized} PROVE At(f) \subseteq RunState
    BY <1>2, <1>3
  <2>2. WithMessages(b, s) = UNION {At(f) : f \in {FALSE, s.finalized}}
    BY Zenon DEF WithMessages
  <2> HIDE DEF At
  <2>3. QED
    BY <2>1, <2>2
<1>5. \A b \in {s} \union Before(s) : WithMessages(b, s) \subseteq RunState
  BY <1>1, <1>4
<1>6. QED
  BY <1>5 DEF InFile

(* A run state that is set is one, and so is a thread. *)
LEMMA SetType ==
    ASSUME NEW r \in Runs, NEW s \in RunState, TypeOK, Set(r, s)
    PROVE  run' \in [Runs -> RunState]
  BY DEF TypeOK, Set

LEMMA SetThreadType ==
    ASSUME NEW m \in Managers, NEW d \in Deps, NEW t \in Thread, DepTypeOK, SetThread(m, d, t)
    PROVE  thread' \in [Managers -> [Deps -> Thread]]
  BY DEF DepTypeOK, SetThread

RestTypeOK ==
    /\ container \in [Runs -> {"absent", "running", "exited"}]
    /\ links \subseteq Runs
    /\ uploading \in [Runs -> {"none", "alive", "ok", "failed"}]
    /\ pull \in [Managers -> {"none", "alive", "ok", "failed"}]
    /\ images \subseteq Managers

(* The type invariant is inductive. *)
LEMMA TypeStep == TypeOK /\ [Next]_vars => TypeOK'
<1> SUFFICES ASSUME TypeOK, [Next]_vars PROVE TypeOK'
  OBVIOUS
<1> USE NoneAssumption, HomeAssumption
<1>1. ASSUME NEW r \in Runs, InitializeRun(r) PROVE TypeOK'
  <2>1. run' \in [Runs -> RunState]
    BY SetType, RunStateType, <1>1 DEF InitializeRun, Disturb, Listens, TypeOK, RunState
  <2>2. DepTypeOK'
    BY <1>1 DEF InitializeRun, Disturb, Listens, TypeOK, DepTypeOK, depVars
  <2>3. RestTypeOK'
    BY <1>1 DEF InitializeRun, Disturb, Listens, TypeOK, RestTypeOK, runVars
  <2>4. QED
    BY <2>1, <2>2, <2>3 DEF TypeOK, RestTypeOK
<1>2. ASSUME NEW r \in Runs, Kill(r) PROVE TypeOK'
  <2>1. run' \in [Runs -> RunState]
    <3>1. [run[r] EXCEPT !.killed = TRUE] \in RunState
      <4>1. run[r] \in RunState
        BY DEF TypeOK
      <4>2. QED
        BY <4>1 DEF RunState, Stage, Failure
    <3>2. QED
      BY <3>1, SetType, <1>2, ZenonT(60) DEF TypeOK, Kill, Disturb
  <2>2. DepTypeOK'
    BY <1>2 DEF Kill, Disturb, TypeOK, DepTypeOK, depVars
  <2>3. RestTypeOK'
    BY <1>2 DEF Kill, Disturb, TypeOK, RestTypeOK, runVars
  <2>4. QED
    BY <2>1, <2>2, <2>3 DEF TypeOK, RestTypeOK
<1>3. ASSUME NEW r \in Runs, MarkFinalized(r) PROVE TypeOK'
  <2>1. run' \in [Runs -> RunState]
    <3>1. [run[r] EXCEPT !.finalized = TRUE] \in RunState
      <4>1. run[r] \in RunState
        BY DEF TypeOK
      <4>2. QED
        BY <4>1 DEF RunState, Stage, Failure
    <3>2. QED
      BY <3>1, SetType, <1>3, ZenonT(60) DEF TypeOK, MarkFinalized
  <2>2. DepTypeOK'
    BY <1>3 DEF MarkFinalized, TypeOK, DepTypeOK, depVars
  <2>3. RestTypeOK'
    BY <1>3 DEF MarkFinalized, TypeOK, RestTypeOK, runVars
  <2>4. QED
    BY <2>1, <2>2, <2>3 DEF TypeOK, RestTypeOK
<1>4. ASSUME NEW r \in Runs, AbandonPreparing(r) PROVE TypeOK'
  <2>1. run' \in [Runs -> RunState]
    <3>1. [run[r] EXCEPT !.stage = "cleaning_up"] \in RunState
      <4>1. run[r] \in RunState
        BY DEF TypeOK
      <4>2. QED
        BY <4>1 DEF RunState, Stage, Failure
    <3>2. QED
      BY <3>1, SetType, <1>4 DEF TypeOK, AbandonPreparing, Preparing
  <2>2. DepTypeOK'
    BY <1>4 DEF AbandonPreparing, Preparing, TypeOK, DepTypeOK, depVars
  <2>3. RestTypeOK'
    BY <1>4 DEF AbandonPreparing, Preparing, TypeOK, RestTypeOK, runVars
  <2>4. QED
    BY <2>1, <2>2, <2>3 DEF TypeOK, RestTypeOK
<1>5. ASSUME NEW r \in Runs, DependencyFailed(r) PROVE TypeOK'
  <2>1. run' \in [Runs -> RunState]
    <3>1. [run[r] EXCEPT !.stage = "cleaning_up", !.failure = "dependency"] \in RunState
      <4>1. run[r] \in RunState
        BY DEF TypeOK
      <4>2. QED
        BY <4>1 DEF RunState, Stage, Failure
    <3>2. QED
      BY <3>1, SetType, <1>5 DEF TypeOK, DependencyFailed, Prepare, Preparing, Fail
  <2>2. DepTypeOK'
    BY GetType, <1>5
       DEF DependencyFailed, Prepare, Preparing, Fail, TypeOK, DepTypeOK, depVars
  <2>3. RestTypeOK'
    BY <1>5 DEF DependencyFailed, Prepare, Preparing, Fail, TypeOK, RestTypeOK, runVars
  <2>4. QED
    BY <2>1, <2>2, <2>3 DEF TypeOK, RestTypeOK
<1>6. ASSUME NEW r \in Runs, ImageFailed(r) PROVE TypeOK'
  <2>1. run' \in [Runs -> RunState]
    <3>1. [run[r] EXCEPT !.stage = "cleaning_up", !.failure = "image"] \in RunState
      <4>1. run[r] \in RunState
        BY DEF TypeOK
      <4>2. QED
        BY <4>1 DEF RunState, Stage, Failure
    <3>2. QED
      BY <3>1, SetType, <1>6
         DEF TypeOK, ImageFailed, GetAll, GetImage, Prepare, Preparing, Fail
  <2>2. DepTypeOK'
    BY GetType, <1>6
       DEF ImageFailed, GetAll, GetImage, Prepare, Preparing, Fail, TypeOK, DepTypeOK,
           depVars
  <2>3. RestTypeOK'
    BY <1>6
       DEF ImageFailed, GetAll, GetImage, Prepare, Preparing, Fail, TypeOK, RestTypeOK,
           runVars
  <2>4. QED
    BY <2>1, <2>2, <2>3 DEF TypeOK, RestTypeOK
<1>7. ASSUME NEW r \in Runs, WaitForDownloads(r) PROVE TypeOK'
  <2>1. run' \in [Runs -> RunState]
    BY <1>7 DEF WaitForDownloads, GetAll, GetImage, Prepare, Preparing, TypeOK, runVars
  <2>2. DepTypeOK'
    BY GetType, <1>7
       DEF WaitForDownloads, GetAll, GetImage, Prepare, Preparing, TypeOK, DepTypeOK,
           depVars
  <2>3. RestTypeOK'
    BY <1>7
       DEF WaitForDownloads, GetAll, GetImage, Prepare, Preparing, TypeOK, RestTypeOK,
           runVars
  <2>4. QED
    BY <2>1, <2>2, <2>3 DEF TypeOK, RestTypeOK
<1>8. ASSUME NEW r \in Runs, MountFails(r) PROVE TypeOK'
  <2>1. run' \in [Runs -> RunState]
    <3>1. [run[r] EXCEPT !.stage = "cleaning_up", !.failure = "mount"] \in RunState
      <4>1. run[r] \in RunState
        BY DEF TypeOK
      <4>2. QED
        BY <4>1 DEF RunState, Stage, Failure
    <3>2. QED
      BY <3>1, SetType, <1>8, ZenonT(60)
         DEF TypeOK, MountFails, GetAll, GetImage, Prepare, Preparing, Fail
  <2>2. DepTypeOK'
    BY GetType, <1>8
       DEF MountFails, GetAll, GetImage, Prepare, Preparing, Fail, TypeOK, DepTypeOK,
           depVars
  <2>3. RestTypeOK'
    BY <1>8
       DEF MountFails, GetAll, GetImage, Prepare, Preparing, Fail, TypeOK, RestTypeOK,
           runVars
  <2>4. QED
    BY <2>1, <2>2, <2>3 DEF TypeOK, RestTypeOK
<1>9. ASSUME NEW r \in Runs, StartContainer(r) PROVE TypeOK'
  <2>1. run' \in [Runs -> RunState]
    <3>1. [run[r] EXCEPT !.stage = "running", !.container_id = TRUE, !.has_contents = TRUE] \in RunState
      <4>1. run[r] \in RunState
        BY DEF TypeOK
      <4>2. QED
        BY <4>1 DEF RunState, Stage, Failure
    <3>2. QED
      BY <3>1, SetType, <1>9
         DEF TypeOK, StartContainer, GetAll, GetImage, Prepare, Preparing, Mount
  <2>2. DepTypeOK'
    BY GetType, <1>9
       DEF StartContainer, GetAll, GetImage, Prepare, Preparing, Mount, TypeOK, DepTypeOK,
           depVars
  <2>3. RestTypeOK'
    BY <1>9
       DEF StartContainer, GetAll, GetImage, Prepare, Preparing, Mount, TypeOK, RestTypeOK,
           runVars
  <2>4. QED
    BY <2>1, <2>2, <2>3 DEF TypeOK, RestTypeOK
<1>10. ASSUME NEW r \in Runs, StartFails(r) PROVE TypeOK'
  <2>1. run' \in [Runs -> RunState]
    <3>1. [run[r] EXCEPT !.stage = "cleaning_up", !.failure = "start"] \in RunState
      <4>1. run[r] \in RunState
        BY DEF TypeOK
      <4>2. QED
        BY <4>1 DEF RunState, Stage, Failure
    <3>2. QED
      BY <3>1, SetType, <1>10
         DEF TypeOK, StartFails, GetAll, GetImage, Prepare, Preparing, Mount, Fail, Disturb
  <2>2. DepTypeOK'
    BY GetType, <1>10
       DEF StartFails, GetAll, GetImage, Prepare, Preparing, Mount, Fail, Disturb, TypeOK,
           DepTypeOK, depVars
  <2>3. RestTypeOK'
    BY <1>10
       DEF StartFails, GetAll, GetImage, Prepare, Preparing, Mount, Fail, Disturb, TypeOK,
           RestTypeOK, runVars
  <2>4. QED
    BY <2>1, <2>2, <2>3 DEF TypeOK, RestTypeOK
<1>11. ASSUME NEW r \in Runs, RunKilled(r) PROVE TypeOK'
  <2>1. run' \in [Runs -> RunState]
    <3>1. \A f \in Outcomes(r) : f \in Failure
      <4>1. container[r] \in {"absent", "running", "exited"}
        BY DEF TypeOK
      <4>2. QED
        BY <4>1 DEF Outcomes, Failure
    <3>2. \A f \in Failure :
            /\ [run[r] EXCEPT !.stage = "cleaning_up", !.failure = f] \in RunState
            /\ [run[r] EXCEPT !.stage = "cleaning_up", !.failure = f, !.killed = TRUE] \in RunState
      <4>1. run[r] \in RunState
        BY DEF TypeOK
      <4>2. QED
        BY <4>1 DEF RunState, Stage, Failure
    <3>3. QED
      BY <3>1, <3>2, SetType, <1>11 DEF RunKilled
  <2>2. DepTypeOK'
    BY <1>11 DEF RunKilled, CheckRunning, Disturb, Outcomes, TypeOK, DepTypeOK, depVars
  <2>3. RestTypeOK'
    BY <1>11 DEF RunKilled, CheckRunning, Disturb, Outcomes, TypeOK, RestTypeOK, runVars
  <2>4. QED
    BY <2>1, <2>2, <2>3 DEF TypeOK, RestTypeOK
<1>12. ASSUME NEW r \in Runs, RunFinished(r) PROVE TypeOK'
  <2>1. run' \in [Runs -> RunState]
    <3>1. \A f \in Outcomes(r) : f \in Failure
      <4>1. container[r] \in {"absent", "running", "exited"}
        BY DEF TypeOK
      <4>2. QED
        BY <4>1 DEF Outcomes, Failure
    <3>2. \A f \in Failure :
            /\ [run[r] EXCEPT !.stage = "cleaning_up", !.failure = f] \in RunState
            /\ [run[r] EXCEPT !.stage = "cleaning_up", !.failure = f, !.killed = TRUE] \in RunState
      <4>1. run[r] \in RunState
        BY DEF TypeOK
      <4>2. QED
        BY <4>1 DEF RunState, Stage, Failure
    <3>3. QED
      BY <3>1, <3>2, SetType, <1>12 DEF RunFinished
  <2>2. DepTypeOK'
    BY <1>12 DEF RunFinished, CheckRunning, Outcomes, TypeOK, DepTypeOK, depVars
  <2>3. RestTypeOK'
    BY <1>12 DEF RunFinished, CheckRunning, Outcomes, TypeOK, RestTypeOK, runVars
  <2>4. QED
    BY <2>1, <2>2, <2>3 DEF TypeOK, RestTypeOK
<1>13. ASSUME NEW r \in Runs, CleanUp(r) PROVE TypeOK'
  <2>1. run' \in [Runs -> RunState]
    <3>1. AfterCleanup(r) \in Stage
      BY RunStateType DEF AfterCleanup
    <3>2. [run[r] EXCEPT !.stage = AfterCleanup(r), !.container_id = FALSE] \in RunState
      BY <3>1, RunStateUpdate DEF TypeOK
    <3>3. QED
      BY <3>2, SetType, <1>13 DEF CleanUp
  <2>2. DepTypeOK'
    BY ReleaseType, <1>13 DEF CleanUp, AfterCleanup, TypeOK, DepTypeOK, depVars
  <2>3. RestTypeOK'
    BY <1>13 DEF CleanUp, AfterCleanup, TypeOK, RestTypeOK, runVars
  <2>4. QED
    BY <2>1, <2>2, <2>3 DEF TypeOK, RestTypeOK
<1>14. ASSUME NEW r \in Runs, Restaged(r) PROVE TypeOK'
  <2>1. run' \in [Runs -> RunState]
    BY SetType, RunStateType, <1>14 DEF Restaged, TypeOK, RunState
  <2>2. DepTypeOK'
    BY <1>14 DEF Restaged, TypeOK, DepTypeOK, depVars
  <2>3. RestTypeOK'
    BY <1>14 DEF Restaged, TypeOK, RestTypeOK, runVars
  <2>4. QED
    BY <2>1, <2>2, <2>3 DEF TypeOK, RestTypeOK
<1>15. ASSUME NEW r \in Runs, StartUpload(r) PROVE TypeOK'
  <2>1. run' \in [Runs -> RunState]
    BY <1>15 DEF StartUpload, TypeOK, runVars
  <2>2. DepTypeOK'
    BY <1>15 DEF StartUpload, TypeOK, DepTypeOK, depVars
  <2>3. RestTypeOK'
    BY <1>15 DEF StartUpload, TypeOK, RestTypeOK, runVars
  <2>4. QED
    BY <2>1, <2>2, <2>3 DEF TypeOK, RestTypeOK
<1>16. ASSUME NEW r \in Runs, FinishUpload(r) PROVE TypeOK'
  <2>1. run' \in [Runs -> RunState]
    <3>1. run[r] \in RunState
      BY DEF TypeOK
    <3>2. [run[r] EXCEPT !.stage = "finalizing",
                         !.failure = IF uploading[r] = "failed" THEN "upload" ELSE @] \in RunState
      BY <3>1 DEF RunState, Stage, Failure
    <3>3. QED
      BY <3>2, SetType, <1>16 DEF TypeOK, FinishUpload
  <2>2. DepTypeOK'
    BY <1>16 DEF FinishUpload, TypeOK, DepTypeOK, depVars
  <2>3. RestTypeOK'
    BY <1>16 DEF FinishUpload, TypeOK, RestTypeOK, runVars
  <2>4. QED
    BY <2>1, <2>2, <2>3 DEF TypeOK, RestTypeOK
<1>17. ASSUME NEW r \in Runs, Finish(r) PROVE TypeOK'
  <2>1. run' \in [Runs -> RunState]
    BY SetType, RunStateType, <1>17 DEF Finish, TypeOK, RunState
  <2>2. DepTypeOK'
    BY <1>17 DEF Finish, TypeOK, DepTypeOK, depVars
  <2>3. RestTypeOK'
    BY <1>17 DEF Finish, TypeOK, RestTypeOK, runVars
  <2>4. QED
    BY <2>1, <2>2, <2>3 DEF TypeOK, RestTypeOK
<1>18. ASSUME NEW r \in Runs, ContainerExits(r) PROVE TypeOK'
  <2>1. run' \in [Runs -> RunState]
    BY <1>18 DEF ContainerExits, TypeOK, runVars
  <2>2. DepTypeOK'
    BY <1>18 DEF ContainerExits, TypeOK, DepTypeOK, depVars
  <2>3. RestTypeOK'
    BY <1>18 DEF ContainerExits, TypeOK, RestTypeOK, runVars
  <2>4. QED
    BY <2>1, <2>2, <2>3 DEF TypeOK, RestTypeOK
<1>19. ASSUME NEW r \in Runs, UploadEnds(r) PROVE TypeOK'
  <2>1. run' \in [Runs -> RunState]
    BY <1>19 DEF UploadEnds, Disturb, TypeOK, runVars
  <2>2. DepTypeOK'
    BY <1>19 DEF UploadEnds, Disturb, TypeOK, DepTypeOK, depVars
  <2>3. RestTypeOK'
    BY <1>19 DEF UploadEnds, Disturb, TypeOK, RestTypeOK, runVars
  <2>4. QED
    BY <2>1, <2>2, <2>3 DEF TypeOK, RestTypeOK
<1>20. ASSUME NEW m \in Managers, TransitionDependencies(m), UNCHANGED runVars PROVE TypeOK'
  <2>1. run' \in [Runs -> RunState]
    BY <1>20 DEF TransitionDependencies, TypeOK, runVars
  <2>2. DepTypeOK'
    <3>1. dep' \in [Deps -> Entry] /\ thread' \in [Managers -> [Deps -> Thread]]
      BY <1>20, TransitionType DEF TransitionDependencies, TypeOK, DepTypeOK
    <3>2. QED
      BY <1>20, <3>1 DEF TransitionDependencies, TypeOK, DepTypeOK
  <2>3. RestTypeOK'
    BY <1>20 DEF TransitionDependencies, TypeOK, RestTypeOK, runVars
  <2>4. QED
    BY <2>1, <2>2, <2>3 DEF TypeOK, RestTypeOK
<1>21. ASSUME NEW m \in Managers, NEW d \in Deps, PruneFailed(m, d), UNCHANGED runVars PROVE TypeOK'
  <2>1. run' \in [Runs -> RunState]
    BY <1>21 DEF PruneFailed, TypeOK, runVars
  <2>2. DepTypeOK'
    BY <1>21, AbsentType DEF PruneFailed, TypeOK, DepTypeOK
  <2>3. RestTypeOK'
    BY <1>21 DEF PruneFailed, TypeOK, RestTypeOK, runVars
  <2>4. QED
    BY <2>1, <2>2, <2>3 DEF TypeOK, RestTypeOK
<1>22. ASSUME NEW m \in Managers, NEW d \in Deps, Evict(m, d), UNCHANGED runVars PROVE TypeOK'
  <2>1. run' \in [Runs -> RunState]
    BY <1>22 DEF Evict, TypeOK, runVars
  <2>2. DepTypeOK'
    BY <1>22, AbsentType DEF Evict, TypeOK, DepTypeOK
  <2>3. RestTypeOK'
    BY <1>22 DEF Evict, TypeOK, RestTypeOK, runVars
  <2>4. QED
    BY <2>1, <2>2, <2>3 DEF TypeOK, RestTypeOK
<1>23. ASSUME NEW m \in Managers, NEW d \in Deps, Stall(m, d), UNCHANGED runVars PROVE TypeOK'
  <2>1. run' \in [Runs -> RunState]
    BY <1>23 DEF Stall, Disturb, SetThread, Alive, TypeOK, runVars
  <2>2. DepTypeOK'
    <3>1. /\ [thread[m][d] EXCEPT !.stale = TRUE] \in Thread
          /\ [dep[d] EXCEPT !.stale = TRUE] \in Entry
      <4>1. thread[m][d] \in Thread /\ dep[d] \in Entry
        BY DEF TypeOK, DepTypeOK
      <4>2. QED
        BY <4>1 DEF Thread, Entry
    <3>2. thread' \in [Managers -> [Deps -> Thread]] /\ dep' \in [Deps -> Entry]
      BY <1>23, <3>1, SetThreadType DEF Stall, TypeOK, DepTypeOK
    <3>3. QED
      BY <1>23, <3>2 DEF Stall, Disturb, TypeOK, DepTypeOK
  <2>3. RestTypeOK'
    BY <1>23 DEF Stall, Disturb, SetThread, Alive, TypeOK, RestTypeOK, runVars
  <2>4. QED
    BY <2>1, <2>2, <2>3 DEF TypeOK, RestTypeOK
<1>24. ASSUME NEW m \in Managers, NEW d \in Deps, Store(m, d), UNCHANGED runVars PROVE TypeOK'
  <2>1. run' \in [Runs -> RunState]
    BY <1>24 DEF Store, SetThread, TypeOK, runVars
  <2>2. DepTypeOK'
    <3>1. [thread[m][d] EXCEPT !.pc = "storing"] \in Thread
      <4>1. thread[m][d] \in Thread
        BY DEF TypeOK, DepTypeOK
      <4>2. QED
        BY <4>1 DEF Thread
    <3>2. thread' \in [Managers -> [Deps -> Thread]]
      BY <1>24, <3>1, SetThreadType DEF Store, TypeOK
    <3>3. QED
      BY <1>24, <3>2 DEF Store, SetThread, TypeOK, DepTypeOK
  <2>3. RestTypeOK'
    BY <1>24 DEF Store, SetThread, TypeOK, RestTypeOK, runVars
  <2>4. QED
    BY <2>1, <2>2, <2>3 DEF TypeOK, RestTypeOK
<1>25. ASSUME NEW m \in Managers, NEW d \in Deps, Read(m, d), UNCHANGED runVars PROVE TypeOK'
  <2>1. run' \in [Runs -> RunState]
    BY <1>25 DEF Read, SetThread, TypeOK, runVars
  <2>2. DepTypeOK'
    <3>1. [thread[m][d] EXCEPT !.stale = FALSE] \in Thread
      <4>1. thread[m][d] \in Thread
        BY DEF TypeOK, DepTypeOK
      <4>2. QED
        BY <4>1 DEF Thread
    <3>2. thread' \in [Managers -> [Deps -> Thread]]
      BY <1>25, <3>1, SetThreadType DEF Read, TypeOK
    <3>3. QED
      BY <1>25, <3>2 DEF Read, SetThread, TypeOK, DepTypeOK
  <2>3. RestTypeOK'
    BY <1>25 DEF Read, SetThread, TypeOK, RestTypeOK, runVars
  <2>4. QED
    BY <2>1, <2>2, <2>3 DEF TypeOK, RestTypeOK
<1>26. ASSUME NEW m \in Managers, NEW d \in Deps, DownloadEnds(m, d), UNCHANGED runVars PROVE TypeOK'
  <2>1. run' \in [Runs -> RunState]
    BY <1>26 DEF DownloadEnds, SetThread, TypeOK, runVars
  <2>2. DepTypeOK'
    <3>1. [thread[m][d] EXCEPT !.pc = "ok", !.stale = FALSE] \in Thread
      <4>1. thread[m][d] \in Thread
        BY DEF TypeOK, DepTypeOK
      <4>2. QED
        BY <4>1 DEF Thread
    <3>2. thread' \in [Managers -> [Deps -> Thread]]
      BY <1>26, <3>1, SetThreadType DEF DownloadEnds, TypeOK
    <3>3. QED
      BY <1>26, <3>2 DEF DownloadEnds, SetThread, TypeOK, DepTypeOK
  <2>3. RestTypeOK'
    BY <1>26 DEF DownloadEnds, SetThread, TypeOK, RestTypeOK, runVars
  <2>4. QED
    BY <2>1, <2>2, <2>3 DEF TypeOK, RestTypeOK
<1>27. ASSUME NEW m \in Managers, NEW d \in Deps, AttemptFails(m, d), UNCHANGED runVars PROVE TypeOK'
  <2>1. run' \in [Runs -> RunState]
    BY <1>27 DEF AttemptFails, SetThread, Disturb, Alive, TypeOK, runVars
  <2>2. DepTypeOK'
    <3>1. /\ [thread[m][d] EXCEPT !.pc = "requested"] \in Thread
          /\ [thread[m][d] EXCEPT !.pc = "failed"] \in Thread
      <4>1. thread[m][d] \in Thread
        BY DEF TypeOK, DepTypeOK
      <4>2. QED
        BY <4>1 DEF Thread
    <3>2. thread' \in [Managers -> [Deps -> Thread]]
      BY <1>27, <3>1, SetThreadType DEF AttemptFails, TypeOK
    <3>3. QED
      BY <1>27, <3>2 DEF AttemptFails, SetThread, Disturb, Alive, TypeOK, DepTypeOK
  <2>3. RestTypeOK'
    BY <1>27 DEF AttemptFails, SetThread, Disturb, Alive, TypeOK, RestTypeOK, runVars
  <2>4. QED
    BY <2>1, <2>2, <2>3 DEF TypeOK, RestTypeOK
<1>28. ASSUME NEW d \in Deps, Expire(d), UNCHANGED runVars PROVE TypeOK'
  <2>1. run' \in [Runs -> RunState]
    BY <1>28 DEF Expire, TypeOK, runVars
  <2>2. DepTypeOK'
    <3>1. dep[d] \in Entry
      BY DEF TypeOK, DepTypeOK
    <3>2. [dep[d] EXCEPT !.stale = TRUE] \in Entry
      BY <3>1 DEF Entry
    <3>3. QED
      BY <1>28, <3>2 DEF Expire, TypeOK, DepTypeOK
  <2>3. RestTypeOK'
    BY <1>28 DEF Expire, TypeOK, RestTypeOK, runVars
  <2>4. QED
    BY <2>1, <2>2, <2>3 DEF TypeOK, RestTypeOK
<1>29. ASSUME NEW m \in Managers, RestageBundles(m) PROVE TypeOK'
  <2>1. run' \in [Runs -> RunState]
    <3>1. \A r \in Runs : [run[r] EXCEPT !.restaged = TRUE] \in RunState
      BY RunStateUpdate DEF TypeOK
    <3>2. QED
      BY <1>29, <3>1 DEF RestageBundles, TypeOK
  <2>2. DepTypeOK'
    BY <1>29 DEF RestageBundles, Disturb, TypeOK, DepTypeOK, depVars
  <2>3. RestTypeOK'
    BY <1>29 DEF RestageBundles, Disturb, TypeOK, RestTypeOK, runVars
  <2>4. QED
    BY <2>1, <2>2, <2>3 DEF TypeOK, RestTypeOK
<1>30. ASSUME NEW m \in Managers, PullEnds(m) PROVE TypeOK'
  <2>1. run' \in [Runs -> RunState]
    BY <1>30 DEF PullEnds, Disturb, TypeOK, runVars
  <2>2. DepTypeOK'
    BY <1>30 DEF PullEnds, Disturb, TypeOK, DepTypeOK, depVars
  <2>3. RestTypeOK'
    BY <1>30 DEF PullEnds, Disturb, TypeOK, RestTypeOK, runVars
  <2>4. QED
    BY <2>1, <2>2, <2>3 DEF TypeOK, RestTypeOK
<1>31. ASSUME NEW m \in Managers, EvictImage(m) PROVE TypeOK'
  <2>1. run' \in [Runs -> RunState]
    BY <1>31 DEF EvictImage, Disturb, TypeOK, runVars
  <2>2. DepTypeOK'
    BY <1>31 DEF EvictImage, Disturb, TypeOK, DepTypeOK, depVars
  <2>3. RestTypeOK'
    BY <1>31 DEF EvictImage, Disturb, TypeOK, RestTypeOK, runVars
  <2>4. QED
    BY <2>1, <2>2, <2>3 DEF TypeOK, RestTypeOK
<1>32. ASSUME NEW m \in Managers, Crash(m) PROVE TypeOK'
  <2>1. run' \in [Runs -> RunState]
    <3>1. \A r \in Runs : run[r] \in RunState /\ InFile(run[r]) \subseteq RunState
      BY InFileType DEF TypeOK
    <3>2. QED
      BY <1>32, <3>1 DEF Crash
  <2>2. DepTypeOK'
    <3>1. \A d \in Deps : [dep[d] EXCEPT !.by = "gone"] \in Entry
      BY DEF TypeOK, DepTypeOK, Entry
    <3>2. dep' \in [Deps -> Entry]
      BY <1>32, <3>1 DEF Crash, ManagerDies, TypeOK, DepTypeOK
    <3>3. thread' \in [Managers -> [Deps -> Thread]]
      BY <1>32, AbsentType DEF Crash, ManagerDies, TypeOK, DepTypeOK
    <3>4. disk' \in [Deps -> {"absent", "complete", "leftover"} \union Managers]
      BY <1>32 DEF Crash, ManagerDies, TypeOK, DepTypeOK
    <3>5. QED
      BY <1>32, <3>2, <3>3, <3>4 DEF Crash, Disturb, TypeOK, DepTypeOK
  <2>3. RestTypeOK'
    BY <1>32 DEF Crash, Disturb, ManagerDies, TypeOK, RestTypeOK, runVars
  <2>4. QED
    BY <2>1, <2>2, <2>3 DEF TypeOK, RestTypeOK
<1>33. ASSUME NEW m \in Managers, Start(m) PROVE TypeOK'
  <2>1. run' \in [Runs -> RunState]
    <3>1. \A r \in Runs :
            [run[r] EXCEPT !.container_id = @ /\ container[r] # "absent"] \in RunState
      BY RunStateUpdate DEF TypeOK
    <3>2. QED
      BY <1>33, <3>1 DEF Start, TypeOK
  <2>2. DepTypeOK'
    <3>1. dep' \in [Deps -> Entry]
      BY <1>33, AbsentType DEF Start, SyncState, TypeOK, DepTypeOK
    <3>2. disk' \in [Deps -> {"absent", "complete", "leftover"} \union Managers]
      BY <1>33 DEF Start, SyncState, TypeOK, DepTypeOK
    <3>3. QED
      BY <1>33, <3>1, <3>2 DEF Start, SyncState, TypeOK, DepTypeOK
  <2>3. RestTypeOK'
    BY <1>33 DEF Start, SyncState, TypeOK, RestTypeOK, runVars
  <2>4. QED
    BY <2>1, <2>2, <2>3 DEF TypeOK, RestTypeOK
<1>34. CASE UNCHANGED vars
  BY <1>34 DEF vars, runVars, depVars, TypeOK, DepTypeOK
<1>35. QED
  BY <1>1, <1>2, <1>3, <1>4, <1>5, <1>6, <1>7, <1>8, <1>9, <1>10, <1>11, <1>12, <1>13,
     <1>14, <1>15, <1>16, <1>17, <1>18, <1>19, <1>20, <1>21, <1>22, <1>23, <1>24, <1>25,
     <1>26, <1>27, <1>28, <1>29, <1>30, <1>31, <1>32, <1>33, <1>34 DEF Next, ManagerStep,
     DownloadThread, Transitions
LEMMA GetEntryKeeps ==
    ASSUME NEW e \in Entry, NEW r \in Runs,
           GetEntry(e, r).stage = "downloading", GetEntry(e, r).by # None
    PROVE  e.stage = "downloading" /\ e.by = GetEntry(e, r).by
  BY DEF GetEntry, Entry, Absent

(* get() adds the run alone, and makes no entry absent. *)
LEMMA GetEntryPins ==
    ASSUME NEW e \in Entry, NEW r \in Runs
    PROVE  /\ GetEntry(e, r).dependents \subseteq e.dependents \union {r}
           /\ GetEntry(e, r).stage = "absent" => GetEntry(e, r) = e
  BY DEF GetEntry, Entry, Absent

(* release() leaves the stage and the owner of a download. *)
LEMMA ReleaseEntryKeeps ==
    ASSUME NEW e \in Entry, NEW r \in Runs
    PROVE  ReleaseEntry(e, r).stage = e.stage /\ ReleaseEntry(e, r).by = e.by
  BY DEF ReleaseEntry, Entry

(* A pass over the dependencies removes no entry. *)
LEMMA TransitionKeeps ==
    ASSUME DepTypeOK, NEW m \in Managers, NEW d \in Deps, ~ThreadMissing(m, d),
           Transition(m, d)[1].stage = "absent"
    PROVE  dep[d].stage = "absent"
<1> DEFINE e == dep[d]
           t == ThreadFor(e, thread[m][d])
<1>1. e \in Entry /\ t \in Thread
  BY ThreadForType DEF DepTypeOK
<1>2. QED
  BY <1>1 DEF Transition, ThreadFor, ThreadMissing, Alive, Entry, Thread

(* A step gives a download to a manager only with a thread for it. *)
LEMMA ThreadStep == TypeOK /\ ThreadInv /\ [Next]_vars => ThreadInv'
<1> SUFFICES ASSUME TypeOK, ThreadInv, [Next]_vars PROVE ThreadInv'
  OBVIOUS
<1> USE NoneAssumption
<1>1. CASE UNCHANGED <<dep, thread>>
  BY <1>1 DEF ThreadInv, ThreadMissing
<1>2. ASSUME NEW r \in Runs, NEW keys, dep' = Get(r, keys), thread' = thread PROVE ThreadInv'
  BY <1>2, GetEntryKeeps DEF ThreadInv, ThreadMissing, TypeOK, DepTypeOK, Get
<1>3. ASSUME NEW r \in Runs, NEW keys, dep' = Release(r, keys), thread' = thread PROVE ThreadInv'
  BY <1>3, ReleaseEntryKeeps DEF ThreadInv, ThreadMissing, TypeOK, DepTypeOK, Release
<1>4. ASSUME NEW r \in Runs, DependencyFailed(r) PROVE ThreadInv'
  BY <1>2, <1>4 DEF DependencyFailed
<1>5. ASSUME NEW r \in Runs, ImageFailed(r) PROVE ThreadInv'
  BY <1>2, <1>5 DEF ImageFailed, GetAll
<1>6. ASSUME NEW r \in Runs, WaitForDownloads(r) PROVE ThreadInv'
  BY <1>2, <1>6 DEF WaitForDownloads, GetAll
<1>7. ASSUME NEW r \in Runs, MountFails(r) PROVE ThreadInv'
  BY <1>2, <1>7 DEF MountFails, GetAll
<1>8. ASSUME NEW r \in Runs, StartContainer(r) PROVE ThreadInv'
  BY <1>2, <1>8 DEF StartContainer, GetAll, Mount
<1>9. ASSUME NEW r \in Runs, StartFails(r) PROVE ThreadInv'
  BY <1>2, <1>9 DEF StartFails, GetAll, Mount
<1>10. ASSUME NEW r \in Runs, CleanUp(r) PROVE ThreadInv'
  BY <1>3, <1>10 DEF CleanUp
<1>11. ASSUME NEW m \in Managers, TransitionDependencies(m) PROVE ThreadInv'
  <2> SUFFICES ASSUME NEW n \in Managers, NEW d \in Deps PROVE ~ThreadMissing(n, d)'
    BY DEF ThreadInv
  <2> DEFINE e == Transition(m, d)[1]
             t == Transition(m, d)[2]
  <2>1. dep'[d] = e /\ thread'[m][d] = t /\ (n # m => thread'[n] = thread[n])
    BY <1>11 DEF TransitionDependencies, TypeOK, DepTypeOK
  <2>2. /\ e.stage = "downloading" /\ e.by = m => t.pc # "none"
        /\ e.by \in {m, None} \/ e = dep[d]
    BY <1>11, TransitionType DEF TransitionDependencies, TypeOK
  <2> HIDE DEF e, t
  <2>3. QED
    BY <2>1, <2>2 DEF ThreadInv, ThreadMissing
<1>12. ASSUME NEW m \in Managers, NEW d \in Deps, PruneFailed(m, d) PROVE ThreadInv'
  BY <1>12 DEF PruneFailed, ThreadInv, ThreadMissing, TypeOK, DepTypeOK, Absent, NoThread
<1>13. ASSUME NEW m \in Managers, NEW d \in Deps, Evict(m, d) PROVE ThreadInv'
  BY <1>13 DEF Evict, ThreadInv, ThreadMissing, TypeOK, DepTypeOK, Absent, NoThread
<1>14. ASSUME NEW m \in Managers, NEW d \in Deps, Stall(m, d) PROVE ThreadInv'
  BY <1>14
     DEF Stall, Disturb, SetThread, Alive, ThreadInv, ThreadMissing, TypeOK, DepTypeOK,
         Absent, NoThread
<1>15. ASSUME NEW m \in Managers, NEW d \in Deps, Store(m, d) PROVE ThreadInv'
  BY <1>15
     DEF Store, SetThread, ThreadInv, ThreadMissing, TypeOK, DepTypeOK, Absent, NoThread
<1>16. ASSUME NEW m \in Managers, NEW d \in Deps, Read(m, d) PROVE ThreadInv'
  BY <1>16
     DEF Read, SetThread, ThreadInv, ThreadMissing, TypeOK, DepTypeOK, Absent, NoThread
<1>17. ASSUME NEW m \in Managers, NEW d \in Deps, DownloadEnds(m, d) PROVE ThreadInv'
  BY <1>17
     DEF DownloadEnds, SetThread, ThreadInv, ThreadMissing, TypeOK, DepTypeOK, Absent,
         NoThread
<1>18. ASSUME NEW m \in Managers, NEW d \in Deps, AttemptFails(m, d) PROVE ThreadInv'
  <2>1. \/ SetThread(m, d, [thread[m][d] EXCEPT !.pc = "requested"])
        \/ SetThread(m, d, [thread[m][d] EXCEPT !.pc = "failed"])
    BY <1>18 DEF AttemptFails
  <2>2. ASSUME NEW pc \in {"requested", "failed"},
                SetThread(m, d, [thread[m][d] EXCEPT !.pc = pc])
         PROVE  \A n \in Managers, x \in Deps :
                  thread'[n][x] = thread[n][x] \/ thread'[n][x].pc # "none"
    <3> DEFINE t == [thread[m][d] EXCEPT !.pc = pc]
    <3>1. thread[m][d] \in Thread
      BY DEF TypeOK, DepTypeOK
    <3>2. t.pc # "none"
      BY <3>1 DEF Thread
    <3> HIDE DEF t
    <3>3. QED
      BY <2>2, <3>2 DEF SetThread, TypeOK, DepTypeOK, t
  <2>3. QED
    BY <1>18, <2>1, <2>2 DEF AttemptFails, ThreadInv, ThreadMissing
<1>19. ASSUME NEW d \in Deps, Expire(d) PROVE ThreadInv'
  BY <1>19 DEF Expire, ThreadInv, ThreadMissing, TypeOK, DepTypeOK, Absent, NoThread
<1>20. ASSUME NEW m \in Managers, Crash(m) PROVE ThreadInv'
  BY <1>20
     DEF Crash, Disturb, ManagerDies, ThreadInv, ThreadMissing, TypeOK, DepTypeOK, Absent,
         NoThread
<1>21. ASSUME NEW m \in Managers, Start(m) PROVE ThreadInv'
  BY <1>21
     DEF Start, SyncState, ThreadInv, ThreadMissing, TypeOK, DepTypeOK, Absent, NoThread
<1>22. \/ UNCHANGED <<dep, thread>>
       \/ \E r \in Runs : DependencyFailed(r)
       \/ \E r \in Runs : ImageFailed(r)
       \/ \E r \in Runs : WaitForDownloads(r)
       \/ \E r \in Runs : MountFails(r)
       \/ \E r \in Runs : StartContainer(r)
       \/ \E r \in Runs : StartFails(r)
       \/ \E r \in Runs : CleanUp(r)
       \/ \E m \in Managers : TransitionDependencies(m)
       \/ \E m \in Managers, d \in Deps : PruneFailed(m, d)
       \/ \E m \in Managers, d \in Deps : Evict(m, d)
       \/ \E m \in Managers, d \in Deps : Stall(m, d)
       \/ \E m \in Managers, d \in Deps : Store(m, d)
       \/ \E m \in Managers, d \in Deps : Read(m, d)
       \/ \E m \in Managers, d \in Deps : DownloadEnds(m, d)
       \/ \E m \in Managers, d \in Deps : AttemptFails(m, d)
       \/ \E d \in Deps : Expire(d)
       \/ \E m \in Managers : Crash(m)
       \/ \E m \in Managers : Start(m)
  BY DEF Next, ManagerStep, DownloadThread, Transitions, vars, depVars,
         InitializeRun, Kill, MarkFinalized, AbandonPreparing, RunKilled, RunFinished,
         Restaged, StartUpload, FinishUpload, Finish, ContainerExits, UploadEnds,
         RestageBundles, PullEnds, EvictImage
<1>23. QED
  BY <1>1, <1>4, <1>5, <1>6, <1>7, <1>8, <1>9, <1>10, <1>11, <1>12, <1>13, <1>14, <1>15,
     <1>16, <1>17, <1>18, <1>19, <1>20, <1>21, <1>22

(* A step pins a dependency only for a run that needs it. *)
LEMMA PinStep == TypeOK /\ PinInv /\ [Next]_vars => PinInv'
<1> SUFFICES ASSUME TypeOK, PinInv, [Next]_vars PROVE PinInv'
  OBVIOUS
<1>1. CASE dep' = dep
  BY <1>1 DEF PinInv
<1>2. ASSUME NEW r \in Runs, NEW keys \in SUBSET Needs[r], dep' = Get(r, keys) PROVE PinInv'
  BY <1>2, GetEntryPins DEF PinInv, TypeOK, DepTypeOK, Get
<1>3. ASSUME NEW r \in Runs, NEW keys, dep' = Release(r, keys) PROVE PinInv'
  BY <1>3, ReleaseEntryType, ReleaseEntryKeeps DEF PinInv, TypeOK, DepTypeOK, Release
<1>4. ASSUME NEW r \in Runs, DependencyFailed(r) PROVE PinInv'
  BY <1>4, <1>2 DEF DependencyFailed
<1>5. ASSUME NEW r \in Runs, ImageFailed(r) PROVE PinInv'
  BY <1>5, <1>2 DEF ImageFailed, GetAll
<1>6. ASSUME NEW r \in Runs, WaitForDownloads(r) PROVE PinInv'
  BY <1>6, <1>2 DEF WaitForDownloads, GetAll
<1>7. ASSUME NEW r \in Runs, MountFails(r) PROVE PinInv'
  BY <1>7, <1>2 DEF MountFails, GetAll
<1>8. ASSUME NEW r \in Runs, StartContainer(r) PROVE PinInv'
  BY <1>8, <1>2 DEF StartContainer, GetAll, Mount
<1>9. ASSUME NEW r \in Runs, StartFails(r) PROVE PinInv'
  BY <1>9, <1>2 DEF StartFails, GetAll, Mount
<1>10. ASSUME NEW r \in Runs, CleanUp(r) PROVE PinInv'
  BY <1>10, <1>3 DEF CleanUp
<1>11. ASSUME NEW m \in Managers, TransitionDependencies(m) PROVE PinInv'
  <2>1. ASSUME NEW d \in Deps
        PROVE  /\ dep'[d].stage = "absent" => dep'[d].dependents = {}
               /\ \A r \in dep'[d].dependents : d \in Needs[r]
    <3>1. DepTypeOK /\ ~ThreadMissing(m, d) /\ dep'[d] = Transition(m, d)[1]
      BY <1>11 DEF TransitionDependencies, TypeOK
    <3>2. Transition(m, d)[1].dependents = dep[d].dependents
      BY <3>1, TransitionType
    <3>3. Transition(m, d)[1].stage = "absent" => dep[d].stage = "absent"
      BY <3>1, TransitionKeeps
    <3>4. QED
      BY <3>1, <3>2, <3>3 DEF PinInv
  <2>2. QED
    BY <2>1 DEF PinInv
<1>12. ASSUME NEW m \in Managers, NEW d \in Deps, PruneFailed(m, d) PROVE PinInv'
  BY <1>12 DEF PruneFailed, PinInv, TypeOK, DepTypeOK, Absent
<1>13. ASSUME NEW m \in Managers, NEW d \in Deps, Evict(m, d) PROVE PinInv'
  BY <1>13 DEF Evict, PinInv, TypeOK, DepTypeOK, Absent
<1>14. ASSUME NEW m \in Managers, NEW d \in Deps, Stall(m, d) PROVE PinInv'
  BY <1>14 DEF Stall, Disturb, SetThread, Alive, PinInv, TypeOK, DepTypeOK, Absent
<1>15. ASSUME NEW d \in Deps, Expire(d) PROVE PinInv'
  BY <1>15 DEF Expire, PinInv, TypeOK, DepTypeOK, Absent
<1>16. ASSUME NEW m \in Managers, Crash(m) PROVE PinInv'
  BY <1>16 DEF Crash, Disturb, ManagerDies, PinInv, TypeOK, DepTypeOK, Absent
<1>17. ASSUME NEW m \in Managers, Start(m) PROVE PinInv'
  BY <1>17 DEF Start, SyncState, PinInv, TypeOK, DepTypeOK, Absent
<1>18. \/ dep' = dep
       \/ \E r \in Runs : DependencyFailed(r)
       \/ \E r \in Runs : ImageFailed(r)
       \/ \E r \in Runs : WaitForDownloads(r)
       \/ \E r \in Runs : MountFails(r)
       \/ \E r \in Runs : StartContainer(r)
       \/ \E r \in Runs : StartFails(r)
       \/ \E r \in Runs : CleanUp(r)
       \/ \E m \in Managers : TransitionDependencies(m)
       \/ \E m \in Managers, d \in Deps : PruneFailed(m, d)
       \/ \E m \in Managers, d \in Deps : Evict(m, d)
       \/ \E m \in Managers, d \in Deps : Stall(m, d)
       \/ \E d \in Deps : Expire(d)
       \/ \E m \in Managers : Crash(m)
       \/ \E m \in Managers : Start(m)
  <2>1. ASSUME NEW r \in Runs,
               InitializeRun(r) \/ Kill(r) \/ MarkFinalized(r) \/ ContainerExits(r) \/ UploadEnds(r)
        PROVE  dep' = dep
    BY <2>1, SMTT(30) DEF InitializeRun, Kill, MarkFinalized, ContainerExits, UploadEnds, depVars
  <2>2. ASSUME NEW r \in Runs,
               \/ AbandonPreparing(r) \/ RunKilled(r) \/ RunFinished(r) \/ Restaged(r)
               \/ StartUpload(r) \/ FinishUpload(r) \/ Finish(r)
        PROVE  dep' = dep
    BY <2>2
       DEF AbandonPreparing, RunKilled, RunFinished, Restaged, StartUpload, FinishUpload,
           Finish, depVars
  <2>3. ASSUME NEW m \in Managers, NEW d \in Deps, DownloadThread(m, d) PROVE dep' = dep
    BY <2>3 DEF DownloadThread, Store, Read, DownloadEnds, AttemptFails
  <2>4. ASSUME NEW m \in Managers, RestageBundles(m) \/ PullEnds(m) \/ EvictImage(m)
        PROVE  dep' = dep
    BY <2>4 DEF RestageBundles, PullEnds, EvictImage, depVars
  <2>5. QED
    BY <2>1, <2>2, <2>3, <2>4 DEF Next, Transitions, ManagerStep, vars, depVars
<1>19. QED
  BY <1>1, <1>4, <1>5, <1>6, <1>7, <1>8, <1>9, <1>10, <1>11, <1>12, <1>13, <1>14, <1>15,
     <1>16, <1>17, <1>18

(* What has happened is not forgotten. *)
LEMMA HappenedGrows == [Next]_vars => happened \subseteq happened'
<1> SUFFICES ASSUME [Next]_vars PROVE happened \subseteq happened'
  OBVIOUS
<1>1. ASSUME NEW kind, Disturb(kind) PROVE happened \subseteq happened'
  BY <1>1 DEF Disturb
<1>2. ASSUME NEW r \in Runs,
             InitializeRun(r) \/ Kill(r) \/ MarkFinalized(r) \/ ContainerExits(r) \/ UploadEnds(r)
      PROVE  happened \subseteq happened'
  BY <1>1, <1>2 DEF InitializeRun, Kill, MarkFinalized, ContainerExits, UploadEnds
<1>3. ASSUME NEW r \in Runs, Transitions(r) PROVE happened \subseteq happened'
  <2>1. CASE AbandonPreparing(r) \/ DependencyFailed(r) \/ ImageFailed(r)
    BY <2>1 DEF AbandonPreparing, DependencyFailed, ImageFailed
  <2>2. CASE WaitForDownloads(r) \/ MountFails(r) \/ StartContainer(r)
    BY <2>2 DEF WaitForDownloads, MountFails, StartContainer
  <2>3. CASE StartFails(r)
    BY <1>1, <2>3 DEF StartFails
  <2>4. CASE RunKilled(r)
    BY <1>1, <2>4 DEF RunKilled
  <2>5. CASE RunFinished(r) \/ CleanUp(r) \/ Restaged(r)
    BY <2>5 DEF RunFinished, CleanUp, Restaged
  <2>6. CASE StartUpload(r) \/ FinishUpload(r) \/ Finish(r)
    BY <2>6 DEF StartUpload, FinishUpload, Finish
  <2>7. QED
    BY <1>3, <2>1, <2>2, <2>3, <2>4, <2>5, <2>6 DEF Transitions
<1>4. ASSUME NEW m \in Managers, ManagerStep(m) PROVE happened \subseteq happened'
  <2>1. CASE TransitionDependencies(m)
    BY <2>1 DEF TransitionDependencies
  <2>2. ASSUME NEW d \in Deps, PruneFailed(m, d) \/ Evict(m, d) \/ Stall(m, d)
        PROVE  happened \subseteq happened'
    BY <1>1, <2>2 DEF PruneFailed, Evict, Stall
  <2>3. ASSUME NEW d \in Deps, DownloadThread(m, d) PROVE happened \subseteq happened'
    BY <1>1, <2>3 DEF DownloadThread, Store, Read, DownloadEnds, AttemptFails
  <2>4. QED
    BY <1>4, <2>1, <2>2, <2>3 DEF ManagerStep
<1>5. ASSUME NEW m \in Managers,
             RestageBundles(m) \/ PullEnds(m) \/ EvictImage(m) \/ Crash(m) \/ Start(m)
      PROVE  happened \subseteq happened'
  BY <1>1, <1>5 DEF RestageBundles, PullEnds, EvictImage, Crash, Start
<1>6. ASSUME NEW d \in Deps, Expire(d) PROVE happened \subseteq happened'
  BY <1>6 DEF Expire
<1>7. CASE UNCHANGED vars
  BY <1>7 DEF vars
<1>8. QED
  BY <1>2, <1>3, <1>4, <1>5, <1>6, <1>7 DEF Next

(* While nothing is forgotten, a container keeps the run that knows it. *)
LEMMA ContainerStep ==
    ASSUME TypeOK, ContainerKnown, Remembered', [Next]_vars
    PROVE  ContainerKnown'
<1>1. CASE UNCHANGED <<run, container>>
  BY <1>1 DEF ContainerKnown
<1>2. Remembered
  BY HappenedGrows DEF Remembered
<1>3. ASSUME NEW r \in Runs, InitializeRun(r) PROVE ContainerKnown'
  BY <1>2, <1>3
     DEF InitializeRun, Disturb, Listens, Remembered, Set, ContainerKnown, TypeOK,
         RunState, NewRun, NoRun
<1>4. ASSUME NEW r \in Runs, Kill(r) PROVE ContainerKnown'
  BY <1>2, <1>4
     DEF Kill, Disturb, Remembered, Set, ContainerKnown, TypeOK, RunState, NewRun, NoRun
<1>5. ASSUME NEW r \in Runs, MarkFinalized(r) PROVE ContainerKnown'
  BY <1>2, <1>5
     DEF MarkFinalized, Remembered, Set, ContainerKnown, TypeOK, RunState, NewRun, NoRun
<1>6. ASSUME NEW r \in Runs, AbandonPreparing(r) PROVE ContainerKnown'
  BY <1>2, <1>6
     DEF AbandonPreparing, Preparing, Remembered, Set, ContainerKnown, TypeOK, RunState,
         NewRun, NoRun
<1>7. ASSUME NEW r \in Runs, DependencyFailed(r) PROVE ContainerKnown'
  BY <1>2, <1>7
     DEF DependencyFailed, Prepare, Preparing, Fail, Remembered, Set, ContainerKnown,
         TypeOK, RunState, NewRun, NoRun
<1>8. ASSUME NEW r \in Runs, ImageFailed(r) PROVE ContainerKnown'
  BY <1>2, <1>8
     DEF ImageFailed, GetAll, GetImage, Prepare, Preparing, Fail, Remembered, Set,
         ContainerKnown, TypeOK, RunState, NewRun, NoRun
<1>9. ASSUME NEW r \in Runs, MountFails(r) PROVE ContainerKnown'
  BY <1>2, <1>9
     DEF MountFails, GetAll, GetImage, Prepare, Preparing, Fail, Remembered, Set,
         ContainerKnown, TypeOK, RunState, NewRun, NoRun
<1>10. ASSUME NEW r \in Runs, StartContainer(r) PROVE ContainerKnown'
  BY <1>2, <1>10
     DEF StartContainer, GetAll, GetImage, Prepare, Preparing, Mount, Remembered, Set,
         ContainerKnown, TypeOK, RunState, NewRun, NoRun
<1>11. ASSUME NEW r \in Runs, StartFails(r) PROVE ContainerKnown'
  BY <1>2, <1>11
     DEF StartFails, GetAll, GetImage, Prepare, Preparing, Mount, Fail, Disturb,
         Remembered, Set, ContainerKnown, TypeOK, RunState, NewRun, NoRun
<1>12. ASSUME NEW r \in Runs, RunKilled(r) PROVE ContainerKnown'
  BY <1>2, <1>12
     DEF RunKilled, CheckRunning, Disturb, Outcomes, Remembered, Set, ContainerKnown,
         TypeOK, RunState, NewRun, NoRun
<1>13. ASSUME NEW r \in Runs, RunFinished(r) PROVE ContainerKnown'
  BY <1>2, <1>13
     DEF RunFinished, CheckRunning, Outcomes, Remembered, Set, ContainerKnown, TypeOK,
         RunState, NewRun, NoRun
<1>14. ASSUME NEW r \in Runs, CleanUp(r) PROVE ContainerKnown'
  BY <1>2, <1>14
     DEF CleanUp, AfterCleanup, Remembered, Set, ContainerKnown, TypeOK, RunState, NewRun,
         NoRun
<1>15. ASSUME NEW r \in Runs, Restaged(r) PROVE ContainerKnown'
  BY <1>2, <1>15
     DEF Restaged, Remembered, Set, ContainerKnown, TypeOK, RunState, NewRun, NoRun
<1>16. ASSUME NEW r \in Runs, FinishUpload(r) PROVE ContainerKnown'
  BY <1>2, <1>16
     DEF FinishUpload, Remembered, Set, ContainerKnown, TypeOK, RunState, NewRun, NoRun
<1>17. ASSUME NEW r \in Runs, Finish(r) PROVE ContainerKnown'
  BY <1>2, <1>17
     DEF Finish, Remembered, Set, ContainerKnown, TypeOK, RunState, NewRun, NoRun
<1>18. ASSUME NEW r \in Runs, ContainerExits(r) PROVE ContainerKnown'
  BY <1>2, <1>18
     DEF ContainerExits, Remembered, Set, ContainerKnown, TypeOK, RunState, NewRun, NoRun
<1>19. ASSUME NEW m \in Managers, RestageBundles(m) PROVE ContainerKnown'
  BY <1>2, <1>19
     DEF RestageBundles, Disturb, Remembered, Set, ContainerKnown, TypeOK, RunState,
         NewRun, NoRun
<1>20. ASSUME NEW m \in Managers, Crash(m) PROVE FALSE
  BY <1>20 DEF Crash, Disturb, Remembered
<1>21. ASSUME NEW m \in Managers, Start(m) PROVE ContainerKnown'
  BY <1>2, <1>21
     DEF Start, SyncState, Remembered, Set, ContainerKnown, TypeOK, RunState, NewRun, NoRun
<1>22. \/ UNCHANGED <<run, container>>
       \/ \E r \in Runs : InitializeRun(r)
       \/ \E r \in Runs : Kill(r)
       \/ \E r \in Runs : MarkFinalized(r)
       \/ \E r \in Runs : AbandonPreparing(r)
       \/ \E r \in Runs : DependencyFailed(r)
       \/ \E r \in Runs : ImageFailed(r)
       \/ \E r \in Runs : MountFails(r)
       \/ \E r \in Runs : StartContainer(r)
       \/ \E r \in Runs : StartFails(r)
       \/ \E r \in Runs : RunKilled(r)
       \/ \E r \in Runs : RunFinished(r)
       \/ \E r \in Runs : CleanUp(r)
       \/ \E r \in Runs : Restaged(r)
       \/ \E r \in Runs : FinishUpload(r)
       \/ \E r \in Runs : Finish(r)
       \/ \E r \in Runs : ContainerExits(r)
       \/ \E m \in Managers : RestageBundles(m)
       \/ \E m \in Managers : Crash(m)
       \/ \E m \in Managers : Start(m)
  BY DEF Next, ManagerStep, Transitions, vars, runVars,
         WaitForDownloads, StartUpload, UploadEnds, PullEnds, EvictImage
<1>23. QED
  BY <1>1, <1>3, <1>4, <1>5, <1>6, <1>7, <1>8, <1>9, <1>10, <1>11, <1>12, <1>13, <1>14,
     <1>15, <1>16, <1>17, <1>18, <1>19, <1>20, <1>21, <1>22

(* Only the start of a container adds to the runs in RUNNING. *)
LEMMA CpuStep ==
    ASSUME TypeOK, CpuInv, Remembered', [Next]_vars
    PROVE  CpuInv'
<1> USE RunsAssumption, CpusAssumption
<1>1. ASSUME \A m \in Managers : InRunning(m)' \subseteq InRunning(m) PROVE CpuInv'
  <2>1. ASSUME NEW m \in Managers PROVE Cardinality(InRunning(m)') <= Cpus
    <3>1. IsFiniteSet(InRunning(m)) /\ IsFiniteSet(InRunning(m)')
      BY FS_Subset DEF InRunning
    <3>2. Cardinality(InRunning(m)') <= Cardinality(InRunning(m))
      BY <1>1, <3>1, FS_Subset
    <3>3. QED
      BY <3>1, <3>2, FS_CardinalityType DEF CpuInv
  <2>2. QED
    BY <2>1 DEF CpuInv
<1>2. CASE UNCHANGED run
  BY <1>1, <1>2 DEF InRunning
<1>3. ASSUME NEW r \in Runs, InitializeRun(r) PROVE CpuInv'
  BY <1>1, <1>3
     DEF InitializeRun, Disturb, Listens, Set, InRunning, TypeOK, RunState, NewRun, NoRun
<1>4. ASSUME NEW r \in Runs, Kill(r) PROVE CpuInv'
  BY <1>1, <1>4 DEF Kill, Disturb, Set, InRunning, TypeOK, RunState, NewRun, NoRun
<1>5. ASSUME NEW r \in Runs, MarkFinalized(r) PROVE CpuInv'
  BY <1>1, <1>5 DEF MarkFinalized, Set, InRunning, TypeOK, RunState, NewRun, NoRun
<1>6. ASSUME NEW r \in Runs, AbandonPreparing(r) PROVE CpuInv'
  BY <1>1, <1>6
     DEF AbandonPreparing, Preparing, Set, InRunning, TypeOK, RunState, NewRun, NoRun
<1>7. ASSUME NEW r \in Runs, DependencyFailed(r) PROVE CpuInv'
  BY <1>1, <1>7
     DEF DependencyFailed, Prepare, Preparing, Fail, Set, InRunning, TypeOK, RunState,
         NewRun, NoRun
<1>8. ASSUME NEW r \in Runs, ImageFailed(r) PROVE CpuInv'
  BY <1>1, <1>8
     DEF ImageFailed, GetAll, GetImage, Prepare, Preparing, Fail, Set, InRunning, TypeOK,
         RunState, NewRun, NoRun
<1>9. ASSUME NEW r \in Runs, MountFails(r) PROVE CpuInv'
  BY <1>1, <1>9
     DEF MountFails, GetAll, GetImage, Prepare, Preparing, Fail, Set, InRunning, TypeOK,
         RunState, NewRun, NoRun
<1>10. ASSUME NEW r \in Runs, StartContainer(r) PROVE CpuInv'
  <2>1. ASSUME NEW m \in Managers PROVE Cardinality(InRunning(m)') <= Cpus
    <3>1. IsFiniteSet(InRunning(m)) /\ Cardinality(InRunning(m)) \in Nat
      BY FS_Subset, FS_CardinalityType DEF InRunning
    <3>2. CASE m = Home[r]
      <4>1. Cardinality(InRunning(m)) < Cpus
        BY <1>10, <3>2 DEF StartContainer, Mount, GetAll, Prepare, CpuFree, InRunning
      <4>2. InRunning(m)' \subseteq InRunning(m) \union {r}
        BY <1>10 DEF StartContainer, Set, InRunning, TypeOK
      <4>3. /\ IsFiniteSet(InRunning(m) \union {r})
            /\ Cardinality(InRunning(m) \union {r}) <= Cpus
        <5> DEFINE S == InRunning(m)
        <5>1. IsFiniteSet(S) /\ Cardinality(S) \in Nat /\ Cardinality(S) < Cpus
          BY <3>1, <4>1
        <5> HIDE DEF S
        <5>2. /\ IsFiniteSet(S \union {r})
              /\ Cardinality(S \union {r}) \in {Cardinality(S), Cardinality(S) + 1}
          BY <5>1, FS_AddElement
        <5>3. Cardinality(S \union {r}) <= Cpus
          BY <5>1, <5>2
        <5>4. QED
          BY <5>2, <5>3 DEF S
      <4>4. Cardinality(InRunning(m)') <= Cardinality(InRunning(m) \union {r})
        BY <4>2, <4>3, FS_Subset
      <4>5. IsFiniteSet(InRunning(m)')
        BY <4>2, <4>3, FS_Subset
      <4>6. QED
        BY <4>3, <4>4, <4>5, FS_CardinalityType
    <3>3. CASE m # Home[r]
      <4>1. InRunning(m)' = InRunning(m)
        BY <1>10, <3>3 DEF StartContainer, Set, InRunning, TypeOK
      <4>2. QED
        BY <4>1 DEF CpuInv
    <3>4. QED
      BY <3>2, <3>3
  <2>2. QED
    BY <2>1 DEF CpuInv
<1>11. ASSUME NEW r \in Runs, StartFails(r) PROVE CpuInv'
  <2>1. UNCHANGED run \/ Set(r, [run[r] EXCEPT !.stage = "cleaning_up", !.failure = "start"])
    BY <1>11 DEF StartFails, Fail
  <2>2. ASSUME NEW q \in Runs, run'[q].stage = "running" PROVE run[q].stage = "running"
    BY <2>1, <2>2 DEF Set, TypeOK, RunState
  <2>3. QED
    BY <1>1, <2>2 DEF InRunning
<1>12. ASSUME NEW r \in Runs, RunKilled(r) PROVE CpuInv'
  BY <1>1, <1>12
     DEF RunKilled, CheckRunning, Disturb, Outcomes, Set, InRunning, TypeOK, RunState,
         NewRun, NoRun
<1>13. ASSUME NEW r \in Runs, RunFinished(r) PROVE CpuInv'
  BY <1>1, <1>13
     DEF RunFinished, CheckRunning, Outcomes, Set, InRunning, TypeOK, RunState, NewRun,
         NoRun
<1>14. ASSUME NEW r \in Runs, CleanUp(r) PROVE CpuInv'
  BY <1>1, <1>14 DEF CleanUp, AfterCleanup, Set, InRunning, TypeOK, RunState, NewRun, NoRun
<1>15. ASSUME NEW r \in Runs, Restaged(r) PROVE CpuInv'
  BY <1>1, <1>15 DEF Restaged, Set, InRunning, TypeOK, RunState, NewRun, NoRun
<1>16. ASSUME NEW r \in Runs, FinishUpload(r) PROVE CpuInv'
  BY <1>1, <1>16 DEF FinishUpload, Set, InRunning, TypeOK, RunState, NewRun, NoRun
<1>17. ASSUME NEW r \in Runs, Finish(r) PROVE CpuInv'
  BY <1>1, <1>17 DEF Finish, Set, InRunning, TypeOK, RunState, NewRun, NoRun
<1>18. ASSUME NEW m \in Managers, RestageBundles(m) PROVE CpuInv'
  BY <1>1, <1>18
     DEF RestageBundles, Disturb, Set, InRunning, TypeOK, RunState, NewRun, NoRun
<1>19. ASSUME NEW m \in Managers, Crash(m) PROVE FALSE
  BY <1>19 DEF Crash, Disturb, Remembered
<1>20. ASSUME NEW m \in Managers, Start(m) PROVE CpuInv'
  BY <1>1, <1>20 DEF Start, SyncState, Set, InRunning, TypeOK, RunState, NewRun, NoRun
<1>21. \/ UNCHANGED run
       \/ \E r \in Runs : InitializeRun(r)
       \/ \E r \in Runs : Kill(r)
       \/ \E r \in Runs : MarkFinalized(r)
       \/ \E r \in Runs : AbandonPreparing(r)
       \/ \E r \in Runs : DependencyFailed(r)
       \/ \E r \in Runs : ImageFailed(r)
       \/ \E r \in Runs : MountFails(r)
       \/ \E r \in Runs : StartContainer(r)
       \/ \E r \in Runs : StartFails(r)
       \/ \E r \in Runs : RunKilled(r)
       \/ \E r \in Runs : RunFinished(r)
       \/ \E r \in Runs : CleanUp(r)
       \/ \E r \in Runs : Restaged(r)
       \/ \E r \in Runs : FinishUpload(r)
       \/ \E r \in Runs : Finish(r)
       \/ \E m \in Managers : RestageBundles(m)
       \/ \E m \in Managers : Crash(m)
       \/ \E m \in Managers : Start(m)
  BY DEF Next, ManagerStep, Transitions, vars, runVars,
         WaitForDownloads, StartUpload, ContainerExits, UploadEnds, PullEnds, EvictImage
<1>22. QED
  BY <1>2, <1>3, <1>4, <1>5, <1>6, <1>7, <1>8, <1>9, <1>10, <1>11, <1>12, <1>13, <1>14,
     <1>15, <1>16, <1>17, <1>18, <1>19, <1>20, <1>21

(* While nothing is forgotten, a run that is past its cleanup gets nothing *)
(* again.                                                                  *)
LEMMA ReleasedStep ==
    ASSUME TypeOK, PinInv, ReleasedInv, Remembered', [Next]_vars
    PROVE  ReleasedInv'
<1>1. CASE UNCHANGED <<run, dep, links>>
  BY <1>1 DEF ReleasedInv
<1>2. ASSUME NEW r \in Runs, NEW keys, dep' = Get(r, keys), run'[r].stage \notin Past,
             links' \subseteq links \union {r},
             \A q \in Runs \ {r} : run'[q] = run[q]
      PROVE  ReleasedInv'
  BY <1>2, GetEntryPins DEF ReleasedInv, TypeOK, DepTypeOK, Get
<1>3. ASSUME NEW r \in Runs, InitializeRun(r) PROVE ReleasedInv'
  BY <1>3
     DEF InitializeRun, Disturb, Listens, depVars, Set, NewRun, NoRun, Past, ReleasedInv,
         TypeOK
<1>4. ASSUME NEW r \in Runs, Kill(r) PROVE ReleasedInv'
  BY <1>4
     DEF Kill, Disturb, depVars, runVars, Set, Absent, Past, ReleasedInv, TypeOK,
         DepTypeOK, RunState
<1>5. ASSUME NEW r \in Runs, MarkFinalized(r) PROVE ReleasedInv'
  BY <1>5
     DEF MarkFinalized, depVars, runVars, Set, Absent, Past, ReleasedInv, TypeOK,
         DepTypeOK, RunState
<1>6. ASSUME NEW r \in Runs, AbandonPreparing(r) PROVE ReleasedInv'
  BY <1>6
     DEF AbandonPreparing, Preparing, depVars, runVars, Set, Absent, Past, ReleasedInv,
         TypeOK, DepTypeOK, RunState
<1>7. ASSUME NEW r \in Runs, DependencyFailed(r) PROVE ReleasedInv'
  BY <1>2, <1>7 DEF DependencyFailed, Prepare, Preparing, Fail, Set, Past, TypeOK, RunState
<1>8. ASSUME NEW r \in Runs, ImageFailed(r) PROVE ReleasedInv'
  BY <1>2, <1>8
     DEF ImageFailed, GetAll, GetImage, Prepare, Preparing, Fail, Set, Past, TypeOK,
         RunState
<1>9. ASSUME NEW r \in Runs, WaitForDownloads(r) PROVE ReleasedInv'
  BY <1>2, <1>9
     DEF WaitForDownloads, GetAll, GetImage, Prepare, Preparing, Set, Past, TypeOK,
         RunState
<1>10. ASSUME NEW r \in Runs, MountFails(r) PROVE ReleasedInv'
  BY <1>2, <1>10
     DEF MountFails, GetAll, GetImage, Prepare, Preparing, Fail, Set, Past, TypeOK,
         RunState
<1>11. ASSUME NEW r \in Runs, StartContainer(r) PROVE ReleasedInv'
  BY <1>2, <1>11
     DEF StartContainer, GetAll, GetImage, Prepare, Preparing, Mount, Set, Past, TypeOK,
         RunState
<1>12. ASSUME NEW r \in Runs, StartFails(r) PROVE ReleasedInv'
  <2>1. run[r].stage = "preparing" /\ dep' = Get(r, Needs[r]) /\ links' \subseteq links \union {r}
    BY <1>12 DEF StartFails, Mount, GetAll, Prepare, Preparing
  <2>2. UNCHANGED run \/ Set(r, [run[r] EXCEPT !.stage = "cleaning_up", !.failure = "start"])
    BY <1>12 DEF StartFails, Fail
  <2>3. run'[r].stage \notin Past /\ \A q \in Runs \ {r} : run'[q] = run[q]
    <3>1. CASE UNCHANGED run
      BY <2>1, <3>1 DEF Past
    <3>2. CASE Set(r, [run[r] EXCEPT !.stage = "cleaning_up", !.failure = "start"])
      BY <3>2 DEF Set, Past, TypeOK, RunState
    <3>3. QED
      BY <2>2, <3>1, <3>2
  <2>4. QED
    BY <1>2, <2>1, <2>3
<1>13. ASSUME NEW r \in Runs, RunKilled(r) PROVE ReleasedInv'
  <2>1. run'[r].stage = "cleaning_up" /\ \A q \in Runs \ {r} : run'[q] = run[q]
    <3>1. \E f \in Outcomes(r), k \in {TRUE, run[r].killed} :
            run' = [run EXCEPT ![r] = [run[r] EXCEPT !.stage = "cleaning_up", !.failure = f, !.killed = k]]
      <4>1. \A f : [run[r] EXCEPT !.stage = "cleaning_up", !.failure = f]
                    = [run[r] EXCEPT !.stage = "cleaning_up", !.failure = f, !.killed = run[r].killed]
        BY DEF TypeOK, RunState
      <4>2. QED
        BY <1>13, <4>1 DEF RunKilled, Set
    <3>2. QED
      BY <3>1, SMTT(30) DEF TypeOK, RunState
  <2>2. UNCHANGED <<dep, links>>
    BY <1>13 DEF RunKilled, depVars
  <2>3. QED
    BY <2>1, <2>2 DEF ReleasedInv, Past
<1>14. ASSUME NEW r \in Runs, RunFinished(r) PROVE ReleasedInv'
  BY <1>14
     DEF RunFinished, CheckRunning, Outcomes, depVars, runVars, Set, Absent, Past,
         ReleasedInv, TypeOK, DepTypeOK, RunState
<1>15. ASSUME NEW r \in Runs, CleanUp(r) PROVE ReleasedInv'
  <2>1. \A d \in Deps : /\ dep'[d].dependents \subseteq dep[d].dependents
                       /\ r \notin dep'[d].dependents
    <3>1. \A d \in Deps : dep[d] \in Entry
      BY DEF TypeOK, DepTypeOK
    <3>2. ASSUME NEW d \in Deps
          PROVE  /\ ReleaseEntry(dep[d], r).dependents \subseteq dep[d].dependents
                 /\ r \notin ReleaseEntry(dep[d], r).dependents
      <4>1. CASE dep[d].stage = "absent"
        BY <4>1 DEF PinInv, ReleaseEntry
      <4>2. CASE dep[d].stage # "absent"
        BY <3>1, <4>2, ReleaseEntryType
      <4>3. QED
        BY <4>1, <4>2
    <3>3. ASSUME NEW d \in Deps
          PROVE  \/ dep'[d] = ReleaseEntry(dep[d], r)
                 \/ dep'[d] = dep[d] /\ d \notin Needs[r]
      BY <1>15 DEF CleanUp, Release
    <3>4. ASSUME NEW d \in Deps, d \notin Needs[r] PROVE r \notin dep[d].dependents
      BY <3>4 DEF PinInv
    <3>5. QED
      BY <3>2, <3>3, <3>4
  <2>2. r \notin links' /\ links' \subseteq links /\ \A q \in Runs \ {r} : run'[q] = run[q]
    BY <1>15 DEF CleanUp, Set, TypeOK
  <2>3. QED
    BY <2>1, <2>2 DEF ReleasedInv
<1>16. ASSUME NEW r \in Runs, Restaged(r) PROVE ReleasedInv'
  BY <1>16
     DEF Restaged, depVars, runVars, Set, Absent, Past, ReleasedInv, TypeOK, DepTypeOK,
         RunState
<1>17. ASSUME NEW r \in Runs, FinishUpload(r) PROVE ReleasedInv'
  BY <1>17
     DEF FinishUpload, depVars, runVars, Set, Absent, Past, ReleasedInv, TypeOK, DepTypeOK,
         RunState
<1>18. ASSUME NEW r \in Runs, Finish(r) PROVE ReleasedInv'
  BY <1>18
     DEF Finish, depVars, runVars, Set, Absent, Past, ReleasedInv, TypeOK, DepTypeOK,
         RunState
<1>19. ASSUME NEW m \in Managers, TransitionDependencies(m), UNCHANGED runVars PROVE ReleasedInv'
  BY <1>19, TransitionType
     DEF TransitionDependencies, runVars, ReleasedInv, TypeOK, DepTypeOK
<1>20. ASSUME NEW m \in Managers, NEW d \in Deps, PruneFailed(m, d), UNCHANGED runVars PROVE ReleasedInv'
  BY <1>20
     DEF PruneFailed, depVars, runVars, Set, Absent, Past, ReleasedInv, TypeOK, DepTypeOK,
         RunState
<1>21. ASSUME NEW m \in Managers, NEW d \in Deps, Evict(m, d), UNCHANGED runVars PROVE ReleasedInv'
  BY <1>21
     DEF Evict, depVars, runVars, Set, Absent, Past, ReleasedInv, TypeOK, DepTypeOK,
         RunState
<1>22. ASSUME NEW m \in Managers, NEW d \in Deps, Stall(m, d), UNCHANGED runVars PROVE ReleasedInv'
  BY <1>22
     DEF Stall, Disturb, SetThread, Alive, depVars, runVars, Set, Absent, Past,
         ReleasedInv, TypeOK, DepTypeOK, RunState
<1>23. ASSUME NEW d \in Deps, Expire(d), UNCHANGED runVars PROVE ReleasedInv'
  BY <1>23
     DEF Expire, depVars, runVars, Set, Absent, Past, ReleasedInv, TypeOK, DepTypeOK,
         RunState
<1>24. ASSUME NEW m \in Managers, RestageBundles(m) PROVE ReleasedInv'
  BY <1>24
     DEF RestageBundles, Disturb, depVars, runVars, Set, Absent, Past, ReleasedInv, TypeOK,
         DepTypeOK, RunState
<1>25. ASSUME NEW m \in Managers, Crash(m) PROVE FALSE
  BY <1>25 DEF Crash, Disturb, Remembered
<1>26. ASSUME NEW m \in Managers, Start(m) PROVE ReleasedInv'
  <2>1. ASSUME NEW r \in Runs PROVE run'[r].stage = run[r].stage
    BY <1>26 DEF Start, TypeOK, RunState
  <2>2. links' = links
    BY <1>26 DEF Start
  <2>3. ASSUME NEW r \in Runs, NEW d \in Deps, r \notin dep[d].dependents PROVE r \notin dep'[d].dependents
    BY <1>26, <2>3 DEF Start, SyncState, Absent, TypeOK, DepTypeOK
  <2>4. QED
    BY <2>1, <2>2, <2>3 DEF ReleasedInv
<1>27. \/ UNCHANGED <<run, dep, links>>
       \/ \E r \in Runs : InitializeRun(r)
       \/ \E r \in Runs : Kill(r)
       \/ \E r \in Runs : MarkFinalized(r)
       \/ \E r \in Runs : AbandonPreparing(r)
       \/ \E r \in Runs : DependencyFailed(r)
       \/ \E r \in Runs : ImageFailed(r)
       \/ \E r \in Runs : WaitForDownloads(r)
       \/ \E r \in Runs : MountFails(r)
       \/ \E r \in Runs : StartContainer(r)
       \/ \E r \in Runs : StartFails(r)
       \/ \E r \in Runs : RunKilled(r)
       \/ \E r \in Runs : RunFinished(r)
       \/ \E r \in Runs : CleanUp(r)
       \/ \E r \in Runs : Restaged(r)
       \/ \E r \in Runs : FinishUpload(r)
       \/ \E r \in Runs : Finish(r)
       \/ \E m \in Managers : TransitionDependencies(m) /\ UNCHANGED runVars
       \/ \E m \in Managers, d \in Deps : PruneFailed(m, d) /\ UNCHANGED runVars
       \/ \E m \in Managers, d \in Deps : Evict(m, d) /\ UNCHANGED runVars
       \/ \E m \in Managers, d \in Deps : Stall(m, d) /\ UNCHANGED runVars
       \/ \E d \in Deps : Expire(d) /\ UNCHANGED runVars
       \/ \E m \in Managers : RestageBundles(m)
       \/ \E m \in Managers : Crash(m)
       \/ \E m \in Managers : Start(m)
  BY ZenonT(60) DEF Next, ManagerStep, DownloadThread, Transitions, vars, runVars, depVars,
         StartUpload, ContainerExits, UploadEnds, Store, Read, DownloadEnds, AttemptFails,
         PullEnds, EvictImage
<1>28. QED
  BY <1>1, <1>3, <1>4, <1>5, <1>6, <1>7, <1>8, <1>9, <1>10, <1>11, <1>12, <1>13, <1>14,
     <1>15, <1>16, <1>17, <1>18, <1>19, <1>20, <1>21, <1>22, <1>23, <1>24, <1>25, <1>26,
     <1>27

(* RunInv is inductive, and holds at the start. *)
LEMMA RunInvStep == RunInv /\ [Next]_vars => RunInv'
<1> SUFFICES ASSUME RunInv, [Next]_vars PROVE RunInv'
  OBVIOUS
<1>1. TypeOK' /\ ThreadInv' /\ PinInv'
  BY TypeStep, ThreadStep, PinStep DEF RunInv
<1>2. Remembered' => Remembered
  BY HappenedGrows DEF Remembered
<1>3. Remembered' => ContainerKnown' /\ CpuInv' /\ ReleasedInv'
  BY <1>2, ContainerStep, CpuStep, ReleasedStep DEF RunInv
<1>4. QED
  BY <1>1, <1>3 DEF RunInv

LEMMA RunInvInit == Init => RunInv
<1> SUFFICES ASSUME Init PROVE RunInv
  OBVIOUS
<1> USE DEF Init, DepInit
<1>1. TypeOK
  BY AbsentType, RunStateType DEF TypeOK, DepTypeOK
<1>2. ThreadInv /\ PinInv
  BY DEF ThreadInv, ThreadMissing, PinInv, Absent
<1>3. ContainerKnown /\ ReleasedInv
  BY DEF ContainerKnown, ReleasedInv, NoRun, Past
<1>4. CpuInv
  <2>1. ASSUME NEW m \in Managers PROVE InRunning(m) = {}
    BY DEF InRunning, NoRun
  <2>2. QED
    BY <2>1, FS_EmptySet, CpusAssumption DEF CpuInv
<1>5. QED
  BY <1>1, <1>2, <1>3, <1>4 DEF RunInv

LEMMA RunInvAlways == Spec => []RunInv
  BY RunInvInit, RunInvStep, PTL DEF Spec

(* The state of the runs, the dependencies and their threads keeps its     *)
(* type in every behaviour of any number of workers.                       *)
THEOREM RunTypeCorrect == Spec => []TypeOK
<1>1. RunInv => TypeOK
  BY DEF RunInv
<1>2. QED
  BY <1>1, RunInvAlways, PTL

(* A manager has a thread for every download the state file gives to it,   *)
(* whatever the other managers on the file system do, die of or take over. *)
THEOREM AlwaysThreadKnown == Spec => []ThreadKnown
<1>1. RunInv => ThreadKnown
  BY DEF RunInv, TypeOK, DepTypeOK, ThreadInv, ThreadKnown
<1>2. QED
  BY <1>1, RunInvAlways, PTL

(* As long as a worker forgets no container, those that run have CPUs.     *)
THEOREM AlwaysCpuExclusive == Spec => []CpuExclusive
<1>1. ASSUME RunInv, Remembered, NEW m \in Managers
      PROVE  Cardinality({r \in Runs : Home[r] = m /\ container[r] = "running"}) <= Cpus
  <2> DEFINE Running == {r \in Runs : Home[r] = m /\ container[r] = "running"}
  <2>1. Running \subseteq InRunning(m)
    BY <1>1 DEF RunInv, ContainerKnown, InRunning
  <2>2. IsFiniteSet(InRunning(m))
    BY RunsAssumption, FS_Subset DEF InRunning
  <2>3. IsFiniteSet(Running) /\ Cardinality(Running) <= Cardinality(InRunning(m))
    BY <2>1, <2>2, FS_Subset
  <2>4. Cardinality(InRunning(m)) <= Cpus
    BY <1>1 DEF RunInv, CpuInv
  <2> HIDE DEF Running
  <2>5. Cardinality(Running) <= Cpus
    BY <2>2, <2>3, <2>4, FS_CardinalityType, CpusAssumption
  <2>6. QED
    BY <2>5 DEF Running
<1>2. RunInv => CpuExclusive
  BY <1>1 DEF CpuExclusive, Remembered
<1>3. QED
  BY <1>2, RunInvAlways, PTL

(* As long as a worker forgets no container, a run that is past its        *)
(* cleanup holds nothing any more, on whatever path it came there.         *)
THEOREM AlwaysReleased == Spec => []Released
<1>1. ASSUME RunInv PROVE Released
  <2>1. ASSUME Remembered, NEW r \in Runs, run[r].stage \in Past PROVE container[r] = "absent"
    BY <1>1, <2>1 DEF RunInv, ContainerKnown, Past
  <2>2. QED
    BY <1>1, <2>1 DEF RunInv, ReleasedInv, Released, Remembered
<1>2. QED
  BY <1>1, RunInvAlways, PTL

-----------------------------------------------------------------------------
(* What DependencyPinned rests on.  One process at most ends and starts    *)
(* again, and only the start of a process takes away directories: those    *)
(* that no entry names.                                                    *)
OneCrash ==
    /\ "crash" \notin happened => alive = Managers
    /\ \A m, n \in Managers \ alive : m = n

NotRestarted == "crash" \notin happened \/ alive # Managers

(* A download that has begun leaves something on the disk until a process  *)
(* starts.                                                                 *)
DiskHolds ==
    \A d \in Deps :
      /\ dep[d].stage = "ready" => disk[d] # "absent"
      /\ \A m \in Managers : thread[m][d].pc \in {"storing", "ok"} => disk[d] # "absent"

DirectoryInv == NotRestarted => DiskHolds

(* A run that has contents has left its container when it has left         *)
(* RUNNING; so what a crash takes back to RUNNING has no container up.     *)
ContentsInv ==
    \A r \in Runs :
      /\ run[r].stage = "running" => run[r].has_contents
      /\ run[r].has_contents /\ run[r].stage # "running" => container[r] # "running"

PinnedInv == OneCrash /\ DirectoryInv /\ ContentsInv /\ DependencyPinned

(* What ContentComplete rests on: a download has one thread, of the owner  *)
(* of the entry, from the first byte to the last.                          *)
Orderly == happened \intersect {"stall", "crash", "duplicate"} = {}

DownloadInv ==
    \A d \in Deps :
      /\ ~dep[d].stale /\ dep[d].by # "gone"
      /\ dep[d].stage = "ready" => disk[d] = "complete"
      /\ \A m \in Managers : thread[m][d].pc # "none" =>
           /\ dep[d].stage = "downloading" /\ dep[d].by = m
           /\ ~thread[m][d].stale
           /\ thread[m][d].pc = "storing" => disk[d] = m
           /\ thread[m][d].pc = "ok" => disk[d] = "complete"

OrderlyInv == Orderly => DownloadInv

-----------------------------------------------------------------------------
(* What a step does to the state of the dependencies. *)
LEMMA DependencyStep ==
    ASSUME [Next]_vars
    PROVE  \/ UNCHANGED <<dep, disk, thread, alive>>
           \/ \E r \in Runs, keys \in SUBSET Deps :
                dep' = Get(r, keys) /\ UNCHANGED <<disk, thread, alive>>
           \/ \E r \in Runs : CleanUp(r)
           \/ \E m \in Managers : TransitionDependencies(m)
           \/ \E m \in Managers, d \in Deps :
                PruneFailed(m, d) \/ Evict(m, d) \/ Stall(m, d) \/ DownloadThread(m, d)
           \/ \E d \in Deps : Expire(d)
           \/ \E m \in Managers : Crash(m)
           \/ \E m \in Managers : Start(m)
<1> DEFINE Gets(r) == \E keys \in SUBSET Deps :
                        dep' = Get(r, keys) /\ UNCHANGED <<disk, thread, alive>>
<1>1. ASSUME NEW r \in Runs, NEW keys \in SUBSET Needs[r],
             dep' = Get(r, keys), UNCHANGED <<disk, thread, alive>>
      PROVE  Gets(r)
  BY <1>1, NeedsAssumption
<1>2. ASSUME NEW r \in Runs, GetAll(r) PROVE Gets(r)
  BY <1>1, <1>2 DEF GetAll
<1>3. ASSUME NEW r \in Runs, DependencyFailed(r) PROVE Gets(r)
  BY <1>1, <1>3 DEF DependencyFailed
<1> HIDE DEF Gets
<1>4. ASSUME NEW r \in Runs,
             \/ ImageFailed(r) \/ WaitForDownloads(r) \/ MountFails(r) \/ StartContainer(r)
             \/ StartFails(r)
      PROVE  Gets(r)
  BY <1>2, <1>4 DEF ImageFailed, WaitForDownloads, MountFails, StartContainer, StartFails, Mount
<1>5. ASSUME NEW r \in Runs,
             InitializeRun(r) \/ Kill(r) \/ MarkFinalized(r) \/ ContainerExits(r) \/ UploadEnds(r)
      PROVE  UNCHANGED <<dep, disk, thread, alive>>
  BY <1>5, SMTT(30) DEF InitializeRun, Kill, MarkFinalized, ContainerExits, UploadEnds, depVars
<1>6. ASSUME NEW r \in Runs,
             \/ AbandonPreparing(r) \/ RunKilled(r) \/ RunFinished(r) \/ Restaged(r)
             \/ StartUpload(r) \/ FinishUpload(r) \/ Finish(r)
      PROVE  UNCHANGED <<dep, disk, thread, alive>>
  BY <1>6
     DEF AbandonPreparing, RunKilled, RunFinished, Restaged, StartUpload, FinishUpload,
         Finish, depVars
<1>7. ASSUME NEW m \in Managers, RestageBundles(m) \/ PullEnds(m) \/ EvictImage(m)
      PROVE  UNCHANGED <<dep, disk, thread, alive>>
  BY <1>7 DEF RestageBundles, PullEnds, EvictImage, depVars
<1>8. CASE \E r \in Runs : Transitions(r)
  BY <1>3, <1>4, <1>6, <1>8 DEF Transitions, Gets
<1>9. CASE \E m \in Managers : ManagerStep(m)
  BY <1>9 DEF ManagerStep
<1>10. CASE UNCHANGED vars
  BY <1>10 DEF vars, depVars
<1>11. QED
  BY <1>5, <1>7, <1>8, <1>9, <1>10 DEF Next

(* Processes end once, by a crash, and start again. *)
LEMMA OneCrashStep ==
    ASSUME TypeOK, OneCrash, [Next]_vars
    PROVE  OneCrash' /\ (NotRestarted' => NotRestarted /\ ~\E m \in Managers : Start(m))
<1>1. happened \subseteq happened'
  BY HappenedGrows
<1>2. CASE alive' = alive
  <2>1. ~\E m \in Managers : Start(m)
    BY <1>2 DEF Start
  <2>2. QED
    BY <1>1, <1>2, <2>1 DEF OneCrash, NotRestarted
<1>3. ASSUME NEW m \in Managers, Crash(m)
      PROVE  OneCrash' /\ NotRestarted /\ ~\E n \in Managers : Start(n)
  <2>1. "crash" \notin happened /\ "crash" \in happened' /\ alive' = alive \ {m}
    BY <1>3 DEF Crash, Disturb
  <2>2. alive = Managers
    BY <2>1 DEF OneCrash
  <2>3. ~\E n \in Managers : Start(n)
    BY <2>2 DEF Start
  <2>4. QED
    BY <2>1, <2>2, <2>3 DEF OneCrash, NotRestarted
<1>4. ASSUME NEW m \in Managers, Start(m) PROVE OneCrash' /\ ~NotRestarted'
  <2>1. m \notin alive /\ alive' = alive \union {m} /\ happened' = happened
    BY <1>4 DEF Start
  <2>2. "crash" \in happened /\ alive' = Managers
    BY <2>1, SMTT(30) DEF OneCrash, TypeOK, DepTypeOK
  <2>3. QED
    BY <2>1, <2>2 DEF OneCrash, NotRestarted
<1>5. alive' = alive \/ (\E m \in Managers : Crash(m)) \/ (\E m \in Managers : Start(m))
  BY DependencyStep, ZenonT(60)
     DEF CleanUp, TransitionDependencies, PruneFailed, Evict, Stall, DownloadThread, Store,
         Read, DownloadEnds, AttemptFails, Expire
<1>6. QED
  BY <1>2, <1>3, <1>4, <1>5

(* get() and release() make no entry ready that was not, and take no pin   *)
(* away but that of the run that releases.                                 *)
LEMMA GetEntryReady ==
    ASSUME NEW e \in Entry, NEW r \in Runs
    PROVE  /\ GetEntry(e, r).stage = "ready" <=> e.stage = "ready"
           /\ e.stage = "ready" => GetEntry(e, r).dependents = e.dependents \union {r}
  BY DEF GetEntry, Entry, Absent

(* A pass makes an entry ready when its thread has downloaded it, and       *)
(* moves no thread into a download.                                         *)
LEMMA TransitionReady ==
    ASSUME DepTypeOK, NEW m \in Managers, NEW d \in Deps, ~ThreadMissing(m, d)
    PROVE  /\ Transition(m, d)[1].stage = "ready" => \/ dep[d].stage = "ready"
                                                     \/ thread[m][d].pc = "ok"
           /\ dep[d].stage = "ready" => Transition(m, d)[1] = dep[d]
           /\ Transition(m, d)[2].pc \in {"storing", "ok"} =>
                Transition(m, d)[2].pc = thread[m][d].pc
<1> DEFINE e == dep[d]
           t == ThreadFor(e, thread[m][d])
<1>1. e \in Entry /\ thread[m][d] \in Thread /\ t \in Thread
  BY ThreadForType DEF DepTypeOK
<1>2. CASE e.stage # "downloading" \/ (~Starts(e) /\ e.by # m)
  <2>1. Transition(m, d) = <<e, thread[m][d]>>
    BY <1>2 DEF Transition
  <2>2. QED
    BY <2>1
<1>3. CASE e.stage = "downloading" /\ (Starts(e) \/ e.by = m)
  <2>1. t.pc \in {"storing", "ok"} => t.pc = thread[m][d].pc
    BY <1>1 DEF ThreadFor, Thread
  <2>2. CASE Alive(t)
    <3> DEFINE f == [[e EXCEPT !.by = m] EXCEPT !.stale = t.stale]
    <3>1. f.stage = "downloading"
      BY <1>1, <1>3 DEF Entry
    <3>2. Transition(m, d) = <<f, t>>
      BY <1>3, <2>2 DEF Transition, Alive
    <3> HIDE DEF f, t
    <3>3. QED
      BY <1>3, <2>1, <3>1, <3>2
  <2>3. CASE t.pc = "ok"
    <3> DEFINE f == [e EXCEPT !.by = None, !.stage = "ready"]
    <3>1. Transition(m, d) = <<f, NoThread>>
      BY <1>3, <2>3 DEF Transition, Alive
    <3> HIDE DEF f, t
    <3>2. QED
      BY <1>3, <2>1, <2>3, <3>1 DEF NoThread
  <2>4. CASE t.pc = "failed"
    <3> DEFINE f == [e EXCEPT !.by = None, !.stage = "failed"]
    <3>1. f.stage = "failed"
      BY <1>1 DEF Entry
    <3>2. Transition(m, d) = <<f, NoThread>>
      BY <1>3, <2>4 DEF Transition, Alive
    <3> HIDE DEF f
    <3>3. QED
      BY <1>3, <3>1, <3>2 DEF NoThread
  <2>5. t.pc \in {"requested", "storing", "ok", "failed"}
    BY <1>1, <1>3 DEF ThreadFor, ThreadMissing, Thread
  <2>6. QED
    BY <2>2, <2>3, <2>4, <2>5 DEF Alive
<1>4. QED
  BY <1>2, <1>3

(* Only the start of a process takes a directory away. *)
LEMMA DirectoryStep ==
    ASSUME TypeOK, ThreadInv, DiskHolds, [Next]_vars, ~\E m \in Managers : Start(m)
    PROVE  DiskHolds'
<1> USE DiskAssumption
<1> DEFINE Threads == \A m \in Managers, d \in Deps :
                        thread'[m][d].pc \in {"storing", "ok"} => thread[m][d].pc = thread'[m][d].pc
           Disk == \A d \in Deps : disk[d] # "absent" => disk'[d] # "absent"
           Ready == \A d \in Deps : dep'[d].stage = "ready" =>
                      \/ dep[d].stage = "ready"
                      \/ \E m \in Managers : thread[m][d].pc = "ok"
<1>1. ASSUME Threads, Disk, Ready PROVE DiskHolds'
  BY <1>1 DEF DiskHolds
<1>2. CASE UNCHANGED <<dep, disk, thread, alive>>
  BY <1>2 DEF DiskHolds
<1>3. ASSUME NEW r \in Runs, NEW keys, dep' = Get(r, keys), UNCHANGED <<disk, thread>>
      PROVE  DiskHolds'
  <2>1. Ready
    BY <1>3, GetEntryReady DEF Get, TypeOK, DepTypeOK
  <2>2. QED
    BY <1>1, <1>3, <2>1
<1>4. ASSUME NEW r \in Runs, CleanUp(r) PROVE DiskHolds'
  <2>1. Ready
    BY <1>4, ReleaseEntryKeeps DEF CleanUp, Release, TypeOK, DepTypeOK
  <2>2. QED
    BY <1>1, <1>4, <2>1 DEF CleanUp
<1>5. ASSUME NEW m \in Managers, TransitionDependencies(m) PROVE DiskHolds'
  <2>1. ASSUME NEW d \in Deps
        PROVE  /\ dep'[d].stage = "ready" => dep[d].stage = "ready" \/ thread[m][d].pc = "ok"
               /\ thread'[m][d].pc \in {"storing", "ok"} => thread[m][d].pc = thread'[m][d].pc
               /\ \A n \in Managers \ {m} : thread'[n] = thread[n]
    <3>1. DepTypeOK /\ ~ThreadMissing(m, d)
      BY <1>5 DEF TransitionDependencies, TypeOK
    <3>2. dep'[d] = Transition(m, d)[1] /\ thread'[m][d] = Transition(m, d)[2]
      BY <1>5 DEF TransitionDependencies, TypeOK, DepTypeOK
    <3>3. \A n \in Managers \ {m} : thread'[n] = thread[n]
      BY <1>5 DEF TransitionDependencies, TypeOK, DepTypeOK
    <3>4. QED
      BY <3>1, <3>2, <3>3, TransitionReady
  <2>2. Threads /\ Ready
    BY <2>1
  <2>3. QED
    BY <1>1, <1>5, <2>2 DEF TransitionDependencies
<1>6. ASSUME NEW m \in Managers, NEW d \in Deps, PruneFailed(m, d) \/ Evict(m, d) PROVE DiskHolds'
  <2>1. Ready
    BY <1>6 DEF PruneFailed, Evict, Absent, TypeOK, DepTypeOK
  <2>2. QED
    BY <1>1, <1>6, <2>1 DEF PruneFailed, Evict
<1>7. ASSUME NEW m \in Managers, NEW d \in Deps, Stall(m, d) PROVE DiskHolds'
  <2>1. Ready
    BY <1>7 DEF Stall, TypeOK, DepTypeOK, Entry
  <2>2. Threads
    BY <1>7 DEF Stall, SetThread, TypeOK, DepTypeOK, Thread
  <2>3. QED
    BY <1>1, <1>7, <2>1, <2>2 DEF Stall
<1>8. ASSUME NEW m \in Managers, NEW d \in Deps, Store(m, d) PROVE DiskHolds'
  BY <1>8 DEF Store, SetThread, DiskHolds, TypeOK, DepTypeOK
<1>9. ASSUME NEW m \in Managers, NEW d \in Deps, Read(m, d) PROVE DiskHolds'
  <2>1. Threads
    BY <1>9 DEF Read, SetThread, TypeOK, DepTypeOK, Thread
  <2>2. QED
    BY <1>1, <1>9, <2>1 DEF Read
<1>10. ASSUME NEW m \in Managers, NEW d \in Deps, DownloadEnds(m, d) PROVE DiskHolds'
  BY <1>10 DEF DownloadEnds, SetThread, DiskHolds, TypeOK, DepTypeOK
<1>11. ASSUME NEW m \in Managers, NEW d \in Deps, AttemptFails(m, d) PROVE DiskHolds'
  <2>1. \E pc \in {"requested", "failed"} : SetThread(m, d, [thread[m][d] EXCEPT !.pc = pc])
    BY <1>11 DEF AttemptFails
  <2>2. Threads
    BY <2>1 DEF SetThread, TypeOK, DepTypeOK, Thread
  <2>3. QED
    BY <1>1, <1>11, <2>2 DEF AttemptFails
<1>12. ASSUME NEW d \in Deps, Expire(d) PROVE DiskHolds'
  <2>1. Ready
    BY <1>12 DEF Expire, TypeOK, DepTypeOK, Entry
  <2>2. QED
    BY <1>1, <1>12, <2>1 DEF Expire
<1>13. ASSUME NEW m \in Managers, Crash(m) PROVE DiskHolds'
  <2>1. Ready /\ Disk
    BY <1>13 DEF Crash, ManagerDies, TypeOK, DepTypeOK, Entry
  <2>2. Threads
    BY <1>13 DEF Crash, ManagerDies, TypeOK, DepTypeOK, NoThread
  <2>3. QED
    BY <1>1, <2>1, <2>2
<1>14. QED
  BY <1>2, <1>3, <1>4, <1>5, <1>6, <1>7, <1>8, <1>9, <1>10, <1>11, <1>12, <1>13,
     DependencyStep DEF DownloadThread

-----------------------------------------------------------------------------
(* What the state file may hold of a run in a state: it is in RUNNING only *)
(* if the run is, or has been until its last transition.                   *)
NoNews(s, file) ==
    /\ file.stage = "running" =>
         /\ s.stage = "running" \/ (s.stage = "cleaning_up" /\ s.has_contents)
         /\ s.has_contents => file.has_contents
    /\ file.has_contents /\ file.stage # "running" => s.has_contents /\ s.stage # "running"

LEMMA BeforeContents ==
    ASSUME NEW s \in RunState, NEW b \in {s} \union Before(s)
    PROVE  b \in RunState /\ NoNews(s, b)
<1>5. NoNews(s, s)
  BY Zenon DEF NoNews
<1> SUFFICES ASSUME b \in Before(s) PROVE b \in RunState /\ NoNews(s, b)
  BY <1>5
<1>1. CASE s.stage \in {"none", "preparing", "running", "finished"}
  <2>1. b \in {NoRun, NewRun, [NoRun EXCEPT !.stage = "finalizing", !.finalized = TRUE]}
    BY <1>1 DEF Before
  <2> DEFINE last == [NoRun EXCEPT !.stage = "finalizing", !.finalized = TRUE]
  <2>3. last.stage = "finalizing" /\ last.has_contents = FALSE
    BY DEF NoRun
  <2>4. last \in RunState
    BY DEF NoRun, RunState, Stage, Failure
  <2>5. /\ NoRun.stage = "none" /\ NoRun.has_contents = FALSE
        /\ NewRun.stage = "preparing" /\ NewRun.has_contents = FALSE
    BY DEF NoRun, NewRun
  <2> HIDE DEF last
  <2>2. b \in RunState /\ b.stage # "running" /\ ~b.has_contents
    BY <2>1, <2>3, <2>4, <2>5, RunStateType DEF last
  <2>6. QED
    BY <2>2 DEF NoNews
<1>2. CASE s.stage = "cleaning_up" /\ s.has_contents
  <2>1. b = [s EXCEPT !.stage = "running", !.failure = "none"]
    BY <1>2 DEF Before
  <2>2. b \in RunState /\ b.stage = "running" /\ b.has_contents = s.has_contents
    BY <2>1 DEF RunState, Stage, Failure
  <2>3. QED
    BY <1>2, <2>2 DEF NoNews
<1>3. CASE s.stage = "cleaning_up" /\ ~s.has_contents
  <2>1. b = NewRun
    BY <1>3 DEF Before
  <2>2. QED
    BY <2>1 DEF NoNews, NoRun, NewRun, RunState, Stage, Failure
<1>4. CASE s.stage \in {"uploading", "finalizing", "restaged"}
  <2>1. /\ b \in RunState /\ b.has_contents = s.has_contents
        /\ b.stage \in {"cleaning_up", "uploading"}
    <3>1. CASE s.stage = "uploading"
      <4>1. b = [s EXCEPT !.stage = "cleaning_up", !.container_id = TRUE]
        BY <3>1 DEF Before
      <4>2. QED
        BY <4>1 DEF RunState, Stage, Failure
    <3>2. CASE s.stage = "finalizing" /\ s.has_contents
      <4>1. PICK f \in {"none", "command", s.failure} :
              b = [s EXCEPT !.stage = "uploading", !.failure = f]
        BY <3>2 DEF Before
      <4>2. f \in Failure
        BY DEF RunState, Failure
      <4>3. QED
        BY <4>1, <4>2 DEF RunState, Stage
    <3>3. CASE (s.stage = "finalizing" /\ ~s.has_contents) \/ s.stage = "restaged"
      <4>1. b = [s EXCEPT !.stage = "cleaning_up"]
        BY <3>3 DEF Before
      <4>2. QED
        BY <4>1 DEF RunState, Stage, Failure
    <3>4. QED
      BY <1>4, <3>1, <3>2, <3>3
  <2>2. QED
    BY <1>4, <2>1 DEF NoNews
<1>6. QED
  BY <1>1, <1>2, <1>3, <1>4 DEF RunState, Stage

LEMMA InFileContents ==
    ASSUME NEW s \in RunState, NEW file \in InFile(s)
    PROVE  NoNews(s, file)
<1>1. PICK b \in {s} \union Before(s) : file \in WithMessages(b, s)
  BY DEF InFile
<1> DEFINE At(f) == {[b EXCEPT !.killed = k, !.finalized = f] : k \in {FALSE, s.killed}}
<1>2. WithMessages(b, s) = UNION {At(f) : f \in {FALSE, s.finalized}}
  BY Zenon DEF WithMessages
<1>3. PICK f \in {FALSE, s.finalized} : file \in At(f)
  <2> HIDE DEF At
  <2>1. QED
    BY <1>1, <1>2
<1>4. PICK k \in {FALSE, s.killed} : file = [b EXCEPT !.killed = k, !.finalized = f]
  BY <1>3
<1>5. b \in RunState /\ NoNews(s, b)
  BY BeforeContents
<1>6. file.stage = b.stage /\ file.has_contents = b.has_contents
  BY <1>4, <1>5 DEF RunState
<1>7. QED
  BY <1>5, <1>6 DEF NoNews


-----------------------------------------------------------------------------
(* A step that starts no container of the run brings none up, and brings   *)
(* the run to RUNNING only if it was there, or, as the process ended, was  *)
(* cleaning up after it.                                                   *)
Calm(r) ==
    /\ run'[r].stage = "running" =>
         /\ run[r].stage = "running" \/ (run[r].stage = "cleaning_up" /\ run[r].has_contents)
         /\ run[r].has_contents => run'[r].has_contents
    /\ container'[r] = "running" =>
         /\ container[r] = "running"
         /\ run'[r].has_contents /\ run'[r].stage # "running" =>
              run[r].has_contents /\ run[r].stage # "running"

LEMMA CalmStep ==
    ASSUME TypeOK, [Next]_vars, NEW r \in Runs
    PROVE  Calm(r) \/ StartContainer(r)
<1>1. run[r] \in RunState
  BY DEF TypeOK
<1>2. CASE UNCHANGED <<run, container>>
  BY <1>2 DEF Calm
<1>3. ASSUME NEW q \in Runs, InitializeRun(q) PROVE Calm(r)
  BY <1>1, <1>3 DEF InitializeRun, Disturb, Listens, Set, NewRun, NoRun, Calm, TypeOK, RunState
<1>4. ASSUME NEW q \in Runs, Kill(q) PROVE Calm(r)
  BY <1>1, <1>4 DEF Kill, Set, Calm, TypeOK, RunState
<1>5. ASSUME NEW q \in Runs, MarkFinalized(q) PROVE Calm(r)
  BY <1>1, <1>5 DEF MarkFinalized, Set, Calm, TypeOK, RunState
<1>6. ASSUME NEW q \in Runs, AbandonPreparing(q) PROVE Calm(r)
  BY <1>1, <1>6 DEF AbandonPreparing, Preparing, Set, Calm, TypeOK, RunState
<1>7. ASSUME NEW q \in Runs, DependencyFailed(q) PROVE Calm(r)
  BY <1>1, <1>7 DEF DependencyFailed, Prepare, Preparing, Fail, Set, Calm, TypeOK, RunState
<1>8. ASSUME NEW q \in Runs, ImageFailed(q) PROVE Calm(r)
  BY <1>1, <1>8 DEF ImageFailed, GetAll, Prepare, Preparing, Fail, Set, Calm, TypeOK, RunState
<1>9. ASSUME NEW q \in Runs, MountFails(q) PROVE Calm(r)
  BY <1>1, <1>9 DEF MountFails, GetAll, Prepare, Preparing, Fail, Set, Calm, TypeOK, RunState
<1>10. ASSUME NEW q \in Runs, RunFinished(q) PROVE Calm(r)
  BY <1>1, <1>10 DEF RunFinished, CheckRunning, Set, Calm, TypeOK, RunState
<1>11. ASSUME NEW q \in Runs, Restaged(q) PROVE Calm(r)
  BY <1>1, <1>11 DEF Restaged, Set, Calm, TypeOK, RunState
<1>12. ASSUME NEW q \in Runs, FinishUpload(q) PROVE Calm(r)
  BY <1>1, <1>12 DEF FinishUpload, Set, Calm, TypeOK, RunState
<1>13. ASSUME NEW q \in Runs, Finish(q) PROVE Calm(r)
  BY <1>1, <1>13 DEF Finish, Set, NoRun, Calm, TypeOK, RunState
<1>14. ASSUME NEW q \in Runs, ContainerExits(q) PROVE Calm(r)
  BY <1>1, <1>14 DEF ContainerExits, Calm, TypeOK, RunState
<1>15. ASSUME NEW q \in Runs, q # r, StartContainer(q) PROVE Calm(r)
  BY <1>15 DEF StartContainer, Set, Calm, TypeOK
<1>16. ASSUME NEW q \in Runs, StartFails(q) PROVE Calm(r)
  <2>1. container' = [container EXCEPT ![q] = "absent"]
    BY <1>16 DEF StartFails
  <2>2. UNCHANGED run \/ Set(q, [run[q] EXCEPT !.stage = "cleaning_up", !.failure = "start"])
    BY <1>16 DEF StartFails, Fail
  <2>3. run[q].stage = "preparing"
    BY <1>16 DEF StartFails, Mount, GetAll, Prepare, Preparing
  <2>4. run'[r] = run[r] \/ (run'[r].stage = "cleaning_up" /\ q = r)
    <3>1. CASE UNCHANGED run
      BY <3>1
    <3>2. CASE Set(q, [run[q] EXCEPT !.stage = "cleaning_up", !.failure = "start"])
      BY <1>1, <3>2 DEF Set, TypeOK, RunState
    <3>3. QED
      BY <2>2, <3>1, <3>2
  <2>5. q = r => container'[r] = "absent"
    BY <2>1 DEF TypeOK
  <2>6. q # r => container'[r] = container[r]
    BY <2>1 DEF TypeOK
  <2>7. QED
    BY <2>4, <2>5, <2>6 DEF Calm
<1>17. ASSUME NEW q \in Runs, RunKilled(q) PROVE Calm(r)
  <2>1. container' = [container EXCEPT ![q] = "absent"]
    BY <1>17 DEF RunKilled
  <2>2. \E f \in Outcomes(q) :
          \/ Set(q, [run[q] EXCEPT !.stage = "cleaning_up", !.failure = f])
          \/ Set(q, [run[q] EXCEPT !.stage = "cleaning_up", !.failure = f, !.killed = TRUE])
    BY <1>17 DEF RunKilled
  <2>3. ASSUME q = r PROVE run'[r].stage = "cleaning_up"
    <3>1. \A f : [run[r] EXCEPT !.stage = "cleaning_up", !.failure = f].stage = "cleaning_up"
      BY <1>1 DEF RunState
    <3>2. \A f : [run[r] EXCEPT !.stage = "cleaning_up", !.failure = f, !.killed = TRUE].stage
                  = "cleaning_up"
      BY <1>1 DEF RunState
    <3>3. PICK s : Set(r, s) /\ s.stage = "cleaning_up"
      BY <2>2, <2>3, <3>1, <3>2, Zenon
    <3>4. QED
      BY <3>3 DEF Set, TypeOK
  <2>4. q # r => run'[r] = run[r]
    BY <2>2 DEF Set, TypeOK
  <2>5. QED
    BY <2>1, <2>3, <2>4 DEF Calm, TypeOK
<1>18. ASSUME NEW q \in Runs, CleanUp(q) PROVE Calm(r) /\ (q = r => run'[r].stage # "running")
  <2>1. \A x \in Runs : container'[x] = "running" => container[x] = "running"
    BY <1>18 DEF CleanUp, TypeOK
  <2>2. Set(q, [run[q] EXCEPT !.stage = AfterCleanup(q), !.container_id = FALSE])
    BY <1>18 DEF CleanUp
  <2>3. run[q].stage = "cleaning_up" /\ AfterCleanup(q) # "running"
    BY <1>18 DEF CleanUp, AfterCleanup
  <2>4. q = r => run'[r].stage = AfterCleanup(q) /\ run'[r].has_contents = run[r].has_contents
    BY <1>1, <2>2 DEF Set, TypeOK, RunState
  <2>5. q # r => run'[r] = run[r]
    BY <2>2 DEF Set, TypeOK
  <2>6. QED
    BY <2>1, <2>3, <2>4, <2>5 DEF Calm
<1>19. ASSUME NEW m \in Managers, RestageBundles(m) PROVE Calm(r)
  BY <1>1, <1>19 DEF RestageBundles, Calm, TypeOK, RunState
<1>20. ASSUME NEW m \in Managers, Crash(m) PROVE Calm(r)
  <2>1. run'[r] = run[r] \/ run'[r] \in InFile(run[r])
    BY <1>20 DEF Crash, TypeOK
  <2>2. container' = container
    BY <1>20 DEF Crash
  <2>3. run'[r] \in InFile(run[r]) => NoNews(run[r], run'[r])
    BY <1>1, InFileContents
  <2>4. QED
    BY <2>1, <2>2, <2>3 DEF Calm, NoNews
<1>21. ASSUME NEW m \in Managers, Start(m) PROVE Calm(r)
  <2>1. run'[r].stage = run[r].stage /\ run'[r].has_contents = run[r].has_contents
    BY <1>1, <1>21 DEF Start, TypeOK, RunState
  <2>2. container' = container
    BY <1>21 DEF Start
  <2>3. QED
    BY <2>1, <2>2 DEF Calm
<1>22. \/ UNCHANGED <<run, container>>
       \/ \E q \in Runs : InitializeRun(q)
       \/ \E q \in Runs : Kill(q)
       \/ \E q \in Runs : MarkFinalized(q)
       \/ \E q \in Runs : AbandonPreparing(q)
       \/ \E q \in Runs : DependencyFailed(q)
       \/ \E q \in Runs : ImageFailed(q)
       \/ \E q \in Runs : MountFails(q)
       \/ \E q \in Runs : StartContainer(q)
       \/ \E q \in Runs : StartFails(q)
       \/ \E q \in Runs : RunKilled(q)
       \/ \E q \in Runs : RunFinished(q)
       \/ \E q \in Runs : CleanUp(q)
       \/ \E q \in Runs : Restaged(q)
       \/ \E q \in Runs : FinishUpload(q)
       \/ \E q \in Runs : Finish(q)
       \/ \E q \in Runs : ContainerExits(q)
       \/ \E m \in Managers : RestageBundles(m)
       \/ \E m \in Managers : Crash(m)
       \/ \E m \in Managers : Start(m)
  BY DEF Next, ManagerStep, Transitions, vars, runVars,
         WaitForDownloads, StartUpload, UploadEnds, PullEnds, EvictImage
<1>23. QED
  BY <1>2, <1>3, <1>4, <1>5, <1>6, <1>7, <1>8, <1>9, <1>10, <1>11, <1>12, <1>13, <1>14, <1>15, <1>16, <1>17, <1>18, <1>19, <1>20, <1>21, <1>22

(* The contents are those of a run that has had its container. *)
LEMMA ContentsStep ==
    ASSUME TypeOK, ContentsInv, [Next]_vars
    PROVE  ContentsInv'
<1> SUFFICES ASSUME NEW r \in Runs
             PROVE  /\ run'[r].stage = "running" => run'[r].has_contents
                    /\ run'[r].has_contents /\ run'[r].stage # "running" =>
                         container'[r] # "running"
  BY DEF ContentsInv
<1>1. CASE Calm(r)
  BY <1>1 DEF Calm, ContentsInv
<1>2. CASE StartContainer(r)
  <2>1. run'[r] = [run[r] EXCEPT !.stage = "running", !.container_id = TRUE, !.has_contents = TRUE]
    BY <1>2 DEF StartContainer, Set, TypeOK
  <2>2. run'[r].stage = "running" /\ run'[r].has_contents = TRUE
    BY <2>1 DEF TypeOK, RunState
  <2>3. QED
    BY <2>2
<1>3. QED
  BY <1>1, <1>2, CalmStep

(* What a run has pinned and found ready stays so until it is cleaned up.  *)
LEMMA PinKept ==
    ASSUME TypeOK, ThreadInv, DirectoryInv, OneCrash, [Next]_vars,
           NEW r \in Runs, NEW d \in Deps, ~CleanUp(r),
           dep[d].stage = "ready", r \in dep[d].dependents
    PROVE  dep'[d].stage = "ready" /\ r \in dep'[d].dependents
<1>1. CASE dep' = dep
  BY <1>1
<1>2. ASSUME NEW q \in Runs, NEW keys, dep' = Get(q, keys)
      PROVE  dep'[d].stage = "ready" /\ r \in dep'[d].dependents
  BY <1>2, GetEntryReady DEF Get, TypeOK, DepTypeOK
<1>3. ASSUME NEW q \in Runs, q # r, CleanUp(q)
      PROVE  dep'[d].stage = "ready" /\ r \in dep'[d].dependents
  BY <1>3, ReleaseEntryKeeps, ReleaseEntryType, SMTT(30) DEF CleanUp, Release, TypeOK, DepTypeOK
<1>4. ASSUME NEW m \in Managers, TransitionDependencies(m)
      PROVE  dep'[d] = dep[d]
  BY <1>4, TransitionReady DEF TransitionDependencies, TypeOK
<1>5. ASSUME NEW m \in Managers, NEW x \in Deps,
             \/ PruneFailed(m, x) \/ Evict(m, x) \/ Stall(m, x) \/ DownloadThread(m, x)
      PROVE  dep'[d].stage = "ready" /\ r \in dep'[d].dependents
  <2>1. CASE PruneFailed(m, x)
    BY <2>1 DEF PruneFailed, TypeOK, DepTypeOK
  <2>2. CASE Evict(m, x)
    BY <2>2 DEF Evict, TypeOK, DepTypeOK
  <2>3. CASE Stall(m, x)
    BY <2>3 DEF Stall, TypeOK, DepTypeOK, Entry
  <2>4. CASE DownloadThread(m, x)
    BY <2>4 DEF DownloadThread, Store, Read, DownloadEnds, AttemptFails
  <2>5. QED
    BY <1>5, <2>1, <2>2, <2>3, <2>4
<1>6. ASSUME NEW x \in Deps, Expire(x)
      PROVE  dep'[d].stage = "ready" /\ r \in dep'[d].dependents
  BY <1>6 DEF Expire, TypeOK, DepTypeOK
<1>7. ASSUME NEW m \in Managers, Crash(m)
      PROVE  dep'[d].stage = "ready" /\ r \in dep'[d].dependents
  BY <1>7 DEF Crash, ManagerDies, TypeOK, DepTypeOK, Entry
<1>8. ASSUME NEW m \in Managers, Start(m)
      PROVE  dep'[d] = dep[d]
  <2>1. alive # Managers
    BY <1>8 DEF Start
  <2>2. disk[d] # "absent"
    BY <2>1 DEF DirectoryInv, DiskHolds, NotRestarted
  <2>3. QED
    BY <1>8, <2>2 DEF Start, SyncState
<1>9. QED
  BY <1>1, <1>2, <1>3, <1>4, <1>5, <1>6, <1>7, <1>8, DependencyStep

LEMMA PinnedStep ==
    ASSUME TypeOK, ThreadInv, OneCrash, DirectoryInv, ContentsInv, DependencyPinned, [Next]_vars
    PROVE  DependencyPinned'
<1> SUFFICES ASSUME NEW r \in Runs, run'[r].stage = "running", container'[r] = "running",
                    NEW d \in Needs[r]
             PROVE  dep'[d].stage = "ready" /\ r \in dep'[d].dependents
  BY DEF DependencyPinned
<1>1. d \in Deps
  BY NeedsAssumption
<1>2. CASE Calm(r)
  <2>1. container[r] = "running" /\ run[r].stage = "running"
    BY <1>2 DEF Calm, ContentsInv
  <2>2. ~CleanUp(r)
    BY <2>1 DEF CleanUp
  <2>3. QED
    BY <1>1, <2>1, <2>2, PinKept DEF DependencyPinned
<1>3. CASE StartContainer(r)
  <2>1. dep' = Get(r, Needs[r]) /\ dep[d].stage = "ready"
    BY <1>3 DEF StartContainer, Mount, GetAll, AllReady
  <2>2. QED
    BY <1>1, <2>1, GetEntryReady DEF Get, TypeOK, DepTypeOK
<1>4. QED
  BY <1>2, <1>3, CalmStep

LEMMA PinnedInvStep == RunInv /\ PinnedInv /\ [Next]_vars => PinnedInv'
<1> SUFFICES ASSUME RunInv, PinnedInv, [Next]_vars PROVE PinnedInv'
  OBVIOUS
<1> USE DEF RunInv, PinnedInv
<1>1. OneCrash' /\ (NotRestarted' => NotRestarted /\ ~\E m \in Managers : Start(m))
  BY OneCrashStep
<1>2. DirectoryInv'
  BY <1>1, DirectoryStep DEF DirectoryInv
<1>3. ContentsInv' /\ DependencyPinned'
  BY ContentsStep, PinnedStep
<1>4. QED
  BY <1>1, <1>2, <1>3

LEMMA PinnedInvInit == Init => PinnedInv
<1> SUFFICES ASSUME Init PROVE PinnedInv
  OBVIOUS
<1> USE DEF Init, DepInit
<1>1. OneCrash
  BY DEF OneCrash
<1>2. DirectoryInv
  BY DEF DirectoryInv, DiskHolds, Absent, NoThread
<1>3. ContentsInv /\ DependencyPinned
  BY DEF ContentsInv, DependencyPinned, NoRun
<1>4. QED
  BY <1>1, <1>2, <1>3 DEF PinnedInv

LEMMA PinnedInvAlways == Spec => []PinnedInv
  BY RunInvAlways, PinnedInvInit, PinnedInvStep, PTL DEF Spec

(* Nobody fails or evicts a dependency that the container of a run has     *)
(* mounted: whatever the managers on the file system do, in any order, of  *)
(* any number of runs and dependencies, and also when one of them crashes  *)
(* and starts again.                                                       *)
THEOREM AlwaysDependencyPinned == Spec => []DependencyPinned
<1>1. PinnedInv => DependencyPinned
  BY DEF PinnedInv
<1>2. QED
  BY <1>1, PinnedInvAlways, PTL

-----------------------------------------------------------------------------
(* A pass leaves what another manager downloads, and takes its own         *)
(* download from the request to the answer.                                *)
LEMMA TransitionOrderly ==
    ASSUME DepTypeOK, DownloadInv, NEW m \in Managers, NEW d \in Deps, ~ThreadMissing(m, d)
    PROVE  LET e == Transition(m, d)[1]
               t == Transition(m, d)[2]
           IN  \/ e = dep[d] /\ t = thread[m][d]
               \/ /\ dep[d].stage = "downloading" /\ dep[d].by \in {None, m}
                  /\ e.stage \in {"downloading", "ready", "failed"}
                  /\ ~e.stale /\ e.by \in {None, m} /\ ~t.stale
                  /\ e.stage = "ready" => thread[m][d].pc = "ok"
                  /\ t.pc # "none" => e.stage = "downloading" /\ e.by = m
                  /\ t.pc \in {"storing", "ok"} => t.pc = thread[m][d].pc
<1> DEFINE e == dep[d]
           t == ThreadFor(e, thread[m][d])
<1> USE NoneAssumption, DiskAssumption
<1>1. /\ e \in Entry /\ thread[m][d] \in Thread /\ t \in Thread
      /\ ~e.stale /\ e.by # "gone"
      /\ thread[m][d].pc # "none" => e.stage = "downloading" /\ e.by = m /\ ~thread[m][d].stale
  BY ThreadForType DEF DepTypeOK, DownloadInv
<1>2. CASE e.stage # "downloading" \/ (~Starts(e) /\ e.by # m)
  <2>1. Transition(m, d) = <<e, thread[m][d]>>
    BY <1>2 DEF Transition
  <2>2. QED
    BY <2>1
<1>3. CASE e.stage = "downloading" /\ (Starts(e) \/ e.by = m)
  <2>1. t.pc \in {"storing", "ok"} => t.pc = thread[m][d].pc
    BY <1>1 DEF ThreadFor, Thread
  <2>2. e.by \in {None, m}
    BY <1>1, <1>3 DEF Starts
  <2>3. t.stale = FALSE
    <3>1. CASE Starts(e)
      BY <1>1, <3>1 DEF ThreadFor, Entry
    <3>2. CASE ~Starts(e)
      <4>1. t = thread[m][d] /\ t.pc # "none"
        BY <1>3, <3>2 DEF ThreadFor, ThreadMissing
      <4>2. QED
        BY <1>1, <4>1 DEF Thread
    <3>3. QED
      BY <3>1, <3>2
  <2>4. CASE Alive(t)
    <3> DEFINE f == [[e EXCEPT !.by = m] EXCEPT !.stale = t.stale]
    <3>1. f.stage = "downloading" /\ f.by = m /\ f.stale = FALSE
      BY <1>1, <1>3, <2>3 DEF Entry
    <3>2. Transition(m, d) = <<f, t>>
      BY <1>3, <2>4 DEF Transition, Alive
    <3> HIDE DEF f, t
    <3>3. QED
      BY <1>3, <2>1, <2>2, <2>3, <3>1, <3>2
  <2>5. CASE t.pc = "ok"
    <3> DEFINE f == [e EXCEPT !.by = None, !.stage = "ready"]
    <3>1. f.stage = "ready" /\ f.by = None /\ f.stale = FALSE
      BY <1>1 DEF Entry
    <3>2. Transition(m, d) = <<f, NoThread>>
      BY <1>3, <2>5 DEF Transition, Alive
    <3> HIDE DEF f, t
    <3>3. QED
      BY <1>3, <2>1, <2>2, <2>5, <3>1, <3>2 DEF NoThread
  <2>6. CASE t.pc = "failed"
    <3> DEFINE f == [e EXCEPT !.by = None, !.stage = "failed"]
    <3>1. f.stage = "failed" /\ f.by = None /\ f.stale = FALSE
      BY <1>1 DEF Entry
    <3>2. Transition(m, d) = <<f, NoThread>>
      BY <1>3, <2>6 DEF Transition, Alive
    <3> HIDE DEF f, t
    <3>3. QED
      BY <1>3, <2>2, <3>1, <3>2 DEF NoThread
  <2>7. t.pc \in {"requested", "storing", "ok", "failed"}
    BY <1>1, <1>3 DEF ThreadFor, ThreadMissing, Thread
  <2>8. QED
    BY <2>4, <2>5, <2>6, <2>7 DEF Alive
<1>4. QED
  BY <1>2, <1>3

(* As long as no thread is slow and no process ends, whoever writes on the *)
(* disk of a dependency owns its entry.                                    *)
LEMMA DownloadStep ==
    ASSUME TypeOK, ThreadInv, OneCrash, DownloadInv, Orderly', [Next]_vars
    PROVE  DownloadInv'
<1> USE NoneAssumption, DiskAssumption
<1>1. "stall" \notin happened' /\ "crash" \notin happened'
  BY DEF Orderly
<1>2. CASE UNCHANGED <<dep, disk, thread>>
  BY <1>2 DEF DownloadInv
<1>3. ASSUME NEW r \in Runs, NEW keys, dep' = Get(r, keys), UNCHANGED <<disk, thread>>
      PROVE  DownloadInv'
  <2>1. ASSUME NEW d \in Deps
        PROVE  /\ ~dep'[d].stale /\ dep'[d].by # "gone"
               /\ dep'[d].stage = "ready" => dep[d].stage = "ready"
               /\ dep[d].stage = "downloading" =>
                    dep'[d].stage = "downloading" /\ dep'[d].by = dep[d].by
    <3>1. dep[d] \in Entry /\ ~dep[d].stale /\ dep[d].by # "gone"
      BY DEF TypeOK, DepTypeOK, DownloadInv
    <3>2. dep'[d] = dep[d] \/ dep'[d] = GetEntry(dep[d], r)
      BY <1>3 DEF Get
    <3>3. CASE dep[d].stage = "absent" /\ dep'[d] = GetEntry(dep[d], r)
      BY <3>3 DEF GetEntry, Absent
    <3>4. CASE dep[d].stage # "absent" /\ dep'[d] = GetEntry(dep[d], r)
      BY <3>1, <3>4 DEF GetEntry, Entry
    <3>5. QED
      BY <3>1, <3>2, <3>3, <3>4
  <2>2. QED
    BY <1>3, <2>1 DEF DownloadInv
<1>4. ASSUME NEW r \in Runs, CleanUp(r) PROVE DownloadInv'
  <2>1. ASSUME NEW d \in Deps
        PROVE  dep'[d].stage = dep[d].stage /\ dep'[d].by = dep[d].by /\ dep'[d].stale = dep[d].stale
    <3>1. dep[d] \in Entry
      BY DEF TypeOK, DepTypeOK
    <3>2. dep'[d] = dep[d] \/ dep'[d] = ReleaseEntry(dep[d], r)
      BY <1>4 DEF CleanUp, Release
    <3>3. ReleaseEntry(dep[d], r).stale = dep[d].stale
      BY <3>1 DEF ReleaseEntry, Entry
    <3>4. QED
      BY <3>1, <3>2, <3>3, ReleaseEntryKeeps
  <2>2. QED
    BY <1>4, <2>1 DEF CleanUp, DownloadInv
<1>5. ASSUME NEW m \in Managers, TransitionDependencies(m) PROVE DownloadInv'
  <2> SUFFICES ASSUME NEW d \in Deps
               PROVE  /\ ~dep'[d].stale /\ dep'[d].by # "gone"
                      /\ dep'[d].stage = "ready" => disk'[d] = "complete"
                      /\ \A n \in Managers : thread'[n][d].pc # "none" =>
                           /\ dep'[d].stage = "downloading" /\ dep'[d].by = n
                           /\ ~thread'[n][d].stale
                           /\ thread'[n][d].pc = "storing" => disk'[d] = n
                           /\ thread'[n][d].pc = "ok" => disk'[d] = "complete"
    BY DEF DownloadInv
  <2> DEFINE e == Transition(m, d)[1]
             t == Transition(m, d)[2]
  <2>1. /\ dep'[d] = e /\ thread'[m][d] = t /\ disk' = disk
        /\ \A n \in Managers \ {m} : thread'[n] = thread[n]
    BY <1>5 DEF TransitionDependencies, TypeOK, DepTypeOK
  <2>2. \/ e = dep[d] /\ t = thread[m][d]
        \/ /\ dep[d].stage = "downloading" /\ dep[d].by \in {None, m}
           /\ e.stage \in {"downloading", "ready", "failed"}
           /\ ~e.stale /\ e.by \in {None, m} /\ ~t.stale
           /\ e.stage = "ready" => thread[m][d].pc = "ok"
           /\ t.pc # "none" => e.stage = "downloading" /\ e.by = m
           /\ t.pc \in {"storing", "ok"} => t.pc = thread[m][d].pc
    BY <1>5, TransitionOrderly DEF TransitionDependencies, TypeOK
  <2> HIDE DEF e, t
  <2>3. CASE e = dep[d] /\ t = thread[m][d]
    BY <2>1, <2>3 DEF DownloadInv
  <2>4. CASE ~(e = dep[d] /\ t = thread[m][d])
    <3>1. \A n \in Managers \ {m} : thread'[n][d].pc = "none"
      BY <2>1, <2>2, <2>4 DEF DownloadInv
    <3>2. ~e.stale /\ e.by # "gone" /\ (e.stage = "ready" => disk[d] = "complete")
      BY <2>2, <2>4 DEF DownloadInv
    <3>3. t.pc # "none" => /\ e.stage = "downloading" /\ e.by = m
                           /\ ~t.stale
                           /\ t.pc = "storing" => disk[d] = m
                           /\ t.pc = "ok" => disk[d] = "complete"
      BY <2>2, <2>4 DEF DownloadInv
    <3>4. QED
      BY <2>1, <3>1, <3>2, <3>3
  <2>5. QED
    BY <2>3, <2>4
<1>6. ASSUME NEW m \in Managers, NEW d \in Deps, PruneFailed(m, d) \/ Evict(m, d) PROVE DownloadInv'
  <2>1. dep[d].stage # "downloading" /\ dep' = [dep EXCEPT ![d] = Absent] /\ UNCHANGED <<disk, thread>>
    BY <1>6 DEF PruneFailed, Evict
  <2>2. QED
    BY <2>1 DEF DownloadInv, Absent, TypeOK, DepTypeOK
<1>7. ASSUME NEW m \in Managers, NEW d \in Deps, Stall(m, d) PROVE FALSE
  BY <1>1, <1>7 DEF Stall, Disturb
<1>8. ASSUME NEW m \in Managers, NEW d \in Deps, DownloadThread(m, d) PROVE DownloadInv'
  <2>1. thread[m][d] \in Thread /\ dep' = dep
    BY <1>8 DEF DownloadThread, Store, Read, DownloadEnds, AttemptFails, TypeOK, DepTypeOK
  <2>2. /\ thread[m][d].pc # "none" /\ dep[d].stage = "downloading" /\ dep[d].by = m
        /\ ~thread[m][d].stale
    BY <1>8
       DEF DownloadThread, Store, Read, DownloadEnds, AttemptFails, Alive, DownloadInv
  <2>3. \A n \in Managers \ {m} : thread[n][d].pc = "none"
    BY <2>2 DEF DownloadInv
  <2>4. ASSUME NEW t \in Thread, SetThread(m, d, t), t.stale = FALSE,
               \A x \in Deps \ {d} : disk'[x] = disk[x],
               t.pc = "storing" => disk'[d] = m,
               t.pc = "ok" => disk'[d] = "complete"
        PROVE  DownloadInv'
    <3>1. /\ thread'[m][d] = t
          /\ \A n \in Managers, x \in Deps : n # m \/ x # d => thread'[n][x] = thread[n][x]
      BY <2>4 DEF SetThread, TypeOK, DepTypeOK
    <3>2. ASSUME NEW x \in Deps \ {d} 
          PROVE  dep'[x] = dep[x] /\ disk'[x] = disk[x] /\ \A n \in Managers : thread'[n][x] = thread[n][x]
      BY <2>1, <2>4, <3>1, <3>2
    <3>3. /\ \A n \in Managers \ {m} : thread'[n][d].pc = "none"
          /\ thread'[m][d].pc # "none" =>
               /\ dep'[d].stage = "downloading" /\ dep'[d].by = m
               /\ ~thread'[m][d].stale
               /\ thread'[m][d].pc = "storing" => disk'[d] = m
               /\ thread'[m][d].pc = "ok" => disk'[d] = "complete"
          /\ dep'[d].stage # "ready" /\ ~dep'[d].stale /\ dep'[d].by # "gone"
      BY <2>1, <2>2, <2>3, <2>4, <3>1 DEF DownloadInv
    <3>4. QED
      BY <3>2, <3>3 DEF DownloadInv
  <2>5. CASE Store(m, d)
    <3> DEFINE t == [thread[m][d] EXCEPT !.pc = "storing"]
    <3>1. t \in Thread /\ t.stale = FALSE /\ t.pc = "storing"
      BY <2>1, <2>2 DEF Thread
    <3>2. SetThread(m, d, t) /\ disk' = [disk EXCEPT ![d] = m]
      BY <2>5 DEF Store
    <3> HIDE DEF t
    <3>3. QED
      BY <2>4, <3>1, <3>2 DEF TypeOK, DepTypeOK
  <2>6. CASE Read(m, d)
    BY <2>2, <2>6 DEF Read
  <2>7. CASE DownloadEnds(m, d)
    <3> DEFINE t == [thread[m][d] EXCEPT !.pc = "ok", !.stale = FALSE]
    <3>1. t \in Thread /\ t.stale = FALSE /\ t.pc = "ok"
      BY <2>1, <2>2 DEF Thread
    <3>2. SetThread(m, d, t) /\ disk[d] = m /\ disk' = [disk EXCEPT ![d] = IF @ = m THEN "complete" ELSE @]
      BY <2>7 DEF DownloadEnds, DownloadInv
    <3> HIDE DEF t
    <3>3. QED
      BY <2>4, <3>1, <3>2 DEF TypeOK, DepTypeOK
  <2>8. CASE AttemptFails(m, d)
    <3>1. PICK pc \in {"requested", "failed"} : SetThread(m, d, [thread[m][d] EXCEPT !.pc = pc])
      BY <2>8 DEF AttemptFails
    <3> DEFINE t == [thread[m][d] EXCEPT !.pc = pc]
    <3>2. t \in Thread /\ t.stale = FALSE /\ t.pc = pc
      BY <2>1, <2>2 DEF Thread
    <3>3. SetThread(m, d, t) /\ disk' = disk
      BY <2>8, <3>1 DEF AttemptFails
    <3> HIDE DEF t
    <3>4. QED
      BY <2>4, <3>2, <3>3
  <2>9. QED
    BY <1>8, <2>5, <2>6, <2>7, <2>8 DEF DownloadThread
<1>9. ASSUME NEW d \in Deps, Expire(d) PROVE FALSE
  BY <1>9 DEF Expire, DownloadInv
<1>10. ASSUME NEW m \in Managers, Crash(m) PROVE FALSE
  BY <1>1, <1>10 DEF Crash, Disturb
<1>11. ASSUME NEW m \in Managers, Start(m) PROVE FALSE
  <2>1. "crash" \notin happened /\ m \notin alive
    BY <1>1, <1>11 DEF Start
  <2>2. QED
    BY <2>1 DEF OneCrash
<1>12. QED
  BY <1>2, <1>3, <1>4, <1>5, <1>6, <1>7, <1>8, <1>9, <1>10, <1>11, DependencyStep

LEMMA OrderlyInvAlways == Spec => []OrderlyInv
<1>1. Init => OrderlyInv
  <2>1. \A d \in Deps, m \in Managers : Init => thread[m][d].pc = "none"
    BY DEF Init, DepInit, NoThread
  <2>2. QED
    BY <2>1, DiskAssumption DEF Init, DepInit, OrderlyInv, DownloadInv, Absent
<1>2. RunInv /\ PinnedInv /\ OrderlyInv /\ [Next]_vars => OrderlyInv'
  <2> SUFFICES ASSUME RunInv, PinnedInv, OrderlyInv, [Next]_vars, Orderly' PROVE DownloadInv'
    BY DEF OrderlyInv
  <2>1. Orderly
    BY HappenedGrows DEF Orderly
  <2>2. QED
    BY <2>1, DownloadStep DEF RunInv, PinnedInv, OrderlyInv
<1>3. QED
  BY <1>1, <1>2, RunInvAlways, PinnedInvAlways, PTL DEF Spec

(* What a container has mounted is complete: nobody writes on it any more, *)
(* as long as no download was taken over from a thread that still wrote.   *)
THEOREM AlwaysContentComplete == Spec => []ContentComplete
<1>1. ASSUME RunInv, PinnedInv, OrderlyInv PROVE ContentComplete
  <2> SUFFICES ASSUME Orderly, NEW r \in Runs, container[r] = "running", NEW d \in Needs[r]
               PROVE  disk[d] = "complete"
    BY DEF ContentComplete, Orderly
  <2>1. Remembered
    BY DEF Orderly, Remembered
  <2>2. run[r].stage = "running"
    BY <1>1, <2>1 DEF RunInv, ContainerKnown
  <2>3. d \in Deps /\ dep[d].stage = "ready"
    BY <1>1, <2>2, NeedsAssumption DEF PinnedInv, DependencyPinned
  <2>4. QED
    BY <1>1, <2>3 DEF OrderlyInv, DownloadInv
<1>2. QED
  BY <1>1, RunInvAlways, PinnedInvAlways, OrderlyInvAlways, PTL
=============================================================================
