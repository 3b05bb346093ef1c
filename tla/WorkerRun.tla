------------------------------ MODULE WorkerRun ------------------------------
(***************************************************************************)
(* The run state machine of a worker (codalab/worker/worker_run_state.py)  *)
(* with what its transitions rest on: the dependency manager, the image    *)
(* manager (image_manager.py), the container runtime and the state file.   *)
(* process_runs takes every run through one transition at a time.          *)
(***************************************************************************)
EXTENDS DependencyManager

CONSTANTS
    Home,        \* the worker of each run
    Needs,       \* the dependencies of each run
    Cpus         \* runs a worker has CPUs for

ASSUME HomeAssumption == Home \in [Runs -> Managers]
ASSUME NeedsAssumption == Needs \in [Runs -> SUBSET Deps]
ASSUME CpusAssumption == Cpus \in Nat
ASSUME RunsAssumption == IsFiniteSet(Runs)

VARIABLES
    run,        \* Worker.runs: the RunState of a run; of a dead worker, its file
    container,  \* the container named after the run
    links,      \* runs whose directory has the symlinks to the dependencies
    uploading,  \* RunStateMachine.uploading: the upload thread of a run
    pull,       \* ImageManager._downloading of a worker, for one image
    images      \* workers whose host has the image

runVars == <<run, container, links, uploading, pull, images>>
vars == <<depVars, alive, happened, runVars>>

Stage == {"none", "preparing", "running", "cleaning_up", "uploading", "finalizing",
          "finished", "restaged"}
Failure == {"none", "dependency", "image", "mount", "start", "command", "upload"}
RunState == [stage : Stage, killed : BOOLEAN, restaged : BOOLEAN, finalized : BOOLEAN,
             container_id : BOOLEAN, has_contents : BOOLEAN, failure : Failure]

NoRun == [stage |-> "none", killed |-> FALSE, restaged |-> FALSE, finalized |-> FALSE,
          container_id |-> FALSE, has_contents |-> FALSE, failure |-> "none"]
NewRun == [NoRun EXCEPT !.stage = "preparing"]

(* The worker has the run no more or not yet. *)
Gone == {"none", "finished"}

TypeOK ==
    /\ DepTypeOK
    /\ run \in [Runs -> RunState]
    /\ container \in [Runs -> {"absent", "running", "exited"}]
    /\ links \subseteq Runs
    /\ uploading \in [Runs -> {"none", "alive", "ok", "failed"}]
    /\ pull \in [Managers -> {"none", "alive", "ok", "failed"}]
    /\ images \subseteq Managers

Init ==
    /\ DepInit
    /\ run = [r \in Runs |-> NoRun]
    /\ container = [r \in Runs |-> "absent"]
    /\ links = {}
    /\ uploading = [r \in Runs |-> "none"]
    /\ pull = [m \in Managers |-> "none"]
    /\ images = {}

Loop(r) == Home[r] \in alive

Set(r, state) == run' = [run EXCEPT ![r] = state]

-----------------------------------------------------------------------------
(* Messages: initialize_run, kill, mark_finalized; restage_bundles        *)

(* A worker that restages its runs drops what is sent to it. *)
Listens(m) ==
    /\ m \in alive
    /\ \A r \in Runs : Home[r] = m => ~run[r].restaged

(* start_bundle said yes.  A run comes once; a second message replaces the *)
(* RunState the worker has.                                                *)
InitializeRun(r) ==
    /\ Listens(Home[r])
    /\ \/ run[r].stage = "none" /\ UNCHANGED happened
       \/ run[r].stage # "none" /\ Disturb("duplicate")
    /\ Set(r, NewRun)
    /\ UNCHANGED <<depVars, alive, container, links, uploading, pull, images>>

Kill(r) ==
    /\ Listens(Home[r])
    /\ run[r].stage \notin Gone
    /\ Disturb("kill")
    /\ Set(r, [run[r] EXCEPT !.killed = TRUE])
    /\ UNCHANGED <<depVars, alive, container, links, uploading, pull, images>>

(* check_termination marks the runs that are not restaged yet. *)
RestageBundles(m) ==
    /\ Listens(m)
    /\ Disturb("restage")
    /\ run' = [r \in Runs |->
                IF Home[r] = m /\ run[r].stage \notin Gone
                  THEN [run[r] EXCEPT !.restaged = TRUE] ELSE run[r]]
    /\ UNCHANGED <<depVars, alive, container, links, uploading, pull, images>>

MarkFinalized(r) ==
    /\ Listens(Home[r])
    /\ run[r].stage = "finalizing" /\ ~run[r].finalized
    /\ Set(r, [run[r] EXCEPT !.finalized = TRUE])
    /\ UNCHANGED <<depVars, alive, happened, container, links, uploading, pull, images>>

-----------------------------------------------------------------------------
(* ImageManager.get and its pull thread                                    *)

ImageState(m) ==
    CASE pull[m] \in {"none", "alive"} -> "downloading"
      [] pull[m] \notin {"none", "alive"} /\ m \in images -> "ready"
      [] OTHER -> "failed"

(* A finished thread is forgotten with its answer, so that the next get    *)
(* pulls again.                                                            *)
GetImage(m) == pull' = [pull EXCEPT ![m] = IF @ \in {"none", "alive"} THEN "alive" ELSE "none"]

(* Mutant: the thread leaves the stage of the image as its result. *)
PullEndsReady(m) ==
    /\ pull[m] = "alive"
    /\ \/ /\ pull' = [pull EXCEPT ![m] = "ready"]
          /\ images' = images \union {m}
          /\ UNCHANGED happened
       \/ /\ Disturb("pull")
          /\ pull' = [pull EXCEPT ![m] = "failed"]
          /\ UNCHANGED images
    /\ UNCHANGED <<depVars, alive, run, container, links, uploading>>

PullEnds(m) ==
    /\ pull[m] = "alive"
    /\ \/ /\ pull' = [pull EXCEPT ![m] = "ok"]
          /\ images' = images \union {m}
          /\ UNCHANGED happened
       \/ /\ Disturb("pull")
          /\ pull' = [pull EXCEPT ![m] = "failed"]
          /\ UNCHANGED images
    /\ UNCHANGED <<depVars, alive, run, container, links, uploading>>

(* DockerImageManager._cleanup; containers keep the image they use. *)
EvictImage(m) ==
    /\ m \in images
    /\ \A r \in Runs : Home[r] = m => container[r] = "absent"
    /\ Disturb("evict_image")
    /\ images' = images \ {m}
    /\ UNCHANGED <<depVars, alive, run, container, links, uploading, pull>>

-----------------------------------------------------------------------------
(* _transition_from_PREPARING                                              *)

Preparing(r) == Loop(r) /\ run[r].stage = "preparing"

Unwanted(r) == run[r].killed \/ run[r].restaged

AbandonPreparing(r) ==
    /\ Preparing(r)
    /\ Unwanted(r)
    /\ Set(r, [run[r] EXCEPT !.stage = "cleaning_up"])
    /\ UNCHANGED <<depVars, alive, happened, container, links, uploading, pull, images>>

(* Mutant: off by one. *)
CpuFreeInclusive(m) ==
    Cardinality({q \in Runs : Home[q] = m /\ run[q].stage = "running"}) <= Cpus

(* assign_cpu_and_gpu_sets counts the runs in RUNNING. *)
CpuFree(m) ==
    Cardinality({q \in Runs : Home[q] = m /\ run[q].stage = "running"}) < Cpus

Fail(r, why) == Set(r, [run[r] EXCEPT !.stage = "cleaning_up", !.failure = why])

(* The dependencies are asked for one after the other, up to one that has  *)
(* failed.                                                                 *)
Prepare(r) == Preparing(r) /\ ~Unwanted(r) /\ CpuFree(Home[r])

DependencyFailed(r) ==
    /\ Prepare(r)
    /\ \E d \in Needs[r] : dep[d].stage = "failed"
    /\ \E asked \in SUBSET Needs[r] : dep' = Get(r, asked)
    /\ Fail(r, "dependency")
    /\ UNCHANGED <<disk, thread, alive, happened, container, links, uploading, pull, images>>

GetAll(r) ==
    /\ Prepare(r)
    /\ \A d \in Needs[r] : dep[d].stage # "failed"
    /\ dep' = Get(r, Needs[r])
    /\ GetImage(Home[r])
    /\ UNCHANGED <<disk, thread, alive, uploading, images>>

AllReady(r) ==
    /\ \A d \in Needs[r] : dep[d].stage = "ready"
    /\ ImageState(Home[r]) = "ready"

ImageFailed(r) ==
    /\ GetAll(r)
    /\ ImageState(Home[r]) = "failed"
    /\ Fail(r, "image")
    /\ UNCHANGED <<happened, container, links>>

WaitForDownloads(r) ==
    /\ GetAll(r)
    /\ ImageState(Home[r]) # "failed"
    /\ ~AllReady(r)
    /\ UNCHANGED <<happened, run, container, links>>

(* os.symlink raises FileExistsError. *)
MountFails(r) ==
    /\ GetAll(r)
    /\ AllReady(r)
    /\ r \in links
    /\ Fail(r, "mount")
    /\ UNCHANGED <<happened, container, links>>

Mount(r) ==
    /\ GetAll(r)
    /\ AllReady(r)
    /\ r \notin links
    /\ links' = IF Needs[r] = {} THEN links ELSE links \union {r}

StartContainer(r) ==
    /\ Mount(r)
    /\ container[r] = "absent"
    /\ container' = [container EXCEPT ![r] = "running"]
    /\ Set(r, [run[r] EXCEPT !.stage = "running", !.container_id = TRUE, !.has_contents = TRUE])
    /\ UNCHANGED happened

(* A container of that name exists, or the runtime fails: what there is of *)
(* that name is removed and the exception ends process_runs, so that only  *)
(* the directory has changed.  A user error fails the run.                 *)
StartFails(r) ==
    /\ Mount(r)
    /\ container' = [container EXCEPT ![r] = "absent"]
    /\ \/ /\ container[r] # "absent"
          /\ UNCHANGED <<run, happened>>
       \/ /\ container[r] = "absent"
          /\ Disturb("start")
          /\ \/ Fail(r, "start")
             \/ UNCHANGED run

-----------------------------------------------------------------------------
(* RUNNING, CLEANING_UP, UPLOADING_RESULTS, FINALIZING                     *)

ContainerExits(r) ==
    /\ container[r] = "running"
    /\ container' = [container EXCEPT ![r] = "exited"]
    /\ UNCHANGED <<depVars, alive, happened, run, links, uploading, pull, images>>

(* check_finished; a container that is gone counts as a failure.  A        *)
(* restarted worker that did not find the container has no container_id,   *)
(* and check_finished raises.                                              *)
CheckRunning(r) == Loop(r) /\ run[r].stage = "running" /\ run[r].container_id

Outcomes(r) ==
    CASE container[r] = "running" -> {"none"}
      [] container[r] = "exited" -> {"none", "command"}
      [] container[r] = "absent" -> {"command"}

RunKilled(r) ==
    /\ CheckRunning(r)
    /\ \E f \in Outcomes(r) :
         \/ /\ Unwanted(r)
            /\ Set(r, [run[r] EXCEPT !.stage = "cleaning_up", !.failure = f])
            /\ UNCHANGED happened
         \/ /\ Disturb("limit")
            /\ Set(r, [run[r] EXCEPT !.stage = "cleaning_up", !.failure = f, !.killed = TRUE])
    /\ container' = [container EXCEPT ![r] = "absent"]
    /\ UNCHANGED <<depVars, alive, links, uploading, pull, images>>

RunFinished(r) ==
    /\ CheckRunning(r)
    /\ ~Unwanted(r)
    /\ container[r] # "running"
    /\ \E f \in Outcomes(r) :
         Set(r, [run[r] EXCEPT !.stage = "cleaning_up", !.failure = f])
    /\ UNCHANGED <<depVars, alive, happened, container, links, uploading, pull, images>>

AfterCleanup(r) ==
    IF run[r].restaged THEN "restaged"
    ELSE IF run[r].has_contents THEN "uploading" ELSE "finalizing"

(* Mutant: a run that did not run releases nothing. *)
CleanUpKeepsUnused(r) ==
    /\ Loop(r)
    /\ run[r].stage = "cleaning_up"
    /\ container' = IF run[r].container_id THEN [container EXCEPT ![r] = "absent"] ELSE container
    /\ dep' = IF run[r].has_contents THEN Release(r, Needs[r]) ELSE dep
    /\ links' = links \ {r}
    /\ Set(r, [run[r] EXCEPT !.stage = AfterCleanup(r), !.container_id = FALSE])
    /\ UNCHANGED <<disk, thread, alive, happened, uploading, pull, images>>

(* Kill and remove the container, release the dependencies, remove the     *)
(* links.                                                                  *)
CleanUp(r) ==
    /\ Loop(r)
    /\ run[r].stage = "cleaning_up"
    /\ container' = IF run[r].container_id THEN [container EXCEPT ![r] = "absent"] ELSE container
    /\ dep' = Release(r, Needs[r])
    /\ links' = links \ {r}
    /\ Set(r, [run[r] EXCEPT !.stage = AfterCleanup(r), !.container_id = FALSE])
    /\ UNCHANGED <<disk, thread, alive, happened, uploading, pull, images>>

Restaged(r) ==
    /\ Loop(r)
    /\ run[r].stage \in {"uploading", "finalizing"}
    /\ run[r].restaged
    /\ Set(r, [run[r] EXCEPT !.stage = "restaged"])
    /\ UNCHANGED <<depVars, alive, happened, container, links, uploading, pull, images>>

StartUpload(r) ==
    /\ Loop(r)
    /\ run[r].stage = "uploading" /\ ~run[r].restaged
    /\ uploading[r] = "none"
    /\ uploading' = [uploading EXCEPT ![r] = "alive"]
    /\ UNCHANGED <<depVars, alive, happened, run, container, links, pull, images>>

UploadEnds(r) ==
    /\ uploading[r] = "alive"
    /\ \/ uploading' = [uploading EXCEPT ![r] = "ok"] /\ UNCHANGED happened
       \/ uploading' = [uploading EXCEPT ![r] = "failed"] /\ Disturb("upload")
    /\ UNCHANGED <<depVars, alive, run, container, links, pull, images>>

FinishUpload(r) ==
    /\ Loop(r)
    /\ run[r].stage = "uploading" /\ ~run[r].restaged
    /\ uploading[r] \in {"ok", "failed"}
    /\ Set(r, [run[r] EXCEPT !.stage = "finalizing",
                             !.failure = IF uploading[r] = "failed" THEN "upload" ELSE @])
    /\ uploading' = [uploading EXCEPT ![r] = "none"]
    /\ UNCHANGED <<depVars, alive, happened, container, links, pull, images>>

(* The directory of the run goes; process_runs drops the run.              *)
Finish(r) ==
    /\ Loop(r)
    /\ run[r].stage = "finalizing" /\ ~run[r].restaged
    /\ run[r].finalized
    /\ links' = links \ {r}
    /\ Set(r, [NoRun EXCEPT !.stage = "finished"])
    /\ UNCHANGED <<depVars, alive, happened, container, uploading, pull, images>>

-----------------------------------------------------------------------------
(* The end of a process and the start of the next                          *)

(* What worker-state.json holds of a run in this state: it is written      *)
(* after every pass over the runs, so that it may lag behind by one        *)
(* transition and by the messages of one pass.                             *)
Before(state) ==
    CASE state.stage \in {"none", "preparing"} -> {NoRun}
      [] state.stage = "running" -> {NewRun}
      [] state.stage = "cleaning_up" ->
           IF state.has_contents THEN {[state EXCEPT !.stage = "running", !.failure = "none"]}
           ELSE {NewRun}
      [] state.stage = "uploading" ->
           {[state EXCEPT !.stage = "cleaning_up", !.container_id = TRUE]}
      [] state.stage = "finalizing" ->
           IF state.has_contents
             THEN {[state EXCEPT !.stage = "uploading", !.failure = f] :
                     f \in IF state.failure = "upload" THEN {"none", "command"}
                          ELSE {state.failure}}
             ELSE {[state EXCEPT !.stage = "cleaning_up"]}
      [] state.stage = "finished" ->
           {[NoRun EXCEPT !.stage = "finalizing", !.finalized = TRUE]}
      [] state.stage = "restaged" -> {[state EXCEPT !.stage = "cleaning_up"]}

WithMessages(s, state) ==
    UNION {{[s EXCEPT !.killed = k, !.finalized = f] : k \in {FALSE, state.killed}} :
             f \in {FALSE, state.finalized}}

InFile(state) == UNION {WithMessages(s, state) : s \in {state} \union Before(state)}

Crash(m) ==
    /\ m \in alive
    /\ Disturb("crash")
    /\ alive' = alive \ {m}
    /\ ManagerDies(m)
    /\ LET mine == {r \in Runs : Home[r] = m} IN
       \E file \in {g \in [mine -> UNION {InFile(run[r]) : r \in mine}] :
                       \A r \in mine : g[r] \in InFile(run[r])} :
         run' = [r \in Runs |-> IF r \in mine THEN file[r] ELSE run[r]]
    /\ uploading' = [r \in Runs |-> IF Home[r] = m THEN "none" ELSE uploading[r]]
    /\ pull' = [pull EXCEPT ![m] = "none"]
    /\ UNCHANGED <<container, links, images>>

(* load_state looks for the containers, DependencyManager.__init__ for the *)
(* directories.                                                            *)
Start(m) ==
    /\ m \notin alive
    /\ alive' = alive \union {m}
    /\ SyncState
    /\ run' = [r \in Runs |->
                IF Home[r] # m THEN run[r]
                ELSE [run[r] EXCEPT !.container_id = @ /\ container[r] # "absent"]]
    /\ UNCHANGED <<happened, container, links, uploading, pull, images>>

-----------------------------------------------------------------------------
Transitions(r) ==
    \/ AbandonPreparing(r) \/ DependencyFailed(r) \/ ImageFailed(r) \/ WaitForDownloads(r)
    \/ MountFails(r) \/ StartContainer(r) \/ StartFails(r)
    \/ RunKilled(r) \/ RunFinished(r) \/ CleanUp(r)
    \/ Restaged(r) \/ StartUpload(r) \/ FinishUpload(r) \/ Finish(r)

DownloadThread(m, d) == Store(m, d) \/ Read(m, d) \/ DownloadEnds(m, d) \/ AttemptFails(m, d)

ManagerStep(m) ==
    TransitionDependencies(m)
    \/ \E d \in Deps : PruneFailed(m, d) \/ Evict(m, d) \/ Stall(m, d) \/ DownloadThread(m, d)

Next ==
    \/ \E r \in Runs :
        \/ InitializeRun(r) \/ Kill(r) \/ MarkFinalized(r)
        \/ Transitions(r) \/ ContainerExits(r) \/ UploadEnds(r)
    \/ \E m \in Managers :
        \/ ManagerStep(m) /\ UNCHANGED runVars
        \/ RestageBundles(m) \/ PullEnds(m) \/ EvictImage(m) \/ Crash(m) \/ Start(m)
    \/ \E d \in Deps : Expire(d) /\ UNCHANGED runVars

Spec == Init /\ [][Next]_vars

(* The main loops of a worker and of its dependency manager, and their     *)
(* threads, go on as long as the process is up; a download and a command   *)
(* end; the server answers a report of FINALIZING.                         *)
FairSpec ==
    /\ Spec
    /\ \A r \in Runs :
        /\ WF_vars(Transitions(r))
        /\ WF_vars(MarkFinalized(r))
        /\ WF_vars(ContainerExits(r))
        /\ WF_vars(UploadEnds(r))
    /\ \A m \in Managers :
        /\ WF_vars(PullEnds(m))
        /\ WF_vars(TransitionDependencies(m) /\ UNCHANGED runVars)
        /\ \A d \in Deps :
            /\ WF_vars(PruneFailed(m, d) /\ UNCHANGED runVars)
            /\ WF_vars((Store(m, d) \/ DownloadEnds(m, d) \/ AttemptFails(m, d)) /\ UNCHANGED runVars)
    /\ \A d \in Deps : WF_vars(Expire(d) /\ UNCHANGED runVars)

-----------------------------------------------------------------------------
(* While the container of a run runs, nobody fails or evicts a dependency  *)
(* it has mounted, whatever other runs and workers do with the shared      *)
(* state of dependencies (dependency_manager.py:351, 441).  A worker       *)
(* restarts once at most here: each start deletes what others download     *)
(* and have no directory for, after two the entry may be lost.             *)
DependencyPinned ==
    \A r \in Runs : run[r].stage = "running" /\ container[r] = "running" =>
      \A d \in Needs[r] : dep[d].stage = "ready" /\ r \in dep[d].dependents

(* A container sees complete dependencies, unless a download was taken     *)
(* over while its first owner still wrote, as the first was slow or a      *)
(* worker restarted (dependency_manager.py:605, 191), or a second message  *)
(* made the worker forget the container.                                   *)
ContentComplete ==
    happened \intersect {"stall", "crash", "duplicate"} = {} =>
      \A r \in Runs : container[r] = "running" =>
        \A d \in Needs[r] : disk[d] = "complete"

(* CPUs are counted by the stage of the runs (worker.py:633): while        *)
(* containers run, their worker has CPUs for all of them, unless a crash   *)
(* or a second run message made it forget one.                             *)
CpuExclusive ==
    happened \intersect {"crash", "duplicate"} = {} =>
      \A m \in Managers :
        Cardinality({r \in Runs : Home[r] = m /\ container[r] = "running"}) <= Cpus

(* A run that is past CLEANING_UP, on whatever path it came there, pins no *)
(* dependency and has no container and no links left, a second message and *)
(* crashes aside (worker_run_state.py:606-641).                            *)
Past == {"uploading", "finalizing", "finished", "restaged"}

Released ==
    happened \intersect {"crash", "duplicate"} = {} =>
      \A r \in Runs : run[r].stage \in Past =>
        /\ \A d \in Deps : r \notin dep[d].dependents
        /\ container[r] = "absent"
        /\ r \notin links

(* A download that the state file gives to a manager has a thread there,   *)
(* or the KeyError would end every pass of its loop                        *)
(* (dependency_manager.py:654).                                            *)
ThreadKnown == \A m \in alive, d \in Deps : ~ThreadMissing(m, d)

(* A run ends, with or without success, as long as its worker stays up:    *)
(* whatever fails, and also if the worker that downloads its dependency    *)
(* dies (dependency_manager.py:605).                                       *)
RunsEnd ==
    \A r \in Runs :
      [](Home[r] \in alive) =>
        (run[r].stage = "preparing" ~> run[r].stage \in {"finished", "restaged"})
=============================================================================
