-------------------------- MODULE DependencyManager --------------------------
(***************************************************************************)
(* The dependencies a worker downloads for its runs                        *)
(* (codalab/worker/dependency_manager.py).  Worker processes on one file   *)
(* system share the directory of dependencies and dependencies-state.json; *)
(* every use of that file is under an NFS lock, so each is one step.  Each *)
(* process has its manager, with an id of its own, and its download        *)
(* threads; a thread looks at its own copy of the state only.              *)
(***************************************************************************)
EXTENDS Naturals, FiniteSets

CONSTANTS
    Managers,    \* worker processes that share the directory
    Runs,
    Deps,        \* dependency keys
    None,
    CacheSize,   \* dependencies the cache holds before it cleans up
    Faults,      \* kinds of disturbances that may happen
    MaxFaults    \* how many different kinds in one behaviour

ASSUME NoneAssumption == None \notin Managers /\ "gone" \notin Managers
(* What is on the disk of a dependency is no process, nor is None. *)
ASSUME DiskAssumption == {"absent", "complete", "leftover"} \intersect Managers = {} /\ None # "gone"
ASSUME CacheAssumption == CacheSize \in Nat /\ MaxFaults \in Nat

VARIABLES
    dep,       \* dependencies-state.json: the DependencyState of each key
    disk,      \* the directory of a dependency, and who writes in it
    thread,    \* DependencyManager._downloading of each process
    alive,     \* processes that are up
    happened   \* kinds of disturbances there have been

depVars == <<dep, disk, thread>>

(* "gone" is the id of a manager whose process ended: the next process of  *)
(* the same worker has another id.  stale: nothing has been downloaded for *)
(* DEPENDENCY_DOWNLOAD_TIMEOUT_SECONDS.                                    *)
Entry == [stage : {"absent", "downloading", "ready", "failed"},
          by : Managers \union {None, "gone"},
          dependents : SUBSET Runs, killed : BOOLEAN, stale : BOOLEAN]

(* killed and stale are those of the thread's copy, _downloading['state']. *)
Thread == [pc : {"none", "requested", "storing", "ok", "failed"},
           killed : BOOLEAN, stale : BOOLEAN]

Absent == [stage |-> "absent", by |-> None, dependents |-> {},
           killed |-> FALSE, stale |-> FALSE]
NoThread == [pc |-> "none", killed |-> FALSE, stale |-> FALSE]

DepTypeOK ==
    /\ dep \in [Deps -> Entry]
    /\ disk \in [Deps -> {"absent", "complete", "leftover"} \union Managers]
    /\ thread \in [Managers -> [Deps -> Thread]]
    /\ alive \subseteq Managers
    /\ happened \subseteq Faults

DepInit ==
    /\ dep = [d \in Deps |-> Absent]
    /\ disk = [d \in Deps |-> "absent"]
    /\ thread = [m \in Managers |-> [d \in Deps |-> NoThread]]
    /\ alive = Managers
    /\ happened = {}

Disturb(kind) ==
    /\ kind \in Faults \ happened
    /\ Cardinality(happened) < MaxFaults
    /\ happened' = happened \union {kind}

-----------------------------------------------------------------------------
(* get and release, called by the runs *)

GetEntry(e, r) ==
    CASE e.stage = "absent" -> [Absent EXCEPT !.stage = "downloading", !.dependents = {r}]
      [] e.stage = "failed" -> e
      [] OTHER -> [e EXCEPT !.dependents = @ \union {r}]

Get(r, keys) ==
    [d \in Deps |-> IF d \in keys THEN GetEntry(dep[d], r) ELSE dep[d]]

(* killed is set when the last dependent leaves, and never reset. *)
ReleaseEntry(e, r) ==
    LET rest == e.dependents \ {r} IN
      IF e.stage = "absent" THEN e
      ELSE [e EXCEPT !.dependents = rest, !.killed = @ \/ rest = {}]

Release(r, keys) ==
    [d \in Deps |-> IF d \in keys THEN ReleaseEntry(dep[d], r) ELSE dep[d]]

-----------------------------------------------------------------------------
(* _transition_dependencies: one pass of the main loop over all entries    *)

Alive(t) == t.pc \in {"requested", "storing"}

(* Mutants: every manager downloads; nobody takes a download over. *)
StartsAlways(e) == TRUE
StartsOnlyNew(e) == e.by = None

Starts(e) == e.by = None \/ e.stale

(* add_if_new, and the copy of the state for the thread. *)
ThreadFor(e, t) ==
    IF ~Starts(e) THEN t
    ELSE [pc |-> IF t.pc = "none" THEN "requested" ELSE t.pc,
          killed |-> e.killed, stale |-> e.stale]

(* Mutant: a failed download is tried again, and downloading_by kept. *)
TransitionRetries(m, d) ==
    LET e == dep[d]
        t == ThreadFor(e, thread[m][d])
        mine == [e EXCEPT !.by = m]
    IN  CASE e.stage # "downloading" -> <<e, thread[m][d]>>
          [] ~Starts(e) /\ e.by # m -> <<e, thread[m][d]>>
          [] OTHER ->
               CASE Alive(t) -> <<[mine EXCEPT !.stale = t.stale], t>>
                 [] t.pc = "ok" -> <<[e EXCEPT !.by = None, !.stage = "ready"], NoThread>>
                 [] t.pc = "failed" ->
                      <<e, NoThread>>

Transition(m, d) ==
    LET e == dep[d]
        t == ThreadFor(e, thread[m][d])
        mine == [e EXCEPT !.by = m]
    IN  CASE e.stage # "downloading" -> <<e, thread[m][d]>>
          [] ~Starts(e) /\ e.by # m -> <<e, thread[m][d]>>
          [] OTHER ->
               CASE Alive(t) -> <<[mine EXCEPT !.stale = t.stale], t>>
                 [] t.pc = "ok" -> <<[e EXCEPT !.by = None, !.stage = "ready"], NoThread>>
                 [] t.pc = "failed" ->
                      <<[e EXCEPT !.by = None, !.stage = "failed"], NoThread>>

(* Without an entry in _downloading the KeyError would end the pass. *)
ThreadMissing(m, d) ==
    dep[d].stage = "downloading" /\ dep[d].by = m /\ thread[m][d].pc = "none"

TransitionDependencies(m) ==
    /\ m \in alive
    /\ \A d \in Deps : ~ThreadMissing(m, d)
    /\ dep' = [d \in Deps |-> Transition(m, d)[1]]
    /\ thread' = [thread EXCEPT ![m] = [d \in Deps |-> Transition(m, d)[2]]]
    /\ UNCHANGED <<disk, alive, happened>>

(* _cleanup: failed dependencies after a cooldown, then, above the limit,  *)
(* failed and unused ones.  _delete_dependency removes the path relative   *)
(* to the working directory of the process: the contents stay.             *)
PruneFailed(m, d) ==
    /\ m \in alive
    /\ dep[d].stage = "failed"
    /\ dep' = [dep EXCEPT ![d] = Absent]
    /\ UNCHANGED <<disk, thread, alive, happened>>

(* Mutant: evicts what runs have mounted. *)
EvictPinned(m, d) ==
    /\ m \in alive
    /\ Cardinality({x \in Deps : dep[x].stage # "absent"}) > CacheSize
    /\ dep[d].stage = "ready"
    /\ \A x \in Deps : dep[x].stage # "failed"
    /\ dep' = [dep EXCEPT ![d] = Absent]
    /\ UNCHANGED <<disk, thread, alive, happened>>

Evict(m, d) ==
    /\ m \in alive
    /\ Cardinality({x \in Deps : dep[x].stage # "absent"}) > CacheSize
    /\ dep[d].stage = "ready"
    /\ dep[d].dependents = {}
    /\ \A x \in Deps : dep[x].stage # "failed"
    /\ dep' = [dep EXCEPT ![d] = Absent]
    /\ UNCHANGED <<disk, thread, alive, happened>>

-----------------------------------------------------------------------------
(* download(), a thread of manager m for key d                             *)

SetThread(m, d, t) == thread' = [thread EXCEPT ![m][d] = t]

(* _store_dependency overwrites what is there. *)
Store(m, d) ==
    /\ thread[m][d].pc = "requested"
    /\ SetThread(m, d, [thread[m][d] EXCEPT !.pc = "storing"])
    /\ disk' = [disk EXCEPT ![d] = m]
    /\ UNCHANGED <<dep, alive, happened>>

(* update_state_and_check_killed, for a thread that had not read for long  *)
Read(m, d) ==
    /\ thread[m][d].pc = "storing"
    /\ ~thread[m][d].killed
    /\ thread[m][d].stale
    /\ SetThread(m, d, [thread[m][d] EXCEPT !.stale = FALSE])
    /\ UNCHANGED <<dep, disk, alive, happened>>

(* What is on the disk is complete if nobody else overwrote it meanwhile. *)
DownloadEnds(m, d) ==
    /\ thread[m][d].pc = "storing"
    /\ ~thread[m][d].killed
    /\ SetThread(m, d, [thread[m][d] EXCEPT !.pc = "ok", !.stale = FALSE])
    /\ disk' = [disk EXCEPT ![d] = IF @ = m THEN "complete" ELSE @]
    /\ UNCHANGED <<dep, alive, happened>>

(* An attempt fails, as the copy says killed or by itself; after           *)
(* max_retries attempts the thread gives up.                               *)
AttemptFails(m, d) ==
    /\ disk' = disk /\ dep' = dep /\ alive' = alive
    /\ \/ /\ thread[m][d].pc = "storing"
          /\ thread[m][d].killed
          /\ SetThread(m, d, [thread[m][d] EXCEPT !.pc = "failed"])
          /\ UNCHANGED happened
       \/ /\ Alive(thread[m][d])
          /\ Disturb("download")
          /\ \E pc \in {"requested", "failed"} :
               SetThread(m, d, [thread[m][d] EXCEPT !.pc = pc])

(* Five minutes without a byte: the owner of the download has died, or, as *)
(* a disturbance, its thread is slow.                                      *)
Expire(d) ==
    /\ dep[d].stage = "downloading" /\ ~dep[d].stale
    /\ dep[d].by = "gone"
    /\ dep' = [dep EXCEPT ![d].stale = TRUE]
    /\ UNCHANGED <<disk, thread, alive, happened>>

Stall(m, d) ==
    /\ Alive(thread[m][d]) /\ dep[d].by = m
    /\ Disturb("stall")
    /\ dep' = [dep EXCEPT ![d].stale = TRUE]
    /\ SetThread(m, d, [thread[m][d] EXCEPT !.stale = TRUE])
    /\ UNCHANGED <<disk, alive>>

-----------------------------------------------------------------------------
(* The end of a process, and __init__ of the next: _sync_state keeps the   *)
(* entries that have a directory and the directories that have an entry.   *)

ManagerDies(m) ==
    /\ dep' = [d \in Deps |-> IF dep[d].by = m THEN [dep[d] EXCEPT !.by = "gone"] ELSE dep[d]]
    /\ disk' = [d \in Deps |-> IF disk[d] = m THEN "leftover" ELSE disk[d]]
    /\ thread' = [thread EXCEPT ![m] = [d \in Deps |-> NoThread]]

SyncState ==
    LET kept == {d \in Deps : dep[d].stage \in {"downloading", "ready"} /\ disk[d] # "absent"}
    IN  /\ dep' = [d \in Deps |-> IF d \in kept THEN dep[d] ELSE Absent]
        /\ disk' = [d \in Deps |-> IF d \in kept THEN disk[d] ELSE "absent"]
        /\ UNCHANGED thread
=============================================================================
