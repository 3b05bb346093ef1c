----------------------------- MODULE Scheduling -----------------------------
(***************************************************************************)
(* How the bundle manager chooses workers                                  *)
(* (codalab/server/bundle_manager.py:421-597): before it dispatches, it    *)
(* makes lists of workers, one per user and one of the workers CodaLab     *)
(* owns, with the resources that are left; it counts down in them and in   *)
(* the quota of parallel runs.  Meanwhile workers go and come back, runs   *)
(* end, and workers resume runs they had lost.  One resource stands for    *)
(* cpus, gpus and memory; any order of bundles and workers may be the one  *)
(* that priorities and sorting make.                                       *)
(***************************************************************************)
EXTENDS Integers, FiniteSets, FiniteSetsExt

CONSTANTS
    Users,
    Root,           \* the user who owns CodaLab's workers
    Hosts,          \* workers
    Owner,          \* Owner[h]: who runs the worker
    Members,        \* Members[h]: other users in its group
    Cpus,           \* Cpus[h]
    RunsOf,         \* RunsOf[a]: the runs of a user
    RequestCpus,    \* request_cpus of a run
    ParallelQuota,  \* parallel_run_quota of a user
    NoHost

ScheduledRuns == UNION {RunsOf[a] : a \in Users}
OwnerOf(r) == CHOOSE a \in Users : r \in RunsOf[a]

ASSUME RootAssumption == Root \notin Users
ASSUME HostsAssumption ==
    /\ NoHost \notin Hosts
    /\ Owner \in [Hosts -> Users \union {Root}]
    /\ Members \in [Hosts -> SUBSET Users]
    /\ Cpus \in [Hosts -> Nat]
ASSUME RunsAssumption ==
    /\ \A a, b \in Users : a # b => RunsOf[a] \intersect RunsOf[b] = {}
    /\ RequestCpus \in [ScheduledRuns -> Nat]
    /\ ParallelQuota \in [Users -> Nat]

(* They are rows of a table. *)
ASSUME FiniteRunsAssumption == IsFiniteSet(ScheduledRuns)

VARIABLES
    host,       \* worker_run: the worker of a run
    runState,   \* bundle.state, as far as it matters here
    alive,      \* rows of worker
    listedFor,  \* WorkerInfoAccessor._user_id_to_workers
    phase,      \* of _schedule_run_bundles_on_workers
    queue,      \* staged_bundles_to_run
    cpusLeft,   \* resource_deducted_user_workers and, under Root, .._codalab_owned_workers
    quotaLeft,  \* user_parallel_run_quota_left
    offline,    \* offline_workers
    trying,     \* the list and the worker of the run being started
    tried,      \* the run, and the workers that could not start it
    resumed     \* runs a worker has brought back by itself

schedVars == <<host, runState, alive, listedFor, phase, queue, cpusLeft, quotaLeft,
               offline, trying, tried, resumed>>
planVars == <<cpusLeft, quotaLeft>>

ListOwners == Users \union {Root}

SchedTypeOK ==
    /\ host \in [ScheduledRuns -> Hosts \union {NoHost}]
    /\ runState \in [ScheduledRuns -> {"staged", "active", "worker_offline", "done"}]
    /\ alive \subseteq Hosts
    /\ listedFor \in [ListOwners -> SUBSET Hosts]
    /\ phase \in {"idle", "plan", "dispatch", "send"}
    /\ queue \subseteq ScheduledRuns
    /\ DOMAIN cpusLeft = ListOwners
    /\ \A a \in ListOwners : cpusLeft[a] \in [DOMAIN cpusLeft[a] -> Int]
    /\ quotaLeft \in [Users -> Int]
    /\ offline \subseteq Hosts
    /\ trying \subseteq ScheduledRuns \X ListOwners \X Hosts
    /\ tried \subseteq ScheduledRuns \X Hosts
    /\ resumed \subseteq ScheduledRuns

NoList == [h \in {} |-> 0]

SchedInit ==
    /\ host = [r \in ScheduledRuns |-> NoHost]
    /\ runState = [r \in ScheduledRuns |-> "staged"]
    /\ alive = Hosts
    /\ listedFor = [a \in ListOwners |-> {}]
    /\ phase = "idle"
    /\ queue = {}
    /\ cpusLeft = [a \in ListOwners |-> NoList]
    /\ quotaLeft = [a \in Users |-> 0]
    /\ offline = {}
    /\ trying = {}
    /\ tried = {}
    /\ resumed = {}

RunsOn(h) == {r \in ScheduledRuns : host[r] = h}
CpusOf(rs) == MapThenSumSet(LAMBDA r : RequestCpus[r], rs)

-----------------------------------------------------------------------------
(* Workers and their runs *)

(* The rows of a worker and its claims go: it checks out, or ...           *)
RemoveRows(h) ==
    /\ h \in alive
    /\ alive' = alive \ {h}
    /\ host' = [r \in ScheduledRuns |-> IF host[r] = h THEN NoHost ELSE host[r]]
    /\ UNCHANGED <<runState, phase, queue, planVars, offline, trying, tried, resumed>>

CheckOut(h) == RemoveRows(h) /\ UNCHANGED listedFor

(* ... _cleanup_dead_workers finds it dead, before each bundle that is     *)
(* dispatched; remove takes it from the list of its owner only.            *)
CleanupDead(h) ==
    /\ phase = "dispatch" /\ queue # {}
    /\ RemoveRows(h)
    /\ listedFor' = [listedFor EXCEPT ![Owner[h]] = @ \ {h}]

CheckIn(h) ==
    /\ h \notin alive
    /\ alive' = alive \union {h}
    /\ UNCHANGED <<host, runState, listedFor, phase, queue, planVars, offline, trying, tried, resumed>>

Resume(r, h) ==
    /\ runState[r] = "worker_offline"
    /\ h \in alive
    /\ host' = [host EXCEPT ![r] = h]
    /\ runState' = [runState EXCEPT ![r] = "active"]
    /\ resumed' = resumed \union {r}
    /\ UNCHANGED <<alive, listedFor, phase, queue, planVars, offline, trying, tried>>

RunEnds(r) ==
    /\ host[r] # NoHost
    /\ \A t \in trying : t[1] # r
    /\ host' = [host EXCEPT ![r] = NoHost]
    /\ runState' = [runState EXCEPT ![r] = "done"]
    /\ resumed' = resumed \ {r}
    /\ UNCHANGED <<alive, listedFor, phase, queue, planVars, offline, trying, tried>>

(* The phases of the bundle manager before this one: a run nobody claims   *)
(* is staged again, or waits for its worker.                               *)
Unclaimed(r) ==
    /\ phase = "idle"
    /\ runState[r] = "active" /\ host[r] = NoHost
    /\ \E s \in {"staged", "worker_offline"} : runState' = [runState EXCEPT ![r] = s]
    /\ resumed' = resumed \ {r}
    /\ UNCHANGED <<host, alive, listedFor, phase, queue, planVars, offline, trying, tried>>

-----------------------------------------------------------------------------
(* The lists.  What is deducted is what WorkerInfoAccessor fetched.        *)

Fetched == [a \in ListOwners |-> {h \in alive : Owner[h] = a \/ a \in Members[h]}]

(* Mutant: the worker as it reports itself. *)
NotDeducted(hs) == [h \in hs |-> Cpus[h]]

(* _deduct_worker_resources: a copy of the list, less what is requested by *)
(* the runs of each worker. *)
Deducted(hs) == [h \in hs |-> Cpus[h] - CpusOf(RunsOn(h))]

FetchAndDeduct ==
    /\ phase = "idle"
    /\ listedFor' = Fetched
    /\ cpusLeft' = [a \in ListOwners |-> Deducted(Fetched[a])]
    /\ phase' = "plan"
    /\ UNCHANGED <<host, runState, alive, queue, quotaLeft, offline, trying, tried, resumed>>

(* The accessor's rows have become too old. *)
Refetch ==
    /\ phase = "dispatch"
    /\ listedFor' = Fetched
    /\ UNCHANGED <<host, runState, alive, phase, queue, planVars, offline, trying, tried, resumed>>

(* get_user_parallel_run_quota_left counts the runs on workers of others.  *)
ParallelRunQuotaLeft(a) ==
    ParallelQuota[a] - Cardinality({r \in RunsOf[a] : host[r] # NoHost /\ Owner[host[r]] # a})

BeginDispatch ==
    /\ phase = "plan"
    /\ queue' = {r \in ScheduledRuns : runState[r] = "staged"}
    /\ quotaLeft' = [a \in Users |-> ParallelRunQuotaLeft(a)]
    /\ phase' = "dispatch"
    /\ UNCHANGED <<host, runState, alive, listedFor, cpusLeft, offline, trying, tried, resumed>>

-----------------------------------------------------------------------------
(* The dispatch of one bundle after another *)

ListsOf(a) == IF quotaLeft[a] > 0 THEN {a, Root} ELSE {a}

Listed(a) == UNION {DOMAIN cpusLeft[l] : l \in ListsOf(a)}

NowOffline(a) ==
    IF tried # {} THEN offline
    ELSE offline \union (Listed(a) \ (listedFor[a] \union listedFor[Root]))

(* The bundle is dispatched to the end before the next one. *)
Current(r) == phase = "dispatch" /\ r \in queue /\ \A t \in tried : t[1] = r

(* _try_start_bundle: transition_bundle_starting wants the row of the      *)
(* worker.                                                                 *)
TryStart(r, l, h) ==
    /\ Current(r)
    /\ l \in ListsOf(OwnerOf(r))
    /\ h \in DOMAIN cpusLeft[l] \ NowOffline(OwnerOf(r))
    /\ <<r, h>> \notin tried
    /\ cpusLeft[l][h] >= RequestCpus[r]
    /\ h \in alive
    /\ host' = [host EXCEPT ![r] = h]
    /\ runState' = [runState EXCEPT ![r] = "active"]
    /\ offline' = NowOffline(OwnerOf(r))
    /\ trying' = {<<r, l, h>>}
    /\ phase' = "send"
    /\ UNCHANGED <<alive, listedFor, queue, planVars, tried, resumed>>

(* Mutant: counts down for workers of the user, not for CodaLab's. *)
SentOwn(r, l, h) ==
    /\ phase = "send" /\ trying = {<<r, l, h>>}
    /\ cpusLeft' = [cpusLeft EXCEPT ![l][h] = @ - RequestCpus[r]]
    /\ quotaLeft' = [quotaLeft EXCEPT ![OwnerOf(r)] = IF Owner[h] # Root THEN @ - 1 ELSE @]
    /\ queue' = queue \ {r}
    /\ phase' = "dispatch"
    /\ trying' = {} /\ tried' = {}
    /\ UNCHANGED <<host, runState, alive, listedFor, offline, resumed>>

(* Only the copy in this list is counted down. *)
Sent(r, l, h) ==
    /\ phase = "send" /\ trying = {<<r, l, h>>}
    /\ cpusLeft' = [cpusLeft EXCEPT ![l][h] = @ - RequestCpus[r]]
    /\ quotaLeft' = [quotaLeft EXCEPT ![OwnerOf(r)] = IF Owner[h] = Root THEN @ - 1 ELSE @]
    /\ queue' = queue \ {r}
    /\ phase' = "dispatch"
    /\ trying' = {} /\ tried' = {}
    /\ UNCHANGED <<host, runState, alive, listedFor, offline, resumed>>

(* transition_bundle_staged, and the next worker. *)
SendFails(r, l, h) ==
    /\ phase = "send" /\ trying = {<<r, l, h>>}
    /\ host' = [host EXCEPT ![r] = NoHost]
    /\ runState' = [runState EXCEPT ![r] = "staged"]
    /\ phase' = "dispatch"
    /\ trying' = {} /\ tried' = tried \union {<<r, h>>}
    /\ UNCHANGED <<alive, listedFor, queue, planVars, offline, resumed>>

(* No worker in the lists could start it. *)
Skip(r) ==
    /\ Current(r)
    /\ queue' = queue \ {r}
    /\ tried' = {}
    /\ offline' = NowOffline(OwnerOf(r))
    /\ UNCHANGED <<host, runState, alive, listedFor, phase, planVars, trying, resumed>>

(* The iteration is over, or an exception ends it: KeyErrors of the        *)
(* accessor among others.                                                  *)
EndSchedule ==
    /\ phase # "idle"
    /\ phase' = "idle"
    /\ queue' = {}
    /\ cpusLeft' = [a \in ListOwners |-> NoList]
    /\ quotaLeft' = [a \in Users |-> 0]
    /\ listedFor' = [a \in ListOwners |-> {}]
    /\ offline' = {} /\ trying' = {} /\ tried' = {}
    /\ UNCHANGED <<host, runState, alive, resumed>>

-----------------------------------------------------------------------------
SchedNext ==
    \/ FetchAndDeduct \/ Refetch \/ BeginDispatch \/ EndSchedule
    \/ \E h \in Hosts : CheckOut(h) \/ CleanupDead(h) \/ CheckIn(h)
    \/ \E r \in ScheduledRuns :
         \/ RunEnds(r) \/ Unclaimed(r) \/ Skip(r)
         \/ \E h \in Hosts :
              \/ Resume(r, h)
              \/ \E l \in ListOwners : TryStart(r, l, h) \/ Sent(r, l, h) \/ SendFails(r, l, h)

SchedSpec == SchedInit /\ [][SchedNext]_schedVars

-----------------------------------------------------------------------------
(* The runs the bundle manager has put on a worker request no more cpus    *)
(* than it has, if the worker is on one list only: a group has a copy of   *)
(* its workers for each of its members (bundle_manager.py:487).            *)
NoOverload ==
    \A h \in Hosts : Members[h] = {} => CpusOf(RunsOn(h) \ resumed) <= Cpus[h]

(* No user has more runs on CodaLab's workers than parallel_run_quota,     *)
(* except those that workers resumed by themselves, and those on workers   *)
(* that CodaLab shares with a group of the user: they are on the list of   *)
(* the user as well, which is tried when the quota is used up              *)
(* (bundle_manager.py:511).                                                *)
ParallelRunsLimited ==
    \A a \in Users :
        Cardinality({r \in RunsOf[a] \ resumed :
                        host[r] # NoHost /\ Owner[host[r]] = Root /\ a \notin Members[host[r]]})
          <= ParallelQuota[a]
=============================================================================
