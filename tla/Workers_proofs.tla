---------------------------- MODULE Workers_proofs ----------------------------
(***************************************************************************)
(* Proofs about what the server does to reach workers and to have enough   *)
(* of them and not too many runs on one: the choice of workers             *)
(* (Scheduling), for any number of workers, users, groups and runs; the    *)
(* websocket server (WsServer), for any number of connections, handlers    *)
(* and calls; a worker manager (WorkerManager), for any number of jobs,    *)
(* failures of commands and restarts.                                      *)
(***************************************************************************)
EXTENDS Scheduling, WsServer, WorkerManager, Sums

-----------------------------------------------------------------------------
(* The choice of workers *)

-----------------------------------------------------------------------------
(* Sums and numbers of runs *)

(* The cpus of the runs that are on a worker, those in a set left out.     *)
Load(where, out, h) == SumOver(RequestCpus, {r \in ScheduledRuns : where[r] = h} \ out)

(* It is a number. *)
LEMMA LoadFacts ==
    ASSUME NEW where, NEW out, NEW h
    PROVE  /\ Load(where, out, h) \in Nat
           /\ \A S \in SUBSET ScheduledRuns : IsFiniteSet(S) /\ \A r \in S : RequestCpus[r] \in Nat
<1>1. \A S \in SUBSET ScheduledRuns : IsFiniteSet(S) /\ \A r \in S : RequestCpus[r] \in Nat
  BY FiniteRunsAssumption, RunsAssumption, FS_Subset
<1>2. QED
  BY <1>1, SumSubset DEF Load

(* The load is no more if no run comes, *)
LEMMA LoadShrinks ==
    ASSUME NEW where, NEW out, NEW then, NEW thenOut, NEW h,
           \A r \in ScheduledRuns : then[r] = h /\ r \notin thenOut => where[r] = h /\ r \notin out
    PROVE  Load(then, thenOut, h) <= Load(where, out, h)
<1> DEFINE S == {r \in ScheduledRuns : where[r] = h} \ out
           T == {r \in ScheduledRuns : then[r] = h} \ thenOut
<1>1. T \in SUBSET S /\ S \in SUBSET ScheduledRuns
  OBVIOUS
<1> HIDE DEF S, T
<1>2. SumOver(RequestCpus, T) <= SumOver(RequestCpus, S)
  BY <1>1, LoadFacts, SumSubset
<1>3. QED
  BY <1>2 DEF Load, S, T

(* and at most one run more if only that one comes. *)
LEMMA LoadGrows ==
    ASSUME NEW where, NEW out, NEW then, NEW thenOut, NEW h, NEW q \in ScheduledRuns,
           \A r \in ScheduledRuns \ {q} : then[r] = h /\ r \notin thenOut => where[r] = h /\ r \notin out
    PROVE  Load(then, thenOut, h) <= Load(where, out, h) + RequestCpus[q]
<1> DEFINE S == {r \in ScheduledRuns : where[r] = h} \ out
           T == {r \in ScheduledRuns : then[r] = h} \ thenOut
<1>1. T \ {q} \in SUBSET S /\ S \in SUBSET ScheduledRuns /\ T \in SUBSET ScheduledRuns
  OBVIOUS
<1>2. Load(where, out, h) = SumOver(RequestCpus, S) /\ Load(then, thenOut, h) = SumOver(RequestCpus, T)
  BY DEF Load
<1> HIDE DEF S, T
<1>3. /\ IsFiniteSet(S) /\ IsFiniteSet(T) /\ IsFiniteSet(T \ {q})
      /\ \A r \in S : RequestCpus[r] \in Nat
      /\ \A r \in T : RequestCpus[r] \in Nat
      /\ RequestCpus[q] \in Nat
  <2>1. T \ {q} \in SUBSET ScheduledRuns /\ {q} \in SUBSET ScheduledRuns
    BY <1>1
  <2>2. QED
    BY <1>1, <2>1, LoadFacts
<1>4. SumOver(RequestCpus, T \ {q}) <= SumOver(RequestCpus, S) /\ SumOver(RequestCpus, S) \in Nat
      /\ SumOver(RequestCpus, T \ {q}) \in Nat
  <2>1. \A r \in T \ {q} : RequestCpus[r] \in Nat
    BY <1>3
  <2>2. QED
    BY <1>1, <1>3, <2>1, SumSubset
<1>5. CASE q \in T
  <2>1. \A r \in T : RequestCpus[r] \in Int
    BY <1>3
  <2>2. SumOver(RequestCpus, T) = RequestCpus[q] + SumOver(RequestCpus, T \ {q})
    BY <1>3, <1>5, <2>1, SumRemove
  <2>3. QED
    BY <1>2, <1>3, <1>4, <2>2
<1>6. CASE q \notin T
  <2>1. T \ {q} = T
    BY <1>6
  <2>2. QED
    BY <1>2, <1>3, <1>4, <2>1
<1>7. QED
  BY <1>5, <1>6

(* A user's runs that count in the quota of parallel runs.                 *)
Counting(where, out, a) ==
    {r \in RunsOf[a] \ out :
        where[r] # NoHost /\ Owner[where[r]] = Root /\ a \notin Members[where[r]]}

(* The runs of a user are finitely many. *)
LEMMA RunsOfFacts ==
    ASSUME NEW a \in Users
    PROVE  /\ RunsOf[a] \in SUBSET ScheduledRuns
           /\ \A S \in SUBSET RunsOf[a] : IsFiniteSet(S) /\ Cardinality(S) \in Nat
<1>1. RunsOf[a] \in SUBSET ScheduledRuns
  BY DEF ScheduledRuns
<1>2. \A S \in SUBSET RunsOf[a] : S \in SUBSET ScheduledRuns
  BY <1>1
<1>3. QED
  BY <1>1, <1>2, FiniteRunsAssumption, FS_Subset, FS_CardinalityType

(* Fewer runs count less, *)
LEMMA CountShrinks ==
    ASSUME NEW a \in Users, NEW S \in SUBSET RunsOf[a], NEW T \in SUBSET S
    PROVE  Cardinality(T) <= Cardinality(S) /\ Cardinality(S) \in Nat /\ Cardinality(T) \in Nat
<1>1. IsFiniteSet(S) /\ T \in SUBSET RunsOf[a] /\ Cardinality(S) \in Nat
  BY RunsOfFacts
<1>2. QED
  BY <1>1, RunsOfFacts, FS_Subset

(* and one more run counts one more. *)
LEMMA CountGrows ==
    ASSUME NEW a \in Users, NEW S \in SUBSET RunsOf[a], NEW q \in RunsOf[a],
           NEW T \in SUBSET (S \union {q})
    PROVE  Cardinality(T) <= Cardinality(S) + 1 /\ Cardinality(S) \in Nat /\ Cardinality(T) \in Nat
<1>1. S \union {q} \in SUBSET RunsOf[a] /\ IsFiniteSet(S) /\ Cardinality(S) \in Nat
  BY RunsOfFacts
<1>2. Cardinality(S \union {q}) <= Cardinality(S) + 1 /\ Cardinality(S \union {q}) \in Nat
  BY <1>1, RunsOfFacts, FS_AddElement
<1>3. Cardinality(T) <= Cardinality(S \union {q}) /\ Cardinality(T) \in Nat
  BY <1>1, CountShrinks
<1>4. QED
  BY <1>1, <1>2, <1>3

(* A run has one owner. *)
LEMMA OwnerOfRun ==
    ASSUME NEW r \in ScheduledRuns
    PROVE  /\ OwnerOf(r) \in Users /\ r \in RunsOf[OwnerOf(r)]
           /\ \A a \in Users : r \in RunsOf[a] => a = OwnerOf(r)
<1>1. \E a \in Users : r \in RunsOf[a]
  BY DEF ScheduledRuns
<1>2. OwnerOf(r) \in Users /\ r \in RunsOf[OwnerOf(r)]
  BY <1>1 DEF OwnerOf
<1>3. QED
  BY <1>2, RunsAssumption

-----------------------------------------------------------------------------
(* Types *)

(* The types at the start. *)
LEMMA SchedTypeInit == SchedInit => SchedTypeOK
<1> SUFFICES ASSUME SchedInit PROVE SchedTypeOK
  OBVIOUS
<1> USE DEF SchedInit
<1>1. host \in [ScheduledRuns -> Hosts \union {NoHost}]
      /\ runState \in [ScheduledRuns -> {"staged", "active", "worker_offline", "done"}]
  OBVIOUS
<1>2. alive \subseteq Hosts /\ listedFor \in [ListOwners -> SUBSET Hosts]
      /\ phase \in {"idle", "plan", "dispatch", "send"} /\ queue \subseteq ScheduledRuns
  OBVIOUS
<1>3. DOMAIN cpusLeft = ListOwners /\ \A a \in ListOwners : cpusLeft[a] \in [DOMAIN cpusLeft[a] -> Int]
  <2>1. DOMAIN NoList = {} /\ NoList \in [{} -> Int]
    BY DEF NoList
  <2>2. QED
    BY <2>1
<1>4. quotaLeft \in [Users -> Int]
  OBVIOUS
<1>5. offline \subseteq Hosts /\ trying \subseteq ScheduledRuns \X ListOwners \X Hosts
      /\ tried \subseteq ScheduledRuns \X Hosts /\ resumed \subseteq ScheduledRuns
  OBVIOUS
<1>6. QED
  BY <1>1, <1>2, <1>3, <1>4, <1>5 DEF SchedTypeOK

(* What is left in a list after a run has been sent to one of its workers. *)
LEMMA CountedDown ==
    ASSUME SchedTypeOK, NEW l \in ListOwners, NEW h, NEW n \in Int,
           h \in DOMAIN cpusLeft[l], cpusLeft' = [cpusLeft EXCEPT ![l][h] = @ - n]
    PROVE  /\ DOMAIN cpusLeft' = ListOwners
           /\ \A a \in ListOwners : /\ DOMAIN cpusLeft'[a] = DOMAIN cpusLeft[a]
                                    /\ cpusLeft'[a] \in [DOMAIN cpusLeft'[a] -> Int]
           /\ cpusLeft[l][h] \in Int /\ cpusLeft'[l][h] = cpusLeft[l][h] - n
           /\ \A a \in ListOwners : \A g \in DOMAIN cpusLeft[a] :
                  <<a, g>> # <<l, h>> => cpusLeft'[a][g] = cpusLeft[a][g]
<1>1. DOMAIN cpusLeft = ListOwners /\ \A a \in ListOwners : cpusLeft[a] \in [DOMAIN cpusLeft[a] -> Int]
  BY DEF SchedTypeOK
<1>2. DOMAIN cpusLeft' = ListOwners /\ cpusLeft'[l] = [cpusLeft[l] EXCEPT ![h] = @ - n]
      /\ \A a \in ListOwners \ {l} : cpusLeft'[a] = cpusLeft[a]
  BY <1>1
<1>3. cpusLeft[l][h] \in Int /\ cpusLeft[l][h] - n \in Int
  BY <1>1
<1>4. /\ DOMAIN cpusLeft'[l] = DOMAIN cpusLeft[l] /\ cpusLeft'[l] \in [DOMAIN cpusLeft[l] -> Int]
      /\ cpusLeft'[l][h] = cpusLeft[l][h] - n
      /\ \A g \in DOMAIN cpusLeft[l] \ {h} : cpusLeft'[l][g] = cpusLeft[l][g]
  BY <1>1, <1>2, <1>3
<1>5. QED
  BY <1>1, <1>2, <1>3, <1>4

(* Workers are on the lists of their owners and of the members of their    *)
(* groups.                                                                 *)
Listing ==
    \A l \in ListOwners : \A h \in DOMAIN cpusLeft[l] : h \in Hosts /\ (Owner[h] = l \/ l \in Members[h])

(* A run that is being sent is on its way to a worker of a list.           *)
Sending ==
    /\ phase # "send" => trying = {}
    /\ \A t \in trying :
         /\ trying = {t}
         /\ runState[t[1]] = "active" /\ host[t[1]] \in {t[3], NoHost}
         /\ t[3] \in DOMAIN cpusLeft[t[2]] /\ cpusLeft[t[2]][t[3]] >= RequestCpus[t[1]]

(* Every step keeps the types. *)
LEMMA SchedTypeNext ==
    ASSUME SchedTypeOK, Listing, Sending, SchedNext
    PROVE  SchedTypeOK'
<1> DEFINE ListsOK == DOMAIN cpusLeft = ListOwners
                      /\ \A a \in ListOwners : cpusLeft[a] \in [DOMAIN cpusLeft[a] -> Int]
<1>1. UNCHANGED cpusLeft => ListsOK'
  BY DEF SchedTypeOK
<1>2. Fetched \in [ListOwners -> SUBSET Hosts]
  BY DEF Fetched, SchedTypeOK
<1>3. ASSUME NEW h \in Hosts, RemoveRows(h), listedFor' \in [ListOwners -> SUBSET Hosts] PROVE SchedTypeOK'
  <2>1. host' \in [ScheduledRuns -> Hosts \union {NoHost}] /\ alive' \subseteq Hosts /\ UNCHANGED cpusLeft
    BY <1>3 DEF RemoveRows, SchedTypeOK, planVars
  <2>2. QED
    BY <1>1, <1>3, <2>1 DEF RemoveRows, SchedTypeOK, planVars
<1>4. CASE FetchAndDeduct
  <2>1. ListsOK'
    <3>1. DOMAIN cpusLeft' = ListOwners /\ \A a \in ListOwners : cpusLeft'[a] = Deducted(Fetched[a])
      BY <1>4 DEF FetchAndDeduct
    <3>2. \A hs \in SUBSET Hosts : Deducted(hs) \in [hs -> Int] /\ DOMAIN Deducted(hs) = hs
      <4> SUFFICES ASSUME NEW hs \in SUBSET Hosts, NEW h \in hs PROVE Cpus[h] - CpusOf(RunsOn(h)) \in Int
        BY DEF Deducted
      <4>1. RunsOn(h) \in SUBSET ScheduledRuns
        BY DEF RunsOn
      <4>2. SumOver(RequestCpus, RunsOn(h)) \in Nat
        BY <4>1, LoadFacts, SumSubset
      <4>3. Cpus[h] \in Nat
        BY HostsAssumption
      <4>4. QED
        BY <4>2, <4>3 DEF CpusOf, SumOver
    <3>3. QED
      BY <1>2, <3>1, <3>2
  <2>2. QED
    BY <1>2, <1>4, <2>1 DEF FetchAndDeduct, SchedTypeOK
<1>5. CASE Refetch
  BY <1>1, <1>2, <1>5 DEF Refetch, SchedTypeOK, planVars
<1>6. CASE BeginDispatch
  <2>1. \A a \in Users : ParallelRunQuotaLeft(a) \in Int
    <3> SUFFICES ASSUME NEW a \in Users PROVE ParallelRunQuotaLeft(a) \in Int
      OBVIOUS
    <3>1. {r \in RunsOf[a] : host[r] # NoHost /\ Owner[host[r]] # a} \in SUBSET RunsOf[a]
      OBVIOUS
    <3>2. ParallelQuota[a] \in Nat
      BY RunsAssumption
    <3>3. QED
      BY <3>1, <3>2, RunsOfFacts DEF ParallelRunQuotaLeft
  <2>2. quotaLeft' \in [Users -> Int]
    BY <1>6, <2>1 DEF BeginDispatch
  <2>3. QED
    BY <1>1, <1>6, <2>2 DEF BeginDispatch, SchedTypeOK
<1>7. CASE EndSchedule
  <2>1. ListsOK'
    <3>1. DOMAIN NoList = {} /\ NoList \in [{} -> Int]
      BY DEF NoList
    <3>2. QED
      BY <1>7, <3>1 DEF EndSchedule
  <2>2. QED
    BY <1>7, <2>1 DEF EndSchedule, SchedTypeOK
<1>8. ASSUME NEW h \in Hosts, CheckOut(h) PROVE SchedTypeOK'
  BY <1>3, <1>8 DEF CheckOut, SchedTypeOK
<1>9. ASSUME NEW h \in Hosts, CleanupDead(h) PROVE SchedTypeOK'
  <2>1. listedFor' \in [ListOwners -> SUBSET Hosts]
    BY <1>9 DEF CleanupDead, SchedTypeOK
  <2>2. QED
    BY <1>3, <1>9, <2>1 DEF CleanupDead
<1>10. ASSUME NEW h \in Hosts, CheckIn(h) PROVE SchedTypeOK'
  BY <1>1, <1>10 DEF CheckIn, SchedTypeOK, planVars
<1>11. ASSUME NEW r \in ScheduledRuns, NEW h \in Hosts, Resume(r, h) PROVE SchedTypeOK'
  BY <1>1, <1>11 DEF Resume, SchedTypeOK, planVars
<1>12. ASSUME NEW r \in ScheduledRuns, RunEnds(r) PROVE SchedTypeOK'
  BY <1>1, <1>12 DEF RunEnds, SchedTypeOK, planVars
<1>13. ASSUME NEW r \in ScheduledRuns, Unclaimed(r) PROVE SchedTypeOK'
  BY <1>1, <1>13 DEF Unclaimed, SchedTypeOK, planVars
<1>14. ASSUME Listing PROVE \A r \in ScheduledRuns : NowOffline(OwnerOf(r)) \subseteq Hosts
  BY <1>14, OwnerOfRun DEF NowOffline, Listed, ListsOf, Listing, ListOwners, SchedTypeOK
<1>15. ASSUME NEW r \in ScheduledRuns, Skip(r) PROVE SchedTypeOK'
  BY <1>1, <1>14, <1>15 DEF Skip, SchedTypeOK, planVars
<1>16. ASSUME NEW r \in ScheduledRuns, NEW l \in ListOwners, NEW h \in Hosts, TryStart(r, l, h)
       PROVE  SchedTypeOK'
  BY <1>1, <1>14, <1>16 DEF TryStart, SchedTypeOK, planVars
<1>17. ASSUME NEW r \in ScheduledRuns, NEW l \in ListOwners, NEW h \in Hosts, Sent(r, l, h)
       PROVE  SchedTypeOK'
  <2>1. h \in DOMAIN cpusLeft[l] /\ RequestCpus[r] \in Int
    BY <1>17, RunsAssumption DEF Sent, Sending
  <2>2. cpusLeft' = [cpusLeft EXCEPT ![l][h] = @ - RequestCpus[r]]
    BY <1>17 DEF Sent
  <2>3. ListsOK'
    BY <2>1, <2>2, CountedDown
  <2>4. quotaLeft' \in [Users -> Int]
    BY <1>17, OwnerOfRun DEF Sent, SchedTypeOK
  <2>5. QED
    BY <1>17, <2>3, <2>4 DEF Sent, SchedTypeOK
<1>18. ASSUME NEW r \in ScheduledRuns, NEW l \in ListOwners, NEW h \in Hosts, SendFails(r, l, h)
       PROVE  SchedTypeOK'
  BY <1>1, <1>18 DEF SendFails, SchedTypeOK, planVars
<1>19. QED
  BY <1>4, <1>5, <1>6, <1>7, <1>8, <1>9, <1>10, <1>11, <1>12, <1>13, <1>15, <1>16, <1>17, <1>18
     DEF SchedNext

-----------------------------------------------------------------------------
(* The inductive invariant *)

(* The runs whose message is on its way. *)
BeingSent == {t[1] : t \in trying}

(* What a list has left of a worker is there beside all that has been put  *)
(* on it before, if no other list has it too.                              *)
Room ==
    \A h \in Hosts : Members[h] = {} =>
        \A l \in ListOwners : h \in DOMAIN cpusLeft[l] =>
            cpusLeft[l][h] + Load(host, resumed \union BeingSent, h) <= Cpus[h]

(* What is left of the quota is there beside the runs that count. *)
QuotaRoom ==
    phase \in {"dispatch", "send"} =>
        \A a \in Users :
            quotaLeft[a] + Cardinality(Counting(host, resumed \union BeingSent, a)) <= ParallelQuota[a]

(* NoOverload, with the load as a sum over the table of runs. *)
NotOverloaded == \A h \in Hosts : Members[h] = {} => Load(host, resumed, h) <= Cpus[h]
(* ParallelRunsLimited, in the same words. *)
WithinQuota == \A a \in Users : Cardinality(Counting(host, resumed, a)) <= ParallelQuota[a]

SchedInv ==
    SchedTypeOK /\ Listing /\ Sending /\ Room /\ QuotaRoom /\ NotOverloaded /\ WithinQuota

(* The numbers in the lists. *)
LEMMA CpusTyped ==
    ASSUME SchedTypeOK
    PROVE  /\ \A l \in ListOwners : \A h \in DOMAIN cpusLeft[l] : cpusLeft[l][h] \in Int
           /\ \A h \in Hosts : Cpus[h] \in Nat
           /\ \A a \in Users : quotaLeft[a] \in Int /\ ParallelQuota[a] \in Nat
           /\ \A r \in ScheduledRuns : RequestCpus[r] \in Nat
BY HostsAssumption, RunsAssumption DEF SchedTypeOK

(* Room after a step, in words that have no primes inside. *)
LEMMA RoomThen ==
    ASSUME \A h \in Hosts : Members[h] = {} =>
               \A l \in ListOwners : h \in DOMAIN cpusLeft'[l] =>
                   cpusLeft'[l][h] + Load(host', resumed' \union BeingSent', h) <= Cpus[h]
    PROVE  Room'
BY DEF Room, Load, SumOver, MapThenSumSet, MapThenFoldSet

(* The same of NotOverloaded. *)
LEMMA NotOverloadedThen ==
    ASSUME \A h \in Hosts : Members[h] = {} => Load(host', resumed', h) <= Cpus[h]
    PROVE  NotOverloaded'
BY DEF NotOverloaded, Load, SumOver, MapThenSumSet, MapThenFoldSet

(* A step that gives no run to a worker that did not have it, except runs  *)
(* that are resumed.                                                       *)
NobodyGains ==
    \A r \in ScheduledRuns :
        r \notin resumed' /\ host'[r] # NoHost => r \notin resumed /\ host'[r] = host[r]

(* After such a step nothing is more than before. *)
LEMMA NobodyGainsLess ==
    ASSUME SchedTypeOK, NobodyGains
    PROVE  /\ \A h \in Hosts : Load(host', resumed', h) <= Load(host, resumed, h)
           /\ \A a \in Users : Counting(host', resumed', a) \subseteq Counting(host, resumed, a)
<1>1. \A r \in ScheduledRuns : r \notin resumed' /\ host'[r] # NoHost => r \notin resumed /\ host[r] = host'[r]
  BY DEF NobodyGains
<1>2. ASSUME NEW h \in Hosts PROVE Load(host', resumed', h) <= Load(host, resumed, h)
  <2>1. \A r \in ScheduledRuns : host'[r] = h /\ r \notin resumed' => host[r] = h /\ r \notin resumed
    BY <1>1, HostsAssumption
  <2>2. QED
    BY <2>1, LoadShrinks
<1>3. ASSUME NEW a \in Users PROVE Counting(host', resumed', a) \subseteq Counting(host, resumed, a)
  BY <1>1, RunsOfFacts DEF Counting
<1>4. QED
  BY <1>2, <1>3

(* So the limits hold on. *)
LEMMA LimitsHold ==
    ASSUME SchedInv, NobodyGains
    PROVE  NotOverloaded' /\ WithinQuota'
<1>1. ASSUME NEW h \in Hosts, Members[h] = {} PROVE Load(host', resumed', h) <= Cpus[h]
  <2>1. /\ Load(host', resumed', h) <= Load(host, resumed, h) /\ Load(host, resumed, h) <= Cpus[h]
        /\ Load(host', resumed', h) \in Nat /\ Load(host, resumed, h) \in Nat /\ Cpus[h] \in Nat
    BY <1>1, NobodyGainsLess, LoadFacts, HostsAssumption DEF SchedInv, NotOverloaded
  <2>2. QED
    BY <2>1
<1>2. ASSUME NEW a \in Users PROVE Cardinality(Counting(host', resumed', a)) <= ParallelQuota[a]
  <2>1. Counting(host, resumed, a) \in SUBSET RunsOf[a]
    BY DEF Counting
  <2>2. Counting(host', resumed', a) \in SUBSET Counting(host, resumed, a)
    BY NobodyGainsLess DEF SchedInv
  <2>3. /\ Cardinality(Counting(host', resumed', a)) <= Cardinality(Counting(host, resumed, a))
        /\ Cardinality(Counting(host', resumed', a)) \in Nat /\ Cardinality(Counting(host, resumed, a)) \in Nat
    BY <2>1, <2>2, CountShrinks
  <2>4. Cardinality(Counting(host, resumed, a)) <= ParallelQuota[a] /\ ParallelQuota[a] \in Nat
    BY RunsAssumption DEF SchedInv, WithinQuota
  <2>5. QED
    BY <2>3, <2>4
<1>3. NotOverloaded'
  BY <1>1, NotOverloadedThen
<1>4. WithinQuota'
  BY <1>2 DEF WithinQuota, Counting
<1>5. QED
  BY <1>3, <1>4

(* The same for what is left, if that does not change.                     *)
LEMMA RoomHolds ==
    ASSUME SchedInv, NobodyGains, UNCHANGED <<cpusLeft, quotaLeft>>,
           BeingSent \subseteq BeingSent' \union {r \in ScheduledRuns : host'[r] = NoHost},
           phase' \in {"dispatch", "send"} => phase \in {"dispatch", "send"}
    PROVE  Room' /\ QuotaRoom'
<1> DEFINE out == resumed \union BeingSent
           outThen == resumed' \union BeingSent'
<1>1. \A r \in ScheduledRuns :
          host'[r] # NoHost /\ r \notin outThen => host[r] = host'[r] /\ r \notin out
  BY DEF NobodyGains
<1> HIDE DEF out, outThen
<1>2. ASSUME NEW h \in Hosts, Members[h] = {}, NEW l \in ListOwners, h \in DOMAIN cpusLeft[l]
      PROVE  cpusLeft[l][h] + Load(host', outThen, h) <= Cpus[h]
  <2>1. \A r \in ScheduledRuns : host'[r] = h /\ r \notin outThen => host[r] = h /\ r \notin out
    BY <1>1, HostsAssumption
  <2>2. Load(host', outThen, h) <= Load(host, out, h)
        /\ Load(host', outThen, h) \in Nat /\ Load(host, out, h) \in Nat
    BY <2>1, LoadShrinks, LoadFacts
  <2>3. cpusLeft[l][h] + Load(host, out, h) <= Cpus[h] /\ cpusLeft[l][h] \in Int /\ Cpus[h] \in Nat
    BY <1>2, CpusTyped DEF SchedInv, Room, out
  <2>4. QED
    BY <2>2, <2>3
<1>3. ASSUME phase' \in {"dispatch", "send"}, NEW a \in Users
      PROVE  quotaLeft[a] + Cardinality(Counting(host', outThen, a)) <= ParallelQuota[a]
  <2>1. Counting(host, out, a) \in SUBSET RunsOf[a]
    BY DEF Counting
  <2>2. Counting(host', outThen, a) \in SUBSET Counting(host, out, a)
    BY <1>1, RunsOfFacts DEF Counting
  <2>3. /\ Cardinality(Counting(host', outThen, a)) <= Cardinality(Counting(host, out, a))
        /\ Cardinality(Counting(host', outThen, a)) \in Nat /\ Cardinality(Counting(host, out, a)) \in Nat
    BY <2>1, <2>2, CountShrinks
  <2>4. quotaLeft[a] + Cardinality(Counting(host, out, a)) <= ParallelQuota[a]
        /\ ParallelQuota[a] \in Nat /\ quotaLeft[a] \in Int
    BY <1>3, CpusTyped DEF SchedInv, QuotaRoom, out
  <2>5. QED
    BY <2>3, <2>4
<1>4. Room'
  BY <1>2, RoomThen DEF outThen
<1>5. QuotaRoom'
  BY <1>3 DEF QuotaRoom, outThen, Counting
<1>6. QED
  BY <1>4, <1>5

-----------------------------------------------------------------------------
(* The steps *)

(* Workers that go and come, runs that end and runs that are resumed.      *)
LEMMA ElsewhereKeeps ==
    ASSUME SchedInv, SchedTypeOK',
           \/ \E h \in Hosts : CheckOut(h) \/ CleanupDead(h) \/ CheckIn(h)
           \/ \E r \in ScheduledRuns :
                RunEnds(r) \/ Unclaimed(r) \/ Skip(r) \/ \E h \in Hosts : Resume(r, h)
           \/ Refetch
    PROVE  SchedInv'
<1>1. SchedTypeOK /\ Listing /\ Sending
  BY DEF SchedInv
<1>2. UNCHANGED <<cpusLeft, quotaLeft, trying, phase>>
  BY DEF CheckOut, CleanupDead, CheckIn, RemoveRows, RunEnds, Unclaimed, Skip, Resume, Refetch, planVars
<1>3. /\ NobodyGains
      /\ \A t \in trying : runState'[t[1]] = runState[t[1]] /\ host'[t[1]] \in {host[t[1]], NoHost}
  <2>1. host \in [ScheduledRuns -> Hosts \union {NoHost}]
        /\ runState \in [ScheduledRuns -> {"staged", "active", "worker_offline", "done"}]
        /\ \A t \in trying : t[1] \in ScheduledRuns /\ runState[t[1]] = "active"
    BY <1>1 DEF SchedTypeOK, Sending
  <2>2. ASSUME NEW h \in Hosts, RemoveRows(h)
        PROVE  /\ NobodyGains
               /\ \A t \in trying : runState'[t[1]] = runState[t[1]] /\ host'[t[1]] \in {host[t[1]], NoHost}
    BY <2>1, <2>2 DEF RemoveRows, NobodyGains
  <2>3. ASSUME NEW h \in Hosts, CheckIn(h)
        PROVE  /\ NobodyGains
               /\ \A t \in trying : runState'[t[1]] = runState[t[1]] /\ host'[t[1]] \in {host[t[1]], NoHost}
    BY <2>1, <2>3 DEF CheckIn, NobodyGains
  <2>4. ASSUME NEW r \in ScheduledRuns, RunEnds(r)
        PROVE  /\ NobodyGains
               /\ \A t \in trying : runState'[t[1]] = runState[t[1]] /\ host'[t[1]] \in {host[t[1]], NoHost}
    BY <2>1, <2>4 DEF RunEnds, NobodyGains
  <2>5. ASSUME NEW r \in ScheduledRuns, Unclaimed(r)
        PROVE  /\ NobodyGains
               /\ \A t \in trying : runState'[t[1]] = runState[t[1]] /\ host'[t[1]] \in {host[t[1]], NoHost}
    BY <1>1, <2>1, <2>5 DEF Unclaimed, NobodyGains, Sending
  <2>6. ASSUME NEW r \in ScheduledRuns, NEW h \in Hosts, Resume(r, h)
        PROVE  /\ NobodyGains
               /\ \A t \in trying : runState'[t[1]] = runState[t[1]] /\ host'[t[1]] \in {host[t[1]], NoHost}
    BY <2>1, <2>6 DEF Resume, NobodyGains
  <2>7. ASSUME NEW r \in ScheduledRuns, Skip(r)
        PROVE  /\ NobodyGains
               /\ \A t \in trying : runState'[t[1]] = runState[t[1]] /\ host'[t[1]] \in {host[t[1]], NoHost}
    BY <2>1, <2>7 DEF Skip, NobodyGains
  <2>8. ASSUME Refetch
        PROVE  /\ NobodyGains
               /\ \A t \in trying : runState'[t[1]] = runState[t[1]] /\ host'[t[1]] \in {host[t[1]], NoHost}
    BY <2>1, <2>8 DEF Refetch, NobodyGains
  <2>9. QED
    BY <2>2, <2>3, <2>4, <2>5, <2>6, <2>7, <2>8 DEF CheckOut, CleanupDead
<1>4. Listing'
  BY <1>1, <1>2 DEF Listing
<1>5. Sending'
  BY <1>1, <1>2, <1>3 DEF Sending
<1>6. BeingSent' = BeingSent
  BY <1>2 DEF BeingSent
<1>7. Room' /\ QuotaRoom'
  BY <1>2, <1>3, <1>6, RoomHolds
<1>8. NotOverloaded' /\ WithinQuota'
  BY <1>3, LimitsHold
<1>9. QED
  BY <1>4, <1>5, <1>7, <1>8 DEF SchedInv

(* Nothing is being sent outside of phase send.                            *)
LEMMA NothingSent ==
    ASSUME SchedInv, phase # "send"
    PROVE  trying = {} /\ BeingSent = {} /\ resumed \union BeingSent = resumed
BY DEF SchedInv, Sending, BeingSent

LEMMA FetchKeeps ==
    ASSUME SchedInv, SchedTypeOK', FetchAndDeduct
    PROVE  SchedInv'
<1>1. /\ phase # "send" /\ phase' = "plan" /\ UNCHANGED <<host, resumed, trying>>
      /\ cpusLeft' = [a \in ListOwners |-> Deducted(Fetched[a])]
  BY DEF FetchAndDeduct
<1>2. trying = {} /\ trying' = {} /\ resumed' \union BeingSent' = resumed
  BY <1>1, NothingSent DEF BeingSent
<1>3. \A a \in ListOwners : /\ DOMAIN cpusLeft'[a] = {h \in alive : Owner[h] = a \/ a \in Members[h]}
                            /\ \A h \in DOMAIN cpusLeft'[a] : cpusLeft'[a][h] = Cpus[h] - Load(host, {}, h)
  <2>1. \A h : CpusOf(RunsOn(h)) = Load(host, {}, h)
    <3>1. \A h : RunsOn(h) = {r \in ScheduledRuns : host[r] = h} \ {}
      BY DEF RunsOn
    <3>2. QED
      BY <3>1 DEF CpusOf, Load, SumOver
  <2>2. QED
    BY <1>1, <2>1 DEF Deducted, Fetched
<1>4. alive \subseteq Hosts
  BY DEF SchedInv, SchedTypeOK
<1>5. Listing'
  BY <1>3, <1>4 DEF Listing
<1>6. Sending'
  BY <1>2 DEF Sending
<1>7. ASSUME NEW h \in Hosts, Members[h] = {}, NEW l \in ListOwners, h \in DOMAIN cpusLeft'[l]
      PROVE  cpusLeft'[l][h] + Load(host, resumed, h) <= Cpus[h]
  <2>1. cpusLeft'[l][h] = Cpus[h] - Load(host, {}, h)
    BY <1>3, <1>7
  <2>2. Load(host, resumed, h) <= Load(host, {}, h)
    BY LoadShrinks
  <2>3. Load(host, resumed, h) \in Nat /\ Load(host, {}, h) \in Nat /\ Cpus[h] \in Nat
    BY LoadFacts, HostsAssumption
  <2>4. QED
    BY <2>1, <2>2, <2>3
<1>8. Room'
  BY <1>1, <1>2, <1>7, RoomThen
<1>9. QuotaRoom'
  BY <1>1 DEF QuotaRoom
<1>10. NobodyGains
  BY <1>1 DEF NobodyGains
<1>11. QED
  BY <1>5, <1>6, <1>8, <1>9, <1>10, LimitsHold DEF SchedInv

LEMMA BeginKeeps ==
    ASSUME SchedInv, SchedTypeOK', BeginDispatch
    PROVE  SchedInv'
<1>1. /\ phase # "send" /\ phase' = "dispatch" /\ UNCHANGED <<host, runState, cpusLeft, trying, resumed>>
      /\ quotaLeft' = [a \in Users |-> ParallelRunQuotaLeft(a)]
  BY DEF BeginDispatch
<1>2. trying' = {} /\ resumed' \union BeingSent' = resumed /\ resumed \union BeingSent = resumed
  BY <1>1, NothingSent DEF BeingSent
<1>3. Listing' /\ Sending'
  BY <1>1, <1>2 DEF SchedInv, Listing, Sending
<1>4. Room'
  <2>1. \A h \in Hosts : Members[h] = {} =>
          \A l \in ListOwners : h \in DOMAIN cpusLeft[l] =>
            cpusLeft[l][h] + Load(host, resumed, h) <= Cpus[h]
    BY <1>2 DEF SchedInv, Room
  <2>2. QED
    BY <1>1, <1>2, <2>1, RoomThen
<1>5. ASSUME NEW a \in Users
      PROVE  quotaLeft'[a] + Cardinality(Counting(host, resumed, a)) <= ParallelQuota[a]
  <2> DEFINE others == {r \in RunsOf[a] : host[r] # NoHost /\ Owner[host[r]] # a}
  <2>1. others \in SUBSET RunsOf[a] /\ Counting(host, resumed, a) \in SUBSET others
    BY RootAssumption DEF Counting
  <2>2. quotaLeft'[a] = ParallelQuota[a] - Cardinality(others)
    BY <1>1 DEF ParallelRunQuotaLeft
  <2> HIDE DEF others
  <2>3. Cardinality(Counting(host, resumed, a)) <= Cardinality(others)
        /\ Cardinality(others) \in Nat /\ Cardinality(Counting(host, resumed, a)) \in Nat
    BY <2>1, CountShrinks
  <2>4. ParallelQuota[a] \in Nat
    BY RunsAssumption
  <2>5. QED
    BY <2>2, <2>3, <2>4
<1>6. QuotaRoom'
  BY <1>1, <1>2, <1>5 DEF QuotaRoom, Counting
<1>7. NobodyGains
  BY <1>1 DEF NobodyGains
<1>8. QED
  BY <1>3, <1>4, <1>6, <1>7, LimitsHold DEF SchedInv

LEMMA EndKeeps ==
    ASSUME SchedInv, SchedTypeOK', EndSchedule
    PROVE  SchedInv'
<1>1. /\ phase' = "idle" /\ trying' = {} /\ UNCHANGED <<host, resumed>>
      /\ cpusLeft' = [a \in ListOwners |-> NoList]
  BY DEF EndSchedule
<1>2. \A a \in ListOwners : DOMAIN cpusLeft'[a] = {}
  BY <1>1 DEF NoList
<1>3. Listing' /\ Sending' /\ Room' /\ QuotaRoom'
  BY <1>1, <1>2 DEF Listing, Sending, Room, QuotaRoom
<1>4. NobodyGains
  BY <1>1 DEF NobodyGains
<1>5. QED
  BY <1>3, <1>4, LimitsHold DEF SchedInv

LEMMA TryStartKeeps ==
    ASSUME SchedInv, SchedTypeOK',
           NEW r \in ScheduledRuns, NEW l \in ListOwners, NEW h \in Hosts, TryStart(r, l, h)
    PROVE  SchedInv'
<1>1. /\ phase = "dispatch" /\ phase' = "send" /\ l \in ListsOf(OwnerOf(r))
      /\ h \in DOMAIN cpusLeft[l] /\ cpusLeft[l][h] >= RequestCpus[r]
      /\ host' = [host EXCEPT ![r] = h] /\ runState' = [runState EXCEPT ![r] = "active"]
      /\ trying' = {<<r, l, h>>} /\ UNCHANGED <<cpusLeft, quotaLeft, resumed>>
  BY DEF TryStart, Current, planVars
<1>2. /\ host \in [ScheduledRuns -> Hosts \union {NoHost}]
      /\ runState \in [ScheduledRuns -> {"staged", "active", "worker_offline", "done"}]
  BY DEF SchedInv, SchedTypeOK
<1>3. host'[r] = h /\ runState'[r] = "active" /\ \A q \in ScheduledRuns \ {r} : host'[q] = host[q]
  BY <1>1, <1>2
<1>4. resumed \union BeingSent = resumed /\ BeingSent' = {r}
  BY <1>1, NothingSent DEF BeingSent
<1>5. Listing'
  BY <1>1 DEF SchedInv, Listing
<1>6. Sending'
  BY <1>1, <1>3 DEF Sending
<1>7. ASSUME NEW g \in Hosts, Members[g] = {}, NEW a \in ListOwners, g \in DOMAIN cpusLeft[a]
      PROVE  cpusLeft[a][g] + Load(host', resumed \union {r}, g) <= Cpus[g]
  <2>1. Load(host', resumed \union {r}, g) <= Load(host, resumed, g)
        /\ Load(host', resumed \union {r}, g) \in Nat /\ Load(host, resumed, g) \in Nat
    BY <1>3, LoadShrinks, LoadFacts
  <2>2. cpusLeft[a][g] + Load(host, resumed, g) <= Cpus[g] /\ cpusLeft[a][g] \in Int /\ Cpus[g] \in Nat
    BY <1>4, <1>7, CpusTyped DEF SchedInv, Room
  <2>3. QED
    BY <2>1, <2>2
<1>8. Room'
  BY <1>1, <1>4, <1>7, RoomThen
<1>9. ASSUME NEW a \in Users
      PROVE  quotaLeft[a] + Cardinality(Counting(host', resumed \union {r}, a)) <= ParallelQuota[a]
  <2>1. Counting(host, resumed, a) \in SUBSET RunsOf[a]
        /\ Counting(host', resumed \union {r}, a) \in SUBSET Counting(host, resumed, a)
    BY <1>3, RunsOfFacts DEF Counting
  <2>2. /\ Cardinality(Counting(host', resumed \union {r}, a)) <= Cardinality(Counting(host, resumed, a))
        /\ Cardinality(Counting(host', resumed \union {r}, a)) \in Nat
        /\ Cardinality(Counting(host, resumed, a)) \in Nat
    BY <2>1, CountShrinks
  <2>3. quotaLeft[a] + Cardinality(Counting(host, resumed, a)) <= ParallelQuota[a]
        /\ quotaLeft[a] \in Int /\ ParallelQuota[a] \in Nat
    BY <1>1, <1>4, CpusTyped DEF SchedInv, QuotaRoom
  <2>4. QED
    BY <2>2, <2>3
<1>10. QuotaRoom'
  BY <1>1, <1>4, <1>9 DEF QuotaRoom, Counting
<1>11. ASSUME NEW g \in Hosts, Members[g] = {} PROVE Load(host', resumed, g) <= Cpus[g]
  <2>1. CASE g = h
    <3>1. cpusLeft[l][h] + Load(host, resumed, h) <= Cpus[h] /\ cpusLeft[l][h] \in Int
          /\ Cpus[h] \in Nat /\ RequestCpus[r] \in Nat
      BY <1>1, <1>4, <1>11, <2>1, CpusTyped DEF SchedInv, Room
    <3>2. Load(host', resumed, h) <= Load(host, resumed, h) + RequestCpus[r]
          /\ Load(host, resumed, h) \in Nat /\ Load(host', resumed, h) \in Nat
      BY <1>3, LoadGrows, LoadFacts
    <3>3. QED
      BY <1>1, <2>1, <3>1, <3>2
  <2>2. CASE g # h
    <3>1. Load(host', resumed, g) <= Load(host, resumed, g)
          /\ Load(host, resumed, g) \in Nat /\ Load(host', resumed, g) \in Nat
      BY <1>3, <2>2, LoadShrinks, LoadFacts
    <3>2. Load(host, resumed, g) <= Cpus[g] /\ Cpus[g] \in Nat
      BY <1>11, HostsAssumption DEF SchedInv, NotOverloaded
    <3>3. QED
      BY <3>1, <3>2
  <2>3. QED
    BY <2>1, <2>2
<1>12. NotOverloaded'
  BY <1>1, <1>11, NotOverloadedThen
<1>13. ASSUME NEW a \in Users PROVE Cardinality(Counting(host', resumed, a)) <= ParallelQuota[a]
  <2>1. Cardinality(Counting(host, resumed, a)) <= ParallelQuota[a] /\ ParallelQuota[a] \in Nat
        /\ Counting(host, resumed, a) \in SUBSET RunsOf[a]
    BY RunsAssumption DEF SchedInv, WithinQuota, Counting
  <2>2. CASE r \in Counting(host', resumed, a)
    <3>1. r \in RunsOf[a] /\ Owner[h] = Root /\ a \notin Members[h] /\ a = OwnerOf(r)
      BY <1>3, <2>2, OwnerOfRun DEF Counting
    <3>2. l = Root /\ quotaLeft[a] > 0
      BY <1>1, <3>1, RootAssumption DEF SchedInv, Listing, ListsOf
    <3>3. quotaLeft[a] + Cardinality(Counting(host, resumed, a)) <= ParallelQuota[a] /\ quotaLeft[a] \in Int
      BY <1>1, <1>4, CpusTyped DEF SchedInv, QuotaRoom
    <3>4. Counting(host', resumed, a) \in SUBSET (Counting(host, resumed, a) \union {r})
      BY <1>3, RunsOfFacts DEF Counting
    <3>5. /\ Cardinality(Counting(host', resumed, a)) <= Cardinality(Counting(host, resumed, a)) + 1
          /\ Cardinality(Counting(host', resumed, a)) \in Nat /\ Cardinality(Counting(host, resumed, a)) \in Nat
      BY <2>1, <3>1, <3>4, CountGrows
    <3>6. QED
      BY <2>1, <3>2, <3>3, <3>5
  <2>3. CASE r \notin Counting(host', resumed, a)
    <3>1. Counting(host', resumed, a) \in SUBSET Counting(host, resumed, a)
      BY <1>3, <2>3, RunsOfFacts DEF Counting
    <3>2. /\ Cardinality(Counting(host', resumed, a)) <= Cardinality(Counting(host, resumed, a))
          /\ Cardinality(Counting(host', resumed, a)) \in Nat /\ Cardinality(Counting(host, resumed, a)) \in Nat
      BY <2>1, <3>1, CountShrinks
    <3>3. QED
      BY <2>1, <3>2
  <2>4. QED
    BY <2>2, <2>3
<1>14. WithinQuota'
  BY <1>1, <1>13 DEF WithinQuota, Counting
<1>15. QED
  BY <1>5, <1>6, <1>8, <1>10, <1>12, <1>14 DEF SchedInv

LEMMA SentKeeps ==
    ASSUME SchedInv, SchedTypeOK',
           NEW r \in ScheduledRuns, NEW l \in ListOwners, NEW h \in Hosts, Sent(r, l, h)
    PROVE  SchedInv'
<1>1. /\ phase = "send" /\ phase' = "dispatch" /\ trying = {<<r, l, h>>} /\ trying' = {}
      /\ UNCHANGED <<host, runState, resumed>>
      /\ cpusLeft' = [cpusLeft EXCEPT ![l][h] = @ - RequestCpus[r]]
      /\ quotaLeft' = [quotaLeft EXCEPT ![OwnerOf(r)] = IF Owner[h] = Root THEN @ - 1 ELSE @]
  BY DEF Sent
<1>2. h \in DOMAIN cpusLeft[l] /\ host[r] \in {h, NoHost} /\ RequestCpus[r] \in Nat
  BY <1>1, RunsAssumption DEF SchedInv, Sending
<1>3. /\ \A a \in ListOwners : DOMAIN cpusLeft'[a] = DOMAIN cpusLeft[a]
      /\ cpusLeft[l][h] \in Int /\ cpusLeft'[l][h] = cpusLeft[l][h] - RequestCpus[r]
      /\ \A a \in ListOwners : \A g \in DOMAIN cpusLeft[a] :
             <<a, g>> # <<l, h>> => cpusLeft'[a][g] = cpusLeft[a][g]
  <2>1. RequestCpus[r] \in Int /\ SchedTypeOK
    BY <1>2 DEF SchedInv
  <2>2. QED
    BY <1>1, <1>2, <2>1, CountedDown
<1>4. BeingSent = {r} /\ BeingSent' = {} /\ resumed' \union BeingSent' = resumed
  BY <1>1 DEF BeingSent
<1>5. Listing'
  BY <1>3 DEF SchedInv, Listing
<1>6. Sending'
  BY <1>1 DEF Sending
<1>7. ASSUME NEW g \in Hosts, Members[g] = {}, NEW a \in ListOwners, g \in DOMAIN cpusLeft'[a]
      PROVE  cpusLeft'[a][g] + Load(host, resumed, g) <= Cpus[g]
  <2>1. g \in DOMAIN cpusLeft[a] /\ (Owner[g] = a \/ a \in Members[g])
    BY <1>3, <1>7 DEF SchedInv, Listing
  <2>2. cpusLeft[a][g] + Load(host, resumed \union {r}, g) <= Cpus[g]
        /\ cpusLeft[a][g] \in Int /\ Cpus[g] \in Nat
    BY <1>4, <1>7, <2>1, CpusTyped DEF SchedInv, Room
  <2>3. Load(host, resumed, g) \in Nat /\ Load(host, resumed \union {r}, g) \in Nat
    BY LoadFacts
  <2>4. CASE g = h
    <3>1. a = l
      BY <1>2, <1>7, <2>1, <2>4 DEF SchedInv, Listing
    <3>2. Load(host, resumed, g) <= Load(host, resumed \union {r}, g) + RequestCpus[r]
      BY LoadGrows
    <3>3. cpusLeft'[a][g] = cpusLeft[a][g] - RequestCpus[r]
      BY <1>3, <2>4, <3>1
    <3>4. QED
      BY <1>2, <2>2, <2>3, <3>2, <3>3
  <2>5. CASE g # h
    <3>1. Load(host, resumed, g) <= Load(host, resumed \union {r}, g)
      BY <1>2, <2>5, LoadShrinks, HostsAssumption
    <3>2. cpusLeft'[a][g] = cpusLeft[a][g]
      BY <1>3, <2>1, <2>5
    <3>3. QED
      BY <2>2, <2>3, <3>1, <3>2
  <2>6. QED
    BY <2>4, <2>5
<1>8. Room'
  BY <1>1, <1>4, <1>7, RoomThen
<1>9. ASSUME NEW a \in Users
      PROVE  quotaLeft'[a] + Cardinality(Counting(host, resumed, a)) <= ParallelQuota[a]
  <2>1. quotaLeft[a] + Cardinality(Counting(host, resumed \union {r}, a)) <= ParallelQuota[a]
        /\ quotaLeft[a] \in Int /\ ParallelQuota[a] \in Nat
    BY <1>1, <1>4, CpusTyped DEF SchedInv, QuotaRoom
  <2>2. quotaLeft \in [Users -> Int]
    BY DEF SchedInv, SchedTypeOK
  <2>3. Counting(host, resumed \union {r}, a) \in SUBSET RunsOf[a]
    BY DEF Counting
  <2>4. CASE r \in Counting(host, resumed, a)
    <3>1. r \in RunsOf[a] /\ host[r] = h /\ Owner[h] = Root /\ a = OwnerOf(r)
      BY <1>2, <2>4, OwnerOfRun DEF Counting
    <3>2. quotaLeft'[a] = quotaLeft[a] - 1
      BY <1>1, <2>2, <3>1
    <3>3. Counting(host, resumed, a) \in SUBSET (Counting(host, resumed \union {r}, a) \union {r})
      BY DEF Counting
    <3>4. /\ Cardinality(Counting(host, resumed, a)) <= Cardinality(Counting(host, resumed \union {r}, a)) + 1
          /\ Cardinality(Counting(host, resumed, a)) \in Nat
          /\ Cardinality(Counting(host, resumed \union {r}, a)) \in Nat
      BY <2>3, <3>1, <3>3, CountGrows
    <3>5. QED
      BY <2>1, <3>2, <3>4
  <2>5. CASE r \notin Counting(host, resumed, a)
    <3>1. quotaLeft'[a] \in Int /\ quotaLeft'[a] <= quotaLeft[a]
      BY <1>1, <2>1, <2>2, OwnerOfRun
    <3>2. Counting(host, resumed, a) \in SUBSET Counting(host, resumed \union {r}, a)
      BY <2>5 DEF Counting
    <3>3. /\ Cardinality(Counting(host, resumed, a)) <= Cardinality(Counting(host, resumed \union {r}, a))
          /\ Cardinality(Counting(host, resumed, a)) \in Nat
          /\ Cardinality(Counting(host, resumed \union {r}, a)) \in Nat
      BY <2>3, <3>2, CountShrinks
    <3>4. QED
      BY <2>1, <3>1, <3>3
  <2>6. QED
    BY <2>4, <2>5
<1>10. QuotaRoom'
  BY <1>1, <1>4, <1>9 DEF QuotaRoom, Counting
<1>11. NobodyGains
  BY <1>1 DEF NobodyGains
<1>12. QED
  BY <1>5, <1>6, <1>8, <1>10, <1>11, LimitsHold DEF SchedInv

LEMMA SendFailsKeeps ==
    ASSUME SchedInv, SchedTypeOK',
           NEW r \in ScheduledRuns, NEW l \in ListOwners, NEW h \in Hosts, SendFails(r, l, h)
    PROVE  SchedInv'
<1>1. /\ phase = "send" /\ phase' = "dispatch" /\ trying = {<<r, l, h>>} /\ trying' = {}
      /\ host' = [host EXCEPT ![r] = NoHost] /\ UNCHANGED <<cpusLeft, quotaLeft, resumed>>
  BY DEF SendFails, planVars
<1>2. host'[r] = NoHost /\ \A q \in ScheduledRuns \ {r} : host'[q] = host[q]
  BY <1>1 DEF SchedInv, SchedTypeOK
<1>3. NobodyGains
  BY <1>1, <1>2 DEF NobodyGains
<1>4. Listing' /\ Sending'
  BY <1>1 DEF SchedInv, Listing, Sending
<1>5. BeingSent = {r}
  BY <1>1 DEF BeingSent
<1>6. Room' /\ QuotaRoom'
  BY <1>1, <1>2, <1>3, <1>5, RoomHolds
<1>7. QED
  BY <1>3, <1>4, <1>6, LimitsHold DEF SchedInv

-----------------------------------------------------------------------------
(* The invariant holds at the start. *)
LEMMA SchedInvInit == SchedInit => SchedInv
<1> SUFFICES ASSUME SchedInit PROVE SchedInv
  OBVIOUS
<1>1. /\ host = [r \in ScheduledRuns |-> NoHost] /\ phase = "idle" /\ trying = {} /\ resumed = {}
      /\ cpusLeft = [a \in ListOwners |-> NoList]
  BY DEF SchedInit
<1>2. \A a \in ListOwners : DOMAIN cpusLeft[a] = {}
  BY <1>1 DEF NoList
<1>3. Listing /\ Sending /\ Room /\ QuotaRoom
  BY <1>1, <1>2 DEF Listing, Sending, Room, QuotaRoom
<1>4. NotOverloaded
  <2> SUFFICES ASSUME NEW h \in Hosts PROVE Load(host, resumed, h) <= Cpus[h]
    BY DEF NotOverloaded
  <2>1. {r \in ScheduledRuns : host[r] = h} \ resumed = {}
    BY <1>1, HostsAssumption
  <2>2. Load(host, resumed, h) = 0
    BY <2>1, SumEmpty DEF Load
  <2>3. QED
    BY <2>2, HostsAssumption
<1>5. WithinQuota
  <2> SUFFICES ASSUME NEW a \in Users PROVE Cardinality(Counting(host, resumed, a)) <= ParallelQuota[a]
    BY DEF WithinQuota
  <2>1. Counting(host, resumed, a) = {}
    BY <1>1, RunsOfFacts DEF Counting
  <2>2. QED
    BY <2>1, FS_EmptySet, RunsAssumption
<1>6. QED
  BY <1>3, <1>4, <1>5, SchedTypeInit DEF SchedInv

(* Every step keeps it. *)
LEMMA SchedInvNext == SchedInv /\ [SchedNext]_schedVars => SchedInv'
<1> SUFFICES ASSUME SchedInv, [SchedNext]_schedVars PROVE SchedInv'
  OBVIOUS
<1>1. ASSUME UNCHANGED schedVars PROVE SchedInv'
  <2>1. NobodyGains /\ BeingSent' = BeingSent /\ UNCHANGED <<cpusLeft, quotaLeft, phase>>
    BY <1>1 DEF schedVars, NobodyGains, BeingSent
  <2>2. Room' /\ QuotaRoom' /\ NotOverloaded' /\ WithinQuota'
    BY <2>1, RoomHolds, LimitsHold
  <2>3. SchedTypeOK' /\ Listing' /\ Sending'
    BY <1>1 DEF schedVars, SchedInv, SchedTypeOK, Listing, Sending
  <2>4. QED
    BY <2>2, <2>3 DEF SchedInv
<1>2. ASSUME SchedNext PROVE SchedInv'
  <2>1. SchedTypeOK'
    BY <1>2, SchedTypeNext DEF SchedInv
  <2>2. QED
    BY <1>2, <2>1, ElsewhereKeeps, FetchKeeps, BeginKeeps, EndKeeps, TryStartKeeps, SentKeeps,
       SendFailsKeeps DEF SchedNext
<1>3. QED
  BY <1>1, <1>2

(* It says what is asked for. *)
LEMMA SchedInvMeans == SchedInv => NoOverload /\ ParallelRunsLimited
<1> SUFFICES ASSUME SchedInv PROVE NoOverload /\ ParallelRunsLimited
  OBVIOUS
<1>1. ASSUME NEW h \in Hosts, Members[h] = {} PROVE CpusOf(RunsOn(h) \ resumed) <= Cpus[h]
  <2>1. CpusOf(RunsOn(h) \ resumed) = Load(host, resumed, h)
    BY DEF CpusOf, RunsOn, Load, SumOver
  <2>2. QED
    BY <1>1, <2>1 DEF SchedInv, NotOverloaded
<1>2. QED
  BY <1>1 DEF SchedInv, NoOverload, ParallelRunsLimited, WithinQuota, Counting

LEMMA SchedInvHolds == SchedSpec => []SchedInv
<1>1. SchedInv /\ [SchedNext]_schedVars => SchedInv'
  BY SchedInvNext
<1>2. QED
  BY <1>1, SchedInvInit, PTL DEF SchedSpec

(* The lists of workers, the counts and the queue of a round keep their    *)
(* types, for any users, runs and workers.                                 *)
THEOREM SchedTypeCorrect == SchedSpec => []SchedTypeOK
<1>1. SchedInv => SchedTypeOK
  BY DEF SchedInv
<1>2. QED
  BY <1>1, SchedInvHolds, PTL

(* The bundle manager puts no more runs on a worker than its cpus allow,   *)
(* whatever workers and runs do between the moment it counts and the       *)
(* moments it sends, if the worker is on one list only.                    *)
THEOREM NeverOverloaded == SchedSpec => []NoOverload
BY SchedInvHolds, SchedInvMeans, PTL

(* Nor more runs of a user on CodaLab's workers than the quota, those of   *)
(* them left aside that the user's group shares.                           *)
THEOREM ParallelRunsKept == SchedSpec => []ParallelRunsLimited
BY SchedInvHolds, SchedInvMeans, PTL

-----------------------------------------------------------------------------
(* The websocket server *)

(* What the locks of a socket id rest on, whatever happens: an entry comes *)
(* and goes with its lock, and a connection keeps its socket id as long as *)
(* somebody knows it.                                                      *)
Held(h) == handler[h].pc \in Active

Registered ==
    /\ \A s \in Sockets : lock[s] = "none" <=> entry[s] = None
    /\ \A c \in Connections : serving[c] # "none" => socketOf[c] \in Sockets
    /\ \A s \in Sockets : entry[s] # None => socketOf[entry[s]] = s
    /\ \A h \in Handlers : Held(h) =>
         /\ handler[h].conn \in Connections
         /\ handler[h].socket \in Sockets
         /\ socketOf[handler[h].conn] = handler[h].socket

(* As long as nothing breaks, each socket id has one connection, and a     *)
(* lock that is not held has no holder.                                    *)
Connected ==
    /\ \A s \in Sockets : client[s] # None => client[s] \in open /\ socketOf[client[s]] = s
    /\ \A s \in Sockets : entry[s] # None => client[s] = entry[s]
    /\ \A c \in Connections : serving[c] # "none" =>
         c \in open /\ client[socketOf[c]] = c
    /\ \A c \in Connections : serving[c] = "loop" => entry[socketOf[c]] = c
    /\ \A c \in Connections : serving[c] = "auth" => entry[socketOf[c]] = None

HeldOnce ==
    /\ \A s \in Sockets : lock[s] # "held" => \A h \in Handlers : Held(h) => handler[h].socket # s
    /\ \A g, h \in Handlers : Held(g) /\ Held(h) /\ handler[g].socket = handler[h].socket => g = h

LockInv == WsTypeOK /\ Registered /\ (faults = 0 => Connected /\ HeldOnce)

(* A call that waits for an attempt has one handler, and what the handler  *)
(* is about to acknowledge has been written.                               *)
CallInv ==
    /\ WsTypeOK
    /\ \A h \in Handlers : handler[h].call # None => call[handler[h].call] = "trying"
    /\ \A g, h \in Handlers : handler[g].call = handler[h].call /\ handler[g].call # None => g = h
    /\ \A h \in Handlers : handler[h].pc = "acking" /\ handler[h].call # None =>
         written[handler[h].call]
    /\ AckMeansWritten

HandlerType ==
    [pc : {"idle", "accepted"} \union Active, call : Calls \union {None},
     socket : Sockets \union {None}, conn : Connections \union {None}]

-----------------------------------------------------------------------------
(* The type invariant is inductive. *)
LEMMA TypeStep == WsTypeOK /\ [WsNext]_wsVars => WsTypeOK'
<1> SUFFICES ASSUME WsTypeOK, [WsNext]_wsVars PROVE WsTypeOK'
  OBVIOUS
<1> USE NoneAssumption, MaxFaultsAssumption
<1>1. ASSUME NEW s \in Sockets, NEW c \in Connections, Connect(s, c) PROVE WsTypeOK'
  BY <1>1 DEF WsTypeOK, Active, IdleHandler, callVars, connVars, Connect
<1>2. ASSUME NEW s \in Sockets, ClientClosed(s) PROVE WsTypeOK'
  BY <1>2 DEF WsTypeOK, Active, IdleHandler, callVars, connVars, ClientClosed
<1>3. ASSUME NEW s \in Sockets, LockTimeout(s) PROVE WsTypeOK'
  <2>1. faults' \in 0 .. MaxFaults
    BY <1>3 DEF WsTypeOK, LockTimeout, Disturb
  <2>2. lock' \in [Sockets -> {"none", "free", "held", "expired"}]
    BY <1>3 DEF WsTypeOK, LockTimeout
  <2>3. QED
    BY <1>3, <2>1, <2>2 DEF WsTypeOK, callVars, connVars, LockTimeout
<1>4. ASSUME NEW s \in Sockets, NEW h \in Handlers, Acquire(h, s) PROVE WsTypeOK'
  <2>1. entry[s] \in Connections \union {None} /\ "receiving" \in Active
    BY DEF WsTypeOK, Active
  <2>2. handler' \in [Handlers -> HandlerType]
    <3>1. handler \in [Handlers -> HandlerType] /\ s \in Sockets
      BY DEF WsTypeOK, HandlerType
    <3>2. [handler[h] EXCEPT !.pc = "receiving", !.socket = s, !.conn = entry[s]] \in HandlerType
      BY <2>1, <3>1 DEF HandlerType
    <3>3. QED
      BY <1>4, <3>1, <3>2 DEF Acquire
  <2>3. lock' \in [Sockets -> {"none", "free", "held", "expired"}]
    BY <1>4 DEF WsTypeOK, Acquire
  <2>4. QED
    BY <1>4, <2>2, <2>3 DEF WsTypeOK, HandlerType, connVars, Acquire
<1>5. ASSUME NEW c \in Connections, Register(c) PROVE WsTypeOK'
  BY <1>5 DEF WsTypeOK, Active, IdleHandler, callVars, connVars, Register
<1>6. ASSUME NEW c \in Connections, AuthFails(c) PROVE WsTypeOK'
  BY <1>6 DEF WsTypeOK, Active, IdleHandler, callVars, connVars, AuthFails
<1>7. ASSUME NEW c \in Connections, Heartbeat(c) PROVE WsTypeOK'
  BY <1>7 DEF WsTypeOK, Active, IdleHandler, callVars, connVars, Heartbeat
<1>8. ASSUME NEW c \in Connections, ConnectionClosed(c) PROVE WsTypeOK'
  BY <1>8 DEF WsTypeOK, Active, IdleHandler, callVars, connVars, ConnectionClosed
<1>9. ASSUME NEW c \in Connections, Break(c) PROVE WsTypeOK'
  BY <1>9 DEF WsTypeOK, Active, IdleHandler, callVars, connVars, Break, Disturb
<1>10. ASSUME WorkerStops PROVE WsTypeOK'
  <2>1. faults' \in 0 .. MaxFaults
    BY <1>10 DEF WsTypeOK, WorkerStops, Disturb
  <2>2. open' \subseteq Connections /\ up' \in BOOLEAN
    BY <1>10 DEF WsTypeOK, WorkerStops
  <2>3. client' \in [Sockets -> Connections \union {None}]
    BY <1>10 DEF WsTypeOK, WorkerStops
  <2>4. QED
    BY <1>10, <2>1, <2>2, <2>3 DEF WsTypeOK, callVars, WorkerStops
<1>11. ASSUME NEW x \in Calls, Call(x) PROVE WsTypeOK'
  BY <1>11 DEF WsTypeOK, Active, IdleHandler, callVars, connVars, Call
<1>12. ASSUME NEW x \in Calls, GiveUp(x) PROVE WsTypeOK'
  BY <1>12 DEF WsTypeOK, Active, IdleHandler, callVars, connVars, GiveUp
<1>13. ASSUME NEW x \in Calls, NEW h \in Handlers, Attempt(x, h) PROVE WsTypeOK'
  BY <1>13 DEF WsTypeOK, Active, IdleHandler, callVars, connVars, Attempt
<1>14. ASSUME NEW h \in Handlers, Refuse(h) PROVE WsTypeOK'
  BY <1>14 DEF WsTypeOK, Active, IdleHandler, callVars, connVars, Refuse, CloseHandler
<1>15. ASSUME NEW h \in Handlers, Receive(h) PROVE WsTypeOK'
  BY <1>15 DEF WsTypeOK, Active, IdleHandler, callVars, connVars, Receive
<1>16. ASSUME NEW h \in Handlers, WriteMessage(h) PROVE WsTypeOK'
  BY <1>16 DEF WsTypeOK, Active, IdleHandler, callVars, connVars, WriteMessage
<1>17. ASSUME NEW h \in Handlers, Ack(h) PROVE WsTypeOK'
  BY <1>17 DEF WsTypeOK, Active, IdleHandler, callVars, connVars, Ack
<1>18. ASSUME NEW h \in Handlers, Release(h) PROVE WsTypeOK'
  BY <1>18 DEF WsTypeOK, Active, IdleHandler, callVars, connVars, Release
<1>19. ASSUME NEW h \in Handlers, HandlerFails(h) PROVE WsTypeOK'
  BY <1>19 DEF WsTypeOK, Active, IdleHandler, callVars, connVars, HandlerFails, CloseHandler
<1>20. ASSUME NEW h \in Handlers, CallerBreaks(h) PROVE WsTypeOK'
  BY <1>20 DEF WsTypeOK, Active, IdleHandler, callVars, connVars, CallerBreaks, Disturb
<1>21. CASE UNCHANGED wsVars
  BY <1>21 DEF wsVars, connVars, callVars, WsTypeOK
<1>22. QED
  BY <1>1, <1>2, <1>3, <1>4, <1>5, <1>6, <1>7, <1>8, <1>9, <1>10, <1>11, <1>12, <1>13,
     <1>14, <1>15, <1>16, <1>17, <1>18, <1>19, <1>20, <1>21 DEF WsNext
(* Every type-correct behaviour: WsTypeOK holds in every state the server,  *)
(* the worker and the callers can bring about.                             *)
THEOREM WsTypeCorrect == WsSpec => []WsTypeOK
<1>1. WsInit => WsTypeOK
  BY NoneAssumption, MaxFaultsAssumption DEF WsInit, WsTypeOK, IdleHandler
<1>2. QED
  BY <1>1, TypeStep, PTL DEF WsSpec

(* Each step of a call, its handler and their connection keeps CallInv.    *)
LEMMA CallStep == CallInv /\ [WsNext]_wsVars => CallInv'
<1> SUFFICES ASSUME CallInv, [WsNext]_wsVars PROVE CallInv'
  OBVIOUS
<1> USE NoneAssumption
<1>1. WsTypeOK /\ WsTypeOK'
  BY TypeStep DEF CallInv
<1>2. CASE UNCHANGED callVars
  BY <1>1, <1>2 DEF CallInv, AckMeansWritten, callVars
<1>3. ASSUME NEW x \in Calls, Call(x) PROVE CallInv'
  BY <1>1, <1>3 DEF CallInv, AckMeansWritten, WsTypeOK, HandlerType, IdleHandler, Call
<1>4. ASSUME NEW x \in Calls, GiveUp(x) PROVE CallInv'
  BY <1>1, <1>4 DEF CallInv, AckMeansWritten, WsTypeOK, HandlerType, IdleHandler, GiveUp
<1>5. ASSUME NEW x \in Calls, NEW h \in Handlers, Attempt(x, h) PROVE CallInv'
  BY <1>1, <1>5 DEF CallInv, AckMeansWritten, WsTypeOK, HandlerType, IdleHandler, Attempt
<1>6. ASSUME NEW h \in Handlers, Refuse(h) PROVE CallInv'
  BY <1>1, <1>6
     DEF CallInv, AckMeansWritten, WsTypeOK, HandlerType, IdleHandler, Refuse, CloseHandler
<1>7. ASSUME NEW h \in Handlers, Receive(h) PROVE CallInv'
  BY <1>1, <1>7 DEF CallInv, AckMeansWritten, WsTypeOK, HandlerType, IdleHandler, Receive
<1>8. ASSUME NEW h \in Handlers, WriteMessage(h) PROVE CallInv'
  BY <1>1, <1>8
     DEF CallInv, AckMeansWritten, WsTypeOK, HandlerType, IdleHandler, WriteMessage
<1>9. ASSUME NEW h \in Handlers, Ack(h) PROVE CallInv'
  BY <1>1, <1>9 DEF CallInv, AckMeansWritten, WsTypeOK, HandlerType, IdleHandler, Ack
<1>10. ASSUME NEW h \in Handlers, Release(h) PROVE CallInv'
  BY <1>1, <1>10 DEF CallInv, AckMeansWritten, WsTypeOK, HandlerType, IdleHandler, Release
<1>11. ASSUME NEW h \in Handlers, HandlerFails(h) PROVE CallInv'
  BY <1>1, <1>11
     DEF CallInv, AckMeansWritten, WsTypeOK, HandlerType, IdleHandler, HandlerFails,
         CloseHandler
<1>12. ASSUME NEW h \in Handlers, CallerBreaks(h) PROVE CallInv'
  BY <1>1, <1>12
     DEF CallInv, AckMeansWritten, WsTypeOK, HandlerType, IdleHandler, CallerBreaks
<1>13. CASE UNCHANGED wsVars
  BY <1>2, <1>13 DEF wsVars
<1>14. \/ UNCHANGED callVars
       \/ UNCHANGED wsVars
       \/ \E x \in Calls : Call(x) \/ GiveUp(x) \/ \E h \in Handlers : Attempt(x, h)
       \/ \E h \in Handlers :
            \/ Refuse(h) \/ Receive(h) \/ WriteMessage(h) \/ Ack(h) \/ Release(h)
            \/ HandlerFails(h) \/ CallerBreaks(h) \/ \E s \in Sockets : Acquire(h, s)
  BY DEF WsNext, Connect, ClientClosed, LockTimeout, Register, AuthFails, Heartbeat,
         ConnectionClosed, Break, WorkerStops
<1>15. ASSUME NEW h \in Handlers, NEW s \in Sockets, Acquire(h, s) PROVE CallInv'
  BY <1>1, <1>15 DEF CallInv, AckMeansWritten, WsTypeOK, HandlerType, Acquire
<1>16. QED
  BY <1>2, <1>3, <1>4, <1>5, <1>6, <1>7, <1>8, <1>9, <1>10, <1>11, <1>12, <1>13, <1>14,
     <1>15

(* send_json_message returns True only for a message that was written to a *)
(* connection of the worker, for any number of connections, handlers and   *)
(* calls, whatever breaks and however often.                               *)
THEOREM AlwaysAckMeansWritten == WsSpec => []AckMeansWritten
<1>1. WsInit => CallInv
  BY NoneAssumption, MaxFaultsAssumption
     DEF WsInit, CallInv, AckMeansWritten, WsTypeOK, HandlerType, IdleHandler
<1>2. CallInv => AckMeansWritten
  BY DEF CallInv
<1>3. QED
  BY <1>1, <1>2, CallStep, PTL DEF WsSpec
(* Each step keeps the entries, their locks and the socket ids together.   *)
LEMMA RegisteredStep == WsTypeOK /\ Registered /\ [WsNext]_wsVars => Registered'
<1> SUFFICES ASSUME WsTypeOK, Registered, [WsNext]_wsVars PROVE Registered'
  OBVIOUS
<1> USE NoneAssumption
<1>1. WsTypeOK'
  BY TypeStep
<1>2. ASSUME NEW s \in Sockets, NEW c \in Connections, Connect(s, c) PROVE Registered'
  BY <1>1, <1>2
     DEF Registered, Held, Active, WsTypeOK, HandlerType, IdleHandler, connVars, callVars,
         Connect, Unused
<1>3. ASSUME NEW s \in Sockets, ClientClosed(s) PROVE Registered'
  BY <1>1, <1>3
     DEF Registered, Held, Active, WsTypeOK, HandlerType, IdleHandler, connVars, callVars,
         ClientClosed
<1>4. ASSUME NEW s \in Sockets, LockTimeout(s) PROVE Registered'
  BY <1>1, <1>4
     DEF Registered, Held, Active, WsTypeOK, HandlerType, IdleHandler, connVars, callVars,
         LockTimeout
<1>5. ASSUME NEW s \in Sockets, NEW h \in Handlers, Acquire(h, s) PROVE Registered'
  BY <1>1, <1>5
     DEF Registered, Held, Active, WsTypeOK, HandlerType, IdleHandler, connVars, callVars,
         Acquire
<1>6. ASSUME NEW c \in Connections, Register(c) PROVE Registered'
  BY <1>1, <1>6
     DEF Registered, Held, Active, WsTypeOK, HandlerType, IdleHandler, connVars, callVars,
         Register
<1>7. ASSUME NEW c \in Connections, AuthFails(c) PROVE Registered'
  BY <1>1, <1>7
     DEF Registered, Held, Active, WsTypeOK, HandlerType, IdleHandler, connVars, callVars,
         AuthFails
<1>8. ASSUME NEW c \in Connections, Heartbeat(c) PROVE Registered'
  BY <1>1, <1>8
     DEF Registered, Held, Active, WsTypeOK, HandlerType, IdleHandler, connVars, callVars,
         Heartbeat
<1>9. ASSUME NEW c \in Connections, ConnectionClosed(c) PROVE Registered'
  BY <1>1, <1>9
     DEF Registered, Held, Active, WsTypeOK, HandlerType, IdleHandler, connVars, callVars,
         ConnectionClosed
<1>10. ASSUME NEW c \in Connections, Break(c) PROVE Registered'
  BY <1>1, <1>10
     DEF Registered, Held, Active, WsTypeOK, HandlerType, IdleHandler, connVars, callVars,
         Break
<1>11. ASSUME WorkerStops PROVE Registered'
  BY <1>1, <1>11
     DEF Registered, Held, Active, WsTypeOK, HandlerType, IdleHandler, connVars, callVars,
         WorkerStops
<1>12. ASSUME NEW x \in Calls, Call(x) PROVE Registered'
  BY <1>1, <1>12
     DEF Registered, Held, Active, WsTypeOK, HandlerType, IdleHandler, connVars, callVars,
         Call
<1>13. ASSUME NEW x \in Calls, GiveUp(x) PROVE Registered'
  BY <1>1, <1>13
     DEF Registered, Held, Active, WsTypeOK, HandlerType, IdleHandler, connVars, callVars,
         GiveUp
<1>14. ASSUME NEW x \in Calls, NEW h \in Handlers, Attempt(x, h) PROVE Registered'
  BY <1>1, <1>14
     DEF Registered, Held, Active, WsTypeOK, HandlerType, IdleHandler, connVars, callVars,
         Attempt
<1>15. ASSUME NEW h \in Handlers, Refuse(h) PROVE Registered'
  BY <1>1, <1>15
     DEF Registered, Held, Active, WsTypeOK, HandlerType, IdleHandler, connVars, callVars,
         Refuse, CloseHandler
<1>16. ASSUME NEW h \in Handlers, Receive(h) PROVE Registered'
  BY <1>1, <1>16
     DEF Registered, Held, Active, WsTypeOK, HandlerType, IdleHandler, connVars, callVars,
         Receive
<1>17. ASSUME NEW h \in Handlers, WriteMessage(h) PROVE Registered'
  BY <1>1, <1>17
     DEF Registered, Held, Active, WsTypeOK, HandlerType, IdleHandler, connVars, callVars,
         WriteMessage
<1>18. ASSUME NEW h \in Handlers, Ack(h) PROVE Registered'
  BY <1>1, <1>18
     DEF Registered, Held, Active, WsTypeOK, HandlerType, IdleHandler, connVars, callVars,
         Ack
<1>19. ASSUME NEW h \in Handlers, Release(h) PROVE Registered'
  BY <1>1, <1>19
     DEF Registered, Held, Active, WsTypeOK, HandlerType, IdleHandler, connVars, callVars,
         Release
<1>20. ASSUME NEW h \in Handlers, HandlerFails(h) PROVE Registered'
  BY <1>1, <1>20
     DEF Registered, Held, Active, WsTypeOK, HandlerType, IdleHandler, connVars, callVars,
         HandlerFails, CloseHandler
<1>21. ASSUME NEW h \in Handlers, CallerBreaks(h) PROVE Registered'
  BY <1>1, <1>21
     DEF Registered, Held, Active, WsTypeOK, HandlerType, IdleHandler, connVars, callVars,
         CallerBreaks
<1>22. CASE UNCHANGED wsVars
  BY <1>22 DEF wsVars, connVars, callVars, Registered, Held
<1>23. QED
  BY <1>1, <1>2, <1>3, <1>4, <1>5, <1>6, <1>7, <1>8, <1>9, <1>10, <1>11, <1>12, <1>13,
     <1>14, <1>15, <1>16, <1>17, <1>18, <1>19, <1>20, <1>21, <1>22 DEF WsNext

(* As long as nothing breaks, each step keeps one connection and one       *)
(* holder of the lock to a socket id.                                      *)
LEMMA LockStep == LockInv /\ [WsNext]_wsVars => LockInv'
<1> SUFFICES ASSUME LockInv, [WsNext]_wsVars PROVE LockInv'
  OBVIOUS
<1> USE NoneAssumption
<1>1. WsTypeOK /\ WsTypeOK' /\ Registered /\ Registered'
  BY TypeStep, RegisteredStep DEF LockInv
<1>2. ASSUME NEW s \in Sockets, NEW c \in Connections, Connect(s, c), faults' = 0 PROVE (Connected /\ HeldOnce)'
  BY <1>1, <1>2
     DEF LockInv, Registered, Connected, HeldOnce, Held, Active, WsTypeOK, HandlerType,
         IdleHandler, connVars, callVars, Connect, Unused
<1>3. ASSUME NEW s \in Sockets, ClientClosed(s), faults' = 0 PROVE (Connected /\ HeldOnce)'
  BY <1>1, <1>3
     DEF LockInv, Registered, Connected, HeldOnce, Held, Active, WsTypeOK, HandlerType,
         IdleHandler, connVars, callVars, ClientClosed
<1>4. ASSUME NEW s \in Sockets, LockTimeout(s), faults' = 0 PROVE (Connected /\ HeldOnce)'
  BY <1>1, <1>4
     DEF LockInv, Registered, Connected, HeldOnce, Held, Active, WsTypeOK, HandlerType,
         IdleHandler, connVars, callVars, LockTimeout, Disturb, Holders
<1>5. ASSUME NEW s \in Sockets, NEW h \in Handlers, Acquire(h, s), faults' = 0 PROVE (Connected /\ HeldOnce)'
  BY <1>1, <1>5
     DEF LockInv, Registered, Connected, HeldOnce, Held, Active, WsTypeOK, HandlerType,
         IdleHandler, connVars, callVars, Acquire
<1>6. ASSUME NEW c \in Connections, Register(c), faults' = 0 PROVE (Connected /\ HeldOnce)'
  BY <1>1, <1>6
     DEF LockInv, Registered, Connected, HeldOnce, Held, Active, WsTypeOK, HandlerType,
         IdleHandler, connVars, callVars, Register
<1>7. ASSUME NEW c \in Connections, AuthFails(c), faults' = 0 PROVE (Connected /\ HeldOnce)'
  BY <1>1, <1>7
     DEF LockInv, Registered, Connected, HeldOnce, Held, Active, WsTypeOK, HandlerType,
         IdleHandler, connVars, callVars, AuthFails
<1>8. ASSUME NEW c \in Connections, Heartbeat(c), faults' = 0 PROVE (Connected /\ HeldOnce)'
  BY <1>1, <1>8
     DEF LockInv, Registered, Connected, HeldOnce, Held, Active, WsTypeOK, HandlerType,
         IdleHandler, connVars, callVars, Heartbeat
<1>9. ASSUME NEW c \in Connections, ConnectionClosed(c), faults' = 0 PROVE (Connected /\ HeldOnce)'
  BY <1>1, <1>9
     DEF LockInv, Registered, Connected, HeldOnce, Held, Active, WsTypeOK, HandlerType,
         IdleHandler, connVars, callVars, ConnectionClosed
<1>10. ASSUME NEW c \in Connections, Break(c) PROVE faults' # 0
  BY <1>1, <1>10 DEF WsTypeOK, Disturb, Break
<1>11. ASSUME WorkerStops PROVE faults' # 0
  BY <1>1, <1>11 DEF WsTypeOK, Disturb, WorkerStops
<1>12. ASSUME NEW x \in Calls, Call(x), faults' = 0 PROVE (Connected /\ HeldOnce)'
  BY <1>1, <1>12
     DEF LockInv, Registered, Connected, HeldOnce, Held, Active, WsTypeOK, HandlerType,
         IdleHandler, connVars, callVars, Call
<1>13. ASSUME NEW x \in Calls, GiveUp(x), faults' = 0 PROVE (Connected /\ HeldOnce)'
  BY <1>1, <1>13
     DEF LockInv, Registered, Connected, HeldOnce, Held, Active, WsTypeOK, HandlerType,
         IdleHandler, connVars, callVars, GiveUp
<1>14. ASSUME NEW x \in Calls, NEW h \in Handlers, Attempt(x, h), faults' = 0 PROVE (Connected /\ HeldOnce)'
  BY <1>1, <1>14
     DEF LockInv, Registered, Connected, HeldOnce, Held, Active, WsTypeOK, HandlerType,
         IdleHandler, connVars, callVars, Attempt
<1>15. ASSUME NEW h \in Handlers, Refuse(h), faults' = 0 PROVE (Connected /\ HeldOnce)'
  BY <1>1, <1>15
     DEF LockInv, Registered, Connected, HeldOnce, Held, Active, WsTypeOK, HandlerType,
         IdleHandler, connVars, callVars, Refuse, CloseHandler
<1>16. ASSUME NEW h \in Handlers, Receive(h), faults' = 0 PROVE (Connected /\ HeldOnce)'
  BY <1>1, <1>16
     DEF LockInv, Registered, Connected, HeldOnce, Held, Active, WsTypeOK, HandlerType,
         IdleHandler, connVars, callVars, Receive
<1>17. ASSUME NEW h \in Handlers, WriteMessage(h), faults' = 0 PROVE (Connected /\ HeldOnce)'
  BY <1>1, <1>17
     DEF LockInv, Registered, Connected, HeldOnce, Held, Active, WsTypeOK, HandlerType,
         IdleHandler, connVars, callVars, WriteMessage
<1>18. ASSUME NEW h \in Handlers, Ack(h), faults' = 0 PROVE (Connected /\ HeldOnce)'
  BY <1>1, <1>18
     DEF LockInv, Registered, Connected, HeldOnce, Held, Active, WsTypeOK, HandlerType,
         IdleHandler, connVars, callVars, Ack
<1>19. ASSUME NEW h \in Handlers, Release(h), faults' = 0 PROVE (Connected /\ HeldOnce)'
  BY <1>1, <1>19
     DEF LockInv, Registered, Connected, HeldOnce, Held, Active, WsTypeOK, HandlerType,
         IdleHandler, connVars, callVars, Release
<1>20. ASSUME NEW h \in Handlers, HandlerFails(h), faults' = 0 PROVE (Connected /\ HeldOnce)'
  BY <1>1, <1>20
     DEF LockInv, Registered, Connected, HeldOnce, Held, Active, WsTypeOK, HandlerType,
         IdleHandler, connVars, callVars, HandlerFails, CloseHandler
<1>21. ASSUME NEW h \in Handlers, CallerBreaks(h) PROVE faults' # 0
  BY <1>1, <1>21 DEF WsTypeOK, Disturb, CallerBreaks
<1>22. ASSUME UNCHANGED wsVars, faults' = 0 PROVE (Connected /\ HeldOnce)'
  BY <1>22 DEF wsVars, connVars, callVars, LockInv, Connected, HeldOnce, Held
<1>23. faults' = 0 => (Connected /\ HeldOnce)'
  BY <1>1, <1>2, <1>3, <1>4, <1>5, <1>6, <1>7, <1>8, <1>9, <1>10, <1>11, <1>12, <1>13,
     <1>14, <1>15, <1>16, <1>17, <1>18, <1>19, <1>20, <1>21, <1>22 DEF WsNext
<1>24. QED
  BY <1>1, <1>23 DEF LockInv

(* As long as nothing breaks and no handler is slow, two messages are not  *)
(* written to one connection at a time, for any number of socket ids,      *)
(* connections and handlers.                                               *)
THEOREM AlwaysExclusive == WsSpec => []Exclusive
<1>1. WsInit => LockInv
  BY NoneAssumption, MaxFaultsAssumption
     DEF WsInit, LockInv, Registered, Connected, HeldOnce, Held, Active, WsTypeOK,
        HandlerType,
         IdleHandler
<1>2. LockInv => Exclusive
  BY DEF LockInv, Registered, HeldOnce, Exclusive, Held
<1>3. QED
  BY <1>1, <1>2, LockStep, PTL DEF WsSpec

-----------------------------------------------------------------------------
(* A worker manager *)

(* The program ends at the failure that is one too many. *)
FailuresCounted == round.pc \notin {"off", "load"} => num_failed <= MaxFailed

(* What runs is known, and only what has ended is taken off the list. *)
Tracked ==
    /\ Live \ unseen \subseteq submitted_jobs
    /\ round.gone \intersect Live = {}

(* The list may be too long after a restart, but nothing is started then. *)
RoomChecked ==
    /\ IsFiniteSet(Live) /\ IsFiniteSet(submitted_jobs)
    /\ round.pc = "launch" => Cardinality(submitted_jobs) < MaxWorkers

ManagerInv ==
    ManagerTypeOK /\ FailuresCounted /\ Tracked /\ RoomChecked /\ WorkersLimited

-----------------------------------------------------------------------------
(* Workers that end keep the limit. *)
LEMMA FewerWorkers ==
    ASSUME IsFiniteSet(Live), WorkersLimited, (Live \ unseen)' \subseteq Live \ unseen
    PROVE  WorkersLimited'
<1> DEFINE old == Live \ unseen
           new == (Live \ unseen)'
<1>1. IsFiniteSet(old) /\ Cardinality(old) \in Nat
  <2>1. old \in SUBSET Live
    OBVIOUS
  <2>2. IsFiniteSet(old)
    BY <2>1, FS_Subset
  <2>3. QED
    BY <2>2, FS_CardinalityType
<1>2. new \in SUBSET old
  OBVIOUS
<1>3. Cardinality(new) <= Cardinality(old) /\ Cardinality(new) \in Nat
  <2> HIDE DEF old, new
  <2>1. QED
    BY <1>1, <1>2, FS_Subset, FS_CardinalityType
<1>4. QED
  BY <1>1, <1>3, ManagerAssumption DEF WorkersLimited

(* Bundles come and go. *)
LEMMA BundlesKeepInv ==
    ASSUME ManagerInv, StageBundle \/ UnstageBundle
    PROVE  ManagerInv'
<1> USE DEF ManagerInv, ManagerTypeOK, countVars, Live
<1>1. staged' \in 0 .. MaxStaged
  BY ManagerAssumption DEF StageBundle, UnstageBundle
<1>2. UNCHANGED <<slurm, submitted_jobs, round, countVars>>
  BY DEF StageBundle, UnstageBundle
<1>3. QED
  BY <1>1, <1>2 DEF FailuresCounted, Tracked, RoomChecked, WorkersLimited

(* Slurm runs, ends and forgets jobs: none becomes live. *)
LEMMA SlurmKeepsInv ==
    ASSUME ManagerInv, NEW j \in Jobs, RunJob(j) \/ EndJob(j) \/ PurgeJob(j)
    PROVE  ManagerInv'
<1> USE DEF ManagerInv, ManagerTypeOK, countVars
<1>1. UNCHANGED <<staged, submitted_jobs, round, min_workers, waiting, num_failed>>
  BY DEF RunJob, EndJob, PurgeJob
<1>2. Live' \subseteq Live /\ (Live \ unseen)' \subseteq Live \ unseen /\ unseen' \subseteq Live'
  <2>1. CASE RunJob(j) \/ PurgeJob(j)
    BY <2>1 DEF RunJob, PurgeJob, Live, Ended
  <2>2. CASE EndJob(j)
    BY <2>2 DEF EndJob, Live, Ended
  <2>3. QED
    BY <2>1, <2>2
<1>3. slurm' \in [Jobs -> {"unknown", "PENDING", "RUNNING"} \union Ended]
  BY DEF RunJob, EndJob, PurgeJob, Ended
<1>4. troubles' \in 0 .. MaxTroubles
  BY ManagerAssumption DEF RunJob, EndJob, PurgeJob, Trouble
<1>5. ManagerTypeOK'
  BY <1>1, <1>2, <1>3, <1>4
<1>6. FailuresCounted' /\ Tracked'
  BY <1>1, <1>2 DEF FailuresCounted, Tracked
<1>7. RoomChecked'
  <2>1. Live' \in SUBSET Live
    BY <1>2
  <2>2. IsFiniteSet(Live')
    BY <2>1, FS_Subset DEF RoomChecked
  <2>3. QED
    BY <1>1, <2>2 DEF RoomChecked
<1>8. WorkersLimited'
  BY <1>2, FewerWorkers DEF RoomChecked
<1>9. QED
  BY <1>5, <1>6, <1>7, <1>8

-----------------------------------------------------------------------------
(* The program starts and stops; its list is what Slurm tells it. *)
LEMMA ProgramKeepsInv ==
    ASSUME ManagerInv, StartManager \/ StopManager \/ LoadWorkerJobs
    PROVE  ManagerInv'
<1> USE DEF ManagerInv, ManagerTypeOK, Asleep
<1>1. staged' = staged /\ slurm' = slurm /\ Live' = Live
  BY DEF StartManager, StopManager, LoadWorkerJobs, Live
<1>2. Live \ unseen' \subseteq Live \ unseen /\ unseen' \subseteq Live
  BY DEF StartManager, StopManager, LoadWorkerJobs
<1>3. submitted_jobs' \in {submitted_jobs, Live, {}}
  BY DEF StartManager, StopManager, LoadWorkerJobs
<1>4. ManagerTypeOK'
  <2>1. submitted_jobs' \subseteq Jobs
    BY <1>3 DEF Live
  <2>2. round' \in [pc : {"off", "load", "sleep", "fetch", "check", "launch"},
                    staged : 0 .. MaxStaged,
                    left : SUBSET submitted_jobs', gone : SUBSET submitted_jobs']
    <3>1. CASE StartManager
      BY <3>1 DEF StartManager
    <3>2. CASE StopManager
      <4>1. round'.pc \in {"off", "load"} /\ round' = [Asleep EXCEPT !.pc = round'.pc]
        BY <3>2 DEF StopManager
      <4>2. QED
        BY <4>1, ManagerAssumption
    <3>3. CASE LoadWorkerJobs
      BY <3>3, ManagerAssumption DEF LoadWorkerJobs
    <3>4. QED
      BY <3>1, <3>2, <3>3
  <2>3. min_workers' \in MinChoices \union {0}
    BY DEF StartManager, StopManager, LoadWorkerJobs
  <2>4. waiting' \in 0 .. MaxWait /\ num_failed' \in 0 .. MaxFailed + 1
    BY ManagerAssumption DEF StartManager, StopManager, LoadWorkerJobs
  <2>5. troubles' \in 0 .. MaxTroubles
    BY ManagerAssumption DEF StartManager, StopManager, LoadWorkerJobs, Trouble
  <2>6. QED
    BY <1>1, <1>2, <2>1, <2>2, <2>3, <2>4, <2>5
<1>5. FailuresCounted'
  BY ManagerAssumption DEF FailuresCounted, StartManager, StopManager, LoadWorkerJobs
<1>6. Tracked'
  <2>1. round'.gone \in {round.gone, {}}
    BY DEF StartManager, StopManager, LoadWorkerJobs
  <2>2. Live \ unseen' \subseteq submitted_jobs'
    BY <1>2 DEF Tracked, StartManager, StopManager, LoadWorkerJobs
  <2>3. QED
    BY <1>1, <2>1, <2>2 DEF Tracked
<1>7. RoomChecked'
  <2>1. IsFiniteSet(submitted_jobs')
    BY <1>3, FS_EmptySet DEF RoomChecked
  <2>2. round'.pc # "launch"
    BY DEF StartManager, StopManager, LoadWorkerJobs
  <2>3. QED
    BY <1>1, <2>1, <2>2 DEF RoomChecked
<1>8. WorkersLimited'
  BY <1>1, <1>2, FewerWorkers DEF RoomChecked
<1>9. QED
  BY <1>4, <1>5, <1>6, <1>7, <1>8

(* A round up to the last of its queries changes no list. *)
LEMMA QueriesKeepInv ==
    ASSUME ManagerInv, NEW j,
           Wake \/ FetchStaged \/ SkipJob(j) \/ CheckJob(j) \/ CheckFailedJob(j)
    PROVE  ManagerInv'
<1>1. UNCHANGED <<staged, slurm, submitted_jobs, min_workers, unseen>> /\ Live' = Live
  <2>1. UNCHANGED <<staged, slurm, submitted_jobs, min_workers, unseen>>
    BY DEF Wake, FetchStaged, SkipJob, CheckJob, CheckFailedJob, countVars
  <2>2. QED
    BY <2>1 DEF Live
<1> USE DEF ManagerInv, ManagerTypeOK, Asleep, Checked, countVars
<1>2. round' \in [pc : {"off", "load", "sleep", "fetch", "check", "launch"},
                  staged : 0 .. MaxStaged,
                  left : SUBSET submitted_jobs, gone : SUBSET submitted_jobs]
  <2>1. CASE Wake
    BY <2>1 DEF Wake
  <2>2. CASE FetchStaged
    <3>1. CASE round' = Asleep
      BY <3>1, ManagerAssumption
    <3>2. CASE round' = [round EXCEPT !.pc = "check", !.staged = staged,
                                      !.left = submitted_jobs]
      BY <3>2
    <3>3. QED
      BY <2>2, <3>1, <3>2 DEF FetchStaged
  <2>3. CASE SkipJob(j)
    BY <2>3 DEF SkipJob
  <2>4. CASE CheckJob(j)
    <3>1. PICK S \in SUBSET {j} : round' = Checked(j, S)
      BY <2>4 DEF CheckJob
    <3>2. j \in submitted_jobs
      BY <2>4 DEF CheckJob
    <3>3. QED
      BY <3>1, <3>2
  <2>5. CASE CheckFailedJob(j)
    <3>1. CASE round' = [Asleep EXCEPT !.pc = "off"]
      BY <3>1, ManagerAssumption
    <3>2. CASE round' = Checked(j, {j})
      <4>1. j \in submitted_jobs
        BY <2>5 DEF CheckFailedJob
      <4>2. QED
        BY <3>2, <4>1
    <3>3. QED
      BY <2>5, <3>1, <3>2 DEF CheckFailedJob
  <2>6. QED
    BY <2>1, <2>2, <2>3, <2>4, <2>5
<1>3. num_failed' \in 0 .. MaxFailed + 1 /\ FailuresCounted'
  <2>1. CASE CheckFailedJob(j)
    BY <2>1, ManagerAssumption DEF CheckFailedJob, FailuresCounted
  <2>2. CASE ~CheckFailedJob(j)
    <3>1. num_failed' = num_failed /\ round.pc \notin {"off", "load"}
      BY <2>2 DEF Wake, FetchStaged, SkipJob, CheckJob
    <3>2. QED
      BY <3>1 DEF FailuresCounted
  <2>3. QED
    BY <2>1, <2>2
<1>4. waiting' \in 0 .. MaxWait
  BY ManagerAssumption DEF Wake, FetchStaged, SkipJob, CheckJob, CheckFailedJob
<1>5. troubles' \in 0 .. MaxTroubles
  BY ManagerAssumption DEF Wake, FetchStaged, SkipJob, CheckJob, CheckFailedJob, Trouble
<1>6. round'.gone \intersect Live = {}
  <2>1. CASE Wake \/ FetchStaged \/ SkipJob(j)
    <3>1. round'.gone \subseteq round.gone
      <4>1. CASE Wake
        BY <4>1 DEF Wake
      <4>2. CASE FetchStaged
        <5>1. CASE round' = Asleep
          BY <5>1
        <5>2. CASE round' = [round EXCEPT !.pc = "check", !.staged = staged,
                                          !.left = submitted_jobs]
          BY <5>2
        <5>3. QED
          BY <4>2, <5>1, <5>2 DEF FetchStaged
      <4>3. CASE SkipJob(j)
        BY <4>3 DEF SkipJob
      <4>4. QED
        BY <2>1, <4>1, <4>2, <4>3
    <3>2. QED
      BY <3>1 DEF Tracked
  <2>2. CASE CheckJob(j)
    <3>1. round'.gone = round.gone \union ({j} \intersect {i \in Jobs : slurm[i] = "over"})
      BY <2>2 DEF CheckJob
    <3>2. {i \in Jobs : slurm[i] = "over"} \intersect Live = {}
      BY DEF Live
    <3>3. QED
      BY <3>1, <3>2 DEF Tracked
  <2>3. CASE CheckFailedJob(j)
    <3>1. round'.gone \subseteq round.gone \union {j}
      BY <2>3 DEF CheckFailedJob
    <3>2. j \notin Live
      BY <2>3 DEF CheckFailedJob, Live
    <3>3. QED
      BY <3>1, <3>2 DEF Tracked
  <2>4. QED
    BY <2>1, <2>2, <2>3
<1>7. round'.pc # "launch"
  <2>1. CASE FetchStaged
    <3>1. CASE round' = Asleep
      BY <3>1
    <3>2. CASE round' = [round EXCEPT !.pc = "check", !.staged = staged,
                                      !.left = submitted_jobs]
      BY <3>2
    <3>3. QED
      BY <2>1, <3>1, <3>2 DEF FetchStaged
  <2>2. CASE Wake \/ SkipJob(j) \/ CheckJob(j)
    BY <2>2 DEF Wake, SkipJob, CheckJob
  <2>3. CASE CheckFailedJob(j)
    BY <2>3 DEF CheckFailedJob
  <2>4. QED
    BY <2>1, <2>2, <2>3
<1>8. ManagerTypeOK'
  BY <1>1, <1>2, <1>3, <1>4, <1>5
<1>9. Tracked' /\ RoomChecked' /\ WorkersLimited'
  BY <1>1, <1>6, <1>7 DEF Tracked, RoomChecked, WorkersLimited
<1>10. QED
  BY <1>3, <1>8, <1>9

(* A worker is wanted only where the list leaves room for it. *)
LEMMA DecideKeepsInv ==
    ASSUME ManagerInv, Decide
    PROVE  ManagerInv'
<1> USE DEF ManagerInv, ManagerTypeOK, Asleep
<1>1. UNCHANGED <<staged, slurm, min_workers, waiting, num_failed, unseen>> /\ Live' = Live
  BY DEF Decide, Live
<1>2. submitted_jobs' \in SUBSET submitted_jobs
  BY DEF Decide
<1>3. PICK running : round' = [Asleep EXCEPT !.pc = IF Wanted(submitted_jobs', running)
                                                   THEN "launch" ELSE @]
  BY DEF Decide
<1>4. troubles' \in 0 .. MaxTroubles
  BY ManagerAssumption DEF Decide, Trouble
<1>5. ManagerTypeOK'
  <2>1. round' \in [pc : {"off", "load", "sleep", "fetch", "check", "launch"},
                    staged : 0 .. MaxStaged,
                    left : SUBSET submitted_jobs', gone : SUBSET submitted_jobs']
    BY <1>3, ManagerAssumption
  <2>2. QED
    BY <1>1, <1>2, <1>4, <2>1
<1>6. FailuresCounted'
  BY <1>1 DEF FailuresCounted, Decide
<1>7. Tracked'
  <2>1. submitted_jobs' = submitted_jobs \ round.gone /\ round'.gone = {}
    BY <1>3 DEF Decide
  <2>2. QED
    BY <1>1, <2>1 DEF Tracked
<1>8. RoomChecked'
  <2>1. IsFiniteSet(submitted_jobs') /\ Cardinality(submitted_jobs') \in Nat
    BY <1>2, FS_Subset, FS_CardinalityType DEF RoomChecked
  <2>2. round'.pc = "launch" => Wanted(submitted_jobs', running)
    BY <1>3
  <2>3. min_workers \in Nat /\ min_workers <= MaxWorkers
    BY ManagerAssumption
  <2>4. Wanted(submitted_jobs', running) => Cardinality(submitted_jobs') < MaxWorkers
    BY <2>1, <2>3, ManagerAssumption DEF Wanted
  <2>5. QED
    BY <1>1, <2>1, <2>2, <2>4 DEF RoomChecked
<1>9. WorkersLimited'
  BY <1>1 DEF WorkersLimited
<1>10. QED
  BY <1>5, <1>6, <1>7, <1>8, <1>9

(* One job more, known or not. *)
LEMMA LaunchKeepsInv ==
    ASSUME ManagerInv, Launch
    PROVE  ManagerInv'
<1> USE DEF ManagerInv, ManagerTypeOK, Asleep
<1>1. UNCHANGED <<staged, min_workers, num_failed>> /\ round' = Asleep /\ round.pc = "launch"
      /\ waiting' \in 0 .. MaxWait
  BY DEF Launch
<1>2. troubles' \in 0 .. MaxTroubles
  BY ManagerAssumption DEF Launch, Trouble
<1>3. FailuresCounted'
  BY <1>1 DEF FailuresCounted
<1>4. CASE UNCHANGED <<slurm, submitted_jobs, unseen>>
  <2>1. Live' = Live
    BY <1>4 DEF Live
  <2>2. ManagerTypeOK'
    BY <1>1, <1>2, <1>4, <2>1, ManagerAssumption
  <2>3. Tracked' /\ RoomChecked' /\ WorkersLimited'
    BY <1>1, <1>4, <2>1 DEF Tracked, RoomChecked, WorkersLimited
  <2>4. QED
    BY <1>3, <2>2, <2>3
<1>5. CASE ~UNCHANGED <<slurm, submitted_jobs, unseen>>
  <2>1. PICK j \in Jobs \ (submitted_jobs \union Live) :
               /\ slurm' = [slurm EXCEPT ![j] = "PENDING"]
               /\ \/ submitted_jobs' = submitted_jobs \union {j} /\ unseen' = unseen
                  \/ unseen' = unseen \union {j} /\ submitted_jobs' = submitted_jobs
    BY <1>5 DEF Launch
  <2>2. Live' = Live \union {j}
    BY <2>1 DEF Live
  <2>3. j \notin unseen
    BY <2>1
  <2>4. ManagerTypeOK'
    <3>1. unseen' \subseteq Live' /\ submitted_jobs' \subseteq Jobs
      BY <2>1, <2>2
    <3>2. slurm' \in [Jobs -> {"unknown", "PENDING", "RUNNING"} \union Ended]
      BY <2>1
    <3>3. QED
      BY <1>1, <1>2, <3>1, <3>2, ManagerAssumption
  <2>5. Tracked'
    BY <1>1, <2>1, <2>2 DEF Tracked
  <2>6. RoomChecked'
    <3>1. IsFiniteSet(Live') /\ IsFiniteSet(submitted_jobs')
      BY <2>1, <2>2, FS_AddElement DEF RoomChecked
    <3>2. QED
      BY <1>1, <3>1 DEF RoomChecked
  <2>7. WorkersLimited'
    <3>1. CASE submitted_jobs' = submitted_jobs
      BY <2>1, <2>2, <3>1, FewerWorkers DEF RoomChecked
    <3>2. CASE submitted_jobs' = submitted_jobs \union {j} /\ unseen' = unseen
      <4>1. /\ IsFiniteSet(submitted_jobs')
            /\ Cardinality(submitted_jobs') = Cardinality(submitted_jobs) + 1
        BY <2>1, <3>2, FS_AddElement DEF RoomChecked
      <4>2. Cardinality(submitted_jobs) \in Nat
        BY FS_CardinalityType DEF RoomChecked
      <4>3. (Live \ unseen)' \in SUBSET submitted_jobs'
        BY <2>5 DEF Tracked
      <4>4. Cardinality((Live \ unseen)') <= Cardinality(submitted_jobs')
        BY <4>1, <4>3, FS_Subset
      <4>5. Cardinality((Live \ unseen)') \in Nat
        BY <4>1, <4>3, FS_Subset, FS_CardinalityType
      <4>6. Cardinality(submitted_jobs) < MaxWorkers
        BY <1>1 DEF RoomChecked
      <4>7. QED
        BY <4>1, <4>2, <4>4, <4>5, <4>6, ManagerAssumption DEF WorkersLimited
    <3>3. QED
      BY <2>1, <3>1, <3>2
  <2>8. QED
    BY <1>3, <2>4, <2>5, <2>6, <2>7
<1>6. QED
  BY <1>4, <1>5

-----------------------------------------------------------------------------
(* The invariant holds at the start, and every step keeps it. *)
THEOREM ManagerInvHolds == ManagerSpec => []ManagerInv
<1>1. ManagerInit => ManagerInv
  <2> SUFFICES ASSUME ManagerInit PROVE ManagerInv
    OBVIOUS
  <2> USE DEF ManagerInit, Asleep
  <2>1. Live = {} /\ unseen = {}
    BY DEF Live
  <2>2. ManagerTypeOK
    BY <2>1, ManagerAssumption DEF ManagerTypeOK
  <2>3. IsFiniteSet({}) /\ Cardinality({}) = 0 /\ Live \ unseen = {}
    BY <2>1, FS_EmptySet
  <2>4. RoomChecked
    BY <2>1, <2>3 DEF RoomChecked
  <2>5. WorkersLimited
    BY <2>3, ManagerAssumption DEF WorkersLimited
  <2>6. QED
    BY <2>1, <2>2, <2>4, <2>5 DEF ManagerInv, FailuresCounted, Tracked
<1>2. ManagerInv /\ [ManagerNext]_managerVars => ManagerInv'
  <2> SUFFICES ASSUME ManagerInv, [ManagerNext]_managerVars PROVE ManagerInv'
    OBVIOUS
  <2>1. CASE StageBundle \/ UnstageBundle
    BY <2>1, BundlesKeepInv
  <2>2. ASSUME NEW j \in Jobs, RunJob(j) \/ EndJob(j) \/ PurgeJob(j) PROVE ManagerInv'
    BY <2>2, SlurmKeepsInv
  <2>3. CASE StartManager \/ StopManager \/ LoadWorkerJobs
    BY <2>3, ProgramKeepsInv
  <2>4. ASSUME NEW j \in Jobs, SkipJob(j) \/ CheckJob(j) \/ CheckFailedJob(j)
        PROVE  ManagerInv'
    BY <2>4, QueriesKeepInv
  <2>5. CASE Wake \/ FetchStaged
    BY <2>5, QueriesKeepInv
  <2>6. CASE Decide
    BY <2>6, DecideKeepsInv
  <2>7. CASE Launch
    BY <2>7, LaunchKeepsInv
  <2>8. CASE UNCHANGED managerVars
    BY <2>8 DEF ManagerInv, ManagerTypeOK, FailuresCounted, Tracked, RoomChecked,
                WorkersLimited, Live, managerVars, countVars
  <2>9. QED
    BY <2>1, <2>2, <2>3, <2>4, <2>5, <2>6, <2>7, <2>8 DEF ManagerNext, RunOneIteration
<1>3. QED
  BY <1>1, <1>2, PTL DEF ManagerSpec

(* The variables of a worker manager keep their types                      *)
(* (SlurmBatchWorkerManager).                                              *)
THEOREM ManagerTypeCorrect == ManagerSpec => []ManagerTypeOK
BY ManagerInvHolds, PTL DEF ManagerInv

(* However often Slurm is silent, jobs end and the program restarts, no    *)
(* more workers run than max_workers, but for those it was not told of     *)
(* (get_worker_jobs, start_worker_job).                                    *)
THEOREM AlwaysWorkersLimited == ManagerSpec => []WorkersLimited
BY ManagerInvHolds, PTL DEF ManagerInv
=============================================================================
