------------------------------ MODULE Contents ------------------------------
(***************************************************************************)
(* The contents of the bundles of one user and the disk space they take:   *)
(* uploads and deletions by the REST server (codalab/rest/bundles.py), and *)
(* make bundles by threads of the bundle manager                           *)
(* (codalab/server/bundle_manager.py).  A call of the database is one      *)
(* step, as is removing a directory; writing one takes time.  Nobody holds *)
(* a lock from one step to the next.                                       *)
(***************************************************************************)
EXTENDS Naturals, FiniteSets, FiniteSetsExt

CONSTANTS
    Uploads,    \* bundles that are uploaded
    Makes,      \* make bundles
    Parents,    \* the dependencies of a make bundle
    Size,       \* bytes of the contents of a bundle
    Quota,      \* the user's disk_quota
    Requests,   \* requests to the REST server that upload or delete
    MaxFailures   \* bound on writes that fail and processes that die

Bundles == Uploads \union Makes

ASSUME ParentsAssumption == Parents \in [Makes -> SUBSET Uploads]
ASSUME SizeAssumption == Size \in [Bundles -> Nat \ {0}] /\ Quota \in Nat /\ MaxFailures \in Nat
ASSUME KindsAssumption == Uploads \intersect Makes = {} /\ Requests \intersect Makes = {}
ASSUME NamesAssumption == (Requests \union Makes) \intersect {"absent", "partial", "complete"} = {}
ASSUME FiniteAssumption == IsFiniteSet(Uploads) /\ IsFiniteSet(Makes)

VARIABLES
    state,      \* bundle.state
    size,       \* bundle_metadata data_size
    store,      \* what is at get_bundle_location, or who writes it
    disk_used,  \* user.disk_used
    proc,       \* a request of the REST server, a thread making a bundle
    manager,    \* the process of the bundle manager is there
    failures,
    excused,    \* bundles two of these worked on at a time, or that were emptied
    raced       \* two of these were at work at a time, or one died

contentVars == <<state, size, store, disk_used, proc, manager, failures, excused, raced>>

(* A thread is named by the bundle it makes: it is in _make_uuids. *)
Procs == Requests \union Makes

Idle == [pc |-> "idle", bundles |-> {}, then |-> "idle", sum |-> 0]
New == [Idle EXCEPT !.pc = "new"]

Present(b) == state[b] # "deleted"
Working == {p \in Procs : proc[p].pc \notin {"new", "idle"}}

Work == [pc : {"new", "idle", "clean", "zero", "store", "writing", "measure", "enforce", "gather",
               "finish", "fail", "reject", "remove", "unsize", "delete", "erase", "recount", "update"},
         bundles : SUBSET Bundles,
         then : {"idle", "store", "enforce", "finish", "delete", "erase"},
         sum : Nat]

ContentTypeOK ==
    /\ state \in [Bundles -> {"uploading", "created", "staged", "making", "ready", "failed", "deleted"}]
    /\ size \in [Bundles -> Nat]
    /\ store \in [Bundles -> {"absent", "partial", "complete"} \union Procs]
    /\ disk_used \in Nat
    /\ proc \in [Procs -> Work]
    /\ manager \in BOOLEAN
    /\ failures \in 0 .. MaxFailures
    /\ excused \subseteq Bundles
    /\ raced \in BOOLEAN

ContentInit ==
    /\ state = [b \in Bundles |-> IF b \in Uploads THEN "uploading" ELSE "created"]
    /\ size = [b \in Bundles |-> 0]
    /\ store = [b \in Bundles |-> "absent"]
    /\ disk_used = 0
    /\ proc = [p \in Procs |-> IF p \in Makes THEN Idle ELSE New]
    /\ manager = TRUE
    /\ failures = 0
    /\ excused = {}
    /\ raced = FALSE

Failure == failures < MaxFailures /\ failures' = failures + 1

(* The bundles a process reads or writes the contents of. *)
Touches(bs) == bs \union UNION {Parents[k] : k \in bs \intersect Makes}

(* A process starts; who works at the same time is remembered. *)
Start(p, pc, then, bs) ==
    /\ proc[p] = IF p \in Makes THEN Idle ELSE New
    /\ proc' = [proc EXCEPT ![p] = [pc |-> pc, bundles |-> bs, then |-> then, sum |-> 0]]
    /\ raced' = (raced \/ Working # {})

Overlapped(bs) ==
    UNION {IF Touches(bs) \intersect Touches(proc[q].bundles) = {} THEN {}
           ELSE bs \union proc[q].bundles : q \in Working}

Goto(p, pc) == proc' = [proc EXCEPT ![p] = 
                          IF pc = "idle" THEN Idle
                          ELSE [Idle EXCEPT !.pc = pc, !.bundles = proc[p].bundles]]

At(p, pc, b) == proc[p].pc = pc /\ b \in proc[p].bundles

SetState(b, s) == state' = [state EXCEPT ![b] = IF @ = "deleted" THEN @ ELSE s]

-----------------------------------------------------------------------------
(* update_user_disk_used: the sum is taken in one transaction and written  *)
(* in another, over whatever is there by then.                             *)

TotalSize(bs) == MapThenSumSet(LAMBDA b : size[b], bs)

Recount(p, then) == proc' = [proc EXCEPT ![p].pc = "recount", ![p].then = then]

ReadSizes(p) ==
    /\ proc[p].pc = "recount"
    /\ proc' = [proc EXCEPT ![p].pc = "update",
                            ![p].sum = TotalSize({b \in Bundles : Present(b)})]
    /\ UNCHANGED <<state, size, store, disk_used, manager, failures, excused, raced>>

WriteDiskUsed(p) ==
    /\ proc[p].pc = "update"
    /\ disk_used' = proc[p].sum
    /\ Goto(p, proc[p].then)
    /\ UNCHANGED <<state, size, store, manager, failures, excused, raced>>

-----------------------------------------------------------------------------
(* Storing the contents of a bundle: upload_to_bundle_store for the REST   *)
(* server, a copy of the dependencies for a make bundle.                   *)

(* Writing over what somebody else still writes makes a mix of the two.    *)
BeginWrite(p, b) ==
    /\ At(p, "store", b)
    /\ store' = [store EXCEPT ![b] = IF @ \in Procs THEN "partial" ELSE p]
    /\ Goto(p, "writing")
    /\ UNCHANGED <<state, size, disk_used, manager, failures, excused, raced>>

Readable(b) == b \in Uploads \/ \A d \in Parents[b] : store[d] = "complete"

EndWrite(p, b) ==
    /\ At(p, "writing", b)
    /\ store' = [store EXCEPT ![b] = IF @ # p THEN @
                                     ELSE IF Readable(b) THEN "complete" ELSE "partial"]
    /\ Goto(p, IF b \in Uploads THEN "measure" ELSE "enforce")
    /\ UNCHANGED <<state, size, disk_used, manager, failures, excused, raced>>

(* Mutant: goes on with what has been written. *)
WriteFailsQuietly(p, b) ==
    /\ At(p, "writing", b) /\ Failure
    /\ store' = [store EXCEPT ![b] = IF @ = p THEN "partial" ELSE @]
    /\ Goto(p, IF b \in Uploads THEN "measure" ELSE "enforce")
    /\ UNCHANGED <<state, size, disk_used, manager, excused, raced>>

(* Any exception in the course of it. *)
WriteFails(p, b) ==
    /\ At(p, "writing", b) /\ Failure
    /\ store' = [store EXCEPT ![b] = IF @ = p THEN "partial" ELSE @]
    /\ Goto(p, "fail")
    /\ UNCHANGED <<state, size, disk_used, manager, excused, raced>>

(* update_disk_metadata; without contents, or without the bundle its       *)
(* metadata refers to, it raises.                                          *)
Measure(p, b) ==
    /\ At(p, "measure", b)
    /\ \/ /\ store[b] # "absent" /\ Present(b)
          /\ size' = [size EXCEPT ![b] = Size[b]]
          /\ Recount(p, IF b \in Uploads THEN "enforce" ELSE "finish")
       \/ /\ store[b] = "absent" \/ ~Present(b)
          /\ Goto(p, "fail")
          /\ UNCHANGED size
    /\ UNCHANGED <<state, store, disk_used, manager, failures, excused, raced>>

(* Mutant: takes every bundle for one that is counted already. *)
EnforceCounted(p, b) ==
    /\ At(p, "enforce", b)
    /\ Goto(p, CASE store[b] = "absent" -> "fail"
                 [] store[b] # "absent" /\ disk_used > Quota -> "reject"
                 [] OTHER -> IF b \in Uploads THEN "finish" ELSE "measure")
    /\ UNCHANGED <<state, size, store, disk_used, manager, failures, excused, raced>>

(* enforce_disk_quota.  An upload is already counted in disk_used by then, *)
(* a make bundle is not. *)
Enforce(p, b) ==
    /\ At(p, "enforce", b)
    /\ Goto(p, CASE store[b] = "absent" -> "fail"
                 [] store[b] # "absent" /\ Size[b] + disk_used > Quota -> "reject"
                 [] OTHER -> IF b \in Uploads THEN "finish" ELSE "measure")
    /\ UNCHANGED <<state, size, store, disk_used, manager, failures, excused, raced>>

(* An upload may be told not to finalize. *)
Finish(p, b) ==
    /\ At(p, "finish", b)
    /\ SetState(b, "ready") \/ (b \in Uploads /\ UNCHANGED state)
    /\ Goto(p, "idle")
    /\ UNCHANGED <<size, store, disk_used, manager, failures, excused, raced>>

-----------------------------------------------------------------------------
(* _update_bundle_contents_blob *)

BeginUpload(q, b) ==
    /\ b \in Uploads
    /\ state[b] \notin {"ready", "failed", "deleted"}
    /\ Start(q, "clean", "idle", {b})
    /\ excused' = excused \union Overlapped({b})
    /\ UNCHANGED <<state, size, store, disk_used, manager, failures>>

(* cleanup_existing_contents, if has_contents *)
RemoveContents(p, b, then) ==
    /\ store' = [store EXCEPT ![b] = "absent"]
    /\ IF store[b] = "absent" THEN Goto(p, then)
       ELSE proc' = [proc EXCEPT ![p].pc = "zero", ![p].then = then]
    /\ UNCHANGED <<state, size, disk_used, manager, failures, excused, raced>>

Clean(q, b) == At(q, "clean", b) /\ RemoveContents(q, b, "store")

(* It raises for a bundle that is gone. *)
ZeroSize(q, b) ==
    /\ At(q, "zero", b)
    /\ IF Present(b) THEN size' = [size EXCEPT ![b] = 0] /\ Recount(q, proc[q].then)
                     ELSE Goto(q, "idle") /\ UNCHANGED size
    /\ UNCHANGED <<state, store, disk_used, manager, failures, excused, raced>>

(* A user error fails the bundle; another one if finalize_on_failure.      *)
FailUpload(q, b) ==
    /\ q \in Requests
    /\ At(q, "reject", b) \/ At(q, "fail", b)
    /\ SetState(b, "failed") \/ (proc[q].pc = "fail" /\ UNCHANGED state)
    /\ Goto(q, IF Present(b) THEN "remove" ELSE "idle")
    /\ UNCHANGED <<size, store, disk_used, manager, failures, excused, raced>>

RemoveFailed(q, b) == At(q, "remove", b) /\ RemoveContents(q, b, "idle")

(* The REST server restarts.  Nobody erases what a deletion left.          *)
RequestDies(q) ==
    /\ q \in Working /\ Failure
    /\ Goto(q, "idle")
    /\ store' = [b \in Bundles |-> IF store[b] = q THEN "partial" ELSE store[b]]
    /\ raced' = TRUE
    /\ excused' = excused \union IF proc[q].pc = "erase" THEN proc[q].bundles ELSE {}
    /\ UNCHANGED <<state, size, disk_used, manager>>

-----------------------------------------------------------------------------
(* delete_bundles *)

Descendants(b) == {k \in Makes : Present(k) /\ b \in Parents[k]}

Relevant(b, recursive) == {b} \union IF recursive /\ b \in Uploads THEN Descendants(b) ELSE {}

(* The bundle named, of a set of it and its descendants. *)
Named(bs) == IF bs \subseteq Makes THEN bs ELSE bs \intersect Uploads

(* Only the bundle named must not be active.  With data_only, bundles are  *)
(* emptied and stay.                                                       *)
BeginDelete(q, b) ==
    /\ Present(b) /\ state[b] # "making"
    /\ \E recursive, force, data_only \in BOOLEAN :
         /\ recursive \/ force \/ b \notin Uploads \/ Descendants(b) = {}
         /\ LET relevant == Relevant(b, recursive) IN
              /\ Start(q, "unsize", IF data_only THEN "erase" ELSE "delete", relevant)
              /\ excused' = excused \union Overlapped(relevant)
                              \union IF data_only THEN relevant ELSE {}
    /\ UNCHANGED <<state, size, store, disk_used, manager, failures>>

UnsizeNamed(q) ==
    /\ proc[q].pc = "unsize"
    /\ LET named == Named(proc[q].bundles) IN
         IF \A b \in named : Present(b)
         THEN /\ size' = [b \in Bundles |-> IF b \in named THEN 0 ELSE size[b]]
              /\ Goto(q, proc[q].then)
         ELSE Goto(q, "idle") /\ UNCHANGED size
    /\ UNCHANGED <<state, store, disk_used, manager, failures, excused, raced>>

DeleteRows(q) ==
    /\ proc[q].pc = "delete"
    /\ state' = [b \in Bundles |-> IF b \in proc[q].bundles THEN "deleted" ELSE state[b]]
    /\ size' = [b \in Bundles |-> IF b \in proc[q].bundles THEN 0 ELSE size[b]]
    /\ Goto(q, "erase")
    /\ UNCHANGED <<store, disk_used, manager, failures, excused, raced>>

(* Mutant: does not take the sum again. *)
EraseOnly(q) ==
    /\ proc[q].pc = "erase"
    /\ store' = [b \in Bundles |-> IF b \in proc[q].bundles THEN "absent" ELSE store[b]]
    /\ Goto(q, "idle")
    /\ UNCHANGED <<state, size, disk_used, manager, failures, excused, raced>>

(* Mutant: leaves the descendants' contents. *)
EraseNamed(q) ==
    /\ proc[q].pc = "erase"
    /\ store' = [b \in Bundles |-> IF b \in Named(proc[q].bundles) THEN "absent" ELSE store[b]]
    /\ Recount(q, "idle")
    /\ UNCHANGED <<state, size, disk_used, manager, failures, excused, raced>>

Erase(q) ==
    /\ proc[q].pc = "erase"
    /\ store' = [b \in Bundles |-> IF b \in proc[q].bundles THEN "absent" ELSE store[b]]
    /\ Recount(q, "idle")
    /\ UNCHANGED <<state, size, disk_used, manager, failures, excused, raced>>

-----------------------------------------------------------------------------
(* The bundle manager: _stage_bundles, _make_bundles, _make_bundle         *)

StageMake(k) ==
    /\ manager
    /\ state[k] = "created"
    /\ \/ /\ \E d \in Parents[k] : state[d] \in {"failed", "deleted"}
          /\ SetState(k, "failed")
       \/ /\ \A d \in Parents[k] : state[d] = "ready"
          /\ SetState(k, "staged")
    /\ UNCHANGED <<size, store, disk_used, proc, manager, failures, excused, raced>>

(* Mutant: only one that has written nothing. *)
RestageUntouched(k) ==
    /\ manager
    /\ state[k] = "making" /\ proc[k].pc = "idle" /\ store[k] = "absent"
    /\ SetState(k, "staged")
    /\ UNCHANGED <<size, store, disk_used, proc, manager, failures, excused, raced>>

RestageMake(k) ==
    /\ manager
    /\ state[k] = "making" /\ proc[k].pc = "idle"
    /\ SetState(k, "staged")
    /\ UNCHANGED <<size, store, disk_used, proc, manager, failures, excused, raced>>

StartMake(k) ==
    /\ manager
    /\ state[k] = "staged"
    /\ SetState(k, "making")
    /\ Start(k, "gather", "idle", {k})
    /\ excused' = excused \union Overlapped({k})
                    \union IF Parents[k] \intersect excused # {} THEN {k} ELSE {}
    /\ UNCHANGED <<size, store, disk_used, manager, failures>>

(* There must be something at every dependency; then remove_path. *)
Gather(k) ==
    /\ proc[k].pc = "gather"
    /\ IF \E d \in Parents[k] : store[d] = "absent"
       THEN Goto(k, "fail") /\ UNCHANGED store
       ELSE Goto(k, "store") /\ store' = [store EXCEPT ![k] = "absent"]
    /\ UNCHANGED <<state, size, disk_used, manager, failures, excused, raced>>

FailMake(k) ==
    /\ proc[k].pc \in {"fail", "reject"}
    /\ SetState(k, "failed")
    /\ Goto(k, "idle")
    /\ UNCHANGED <<size, store, disk_used, manager, failures, excused, raced>>

ManagerStops ==
    /\ manager /\ Failure
    /\ manager' = FALSE
    /\ proc' = [p \in Procs |-> IF p \in Makes THEN Idle ELSE proc[p]]
    /\ store' = [b \in Bundles |-> IF store[b] \in Makes THEN "partial" ELSE store[b]]
    /\ raced' = (raced \/ Working \intersect Makes # {})
    /\ UNCHANGED <<state, size, disk_used, excused>>

ManagerStarts ==
    /\ ~manager
    /\ manager' = TRUE
    /\ UNCHANGED <<state, size, store, disk_used, proc, failures, excused, raced>>

-----------------------------------------------------------------------------
Storing(p) ==
    \/ ReadSizes(p) \/ WriteDiskUsed(p)
    \/ \E b \in Bundles : BeginWrite(p, b) \/ EndWrite(p, b) \/ WriteFails(p, b)
                            \/ Measure(p, b) \/ Enforce(p, b) \/ Finish(p, b)

Request(q) ==
    \/ Storing(q)
    \/ UnsizeNamed(q) \/ DeleteRows(q) \/ Erase(q) \/ RequestDies(q)
    \/ \E b \in Bundles : BeginUpload(q, b) \/ Clean(q, b) \/ ZeroSize(q, b)
                            \/ FailUpload(q, b) \/ RemoveFailed(q, b) \/ BeginDelete(q, b)

Make(k) == Storing(k) \/ Gather(k) \/ FailMake(k)

ManagerLoop(k) == StageMake(k) \/ RestageMake(k) \/ StartMake(k)

ContentNext ==
    \/ \E q \in Requests : Request(q)
    \/ \E k \in Makes : Make(k) \/ ManagerLoop(k)
    \/ ManagerStops \/ ManagerStarts

ContentSpec == ContentInit /\ [][ContentNext]_contentVars

(* The bundle manager is run until it ends and run again; its threads run. *)
ContentFairness ==
    /\ \A k \in Makes : WF_contentVars(Make(k)) /\ WF_contentVars(ManagerLoop(k))
    /\ WF_contentVars(ManagerStarts)

-----------------------------------------------------------------------------
(* A bundle that is ready has its contents, all of them, whatever failed   *)
(* or died on the way, unless two worked on them at a time or the user     *)
(* emptied it.                                                             *)
ReadyHasContents ==
    \A b \in Bundles : state[b] = "ready" /\ b \notin excused => store[b] = "complete"

(* Once nobody is at work, the disk_used of a user is the size of the      *)
(* bundles there are, if they were never worked on at the same time        *)
(* (bundle_model.py:2796: "Compute from scratch for simplicity").          *)
DiskUsedExact ==
    ~raced /\ Working = {} => disk_used = TotalSize({b \in Bundles : Present(b)})

(* The bundles that are ready take no more than the user's quota. *)
QuotaKept ==
    ~raced => MapThenSumSet(LAMBDA b : Size[b], {b \in Bundles : state[b] = "ready" /\ b \notin excused}) <= Quota

(* Nothing stays of the contents of a bundle that was deleted, unless it   *)
(* was deleted while somebody worked on it, or half-way.                   *)
NoOrphans ==
    \A b \in Bundles :
        state[b] = "deleted" /\ b \notin excused /\ (\A p \in Working : b \notin proc[p].bundles)
          => store[b] = "absent"

(* A make bundle does not stay in MAKING, also when the bundle manager     *)
(* died making it (bundle_manager.py:199).                                 *)
MakesEnd == \A k \in Makes : state[k] = "making" ~> state[k] # "making"
=============================================================================
