----------------------------- MODULE RestServer -----------------------------
(***************************************************************************)
(* The REST handlers that touch the state of run bundles: worker check-in  *)
(* (codalab/rest/workers.py), bundle actions (rest/bundle_actions.py), the *)
(* deletion of bundles and the upload of their contents (rest/bundles.py). *)
(* A handler reads in one transaction and writes in a later one; what it   *)
(* read is kept in the record of the request.  A worker waits for the      *)
(* answer to its check-in, holding its lock; urlopen gives up after a      *)
(* timeout, and the handler of the abandoned request goes on beside those  *)
(* of later ones.                                                          *)
(***************************************************************************)
EXTENDS BundleManager

VARIABLES
    checkins,   \* check-in requests being handled
    kills,      \* bundle actions being handled
    deletes,    \* deletions that passed the check of the states
    uploads     \* uploads of results, pending or with their result

restVars == <<checkins, kills, deletes, uploads>>

(* One entry of request.json["runs"]: BundleCheckinState. *)
Report == [bundle : Bundles, state : {"preparing", "running", "finalizing", "staged"},
           failure : Failure]
Checkin == [from : Workers, abandoned : BOOLEAN, terminating : BOOLEAN,
            registered : BOOLEAN, runs : SUBSET Report]
Upload == [from : Workers, bundle : Bundles, result : {"pending", "ok", "failed"}]
Kill == [bundle : Bundles, looked : BOOLEAN, workers : SUBSET Workers]

RestTypeOK ==
    /\ checkins \subseteq Checkin
    /\ kills \subseteq Kill
    /\ deletes \subseteq Bundles
    /\ uploads \subseteq Upload

RestInit ==
    /\ checkins = {}
    /\ kills = {}
    /\ deletes = {}
    /\ uploads = {}

-----------------------------------------------------------------------------
Waiting(w) == \E c \in checkins : c.from = w /\ ~c.abandoned

(* checkin(worker_id): register the worker, then one transaction per run.  *)

RegisterWorker(c) ==
    /\ c \in checkins
    /\ ~c.registered
    /\ WorkerCheckin(c.from, c.terminating)
    /\ checkins' = (checkins \ {c}) \union
                     IF c.runs = {} THEN {} ELSE {[c EXCEPT !.registered = TRUE]}
    /\ UNCHANGED <<kills, deletes, uploads, mailbox>>

AfterReport(c, r) ==
    (checkins \ {c}) \union
        IF c.runs = {r} THEN {} ELSE {[c EXCEPT !.runs = @ \ {r}]}

WriteReport(c, r) ==
    /\ c \in checkins /\ c.registered /\ r \in c.runs
    /\ BundleCheckin(c.from, r)
    /\ checkins' = AfterReport(c, r)
    /\ UNCHANGED <<kills, deletes, uploads>>

HandleReport(c, r) == WriteReport(c, r) /\ UNCHANGED mailbox

(* A bundle whose owner is over a quota gets its run killed. *)
KillOverQuota(c, r) ==
    /\ "quota" \in Faults
    /\ WriteReport(c, r)
    /\ Deliver(c.from, "kill", r.bundle)

(* The bundle is gone, or the transaction broke a constraint and was       *)
(* rolled back: the exception is logged and the next run handled.          *)
ReportRejected(c, r) ==
    /\ c \in checkins /\ c.registered /\ r \in c.runs
    /\ \/ ~Exists(r.bundle)
       \/ /\ state[r.bundle] = "worker_offline" /\ r.state # "staged"
          /\ Claimed(r.bundle) \/ worker[c.from] = "absent"
    /\ checkins' = AfterReport(c, r)
    /\ UNCHANGED <<kills, deletes, uploads, mailbox, dbVars>>

(* The worker gives up waiting.  Bound: one abandoned request per worker. *)
AbandonCheckin(c) ==
    /\ "timeout" \in Faults
    /\ c \in checkins /\ ~c.abandoned
    /\ \A d \in checkins : d.from = c.from => ~d.abandoned
    /\ checkins' = (checkins \ {c}) \union {[c EXCEPT !.abandoned = TRUE]}
    /\ UNCHANGED <<kills, deletes, uploads, mailbox, dbVars>>

(* The request is lost, or the server dies before it has handled it all. *)
LoseCheckin(c) ==
    /\ "checkin_lost" \in Faults
    /\ c \in checkins
    /\ checkins' = checkins \ {c}
    /\ UNCHANGED <<kills, deletes, uploads, mailbox, dbVars>>

-----------------------------------------------------------------------------
(* create_bundle_actions for the action kill: the state is checked, then   *)
(* the worker looked up, then the message sent or the state written.       *)

KillRequest(b) ==
    /\ "kill" \in Faults
    /\ state[b] \notin FinalStates \union {"deleted"}
    /\ kills' = kills \union {[bundle |-> b, looked |-> FALSE, workers |-> {}]}
    /\ UNCHANGED <<checkins, deletes, uploads, mailbox, dbVars>>

KillLookup(k) ==
    /\ k \in kills /\ ~k.looked
    /\ kills' = (kills \ {k})
                  \union {[k EXCEPT !.looked = TRUE, !.workers = Claimants(k.bundle)]}
    /\ UNCHANGED <<checkins, deletes, uploads, mailbox, dbVars>>

KillSend(k, w) ==
    /\ k \in kills /\ k.looked /\ w \in k.workers
    /\ kills' = kills \ {k}
    /\ Deliver(w, "kill", k.bundle)
    /\ UNCHANGED <<checkins, deletes, uploads, dbVars>>

(* The worker cannot be reached: the request fails. *)
KillFails(k) ==
    /\ "send" \in Faults
    /\ k \in kills /\ k.looked /\ k.workers # {}
    /\ kills' = kills \ {k}
    /\ UNCHANGED <<checkins, deletes, uploads, mailbox, dbVars>>

KillOnServer(k) ==
    /\ k \in kills /\ k.looked /\ k.workers = {}
    /\ kills' = kills \ {k}
    /\ IF Exists(k.bundle) THEN UpdateState(k.bundle, "killed") ELSE UNCHANGED dbVars
    /\ UNCHANGED <<checkins, deletes, uploads, mailbox>>

-----------------------------------------------------------------------------
(* delete_bundles: bundles in an active state are refused, the rest is     *)
(* deleted after the checks on worksheets and permissions.                 *)

DeleteRequest(b) ==
    /\ "delete" \in Faults
    /\ state[b] \notin ActiveStates \union {"deleted"}
    /\ deletes' = deletes \union {b}
    /\ UNCHANGED <<checkins, kills, uploads, mailbox, dbVars>>

DeleteApply(b) ==
    /\ b \in deletes
    /\ deletes' = deletes \ {b}
    /\ DeleteBundle(b)
    /\ UNCHANGED <<checkins, kills, uploads, mailbox>>

-----------------------------------------------------------------------------
(* _update_bundle_contents_blob, as a worker that runs the bundle calls it *)
(* (finalize_on_success=0, finalize_on_failure=0).                         *)

Answer(u, result) ==
    /\ u \in uploads /\ u.result = "pending"
    /\ uploads' = (uploads \ {u}) \union {[u EXCEPT !.result = result]}
    /\ UNCHANGED <<checkins, kills, deletes, mailbox>>

UploadForbidden(u) ==
    /\ state[u.bundle] \in FinalStates \union {"deleted"}
    /\ Answer(u, "failed")
    /\ UNCHANGED dbVars

UploadSucceeds(u) == Answer(u, "ok") /\ UNCHANGED dbVars

(* UsageError, most likely the disk quota: the bundle fails at once. *)
UploadRefused(u) ==
    /\ "upload" \in Faults
    /\ Answer(u, "failed")
    /\ UpdateStateAndFailure(u.bundle, "failed", "failed")

(* Any other exception: only the failure message is written.  The worker   *)
(* tries again up to COMMAND_RETRY_ATTEMPTS times, and then gives up.      *)
UploadBreaks(u) ==
    /\ "upload" \in Faults
    /\ u \in uploads /\ u.result = "pending"
    /\ UpdateStateAndFailure(u.bundle, state[u.bundle], "failed")
    /\ \/ Answer(u, "failed")
       \/ UNCHANGED <<restVars, mailbox>>

-----------------------------------------------------------------------------
RestNext ==
    \/ \E c \in checkins :
         \/ RegisterWorker(c)
         \/ \E r \in c.runs : HandleReport(c, r) \/ ReportRejected(c, r)
    \/ \E k \in kills : \/ KillLookup(k) \/ KillOnServer(k)
                        \/ \E w \in Workers : KillSend(k, w)
    \/ \E u \in uploads : UploadForbidden(u) \/ UploadSucceeds(u)
    \/ \E b \in Bundles : DeleteApply(b)

RestFault ==
    \/ \E c \in checkins :
         \/ AbandonCheckin(c) \/ LoseCheckin(c)
         \/ \E r \in c.runs : KillOverQuota(c, r)
    \/ \E u \in uploads : UploadRefused(u) \/ UploadBreaks(u)
    \/ \E k \in kills : KillFails(k)
    \/ \E b \in Bundles : KillRequest(b) \/ DeleteRequest(b)
=============================================================================
