------------------------------- MODULE Worker -------------------------------
(***************************************************************************)
(* The workers (codalab/worker/worker.py, worker_run_state.py): the main   *)
(* loop checks in and moves the runs through their stages, the listening   *)
(* thread processes messages, both under one lock, so that each of their   *)
(* steps is one action here.  The stages CLEANING_UP and RUNNING, which    *)
(* report the same state, are one; a run in FINISHED is gone.              *)
(***************************************************************************)
EXTENDS RestServer

CONSTANT SharedFileSystem   \* workers that write results to the bundle store

ASSUME SharedAssumption == SharedFileSystem \subseteq Workers

VARIABLES
    runs,      \* runs[w][b]: the run of bundle b in the memory of worker w
    saved,     \* what worker-state.json of w holds
    wstate     \* the process: up, restaging its runs, or down

workerVars == <<runs, saved, wstate>>

Stage == {"none", "preparing", "running", "uploading", "finalizing", "restaged"}
Run == [stage : Stage, killed : BOOLEAN, restaged : BOOLEAN, finalized : BOOLEAN,
        failure : Failure]

NoRun == [stage |-> "none", killed |-> FALSE, restaged |-> FALSE, finalized |-> FALSE,
          failure |-> "none"]
NewRun == [NoRun EXCEPT !.stage = "preparing"]

WorkerTypeOK ==
    /\ runs \in [Workers -> [Bundles -> Run]]
    /\ saved \in [Workers -> [Bundles -> Run]]
    /\ wstate \in [Workers -> {"up", "restaging", "down"}]

WorkerInit ==
    /\ runs = [w \in Workers |-> [b \in Bundles |-> NoRun]]
    /\ saved = runs
    /\ wstate = [w \in Workers |-> "up"]

HasRun(w, b) == runs[w][b].stage # "none"

(* The lock is held from the request of a check-in to its answer. *)
Free(w) == wstate[w] # "down" /\ ~Waiting(w)

(* The main loop saves its runs after every step of its own and before the *)
(* next; what the listening thread changes in between (a run that begins,  *)
(* is to be killed or is finalized) may be unsaved.  Where nothing can     *)
(* crash the file is read only after cleanup wrote it.                     *)
Saved(w) ==
    "crash" \in Faults =>
      \A b \in Bundles :
        /\ runs[w][b].stage \in {"preparing", saved[w][b].stage}
        /\ runs[w][b].restaged => saved[w][b].restaged

SetRun(w, b, r) ==
    /\ runs' = [runs EXCEPT ![w][b] = r]
    /\ UNCHANGED <<saved, wstate>>

-----------------------------------------------------------------------------
(* checkin: the report of all runs, RunStage.WORKER_STATE_TO_SERVER_STATE. *)

(* Mutants: a stage without its entry in WORKER_STATE_TO_SERVER_STATE, and *)
(* one with the wrong entry.                                               *)
ServerStateUnmapped(stage) ==
    IF stage = "uploading" THEN "running" ELSE stage
ServerStateNeverFinal(stage) ==
    CASE stage = "preparing" -> "preparing"
      [] stage \in {"running", "uploading", "finalizing"} -> "running"
      [] stage = "restaged" -> "staged"

ServerState(stage) ==
    CASE stage = "preparing" -> "preparing"
      [] stage \in {"running", "uploading"} -> "running"
      [] stage = "finalizing" -> "finalizing"
      [] stage = "restaged" -> "staged"

ReportOf(w, b) == [bundle |-> b, state |-> ServerState(runs[w][b].stage),
                   failure |-> runs[w][b].failure]

SendCheckin(w) ==
    /\ Free(w) /\ Saved(w)
    /\ checkins' = checkins \union
         {[from |-> w, abandoned |-> FALSE, terminating |-> wstate[w] = "restaging",
           registered |-> FALSE,
           runs |-> {ReportOf(w, b) : b \in {x \in Bundles : HasRun(w, x)}}]}
    /\ UNCHANGED <<kills, deletes, uploads, mailbox, dbVars, workerVars>>

-----------------------------------------------------------------------------
(* process_message: dropped while the worker terminates. *)

(* initialize_run: the worker asks start_bundle whether the bundle is      *)
(* still assigned to it.                                                   *)
AskToStart(w, m) ==
    /\ wstate[w] = "up" /\ Free(w)
    /\ m.to = w /\ m.type = "run"
    /\ Take(m)
    /\ TransitionPreparing(m.bundle, w)
    /\ UNCHANGED restVars

StartGranted(w, m) == AskToStart(w, m) /\ SetRun(w, m.bundle, NewRun)

StartAnswerLost(w, m) ==
    /\ "lost_message" \in Faults
    /\ AskToStart(w, m)
    /\ UNCHANGED workerVars

StartRefused(w, m) ==
    /\ wstate[w] = "up" /\ Free(w)
    /\ m.to = w /\ m.type = "run"
    /\ Take(m)
    /\ w \notin Claimants(m.bundle)
    /\ UNCHANGED <<dbVars, restVars, workerVars>>

ReceiveKill(w, m) ==
    /\ wstate[w] = "up" /\ Free(w)
    /\ m.to = w /\ m.type = "kill"
    /\ Take(m)
    /\ IF HasRun(w, m.bundle)
         THEN SetRun(w, m.bundle, [runs[w][m.bundle] EXCEPT !.killed = TRUE])
         ELSE UNCHANGED workerVars
    /\ UNCHANGED <<dbVars, restVars>>

ReceiveMarkFinalized(w, m) ==
    /\ wstate[w] = "up" /\ Free(w)
    /\ m.to = w /\ m.type = "mark_finalized"
    /\ Take(m)
    /\ IF HasRun(w, m.bundle)
         THEN SetRun(w, m.bundle, [runs[w][m.bundle] EXCEPT !.finalized = TRUE])
         ELSE UNCHANGED workerVars
    /\ UNCHANGED <<dbVars, restVars>>

DropMessage(w, m) ==
    /\ wstate[w] = "restaging" /\ Free(w)
    /\ m.to = w
    /\ Take(m)
    /\ UNCHANGED <<dbVars, restVars, workerVars>>

(* The connection breaks after the write, or the message is an error to    *)
(* the listening thread.                                                   *)
LoseMessage(w, m) ==
    /\ "lost_message" \in Faults
    /\ m.to = w
    /\ Take(m)
    /\ UNCHANGED <<dbVars, restVars, workerVars>>

-----------------------------------------------------------------------------
(* process_runs: the transitions of RunStateMachine. *)

(* finalize_run: a killed run fails with its kill message. *)
Finalized(r) == [r EXCEPT !.stage = "finalizing",
                          !.failure = IF r.killed THEN "killed" ELSE @]

Process(w, b, stage) ==
    /\ Free(w) /\ Saved(w)
    /\ runs[w][b].stage = stage
    /\ UNCHANGED <<dbVars, mailbox, checkins, kills, deletes>>

Undisturbed(w, b) == ~runs[w][b].killed /\ ~runs[w][b].restaged

BeginRunning(w, b) ==
    /\ Process(w, b, "preparing")
    /\ Undisturbed(w, b)
    /\ SetRun(w, b, [runs[w][b] EXCEPT !.stage = "running"])
    /\ UNCHANGED uploads

(* The image, a dependency or the container fails, or the run is killed    *)
(* before it has contents: there is nothing to upload.                     *)
EndPreparing(w, b) ==
    /\ Process(w, b, "preparing")
    /\ ~runs[w][b].restaged
    /\ SetRun(w, b, IF runs[w][b].killed THEN Finalized(runs[w][b])
                      ELSE Finalized([runs[w][b] EXCEPT !.failure = "failed"]))
    /\ UNCHANGED uploads

(* The container ends with or without a failure, or the run is killed; a   *)
(* limit on its time, memory or disk replaces the message of a kill.       *)
EndRunning(w, b) ==
    /\ Process(w, b, "running")
    /\ ~runs[w][b].restaged
    /\ \E r \in {[runs[w][b] EXCEPT !.failure = "none"], [runs[w][b] EXCEPT !.failure = "failed"],
               [runs[w][b] EXCEPT !.failure = "failed", !.killed = FALSE]} :
         SetRun(w, b, IF w \in SharedFileSystem THEN Finalized(r)
                        ELSE [r EXCEPT !.stage = "uploading"])
    /\ UNCHANGED uploads

Restage(w, b) ==
    /\ \E s \in {"preparing", "running", "uploading", "finalizing"} : Process(w, b, s)
    /\ runs[w][b].restaged
    /\ SetRun(w, b, [runs[w][b] EXCEPT !.stage = "restaged"])
    /\ UNCHANGED uploads

ForgetFinalized(w, b) ==
    /\ Process(w, b, "finalizing")
    /\ ~runs[w][b].restaged
    /\ runs[w][b].finalized
    /\ SetRun(w, b, NoRun)
    /\ UNCHANGED uploads

-----------------------------------------------------------------------------
(* _transition_from_UPLOADING_RESULTS: a thread uploads, the result it     *)
(* leaves is looked at in a later step.                                    *)

UploadBegin(w, b) ==
    /\ Process(w, b, "uploading")
    /\ ~runs[w][b].restaged
    /\ \A u \in uploads : u.from = w => u.bundle # b
    /\ uploads' = uploads \union {[from |-> w, bundle |-> b, result |-> "pending"]}
    /\ UNCHANGED workerVars

EndUploading(w, b) ==
    /\ Process(w, b, "uploading")
    /\ ~runs[w][b].restaged
    /\ \E u \in uploads :
         /\ u.from = w /\ u.bundle = b /\ u.result # "pending"
         /\ uploads' = uploads \ {u}
         /\ SetRun(w, b, IF u.result = "ok" THEN Finalized(runs[w][b])
                           ELSE Finalized([runs[w][b] EXCEPT !.failure = "failed"]))

-----------------------------------------------------------------------------
(* Termination, crashes and restarts. *)

SaveState(w) ==
    /\ "crash" \in Faults
    /\ Free(w)
    /\ saved[w] # runs[w]
    /\ saved' = [saved EXCEPT ![w] = runs[w]]
    /\ UNCHANGED <<runs, wstate, dbVars, restVars, mailbox>>

(* SIGTERM with --pass-down-termination. *)
TerminateAndRestage(w) ==
    /\ "restage" \in Faults
    /\ wstate[w] = "up"
    /\ wstate' = [wstate EXCEPT ![w] = "restaging"]
    /\ UNCHANGED <<runs, saved, dbVars, restVars, mailbox>>

(* check_termination: mark the runs that are not restaged yet; when there  *)
(* are none, drop the restaged ones and stop.                              *)
CheckTermination(w) ==
    /\ wstate[w] = "restaging" /\ Free(w) /\ Saved(w)
    /\ LET unfinished == {b \in Bundles : runs[w][b].stage \notin {"none", "restaged"}} IN
       IF unfinished # {}
         THEN /\ runs' = [runs EXCEPT ![w] = [b \in Bundles |->
                            IF b \in unfinished THEN [runs[w][b] EXCEPT !.restaged = TRUE]
                                                ELSE runs[w][b]]]
              /\ UNCHANGED <<saved, wstate>>
         ELSE /\ runs' = [runs EXCEPT ![w] = [b \in Bundles |-> NoRun]]
              /\ saved' = [saved EXCEPT ![w] = [b \in Bundles |-> NoRun]]
              /\ wstate' = [wstate EXCEPT ![w] = "down"]
    /\ UNCHANGED <<dbVars, restVars, mailbox>>

(* SIGTERM: the loop ends and cleanup saves the state. *)
Terminate(w) ==
    /\ "sigterm" \in Faults
    /\ wstate[w] = "up" /\ Free(w)
    /\ wstate' = [wstate EXCEPT ![w] = "down"]
    /\ saved' = [saved EXCEPT ![w] = runs[w]]
    /\ UNCHANGED <<runs, dbVars, restVars, mailbox>>

(* The process dies: what was not saved is lost, nobody waits any more.    *)
Crash(w) ==
    /\ "crash" \in Faults
    /\ wstate[w] # "down"
    /\ wstate' = [wstate EXCEPT ![w] = "down"]
    /\ runs' = [runs EXCEPT ![w] = saved[w]]
    /\ checkins' = {[c EXCEPT !.abandoned = @ \/ c.from = w] : c \in checkins}
    /\ UNCHANGED <<saved, kills, deletes, uploads, dbVars, mailbox>>

(* start: load_state.  The old connections are gone with their messages,   *)
(* the old threads with the results of their uploads: cleanup waits for    *)
(* them, a connection of a dead process breaks.                            *)
Restart(w) ==
    /\ wstate[w] = "down"
    /\ \A u \in uploads : u.from = w => u.result # "pending"
    /\ wstate' = [wstate EXCEPT ![w] = "up"]
    /\ runs' = [runs EXCEPT ![w] = saved[w]]
    /\ uploads' = {u \in uploads : u.from # w}
    /\ DropMailbox(w)
    /\ UNCHANGED <<saved, checkins, kills, deletes, dbVars>>

-----------------------------------------------------------------------------
WorkerNext ==
    \E w \in Workers :
      \/ SendCheckin(w) \/ SaveState(w) \/ CheckTermination(w) \/ Restart(w)
      \/ \E m \in mailbox :
           \/ StartGranted(w, m) \/ StartRefused(w, m)
           \/ ReceiveKill(w, m) \/ ReceiveMarkFinalized(w, m) \/ DropMessage(w, m)
      \/ \E b \in Bundles :
           \/ BeginRunning(w, b) \/ EndPreparing(w, b) \/ EndRunning(w, b)
           \/ Restage(w, b) \/ ForgetFinalized(w, b)
           \/ UploadBegin(w, b) \/ EndUploading(w, b)

WorkerFault ==
    \E w \in Workers :
      \/ TerminateAndRestage(w) \/ Terminate(w) \/ Crash(w)
      \/ \E m \in mailbox : StartAnswerLost(w, m) \/ LoseMessage(w, m)
=============================================================================
