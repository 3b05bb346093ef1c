-------------------------- MODULE DocumentedClaims --------------------------
(***************************************************************************)
(* Statements the comments and docstrings of the code make about run       *)
(* bundles and that RunProtocol, a model of what the code does, violates.  *)
(***************************************************************************)
EXTENDS RunProtocol

(* "READY / FAILED, no worker_run DB entry: Finished" (docstring of        *)
(* _schedule_run_bundles): what is finished stays finished.  A check-in    *)
(* that reports FINALIZING and is handled after transition_bundle_finished *)
(* reopens the bundle, as transition_bundle_running looks at no state but  *)
(* WORKER_OFFLINE.                                                         *)
FinalIsFinished ==
    [][\A b \in Bundles : state[b] \in FinalStates =>
         state'[b] \in FinalStates \union {"deleted"}]_vars

(* finalize_on_failure=0 is there "to avoid letting transient errors       *)
(* during upload fail the bundles prematurely" (comment in                 *)
(* _update_bundle_contents_blob): a bundle whose run ended without a       *)
(* failure, its upload repeated, does not fail.  The failure message of    *)
(* the first attempt is written all the same and nothing clears it.        *)
RetriedUploadSucceeds ==
    \A b \in Bundles : state[b] = "failed" => b \notin succeeded

(* restage_bundle marks a run "so that it can be sent back to the STAGED   *)
(* state before the worker is terminated": the worker does not stop while  *)
(* the server still has its row.  check_termination stops, without another *)
(* check-in, as soon as all its runs are in RESTAGED.                      *)
RestagedBeforeExit ==
    [][\A w \in Workers : wstate[w] = "restaging" /\ wstate'[w] = "down" =>
         \A b \in Bundles : runs[w][b].stage = "restaged" => <<w, b>> \notin workerRun]_vars
=============================================================================
