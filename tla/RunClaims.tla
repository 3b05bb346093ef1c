----------------------------- MODULE RunClaims -----------------------------
(***************************************************************************)
(* What the worker_run table promises, whatever goes wrong around it: a    *)
(* table of leases.  A bundle is leased to one worker at a time; a lease   *)
(* is never passed on, only given back and granted again; and a bundle     *)
(* that waits (to be staged, to be dispatched, for its worker to come      *)
(* back) or is gone is leased to nobody.                                   *)
(***************************************************************************)
CONSTANTS Bundles, Workers

VARIABLES
    claims,    \* {<<worker, bundle>>}
    waiting    \* the bundles that wait or are gone

vars == <<claims, waiting>>

Init == claims = {} /\ waiting = Bundles

(* A lease is granted only to a bundle that nobody holds. *)
Grant(w, b) ==
    /\ \A v \in Workers : <<v, b>> \notin claims
    /\ claims' = claims \union {<<w, b>>}
    /\ waiting' = waiting \ {b}

(* The lease ends; the bundle waits again, or has come to an end. *)
Release(b) ==
    /\ claims' = claims \ (Workers \X {b})
    /\ waiting' \in {waiting \union {b}, waiting \ {b}}

(* A worker is given up, and with it all its leases; their bundles do not  *)
(* wait before they are noticed.                                           *)
WorkerLost(w) ==
    /\ claims' = claims \ ({w} \X Bundles)
    /\ UNCHANGED waiting

(* A bundle stops waiting without a lease: it failed or was killed, or a   *)
(* worker reports a run that is not, or no longer, leased to it.           *)
Report(b) ==
    /\ waiting' = waiting \ {b}
    /\ UNCHANGED claims

Next ==
    \/ \E b \in Bundles : Release(b) \/ Report(b) \/ \E w \in Workers : Grant(w, b)
    \/ \E w \in Workers : WorkerLost(w)

Spec == Init /\ [][Next]_vars
=============================================================================
