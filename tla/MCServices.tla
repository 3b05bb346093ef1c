----------------------------- MODULE MCServices -----------------------------
EXTENDS Services, TLC

CONSTANTS u, v, k, a1, p, g, r1, r2

(* Two uploads, and a make bundle that copies one of them. *)
MCParents == k :> {u}
MCSize == [b \in {u, v, k} |-> 1]

(* One worker is CodaLab's, the other one belongs to the user. *)
MCOwner == p :> Root @@ g :> a1
MCMembers == [h \in {p, g} |-> {}]
MCCpus == p :> 2 @@ g :> 1
MCRunsOf == a1 :> {r1, r2}
MCRequestCpus == [r \in {r1, r2} |-> 1]
MCParallelQuota == a1 :> 1

(* The contents are uploaded in bigger pieces than they are indexed.*)
MCReadLengths == [t \in Threads |-> IF t = "file" THEN {2} ELSE {1}]
=============================================================================
