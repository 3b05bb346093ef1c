------------------------------ MODULE Services ------------------------------
(***************************************************************************)
(* The services of the server that share nothing with each other in these  *)
(* models: the connections to a worker, the contents of a user's bundles,  *)
(* the items of a worksheet, the choice of workers, an upload to blob      *)
(* storage, reading a running bundle, a worker manager, what a worksheet   *)
(* shows.  One behaviour is about one of them, so that the states to check *)
(* are the sum of theirs and not the product.                              *)
(***************************************************************************)
EXTENDS WsServer, Contents, WorksheetItems, Scheduling, BlobUpload, WorkerReads,
        WorkerManager, Interpretation

VARIABLE service

servicesVars == <<service, wsVars, contentVars, itemVars, schedVars, uploadVars, readVars,
                 managerVars, interpretVars>>

TypeOK ==
    /\ service \in {"connections", "contents", "items", "scheduling", "upload", "reads",
                   "manager", "interpretation"}
    /\ WsTypeOK
    /\ ContentTypeOK
    /\ ItemsTypeOK
    /\ SchedTypeOK
    /\ UploadTypeOK
    /\ ReadTypeOK
    /\ ManagerTypeOK
    /\ InterpretTypeOK

(* At the start no action that is fair can be taken, except for the        *)
(* connection of a worker that is up.                                      *)
Init ==
    /\ service \in {"connections", "contents", "items", "scheduling", "upload", "reads",
                   "manager", "interpretation"}
    /\ WsInit /\ (up => service = "connections")
    /\ ContentInit
    /\ ItemsInit
    /\ SchedInit
    /\ UploadInit
    /\ ReadInit
    /\ ManagerInit
    /\ InterpretInit

Next ==
    /\ UNCHANGED service
    /\ \/ /\ service = "connections" /\ WsNext
          /\ UNCHANGED <<contentVars, itemVars, schedVars, uploadVars, readVars, managerVars,
                         interpretVars>>
       \/ /\ service = "contents" /\ ContentNext
          /\ UNCHANGED <<wsVars, itemVars, schedVars, uploadVars, readVars, managerVars,
                         interpretVars>>
       \/ /\ service = "items" /\ ItemsNext
          /\ UNCHANGED <<wsVars, contentVars, schedVars, uploadVars, readVars, managerVars,
                         interpretVars>>
       \/ /\ service = "scheduling" /\ SchedNext
          /\ UNCHANGED <<wsVars, contentVars, itemVars, uploadVars, readVars, managerVars,
                         interpretVars>>
       \/ /\ service = "upload" /\ UploadNext
          /\ UNCHANGED <<wsVars, contentVars, itemVars, schedVars, readVars, managerVars,
                         interpretVars>>
       \/ /\ service = "reads" /\ ReadNext
          /\ UNCHANGED <<wsVars, contentVars, itemVars, schedVars, uploadVars, managerVars,
                         interpretVars>>
       \/ /\ service = "manager" /\ ManagerNext
          /\ UNCHANGED <<wsVars, contentVars, itemVars, schedVars, uploadVars, readVars,
                         interpretVars>>
       \/ /\ service = "interpretation" /\ InterpretNext
          /\ UNCHANGED <<wsVars, contentVars, itemVars, schedVars, uploadVars, readVars,
                         managerVars>>

Spec ==
    /\ Init /\ [][Next]_servicesVars
    /\ WsFairness /\ ContentFairness /\ ManagerFairness
=============================================================================
