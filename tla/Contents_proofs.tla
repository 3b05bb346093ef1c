--------------------------- MODULE Contents_proofs ----------------------------
(***************************************************************************)
(* Proofs about the contents of bundles, for any number of uploads, makes  *)
(* and requests, any sizes and any quota.                                  *)
(*                                                                         *)
(* ContentInv is about states and directories: what each process at work   *)
(* can rely on, for the bundles nobody else touches (the others are        *)
(* excused). SumInv is about data_size and disk_used, as long as no two    *)
(* processes were at work at once.                                         *)
(*                                                                         *)
(* Of each step there are up to three lemmas: what it does to the state in *)
(* the words of the invariants (...Does), that it keeps ContentInv         *)
(* (...Keeps) and that it keeps SumInv (...Sums).                          *)
(***************************************************************************)
EXTENDS Contents, Sums

-----------------------------------------------------------------------------
(* What a process works towards: where it goes on after taking the sum. *)
Stage(p) == IF proc[p].pc \in {"zero", "recount", "update"} THEN proc[p].then ELSE proc[p].pc

StoringStages == {"clean", "gather", "store", "writing", "measure", "enforce", "finish",
                  "fail", "reject", "remove"}

(* A process that stores works on one bundle. *)
OneEach ==
    \A p \in Procs :
        /\ proc[p].pc \in {"new", "idle"} => proc[p].bundles = {}
        /\ proc[p].pc \notin {"new", "idle"} /\ p \in Makes =>
               /\ proc[p].bundles = {p}
               /\ Stage(p) \in {"gather", "store", "writing", "measure", "enforce", "finish", "fail", "reject"}
               /\ proc[p].pc \in {"zero", "recount", "update"} => proc[p].then = "finish"
        /\ p \in Requests => proc[p].pc # "gather"
        /\ p \in Requests /\ Stage(p) \in StoringStages =>
               \E b \in Uploads : proc[p].bundles = {b}

(* A directory that is being written has its writer at work. *)
WriterKnown ==
    \A b \in Bundles : store[b] \in Procs =>
        proc[store[b]].pc = "writing" /\ b \in proc[store[b]].bundles

(* Of two that touch the same contents all bundles are excused. *)
Apart ==
    \A p, q \in Working : p # q =>
        \/ Touches(proc[p].bundles) \intersect Touches(proc[q].bundles) = {}
        \/ proc[p].bundles \union proc[q].bundles \subseteq excused

(* What a process that stores finds, unless it met another: its bundle is  *)
(* not ready yet, and the directory is as it left it.                      *)
StoringAlone ==
    \A p \in Working : \A b \in proc[p].bundles \ excused :
        /\ Stage(p) \in StoringStages => state[b] \notin {"ready", "deleted"}
        /\ p \in Makes => state[b] = "making"
        /\ Stage(p) = "store" => store[b] = "absent"
        /\ Stage(p) = "writing" => store[b] = p
        /\ Stage(p) \in {"measure", "enforce", "finish"} => store[b] = "complete"

(* The parents a make thread copies are as it saw them. *)
GatheredAlone ==
    \A k \in Makes \ excused : 
        /\ proc[k].pc = "gather" => \A d \in Parents[k] : store[d] \in {"absent", "complete"}
        /\ proc[k].pc \in {"store", "writing"} => \A d \in Parents[k] : store[d] = "complete"

(* What a process that deletes does next, and that it erases deleted       *)
(* bundles.                                                                *)
ErasedDeleted ==
    \A p \in Working :
        /\ proc[p].pc = "unsize" => proc[p].then \in {"delete", "erase"}
        /\ proc[p].pc = "unsize" /\ proc[p].then = "erase" => proc[p].bundles \subseteq excused
        /\ proc[p].pc = "erase" => \A b \in proc[p].bundles \ excused : state[b] = "deleted"
        /\ proc[p].pc = "zero" => proc[p].then \in {"idle", "store"}
        /\ proc[p].pc \in {"recount", "update"} => proc[p].then \in {"idle", "store", "enforce", "finish"}

(* Make bundles are staged when their parents are ready. *)
ParentsReady ==
    \A k \in Makes : state[k] \in {"staged", "making"} =>
        \A d \in Parents[k] \ excused : state[d] \in {"ready", "deleted"}

(* What is left of a deleted bundle is being erased. *)
DeletedErased ==
    \A b \in Bundles \ excused : state[b] = "deleted" /\ store[b] # "absent" =>
        \E p \in Procs : proc[p].pc = "erase" /\ b \in proc[p].bundles

ContentInv ==
    /\ ContentTypeOK /\ OneEach /\ WriterKnown /\ Apart /\ StoringAlone /\ GatheredAlone
    /\ ErasedDeleted /\ ParentsReady /\ ReadyHasContents /\ DeletedErased

-----------------------------------------------------------------------------
(* The disk space that the bundles there are take. *)
Total == TotalSize({b \in Bundles : Present(b)})

(* As long as no two processes were at work together (raced) the sums are  *)
(* exact.                                                                  *)
OneAtWork == ~raced => \A p, q \in Working : p = q

(* Who is about to write disk_used has the exact sum, and else it is       *)
(* written.                                                                *)
SumExact ==
    ~raced =>
      /\ \A p \in Working : proc[p].pc = "update" => proc[p].sum = Total
      /\ (\A p \in Working : proc[p].pc \notin {"recount", "update", "delete", "erase"}) =>
             disk_used = Total

Ready == {b \in Bundles : state[b] = "ready" /\ b \notin excused}
ReadySize == MapThenSumSet(LAMBDA b : Size[b], Ready)

(* A ready bundle is counted with its true size; and who will make one     *)
(* ready has compared it, with all that are ready, to the quota.           *)
Measured ==
    ~raced =>
      /\ \A b \in Ready : size[b] = Size[b] \/ \E p \in Working : proc[p].pc = "delete" /\ b \in proc[p].bundles
      /\ \A p \in Working : \A b \in proc[p].bundles \ excused :
           /\ (\/ proc[p].pc \in {"recount", "update"} /\ proc[p].then \in {"enforce", "finish"}
               \/ proc[p].pc = "finish" \/ (p \notin Makes /\ proc[p].pc = "enforce"))
              => size[b] = Size[b]
           /\ (proc[p].pc = "finish" \/ (p \notin Makes /\ proc[p].pc = "enforce"))
              => ReadySize + Size[b] <= disk_used
           /\ proc[p].pc = "zero" => state[b] # "ready"
           /\ Stage(p) = "finish" \/ (p \in Makes /\ Stage(p) = "measure") => ReadySize + Size[b] <= Quota
      /\ ReadySize <= disk_used
      /\ ReadySize <= Quota

(* The total is a number. *)
LEMMA TotalSizeType == ASSUME ContentTypeOK PROVE TotalSize({b \in Bundles : Present(b)}) \in Nat
<1> DEFINE P == {b \in Bundles : Present(b)}
<1>1. IsFiniteSet(P)
  BY FiniteAssumption, FS_Union, FS_Subset DEF Bundles
<1>2. \A b \in P : size[b] \in Nat
  BY DEF ContentTypeOK
<1>3. TotalSize(P) = SumOver(size, P)
  BY DEF TotalSize, SumOver
<1>4. SumOver(size, P) \in Nat
  BY <1>1, <1>2, SumSubset
<1>5. QED
  BY <1>3, <1>4

(* A process goes on, or ends: what it is then, and nobody else changes.   *)
Moves(p, pc, then, bs) ==
    /\ proc'[p].pc = pc /\ proc'[p].then = then /\ proc'[p].bundles = bs
    /\ \A q \in Procs \ {p} : proc'[q] = proc[q]

Pcs == {"new", "idle", "clean", "zero", "store", "writing", "measure", "enforce", "gather",
        "finish", "fail", "reject", "remove", "unsize", "delete", "erase", "recount", "update"}

Thens == {"idle", "store", "enforce", "finish", "delete", "erase"}

(* The types of what a process knows. *)
LEMMA ProcFields ==
    ASSUME proc \in [Procs -> Work], NEW p \in Procs
    PROVE  /\ proc[p].pc \in Pcs /\ proc[p].then \in Thens /\ proc[p].then \in Pcs
           /\ proc[p].bundles \in SUBSET Bundles /\ proc[p].sum \in Nat
BY DEF Work, Pcs, Thens

(* Goto, and the others that follow, move one process. *)
LEMMA GotoMoves ==
    ASSUME proc \in [Procs -> Work], NEW p \in Procs, NEW pc \in Pcs, Goto(p, pc)
    PROVE  /\ proc' \in [Procs -> Work]
           /\ Moves(p, pc, "idle", IF pc = "idle" THEN {} ELSE proc[p].bundles)
<1>1. CASE pc = "idle"
  BY <1>1 DEF Goto, Idle, Work, Moves, Pcs
<1>2. CASE pc # "idle"
  BY <1>2 DEF Goto, Idle, Work, Moves, Pcs
<1>3. QED
  BY <1>1, <1>2

(* A process goes on to a step, and then to another. *)
LEMMA PcMoves ==
    ASSUME proc \in [Procs -> Work], NEW p \in Procs, NEW pc \in Pcs, NEW then \in Thens,
           proc' = [proc EXCEPT ![p].pc = pc, ![p].then = then]
    PROVE  proc' \in [Procs -> Work] /\ Moves(p, pc, then, proc[p].bundles)
BY ZenonT(60) DEF Work, Moves, Pcs, Thens

(* It takes the sum next. *)
LEMMA RecountMoves ==
    ASSUME proc \in [Procs -> Work], NEW p \in Procs, NEW then \in Thens,
           Recount(p, then)
    PROVE  proc' \in [Procs -> Work] /\ Moves(p, "recount", then, proc[p].bundles)
BY PcMoves DEF Recount, Pcs

(* It has taken the sum. *)
LEMMA ReadSizesMoves ==
    ASSUME ContentTypeOK, NEW p \in Procs, ReadSizes(p)
    PROVE  proc' \in [Procs -> Work] /\ Moves(p, "update", proc[p].then, proc[p].bundles)
BY TotalSizeType, ZenonT(60) DEF ReadSizes, Work, Moves, ContentTypeOK

(* A process starts to work. *)
LEMMA StartMoves ==
    ASSUME proc \in [Procs -> Work], NEW p \in Procs, NEW pc \in Pcs, NEW then \in Thens,
           NEW bs \in SUBSET Bundles, Start(p, pc, then, bs)
    PROVE  /\ proc' \in [Procs -> Work] /\ Moves(p, pc, then, bs)
           /\ proc[p].pc \in {"new", "idle"} /\ raced' = (raced \/ Working # {})
BY DEF Start, Work, Moves, Pcs, New, Idle, Thens

(* It removes a directory and forgets its size, or ends. *)
LEMMA RemoveContentsMoves ==
    ASSUME ContentTypeOK, NEW p \in Procs, NEW b \in Bundles, NEW then \in {"idle", "store"},
           RemoveContents(p, b, then)
    PROVE  /\ proc' \in [Procs -> Work]
           /\ \/ Moves(p, then, "idle", IF then = "idle" THEN {} ELSE proc[p].bundles)
              \/ Moves(p, "zero", then, proc[p].bundles)
           /\ store' = [store EXCEPT ![b] = "absent"]
           /\ UNCHANGED <<state, size, disk_used, manager, failures, excused, raced>>
<1>1. CASE store[b] = "absent"
  BY <1>1, GotoMoves DEF RemoveContents, ContentTypeOK, Pcs, Thens
<1>2. CASE store[b] # "absent"
  BY <1>2, PcMoves, ZenonT(60) DEF RemoveContents, ContentTypeOK, Pcs, Thens
<1>3. QED
  BY <1>1, <1>2 DEF RemoveContents

(* What is excused are bundles. *)
LEMMA OverlappedType ==
    ASSUME ContentTypeOK, NEW bs \in SUBSET Bundles
    PROVE  Overlapped(bs) \subseteq Bundles
BY DEF ContentTypeOK, Overlapped, Working, Work

(* Every step keeps the types. *)
LEMMA ContentTypeKept == ASSUME ContentTypeOK, ContentNext PROVE ContentTypeOK'
<1> USE ParentsAssumption, SizeAssumption DEF ContentTypeOK
<1>1. ASSUME NEW p \in Procs, ReadSizes(p) PROVE ContentTypeOK'
  BY <1>1, ReadSizesMoves DEF ReadSizes
<1>2. ASSUME NEW p \in Procs, WriteDiskUsed(p) PROVE ContentTypeOK'
  BY <1>2, GotoMoves, ProcFields DEF WriteDiskUsed
<1>3. ASSUME NEW p \in Procs, NEW b \in Bundles, BeginWrite(p, b) PROVE ContentTypeOK'
  BY <1>3, GotoMoves, RecountMoves DEF BeginWrite, Pcs
<1>4. ASSUME NEW p \in Procs, NEW b \in Bundles, EndWrite(p, b) PROVE ContentTypeOK'
  BY <1>4, GotoMoves, RecountMoves DEF EndWrite, Pcs
<1>5. ASSUME NEW p \in Procs, NEW b \in Bundles, WriteFails(p, b) PROVE ContentTypeOK'
  BY <1>5, GotoMoves, RecountMoves DEF WriteFails, Pcs, Failure
<1>6. ASSUME NEW p \in Procs, NEW b \in Bundles, Measure(p, b) PROVE ContentTypeOK'
  BY <1>6, GotoMoves, RecountMoves DEF Measure, Pcs, Thens
<1>7. ASSUME NEW p \in Procs, NEW b \in Bundles, Enforce(p, b) PROVE ContentTypeOK'
  BY <1>7, GotoMoves, RecountMoves DEF Enforce, Pcs
<1>8. ASSUME NEW p \in Procs, NEW b \in Bundles, Finish(p, b) PROVE ContentTypeOK'
  BY <1>8, GotoMoves, RecountMoves DEF Finish, Pcs, SetState
<1>9. ASSUME NEW q \in Procs, NEW b \in Bundles, BeginUpload(q, b) PROVE ContentTypeOK'
  <2>1. {b} \in SUBSET Bundles /\ "clean" \in Pcs /\ "idle" \in Thens
    BY DEF Pcs, Thens
  <2>2. proc' \in [Procs -> Work] /\ raced' \in BOOLEAN /\ excused' \in SUBSET Bundles
    BY <1>9, <2>1, StartMoves, OverlappedType DEF BeginUpload
  <2>3. QED
    BY <1>9, <2>2 DEF BeginUpload
<1>10. ASSUME NEW q \in Procs, NEW b \in Bundles, Clean(q, b) PROVE ContentTypeOK'
  BY <1>10, RemoveContentsMoves DEF Clean, Pcs
<1>11. ASSUME NEW q \in Procs, NEW b \in Bundles, ZeroSize(q, b) PROVE ContentTypeOK'
  <2>1. proc' \in [Procs -> Work]
    BY <1>11, GotoMoves, RecountMoves, ProcFields DEF ZeroSize, Pcs
  <2>2. QED
    BY <1>11, <2>1 DEF ZeroSize
<1>12. ASSUME NEW q \in Procs, NEW b \in Bundles, FailUpload(q, b) PROVE ContentTypeOK'
  BY <1>12, GotoMoves, RecountMoves DEF FailUpload, SetState, Pcs
<1>13. ASSUME NEW q \in Procs, NEW b \in Bundles, RemoveFailed(q, b) PROVE ContentTypeOK'
  BY <1>13, RemoveContentsMoves DEF RemoveFailed, Pcs
<1>14. ASSUME NEW q \in Procs, RequestDies(q) PROVE ContentTypeOK'
  <2>1. proc' \in [Procs -> Work]
    BY <1>14, GotoMoves DEF RequestDies, Pcs
  <2>2. excused' \in SUBSET Bundles
    BY <1>14, ProcFields DEF RequestDies
  <2>3. QED
    BY <1>14, <2>1, <2>2 DEF RequestDies, Failure
<1>15. ASSUME NEW q \in Procs, NEW b \in Bundles, BeginDelete(q, b) PROVE ContentTypeOK'
  <2>1. PICK recursive, data_only \in BOOLEAN :
          /\ Start(q, "unsize", IF data_only THEN "erase" ELSE "delete", Relevant(b, recursive))
          /\ excused' = excused \union Overlapped(Relevant(b, recursive))
                           \union IF data_only THEN Relevant(b, recursive) ELSE {}
    BY <1>15 DEF BeginDelete
  <2>2. Relevant(b, recursive) \in SUBSET Bundles
    BY DEF Relevant, Descendants, Bundles
  <2>3. proc' \in [Procs -> Work] /\ raced' \in BOOLEAN
    <3>1. "unsize" \in Pcs /\ (IF data_only THEN "erase" ELSE "delete") \in Thens
      BY DEF Pcs, Thens
    <3>2. QED
      BY <2>1, <2>2, <3>1, StartMoves
  <2>4. QED
    BY <1>15, <2>1, <2>2, <2>3, OverlappedType DEF BeginDelete
<1>16. ASSUME NEW q \in Procs, UnsizeNamed(q) PROVE ContentTypeOK'
  <2>1. proc' \in [Procs -> Work]
    BY <1>16, GotoMoves, ProcFields DEF UnsizeNamed, Pcs
  <2>2. QED
    BY <1>16, <2>1 DEF UnsizeNamed
<1>17. ASSUME NEW q \in Procs, DeleteRows(q) PROVE ContentTypeOK'
  BY <1>17, GotoMoves, RecountMoves DEF DeleteRows, Pcs
<1>18. ASSUME NEW q \in Procs, Erase(q) PROVE ContentTypeOK'
  BY <1>18, RecountMoves DEF Erase, Thens
<1>19. ASSUME NEW k \in Makes, StageMake(k) PROVE ContentTypeOK'
  BY <1>19 DEF StageMake, SetState
<1>20. ASSUME NEW k \in Makes, RestageMake(k) PROVE ContentTypeOK'
  BY <1>20 DEF RestageMake, SetState
<1>21. ASSUME NEW k \in Makes, StartMake(k) PROVE ContentTypeOK'
  <2>1. {k} \in SUBSET Bundles /\ k \in Procs /\ "gather" \in Pcs /\ "idle" \in Thens
    BY DEF Bundles, Procs, Pcs, Thens
  <2>2. proc' \in [Procs -> Work] /\ raced' \in BOOLEAN /\ excused' \in SUBSET Bundles
    BY <1>21, <2>1, StartMoves, OverlappedType DEF StartMake
  <2>3. QED
    BY <1>21, <2>2 DEF StartMake, SetState
<1>22. ASSUME NEW k \in Makes, Gather(k) PROVE ContentTypeOK'
  BY <1>22, GotoMoves, RecountMoves DEF Gather, Pcs, Procs
<1>23. ASSUME NEW k \in Makes, FailMake(k) PROVE ContentTypeOK'
  <2>1. proc' \in [Procs -> Work]
    BY <1>23, GotoMoves DEF FailMake, Pcs, Procs
  <2>2. QED
    BY <1>23, <2>1 DEF FailMake, SetState
<1>24. CASE ManagerStops
  <2>1. proc' \in [Procs -> Work]
    BY <1>24 DEF ManagerStops, Idle, Work
  <2>2. store' \in [Bundles -> {"absent", "partial", "complete"} \union Procs]
    BY <1>24 DEF ManagerStops
  <2>3. raced' \in BOOLEAN
    BY <1>24 DEF ManagerStops
  <2>4. /\ failures' \in 0 .. MaxFailures /\ manager' \in BOOLEAN
        /\ UNCHANGED <<state, size, disk_used, excused>>
    <3>1. failures' \in 0 .. MaxFailures
      BY <1>24 DEF ManagerStops, Failure
    <3>2. QED
      BY <1>24, <3>1 DEF ManagerStops
  <2>5. QED
    BY <2>1, <2>2, <2>3, <2>4
<1>25. CASE ManagerStarts
  BY <1>25 DEF ManagerStarts
<1>26. QED
  BY <1>1, <1>2, <1>3, <1>4, <1>5, <1>6, <1>7, <1>8, <1>9, <1>10, <1>11, <1>12, <1>13, <1>14, <1>15, <1>16,
     <1>17, <1>18, <1>19, <1>20, <1>21, <1>22, <1>23, <1>24, <1>25
     DEF ContentNext, Request, Storing, Make, ManagerLoop, Procs
-----------------------------------------------------------------------------
(* A step of a process that is at work: it changes the state and the       *)
(* contents of its own bundles only.                                       *)
Local(p) ==
    /\ p \in Working
    /\ \A q \in Procs \ {p} : proc'[q] = proc[q]
    /\ \A c \in Bundles \ proc[p].bundles : state'[c] = state[c] /\ store'[c] = store[c]
    /\ excused \subseteq excused'

(* What it may be then. *)
OwnWork(p) ==
    \/ /\ proc'[p].pc = "idle" /\ proc'[p].bundles = {} /\ proc'[p].then = "idle"
    \/ /\ proc'[p].pc \notin {"new", "idle", "gather"} /\ proc'[p].bundles = proc[p].bundles
       /\ p \in Makes =>
            /\ Stage(p)' \in {"store", "writing", "measure", "enforce", "finish", "fail", "reject"}
            /\ proc'[p].pc \in {"zero", "recount", "update"} => proc'[p].then = "finish"
       /\ p \in Requests /\ Stage(p)' \in StoringStages => Stage(p) \in StoringStages

OwnWriter(p) ==
    \A b \in proc[p].bundles :
        \/ store'[b] \notin Procs
        \/ store'[b] = p /\ proc'[p].pc = "writing"
        \/ store'[b] = store[b] /\ store[b] # p

OwnBundle(p, b) ==
    /\ proc'[p].pc # "idle" =>
         /\ Stage(p)' \in StoringStages => state'[b] \notin {"ready", "deleted"}
         /\ p \in Makes => state'[b] = "making"
         /\ Stage(p)' = "store" => store'[b] = "absent"
         /\ Stage(p)' = "writing" => store'[b] = p
         /\ Stage(p)' \in {"measure", "enforce", "finish"} => store'[b] = "complete"
         /\ proc'[p].pc = "erase" => state'[b] = "deleted"
    /\ state[b] \in {"ready", "deleted"} => state'[b] \in {"ready", "deleted"}
    /\ state'[b] = "ready" => store'[b] = "complete"
    /\ state'[b] = "deleted" /\ store'[b] # "absent" => proc'[p].pc = "erase"

OwnGathered(p) ==
    p \in Makes /\ p \notin excused' /\ proc'[p].pc \in {"store", "writing"} =>
        \A d \in Parents[p] : store[d] = "complete"

OwnErased(p) ==
    /\ proc'[p].pc # "unsize"
    /\ proc'[p].pc = "zero" => proc'[p].then \in {"idle", "store"}
    /\ proc'[p].pc \in {"recount", "update"} => proc'[p].then \in {"idle", "store", "enforce", "finish"}

OwnMake(p) ==
    \A b \in proc[p].bundles \intersect Makes :
        state'[b] \in {"staged", "making"} => state[b] \in {"staged", "making"}

Own(p) ==
    /\ OwnWork(p) /\ OwnWriter(p) /\ OwnGathered(p) /\ OwnErased(p) /\ OwnMake(p)
    /\ \A b \in proc[p].bundles \ excused' : OwnBundle(p, b)

(* What is left of a deleted bundle is being erased by the one who works on it. *)
LEMMA OwnDeleted ==
    ASSUME ContentInv, NEW p \in Working, NEW b \in proc[p].bundles \ excused,
           state[b] = "deleted", store[b] # "absent"
    PROVE  proc[p].pc = "erase"
<1>1. b \in Bundles /\ p \in Procs
  BY ProcFields DEF ContentInv, ContentTypeOK, Working
<1>2. PICK q \in Procs : proc[q].pc = "erase" /\ b \in proc[q].bundles
  BY <1>1 DEF ContentInv, DeletedErased
<1>3. q \in Working /\ b \in Touches(proc[q].bundles) /\ b \in Touches(proc[p].bundles)
  BY <1>2 DEF Working, Touches
<1>4. q = p
  BY <1>3 DEF ContentInv, Apart
<1>5. QED
  BY <1>2, <1>4

LEMMA LocalKeeps ==
    ASSUME ContentInv, ContentTypeOK', NEW p \in Procs, Local(p), Own(p)
    PROVE  ContentInv'
<1>0. \A q \in Procs : proc[q].bundles \in SUBSET Bundles /\ proc'[q].bundles \in SUBSET Bundles
  BY DEF ContentInv, ContentTypeOK, Work
<1>1. OneEach'
  BY DEF ContentInv, OneEach, Local, Own, OwnWork, Stage, Working, StoringStages
<1>2. WriterKnown'
  BY DEF ContentInv, WriterKnown, Local, Own, OwnWriter, OwnWork, Working
<1>3. \A q \in Procs \ {p} : q \in Working' <=> q \in Working
  BY DEF Local, Working
<1>4. Apart'
  <2>1. Touches({}) = {} /\ Touches({})' = {}
    BY DEF Touches
  <2>2. proc'[p].bundles \in {{}, proc[p].bundles}
    BY DEF Own, OwnWork
  <2>3. QED
    BY <1>3, <2>1, <2>2 DEF ContentInv, Apart, Local, Touches, Working
<1>5. \A q \in Working \ {p} : \A b \in proc[q].bundles \ excused' : b \notin proc[p].bundles /\ b \in Bundles
  <2> SUFFICES ASSUME NEW q \in Working \ {p}, NEW b \in proc[q].bundles \ excused'
               PROVE  b \notin proc[p].bundles /\ b \in Bundles
    OBVIOUS
  <2>1. q \in Procs /\ b \in Bundles
    BY <1>0 DEF Working
  <2>2. b \notin excused /\ p \in Working
    BY DEF Local
  <2>3. b \in Touches(proc[q].bundles) /\ (b \in proc[p].bundles => b \in Touches(proc[p].bundles))
    BY DEF Touches
  <2>4. QED
    BY <2>1, <2>2, <2>3 DEF ContentInv, Apart
<1>6. \A k \in Makes \ excused' : k \in Working \ {p} =>
        /\ proc[k].bundles = {k}
        /\ \A d \in Parents[k] : d \notin proc[p].bundles /\ d \in Bundles
  <2> SUFFICES ASSUME NEW k \in Makes \ excused', k \in Working \ {p}, NEW d \in Parents[k]
               PROVE  proc[k].bundles = {k} /\ d \notin proc[p].bundles /\ d \in Bundles
    BY DEF ContentInv, OneEach, Working
  <2>1. proc[k].bundles = {k}
    BY DEF ContentInv, OneEach, Working
  <2>2. d \in Touches(proc[k].bundles) /\ d \in Bundles
    BY <2>1, ParentsAssumption DEF Touches, Bundles
  <2>3. QED
    BY <2>1, <2>2 DEF ContentInv, Apart, Touches, Local
<1>7. StoringAlone'
  <2> SUFFICES ASSUME NEW q \in Working', NEW b \in (proc[q].bundles \ excused)'
               PROVE  /\ Stage(q)' \in StoringStages => state'[b] \notin {"ready", "deleted"}
                      /\ q \in Makes => state'[b] = "making"
                      /\ Stage(q)' = "store" => store'[b] = "absent"
                      /\ Stage(q)' = "writing" => store'[b] = q
                      /\ Stage(q)' \in {"measure", "enforce", "finish"} => store'[b] = "complete"
    BY DEF StoringAlone, StoringStages
  <2>1. CASE q = p
    BY <2>1 DEF Own, OwnWork, OwnBundle, Working
  <2>2. CASE q # p
    <3>1. q \in Working /\ proc'[q] = proc[q] /\ b \in proc[q].bundles \ excused
      BY <1>3, <2>2 DEF Local, Working
    <3>2. state'[b] = state[b] /\ store'[b] = store[b]
      BY <1>5, <2>2, <3>1 DEF Local
    <3>3. QED
      BY <3>1, <3>2 DEF ContentInv, StoringAlone, Stage
  <2>3. QED
    BY <2>1, <2>2
<1>8. GatheredAlone'
  <2> SUFFICES ASSUME NEW k \in Makes \ excused'
               PROVE  /\ proc'[k].pc = "gather" => \A d \in Parents[k] : store'[d] \in {"absent", "complete"}
                      /\ proc'[k].pc \in {"store", "writing"} => \A d \in Parents[k] : store'[d] = "complete"
    BY DEF GatheredAlone
  <2>1. CASE k = p
    <3>1. \A d \in Parents[k] : store'[d] = store[d]
      <4>1. proc[p].bundles = {p} /\ \A d \in Parents[k] : d # p /\ d \in Bundles
        BY <2>1, ParentsAssumption, KindsAssumption DEF ContentInv, OneEach, Local, Working, Bundles
      <4>2. QED
        BY <4>1 DEF Local
    <3>2. QED
      BY <2>1, <3>1 DEF Own, OwnGathered, OwnWork
  <2>2. CASE k # p
    <3>1. k \in Procs /\ proc'[k] = proc[k]
      BY <2>2 DEF Local, Procs
    <3>2. CASE k \in Working
      <4>1. \A d \in Parents[k] : store'[d] = store[d]
        BY <1>6, <2>2, <3>2 DEF Local
      <4>2. QED
        BY <3>1, <4>1 DEF ContentInv, GatheredAlone, Local
    <3>3. CASE k \notin Working
      BY <3>1, <3>3 DEF Working
    <3>4. QED
      BY <3>2, <3>3
  <2>3. QED
    BY <2>1, <2>2
<1>9. ErasedDeleted'
  <2> SUFFICES ASSUME NEW q \in Working'
               PROVE  /\ proc'[q].pc = "unsize" => proc'[q].then \in {"delete", "erase"}
                      /\ proc'[q].pc = "unsize" /\ proc'[q].then = "erase" => proc'[q].bundles \subseteq excused'
                      /\ proc'[q].pc = "erase" => \A b \in proc'[q].bundles \ excused' : state'[b] = "deleted"
                      /\ proc'[q].pc = "zero" => proc'[q].then \in {"idle", "store"}
                      /\ proc'[q].pc \in {"recount", "update"} =>
                             proc'[q].then \in {"idle", "store", "enforce", "finish"}
    BY DEF ErasedDeleted
  <2>1. CASE q = p
    BY <2>1 DEF Own, OwnErased, OwnWork, OwnBundle
  <2>2. CASE q # p
    <3>1. q \in Working /\ proc'[q] = proc[q] /\ excused \subseteq excused'
      BY <1>3, <2>2 DEF Local, Working
    <3>2. \A b \in proc[q].bundles \ excused' : state'[b] = state[b]
      BY <1>5, <2>2, <3>1 DEF Local
    <3>3. QED
      BY <3>1, <3>2 DEF ContentInv, ErasedDeleted
  <2>3. QED
    BY <2>1, <2>2
<1>10. ParentsReady'
  <2> SUFFICES ASSUME NEW k \in Makes, state'[k] \in {"staged", "making"}, NEW d \in Parents[k] \ excused'
               PROVE  state'[d] \in {"ready", "deleted"}
    BY DEF ParentsReady
  <2>0. k \in Bundles /\ d \in Bundles
    BY ParentsAssumption DEF Bundles
  <2>1. state[k] \in {"staged", "making"}
    BY <2>0 DEF Own, OwnMake, Local
  <2>2. state[d] \in {"ready", "deleted"}
    BY <2>1 DEF ContentInv, ParentsReady, Local
  <2>3. QED
    BY <2>0, <2>2 DEF Own, OwnBundle, Local
<1>11. ReadyHasContents'
  <2> SUFFICES ASSUME NEW b \in Bundles, state'[b] = "ready", b \notin excused' PROVE store'[b] = "complete"
    BY DEF ReadyHasContents
  <2>1. QED
    BY DEF ContentInv, ReadyHasContents, Own, OwnBundle, Local
<1>12. DeletedErased'
  <2> SUFFICES ASSUME NEW b \in Bundles \ excused', state'[b] = "deleted", store'[b] # "absent"
               PROVE  \E q \in Procs : proc'[q].pc = "erase" /\ b \in proc'[q].bundles
    BY DEF DeletedErased
  <2>1. CASE b \in proc[p].bundles
    BY <2>1 DEF Own, OwnBundle, OwnWork
  <2>2. CASE b \notin proc[p].bundles
    BY <2>2 DEF ContentInv, DeletedErased, Local
  <2>3. QED
    BY <2>1, <2>2
<1>13. QED
  BY <1>1, <1>2, <1>4, <1>7, <1>8, <1>9, <1>10, <1>11, <1>12 DEF ContentInv
-----------------------------------------------------------------------------
(* The steps of the processes: what each changes, and that it keeps the    *)
(* invariant.                                                              *)

LEMMA ReadSizesDoes ==
    ASSUME ContentTypeOK, NEW p \in Procs, ReadSizes(p)
    PROVE  /\ proc[p].pc = "recount"
           /\ Moves(p, "update", proc[p].then, proc[p].bundles) /\ proc'[p].sum = Total
           /\ UNCHANGED <<state, store, excused, size, disk_used, raced>>
<1>1. proc' \in [Procs -> Work] /\ Moves(p, "update", proc[p].then, proc[p].bundles)
  BY ReadSizesMoves
<1>2. proc'[p].sum = Total
  BY DEF ReadSizes, ContentTypeOK, Total, Work
<1>3. QED
  BY <1>1, <1>2 DEF ReadSizes

LEMMA ReadSizesKeeps ==
    ASSUME ContentInv, ContentTypeOK', NEW p \in Procs, ReadSizes(p)
    PROVE  ContentInv'
<1>0. p \in Procs /\ ContentTypeOK /\ proc[p].bundles \in SUBSET Bundles
  BY ProcFields DEF Procs, ContentInv, ContentTypeOK
<1>1. /\ proc[p].pc = "recount"
      /\ Moves(p, "update", proc[p].then, proc[p].bundles) /\ proc'[p].sum = Total
      /\ UNCHANGED <<state, store, excused, size, disk_used, raced>>
  BY <1>0, ReadSizesDoes
<1> USE DEF Moves
<1>4. Local(p)
  BY <1>0, <1>1 DEF Local, Working, ContentTypeOK, Bundles
<1>5. OwnWork(p)
  BY <1>0, <1>1, KindsAssumption DEF OwnWork, Stage, ContentInv, OneEach, ErasedDeleted, Working, StoringStages
<1>6. OwnWriter(p)
  BY <1>0, <1>1, NamesAssumption DEF OwnWriter, ContentInv, WriterKnown, OneEach, Stage, StoringStages, ContentTypeOK, Procs
<1>7. OwnGathered(p)
  BY <1>0, <1>1 DEF OwnGathered, ContentInv, GatheredAlone, OneEach, ErasedDeleted, Working, Stage, StoringStages, Procs
<1>8. OwnErased(p)
  BY <1>0, <1>1 DEF OwnErased, ContentInv, ErasedDeleted, OneEach, Stage, Working
<1>9. OwnMake(p)
  BY <1>0, <1>1 DEF OwnMake, ContentTypeOK, Bundles
<1>10. ASSUME NEW c \in proc[p].bundles \ excused' PROVE OwnBundle(p, c)
  <2>1. c \in Bundles /\ p \in Working
    BY <1>0, <1>1 DEF ContentTypeOK, Work, Working
  <2>2. QED
    BY <1>0, <1>1, <1>5, <2>1, NamesAssumption, OwnDeleted DEF OwnBundle, OwnWork, ContentInv, OneEach, WriterKnown, StoringAlone, GatheredAlone, ErasedDeleted, ReadyHasContents, DeletedErased, Stage, StoringStages, Readable, ContentTypeOK, Procs
<1>11. QED
  BY <1>0, <1>4, <1>5, <1>6, <1>7, <1>8, <1>9, <1>10, LocalKeeps DEF Own

LEMMA WriteDiskUsedDoes ==
    ASSUME ContentTypeOK, NEW p \in Procs, WriteDiskUsed(p)
    PROVE  /\ proc[p].pc = "update"
           /\ Moves(p, proc[p].then, "idle", IF proc[p].then = "idle" THEN {} ELSE proc[p].bundles)
           /\ disk_used' = proc[p].sum
           /\ UNCHANGED <<state, store, excused, size, raced>>
BY GotoMoves, ProcFields DEF WriteDiskUsed, ContentTypeOK

LEMMA WriteDiskUsedKeeps ==
    ASSUME ContentInv, ContentTypeOK', NEW p \in Procs, WriteDiskUsed(p)
    PROVE  ContentInv'
<1>0. p \in Procs /\ ContentTypeOK /\ proc[p].bundles \in SUBSET Bundles
  BY ProcFields DEF Procs, ContentInv, ContentTypeOK
<1>1. /\ proc[p].pc = "update"
      /\ Moves(p, proc[p].then, "idle", IF proc[p].then = "idle" THEN {} ELSE proc[p].bundles)
      /\ disk_used' = proc[p].sum
      /\ UNCHANGED <<state, store, excused, size, raced>>
  BY <1>0, WriteDiskUsedDoes
<1> USE DEF Moves
<1>4. Local(p)
  BY <1>0, <1>1 DEF Local, Working, ContentTypeOK, Bundles
<1>5. OwnWork(p)
  BY <1>0, <1>1, KindsAssumption DEF OwnWork, Stage, ContentInv, OneEach, ErasedDeleted, Working, StoringStages
<1>6. OwnWriter(p)
  BY <1>0, <1>1, NamesAssumption DEF OwnWriter, ContentInv, WriterKnown, OneEach, Stage, StoringStages, ContentTypeOK, Procs
<1>7. OwnGathered(p)
  BY <1>0, <1>1 DEF OwnGathered, ContentInv, GatheredAlone, OneEach, ErasedDeleted, Working, Stage, StoringStages, Procs
<1>8. OwnErased(p)
  BY <1>0, <1>1 DEF OwnErased, ContentInv, ErasedDeleted, OneEach, Stage, Working
<1>9. OwnMake(p)
  BY <1>0, <1>1 DEF OwnMake, ContentTypeOK, Bundles
<1>10. ASSUME NEW c \in proc[p].bundles \ excused' PROVE OwnBundle(p, c)
  <2>1. c \in Bundles /\ p \in Working
    BY <1>0, <1>1 DEF ContentTypeOK, Work, Working
  <2>2. QED
    BY <1>0, <1>1, <1>5, <2>1, NamesAssumption, OwnDeleted DEF OwnBundle, OwnWork, ContentInv, OneEach, WriterKnown, StoringAlone, GatheredAlone, ErasedDeleted, ReadyHasContents, DeletedErased, Stage, StoringStages, Readable, ContentTypeOK, Procs
<1>11. QED
  BY <1>0, <1>4, <1>5, <1>6, <1>7, <1>8, <1>9, <1>10, LocalKeeps DEF Own

LEMMA BeginWriteDoes ==
    ASSUME ContentTypeOK, NEW p \in Procs, NEW b \in Bundles, BeginWrite(p, b)
    PROVE  /\ proc[p].pc = "store" /\ b \in proc[p].bundles
           /\ Moves(p, "writing", "idle", proc[p].bundles)
           /\ store' = [store EXCEPT ![b] = IF @ \in Procs THEN "partial" ELSE p]
           /\ UNCHANGED <<state, excused, size, disk_used, raced>>
BY GotoMoves DEF BeginWrite, At, ContentTypeOK, Pcs

LEMMA BeginWriteKeeps ==
    ASSUME ContentInv, ContentTypeOK', NEW p \in Procs, NEW b \in Bundles, BeginWrite(p, b)
    PROVE  ContentInv'
<1>0. p \in Procs /\ ContentTypeOK /\ proc[p].bundles \in SUBSET Bundles
  BY ProcFields DEF Procs, ContentInv, ContentTypeOK
<1>1. /\ proc[p].pc = "store" /\ b \in proc[p].bundles
      /\ Moves(p, "writing", "idle", proc[p].bundles)
      /\ store' = [store EXCEPT ![b] = IF @ \in Procs THEN "partial" ELSE p]
      /\ UNCHANGED <<state, excused, size, disk_used, raced>>
  BY <1>0, BeginWriteDoes
<1> USE DEF Moves
<1>4. Local(p)
  BY <1>0, <1>1 DEF Local, Working, ContentTypeOK, Bundles
<1>5. OwnWork(p)
  BY <1>0, <1>1, KindsAssumption DEF OwnWork, Stage, ContentInv, OneEach, ErasedDeleted, Working, StoringStages
<1>6. OwnWriter(p)
  BY <1>0, <1>1, NamesAssumption DEF OwnWriter, ContentInv, WriterKnown, OneEach, Stage, StoringStages, ContentTypeOK, Procs
<1>7. OwnGathered(p)
  BY <1>0, <1>1 DEF OwnGathered, ContentInv, GatheredAlone, OneEach, ErasedDeleted, Working, Stage, StoringStages, Procs
<1>8. OwnErased(p)
  BY <1>0, <1>1 DEF OwnErased, ContentInv, ErasedDeleted, OneEach, Stage, Working
<1>9. OwnMake(p)
  BY <1>0, <1>1 DEF OwnMake, ContentTypeOK, Bundles
<1>10. ASSUME NEW c \in proc[p].bundles \ excused' PROVE OwnBundle(p, c)
  <2>1. c \in Bundles /\ p \in Working
    BY <1>0, <1>1 DEF ContentTypeOK, Work, Working
  <2>2. QED
    BY <1>0, <1>1, <1>5, <2>1, NamesAssumption, OwnDeleted DEF OwnBundle, OwnWork, ContentInv, OneEach, WriterKnown, StoringAlone, GatheredAlone, ErasedDeleted, ReadyHasContents, DeletedErased, Stage, StoringStages, Readable, ContentTypeOK, Procs
<1>11. QED
  BY <1>0, <1>4, <1>5, <1>6, <1>7, <1>8, <1>9, <1>10, LocalKeeps DEF Own

LEMMA EndWriteDoes ==
    ASSUME ContentTypeOK, NEW p \in Procs, NEW b \in Bundles, EndWrite(p, b)
    PROVE  /\ proc[p].pc = "writing" /\ b \in proc[p].bundles
           /\ Moves(p, IF b \in Uploads THEN "measure" ELSE "enforce", "idle", proc[p].bundles)
           /\ store' = [store EXCEPT ![b] = IF @ # p THEN @ ELSE IF Readable(b) THEN "complete" ELSE "partial"]
           /\ UNCHANGED <<state, excused, size, disk_used, raced>>
BY GotoMoves DEF EndWrite, At, ContentTypeOK, Pcs

LEMMA EndWriteKeeps ==
    ASSUME ContentInv, ContentTypeOK', NEW p \in Procs, NEW b \in Bundles, EndWrite(p, b)
    PROVE  ContentInv'
<1>0. p \in Procs /\ ContentTypeOK /\ proc[p].bundles \in SUBSET Bundles
  BY ProcFields DEF Procs, ContentInv, ContentTypeOK
<1>1. /\ proc[p].pc = "writing" /\ b \in proc[p].bundles
      /\ Moves(p, IF b \in Uploads THEN "measure" ELSE "enforce", "idle", proc[p].bundles)
      /\ store' = [store EXCEPT ![b] = IF @ # p THEN @ ELSE IF Readable(b) THEN "complete" ELSE "partial"]
      /\ UNCHANGED <<state, excused, size, disk_used, raced>>
  BY <1>0, EndWriteDoes
<1> USE DEF Moves
<1>4. Local(p)
  BY <1>0, <1>1 DEF Local, Working, ContentTypeOK, Bundles
<1>5. OwnWork(p)
  BY <1>0, <1>1, KindsAssumption DEF OwnWork, Stage, ContentInv, OneEach, ErasedDeleted, Working, StoringStages
<1>6. OwnWriter(p)
  BY <1>0, <1>1, NamesAssumption DEF OwnWriter, ContentInv, WriterKnown, OneEach, Stage, StoringStages, ContentTypeOK, Procs
<1>7. OwnGathered(p)
  BY <1>0, <1>1 DEF OwnGathered, ContentInv, GatheredAlone, OneEach, ErasedDeleted, Working, Stage, StoringStages, Procs
<1>8. OwnErased(p)
  BY <1>0, <1>1 DEF OwnErased, ContentInv, ErasedDeleted, OneEach, Stage, Working
<1>9. OwnMake(p)
  BY <1>0, <1>1 DEF OwnMake, ContentTypeOK, Bundles
<1>10. ASSUME NEW c \in proc[p].bundles \ excused' PROVE OwnBundle(p, c)
  <2>1. c \in Bundles /\ p \in Working
    BY <1>0, <1>1 DEF ContentTypeOK, Work, Working
  <2>2. QED
    BY <1>0, <1>1, <1>5, <2>1, NamesAssumption, OwnDeleted DEF OwnBundle, OwnWork, ContentInv, OneEach, WriterKnown, StoringAlone, GatheredAlone, ErasedDeleted, ReadyHasContents, DeletedErased, Stage, StoringStages, Readable, ContentTypeOK, Procs
<1>11. QED
  BY <1>0, <1>4, <1>5, <1>6, <1>7, <1>8, <1>9, <1>10, LocalKeeps DEF Own

LEMMA WriteFailsDoes ==
    ASSUME ContentTypeOK, NEW p \in Procs, NEW b \in Bundles, WriteFails(p, b)
    PROVE  /\ proc[p].pc = "writing" /\ b \in proc[p].bundles
           /\ Moves(p, "fail", "idle", proc[p].bundles)
           /\ store' = [store EXCEPT ![b] = IF @ = p THEN "partial" ELSE @]
           /\ UNCHANGED <<state, excused, size, disk_used, raced>>
BY GotoMoves DEF WriteFails, At, ContentTypeOK, Pcs

LEMMA WriteFailsKeeps ==
    ASSUME ContentInv, ContentTypeOK', NEW p \in Procs, NEW b \in Bundles, WriteFails(p, b)
    PROVE  ContentInv'
<1>0. p \in Procs /\ ContentTypeOK /\ proc[p].bundles \in SUBSET Bundles
  BY ProcFields DEF Procs, ContentInv, ContentTypeOK
<1>1. /\ proc[p].pc = "writing" /\ b \in proc[p].bundles
      /\ Moves(p, "fail", "idle", proc[p].bundles)
      /\ store' = [store EXCEPT ![b] = IF @ = p THEN "partial" ELSE @]
      /\ UNCHANGED <<state, excused, size, disk_used, raced>>
  BY <1>0, WriteFailsDoes
<1> USE DEF Moves
<1>4. Local(p)
  BY <1>0, <1>1 DEF Local, Working, ContentTypeOK, Bundles
<1>5. OwnWork(p)
  BY <1>0, <1>1, KindsAssumption DEF OwnWork, Stage, ContentInv, OneEach, ErasedDeleted, Working, StoringStages
<1>6. OwnWriter(p)
  BY <1>0, <1>1, NamesAssumption DEF OwnWriter, ContentInv, WriterKnown, OneEach, Stage, StoringStages, ContentTypeOK, Procs
<1>7. OwnGathered(p)
  BY <1>0, <1>1 DEF OwnGathered, ContentInv, GatheredAlone, OneEach, ErasedDeleted, Working, Stage, StoringStages, Procs
<1>8. OwnErased(p)
  BY <1>0, <1>1 DEF OwnErased, ContentInv, ErasedDeleted, OneEach, Stage, Working
<1>9. OwnMake(p)
  BY <1>0, <1>1 DEF OwnMake, ContentTypeOK, Bundles
<1>10. ASSUME NEW c \in proc[p].bundles \ excused' PROVE OwnBundle(p, c)
  <2>1. c \in Bundles /\ p \in Working
    BY <1>0, <1>1 DEF ContentTypeOK, Work, Working
  <2>2. QED
    BY <1>0, <1>1, <1>5, <2>1, NamesAssumption, OwnDeleted DEF OwnBundle, OwnWork, ContentInv, OneEach, WriterKnown, StoringAlone, GatheredAlone, ErasedDeleted, ReadyHasContents, DeletedErased, Stage, StoringStages, Readable, ContentTypeOK, Procs
<1>11. QED
  BY <1>0, <1>4, <1>5, <1>6, <1>7, <1>8, <1>9, <1>10, LocalKeeps DEF Own

LEMMA MeasureDoes ==
    ASSUME ContentTypeOK, NEW p \in Procs, NEW b \in Bundles, Measure(p, b)
    PROVE  /\ proc[p].pc = "measure" /\ b \in proc[p].bundles
           /\ \/ /\ store[b] # "absent" /\ Present(b) /\ size' = [size EXCEPT ![b] = Size[b]]
                 /\ Moves(p, "recount", IF b \in Uploads THEN "enforce" ELSE "finish", proc[p].bundles)
              \/ UNCHANGED size /\ Moves(p, "fail", "idle", proc[p].bundles)
           /\ UNCHANGED <<state, store, excused, disk_used, raced>>
<1>1. CASE store[b] # "absent" /\ Present(b)
  BY <1>1, GotoMoves, RecountMoves DEF Measure, At, ContentTypeOK, Pcs, Thens
<1>2. CASE ~(store[b] # "absent" /\ Present(b))
  BY <1>2, GotoMoves, RecountMoves DEF Measure, At, ContentTypeOK, Pcs, Thens
<1>3. QED
  BY <1>1, <1>2

LEMMA MeasureKeeps ==
    ASSUME ContentInv, ContentTypeOK', NEW p \in Procs, NEW b \in Bundles, Measure(p, b)
    PROVE  ContentInv'
<1>0. p \in Procs /\ ContentTypeOK /\ proc[p].bundles \in SUBSET Bundles
  BY ProcFields DEF Procs, ContentInv, ContentTypeOK
<1>1. /\ proc[p].pc = "measure" /\ b \in proc[p].bundles
      /\ \/ /\ store[b] # "absent" /\ Present(b) /\ size' = [size EXCEPT ![b] = Size[b]]
            /\ Moves(p, "recount", IF b \in Uploads THEN "enforce" ELSE "finish", proc[p].bundles)
         \/ UNCHANGED size /\ Moves(p, "fail", "idle", proc[p].bundles)
      /\ UNCHANGED <<state, store, excused, disk_used, raced>>
  BY <1>0, MeasureDoes
<1> USE DEF Moves
<1>4. Local(p)
  BY <1>0, <1>1 DEF Local, Working, ContentTypeOK, Bundles
<1>5. OwnWork(p)
  BY <1>0, <1>1, KindsAssumption DEF OwnWork, Stage, ContentInv, OneEach, ErasedDeleted, Working, StoringStages
<1>6. OwnWriter(p)
  BY <1>0, <1>1, NamesAssumption DEF OwnWriter, ContentInv, WriterKnown, OneEach, Stage, StoringStages, ContentTypeOK, Procs
<1>7. OwnGathered(p)
  BY <1>0, <1>1 DEF OwnGathered, ContentInv, GatheredAlone, OneEach, ErasedDeleted, Working, Stage, StoringStages, Procs
<1>8. OwnErased(p)
  BY <1>0, <1>1 DEF OwnErased, ContentInv, ErasedDeleted, OneEach, Stage, Working
<1>9. OwnMake(p)
  BY <1>0, <1>1 DEF OwnMake, ContentTypeOK, Bundles
<1>10. ASSUME NEW c \in proc[p].bundles \ excused' PROVE OwnBundle(p, c)
  <2>1. c \in Bundles /\ p \in Working
    BY <1>0, <1>1 DEF ContentTypeOK, Work, Working
  <2>2. QED
    BY <1>0, <1>1, <1>5, <2>1, NamesAssumption, OwnDeleted DEF OwnBundle, OwnWork, ContentInv, OneEach, WriterKnown, StoringAlone, GatheredAlone, ErasedDeleted, ReadyHasContents, DeletedErased, Stage, StoringStages, Readable, ContentTypeOK, Procs
<1>11. QED
  BY <1>0, <1>4, <1>5, <1>6, <1>7, <1>8, <1>9, <1>10, LocalKeeps DEF Own

LEMMA EnforceDoes ==
    ASSUME ContentTypeOK, NEW p \in Procs, NEW b \in Bundles, Enforce(p, b)
    PROVE  /\ proc[p].pc = "enforce" /\ b \in proc[p].bundles
           /\ \/ \E pc \in {"fail", "reject"} : Moves(p, pc, "idle", proc[p].bundles)
              \/ /\ Size[b] + disk_used <= Quota
                 /\ Moves(p, IF b \in Uploads THEN "finish" ELSE "measure", "idle", proc[p].bundles)
           /\ UNCHANGED <<state, store, excused, size, disk_used, raced>>
<1>1. proc \in [Procs -> Work] /\ Size[b] \in Nat /\ disk_used \in Nat /\ Quota \in Nat /\ {"fail", "reject", "finish", "measure"} \subseteq Pcs
  BY SizeAssumption DEF ContentTypeOK, Pcs
<1>2. CASE store[b] = "absent"
  BY <1>1, <1>2, GotoMoves DEF Enforce, At
<1>3. CASE store[b] # "absent" /\ Size[b] + disk_used > Quota
  BY <1>1, <1>3, GotoMoves DEF Enforce, At
<1>4. CASE store[b] # "absent" /\ ~(Size[b] + disk_used > Quota)
  <2>1. Goto(p, IF b \in Uploads THEN "finish" ELSE "measure")
    BY <1>4 DEF Enforce
  <2>2. Size[b] + disk_used <= Quota
    BY <1>1, <1>4
  <2>3. QED
    BY <1>1, <2>1, <2>2, GotoMoves DEF Enforce, At
<1>5. QED
  BY <1>2, <1>3, <1>4

LEMMA EnforceKeeps ==
    ASSUME ContentInv, ContentTypeOK', NEW p \in Procs, NEW b \in Bundles, Enforce(p, b)
    PROVE  ContentInv'
<1>0. p \in Procs /\ ContentTypeOK /\ proc[p].bundles \in SUBSET Bundles
  BY ProcFields DEF Procs, ContentInv, ContentTypeOK
<1>1. /\ proc[p].pc = "enforce" /\ b \in proc[p].bundles
      /\ \/ \E pc \in {"fail", "reject"} : Moves(p, pc, "idle", proc[p].bundles)
         \/ /\ Size[b] + disk_used <= Quota
            /\ Moves(p, IF b \in Uploads THEN "finish" ELSE "measure", "idle", proc[p].bundles)
      /\ UNCHANGED <<state, store, excused, size, disk_used, raced>>
  BY <1>0, EnforceDoes
<1> USE DEF Moves
<1>4. Local(p)
  BY <1>0, <1>1 DEF Local, Working, ContentTypeOK, Bundles
<1>5. OwnWork(p)
  BY <1>0, <1>1, KindsAssumption DEF OwnWork, Stage, ContentInv, OneEach, ErasedDeleted, Working, StoringStages
<1>6. OwnWriter(p)
  BY <1>0, <1>1, NamesAssumption DEF OwnWriter, ContentInv, WriterKnown, OneEach, Stage, StoringStages, ContentTypeOK, Procs
<1>7. OwnGathered(p)
  BY <1>0, <1>1 DEF OwnGathered, ContentInv, GatheredAlone, OneEach, ErasedDeleted, Working, Stage, StoringStages, Procs
<1>8. OwnErased(p)
  BY <1>0, <1>1 DEF OwnErased, ContentInv, ErasedDeleted, OneEach, Stage, Working
<1>9. OwnMake(p)
  BY <1>0, <1>1 DEF OwnMake, ContentTypeOK, Bundles
<1>10. ASSUME NEW c \in proc[p].bundles \ excused' PROVE OwnBundle(p, c)
  <2>1. c \in Bundles /\ p \in Working
    BY <1>0, <1>1 DEF ContentTypeOK, Work, Working
  <2>2. QED
    BY <1>0, <1>1, <1>5, <2>1, NamesAssumption, OwnDeleted DEF OwnBundle, OwnWork, ContentInv, OneEach, WriterKnown, StoringAlone, GatheredAlone, ErasedDeleted, ReadyHasContents, DeletedErased, Stage, StoringStages, Readable, ContentTypeOK, Procs
<1>11. QED
  BY <1>0, <1>4, <1>5, <1>6, <1>7, <1>8, <1>9, <1>10, LocalKeeps DEF Own

LEMMA FinishDoes ==
    ASSUME ContentTypeOK, NEW p \in Procs, NEW b \in Bundles, Finish(p, b)
    PROVE  /\ proc[p].pc = "finish" /\ b \in proc[p].bundles
           /\ Moves(p, "idle", "idle", {})
           /\ state' \in {state, [state EXCEPT ![b] = IF @ = "deleted" THEN @ ELSE "ready"]}
           /\ UNCHANGED <<store, excused, size, disk_used, raced>>
BY GotoMoves DEF Finish, At, ContentTypeOK, SetState, Pcs

LEMMA FinishKeeps ==
    ASSUME ContentInv, ContentTypeOK', NEW p \in Procs, NEW b \in Bundles, Finish(p, b)
    PROVE  ContentInv'
<1>0. p \in Procs /\ ContentTypeOK /\ proc[p].bundles \in SUBSET Bundles
  BY ProcFields DEF Procs, ContentInv, ContentTypeOK
<1>1. /\ proc[p].pc = "finish" /\ b \in proc[p].bundles
      /\ Moves(p, "idle", "idle", {})
      /\ state' \in {state, [state EXCEPT ![b] = IF @ = "deleted" THEN @ ELSE "ready"]}
      /\ UNCHANGED <<store, excused, size, disk_used, raced>>
  BY <1>0, FinishDoes
<1> USE DEF Moves
<1>4. Local(p)
  BY <1>0, <1>1 DEF Local, Working, ContentTypeOK, Bundles
<1>5. OwnWork(p)
  BY <1>0, <1>1, KindsAssumption DEF OwnWork, Stage, ContentInv, OneEach, ErasedDeleted, Working, StoringStages
<1>6. OwnWriter(p)
  BY <1>0, <1>1, NamesAssumption DEF OwnWriter, ContentInv, WriterKnown, OneEach, Stage, StoringStages, ContentTypeOK, Procs
<1>7. OwnGathered(p)
  BY <1>0, <1>1 DEF OwnGathered, ContentInv, GatheredAlone, OneEach, ErasedDeleted, Working, Stage, StoringStages, Procs
<1>8. OwnErased(p)
  BY <1>0, <1>1 DEF OwnErased, ContentInv, ErasedDeleted, OneEach, Stage, Working
<1>9. OwnMake(p)
  BY <1>0, <1>1 DEF OwnMake, ContentTypeOK, Bundles
<1>10. ASSUME NEW c \in proc[p].bundles \ excused' PROVE OwnBundle(p, c)
  <2>1. c \in Bundles /\ p \in Working
    BY <1>0, <1>1 DEF ContentTypeOK, Work, Working
  <2>2. QED
    BY <1>0, <1>1, <1>5, <2>1, NamesAssumption, OwnDeleted DEF OwnBundle, OwnWork, ContentInv, OneEach, WriterKnown, StoringAlone, GatheredAlone, ErasedDeleted, ReadyHasContents, DeletedErased, Stage, StoringStages, Readable, ContentTypeOK, Procs
<1>11. QED
  BY <1>0, <1>4, <1>5, <1>6, <1>7, <1>8, <1>9, <1>10, LocalKeeps DEF Own

LEMMA CleanDoes ==
    ASSUME ContentTypeOK, NEW p \in Procs, NEW b \in Bundles, Clean(p, b)
    PROVE  /\ proc[p].pc = "clean" /\ b \in proc[p].bundles
           /\ \/ Moves(p, "store", "idle", proc[p].bundles)
              \/ Moves(p, "zero", "store", proc[p].bundles)
           /\ store' = [store EXCEPT ![b] = "absent"]
           /\ UNCHANGED <<state, excused, size, disk_used, raced>>
BY RemoveContentsMoves DEF Clean, At, ContentTypeOK

LEMMA CleanKeeps ==
    ASSUME ContentInv, ContentTypeOK', NEW p \in Procs, NEW b \in Bundles, Clean(p, b)
    PROVE  ContentInv'
<1>0. p \in Procs /\ ContentTypeOK /\ proc[p].bundles \in SUBSET Bundles
  BY ProcFields DEF Procs, ContentInv, ContentTypeOK
<1>1. /\ proc[p].pc = "clean" /\ b \in proc[p].bundles
      /\ \/ Moves(p, "store", "idle", proc[p].bundles)
         \/ Moves(p, "zero", "store", proc[p].bundles)
      /\ store' = [store EXCEPT ![b] = "absent"]
      /\ UNCHANGED <<state, excused, size, disk_used, raced>>
  BY <1>0, CleanDoes
<1> USE DEF Moves
<1>4. Local(p)
  BY <1>0, <1>1 DEF Local, Working, ContentTypeOK, Bundles
<1>5. OwnWork(p)
  BY <1>0, <1>1, KindsAssumption DEF OwnWork, Stage, ContentInv, OneEach, ErasedDeleted, Working, StoringStages
<1>6. OwnWriter(p)
  BY <1>0, <1>1, NamesAssumption DEF OwnWriter, ContentInv, WriterKnown, OneEach, Stage, StoringStages, ContentTypeOK, Procs
<1>7. OwnGathered(p)
  BY <1>0, <1>1 DEF OwnGathered, ContentInv, GatheredAlone, OneEach, ErasedDeleted, Working, Stage, StoringStages, Procs
<1>8. OwnErased(p)
  BY <1>0, <1>1 DEF OwnErased, ContentInv, ErasedDeleted, OneEach, Stage, Working
<1>9. OwnMake(p)
  BY <1>0, <1>1 DEF OwnMake, ContentTypeOK, Bundles
<1>10. ASSUME NEW c \in proc[p].bundles \ excused' PROVE OwnBundle(p, c)
  <2>1. c \in Bundles /\ p \in Working
    BY <1>0, <1>1 DEF ContentTypeOK, Work, Working
  <2>2. QED
    BY <1>0, <1>1, <1>5, <2>1, NamesAssumption, OwnDeleted DEF OwnBundle, OwnWork, ContentInv, OneEach, WriterKnown, StoringAlone, GatheredAlone, ErasedDeleted, ReadyHasContents, DeletedErased, Stage, StoringStages, Readable, ContentTypeOK, Procs
<1>11. QED
  BY <1>0, <1>4, <1>5, <1>6, <1>7, <1>8, <1>9, <1>10, LocalKeeps DEF Own

LEMMA ZeroSizeDoes ==
    ASSUME ContentTypeOK, NEW p \in Procs, NEW b \in Bundles, ZeroSize(p, b)
    PROVE  /\ proc[p].pc = "zero" /\ b \in proc[p].bundles
           /\ \/ Present(b) /\ size' = [size EXCEPT ![b] = 0] /\ Moves(p, "recount", proc[p].then, proc[p].bundles)
              \/ UNCHANGED size /\ Moves(p, "idle", "idle", {})
           /\ UNCHANGED <<state, store, excused, disk_used, raced>>
<1>1. CASE Present(b)
  BY <1>1, GotoMoves, RecountMoves, ProcFields DEF ZeroSize, At, ContentTypeOK, Pcs
<1>2. CASE ~Present(b)
  BY <1>2, GotoMoves, RecountMoves, ProcFields DEF ZeroSize, At, ContentTypeOK, Pcs
<1>3. QED
  BY <1>1, <1>2

LEMMA ZeroSizeKeeps ==
    ASSUME ContentInv, ContentTypeOK', NEW p \in Procs, NEW b \in Bundles, ZeroSize(p, b)
    PROVE  ContentInv'
<1>0. p \in Procs /\ ContentTypeOK /\ proc[p].bundles \in SUBSET Bundles
  BY ProcFields DEF Procs, ContentInv, ContentTypeOK
<1>1. /\ proc[p].pc = "zero" /\ b \in proc[p].bundles
      /\ \/ Present(b) /\ size' = [size EXCEPT ![b] = 0] /\ Moves(p, "recount", proc[p].then, proc[p].bundles)
         \/ UNCHANGED size /\ Moves(p, "idle", "idle", {})
      /\ UNCHANGED <<state, store, excused, disk_used, raced>>
  BY <1>0, ZeroSizeDoes
<1> USE DEF Moves
<1>4. Local(p)
  BY <1>0, <1>1 DEF Local, Working, ContentTypeOK, Bundles
<1>5. OwnWork(p)
  BY <1>0, <1>1, KindsAssumption DEF OwnWork, Stage, ContentInv, OneEach, ErasedDeleted, Working, StoringStages
<1>6. OwnWriter(p)
  BY <1>0, <1>1, NamesAssumption DEF OwnWriter, ContentInv, WriterKnown, OneEach, Stage, StoringStages, ContentTypeOK, Procs
<1>7. OwnGathered(p)
  BY <1>0, <1>1 DEF OwnGathered, ContentInv, GatheredAlone, OneEach, ErasedDeleted, Working, Stage, StoringStages, Procs
<1>8. OwnErased(p)
  BY <1>0, <1>1 DEF OwnErased, ContentInv, ErasedDeleted, OneEach, Stage, Working
<1>9. OwnMake(p)
  BY <1>0, <1>1 DEF OwnMake, ContentTypeOK, Bundles
<1>10. ASSUME NEW c \in proc[p].bundles \ excused' PROVE OwnBundle(p, c)
  <2>1. c \in Bundles /\ p \in Working
    BY <1>0, <1>1 DEF ContentTypeOK, Work, Working
  <2>2. QED
    BY <1>0, <1>1, <1>5, <2>1, NamesAssumption, OwnDeleted DEF OwnBundle, OwnWork, ContentInv, OneEach, WriterKnown, StoringAlone, GatheredAlone, ErasedDeleted, ReadyHasContents, DeletedErased, Stage, StoringStages, Readable, ContentTypeOK, Procs
<1>11. QED
  BY <1>0, <1>4, <1>5, <1>6, <1>7, <1>8, <1>9, <1>10, LocalKeeps DEF Own

LEMMA FailUploadDoes ==
    ASSUME ContentTypeOK, NEW p \in Procs, NEW b \in Bundles, FailUpload(p, b)
    PROVE  /\ p \in Requests /\ proc[p].pc \in {"fail", "reject"} /\ b \in proc[p].bundles
           /\ \/ Moves(p, "remove", "idle", proc[p].bundles)
              \/ Moves(p, "idle", "idle", {})
           /\ state' \in {state, [state EXCEPT ![b] = IF @ = "deleted" THEN @ ELSE "failed"]}
           /\ UNCHANGED <<store, excused, size, disk_used, raced>>
BY GotoMoves DEF FailUpload, At, ContentTypeOK, SetState, Pcs

LEMMA FailUploadKeeps ==
    ASSUME ContentInv, ContentTypeOK', NEW p \in Procs, NEW b \in Bundles, FailUpload(p, b)
    PROVE  ContentInv'
<1>0. p \in Procs /\ ContentTypeOK /\ proc[p].bundles \in SUBSET Bundles
  BY ProcFields DEF Procs, ContentInv, ContentTypeOK
<1>1. /\ p \in Requests /\ proc[p].pc \in {"fail", "reject"} /\ b \in proc[p].bundles
      /\ \/ Moves(p, "remove", "idle", proc[p].bundles)
         \/ Moves(p, "idle", "idle", {})
      /\ state' \in {state, [state EXCEPT ![b] = IF @ = "deleted" THEN @ ELSE "failed"]}
      /\ UNCHANGED <<store, excused, size, disk_used, raced>>
  BY <1>0, FailUploadDoes
<1> USE DEF Moves
<1>4. Local(p)
  BY <1>0, <1>1 DEF Local, Working, ContentTypeOK, Bundles
<1>5. OwnWork(p)
  BY <1>0, <1>1, KindsAssumption DEF OwnWork, Stage, ContentInv, OneEach, ErasedDeleted, Working, StoringStages
<1>6. OwnWriter(p)
  BY <1>0, <1>1, NamesAssumption DEF OwnWriter, ContentInv, WriterKnown, OneEach, Stage, StoringStages, ContentTypeOK, Procs
<1>7. OwnGathered(p)
  BY <1>0, <1>1 DEF OwnGathered, ContentInv, GatheredAlone, OneEach, ErasedDeleted, Working, Stage, StoringStages, Procs
<1>8. OwnErased(p)
  BY <1>0, <1>1 DEF OwnErased, ContentInv, ErasedDeleted, OneEach, Stage, Working
<1>9. OwnMake(p)
  BY <1>0, <1>1 DEF OwnMake, ContentTypeOK, Bundles
<1>10. ASSUME NEW c \in proc[p].bundles \ excused' PROVE OwnBundle(p, c)
  <2>1. c \in Bundles /\ p \in Working
    BY <1>0, <1>1 DEF ContentTypeOK, Work, Working
  <2>2. QED
    BY <1>0, <1>1, <1>5, <2>1, NamesAssumption, OwnDeleted DEF OwnBundle, OwnWork, ContentInv, OneEach, WriterKnown, StoringAlone, GatheredAlone, ErasedDeleted, ReadyHasContents, DeletedErased, Stage, StoringStages, Readable, ContentTypeOK, Procs
<1>11. QED
  BY <1>0, <1>4, <1>5, <1>6, <1>7, <1>8, <1>9, <1>10, LocalKeeps DEF Own

LEMMA RemoveFailedDoes ==
    ASSUME ContentTypeOK, NEW p \in Procs, NEW b \in Bundles, RemoveFailed(p, b)
    PROVE  /\ proc[p].pc = "remove" /\ b \in proc[p].bundles
           /\ \/ Moves(p, "idle", "idle", {})
              \/ Moves(p, "zero", "idle", proc[p].bundles)
           /\ store' = [store EXCEPT ![b] = "absent"]
           /\ UNCHANGED <<state, excused, size, disk_used, raced>>
BY RemoveContentsMoves DEF RemoveFailed, At, ContentTypeOK

LEMMA RemoveFailedKeeps ==
    ASSUME ContentInv, ContentTypeOK', NEW p \in Procs, NEW b \in Bundles, RemoveFailed(p, b)
    PROVE  ContentInv'
<1>0. p \in Procs /\ ContentTypeOK /\ proc[p].bundles \in SUBSET Bundles
  BY ProcFields DEF Procs, ContentInv, ContentTypeOK
<1>1. /\ proc[p].pc = "remove" /\ b \in proc[p].bundles
      /\ \/ Moves(p, "idle", "idle", {})
         \/ Moves(p, "zero", "idle", proc[p].bundles)
      /\ store' = [store EXCEPT ![b] = "absent"]
      /\ UNCHANGED <<state, excused, size, disk_used, raced>>
  BY <1>0, RemoveFailedDoes
<1> USE DEF Moves
<1>4. Local(p)
  BY <1>0, <1>1 DEF Local, Working, ContentTypeOK, Bundles
<1>5. OwnWork(p)
  BY <1>0, <1>1, KindsAssumption DEF OwnWork, Stage, ContentInv, OneEach, ErasedDeleted, Working, StoringStages
<1>6. OwnWriter(p)
  BY <1>0, <1>1, NamesAssumption DEF OwnWriter, ContentInv, WriterKnown, OneEach, Stage, StoringStages, ContentTypeOK, Procs
<1>7. OwnGathered(p)
  BY <1>0, <1>1 DEF OwnGathered, ContentInv, GatheredAlone, OneEach, ErasedDeleted, Working, Stage, StoringStages, Procs
<1>8. OwnErased(p)
  BY <1>0, <1>1 DEF OwnErased, ContentInv, ErasedDeleted, OneEach, Stage, Working
<1>9. OwnMake(p)
  BY <1>0, <1>1 DEF OwnMake, ContentTypeOK, Bundles
<1>10. ASSUME NEW c \in proc[p].bundles \ excused' PROVE OwnBundle(p, c)
  <2>1. c \in Bundles /\ p \in Working
    BY <1>0, <1>1 DEF ContentTypeOK, Work, Working
  <2>2. QED
    BY <1>0, <1>1, <1>5, <2>1, NamesAssumption, OwnDeleted DEF OwnBundle, OwnWork, ContentInv, OneEach, WriterKnown, StoringAlone, GatheredAlone, ErasedDeleted, ReadyHasContents, DeletedErased, Stage, StoringStages, Readable, ContentTypeOK, Procs
<1>11. QED
  BY <1>0, <1>4, <1>5, <1>6, <1>7, <1>8, <1>9, <1>10, LocalKeeps DEF Own

LEMMA UnsizeNamedDoes ==
    ASSUME ContentTypeOK, NEW p \in Procs, UnsizeNamed(p)
    PROVE  /\ proc[p].pc = "unsize"
           /\ \/ /\ size' = [b \in Bundles |-> IF b \in Named(proc[p].bundles) THEN 0 ELSE size[b]]
                 /\ Moves(p, proc[p].then, "idle", IF proc[p].then = "idle" THEN {} ELSE proc[p].bundles)
              \/ UNCHANGED size /\ Moves(p, "idle", "idle", {})
           /\ UNCHANGED <<state, store, excused, disk_used, raced>>
<1>1. CASE \A b \in Named(proc[p].bundles) : Present(b)
  BY <1>1, GotoMoves, ProcFields DEF UnsizeNamed, ContentTypeOK, Pcs
<1>2. CASE ~\A b \in Named(proc[p].bundles) : Present(b)
  BY <1>2, GotoMoves, ProcFields DEF UnsizeNamed, ContentTypeOK, Pcs
<1>3. QED
  BY <1>1, <1>2

LEMMA UnsizeNamedKeeps ==
    ASSUME ContentInv, ContentTypeOK', NEW p \in Procs, UnsizeNamed(p)
    PROVE  ContentInv'
<1>0. p \in Procs /\ ContentTypeOK /\ proc[p].bundles \in SUBSET Bundles
  BY ProcFields DEF Procs, ContentInv, ContentTypeOK
<1>1. /\ proc[p].pc = "unsize"
      /\ \/ /\ size' = [b \in Bundles |-> IF b \in Named(proc[p].bundles) THEN 0 ELSE size[b]]
            /\ Moves(p, proc[p].then, "idle", IF proc[p].then = "idle" THEN {} ELSE proc[p].bundles)
         \/ UNCHANGED size /\ Moves(p, "idle", "idle", {})
      /\ UNCHANGED <<state, store, excused, disk_used, raced>>
  BY <1>0, UnsizeNamedDoes
<1> USE DEF Moves
<1>4. Local(p)
  BY <1>0, <1>1 DEF Local, Working, ContentTypeOK, Bundles
<1>5. OwnWork(p)
  BY <1>0, <1>1, KindsAssumption DEF OwnWork, Stage, ContentInv, OneEach, ErasedDeleted, Working, StoringStages
<1>6. OwnWriter(p)
  BY <1>0, <1>1, NamesAssumption DEF OwnWriter, ContentInv, WriterKnown, OneEach, Stage, StoringStages, ContentTypeOK, Procs
<1>7. OwnGathered(p)
  BY <1>0, <1>1 DEF OwnGathered, ContentInv, GatheredAlone, OneEach, ErasedDeleted, Working, Stage, StoringStages, Procs
<1>8. OwnErased(p)
  BY <1>0, <1>1 DEF OwnErased, ContentInv, ErasedDeleted, OneEach, Stage, Working
<1>9. OwnMake(p)
  BY <1>0, <1>1 DEF OwnMake, ContentTypeOK, Bundles
<1>10. ASSUME NEW c \in proc[p].bundles \ excused' PROVE OwnBundle(p, c)
  <2>1. c \in Bundles /\ p \in Working
    BY <1>0, <1>1 DEF ContentTypeOK, Work, Working
  <2>2. QED
    BY <1>0, <1>1, <1>5, <2>1, NamesAssumption, OwnDeleted DEF OwnBundle, OwnWork, ContentInv, OneEach, WriterKnown, StoringAlone, GatheredAlone, ErasedDeleted, ReadyHasContents, DeletedErased, Stage, StoringStages, Readable, ContentTypeOK, Procs
<1>11. QED
  BY <1>0, <1>4, <1>5, <1>6, <1>7, <1>8, <1>9, <1>10, LocalKeeps DEF Own

LEMMA DeleteRowsDoes ==
    ASSUME ContentTypeOK, NEW p \in Procs, DeleteRows(p)
    PROVE  /\ proc[p].pc = "delete"
           /\ Moves(p, "erase", "idle", proc[p].bundles)
           /\ state' = [b \in Bundles |-> IF b \in proc[p].bundles THEN "deleted" ELSE state[b]]
           /\ size' = [b \in Bundles |-> IF b \in proc[p].bundles THEN 0 ELSE size[b]]
           /\ UNCHANGED <<store, excused, disk_used, raced>>
BY GotoMoves DEF DeleteRows, ContentTypeOK, Pcs

LEMMA DeleteRowsKeeps ==
    ASSUME ContentInv, ContentTypeOK', NEW p \in Procs, DeleteRows(p)
    PROVE  ContentInv'
<1>0. p \in Procs /\ ContentTypeOK /\ proc[p].bundles \in SUBSET Bundles
  BY ProcFields DEF Procs, ContentInv, ContentTypeOK
<1>1. /\ proc[p].pc = "delete"
      /\ Moves(p, "erase", "idle", proc[p].bundles)
      /\ state' = [b \in Bundles |-> IF b \in proc[p].bundles THEN "deleted" ELSE state[b]]
      /\ size' = [b \in Bundles |-> IF b \in proc[p].bundles THEN 0 ELSE size[b]]
      /\ UNCHANGED <<store, excused, disk_used, raced>>
  BY <1>0, DeleteRowsDoes
<1> USE DEF Moves
<1>4. Local(p)
  BY <1>0, <1>1 DEF Local, Working, ContentTypeOK, Bundles
<1>5. OwnWork(p)
  BY <1>0, <1>1, KindsAssumption DEF OwnWork, Stage, ContentInv, OneEach, ErasedDeleted, Working, StoringStages
<1>6. OwnWriter(p)
  BY <1>0, <1>1, NamesAssumption DEF OwnWriter, ContentInv, WriterKnown, OneEach, Stage, StoringStages, ContentTypeOK, Procs
<1>7. OwnGathered(p)
  BY <1>0, <1>1 DEF OwnGathered, ContentInv, GatheredAlone, OneEach, ErasedDeleted, Working, Stage, StoringStages, Procs
<1>8. OwnErased(p)
  BY <1>0, <1>1 DEF OwnErased, ContentInv, ErasedDeleted, OneEach, Stage, Working
<1>9. OwnMake(p)
  BY <1>0, <1>1 DEF OwnMake, ContentTypeOK, Bundles
<1>10. ASSUME NEW c \in proc[p].bundles \ excused' PROVE OwnBundle(p, c)
  <2>1. c \in Bundles /\ p \in Working
    BY <1>0, <1>1 DEF ContentTypeOK, Work, Working
  <2>2. QED
    BY <1>0, <1>1, <1>5, <2>1, NamesAssumption, OwnDeleted DEF OwnBundle, OwnWork, ContentInv, OneEach, WriterKnown, StoringAlone, GatheredAlone, ErasedDeleted, ReadyHasContents, DeletedErased, Stage, StoringStages, Readable, ContentTypeOK, Procs
<1>11. QED
  BY <1>0, <1>4, <1>5, <1>6, <1>7, <1>8, <1>9, <1>10, LocalKeeps DEF Own

LEMMA EraseDoes ==
    ASSUME ContentTypeOK, NEW p \in Procs, Erase(p)
    PROVE  /\ proc[p].pc = "erase"
           /\ Moves(p, "recount", "idle", proc[p].bundles)
           /\ store' = [b \in Bundles |-> IF b \in proc[p].bundles THEN "absent" ELSE store[b]]
           /\ UNCHANGED <<state, excused, size, disk_used, raced>>
BY RecountMoves DEF Erase, ContentTypeOK, Thens

LEMMA EraseKeeps ==
    ASSUME ContentInv, ContentTypeOK', NEW p \in Procs, Erase(p)
    PROVE  ContentInv'
<1>0. p \in Procs /\ ContentTypeOK /\ proc[p].bundles \in SUBSET Bundles
  BY ProcFields DEF Procs, ContentInv, ContentTypeOK
<1>1. /\ proc[p].pc = "erase"
      /\ Moves(p, "recount", "idle", proc[p].bundles)
      /\ store' = [b \in Bundles |-> IF b \in proc[p].bundles THEN "absent" ELSE store[b]]
      /\ UNCHANGED <<state, excused, size, disk_used, raced>>
  BY <1>0, EraseDoes
<1> USE DEF Moves
<1>4. Local(p)
  BY <1>0, <1>1 DEF Local, Working, ContentTypeOK, Bundles
<1>5. OwnWork(p)
  BY <1>0, <1>1, KindsAssumption DEF OwnWork, Stage, ContentInv, OneEach, ErasedDeleted, Working, StoringStages
<1>6. OwnWriter(p)
  BY <1>0, <1>1, NamesAssumption DEF OwnWriter, ContentInv, WriterKnown, OneEach, Stage, StoringStages, ContentTypeOK, Procs
<1>7. OwnGathered(p)
  BY <1>0, <1>1 DEF OwnGathered, ContentInv, GatheredAlone, OneEach, ErasedDeleted, Working, Stage, StoringStages, Procs
<1>8. OwnErased(p)
  BY <1>0, <1>1 DEF OwnErased, ContentInv, ErasedDeleted, OneEach, Stage, Working
<1>9. OwnMake(p)
  BY <1>0, <1>1 DEF OwnMake, ContentTypeOK, Bundles
<1>10. ASSUME NEW c \in proc[p].bundles \ excused' PROVE OwnBundle(p, c)
  <2>1. c \in Bundles /\ p \in Working
    BY <1>0, <1>1 DEF ContentTypeOK, Work, Working
  <2>2. QED
    BY <1>0, <1>1, <1>5, <2>1, NamesAssumption, OwnDeleted DEF OwnBundle, OwnWork, ContentInv, OneEach, WriterKnown, StoringAlone, GatheredAlone, ErasedDeleted, ReadyHasContents, DeletedErased, Stage, StoringStages, Readable, ContentTypeOK, Procs
<1>11. QED
  BY <1>0, <1>4, <1>5, <1>6, <1>7, <1>8, <1>9, <1>10, LocalKeeps DEF Own

LEMMA GatherDoes ==
    ASSUME ContentTypeOK, NEW p \in Makes, Gather(p)
    PROVE  /\ p \in Makes /\ proc[p].pc = "gather"
           /\ \/ UNCHANGED store /\ Moves(p, "fail", "idle", proc[p].bundles)
              \/ /\ \A d \in Parents[p] : store[d] # "absent"
                 /\ Moves(p, "store", "idle", proc[p].bundles) /\ store' = [store EXCEPT ![p] = "absent"]
           /\ UNCHANGED <<state, excused, size, disk_used, raced>>
<1>1. proc \in [Procs -> Work] /\ p \in Procs /\ "fail" \in Pcs /\ "store" \in Pcs
  BY DEF ContentTypeOK, Procs, Pcs
<1>2. CASE \E d \in Parents[p] : store[d] = "absent"
  BY <1>1, <1>2, GotoMoves DEF Gather
<1>3. CASE ~\E d \in Parents[p] : store[d] = "absent"
  BY <1>1, <1>3, GotoMoves DEF Gather
<1>4. QED
  BY <1>2, <1>3

LEMMA GatherKeeps ==
    ASSUME ContentInv, ContentTypeOK', NEW p \in Makes, Gather(p)
    PROVE  ContentInv'
<1>0. p \in Procs /\ ContentTypeOK /\ proc[p].bundles \in SUBSET Bundles /\ proc[p].bundles = {p}
  BY ProcFields DEF Procs, ContentInv, ContentTypeOK, OneEach, Gather
<1>1. /\ p \in Makes /\ proc[p].pc = "gather"
      /\ \/ UNCHANGED store /\ Moves(p, "fail", "idle", proc[p].bundles)
         \/ /\ \A d \in Parents[p] : store[d] # "absent"
            /\ Moves(p, "store", "idle", proc[p].bundles) /\ store' = [store EXCEPT ![p] = "absent"]
      /\ UNCHANGED <<state, excused, size, disk_used, raced>>
  BY <1>0, GatherDoes
<1> USE DEF Moves
<1>4. Local(p)
  BY <1>0, <1>1 DEF Local, Working, ContentTypeOK, Bundles
<1>5. OwnWork(p)
  BY <1>0, <1>1, KindsAssumption DEF OwnWork, Stage, ContentInv, OneEach, ErasedDeleted, Working, StoringStages
<1>6. OwnWriter(p)
  BY <1>0, <1>1, NamesAssumption DEF OwnWriter, ContentInv, WriterKnown, OneEach, Stage, StoringStages, ContentTypeOK, Procs
<1>7. OwnGathered(p)
  BY <1>0, <1>1 DEF OwnGathered, ContentInv, GatheredAlone, OneEach, ErasedDeleted, Working, Stage, StoringStages, Procs
<1>8. OwnErased(p)
  BY <1>0, <1>1 DEF OwnErased, ContentInv, ErasedDeleted, OneEach, Stage, Working
<1>9. OwnMake(p)
  BY <1>0, <1>1 DEF OwnMake, ContentTypeOK, Bundles
<1>10. ASSUME NEW c \in proc[p].bundles \ excused' PROVE OwnBundle(p, c)
  <2>1. c \in Bundles /\ p \in Working
    BY <1>0, <1>1 DEF ContentTypeOK, Work, Working
  <2>2. QED
    BY <1>0, <1>1, <1>5, <2>1, NamesAssumption, OwnDeleted DEF OwnBundle, OwnWork, ContentInv, OneEach, WriterKnown, StoringAlone, GatheredAlone, ErasedDeleted, ReadyHasContents, DeletedErased, Stage, StoringStages, Readable, ContentTypeOK, Procs
<1>11. QED
  BY <1>0, <1>4, <1>5, <1>6, <1>7, <1>8, <1>9, <1>10, LocalKeeps DEF Own

LEMMA FailMakeDoes ==
    ASSUME ContentTypeOK, NEW p \in Makes, FailMake(p)
    PROVE  /\ p \in Makes /\ proc[p].pc \in {"fail", "reject"}
           /\ Moves(p, "idle", "idle", {})
           /\ state' = [state EXCEPT ![p] = IF @ = "deleted" THEN @ ELSE "failed"]
           /\ UNCHANGED <<store, excused, size, disk_used, raced>>
BY GotoMoves DEF FailMake, ContentTypeOK, SetState, Pcs, Procs

LEMMA FailMakeKeeps ==
    ASSUME ContentInv, ContentTypeOK', NEW p \in Makes, FailMake(p)
    PROVE  ContentInv'
<1>0. p \in Procs /\ ContentTypeOK /\ proc[p].bundles \in SUBSET Bundles /\ proc[p].bundles = {p}
  BY ProcFields DEF Procs, ContentInv, ContentTypeOK, OneEach, FailMake
<1>1. /\ p \in Makes /\ proc[p].pc \in {"fail", "reject"}
      /\ Moves(p, "idle", "idle", {})
      /\ state' = [state EXCEPT ![p] = IF @ = "deleted" THEN @ ELSE "failed"]
      /\ UNCHANGED <<store, excused, size, disk_used, raced>>
  BY <1>0, FailMakeDoes
<1> USE DEF Moves
<1>4. Local(p)
  BY <1>0, <1>1 DEF Local, Working, ContentTypeOK, Bundles
<1>5. OwnWork(p)
  BY <1>0, <1>1, KindsAssumption DEF OwnWork, Stage, ContentInv, OneEach, ErasedDeleted, Working, StoringStages
<1>6. OwnWriter(p)
  BY <1>0, <1>1, NamesAssumption DEF OwnWriter, ContentInv, WriterKnown, OneEach, Stage, StoringStages, ContentTypeOK, Procs
<1>7. OwnGathered(p)
  BY <1>0, <1>1 DEF OwnGathered, ContentInv, GatheredAlone, OneEach, ErasedDeleted, Working, Stage, StoringStages, Procs
<1>8. OwnErased(p)
  BY <1>0, <1>1 DEF OwnErased, ContentInv, ErasedDeleted, OneEach, Stage, Working
<1>9. OwnMake(p)
  BY <1>0, <1>1 DEF OwnMake, ContentTypeOK, Bundles
<1>10. ASSUME NEW c \in proc[p].bundles \ excused' PROVE OwnBundle(p, c)
  <2>1. c \in Bundles /\ p \in Working
    BY <1>0, <1>1 DEF ContentTypeOK, Work, Working
  <2>2. QED
    BY <1>0, <1>1, <1>5, <2>1, NamesAssumption, OwnDeleted DEF OwnBundle, OwnWork, ContentInv, OneEach, WriterKnown, StoringAlone, GatheredAlone, ErasedDeleted, ReadyHasContents, DeletedErased, Stage, StoringStages, Readable, ContentTypeOK, Procs
<1>11. QED
  BY <1>0, <1>4, <1>5, <1>6, <1>7, <1>8, <1>9, <1>10, LocalKeeps DEF Own

(* The REST server dies in the course of a request. *)
LEMMA RequestDiesKeeps ==
    ASSUME ContentInv, ContentTypeOK', NEW p \in Procs, RequestDies(p)
    PROVE  ContentInv'
<1>0. /\ ContentTypeOK /\ proc[p].bundles \in SUBSET Bundles /\ p \in Working
      /\ Moves(p, "idle", "idle", {})
      /\ UNCHANGED state /\ excused \subseteq excused'
      /\ store' = [b \in Bundles |-> IF store[b] = p THEN "partial" ELSE store[b]]
      /\ proc[p].pc = "erase" => proc[p].bundles \subseteq excused'
  BY ProcFields, GotoMoves DEF ContentInv, ContentTypeOK, RequestDies, Pcs
<1> USE DEF Moves
<1>1. \A c \in Bundles : store[c] = p => c \in proc[p].bundles
  BY DEF ContentInv, WriterKnown
<1>2. Local(p)
  BY <1>0, <1>1 DEF Local
<1>3. OwnWork(p) /\ OwnErased(p)
  BY <1>0 DEF OwnWork, OwnErased
<1>4. OwnWriter(p) /\ OwnGathered(p) /\ OwnMake(p)
  BY <1>0, NamesAssumption DEF OwnWriter, OwnGathered, OwnMake, Procs
<1>5. ASSUME NEW b \in proc[p].bundles \ excused' PROVE OwnBundle(p, b)
  <2>1. b \in Bundles \ excused
    BY <1>0
  <2>2. state[b] = "ready" => store'[b] = "complete"
    BY <1>0, <2>1, NamesAssumption DEF ContentInv, ReadyHasContents, Procs
  <2>3. state[b] = "deleted" => store'[b] = "absent"
    BY <1>0, <2>1, OwnDeleted, NamesAssumption DEF Procs
  <2>4. QED
    BY <1>0, <2>2, <2>3 DEF OwnBundle
<1>6. QED
  BY <1>0, <1>2, <1>3, <1>4, <1>5, LocalKeeps DEF Own

-----------------------------------------------------------------------------
(* A process starts; what it shares with others is excused from then on.   *)
(* What a process that starts changes. *)
Starts(p, pc, then, bs) ==
    /\ proc[p].pc \in {"new", "idle"}
    /\ Moves(p, pc, then, bs)
    /\ UNCHANGED store
    /\ excused \subseteq excused' /\ Overlapped(bs) \subseteq excused'

(* It starts as an upload of one bundle that is not ready. *)
Uploading(p, pc, bs) ==
    /\ p \in Requests /\ pc = "clean" /\ UNCHANGED state
    /\ \E b \in Uploads : bs = {b} /\ state[b] \notin {"ready", "deleted"}

(* It starts as a deletion. *)
Deleting(p, pc, then, bs) ==
    /\ p \in Requests /\ pc = "unsize" /\ UNCHANGED state
    /\ then \in {"delete", "erase"}
    /\ then = "erase" => bs \subseteq excused'

(* It starts as the thread of a make bundle. *)
Making(p, pc, bs) ==
    /\ p \in Makes /\ pc = "gather" /\ bs = {p}
    /\ state[p] = "staged" /\ state' = [state EXCEPT ![p] = "making"]
    /\ Parents[p] \intersect excused # {} => p \in excused'

LEMMA StartKeeps ==
    ASSUME ContentInv, ContentTypeOK', NEW p \in Procs, NEW pc, NEW then, NEW bs \in SUBSET Bundles,
           Starts(p, pc, then, bs),
           Uploading(p, pc, bs) \/ Deleting(p, pc, then, bs) \/ Making(p, pc, bs)
    PROVE  ContentInv'
<1>0. /\ ContentTypeOK
      /\ proc[p].pc \in {"new", "idle"} /\ proc'[p].pc = pc /\ proc'[p].then = then /\ proc'[p].bundles = bs
      /\ \A q \in Procs \ {p} : proc'[q] = proc[q]
      /\ store' = store /\ excused \subseteq excused' /\ Overlapped(bs) \subseteq excused'
      /\ pc \in {"clean", "unsize", "gather"}
  BY DEF ContentInv, Starts, Moves, Uploading, Deleting, Making
<1>1. \A q \in Procs \ {p} : q \in Working' <=> q \in Working
  BY <1>0 DEF Working
<1>2. p \notin Working /\ p \in Working' /\ proc[p].bundles = {}
  BY <1>0 DEF Working, ContentInv, OneEach
<1>3. \A q \in Working : Touches(bs) \intersect Touches(proc[q].bundles) # {} =>
          bs \union proc[q].bundles \subseteq excused'
  BY <1>0 DEF Overlapped
<1>4. \A c \in Bundles \ excused' : (\E q \in Working : c \in proc[q].bundles) => state'[c] = state[c]
  <2> SUFFICES ASSUME NEW c \in Bundles \ excused', NEW q \in Working, c \in proc[q].bundles, Making(p, pc, bs)
               PROVE  state'[c] = state[c]
    BY DEF Uploading, Deleting
  <2>1. c \in Touches(proc[q].bundles) /\ (c = p => c \in Touches(bs))
    BY DEF Touches, Making
  <2>2. c # p
    BY <1>3, <2>1
  <2>3. QED
    BY <1>0, <2>2 DEF Making, ContentTypeOK
<1>5. OneEach'
  BY <1>0, <1>1, KindsAssumption DEF ContentInv, OneEach, Stage, StoringStages, Uploading, Deleting, Making
<1>6. WriterKnown'
  BY <1>0 DEF ContentInv, WriterKnown
<1>7. Apart'
  <2> SUFFICES ASSUME NEW q \in Working', NEW r \in Working', q # r
               PROVE  \/ Touches(proc'[q].bundles) \intersect Touches(proc'[r].bundles) = {}
                      \/ proc'[q].bundles \union proc'[r].bundles \subseteq excused'
    BY DEF Apart, Touches
  <2>1. q \in Procs /\ r \in Procs
    BY DEF Working
  <2>2. CASE q = p
    BY <1>0, <1>1, <1>3, <2>1, <2>2
  <2>3. CASE r = p
    BY <1>0, <1>1, <1>3, <2>1, <2>3
  <2>4. CASE q # p /\ r # p
    BY <1>0, <1>1, <2>1, <2>4 DEF ContentInv, Apart
  <2>5. QED
    BY <2>2, <2>3, <2>4
<1>8. StoringAlone'
  <2> SUFFICES ASSUME NEW q \in Working', NEW b \in (proc[q].bundles \ excused)'
               PROVE  /\ Stage(q)' \in StoringStages => state'[b] \notin {"ready", "deleted"}
                      /\ q \in Makes => state'[b] = "making"
                      /\ Stage(q)' = "store" => store'[b] = "absent"
                      /\ Stage(q)' = "writing" => store'[b] = q
                      /\ Stage(q)' \in {"measure", "enforce", "finish"} => store'[b] = "complete"
    BY DEF StoringAlone, StoringStages
  <2>1. CASE q = p
    <3>1. b \in bs /\ b \in Bundles /\ Stage(p)' = pc
      BY <1>0, <2>1 DEF Stage
    <3>2. QED
      BY <1>0, <2>1, <3>1, KindsAssumption
         DEF Uploading, Deleting, Making, StoringStages, ContentTypeOK
  <2>2. CASE q # p
    <3>1. q \in Working /\ proc'[q] = proc[q] /\ b \in proc[q].bundles \ excused /\ b \in Bundles
      BY <1>0, <1>1, <2>2, ProcFields DEF Working, ContentTypeOK
    <3>2. state'[b] = state[b] /\ store'[b] = store[b]
      BY <1>0, <1>4, <3>1
    <3>3. QED
      BY <3>1, <3>2 DEF ContentInv, StoringAlone, Stage
  <2>3. QED
    BY <2>1, <2>2
<1>9. GatheredAlone'
  <2> SUFFICES ASSUME NEW k \in Makes \ excused'
               PROVE  /\ proc'[k].pc = "gather" => \A d \in Parents[k] : store[d] \in {"absent", "complete"}
                      /\ proc'[k].pc \in {"store", "writing"} => \A d \in Parents[k] : store[d] = "complete"
    BY <1>0 DEF GatheredAlone
  <2>0. k \in Procs
    BY DEF Procs
  <2>1. CASE k # p
    BY <1>0, <2>0, <2>1 DEF ContentInv, GatheredAlone
  <2>2. ASSUME k = p, pc = "gather", NEW d \in Parents[k] PROVE store[d] \in {"absent", "complete"}
    <3>1. Making(k, pc, bs) /\ d \in Bundles \ excused
      BY <2>2, ParentsAssumption DEF Making, Uploading, Deleting, Bundles
    <3>2. state[d] \in {"ready", "deleted"}
      BY <3>1 DEF ContentInv, ParentsReady, Making
    <3>3. ASSUME state[d] = "deleted", store[d] # "absent" PROVE FALSE
      <4>1. PICK q \in Procs : proc[q].pc = "erase" /\ d \in proc[q].bundles
        BY <3>1, <3>3 DEF ContentInv, DeletedErased
      <4>2. q \in Working /\ d \in Touches(bs) /\ d \in Touches(proc[q].bundles)
        BY <3>1, <4>1 DEF Working, Touches, Making
      <4>3. QED
        BY <1>3, <3>1, <4>2 DEF Making
    <3>4. QED
      BY <3>1, <3>2, <3>3 DEF ContentInv, ReadyHasContents
  <2>3. QED
    BY <1>0, <2>1, <2>2
<1>10. ErasedDeleted'
  <2> SUFFICES ASSUME NEW q \in Working'
               PROVE  /\ proc'[q].pc = "unsize" => proc'[q].then \in {"delete", "erase"}
                      /\ proc'[q].pc = "unsize" /\ proc'[q].then = "erase" => proc'[q].bundles \subseteq excused'
                      /\ proc'[q].pc = "erase" => \A b \in proc'[q].bundles \ excused' : state'[b] = "deleted"
                      /\ proc'[q].pc = "zero" => proc'[q].then \in {"idle", "store"}
                      /\ proc'[q].pc \in {"recount", "update"} =>
                             proc'[q].then \in {"idle", "store", "enforce", "finish"}
    BY DEF ErasedDeleted
  <2>1. CASE q = p
    BY <1>0, <2>1 DEF Uploading, Deleting, Making
  <2>2. CASE q # p
    <3>1. q \in Working /\ proc'[q] = proc[q] /\ proc[q].bundles \subseteq Bundles
      BY <1>0, <1>1, <2>2, ProcFields DEF Working, ContentTypeOK
    <3>2. QED
      BY <1>0, <1>4, <3>1 DEF ContentInv, ErasedDeleted
  <2>3. QED
    BY <2>1, <2>2
<1>11. ParentsReady'
  <2> SUFFICES ASSUME NEW k \in Makes, state'[k] \in {"staged", "making"}, NEW d \in Parents[k] \ excused'
               PROVE  state'[d] \in {"ready", "deleted"}
    BY DEF ParentsReady
  <2>0. k \in Bundles /\ d \in Uploads /\ d \in Bundles
    BY ParentsAssumption DEF Bundles
  <2>1. state[k] \in {"staged", "making"}
    BY <1>0, <2>0 DEF Uploading, Deleting, Making, ContentTypeOK
  <2>2. state[d] \in {"ready", "deleted"}
    BY <1>0, <2>1 DEF ContentInv, ParentsReady
  <2>3. QED
    BY <1>0, <2>0, <2>2, KindsAssumption DEF Uploading, Deleting, Making, ContentTypeOK
<1>12. ReadyHasContents'
  BY <1>0 DEF ContentInv, ReadyHasContents, Uploading, Deleting, Making, ContentTypeOK
<1>13. DeletedErased'
  <2> SUFFICES ASSUME NEW b \in Bundles \ excused', state'[b] = "deleted", store'[b] # "absent"
               PROVE  \E q \in Procs : proc'[q].pc = "erase" /\ b \in proc'[q].bundles
    BY DEF DeletedErased
  <2>1. state[b] = "deleted"
    BY <1>0 DEF Uploading, Deleting, Making, ContentTypeOK
  <2>2. PICK q \in Procs : proc[q].pc = "erase" /\ b \in proc[q].bundles
    BY <1>0, <2>1 DEF ContentInv, DeletedErased
  <2>3. q # p
    BY <1>0, <2>2
  <2>4. QED
    BY <1>0, <2>2, <2>3
<1>14. QED
  BY <1>5, <1>6, <1>7, <1>8, <1>9, <1>10, <1>11, <1>12, <1>13 DEF ContentInv

LEMMA BeginUploadKeeps ==
    ASSUME ContentInv, ContentTypeOK', NEW q \in Requests, NEW b \in Bundles, BeginUpload(q, b)
    PROVE  ContentInv'
<1>1. q \in Procs /\ {b} \in SUBSET Bundles /\ proc \in [Procs -> Work] /\ "clean" \in Pcs /\ "idle" \in Thens
  BY DEF Procs, ContentInv, ContentTypeOK, Pcs, Thens
<1>2. Starts(q, "clean", "idle", {b})
  BY <1>1, StartMoves DEF BeginUpload, Starts
<1>3. Uploading(q, "clean", {b})
  BY DEF BeginUpload, Uploading
<1>4. QED
  BY <1>1, <1>2, <1>3, StartKeeps

LEMMA BeginDeleteKeeps ==
    ASSUME ContentInv, ContentTypeOK', NEW q \in Requests, NEW b \in Bundles, BeginDelete(q, b)
    PROVE  ContentInv'
<1>1. q \in Procs /\ proc \in [Procs -> Work] /\ "unsize" \in Pcs
  BY DEF Procs, ContentInv, ContentTypeOK, Pcs
<1>2. PICK recursive, data_only \in BOOLEAN :
        /\ Start(q, "unsize", IF data_only THEN "erase" ELSE "delete", Relevant(b, recursive))
        /\ excused' = excused \union Overlapped(Relevant(b, recursive))
                         \union IF data_only THEN Relevant(b, recursive) ELSE {}
  BY DEF BeginDelete
<1> DEFINE then == IF data_only THEN "erase" ELSE "delete"
           bs == Relevant(b, recursive)
<1>3. bs \in SUBSET Bundles /\ then \in Thens /\ then \in {"delete", "erase"}
  BY DEF Relevant, Descendants, Bundles, Thens
<1>4. Starts(q, "unsize", then, bs)
  <2> HIDE DEF bs, then
  <2>1. Start(q, "unsize", then, bs)
    BY <1>2 DEF bs, then
  <2>2. Overlapped(bs) \subseteq excused' /\ excused \subseteq excused'
    BY <1>2 DEF bs
  <2>3. UNCHANGED store
    BY DEF BeginDelete
  <2>4. QED
    BY <1>1, <1>3, <2>1, <2>2, <2>3, StartMoves DEF Starts
<1>5. Deleting(q, "unsize", then, bs)
  <2>1. UNCHANGED state
    BY DEF BeginDelete
  <2>2. QED
    BY <1>2, <1>3, <2>1 DEF Deleting
<1>6. QED
  <2> HIDE DEF bs, then
  <2>1. QED
    BY <1>1, <1>3, <1>4, <1>5, StartKeeps

LEMMA StartMakeKeeps ==
    ASSUME ContentInv, ContentTypeOK', NEW k \in Makes, StartMake(k)
    PROVE  ContentInv'
<1>1. k \in Procs /\ {k} \in SUBSET Bundles /\ proc \in [Procs -> Work] /\ "gather" \in Pcs /\ "idle" \in Thens
  BY DEF Procs, Bundles, ContentInv, ContentTypeOK, Pcs, Thens
<1>2. Starts(k, "gather", "idle", {k})
  BY <1>1, StartMoves DEF StartMake, Starts
<1>3. Making(k, "gather", {k})
  BY DEF StartMake, Making, SetState, ContentInv, ContentTypeOK, Bundles
<1>4. QED
  BY <1>1, <1>2, <1>3, StartKeeps

-----------------------------------------------------------------------------
(* The bundle manager *)

LEMMA StagingKeeps ==
    ASSUME ContentInv, ContentTypeOK', NEW k \in Makes, StageMake(k) \/ RestageMake(k)
    PROVE  ContentInv'
<1>0. /\ ContentTypeOK /\ k \in Bundles /\ k \in Procs /\ k \notin Uploads
      /\ UNCHANGED <<store, proc, excused>>
      /\ \A c \in Bundles \ {k} : state'[c] = state[c]
      /\ state[k] \in {"created", "making"} /\ state'[k] \in {"staged", "failed"}
      /\ state[k] = "making" => proc[k].pc = "idle"
      /\ state'[k] = "staged" /\ state[k] = "created" => \A d \in Parents[k] : state[d] = "ready"
  BY KindsAssumption DEF ContentInv, ContentTypeOK, Bundles, Procs, StageMake, RestageMake, SetState
<1>1. OneEach'
  BY <1>0 DEF ContentInv, OneEach, Stage
<1>2. WriterKnown'
  BY <1>0 DEF ContentInv, WriterKnown
<1>3. Apart' /\ GatheredAlone'
  BY <1>0 DEF ContentInv, Apart, GatheredAlone, Working, Touches
<1>4. StoringAlone'
  <2> SUFFICES ASSUME NEW q \in Working, NEW b \in proc[q].bundles \ excused
               PROVE  /\ Stage(q) \in StoringStages => state'[b] \notin {"ready", "deleted"}
                      /\ q \in Makes => state'[b] = "making"
                      /\ Stage(q) = "store" => store[b] = "absent"
                      /\ Stage(q) = "writing" => store[b] = q
                      /\ Stage(q) \in {"measure", "enforce", "finish"} => store[b] = "complete"
    BY <1>0 DEF StoringAlone, StoringStages, Stage, Working
  <2>1. b \in Bundles /\ q \in Procs
    BY <1>0, ProcFields DEF Working, ContentTypeOK
  <2>2. q \in Makes => b # k
    BY <1>0, <2>1 DEF ContentInv, OneEach, StoringAlone, Working
  <2>3. QED
    BY <1>0, <2>1, <2>2 DEF ContentInv, StoringAlone
<1>5. ErasedDeleted'
  <2> SUFFICES ASSUME NEW q \in Working, proc[q].pc = "erase", NEW b \in proc[q].bundles \ excused
               PROVE  state'[b] = "deleted"
    BY <1>0 DEF ContentInv, ErasedDeleted, Working
  <2>1. state[b] = "deleted" /\ b \in Bundles
    BY <1>0, ProcFields DEF ContentInv, ErasedDeleted, ContentTypeOK, Working
  <2>2. QED
    BY <1>0, <2>1
<1>6. ParentsReady'
  <2> SUFFICES ASSUME NEW l \in Makes, state'[l] \in {"staged", "making"}, NEW d \in Parents[l] \ excused
               PROVE  state'[d] \in {"ready", "deleted"}
    BY <1>0 DEF ParentsReady
  <2>1. d \in Uploads /\ d \in Bundles /\ l \in Bundles
    BY ParentsAssumption DEF Bundles
  <2>2. QED
    BY <1>0, <2>1 DEF ContentInv, ParentsReady
<1>7. ReadyHasContents' /\ DeletedErased'
  BY <1>0 DEF ContentInv, ReadyHasContents, DeletedErased
<1>8. QED
  BY <1>1, <1>2, <1>3, <1>4, <1>5, <1>6, <1>7 DEF ContentInv

LEMMA ManagerStopsKeeps ==
    ASSUME ContentInv, ContentTypeOK', ManagerStops
    PROVE  ContentInv'
<1>0. /\ ContentTypeOK
      /\ \A p \in Procs : IF p \in Makes THEN proc'[p] = Idle ELSE proc'[p] = proc[p]
      /\ \A b \in Bundles : store'[b] = IF store[b] \in Makes THEN "partial" ELSE store[b]
      /\ UNCHANGED <<state, excused>>
  BY DEF ContentInv, ContentTypeOK, ManagerStops
<1>1. \A p \in Working' : p \in Working /\ p \in Procs /\ p \in Requests /\ p \notin Makes /\ proc'[p] = proc[p]
  BY <1>0 DEF Working, Idle, Procs
<1>2. OneEach'
  <2>1. \A p \in Makes : proc'[p].pc = "idle" /\ proc'[p].bundles = {} /\ p \notin Requests /\ p \in Procs
    BY <1>0, KindsAssumption DEF Idle, Procs
  <2>2. \A p \in Procs \ Makes : proc'[p] = proc[p]
    BY <1>0
  <2>3. QED
    BY <2>1, <2>2 DEF ContentInv, OneEach, Stage
<1>3. WriterKnown'
  BY <1>0, NamesAssumption DEF ContentInv, WriterKnown, Procs
<1>4. Apart'
  BY <1>0, <1>1 DEF ContentInv, Apart, Touches
<1>5. StoringAlone'
  <2> SUFFICES ASSUME NEW q \in Working', NEW b \in proc[q].bundles \ excused
               PROVE  /\ Stage(q) \in StoringStages => state[b] \notin {"ready", "deleted"}
                      /\ Stage(q) = "store" => store'[b] = "absent"
                      /\ Stage(q) = "writing" => store'[b] = q
                      /\ Stage(q) \in {"measure", "enforce", "finish"} => store'[b] = "complete"
    BY <1>0, <1>1 DEF StoringAlone, StoringStages, Stage
  <2>1. b \in Bundles
    BY <1>0, <1>1, ProcFields DEF ContentTypeOK
  <2>2. QED
    BY <1>0, <1>1, <2>1, NamesAssumption DEF ContentInv, StoringAlone
<1>6. GatheredAlone'
  BY <1>0 DEF GatheredAlone, Idle, Procs
<1>7. ErasedDeleted' /\ ParentsReady'
  BY <1>0, <1>1 DEF ContentInv, ErasedDeleted, ParentsReady
<1>8. ReadyHasContents'
  BY <1>0, NamesAssumption DEF ContentInv, ReadyHasContents
<1>9. DeletedErased'
  <2> SUFFICES ASSUME NEW b \in Bundles \ excused, state[b] = "deleted", store'[b] # "absent"
               PROVE  \E q \in Procs : proc'[q].pc = "erase" /\ b \in proc'[q].bundles
    BY <1>0 DEF DeletedErased
  <2>1. store[b] # "absent"
    BY <1>0, NamesAssumption
  <2>2. PICK q \in Procs : proc[q].pc = "erase" /\ b \in proc[q].bundles
    BY <2>1 DEF ContentInv, DeletedErased
  <2>3. q \notin Makes
    BY <2>2 DEF ContentInv, OneEach, Stage
  <2>4. QED
    BY <1>0, <2>2, <2>3
<1>10. QED
  BY <1>2, <1>3, <1>4, <1>5, <1>6, <1>7, <1>8, <1>9 DEF ContentInv

(* The invariant holds at the start. *)
LEMMA ContentInvInit == ContentInit => ContentInv
<1> SUFFICES ASSUME ContentInit PROVE ContentInv
  OBVIOUS
<1>1. ContentTypeOK
  <2>1. proc \in [Procs -> Work]
    BY DEF ContentInit, Idle, New, Work
  <2>2. /\ state \in [Bundles -> {"uploading", "created", "staged", "making", "ready", "failed", "deleted"}]
        /\ size \in [Bundles -> Nat]
        /\ store \in [Bundles -> {"absent", "partial", "complete"} \union Procs]
    BY DEF ContentInit
  <2>3. manager \in BOOLEAN /\ raced \in BOOLEAN
    BY DEF ContentInit
  <2>4. disk_used = 0 /\ failures = 0 /\ excused = {}
    BY DEF ContentInit
  <2>5. QED
    BY <2>1, <2>2, <2>3, <2>4, SizeAssumption DEF ContentTypeOK
<1>2. \A p \in Procs : proc[p].pc \in {"new", "idle"} /\ proc[p].bundles = {} /\ proc[p].then = "idle"
  BY DEF ContentInit, Idle, New
<1>3. OneEach /\ Apart /\ StoringAlone /\ GatheredAlone /\ ErasedDeleted
  BY <1>2 DEF OneEach, Apart, StoringAlone, GatheredAlone, ErasedDeleted, Working, Stage, StoringStages, Procs
<1>4. WriterKnown /\ ParentsReady /\ ReadyHasContents /\ DeletedErased
  BY NamesAssumption, KindsAssumption DEF ContentInit, WriterKnown, ParentsReady, ReadyHasContents, DeletedErased, Procs, Bundles
<1>5. QED
  BY <1>1, <1>3, <1>4 DEF ContentInv

(* Every step keeps it. *)
LEMMA ContentInvKept == ContentInv /\ [ContentNext]_contentVars => ContentInv'
<1> SUFFICES ASSUME ContentInv, [ContentNext]_contentVars PROVE ContentInv'
  OBVIOUS
<1>0. ASSUME UNCHANGED <<state, store, proc, excused>>, ContentTypeOK' PROVE ContentInv'
  <2>1. OneEach' /\ WriterKnown' /\ Apart' /\ StoringAlone'
    BY <1>0 DEF ContentInv, OneEach, WriterKnown, Apart, StoringAlone, Working, Touches, Stage
  <2>2. GatheredAlone' /\ ErasedDeleted' /\ ParentsReady' /\ ReadyHasContents' /\ DeletedErased'
    BY <1>0 DEF ContentInv, GatheredAlone, ErasedDeleted, ParentsReady, ReadyHasContents, DeletedErased, Working
  <2>3. QED
    BY <1>0, <2>1, <2>2 DEF ContentInv
<1>1. CASE UNCHANGED contentVars
  <2>1. ContentTypeOK'
    BY <1>1 DEF contentVars, ContentInv, ContentTypeOK
  <2>2. QED
    BY <1>0, <1>1, <2>1 DEF contentVars
<1> SUFFICES ASSUME ContentNext PROVE ContentInv'
  BY <1>1
<1>2. ContentTypeOK'
  BY ContentTypeKept DEF ContentInv
<1>3. ASSUME NEW p \in Procs, Storing(p) PROVE ContentInv'
  BY <1>2, <1>3, ReadSizesKeeps, WriteDiskUsedKeeps, BeginWriteKeeps, EndWriteKeeps, WriteFailsKeeps,
     MeasureKeeps, EnforceKeeps, FinishKeeps DEF Storing
<1>4. ASSUME NEW q \in Requests, Request(q) PROVE ContentInv'
  <2>1. q \in Procs
    BY DEF Procs
  <2>2. QED
    BY <1>2, <1>3, <1>4, <2>1, UnsizeNamedKeeps, DeleteRowsKeeps, EraseKeeps, RequestDiesKeeps, BeginUploadKeeps,
       CleanKeeps, ZeroSizeKeeps, FailUploadKeeps, RemoveFailedKeeps, BeginDeleteKeeps DEF Request
<1>5. ASSUME NEW k \in Makes, Make(k) \/ ManagerLoop(k) PROVE ContentInv'
  <2>1. k \in Procs
    BY DEF Procs
  <2>2. QED
    BY <1>2, <1>3, <1>5, <2>1, GatherKeeps, FailMakeKeeps, StagingKeeps, StartMakeKeeps DEF Make, ManagerLoop
<1>6. CASE ManagerStops
  BY <1>2, <1>6, ManagerStopsKeeps
<1>7. CASE ManagerStarts
  BY <1>0, <1>2, <1>7 DEF ManagerStarts
<1>8. QED
  BY <1>4, <1>5, <1>6, <1>7 DEF ContentNext

(* So it always holds. *)
LEMMA ContentInvHolds == ContentSpec => []ContentInv
<1>1. QED
  BY ContentInvInit, ContentInvKept, PTL DEF ContentSpec

(* The variables of the contents always have their types. *)
THEOREM ContentsTyped == ContentSpec => []ContentTypeOK
<1>1. ContentInv => ContentTypeOK
  BY DEF ContentInv
<1>2. QED
  BY <1>1, ContentInvHolds, PTL

(* A bundle that is ready has all its contents. *)
THEOREM ReadyAreComplete == ContentSpec => []ReadyHasContents
<1>1. ContentInv => ReadyHasContents
  BY DEF ContentInv
<1>2. QED
  BY <1>1, ContentInvHolds, PTL

(* A deleted bundle leaves nothing behind. *)
THEOREM DeletedAreErased == ContentSpec => []NoOrphans
<1>1. ContentInv => NoOrphans
  <2> SUFFICES ASSUME ContentInv, NEW b \in Bundles, state[b] = "deleted", b \notin excused,
                      \A p \in Working : b \notin proc[p].bundles
               PROVE  store[b] = "absent"
    BY DEF NoOrphans
  <2>1. QED
    BY DEF ContentInv, DeletedErased, Working
<1>2. QED
  BY <1>1, ContentInvHolds, PTL

-----------------------------------------------------------------------------
(* The sums *)

SumInv == ContentInv /\ OneAtWork /\ SumExact /\ Measured

(* The sums are sums of natural numbers over finite sets. *)
LEMMA SumTypes ==
    ASSUME ContentTypeOK
    PROVE  /\ IsFiniteSet(Bundles) /\ IsFiniteSet(Ready)
           /\ Total \in Nat /\ ReadySize \in Nat
           /\ Total = SumOver(size, {b \in Bundles : Present(b)})
           /\ ReadySize = SumOver(Size, Ready)
<1>1. IsFiniteSet(Bundles)
  BY FiniteAssumption, FS_Union DEF Bundles
<1>2. Ready \in SUBSET Bundles /\ IsFiniteSet(Ready)
  BY <1>1, FS_Subset DEF Ready
<1>3. Total \in Nat /\ Total = SumOver(size, {b \in Bundles : Present(b)})
  BY TotalSizeType DEF Total, TotalSize, SumOver
<1>4. ReadySize = SumOver(Size, Ready)
  BY DEF ReadySize, SumOver
<1>5. \A b \in Ready : Size[b] \in Nat
  BY <1>2, SizeAssumption
<1>6. ReadySize \in Nat
  BY <1>2, <1>4, <1>5, SumSubset
<1>7. QED
  BY <1>1, <1>2, <1>3, <1>4, <1>6

(* The same after a step. *)
LEMMA SumsThen ==
    /\ ReadySize' = SumOver(Size, Ready')
    /\ Total' = SumOver(size', {b \in Bundles : Present(b)}')
<1>1. ReadySize' = SumOver(Size, Ready')
  BY DEF ReadySize, SumOver, MapThenSumSet, MapThenFoldSet
<1>2. Total' = SumOver(size', {b \in Bundles : Present(b)}')
  BY DEF Total, TotalSize, SumOver, MapThenSumSet, MapThenFoldSet
<1>3. QED
  BY <1>1, <1>2

(* The bundles in R take no more than all that are there, if each of them  *)
(* is counted.                                                             *)
LEMMA SumWithin ==
    ASSUME ContentTypeOK, NEW R \in SUBSET {b \in Bundles : Present(b)}, \A b \in R : size[b] = Size[b]
    PROVE  SumOver(Size, R) <= Total
<1> DEFINE P == {b \in Bundles : Present(b)}
<1>1. IsFiniteSet(P) /\ IsFiniteSet(R) /\ Total = SumOver(size, P)
  BY SumTypes, FS_Subset
<1>2. \A b \in P : size[b] \in Nat
  BY DEF ContentTypeOK
<1>3. \A b \in R : Size[b] \in Int
  BY SizeAssumption
<1>4. SumOver(Size, R) = SumOver(size, R)
  BY <1>1, <1>3, SumSame
<1>5. SumOver(size, R) <= SumOver(size, P)
  BY <1>1, <1>2, SumSubset
<1>6. QED
  BY <1>1, <1>4, <1>5

(* The ready bundles are among those that are there, and leave room for    *)
(* another.                                                                *)
LEMMA ReadyWithin ==
    ASSUME ContentTypeOK, \A b \in Ready : size[b] = Size[b]
    PROVE  /\ ReadySize <= Total
           /\ \A b \in Bundles \ Ready : Present(b) /\ size[b] = Size[b] => ReadySize + Size[b] <= Total
<1>1. Ready \in SUBSET {b \in Bundles : Present(b)} /\ \A b \in Ready : Size[b] \in Int
  BY SizeAssumption DEF Ready, Present
<1>2. ReadySize <= Total
  BY <1>1, SumTypes, SumWithin
<1>3. ASSUME NEW b \in Bundles \ Ready, Present(b), size[b] = Size[b]
      PROVE  ReadySize + Size[b] <= Total
  <2>1. SumOver(Size, Ready \union {b}) <= Total
    <3>1. Ready \union {b} \in SUBSET {c \in Bundles : Present(c)} /\ \A c \in Ready \union {b} : size[c] = Size[c]
      BY <1>1, <1>3
    <3>2. QED
      BY <3>1, SumWithin
  <2>2. SumOver(Size, Ready \union {b}) = SumOver(Size, Ready) + Size[b]
    <3>1. Size[b] \in Int /\ IsFiniteSet(Ready) /\ b \notin Ready
      BY SizeAssumption, SumTypes
    <3>2. QED
      BY <1>1, <3>1, SumAdd
  <2>3. QED
    BY <2>1, <2>2, SumTypes
<1>4. QED
  BY <1>2, <1>3

(* Fewer that are ready take no more.                                      *)
LEMMA FewerReady ==
    ASSUME ContentTypeOK, ContentTypeOK', Ready' \subseteq Ready
    PROVE  ReadySize' <= ReadySize
<1>1. IsFiniteSet(Ready) /\ Ready' \in SUBSET Ready /\ ReadySize = SumOver(Size, Ready)
  BY SumTypes
<1>2. ReadySize' = SumOver(Size, Ready')
  BY SumsThen
<1>3. \A b \in Ready : Size[b] \in Nat
  BY SizeAssumption DEF Ready
<1>4. QED
  BY <1>1, <1>2, <1>3, SumSubset

(* One more that is ready takes its size. *)
LEMMA OneMoreReady ==
    ASSUME ContentTypeOK, NEW b \in Bundles \ Ready, Ready' = Ready \union {b}
    PROVE  ReadySize' = ReadySize + Size[b]
<1>1. IsFiniteSet(Ready) /\ ReadySize = SumOver(Size, Ready) /\ b \notin Ready
  BY SumTypes
<1>2. ReadySize' = SumOver(Size, Ready')
  BY SumsThen
<1>3. Size[b] \in Int /\ \A c \in Ready : Size[c] \in Int
  BY SizeAssumption DEF Ready
<1>4. SumOver(Size, Ready \union {b}) = SumOver(Size, Ready) + Size[b]
  BY <1>1, <1>3, SumAdd
<1>5. QED
  BY <1>1, <1>2, <1>4

(* A step that changes no size and deletes nothing.                        *)
LEMMA SameTotal ==
    ASSUME ContentTypeOK, UNCHANGED size, \A b \in Bundles : state'[b] = "deleted" <=> state[b] = "deleted"
    PROVE  Total' = Total
<1>1. {b \in Bundles : Present(b)}' = {b \in Bundles : Present(b)}
  BY DEF Present
<1>2. QED
  BY <1>1, SumsThen, SumTypes

(* What one that is alone at work has done, and what it has to do.         *)
OwnSums(p) ==
    /\ proc'[p].pc = "update" => proc'[p].sum = Total'
    /\ proc'[p].pc \notin {"recount", "update", "delete", "erase"} => disk_used' = Total'
    /\ \A b \in Ready' : size'[b] = Size[b] \/ (proc'[p].pc = "delete" /\ b \in proc'[p].bundles)
    /\ \A b \in proc'[p].bundles \ excused' :
         /\ \/ proc'[p].pc \in {"recount", "update"} /\ proc'[p].then \in {"enforce", "finish"}
            \/ proc'[p].pc = "finish" \/ (p \notin Makes /\ proc'[p].pc = "enforce")
            => size'[b] = Size[b]
         /\ proc'[p].pc = "finish" \/ (p \notin Makes /\ proc'[p].pc = "enforce") => ReadySize' + Size[b] <= disk_used'
         /\ proc'[p].pc = "zero" => state'[b] # "ready"
         /\ Stage(p)' = "finish" \/ (p \in Makes /\ Stage(p)' = "measure") => ReadySize' + Size[b] <= Quota
    /\ ReadySize' <= disk_used'
    /\ ReadySize' <= Quota

LEMMA AloneKeeps ==
    ASSUME ContentInv', OneAtWork, NEW p \in Procs, ~raced' => Working \subseteq {p},
           \A q \in Procs \ {p} : proc'[q] = proc[q],
           raced => raced', ~raced' => OwnSums(p)
    PROVE  SumInv'
<1>1. ASSUME ~raced' PROVE Working' \subseteq {p} /\ OwnSums(p)
  BY <1>1 DEF Working
<1>2. OneAtWork'
  BY <1>1 DEF OneAtWork
<1>3. SumExact'
  <2> SUFFICES ASSUME ~raced'
               PROVE  /\ \A q \in Working' : proc'[q].pc = "update" => proc'[q].sum = Total'
                      /\ (\A q \in Working' : proc'[q].pc \notin {"recount", "update", "delete", "erase"}) =>
                            disk_used' = Total'
    BY DEF SumExact
  <2>1. CASE p \in Working'
    BY <1>1, <2>1 DEF OwnSums
  <2>2. CASE p \notin Working'
    <3>1. Working' = {} /\ proc'[p].pc \in {"new", "idle"}
      BY <1>1, <2>2 DEF Working
    <3>2. QED
      BY <1>1, <3>1 DEF OwnSums
  <2>3. QED
    BY <2>1, <2>2
<1>4. Measured'
  <2> SUFFICES ASSUME ~raced'
               PROVE  /\ \A b \in Ready' : \/ size'[b] = Size[b]
                                           \/ \E q \in Working' : proc'[q].pc = "delete" /\ b \in proc'[q].bundles
                      /\ \A q \in Working' : \A b \in proc'[q].bundles \ excused' :
                           /\ \/ proc'[q].pc \in {"recount", "update"} /\ proc'[q].then \in {"enforce", "finish"}
                              \/ proc'[q].pc = "finish" \/ (q \notin Makes /\ proc'[q].pc = "enforce")
                              => size'[b] = Size[b]
                           /\ proc'[q].pc = "finish" \/ (q \notin Makes /\ proc'[q].pc = "enforce") => ReadySize' + Size[b] <= disk_used'
                           /\ proc'[q].pc = "zero" => state'[b] # "ready"
                           /\ Stage(q)' = "finish" \/ (q \in Makes /\ Stage(q)' = "measure")
                                => ReadySize' + Size[b] <= Quota
                      /\ ReadySize' <= disk_used'
                      /\ ReadySize' <= Quota
    BY DEF Measured, Stage
  <2>1. p \in Working' \/ proc'[p].pc # "delete"
    BY DEF Working
  <2>2. QED
    BY <1>1, <2>1 DEF OwnSums
<1>5. QED
  BY <1>2, <1>3, <1>4 DEF SumInv

(* What one that is alone at work finds.                                   *)
LEMMA SumFacts ==
    ASSUME SumInv, NEW p \in Working, ~raced
    PROVE  /\ Working = {p} /\ p \in Procs /\ proc[p].bundles \in SUBSET Bundles
           /\ disk_used \in Nat /\ Quota \in Nat /\ Total \in Nat /\ ReadySize \in Nat
           /\ \A b \in Bundles : Size[b] \in Nat
           /\ Ready \subseteq Bundles
           /\ proc[p].pc = "update" => proc[p].sum = Total
           /\ proc[p].pc \notin {"recount", "update", "delete", "erase"} => disk_used = Total
           /\ \A b \in Ready : size[b] = Size[b] \/ (proc[p].pc = "delete" /\ b \in proc[p].bundles)
           /\ \A b \in proc[p].bundles \ excused :
                /\ \/ proc[p].pc \in {"recount", "update"} /\ proc[p].then \in {"enforce", "finish"}
                   \/ proc[p].pc = "finish" \/ (p \notin Makes /\ proc[p].pc = "enforce")
                   => size[b] = Size[b]
                /\ proc[p].pc = "finish" \/ (p \notin Makes /\ proc[p].pc = "enforce") => ReadySize + Size[b] <= disk_used
                /\ proc[p].pc = "zero" => state[b] # "ready"
                /\ Stage(p) = "finish" \/ (p \in Makes /\ Stage(p) = "measure") => ReadySize + Size[b] <= Quota
           /\ ReadySize <= disk_used /\ ReadySize <= Quota
<1>1. Working = {p} /\ p \in Procs
  BY DEF SumInv, OneAtWork, Working
<1>2. proc[p].bundles \in SUBSET Bundles /\ disk_used \in Nat /\ Quota \in Nat
      /\ \A b \in Bundles : Size[b] \in Nat
  BY <1>1, ProcFields, SizeAssumption DEF SumInv, ContentInv, ContentTypeOK
<1>3. Total \in Nat /\ ReadySize \in Nat /\ Ready \subseteq Bundles
  BY SumTypes DEF SumInv, ContentInv, Ready
<1>4. /\ proc[p].pc = "update" => proc[p].sum = Total
      /\ proc[p].pc \notin {"recount", "update", "delete", "erase"} => disk_used = Total
  BY <1>1 DEF SumInv, SumExact
<1>5. QED
  BY <1>1, <1>2, <1>3, <1>4 DEF SumInv, Measured

(* A step that writes nothing of what the sums are made of.                *)
LEMMA QuietSums ==
    ASSUME SumInv, ContentInv', NEW p \in Working,
           \A q \in Procs \ {p} : proc'[q] = proc[q],
           UNCHANGED <<state, size, disk_used, excused, raced>>,
           proc[p].pc \notin {"recount", "update", "delete"},
           proc'[p].pc \notin {"update", "delete"},
           proc[p].pc = "erase" => proc'[p].pc = "recount",
           proc'[p].pc = "recount" => proc'[p].then \notin {"enforce", "finish"},
           \A b \in proc'[p].bundles \ excused :
             /\ proc'[p].pc = "zero" => state[b] # "ready"
             /\ proc'[p].pc = "finish" \/ (p \notin Makes /\ proc'[p].pc = "enforce") => size[b] = Size[b]
             /\ proc'[p].pc = "finish" \/ (p \notin Makes /\ proc'[p].pc = "enforce") => ReadySize + Size[b] <= disk_used
             /\ Stage(p)' = "finish" \/ (p \in Makes /\ Stage(p)' = "measure") => ReadySize + Size[b] <= Quota
    PROVE  SumInv'
<1>1. OneAtWork /\ p \in Procs
  BY DEF SumInv, Working
<1>2. ~raced => Working \subseteq {p}
  BY DEF SumInv, OneAtWork
<1>3. ASSUME ~raced PROVE OwnSums(p)
  <2>1. Ready' = Ready /\ ReadySize' = SumOver(Size, Ready) /\ ReadySize' = ReadySize
    BY SumsThen, SumTypes DEF Ready, SumInv, ContentInv
  <2>2. Total' = Total
    BY SameTotal DEF SumInv, ContentInv
  <2>3. QED
    BY <1>3, <2>1, <2>2, SumFacts DEF OwnSums
<1>4. QED
  BY <1>1, <1>2, <1>3, AloneKeeps

(* A step that makes no bundle ready, and changes no size.                 *)
LEMMA FailSums ==
    ASSUME SumInv, ContentInv', NEW p \in Working,
           \A q \in Procs \ {p} : proc'[q] = proc[q],
           UNCHANGED <<size, disk_used, excused, raced>>,
           \A b \in Bundles : state'[b] = state[b] \/ (state[b] # "deleted" /\ state'[b] = "failed"),
           proc[p].pc \in {"fail", "reject"}, proc'[p].pc \in {"idle", "remove"}
    PROVE  SumInv'
<1>1. OneAtWork /\ p \in Procs
  BY DEF SumInv, Working
<1>2. ~raced => Working \subseteq {p}
  BY DEF SumInv, OneAtWork
<1>3. ASSUME ~raced PROVE OwnSums(p)
  <2>1. Ready' \subseteq Ready /\ ReadySize' <= ReadySize /\ ReadySize' \in Nat
    <3>1. Ready' \subseteq Ready
      BY DEF Ready
    <3>2. ReadySize' <= ReadySize
      BY <3>1, FewerReady DEF SumInv, ContentInv
    <3>3. ReadySize' \in Nat
      <4>1. IsFiniteSet(Ready') /\ \A b \in Ready' : Size[b] \in Nat
        BY <3>1, SumTypes, FS_Subset, SizeAssumption DEF SumInv, ContentInv, Ready
      <4>2. QED
        BY <4>1, SumsThen, SumSubset
    <3>4. QED
      BY <3>1, <3>2, <3>3
  <2>2. Total' = Total
    BY SameTotal DEF SumInv, ContentInv
  <2>3. Stage(p)' \in {"idle", "remove"}
    BY DEF Stage
  <2>4. QED
    BY <1>3, <2>1, <2>2, <2>3, SumFacts DEF OwnSums
<1>4. QED
  BY <1>1, <1>2, <1>3, AloneKeeps

LEMMA ReadSizesSums ==
    ASSUME SumInv, ContentInv', NEW p \in Procs, ReadSizes(p)
    PROVE  SumInv'
<1>1. /\ proc[p].pc = "recount" /\ p \in Working
      /\ Moves(p, "update", proc[p].then, proc[p].bundles) /\ proc'[p].sum = Total
      /\ UNCHANGED <<state, store, excused, size, disk_used, raced>>
  BY ReadSizesDoes DEF SumInv, ContentInv, Working
<1>2. OneAtWork /\ (~raced => Working \subseteq {p})
  BY <1>1 DEF SumInv, OneAtWork
<1>3. ASSUME ~raced PROVE OwnSums(p)
  <2>1. Ready' = Ready /\ ReadySize' = ReadySize
    BY <1>1, SumsThen, SumTypes DEF Ready, SumInv, ContentInv
  <2>2. Total' = Total
    BY <1>1, SameTotal DEF SumInv, ContentInv
  <2>3. Stage(p)' = Stage(p)
    BY <1>1 DEF Stage, Moves
  <2>4. QED
    BY <1>1, <1>3, <2>1, <2>2, <2>3, SumFacts DEF OwnSums, Moves
<1>4. QED
  BY <1>1, <1>2, <1>3, AloneKeeps DEF Moves

LEMMA WriteDiskUsedSums ==
    ASSUME SumInv, ContentInv', NEW p \in Procs, WriteDiskUsed(p)
    PROVE  SumInv'
<1>1. /\ proc[p].pc = "update" /\ p \in Working /\ ContentTypeOK
      /\ Moves(p, proc[p].then, "idle", IF proc[p].then = "idle" THEN {} ELSE proc[p].bundles)
      /\ disk_used' = proc[p].sum
      /\ UNCHANGED <<state, store, excused, size, raced>>
      /\ proc[p].then \in {"idle", "store", "enforce", "finish"}
  BY WriteDiskUsedDoes DEF SumInv, ContentInv, Working, ErasedDeleted
<1>2. OneAtWork /\ (~raced => Working \subseteq {p})
  BY <1>1 DEF SumInv, OneAtWork
<1>3. ASSUME ~raced PROVE OwnSums(p)
  <2>1. Ready' = Ready /\ ReadySize' = ReadySize
    BY <1>1, SumsThen, SumTypes DEF Ready
  <2>2. Total' = Total /\ disk_used' = Total
    BY <1>1, <1>3, SameTotal, SumFacts
  <2>3. \A b \in Ready : size[b] = Size[b]
    BY <1>1, <1>3, SumFacts
  <2>4. ReadySize <= Total /\ ReadySize <= Quota
    BY <1>1, <1>3, <2>3, ReadyWithin, SumFacts
  <2>5. ASSUME NEW b \in proc[p].bundles \ excused, proc[p].then \in {"enforce", "finish"} PROVE ReadySize + Size[b] <= Total
    <3>1. b \in Bundles /\ state[b] \notin {"ready", "deleted"}
      BY <1>1, <2>5, ProcFields DEF SumInv, ContentInv, ContentTypeOK, StoringAlone, Stage, StoringStages
    <3>2. size[b] = Size[b]
      BY <1>1, <1>3, <2>5, SumFacts
    <3>3. QED
      BY <1>1, <2>3, <3>1, <3>2, ReadyWithin DEF Ready, Present
  <2>6. Stage(p)' = Stage(p)
    BY <1>1 DEF Stage, Moves
  <2>7. QED
    BY <1>1, <1>3, <2>1, <2>2, <2>3, <2>4, <2>5, <2>6, SumFacts DEF OwnSums, Moves
<1>4. QED
  BY <1>1, <1>2, <1>3, AloneKeeps DEF Moves

LEMMA MeasureSums ==
    ASSUME SumInv, ContentInv', NEW p \in Procs, NEW b \in Bundles, Measure(p, b)
    PROVE  SumInv'
<1>1. /\ proc[p].pc = "measure" /\ b \in proc[p].bundles /\ p \in Working /\ ContentTypeOK
      /\ \/ /\ store[b] # "absent" /\ Present(b) /\ size' = [size EXCEPT ![b] = Size[b]]
            /\ Moves(p, "recount", IF b \in Uploads THEN "enforce" ELSE "finish", proc[p].bundles)
         \/ UNCHANGED size /\ Moves(p, "fail", "idle", proc[p].bundles)
      /\ UNCHANGED <<state, store, excused, disk_used, raced>>
  BY MeasureDoes DEF SumInv, ContentInv, Working
<1>2. CASE UNCHANGED size /\ Moves(p, "fail", "idle", proc[p].bundles)
  BY <1>1, <1>2, QuietSums DEF Moves, Stage
<1>3. CASE /\ size' = [size EXCEPT ![b] = Size[b]]
           /\ Moves(p, "recount", IF b \in Uploads THEN "enforce" ELSE "finish", proc[p].bundles)
  <2>1. OneAtWork /\ (~raced => Working \subseteq {p})
    BY <1>1 DEF SumInv, OneAtWork
  <2>2. ASSUME ~raced PROVE OwnSums(p)
    <3>1. Ready' = Ready /\ ReadySize' = ReadySize
      BY <1>1, SumsThen, SumTypes DEF Ready
    <3>2. proc[p].bundles = {b} /\ (b \in Uploads \/ p \in Makes)
      BY <1>1 DEF SumInv, ContentInv, OneEach, Stage, StoringStages, Working, Procs, Bundles
    <3>3. size'[b] = Size[b] /\ \A c \in Bundles \ {b} : size'[c] = size[c]
      BY <1>1, <1>3 DEF ContentTypeOK
    <3>4. Stage(p)' = IF b \in Uploads THEN "enforce" ELSE "finish"
      BY <1>3 DEF Stage, Moves
    <3>5. QED
      BY <1>1, <1>3, <2>2, <3>1, <3>2, <3>3, <3>4, SumFacts DEF OwnSums, Moves, Stage
  <2>3. QED
    BY <1>1, <1>3, <2>1, <2>2, AloneKeeps DEF Moves
<1>4. QED
  BY <1>1, <1>2, <1>3

LEMMA EnforceSums ==
    ASSUME SumInv, ContentInv', NEW p \in Procs, NEW b \in Bundles, Enforce(p, b)
    PROVE  SumInv'
<1>1. /\ proc[p].pc = "enforce" /\ b \in proc[p].bundles /\ p \in Working /\ ContentTypeOK
      /\ \/ \E pc \in {"fail", "reject"} : Moves(p, pc, "idle", proc[p].bundles)
         \/ /\ Size[b] + disk_used <= Quota
            /\ Moves(p, IF b \in Uploads THEN "finish" ELSE "measure", "idle", proc[p].bundles)
      /\ UNCHANGED <<state, store, excused, size, disk_used, raced>>
  BY EnforceDoes DEF SumInv, ContentInv, Working
<1>2. CASE \E pc \in {"fail", "reject"} : Moves(p, pc, "idle", proc[p].bundles)
  BY <1>1, <1>2, QuietSums DEF Moves, Stage
<1>3. CASE /\ Size[b] + disk_used <= Quota
           /\ Moves(p, IF b \in Uploads THEN "finish" ELSE "measure", "idle", proc[p].bundles)
  <2>1. OneAtWork /\ (~raced => Working \subseteq {p})
    BY <1>1 DEF SumInv, OneAtWork
  <2>2. ASSUME ~raced PROVE OwnSums(p)
    <3>1. Ready' = Ready /\ ReadySize' = ReadySize
      BY <1>1, SumsThen, SumTypes DEF Ready
    <3>2. Total' = Total /\ disk_used = Total
      BY <1>1, <2>2, SameTotal, SumFacts
    <3>3. proc[p].bundles = {b}
      BY <1>1 DEF SumInv, ContentInv, OneEach, Stage, StoringStages, Working, Procs
    <3>4. ReadySize + Size[b] <= Quota
      BY <1>1, <1>3, <2>2, SumFacts
    <3>5. b \in Uploads => p \notin Makes
      BY <1>1, <3>3, KindsAssumption DEF SumInv, ContentInv, OneEach, Working
    <3>6. QED
      BY <1>1, <1>3, <2>2, <3>1, <3>2, <3>3, <3>4, <3>5, SumFacts DEF OwnSums, Moves, Stage
  <2>3. QED
    BY <1>1, <1>3, <2>1, <2>2, AloneKeeps DEF Moves
<1>4. QED
  BY <1>1, <1>2, <1>3

LEMMA BeginWriteSums ==
    ASSUME SumInv, ContentInv', NEW p \in Procs, NEW b \in Bundles, BeginWrite(p, b)
    PROVE  SumInv'
<1>1. /\ proc[p].pc = "store" /\ b \in proc[p].bundles /\ p \in Working
      /\ Moves(p, "writing", "idle", proc[p].bundles)
      /\ UNCHANGED <<state, excused, size, disk_used, raced>>
  BY BeginWriteDoes DEF SumInv, ContentInv, Working
<1>2. QED
  BY <1>1, QuietSums DEF Moves, Stage

LEMMA EndWriteSums ==
    ASSUME SumInv, ContentInv', NEW p \in Procs, NEW b \in Bundles, EndWrite(p, b)
    PROVE  SumInv'
<1>1. /\ proc[p].pc = "writing" /\ b \in proc[p].bundles /\ p \in Working
      /\ Moves(p, IF b \in Uploads THEN "measure" ELSE "enforce", "idle", proc[p].bundles)
      /\ UNCHANGED <<state, excused, size, disk_used, raced>>
  BY EndWriteDoes DEF SumInv, ContentInv, Working
<1>2. proc[p].bundles = {b} /\ (p \in Makes => b \notin Uploads) /\ (p \notin Makes => b \in Uploads)
  BY <1>1, KindsAssumption DEF SumInv, ContentInv, OneEach, Stage, StoringStages, Working, Procs
<1>3. QED
  BY <1>1, <1>2, QuietSums DEF Moves, Stage

LEMMA WriteFailsSums ==
    ASSUME SumInv, ContentInv', NEW p \in Procs, NEW b \in Bundles, WriteFails(p, b)
    PROVE  SumInv'
<1>1. /\ proc[p].pc = "writing" /\ b \in proc[p].bundles /\ p \in Working
      /\ Moves(p, "fail", "idle", proc[p].bundles)
      /\ UNCHANGED <<state, excused, size, disk_used, raced>>
  BY WriteFailsDoes DEF SumInv, ContentInv, Working
<1>2. QED
  BY <1>1, QuietSums DEF Moves, Stage

LEMMA CleanSums ==
    ASSUME SumInv, ContentInv', NEW p \in Procs, NEW b \in Bundles, Clean(p, b)
    PROVE  SumInv'
<1>1. /\ proc[p].pc = "clean" /\ b \in proc[p].bundles /\ p \in Working
      /\ (Moves(p, "store", "idle", proc[p].bundles) \/ Moves(p, "zero", "store", proc[p].bundles))
      /\ UNCHANGED <<state, excused, size, disk_used, raced>>
  BY CleanDoes DEF SumInv, ContentInv, Working
<1>2. \A c \in proc[p].bundles \ excused : state[c] # "ready"
  BY <1>1 DEF SumInv, ContentInv, StoringAlone, Stage, StoringStages
<1>3. QED
  BY <1>1, <1>2, QuietSums DEF Moves, Stage

LEMMA RemoveFailedSums ==
    ASSUME SumInv, ContentInv', NEW p \in Procs, NEW b \in Bundles, RemoveFailed(p, b)
    PROVE  SumInv'
<1>1. /\ proc[p].pc = "remove" /\ b \in proc[p].bundles /\ p \in Working
      /\ (Moves(p, "idle", "idle", {}) \/ Moves(p, "zero", "idle", proc[p].bundles))
      /\ UNCHANGED <<state, excused, size, disk_used, raced>>
  BY RemoveFailedDoes DEF SumInv, ContentInv, Working
<1>2. \A c \in proc[p].bundles \ excused : state[c] # "ready"
  BY <1>1 DEF SumInv, ContentInv, StoringAlone, Stage, StoringStages
<1>3. QED
  BY <1>1, <1>2, QuietSums DEF Moves, Stage

LEMMA EraseSums ==
    ASSUME SumInv, ContentInv', NEW p \in Procs, Erase(p)
    PROVE  SumInv'
<1>1. /\ proc[p].pc = "erase" /\ p \in Working
      /\ Moves(p, "recount", "idle", proc[p].bundles)
      /\ UNCHANGED <<state, excused, size, disk_used, raced>>
  BY EraseDoes DEF SumInv, ContentInv, Working
<1>2. QED
  BY <1>1, QuietSums DEF Moves, Stage

LEMMA GatherSums ==
    ASSUME SumInv, ContentInv', NEW p \in Makes, Gather(p)
    PROVE  SumInv'
<1>1. /\ proc[p].pc = "gather" /\ p \in Working
      /\ (Moves(p, "fail", "idle", proc[p].bundles) \/ Moves(p, "store", "idle", proc[p].bundles))
      /\ UNCHANGED <<state, excused, size, disk_used, raced>>
  BY GatherDoes DEF SumInv, ContentInv, Working, Procs
<1>2. QED
  BY <1>1, QuietSums DEF Moves, Stage

LEMMA FailUploadSums ==
    ASSUME SumInv, ContentInv', NEW p \in Procs, NEW b \in Bundles, FailUpload(p, b)
    PROVE  SumInv'
<1>1. /\ proc[p].pc \in {"fail", "reject"} /\ p \in Working /\ ContentTypeOK
      /\ (Moves(p, "remove", "idle", proc[p].bundles) \/ Moves(p, "idle", "idle", {}))
      /\ state' \in {state, [state EXCEPT ![b] = IF @ = "deleted" THEN @ ELSE "failed"]}
      /\ UNCHANGED <<excused, size, disk_used, raced>>
  BY FailUploadDoes DEF SumInv, ContentInv, Working
<1>2. \A c \in Bundles : state'[c] = state[c] \/ (state[c] # "deleted" /\ state'[c] = "failed")
  BY <1>1 DEF ContentTypeOK
<1>3. QED
  BY <1>1, <1>2, FailSums DEF Moves

LEMMA FailMakeSums ==
    ASSUME SumInv, ContentInv', NEW p \in Makes, FailMake(p)
    PROVE  SumInv'
<1>1. /\ proc[p].pc \in {"fail", "reject"} /\ p \in Working /\ ContentTypeOK
      /\ Moves(p, "idle", "idle", {})
      /\ state' = [state EXCEPT ![p] = IF @ = "deleted" THEN @ ELSE "failed"]
      /\ UNCHANGED <<excused, size, disk_used, raced>>
  BY FailMakeDoes DEF SumInv, ContentInv, Working, Procs
<1>2. \A c \in Bundles : state'[c] = state[c] \/ (state[c] # "deleted" /\ state'[c] = "failed")
  BY <1>1 DEF ContentTypeOK
<1>3. QED
  BY <1>1, <1>2, FailSums DEF Moves

LEMMA ZeroSizeSums ==
    ASSUME SumInv, ContentInv', NEW p \in Procs, NEW b \in Bundles, ZeroSize(p, b)
    PROVE  SumInv'
<1>1. /\ proc[p].pc = "zero" /\ b \in proc[p].bundles /\ p \in Working /\ ContentTypeOK
      /\ \/ size' = [size EXCEPT ![b] = 0] /\ Moves(p, "recount", proc[p].then, proc[p].bundles)
         \/ UNCHANGED size /\ Moves(p, "idle", "idle", {})
      /\ UNCHANGED <<state, store, excused, disk_used, raced>>
      /\ proc[p].then \in {"idle", "store"}
  BY ZeroSizeDoes DEF SumInv, ContentInv, Working, ErasedDeleted
<1>2. CASE UNCHANGED size /\ Moves(p, "idle", "idle", {})
  BY <1>1, <1>2, QuietSums DEF Moves, Stage
<1>3. CASE size' = [size EXCEPT ![b] = 0] /\ Moves(p, "recount", proc[p].then, proc[p].bundles)
  <2>1. OneAtWork /\ (~raced => Working \subseteq {p})
    BY <1>1 DEF SumInv, OneAtWork
  <2>2. ASSUME ~raced PROVE OwnSums(p)
    <3>1. Ready' = Ready /\ ReadySize' = ReadySize
      BY <1>1, SumsThen, SumTypes DEF Ready
    <3>2. b \notin Ready
      BY <1>1, <2>2, SumFacts DEF Ready
    <3>3. \A c \in Bundles \ {b} : size'[c] = size[c]
      BY <1>1, <1>3 DEF ContentTypeOK
    <3>4. QED
      BY <1>1, <1>3, <2>2, <3>1, <3>2, <3>3, SumFacts DEF OwnSums, Moves, Stage
  <2>3. QED
    BY <1>1, <1>3, <2>1, <2>2, AloneKeeps DEF Moves
<1>4. QED
  BY <1>1, <1>2, <1>3

LEMMA UnsizeNamedSums ==
    ASSUME SumInv, ContentInv', NEW p \in Procs, UnsizeNamed(p)
    PROVE  SumInv'
<1>1. /\ proc[p].pc = "unsize" /\ p \in Working /\ ContentTypeOK
      /\ \/ /\ size' = [b \in Bundles |-> IF b \in Named(proc[p].bundles) THEN 0 ELSE size[b]]
            /\ Moves(p, proc[p].then, "idle", IF proc[p].then = "idle" THEN {} ELSE proc[p].bundles)
         \/ UNCHANGED size /\ Moves(p, "idle", "idle", {})
      /\ UNCHANGED <<state, store, excused, disk_used, raced>>
      /\ proc[p].then \in {"delete", "erase"}
      /\ proc[p].then = "erase" => proc[p].bundles \subseteq excused
  BY UnsizeNamedDoes DEF SumInv, ContentInv, Working, ErasedDeleted
<1>2. CASE UNCHANGED size /\ Moves(p, "idle", "idle", {})
  BY <1>1, <1>2, QuietSums DEF Moves, Stage
<1>3. CASE /\ size' = [b \in Bundles |-> IF b \in Named(proc[p].bundles) THEN 0 ELSE size[b]]
           /\ Moves(p, proc[p].then, "idle", IF proc[p].then = "idle" THEN {} ELSE proc[p].bundles)
  <2>1. OneAtWork /\ (~raced => Working \subseteq {p})
    BY <1>1 DEF SumInv, OneAtWork
  <2>2. ASSUME ~raced PROVE OwnSums(p)
    <3>1. Ready' = Ready /\ ReadySize' = ReadySize
      BY <1>1, SumsThen, SumTypes DEF Ready
    <3>2. \A c \in Bundles \ proc[p].bundles : size'[c] = size[c]
      BY <1>3 DEF Named
    <3>3. QED
      BY <1>1, <1>3, <2>2, <3>1, <3>2, SumFacts DEF OwnSums, Moves, Stage, Ready
  <2>3. QED
    BY <1>1, <1>3, <2>1, <2>2, AloneKeeps DEF Moves
<1>4. QED
  BY <1>1, <1>2, <1>3

LEMMA DeleteRowsSums ==
    ASSUME SumInv, ContentInv', NEW p \in Procs, DeleteRows(p)
    PROVE  SumInv'
<1>1. /\ proc[p].pc = "delete" /\ p \in Working /\ ContentTypeOK
      /\ Moves(p, "erase", "idle", proc[p].bundles)
      /\ state' = [b \in Bundles |-> IF b \in proc[p].bundles THEN "deleted" ELSE state[b]]
      /\ size' = [b \in Bundles |-> IF b \in proc[p].bundles THEN 0 ELSE size[b]]
      /\ UNCHANGED <<store, excused, disk_used, raced>>
  BY DeleteRowsDoes DEF SumInv, ContentInv, Working
<1>2. OneAtWork /\ (~raced => Working \subseteq {p})
  BY <1>1 DEF SumInv, OneAtWork
<1>3. ASSUME ~raced PROVE OwnSums(p)
  <2>1. Ready' = Ready \ proc[p].bundles
    BY <1>1 DEF Ready
  <2>2. ReadySize' <= ReadySize /\ ReadySize' \in Nat
    <3>1. IsFiniteSet(Ready') /\ \A b \in Ready' : Size[b] \in Nat
      BY <1>1, <2>1, SumTypes, FS_Subset, SizeAssumption DEF Ready
    <3>2. QED
      BY <1>1, <2>1, <3>1, FewerReady, SumsThen, SumSubset DEF ContentInv
  <2>3. \A b \in Ready' : size'[b] = Size[b]
    BY <1>1, <1>3, <2>1, SumFacts
  <2>4. ReadySize' <= disk_used' /\ ReadySize' <= Quota
    BY <1>1, <1>3, <2>2, SumFacts
  <2>5. proc'[p].pc = "erase" /\ Stage(p)' = "erase"
    BY <1>1 DEF Moves, Stage
  <2>6. QED
    BY <2>3, <2>4, <2>5 DEF OwnSums
<1>4. QED
  BY <1>1, <1>2, <1>3, AloneKeeps DEF Moves

LEMMA FinishSums ==
    ASSUME SumInv, ContentInv', NEW p \in Procs, NEW b \in Bundles, Finish(p, b)
    PROVE  SumInv'
<1>1. /\ proc[p].pc = "finish" /\ b \in proc[p].bundles /\ p \in Working /\ ContentTypeOK
      /\ Moves(p, "idle", "idle", {})
      /\ state' \in {state, [state EXCEPT ![b] = IF @ = "deleted" THEN @ ELSE "ready"]}
      /\ UNCHANGED <<store, excused, size, disk_used, raced>>
  BY FinishDoes DEF SumInv, ContentInv, Working
<1>2. OneAtWork /\ (~raced => Working \subseteq {p})
  BY <1>1 DEF SumInv, OneAtWork
<1>3. ASSUME ~raced PROVE OwnSums(p)
  <2>1. Total' = Total /\ Stage(p)' = "idle" /\ disk_used = Total
    <3>1. \A c \in Bundles : state'[c] = "deleted" <=> state[c] = "deleted"
      BY <1>1 DEF ContentTypeOK
    <3>2. QED
      BY <1>1, <1>3, <3>1, SameTotal, SumFacts DEF Stage, Moves
  <2>2. CASE Ready' = Ready
    <3>1. ReadySize' = ReadySize
      BY <1>1, <2>2, SumsThen, SumTypes
    <3>2. QED
      BY <1>1, <1>3, <2>1, <2>2, <3>1, SumFacts DEF OwnSums, Moves
  <2>3. CASE Ready' # Ready
    <3>1. b \notin excused /\ state[b] # "ready" /\ Ready' = Ready \union {b}
      BY <1>1, <2>3 DEF Ready, ContentTypeOK
    <3>2. ReadySize' = ReadySize + Size[b] /\ b \notin Ready
      BY <1>1, <3>1, OneMoreReady DEF Ready
    <3>3. ReadySize + Size[b] <= disk_used /\ ReadySize + Size[b] <= Quota
      BY <1>1, <1>3, <3>1, SumFacts DEF Stage
    <3>4. size[b] = Size[b]
      BY <1>1, <1>3, <3>1, SumFacts
    <3>5. QED
      BY <1>1, <1>3, <2>1, <3>1, <3>2, <3>3, <3>4, SumFacts DEF OwnSums, Moves
  <2>4. QED
    BY <2>2, <2>3
<1>4. QED
  BY <1>1, <1>2, <1>3, AloneKeeps DEF Moves

LEMMA RequestDiesSums ==
    ASSUME SumInv, ContentInv', NEW p \in Procs, RequestDies(p)
    PROVE  SumInv'
<1>1. raced' /\ \A q \in Procs \ {p} : proc'[q] = proc[q]
  BY GotoMoves DEF SumInv, ContentInv, ContentTypeOK, RequestDies, Pcs, Moves
<1>2. QED
  BY <1>1, AloneKeeps DEF SumInv

(* Who starts alone finds everything counted.                              *)
LEMMA StartSums ==
    ASSUME SumInv, ContentInv', NEW p \in Procs, NEW pc \in {"clean", "unsize", "gather"}, NEW then, NEW bs,
           Moves(p, pc, then, bs), raced' = (raced \/ Working # {}),
           UNCHANGED <<size, disk_used>>, excused \subseteq excused',
           \A b \in Bundles : state'[b] = state[b] \/ (state[b] = "staged" /\ state'[b] = "making")
    PROVE  SumInv'
<1>1. ~raced' => ~raced /\ Working = {}
  OBVIOUS
<1>2. ASSUME ~raced' PROVE OwnSums(p)
  <2>1. Working = {} /\ ~raced /\ ContentTypeOK
    BY <1>1, <1>2 DEF SumInv, ContentInv
  <2>2. disk_used = Total /\ Total' = Total
    BY <2>1, SameTotal DEF SumInv, SumExact
  <2>3. Ready' \subseteq Ready /\ \A b \in Ready : size[b] = Size[b]
    BY <2>1 DEF SumInv, Measured, Ready
  <2>4. ReadySize' <= ReadySize /\ ReadySize' \in Nat
    <3>1. IsFiniteSet(Ready') /\ \A b \in Ready' : Size[b] \in Nat
      BY <2>1, <2>3, SumTypes, FS_Subset, SizeAssumption DEF Ready
    <3>2. QED
      BY <2>1, <2>3, <3>1, FewerReady, SumsThen, SumSubset DEF ContentInv
  <2>5. ReadySize' <= disk_used' /\ ReadySize' <= Quota
    <3>1. ReadySize <= disk_used /\ ReadySize <= Quota /\ ReadySize \in Nat /\ disk_used \in Nat /\ Quota \in Nat
      BY <2>1, SumTypes, SizeAssumption DEF SumInv, Measured, ContentTypeOK
    <3>2. QED
      BY <2>4, <3>1
  <2>6. proc'[p].pc = pc /\ Stage(p)' = pc
    BY DEF Moves, Stage
  <2>7. QED
    BY <2>2, <2>3, <2>5, <2>6 DEF OwnSums
<1>3. QED
  BY <1>1, <1>2, AloneKeeps DEF SumInv, Moves

LEMMA StartsSums ==
    ASSUME SumInv, ContentInv',
           \/ \E q \in Requests, b \in Bundles : BeginUpload(q, b) \/ BeginDelete(q, b)
           \/ \E k \in Makes : StartMake(k)
    PROVE  SumInv'
<1>0. proc \in [Procs -> Work] /\ {"clean", "unsize", "gather"} \subseteq Pcs /\ "idle" \in Thens /\ ContentTypeOK
  BY DEF SumInv, ContentInv, ContentTypeOK, Pcs, Thens
<1>1. ASSUME NEW q \in Requests, NEW b \in Bundles, BeginUpload(q, b) PROVE SumInv'
  <2>1. q \in Procs /\ {b} \in SUBSET Bundles
    BY DEF Procs
  <2>2. Moves(q, "clean", "idle", {b}) /\ raced' = (raced \/ Working # {})
    BY <1>0, <1>1, <2>1, StartMoves DEF BeginUpload
  <2>3. UNCHANGED <<state, size, disk_used>> /\ excused \subseteq excused'
    BY <1>1 DEF BeginUpload
  <2>4. QED
    BY <2>1, <2>2, <2>3, StartSums
<1>2. ASSUME NEW q \in Requests, NEW b \in Bundles, BeginDelete(q, b) PROVE SumInv'
  <2>1. PICK recursive, data_only \in BOOLEAN :
          /\ Start(q, "unsize", IF data_only THEN "erase" ELSE "delete", Relevant(b, recursive))
          /\ excused' = excused \union Overlapped(Relevant(b, recursive))
                           \union IF data_only THEN Relevant(b, recursive) ELSE {}
    BY <1>2 DEF BeginDelete
  <2> DEFINE then == IF data_only THEN "erase" ELSE "delete"
             bs == Relevant(b, recursive)
  <2>2. q \in Procs /\ bs \in SUBSET Bundles /\ then \in Thens
    BY DEF Procs, Relevant, Descendants, Bundles, Thens
  <2>3. Moves(q, "unsize", then, bs) /\ raced' = (raced \/ Working # {})
    <3> HIDE DEF then, bs
    <3>1. Start(q, "unsize", then, bs)
      BY <2>1 DEF then, bs
    <3>2. QED
      BY <1>0, <2>2, <3>1, StartMoves
  <2>4. UNCHANGED <<state, size, disk_used>> /\ excused \subseteq excused'
    BY <1>2, <2>1 DEF BeginDelete
  <2>5. QED
    <3> HIDE DEF then, bs
    <3>1. QED
      BY <2>2, <2>3, <2>4, StartSums
<1>3. ASSUME NEW k \in Makes, StartMake(k) PROVE SumInv'
  <2>1. k \in Procs /\ {k} \in SUBSET Bundles
    BY DEF Procs, Bundles
  <2>2. Moves(k, "gather", "idle", {k}) /\ raced' = (raced \/ Working # {})
    BY <1>0, <1>3, <2>1, StartMoves DEF StartMake
  <2>3. /\ UNCHANGED <<size, disk_used>> /\ excused \subseteq excused'
        /\ \A b \in Bundles : state'[b] = state[b] \/ (state[b] = "staged" /\ state'[b] = "making")
    BY <1>0, <1>3 DEF StartMake, SetState, ContentTypeOK
  <2>4. QED
    BY <2>1, <2>2, <2>3, StartSums
<1>4. QED
  BY <1>1, <1>2, <1>3

(* The bundle manager between two of its threads.                          *)
LEMMA BetweenSums ==
    ASSUME SumInv, ContentInv', UNCHANGED <<size, disk_used, excused>>, raced => raced',
           ~raced' => \A p \in Procs : \/ proc'[p] = proc[p]
                                       \/ proc[p].pc \in {"new", "idle"} /\ proc'[p].pc = "idle",
           \A b \in Bundles : \/ state'[b] = state[b]
                              \/ state[b] \in {"created", "making"} /\ state'[b] \in {"staged", "failed"}
    PROVE  SumInv'
<1>1. ASSUME ~raced'
      PROVE  /\ ~raced /\ Working' = Working
             /\ \A p \in Working : proc'[p] = proc[p]
  BY <1>1 DEF Working
<1>2. Ready' = Ready /\ ReadySize' = ReadySize
  <2>1. Ready' = Ready
    BY DEF Ready
  <2>2. QED
    BY <2>1, SumsThen, SumTypes DEF SumInv, ContentInv
<1>3. Total' = Total
  BY SameTotal DEF SumInv, ContentInv
<1>4. OneAtWork'
  BY <1>1 DEF SumInv, OneAtWork
<1>5. SumExact'
  BY <1>1, <1>3 DEF SumInv, SumExact
<1>6. Measured'
  <2> SUFFICES ASSUME ~raced' PROVE Measured'
    BY DEF Measured
  <2>1. \A b \in Ready : \/ size'[b] = Size[b]
                         \/ \E p \in Working' : proc'[p].pc = "delete" /\ b \in proc'[p].bundles
    BY <1>1 DEF SumInv, Measured
  <2>2. \A p \in Working, b \in Bundles : state'[b] = "ready" => state[b] = "ready"
    OBVIOUS
  <2>3. \A p \in Working : Stage(p)' = Stage(p) /\ proc[p].bundles \subseteq Bundles
    BY <1>1, ProcFields DEF Stage, SumInv, ContentInv, ContentTypeOK, Working
  <2>4. QED
    BY <1>1, <1>2, <2>1, <2>2, <2>3 DEF SumInv, Measured
<1>7. QED
  BY <1>4, <1>5, <1>6 DEF SumInv

LEMMA ManagerSums ==
    ASSUME SumInv, ContentInv',
           (\E k \in Makes : StageMake(k) \/ RestageMake(k)) \/ ManagerStops \/ ManagerStarts
    PROVE  SumInv'
<1>0. ContentTypeOK
  BY DEF SumInv, ContentInv
<1>1. ASSUME NEW k \in Makes, StageMake(k) \/ RestageMake(k) PROVE SumInv'
  <2>1. /\ UNCHANGED <<size, disk_used, excused, proc, raced>>
        /\ \A b \in Bundles : \/ state'[b] = state[b]
                              \/ state[b] \in {"created", "making"} /\ state'[b] \in {"staged", "failed"}
    BY <1>0, <1>1 DEF StageMake, RestageMake, SetState, ContentTypeOK
  <2>2. QED
    BY <2>1, BetweenSums
<1>2. CASE ManagerStops
  <2>1. UNCHANGED <<size, disk_used, excused, state>> /\ raced' = (raced \/ Working \intersect Makes # {})
    BY <1>2 DEF ManagerStops
  <2>2. ASSUME ~raced', NEW p \in Procs
        PROVE  proc'[p] = proc[p] \/ (proc[p].pc \in {"new", "idle"} /\ proc'[p].pc = "idle")
    <3>1. proc'[p] = IF p \in Makes THEN Idle ELSE proc[p]
      BY <1>2 DEF ManagerStops
    <3>2. p \in Makes => p \notin Working
      BY <2>1, <2>2
    <3>3. QED
      BY <3>1, <3>2 DEF Working, Idle
  <2>3. QED
    BY <2>1, <2>2, BetweenSums
<1>3. CASE ManagerStarts
  BY <1>3, BetweenSums DEF ManagerStarts
<1>4. QED
  BY <1>1, <1>2, <1>3

(* The invariant holds at the start. *)
LEMMA SumInvInit == ContentInit => SumInv
<1> SUFFICES ASSUME ContentInit PROVE SumInv
  OBVIOUS
<1>1. ContentInv
  BY ContentInvInit
<1>2. Working = {} /\ Ready = {}
  BY DEF ContentInit, Working, Idle, New, Ready
<1>3. ReadySize = 0
  BY <1>1, <1>2, SumTypes, SumEmpty DEF ContentInv
<1>4. Total = 0
  <2> DEFINE P == {b \in Bundles : Present(b)}
             None == [b \in Bundles |-> 0]
  <2>1. IsFiniteSet(P) /\ Total = SumOver(size, P) /\ size = None /\ P \subseteq Bundles
    BY <1>1, SumTypes, FS_Subset DEF ContentInit, ContentInv
  <2>2. SumOver(None, P) = 0
    BY <2>1, SumZero
  <2>3. QED
    BY <2>1, <2>2
<1>5. OneAtWork /\ SumExact /\ Measured
  BY <1>2, <1>3, <1>4, SizeAssumption DEF ContentInit, OneAtWork, SumExact, Measured
<1>6. QED
  BY <1>1, <1>5 DEF SumInv

(* Every step keeps it. *)
LEMMA SumInvKept == SumInv /\ [ContentNext]_contentVars => SumInv'
<1> SUFFICES ASSUME SumInv, [ContentNext]_contentVars PROVE SumInv'
  OBVIOUS
<1>1. ContentInv'
  BY ContentInvKept DEF SumInv
<1>2. CASE UNCHANGED contentVars
  BY <1>1, <1>2, BetweenSums DEF contentVars
<1>3. ASSUME NEW p \in Procs, Storing(p) PROVE SumInv'
  BY <1>1, <1>3, ReadSizesSums, WriteDiskUsedSums, BeginWriteSums, EndWriteSums, WriteFailsSums,
     MeasureSums, EnforceSums, FinishSums DEF Storing
<1>4. ASSUME NEW q \in Requests, Request(q) PROVE SumInv'
  <2>1. q \in Procs
    BY DEF Procs
  <2>2. QED
    BY <1>1, <1>3, <1>4, <2>1, UnsizeNamedSums, DeleteRowsSums, EraseSums, RequestDiesSums,
       CleanSums, ZeroSizeSums, FailUploadSums, RemoveFailedSums, StartsSums DEF Request
<1>5. ASSUME NEW k \in Makes, Make(k) \/ ManagerLoop(k) PROVE SumInv'
  <2>1. k \in Procs
    BY DEF Procs
  <2>2. QED
    BY <1>1, <1>3, <1>5, <2>1, GatherSums, FailMakeSums, ManagerSums, StartsSums DEF Make, ManagerLoop
<1>6. QED
  BY <1>1, <1>2, <1>4, <1>5, ManagerSums DEF ContentNext

(* So it always holds. *)
LEMMA SumInvHolds == ContentSpec => []SumInv
<1>1. QED
  BY SumInvInit, SumInvKept, PTL DEF ContentSpec

(* Once nobody is at work, disk_used is the size of the bundles there are. *)
THEOREM DiskUsedIsExact == ContentSpec => []DiskUsedExact
<1>1. SumInv => DiskUsedExact
  BY DEF SumInv, SumExact, DiskUsedExact, Total
<1>2. QED
  BY <1>1, SumInvHolds, PTL

(* What is ready takes no more than the quota. *)
THEOREM QuotaIsKept == ContentSpec => []QuotaKept
<1>1. SumInv => QuotaKept
  BY DEF SumInv, Measured, QuotaKept, ReadySize, Ready
<1>2. QED
  BY <1>1, SumInvHolds, PTL
=============================================================================
