---------------------------- MODULE WorkerReads ----------------------------
(***************************************************************************)
(* Reading the files of a bundle through the REST server                   *)
(* (codalab/lib/download_manager.py).  While the bundle runs, the server   *)
(* asks its worker with a message and listens on a Unix socket of its own; *)
(* the worker (codalab/worker/worker.py, reader.py) answers with requests  *)
(* to the server, whose handlers (codalab/rest/workers.py) connect to that *)
(* socket (codalab/model/worker_model.py).  The worker answers a question  *)
(* of the file system in the thread that receives messages, and sends data *)
(* from a thread it starts for it.                                         *)
(***************************************************************************)
EXTENDS Naturals

CONSTANTS
    Infos,          \* requests for a JSON message: get_target_info
    Streams,        \* requests for a header and data after it: the others
    MaxReadFaults   \* bound on disturbances

Reads == Infos \union Streams

ASSUME ReadsAssumption == Infos \intersect Streams = {} /\ MaxReadFaults \in Nat

(* A socket id is new for each try of a request. *)
ReadSockets == Reads \X {1, 2}

VARIABLES
    target,      \* the bundle in the database
    atWorker,    \* it is in Worker.runs
    request,     \* handlers of the REST server that read
    allocated,   \* rows of worker_socket
    listening,   \* sockets a request accepts connections on
    asked,       \* read messages on their way to the worker
    replies,     \* replies of the worker and what handles them at the server
    disturbed,   \* history: requests a disturbance may have cost the answer
    readFaults

readVars == <<target, atWorker, request, allocated, listening, asked, replies, disturbed,
              readFaults>>

Results == {"none", "stored", "not_ready", "no_worker", "answer", "data", "error", "missing",
            "unreachable", "garbled"}

(* "permission" .. "connected" is the first message of a reply, "stream"   *)
(* and "streaming" the data after it.  The thread that receives messages   *)
(* waits for a reply that is blocking; again says that another follows.    *)
Reply == {r \in [socket : ReadSockets, kind : {"answer", "data", "error", "missing"},
                 pc : {"permission", "connect", "connected", "stream", "streaming"},
                 blocking : BOOLEAN, again : BOOLEAN] : r.again => r.kind = "error"}

ReadTypeOK ==
    /\ target \in {"preparing", "running", "finalizing", "final"}
    /\ atWorker \in BOOLEAN
    /\ request \in [Reads -> [pc : {"idle", "begin", "lookup", "send", "listen", "header", "data",
                                    "close", "free", "done"},
                              attempt : {1, 2}, result : Results]]
    /\ allocated \subseteq ReadSockets
    /\ listening \subseteq allocated
    /\ asked \subseteq ReadSockets
    /\ replies \subseteq Reply
    /\ disturbed \subseteq Reads
    /\ readFaults \in 0 .. MaxReadFaults

ReadInit ==
    /\ target = "preparing"
    /\ atWorker = TRUE
    /\ request = [q \in Reads |-> [pc |-> "idle", attempt |-> 1, result |-> "none"]]
    /\ allocated = {}
    /\ listening = {}
    /\ asked = {}
    /\ replies = {}
    /\ disturbed = {}
    /\ readFaults = 0

ReadAt(q, pc) == request[q].pc = pc

SocketOf(q) == <<q, request[q].attempt>>

Move(q, pc) == request' = [request EXCEPT ![q].pc = pc]

Return(q, result, pc) == request' = [request EXCEPT ![q].pc = pc, ![q].result = result]

-----------------------------------------------------------------------------
(* A request of DownloadManager *)

BeginRead(q) ==
    /\ ReadAt(q, "idle")
    /\ Move(q, "begin")
    /\ UNCHANGED <<target, atWorker, allocated, listening, asked, replies, disturbed, readFaults>>

(* The state of the bundle decides who is asked; the state is read before  *)
(* the worker is looked up.  A file of a bundle that prepares is asked for *)
(* from its worker, a directory is not.                                    *)
ReadState(q) ==
    /\ ReadAt(q, "begin")
    /\ \/ target \in {"finalizing", "final"} /\ Return(q, "stored", "done")
       \/ target = "preparing" /\ Return(q, "not_ready", "done")
       \/ /\ target = "running" \/ (target = "preparing" /\ q \in Streams)
          /\ Move(q, "lookup")
    /\ UNCHANGED <<target, atWorker, allocated, listening, asked, replies, disturbed, readFaults>>

(* get_bundle_worker, allocate_socket *)
FindWorker(q) ==
    /\ ReadAt(q, "lookup")
    /\ \/ /\ target # "final"
          /\ allocated' = allocated \union {SocketOf(q)}
          /\ Move(q, "send")
       \/ /\ target = "final"
          /\ Return(q, "no_worker", "done")
          /\ UNCHANGED allocated
    /\ UNCHANGED <<target, atWorker, listening, asked, replies, disturbed, readFaults>>

SendRead(q) ==
    /\ ReadAt(q, "send")
    /\ asked' = asked \union {SocketOf(q)}
    /\ Move(q, "listen")
    /\ UNCHANGED <<target, atWorker, allocated, listening, replies, disturbed, readFaults>>

Listen(q) ==
    /\ ReadAt(q, "listen")
    /\ listening' = listening \union {SocketOf(q)}
    /\ Move(q, "header")
    /\ UNCHANGED <<target, atWorker, allocated, asked, replies, disturbed, readFaults>>

(* recv_json_message_with_unix_socket and recv_stream: whoever connected   *)
(* to the socket is heard.                                                 *)
ReceiveHeader(q, r) ==
    /\ ReadAt(q, "header") /\ r.socket = SocketOf(q) /\ r.pc \in {"connected", "streaming"}
    /\ \/ r.pc = "streaming" /\ Return(q, "garbled", "close")
       \/ r.pc = "connected" /\ r.kind = "data" /\ Move(q, "data")
       \/ r.pc = "connected" /\ r.kind # "data" /\ Return(q, r.kind, "close")

ReceiveData(q, r) ==
    /\ ReadAt(q, "data") /\ r.socket = SocketOf(q) /\ r.pc \in {"connected", "streaming"}
    /\ Return(q, IF r.pc = "streaming" THEN "data" ELSE "garbled", "close")

(* What becomes of a reply that was heard.  After a path that is not there *)
(* was answered, _threaded_read goes on and fails, which is answered too.  *)
Heard(r) ==
    (replies \ {r}) \union
        (CASE r.kind = "data" /\ r.pc = "connected" -> {[r EXCEPT !.pc = "stream"]}
           [] r.again -> {[r EXCEPT !.pc = "permission", !.again = FALSE]}
           [] OTHER -> {})

Accept(q) ==
    /\ \E r \in replies : /\ ReceiveHeader(q, r) \/ ReceiveData(q, r)
                          /\ replies' = Heard(r)
    /\ UNCHANGED <<target, atWorker, allocated, listening, asked, disturbed, readFaults>>

(* 60 seconds without a connection. *)
StopWaiting(q) ==
    /\ ReadAt(q, "header") \/ ReadAt(q, "data")
    /\ Return(q, "unreachable", "close")
    /\ UNCHANGED <<target, atWorker, allocated, listening, asked, replies>>

Answerable(s) == s \in asked \/ \E r \in replies : r.socket = s

StopWaitingInVain(q) == ~Answerable(SocketOf(q)) /\ StopWaiting(q)

(* The end of start_listening's closing: a connection that was not         *)
(* accepted is reset.  It costs the first message of a reply, and the data *)
(* are sent again.                                                         *)
CloseSocket(q) ==
    /\ ReadAt(q, "close")
    /\ listening' = listening \ {SocketOf(q)}
    /\ replies' = {IF r.socket = SocketOf(q) /\ r.pc = "streaming" THEN [r EXCEPT !.pc = "stream"]
                                                                   ELSE r :
                     r \in {x \in replies : x.socket # SocketOf(q) \/ x.pc # "connected"}}
    /\ Move(q, "free")
    /\ UNCHANGED <<target, atWorker, allocated, asked, disturbed, readFaults>>

(* deallocate_socket; retry_if_no_longer_running *)
Deallocate(q) ==
    /\ ReadAt(q, "free")
    /\ allocated' = allocated \ {SocketOf(q)}
    /\ request' = [request EXCEPT ![q] =
                     IF @.result = "missing" /\ @.attempt = 1
                     THEN [pc |-> "begin", attempt |-> 2, result |-> "none"]
                     ELSE [@ EXCEPT !.pc = "done"]]
    /\ UNCHANGED <<target, atWorker, listening, asked, replies, disturbed, readFaults>>

-----------------------------------------------------------------------------
(* The worker: process_message, read, read_run_missing, and Reader *)

Answer(s, kind, blocking, again) ==
    replies' = replies \union {[socket |-> s, kind |-> kind, pc |-> "permission",
                                blocking |-> blocking, again |-> again]}

HandleRead(s) ==
    /\ s \in asked
    /\ \A r \in replies : ~r.blocking
    /\ asked' = asked \ {s}
    /\ \/ ~atWorker /\ Answer(s, "missing", TRUE, FALSE)
       \/ /\ atWorker /\ s[1] \in Infos
          /\ \E kind \in {"answer", "error"} : Answer(s, kind, TRUE, FALSE)
       \/ /\ atWorker /\ s[1] \in Streams
          /\ Answer(s, "data", FALSE, FALSE) \/ Answer(s, "error", TRUE, TRUE)
    /\ UNCHANGED <<target, atWorker, request, allocated, listening, disturbed, readFaults>>

-----------------------------------------------------------------------------
(* The handlers reply and reply_data *)

CheckPermission(r) ==
    /\ r \in replies /\ r.pc = "permission"
    /\ replies' = (replies \ {r}) \union
                    (IF r.socket \in allocated THEN {[r EXCEPT !.pc = "connect"]} ELSE {})
    /\ UNCHANGED <<target, atWorker, request, allocated, listening, asked, disturbed, readFaults>>

(* Mutant: does not try again while nobody listens. *)
ConnectOnce(r) ==
    /\ r \in replies /\ r.pc \in {"connect", "stream"}
    /\ replies' = (replies \ {r}) \union
                    (IF r.socket \in listening
                     THEN {[r EXCEPT !.pc = IF @ = "connect" THEN "connected" ELSE "streaming"]}
                     ELSE {})
    /\ UNCHANGED <<target, atWorker, request, allocated, listening, asked, disturbed, readFaults>>

(* Tried until somebody listens. *)
ConnectReply(r) ==
    /\ r \in replies /\ r.pc \in {"connect", "stream"}
    /\ r.socket \in listening
    /\ replies' = (replies \ {r}) \union
                    {[r EXCEPT !.pc = IF @ = "connect" THEN "connected" ELSE "streaming"]}
    /\ UNCHANGED <<target, atWorker, request, allocated, listening, asked, disturbed, readFaults>>

(* 60 seconds without a socket: the message is dropped, data that follow   *)
(* it are tried all the same, and the worker hears that all is well.       *)
DropReply(r) ==
    /\ r \in replies /\ r.pc \in {"connect", "stream"} /\ r.socket \notin listening
    /\ replies' = (replies \ {r}) \union
                    (CASE r.again -> {[r EXCEPT !.pc = "permission", !.again = FALSE]}
                       [] r.kind = "data" /\ r.pc = "connect" -> {[r EXCEPT !.pc = "stream"]}
                       [] OTHER -> {})
    /\ UNCHANGED <<target, atWorker, request, allocated, listening, asked>>

NobodyWillListen(s) ==
    request[s[1]].attempt # s[2] \/ request[s[1]].pc \in {"begin", "close", "free", "done"}

DropReplyInVain(r) == NobodyWillListen(r.socket) /\ DropReply(r)

-----------------------------------------------------------------------------
(* The run goes on: in FINALIZING its contents are at the server, and the  *)
(* worker may forget it from then on.                                      *)
MoveTarget ==
    /\ \/ target = "preparing" /\ target' = "running"
       \/ target = "running" /\ target' = "finalizing"
       \/ target = "finalizing" /\ target' = "final"
    /\ UNCHANGED <<atWorker, request, allocated, listening, asked, replies, disturbed, readFaults>>

Forget ==
    /\ atWorker /\ target \in {"finalizing", "final"}
    /\ atWorker' = FALSE
    /\ UNCHANGED <<target, request, allocated, listening, asked, replies, disturbed, readFaults>>

ReadFault(qs) ==
    /\ readFaults < MaxReadFaults /\ readFaults' = readFaults + 1
    /\ disturbed' = disturbed \union qs

LoseRead(s) ==
    /\ s \in asked
    /\ asked' = asked \ {s}
    /\ ReadFault({s[1]})
    /\ UNCHANGED <<target, atWorker, request, allocated, listening, replies>>

(* The worker stops and starts again, with its runs. *)
RestartWorker ==
    /\ replies # {}
    /\ replies' = {}
    /\ ReadFault({r.socket[1] : r \in replies})
    /\ UNCHANGED <<target, atWorker, request, allocated, listening, asked>>

ReadStep(q) ==
    \/ ReadState(q) \/ FindWorker(q) \/ SendRead(q) \/ Listen(q) \/ Accept(q)
    \/ StopWaitingInVain(q) /\ UNCHANGED <<disturbed, readFaults>>
    \/ CloseSocket(q) \/ Deallocate(q)

ReplyStep(r) ==
    \/ CheckPermission(r) \/ ConnectReply(r)
    \/ DropReplyInVain(r) /\ UNCHANGED <<disturbed, readFaults>>

ServedStep ==
    \/ \E q \in Reads : ReadStep(q)
    \/ \E s \in asked : HandleRead(s)
    \/ \E r \in replies : ReplyStep(r)

ReadNext ==
    \/ ServedStep
    \/ \E q \in Reads : BeginRead(q) \/ (StopWaiting(q) /\ ReadFault({q}))
    \/ \E r \in replies : DropReply(r) /\ ReadFault({r.socket[1]})
    \/ MoveTarget \/ Forget
    \/ \E s \in asked : LoseRead(s)
    \/ RestartWorker

ReadSpec == ReadInit /\ [][ReadNext]_readVars

-----------------------------------------------------------------------------
(* A request that no message, reply, worker or minute was lost for gets    *)
(* what it asked for, or the error of its worker, or is told that the      *)
(* bundle has nothing to read yet, or that its worker is gone: although    *)
(* the message leaves before the server listens (download_manager.py:138), *)
(* the reply waits for that; and a worker that has forgotten the bundle    *)
(* makes the server look once more, in the bundle store.                   *)
ReadAnswered ==
    \A q \in Reads :
        ReadAt(q, "done") /\ q \notin disturbed =>
            request[q].result \in {"stored", "not_ready", "no_worker", "answer", "data", "error"}
=============================================================================
