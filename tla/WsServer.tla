------------------------------ MODULE WsServer ------------------------------
(***************************************************************************)
(* The websocket server (codalab/bin/ws_server.py) between one worker, who *)
(* keeps a connection open per socket id (Worker.listen), and the callers  *)
(* of WorkerModel.send_json_message.  The server is one asyncio loop: what *)
(* happens between two awaits is one step.  worker_to_ws and               *)
(* worker_to_lock are written together and looked up by socket id at every *)
(* use, so a handler may find the entry of a newer connection, or none.    *)
(***************************************************************************)
EXTENDS Naturals, FiniteSets

CONSTANTS
    Sockets,        \* socket ids of the worker: 0 .. num_coroutines - 1
    Connections,    \* websockets; one is used again when nobody holds it
    Handlers,       \* coroutines running send_to_worker_handler
    Calls,          \* calls of send_json_message
    None,
    MaxFaults       \* bound on disturbances

ASSUME NoneAssumption == None \notin Connections \union Handlers \union Sockets \union Calls
ASSUME MaxFaultsAssumption == MaxFaults \in Nat

VARIABLES
    socketOf,   \* the socket id a connection was opened for
    open,       \* connections neither end has closed
    serving,    \* worker_connection_handler of a connection: where it is
    client,     \* Worker.listen: the connection in use under a socket id
    up,         \* the worker's process runs
    entry,      \* worker_to_ws[worker]: socket id -> connection
    lock,       \* worker_to_lock[worker]: socket id -> state of its lock
    handler,    \* send_to_worker_handler coroutines
    call,       \* send_json_message: its result so far
    written,    \* the message of the call was written to some connection
    faults

connVars == <<socketOf, open, serving, client, up>>
callVars == <<handler, call, written>>
wsVars == <<connVars, entry, lock, callVars, faults>>

(* "receiving" awaits the data with the lock acquired, "sending" the write  *)
(* to the worker, "acking" the write of the ACK, "releasing" is after it.  *)
Active == {"receiving", "sending", "acking", "releasing"}
IdleHandler == [pc |-> "idle", call |-> None, socket |-> None, conn |-> None]

WsTypeOK ==
    /\ socketOf \in [Connections -> Sockets \union {None}]
    /\ open \subseteq Connections
    /\ serving \in [Connections -> {"none", "auth", "loop"}]
    /\ client \in [Sockets -> Connections \union {None}]
    /\ up \in BOOLEAN
    /\ entry \in [Sockets -> Connections \union {None}]
    /\ lock \in [Sockets -> {"none", "free", "held", "expired"}]
    /\ handler \in [Handlers -> [pc : {"idle", "accepted"} \union Active,
                                 call : Calls \union {None},
                                 socket : Sockets \union {None},
                                 conn : Connections \union {None}]]
    /\ call \in [Calls -> {"done", "retrying", "trying", "acked", "failed"}]
    /\ written \in [Calls -> BOOLEAN]
    /\ faults \in 0 .. MaxFaults

WsInit ==
    /\ socketOf = [c \in Connections |-> None]
    /\ open = {}
    /\ serving = [c \in Connections |-> "none"]
    /\ client = [s \in Sockets |-> None]
    /\ up \in BOOLEAN
    /\ entry = [s \in Sockets |-> None]
    /\ lock = [s \in Sockets |-> "none"]
    /\ handler = [h \in Handlers |-> IdleHandler]
    /\ call = [x \in Calls |-> "done"]
    /\ written = [x \in Calls |-> FALSE]
    /\ faults = 0

Disturb == faults < MaxFaults /\ faults' = faults + 1

-----------------------------------------------------------------------------
(* Connections: Worker.listen and worker_connection_handler                *)

Unused(c) ==
    /\ c \notin open
    /\ serving[c] = "none"
    /\ \A s \in Sockets : client[s] # c /\ entry[s] # c
    /\ \A h \in Handlers : handler[h].conn # c

(* websockets.connect; the token follows at once. *)
Connect(s, c) ==
    /\ up
    /\ client[s] = None
    /\ Unused(c)
    /\ client' = [client EXCEPT ![s] = c]
    /\ socketOf' = [socketOf EXCEPT ![c] = s]
    /\ open' = open \union {c}
    /\ serving' = [serving EXCEPT ![c] = "auth"]
    /\ UNCHANGED <<up, entry, lock, callVars, faults>>

(* The handler has the token: it enters the connection under the socket    *)
(* id, over an older one if there is, with a lock of its own.              *)
Register(c) ==
    /\ serving[c] = "auth"
    /\ c \in open
    /\ entry' = [entry EXCEPT ![socketOf[c]] = c]
    /\ lock' = [lock EXCEPT ![socketOf[c]] = "free"]
    /\ serving' = [serving EXCEPT ![c] = "loop"]
    /\ UNCHANGED <<socketOf, open, client, up, callVars, faults>>

(* recv raised ConnectionClosed before the token came. *)
AuthFails(c) ==
    /\ serving[c] = "auth"
    /\ c \notin open
    /\ serving' = [serving EXCEPT ![c] = "none"]
    /\ UNCHANGED <<socketOf, open, client, up, entry, lock, callVars, faults>>

(* Mutant: a connection without an entry is left alone. *)
HeartbeatIgnoresMissing(c) ==
    /\ serving[c] = "loop"
    /\ c \in open
    /\ client[socketOf[c]] = c
    /\ LET s == socketOf[c] IN
        lock' = [lock EXCEPT ![s] = IF @ = "expired" THEN "free" ELSE @]
    /\ UNCHANGED <<connVars, entry, callVars, faults>>

(* Mutant: an expired lock is not released. *)
HeartbeatNoFailsafe(c) ==
    /\ serving[c] = "loop"
    /\ c \in open
    /\ client[socketOf[c]] = c
    /\ IF lock[socketOf[c]] = "none"
       THEN /\ open' = open \ {c}
            /\ serving' = [serving EXCEPT ![c] = "none"]
       ELSE UNCHANGED <<open, serving>>
    /\ UNCHANGED <<lock, socketOf, client, up, entry, callVars, faults>>

(* The worker's "a".  The lock is looked up by socket id: without an entry *)
(* the KeyError ends the handler, which closes the connection.             *)
Heartbeat(c) ==
    /\ serving[c] = "loop"
    /\ c \in open
    /\ client[socketOf[c]] = c
    /\ LET s == socketOf[c] IN
        \/ /\ lock[s] = "none"
           /\ open' = open \ {c}
           /\ serving' = [serving EXCEPT ![c] = "none"]
           /\ UNCHANGED lock
        \/ /\ lock[s] = "expired"
           /\ lock' = [lock EXCEPT ![s] = "free"]
           /\ UNCHANGED <<open, serving>>
    /\ UNCHANGED <<socketOf, client, up, entry, callVars, faults>>

(* recv raised ConnectionClosed: the entry of the socket id goes, whoever's *)
(* it is by now.                                                           *)
ConnectionClosed(c) ==
    /\ serving[c] = "loop"
    /\ c \notin open
    /\ serving' = [serving EXCEPT ![c] = "none"]
    /\ entry' = [entry EXCEPT ![socketOf[c]] = None]
    /\ lock' = [lock EXCEPT ![socketOf[c]] = "none"]
    /\ UNCHANGED <<socketOf, open, client, up, callVars, faults>>

(* The worker's end notices, and listen goes round its loop. *)
ClientClosed(s) ==
    /\ client[s] # None
    /\ client[s] \notin open
    /\ client' = [client EXCEPT ![s] = None]
    /\ UNCHANGED <<socketOf, open, serving, up, entry, lock, callVars, faults>>

(* The network breaks a connection; the worker's process ends. *)
Break(c) ==
    /\ c \in open
    /\ Disturb
    /\ open' = open \ {c}
    /\ UNCHANGED <<socketOf, serving, client, up, entry, lock, callVars>>

WorkerStops ==
    /\ up
    /\ Disturb
    /\ up' = FALSE
    /\ open' = open \ {client[s] : s \in Sockets}
    /\ client' = [s \in Sockets |-> None]
    /\ UNCHANGED <<socketOf, serving, entry, lock, callVars>>

-----------------------------------------------------------------------------
(* send_json_message and send_to_worker_handler                            *)

Call(x) ==
    /\ call[x] \in {"done", "acked", "failed"}
    /\ call' = [call EXCEPT ![x] = "retrying"]
    /\ written' = [written EXCEPT ![x] = FALSE]
    /\ UNCHANGED <<connVars, entry, lock, handler, faults>>

(* One attempt: connect, send the secret and the message, await the ACK.   *)
Attempt(x, h) ==
    /\ call[x] = "retrying"
    /\ handler[h] = IdleHandler
    /\ call' = [call EXCEPT ![x] = "trying"]
    /\ handler' = [handler EXCEPT ![h] = [IdleHandler EXCEPT !.pc = "accepted", !.call = x]]
    /\ UNCHANGED <<connVars, entry, lock, written, faults>>

(* Mutant: goes on as long as there is a connection. *)
GiveUpUnconnected(x) ==
    /\ call[x] = "retrying"
    /\ \A s \in Sockets : entry[s] = None
    /\ call' = [call EXCEPT ![x] = "failed"]
    /\ UNCHANGED <<connVars, entry, lock, handler, written, faults>>

(* timeout_secs have passed when an attempt has failed. *)
GiveUp(x) ==
    /\ call[x] = "retrying"
    /\ call' = [call EXCEPT ![x] = "failed"]
    /\ UNCHANGED <<connVars, entry, lock, handler, written, faults>>

(* Mutant: takes a lock that is held. *)
AcquireBusy(h, s) ==
    /\ handler[h].pc = "accepted"
    /\ lock[s] # "none"
    /\ lock' = [lock EXCEPT ![s] = "held"]
    /\ handler' = [handler EXCEPT ![h] = [@ EXCEPT !.pc = "receiving", !.socket = s,
                                                   !.conn = entry[s]]]
    /\ UNCHANGED <<connVars, entry, call, written, faults>>

(* Mutant: keeps the socket id for the connection. *)
AcquireSocket(h, s) ==
    /\ handler[h].pc = "accepted"
    /\ lock[s] = "free"
    /\ lock' = [lock EXCEPT ![s] = "held"]
    /\ handler' = [handler EXCEPT ![h].pc = "receiving", ![h].conn = s]
    /\ UNCHANGED <<connVars, entry, call, written, faults>>

(* From the secret to the first lock that is free there is no await. *)
Acquire(h, s) ==
    /\ handler[h].pc = "accepted"
    /\ lock[s] = "free"
    /\ lock' = [lock EXCEPT ![s] = "held"]
    /\ handler' = [handler EXCEPT ![h] = [@ EXCEPT !.pc = "receiving", !.socket = s,
                                                   !.conn = entry[s]]]
    /\ UNCHANGED <<connVars, entry, call, written, faults>>

(* The end of a handler whose connection to the caller is closed: the      *)
(* caller gets an exception, if it still waits for this attempt, and       *)
(* tries again.                                                            *)
CloseHandler(h) ==
    /\ handler' = [handler EXCEPT ![h] = IdleHandler]
    /\ call' = IF handler[h].call = None THEN call
               ELSE [call EXCEPT ![handler[h].call] = "retrying"]

(* close(1011): no connection, or all of them busy. *)
Refuse(h) ==
    /\ handler[h].pc = "accepted"
    /\ \A s \in Sockets : lock[s] # "free"
    /\ CloseHandler(h)
    /\ UNCHANGED <<connVars, entry, lock, written, faults>>

(* Mutant: acknowledges before it sends. *)
ReceiveAcks(h) ==
    /\ handler[h].pc = "receiving"
    /\ handler[h].call # None
    /\ handler' = [handler EXCEPT ![h].pc = "acking"]
    /\ UNCHANGED <<connVars, entry, lock, call, written, faults>>

Receive(h) ==
    /\ handler[h].pc = "receiving"
    /\ handler[h].call # None
    /\ handler' = [handler EXCEPT ![h].pc = "sending"]
    /\ UNCHANGED <<connVars, entry, lock, call, written, faults>>

WriteMessage(h) ==
    /\ handler[h].pc = "sending"
    /\ handler[h].conn \in open
    /\ handler' = [handler EXCEPT ![h].pc = "acking"]
    /\ written' = IF handler[h].call = None THEN written
                  ELSE [written EXCEPT ![handler[h].call] = TRUE]
    /\ UNCHANGED <<connVars, entry, lock, call, faults>>

Ack(h) ==
    /\ handler[h].pc = "acking"
    /\ handler[h].call # None
    /\ call' = [call EXCEPT ![handler[h].call] = "acked"]
    /\ handler' = [handler EXCEPT ![h].pc = "releasing", ![h].call = None]
    /\ UNCHANGED <<connVars, entry, lock, written, faults>>

(* release() of the lock that is there now.  KeyError and RuntimeError     *)
(* (release of an unlocked lock) end a handler that is at its end anyway.  *)
Release(h) ==
    /\ handler[h].pc = "releasing"
    /\ lock' = [lock EXCEPT ![handler[h].socket] = IF @ = "none" THEN @ ELSE "free"]
    /\ handler' = [handler EXCEPT ![h] = IdleHandler]
    /\ UNCHANGED <<connVars, entry, call, written, faults>>

(* recv or send raises, as one of the two connections is closed: the       *)
(* release is skipped.                                                     *)
HandlerFails(h) ==
    /\ \/ handler[h].pc \in {"accepted", "receiving", "acking"} /\ handler[h].call = None
       \/ handler[h].pc = "sending" /\ handler[h].conn \notin open
    /\ CloseHandler(h)
    /\ UNCHANGED <<connVars, entry, lock, written, faults>>

(* The connection between caller and server breaks; the handler notices    *)
(* at its next recv or send. *)
CallerBreaks(h) ==
    /\ handler[h].call # None
    /\ Disturb
    /\ call' = [call EXCEPT ![handler[h].call] = "retrying"]
    /\ handler' = [handler EXCEPT ![h].call = None]
    /\ UNCHANGED <<connVars, entry, lock, written>>

(* More than 60 seconds since the lock was acquired.  That happens to a    *)
(* lock nobody is going to release, or, as a disturbance, to a slow one.   *)
Holders(s) == {h \in Handlers : handler[h].pc \in Active /\ handler[h].socket = s}

LockTimeout(s) ==
    /\ lock[s] = "held"
    /\ \/ Holders(s) = {} /\ UNCHANGED faults
       \/ Holders(s) # {} /\ Disturb
    /\ lock' = [lock EXCEPT ![s] = "expired"]
    /\ UNCHANGED <<connVars, entry, callVars>>

-----------------------------------------------------------------------------
WsNext ==
    \/ \E s \in Sockets : \/ \E c \in Connections : Connect(s, c)
                          \/ ClientClosed(s) \/ LockTimeout(s)
                          \/ \E h \in Handlers : Acquire(h, s)
    \/ \E c \in Connections :
        Register(c) \/ AuthFails(c) \/ Heartbeat(c) \/ ConnectionClosed(c) \/ Break(c)
    \/ WorkerStops
    \/ \E x \in Calls : Call(x) \/ GiveUp(x) \/ \E h \in Handlers : Attempt(x, h)
    \/ \E h \in Handlers :
        \/ Refuse(h) \/ Receive(h) \/ WriteMessage(h) \/ Ack(h) \/ Release(h)
        \/ HandlerFails(h) \/ CallerBreaks(h)

WsSpec == WsInit /\ [][WsNext]_wsVars

(* The event loop of the server and that of a worker that is up run every  *)
(* coroutine that can go on; a heartbeat comes every ten seconds; a caller *)
(* looks at timeout_secs after every attempt.                              *)
HandlerStep(h) ==
    \/ \E s \in Sockets : Acquire(h, s)
    \/ Refuse(h) \/ Receive(h) \/ WriteMessage(h) \/ Ack(h) \/ Release(h) \/ HandlerFails(h)

WsFairness ==
    /\ \A s \in Sockets :
        /\ WF_wsVars(\E c \in Connections : Connect(s, c))
        /\ WF_wsVars(ClientClosed(s))
        /\ WF_wsVars(LockTimeout(s) /\ Holders(s) = {})
    /\ \A c \in Connections :
        /\ WF_wsVars(Register(c) \/ AuthFails(c) \/ ConnectionClosed(c))
        /\ WF_wsVars(Heartbeat(c))
    /\ \A h \in Handlers : WF_wsVars(HandlerStep(h))
    /\ \A x \in Calls :
        /\ WF_wsVars(\E h \in Handlers : Attempt(x, h))
        /\ SF_wsVars(GiveUp(x))

-----------------------------------------------------------------------------
(* send_json_message returns True only for a message that was written to a *)
(* connection of the worker, however often it was tried (ws_server.py:85). *)
AckMeansWritten == \A x \in Calls : call[x] = "acked" => written[x]

(* As long as nothing breaks and no handler is slow, the locks keep two    *)
(* messages from being written to one connection at a time, although they  *)
(* are released by socket id (ws_server.py:87).                            *)
Exclusive ==
    faults = 0 => \A g, h \in Handlers :
        /\ handler[g].pc \in Active
        /\ handler[h].pc \in Active
        /\ handler[g].conn = handler[h].conn
        => g = h

(* A lock does not stay held: the failsafe gives back what a handler that  *)
(* failed left behind (ws_server.py:84, 120), unless the entry goes.       *)
LockReleased ==
    \A s \in Sockets :
        lock[s] \in {"held", "expired"} ~> lock[s] \in {"none", "free"}

(* Whatever has broken before, a worker that stays up is again and again   *)
(* reachable under each of its socket ids: a connection whose entry an     *)
(* older handler deleted is not left open without one (ws_server.py:127).  *)
Available(s) == entry[s] \in open /\ entry[s] = client[s] /\ lock[s] = "free"

Reachable == \A s \in Sockets : <>[]up => []<>Available(s)

(* A caller is not kept waiting for ever, the worker being up or not. *)
CallEnds ==
    \A x \in Calls : call[x] \in {"retrying", "trying"} ~> call[x] \in {"acked", "failed"}
=============================================================================
