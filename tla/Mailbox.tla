------------------------------ MODULE Mailbox ------------------------------
(***************************************************************************)
(* Messages from the server to the workers, through the websocket server   *)
(* (WorkerModel.send_json_message, codalab/bin/ws_server.py).  A message   *)
(* the websocket server has written to one of a worker's connections stays *)
(* in the mailbox until the worker takes it; the connections are           *)
(* independent, so messages to one worker may overtake each other.         *)
(***************************************************************************)
EXTENDS BundleModel

VARIABLE mailbox

MessageType == {"run", "kill", "mark_finalized"}
Message == [to : Workers, type : MessageType, bundle : Bundles]

MailboxTypeOK == mailbox \subseteq Message

MailboxInit == mailbox = {}

Msg(w, t, b) == [to |-> w, type |-> t, bundle |-> b]

(* The websocket server writes the message, and acknowledges it after the  *)
(* write: an acknowledged message has been written, not yet processed.     *)
Deliver(w, t, b) == mailbox' = mailbox \union {Msg(w, t, b)}

Take(m) == m \in mailbox /\ mailbox' = mailbox \ {m}

DropMailbox(w) == mailbox' = {m \in mailbox : m.to # w}
=============================================================================
