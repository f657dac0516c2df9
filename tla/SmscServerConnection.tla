------------------------ MODULE SmscServerConnection ------------------------
(***************************************************************************)
(* The server role: the tasks that serve the connections of clients        *)
(* (SmscServerConnection), the ClientManager that routes messages to them  *)
(* by address range, and the TransactionResponseManager that hands a       *)
(* client's deliver_sm_resp to the task that waits for it.                 *)
(*                                                                         *)
(* A connection task reads PDUs and handles them one at a time: while it   *)
(* waits for the response to a transaction it reads nothing. Datagrams are *)
(* forwarded by tasks of their own, stored messages by the delivery task   *)
(* of the message store. The clients are external, and so are the HTTP     *)
(* servers of the message handler.                                         *)
(*                                                                         *)
(* A data_sm has no short_message, which a deliver_sm must have: the       *)
(* unwrap in forward_message_to_client panics for every data_sm. It has no *)
(* sm_default_msg_id either, so replace_message_with_predefined is never   *)
(* called for one.                                                         *)
(***************************************************************************)
EXTENDS Integers, Sequences, FiniteSets

CONSTANTS
    Conns,       \* connections of clients
    Submits,     \* submit_sm, data_sm and submit_multi PDUs the clients send
    Load,        \* what they are: the sender, the command, the mode, the destinations
    Asks,        \* other request PDUs they send
    AskOf,       \* what they are: the sender, the kind
    Range,       \* the addresses a connection's address_range matches
    Local,       \* addresses the message handler takes (is_my_request_address)
    Addresses,   \* destination addresses
    NoJob,       \* no PDU is being handled
    Scenes       \* bounds: what the outside does in a behaviour, a set of records
                 \*   submits, asks: the PDUs that are sent
                 \*   rest:     the sequence numbers REST callers use
                 \*   leavers:  connections whose client may unbind or close
                 \*   stallers: those whose client may stop reading, once
                 \*   enquires: how many enquire_link PDUs the server sends
                 \*   redos:    how often the store fails to delete what was handed over

Modes == {"datagram", "transaction", "store"}
Commands == {"submit_sm", "data_sm", "submit_multi"}

\* Who calls ClientManager::send_message, other than a connection task.
Callers == {"datagram", "store", "rest"}

\* The kinds of request that are handled at once. Broadcast stands for broadcast_sm,
\* query_broadcast_sm and every command without a handler.
AskKinds == {"enquire_link", "query_sm", "cancel_sm", "replace_sm", "cancel_broadcast_sm",
             "broadcast"}

ASSUME ServerAssumption ==
    /\ Load \in [Submits -> [from : Conns, command : Commands, mode : Modes, dests : Seq(Addresses)]]
    /\ \A s \in Submits : Load[s].command # "submit_multi" => Len(Load[s].dests) = 1
    /\ AskOf \in [Asks -> [from : Conns, kind : AskKinds]]
    /\ Range \in [Conns -> SUBSET Addresses]
    /\ Local \subseteq Addresses /\ NoJob \notin Submits
    /\ Conns \cap (Callers \cup {"none"}) = {}
    /\ \A x \in Scenes :
          /\ x.submits \subseteq Submits /\ x.asks \subseteq Asks
          /\ x.leavers \subseteq Conns /\ x.stallers \subseteq Conns
          /\ x.rest \subseteq Nat /\ x.enquires \in Nat /\ x.redos \in Nat

VARIABLES
    scene,        \* what the outside does in this behaviour
    link,         \* "open", "stalled" (the client has stopped reading) or "closed" by it
    shut,         \* connections whose writer was shut down (unbind)
    inbox,        \* PDUs from the client, not handled yet
    pc,           \* where each connection task is
    job,          \* the PDU it is handling
    at,           \* the destination it has come to
    failed,       \* a destination has failed
    seqOf,        \* sequence number of the deliver_sm it waits for
    chan,         \* its oneshot channel: the status of the response
    clients,      \* ClientManager: registered connections
    transactions, \* TransactionResponseManager: who waits for which number
    forwards,     \* datagrams whose task has not run yet
    sends,        \* calls of ClientManager::send_message under way
    stored,       \* messages in the store
    courier,      \* the store's delivery task: "idle", "busy", "handed" or "dead", its message
    redos,        \* deletes that have failed so far
    nextSeq,      \* SequenceNumberAllocator
    enquirers,    \* connections with a running enquire_link task
    enquires,     \* enquire_links sent so far
    unanswered,   \* deliver_sm the clients have received and not answered
    sent,         \* PDUs the clients have sent: submits, "bind", "unbind"
    rest,         \* sequence numbers REST callers have used
    assigned,     \* history: the number of each forwarded message
    written,      \* history: which deliver_sm was written to which connection, REST's apart
    refused,      \* history: deliver_sm that no client took, with those that were bound for it
    again,        \* history: messages the store failed to delete
    heard,        \* history: responses given to response_received
    outcome,      \* history: the status in the response to each submit
    replies       \* history: the status in the response to each other request

connVars == <<pc, job, at, failed, seqOf>>
waitVars == <<chan, transactions>>
storeVars == <<stored, courier, redos>>
routeVars == <<clients, forwards, sends>>
clientVars == <<link, sent, unanswered>>
enquireVars == <<enquirers, enquires>>
sentVars == <<assigned, written, refused, again>>
histVars == <<sentVars, heard, outcome, replies>>
worldVars == <<scene, rest>>
vars == <<shut, inbox, connVars, waitVars, routeVars, storeVars, nextSeq, enquireVars,
          clientVars, worldVars, histVars>>

Idle == [stage |-> "idle", msg |-> NoJob]

Init ==
    /\ scene \in Scenes
    /\ link = [c \in Conns |-> "open"] /\ shut = {}
    /\ inbox = [c \in Conns |-> <<>>]
    /\ pc = [c \in Conns |-> "read"]
    /\ job = [c \in Conns |-> NoJob] /\ at = [c \in Conns |-> 0]
    /\ failed = [c \in Conns |-> FALSE] /\ seqOf = [c \in Conns |-> 0]
    /\ chan = [c \in Conns |-> "none"] /\ transactions = {}
    /\ clients = {} /\ forwards = {} /\ sends = {}
    /\ stored = {} /\ courier = Idle /\ redos = 0
    /\ nextSeq = 0 /\ enquirers = {} /\ enquires = 0
    /\ unanswered = {} /\ sent = {} /\ rest = {}
    /\ assigned = {} /\ written = {} /\ refused = {} /\ again = {} /\ heard = {}
    /\ outcome = [s \in Submits |-> "none"] /\ replies = [q \in Asks |-> "none"]
-----------------------------------------------------------------------------
(***************************************************************************)
(* Writing to a client. A write on a connection the client has closed may  *)
(* fail, or be lost in the send buffer; after shutdown it always fails.    *)
(* While the client does not read and the buffers are full, a write does   *)
(* not end, and holds the mutex of the writer against all others.          *)
(***************************************************************************)
CanWrite(c) == c \notin shut /\ link[c] # "stalled"
CanFail(c)  == c \in shut \/ link[c] = "closed"

(***************************************************************************)
(* ClientManager::send_message. A call has the number of its deliver_sm,   *)
(* the clients get_writer found, those whose write has failed, and the one *)
(* whose write does not end. The clients are tried in the order of the     *)
(* hash map, which is any order. The callers only log a failure.           *)
(***************************************************************************)

\* get_writer: the matching clients, at this moment.
Send(who, n, a) ==
    sends' = sends \cup {[by |-> who, seq |-> n, found |-> {c \in clients : a \in Range[c]},
                          tried |-> {}, to |-> "none"]}

Ahead(t) == IF t.to = "none" THEN t.found \ t.tried ELSE {t.to}

\* The caller goes on: a connection task to wait for the response, the delivery task of the
\* store to delete the message.
EndSend(t) ==
    /\ sends' = sends \ {t}
    /\ pc' = IF t.by \in Conns THEN [pc EXCEPT ![t.by] = "register"] ELSE pc
    /\ courier' = IF t.by = "store" THEN [courier EXCEPT !.stage = "handed"] ELSE courier

SendFrame ==
    UNCHANGED <<shut, inbox, job, at, failed, seqOf, waitVars, clients, forwards, stored, redos,
                nextSeq, enquireVars, link, sent, worldVars, assigned, again, heard, outcome, replies>>

\* A write to c succeeds.
Writes(t, c) ==
    LET w == [seq |-> t.seq, conn |-> c]
    IN  /\ CanWrite(c)
        /\ written' = IF t.by = "rest" THEN written ELSE written \cup {w}
        /\ unanswered' = IF link[c] = "open" THEN unanswered \cup {w} ELSE unanswered

\* Fault: the loop goes on after a write that succeeded.
WriteOkGoesOn(t) ==
    LET found == {[seq |-> t.seq, conn |-> c] : c \in {d \in Ahead(t) : CanWrite(d)}}
    IN  /\ found # {}
        /\ written' = IF t.by = "rest" THEN written ELSE written \cup found
        /\ unanswered' = unanswered \cup {w \in found : link[w.conn] = "open"}
    /\ EndSend(t)
    /\ UNCHANGED refused /\ SendFrame

\* The first write that succeeds ends the loop.
WriteOk(t) ==
    /\ \E c \in Ahead(t) : Writes(t, c)
    /\ EndSend(t)
    /\ UNCHANGED refused /\ SendFrame

\* Fault: the first write that fails ends the loop.
WriteFailsEnds(t) ==
    /\ \E c \in Ahead(t) : CanFail(c)
    /\ refused' = refused \cup {[seq |-> t.seq, conns |-> t.found]}
    /\ EndSend(t)
    /\ UNCHANGED <<written, unanswered>> /\ SendFrame

Failed(t, c) == [t EXCEPT !.tried = @ \cup {c}, !.to = "none"]

\* A write fails: the loop goes on to the next client.
WriteFails(t) ==
    /\ \E c \in Ahead(t) : CanFail(c) /\ sends' = (sends \ {t}) \cup {Failed(t, c)}
    /\ UNCHANGED <<pc, courier, written, unanswered, refused>> /\ SendFrame

\* The next client does not read: the call waits for it and tries no other.
WriteStalls(t) ==
    /\ t.to = "none"
    /\ \E c \in Ahead(t) :
          /\ link[c] = "stalled" /\ c \notin shut
          /\ sends' = (sends \ {t}) \cup {[t EXCEPT !.to = c]}
    /\ UNCHANGED <<pc, courier, written, unanswered, refused>> /\ SendFrame

\* No client is left, or none was found.
GiveUp(t) ==
    /\ Ahead(t) = {}
    /\ refused' = refused \cup {[seq |-> t.seq, conns |-> t.found]}
    /\ EndSend(t)
    /\ UNCHANGED <<written, unanswered>> /\ SendFrame

SendStep(t) == WriteOk(t) \/ WriteFails(t) \/ WriteStalls(t) \/ GiveUp(t)

\* The next PDU of c.
Received(c, kind) == pc[c] = "read" /\ inbox[c] # <<>> /\ Head(inbox[c]).kind = kind
Consume(c) == inbox' = [inbox EXCEPT ![c] = Tail(@)]
-----------------------------------------------------------------------------
(***************************************************************************)
(* bind, unbind and the end of a connection.                               *)
(***************************************************************************)

\* handle_bind: on success the enquire_link task is spawned, then the response is
\* written. The client is added if that went well, whatever the response says.
HandleBind(c) ==
    /\ Received(c, "bind")
    /\ Consume(c)
    /\ enquirers' \in {enquirers, enquirers \cup {c}}
    /\ \/ CanWrite(c) /\ pc' = [pc EXCEPT ![c] = "addClient"]
       \/ CanFail(c) /\ UNCHANGED pc
    /\ UNCHANGED <<shut, job, at, failed, seqOf, waitVars, routeVars, storeVars, nextSeq, enquires,
                   clientVars, worldVars, histVars>>

\* Fault: the client is entered under its addresses.
AddClientByAddress(c) ==
    /\ pc[c] = "addClient"
    /\ clients' = clients \cup Range[c]
    /\ pc' = [pc EXCEPT ![c] = "read"]
    /\ UNCHANGED <<shut, inbox, job, at, failed, seqOf, waitVars, forwards, sends, storeVars,
                   nextSeq, enquireVars, clientVars, worldVars, histVars>>

\* add_client: not without an address range.
AddClient(c) ==
    /\ pc[c] = "addClient"
    /\ clients' = IF Range[c] = {} THEN clients ELSE clients \cup {c}
    /\ pc' = [pc EXCEPT ![c] = "read"]
    /\ UNCHANGED <<shut, inbox, job, at, failed, seqOf, waitVars, forwards, sends, storeVars,
                   nextSeq, enquireVars, clientVars, worldVars, histVars>>

\* handle_unbind: answer and shut the writer down; the task reads on.
HandleUnbind(c) ==
    /\ Received(c, "unbind")
    /\ Consume(c)
    /\ \/ CanWrite(c) /\ shut' = shut \cup {c}
       \/ CanFail(c) /\ UNCHANGED shut
    /\ UNCHANGED <<connVars, waitVars, routeVars, storeVars, nextSeq, enquireVars, clientVars, worldVars,
                   histVars>>


\* The client has closed: leave the loop and remove the client. A reset loses what was
\* not read yet.
EndOfFile(c) ==
    /\ pc[c] = "read" /\ link[c] = "closed"
    /\ pc' = [pc EXCEPT ![c] = "done"]
    /\ clients' = clients \ {c}
    /\ inbox' = [inbox EXCEPT ![c] = <<>>]
    /\ UNCHANGED <<shut, job, at, failed, seqOf, waitVars, forwards, sends, storeVars, nextSeq,
                   enquireVars, clientVars, worldVars, histVars>>

\* The enquire_link task: it ends with the first write that fails.
EnquireTick(c) ==
    /\ c \in enquirers
    /\ \/ /\ CanWrite(c) /\ enquires < scene.enquires
          /\ enquires' = enquires + 1
          /\ UNCHANGED enquirers
       \/ /\ CanFail(c)
          /\ enquirers' = enquirers \ {c}
          /\ UNCHANGED enquires
    /\ nextSeq' = nextSeq + 1
    /\ UNCHANGED <<shut, inbox, connVars, waitVars, routeVars, storeVars, clientVars, worldVars, histVars>>
-----------------------------------------------------------------------------
(***************************************************************************)
(* submit_sm, data_sm and submit_multi.                                    *)
(***************************************************************************)
StartSubmit(c) ==
    /\ Received(c, "submit")
    /\ Consume(c)
    /\ job' = [job EXCEPT ![c] = Head(inbox[c]).sub]
    /\ at' = [at EXCEPT ![c] = 1]
    /\ failed' = [failed EXCEPT ![c] = FALSE]
    /\ pc' = [pc EXCEPT ![c] = "dest"]
    /\ UNCHANGED <<shut, seqOf, waitVars, routeVars, storeVars, nextSeq, enquireVars, clientVars, worldVars,
                   histVars>>

Work(c) == Load[job[c]]
HasDest(c) == pc[c] = "dest" /\ at[c] <= Len(Work(c).dests)
Dest(c) == Work(c).dests[at[c]]

\* On to the next destination, the last one having gone well or not.
NextDest(c, ok) ==
    /\ at' = [at EXCEPT ![c] = @ + 1]
    /\ failed' = [failed EXCEPT ![c] = @ \/ ~ok]
    /\ pc' = [pc EXCEPT ![c] = "dest"]

\* process_local_data_submit_message: the message is posted to HTTP servers. The post has no
\* timeout.
LocalDest(c) ==
    /\ HasDest(c) /\ Dest(c) \in Local
    /\ pc' = [pc EXCEPT ![c] = "http"]
    /\ nextSeq' = nextSeq + 1
    /\ UNCHANGED <<shut, inbox, job, at, failed, seqOf, waitVars, routeVars, storeVars, enquireVars,
                   clientVars, worldVars, histVars>>

\* The post ends, if it does. The handler's error is the response to a submit_sm or data_sm;
\* a submit_multi takes it for a success.
HttpReturns(c) ==
    /\ pc[c] = "http"
    /\ \E ok \in BOOLEAN : NextDest(c, ok \/ Work(c).command = "submit_multi")
    /\ UNCHANGED <<shut, inbox, job, seqOf, waitVars, routeVars, storeVars, nextSeq, enquireVars,
                   clientVars, worldVars, histVars>>

Remote(c, mode) == HasDest(c) /\ Dest(c) \notin Local /\ Work(c).mode = mode

\* The message has a number of its own, msg; the deliver_sm made of it gets the number n.
Assign(c, n) ==
    assigned' = assigned \cup {[seq |-> n, msg |-> nextSeq, sub |-> job[c], at |-> at[c]]}

\* send_message_in_datagram_mode: two numbers are taken, a task is spawned.
DatagramDest(c) ==
    /\ Remote(c, "datagram")
    /\ forwards' = forwards \cup {[seq |-> nextSeq + 1, sub |-> job[c], dest |-> Dest(c)]}
    /\ Assign(c, nextSeq + 1)
    /\ nextSeq' = nextSeq + 2
    /\ NextDest(c, TRUE)
    /\ UNCHANGED <<shut, inbox, job, seqOf, waitVars, clients, sends, storeVars, enquireVars,
                   clientVars, worldVars, written, refused, again, heard, outcome, replies>>

\* from_json(..).unwrap() in forward_message_to_client.
Panics(s) == Load[s].command = "data_sm"

\* The spawned task.
RunForward(f) ==
    /\ forwards' = forwards \ {f}
    /\ \/ Panics(f.sub) /\ UNCHANGED sends
       \/ ~Panics(f.sub) /\ Send("datagram", f.seq, f.dest)
    /\ UNCHANGED <<shut, inbox, connVars, waitVars, clients, storeVars, nextSeq, enquireVars,
                   clientVars, worldVars, histVars>>

\* store_and_forward_message: refused for its times or by the store, or saved.
StoreDest(c) ==
    /\ Remote(c, "store")
    /\ \/ /\ stored' = stored \cup {[msg |-> nextSeq, sub |-> job[c], at |-> at[c],
                                      dest |-> Dest(c)]}
          /\ NextDest(c, TRUE)
       \/ /\ UNCHANGED stored
          /\ NextDest(c, FALSE)
    /\ nextSeq' = nextSeq + 1
    /\ UNCHANGED <<shut, inbox, job, seqOf, waitVars, routeVars, courier, redos, enquireVars,
                   clientVars, worldVars, histVars>>

\* handle_schedule_delivery_message, called by the delivery task of the store: the message
\* gets a new number each time. A panic ends the task.
ScheduledDelivery(m) ==
    /\ courier.stage = "idle"
    /\ nextSeq' = nextSeq + 1
    /\ \/ /\ Panics(m.sub)
          /\ courier' = [stage |-> "dead", msg |-> m]
          /\ UNCHANGED <<sends, assigned>>
       \/ /\ ~Panics(m.sub)
          /\ courier' = [stage |-> "busy", msg |-> m]
          /\ Send("store", nextSeq, m.dest)
          /\ assigned' = assigned \cup {[seq |-> nextSeq, msg |-> m.msg, sub |-> m.sub, at |-> m.at]}
    /\ UNCHANGED <<shut, inbox, connVars, waitVars, clients, forwards, stored, redos, enquireVars,
                   clientVars, worldVars, written, refused, again, heard, outcome, replies>>


\* The handler has returned Ok, which it always does. The store deletes the message, or
\* fails to and will hand it over again.
AfterDelivery ==
    /\ courier.stage = "handed"
    /\ courier' = Idle
    /\ \/ /\ stored' = stored \ {courier.msg}
          /\ UNCHANGED <<redos, again>>
       \/ /\ redos < scene.redos
          /\ redos' = redos + 1
          /\ again' = again \cup {courier.msg.msg}
          /\ UNCHANGED stored
    /\ UNCHANGED <<shut, inbox, connVars, waitVars, routeVars, nextSeq, enquireVars, clientVars,
                   worldVars, assigned, written, refused, heard, outcome, replies>>

StoreStep ==
    \/ \E m \in stored : ScheduledDelivery(m)
    \/ \E t \in sends : t.by = "store" /\ SendStep(t)
    \/ AfterDelivery

\* send_message_in_transaction_mode: forward the message, then ...
ForwardDest(c) ==
    /\ Remote(c, "transaction")
    /\ nextSeq' = nextSeq + 2
    /\ \/ /\ Panics(job[c])
          /\ pc' = [pc EXCEPT ![c] = "panicked"]
          /\ UNCHANGED <<sends, seqOf, assigned>>
       \/ /\ ~Panics(job[c])
          /\ Send(c, nextSeq + 1, Dest(c))
          /\ Assign(c, nextSeq + 1)
          /\ seqOf' = [seqOf EXCEPT ![c] = nextSeq + 1]
          /\ pc' = [pc EXCEPT ![c] = "forward"]
    /\ UNCHANGED <<shut, inbox, job, at, failed, waitVars, clients, forwards, storeVars, enquireVars,
                   clientVars, worldVars, written, refused, again, heard, outcome, replies>>

\* ... register for its response (wait_response) ...
RegisterWait(c) ==
    /\ pc[c] = "register"
    /\ transactions' = {t \in transactions : t.seq # seqOf[c]} \cup {[seq |-> seqOf[c], conn |-> c]}
    /\ pc' = [pc EXCEPT ![c] = "wait"]
    /\ UNCHANGED <<shut, inbox, job, at, failed, seqOf, chan, routeVars, storeVars, nextSeq, enquireVars,
                   clientVars, worldVars, histVars>>

\* Fault: the command status of the response is not looked at.
TakeResponseAnyStatus(c) ==
    /\ pc[c] = "wait" /\ chan[c] # "none"
    /\ NextDest(c, TRUE)
    /\ seqOf' = [seqOf EXCEPT ![c] = 0]
    /\ chan' = [chan EXCEPT ![c] = "none"]
    /\ UNCHANGED <<shut, inbox, job, transactions, routeVars, storeVars, nextSeq, enquireVars, clientVars,
                   worldVars, histVars>>

\* ... take it ...
TakeResponse(c) ==
    /\ pc[c] = "wait" /\ chan[c] # "none"
    /\ NextDest(c, chan[c] = "ok")
    /\ seqOf' = [seqOf EXCEPT ![c] = 0]
    /\ chan' = [chan EXCEPT ![c] = "none"]
    /\ UNCHANGED <<shut, inbox, job, transactions, routeVars, storeVars, nextSeq, enquireVars, clientVars,
                   worldVars, histVars>>

\* Fault: the time-out leaves its entry in the table.
WaitTimeoutLeaks(c) ==
    /\ pc[c] = "wait"
    /\ NextDest(c, FALSE)
    /\ seqOf' = [seqOf EXCEPT ![c] = 0]
    /\ chan' = [chan EXCEPT ![c] = "none"]
    /\ UNCHANGED <<shut, inbox, job, transactions, routeVars, storeVars, nextSeq, enquireVars, clientVars,
                   worldVars, histVars>>


\* ... or give up after thirty seconds, also when the response comes at that moment.
WaitTimeout(c) ==
    /\ pc[c] = "wait"
    /\ transactions' = {t \in transactions : t.seq # seqOf[c]}
    /\ NextDest(c, FALSE)
    /\ seqOf' = [seqOf EXCEPT ![c] = 0]
    /\ chan' = [chan EXCEPT ![c] = "none"]
    /\ UNCHANGED <<shut, inbox, job, routeVars, storeVars, nextSeq, enquireVars, clientVars,
                   worldVars, histVars>>

\* The submit is done with.
Done(c) ==
    /\ job' = [job EXCEPT ![c] = NoJob]
    /\ at' = [at EXCEPT ![c] = 0]
    /\ failed' = [failed EXCEPT ![c] = FALSE]
    /\ pc' = [pc EXCEPT ![c] = "read"]

\* The response to the submit. If it cannot be written, a submit_sm or data_sm only logs it,
\* a submit_multi unwraps the error.
Answer(c) ==
    /\ pc[c] = "dest" /\ at[c] > Len(Work(c).dests)
    /\ \/ /\ CanWrite(c)
          /\ outcome' = [outcome EXCEPT ![job[c]] = IF failed[c] THEN "error" ELSE "ok"]
          /\ Done(c)
       \/ /\ CanFail(c) /\ Work(c).command # "submit_multi"
          /\ Done(c)
          /\ UNCHANGED outcome
       \/ /\ CanFail(c) /\ Work(c).command = "submit_multi"
          /\ pc' = [pc EXCEPT ![c] = "panicked"]
          /\ UNCHANGED <<job, at, failed, outcome>>
    /\ UNCHANGED <<shut, inbox, seqOf, waitVars, routeVars, storeVars, nextSeq, enquireVars,
                   clientVars, worldVars, sentVars, heard, replies>>

\* create_json_response names no message_id, which the responses to the broadcast PDUs must
\* have, and other commands have no response at all: from_json fails and nothing is sent.
Responds(kind) == kind # "broadcast"

\* The status in the response: that of the store's cancel_message and replace_message, no
\* success for what is not implemented.
Statuses(kind) ==
    CASE kind = "enquire_link"               -> {"ok"}
      [] kind \in {"cancel_sm", "replace_sm"} -> {"ok", "error"}
      [] OTHER                               -> {"error"}

\* The other requests. A cancel_sm may take messages out of the store; which, and what it
\* returns, is up to the store.
HandleAsk(c) ==
    /\ Received(c, "ask")
    /\ Consume(c)
    /\ LET q == Head(inbox[c]).ask
           kind == AskOf[q].kind
       IN  /\ \/ kind = "cancel_sm" /\ \E gone \in SUBSET stored : stored' = stored \ gone
              \/ kind # "cancel_sm" /\ UNCHANGED stored
           /\ \/ /\ CanWrite(c)
                 /\ \E status \in Statuses(kind) :
                       replies' = IF Responds(kind) THEN [replies EXCEPT ![q] = status] ELSE replies
              \/ CanFail(c) /\ UNCHANGED replies
    /\ UNCHANGED <<shut, connVars, waitVars, routeVars, courier, redos, nextSeq, enquireVars,
                   clientVars, worldVars, sentVars, heard, outcome>>

\* DeliverSmResp: TransactionResponseManager::response_received.
HandleResponse(c) ==
    /\ Received(c, "resp")
    /\ Consume(c)
    /\ LET p == Head(inbox[c])
       IN  /\ transactions' = {t \in transactions : t.seq # p.seq}
           /\ chan' = [d \in Conns |-> IF [seq |-> p.seq, conn |-> d] \in transactions
                                       THEN p.status ELSE chan[d]]
           /\ heard' = heard \cup {[seq |-> p.seq, conn |-> c, status |-> p.status]}
    /\ UNCHANGED <<shut, connVars, routeVars, storeVars, nextSeq, enquireVars, clientVars, worldVars, sentVars,
                   outcome, replies>>

\* handle_rest_request: a deliver_sm goes out with the number its caller gave it.
RestDeliver(n, a) ==
    /\ n \in scene.rest \ rest
    /\ rest' = rest \cup {n}
    /\ Send("rest", n, a)
    /\ UNCHANGED <<scene, shut, inbox, connVars, waitVars, clients, forwards, storeVars, nextSeq,
                   enquireVars, clientVars, histVars>>

\* What the task of c does.
ConnStep(c) ==
    \/ HandleBind(c) \/ AddClient(c) \/ HandleUnbind(c) \/ EndOfFile(c)
    \/ StartSubmit(c) \/ LocalDest(c) \/ DatagramDest(c) \/ StoreDest(c) \/ ForwardDest(c)
    \/ \E t \in sends : t.by = c /\ SendStep(t)
    \/ RegisterWait(c) \/ TakeResponse(c) \/ WaitTimeout(c) \/ Answer(c) \/ HandleResponse(c)
    \/ HandleAsk(c)
-----------------------------------------------------------------------------
(***************************************************************************)
(* The clients: each binds, submits its messages, answers what it gets,    *)
(* with success or not, and may unbind or close at any time.               *)
(***************************************************************************)
ClientSend(c, what, pdu) ==
    /\ link[c] = "open" /\ <<c, what>> \notin sent
    /\ sent' = sent \cup {<<c, what>>}
    /\ inbox' = [inbox EXCEPT ![c] = Append(@, pdu)]
    /\ UNCHANGED <<shut, connVars, waitVars, routeVars, storeVars, nextSeq, enquireVars, link, unanswered,
                   worldVars, histVars>>

ClientBind(c) == ClientSend(c, NoJob, [kind |-> "bind"])
ClientUnbind(c) ==
    /\ c \in scene.leavers /\ <<c, NoJob>> \in sent
    /\ ClientSend(c, c, [kind |-> "unbind"])
ClientSubmit(s) == ClientSend(Load[s].from, s, [kind |-> "submit", sub |-> s])
ClientAsk(q) == ClientSend(AskOf[q].from, q, [kind |-> "ask", ask |-> q])

ClientAnswer(d, status) ==
    /\ unanswered' = unanswered \ {d}
    /\ inbox' = [inbox EXCEPT ![d.conn] =
                    Append(@, [kind |-> "resp", seq |-> d.seq, status |-> status])]
    /\ UNCHANGED <<shut, connVars, waitVars, routeVars, storeVars, nextSeq, enquireVars, link, sent, worldVars,
                   histVars>>

ClientClose(c) ==
    /\ c \in scene.leavers /\ link[c] # "closed"
    /\ link' = [link EXCEPT ![c] = "closed"]
    /\ unanswered' = {d \in unanswered : d.conn # c}
    /\ UNCHANGED <<shut, inbox, connVars, waitVars, routeVars, storeVars, nextSeq, enquireVars, sent,
                   worldVars, histVars>>

\* The client stops reading, once, ...
ClientStalls(c) ==
    /\ c \in scene.stallers /\ link[c] = "open" /\ <<c, "stalls">> \notin sent
    /\ link' = [link EXCEPT ![c] = "stalled"]
    /\ sent' = sent \cup {<<c, "stalls">>}
    /\ UNCHANGED <<shut, inbox, connVars, waitVars, routeVars, storeVars, nextSeq, enquireVars,
                   unanswered, worldVars, histVars>>

\* ... and may read on.
ClientReadsOn(c) ==
    /\ link[c] = "stalled"
    /\ link' = [link EXCEPT ![c] = "open"]
    /\ UNCHANGED <<shut, inbox, connVars, waitVars, routeVars, storeVars, nextSeq, enquireVars, sent,
                   unanswered, worldVars, histVars>>

ClientStep(c) ==
    ClientBind(c) \/ ClientUnbind(c) \/ ClientClose(c) \/ ClientStalls(c) \/ ClientReadsOn(c)
-----------------------------------------------------------------------------
Next ==
    \/ \E c \in Conns : ConnStep(c) \/ HttpReturns(c) \/ EnquireTick(c) \/ ClientStep(c)
    \/ \E f \in forwards : RunForward(f)
    \/ \E t \in sends : t.by \in {"datagram", "rest"} /\ SendStep(t)
    \/ StoreStep
    \/ \E n \in scene.rest, a \in Addresses : RestDeliver(n, a)
    \/ \E s \in scene.submits : ClientSubmit(s)
    \/ \E q \in scene.asks : ClientAsk(q)
    \/ \E d \in unanswered, status \in {"ok", "fail"} : ClientAnswer(d, status)

Spec == Init /\ [][Next]_vars

(***************************************************************************)
(* Tokio polls every task that can make progress and timers expire; the    *)
(* clients and the HTTP servers owe nothing.                               *)
(***************************************************************************)
Fairness == (\A c \in Conns : WF_vars(ConnStep(c))) /\ WF_vars(StoreStep)

FairSpec == Spec /\ Fairness
-----------------------------------------------------------------------------
(***************************************************************************)
(* Properties.                                                             *)
(***************************************************************************)
Numbered(S) == \A x \in S : x.seq \in Nat /\ x.conn \in Conns

Stages == {"read", "addClient", "dest", "http", "forward", "register", "wait", "done", "panicked"}

\* Every variable keeps its type.
TypeOK ==
    /\ link \in [Conns -> {"open", "stalled", "closed"}] /\ shut \subseteq Conns
    /\ pc \in [Conns -> Stages]
    /\ job \in [Conns -> Submits \cup {NoJob}] /\ at \in [Conns -> Nat]
    /\ failed \in [Conns -> BOOLEAN] /\ seqOf \in [Conns -> Nat]
    /\ chan \in [Conns -> {"none", "ok", "fail"}]
    /\ clients \subseteq Conns /\ enquirers \subseteq Conns
    /\ transactions \subseteq [seq : Nat, conn : Conns]
    /\ Numbered(unanswered) /\ Numbered(written) /\ Numbered(heard)
    /\ sends \subseteq [by : Conns \cup Callers, seq : Nat, found : SUBSET Conns,
                       tried : SUBSET Conns, to : Conns \cup {"none"}]
    /\ courier.stage \in {"idle", "busy", "handed", "dead"} /\ redos \in 0 .. scene.redos
    /\ scene \in Scenes /\ rest \subseteq scene.rest
    /\ nextSeq \in Nat /\ enquires \in 0 .. scene.enquires
    /\ outcome \in [Submits -> {"none", "ok", "error"}]
    /\ replies \in [Asks -> {"none", "ok", "error"}]

\* The transaction table holds exactly the tasks that wait: time-outs, late responses,
\* closed connections and other waiters leave no entry behind and evict nobody.
TableMatchesWaiters ==
    transactions = {[seq |-> seqOf[c], conn |-> c] :
                       c \in {d \in Conns : pc[d] = "wait" /\ chan[d] = "none"}}

\* A submit in transaction mode is answered with success only if, for every destination
\* that is not local, a client took the message and answered it with success - or a REST
\* caller used the message's sequence number for a message of its own.
OkMeansAnswered ==
    \A s \in Submits : Load[s].mode = "transaction" /\ outcome[s] = "ok" =>
        \A i \in DOMAIN Load[s].dests : Load[s].dests[i] \notin Local =>
            \E a \in assigned :
                /\ a.sub = s /\ a.at = i
                /\ \/ a.seq \in rest
                   \/ \E h \in heard :
                         /\ h.seq = a.seq /\ h.status = "ok"
                         /\ [seq |-> h.seq, conn |-> h.conn] \in written

\* A message of a client reaches one client at most, and once: whatever clients come, go and
\* stall between get_writer and the writes, and whichever the datagram task, the connection
\* task and the store's delivery task hand over meanwhile. The exception is a message the
\* store could not delete after it was handed over.
DeliveredOnce ==
    \A p, q \in assigned, v, w \in written :
        p.msg = q.msg /\ v.seq = p.seq /\ w.seq = q.seq => v = w \/ p.msg \in again

\* A message for which clients were bound is given up only when none of them can be written
\* to any more: one that has gone does not keep it from the others.
NobodyPassedOver == \A g \in refused : \A c \in g.conns : CanFail(c)

\* What the task of c may wait for without end: an HTTP server, or a client it writes a
\* message to and that does not read.
HeldUp(c) ==
    \/ pc[c] = "http"
    \/ \E t \in sends : t.by = c /\ t.to \in Conns /\ link[t.to] = "stalled"

\* The task of c has panicked while it worked on such a command.
PanickedOn(c, command) == pc[c] = "panicked" /\ Load[job[c]].command = command


\* What client c has sent and the server owes an answer to.
Pending(c) ==
    {s \in Submits : <<c, s>> \in sent /\ outcome[s] = "none"} \cup
    {q \in Asks : <<c, q>> \in sent /\ AskOf[q].kind # "broadcast" /\ replies[q] = "none"}


\* What may keep the delivery task of the store from going on for ever: a panic on a data_sm,
\* or a client it writes a message to and that does not read.
CourierHeld ==
    \/ courier.stage = "dead" /\ Panics(courier.msg.sub)
    \/ \E t \in sends : t.by = "store" /\ t.to \in Conns /\ link[t.to] = "stalled"


(***************************************************************************)
(* What comments in the code say of it and the code does not keep.         *)
(***************************************************************************)

\* wait_response returns "the response if received": a response that has come in before
\* the time is up is not missed.
ResponseNotMissed ==
    [][\A c \in Conns : pc[c] = "wait" /\ chan[c] = "none" /\ pc'[c] = "dest" =>
          \A h \in heard : h.seq # seqOf[c]]_vars
=============================================================================
