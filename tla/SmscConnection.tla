--------------------------- MODULE SmscConnection ---------------------------
(***************************************************************************)
(* One SMSC connection of the client role (smsc_client/smsc_connection.rs) *)
(* and the REST requests sent through it.                                  *)
(*                                                                         *)
(*  - The connection task is SmscConnection::run: connect, store the write *)
(*    half, bind, then a select! loop over the socket and two timers.      *)
(*  - Every REST request is a task of its own that calls send_message: it  *)
(*    registers a callback for its sequence number, locks the writer, and  *)
(*    keeps the lock until its response arrives or response_timer expires. *)
(*  - The SMSC at the other end is external: it answers what it receives   *)
(*    in any order or never, sends requests of its own, and may close.     *)
(*                                                                         *)
(* PDUs are records of a kind and a sequence number. The connection task   *)
(* holds the writer lock for a single write, a request across the wait as  *)
(* well. A write is one step with the grant of the lock, unless the SMSC   *)
(* does not read: then it takes the lock and lasts until the SMSC reads on *)
(* or closes, for no timer runs while write_all waits.                     *)
(***************************************************************************)
EXTENDS Integers, Sequences

CONSTANTS
    Requests,     \* REST requests, each handled by a task of its own
    NoOne,        \* no request: a free lock
    Task,         \* the connection task, as the holder of the lock
    HasNotifier,  \* an alarm notifier is configured (alarm_notifier is Some)
    MaxSessions,  \* bound: TCP connections the task opens
    MaxEnquires,  \* bound: enquire_link PDUs the task sends
    MaxPeerMsgs,  \* bound: requests the SMSC sends of its own accord
    MaxStalls     \* bound: how often the SMSC stops to read

ASSUME NoOneAssumption == NoOne \notin Requests \cup {Task} /\ Task \notin Requests
ASSUME NotifierAssumption == HasNotifier \in BOOLEAN
ASSUME BoundAssumption ==
    /\ MaxSessions \in Nat \ {0}
    /\ MaxEnquires \in Nat
    /\ MaxPeerMsgs \in Nat
    /\ MaxStalls \in Nat

VARIABLES
    pc,           \* where the connection task is
    session,      \* number of the TCP connection it opened last
    alarm_active, \* run()'s local flag
    alarm,        \* notifications sent: alarms raised less alarms cleared
    received,     \* messages_received # 0
    connSeq,      \* sequence number taken for the bind or enquire_link to write
    enquires,     \* enquire_links sent so far
    gauge,        \* SMSC_ACTIVE_CONNECTIONS
    writer,       \* session whose write half is stored, 0 for None
    lock,         \* the task that holds the writer mutex while others may run, or NoOne
    inbox,        \* PDUs of this session in the socket, not yet read
    buffer,       \* SmppMessageBuffer: read from the socket, not extracted
    batch,        \* extracted PDUs that are still to be processed
    rpc,          \* where each REST request is
    seq,          \* its sequence number
    chan,         \* its oneshot channel: the sequence number of the response
    wrote,        \* history: the session its PDU was written to, 0 for none
    nextSeq,      \* SequenceNumberAllocator (fewer than 2^32 are taken)
    callbacks,    \* ResponseManager: who waits for which sequence number
    open,         \* sessions whose far end the SMSC has not closed
    atPeer,       \* PDUs the SMSC has received and not answered
    accepted,     \* sessions whose bind the SMSC accepted
    peerMsgs,     \* requests the SMSC has sent so far
    stalled,      \* sessions whose buffers are full, for the SMSC does not read them
    stalls,       \* how often a write has met that
    torn          \* sessions on which a write was given up half-way

connVars == <<pc, session, alarm_active, alarm, received, connSeq, enquires, gauge>>
readVars == <<inbox, buffer, batch>>
reqVars  == <<rpc, seq, chan, wrote, callbacks>>
peerVars == <<open, atPeer, accepted, peerMsgs>>
flowVars == <<stalled, stalls, torn>>
vars == <<connVars, writer, lock, readVars, reqVars, nextSeq, peerVars, flowVars>>

NoSeq    == -1                   \* an empty oneshot channel
Sessions == 1 .. MaxSessions

ConnPcs == {"connect", "replace", "bindWrite", "bindWait", "main", "enquire", "retry"}
ReqPcs  == {"idle", "lockWait", "writing", "respWait", "ok", "error", "cancelled"}

\* PDUs the client writes that the SMSC is to answer, with the session they are on.
PeerPdu == [sess : Sessions, kind : {"bind", "req", "enquire"}, seq : Nat]
\* PDUs the SMSC sends. A "receipt" is a deliver_sm whose receipted_message_id
\* has a registered URL.
Pdu == [kind : {"bindOk", "bindFail", "resp", "nack", "enqResp",
                "enquire", "deliver", "receipt"}, seq : Nat]

\* The kinds of PDU process_in_message hands to the response manager.
ResponseKinds == {"bindOk", "bindFail", "resp"}
\* The kinds it answers itself, for which it has to lock the writer.
AnsweredKinds == {"enquire", "deliver"}

\* The bytes read from a socket hold the first n PDUs of what is in it.
Taken(s, n) == SubSeq(s, 1, n)
Rest(s, n)  == SubSeq(s, n + 1, Len(s))
-----------------------------------------------------------------------------
Init ==
    /\ pc = "connect" /\ session = 0
    /\ alarm_active = FALSE /\ alarm = 0
    /\ received = FALSE /\ connSeq = 0 /\ enquires = 0 /\ gauge = 0
    /\ writer = 0 /\ lock = NoOne
    /\ inbox = <<>> /\ buffer = <<>> /\ batch = <<>>
    /\ rpc = [r \in Requests |-> "idle"]
    /\ seq = [r \in Requests |-> 0]
    /\ chan = [r \in Requests |-> NoSeq]
    /\ wrote = [r \in Requests |-> 0]
    /\ nextSeq = 0
    /\ callbacks = {}
    /\ open = {} /\ atPeer = {} /\ accepted = {} /\ peerMsgs = 0
    /\ stalled = {} /\ stalls = 0 /\ torn = {}
-----------------------------------------------------------------------------
(***************************************************************************)
(* Writing. A write on an open session reaches the SMSC once it reads, but *)
(* means nothing to it after a PDU that was cut off. On a session the SMSC *)
(* has closed it either fails or is lost in the socket's send buffer.      *)
(***************************************************************************)
Blocked        == writer \in open \cap stalled
WriteStalls ==
    /\ writer \in open
    /\ \/ writer \in stalled /\ UNCHANGED <<stalled, stalls>>
       \/ /\ writer \notin stalled /\ stalls < MaxStalls
          /\ stalled' = stalled \cup {writer}
          /\ stalls' = stalls + 1
    /\ UNCHANGED torn
WriteOk(pdus)  == /\ ~Blocked
                  /\ atPeer' = IF writer \in open \ torn THEN atPeer \cup pdus ELSE atPeer
WriteFails     == writer \notin open /\ UNCHANGED atPeer

\* A session is closed: nothing that came in on it can be answered any more.
Close(s) ==
    /\ open' = open \ {s}
    /\ atPeer' = {m \in atPeer : m.sess # s}

(***************************************************************************)
(* The two ways connect_smsc_to ends, and what run() then does: after a    *)
(* lost link it always raises the alarm, after a failed attempt only when  *)
(* none is active. Then it sleeps ("retry"). The read half, the buffer and *)
(* messages_received are locals and go with it; the write half stays.      *)
(***************************************************************************)
DropLocals == inbox' = <<>> /\ buffer' = <<>> /\ received' = FALSE

LinkLost ==
    /\ pc' = "retry"
    /\ DropLocals
    /\ alarm_active' = IF HasNotifier THEN TRUE ELSE alarm_active
    /\ alarm' = IF HasNotifier THEN alarm + 1 ELSE alarm

\* Fault: the alarm is raised whether or not one is active.
AttemptFailedRaises ==
    /\ pc' = "retry"
    /\ DropLocals
    /\ alarm_active' = IF HasNotifier THEN TRUE ELSE alarm_active
    /\ alarm' = IF HasNotifier THEN alarm + 1 ELSE alarm

AttemptFailed ==
    /\ pc' = "retry"
    /\ DropLocals
    /\ alarm_active' = IF HasNotifier THEN TRUE ELSE alarm_active
    /\ alarm' = IF HasNotifier /\ ~alarm_active THEN alarm + 1 ELSE alarm

\* TcpStream::connect succeeds.
Connect ==
    /\ pc = "connect" /\ session < MaxSessions
    /\ pc' = "replace"
    /\ session' = session + 1
    /\ open' = open \cup {session + 1}
    /\ UNCHANGED <<alarm_active, alarm, received, connSeq, enquires, gauge, writer, lock,
                   readVars, reqVars, nextSeq, atPeer, accepted, peerMsgs, flowVars>>

\* TcpStream::connect fails.
ConnectFails ==
    /\ pc = "connect"
    /\ AttemptFailed
    /\ UNCHANGED <<session, connSeq, enquires, gauge, writer, lock, batch, reqVars, nextSeq,
                   peerVars, flowVars>>

\* Fault: the number before the one the allocator is at.
TakeSeqBefore == connSeq' = nextSeq - 1 /\ nextSeq' = nextSeq + 1

\* A sequence number for a PDU of the connection task's own.
TakeSeq == connSeq' = nextSeq /\ nextSeq' = nextSeq + 1

\* Fault: only an empty slot gets the new write half.
ReplaceWriterIfNone ==
    /\ pc = "replace" /\ lock = NoOne
    /\ writer' = IF writer = 0 THEN session ELSE writer
    /\ TakeSeq
    /\ pc' = "bindWrite"
    /\ UNCHANGED <<session, alarm_active, alarm, received, enquires, gauge, lock, readVars,
                   reqVars, open, atPeer, accepted, peerMsgs, flowVars>>

\* Lock the writer and store the new write half; the old one is dropped, which
\* closes the previous TCP connection. do_bind then creates the bind PDU.
ReplaceWriter ==
    /\ pc = "replace" /\ lock = NoOne
    /\ writer' = session
    /\ Close(writer)
    /\ TakeSeq
    /\ pc' = "bindWrite"
    /\ UNCHANGED <<session, alarm_active, alarm, received, enquires, gauge, lock, readVars,
                   reqVars, accepted, peerMsgs, flowVars>>

\* The connection task is to write: a bind, an enquire_link or an answer.
ToWrite ==
    \/ pc \in {"bindWrite", "enquire"}
    \/ pc = "main" /\ batch # <<>> /\ Head(batch).kind \in AnsweredKinds

\* It has locked the writer and waits in write_all for the SMSC to read.
TaskStalls ==
    /\ ToWrite /\ lock = NoOne /\ WriteStalls
    /\ lock' = Task
    /\ UNCHANGED <<connVars, writer, readVars, reqVars, nextSeq, peerVars>>

\* It writes with the lock, which is free again afterwards.
TakesLock == lock \in {NoOne, Task} /\ lock' = NoOne

\* do_bind: lock the writer and write the bind PDU.
BindWrite ==
    /\ pc = "bindWrite" /\ TakesLock
    /\ \/ /\ WriteOk({[sess |-> writer, kind |-> "bind", seq |-> connSeq]})
          /\ pc' = "bindWait"
          /\ UNCHANGED <<alarm_active, alarm, received, inbox, buffer>>
       \/ /\ WriteFails
          /\ AttemptFailed
    /\ UNCHANGED <<session, connSeq, enquires, gauge, writer, batch, reqVars, nextSeq, open,
                   accepted, peerMsgs, flowVars>>

\* do_bind reads and extracts one PDU: a successful bind response ends the
\* handshake, anything else is an error. What else was read stays in the buffer.
BindRead ==
    /\ pc = "bindWait" /\ inbox # <<>>
    /\ \/ /\ Head(inbox).kind = "bindOk"
          /\ \E n \in 1 .. Len(inbox) :
                /\ buffer' = Tail(Taken(inbox, n))
                /\ inbox' = Rest(inbox, n)
          /\ pc' = "main"
          /\ gauge' = gauge + 1
          /\ received' = FALSE
          /\ alarm_active' = FALSE
          /\ alarm' = IF alarm_active /\ HasNotifier THEN alarm - 1 ELSE alarm
       \/ /\ Head(inbox).kind # "bindOk"
          /\ AttemptFailed
          /\ UNCHANGED gauge
    /\ UNCHANGED <<session, connSeq, enquires, writer, lock, batch, reqVars, nextSeq,
                   peerVars, flowVars>>

\* The session_init_timer is started anew by every turn of do_bind's loop, so it
\* only expires when the socket is not readable.
BindTimeout ==
    /\ pc = "bindWait" /\ inbox = <<>> /\ session \in open
    /\ AttemptFailed
    /\ UNCHANGED <<session, connSeq, enquires, gauge, writer, lock, batch, reqVars, nextSeq,
                   peerVars, flowVars>>

\* At end of file the socket stays readable: try_read gives 0 bytes (or an error
\* do_bind ignores), nothing is extracted, and the loop goes round again.
BindSpin ==
    /\ pc = "bindWait" /\ inbox = <<>> /\ session \notin open
    /\ UNCHANGED vars

\* The main loop reads: every complete PDU is extracted, then processed in order.
Read ==
    /\ pc = "main" /\ batch = <<>> /\ inbox # <<>>
    /\ \E n \in 1 .. Len(inbox) :
          /\ batch' = buffer \o Taken(inbox, n)
          /\ inbox' = Rest(inbox, n)
    /\ buffer' = <<>>
    /\ received' = TRUE
    /\ UNCHANGED <<pc, session, alarm_active, alarm, connSeq, enquires, gauge, writer, lock,
                   reqVars, nextSeq, peerVars, flowVars>>

\* The socket is closed or reset: leave the loop.
ReadFails ==
    /\ pc = "main" /\ batch = <<>> /\ session \notin open
    /\ gauge' = gauge - 1
    /\ LinkLost
    /\ UNCHANGED <<session, connSeq, enquires, writer, lock, batch, reqVars, nextSeq,
                   peerVars, flowVars>>

\* Fault: the callback is looked up but not removed.
ResponseReceivedKeeps(n) ==
    /\ UNCHANGED callbacks
    /\ chan' = [r \in Requests |-> IF [seq |-> n, req |-> r] \in callbacks THEN n ELSE chan[r]]

\* ResponseManager::response_received: remove the callback and send the response
\* to the task that registered it; a response nobody waits for is dropped.
ResponseReceived(n) ==
    /\ callbacks' = {c \in callbacks : c.seq # n}
    /\ chan' = [r \in Requests |-> IF [seq |-> n, req |-> r] \in callbacks THEN n ELSE chan[r]]

\* process_in_message on a response.
ProcessResponse ==
    /\ pc = "main" /\ batch # <<>> /\ Head(batch).kind \in ResponseKinds
    /\ ResponseReceived(Head(batch).seq)
    /\ batch' = Tail(batch)
    /\ UNCHANGED <<connVars, writer, lock, inbox, buffer, rpc, seq, wrote, nextSeq,
                   peerVars, flowVars>>

\* process_in_message on an enquire_link or a deliver_sm: the answer is written
\* under the writer lock; a failed write is only logged.
ProcessRequest ==
    /\ pc = "main" /\ batch # <<>> /\ Head(batch).kind \in AnsweredKinds
    /\ TakesLock /\ ~Blocked
    /\ batch' = Tail(batch)
    /\ UNCHANGED <<connVars, writer, inbox, buffer, reqVars, nextSeq, peerVars, flowVars>>

\* process_in_message on what needs neither: enquire_link_resp and generic_nack are
\* logged, a receipt with a registered URL is posted and not answered.
ProcessOther ==
    /\ pc = "main" /\ batch # <<>>
    /\ Head(batch).kind \notin ResponseKinds \cup AnsweredKinds
    /\ batch' = Tail(batch)
    /\ UNCHANGED <<connVars, writer, lock, inbox, buffer, reqVars, nextSeq, peerVars,
                   flowVars>>

\* The enquire_link timer fires; the PDU is written once the lock is free.
EnquireTick ==
    /\ pc = "main" /\ batch = <<>> /\ enquires < MaxEnquires
    /\ enquires' = enquires + 1
    /\ TakeSeq
    /\ pc' = "enquire"
    /\ UNCHANGED <<session, alarm_active, alarm, received, gauge, writer, lock, readVars,
                   reqVars, peerVars, flowVars>>

\* send_enquire_link: a failed write leaves connect_smsc_to through `?`.
EnquireWrite ==
    /\ pc = "enquire" /\ TakesLock
    /\ \/ /\ WriteOk({[sess |-> writer, kind |-> "enquire", seq |-> connSeq]})
          /\ pc' = "main"
          /\ UNCHANGED <<alarm_active, alarm, received, inbox, buffer>>
       \/ /\ WriteFails
          /\ AttemptFailed
    /\ UNCHANGED <<session, connSeq, enquires, gauge, writer, batch, reqVars, nextSeq, open,
                   accepted, peerMsgs, flowVars>>

\* The inactivity timer fires: leave the loop if nothing was read since last time.
InactiveTick ==
    /\ pc = "main" /\ batch = <<>>
    /\ \/ /\ received
          /\ received' = FALSE
          /\ UNCHANGED <<pc, alarm_active, alarm, gauge, inbox, buffer>>
       \/ /\ ~received
          /\ gauge' = gauge - 1
          /\ LinkLost
    /\ UNCHANGED <<session, connSeq, enquires, writer, lock, batch, reqVars, nextSeq,
                   peerVars, flowVars>>

\* The five seconds' sleep is over.
Retry ==
    /\ pc = "retry"
    /\ pc' = "connect"
    /\ UNCHANGED <<session, alarm_active, alarm, received, connSeq, enquires, gauge, writer,
                   lock, readVars, reqVars, nextSeq, peerVars, flowVars>>

ConnStep ==
    \/ Connect \/ ConnectFails \/ ReplaceWriter
    \/ TaskStalls \/ BindWrite \/ BindRead \/ BindTimeout \/ BindSpin
    \/ Read \/ ReadFails \/ ProcessResponse \/ ProcessRequest \/ ProcessOther
    \/ EnquireTick \/ EnquireWrite \/ InactiveTick \/ Retry
-----------------------------------------------------------------------------
(***************************************************************************)
(* REST requests.                                                          *)
(***************************************************************************)

\* Fault: the number is read from the allocator and not taken.
SubmitPeeks(r) ==
    /\ rpc[r] = "idle"
    /\ seq' = [seq EXCEPT ![r] = nextSeq]
    /\ callbacks' = {c \in callbacks : c.seq # nextSeq} \cup {[seq |-> nextSeq, req |-> r]}
    /\ rpc' = [rpc EXCEPT ![r] = "lockWait"]
    /\ UNCHANGED <<connVars, writer, lock, readVars, chan, wrote, nextSeq, peerVars,
                   flowVars>>

\* smpp_api_handler takes a sequence number; send_message registers the callback.
Submit(r) ==
    /\ rpc[r] = "idle"
    /\ seq' = [seq EXCEPT ![r] = nextSeq]
    /\ nextSeq' = nextSeq + 1
    /\ callbacks' = {c \in callbacks : c.seq # nextSeq} \cup {[seq |-> nextSeq, req |-> r]}
    /\ rpc' = [rpc EXCEPT ![r] = "lockWait"]
    /\ UNCHANGED <<connVars, writer, lock, readVars, chan, wrote, peerVars, flowVars>>

\* Leave send_message with the given outcome, dropping the lock if it is held.
Finish(r, outcome) ==
    /\ rpc' = [rpc EXCEPT ![r] = outcome]
    /\ lock' = IF lock = r THEN NoOne ELSE lock

\* The lock is granted, but the SMSC does not read: the write lasts, under the lock.
LockAndStall(r) ==
    /\ rpc[r] = "lockWait" /\ lock = NoOne /\ WriteStalls
    /\ lock' = r
    /\ rpc' = [rpc EXCEPT ![r] = "writing"]
    /\ UNCHANGED <<connVars, writer, readVars, seq, chan, wrote, callbacks, nextSeq, peerVars>>

\* The lock is granted, or was when the write began.
HasLock(r) ==
    \/ rpc[r] = "lockWait" /\ lock = NoOne
    \/ rpc[r] = "writing"

\* Fault: the lock is released between the write and the wait.
LockAndWriteReleases(r) ==
    /\ HasLock(r) /\ writer # 0
    /\ WriteOk({[sess |-> writer, kind |-> "req", seq |-> seq[r]]})
    /\ lock' = NoOne
    /\ rpc' = [rpc EXCEPT ![r] = "respWait"]
    /\ wrote' = [wrote EXCEPT ![r] = writer]
    /\ UNCHANGED <<connVars, writer, readVars, seq, chan, callbacks, nextSeq, open,
                   accepted, peerMsgs, flowVars>>

\* With the lock the PDU is written: the request keeps the lock and waits.
LockAndWrite(r) ==
    /\ HasLock(r) /\ writer # 0
    /\ WriteOk({[sess |-> writer, kind |-> "req", seq |-> seq[r]]})
    /\ lock' = r
    /\ rpc' = [rpc EXCEPT ![r] = "respWait"]
    /\ wrote' = [wrote EXCEPT ![r] = writer]
    /\ UNCHANGED <<connVars, writer, readVars, seq, chan, callbacks, nextSeq, open,
                   accepted, peerMsgs, flowVars>>

\* The lock is granted but there is no writer yet, or the write fails.
LockAndFail(r) ==
    /\ HasLock(r)
    /\ writer = 0 \/ writer \notin open
    /\ Finish(r, "error")
    /\ UNCHANGED <<connVars, writer, readVars, seq, chan, wrote, callbacks, nextSeq,
                   peerVars, flowVars>>

\* Fault: an empty channel passes for a response.
ReceiveResponseEmpty(r) ==
    /\ rpc[r] = "respWait"
    /\ Finish(r, "ok")
    /\ UNCHANGED <<connVars, writer, readVars, seq, chan, wrote, callbacks, nextSeq,
                   peerVars, flowVars>>

\* wait_response: the response is in the channel.
ReceiveResponse(r) ==
    /\ rpc[r] = "respWait" /\ chan[r] # NoSeq
    /\ Finish(r, "ok")
    /\ UNCHANGED <<connVars, writer, readVars, seq, chan, wrote, callbacks, nextSeq,
                   peerVars, flowVars>>

\* Fault: the time-out leaves the writer locked.
ResponseTimeoutLocked(r) ==
    /\ rpc[r] = "respWait" /\ chan[r] = NoSeq
    /\ rpc' = [rpc EXCEPT ![r] = "error"]
    /\ UNCHANGED <<connVars, writer, lock, readVars, seq, chan, wrote, callbacks, nextSeq,
                   peerVars, flowVars>>

\* wait_response: response_timer expires with the channel empty. The callback stays.
ResponseTimeout(r) ==
    /\ rpc[r] = "respWait" /\ chan[r] = NoSeq
    /\ Finish(r, "error")
    /\ UNCHANGED <<connVars, writer, readVars, seq, chan, wrote, callbacks, nextSeq,
                   peerVars, flowVars>>

\* The HTTP client goes away: the handler's future is dropped, and with it the lock. What
\* write_all has written by then stays written.
Cancel(r) ==
    /\ rpc[r] \in {"lockWait", "writing", "respWait"}
    /\ Finish(r, "cancelled")
    /\ \/ UNCHANGED torn
       \/ rpc[r] = "writing" /\ torn' = torn \cup {writer}
    /\ UNCHANGED <<connVars, writer, readVars, seq, chan, wrote, callbacks, nextSeq,
                   peerVars, stalled, stalls>>

RequestStep(r) ==
    \/ Submit(r) \/ LockAndStall(r) \/ LockAndWrite(r) \/ LockAndFail(r)
    \/ ReceiveResponse(r) \/ ResponseTimeout(r) \/ Cancel(r)
-----------------------------------------------------------------------------
(***************************************************************************)
(* The SMSC. What it sends reaches the socket of the session it is for;    *)
(* once the connection task has dropped its read half nobody reads it.     *)
(***************************************************************************)
Reading == pc \notin {"connect", "retry"}

AnswerKinds == {"bindOk", "bindFail", "resp", "nack", "enqResp"}

Answers(kind) == CASE kind = "bind"    -> {"bindOk", "bindFail"}
                   [] kind = "req"     -> {"resp", "nack"}
                   [] kind = "enquire" -> {"enqResp"}

PeerAnswer(m, k) ==
    /\ k \in Answers(m.kind)
    /\ atPeer' = atPeer \ {m}
    /\ accepted' = IF k = "bindOk" THEN accepted \cup {m.sess} ELSE accepted
    /\ inbox' = IF m.sess = session /\ Reading
                THEN Append(inbox, [kind |-> k, seq |-> m.seq])
                ELSE inbox
    /\ UNCHANGED <<connVars, writer, lock, buffer, batch, reqVars, nextSeq, open, peerMsgs,
                   flowVars>>

\* The SMSC sends an enquire_link once it has seen the bind, and messages once it
\* has accepted it. Its sequence numbers are its own; they are never looked up.
PeerRequest(k) ==
    /\ peerMsgs < MaxPeerMsgs
    /\ session \in open /\ Reading
    /\ \/ session \in accepted
       \/ k = "enquire" /\ \E m \in atPeer : m.kind = "bind" /\ m.sess = session
    /\ inbox' = Append(inbox, [kind |-> k, seq |-> 0])
    /\ peerMsgs' = peerMsgs + 1
    /\ UNCHANGED <<connVars, writer, lock, buffer, batch, reqVars, nextSeq, open, atPeer,
                   accepted, flowVars>>

PeerClose ==
    /\ \E s \in open : Close(s)
    /\ UNCHANGED <<connVars, writer, lock, readVars, reqVars, nextSeq, accepted, peerMsgs,
                   flowVars>>

\* The SMSC reads on from a session.
PeerReads ==
    /\ \E s \in stalled : stalled' = stalled \ {s}
    /\ UNCHANGED <<connVars, writer, lock, readVars, reqVars, nextSeq, peerVars, stalls, torn>>

PeerStep ==
    \/ \E m \in atPeer, k \in AnswerKinds : PeerAnswer(m, k)
    \/ \E k \in {"enquire", "deliver", "receipt"} : PeerRequest(k)
    \/ PeerClose \/ PeerReads
-----------------------------------------------------------------------------
Next == ConnStep \/ PeerStep \/ \E r \in Requests : RequestStep(r)

Spec == Init /\ [][Next]_vars

(***************************************************************************)
(* Tokio polls every task that can make progress, and timers expire. The   *)
(* SMSC, the HTTP clients and the moment a request is made are not fair.   *)
(***************************************************************************)
Fairness ==
    /\ WF_vars(ConnStep)
    /\ \A r \in Requests :
          /\ WF_vars(LockAndStall(r) \/ LockAndWrite(r) \/ LockAndFail(r))
          /\ WF_vars(ReceiveResponse(r))
          /\ WF_vars(ResponseTimeout(r))

FairSpec == Spec /\ Fairness
-----------------------------------------------------------------------------
(***************************************************************************)
(* Properties.                                                             *)
(***************************************************************************)

\* Every variable keeps the type the code gives it.
TypeOK ==
    /\ pc \in ConnPcs /\ session \in 0 .. MaxSessions
    /\ alarm_active \in BOOLEAN /\ alarm \in Int
    /\ received \in BOOLEAN /\ connSeq \in Nat /\ enquires \in 0 .. MaxEnquires /\ gauge \in Int
    /\ writer \in 0 .. MaxSessions /\ lock \in Requests \cup {Task, NoOne}
    /\ inbox \in Seq(Pdu) /\ buffer \in Seq(Pdu) /\ batch \in Seq(Pdu)
    /\ rpc \in [Requests -> ReqPcs]
    /\ seq \in [Requests -> Nat]
    /\ chan \in [Requests -> Nat \cup {NoSeq}]
    /\ wrote \in [Requests -> 0 .. MaxSessions]
    /\ nextSeq \in Nat
    /\ callbacks \subseteq [seq : Nat, req : Requests]
    /\ open \subseteq Sessions /\ atPeer \subseteq PeerPdu
    /\ accepted \subseteq Sessions /\ peerMsgs \in 0 .. MaxPeerMsgs
    /\ stalled \subseteq Sessions /\ stalls \in 0 .. MaxStalls /\ torn \subseteq 0 .. MaxSessions

\* send_message returns to a REST caller only a response with the sequence number
\* of its own request, and only if that request was really written to the SMSC:
\* leaked callbacks, late responses, responses to binds, cancelled callers and a
\* reconnect in between never let one caller see the answer meant for another.
ResponseBelongsToRequest ==
    \A r \in Requests :
        chan[r] # NoSeq => chan[r] = seq[r] /\ wrote[r] # 0

\* A callback is the claim of one request that has not been answered: registering
\* never evicts another caller's callback, and no request is answered twice.
CallbackUnanswered ==
    \A c \in callbacks :
        /\ c.seq = seq[c.req]
        /\ rpc[c.req] \notin {"idle", "ok"}
        /\ chan[c.req] = NoSeq

\* The stored write half belongs to the session that is being read from the moment
\* do_bind starts until connect_smsc_to returns, so answers to the SMSC's requests
\* and enquire_links are never written to a connection of the past.
WriterIsCurrent ==
    pc \in {"bindWrite", "bindWait", "main", "enquire"} => writer = session

\* The alarm receiver sees raised and cleared alternate, and what it saw last is true
\* of the link: one alarm per outage however many attempts fail and whichever way
\* they fail, raised whenever the task sleeps between two attempts, none on a bound
\* link.
AlarmMatchesLink ==
    /\ alarm \in {0, 1}
    /\ pc \in {"main", "enquire"} => alarm = 0
    /\ pc = "retry" /\ HasNotifier => alarm = 1

\* send_message keeps the writer locked until it has its response: while a request
\* waits no other PDU that wants an answer goes out on the connection.
NoWriteWhileWaiting ==
    [][\A r \in Requests :
          rpc[r] = "respWait" /\ rpc'[r] = "respWait" => atPeer' \subseteq atPeer]_vars

\* Every REST request gets an answer if the SMSC reads on in the end, however often it
\* stops before, and whether or not it answers: response_timer frees the lock, and a write
\* that waited for the SMSC, of this or another task, goes on. (While the SMSC does not
\* read, nothing ends the write, and everyone behind the lock waits with it.)
EveryRequestEnds ==
    <>[](open \cap stalled = {}) =>
        \A r \in Requests :
            rpc[r] = "lockWait" ~> rpc[r] \in {"ok", "error", "cancelled"}

\* The connection implements the exchange: whatever the lock, the reconnects and the
\* SMSC do, send_message is one write, at most one answer, and one outcome.
Exchange == INSTANCE SmppExchange WITH
    Calls    <- Requests,
    status   <- [r \in Requests |->
                    IF rpc[r] \in {"lockWait", "writing", "respWait"} THEN "pending" ELSE rpc[r]],
    written  <- {r \in Requests : wrote[r] # 0},
    answered <- {r \in Requests : chan[r] # NoSeq}

\* send_message implements its abstract specification SmppExchange.
ImplementsExchange == Exchange!Spec

(***************************************************************************)
(* The inductive invariant behind the exchange. Sequence numbers are taken *)
(* once: every PDU on its way from or to the client carries either the     *)
(* number of the one request that wrote it, or a number no request has.    *)
(***************************************************************************)
Started(r) == rpc[r] # "idle"

\* n was taken by a request whose PDU was written.
IsRequestSeq(n) == \E r \in Requests : Started(r) /\ seq[r] = n /\ wrote[r] # 0
\* n was taken, by the connection task.
IsConnSeq(n) == n < nextSeq /\ \A r \in Requests : Started(r) => seq[r] # n

SentPdu(m) == IF m.kind = "req" THEN IsRequestSeq(m.seq) ELSE IsConnSeq(m.seq)
ReceivedPdu(p) ==
    /\ p.kind = "resp" => IsRequestSeq(p.seq)
    /\ p.kind \in {"bindOk", "bindFail"} => IsConnSeq(p.seq)
AllReceived(s) == \A i \in 1 .. Len(s) : ReceivedPdu(s[i])

SeqsTakenOnce ==
    /\ \A r \in Requests : Started(r) => seq[r] < nextSeq
    /\ \A r, q \in Requests : Started(r) /\ Started(q) /\ seq[r] = seq[q] => r = q
    /\ pc \in {"bindWrite", "enquire"} => IsConnSeq(connSeq)

PdusAccountedFor ==
    /\ \A m \in atPeer : SentPdu(m)
    /\ AllReceived(inbox) /\ AllReceived(buffer) /\ AllReceived(batch)

RequestStages ==
    \A r \in Requests :
        /\ rpc[r] = "idle" => chan[r] = NoSeq
        /\ rpc[r] \in {"idle", "lockWait", "writing"} => wrote[r] = 0
        /\ rpc[r] \in {"writing", "respWait"} <=> lock = r

\* send_message matches responses to requests because sequence numbers are taken
\* once and each callback stays with the request that registered it.
ExchangeInv ==
    /\ SeqsTakenOnce /\ PdusAccountedFor /\ RequestStages
    /\ CallbackUnanswered /\ ResponseBelongsToRequest

(***************************************************************************)
(* What comments in the code say of it and the code does not keep.         *)
(***************************************************************************)

\* do_bind returns: "Ok(()) if bind succeeds, or an error if it fails".
BindReturns == pc = "bindWait" ~> pc # "bindWait"
=============================================================================
