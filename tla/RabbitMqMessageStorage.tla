----------------------- MODULE RabbitMqMessageStorage -----------------------
(***************************************************************************)
(* The RabbitMQ message store of the server role (RabbitMqMessageStorage   *)
(* in message_storage.rs): connection tasks that save, cancel and replace  *)
(* messages, and the task that consumes the queue.                         *)
(*                                                                         *)
(* The broker is external. It keeps a durable queue, pushes what is in it  *)
(* to the consumer without a limit, and puts back what is not acknowledged *)
(* when the connection ends. The channel is not in confirm mode: save does *)
(* not learn when, or whether, the broker has the message. The consumer    *)
(* ends with its connection and nothing starts it again but a restart of   *)
(* the process. The indexes are lists in memory.                           *)
(***************************************************************************)
EXTENDS Integers, Sequences, FiniteSets, SequencesExt

CONSTANTS
    Messages,          \* messages to save
    Cancels,           \* cancel_sm requests
    Attr,              \* fields of a message: id, user, times
    IdOf,              \* the message id a cancel_sm names
    Ids, Users,        \* message ids; destination addresses
    NoField,           \* a field that is empty; no message
    DefaultValidity,   \* default_validity_period
    MaxTime,           \* bound: the clock
    MaxFaults          \* bound: crashes, lost connections and handler failures together

NoTime  == -1          \* None, a missing field
BadTime == -2          \* a field that is no time (the empty string, for one)
OptTime == (0 .. MaxTime) \cup {NoTime}

\* A schedule_delivery_time that is no time counts as missing.
ASSUME RabbitAssumption ==
    /\ Attr \in [Messages -> [id : Ids, user : Users \cup {NoField}, sched : OptTime,
                              validity : OptTime \cup {BadTime}]]
    /\ IdOf \in [Cancels -> Ids \cup {NoField}]
    /\ NoField \notin Ids \cup Users \cup Messages
    /\ DefaultValidity \in Nat /\ MaxTime \in Nat \ {0} /\ MaxFaults \in Nat

VARIABLES
    now,           \* the clock
    link,          \* the connection to the broker: "up" or "lost"
    wire,          \* messages published and not yet at the broker
    queue,         \* messages in the queue, ready to be delivered
    unacked,       \* messages the broker has delivered on this connection
    stream,        \* deliveries the consumer has not looked at
    message_index, \* messages with an entry under their id
    user_index,    \* messages with an entry under their user
    lock,          \* the save that holds the channel
    validity,      \* the validity_period in the envelope
    spc,           \* where each save is, or what it returned
    cpc,           \* what each cancel has returned
    lpc,           \* where the consumer is
    cur,           \* the message it has taken
    deliveries,    \* history: how often a message was handed over with success
    lost,          \* history: messages that were on the wire when the connection ended
    crashes,       \* how often the process has crashed,
    losses,        \* the connection was lost,
    handlerErrors  \* and the handler has failed

brokerVars == <<link, wire, queue, unacked, stream>>
indexVars == <<message_index, user_index>>
saveVars == <<lock, validity, spc>>
loopVars == <<lpc, cur, deliveries>>
countVars == <<crashes, losses, handlerErrors>>
vars == <<now, brokerVars, indexVars, saveVars, cpc, loopVars, lost, countVars>>

Init ==
    /\ now = 1
    /\ link = "up" /\ wire = {} /\ queue = {} /\ unacked = {} /\ stream = <<>>
    /\ message_index = {} /\ user_index = {}
    /\ lock = NoField /\ validity = [m \in Messages |-> NoTime]
    /\ spc = [m \in Messages |-> "idle"] /\ cpc = [c \in Cancels |-> "idle"]
    /\ lpc = "next" /\ cur = NoField
    /\ deliveries = [m \in Messages |-> 0] /\ lost = {}
    /\ crashes = 0 /\ losses = 0 /\ handlerErrors = 0

CanFail == crashes + losses + handlerErrors < MaxFaults

Tick ==
    /\ now < MaxTime
    /\ now' = now + 1
    /\ UNCHANGED <<brokerVars, indexVars, saveVars, cpc, loopVars, lost, countVars>>
-----------------------------------------------------------------------------
(***************************************************************************)
(* The broker.                                                             *)
(***************************************************************************)
BrokerTakes(m) ==
    /\ m \in wire
    /\ wire' = wire \ {m} /\ queue' = queue \cup {m}
    /\ UNCHANGED <<now, link, unacked, stream, indexVars, saveVars, cpc, loopVars, lost,
                   countVars>>

BrokerPushes(m) ==
    /\ link = "up" /\ m \in queue
    /\ queue' = queue \ {m} /\ unacked' = unacked \cup {m}
    /\ stream' = Append(stream, m)
    /\ UNCHANGED <<now, link, wire, indexVars, saveVars, cpc, loopVars, lost, countVars>>

\* The connection ends: what was not acknowledged goes back into the queue, what was on
\* its way to the broker is gone.
Disconnect ==
    /\ queue' = queue \cup unacked /\ unacked' = {}
    /\ wire' = {} /\ lost' = lost \cup wire

\* The consumer still gets the deliveries that had come in.
ConnectionLost ==
    /\ link = "up" /\ CanFail
    /\ link' = "lost"
    /\ losses' = losses + 1
    /\ Disconnect
    /\ UNCHANGED <<now, stream, indexVars, saveVars, cpc, loopVars, crashes, handlerErrors>>

\* basic_ack; without a connection it fails, which is ignored.
Ack(m) == unacked' = unacked \ {m} /\ UNCHANGED queue

\* Fault: the broker is told not to requeue.
NackDrops(m) == unacked' = unacked \ {m} /\ UNCHANGED queue

\* basic_nack with requeue, the same.
Nack(m) ==
    /\ queue' = IF m \in unacked THEN queue \cup {m} ELSE queue
    /\ unacked' = unacked \ {m}
-----------------------------------------------------------------------------
(***************************************************************************)
(* save. The channel stays locked until it returns.                        *)
(***************************************************************************)

\* get_validity_period; an error leaves the message without one.
ValidityOf(m) ==
    LET a == Attr[m]
    IN  CASE a.validity = NoTime  -> (IF a.sched = NoTime THEN now ELSE a.sched) + DefaultValidity
          [] a.validity = BadTime -> NoTime
          [] OTHER -> a.validity

Acceptable(m) ==
    /\ Attr[m].user # NoField
    /\ Attr[m].sched = NoTime \/ Attr[m].sched >= now
    /\ Attr[m].sched # NoTime \/ ValidityOf(m) # NoTime

\* The envelope is made and the channel asked for.
SaveStart(m) ==
    /\ spc[m] = "idle"
    /\ spc' = [spc EXCEPT ![m] = IF Acceptable(m) THEN "publish" ELSE "error"]
    /\ validity' = [validity EXCEPT ![m] = ValidityOf(m)]
    /\ UNCHANGED <<now, brokerVars, indexVars, lock, cpc, loopVars, lost, countVars>>

\* basic_publish, once the channel is free: it fails if the connection is lost.
Publish(m) ==
    /\ spc[m] = "publish" /\ lock = NoField
    /\ \/ /\ link = "up"
          /\ wire' = wire \cup {m}
          /\ lock' = m
          /\ spc' = [spc EXCEPT ![m] = "index"]
       \/ /\ link = "lost"
          /\ spc' = [spc EXCEPT ![m] = "error"]
          /\ UNCHANGED <<wire, lock>>
    /\ UNCHANGED <<now, link, queue, unacked, stream, indexVars, validity, cpc, loopVars, lost,
                   countVars>>

\* The two indexes are filled one after the other.
IndexMessage(m) ==
    /\ spc[m] = "index"
    /\ message_index' = message_index \cup {m}
    /\ spc' = [spc EXCEPT ![m] = "user"]
    /\ UNCHANGED <<now, brokerVars, user_index, lock, validity, cpc, loopVars, lost, countVars>>

IndexUser(m) ==
    /\ spc[m] = "user"
    /\ user_index' = user_index \cup {m}
    /\ lock' = NoField
    /\ spc' = [spc EXCEPT ![m] = "ok"]
    /\ UNCHANGED <<now, brokerVars, message_index, validity, cpc, loopVars, lost, countVars>>

SaveStep(m) == SaveStart(m) \/ Publish(m) \/ IndexMessage(m) \/ IndexUser(m)
-----------------------------------------------------------------------------
(***************************************************************************)
(* cancel_message: it takes the entries of the id out of the indexes. The  *)
(* message stays in the queue. replace_message reads the index and changes *)
(* nothing.                                                                *)
(***************************************************************************)
CancelMessage(c) ==
    /\ cpc[c] = "idle"
    /\ LET entries == {m \in message_index : Attr[m].id = IdOf[c]}
       IN  /\ cpc' = [cpc EXCEPT ![c] = IF IdOf[c] = NoField THEN "error"
                                      ELSE IF entries = {} THEN "false" ELSE "true"]
           /\ message_index' = message_index \ entries
           /\ user_index' = {u \in user_index :
                                ~\E m \in entries : Attr[u].id = Attr[m].id
                                                    /\ Attr[u].user = Attr[m].user}
    /\ UNCHANGED <<now, brokerVars, saveVars, loopVars, lost, countVars>>
-----------------------------------------------------------------------------
(***************************************************************************)
(* The consumer.                                                           *)
(***************************************************************************)
NotYetDue(m) == Attr[m].sched # NoTime /\ Attr[m].sched > now
Expired(m)   == validity[m] # NoTime /\ validity[m] < now

\* Fault: the loop is left, not continued, when a message is not due.
TakeNextReturns ==
    /\ lpc = "next" /\ stream # <<>>
    /\ LET m == Head(stream)
       IN  /\ stream' = Tail(stream)
           /\ IF NotYetDue(m) THEN Nack(m) ELSE UNCHANGED <<queue, unacked>>
           /\ cur' = IF NotYetDue(m) THEN NoField ELSE m
           /\ lpc' = IF NotYetDue(m) THEN "ended" ELSE IF Expired(m) THEN "ack" ELSE "handle"
    /\ UNCHANGED <<now, link, wire, indexVars, saveVars, cpc, deliveries, lost, countVars>>

\* Fault: a message that is not due is published again and its delivery left unanswered.
TakeNextRepublishes ==
    /\ lpc = "next" /\ stream # <<>>
    /\ LET m == Head(stream)
       IN  /\ stream' = Tail(stream)
           /\ wire' = IF NotYetDue(m) /\ link = "up" THEN wire \cup {m} ELSE wire
           /\ cur' = IF NotYetDue(m) THEN NoField ELSE m
           /\ lpc' = IF NotYetDue(m) THEN "sleep" ELSE IF Expired(m) THEN "ack" ELSE "handle"
    /\ UNCHANGED <<now, link, queue, unacked, indexVars, saveVars, cpc, deliveries, lost,
                   countVars>>

\* The next delivery: one that is not due goes back into the queue, an expired one is
\* acknowledged, any other handed over.
TakeNext ==
    /\ lpc = "next" /\ stream # <<>>
    /\ LET m == Head(stream)
       IN  /\ stream' = Tail(stream)
           /\ IF NotYetDue(m) THEN Nack(m) ELSE UNCHANGED <<queue, unacked>>
           /\ cur' = IF NotYetDue(m) THEN NoField ELSE m
           /\ lpc' = IF NotYetDue(m) THEN "sleep" ELSE IF Expired(m) THEN "ack" ELSE "handle"
    /\ UNCHANGED <<now, link, wire, indexVars, saveVars, cpc, deliveries, lost, countVars>>

\* The second's sleep is over.
WakeUp ==
    /\ lpc = "sleep"
    /\ lpc' = "next"
    /\ UNCHANGED <<now, brokerVars, indexVars, saveVars, cpc, cur, deliveries, lost, countVars>>

\* The stream ends with the connection, and the task with it.
ConsumerEnds ==
    /\ lpc = "next" /\ stream = <<>> /\ link = "lost"
    /\ lpc' = "ended"
    /\ UNCHANGED <<now, brokerVars, indexVars, saveVars, cpc, cur, deliveries, lost, countVars>>

\* The handler takes the message.
Handled ==
    /\ lpc = "handle"
    /\ deliveries' = [deliveries EXCEPT ![cur] = @ + 1]
    /\ lpc' = "ack"
    /\ UNCHANGED <<now, brokerVars, indexVars, saveVars, cpc, cur, lost, countVars>>

\* Fault: an error is reported for a message that was delivered.
HandlerFailsLate ==
    /\ lpc = "handle" /\ CanFail
    /\ handlerErrors' = handlerErrors + 1
    /\ deliveries' = [deliveries EXCEPT ![cur] = @ + 1]
    /\ Nack(cur)
    /\ lpc' = "next" /\ cur' = NoField
    /\ UNCHANGED <<now, link, wire, stream, indexVars, saveVars, cpc, lost, crashes, losses>>

\* The message goes back into the queue.
HandlerFails ==
    /\ lpc = "handle" /\ CanFail
    /\ handlerErrors' = handlerErrors + 1
    /\ Nack(cur)
    /\ lpc' = "next" /\ cur' = NoField
    /\ UNCHANGED <<now, link, wire, stream, indexVars, saveVars, cpc, deliveries, lost, crashes,
                   losses>>

AckCurrent ==
    /\ lpc = "ack"
    /\ Ack(cur)
    /\ lpc' = "clean"
    /\ UNCHANGED <<now, link, wire, stream, indexVars, saveVars, cpc, cur, deliveries, lost,
                   countVars>>

\* Both indexes are locked: all entries of the id go, and those of the user with it.
CleanIndex ==
    /\ lpc = "clean"
    /\ message_index' = {m \in message_index : Attr[m].id # Attr[cur].id}
    /\ user_index' = {m \in user_index : \/ Attr[m].id # Attr[cur].id
                                         \/ Attr[m].user # Attr[cur].user}
    /\ lpc' = "next" /\ cur' = NoField
    /\ UNCHANGED <<now, brokerVars, saveVars, cpc, deliveries, lost, countVars>>

LoopStep == TakeNext \/ WakeUp \/ ConsumerEnds \/ Handled \/ AckCurrent \/ CleanIndex

\* The process stops and is started again: the queue is all that is left.
Crash ==
    /\ CanFail
    /\ crashes' = crashes + 1
    /\ Disconnect
    /\ link' = "up" /\ stream' = <<>>
    /\ message_index' = {} /\ user_index' = {} /\ lock' = NoField
    /\ spc' = [m \in Messages |-> IF spc[m] \in {"idle", "ok"} THEN spc[m] ELSE "error"]
    /\ lpc' = "next" /\ cur' = NoField
    /\ UNCHANGED <<now, validity, cpc, deliveries, losses, handlerErrors>>
-----------------------------------------------------------------------------
Next ==
    \/ Tick \/ LoopStep \/ HandlerFails \/ ConnectionLost \/ Crash
    \/ \E m \in Messages : SaveStep(m) \/ BrokerTakes(m) \/ BrokerPushes(m)
    \/ \E c \in Cancels : CancelMessage(c)

Spec == Init /\ [][Next]_vars

(***************************************************************************)
(* The consumer takes its steps and the broker hands out what it has;      *)
(* callers, the clock and failures owe nothing.                            *)
(***************************************************************************)
Fairness ==
    /\ WF_vars(LoopStep)
    /\ \A m \in Messages : WF_vars(BrokerPushes(m))

FairSpec == Spec /\ Fairness
-----------------------------------------------------------------------------
(***************************************************************************)
(* Properties.                                                             *)
(***************************************************************************)

\* Every variable keeps its type; a message is in one place at the broker.
TypeOK ==
    /\ now \in 1 .. MaxTime /\ link \in {"up", "lost"}
    /\ wire \subseteq Messages /\ queue \subseteq Messages /\ unacked \subseteq Messages
    /\ queue \cap unacked = {} /\ wire \cap (queue \cup unacked) = {}
    /\ stream \in Seq(Messages) /\ IsInjective(stream)
    /\ message_index \subseteq Messages /\ user_index \subseteq Messages /\ lost \subseteq Messages
    /\ lock \in Messages \cup {NoField} /\ cur \in Messages \cup {NoField}
    /\ validity \in [Messages -> Int]
    /\ spc \in [Messages -> {"idle", "publish", "index", "user", "ok", "error"}]
    /\ cpc \in [Cancels -> {"idle", "true", "false", "error"}]
    /\ lpc \in {"next", "sleep", "handle", "ack", "clean", "ended"}
    /\ deliveries \in [Messages -> Nat]
    /\ crashes \in Nat /\ losses \in Nat /\ handlerErrors \in Nat

\* A message that save accepted is on its way to the broker or held by it until it was
\* delivered or has expired. Only one that was still on the wire when the connection or
\* the process ended is gone, which save does not notice.
NoSilentLoss ==
    \A m \in Messages : spc[m] = "ok" =>
        \/ m \in wire \cup queue \cup unacked
        \/ deliveries[m] > 0 \/ Expired(m) \/ m \in lost

\* A message is handed over once, and once more only for every restart: a lost connection
\* puts it back while the consumer has it, but nothing reads the queue before a restart.
DeliveredOnce == \A m \in Messages : deliveries[m] <= 1 + crashes

\* A message the broker has that is due leaves it in the end, whatever else is in the
\* queue and not due yet, unless the connection is lost.
DueLeaves ==
    \A m \in Messages :
        (m \in queue \cup unacked /\ ~NotYetDue(m)) ~> (m \notin queue \cup unacked \/ link = "lost")
=============================================================================
