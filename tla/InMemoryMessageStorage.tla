----------------------- MODULE InMemoryMessageStorage -----------------------
(***************************************************************************)
(* The store the server falls back to when the configured one cannot be    *)
(* opened (InMemoryMessageStorage in message_storage.rs), its users and    *)
(* its delivery task.                                                      *)
(*                                                                         *)
(* Messages with the same id (those of one submit_multi) share a list. An  *)
(* operation holds the lock of the map from beginning to end and is a      *)
(* single step; the delivery task gives it up while the handler runs.      *)
(***************************************************************************)
EXTENDS Integers, Sequences, FiniteSets

CONSTANTS
    Messages,          \* messages to save
    Cancels,           \* cancel_sm requests
    Replaces,          \* replace_sm requests
    Attr,              \* fields of a message: id, source, user, times
    Criteria,          \* what a cancel_sm selects by: id, source
    Update,            \* what a replace_sm selects by and changes
    Ids, Sources, Users, \* message ids; source and destination addresses
    NoField,           \* a field that is empty
    DefaultValidity,   \* default_validity_period
    MaxTime,           \* bound: the clock
    MaxHandlerErrors   \* bound: failures of the delivery handler

NoTime  == -1          \* None, a missing field
BadTime == -2          \* a field that is no time (the empty string, for one)
OptTime == (0 .. MaxTime) \cup {NoTime}

\* A schedule_delivery_time that is no time counts as missing.
ASSUME InMemoryAssumption ==
    /\ Attr \in [Messages -> [id : Ids, source : Sources, user : Users \cup {NoField},
                              sched : OptTime, validity : OptTime \cup {BadTime}]]
    /\ Criteria \in [Cancels -> [id : Ids \cup {NoField}, source : Sources \cup {NoField}]]
    /\ Update \in [Replaces -> [id : Ids \cup {NoField}, source : Sources \cup {NoField},
                                sched : OptTime, validity : OptTime]]
    /\ NoField \notin Ids \cup Sources \cup Users
    /\ DefaultValidity \in Nat /\ MaxTime \in Nat \ {0} /\ MaxHandlerErrors \in Nat
    /\ Replaces \cap Messages = {}

VARIABLES
    now,           \* the clock
    messages,      \* the list of messages stored under each id
    user_message_ids, \* pairs of a destination address and a message id
    sched,         \* schedule_delivery_time of a stored message
    validity,      \* its validity_period
    text,          \* its contents: its own, or those of the replace that changed it
    spc,           \* what each save has returned
    cpc,           \* what each cancel has returned
    canceled,      \* the messages it removed
    rpc,           \* what each replace has returned
    lpc,           \* where the delivery task is
    due,           \* what it has taken and is still to hand over
    handling,      \* what the handler has failed to take
    delivered,     \* history: messages the handler took
    failed,        \* history: ids of messages it failed to take
    handlerErrors

listVars == <<messages, user_message_ids>>
fieldVars == <<sched, validity, text>>
resultVars == <<spc, cpc, canceled, rpc>>
loopVars == <<lpc, due, handling, delivered, failed, handlerErrors>>
vars == <<now, listVars, fieldVars, resultVars, loopVars>>

Init ==
    /\ now = 1
    /\ messages = [i \in Ids |-> <<>>] /\ user_message_ids = {}
    /\ sched = [m \in Messages |-> NoTime] /\ validity = [m \in Messages |-> NoTime]
    /\ text = [m \in Messages |-> m]
    /\ spc = [m \in Messages |-> "idle"]
    /\ cpc = [c \in Cancels |-> "idle"] /\ canceled = [c \in Cancels |-> {}]
    /\ rpc = [p \in Replaces |-> "idle"]
    /\ lpc = "wait" /\ due = {} /\ handling = {}
    /\ delivered = {} /\ failed = {} /\ handlerErrors = 0

Tick ==
    /\ now < MaxTime
    /\ now' = now + 1
    /\ UNCHANGED <<listVars, fieldVars, resultVars, loopVars>>

InList(i) == {messages[i][k] : k \in DOMAIN messages[i]}
Stored == UNION {InList(i) : i \in Ids}

IsDue(m)   == sched[m] = NoTime \/ sched[m] <= now
Expired(m) == validity[m] # NoTime /\ validity[m] < now

\* The list s without the messages of gone, in its order (Vec::remove at each of them).
Without(s, gone) ==
    LET kept[k \in 0 .. Len(s)] ==
            IF k = 0 THEN <<>>
            ELSE IF s[k] \in gone THEN kept[k - 1] ELSE Append(kept[k - 1], s[k])
    IN  kept[Len(s)]

\* Fault: only the index is told.
RemoveIndexOnly(gone) ==
    /\ user_message_ids' = user_message_ids \ {<<Attr[m].user, Attr[m].id>> : m \in gone}
    /\ UNCHANGED messages

\* Take the messages of gone out of their lists, and with each every entry of the index
\* for its address and id (remove_user_message_id).
Remove(gone) ==
    /\ messages' = [i \in Ids |-> Without(messages[i], gone)]
    /\ user_message_ids' = user_message_ids \ {<<Attr[m].user, Attr[m].id>> : m \in gone}
-----------------------------------------------------------------------------
(***************************************************************************)
(* save, cancel_message and replace_message                                *)
(***************************************************************************)

\* get_validity_period; an error leaves the message without one.
ValidityOf(m) ==
    LET a == Attr[m]
    IN  CASE a.validity = NoTime  -> (IF a.sched = NoTime THEN now ELSE a.sched) + DefaultValidity
          [] a.validity = BadTime -> NoTime
          [] OTHER -> a.validity

Acceptable(m) ==
    LET s == Attr[m].sched v == ValidityOf(m)
    IN  /\ Attr[m].user # NoField
        /\ s # NoTime \/ v # NoTime
        /\ s # NoTime /\ v # NoTime => s <= v
        /\ v # NoTime => v >= now

\* Fault: a list that is made for the message already holds it.
SavePushesTwice(m) ==
    /\ spc[m] = "idle" /\ Acceptable(m)
    /\ messages' = [messages EXCEPT ![Attr[m].id] = IF @ = <<>> THEN <<m, m>> ELSE Append(@, m)]
    /\ user_message_ids' = user_message_ids \cup {<<Attr[m].user, Attr[m].id>>}
    /\ sched' = [sched EXCEPT ![m] = Attr[m].sched]
    /\ validity' = [validity EXCEPT ![m] = ValidityOf(m)]
    /\ spc' = [spc EXCEPT ![m] = "ok"]
    /\ UNCHANGED <<now, text, cpc, canceled, rpc, loopVars>>

Save(m) ==
    /\ spc[m] = "idle"
    /\ IF Acceptable(m)
       THEN /\ messages' = [messages EXCEPT ![Attr[m].id] = Append(@, m)]
            /\ user_message_ids' = user_message_ids \cup {<<Attr[m].user, Attr[m].id>>}
            /\ sched' = [sched EXCEPT ![m] = Attr[m].sched]
            /\ validity' = [validity EXCEPT ![m] = ValidityOf(m)]
            /\ spc' = [spc EXCEPT ![m] = "ok"]
       ELSE /\ spc' = [spc EXCEPT ![m] = "error"]
            /\ UNCHANGED <<listVars, sched, validity>>
    /\ UNCHANGED <<now, text, cpc, canceled, rpc, loopVars>>

\* Without any field it takes every message.
Matches(c, m) ==
    /\ Criteria[c].id \in {NoField, Attr[m].id}
    /\ Criteria[c].source \in {NoField, Attr[m].source}

CancelMessage(c) ==
    /\ cpc[c] = "idle"
    /\ LET gone == {m \in Stored : Matches(c, m)}
       IN  /\ Remove(gone)
           /\ canceled' = [canceled EXCEPT ![c] = gone]
           /\ cpc' = [cpc EXCEPT ![c] = IF gone # {} THEN "true" ELSE "false"]
    /\ UNCHANGED <<now, fieldVars, spc, rpc, loopVars>>

\* An unknown id is an error; otherwise it returns true, whatever matched.
ReplaceMessage(p) ==
    /\ rpc[p] = "idle"
    /\ LET u == Update[p]
           hits == IF u.id = NoField THEN {}
                   ELSE {m \in InList(u.id) : u.source \in {NoField, Attr[m].source}}
       IN  /\ rpc' = [rpc EXCEPT ![p] =
                         IF u.id = NoField \/ messages[u.id] = <<>> THEN "error" ELSE "true"]
           /\ text' = [m \in Messages |-> IF m \in hits THEN p ELSE text[m]]
           /\ sched' = [m \in Messages |->
                           IF m \in hits /\ u.sched # NoTime THEN u.sched ELSE sched[m]]
           /\ validity' = [m \in Messages |->
                           IF m \in hits /\ u.validity # NoTime THEN u.validity ELSE validity[m]]
    /\ UNCHANGED <<now, listVars, spc, cpc, canceled, loopVars>>
-----------------------------------------------------------------------------
(***************************************************************************)
(* The delivery task                                                       *)
(***************************************************************************)

\* clean_expired_messages, every minute.
CleanExpired ==
    /\ lpc = "wait"
    /\ Remove({m \in Stored : Expired(m)})
    /\ UNCHANGED <<now, fieldVars, resultVars, loopVars>>

\* The positions in the list of i of the messages that are due and valid.
Candidates(i) == {k \in DOMAIN messages[i] : IsDue(messages[i][k]) /\ ~Expired(messages[i][k])}

\* get_delivery_messages goes through each list from its end to the first message to
\* deliver, and discards what is due and past its validity on the way. The position of
\* that message is kept to remove it by, should the handler fail.
FetchDue ==
    /\ lpc = "wait"
    /\ LET last(i) == CHOOSE k \in Candidates(i) : \A j \in Candidates(i) : j <= k
           passed(i) == {k \in DOMAIN messages[i] : Candidates(i) = {} \/ k > last(i)}
           late == UNION {{m \in {messages[i][k] : k \in passed(i)} : IsDue(m) /\ Expired(m)} :
                             i \in Ids}
       IN  /\ due' = {[id |-> i, pos |-> last(i), msg |-> messages[i][last(i)]] :
                         i \in {j \in Ids : Candidates(j) # {}}}
           /\ Remove(late)
           /\ due' # {} \/ late # {}
    /\ lpc' = IF due' = {} THEN "wait" ELSE "deliver"
    /\ UNCHANGED <<now, fieldVars, resultVars, handling, delivered, failed, handlerErrors>>

\* The handler takes the message: it stays in its list.
HandleDue ==
    /\ lpc = "deliver"
    /\ \E d \in due :
          /\ due' = due \ {d}
          /\ delivered' = delivered \cup {d.msg}
    /\ lpc' = IF due' = {} THEN "wait" ELSE "deliver"
    /\ UNCHANGED <<now, listVars, fieldVars, resultVars, handling, failed, handlerErrors>>

\* The handler fails.
HandleFails ==
    /\ lpc = "deliver" /\ handlerErrors < MaxHandlerErrors
    /\ \E d \in due :
          /\ due' = due \ {d}
          /\ handling' = {d}
          /\ failed' = failed \cup {d.id}
    /\ handlerErrors' = handlerErrors + 1
    /\ lpc' = "remove"
    /\ UNCHANGED <<now, listVars, fieldVars, resultVars, delivered>>

\* Fault: the first message of the first list that has one is removed.
RemoveFailedAnywhere ==
    /\ lpc = "remove"
    /\ \E i \in Ids :
          /\ messages[i] # <<>>
          /\ messages' = [messages EXCEPT ![i] = Tail(@)]
    /\ handling' = {}
    /\ lpc' = IF due = {} THEN "wait" ELSE "deliver"
    /\ UNCHANGED <<now, user_message_ids, fieldVars, resultVars, due, delivered, failed,
                   handlerErrors>>

\* remove_message_by_id: whatever is at that position now goes. A list that has become
\* too short makes Vec::remove panic, and the task ends.
RemoveFailed ==
    /\ lpc = "remove"
    /\ \E d \in handling :
          LET s == messages[d.id]
          IN  /\ messages' = [messages EXCEPT ![d.id] =
                    IF d.pos \in DOMAIN s THEN SubSeq(s, 1, d.pos - 1) \o SubSeq(s, d.pos + 1, Len(s))
                                          ELSE s]
              /\ lpc' = IF s # <<>> /\ d.pos \notin DOMAIN s THEN "dead"
                        ELSE IF due = {} THEN "wait" ELSE "deliver"
    /\ handling' = {}
    /\ UNCHANGED <<now, user_message_ids, fieldVars, resultVars, due, delivered, failed,
                   handlerErrors>>

LoopStep == CleanExpired \/ FetchDue \/ HandleDue \/ HandleFails \/ RemoveFailed
-----------------------------------------------------------------------------
Next ==
    \/ Tick \/ LoopStep
    \/ \E m \in Messages : Save(m)
    \/ \E c \in Cancels : CancelMessage(c)
    \/ \E p \in Replaces : ReplaceMessage(p)

Spec == Init /\ [][Next]_vars

(***************************************************************************)
(* Time passes, and the delivery task's timers fire again and again; the   *)
(* clients owe nothing.                                                    *)
(***************************************************************************)
Fairness ==
    /\ WF_vars(Tick) /\ WF_vars(FetchDue) /\ WF_vars(HandleDue) /\ WF_vars(RemoveFailed)
    /\ SF_vars(CleanExpired)

FairSpec == Spec /\ Fairness
-----------------------------------------------------------------------------
(***************************************************************************)
(* Properties.                                                             *)
(***************************************************************************)

\* Every variable keeps its type; no message is in two places.
TypeOK ==
    /\ now \in 1 .. MaxTime
    /\ messages \in [Ids -> Seq(Messages)]
    /\ \A i \in Ids : \A j, k \in DOMAIN messages[i] : messages[i][j] = messages[i][k] => j = k
    /\ user_message_ids \subseteq Users \X Ids
    /\ sched \in [Messages -> Int] /\ validity \in [Messages -> Int]
    /\ text \in [Messages -> Messages \cup Replaces]
    /\ spc \in [Messages -> {"idle", "ok", "error"}]
    /\ cpc \in [Cancels -> {"idle", "true", "false"}] /\ canceled \in [Cancels -> SUBSET Messages]
    /\ rpc \in [Replaces -> {"idle", "true", "error"}]
    /\ lpc \in {"wait", "deliver", "remove", "dead"}
    /\ due \cup handling \subseteq [id : Ids, pos : Nat, msg : Messages]
    /\ delivered \subseteq Messages /\ failed \subseteq Ids /\ handlerErrors \in Nat

\* A message that save accepted leaves the store only for a reason: a cancel that
\* returned true took it, its validity ran out, or the handler failed for a message
\* with the same id (not always for this one: the list may have changed meanwhile).
NoSilentLoss ==
    \A m \in Messages :
        spc[m] = "ok" /\ m \notin Stored =>
            \/ \E c \in Cancels : cpc[c] = "true" /\ m \in canceled[c]
            \/ Expired(m)
            \/ Attr[m].id \in failed

\* The index of users names no message that is gone, however saves, cancels and expiry
\* interleave; only a failed delivery, which does not tell the index, leaves it stale.
IndexNotStale ==
    \A x \in user_message_ids :
        \/ \E m \in Stored : Attr[m].user = x[1] /\ Attr[m].id = x[2]
        \/ x[2] \in failed

\* A message that is past its validity leaves the store, delivered or not, unless the
\* delivery task has panicked on a list position that a cancel took away.
ExpiredLeaves ==
    \A m \in Messages : (m \in Stored /\ Expired(m)) ~> (m \notin Stored \/ lpc = "dead")

(***************************************************************************)
(* What comments in the code say of it and the code does not keep.         *)
(***************************************************************************)

\* The handler "will be invoked when a message is ready to be delivered": no message
\* that is ready is passed over for one that was handed over before.
ReadyIsDelivered ==
    [][\A d \in due' \ due : d.msg \in delivered =>
          \A m \in InList(d.id) \ delivered : ~IsDue(m) \/ Expired(m)]_vars
=============================================================================
