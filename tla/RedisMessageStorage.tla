------------------------ MODULE RedisMessageStorage ------------------------
(***************************************************************************)
(* The Redis message store of the server role (RedisMessageStorage in      *)
(* message_storage.rs): connection tasks that save, cancel and replace     *)
(* messages, and the delivery task that expires and delivers them.         *)
(*                                                                         *)
(* A message is kept in several keys: a hash of its own, the set of the    *)
(* entries of its message id, the set of message ids of its user, and two  *)
(* sorted sets for delivery and expiry. Every command or pipeline is a     *)
(* step of its own, none of the operations is a transaction. The keys      *)
(* outlive the process. A message stands for its entry: the entry counter  *)
(* gives every save another one.                                           *)
(***************************************************************************)
EXTENDS Integers, FiniteSets

CONSTANTS
    Messages,          \* messages to save, one entry each
    Cancels,           \* cancel_sm requests
    Attr,              \* fields of a message: id, user, times
    IdOf,              \* the message id a cancel_sm names
    Ids, Users,        \* message ids; destination addresses
    NoField,           \* a field that is empty
    Loop,              \* the delivery task
    DefaultValidity,   \* default_validity_period
    MaxTime,           \* bound: the clock
    MaxFaults          \* bound: crashes, failing commands and handler failures together

NoTime  == -1          \* None, a missing field
BadTime == -2          \* a field that is no time (the empty string, for one)
OptTime == (0 .. MaxTime) \cup {NoTime}

\* The tasks that delete entries.
Deleters == Cancels \cup {Loop}

\* A schedule_delivery_time that is no time counts as missing.
ASSUME RedisAssumption ==
    /\ Attr \in [Messages -> [id : Ids, user : Users \cup {NoField}, sched : OptTime,
                              validity : OptTime \cup {BadTime}]]
    /\ IdOf \in [Cancels -> Ids]
    /\ NoField \notin Ids \cup Users \cup Messages /\ Loop \notin Cancels
    /\ DefaultValidity \in Nat /\ MaxTime \in Nat \ {0} /\ MaxFaults \in Nat

VARIABLES
    now,           \* the clock
    entry,         \* entries whose hash exists
    validity,      \* the validity_period in it
    msgid,         \* the set of entries of each message id
    user,          \* the message ids of each user, as pairs
    schedule,      \* members of the schedule set
    expiry,        \* members of the expiry set
    spc,           \* where each save is, or what it returned
    cpc,           \* where each cancel is, or what it returned
    todo,          \* entries each deleter is still to look at
    deleted_any,   \* cancels that have deleted an entry
    dpc,           \* where each deleter's delete_entry is
    target,        \* the entry it deletes
    lpc,           \* where the delivery task is
    batch,         \* messages it has collected and is still to hand over
    deliveries,    \* history: how often a message was handed over with success
    crashes,       \* how often the process has crashed,
    dbErrors,      \* commands have failed,
    handlerErrors  \* and the handler has

keyVars == <<entry, validity, msgid, user, schedule, expiry>>
cancelVars == <<cpc, deleted_any>>
deleteVars == <<dpc, target>>
loopVars == <<lpc, batch, deliveries>>
countVars == <<crashes, dbErrors, handlerErrors>>
vars == <<now, keyVars, spc, cancelVars, todo, deleteVars, loopVars, countVars>>

Init ==
    /\ now = 1
    /\ entry = {} /\ validity = [m \in Messages |-> NoTime]
    /\ msgid = [i \in Ids |-> {}] /\ user = {} /\ schedule = {} /\ expiry = {}
    /\ spc = [m \in Messages |-> "idle"]
    /\ cpc = [c \in Cancels |-> "idle"] /\ deleted_any = {}
    /\ todo = [d \in Deleters |-> {}]
    /\ dpc = [d \in Deleters |-> "none"] /\ target = [d \in Deleters |-> NoField]
    /\ lpc = "wait" /\ batch = {}
    /\ deliveries = [m \in Messages |-> 0]
    /\ crashes = 0 /\ dbErrors = 0 /\ handlerErrors = 0

Tick ==
    /\ now < MaxTime
    /\ now' = now + 1
    /\ UNCHANGED <<keyVars, spc, cancelVars, todo, deleteVars, loopVars, countVars>>

CanFail == crashes + dbErrors + handlerErrors < MaxFaults

\* A command fails and changes nothing; where the code ignores its result, the step that
\* sends it has this as its alternative.
DbError == CanFail /\ dbErrors' = dbErrors + 1 /\ UNCHANGED <<crashes, handlerErrors>>
-----------------------------------------------------------------------------
(***************************************************************************)
(* save                                                                    *)
(***************************************************************************)

\* get_validity_period; an error leaves the message without one.
ValidityOf(m) ==
    LET a == Attr[m]
    IN  CASE a.validity = NoTime  -> (IF a.sched = NoTime THEN now ELSE a.sched) + DefaultValidity
          [] a.validity = BadTime -> NoTime
          [] OTHER -> a.validity

Acceptable(m) ==
    /\ Attr[m].user # NoField
    /\ Attr[m].sched = NoTime \/ Attr[m].sched >= now
    /\ Attr[m].sched # NoTime \/ ValidityOf(m) # NoTime

\* HSET, the one command whose failure save reports.
SaveEntry(m) ==
    /\ spc[m] = "idle" /\ Acceptable(m)
    /\ entry' = entry \cup {m}
    /\ validity' = [validity EXCEPT ![m] = ValidityOf(m)]
    /\ spc' = [spc EXCEPT ![m] = "index"]
    /\ UNCHANGED <<now, msgid, user, schedule, expiry, cancelVars, todo, deleteVars,
                   loopVars, countVars>>

SaveFails(m) ==
    /\ spc[m] = "idle"
    /\ \/ ~Acceptable(m) /\ UNCHANGED countVars
       \/ Acceptable(m) /\ DbError
    /\ spc' = [spc EXCEPT ![m] = "error"]
    /\ UNCHANGED <<now, keyVars, cancelVars, todo, deleteVars, loopVars>>

\* SADD to the sets of its message id and its user.
SaveIndex(m) ==
    /\ spc[m] = "index"
    /\ \/ /\ msgid' = [msgid EXCEPT ![Attr[m].id] = @ \cup {m}]
          /\ user' = user \cup {<<Attr[m].user, Attr[m].id>>}
          /\ UNCHANGED countVars
       \/ DbError /\ UNCHANGED <<msgid, user>>
    /\ spc' = [spc EXCEPT ![m] = "schedule"]
    /\ UNCHANGED <<now, entry, validity, schedule, expiry, cancelVars, todo, deleteVars,
                   loopVars>>

\* ZADD to the schedule set.
SaveSchedule(m) ==
    /\ spc[m] = "schedule"
    /\ \/ schedule' = schedule \cup {m} /\ UNCHANGED countVars
       \/ DbError /\ UNCHANGED schedule
    /\ spc' = [spc EXCEPT ![m] = "expiry"]
    /\ UNCHANGED <<now, entry, validity, msgid, user, expiry, cancelVars, todo, deleteVars,
                   loopVars>>

\* ZADD to the expiry set, if there is a validity period.
SaveExpiry(m) ==
    /\ spc[m] = "expiry"
    /\ \/ /\ expiry' = expiry \cup (IF validity[m] = NoTime THEN {} ELSE {m})
          /\ UNCHANGED countVars
       \/ validity[m] # NoTime /\ DbError /\ UNCHANGED expiry
    /\ spc' = [spc EXCEPT ![m] = "ok"]
    /\ UNCHANGED <<now, entry, validity, msgid, user, schedule, cancelVars, todo,
                   deleteVars, loopVars>>

SaveStep(m) == SaveEntry(m) \/ SaveFails(m) \/ SaveIndex(m) \/ SaveSchedule(m) \/ SaveExpiry(m)
-----------------------------------------------------------------------------
(***************************************************************************)
(* delete_entry, called for one entry after the other.                     *)
(***************************************************************************)

\* Call it for m.
Delete(d, m) ==
    /\ target' = [target EXCEPT ![d] = m]
    /\ dpc' = [dpc EXCEPT ![d] = "get"]

\* HMGET: false if the hash is gone, or the command fails.
DeleteGet(d) ==
    /\ dpc[d] = "get"
    /\ \/ /\ target[d] \in entry
          /\ dpc' = [dpc EXCEPT ![d] = "pipe"]
          /\ UNCHANGED <<target, countVars>>
       \/ /\ (target[d] \notin entry /\ UNCHANGED countVars) \/ DbError
          /\ dpc' = [dpc EXCEPT ![d] = "none"]
          /\ target' = [target EXCEPT ![d] = NoField]
    /\ UNCHANGED <<now, keyVars, spc, cancelVars, todo, loopVars>>

\* DEL of the hash, removal from three of the sets.
DeletePipe(d) ==
    /\ dpc[d] = "pipe"
    /\ LET m == target[d]
       IN  \/ /\ entry' = entry \ {m}
              /\ msgid' = [msgid EXCEPT ![Attr[m].id] = @ \ {m}]
              /\ schedule' = schedule \ {m}
              /\ expiry' = expiry \ {m}
              /\ UNCHANGED countVars
           \/ DbError /\ UNCHANGED <<entry, msgid, schedule, expiry>>
    /\ dpc' = [dpc EXCEPT ![d] = "count"]
    /\ UNCHANGED <<now, validity, user, spc, cancelVars, todo, target, loopVars>>

\* Fault: a delete by the delivery task is counted as a cancel's.
DeletedByAll(d) ==
    /\ dpc' = [dpc EXCEPT ![d] = "none"]
    /\ target' = [target EXCEPT ![d] = NoField]
    /\ deleted_any' = deleted_any \cup {d}

\* delete_entry returns true.
Deleted(d) ==
    /\ dpc' = [dpc EXCEPT ![d] = "none"]
    /\ target' = [target EXCEPT ![d] = NoField]
    /\ deleted_any' = deleted_any \cup ({d} \ {Loop})

\* SCARD of the set of the message id; a failure counts as 0.
DeleteCount(d) ==
    /\ dpc[d] = "count"
    /\ \/ /\ msgid[Attr[target[d]].id] # {}
          /\ Deleted(d)
          /\ UNCHANGED countVars
       \/ /\ (msgid[Attr[target[d]].id] = {} /\ UNCHANGED countVars) \/ DbError
          /\ dpc' = [dpc EXCEPT ![d] = "drop"]
          /\ UNCHANGED <<target, deleted_any>>
    /\ UNCHANGED <<now, keyVars, spc, cpc, todo, loopVars>>

\* DEL of that set, removal of the message id from the user's.
DeleteDrop(d) ==
    /\ dpc[d] = "drop"
    /\ LET a == Attr[target[d]]
       IN  \/ /\ msgid' = [msgid EXCEPT ![a.id] = {}]
              /\ user' = user \ {<<a.user, a.id>>}
              /\ UNCHANGED countVars
           \/ DbError /\ UNCHANGED <<msgid, user>>
    /\ Deleted(d)
    /\ UNCHANGED <<now, entry, validity, schedule, expiry, spc, cpc, todo, loopVars>>

DeleteStep(d) == DeleteGet(d) \/ DeletePipe(d) \/ DeleteCount(d) \/ DeleteDrop(d)
-----------------------------------------------------------------------------
(***************************************************************************)
(* cancel_message. A cancel_sm without a message id is refused before      *)
(* anything is read. replace_message changes nothing: it reads the entries *)
(* of the id, edits copies of them, drops these and returns false.         *)
(***************************************************************************)

\* SMEMBERS of the set of the message id.
CancelStart(c) ==
    /\ cpc[c] = "idle"
    /\ \/ /\ todo' = [todo EXCEPT ![c] = msgid[IdOf[c]]]
          /\ cpc' = [cpc EXCEPT ![c] = "deleting"]
          /\ UNCHANGED countVars
       \/ /\ DbError
          /\ cpc' = [cpc EXCEPT ![c] = "error"]
          /\ UNCHANGED todo
    /\ UNCHANGED <<now, keyVars, spc, deleted_any, deleteVars, loopVars>>

CancelNext(c) ==
    /\ cpc[c] = "deleting" /\ dpc[c] = "none"
    /\ \E m \in todo[c] :
          /\ Delete(c, m)
          /\ todo' = [todo EXCEPT ![c] = @ \ {m}]
    /\ UNCHANGED <<now, keyVars, spc, cancelVars, loopVars, countVars>>

CancelReturns(c) ==
    /\ cpc[c] = "deleting" /\ dpc[c] = "none" /\ todo[c] = {}
    /\ cpc' = [cpc EXCEPT ![c] = IF c \in deleted_any THEN "true" ELSE "false"]
    /\ UNCHANGED <<now, keyVars, spc, deleted_any, todo, deleteVars, loopVars, countVars>>

CancelStep(c) == CancelStart(c) \/ CancelNext(c) \/ CancelReturns(c)
-----------------------------------------------------------------------------
(***************************************************************************)
(* The delivery task. It stands still while delete_entry runs.             *)
(***************************************************************************)
IsDue(m)   == Attr[m].sched = NoTime \/ Attr[m].sched <= now
Expired(m) == validity[m] # NoTime /\ validity[m] < now

Running(where) == lpc = where /\ dpc[Loop] = "none"

\* clean_expired_messages, every minute: ZRANGEBYSCORE of the expiry set.
CleanStart ==
    /\ Running("wait")
    /\ todo' = [todo EXCEPT ![Loop] = {m \in expiry : validity[m] <= now}]
    /\ todo'[Loop] # {}
    /\ lpc' = "clean"
    /\ UNCHANGED <<now, keyVars, spc, cancelVars, deleteVars, batch, deliveries, countVars>>

CleanNext ==
    /\ Running("clean")
    /\ \/ \E m \in todo[Loop] :
             /\ Delete(Loop, m)
             /\ todo' = [todo EXCEPT ![Loop] = @ \ {m}]
             /\ UNCHANGED lpc
       \/ /\ todo[Loop] = {}
          /\ lpc' = "wait"
          /\ UNCHANGED <<todo, deleteVars>>
    /\ UNCHANGED <<now, keyVars, spc, cancelVars, batch, deliveries, countVars>>

\* get_delivery_messages, every two seconds: ZRANGEBYSCORE of the schedule set ...
CollectStart ==
    /\ Running("wait")
    /\ todo' = [todo EXCEPT ![Loop] = {m \in schedule : IsDue(m)}]
    /\ todo'[Loop] # {}
    /\ lpc' = "collect"
    /\ UNCHANGED <<now, keyVars, spc, cancelVars, deleteVars, batch, deliveries, countVars>>

\* Fault: whatever has a validity period is deleted.
CollectNextDiscards ==
    /\ Running("collect")
    /\ \E m \in todo[Loop] :
          /\ todo' = [todo EXCEPT ![Loop] = @ \ {m}]
          /\ IF m \in entry /\ validity[m] # NoTime
             THEN Delete(Loop, m) /\ UNCHANGED batch
             ELSE /\ batch' = IF m \in entry THEN batch \cup {m} ELSE batch
                  /\ UNCHANGED deleteVars
    /\ UNCHANGED <<now, keyVars, spc, cancelVars, lpc, deliveries, countVars>>

\* Fault: a message without a hash ends the collection.
CollectNextStops ==
    /\ Running("collect")
    /\ \E m \in todo[Loop] :
          /\ todo' = [todo EXCEPT ![Loop] = IF m \in entry THEN @ \ {m} ELSE {}]
          /\ IF m \in entry /\ Expired(m)
             THEN Delete(Loop, m) /\ UNCHANGED batch
             ELSE /\ batch' = IF m \in entry THEN batch \cup {m} ELSE batch
                  /\ UNCHANGED deleteVars
    /\ UNCHANGED <<now, keyVars, spc, cancelVars, lpc, deliveries, countVars>>

\* ... then HMGET of each: one without a hash, or whose HMGET fails, is passed over, an
\* expired one deleted.
CollectNext ==
    /\ Running("collect")
    /\ \E m \in todo[Loop] :
          /\ todo' = [todo EXCEPT ![Loop] = @ \ {m}]
          /\ \/ /\ m \in entry /\ Expired(m)
                /\ Delete(Loop, m)
                /\ UNCHANGED <<batch, countVars>>
             \/ /\ m \in entry /\ ~Expired(m)
                /\ batch' = batch \cup {m}
                /\ UNCHANGED <<deleteVars, countVars>>
             \/ /\ (m \notin entry /\ UNCHANGED countVars) \/ DbError
                /\ UNCHANGED <<batch, deleteVars>>
    /\ UNCHANGED <<now, keyVars, spc, cancelVars, lpc, deliveries>>

CollectEnds ==
    /\ Running("collect") /\ todo[Loop] = {}
    /\ lpc' = "deliver"
    /\ UNCHANGED <<now, keyVars, spc, cancelVars, todo, deleteVars, batch, deliveries,
                   countVars>>

\* Fault: the entry of a delivered message stays.
HandleDueKeeps ==
    /\ Running("deliver")
    /\ \E m \in batch :
          /\ batch' = batch \ {m}
          /\ deliveries' = [deliveries EXCEPT ![m] = @ + 1]
    /\ UNCHANGED <<now, keyVars, spc, cancelVars, todo, deleteVars, lpc, countVars>>

\* The handler takes a message; delete_entry is called for it, its result ignored.
HandleDue ==
    /\ Running("deliver")
    /\ \E m \in batch :
          /\ batch' = batch \ {m}
          /\ deliveries' = [deliveries EXCEPT ![m] = @ + 1]
          /\ Delete(Loop, m)
    /\ UNCHANGED <<now, keyVars, spc, cancelVars, todo, lpc, countVars>>

\* The handler fails: the entry stays for the next time.
HandleFails ==
    /\ Running("deliver") /\ CanFail
    /\ \E m \in batch : batch' = batch \ {m}
    /\ handlerErrors' = handlerErrors + 1
    /\ UNCHANGED <<now, keyVars, spc, cancelVars, todo, deleteVars, lpc, deliveries,
                   crashes, dbErrors>>

DeliverEnds ==
    /\ Running("deliver") /\ batch = {}
    /\ lpc' = "wait"
    /\ UNCHANGED <<now, keyVars, spc, cancelVars, todo, deleteVars, batch, deliveries,
                   countVars>>

LoopStep ==
    \/ CleanStart \/ CleanNext \/ CollectStart \/ CollectNext \/ CollectEnds
    \/ HandleDue \/ HandleFails \/ DeliverEnds

\* The process stops and is started again: the keys are all that is left.
Crash ==
    /\ CanFail
    /\ crashes' = crashes + 1
    /\ spc' = [m \in Messages |-> IF spc[m] \in {"idle", "ok"} THEN spc[m] ELSE "error"]
    /\ cpc' = [c \in Cancels |-> IF cpc[c] = "deleting" THEN "error" ELSE cpc[c]]
    /\ todo' = [d \in Deleters |-> {}]
    /\ dpc' = [d \in Deleters |-> "none"] /\ target' = [d \in Deleters |-> NoField]
    /\ lpc' = "wait" /\ batch' = {}
    /\ UNCHANGED <<now, keyVars, deleted_any, deliveries, dbErrors, handlerErrors>>
-----------------------------------------------------------------------------
Next ==
    \/ Tick \/ LoopStep \/ Crash
    \/ \E m \in Messages : SaveStep(m)
    \/ \E c \in Cancels : CancelStep(c)
    \/ \E d \in Deleters : DeleteStep(d)

Spec == Init /\ [][Next]_vars

(***************************************************************************)
(* The delivery task's timers fire again and again, each as well as the    *)
(* other, and it takes its steps; clients, the clock and failures owe      *)
(* nothing.                                                                *)
(***************************************************************************)
Fairness ==
    /\ SF_vars(CollectStart)
    /\ WF_vars(CleanNext \/ CollectNext \/ CollectEnds \/ HandleDue \/ DeliverEnds)
    /\ WF_vars(DeleteStep(Loop))

FairSpec == Spec /\ Fairness
-----------------------------------------------------------------------------
(***************************************************************************)
(* Properties.                                                             *)
(***************************************************************************)

\* Every variable keeps its type.
TypeOK ==
    /\ now \in 1 .. MaxTime
    /\ entry \subseteq Messages /\ schedule \subseteq Messages /\ expiry \subseteq Messages
    /\ validity \in [Messages -> Int]
    /\ msgid \in [Ids -> SUBSET Messages] /\ user \subseteq Users \X Ids
    /\ spc \in [Messages -> {"idle", "index", "schedule", "expiry", "ok", "error"}]
    /\ cpc \in [Cancels -> {"idle", "deleting", "true", "false", "error"}]
    /\ deleted_any \subseteq Cancels /\ todo \in [Deleters -> SUBSET Messages]
    /\ dpc \in [Deleters -> {"none", "get", "pipe", "count", "drop"}]
    /\ target \in [Deleters -> Messages \cup {NoField}]
    /\ lpc \in {"wait", "clean", "collect", "deliver"} /\ batch \subseteq Messages
    /\ deliveries \in [Messages -> Nat]
    /\ crashes \in Nat /\ dbErrors \in Nat /\ handlerErrors \in Nat

\* A message that save accepted loses its hash only for a reason: it was delivered, it
\* reached the end of its validity, or a cancel that names its id was made. As long as it
\* has its hash it is scheduled, whatever deletes of other messages with its id are under
\* way; only a command that failed unnoticed can keep it from being delivered.
NoSilentLoss ==
    \A m \in Messages :
        spc[m] = "ok" =>
            IF m \in entry THEN m \in schedule \/ dbErrors > 0
            ELSE \/ deliveries[m] > 0
                 \/ validity[m] # NoTime /\ validity[m] <= now
                 \/ \E c \in Cancels : IdOf[c] = Attr[m].id /\ cpc[c] # "idle"

\* A message is handed over once, and once more only for every crash or failed command
\* between its delivery and its removal, also if a cancel deletes it at the same time.
DeliveredOnce == \A m \in Messages : deliveries[m] <= 1 + crashes + dbErrors

\* A scheduled message that is due leaves the schedule or has no hash: entries that were
\* deleted while they were saved do not hold the others up.
DueLeaves ==
    \A m \in Messages : (m \in entry \cap schedule /\ IsDue(m)) ~> m \notin entry \cap schedule
=============================================================================
