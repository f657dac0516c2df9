-------------------------- MODULE SqlMessageStorage --------------------------
(***************************************************************************)
(* The SQL message store of the server role (SqlMessageStorage in          *)
(* message_storage.rs) and its users: connection tasks that save, cancel   *)
(* and replace messages, and the one delivery task that expires messages   *)
(* and hands the due ones to the schedule-delivery handler.                *)
(*                                                                         *)
(* Every SQL statement is a step of its own: none of the operations runs   *)
(* in a transaction. A message stands for its row (ids are never reused).  *)
(*                                                                         *)
(* The database is a server or a file, which outlives the process, or, by  *)
(* default, sqlite::memory:, which lives in the one connection of the pool:*)
(* it is gone after a crash, and when the pool replaces the connection,    *)
(* and then its table is, too.                                             *)
(***************************************************************************)
EXTENDS Integers, FiniteSets

CONSTANTS
    Messages,          \* messages to save, one row each
    Cancels,           \* cancel_sm requests
    Replaces,          \* replace_sm requests
    Attr,              \* the fields of a message that matter: see Attrs
    Criteria,          \* the fields a cancel_sm selects by: see CancelFields
    Update,            \* what a replace_sm is to change: see ReplaceFields
    Ids, Keys,         \* message ids; addresses with their service type
    NoField,           \* a field that is empty or zero
    DefaultValidity,   \* default_validity_period
    MaxTime,           \* bound: the clock
    MaxCrashes,        \* bound: crashes of the process
    MaxDbErrors,       \* bound: statements that fail
    Stubborn,          \* messages on which the delivery handler may fail for ever
    Poison,            \* messages on which it panics
    InMemory,          \* the databases: may they be in memory?
    MaxHandlerErrors,  \* bound: failures of the delivery handler on other messages
    MaxRecycles        \* bound: connections of an in-memory database that are replaced

NoTime  == -1          \* SQL's NULL in a time column, a missing field
BadTime == -2          \* a field that is no time (the empty string, for one)
Times == 0 .. MaxTime
OptTime == Times \cup {NoTime}

\* A schedule_delivery_time that is no time counts as missing.
Attrs == [id : Ids, key : Keys, dest : BOOLEAN, flag : BOOLEAN,
          sched : OptTime, validity : OptTime \cup {BadTime}]
CancelFields == [id : Ids \cup {NoField}, key : Keys \cup {NoField}]
ReplaceFields == [id : Ids \cup {NoField}, key : Keys \cup {NoField},
                  sched : OptTime, validity : OptTime]

ASSUME StorageAssumption ==
    /\ Attr \in [Messages -> Attrs]
    /\ Criteria \in [Cancels -> CancelFields]
    /\ Update \in [Replaces -> ReplaceFields]
    /\ NoField \notin Ids \cup Keys
    /\ DefaultValidity \in Nat /\ MaxTime \in Nat
    /\ MaxCrashes \in Nat /\ MaxDbErrors \in Nat /\ MaxHandlerErrors \in Nat
    /\ MaxRecycles \in Nat
    /\ Stubborn \subseteq Messages /\ Poison \subseteq Messages
    /\ InMemory \subseteq BOOLEAN
    /\ Replaces \cap Messages = {}

VARIABLES
    now,         \* the clock
    inMemory,    \* the database is sqlite::memory:
    table,       \* it has the table message_queue
    rows,        \* messages whose row is in message_queue
    sched,       \* column schedule_delivery_time
    validity,    \* column validity_period
    text,        \* column message: the message itself, or the replace that changed it
    spc,         \* where each save is
    found,       \* ids the save has SELECTed and is still to delete
    displaced,   \* history: the rows it has deleted
    canceled,    \* rows each cancel deleted
    cpc,         \* what it returned
    rpc,         \* where each replace is, or what it returned
    selected,    \* ids the replace has SELECTed and is still to update
    lpc,         \* where the delivery task is
    due,         \* rows it has fetched and is still to handle
    handling,    \* the row it is handling
    deliveries,  \* history: how often a message was handed over with success
    wiped,       \* history: rows that went away with an in-memory database
    crashes, dbErrors, handlerErrors, recycles

baseVars == <<now, inMemory, table, wiped>>
columns == <<rows, sched, validity, text>>
saveVars == <<spc, found, displaced>>
cancelVars == <<canceled, cpc>>
replaceVars == <<rpc, selected>>
loopVars == <<lpc, due, handling>>
countVars == <<crashes, dbErrors, handlerErrors, recycles>>
vars == <<baseVars, columns, saveVars, cancelVars, replaceVars, loopVars, deliveries, countVars>>

Contents == Messages \cup Replaces

Init ==
    /\ now = 1
    /\ inMemory \in InMemory /\ table = TRUE /\ wiped = {}
    /\ rows = {}
    /\ sched = [m \in Messages |-> NoTime]
    /\ validity = [m \in Messages |-> NoTime]
    /\ text = [m \in Messages |-> m]
    /\ spc = [m \in Messages |-> "idle"] /\ found = [m \in Messages |-> {}]
    /\ displaced = [m \in Messages |-> {}]
    /\ canceled = [c \in Cancels |-> {}] /\ cpc = [c \in Cancels |-> "idle"]
    /\ rpc = [p \in Replaces |-> "idle"] /\ selected = [p \in Replaces |-> {}]
    /\ lpc = "wait" /\ due = {} /\ handling = {}
    /\ deliveries = [m \in Messages |-> 0]
    /\ crashes = 0 /\ dbErrors = 0 /\ handlerErrors = 0 /\ recycles = 0

Tick ==
    /\ now < MaxTime
    /\ now' = now + 1
    /\ UNCHANGED <<inMemory, table, wiped, columns, saveVars, cancelVars, replaceVars, loopVars, deliveries, countVars>>

\* A statement fails; without the table, each of them does.
DbError ==
    /\ dbErrors < MaxDbErrors
    /\ dbErrors' = dbErrors + 1
    /\ UNCHANGED <<crashes, handlerErrors, recycles>>
StatementFails == DbError \/ (~table /\ UNCHANGED countVars)
-----------------------------------------------------------------------------
(***************************************************************************)
(* save                                                                    *)
(***************************************************************************)

\* With replace_if_present_flag, SELECT the rows with the same addresses and service type.
SelectPresent(m) ==
    /\ spc[m] = "idle"
    /\ found' = [found EXCEPT ![m] =
                    IF Attr[m].flag THEN {x \in rows : Attr[x].key = Attr[m].key} ELSE {}]
    /\ spc' = [spc EXCEPT ![m] = "saving"]
    /\ UNCHANGED <<baseVars, columns, displaced, cancelVars, replaceVars, loopVars, deliveries, countVars>>

\* DELETE the next of them.
DeletePresent(m) ==
    /\ spc[m] = "saving" /\ table
    /\ \E x \in found[m] :
          /\ found' = [found EXCEPT ![m] = @ \ {x}]
          /\ rows' = rows \ {x}
          /\ displaced' = [displaced EXCEPT ![m] = @ \cup ({x} \cap rows)]
    /\ UNCHANGED <<baseVars, sched, validity, text, spc, cancelVars, replaceVars, loopVars,
                   deliveries, countVars>>

\* Only now is the message itself looked at.
Acceptable(m) == Attr[m].dest /\ (Attr[m].sched = NoTime \/ Attr[m].sched >= now)

\* get_validity_period, and what save makes of its errors.
ValidityOf(m) ==
    LET a == Attr[m]
    IN  CASE a.validity \in Times -> a.validity
          [] a.validity = NoTime  -> (IF a.sched = NoTime THEN now ELSE a.sched) + DefaultValidity
          [] a.validity = BadTime -> IF a.sched = NoTime THEN now + DefaultValidity ELSE NoTime

\* Fault: the two time columns are swapped.
InsertSwapped(m) ==
    /\ spc[m] = "saving" /\ table /\ found[m] = {} /\ Acceptable(m)
    /\ rows' = rows \cup {m}
    /\ sched' = [sched EXCEPT ![m] = Attr[m].validity]
    /\ validity' = [validity EXCEPT ![m] = Attr[m].sched]
    /\ spc' = [spc EXCEPT ![m] = "ok"]
    /\ UNCHANGED <<baseVars, text, found, displaced, cancelVars, replaceVars, loopVars, deliveries, countVars>>

Insert(m) ==
    /\ spc[m] = "saving" /\ table /\ found[m] = {} /\ Acceptable(m)
    /\ rows' = rows \cup {m}
    /\ sched' = [sched EXCEPT ![m] = Attr[m].sched]
    /\ validity' = [validity EXCEPT ![m] = ValidityOf(m)]
    /\ spc' = [spc EXCEPT ![m] = "ok"]
    /\ UNCHANGED <<baseVars, text, found, displaced, cancelVars, replaceVars, loopVars, deliveries, countVars>>

\* The message is refused, or one of the statements fails.
SaveFails(m) ==
    /\ spc[m] = "saving"
    /\ \/ found[m] = {} /\ ~Acceptable(m) /\ UNCHANGED countVars
       \/ StatementFails
    /\ spc' = [spc EXCEPT ![m] = "error"]
    /\ found' = [found EXCEPT ![m] = {}]
    /\ UNCHANGED <<baseVars, columns, displaced, cancelVars, replaceVars, loopVars, deliveries>>

SaveStep(m) == SelectPresent(m) \/ DeletePresent(m) \/ Insert(m) \/ SaveFails(m)
-----------------------------------------------------------------------------
(***************************************************************************)
(* cancel_message: one DELETE by the fields that are given.                *)
(***************************************************************************)
Matches(c, m) ==
    /\ Criteria[c].id \in {NoField, Attr[m].id}
    /\ Criteria[c].key \in {NoField, Attr[m].key}

CancelMessage(c) ==
    /\ cpc[c] = "idle"
    /\ \/ /\ Criteria[c] = [id |-> NoField, key |-> NoField]
          /\ cpc' = [cpc EXCEPT ![c] = "error"]
          /\ UNCHANGED <<rows, canceled, countVars>>
       \/ /\ Criteria[c] # [id |-> NoField, key |-> NoField] /\ table
          /\ LET gone == {m \in rows : Matches(c, m)}
             IN  /\ rows' = rows \ gone
                 /\ canceled' = [canceled EXCEPT ![c] = gone]
                 /\ cpc' = [cpc EXCEPT ![c] = IF gone # {} THEN "true" ELSE "false"]
          /\ UNCHANGED countVars
       \/ /\ StatementFails
          /\ cpc' = [cpc EXCEPT ![c] = "error"]
          /\ UNCHANGED <<rows, canceled>>
    /\ UNCHANGED <<baseVars, sched, validity, text, saveVars, replaceVars, loopVars, deliveries>>
-----------------------------------------------------------------------------
(***************************************************************************)
(* replace_message: SELECT by message id and, if it is given, the source   *)
(* address, then one UPDATE per row found.                                 *)
(***************************************************************************)
NamedBy(p, m) ==
    /\ Update[p].id = Attr[m].id
    /\ Update[p].key \in {NoField, Attr[m].key}

SelectForReplace(p) ==
    /\ rpc[p] = "idle" /\ Update[p].id # NoField /\ table
    /\ LET hits == {m \in rows : NamedBy(p, m)}
       IN  /\ selected' = [selected EXCEPT ![p] = hits]
           /\ rpc' = [rpc EXCEPT ![p] = IF hits = {} THEN "false" ELSE "updating"]
    /\ UNCHANGED <<baseVars, columns, saveVars, cancelVars, loopVars, deliveries, countVars>>

\* Fault: the row is written whether or not it is still there.
UpdateRowUpserts(p) ==
    /\ rpc[p] = "updating"
    /\ \E m \in selected[p] :
          /\ selected' = [selected EXCEPT ![p] = @ \ {m}]
          /\ rows' = rows \cup {m}
          /\ text' = [text EXCEPT ![m] = p]
    /\ rpc' = [rpc EXCEPT ![p] = IF selected'[p] = {} THEN "true" ELSE "updating"]
    /\ UNCHANGED <<baseVars, sched, validity, saveVars, cancelVars, loopVars, deliveries, countVars>>

\* UPDATE ... WHERE id = $1: a row that is gone by now is not touched, and not missed.
UpdateRow(p) ==
    /\ rpc[p] = "updating" /\ table
    /\ \E m \in selected[p] :
          /\ selected' = [selected EXCEPT ![p] = @ \ {m}]
          /\ IF m \in rows
             THEN /\ text' = [text EXCEPT ![m] = p]
                  /\ sched' = IF Update[p].sched = NoTime THEN sched
                              ELSE [sched EXCEPT ![m] = Update[p].sched]
                  /\ validity' = IF Update[p].validity = NoTime THEN validity
                                 ELSE [validity EXCEPT ![m] = Update[p].validity]
             ELSE UNCHANGED <<text, sched, validity>>
    /\ rpc' = [rpc EXCEPT ![p] = IF selected'[p] = {} THEN "true" ELSE "updating"]
    /\ UNCHANGED <<baseVars, rows, saveVars, cancelVars, loopVars, deliveries, countVars>>

\* The command names no message, or one of the statements fails.
ReplaceFails(p) ==
    /\ rpc[p] \in {"idle", "updating"}
    /\ \/ Update[p].id = NoField /\ UNCHANGED countVars
       \/ Update[p].id # NoField /\ StatementFails
    /\ rpc' = [rpc EXCEPT ![p] = "error"]
    /\ selected' = [selected EXCEPT ![p] = {}]
    /\ UNCHANGED <<baseVars, columns, saveVars, cancelVars, loopVars, deliveries>>

ReplaceStep(p) == SelectForReplace(p) \/ UpdateRow(p) \/ ReplaceFails(p)
-----------------------------------------------------------------------------
(***************************************************************************)
(* The delivery task.                                                      *)
(***************************************************************************)

\* Every minute: DELETE what is past its validity_period.
Expired(m) == validity[m] # NoTime /\ validity[m] < now

\* Fault: a message is taken away in the last moment of its validity.
CleanExpiredEarly ==
    /\ lpc = "wait"
    /\ rows' = {m \in rows : validity[m] = NoTime \/ validity[m] > now}
    /\ UNCHANGED <<baseVars, sched, validity, text, saveVars, cancelVars, replaceVars, loopVars,
                   deliveries, countVars>>

CleanExpired ==
    /\ lpc = "wait"
    /\ rows' = {m \in rows : ~Expired(m)}
    /\ UNCHANGED <<baseVars, sched, validity, text, saveVars, cancelVars, replaceVars, loopVars,
                   deliveries, countVars>>

\* Every two seconds: SELECT the messages whose time has come.
IsDue(m) == sched[m] = NoTime \/ sched[m] <= now

FetchDue ==
    /\ lpc = "wait"
    /\ due' = {[msg |-> m, at |-> sched[m], text |-> text[m]] : m \in {x \in rows : IsDue(x)}}
    /\ due' # {}
    /\ lpc' = "deliver"
    /\ UNCHANGED <<baseVars, columns, saveVars, cancelVars, replaceVars, handling, deliveries, countVars>>

\* Handle them in the order of their time; where NULL sorts depends on the database.
EarliestDue == {d \in due : \A e \in due : e.at = NoTime \/ d.at = NoTime \/ d.at <= e.at}

\* The handler takes the message.
HandleDue ==
    /\ lpc = "deliver"
    /\ \E d \in EarliestDue :
          /\ due' = due \ {d}
          /\ handling' = {d}
          /\ deliveries' = [deliveries EXCEPT ![d.msg] = @ + 1]
    /\ lpc' = "delete"
    /\ UNCHANGED <<baseVars, columns, saveVars, cancelVars, replaceVars, countVars>>

\* Fault: a failure of the handler ends the round, not just the turn of its message.
HandleFailsStops ==
    /\ lpc = "deliver"
    /\ \E d \in EarliestDue :
          \/ d.msg \in Stubborn /\ UNCHANGED handlerErrors
          \/ handlerErrors < MaxHandlerErrors /\ handlerErrors' = handlerErrors + 1
    /\ due' = {} /\ lpc' = "wait"
    /\ UNCHANGED <<baseVars, columns, saveVars, cancelVars, replaceVars, handling, deliveries,
                   crashes, dbErrors, recycles>>

\* The handler fails: the row stays for the next time, and the next message has its turn.
HandleFails ==
    /\ lpc = "deliver"
    /\ \E d \in EarliestDue :
          /\ due' = due \ {d}
          /\ \/ d.msg \in Stubborn /\ UNCHANGED handlerErrors
             \/ handlerErrors < MaxHandlerErrors /\ handlerErrors' = handlerErrors + 1
    /\ lpc' = IF due' = {} THEN "wait" ELSE "deliver"
    /\ UNCHANGED <<baseVars, columns, saveVars, cancelVars, replaceVars, handling, deliveries,
                   crashes, dbErrors, recycles>>

\* The handler panics (on a data_sm, see SmscServerConnection): the task is gone.
HandlePanics ==
    /\ lpc = "deliver"
    /\ \E d \in EarliestDue : d.msg \in Poison
    /\ lpc' = "dead" /\ due' = {}
    /\ UNCHANGED <<baseVars, columns, saveVars, cancelVars, replaceVars, handling, deliveries,
                   countVars>>

\* Fault: the DELETE finds no row.
DeleteHandledMisses ==
    /\ lpc = "delete"
    /\ handling' = {}
    /\ lpc' = IF due = {} THEN "wait" ELSE "deliver"
    /\ UNCHANGED <<baseVars, columns, saveVars, cancelVars, replaceVars, due, deliveries, countVars>>

\* delete_message_by_id; its result is ignored.
DeleteHandled ==
    /\ lpc = "delete"
    /\ \/ rows' = rows \ {d.msg : d \in handling} /\ UNCHANGED countVars
       \/ StatementFails /\ UNCHANGED rows
    /\ handling' = {}
    /\ lpc' = IF due = {} THEN "wait" ELSE "deliver"
    /\ UNCHANGED <<baseVars, sched, validity, text, saveVars, cancelVars, replaceVars, due, deliveries>>

LoopStep == CleanExpired \/ FetchDue \/ HandleDue \/ HandleFails \/ HandlePanics \/ DeleteHandled

\* The rows of an in-memory database are gone.
Wipe == rows' = {} /\ wiped' = wiped \cup rows

\* The pool replaces its connection: an in-memory database is a new one, without the table.
Recycle ==
    /\ inMemory /\ table /\ recycles < MaxRecycles
    /\ recycles' = recycles + 1
    /\ Wipe
    /\ table' = FALSE
    /\ UNCHANGED <<now, inMemory, sched, validity, text, saveVars, cancelVars, replaceVars, loopVars,
                   deliveries, crashes, dbErrors, handlerErrors>>

\* The process stops and is started again: it makes the table if there is none. All that
\* is left is the table of a database that is not in memory.
Crash ==
    /\ crashes < MaxCrashes
    /\ crashes' = crashes + 1
    /\ spc' = [m \in Messages |-> IF spc[m] = "saving" THEN "error" ELSE spc[m]]
    /\ found' = [m \in Messages |-> {}]
    /\ rpc' = [p \in Replaces |-> IF rpc[p] = "updating" THEN "error" ELSE rpc[p]]
    /\ selected' = [p \in Replaces |-> {}]
    /\ lpc' = "wait" /\ due' = {} /\ handling' = {}
    /\ IF inMemory THEN Wipe ELSE UNCHANGED <<rows, wiped>>
    /\ table' = TRUE
    /\ UNCHANGED <<now, inMemory, sched, validity, text, displaced, cancelVars, deliveries, dbErrors,
                   handlerErrors, recycles>>
-----------------------------------------------------------------------------
Next ==
    \/ Tick \/ LoopStep \/ Crash \/ Recycle
    \/ \E m \in Messages : SaveStep(m)
    \/ \E c \in Cancels : CancelMessage(c)
    \/ \E p \in Replaces : ReplaceStep(p)

Spec == Init /\ [][Next]_vars

(***************************************************************************)
(* The delivery task's two-second timer fires again and again and it takes *)
(* its steps; clients, the clock and failures owe nothing.                 *)
(***************************************************************************)
Fairness == WF_vars(FetchDue) /\ WF_vars(HandleDue) /\ WF_vars(DeleteHandled)

FairSpec == Spec /\ Fairness
-----------------------------------------------------------------------------
(***************************************************************************)
(* Properties.                                                             *)
(***************************************************************************)

\* Every variable keeps its type.
TypeOK ==
    /\ now \in Times \cup {1} /\ rows \subseteq Messages /\ wiped \subseteq Messages
    /\ inMemory \in BOOLEAN /\ table \in BOOLEAN
    /\ sched \in [Messages -> OptTime]
    /\ validity \in [Messages -> Int]
    /\ text \in [Messages -> Contents]
    /\ spc \in [Messages -> {"idle", "saving", "ok", "error"}]
    /\ found \in [Messages -> SUBSET Messages] /\ displaced \in [Messages -> SUBSET Messages]
    /\ canceled \in [Cancels -> SUBSET Messages]
    /\ cpc \in [Cancels -> {"idle", "true", "false", "error"}]
    /\ rpc \in [Replaces -> {"idle", "updating", "true", "false", "error"}]
    /\ selected \in [Replaces -> SUBSET Messages]
    /\ lpc \in {"wait", "deliver", "delete", "dead"}
    /\ due \subseteq [msg : Messages, at : OptTime, text : Contents]
    /\ handling \subseteq [msg : Messages, at : OptTime, text : Contents]
    /\ deliveries \in [Messages -> Nat]
    /\ crashes \in Nat /\ dbErrors \in Nat /\ handlerErrors \in Nat /\ recycles \in Nat

\* Why the save of n may have returned an error: a fault, or n itself.
SaveErrorExplained(n) ==
    \/ crashes + dbErrors + recycles > 0
    \/ ~Attr[n].dest
    \/ Attr[n].sched # NoTime /\ Attr[n].sched < now

\* A message that save accepted leaves the table only for a reason: it was delivered, a
\* cancel that returned true took it, its validity ran out, it went away with an in-memory
\* database, or the save of a message with replace_if_present_flag and the same addresses
\* deleted it. In that last case the other message takes its place, unless its save was cut
\* off by a fault or refused it after the DELETE: then both are gone.
NoSilentLoss ==
    \A m \in Messages :
        spc[m] = "ok" /\ m \notin rows =>
            \/ deliveries[m] > 0
            \/ \E c \in Cancels : cpc[c] = "true" /\ m \in canceled[c]
            \/ Expired(m)
            \/ inMemory /\ m \in wiped
            \/ \E n \in Messages \ {m} :
                  /\ m \in displaced[n]
                  /\ Attr[n].flag /\ Attr[n].key = Attr[m].key
                  /\ spc[n] \in {"saving", "ok"} \/ (spc[n] = "error" /\ SaveErrorExplained(n))

\* A message is handed over once, and once more only for every crash or failed DELETE
\* between its delivery and its removal; one whose save has failed is never handed over.
DeliveredOnce ==
    \A m \in Messages :
        deliveries[m] <= IF spc[m] = "ok" THEN 1 + crashes + dbErrors ELSE 0

\* A row that is gone never comes back: neither a replace that selected it before a
\* cancel deleted it, nor a save, nor the delivery task revives a message.
GoneForGood ==
    [][\A m \in Messages : spc[m] = "ok" /\ m \notin rows => m \notin rows']_vars

\* A message that is due leaves the table, however often the handler fails on those before
\* it, unless it fails on the message itself or a panic of it has ended the delivery task.
DueLeaves ==
    \A m \in Messages \ Stubborn :
        (m \in rows /\ IsDue(m)) ~> (m \notin rows \/ ~IsDue(m) \/ lpc = "dead")
=============================================================================
