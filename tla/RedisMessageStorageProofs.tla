----------------------- MODULE RedisMessageStorageProofs -----------------------
(***************************************************************************)
(* Proofs about RedisMessageStorage, for any set of messages and cancels,  *)
(* any clock and any number of crashes, failing commands and handler       *)
(* failures.                                                               *)
(***************************************************************************)
EXTENDS RedisMessageStorage, TLAPS

USE DEF keyVars, cancelVars, deleteVars, loopVars, countVars

(***************************************************************************)
(* The inductive invariant.                                                *)
(***************************************************************************)

\* Before its save has written the hash, a message is in no key and in no one's hands.
UnsavedIsUnknown ==
    \A m \in Messages : spc[m] = "idle" =>
        /\ m \notin entry \cup schedule \cup expiry \cup batch
        /\ deliveries[m] = 0
        /\ \A i \in Ids : m \notin msgid[i]
        /\ \A d \in Deleters : m \notin todo[d] /\ target[d] # m

\* The sets hold what they are for.
KeysAreRight ==
    /\ \A m \in Messages : spc[m] \in {"index", "schedule", "expiry", "ok"} => Attr[m].user # NoField
    /\ \A i \in Ids : \A m \in msgid[i] : Attr[m].id = i
    /\ \A m \in expiry : validity[m] # NoTime

\* The end of its validity has come.
Outdated(m) == validity[m] # NoTime /\ validity[m] <= now

\* A cancel deletes entries of the id it names, ...
CancelsHaveReason ==
    \A c \in Cancels :
        /\ cpc[c] # "deleting" => dpc[c] = "none" /\ todo[c] = {}
        /\ \A m \in todo[c] : Attr[m].id = IdOf[c]
        /\ dpc[c] # "none" => target[c] \in Messages /\ Attr[target[c]].id = IdOf[c]

\* ... the delivery task what it has delivered or what is outdated.
LoopHasReason ==
    /\ lpc = "clean" => \A m \in todo[Loop] : Outdated(m)
    /\ dpc[Loop] # "none" => /\ target[Loop] \in Messages
                             /\ deliveries[target[Loop]] > 0 \/ Outdated(target[Loop])

\* A message that can be handed over once more has been so only as often as a crash or a
\* failing command came between. Its hash is still there while delete_entry has not come to
\* the DEL.
DeliverableAgain ==
    /\ \A m \in batch : deliveries[m] <= crashes + dbErrors
    /\ \A m \in entry : \/ target[Loop] = m /\ dpc[Loop] \in {"get", "pipe"}
                        \/ deliveries[m] <= crashes + dbErrors

\* NoSilentLoss from the moment the hash is written.
KeptOnceSaved ==
    \A m \in Messages :
        /\ spc[m] \in {"expiry", "ok"} /\ m \in entry => m \in schedule \/ dbErrors > 0
        /\ spc[m] \in {"index", "schedule", "expiry", "ok"} /\ m \notin entry =>
              \/ deliveries[m] > 0 \/ Outdated(m)
              \/ \E c \in Cancels : IdOf[c] = Attr[m].id /\ cpc[c] # "idle"

RedisInv ==
    /\ TypeOK /\ UnsavedIsUnknown /\ KeysAreRight /\ CancelsHaveReason /\ LoopHasReason
    /\ DeliverableAgain /\ KeptOnceSaved /\ DeliveredOnce
-----------------------------------------------------------------------------
(***************************************************************************)
(* What the steps have in common.                                          *)
(***************************************************************************)

\* A command fails or it does not: the counts of faults never go down.
LEMMA FaultCount ==
    ASSUME TypeOK, DbError \/ UNCHANGED countVars
    PROVE  /\ crashes' \in Nat /\ dbErrors' \in Nat /\ handlerErrors' \in Nat
           /\ crashes' + dbErrors' >= crashes + dbErrors
           /\ dbErrors > 0 => dbErrors' > 0
BY DEF TypeOK, DbError

\* A validity period is a time, or there is none.
LEMMA ValidityType ==
    ASSUME TypeOK, NEW m \in Messages
    PROVE  ValidityOf(m) \in Int
<1> DEFINE a == Attr[m]
           from == IF a.sched = NoTime THEN now ELSE a.sched
<1>1. NoTime # BadTime
  BY DEF NoTime, BadTime
<1>2. /\ a.validity = NoTime => ValidityOf(m) = from + DefaultValidity
      /\ a.validity = BadTime => ValidityOf(m) = NoTime
      /\ a.validity \notin {NoTime, BadTime} => ValidityOf(m) = a.validity
  BY <1>1, Zenon DEF ValidityOf
<1>3. a.validity \in Int /\ from \in Int /\ NoTime \in Int /\ DefaultValidity \in Int
  BY RedisAssumption DEF TypeOK, OptTime, NoTime, BadTime
<1> QED BY <1>2, <1>3

\* The ids of messages and the tasks that delete them.
LEMMA Constants ==
    /\ \A m \in Messages : Attr[m].id \in Ids /\ Attr[m].user \in Users \cup {NoField}
    /\ \A c \in Cancels : IdOf[c] \in Ids /\ c \in Deleters /\ c # Loop
    /\ Loop \in Deleters /\ Deleters = Cancels \cup {Loop}
    /\ NoField \notin Messages
BY RedisAssumption DEF Deleters
-----------------------------------------------------------------------------
(***************************************************************************)
(* Every step keeps the invariant.                                         *)
(***************************************************************************)

\* There are no keys and nothing is under way.
LEMMA RedisInitInv == Init => RedisInv
<1> SUFFICES ASSUME Init PROVE RedisInv
  OBVIOUS
<1>1. TypeOK
  BY RedisAssumption DEF Init, TypeOK, NoTime
<1>2. UnsavedIsUnknown
  BY Constants DEF Init, UnsavedIsUnknown
<1>3. KeysAreRight /\ CancelsHaveReason /\ LoopHasReason
  BY Constants DEF Init, KeysAreRight, CancelsHaveReason, LoopHasReason
<1>4. DeliverableAgain /\ KeptOnceSaved /\ DeliveredOnce
  BY DEF Init, DeliverableAgain, KeptOnceSaved, DeliveredOnce
<1> QED BY <1>1, <1>2, <1>3, <1>4 DEF RedisInv

\* Time makes messages outdated and nothing else.
LEMMA TickInv == RedisInv /\ Tick => RedisInv'
<1> SUFFICES ASSUME RedisInv, Tick PROVE RedisInv'
  OBVIOUS
<1> USE DEF RedisInv
<1>1. TypeOK'
  BY RedisAssumption DEF Tick, TypeOK
<1>2. \A m \in Messages : Outdated(m) => Outdated(m)'
  BY RedisAssumption DEF Tick, TypeOK, Outdated
<1>3. UnsavedIsUnknown' /\ KeysAreRight' /\ CancelsHaveReason'
  BY DEF Tick, UnsavedIsUnknown, KeysAreRight, CancelsHaveReason
<1>4. LoopHasReason'
  BY <1>2, Constants DEF Tick, TypeOK, LoopHasReason
<1>5. DeliverableAgain' /\ DeliveredOnce'
  BY DEF Tick, DeliverableAgain, DeliveredOnce
<1>6. KeptOnceSaved'
  BY <1>2 DEF Tick, KeptOnceSaved
<1> QED BY <1>1, <1>3, <1>4, <1>5, <1>6

\* The hash is written first; whoever deletes it later has a reason.
LEMMA SaveEntryInv ==
    ASSUME RedisInv, NEW n \in Messages, SaveEntry(n)
    PROVE  RedisInv'
<1> USE DEF RedisInv
<1>1. TypeOK'
  BY ValidityType DEF SaveEntry, TypeOK
<1>2. \A m \in Messages \ {n} : Outdated(m)' = Outdated(m) /\ validity'[m] = validity[m]
  BY DEF SaveEntry, TypeOK, Outdated
<1>3. /\ n \notin entry \cup schedule \cup expiry \cup batch /\ deliveries[n] = 0
      /\ \A d \in Deleters : n \notin todo[d] /\ target[d] # n
  BY DEF SaveEntry, UnsavedIsUnknown
<1>4. UnsavedIsUnknown' /\ CancelsHaveReason'
  BY DEF SaveEntry, TypeOK, UnsavedIsUnknown, CancelsHaveReason
<1>5. KeysAreRight'
  BY <1>2, <1>3 DEF SaveEntry, Acceptable, TypeOK, KeysAreRight
<1>6. LoopHasReason'
  BY <1>2, <1>3, Constants DEF SaveEntry, TypeOK, LoopHasReason
<1>7. DeliverableAgain' /\ DeliveredOnce'
  BY <1>3 DEF SaveEntry, TypeOK, DeliverableAgain, DeliveredOnce
<1>8. KeptOnceSaved'
  BY <1>2 DEF SaveEntry, TypeOK, KeptOnceSaved
<1> QED BY <1>1, <1>4, <1>5, <1>6, <1>7, <1>8

\* The other commands of a save put the message into sets and take it out of none.
LEMMA SaveInv ==
    ASSUME RedisInv, NEW n \in Messages, SaveStep(n)
    PROVE  RedisInv'
<1> USE DEF RedisInv
<1>1. CASE SaveFails(n)
  <2>1. TypeOK'
    BY <1>1, FaultCount DEF SaveFails, TypeOK
  <2>2. UnsavedIsUnknown' /\ KeysAreRight' /\ CancelsHaveReason' /\ LoopHasReason'
    BY <1>1 DEF SaveFails, TypeOK, UnsavedIsUnknown, KeysAreRight, CancelsHaveReason, LoopHasReason,
                Outdated
  <2>3. DeliverableAgain' /\ DeliveredOnce'
    BY <1>1, FaultCount DEF SaveFails, TypeOK, DeliverableAgain, DeliveredOnce
  <2>4. KeptOnceSaved'
    BY <1>1, FaultCount DEF SaveFails, TypeOK, KeptOnceSaved, Outdated
  <2> QED BY <2>1, <2>2, <2>3, <2>4
<1>2. CASE SaveIndex(n)
  <2>0. Attr[n].id \in Ids /\ Attr[n].user \in Users
    BY <1>2, Constants DEF SaveIndex, KeysAreRight
  <2>1. TypeOK'
    BY <1>2, <2>0, FaultCount DEF SaveIndex, TypeOK
  <2>2. UnsavedIsUnknown'
    BY <1>2, <2>0 DEF SaveIndex, TypeOK, UnsavedIsUnknown
  <2>3. KeysAreRight'
    BY <1>2, <2>0 DEF SaveIndex, TypeOK, KeysAreRight
  <2>4. CancelsHaveReason' /\ LoopHasReason'
    BY <1>2 DEF SaveIndex, CancelsHaveReason, LoopHasReason, Outdated
  <2>5. DeliverableAgain' /\ DeliveredOnce'
    BY <1>2, FaultCount DEF SaveIndex, TypeOK, DeliverableAgain, DeliveredOnce
  <2>6. KeptOnceSaved'
    BY <1>2, FaultCount DEF SaveIndex, TypeOK, KeptOnceSaved, Outdated
  <2> QED BY <2>1, <2>2, <2>3, <2>4, <2>5, <2>6
<1>3. CASE SaveSchedule(n)
  <2>1. TypeOK'
    BY <1>3, FaultCount DEF SaveSchedule, TypeOK
  <2>2. UnsavedIsUnknown' /\ KeysAreRight' /\ CancelsHaveReason' /\ LoopHasReason'
    BY <1>3 DEF SaveSchedule, TypeOK, UnsavedIsUnknown, KeysAreRight, CancelsHaveReason,
                LoopHasReason, Outdated
  <2>3. DeliverableAgain' /\ DeliveredOnce'
    BY <1>3, FaultCount DEF SaveSchedule, TypeOK, DeliverableAgain, DeliveredOnce
  <2>4. KeptOnceSaved'
    BY <1>3, FaultCount DEF SaveSchedule, DbError, TypeOK, KeptOnceSaved, Outdated
  <2> QED BY <2>1, <2>2, <2>3, <2>4
<1>4. CASE SaveExpiry(n)
  <2>1. TypeOK'
    BY <1>4, FaultCount DEF SaveExpiry, TypeOK
  <2>2. UnsavedIsUnknown' /\ KeysAreRight' /\ CancelsHaveReason' /\ LoopHasReason'
    BY <1>4 DEF SaveExpiry, TypeOK, UnsavedIsUnknown, KeysAreRight, CancelsHaveReason,
                LoopHasReason, Outdated
  <2>3. DeliverableAgain' /\ DeliveredOnce'
    BY <1>4, FaultCount DEF SaveExpiry, TypeOK, DeliverableAgain, DeliveredOnce
  <2>4. KeptOnceSaved'
    BY <1>4, FaultCount DEF SaveExpiry, TypeOK, KeptOnceSaved, Outdated
  <2> QED BY <2>1, <2>2, <2>3, <2>4
<1> QED BY <1>1, <1>2, <1>3, <1>4, SaveEntryInv DEF SaveStep

\* delete_entry takes away the keys of its target and of no other message. When it is the
\* delivery task's, either the hash is gone or a command has failed.
LEMMA DeleteInv ==
    ASSUME RedisInv, NEW e \in Deleters, DeleteStep(e)
    PROVE  RedisInv'
<1> USE DEF RedisInv
<1>0. dpc[e] # "none" => /\ target[e] \in Messages /\ Attr[target[e]].id \in Ids
                         /\ Attr[target[e]].user \in Users \cup {NoField}
  BY Constants DEF CancelsHaveReason, LoopHasReason
<1>1. CASE DeleteGet(e)
  <2>1. TypeOK'
    BY <1>1, FaultCount DEF DeleteGet, TypeOK
  <2>2. UnsavedIsUnknown' /\ KeysAreRight'
    BY <1>1, Constants DEF DeleteGet, TypeOK, UnsavedIsUnknown, KeysAreRight
  <2>3. CancelsHaveReason' /\ LoopHasReason'
    BY <1>1, Constants DEF DeleteGet, TypeOK, CancelsHaveReason, LoopHasReason, Outdated
  <2>4. DeliveredOnce'
    BY <1>1, FaultCount DEF DeleteGet, TypeOK, DeliveredOnce
  <2>5. DeliverableAgain'
    <3>1. CASE DbError
      BY <1>1, <3>1, Constants DEF DeleteGet, DbError, TypeOK, DeliverableAgain, DeliveredOnce
    <3>2. CASE ~DbError
      BY <1>1, <3>2, Constants DEF DeleteGet, TypeOK, DeliverableAgain
    <3> QED BY <3>1, <3>2
  <2>6. KeptOnceSaved'
    BY <1>1, FaultCount DEF DeleteGet, TypeOK, KeptOnceSaved, Outdated
  <2> QED BY <2>1, <2>2, <2>3, <2>4, <2>5, <2>6
<1>2. CASE DeletePipe(e)
  <2> DEFINE t == target[e]
  <2>0. t \in Messages /\ Attr[t].id \in Ids /\ spc[t] # "idle"
    BY <1>0, <1>2 DEF DeletePipe, UnsavedIsUnknown
  <2>1. TypeOK'
    BY <1>2, <2>0, FaultCount DEF DeletePipe, TypeOK
  <2>2. UnsavedIsUnknown' /\ KeysAreRight'
    BY <1>2, <2>0 DEF DeletePipe, TypeOK, UnsavedIsUnknown, KeysAreRight
  <2>3. CancelsHaveReason' /\ LoopHasReason'
    BY <1>2, Constants DEF DeletePipe, TypeOK, CancelsHaveReason, LoopHasReason, Outdated
  <2>4. DeliveredOnce'
    BY <1>2, FaultCount DEF DeletePipe, TypeOK, DeliveredOnce
  <2>5. DeliverableAgain'
    <3>1. CASE DbError
      BY <1>2, <3>1, Constants DEF DeletePipe, DbError, TypeOK, DeliverableAgain, DeliveredOnce
    <3>2. CASE ~DbError
      BY <1>2, <2>0, <3>2, Constants DEF DeletePipe, TypeOK, DeliverableAgain
    <3> QED BY <3>1, <3>2
  <2>6. \/ deliveries[t] > 0 \/ Outdated(t)
        \/ \E c \in Cancels : IdOf[c] = Attr[t].id /\ cpc[c] # "idle"
    BY <1>2, Constants DEF DeletePipe, CancelsHaveReason, LoopHasReason
  <2>7. KeptOnceSaved'
    BY <1>2, <2>0, <2>6, FaultCount DEF DeletePipe, TypeOK, KeptOnceSaved, Outdated
  <2> QED BY <2>1, <2>2, <2>3, <2>4, <2>5, <2>7
<1>3. CASE DeleteCount(e)
  <2>1. TypeOK'
    BY <1>3, FaultCount, Constants DEF DeleteCount, Deleted, TypeOK
  <2>2. UnsavedIsUnknown' /\ KeysAreRight'
    BY <1>3, Constants DEF DeleteCount, Deleted, TypeOK, UnsavedIsUnknown, KeysAreRight
  <2>3. CancelsHaveReason' /\ LoopHasReason'
    BY <1>3, Constants DEF DeleteCount, Deleted, TypeOK, CancelsHaveReason, LoopHasReason, Outdated
  <2>4. DeliverableAgain' /\ DeliveredOnce'
    BY <1>3, FaultCount, Constants DEF DeleteCount, Deleted, TypeOK, DeliverableAgain, DeliveredOnce
  <2>5. KeptOnceSaved'
    BY <1>3, FaultCount DEF DeleteCount, TypeOK, KeptOnceSaved, Outdated
  <2> QED BY <2>1, <2>2, <2>3, <2>4, <2>5
<1>4. CASE DeleteDrop(e)
  <2>1. TypeOK'
    BY <1>0, <1>4, FaultCount, Constants DEF DeleteDrop, Deleted, TypeOK
  <2>2. UnsavedIsUnknown' /\ KeysAreRight'
    BY <1>0, <1>4, Constants DEF DeleteDrop, Deleted, TypeOK, UnsavedIsUnknown, KeysAreRight
  <2>3. CancelsHaveReason' /\ LoopHasReason'
    BY <1>4, Constants DEF DeleteDrop, Deleted, TypeOK, CancelsHaveReason, LoopHasReason, Outdated
  <2>4. DeliverableAgain' /\ DeliveredOnce'
    BY <1>4, FaultCount, Constants DEF DeleteDrop, Deleted, TypeOK, DeliverableAgain, DeliveredOnce
  <2>5. KeptOnceSaved'
    BY <1>4, FaultCount DEF DeleteDrop, TypeOK, KeptOnceSaved, Outdated
  <2> QED BY <2>1, <2>2, <2>3, <2>4, <2>5
<1> QED BY <1>1, <1>2, <1>3, <1>4 DEF DeleteStep

\* A cancel takes up the entries of the id it names.
LEMMA CancelInv ==
    ASSUME RedisInv, NEW c \in Cancels, CancelStep(c)
    PROVE  RedisInv'
<1> USE DEF RedisInv
<1>0. c \in Deleters /\ c # Loop /\ IdOf[c] \in Ids
  BY Constants
<1>1. CASE CancelStart(c)
  <2>1. TypeOK'
    BY <1>0, <1>1, FaultCount DEF CancelStart, TypeOK
  <2>2. UnsavedIsUnknown' /\ KeysAreRight'
    BY <1>0, <1>1 DEF CancelStart, TypeOK, UnsavedIsUnknown, KeysAreRight
  <2>3. CancelsHaveReason'
    BY <1>0, <1>1, Constants DEF CancelStart, TypeOK, KeysAreRight, CancelsHaveReason
  <2>4. LoopHasReason'
    BY <1>0, <1>1, Constants DEF CancelStart, TypeOK, LoopHasReason, Outdated
  <2>5. DeliverableAgain' /\ DeliveredOnce'
    BY <1>1, FaultCount DEF CancelStart, TypeOK, DeliverableAgain, DeliveredOnce
  <2>6. KeptOnceSaved'
    BY <1>1, FaultCount DEF CancelStart, TypeOK, KeptOnceSaved, Outdated
  <2> QED BY <2>1, <2>2, <2>3, <2>4, <2>5, <2>6
<1>2. CASE CancelNext(c)
  <2>0. PICK n \in todo[c] : Delete(c, n) /\ todo' = [todo EXCEPT ![c] = @ \ {n}]
    BY <1>2 DEF CancelNext
  <2>1. TypeOK'
    BY <1>0, <1>2, <2>0 DEF CancelNext, Delete, TypeOK
  <2>2. UnsavedIsUnknown' /\ KeysAreRight'
    BY <1>0, <1>2, <2>0 DEF CancelNext, Delete, TypeOK, UnsavedIsUnknown, KeysAreRight
  <2>3. CancelsHaveReason'
    BY <1>0, <1>2, <2>0, Constants DEF CancelNext, Delete, TypeOK, CancelsHaveReason
  <2>4. LoopHasReason'
    BY <1>0, <1>2, <2>0, Constants DEF CancelNext, Delete, TypeOK, LoopHasReason, Outdated
  <2>5. DeliverableAgain' /\ DeliveredOnce'
    BY <1>0, <1>2, <2>0, Constants DEF CancelNext, Delete, TypeOK, DeliverableAgain, DeliveredOnce
  <2>6. KeptOnceSaved'
    BY <1>2 DEF CancelNext, KeptOnceSaved, Outdated
  <2> QED BY <2>1, <2>2, <2>3, <2>4, <2>5, <2>6
<1>3. CASE CancelReturns(c)
  <2>1. TypeOK'
    BY <1>3 DEF CancelReturns, TypeOK
  <2>2. UnsavedIsUnknown' /\ KeysAreRight' /\ LoopHasReason' /\ DeliverableAgain' /\ DeliveredOnce'
    BY <1>3 DEF CancelReturns, UnsavedIsUnknown, KeysAreRight, LoopHasReason, Outdated,
                DeliverableAgain, DeliveredOnce
  <2>3. CancelsHaveReason' /\ KeptOnceSaved'
    BY <1>3 DEF CancelReturns, TypeOK, CancelsHaveReason, KeptOnceSaved, Outdated
  <2> QED BY <2>1, <2>2, <2>3
<1> QED BY <1>1, <1>2, <1>3 DEF CancelStep

\* The delivery task takes up what is outdated, or due.
LEMMA StartInv ==
    ASSUME RedisInv, CleanStart \/ CollectStart \/ CollectEnds \/ DeliverEnds
    PROVE  RedisInv'
<1> USE DEF RedisInv
<1>1. TypeOK'
  BY Constants DEF CleanStart, CollectStart, CollectEnds, DeliverEnds, TypeOK
<1>2. UnsavedIsUnknown' /\ KeysAreRight'
  BY Constants DEF CleanStart, CollectStart, CollectEnds, DeliverEnds, TypeOK, UnsavedIsUnknown,
                   KeysAreRight
<1>3. CancelsHaveReason'
  BY Constants DEF CleanStart, CollectStart, CollectEnds, DeliverEnds, TypeOK, CancelsHaveReason
<1>4. LoopHasReason'
  BY Constants DEF CleanStart, CollectStart, CollectEnds, DeliverEnds, TypeOK, KeysAreRight,
                   LoopHasReason, Outdated
<1>5. DeliverableAgain' /\ DeliveredOnce' /\ KeptOnceSaved'
  BY DEF CleanStart, CollectStart, CollectEnds, DeliverEnds, DeliverableAgain, DeliveredOnce,
         KeptOnceSaved, Outdated
<1> QED BY <1>1, <1>2, <1>3, <1>4, <1>5

\* It deletes what is outdated.
LEMMA CleanNextInv == RedisInv /\ CleanNext => RedisInv'
<1> SUFFICES ASSUME RedisInv, CleanNext PROVE RedisInv'
  OBVIOUS
<1> USE DEF RedisInv
<1>1. CASE todo[Loop] = {}
  <2>1. lpc' = "wait" /\ UNCHANGED <<now, keyVars, spc, cancelVars, todo, deleteVars, batch,
                                     deliveries, countVars>>
    BY <1>1 DEF CleanNext
  <2>2. TypeOK' /\ UnsavedIsUnknown' /\ KeysAreRight' /\ CancelsHaveReason' /\ LoopHasReason'
    BY <2>1 DEF TypeOK, UnsavedIsUnknown, KeysAreRight, CancelsHaveReason, LoopHasReason, Outdated
  <2>3. DeliverableAgain' /\ KeptOnceSaved' /\ DeliveredOnce'
    BY <2>1 DEF DeliverableAgain, KeptOnceSaved, DeliveredOnce, Outdated
  <2> QED BY <2>2, <2>3
<1>2. ASSUME NEW n \in todo[Loop], Delete(Loop, n), todo' = [todo EXCEPT ![Loop] = @ \ {n}],
             UNCHANGED lpc
      PROVE  RedisInv'
  <2>0. /\ lpc = "clean" /\ dpc[Loop] = "none" /\ n \in Messages
        /\ UNCHANGED <<now, keyVars, spc, cancelVars, lpc, batch, deliveries, countVars>>
    BY <1>2, Constants DEF CleanNext, Running, TypeOK
  <2>1. TypeOK'
    BY <1>2, <2>0, Constants DEF Delete, TypeOK
  <2>2. UnsavedIsUnknown' /\ KeysAreRight'
    BY <1>2, <2>0, Constants DEF Delete, TypeOK, UnsavedIsUnknown, KeysAreRight
  <2>3. CancelsHaveReason'
    BY <1>2, <2>0, Constants DEF Delete, TypeOK, CancelsHaveReason
  <2>4. LoopHasReason'
    BY <1>2, <2>0, Constants DEF Delete, TypeOK, LoopHasReason, Outdated
  <2>5. DeliverableAgain' /\ DeliveredOnce'
    BY <1>2, <2>0, Constants DEF Delete, TypeOK, DeliverableAgain, DeliveredOnce
  <2>6. KeptOnceSaved'
    BY <2>0 DEF KeptOnceSaved, Outdated
  <2> QED BY <2>1, <2>2, <2>3, <2>4, <2>5, <2>6
<1> QED BY <1>1, <1>2 DEF CleanNext

\* What it collects has a hash, and no delete of its own under way.
LEMMA CollectNextInv == RedisInv /\ CollectNext => RedisInv'
<1> SUFFICES ASSUME RedisInv, CollectNext PROVE RedisInv'
  OBVIOUS
<1> USE DEF RedisInv
<1>1. PICK n \in todo[Loop] : CollectNext!2!(n)
  BY DEF CollectNext
<1>2. /\ lpc = "collect" /\ dpc[Loop] = "none" /\ n \in Messages /\ spc[n] # "idle"
      /\ todo' = [todo EXCEPT ![Loop] = @ \ {n}]
      /\ UNCHANGED <<now, keyVars, spc, cancelVars, lpc, deliveries>>
  BY <1>1, Constants DEF CollectNext, Running, TypeOK, UnsavedIsUnknown
<1>3. \/ Expired(n) /\ Delete(Loop, n) /\ UNCHANGED <<batch, countVars>>
      \/ /\ DbError \/ UNCHANGED countVars
         /\ UNCHANGED deleteVars
         /\ batch' = batch \/ (n \in entry /\ batch' = batch \cup {n})
  BY <1>1
<1>4. CASE Expired(n) /\ Delete(Loop, n) /\ UNCHANGED <<batch, countVars>>
  <2>0. Outdated(n)
    BY <1>2, <1>4, RedisAssumption DEF Expired, Outdated, TypeOK
  <2>1. TypeOK'
    BY <1>2, <1>4, Constants DEF Delete, TypeOK
  <2>2. UnsavedIsUnknown' /\ KeysAreRight'
    BY <1>2, <1>4, Constants DEF Delete, TypeOK, UnsavedIsUnknown, KeysAreRight
  <2>3. CancelsHaveReason'
    BY <1>2, <1>4, Constants DEF Delete, TypeOK, CancelsHaveReason
  <2>4. LoopHasReason'
    BY <1>2, <1>4, <2>0, Constants DEF Delete, TypeOK, LoopHasReason, Outdated
  <2>5. DeliverableAgain' /\ DeliveredOnce'
    BY <1>2, <1>4, Constants DEF Delete, TypeOK, DeliverableAgain, DeliveredOnce
  <2>6. KeptOnceSaved'
    BY <1>2, <1>4 DEF KeptOnceSaved, Outdated
  <2> QED BY <2>1, <2>2, <2>3, <2>4, <2>5, <2>6
<1>5. CASE /\ DbError \/ UNCHANGED countVars
           /\ UNCHANGED deleteVars
           /\ batch' = batch \/ (n \in entry /\ batch' = batch \cup {n})
  <2>1. TypeOK'
    BY <1>2, <1>5, FaultCount, Constants DEF TypeOK
  <2>2. UnsavedIsUnknown' /\ KeysAreRight'
    BY <1>2, <1>5, Constants DEF TypeOK, UnsavedIsUnknown, KeysAreRight
  <2>3. CancelsHaveReason' /\ LoopHasReason'
    BY <1>2, <1>5, Constants DEF TypeOK, CancelsHaveReason, LoopHasReason, Outdated
  <2>4. DeliverableAgain' /\ DeliveredOnce'
    BY <1>2, <1>5, FaultCount DEF TypeOK, DeliverableAgain, DeliveredOnce
  <2>5. KeptOnceSaved'
    BY <1>2, <1>5, FaultCount DEF KeptOnceSaved, Outdated
  <2> QED BY <2>1, <2>2, <2>3, <2>4, <2>5
<1> QED BY <1>3, <1>4, <1>5

\* A message is deleted once the handler has it.
LEMMA HandleDueInv == RedisInv /\ HandleDue => RedisInv'
<1> SUFFICES ASSUME RedisInv, HandleDue PROVE RedisInv'
  OBVIOUS
<1> USE DEF RedisInv
<1>1. PICK n \in batch : /\ batch' = batch \ {n} /\ Delete(Loop, n)
                         /\ deliveries' = [deliveries EXCEPT ![n] = @ + 1]
  BY DEF HandleDue
<1>2. /\ lpc = "deliver" /\ dpc[Loop] = "none" /\ n \in Messages /\ spc[n] # "idle"
      /\ UNCHANGED <<now, keyVars, spc, cancelVars, todo, lpc, countVars>>
  BY <1>1, Constants DEF HandleDue, Running, TypeOK, UnsavedIsUnknown
<1>3. /\ deliveries'[n] = deliveries[n] + 1 /\ deliveries[n] \in Nat
      /\ \A m \in Messages \ {n} : deliveries'[m] = deliveries[m]
  BY <1>1, <1>2 DEF TypeOK
<1>4. TypeOK'
  BY <1>1, <1>2, Constants DEF Delete, TypeOK
<1>5. UnsavedIsUnknown' /\ KeysAreRight'
  BY <1>1, <1>2, <1>3, Constants DEF Delete, TypeOK, UnsavedIsUnknown, KeysAreRight
<1>6. CancelsHaveReason'
  BY <1>1, <1>2, Constants DEF Delete, TypeOK, CancelsHaveReason
<1>7. LoopHasReason'
  BY <1>1, <1>2, <1>3, Constants DEF Delete, TypeOK, LoopHasReason
<1>8. DeliverableAgain'
  BY <1>1, <1>2, <1>3, Constants DEF Delete, TypeOK, DeliverableAgain
<1>9. DeliveredOnce'
  BY <1>1, <1>2, <1>3 DEF TypeOK, DeliverableAgain, DeliveredOnce
<1>10. KeptOnceSaved'
  BY <1>1, <1>2, <1>3 DEF TypeOK, KeptOnceSaved, Outdated
<1> QED BY <1>4, <1>5, <1>6, <1>7, <1>8, <1>9, <1>10

\* A message the handler refuses keeps its keys.
LEMMA HandleFailsInv == RedisInv /\ HandleFails => RedisInv'
<1> SUFFICES ASSUME RedisInv, HandleFails PROVE RedisInv'
  OBVIOUS
<1> USE DEF RedisInv
<1>1. TypeOK'
  BY DEF HandleFails, TypeOK
<1>2. UnsavedIsUnknown' /\ KeysAreRight' /\ CancelsHaveReason' /\ LoopHasReason'
  BY DEF HandleFails, UnsavedIsUnknown, KeysAreRight, CancelsHaveReason, LoopHasReason, Outdated
<1>3. DeliverableAgain' /\ KeptOnceSaved' /\ DeliveredOnce'
  BY DEF HandleFails, DeliverableAgain, KeptOnceSaved, DeliveredOnce, Outdated
<1> QED BY <1>1, <1>2, <1>3

\* A crash leaves the keys as they are.
LEMMA CrashInv == RedisInv /\ Crash => RedisInv'
<1> SUFFICES ASSUME RedisInv, Crash PROVE RedisInv'
  OBVIOUS
<1> USE DEF RedisInv
<1>1. TypeOK'
  BY DEF Crash, TypeOK
<1>2. UnsavedIsUnknown' /\ KeysAreRight'
  BY Constants DEF Crash, TypeOK, UnsavedIsUnknown, KeysAreRight
<1>3. CancelsHaveReason' /\ LoopHasReason'
  BY Constants DEF Crash, TypeOK, CancelsHaveReason, LoopHasReason
<1>4. DeliverableAgain' /\ DeliveredOnce'
  BY DEF Crash, TypeOK, DeliverableAgain, DeliveredOnce
<1>5. KeptOnceSaved'
  BY DEF Crash, TypeOK, KeptOnceSaved, Outdated
<1> QED BY <1>1, <1>2, <1>3, <1>4, <1>5

\* A step that changes nothing keeps the invariant.
LEMMA RedisStutter == RedisInv /\ UNCHANGED vars => RedisInv'
BY DEF vars, RedisInv, TypeOK, UnsavedIsUnknown, KeysAreRight, CancelsHaveReason, LoopHasReason,
       Outdated, DeliverableAgain, KeptOnceSaved, DeliveredOnce

\* The invariant holds in every state.
LEMMA RedisInvariant == Spec => []RedisInv
<1>1. RedisInv /\ [Next]_vars => RedisInv'
  BY TickInv, SaveInv, DeleteInv, CancelInv, StartInv, CleanNextInv, CollectNextInv, HandleDueInv,
     HandleFailsInv, CrashInv, RedisStutter DEF Next, LoopStep
<1> QED BY RedisInitInv, <1>1, PTL DEF Spec
-----------------------------------------------------------------------------
(***************************************************************************)
(* The results.                                                            *)
(***************************************************************************)

\* Every variable of the store keeps its type.
THEOREM RedisTypeCorrect == Spec => []TypeOK
<1>1. RedisInv => TypeOK
  BY DEF RedisInv
<1> QED BY <1>1, RedisInvariant, PTL

\* An accepted message loses its hash only when it was delivered, is outdated or a cancel of
\* its id was made, and as long as it has it, it is scheduled unless a command failed: for
\* any interleaving of the commands of saves, cancels and the delivery task, none of which
\* is a transaction.
THEOREM RedisNoLoss == Spec => []NoSilentLoss
<1>1. RedisInv => NoSilentLoss
  BY DEF RedisInv, KeptOnceSaved, Outdated, NoSilentLoss
<1> QED BY <1>1, RedisInvariant, PTL

\* A message is handed over once, and once more for every crash or failing command.
THEOREM RedisDelivery == Spec => []DeliveredOnce
<1>1. RedisInv => DeliveredOnce
  BY DEF RedisInv
<1> QED BY <1>1, RedisInvariant, PTL
=============================================================================
