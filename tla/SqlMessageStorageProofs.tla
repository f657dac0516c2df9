----------------------- MODULE SqlMessageStorageProofs -----------------------
(***************************************************************************)
(* Proofs about SqlMessageStorage, for any set of messages and commands,   *)
(* any clock and any number of crashes and failing statements.             *)
(***************************************************************************)
EXTENDS SqlMessageStorage, TLAPS

USE DEF baseVars, columns, saveVars, cancelVars, replaceVars, loopVars, countVars

(***************************************************************************)
(* The inductive invariant.                                                *)
(***************************************************************************)

\* Only a save that has returned success has a row.
RowsAreSaved == \A m \in rows : spc[m] = "ok"

\* What a save is still to delete was saved before, for the same addresses.
FoundIsPresent ==
    \A m \in Messages : \A x \in found[m] :
        /\ spc[x] = "ok" /\ spc[m] = "saving"
        /\ Attr[m].flag /\ Attr[x].key = Attr[m].key

\* The delivery task works on one batch at a time, and it holds a message once.
BatchIsWhole ==
    /\ lpc = "wait" => due = {}
    /\ lpc # "delete" => handling = {}
    /\ \A d, e \in due : d.msg = e.msg => d = e
    /\ \A d \in due, e \in handling : d.msg # e.msg
    /\ \A d \in due \cup handling : spc[d.msg] = "ok"
    /\ \A d \in handling : deliveries[d.msg] > 0

\* A message that can be handed over once more has been so only as often as a crash or a
\* failed DELETE came between.
DeliverableAgain ==
    /\ \A d \in due : deliveries[d.msg] <= crashes + dbErrors
    /\ \A m \in rows : (\A d \in handling : d.msg # m) => deliveries[m] <= crashes + dbErrors

\* A save only displaces rows of its addresses, and fails afterwards only for a reason.
DisplacedExplained ==
    \A n \in Messages : \A x \in displaced[n] :
        /\ x # n /\ spc[n] \in {"saving", "ok", "error"}
        /\ Attr[n].flag /\ Attr[x].key = Attr[n].key
        /\ spc[n] = "error" => SaveErrorExplained(n)

\* Only a new connection is without the table, and then without rows.
TableThere == ~table => recycles > 0 /\ rows = {}

SqlInv ==
    /\ TypeOK /\ RowsAreSaved /\ FoundIsPresent /\ BatchIsWhole /\ DeliverableAgain
    /\ DisplacedExplained /\ TableThere /\ DeliveredOnce /\ NoSilentLoss

-----------------------------------------------------------------------------
(***************************************************************************)
(* Type correctness.                                                       *)
(***************************************************************************)

\* The rows that are fetched have the type of a batch.
LEMMA FetchedType ==
    ASSUME TypeOK, NEW S \in SUBSET Messages
    PROVE  {[msg |-> m, at |-> sched[m], text |-> text[m]] : m \in S}
               \subseteq [msg : Messages, at : OptTime, text : Contents]
BY DEF TypeOK

\* A validity period is a time, or there is none.
LEMMA ValidityType ==
    ASSUME TypeOK, NEW m \in Messages
    PROVE  ValidityOf(m) \in Int
BY StorageAssumption DEF TypeOK, ValidityOf, Attrs, OptTime, Times, NoTime, BadTime

\* The table is empty and nothing is under way.
LEMMA SqlInitInv == Init => SqlInv
<1> SUFFICES ASSUME Init PROVE SqlInv
  OBVIOUS
<1>1. TypeOK
  BY StorageAssumption DEF Init, TypeOK, OptTime, NoTime, Contents
<1>2. RowsAreSaved /\ FoundIsPresent /\ BatchIsWhole /\ DeliverableAgain
  BY DEF Init, RowsAreSaved, FoundIsPresent, BatchIsWhole, DeliverableAgain
<1>3. DeliveredOnce /\ NoSilentLoss
  BY DEF Init, DeliveredOnce, NoSilentLoss
<1>4. DisplacedExplained /\ TableThere
  BY DEF Init, DisplacedExplained, TableThere
<1> QED BY <1>1, <1>2, <1>3, <1>4 DEF SqlInv

\* A sum of counters that do not fall stays positive.
LEMMA SumKept ==
    ASSUME NEW a \in Nat, NEW b \in Nat, NEW c \in Nat,
           NEW x \in Nat, NEW y \in Nat, NEW z \in Nat,
           x >= a, y >= b, z >= c, a + b + c > 0
    PROVE  x + y + z > 0
OBVIOUS

\* The reasons for a failed save do not go away.
LEMMA ExplainedKept ==
    ASSUME now \in Int, now' \in Int, now' >= now,
           crashes \in Nat, dbErrors \in Nat, recycles \in Nat,
           crashes' \in Nat, dbErrors' \in Nat, recycles' \in Nat,
           crashes' >= crashes, dbErrors' >= dbErrors, recycles' >= recycles,
           NEW n \in Messages, SaveErrorExplained(n)
    PROVE  SaveErrorExplained(n)'
<1>1. CASE crashes + dbErrors + recycles > 0
  <2>1. crashes' + dbErrors' + recycles' > 0
    BY <1>1, SumKept
  <2> QED BY <2>1 DEF SaveErrorExplained
<1>2. CASE ~Attr[n].dest
  BY <1>2 DEF SaveErrorExplained
<1>3. CASE Attr[n].sched # NoTime /\ Attr[n].sched < now
  <2>1. Attr[n].sched \in Int
    BY StorageAssumption DEF Attrs, OptTime, Times, NoTime
  <2>2. Attr[n].sched < now'
    BY <1>3, <2>1
  <2> QED BY <1>3, <2>2 DEF SaveErrorExplained
<1> QED BY <1>1, <1>2, <1>3 DEF SaveErrorExplained

\* A failing statement is counted, or it is the missing table's.
LEMMA FailureCounted ==
    ASSUME TypeOK, TableThere, StatementFails
    PROVE  /\ crashes' = crashes /\ recycles' = recycles /\ handlerErrors' = handlerErrors
           /\ dbErrors' \in Nat /\ dbErrors' >= dbErrors
           /\ crashes' + dbErrors' + recycles' > 0
BY DEF StatementFails, DbError, TypeOK, TableThere

\* What a step that leaves the saves alone, or the history of them, keeps.
LEMMA DisplacedKept ==
    ASSUME TypeOK, DisplacedExplained, TableThere, TypeOK',
           now' \in Int, now \in Int, now' >= now,
           crashes' >= crashes, dbErrors' >= dbErrors, recycles' >= recycles, table' = table, displaced' = displaced,
           ~table => rows' \subseteq rows,
           \A n \in Messages : displaced[n] # {} =>
               \/ spc'[n] = spc[n]
               \/ spc'[n] \in {"saving", "ok"}
               \/ spc'[n] = "error" /\ SaveErrorExplained(n)'
    PROVE  DisplacedExplained' /\ TableThere'
<1>1. TableThere'
  BY DEF TableThere, TypeOK
<1>2. ASSUME NEW n \in Messages, SaveErrorExplained(n) PROVE SaveErrorExplained(n)'
  BY <1>2, ExplainedKept DEF TypeOK
<1>3. DisplacedExplained'
  <2> SUFFICES ASSUME NEW n \in Messages, NEW x \in displaced[n]
               PROVE  /\ x # n /\ spc'[n] \in {"saving", "ok", "error"}
                      /\ Attr[n].flag /\ Attr[x].key = Attr[n].key
                      /\ spc'[n] = "error" => SaveErrorExplained(n)'
    BY DEF DisplacedExplained
  <2>1. spc[n] = "error" => SaveErrorExplained(n)'
    BY <1>2 DEF DisplacedExplained
  <2> QED BY <2>1 DEF DisplacedExplained
<1> QED BY <1>1, <1>3

\* The clock is a number.
LEMMA ClockType == TypeOK => now \in Int
BY StorageAssumption DEF TypeOK, Times

\* Time makes messages expire and nothing else.
LEMMA TickInv == SqlInv /\ Tick => SqlInv'
<1> SUFFICES ASSUME SqlInv, Tick PROVE SqlInv'
  OBVIOUS
<1> USE DEF SqlInv
<1>1. TypeOK'
  BY StorageAssumption DEF Tick, TypeOK, Times
<1>2. RowsAreSaved' /\ FoundIsPresent' /\ BatchIsWhole' /\ DeliverableAgain' /\ DeliveredOnce'
  BY DEF Tick, RowsAreSaved, FoundIsPresent, BatchIsWhole, DeliverableAgain, DeliveredOnce
<1>3. DisplacedExplained' /\ TableThere'
  BY <1>1, ClockType, DisplacedKept DEF Tick, TypeOK
<1>4. NoSilentLoss'
  <2>1. \A m \in Messages : Expired(m) => Expired(m)'
    BY ClockType DEF Tick, TypeOK, Expired
  <2>2. \A n \in Messages : SaveErrorExplained(n) => SaveErrorExplained(n)'
    BY <1>1, ClockType, ExplainedKept DEF Tick, TypeOK
  <2> QED BY <2>1, <2>2 DEF Tick, NoSilentLoss
<1> QED BY <1>1, <1>2, <1>3, <1>4

\* A save only deletes what it may replace, and its message is not lost once it is in.
LEMMA SaveInv ==
    ASSUME SqlInv, NEW n \in Messages, SaveStep(n)
    PROVE  SqlInv'
<1> USE DEF SqlInv
<1>1. CASE SelectPresent(n)
  <2>1. TypeOK'
    BY <1>1 DEF SelectPresent, TypeOK
  <2>2. RowsAreSaved' /\ FoundIsPresent'
    BY <1>1 DEF SelectPresent, TypeOK, RowsAreSaved, FoundIsPresent
  <2>3. BatchIsWhole' /\ DeliverableAgain' /\ DeliveredOnce'
    BY <1>1 DEF SelectPresent, TypeOK, BatchIsWhole, DeliverableAgain, DeliveredOnce
  <2>4. NoSilentLoss'
    BY <1>1 DEF SelectPresent, TypeOK, NoSilentLoss, Expired, SaveErrorExplained, DisplacedExplained
  <2>5. DisplacedExplained' /\ TableThere'
    BY <1>1, <2>1, ClockType, DisplacedKept DEF SelectPresent, TypeOK
  <2> QED BY <2>1, <2>2, <2>3, <2>4, <2>5
<1>2. CASE DeletePresent(n)
  <2>1. TypeOK'
    BY <1>2 DEF DeletePresent, TypeOK
  <2>2. RowsAreSaved' /\ FoundIsPresent'
    BY <1>2 DEF DeletePresent, TypeOK, RowsAreSaved, FoundIsPresent
  <2>3. BatchIsWhole' /\ DeliverableAgain' /\ DeliveredOnce'
    BY <1>2 DEF DeletePresent, BatchIsWhole, DeliverableAgain, DeliveredOnce
  <2>4. DisplacedExplained' /\ TableThere'
    BY <1>2 DEF DeletePresent, TypeOK, FoundIsPresent, DisplacedExplained, SaveErrorExplained,
                TableThere
  <2>5. NoSilentLoss'
    <3>1. PICK x \in found[n] :
              /\ rows' = rows \ {x}
              /\ displaced' = [displaced EXCEPT ![n] = @ \cup ({x} \cap rows)]
      BY <1>2 DEF DeletePresent
    <3>2. /\ x \in Messages /\ x # n /\ spc[n] = "saving"
          /\ Attr[n].flag /\ Attr[x].key = Attr[n].key
      BY <3>1 DEF TypeOK, FoundIsPresent
    <3>3. \A k \in Messages : displaced[k] \subseteq displaced'[k]
      BY <3>1 DEF TypeOK
    <3>4. x \in rows => x \in displaced'[n]
      BY <3>1 DEF TypeOK
    <3>5. \A m \in Messages : m \in rows /\ m \notin rows' => m = x
      BY <3>1
    <3>6. UNCHANGED <<spc, deliveries, cpc, canceled, validity, now, inMemory, wiped, countVars>>
      BY <1>2 DEF DeletePresent
    <3> QED BY <3>2, <3>3, <3>4, <3>5, <3>6 DEF NoSilentLoss, Expired, SaveErrorExplained
  <2> QED BY <2>1, <2>2, <2>3, <2>4, <2>5
<1>3. CASE Insert(n)
  <2>1. TypeOK'
    BY <1>3, ValidityType, StorageAssumption DEF Insert, TypeOK, Attrs
  <2>2. RowsAreSaved' /\ FoundIsPresent'
    BY <1>3 DEF Insert, TypeOK, RowsAreSaved, FoundIsPresent
  <2>3. BatchIsWhole' /\ DeliveredOnce'
    BY <1>3 DEF Insert, TypeOK, BatchIsWhole, DeliveredOnce
  <2>4. DeliverableAgain'
    BY <1>3 DEF Insert, TypeOK, DeliverableAgain, DeliveredOnce
  <2>5. NoSilentLoss'
    BY <1>3 DEF Insert, TypeOK, NoSilentLoss, Expired, SaveErrorExplained
  <2>6. DisplacedExplained' /\ TableThere'
    BY <1>3, <2>1, ClockType, DisplacedKept DEF Insert, TypeOK
  <2> QED BY <2>1, <2>2, <2>3, <2>4, <2>5, <2>6
<1>4. CASE SaveFails(n)
  <2>1. /\ spc[n] = "saving" /\ spc' = [spc EXCEPT ![n] = "error"]
        /\ found' = [found EXCEPT ![n] = {}]
        /\ UNCHANGED <<baseVars, columns, displaced, cancelVars, replaceVars, loopVars, deliveries>>
    BY <1>4 DEF SaveFails
  <2>2. /\ crashes' = crashes /\ recycles' = recycles /\ handlerErrors' = handlerErrors
        /\ dbErrors' \in Nat /\ dbErrors' >= dbErrors
    BY <1>4, FailureCounted DEF SaveFails, TypeOK
  <2>3. TypeOK'
    BY <2>1, <2>2 DEF TypeOK
  <2>4. RowsAreSaved' /\ FoundIsPresent'
    BY <2>1 DEF TypeOK, RowsAreSaved, FoundIsPresent
  <2>5. BatchIsWhole' /\ DeliverableAgain' /\ DeliveredOnce'
    BY <2>1, <2>2 DEF TypeOK, BatchIsWhole, DeliverableAgain, DeliveredOnce
  <2>6. SaveErrorExplained(n)'
    <3>1. CASE found[n] = {} /\ ~Acceptable(n) /\ UNCHANGED countVars
      <4>1. Attr[n].sched \in Int /\ now \in Int
        BY StorageAssumption, ClockType DEF Attrs, OptTime, Times, NoTime
      <4> QED BY <2>1, <3>1, <4>1 DEF Acceptable, SaveErrorExplained
    <3>2. CASE StatementFails
      BY <3>2, FailureCounted DEF SaveErrorExplained
    <3> QED BY <1>4, <3>1, <3>2 DEF SaveFails
  <2>7. DisplacedExplained' /\ TableThere'
    BY <2>1, <2>2, <2>3, <2>6, ClockType, DisplacedKept DEF TypeOK
  <2>8. NoSilentLoss'
    <3>1. \A k \in Messages : SaveErrorExplained(k) => SaveErrorExplained(k)'
      BY <2>1, <2>2, ClockType, ExplainedKept DEF TypeOK
    <3> QED BY <2>1, <2>6, <3>1 DEF TypeOK, NoSilentLoss, Expired
  <2> QED BY <2>3, <2>4, <2>5, <2>7, <2>8
<1> QED BY <1>1, <1>2, <1>3, <1>4 DEF SaveStep

\* A cancel records what it deleted.
LEMMA CancelInv ==
    ASSUME SqlInv, NEW c \in Cancels, CancelMessage(c)
    PROVE  SqlInv'
<1> USE DEF SqlInv
<1>1. /\ crashes' = crashes /\ recycles' = recycles /\ handlerErrors' = handlerErrors
      /\ dbErrors' \in Nat /\ dbErrors' >= dbErrors
  BY FailureCounted DEF CancelMessage, TypeOK
<1>2. TypeOK'
  BY <1>1 DEF CancelMessage, TypeOK
<1>3. RowsAreSaved' /\ FoundIsPresent'
  BY DEF CancelMessage, TypeOK, RowsAreSaved, FoundIsPresent
<1>4. BatchIsWhole' /\ DeliverableAgain' /\ DeliveredOnce'
  BY <1>1 DEF CancelMessage, TypeOK, BatchIsWhole, DeliverableAgain, DeliveredOnce
<1>5. DisplacedExplained' /\ TableThere'
  BY <1>1, <1>2, ClockType, DisplacedKept DEF CancelMessage, TypeOK
<1>6. NoSilentLoss'
  <2>1. \A k \in Messages : SaveErrorExplained(k) => SaveErrorExplained(k)'
    BY <1>1, ClockType, ExplainedKept DEF CancelMessage, TypeOK
  <2>2. UNCHANGED <<spc, displaced, deliveries, validity, now, inMemory, wiped>>
    BY DEF CancelMessage
  <2>3. CASE UNCHANGED <<rows, canceled>> /\ cpc' = [cpc EXCEPT ![c] = "error"] /\ cpc[c] = "idle"
    BY <2>1, <2>2, <2>3 DEF TypeOK, NoSilentLoss, Expired
  <2>4. CASE /\ cpc[c] = "idle"
             /\ rows' = rows \ {m \in rows : Matches(c, m)}
             /\ canceled' = [canceled EXCEPT ![c] = {m \in rows : Matches(c, m)}]
             /\ cpc' = [cpc EXCEPT ![c] =
                          IF {m \in rows : Matches(c, m)} # {} THEN "true" ELSE "false"]
    BY <2>1, <2>2, <2>4 DEF TypeOK, NoSilentLoss, Expired
  <2> QED BY <2>3, <2>4 DEF CancelMessage
<1> QED BY <1>2, <1>3, <1>4, <1>5, <1>6

\* A replace changes rows that are there and neither makes nor deletes one.
LEMMA ReplaceInv ==
    ASSUME SqlInv, NEW p \in Replaces, ReplaceStep(p)
    PROVE  SqlInv'
<1> USE DEF SqlInv
<1>1. CASE SelectForReplace(p)
  <2>1. TypeOK'
    BY <1>1 DEF SelectForReplace, TypeOK
  <2>2. RowsAreSaved' /\ FoundIsPresent' /\ BatchIsWhole' /\ DeliverableAgain' /\ DeliveredOnce'
    BY <1>1 DEF SelectForReplace, RowsAreSaved, FoundIsPresent, BatchIsWhole, DeliverableAgain,
                DeliveredOnce
  <2>3. NoSilentLoss'
    BY <1>1 DEF SelectForReplace, NoSilentLoss, Expired, SaveErrorExplained
  <2>4. DisplacedExplained' /\ TableThere'
    BY <1>1, <2>1, ClockType, DisplacedKept DEF SelectForReplace, TypeOK
  <2> QED BY <2>1, <2>2, <2>3, <2>4
<1>2. CASE UpdateRow(p)
  <2>1. TypeOK'
    <3>1. PICK m \in selected[p] : UpdateRow(p)!2!(m)
      BY <1>2 DEF UpdateRow
    <3>2. m \in Messages /\ Update[p].sched \in OptTime /\ Update[p].validity \in OptTime
      BY <3>1, StorageAssumption DEF TypeOK, ReplaceFields
    <3>3. sched' \in [Messages -> OptTime] /\ text' \in [Messages -> Contents]
      BY <3>1, <3>2 DEF TypeOK, Contents
    <3>4. validity' \in [Messages -> Int]
      BY <3>1, <3>2, StorageAssumption DEF TypeOK, OptTime, Times, NoTime
    <3>5. selected' \in [Replaces -> SUBSET Messages]
      BY <3>1 DEF TypeOK
    <3> QED BY <1>2, <3>3, <3>4, <3>5 DEF UpdateRow, TypeOK
  <2>2. RowsAreSaved' /\ FoundIsPresent' /\ BatchIsWhole' /\ DeliverableAgain' /\ DeliveredOnce'
    BY <1>2 DEF UpdateRow, RowsAreSaved, FoundIsPresent, BatchIsWhole, DeliverableAgain,
                DeliveredOnce
  <2>3. NoSilentLoss'
    BY <1>2 DEF UpdateRow, TypeOK, NoSilentLoss, Expired, SaveErrorExplained
  <2>4. DisplacedExplained' /\ TableThere'
    BY <1>2, <2>1, ClockType, DisplacedKept DEF UpdateRow, TypeOK
  <2> QED BY <2>1, <2>2, <2>3, <2>4
<1>3. CASE ReplaceFails(p)
  <2>1. /\ crashes' = crashes /\ recycles' = recycles /\ handlerErrors' = handlerErrors
        /\ dbErrors' \in Nat /\ dbErrors' >= dbErrors
    BY <1>3, FailureCounted DEF ReplaceFails, TypeOK
  <2>2. TypeOK'
    BY <1>3, <2>1 DEF ReplaceFails, TypeOK
  <2>3. RowsAreSaved' /\ FoundIsPresent' /\ BatchIsWhole'
    BY <1>3 DEF ReplaceFails, RowsAreSaved, FoundIsPresent, BatchIsWhole
  <2>4. DeliverableAgain' /\ DeliveredOnce'
    BY <1>3, <2>1 DEF ReplaceFails, TypeOK, BatchIsWhole, DeliverableAgain, DeliveredOnce
  <2>5. DisplacedExplained' /\ TableThere'
    BY <1>3, <2>1, <2>2, ClockType, DisplacedKept DEF ReplaceFails, TypeOK
  <2>6. NoSilentLoss'
    <3>1. \A k \in Messages : SaveErrorExplained(k) => SaveErrorExplained(k)'
      BY <1>3, <2>1, ClockType, ExplainedKept DEF ReplaceFails, TypeOK
    <3> QED BY <1>3, <3>1 DEF ReplaceFails, NoSilentLoss, Expired
  <2> QED BY <2>2, <2>3, <2>4, <2>5, <2>6
<1> QED BY <1>1, <1>2, <1>3 DEF ReplaceStep

\* The delivery task takes away what has expired or was handed over.
LEMMA LoopInv == SqlInv /\ LoopStep => SqlInv'
<1> SUFFICES ASSUME SqlInv, LoopStep PROVE SqlInv'
  OBVIOUS
<1> USE DEF SqlInv
<1>1. CASE CleanExpired
  <2>1. TypeOK' /\ RowsAreSaved' /\ FoundIsPresent' /\ BatchIsWhole'
    BY <1>1 DEF CleanExpired, TypeOK, RowsAreSaved, FoundIsPresent, BatchIsWhole
  <2>2. DeliverableAgain' /\ DeliveredOnce'
    BY <1>1 DEF CleanExpired, DeliverableAgain, DeliveredOnce
  <2>3. NoSilentLoss'
    BY <1>1 DEF CleanExpired, TypeOK, NoSilentLoss, Expired, SaveErrorExplained
  <2>4. DisplacedExplained' /\ TableThere'
    BY <1>1, <2>1, ClockType, DisplacedKept DEF CleanExpired, TypeOK
  <2> QED BY <2>1, <2>2, <2>3, <2>4
<1>2. CASE FetchDue
  <2> DEFINE S == {x \in rows : IsDue(x)}
  <2>1. /\ due' = {[msg |-> m, at |-> sched[m], text |-> text[m]] : m \in S}
        /\ handling = {} /\ handling' = {} /\ lpc' = "deliver"
    BY <1>2 DEF FetchDue, BatchIsWhole
  <2>2. due' \subseteq [msg : Messages, at : OptTime, text : Contents]
    <3>1. S \in SUBSET Messages
      BY DEF TypeOK
    <3> HIDE DEF S
    <3> QED BY <2>1, <3>1, FetchedType
  <2>3. TypeOK'
    BY <1>2, <2>1, <2>2 DEF FetchDue, TypeOK
  <2>4. RowsAreSaved' /\ FoundIsPresent' /\ DeliveredOnce'
    BY <1>2 DEF FetchDue, RowsAreSaved, FoundIsPresent, DeliveredOnce
  <2>5. BatchIsWhole'
    BY <1>2, <2>1 DEF FetchDue, TypeOK, RowsAreSaved, BatchIsWhole
  <2>6. DeliverableAgain'
    BY <1>2, <2>1 DEF FetchDue, TypeOK, DeliverableAgain
  <2>7. NoSilentLoss'
    BY <1>2 DEF FetchDue, NoSilentLoss, Expired, SaveErrorExplained
  <2>8. DisplacedExplained' /\ TableThere'
    BY <1>2, <2>3, ClockType, DisplacedKept DEF FetchDue, TypeOK
  <2> QED BY <2>3, <2>4, <2>5, <2>6, <2>7, <2>8
<1>3. CASE HandleDue
  <2>1. PICK d \in due : /\ due' = due \ {d} /\ handling' = {d}
                         /\ deliveries' = [deliveries EXCEPT ![d.msg] = @ + 1]
    BY <1>3 DEF HandleDue, EarliestDue
  <2>2. d.msg \in Messages /\ d \in [msg : Messages, at : OptTime, text : Contents]
    BY DEF TypeOK
  <2>3. TypeOK'
    BY <1>3, <2>1, <2>2 DEF HandleDue, TypeOK
  <2>4. RowsAreSaved' /\ FoundIsPresent'
    BY <1>3 DEF HandleDue, RowsAreSaved, FoundIsPresent
  <2>5. BatchIsWhole'
    BY <1>3, <2>1, <2>2 DEF HandleDue, TypeOK, BatchIsWhole
  <2>6. DeliverableAgain'
    BY <1>3, <2>1, <2>2 DEF HandleDue, TypeOK, BatchIsWhole, DeliverableAgain
  <2>7. DeliveredOnce'
    BY <1>3, <2>1, <2>2 DEF HandleDue, TypeOK, BatchIsWhole, DeliverableAgain, DeliveredOnce
  <2>8. NoSilentLoss'
    BY <1>3, <2>1, <2>2 DEF HandleDue, TypeOK, NoSilentLoss, Expired, SaveErrorExplained
  <2>9. DisplacedExplained' /\ TableThere'
    BY <1>3, <2>3, ClockType, DisplacedKept DEF HandleDue, TypeOK
  <2> QED BY <2>3, <2>4, <2>5, <2>6, <2>7, <2>8, <2>9
<1>4. CASE HandleFails
  <2>1. PICK d \in due : due' = due \ {d}
    BY <1>4 DEF HandleFails, EarliestDue
  <2>2. TypeOK'
    BY <1>4, <2>1 DEF HandleFails, TypeOK
  <2>3. RowsAreSaved' /\ FoundIsPresent' /\ DeliveredOnce'
    BY <1>4 DEF HandleFails, RowsAreSaved, FoundIsPresent, DeliveredOnce
  <2>4. BatchIsWhole' /\ DeliverableAgain'
    BY <1>4, <2>1 DEF HandleFails, BatchIsWhole, DeliverableAgain
  <2>5. NoSilentLoss'
    BY <1>4 DEF HandleFails, NoSilentLoss, Expired, SaveErrorExplained
  <2>6. DisplacedExplained' /\ TableThere'
    BY <1>4, <2>2, ClockType, DisplacedKept DEF HandleFails, TypeOK
  <2> QED BY <2>2, <2>3, <2>4, <2>5, <2>6
<1>5. CASE HandlePanics
  <2>1. TypeOK'
    BY <1>5 DEF HandlePanics, TypeOK
  <2>2. RowsAreSaved' /\ FoundIsPresent' /\ DeliveredOnce'
    BY <1>5 DEF HandlePanics, RowsAreSaved, FoundIsPresent, DeliveredOnce
  <2>3. BatchIsWhole' /\ DeliverableAgain'
    BY <1>5 DEF HandlePanics, BatchIsWhole, DeliverableAgain
  <2>4. NoSilentLoss'
    BY <1>5 DEF HandlePanics, NoSilentLoss, Expired, SaveErrorExplained
  <2>5. DisplacedExplained' /\ TableThere'
    BY <1>5, <2>1, ClockType, DisplacedKept DEF HandlePanics, TypeOK
  <2> QED BY <2>1, <2>2, <2>3, <2>4, <2>5
<1>6. CASE DeleteHandled
  <2>1. /\ crashes' = crashes /\ recycles' = recycles /\ handlerErrors' = handlerErrors
        /\ dbErrors' \in Nat /\ dbErrors' >= dbErrors
    BY <1>6, FailureCounted DEF DeleteHandled, TypeOK
  <2>2. rows' \subseteq rows
    BY <1>6 DEF DeleteHandled
  <2>3. TypeOK'
    BY <1>6, <2>1, <2>2 DEF DeleteHandled, TypeOK
  <2>4. RowsAreSaved' /\ FoundIsPresent'
    BY <1>6 DEF DeleteHandled, RowsAreSaved, FoundIsPresent
  <2>5. BatchIsWhole' /\ DeliveredOnce'
    BY <1>6, <2>1 DEF DeleteHandled, TypeOK, BatchIsWhole, DeliveredOnce
  <2>6. DeliverableAgain'
    <3>1. CASE rows' = rows \ {d.msg : d \in handling}
      BY <1>6, <2>1, <3>1 DEF DeleteHandled, TypeOK, BatchIsWhole, DeliverableAgain
    <3>2. CASE DbError /\ UNCHANGED rows
      BY <1>6, <3>2 DEF DeleteHandled, DbError, TypeOK, BatchIsWhole, DeliverableAgain, DeliveredOnce,
                        RowsAreSaved
    <3>3. CASE ~table /\ UNCHANGED countVars /\ UNCHANGED rows
      BY <1>6, <3>3 DEF DeleteHandled, TableThere, DeliverableAgain
    <3> QED BY <1>6, <3>1, <3>2, <3>3 DEF DeleteHandled, StatementFails
  <2>7. DisplacedExplained' /\ TableThere'
    BY <1>6, <2>1, <2>3, ClockType, DisplacedKept DEF DeleteHandled, TypeOK
  <2>8. NoSilentLoss'
    <3>1. \A k \in Messages : SaveErrorExplained(k) => SaveErrorExplained(k)'
      BY <1>6, <2>1, ClockType, ExplainedKept DEF DeleteHandled, TypeOK
    <3> QED BY <1>6, <3>1 DEF DeleteHandled, TypeOK, BatchIsWhole, NoSilentLoss, Expired
  <2> QED BY <2>3, <2>4, <2>5, <2>6, <2>7, <2>8
<1> QED BY <1>1, <1>2, <1>3, <1>4, <1>5, <1>6 DEF LoopStep

\* A new connection to an in-memory database takes all rows away, and the record says so.
LEMMA RecycleInv == SqlInv /\ Recycle => SqlInv'
<1> SUFFICES ASSUME SqlInv, Recycle PROVE SqlInv'
  OBVIOUS
<1> USE DEF SqlInv
<1>1. TypeOK'
  <2>1. /\ rows' \subseteq Messages /\ wiped' \subseteq Messages
        /\ recycles' \in Nat /\ table' \in BOOLEAN
    <3>1. rows \subseteq Messages /\ wiped \subseteq Messages /\ recycles \in Nat
      BY DEF TypeOK
    <3>2. /\ rows' = {} /\ wiped' = wiped \cup rows
          /\ recycles' = recycles + 1 /\ table' = FALSE
      BY DEF Recycle, Wipe
    <3>3. recycles' \in Nat
      BY <3>1, <3>2
    <3> HIDE DEF SqlInv
    <3> QED BY <3>1, <3>2, <3>3
  <2> QED BY <2>1 DEF Recycle, TypeOK
<1>2. RowsAreSaved' /\ FoundIsPresent' /\ BatchIsWhole'
  BY DEF Recycle, Wipe, RowsAreSaved, FoundIsPresent, BatchIsWhole
<1>3. DeliverableAgain' /\ DeliveredOnce'
  BY DEF Recycle, Wipe, DeliverableAgain, DeliveredOnce
<1>4. \A k \in Messages : SaveErrorExplained(k)'
  BY DEF Recycle, TypeOK, SaveErrorExplained
<1>5. DisplacedExplained' /\ TableThere'
  BY <1>4 DEF Recycle, Wipe, TypeOK, DisplacedExplained, TableThere
<1>6. NoSilentLoss'
  BY <1>4 DEF Recycle, Wipe, NoSilentLoss, Expired
<1> QED BY <1>1, <1>2, <1>3, <1>5, <1>6

\* A crash leaves the table as it is, unless it is in memory.
LEMMA CrashInv == SqlInv /\ Crash => SqlInv'
<1> SUFFICES ASSUME SqlInv, Crash PROVE SqlInv'
  OBVIOUS
<1> USE DEF SqlInv
<1>1. rows' \subseteq rows /\ wiped \subseteq wiped' /\ wiped' \subseteq wiped \cup rows
  BY DEF Crash, Wipe
<1>2. TypeOK'
  BY <1>1 DEF Crash, TypeOK
<1>3. RowsAreSaved' /\ FoundIsPresent' /\ BatchIsWhole'
  BY <1>1 DEF Crash, TypeOK, RowsAreSaved, FoundIsPresent, BatchIsWhole
<1>4. DeliverableAgain' /\ DeliveredOnce'
  BY <1>1 DEF Crash, TypeOK, RowsAreSaved, DeliverableAgain, DeliveredOnce
<1>5. \A k \in Messages : SaveErrorExplained(k)'
  BY DEF Crash, TypeOK, SaveErrorExplained
<1>6. DisplacedExplained' /\ TableThere'
  BY <1>5 DEF Crash, TypeOK, DisplacedExplained, TableThere
<1>7. NoSilentLoss'
  <2>1. \A k \in Messages :
            /\ spc'[k] = "ok" => spc[k] = "ok"
            /\ spc[k] # "saving" => spc'[k] = spc[k]
            /\ spc[k] = "saving" => spc'[k] = "error"
    BY DEF Crash, TypeOK
  <2>2. \A k \in rows : k \notin rows' => inMemory' /\ k \in wiped'
    BY DEF Crash, Wipe
  <2>3. UNCHANGED <<deliveries, cpc, canceled, validity, now, inMemory, displaced>>
    BY DEF Crash
  <2> SUFFICES ASSUME NEW m \in Messages, spc'[m] = "ok", m \notin rows'
               PROVE  \/ deliveries[m] > 0
                      \/ \E c \in Cancels : cpc[c] = "true" /\ m \in canceled[c]
                      \/ Expired(m)
                      \/ inMemory /\ m \in wiped'
                      \/ \E n \in Messages \ {m} :
                            /\ m \in displaced[n]
                            /\ Attr[n].flag /\ Attr[n].key = Attr[m].key
                            /\ \/ spc'[n] \in {"saving", "ok"}
                               \/ spc'[n] = "error" /\ SaveErrorExplained(n)'
    BY <2>3 DEF NoSilentLoss, Expired
  <2>4. CASE m \in rows
    BY <2>2, <2>3, <2>4
  <2>5. CASE m \notin rows
    <3>1. spc[m] = "ok" /\ \A k \in Messages : spc[k] = "ok" => spc'[k] = "ok"
      BY <2>1
    <3>2. \A k \in Messages : spc[k] \in {"saving", "error"} => spc'[k] = "error"
      BY <2>1
    <3>3. \/ deliveries[m] > 0
          \/ \E c \in Cancels : cpc[c] = "true" /\ m \in canceled[c]
          \/ Expired(m)
          \/ inMemory /\ m \in wiped
          \/ \E n \in Messages \ {m} :
                /\ m \in displaced[n]
                /\ Attr[n].flag /\ Attr[n].key = Attr[m].key
                /\ spc[n] \in {"saving", "ok", "error"}
      BY <2>5, <3>1 DEF NoSilentLoss
    <3> QED BY <1>1, <1>5, <3>1, <3>2, <3>3
  <2> QED BY <2>4, <2>5
<1> QED BY <1>2, <1>3, <1>4, <1>6, <1>7

\* Every step keeps the invariant.
LEMMA SqlNextInv == SqlInv /\ [Next]_vars => SqlInv'
<1> SUFFICES ASSUME SqlInv, [Next]_vars PROVE SqlInv'
  OBVIOUS
<1>1. CASE UNCHANGED vars
  BY <1>1 DEF vars, SqlInv, TypeOK, RowsAreSaved, FoundIsPresent, BatchIsWhole, DeliverableAgain,
              DeliveredOnce, NoSilentLoss, Expired, DisplacedExplained, TableThere,
              SaveErrorExplained
<1> QED BY <1>1, TickInv, SaveInv, CancelInv, ReplaceInv, LoopInv, RecycleInv, CrashInv DEF Next

\* The invariant holds in every state.
LEMMA SqlInvariant == Spec => []SqlInv
BY SqlInitInv, SqlNextInv, PTL DEF Spec

-----------------------------------------------------------------------------
(***************************************************************************)
(* The results.                                                            *)
(***************************************************************************)

\* Every variable of the store keeps its type.
THEOREM SqlTypeCorrect == Spec => []TypeOK
<1>1. SqlInv => TypeOK
  BY DEF SqlInv
<1> QED BY <1>1, SqlInvariant, PTL

\* A message that save accepted leaves the table only because it was delivered, cancelled,
\* has expired, went away with an in-memory database or was deleted for a message that
\* takes its place or whose save a fault or the message itself has ended, however the
\* statements of saves, cancels, replaces and the delivery task interleave.
THEOREM SqlNoLoss == Spec => []NoSilentLoss
<1>1. SqlInv => NoSilentLoss
  BY DEF SqlInv
<1> QED BY <1>1, SqlInvariant, PTL

\* The handler gets a message at most once more than there were crashes and failed
\* statements, and never one whose save was refused.
THEOREM SqlDelivery == Spec => []DeliveredOnce
<1>1. SqlInv => DeliveredOnce
  BY DEF SqlInv
<1> QED BY <1>1, SqlInvariant, PTL

\* A row that has left the table never comes back.
THEOREM SqlGone == Spec => GoneForGood
<1> DEFINE Stays == \A m \in Messages : spc[m] = "ok" /\ m \notin rows => m \notin rows'
<1>1. SqlInv /\ [Next]_vars => [Stays]_vars
  <2> SUFFICES ASSUME SqlInv, Next PROVE Stays
    OBVIOUS
  <2>1. ASSUME NEW n \in Messages, SaveStep(n) PROVE Stays
    BY <2>1 DEF SaveStep, SelectPresent, DeletePresent, Insert, SaveFails, SqlInv, TypeOK
  <2>2. ASSUME NEW c \in Cancels, CancelMessage(c) PROVE Stays
    BY <2>2 DEF CancelMessage
  <2>3. ASSUME NEW p \in Replaces, ReplaceStep(p) PROVE Stays
    BY <2>3 DEF ReplaceStep, SelectForReplace, UpdateRow, ReplaceFails
  <2>4. CASE LoopStep
    BY <2>4 DEF LoopStep, CleanExpired, FetchDue, HandleDue, HandleFails, HandlePanics, DeleteHandled
  <2> QED BY <2>1, <2>2, <2>3, <2>4 DEF Next, Tick, Recycle, Crash, Wipe
<1> QED BY <1>1, SqlInvariant, PTL DEF Spec, GoneForGood
=============================================================================
