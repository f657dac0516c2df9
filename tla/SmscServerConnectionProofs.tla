--------------------- MODULE SmscServerConnectionProofs ---------------------
(***************************************************************************)
(* Proofs about SmscServerConnection, for any number of connections and    *)
(* PDUs, any address ranges and whatever the outside does.                 *)
(***************************************************************************)
EXTENDS SmscServerConnection, TLAPS

USE DEF connVars, waitVars, routeVars, storeVars, clientVars, enquireVars, sentVars, histVars, worldVars

(***************************************************************************)
(* The inductive invariant.                                                *)
(***************************************************************************)

\* PDUs in an inbox.
Pdus ==
    [kind : {"bind", "unbind"}] \cup [kind : {"submit"}, sub : Submits]
        \cup [kind : {"ask"}, ask : Asks]
        \cup [kind : {"resp"}, seq : Nat, status : {"ok", "fail"}]

\* c has a submit in hand; it waits for a response or is about to.
Busy(c) == pc[c] \in {"dest", "http", "forward", "register", "wait"}
Waits(c) == pc[c] \in {"forward", "register", "wait"}

\* The server's own deliver_sm that are being sent.
Own == {t \in sends : t.by # "rest"}

\* The types of what TypeOK leaves open.
RecordsTyped ==
    /\ inbox \in [Conns -> Seq(Pdus)]
    /\ written \subseteq [seq : Nat, conn : Conns]
    /\ unanswered \subseteq [seq : Nat, conn : Conns]
    /\ heard \subseteq [seq : Nat, conn : Conns, status : {"ok", "fail"}]
    /\ forwards \subseteq [seq : Nat, sub : Submits, dest : Addresses]
    /\ stored \subseteq [msg : Nat, sub : Submits, at : Nat, dest : Addresses]
    /\ assigned \subseteq [seq : Nat, msg : Nat, sub : Submits, at : Nat]
    /\ refused \subseteq [seq : Nat, conns : SUBSET Conns]
    /\ courier = [stage |-> courier.stage, msg |-> courier.msg]
    /\ \A c \in Conns : Busy(c) => job[c] \in Submits /\ at[c] \in Nat \ {0}

\* A client only answers what was written to it.
AnswersToWritten ==
    /\ \A u \in unanswered : u \in written \/ u.seq \in rest
    /\ \A c \in Conns : \A k \in 1 .. Len(inbox[c]) :
          inbox[c][k].kind = "resp" => \/ inbox[c][k].seq \in rest
                                       \/ [seq |-> inbox[c][k].seq, conn |-> c] \in written

\* A call of send_message has a caller that waits for its end; a REST caller's has its number.
CallersWait ==
    /\ \A t \in sends : /\ t.by \in Conns => pc[t.by] = "forward" /\ seqOf[t.by] = t.seq
                        /\ t.by = "store" => courier.stage = "busy"
                        /\ t.by = "rest" => t.seq \in rest
    /\ \A t, u \in sends : t.by = "store" /\ u.by = "store" => t = u

\* NobodyPassedOver, and what it rests on: the clients a call has tried have failed it.
TriedFailed ==
    /\ \A t \in sends : \A c \in t.tried : CanFail(c)
    /\ NobodyPassedOver

\* The number of a message is in one place: with a datagram that has not run, in a call, or
\* written to one client.
NumbersFresh ==
    /\ \A f \in forwards : /\ f.seq < nextSeq
                           /\ \A t \in Own : t.seq # f.seq
                           /\ \A w \in written : w.seq # f.seq
    /\ \A f, g \in forwards : f.seq = g.seq => f = g
    /\ \A t \in Own : t.seq < nextSeq /\ \A w \in written : w.seq # t.seq
    /\ \A t, u \in Own : t.seq = u.seq => t = u
    /\ \A w \in written : w.seq < nextSeq
    /\ \A v, w \in written : v.seq = w.seq => v = w

\* The delivery task has handed m over, or is about to.
InHand(m) == courier.stage \in {"busy", "handed"} /\ courier.msg = m

\* A number is given to one message, and a message gets another one only if the store could
\* not delete it.
MessagesNumbered ==
    /\ \A p \in assigned : p.seq < nextSeq /\ p.msg < nextSeq
    /\ \A p, q \in assigned : p.seq = q.seq => p = q
    /\ \A p, q \in assigned : p.msg = q.msg => p = q \/ p.msg \in again
    /\ \A m \in stored : m.msg < nextSeq
    /\ \A m, k \in stored : m.msg = k.msg => m = k
    /\ \A m \in stored, p \in assigned : p.msg = m.msg => m.msg \in again \/ InHand(m)

\* The part of the invariant about messages on their way to a client.
RoutesInv == CallersWait /\ TriedFailed /\ NumbersFresh /\ MessagesNumbered

\* Two tasks never wait for the same number.
WaitersDiffer ==
    /\ \A c \in Conns : Waits(c) => seqOf[c] < nextSeq
    /\ \A c, d \in Conns : Waits(c) /\ Waits(d) /\ seqOf[c] = seqOf[d] => c = d

\* TableMatchesWaiters entry by entry, and that only a task that waits has a response.
TableByEntry ==
    /\ \A c \in Conns : pc[c] # "wait" => chan[c] = "none"
    /\ \A n \in Nat, c \in Conns :
          [seq |-> n, conn |-> c] \in transactions <=>
              pc[c] = "wait" /\ chan[c] = "none" /\ seqOf[c] = n

\* A response with success to number n has come from a client it was written to, or n is a
\* number of a REST caller.
HeardOk(n) ==
    \/ n \in rest
    \/ \E h \in heard : /\ h.seq = n /\ h.status = "ok"
                        /\ [seq |-> h.seq, conn |-> h.conn] \in written

\* The response a task has is one to its number.
ResponseIsHeard == \A c \in Conns : chan[c] = "ok" => HeardOk(seqOf[c])

\* Destination i of the submit s was answered with success.
Answered(s, i) == \E p \in assigned : p.sub = s /\ p.at = i /\ HeardOk(p.seq)

\* The task that waits does so for the number of its current destination.
WaitsForCurrent ==
    \A c \in Conns : Waits(c) =>
        /\ Work(c).mode = "transaction"
        /\ \E p \in assigned : p.seq = seqOf[c] /\ p.sub = job[c] /\ p.at = at[c]

\* As long as no destination of a transaction has failed, those behind it are answered.
DestsAnswered ==
    \A c \in Conns : Busy(c) /\ Work(c).mode = "transaction" /\ ~failed[c] =>
        \A i \in 1 .. Len(Work(c).dests) :
            i < at[c] /\ Work(c).dests[i] \notin Local => Answered(job[c], i)

\* OkMeansAnswered.
OutcomesAnswered ==
    \A s \in Submits : Load[s].mode = "transaction" /\ outcome[s] = "ok" =>
        \A i \in 1 .. Len(Load[s].dests) : Load[s].dests[i] \notin Local => Answered(s, i)

\* Only what is local is posted.
PostsLocal == \A c \in Conns : pc[c] = "http" => Dest(c) \in Local

\* The part of the invariant about tasks.
TasksInv ==
    /\ WaitersDiffer /\ TableByEntry /\ ResponseIsHeard /\ WaitsForCurrent /\ DestsAnswered
    /\ OutcomesAnswered /\ PostsLocal

ServerInv ==
    TypeOK /\ RecordsTyped /\ AnswersToWritten /\ RoutesInv /\ TasksInv
-----------------------------------------------------------------------------
(***************************************************************************)
(* Inboxes and writes.                                                     *)
(***************************************************************************)

\* The next PDU is one of those a client sends.
LEMMA HeadType ==
    ASSUME RecordsTyped, NEW c \in Conns, inbox[c] # <<>>
    PROVE  /\ Head(inbox[c]) \in Pdus /\ 1 \in 1 .. Len(inbox[c]) /\ Head(inbox[c]) = inbox[c][1]
           /\ Tail(inbox[c]) \in Seq(Pdus)
           /\ \A k \in 1 .. Len(Tail(inbox[c])) : /\ k + 1 \in 1 .. Len(inbox[c])
                                                  /\ Tail(inbox[c])[k] = inbox[c][k + 1]
<1>1. inbox[c] \in Seq(Pdus) /\ Len(inbox[c]) \in Nat \ {0}
  BY DEF RecordsTyped
<1> QED BY <1>1

\* Taking a PDU leaves the others.
LEMMA ConsumeInbox ==
    ASSUME RecordsTyped, AnswersToWritten, NEW c \in Conns, inbox[c] # <<>>, Consume(c),
           UNCHANGED <<written, rest, unanswered>>
    PROVE  inbox' \in [Conns -> Seq(Pdus)] /\ AnswersToWritten'
<1>1. inbox' = [inbox EXCEPT ![c] = Tail(inbox[c])] /\ inbox \in [Conns -> Seq(Pdus)]
  BY DEF Consume, RecordsTyped
<1>2. inbox' \in [Conns -> Seq(Pdus)]
  BY <1>1, HeadType
<1>3. ASSUME NEW d \in Conns, NEW k \in 1 .. Len(inbox'[d]), inbox'[d][k].kind = "resp"
      PROVE  inbox'[d][k].seq \in rest' \/ [seq |-> inbox'[d][k].seq, conn |-> d] \in written'
  <2>1. CASE d # c
    BY <1>1, <1>3, <2>1 DEF AnswersToWritten
  <2>2. CASE d = c
    <3>1. inbox'[d] = Tail(inbox[c])
      BY <1>1, <2>2
    <3>2. k + 1 \in 1 .. Len(inbox[c]) /\ inbox'[d][k] = inbox[c][k + 1]
      BY <3>1, HeadType
    <3> QED BY <1>3, <2>2, <3>2 DEF AnswersToWritten
  <2> QED BY <2>1, <2>2
<1> QED BY <1>2, <1>3 DEF AnswersToWritten

\* A PDU is put behind the others.
LEMMA AppendInbox ==
    ASSUME RecordsTyped, AnswersToWritten, NEW c \in Conns, NEW p \in Pdus,
           inbox' = [inbox EXCEPT ![c] = Append(@, p)], UNCHANGED <<written, rest>>,
           unanswered' \subseteq unanswered,
           p.kind = "resp" => p.seq \in rest \/ [seq |-> p.seq, conn |-> c] \in written
    PROVE  inbox' \in [Conns -> Seq(Pdus)] /\ AnswersToWritten'
<1>1. inbox \in [Conns -> Seq(Pdus)] /\ inbox[c] \in Seq(Pdus) /\ Len(inbox[c]) \in Nat
  BY DEF RecordsTyped
<1>2. inbox'[c] = Append(inbox[c], p) /\ inbox' \in [Conns -> Seq(Pdus)]
  BY <1>1
<1>3. ASSUME NEW d \in Conns, NEW k \in 1 .. Len(inbox'[d]), inbox'[d][k].kind = "resp"
      PROVE  inbox'[d][k].seq \in rest' \/ [seq |-> inbox'[d][k].seq, conn |-> d] \in written'
  <2>1. CASE d # c
    BY <1>1, <1>3, <2>1 DEF AnswersToWritten
  <2>2. CASE d = c /\ k \in 1 .. Len(inbox[c])
    <3>1. inbox'[d][k] = inbox[c][k]
      BY <1>1, <1>2, <2>2
    <3> QED BY <1>3, <2>2, <3>1 DEF AnswersToWritten
  <2>3. CASE d = c /\ k \notin 1 .. Len(inbox[c])
    <3>1. inbox'[d][k] = p
      BY <1>1, <1>2, <2>3
    <3> QED BY <1>3, <2>3, <3>1
  <2> QED BY <2>1, <2>2, <2>3
<1> QED BY <1>2, <1>3 DEF AnswersToWritten

\* What is in the inboxes stays there, and what is written may be answered.
LEMMA SameInbox ==
    ASSUME AnswersToWritten, UNCHANGED inbox, written \subseteq written', rest \subseteq rest',
           \A u \in unanswered' : u \in unanswered \/ u \in written' \/ u.seq \in rest'
    PROVE  AnswersToWritten'
BY DEF AnswersToWritten

\* What is cleared is not there any more.
LEMMA ClearInbox ==
    ASSUME RecordsTyped, AnswersToWritten, NEW c \in Conns, inbox' = [inbox EXCEPT ![c] = <<>>],
           UNCHANGED <<written, rest, unanswered>>
    PROVE  inbox' \in [Conns -> Seq(Pdus)] /\ AnswersToWritten'
<1>1. inbox \in [Conns -> Seq(Pdus)] /\ inbox' \in [Conns -> Seq(Pdus)]
  BY DEF RecordsTyped
<1>2. ASSUME NEW d \in Conns, NEW k \in 1 .. Len(inbox'[d]) PROVE inbox'[d] = inbox[d]
  BY <1>1
<1> QED BY <1>1, <1>2 DEF AnswersToWritten
-----------------------------------------------------------------------------
(***************************************************************************)
(* Messages on their way.                                                  *)
(***************************************************************************)

\* A step that sends, numbers and stores nothing changes nothing for the messages under way.
LEMMA RoutesStay ==
    ASSUME TypeOK, RecordsTyped, RoutesInv, nextSeq' \in Nat, nextSeq' >= nextSeq,
           UNCHANGED <<forwards, sends, courier, assigned, written, refused, again>>,
           stored' \subseteq stored, rest \subseteq rest',
           \A c \in Conns : /\ pc[c] = "forward" => pc'[c] = "forward" /\ seqOf'[c] = seqOf[c]
                            /\ CanFail(c) => CanFail(c)'
    PROVE  RoutesInv'
<1> USE DEF RoutesInv
<1>1. CallersWait'
  BY DEF CallersWait
<1>2. TriedFailed'
  <2>1. /\ \A t \in sends : t.tried \subseteq Conns
        /\ \A g \in refused : g.conns \subseteq Conns
    BY DEF TypeOK, RecordsTyped
  <2> QED BY <2>1 DEF TriedFailed, NobodyPassedOver
<1>3. NumbersFresh'
  <2>1. /\ Own' = Own /\ \A f \in forwards : f.seq \in Nat
        /\ \A t \in Own : t.seq \in Nat
        /\ \A w \in written : w.seq \in Nat
    BY DEF Own, TypeOK, RecordsTyped
  <2> QED BY <2>1 DEF NumbersFresh, TypeOK
<1>4. MessagesNumbered'
  <2>1. /\ \A p \in assigned : p.seq \in Nat /\ p.msg \in Nat
        /\ \A m \in stored : m.msg \in Nat
    BY DEF RecordsTyped
  <2>2. \A m : InHand(m)' <=> InHand(m)
    BY DEF InHand
  <2> QED BY <2>1, <2>2 DEF MessagesNumbered, TypeOK
<1> QED BY <1>1, <1>2, <1>3, <1>4
-----------------------------------------------------------------------------
(***************************************************************************)
(* Waiting tasks and their destinations.                                   *)
(***************************************************************************)

\* The history only grows.
Recorded ==
    /\ assigned \subseteq assigned' /\ rest \subseteq rest'
    /\ heard \subseteq heard' /\ written \subseteq written'

\* What was answered stays so.
LEMMA AnsweredStays ==
    ASSUME Recorded
    PROVE  /\ \A n : HeardOk(n) => HeardOk(n)'
           /\ \A s, i : Answered(s, i) => Answered(s, i)'
BY DEF Recorded, HeardOk, Answered

\* A step that begins, goes on with and ends no submit changes nothing for those in hand.
LEMMA TasksStay ==
    ASSUME TypeOK, TasksInv, Recorded, nextSeq' \in Nat, nextSeq' >= nextSeq,
           \A d \in Conns : /\ Busy(d)' => Busy(d)
                            /\ Waits(d)' <=> Waits(d)
                            /\ pc'[d] = "wait" <=> pc[d] = "wait"
                            /\ pc'[d] = "http" => pc[d] = "http" \/ Dest(d) \in Local,
           UNCHANGED <<job, at, failed, seqOf, chan, transactions, outcome>>
    PROVE  TasksInv'
<1> USE DEF TasksInv
<1>1. \A d \in Conns : /\ Busy(d)' => Busy(d)
                       /\ Waits(d)' <=> Waits(d)
                       /\ pc'[d] = "wait" <=> pc[d] = "wait"
                       /\ pc'[d] = "http" => pc[d] = "http" \/ Dest(d) \in Local
  OBVIOUS
<1>2. WaitersDiffer'
  BY <1>1 DEF TypeOK, WaitersDiffer
<1>3. TableByEntry'
  BY <1>1 DEF TableByEntry
<1>4. ResponseIsHeard'
  BY AnsweredStays DEF ResponseIsHeard
<1>5. WaitsForCurrent'
  BY <1>1 DEF WaitsForCurrent, Recorded, Work
<1>6. DestsAnswered'
  BY <1>1, AnsweredStays DEF DestsAnswered, Work
<1>7. OutcomesAnswered'
  BY AnsweredStays DEF OutcomesAnswered
<1>8. PostsLocal'
  BY <1>1 DEF PostsLocal, Dest, Work
<1> QED BY <1>2, <1>3, <1>4, <1>5, <1>6, <1>7, <1>8

\* The entry of c goes, if it is there, and no other does.
OthersKept(c) ==
    \A k \in Nat, d \in Conns :
        [seq |-> k, conn |-> d] \in transactions' <=> d # c /\ [seq |-> k, conn |-> d] \in transactions

\* A task goes on to its next destination, waiting for nothing. If the last one went well,
\* it is local or was answered.
LEMMA TasksNextDest ==
    ASSUME TypeOK, RecordsTyped, TasksInv, Recorded, nextSeq' \in Nat, nextSeq' >= nextSeq,
           NEW c \in Conns, NEW ok \in BOOLEAN, Busy(c), NextDest(c, ok), UNCHANGED <<job, outcome>>,
           NEW n \in Nat, seqOf' = [seqOf EXCEPT ![c] = n],
           chan' = [chan EXCEPT ![c] = "none"],
           OthersKept(c),
           \A i \in Nat : (i = at[c] /\ ok /\ Work(c).mode = "transaction" /\ Dest(c) \notin Local)
                             => Answered(job[c], i)'
    PROVE  TasksInv'
<1> USE DEF TasksInv
<1>1. /\ pc'[c] = "dest" /\ Busy(c)' /\ ~Waits(c)' /\ at'[c] = at[c] + 1 /\ at[c] \in Nat
      /\ chan'[c] = "none"
  BY DEF NextDest, TypeOK, Busy, Waits
<1>2. failed'[c] = (failed[c] \/ ~ok)
  BY DEF NextDest, TypeOK
<1>3. \A d \in Conns \ {c} :
         /\ pc'[d] = pc[d] /\ at'[d] = at[d] /\ failed'[d] = failed[d] /\ seqOf'[d] = seqOf[d]
         /\ chan'[d] = chan[d] /\ Busy(d)' = Busy(d) /\ Waits(d)' = Waits(d)
  BY DEF NextDest, TypeOK, Busy, Waits
<1>4. WaitersDiffer'
  BY <1>1, <1>3 DEF TypeOK, WaitersDiffer
<1>5. TableByEntry'
  BY <1>1, <1>3 DEF TableByEntry, OthersKept
<1>6. ResponseIsHeard'
  BY <1>1, <1>3, AnsweredStays DEF ResponseIsHeard
<1>7. WaitsForCurrent'
  BY <1>1, <1>3 DEF WaitsForCurrent, Recorded, Work
<1>8. DestsAnswered'
  <2> SUFFICES ASSUME NEW d \in Conns, Busy(d)', Work(d)'.mode = "transaction", ~failed'[d],
                      NEW i \in 1 .. Len(Work(d)'.dests), i < at'[d], Work(d)'.dests[i] \notin Local
               PROVE  Answered(job[d], i)'
    BY DEF DestsAnswered
  <2>1. Work(d)' = Work(d)
    BY DEF Work
  <2>2. CASE d # c
    BY <1>3, <2>1, <2>2, AnsweredStays DEF DestsAnswered
  <2>3. CASE d = c /\ i < at[c]
    <3>1. ~failed[c]
      BY <1>2, <2>3
    <3> QED BY <2>1, <2>3, <3>1, AnsweredStays DEF DestsAnswered
  <2>4. CASE d = c /\ i = at[c]
    <3>1. ok
      BY <1>2, <2>4
    <3> QED BY <1>1, <2>1, <2>4, <3>1 DEF Dest
  <2>5. i \in Nat
    <3>1. job[d] \in Submits
      BY <1>3 DEF RecordsTyped
    <3>2. Len(Work(d).dests) \in Nat /\ i \in 1 .. Len(Work(d).dests)
      BY <2>1, <3>1, ServerAssumption DEF Work
    <3> QED BY <3>2
  <2> QED BY <1>1, <2>2, <2>3, <2>4, <2>5
<1>9. OutcomesAnswered'
  BY AnsweredStays DEF OutcomesAnswered
<1>10. PostsLocal'
  BY <1>1, <1>3 DEF PostsLocal, Dest, Work
<1> QED BY <1>4, <1>5, <1>6, <1>7, <1>8, <1>9, <1>10
-----------------------------------------------------------------------------
(***************************************************************************)
(* The steps of a connection task.                                         *)
(***************************************************************************)

\* Binding, unbinding and the end of a connection touch no submit.
LEMMA BindInv ==
    ASSUME ServerInv, NEW c \in Conns,
           HandleBind(c) \/ AddClient(c) \/ HandleUnbind(c) \/ EndOfFile(c)
    PROVE  ServerInv'
<1> USE DEF ServerInv
<1>1. UNCHANGED <<job, at, failed, seqOf, waitVars, forwards, sends, storeVars, nextSeq, enquires,
                  clientVars, worldVars, histVars>>
  BY DEF HandleBind, AddClient, HandleUnbind, EndOfFile
<1>2. /\ pc' \in [Conns -> Stages]
      /\ \A d \in Conns : pc'[d] = pc[d] \/ (~Busy(d) /\ ~Busy(d)')
  <2>1. \/ UNCHANGED pc
        \/ \E p \in {"addClient", "read", "done"} : pc' = [pc EXCEPT ![c] = p]
    BY DEF HandleBind, AddClient, HandleUnbind, EndOfFile
  <2>2. pc[c] \in {"read", "addClient"}
    BY DEF HandleBind, AddClient, HandleUnbind, EndOfFile, Received
  <2>3. pc \in [Conns -> Stages]
    BY DEF TypeOK
  <2> QED BY <2>1, <2>2, <2>3 DEF Busy, Stages
<1>10. \A d \in Conns : /\ Busy(d)' => Busy(d)
                        /\ Waits(d)' <=> Waits(d)
                        /\ pc'[d] = "wait" <=> pc[d] = "wait"
                        /\ pc[d] = "forward" => pc'[d] = "forward"
                        /\ pc'[d] = "http" => pc[d] = "http"
  BY <1>2 DEF Busy, Waits
<1>11. \A d \in Conns : CanFail(d) => CanFail(d)'
  BY <1>1 DEF CanFail, HandleBind, AddClient, HandleUnbind, EndOfFile
<1>3. shut' \subseteq Conns /\ clients' \subseteq Conns /\ enquirers' \subseteq Conns
  BY DEF HandleBind, AddClient, HandleUnbind, EndOfFile, TypeOK
<1>4. inbox' \in [Conns -> Seq(Pdus)] /\ AnswersToWritten'
  <2>1. CASE HandleBind(c) \/ HandleUnbind(c)
    BY <1>1, <2>1, ConsumeInbox DEF HandleBind, HandleUnbind, Received
  <2>2. CASE AddClient(c)
    BY <1>1, <2>2, SameInbox DEF AddClient, RecordsTyped, AnswersToWritten
  <2>3. CASE EndOfFile(c)
    BY <1>1, <2>3, ClearInbox DEF EndOfFile
  <2> QED BY <2>1, <2>2, <2>3
<1>5. TypeOK'
  BY <1>1, <1>2, <1>3 DEF TypeOK
<1>6. RecordsTyped'
  BY <1>1, <1>2, <1>4 DEF RecordsTyped, Busy
<1>7. nextSeq' \in Nat /\ nextSeq' >= nextSeq /\ Recorded
  BY <1>1 DEF TypeOK, Recorded
<1>8. RoutesInv'
  BY <1>1, <1>7, <1>10, <1>11, RoutesStay
<1>9. TasksInv'
  BY <1>1, <1>7, <1>10, TasksStay
<1> QED BY <1>4, <1>5, <1>6, <1>8, <1>9

\* A submit is begun: nothing of it was answered, and nothing has to be.
LEMMA StartSubmitInv ==
    ASSUME ServerInv, NEW c \in Conns, StartSubmit(c)
    PROVE  ServerInv'
<1> USE DEF ServerInv
<1>1. /\ UNCHANGED <<shut, seqOf, waitVars, routeVars, storeVars, nextSeq, enquireVars, clientVars,
                     worldVars, histVars>>
      /\ pc' = [pc EXCEPT ![c] = "dest"] /\ at' = [at EXCEPT ![c] = 1]
      /\ failed' = [failed EXCEPT ![c] = FALSE] /\ ~Busy(c)
  BY DEF StartSubmit, Received, Busy
<1>2. PICK s \in Submits : job' = [job EXCEPT ![c] = s]
  BY HeadType DEF StartSubmit, Received, Pdus
<1>3. inbox' \in [Conns -> Seq(Pdus)] /\ AnswersToWritten'
  BY <1>1, ConsumeInbox DEF StartSubmit, Received
<1>4. TypeOK'
  <2>1. failed' \in [Conns -> BOOLEAN]
    BY <1>1 DEF TypeOK
  <2> QED BY <1>1, <1>2, <2>1 DEF TypeOK, Stages
<1>5. RecordsTyped'
  <2>1. \A d \in Conns : Busy(d)' => job'[d] \in Submits /\ at'[d] \in Nat \ {0}
    BY <1>1, <1>2 DEF RecordsTyped, TypeOK, Busy
  <2> QED BY <1>1, <1>3, <2>1 DEF RecordsTyped
<1>6. nextSeq' \in Nat /\ nextSeq' >= nextSeq /\ Recorded
  BY <1>1 DEF TypeOK, Recorded
<1>7. RoutesInv'
  <2>1. \A d \in Conns : /\ pc[d] = "forward" => pc'[d] = "forward" /\ seqOf'[d] = seqOf[d]
                         /\ CanFail(d) => CanFail(d)'
    BY <1>1 DEF TypeOK, Busy, CanFail
  <2> QED BY <1>1, <1>6, <2>1, RoutesStay
<1>8. TasksInv'
  <2> USE DEF TasksInv
  <2>1. pc'[c] = "dest" /\ at'[c] = 1 /\ ~Waits(c) /\ ~Waits(c)' /\ pc[c] # "wait"
    BY <1>1 DEF TypeOK, Busy, Waits
  <2>2. \A d \in Conns \ {c} : /\ pc'[d] = pc[d] /\ at'[d] = at[d] /\ failed'[d] = failed[d]
                               /\ job'[d] = job[d] /\ Busy(d)' = Busy(d) /\ Waits(d)' = Waits(d)
                               /\ Work(d)' = Work(d)
    BY <1>1, <1>2 DEF TypeOK, Busy, Waits, Work
  <2>3. WaitersDiffer' /\ TableByEntry'
    BY <1>1, <2>1, <2>2 DEF TypeOK, WaitersDiffer, TableByEntry
  <2>4. ResponseIsHeard' /\ OutcomesAnswered'
    BY <1>1, <1>6, AnsweredStays DEF ResponseIsHeard, OutcomesAnswered
  <2>5. WaitsForCurrent'
    BY <1>1, <2>1, <2>2 DEF WaitsForCurrent
  <2>6. DestsAnswered'
    <3>1. \A i \in 1 .. Len(Work(c)'.dests) : ~(i < at'[c])
      <4>1. Work(c)' = Load[s] /\ Len(Load[s].dests) \in Nat
        BY <1>2, ServerAssumption DEF Work, TypeOK
      <4> QED BY <2>1, <4>1
    <3> QED BY <1>6, <2>2, <3>1, AnsweredStays DEF DestsAnswered
  <2>7. PostsLocal'
    BY <2>1, <2>2 DEF PostsLocal, Dest
  <2> QED BY <2>3, <2>4, <2>5, <2>6, <2>7
<1> QED BY <1>3, <1>4, <1>5, <1>7, <1>8

\* The types of what a task changes when it goes on to the next destination.
LEMMA NextDestType ==
    ASSUME TypeOK, NEW c \in Conns, NEW ok \in BOOLEAN, NextDest(c, ok)
    PROVE  /\ pc' \in [Conns -> Stages]
           /\ at' \in [Conns -> Nat] /\ failed' \in [Conns -> BOOLEAN]
           /\ \A d \in Conns : Busy(d)' => d = c \/ Busy(d)
<1>1. failed' \in [Conns -> BOOLEAN]
  BY DEF NextDest, TypeOK
<1> QED BY <1>1 DEF NextDest, TypeOK, Busy, Stages

\* A task that does not wait has no entry and no response.
LEMMA NoEntry ==
    ASSUME TypeOK, TableByEntry, NEW c \in Conns, pc[c] # "wait", UNCHANGED <<chan, transactions>>
    PROVE  /\ chan' = [chan EXCEPT ![c] = "none"]
           /\ OthersKept(c)
BY DEF TypeOK, TableByEntry, OthersKept

\* The destination a task has come to is one of its submit's.
LEMMA DestType ==
    ASSUME TypeOK, RecordsTyped, NEW c \in Conns, HasDest(c)
    PROVE  /\ Busy(c) /\ pc[c] = "dest" /\ job[c] \in Submits /\ at[c] \in Nat \ {0}
           /\ Dest(c) \in Addresses
<1>1. Busy(c) /\ pc[c] = "dest" /\ job[c] \in Submits /\ at[c] \in Nat \ {0}
  BY DEF HasDest, Busy, RecordsTyped
<1>2. Load[job[c]].dests \in Seq(Addresses)
  BY <1>1, ServerAssumption
<1>3. at[c] \in 1 .. Len(Load[job[c]].dests)
  BY <1>1, <1>2 DEF HasDest, Work
<1> QED BY <1>1, <1>2, <1>3 DEF Dest, Work

\* A message to a local destination is posted.
LEMMA LocalDestInv ==
    ASSUME ServerInv, NEW c \in Conns, LocalDest(c)
    PROVE  ServerInv'
<1> USE DEF ServerInv
<1>1. /\ UNCHANGED <<shut, inbox, job, at, failed, seqOf, waitVars, routeVars, storeVars,
                     enquireVars, clientVars, worldVars, histVars>>
      /\ pc' = [pc EXCEPT ![c] = "http"] /\ nextSeq' = nextSeq + 1
      /\ HasDest(c) /\ Dest(c) \in Local
  BY DEF LocalDest
<1>2. pc[c] = "dest" /\ Busy(c) /\ pc \in [Conns -> Stages]
  BY <1>1, DestType DEF TypeOK
<1>3. \A d \in Conns : /\ Busy(d)' => Busy(d)
                       /\ Waits(d)' <=> Waits(d)
                       /\ pc'[d] = "wait" <=> pc[d] = "wait"
                       /\ pc'[d] = "http" => pc[d] = "http" \/ Dest(d) \in Local
                       /\ pc[d] = "forward" => pc'[d] = "forward"
                       /\ CanFail(d) => CanFail(d)'
  BY <1>1, <1>2 DEF Busy, Waits, CanFail
<1>4. nextSeq' \in Nat /\ nextSeq' >= nextSeq /\ Recorded
  BY <1>1 DEF TypeOK, Recorded
<1>5. TypeOK'
  BY <1>1, <1>4 DEF TypeOK, Stages
<1>6. RecordsTyped'
  BY <1>1, <1>3 DEF RecordsTyped
<1>7. AnswersToWritten'
  BY <1>1, SameInbox
<1>8. RoutesInv'
  BY <1>1, <1>3, <1>4, RoutesStay
<1>9. TasksInv'
  BY <1>1, <1>3, <1>4, TasksStay
<1> QED BY <1>5, <1>6, <1>7, <1>8, <1>9

\* A task goes on behind a destination that is local, or whose message goes out later.
LEMMA TaskGoesOn ==
    ASSUME ServerInv, NEW c \in Conns, NEW ok \in BOOLEAN, NextDest(c, ok), Busy(c),
           pc[c] \in {"dest", "http"}, Dest(c) \in Local \/ Work(c).mode # "transaction",
           nextSeq' \in Nat, nextSeq' >= nextSeq, assigned \subseteq assigned',
           UNCHANGED <<job, seqOf, waitVars, rest, heard, written, outcome>>
    PROVE  TasksInv' /\ \A d \in Conns : Busy(d)' => job'[d] \in Submits /\ at'[d] \in Nat \ {0}
<1> USE DEF ServerInv
<1>1. job[c] \in Submits /\ at[c] \in Nat \ {0}
  BY DEF RecordsTyped
<1>2. \A d \in Conns : Busy(d)' => job'[d] \in Submits /\ at'[d] \in Nat \ {0}
  <2>1. at'[c] = at[c] + 1 /\ \A d \in Conns \ {c} : at'[d] = at[d]
    BY DEF NextDest, TypeOK
  <2>2. \A d \in Conns : Busy(d)' => d = c \/ Busy(d)
    BY NextDestType
  <2> QED BY <1>1, <2>1, <2>2 DEF RecordsTyped
<1>3. seqOf[c] \in Nat /\ seqOf' = [seqOf EXCEPT ![c] = seqOf[c]]
  BY DEF TypeOK
<1>4. /\ chan' = [chan EXCEPT ![c] = "none"]
      /\ OthersKept(c)
  BY NoEntry DEF TasksInv
<1>5. Recorded
  BY DEF Recorded
<1> QED BY <1>2, <1>3, <1>4, <1>5, TasksNextDest

\* The post ends.
LEMMA HttpReturnsInv ==
    ASSUME ServerInv, NEW c \in Conns, HttpReturns(c)
    PROVE  ServerInv'
<1> USE DEF ServerInv
<1>1. /\ UNCHANGED <<shut, inbox, job, seqOf, waitVars, routeVars, storeVars, nextSeq, enquireVars,
                     clientVars, worldVars, histVars>>
      /\ pc[c] = "http" /\ Busy(c) /\ Dest(c) \in Local
  BY DEF HttpReturns, Busy, TasksInv, PostsLocal
<1>2. PICK ok \in BOOLEAN : NextDest(c, ok)
  <2>1. PICK good \in BOOLEAN : NextDest(c, good \/ Work(c).command = "submit_multi")
    BY DEF HttpReturns
  <2>2. (good \/ Work(c).command = "submit_multi") \in BOOLEAN
    OBVIOUS
  <2> QED BY <2>1, <2>2
<1>3. nextSeq' \in Nat /\ nextSeq' >= nextSeq
  BY <1>1 DEF TypeOK
<1>4. TasksInv' /\ \A d \in Conns : Busy(d)' => job'[d] \in Submits /\ at'[d] \in Nat \ {0}
  BY <1>1, <1>2, <1>3, TaskGoesOn
<1>5. TypeOK'
  <2>1. /\ pc' \in [Conns -> Stages] /\ at' \in [Conns -> Nat]
        /\ failed' \in [Conns -> BOOLEAN]
    BY <1>2, NextDestType
  <2> QED BY <1>1, <2>1 DEF TypeOK
<1>6. RecordsTyped'
  BY <1>1, <1>4 DEF RecordsTyped
<1>7. AnswersToWritten'
  BY <1>1, SameInbox
<1>8. RoutesInv'
  <2>1. \A d \in Conns : /\ pc[d] = "forward" => pc'[d] = "forward" /\ seqOf'[d] = seqOf[d]
                         /\ CanFail(d) => CanFail(d)'
    BY <1>1, <1>2 DEF NextDest, TypeOK, CanFail
  <2> QED BY <1>1, <1>3, <2>1, RoutesStay
<1> QED BY <1>4, <1>5, <1>6, <1>7, <1>8

\* A message that is numbered is nobody's yet: a datagram waits for its task.
LEMMA DatagramDestInv ==
    ASSUME ServerInv, NEW c \in Conns, DatagramDest(c)
    PROVE  ServerInv'
<1> USE DEF ServerInv
<1> DEFINE f == [seq |-> nextSeq + 1, sub |-> job[c], dest |-> Dest(c)]
           p == [seq |-> nextSeq + 1, msg |-> nextSeq, sub |-> job[c], at |-> at[c]]
<1>1. /\ UNCHANGED <<shut, inbox, job, seqOf, waitVars, clients, sends, storeVars, enquireVars,
                     clientVars, worldVars, written, refused, again, heard, outcome, replies>>
      /\ HasDest(c) /\ Work(c).mode = "datagram" /\ NextDest(c, TRUE)
      /\ forwards' = forwards \cup {f} /\ assigned' = assigned \cup {p} /\ nextSeq' = nextSeq + 2
  BY DEF DatagramDest, Remote, Assign
<1>2. nextSeq \in Nat /\ nextSeq + 1 \in Nat /\ nextSeq' \in Nat /\ nextSeq' >= nextSeq
      /\ nextSeq < nextSeq' /\ nextSeq + 1 < nextSeq'
  BY <1>1 DEF TypeOK
<1>3. /\ Busy(c) /\ pc[c] = "dest" /\ job[c] \in Submits /\ at[c] \in Nat \ {0}
      /\ Dest(c) \in Addresses
  BY <1>1, DestType
<1>4. /\ f \in [seq : Nat, sub : Submits, dest : Addresses] /\ f.seq = nextSeq + 1
      /\ p \in [seq : Nat, msg : Nat, sub : Submits, at : Nat]
      /\ p.seq = nextSeq + 1 /\ p.msg = nextSeq
  BY <1>2, <1>3
<1> HIDE DEF f, p
<1>5. TasksInv' /\ \A d \in Conns : Busy(d)' => job'[d] \in Submits /\ at'[d] \in Nat \ {0}
  BY <1>1, <1>2, <1>3, TaskGoesOn
<1>6. TypeOK'
  <2>1. /\ pc' \in [Conns -> Stages] /\ at' \in [Conns -> Nat]
        /\ failed' \in [Conns -> BOOLEAN]
    BY <1>1, NextDestType
  <2> QED BY <1>1, <1>2, <2>1 DEF TypeOK
<1>7. RecordsTyped'
  BY <1>1, <1>4, <1>5 DEF RecordsTyped
<1>8. AnswersToWritten'
  BY <1>1, SameInbox
<1>9. RoutesInv'
  <2> USE DEF RoutesInv
  <2>1. CallersWait'
    <3>1. \A d \in Conns : pc[d] = "forward" => pc'[d] = "forward"
      BY <1>1, <1>3 DEF NextDest, TypeOK
    <3> QED BY <1>1, <3>1 DEF CallersWait
  <2>2. TriedFailed'
    BY <1>1 DEF TriedFailed, NobodyPassedOver, CanFail
  <2>3. NumbersFresh'
    <3>1. /\ Own' = Own /\ \A g \in forwards : g.seq \in Nat
          /\ \A t \in Own : t.seq \in Nat
          /\ \A w \in written : w.seq \in Nat
      BY <1>1 DEF Own, TypeOK, RecordsTyped
    <3> QED BY <1>1, <1>2, <1>4, <3>1 DEF NumbersFresh
  <2>4. MessagesNumbered'
    <3>1. /\ \A q \in assigned : q.seq \in Nat /\ q.msg \in Nat
          /\ \A m \in stored : m.msg \in Nat
      BY DEF RecordsTyped
    <3>2. \A m : InHand(m)' <=> InHand(m)
      BY <1>1 DEF InHand
    <3> QED BY <1>1, <1>2, <1>4, <3>1, <3>2 DEF MessagesNumbered
  <2> QED BY <2>1, <2>2, <2>3, <2>4
<1> QED BY <1>5, <1>6, <1>7, <1>8, <1>9

\* ... and so is one that is stored.
LEMMA StoreDestInv ==
    ASSUME ServerInv, NEW c \in Conns, StoreDest(c)
    PROVE  ServerInv'
<1> USE DEF ServerInv
<1> DEFINE k == [msg |-> nextSeq, sub |-> job[c], at |-> at[c], dest |-> Dest(c)]
<1>1. /\ UNCHANGED <<shut, inbox, job, seqOf, waitVars, routeVars, courier, redos, enquireVars,
                     clientVars, worldVars, histVars>>
      /\ HasDest(c) /\ Work(c).mode = "store"
      /\ nextSeq' = nextSeq + 1 /\ stored' \in {stored, stored \cup {k}}
  BY DEF StoreDest, Remote
<1>2. PICK ok \in BOOLEAN : NextDest(c, ok)
  BY DEF StoreDest
<1>3. nextSeq \in Nat /\ nextSeq' \in Nat /\ nextSeq' >= nextSeq /\ nextSeq < nextSeq'
  BY <1>1 DEF TypeOK
<1>4. /\ Busy(c) /\ pc[c] = "dest" /\ job[c] \in Submits /\ at[c] \in Nat \ {0}
      /\ Dest(c) \in Addresses
  BY <1>1, DestType
<1>5. k \in [msg : Nat, sub : Submits, at : Nat, dest : Addresses] /\ k.msg = nextSeq
  BY <1>3, <1>4
<1> HIDE DEF k
<1>6. TasksInv' /\ \A d \in Conns : Busy(d)' => job'[d] \in Submits /\ at'[d] \in Nat \ {0}
  BY <1>1, <1>2, <1>3, <1>4, TaskGoesOn
<1>7. TypeOK'
  <2>1. /\ pc' \in [Conns -> Stages] /\ at' \in [Conns -> Nat]
        /\ failed' \in [Conns -> BOOLEAN]
    BY <1>2, NextDestType
  <2> QED BY <1>1, <1>3, <2>1 DEF TypeOK
<1>8. RecordsTyped'
  BY <1>1, <1>5, <1>6 DEF RecordsTyped
<1>9. AnswersToWritten'
  BY <1>1, SameInbox
<1>10. RoutesInv'
  <2> USE DEF RoutesInv
  <2>1. CallersWait'
    <3>1. \A d \in Conns : pc[d] = "forward" => pc'[d] = "forward"
      BY <1>2, <1>4 DEF NextDest, TypeOK
    <3> QED BY <1>1, <3>1 DEF CallersWait
  <2>2. TriedFailed'
    BY <1>1 DEF TriedFailed, NobodyPassedOver, CanFail
  <2>3. NumbersFresh'
    <3>1. /\ Own' = Own /\ \A g \in forwards : g.seq \in Nat
          /\ \A t \in Own : t.seq \in Nat
          /\ \A w \in written : w.seq \in Nat
      BY <1>1 DEF Own, TypeOK, RecordsTyped
    <3> QED BY <1>1, <1>3, <3>1 DEF NumbersFresh
  <2>4. MessagesNumbered'
    <3>1. /\ \A q \in assigned : q.seq \in Nat /\ q.msg \in Nat
          /\ \A m \in stored : m.msg \in Nat
      BY DEF RecordsTyped
    <3>2. \A m : InHand(m)' <=> InHand(m)
      BY <1>1 DEF InHand
    <3> QED BY <1>1, <1>3, <1>5, <3>1, <3>2 DEF MessagesNumbered
  <2> QED BY <2>1, <2>2, <2>3, <2>4
<1> QED BY <1>6, <1>7, <1>8, <1>9, <1>10
-----------------------------------------------------------------------------
(***************************************************************************)
(* Calls of ClientManager::send_message.                                   *)
(***************************************************************************)

\* A call has a caller and a number; it goes to connections.
LEMMA CallType ==
    ASSUME TypeOK, NEW t \in sends
    PROVE  /\ t.by \in Conns \cup Callers /\ t.seq \in Nat
           /\ t.found \subseteq Conns /\ t.tried \subseteq Conns /\ t.to \in Conns \cup {"none"}
           /\ Ahead(t) \subseteq Conns
           /\ t = [by |-> t.by, seq |-> t.seq, found |-> t.found, tried |-> t.tried, to |-> t.to]
BY DEF TypeOK, Ahead

\* A call begins: its number is used nowhere else, unless it is a REST caller's.
LEMMA CallStarts ==
    ASSUME TypeOK, RecordsTyped, NumbersFresh, TriedFailed,
           NEW who \in Conns \cup Callers, NEW n \in Nat, NEW a, Send(who, n, a),
           \/ who = "rest"
           \/ /\ n < nextSeq'
              /\ \A f \in forwards' : f.seq # n
              /\ \A t \in Own : t.seq # n
              /\ \A w \in written : w.seq # n,
           forwards' \subseteq forwards, nextSeq' \in Nat, nextSeq' >= nextSeq,
           UNCHANGED <<written, refused, link, shut>>
    PROVE  /\ NumbersFresh' /\ TriedFailed'
           /\ sends' \subseteq [by : Conns \cup Callers, seq : Nat, found : SUBSET Conns,
                                tried : SUBSET Conns, to : Conns \cup {"none"}]
           /\ \E t : /\ sends' = sends \cup {t} /\ t.by = who /\ t.seq = n
<1> DEFINE t == [by |-> who, seq |-> n, found |-> {c \in clients : a \in Range[c]},
                 tried |-> {}, to |-> "none"]
<1>1. sends' = sends \cup {t} /\ t.by = who /\ t.seq = n /\ t.tried = {}
  BY DEF Send
<1>2. t \in [by : Conns \cup Callers, seq : Nat, found : SUBSET Conns,
             tried : SUBSET Conns, to : Conns \cup {"none"}]
  BY DEF TypeOK
<1> HIDE DEF t
<1>3. TriedFailed'
  BY <1>1 DEF TriedFailed, NobodyPassedOver, CanFail
<1>4. Own' = IF who = "rest" THEN Own ELSE Own \cup {t}
  BY <1>1 DEF Own
<1>5. /\ \A f \in forwards : f.seq \in Nat
      /\ \A u \in Own : u.seq \in Nat
      /\ \A w \in written : w.seq \in Nat
  BY DEF Own, TypeOK, RecordsTyped
<1>6. NumbersFresh'
  <2>1. CASE who = "rest"
    BY <1>4, <1>5, <2>1 DEF NumbersFresh, TypeOK
  <2>2. CASE who # "rest"
    BY <1>1, <1>4, <1>5, <2>2 DEF NumbersFresh, TypeOK
  <2> QED BY <2>1, <2>2
<1> QED BY <1>1, <1>2, <1>3, <1>6 DEF TypeOK

\* The message of a transaction is sent with a number that nobody else waits for, unless the
\* task panics.
LEMMA ForwardDestInv ==
    ASSUME ServerInv, NEW c \in Conns, ForwardDest(c)
    PROVE  ServerInv'
<1> USE DEF ServerInv
<1>1. /\ UNCHANGED <<shut, inbox, job, at, failed, waitVars, clients, forwards, storeVars,
                     enquireVars, clientVars, worldVars, written, refused, again, heard, outcome,
                     replies>>
      /\ HasDest(c) /\ Work(c).mode = "transaction" /\ nextSeq' = nextSeq + 2
  BY DEF ForwardDest, Remote
<1>2. nextSeq \in Nat /\ nextSeq + 1 \in Nat /\ nextSeq' \in Nat /\ nextSeq' >= nextSeq
      /\ nextSeq < nextSeq' /\ nextSeq + 1 < nextSeq'
  BY <1>1 DEF TypeOK
<1>3. /\ Busy(c) /\ ~Waits(c) /\ pc[c] = "dest" /\ job[c] \in Submits /\ at[c] \in Nat \ {0}
  BY <1>1, DestType DEF Waits
<1>4. CASE Panics(job[c])
  <2>1. pc' = [pc EXCEPT ![c] = "panicked"] /\ UNCHANGED <<sends, seqOf, assigned>>
    BY <1>4 DEF ForwardDest
  <2>2. \A d \in Conns : /\ Busy(d)' => Busy(d)
                         /\ Waits(d)' <=> Waits(d)
                         /\ pc'[d] = "wait" <=> pc[d] = "wait"
                         /\ pc'[d] = "http" => pc[d] = "http" \/ Dest(d) \in Local
                         /\ pc[d] = "forward" => pc'[d] = "forward"
                         /\ CanFail(d) => CanFail(d)'
    BY <1>1, <1>3, <2>1 DEF TypeOK, Busy, Waits, CanFail
  <2>3. TypeOK'
    BY <1>1, <1>2, <2>1 DEF TypeOK, Stages
  <2>4. RecordsTyped'
    BY <1>1, <2>1, <2>2 DEF RecordsTyped
  <2>5. AnswersToWritten'
    BY <1>1, SameInbox
  <2>6. RoutesInv'
    BY <1>1, <1>2, <2>1, <2>2, RoutesStay
  <2>7. TasksInv'
    <3>1. Recorded
      BY <1>1, <2>1 DEF Recorded
    <3> QED BY <1>1, <1>2, <2>1, <2>2, <3>1, TasksStay
  <2> QED BY <2>3, <2>4, <2>5, <2>6, <2>7
<1>5. CASE ~Panics(job[c])
  <2> DEFINE p == [seq |-> nextSeq + 1, msg |-> nextSeq, sub |-> job[c], at |-> at[c]]
  <2>1. /\ Send(c, nextSeq + 1, Dest(c)) /\ assigned' = assigned \cup {p}
        /\ seqOf' = [seqOf EXCEPT ![c] = nextSeq + 1] /\ pc' = [pc EXCEPT ![c] = "forward"]
    BY <1>5 DEF ForwardDest, Assign
  <2>2. /\ p \in [seq : Nat, msg : Nat, sub : Submits, at : Nat]
        /\ p.seq = nextSeq + 1 /\ p.msg = nextSeq /\ p.sub = job[c] /\ p.at = at[c]
    BY <1>2, <1>3
  <2> HIDE DEF p
  <2>3. /\ pc'[c] = "forward" /\ seqOf'[c] = nextSeq + 1 /\ Busy(c)'
        /\ \A d \in Conns \ {c} : /\ pc'[d] = pc[d] /\ seqOf'[d] = seqOf[d]
                                  /\ Busy(d)' = Busy(d) /\ Waits(d)' = Waits(d)
    BY <2>1 DEF TypeOK, Busy, Waits
  <2>4. /\ \A f \in forwards : f.seq \in Nat
        /\ \A t \in Own : t.seq \in Nat
        /\ \A w \in written : w.seq \in Nat
    BY DEF Own, TypeOK, RecordsTyped
  <2>5. /\ \A f \in forwards' : f.seq # nextSeq + 1
        /\ \A t \in Own : t.seq # nextSeq + 1
        /\ \A w \in written : w.seq # nextSeq + 1
    BY <1>1, <1>2, <2>4 DEF RoutesInv, NumbersFresh
  <2>6. /\ NumbersFresh' /\ TriedFailed'
        /\ sends' \subseteq [by : Conns \cup Callers, seq : Nat, found : SUBSET Conns,
                             tried : SUBSET Conns, to : Conns \cup {"none"}]
        /\ \E t : /\ sends' = sends \cup {t} /\ t.by = c /\ t.seq = nextSeq + 1
    BY <1>1, <1>2, <2>1, <2>5, CallStarts DEF RoutesInv
  <2>7. TypeOK'
    BY <1>1, <1>2, <2>1, <2>6 DEF TypeOK, Stages
  <2>8. RecordsTyped'
    <3>1. \A d \in Conns : Busy(d)' => job'[d] \in Submits /\ at'[d] \in Nat \ {0}
      BY <1>1, <1>3, <2>3 DEF RecordsTyped
    <3> QED BY <1>1, <2>1, <2>2, <3>1 DEF RecordsTyped
  <2>9. AnswersToWritten'
    BY <1>1, SameInbox
  <2>10. CallersWait'
    <3>1. c # "store" /\ c # "rest"
      BY ServerAssumption DEF Callers
    <3> QED BY <1>1, <1>3, <2>3, <2>6, <3>1 DEF RoutesInv, CallersWait
  <2>11. MessagesNumbered'
    <3>1. /\ \A q \in assigned : q.seq \in Nat /\ q.msg \in Nat
          /\ \A m \in stored : m.msg \in Nat
      BY DEF RecordsTyped
    <3>2. \A m : InHand(m)' <=> InHand(m)
      BY <1>1 DEF InHand
    <3> QED BY <1>1, <1>2, <2>1, <2>2, <3>1, <3>2 DEF RoutesInv, MessagesNumbered
  <2>12. TasksInv'
    <3> USE DEF TasksInv
    <3>1. Recorded
      BY <1>1, <2>1 DEF Recorded
    <3>2. \A d \in Conns : Work(d)' = Work(d) /\ Dest(d)' = Dest(d) /\ (Busy(d)' <=> Busy(d))
      BY <1>1, <1>3, <2>3 DEF Work, Dest
    <3>3. WaitersDiffer'
      <4>1. \A d \in Conns \ {c} : Waits(d)' => seqOf'[d] < nextSeq /\ seqOf'[d] \in Nat
        BY <2>3 DEF WaitersDiffer, TypeOK
      <4>2. \A d \in Conns : Waits(d)' => seqOf'[d] < nextSeq'
        BY <1>1, <1>2, <2>3, <4>1
      <4>3. \A d \in Conns \ {c} : Waits(d)' => seqOf'[d] # seqOf'[c]
        BY <1>2, <2>3, <4>1
      <4>4. \A d, e \in Conns : Waits(d)' /\ Waits(e)' /\ seqOf'[d] = seqOf'[e] => d = e
        BY <2>3, <4>3 DEF WaitersDiffer
      <4> QED BY <4>2, <4>4 DEF WaitersDiffer
    <3>4. TableByEntry'
      BY <1>1, <1>3, <2>3 DEF TableByEntry
    <3>5. ResponseIsHeard'
      <4>1. chan'[c] = "none"
        BY <1>1, <1>3 DEF TableByEntry
      <4> QED BY <1>1, <2>3, <3>1, <4>1, AnsweredStays DEF ResponseIsHeard
    <3>6. WaitsForCurrent'
      <4>1. p \in assigned'
        BY <2>1
      <4> QED BY <1>1, <2>1, <2>2, <2>3, <3>2, <4>1 DEF WaitsForCurrent
    <3>7. DestsAnswered'
      BY <1>1, <3>1, <3>2, AnsweredStays DEF DestsAnswered
    <3>8. OutcomesAnswered'
      BY <1>1, <3>1, AnsweredStays DEF OutcomesAnswered
    <3>9. PostsLocal'
      BY <2>3, <3>2 DEF PostsLocal
    <3> QED BY <3>3, <3>4, <3>5, <3>6, <3>7, <3>8, <3>9
  <2> QED BY <2>6, <2>7, <2>8, <2>9, <2>10, <2>11, <2>12 DEF RoutesInv
<1> QED BY <1>4, <1>5

\* What the other tasks do leaves the connection tasks alone.
LEMMA TasksAlone ==
    ASSUME TypeOK, TasksInv, Recorded, nextSeq' \in Nat, nextSeq' >= nextSeq,
           UNCHANGED <<connVars, waitVars, outcome>>
    PROVE  TasksInv'
<1>1. \A d \in Conns : /\ Busy(d)' <=> Busy(d)
                       /\ Waits(d)' <=> Waits(d)
                       /\ pc'[d] = pc[d]
  BY DEF Busy, Waits
<1> QED BY <1>1, TasksStay

\* The task of a datagram takes its number into a call.
LEMMA RunForwardInv ==
    ASSUME ServerInv, NEW f \in forwards, RunForward(f)
    PROVE  ServerInv'
<1> USE DEF ServerInv
<1>1. /\ UNCHANGED <<shut, inbox, connVars, waitVars, clients, storeVars, nextSeq, enquireVars,
                     clientVars, worldVars, histVars>>
      /\ forwards' = forwards \ {f} /\ f.seq \in Nat /\ f.dest \in Addresses
  BY DEF RunForward, RecordsTyped
<1>2. nextSeq' \in Nat /\ nextSeq' >= nextSeq /\ Recorded
  BY <1>1 DEF TypeOK, Recorded
<1>3. /\ f.seq < nextSeq'
      /\ \A g \in forwards' : g.seq # f.seq
      /\ \A t \in Own : t.seq # f.seq
      /\ \A w \in written : w.seq # f.seq
  BY <1>1 DEF RoutesInv, NumbersFresh
<1>4. /\ NumbersFresh' /\ TriedFailed'
      /\ sends' \subseteq [by : Conns \cup Callers, seq : Nat, found : SUBSET Conns,
                           tried : SUBSET Conns, to : Conns \cup {"none"}]
      /\ \/ UNCHANGED sends
         \/ \E t : /\ sends' = sends \cup {t} /\ t.by = "datagram" /\ t.seq = f.seq
  <2>1. CASE Send("datagram", f.seq, f.dest)
    <3>1. "datagram" \in Conns \cup Callers
      BY DEF Callers
    <3>2. TypeOK /\ RecordsTyped /\ NumbersFresh /\ TriedFailed
      BY DEF RoutesInv
    <3> QED BY <1>1, <1>2, <1>3, <2>1, <3>1, <3>2, CallStarts
  <2>2. CASE UNCHANGED sends
    <3>1. Own' = Own
      BY <2>2 DEF Own
    <3>2. NumbersFresh' /\ TriedFailed'
      BY <1>1, <3>1, <2>2 DEF RoutesInv, NumbersFresh, TriedFailed, NobodyPassedOver, CanFail
    <3> QED BY <2>2, <3>2 DEF TypeOK
  <2> QED BY <2>1, <2>2 DEF RunForward
<1>5. TypeOK'
  BY <1>1, <1>2, <1>4 DEF TypeOK
<1>6. RecordsTyped'
  BY <1>1 DEF RecordsTyped, Busy
<1>7. AnswersToWritten'
  BY <1>1, SameInbox
<1>8. CallersWait'
  <2>1. "datagram" \notin Conns
    BY ServerAssumption DEF Callers
  <2> QED BY <1>1, <1>4, <2>1 DEF RoutesInv, CallersWait
<1>9. MessagesNumbered'
  <2>1. \A m : InHand(m)' <=> InHand(m)
    BY <1>1 DEF InHand
  <2> QED BY <1>1, <2>1 DEF RoutesInv, MessagesNumbered
<1>10. TasksInv'
  BY <1>1, <1>2, TasksAlone
<1> QED BY <1>4, <1>5, <1>6, <1>7, <1>8, <1>9, <1>10 DEF RoutesInv

\* The delivery task of the store has a call under way only while it is busy.
LEMMA StoreNotCalling ==
    ASSUME CallersWait, courier.stage # "busy"
    PROVE  \A t \in sends : t.by # "store"
BY DEF CallersWait

\* The delivery task of the store hands a message over under a number of its own, or dies.
LEMMA ScheduledDeliveryInv ==
    ASSUME ServerInv, NEW m \in stored, ScheduledDelivery(m)
    PROVE  ServerInv'
<1> USE DEF ServerInv
<1>1. /\ UNCHANGED <<shut, inbox, connVars, waitVars, clients, forwards, stored, redos, enquireVars,
                     clientVars, worldVars, written, refused, again, heard, outcome, replies>>
      /\ courier.stage = "idle" /\ nextSeq' = nextSeq + 1
  BY DEF ScheduledDelivery
<1>2. nextSeq \in Nat /\ nextSeq' \in Nat /\ nextSeq' >= nextSeq /\ nextSeq < nextSeq'
  BY <1>1 DEF TypeOK
<1>3. m.msg \in Nat /\ m.sub \in Submits /\ m.at \in Nat
  BY DEF RecordsTyped
<1>4. /\ \A f \in forwards : f.seq \in Nat
      /\ \A t \in Own : t.seq \in Nat
      /\ \A w \in written : w.seq \in Nat
  BY DEF Own, TypeOK, RecordsTyped
<1>5. \A t \in sends : t.by # "store"
  BY <1>1, StoreNotCalling DEF RoutesInv
<1>6. AnswersToWritten'
  BY <1>1, SameInbox
<1>7. CASE Panics(m.sub)
  <2>1. courier' = [stage |-> "dead", msg |-> m] /\ UNCHANGED <<sends, assigned>>
    BY <1>7 DEF ScheduledDelivery
  <2>2. courier'.stage = "dead" /\ courier' = [stage |-> courier'.stage, msg |-> courier'.msg]
    BY <2>1
  <2>3. TypeOK' /\ RecordsTyped'
    BY <1>1, <1>2, <2>1, <2>2 DEF TypeOK, RecordsTyped, Busy
  <2>4. CallersWait'
    BY <1>1, <1>5, <2>1 DEF RoutesInv, CallersWait
  <2>5. TriedFailed'
    BY <1>1, <2>1 DEF RoutesInv, TriedFailed, NobodyPassedOver, CanFail
  <2>6. NumbersFresh'
    <3>1. Own' = Own
      BY <2>1 DEF Own
    <3> QED BY <1>1, <1>2, <1>4, <2>1, <3>1 DEF RoutesInv, NumbersFresh
  <2>7. MessagesNumbered'
    <3>1. /\ \A q \in assigned : q.seq \in Nat /\ q.msg \in Nat
          /\ \A k \in stored : k.msg \in Nat
      BY DEF RecordsTyped
    <3>2. \A k : ~InHand(k)
      BY <1>1 DEF InHand
    <3> QED BY <1>1, <1>2, <2>1, <3>1, <3>2 DEF RoutesInv, MessagesNumbered
  <2>8. TasksInv'
    <3>1. Recorded
      BY <1>1, <2>1 DEF Recorded
    <3> QED BY <1>1, <1>2, <3>1, TasksAlone
  <2> QED BY <1>6, <2>3, <2>4, <2>5, <2>6, <2>7, <2>8 DEF RoutesInv
<1>8. CASE ~Panics(m.sub)
  <2> DEFINE p == [seq |-> nextSeq, msg |-> m.msg, sub |-> m.sub, at |-> m.at]
  <2>1. /\ courier' = [stage |-> "busy", msg |-> m] /\ Send("store", nextSeq, m.dest)
        /\ assigned' = assigned \cup {p}
    BY <1>8 DEF ScheduledDelivery
  <2>2. /\ courier'.stage = "busy" /\ courier'.msg = m
        /\ courier' = [stage |-> courier'.stage, msg |-> courier'.msg]
        /\ p \in [seq : Nat, msg : Nat, sub : Submits, at : Nat] /\ p.seq = nextSeq /\ p.msg = m.msg
    BY <1>2, <1>3, <2>1
  <2> HIDE DEF p
  <2>3. /\ \A f \in forwards' : f.seq # nextSeq
        /\ \A t \in Own : t.seq # nextSeq
        /\ \A w \in written : w.seq # nextSeq
    BY <1>1, <1>2, <1>4 DEF RoutesInv, NumbersFresh
  <2>4. /\ NumbersFresh' /\ TriedFailed'
        /\ sends' \subseteq [by : Conns \cup Callers, seq : Nat, found : SUBSET Conns,
                             tried : SUBSET Conns, to : Conns \cup {"none"}]
        /\ \E t : /\ sends' = sends \cup {t} /\ t.by = "store" /\ t.seq = nextSeq
    <3>1. "store" \in Conns \cup Callers
      BY DEF Callers
    <3>2. TypeOK /\ RecordsTyped /\ NumbersFresh /\ TriedFailed
      BY DEF RoutesInv
    <3> QED BY <1>1, <1>2, <2>1, <2>3, <3>1, <3>2, CallStarts
  <2>5. TypeOK' /\ RecordsTyped'
    BY <1>1, <1>2, <2>1, <2>2, <2>4 DEF TypeOK, RecordsTyped, Busy
  <2>6. CallersWait'
    <3>1. "store" \notin Conns
      BY ServerAssumption DEF Callers
    <3> QED BY <1>1, <1>5, <2>2, <2>4, <3>1 DEF RoutesInv, CallersWait
  <2>7. MessagesNumbered'
    <3>1. /\ \A q \in assigned : q.seq \in Nat /\ q.msg \in Nat
          /\ \A k \in stored : k.msg \in Nat
      BY DEF RecordsTyped
    <3>2. \A k : ~InHand(k) /\ (InHand(k)' <=> k = m)
      BY <1>1, <2>2 DEF InHand
    <3>3. m.msg < nextSeq /\ \A q \in assigned : q.msg = m.msg => m.msg \in again
      BY <3>2 DEF RoutesInv, MessagesNumbered
    <3>4. \A k \in stored : k.msg = m.msg => k = m
      BY DEF RoutesInv, MessagesNumbered
    <3> QED BY <1>1, <1>2, <2>1, <2>2, <3>1, <3>2, <3>3, <3>4 DEF RoutesInv, MessagesNumbered
  <2>8. TasksInv'
    <3>1. Recorded
      BY <1>1, <2>1 DEF Recorded
    <3> QED BY <1>1, <1>2, <3>1, TasksAlone
  <2> QED BY <1>6, <2>4, <2>5, <2>6, <2>7, <2>8 DEF RoutesInv
<1> QED BY <1>7, <1>8

\* What was handed over is deleted, or marked as one to be handed over again.
LEMMA AfterDeliveryInv ==
    ASSUME ServerInv, AfterDelivery
    PROVE  ServerInv'
<1> USE DEF ServerInv
<1>1. /\ UNCHANGED <<shut, inbox, connVars, waitVars, routeVars, nextSeq, enquireVars, clientVars,
                     worldVars, assigned, written, refused, heard, outcome, replies>>
      /\ courier.stage = "handed" /\ courier' = Idle
      /\ \/ stored' = stored \ {courier.msg} /\ UNCHANGED <<redos, again>>
         \/ /\ redos < scene.redos /\ redos' = redos + 1
            /\ again' = again \cup {courier.msg.msg} /\ UNCHANGED stored
  BY DEF AfterDelivery
<1>2. courier'.stage = "idle" /\ courier' = [stage |-> courier'.stage, msg |-> courier'.msg]
  BY <1>1 DEF Idle
<1>3. nextSeq' \in Nat /\ nextSeq' >= nextSeq /\ Recorded
  BY <1>1 DEF TypeOK, Recorded
<1>4. TypeOK'
  <2>1. redos' \in 0 .. scene.redos
    <3>1. scene.redos \in Nat
      BY ServerAssumption DEF TypeOK
    <3> QED BY <1>1, <3>1 DEF TypeOK
  <2> QED BY <1>1, <1>2, <2>1 DEF TypeOK
<1>5. RecordsTyped'
  BY <1>1, <1>2 DEF RecordsTyped, Busy
<1>6. AnswersToWritten'
  BY <1>1, SameInbox
<1>7. CallersWait'
  <2>1. \A t \in sends : t.by # "store"
    BY <1>1, StoreNotCalling DEF RoutesInv
  <2> QED BY <1>1, <2>1 DEF RoutesInv, CallersWait
<1>8. TriedFailed'
  BY <1>1 DEF RoutesInv, TriedFailed, NobodyPassedOver, CanFail
<1>9. NumbersFresh'
  <2>1. Own' = Own
    BY <1>1 DEF Own
  <2> QED BY <1>1, <2>1 DEF RoutesInv, NumbersFresh
<1>10. MessagesNumbered'
  <2>1. \A k : InHand(k) => k = courier.msg
    BY DEF InHand
  <2>2. /\ again \subseteq again' /\ stored' \subseteq stored
        /\ courier.msg \notin stored' \/ courier.msg.msg \in again'
    BY <1>1
  <2> QED BY <1>1, <2>1, <2>2 DEF RoutesInv, MessagesNumbered
<1>11. TasksInv'
  BY <1>1, <1>3, TasksAlone
<1> QED BY <1>4, <1>5, <1>6, <1>7, <1>8, <1>9, <1>10, <1>11 DEF RoutesInv

\* A REST caller's message.
LEMMA RestDeliverInv ==
    ASSUME ServerInv, NEW n \in scene.rest, NEW a \in Addresses, RestDeliver(n, a)
    PROVE  ServerInv'
<1> USE DEF ServerInv
<1>1. /\ UNCHANGED <<scene, shut, inbox, connVars, waitVars, clients, forwards, storeVars, nextSeq,
                     enquireVars, clientVars, histVars>>
      /\ rest' = rest \cup {n} /\ Send("rest", n, a)
  BY DEF RestDeliver
<1>2. nextSeq' \in Nat /\ nextSeq' >= nextSeq /\ Recorded
  BY <1>1 DEF TypeOK, Recorded
<1>3. n \in Nat /\ "rest" \in Conns \cup Callers /\ "rest" \notin Conns
  BY ServerAssumption DEF TypeOK, Callers
<1>4. /\ NumbersFresh' /\ TriedFailed'
      /\ sends' \subseteq [by : Conns \cup Callers, seq : Nat, found : SUBSET Conns,
                           tried : SUBSET Conns, to : Conns \cup {"none"}]
      /\ \E t : /\ sends' = sends \cup {t} /\ t.by = "rest" /\ t.seq = n
  BY <1>1, <1>2, <1>3, CallStarts DEF RoutesInv
<1>5. TypeOK' /\ RecordsTyped'
  BY <1>1, <1>2, <1>4 DEF TypeOK, RecordsTyped, Busy
<1>6. AnswersToWritten'
  BY <1>1, SameInbox
<1>7. CallersWait'
  BY <1>1, <1>3, <1>4 DEF RoutesInv, CallersWait
<1>8. MessagesNumbered'
  <2>1. \A k : InHand(k)' <=> InHand(k)
    BY <1>1 DEF InHand
  <2> QED BY <1>1, <2>1 DEF RoutesInv, MessagesNumbered
<1>9. TasksInv'
  BY <1>1, <1>2, TasksAlone
<1> QED BY <1>4, <1>5, <1>6, <1>7, <1>8, <1>9 DEF RoutesInv

\* A call that has tried another client.
LEMMA TriedAnother ==
    ASSUME NEW b, NEW n, NEW f, NEW r, NEW o, NEW c, NEW t,
           t = [by |-> b, seq |-> n, found |-> f, tried |-> r, to |-> o]
    PROVE  Failed(t, c) = [by |-> b, seq |-> n, found |-> f, tried |-> r \cup {c}, to |-> "none"]
<1>1. [t EXCEPT !.tried = @ \cup {c}] =
          [by |-> b, seq |-> n, found |-> f, tried |-> r \cup {c}, to |-> o]
  OBVIOUS
<1>2. ASSUME NEW u, u = [by |-> b, seq |-> n, found |-> f, tried |-> r \cup {c}, to |-> o]
      PROVE  [u EXCEPT !.to = "none"] =
                 [by |-> b, seq |-> n, found |-> f, tried |-> r \cup {c}, to |-> "none"]
  BY <1>2
<1> QED BY <1>1, <1>2 DEF Failed

\* What a call comes to: a write that succeeds, ...
Wrote(t) ==
    /\ UNCHANGED refused
    /\ \E c \in Conns :
          /\ \/ t.by = "rest" /\ UNCHANGED written
             \/ t.by # "rest" /\ written' = written \cup {[seq |-> t.seq, conn |-> c]}
          /\ unanswered' \in {unanswered, unanswered \cup {[seq |-> t.seq, conn |-> c]}}

\* ... no client that is left, ...
GaveUp(t) ==
    /\ UNCHANGED <<written, unanswered>>
    /\ refused' = refused \cup {[seq |-> t.seq, conns |-> t.found]}
    /\ \A c \in t.found : c \in t.tried

\* ... or a client that is tried or waited for.
GoesOn(t) ==
    /\ UNCHANGED <<pc, courier, written, unanswered, refused>>
    /\ \E u : /\ sends' = (sends \ {t}) \cup {u} /\ u.by = t.by /\ u.seq = t.seq
              /\ \A c \in u.tried : c \in t.tried \/ CanFail(c)
              /\ u \in [by : Conns \cup Callers, seq : Nat, found : SUBSET Conns,
                        tried : SUBSET Conns, to : Conns \cup {"none"}]

\* A step of a call comes to one of these.
LEMMA SendStepShape ==
    ASSUME ServerInv, NEW t \in sends, SendStep(t)
    PROVE  /\ SendFrame
           /\ (EndSend(t) /\ Wrote(t)) \/ (EndSend(t) /\ GaveUp(t)) \/ GoesOn(t)
<1>1. /\ t.by \in Conns \cup Callers /\ t.seq \in Nat
      /\ t.found \subseteq Conns /\ t.tried \subseteq Conns /\ t.to \in Conns \cup {"none"}
      /\ Ahead(t) \subseteq Conns
      /\ t = [by |-> t.by, seq |-> t.seq, found |-> t.found, tried |-> t.tried, to |-> t.to]
  BY CallType DEF ServerInv
<1>2. CASE WriteOk(t)
  <2>1. PICK c \in Conns : Writes(t, c)
    BY <1>1, <1>2 DEF WriteOk
  <2>2. Wrote(t)
    BY <1>2, <2>1 DEF WriteOk, Writes, Wrote
  <2> QED BY <1>2, <2>2 DEF WriteOk
<1>3. CASE WriteFails(t)
  <2>1. PICK c \in Ahead(t) :
            CanFail(c) /\ sends' = (sends \ {t}) \cup {Failed(t, c)}
    BY <1>3 DEF WriteFails
  <2> DEFINE u == [by |-> t.by, seq |-> t.seq, found |-> t.found, tried |-> t.tried \cup {c},
                   to |-> "none"]
  <2>2. Failed(t, c) = u
    BY <1>1, TriedAnother
  <2>3. /\ u.by = t.by /\ u.seq = t.seq /\ u.tried = t.tried \cup {c}
        /\ u \in [by : Conns \cup Callers, seq : Nat, found : SUBSET Conns,
                  tried : SUBSET Conns, to : Conns \cup {"none"}]
    BY <1>1
  <2> HIDE DEF u
  <2>4. sends' = (sends \ {t}) \cup {u} /\ \A d \in u.tried : d \in t.tried \/ CanFail(d)
    BY <2>1, <2>2, <2>3
  <2>5. SendFrame /\ UNCHANGED <<pc, courier, written, unanswered, refused>>
    BY <1>3 DEF WriteFails
  <2> QED BY <2>3, <2>4, <2>5 DEF GoesOn
<1>4. CASE WriteStalls(t)
  <2>1. PICK c \in Conns : sends' = (sends \ {t}) \cup {[t EXCEPT !.to = c]}
    BY <1>1, <1>4 DEF WriteStalls
  <2> DEFINE u == [by |-> t.by, seq |-> t.seq, found |-> t.found, tried |-> t.tried, to |-> c]
  <2>2. [t EXCEPT !.to = c] = u
    BY <1>1
  <2>3. /\ u.by = t.by /\ u.seq = t.seq /\ u.tried = t.tried
        /\ u \in [by : Conns \cup Callers, seq : Nat, found : SUBSET Conns,
                  tried : SUBSET Conns, to : Conns \cup {"none"}]
    BY <1>1
  <2> HIDE DEF u
  <2>4. sends' = (sends \ {t}) \cup {u} /\ \A d \in u.tried : d \in t.tried \/ CanFail(d)
    BY <2>1, <2>2, <2>3
  <2>5. SendFrame /\ UNCHANGED <<pc, courier, written, unanswered, refused>>
    BY <1>4 DEF WriteStalls
  <2> QED BY <2>3, <2>4, <2>5 DEF GoesOn
<1>5. CASE GiveUp(t)
  <2>1. \A c \in t.found : c \in t.tried
    BY <1>5 DEF GiveUp, Ahead
  <2>2. GaveUp(t)
    BY <1>5, <2>1 DEF GiveUp, GaveUp
  <2> QED BY <1>5, <2>2 DEF GiveUp
<1> QED BY <1>2, <1>3, <1>4, <1>5 DEF SendStep

\* A call keeps its number until it ends; only then is the number written, and the caller
\* goes on.
LEMMA SendStepInv ==
    ASSUME ServerInv, NEW t \in sends, SendStep(t)
    PROVE  ServerInv'
<1>1. (EndSend(t) /\ Wrote(t)) \/ (EndSend(t) /\ GaveUp(t)) \/ GoesOn(t)
  BY SendStepShape
<1>2. SendFrame
  BY SendStepShape
<1> USE DEF ServerInv
<1>3. UNCHANGED <<shut, inbox, job, at, failed, seqOf, waitVars, clients, forwards, stored, redos,
                  nextSeq, enquireVars, link, sent, worldVars, assigned, again, heard, outcome,
                  replies>>
  BY <1>2 DEF SendFrame
<1>4. /\ t.by \in Conns \cup Callers /\ t.seq \in Nat
      /\ t.found \subseteq Conns /\ t.tried \subseteq Conns
  BY CallType
<1>5. /\ \A d \in Conns : pc'[d] = pc[d] \/ (pc[d] = "forward" /\ pc'[d] = "register")
      /\ pc' \in [Conns -> Stages]
      /\ courier'.stage = courier.stage \/ (courier.stage = "busy" /\ courier'.stage = "handed")
      /\ courier'.msg = courier.msg
      /\ courier' = [stage |-> courier'.stage, msg |-> courier'.msg]
      /\ courier'.stage \in {"idle", "busy", "handed", "dead"}
  <2>1. courier = [stage |-> courier.stage, msg |-> courier.msg]
    BY DEF RecordsTyped
  <2>2. pc \in [Conns -> Stages] /\ courier.stage \in {"idle", "busy", "handed", "dead"}
    BY DEF TypeOK
  <2>3. CASE EndSend(t)
    <3>1. /\ t.by \in Conns => pc[t.by] = "forward"
          /\ t.by = "store" => courier.stage = "busy"
      BY DEF RoutesInv, CallersWait
    <3>2. courier' = IF t.by = "store" THEN [stage |-> "handed", msg |-> courier.msg] ELSE courier
      BY <2>1, <2>3 DEF EndSend
    <3>3. /\ \A d \in Conns : pc'[d] = pc[d] \/ (pc[d] = "forward" /\ pc'[d] = "register")
          /\ pc' \in [Conns -> Stages]
      BY <2>2, <2>3, <3>1 DEF EndSend, Stages
    <3> QED BY <2>1, <2>2, <3>1, <3>2, <3>3
  <2>4. CASE GoesOn(t)
    BY <2>1, <2>2, <2>4 DEF GoesOn
  <2> QED BY <1>1, <2>3, <2>4
<1>6. \A d \in Conns : /\ Busy(d)' <=> Busy(d)
                       /\ Waits(d)' <=> Waits(d)
                       /\ pc'[d] = "wait" <=> pc[d] = "wait"
                       /\ pc'[d] = "http" => pc[d] = "http"
  BY <1>5 DEF Busy, Waits
<1>7. /\ written \subseteq written' /\ written' \subseteq [seq : Nat, conn : Conns]
      /\ unanswered' \subseteq [seq : Nat, conn : Conns]
      /\ \A u \in unanswered' : u \in unanswered \/ u \in written' \/ u.seq \in rest'
  <2>1. CASE UNCHANGED <<written, unanswered>>
    BY <2>1 DEF RecordsTyped
  <2>2. CASE Wrote(t)
    <3>1. t.by = "rest" => t.seq \in rest'
      BY <1>3 DEF RoutesInv, CallersWait
    <3> QED BY <1>4, <2>2, <3>1 DEF Wrote, RecordsTyped
  <2> QED BY <1>1, <2>1, <2>2 DEF GaveUp, GoesOn
<1>8. refused' \subseteq [seq : Nat, conns : SUBSET Conns]
  BY <1>1, <1>4 DEF RecordsTyped, Wrote, GaveUp, GoesOn
<1>9. sends' \subseteq [by : Conns \cup Callers, seq : Nat, found : SUBSET Conns,
                        tried : SUBSET Conns, to : Conns \cup {"none"}]
  BY <1>1 DEF EndSend, GoesOn, TypeOK
<1>10. TypeOK'
  BY <1>3, <1>5, <1>7, <1>9 DEF TypeOK, Numbered
<1>11. RecordsTyped'
  BY <1>3, <1>5, <1>6, <1>7, <1>8 DEF RecordsTyped
<1>12. AnswersToWritten'
  BY <1>3, <1>7, SameInbox
<1>13. TasksInv'
  <2>1. nextSeq' \in Nat /\ nextSeq' >= nextSeq /\ Recorded
    BY <1>3, <1>7 DEF TypeOK, Recorded
  <2> QED BY <1>3, <1>6, <2>1, TasksStay
<1>14. MessagesNumbered'
  <2>1. \A m : InHand(m)' <=> InHand(m)
    BY <1>5 DEF InHand
  <2> QED BY <1>3, <2>1 DEF RoutesInv, MessagesNumbered
<1>15. TriedFailed'
  <2>1. \A c : CanFail(c)' <=> CanFail(c)
    BY <1>3 DEF CanFail
  <2>2. \A u \in sends' : u \in sends \/ \A c \in u.tried : c \in t.tried \/ CanFail(c)
    BY <1>1 DEF EndSend, GoesOn
  <2>3. \A g \in refused' : g \in refused \/ \A c \in g.conns : c \in t.tried
    BY <1>1 DEF Wrote, GaveUp, GoesOn
  <2> QED BY <2>1, <2>2, <2>3 DEF RoutesInv, TriedFailed, NobodyPassedOver
<1>16. CASE EndSend(t)
  <2>1. sends' = sends \ {t} /\ Own' = Own \ {t}
    BY <1>16 DEF EndSend, Own
  <2>2. CallersWait'
    <3>1. ASSUME NEW u \in sends, u # t, u.by \in Conns
          PROVE  pc'[u.by] = "forward" /\ seqOf'[u.by] = u.seq
      <4>1. u.by # "rest" /\ pc[u.by] = "forward" /\ seqOf[u.by] = u.seq
        BY <3>1, ServerAssumption DEF Callers, RoutesInv, CallersWait
      <4>2. u.by # t.by
        <5>1. CASE t.by = u.by
          <6>1. t \in Own /\ u \in Own /\ t.seq = u.seq
            BY <3>1, <4>1, <5>1 DEF Own, RoutesInv, CallersWait
          <6> QED BY <3>1, <6>1 DEF RoutesInv, NumbersFresh
        <5> QED BY <5>1
      <4>3. pc'[u.by] = pc[u.by]
        BY <1>16, <3>1, <4>2 DEF EndSend, TypeOK
      <4> QED BY <1>3, <4>1, <4>3
    <3>2. ASSUME NEW u \in sends, u # t, u.by = "store"
          PROVE  courier'.stage = "busy"
      <4>1. courier.stage = "busy" /\ t.by # "store"
        BY <3>2 DEF RoutesInv, CallersWait
      <4> QED BY <1>16, <4>1 DEF EndSend
    <3>3. \A u \in sends : u.by = "rest" => u.seq \in rest'
      BY <1>3 DEF RoutesInv, CallersWait
    <3>4. \A v, u \in sends : v.by = "store" /\ u.by = "store" => v = u
      BY DEF RoutesInv, CallersWait
    <3> QED BY <2>1, <3>1, <3>2, <3>3, <3>4 DEF CallersWait
  <2>3. NumbersFresh'
    <3>1. CASE UNCHANGED written
      BY <1>3, <2>1, <3>1 DEF RoutesInv, NumbersFresh
    <3>2. CASE t.by # "rest" /\ \E c \in Conns : written' = written \cup {[seq |-> t.seq, conn |-> c]}
      <4>1. PICK c \in Conns : written' = written \cup {[seq |-> t.seq, conn |-> c]}
        BY <3>2
      <4> DEFINE w == [seq |-> t.seq, conn |-> c]
      <4>2. written' = written \cup {w} /\ w.seq = t.seq /\ t \in Own
        BY <3>2, <4>1 DEF Own
      <4> HIDE DEF w
      <4> QED BY <1>3, <2>1, <4>2 DEF RoutesInv, NumbersFresh
    <3>3. \/ UNCHANGED written
          \/ t.by # "rest" /\ \E c \in Conns : written' = written \cup {[seq |-> t.seq, conn |-> c]}
      <4>1. CASE Wrote(t)
        BY <4>1 DEF Wrote
      <4>2. CASE GaveUp(t)
        BY <4>2 DEF GaveUp
      <4>3. CASE GoesOn(t)
        BY <4>3 DEF GoesOn
      <4> QED BY <1>1, <4>1, <4>2, <4>3
    <3> QED BY <3>1, <3>2, <3>3
  <2> QED BY <1>10, <1>11, <1>12, <1>13, <1>14, <1>15, <2>2, <2>3 DEF RoutesInv
<1>17. CASE GoesOn(t)
  <2>1. PICK u : sends' = (sends \ {t}) \cup {u} /\ u.by = t.by /\ u.seq = t.seq
    BY <1>17 DEF GoesOn
  <2>2. UNCHANGED <<pc, courier, written>>
    BY <1>17 DEF GoesOn
  <2>3. CallersWait'
    BY <1>3, <2>1, <2>2 DEF RoutesInv, CallersWait
  <2>4. NumbersFresh'
    <3>1. Own' = IF t.by = "rest" THEN Own ELSE (Own \ {t}) \cup {u}
      BY <2>1 DEF Own
    <3>2. t.by # "rest" => t \in Own
      BY DEF Own
    <3> QED BY <1>3, <2>1, <2>2, <3>1, <3>2 DEF RoutesInv, NumbersFresh
  <2> QED BY <1>10, <1>11, <1>12, <1>13, <1>14, <1>15, <2>3, <2>4 DEF RoutesInv
<1> QED BY <1>1, <1>16, <1>17
-----------------------------------------------------------------------------
(***************************************************************************)
(* The wait for a response, the answer to a submit and the other PDUs.     *)
(***************************************************************************)

\* Registering evicts nobody, as nobody waits for that number.
LEMMA RegisterInv ==
    ASSUME ServerInv, NEW c \in Conns, RegisterWait(c)
    PROVE  ServerInv'
<1> USE DEF ServerInv
<1>1. /\ UNCHANGED <<shut, inbox, job, at, failed, seqOf, chan, routeVars, storeVars, nextSeq,
                     enquireVars, clientVars, worldVars, histVars>>
      /\ transactions' = {t \in transactions : t.seq # seqOf[c]} \cup {[seq |-> seqOf[c], conn |-> c]}
      /\ pc' = [pc EXCEPT ![c] = "wait"] /\ pc[c] = "register" /\ seqOf[c] \in Nat
  BY DEF RegisterWait, TypeOK
<1>2. pc'[c] = "wait" /\ \A d \in Conns \ {c} : pc'[d] = pc[d]
  BY <1>1 DEF TypeOK
<1>3. \A d \in Conns : Busy(d)' = Busy(d) /\ Waits(d)' = Waits(d) /\ Work(d)' = Work(d)
  BY <1>1, <1>2 DEF Busy, Waits, Work
<1>4. TypeOK'
  BY <1>1 DEF TypeOK, Stages
<1>5. RecordsTyped'
  BY <1>1, <1>3 DEF RecordsTyped
<1>6. AnswersToWritten'
  BY <1>1, SameInbox
<1>7. nextSeq' \in Nat /\ nextSeq' >= nextSeq /\ Recorded
  BY <1>1 DEF TypeOK, Recorded
<1>8. RoutesInv'
  <2>1. \A d \in Conns : /\ pc[d] = "forward" => pc'[d] = "forward" /\ seqOf'[d] = seqOf[d]
                         /\ CanFail(d) => CanFail(d)'
    BY <1>1, <1>2 DEF CanFail
  <2> QED BY <1>1, <1>7, <2>1, RoutesStay
<1>9. TasksInv'
  <2> USE DEF TasksInv
  <2>1. WaitersDiffer'
    BY <1>1, <1>3 DEF WaitersDiffer
  <2>2. TableByEntry'
    <3>1. ASSUME NEW n \in Nat, NEW d \in Conns
          PROVE  [seq |-> n, conn |-> d] \in transactions' <=>
                     pc'[d] = "wait" /\ chan'[d] = "none" /\ seqOf'[d] = n
      <4>1. CASE d = c
        BY <1>1, <1>2, <4>1 DEF TableByEntry
      <4>2. CASE d # c
        <5>1. [seq |-> n, conn |-> d] \in transactions' <=>
                  [seq |-> n, conn |-> d] \in transactions /\ n # seqOf[c]
          BY <1>1, <4>2
        <5>2. Waits(c) /\ (pc[d] = "wait" => Waits(d))
          BY <1>1 DEF Waits
        <5> QED BY <1>1, <1>2, <4>2, <5>1, <5>2 DEF TableByEntry, WaitersDiffer
      <4> QED BY <4>1, <4>2
    <3>2. \A d \in Conns : pc'[d] # "wait" => chan'[d] = "none"
      BY <1>1, <1>2 DEF TableByEntry
    <3> QED BY <3>1, <3>2 DEF TableByEntry
  <2>3. ResponseIsHeard' /\ OutcomesAnswered'
    BY <1>1, <1>7, AnsweredStays DEF ResponseIsHeard, OutcomesAnswered
  <2>4. WaitsForCurrent'
    BY <1>1, <1>3 DEF WaitsForCurrent
  <2>5. DestsAnswered'
    BY <1>1, <1>3, <1>7, AnsweredStays DEF DestsAnswered
  <2>6. PostsLocal'
    BY <1>1, <1>2, <1>3 DEF PostsLocal, Dest
  <2> QED BY <2>1, <2>2, <2>3, <2>4, <2>5, <2>6
<1> QED BY <1>4, <1>5, <1>6, <1>8, <1>9

\* A task that ends its wait takes its own entry out of the table, if it is still there.
LEMMA EntryGone ==
    ASSUME TypeOK, TableByEntry, WaitersDiffer, NEW c \in Conns, Waits(c),
           TakeResponse(c) \/ WaitTimeout(c)
    PROVE  OthersKept(c)
<1>1. \A k \in Nat, d \in Conns : [seq |-> k, conn |-> d] \in transactions =>
                                      pc[d] = "wait" /\ chan[d] = "none" /\ seqOf[d] = k /\ Waits(d)
  BY DEF TableByEntry, Waits
<1>2. CASE TakeResponse(c)
  <2>1. chan[c] # "none" /\ transactions' = transactions
    BY <1>2 DEF TakeResponse
  <2> QED BY <1>1, <2>1 DEF OthersKept
<1>3. CASE WaitTimeout(c)
  <2>1. transactions' = {t \in transactions : t.seq # seqOf[c]}
    BY <1>3 DEF WaitTimeout
  <2>2. \A k \in Nat, d \in Conns : [seq |-> k, conn |-> d] \in transactions =>
                                        (k = seqOf[c] <=> d = c)
    BY <1>1 DEF WaitersDiffer
  <2> QED BY <2>1, <2>2 DEF OthersKept
<1> QED BY <1>2, <1>3

\* A wait ends with a response, which is one to the number of the destination, or without,
\* which makes the destination fail. Either way its entry is gone and no other.
LEMMA WaitEndsInv ==
    ASSUME ServerInv, NEW c \in Conns, TakeResponse(c) \/ WaitTimeout(c)
    PROVE  ServerInv'
<1> USE DEF ServerInv
<1>1. /\ UNCHANGED <<shut, inbox, job, routeVars, storeVars, nextSeq, enquireVars, clientVars,
                     worldVars, histVars>>
      /\ pc[c] = "wait" /\ seqOf' = [seqOf EXCEPT ![c] = 0] /\ chan' = [chan EXCEPT ![c] = "none"]
  BY DEF TakeResponse, WaitTimeout
<1>2. PICK ok \in BOOLEAN : NextDest(c, ok) /\ (ok => chan[c] = "ok")
  <2>1. CASE TakeResponse(c)
    <3>1. NextDest(c, chan[c] = "ok") /\ (chan[c] = "ok") \in BOOLEAN
      BY <2>1 DEF TakeResponse
    <3> QED BY <3>1
  <2>2. CASE WaitTimeout(c)
    BY <2>2 DEF WaitTimeout
  <2> QED BY <2>1, <2>2
<1>3. Busy(c) /\ Waits(c) /\ job[c] \in Submits /\ at[c] \in Nat \ {0}
  BY <1>1 DEF Busy, Waits, RecordsTyped
<1>4. OthersKept(c)
  BY <1>3, EntryGone DEF TasksInv
<1>5. transactions' \subseteq transactions
  BY DEF TakeResponse, WaitTimeout
<1>6. TypeOK'
  <2>1. failed' \in [Conns -> BOOLEAN]
    BY <1>2, NextDestType
  <2>2. /\ pc' \in [Conns -> Stages]
        /\ at' \in [Conns -> Nat]
    BY <1>2, NextDestType
  <2> QED BY <1>1, <1>5, <2>1, <2>2 DEF TypeOK
<1>7. RecordsTyped'
  <2>1. \A d \in Conns : Busy(d)' => job'[d] \in Submits /\ at'[d] \in Nat \ {0}
    BY <1>1, <1>2, <1>3 DEF RecordsTyped, NextDest, TypeOK, Busy
  <2> QED BY <1>1, <2>1 DEF RecordsTyped
<1>8. AnswersToWritten'
  BY <1>1, SameInbox
<1>9. nextSeq' \in Nat /\ nextSeq' >= nextSeq /\ Recorded
  BY <1>1 DEF TypeOK, Recorded
<1>10. RoutesInv'
  <2>1. \A d \in Conns : /\ pc[d] = "forward" => pc'[d] = "forward" /\ seqOf'[d] = seqOf[d]
                         /\ CanFail(d) => CanFail(d)'
    BY <1>1, <1>2 DEF NextDest, TypeOK, CanFail
  <2> QED BY <1>1, <1>9, <2>1, RoutesStay
<1>11. ASSUME NEW i \in Nat, i = at[c], ok PROVE Answered(job[c], i)'
  <2>1. HeardOk(seqOf[c]) /\ \E p \in assigned : p.seq = seqOf[c] /\ p.sub = job[c] /\ p.at = at[c]
    BY <1>2, <1>3, <1>11 DEF TasksInv, ResponseIsHeard, WaitsForCurrent
  <2>2. Answered(job[c], i)
    BY <1>11, <2>1 DEF Answered
  <2> QED BY <1>1, <1>9, <2>2, AnsweredStays
<1>12. TasksInv'
  BY <1>1, <1>2, <1>3, <1>4, <1>9, <1>11, TasksNextDest
<1> QED BY <1>6, <1>7, <1>8, <1>10, <1>12

\* The response says ok if no destination has failed: then all of them were answered.
LEMMA AnswerInv ==
    ASSUME ServerInv, NEW c \in Conns, Answer(c)
    PROVE  ServerInv'
<1> USE DEF ServerInv
<1>1. /\ UNCHANGED <<shut, inbox, seqOf, waitVars, routeVars, storeVars, nextSeq, enquireVars,
                     clientVars, worldVars, sentVars, heard, replies>>
      /\ pc[c] = "dest" /\ at[c] > Len(Work(c).dests)
  BY DEF Answer
<1>2. /\ \A d \in Conns \ {c} : /\ pc'[d] = pc[d] /\ at'[d] = at[d] /\ failed'[d] = failed[d]
                                /\ job'[d] = job[d]
      /\ pc'[c] \in {"read", "panicked"} /\ pc' \in [Conns -> Stages]
      /\ job' \in [Conns -> Submits \cup {NoJob}] /\ at' \in [Conns -> Nat]
  <2>1. /\ pc \in [Conns -> Stages] /\ at \in [Conns -> Nat]
        /\ job \in [Conns -> Submits \cup {NoJob}] /\ failed \in [Conns -> BOOLEAN]
    BY DEF TypeOK
  <2>2. CASE Done(c)
    BY <2>1, <2>2 DEF Done, Stages
  <2>3. CASE pc' = [pc EXCEPT ![c] = "panicked"] /\ UNCHANGED <<job, at, failed>>
    BY <2>1, <2>3 DEF Stages
  <2> QED BY <2>2, <2>3 DEF Answer
<1>3. Busy(c) /\ ~Waits(c) /\ job[c] \in Submits /\ at[c] \in Nat \ {0} /\ Len(Work(c).dests) \in Nat
  BY <1>1, ServerAssumption DEF Busy, Waits, RecordsTyped, Work
<1>4. /\ ~Busy(c)' /\ ~Waits(c)' /\ pc'[c] # "wait" /\ pc'[c] # "http"
      /\ \A d \in Conns \ {c} : /\ Busy(d)' = Busy(d) /\ Waits(d)' = Waits(d)
                                /\ Work(d)' = Work(d)
  BY <1>2 DEF Busy, Waits, Work
<1>5. \/ UNCHANGED outcome
      \/ outcome' = [outcome EXCEPT ![job[c]] = "error"]
      \/ ~failed[c] /\ outcome' = [outcome EXCEPT ![job[c]] = "ok"]
  BY DEF Answer
<1>6. TypeOK'
  <2>1. failed' \in [Conns -> BOOLEAN]
    BY DEF Answer, Done, TypeOK
  <2>2. outcome' \in [Submits -> {"none", "ok", "error"}]
    BY <1>5 DEF TypeOK
  <2> QED BY <1>1, <1>2, <2>1, <2>2 DEF TypeOK
<1>7. RecordsTyped'
  <2>1. \A d \in Conns : Busy(d)' => job'[d] \in Submits /\ at'[d] \in Nat \ {0}
    BY <1>2, <1>4 DEF RecordsTyped
  <2> QED BY <1>1, <2>1 DEF RecordsTyped
<1>8. AnswersToWritten'
  BY <1>1, SameInbox
<1>9. nextSeq' \in Nat /\ nextSeq' >= nextSeq /\ Recorded
  BY <1>1 DEF TypeOK, Recorded
<1>10. RoutesInv'
  <2>1. \A d \in Conns : /\ pc[d] = "forward" => pc'[d] = "forward" /\ seqOf'[d] = seqOf[d]
                         /\ CanFail(d) => CanFail(d)'
    BY <1>1, <1>2 DEF CanFail
  <2> QED BY <1>1, <1>9, <2>1, RoutesStay
<1>11. TasksInv'
  <2> USE DEF TasksInv
  <2>1. WaitersDiffer' /\ TableByEntry'
    <3>1. \A d \in Conns : /\ Waits(d)' => Waits(d) /\ d # c
                           /\ pc'[d] = "wait" <=> pc[d] = "wait"
                           /\ chan'[d] = chan[d] /\ seqOf'[d] = seqOf[d]
      BY <1>1, <1>2, <1>4
    <3>2. nextSeq' = nextSeq /\ transactions' = transactions
      BY <1>1
    <3> QED BY <3>1, <3>2 DEF WaitersDiffer, TableByEntry
  <2>2. ResponseIsHeard'
    <3>1. \A d \in Conns : chan'[d] = chan[d] /\ seqOf'[d] = seqOf[d]
      BY <1>1
    <3> QED BY <1>9, <3>1, AnsweredStays DEF ResponseIsHeard
  <2>3. WaitsForCurrent'
    BY <1>1, <1>2, <1>4 DEF WaitsForCurrent
  <2>4. DestsAnswered'
    BY <1>2, <1>4, <1>9, AnsweredStays DEF DestsAnswered
  <2>5. OutcomesAnswered'
    <3> SUFFICES ASSUME NEW s \in Submits, Load[s].mode = "transaction", outcome'[s] = "ok",
                        NEW i \in 1 .. Len(Load[s].dests), Load[s].dests[i] \notin Local
                 PROVE  Answered(s, i)'
      BY DEF OutcomesAnswered
    <3>1. CASE outcome[s] = "ok"
      BY <1>9, <3>1, AnsweredStays DEF OutcomesAnswered
    <3>2. CASE outcome[s] # "ok"
      <4>1. s = job[c] /\ ~failed[c]
        BY <1>5, <3>2 DEF TypeOK
      <4>2. i < at[c]
        BY <1>1, <1>3, <4>1 DEF Work
      <4>3. Answered(s, i)
        BY <1>3, <4>1, <4>2 DEF DestsAnswered, Work
      <4> QED BY <1>9, <4>3, AnsweredStays
    <3> QED BY <3>1, <3>2
  <2>6. PostsLocal'
    BY <1>2, <1>4 DEF PostsLocal, Dest
  <2> QED BY <2>1, <2>2, <2>3, <2>4, <2>5, <2>6
<1> QED BY <1>6, <1>7, <1>8, <1>10, <1>11

\* response_received hands the response to the task that waits for its number, if any. The
\* client that sent it had the message.
LEMMA ResponseInv ==
    ASSUME ServerInv, NEW c \in Conns, HandleResponse(c)
    PROVE  ServerInv'
<1> USE DEF ServerInv
<1> DEFINE p == Head(inbox[c])
<1>1. /\ UNCHANGED <<shut, connVars, routeVars, storeVars, nextSeq, enquireVars, clientVars,
                     worldVars, sentVars, outcome, replies>>
      /\ transactions' = {t \in transactions : t.seq # p.seq}
      /\ chan' = [d \in Conns |-> IF [seq |-> p.seq, conn |-> d] \in transactions
                                  THEN p.status ELSE chan[d]]
      /\ heard' = heard \cup {[seq |-> p.seq, conn |-> c, status |-> p.status]}
      /\ Consume(c) /\ inbox[c] # <<>> /\ p.kind = "resp"
  BY DEF HandleResponse, Received
<1>2. p \in Pdus /\ 1 \in 1 .. Len(inbox[c]) /\ p = inbox[c][1]
  BY <1>1, HeadType
<1>3. p.seq \in Nat /\ p.status \in {"ok", "fail"}
  BY <1>1, <1>2 DEF Pdus
<1>4. p.seq \in rest \/ [seq |-> p.seq, conn |-> c] \in written
  BY <1>1, <1>2 DEF AnswersToWritten
<1>5. inbox' \in [Conns -> Seq(Pdus)] /\ AnswersToWritten'
  BY <1>1, ConsumeInbox
<1> HIDE DEF p
<1>6. /\ heard' \subseteq [seq : Nat, conn : Conns, status : {"ok", "fail"}]
      /\ Numbered(heard')
  BY <1>1, <1>3 DEF RecordsTyped, Numbered
<1>7. TypeOK'
  BY <1>1, <1>3, <1>6 DEF TypeOK
<1>8. RecordsTyped'
  BY <1>1, <1>5, <1>6 DEF RecordsTyped, Busy
<1>9. nextSeq' \in Nat /\ nextSeq' >= nextSeq /\ Recorded
  BY <1>1 DEF TypeOK, Recorded
<1>10. RoutesInv'
  <2>1. \A d \in Conns : /\ pc[d] = "forward" => pc'[d] = "forward" /\ seqOf'[d] = seqOf[d]
                         /\ CanFail(d) => CanFail(d)'
    BY <1>1 DEF CanFail
  <2> QED BY <1>1, <1>9, <2>1, RoutesStay
<1>11. TasksInv'
  <2> USE DEF TasksInv
  <2>1. \A d \in Conns : /\ Busy(d)' <=> Busy(d)
                         /\ Waits(d)' <=> Waits(d)
                         /\ Work(d)' = Work(d)
    BY <1>1 DEF Busy, Waits, Work
  <2>2. WaitersDiffer'
    BY <1>1, <2>1 DEF WaitersDiffer
  <2>3. TableByEntry'
    <3>1. \A d \in Conns : [seq |-> p.seq, conn |-> d] \in transactions <=>
                               pc[d] = "wait" /\ chan[d] = "none" /\ seqOf[d] = p.seq
      BY <1>3 DEF TableByEntry
    <3>2. \A n \in Nat, d \in Conns : [seq |-> n, conn |-> d] \in transactions' <=>
                                          [seq |-> n, conn |-> d] \in transactions /\ n # p.seq
      BY <1>1
    <3>3. \A d \in Conns : chan'[d] = IF [seq |-> p.seq, conn |-> d] \in transactions
                                      THEN p.status ELSE chan[d]
      BY <1>1
    <3> QED BY <1>1, <1>3, <3>1, <3>2, <3>3 DEF TableByEntry
  <2>4. ResponseIsHeard'
    <3> SUFFICES ASSUME NEW d \in Conns, chan'[d] = "ok" PROVE HeardOk(seqOf[d])'
      BY DEF ResponseIsHeard
    <3>1. CASE [seq |-> p.seq, conn |-> d] \in transactions
      <4>1. p.status = "ok" /\ seqOf'[d] = p.seq
        BY <1>1, <1>3, <3>1 DEF TableByEntry
      <4>2. /\ [seq |-> p.seq, conn |-> c, status |-> p.status] \in heard'
            /\ p.seq \in rest' \/ [seq |-> p.seq, conn |-> c] \in written'
        BY <1>1, <1>4
      <4> QED BY <4>1, <4>2 DEF HeardOk
    <3>2. CASE [seq |-> p.seq, conn |-> d] \notin transactions
      BY <1>1, <1>9, <3>2, AnsweredStays DEF ResponseIsHeard
    <3> QED BY <3>1, <3>2
  <2>5. WaitsForCurrent'
    BY <1>1, <2>1 DEF WaitsForCurrent
  <2>6. DestsAnswered'
    BY <1>1, <1>9, <2>1, AnsweredStays DEF DestsAnswered
  <2>7. OutcomesAnswered'
    BY <1>1, <1>9, AnsweredStays DEF OutcomesAnswered
  <2>8. PostsLocal'
    BY <1>1, <2>1 DEF PostsLocal, Dest
  <2> QED BY <2>2, <2>3, <2>4, <2>5, <2>6, <2>7, <2>8
<1> QED BY <1>5, <1>7, <1>8, <1>10, <1>11

\* The status in a response.
LEMMA StatusType ==
    ASSUME NEW kind, NEW status \in Statuses(kind)
    PROVE  status \in {"none", "ok", "error"}
BY Zenon DEF Statuses

\* The other requests touch no submit.
LEMMA AskInv ==
    ASSUME ServerInv, NEW c \in Conns, HandleAsk(c)
    PROVE  ServerInv'
<1> USE DEF ServerInv
<1> DEFINE q == Head(inbox[c]).ask
<1>1. /\ UNCHANGED <<shut, connVars, waitVars, routeVars, courier, redos, nextSeq, enquireVars,
                     clientVars, worldVars, sentVars, heard, outcome>>
      /\ Consume(c) /\ inbox[c] # <<>> /\ stored' \subseteq stored
  BY DEF HandleAsk, Received
<1>2. q \in Asks
  BY HeadType DEF HandleAsk, Received, Pdus
<1>3. replies' \in [Asks -> {"none", "ok", "error"}]
  <2>1. \/ UNCHANGED replies
        \/ \E status \in Statuses(AskOf[q].kind) :
              replies' \in {replies, [replies EXCEPT ![q] = status]}
    BY DEF HandleAsk
  <2>2. replies \in [Asks -> {"none", "ok", "error"}]
    BY DEF TypeOK
  <2> HIDE DEF q
  <2> QED BY <1>2, <2>1, <2>2, StatusType
<1>4. inbox' \in [Conns -> Seq(Pdus)] /\ AnswersToWritten'
  BY <1>1, ConsumeInbox
<1> HIDE DEF q
<1>5. TypeOK'
  BY <1>1, <1>3 DEF TypeOK
<1>6. RecordsTyped'
  BY <1>1, <1>4 DEF RecordsTyped, Busy
<1>7. nextSeq' \in Nat /\ nextSeq' >= nextSeq /\ Recorded
  BY <1>1 DEF TypeOK, Recorded
<1>8. RoutesInv'
  <2>1. \A d \in Conns : CanFail(d) => CanFail(d)'
    BY <1>1 DEF CanFail
  <2> QED BY <1>1, <1>7, <2>1, RoutesStay
<1>9. TasksInv'
  BY <1>1, <1>7, TasksAlone
<1> QED BY <1>4, <1>5, <1>6, <1>8, <1>9
-----------------------------------------------------------------------------
(***************************************************************************)
(* The enquire_link task and the clients.                                  *)
(***************************************************************************)

\* The enquire_link task only takes numbers.
LEMMA EnquireInv ==
    ASSUME ServerInv, NEW c \in Conns, EnquireTick(c)
    PROVE  ServerInv'
<1> USE DEF ServerInv
<1>1. /\ UNCHANGED <<shut, inbox, connVars, waitVars, routeVars, storeVars, clientVars, worldVars,
                     histVars>>
      /\ nextSeq' = nextSeq + 1
  BY DEF EnquireTick
<1>2. nextSeq' \in Nat /\ nextSeq' >= nextSeq /\ Recorded
  BY <1>1 DEF TypeOK, Recorded
<1>3. enquirers' \subseteq Conns
  BY DEF EnquireTick, TypeOK
<1>4. enquires' \in 0 .. scene.enquires
  <2>1. scene.enquires \in Nat
    BY ServerAssumption DEF TypeOK
  <2> QED BY <2>1 DEF EnquireTick, TypeOK
<1>5. TypeOK'
  BY <1>1, <1>2, <1>3, <1>4 DEF TypeOK
<1>6. RecordsTyped'
  BY <1>1 DEF RecordsTyped, Busy
<1>7. AnswersToWritten'
  BY <1>1, SameInbox
<1>8. RoutesInv'
  <2>1. \A d \in Conns : CanFail(d) => CanFail(d)'
    BY <1>1 DEF CanFail
  <2> QED BY <1>1, <1>2, <2>1, RoutesStay
<1>9. TasksInv'
  BY <1>1, <1>2, TasksAlone
<1> QED BY <1>5, <1>6, <1>7, <1>8, <1>9

\* What a client does touches nothing but its link, its inbox and what it has to answer.
LEMMA ClientStepInv ==
    ASSUME ServerInv, link' \in [Conns -> {"open", "stalled", "closed"}],
           \A c \in Conns : link[c] = "closed" => link'[c] = "closed",
           unanswered' \subseteq unanswered, inbox' \in [Conns -> Seq(Pdus)], AnswersToWritten',
           UNCHANGED <<shut, connVars, waitVars, routeVars, storeVars, nextSeq, enquireVars,
                       worldVars, histVars>>
    PROVE  ServerInv'
<1> USE DEF ServerInv
<1>1. TypeOK'
  BY DEF TypeOK, Numbered
<1>2. RecordsTyped'
  BY DEF RecordsTyped, Busy
<1>3. nextSeq' \in Nat /\ nextSeq' >= nextSeq /\ Recorded
  BY DEF TypeOK, Recorded
<1>4. RoutesInv'
  <2>1. \A d \in Conns : CanFail(d) => CanFail(d)'
    BY DEF CanFail
  <2> QED BY <1>3, <2>1, RoutesStay
<1>5. TasksInv'
  BY <1>3, TasksAlone
<1> QED BY <1>1, <1>2, <1>4, <1>5

\* It sends a request ...
LEMMA ClientSendInv ==
    ASSUME ServerInv, NEW c \in Conns, NEW what, NEW p \in Pdus, p.kind # "resp",
           ClientSend(c, what, p)
    PROVE  ServerInv'
<1>1. /\ inbox' = [inbox EXCEPT ![c] = Append(@, p)]
      /\ UNCHANGED <<written, rest, unanswered>>
  BY DEF ClientSend
<1>2. inbox' \in [Conns -> Seq(Pdus)] /\ AnswersToWritten'
  BY <1>1, AppendInbox DEF ServerInv
<1>3. /\ link' \in [Conns -> {"open", "stalled", "closed"}] /\ unanswered' \subseteq unanswered
      /\ \A d \in Conns : link[d] = "closed" => link'[d] = "closed"
      /\ UNCHANGED <<shut, connVars, waitVars, routeVars, storeVars, nextSeq, enquireVars, worldVars,
                     histVars>>
  BY DEF ClientSend, ServerInv, TypeOK
<1> QED BY <1>2, <1>3, ClientStepInv

\* ... of one kind or the other ...
LEMMA RequestInv ==
    ASSUME ServerInv,
           \/ \E c \in Conns : ClientBind(c) \/ ClientUnbind(c)
           \/ \E s \in scene.submits : ClientSubmit(s)
           \/ \E q \in scene.asks : ClientAsk(q)
    PROVE  ServerInv'
<1>0. scene \in Scenes
  BY DEF ServerInv, TypeOK
<1>1. ASSUME NEW c \in Conns, ClientBind(c) \/ ClientUnbind(c) PROVE ServerInv'
  <2> DEFINE p == [kind |-> "bind"]
             r == [kind |-> "unbind"]
  <2>1. p \in Pdus /\ p.kind # "resp" /\ r \in Pdus /\ r.kind # "resp"
    BY DEF Pdus
  <2>2. ClientSend(c, NoJob, p) \/ ClientSend(c, c, r)
    BY <1>1 DEF ClientBind, ClientUnbind
  <2> HIDE DEF p, r
  <2> QED BY <2>1, <2>2, ClientSendInv
<1>2. ASSUME NEW s \in scene.submits, ClientSubmit(s) PROVE ServerInv'
  <2> DEFINE p == [kind |-> "submit", sub |-> s]
  <2>1. s \in Submits /\ Load[s].from \in Conns
    BY <1>0, ServerAssumption
  <2>2. p \in Pdus /\ p.kind # "resp" /\ ClientSend(Load[s].from, s, p)
    BY <1>2, <2>1 DEF Pdus, ClientSubmit
  <2> HIDE DEF p
  <2> QED BY <2>1, <2>2, ClientSendInv
<1>3. ASSUME NEW q \in scene.asks, ClientAsk(q) PROVE ServerInv'
  <2> DEFINE p == [kind |-> "ask", ask |-> q]
  <2>1. q \in Asks /\ AskOf[q].from \in Conns
    BY <1>0, ServerAssumption
  <2>2. p \in Pdus /\ p.kind # "resp" /\ ClientSend(AskOf[q].from, q, p)
    BY <1>3, <2>1 DEF Pdus, ClientAsk
  <2> HIDE DEF p
  <2> QED BY <2>1, <2>2, ClientSendInv
<1> QED BY <1>1, <1>2, <1>3

\* ... answers what it was sent ...
LEMMA ClientAnswerInv ==
    ASSUME ServerInv, NEW d \in unanswered, NEW status \in {"ok", "fail"}, ClientAnswer(d, status)
    PROVE  ServerInv'
<1> DEFINE p == [kind |-> "resp", seq |-> d.seq, status |-> status]
<1>1. /\ d \in written \/ d.seq \in rest
      /\ d \in [seq : Nat, conn : Conns] /\ d = [seq |-> d.seq, conn |-> d.conn]
  BY DEF ServerInv, RecordsTyped, AnswersToWritten
<1>2. p \in Pdus /\ p.seq = d.seq
  BY <1>1 DEF Pdus
<1>3. inbox' = [inbox EXCEPT ![d.conn] = Append(@, p)] /\ UNCHANGED <<written, rest>>
      /\ unanswered' \subseteq unanswered
  BY DEF ClientAnswer
<1> HIDE DEF p
<1>4. inbox' \in [Conns -> Seq(Pdus)] /\ AnswersToWritten'
  BY <1>1, <1>2, <1>3, AppendInbox DEF ServerInv
<1>5. /\ link' \in [Conns -> {"open", "stalled", "closed"}] /\ unanswered' \subseteq unanswered
      /\ \A c \in Conns : link[c] = "closed" => link'[c] = "closed"
      /\ UNCHANGED <<shut, connVars, waitVars, routeVars, storeVars, nextSeq, enquireVars, worldVars,
                     histVars>>
  BY DEF ClientAnswer, ServerInv, TypeOK
<1> QED BY <1>4, <1>5, ClientStepInv

\* ... stops reading, reads on or goes away.
LEMMA ClientLinkInv ==
    ASSUME ServerInv, NEW c \in Conns, ClientClose(c) \/ ClientStalls(c) \/ ClientReadsOn(c)
    PROVE  ServerInv'
<1>1. /\ link' \in [Conns -> {"open", "stalled", "closed"}] /\ unanswered' \subseteq unanswered
      /\ \A d \in Conns : link[d] = "closed" => link'[d] = "closed"
      /\ UNCHANGED <<inbox, shut, connVars, waitVars, routeVars, storeVars, nextSeq, enquireVars,
                     worldVars, histVars>>
  BY DEF ClientClose, ClientStalls, ClientReadsOn, ServerInv, TypeOK
<1>2. inbox' \in [Conns -> Seq(Pdus)]
  BY <1>1 DEF ServerInv, RecordsTyped
<1>3. AnswersToWritten'
  <2>1. \A u \in unanswered' : u \in unanswered
    BY <1>1
  <2> QED BY <1>1, <2>1, SameInbox DEF ServerInv
<1> QED BY <1>1, <1>2, <1>3, ClientStepInv
-----------------------------------------------------------------------------
(***************************************************************************)
(* The theorems.                                                           *)
(***************************************************************************)

\* At the start nothing is sent, numbered or waited for.
LEMMA ServerInit == Init => ServerInv
<1> SUFFICES ASSUME Init PROVE ServerInv
  OBVIOUS
<1>1. TypeOK
  <2>1. failed \in [Conns -> BOOLEAN]
    BY DEF Init
  <2>2. /\ scene \in Scenes /\ 0 \in 0 .. scene.enquires /\ 0 \in 0 .. scene.redos
        /\ courier.stage = "idle"
    BY ServerAssumption DEF Init, Idle
  <2> QED BY <2>1, <2>2 DEF Init, TypeOK, Numbered, Stages
<1>2. \A c \in Conns : ~Busy(c) /\ ~Waits(c) /\ pc[c] # "wait" /\ chan[c] = "none"
  BY DEF Init, Busy, Waits
<1>3. RecordsTyped
  BY <1>2 DEF Init, RecordsTyped, Idle
<1>4. AnswersToWritten
  BY DEF Init, AnswersToWritten
<1>5. RoutesInv
  BY DEF Init, RoutesInv, CallersWait, TriedFailed, NobodyPassedOver, NumbersFresh, Own,
         MessagesNumbered
<1>6. WaitersDiffer /\ TableByEntry
  BY <1>2 DEF Init, WaitersDiffer, TableByEntry
<1>7. ResponseIsHeard /\ WaitsForCurrent /\ DestsAnswered /\ PostsLocal
  BY <1>2 DEF ResponseIsHeard, WaitsForCurrent, DestsAnswered, PostsLocal, Busy
<1>8. OutcomesAnswered
  BY DEF Init, OutcomesAnswered
<1> QED BY <1>1, <1>3, <1>4, <1>5, <1>6, <1>7, <1>8 DEF ServerInv, TasksInv

\* Every step keeps the invariant.
LEMMA ServerStep == ServerInv /\ [Next]_vars => ServerInv'
<1> SUFFICES ASSUME ServerInv, [Next]_vars PROVE ServerInv'
  OBVIOUS
<1>1. ASSUME NEW c \in Conns, ConnStep(c) PROVE ServerInv'
  BY <1>1, BindInv, StartSubmitInv, LocalDestInv, DatagramDestInv, StoreDestInv, ForwardDestInv,
     SendStepInv, RegisterInv, WaitEndsInv, AnswerInv, ResponseInv, AskInv DEF ConnStep
<1>2. ASSUME NEW c \in Conns, HttpReturns(c) \/ EnquireTick(c) \/ ClientStep(c)
      PROVE  ServerInv'
  BY <1>2, HttpReturnsInv, EnquireInv, RequestInv, ClientLinkInv DEF ClientStep
<1>3. CASE \/ \E f \in forwards : RunForward(f)
           \/ \E t \in sends : t.by \in {"datagram", "rest"} /\ SendStep(t)
  BY <1>3, RunForwardInv, SendStepInv
<1>4. CASE StoreStep
  BY <1>4, ScheduledDeliveryInv, SendStepInv, AfterDeliveryInv DEF StoreStep
<1>5. CASE \E n \in scene.rest, a \in Addresses : RestDeliver(n, a)
  BY <1>5, RestDeliverInv
<1>6. CASE \/ \E s \in scene.submits : ClientSubmit(s)
           \/ \E q \in scene.asks : ClientAsk(q)
  BY <1>6, RequestInv
<1>7. CASE \E d \in unanswered, status \in {"ok", "fail"} : ClientAnswer(d, status)
  BY <1>7, ClientAnswerInv
<1>8. CASE UNCHANGED vars
  <2>1. UNCHANGED <<inbox, link, unanswered, shut, connVars, waitVars, routeVars, storeVars, nextSeq,
                    enquireVars, worldVars, histVars>>
    BY <1>8 DEF vars
  <2>2. /\ link' \in [Conns -> {"open", "stalled", "closed"}] /\ unanswered' \subseteq unanswered
        /\ \A d \in Conns : link[d] = "closed" => link'[d] = "closed"
        /\ inbox' \in [Conns -> Seq(Pdus)]
    BY <2>1 DEF ServerInv, TypeOK, RecordsTyped
  <2>3. AnswersToWritten'
    BY <2>1, SameInbox DEF ServerInv
  <2> QED BY <2>1, <2>2, <2>3, ClientStepInv
<1> QED BY <1>1, <1>2, <1>3, <1>4, <1>5, <1>6, <1>7, <1>8 DEF Next

\* ServerInv holds in every reachable state.
THEOREM ServerInvariant == Spec => []ServerInv
BY ServerInit, ServerStep, PTL DEF Spec

\* TypeOK: every variable of the server keeps its type.
THEOREM ServerTypeCorrect == Spec => []TypeOK
<1>1. ServerInv => TypeOK
  BY DEF ServerInv
<1> QED BY <1>1, ServerInvariant, PTL

\* TableMatchesWaiters: TransactionResponseManager's table holds exactly the tasks that wait,
\* whatever order registrations, responses, time-outs and disconnections come in.
THEOREM TableCorrect == Spec => []TableMatchesWaiters
<1>1. ASSUME ServerInv PROVE TableMatchesWaiters
  <2> DEFINE waiters == {d \in Conns : pc[d] = "wait" /\ chan[d] = "none"}
  <2>1. ASSUME NEW t \in transactions
        PROVE  \E c \in waiters : t = [seq |-> seqOf[c], conn |-> c]
    <3>1. t.seq \in Nat /\ t.conn \in Conns /\ t = [seq |-> t.seq, conn |-> t.conn]
      BY <1>1 DEF ServerInv, TypeOK
    <3>2. t.conn \in waiters /\ seqOf[t.conn] = t.seq
      BY <1>1, <3>1 DEF ServerInv, TasksInv, TableByEntry
    <3> QED BY <3>1, <3>2
  <2>2. ASSUME NEW c \in waiters PROVE [seq |-> seqOf[c], conn |-> c] \in transactions
    <3>1. seqOf[c] \in Nat
      BY <1>1 DEF ServerInv, TypeOK
    <3> QED BY <1>1, <3>1 DEF ServerInv, TasksInv, TableByEntry
  <2> QED BY <2>1, <2>2 DEF TableMatchesWaiters
<1> QED BY <1>1, ServerInvariant, PTL

\* OkMeansAnswered: the success a submit in transaction mode is answered with rests on the
\* success of a client that was sent the message, for each destination that is not local.
THEOREM AnsweredCorrect == Spec => []OkMeansAnswered
<1>1. ASSUME ServerInv PROVE OkMeansAnswered
  <2> SUFFICES ASSUME NEW s \in Submits, Load[s].mode = "transaction", outcome[s] = "ok",
                      NEW i \in DOMAIN Load[s].dests, Load[s].dests[i] \notin Local
               PROVE  \E a \in assigned :
                         /\ a.sub = s /\ a.at = i
                         /\ \/ a.seq \in rest
                            \/ \E h \in heard :
                                  /\ h.seq = a.seq /\ h.status = "ok"
                                  /\ [seq |-> h.seq, conn |-> h.conn] \in written
    BY DEF OkMeansAnswered
  <2>1. i \in 1 .. Len(Load[s].dests)
    BY ServerAssumption
  <2>2. Answered(s, i)
    BY <1>1, <2>1 DEF ServerInv, TasksInv, OutcomesAnswered
  <2> QED BY <2>2 DEF Answered, HeardOk
<1> QED BY <1>1, ServerInvariant, PTL

\* DeliveredOnce: whatever clients come, go and stall between get_writer and the writes, a
\* message reaches one client, once, unless the store could not delete it.
THEOREM RecipientCorrect == Spec => []DeliveredOnce
<1>1. ASSUME ServerInv PROVE DeliveredOnce
  <2> SUFFICES ASSUME NEW p \in assigned, NEW q \in assigned, NEW v \in written, NEW w \in written,
                      p.msg = q.msg, v.seq = p.seq, w.seq = q.seq, p.msg \notin again
               PROVE  v = w
    BY DEF DeliveredOnce
  <2>1. p = q
    BY <1>1 DEF ServerInv, RoutesInv, MessagesNumbered
  <2>2. v.seq = w.seq
    BY <2>1
  <2>3. NumbersFresh
    BY <1>1 DEF ServerInv, RoutesInv
  <2> QED BY <2>2, <2>3 DEF NumbersFresh
<1> QED BY <1>1, ServerInvariant, PTL

\* NobodyPassedOver: ClientManager::send_message gives up only when each client that
\* get_writer found has gone.
THEOREM FailOverCorrect == Spec => []NobodyPassedOver
<1>1. ServerInv => NobodyPassedOver
  BY DEF ServerInv, RoutesInv, TriedFailed
<1> QED BY <1>1, ServerInvariant, PTL
=============================================================================
