------------------------ MODULE SmscConnectionProofs ------------------------
(***************************************************************************)
(* Proofs about SmscConnection, for any set of requests and any bounds.    *)
(***************************************************************************)
EXTENDS SmscConnection, TLAPS

(***************************************************************************)
(* Type correctness. The facts about sequences are stated as lemmas.       *)
(***************************************************************************)

\* Reading the socket splits what is in it into what was taken and the rest.
LEMMA SplitType ==
    ASSUME NEW S, NEW s \in Seq(S), NEW n \in 1 .. Len(s)
    PROVE  /\ Taken(s, n) \in Seq(S) /\ Taken(s, n) # <<>>
           /\ Tail(Taken(s, n)) \in Seq(S)
           /\ Rest(s, n) \in Seq(S)
  <1>1. /\ Taken(s, n) \in Seq(S) /\ Len(Taken(s, n)) = n
        /\ Rest(s, n) \in Seq(S)
    BY DEF Taken, Rest
  <1>2. Taken(s, n) # <<>>
    BY <1>1
  <1> QED
    BY <1>1, <1>2

\* Init makes the types true.
LEMMA TypeInit == Init => TypeOK
  <1> SUFFICES ASSUME Init PROVE TypeOK
    OBVIOUS
  <1>1. inbox \in Seq(Pdu) /\ buffer \in Seq(Pdu) /\ batch \in Seq(Pdu)
    BY DEF Init
  <1>2. alarm_active \in BOOLEAN /\ received \in BOOLEAN
    BY DEF Init
  <1>3. /\ rpc \in [Requests -> ReqPcs] /\ seq \in [Requests -> Nat]
        /\ chan \in [Requests -> Nat \cup {NoSeq}]
        /\ wrote \in [Requests -> 0 .. MaxSessions]
    BY BoundAssumption DEF Init, ReqPcs
  <1>4. /\ pc \in ConnPcs /\ session \in 0 .. MaxSessions /\ alarm \in Int
        /\ connSeq \in Nat /\ enquires \in 0 .. MaxEnquires /\ gauge \in Int
        /\ writer \in 0 .. MaxSessions /\ lock \in Requests \cup {Task, NoOne}
        /\ nextSeq \in Nat /\ peerMsgs \in 0 .. MaxPeerMsgs
        /\ stalled \subseteq Sessions /\ stalls \in 0 .. MaxStalls /\ torn \subseteq 0 .. MaxSessions
    BY BoundAssumption DEF Init, ConnPcs
  <1> QED
    BY <1>1, <1>2, <1>3, <1>4 DEF Init, TypeOK

\* Both ways out of connect_smsc_to leave well-typed variables behind.
LEMMA ExitType ==
    ASSUME TypeOK, AttemptFailed \/ LinkLost
    PROVE  /\ pc' \in ConnPcs /\ alarm' \in Int
           /\ inbox' \in Seq(Pdu) /\ buffer' \in Seq(Pdu)
           /\ alarm_active' \in BOOLEAN /\ received' \in BOOLEAN
  <1>0. inbox' = <<>> /\ buffer' = <<>>
    BY DEF AttemptFailed, LinkLost, DropLocals
  <1>1. inbox' \in Seq(Pdu) /\ buffer' \in Seq(Pdu)
    BY <1>0
  <1>2. received' \in BOOLEAN
    BY DEF AttemptFailed, LinkLost, DropLocals
  <1>3. alarm_active' \in BOOLEAN
    BY DEF AttemptFailed, LinkLost, TypeOK
  <1>4. alarm' = alarm \/ alarm' = alarm + 1
    BY DEF AttemptFailed, LinkLost
  <1>5. pc' \in ConnPcs
    BY DEF AttemptFailed, LinkLost, ConnPcs
  <1> QED
    BY <1>1, <1>2, <1>3, <1>4, <1>5 DEF TypeOK

USE DEF connVars, readVars, reqVars, peerVars, flowVars

\* So does a write that does not go on.
LEMMA StallType ==
    ASSUME TypeOK, WriteStalls
    PROVE  /\ stalled' \subseteq Sessions /\ stalls' \in 0 .. MaxStalls
           /\ torn' \subseteq 0 .. MaxSessions
  <1>1. writer \in open => writer \in Sessions
    BY DEF TypeOK
  <1>2. stalls < MaxStalls => stalls + 1 \in 0 .. MaxStalls
    BY BoundAssumption DEF TypeOK
  <1> QED
    BY <1>1, <1>2 DEF TypeOK, WriteStalls

\* A step of the connection task keeps the types.
LEMMA TypeConn == TypeOK /\ ConnStep => TypeOK'
  <1> SUFFICES ASSUME TypeOK, ConnStep PROVE TypeOK'
    OBVIOUS
  <1>a. <<>> \in Seq(Pdu)
    OBVIOUS
  <1> USE <1>a, NotifierAssumption, BoundAssumption DEF TypeOK
  <1>1. CASE Connect
    BY <1>1 DEF Connect, ConnPcs, Sessions
  <1>2. CASE ConnectFails
    BY <1>2, ExitType DEF ConnectFails
  <1>3. CASE ReplaceWriter
    BY <1>3 DEF ReplaceWriter, TakeSeq, Close, ConnPcs
  <1>4. CASE BindWrite
    <2>1. writer \in open => [sess |-> writer, kind |-> "bind", seq |-> connSeq] \in PeerPdu
      BY DEF PeerPdu
    <2>2. CASE WriteFails /\ AttemptFailed
      BY <1>4, <2>2, ExitType DEF BindWrite, TakesLock, WriteFails
    <2>3. CASE /\ WriteOk({[sess |-> writer, kind |-> "bind", seq |-> connSeq]})
               /\ pc' = "bindWait"
               /\ UNCHANGED <<alarm_active, alarm, received, inbox, buffer>>
      BY <1>4, <2>1, <2>3 DEF BindWrite, TakesLock, WriteOk, ConnPcs
    <2> QED
      BY <1>4, <2>2, <2>3 DEF BindWrite, TakesLock
  <1>5. CASE BindRead
    <2>1. CASE Head(inbox).kind = "bindOk"
      <3>1. PICK n \in 1 .. Len(inbox) :
               buffer' = Tail(Taken(inbox, n)) /\ inbox' = Rest(inbox, n)
        BY <1>5, <2>1 DEF BindRead
      <3>2. inbox' \in Seq(Pdu) /\ buffer' \in Seq(Pdu)
        BY <3>1, SplitType
      <3>3. alarm_active' \in BOOLEAN /\ received' \in BOOLEAN
        BY <1>5, <2>1 DEF BindRead
      <3>4. pc' \in ConnPcs /\ gauge' \in Int /\ alarm' \in Int
        BY <1>5, <2>1 DEF BindRead, ConnPcs
      <3> QED
        BY <1>5, <3>2, <3>3, <3>4 DEF BindRead
    <2>2. CASE Head(inbox).kind # "bindOk"
      BY <1>5, <2>2, ExitType DEF BindRead
    <2> QED
      BY <2>1, <2>2
  <1>6. CASE BindTimeout
    BY <1>6, ExitType DEF BindTimeout
  <1>7. CASE BindSpin
    BY <1>7 DEF BindSpin, vars
  <1>8. CASE Read
    <2>1. PICK n \in 1 .. Len(inbox) :
             batch' = buffer \o Taken(inbox, n) /\ inbox' = Rest(inbox, n)
      BY <1>8 DEF Read
    <2>2. inbox' \in Seq(Pdu) /\ batch' \in Seq(Pdu)
      BY <2>1, SplitType
    <2> QED
      BY <1>8, <2>2 DEF Read
  <1>9. CASE ReadFails
    BY <1>9, ExitType DEF ReadFails
  <1>10. CASE ProcessResponse
    <2>a. batch # <<>> /\ batch' = Tail(batch)
      BY <1>10 DEF ProcessResponse
    <2>b. batch' \in Seq(Pdu) /\ Head(batch) \in Pdu
      BY <2>a
    <2>1. batch' \in Seq(Pdu) /\ Head(batch).seq \in Nat
      BY <2>b DEF Pdu
    <2>2. chan' \in [Requests -> Nat \cup {NoSeq}]
      BY <1>10, <2>1 DEF ProcessResponse, ResponseReceived
    <2> QED
      BY <1>10, <2>1, <2>2 DEF ProcessResponse, ResponseReceived
  <1>11. CASE ProcessRequest
    BY <1>11 DEF ProcessRequest, TakesLock
  <1>12. CASE ProcessOther
    BY <1>12 DEF ProcessOther
  <1>13. CASE EnquireTick
    BY <1>13 DEF EnquireTick, TakeSeq, ConnPcs
  <1>14. CASE EnquireWrite
    <2>1. writer \in open => [sess |-> writer, kind |-> "enquire", seq |-> connSeq] \in PeerPdu
      BY DEF PeerPdu
    <2>2. CASE WriteFails /\ AttemptFailed
      BY <1>14, <2>2, ExitType DEF EnquireWrite, TakesLock, WriteFails
    <2>3. CASE /\ WriteOk({[sess |-> writer, kind |-> "enquire", seq |-> connSeq]})
               /\ pc' = "main"
               /\ UNCHANGED <<alarm_active, alarm, received, inbox, buffer>>
      BY <1>14, <2>1, <2>3 DEF EnquireWrite, TakesLock, WriteOk, ConnPcs
    <2> QED
      BY <1>14, <2>2, <2>3 DEF EnquireWrite, TakesLock
  <1>15. CASE InactiveTick
    <2>1. CASE ~received
      <3>1. LinkLost /\ gauge' = gauge - 1 /\ batch' = batch
        BY <1>15, <2>1 DEF InactiveTick
      <3>2. gauge' \in Int
        BY <3>1
      <3> QED
        BY <1>15, <3>1, <3>2, ExitType DEF InactiveTick
    <2>2. CASE received
      <3>1. received' \in BOOLEAN
        BY <1>15, <2>2 DEF InactiveTick
      <3> QED
        BY <1>15, <2>2, <3>1 DEF InactiveTick
    <2> QED
      BY <2>1, <2>2
  <1>16. CASE Retry
    BY <1>16 DEF Retry, ConnPcs
  <1>17. CASE TaskStalls
    BY <1>17, StallType DEF TaskStalls
  <1> QED
    BY <1>1, <1>2, <1>3, <1>4, <1>5, <1>6, <1>7, <1>8, <1>9, <1>10, <1>11, <1>12,
       <1>13, <1>14, <1>15, <1>16, <1>17 DEF ConnStep

\* A step of a request keeps the types.
LEMMA TypeRequest ==
    ASSUME TypeOK, NEW r \in Requests, RequestStep(r) PROVE TypeOK'
  <1> USE BoundAssumption DEF TypeOK, ReqPcs, Finish
  <1>0. CASE LockAndStall(r)
    BY <1>0, StallType DEF LockAndStall
  <1>1. CASE Submit(r)
    BY <1>1 DEF Submit
  <1>2. CASE LockAndWrite(r)
    <2>1. writer \in open => [sess |-> writer, kind |-> "req", seq |-> seq[r]] \in PeerPdu
      BY DEF PeerPdu
    <2> QED
      BY <1>2, <2>1 DEF LockAndWrite, WriteOk
  <1>3. CASE LockAndFail(r)
    BY <1>3 DEF LockAndFail
  <1>4. CASE ReceiveResponse(r)
    BY <1>4 DEF ReceiveResponse
  <1>5. CASE ResponseTimeout(r)
    BY <1>5 DEF ResponseTimeout
  <1>6. CASE Cancel(r)
    <2>1. torn' \subseteq 0 .. MaxSessions
      BY <1>6 DEF Cancel
    <2> QED
      BY <1>6, <2>1 DEF Cancel
  <1> QED
    BY <1>0, <1>1, <1>2, <1>3, <1>4, <1>5, <1>6 DEF RequestStep

\* A step of the SMSC keeps the types.
LEMMA TypePeer == TypeOK /\ PeerStep => TypeOK'
  <1> SUFFICES ASSUME TypeOK, PeerStep PROVE TypeOK'
    OBVIOUS
  <1> USE BoundAssumption DEF TypeOK
  <1>1. ASSUME NEW m \in atPeer, NEW k \in AnswerKinds, PeerAnswer(m, k)
        PROVE  TypeOK'
    <2>1. m.sess \in Sessions /\ m.seq \in Nat
      BY DEF PeerPdu
    <2>2. [kind |-> k, seq |-> m.seq] \in Pdu
      BY <2>1 DEF Pdu, AnswerKinds
    <2> QED
      BY <1>1, <2>1, <2>2 DEF PeerAnswer
  <1>2. ASSUME NEW k \in {"enquire", "deliver", "receipt"}, PeerRequest(k)
        PROVE  TypeOK'
    <2>1. [kind |-> k, seq |-> 0] \in Pdu
      BY DEF Pdu
    <2> QED
      BY <1>2, <2>1 DEF PeerRequest
  <1>3. CASE PeerClose
    BY <1>3 DEF PeerClose, Close
  <1>4. CASE PeerReads
    BY <1>4 DEF PeerReads
  <1> QED
    BY <1>1, <1>2, <1>3, <1>4 DEF PeerStep

\* Every variable of the connection keeps its type.
THEOREM TypeCorrect == Spec => []TypeOK
  <1>1. TypeOK /\ [Next]_vars => TypeOK'
    <2>1. TypeOK /\ UNCHANGED vars => TypeOK'
      BY DEF TypeOK, vars
    <2> QED
      BY <2>1, TypeConn, TypeRequest, TypePeer DEF Next
  <1> QED
    BY TypeInit, <1>1, PTL DEF Spec
-----------------------------------------------------------------------------
(***************************************************************************)
(* What happens to sequence numbers in any step: they are taken in order,  *)
(* a request keeps its own, and what was written stays written.            *)
(***************************************************************************)
Monotone ==
    /\ nextSeq' \in Nat /\ nextSeq <= nextSeq'
    /\ \A r \in Requests :
          /\ rpc[r] # "idle" => rpc'[r] # "idle" /\ seq'[r] = seq[r]
          /\ wrote[r] # 0 => wrote'[r] # 0
          /\ rpc[r] = "idle" /\ rpc'[r] # "idle" => seq'[r] >= nextSeq

\* Every step moves sequence numbers forward only.
LEMMA StepMonotone == TypeOK /\ [Next]_vars => Monotone
  <1> SUFFICES ASSUME TypeOK, [Next]_vars PROVE Monotone
    OBVIOUS
  <1>1. CASE UNCHANGED <<reqVars>> /\ nextSeq' \in {nextSeq, nextSeq + 1}
    BY <1>1 DEF Monotone, TypeOK
  <1>2. CASE ConnStep
    <2>1. UNCHANGED <<rpc, seq, wrote>> /\ nextSeq' \in {nextSeq, nextSeq + 1}
      BY <1>2 DEF ConnStep, TaskStalls, WriteStalls, Connect, ConnectFails, ReplaceWriter,
         BindWrite, TakesLock, BindRead,
         BindTimeout, BindSpin, Read, ReadFails, ProcessResponse, ProcessRequest,
         ProcessOther, EnquireTick, EnquireWrite, TakesLock, InactiveTick, Retry, TakeSeq, vars
    <2> QED
      BY <2>1 DEF Monotone, TypeOK
  <1>3. CASE PeerStep
    BY <1>1, <1>3 DEF PeerStep, PeerAnswer, PeerRequest, PeerClose, PeerReads
  <1>4. ASSUME NEW r \in Requests, RequestStep(r) PROVE Monotone
    <2>1. CASE Submit(r)
      BY <2>1 DEF Submit, Monotone, TypeOK
    <2>2. CASE LockAndWrite(r)
      BY <2>2 DEF LockAndWrite, HasLock, Monotone, TypeOK
    <2>3. CASE LockAndFail(r) \/ ReceiveResponse(r) \/ ResponseTimeout(r) \/ Cancel(r)
      <3>1. \E outcome \in {"ok", "error", "cancelled"} : rpc' = [rpc EXCEPT ![r] = outcome]
        BY <2>3 DEF LockAndFail, ReceiveResponse, ResponseTimeout, Cancel, Finish
      <3>2. rpc[r] # "idle" /\ UNCHANGED <<seq, wrote, nextSeq>>
        BY <2>3 DEF LockAndFail, HasLock, ReceiveResponse, ResponseTimeout, Cancel
      <3> QED
        BY <3>1, <3>2 DEF Monotone, TypeOK
    <2>4. CASE LockAndStall(r)
      BY <2>4 DEF LockAndStall, Monotone, TypeOK
    <2> QED
      BY <1>4, <2>1, <2>2, <2>3, <2>4 DEF RequestStep
  <1>5. CASE UNCHANGED vars
    BY <1>1, <1>5 DEF vars
  <1> QED
    BY <1>2, <1>3, <1>4, <1>5 DEF Next

\* What a sequence number was taken for never changes.
LEMMA SeqsCarry ==
    ASSUME TypeOK, Monotone, NEW n \in Nat
    PROVE  /\ IsRequestSeq(n) => IsRequestSeq(n)'
           /\ IsConnSeq(n) => IsConnSeq(n)'
  <1>1. IsRequestSeq(n) => IsRequestSeq(n)'
    BY DEF Monotone, IsRequestSeq, Started
  <1>2. ASSUME IsConnSeq(n) PROVE IsConnSeq(n)'
    <2>1. n < nextSeq /\ n < nextSeq'
      BY <1>2 DEF TypeOK, Monotone, IsConnSeq
    <2>2. ASSUME NEW r \in Requests, rpc'[r] # "idle" PROVE seq'[r] # n
      <3>1. CASE rpc[r] = "idle"
        BY <2>1, <2>2, <3>1 DEF Monotone, TypeOK
      <3>2. CASE rpc[r] # "idle"
        BY <1>2, <3>2 DEF Monotone, IsConnSeq, Started
      <3> QED
        BY <3>1, <3>2
    <2> QED
      BY <2>1, <2>2 DEF IsConnSeq, Started
  <1> QED
    BY <1>1, <1>2

\* A queue of PDUs that are accounted for stays accounted for.
LEMMA QueuesCarry ==
    ASSUME TypeOK, Monotone, NEW s \in Seq(Pdu), AllReceived(s)
    PROVE  /\ inbox' = s => AllReceived(inbox)'
           /\ buffer' = s => AllReceived(buffer)'
           /\ batch' = s => AllReceived(batch)'
  <1>1. ASSUME NEW i \in 1 .. Len(s)
        PROVE  /\ s[i].kind = "resp" => IsRequestSeq(s[i].seq)'
               /\ s[i].kind \in {"bindOk", "bindFail"} => IsConnSeq(s[i].seq)'
    <2>0. s[i] \in Pdu
      OBVIOUS
    <2>1. s[i].seq \in Nat
      BY <2>0 DEF Pdu
    <2> QED
      BY <2>1, SeqsCarry DEF AllReceived, ReceivedPdu
  <1> QED
    BY <1>1 DEF AllReceived, ReceivedPdu, IsRequestSeq, IsConnSeq, Started

\* PDUs the SMSC holds that are accounted for stay accounted for.
LEMMA SentCarry ==
    ASSUME TypeOK, Monotone, NEW A \in SUBSET PeerPdu, \A m \in A : SentPdu(m), atPeer' = A
    PROVE  (\A m \in atPeer : SentPdu(m))'
  <1>1. ASSUME NEW m \in A
        PROVE  /\ m.kind = "req" => IsRequestSeq(m.seq)'
               /\ m.kind # "req" => IsConnSeq(m.seq)'
    <2>1. m.seq \in Nat
      BY DEF PeerPdu
    <2> QED
      BY <2>1, SeqsCarry DEF SentPdu
  <1> QED
    BY <1>1 DEF SentPdu, IsRequestSeq, IsConnSeq, Started

\* Reading, extracting and processing only divide the queues of PDUs.
LEMMA SplitReceived ==
    ASSUME NEW s \in Seq(Pdu), AllReceived(s)
    PROVE  /\ \A n \in 1 .. Len(s) :
                 /\ AllReceived(Taken(s, n))
                 /\ AllReceived(Tail(Taken(s, n)))
                 /\ AllReceived(Rest(s, n))
           /\ s # <<>> => AllReceived(Tail(s))
           /\ AllReceived(<<>>)
  <1>1. ASSUME NEW n \in 1 .. Len(s) PROVE AllReceived(Taken(s, n))
    BY DEF AllReceived, Taken
  <1>2. ASSUME NEW t \in Seq(Pdu), AllReceived(t), t # <<>> PROVE AllReceived(Tail(t))
    BY <1>2 DEF AllReceived
  <1>3. ASSUME NEW n \in 1 .. Len(s) PROVE AllReceived(Rest(s, n))
    BY DEF AllReceived, Rest
  <1>4. AllReceived(<<>>)
    BY DEF AllReceived
  <1> QED
    BY <1>1, <1>2, <1>3, <1>4, SplitType

\* Putting queues of PDUs together does not make up new ones.
LEMMA JoinReceived ==
    ASSUME NEW s \in Seq(Pdu), NEW t \in Seq(Pdu), AllReceived(s), AllReceived(t)
    PROVE  AllReceived(s \o t)
  BY DEF AllReceived
-----------------------------------------------------------------------------
(***************************************************************************)
(* ExchangeInv is inductive. Each of its parts has a lemma: what a step    *)
(* does to it beyond moving sequence numbers forward.                      *)
(***************************************************************************)

\* Init makes the invariant true.
LEMMA ExchangeInit == Init => ExchangeInv
  BY NoOneAssumption DEF Init, ExchangeInv, SeqsTakenOnce, PdusAccountedFor, RequestStages,
     CallbackUnanswered, ResponseBelongsToRequest, AllReceived, Started

\* Only Submit gives a request its sequence number.
LEMMA SubmitOnly ==
    ASSUME TypeOK, [Next]_vars, \A r \in Requests : ~Submit(r)
    PROVE  seq' = seq /\ \A r \in Requests : rpc'[r] = "idle" <=> rpc[r] = "idle"
  <1>1. CASE ConnStep \/ PeerStep \/ UNCHANGED vars
    <2>1. UNCHANGED <<rpc, seq>>
      BY <1>1 DEF ConnStep, TaskStalls, WriteStalls, Connect, ConnectFails, ReplaceWriter,
         BindWrite, TakesLock, BindRead,
         BindTimeout, BindSpin, Read, ReadFails, ProcessResponse, ProcessRequest,
         ProcessOther, EnquireTick, EnquireWrite, TakesLock, InactiveTick, Retry, vars,
         PeerStep, PeerAnswer, PeerRequest, PeerClose, PeerReads
    <2> QED
      BY <2>1
  <1>2. ASSUME NEW r \in Requests, RequestStep(r)
        PROVE  seq' = seq /\ \A q \in Requests : rpc'[q] = "idle" <=> rpc[q] = "idle"
    BY <1>2 DEF RequestStep, LockAndStall, LockAndWrite, LockAndFail, HasLock, ReceiveResponse,
       ResponseTimeout,
       Cancel, Finish, TypeOK, ReqPcs
  <1> QED
    BY <1>1, <1>2 DEF Next

\* No sequence number is taken twice, by whichever task.
LEMMA SeqsStep ==
    ASSUME TypeOK, TypeOK', SeqsTakenOnce, [Next]_vars PROVE SeqsTakenOnce'
  <1> USE DEF Started
  <1>m. Monotone
    BY StepMonotone
  <1>t. /\ nextSeq \in Nat /\ seq \in [Requests -> Nat] /\ rpc \in [Requests -> ReqPcs]
        /\ \A r \in Requests : seq[r] \in Nat
    BY DEF TypeOK
  <1>s. /\ \A r \in Requests : rpc[r] # "idle" => seq[r] < nextSeq
        /\ \A r, q \in Requests :
              rpc[r] # "idle" /\ rpc[q] # "idle" /\ seq[r] = seq[q] => r = q
    BY DEF SeqsTakenOnce
  <1>1. /\ \A r \in Requests : rpc'[r] # "idle" => seq'[r] < nextSeq'
        /\ \A r, q \in Requests :
              rpc'[r] # "idle" /\ rpc'[q] # "idle" /\ seq'[r] = seq'[q] => r = q
    <2>1. ASSUME NEW r \in Requests, Submit(r)
          PROVE  /\ \A p \in Requests : rpc'[p] # "idle" => seq'[p] < nextSeq'
                 /\ \A p, q \in Requests :
                       rpc'[p] # "idle" /\ rpc'[q] # "idle" /\ seq'[p] = seq'[q] => p = q
      BY <1>t, <1>s, <2>1 DEF Submit
    <2>2. CASE \A r \in Requests : ~Submit(r)
      BY <1>m, <1>t, <1>s, <2>2, SubmitOnly DEF Monotone
    <2> QED
      BY <2>1, <2>2
  <1>2. ASSUME pc' \in {"bindWrite", "enquire"} PROVE IsConnSeq(connSeq)'
    <2>1. CASE ReplaceWriter \/ EnquireTick
      <3>1. connSeq' = nextSeq /\ nextSeq' = nextSeq + 1 /\ seq' = seq /\ rpc' = rpc
        BY <2>1 DEF ReplaceWriter, EnquireTick, TakeSeq
      <3> QED
        BY <1>t, <1>s, <3>1 DEF IsConnSeq
    <2>2. CASE ~ReplaceWriter /\ ~EnquireTick
      <3>1. pc' = pc /\ connSeq' = connSeq
        BY <1>2, <2>2 DEF Next, ConnStep, TaskStalls, WriteStalls, Connect, ConnectFails,
           BindWrite, TakesLock, BindRead,
           BindTimeout, BindSpin, Read, ReadFails, ProcessResponse, ProcessRequest,
           ProcessOther, EnquireWrite, TakesLock, InactiveTick, Retry, vars, AttemptFailed,
           LinkLost,
           PeerStep, PeerAnswer, PeerRequest, PeerClose, PeerReads, RequestStep, Submit,
           LockAndStall, LockAndWrite,
           LockAndFail, ReceiveResponse, ResponseTimeout, Cancel
      <3>2. IsConnSeq(connSeq)
        BY <1>2, <3>1 DEF SeqsTakenOnce
      <3>3. connSeq \in Nat
        BY DEF TypeOK
      <3>4. \A n \in Nat : IsConnSeq(n) => n < nextSeq' /\ \A r \in Requests : rpc'[r] # "idle" => seq'[r] # n
        BY <1>m, SeqsCarry DEF IsConnSeq
      <3> QED
        BY <3>1, <3>2, <3>3, <3>4 DEF IsConnSeq
    <2> QED
      BY <2>1, <2>2
  <1> QED
    BY <1>1, <1>2 DEF SeqsTakenOnce

\* What the client has received carries numbers that were taken for it.
LEMMA ReceivedStep ==
    ASSUME TypeOK, TypeOK', PdusAccountedFor, [Next]_vars
    PROVE  AllReceived(inbox)' /\ AllReceived(buffer)' /\ AllReceived(batch)'
  <1>m. Monotone
    BY StepMonotone
  <1>t. inbox \in Seq(Pdu) /\ buffer \in Seq(Pdu) /\ batch \in Seq(Pdu) /\ <<>> \in Seq(Pdu)
    BY DEF TypeOK
  <1>p. inbox' \in Seq(Pdu) /\ buffer' \in Seq(Pdu) /\ batch' \in Seq(Pdu)
    BY DEF TypeOK
  <1>r. AllReceived(inbox) /\ AllReceived(buffer) /\ AllReceived(batch) /\ AllReceived(<<>>)
    BY <1>t, SplitReceived DEF PdusAccountedFor
  <1> DEFINE Old == /\ inbox' \in {inbox, <<>>} /\ buffer' \in {buffer, <<>>}
                    /\ batch' = batch
  <1>c. ASSUME NEW i \in Seq(Pdu), NEW b \in Seq(Pdu), NEW q \in Seq(Pdu),
               AllReceived(i), AllReceived(b), AllReceived(q),
               inbox' = i, buffer' = b, batch' = q
        PROVE  AllReceived(inbox)' /\ AllReceived(buffer)' /\ AllReceived(batch)'
    BY <1>c, <1>m, QueuesCarry
  <1>0. CASE Old
    BY <1>0, <1>c, <1>t, <1>r
  <1>1. CASE BindRead
    <2>1. CASE Head(inbox).kind = "bindOk"
      <3>1. PICK n \in 1 .. Len(inbox) :
               buffer' = Tail(Taken(inbox, n)) /\ inbox' = Rest(inbox, n)
        BY <1>1, <2>1 DEF BindRead
      <3>2. AllReceived(Tail(Taken(inbox, n))) /\ AllReceived(Rest(inbox, n))
        BY <1>t, <1>r, SplitReceived
      <3>3. batch' = batch
        BY <1>1 DEF BindRead
      <3>4. Tail(Taken(inbox, n)) \in Seq(Pdu) /\ Rest(inbox, n) \in Seq(Pdu)
        BY <1>p, <3>1
      <3> QED
        BY <3>1, <3>2, <3>3, <3>4, <1>c, <1>t, <1>r
    <2>2. CASE Head(inbox).kind # "bindOk"
      BY <1>0, <1>1, <2>2 DEF BindRead, AttemptFailed, DropLocals
    <2> QED
      BY <2>1, <2>2
  <1>2. CASE Read
    <2>1. PICK n \in 1 .. Len(inbox) :
             batch' = buffer \o Taken(inbox, n) /\ inbox' = Rest(inbox, n)
      BY <1>2 DEF Read
    <2>2. /\ AllReceived(Taken(inbox, n)) /\ AllReceived(Rest(inbox, n))
          /\ Taken(inbox, n) \in Seq(Pdu)
      BY <1>t, <1>r, SplitReceived, SplitType
    <2>3. AllReceived(buffer \o Taken(inbox, n))
      BY <1>t, <1>r, <2>2, JoinReceived
    <2>4. buffer' = <<>>
      BY <1>2 DEF Read
    <2>5. buffer \o Taken(inbox, n) \in Seq(Pdu) /\ Rest(inbox, n) \in Seq(Pdu)
      BY <1>p, <2>1
    <2> QED
      BY <2>1, <2>2, <2>3, <2>4, <2>5, <1>c, <1>t, <1>r
  <1>3. CASE ProcessResponse \/ ProcessRequest \/ ProcessOther
    <2>1. batch # <<>> /\ batch' = Tail(batch) /\ inbox' = inbox /\ buffer' = buffer
      BY <1>3 DEF ProcessResponse, ProcessRequest, ProcessOther
    <2>2. AllReceived(Tail(batch))
      BY <1>t, <1>r, <2>1, SplitReceived
    <2>3. Tail(batch) \in Seq(Pdu)
      BY <1>p, <2>1
    <2> QED
      BY <2>1, <2>2, <2>3, <1>c, <1>t, <1>r
  <1>4. ASSUME NEW p \in Pdu, ReceivedPdu(p), inbox' = Append(inbox, p),
               buffer' = buffer, batch' = batch
        PROVE  AllReceived(inbox)' /\ AllReceived(buffer)' /\ AllReceived(batch)'
    <2>1. Append(inbox, p) \in Seq(Pdu)
      BY <1>t
    <2>2. AllReceived(Append(inbox, p))
      BY <1>4, <1>t, <1>r DEF AllReceived
    <2> QED
      BY <1>4, <2>1, <2>2, <1>c, <1>t, <1>r
  <1>5. ASSUME NEW m \in atPeer, NEW k \in AnswerKinds, PeerAnswer(m, k)
        PROVE  AllReceived(inbox)' /\ AllReceived(buffer)' /\ AllReceived(batch)'
    <2>0. m \in PeerPdu
      BY DEF TypeOK
    <2>1. m.seq \in Nat /\ m.kind \in {"bind", "req", "enquire"}
      BY <2>0 DEF PeerPdu
    <2>2. [kind |-> k, seq |-> m.seq] \in Pdu
      BY <2>1 DEF Pdu, AnswerKinds
    <2>3. ReceivedPdu([kind |-> k, seq |-> m.seq])
      BY <1>5, <2>1 DEF PeerAnswer, Answers, ReceivedPdu, PdusAccountedFor, SentPdu
    <2> QED
      BY <1>0, <1>4, <1>5, <2>2, <2>3 DEF PeerAnswer
  <1>6. ASSUME NEW k \in {"enquire", "deliver", "receipt"}, PeerRequest(k)
        PROVE  AllReceived(inbox)' /\ AllReceived(buffer)' /\ AllReceived(batch)'
    <2>1. [kind |-> k, seq |-> 0] \in Pdu /\ ReceivedPdu([kind |-> k, seq |-> 0])
      BY DEF Pdu, ReceivedPdu
    <2> QED
      BY <1>4, <1>6, <2>1 DEF PeerRequest
  <1>7. CASE /\ ~BindRead /\ ~Read /\ ~ProcessResponse /\ ~ProcessRequest /\ ~ProcessOther
             /\ \/ ConnStep \/ PeerClose \/ PeerReads \/ UNCHANGED vars
                \/ \E r \in Requests : RequestStep(r)
    <2>1. Old
      BY <1>7 DEF ConnStep, TaskStalls, WriteStalls, Connect, ConnectFails, ReplaceWriter,
         BindWrite, TakesLock, BindTimeout,
         BindSpin, ReadFails, EnquireTick, EnquireWrite, TakesLock, InactiveTick, Retry, vars,
         AttemptFailed, LinkLost, DropLocals, PeerClose, PeerReads, RequestStep, Submit,
         LockAndStall, LockAndWrite,
         LockAndFail, ReceiveResponse, ResponseTimeout, Cancel
    <2> QED
      BY <1>0, <2>1
  <1> QED
    BY <1>1, <1>2, <1>3, <1>5, <1>6, <1>7 DEF Next, PeerStep

\* What the SMSC holds was written by the task whose number it carries.
LEMMA SentStep ==
    ASSUME TypeOK, TypeOK', SeqsTakenOnce, PdusAccountedFor, [Next]_vars
    PROVE  (\A m \in atPeer : SentPdu(m))'
  <1>m. Monotone
    BY StepMonotone
  <1>t. atPeer \in SUBSET PeerPdu /\ atPeer' \in SUBSET PeerPdu
    BY DEF TypeOK
  <1>s. \A m \in atPeer : SentPdu(m)
    BY DEF PdusAccountedFor
  <1>0. ASSUME \A m \in atPeer' : SentPdu(m)
        PROVE  (\A m \in atPeer : SentPdu(m))'
    BY <1>0, <1>m, <1>t, SentCarry
  <1>1. CASE BindWrite \/ EnquireWrite
    <2>1. IsConnSeq(connSeq)
      BY <1>1 DEF BindWrite, EnquireWrite, TakesLock, SeqsTakenOnce
    <2>2. \A m \in atPeer' \ atPeer : m.kind # "req" /\ m.seq = connSeq
      BY <1>1 DEF BindWrite, EnquireWrite, TakesLock, WriteOk, WriteFails
    <2> QED
      BY <1>0, <1>s, <2>1, <2>2 DEF SentPdu
  <1>2. ASSUME NEW r \in Requests, LockAndWrite(r)
        PROVE  (\A m \in atPeer : SentPdu(m))'
    <2>1. IsRequestSeq(seq[r])'
      BY <1>2 DEF LockAndWrite, IsRequestSeq, Started, TypeOK
    <2>2. \A m \in atPeer' \ atPeer : m.kind = "req" /\ m.seq = seq[r]
      BY <1>2 DEF LockAndWrite, WriteOk
    <2>3. ASSUME NEW m \in atPeer
          PROVE  /\ m.kind = "req" => IsRequestSeq(m.seq)'
                 /\ m.kind # "req" => IsConnSeq(m.seq)'
      <3>1. m.seq \in Nat
        BY <1>t DEF PeerPdu
      <3> QED
        BY <1>m, <1>s, <3>1, SeqsCarry DEF SentPdu
    <2>4. seq' = seq
      BY <1>2 DEF LockAndWrite
    <2> QED
      BY <2>1, <2>2, <2>3, <2>4 DEF SentPdu, IsRequestSeq, IsConnSeq, Started
  <1>3. CASE atPeer' \subseteq atPeer
    BY <1>0, <1>3, <1>s
  <1>4. CASE ~BindWrite /\ ~EnquireWrite /\ \A r \in Requests : ~LockAndWrite(r)
    <2>1. atPeer' \subseteq atPeer
      BY <1>4 DEF Next, ConnStep, TaskStalls, WriteStalls, Connect, ConnectFails,
         ReplaceWriter, BindRead,
         BindTimeout, BindSpin, Read, ReadFails, ProcessResponse, ProcessRequest,
         ProcessOther, EnquireTick, InactiveTick, Retry, vars, Close,
         PeerStep, PeerAnswer, PeerRequest, PeerClose, PeerReads, RequestStep, Submit,
         LockAndStall,
         LockAndFail, ReceiveResponse, ResponseTimeout, Cancel
    <2> QED
      BY <1>3, <2>1
  <1> QED
    BY <1>1, <1>2, <1>4

\* What one request does leaves the claims of the others alone, and keeps its own.
LEMMA ClaimsRequest ==
    ASSUME TypeOK, TypeOK', SeqsTakenOnce, RequestStages, CallbackUnanswered,
           ResponseBelongsToRequest, NEW r \in Requests, RequestStep(r)
    PROVE  (RequestStages /\ CallbackUnanswered /\ ResponseBelongsToRequest)'
  <1>t. /\ nextSeq \in Nat /\ seq \in [Requests -> Nat] /\ rpc \in [Requests -> ReqPcs]
        /\ chan \in [Requests -> Nat \cup {NoSeq}] /\ wrote \in [Requests -> 0 .. MaxSessions]
        /\ callbacks \subseteq [seq : Nat, req : Requests]
    BY DEF TypeOK
  <1> USE <1>t, NoOneAssumption DEF RequestStages, CallbackUnanswered, ResponseBelongsToRequest
  <1>1. CASE Submit(r)
    <2>1. \A c \in callbacks : c.req # r
      BY <1>1 DEF Submit
    <2>2. (RequestStages /\ ResponseBelongsToRequest)'
      BY <1>1 DEF Submit
    <2>3. \A c \in callbacks' : c \in callbacks \/ c = [seq |-> nextSeq, req |-> r]
      BY <1>1 DEF Submit
    <2>4. CallbackUnanswered'
      BY <1>1, <2>1, <2>3 DEF Submit
    <2> QED
      BY <2>2, <2>4
  <1>0. CASE LockAndStall(r)
    BY <1>0 DEF LockAndStall
  <1>2. CASE LockAndWrite(r)
    BY <1>2 DEF LockAndWrite, HasLock
  <1>3. CASE LockAndFail(r)
    BY <1>3 DEF LockAndFail, HasLock, Finish
  <1>4. CASE ReceiveResponse(r)
    BY <1>4 DEF ReceiveResponse, Finish
  <1>5. CASE ResponseTimeout(r)
    BY <1>5 DEF ResponseTimeout, Finish
  <1>6. CASE Cancel(r)
    BY <1>6 DEF Cancel, Finish
  <1> QED
    BY <1>0, <1>1, <1>2, <1>3, <1>4, <1>5, <1>6 DEF RequestStep

\* A response goes to the request that wrote the PDU it answers, or to nobody.
LEMMA ClaimsResponse ==
    ASSUME TypeOK, TypeOK', ExchangeInv, ProcessResponse
    PROVE  (RequestStages /\ CallbackUnanswered /\ ResponseBelongsToRequest)'
  <1> DEFINE n == Head(batch).seq
  <1>t. /\ nextSeq \in Nat /\ seq \in [Requests -> Nat] /\ rpc \in [Requests -> ReqPcs]
        /\ chan \in [Requests -> Nat \cup {NoSeq}] /\ wrote \in [Requests -> 0 .. MaxSessions]
        /\ callbacks \subseteq [seq : Nat, req : Requests] /\ batch \in Seq(Pdu)
    BY DEF TypeOK
  <1>e. SeqsTakenOnce /\ RequestStages /\ CallbackUnanswered /\ ResponseBelongsToRequest
    BY DEF ExchangeInv
  <1>b. batch # <<>> /\ Head(batch).kind \in ResponseKinds /\ UNCHANGED <<rpc, seq, wrote, lock>>
    BY DEF ProcessResponse
  <1>h. Head(batch) = batch[1] /\ 1 \in 1 .. Len(batch)
    BY <1>t, <1>b
  <1>p. IsRequestSeq(n) \/ IsConnSeq(n)
    BY <1>b, <1>h DEF ExchangeInv, PdusAccountedFor, AllReceived, ReceivedPdu, ResponseKinds
  <1>n. n \in Nat
    <2>1. Head(batch) \in Pdu
      BY <1>t, <1>b
    <2> QED
      BY <2>1 DEF Pdu
  <1>c. /\ callbacks' = {c \in callbacks : c.seq # n}
        /\ chan' = [r \in Requests |-> IF [seq |-> n, req |-> r] \in callbacks THEN n ELSE chan[r]]
    BY DEF ProcessResponse, ResponseReceived
  <1>1. ASSUME NEW r \in Requests, [seq |-> n, req |-> r] \in callbacks
        PROVE  seq[r] = n /\ rpc[r] # "idle" /\ wrote[r] # 0
    <2>1. seq[r] = n /\ rpc[r] # "idle"
      BY <1>1, <1>e DEF CallbackUnanswered
    <2>2. IsRequestSeq(n)
      BY <1>p, <2>1 DEF IsConnSeq, Started
    <2> QED
      BY <1>e, <2>1, <2>2 DEF IsRequestSeq, Started, SeqsTakenOnce
  <1>2. RequestStages'
    BY <1>b, <1>c, <1>e, <1>1, <1>t DEF RequestStages
  <1>3. ResponseBelongsToRequest'
    BY <1>b, <1>c, <1>e, <1>1, <1>t DEF ResponseBelongsToRequest
  <1>4. CallbackUnanswered'
    <2> SUFFICES ASSUME NEW c \in callbacks'
                 PROVE  c.seq = seq[c.req] /\ rpc[c.req] \notin {"idle", "ok"} /\ chan'[c.req] = NoSeq
      BY <1>b DEF CallbackUnanswered
    <2>1. /\ c \in callbacks /\ c.seq # n /\ c.req \in Requests
          /\ c.seq = seq[c.req] /\ rpc[c.req] \notin {"idle", "ok"} /\ chan[c.req] = NoSeq
      BY <1>c, <1>e, <1>t DEF CallbackUnanswered
    <2>2. [seq |-> n, req |-> c.req] \notin callbacks
      BY <2>1, <1>1
    <2> QED
      BY <2>1, <2>2, <1>c
  <1> QED
    BY <1>2, <1>3, <1>4

\* ExchangeInv is inductive.
LEMMA ExchangeStep ==
    ASSUME TypeOK, TypeOK', ExchangeInv, [Next]_vars PROVE ExchangeInv'
  <1>1. SeqsTakenOnce' /\ PdusAccountedFor'
    BY SeqsStep, ReceivedStep, SentStep DEF ExchangeInv, PdusAccountedFor
  <1>2. (RequestStages /\ CallbackUnanswered /\ ResponseBelongsToRequest)'
    <2>1. CASE ProcessResponse
      BY <2>1, ClaimsResponse
    <2>2. ASSUME NEW r \in Requests, RequestStep(r)
          PROVE (RequestStages /\ CallbackUnanswered /\ ResponseBelongsToRequest)'
      BY <2>2, ClaimsRequest DEF ExchangeInv
    <2>3. CASE ~ProcessResponse /\ (ConnStep \/ PeerStep \/ UNCHANGED vars)
      <3>1. /\ UNCHANGED <<rpc, seq, chan, wrote, callbacks>>
            /\ lock' = lock \/ {lock, lock'} \subseteq {NoOne, Task}
        BY <2>3 DEF ConnStep, TaskStalls, WriteStalls, Connect, ConnectFails, ReplaceWriter,
           BindWrite, TakesLock, BindRead,
           BindTimeout, BindSpin, Read, ReadFails, ProcessRequest, ProcessOther, EnquireTick,
           EnquireWrite, TakesLock, InactiveTick, Retry, vars, PeerStep, PeerAnswer,
           PeerRequest, PeerClose, PeerReads
      <3>2. \A r \in Requests : lock' = r <=> lock = r
        BY <3>1, NoOneAssumption
      <3> QED
        BY <3>1, <3>2 DEF ExchangeInv, RequestStages, CallbackUnanswered, ResponseBelongsToRequest
    <2> QED
      BY <2>1, <2>2, <2>3 DEF Next
  <1> QED
    BY <1>1, <1>2 DEF ExchangeInv

\* Whatever the tasks, the SMSC and the HTTP clients do, the exchange stays in order.
THEOREM ExchangeCorrect == Spec => []ExchangeInv
  <1>1. ExchangeInv /\ TypeOK /\ TypeOK' /\ [Next]_vars => ExchangeInv'
    BY ExchangeStep
  <1> QED
    BY ExchangeInit, TypeCorrect, <1>1, PTL DEF Spec

\* A REST caller gets the response to its own request, or none.
THEOREM ResponsesCorrect == Spec => []ResponseBelongsToRequest
  <1>1. ExchangeInv => ResponseBelongsToRequest
    BY DEF ExchangeInv
  <1> QED
    BY ExchangeCorrect, <1>1, PTL

\* A callback belongs to one request that has not been answered.
THEOREM CallbacksCorrect == Spec => []CallbackUnanswered
  <1>1. ExchangeInv => CallbackUnanswered
    BY DEF ExchangeInv
  <1> QED
    BY ExchangeCorrect, <1>1, PTL

\* While a request holds the lock nobody writes a PDU that wants an answer.
THEOREM WritesExclude == Spec => NoWriteWhileWaiting
  <1> DEFINE A == \A r \in Requests :
                     rpc[r] = "respWait" /\ rpc'[r] = "respWait" => atPeer' \subseteq atPeer
  <1>1. ExchangeInv /\ [Next]_vars => A
    <2> SUFFICES ASSUME ExchangeInv, [Next]_vars, NEW r \in Requests,
                        rpc[r] = "respWait", rpc'[r] = "respWait"
                 PROVE  atPeer' \subseteq atPeer
      OBVIOUS
    <2>1. lock \notin {NoOne, Task} /\ \A q \in Requests : ~HasLock(q)
      BY NoOneAssumption DEF ExchangeInv, RequestStages, HasLock
    <2> QED
      BY <2>1 DEF Next, ConnStep, TaskStalls, WriteStalls, Connect, ConnectFails,
         ReplaceWriter, BindWrite, TakesLock, BindRead,
         BindTimeout, BindSpin, Read, ReadFails, ProcessResponse, ProcessRequest,
         ProcessOther, EnquireTick, EnquireWrite, TakesLock, InactiveTick, Retry, vars, Close,
         PeerStep, PeerAnswer, PeerRequest, PeerClose, PeerReads, RequestStep, Submit,
         LockAndStall, LockAndWrite,
         LockAndFail, ReceiveResponse, ResponseTimeout, Cancel
  <1>2. ExchangeInv /\ [Next]_vars => [A]_vars
    BY <1>1
  <1> QED
    BY <1>2, ExchangeCorrect, PTL DEF Spec, NoWriteWhileWaiting
-----------------------------------------------------------------------------
(***************************************************************************)
(* The link: the alarm and the write half.                                 *)
(***************************************************************************)

\* The flag of run() knows what the alarm receiver was told last.
AlarmInv ==
    /\ alarm = IF alarm_active THEN 1 ELSE 0
    /\ alarm_active => HasNotifier
    /\ pc \in {"main", "enquire"} => ~alarm_active
    /\ pc = "retry" /\ HasNotifier => alarm_active

\* The alarm receiver is told of every outage once, and of its end.
THEOREM AlarmCorrect == Spec => []AlarmMatchesLink
  <1>1. Init => AlarmInv
    BY DEF Init, AlarmInv
  <1>2. ASSUME TypeOK, AlarmInv, [Next]_vars PROVE AlarmInv'
    <2>t. alarm_active \in BOOLEAN /\ HasNotifier \in BOOLEAN
      BY <1>2, NotifierAssumption DEF TypeOK
    <2>1. CASE AttemptFailed \/ (LinkLost /\ pc = "main")
      <3>1. pc' = "retry" /\ (pc = "main" => ~alarm_active)
        BY <1>2, <2>1 DEF AlarmInv, AttemptFailed, LinkLost
      <3>2. CASE HasNotifier
        <4>1. alarm_active'
          BY <2>1, <3>2 DEF AttemptFailed, LinkLost
        <4>2. CASE alarm_active
          <5>1. alarm = 1 /\ alarm' = alarm
            BY <1>2, <2>1, <3>1, <3>2, <4>2 DEF AlarmInv, AttemptFailed
          <5> QED
            BY <3>1, <3>2, <4>1, <5>1 DEF AlarmInv
        <4>3. CASE ~alarm_active
          <5>1. alarm = 0 /\ alarm' = alarm + 1
            BY <1>2, <2>1, <3>2, <4>3 DEF AlarmInv, AttemptFailed, LinkLost
          <5> QED
            BY <3>1, <3>2, <4>1, <5>1 DEF AlarmInv
        <4> QED
          BY <4>2, <4>3
      <3>3. CASE ~HasNotifier
        <4>1. ~alarm_active /\ alarm' = alarm /\ (alarm_active' <=> alarm_active)
          BY <1>2, <2>1, <3>3 DEF AlarmInv, AttemptFailed, LinkLost
        <4> QED
          BY <1>2, <3>1, <3>3, <4>1 DEF AlarmInv
      <3> QED
        BY <3>2, <3>3
    <2>2. CASE UNCHANGED <<alarm, alarm_active>> /\ pc' = pc
      BY <1>2, <2>2 DEF AlarmInv
    <2>3. CASE BindRead /\ ~AttemptFailed
      BY <1>2, <2>3, <2>t DEF AlarmInv, BindRead
    <2>4. CASE /\ UNCHANGED <<alarm, alarm_active>>
               /\ \/ pc' \in {"connect", "replace", "bindWrite", "bindWait"}
                  \/ pc \in {"main", "enquire"} /\ pc' \in {"main", "enquire"}
      BY <1>2, <2>4 DEF AlarmInv
    <2>7. CASE TaskStalls
      BY <2>2, <2>7 DEF TaskStalls
    <2>8. CASE Connect \/ ReplaceWriter \/ BindSpin \/ EnquireTick \/ Retry
      BY <2>2, <2>4, <2>8 DEF Connect, ReplaceWriter, BindSpin, EnquireTick, Retry, vars
    <2>9. CASE BindRead \/ BindTimeout \/ ConnectFails
      BY <2>1, <2>3, <2>9 DEF BindTimeout, ConnectFails
    <2>10. CASE BindWrite \/ EnquireWrite
      BY <2>1, <2>4, <2>10 DEF BindWrite, EnquireWrite
    <2>11. CASE Read \/ ReadFails \/ InactiveTick
      BY <2>1, <2>2, <2>11 DEF Read, ReadFails, InactiveTick
    <2>12. CASE ProcessResponse \/ ProcessRequest \/ ProcessOther
      BY <2>2, <2>12 DEF ProcessResponse, ProcessRequest, ProcessOther
    <2>5. CASE ConnStep
      BY <2>5, <2>7, <2>8, <2>9, <2>10, <2>11, <2>12 DEF ConnStep
    <2>6. CASE PeerStep \/ UNCHANGED vars \/ \E r \in Requests : RequestStep(r)
      BY <2>2, <2>6 DEF PeerStep, PeerAnswer, PeerRequest, PeerClose, PeerReads, vars,
         RequestStep,
         Submit, LockAndStall, LockAndWrite, LockAndFail, ReceiveResponse, ResponseTimeout, Cancel
    <2> QED
      BY <1>2, <2>5, <2>6 DEF Next
  <1>3. AlarmInv => AlarmMatchesLink
    BY DEF AlarmInv, AlarmMatchesLink
  <1>4. AlarmInv /\ TypeOK /\ [Next]_vars => AlarmInv'
    BY <1>2
  <1> QED
    BY <1>1, <1>3, <1>4, TypeCorrect, PTL DEF Spec

\* The stored write half is the one of the session being read.
THEOREM WriterCorrect == Spec => []WriterIsCurrent
  <1>1. Init => WriterIsCurrent
    BY DEF Init, WriterIsCurrent
  <1>2. WriterIsCurrent /\ [Next]_vars => WriterIsCurrent'
    BY DEF WriterIsCurrent, Next, ConnStep, TaskStalls, WriteStalls, Connect, ConnectFails,
       ReplaceWriter, BindWrite, TakesLock,
       BindRead, BindTimeout, BindSpin, Read, ReadFails, ProcessResponse, ProcessRequest,
       ProcessOther, EnquireTick, EnquireWrite, TakesLock, InactiveTick, Retry, vars,
       AttemptFailed,
       LinkLost, PeerStep, PeerAnswer, PeerRequest, PeerClose, PeerReads, RequestStep, Submit,
       LockAndStall,
       LockAndWrite, LockAndFail, ReceiveResponse, ResponseTimeout, Cancel
  <1> QED
    BY <1>1, <1>2, PTL DEF Spec
-----------------------------------------------------------------------------
(***************************************************************************)
(* SmscConnection implements SmppExchange.                                 *)
(***************************************************************************)

\* A step of the connection is a step of the exchange, or none.
LEMMA ExchangeSimulation ==
    ASSUME TypeOK, TypeOK', ExchangeInv, [Next]_vars
    PROVE  [Exchange!Next]_(Exchange!vars)
  <1>t. /\ rpc \in [Requests -> ReqPcs] /\ seq \in [Requests -> Nat]
        /\ chan \in [Requests -> Nat \cup {NoSeq}] /\ wrote \in [Requests -> 0 .. MaxSessions]
        /\ callbacks \subseteq [seq : Nat, req : Requests] /\ nextSeq \in Nat
        /\ writer \in 0 .. MaxSessions
    BY DEF TypeOK
  <1>1. CASE UNCHANGED <<rpc, chan, wrote>>
    BY <1>1 DEF Exchange!vars
  <1>2. CASE ProcessResponse
    <2> DEFINE n == Head(batch).seq
    <2>1. /\ chan' = [r \in Requests |->
                         IF [seq |-> n, req |-> r] \in callbacks THEN n ELSE chan[r]]
          /\ UNCHANGED <<rpc, wrote>>
      BY <1>2 DEF ProcessResponse, ResponseReceived
    <2>2. CASE \A r \in Requests : [seq |-> n, req |-> r] \notin callbacks
      BY <1>1, <1>t, <2>1, <2>2
    <2>3. ASSUME NEW r \in Requests, [seq |-> n, req |-> r] \in callbacks
          PROVE  Exchange!Answer(r)
      <3>1. n \in Nat /\ seq[r] = n /\ rpc[r] # "idle" /\ chan[r] = NoSeq
        BY <1>t, <2>3 DEF ExchangeInv, CallbackUnanswered
      <3>2. \A q \in Requests : [seq |-> n, req |-> q] \in callbacks <=> q = r
        BY <1>t, <2>3, <3>1 DEF ExchangeInv, CallbackUnanswered, SeqsTakenOnce, Started
      <3>3. chan' = [chan EXCEPT ![r] = n]
        BY <1>t, <2>1, <3>2
      <3>4. wrote[r] # 0
        <4>1. chan'[r] # NoSeq
          BY <1>t, <3>1, <3>3 DEF NoSeq
        <4> QED
          BY <4>1, <1>2, <2>1, ClaimsResponse DEF ResponseBelongsToRequest
      <3> QED
        BY <1>t, <2>1, <3>1, <3>3, <3>4 DEF Exchange!Answer, NoSeq
    <2> QED
      BY <2>2, <2>3 DEF Exchange!Next
  <1>3. ASSUME NEW r \in Requests, Submit(r) PROVE Exchange!Begin(r)
    BY <1>3, <1>t DEF Submit, Exchange!Begin, ReqPcs
  <1>4. ASSUME NEW r \in Requests, LockAndWrite(r) PROVE Exchange!Write(r)
    BY <1>4, <1>t DEF LockAndWrite, HasLock, Exchange!Write, Exchange!Pending, ExchangeInv,
       RequestStages
  <1>5. ASSUME NEW r \in Requests, ReceiveResponse(r) PROVE Exchange!Return(r)
    BY <1>5, <1>t DEF ReceiveResponse, Finish, Exchange!Return, Exchange!Pending
  <1>6. ASSUME NEW r \in Requests, LockAndFail(r) \/ ResponseTimeout(r)
        PROVE  Exchange!Fail(r, "error")
    BY <1>6, <1>t DEF LockAndFail, HasLock, ResponseTimeout, Finish, Exchange!Fail,
       Exchange!Pending
  <1>7. ASSUME NEW r \in Requests, Cancel(r) PROVE Exchange!Fail(r, "cancelled")
    BY <1>7, <1>t DEF Cancel, Finish, Exchange!Fail, Exchange!Pending
  <1>9. ASSUME NEW r \in Requests, LockAndStall(r) PROVE UNCHANGED Exchange!vars
    <2>1. /\ chan' = chan /\ wrote' = wrote /\ rpc[r] = "lockWait"
          /\ rpc' = [rpc EXCEPT ![r] = "writing"]
      BY <1>9 DEF LockAndStall
    <2>2. \A q \in Requests :
             (IF rpc'[q] \in {"lockWait", "writing", "respWait"} THEN "pending" ELSE rpc'[q]) =
             (IF rpc[q] \in {"lockWait", "writing", "respWait"} THEN "pending" ELSE rpc[q])
      BY <1>t, <2>1
    <2> QED
      BY <2>1, <2>2 DEF Exchange!vars
  <1>8. CASE ~ProcessResponse /\ (ConnStep \/ PeerStep \/ UNCHANGED vars)
    BY <1>1, <1>8 DEF ConnStep, TaskStalls, WriteStalls, Connect, ConnectFails, ReplaceWriter,
       BindWrite, TakesLock, BindRead,
       BindTimeout, BindSpin, Read, ReadFails, ProcessRequest, ProcessOther, EnquireTick,
       EnquireWrite, TakesLock, InactiveTick, Retry, vars, PeerStep, PeerAnswer, PeerRequest,
       PeerClose, PeerReads
  <1> QED
    BY <1>2, <1>3, <1>4, <1>5, <1>6, <1>7, <1>8, <1>9 DEF Next, RequestStep, Exchange!Next

\* send_message is one write, at most one answer and one outcome.
THEOREM ExchangeImplemented == Spec => ImplementsExchange
  <1>1. Init => Exchange!Init
    BY DEF Init, Exchange!Init
  <1>2. TypeOK /\ TypeOK' /\ ExchangeInv /\ [Next]_vars => [Exchange!Next]_(Exchange!vars)
    BY ExchangeSimulation
  <1> QED
    BY <1>1, <1>2, TypeCorrect, ExchangeCorrect, PTL DEF Spec, ImplementsExchange, Exchange!Spec
=============================================================================
