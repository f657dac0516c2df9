--------------------- MODULE RabbitMqMessageStorageProofs ---------------------
(***************************************************************************)
(* Proofs about RabbitMqMessageStorage, for any set of messages and        *)
(* cancels, any clock and any number of crashes, lost connections and      *)
(* handler failures.                                                       *)
(***************************************************************************)
EXTENDS RabbitMqMessageStorage, TLAPS

USE DEF brokerVars, indexVars, saveVars, loopVars, countVars

(***************************************************************************)
(* The inductive invariant.                                                *)
(***************************************************************************)

Streamed == {stream[k] : k \in 1 .. Len(stream)}

\* The message the consumer has taken and not answered for.
InHand == IF lpc \in {"handle", "ack"} THEN {cur} ELSE {}

\* What the broker waits for an answer to is what the consumer is still to look at or has
\* in hand; without a connection the broker waits for nothing.
UnackedIsHeld ==
    /\ lpc \in {"handle", "ack", "clean"} => cur \in Messages
    /\ link = "up" => unacked = Streamed \cup InHand
    /\ link = "lost" => unacked = {} /\ wire = {}
    /\ InHand \cap Streamed = {}

\* Before it is published, a message is nowhere; on the wire it was never delivered.
FreshIsNowhere ==
    /\ \A m \in Messages : spc[m] \in {"idle", "publish"} =>
           /\ m \notin wire \cup queue \cup unacked \cup Streamed \cup InHand
           /\ deliveries[m] = 0
    /\ \A m \in wire : deliveries[m] = 0

\* A message that can be handed over once more has been so at most once per restart. What
\* a lost connection put back into the queue cannot.
DeliverableAgain ==
    /\ \A m \in Streamed : deliveries[m] <= crashes
    /\ lpc = "handle" => deliveries[cur] <= crashes
    /\ link = "up" => \A m \in queue : deliveries[m] <= crashes

\* An answer is due for what was delivered or has expired.
AnsweredForReason == lpc = "ack" => deliveries[cur] > 0 \/ Expired(cur)

\* NoSilentLoss from the moment a message is published.
KeptOncePublished ==
    \A m \in Messages : spc[m] \in {"index", "user", "ok"} =>
        \/ m \in wire \cup queue \cup unacked
        \/ deliveries[m] > 0 \/ Expired(m) \/ m \in lost

RabbitInv ==
    /\ TypeOK /\ UnackedIsHeld /\ FreshIsNowhere /\ DeliverableAgain /\ AnsweredForReason
    /\ KeptOncePublished /\ DeliveredOnce
-----------------------------------------------------------------------------
(***************************************************************************)
(* The stream of deliveries.                                               *)
(***************************************************************************)

\* The next delivery leaves a stream that holds the others.
LEMMA StreamTail ==
    ASSUME TypeOK, stream # <<>>
    PROVE  /\ Head(stream) \in Messages /\ Head(stream) \in Streamed
           /\ Tail(stream) \in Seq(Messages) /\ IsInjective(Tail(stream))
           /\ {Tail(stream)[k] : k \in 1 .. Len(Tail(stream))} = Streamed \ {Head(stream)}
<1>1. stream \in Seq(Messages) /\ Len(stream) \in Nat \ {0}
  BY DEF TypeOK
<1>2. \A j, k \in 1 .. Len(stream) : stream[j] = stream[k] => j = k
  BY DEF TypeOK, IsInjective
<1>3. /\ Head(stream) = stream[1] /\ Tail(stream) \in Seq(Messages)
      /\ Len(Tail(stream)) = Len(stream) - 1
      /\ \A k \in 1 .. Len(stream) - 1 : Tail(stream)[k] = stream[k + 1]
  BY <1>1
<1> DEFINE t == Tail(stream)
           n == Len(stream)
<1> HIDE DEF t
<1>4. IsInjective(t)
  <2>1. DOMAIN t = 1 .. n - 1
    BY <1>1, <1>3 DEF t
  <2> QED BY <1>1, <1>2, <1>3, <2>1 DEF IsInjective, t
<1>5. ASSUME NEW m \in Streamed \ {Head(stream)} PROVE \E k \in 1 .. n - 1 : t[k] = m
  <2>1. PICK j \in 1 .. n : stream[j] = m
    BY DEF Streamed
  <2>2. j # 1 /\ j - 1 \in 1 .. n - 1
    BY <1>1, <1>3, <2>1
  <2> QED BY <1>1, <1>3, <2>1, <2>2 DEF t
<1>6. ASSUME NEW k \in 1 .. n - 1 PROVE t[k] \in Streamed \ {Head(stream)}
  <2>1. t[k] = stream[k + 1] /\ k + 1 \in 1 .. n /\ 1 \in 1 .. n
    BY <1>1, <1>3 DEF t
  <2>2. stream[k + 1] # stream[1]
    BY <1>1, <1>2, <2>1
  <2> QED BY <1>3, <2>1, <2>2 DEF Streamed
<1>7. {t[k] : k \in 1 .. Len(t)} = Streamed \ {Head(stream)}
  <2>1. Len(t) = n - 1
    BY <1>3 DEF t
  <2> QED BY <1>5, <1>6, <2>1
<1>8. Head(stream) \in Messages /\ Head(stream) \in Streamed
  BY <1>1, <1>3 DEF Streamed
<1> QED BY <1>3, <1>4, <1>7, <1>8 DEF t

\* A delivery that is not in the stream is put behind it.
LEMMA StreamAppend ==
    ASSUME TypeOK, NEW m \in Messages, m \notin Streamed
    PROVE  /\ Append(stream, m) \in Seq(Messages) /\ IsInjective(Append(stream, m))
           /\ {Append(stream, m)[k] : k \in 1 .. Len(Append(stream, m))} = Streamed \cup {m}
<1> DEFINE t == Append(stream, m)
           n == Len(stream)
<1>1. stream \in Seq(Messages) /\ n \in Nat
  BY DEF TypeOK
<1>2. \A j, k \in 1 .. n : stream[j] = stream[k] => j = k
  BY DEF TypeOK, IsInjective
<1>3. /\ t \in Seq(Messages) /\ Len(t) = n + 1 /\ DOMAIN t = 1 .. n + 1
      /\ \A k \in 1 .. n : t[k] = stream[k]
      /\ t[n + 1] = m
  BY <1>1
<1> HIDE DEF t
<1>4. \A k \in 1 .. n : stream[k] # m
  BY DEF Streamed
<1>5. IsInjective(t)
  BY <1>1, <1>2, <1>3, <1>4 DEF IsInjective
<1>6. {t[k] : k \in 1 .. Len(t)} = Streamed \cup {m}
  <2>1. ASSUME NEW k \in 1 .. n + 1 PROVE t[k] \in Streamed \cup {m}
    BY <1>1, <1>3 DEF Streamed
  <2>2. ASSUME NEW x \in Streamed PROVE \E k \in 1 .. n + 1 : t[k] = x
    <3>1. PICK j \in 1 .. n : stream[j] = x
      BY DEF Streamed
    <3> QED BY <1>1, <1>3, <3>1
  <2>3. n + 1 \in 1 .. n + 1
    BY <1>1
  <2> QED BY <1>3, <2>1, <2>2, <2>3
<1> QED BY <1>3, <1>5, <1>6 DEF t

\* What is in the stream is a message.
LEMMA StreamedType == TypeOK => Streamed \subseteq Messages
BY DEF TypeOK, Streamed

\* A stream that is left alone holds the same.
LEMMA StreamSame == UNCHANGED stream => Streamed' = Streamed
BY DEF Streamed

\* A validity period is a time, or there is none.
LEMMA ValidityType ==
    ASSUME TypeOK, NEW m \in Messages
    PROVE  ValidityOf(m) \in Int
<1> DEFINE a == Attr[m]
           from == IF a.sched = NoTime THEN now ELSE a.sched
<1>1. NoTime # BadTime
  BY DEF NoTime, BadTime
<1>2. /\ a.validity = NoTime => ValidityOf(m) = from + DefaultValidity
      /\ a.validity = BadTime => ValidityOf(m) = NoTime
      /\ a.validity \notin {NoTime, BadTime} => ValidityOf(m) = a.validity
  BY <1>1, Zenon DEF ValidityOf
<1>3. a.validity \in Int /\ from \in Int /\ NoTime \in Int /\ DefaultValidity \in Int
  BY RabbitAssumption DEF TypeOK, OptTime, NoTime, BadTime
<1> QED BY <1>2, <1>3
-----------------------------------------------------------------------------
(***************************************************************************)
(* Every step keeps the invariant.                                         *)
(***************************************************************************)

\* Nothing is published.
LEMMA RabbitInitInv == Init => RabbitInv
<1> SUFFICES ASSUME Init PROVE RabbitInv
  OBVIOUS
<1>1. Streamed = {} /\ InHand = {}
  BY DEF Init, Streamed, InHand
<1>2. TypeOK
  BY RabbitAssumption DEF Init, TypeOK, NoTime, IsInjective
<1>3. UnackedIsHeld /\ FreshIsNowhere /\ DeliverableAgain
  BY <1>1 DEF Init, UnackedIsHeld, FreshIsNowhere, DeliverableAgain
<1>4. AnsweredForReason /\ KeptOncePublished /\ DeliveredOnce
  BY DEF Init, AnsweredForReason, KeptOncePublished, DeliveredOnce
<1> QED BY <1>2, <1>3, <1>4 DEF RabbitInv

\* Time makes messages expire and nothing else.
LEMMA TickInv == RabbitInv /\ Tick => RabbitInv'
<1> SUFFICES ASSUME RabbitInv, Tick PROVE RabbitInv'
  OBVIOUS
<1> USE DEF RabbitInv
<1>1. Streamed' = Streamed /\ InHand' = InHand
  BY DEF Tick, Streamed, InHand
<1>2. TypeOK'
  BY RabbitAssumption DEF Tick, TypeOK
<1>3. UnackedIsHeld' /\ FreshIsNowhere' /\ DeliverableAgain' /\ DeliveredOnce'
  BY <1>1 DEF Tick, UnackedIsHeld, FreshIsNowhere, DeliverableAgain, DeliveredOnce
<1>4. \A m \in Messages : Expired(m) => Expired(m)'
  BY RabbitAssumption DEF Tick, TypeOK, Expired
<1>5. AnsweredForReason' /\ KeptOncePublished'
  BY <1>4 DEF Tick, UnackedIsHeld, AnsweredForReason, KeptOncePublished
<1> QED BY <1>2, <1>3, <1>5

\* A save publishes its message once, when no one has it.
LEMMA SaveInv ==
    ASSUME RabbitInv, NEW m \in Messages, SaveStep(m)
    PROVE  RabbitInv'
<1> USE DEF RabbitInv
<1>0. Streamed' = Streamed /\ InHand' = InHand
  BY DEF SaveStep, SaveStart, Publish, IndexMessage, IndexUser, Streamed, InHand
<1>1. CASE SaveStart(m)
  <2>1. TypeOK'
    BY <1>1, ValidityType DEF SaveStart, TypeOK
  <2>2. UnackedIsHeld' /\ DeliverableAgain' /\ DeliveredOnce'
    BY <1>0, <1>1 DEF SaveStart, UnackedIsHeld, DeliverableAgain, DeliveredOnce
  <2>3. FreshIsNowhere'
    BY <1>0, <1>1 DEF SaveStart, TypeOK, FreshIsNowhere
  <2>4. \A x \in Messages \ {m} : Expired(x) => Expired(x)'
    BY <1>1 DEF SaveStart, TypeOK, Expired
  <2>5. AnsweredForReason'
    BY <1>1, <2>4 DEF SaveStart, UnackedIsHeld, InHand, FreshIsNowhere, AnsweredForReason
  <2>6. KeptOncePublished'
    BY <1>1, <2>4 DEF SaveStart, TypeOK, KeptOncePublished
  <2> QED BY <2>1, <2>2, <2>3, <2>5, <2>6
<1>2. CASE Publish(m)
  <2>1. TypeOK'
    BY <1>2 DEF Publish, TypeOK, FreshIsNowhere
  <2>2. UnackedIsHeld' /\ DeliverableAgain' /\ DeliveredOnce'
    BY <1>0, <1>2 DEF Publish, UnackedIsHeld, DeliverableAgain, DeliveredOnce
  <2>3. FreshIsNowhere'
    BY <1>0, <1>2 DEF Publish, TypeOK, FreshIsNowhere
  <2>4. AnsweredForReason' /\ KeptOncePublished'
    BY <1>2 DEF Publish, TypeOK, AnsweredForReason, KeptOncePublished, Expired
  <2> QED BY <2>1, <2>2, <2>3, <2>4
<1>3. CASE IndexMessage(m) \/ IndexUser(m)
  <2>1. TypeOK'
    BY <1>3 DEF IndexMessage, IndexUser, TypeOK
  <2>2. UnackedIsHeld' /\ DeliverableAgain' /\ DeliveredOnce'
    BY <1>0, <1>3 DEF IndexMessage, IndexUser, UnackedIsHeld, DeliverableAgain, DeliveredOnce
  <2>3. FreshIsNowhere'
    BY <1>0, <1>3 DEF IndexMessage, IndexUser, TypeOK, FreshIsNowhere
  <2>4. AnsweredForReason' /\ KeptOncePublished'
    BY <1>3 DEF IndexMessage, IndexUser, TypeOK, AnsweredForReason, KeptOncePublished, Expired
  <2> QED BY <2>1, <2>2, <2>3, <2>4
<1> QED BY <1>1, <1>2, <1>3 DEF SaveStep

\* What is at the broker stays there or is pushed to the consumer, which has not got it.
LEMMA BrokerInv ==
    ASSUME RabbitInv, NEW m \in Messages, BrokerTakes(m) \/ BrokerPushes(m)
    PROVE  RabbitInv'
<1> USE DEF RabbitInv
<1>0. InHand' = InHand
  BY DEF BrokerTakes, BrokerPushes, InHand
<1>1. CASE BrokerTakes(m)
  <2>0. Streamed' = Streamed
    BY <1>1, StreamSame DEF BrokerTakes
  <2>1. TypeOK'
    BY <1>1 DEF BrokerTakes, TypeOK
  <2>2. UnackedIsHeld' /\ DeliverableAgain' /\ DeliveredOnce'
    BY <1>0, <1>1, <2>0 DEF BrokerTakes, TypeOK, UnackedIsHeld, FreshIsNowhere, DeliverableAgain,
                            DeliveredOnce
  <2>3. FreshIsNowhere'
    BY <1>0, <1>1, <2>0 DEF BrokerTakes, FreshIsNowhere
  <2>4. AnsweredForReason' /\ KeptOncePublished'
    BY <1>1 DEF BrokerTakes, AnsweredForReason, KeptOncePublished, Expired
  <2> QED BY <2>1, <2>2, <2>3, <2>4
<1>2. CASE BrokerPushes(m)
  <2>0. link = "up" /\ m \in queue /\ m \notin Streamed \cup InHand
    BY <1>2 DEF BrokerPushes, TypeOK, UnackedIsHeld
  <2>1. stream' \in Seq(Messages) /\ IsInjective(stream') /\ Streamed' = Streamed \cup {m}
    BY <1>2, <2>0, StreamAppend DEF BrokerPushes, Streamed
  <2>2. TypeOK'
    BY <1>2, <2>1 DEF BrokerPushes, TypeOK
  <2>3. UnackedIsHeld' /\ DeliverableAgain' /\ DeliveredOnce'
    BY <1>0, <1>2, <2>0, <2>1 DEF BrokerPushes, UnackedIsHeld, DeliverableAgain, DeliveredOnce
  <2>4. FreshIsNowhere'
    BY <1>0, <1>2, <2>0, <2>1 DEF BrokerPushes, FreshIsNowhere
  <2>5. AnsweredForReason' /\ KeptOncePublished'
    BY <1>2 DEF BrokerPushes, AnsweredForReason, KeptOncePublished, Expired
  <2> QED BY <2>2, <2>3, <2>4, <2>5
<1> QED BY <1>1, <1>2

\* A cancel changes the indexes only.
LEMMA CancelInv ==
    ASSUME RabbitInv, NEW c \in Cancels, CancelMessage(c)
    PROVE  RabbitInv'
<1> USE DEF RabbitInv
<1>1. Streamed' = Streamed /\ InHand' = InHand
  BY DEF CancelMessage, Streamed, InHand
<1>2. TypeOK'
  BY DEF CancelMessage, TypeOK
<1>3. UnackedIsHeld' /\ FreshIsNowhere' /\ DeliverableAgain' /\ DeliveredOnce'
  BY <1>1 DEF CancelMessage, UnackedIsHeld, FreshIsNowhere, DeliverableAgain, DeliveredOnce
<1>4. AnsweredForReason' /\ KeptOncePublished'
  BY DEF CancelMessage, AnsweredForReason, KeptOncePublished, Expired
<1> QED BY <1>2, <1>3, <1>4

\* The consumer takes a delivery: it has it in hand, or the broker has it again.
LEMMA TakeNextInv == RabbitInv /\ TakeNext => RabbitInv'
<1> SUFFICES ASSUME RabbitInv, TakeNext PROVE RabbitInv'
  OBVIOUS
<1> USE DEF RabbitInv
<1> DEFINE m == Head(stream)
<1>1. /\ m \in Messages /\ m \in Streamed
      /\ stream' \in Seq(Messages) /\ IsInjective(stream') /\ Streamed' = Streamed \ {m}
  BY StreamTail DEF TakeNext, Streamed
<1>2. InHand = {} /\ Streamed \subseteq Messages
  BY StreamedType DEF TakeNext, InHand
<1>3. UNCHANGED <<now, link, wire, indexVars, saveVars, cpc, deliveries, lost, countVars>>
  BY DEF TakeNext
<1>4. CASE NotYetDue(m)
  <2>0. cur' = NoField /\ lpc' = "sleep" /\ Nack(m)
    BY <1>4, Zenon DEF TakeNext
  <2>1. cur' = NoField /\ lpc' = "sleep" /\ Nack(m) /\ InHand' = {}
    BY <2>0 DEF InHand
  <2>2. /\ unacked' = unacked \ {m}
        /\ queue' = IF link = "up" THEN queue \cup {m} ELSE queue
    BY <1>1, <2>1 DEF Nack, UnackedIsHeld, TypeOK
  <2> HIDE DEF m
  <2>3. TypeOK'
    BY <1>1, <1>3, <2>1, <2>2 DEF TypeOK, UnackedIsHeld
  <2>4. UnackedIsHeld' /\ DeliverableAgain' /\ DeliveredOnce'
    BY <1>1, <1>2, <1>3, <2>1, <2>2 DEF TypeOK, UnackedIsHeld, DeliverableAgain, DeliveredOnce
  <2>5. FreshIsNowhere'
    BY <1>1, <1>2, <1>3, <2>1, <2>2 DEF FreshIsNowhere
  <2>6. AnsweredForReason' /\ KeptOncePublished'
    BY <1>1, <1>3, <2>1, <2>2 DEF UnackedIsHeld, AnsweredForReason, KeptOncePublished, Expired, TypeOK
  <2> QED BY <2>3, <2>4, <2>5, <2>6
<1>5. CASE ~NotYetDue(m)
  <2>1. /\ cur' = m /\ lpc' = IF Expired(m) THEN "ack" ELSE "handle"
        /\ InHand' = {m} /\ UNCHANGED <<queue, unacked>>
    BY <1>5 DEF TakeNext, InHand
  <2> HIDE DEF m
  <2>3. TypeOK'
    BY <1>1, <1>3, <2>1 DEF TypeOK
  <2>4. UnackedIsHeld' /\ DeliverableAgain' /\ DeliveredOnce'
    BY <1>1, <1>2, <1>3, <2>1 DEF UnackedIsHeld, DeliverableAgain, DeliveredOnce
  <2>5. FreshIsNowhere'
    BY <1>1, <1>2, <1>3, <2>1 DEF FreshIsNowhere
  <2>6. AnsweredForReason' /\ KeptOncePublished'
    BY <1>1, <1>3, <2>1 DEF AnsweredForReason, KeptOncePublished, Expired
  <2> QED BY <2>3, <2>4, <2>5, <2>6
<1> QED BY <1>4, <1>5

\* The handler gets a message that was in hand, the broker its answer.
LEMMA AnswerInv ==
    ASSUME RabbitInv, Handled \/ HandlerFails \/ AckCurrent
    PROVE  RabbitInv'
<1> USE DEF RabbitInv
<1>0. Streamed' = Streamed /\ cur \in Messages /\ InHand = {cur} /\ Streamed \subseteq Messages
  BY StreamedType DEF Handled, HandlerFails, AckCurrent, Streamed, InHand, UnackedIsHeld
<1>1. CASE Handled
  <2>1. InHand' = InHand
    BY <1>1 DEF Handled, InHand
  <2>2. TypeOK'
    BY <1>0, <1>1 DEF Handled, TypeOK
  <2>3. /\ deliveries'[cur] = deliveries[cur] + 1 /\ deliveries[cur] \in Nat
        /\ \A x \in Messages \ {cur} : deliveries'[x] = deliveries[x]
    BY <1>0, <1>1 DEF Handled, TypeOK
  <2>4. UnackedIsHeld' /\ AnsweredForReason' /\ KeptOncePublished'
    BY <1>0, <1>1, <2>1, <2>3 DEF Handled, UnackedIsHeld, AnsweredForReason, KeptOncePublished,
                                  Expired
  <2>5. FreshIsNowhere'
    BY <1>0, <1>1, <2>1, <2>3 DEF Handled, TypeOK, FreshIsNowhere, UnackedIsHeld
  <2>6. DeliverableAgain'
    BY <1>0, <1>1, <2>3 DEF Handled, TypeOK, UnackedIsHeld, DeliverableAgain
  <2>7. DeliveredOnce'
    BY <1>1, <2>3 DEF Handled, TypeOK, DeliverableAgain, DeliveredOnce
  <2> QED BY <2>2, <2>4, <2>5, <2>6, <2>7
<1>2. CASE HandlerFails
  <2>1. InHand' = {}
    BY <1>2 DEF HandlerFails, InHand
  <2>2. TypeOK'
    BY <1>0, <1>2 DEF HandlerFails, Nack, TypeOK
  <2>3. UnackedIsHeld' /\ DeliverableAgain' /\ DeliveredOnce'
    BY <1>0, <1>2, <2>1 DEF HandlerFails, Nack, UnackedIsHeld, DeliverableAgain, DeliveredOnce
  <2>4. FreshIsNowhere'
    BY <1>0, <1>2, <2>1 DEF HandlerFails, Nack, FreshIsNowhere
  <2>5. AnsweredForReason' /\ KeptOncePublished'
    BY <1>0, <1>2 DEF HandlerFails, Nack, AnsweredForReason, KeptOncePublished, Expired
  <2> QED BY <2>2, <2>3, <2>4, <2>5
<1>3. CASE AckCurrent
  <2>1. InHand' = {}
    BY <1>3 DEF AckCurrent, InHand
  <2>2. TypeOK'
    BY <1>3 DEF AckCurrent, Ack, TypeOK
  <2>3. UnackedIsHeld' /\ DeliverableAgain' /\ DeliveredOnce'
    BY <1>0, <1>3, <2>1 DEF AckCurrent, Ack, UnackedIsHeld, DeliverableAgain, DeliveredOnce
  <2>4. FreshIsNowhere'
    BY <1>0, <1>3, <2>1 DEF AckCurrent, Ack, FreshIsNowhere
  <2>5. AnsweredForReason' /\ KeptOncePublished'
    BY <1>0, <1>3 DEF AckCurrent, Ack, AnsweredForReason, KeptOncePublished, Expired
  <2> QED BY <2>2, <2>3, <2>4, <2>5
<1> QED BY <1>1, <1>2, <1>3

\* Sleeping, ending and cleaning the indexes move no message.
LEMMA IdleInv ==
    ASSUME RabbitInv, WakeUp \/ ConsumerEnds \/ CleanIndex
    PROVE  RabbitInv'
<1> USE DEF RabbitInv
<1>1. Streamed' = Streamed /\ InHand = {} /\ InHand' = {} /\ lpc' \in {"next", "ended"}
  BY DEF WakeUp, ConsumerEnds, CleanIndex, Streamed, InHand
<1>2. TypeOK'
  BY DEF WakeUp, ConsumerEnds, CleanIndex, TypeOK
<1>3. UnackedIsHeld' /\ FreshIsNowhere' /\ DeliverableAgain' /\ DeliveredOnce'
  BY <1>1 DEF WakeUp, ConsumerEnds, CleanIndex, UnackedIsHeld, FreshIsNowhere, DeliverableAgain,
              DeliveredOnce
<1>4. AnsweredForReason' /\ KeptOncePublished'
  BY <1>1 DEF WakeUp, ConsumerEnds, CleanIndex, AnsweredForReason, KeptOncePublished, Expired
<1> QED BY <1>2, <1>3, <1>4

\* The connection is lost: the broker takes back what it waited for, the consumer keeps
\* what had come in.
LEMMA ConnectionLostInv == RabbitInv /\ ConnectionLost => RabbitInv'
<1> SUFFICES ASSUME RabbitInv, ConnectionLost PROVE RabbitInv'
  OBVIOUS
<1> USE DEF RabbitInv
<1>1. Streamed' = Streamed /\ InHand' = InHand
  BY DEF ConnectionLost, Streamed, InHand
<1>2. TypeOK'
  BY DEF ConnectionLost, Disconnect, TypeOK
<1>3. UnackedIsHeld' /\ FreshIsNowhere' /\ DeliverableAgain' /\ DeliveredOnce'
  BY <1>1 DEF ConnectionLost, Disconnect, UnackedIsHeld, FreshIsNowhere, DeliverableAgain,
              DeliveredOnce
<1>4. AnsweredForReason' /\ KeptOncePublished'
  BY DEF ConnectionLost, Disconnect, AnsweredForReason, KeptOncePublished, Expired
<1> QED BY <1>2, <1>3, <1>4

\* A restart finds in the queue what was not acknowledged.
LEMMA CrashInv == RabbitInv /\ Crash => RabbitInv'
<1> SUFFICES ASSUME RabbitInv, Crash PROVE RabbitInv'
  OBVIOUS
<1> USE DEF RabbitInv
<1>1. Streamed' = {} /\ InHand' = {}
  BY DEF Crash, Streamed, InHand
<1>2. TypeOK'
  BY DEF Crash, Disconnect, TypeOK, IsInjective
<1>3. UnackedIsHeld' /\ FreshIsNowhere'
  BY <1>1 DEF Crash, Disconnect, TypeOK, UnackedIsHeld, FreshIsNowhere
<1>4. DeliverableAgain' /\ DeliveredOnce'
  BY <1>1 DEF Crash, Disconnect, TypeOK, DeliverableAgain, DeliveredOnce
<1>5. AnsweredForReason' /\ KeptOncePublished'
  BY DEF Crash, Disconnect, TypeOK, AnsweredForReason, KeptOncePublished, Expired
<1> QED BY <1>2, <1>3, <1>4, <1>5

\* A step that changes nothing keeps the invariant.
LEMMA RabbitStutter == RabbitInv /\ UNCHANGED vars => RabbitInv'
BY DEF vars, RabbitInv, TypeOK, UnackedIsHeld, InHand, Streamed, FreshIsNowhere, DeliverableAgain,
       AnsweredForReason, KeptOncePublished, DeliveredOnce, Expired

\* The invariant holds in every state.
LEMMA RabbitInvariant == Spec => []RabbitInv
<1>1. RabbitInv /\ [Next]_vars => RabbitInv'
  BY TickInv, SaveInv, BrokerInv, CancelInv, TakeNextInv, AnswerInv, IdleInv, ConnectionLostInv,
     CrashInv, RabbitStutter DEF Next, LoopStep
<1> QED BY RabbitInitInv, <1>1, PTL DEF Spec
-----------------------------------------------------------------------------
(***************************************************************************)
(* The results.                                                            *)
(***************************************************************************)

\* Every variable of the store keeps its type, and the broker holds a message in one place
\* and has pushed it once.
THEOREM RabbitTypeCorrect == Spec => []TypeOK
<1>1. RabbitInv => TypeOK
  BY DEF RabbitInv
<1> QED BY <1>1, RabbitInvariant, PTL

\* An accepted message is at the broker until it was delivered or has expired, unless it was
\* on the wire when the connection ended: no order of deliveries, answers, cancels, lost
\* connections and restarts loses it otherwise.
THEOREM RabbitNoLoss == Spec => []NoSilentLoss
<1>1. RabbitInv => NoSilentLoss
  BY DEF RabbitInv, KeptOncePublished, NoSilentLoss
<1> QED BY <1>1, RabbitInvariant, PTL

\* A message is handed over once, and once more for every restart, however often the
\* connection is lost or the handler fails.
THEOREM RabbitDelivery == Spec => []DeliveredOnce
<1>1. RabbitInv => DeliveredOnce
  BY DEF RabbitInv
<1> QED BY <1>1, RabbitInvariant, PTL
=============================================================================
