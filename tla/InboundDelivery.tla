--------------------------- MODULE InboundDelivery ---------------------------
(***************************************************************************)
(* What the SMSC sends to the client role, from the bytes on the wire to   *)
(* the answer: read_messages, process_in_message and handle_deliver_sm of  *)
(* smsc_connection.rs, the codec, the receipt manager and the HTTP         *)
(* handlers of message_handler.rs.                                         *)
(*                                                                         *)
(* The loop of a connection handles one message at a time and waits for    *)
(* the HTTP server and for the write of its answer, without a timeout; a   *)
(* receipt with a URL is posted by a task of its own. The SMSC and the     *)
(* HTTP servers are external. Sending and reconnecting are those of        *)
(* SmscConnection: here one TCP connection lives from its bind until the   *)
(* loop is left.                                                           *)
(***************************************************************************)
EXTENDS SmppMessage, DeliveryReceiptManager

CONSTANTS
    Scenes,          \* what the SMSC does, the handlers, the sizes of the reads
    Replies,         \* the command_status of the JSON an HTTP server may answer
    MaxPdus,         \* bound: the messages the SMSC sends
    IdOfText         \* the message id that a receipted_message_id spells

SysErr == 8          \* ESME_RSYSERR

Deliveries == {[name |-> n, resp |-> FALSE] : n \in {"deliver_sm", "data_sm"}}
EnquireLink == [name |-> "enquire_link", resp |-> FALSE]
ResponseOf(c) == [c EXCEPT !.resp = TRUE]

(***************************************************************************)
(* What an SMSC may send.                                                  *)
(***************************************************************************)
FlatValues == [num : Nat] \cup [text : Seq(Bytes)] \cup [base64 : Seq(Bytes)]

\* A value, or a list of objects that have values.
IsValue(v) ==
    \/ v \in FlatValues
    \/ /\ DOMAIN v = {"arr"} /\ v \in [arr : Seq(ToSet(v.arr))]
       /\ \A o \in ToSet(v.arr) : o \in [DOMAIN o -> FlatValues]

\* The values of a field that the wire format can carry: numbers that fit (a number of
\* variable length is written low byte first and read high byte first, and 0 has no
\* bytes), strings within their length, octet strings that are not empty.
FitsFlat(c, v) ==
    CASE c.kind = "uint"     -> Is("num", v) /\ v.num \div Powers[c.width] < 256
      [] c.kind = "optional" -> Is("num", v) /\ v.num < 256
      [] c.kind = "varint"   -> Is("num", v) /\ v.num \in 1 .. 255
      [] c.kind = "cstring"  -> Is("text", v) /\ Len(v.text) <= c.max /\ 0 \notin ToSet(v.text)
      [] c.kind = "octets"   -> /\ OctetsOf(v) # <<>>
                                /\ Len(OctetsOf(v)) < IF c.length_bytes = 1 THEN 256 ELSE 65536

\* An address names all its members, and there are no more than a byte can count.
Fits(c, v) ==
    LET Members == IF c = DestAddresses
                   THEN {{"dest_addr_ton", "dest_addr_npi", "destination_addr"}, {"dl_name"}}
                   ELSE {ToSet(SmeFields)}
    IN  IF c.kind \notin {"dests", "smes"} THEN FitsFlat(c, v)
        ELSE /\ Is("arr", v) /\ Len(v.arr) < 256
             /\ \A i \in DOMAIN v.arr :
                   /\ DOMAIN v.arr[i] \in Members
                   /\ \A f \in DOMAIN v.arr[i] : FitsFlat(MemberCodec(f), v.arr[i][f])

Carried(m) ==
    /\ DOMAIN m.fields \subseteq ToSet(FieldsOf(m.command)) \cup DOMAIN TlvTags
    /\ \A f \in ToSet(FieldsOf(m.command)) \cap DOMAIN m.fields : Fits(FieldCodec(f), m.fields[f])
    /\ \A f \in DOMAIN TlvTags \cap DOMAIN m.fields : Fits(TlvCodec(f), m.fields[f])

\* A message of a command that there is, with a header of numbers that fit.
IsMessage(m) ==
    /\ m.command \in Commands /\ \A f \in DOMAIN m.fields : IsValue(m.fields[f])
    /\ m.status \in [num : Nat] /\ m.sequence \in [num : Nat]
    /\ FitsFlat(U32, m.status) /\ FitsFlat(U32, m.sequence)

\* What the SMSC writes: the TLVs of its own, in extra, come last.
OnWire(m) == {BigEndian(Len(b) + Len(m.extra), 4) \o Drop(b, 4) \o m.extra : b \in FromJson(m)}

(***************************************************************************)
(* The command_status of an answer in JSON is a number of 64 bits, given   *)
(* by its halves, or something else: a string, null, a negative number, a  *)
(* fraction, or nothing at all. A status has 32 bits, and what is not a    *)
(* number of 64 bits counts as 0.                                          *)
(***************************************************************************)
StatusOf(reply) == IF DOMAIN reply = {"high", "low"} THEN reply.low ELSE 0

Statuses == {StatusOf(r) : r \in Replies}

\* The message id a message is a receipt for, {} if it is none.
Receipted(m) ==
    IF "receipted_message_id" \notin DOMAIN m.fields THEN {}
    ELSE LET v == m.fields["receipted_message_id"]
         IN  IF ~Is("text", v) THEN {} ELSE IF v.text = <<>> THEN {} ELSE {IdOfText[v.text]}

AddressFields == <<"service_type">> \o SourceFields \o DestFields

ASSUME InboundAssumption ==
    /\ \A r \in Replies : DOMAIN r = {"high", "low"} => r.low \in Nat /\ FitsFlat(U32, Num(r.low))
    /\ \A s \in Scenes :
          /\ Len(s.pdus) \in 0 .. MaxPdus /\ DOMAIN s.pdus = 1 .. Len(s.pdus)
          /\ s.handlers \in Seq([dests : SUBSET Seq(Bytes), urls : Nat, round_robin : BOOLEAN])
          /\ s.reads \subseteq Nat /\ s.with_bind \subseteq Nat /\ s.registers \subseteq Registrations
          /\ s.closes \in BOOLEAN /\ s.stalls \in BOOLEAN /\ s.timers \in BOOLEAN
          /\ s.tail \in Seq(Bytes) /\ (s.tail = <<>> \/ FromBigEndian(Take(s.tail, 4)) = 0)
          /\ \A i \in DOMAIN s.pdus :
                LET m == s.pdus[i]
                IN  /\ IsMessage(m) /\ m.extra \in Seq(Bytes)
                    /\ m.command \in Deliveries =>
                          \A f \in ToSet(AddressFields) \cap DOMAIN m.fields :
                              Fits(FieldCodec(f), m.fields[f])
                    /\ \A b \in OnWire(m) :
                          /\ FitsFlat(U32, Num(Len(b)))
                          /\ \A got \in ToJson(b) :
                                got.command \in Deliveries => Receipted(got) \subseteq MsgIds

\* What is left out of a message, and what is answered, can be carried, too.
ASSUME DefaultAssumption ==
    /\ \A c \in Commands : \A f \in ToSet(FieldsOf(c)) : \A v \in DefaultOf(c, f) :
          IsValue(v) /\ Fits(FieldCodec(f), v)
    /\ \A c \in Deliveries : /\ Len(FieldsOf(c)) >= 7 /\ SubSeq(FieldsOf(c), 1, 7) = AddressFields
                             /\ {"dest_addresses", "unsuccess_smes"} \cap ToSet(FieldsOf(c)) = {}
                             /\ FieldsOf(ResponseOf(c)) = <<"message_id">>
    /\ FieldsOf(ResponseOf(EnquireLink)) = <<>>
    /\ {ResponseOf(c) : c \in Deliveries \cup {EnquireLink}} \subseteq Commands
    /\ {"destination_addr", "message_id"} \cap DOMAIN TlvTags = {}
    /\ Fits(FieldCodec("message_id"), Text(<<>>))

VARIABLES
    scene,           \* the scene being played
    wire,            \* bytes sent by the SMSC and not read
    open,            \* the SMSC has not closed the connection
    stalled,         \* the SMSC reads no more
    received,        \* messages_received: the loop has read since the last look at it
    buffer,          \* bytes read that are not yet a message
    messages,        \* messages extracted and not processed, each as ToJson decodes it
    pc,              \* where the loop is
    status,          \* the command_status to answer with
    handler, tries,  \* the HTTP handler of the message, the URLs tried
    next_index,      \* the round-robin counters of the handlers
    posting,         \* receipts being posted, by their position
    answers,         \* history: messages written to the SMSC
    outcome,         \* history: what became of each message, in order
    accepted         \* history: what the HTTP servers that took a message answered

readVars == <<wire, open, stalled, received, buffer, messages>>
httpVars == <<handler, tries, next_index>>
historyVars == <<answers, outcome, accepted>>
vars == <<scene, readVars, pc, status, httpVars, posting, historyVars, receiptVars>>

\* As many bytes as there are, n at most.
AtMost(n, bytes) == IF n < Len(bytes) THEN n ELSE Len(bytes)

\* do_bind has taken the response to the bind, and has left in the buffer what came with it.
Init ==
    /\ scene \in Scenes
    /\ \E sent \in ConcatAll([i \in DOMAIN scene.pdus |-> OnWire(scene.pdus[i])]) :
       \E n \in scene.with_bind :
           LET stream == sent \o scene.tail
           IN  buffer = Take(stream, AtMost(n, stream)) /\ wire = Drop(stream, AtMost(n, stream))
    /\ open = TRUE /\ stalled = FALSE /\ received = FALSE /\ messages = <<>>
    /\ pc = "read" /\ status = 0
    /\ handler = 0 /\ tries = 0 /\ next_index = [h \in DOMAIN scene.handlers |-> 0]
    /\ posting = {} /\ answers = <<>> /\ outcome = <<>> /\ accepted = <<>>
    /\ ReceiptInit
-----------------------------------------------------------------------------
\* The loop goes on with the first of the messages, or reads if there is none.
GoOn(left) ==
    /\ messages' = left
    /\ pc' = IF left = <<>> THEN "read" ELSE "process"

\* The message it handles; {} if it cannot be decoded.
Cur == Head(messages)
-----------------------------------------------------------------------------
(***************************************************************************)
(* read_messages.                                                          *)
(***************************************************************************)

\* There is a message to take however many are taken: its length is 0.
Spins(bytes) == Extract(bytes) # {}

\* A read of n bytes, or of all there are. read_messages does not return if it spins.
ReadMessages(n) ==
    /\ pc = "read" /\ wire # <<>>
    /\ \E x \in ExtractAll(buffer \o Take(wire, AtMost(n, wire))) :
          /\ wire' = Drop(wire, AtMost(n, wire))
          /\ buffer' = x.rest
          /\ IF Spins(x.rest) THEN pc' = "spin" /\ UNCHANGED <<messages, received>>
             ELSE GoOn([i \in DOMAIN x.pdus |-> ToJson(x.pdus[i])]) /\ received' = TRUE
    /\ UNCHANGED <<scene, open, stalled, status, httpVars, posting, historyVars, receiptVars>>

\* The read returns 0: the loop is left.
ReadEof ==
    /\ pc = "read" /\ wire = <<>> /\ ~open
    /\ pc' = "ended"
    /\ UNCHANGED <<scene, readVars, status, httpVars, posting, historyVars, receiptVars>>
-----------------------------------------------------------------------------
(***************************************************************************)
(* The timers of the loop, and what the SMSC does to the connection.       *)
(***************************************************************************)

\* The loop is left if nothing has been read since the last tick, whatever there is to read.
\* Ticks that were missed while a message was handled come one right after the other.
InactiveTick ==
    /\ pc = "read" /\ scene.timers
    /\ received' = FALSE
    /\ pc' = IF received THEN "read" ELSE "ended"
    /\ UNCHANGED <<scene, wire, open, stalled, buffer, messages, status, httpVars, posting, historyVars,
                   receiptVars>>

\* The write of an enquire_link waits for an SMSC that does not read; the loop is left if it
\* fails. One that is written changes nothing.
SendEnquireLink ==
    /\ scene.timers
    /\ \/ pc = "read" /\ stalled /\ pc' = "enquire"
       \/ pc \in {"read", "enquire"} /\ ~open /\ pc' = "ended"
    /\ UNCHANGED <<scene, readVars, status, httpVars, posting, historyVars, receiptVars>>

\* The SMSC closes the connection; what it has sent can still be read.
SmscCloses ==
    /\ open /\ scene.closes
    /\ open' = FALSE
    /\ UNCHANGED <<scene, wire, stalled, received, buffer, messages, pc, status, httpVars, posting,
                   historyVars, receiptVars>>

\* It reads no more, for good: one that only pauses is one whose answers are written later.
SmscStalls ==
    /\ ~stalled /\ scene.stalls
    /\ stalled' = TRUE
    /\ UNCHANGED <<scene, wire, open, received, buffer, messages, pc, status, httpVars, posting,
                   historyVars, receiptVars>>
-----------------------------------------------------------------------------
(***************************************************************************)
(* process_in_message. The position of the message is Len(outcome) + 1.    *)
(***************************************************************************)
Pos == Len(outcome) + 1

\* The message is done with.
Finish(what) ==
    /\ outcome' = Append(outcome, [what |-> what, got |-> Cur])
    /\ GoOn(Tail(messages))
    /\ UNCHANGED <<wire, open, stalled, received, buffer>>

\* A message that cannot be decoded is dropped, without an answer.
ProcessBad ==
    /\ pc = "process" /\ Cur = {}
    /\ Finish("bad")
    /\ UNCHANGED <<scene, status, httpVars, posting, answers, accepted, receiptVars>>

\* enquire_link is answered.
ProcessEnquireLink ==
    /\ pc = "process"
    /\ \E m \in Cur : m.command = EnquireLink
    /\ pc' = "answer" /\ status' = 0
    /\ UNCHANGED <<scene, readVars, httpVars, posting, historyVars, receiptVars>>

\* A response is passed on to the request that waits for it, anything else but deliver_sm
\* and data_sm is logged.
ProcessOther ==
    /\ pc = "process"
    /\ \E m \in Cur :
          /\ m.command \notin Deliveries \cup {EnquireLink}
          /\ Finish(IF m.command.resp /\ m.command.name \notin {"enquire_link", "none"}
                    THEN "response" ELSE "ignored")
    /\ UNCHANGED <<scene, status, httpVars, posting, answers, accepted, receiptVars>>
-----------------------------------------------------------------------------
(***************************************************************************)
(* handle_deliver_sm.                                                      *)
(***************************************************************************)

EsmClassOf(m) == m.fields["esm_class"].num

\* The first handler for the destination; one that names no address takes every message.
HandlersFor(m) ==
    {h \in DOMAIN scene.handlers :
        LET Mine(k) == \/ scene.handlers[k].dests = {}
                       \/ m.fields["destination_addr"].text \in scene.handlers[k].dests
        IN  Mine(h) /\ \A k \in 1 .. h - 1 : ~Mine(k)}

\* No receipt, or one that nobody has registered for: the message goes to the handler, and
\* fails at once if there is none or it has no URLs.
ToHandler(m) ==
    LET hs == {h \in HandlersFor(m) : scene.handlers[h].urls > 0}
    IN  /\ IF hs = {} THEN pc' = "answer" /\ status' = SysErr /\ UNCHANGED httpVars
           ELSE /\ pc' = "http" /\ handler' \in hs /\ tries' = 0
                /\ next_index' = IF scene.handlers[handler'].round_robin
                                 THEN [next_index EXCEPT ![handler'] = @ + 1] ELSE next_index
                /\ UNCHANGED status
        /\ UNCHANGED <<readVars, outcome, posting>>

\* A receipt with a URL is posted and not answered.
HandleDeliverSm ==
    /\ pc = "process"
    /\ \E m \in Cur :
          /\ m.command \in Deliveries
          /\ \/ /\ Receipted(m) = {} /\ ToHandler(m) /\ UNCHANGED receiptVars
             \/ \E i \in Receipted(m) :
                   /\ GetReceiptUrl(i, EsmClassOf(m))
                   /\ IF HasUrl(i)
                      THEN /\ posting' = posting \cup {Pos}
                           /\ Finish("posted")
                           /\ UNCHANGED <<status, httpVars>>
                      ELSE ToHandler(m)
    /\ UNCHANGED <<scene, answers, accepted>>

\* The post of a receipt ends, by an answer, an error or the timeout of ten seconds.
PostEnds(k) ==
    /\ k \in posting
    /\ posting' = posting \ {k}
    /\ UNCHANGED <<scene, readVars, pc, status, httpVars, historyVars, receiptVars>>
-----------------------------------------------------------------------------
(***************************************************************************)
(* HttpMessageHandler::handle_message: the URLs in turn, from the one the  *)
(* counter names or from the first.                                        *)
(***************************************************************************)

\* The URL that is asked.
Url == LET h == scene.handlers[handler]
           start == IF h.round_robin THEN next_index[handler] - 1 ELSE 0
       IN  ((start + tries) % h.urls) + 1

\* Fault: the URLs are tried once too often.
NextUrlMore ==
    /\ tries' = tries + 1
    /\ IF tries <= scene.handlers[handler].urls THEN UNCHANGED <<pc, status>>
       ELSE pc' = "answer" /\ status' = SysErr

\* Fault: the last failure is not reported.
NextUrlSilent ==
    /\ tries' = tries + 1
    /\ IF tries' < scene.handlers[handler].urls THEN UNCHANGED <<pc, status>>
       ELSE pc' = "answer" /\ status' = 0

\* The next URL is asked; it has failed if there is none.
NextUrl ==
    /\ tries' = tries + 1
    /\ IF tries' < scene.handlers[handler].urls THEN UNCHANGED <<pc, status>>
       ELSE pc' = "answer" /\ status' = SysErr

\* A server has taken the message: says holds its answer if that is JSON.
Accepts(says) ==
    accepted' = Append(accepted, [pos |-> Pos, handler |-> handler, url |-> Url, says |-> says])

\* It takes the message and answers in JSON.
HttpAnswers ==
    /\ pc = "http"
    /\ \E r \in Replies : Accepts({r}) /\ status' = StatusOf(r)
    /\ pc' = "answer"
    /\ UNCHANGED <<scene, readVars, httpVars, posting, answers, outcome, receiptVars>>

\* It takes the message, and its answer is no JSON: the next one is asked all the same.
HttpAnswersNoJson ==
    /\ pc = "http"
    /\ Accepts({}) /\ NextUrl
    /\ UNCHANGED <<scene, readVars, handler, next_index, posting, answers, outcome, receiptVars>>

\* It cannot be reached or refuses: the next one is asked.
HttpFails ==
    /\ pc = "http"
    /\ NextUrl
    /\ UNCHANGED <<scene, readVars, handler, next_index, posting, historyVars, receiptVars>>

\* create_json_response: the response to a message.
ResponseTo(m) ==
    [command  |-> ResponseOf(m.command),
     status   |-> Num(status), sequence |-> m.sequence,
     fields   |-> IF m.command \in Deliveries THEN [message_id |-> Text(<<>>)] ELSE <<>>]

\* send_deliver_sm_resp and process_enquire_link; an error of the write is logged. What the
\* sockets hold can be written to an SMSC that reads no more, too.
SendAnswer ==
    /\ pc = "answer"
    /\ \E m \in Cur : \E b \in FromJson(ResponseTo(m)) :
          \/ answers' = Append(answers, [pos |-> Pos, pdu |-> b]) /\ Finish("answered")
          \/ ~open /\ Finish("unanswered") /\ UNCHANGED answers
    /\ UNCHANGED <<scene, status, httpVars, posting, accepted, receiptVars>>
-----------------------------------------------------------------------------
LoopStep ==
    \/ \E n \in scene.reads : ReadMessages(n)
    \/ ReadEof \/ ProcessBad \/ ProcessEnquireLink \/ ProcessOther \/ HandleDeliverSm \/ SendAnswer

OtherReceiptStep ==
    /\ \/ ReceiptTick /\ scene.registers # {}
       \/ \E g \in scene.registers : RegisterStep(g)
       \/ \E i \in MsgIds : RemoveReceiptInfo(i)
    /\ UNCHANGED <<scene, readVars, pc, status, httpVars, posting, historyVars>>

Next ==
    \/ LoopStep \/ InactiveTick \/ SendEnquireLink
    \/ HttpAnswers \/ HttpAnswersNoJson \/ HttpFails \/ \E k \in posting : PostEnds(k)
    \/ SmscCloses \/ SmscStalls \/ OtherReceiptStep

Spec == Init /\ [][Next]_vars

(***************************************************************************)
(* The loop takes its steps: weak fairness of LoopStep, with LoopReady for *)
(* ENABLED LoopStep, which would decode the stream once more in every      *)
(* state, and without the writes to an SMSC that reads no more. The HTTP   *)
(* servers owe nothing: no timeout ends the wait for them.                 *)
(***************************************************************************)
LoopReady ==
    \/ pc = "read" /\ (wire # <<>> \/ ~open)
    \/ pc = "process"
    \/ pc = "answer" /\ (~stalled \/ ~open)

FairSpec == Spec /\ ([]<>~LoopReady \/ []<><<LoopStep>>_vars)
-----------------------------------------------------------------------------
(***************************************************************************)
(* Properties.                                                             *)
(***************************************************************************)

\* Every variable keeps its type; the loop never has more messages than the SMSC has sent,
\* and never asks a URL a second time for one message.
TypeOK ==
    /\ open \in BOOLEAN /\ stalled \in BOOLEAN /\ received \in BOOLEAN
    /\ \A i \in DOMAIN buffer : buffer[i] \in Bytes
    /\ Len(outcome) + Len(messages) <= Len(scene.pdus)
    /\ pc \in {"read", "process", "http", "answer", "enquire", "spin", "ended"}
    /\ status \in Statuses \cup {0, SysErr}
    /\ pc = "http" => handler \in DOMAIN scene.handlers /\ tries < scene.handlers[handler].urls
    /\ next_index \in [DOMAIN scene.handlers -> Nat]
    /\ posting \subseteq DOMAIN outcome
    /\ ReceiptTypeOK

SameMessage(sent, got) ==
    /\ got.command = sent.command /\ got.status = sent.status /\ got.sequence = sent.sequence
    /\ DOMAIN got.fields = DOMAIN sent.fields \cup ToSet(FieldsOf(sent.command))
    /\ \A f \in DOMAIN got.fields :
          LET v == got.fields[f]
          IN  IF f \notin DOMAIN sent.fields THEN v \in DefaultOf(sent.command, f)
              ELSE IF Is("base64", v) THEN v.base64 = OctetsOf(sent.fields[f])
                                      ELSE v = sent.fields[f]

\* The messages come out of the stream as the SMSC sent them, field by field and in order,
\* however the reads cut the stream and whatever came before them: a message that cannot
\* be decoded spoils no other.
FramesIntact ==
    \A i \in DOMAIN outcome :
        scene.pdus[i].extra = <<>> /\ Carried(scene.pdus[i]) =>
            \E got \in outcome[i].got : SameMessage(scene.pdus[i], got)

\* A deliver_sm or data_sm is answered once, by the response to it, with its own sequence
\* number. The status is the one that a server of the first handler for its destination has
\* named, as far as the code can read it, or it is a failure and no such answer has come:
\* success is never made up. A second server takes the message only if the answers of those
\* before it were no JSON.
OkMeansAccepted ==
    /\ \A a, b \in ToSet(answers) : a.pos = b.pos => a = b
    /\ \A i, j \in DOMAIN accepted :
          i < j /\ accepted[i].pos = accepted[j].pos => accepted[i].says = {}
    /\ \A a \in ToSet(answers) :
          LET m == scene.pdus[a.pos]
              asked == {x \in ToSet(accepted) : x.pos = a.pos}
          IN  \E r \in ToJson(a.pdu) :
                 /\ r.command = ResponseOf(m.command) /\ r.sequence = m.sequence
                 /\ m.command \in Deliveries =>
                       \/ \E x \in asked : /\ x.handler \in HandlersFor(m)
                                           /\ \E reply \in x.says : r.status = Num(StatusOf(reply))
                       \/ r.status = Num(SysErr) /\ \A x \in asked : x.says = {}

Awaited(i) == IF i \in DOMAIN scene.pdus THEN scene.pdus[i].command \in Deliveries ELSE FALSE
Settled(i) == IF i \in DOMAIN outcome THEN outcome[i].what # "unanswered" ELSE FALSE

\* What may keep the loop from a message for ever: an HTTP server that does not answer, an
\* SMSC that does not read, a length of 0, the end of the session by the inactive timer, and
\* no read to follow a message that came with the response to the bind.
Held ==
    \/ pc \in {"http", "enquire", "spin", "ended"}
    \/ pc = "answer" /\ stalled
    \/ pc = "read" /\ wire = <<>> /\ Extract(buffer) # {}

\* Every deliver_sm or data_sm is answered, posted as a receipt or found not to be decoded,
\* unless the SMSC closes the connection or the loop is held for ever.
EverySettled ==
    \A i \in 1 .. MaxPdus : Awaited(i) => (<>(Settled(i) \/ ~open) \/ <>[]Held)
=============================================================================
