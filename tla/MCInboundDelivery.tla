-------------------------- MODULE MCInboundDelivery --------------------------
(***************************************************************************)
(* The scenes: every command and every TLV once, with all its fields; a    *)
(* stream cut by the reads, with messages that cannot be decoded; the HTTP *)
(* handlers; receipts and registrations; an SMSC that stalls, messages     *)
(* that come with the response to the bind, timers, a length of 0.         *)
(***************************************************************************)
EXTENDS InboundDelivery

CONSTANTS i1, i2, i3, g1, g2, g3

MCRegOf ==
    [g \in Registrations |->
        CASE g = g1 -> [id |-> i1, registered_delivery |-> 5]     \* receipt and acknowledgement
          [] g = g2 -> [id |-> i2, registered_delivery |-> 17]    \* receipt and notification
          [] g = g3 -> [id |-> i2, registered_delivery |-> 0]]

MCIdOfText == (<<49>> :> i1) @@ (<<50>> :> i2) @@ (<<51>> :> i3)

\* A value for each codec.
Sample(c) ==
    CASE c.kind = "uint" -> Num(CASE c.width = 1 -> 200 [] c.width = 2 -> 513 [] OTHER -> 16909060)
      [] c.kind = "optional" -> Num(1)
      [] c.kind = "varint" -> Num(86)
      [] c.kind = "cstring" -> Text(<<65, 66>>)
      [] c.kind = "octets" -> Base64(<<1, 0, 255>>)
      [] c.kind = "dests" -> Arr(<<[dest_addr_ton |-> Num(1), dest_addr_npi |-> Num(2),
                                    destination_addr |-> Text(<<66>>)],
                                   [dl_name |-> Text(<<76, 49>>)]>>)
      [] c.kind = "smes" -> Arr(<<[dest_addr_ton |-> Num(1), dest_addr_npi |-> Num(2),
                                   destination_addr |-> Text(<<66>>), error_status_code |-> Num(259)]>>)

Msg(name, seq, fields) ==
    [command |-> [name |-> name, resp |-> FALSE], status |-> Num(0), sequence |-> Num(seq),
     fields |-> fields, extra |-> <<>>]

OfCommand(c) ==
    [command |-> c, status |-> Num(IF c.resp THEN 300 ELSE 0), sequence |-> Num(70000),
     fields |-> [f \in ToSet(FieldsOf(c)) |-> Sample(FieldCodec(f))], extra |-> <<>>]

WithTlv(f) ==
    Msg("alert_notification", 1,
        [g \in {"source_addr", "esme_addr", f} |->
            IF g = f THEN Sample(TlvCodec(f)) ELSE Text(<<65>>)])

\* One deliver_sm to an address, as short as it can be; all other fields by default.
ToAddr(name, seq, dest) ==
    Msg(name, seq, [f \in {"destination_addr"} \cup IF name = "deliver_sm" THEN {"short_message"} ELSE {} |->
                       IF f = "short_message" THEN Text(<<72>>) ELSE Text(<<dest>>)])
With(m, fields) == [m EXCEPT !.fields = fields @@ @]

Scene(pdus, handlers, reads, closes, registers) ==
    [pdus |-> pdus, tail |-> <<>>, handlers |-> handlers, reads |-> reads, with_bind |-> {0},
     closes |-> closes, stalls |-> FALSE, timers |-> FALSE, registers |-> registers]
Handler(dests, urls, rr) == [dests |-> dests, urls |-> urls, round_robin |-> rr]

\* Messages that do not survive: an empty short_message next to a message_payload, a TLV
\* of the SMSC's own, a country code of two bytes (it is read with its bytes swapped).
Lost == <<With(ToAddr("deliver_sm", 1, 66), [short_message |-> Text(<<>>), message_payload |-> Base64(<<9>>)]),
          [ToAddr("deliver_sm", 2, 66) EXCEPT !.extra = <<20, 0, 0, 1, 7>>],
          With(ToAddr("data_sm", 3, 66), [dest_addr_np_country |-> Num(258)])>>

Receipt(seq, esm, id) ==
    With(ToAddr("data_sm", seq, 66), [esm_class |-> Num(esm), receipted_message_id |-> Text(<<id>>)])

\* A header whose length is 0.
LengthZero == [i \in 1 .. 16 |-> 0]

\* Success, a failure, a number beyond 32 bits, the failure 8 as a string.
MCReplies == {[high |-> 0, low |-> 0], [high |-> 0, low |-> 20], [high |-> 1, low |-> 0], Text(<<56>>)}

MCScenes ==
       {Scene(<<OfCommand(c)>>, <<>>, {1024}, FALSE, {}) : c \in Commands}
  \cup {Scene(<<WithTlv(f)>>, <<>>, {1024}, FALSE, {}) : f \in DOMAIN TlvTags}
  \cup {Scene(<<With(ToAddr("deliver_sm", 1, 66), [source_port |-> Num(7), user_response_code |-> Num(3)]),
                Msg("enquire_link", 2, <<>>), ToAddr("deliver_sm", 3, 66)>>,
              <<Handler({}, 1, TRUE)>>, {1, 17, 40}, TRUE, {}),
        Scene(Lost \o <<ToAddr("deliver_sm", 4, 66)>>, <<Handler({}, 1, FALSE)>>, {23, 1024}, FALSE, {}),
        Scene(<<ToAddr("deliver_sm", 1, 66), ToAddr("data_sm", 2, 67), ToAddr("deliver_sm", 3, 66),
                ToAddr("deliver_sm", 4, 68)>>,
              <<Handler({<<66>>}, 2, TRUE), Handler({<<66>>, <<67>>}, 3, FALSE), Handler({<<68>>}, 0, FALSE)>>,
              {1024}, FALSE, {}),
        Scene(<<Receipt(1, 8, 49), Receipt(2, 4, 49), Receipt(3, 4, 51)>>,
              <<Handler({}, 1, TRUE)>>, {1024}, FALSE, {g1}),
        Scene(<<Receipt(1, 32, 50), Receipt(2, 12, 49)>>, <<>>, {1024}, FALSE, {g1, g2, g3}),
        [Scene(<<ToAddr("deliver_sm", 1, 66), Msg("enquire_link", 2, <<>>), ToAddr("data_sm", 3, 66)>>,
               <<Handler({}, 1, TRUE)>>, {30, 1024}, TRUE, {})
            EXCEPT !.with_bind = {0, 60, 1024}, !.stalls = TRUE, !.timers = TRUE],
        [Scene(<<ToAddr("deliver_sm", 1, 66), ToAddr("data_sm", 2, 66)>>,
               <<Handler({}, 1, FALSE)>>, {30, 1024}, FALSE, {})
            EXCEPT !.with_bind = {0, 1024}, !.stalls = TRUE],
        [Scene(<<ToAddr("deliver_sm", 1, 66), ToAddr("data_sm", 2, 66)>>,
               <<Handler({}, 1, FALSE)>>, {30, 1024}, FALSE, {})
            EXCEPT !.with_bind = {0, 1024}, !.tail = LengthZero]}
=============================================================================
