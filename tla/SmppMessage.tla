----------------------------- MODULE SmppMessage -----------------------------
(***************************************************************************)
(* SMPPMessage and SmppMessageBuffer of message.rs: the tables of commands *)
(* and fields, from_json, to_json and extract_message.                     *)
(*                                                                         *)
(* A command is [name, resp]: a response has the id of its request with    *)
(* the top bit set, and generic_nack is the response of none. A message is *)
(* [command, status, sequence, fields].                                    *)
(***************************************************************************)
EXTENDS PduCodec

HeaderLength == 16      \* SMPP_HEADER_LENGTH

\* The ids of command_ids.rs.
CommandIds ==
    [none |-> 0, bind_receiver |-> 1, bind_transmitter |-> 2, query_sm |-> 3, submit_sm |-> 4,
     deliver_sm |-> 5, unbind |-> 6, replace_sm |-> 7, cancel_sm |-> 8, bind_transceiver |-> 9,
     outbind |-> 11, enquire_link |-> 21, submit_multi |-> 33, alert_notification |-> 258,
     data_sm |-> 259, broadcast_sm |-> 273, query_broadcast_sm |-> 274,
     cancel_broadcast_sm |-> 275]

\* The top bit tells a response.
CommandId(c) == <<IF c.resp THEN 128 ELSE 0>> \o BigEndian(CommandIds[c.name], 3)
-----------------------------------------------------------------------------
(***************************************************************************)
(* FIELD_CODECS.                                                           *)
(***************************************************************************)
COctetStrFields ==
    [system_id |-> 16, password |-> 9, system_type |-> 13, address_range |-> 41,
     service_type |-> 6, source_addr |-> 21, destination_addr |-> 21,
     schedule_delivery_time |-> 17, validity_period |-> 17, message_id |-> 65,
     final_date |-> 17, dl_name |-> 21, esme_addr |-> 65]

\* Every other field is a byte.
FieldCodec(f) ==
    CASE f \in DOMAIN COctetStrFields -> COctetStr(COctetStrFields[f])
      [] f = "short_message"  -> OctetStr(1)
      [] f = "dest_addresses" -> DestAddresses
      [] f = "unsuccess_smes" -> UnsuccessSmes
      [] OTHER -> U8

(***************************************************************************)
(* create_tlv_fields: the tags of each kind of value.                      *)
(***************************************************************************)
TlvU8 ==
    [broadcast_area_success |-> \h608, broadcast_channel_indicator |-> \h600,
     broadcast_message_class |-> \h603, callback_num_pres_ind |-> \h302,
     congestion_state |-> \h428, delivery_failure_reason |-> \h425,
     dest_addr_np_resolution |-> \h611, dest_addr_subunit |-> \h5, dest_bearer_type |-> \h7,
     dest_network_type |-> \h6, display_time |-> \h1201, dpf_result |-> \h420,
     its_reply_type |-> \h1380, language_indicator |-> \h20D, message_state |-> \h427,
     more_messages_to_send |-> \h426, ms_availability_status |-> \h422,
     ms_msg_wait_facilities |-> \h30, number_of_messages |-> \h304, payload_type |-> \h19,
     privacy_indicator |-> \h201, sar_segment_seqnum |-> \h20F, sar_total_segments |-> \h20E,
     sc_interface_version |-> \h210, set_dpf |-> \h421, source_addr_subunit |-> \hD,
     source_bearer_type |-> \hF, source_network_type |-> \hE, source_telematics_id |-> \h10,
     user_response_code |-> \h205, ussd_service_op |-> \h501]
TlvOptionalU8 == [alert_on_message_delivery |-> \h130C]
TlvU16 ==
    [broadcast_rep_num |-> \h604, dest_telematics_id |-> \h8, dest_port |-> \h20B,
     sar_msg_ref_num |-> \h20C, sms_signal |-> \h1203, source_port |-> \h20A,
     user_message_reference |-> \h204]
TlvU32 == [broadcast_error_status |-> \h607, qos_time_to_live |-> \h17]
TlvVarLengthInt == [dest_addr_np_country |-> \h613]
TlvCOctetStr ==
    [additional_status_info_text |-> \h1D, broadcast_end_time |-> \h609, dest_network_id |-> \h60E,
     receipted_message_id |-> \h1E, source_network_id |-> \h60D]
TlvCOctetStrMax ==
    [additional_status_info_text |-> 256, broadcast_end_time |-> 16, dest_network_id |-> 65,
     receipted_message_id |-> 65, source_network_id |-> 65]
TlvOctets ==
    [billing_identification |-> \h60B, broadcast_area_identifier |-> \h606,
     broadcast_content_type_info |-> \h602, broadcast_content_type |-> \h601,
     broadcast_frequency_interval |-> \h605, broadcast_service_group |-> \h60A,
     callback_num |-> \h381, callback_num_atag |-> \h303, dest_addr_np_information |-> \h612,
     dest_node_id |-> \h610, dest_subaddress |-> \h203, its_session_info |-> \h1383,
     message_payload |-> \h424, ms_validity |-> \h1204, network_error_code |-> \h423,
     source_node_id |-> \h60F, source_subaddress |-> \h202]

TlvTags ==
    TlvU8 @@ TlvOptionalU8 @@ TlvU16 @@ TlvU32 @@ TlvVarLengthInt @@ TlvCOctetStr @@ TlvOctets

TlvCodec(f) ==
    CASE f \in DOMAIN TlvU8           -> U8
      [] f \in DOMAIN TlvOptionalU8   -> OptionalU8(0)
      [] f \in DOMAIN TlvU16          -> U16
      [] f \in DOMAIN TlvU32          -> U32
      [] f \in DOMAIN TlvVarLengthInt -> VarLengthInt
      [] f \in DOMAIN TlvCOctetStr    -> COctetStr(TlvCOctetStrMax[f])
      [] f \in DOMAIN TlvOctets       -> OctetStr(0)

TlvCodecs == {U8, U16, U32, OptionalU8(0), VarLengthInt, OctetStr(0)} \cup {COctetStr(n) : n \in 0 .. 256}
Tags == {n \in Nat : n < 65536}

\* NAMED_TLV_FIELDS and TAGGED_TLV_FIELDS are two views of one table; a tag has two bytes.
ASSUME TlvAssumption ==
    /\ IsInjective(TlvTags) /\ IsFiniteSet(DOMAIN TlvTags)
    /\ \A f \in DOMAIN TlvTags : TlvTags[f] \in Tags /\ TlvCodec(f) \in TlvCodecs

TlvOfTag(tag) == {f \in DOMAIN TlvTags : TlvTags[f] = tag}
-----------------------------------------------------------------------------
(***************************************************************************)
(* MESSAGE_COMMAND_FIELDS.                                                 *)
(***************************************************************************)
SourceFields == <<"source_addr_ton", "source_addr_npi", "source_addr">>
DestFields   == <<"dest_addr_ton", "dest_addr_npi", "destination_addr">>
TimeFields   == <<"schedule_delivery_time", "validity_period">>
BindFields   == <<"system_id", "password", "system_type", "interface_version", "addr_ton", "addr_npi",
                  "address_range">>
SmFields     == <<"esm_class", "protocol_id", "priority_flag">> \o TimeFields \o
                <<"registered_delivery", "replace_if_present_flag", "data_coding",
                  "sm_default_msg_id", "short_message">>

RequestFields ==
    [bind_transmitter |-> BindFields, bind_receiver |-> BindFields, bind_transceiver |-> BindFields,
     outbind |-> <<"system_id", "password">>, unbind |-> <<>>, enquire_link |-> <<>>,
     alert_notification |-> SourceFields \o <<"esme_addr_ton", "esme_addr_npi", "esme_addr">>,
     submit_sm  |-> <<"service_type">> \o SourceFields \o DestFields \o SmFields,
     deliver_sm |-> <<"service_type">> \o SourceFields \o DestFields \o SmFields,
     submit_multi |-> <<"service_type">> \o SourceFields \o <<"dest_addresses">> \o SmFields,
     data_sm |-> <<"service_type">> \o SourceFields \o DestFields \o
                 <<"esm_class", "registered_delivery", "data_coding">>,
     broadcast_sm |-> <<"service_type">> \o SourceFields \o <<"message_id", "priority_flag">> \o
                      TimeFields \o <<"replace_if_present_flag", "data_coding", "sm_default_msg_id">>,
     cancel_sm |-> <<"service_type", "message_id">> \o SourceFields \o DestFields,
     query_sm |-> <<"message_id">> \o SourceFields,
     replace_sm |-> <<"message_id">> \o SourceFields \o TimeFields \o
                    <<"registered_delivery", "sm_default_msg_id", "short_message">>,
     query_broadcast_sm |-> <<"message_id">> \o SourceFields,
     cancel_broadcast_sm |-> <<"service_type", "message_id">> \o SourceFields]

ResponseFields ==
    [none |-> <<>>, bind_transmitter |-> <<"system_id">>, bind_receiver |-> <<"system_id">>,
     bind_transceiver |-> <<"system_id">>, unbind |-> <<>>, enquire_link |-> <<>>,
     submit_sm |-> <<"message_id">>, deliver_sm |-> <<"message_id">>, data_sm |-> <<"message_id">>,
     submit_multi |-> <<"message_id", "unsuccess_smes">>, broadcast_sm |-> <<"message_id">>,
     cancel_sm |-> <<>>, replace_sm |-> <<>>, cancel_broadcast_sm |-> <<>>,
     query_sm |-> <<"message_id", "final_date", "message_state", "error_code">>,
     query_broadcast_sm |-> <<"message_id", "message_state">>]

FieldTable(resp) == IF resp THEN ResponseFields ELSE RequestFields
Commands == UNION {[name : DOMAIN FieldTable(resp), resp : {resp}] : resp \in BOOLEAN}
FieldsOf(c) == FieldTable(c.resp)[c.name]

FieldCodecs == {U8, OctetStr(1), DestAddresses, UnsuccessSmes} \cup {COctetStr(n) : n \in 0 .. 255}

\* COMMAND_ID_NAMES and MESSAGE_COMMAND_FIELDS: an id belongs to one command, a command
\* has a field once, and a field has one codec.
ASSUME TableAssumption ==
    /\ \A c \in Commands :
          /\ CommandId(c) \in [1 .. 4 -> 0 .. 255]
          /\ \A d \in Commands : CommandId(c) = CommandId(d) => c = d
          /\ FieldsOf(c) \in Seq(STRING) /\ IsInjective(FieldsOf(c))
          /\ \A i \in DOMAIN FieldsOf(c) : FieldCodec(FieldsOf(c)[i]) \in FieldCodecs

\* What a field of a command is if it is not given; {} if it has to be.
DefaultOf(c, f) ==
    CASE \/ f \in {"system_id", "password", "system_type", "address_range", "esme_addr",
                   "short_message", "dest_addresses", "unsuccess_smes", "final_date",
                   "message_state", "error_code"}
         \/ f = "source_addr" /\ c.name = "alert_notification"
         \/ f = "destination_addr" /\ c.name # "cancel_sm"
         \/ f = "message_id" /\ (c.resp \/ c.name \in {"query_sm", "replace_sm"}) -> {}
      [] OTHER -> {CASE f = "interface_version" -> Num(52)
                     [] f \in DOMAIN COctetStrFields -> Text(<<>>)
                     [] OTHER -> Num(0)}
-----------------------------------------------------------------------------
(***************************************************************************)
(* from_json.                                                              *)
(***************************************************************************)

\* A header field that is no number is left out of the PDU.
HeaderField(v) == IF Is("num", v) THEN BigEndian(v.num, 4) ELSE <<>>

EncodeFields(m) ==
    ConcatAll([i \in DOMAIN FieldsOf(m.command) |->
        LET f == FieldsOf(m.command)[i]
        IN  UNION {Encode(FieldCodec(f), v) :
                       v \in IF f \in DOMAIN m.fields THEN {m.fields[f]} ELSE DefaultOf(m.command, f)}])

EncodeTlv(f, v) ==
    {BigEndian(TlvTags[f], 2) \o BigEndian(Len(b), 2) \o b : b \in EncodeFlat(TlvCodec(f), v)}

\* Every field of the message that has the name of a TLV, in the order of a hash map.
EncodeTlvs(m) ==
    UNION {ConcatAll([i \in DOMAIN order |-> EncodeTlv(order[i], m.fields[order[i]])]) :
               order \in SetToSeqs(DOMAIN TlvTags \cap DOMAIN m.fields)}

FromJson(m) ==
    IF m.command \notin Commands THEN {}
    ELSE {BigEndian(Len(b) + 4, 4) \o b :
             b \in ConcatAll(<<{CommandId(m.command) \o HeaderField(m.status) \o HeaderField(m.sequence)},
                               EncodeFields(m), EncodeTlvs(m)>>)}
-----------------------------------------------------------------------------
(***************************************************************************)
(* to_json.                                                                *)
(***************************************************************************)

\* Fault: only the first TLV is read.
DecodeTlvsOne(x) ==
    IF Len(x.rest) < 2 THEN {x}
    ELSE LET tlv == ReadTlv(x.rest)
         IN  {[value |-> Put(x.value, f,
                             (CHOOSE v \in UNION {DecodeFlat(TlvCodec(f), b) : b \in tlv.found} : TRUE).value),
               rest  |-> tlv.rest] : f \in TlvOfTag(FromBigEndian(Take(x.rest, 2)))}

\* The next of the TLVs at the end: one that cannot be decoded is null, one that is not
\* known an error. It is over when less than a tag is left.
NextTlv(a) ==
    IF Len(a.rest) < 2 THEN {a}
    ELSE LET tlv == ReadTlv(a.rest)
         IN  {LET vs == UNION {DecodeFlat(TlvCodec(f), b) : b \in tlv.found}
              IN  [value |-> Put(a.value, f, IF vs = {} THEN Null ELSE (CHOOSE v \in vs : TRUE).value),
                   rest  |-> tlv.rest] :
                 f \in TlvOfTag(FromBigEndian(Take(a.rest, 2)))}

DecodeTlvs(x) ==
    LET tlvs[k \in 0 .. Len(x.rest) \div 2] ==
            IF k = 0 THEN {x} ELSE UNION {NextTlv(a) : a \in tlvs[k - 1]}
    IN  tlvs[Len(x.rest) \div 2]

\* The fields of a command, one after the other.
DecodeFields(names, b) ==
    LET object[k \in 0 .. Len(names)] ==
            IF k = 0 THEN {[value |-> <<>>, rest |-> b]}
            ELSE UNION {{[value |-> Put(a.value, names[k], x.value), rest |-> x.rest] :
                             x \in Decode(FieldCodec(names[k]), a.rest)} : a \in object[k - 1]}
    IN  object[Len(names)]

\* The body of a PDU.
DecodeBody(c, b) == UNION {DecodeTlvs(x) : x \in DecodeFields(FieldsOf(c), b)}

ToJson(pdu) ==
    IF Len(pdu) < HeaderLength THEN {}
    ELSE UNION {{[command  |-> c,
                  status   |-> Num(FromBigEndian(SubSeq(pdu, 9, 12))),
                  sequence |-> Num(FromBigEndian(SubSeq(pdu, 13, 16))),
                  fields   |-> x.value] : x \in DecodeBody(c, Drop(pdu, HeaderLength))} :
                c \in {d \in Commands : CommandId(d) = SubSeq(pdu, 5, 8)}}
-----------------------------------------------------------------------------
(***************************************************************************)
(* SmppMessageBuffer. A length below that of a header is taken, too; with  *)
(* a length of 0, nothing is taken and the same can be taken again.        *)
(***************************************************************************)
\* Fault: a message is taken once the next one has begun.
ExtractLate(buffer) ==
    LET n == FromBigEndian(Take(buffer, 4))
    IN  IF Len(buffer) < HeaderLength \/ Len(buffer) <= n THEN {}
        ELSE {[pdu |-> Take(buffer, n), rest |-> Drop(buffer, n)]}

Extract(buffer) ==
    LET n == FromBigEndian(Take(buffer, 4))
    IN  IF Len(buffer) < HeaderLength \/ Len(buffer) < n THEN {}
        ELSE {[pdu |-> Take(buffer, n), rest |-> Drop(buffer, n)]}

\* All messages that are complete, and what is left: one after the other is taken out.
ExtractNext(a) ==
    IF Extract(a.rest) = {} THEN {a}
    ELSE {[pdus |-> Append(a.pdus, x.pdu), rest |-> x.rest] : x \in Extract(a.rest)}

ExtractAll(buffer) ==
    LET taken[k \in 0 .. Len(buffer) \div HeaderLength] ==
            IF k = 0 THEN {[pdus |-> <<>>, rest |-> buffer]}
            ELSE UNION {ExtractNext(a) : a \in taken[k - 1]}
    IN  taken[Len(buffer) \div HeaderLength]
=============================================================================
