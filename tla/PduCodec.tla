------------------------------ MODULE PduCodec ------------------------------
(***************************************************************************)
(* The field codecs of field_codec.rs and the reading and writing of bytes *)
(* in message.rs that they rest on.                                        *)
(*                                                                         *)
(* A PDU is a sequence of bytes. A JSON value is a record that tells its   *)
(* kind: [num |-> n], [text |-> bytes], [base64 |-> bytes] for a string    *)
(* that is the base64 text of the bytes, [arr |-> values], [null |-> TRUE].*)
(* An object is a function from field names to values. Text is ASCII.      *)
(*                                                                         *)
(* An encoder returns the set of the byte sequences it may write, a        *)
(* decoder the set of what it may read, [value, rest]: {} is an error.     *)
(* More than one encoding stands for the order of a hash map.              *)
(***************************************************************************)
EXTENDS Integers, Sequences, FiniteSets, SequencesExt

Num(n) == [num |-> n]
Text(s) == [text |-> s]
Base64(b) == [base64 |-> b]
Arr(s) == [arr |-> s]
Null == [null |-> TRUE]
Is(kind, v) == kind \in DOMAIN v

Drop(b, n) == SubSeq(b, n + 1, Len(b))
Take(b, n) == SubSeq(b, 1, n)

\* An object with the value v of f put in.
Put(object, f, v) == [g \in {f} \cup DOMAIN object |-> IF g = f THEN v ELSE object[g]]
-----------------------------------------------------------------------------
(***************************************************************************)
(* Primitives of message.rs.                                               *)
(***************************************************************************)

Powers == <<1, 256, 65536, 16777216>>      \* of 256

\* write_u8, write_u16, write_u32: what does not fit is cut off.
BigEndian(n, w) == [i \in 1 .. w |-> (n \div Powers[w - i + 1]) % 256]

FromBigEndian(b) ==
    LET num[k \in 0 .. Len(b)] == IF k = 0 THEN 0 ELSE 256 * num[k - 1] + b[k]
    IN  num[Len(b)]

ReadUint(b, w) ==
    IF Len(b) < w THEN {} ELSE {[value |-> Num(FromBigEndian(Take(b, w))), rest |-> Drop(b, w)]}

\* read, with the base64 encoding of what was read: no bytes at all cannot be read.
Read(b, n) ==
    IF n = 0 \/ Len(b) < n THEN {} ELSE {[value |-> Base64(Take(b, n)), rest |-> Drop(b, n)]}

ReadCOctetStr(b) ==
    LET end == SelectInSeq(b, LAMBDA x : x = 0)
    IN  IF end = 0 THEN {} ELSE {[value |-> Text(Take(b, end - 1)), rest |-> Drop(b, end)]}

\* The value bytes of a TLV, {} if it has none, and what follows it: the tag is used up
\* in any case, the length if it is there.
ReadTlv(b) ==
    LET body == Drop(b, 2)
        len  == ReadUint(body, 2)
        val  == UNION {Read(l.rest, l.value.num) : l \in len}
    IN  [found |-> {x.value.base64 : x \in val},
         rest  |-> IF val # {} THEN (CHOOSE x \in val : TRUE).rest
                               ELSE Drop(body, IF len = {} THEN 0 ELSE 2)]
-----------------------------------------------------------------------------
(***************************************************************************)
(* Field codecs.                                                           *)
(***************************************************************************)
U8  == [kind |-> "uint", width |-> 1]
U16 == [kind |-> "uint", width |-> 2]
U32 == [kind |-> "uint", width |-> 4]
OptionalU8(n) == [kind |-> "optional", default |-> n]
VarLengthInt == [kind |-> "varint"]
COctetStr(n) == [kind |-> "cstring", max |-> n]
OctetStr(w) == [kind |-> "octets", length_bytes |-> w]     \* 0: no length
DestAddresses == [kind |-> "dests"]
UnsuccessSmes == [kind |-> "smes"]

\* The bytes of a number, the low ones first and no more than it has (four at most: the
\* numbers of the model are below 2^32).
LowFirst(n) ==
    LET w == CHOOSE w \in 0 .. 4 : /\ w > 0 => n \div Powers[w] > 0
                                   /\ w < 4 => n \div Powers[w + 1] = 0
    IN  [i \in 1 .. w |-> (n \div Powers[i]) % 256]

\* An octet string: what is no base64 is taken as it is.
OctetsOf(v) == IF Is("base64", v) THEN v.base64 ELSE v.text

\* The codecs that hold no others.
EncodeFlat(c, v) ==
    CASE c.kind = "uint" /\ Is("num", v) -> {BigEndian(v.num, c.width)}
      [] c.kind = "optional" -> {BigEndian(IF Is("num", v) THEN v.num ELSE c.default, 1)}
      [] c.kind = "varint" /\ Is("num", v) -> {LowFirst(v.num)}
      [] c.kind = "cstring" /\ Is("text", v) ->
            {(IF Len(v.text) > c.max THEN Take(v.text, c.max) ELSE v.text) \o <<0>>}
      [] c.kind = "octets" /\ (Is("text", v) \/ Is("base64", v)) ->
            {BigEndian(Len(OctetsOf(v)), c.length_bytes) \o OctetsOf(v)}
      [] OTHER -> {}

DecodeFlat(c, b) ==
    CASE c.kind = "uint" -> ReadUint(b, c.width)
      [] c.kind = "optional" ->
            IF b = <<>> THEN {[value |-> Num(c.default), rest |-> b]} ELSE ReadUint(b, 1)
      [] c.kind = "varint" -> {[value |-> Num(FromBigEndian(b)), rest |-> <<>>]}
      [] c.kind = "cstring" -> ReadCOctetStr(b)
      [] c.kind = "octets" /\ c.length_bytes = 0 -> Read(b, Len(b))
      [] c.kind = "octets" /\ c.length_bytes > 0 ->
            UNION {Read(l.rest, l.value.num) : l \in ReadUint(b, c.length_bytes)}

\* One encoder after the other; an error of one is an error of all.
ConcatAll(encodings) ==
    LET cat[k \in 0 .. Len(encodings)] ==
            IF k = 0 THEN {<<>>} ELSE {a \o b : a \in cat[k - 1], b \in encodings[k]}
    IN  cat[Len(encodings)]

\* The members of an address; only the codec of unsuccess_smes cuts destination_addr.
SmeFields == <<"dest_addr_ton", "dest_addr_npi", "destination_addr", "error_status_code">>
MemberCodec(f) ==
    CASE f \in {"destination_addr", "dl_name"} -> COctetStr(21)
      [] f = "error_status_code" -> U32
      [] OTHER -> U8

\* An object with its next member, decoded from what the others have left.
Start(b) == {[value |-> <<>>, rest |-> b]}
Then(objects, f) ==
    UNION {{[value |-> Put(a.value, f, x.value), rest |-> x.rest] :
                x \in DecodeFlat(MemberCodec(f), a.rest)} : a \in objects}

\* A missing type of number or plan is 0; the address is not cut.
EncodeDest(d) ==
    LET NumOr0(f) == IF f \in DOMAIN d THEN IF Is("num", d[f]) THEN d[f].num ELSE 0 ELSE 0
        HasText(f) == IF f \in DOMAIN d THEN Is("text", d[f]) ELSE FALSE
    IN  CASE HasText("destination_addr") ->
                {<<1>> \o BigEndian(NumOr0("dest_addr_ton"), 1) \o BigEndian(NumOr0("dest_addr_npi"), 1)
                     \o d["destination_addr"].text \o <<0>>}
          [] ~HasText("destination_addr") /\ HasText("dl_name") ->
                {<<2>> \o d["dl_name"].text \o <<0>>}
          [] OTHER -> {}

DecodeDest(b) ==
    UNION {CASE l.value.num = 1 ->
                   Then(Then(Then(Start(l.rest), "dest_addr_ton"), "dest_addr_npi"), "destination_addr")
             [] l.value.num = 2 -> Then(Start(l.rest), "dl_name")
             [] OTHER -> {} : l \in ReadUint(b, 1)}

EncodeSme(d) ==
    ConcatAll([i \in DOMAIN SmeFields |->
        LET f == SmeFields[i] IN IF f \in DOMAIN d THEN EncodeFlat(MemberCodec(f), d[f]) ELSE {}])
DecodeSme(b) ==
    Then(Then(Then(Then(Start(b), SmeFields[1]), SmeFields[2]), SmeFields[3]), SmeFields[4])

\* An array is its length in a byte and its items, one after the other. Only the array
\* codec of unsuccess_smes refuses more than 255 of them.
EncodeArray(c, s) ==
    ConcatAll(<<{BigEndian(Len(s), 1)}>>
        \o [i \in DOMAIN s |-> IF c = DestAddresses THEN EncodeDest(s[i]) ELSE EncodeSme(s[i])])

DecodeItem(c, b) == IF c = DestAddresses THEN DecodeDest(b) ELSE DecodeSme(b)

DecodeItems(c, n, b) ==
    LET items[k \in 0 .. n] ==
            IF k = 0 THEN {[value |-> <<>>, rest |-> b]}
            ELSE UNION {{[value |-> Append(a.value, x.value), rest |-> x.rest] :
                             x \in DecodeItem(c, a.rest)} : a \in items[k - 1]}
    IN  items[n]

DecodeArray(c, b) ==
    {[value |-> Arr(x.value), rest |-> x.rest] :
        x \in UNION {DecodeItems(c, l.value.num, l.rest) : l \in ReadUint(b, 1)}}

Encode(c, v) ==
    CASE c.kind \in {"dests", "smes"} ->
            IF ~Is("arr", v) THEN {}
            ELSE IF c = UnsuccessSmes /\ Len(v.arr) > 255 THEN {} ELSE EncodeArray(c, v.arr)
      [] OTHER -> EncodeFlat(c, v)

Decode(c, b) ==
    IF c.kind \in {"dests", "smes"} THEN DecodeArray(c, b) ELSE DecodeFlat(c, b)
=============================================================================
