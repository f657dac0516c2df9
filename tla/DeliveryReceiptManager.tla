----------------------- MODULE DeliveryReceiptManager -----------------------
(***************************************************************************)
(* DeliveryReceiptManager: where the receipts of a message are to be sent. *)
(*                                                                         *)
(* Callers register the URL of a message with the receipts it asked for    *)
(* (nothing in the program does yet), the read loops of the connections    *)
(* look it up. One mutex guards the entries and one the time of the next   *)
(* clean-up; a registration takes them one after the other. The esm_class  *)
(* that an entry collects is read by a log line only and left out.         *)
(***************************************************************************)
EXTENDS Integers

CONSTANTS
    MsgIds,          \* message ids
    Registrations,   \* calls of register_receipt_url
    RegOf,           \* their arguments: id and registered_delivery
    Lifetime,        \* the hour an entry lives
    CleanEvery,      \* the five minutes between two clean-ups
    MaxTime          \* bound: the clock

Bytes == 0 .. 255

ASSUME ReceiptAssumption ==
    /\ RegOf \in [Registrations -> [id : MsgIds, registered_delivery : Bytes]]
    /\ Lifetime \in Nat \ {0} /\ CleanEvery \in Nat \ {0} /\ MaxTime \in Nat

VARIABLES
    now,              \* the clock
    receipt_urls,     \* ids with an entry
    wanted,           \* the receipts their entries ask for
    expires,          \* when they expire
    next_clean_time,
    gpc,              \* where each registration is
    gnow,             \* the time it has read
    owed              \* history: receipts asked for and not seen since

receiptVars == <<now, receipt_urls, wanted, expires, next_clean_time, gpc, gnow, owed>>

ReceiptKinds == {"receipt", "intermediate", "ack"}

Bit(byte, b) == (byte \div b) % 2 = 1

\* RegisteredDelivery::from_u8: what a registered_delivery asks for. It does not matter
\* for which outcome a receipt is wanted, nor which of the two acknowledgements.
Wanted(byte) ==
    {k \in ReceiptKinds : \/ k = "receipt" /\ (Bit(byte, 1) \/ Bit(byte, 2))
                          \/ k = "ack" /\ (Bit(byte, 4) \/ Bit(byte, 8))
                          \/ k = "intermediate" /\ Bit(byte, 16)}

\* EsmClass::from_u8: what an esm_class says a message is. Both bits of the message type
\* together are no type, both of the acknowledgement no acknowledgement.
Brought(byte) ==
    {k \in ReceiptKinds : \/ k = "receipt" /\ Bit(byte, 4) /\ ~Bit(byte, 32)
                          \/ k = "intermediate" /\ Bit(byte, 32) /\ ~Bit(byte, 4)
                          \/ k = "ack" /\ Bit(byte, 8) # Bit(byte, 16)}

ReceiptInit ==
    /\ now = 1 /\ next_clean_time = 1 + CleanEvery
    /\ receipt_urls = {}
    /\ wanted = [i \in MsgIds |-> {}] /\ expires = [i \in MsgIds |-> 0]
    /\ gpc = [g \in Registrations |-> "idle"] /\ gnow = [g \in Registrations |-> 0]
    /\ owed = [i \in MsgIds |-> {}]

ReceiptTick ==
    /\ now < MaxTime
    /\ now' = now + 1
    /\ UNCHANGED <<receipt_urls, wanted, expires, next_clean_time, gpc, gnow, owed>>
-----------------------------------------------------------------------------
(***************************************************************************)
(* register_receipt_url.                                                   *)
(***************************************************************************)

\* Nothing is done if no receipt is asked for; otherwise the clean-up may be due.
RegisterStart(g) ==
    /\ gpc[g] = "idle"
    /\ gnow' = [gnow EXCEPT ![g] = now]
    /\ \/ /\ Wanted(RegOf[g].registered_delivery) = {}
          /\ gpc' = [gpc EXCEPT ![g] = "done"]
          /\ UNCHANGED next_clean_time
       \/ /\ Wanted(RegOf[g].registered_delivery) # {} /\ next_clean_time > now
          /\ gpc' = [gpc EXCEPT ![g] = "insert"]
          /\ UNCHANGED next_clean_time
       \/ /\ Wanted(RegOf[g].registered_delivery) # {} /\ next_clean_time <= now
          /\ gpc' = [gpc EXCEPT ![g] = "clean"]
          /\ next_clean_time' = now + CleanEvery
    /\ UNCHANGED <<now, receipt_urls, wanted, expires, owed>>

\* clean_expired_entries, by the time read before.
RegisterClean(g) ==
    /\ gpc[g] = "clean"
    /\ receipt_urls' = {i \in receipt_urls : expires[i] > gnow[g]}
    /\ gpc' = [gpc EXCEPT ![g] = "insert"]
    /\ UNCHANGED <<now, wanted, expires, next_clean_time, gnow, owed>>

\* The entry replaces one of the same id.
RegisterInsert(g) ==
    /\ gpc[g] = "insert"
    /\ LET r == RegOf[g]
       IN  /\ receipt_urls' = receipt_urls \cup {r.id}
           /\ wanted' = [wanted EXCEPT ![r.id] = Wanted(r.registered_delivery)]
           /\ owed' = [owed EXCEPT ![r.id] = Wanted(r.registered_delivery)]
           /\ expires' = [expires EXCEPT ![r.id] = now + Lifetime]
    /\ gpc' = [gpc EXCEPT ![g] = "done"]
    /\ UNCHANGED <<now, next_clean_time, gnow>>

RegisterStep(g) == RegisterStart(g) \/ RegisterClean(g) \/ RegisterInsert(g)
-----------------------------------------------------------------------------
(***************************************************************************)
(* get_receipt_url for a message of an esm_class, and remove_receipt_info. *)
(***************************************************************************)

\* The URL is given out until the entry expires.
HasUrl(i) == i \in receipt_urls /\ expires[i] > now

\* Fault: an entry goes with the first receipt it asks for.
GetReceiptUrlFirst(i, byte) ==
    /\ receipt_urls' = IF i \in receipt_urls /\ wanted[i] \cap Brought(byte) # {}
                       THEN receipt_urls \ {i} ELSE receipt_urls
    /\ owed' = [owed EXCEPT ![i] = @ \ Brought(byte)]
    /\ UNCHANGED <<now, wanted, expires, next_clean_time, gpc, gnow>>

\* The entry goes with a message that brings all it asks for at once.
GetReceiptUrl(i, byte) ==
    /\ receipt_urls' = IF wanted[i] \subseteq Brought(byte) THEN receipt_urls \ {i} ELSE receipt_urls
    /\ owed' = [owed EXCEPT ![i] = @ \ Brought(byte)]
    /\ UNCHANGED <<now, wanted, expires, next_clean_time, gpc, gnow>>

RemoveReceiptInfo(i) ==
    /\ i \in receipt_urls
    /\ receipt_urls' = receipt_urls \ {i}
    /\ owed' = [owed EXCEPT ![i] = {}]
    /\ UNCHANGED <<now, wanted, expires, next_clean_time, gpc, gnow>>

ReceiptNext ==
    \/ ReceiptTick
    \/ \E g \in Registrations : RegisterStep(g)
    \/ \E i \in MsgIds : RemoveReceiptInfo(i) \/ \E byte \in Bytes : GetReceiptUrl(i, byte)

ReceiptSpec == ReceiptInit /\ [][ReceiptNext]_receiptVars
-----------------------------------------------------------------------------
\* Every variable keeps its type.
ReceiptTypeOK ==
    /\ now \in Nat /\ next_clean_time \in Nat
    /\ receipt_urls \subseteq MsgIds
    /\ wanted \in [MsgIds -> SUBSET ReceiptKinds] /\ owed \in [MsgIds -> SUBSET ReceiptKinds]
    /\ expires \in [MsgIds -> Nat]
    /\ gpc \in [Registrations -> {"idle", "clean", "insert", "done"}]
    /\ gnow \in [Registrations -> Nat]

\* While a receipt that was asked for is still to come and the hour is not over, its URL
\* is there: no other receipt, no clean-up of another registration and no late entry has
\* taken it away.
OwedIsRegistered ==
    \A i \in MsgIds : owed[i] # {} /\ expires[i] > now => i \in receipt_urls
=============================================================================
