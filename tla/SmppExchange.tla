---------------------------- MODULE SmppExchange ----------------------------
(***************************************************************************)
(* What one call of SmscConnection::send_message promises its caller,      *)
(* with the connection, the lock and the sequence numbers left out: the    *)
(* PDU is written at most once, a response is returned only if the PDU was *)
(* written and answered, and a call that has ended never changes.          *)
(***************************************************************************)
CONSTANT Calls      \* calls of send_message

VARIABLES
    status,         \* where each call is
    written,        \* calls whose PDU was written to the SMSC
    answered        \* calls whose response was handed to its callback

vars == <<status, written, answered>>

Pending == {c \in Calls : status[c] = "pending"}

Init ==
    /\ status = [c \in Calls |-> "idle"]
    /\ written = {}
    /\ answered = {}

\* The caller calls send_message.
Begin(c) ==
    /\ status[c] = "idle"
    /\ status' = [status EXCEPT ![c] = "pending"]
    /\ UNCHANGED <<written, answered>>

\* The PDU goes out, once.
Write(c) ==
    /\ c \in Pending \ written
    /\ written' = written \cup {c}
    /\ UNCHANGED <<status, answered>>

\* A response arrives, possibly after the caller has given up.
Answer(c) ==
    /\ c \in written \ answered
    /\ answered' = answered \cup {c}
    /\ UNCHANGED <<status, written>>

\* The response is returned.
Return(c) ==
    /\ c \in Pending \cap answered
    /\ status' = [status EXCEPT ![c] = "ok"]
    /\ UNCHANGED <<written, answered>>

\* The call fails, before or after the PDU was written, or its caller goes away.
Fail(c, outcome) ==
    /\ c \in Pending
    /\ status' = [status EXCEPT ![c] = outcome]
    /\ UNCHANGED <<written, answered>>

Next ==
    \E c \in Calls :
        \/ Begin(c) \/ Write(c) \/ Answer(c) \/ Return(c)
        \/ \E outcome \in {"error", "cancelled"} : Fail(c, outcome)

Spec == Init /\ [][Next]_vars
=============================================================================
