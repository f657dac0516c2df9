-------------------- MODULE MCSmscServerConnection --------------------
(***************************************************************************)
(* Clients A and B; both are bound for address a, B for b as well. http is *)
(* an address of the message handler.                                      *)
(***************************************************************************)
EXTENDS SmscServerConnection

CONSTANTS A, B, a, b, http, s1, s2, s3, s4, s5, m1, d1, d2, d3, q1, q2, q3

MCRange == [c \in Conns |-> IF c = A THEN {a} ELSE {a, b}]

Job(from, command, mode, dests) ==
    [from |-> from, command |-> command, mode |-> mode, dests |-> dests]

MCLoad ==
    [s \in Submits |->
        CASE s = s1 -> Job(A, "submit_sm", "transaction", <<b>>)
          [] s = s2 -> Job(B, "submit_sm", "transaction", <<a>>)
          [] s = s3 -> Job(A, "submit_multi", "transaction", <<b, http>>)
          [] s = s4 -> Job(B, "submit_sm", "datagram", <<a>>)
          [] s = s5 -> Job(B, "submit_sm", "store", <<a>>)
          [] s = m1 -> Job(A, "submit_multi", "datagram", <<b>>)
          [] s = d1 -> Job(A, "data_sm", "transaction", <<b>>)
          [] s = d2 -> Job(A, "data_sm", "datagram", <<b>>)
          [] s = d3 -> Job(A, "data_sm", "store", <<b>>)]

MCAskOf ==
    [q \in Asks |->
        CASE q = q1 -> [from |-> A, kind |-> "cancel_sm"]
          [] q = q2 -> [from |-> B, kind |-> "replace_sm"]
          [] q = q3 -> [from |-> A, kind |-> "broadcast"]]

Quiet == [submits |-> {}, asks |-> {}, rest |-> {}, leavers |-> {}, stallers |-> {},
          enquires |-> 0, redos |-> 0]

MCScenes ==
    { \* a submit_multi and a stored message
      [Quiet EXCEPT !.submits = {s3, s5}],
      \* transactions in both directions while B may leave
      [Quiet EXCEPT !.submits = {s1, s2}, !.leavers = {B}],
      \* a submit_multi while B may leave, and one whose sender may leave
      [Quiet EXCEPT !.submits = {s3}, !.leavers = {B}],
      [Quiet EXCEPT !.submits = {m1}, !.leavers = {A}, !.enquires = 1],
      \* a stored message that the store may fail to delete, while a client may leave or stop
      \* reading, and one that may be cancelled
      [Quiet EXCEPT !.submits = {s5}, !.leavers = {A}, !.redos = 1],
      [Quiet EXCEPT !.submits = {s5}, !.stallers = {A}, !.redos = 1],
      [Quiet EXCEPT !.submits = {s5}, !.asks = {q1, q2, q3}],
      \* a datagram for two clients, one of which may stop reading or leave
      [Quiet EXCEPT !.submits = {s4}, !.leavers = {A}, !.stallers = {A}],
      \* a transaction with a client that may stop reading while its sender may leave
      [Quiet EXCEPT !.submits = {s1}, !.leavers = {A}, !.stallers = {B}],
      \* a REST caller who uses the number of a transaction
      [Quiet EXCEPT !.submits = {s1}, !.rest = {1}],
      \* each way of forwarding a data_sm
      [Quiet EXCEPT !.submits = {d1}, !.leavers = {A}],
      [Quiet EXCEPT !.submits = {d2}],
      [Quiet EXCEPT !.submits = {d3}] }

\* Transactions in both directions.
MissedScenes == { [Quiet EXCEPT !.submits = {s1, s2}] }
=======================================================================
