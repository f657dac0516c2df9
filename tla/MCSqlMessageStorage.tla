--------------------- MODULE MCSqlMessageStorage ---------------------
(***************************************************************************)
(* m1 is due at once and expires; m2 replaces whatever is stored for its   *)
(* addresses, which are m1's, and is scheduled. The cancel c1 goes by the  *)
(* addresses and meets both, the replace p1 by the id of m1; c2 and p2     *)
(* name nothing.                                                           *)
(***************************************************************************)
EXTENDS SqlMessageStorage

CONSTANTS m1, m2, c1, c2, p1, p2, i1, i2, k1

MCAttr ==
    [m \in Messages |->
        CASE m = m1 -> [id |-> i1, key |-> k1, dest |-> TRUE, flag |-> FALSE,
                        sched |-> NoTime, validity |-> NoTime]
          [] m = m2 -> [id |-> i2, key |-> k1, dest |-> TRUE, flag |-> TRUE,
                        sched |-> 2, validity |-> BadTime]]

MCCriteria ==
    [c \in Cancels |->
        CASE c = c1 -> [id |-> NoField, key |-> k1]
          [] c = c2 -> [id |-> NoField, key |-> NoField]]

MCUpdate ==
    [p \in Replaces |->
        CASE p = p1 -> [id |-> i1, key |-> NoField, sched |-> 2, validity |-> 3]
          [] p = p2 -> [id |-> NoField, key |-> NoField, sched |-> NoTime, validity |-> NoTime]]
======================================================================
