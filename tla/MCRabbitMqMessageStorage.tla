-------------------- MODULE MCRabbitMqMessageStorage --------------------
(***************************************************************************)
(* Two messages of one submit_multi, which share an id: one is scheduled   *)
(* and gets the default validity, the other is due at once and expires. A  *)
(* third has neither a schedule nor a validity that is a time.             *)
(***************************************************************************)
EXTENDS RabbitMqMessageStorage

CONSTANTS m1, m2, m3, c1, c2, i1, i2, u1, u2

MCAttr ==
    [m \in Messages |->
        CASE m = m1 -> [id |-> i1, user |-> u1, sched |-> 2, validity |-> NoTime]
          [] m = m2 -> [id |-> i1, user |-> u2, sched |-> NoTime, validity |-> 1]
          [] m = m3 -> [id |-> i2, user |-> u1, sched |-> NoTime, validity |-> BadTime]]

MCIdOf == [c \in Cancels |-> IF c = c1 THEN i1 ELSE NoField]
=========================================================================
