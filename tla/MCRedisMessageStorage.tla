--------------------- MODULE MCRedisMessageStorage ---------------------
(***************************************************************************)
(* Two messages of one submit_multi, which share an id: one is scheduled   *)
(* and gets the default validity, the other is due at once.                *)
(***************************************************************************)
EXTENDS RedisMessageStorage

CONSTANTS m1, m2, c1, i1, u1, u2

MCAttr ==
    [m \in Messages |->
        CASE m = m1 -> [id |-> i1, user |-> u1, sched |-> 2, validity |-> NoTime]
          [] m = m2 -> [id |-> i1, user |-> u2, sched |-> NoTime, validity |-> 2]]

MCIdOf == [c \in Cancels |-> i1]
========================================================================
