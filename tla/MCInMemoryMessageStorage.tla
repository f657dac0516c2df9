-------------------- MODULE MCInMemoryMessageStorage --------------------
(***************************************************************************)
(* m1 and m2 come from one submit_multi and share an id; m3 has one of its *)
(* own and is scheduled; m4 is for the user and of the id of m1.           *)
(***************************************************************************)
EXTENDS InMemoryMessageStorage

CONSTANTS m1, m2, m3, m4, c1, c2, p1, p2, i1, i2, x1, x2, u1, u2

Msg(i, x, u, s, v) == [id |-> i, source |-> x, user |-> u, sched |-> s, validity |-> v]

MCAttr ==
    [m \in Messages |->
        CASE m = m1 -> Msg(i1, x1, u1, NoTime, NoTime)
          [] m = m2 -> Msg(i1, x1, u2, NoTime, 2)
          [] m = m3 -> Msg(i2, x1, u1, 2, BadTime)
          [] m = m4 -> Msg(i1, x1, u1, 2, 3)]

MCCriteria ==
    [c \in Cancels |->
        CASE c = c1 -> [id |-> i1, source |-> NoField]
          [] c = c2 -> [id |-> NoField, source |-> NoField]]

MCUpdate ==
    [p \in Replaces |->
        CASE p = p1 -> [id |-> i1, source |-> x1, sched |-> 2, validity |-> 3]
          [] p = p2 -> [id |-> i1, source |-> x2, sched |-> NoTime, validity |-> NoTime]]
=========================================================================
