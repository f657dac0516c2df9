--------------------- MODULE SmscConnectionManagerProofs ---------------------
(***************************************************************************)
(* Proofs about SmscConnectionManager, for any number of connections and   *)
(* requests, both algorithms and any width of the round-robin index.       *)
(***************************************************************************)
EXTENDS SmscConnectionManager, TLAPS

USE DEF poolVars, exchangeVars, requestVars, historyVars

(***************************************************************************)
(* The inductive invariant.                                                *)
(***************************************************************************)

\* The vector holds the configured connections in their order, all of them once REST
\* requests are served.
PoolIsConfigured ==
    /\ \A k \in 1 .. Len(connections) : connections[k] = k
    /\ serving => Len(connections) = Configured

\* s names every configured connection once.
Whole(s) ==
    /\ Len(s) = Configured
    /\ \A j \in 1 .. Len(s) : s[j] \in 1 .. Configured
    /\ \A j, k \in 1 .. Len(s) : s[j] = s[k] => j = k
    /\ \A c \in 1 .. Configured : \E j \in 1 .. Len(s) : s[j] = c

\* A request tries every configured connection once.
OrderIsWhole ==
    \A r \in Requests :
        IF mpc[r] \in {"idle", "panicked"} THEN order[r] = <<>> /\ tried[r] = 0
                                           ELSE Whole(order[r])

\* What became of the j-th connection of a request.
StatusAt(r, j) == status[<<r, order[r][j]>>]

\* The calls before the current one have failed, those behind it are not made, and the
\* request is where its current call is.
RequestInOrder(r) ==
    /\ \A c \in Conns : (\A j \in 1 .. Len(order[r]) : order[r][j] # c) =>
                            status[<<r, c>>] = "idle"
    /\ \A j \in 1 .. Len(order[r]) :
          /\ j > tried[r] => StatusAt(r, j) = "idle"
          /\ j < tried[r] => StatusAt(r, j) = "error"
    /\ tried[r] > 0 =>
          /\ mpc[r] = "calling" => StatusAt(r, tried[r]) = "pending"
          /\ mpc[r] \in {"next", "error"} => StatusAt(r, tried[r]) = "error"
          /\ mpc[r] = "ok" => StatusAt(r, tried[r]) = "ok"
    /\ mpc[r] = "error" => tried[r] = Len(order[r])
    /\ mpc[r] = "ok" => tried[r] > 0 /\ Current(r) \in answered

CallsInOrder == \A r \in Requests : RequestInOrder(r)

\* 1 for the connections the index has passed since it was last a multiple of their number.
Passed(c) == IF c <= index % Configured THEN 1 ELSE 0

\* How far one connection may be ahead of another.
SpreadByIndex ==
    RoundRobin =>
        \A b, c \in 1 .. Configured : picks[b] - picks[c] <= wraps + Passed(b) - Passed(c)

ManagerInv == TypeOK /\ PoolIsConfigured /\ OrderIsWhole /\ CallsInOrder /\ SpreadByIndex

-----------------------------------------------------------------------------
(***************************************************************************)
(* Division with remainder, by a number that is not a literal.             *)
(***************************************************************************)

\* Quotient and remainder give the number back.
LEMMA DivMod ==
    ASSUME NEW n \in Nat \ {0}, NEW a \in Nat
    PROVE  a = n * (a \div n) + (a % n) /\ a \div n \in Nat /\ a % n \in 0 .. n - 1
OBVIOUS

\* A number has one remainder.
LEMMA OneRemainder ==
    ASSUME NEW n \in Nat \ {0}, NEW p \in Nat, NEW q \in Nat,
           NEW r \in 0 .. n - 1, NEW s \in 0 .. n - 1, n * p + r = n * q + s
    PROVE  r = s
<1>1. n * (p - q) = s - r
  OBVIOUS
<1>2. CASE p >= q + 1
  <2>1. n * (p - q) >= n
    BY <1>2
  <2> QED BY <2>1, <1>1
<1>3. CASE q >= p + 1
  <2>1. n * (p - q) <= -n
    BY <1>3
  <2> QED BY <2>1, <1>1
<1>4. CASE p = q
  BY <1>4
<1> QED BY <1>2, <1>3, <1>4

\* The remainder of n * q + r is r.
LEMMA RemainderOf ==
    ASSUME NEW n \in Nat \ {0}, NEW q \in Nat, NEW r \in 0 .. n - 1
    PROVE  (n * q + r) % n = r
<1> DEFINE a == n * q + r
<1>1. a \in Nat
  OBVIOUS
<1> HIDE DEF a
<1>2. a = n * (a \div n) + (a % n) /\ a \div n \in Nat /\ a % n \in 0 .. n - 1
  BY <1>1, DivMod
<1>3. n * (a \div n) + (a % n) = n * q + r
  BY <1>2 DEF a
<1>4. a % n = r
  BY <1>2, <1>3, OneRemainder
<1> QED BY <1>4 DEF a

\* Adding one moves the remainder on by one, round to zero.
LEMMA RemainderNext ==
    ASSUME NEW n \in Nat \ {0}, NEW a \in Nat
    PROVE  (a + 1) % n = IF a % n = n - 1 THEN 0 ELSE (a % n) + 1
<1> DEFINE q == a \div n
           r == a % n
<1>1. a = n * q + r /\ q \in Nat /\ r \in 0 .. n - 1
  BY DivMod
<1> HIDE DEF q, r
<1>2. CASE r = n - 1
  <2>1. a + 1 = n * (q + 1) + 0
    BY <1>1, <1>2
  <2>2. (n * (q + 1) + 0) % n = 0
    BY <1>1, RemainderOf
  <2> QED BY <2>1, <2>2, <1>2 DEF r
<1>3. CASE r # n - 1
  <2>1. a + 1 = n * q + (r + 1) /\ r + 1 \in 0 .. n - 1
    BY <1>1, <1>3
  <2>2. (n * q + (r + 1)) % n = r + 1
    BY <1>1, <2>1, RemainderOf
  <2> QED BY <2>1, <2>2, <1>3 DEF r
<1> QED BY <1>2, <1>3

\* Less than two rounds.
LEMMA RemainderTwice ==
    ASSUME NEW n \in Nat \ {0}, NEW a \in 0 .. 2 * n - 1
    PROVE  a % n = IF a < n THEN a ELSE a - n
OBVIOUS
-----------------------------------------------------------------------------
(***************************************************************************)
(* The list of connections a request gets.                                 *)
(***************************************************************************)

\* Starting anywhere in the vector and going round names every connection once.
LEMMA RotationIsWhole ==
    ASSUME TypeOK, PoolIsConfigured, serving, connections # <<>>,
           NEW i \in 0 .. Configured - 1
    PROVE  /\ Rotation(connections, i) \in Seq(Conns)
           /\ Whole(Rotation(connections, i))
           /\ Rotation(connections, i)[1] = i + 1
<1> DEFINE N == Configured
           s == Rotation(connections, i)
           At(k) == IF i + k <= N THEN i + k ELSE i + k - N
<1>1. N \in Nat \ {0} /\ Len(connections) = N
  BY ManagerAssumption DEF TypeOK, PoolIsConfigured
<1>2. \A k \in 1 .. N : ((i + k - 1) % N) + 1 = At(k)
  <2> TAKE k \in 1 .. N
  <2> DEFINE a == i + k - 1
  <2>1. a \in 0 .. 2 * N - 1
    BY <1>1
  <2>2. a % N = IF a < N THEN a ELSE a - N
    <3> HIDE DEF a, N
    <3> QED BY <1>1, <2>1, RemainderTwice
  <2> QED BY <1>1, <2>2
<1>3. \A k \in 1 .. N : At(k) \in 1 .. N
  BY <1>1
<1>4. s = [k \in 1 .. N |-> At(k)]
  BY <1>1, <1>2, <1>3 DEF Rotation, PoolIsConfigured
<1>5. s \in Seq(1 .. N) /\ Len(s) = N
  BY <1>1, <1>3, <1>4
<1>6. s \in Seq(Conns)
  BY <1>1, <1>3, <1>4, ManagerAssumption DEF Conns
<1>7. \A j, k \in 1 .. N : s[j] = s[k] => j = k
  BY <1>1, <1>4
<1>8. ASSUME NEW c \in 1 .. N PROVE \E j \in 1 .. N : s[j] = c
  <2>1. CASE c > i
    <3>1. c - i \in 1 .. N /\ At(c - i) = c
      BY <1>1, <2>1
    <3> QED BY <1>4, <3>1
  <2>2. CASE c <= i
    <3>1. c - i + N \in 1 .. N /\ At(c - i + N) = c
      BY <1>1, <2>2
    <3> QED BY <1>4, <3>1
  <2> QED BY <1>1, <2>1, <2>2
<1>9. s[1] = i + 1
  BY <1>1, <1>4
<1>10. Whole(s)
  BY <1>1, <1>3, <1>4, <1>5, <1>7, <1>8 DEF Whole
<1> QED BY <1>6, <1>9, <1>10

\* So does the vector itself.
LEMMA PoolIsWhole ==
    ASSUME TypeOK, PoolIsConfigured, serving
    PROVE  Whole(connections)
BY ManagerAssumption DEF TypeOK, PoolIsConfigured, Whole
-----------------------------------------------------------------------------
(***************************************************************************)
(* Every step keeps the invariant.                                         *)
(***************************************************************************)

\* Nothing is registered and no request has come.
LEMMA ManagerInitInv == Init => ManagerInv
<1> SUFFICES ASSUME Init PROVE ManagerInv
  OBVIOUS
<1>1. TypeOK
  <2>1. serving \in BOOLEAN
    BY DEF Init
  <2>2. /\ connections \in Seq(Conns) /\ Len(connections) <= Configured
        /\ order \in [Requests -> Seq(Conns)] /\ \A r \in Requests : Len(order[r]) = 0
    BY ManagerAssumption DEF Init
  <2>3. index \in 0 .. Width - 1 /\ picks \in [Conns -> Nat] /\ wraps \in Nat
    BY ManagerAssumption DEF Init
  <2>4. status \in [Calls -> {"idle", "pending", "ok", "error", "cancelled"}]
    BY DEF Init, E!Init
  <2> QED BY <2>1, <2>2, <2>3, <2>4 DEF Init, E!Init, TypeOK
<1>2. PoolIsConfigured /\ OrderIsWhole
  BY DEF Init, PoolIsConfigured, OrderIsWhole
<1>3. CallsInOrder
  BY DEF Init, E!Init, CallsInOrder, RequestInOrder, StatusAt, Current, Calls
<1>4. SpreadByIndex
  <2> SUFFICES ASSUME NEW b \in 1 .. Configured, NEW c \in 1 .. Configured
               PROVE  picks[b] - picks[c] <= wraps + Passed(b) - Passed(c)
    BY DEF SpreadByIndex
  <2>1. Configured \in Nat \ {0} /\ b \in Conns /\ c \in Conns
    BY ManagerAssumption DEF Conns
  <2>2. 0 % Configured = 0
    BY <2>1
  <2> QED BY <2>1, <2>2 DEF Init, Passed
<1> QED BY <1>1, <1>2, <1>3, <1>4 DEF ManagerInv

\* Starting registers the connections one by one.
LEMMA StartInv ==
    ASSUME ManagerInv, StartConnection \/ StartRest \/ \E c \in Conns : AddLive(c)
    PROVE  ManagerInv'
<1> USE DEF ManagerInv
<1>1. UNCHANGED <<index, requestVars, historyVars, exchangeVars>>
  BY DEF StartConnection, StartRest, AddLive
<1>2. OrderIsWhole' /\ CallsInOrder' /\ SpreadByIndex'
  BY <1>1 DEF OrderIsWhole, CallsInOrder, RequestInOrder, StatusAt, Current, SpreadByIndex, Passed
<1>3. CASE StartConnection
  <2> DEFINE n == Len(connections) + 1
  <2>1. n \in Conns /\ n <= Configured /\ ~serving /\ UNCHANGED serving
    BY <1>3, ManagerAssumption DEF StartConnection, TypeOK, Conns
  <2>2. connections' = Append(connections, n) /\ running' = running \cup {n}
    BY <1>3 DEF StartConnection
  <2>3. /\ connections' \in Seq(Conns) /\ Len(connections') = n
        /\ \A k \in 1 .. n : connections'[k] = IF k = n THEN n ELSE connections[k]
    BY <2>1, <2>2 DEF TypeOK
  <2>4. TypeOK'
    BY <1>1, <2>1, <2>2, <2>3 DEF TypeOK
  <2>5. PoolIsConfigured'
    <3>1. ~serving'
      BY <1>3 DEF StartConnection
    <3>0. Len(connections) \in Nat
      BY DEF TypeOK
    <3>3. \A k \in 1 .. Len(connections) : connections[k] = k
      BY DEF PoolIsConfigured
    <3>2. \A k \in 1 .. n : connections'[k] = k
      BY <2>3, <3>0, <3>3
    <3> QED BY <2>3, <3>1, <3>2 DEF PoolIsConfigured
  <2> QED BY <1>2, <2>4, <2>5
<1>4. CASE StartRest
  <2>0. serving' \in BOOLEAN
    BY <1>4 DEF StartRest
  <2>1. Len(connections) = Configured /\ UNCHANGED <<connections, running>>
    BY <1>4 DEF StartRest
  <2>2. TypeOK' /\ PoolIsConfigured'
    BY <1>1, <2>0, <2>1 DEF TypeOK, PoolIsConfigured
  <2> QED BY <1>2, <2>2
<1>5. CASE \E c \in Conns : AddLive(c)
  <2>1. TypeOK' /\ PoolIsConfigured'
    BY <1>1, <1>5 DEF AddLive, TypeOK, PoolIsConfigured
  <2> QED BY <1>2, <2>1
<1> QED BY <1>3, <1>4, <1>5

\* The index stays within its width.
LEMMA FetchAddType ==
    ASSUME TypeOK, FetchAdd
    PROVE  index' \in 0 .. Width - 1 /\ wraps' \in Nat
BY ManagerAssumption DEF TypeOK, FetchAdd

\* Taking the next position of the round keeps the connections level.
LEMMA SpreadStep ==
    ASSUME TypeOK, SpreadByIndex, RoundRobin, FetchAdd, Configured > 0,
           picks' = [picks EXCEPT ![(index % Configured) + 1] = @ + 1]
    PROVE  SpreadByIndex'
<1> DEFINE N == Configured
           i == index % N
<1>1. N \in Nat \ {0} /\ index \in Nat /\ index \in 0 .. Width - 1 /\ Width \in Nat \ {0}
  BY ManagerAssumption DEF TypeOK
<1>2. i \in 0 .. N - 1 /\ 0 % N = 0
  BY <1>1
<1>3. i + 1 \in Conns /\ 1 .. N \subseteq Conns
  BY <1>1, <1>2, ManagerAssumption DEF Conns
<1>4. (index + 1) % N = IF i = N - 1 THEN 0 ELSE i + 1
  BY <1>1, RemainderNext
<1> SUFFICES ASSUME NEW b \in 1 .. N, NEW c \in 1 .. N
             PROVE  picks'[b] - picks'[c] <= wraps' + Passed(b)' - Passed(c)'
  BY DEF SpreadByIndex
<1>5. picks[b] - picks[c] <= wraps + Passed(b) - Passed(c)
  BY DEF SpreadByIndex
<1>6. /\ picks[b] \in Nat /\ picks[c] \in Nat /\ wraps \in Nat
      /\ picks'[b] = IF b = i + 1 THEN picks[b] + 1 ELSE picks[b]
      /\ picks'[c] = IF c = i + 1 THEN picks[c] + 1 ELSE picks[c]
  BY <1>3 DEF TypeOK
<1>7. /\ Passed(b) = IF b <= i THEN 1 ELSE 0
      /\ Passed(c) = IF c <= i THEN 1 ELSE 0
      /\ Passed(b)' = IF b <= index' % N THEN 1 ELSE 0
      /\ Passed(c)' = IF c <= index' % N THEN 1 ELSE 0
  BY DEF Passed
<1> HIDE DEF i
<1>8. CASE index + 1 = Width
  <2>1. index' = 0 /\ wraps' = wraps + 1
    BY <1>1, <1>8 DEF FetchAdd
  <2>2. index' % N = 0
    BY <2>1, <1>2
  <2> HIDE DEF N
  <2> QED BY <1>1, <1>2, <1>5, <1>6, <1>7, <2>1, <2>2
<1>9. CASE index + 1 # Width
  <2>1. index' = index + 1 /\ wraps' = wraps
    BY <1>1, <1>9 DEF FetchAdd
  <2>2. index' % N = IF i = N - 1 THEN 0 ELSE i + 1
    BY <2>1, <1>4
  <2> HIDE DEF N
  <2> QED BY <1>1, <1>2, <1>5, <1>6, <1>7, <2>1, <2>2
<1> QED BY <1>8, <1>9

\* A request gets a list of all connections, from the next one of the round on.
LEMMA GetConnectionsInv ==
    ASSUME ManagerInv, NEW r \in Requests, GetConnections(r)
    PROVE  ManagerInv'
<1> USE DEF ManagerInv
<1>1. CASE connections = <<>>
  <2>1. Configured = 0
    BY <1>1, ManagerAssumption DEF GetConnections, TypeOK, PoolIsConfigured
  <2>2. TypeOK'
    BY <1>1, FetchAddType DEF GetConnections, TypeOK, Ended
  <2>3. PoolIsConfigured' /\ OrderIsWhole'
    BY <1>1, <2>1 DEF GetConnections, TypeOK, PoolIsConfigured, OrderIsWhole, Whole
  <2>4. CallsInOrder'
    <3>1. /\ UNCHANGED <<order, tried, status, answered>>
          /\ \A q \in Requests \ {r} : mpc'[q] = mpc[q]
          /\ mpc'[r] \in {"error", "panicked"} /\ order[r] = <<>> /\ tried[r] = 0
      BY <1>1 DEF GetConnections, TypeOK, OrderIsWhole
    <3> QED BY <3>1 DEF CallsInOrder, RequestInOrder, StatusAt, Current
  <2>5. SpreadByIndex'
    BY <2>1 DEF SpreadByIndex
  <2> QED BY <2>2, <2>3, <2>4, <2>5
<1>2. CASE connections # <<>>
  <2> DEFINE i == index % Configured
             s == IF RoundRobin THEN Rotation(connections, i) ELSE connections
  <2>1. serving /\ Len(connections) = Configured /\ Configured \in Nat \ {0}
    BY <1>2, ManagerAssumption DEF GetConnections, TypeOK, PoolIsConfigured
  <2>2. i \in 0 .. Configured - 1
    BY <2>1, ManagerAssumption DEF TypeOK
  <2>3. s \in Seq(Conns) /\ Whole(s) /\ s[1] \in Conns
    <3>1. CASE RoundRobin
      <4>1. i + 1 \in Conns
        BY <2>1, <2>2, ManagerAssumption DEF Conns
      <4>2. s = Rotation(connections, i)
        BY <3>1
      <4> HIDE DEF s, i
      <4> QED BY <1>2, <2>1, <2>2, <4>1, <4>2, RotationIsWhole
    <3>2. CASE ~RoundRobin
      BY <2>1, <3>2, PoolIsWhole DEF TypeOK
    <3> QED BY <3>1, <3>2
  <2>4. /\ order' = [order EXCEPT ![r] = s] /\ mpc' = [mpc EXCEPT ![r] = "next"]
        /\ picks' = [picks EXCEPT ![s[1]] = @ + 1]
        /\ mpc[r] = "idle" /\ order[r] = <<>> /\ tried[r] = 0
    BY <1>2, <2>1 DEF GetConnections, TypeOK, OrderIsWhole
  <2>5. UNCHANGED <<poolVars, tried, exchangeVars>>
    BY DEF GetConnections
  <2>6. index' \in 0 .. Width - 1 /\ wraps' \in Nat
    BY FetchAddType DEF GetConnections, TypeOK
  <2>7. SpreadByIndex'
    <3>1. CASE RoundRobin
      <4>1. s[1] = i + 1
        <5>1. s = Rotation(connections, i)
          BY <3>1
        <5> HIDE DEF s, i
        <5> QED BY <1>2, <2>1, <2>2, <5>1, RotationIsWhole
      <4>2. FetchAdd /\ Configured > 0
        BY <2>1, <3>1 DEF GetConnections
      <4>3. picks' = [picks EXCEPT ![i + 1] = @ + 1]
        <5> HIDE DEF s, i
        <5> QED BY <2>4, <4>1
      <4> QED BY <3>1, <4>2, <4>3, SpreadStep
    <3> QED BY <3>1 DEF SpreadByIndex
  <2> HIDE DEF s
  <2>8. TypeOK'
    <3>1. picks' \in [Conns -> Nat]
      BY <2>3, <2>4 DEF TypeOK
    <3>2. \A q \in Requests : tried'[q] <= Len(order'[q]) /\ (mpc'[q] = "calling" => tried'[q] > 0)
      BY <2>3, <2>4, <2>5 DEF TypeOK
    <3> QED BY <2>3, <2>4, <2>5, <2>6, <3>1, <3>2 DEF TypeOK
  <2>9. PoolIsConfigured' /\ OrderIsWhole'
    BY <2>3, <2>4, <2>5 DEF TypeOK, PoolIsConfigured, OrderIsWhole
  <2>10. CallsInOrder'
    <3>1. ASSUME NEW c \in Conns PROVE status[<<r, c>>] = "idle"
      BY <2>4 DEF CallsInOrder, RequestInOrder
    <3>2. \A j \in 1 .. Len(s) : s[j] \in Conns
      BY <2>3
    <3>3. \A q \in Requests \ {r} : order'[q] = order[q] /\ mpc'[q] = mpc[q] /\ tried'[q] = tried[q]
      BY <2>4, <2>5 DEF TypeOK
    <3>4. order'[r] = s /\ mpc'[r] = "next" /\ tried'[r] = 0 /\ UNCHANGED <<status, answered>>
      BY <2>4, <2>5 DEF TypeOK
    <3> QED BY <2>3, <3>1, <3>2, <3>3, <3>4 DEF CallsInOrder, RequestInOrder, StatusAt, Current
  <2> QED BY <2>7, <2>8, <2>9, <2>10
<1> QED BY <1>1, <1>2

\* What a step of a request's loop leaves alone.
LEMMA LoopFrame ==
    ASSUME TypeOK, PoolIsConfigured, SpreadByIndex, UNCHANGED <<poolVars, index, order, historyVars>>
    PROVE  PoolIsConfigured' /\ SpreadByIndex'
BY DEF PoolIsConfigured, SpreadByIndex, Passed

\* The connection at a position of a request's list, and that no other position has it.
LEMMA PositionOf ==
    ASSUME ManagerInv, NEW r \in Requests, NEW j \in 1 .. Len(order[r])
    PROVE  /\ order[r][j] \in Conns /\ <<r, order[r][j]>> \in Calls
           /\ Whole(order[r])
           /\ \A k \in 1 .. Len(order[r]) : order[r][k] = order[r][j] => k = j
<1>1. order[r] \in Seq(Conns) /\ Len(order[r]) > 0
  BY DEF ManagerInv, TypeOK
<1>2. Whole(order[r])
  BY <1>1 DEF ManagerInv, TypeOK, OrderIsWhole
<1> QED BY <1>1, <1>2 DEF Whole, Calls

\* A step that is not of request q, nor of one of its calls, leaves it where it is.
LEMMA OtherInOrder ==
    ASSUME TypeOK, NEW q \in Requests, RequestInOrder(q),
           order'[q] = order[q], mpc'[q] = mpc[q], tried'[q] = tried[q],
           \A d \in Conns : status'[<<q, d>>] = status[<<q, d>>],
           answered \subseteq answered'
    PROVE  RequestInOrder(q)'
<1>1. Len(order[q]) \in Nat /\ tried[q] \in 0 .. Len(order[q])
  BY DEF TypeOK
<1>2. \A j \in 1 .. Len(order[q]) : order[q][j] \in Conns
  BY DEF TypeOK
<1>3. \A j \in 1 .. Len(order[q]) : StatusAt(q, j)' = StatusAt(q, j)
  BY <1>2 DEF StatusAt
<1>4. Current(q)' = Current(q)
  BY DEF Current
<1> QED BY <1>1, <1>3, <1>4 DEF RequestInOrder

\* The loop calls the next connection when the one before has failed.
LEMMA TryNextInv ==
    ASSUME ManagerInv, NEW r \in Requests, TryNext(r)
    PROVE  ManagerInv'
<1> USE DEF ManagerInv
<1> DEFINE t == tried[r] + 1
           c == <<r, order[r][t]>>
<1>1. t \in 1 .. Len(order[r]) /\ mpc[r] = "next" /\ tried[r] \in Nat /\ Len(order[r]) \in Nat
  BY DEF TryNext, TypeOK
<1>2. c \in Calls /\ Whole(order[r]) /\ \A k \in 1 .. Len(order[r]) : order[r][k] = order[r][t] => k = t
  BY <1>1, PositionOf
<1>3. /\ mpc' = [mpc EXCEPT ![r] = "calling"] /\ tried' = [tried EXCEPT ![r] = t]
      /\ status' = [status EXCEPT ![c] = "pending"]
      /\ UNCHANGED <<written, answered, poolVars, index, order, historyVars>>
  BY DEF TryNext, E!Begin
<1>4. TypeOK'
  <2>1. /\ mpc' \in [Requests -> {"idle", "next", "calling"} \cup Ended]
        /\ tried' \in [Requests -> Nat]
        /\ \A q \in Requests : tried'[q] <= Len(order'[q]) /\ (mpc'[q] = "calling" => tried'[q] > 0)
    BY <1>1, <1>3 DEF TypeOK
  <2>2. status' \in [Calls -> {"idle", "pending", "ok", "error", "cancelled"}]
    BY <1>2, <1>3 DEF TypeOK
  <2> QED BY <1>3, <2>1, <2>2 DEF TypeOK
<1>5. PoolIsConfigured' /\ SpreadByIndex'
  BY <1>3, LoopFrame
<1>6. OrderIsWhole'
  BY <1>2, <1>3 DEF TypeOK, OrderIsWhole
<1>7. CallsInOrder'
  <2>1. ASSUME NEW q \in Requests, q # r PROVE RequestInOrder(q)'
    <3>1. /\ order'[q] = order[q] /\ mpc'[q] = mpc[q] /\ tried'[q] = tried[q]
          /\ \A d \in Conns : status'[<<q, d>>] = status[<<q, d>>]
      BY <1>3, <2>1 DEF TypeOK, Calls
    <3> QED BY <1>3, <2>1, <3>1, OtherInOrder DEF CallsInOrder
  <2>2. RequestInOrder(r)'
    <3>1. order'[r] = order[r] /\ mpc'[r] = "calling" /\ tried'[r] = t
      BY <1>3 DEF TypeOK
    <3>2. \A j \in 1 .. Len(order[r]) : order[r][j] \in Conns
      BY DEF TypeOK
    <3>3. \A j \in 1 .. Len(order[r]) :
             StatusAt(r, j)' = IF j = t THEN "pending" ELSE StatusAt(r, j)
      BY <1>1, <1>2, <1>3, <3>2 DEF TypeOK, StatusAt, Calls
    <3>4. \A d \in Conns : d # order[r][t] => status'[<<r, d>>] = status[<<r, d>>]
      BY <1>3 DEF TypeOK, Calls
    <3>5. \A j \in 1 .. Len(order[r]) : j <= tried[r] => StatusAt(r, j) = "error"
      BY <1>1 DEF CallsInOrder, RequestInOrder
    <3> QED BY <1>1, <3>1, <3>3, <3>4, <3>5 DEF CallsInOrder, RequestInOrder
  <2> QED BY <2>1, <2>2 DEF CallsInOrder
<1> QED BY <1>4, <1>5, <1>6, <1>7

\* The current call returns, fails or is dropped.
LEMMA CallEnds ==
    ASSUME ManagerInv, NEW r \in Requests, mpc[r] = "calling",
           NEW m \in {"ok", "next", "cancelled"}, NEW v \in {"ok", "error", "cancelled"},
           m = "next" => v = "error", m = "ok" => v = "ok" /\ Current(r) \in answered,
           mpc' = [mpc EXCEPT ![r] = m], status' = [status EXCEPT ![Current(r)] = v],
           UNCHANGED <<written, answered, poolVars, index, order, tried, historyVars>>
    PROVE  ManagerInv'
<1> USE DEF ManagerInv
<1> DEFINE t == tried[r]
<1>1. t \in 1 .. Len(order[r]) /\ Len(order[r]) \in Nat
  BY DEF TypeOK
<1>2. /\ Current(r) \in Calls /\ Whole(order[r])
      /\ \A k \in 1 .. Len(order[r]) : order[r][k] = order[r][t] => k = t
  BY <1>1, PositionOf DEF Current
<1>4. TypeOK'
  <2>1. /\ mpc' \in [Requests -> {"idle", "next", "calling"} \cup Ended]
        /\ \A q \in Requests : tried'[q] <= Len(order'[q]) /\ (mpc'[q] = "calling" => tried'[q] > 0)
    BY DEF TypeOK, Ended
  <2>2. status' \in [Calls -> {"idle", "pending", "ok", "error", "cancelled"}]
    BY <1>2 DEF TypeOK
  <2> QED BY <2>1, <2>2 DEF TypeOK
<1>5. PoolIsConfigured' /\ SpreadByIndex'
  BY LoopFrame
<1>6. OrderIsWhole'
  BY <1>2 DEF TypeOK, OrderIsWhole
<1>7. CallsInOrder'
  <2>1. ASSUME NEW q \in Requests, q # r PROVE RequestInOrder(q)'
    <3>1. /\ order'[q] = order[q] /\ mpc'[q] = mpc[q] /\ tried'[q] = tried[q]
          /\ \A d \in Conns : status'[<<q, d>>] = status[<<q, d>>]
      BY <2>1 DEF TypeOK, Calls, Current
    <3> QED BY <2>1, <3>1, OtherInOrder DEF CallsInOrder
  <2>2. RequestInOrder(r)'
    <3>1. order'[r] = order[r] /\ mpc'[r] = m /\ tried'[r] = t /\ Current(r)' = Current(r)
      BY DEF TypeOK, Current
    <3>2. \A j \in 1 .. Len(order[r]) : order[r][j] \in Conns
      BY DEF TypeOK
    <3>3. \A j \in 1 .. Len(order[r]) :
             StatusAt(r, j)' = IF j = t THEN v ELSE StatusAt(r, j)
      BY <1>1, <1>2, <3>2 DEF TypeOK, StatusAt, Calls, Current
    <3>4. \A d \in Conns : d # order[r][t] => status'[<<r, d>>] = status[<<r, d>>]
      BY DEF TypeOK, Calls, Current
    <3> QED BY <1>1, <3>1, <3>3, <3>4 DEF CallsInOrder, RequestInOrder
  <2> QED BY <2>1, <2>2 DEF CallsInOrder
<1> QED BY <1>4, <1>5, <1>6, <1>7

\* The three ways a call ends, as the loop sees them.
LEMMA CallInv ==
    ASSUME ManagerInv, NEW r \in Requests, CallReturns(r) \/ CallFails(r) \/ Cancel(r)
    PROVE  ManagerInv'
<1>1. CASE CallReturns(r)
  BY <1>1, CallEnds DEF CallReturns, E!Return
<1>2. CASE CallFails(r)
  BY <1>2, CallEnds DEF CallFails, E!Fail
<1>3. CASE Cancel(r)
  BY <1>3, CallEnds DEF Cancel, E!Fail
<1> QED BY <1>1, <1>2, <1>3

\* A request gives up only behind its last connection.
LEMMA GiveUpInv ==
    ASSUME ManagerInv, NEW r \in Requests, GiveUp(r)
    PROVE  ManagerInv'
<1> USE DEF ManagerInv
<1>1. /\ mpc[r] = "next" /\ tried[r] = Len(order[r]) /\ mpc' = [mpc EXCEPT ![r] = "error"]
      /\ UNCHANGED <<poolVars, index, order, tried, historyVars, exchangeVars>>
  BY DEF GiveUp
<1>2. TypeOK' /\ OrderIsWhole'
  BY <1>1 DEF TypeOK, OrderIsWhole, Ended
<1>3. PoolIsConfigured' /\ SpreadByIndex'
  BY <1>1, LoopFrame
<1>4. CallsInOrder'
  <2>1. ASSUME NEW q \in Requests, q # r PROVE RequestInOrder(q)'
    BY <1>1, <2>1, OtherInOrder DEF TypeOK, CallsInOrder
  <2>2. RequestInOrder(r)'
    BY <1>1 DEF TypeOK, CallsInOrder, RequestInOrder, StatusAt
  <2> QED BY <2>1, <2>2 DEF CallsInOrder
<1> QED BY <1>2, <1>3, <1>4

\* What a connection writes or is given changes nothing for the loop.
LEMMA ConnectionStepInv ==
    ASSUME ManagerInv, NEW c \in Calls, ConnectionStep(c)
    PROVE  ManagerInv'
<1> USE DEF ManagerInv
<1>1. /\ UNCHANGED <<poolVars, index, requestVars, historyVars, status>>
      /\ written' \subseteq Calls /\ answered' \subseteq Calls /\ answered \subseteq answered'
  BY DEF ConnectionStep, E!Write, E!Answer, TypeOK
<1>2. TypeOK' /\ OrderIsWhole'
  BY <1>1 DEF TypeOK, OrderIsWhole
<1>3. PoolIsConfigured' /\ SpreadByIndex'
  BY <1>1, LoopFrame
<1>4. CallsInOrder'
  BY <1>1, OtherInOrder DEF CallsInOrder
<1> QED BY <1>2, <1>3, <1>4

\* A step that changes nothing keeps the invariant.
LEMMA ManagerStutter == ManagerInv /\ UNCHANGED vars => ManagerInv'
BY DEF ManagerInv, vars, TypeOK, PoolIsConfigured, OrderIsWhole, CallsInOrder,
       RequestInOrder, StatusAt, Current, SpreadByIndex, Passed

\* The invariant holds in every state of the specification.
THEOREM ManagerInvariant == Spec => []ManagerInv
<1>1. ManagerInv /\ [Next]_vars => ManagerInv'
  BY StartInv, GetConnectionsInv, TryNextInv, CallInv, GiveUpInv, ConnectionStepInv,
     ManagerStutter DEF Next, RequestStep
<1> QED BY ManagerInitInv, <1>1, PTL DEF Spec
-----------------------------------------------------------------------------
(***************************************************************************)
(* What follows from it.                                                   *)
(***************************************************************************)

\* Every variable keeps its type: the index its width, and a request's position the length
\* of its list.
THEOREM ManagerTypeCorrect == Spec => []TypeOK
<1>1. ManagerInv => TypeOK
  BY DEF ManagerInv
<1> QED BY ManagerInvariant, <1>1, PTL

\* Connections are called one after the other, each only when the one before has failed,
\* for any number of connections and requests.
THEOREM FailOverCorrect == Spec => []FailOverOrder
<1>1. ManagerInv => FailOverOrder
  <2> SUFFICES ASSUME ManagerInv, NEW r \in Requests, NEW j \in 2 .. Len(order[r]),
                      status[<<r, order[r][j]>>] # "idle"
               PROVE  status[<<r, order[r][j - 1]>>] = "error"
    BY DEF FailOverOrder
  <2>1. Len(order[r]) \in Nat /\ tried[r] \in Nat /\ j - 1 \in 1 .. Len(order[r])
    BY DEF ManagerInv, TypeOK
  <2>2. RequestInOrder(r)
    BY DEF ManagerInv, CallsInOrder
  <2>3. j <= tried[r]
    BY <2>1, <2>2 DEF RequestInOrder, StatusAt
  <2>4. j - 1 < tried[r]
    BY <2>1, <2>3
  <2> QED BY <2>1, <2>2, <2>4 DEF RequestInOrder, StatusAt
<1> QED BY ManagerInvariant, <1>1, PTL

\* A request ends in an error only when every configured connection has failed it, and a
\* request that ends well has one successful call, which was answered.
THEOREM ResultsCorrect == Spec => []ResultMatchesCalls
<1>1. ManagerInv => ResultMatchesCalls
  <2> SUFFICES ASSUME ManagerInv, NEW r \in Requests
               PROVE  /\ mpc[r] = "error" => \A c \in 1 .. Configured : status[<<r, c>>] = "error"
                      /\ mpc[r] = "ok" =>
                            /\ Current(r) \in answered
                            /\ {c \in Conns : status[<<r, c>>] = "ok"} = {Current(r)[2]}
    BY DEF ResultMatchesCalls
  <2>1. Len(order[r]) \in Nat /\ tried[r] \in 0 .. Len(order[r])
    BY DEF ManagerInv, TypeOK
  <2>2. RequestInOrder(r)
    BY DEF ManagerInv, CallsInOrder
  <2>3. ASSUME mpc[r] = "error", NEW c \in 1 .. Configured PROVE status[<<r, c>>] = "error"
    <3>1. Whole(order[r])
      BY <2>3 DEF ManagerInv, OrderIsWhole
    <3>2. PICK j \in 1 .. Len(order[r]) : order[r][j] = c
      BY <3>1 DEF Whole
    <3>3. tried[r] = Len(order[r]) /\ tried[r] > 0
      BY <2>1, <2>2, <2>3, <3>2 DEF RequestInOrder
    <3>4. StatusAt(r, j) = "error"
      BY <2>1, <2>2, <2>3, <3>3 DEF RequestInOrder
    <3> QED BY <3>2, <3>4 DEF StatusAt
  <2>4. ASSUME mpc[r] = "ok" PROVE {c \in Conns : status[<<r, c>>] = "ok"} = {Current(r)[2]}
    <3> DEFINE t == tried[r]
    <3>1. t \in 1 .. Len(order[r])
      BY <2>1, <2>2, <2>4 DEF RequestInOrder
    <3>2. order[r][t] \in Conns /\ StatusAt(r, t) = "ok" /\ Current(r)[2] = order[r][t]
      BY <2>2, <2>4, <3>1, PositionOf DEF RequestInOrder, Current
    <3>3. ASSUME NEW c \in Conns, status[<<r, c>>] = "ok" PROVE c = order[r][t]
      <4>1. PICK j \in 1 .. Len(order[r]) : order[r][j] = c
        BY <2>2, <3>3 DEF RequestInOrder
      <4>2. j = t
        BY <2>1, <2>2, <3>1, <3>3, <4>1 DEF RequestInOrder, StatusAt
      <4> QED BY <4>1, <4>2
    <3> QED BY <3>2, <3>3 DEF StatusAt
  <2> QED BY <2>2, <2>3, <2>4 DEF RequestInOrder
<1> QED BY ManagerInvariant, <1>1, PTL

\* Round robin is even, up to the wraps of the index, whatever the number of connections
\* and the width of the index.
THEOREM SpreadCorrect == Spec => []SpreadEven
<1>1. ManagerInv => SpreadEven
  <2> SUFFICES ASSUME ManagerInv, RoundRobin, NEW b \in 1 .. Configured, NEW c \in 1 .. Configured
               PROVE  picks[b] - picks[c] <= 1 + wraps
    BY DEF SpreadEven
  <2>1. picks[b] \in Nat /\ picks[c] \in Nat /\ wraps \in Nat
    BY ManagerAssumption DEF ManagerInv, TypeOK, Conns
  <2>2. Passed(b) \in {0, 1} /\ Passed(c) \in {0, 1}
    BY DEF Passed
  <2>3. picks[b] - picks[c] <= wraps + Passed(b) - Passed(c)
    BY DEF ManagerInv, SpreadByIndex
  <2> QED BY <2>1, <2>2, <2>3
<1> QED BY ManagerInvariant, <1>1, PTL
=============================================================================
