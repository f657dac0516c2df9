------------------------ MODULE SmscConnectionManager ------------------------
(***************************************************************************)
(* The client role's SmscConnectionManager: how a REST request is sent     *)
(* through several SMSC connections, by round robin or failover, with      *)
(* smpp_api_handler around it and SmscClient::start before it.             *)
(*                                                                         *)
(* A call of SmscConnection::send_message is an exchange of SmppExchange,  *)
(* the specification SmscConnection implements. Every connection has its   *)
(* own ResponseManager, so the calls of one request, which all carry the   *)
(* same sequence number, are exchanges of their own.                       *)
(***************************************************************************)
EXTENDS Integers, Sequences, FiniteSets

CONSTANTS
    Requests,    \* REST requests
    Configured,  \* number of connections in the configuration
    MaxLive,     \* bound: connections added with POST live-connections
    RoundRobin,  \* the algorithm is RoundRobin, not FailOver
    Width        \* number of values of the u32 index: 2^32 in the code

ASSUME ManagerAssumption ==
    /\ Configured \in Nat /\ MaxLive \in Nat
    /\ RoundRobin \in BOOLEAN /\ Width \in Nat \ {0}

Conns == 1 .. Configured + MaxLive
Calls == Requests \X Conns

VARIABLES
    connections, \* the manager's vector of connections
    running,     \* connections whose run() task was spawned
    serving,     \* the REST listeners are up
    index,       \* the round-robin index
    mpc,         \* where each request is
    order,       \* what get_connections returned to it
    tried,       \* how many of them its loop has come to
    picks,       \* history: requests that were to try each connection first
    wraps,       \* history: times the index wrapped round
    status, written, answered   \* the exchanges

poolVars == <<connections, running, serving>>
exchangeVars == <<status, written, answered>>
requestVars == <<mpc, order, tried>>
historyVars == <<picks, wraps>>
vars == <<poolVars, index, requestVars, historyVars, exchangeVars>>

E == INSTANCE SmppExchange

Ended == {"ok", "error", "cancelled", "panicked"}

Init ==
    /\ connections = <<>> /\ running = {} /\ serving = FALSE
    /\ index = 0
    /\ mpc = [r \in Requests |-> "idle"]
    /\ order = [r \in Requests |-> <<>>]
    /\ tried = [r \in Requests |-> 0]
    /\ picks = [c \in Conns |-> 0] /\ wraps = 0
    /\ E!Init
-----------------------------------------------------------------------------
(***************************************************************************)
(* SmscClient::start registers and spawns every configured connection,     *)
(* then serves REST requests.                                              *)
(***************************************************************************)
StartConnection ==
    /\ ~serving /\ Len(connections) < Configured
    /\ connections' = Append(connections, Len(connections) + 1)
    /\ running' = running \cup {Len(connections) + 1}
    /\ UNCHANGED <<serving, index, requestVars, historyVars, exchangeVars>>

StartRest ==
    /\ ~serving /\ Len(connections) = Configured
    /\ serving' = TRUE
    /\ UNCHANGED <<connections, running, index, requestVars, historyVars, exchangeVars>>

\* add_live_smsc_connection spawns the connection's task and nothing else.
AddLive(c) ==
    /\ serving /\ c \in Conns \ running
    /\ running' = running \cup {c}
    /\ UNCHANGED <<connections, serving, index, requestVars, historyVars, exchangeVars>>
-----------------------------------------------------------------------------
\* Fault: the index is taken and not used.
RotationFixed(s, i) == s

\* The connections from position i + 1 on, round to where it started.
Rotation(s, i) == [k \in 1 .. Len(s) |-> s[((i + k - 1) % Len(s)) + 1]]

\* Fault: the index outgrows its width.
FetchAddUnbounded ==
    /\ index' = index + 1
    /\ wraps' = IF index + 1 = Width THEN wraps + 1 ELSE wraps

\* fetch_add on the u32 index.
FetchAdd ==
    /\ index' = (index + 1) % Width
    /\ wraps' = IF index + 1 = Width THEN wraps + 1 ELSE wraps

\* send_message gets its list of connections, under the lock of the vector. An empty
\* vector is an error for FailOver; RoundRobin takes the index modulo its length first.
GetConnections(r) ==
    /\ serving /\ mpc[r] = "idle"
    /\ IF RoundRobin THEN FetchAdd ELSE UNCHANGED <<index, wraps>>
    /\ IF connections = <<>>
       THEN /\ mpc' = [mpc EXCEPT ![r] = IF RoundRobin THEN "panicked" ELSE "error"]
            /\ UNCHANGED <<order, picks>>
       ELSE /\ order' = [order EXCEPT ![r] =
                            IF RoundRobin THEN Rotation(connections, index % Len(connections))
                                          ELSE connections]
            /\ picks' = [picks EXCEPT ![order'[r][1]] = @ + 1]
            /\ mpc' = [mpc EXCEPT ![r] = "next"]
    /\ UNCHANGED <<poolVars, tried, exchangeVars>>

\* The loop over the connections: the connection it has come to.
Current(r) == <<r, order[r][tried[r]]>>

\* Fault: the loop steps over a connection.
TryNextSkips(r) ==
    /\ mpc[r] = "next" /\ tried[r] + 1 < Len(order[r])
    /\ tried' = [tried EXCEPT ![r] = @ + 2]
    /\ mpc' = [mpc EXCEPT ![r] = "calling"]
    /\ E!Begin(<<r, order[r][tried[r] + 2]>>)
    /\ UNCHANGED <<poolVars, index, order, historyVars>>

\* Call send_message of the next connection.
TryNext(r) ==
    /\ mpc[r] = "next" /\ tried[r] < Len(order[r])
    /\ tried' = [tried EXCEPT ![r] = @ + 1]
    /\ mpc' = [mpc EXCEPT ![r] = "calling"]
    /\ E!Begin(<<r, order[r][tried[r] + 1]>>)
    /\ UNCHANGED <<poolVars, index, order, historyVars>>

\* It returned a response: so does the manager.
CallReturns(r) ==
    /\ mpc[r] = "calling"
    /\ E!Return(Current(r))
    /\ mpc' = [mpc EXCEPT ![r] = "ok"]
    /\ UNCHANGED <<poolVars, index, order, tried, historyVars>>

\* It failed: go on with the next one.
CallFails(r) ==
    /\ mpc[r] = "calling"
    /\ E!Fail(Current(r), "error")
    /\ mpc' = [mpc EXCEPT ![r] = "next"]
    /\ UNCHANGED <<poolVars, index, order, tried, historyVars>>

\* No connection is left.
GiveUp(r) ==
    /\ mpc[r] = "next" /\ tried[r] = Len(order[r])
    /\ mpc' = [mpc EXCEPT ![r] = "error"]
    /\ UNCHANGED <<poolVars, index, order, tried, historyVars, exchangeVars>>

\* The HTTP client goes away while send_message waits.
Cancel(r) ==
    /\ mpc[r] = "calling"
    /\ E!Fail(Current(r), "cancelled")
    /\ mpc' = [mpc EXCEPT ![r] = "cancelled"]
    /\ UNCHANGED <<poolVars, index, order, tried, historyVars>>

\* A connection writes a PDU, or is given a response to one.
ConnectionStep(c) ==
    /\ E!Write(c) \/ E!Answer(c)
    /\ UNCHANGED <<poolVars, index, requestVars, historyVars>>

RequestStep(r) ==
    \/ GetConnections(r) \/ TryNext(r) \/ CallReturns(r) \/ CallFails(r)
    \/ GiveUp(r) \/ Cancel(r)

Next ==
    \/ StartConnection \/ StartRest \/ \E c \in Conns : AddLive(c)
    \/ \E r \in Requests : RequestStep(r)
    \/ \E c \in Calls : ConnectionStep(c)

Spec == Init /\ [][Next]_vars
-----------------------------------------------------------------------------
\* Every variable keeps its type; the connections a request tries are the registered
\* ones.
TypeOK ==
    /\ connections \in Seq(Conns) /\ Len(connections) <= Configured
    /\ running \subseteq Conns /\ serving \in BOOLEAN
    /\ index \in 0 .. Width - 1
    /\ mpc \in [Requests -> {"idle", "next", "calling"} \cup Ended]
    /\ order \in [Requests -> Seq(Conns)]
    /\ tried \in [Requests -> Nat]
    /\ \A r \in Requests : tried[r] <= Len(order[r]) /\ (mpc[r] = "calling" => tried[r] > 0)
    /\ picks \in [Conns -> Nat] /\ wraps \in Nat
    /\ status \in [Calls -> {"idle", "pending", "ok", "error", "cancelled"}]
    /\ written \subseteq Calls /\ answered \subseteq Calls

\* One connection at a time, in the order of the algorithm: a request reaches a
\* connection only when its calls to all connections before it have failed, so a PDU
\* is written twice only because the first try got no response in time.
FailOverOrder ==
    \A r \in Requests : \A j \in 2 .. Len(order[r]) :
        status[<<r, order[r][j]>>] # "idle" => status[<<r, order[r][j - 1]>>] = "error"

\* "If all connections fail, it returns an error", and only then: a request that ends in
\* an error has failed on every configured connection, whichever it started with. One that
\* ends well has exactly one successful call, the last one it made: a late response to a
\* try that timed out is never returned for a later one.
ResultMatchesCalls ==
    \A r \in Requests :
        /\ mpc[r] = "error" => \A c \in 1 .. Configured : status[<<r, c>>] = "error"
        /\ mpc[r] = "ok" =>
              /\ Current(r) \in answered
              /\ {c \in Conns : status[<<r, c>>] = "ok"} = {Current(r)[2]}

\* Round robin spreads requests evenly: between any two configured connections the
\* number of requests that try them first differs by one at most, and by one more for
\* every time the u32 index wrapped round.
SpreadEven ==
    RoundRobin =>
        \A b, c \in 1 .. Configured : picks[b] - picks[c] <= 1 + wraps
=============================================================================
