----------------------------- MODULE RemoteCalls -----------------------------
(***************************************************************************)
(* xrpc and znamedfuncs: the calls of a client to a server that may be     *)
(* restarted.  The client has at most one connection in r.clients, which a *)
(* repeater, and SetClient, open when there is none, and which whoever     *)
(* meets an error closes.  A call carries the TargetID that the last reply *)
(* came with; the server compares it with its own, which is new after a    *)
(* restart.                                                                *)
(*                                                                         *)
(* One client and its ID; the server's handler runs on the goroutine that  *)
(* reads the connection (WebSocketExchange), so one call of a connection   *)
(* is executed at a time.                                                  *)
(***************************************************************************)
EXTENDS Naturals, Sequences, FiniteSets, SequencesExt

CONSTANTS
    Calls,       \* goroutines that make one call each
    Connectors,  \* goroutines that call ConnectIfNeeded: the repeater and SetClient
    Repeater,    \* the one of them that does it again and again
    Links,       \* connections, in the order they are made: 1..n (a bound)
    MaxRestarts  \* how often the server stops (a bound)

ASSUME RpcAssumption ==
    /\ Repeater \in Connectors
    /\ MaxRestarts \in Nat
    /\ IsFiniteSet(Links) /\ Links = 1..Cardinality(Links)
    /\ "executed" \notin Calls

VARIABLES
    rpcStarted,  \* the client has called Start: its repeater is set
    serverUp,    \* the server's process runs
    serverID,    \* the server's r.targetID: how often it was started
    connection,  \* r.clients[id].connection: a link, or NoLink
    targetID,    \* r.clients[id].targetID
    connector,   \* what each connector is doing
    links,       \* each link's state
    reads,       \* links that the client's readForever reads
    registered,  \* the link in the server's Connections for the client's ID
    inbox,       \* the requests a link has brought to the server
    call,        \* what each call is doing and was given
    reply,       \* the reply in the channel of each call
    executed     \* the servers that executed the method of each call

rpcVars == <<rpcStarted, serverUp, serverID, connection, targetID, connector, links, reads, registered,
             inbox, call, reply, executed>>
clientVars == <<rpcStarted, connection, targetID, connector, reads>>
serverVars == <<serverUp, serverID, registered, inbox, executed>>

NoLink == 0
NoID == 0
NoReply == [id |-> NoID, error |-> "none"]

RpcInit ==
    /\ rpcStarted = FALSE
    /\ serverUp = TRUE /\ serverID = 1
    /\ connection = NoLink /\ targetID = NoID
    /\ connector = [x \in Connectors |-> "idle"]
    /\ links = [k \in Links |-> "unused"]
    /\ reads = {} /\ registered = NoLink
    /\ inbox = [k \in Links |-> <<>>]
    /\ call = [c \in Calls |-> [phase |-> "idle", link |-> NoLink, target |-> NoID]]
    /\ reply = [c \in Calls |-> NoReply]
    /\ executed = [c \in Calls |-> {}]

IsUp(k) == k # NoLink /\ links[k] = "up"
Phase(c, phase) == call' = [call EXCEPT ![c].phase = phase]

------------------------------------------------------------------------------
(* Connections *)

\* Mutant: the connection is closed and kept.
handleClientErrorKeeping ==
    /\ links' = [k \in Links |-> IF k = connection THEN "down" ELSE links[k]]
    /\ reads' = reads \ {connection}
    /\ UNCHANGED connection

\* Closes the connection there is, whichever the error came from.
handleClientError ==
    /\ links' = [k \in Links |-> IF k = connection THEN "down" ELSE links[k]]
    /\ reads' = reads \ {connection}
    /\ connection' = NoLink

RpcStart ==
    /\ ~rpcStarted /\ rpcStarted' = TRUE
    /\ UNCHANGED <<connection, targetID, connector, reads, links, call, reply, serverVars>>

\* The repeater ticks; SetClient is called once.  lastConnectTry is never set, so the
\* backoff that a failed attempt doubles never delays the next one.
ConnectIfNeeded(x) ==
    /\ connector[x] = "idle" /\ connection = NoLink
    /\ x = Repeater => rpcStarted
    /\ connector' = [connector EXCEPT ![x] = "connecting"]
    /\ UNCHANGED <<rpcStarted, connection, targetID, links, reads, call, reply, serverVars>>

AfterConnecting(x) == [connector EXCEPT ![x] = IF x = Repeater THEN "idle" ELSE "done"]
Unused == { k \in Links : links[k] = "unused" }
NextLink == CHOOSE k \in Unused : \A l \in Unused : k <= l

\* A connection takes the place of any other of the ID, which is not closed.
setClientToServer(k) == k

\* MakeClient opens the connection.  What the other connector may have set is overwritten.
Connected(x) ==
    /\ connector[x] = "connecting" /\ serverUp /\ Unused # {}
    /\ connection' = NextLink
    /\ links' = [links EXCEPT ![NextLink] = "up"]
    /\ reads' = reads \cup {NextLink}
    /\ registered' = setClientToServer(NextLink)
    /\ connector' = AfterConnecting(x)
    /\ UNCHANGED <<rpcStarted, serverUp, serverID, targetID, inbox, call, reply, executed>>

\* MakeClient's error goes to handleClientError, and so does open's.
ConnectFails(x) ==
    /\ connector[x] = "connecting" /\ ~serverUp
    /\ handleClientError
    /\ connector' = AfterConnecting(x)
    /\ UNCHANGED <<rpcStarted, targetID, call, reply, serverVars>>

\* readForever of a link that the client has not closed itself
ReadFails(k) ==
    /\ k \in reads /\ links[k] = "down"
    /\ links' = [l \in Links |-> IF l = connection THEN "down" ELSE links[l]]
    /\ reads' = reads \ {connection, k}
    /\ connection' = NoLink
    /\ UNCHANGED <<rpcStarted, targetID, connector, call, reply, serverVars>>

------------------------------------------------------------------------------
(* Call *)

\* The payload is made, with the target's ID, as soon as there is a connection.
Prepare(c) ==
    /\ call[c].phase \in {"idle", "waitingForConnect"} /\ connection # NoLink
    /\ call' = [call EXCEPT ![c].phase = "prepared", ![c].target = targetID]
    /\ UNCHANGED <<clientVars, links, reply, serverVars>>

WaitForConnect(c) ==
    /\ call[c].phase = "idle" /\ connection = NoLink
    /\ Phase(c, "waitingForConnect")
    /\ UNCHANGED <<clientVars, links, reply, serverVars>>

\* After 300 milliseconds, or the connection was closed after the payload was made
NoConnection(c) ==
    /\ call[c].phase \in {"waitingForConnect", "prepared"} /\ connection = NoLink
    /\ Phase(c, "failed")
    /\ UNCHANGED <<clientVars, links, reply, serverVars>>

\* Into a link that is down the request may seem to be sent.
ExchangeCall(c) ==
    /\ call[c].phase = "prepared" /\ connection # NoLink
    /\ call' = [call EXCEPT ![c].phase = "sent", ![c].link = connection]
    /\ inbox' = IF IsUp(connection) THEN [inbox EXCEPT ![connection] = Append(@, c)] ELSE inbox
    /\ UNCHANGED <<clientVars, links, reply, serverUp, serverID, registered, executed>>

\* The send fails, or the answer does not come in time.
ExchangeFails(c) ==
    /\ \/ call[c].phase = "prepared" /\ connection # NoLink /\ ~IsUp(connection)
       \/ call[c].phase = "sent" /\ reply[c] = NoReply
    /\ handleClientError
    /\ Phase(c, "failed")
    /\ UNCHANGED <<rpcStarted, targetID, connector, reply, serverVars>>

Result(r) == IF r.error = "none" THEN "succeeded" ELSE "failed"

TakeCallReply(c) ==
    /\ call[c].phase = "sent" /\ reply[c] # NoReply
    /\ targetID' = reply[c].id
    /\ Phase(c, Result(reply[c]))
    /\ UNCHANGED <<rpcStarted, connection, connector, links, reads, reply, serverVars>>

------------------------------------------------------------------------------
(* The server *)

Mismatch(c) == call[c].target # NoID /\ call[c].target # serverID

\* Mutant: a result takes the place of the error, too.
ErrorsOfMethod(c) == {"call", "none"}

\* The error of the method, or of a call that took longer than its time to live, may take
\* the place of the one for another target; a result does not.
Errors(c) == {"call"} \cup {IF Mismatch(c) THEN "mismatch" ELSE "none"}

\* ExecuteFromToJSON: a target that is not the caller's gives an error, and the method is
\* called all the same.  What a link has brought is read even if the client has closed it.
Execute(k) ==
    /\ serverUp /\ inbox[k] # <<>> /\ Head(inbox[k]) \in Calls
    /\ LET c == Head(inbox[k])
       IN /\ executed' = [executed EXCEPT ![c] = @ \cup {serverID}]
          /\ inbox' = [inbox EXCEPT ![k] = <<"executed">> \o @]
    /\ UNCHANGED <<clientVars, links, call, reply, serverUp, serverID, registered>>

\* A reply to a call that has timed out, or on a link that is closed, goes nowhere.
AnswerCall(k) ==
    /\ serverUp /\ inbox[k] # <<>> /\ Head(inbox[k]) = "executed"
    /\ LET c == inbox[k][2]
       IN \E e \in Errors(c) :
             reply' = IF call[c].phase = "sent" /\ k \in reads /\ IsUp(k)
                      THEN [reply EXCEPT ![c] = [id |-> serverID, error |-> e]] ELSE reply
    /\ inbox' = [inbox EXCEPT ![k] = SubSeq(@, 3, Len(@))]
    /\ UNCHANGED <<clientVars, links, call, serverUp, serverID, registered, executed>>

ServerStops ==
    /\ serverUp /\ serverID <= MaxRestarts
    /\ serverUp' = FALSE
    /\ links' = [k \in Links |-> IF links[k] = "up" THEN "down" ELSE links[k]]
    /\ inbox' = [k \in Links |-> <<>>]
    /\ registered' = NoLink
    /\ UNCHANGED <<clientVars, call, reply, serverID, executed>>

\* NewRPC draws a new target ID.
ServerRestarts ==
    /\ ~serverUp
    /\ serverUp' = TRUE /\ serverID' = serverID + 1
    /\ UNCHANGED <<clientVars, links, call, reply, registered, inbox, executed>>

------------------------------------------------------------------------------

CallSteps(c) ==
    Prepare(c) \/ WaitForConnect(c) \/ NoConnection(c) \/ ExchangeCall(c) \/ ExchangeFails(c) \/ TakeCallReply(c)
ConnectSteps(x) == ConnectIfNeeded(x) \/ Connected(x) \/ ConnectFails(x)
LinkSteps(k) == ReadFails(k) \/ Execute(k) \/ AnswerCall(k)

RpcNext ==
    \/ \E c \in Calls : CallSteps(c)
    \/ \E x \in Connectors : ConnectSteps(x)
    \/ \E k \in Links : LinkSteps(k)
    \/ RpcStart \/ ServerStops \/ ServerRestarts

\* Calls that were begun go on, a link's end is noticed, and a server that stops is started
\* again.  The repeater never rests.
RpcFairness ==
    /\ \A c \in Calls : WF_rpcVars(call[c].phase # "idle" /\ CallSteps(c))
    /\ WF_rpcVars(ConnectSteps(Repeater))
    /\ \A k \in Links : WF_rpcVars(ReadFails(k)) /\ WF_rpcVars(IsUp(k) /\ (Execute(k) \/ AnswerCall(k)))
    /\ WF_rpcVars(ServerRestarts)

------------------------------------------------------------------------------
(* Properties *)

RpcTypeOK ==
    /\ serverUp \in BOOLEAN /\ serverID \in 1..MaxRestarts + 1
    /\ connection \in Links \cup {NoLink} /\ registered \in Links \cup {NoLink}
    /\ targetID \in 0..MaxRestarts + 1
    /\ connector \in [Connectors -> {"idle", "connecting", "done"}]
    /\ links \in [Links -> {"unused", "up", "down"}] /\ reads \subseteq Links
    /\ \A c \in Calls :
          /\ call[c].phase \in {"idle", "waitingForConnect", "prepared", "sent", "succeeded", "failed"}
          /\ reply[c].error \in {"none", "call", "mismatch"}
          /\ executed[c] \subseteq 1..MaxRestarts + 1

\* A call that succeeds was executed by one server only, the one its target ID was for:
\* whatever was restarted, reconnected or timed out meanwhile, success is never reported for
\* what another server did.
SuccessIsOfTarget ==
    \A c \in Calls : call[c].phase = "succeeded" =>
        \E i \in 1..MaxRestarts + 1 : executed[c] = {i} /\ call[c].target \in {NoID, i}

\* The server's Connections never have a link that is older than the client's, and success is
\* that of the target.
CallsAreConsistent == SuccessIsOfTarget /\ (IsUp(connection) => registered >= connection)

\* A call ends, with the reply, an error or a timeout; and, xrpc.go:137, the repeater of Start:
\* whatever was lost or closed, by whichever error, the client is connected again, as long as
\* links to make are left.
ConnectionComesBack ==
    /\ rpcStarted /\ ~IsUp(connection) ~> IsUp(connection) \/ Unused = {}
    /\ \A c \in Calls : call[c].phase = "sent" ~> call[c].phase \in {"succeeded", "failed"}

==============================================================================
