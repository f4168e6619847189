-------------------------- MODULE WebSocketExchange --------------------------
(***************************************************************************)
(* zwebsocket: two sides of one connection that exchange messages.         *)
(* Exchange sends a request under a random number and waits for the reply  *)
(* or its timeout; readForever, one goroutine per side, hands replies to   *)
(* whoever waits and calls the handler for requests itself, so that the    *)
(* side reads nothing while its handler runs.  A handler may call Exchange *)
(* on the same connection.                                                 *)
(*                                                                         *)
(* The numbers of the exchanges are different: a caller stands for its     *)
(* number.                                                                 *)
(***************************************************************************)
EXTENDS Naturals, Sequences, FiniteSets, SequencesExt

CONSTANTS
    Sides,        \* the client and the server
    Callers,      \* goroutines that call Exchange, once each
    HandlersCall, \* the side's caller that its handler may be
    SideOfCaller, \* the side of each caller
    WsCloses      \* how often a side is closed from outside (a bound)

ASSUME WsAssumption ==
    /\ \E s, t \in Sides : s # t /\ Sides = {s, t}
    /\ SideOfCaller \in [Callers -> Sides]
    /\ HandlersCall \in [Sides -> Callers]
    /\ \A s \in Sides : SideOfCaller[HandlersCall[s]] = s
    /\ WsCloses \in Nat

VARIABLES
    conn,         \* whether b.conn is set, on each side
    shutdown,     \* b.shutdown
    linkUp,       \* whether the TCP connection is up
    wire,         \* what was sent to a side and not yet received there
    receiveChans, \* callers whose number is in b.receiveChans
    inChan,       \* callers with a message in their channel
    reader,       \* what readForever of a side is doing
    exchange,     \* what each caller is doing
    handled,      \* how often a request was handed to the handler
    panicked,     \* sides whose process has used a nil connection
    wsCloses

wsVars == <<conn, shutdown, linkUp, wire, receiveChans, inChan, reader, exchange, handled,
            panicked, wsCloses>>

OtherSide(s) == CHOOSE t \in Sides : t # s
CallersOn(s) == { c \in Callers : SideOfCaller[c] = s }
Nested(c) == c = HandlersCall[SideOfCaller[c]]

Request(c) == [of |-> c, kind |-> "request"]
Reply(c) == [of |-> c, kind |-> "reply"]

Reading == [phase |-> "reading", of |-> "none"]
Delivering(c) == [phase |-> "delivering", of |-> c]
Handling(c) == [phase |-> "handling", of |-> c]
Ended == [phase |-> "ended", of |-> "none"]

WsInit ==
    /\ conn = [s \in Sides |-> TRUE]
    /\ shutdown = [s \in Sides |-> FALSE]
    /\ linkUp = TRUE
    /\ wire = [s \in Sides |-> <<>>]
    /\ receiveChans = {} /\ inChan = {}
    /\ reader = [s \in Sides |-> Reading]
    /\ exchange = [c \in Callers |-> "idle"]
    /\ handled = [c \in Callers |-> 0]
    /\ panicked = {}
    /\ wsCloses = 0

Runs(s) == s \notin panicked

------------------------------------------------------------------------------
(* Exchange *)

Waiting(c) == exchange[c] \in {"sending", "waiting"}

\* A caller of its own, or the handler that is at work on a request
CallExchange(c) ==
    LET s == SideOfCaller[c]
    IN /\ exchange[c] = "idle" /\ Runs(s)
       /\ Nested(c) => reader[s].phase = "handling"
       /\ IF conn[s]
          THEN /\ exchange' = [exchange EXCEPT ![c] = "sending"]
               /\ receiveChans' = receiveChans \cup {c}
          ELSE /\ exchange' = [exchange EXCEPT ![c] = "failed"]
               /\ UNCHANGED receiveChans
       /\ UNCHANGED <<conn, shutdown, linkUp, wire, inChan, reader, handled, panicked, wsCloses>>

\* Exchange returns: the deferred Remove.
Returned(c, result) ==
    /\ exchange' = [exchange EXCEPT ![c] = result]
    /\ receiveChans' = receiveChans \ {c}

\* What a send does to the messages under way: into a connection that is down it may
\* fail, or seem to succeed.
Sent(s, m) == IF linkUp THEN Append(wire[OtherSide(s)], m) ELSE wire[OtherSide(s)]

SendRequest(c) ==
    LET s == SideOfCaller[c]
    IN /\ exchange[c] = "sending" /\ Runs(s) /\ conn[s]
       /\ wire' = [wire EXCEPT ![OtherSide(s)] = Sent(s, Request(c))]
       /\ \/ exchange' = [exchange EXCEPT ![c] = "waiting"] /\ UNCHANGED receiveChans
          \/ ~linkUp /\ Returned(c, "failed")
       /\ UNCHANGED <<conn, shutdown, linkUp, inChan, reader, handled, panicked,
                      wsCloses>>

\* Close by another goroutine since Exchange looked at b.conn: Send of a nil connection
SendRequestPanics(c) ==
    LET s == SideOfCaller[c]
    IN /\ exchange[c] = "sending" /\ Runs(s) /\ ~conn[s]
       /\ panicked' = panicked \cup {s}
       /\ linkUp' = FALSE
       /\ UNCHANGED <<conn, shutdown, wire, receiveChans, inChan, reader, exchange, handled, wsCloses>>

TakeReply(c) ==
    /\ exchange[c] = "waiting" /\ c \in inChan /\ Runs(SideOfCaller[c])
    /\ inChan' = inChan \ {c}
    /\ Returned(c, "answered")
    /\ UNCHANGED <<conn, shutdown, linkUp, wire, reader, handled, panicked, wsCloses>>

\* Mutant: no timeout once the side is closed.
TimeOutOpen(c) ==
    /\ exchange[c] = "waiting" /\ c \notin inChan /\ Runs(SideOfCaller[c]) /\ conn[SideOfCaller[c]]
    /\ Returned(c, "timedOut")
    /\ UNCHANGED <<conn, shutdown, linkUp, wire, inChan, reader, handled, panicked, wsCloses>>

TimeOut(c) ==
    /\ exchange[c] = "waiting" /\ c \notin inChan /\ Runs(SideOfCaller[c])
    /\ Returned(c, "timedOut")
    /\ UNCHANGED <<conn, shutdown, linkUp, wire, inChan, reader, handled, panicked,
                   wsCloses>>

------------------------------------------------------------------------------
(* readForever *)

\* The parts of Close(): b.conn.Close() ends the TCP connection.
CloseSide(s) ==
    /\ shutdown' = [shutdown EXCEPT ![s] = TRUE]
    /\ conn' = [conn EXCEPT ![s] = FALSE]
    /\ linkUp' = (linkUp /\ ~conn[s])

\* Mutant: one table of numbers for both sides.
ReceivedByAny(s, m) ==
    IF m.of \in receiveChans THEN Delivering(m.of)
    ELSE IF m.kind = "reply" THEN Reading ELSE Handling(m.of)

\* A message is a reply if its number is registered; else a reply is dropped.
Received(s, m) ==
    IF m.of \in receiveChans \cap CallersOn(s) THEN Delivering(m.of)
    ELSE IF m.kind = "reply" THEN Reading ELSE Handling(m.of)

\* Mutant: the message is not taken from the connection.
ReceiveAgain(s) ==
    /\ reader[s] = Reading /\ Runs(s) /\ conn[s] /\ ~shutdown[s] /\ wire[s] # <<>>
    /\ LET m == Head(wire[s])
       IN /\ reader' = [reader EXCEPT ![s] = Received(s, m)]
          /\ handled' = IF Received(s, m) = Handling(m.of)
                        THEN [handled EXCEPT ![m.of] = @ + 1] ELSE handled
    /\ UNCHANGED <<conn, shutdown, linkUp, wire, receiveChans, inChan, exchange, panicked, wsCloses>>

Receive(s) ==
    /\ reader[s] = Reading /\ Runs(s) /\ conn[s] /\ ~shutdown[s] /\ wire[s] # <<>>
    /\ LET m == Head(wire[s])
       IN /\ reader' = [reader EXCEPT ![s] = Received(s, m)]
          /\ handled' = IF Received(s, m) = Handling(m.of)
                        THEN [handled EXCEPT ![m.of] = @ + 1] ELSE handled
    /\ wire' = [wire EXCEPT ![s] = Tail(@)]
    /\ UNCHANGED <<conn, shutdown, linkUp, receiveChans, inChan, exchange, panicked,
                   wsCloses>>

\* The connection is down and read to its end.  (io.EOF as the first error is read again,
\* once.)  Closing also sets shutdown, so the loop ends here.
ReceiveFails(s) ==
    /\ reader[s] = Reading /\ Runs(s) /\ conn[s] /\ ~shutdown[s] /\ ~linkUp /\ wire[s] = <<>>
    /\ CloseSide(s)
    /\ reader' = [reader EXCEPT ![s] = Ended]
    /\ UNCHANGED <<wire, receiveChans, inChan, exchange, handled, panicked, wsCloses>>

\* Closed by another goroutine: Receive fails, or the loop's condition does.
ReaderEnds(s) ==
    /\ reader[s] = Reading /\ Runs(s) /\ shutdown[s]
    /\ reader' = [reader EXCEPT ![s] = Ended]
    /\ UNCHANGED <<conn, shutdown, linkUp, wire, receiveChans, inChan, exchange, handled,
                   panicked, wsCloses>>

\* The caller may have returned meanwhile; the channel has room for one message.
Deliver(s) ==
    /\ reader[s].phase = "delivering" /\ Runs(s) /\ reader[s].of \notin inChan
    /\ inChan' = inChan \cup {reader[s].of}
    /\ reader' = [reader EXCEPT ![s] = Reading]
    /\ UNCHANGED <<conn, shutdown, linkUp, wire, receiveChans, exchange, handled, panicked, wsCloses>>

\* The handler returns, its own exchange, if any, done; the result is sent as the reply.
SendReply(s) ==
    /\ reader[s].phase = "handling" /\ Runs(s) /\ conn[s] /\ ~Waiting(HandlersCall[s])
    /\ wire' = [wire EXCEPT ![OtherSide(s)] = Sent(s, Reply(reader[s].of))]
    /\ \/ /\ reader' = [reader EXCEPT ![s] = Reading]
          /\ UNCHANGED <<conn, shutdown, linkUp>>
       \/ /\ ~linkUp
                /\ CloseSide(s)
          /\ reader' = [reader EXCEPT ![s] = Ended]
    /\ UNCHANGED <<receiveChans, inChan, exchange, handled, panicked, wsCloses>>

\* b.conn was set to nil while the handler ran.
SendReplyPanics(s) ==
    /\ reader[s].phase = "handling" /\ Runs(s) /\ ~conn[s] /\ ~Waiting(HandlersCall[s])
    /\ panicked' = panicked \cup {s}
    /\ linkUp' = FALSE
    /\ UNCHANGED <<conn, shutdown, wire, receiveChans, inChan, reader, exchange, handled, wsCloses>>

------------------------------------------------------------------------------
(* The network, and Close by the owner of a side *)

LinkFails ==
    /\ linkUp /\ linkUp' = FALSE
    /\ UNCHANGED <<conn, shutdown, wire, receiveChans, inChan, reader, exchange, handled,
                   panicked, wsCloses>>

Close(s) ==
    /\ wsCloses < WsCloses /\ wsCloses' = wsCloses + 1
    /\ Runs(s) /\ CloseSide(s)
    /\ UNCHANGED <<wire, receiveChans, inChan, reader, exchange, handled, panicked>>

------------------------------------------------------------------------------

ExchangeSteps(c) == SendRequest(c) \/ SendRequestPanics(c) \/ TakeReply(c) \/ TimeOut(c)

ReaderSteps(s) ==
    \/ Receive(s) \/ ReceiveFails(s) \/ ReaderEnds(s) \/ Deliver(s)
    \/ SendReply(s) \/ SendReplyPanics(s)

WsNext ==
    \/ \E c \in Callers : CallExchange(c) \/ ExchangeSteps(c)
    \/ \E s \in Sides : ReaderSteps(s) \/ Close(s)
    \/ LinkFails

\* An exchange goes on by itself: the runtime runs its goroutine and fires its timer.
\* So does a reader, but not that a link fails or that anyone calls.
WsFairness ==
    /\ \A c \in Callers : WF_wsVars(ExchangeSteps(c))
    /\ \A s \in Sides : WF_wsVars(ReaderSteps(s))

------------------------------------------------------------------------------
(* Properties *)

WsTypeOK ==
    /\ conn \in [Sides -> BOOLEAN] /\ shutdown \in [Sides -> BOOLEAN]
    /\ linkUp \in BOOLEAN
    /\ \A s \in Sides : \A i \in 1..Len(wire[s]) :
          wire[s][i] \in [of : Callers, kind : {"request", "reply"}]
    /\ receiveChans \subseteq Callers /\ inChan \subseteq Callers
    /\ \A s \in Sides :
          /\ reader[s].phase \in {"reading", "delivering", "handling", "ended"}
          /\ reader[s].of \in Callers \cup {"none"}
    /\ exchange \in [Callers -> {"idle", "sending", "waiting", "answered", "timedOut", "failed"}]
    /\ handled \in [Callers -> 0..1]
    /\ panicked \subseteq Sides

\* An exchange that was answered was handled by the other side's handler, once, and by
\* nobody else: a late, lost or repeated message never passes for the answer.
AnsweredWasHandled ==
    \A c \in Callers : exchange[c] = "answered" => handled[c] = 1

\* zwebsocket!js.go:90, `defer b.receiveChans.Remove(num)`: only exchanges in progress
\* are registered, so nothing but an exchange in progress can take a message for a reply.
RegisteredAreWaiting == \A c \in receiveChans : Waiting(c)

\* Both together: late, lost and repeated messages are never taken for what they are not.
ExchangeIsConsistent == AnsweredWasHandled /\ RegisteredAreWaiting

\* The reader of a side never waits for ever: not for a caller that has given up, not for a
\* nested exchange of both sides' handlers, which wait for each other until they time out.
ReaderMovesOn ==
    \A s \in Sides :
        reader[s].phase \in {"delivering", "handling"}
            ~> reader[s].phase \in {"reading", "ended"} \/ s \in panicked

\* Exchange returns: with the reply, an error or its timeout.
ExchangeReturns == \A c \in Callers : Waiting(c) ~> ~Waiting(c) \/ SideOfCaller[c] \in panicked

\* The end of a connection gets to both sides: each closes its own end too,
\* and its reader ends, whatever its handler is doing.
EndIsNoticed ==
    \A s \in Sides : ~linkUp ~> s \in panicked \/ (~conn[s] /\ reader[s] = Ended)

\* zwebsocket!js.go: nothing waits for ever: no reader, no caller of Exchange, no end of a
\* connection that the other end has left.
ExchangesEnd == ReaderMovesOn /\ ExchangeReturns /\ EndIsNoticed
==============================================================================
