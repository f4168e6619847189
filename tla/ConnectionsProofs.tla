-------------------------- MODULE ConnectionsProofs --------------------------
(***************************************************************************)
(* Proofs about what talks over a connection: SharedResources,             *)
(* WebSocketExchange and RemoteCalls, each as a state machine of its own,  *)
(* and then together, as ConnectionsMC has them.                           *)
(***************************************************************************)
EXTENDS ConnectionsMC, SumProofs

------------------------------------------------------------------------------
(* SharedResources *)

\* What each call may have in its hands.
Askings == [phase : {"idle", "asking", "visiting"}, left : SUBSET Resources,
            res : Resources \cup {"none"}, read : SUBSET Clients, reply : SUBSET Resources]
Knowings == [phase : {"idle", "read"}, res : Resources \cup {"none"}, read : SUBSET Clients]

ResTypes ==
    /\ Changed \subseteq Resources
    /\ sentToClient \in [Changed -> SUBSET Clients]
    /\ asking \in [Clients -> Askings]
    /\ knowing \in [Clients -> Knowings]
    /\ polled \in [Clients -> SUBSET Resources]
    /\ owed \subseteq Clients \X Resources
    /\ \A c \in Clients : (asking[c].phase = "visiting") => (asking[c].res \in Resources)
    /\ \A c \in Clients : (knowing[c].phase = "read") => (knowing[c].res \in Resources)

\* A list that was read before a change was set, and is set after it, does not get in the way of
\* those who have to be told: no list that is about to be set has any of them.
NoneIsListed ==
    \A d \in Clients, r \in Resources : (<<d, r>> \in owed) =>
        /\ r \in Changed
        /\ d \notin sentToClient[r]
        /\ \A c \in Clients :
              /\ (asking[c].phase = "visiting" /\ asking[c].res = r) => (d \notin asking[c].read)
              /\ (knowing[c].phase = "read" /\ knowing[c].res = r) => (d \notin knowing[c].read)

ResInv == ResTypes /\ NoneIsListed

LEMMA ResInvInit == ResInit => ResInv
  BY DEF ResInit, ResInv, ResTypes, NoneIsListed, Changed, NotAsking, NotKnowing, Askings, Knowings

LEMMA ResInvGives == ResInv => ResTypeOK /\ ChangeIsKept
  BY DEF ResInv, ResTypes, NoneIsListed, ResTypeOK, ChangeIsKept, Askings

\* The list of one resource changes, those of the others stay.
LEMMA WithListType ==
    ASSUME ResTypes, NEW r \in Resources, NEW clients \in SUBSET Clients
    PROVE  /\ DOMAIN WithList(r, clients) = Changed \cup {r}
           /\ WithList(r, clients) \in [Changed \cup {r} -> SUBSET Clients]
           /\ WithList(r, clients)[r] = clients
           /\ \A x \in Changed \ {r} : WithList(r, clients)[x] = sentToClient[x]
  BY DEF ResTypes, WithList

LEMMA UpdatedKeepsResInv ==
    ASSUME ResInv, NEW r \in Resources, NEW by \in SUBSET Clients, SetResourceUpdated(r, by)
    PROVE  ResInv'
<1>1. /\ Changed' = Changed \cup {r}
      /\ sentToClient' \in [Changed' -> SUBSET Clients]
      /\ sentToClient'[r] = by
      /\ \A x \in Changed \ {r} : sentToClient'[x] = sentToClient[x]
  BY WithListType DEF ResInv, SetResourceUpdated, Changed
<1>2. ResTypes'
  BY <1>1 DEF ResInv, ResTypes, SetResourceUpdated
<1>3. ASSUME NEW d \in Clients, NEW x \in Resources, <<d, x>> \in owed'
      PROVE  /\ x \in Changed'
             /\ d \notin sentToClient'[x]
             /\ \A c \in Clients :
                   /\ (asking'[c].phase = "visiting" /\ asking'[c].res = x) => (d \notin asking'[c].read)
                   /\ (knowing'[c].phase = "read" /\ knowing'[c].res = x) => (d \notin knowing'[c].read)
  <2>1. CASE <<d, x>> \in owed /\ x # r
    BY <1>1, <2>1 DEF ResInv, NoneIsListed, SetResourceUpdated
  <2>2. CASE ~InUse(r) /\ x = r /\ d \notin by
    BY <1>1, <2>2 DEF SetResourceUpdated, InUse
  <2> QED
    BY <1>3, <2>1, <2>2 DEF SetResourceUpdated
<1> QED
  BY <1>2, <1>3 DEF ResInv, NoneIsListed

LEMMA ClearedKeepsResInv ==
    ASSUME ResInv, NEW r \in Resources, ClearResourceID(r)
    PROVE  ResInv'
<1>1. /\ Changed' = Changed \ {r}
      /\ sentToClient' \in [Changed' -> SUBSET Clients]
      /\ \A x \in Changed \ {r} : sentToClient'[x] = sentToClient[x]
  BY DEF ResInv, ResTypes, ClearResourceID, Changed
<1>2. ResTypes'
  BY <1>1 DEF ResInv, ResTypes, ClearResourceID
<1>3. owed' \subseteq owed /\ \A d \in Clients : <<d, r>> \notin owed'
  BY DEF ResInv, ResTypes, ClearResourceID
<1> QED
  BY <1>1, <1>2, <1>3 DEF ResInv, NoneIsListed, ClearResourceID

LEMMA ListedKeepsResInv ==
    ASSUME ResInv, NEW c \in Clients, SetKnown(c) \/ SetSent(c)
    PROVE  ResInv'
<1>1. CASE SetKnown(c)
  <2> DEFINE r == knowing[c].res
             list == knowing[c].read \cup {c}
  <2>1. r \in Resources /\ list \in SUBSET Clients
    BY <1>1 DEF SetKnown, ResInv, ResTypes, Knowings
  <2>2. /\ Changed' = Changed \cup {r}
        /\ sentToClient' \in [Changed' -> SUBSET Clients]
        /\ sentToClient'[r] = list
        /\ \A x \in Changed \ {r} : sentToClient'[x] = sentToClient[x]
    BY <1>1, <2>1, WithListType DEF ResInv, SetKnown, Changed
  <2>3. ResTypes'
    BY <1>1, <2>1, <2>2 DEF ResInv, ResTypes, SetKnown, NotKnowing, Knowings
  <2>4. ASSUME NEW d \in Clients, NEW x \in Resources, <<d, x>> \in owed'
        PROVE  x \in Changed' /\ d \notin sentToClient'[x]
    BY <1>1, <2>1, <2>2, <2>4 DEF SetKnown, ResInv, ResTypes, NoneIsListed
  <2>5. ASSUME NEW d \in Clients, NEW x \in Resources, <<d, x>> \in owed', NEW e \in Clients
        PROVE  /\ (asking'[e].phase = "visiting" /\ asking'[e].res = x) => (d \notin asking'[e].read)
               /\ (knowing'[e].phase = "read" /\ knowing'[e].res = x) => (d \notin knowing'[e].read)
    BY <1>1, <2>5 DEF SetKnown, ResInv, ResTypes, NoneIsListed, NotKnowing
  <2> QED
    BY <2>3, <2>4, <2>5 DEF ResInv, NoneIsListed
<1>2. CASE SetSent(c)
  <2>1. /\ asking[c].res \in Resources /\ asking[c].read \cup {c} \in SUBSET Clients
        /\ asking[c] \in Askings /\ asking[c].phase = "visiting"
    BY <1>2 DEF SetSent, ResInv, ResTypes, Askings
  <2>2. PICK r \in Resources, list \in SUBSET Clients :
            /\ r = asking[c].res /\ list = asking[c].read \cup {c}
            /\ sentToClient' = WithList(r, list)
            /\ owed' = owed \ {<<c, r>>}
            /\ asking' = [asking EXCEPT ![c].phase = "asking", ![c].res = "none", ![c].read = {},
                                        ![c].reply = @ \cup {r}]
    <3> DEFINE r == asking[c].res
               list == asking[c].read \cup {c}
    <3>1. /\ sentToClient' = WithList(r, list)
          /\ owed' = owed \ {<<c, r>>}
          /\ asking' = [asking EXCEPT ![c].phase = "asking", ![c].res = "none", ![c].read = {},
                                      ![c].reply = @ \cup {r}]
      BY <1>2 DEF SetSent, Listed
    <3> QED
      BY <2>1, <3>1
  <2>3. knowing' = knowing /\ polled' = polled
    BY <1>2 DEF SetSent
  <2>4. asking'[c] \in Askings /\ asking'[c].phase = "asking"
    BY <2>1, <2>2 DEF ResInv, ResTypes, Askings
  <2>5. /\ asking' \in [Clients -> Askings]
        /\ \A d \in Clients : (asking'[d].phase = "visiting") => (asking'[d] = asking[d])
    BY <2>2, <2>4 DEF ResInv, ResTypes
  <2>6. /\ Changed' = Changed \cup {r}
        /\ sentToClient' \in [Changed' -> SUBSET Clients]
        /\ sentToClient'[r] = list
        /\ \A x \in Changed \ {r} : sentToClient'[x] = sentToClient[x]
    BY <2>2, WithListType, SMTT(30) DEF ResInv, Changed
  <2>7. ResTypes'
    BY <2>3, <2>5, <2>2, <2>6 DEF ResInv, ResTypes
  <2>8. ASSUME NEW d \in Clients, NEW x \in Resources, <<d, x>> \in owed'
        PROVE  x \in Changed' /\ d \notin sentToClient'[x]
    BY <2>1, <2>2, <2>6, <2>8 DEF ResInv, NoneIsListed
  <2>9. ASSUME NEW d \in Clients, NEW x \in Resources, <<d, x>> \in owed', NEW e \in Clients
        PROVE  /\ (asking'[e].phase = "visiting" /\ asking'[e].res = x) => (d \notin asking'[e].read)
               /\ (knowing'[e].phase = "read" /\ knowing'[e].res = x) => (d \notin knowing'[e].read)
    BY <2>2, <2>3, <2>5, <2>9 DEF ResInv, NoneIsListed
  <2> QED
    BY <2>7, <2>8, <2>9 DEF ResInv, NoneIsListed
<1> QED
  BY <1>1, <1>2

LEMMA ReadKeepsResInv ==
    ASSUME ResInv, NEW c \in Clients,
           Visit(c) \/ \E r \in Resources : ReadKnown(c, r)
    PROVE  ResInv'
<1>1. CASE Visit(c)
  <2>1. PICK r \in asking[c].left :
          asking' = IF r \in Changed /\ c \notin sentToClient[r]
                    THEN [asking EXCEPT ![c].phase = "visiting", ![c].left = @ \ {r},
                                        ![c].res = r, ![c].read = sentToClient[r]]
                    ELSE [asking EXCEPT ![c].left = @ \ {r}]
    BY <1>1 DEF Visit
  <2>2. asking[c] \in Askings /\ r \in Resources
    BY <1>1, <2>1 DEF Visit, ResInv, ResTypes, Askings
  <2>3. UNCHANGED <<sentToClient, knowing, polled, updates, owed, lostReplies>>
    BY <1>1 DEF Visit
  <2>4. asking'[c] \in Askings
    <3>1. CASE r \in Changed /\ c \notin sentToClient[r]
      <4>1. sentToClient[r] \in SUBSET Clients
        BY <3>1 DEF ResInv, ResTypes
      <4> QED
        BY <2>1, <2>2, <3>1, <4>1 DEF ResInv, ResTypes, Askings
    <3>2. CASE ~(r \in Changed /\ c \notin sentToClient[r])
      BY <2>1, <2>2, <3>2 DEF ResInv, ResTypes, Askings
    <3> QED
      BY <3>1, <3>2
  <2>5. /\ asking' \in [Clients -> Askings]
        /\ \A d \in Clients \ {c} : asking'[d] = asking[d]
    BY <2>1, <2>4 DEF ResInv, ResTypes
  <2>6. \/ asking'[c].phase = asking[c].phase
        \/ asking'[c].res \in Changed /\ asking'[c].read = sentToClient[asking'[c].res]
    BY <2>1, <2>2 DEF ResInv, ResTypes, Askings
  <2>7. asking[c].phase = "asking"
    BY <1>1 DEF Visit
  <2>8. ResTypes'
    BY <2>3, <2>4, <2>5, <2>6, <2>7 DEF ResInv, ResTypes, Changed
  <2> QED
    BY <2>3, <2>5, <2>6, <2>8, <2>7 DEF ResInv, NoneIsListed, Changed
<1>2. ASSUME NEW r \in Resources, ReadKnown(c, r) PROVE ResInv'
  <2>1. ResTypes'
    BY <1>2 DEF ReadKnown, ResInv, ResTypes, Knowings, Changed
  <2>2. \A d \in Clients : (knowing'[d].phase = "read") =>
            \/ knowing'[d] = knowing[d]
            \/ knowing'[d].res \notin Changed
            \/ knowing'[d].read = sentToClient[knowing'[d].res]
    BY <1>2 DEF ReadKnown, ResInv, ResTypes
  <2> QED
    BY <1>2, <2>1, <2>2 DEF ReadKnown, ResInv, NoneIsListed, Changed
<1> QED
  BY <1>1, <1>2

LEMMA ClientKeepsResInv ==
    ASSUME ResInv, NEW c \in Clients, Poll(c) \/ PollReturns(c) \/ PollFails(c) \/ Get(c)
    PROVE  ResInv'
<1>1. NotAsking \in Askings /\ NotAsking.phase = "idle"
  BY DEF NotAsking, Askings
<1>2. LET polling == [NotAsking EXCEPT !.phase = "asking", !.left = Resources]
      IN polling \in Askings /\ polling.phase = "asking"
  BY DEF NotAsking, Askings
<1>3. \/ asking' = [asking EXCEPT ![c] = [NotAsking EXCEPT !.phase = "asking", !.left = Resources]]
      \/ asking' = [asking EXCEPT ![c] = NotAsking]
      \/ asking' = asking
  BY DEF Poll, PollReturns, PollFails, Get
<1>4. /\ asking' \in [Clients -> Askings]
      /\ \A d \in Clients : (asking'[d].phase = "visiting") => (asking'[d] = asking[d])
  BY <1>1, <1>2, <1>3 DEF ResInv, ResTypes
<1>5. /\ owed' = owed /\ sentToClient' = sentToClient /\ knowing' = knowing
      /\ polled' \in [Clients -> SUBSET Resources]
  BY DEF Poll, PollReturns, PollFails, Get, ResInv, ResTypes, Askings
<1>6. ResTypes'
  BY <1>4, <1>5 DEF ResInv, ResTypes, Changed
<1> QED
  BY <1>4, <1>5, <1>6 DEF ResInv, NoneIsListed, Changed

LEMMA ResInvStep == ResInv /\ [ResNext]_resVars => ResInv'
<1> SUFFICES ASSUME ResInv, [ResNext]_resVars PROVE ResInv'
  OBVIOUS
<1>1. CASE UNCHANGED resVars
  BY <1>1 DEF resVars, ResInv, ResTypes, NoneIsListed, Changed
<1>2. ASSUME NEW r \in Resources, SetResourceUpdated(r, {}) \/ \E c \in Clients : SetResourceUpdated(r, {c})
      PROVE  ResInv'
  BY <1>2, UpdatedKeepsResInv
<1>3. ASSUME NEW r \in Resources, ClearResourceID(r) PROVE ResInv'
  BY <1>3, ClearedKeepsResInv
<1>4. ASSUME NEW c \in Clients,
             SetKnown(c) \/ PollSteps(c) \/ PollFails(c) \/ \E r \in Resources : ReadKnown(c, r)
      PROVE  ResInv'
  BY <1>4, ListedKeepsResInv, ReadKeepsResInv, ClientKeepsResInv DEF PollSteps
<1> QED
  BY <1>1, <1>2, <1>3, <1>4 DEF ResNext

ResSpec == ResInit /\ [][ResNext]_resVars

\* xrpc_resources_server.go: a change that was set while nobody was between reading and setting
\* the resource's list is still to be told to all who do not know of it, for any clients and
\* resources and any number of calls between each other's steps.
THEOREM ChangesAreKept == ResSpec => []ChangeIsKept
<1>1. ResSpec => []ResInv
  BY ResInvInit, ResInvStep, PTL DEF ResSpec
<1> QED
  BY <1>1, ResInvGives, PTL

------------------------------------------------------------------------------
(* WebSocketExchange *)

Messages == [of : Callers, kind : {"request", "reply"}]
Readers == [phase : {"reading", "delivering", "handling", "ended"}, of : Callers \cup {"none"}]

WsTypes ==
    /\ conn \in [Sides -> BOOLEAN] /\ shutdown \in [Sides -> BOOLEAN]
    /\ linkUp \in BOOLEAN
    /\ wire \in [Sides -> Seq(Messages)]
    /\ receiveChans \subseteq Callers /\ inChan \subseteq Callers
    /\ reader \in [Sides -> Readers]
    /\ \A s \in Sides : (reader[s].phase \in {"delivering", "handling"}) => (reader[s].of \in Callers)
    /\ exchange \in [Callers -> {"idle", "sending", "waiting", "answered", "timedOut", "failed"}]
    /\ handled \in [Callers -> 0..1]
    /\ panicked \subseteq Sides

\* A request is on its way to the other side at most once, and was not handled yet.
RequestsAreNew ==
    /\ \A s \in Sides : \A i \in 1..Len(wire[s]) : (wire[s][i].kind = "request") =>
          /\ s # SideOfCaller[wire[s][i].of]
          /\ handled[wire[s][i].of] = 0
          /\ exchange[wire[s][i].of] \notin {"idle", "sending"}
          /\ \A j \in 1..Len(wire[s]) : (wire[s][j] = wire[s][i]) => (j = i)
    /\ \A c \in Callers : (exchange[c] \in {"idle", "sending"}) => (handled[c] = 0)

\* Wherever a reply is, its request was handled.
RepliesAreOfHandled ==
    /\ \A s \in Sides : \A i \in 1..Len(wire[s]) :
          (wire[s][i].kind = "reply") => (handled[wire[s][i].of] = 1)
    /\ \A s \in Sides : (reader[s].phase \in {"delivering", "handling"}) => (handled[reader[s].of] = 1)
    /\ \A c \in inChan : handled[c] = 1

WsInv == WsTypes /\ RequestsAreNew /\ RepliesAreOfHandled /\ ExchangeIsConsistent

\* There are two sides.
LEMMA TheOtherSide ==
    ASSUME NEW s \in Sides
    PROVE  /\ OtherSide(s) \in Sides /\ OtherSide(s) # s
           /\ \A t \in Sides : (t # s) => (t = OtherSide(s))
<1>1. \E t \in Sides : t # s
  BY WsAssumption
<1>2. OtherSide(s) \in Sides /\ OtherSide(s) # s
  BY <1>1 DEF OtherSide
<1> QED
  BY <1>2, WsAssumption

\* A message is of a caller, a request or a reply.
LEMMA MessageOf ==
    ASSUME NEW messages \in Seq(Messages), NEW i \in 1..Len(messages)
    PROVE  /\ messages[i] \in Messages /\ messages[i].of \in Callers
           /\ messages[i].kind \in {"request", "reply"}
<1>1. messages[i] \in Messages
  OBVIOUS
<1> QED
  BY <1>1 DEF Messages

\* So is each that is on its way.
LEMMA WireOf ==
    ASSUME NEW w \in [Sides -> Seq(Messages)], NEW s \in Sides, NEW i \in 1..Len(w[s])
    PROVE  /\ w[s][i] \in Messages /\ w[s][i].of \in Callers
           /\ w[s][i].kind \in {"request", "reply"}
<1>1. w[s] \in Seq(Messages)
  OBVIOUS
<1> QED
  BY <1>1, MessageOf

LEMMA WsInvInit == WsInit => WsInv
<1> SUFFICES ASSUME WsInit PROVE WsInv
  OBVIOUS
<1>1. WsTypes
  BY DEF WsInit, WsTypes, Messages, Readers, Reading
<1>2. \A s \in Sides : Len(wire[s]) = 0 /\ reader[s].phase = "reading"
  BY DEF WsInit, Reading
<1> QED
  BY <1>1, <1>2 DEF WsInit, WsInv, RequestsAreNew, RepliesAreOfHandled, ExchangeIsConsistent,
                    AnsweredWasHandled, RegisteredAreWaiting

LEMMA WsInvGives == WsInv => WsTypeOK /\ ExchangeIsConsistent
<1> SUFFICES ASSUME WsInv PROVE WsTypeOK
  BY DEF WsInv
<1>1. \A s \in Sides : \A i \in 1..Len(wire[s]) : wire[s][i] \in [of : Callers, kind : {"request", "reply"}]
  BY WireOf DEF WsInv, WsTypes, Messages
<1> QED
  BY <1>1 DEF WsInv, WsTypes, WsTypeOK, Readers

\* What is not about the messages of c goes on as it was.
LEMMA CallKeepsWsInv ==
    ASSUME WsInv, NEW c \in Callers, CallExchange(c)
    PROVE  WsInv'
<1>1. WsTypes'
  <2>1. exchange' \in [Callers -> {"idle", "sending", "waiting", "answered", "timedOut", "failed"}]
        /\ receiveChans' \subseteq Callers
    BY DEF CallExchange, WsInv, WsTypes
  <2> QED
    BY <2>1 DEF CallExchange, WsInv, WsTypes
<1>2. \A d \in Callers \ {c} : exchange'[d] = exchange[d]
  BY DEF CallExchange, WsInv, WsTypes
<1>3. exchange[c] = "idle" /\ handled' = handled /\ wire' = wire /\ reader' = reader /\ inChan' = inChan
  BY DEF CallExchange
<1>4. \/ exchange'[c] = "sending" /\ receiveChans' = receiveChans \cup {c}
      \/ exchange'[c] = "failed" /\ receiveChans' = receiveChans
  BY DEF CallExchange, WsInv, WsTypes
<1>5. ExchangeIsConsistent'
  BY <1>1, <1>2, <1>3, <1>4
     DEF WsInv, WsTypes, ExchangeIsConsistent, AnsweredWasHandled, RegisteredAreWaiting, Waiting
<1>6. RepliesAreOfHandled'
  BY <1>3 DEF WsInv, RepliesAreOfHandled
<1>7. RequestsAreNew'
  <2>1. ASSUME NEW s \in Sides, NEW i \in 1..Len(wire[s]), wire[s][i].kind = "request"
        PROVE  exchange'[wire[s][i].of] \notin {"idle", "sending"}
    BY <2>1, <1>2, <1>3, WireOf DEF WsInv, WsTypes, RequestsAreNew
  <2>2. \A d \in Callers : (exchange'[d] \in {"idle", "sending"}) => (handled[d] = 0)
    BY <1>2, <1>3 DEF WsInv, RequestsAreNew
  <2> QED
    BY <2>1, <2>2, <1>3 DEF WsInv, RequestsAreNew
<1> QED
  BY <1>1, <1>5, <1>6, <1>7 DEF WsInv

Sends(s, m) == wire' = [wire EXCEPT ![OtherSide(s)] = Sent(s, m)]

\* What a send does to the wire of the other side.
LEMMA SentTo ==
    ASSUME WsTypes, NEW s \in Sides, NEW m \in Messages, Sends(s, m)
    PROVE  /\ wire' \in [Sides -> Seq(Messages)]
           /\ \A t \in Sides : \A i \in 1..Len(wire'[t]) :
                 \/ i \in 1..Len(wire[t]) /\ wire'[t][i] = wire[t][i]
                 \/ t # s /\ i = Len(wire[t]) + 1 /\ Len(wire'[t]) = i /\ wire'[t][i] = m
<1> DEFINE o == OtherSide(s)
<1>1. o \in Sides /\ o # s
  BY TheOtherSide
<1>2. wire[o] \in Seq(Messages)
  BY <1>1 DEF WsTypes
<1>3. Sent(s, m) \in Seq(Messages) /\ (Sent(s, m) = wire[o] \/ Sent(s, m) = Append(wire[o], m))
  BY <1>2 DEF Sent
<1> HIDE DEF o
<1>4. wire' \in [Sides -> Seq(Messages)] /\ wire' = [wire EXCEPT ![o] = Sent(s, m)]
  BY <1>1, <1>3 DEF WsTypes, o, Sends
<1>5. ASSUME NEW t \in Sides, NEW i \in 1..Len(wire'[t])
      PROVE  \/ i \in 1..Len(wire[t]) /\ wire'[t][i] = wire[t][i]
             \/ t # s /\ i = Len(wire[t]) + 1 /\ Len(wire'[t]) = i /\ wire'[t][i] = m
  <2>1. CASE wire'[t] = wire[t]
    BY <2>1
  <2>2. CASE t = o /\ wire'[o] = Append(wire[o], m)
    BY <2>2, <1>1, <1>2
  <2> QED
    BY <1>3, <1>4, <2>1, <2>2 DEF WsTypes
<1> QED
  BY <1>4, <1>5

LEMMA SendRequestKeepsWsInv ==
    ASSUME WsInv, NEW c \in Callers, SendRequest(c)
    PROVE  WsInv'
<1> DEFINE s == SideOfCaller[c]
           m == Request(c)
<1>1. s \in Sides /\ m \in Messages /\ m.of = c /\ m.kind = "request" /\ exchange[c] = "sending"
  BY WsAssumption DEF Request, Messages, SendRequest
<1>2. Sends(s, m)
  BY DEF Sends, SendRequest
<1>3. /\ handled' = handled /\ reader' = reader /\ inChan' = inChan
      /\ receiveChans' \subseteq receiveChans
      /\ \A d \in Callers \ {c} : exchange'[d] = exchange[d]
      /\ \/ exchange'[c] = "waiting"
         \/ exchange'[c] = "failed" /\ c \notin receiveChans'
  BY DEF SendRequest, Returned, WsInv, WsTypes
<1>4. s = SideOfCaller[c]
  OBVIOUS
<1> HIDE DEF m, s
<1>5. /\ wire' \in [Sides -> Seq(Messages)]
      /\ \A t \in Sides : \A i \in 1..Len(wire'[t]) :
            \/ i \in 1..Len(wire[t]) /\ wire'[t][i] = wire[t][i]
            \/ t # s /\ i = Len(wire[t]) + 1 /\ Len(wire'[t]) = i /\ wire'[t][i] = m
  <2>1. WsTypes
    BY DEF WsInv
  <2> QED
    BY <1>1, <1>2, <2>1, SentTo, SMTT(30)
<1>6. WsTypes'
  BY <1>5 DEF SendRequest, Returned, WsInv, WsTypes, s
<1>7. ExchangeIsConsistent'
  BY <1>3 DEF WsInv, WsTypes, ExchangeIsConsistent, AnsweredWasHandled, RegisteredAreWaiting, Waiting
<1>8. RepliesAreOfHandled'
  BY <1>1, <1>3, <1>5 DEF WsInv, RepliesAreOfHandled
<1>9. \A t \in Sides : \A i \in 1..Len(wire[t]) : wire[t][i] \in Messages /\ wire[t][i] # m
  BY <1>1, WireOf DEF WsInv, WsTypes, RequestsAreNew
<1>10. ASSUME NEW t \in Sides, NEW i \in 1..Len(wire'[t]), wire'[t][i].kind = "request"
      PROVE  /\ t # SideOfCaller[wire'[t][i].of]
             /\ handled'[wire'[t][i].of] = 0
             /\ exchange'[wire'[t][i].of] \notin {"idle", "sending"}
             /\ \A j \in 1..Len(wire'[t]) : (wire'[t][j] = wire'[t][i]) => (j = i)
  <2>1. CASE i \in 1..Len(wire[t]) /\ wire'[t][i] = wire[t][i]
    <3>1. /\ t # SideOfCaller[wire'[t][i].of]
          /\ handled[wire'[t][i].of] = 0
          /\ exchange[wire'[t][i].of] \notin {"idle", "sending"}
          /\ \A j \in 1..Len(wire[t]) : (wire[t][j] = wire'[t][i]) => (j = i)
      BY <1>10, <2>1 DEF WsInv, RequestsAreNew
    <3>2. wire'[t][i].of \in Callers /\ wire'[t][i] # m
      BY <2>1, <1>9, WireOf DEF WsInv, WsTypes
    <3> QED
      BY <1>1, <1>3, <1>5, <3>1, <3>2
  <2>2. CASE t # s /\ i = Len(wire[t]) + 1 /\ Len(wire'[t]) = i /\ wire'[t][i] = m
    <3>1. t # SideOfCaller[c] /\ handled[c] = 0 /\ exchange'[c] \notin {"idle", "sending"}
      BY <1>1, <1>3, <1>4, <2>2 DEF WsInv, RequestsAreNew
    <3>2. ASSUME NEW j \in 1..Len(wire'[t]), wire'[t][j] = m
          PROVE  j = i
      <4>1. ~(j \in 1..Len(wire[t]) /\ wire'[t][j] = wire[t][j])
        BY <1>9, <3>2
      <4> QED
        BY <1>5, <2>2, <4>1
    <3> QED
      BY <1>1, <1>3, <2>2, <3>1, <3>2
  <2> QED
    BY <1>5, <2>1, <2>2
<1>11. RequestsAreNew'
  BY <1>3, <1>10 DEF WsInv, RequestsAreNew
<1> QED
  BY <1>6, <1>7, <1>8, <1>11 DEF WsInv

LEMMA ReturnKeepsWsInv ==
    ASSUME WsInv, NEW c \in Callers, TakeReply(c) \/ TimeOut(c)
    PROVE  WsInv'
<1>1. WsTypes'
  BY DEF TakeReply, TimeOut, Returned, WsInv, WsTypes
<1>2. /\ handled' = handled /\ wire' = wire /\ reader' = reader
      /\ inChan' \subseteq inChan /\ receiveChans' = receiveChans \ {c}
      /\ \A d \in Callers \ {c} : exchange'[d] = exchange[d]
      /\ \/ exchange'[c] = "answered" /\ c \in inChan
         \/ exchange'[c] = "timedOut"
  BY DEF TakeReply, TimeOut, Returned, WsInv, WsTypes
<1>3. ExchangeIsConsistent'
  BY <1>1, <1>2 DEF WsInv, WsTypes, ExchangeIsConsistent, AnsweredWasHandled, RegisteredAreWaiting,
                    Waiting, RepliesAreOfHandled
<1>4. RepliesAreOfHandled'
  BY <1>2 DEF WsInv, RepliesAreOfHandled
<1>5. RequestsAreNew'
  <2>1. ASSUME NEW s \in Sides, NEW i \in 1..Len(wire[s]), wire[s][i].kind = "request"
        PROVE  exchange'[wire[s][i].of] \notin {"idle", "sending"}
    BY <2>1, <1>2, WireOf DEF WsInv, WsTypes, RequestsAreNew
  <2>2. \A d \in Callers : (exchange'[d] \in {"idle", "sending"}) => (handled[d] = 0)
    BY <1>2 DEF WsInv, RequestsAreNew
  <2> QED
    BY <2>1, <2>2, <1>2 DEF WsInv, RequestsAreNew
<1> QED
  BY <1>1, <1>3, <1>4, <1>5 DEF WsInv

LEMMA ReceiveKeepsWsInv ==
    ASSUME WsInv, NEW s \in Sides, Receive(s)
    PROVE  WsInv'
<1> DEFINE m == Head(wire[s])
           c == m.of
<1>1. /\ wire[s] \in Seq(Messages) /\ wire[s] # <<>> /\ m = wire[s][1] /\ m \in Messages
      /\ 1 \in 1..Len(wire[s]) /\ c \in Callers /\ m.kind \in {"request", "reply"}
  <2>1. wire[s] \in Seq(Messages) /\ wire[s] # <<>>
    BY DEF Receive, WsInv, WsTypes
  <2>2. 1 \in 1..Len(wire[s]) /\ m = wire[s][1]
    BY <2>1
  <2> QED
    BY <2>1, <2>2, MessageOf
<1>2. /\ exchange' = exchange /\ inChan' = inChan /\ receiveChans' = receiveChans
      /\ wire' = [wire EXCEPT ![s] = Tail(@)]
      /\ reader' = [reader EXCEPT ![s] = Received(s, m)]
      /\ handled' = IF Received(s, m) = Handling(c) THEN [handled EXCEPT ![c] = @ + 1] ELSE handled
  BY DEF Receive
<1> HIDE DEF m
<1>3. /\ wire' \in [Sides -> Seq(Messages)]
      /\ \A i \in 1..Len(wire'[s]) : i + 1 \in 1..Len(wire[s]) /\ wire'[s][i] = wire[s][i + 1]
      /\ \A t \in Sides \ {s} : wire'[t] = wire[t]
  BY <1>1, <1>2 DEF WsInv, WsTypes
<1>4. \/ /\ m.kind = "reply" /\ handled' = handled /\ handled[c] = 1
         /\ Received(s, m) \in {Delivering(c), Reading}
      \/ /\ m.kind = "request" /\ Received(s, m) = Handling(c)
         /\ handled[c] = 0 /\ handled' = [handled EXCEPT ![c] = 1]
         /\ exchange[c] \notin {"idle", "sending"} /\ s # SideOfCaller[c]
  <2>1. CASE m.kind = "reply"
    BY <2>1, <1>1, <1>2 DEF WsInv, RepliesAreOfHandled, Received, Delivering, Reading, Handling
  <2>2. CASE m.kind = "request"
    <3>1. s # SideOfCaller[c] /\ handled[c] = 0 /\ exchange[c] \notin {"idle", "sending"}
      BY <2>2, <1>1 DEF WsInv, RequestsAreNew
    <3>2. Received(s, m) = Handling(c)
      BY <2>2, <3>1 DEF Received, CallersOn
    <3> QED
      <4>1. handled' = [handled EXCEPT ![c] = handled[c] + 1]
        BY <1>2, <3>2
      <4> QED
        BY <2>2, <3>1, <3>2, <4>1
  <2> QED
    BY <1>1, <2>1, <2>2
<1>5. /\ handled' \in [Callers -> 0..1] /\ handled'[c] = 1
      /\ \A d \in Callers \ {c} : handled'[d] = handled[d]
  <2>1. (handled' = handled /\ handled[c] = 1) \/ handled' = [handled EXCEPT ![c] = 1]
    BY <1>4
  <2> HIDE DEF c
  <2> QED
    BY <2>1, <1>1 DEF WsInv, WsTypes
<1>6. Received(s, m) \in Readers /\ Received(s, m).of \in {c, "none"}
      /\ (Received(s, m).phase \in {"delivering", "handling"} => Received(s, m).of = c)
  BY <1>1, <1>4 DEF Readers, Delivering, Reading, Handling
<1>7. WsTypes'
  BY <1>1, <1>2, <1>3, <1>5, <1>6 DEF Receive, WsInv, WsTypes
<1>8. ExchangeIsConsistent'
  BY <1>2, <1>5 DEF WsInv, WsTypes, ExchangeIsConsistent, AnsweredWasHandled, RegisteredAreWaiting, Waiting
<1>9. RepliesAreOfHandled'
  <2>1. \A d \in Callers : (handled[d] = 1) => (handled'[d] = 1)
    BY <1>5
  <2>2. \A t \in Sides : (reader'[t].phase \in {"delivering", "handling"}) => (handled'[reader'[t].of] = 1)
    BY <2>1, <1>2, <1>5, <1>6 DEF WsInv, WsTypes, RepliesAreOfHandled
  <2>3. ASSUME NEW t \in Sides, NEW i \in 1..Len(wire'[t]), wire'[t][i].kind = "reply"
        PROVE  handled'[wire'[t][i].of] = 1
    <3>1. \E j \in 1..Len(wire[t]) : wire'[t][i] = wire[t][j]
      BY <1>3
    <3>2. wire'[t][i] \in Messages
      BY <1>3
    <3> QED
      BY <2>1, <2>3, <3>1, <3>2 DEF WsInv, RepliesAreOfHandled, Messages
  <2>4. \A d \in inChan' : handled'[d] = 1
    BY <2>1, <1>2 DEF WsInv, WsTypes, RepliesAreOfHandled
  <2> QED
    BY <2>2, <2>3, <2>4 DEF RepliesAreOfHandled
<1>10. RequestsAreNew'
  <2>1. ASSUME NEW t \in Sides, NEW i \in 1..Len(wire'[t]), wire'[t][i].kind = "request"
        PROVE  /\ t # SideOfCaller[wire'[t][i].of]
               /\ handled'[wire'[t][i].of] = 0
               /\ exchange'[wire'[t][i].of] \notin {"idle", "sending"}
               /\ \A j \in 1..Len(wire'[t]) : (wire'[t][j] = wire'[t][i]) => (j = i)
    <3>1. wire'[t][i] \in Messages /\ wire'[t][i].of \in Callers
      BY <1>3, WireOf
    <3>2. /\ t # SideOfCaller[wire'[t][i].of]
          /\ handled[wire'[t][i].of] = 0
          /\ exchange'[wire'[t][i].of] \notin {"idle", "sending"}
          /\ \A j \in 1..Len(wire'[t]) : (wire'[t][j] = wire'[t][i]) => (j = i)
      <4>1. CASE t = s
        BY <4>1, <1>2, <1>3, <2>1 DEF WsInv, RequestsAreNew
      <4>2. CASE t # s
        BY <4>2, <1>2, <1>3, <2>1 DEF WsInv, RequestsAreNew
      <4> QED
        BY <4>1, <4>2
    <3>3. wire'[t][i].of # c
      <4>1. CASE m.kind = "reply"
        BY <4>1, <1>4, <3>2
      <4>2. CASE m.kind = "request" /\ wire'[t][i].of = c
        <5>1. wire'[t][i] = m
          BY <4>2, <2>1, <1>1, <3>1 DEF Messages
        <5>2. t = s
          BY <4>2, <1>1, <1>4, <3>2, TheOtherSide, WsAssumption
        <5>3. \A j \in 1..Len(wire[s]) : (wire[s][j] = wire[s][1]) => (j = 1)
          BY <4>2, <1>1 DEF WsInv, RequestsAreNew
        <5>4. i + 1 \in 1..Len(wire[s]) /\ wire[s][i + 1] = wire[s][1]
          BY <5>1, <5>2, <1>1, <1>3
        <5>5. i \in Nat /\ i > 0
          OBVIOUS
        <5> QED
          BY <5>3, <5>4, <5>5
      <4> QED
        BY <4>1, <4>2, <1>1
    <3> QED
      BY <3>1, <3>2, <3>3, <1>5
  <2>2. \A d \in Callers : (exchange'[d] \in {"idle", "sending"}) => (handled'[d] = 0)
    BY <1>2, <1>4, <1>5 DEF WsInv, WsTypes, RequestsAreNew
  <2> QED
    BY <2>1, <2>2 DEF RequestsAreNew
<1> QED
  BY <1>7, <1>8, <1>9, <1>10 DEF WsInv

LEMMA SendReplyKeepsWsInv ==
    ASSUME WsInv, NEW s \in Sides, SendReply(s)
    PROVE  WsInv'
<1> DEFINE c == reader[s].of
           m == Reply(c)
<1>1. c \in Callers /\ m \in Messages /\ m.of = c /\ m.kind = "reply" /\ handled[c] = 1
  BY DEF Reply, Messages, SendReply, WsInv, WsTypes, RepliesAreOfHandled
<1>2. Sends(s, m)
  BY DEF Sends, SendReply
<1>3. /\ handled' = handled /\ inChan' = inChan /\ receiveChans' = receiveChans /\ exchange' = exchange
      /\ reader' \in [Sides -> Readers]
      /\ \A t \in Sides : reader'[t] = reader[t] \/ reader'[t].phase \in {"reading", "ended"}
  BY SMTT(30) DEF SendReply, WsInv, WsTypes, Readers, Reading, Ended
<1> HIDE DEF m, c
<1>4. /\ wire' \in [Sides -> Seq(Messages)]
      /\ \A t \in Sides : \A i \in 1..Len(wire'[t]) :
            \/ i \in 1..Len(wire[t]) /\ wire'[t][i] = wire[t][i]
            \/ t # s /\ i = Len(wire[t]) + 1 /\ Len(wire'[t]) = i /\ wire'[t][i] = m
  <2>1. WsTypes
    BY DEF WsInv
  <2> QED
    BY <1>1, <1>2, <2>1, SentTo, SMTT(30)
<1>5. WsTypes'
  BY <1>3, <1>4 DEF SendReply, CloseSide, WsInv, WsTypes
<1>6. ExchangeIsConsistent'
  BY <1>3 DEF WsInv, ExchangeIsConsistent, AnsweredWasHandled, RegisteredAreWaiting, Waiting
<1>7. RepliesAreOfHandled'
  <2>1. ASSUME NEW t \in Sides, NEW i \in 1..Len(wire'[t]), wire'[t][i].kind = "reply"
        PROVE  handled'[wire'[t][i].of] = 1
    BY <2>1, <1>1, <1>3, <1>4, SMTT(30) DEF WsInv, RepliesAreOfHandled
  <2>2. \A t \in Sides : (reader'[t].phase \in {"delivering", "handling"}) => (handled'[reader'[t].of] = 1)
    BY <1>3 DEF WsInv, RepliesAreOfHandled
  <2> QED
    BY <2>1, <2>2, <1>3 DEF WsInv, RepliesAreOfHandled
<1>8. RequestsAreNew'
  <2>1. ASSUME NEW t \in Sides, NEW i \in 1..Len(wire'[t]), wire'[t][i].kind = "request"
        PROVE  /\ t # SideOfCaller[wire'[t][i].of]
               /\ handled'[wire'[t][i].of] = 0
               /\ exchange'[wire'[t][i].of] \notin {"idle", "sending"}
               /\ \A j \in 1..Len(wire'[t]) : (wire'[t][j] = wire'[t][i]) => (j = i)
    <3>1. i \in 1..Len(wire[t]) /\ wire'[t][i] = wire[t][i]
      BY <2>1, <1>1, <1>4
    <3>2. \A j \in 1..Len(wire'[t]) : (wire'[t][j] = wire'[t][i]) => (j \in 1..Len(wire[t]) /\ wire'[t][j] = wire[t][j])
      BY <2>1, <1>1, <1>4
    <3> QED
      BY <2>1, <3>1, <3>2, <1>3 DEF WsInv, RequestsAreNew
  <2> QED
    BY <2>1, <1>3 DEF WsInv, RequestsAreNew
<1> QED
  BY <1>5, <1>6, <1>7, <1>8 DEF WsInv

\* All others leave the messages and what was handled alone.
LEMMA OthersKeepWsInv ==
    ASSUME WsInv,
           \/ \E c \in Callers : SendRequestPanics(c)
           \/ \E s \in Sides : \/ ReceiveFails(s) \/ ReaderEnds(s) \/ Deliver(s)
                               \/ SendReplyPanics(s) \/ Close(s)
           \/ LinkFails
           \/ UNCHANGED wsVars
    PROVE  WsInv'
<1>1. /\ handled' = handled /\ wire' = wire /\ receiveChans' = receiveChans /\ exchange' = exchange
      /\ \/ inChan' = inChan
         \/ \E s \in Sides : reader[s].phase = "delivering" /\ inChan' = inChan \cup {reader[s].of}
      /\ reader' \in [Sides -> Readers]
      /\ \A t \in Sides : reader'[t] = reader[t] \/ reader'[t].phase \in {"reading", "ended"}
  <2>1. CASE \E s \in Sides : ReceiveFails(s) \/ ReaderEnds(s) \/ Deliver(s)
    <3>1. Reading \in Readers /\ Ended \in Readers /\ Reading.phase = "reading" /\ Ended.phase = "ended"
      BY DEF Readers, Reading, Ended
    <3>2. PICK s \in Sides : ReceiveFails(s) \/ ReaderEnds(s) \/ Deliver(s)
      BY <2>1
    <3>3. \E r \in {Reading, Ended} : reader' = [reader EXCEPT ![s] = r]
      BY <3>2 DEF ReceiveFails, ReaderEnds, Deliver
    <3>4. /\ reader' \in [Sides -> Readers]
          /\ \A t \in Sides : reader'[t] = reader[t] \/ reader'[t].phase \in {"reading", "ended"}
      BY <3>1, <3>3 DEF WsInv, WsTypes
    <3> QED
      BY <3>2, <3>4 DEF ReceiveFails, ReaderEnds, Deliver
  <2>2. CASE ~ \E s \in Sides : ReceiveFails(s) \/ ReaderEnds(s) \/ Deliver(s)
    BY <2>2 DEF SendRequestPanics, SendReplyPanics, Close, LinkFails, wsVars, WsInv, WsTypes
  <2> QED
    BY <2>1, <2>2
<1>2. /\ conn' \in [Sides -> BOOLEAN] /\ shutdown' \in [Sides -> BOOLEAN]
      /\ linkUp' \in BOOLEAN /\ panicked' \subseteq Sides
  BY WsAssumption DEF SendRequestPanics, ReceiveFails, ReaderEnds, Deliver, SendReplyPanics, Close, CloseSide,
         LinkFails, wsVars, WsInv, WsTypes
<1>3. WsTypes'
  BY <1>1, <1>2 DEF WsInv, WsTypes
<1>4. ExchangeIsConsistent'
  BY <1>1 DEF WsInv, ExchangeIsConsistent, AnsweredWasHandled, RegisteredAreWaiting, Waiting
<1>5. RepliesAreOfHandled'
  BY <1>1 DEF WsInv, RepliesAreOfHandled
<1>6. RequestsAreNew'
  BY <1>1 DEF WsInv, RequestsAreNew
<1> QED
  BY <1>3, <1>4, <1>5, <1>6 DEF WsInv

LEMMA WsInvStep == WsInv /\ [WsNext]_wsVars => WsInv'
  BY CallKeepsWsInv, SendRequestKeepsWsInv, ReturnKeepsWsInv, ReceiveKeepsWsInv, SendReplyKeepsWsInv,
     OthersKeepWsInv DEF WsNext, ExchangeSteps, ReaderSteps

WsSpec == WsInit /\ [][WsNext]_wsVars

\* zwebsocket: an exchange that was answered was handled by the other side, once, and only
\* exchanges in progress are registered, for any number of callers, closes and failures.
THEOREM ExchangesAreConsistent == WsSpec => []ExchangeIsConsistent
<1>1. WsSpec => []WsInv
  BY WsInvInit, WsInvStep, PTL DEF WsSpec
<1> QED
  BY <1>1, WsInvGives, PTL

------------------------------------------------------------------------------
(* RemoteCalls *)

Early == {"idle", "waitingForConnect", "prepared"}
IDs == 1..(MaxRestarts + 1)
CallStates == [phase : Early \cup {"sent", "succeeded", "failed"}, link : Links \cup {NoLink},
               target : IDs \cup {NoID}]
Replies == [id : IDs \cup {NoID}, error : {"none", "call", "mismatch"}]

RpcTypes ==
    /\ rpcStarted \in BOOLEAN /\ serverUp \in BOOLEAN
    /\ serverID \in IDs /\ (~serverUp => serverID <= MaxRestarts)
    /\ connection \in Links \cup {NoLink} /\ registered \in Links \cup {NoLink}
    /\ targetID \in IDs \cup {NoID}
    /\ connector \in [Connectors -> {"idle", "connecting", "done"}]
    /\ links \in [Links -> {"unused", "up", "down"}] /\ reads \subseteq Links
    /\ inbox \in [Links -> Seq(Calls \cup {"executed"})]
    /\ call \in [Calls -> CallStates]
    /\ reply \in [Calls -> Replies]
    /\ executed \in [Calls -> SUBSET IDs]

\* Links are used in their order, and the server's last one is the client's or a later one.
LinksAreInOrder ==
    /\ \A k \in Links : (links[k] = "up") => (serverUp /\ registered >= k)
    /\ \A k, l \in Links : (links[k] = "unused" /\ links[l] # "unused") => (l < k)
    /\ (connection # NoLink) => (links[connection] # "unused")

\* The i-th of the inbox of k is the request of c.
IsRequest(c, k, i) ==
    /\ call[c].phase \notin Early
    /\ reply[c] = NoReply
    /\ executed[c] = IF i = 2 /\ inbox[k][1] = "executed" THEN {serverID} ELSE {}
    /\ \A l \in Links : \A j \in 1..Len(inbox[l]) : (inbox[l][j] = c) => (l = k /\ j = i)

IsMark(k, i) == inbox[k][i] = "executed" /\ i = 1 /\ Len(inbox[k]) > 1
HasRequest(k, i) == inbox[k][i] \in Calls /\ IsRequest(inbox[k][i], k, i)

\* A call is in one inbox at most, once, and was executed when it is behind the mark.
RequestsAreOnce ==
    /\ ~serverUp => \A k \in Links : inbox[k] = <<>>
    /\ \A k \in Links : \A i \in 1..Len(inbox[k]) : IsMark(k, i) \/ HasRequest(k, i)

\* A reply without an error is that of the one server that executed the call.
RepliesAreOfTarget ==
    \A c \in Calls :
        /\ (call[c].phase \in Early) => (executed[c] = {} /\ reply[c] = NoReply)
        /\ (reply[c] # NoReply) => (reply[c].id \in IDs)
        /\ (reply[c] # NoReply /\ reply[c].error = "none") =>
              (executed[c] = {reply[c].id} /\ call[c].target \in {NoID, reply[c].id})
        /\ (call[c].phase = "succeeded") => (reply[c] # NoReply /\ reply[c].error = "none")

RpcInv == RpcTypes /\ LinksAreInOrder /\ RequestsAreOnce /\ RepliesAreOfTarget

\* Links are numbered from one.
LEMMA LinkNumbers == Links \subseteq Nat /\ 0 \notin Links
<1>1. Cardinality(Links) \in Nat
  BY RpcAssumption, FS_CardinalityType
<1> QED
  BY <1>1, RpcAssumption

LEMMA RpcInvInit == RpcInit => RpcInv
<1> SUFFICES ASSUME RpcInit PROVE RpcInv
  OBVIOUS
<1>1. 1 \in IDs /\ MaxRestarts \in Nat
  BY RpcAssumption DEF IDs
<1>2. RpcTypes
  <2>1. <<>> \in Seq(Calls \cup {"executed"})
    OBVIOUS
  <2>2. NoReply \in Replies /\ [phase |-> "idle", link |-> NoLink, target |-> NoID] \in CallStates
    BY DEF CallStates, Replies, NoReply, Early, NoID, NoLink
  <2> QED
    BY <1>1, <2>1, <2>2 DEF RpcInit, RpcTypes, NoID, NoLink
<1>3. LinksAreInOrder
  BY DEF RpcInit, LinksAreInOrder
<1>4. RequestsAreOnce
  BY DEF RpcInit, RequestsAreOnce
<1>5. RepliesAreOfTarget
  BY DEF RpcInit, RepliesAreOfTarget, Early
<1> QED
  BY <1>2, <1>3, <1>4, <1>5 DEF RpcInv

LEMMA RpcInvGives == RpcInv => RpcTypeOK /\ CallsAreConsistent
<1> SUFFICES ASSUME RpcInv PROVE RpcTypeOK /\ CallsAreConsistent
  OBVIOUS
<1>1. RpcTypeOK
  BY RpcAssumption DEF RpcInv, RpcTypes, RpcTypeOK, CallStates, Replies, Early, IDs, NoID
<1>2. SuccessIsOfTarget
  BY DEF RpcInv, RepliesAreOfTarget, SuccessIsOfTarget, IDs
<1>3. IsUp(connection) => registered >= connection
  BY DEF RpcInv, RpcTypes, LinksAreInOrder, IsUp
<1> QED
  BY <1>1, <1>2, <1>3 DEF CallsAreConsistent

\* Links that go down stay in their order.
LEMMA LinksDown ==
    ASSUME RpcInv,
           serverUp' = serverUp, registered' = registered,
           connection' \in {connection, NoLink},
           \A k \in Links : \/ links'[k] = links[k]
                            \/ k = connection /\ links'[k] = "down"
    PROVE  LinksAreInOrder'
<1>1. connection = NoLink \/ links[connection] # "unused"
  BY DEF RpcInv, LinksAreInOrder
<1>2. \A k \in Links : (links'[k] = "up" => links[k] = "up") /\ (links'[k] = "unused" <=> links[k] = "unused")
  BY <1>1, LinkNumbers DEF NoLink
<1>3. (connection' # NoLink) => (connection \in Links /\ connection' = connection)
  BY DEF RpcInv, RpcTypes
<1> QED
  BY <1>1, <1>2, <1>3 DEF RpcInv, LinksAreInOrder

\* A client's call goes on; what has been sent and answered does not change.
CallGoesOn(c) ==
    \/ call'[c] = call[c]
    \/ call[c].phase \in Early /\ call'[c].phase \in Early \cup {"sent", "failed"}
    \/ /\ call[c].phase = "sent" /\ call'[c].target = call[c].target
       /\ \/ call'[c].phase = "failed"
          \/ reply[c] # NoReply /\ call'[c].phase = Result(reply[c])

\* Calls that go on without the server leave what it was sent and has answered.
LEMMA CallsGoOn ==
    ASSUME RpcInv, UNCHANGED <<serverUp, serverID, inbox, reply, executed>>,
           \A c \in Calls : CallGoesOn(c)
    PROVE  RequestsAreOnce' /\ RepliesAreOfTarget'
<1>1. \A c \in Calls : call[c].phase \notin Early => call'[c].phase \notin Early
  BY DEF CallGoesOn, Early, Result
<1>2. RequestsAreOnce'
  <2>1. ASSUME NEW k \in Links, NEW i \in 1..Len(inbox[k]), HasRequest(k, i)
        PROVE  HasRequest(k, i)'
    BY <1>1, <2>1 DEF HasRequest, IsRequest
  <2> QED
    BY <2>1 DEF RpcInv, RequestsAreOnce, IsMark
<1>3. ASSUME NEW c \in Calls
      PROVE  /\ (call'[c].phase \in Early) => (executed[c] = {} /\ reply[c] = NoReply)
             /\ (reply[c] # NoReply) => (reply[c].id \in IDs)
             /\ (reply[c] # NoReply /\ reply[c].error = "none") =>
                   (executed[c] = {reply[c].id} /\ call'[c].target \in {NoID, reply[c].id})
             /\ (call'[c].phase = "succeeded") => (reply[c] # NoReply /\ reply[c].error = "none")
  <2>1. CallGoesOn(c)
    OBVIOUS
  <2> QED
    BY <1>1, <2>1 DEF RpcInv, RepliesAreOfTarget, CallGoesOn, Early, Result
<1>4. RepliesAreOfTarget'
  BY <1>3 DEF RepliesAreOfTarget
<1> QED
  BY <1>2, <1>4

LEMMA ClientKeepsRpcInv ==
    ASSUME RpcInv,
           \/ RpcStart
           \/ \E x \in Connectors : ConnectIfNeeded(x) \/ ConnectFails(x)
           \/ \E k \in Links : ReadFails(k)
           \/ \E c \in Calls : \/ Prepare(c) \/ WaitForConnect(c) \/ NoConnection(c)
                               \/ ExchangeFails(c) \/ TakeCallReply(c)
           \/ UNCHANGED rpcVars
    PROVE  RpcInv'
<1>1. UNCHANGED <<serverUp, serverID, registered, inbox, reply, executed>>
  BY DEF RpcStart, ConnectIfNeeded, ConnectFails, ReadFails, Prepare, WaitForConnect, NoConnection,
         ExchangeFails, TakeCallReply, serverVars, rpcVars
<1>2. /\ connection' \in {connection, NoLink}
      /\ links' \in [Links -> {"unused", "up", "down"}]
      /\ \A k \in Links : \/ links'[k] = links[k]
                          \/ k = connection /\ links'[k] = "down"
  BY DEF RpcStart, ConnectIfNeeded, ConnectFails, ReadFails, Prepare, WaitForConnect, NoConnection,
         ExchangeFails, TakeCallReply, serverVars, clientVars, rpcVars, handleClientError, RpcInv, RpcTypes
<1>3. /\ rpcStarted' \in BOOLEAN
      /\ connector' \in [Connectors -> {"idle", "connecting", "done"}]
      /\ reads' \subseteq Links
  BY DEF RpcStart, ConnectIfNeeded, ConnectFails, ReadFails, Prepare, WaitForConnect, NoConnection,
         ExchangeFails, TakeCallReply, serverVars, clientVars, rpcVars, handleClientError, RpcInv, RpcTypes,
         AfterConnecting
<1>4. targetID' \in IDs \cup {NoID}
  <2>1. ASSUME NEW c \in Calls, TakeCallReply(c) PROVE targetID' \in IDs \cup {NoID}
    BY <2>1 DEF TakeCallReply, RpcInv, RpcTypes, Replies
  <2>2. targetID' = targetID \/ \E c \in Calls : TakeCallReply(c)
    BY DEF RpcStart, ConnectIfNeeded, ConnectFails, ReadFails, Prepare, WaitForConnect, NoConnection,
           ExchangeFails, clientVars, rpcVars
  <2> QED
    BY <2>1, <2>2 DEF RpcInv, RpcTypes
<1>5. call' \in [Calls -> CallStates] /\ \A c \in Calls : CallGoesOn(c)
  <2>1. CASE call' = call
    BY <2>1 DEF CallGoesOn, RpcInv, RpcTypes
  <2>2. ASSUME NEW c \in Calls, Prepare(c)
        PROVE  call' \in [Calls -> CallStates] /\ \A d \in Calls : CallGoesOn(d)
    BY <2>2, ZenonT(40) DEF Prepare, CallGoesOn, RpcInv, RpcTypes, CallStates, Early
  <2>3. ASSUME NEW c \in Calls, NEW phase, call' = [call EXCEPT ![c].phase = phase],
               \/ call[c].phase \in Early /\ phase \in Early \cup {"failed"}
               \/ /\ call[c].phase = "sent"
                  /\ phase = "failed" \/ (reply[c] # NoReply /\ phase = Result(reply[c]))
        PROVE  call' \in [Calls -> CallStates] /\ \A d \in Calls : CallGoesOn(d)
    BY <2>3 DEF CallGoesOn, RpcInv, RpcTypes, CallStates, Early, Result
  <2>4. ASSUME NEW c \in Calls,
               WaitForConnect(c) \/ NoConnection(c) \/ ExchangeFails(c) \/ TakeCallReply(c)
        PROVE  call' \in [Calls -> CallStates] /\ \A d \in Calls : CallGoesOn(d)
    <3>1. CASE WaitForConnect(c)
      BY <3>1, <2>3 DEF WaitForConnect, Phase, Early
    <3>2. CASE NoConnection(c)
      BY <3>2, <2>3 DEF NoConnection, Phase, Early
    <3>3. CASE ExchangeFails(c)
      <4>1. /\ call[c].phase \in Early \/ call[c].phase = "sent"
            /\ call' = [call EXCEPT ![c].phase = "failed"]
        BY <3>3 DEF ExchangeFails, Phase, Early
      <4>2. CASE call[c].phase \in Early
        BY <4>1, <4>2, <2>3
      <4>3. CASE call[c].phase = "sent"
        BY <4>1, <4>3 DEF CallGoesOn, RpcInv, RpcTypes, CallStates, Early
      <4> QED
        BY <4>1, <4>2, <4>3
    <3>4. CASE TakeCallReply(c)
      BY <3>4, <2>3 DEF TakeCallReply, Phase
    <3> QED
      BY <2>4, <3>1, <3>2, <3>3, <3>4
  <2> QED
    BY <2>1, <2>2, <2>4 DEF RpcStart, ConnectIfNeeded, ConnectFails, ReadFails, rpcVars
<1>6. RpcTypes'
  BY <1>1, <1>2, <1>3, <1>4, <1>5 DEF RpcInv, RpcTypes
<1> QED
  BY <1>1, <1>2, <1>5, <1>6, LinksDown, CallsGoOn DEF RpcInv

\* The next link is the one after all that were used.
LEMMA NextLinkIsNext ==
    ASSUME Unused # {}
    PROVE  /\ NextLink \in Links /\ links[NextLink] = "unused"
           /\ \A l \in Links : (links[l] = "unused") => (NextLink <= l)
<1>1. Unused \in SUBSET Nat
  BY LinkNumbers DEF Unused
<1>2. \E k \in Unused : \A l \in Unused : k <= l
  BY <1>1, SmallestNumber
<1>3. NextLink \in Unused /\ \A l \in Unused : NextLink <= l
  BY <1>2 DEF NextLink
<1> QED
  BY <1>3 DEF Unused

LEMMA ConnectedKeepsRpcInv ==
    ASSUME RpcInv, NEW x \in Connectors, Connected(x)
    PROVE  RpcInv'
<1> DEFINE n == NextLink
<1>1. n \in Links /\ links[n] = "unused" /\ \A l \in Links : (links[l] = "unused") => (n <= l)
  BY NextLinkIsNext DEF Connected
<1>2. /\ UNCHANGED <<rpcStarted, serverUp, serverID, targetID, inbox, call, reply, executed>>
      /\ serverUp /\ connection' = n /\ registered' = n
      /\ links' = [links EXCEPT ![n] = "up"] /\ reads' = reads \cup {n}
      /\ connector' = AfterConnecting(x)
  BY DEF Connected, setClientToServer
<1> HIDE DEF n
<1>3. RpcTypes'
  BY <1>1, <1>2 DEF RpcInv, RpcTypes, AfterConnecting
<1>4. LinksAreInOrder'
  <2>1. \A l \in Links : (links[l] # "unused") => (l < n)
    BY <1>1 DEF RpcInv, LinksAreInOrder
  <2>2. \A l \in Links : (links'[l] # "unused") => (l <= n)
    BY <1>2, <2>1, LinkNumbers, <1>1 DEF RpcInv, RpcTypes
  <2>3. \A l \in Links : (links'[l] = "unused") => (links[l] = "unused" /\ l # n)
    BY <1>1, <1>2 DEF RpcInv, RpcTypes
  <2>4. \A k, l \in Links : (links'[k] = "unused" /\ links'[l] # "unused") => (l < k)
    BY <1>1, <2>2, <2>3, LinkNumbers
  <2>5. \A k \in Links : (links'[k] = "up") => (serverUp' /\ registered' >= k)
    BY <1>1, <1>2, <2>2, LinkNumbers
  <2>6. links'[connection'] # "unused"
    BY <1>1, <1>2 DEF RpcInv, RpcTypes
  <2> QED
    BY <2>4, <2>5, <2>6 DEF LinksAreInOrder
<1>5. RequestsAreOnce' /\ RepliesAreOfTarget'
  BY <1>2, CallsGoOn DEF CallGoesOn
<1> QED
  BY <1>3, <1>4, <1>5 DEF RpcInv

\* What makes a message in an inbox the one request of its call.
LEMMA RequestOf ==
    ASSUME NEW k, NEW i, NEW d \in Calls, d = inbox'[k][i],
           call'[d].phase \notin Early, reply'[d] = NoReply,
           executed'[d] = IF i = 2 /\ inbox'[k][1] = "executed" THEN {serverID'} ELSE {},
           \A l \in Links : \A j \in 1..Len(inbox'[l]) : (inbox'[l][j] = d) => (l = k /\ j = i)
    PROVE  HasRequest(k, i)'
  BY DEF HasRequest, IsRequest

LEMMA ExchangeCallKeepsRpcInv ==
    ASSUME RpcInv, NEW c \in Calls, ExchangeCall(c)
    PROVE  RpcInv'
<1>1. /\ UNCHANGED <<rpcStarted, connection, targetID, connector, reads>>
      /\ UNCHANGED <<links, reply, serverUp, serverID, registered, executed>>
      /\ call[c].phase = "prepared" /\ connection # NoLink
      /\ call' = [call EXCEPT ![c].phase = "sent", ![c].link = connection]
      /\ inbox' = IF IsUp(connection) THEN [inbox EXCEPT ![connection] = Append(@, c)] ELSE inbox
  BY DEF ExchangeCall, clientVars
<1>2. /\ call' \in [Calls -> CallStates] /\ call'[c].phase = "sent"
      /\ \A d \in Calls \ {c} : call'[d] = call[d]
  BY <1>1, ZenonT(40) DEF RpcInv, RpcTypes, CallStates, Early
<1>3. \A d \in Calls : CallGoesOn(d)
  BY <1>1, <1>2 DEF CallGoesOn, Early
<1>4. RepliesAreOfTarget'
  BY <1>1, <1>2 DEF RpcInv, RepliesAreOfTarget, Early
<1>5. LinksAreInOrder'
  BY <1>1, LinksDown
<1>6. CASE ~IsUp(connection)
  <2>1. inbox' = inbox
    BY <1>1, <1>6
  <2>2. RequestsAreOnce'
    BY <1>1, <1>3, <2>1, CallsGoOn
  <2>3. RpcTypes'
    BY <1>1, <1>2, <2>1 DEF RpcInv, RpcTypes
  <2> QED
    BY <1>4, <1>5, <2>2, <2>3 DEF RpcInv
<1>7. CASE IsUp(connection)
  <2>1. PICK n \in Links : n = connection /\ links[n] = "up" /\ serverUp
    BY <1>1, <1>7 DEF RpcInv, RpcTypes, LinksAreInOrder, IsUp
  <2>2. inbox[n] \in Seq(Calls \cup {"executed"})
    BY DEF RpcInv, RpcTypes
  <2>3. inbox' = [inbox EXCEPT ![n] = Append(inbox[n], c)]
    BY <1>1, <1>7, <2>1
  <2>4. /\ Append(inbox[n], c) \in Seq(Calls \cup {"executed"})
        /\ Len(Append(inbox[n], c)) = Len(inbox[n]) + 1
        /\ \A i \in 1..Len(inbox[n]) : Append(inbox[n], c)[i] = inbox[n][i]
        /\ Append(inbox[n], c)[Len(inbox[n]) + 1] = c
    BY <2>2
  <2>5. RpcTypes'
    BY <1>1, <1>2, <2>3, <2>4 DEF RpcInv, RpcTypes
  <2>6. \A k \in Links : inbox[k] \in Seq(Calls \cup {"executed"}) /\ (k # n => inbox'[k] = inbox[k])
    BY <2>3 DEF RpcInv, RpcTypes
  <2>7. \A k \in Links : \A i \in 1..Len(inbox'[k]) :
            \/ i \in 1..Len(inbox[k]) /\ inbox'[k][i] = inbox[k][i]
            \/ k = n /\ i = Len(inbox[n]) + 1 /\ inbox'[k][i] = c
    BY <2>3, <2>4, <2>6, <2>2 DEF RpcInv, RpcTypes
  <2>8. \A k \in Links : \A i \in 1..Len(inbox[k]) : inbox[k][i] # c
    BY <1>1, RpcAssumption DEF RpcInv, RequestsAreOnce, IsMark, HasRequest, IsRequest, Early
  <2>9. \A k \in Links : (inbox[k] # <<>>) => (inbox'[k][1] = inbox[k][1])
    BY <2>2, <2>3, <2>4, <2>6 DEF RpcInv, RpcTypes
  <2>10. ASSUME NEW k \in Links, NEW i \in 1..Len(inbox'[k])
         PROVE  IsMark(k, i)' \/ HasRequest(k, i)'
    <3>1. i \in Nat
      BY <2>5 DEF RpcTypes
    <3>2. CASE i \in 1..Len(inbox[k]) /\ inbox'[k][i] = inbox[k][i] /\ inbox[k][i] = "executed"
      BY <3>2, <2>2, <2>3, <2>4, <2>6, RpcAssumption DEF RpcInv, RequestsAreOnce, IsMark, HasRequest
    <3>3. CASE i \in 1..Len(inbox[k]) /\ inbox'[k][i] = inbox[k][i] /\ inbox[k][i] \in Calls
      <4>1. PICK d \in Calls : d = inbox[k][i] /\ IsRequest(d, k, i)
        BY <3>3, RpcAssumption DEF RpcInv, RequestsAreOnce, IsMark, HasRequest
      <4>2. d # c
        BY <2>8, <3>3, <4>1
      <4>3. \A l \in Links : \A j \in 1..Len(inbox'[l]) : (inbox'[l][j] = d) => (l = k /\ j = i)
        BY <2>7, <4>1, <4>2 DEF IsRequest
      <4>4. inbox'[k][1] = inbox[k][1]
        BY <3>3, <2>6, <2>9
      <4>5. executed'[d] = IF i = 2 /\ inbox'[k][1] = "executed" THEN {serverID'} ELSE {}
        BY <4>1, <4>4, <1>1 DEF IsRequest
      <4>6. call'[d].phase \notin Early /\ reply'[d] = NoReply
        BY <4>1, <4>2, <1>1, <1>2 DEF IsRequest
      <4> QED
        BY <3>3, <4>1, <4>3, <4>5, <4>6, RequestOf
    <3>4. CASE k = n /\ i = Len(inbox[n]) + 1 /\ inbox'[k][i] = c
      <4>1. (i = 2) => (inbox'[n][1] # "executed")
        <5>1. SUFFICES ASSUME i = 2 PROVE inbox'[n][1] # "executed"
          OBVIOUS
        <5>2. Len(inbox[n]) \in Nat
          BY <2>2
        <5>3. 1 \in 1..Len(inbox[n]) /\ Len(inbox[n]) = 1
          <6>1. PICK m \in Nat : m = Len(inbox[n])
            BY <5>2
          <6>2. m + 1 = 2
            BY <5>1, <3>4, <6>1
          <6>3. m = 1
            BY <6>2
          <6> QED
            BY <6>1, <6>3
        <5>4. IsMark(n, 1) \/ HasRequest(n, 1)
          BY <5>3 DEF RpcInv, RequestsAreOnce
        <5>5. inbox[n][1] # "executed"
          BY <5>3, <5>4, RpcAssumption DEF IsMark, HasRequest
        <5> QED
          BY <5>3, <5>5, <2>9, <2>2
      <4>2. reply[c] = NoReply /\ executed[c] = {}
        BY <1>1 DEF RpcInv, RepliesAreOfTarget, Early
      <4>3. executed'[c] = IF i = 2 /\ inbox'[k][1] = "executed" THEN {serverID'} ELSE {}
        BY <3>4, <4>1, <4>2, <1>1
      <4>4. \A l \in Links : \A j \in 1..Len(inbox'[l]) : (inbox'[l][j] = c) => (l = k /\ j = i)
        BY <3>4, <2>7, <2>8, SMTT(30)
      <4>5. call'[c].phase \notin Early /\ reply'[c] = NoReply
        BY <1>1, <1>2, <4>2 DEF Early
      <4> QED
        BY <3>4, <4>3, <4>4, <4>5, RequestOf
    <3> QED
      BY <3>2, <3>3, <3>4, <2>7, <2>6
  <2>11. RequestsAreOnce'
    BY <1>1, <2>1, <2>10 DEF RequestsAreOnce
  <2> QED
    BY <1>4, <1>5, <2>5, <2>11 DEF RpcInv
<1> QED
  BY <1>6, <1>7

LEMMA ExecuteKeepsRpcInv ==
    ASSUME RpcInv, NEW n \in Links, Execute(n)
    PROVE  RpcInv'
<1>1. inbox[n] \in Seq(Calls \cup {"executed"}) /\ inbox[n] # <<>> /\ inbox[n][1] \in Calls /\ serverUp
  BY DEF Execute, RpcInv, RpcTypes
<1>2. PICK c \in Calls : c = inbox[n][1]
  BY <1>1
<1>3. /\ UNCHANGED <<rpcStarted, connection, targetID, connector, reads>>
      /\ UNCHANGED <<links, call, reply, serverUp, serverID, registered>>
      /\ executed' = [executed EXCEPT ![c] = executed[c] \cup {serverID}]
      /\ inbox' = [inbox EXCEPT ![n] = <<"executed">> \o inbox[n]]
  BY <1>1, <1>2 DEF Execute, clientVars
<1>4. /\ <<"executed">> \o inbox[n] \in Seq(Calls \cup {"executed"})
      /\ Len(<<"executed">> \o inbox[n]) = Len(inbox[n]) + 1
      /\ (<<"executed">> \o inbox[n])[1] = "executed"
      /\ \A i \in 2..(Len(inbox[n]) + 1) : (<<"executed">> \o inbox[n])[i] = inbox[n][i - 1]
  BY <1>1
<1>5. /\ inbox' \in [Links -> Seq(Calls \cup {"executed"})]
      /\ Len(inbox'[n]) = Len(inbox[n]) + 1 /\ inbox'[n][1] = "executed"
      /\ \A i \in 2..(Len(inbox[n]) + 1) : inbox'[n][i] = inbox[n][i - 1]
      /\ \A k \in Links \ {n} : inbox'[k] = inbox[k]
  BY <1>3, <1>4 DEF RpcInv, RpcTypes
<1>6. 1 \in 1..Len(inbox[n]) /\ Len(inbox[n]) \in Nat
  BY <1>1
<1>7. IsRequest(c, n, 1)
  BY <1>2, <1>6, RpcAssumption DEF RpcInv, RequestsAreOnce, IsMark, HasRequest
<1>8. executed[c] = {} /\ executed'[c] = {serverID} /\ \A d \in Calls \ {c} : executed'[d] = executed[d]
  BY <1>3, <1>7 DEF IsRequest, RpcInv, RpcTypes
<1>9. RpcTypes'
  BY <1>3, <1>5 DEF RpcInv, RpcTypes
<1>10. LinksAreInOrder'
  BY <1>3, LinksDown
<1>11. RepliesAreOfTarget'
  BY <1>3, <1>7, <1>8 DEF RpcInv, RepliesAreOfTarget, IsRequest
<1>12. ASSUME NEW k \in Links, NEW i \in 1..Len(inbox'[k])
       PROVE  IsMark(k, i)' \/ HasRequest(k, i)'
  <2>1. CASE k = n /\ i = 1
    BY <2>1, <1>5, <1>6 DEF IsMark
  <2>2. CASE k = n /\ i # 1
    <3>1. i - 1 \in 1..Len(inbox[n]) /\ inbox'[n][i] = inbox[n][i - 1] /\ i \in Nat
      BY <2>2, <1>5, <1>6
    <3>2. PICK d \in Calls : d = inbox[n][i - 1] /\ IsRequest(d, n, i - 1)
      BY <3>1, <1>1, RpcAssumption DEF RpcInv, RequestsAreOnce, IsMark, HasRequest
    <3>3. executed'[d] = IF i = 2 THEN {serverID} ELSE {}
      <4>1. CASE i = 2
        BY <4>1, <3>2, <1>2, <1>8
      <4>2. CASE i # 2
        <5>1. i - 1 # 1
          BY <4>2, <3>1
        <5>2. d # c
          BY <5>1, <3>2, <1>7, <3>1 DEF IsRequest
        <5>3. inbox[n][1] # "executed"
          BY <1>1, RpcAssumption
        <5> QED
          BY <4>2, <5>2, <5>3, <3>2, <1>8 DEF IsRequest
      <4> QED
        BY <4>1, <4>2
    <3>4. ASSUME NEW l \in Links, NEW j \in 1..Len(inbox'[l]), inbox'[l][j] = d
          PROVE  l = k /\ j = i
      <4>1. CASE l = n
        <5>1. j # 1
          BY <4>1, <3>4, <3>1, <3>2, <1>5, RpcAssumption
        <5>2. j - 1 \in 1..Len(inbox[n]) /\ inbox'[n][j] = inbox[n][j - 1] /\ j \in Nat
          BY <4>1, <5>1, <1>5, <1>6
        <5>3. j - 1 = i - 1
          BY <4>1, <5>2, <3>4, <3>2 DEF IsRequest
        <5> QED
          BY <4>1, <5>2, <5>3, <3>1, <2>2
      <4>2. CASE l # n
        BY <4>2, <3>4, <3>2, <1>5 DEF IsRequest
      <4> QED
        BY <4>1, <4>2
    <3>5. call'[d].phase \notin Early /\ reply'[d] = NoReply
      BY <3>2, <1>3 DEF IsRequest
    <3>6. executed'[d] = IF i = 2 /\ inbox'[k][1] = "executed" THEN {serverID'} ELSE {}
      BY <3>3, <2>2, <1>3, <1>5
    <3>7. d = inbox'[k][i]
      BY <2>2, <3>1, <3>2
    <3> QED
      BY <3>4, <3>5, <3>6, <3>7, RequestOf
  <2>3. CASE k # n /\ inbox[k][i] = "executed"
    BY <2>3, <1>5, RpcAssumption DEF RpcInv, RequestsAreOnce, IsMark, HasRequest
  <2>4. CASE k # n /\ inbox[k][i] \in Calls
    <3>1. i \in 1..Len(inbox[k]) /\ inbox'[k] = inbox[k]
      BY <2>4, <1>5
    <3>2. PICK d \in Calls : d = inbox[k][i] /\ IsRequest(d, k, i)
      BY <2>4, <3>1, RpcAssumption DEF RpcInv, RequestsAreOnce, IsMark, HasRequest
    <3>3. d # c
      BY <2>4, <3>1, <3>2, <1>7 DEF IsRequest
    <3>4. ASSUME NEW l \in Links, NEW j \in 1..Len(inbox'[l]), inbox'[l][j] = d
          PROVE  l = k /\ j = i
      <4>1. CASE l = n
        <5>1. j # 1
          BY <4>1, <3>4, <1>5, RpcAssumption
        <5>2. j - 1 \in 1..Len(inbox[n]) /\ inbox'[n][j] = inbox[n][j - 1]
          BY <4>1, <5>1, <1>5, <1>6
        <5> QED
          BY <2>4, <4>1, <5>2, <3>4, <3>2 DEF IsRequest
      <4>2. CASE l # n
        BY <4>2, <3>4, <3>2, <1>5 DEF IsRequest
      <4> QED
        BY <4>1, <4>2
    <3>5. call'[d].phase \notin Early /\ reply'[d] = NoReply
      BY <3>2, <1>3 DEF IsRequest
    <3>6. executed'[d] = IF i = 2 /\ inbox'[k][1] = "executed" THEN {serverID'} ELSE {}
      BY <3>1, <3>2, <3>3, <1>3, <1>8 DEF IsRequest
    <3> QED
      BY <3>1, <3>2, <3>4, <3>5, <3>6, RequestOf
  <2>5. k # n => inbox[k][i] \in Calls \cup {"executed"}
    BY <1>5
  <2> QED
    BY <2>1, <2>2, <2>3, <2>4, <2>5
<1>13. RequestsAreOnce'
  BY <1>1, <1>3, <1>12 DEF RequestsAreOnce
<1> QED
  BY <1>9, <1>10, <1>11, <1>13 DEF RpcInv

LEMMA AnswerKeepsRpcInv ==
    ASSUME RpcInv, NEW n \in Links, AnswerCall(n)
    PROVE  RpcInv'
<1>1. inbox[n] \in Seq(Calls \cup {"executed"}) /\ inbox[n] # <<>> /\ inbox[n][1] = "executed" /\ serverUp
  BY DEF AnswerCall, RpcInv, RpcTypes
<1>2. 1 \in 1..Len(inbox[n]) /\ Len(inbox[n]) \in Nat
  BY <1>1
<1>3. Len(inbox[n]) > 1 /\ 2 \in 1..Len(inbox[n])
  BY <1>1, <1>2, RpcAssumption DEF RpcInv, RequestsAreOnce, IsMark, HasRequest
<1>4. PICK c \in Calls : c = inbox[n][2] /\ IsRequest(c, n, 2)
  BY <1>3 DEF RpcInv, RequestsAreOnce, IsMark, HasRequest
<1>5. executed[c] = {serverID} /\ reply[c] = NoReply /\ call[c].phase \notin Early
  BY <1>1, <1>4 DEF IsRequest
<1>6. PICK e \in Errors(c) :
        /\ UNCHANGED <<rpcStarted, connection, targetID, connector, reads>>
        /\ UNCHANGED <<links, call, serverUp, serverID, registered, executed>>
        /\ reply' = IF call[c].phase = "sent" /\ n \in reads /\ IsUp(n)
                    THEN [reply EXCEPT ![c] = [id |-> serverID, error |-> e]] ELSE reply
        /\ inbox' = [inbox EXCEPT ![n] = SubSeq(inbox[n], 3, Len(inbox[n]))]
  BY <1>4 DEF AnswerCall, clientVars
<1>7. e \in {"call", "none", "mismatch"} /\ (e = "none" => call[c].target \in {NoID, serverID})
  BY DEF Errors, Mismatch
<1>8. /\ reply' \in [Calls -> Replies]
      /\ \A d \in Calls \ {c} : reply'[d] = reply[d]
      /\ reply'[c] = reply[c] \/ (call[c].phase = "sent" /\ reply'[c] = [id |-> serverID, error |-> e])
  <2>1. [id |-> serverID, error |-> e] \in Replies
    BY <1>7 DEF Replies, RpcInv, RpcTypes
  <2> QED
    BY <1>6, <2>1 DEF RpcInv, RpcTypes
<1>9. /\ SubSeq(inbox[n], 3, Len(inbox[n])) \in Seq(Calls \cup {"executed"})
      /\ Len(SubSeq(inbox[n], 3, Len(inbox[n]))) = Len(inbox[n]) - 2
      /\ \A i \in 1..(Len(inbox[n]) - 2) : SubSeq(inbox[n], 3, Len(inbox[n]))[i] = inbox[n][i + 2]
  BY <1>1, <1>3
<1>10. /\ inbox' \in [Links -> Seq(Calls \cup {"executed"})]
       /\ Len(inbox'[n]) = Len(inbox[n]) - 2
       /\ \A i \in 1..(Len(inbox[n]) - 2) : inbox'[n][i] = inbox[n][i + 2]
       /\ \A k \in Links \ {n} : inbox'[k] = inbox[k]
  BY <1>6, <1>9 DEF RpcInv, RpcTypes
<1>11. RpcTypes'
  BY <1>6, <1>8, <1>10 DEF RpcInv, RpcTypes
<1>12. LinksAreInOrder'
  BY <1>6, LinksDown
<1>13. RepliesAreOfTarget'
  <2>1. serverID \in IDs
    BY DEF RpcInv, RpcTypes
  <2>2. ASSUME NEW d \in Calls
        PROVE  /\ (call[d].phase \in Early) => (executed[d] = {} /\ reply'[d] = NoReply)
               /\ (reply'[d] # NoReply) => (reply'[d].id \in IDs)
               /\ (reply'[d] # NoReply /\ reply'[d].error = "none") =>
                     (executed[d] = {reply'[d].id} /\ call[d].target \in {NoID, reply'[d].id})
               /\ (call[d].phase = "succeeded") => (reply'[d] # NoReply /\ reply'[d].error = "none")
    <3>1. CASE reply'[d] = reply[d]
      BY <3>1 DEF RpcInv, RepliesAreOfTarget
    <3>2. CASE d = c /\ call[c].phase = "sent" /\ reply'[c] = [id |-> serverID, error |-> e]
      BY <3>2, <1>5, <1>7, <2>1 DEF Early
    <3> QED
      BY <1>8, <3>1, <3>2
  <2> QED
    BY <2>2, <1>6 DEF RepliesAreOfTarget
<1>14. ASSUME NEW k \in Links, NEW i \in 1..Len(inbox'[k])
       PROVE  IsMark(k, i)' \/ HasRequest(k, i)'
  <2> DEFINE was(l, j) == IF l = n THEN j + 2 ELSE j
  <2>1. \A l \in Links : \A j \in 1..Len(inbox'[l]) :
            was(l, j) \in 1..Len(inbox[l]) /\ inbox'[l][j] = inbox[l][was(l, j)]
    BY <1>2, <1>3, <1>10
  <2>2. (\A l, j : was(l, j) = IF l = n THEN j + 2 ELSE j) /\ i \in Nat \ {0}
    <3>1. i \in Nat \ {0}
      BY <1>10
    <3> QED
      BY <3>1
  <2> HIDE DEF was
  <2>3. CASE inbox'[k][i] = "executed"
    <3>1. PICK j \in Nat : j = was(k, i) /\ j \in 1..Len(inbox[k]) /\ inbox[k][j] = "executed"
      BY <2>1, <2>3, <1>2
    <3>2. j = 1 /\ Len(inbox[k]) > 1
      BY <3>1, RpcAssumption DEF RpcInv, RequestsAreOnce, IsMark, HasRequest
    <3>3. k # n /\ i = 1
      <4>1. was(k, i) = 1
        BY <3>1, <3>2
      <4>2. was(k, i) = IF k = n THEN i + 2 ELSE i
        BY <2>2
      <4>3. i + 2 # 1
        BY <2>2
      <4> QED
        BY <4>1, <4>2, <4>3
    <3> QED
      BY <2>3, <3>2, <3>3, <1>10 DEF IsMark
  <2>4. CASE inbox'[k][i] \in Calls
    <3>1. PICK d \in Calls : d = inbox'[k][i] /\ d = inbox[k][was(k, i)] /\ IsRequest(d, k, was(k, i))
      BY <2>1, <2>4, RpcAssumption DEF RpcInv, RequestsAreOnce, IsMark, HasRequest
    <3>2. d # c
      <4>1. (k = n) => (was(k, i) # 2)
        BY <2>2
      <4> QED
        BY <1>3, <1>4, <2>1, <3>1, <4>1 DEF IsRequest
    <3>3. ASSUME NEW l \in Links, NEW j \in 1..Len(inbox'[l]), inbox'[l][j] = d
          PROVE  l = k /\ j = i
      <4>1. inbox[l][was(l, j)] = d /\ was(l, j) \in 1..Len(inbox[l])
        BY <2>1, <3>3
      <4>2. l = k /\ was(l, j) = was(k, i)
        BY <3>1, <4>1 DEF IsRequest
      <4>3. j \in Nat
        BY <1>10
      <4> QED
        BY <4>2, <4>3, <2>2
    <3>4. executed[d] = IF i = 2 /\ inbox'[k][1] = "executed" THEN {serverID} ELSE {}
      <4>1. CASE k = n
        <5>1. executed[d] = {}
          BY <3>1, <4>1, <2>2 DEF IsRequest
        <5>2. ASSUME i = 2, inbox'[n][1] = "executed" PROVE FALSE
          <6>1. 1 \in 1..Len(inbox'[n])
            BY <5>2, <4>1, <1>10
          <6>2. 3 \in 1..Len(inbox[n]) /\ inbox[n][3] = "executed"
            BY <6>1, <5>2, <1>2, <1>3, <1>10
          <6> QED
            BY <6>2, RpcAssumption DEF RpcInv, RequestsAreOnce, IsMark, HasRequest
        <5> QED
          BY <5>1, <5>2, <4>1
      <4>2. CASE k # n
        BY <3>1, <4>2, <1>10, <2>2 DEF IsRequest
      <4> QED
        BY <4>1, <4>2
    <3>5. executed'[d] = IF i = 2 /\ inbox'[k][1] = "executed" THEN {serverID'} ELSE {}
      BY <3>4, <1>6
    <3>6. call'[d].phase \notin Early /\ reply'[d] = NoReply
      BY <3>1, <3>2, <1>6, <1>8 DEF IsRequest
    <3>7. d = inbox'[k][i]
      BY <3>1
    <3> QED
      BY <3>3, <3>5, <3>6, <3>7, RequestOf
  <2>5. inbox'[k][i] \in Calls \cup {"executed"}
    BY <1>10
  <2> QED
    BY <2>3, <2>4, <2>5
<1>15. RequestsAreOnce'
  BY <1>1, <1>6, <1>14 DEF RequestsAreOnce
<1> QED
  BY <1>11, <1>12, <1>13, <1>15 DEF RpcInv

LEMMA ServerKeepsRpcInv ==
    ASSUME RpcInv, ServerStops \/ ServerRestarts
    PROVE  RpcInv'
<1>1. CASE ServerStops
  <2>1. /\ inbox' = [k \in Links |-> <<>>] /\ registered' = NoLink /\ ~serverUp'
        /\ UNCHANGED <<rpcStarted, connection, targetID, connector, reads>>
        /\ UNCHANGED <<call, reply, serverID, executed>>
        /\ serverID <= MaxRestarts
        /\ links' = [k \in Links |-> IF links[k] = "up" THEN "down" ELSE links[k]]
        /\ serverUp' \in BOOLEAN
    BY <1>1 DEF ServerStops, clientVars
  <2>2. RpcTypes'
    BY <2>1 DEF RpcInv, RpcTypes
  <2>3. LinksAreInOrder'
    BY <2>1 DEF RpcInv, RpcTypes, LinksAreInOrder
  <2>4. RequestsAreOnce'
    BY <2>1 DEF RequestsAreOnce
  <2>5. RepliesAreOfTarget'
    BY <2>1 DEF RpcInv, RepliesAreOfTarget
  <2> QED
    BY <2>2, <2>3, <2>4, <2>5 DEF RpcInv
<1>2. CASE ServerRestarts
  <2>1. /\ ~serverUp /\ serverUp' = TRUE /\ serverID' = serverID + 1
        /\ UNCHANGED <<rpcStarted, connection, targetID, connector, reads>>
        /\ UNCHANGED <<links, call, reply, registered, inbox, executed>>
    BY <1>2 DEF ServerRestarts, clientVars
  <2>2. RpcTypes'
    BY <2>1, RpcAssumption DEF RpcInv, RpcTypes, IDs
  <2>3. LinksAreInOrder'
    BY <2>1 DEF RpcInv, LinksAreInOrder
  <2>4. RequestsAreOnce'
    BY <2>1 DEF RpcInv, RequestsAreOnce, IsMark, HasRequest
  <2>5. RepliesAreOfTarget'
    BY <2>1 DEF RpcInv, RepliesAreOfTarget
  <2> QED
    BY <2>2, <2>3, <2>4, <2>5 DEF RpcInv
<1> QED
  BY <1>1, <1>2

LEMMA RpcInvStep == RpcInv /\ [RpcNext]_rpcVars => RpcInv'
  BY ClientKeepsRpcInv, ConnectedKeepsRpcInv, ExchangeCallKeepsRpcInv, ExecuteKeepsRpcInv,
     AnswerKeepsRpcInv, ServerKeepsRpcInv DEF RpcNext, CallSteps, ConnectSteps, LinkSteps

RpcSpec == RpcInit /\ [][RpcNext]_rpcVars

\* xrpc: a call that succeeds was executed by one server only, the one its target ID was for,
\* and the server's link for the client is never older than the client's, for any number of
\* calls, links and restarts.
THEOREM CallsStayConsistent == RpcSpec => []CallsAreConsistent
<1>1. RpcSpec => []RpcInv
  BY RpcInvInit, RpcInvStep, PTL DEF RpcSpec
<1> QED
  BY <1>1, RpcInvGives, PTL

------------------------------------------------------------------------------
(* The three together *)

\* A step of the composed run is one of each part, or leaves it alone.
LEMMA PartsStep ==
    [Next]_vars => [WsNext]_wsVars /\ [RpcNext]_rpcVars /\ [ResNext]_resVars
  BY DEF Next, vars

\* Whatever part is used: the variables of all have their types, and each part's invariant holds.
THEOREM ConnectionsAreConsistent ==
    Spec => [](ConnectionsTypeOK /\ ExchangeIsConsistent /\ CallsAreConsistent /\ ChangeIsKept)
<1>1. Init => WsInv /\ RpcInv /\ ResInv
  BY WsInvInit, RpcInvInit, ResInvInit DEF Init
<1>2. WsInv /\ RpcInv /\ ResInv /\ [Next]_vars => (WsInv /\ RpcInv /\ ResInv)'
  BY PartsStep, WsInvStep, RpcInvStep, ResInvStep
<1>3. WsInv /\ RpcInv /\ ResInv =>
          ConnectionsTypeOK /\ ExchangeIsConsistent /\ CallsAreConsistent /\ ChangeIsKept
  BY WsInvGives, RpcInvGives, ResInvGives DEF ConnectionsTypeOK
<1> QED
  BY <1>1, <1>2, <1>3, PTL DEF Spec

\* The variables of the connection, of the calls over it and of the resources keep their types,
\* for any number of callers, links, clients and updates: nothing but messages of callers is on
\* the wire, and no server has an ID beyond its restarts.
THEOREM ConnectionsAreTyped == Spec => []ConnectionsTypeOK
<1>1. ConnectionsTypeOK /\ ExchangeIsConsistent /\ CallsAreConsistent /\ ChangeIsKept
          => ConnectionsTypeOK
  OBVIOUS
<1>2. QED BY <1>1, ConnectionsAreConsistent, PTL
==============================================================================
