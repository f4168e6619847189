--------------------------- MODULE SharedResources ---------------------------
(***************************************************************************)
(* xrpc's resources: the server keeps, for a resource that has changed,    *)
(* the clients that know; each client polls for what it does not know yet  *)
(* and gets it anew.  The list of a resource is read, appended to and set  *)
(* again, in steps between which other calls may set it.                   *)
(***************************************************************************)
EXTENDS Naturals, FiniteSets

CONSTANTS
    Clients,
    Resources,
    Updates,      \* how often resources change or are said to be known (a bound)
    LostReplies   \* how many calls may fail after the server has handled them (a bound)

ASSUME ResourceAssumption == Updates \in Nat /\ LostReplies \in Nat

VARIABLES
    sentToClient, \* updatedResourcesSentToClient: of the resources that have changed
    asking,       \* the call of GetUpdatedResourcesAndSetSent of each client
    knowing,      \* the SetClientKnowsResourceUpdated in progress of each client
    polled,       \* the resources a poll has brought that are still to be got
    updates,      \* how often that was
    owed,         \* the clients that have to be told of a change, and of which
    lostReplies

resVars == <<sentToClient, asking, knowing, polled, updates, owed, lostReplies>>

NotAsking == [phase |-> "idle", left |-> {}, res |-> "none", read |-> {}, reply |-> {}]
NotKnowing == [phase |-> "idle", res |-> "none", read |-> {}]

ResInit ==
    /\ sentToClient = [r \in {} |-> {}]
    /\ asking = [c \in Clients |-> NotAsking]
    /\ knowing = [c \in Clients |-> NotKnowing]
    /\ polled = [c \in Clients |-> {}]
    /\ updates = 0
    /\ owed = {}
    /\ lostReplies = 0

Changed == DOMAIN sentToClient
WithList(r, clients) == [x \in Changed \cup {r} |-> IF x = r THEN clients ELSE sentToClient[x]]

\* Some list of r was read and is about to be set.
InUse(r) ==
    \E c \in Clients : \/ asking[c].phase = "visiting" /\ asking[c].res = r
                       \/ knowing[c].phase = "read" /\ knowing[c].res = r

------------------------------------------------------------------------------
(* The server *)

\* By the server itself, or by a client that knows of its own change
SetResourceUpdated(r, by) ==
    /\ updates < Updates
    /\ sentToClient' = WithList(r, by)
    /\ updates' = updates + 1
    /\ owed' = IF InUse(r) THEN owed \ { <<c, r>> : c \in Clients }
               ELSE (owed \ { <<c, r>> : c \in Clients }) \cup { <<c, r>> : c \in Clients \ by }
    /\ UNCHANGED <<asking, knowing, polled, lostReplies>>

ClearResourceID(r) ==
    /\ r \in Changed
    /\ sentToClient' = [x \in Changed \ {r} |-> sentToClient[x]]
    /\ owed' = owed \ { <<c, r>> : c \in Clients }
    /\ UNCHANGED <<asking, knowing, polled, updates, lostReplies>>

\* Get, and then AddToSet and Set
ReadKnown(c, r) ==
    /\ knowing[c].phase = "idle"
    /\ updates < Updates /\ updates' = updates + 1
    /\ knowing' = [knowing EXCEPT ![c] =
          [phase |-> "read", res |-> r, read |-> IF r \in Changed THEN sentToClient[r] ELSE {}]]
    /\ UNCHANGED <<sentToClient, asking, polled, owed, lostReplies>>

SetKnown(c) ==
    /\ knowing[c].phase = "read"
    /\ sentToClient' = WithList(knowing[c].res, knowing[c].read \cup {c})
    /\ knowing' = [knowing EXCEPT ![c] = NotKnowing]
    /\ owed' = owed \ {<<c, knowing[c].res>>}
    /\ UNCHANGED <<asking, polled, updates, lostReplies>>

\* ForEach comes to the next entry.  One whose list has the client is passed over.
Visit(c) ==
    /\ asking[c].phase = "asking"
    /\ \E r \in asking[c].left :
          asking' = IF r \in Changed /\ c \notin sentToClient[r]
                    THEN [asking EXCEPT ![c].phase = "visiting", ![c].left = @ \ {r},
                                        ![c].res = r, ![c].read = sentToClient[r]]
                    ELSE [asking EXCEPT ![c].left = @ \ {r}]
    /\ UNCHANGED <<sentToClient, knowing, polled, updates, owed, lostReplies>>

\* Mutant: every client is listed with the one that asked.
ListedAll(c) == Clients

Listed(c) == asking[c].read \cup {c}

SetSent(c) ==
    /\ asking[c].phase = "visiting"
    /\ LET r == asking[c].res
       IN /\ sentToClient' = WithList(r, Listed(c))
          /\ asking' = [asking EXCEPT ![c].phase = "asking", ![c].res = "none", ![c].read = {},
                                      ![c].reply = @ \cup {r}]
          /\ owed' = owed \ {<<c, r>>}
    /\ UNCHANGED <<knowing, polled, updates, lostReplies>>

------------------------------------------------------------------------------
(* A client *)

\* RepeatForever: the next poll is made when all that the last one brought was got.
Poll(c) ==
    /\ asking[c].phase = "idle" /\ polled[c] = {} /\ Changed # {}
    /\ asking' = [asking EXCEPT ![c] = [NotAsking EXCEPT !.phase = "asking", !.left = Resources]]
    /\ UNCHANGED <<sentToClient, knowing, polled, updates, owed, lostReplies>>

Answered(c) == asking[c].phase = "asking" /\ asking[c].left = {}

\* Mutant: the call never counts as done.
PollReturnsBusy(c) ==
    /\ Answered(c)
    /\ polled' = [polled EXCEPT ![c] = asking[c].reply]
    /\ UNCHANGED <<sentToClient, asking, knowing, updates, owed, lostReplies>>

PollReturns(c) ==
    /\ Answered(c)
    /\ polled' = [polled EXCEPT ![c] = asking[c].reply]
    /\ asking' = [asking EXCEPT ![c] = NotAsking]
    /\ UNCHANGED <<sentToClient, knowing, updates, owed, lostReplies>>

\* The reply does not get to the client, for which the resources are marked as sent.
PollFails(c) ==
    /\ Answered(c) /\ lostReplies < LostReplies /\ lostReplies' = lostReplies + 1
    /\ asking' = [asking EXCEPT ![c] = NotAsking]
    /\ UNCHANGED <<sentToClient, knowing, polled, updates, owed>>

Get(c) ==
    \E r \in polled[c] :
        /\ polled' = [polled EXCEPT ![c] = @ \ {r}]
        /\ UNCHANGED <<sentToClient, asking, knowing, updates, owed, lostReplies>>

------------------------------------------------------------------------------

PollSteps(c) == Poll(c) \/ Visit(c) \/ SetSent(c) \/ PollReturns(c) \/ Get(c)

ResNext ==
    \/ \E r \in Resources :
          \/ SetResourceUpdated(r, {}) \/ \E c \in Clients : SetResourceUpdated(r, {c})
          \/ ClearResourceID(r) \/ \E c \in Clients : ReadKnown(c, r)
    \/ \E c \in Clients : SetKnown(c) \/ PollSteps(c) \/ PollFails(c)

\* Clients poll for ever, and calls are answered.
ResFairness == \A c \in Clients : WF_resVars(PollSteps(c)) /\ WF_resVars(SetKnown(c))

------------------------------------------------------------------------------
(* Properties *)

ResTypeOK ==
    /\ Changed \subseteq Resources /\ \A r \in Changed : sentToClient[r] \subseteq Clients
    /\ \A c \in Clients : asking[c].reply \subseteq Resources /\ polled[c] \subseteq Resources
    /\ owed \subseteq Clients \X Resources

\* xrpc_resources_server.go:15, a client is told of a resource "until updated again": a change
\* that was set while nobody was between reading and setting the resource's list stays to be
\* told to every client but the one that made it, whatever the others ask and say they know.
ChangeIsKept == \A p \in owed : p[2] \in Changed /\ p[1] \notin sentToClient[p[2]]

\* And the client is told, or says that it knows, however the others' calls go on.
ChangeIsTold == \A c \in Clients, r \in Resources : <<c, r>> \in owed ~> <<c, r>> \notin owed
==============================================================================
