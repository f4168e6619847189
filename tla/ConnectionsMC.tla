---------------------------- MODULE ConnectionsMC ----------------------------
(***************************************************************************)
(* One run for the parts of the system that talk over a connection: in a   *)
(* behaviour one of WebSocketExchange, RemoteCalls and SharedResources is  *)
(* used, and the others stay as they were made.                            *)
(***************************************************************************)
EXTENDS WebSocketExchange, RemoteCalls, SharedResources, TLC

CONSTANTS client, server, call1, call2, ofClient, ofServer, fromClient, repeater, setClient

OneOrNestedCaller == fromClient :> client @@ ofClient :> client @@ ofServer :> server
NestedCallers == client :> ofClient @@ server :> ofServer
ThreeLinks == 1..3

VARIABLE part

Init == WsInit /\ RpcInit /\ ResInit /\ part = "none"

Uses(p) == part \in {"none", p} /\ part' = p

Next ==
    \/ Uses("exchange") /\ WsNext /\ UNCHANGED <<rpcVars, resVars>>
    \/ Uses("calls") /\ RpcNext /\ UNCHANGED <<wsVars, resVars>>
    \/ Uses("resources") /\ ResNext /\ UNCHANGED <<wsVars, rpcVars>>

vars == <<wsVars, rpcVars, resVars, part>>

Spec == Init /\ [][Next]_vars /\ WsFairness /\ RpcFairness /\ ResFairness

\* Every variable of the three parts has its type.
ConnectionsTypeOK == WsTypeOK /\ RpcTypeOK /\ ResTypeOK
==============================================================================
