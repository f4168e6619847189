------------------------------- MODULE Commands -------------------------------
(***************************************************************************)
(* zcommands.  Each ssh session walks a tree of nodes: NodeHistory is the  *)
(* way from the root to where it is, and ls numbers the nodes it lists.    *)
(* NodeHistory is a slice, and a path is followed by cutting and appending *)
(* to a slice that may have the same array: the array is modelled, with    *)
(* the room append leaves in it.                                           *)
(***************************************************************************)
EXTENDS Naturals, Sequences, FiniteSets, SequencesExt

CONSTANTS
    CommandSessions,
    TypedPaths        \* the paths that are typed

ASSUME TypedPathsAssumption ==
    TypedPaths \subseteq [number : Nat, absolute : BOOLEAN, parts : Seq(STRING)]

VARIABLES
    history,    \* of each session: NodeHistory's array, and how much of it is in use
    numbered,   \* of each session: NodeNumberedList
    savedPath,  \* the path in the key/value store
    strayed     \* sessions whose history is not the way to a node any more

commandVars == <<history, numbered, savedPath, strayed>>

MaxDepth == 4  \* nodes in a history (a bound)

(* A tree with each type of node; a node's name is the node. *)
RootNode == "root"
NoNode == "none"
TypeOf == [root |-> "Com", host |-> "Com", jobs |-> "Row", port |-> "Field", uptime |-> "StaticField",
           home |-> "Variable", task |-> "Row", disk |-> "Com"]
SubNodes == [root |-> <<"host", "jobs">>, host |-> <<"disk", "port", "uptime", "home">>, jobs |-> <<"task">>,
             port |-> <<>>, uptime |-> <<>>, home |-> <<>>, task |-> <<>>, disk |-> <<>>]

\* Rows are nodes of the NodeOwner, which is asked when ComNode is wanted.
WantedFor(type) == CASE type \in {"Com", "Row"} -> "Com"
                     [] type \in {"Field", "StaticField"} -> "Field"
                     [] OTHER -> type
NodeForStruct(node, name, types) == Contains(SubNodes[node], name) /\ WantedFor(TypeOf[name]) \in types

ForDirectory == {"Row", "Com"}

(* Paths: "cd 2" is a number, "cd /host/disk" is absolute. *)
NumberPath(n) == [number |-> n, absolute |-> FALSE, parts |-> <<>>]
TreePath(absolute, parts) == [number |-> 0, absolute |-> absolute, parts |-> parts]

Slice(slots, size) == [slots |-> slots, size |-> size]
InUse(slice) == SubSeq(slice.slots, 1, slice.size)
NodeHistory(s) == InUse(history[s])
TopOf(slice) == slice.slots[slice.size]

\* append: into the array if it has room, else into a new one of twice the size
Room(slice) == slice.size < Len(slice.slots)
Appended(slice, node) ==
    LET slots == IF Room(slice) THEN slice.slots ELSE slice.slots \o [i \in 1..slice.size |-> NoNode]
    IN Slice([slots EXCEPT ![slice.size + 1] = node], slice.size + 1)

(* One part of a path: nodes is startNodes, shares tells if it still has    *)
(* the session's array, and own is that array.                             *)
FollowPart(r, part, types) ==
    IF r.failed THEN r
    ELSE IF part = ".." THEN
        IF r.nodes.size <= 1 THEN [r EXCEPT !.failed = TRUE] ELSE [r EXCEPT !.nodes.size = @ - 1]
    ELSE IF ~NodeForStruct(TopOf(r.nodes), part, types) THEN [r EXCEPT !.failed = TRUE]
    ELSE LET shares == r.shares /\ Room(r.nodes)
             nodes == Appended(r.nodes, part)
         IN [r EXCEPT !.nodes = nodes, !.shares = shares, !.own = IF shares THEN nodes.slots ELSE @]
FollowPath(r, parts, types) ==
    LET follow[n \in 0..Len(parts)] ==
            IF n = 0 THEN r ELSE FollowPart(follow[n - 1], parts[n], types)
    IN follow[Len(parts)]

\* What PathAsNodes returns, and the session's array after it.
PathAsNodes(s, path, types) ==
    LET found(nodes, shares, failed) == [nodes |-> nodes, shares |-> shares, failed |-> failed,
                                         own |-> history[s].slots]
        r == found(history[s], TRUE, FALSE)
    IN IF path.number > 0
       THEN IF path.number > Len(numbered[s]) THEN found(history[s], TRUE, TRUE)
            ELSE LET nodes == Appended(history[s], numbered[s][path.number])
                 IN [found(nodes, TRUE, FALSE) EXCEPT !.own = IF Room(history[s]) THEN nodes.slots ELSE @]
       ELSE FollowPath(IF path.absolute THEN found(Slice(<<RootNode>>, 1), FALSE, FALSE) ELSE r,
                       path.parts, types)

IsWay(nodes) == /\ nodes[1] = RootNode
                /\ \A i \in 1..(Len(nodes) - 1) : NodeForStruct(nodes[i], nodes[i + 1], ForDirectory)
Strays(s, nodes) == strayed' = IF IsWay(InUse(nodes)) THEN strayed \ {s} ELSE strayed \union {s}

\* Path, as updatePrompt saves it
SavesPath(nodes) == savedPath' = InUse(nodes)

(* changeDirectory: what NodeHistory is after it, and if the path was saved. *)
AtRoot(s) == [nodes |-> [history[s] EXCEPT !.size = 1], saves |-> TRUE]
CanEnter(node) == TypeOf[node] \notin {"Variable", "Field"}
changeDirectory(s, path) ==
    LET r == PathAsNodes(s, path, ForDirectory) IN
    IF path = TreePath(TRUE, <<>>) THEN AtRoot(s)
    ELSE IF r.failed \/ ~CanEnter(TopOf(r.nodes))
    THEN [nodes |-> [history[s] EXCEPT !.slots = r.own], saves |-> FALSE]
    ELSE [nodes |-> r.nodes, saves |-> TRUE]

CommandsInit ==
    /\ history = [s \in CommandSessions |-> Slice(<<RootNode>>, 1)]
    /\ numbered = [s \in CommandSessions |-> <<>>]
    /\ savedPath = <<>> /\ strayed = {}

\* HandleNewSession: a session starts where the last prompt of any session was.
HandleNewSession(s) ==
    LET start == Slice(<<RootNode>>, 1)
        there == FollowPath([nodes |-> start, shares |-> FALSE, own |-> start.slots, failed |-> FALSE],
                            Tail(savedPath), ForDirectory)
        nodes == IF savedPath = <<>> \/ there.failed THEN start ELSE there.nodes
    IN /\ history' = [history EXCEPT ![s] = nodes]
       /\ numbered' = [numbered EXCEPT ![s] = <<>>]
       /\ SavesPath(nodes) /\ strayed' = strayed \ {s}

\* cd: the numbers of a list are forgotten at the root only.
Command_cd(s, path) ==
    LET r == changeDirectory(s, path) IN
    /\ r.nodes.size <= MaxDepth
    /\ history' = [history EXCEPT ![s] = r.nodes]
    /\ numbered' = IF path = TreePath(TRUE, <<>>) THEN [numbered EXCEPT ![s] = <<>>] ELSE numbered
    /\ IF r.saves THEN SavesPath(r.nodes)
       ELSE IF path.number \in 1..Len(numbered[s]) THEN SavesPath(history[s]) ELSE UNCHANGED savedPath
    /\ Strays(s, r.nodes)

\* ls and ll: every node below is listed; fields that can't be edited get no number.
Listed(list, node) == IF TypeOf[node] = "StaticField" THEN list ELSE Append(list, node)
Numbered(nodes) ==
    LET list[n \in 0..Len(nodes)] == IF n = 0 THEN <<>> ELSE Listed(list[n - 1], nodes[n])
    IN list[Len(nodes)]
Command_ls(s) ==
    /\ numbered' = [numbered EXCEPT ![s] = Numbered(SubNodes[TopOf(history[s])])]
    /\ UNCHANGED <<history, savedPath, strayed>>

(* Everything else that looks a path up: the directories before what is    *)
(* completed with tab, the field that edit is given, $variables.           *)
LookUpPath(s, path, types) ==
    /\ LET nodes == [history[s] EXCEPT !.slots = PathAsNodes(s, path, types).own] IN
       /\ history' = [history EXCEPT ![s] = nodes]
       /\ Strays(s, nodes)
    /\ IF path.number \in 1..Len(numbered[s]) THEN SavesPath(history[s]) ELSE UNCHANGED savedPath
    /\ UNCHANGED numbered

ExpandOrEdit(s, path) == \E types \in {ForDirectory, {"Field"}} : LookUpPath(s, path, types)

CommandsNext ==
    \E s \in CommandSessions :
        \/ HandleNewSession(s) \/ Command_ls(s)
        \/ \E path \in TypedPaths : Command_cd(s, path) \/ ExpandOrEdit(s, path)
-----------------------------------------------------------------------------
\* The nodes of a path without the array: up takes the last one off.
Onward(nodes, part) == IF part = ".." THEN Front(nodes) ELSE Append(nodes, part)
Way(nodes, parts) ==
    LET way[n \in 0..Len(parts)] == IF n = 0 THEN nodes ELSE Onward(way[n - 1], parts[n])
    IN way[Len(parts)]

(* A path that is found leads where it says, though it is put together in  *)
(* an array that the session's own history uses.                           *)
PathLeadsThere ==
    \A s \in CommandSessions, path \in TypedPaths :
        LET r == PathAsNodes(s, path, ForDirectory) IN
        ~r.failed /\ path.number = 0
            => InUse(r.nodes) = Way(IF path.absolute THEN <<RootNode>> ELSE NodeHistory(s), path.parts)

(* Only a path that goes up and then down can move a session that looks it *)
(* up or fails to cd to it.                                                *)
UpAndDown(parts) == \E i, j \in DOMAIN parts : i < j /\ parts[i] = ".." /\ parts[j] # ".."
LookUpsKeepPlace ==
    \A s \in CommandSessions, path \in TypedPaths, types \in {ForDirectory, {"Field"}} :
        UpAndDown(path.parts) \/ SubSeq(PathAsNodes(s, path, types).own, 1, history[s].size) = NodeHistory(s)

(* A session that has not strayed is at a node of the tree, and the path   *)
(* it saved leads a new session to the same node.                          *)
PlaceIsSaved ==
    /\ \A s \in CommandSessions : s \notin strayed => IsWay(NodeHistory(s))
    /\ savedPath # <<>> /\ IsWay(savedPath) /\ strayed = {}
        => \A s \in CommandSessions :
              LET r == PathAsNodes(s, TreePath(TRUE, Tail(savedPath)), ForDirectory)
              IN ~r.failed /\ InUse(r.nodes) = savedPath

CommandsAreKept == PathLeadsThere /\ LookUpsKeepPlace /\ PlaceIsSaved
==============================================================================
