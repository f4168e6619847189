----------------------------- MODULE StoreProofs -----------------------------
(***************************************************************************)
(* Proofs about two parts of a process that other programs lean on: the    *)
(* sessions of zcommands, and the log file of zfilelog with its backup.    *)
(* A section gives the inductive invariant of one part, that it holds of   *)
(* the first state, that each step keeps it, and what follows from it.     *)
(***************************************************************************)
EXTENDS Commands, LogFiles, SequenceTheorems, SumProofs

-----------------------------------------------------------------------------
(* The sessions of zcommands: nodes, and the slices of them *)

Nodes == DOMAIN SubNodes
Names == Nodes \cup {NoNode}

\* A slice of nodes, with an array that may have room after it.
Slices == { x \in [slots : Seq(Names), size : Nat] :
               /\ x.size \in 1..Len(x.slots)
               /\ \A i \in 1..x.size : x.slots[i] \in Nodes }
\* What is known while a path is followed from a slice: own is its array still, or again.
Following(slice) ==
    { r \in [nodes : Slices, shares : BOOLEAN, own : Seq(Names), failed : BOOLEAN] :
         /\ r.shares => r.own = r.nodes.slots
         /\ Len(r.own) = Len(slice.slots)
         /\ \A i \in 1..slice.size : r.own[i] \in Nodes }

CommandInv ==
    /\ history \in [CommandSessions -> Slices]
    /\ numbered \in [CommandSessions -> Seq(Nodes)]
    /\ savedPath \in Seq(Nodes)
    /\ \A s \in CommandSessions : s \notin strayed => IsWay(NodeHistory(s))

\* The nodes below a node are of the tree.
LEMMA TreeOfNodes ==
    /\ RootNode \in Nodes /\ ".." \notin Nodes
    /\ \A node \in Nodes : SubNodes[node] \in Seq(Nodes)
    /\ \A node \in Nodes : \A name, types : NodeForStruct(node, name, types) => name \in Nodes
<1>1. Nodes = {"root", "host", "jobs", "port", "uptime", "home", "task", "disk"}
  BY DEF Nodes, SubNodes
<1>2. \A node \in Nodes : SubNodes[node] \in Seq(Nodes)
  <2>1. <<"host", "jobs">> \in Seq(Nodes) /\ <<"disk", "port", "uptime", "home">> \in Seq(Nodes)
    BY <1>1
  <2>2. <<"task">> \in Seq(Nodes) /\ <<>> \in Seq(Nodes)
    BY <1>1
  <2>3. /\ SubNodes["root"] = <<"host", "jobs">> /\ SubNodes["jobs"] = <<"task">>
        /\ SubNodes["host"] = <<"disk", "port", "uptime", "home">>
    BY DEF SubNodes
  <2>4. \A node \in {"port", "uptime", "home", "task", "disk"} : SubNodes[node] = <<>>
    BY DEF SubNodes
  <2>5. QED BY <1>1, <2>1, <2>2, <2>3, <2>4
<1>3. ASSUME NEW node \in Nodes, NEW name, NEW types, NodeForStruct(node, name, types)
      PROVE  name \in Nodes
  <2> PICK below \in Seq(Nodes) : below = SubNodes[node]
    BY <1>2
  <2>1. \E i \in 1..Len(below) : below[i] = name
    BY <1>3 DEF NodeForStruct, Contains
  <2>2. QED BY <2>1
<1>4. RootNode \in Nodes /\ ".." \notin Nodes
  BY <1>1 DEF RootNode
<1>5. QED BY <1>2, <1>3, <1>4

\* Appending writes to the array after the slice, or to a new one that begins like it.
LEMMA AppendedFits ==
    ASSUME NEW slice \in Slices, NEW node \in Nodes
    PROVE  /\ Appended(slice, node) \in Slices
           /\ InUse(Appended(slice, node)) = Append(InUse(slice), node)
           /\ Appended(slice, node).size = slice.size + 1
           /\ TopOf(Appended(slice, node)) = node
           /\ Room(slice) => Appended(slice, node).slots = [slice.slots EXCEPT ![slice.size + 1] = node]
<1> PICK slots \in Seq(Names), size \in Nat :
       /\ slice = [slots |-> slots, size |-> size]
       /\ size \in 1..Len(slots) /\ \A i \in 1..size : slots[i] \in Nodes
  BY DEF Slices
<1> DEFINE wider == IF size < Len(slots) THEN slots ELSE slots \o [i \in 1..size |-> NoNode]
<1>1. /\ wider \in Seq(Names) /\ size + 1 \in 1..Len(wider)
      /\ \A i \in 1..size : wider[i] = slots[i]
      /\ size < Len(slots) => wider = slots
  <2> PICK more : more = [i \in 1..size |-> NoNode]
    OBVIOUS
  <2>1. more \in Seq(Names) /\ Len(more) = size
    <3>1. more \in [1..size -> Names]
      <4>1. NoNode \in Names
        BY DEF Names
      <4>2. QED BY <4>1
    <3>2. more \in Seq(Names)
      BY <3>1
    <3>3. DOMAIN more = 1..size
      OBVIOUS
    <3>4. QED BY <3>2, <3>3
  <2>2. slots \o more \in Seq(Names) /\ Len(slots \o more) = Len(slots) + size
        /\ \A i \in 1..size : (slots \o more)[i] = slots[i]
    BY <2>1
  <2>3. wider = IF size < Len(slots) THEN slots ELSE slots \o more
    OBVIOUS
  <2> HIDE DEF wider
  <2>4. CASE size < Len(slots)
    BY <2>3, <2>4
  <2>5. CASE ~(size < Len(slots))
    BY <2>2, <2>3, <2>5
  <2>6. QED BY <2>4, <2>5
<1> HIDE DEF wider
<1> DEFINE x == [slots |-> [wider EXCEPT ![size + 1] = node], size |-> size + 1]
<1>2. Appended(slice, node) = x
  BY DEF Appended, Slice, Room, wider
<1>3. node \in Names
  BY DEF Names
<1> PICK filled : filled = [wider EXCEPT ![size + 1] = node]
  OBVIOUS
<1>4. /\ filled \in Seq(Names) /\ Len(filled) = Len(wider) /\ filled[size + 1] = node
      /\ \A i \in 1..size : filled[i] = slots[i]
  BY <1>1, <1>3
<1>5. x = [slots |-> filled, size |-> size + 1]
  OBVIOUS
<1> HIDE DEF x
<1>6. x \in Slices
  <2>1. \A i \in 1..size + 1 : filled[i] \in Nodes
    <3> SUFFICES ASSUME NEW i \in 1..size + 1 PROVE filled[i] \in Nodes
      OBVIOUS
    <3>1. i = size + 1 \/ i \in 1..size
      OBVIOUS
    <3>2. QED BY <1>4, <3>1
  <2>2. QED BY <1>1, <1>4, <1>5, <2>1 DEF Slices
<1>7. InUse(x) = Append(InUse(slice), node)
  <2>1. InUse(x) = SubSeq(filled, 1, size + 1) /\ InUse(slice) = SubSeq(slots, 1, size)
    BY <1>5 DEF InUse
  <2>2. SubSeq(filled, 1, size + 1) = Append(SubSeq(slots, 1, size), node)
    <3>1. /\ SubSeq(filled, 1, size + 1) \in Seq(Names) /\ Len(SubSeq(filled, 1, size + 1)) = size + 1
          /\ \A i \in 1..size + 1 : SubSeq(filled, 1, size + 1)[i] = filled[i]
      BY <1>1, <1>4, SubSeqProperties
    <3>2. /\ SubSeq(slots, 1, size) \in Seq(Names) /\ Len(SubSeq(slots, 1, size)) = size
          /\ \A i \in 1..size : SubSeq(slots, 1, size)[i] = slots[i]
      BY SubSeqProperties
    <3> PICK t \in Seq(Names) : t = SubSeq(slots, 1, size)
      BY <3>2
    <3> PICK u \in Seq(Names) : u = SubSeq(filled, 1, size + 1)
      BY <3>1
    <3>3. /\ Len(u) = size + 1 /\ Len(t) = size
          /\ \A i \in 1..size : u[i] = t[i]
          /\ u[size + 1] = node
      BY <1>4, <3>1, <3>2
    <3>4. u = Append(t, node)
      BY <1>3, <3>3
    <3>5. QED BY <3>4
  <2>3. QED BY <2>1, <2>2
<1>8. TopOf(x) = node /\ x.size = slice.size + 1
  BY <1>4, <1>5 DEF TopOf
<1>9. Room(slice) => x.slots = [slice.slots EXCEPT ![slice.size + 1] = node]
  BY <1>1, <1>5 DEF Room
<1>10. QED BY <1>2, <1>6, <1>7, <1>8, <1>9

\* What is in use of a slice is nodes.
LEMMA InUseIsOfNodes ==
    ASSUME NEW slice \in Slices
    PROVE  /\ InUse(slice) \in Seq(Nodes) /\ Len(InUse(slice)) = slice.size
           /\ \A i \in 1..slice.size : InUse(slice)[i] = slice.slots[i]
<1> PICK slots \in Seq(Names), size \in Nat :
       /\ slice = [slots |-> slots, size |-> size]
       /\ size \in 1..Len(slots) /\ \A i \in 1..size : slots[i] \in Nodes
  BY DEF Slices
<1>1. SubSeq(slots, 1, size) \in Seq(Nodes)
  BY SubSeqProperties
<1>2. Len(SubSeq(slots, 1, size)) = size /\ \A i \in 1..size : SubSeq(slots, 1, size)[i] = slots[i]
  BY SubSeqProperties
<1>3. QED BY <1>1, <1>2 DEF InUse

\* Going up leaves the array as it is.
LEMMA UpFits ==
    ASSUME NEW slice \in Slices, slice.size > 1
    PROVE  LET up == [slice EXCEPT !.size = @ - 1]
           IN up \in Slices /\ up.slots = slice.slots /\ InUse(up) = Front(InUse(slice))
<1> PICK slots \in Seq(Names), size \in Nat :
       /\ slice = [slots |-> slots, size |-> size]
       /\ size \in 1..Len(slots) /\ \A i \in 1..size : slots[i] \in Nodes
  BY DEF Slices
<1> DEFINE x == [slots |-> slots, size |-> size - 1]
<1>1. [slice EXCEPT !.size = @ - 1] = x
  OBVIOUS
<1>2. x \in Slices /\ x.slots = slots
  BY DEF Slices
<1>3. InUse(x) = Front(InUse(slice))
  <2>1. InUse(x) = SubSeq(slots, 1, size - 1) /\ InUse(slice) = SubSeq(slots, 1, size)
    BY DEF InUse
  <2> PICK t : t = SubSeq(slots, 1, size)
    OBVIOUS
  <2> PICK u : u = SubSeq(slots, 1, size - 1)
    OBVIOUS
  <2>2. t \in Seq(Names) /\ Len(t) = size /\ \A i \in 1..size : t[i] = slots[i]
    BY SubSeqProperties
  <2>3. u \in Seq(Names) /\ Len(u) = size - 1 /\ \A i \in 1..(size - 1) : u[i] = slots[i]
    BY SubSeqProperties
  <2> PICK shorter : shorter = SubSeq(t, 1, size - 1)
    OBVIOUS
  <2>4. shorter \in Seq(Names) /\ Len(shorter) = size - 1 /\ \A i \in 1..(size - 1) : shorter[i] = t[i]
    BY <2>2, SubSeqProperties
  <2>5. u = shorter
    BY <2>2, <2>3, <2>4
  <2>6. Front(t) = shorter
    BY <2>2 DEF Front
  <2>7. QED BY <2>1, <2>5, <2>6
<1> HIDE DEF x
<1>4. QED BY <1>1, <1>2, <1>3

\* What is written while a path is followed stays before the end of the slice as long as
\* the path has not gone up.
Stays(r, slice) == ~r.shares \/ r.nodes.size >= slice.size
SamePlace(r, t, slice) == \A i \in 1..slice.size : t.own[i] = r.own[i]

\* What makes a record one that is known while a path is followed.
LEMMA IsFollowing ==
    ASSUME NEW slice, NEW nodes \in Slices, NEW shares \in BOOLEAN, NEW own \in Seq(Names),
           NEW failed \in BOOLEAN, shares => own = nodes.slots, Len(own) = Len(slice.slots),
           \A i \in 1..slice.size : own[i] \in Nodes
    PROVE  [nodes |-> nodes, shares |-> shares, own |-> own, failed |-> failed] \in Following(slice)
BY DEF Following

\* A piece of a path leads from a slice of nodes to one, where Onward says.
LEMMA FollowPartFits ==
    ASSUME NEW slice \in Slices, NEW r \in Following(slice), NEW piece, NEW types,
           NEW t, t = FollowPart(r, piece, types)
    PROVE  /\ t \in Following(slice)
           /\ ~t.failed => /\ ~r.failed
                           /\ InUse(t.nodes) = Onward(InUse(r.nodes), piece)
           /\ piece = ".." => t.own = r.own
           /\ piece # ".." /\ Stays(r, slice) => Stays(t, slice) /\ SamePlace(r, t, slice)
<1>1. /\ r.nodes \in Slices /\ r.shares \in BOOLEAN /\ r.own \in Seq(Names) /\ r.failed \in BOOLEAN
      /\ r = [nodes |-> r.nodes, shares |-> r.shares, own |-> r.own, failed |-> r.failed]
      /\ r.shares => r.own = r.nodes.slots
      /\ Len(r.own) = Len(slice.slots)
      /\ \A i \in 1..slice.size : r.own[i] \in Nodes
      /\ r.nodes.size \in Nat /\ slice.size \in Nat /\ r.nodes.slots \in Seq(Names)
  BY DEF Following, Slices
<1>2. CASE (r.failed /\ t = r) \/ t = [r EXCEPT !.failed = TRUE]
  <2>1. /\ t = [nodes |-> r.nodes, shares |-> r.shares, own |-> r.own, failed |-> t.failed]
        /\ t.failed \in BOOLEAN /\ t.failed
    BY <1>1, <1>2
  <2> PICK failed \in BOOLEAN : failed = t.failed
    BY <2>1
  <2> PICK nodes \in Slices, shares \in BOOLEAN, own \in Seq(Names) :
         nodes = r.nodes /\ shares = r.shares /\ own = r.own
    BY <1>1
  <2>4. t = [nodes |-> nodes, shares |-> shares, own |-> own, failed |-> failed]
    BY <2>1
  <2>5. t \in Following(slice)
    BY <1>1, <2>4, IsFollowing
  <2>2. t \in Following(slice) /\ t.own = r.own /\ t.shares = r.shares /\ t.nodes = r.nodes
    BY <2>4, <2>5
  <2>3. QED BY <2>1, <2>2 DEF Stays, SamePlace
<1>3. CASE ~r.failed /\ piece = ".." /\ r.nodes.size > 1 /\ t = [r EXCEPT !.nodes.size = @ - 1]
  <2> PICK up : up = [r.nodes EXCEPT !.size = @ - 1]
    OBVIOUS
  <2>1. up \in Slices /\ up.slots = r.nodes.slots /\ InUse(up) = Front(InUse(r.nodes))
    BY <1>1, <1>3, UpFits
  <2>2. t = [r EXCEPT !.nodes = up]
    BY <1>1, <1>3
  <2>3. t = [nodes |-> up, shares |-> r.shares, own |-> r.own, failed |-> r.failed]
    BY <1>1, <2>2
  <2>4. t \in Following(slice)
    <3> PICK shares \in BOOLEAN, own \in Seq(Names), failed \in BOOLEAN :
           shares = r.shares /\ own = r.own /\ failed = r.failed
      BY <1>1
    <3>1. shares => own = up.slots
      BY <1>1, <2>1
    <3>2. [nodes |-> up, shares |-> shares, own |-> own, failed |-> failed] \in Following(slice)
      BY <1>1, <2>1, <3>1, IsFollowing
    <3>3. QED BY <2>3, <3>2
  <2>5. QED BY <1>1, <1>3, <2>1, <2>3, <2>4 DEF Onward
<1>4. CASE ~r.failed /\ piece # ".." /\ piece \in Nodes /\
           LET shares == r.shares /\ Room(r.nodes)
               nodes == Appended(r.nodes, piece)
           IN t = [r EXCEPT !.nodes = nodes, !.shares = shares, !.own = IF shares THEN nodes.slots ELSE @]
  <2> PICK nodes : nodes = Appended(r.nodes, piece)
    OBVIOUS
  <2>1. /\ nodes \in Slices /\ InUse(nodes) = Append(InUse(r.nodes), piece)
        /\ nodes.size = r.nodes.size + 1 /\ nodes.slots \in Seq(Names)
        /\ Room(r.nodes) => nodes.slots = [r.nodes.slots EXCEPT ![r.nodes.size + 1] = piece]
    <3>1. /\ nodes \in Slices /\ InUse(nodes) = Append(InUse(r.nodes), piece)
          /\ nodes.size = r.nodes.size + 1
          /\ Room(r.nodes) => nodes.slots = [r.nodes.slots EXCEPT ![r.nodes.size + 1] = piece]
      BY <1>1, <1>4, AppendedFits
    <3>2. QED BY <3>1 DEF Slices
  <2> PICK shares \in BOOLEAN : shares = (r.shares /\ Room(r.nodes))
    BY <1>1 DEF Room
  <2> PICK own : own = IF shares THEN nodes.slots ELSE r.own
    OBVIOUS
  <2>2. t = [nodes |-> nodes, shares |-> shares, own |-> own, failed |-> r.failed]
    BY <1>1, <1>4
  <2>3. /\ own \in Seq(Names) /\ Len(own) = Len(r.own)
        /\ shares => own = nodes.slots
        /\ \A i \in 1..Len(own) : own[i] = r.own[i] \/ (i = r.nodes.size + 1 /\ shares /\ own[i] = piece)
    <3>1. CASE shares
      <4>1. /\ r.shares /\ own = [r.own EXCEPT ![r.nodes.size + 1] = piece] /\ own = nodes.slots
            /\ own \in Seq(Names)
        BY <1>1, <2>1, <3>1
      <4>2. Len(own) = Len(r.own)
        BY <1>1, <4>1
      <4>3. \A i \in 1..Len(own) : own[i] = r.own[i] \/ (i = r.nodes.size + 1 /\ own[i] = piece)
        BY <1>1, <4>1, <4>2
      <4>4. QED BY <3>1, <4>1, <4>2, <4>3
    <3>2. CASE ~shares
      BY <1>1, <3>2
    <3>3. QED BY <3>1, <3>2
  <2>4. slice.size \in Nat /\ slice.size <= Len(own)
    BY <1>1, <2>3 DEF Slices
  <2>5. \A i \in 1..slice.size : own[i] \in Nodes
    <3> SUFFICES ASSUME NEW i \in 1..slice.size PROVE own[i] \in Nodes
      OBVIOUS
    <3>1. i \in 1..Len(own) /\ r.own[i] \in Nodes
      BY <1>1, <2>3, <2>4
    <3>2. own[i] = r.own[i] \/ own[i] = piece
      BY <2>3, <3>1
    <3>3. QED BY <1>4, <3>1, <3>2
  <2>6. t \in Following(slice)
    BY <1>1, <2>1, <2>2, <2>3, <2>5 DEF Following
  <2>7. Stays(r, slice) => Stays(t, slice) /\ SamePlace(r, t, slice)
    <3> SUFFICES ASSUME Stays(r, slice) PROVE Stays(t, slice) /\ SamePlace(r, t, slice)
      OBVIOUS
    <3>1. ~shares \/ nodes.size >= slice.size
      BY <1>1, <2>1 DEF Stays
    <3>2. ASSUME NEW i \in 1..slice.size PROVE own[i] = r.own[i]
      <4>1. i \in 1..Len(own) /\ (shares => i < r.nodes.size + 1)
        BY <1>1, <2>3, <2>4 DEF Stays
      <4>2. QED BY <1>1, <2>3, <4>1
    <3>3. QED BY <2>2, <3>1, <3>2 DEF Stays, SamePlace
  <2>8. QED BY <1>1, <1>4, <2>1, <2>2, <2>6, <2>7 DEF Onward
<1>5. CASE ~r.failed /\ piece # ".." /\ ~(t = [r EXCEPT !.failed = TRUE])
  <2>1. NodeForStruct(TopOf(r.nodes), piece, types)
    BY <1>5 DEF FollowPart
  <2>2. TopOf(r.nodes) \in Nodes
    BY <1>1 DEF TopOf, Slices
  <2>3. piece \in Nodes
    BY <2>1, <2>2, TreeOfNodes
  <2>4. LET shares == r.shares /\ Room(r.nodes)
            nodes == Appended(r.nodes, piece)
        IN t = [r EXCEPT !.nodes = nodes, !.shares = shares, !.own = IF shares THEN nodes.slots ELSE @]
    BY <1>5, <2>1 DEF FollowPart
  <2>5. QED BY <1>4, <1>5, <2>3, <2>4
<1>6. CASE ~r.failed /\ piece = ".." /\ ~(t = [r EXCEPT !.failed = TRUE])
  <2>1. r.nodes.size > 1 /\ t = [r EXCEPT !.nodes.size = @ - 1]
    BY <1>1, <1>6 DEF FollowPart
  <2>2. QED BY <1>3, <1>6, <2>1
<1>7. CASE r.failed
  BY <1>2, <1>7 DEF FollowPart
<1>8. QED BY <1>1, <1>2, <1>5, <1>6, <1>7

\* A path is followed part by part.
LEMMA FollowPathSteps ==
    ASSUME NEW slice \in Slices, NEW r \in Following(slice), NEW Parts, NEW parts \in Seq(Parts),
           NEW types
    PROVE  \E h \in [0..Len(parts) -> Following(slice)] :
              /\ h[0] = r /\ FollowPath(r, parts, types) = h[Len(parts)]
              /\ \A k \in 1..Len(parts) : h[k] = FollowPart(h[k - 1], parts[k], types)
<1>1. PICK n \in Nat : n = Len(parts)
  OBVIOUS
<1>2. PICK F : F = [x \in Following(slice) \X (1..n) |-> FollowPart(x[1], parts[x[2]], types)]
  OBVIOUS
<1>3. PICK S : S = Following(slice)
  OBVIOUS
<1>5. n \in Nat /\ F \in [S \X (1..n) -> S] /\ r \in S
  <2>1. \A x \in S \X (1..n) : FollowPart(x[1], parts[x[2]], types) \in S
    <3> TAKE x \in S \X (1..n)
    <3>1. x[1] \in Following(slice)
      BY <1>3
    <3>2. QED BY <1>3, <3>1, FollowPartFits
  <2>2. QED BY <1>1, <1>2, <1>3, <2>1
<1>6. PICK h \in [0..n -> S] : h[0] = r /\ \A k \in 1..n : h[k] = F[<<h[k - 1], k>>]
  <2>1. Advances(F, S, n) /\ r \in S
    BY <1>5 DEF Advances
  <2>2. \E h : StepByStep(h, r, F, S, n)
    BY <1>5, <2>1, StepsExist
  <2>3. QED BY <2>2 DEF StepByStep
<1>7. \A k \in 1..n : h[k] = FollowPart(h[k - 1], parts[k], types)
  <2> TAKE k \in 1..n
  <2>1. <<h[k - 1], k>> \in S \X (1..n)
    BY <1>5, <1>6
  <2>2. F[<<h[k - 1], k>>] = FollowPart(h[k - 1], parts[k], types)
    BY <1>2, <1>3, <2>1
  <2>3. QED BY <1>6, <2>2
<1>4. h = [k \in 0..n |-> IF k = 0 THEN r ELSE FollowPart(h[k - 1], parts[k], types)]
  <2>1. \A k \in 0..n : h[k] = IF k = 0 THEN r ELSE FollowPart(h[k - 1], parts[k], types)
    BY <1>5, <1>6, <1>7
  <2>2. QED BY <1>6, <2>1
<1>8. PICK g : /\ g = [k \in 0..n |-> IF k = 0 THEN r ELSE FollowPart(g[k - 1], parts[k], types)]
               /\ FollowPath(r, parts, types) = g[n]
  BY <1>1, <1>4 DEF FollowPath
<1>9. g[n] = h[n]
  <2> DEFINE P == { k \in 0..n : g[k] = h[k] }
  <2>1. 0 \in P
    BY <1>5, <1>6, <1>8
  <2>2. \A k \in 1..n : k - 1 \in P => k \in P
    BY <1>5, <1>7, <1>8
  <2> HIDE DEF P
  <2>3. \A k \in 0..n : k \in P
    BY <1>5, <2>1, <2>2, CountingUp
  <2>4. QED BY <1>5, <2>3 DEF P
<1>10. QED BY <1>1, <1>3, <1>6, <1>7, <1>8, <1>9

\* The way a path describes, part by part.
LEMMA WaySteps ==
    ASSUME NEW Parts, NEW nodes \in Seq(Parts), NEW parts \in Seq(Parts)
    PROVE  \E ways \in [0..Len(parts) -> Seq(Parts)] :
              /\ ways[0] = nodes /\ Way(nodes, parts) = ways[Len(parts)]
              /\ \A k \in 1..Len(parts) :
                    ways[k] = Onward(ways[k - 1], parts[k])
<1>1. PICK n \in Nat : n = Len(parts)
  OBVIOUS
<1>2. PICK S : S = Seq(Parts)
  OBVIOUS
<1>3. PICK F : F = [x \in S \X (1..n) |-> Onward(x[1], parts[x[2]])]
  OBVIOUS
<1>4. Advances(F, S, n) /\ nodes \in S
  <2>1. ASSUME NEW t \in Seq(Parts) PROVE Front(t) \in Seq(Parts)
    <3>1. SubSeq(t, 1, Len(t) - 1) \in Seq(Parts)
      <4>1. \A i \in 1..(Len(t) - 1) : t[i] \in Parts
        OBVIOUS
      <4>2. QED BY <4>1
    <3>2. QED BY <3>1 DEF Front
  <2>2. \A x \in S \X (1..n) : F[x] \in S
    <3> TAKE x \in S \X (1..n)
    <3>1. x[1] \in Seq(Parts) /\ x[2] \in 1..n /\ parts[x[2]] \in Parts
      BY <1>1, <1>2
    <3>2. Append(x[1], parts[x[2]]) \in Seq(Parts) /\ Front(x[1]) \in Seq(Parts)
      BY <2>1, <3>1
    <3>3. QED BY <1>2, <1>3, <3>2 DEF Onward
  <2>3. QED BY <1>2, <1>3, <2>2 DEF Advances
<1>5. PICK h \in [0..n -> S] : h[0] = nodes /\ \A k \in 1..n : h[k] = F[<<h[k - 1], k>>]
  <2>1. \E h : StepByStep(h, nodes, F, S, n)
    BY <1>1, <1>4, StepsExist
  <2>2. QED BY <2>1 DEF StepByStep
<1>6. \A k \in 1..n : h[k] = Onward(h[k - 1], parts[k])
  <2> TAKE k \in 1..n
  <2>1. <<h[k - 1], k>> \in S \X (1..n)
    <3>1. k - 1 \in 0..n
      BY <1>1
    <3>2. h[k - 1] \in S
      BY <1>5, <3>1
    <3>3. QED BY <3>2
  <2>2. QED BY <1>3, <1>5, <2>1
<1>7. h = [k \in 0..n |-> IF k = 0 THEN nodes ELSE Onward(h[k - 1], parts[k])]
  <2>1. \A k \in 0..n : h[k] = IF k = 0 THEN nodes ELSE Onward(h[k - 1], parts[k])
    BY <1>1, <1>5, <1>6
  <2>2. QED BY <1>5, <2>1
<1>8. PICK g : /\ g = [k \in 0..n |-> IF k = 0 THEN nodes ELSE Onward(g[k - 1], parts[k])]
               /\ Way(nodes, parts) = g[n]
  BY <1>1, <1>7 DEF Way
<1>9. g[n] = h[n]
  <2> DEFINE P == { k \in 0..n : g[k] = h[k] }
  <2>1. 0 \in P
    BY <1>1, <1>5, <1>8
  <2>2. \A k \in 1..n : k - 1 \in P => k \in P
    BY <1>1, <1>6, <1>8
  <2> HIDE DEF P
  <2>3. \A k \in 0..n : k \in P
    BY <1>1, <2>1, <2>2, CountingUp
  <2>4. QED BY <1>1, <2>3 DEF P
<1>10. QED BY <1>1, <1>2, <1>5, <1>6, <1>8, <1>9

\* Where a path that is followed to its end leads, and what is left of the slice it starts from.
LEMMA FollowPathFits ==
    ASSUME NEW slice \in Slices, NEW r \in Following(slice), NEW Parts, NEW parts \in Seq(Parts),
           NEW types, NEW t, t = FollowPath(r, parts, types)
    PROVE  /\ t \in Following(slice)
           /\ ~t.failed => InUse(t.nodes) = Way(InUse(r.nodes), parts)
           /\ Stays(r, slice) /\ ~UpAndDown(parts) => SamePlace(r, t, slice)
<1>1. PICK n \in Nat : n = Len(parts)
  OBVIOUS
<1>2. PICK h \in [0..n -> Following(slice)] :
         h[0] = r /\ t = h[n] /\ \A k \in 1..n : h[k] = FollowPart(h[k - 1], parts[k], types)
  BY <1>1, FollowPathSteps
<1>3. ASSUME NEW k \in 1..n
      PROVE  /\ k - 1 \in 0..n /\ k \in 0..n /\ h[k - 1] \in Following(slice)
             /\ ~h[k].failed => /\ ~h[k - 1].failed
                                /\ InUse(h[k].nodes) = Onward(InUse(h[k - 1].nodes), parts[k])
             /\ parts[k] = ".." => h[k].own = h[k - 1].own
             /\ parts[k] # ".." /\ Stays(h[k - 1], slice)
                   => Stays(h[k], slice) /\ SamePlace(h[k - 1], h[k], slice)
  <2>1. k - 1 \in 0..n /\ k \in 0..n /\ h[k - 1] \in Following(slice) /\ h[k] = FollowPart(h[k - 1], parts[k], types)
    BY <1>1, <1>2
  <2>2. QED BY <2>1, FollowPartFits
<1>4. ~t.failed => InUse(t.nodes) = Way(InUse(r.nodes), parts)
  <2>1. PICK AnySlice : AnySlice = Parts \cup Nodes
    OBVIOUS
  <2>2. InUse(r.nodes) \in Seq(AnySlice) /\ parts \in Seq(AnySlice)
    <3>1. r.nodes \in Slices
      BY DEF Following
    <3>2. InUse(r.nodes) \in Seq(Nodes)
      BY <3>1, InUseIsOfNodes
    <3>3. QED BY <2>1, <3>2
  <2>3. PICK ways \in [0..n -> Seq(AnySlice)] :
           /\ ways[0] = InUse(r.nodes) /\ Way(InUse(r.nodes), parts) = ways[n]
           /\ \A k \in 1..n : ways[k] = Onward(ways[k - 1], parts[k])
    BY <1>1, <2>2, WaySteps
  <2> DEFINE P == { k \in 0..n : ~h[k].failed => InUse(h[k].nodes) = ways[k] }
  <2>4. 0 \in P
    BY <1>1, <1>2, <2>3
  <2>5. ASSUME NEW k \in 1..n, k - 1 \in P PROVE k \in P
    BY <1>1, <1>3, <2>3, <2>5
  <2> HIDE DEF P
  <2>6. \A k \in 0..n : k \in P
    BY <1>1, <2>4, <2>5, CountingUp
  <2>7. QED BY <1>1, <1>2, <2>3, <2>6 DEF P
<1>5. ASSUME Stays(r, slice), ~UpAndDown(parts) PROVE SamePlace(r, t, slice)
  <2> DEFINE P == { k \in 0..n : /\ SamePlace(r, h[k], slice)
                                 /\ Stays(h[k], slice) \/ \E i \in 1..k : parts[i] = ".." }
  <2>1. 0 \in P
    BY <1>1, <1>2, <1>5 DEF SamePlace
  <2>2. ASSUME NEW k \in 1..n, k - 1 \in P PROVE k \in P
    <3>1. SamePlace(r, h[k - 1], slice) /\ (Stays(h[k - 1], slice) \/ \E i \in 1..(k - 1) : parts[i] = "..")
      BY <2>2
    <3>2. CASE parts[k] = ".."
      BY <1>1, <1>3, <3>1, <3>2 DEF SamePlace
    <3>3. CASE parts[k] # ".."
      <4>1. ~ \E i \in 1..(k - 1) : parts[i] = ".."
        <5> SUFFICES ASSUME NEW i \in 1..(k - 1), parts[i] = ".." PROVE FALSE
          OBVIOUS
        <5>1. i \in DOMAIN parts /\ k \in DOMAIN parts /\ i < k
          BY <1>1
        <5>2. QED BY <1>5, <3>3, <5>1 DEF UpAndDown
      <4>2. Stays(h[k], slice) /\ SamePlace(h[k - 1], h[k], slice)
        BY <1>3, <3>1, <3>3, <4>1
      <4>3. QED BY <1>1, <1>3, <3>1, <4>2 DEF SamePlace
    <3>4. QED BY <3>2, <3>3
  <2> HIDE DEF P
  <2>3. \A k \in 0..n : k \in P
    BY <1>1, <2>1, <2>2, CountingUp
  <2>4. QED BY <1>1, <1>2, <2>3 DEF P
<1>6. t \in Following(slice)
  BY <1>1, <1>2
<1>7. QED BY <1>4, <1>5, <1>6

\* A way goes on at a node below its last one.
LEMMA WayGoesOn ==
    ASSUME NEW slice \in Slices, NEW node \in Nodes, IsWay(InUse(slice)),
           NodeForStruct(TopOf(slice), node, ForDirectory)
    PROVE  IsWay(Append(InUse(slice), node))
<1>1. PICK way \in Seq(Nodes) : way = InUse(slice) /\ Len(way) = slice.size
  BY InUseIsOfNodes
<1>2. slice.size \in Nat \ {0} /\ way[slice.size] = TopOf(slice)
  BY <1>1, InUseIsOfNodes DEF Slices, TopOf
<1>3. PICK next \in Seq(Nodes) :
         /\ next = Append(way, node) /\ Len(next) = Len(way) + 1
         /\ next[Len(way) + 1] = node /\ \A i \in 1..Len(way) : next[i] = way[i]
  <2>1. PICK next : next = Append(way, node)
    OBVIOUS
  <2>2. /\ next \in Seq(Nodes) /\ Len(next) = Len(way) + 1
        /\ next[Len(way) + 1] = node /\ \A i \in 1..Len(way) : next[i] = way[i]
    BY <2>1
  <2>3. QED BY <2>1, <2>2
<1>4. next[1] = RootNode
  BY <1>1, <1>2, <1>3 DEF IsWay
<1>5. \A i \in 1..(Len(next) - 1) : NodeForStruct(next[i], next[i + 1], ForDirectory)
  <2> TAKE i \in 1..(Len(next) - 1)
  <2>1. CASE i = Len(way)
    BY <1>1, <1>2, <1>3, <2>1
  <2>2. CASE i # Len(way)
    <3>1. i \in 1..Len(way) /\ i + 1 \in 1..Len(way) /\ i \in 1..(Len(way) - 1)
      BY <1>1, <1>2, <1>3, <2>2
    <3>2. QED BY <1>1, <1>3, <3>1 DEF IsWay
  <2>3. QED BY <2>1, <2>2
<1>6. QED BY <1>1, <1>3, <1>4, <1>5 DEF IsWay

\* Following a path that does not go up, from a node of the tree, among its directories.
LEMMA FollowPathIsWay ==
    ASSUME NEW slice \in Slices, NEW r \in Following(slice), NEW parts \in Seq(Nodes),
           IsWay(InUse(r.nodes)), NEW t, t = FollowPath(r, parts, ForDirectory)
    PROVE  ~t.failed => IsWay(InUse(t.nodes))
<1>1. PICK n \in Nat : n = Len(parts)
  OBVIOUS
<1>2. PICK h \in [0..n -> Following(slice)] :
         h[0] = r /\ t = h[n] /\ \A k \in 1..n : h[k] = FollowPart(h[k - 1], parts[k], ForDirectory)
  BY <1>1, FollowPathSteps
<1> DEFINE P == { k \in 0..n : h[k].failed \/ IsWay(InUse(h[k].nodes)) }
<1>3. 0 \in P
  BY <1>1, <1>2
<1>4. ASSUME NEW k \in 1..n, k - 1 \in P PROVE k \in P
  <2>1. /\ k - 1 \in 0..n /\ k \in 0..n /\ h[k - 1] \in Following(slice) /\ parts[k] \in Nodes
        /\ h[k] = FollowPart(h[k - 1], parts[k], ForDirectory)
    BY <1>1, <1>2
  <2> SUFFICES ASSUME ~h[k].failed PROVE IsWay(InUse(h[k].nodes))
    BY <2>1
  <2>2. /\ ~h[k - 1].failed /\ parts[k] # ".."
        /\ InUse(h[k].nodes) = Append(InUse(h[k - 1].nodes), parts[k])
    <3>1. ~h[k - 1].failed /\ InUse(h[k].nodes) = Onward(InUse(h[k - 1].nodes), parts[k])
      BY <2>1, FollowPartFits
    <3>2. parts[k] # ".."
      BY <2>1, TreeOfNodes
    <3>3. QED BY <3>1, <3>2 DEF Onward
  <2>3. IsWay(InUse(h[k - 1].nodes))
    BY <1>4, <2>2
  <2>4. NodeForStruct(TopOf(h[k - 1].nodes), parts[k], ForDirectory)
    <3>1. CASE h[k] = [h[k - 1] EXCEPT !.failed = TRUE]
      <4>1. h[k].failed
        BY <2>1, <3>1 DEF Following
      <4>2. QED BY <4>1
    <3>2. CASE h[k] # [h[k - 1] EXCEPT !.failed = TRUE]
      BY <2>1, <2>2, <3>2 DEF FollowPart
    <3>3. QED BY <3>1, <3>2
  <2>5. QED BY <2>1, <2>2, <2>3, <2>4, WayGoesOn DEF Following
<1> HIDE DEF P
<1>5. \A k \in 0..n : k \in P
  BY <1>1, <1>3, <1>4, CountingUp
<1>6. QED BY <1>1, <1>2, <1>5 DEF P

\* A saved way is found again, to its end.
LEMMA SavedWayIsFound ==
    ASSUME NEW slice \in Slices, NEW r \in Following(slice), ~r.failed,
           NEW way \in Seq(Nodes), way # <<>>, IsWay(way), InUse(r.nodes) = <<RootNode>>,
           NEW t, t = FollowPath(r, Tail(way), ForDirectory)
    PROVE  ~t.failed /\ InUse(t.nodes) = way
<1>1. PICK parts \in Seq(Nodes) : /\ parts = Tail(way) /\ Len(parts) = Len(way) - 1
                                  /\ \A k \in 1..(Len(way) - 1) : parts[k] = way[k + 1]
  <2>1. PICK parts : parts = Tail(way)
    OBVIOUS
  <2>2. parts \in Seq(Nodes) /\ Len(parts) = Len(way) - 1 /\ \A k \in 1..Len(parts) : parts[k] = way[k + 1]
    BY <2>1, HeadTailProperties
  <2>3. QED BY <2>1, <2>2
<1>2. PICK n \in Nat : n = Len(parts)
  OBVIOUS
<1>3. PICK h \in [0..n -> Following(slice)] :
         h[0] = r /\ t = h[n] /\ \A k \in 1..n : h[k] = FollowPart(h[k - 1], parts[k], ForDirectory)
  <2>1. t = FollowPath(r, parts, ForDirectory)
    BY <1>1
  <2>2. QED BY <1>2, <2>1, FollowPathSteps
<1> DEFINE P == { k \in 0..n : ~h[k].failed /\ InUse(h[k].nodes) = SubSeq(way, 1, k + 1) }
<1>4. 0 \in P
  <2>1. SubSeq(way, 1, 1) = <<way[1]>>
    <3>1. way \in Seq(Nodes) /\ Len(way) >= 1
      BY <1>1, <1>2
    <3>2. 1 <= Len(way) /\ Len(way) \in Nat
      BY <3>1
    <3>3. PICK s : s = SubSeq(way, 1, 1)
      OBVIOUS
    <3>4. s \in Seq(Nodes) /\ Len(s) = 1 /\ s[1] = way[1]
      <4>1. \A i \in 1..1 : way[i] \in Nodes
        BY <3>1, <3>2
      <4>2. PICK e \in Int : e = 1
        OBVIOUS
      <4>3. /\ SubSeq(way, e, e) \in Seq(Nodes) /\ Len(SubSeq(way, e, e)) = e - e + 1
            /\ \A i \in 1..(e - e + 1) : SubSeq(way, e, e)[i] = way[e + i - 1]
        BY <4>1, <4>2, SubSeqProperties
      <4>4. QED BY <3>3, <4>2, <4>3
    <3>5. s = <<s[1]>>
      <4>1. s \in Seq(Nodes) /\ Len(s) = 1
        BY <3>4
      <4>2. QED BY ONLY <4>1
    <3>6. QED BY <3>3, <3>4, <3>5
  <2>2. way[1] = RootNode
    BY DEF IsWay
  <2>3. QED BY <1>2, <1>3, <2>1, <2>2
<1>5. ASSUME NEW k \in 1..n, k - 1 \in P PROVE k \in P
  <2>1. /\ k - 1 \in 0..n /\ k \in 0..n /\ h[k - 1] \in Following(slice) /\ parts[k] = way[k + 1]
        /\ h[k] = FollowPart(h[k - 1], parts[k], ForDirectory) /\ parts[k] \in Nodes
    BY <1>1, <1>2, <1>3
  <2>2. ~h[k - 1].failed /\ InUse(h[k - 1].nodes) = SubSeq(way, 1, k)
    BY <1>2, <1>5, <2>1
  <2>3. /\ SubSeq(way, 1, k) \in Seq(Nodes) /\ Len(SubSeq(way, 1, k)) = k
        /\ \A i \in 1..k : SubSeq(way, 1, k)[i] = way[i]
    BY <1>1, <1>2, SubSeqProperties
  <2>4. TopOf(h[k - 1].nodes) = way[k]
    <3>1. h[k - 1].nodes \in Slices
      BY <2>1 DEF Following
    <3>2. PICK x \in Slices : x = h[k - 1].nodes
      BY <3>1
    <3>3. Len(InUse(x)) = k /\ InUse(x)[k] = way[k]
      BY <1>2, <2>2, <2>3, <3>2
    <3>4. x.size = k
      BY <3>3, InUseIsOfNodes
    <3>5. x.slots[k] = way[k]
      <4>1. k \in 1..x.size
        BY <1>2, <3>4
      <4>2. QED BY <3>3, <4>1, InUseIsOfNodes
    <3>6. QED BY <3>2, <3>4, <3>5 DEF TopOf
  <2>5. NodeForStruct(way[k], way[k + 1], ForDirectory)
    BY <1>1, <1>2 DEF IsWay
  <2>6. ~h[k].failed
    <3>1. parts[k] # ".."
      BY <2>1, TreeOfNodes
    <3> DEFINE r0 == h[k - 1]
               shares == r0.shares /\ Room(r0.nodes)
               nodes == Appended(r0.nodes, parts[k])
               own == IF shares THEN nodes.slots ELSE r0.own
    <3>2. h[k] = [r0 EXCEPT !.nodes = nodes, !.shares = shares, !.own = own]
      BY <2>1, <2>2, <2>4, <2>5, <3>1 DEF FollowPart
    <3> HIDE DEF nodes, shares, own
    <3>3. QED BY <2>1, <2>2, <3>2 DEF Following
  <2>7. InUse(h[k].nodes) = Append(SubSeq(way, 1, k), way[k + 1])
    <3>1. InUse(h[k].nodes) = Onward(InUse(h[k - 1].nodes), parts[k])
      BY <2>1, <2>6, FollowPartFits
    <3>2. parts[k] # ".."
      BY <2>1, TreeOfNodes
    <3>3. QED BY <2>1, <2>2, <3>1, <3>2 DEF Onward
  <2>8. Append(SubSeq(way, 1, k), way[k + 1]) = SubSeq(way, 1, k + 1)
    <3>1. PICK x \in Seq(Nodes) : x = SubSeq(way, 1, k)
      BY <2>3
    <3>2. PICK y \in Seq(Nodes) : /\ y = SubSeq(way, 1, k + 1) /\ Len(y) = k + 1
                                  /\ \A i \in 1..(k + 1) : y[i] = way[i]
      <4>1. k + 1 \in 1..Len(way)
        BY <1>1, <1>2
      <4>2. PICK y : y = SubSeq(way, 1, k + 1)
        OBVIOUS
      <4>3. Len(y) = k + 1
        BY <1>2, <4>1, <4>2, SubSeqProperties
      <4>4. y \in Seq(Nodes) /\ \A i \in 1..(k + 1) : y[i] = way[i]
        BY <1>2, <4>1, <4>2, SubSeqProperties
      <4>5. QED BY <4>2, <4>3, <4>4
    <3>3. y = Append(x, y[k + 1])
      BY <2>3, <3>1, <3>2
    <3>4. QED BY <1>1, <1>2, <3>1, <3>2, <3>3
  <2>9. QED BY <2>1, <2>6, <2>7, <2>8
<1> HIDE DEF P
<1>6. n \in P
  <2>1. \A k \in 0..n : k \in P
    BY <1>2, <1>4, <1>5, CountingUp
  <2>2. QED BY <1>2, <2>1
<1>7. SubSeq(way, 1, n + 1) = way
  BY <1>1, <1>2
<1>8. QED BY <1>1, <1>3, <1>6, <1>7 DEF P

-----------------------------------------------------------------------------
(* Looking paths up *)

Paths(Parts) == [number : Nat, absolute : BOOLEAN, parts : Seq(Parts)]

\* A slice is an array and how much of it is in use: the array's nodes stay nodes, wherever
\* in it a path that is looked up is written.
ArrayFits(own, slice) ==
    own \in Seq(Names) /\ Len(own) = Len(slice.slots) /\ \A i \in 1..slice.size : own[i] \in Nodes

\* A session keeps a slice of nodes when its array is written to by a path that shares it.
LEMMA ArrayOfSlice ==
    ASSUME NEW slice \in Slices, NEW own, ArrayFits(own, slice)
    PROVE  /\ [slice EXCEPT !.slots = own] \in Slices
           /\ [slice EXCEPT !.slots = own].size = slice.size
<1> PICK slots \in Seq(Names), size \in Nat :
       slice = [slots |-> slots, size |-> size] /\ size \in 1..Len(slots)
  BY DEF Slices
<1>1. [slice EXCEPT !.slots = own] = [slots |-> own, size |-> size]
  OBVIOUS
<1>2. QED BY <1>1 DEF ArrayFits, Slices

\* The root is a way of its own.
LEMMA RootIsSlice ==
    Slice(<<RootNode>>, 1) \in Slices /\ InUse(Slice(<<RootNode>>, 1)) = <<RootNode>> /\ IsWay(<<RootNode>>)
<1>1. PICK slots \in Seq(Names) : slots = <<RootNode>> /\ Len(slots) = 1 /\ slots[1] = RootNode
  <2>1. RootNode \in Names
    BY TreeOfNodes DEF Names
  <2>2. PICK root \in Names : root = RootNode
    BY <2>1
  <2>3. <<root>> \in Seq(Names) /\ Len(<<root>>) = 1 /\ <<root>>[1] = root
    OBVIOUS
  <2>4. QED BY <2>2, <2>3
<1>2. [slots |-> slots, size |-> 1] \in Slices
  <2>1. 1 \in 1..Len(slots) /\ \A i \in 1..1 : slots[i] \in Nodes
    BY <1>1, TreeOfNodes
  <2>2. QED BY <2>1 DEF Slices
<1>3. SubSeq(slots, 1, 1) = slots
  <2>1. Len(slots) = 1
    BY <1>1
  <2>2. QED BY <2>1
<1>4. IsWay(slots)
  BY <1>1 DEF IsWay
<1>5. QED BY <1>1, <1>2, <1>3, <1>4 DEF Slice, InUse

\* PathAsNodes gives a slice of nodes, where Way leads, and leaves the session its
\* nodes unless the path goes up and then down.
LEMMA PathFits ==
    ASSUME CommandInv, NEW s \in CommandSessions, NEW Parts, NEW path \in Paths(Parts),
           NEW types, NEW r, r = PathAsNodes(s, path, types)
    PROVE  /\ r.nodes \in Slices /\ ArrayFits(r.own, history[s])
           /\ ~r.failed /\ path.number = 0
                 => InUse(r.nodes) = Way(IF path.absolute THEN <<RootNode>> ELSE NodeHistory(s), path.parts)
           /\ UpAndDown(path.parts) \/ \A i \in 1..history[s].size : r.own[i] = history[s].slots[i]
<1> PICK slice \in Slices : slice = history[s]
  BY DEF CommandInv
<1> PICK slots \in Seq(Names), size \in Nat :
       /\ slice = [slots |-> slots, size |-> size]
       /\ size \in 1..Len(slots) /\ \A i \in 1..size : slots[i] \in Nodes
  BY DEF Slices
<1>1. path.number \in Nat /\ path.parts \in Seq(Parts) /\ path.absolute \in BOOLEAN
  BY DEF Paths
<1>2. slots = slice.slots /\ size = slice.size /\ ArrayFits(slots, slice)
  BY DEF ArrayFits
<1>3. CASE path.number > 0 /\ path.number > Len(numbered[s])
  <2>1. r = [nodes |-> slice, shares |-> TRUE, failed |-> TRUE, own |-> slots]
    BY <1>1, <1>2, <1>3 DEF PathAsNodes
  <2>2. QED BY <1>2, <1>3, <2>1
<1>4. CASE path.number > 0 /\ ~(path.number > Len(numbered[s]))
  <2>1. PICK node \in Nodes : node = numbered[s][path.number]
    BY <1>1, <1>4 DEF CommandInv
  <2>2. PICK nodes \in Slices : /\ nodes = Appended(slice, node)
                                /\ Room(slice) => nodes.slots = [slots EXCEPT ![size + 1] = node]
    BY <1>2, AppendedFits
  <2>3. PICK own : own = IF Room(slice) THEN nodes.slots ELSE slots
    OBVIOUS
  <2>4. r = [nodes |-> nodes, shares |-> TRUE, failed |-> FALSE, own |-> own]
    BY <1>1, <1>2, <1>4, <2>1, <2>2, <2>3 DEF PathAsNodes
  <2>5. ArrayFits(own, slice) /\ \A i \in 1..size : own[i] = slots[i]
    <3>1. CASE Room(slice)
      <4>1. own = [slots EXCEPT ![size + 1] = node] /\ node \in Names
        BY <2>2, <2>3, <3>1 DEF Names
      <4>2. own \in Seq(Names) /\ Len(own) = Len(slots) /\ \A i \in 1..size : own[i] = slots[i]
        <5>1. size + 1 \in 1..Len(slots)
          BY <1>2, <3>1 DEF Room
        <5>2. QED BY <4>1, <5>1
      <4>3. QED BY <1>2, <4>2 DEF ArrayFits
    <3>2. CASE ~Room(slice)
      BY <1>2, <2>3, <3>2
    <3>3. QED BY <3>1, <3>2
  <2>6. QED BY <1>2, <1>4, <2>4, <2>5
<1>5. CASE path.number = 0
  <2>1. PICK start \in Following(slice) :
           /\ r = FollowPath(start, path.parts, types) /\ start.own = slots
           /\ Stays(start, slice)
           /\ InUse(start.nodes) = IF path.absolute THEN <<RootNode>> ELSE NodeHistory(s)
    <3>1. CASE path.absolute
      <4>1. PICK root \in Slices : root = Slice(<<RootNode>>, 1) /\ InUse(root) = <<RootNode>>
        BY RootIsSlice
      <4> DEFINE start == [nodes |-> root, shares |-> FALSE, own |-> slots, failed |-> FALSE]
      <4>2. start \in Following(slice)
        BY <1>2, IsFollowing DEF ArrayFits
      <4>3. r = FollowPath(start, path.parts, types)
        BY <1>2, <1>5, <3>1, <4>1 DEF PathAsNodes
      <4>4. start.own = slots /\ Stays(start, slice) /\ InUse(start.nodes) = <<RootNode>>
        BY <4>1 DEF Stays
      <4> HIDE DEF start
      <4>5. QED BY <3>1, <4>2, <4>3, <4>4
    <3>2. CASE ~path.absolute
      <4> DEFINE start == [nodes |-> slice, shares |-> TRUE, own |-> slots, failed |-> FALSE]
      <4>1. start \in Following(slice)
        BY <1>2, IsFollowing DEF ArrayFits
      <4>2. r = FollowPath(start, path.parts, types)
        BY <1>1, <1>2, <1>5, <3>2 DEF PathAsNodes
      <4>3. start.own = slots /\ Stays(start, slice) /\ InUse(start.nodes) = NodeHistory(s)
        BY <1>2 DEF Stays, NodeHistory
      <4> HIDE DEF start
      <4>4. QED BY <3>2, <4>1, <4>2, <4>3
    <3>3. QED BY <3>1, <3>2
  <2>2. /\ r \in Following(slice)
        /\ ~r.failed => InUse(r.nodes) = Way(InUse(start.nodes), path.parts)
        /\ ~UpAndDown(path.parts) => SamePlace(start, r, slice)
    BY <1>1, <2>1, FollowPathFits
  <2>3. r.nodes \in Slices /\ ArrayFits(r.own, slice)
    BY <2>2 DEF Following, ArrayFits
  <2>4. QED BY <1>2, <2>1, <2>2, <2>3 DEF SamePlace
<1>6. QED BY <1>1, <1>3, <1>4, <1>5

\* Nodes that are listed are of the tree.
LEMMA NumberedFits ==
    ASSUME NEW nodes \in Seq(Nodes)
    PROVE  Numbered(nodes) \in Seq(Nodes)
<1>1. PICK n \in Nat : n = Len(nodes)
  OBVIOUS
<1>2. PICK S : S = Seq(Nodes)
  OBVIOUS
<1>3. PICK F : F = [x \in S \X (1..n) |-> Listed(x[1], nodes[x[2]])]
  OBVIOUS
<1>4. Advances(F, S, n) /\ <<>> \in S
  <2>1. \A x \in S \X (1..n) : F[x] \in S
    <3> TAKE x \in S \X (1..n)
    <3>1. x[1] \in Seq(Nodes) /\ x[2] \in 1..n /\ nodes[x[2]] \in Nodes
      BY <1>1, <1>2
    <3>2. Append(x[1], nodes[x[2]]) \in Seq(Nodes)
      BY <3>1
    <3>3. QED BY <1>2, <1>3, <3>1, <3>2 DEF Listed
  <2>2. <<>> \in Seq(Nodes)
    OBVIOUS
  <2>3. QED BY <1>2, <1>3, <2>1, <2>2 DEF Advances
<1>5. PICK h \in [0..n -> S] : h[0] = <<>> /\ \A k \in 1..n : h[k] = F[<<h[k - 1], k>>]
  <2>1. \E h : StepByStep(h, <<>>, F, S, n)
    BY <1>1, <1>4, StepsExist
  <2>2. QED BY <2>1 DEF StepByStep
<1>6. \A k \in 1..n : h[k] = Listed(h[k - 1], nodes[k])
  <2> TAKE k \in 1..n
  <2>1. <<h[k - 1], k>> \in S \X (1..n)
    <3>1. k - 1 \in 0..n
      BY <1>1
    <3>2. h[k - 1] \in S
      BY <1>5, <3>1
    <3>3. QED BY <3>2
  <2>2. QED BY <1>3, <1>5, <2>1
<1>7. h = [k \in 0..n |-> IF k = 0 THEN <<>> ELSE Listed(h[k - 1], nodes[k])]
  <2>1. \A k \in 0..n : h[k] = IF k = 0 THEN <<>> ELSE Listed(h[k - 1], nodes[k])
    BY <1>1, <1>5, <1>6
  <2>2. QED BY <1>5, <2>1
<1>8. PICK g : /\ g = [k \in 0..n |-> IF k = 0 THEN <<>> ELSE Listed(g[k - 1], nodes[k])]
               /\ Numbered(nodes) = g[n]
  BY <1>1, <1>7 DEF Numbered
<1> DEFINE P == { k \in 0..n : g[k] = h[k] }
<1>9. 0 \in P
  BY <1>1, <1>5, <1>8
<1>10. \A k \in 1..n : k - 1 \in P => k \in P
  BY <1>1, <1>6, <1>8
<1> HIDE DEF P
<1>11. \A k \in 0..n : k \in P
  BY <1>1, <1>9, <1>10, CountingUp
<1>12. g[n] = h[n]
  BY <1>1, <1>11 DEF P
<1>13. QED BY <1>1, <1>2, <1>5, <1>8, <1>12

-----------------------------------------------------------------------------
(* Sessions *)

\* Sessions start at the root.
LEMMA CommandInvInit == CommandsInit => CommandInv
<1> SUFFICES ASSUME CommandsInit PROVE CommandInv
  OBVIOUS
<1>1. \A s \in CommandSessions : history[s] = Slice(<<RootNode>>, 1)
  BY DEF CommandsInit
<1>2. history \in [CommandSessions -> Slices]
  BY RootIsSlice DEF CommandsInit
<1>3. numbered \in [CommandSessions -> Seq(Nodes)] /\ savedPath \in Seq(Nodes)
  BY DEF CommandsInit
<1>4. \A s \in CommandSessions : IsWay(NodeHistory(s))
  BY <1>1, RootIsSlice DEF NodeHistory
<1>5. QED BY <1>2, <1>3, <1>4 DEF CommandInv

\* A session moves: the others stay, and it has strayed if where it is is no node.
LEMMA SessionMoves ==
    ASSUME CommandInv, NEW s \in CommandSessions, NEW nodes \in Slices,
           history' = [history EXCEPT ![s] = nodes],
           numbered' \in [CommandSessions -> Seq(Nodes)], savedPath' \in Seq(Nodes),
           (IsWay(InUse(nodes)) /\ strayed' = strayed \ {s}) \/ Strays(s, nodes)
    PROVE  CommandInv'
<1>1. history' \in [CommandSessions -> Slices]
  BY DEF CommandInv
<1>2. ASSUME NEW q \in CommandSessions, q \notin strayed' PROVE IsWay(NodeHistory(q)')
  <2>1. CASE q = s
    <3>1. s \in DOMAIN history
      BY DEF CommandInv
    <3>2. NodeHistory(q)' = InUse(nodes)
      BY <2>1, <3>1 DEF NodeHistory
    <3>3. IsWay(InUse(nodes))
      BY <1>2, <2>1 DEF Strays
    <3>4. QED BY <3>2, <3>3
  <2>2. CASE q # s
    <3>1. q \in DOMAIN history
      BY DEF CommandInv
    <3>2. NodeHistory(q)' = NodeHistory(q)
      BY <2>2, <3>1 DEF NodeHistory
    <3>3. q \notin strayed
      BY <1>2, <2>2 DEF Strays
    <3>4. QED BY <3>2, <3>3 DEF CommandInv
  <2>3. QED BY <2>1, <2>2
<1>3. QED BY <1>1, <1>2 DEF CommandInv

\* HandleNewSession: a session starts at the root, or at the node the saved path leads to.
LEMMA NewSessionStep ==
    ASSUME CommandInv, NEW s \in CommandSessions, HandleNewSession(s)
    PROVE  CommandInv'
<1> PICK start \in Slices : start = Slice(<<RootNode>>, 1) /\ InUse(start) = <<RootNode>>
  BY RootIsSlice
<1> PICK first : first = [nodes |-> start, shares |-> FALSE, own |-> start.slots, failed |-> FALSE]
  OBVIOUS
<1> PICK there : there = FollowPath(first, Tail(savedPath), ForDirectory)
  OBVIOUS
<1> PICK nodes : nodes = IF savedPath = <<>> \/ there.failed THEN start ELSE there.nodes
  OBVIOUS
<1>1. /\ history' = [history EXCEPT ![s] = nodes] /\ numbered' = [numbered EXCEPT ![s] = <<>>]
      /\ savedPath' = InUse(nodes) /\ strayed' = strayed \ {s}
  <2>1. [nodes |-> start, shares |-> FALSE, own |-> start.slots, failed |-> FALSE] = first
    OBVIOUS
  <2>2. QED BY <2>1 DEF HandleNewSession, SavesPath
<1>2. nodes \in Slices /\ IsWay(InUse(nodes))
  <2>1. CASE savedPath = <<>> \/ there.failed
    BY <2>1, RootIsSlice
  <2>2. CASE savedPath # <<>> /\ ~there.failed
    <3>1. first \in Following(start)
      <4>1. start.slots \in Seq(Names) /\ \A i \in 1..start.size : start.slots[i] \in Nodes
        BY DEF Slices
      <4>2. QED BY <4>1, IsFollowing
    <3>2. PICK parts \in Seq(Nodes) : parts = Tail(savedPath)
      <4>1. savedPath \in Seq(Nodes)
        BY DEF CommandInv
      <4>2. QED BY <2>2, <4>1, HeadTailProperties
    <3>3. there \in Following(start)
      BY <3>1, <3>2, FollowPathFits
    <3>4. IsWay(InUse(first.nodes))
      BY RootIsSlice
    <3>5. IsWay(InUse(there.nodes))
      BY <2>2, <3>1, <3>2, <3>4, FollowPathIsWay
    <3>6. QED BY <2>2, <3>3, <3>5 DEF Following
  <2>3. QED BY <2>1, <2>2
<1>3. numbered' \in [CommandSessions -> Seq(Nodes)]
  BY <1>1 DEF CommandInv
<1>4. savedPath' \in Seq(Nodes)
  BY <1>1, <1>2, InUseIsOfNodes
<1>5. QED BY <1>1, <1>2, <1>3, <1>4, SessionMoves

\* cd: a session goes where the path leads, or stays where it is in an array that may be other.
LEMMA cdStep ==
    ASSUME CommandInv, NEW s \in CommandSessions, NEW path \in TypedPaths, Command_cd(s, path)
    PROVE  CommandInv'
<1> PICK slice \in Slices : slice = history[s]
  BY DEF CommandInv
<1> PICK r : r = PathAsNodes(s, path, ForDirectory)
  OBVIOUS
<1> PICK moved : moved = changeDirectory(s, path)
  OBVIOUS
<1>1. r.nodes \in Slices /\ ArrayFits(r.own, slice)
  <2>1. path \in Paths(STRING)
    BY TypedPathsAssumption DEF Paths
  <2>2. QED BY <2>1, PathFits
<1>2. moved.nodes \in Slices
  <2>1. [slice EXCEPT !.size = 1] \in Slices
    <3> PICK slots \in Seq(Names), size \in Nat :
           /\ slice = [slots |-> slots, size |-> size]
           /\ size \in 1..Len(slots) /\ \A i \in 1..size : slots[i] \in Nodes
      BY DEF Slices
    <3>1. [slice EXCEPT !.size = 1] = [slots |-> slots, size |-> 1]
      OBVIOUS
    <3>2. QED BY <3>1 DEF Slices
  <2>2. [slice EXCEPT !.slots = r.own] \in Slices
    BY <1>1, ArrayOfSlice
  <2>3. moved.nodes \in {[slice EXCEPT !.size = 1], [slice EXCEPT !.slots = r.own], r.nodes}
    BY DEF changeDirectory, AtRoot
  <2>4. QED BY <1>1, <2>1, <2>2, <2>3
<1>3. /\ history' = [history EXCEPT ![s] = moved.nodes] /\ Strays(s, moved.nodes)
      /\ numbered' \in {numbered, [numbered EXCEPT ![s] = <<>>]}
      /\ savedPath' \in {savedPath, InUse(moved.nodes), InUse(slice)}
  BY DEF Command_cd, SavesPath
<1>4. numbered' \in [CommandSessions -> Seq(Nodes)]
  <2>1. <<>> \in Seq(Nodes) /\ numbered \in [CommandSessions -> Seq(Nodes)]
    BY DEF CommandInv
  <2>2. [numbered EXCEPT ![s] = <<>>] \in [CommandSessions -> Seq(Nodes)]
    BY <2>1
  <2>3. QED BY <1>3, <2>1, <2>2
<1>5. savedPath' \in Seq(Nodes)
  <2>1. InUse(moved.nodes) \in Seq(Nodes) /\ InUse(slice) \in Seq(Nodes)
    BY <1>2, InUseIsOfNodes
  <2>2. QED BY <1>3, <2>1 DEF CommandInv
<1>6. QED BY <1>2, <1>3, <1>4, <1>5, SessionMoves

\* ls: only the numbers change.
LEMMA lsStep ==
    ASSUME CommandInv, NEW s \in CommandSessions, Command_ls(s)
    PROVE  CommandInv'
<1>1. TopOf(history[s]) \in Nodes
  BY DEF CommandInv, Slices, TopOf
<1>2. Numbered(SubNodes[TopOf(history[s])]) \in Seq(Nodes)
  BY <1>1, TreeOfNodes, NumberedFits
<1>3. numbered' \in [CommandSessions -> Seq(Nodes)]
  BY <1>2 DEF Command_ls, CommandInv
<1>4. QED BY <1>3 DEF Command_ls, CommandInv, NodeHistory

\* What only looks a path up leaves the session with as many nodes, in an array that may be other.
LEMMA LookUpStep ==
    ASSUME CommandInv, NEW s \in CommandSessions, NEW path \in TypedPaths, NEW types,
           LookUpPath(s, path, types)
    PROVE  CommandInv'
<1> PICK slice \in Slices : slice = history[s]
  BY DEF CommandInv
<1> PICK own : own = PathAsNodes(s, path, types).own
  OBVIOUS
<1>1. ArrayFits(own, slice)
  <2>1. path \in Paths(STRING)
    BY TypedPathsAssumption DEF Paths
  <2>2. QED BY <2>1, PathFits
<1>2. PICK nodes \in Slices : nodes = [slice EXCEPT !.slots = own]
  BY <1>1, ArrayOfSlice
<1>3. /\ history' = [history EXCEPT ![s] = nodes] /\ Strays(s, nodes) /\ numbered' = numbered
      /\ savedPath' \in {savedPath, InUse(slice)}
  BY <1>2 DEF LookUpPath, SavesPath
<1>4. savedPath' \in Seq(Nodes)
  BY <1>3, InUseIsOfNodes DEF CommandInv
<1>5. numbered' \in [CommandSessions -> Seq(Nodes)]
  BY <1>3 DEF CommandInv
<1>6. QED BY <1>3, <1>4, <1>5, SessionMoves

\* A session moves where PathAsNodes leads, and is strayed once its array is written to.
LEMMA CommandInvStep == CommandInv /\ [CommandsNext]_commandVars => CommandInv'
<1> SUFFICES ASSUME CommandInv, [CommandsNext]_commandVars PROVE CommandInv'
  OBVIOUS
<1>1. CASE UNCHANGED commandVars
  BY <1>1 DEF commandVars, CommandInv, NodeHistory
<1>2. CASE CommandsNext
  <2> PICK s \in CommandSessions :
        \/ HandleNewSession(s) \/ Command_ls(s)
        \/ \E path \in TypedPaths : Command_cd(s, path) \/ ExpandOrEdit(s, path)
    BY <1>2 DEF CommandsNext
  <2>1. CASE HandleNewSession(s)
    BY <2>1, NewSessionStep
  <2>2. CASE Command_ls(s)
    BY <2>2, lsStep
  <2>3. ASSUME NEW path \in TypedPaths, Command_cd(s, path) PROVE CommandInv'
    BY <2>3, cdStep
  <2>4. ASSUME NEW path \in TypedPaths, ExpandOrEdit(s, path) PROVE CommandInv'
    BY <2>4, LookUpStep DEF ExpandOrEdit
  <2>5. QED BY <2>1, <2>2, <2>3, <2>4
<1>3. QED BY <1>1, <1>2

\* What is kept of commands: where paths lead, that looking them up moves nobody, and that the
\* place that is saved is found again.
LEMMA CommandInvGives == CommandInv => CommandsAreKept
<1> SUFFICES ASSUME CommandInv PROVE CommandsAreKept
  OBVIOUS
<1>1. \A path \in TypedPaths : path \in Paths(STRING)
  BY TypedPathsAssumption DEF Paths
<1>2. PathLeadsThere
  BY <1>1, PathFits DEF PathLeadsThere
<1>3. LookUpsKeepPlace
  <2> SUFFICES ASSUME NEW s \in CommandSessions, NEW path \in TypedPaths,
                      NEW types \in {ForDirectory, {"Field"}}, ~UpAndDown(path.parts)
               PROVE  SubSeq(PathAsNodes(s, path, types).own, 1, history[s].size) = NodeHistory(s)
    BY DEF LookUpsKeepPlace
  <2> PICK slice \in Slices : slice = history[s]
    BY DEF CommandInv
  <2> PICK own : own = PathAsNodes(s, path, types).own
    OBVIOUS
  <2>1. ArrayFits(own, slice) /\ \A i \in 1..slice.size : own[i] = slice.slots[i]
    BY <1>1, PathFits
  <2> PICK slots \in Seq(Names), size \in Nat :
         slice = [slots |-> slots, size |-> size] /\ size \in 1..Len(slots)
    BY DEF Slices
  <2>2. own \in Seq(Names) /\ size \in 1..Len(own) /\ \A i \in 1..size : own[i] = slots[i]
    BY <2>1 DEF ArrayFits
  <2> PICK x : x = SubSeq(own, 1, size)
    OBVIOUS
  <2> PICK y : y = SubSeq(slots, 1, size)
    OBVIOUS
  <2>3. x \in Seq(Names) /\ Len(x) = size /\ \A i \in 1..size : x[i] = own[i]
    BY <2>2, SubSeqProperties
  <2>4. y \in Seq(Names) /\ Len(y) = size /\ \A i \in 1..size : y[i] = slots[i]
    BY SubSeqProperties
  <2>5. x = y
    BY <2>2, <2>3, <2>4
  <2>6. QED BY <2>5 DEF NodeHistory, InUse
<1>4. PlaceIsSaved
  <2>1. ASSUME savedPath # <<>>, IsWay(savedPath), NEW s \in CommandSessions,
               NEW r, r = PathAsNodes(s, TreePath(TRUE, Tail(savedPath)), ForDirectory)
        PROVE  ~r.failed /\ InUse(r.nodes) = savedPath
    <3> PICK slice \in Slices : slice = history[s]
      BY DEF CommandInv
    <3>1. PICK way \in Seq(Nodes) : way = savedPath
      BY DEF CommandInv
    <3>2. PICK root \in Slices : root = Slice(<<RootNode>>, 1) /\ InUse(root) = <<RootNode>>
      BY RootIsSlice
    <3>3. PICK start : start = [nodes |-> root, shares |-> FALSE, own |-> slice.slots, failed |-> FALSE]
      OBVIOUS
    <3>4. start \in Following(slice)
      <4>1. slice.slots \in Seq(Names) /\ \A i \in 1..slice.size : slice.slots[i] \in Nodes
        BY DEF Slices
      <4>2. QED BY <3>3, <4>1, IsFollowing
    <3>5. r = FollowPath(start, Tail(way), ForDirectory)
      <4>1. start = [nodes |-> Slice(<<RootNode>>, 1), shares |-> FALSE, failed |-> FALSE, own |-> history[s].slots]
        BY <3>2, <3>3
      <4>2. QED BY <2>1, <3>1, <4>1 DEF PathAsNodes, TreePath
    <3>6. ~start.failed /\ InUse(start.nodes) = <<RootNode>>
      BY <3>2, <3>3
    <3>7. QED BY <2>1, <3>1, <3>4, <3>5, <3>6, SavedWayIsFound
  <2>2. QED BY <2>1 DEF PlaceIsSaved, CommandInv
<1>5. QED BY <1>2, <1>3, <1>4 DEF CommandsAreKept

-----------------------------------------------------------------------------
(* The log file of zfilelog *)

(* A file of the log: what is left of a line that was cut, and then whole   *)
(* lines in the order they were written.                                   *)
Increasing(ls) == \A j, k \in 1..Len(ls) : j < k => ls[j] < ls[k]
HasLine(bytes, at, n) == bytes[at + 1] = n /\ bytes[at + 2] = n /\ bytes[at + 3] = NewLine
IsLog(bytes, rest, ls) ==
    /\ bytes \in Seq(Nat) /\ rest \in 0..2 /\ ls \in Seq(1..MaxLines)
    /\ Len(bytes) = rest + 3 * Len(ls) /\ Increasing(ls)
    /\ \A k \in 1..Len(ls) : HasLine(bytes, rest + 3 * (k - 1), ls[k])
LinesOf(ls) == { ls[k] : k \in 1..Len(ls) }

\* The sizes that the proofs count with.
LEMMA LogBounds == MaxLines \in Nat /\ NewLine = 0 /\ NotOpen = 0 /\ Kept = 4 /\ MaxBackup = 6 /\ MaxBytes = 5
BY DEF MaxLines, NewLine, NotOpen, Kept, MaxBackup, MaxBytes

\* The sizes of a file of the log.
LEMMA LogShape ==
    ASSUME NEW bytes, NEW rest, NEW ls, IsLog(bytes, rest, ls)
    PROVE  /\ bytes \in Seq(Nat) /\ rest \in 0..2 /\ rest \in Nat /\ ls \in Seq(1..MaxLines) /\ Len(ls) \in Nat
           /\ Len(bytes) \in Nat /\ Len(bytes) = rest + 3 * Len(ls)
<1>1. bytes \in Seq(Nat) /\ rest \in 0..2 /\ ls \in Seq(1..MaxLines) /\ Len(bytes) = rest + 3 * Len(ls)
  BY DEF IsLog
<1>2. rest \in Nat /\ Len(ls) \in Nat /\ Len(bytes) \in Nat
  BY <1>1
<1>3. QED BY <1>1, <1>2

\* A line of a file is at its place.
LEMMA LogLine ==
    ASSUME NEW bytes, NEW rest, NEW ls, IsLog(bytes, rest, ls), NEW k \in 1..Len(ls)
    PROVE  ls[k] \in 1..MaxLines /\ ls[k] \in Nat /\ ls[k] # 0 /\ HasLine(bytes, rest + 3 * (k - 1), ls[k])
<1>1. ls \in Seq(1..MaxLines)
  BY LogShape, Zenon
<1>2. ls[k] \in 1..MaxLines
  BY <1>1, ElementOfSeq, Zenon
<1>3. ls[k] \in Nat /\ ls[k] # 0
  BY <1>2, LogBounds
<1>4. HasLine(bytes, rest + 3 * (k - 1), ls[k])
  BY Zenon DEF IsLog
<1>5. QED BY <1>2, <1>3, <1>4

\* Lines are in the order they were written.
LEMMA LogOrder ==
    ASSUME NEW bytes, NEW rest, NEW ls, IsLog(bytes, rest, ls), NEW j \in 1..Len(ls), NEW k \in 1..Len(ls), j < k
    PROVE  ls[j] < ls[k]
BY Zenon DEF IsLog, Increasing

IsMadeOf(bytes, rest, ls, m) ==
    /\ bytes \in Seq(Nat) /\ rest \in 0..2 /\ rest \in Nat /\ ls \in Seq(1..MaxLines)
    /\ Len(bytes) = rest + 3 * m
    /\ \A k \in 1..m : ls[k] \in 1..MaxLines /\ ls[k] \in Nat /\ ls[k] # 0 /\ HasLine(bytes, rest + 3 * (k - 1), ls[k])
    /\ \A j, k \in 1..m : j < k => ls[j] < ls[k]

\* The same of a file, by how many lines it has.
LEMMA LogParts ==
    ASSUME NEW bytes, NEW rest, NEW ls, IsLog(bytes, rest, ls)
    PROVE  \E m \in Nat : m = Len(ls) /\ IsMadeOf(bytes, rest, ls, m)
<1>1. PICK m \in Nat : m = Len(ls)
  <2>1. Len(ls) \in Nat
    BY LogShape, Zenon
  <2>2. QED BY <2>1, Zenon
<1>2. /\ bytes \in Seq(Nat) /\ rest \in 0..2 /\ rest \in Nat /\ ls \in Seq(1..MaxLines)
      /\ Len(bytes) = rest + 3 * m
  <2>1. /\ bytes \in Seq(Nat) /\ rest \in 0..2 /\ rest \in Nat /\ ls \in Seq(1..MaxLines)
        /\ Len(bytes) = rest + 3 * Len(ls)
    BY LogShape
  <2>2. QED BY <1>1, <2>1, Zenon
<1>3. ASSUME NEW k \in 1..m
      PROVE  ls[k] \in 1..MaxLines /\ ls[k] \in Nat /\ ls[k] # 0 /\ HasLine(bytes, rest + 3 * (k - 1), ls[k])
  BY <1>1, LogLine, Zenon
<1>4. ASSUME NEW j \in 1..m, NEW k \in 1..m, j < k PROVE ls[j] < ls[k]
  BY <1>1, <1>4, LogOrder, Zenon
<1>5. IsMadeOf(bytes, rest, ls, m)
  BY <1>2, <1>3, <1>4 DEF IsMadeOf
<1>6. QED BY <1>1, <1>5

\* Every byte after the rest is of a line.
LEMMA PlaceOfByte ==
    ASSUME NEW rest \in Nat, NEW m \in Nat, NEW i \in (rest + 1)..(rest + 3 * m)
    PROVE  \E k \in 1..m : i \in {rest + 3 * (k - 1) + 1, rest + 3 * (k - 1) + 2, rest + 3 * (k - 1) + 3}
<1> PICK d \in Nat : d = i - rest - 1
  OBVIOUS
<1>1. d \in 0..(3 * m - 1) /\ i = rest + d + 1
  OBVIOUS
<1> PICK q \in Nat : q = d \div 3
  OBVIOUS
<1>2. d - 3 * q \in 0..2 /\ q < m
  BY <1>1
<1>3. q + 1 \in 1..m /\ rest + 3 * ((q + 1) - 1) = rest + 3 * q
  BY <1>2
<1>4. i \in {rest + 3 * q + 1, rest + 3 * q + 2, rest + 3 * q + 3}
  BY <1>1, <1>2
<1>5. QED BY <1>3, <1>4

\* The end of a line is where a line ends.
LEMMA PlaceOfLine ==
    ASSUME NEW bytes, NEW rest, NEW ls, IsLog(bytes, rest, ls), NEW i \in 1..(Len(bytes) - 2),
           bytes[i + 2] = NewLine
    PROVE  \E k \in 1..Len(ls) : i = rest + 3 * (k - 1) + 1
<1> PICK m \in Nat : m = Len(ls) /\ IsMadeOf(bytes, rest, ls, m)
  BY LogParts, Zenon
<1>1. rest \in 0..2 /\ Len(bytes) = rest + 3 * m /\ \A k \in 1..m : ls[k] \in Nat /\ ls[k] # 0
  BY Zenon DEF IsMadeOf
<1>2. \A k \in 1..m : HasLine(bytes, rest + 3 * (k - 1), ls[k])
  BY Zenon DEF IsMadeOf
<1>3. i + 2 \in (rest + 1)..(rest + 3 * m)
  BY <1>1
<1>4. PICK k \in 1..m : i + 2 \in {rest + 3 * (k - 1) + 1, rest + 3 * (k - 1) + 2, rest + 3 * (k - 1) + 3}
  <2>1. PICK j \in (rest + 1)..(rest + 3 * m) : j = i + 2
    BY <1>3
  <2>2. rest \in Nat
    BY <1>1
  <2>3. \E k \in 1..m : j \in {rest + 3 * (k - 1) + 1, rest + 3 * (k - 1) + 2, rest + 3 * (k - 1) + 3}
    BY <2>2, PlaceOfByte
  <2>4. QED BY <2>1, <2>3
<1>5. /\ bytes[rest + 3 * (k - 1) + 1] # NewLine /\ bytes[rest + 3 * (k - 1) + 2] # NewLine
  BY <1>1, <1>2, LogBounds DEF HasLine
<1>6. i + 2 = rest + 3 * (k - 1) + 3
  BY <1>4, <1>5
<1>7. QED BY <1>1, <1>6

\* Three bytes are a line when each of them is.
LEMMA ThreeBytes ==
    ASSUME NEW s \in Seq(Nat), NEW t \in Seq(Nat), Len(s) = 3, Len(t) = 3
    PROVE  s = t <=> s[1] = t[1] /\ s[2] = t[2] /\ s[3] = t[3]
<1>1. ASSUME s[1] = t[1], s[2] = t[2], s[3] = t[3] PROVE s = t
  <2>1. \A j \in 1..3 : j \in {1, 2, 3}
    OBVIOUS
  <2>2. \A j \in 1..3 : s[j] = t[j]
    BY <1>1, <2>1
  <2>3. Len(s) = 3 /\ Len(t) = 3
    OBVIOUS
  <2>4. \A j \in 1..Len(s) : s[j] = t[j]
    BY <2>2, <2>3
  <2>5. QED BY <2>3, <2>4, SeqEqual
<1>2. QED BY <1>1

\* Bytes from one place up to another.
LEMMA PartOfBytes ==
    ASSUME NEW bytes \in Seq(Nat), NEW first \in 1..Len(bytes), NEW last \in first..Len(bytes)
    PROVE  /\ SubSeq(bytes, first, last) \in Seq(Nat)
           /\ Len(SubSeq(bytes, first, last)) = last - first + 1
           /\ \A j \in 1..(last - first + 1) : SubSeq(bytes, first, last)[j] = bytes[first + j - 1]
<1>1. first \in Int /\ last \in Int /\ first <= last
  OBVIOUS
<1>2. \A i \in first..last : bytes[i] \in Nat
  OBVIOUS
<1>3. SubSeq(bytes, first, last) \in Seq(Nat)
  BY <1>1, <1>2, SubSeqProperties, Zenon
<1>4. Len(SubSeq(bytes, first, last)) = last - first + 1
  BY <1>1, <1>2, SubSeqProperties, Zenon
<1>5. \A j \in 1..(last - first + 1) : SubSeq(bytes, first, last)[j] = bytes[first + j - 1]
  OBVIOUS
<1>6. QED BY <1>3, <1>4, <1>5

\* A line in a file is three bytes.
LEMMA LineInBytes ==
    ASSUME NEW bytes \in Seq(Nat), NEW n \in Nat, NEW i \in 1..(Len(bytes) - 2)
    PROVE  SubSeq(bytes, i, i + 2) = Line(n) <=> HasLine(bytes, i - 1, n)
<1> PICK sub : sub = SubSeq(bytes, i, i + 2)
  OBVIOUS
<1>1. sub \in Seq(Nat) /\ Len(sub) = 3 /\ sub[1] = bytes[i] /\ sub[2] = bytes[i + 1] /\ sub[3] = bytes[i + 2]
  <2>1. PICK e \in Int : e = i + 2
    OBVIOUS
  <2>2. i \in 1..Len(bytes) /\ e \in i..Len(bytes) /\ e - i + 1 = 3
    BY <2>1
  <2>3. sub \in Seq(Nat) /\ Len(sub) = e - i + 1 /\ \A j \in 1..(e - i + 1) : sub[j] = bytes[i + j - 1]
    BY <2>1, <2>2, PartOfBytes, Zenon
  <2>4. 1 \in 1..3 /\ 2 \in 1..3 /\ 3 \in 1..3 /\ i + 1 - 1 = i /\ i + 2 - 1 = i + 1 /\ i + 3 - 1 = i + 2
    OBVIOUS
  <2>5. QED BY <2>2, <2>3, <2>4
<1>2. Line(n) \in Seq(Nat) /\ Len(Line(n)) = 3 /\ Line(n)[1] = n /\ Line(n)[2] = n /\ Line(n)[3] = NewLine
  BY LogBounds DEF Line
<1>3. sub = Line(n) <=> sub[1] = n /\ sub[2] = n /\ sub[3] = NewLine
  <2>1. PICK line \in Seq(Nat) : line = Line(n) /\ Len(line) = 3 /\ line[1] = n /\ line[2] = n /\ line[3] = NewLine
    BY <1>2
  <2>2. sub \in Seq(Nat) /\ Len(sub) = 3
    BY <1>1
  <2>3. sub = line <=> sub[1] = line[1] /\ sub[2] = line[2] /\ sub[3] = line[3]
    BY <2>1, <2>2, ThreeBytes
  <2>4. QED BY <2>1, <2>3
<1>4. HasLine(bytes, i - 1, n) <=> bytes[i] = n /\ bytes[i + 1] = n /\ bytes[i + 2] = NewLine
  <2>1. (i - 1) + 1 = i /\ (i - 1) + 2 = i + 1 /\ (i - 1) + 3 = i + 2
    OBVIOUS
  <2>2. QED BY <2>1 DEF HasLine
<1>5. QED BY <1>1, <1>2, <1>3, <1>4

\* The lines in a file of the log are the lines it was put together from, each once.
LEMMA LinesInLog ==
    ASSUME NEW bytes, NEW rest, NEW ls, IsLog(bytes, rest, ls)
    PROVE  LinesIn(bytes) = LinesOf(ls) /\ Cardinality(LinesIn(bytes)) = Len(ls)
<1> PICK m \in Nat : m = Len(ls) /\ IsMadeOf(bytes, rest, ls, m)
  BY LogParts, Zenon
<1>1. /\ rest \in 0..2 /\ Len(bytes) = rest + 3 * m /\ bytes \in Seq(Nat)
      /\ \A k \in 1..m : ls[k] \in 1..MaxLines /\ ls[k] \in Nat /\ HasLine(bytes, rest + 3 * (k - 1), ls[k])
  BY Zenon DEF IsMadeOf
<1>2. ASSUME NEW n \in LinesIn(bytes) PROVE n \in LinesOf(ls)
  <2>1. n \in Nat
    BY LogBounds DEF LinesIn
  <2>2. PICK i \in 1..(Len(bytes) - 2) : SubSeq(bytes, i, i + 2) = Line(n)
    BY DEF LinesIn
  <2>3. HasLine(bytes, i - 1, n)
    BY <1>1, <2>1, <2>2, LineInBytes
  <2>4. bytes[i] = n /\ bytes[i + 2] = NewLine
    <3>1. (i - 1) + 1 = i /\ (i - 1) + 3 = i + 2
      BY <1>1
    <3>2. QED BY <2>3, <3>1 DEF HasLine
  <2>5. PICK k \in 1..m : i = rest + 3 * (k - 1) + 1
    BY <2>4, PlaceOfLine
  <2>6. ls[k] = n
    BY <1>1, <2>4, <2>5 DEF HasLine
  <2>7. QED BY <2>6 DEF LinesOf
<1>3. ASSUME NEW k \in 1..m PROVE ls[k] \in LinesIn(bytes)
  <2>1. PICK i \in 1..(Len(bytes) - 2) : i = rest + 3 * (k - 1) + 1
    BY <1>1
  <2>2. HasLine(bytes, i - 1, ls[k])
    <3>1. i - 1 = rest + 3 * (k - 1)
      BY <1>1, <2>1
    <3>2. QED BY <1>1, <3>1
  <2>3. SubSeq(bytes, i, i + 2) = Line(ls[k])
    BY <1>1, <2>2, LineInBytes
  <2>4. QED BY <1>1, <2>3 DEF LinesIn
<1>4. LinesIn(bytes) = LinesOf(ls)
  BY <1>2, <1>3 DEF LinesOf
<1>5. Cardinality(LinesOf(ls)) = m
  <2>1. ls \in [1..m -> LinesOf(ls)] /\ \A n \in LinesOf(ls) : \E k \in 1..m : ls[k] = n
    BY DEF IsLog, LinesOf
  <2>2. \A j, k \in 1..m : ls[j] = ls[k] => j = k
    <3> SUFFICES ASSUME NEW j \in 1..m, NEW k \in 1..m, j < k PROVE ls[j] # ls[k]
      OBVIOUS
    <3>1. ls[j] < ls[k]
      BY DEF IsLog, Increasing
    <3>2. QED BY <1>1, <3>1
  <2>3. ls \in Surjection(1..m, LinesOf(ls)) /\ ls \in Injection(1..m, LinesOf(ls))
    BY <2>1, <2>2 DEF Surjection, Injection, IsInjective
  <2>4. IsFiniteSet(1..m) /\ Cardinality(1..m) = m
    <3>1. 1 \in Int /\ m \in Int
      OBVIOUS
    <3>2. IsFiniteSet(1..m) /\ Cardinality(1..m) = IF 1 > m THEN 0 ELSE m - 1 + 1
      BY ONLY <3>1, FS_Interval
    <3>3. QED BY <3>2
  <2>5. QED BY <2>3, <2>4, FS_Surjection
<1>6. QED BY <1>4, <1>5

\* A number up to the next of m is the next, or up to m.
LEMMA LastOrBefore == \A m \in Nat : \A k \in 1..(m + 1) : k = m + 1 \/ k \in 1..m
OBVIOUS

\* A line that is appended is one more line, after the others.
LEMMA LogGrows ==
    ASSUME NEW bytes, NEW rest, NEW ls, IsLog(bytes, rest, ls),
           NEW n \in 1..MaxLines, \A k \in 1..Len(ls) : ls[k] < n
    PROVE  /\ IsLog(bytes \o Line(n), rest, Append(ls, n))
           /\ LinesOf(Append(ls, n)) = LinesOf(ls) \cup {n}
<1> PICK m \in Nat : m = Len(ls) /\ IsMadeOf(bytes, rest, ls, m)
  BY LogParts, Zenon
<1>1. /\ rest \in 0..2 /\ Len(bytes) = rest + 3 * m /\ bytes \in Seq(Nat) /\ ls \in Seq(1..MaxLines)
      /\ \A k \in 1..m : ls[k] \in Nat /\ HasLine(bytes, rest + 3 * (k - 1), ls[k])
      /\ \A j, k \in 1..m : j < k => ls[j] < ls[k]
  BY Zenon DEF IsMadeOf
<1>2. PICK more \in Seq(1..MaxLines) :
         /\ more = Append(ls, n) /\ Len(more) = m + 1 /\ more[m + 1] = n
         /\ \A k \in 1..m : more[k] = ls[k]
  <2>1. PICK x : x = Append(ls, n)
    OBVIOUS
  <2>2. x \in Seq(1..MaxLines) /\ Len(x) = m + 1 /\ \A k \in 1..m : x[k] = ls[k]
    BY <1>1, <2>1, AppendProperties
  <2>3. x[m + 1] = n
    BY <1>1, <2>1, AppendProperties
  <2>4. QED BY <2>1, <2>2, <2>3
<1>3. PICK line \in Seq(Nat) : line = Line(n) /\ Len(line) = 3 /\ line[1] = n /\ line[2] = n /\ line[3] = NewLine
  <2>1. n \in Nat /\ NewLine \in Nat
    BY LogBounds
  <2>2. <<n, n, NewLine>> \in Seq(Nat) /\ Len(<<n, n, NewLine>>) = 3
    BY <2>1
  <2>3. QED BY <2>2 DEF Line
<1>4. PICK all \in Seq(Nat) :
         /\ all = bytes \o line /\ Len(all) = Len(bytes) + 3
         /\ \A i \in 1..Len(bytes) : all[i] = bytes[i]
         /\ \A i \in 1..3 : all[Len(bytes) + i] = line[i]
  <2>1. PICK x : x = bytes \o line
    OBVIOUS
  <2>3. PICK size \in Nat : size = Len(bytes)
    BY <1>1
  <2>2. /\ x \in Seq(Nat) /\ Len(x) = size + 3
        /\ \A i \in 1..size + 3 : x[i] = IF i <= size THEN bytes[i] ELSE line[i - size]
    <3>1. PICK t \in Seq(Nat) : t = bytes
      BY <1>1
    <3>2. /\ t \o line \in Seq(Nat) /\ Len(t \o line) = Len(t) + Len(line)
          /\ \A i \in 1..Len(t) + Len(line) : (t \o line)[i] = IF i <= Len(t) THEN t[i] ELSE line[i - Len(t)]
      BY ConcatProperties
    <3>3. QED BY <1>3, <2>1, <2>3, <3>1, <3>2
  <2>4. \A i \in 1..size : x[i] = bytes[i]
    <3>1. \A i \in 1..size : i \in 1..size + 3
      OBVIOUS
    <3>2. QED BY <2>2, <3>1
  <2>5. \A i \in 1..3 : x[size + i] = line[i]
    <3> TAKE i \in 1..3
    <3>1. PICK j \in 1..size + 3 : j = size + i /\ j - size = i /\ ~(j <= size)
      OBVIOUS
    <3>2. x[j] = line[j - size]
      BY <2>2, <3>1
    <3>3. QED BY <3>1, <3>2
  <2>6. QED BY <2>1, <2>2, <2>3, <2>4, <2>5
<1>5. ASSUME NEW k \in 1..m + 1 PROVE HasLine(all, rest + 3 * (k - 1), more[k])
  <2>1. CASE k = m + 1
    <3>1. rest + 3 * (k - 1) = Len(bytes)
      BY <1>1, <2>1
    <3>2. all[Len(bytes) + 1] = n /\ all[Len(bytes) + 2] = n /\ all[Len(bytes) + 3] = NewLine
      BY <1>3, <1>4
    <3>3. QED BY <1>2, <2>1, <3>1, <3>2 DEF HasLine
  <2>2. CASE k # m + 1
    <3>1. k \in 1..m
      BY <2>2
    <3>2. \A c \in {1, 2, 3} : rest + 3 * (k - 1) + c \in 1..(rest + 3 * m)
      <4>1. rest \in Nat
        BY <1>1
      <4>2. QED BY <3>1, <4>1
    <3>3. QED BY <1>1, <1>2, <1>4, <3>1, <3>2 DEF HasLine
  <2>3. QED BY <2>1, <2>2
<1>6. \A j, k \in 1..m + 1 : j < k => more[j] < more[k]
  <2> SUFFICES ASSUME NEW j \in 1..m + 1, NEW k \in 1..m + 1, j < k PROVE more[j] < more[k]
    OBVIOUS
  <2>1. j \in 1..m /\ more[j] = ls[j]
    BY <1>2
  <2>2. CASE k = m + 1
    BY <1>2, <2>1, <2>2
  <2>3. CASE k \in 1..m
    BY <1>1, <1>2, <2>1, <2>3
  <2>4. k = m + 1 \/ k \in 1..m
    BY LastOrBefore
  <2>5. QED BY <2>2, <2>3, <2>4
<1>7. Len(all) = rest + 3 * (m + 1)
  <2>1. Len(all) = Len(bytes) + 3
    BY <1>4
  <2>2. Len(bytes) = rest + 3 * m /\ rest \in Nat
    BY <1>1
  <2>3. QED BY <2>1, <2>2
<1>8. IsLog(all, rest, more)
  BY <1>1, <1>2, <1>4, <1>5, <1>6, <1>7 DEF IsLog, Increasing
<1>9. LinesOf(more) = LinesOf(ls) \cup {n}
  <2>1. ASSUME NEW k \in 1..m + 1 PROVE more[k] \in LinesOf(ls) \cup {n}
    BY <1>2 DEF LinesOf
  <2>2. ASSUME NEW k \in 1..m PROVE ls[k] \in LinesOf(more)
    <3>1. k \in 1..Len(more) /\ more[k] = ls[k]
      BY <1>2
    <3>2. QED BY <3>1 DEF LinesOf
  <2>3. n \in LinesOf(more)
    <3>1. m + 1 \in 1..Len(more) /\ more[m + 1] = n
      BY <1>2
    <3>2. QED BY <3>1 DEF LinesOf
  <2>4. \A x : x \in LinesOf(more) <=> \E k \in 1..m + 1 : x = more[k]
    BY <1>2 DEF LinesOf
  <2>5. \A x : x \in LinesOf(ls) <=> \E k \in 1..m : x = ls[k]
    BY DEF LinesOf
  <2>6. QED BY <2>1, <2>2, <2>3, <2>4, <2>5
<1>10. QED BY <1>2, <1>3, <1>4, <1>8, <1>9

\* The end of a file of the log: the rest of a line, and the lines after it.
LEMMA LogCut ==
    ASSUME NEW bytes, NEW rest, NEW ls, IsLog(bytes, rest, ls), NEW from \in 0..Len(bytes)
    PROVE  \E rest2, ls2 :
              /\ IsLog(SubSeq(bytes, from + 1, Len(bytes)), rest2, ls2)
              /\ LinesOf(ls2) \subseteq LinesOf(ls)
              /\ \A n \in LinesOf(ls2) : \A k \in LinesOf(ls) : k >= n => k \in LinesOf(ls2)
              /\ Len(bytes) - from >= 3 => LinesOf(ls2) # {}
<1> PICK m \in Nat : m = Len(ls) /\ IsMadeOf(bytes, rest, ls, m)
  BY LogParts, Zenon
<1>1. /\ rest \in 0..2 /\ Len(bytes) = rest + 3 * m /\ bytes \in Seq(Nat) /\ ls \in Seq(1..MaxLines)
      /\ \A k \in 1..m : ls[k] \in Nat /\ HasLine(bytes, rest + 3 * (k - 1), ls[k])
      /\ \A j, k \in 1..m : j < k => ls[j] < ls[k]
  BY Zenon DEF IsMadeOf
<1>2. PICK d \in 0..m : rest + 3 * d - from \in 0..2
  <2>1. CASE from <= rest
    BY <1>1, <2>1
  <2>2. CASE from > rest
    <3> DEFINE q == (from - rest + 2) \div 3
    <3>1. q \in Nat /\ 3 * q >= from - rest /\ 3 * q <= from - rest + 2
      BY <1>1, <2>2
    <3> HIDE DEF q
    <3>2. q \in 0..m /\ rest + 3 * q - from \in 0..2
      BY <1>1, <2>2, <3>1
    <3>3. QED BY <3>2
  <2>3. QED BY <1>1, <2>1, <2>2
<1>3. PICK rest2 \in 0..2 : rest2 = rest + 3 * d - from
  BY <1>2
<1>4. PICK n2 \in 0..m : n2 = m - d
  OBVIOUS
<1>5. PICK ls2 \in Seq(1..MaxLines) : Len(ls2) = n2 /\ \A k \in 1..n2 : ls2[k] = ls[d + k]
  <2>1. PICK x : x = SubSeq(ls, d + 1, m)
    OBVIOUS
  <2>2. \A k \in (d + 1)..m : ls[k] \in 1..MaxLines
    <3> SUFFICES ASSUME NEW k \in (d + 1)..m PROVE ls[k] \in 1..MaxLines
      OBVIOUS
    <3>1. k \in 1..Len(ls)
      OBVIOUS
    <3>2. ls \in Seq(1..MaxLines)
      BY <1>1
    <3>3. QED BY <3>1, <3>2, ElementOfSeq
  <2>3. x \in Seq(1..MaxLines) /\ Len(x) = n2 /\ \A k \in 1..n2 : x[k] = ls[d + k]
    BY <1>4, <2>1, <2>2, SubSeqProperties
  <2>4. QED BY <2>3
<1>6. PICK all \in Seq(Nat) : /\ all = SubSeq(bytes, from + 1, Len(bytes)) /\ Len(all) = Len(bytes) - from
                              /\ \A i \in 1..(Len(bytes) - from) : all[i] = bytes[from + i]
  <2>1. PICK x : x = SubSeq(bytes, from + 1, Len(bytes))
    OBVIOUS
  <2>2. from \in Nat /\ Len(bytes) \in Nat /\ \A i \in (from + 1)..Len(bytes) : bytes[i] \in Nat
    BY <1>1
  <2>3. x \in Seq(Nat) /\ Len(x) = Len(bytes) - from /\ \A i \in 1..(Len(bytes) - from) : x[i] = bytes[from + i]
    BY <2>1, <2>2, SubSeqProperties
  <2>4. QED BY <2>1, <2>3
<1>7. Len(all) = rest2 + 3 * n2
  BY <1>1, <1>3, <1>4, <1>6
<1>8. ASSUME NEW k \in 1..n2 PROVE HasLine(all, rest2 + 3 * (k - 1), ls2[k])
  <2>1. d + k \in 1..m /\ ls2[k] = ls[d + k] /\ HasLine(bytes, rest + 3 * ((d + k) - 1), ls[d + k])
    BY <1>1, <1>4, <1>5
  <2>2. \A c \in {1, 2, 3} : /\ rest2 + 3 * (k - 1) + c \in 1..(Len(bytes) - from)
                             /\ from + (rest2 + 3 * (k - 1) + c) = rest + 3 * ((d + k) - 1) + c
    <3>1. rest \in Nat /\ from \in Nat /\ Len(bytes) - from = rest2 + 3 * n2
      BY <1>1, <1>3, <1>4
    <3>2. \A c \in {1, 2, 3} : rest2 + 3 * (k - 1) + c \in 1..(rest2 + 3 * n2)
      OBVIOUS
    <3>3. \A c \in {1, 2, 3} : from + (rest2 + 3 * (k - 1) + c) = rest + 3 * ((d + k) - 1) + c
      BY <1>3, <3>1
    <3>4. QED BY <3>1, <3>2, <3>3
  <2>3. \A c \in {1, 2, 3} : all[rest2 + 3 * (k - 1) + c] = bytes[rest + 3 * ((d + k) - 1) + c]
    BY <1>6, <2>2
  <2>4. QED BY <2>1, <2>3 DEF HasLine
<1>9. \A j, k \in 1..n2 : j < k => ls2[j] < ls2[k]
  <2> SUFFICES ASSUME NEW j \in 1..n2, NEW k \in 1..n2, j < k PROVE ls2[j] < ls2[k]
    OBVIOUS
  <2>1. d + j \in 1..m /\ d + k \in 1..m /\ d + j < d + k
    BY <1>4
  <2>2. QED BY <1>1, <1>5, <2>1
<1>10. IsLog(all, rest2, ls2)
  BY <1>3, <1>5, <1>6, <1>7, <1>8, <1>9 DEF IsLog, Increasing
<1>11. LinesOf(ls2) \subseteq LinesOf(ls)
  <2> SUFFICES ASSUME NEW k \in 1..n2 PROVE ls2[k] \in LinesOf(ls)
    BY <1>5 DEF LinesOf
  <2>1. d + k \in 1..m /\ ls2[k] = ls[d + k]
    BY <1>4, <1>5
  <2>2. QED BY <2>1 DEF LinesOf
<1>12. ASSUME NEW j \in 1..n2, NEW k \in 1..m, ls[k] >= ls2[j] PROVE ls[k] \in LinesOf(ls2)
  <2>1. d + j \in 1..m /\ ls2[j] = ls[d + j]
    BY <1>4, <1>5
  <2>2. ~(k < d + j)
    <3>1. ls[d + j] \in Nat /\ ls[k] \in Nat /\ ls[k] >= ls[d + j]
      BY <1>1, <1>12, <2>1
    <3>2. k < d + j => ls[k] < ls[d + j]
      BY <1>1, <2>1
    <3>3. k \in Nat /\ d + j \in Nat
      BY <2>1
    <3>4. QED BY <3>1, <3>2
  <2>3. k - d \in 1..n2 /\ d + (k - d) = k
    BY <1>4, <2>2
  <2>4. ls2[k - d] = ls[k]
    BY <1>5, <2>3
  <2>5. ls2[k - d] \in LinesOf(ls2)
    BY <1>5, <2>3 DEF LinesOf
  <2>6. QED BY <2>4, <2>5
<1>13. Len(bytes) - from >= 3 => LinesOf(ls2) # {}
  <2> SUFFICES ASSUME Len(bytes) - from >= 3 PROVE LinesOf(ls2) # {}
    OBVIOUS
  <2>1. n2 >= 1
    <3>1. rest2 \in 0..2 /\ n2 \in Nat /\ Len(bytes) - from = rest2 + 3 * n2
      BY <1>1, <1>3, <1>4
    <3>2. QED BY ONLY <3>1, Len(bytes) - from >= 3
  <2>2. ls2[1] \in LinesOf(ls2)
    <3>1. 1 \in 1..Len(ls2)
      BY <1>5, <2>1
    <3>2. QED BY ONLY <3>1 DEF LinesOf
  <2>3. QED BY <2>2
<1>14. \A n \in LinesOf(ls2) : \A k \in LinesOf(ls) : k >= n => k \in LinesOf(ls2)
  BY <1>5, <1>12 DEF LinesOf
<1>15. QED BY <1>6, <1>10, <1>11, <1>13, <1>14

-----------------------------------------------------------------------------
(* The text that is read *)

\* A byte before a text makes a text, a line end none.
LEMMA BeforeFits ==
    ASSUME NEW byte \in Nat, NEW text \in Seq(Nat)
    PROVE  Before(byte, text) \in Seq(Nat)
<1>1. <<byte>> \o text \in Seq(Nat)
  <2>1. <<byte>> \in Seq(Nat)
    OBVIOUS
  <2>2. QED BY <2>1, ConcatProperties
<1>2. QED BY <1>1 DEF Before

\* The text is read from its end.
Reads(h, bytes, to, n) ==
    /\ h \in [0..n -> Seq(Nat)] /\ h[0] = <<>>
    /\ \A k \in 1..n : h[k] = Before(bytes[to - k + 1], h[k - 1])

IsTextOf(bytes, from, to, n) ==
    /\ n = to - from
    /\ \E h : Reads(h, bytes, to, n) /\ Text(bytes, from, to) = h[n]

\* The text of a file is made from its end towards its start.
LEMMA TextSteps ==
    ASSUME NEW bytes \in Seq(Nat), NEW from \in Nat, NEW to \in Nat, from <= to, to <= Len(bytes)
    PROVE  \E n \in Nat : IsTextOf(bytes, from, to, n)
<1>1. PICK n \in Nat : n = to - from
  OBVIOUS
<1>2. PICK S : S = Seq(Nat)
  OBVIOUS
<1>3. PICK F : F = [x \in S \X (1..n) |-> Before(bytes[to - x[2] + 1], x[1])]
  OBVIOUS
<1>4. Advances(F, S, n) /\ <<>> \in S
  <2>1. \A x \in S \X (1..n) : F[x] \in S
    <3> TAKE x \in S \X (1..n)
    <3>1. x[1] \in Seq(Nat) /\ x[2] \in 1..n
      BY <1>2
    <3>2. to - x[2] + 1 \in 1..Len(bytes)
      <4>1. PICK k \in 1..n : k = x[2]
        BY <3>1
      <4>2. to - k + 1 \in 1..Len(bytes)
        BY <1>1
      <4>3. QED BY <4>1, <4>2
    <3>3. Before(bytes[to - x[2] + 1], x[1]) \in Seq(Nat)
      BY <3>1, <3>2, BeforeFits
    <3>4. QED BY <1>2, <1>3, <3>3
  <2>2. <<>> \in Seq(Nat)
    OBVIOUS
  <2>3. QED BY <1>2, <1>3, <2>1, <2>2 DEF Advances
<1>5. PICK h \in [0..n -> S] : h[0] = <<>> /\ \A k \in 1..n : h[k] = F[<<h[k - 1], k>>]
  <2>1. \E h : StepByStep(h, <<>>, F, S, n)
    BY <1>1, <1>4, StepsExist
  <2>2. QED BY <2>1 DEF StepByStep
<1>6. \A k \in 1..n : h[k] = Before(bytes[to - k + 1], h[k - 1])
  <2> TAKE k \in 1..n
  <2>1. <<h[k - 1], k>> \in S \X (1..n)
    BY <1>1, <1>5
  <2>2. QED BY <1>3, <1>5, <2>1
<1>7. h = [k \in 0..n |-> IF k = 0 THEN <<>> ELSE Before(bytes[to - k + 1], h[k - 1])]
  <2>1. \A k \in 0..n : h[k] = IF k = 0 THEN <<>> ELSE Before(bytes[to - k + 1], h[k - 1])
    BY <1>1, <1>5, <1>6
  <2>2. QED BY <1>5, <2>1
<1>8. PICK g : /\ g = [k \in 0..n |-> IF k = 0 THEN <<>> ELSE Before(bytes[to - k + 1], g[k - 1])]
               /\ Text(bytes, from, to) = g[n]
  BY <1>1, <1>7 DEF Text
<1> DEFINE P == { k \in 0..n : g[k] = h[k] }
<1>9. 0 \in P
  BY <1>1, <1>5, <1>8
<1>10. ASSUME NEW k \in 1..n, k - 1 \in P PROVE k \in P
  <2>1. k \in 0..n /\ k # 0 /\ g[k - 1] = h[k - 1]
    BY <1>1, <1>10
  <2>2. g[k] = Before(bytes[to - k + 1], g[k - 1])
    BY <1>8, <2>1
  <2>3. QED BY <1>6, <2>1, <2>2
<1> HIDE DEF P
<1>11. \A k \in 0..n : k \in P
  BY <1>1, <1>9, <1>10, CountingUp
<1>12. g[n] = h[n]
  BY <1>1, <1>11 DEF P
<1>13. QED BY <1>1, <1>2, <1>5, <1>6, <1>8, <1>12 DEF Reads, IsTextOf

\* Two readings of the same bytes read the same.
LEMMA ReadingsAgree ==
    ASSUME NEW n \in Nat, NEW m \in Nat, NEW g, NEW h, NEW one, NEW two, NEW to \in Nat,
           Reads(g, one, to, n), Reads(h, two, to, m),
           \A k \in 1..n : k <= m => one[to - k + 1] = two[to - k + 1]
    PROVE  \A k \in 0..n : k <= m => g[k] = h[k]
<1> DEFINE P == { k \in 0..n : k <= m => g[k] = h[k] }
<1>1. 0 \in P
  BY DEF Reads
<1>2. ASSUME NEW k \in 1..n, k - 1 \in P PROVE k \in P
  <2> SUFFICES ASSUME k <= m PROVE g[k] = h[k]
    OBVIOUS
  <2>1. g[k - 1] = h[k - 1] /\ k \in 1..m
    BY <1>2
  <2>2. QED BY <2>1 DEF Reads
<1> HIDE DEF P
<1>3. \A k \in 0..n : k \in P
  BY <1>1, <1>2, CountingUp
<1>4. QED BY <1>3 DEF P

\* Where a text ends there is nothing of it.
LEMMA TextIsEmpty ==
    ASSUME NEW bytes \in Seq(Nat), NEW to \in Nat, to <= Len(bytes)
    PROVE  Text(bytes, to, to) = <<>>
<1>1. PICK n \in Nat : IsTextOf(bytes, to, to, n)
  BY TextSteps
<1>2. PICK h : Reads(h, bytes, to, 0) /\ Text(bytes, to, to) = h[0]
  BY <1>1 DEF IsTextOf
<1>3. QED BY <1>2 DEF Reads

\* What is after a position in the file does not change the text before it.
LEMMA TextIsSame ==
    ASSUME NEW bytes \in Seq(Nat), NEW other \in Seq(Nat), NEW from \in Nat, NEW to \in Nat,
           from <= to, to <= Len(bytes), to <= Len(other), \A i \in 1..to : bytes[i] = other[i]
    PROVE  Text(bytes, from, to) = Text(other, from, to)
<1>1. PICK n \in Nat : IsTextOf(bytes, from, to, n)
  BY TextSteps
<1>2. PICK g : n = to - from /\ Reads(g, bytes, to, n) /\ Text(bytes, from, to) = g[n]
  BY <1>1 DEF IsTextOf
<1>7. PICK m \in Nat : IsTextOf(other, from, to, m)
  BY TextSteps
<1>3. PICK h : Reads(h, other, to, n) /\ Text(other, from, to) = h[n]
  BY <1>2, <1>7 DEF IsTextOf
<1>4. ASSUME NEW k \in 1..n PROVE bytes[to - k + 1] = other[to - k + 1]
  <2>1. to - k + 1 \in 1..to
    BY <1>2
  <2>2. QED BY <2>1
<1>5. \A k \in 0..n : k <= n => g[k] = h[k]
  <2>1. n \in Nat /\ to \in Nat /\ \A k \in 1..n : k <= n => bytes[to - k + 1] = other[to - k + 1]
    BY <1>4
  <2>2. QED BY ONLY <1>2, <1>3, <2>1, ReadingsAgree
<1>6. QED BY <1>2, <1>3, <1>5

\* A text from one byte earlier on has that byte before it.
LEMMA TextFromBefore ==
    ASSUME NEW bytes \in Seq(Nat), NEW from \in Nat \ {0}, NEW to \in Nat, from <= to, to <= Len(bytes)
    PROVE  /\ Text(bytes, from - 1, to) = Before(bytes[from], Text(bytes, from, to))
           /\ Text(bytes, from, to) \in Seq(Nat)
<1>1. PICK n \in Nat : IsTextOf(bytes, from, to, n)
  BY TextSteps
<1>3. PICK g : n = to - from /\ Reads(g, bytes, to, n) /\ Text(bytes, from, to) = g[n]
  BY <1>1 DEF IsTextOf
<1> PICK less \in Nat : less = from - 1
  OBVIOUS
<1>10. PICK m \in Nat : IsTextOf(bytes, less, to, m)
  BY TextSteps
<1>4. PICK h : m = to - less /\ Reads(h, bytes, to, m) /\ Text(bytes, less, to) = h[m]
  BY <1>10 DEF IsTextOf
<1>2. m = n + 1 /\ m \in 1..m /\ to - m + 1 = from
  BY <1>3, <1>4
<1>5. \A k \in 0..n : k <= m => g[k] = h[k]
  BY <1>3, <1>4, ReadingsAgree
<1>6. g[n] = h[m - 1]
  <2>1. n \in 0..n /\ n <= m /\ m - 1 = n
    BY <1>2
  <2>2. QED BY <1>5, <2>1
<1>7. h[m] = Before(bytes[from], h[m - 1])
  BY <1>2, <1>4 DEF Reads
<1>8. g[n] \in Seq(Nat)
  BY <1>3 DEF Reads
<1>9. QED BY <1>3, <1>4, <1>6, <1>7, <1>8

\* New lines that are passed are no text.
LEMMA NewLinesArePassed ==
    ASSUME NEW bytes \in Seq(Nat), NEW first \in Nat, NEW from \in Nat, NEW to \in Nat,
           first <= from, from <= to, to <= Len(bytes),
           \A i \in (first + 1)..from : bytes[i] = NewLine
    PROVE  Text(bytes, first, to) = Text(bytes, from, to)
<1>1. PICK n \in Nat : n = from - first
  OBVIOUS
<1> DEFINE P == { k \in 0..n : Text(bytes, from - k, to) = Text(bytes, from, to) }
<1>2. 0 \in P
  <2>1. from - 0 = from
    OBVIOUS
  <2>2. QED BY <1>1, <2>1
<1>3. ASSUME NEW k \in 1..n, k - 1 \in P PROVE k \in P
  <2>1. PICK at \in Nat \ {0} : at = from - (k - 1) /\ at - 1 = from - k /\ at \in (first + 1)..from
    BY <1>1
  <2>2. Text(bytes, at, to) = Text(bytes, from, to)
    BY <1>3, <2>1
  <2>3. Text(bytes, at - 1, to) = Before(bytes[at], Text(bytes, at, to))
    <3>1. at <= to
      BY <2>1
    <3>2. QED BY <3>1, TextFromBefore
  <2>4. bytes[at] = NewLine
    BY <2>1
  <2>5. Text(bytes, from - k, to) = Text(bytes, from, to)
    BY <2>1, <2>2, <2>3, <2>4 DEF Before
  <2>6. QED BY <2>5
<1> HIDE DEF P
<1>4. \A k \in 0..n : k \in P
  BY <1>1, <1>2, <1>3, CountingUp
<1>5. Text(bytes, from - n, to) = Text(bytes, from, to) /\ from - n = first
  <2>1. n \in P /\ from - n = first
    BY <1>1, <1>4
  <2>2. QED BY <2>1 DEF P
<1>6. QED BY <1>5

\* Texts can be put together in any order of the two steps.
LEMMA Associative == \A s \in Seq(Nat) : \A t \in Seq(Nat) : \A u \in Seq(Nat) : (s \o t) \o u = s \o (t \o u)
<1> SUFFICES ASSUME NEW s \in Seq(Nat), NEW t \in Seq(Nat), NEW u \in Seq(Nat)
             PROVE  (s \o t) \o u = s \o (t \o u)
  OBVIOUS
<1> DEFINE left == (s \o t) \o u
           right == s \o (t \o u)
<1>1. left \in Seq(Nat) /\ Len(left) = Len(s) + Len(t) + Len(u)
  OBVIOUS
<1>2. right \in Seq(Nat) /\ Len(right) = Len(s) + Len(t) + Len(u)
  OBVIOUS
<1>3. ASSUME NEW i \in 1..Len(left) PROVE left[i] = right[i]
  <2>1. i \in 1..(Len(s) + Len(t) + Len(u))
    BY <1>1
  <2>2. CASE i \in 1..Len(s)
    BY <2>2
  <2>3. CASE i \in (Len(s) + 1)..(Len(s) + Len(t))
    BY <2>3
  <2>4. CASE i \in (Len(s) + Len(t) + 1)..(Len(s) + Len(t) + Len(u))
    BY <2>4
  <2>5. QED BY <2>1, <2>2, <2>3, <2>4
<1> HIDE DEF left, right
<1>4. left = right
  BY <1>1, <1>2, <1>3, SeqEqual
<1>5. QED BY <1>4 DEF left, right

\* A line is all text.
AllText(bytes, first, from) == \A i \in (first + 1)..from : bytes[i] # NewLine

\* Bytes of which none is a line end are read as they are.
LEMMA LineIsRead ==
    ASSUME NEW bytes \in Seq(Nat), NEW first \in Nat, NEW from \in Nat, NEW to \in Nat,
           first <= from, from <= to, to <= Len(bytes),
           AllText(bytes, first, from)
    PROVE  Text(bytes, first, to) = SubSeq(bytes, first + 1, from) \o Text(bytes, from, to)
<1>1. PICK n \in Nat : n = from - first
  OBVIOUS
<1>2. PICK rest \in Seq(Nat) : rest = Text(bytes, from, to)
  <2>1. PICK m \in Nat : IsTextOf(bytes, from, to, m)
    BY TextSteps
  <2>2. Text(bytes, from, to) \in Seq(Nat)
    BY <2>1 DEF IsTextOf, Reads
  <2>3. QED BY <2>2
<1> DEFINE Part(k) == SubSeq(bytes, from - k + 1, from)
           P == { k \in 0..n : Text(bytes, from - k, to) = Part(k) \o rest }
<1>3. 0 \in P
  <2>1. from - 0 = from /\ from - 0 + 1 = from + 1 /\ from < from + 1
    OBVIOUS
  <2>2. Part(0) = <<>>
    BY <2>1, SubSeqEmpty
  <2>3. <<>> \o rest = rest
    BY ConcatEmptySeq
  <2>4. QED BY <1>1, <1>2, <2>1, <2>2, <2>3
<1>4. ASSUME NEW k \in 1..n, k - 1 \in P PROVE k \in P
  <2>1. PICK at \in Nat \ {0} : at = from - (k - 1) /\ at - 1 = from - k /\ at \in (first + 1)..from
    BY <1>1
  <2>2. Text(bytes, at, to) = Part(k - 1) \o rest
    BY <1>4, <2>1
  <2>3. Text(bytes, at - 1, to) = Before(bytes[at], Text(bytes, at, to))
    <3>1. at <= to
      BY <2>1
    <3>2. QED BY <3>1, TextFromBefore
  <2>4. bytes[at] # NewLine
    BY <2>1 DEF AllText
  <2>5. Part(k) = SubSeq(bytes, at, from) /\ Part(k - 1) = SubSeq(bytes, at + 1, from)
    <3>1. from - k + 1 = at /\ from - (k - 1) + 1 = at + 1
      BY <2>1
    <3>2. QED BY <3>1
  <2>6. SubSeq(bytes, at, at) \o SubSeq(bytes, at + 1, from) = SubSeq(bytes, at, from)
    <3>1. at \in 1..Len(bytes) + 1 /\ at \in at - 1..Len(bytes) /\ from \in at..Len(bytes)
      BY <2>1
    <3>2. QED BY <3>1, ConcatAdjacentSubSeq
  <2>7. SubSeq(bytes, at, at) = <<bytes[at]>>
    <3>1. at \in 1..Len(bytes) /\ bytes[at] \in Nat
      BY <2>1
    <3>2. PICK x : x = SubSeq(bytes, at, at)
      OBVIOUS
    <3>3. PICK i \in Int : i = at /\ i <= i /\ i - i + 1 = 1 /\ i..i = {i} /\ i + 1 - 1 = i
      BY <2>1
    <3>4. x \in Seq(Nat) /\ Len(x) = 1 /\ x[1] = bytes[at]
      <4>1. \A j \in i..i : bytes[j] \in Nat
        BY <3>1, <3>3
      <4>2. x \in Seq(Nat) /\ Len(x) = 1 /\ \A j \in 1..1 : x[j] = bytes[i + j - 1]
        BY <3>2, <3>3, <4>1, SubSeqProperties
      <4>3. QED BY <3>3, <4>2
    <3>5. PICK byte \in Nat : byte = bytes[at]
      BY <3>1
    <3>6. <<byte>> \in Seq(Nat) /\ Len(<<byte>>) = 1 /\ <<byte>>[1] = byte
      OBVIOUS
    <3>7. x = <<byte>>
      <4>1. Len(x) = Len(<<byte>>) /\ \A j \in 1..Len(x) : x[j] = <<byte>>[j]
        BY <3>4, <3>5, <3>6
      <4>2. QED BY <3>4, <3>6, <4>1, SeqEqual
    <3>8. QED BY <3>2, <3>5, <3>7
  <2>8. /\ SubSeq(bytes, at, at) \in Seq(Nat) /\ SubSeq(bytes, at + 1, from) \in Seq(Nat)
    <3>1. \A i \in at..from : bytes[i] \in Nat
      BY <2>1
    <3>2. at \in Int /\ from \in Int /\ at + 1 \in Int /\ at <= from
      BY <2>1
    <3>3. (\A i \in at..at : bytes[i] \in Nat) /\ (\A i \in (at + 1)..from : bytes[i] \in Nat)
      BY <3>1, <3>2
    <3>4. QED BY <3>2, <3>3, SubSeqProperties
  <2>9. (SubSeq(bytes, at, at) \o SubSeq(bytes, at + 1, from)) \o rest
           = SubSeq(bytes, at, at) \o (SubSeq(bytes, at + 1, from) \o rest)
    <3>1. PICK x \in Seq(Nat) : x = SubSeq(bytes, at, at)
      BY <2>8
    <3>2. PICK y \in Seq(Nat) : y = SubSeq(bytes, at + 1, from)
      BY <2>8
    <3>3. (x \o y) \o rest = x \o (y \o rest)
      <4>1. x \in Seq(Nat) /\ y \in Seq(Nat) /\ rest \in Seq(Nat)
        OBVIOUS
      <4>2. QED BY <4>1, Associative, Zenon
    <3>4. QED BY <3>1, <3>2, <3>3
  <2>10. Text(bytes, from - k, to) = Part(k) \o rest
    <3> HIDE DEF Part
    <3>1. Text(bytes, from - k, to) = <<bytes[at]>> \o (Part(k - 1) \o rest)
      BY <2>1, <2>2, <2>3, <2>4 DEF Before
    <3>2. QED BY <2>5, <2>6, <2>7, <2>9, <3>1
  <2> HIDE DEF Part
  <2>11. QED BY <2>10
<1> HIDE DEF P
<1>5. \A k \in 0..n : k \in P
  BY <1>1, <1>3, <1>4, CountingUp
<1>6. n \in P /\ from - n = first /\ from - n + 1 = first + 1
  BY <1>1, <1>5
<1>7. Text(bytes, from - n, to) = Part(n) \o rest
  BY <1>6 DEF P
<1>8. QED BY <1>2, <1>6, <1>7

\* LastOf is the largest of some numbers.
LEMMA LargestNumber ==
    ASSUME NEW k \in Nat, NEW S \in SUBSET (0..k), S # {}
    PROVE  LastOf(S) \in S /\ \A i \in S : i <= LastOf(S)
<1> DEFINE Below == { k - i : i \in S }
<1>1. Below \in SUBSET Nat /\ Below # {}
  <2>1. \A i \in S : k - i \in Nat /\ k - i \in Below
    OBVIOUS
  <2>2. PICK i \in S : TRUE
    OBVIOUS
  <2>3. QED BY <2>1, <2>2
<1>2. PICK d \in Below : \A e \in Below : d <= e
  BY <1>1, SmallestNumber
<1>3. PICK i \in S : d = k - i
  BY <1>2
<1>4. \A j \in S : j <= i
  <2> TAKE j \in S
  <2>1. k - j \in Below
    OBVIOUS
  <2>2. d <= k - j /\ i \in Nat /\ j \in Nat
    BY <1>2, <2>1
  <2>3. QED BY <1>3, <2>2
<1>5. QED BY <1>4 DEF LastOf

\* ReadLastLine passes new lines, reads a line, and passes the new lines before it.
LEMMA LastLineIsRead ==
    ASSUME NEW bytes \in Seq(Nat), NEW end \in Nat, NEW read, read = ReadLastLine(bytes, end), ~read.endless
    PROVE  /\ read.line \in Seq(Int) /\ read.line # <<>> /\ read.newpos \in 0..end
           /\ end <= Len(bytes) => \A to \in end..Len(bytes) :
                 Text(bytes, read.newpos, to) = read.line \o Text(bytes, end, to)
<1> DEFINE text == {i \in 0..(end - 1) : IsText(bytes, i)}
           last == LastOf(text)
           breaks == {i \in 0..last : ~IsText(bytes, i)}
           first == IF breaks = {} THEN 0 ELSE LastOf(breaks) + 1
           before == {i \in text : i < first}
           line == [i \in 1..(last - first + 1) |-> ByteAt(bytes, first + i - 1)]
           newpos == IF before = {} THEN 0 ELSE LastOf(before) + 1
<1>1. text # {} /\ read = [endless |-> FALSE, line |-> line, newpos |-> newpos]
  <2>1. read = IF text = {} THEN NoLine ELSE [endless |-> FALSE, line |-> line, newpos |-> newpos]
    BY DEF ReadLastLine
  <2>2. NoLine.endless
    BY DEF NoLine
  <2> HIDE DEF text, line, newpos
  <2>3. QED BY <2>1, <2>2
<1>2. read.line = line /\ read.newpos = newpos
  <2> HIDE DEF text, line, newpos
  <2>1. QED BY <1>1
<1>3. /\ last \in 0..(end - 1) /\ IsText(bytes, last)
      /\ \A i \in 0..(end - 1) : IsText(bytes, i) => i <= last
  <2>1. text \in SUBSET (0..end)
    OBVIOUS
  <2>2. last \in text /\ \A i \in text : i <= last
    BY <1>1, <2>1, LargestNumber
  <2> HIDE DEF last
  <2>3. QED BY <2>2
<1> HIDE DEF last
<1>4. /\ first \in 0..last /\ \A i \in first..last : IsText(bytes, i)
  <2>1. CASE breaks = {}
    BY <1>3, <2>1
  <2>2. CASE breaks # {}
    <3>1. last \in Nat /\ breaks \in SUBSET (0..last)
      BY <1>3
    <3>2. LastOf(breaks) \in breaks /\ \A i \in breaks : i <= LastOf(breaks)
      BY <2>2, <3>1, LargestNumber
    <3>3. PICK stop \in breaks : stop = LastOf(breaks) /\ (\A i \in breaks : i <= stop) /\ first = stop + 1
      BY <2>2, <3>2
    <3>4. stop # last /\ stop \in 0..last /\ \A i \in (stop + 1)..last : IsText(bytes, i)
      <4>1. stop # last /\ stop \in 0..last
        BY <1>3
      <4>2. ASSUME NEW i \in (stop + 1)..last PROVE IsText(bytes, i)
        <5>1. i \in 0..last /\ ~(i <= stop)
          BY <3>1, <4>1
        <5>2. QED BY <3>3, <5>1
      <4>3. QED BY <4>1, <4>2
    <3> HIDE DEF first, breaks
    <3>5. QED BY <3>1, <3>3, <3>4
  <2>3. QED BY <2>1, <2>2
<1> HIDE DEF first
<1>5. newpos \in 0..first /\ \A i \in newpos..(first - 1) : ~IsText(bytes, i)
  <2>1. CASE before = {}
    <3>1. newpos = 0
      BY <2>1
    <3>2. \A i \in 0..(first - 1) : i \in 0..(end - 1) /\ i < first
      BY <1>3, <1>4
    <3>3. \A i \in 0..(first - 1) : ~IsText(bytes, i)
      BY <2>1, <3>2
    <3>4. QED BY <1>4, <3>1, <3>3
  <2>2. CASE before # {}
    <3>1. before \in SUBSET (0..end)
      OBVIOUS
    <3>2. LastOf(before) \in before /\ \A i \in before : i <= LastOf(before)
      BY <2>2, <3>1, LargestNumber
    <3>3. PICK stop \in before : stop = LastOf(before) /\ (\A i \in before : i <= stop) /\ newpos = stop + 1
      BY <2>2, <3>2
    <3>4. stop \in Nat /\ stop < first /\ first \in Nat
      BY <1>3, <1>4
    <3>5. ASSUME NEW i \in (stop + 1)..(first - 1) PROVE ~IsText(bytes, i)
      <4>1. i \in 0..(end - 1) /\ i < first /\ ~(i <= stop)
        BY <1>3, <1>4, <3>4
      <4>2. QED BY <3>3, <4>1
    <3> HIDE DEF newpos, before
    <3>6. QED BY <3>3, <3>4, <3>5
  <2>3. QED BY <2>1, <2>2
<1> HIDE DEF newpos
<1> PICK l \in Nat : l = last
  BY <1>3
<1> PICK f \in Nat : f = first /\ f <= l
  BY <1>3, <1>4
<1> PICK p \in Nat : p = newpos /\ p <= f
  BY <1>4, <1>5
<1>6. line \in Seq(Int) /\ line # <<>>
  <2>1. \A i \in Nat : ByteAt(bytes, i) \in Int
    <3> TAKE i \in Nat
    <3>1. CASE i < Len(bytes)
      <4>1. i + 1 \in 1..Len(bytes)
        BY <3>1
      <4>2. QED BY <3>1, <4>1 DEF ByteAt
    <3>2. CASE ~(i < Len(bytes))
      BY <3>2 DEF ByteAt, Nul
    <3>3. QED BY <3>1, <3>2
  <2>2. PICK n \in Nat \ {0} : n = last - first + 1
    BY <1>3, <1>4
  <2>3. \A i \in 1..n : ByteAt(bytes, first + i - 1) \in Int
    BY <1>4, <2>1
  <2>4. PICK x : x = [i \in 1..n |-> ByteAt(bytes, first + i - 1)]
    OBVIOUS
  <2>5. x \in Seq(Int) /\ x # <<>>
    <3>1. x \in [1..n -> Int]
      BY <2>3, <2>4
    <3>2. x \in Seq(Int) /\ Len(x) = n
      BY <3>1
    <3>3. QED BY <3>2
  <2>6. QED BY <2>2, <2>4, <2>5
<1>7. ASSUME end <= Len(bytes), NEW to \in end..Len(bytes)
      PROVE  Text(bytes, newpos, to) = line \o Text(bytes, end, to)
  <2>1. /\ to \in Nat /\ to <= Len(bytes) /\ l + 1 <= end /\ end <= to /\ Len(bytes) \in Nat
    BY <1>3, <1>7
  <2>2. \A i \in 0..(Len(bytes) - 1) : IsText(bytes, i) <=> bytes[i + 1] # NewLine
    BY DEF IsText, ByteAt
  <2>3. Text(bytes, l + 1, to) = Text(bytes, end, to)
    <3>1. ASSUME NEW i \in ((l + 1) + 1)..end PROVE bytes[i] = NewLine
      <4>1. i - 1 \in 0..(end - 1) /\ ~(i - 1 <= l) /\ i - 1 \in 0..(Len(bytes) - 1) /\ (i - 1) + 1 = i
        BY <2>1
      <4>2. QED BY <1>3, <2>2, <4>1
    <3>2. QED BY <2>1, <3>1, NewLinesArePassed
  <2>4. Text(bytes, f, to) = SubSeq(bytes, f + 1, l + 1) \o Text(bytes, l + 1, to)
    <3>1. ASSUME NEW i \in (f + 1)..(l + 1) PROVE bytes[i] # NewLine
      <4>1. i - 1 \in f..l /\ i - 1 \in 0..(Len(bytes) - 1) /\ (i - 1) + 1 = i
        BY <2>1
      <4>2. QED BY <1>4, <2>2, <4>1
    <3>2. f <= l + 1 /\ l + 1 <= to /\ l + 1 \in Nat
      BY <2>1
    <3>3. PICK e \in Nat : e = l + 1 /\ f <= e /\ e <= to
      BY <3>2
    <3>4. \A i \in (f + 1)..e : bytes[i] # NewLine
      BY <3>1, <3>3
    <3>5. Text(bytes, f, to) = SubSeq(bytes, f + 1, e) \o Text(bytes, e, to)
      <4>1. bytes \in Seq(Nat) /\ f \in Nat /\ e \in Nat /\ to \in Nat /\ f <= e /\ e <= to /\ to <= Len(bytes)
        BY <2>1, <3>3
      <4>2. AllText(bytes, f, e)
        BY <3>4 DEF AllText
      <4>3. QED BY <4>1, <4>2, LineIsRead
    <3>6. QED BY <3>3, <3>5
  <2>5. Text(bytes, p, to) = Text(bytes, f, to)
    <3>1. ASSUME NEW i \in (p + 1)..f PROVE bytes[i] = NewLine
      <4>1. i - 1 \in p..(f - 1) /\ i - 1 \in 0..(Len(bytes) - 1) /\ (i - 1) + 1 = i
        BY <2>1
      <4>2. QED BY <1>5, <2>2, <4>1
    <3>2. f <= to
      BY <2>1
    <3>3. QED BY <2>1, <3>1, <3>2, NewLinesArePassed
  <2>6. line = SubSeq(bytes, f + 1, l + 1)
    <3>1. PICK n \in Nat : n = l - f + 1
      BY <1>3, <1>4
    <3>2. \A i \in 1..n : f + i - 1 < Len(bytes) /\ f + i - 1 \in Nat /\ (f + i - 1) + 1 = f + 1 + i - 1
      BY <2>1, <3>1
    <3>3. \A i \in 1..n : ByteAt(bytes, f + i - 1) = bytes[f + 1 + i - 1]
      BY <3>2 DEF ByteAt
    <3>4. PICK x : x = SubSeq(bytes, f + 1, l + 1)
      OBVIOUS
    <3>5. x \in Seq(Nat) /\ Len(x) = n /\ \A i \in 1..n : x[i] = bytes[f + 1 + i - 1]
      <4>1. \A i \in (f + 1)..(l + 1) : bytes[i] \in Nat
        BY <2>1
      <4>2. (l + 1) - (f + 1) + 1 = n /\ f + 1 <= l + 1 /\ f + 1 \in Int /\ l + 1 \in Int
        BY <3>1
      <4>3. QED BY <3>4, <4>1, <4>2, SubSeqProperties
    <3>6. x = [i \in 1..n |-> x[i]]
      BY <3>5
    <3>7. line = [i \in 1..n |-> ByteAt(bytes, f + i - 1)]
      BY <3>1
    <3> HIDE DEF line
    <3>8. [i \in 1..n |-> ByteAt(bytes, f + i - 1)] = [i \in 1..n |-> x[i]]
      BY <3>3, <3>5
    <3>9. QED BY <3>4, <3>6, <3>7, <3>8
  <2> HIDE DEF line
  <2>7. QED BY <2>3, <2>4, <2>5, <2>6
<1> HIDE DEF line
<1>8. newpos \in 0..end
  BY <1>3
<1>9. QED BY <1>2, <1>6, <1>7, <1>8

-----------------------------------------------------------------------------
(* Files of the log, by the lines in them *)

FileFits(bytes, upto) == \E rest, ls : IsLog(bytes, rest, ls) /\ LinesOf(ls) \subseteq 1..upto

\* A file without bytes is one of the log.
LEMMA EmptyFileFits == \A upto : FileFits(<<>>, upto) /\ LinesIn(<<>>) = {}
<1> PICK none : none = <<>>
  OBVIOUS
<1>1. none \in Seq(Nat) /\ none \in Seq(1..MaxLines) /\ Len(none) = 0
  OBVIOUS
<1>2. IsLog(none, 0, none)
  BY <1>1 DEF IsLog, Increasing
<1>3. LinesOf(none) = {}
  BY <1>1 DEF LinesOf
<1>4. LinesIn(none) = {}
  BY <1>2, <1>3, LinesInLog
<1>5. QED BY <1>2, <1>3, <1>4 DEF FileFits

\* What a file of the log holds, and that three bytes of it hold a line.
LEMMA FileIsTyped ==
    ASSUME NEW bytes, NEW upto \in 0..MaxLines, FileFits(bytes, upto)
    PROVE  /\ bytes \in Seq(Nat) /\ Len(bytes) \in Nat /\ LinesIn(bytes) \subseteq 1..upto
           /\ LinesIn(bytes) \subseteq Nat
           /\ Len(bytes) >= 3 => LinesIn(bytes) # {}
<1> PICK rest, ls : IsLog(bytes, rest, ls) /\ LinesOf(ls) \subseteq 1..upto
  BY DEF FileFits
<1>1. bytes \in Seq(Nat) /\ rest \in 0..2 /\ Len(ls) \in Nat /\ Len(bytes) = rest + 3 * Len(ls)
  BY DEF IsLog
<1>2. LinesIn(bytes) = LinesOf(ls)
  BY LinesInLog
<1>3. Len(bytes) >= 3 => 1 \in 1..Len(ls)
  BY <1>1
<1>4. 1 \in 1..Len(ls) => LinesOf(ls) # {}
  BY DEF LinesOf
<1>5. upto \in Nat
  BY LogBounds
<1>6. QED BY <1>1, <1>2, <1>3, <1>4, <1>5

\* A line that is appended is the last one.
LEMMA FileGrows ==
    ASSUME NEW bytes, NEW upto \in Nat, upto < MaxLines, FileFits(bytes, upto)
    PROVE  /\ FileFits(bytes \o Line(upto + 1), upto + 1)
           /\ LinesIn(bytes \o Line(upto + 1)) = LinesIn(bytes) \cup {upto + 1}
           /\ bytes \o Line(upto + 1) \in Seq(Nat) /\ Len(bytes \o Line(upto + 1)) >= Len(bytes)
           /\ \A i \in 1..Len(bytes) : (bytes \o Line(upto + 1))[i] = bytes[i]
<1> PICK rest, ls : IsLog(bytes, rest, ls) /\ LinesOf(ls) \subseteq 1..upto
  BY DEF FileFits
<1>1. upto + 1 \in 1..MaxLines /\ \A k \in 1..Len(ls) : ls[k] < upto + 1
  <2>1. ASSUME NEW k \in 1..Len(ls) PROVE ls[k] < upto + 1
    <3>1. ls[k] \in LinesOf(ls)
      BY DEF LinesOf
    <3>2. ls[k] \in 1..upto
      BY <3>1
    <3>3. QED BY <3>2
  <2>2. upto + 1 \in 1..MaxLines
    BY LogBounds
  <2>3. QED BY <2>1, <2>2
<1>2. /\ IsLog(bytes \o Line(upto + 1), rest, Append(ls, upto + 1))
      /\ LinesOf(Append(ls, upto + 1)) = LinesOf(ls) \cup {upto + 1}
  BY <1>1, LogGrows
<1>3. LinesIn(bytes \o Line(upto + 1)) = LinesIn(bytes) \cup {upto + 1}
  BY <1>2, LinesInLog
<1>4. FileFits(bytes \o Line(upto + 1), upto + 1)
  BY <1>2 DEF FileFits
<1>5. bytes \in Seq(Nat) /\ Line(upto + 1) \in Seq(Nat)
  BY LogBounds DEF IsLog, Line
<1>6. QED BY <1>3, <1>4, <1>5, ConcatProperties

\* The end of a file keeps the newest of its lines, one at least.
LEMMA FileIsCut ==
    ASSUME NEW bytes, NEW upto \in 0..MaxLines, FileFits(bytes, upto), NEW from \in Nat, from + Kept <= Len(bytes),
           NEW cut, cut = SubSeq(bytes, from + 1, Len(bytes))
    PROVE  /\ FileFits(cut, upto) /\ LinesIn(cut) \subseteq LinesIn(bytes) /\ LinesIn(cut) # {}
           /\ \A n \in LinesIn(cut) : \A k \in LinesIn(bytes) : k >= n => k \in LinesIn(cut)
<1> PICK rest, ls : IsLog(bytes, rest, ls) /\ LinesOf(ls) \subseteq 1..upto
  BY DEF FileFits
<1>1. from \in 0..Len(bytes) /\ Len(bytes) - from >= 3
  <2>1. Len(bytes) \in Nat
    BY LogShape, Zenon
  <2>2. QED BY <2>1, LogBounds
<1>2. PICK rest2, ls2 :
         /\ IsLog(cut, rest2, ls2) /\ LinesOf(ls2) \subseteq LinesOf(ls) /\ LinesOf(ls2) # {}
         /\ \A n \in LinesOf(ls2) : \A k \in LinesOf(ls) : k >= n => k \in LinesOf(ls2)
  BY <1>1, LogCut
<1>3. LinesIn(cut) = LinesOf(ls2) /\ LinesIn(bytes) = LinesOf(ls)
  BY <1>2, LinesInLog
<1>4. QED BY <1>2, <1>3 DEF FileFits

\* A file of the log is in order.
LEMMA FileIsInOrder ==
    ASSUME NEW bytes, NEW upto \in 0..MaxLines, FileFits(bytes, upto),
           NEW rest, rest = Len(bytes) - 3 * Cardinality(LinesIn(bytes))
    PROVE  /\ rest \in 0..2
           /\ \A i \in (rest + 1)..Len(bytes) : bytes[i] = NewLine <=> (i - rest) % 3 = 0
           /\ \A i, j \in (rest + 1)..Len(bytes) :
                 i < j /\ NewLine \notin {bytes[i], bytes[j]} => bytes[i] <= bytes[j]
<1> PICK r, ls : IsLog(bytes, r, ls) /\ LinesOf(ls) \subseteq 1..upto
  BY DEF FileFits
<1> PICK m \in Nat : m = Len(ls) /\ IsMadeOf(bytes, r, ls, m)
  BY LogParts, Zenon
<1>1. /\ r \in 0..2 /\ Len(bytes) = r + 3 * m
      /\ \A k \in 1..m : ls[k] \in Nat /\ ls[k] # 0 /\ HasLine(bytes, r + 3 * (k - 1), ls[k])
      /\ \A j, k \in 1..m : j < k => ls[j] < ls[k]
  BY Zenon DEF IsMadeOf
<1>2. rest = r
  <2>1. Cardinality(LinesIn(bytes)) = m
    BY LinesInLog
  <2>2. QED BY <1>1, <2>1
<1>3. ASSUME NEW i \in (r + 1)..Len(bytes)
      PROVE  \E k \in 1..m : /\ i - r - 3 * (k - 1) \in {1, 2, 3}
                             /\ bytes[i] = IF i - r - 3 * (k - 1) = 3 THEN NewLine ELSE ls[k]
  <2>1. r \in Nat /\ i \in (r + 1)..(r + 3 * m)
    BY <1>1
  <2>2. PICK k \in 1..m : i \in {r + 3 * (k - 1) + 1, r + 3 * (k - 1) + 2, r + 3 * (k - 1) + 3}
    BY <2>1, PlaceOfByte
  <2>3. i - r - 3 * (k - 1) \in {1, 2, 3}
    BY <2>1, <2>2
  <2>4. bytes[i] = IF i - r - 3 * (k - 1) = 3 THEN NewLine ELSE ls[k]
    <3>1. HasLine(bytes, r + 3 * (k - 1), ls[k])
      BY <1>1
    <3> PICK p \in Nat : p = r + 3 * (k - 1)
      BY <2>1
    <3>2. bytes[p + 1] = ls[k] /\ bytes[p + 2] = ls[k] /\ bytes[p + 3] = NewLine
      BY <3>1 DEF HasLine
    <3>3. (i = p + 1 /\ i - r - 3 * (k - 1) = 1) \/ (i = p + 2 /\ i - r - 3 * (k - 1) = 2)
            \/ (i = p + 3 /\ i - r - 3 * (k - 1) = 3)
      BY <2>1, <2>2
    <3>4. QED BY <3>2, <3>3
  <2>5. QED BY <2>3, <2>4
<1>4. ASSUME NEW i \in (r + 1)..Len(bytes) PROVE bytes[i] = NewLine <=> (i - r) % 3 = 0
  <2>1. PICK k \in 1..m : /\ i - r - 3 * (k - 1) \in {1, 2, 3}
                          /\ bytes[i] = IF i - r - 3 * (k - 1) = 3 THEN NewLine ELSE ls[k]
    BY <1>3
  <2>2. ls[k] # NewLine
    BY <1>1, LogBounds
  <2>3. i - r - 3 * (k - 1) = 3 <=> (i - r) % 3 = 0
    <3> PICK d \in Nat : d = i - r
      BY <1>1
    <3> PICK q \in Nat : q = k - 1
      OBVIOUS
    <3>1. d - 3 * q \in {1, 2, 3}
      BY <2>1
    <3>2. d = 3 * q + 1 \/ d = 3 * q + 2 \/ d = 3 * q + 3
      BY ONLY <3>1
    <3>3. (3 * q + 1) % 3 = 1 /\ (3 * q + 2) % 3 = 2 /\ (3 * q + 3) % 3 = 0
      BY ONLY TRUE
    <3>4. (d - 3 * q = 3) <=> d = 3 * q + 3
      BY ONLY TRUE
    <3>5. (d % 3 = 0) <=> d = 3 * q + 3
      <4>1. CASE d = 3 * q + 1
        BY ONLY <3>3, <4>1
      <4>2. CASE d = 3 * q + 2
        BY ONLY <3>3, <4>2
      <4>3. CASE d = 3 * q + 3
        BY ONLY <3>3, <4>3
      <4>4. QED BY <3>2, <4>1, <4>2, <4>3
    <3>6. QED BY <3>4, <3>5
  <2>4. QED BY <2>1, <2>2, <2>3
<1>5. ASSUME NEW i \in (r + 1)..Len(bytes), NEW j \in (r + 1)..Len(bytes), i < j,
             bytes[i] # NewLine, bytes[j] # NewLine
      PROVE  bytes[i] <= bytes[j]
  <2>1. PICK k \in 1..m : i - r - 3 * (k - 1) \in {1, 2, 3} /\ bytes[i] = ls[k]
    BY <1>3, <1>5
  <2>2. PICK l \in 1..m : j - r - 3 * (l - 1) \in {1, 2, 3} /\ bytes[j] = ls[l]
    BY <1>3, <1>5
  <2>3. k <= l
    <3>1. i \in Int /\ j \in Int /\ r \in Int
      BY <1>1
    <3>2. 3 * (k - 1) <= i - r - 1 /\ j - r <= 3 * l
      BY <2>1, <2>2, <3>1
    <3>3. 3 * (k - 1) < 3 * l
      BY <1>5, <3>1, <3>2
    <3>4. QED BY <3>3
  <2>4. ls[k] \in Nat /\ ls[l] \in Nat
    BY <1>1
  <2>5. CASE k = l
    BY <2>1, <2>2, <2>4, <2>5
  <2>6. CASE k < l
    <3>1. ls[k] < ls[l]
      BY <1>1, <2>6
    <3>2. QED BY <2>1, <2>2, <2>4, <3>1
  <2>7. QED BY <2>3, <2>5, <2>6
<1>6. QED BY <1>1, <1>2, <1>4, <1>5

\* What CHOOSE takes for the oldest of some lines.
LEMMA SmallestLine ==
    ASSUME NEW lines \in SUBSET Nat, lines # {}, NEW least, least = CHOOSE n \in lines : \A m \in lines : n <= m
    PROVE  least \in lines /\ \A m \in lines : least <= m
BY SmallestNumber

-----------------------------------------------------------------------------
(* The inductive invariant of the log.  Between two steps of the keeper     *)
(* the lines that are not at risk are all in the file that is to stay: the *)
(* log while it is copied, the backup before the log is emptied, the rest  *)
(* that is to get the log's name.                                          *)

Covers(lines, from, upto, lost) == \A n \in from..upto : n \notin lost => n \in lines
Upward(lines, upto, lost) == \A n \in lines : \A k \in n..upto : k \in lines \cup lost

FilesFit ==
    /\ logFiles \in Seq(Seq(Nat)) /\ logName \in 1..Len(logFiles)
    /\ \A i \in 1..Len(logFiles) : FileFits(logFiles[i], written)
    /\ opened \in [Appenders -> 0..Len(logFiles)]
    /\ written \in 0..MaxLines /\ oldest \in Nat

KeeperIsTyped ==
    keeper \in [step : {"idle", "copy", "truncate", "write", "rename"}, from : Nat, file : Nat]

KeeperFits ==
    /\ At("copy") => Covers(LinesIn(LogFile), oldest, written, risked)
    /\ At("truncate") => Covers(LinesIn(backup), oldest, written, risked)
    /\ At("write") => keeper.file = logName /\ keeper.from + Kept <= Len(LogFile)
    /\ At("rename") => /\ FileFits(temp, written) /\ LinesIn(temp) # {}
                       /\ Upward(LinesIn(temp), written, risked)

LinesFit ==
    /\ Upward(LinesIn(LogFile), written, risked)
    /\ Covers(LinesIn(LogFile) \cup LinesIn(backup), oldest, written, risked)

\* The text read is what the log has between the reader's positions, if it was not cut.
IsRead(bytes) ==
    /\ reader.pos <= reader.start /\ reader.start <= Len(bytes)
    /\ reader.text = Text(bytes, reader.pos, reader.start)
PagesFit ==
    /\ reader \in [text : Seq(Int), start : Nat, pos : Nat, file : 0..Len(logFiles), steady : BOOLEAN,
                   endless : BOOLEAN]
    /\ reader.file = NotOpen /\ reader.text = <<>> => reader.pos = 0
    /\ reader.steady /\ (reader.file # NotOpen \/ reader.text # <<>>) =>
          IsRead(LogFile) /\ (reader.file # NotOpen => reader.file = logName)

LogInv == FilesFit /\ KeeperIsTyped /\ KeeperFits /\ LinesFit /\ PagesFit

\* LogsAreKept follows.
LEMMA LogInvGives == LogInv => LogsAreKept
<1> SUFFICES ASSUME LogInv PROVE LogsAreKept
  OBVIOUS
<1>1. LinesAreKept
  BY DEF LogInv, LinesFit, Covers, LinesAreKept
<1>2. LogIsInOrder
  <2> PICK rest : rest = Len(LogFile) - 3 * Cardinality(LinesIn(LogFile))
    OBVIOUS
  <2>1. FileFits(LogFile, written) /\ written \in 0..MaxLines
    BY DEF LogInv, FilesFit, LogFile
  <2>2. /\ rest \in 0..2
        /\ \A i \in (rest + 1)..Len(LogFile) : LogFile[i] = NewLine <=> (i - rest) % 3 = 0
        /\ \A i, j \in (rest + 1)..Len(LogFile) :
              i < j /\ NewLine \notin {LogFile[i], LogFile[j]} => LogFile[i] <= LogFile[j]
    BY <2>1, FileIsInOrder
  <2>3. \A n, m \in LinesIn(LogFile) : \A k \in n..m : k \in LinesIn(LogFile) \cup risked
    <3> TAKE n, m \in LinesIn(LogFile)
    <3> TAKE k \in n..m
    <3>1. LinesIn(LogFile) \subseteq 1..written
      BY <2>1, FileIsTyped
    <3>2. k \in n..written
      BY <2>1, <3>1
    <3>3. QED BY <3>2 DEF LogInv, LinesFit, Upward
  <2>4. QED BY <2>2, <2>3 DEF LogIsInOrder
<1>3. PagesContinue
  BY DEF LogInv, PagesFit, IsRead, PagesContinue
<1>4. QED BY <1>1, <1>2, <1>3 DEF LogsAreKept

\* There is no file at first.
LEMMA LogInvInit == LogInit => LogInv
<1> SUFFICES ASSUME LogInit PROVE LogInv
  OBVIOUS
<1>1. LogFile = <<>> /\ Len(logFiles) = 1 /\ logFiles[1] = <<>> /\ logName = 1 /\ written = 0 /\ oldest = 1
  BY DEF LogInit, LogFile
<1>2. LinesIn(LogFile) = {}
  BY <1>1, EmptyFileFits
<1>3. FilesFit
  <2>1. logFiles \in Seq(Seq(Nat))
    BY DEF LogInit
  <2>2. FileFits(logFiles[1], 0)
    BY <1>1, EmptyFileFits
  <2>3. opened \in [Appenders -> 0..Len(logFiles)]
    BY <1>1, LogBounds DEF LogInit
  <2>4. QED BY <1>1, <2>1, <2>2, <2>3, LogBounds DEF FilesFit
<1>4. keeper = Waiting
  BY DEF LogInit
<1>5. KeeperIsTyped /\ KeeperFits
  BY <1>4 DEF KeeperIsTyped, KeeperFits, At, Waiting
<1>6. LinesFit
  BY <1>1, <1>2 DEF LinesFit, Upward, Covers
<1>7. PagesFit
  BY <1>1, LogBounds DEF LogInit, PagesFit, NotReading
<1>8. QED BY <1>3, <1>5, <1>6, <1>7 DEF LogInv

\* A file fits when there are more lines than it can have.
LEMMA FileStillFits == \A bytes : \A upto \in Nat : FileFits(bytes, upto) => FileFits(bytes, upto + 1)
<1> TAKE bytes
<1> TAKE upto \in Nat
<1> HAVE FileFits(bytes, upto)
<1>1. PICK rest, ls : IsLog(bytes, rest, ls) /\ LinesOf(ls) \subseteq 1..upto
  BY DEF FileFits
<1>2. 1..upto \subseteq 1..(upto + 1)
  OBVIOUS
<1>3. QED BY <1>1, <1>2 DEF FileFits

\* A file that grows keeps the text that was read from it.
LEMMA TextStays ==
    ASSUME NEW bytes \in Seq(Nat), NEW grown \in Seq(Nat), Len(grown) >= Len(bytes),
           \A i \in 1..Len(bytes) : grown[i] = bytes[i], reader.pos \in Nat, reader.start \in Nat,
           IsRead(bytes)
    PROVE  IsRead(grown)
<1> PICK from \in Nat : from = reader.pos
  OBVIOUS
<1> PICK to \in Nat : to = reader.start
  OBVIOUS
<1>1. from <= to /\ to <= Len(bytes) /\ to <= Len(grown)
  BY DEF IsRead
<1>2. \A i \in 1..to : bytes[i] = grown[i]
  BY <1>1
<1>3. Text(bytes, from, to) = Text(grown, from, to)
  BY <1>1, <1>2, TextIsSame
<1>4. QED BY <1>1, <1>3 DEF IsRead

\* What the log file holds, whatever the keeper is doing.
LEMMA LogFileIsTyped ==
    ASSUME FilesFit
    PROVE  /\ LogFile \in Seq(Nat) /\ Len(LogFile) \in Nat /\ FileFits(LogFile, written)
           /\ LinesIn(LogFile) \subseteq 1..written /\ LinesIn(LogFile) \subseteq Nat
           /\ Len(LogFile) >= 3 => LinesIn(LogFile) # {}
           /\ written \in Nat /\ written <= MaxLines /\ oldest \in Nat /\ logName \in Nat /\ logName # NotOpen
<1>1. FileFits(LogFile, written) /\ written \in 0..MaxLines /\ written \in Nat /\ written <= MaxLines
      /\ oldest \in Nat /\ logName \in Nat /\ logName # NotOpen
  BY LogBounds DEF FilesFit, LogFile
<1>2. QED BY <1>1, FileIsTyped

\* What is appended to the log is in it; what is appended elsewhere, or while the log is
\* about to be replaced, is at risk.
LEMMA AppendKeepsLog == ASSUME LogInv, NEW u \in Appenders, AppendToFile(u) PROVE LogInv'
<1> PICK upto \in Nat : upto = written
  BY LogFileIsTyped DEF LogInv
<1> PICK o : o = opened[u]
  OBVIOUS
<1>1. /\ o \in 1..Len(logFiles) /\ upto < MaxLines /\ written' = upto + 1
      /\ logFiles' = [logFiles EXCEPT ![o] = @ \o Line(upto + 1)]
      /\ opened' = [opened EXCEPT ![u] = NotOpen]
      /\ logName' = logName /\ backup' = backup /\ temp' = temp /\ keeper' = keeper /\ oldest' = oldest
      /\ reader' = reader
  BY LogBounds DEF AppendToFile, LogInv, FilesFit
<1>2. risked' = IF keeper.step \in {"truncate", "rename"} \/ o # logName THEN risked \cup {upto + 1} ELSE risked
  BY <1>1 DEF AppendToFile
<1>3. /\ logFiles \in Seq(Seq(Nat)) /\ Len(logFiles) \in Nat /\ logName \in 1..Len(logFiles)
      /\ \A i \in 1..Len(logFiles) : FileFits(logFiles[i], upto) /\ logFiles[i] \in Seq(Nat)
      /\ opened \in [Appenders -> 0..Len(logFiles)] /\ oldest \in Nat
  BY DEF LogInv, FilesFit
<1> PICK grown : grown = logFiles[o] \o Line(upto + 1)
  OBVIOUS
<1>4. /\ FileFits(grown, upto + 1) /\ LinesIn(grown) = LinesIn(logFiles[o]) \cup {upto + 1}
      /\ grown \in Seq(Nat) /\ Len(grown) >= Len(logFiles[o])
      /\ \A i \in 1..Len(logFiles[o]) : grown[i] = logFiles[o][i]
  BY <1>1, <1>3, FileGrows
<1>5. /\ logFiles' \in Seq(Seq(Nat)) /\ Len(logFiles') = Len(logFiles) /\ logFiles'[o] = grown
      /\ \A i \in 1..Len(logFiles) : i # o => logFiles'[i] = logFiles[i]
  <2>1. logFiles' = [logFiles EXCEPT ![o] = grown]
    BY <1>1
  <2>2. Len(logFiles') = Len(logFiles) /\ logFiles' \in Seq(Seq(Nat))
    BY <1>1, <1>3, <1>4, <2>1
  <2>3. \A i \in 1..Len(logFiles) : logFiles'[i] = IF i = o THEN grown ELSE logFiles[i]
    BY <1>1, <1>3, <2>1
  <2>4. QED BY <1>1, <2>2, <2>3
<1>6. FilesFit'
  <2>1. ASSUME NEW i \in 1..Len(logFiles) PROVE FileFits(logFiles'[i], upto + 1)
    <3>1. FileFits(logFiles[i], upto + 1)
      BY <1>3, FileStillFits
    <3>2. QED BY <1>4, <1>5, <3>1
  <2>2. opened' \in [Appenders -> 0..Len(logFiles)]
    BY <1>1, <1>3, LogBounds
  <2>3. upto + 1 \in 0..MaxLines
    BY <1>1, LogBounds
  <2>4. QED BY <1>1, <1>3, <1>5, <2>1, <2>2, <2>3 DEF FilesFit
<1>7. /\ LogFile \in Seq(Nat) /\ LogFile' \in Seq(Nat) /\ Len(LogFile') >= Len(LogFile)
      /\ Len(LogFile) \in Nat /\ Len(LogFile') \in Nat
      /\ \A i \in 1..Len(LogFile) : LogFile'[i] = LogFile[i]
      /\ LinesIn(LogFile)' = LinesIn(LogFile) \cup (IF o = logName THEN {upto + 1} ELSE {})
  <2>1. CASE o = logName
    <3>1. LogFile = logFiles[o] /\ LogFile' = grown
      BY <1>1, <1>5, <2>1 DEF LogFile
    <3>2. LinesIn(LogFile)' = LinesIn(grown)
      BY <3>1 DEF LinesIn
    <3>3. LinesIn(LogFile)' = LinesIn(LogFile) \cup {upto + 1}
      BY <1>4, <3>1, <3>2
    <3>4. LogFile \in Seq(Nat) /\ Len(LogFile) \in Nat
      BY <1>3, <2>1, LogFileIsTyped DEF LogInv
    <3>5. Len(grown) \in Nat
      <4>1. grown \in Seq(Nat)
        BY <1>4
      <4>2. QED BY ONLY <4>1
    <3> HIDE DEF LinesIn
    <3>6. QED BY <1>4, <2>1, <3>1, <3>3, <3>4, <3>5
  <2>2. CASE o # logName
    <3>1. LogFile' = LogFile /\ LogFile \in Seq(Nat)
      BY <1>1, <1>3, <1>5, <2>2 DEF LogFile
    <3>2. LinesIn(LogFile)' = LinesIn(LogFile)
      BY <3>1 DEF LinesIn
    <3>3. QED BY <2>2, <3>1, <3>2
  <2>3. QED BY <2>1, <2>2
<1>8. LinesIn(LogFile) \subseteq 1..upto /\ LinesIn(backup)' = LinesIn(backup) /\ LinesIn(temp)' = LinesIn(temp)
  BY <1>1, LogFileIsTyped DEF LogInv, LinesIn
<1>9. \/ o = logName /\ risked' = risked /\ keeper.step \notin {"truncate", "rename"}
      \/ risked' = risked \cup {upto + 1}
  BY <1>2
<1>10. ASSUME NEW lines, Covers(lines, oldest, upto, risked), upto + 1 \in risked' \/ upto + 1 \in lines
       PROVE  Covers(lines, oldest, upto + 1, risked')
  <2>1. \A n \in oldest..(upto + 1) : n = upto + 1 \/ n \in oldest..upto
    BY <1>3
  <2>2. risked \subseteq risked'
    BY <1>9
  <2>3. QED BY <1>10, <2>1, <2>2 DEF Covers
<1>11. ASSUME NEW lines, Covers(lines, oldest, upto, risked), NEW more, lines \subseteq more
       PROVE  Covers(more, oldest, upto, risked)
  BY <1>11 DEF Covers
<1>12. ASSUME NEW lines \in SUBSET Nat, Upward(lines, upto, risked), upto + 1 \in risked' \/ upto + 1 \in lines
       PROVE  Upward(lines, upto + 1, risked')
  <2>1. \A n \in lines : \A k \in n..(upto + 1) : k = upto + 1 \/ k \in n..upto
    OBVIOUS
  <2>2. risked \subseteq risked'
    BY <1>9
  <2>3. QED BY <1>12, <2>1, <2>2 DEF Upward
<1>13. KeeperIsTyped'
  BY <1>1 DEF LogInv, KeeperIsTyped
<1>14. KeeperFits'
  <2>1. ASSUME At("copy") PROVE Covers(LinesIn(LogFile)', oldest, upto + 1, risked')
    <3>1. Covers(LinesIn(LogFile), oldest, upto, risked)
      BY <2>1 DEF LogInv, KeeperFits
    <3>2. Covers(LinesIn(LogFile)', oldest, upto, risked)
      BY <1>7, <1>11, <3>1
    <3>3. upto + 1 \in risked' \/ upto + 1 \in LinesIn(LogFile)'
      BY <1>7, <1>9
    <3>4. QED BY <1>10, <3>2, <3>3
  <2>2. ASSUME At("truncate") PROVE Covers(LinesIn(backup), oldest, upto + 1, risked')
    <3>1. Covers(LinesIn(backup), oldest, upto, risked)
      BY <2>2 DEF LogInv, KeeperFits
    <3>2. upto + 1 \in risked'
      BY <1>9, <2>2 DEF At
    <3>3. QED BY <1>10, <3>1, <3>2
  <2>3. ASSUME At("write") PROVE keeper.file = logName /\ keeper.from + Kept <= Len(LogFile')
    BY <1>7, <2>3, LogBounds DEF LogInv, KeeperFits, KeeperIsTyped
  <2>4. ASSUME At("rename")
        PROVE  FileFits(temp, upto + 1) /\ LinesIn(temp) # {} /\ Upward(LinesIn(temp), upto + 1, risked')
    <3>1. FileFits(temp, upto) /\ LinesIn(temp) # {} /\ Upward(LinesIn(temp), upto, risked)
      BY <2>4 DEF LogInv, KeeperFits
    <3>2. upto + 1 \in risked'
      BY <1>9, <2>4 DEF At
    <3>3. LinesIn(temp) \in SUBSET Nat
      BY LogBounds DEF LinesIn
    <3>4. QED BY <1>12, <3>1, <3>2, <3>3, FileStillFits
  <2>5. QED BY <1>1, <1>8, <2>1, <2>2, <2>3, <2>4 DEF KeeperFits, At
<1>15. LinesFit'
  <2>1. Upward(LinesIn(LogFile)', upto, risked')
    <3>1. Upward(LinesIn(LogFile), upto, risked)
      BY DEF LogInv, LinesFit
    <3>2. \A n \in LinesIn(LogFile)' : n \in LinesIn(LogFile) \/ n = upto + 1
      BY <1>7
    <3>3. \A k \in (upto + 1)..upto : FALSE
      OBVIOUS
    <3>4. risked \subseteq risked' /\ LinesIn(LogFile) \subseteq LinesIn(LogFile)'
      BY <1>7, <1>9
    <3>5. QED BY <3>1, <3>2, <3>3, <3>4 DEF Upward
  <2>2. upto + 1 \in risked' \/ upto + 1 \in LinesIn(LogFile)'
    BY <1>7, <1>9
  <2>3. Upward(LinesIn(LogFile)', upto + 1, risked')
    <3>1. \A n \in LinesIn(LogFile)' : n \in Nat
      BY <1>7, <1>8
    <3>2. \A n \in LinesIn(LogFile)' : \A k \in n..(upto + 1) : k = upto + 1 \/ k \in n..upto
      BY <3>1
    <3>3. QED BY <2>1, <2>2, <3>2 DEF Upward
  <2>4. Covers(LinesIn(LogFile) \cup LinesIn(backup), oldest, upto, risked)
    BY DEF LogInv, LinesFit
  <2>5. Covers(LinesIn(LogFile)' \cup LinesIn(backup), oldest, upto, risked)
    BY <1>7, <1>11, <2>4
  <2>6. Covers(LinesIn(LogFile)' \cup LinesIn(backup), oldest, upto + 1, risked')
    BY <1>10, <2>2, <2>5
  <2>7. QED BY <1>1, <1>8, <2>3, <2>6 DEF LinesFit
<1>16. PagesFit'
  <2>1. PagesFit
    BY DEF LogInv
  <2>2. ASSUME IsRead(LogFile) PROVE IsRead(LogFile')
    BY <1>7, <2>1, <2>2, TextStays DEF PagesFit
  <2>3. IsRead(LogFile)' <=> IsRead(LogFile')
    BY <1>1 DEF IsRead
  <2>4. QED BY <1>1, <1>5, <2>1, <2>2, <2>3 DEF PagesFit
<1>17. QED BY <1>6, <1>13, <1>14, <1>15, <1>16 DEF LogInv

\* Opening the log changes no file.
LEMMA OpeningKeepsLog == ASSUME LogInv, NEW u \in Appenders, OpenToAppend(u) PROVE LogInv'
<1>1. /\ opened' = [opened EXCEPT ![u] = logName]
      /\ UNCHANGED <<logFiles, logName, backup, temp, keeper, written, risked, oldest, reader>>
  BY DEF OpenToAppend
<1>2. FilesFit'
  BY <1>1 DEF LogInv, FilesFit
<1>3. LogFile' = LogFile /\ LinesIn(LogFile)' = LinesIn(LogFile)
      /\ LinesIn(backup)' = LinesIn(backup) /\ LinesIn(temp)' = LinesIn(temp)
  BY <1>1 DEF LogFile, LinesIn
<1>4. KeeperIsTyped' /\ KeeperFits' /\ LinesFit'
  BY <1>1, <1>3 DEF LogInv, KeeperIsTyped, KeeperFits, LinesFit, At
<1>5. PagesFit'
  BY <1>1, <1>3 DEF LogInv, PagesFit, IsRead
<1>6. QED BY <1>2, <1>4, <1>5 DEF LogInv

\* The lines of the log from its first on are all in it: an old backup can go.
LEMMA RemovingKeepsLog == ASSUME LogInv, RemoveOldBackup PROVE LogInv'
<1>1. /\ At("idle") /\ Len(LogFile) >= MaxBackup /\ keeper' = [keeper EXCEPT !.step = "copy"]
      /\ oldest' = CHOOSE n \in LinesIn(LogFile) : \A m \in LinesIn(LogFile) : n <= m
      /\ UNCHANGED <<logFiles, logName, temp, opened, written, risked, reader>>
  BY DEF RemoveOldBackup, StepIs
<1>2. LogFile' = LogFile /\ LinesIn(LogFile)' = LinesIn(LogFile)
  BY <1>1 DEF LogFile, LinesIn
<1>3. LinesIn(LogFile) \in SUBSET Nat /\ LinesIn(LogFile) # {} /\ LinesIn(LogFile) \subseteq 1..written
  <2>1. FilesFit
    BY DEF LogInv
  <2>2. Len(LogFile) \in Nat /\ (Len(LogFile) >= 3 => LinesIn(LogFile) # {})
    BY <2>1, LogFileIsTyped
  <2>3. LinesIn(LogFile) # {}
    BY <1>1, <2>2, LogBounds
  <2>4. LinesIn(LogFile) \subseteq 1..written /\ LinesIn(LogFile) \subseteq Nat
    BY <2>1, LogFileIsTyped
  <2>5. QED BY <2>3, <2>4
<1>4. oldest' \in LinesIn(LogFile)
  BY <1>1, <1>3, SmallestLine
<1>5. Covers(LinesIn(LogFile), oldest', written, risked)
  BY <1>4 DEF LogInv, LinesFit, Upward, Covers
<1>6. FilesFit'
  BY <1>1, <1>3, <1>4 DEF LogInv, FilesFit
<1>7. KeeperIsTyped' /\ keeper'.step = "copy"
  BY <1>1 DEF LogInv, KeeperIsTyped
<1>8. KeeperFits'
  BY <1>1, <1>2, <1>5, <1>7 DEF KeeperFits, At
<1>9. LinesFit'
  BY <1>1, <1>2, <1>5 DEF LogInv, LinesFit, Covers
<1>10. PagesFit'
  BY <1>1, <1>2 DEF LogInv, PagesFit, IsRead
<1>11. QED BY <1>6, <1>7, <1>8, <1>9, <1>10 DEF LogInv

\* A part of a copy is not used in place of the log.
LEMMA CopyingKeepsLog == ASSUME LogInv, CopyFile PROVE LogInv'
<1>1. /\ At("copy") /\ keeper' \in {[keeper EXCEPT !.step = "truncate"], [keeper EXCEPT !.step = "idle"]}
      /\ keeper' = [keeper EXCEPT !.step = "truncate"] => backup' = LogFile
      /\ UNCHANGED <<logFiles, logName, temp, opened, written, risked, oldest, reader>>
  <2>1. CASE backup' = LogFile /\ StepIs("truncate")
    BY <2>1 DEF CopyFile, StepIs
  <2>2. CASE StepIs("idle")
    <3>1. [keeper EXCEPT !.step = "truncate"] # [keeper EXCEPT !.step = "idle"]
      <4>1. /\ [keeper EXCEPT !.step = "truncate"].step = "truncate"
            /\ [keeper EXCEPT !.step = "idle"].step = "idle"
        BY DEF LogInv, KeeperIsTyped
      <4>2. QED BY <4>1
    <3>2. QED BY <2>2, <3>1 DEF CopyFile, StepIs
  <2>3. QED BY <2>1, <2>2 DEF CopyFile
<1>2. LogFile' = LogFile /\ LinesIn(LogFile)' = LinesIn(LogFile)
  BY <1>1 DEF LogFile, LinesIn
<1>3. Covers(LinesIn(LogFile), oldest, written, risked)
  BY <1>1 DEF LogInv, KeeperFits
<1>4. FilesFit'
  BY <1>1 DEF LogInv, FilesFit
<1>5. KeeperIsTyped'
  BY <1>1 DEF LogInv, KeeperIsTyped
<1>6. KeeperFits'
  <2>1. CASE keeper' = [keeper EXCEPT !.step = "truncate"]
    <3>1. backup' = LogFile /\ LinesIn(backup)' = LinesIn(LogFile)
      BY <1>1, <2>1 DEF LinesIn
    <3>2. keeper'.step = "truncate"
      BY <2>1 DEF LogInv, KeeperIsTyped
    <3>3. QED BY <1>1, <1>3, <3>1, <3>2 DEF KeeperFits, At
  <2>2. CASE keeper' = [keeper EXCEPT !.step = "idle"]
    <3>1. keeper'.step = "idle"
      BY <2>2 DEF LogInv, KeeperIsTyped
    <3>2. QED BY <3>1 DEF KeeperFits, At
  <2>3. QED BY <1>1, <2>1, <2>2
<1>7. LinesFit'
  BY <1>1, <1>2, <1>3 DEF LogInv, LinesFit, Covers
<1>8. PagesFit'
  BY <1>1, <1>2 DEF LogInv, PagesFit, IsRead
<1>9. QED BY <1>4, <1>5, <1>6, <1>7, <1>8 DEF LogInv

\* A reader whose file was cut is promised nothing.
LEMMA UnsteadyPagesFit ==
    ASSUME LogInv, reader' = [reader EXCEPT !.steady = FALSE], Len(logFiles) \in Nat, Len(logFiles') \in Nat,
           Len(logFiles') >= Len(logFiles)
    PROVE  PagesFit'
<1>1. reader \in [text : Seq(Int), start : Nat, pos : Nat, file : 0..Len(logFiles), steady : BOOLEAN,
                  endless : BOOLEAN]
  BY DEF LogInv, PagesFit
<1>2. reader.file = NotOpen /\ reader.text = <<>> => reader.pos = 0
  BY DEF LogInv, PagesFit
<1>3. 0..Len(logFiles) \subseteq 0..Len(logFiles')
  OBVIOUS
<1>4. /\ reader'.text = reader.text /\ reader'.start = reader.start /\ reader'.pos = reader.pos
      /\ reader'.file = reader.file /\ reader'.steady = FALSE
  BY <1>1
<1>5. reader' \in [text : Seq(Int), start : Nat, pos : Nat, file : 0..Len(logFiles'), steady : BOOLEAN,
                   endless : BOOLEAN]
  BY <1>1, <1>3
<1>6. QED BY <1>2, <1>4, <1>5 DEF PagesFit

\* The log is emptied once all of it is in the backup.
LEMMA EmptyingKeepsLog == ASSUME LogInv, TruncateLog PROVE LogInv'
<1> PICK none : none = <<>>
  OBVIOUS
<1>1. /\ At("truncate") /\ logFiles' = [logFiles EXCEPT ![logName] = none] /\ keeper' = Waiting
      /\ reader' = [reader EXCEPT !.steady = FALSE]
      /\ UNCHANGED <<logName, backup, temp, opened, written, risked, oldest>>
  BY DEF TruncateLog
<1>2. /\ logFiles \in Seq(Seq(Nat)) /\ Len(logFiles) \in Nat /\ logName \in 1..Len(logFiles)
      /\ \A i \in 1..Len(logFiles) : FileFits(logFiles[i], written)
  BY DEF LogInv, FilesFit
<1>3. none \in Seq(Nat) /\ FileFits(none, written) /\ LinesIn(none) = {}
  BY EmptyFileFits
<1>4. /\ logFiles' \in Seq(Seq(Nat)) /\ Len(logFiles') = Len(logFiles)
      /\ \A i \in 1..Len(logFiles) : logFiles'[i] = IF i = logName THEN none ELSE logFiles[i]
  <2>1. Len(logFiles') = Len(logFiles) /\ logFiles' \in Seq(Seq(Nat))
    BY <1>1, <1>2, <1>3
  <2>2. \A i \in 1..Len(logFiles) : logFiles'[i] = IF i = logName THEN none ELSE logFiles[i]
    BY <1>1, <1>2
  <2>3. QED BY <2>1, <2>2
<1>5. LogFile' = none /\ LinesIn(LogFile)' = {}
  <2>1. LogFile' = none
    BY <1>1, <1>2, <1>4 DEF LogFile
  <2>2. LinesIn(LogFile)' = LinesIn(none)
    BY <2>1 DEF LinesIn
  <2>3. QED BY <1>3, <2>1, <2>2
<1>6. LinesIn(backup)' = LinesIn(backup) /\ Covers(LinesIn(backup), oldest, written, risked)
  BY <1>1 DEF LogInv, KeeperFits, LinesIn
<1>7. FilesFit'
  <2>1. \A i \in 1..Len(logFiles) : FileFits(logFiles'[i], written)
    BY <1>2, <1>3, <1>4
  <2>2. QED BY <1>1, <1>2, <1>4, <2>1 DEF LogInv, FilesFit
<1>8. KeeperIsTyped' /\ KeeperFits'
  BY <1>1 DEF KeeperIsTyped, KeeperFits, Waiting, At
<1>9. LinesFit'
  BY <1>1, <1>5, <1>6 DEF LinesFit, Covers, Upward
<1>10. PagesFit'
  BY <1>1, <1>2, <1>4, UnsteadyPagesFit
<1>11. QED BY <1>7, <1>8, <1>9, <1>10 DEF LogInv

\* Where to cut follows from a size that can only grow until the rest is written.
LEMMA CuttingKeepsLog == ASSUME LogInv, TruncateFile PROVE LogInv'
<1>1. /\ Len(LogFile) > MaxBytes
      /\ keeper' = [step |-> "write", from |-> Len(LogFile) - Kept, file |-> logName]
      /\ UNCHANGED <<logFiles, logName, backup, temp, opened, written, risked, oldest, reader>>
  BY DEF TruncateFile
<1>2. LogFile' = LogFile /\ LinesIn(LogFile)' = LinesIn(LogFile) /\ LinesIn(backup)' = LinesIn(backup)
  BY <1>1 DEF LogFile, LinesIn
<1>3. FilesFit' /\ LinesFit' /\ PagesFit'
  BY <1>1, <1>2 DEF LogInv, FilesFit, LinesFit, PagesFit, IsRead
<1>4. Len(LogFile) \in Nat /\ logName \in Nat
  BY LogFileIsTyped DEF LogInv
<1>5. PICK from \in Nat : from = Len(LogFile) - Kept /\ from + Kept <= Len(LogFile)
  BY <1>1, <1>4, LogBounds
<1>6. KeeperIsTyped'
  BY <1>1, <1>4, <1>5 DEF KeeperIsTyped
<1>7. KeeperFits'
  BY <1>1, <1>2, <1>5 DEF KeeperFits, At
<1>8. QED BY <1>3, <1>6, <1>7 DEF LogInv

\* What is written is the end of the log, with all the lines since the first in it.
LEMMA WritingKeepsLog == ASSUME LogInv, WriteTemp PROVE LogInv'
<1>1. /\ At("write") /\ UNCHANGED <<logFiles, logName, backup, opened, written, risked, oldest, reader>>
  BY DEF WriteTemp
<1>2. LogFile' = LogFile /\ LinesIn(LogFile)' = LinesIn(LogFile) /\ LinesIn(backup)' = LinesIn(backup)
  BY <1>1 DEF LogFile, LinesIn
<1>3. FilesFit' /\ LinesFit' /\ PagesFit'
  BY <1>1, <1>2 DEF LogInv, FilesFit, LinesFit, PagesFit, IsRead
<1>4. keeper.file = logName /\ keeper.from \in Nat /\ keeper.from + Kept <= Len(LogFile)
  BY <1>1 DEF LogInv, KeeperFits, KeeperIsTyped
<1>5. CASE temp' = <<>> /\ keeper' = Waiting
  <2>1. KeeperIsTyped' /\ KeeperFits'
    BY <1>5 DEF KeeperIsTyped, KeeperFits, Waiting, At
  <2>2. QED BY <1>3, <2>1 DEF LogInv
<1>6. CASE temp' = SubSeq(LogFile, keeper.from + 1, Len(LogFile)) /\ StepIs("rename")
  <2> PICK cut : cut = SubSeq(LogFile, keeper.from + 1, Len(LogFile))
    OBVIOUS
  <2> PICK from \in Nat : from = keeper.from
    BY <1>4
  <2>1. FileFits(LogFile, written) /\ written \in 0..MaxLines
    BY LogFileIsTyped DEF LogInv, FilesFit
  <2>2. /\ FileFits(cut, written) /\ LinesIn(cut) \subseteq LinesIn(LogFile) /\ LinesIn(cut) # {}
        /\ \A n \in LinesIn(cut) : \A k \in LinesIn(LogFile) : k >= n => k \in LinesIn(cut)
    <3>1. from + Kept <= Len(LogFile) /\ cut = SubSeq(LogFile, from + 1, Len(LogFile))
      BY <1>4
    <3>2. QED BY <2>1, <3>1, FileIsCut
  <2>3. LinesIn(LogFile) \subseteq Nat /\ written \in Nat
    BY LogFileIsTyped DEF LogInv
  <2>4. Upward(LinesIn(cut), written, risked)
    <3> SUFFICES ASSUME NEW n \in LinesIn(cut), NEW k \in n..written PROVE k \in LinesIn(cut) \cup risked
      BY DEF Upward
    <3>1. n \in LinesIn(LogFile) /\ n \in Nat /\ k >= n
      BY <2>2, <2>3
    <3>2. k \in LinesIn(LogFile) \cup risked
      BY <3>1 DEF LogInv, LinesFit, Upward
    <3>3. QED BY <2>2, <3>1, <3>2
  <2>5. temp' = cut /\ LinesIn(temp)' = LinesIn(cut)
    BY <1>6 DEF LinesIn
  <2>6. KeeperIsTyped' /\ keeper'.step = "rename"
    BY <1>6 DEF StepIs, LogInv, KeeperIsTyped
  <2>7. KeeperFits'
    BY <1>1, <2>2, <2>4, <2>5, <2>6 DEF KeeperFits, At
  <2>8. QED BY <1>3, <2>6, <2>7 DEF LogInv
<1>7. \/ temp' = SubSeq(LogFile, keeper.from + 1, Len(LogFile)) /\ StepIs("rename")
      \/ temp' = <<>> /\ keeper' = Waiting
  <2>1. logFiles[keeper.file] = LogFile
    BY <1>4 DEF LogFile
  <2>2. QED BY <2>1 DEF WriteTemp
<1>8. QED BY <1>5, <1>6, <1>7

\* The rest gets the log's name; what it does not have is older than its first line.
LEMMA RenamingKeepsLog == ASSUME LogInv, RenameTemp PROVE LogInv'
<1>1. /\ At("rename") /\ logFiles' = Append(logFiles, temp) /\ logName' = Len(logFiles) + 1
      /\ oldest' = CHOOSE n \in LinesIn(temp) : \A m \in LinesIn(temp) : n <= m
      /\ keeper' = Waiting /\ reader' = [reader EXCEPT !.steady = FALSE]
      /\ UNCHANGED <<backup, opened, written, risked>>
  BY DEF RenameTemp
<1>2. /\ logFiles \in Seq(Seq(Nat)) /\ Len(logFiles) \in Nat
      /\ \A i \in 1..Len(logFiles) : FileFits(logFiles[i], written)
      /\ opened \in [Appenders -> 0..Len(logFiles)]
  BY DEF LogInv, FilesFit
<1>3. FileFits(temp, written) /\ LinesIn(temp) # {} /\ Upward(LinesIn(temp), written, risked)
      /\ written \in 0..MaxLines
  BY <1>1 DEF LogInv, KeeperFits, FilesFit
<1>4. temp \in Seq(Nat) /\ LinesIn(temp) \in SUBSET Nat
  BY <1>3, FileIsTyped
<1>5. oldest' \in LinesIn(temp) /\ oldest' \in Nat
  BY <1>1, <1>3, <1>4, SmallestLine
<1>6. /\ logFiles' \in Seq(Seq(Nat)) /\ Len(logFiles') = Len(logFiles) + 1
      /\ logFiles'[Len(logFiles) + 1] = temp
      /\ \A i \in 1..Len(logFiles) : logFiles'[i] = logFiles[i]
  BY <1>1, <1>2, <1>4, AppendProperties
<1>7. LogFile' = temp /\ LinesIn(LogFile)' = LinesIn(temp)
  BY <1>1, <1>6 DEF LogFile, LinesIn
<1>8. FilesFit'
  <2>1. \A i \in 1..(Len(logFiles) + 1) : i = Len(logFiles) + 1 \/ i \in 1..Len(logFiles)
    BY <1>2
  <2>2. \A i \in 1..(Len(logFiles) + 1) : FileFits(logFiles'[i], written)
    BY <1>2, <1>3, <1>6, <2>1
  <2>3. logName' \in 1..(Len(logFiles) + 1) /\ 0..Len(logFiles) \subseteq 0..(Len(logFiles) + 1)
    BY <1>1, <1>2
  <2>4. QED BY <1>1, <1>2, <1>3, <1>5, <1>6, <2>2, <2>3 DEF FilesFit
<1>9. KeeperIsTyped' /\ KeeperFits'
  BY <1>1 DEF KeeperIsTyped, KeeperFits, Waiting, At
<1>10. LinesFit'
  <2>1. Covers(LinesIn(temp), oldest', written, risked)
    BY <1>3, <1>5 DEF Upward, Covers
  <2>2. QED BY <1>1, <1>3, <1>7, <2>1 DEF LinesFit, Covers
<1>11. PagesFit'
  BY <1>1, <1>2, <1>6, UnsteadyPagesFit
<1>12. QED BY <1>8, <1>9, <1>10, <1>11 DEF LogInv

\* A crash loses the keeper's step and the file it had not renamed, nothing else.
LEMMA CrashKeepsLog == ASSUME LogInv, LogCrash PROVE LogInv'
<1>1. /\ keeper' = Waiting /\ opened' = [u \in Appenders |-> NotOpen] /\ reader' = NotReading
      /\ UNCHANGED <<logFiles, logName, backup, written, risked, oldest>>
  BY DEF LogCrash
<1>2. LogFile' = LogFile /\ LinesIn(LogFile)' = LinesIn(LogFile) /\ LinesIn(backup)' = LinesIn(backup)
  BY <1>1 DEF LogFile, LinesIn
<1>3. FilesFit'
  <2>1. opened' \in [Appenders -> 0..Len(logFiles)]
    BY <1>1, LogBounds DEF LogInv, FilesFit
  <2>2. QED BY <1>1, <2>1 DEF LogInv, FilesFit
<1>4. KeeperIsTyped' /\ KeeperFits'
  BY <1>1 DEF KeeperIsTyped, KeeperFits, Waiting, At
<1>5. LinesFit'
  BY <1>1, <1>2 DEF LogInv, LinesFit
<1>6. PagesFit'
  <2>1. Len(logFiles) \in Nat
    BY DEF LogInv, FilesFit
  <2>2. QED BY <1>1, <2>1, LogBounds DEF PagesFit, NotReading
<1>7. QED BY <1>3, <1>4, <1>5, <1>6 DEF LogInv

\* What only a reader changes leaves the files and the keeper as they fit.
LEMMA OnlyPagesChange ==
    ASSUME LogInv, UNCHANGED <<logFiles, logName, backup, temp, keeper, opened, written, risked, oldest>>,
           PagesFit'
    PROVE  LogInv'
<1>1. LogFile' = LogFile /\ LinesIn(LogFile)' = LinesIn(LogFile)
      /\ LinesIn(backup)' = LinesIn(backup) /\ LinesIn(temp)' = LinesIn(temp)
  BY DEF LogFile, LinesIn
<1>2. FilesFit' /\ KeeperIsTyped' /\ KeeperFits' /\ LinesFit'
  BY <1>1 DEF LogInv, FilesFit, KeeperIsTyped, KeeperFits, LinesFit, At
<1>3. QED BY <1>2 DEF LogInv

\* A page starts at the end of the file, or goes on where the line before it was read.
LEMMA OpenedPagesFit == ASSUME LogInv, OpenToRead PROVE LogInv'
<1> PICK end : end = IF reader.pos = 0 THEN Len(LogFile) ELSE reader.pos
  OBVIOUS
<1>1. /\ reader.file = NotOpen /\ (reader.pos # 0 \/ reader.text = <<>>)
      /\ reader' = [reader EXCEPT !.file = logName, !.pos = end,
                                  !.start = IF reader.text = <<>> THEN end ELSE @,
                                  !.steady = @ \/ reader.text = <<>>]
      /\ UNCHANGED <<logFiles, logName, backup, temp, keeper, opened, written, risked, oldest>>
  BY DEF OpenToRead
<1>2. LogFile \in Seq(Nat) /\ Len(LogFile) \in Nat /\ logName # NotOpen
      /\ logName \in 1..Len(logFiles) /\ Len(logFiles) \in Nat
  BY LogFileIsTyped DEF LogInv, FilesFit
<1>3. /\ reader \in [text : Seq(Int), start : Nat, pos : Nat, file : 0..Len(logFiles), steady : BOOLEAN,
                     endless : BOOLEAN]
      /\ reader.text = <<>> => reader.pos = 0
      /\ reader.steady /\ reader.text # <<>> => IsRead(LogFile)
  BY <1>1 DEF LogInv, PagesFit
<1>4. LogFile' = LogFile
  BY <1>1 DEF LogFile
<1>5. CASE reader.text = <<>>
  <2> PICK size \in Nat : size = Len(LogFile)
    BY <1>2
  <2>1. reader' = [reader EXCEPT !.file = logName, !.pos = size, !.start = size, !.steady = TRUE]
    BY <1>1, <1>3, <1>5
  <2>2. Text(LogFile, size, size) = <<>>
    BY <1>2, TextIsEmpty
  <2>3. reader' \in [text : Seq(Int), start : Nat, pos : Nat, file : 0..Len(logFiles), steady : BOOLEAN,
                     endless : BOOLEAN]
    <3> PICK named \in 0..Len(logFiles) : named = logName
      BY <1>2
    <3>1. reader' = [reader EXCEPT !.file = named, !.pos = size, !.start = size, !.steady = TRUE]
      BY <2>1
    <3>2. named \in 0..Len(logFiles) /\ size \in Nat
      OBVIOUS
    <3>3. QED BY ONLY <1>3, <3>1, <3>2
  <2>4. reader'.pos = size /\ reader'.start = size /\ reader'.text = <<>> /\ reader'.file = logName
    BY <1>3, <1>5, <2>1
  <2>5. IsRead(LogFile)'
    BY <1>4, <2>2, <2>4 DEF IsRead
  <2>6. PagesFit'
    BY <1>1, <1>2, <2>3, <2>4, <2>5 DEF PagesFit
  <2>7. QED BY <1>1, <2>6, OnlyPagesChange
<1>6. CASE reader.text # <<>>
  <2>1. reader' = [reader EXCEPT !.file = logName]
    BY <1>1, <1>3, <1>6
  <2> PICK named \in 0..Len(logFiles) : named = logName
    BY <1>2
  <2>2. reader' \in [text : Seq(Int), start : Nat, pos : Nat, file : 0..Len(logFiles), steady : BOOLEAN,
                     endless : BOOLEAN]
    <3>1. reader' = [reader EXCEPT !.file = named]
      BY <2>1
    <3>2. named \in 0..Len(logFiles)
      OBVIOUS
    <3>3. QED BY ONLY <1>3, <3>1, <3>2
  <2>3. /\ reader'.pos = reader.pos /\ reader'.start = reader.start /\ reader'.text = reader.text
        /\ reader'.file = logName /\ reader'.steady = reader.steady
    BY <1>3, <2>1
  <2>4. IsRead(LogFile)' <=> IsRead(LogFile)
    BY <1>4, <2>3 DEF IsRead
  <2>5. PagesFit'
    BY <1>1, <1>2, <1>3, <1>6, <2>2, <2>3, <2>4 DEF PagesFit
  <2>6. QED BY <1>1, <2>5, OnlyPagesChange
<1>7. QED BY <1>5, <1>6

\* A line is read that is the text before the position, and nothing of the text is left out.
LEMMA ReadPagesFit == ASSUME LogInv, ReadLine PROVE LogInv'
<1> PICK bytes : bytes = logFiles[reader.file]
  OBVIOUS
<1> PICK read : read = ReadLastLine(bytes, reader.pos)
  OBVIOUS
<1>1. /\ reader.file # NotOpen
      /\ reader' = IF read.endless THEN [reader EXCEPT !.endless = TRUE]
                   ELSE [reader EXCEPT !.text = read.line \o @, !.pos = read.newpos, !.file = NotOpen]
      /\ UNCHANGED <<logFiles, logName, backup, temp, keeper, opened, written, risked, oldest>>
  BY DEF ReadLine
<1>2. /\ reader \in [text : Seq(Int), start : Nat, pos : Nat, file : 0..Len(logFiles), steady : BOOLEAN,
                     endless : BOOLEAN]
      /\ reader.steady => IsRead(LogFile) /\ reader.file = logName
  BY <1>1 DEF LogInv, PagesFit
<1>3. LogFile' = LogFile /\ logFiles \in Seq(Seq(Nat)) /\ Len(logFiles) \in Nat
  BY <1>1 DEF LogFile, LogInv, FilesFit
<1>4. bytes \in Seq(Nat) /\ (reader.steady => bytes = LogFile)
  <2>1. reader.file \in 1..Len(logFiles)
    BY <1>1, <1>2, <1>3, LogBounds
  <2>2. QED BY <1>2, <1>3, <2>1 DEF LogFile
<1>5. CASE read.endless
  <2>1. reader' = [reader EXCEPT !.endless = TRUE]
    BY <1>1, <1>5
  <2>2. reader' \in [text : Seq(Int), start : Nat, pos : Nat, file : 0..Len(logFiles), steady : BOOLEAN,
                     endless : BOOLEAN]
    BY <1>2, <2>1
  <2>3. /\ reader'.pos = reader.pos /\ reader'.start = reader.start /\ reader'.text = reader.text
        /\ reader'.file = reader.file /\ reader'.steady = reader.steady
    BY <1>2, <2>1
  <2>4. IsRead(LogFile)' <=> IsRead(LogFile)
    BY <1>3, <2>3 DEF IsRead
  <2>5. PagesFit'
    BY <1>1, <1>2, <2>2, <2>3, <2>4 DEF PagesFit
  <2>6. QED BY <1>1, <2>5, OnlyPagesChange
<1>6. CASE ~read.endless
  <2> PICK end \in Nat : end = reader.pos
    BY <1>2
  <2>1. /\ read.line \in Seq(Int) /\ read.line # <<>> /\ read.newpos \in 0..end
        /\ end <= Len(bytes) => \A to \in end..Len(bytes) :
              Text(bytes, read.newpos, to) = read.line \o Text(bytes, end, to)
    <3>1. bytes \in Seq(Nat)
      BY <1>4
    <3>2. QED BY ONLY <1>6, <3>1, LastLineIsRead, end \in Nat, end = reader.pos, read = ReadLastLine(bytes, reader.pos)
  <2> PICK line \in Seq(Int) : line = read.line /\ line # <<>>
    BY <2>1
  <2> PICK newpos \in 0..end : newpos = read.newpos
    BY <2>1
  <2>2. reader' = [reader EXCEPT !.text = line \o @, !.pos = newpos, !.file = NotOpen]
    BY <1>1, <1>6
  <2>3. line \o reader.text \in Seq(Int) /\ line \o reader.text # <<>>
    <3>1. PICK old \in Seq(Int) : old = reader.text
      BY <1>2
    <3>2. line \o old \in Seq(Int) /\ Len(line \o old) = Len(line) + Len(old) /\ Len(line) \in Nat /\ Len(line) # 0
      BY EmptySeq, ConcatProperties
    <3>3. QED BY <3>1, <3>2
  <2>4. reader' \in [text : Seq(Int), start : Nat, pos : Nat, file : 0..Len(logFiles), steady : BOOLEAN,
                     endless : BOOLEAN]
    <3> PICK text \in Seq(Int) : text = line \o reader.text
      BY <2>3
    <3>1. reader' = [reader EXCEPT !.text = text, !.pos = newpos, !.file = 0]
      BY <2>2, LogBounds
    <3>2. newpos \in Nat /\ text \in Seq(Int) /\ 0 \in 0..Len(logFiles)
      <4>1. Len(logFiles) \in Nat
        BY <1>3
      <4>2. QED BY <4>1
    <3>3. QED BY ONLY <1>2, <3>1, <3>2
  <2>5. /\ reader'.pos = newpos /\ reader'.start = reader.start /\ reader'.text = line \o reader.text
        /\ reader'.file = NotOpen /\ reader'.steady = reader.steady
    BY <1>2, <2>2
  <2>6. ASSUME reader.steady PROVE IsRead(LogFile)'
    <3>1. bytes = LogFile /\ end <= reader.start /\ reader.start <= Len(bytes)
          /\ reader.text = Text(bytes, end, reader.start) /\ reader.start \in Nat /\ Len(bytes) \in Nat
      BY <1>2, <1>4, <2>6 DEF IsRead
    <3>2. reader.start \in end..Len(bytes) /\ newpos <= reader.start
      BY <3>1
    <3>3. Text(bytes, newpos, reader.start) = line \o Text(bytes, end, reader.start)
      <4>1. end <= Len(bytes)
        BY <3>1
      <4>2. Text(bytes, read.newpos, reader.start) = read.line \o Text(bytes, end, reader.start)
        BY <2>1, <3>2, <4>1
      <4>3. QED BY <4>2
    <3>4. QED BY <1>3, <2>5, <3>1, <3>2, <3>3 DEF IsRead
  <2>7. PagesFit'
    BY <1>1, <2>3, <2>4, <2>5, <2>6 DEF PagesFit
  <2>8. QED BY <1>1, <2>7, OnlyPagesChange
<1>7. QED BY <1>5, <1>6

\* Every step of the log keeps the invariant.
LEMMA LogInvStep == LogInv /\ [LogNext]_logVars => LogInv'
<1> SUFFICES ASSUME LogInv, [LogNext]_logVars PROVE LogInv'
  OBVIOUS
<1>1. CASE UNCHANGED logVars
  <2>1. PagesFit'
    BY <1>1 DEF LogInv, PagesFit, IsRead, LogFile, logVars
  <2>2. QED BY <1>1, <2>1, OnlyPagesChange DEF logVars
<1>2. ASSUME NEW u \in Appenders, OpenToAppend(u) \/ AppendToFile(u) PROVE LogInv'
  BY <1>2, OpeningKeepsLog, AppendKeepsLog
<1>3. CASE RemoveOldBackup \/ CopyFile \/ TruncateLog
  BY <1>3, RemovingKeepsLog, CopyingKeepsLog, EmptyingKeepsLog
<1>4. CASE TruncateFile \/ WriteTemp \/ RenameTemp \/ LogCrash
  BY <1>4, CuttingKeepsLog, WritingKeepsLog, RenamingKeepsLog, CrashKeepsLog
<1>5. CASE OpenToRead \/ ReadLine
  BY <1>5, OpenedPagesFit, ReadPagesFit
<1>6. QED BY <1>1, <1>2, <1>3, <1>4, <1>5 DEF LogNext
===============================================================================
