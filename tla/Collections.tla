----------------------------- MODULE Collections -----------------------------
(***************************************************************************)
(* zslices, zmap, the sets of zint and zmath's combinations, division     *)
(* points and trees: slices are sequences (indexes from 1, and 0 for Go's  *)
(* -1), maps are functions.  An operation on a slice pointer gives the new *)
(* slice, with the count it returns where it has one.                      *)
(***************************************************************************)
EXTENDS Integers, FiniteSets, SequencesExt

IsIn(e, s) == \E i \in DOMAIN s : s[i] = e
\* A function that is given to choose elements is the set of those it chooses, one that compares two is
\* the set of the pairs of which it is true.
First(s, chosen) == IF \E i \in DOMAIN s : s[i] \in chosen THEN Min({i \in DOMAIN s : s[i] \in chosen}) ELSE 0
IndexIn(e, s) == First(s, {e})

\* Removing: by place, the first that is one of dels, all that are, all that match.
RemoveAtIndex(s, i) == IF i \in DOMAIN s THEN SubSeq(s, 1, i - 1) \o SubSeq(s, i + 1, Len(s)) ELSE s
Delete(s, dels) ==
    LET i == First(s, ToSet(dels))
    IN  [slice |-> RemoveAtIndex(s, i), count |-> IF i = 0 THEN 0 ELSE 1]
Deleted(s, dels) == SelectSeq(s, LAMBDA x : ~IsIn(x, dels))
RemoveFromFunc(s, del) ==
    LET kept == SelectSeq(s, LAMBDA x : x \notin del) IN [slice |-> kept, count |-> Len(s) - Len(kept)]
RemoveFromSliceFunc(s, dels, equal) ==
    RemoveFromFunc(s, {x \in ToSet(s) : \E i \in DOMAIN dels : <<x, dels[i]>> \in equal})
RemoveFromSet64(n, set) == RemoveAtIndex(set, IndexIn(n, set))
FilteredFunc(s, keep) == SelectSeq(s, LAMBDA x : x \in keep)
SplitWithFunc(s, match) == <<FilteredFunc(s, match), FilteredFunc(s, ToSet(s) \ match)>>

\* Adding: what is not there yet, at most once, or in the place of its equal.
AddOne(s, a, equal) == IF \E i \in DOMAIN s : <<a, s[i]>> \in equal THEN s ELSE Append(s, a)
AddToSetFunc(s, adds, equal) ==
    LET all == FoldLeft(LAMBDA t, a : AddOne(t, a, equal), s, adds) IN [slice |-> all, count |-> Len(all) - Len(s)]
AddToSet(s, adds) == AddToSetFunc(s, adds, {<<x, x>> : x \in ToSet(s) \cup ToSet(adds)})
UnionOf(a, b) == AddToSet(a, b).slice
AddOrReplaceFunc(s, add, equal) ==
    LET i == First(s, {x \in ToSet(s) : <<add, x>> \in equal}) IN IF i = 0 THEN Append(s, add) ELSE [s EXCEPT ![i] = add]
InsertSortedFunc(s, insert, less) ==
    LET i == First(s, {x \in ToSet(s) : <<x, insert>> \in less})
    IN  IF i = 0 THEN Append(s, insert) ELSE SubSeq(s, 1, i - 1) \o <<insert>> \o SubSeq(s, i, Len(s))
Pop(s) == <<s[Len(s)], SubSeq(s, 1, Len(s) - 1)>>

\* Both sides: what is in only one of them, what sub has and a has not, whether they meet.
Exclusion(a, b) ==
    LET Cancel(state, e) == IF IsIn(e, state.left) THEN [state EXCEPT !.left = RemoveAtIndex(@, IndexIn(e, @))]
                            ELSE [state EXCEPT !.only = Append(@, e)]
        end == FoldLeft(Cancel, [left |-> a, only |-> <<>>], b)
    IN  end.only \o end.left
SubtractedFunc(a, sub, equal) == SelectSeq(sub, LAMBDA x : ~\E i \in DOMAIN a : <<a[i], x>> \in equal)
SubtractedSets64(set, subtract) == SelectSeq(set, LAMBDA n : ~IsIn(n, subtract))
Intersection64(a, b) == SelectSeq(a, LAMBDA n : IsIn(n, b))
SetsOverlap(a, b) == \E i \in DOMAIN b : IsIn(b[i], a)

\* The element at from is moved to to, at the last place at most.
MoveElement(s, from, to) ==
    LET last == Len(s)
        goal == IF to > from THEN Min({to, last}) ELSE to
    IN  IF from = to THEN s
        ELSE [i \in DOMAIN s |->
                 IF i = goal THEN s[from]
                 ELSE IF to > from /\ from <= i /\ i < goal THEN s[i + 1]
                 ELSE IF to < from /\ goal < i /\ i <= from THEN s[i - 1]
                 ELSE s[i]]

\* Keys by falling value; keys of one value come in any order.
SortedValuesFunc(m, less) ==
    {keys \in {k \in [1..Cardinality(DOMAIN m) -> DOMAIN m] : IsInjective(k)} :
        \A i, j \in DOMAIN keys : <<m[keys[i]], m[keys[j]]>> \in less => i < j}
Counts(s) == [e \in ToSet(s) |-> Cardinality({i \in DOMAIN s : s[i] = e})]
SortByFrequency(s) == SortedValuesFunc(Counts(s), {p \in (1..Len(s)) \X (1..Len(s)) : p[1] > p[2]})
-----------------------------------------------------------------------------
\* A map of maps: a tree is a leaf's value, or a function from names to trees.
Leaf(v) == [leaf |-> TRUE, value |-> v]
Node(f) == [leaf |-> FALSE, names |-> f]
NotFound == Leaf(-1)  \* the error; no map holds this value

\* The trees that the parts of a path lead through, down from one.
GetValueInRecursiveMap(tree, path) ==
    LET Down(t, part) == IF t = NotFound \/ t.leaf \/ part \notin DOMAIN t.names THEN NotFound ELSE t.names[part]
    IN  FoldLeft(Down, tree, path)

\* A part on the way that is missing, or no map, is replaced by an empty one.
SetValueInRecursiveMap(tree, path, value) ==
    LET Below(n) == LET t == GetValueInRecursiveMap(tree, SubSeq(path, 1, n))
                    IN  IF t.leaf THEN [x \in {} |-> NotFound] ELSE t.names
        Up(t, n) == Node((path[n] :> t) @@ Below(n - 1))
    IN  FoldLeft(Up, value, [i \in DOMAIN path |-> Len(path) + 1 - i])
-----------------------------------------------------------------------------
\* Mutant: the sets before the one that goes on do not start over.
GetNextOfSliceCombinationsKept(sets, current) ==
    LET at == [i \in DOMAIN sets |-> IndexIn(current[i], sets[i])]
        open == {i \in DOMAIN sets : at[i] < Len(sets[i])}
    IN  [i \in DOMAIN sets |-> IF open # {} /\ i = Min(open) THEN sets[i][at[i] + 1] ELSE current[i]]

\* The next combination of one value of each set: the first set that has a next value
\* takes it, and those before it start over; after the last all start over.
GetNextOfSliceCombinations(sets, current) ==
    LET at == [i \in DOMAIN sets |-> IndexIn(current[i], sets[i])]
        open == {i \in DOMAIN sets : at[i] < Len(sets[i])}
        turn == IF open = {} THEN Len(sets) ELSE Min(open)
    IN  [i \in DOMAIN sets |->
            IF i > turn THEN current[i] ELSE IF i < turn \/ open = {} THEN sets[i][1] ELSE sets[i][at[i] + 1]]

\* The points that split a length in parts of a growing number, then all others.
LengthIntoDividePoints(len) ==
    LET parts == SelectSeq(<<2, 4, 16, 256>>, LAMBDA n : n < len \div 2)
        points == FlattenSeq([k \in DOMAIN parts |-> [i \in 1..(parts[k] - 1) |-> ((len - 1) * i) \div parts[k]]])
    IN  UnionOf(UnionOf(<<>>, points), [x \in 1..len |-> x - 1])
-----------------------------------------------------------------------------
\* What the operations promise.
CountOf(e, s) == Cardinality({i \in DOMAIN s : s[i] = e})
SameElements(s, t) == \A e \in ToSet(s) \cup ToSet(t) : CountOf(e, s) = CountOf(e, t)

\* Sets kept as slices behave as sets, and bags as bags; counts are what was changed.
SlicesAreSets(a, b) ==
    LET same == {<<x, x>> : x \in ToSet(a) \cup ToSet(b)}
        both == UnionOf(a, b)
    IN  /\ ToSet(both) = ToSet(a) \cup ToSet(b)
        /\ IsInjective(a) => IsInjective(both)
        /\ AddToSet(a, b).count = Cardinality(ToSet(b) \ ToSet(a))
        /\ AddToSet(both, b) = [slice |-> both, count |-> 0]
        /\ ToSet(Deleted(a, b)) = ToSet(a) \ ToSet(b) /\ Deleted(a, b) = SubtractedSets64(a, b)
        /\ RemoveFromSliceFunc(a, b, same).slice = Deleted(a, b)
        /\ SameElements(SubtractedFunc(b, a, same) \o Intersection64(a, b), a)
        /\ SetsOverlap(a, b) <=> Len(Intersection64(a, b)) > 0
        /\ \A e \in ToSet(a) \cup ToSet(b) :
              CountOf(e, Exclusion(a, b)) = Max({CountOf(e, a) - CountOf(e, b), CountOf(e, b) - CountOf(e, a)})
        /\ Len(Delete(a, b).slice) + Delete(a, b).count = Len(a)
        /\ Len(b) > 0 => SameElements(RemoveFromSet64(b[1], Append(a, b[1])), a)
\* What stays keeps its order; what is moved, inserted or popped goes where it should.
OrderIsKept(s, from, to, e) ==
    LET moved == MoveElement(s, from, to)
        below == {x \in ToSet(s) : x < e}
        sorted == InsertSortedFunc(SortSeq(s, LAMBDA x, y : x > y), e, below \X {e})
        split == SplitWithFunc(s, below)
        replaced == AddOrReplaceFunc(s, e, {<<e, e>>})
    IN  /\ RemoveAtIndex(moved, to) = RemoveAtIndex(s, from) /\ moved[to] = s[from]
        /\ MoveElement(moved, to, from) = s
        /\ MoveElement(s, from, Len(s) + 2) = MoveElement(s, from, Len(s))
        /\ SameElements(sorted, Append(s, e)) /\ \A i \in 1..(Len(s)) : sorted[i] >= sorted[i + 1]
        /\ SameElements(split[1] \o split[2], s) /\ FilteredFunc(s, below) = split[1]
        /\ RemoveFromFunc(s, below).slice = split[2]
        /\ Append(Pop(s)[2], Pop(s)[1]) = s
        /\ (replaced = s /\ IsIn(e, s)) \/ replaced = Append(s, e)
\* The most frequent comes first, and nothing is left out.
FrequencySorts(s) ==
    /\ SortByFrequency(s) # {}
    /\ \A keys \in SortByFrequency(s) :
          ToSet(keys) = ToSet(s) /\ \A i \in 1..(Len(keys) - 1) : CountOf(keys[i], s) >= CountOf(keys[i + 1], s)
\* What is set in a map of maps is found there; what lies elsewhere is as it was.
RecursiveMapKeeps(tree, path, value, other) ==
    LET set == SetValueInRecursiveMap(tree, path, value)
    IN  /\ GetValueInRecursiveMap(set, path) = value
        /\ ~IsPrefix(path, other) /\ ~IsPrefix(other, path)
              => GetValueInRecursiveMap(set, other) = GetValueInRecursiveMap(tree, other)
        /\ SetValueInRecursiveMap(set, path, value) = set
\* Stepping through the combinations meets each one and ends where it began.
CombinationsCycle(sets) ==
    LET start == [i \in DOMAIN sets |-> sets[i][1]]
        all == {c \in [DOMAIN sets -> UNION {ToSet(sets[i]) : i \in DOMAIN sets}] :
                   \A i \in DOMAIN sets : IsIn(c[i], sets[i])}
        Step(seen, n) == Append(seen, GetNextOfSliceCombinations(sets, seen[Len(seen)]))
        walk == FoldLeft(Step, <<start>>, [n \in 1..Cardinality(all) |-> n])
    IN  ToSet(walk) = all /\ walk[Len(walk)] = start
\* Every point is met once, and one half of the length is met first.
DividePointsCover(len) ==
    LET points == LengthIntoDividePoints(len)
    IN  IsInjective(points) /\ ToSet(points) = 0..(len - 1) /\ (len >= 6 => points[1] = (len - 1) \div 2)
-----------------------------------------------------------------------------
(* zmath/zmath_tree.go: rows that name their parents are put in the order of a tree, each *)
(* with its level.                                                                          *)

\* Rows of a tree: each has an id and the id of its parent, which is "" at the top.
\* addTree takes the rows of a parent out of rows, each followed by those below it, over and
\* over until none is left.
RECURSIVE addTree(_, _, _), TakeRows(_, _, _, _, _)
addTree(parent, rows, level) ==
    LET round == TakeRows(parent, rows, level, 1, <<>>)
    IN  IF Len(round.out) = 0 THEN round
        ELSE LET more == addTree(parent, round.rows, level)
             IN  [out |-> round.out \o more.out, rows |-> more.rows]
TakeRows(parent, rows, level, i, out) ==
    IF i > Len(rows) THEN [out |-> out, rows |-> rows]
    ELSE IF rows[i].parent # parent \/ (parent = "" /\ level # 0) THEN TakeRows(parent, rows, level, i + 1, out)
    ELSE LET below == addTree(rows[i].id, RemoveAtIndex(rows, i), level + 1)
             ids == {below.out[k].row.id : k \in DOMAIN below.out}
         IN  TakeRows(parent, SelectSeq(below.rows, LAMBDA r : r.id \notin ids), level, i,
                      out \o <<[level |-> level, row |-> rows[i]]>> \o below.out)
MakeTree(rows) ==
    LET tree == addTree("", rows, 0)
    IN  tree.out \o [i \in DOMAIN tree.rows |-> [level |-> 0, row |-> tree.rows[i]]]
-----------------------------------------------------------------------------
\* A tree has each row once, a child below its parent with only rows below that between, and
\* the rows that no top row leads to at its end.
TreeIsOrdered(rows) ==
    LET tree == MakeTree(rows)
        orphans == {i \in DOMAIN tree : tree[i].level = 0 /\ tree[i].row.parent # ""}
        IsAbove(j, i) == tree[j].row.id = tree[i].row.parent
    IN  /\ SameElements([i \in DOMAIN tree |-> tree[i].row], rows)
        /\ \A i \in DOMAIN tree : tree[i].level > 0
              => \E j \in 1..(i - 1) : /\ IsAbove(j, i) /\ tree[j].level = tree[i].level - 1
                                      /\ \A k \in (j + 1)..(i - 1) : tree[k].level > tree[j].level
        /\ \A i \in orphans, j \in DOMAIN tree : j > i \/ IsAbove(j, i) => j \in orphans
=============================================================================
