----------------------------- MODULE StackLayout -----------------------------
(***************************************************************************)
(* zgeo/layout.go: the cells of a stack are laid out in a rectangle, left,  *)
(* centered and right ones in turn.  A vertical stack is laid out as a      *)
(* horizontal one with its sides swapped.                                   *)
(***************************************************************************)
EXTENDS Geometry, SequencesExt

CONSTANT Passes  \* an upper bound of the rounds in which space is given to cells
ASSUME PassesAssumption == Passes \in Nat \ {0}

\* A cell takes part in the stack when it is shown and has a place.
IsStacked(c) == (~c.collapsed \/ c.free) /\ c.alignment # {}

\* The cell as the stack sees it: turned when vertical, with the size its limits leave it.
Turn(c) == [c EXCEPT !.alignment = Swapped(@), !.margin = RectSwapped(@), !.minSize = SizeSwapped(@),
                     !.maxSize = SizeSwapped(@), !.originalSize = SizeSwapped(@)]
RectTurned(r, vertical) == IF vertical THEN RectSwapped(r) ELSE r
StackCell(c, i, vertical) ==
    LET Counted(turned) ==
            turned @@ [inputIndex |-> i,
                       size |-> IF c.free THEN c.originalSize
                                ELSE MinimizeNonZero(Maximize(turned.originalSize, turned.minSize), turned.maxSize)]
    IN  Counted(IF vertical THEN Turn(c) ELSE c)

getStackCells(vertical, cells) ==
    LET Placed(all, place) == SelectSeq(all, LAMBDA sc : IsStacked(sc) /\ place \in sc.alignment)
        Ordered(all) == Placed(all, "Left") \o Placed(all, "HorCenter") \o Placed(all, "Right")
    IN  Ordered([i \in DOMAIN cells |-> StackCell(cells[i], i, vertical)])

FreeRect(r, vertical, sc) ==
    RectTurned(AlignPro(r, sc.originalSize, sc.alignment, sc.margin, sc.maxSize, sc.minSize), vertical)

CellWidth(scells, spacing, i) ==
    LET sc == scells[i]
    IN  sc.size.w - (IF "HorCenter" \in sc.alignment THEN 0 ELSE sc.margin.size.w) + (IF i = 1 THEN 0 ELSE spacing)
calcPreAddedTotalWidth(scells, spacing) ==
    MapThenSumSet(LAMBDA i : CellWidth(scells, spacing, i), {i \in DOMAIN scells : scells[i].showIfExtraSpace = 0})

\* The width beyond which no cell of the stack grows; it is 0, no limit, when one cell has none.
calcMaxWidth(scells, spacing) ==
    LET unlimited == {i \in DOMAIN scells : scells[i].maxSize.w = 0 /\ "HorExpand" \in scells[i].alignment}
        Widest(i) ==
            LET sc == scells[i]
            IN  (IF sc.maxSize.w = 0 THEN sc.size.w ELSE sc.maxSize.w) + (IF i = 1 THEN 0 ELSE spacing)
                - (IF "HorCenter" \in sc.alignment THEN 2 ELSE 1) * sc.margin.size.w
    IN  IF unlimited # {} THEN 0 ELSE MapThenSumSet(Widest, DOMAIN scells)

LayoutGetCellsStackedSize(vertical, spacing, cells) ==
    LET SizeTurned(s) == IF vertical THEN SizeSwapped(s) ELSE s
        Sizes(scells) ==
            <<SizeTurned(Size(calcPreAddedTotalWidth(scells, spacing),
                              Max({0} \cup {scells[i].size.h - scells[i].margin.size.h : i \in DOMAIN scells}))),
              SizeTurned(Size(calcMaxWidth(scells, spacing), 0))>>
    IN  Sizes(getStackCells(vertical, cells))

getPossibleAdjustments(diff, scells) ==
    [i \in DOMAIN scells |->
        LET sc == scells[i]
        IN  IF diff < 0
            THEN IF "HorShrink" \in sc.alignment THEN diff
                 ELSE IF sc.minSize.w # 0 THEN Lesser(0, sc.minSize.w - sc.size.w) ELSE 0
            ELSE IF "HorExpand" \notin sc.alignment THEN 0
            ELSE IF sc.maxSize.w # 0 THEN Lesser(diff, Greater(0, sc.maxSize.w - sc.size.w)) ELSE diff]

AbsMin(a, b) == IF Magnitude(a) < Magnitude(b) THEN a ELSE b

\* One round: each cell that can still be adjusted takes its share of what is left.
Share(state, i) ==
    LET amount == IF state.adj[i] = 0 THEN 0 ELSE AbsMin(state.adj[i], Quotient(state.left, state.count))
    IN  IF amount = 0 THEN state
        ELSE [width |-> [state.width EXCEPT ![i] = Greater(1, @) + amount],
              adj |-> [j \in DOMAIN state.adj |->
                          IF j >= i /\ state.adj[j] # 0 THEN state.adj[j] - amount ELSE state.adj[j]],
              left |-> state.left - amount, count |-> state.count - 1]
Round(state) ==
    LET counted == [state EXCEPT !.count = Cardinality({i \in DOMAIN state.adj : state.adj[i] # 0})]
    IN  FoldLeftDomain(LAMBDA s, i : Share(s, i), counted, state.width)
Rounds(state) == FoldLeft(LAMBDA s, n : Round(s), state, [n \in 1..Passes |-> n])

\* Cells that wait for extra space are shown or dropped; then the space is shared.
LeftOver(r, scells, spacing) == r.size.w - calcPreAddedTotalWidth(scells, spacing)
ShownCells(r, scells, spacing) ==
    LET diff == LeftOver(r, scells, spacing)
        shown == SelectSeq(scells, LAMBDA sc : sc.showIfExtraSpace <= diff \/ sc.showIfExtraSpace = 0)
    IN  [i \in DOMAIN shown |-> [shown[i] EXCEPT !.showIfExtraSpace = 0]]
SharedOut(diff, scells) ==
    LET start == [i \in DOMAIN scells |-> scells[i].size.w]
        adj == getPossibleAdjustments(diff, scells)
    IN  Rounds([width |-> start, adj |-> adj, left |-> diff, count |-> 0])

\* What the rounds have left goes to the cells that could still be adjusted, in proportion.
WithRest(scells, state) ==
    LET open == {i \in DOMAIN scells : state.adj[i] # 0}
        Limited(i, n) == IF scells[i].maxSize.w # 0 THEN Lesser(n, scells[i].maxSize.w) ELSE n
        total == Greater(1, MapThenSumSet(LAMBDA i : Limited(i, state.width[i]), open))
    IN  [i \in DOMAIN scells |->
            IF i \in open
            THEN Limited(i, state.width[i] + (Limited(i, state.width[i]) * state.left) \div total)
            ELSE state.width[i]]

\* The cells beside a divider take its ratio, in tenths, of the rectangle.
DividedWidths(r, scells, width) ==
    LET dividers == {i \in DOMAIN scells : scells[i].dividerRatio # 0}
        d == Min(dividers)
        ratio == Lesser(9, Greater(1, scells[d].dividerRatio))
    IN  IF dividers = {} THEN width
        ELSE [width EXCEPT ![d - 1] = (r.size.w * ratio) \div 10 - width[d] \div 2,
                           ![d + 1] = (r.size.w * (10 - ratio)) \div 10 - width[d] \div 2]
\* The space is counted anew once a cell that waited is shown.
addLeftoverSpaceToWidths(r, scells, spacing) ==
    LET Waited(i) == scells[i].showIfExtraSpace # 0 /\ scells[i].showIfExtraSpace <= LeftOver(r, scells, spacing)
        Counted(shown) == IF \E i \in DOMAIN scells : Waited(i) THEN shown ELSE scells
        Widened(shown, width) == [i \in DOMAIN shown |-> [shown[i] EXCEPT !.size.w = width[i]]]
        Filled(shown, left) == Widened(shown, DividedWidths(r, shown, WithRest(shown, SharedOut(left, shown))))
        All(shown) == Filled(shown, LeftOver(r, Counted(shown), spacing))
    IN  All(ShownCells(r, scells, spacing))

BoxWidth(sc) == sc.size.w - sc.margin.size.w
PlaceOf(sc) == sc.alignment \cap HorPos
\* The width of the cells at a place, with the spacing that follows each but the last.
WidthAt(scells, spacing, chosen) ==
    MapThenSumSet(LAMBDA i : BoxWidth(scells[i]) + (IF i = Len(scells) THEN 0 ELSE spacing), chosen)
CenterCells(scells) == {i \in DOMAIN scells : "HorCenter" \in scells[i].alignment}
RightCells(scells) == {i \in DOMAIN scells : "Right" \in scells[i].alignment} \ CenterCells(scells)

\* The box of the next cell starts where the last one ended, or where its group does.
NextBox(r, scells, spacing, state, i) ==
    LET sc == scells[i]
        x == IF PlaceOf(sc) \cap state.place # {} THEN state.x
             ELSE IF "HorCenter" \in sc.alignment
             THEN Greater(state.x, Greater(r.pos.x, r.pos.x + r.size.w \div 2
                                                    - WidthAt(scells, spacing, CenterCells(scells)) \div 2))
             ELSE Greater(r.pos.x, RectMax(r).x - WidthAt(scells, spacing, RightCells(scells)))
        box == Rect(Pos(x, r.pos.y), Size(BoxWidth(sc), r.size.h))
        last == i = Len(scells) /\ "Right" \in sc.alignment
    IN  [box |-> IF last THEN SetMaxX(box, RectMax(r).x) ELSE box,
         place |-> IF PlaceOf(sc) \cap state.place # {} THEN state.place ELSE sc.alignment]
AlignedInBox(box, sc) ==
    LET align == sc.alignment \cup {f \in {"HorShrink"} : "HorExpand" \notin sc.alignment}
                              \cup {f \in {"VertShrink"} : "VertExpand" \notin sc.alignment}
    IN  AlignPro(box, sc.size, align, sc.margin, sc.maxSize, sc.minSize)
layoutRectsInBoxes(r, scells, vertical, spacing, outRects) ==
    LET Placed(out, sc, next) ==
            [x |-> RectMax(next.box).x + spacing, place |-> next.place,
             out |-> [out EXCEPT ![sc.inputIndex] = RectTurned(AlignedInBox(next.box, sc), vertical)]]
        Step(state, i) == Placed(state.out, scells[i], NextBox(r, scells, spacing, state, i))
    IN  FoldLeftDomain(Step, [x |-> r.pos.x, place |-> {"Left"}, out |-> outRects], scells).out

FreeRects(r, vertical, scells, cells) ==
    LET placed == {i \in DOMAIN scells : scells[i].free}
    IN  [i \in DOMAIN cells |->
            IF \E j \in placed : scells[j].inputIndex = i
            THEN FreeRect(r, vertical, scells[CHOOSE j \in placed : scells[j].inputIndex = i])
            ELSE RectNull]
LayoutCellsInStack(rect, vertical, spacing, cells) ==
    LET LaidOut(r, scells) ==
            layoutRectsInBoxes(r, addLeftoverSpaceToWidths(r, SelectSeq(scells, LAMBDA sc : ~sc.free), spacing),
                               vertical, spacing, FreeRects(r, vertical, scells, cells))
    IN  LaidOut(RectTurned(rect, vertical), getStackCells(vertical, cells))
-----------------------------------------------------------------------------
\* What the layout promises.
Stacked(vertical, cells) == SelectSeq(getStackCells(vertical, cells), LAMBDA sc : ~sc.free)

\* The rounds come to an end, with no space left or no cell that can still be adjusted.
RoundsSettle(diff, shown) ==
    \A end \in {SharedOut(diff, shown)} :
        /\ Round(end).width = end.width /\ Round(end).left = end.left
        /\ end.left = 0 \/ \A i \in DOMAIN shown : end.adj[i] = 0

\* A cell is not made narrower while there is space, unless a cell with a limit comes after
\* one that grew; without limits a growing cell takes all of it.
SpaceIsGivenOut(diff, shown) ==
    \A end \in {SharedOut(diff, shown)}, grow \in {{i \in DOMAIN shown : "HorExpand" \in shown[i].alignment}} :
        diff >= 0 =>
          /\ \A i \in DOMAIN shown :
                 (\A j \in 1..(i - 1) : shown[j].maxSize.w # 0 \/ j \notin grow) => end.width[i] >= shown[i].size.w
          /\ grow # {} /\ (\A i \in grow : shown[i].maxSize.w = 0) => end.left = 0

\* With room for all, cells lie inside and, but for right ones after centered ones, apart.
CellsAreApart(r, spacing, shown, out) ==
    LET At(i) == out[shown[i].inputIndex]
    IN  /\ \A i \in DOMAIN shown : Intersected(At(i), r) = At(i)
        /\ \A i, j \in DOMAIN shown :
               i < j /\ ~("HorCenter" \in shown[i].alignment /\ "Right" \in shown[j].alignment)
                 => RectMax(At(i)).x + spacing <= At(j).pos.x

\* Cells get their space, lie apart where there is room for all, and fill the rectangle beside
\* a divider.
CellsAreLaidOut(r, spacing, scells, shown, out) ==
    LET diff == LeftOver(r, shown, spacing)
        crowded == diff < 0 \/ \E i \in DOMAIN shown : "HorCenter" \in shown[i].alignment /\ shown[i].margin.size.w # 0
    IN  /\ RoundsSettle(diff, shown) /\ SpaceIsGivenOut(diff, shown)
        /\ crowded \/ (\E i \in DOMAIN shown : shown[i].dividerRatio # 0) \/ CellsAreApart(r, spacing, shown, out)
        /\ \A i \in DOMAIN shown : shown[i].dividerRatio # 0
              => \A w \in {addLeftoverSpaceToWidths(r, scells, spacing)} :
                    w[i - 1].size.w + w[i].size.w + w[i + 1].size.w = r.size.w
\* A vertical stack is the horizontal one of the turned cells.
IsSameTurned(r, spacing, cells, out) ==
    LayoutCellsInStack(RectSwapped(r), TRUE, spacing, [i \in DOMAIN cells |-> Turn(cells[i])])
       = [i \in DOMAIN cells |-> RectSwapped(out[i])]
\* What a stack asks for is the same turned, and is what its cells need at most, if they have a limit.
SizeIsEnough(spacing, scells, alone) ==
    \A s \in {LayoutGetCellsStackedSize(FALSE, spacing, alone)} :
        /\ LayoutGetCellsStackedSize(TRUE, spacing, [i \in DOMAIN alone |-> Turn(alone[i])]) = <<SizeSwapped(s[1]), SizeSwapped(s[2])>>
        /\ s[2].w # 0 /\ (\A i \in DOMAIN scells : scells[i].showIfExtraSpace = 0 /\ scells[i].maxSize.w >= scells[i].minSize.w)
              => s[2].w >= s[1].w

StackIsLaidOut(r, spacing, cells) ==
    LET stands(c) == ~c.free /\ ~c.collapsed
    IN  \A scells \in {Stacked(FALSE, cells)}, out \in {LayoutCellsInStack(r, FALSE, spacing, cells)},
           alone \in {SelectSeq(cells, stands)}, kept \in {SelectSeq([i \in DOMAIN cells |-> i], LAMBDA i : stands(cells[i]))} :
            /\ CellsAreLaidOut(r, spacing, scells, ShownCells(r, scells, spacing), out)
            /\ IsSameTurned(r, spacing, cells, out)
            /\ SizeIsEnough(spacing, scells, alone)
            \* Cells that are free or collapsed make no difference to the others.
            /\ [k \in DOMAIN kept |-> out[kept[k]]] = LayoutCellsInStack(r, FALSE, spacing, alone)
=============================================================================
