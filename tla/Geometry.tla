------------------------------ MODULE Geometry ------------------------------
(***************************************************************************)
(* zgeo: positions, sizes, rectangles, the alignment of a size in a        *)
(* rectangle and matrices; colors, font styles and paths at the end.  A    *)
(* float64 is a whole number of a unit that is small enough for the halves *)
(* and the quotients of the inputs to be whole.  An Alignment, a word of   *)
(* flag bits in Go, is the set of its flags.                               *)
(***************************************************************************)
EXTENDS Integers, FiniteSets, SequencesExt

Greater(a, b) == IF a > b THEN a ELSE b
Lesser(a, b) == IF a < b THEN a ELSE b
Magnitude(a) == IF a < 0 THEN -a ELSE a
Quotient(n, d) == IF d < 0 THEN (-n) \div (-d) ELSE n \div d
Sign(n) == IF n < 0 THEN -1 ELSE IF n > 0 THEN 1 ELSE 0
-----------------------------------------------------------------------------
\* Positions and sizes.
Pos(x, y) == [x |-> x, y |-> y]
Size(w, h) == [w |-> w, h |-> h]
SizePos(s) == Pos(s.w, s.h)
PosSize(p) == Size(p.x, p.y)
PosPlus(p, a) == Pos(p.x + a.x, p.y + a.y)
PosMinus(p, a) == Pos(p.x - a.x, p.y - a.y)
PosMax(p, a) == Pos(Greater(p.x, a.x), Greater(p.y, a.y))
PosMin(p, a) == Pos(Lesser(p.x, a.x), Lesser(p.y, a.y))
PosSwapped(p) == Pos(p.y, p.x)
SizeSwapped(s) == Size(s.h, s.w)
SizePlus(s, a) == Size(s.w + a.w, s.h + a.h)
SizeTimesD(s, n) == Size(s.w * n, s.h * n)
SizeContains(s, a) == s.w >= a.w /\ s.h >= a.h
NullSize == Size(0, 0)

\* The two slopes are compared by multiplying crosswise.
IsSameDirection(p, q) ==
    \/ p = q
    \/ /\ Sign(q.x) = Sign(p.x) /\ Sign(q.y) = Sign(p.y)
       /\ IF q.y = 0 \/ p.y = 0 THEN p.y = 0 ELSE p.x * q.y = q.x * p.y

Area(s) == IF s.w < 0 \/ s.h < 0 THEN 0 ELSE s.w * s.h
Maximize(s, a) == Size(Greater(s.w, a.w), Greater(s.h, a.h))
LesserNonZero(n, a) == IF n = 0 THEN a ELSE IF a # 0 THEN Lesser(n, a) ELSE n
MinimizeNonZero(s, a) == Size(LesserNonZero(s.w, a.w), LesserNonZero(s.h, a.h))

\* The smaller of the two quotients in / s, applied to both sides of s.
ScaledTo(s, in) ==
    IF 0 \in {s.w, s.h, in.w, in.h} THEN NullSize
    ELSE IF in.w * s.h <= in.h * s.w THEN Size(in.w, (s.h * in.w) \div s.w)
    ELSE Size((s.w * in.h) \div s.h, in.h)
ShrunkInto(s, in) == IF s.w <= in.w /\ s.h < in.h THEN s ELSE ScaledTo(s, in)
ExpandedInto(s, in) == IF s.w >= in.w /\ s.h > in.h THEN s ELSE ScaledTo(s, in)
-----------------------------------------------------------------------------
\* Rectangles.
Rect(p, s) == [pos |-> p, size |-> s]
RectNull == Rect(Pos(0, 0), NullSize)
IsNull(r) == r = RectNull
RectMin(r) == r.pos
RectMax(r) == PosPlus(r.pos, SizePos(r.size))
RectFromMinMax(min, max) == Rect(min, PosSize(PosMinus(max, min)))
RectFromXY2(x, y, x2, y2) == RectFromMinMax(Pos(x, y), Pos(x2, y2))
RectFromMarginSize(m) == RectFromXY2(m.w, m.h, -m.w, -m.h)
RectSwapped(r) == Rect(PosSwapped(r.pos), SizeSwapped(r.size))

\* A side is moved and the opposite one stays where it is.
SetMinX(r, x) == [r EXCEPT !.pos.x = x, !.size.w = @ + r.pos.x - x]
SetMinY(r, y) == [r EXCEPT !.pos.y = y, !.size.h = @ + r.pos.y - y]
SetMaxX(r, x) == [r EXCEPT !.size.w = x - r.pos.x]
SetMaxY(r, y) == [r EXCEPT !.size.h = y - r.pos.y]
SetMin(r, min) == SetMinX(SetMinY(r, min.y), min.x)
SetMax(r, max) == SetMaxX(SetMaxY(r, max.y), max.x)
RectAdd(r, a) ==
    LET moved == SetMin(r, PosPlus(RectMin(r), a.pos)) IN SetMax(moved, PosPlus(RectMax(moved), RectMax(a)))

Centered(r, c) == Rect(Pos(c.x - r.size.w \div 2, c.y - r.size.h \div 2), r.size)
Center(r) == Pos(r.pos.x + r.size.w \div 2, r.pos.y + r.size.h \div 2)
Expanded(r, s) == Rect(PosMinus(r.pos, SizePos(s)), SizePlus(r.size, SizeTimesD(s, 2)))
RectContains(r, p) ==
    LET min == RectMin(r)  max == RectMax(r)
    IN  p.x >= min.x /\ p.x <= max.x /\ p.y >= min.y /\ p.y <= max.y
\* Mutant: rectangles that touch overlap.
OverlapsTouching(r, q) ==
    /\ RectMin(q).x <= RectMax(r).x /\ RectMin(q).y <= RectMax(r).y
    /\ RectMax(q).x >= RectMin(r).x /\ RectMax(q).y >= RectMin(r).y
Overlaps(r, q) ==
    /\ RectMin(q).x < RectMax(r).x /\ RectMin(q).y < RectMax(r).y
    /\ RectMax(q).x > RectMin(r).x /\ RectMax(q).y > RectMin(r).y
Intersected(r, q) ==
    RectFromMinMax(PosMax(RectMin(r), RectMin(q)), PosMin(RectMax(r), RectMax(q)))

UnionedWith(r, q) ==
    IF IsNull(q) THEN r
    ELSE IF IsNull(r) THEN q
    ELSE RectFromMinMax(PosMin(RectMin(r), RectMin(q)), PosMax(RectMax(r), RectMax(q)))
UnionWithPos(r, p) ==
    IF IsNull(r) THEN [r EXCEPT !.pos = p]
    ELSE RectFromMinMax(PosMin(RectMin(r), p), PosMax(RectMax(r), p))
MovedInto(r, q) ==
    LET m == [r EXCEPT !.pos = PosMax(r.pos, q.pos)]
    IN  [m EXCEPT !.pos = PosPlus(@, PosMinus(PosMin(RectMax(m), RectMax(q)), RectMax(m)))]

NormalizedNegativeSize(r) ==
    Rect(Pos(r.pos.x + Lesser(r.size.w, 0), r.pos.y + Lesser(r.size.h, 0)),
         Size(Magnitude(r.size.w), Magnitude(r.size.h)))

TranslatePosInSystems(from, to, p) ==
    Pos(to.pos.x + ((p.x - from.pos.x) * to.size.w) \div from.size.w,
        to.pos.y + ((p.y - from.pos.y) * to.size.h) \div from.size.h)
TranslateRectInSystems(from, to, r) ==
    RectFromMinMax(TranslatePosInSystems(from, to, RectMin(r)), TranslatePosInSystems(from, to, RectMax(r)))
-----------------------------------------------------------------------------
\* Alignments.
HorPos == {"Left", "HorCenter", "Right"}
VertPos == {"Top", "VertCenter", "Bottom"}
Horizontal == HorPos \cup {"HorExpand", "HorShrink", "HorOut"}
Vertical == VertPos \cup {"VertExpand", "VertShrink", "VertOut"}

Turned == [Left |-> "Top", Right |-> "Bottom", Top |-> "Left", Bottom |-> "Right",
           HorCenter |-> "VertCenter", VertCenter |-> "HorCenter",
           HorExpand |-> "VertExpand", VertExpand |-> "HorExpand",
           HorShrink |-> "VertShrink", VertShrink |-> "HorShrink",
           HorOut |-> "VertOut", VertOut |-> "HorOut"]
Swapped(a) == {Turned[f] : f \in a \cap DOMAIN Turned}
FlippedHorizontal(a) ==
    (a \cap Vertical) \cup {f \in {"Right"} : "Left" \in a} \cup {f \in {"Left"} : "Right" \in a}
FlippedVertical(a) ==
    (a \cap Horizontal) \cup {f \in {"Bottom"} : "Top" \in a} \cup {f \in {"Top"} : "Bottom" \in a}

\* The combinations, one for each place of x, of y and, when asked for, of an out flag.
SplitIntoIndividual(a) ==
    LET outs == IF a \cap {"HorOut", "VertOut"} = {} THEN {{}} ELSE {{f} : f \in a \cap {"HorOut", "VertOut"}}
        kept == a \ (HorPos \cup VertPos \cup {"HorOut", "VertOut"})
    IN  {kept \cup {x, y} \cup o : x \in a \cap HorPos, y \in a \cap VertPos, o \in outs}
-----------------------------------------------------------------------------
\* Alignment of a size in a rectangle.
RectMarginForSizeAndAlign(m, align) ==
    LET hor == IF "Left" \in align THEN RectFromXY2(m.w, 0, 0, 0)
               ELSE IF "Right" \in align THEN RectFromXY2(0, 0, -m.w, 0)
               ELSE IF "HorCenter" \in align THEN RectFromXY2(m.w, 0, -m.w, 0) ELSE RectNull
    IN  IF "Top" \in align THEN SetMinY(hor, m.h)
        ELSE IF "Bottom" \in align THEN SetMaxY(hor, -m.h)
        ELSE IF "VertCenter" \in align THEN SetMaxY(SetMinY(hor, m.h), -m.h) ELSE hor

\* s scaled until its first side, or its last, meets that of f.
Inside(s, f) == IF f.w * s.h < f.h * s.w THEN Size(f.w, (s.h * f.w) \div s.w)
                ELSE Size((s.w * f.h) \div s.h, f.h)
Covering(s, f) == IF f.w * s.h > f.h * s.w THEN Size(f.w, (s.h * f.w) \div s.w)
                  ELSE Size((s.w * f.h) \div s.h, f.h)

ExpandedBy(align, s, f) ==
    IF {"HorExpand", "VertExpand"} \subseteq align
    THEN IF "Proportional" \notin align THEN f
         ELSE IF f.w > s.w \/ f.h > s.h THEN Inside(s, f) ELSE s
    ELSE IF "Proportional" \in align THEN s
    ELSE IF "HorExpand" \in align /\ s.w < f.w THEN [s EXCEPT !.w = f.w]
    ELSE IF "VertExpand" \in align /\ s.h < f.h THEN [s EXCEPT !.h = f.h] ELSE s
ShrunkBy(align, s, f) ==
    LET t == IF {"HorShrink", "VertShrink", "Proportional"} \subseteq align
             THEN IF f.w >= s.w /\ f.h >= s.h THEN s
                  ELSE IF {"HorOut", "VertOut"} \subseteq align THEN Covering(s, f) ELSE Inside(s, f)
             ELSE IF "HorShrink" \in align /\ s.w > f.w THEN [s EXCEPT !.w = f.w] ELSE s
    IN  IF "VertShrink" \in align /\ t.h > f.h THEN [t EXCEPT !.h = f.h] ELSE t
LimitedBy(align, s, max) ==
    IF Area(max) # 0 /\ "Proportional" \in align THEN ShrunkInto(s, max)
    ELSE Size(IF max.w # 0 THEN Lesser(s.w, max.w) ELSE s.w, IF max.h # 0 THEN Lesser(s.h, max.h) ELSE s.h)
AtLeast(align, s, min) ==
    LET t == IF min.w # 0 /\ min.h # 0 /\ "Proportional" \in align THEN ExpandedInto(s, min) ELSE s
    IN  Size(IF min.w # 0 THEN Greater(t.w, min.w) ELSE t.w, IF min.h # 0 THEN Greater(t.h, min.h) ELSE t.h)

AlignedX(r, s, w, align) ==
    CASE "HorOut" \in align /\ "Left" \in align -> r.pos.x - s.w
      [] "HorOut" \in align /\ {"Left", "HorCenter"} \cap align = {} -> RectMax(r).x
      [] "HorOut" \notin align /\ "Left" \in align -> r.pos.x
      [] "HorOut" \notin align /\ "Left" \notin align /\ "Right" \in align -> RectMax(r).x - w
      [] OTHER -> r.pos.x + (r.size.w - w) \div 2
AlignedY(r, h, align) ==
    CASE "VertOut" \in align /\ "Top" \in align -> r.pos.y - h
      [] "VertOut" \in align /\ {"Top", "VertCenter"} \cap align = {} -> RectMax(r).y
      [] "VertOut" \in align /\ "Top" \notin align /\ "VertCenter" \in align -> r.pos.y + (r.size.h - h) \div 2
      [] "VertOut" \notin align /\ "Top" \in align -> r.pos.y
      [] "VertOut" \notin align /\ "Top" \notin align /\ "Bottom" \in align -> RectMax(r).y - h
      [] OTHER -> r.pos.y + Greater(0, r.size.h - h) \div 2

AlignPro(rect, s, align, rmarg, max, min) ==
    LET Placed(r, t) == Rect(Pos(AlignedX(r, s, t.w, align), AlignedY(r, t.h, align)), t)
        Sized(r) == AtLeast(align, LimitedBy(align, ShrunkBy(align, ExpandedBy(align, s, r.size), r.size), max), min)
        Within(r) == Placed(r, Sized(r))
    IN  Within(RectAdd(rect, rmarg))
Align(r, s, align, m) == AlignPro(r, s, align, RectMarginForSizeAndAlign(m, align), NullSize, NullSize)

\* The columns and rows of cells that fit in a box, and the area they take.
CellsSpanInBox(box, cell, spacing, count) ==
    LET columns == (box.size.w + spacing.w) \div (cell.w + spacing.w)
        rows == (box.size.h + spacing.h) \div (cell.h + spacing.h)
        x == IF count > 0 THEN Lesser(columns, count) ELSE columns
        y == IF count > 0 THEN Lesser(rows, (count + x) \div x) ELSE rows
        s == Size(cell.w * x + spacing.w * (x - 1), cell.h * y + spacing.h * (y - 1))
    IN  IF columns = 0 \/ rows = 0 THEN [x |-> 0, y |-> 0, area |-> RectNull]
        ELSE [x |-> x, y |-> y, area |-> Align(box, s, {"HorCenter", "VertCenter"}, NullSize)]
-----------------------------------------------------------------------------
\* The vectors between the positions of a path that is not closed.
Vectors(path) == [i \in 1..(Len(path) - 1) |-> [s |-> path[i], v |-> PosMinus(path[i + 1], path[i])]]
VectorLength(v) == Magnitude(v.x) + Magnitude(v.y)  \* of a vector along an axis
LengthTo(path, n) == MapThenSumSet(LAMBDA i : VectorLength(Vectors(path)[i].v), 1..n)
\* The position at k / n of the way along it.
GetTPositionInPosPath(path, k, n) ==
    IF k <= 0 THEN path[1]
    ELSE IF k >= n THEN path[Len(path)]
    ELSE LET t == (k * LengthTo(path, Len(path) - 1)) \div n
             i == Min({j \in 1..(Len(path) - 1) : LengthTo(path, j) >= t})
             v == Vectors(path)[i].v
             f == t - LengthTo(path, i - 1)
         IN  PosPlus(Vectors(path)[i].s, Pos(Quotient(v.x * f, VectorLength(v)), Quotient(v.y * f, VectorLength(v))))

\* Matrices.
Matrix(a, b, c, d, tx, ty) == [a |-> a, b |-> b, c |-> c, d |-> d, tx |-> tx, ty |-> ty]
MatrixIdentity == Matrix(1, 0, 0, 1, 0, 0)
MulPos(m, p) == Pos(m.a * p.x + m.c * p.y + m.tx, m.b * p.x + m.d * p.y + m.ty)
MulSize(m, s) == Size(m.a * s.w + m.c * s.h, m.b * s.w + m.d * s.h)
TransformRect(m, r) == RectFromMinMax(MulPos(m, RectMin(r)), MulPos(m, RectMax(r)))
Multiplied(m, a) ==
    Matrix(a.a * m.a + a.b * m.c, a.a * m.b + a.b * m.d, a.c * m.a + a.d * m.c, a.c * m.b + a.d * m.d,
           a.tx * m.a + a.ty * m.c + m.tx, a.tx * m.b + a.ty * m.d + m.ty)
Scaled(m, s) == [m EXCEPT !.a = @ * s.w, !.b = @ * s.w, !.c = @ * s.h, !.d = @ * s.h]
Translated(m, s) == [m EXCEPT !.tx = @ + s.w * m.a + s.h * m.c, !.ty = @ + s.w * m.b + s.h * m.d]
Determinant(m) == m.a * m.d - m.c * m.b
Inverted(m) ==
    LET q(n) == Quotient(n, Determinant(m))
    IN  Matrix(q(m.d), q(-m.b), q(-m.c), q(m.a), q(m.ty * m.c - m.tx * m.d), q(m.tx * m.b - m.ty * m.a))
-----------------------------------------------------------------------------
\* What the operations promise.

\* A union holds both rectangles and nothing that one holding both does not; an
\* intersection holds just the points both hold; rectangles overlap when it has an area.
UnionAndIntersection(r, q, points) ==
    /\ \A p \in points : (RectContains(r, p) /\ ~IsNull(r)) \/ (RectContains(q, p) /\ ~IsNull(q))
                             => RectContains(UnionedWith(r, q), p)
    /\ UnionedWith(UnionedWith(r, q), q) = UnionedWith(r, q) /\ UnionedWith(r, q) = UnionedWith(q, r)
    /\ \A p \in points : RectContains(Intersected(r, q), p) <=> RectContains(r, p) /\ RectContains(q, p)
    /\ Area(r.size) > 0 /\ Area(q.size) > 0
          => (Overlaps(r, q) <=> Intersected(r, q).size.w > 0 /\ Intersected(r, q).size.h > 0)
    /\ \A p \in points : RectContains(UnionWithPos(r, p), p) /\ (~IsNull(r) => UnionedWith(r, UnionWithPos(r, p)) = UnionWithPos(r, p))

\* A rectangle moved into another keeps its size and lies inside when it fits, and stays
\* where it is when it is inside already; one grown from its center or turned inside out
\* keeps its center, and its corners as a set.
MovingKeepsSize(r, q) ==
    LET m == MovedInto(r, q)
    IN  /\ m.size = r.size
        /\ SizeContains(q.size, r.size) => Intersected(m, q) = m
        /\ Intersected(r, q) = r => m = r
        /\ Center(Expanded(r, q.size)) = Center(r) /\ Centered(r, Center(r)) = r
        /\ LET n == Rect(RectMax(r), Size(-r.size.w, -r.size.h)) IN NormalizedNegativeSize(n) = r
        /\ RectAdd(RectAdd(r, RectFromMarginSize(q.size)), RectFromMarginSize(Size(-q.size.w, -q.size.h))) = r

\* What is carried over to another system and back is what it was.
TranslationReturns(from, to, r) ==
    TranslateRectInSystems(to, from, TranslateRectInSystems(from, to, r)) = r

\* Two vectors have one direction when neither turns from the other.
SameDirectionIsParallel(p, q) ==
    IsSameDirection(p, q) <=> p = q \/ (p.x * q.y = p.y * q.x /\ p.x * q.x + p.y * q.y > 0)

\* Multiplied applies its argument first; the inverse undoes the matrix; scaling and
\* translating are multiplications.
MatricesCompose(m, a, p, r) ==
    /\ MulPos(Multiplied(m, a), p) = MulPos(m, MulPos(a, p))
    /\ Magnitude(Determinant(m)) = 1
          => MulPos(Inverted(m), MulPos(m, p)) = p /\ Multiplied(Inverted(m), m) = MatrixIdentity
    /\ MulPos(Scaled(m, PosSize(p)), r.pos) = MulPos(m, Pos(p.x * r.pos.x, p.y * r.pos.y))
    /\ MulPos(Translated(m, PosSize(p)), r.pos) = MulPos(m, PosPlus(p, r.pos))
    /\ TransformRect(m, r).size = MulSize(m, r.size)

\* Turning and flipping twice gives an alignment back, without the flags they drop; the
\* parts of an alignment have one place each and make it up.
AlignmentsTurnBack(a) ==
    /\ Swapped(Swapped(a)) = a \ {"Proportional", "MarginIsOffset"}
    /\ FlippedHorizontal(FlippedHorizontal(a)) = (a \cap Vertical) \cup (a \cap {"Left", "Right"})
    /\ Swapped(FlippedHorizontal(a)) = FlippedVertical(Swapped(a))
    /\ \A b \in SplitIntoIndividual(a) :
           b \subseteq a /\ Cardinality(b \cap HorPos) = 1 /\ Cardinality(b \cap VertPos) = 1
    /\ a \cap HorPos # {} /\ a \cap VertPos # {} => UNION SplitIntoIndividual(a) = a

\* An aligned size touches the side it is aligned to, at the margin, or is centered.
TouchesItsSide(r, s, align, m) ==
    LET in == RectAdd(r, RectMarginForSizeAndAlign(m, align))
        t == Align(r, s, align, m)
    IN  /\ "HorOut" \notin align /\ "Left" \in align => t.pos.x = r.pos.x + m.w
        /\ "HorOut" \notin align /\ "Right" \in align => RectMax(t).x = RectMax(r).x - m.w
        /\ "HorCenter" \in align => Center(t).x = Center(r).x
        /\ {"HorShrink", "VertShrink"} \subseteq align /\ align \cap {"HorOut", "VertOut"} = {}
              => SizeContains(in.size, t.size)
        /\ {"HorExpand", "VertExpand"} \subseteq align /\ "Proportional" \notin align => t.size = in.size
        /\ "Proportional" \in align => t.size.w * s.h = t.size.h * s.w
        /\ {"HorOut", "VertOut"} \subseteq align /\ "HorCenter" \notin align /\ "VertCenter" \notin align
              => ~Overlaps(in, t)
\* Aligning with the sides swapped gives the aligned rectangle with its sides swapped.
AligningIsTheSameTurned(r, s, align, m) ==
    LET in == RectAdd(r, RectMarginForSizeAndAlign(m, align))
        t == Align(r, s, align, m)
    IN  SizeContains(in.size, t.size) /\ ~({"HorOut", "Left"} \subseteq align) /\ "Proportional" \notin align
          => Align(RectSwapped(r), SizeSwapped(s), Swapped(align), SizeSwapped(m)) = RectSwapped(t)

\* The cells fit in the box, one more of either kind would not, and there are enough of
\* them when the box has room.
CellsFill(box, cell, spacing, count) ==
    LET c == CellsSpanInBox(box, cell, spacing, count)
        all == CellsSpanInBox(box, cell, spacing, 0)
    IN  c.x > 0 => /\ SizeContains(box.size, c.area.size) /\ Intersected(c.area, box) = c.area
                   /\ count = 0 => (c.x + 1) * (cell.w + spacing.w) - spacing.w > box.size.w
                   /\ count > 0 => c.x * c.y >= Lesser(count, all.x * all.y)

\* Along a path the position moves from its first to its last point, by the length asked for.
PathIsFollowed(path, n) ==
    LET At(k) == GetTPositionInPosPath(path, k, n)
    IN  /\ At(0) = path[1] /\ At(n) = path[Len(path)]
        /\ \A k \in 0..(n - 1) :
               VectorLength(PosMinus(At(k + 1), At(k))) <= LengthTo(path, Len(path) - 1) \div n
-----------------------------------------------------------------------------
(***************************************************************************)
(* Colors, font styles and paths.  A component of a color is a whole        *)
(* number from 0 to Full.  The curves of an arc are known by the points they *)
(* end at, angles are quarter turns from the top, clockwise.                *)
(***************************************************************************)
Full == 255
Components == {"r", "g", "b", "a"}
Order == <<"r", "g", "b", "a">>
Clamped32(n) == Greater(0, Lesser(n, Full))
Invalid == [valid |-> FALSE, r |-> 0, g |-> 0, b |-> 0, a |-> 0]
ColorNew(r, g, b, a) == [valid |-> TRUE, r |-> Clamped32(r), g |-> Clamped32(g), b |-> Clamped32(b), a |-> Clamped32(a)]
ColorNewGray(white, a) == ColorNew(white, white, white, a)
Slice32(c) == [i \in 1..4 |-> c[Order[i]]]
ColorFromSlice(s) ==
    CASE Len(s) = 1 -> ColorNewGray(s[1], Full)
      [] Len(s) = 2 -> ColorNewGray(s[1], s[2])
      [] Len(s) = 3 -> ColorNew(s[1], s[2], s[3], Full)
      [] Len(s) = 4 -> ColorNew(s[1], s[2], s[3], s[4])
      [] OTHER -> Invalid
White == ColorNewGray(Full, Full)
Black == ColorNewGray(0, Full)

\* Digits of a color after its number sign, two for a component or one that stands for sixteen times itself.
HexValue(digits) == IF Len(digits) = 1 THEN digits[1] * 16 ELSE digits[1] * 16 + digits[2]
Hex(c) == FlattenSeq([i \in 1..4 |-> <<c[Order[i]] \div 16, c[Order[i]] % 16>>])
ColorFromHex(digits) ==
    LET width == IF Len(digits) \in {3, 4} THEN 1 ELSE 2
        values == [i \in 1..(Len(digits) \div width) |-> HexValue(SubSeq(digits, (i - 1) * width + 1, i * width))]
    IN  CASE Len(digits) \in {1, 2} -> ColorNewGray(HexValue(digits), Full)
          [] Len(digits) \in {3, 4, 6, 8} -> ColorFromSlice(values)
          [] OTHER -> Invalid
\* The numbers of rgb( ) or rgba( ), which has no more than four.
ColorFromRGBA(parts) ==
    LET Or(i, none) == IF i <= Len(parts) THEN parts[i] ELSE none
    IN  IF Len(parts) > 4 THEN Invalid ELSE ColorNew(Or(1, 0), Or(2, 0), Or(3, 0), Or(4, Full))

\* Hue as sector and parts of it, saturation and brightness, all in n-ths, to components in
\* n * n * n-ths, and the hue, in delta-ths of a sector, of red, green and blue numbers.
ColorNewHSBA(sector, f, s, b, n) ==
    LET p == b * (n - s) * n
        q == b * (n * n - f * s)
        t == b * (n * n - (n - f) * s)
        v == b * n * n
    IN  CASE sector % 6 = 0 -> [r |-> v, g |-> t, b |-> p]
          [] sector % 6 = 1 -> [r |-> q, g |-> v, b |-> p]
          [] sector % 6 = 2 -> [r |-> p, g |-> v, b |-> t]
          [] sector % 6 = 3 -> [r |-> p, g |-> q, b |-> v]
          [] sector % 6 = 4 -> [r |-> t, g |-> p, b |-> v]
          [] sector % 6 = 5 -> [r |-> v, g |-> p, b |-> q]
Hue(c) ==
    LET max == Greater(Greater(c.r, c.g), c.b)
        delta == max - Lesser(Lesser(c.r, c.g), c.b)
        h == IF c.r = max THEN c.g - c.b
             ELSE IF c.g = max THEN 2 * delta + c.b - c.r ELSE 4 * delta + c.r - c.g
    IN  IF delta = 0 THEN [n |-> 0, d |-> 1]
        ELSE [n |-> IF h < 0 THEN h + 6 * delta ELSE IF h > 6 * delta THEN h - 6 * delta ELSE h, d |-> delta]
\* The brightness, in halves, is between the components, and the saturation a part of what is left of it.
Brightness(c) == Greater(Greater(c.r, c.g), c.b) + Lesser(Lesser(c.r, c.g), c.b)
Saturation(c, full) ==
    LET delta == Greater(Greater(c.r, c.g), c.b) - Lesser(Lesser(c.r, c.g), c.b)
    IN  IF delta = 0 THEN [n |-> 0, d |-> 1]
        ELSE IF Brightness(c) < full THEN [n |-> delta, d |-> Brightness(c)] ELSE [n |-> delta, d |-> 2 * full - Brightness(c)]

GrayScale(c) == 30 * c.r + 59 * c.g + 11 * c.b  \* in hundredths
ContrastingGray(c) == IF GrayScale(c) < 50 * Full THEN White ELSE Black
WithOpacity(c, a) == ColorNew(c.r, c.g, c.b, a)
OpacityInverted(c) == WithOpacity(c, Full - c.a)
\* An amount of k / n of a color, less if it is not opaque; the first one's opacity stays.
Mixed(c, with, k, n) ==
    LET Mix(x, y) == ((n * Full - k * with.a) * x + k * with.a * y) \div (n * Full)
    IN  IF ~with.valid THEN c ELSE IF ~c.valid THEN with
        ELSE ColorNew(Mix(c.r, with.r), Mix(c.g, with.g), Mix(c.b, with.b), c.a)
MultipliedBrightness(c, k, n) == [c EXCEPT !.valid = TRUE, !.r = Clamped32((@ * k) \div n), !.g = Clamped32((@ * k) \div n),
                                           !.b = Clamped32((@ * k) \div n)]
\* Contrast k / n moves components from or to the middle.
AlteredContrast(c, k, n) ==
    LET Moved(x) == Quotient((2 * x - Full) * (n + k) * (n + k) + Full * n * n, 2 * n * n)
    IN  ColorNew(Moved(c.r), Moved(c.g), Moved(c.b), c.a)
Difference(c, d) ==
    IF c.valid # d.valid THEN 4 * Full ELSE MapThenSumSet(LAMBDA i : Magnitude(c[i] - d[i]), Components)

\* A style is the set of its bits.
FontStyleString(s) == LET parts == SelectSeq(<<"normal", "bold", "italic">>, LAMBDA p : p \in s)
                      IN  IF parts = <<>> THEN <<"normal">> ELSE parts
FontStyleFromStr(parts) ==
    FoldLeft(LAMBDA s, p : IF p = "normal" THEN {"normal"} ELSE IF p \in {"bold", "italic"} THEN s \cup {p} ELSE s, {}, parts)
-----------------------------------------------------------------------------
(* Paths. *)

Part(type, points) == [type |-> type, points |-> points]
MoveTo(path, p) == Append(path, Part("move", <<p>>))
LineTo(path, p) == Append(path, Part("line", <<p>>))
QuadCurveTo(path, a, b) == Append(path, Part("quad", <<a, b>>))
CurveTo(path, p) == Append(path, Part("curve", <<p, p, p>>))
Close(path) == Append(path, Part("close", <<>>))
IsOpen(path) == path # <<>> /\ path[Len(path)].type # "close"
MoveOrLineTo(path, p) == IF IsOpen(path) THEN LineTo(path, p) ELSE MoveTo(path, p)
NoPos == [none |-> TRUE]
GetPos(path) ==
    LET last == IF path = <<>> THEN <<>> ELSE path[Len(path)].points
    IN  IF last = <<>> THEN NoPos ELSE last[Len(last)]
\* The box of the points; a box that is null takes the place of the next point.
PathRect(path) ==
    LET points == FlattenSeq([i \in DOMAIN path |-> path[i].points])
    IN  IF path = <<>> THEN RectNull
        ELSE FoldLeft(UnionWithPos, Rect(points[1], NullSize), SubSeq(points, 2, Len(points)))
\* The type of the parts is not kept.
Transformed(path, m) ==
    [i \in DOMAIN path |-> Part("move", [k \in DOMAIN path[i].points |-> MulPos(m, path[i].points[k])])]
AddPath(path, add) == path \o add

AddRect(path, r, corner) ==
    LET min == RectMin(r)
        max == RectMax(r)
        square == Close(LineTo(LineTo(LineTo(MoveTo(path, min), Pos(max.x, min.y)), max), Pos(min.x, max.y)))
        top == LineTo(MoveTo(path, Pos(min.x + corner.w, min.y)), Pos(max.x - corner.w, min.y))
        right == LineTo(QuadCurveTo(top, Pos(max.x, min.y), Pos(max.x, min.y + corner.h)), Pos(max.x, max.y - corner.h))
        bottom == LineTo(QuadCurveTo(right, max, Pos(max.x - corner.h, max.y)), Pos(min.x + corner.w, max.y))
        left == LineTo(QuadCurveTo(bottom, Pos(min.x, max.y), Pos(min.x, max.y - corner.h)), Pos(min.x, min.y + corner.h))
    IN  IF r.size = NullSize THEN path
        ELSE IF corner = NullSize \/ r.size.w = 0 \/ r.size.h = 0 THEN square
        ELSE Close(QuadCurveTo(left, min, Pos(min.x + corner.w, min.y)))

\* An arc of quarters, from the quarter start; one that goes nowhere is a point.
OnCircle(r, quarter) ==
    LET c == Center(r)
        radius == r.size.w \div 2
    IN  <<Pos(c.x, c.y - radius), Pos(c.x + radius, c.y), Pos(c.x, c.y + radius), Pos(c.x - radius, c.y)>>[(quarter % 4) + 1]
ArcTo(path, r, start, quarters) ==
    LET from == MoveOrLineTo(path, OnCircle(r, start))
        turn == Sign(quarters)
    IN  IF quarters = 0 \/ r.size.w <= 0 THEN IF IsOpen(path) THEN from ELSE LineTo(from, OnCircle(r, start))
        ELSE FoldLeft(LAMBDA p, i : CurveTo(p, OnCircle(r, start + i * turn)), from, [i \in 1..Magnitude(quarters) |-> i])
-----------------------------------------------------------------------------
(* Laws, each over the inputs it names. *)

\* A color comes back from its slice and its digits; a color with the same digits twice is the
\* one of half as many, but for sixteenths.
ColorsReturn(c) ==
    /\ ColorFromSlice(Slice32(c)) = c
    /\ ColorFromHex(Hex(c)) = c
    /\ ColorFromRGBA(Slice32(c)) = c
    /\ c.a = Full => ColorFromSlice(SubSeq(Slice32(c), 1, 3)) = c /\ ColorFromRGBA(SubSeq(Slice32(c), 1, 3)) = c
    /\ \A i \in Components : ColorFromHex([k \in 1..4 |-> Hex(c)[2 * k - 1]])[i] \in (c[i] - 15)..c[i]
    /\ OpacityInverted(OpacityInverted(c)) = c
\* The hue of a color that has one is the hue it is made with.
HueReturns(sector, f, s, b, n) ==
    LET c == ColorNewHSBA(sector, f, s, b, n)
        hue == Hue(c)
        saturation == Saturation(c, n * n * n)
    IN  /\ (s > 0 /\ b > 0) => hue.n * n = (sector * n + f) * hue.d
        /\ saturation.n \in 0..saturation.d /\ saturation.d > 0
        /\ Brightness(c) \in 0..(2 * n * n * n)
\* A mixed color is between the two, the first one for nothing of the other and the other for
\* all of it, if it is opaque.
MixesAreBetween(c, d, k, n) ==
    LET m == Mixed(c, d, k, n)
    IN  /\ \A i \in {"r", "g", "b"} : m[i] \in Lesser(c[i], d[i])..Greater(c[i], d[i])
        /\ Mixed(c, d, 0, n) = c
        /\ Mixed(c, d, n, n) = [c EXCEPT !.r = d.r, !.g = d.g, !.b = d.b] \/ d.a < Full
        /\ Mixed(c, Invalid, k, n) = c /\ Mixed(Invalid, d, k, n) = d
        /\ \A i \in {"r", "g", "b"} : MultipliedBrightness(c, k, n)[i] <= c[i]
        /\ AlteredContrast(c, 0, n) = c
        /\ (c.r <= d.r) => AlteredContrast(c, k, n).r <= AlteredContrast(d, k, n).r
\* The difference is one of a metric, and the contrasting gray is at least half of all away.
DifferenceIsMetric(c, d, e) ==
    /\ Difference(c, d) = Difference(d, c)
    /\ Difference(c, d) = 0 <=> c = d
    /\ Difference(c, e) <= Difference(c, d) + Difference(d, e)
    /\ 2 * Magnitude(GrayScale(ContrastingGray(c)) - GrayScale(c)) >= 100 * Full
\* A style that is not empty comes back, normal or not.
StylesReturn(s) == s # {} => FontStyleFromStr(FontStyleString(s)) = s
\* The box of a path, which begins off the origin, holds every point, and touches one on each
\* side; it is the rectangle's where the path is a rectangle's, round or not.
BoxHoldsPath(r, corner, extra, m) ==
    LET path == AddRect(<<>>, r, corner)
        longer == IF extra = <<>> THEN path ELSE LineTo(MoveOrLineTo(path, extra[1]), extra[Len(extra)])
        box == PathRect(longer)
        points == UNION {Range(longer[i].points) : i \in DOMAIN longer}
    IN  (r.size # NullSize /\ r.pos.x > 0 /\ 2 * corner.w <= r.size.w /\ 2 * corner.h <= r.size.h /\ corner.h <= r.size.w) =>
            /\ PathRect(path) = r
            /\ \A p \in points : p.x \in box.pos.x..RectMax(box).x /\ p.y \in box.pos.y..RectMax(box).y
            /\ {box.pos.x, RectMax(box).x} \subseteq {p.x : p \in points}
            /\ {box.pos.y, RectMax(box).y} \subseteq {p.y : p \in points}
            /\ GetPos(path) = NoPos /\ (extra # <<>> => GetPos(longer) = extra[Len(extra)])
            /\ PathRect(AddPath(path, longer)) = box
            /\ [i \in DOMAIN path |-> Len(Transformed(path, m)[i].points)] = [i \in DOMAIN path |-> Len(path[i].points)]
\* An arc ends as many quarters on as it has, at a point of the circle, and a whole turn where it began.
ArcsEnd(r, start, quarters, open) ==
    LET before == IF open THEN MoveTo(<<>>, Pos(1, 1)) ELSE <<>>
        arc == ArcTo(before, r, start, quarters)
    IN  /\ GetPos(arc) = OnCircle(r, start + quarters)
        /\ quarters % 4 = 0 => GetPos(arc) = OnCircle(r, start)
        /\ Len(SelectSeq(arc, LAMBDA p : p.type = "curve")) = Magnitude(quarters)
        /\ Len(SelectSeq(arc, LAMBDA p : p.type = "move")) = 1
        /\ Len(arc) > Len(before) + 1 \/ open
=============================================================================
