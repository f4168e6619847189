------------------------------- MODULE Numbers -------------------------------
(***************************************************************************)
(* zmath, zint, zfloat, zbits and zbool: rounding, fractions, ranges,      *)
(* divisions of a length, bit masks, numbers of a width and booleans with  *)
(* an unknown value; and zwords, at the end.  A float is a whole number of *)
(* a small unit.                                                           *)
(***************************************************************************)
EXTENDS Integers, FiniteSets, SequencesExt

Absolute(n) == IF n < 0 THEN -n ELSE n
\* Go's / and % cut towards zero.
Cut(n, d) == IF n < 0 THEN -((-n) \div d) ELSE n \div d
Remainder(n, d) == n - d * Cut(n, d)
MinMax(a, b) == IF a < b THEN <<a, b>> ELSE <<b, a>>
Clamped(v, min, max) == IF (IF v < min THEN min ELSE v) > max THEN max ELSE IF v < min THEN min ELSE v

RoundToMod(n, mod) == n - Remainder(n, mod)
RoundUpToMod(n, mod) == IF Remainder(n, mod) = 0 THEN n ELSE n + (mod - Remainder(n, mod))
RoundToAccuracy(f, accuracy) == (f \div accuracy) * accuracy

\* The fraction t / b that comes nearest to p / q: bottoms are tried up to the first that
\* makes it smaller, and tops up to the first that makes it larger with every bottom.
Gap(f, p, q) == [n |-> Absolute(f.t * q - p * f.b), d |-> f.b * q]
IsNearer(f, g, p, q) == Gap(f, p, q).n * Gap(g, p, q).d < Gap(g, p, q).n * Gap(f, p, q).d
IsTried(f, p, q, max) ==
    /\ \A b \in 1..(f.b - 1) : f.t * q >= p * b
    /\ \A t \in 0..(f.t - 1) : t * q <= p * max
Fractions(max) == [t : 0..max, b : 1..max]
ComesBefore(f, g) == f.t < g.t \/ (f.t = g.t /\ f.b < g.b)
CalculateFraction(p, q, max) ==
    LET tried == {f \in Fractions(max) : IsTried(f, p, q, max)}
        nearest == {f \in tried : \A g \in tried : ~IsNearer(g, f, p, q)}
    IN  CHOOSE f \in nearest : \A g \in nearest : f = g \/ ComesBefore(f, g)

\* The position k / n of the way along length elements: an index, and the share, in n-ths,
\* of its element and not of the next.
InterpolatedArrayRatioAtT(length, k, n) ==
    IF k < 0 THEN [ratio |-> n, index |-> 0]
    ELSE IF k >= n THEN [ratio |-> n, index |-> length - 1]
    ELSE [ratio |-> n - (((length - 1) * k) % n), index |-> ((length - 1) * k) \div n]

\* The one of to, a list that grows, that is nearest to n from above.  The best so far is
\* compared, as it is, with the distance of the next.
Undefined == -1
GetClosestNotSmaller(n, to) ==
    LET Better(best, i) == IF to[i] - n >= 0 /\ (best = Undefined \/ to[i] - n < best) THEN to[i] ELSE best
        F[i \in 0..Len(to)] == IF i = 0 THEN Undefined ELSE Better(F[i - 1], i)
    IN  F[Len(to)]
GetClosestTo(n, to) ==
    to[Min({i \in DOMAIN to : \A j \in DOMAIN to : Absolute(n - to[i]) <= Absolute(n - to[j])})]

\* The power of ten of a number, which is 10 or more; nice steps are in tenths of it.
Scale(n) == Max({s \in {1, 10, 100, 1000, 10000} : s <= n})
NiceIncs == <<10, 25, 50, 100>>
NiceDividesOf(s, e, max) ==
    LET inc == (e - s) \div max
        scale == Scale(inc)
        step == (GetClosestNotSmaller((inc * 10) \div scale + (IF (inc * 10) % scale = 0 THEN 0 ELSE 1), NiceIncs) * scale) \div 10
    IN  [start |-> RoundToMod(s, step), inc |-> step]

CellSizeInWidth(width, spacing, marginMin, marginMax, count) ==
    LET inner == width - marginMin - marginMax
        s == Cut(inner - spacing * (count - 1), count)
    IN  [size |-> s, start |-> Cut(inner - (s * count + spacing * (count - 1)), 2) + marginMin]

\* The digits of a number with a comma before every third but the first, counted from the end.
MakeHumanFriendly(digits) ==
    LET commas == (Len(digits) - 1) \div 3
        out == Len(digits) + commas
    IN  [j \in 1..out |-> IF (out - j) % 4 = 3 THEN "," ELSE digits[j - (commas - (out - j) \div 4)]]
-----------------------------------------------------------------------------
\* Ranges.
NoRange == [valid |-> FALSE, min |-> 0, max |-> 0]
MakeRange(min, max) == [valid |-> TRUE, min |-> min, max |-> max]
Added(r, n) == IF ~r.valid THEN MakeRange(n, n) ELSE MakeRange(MinMax(r.min, n)[1], MinMax(r.max, n)[2])
Contracted(r, n) ==
    IF ~r.valid THEN r
    ELSE IF r.max - n > 0 /\ r.max - n < n - r.min THEN [r EXCEPT !.max = n]
    ELSE IF n - r.min > 0 THEN [r EXCEPT !.min = n] ELSE r
ContractedExcludingInt(r, n) ==
    IF ~r.valid THEN r
    ELSE IF r.max - n > 0 /\ r.max - n < n - r.min THEN [r EXCEPT !.max = n - 1]
    ELSE IF n - r.min > 0 THEN [r EXCEPT !.min = n + 1] ELSE r
ClampedTo(r, n) == IF r.valid THEN Clamped(n, r.min, r.max) ELSE n
RangesOverlap(r, o) == r.valid /\ o.valid /\ r.max >= o.min /\ r.min <= o.max
GetRangeMins(rs) == LET valid == SelectSeq(rs, LAMBDA r : r.valid) IN [i \in DOMAIN valid |-> valid[i].min]
GetRangeMaxes(rs) == LET valid == SelectSeq(rs, LAMBDA r : r.valid) IN [i \in DOMAIN valid |-> valid[i].max]
-----------------------------------------------------------------------------
\* Bits: a word is the set of its bits, a table of names a function from masks to names.
ChangeBits(all, mask, on) == IF on THEN all \cup mask ELSE all \ mask
CopyBit(to, from, mask) == ChangeBits(to, mask, from \cap mask # {})
\* The names are joined in any order; one that is unknown, as of the empty text, has no bits.
BitsToStrings(n, m) == {m[mask] : mask \in {k \in DOMAIN m : k # {} /\ k \subseteq n}}
StringsToBits(names, m) == UNION {mask \in DOMAIN m : m[mask] \in names}
\* bits of a word of 16, of which the first is startFromEnd from its end.
IntFromBits(word, bits, startFromEnd) ==
    LET up == Max({0, startFromEnd - bits}) IN (word \div 2^up) % 2^bits

\* What is left of a number that is set in a variable of a width.
SetAny(n, width, signed) ==
    LET low == n % 2^width IN IF signed /\ low >= 2^(width - 1) THEN low - 2^width ELSE low
GetAny(n) == n
-----------------------------------------------------------------------------
\* Booleans that may be unknown, and their texts.
BoolInd == {"Unknown", "False", "True"}
FromBool(b) == IF b THEN "True" ELSE "False"
IsTrue(b) == b = "True"
BoolString(b) == IF b = "Unknown" THEN "undef" ELSE IF IsTrue(b) THEN "true" ELSE "false"
FromStringWithInd(str, def) ==
    CASE str = "-1" -> "Unknown"
      [] str \in {"1", "true", "TRUE"} -> "True"
      [] str \in {"0", "false", "FALSE"} -> "False"
      [] OTHER -> def
FromString(str, def) ==
    IF FromStringWithInd(str, "Unknown") = "Unknown" THEN def ELSE IsTrue(FromStringWithInd(str, "Unknown"))
-----------------------------------------------------------------------------
\* What the operations promise.

\* What is rounded is a multiple, less than one away, towards zero, downwards or, from zero
\* on, upwards.
RoundingIsNear(n, mod) ==
    /\ RoundToMod(n, mod) % mod = 0 /\ RoundToAccuracy(n, mod) % mod = 0 /\ RoundUpToMod(n, mod) % mod = 0
    /\ Absolute(RoundToMod(n, mod)) <= Absolute(n) /\ Absolute(n) - Absolute(RoundToMod(n, mod)) < mod
    /\ RoundToAccuracy(n, mod) <= n /\ n - RoundToAccuracy(n, mod) < mod
    /\ n >= 0 => RoundUpToMod(n, mod) >= n /\ RoundUpToMod(n, mod) - n < mod
    /\ n >= 0 => RoundUpToMod(n, mod) - RoundToMod(n, mod) \in {0, mod}
\* No fraction of small numbers is nearer than the one that is found, tried or not.
FractionIsNearest(p, q, max) ==
    \A f \in Fractions(max) : ~IsNearer(f, CalculateFraction(p, q, max), p, q)
\* Interpolated positions go from the first element to the last, in order, by even steps.
InterpolationIsEven(length, n) ==
    LET At(k) == LET r == InterpolatedArrayRatioAtT(length, k, n) IN r.index * n + n - r.ratio
    IN  /\ At(0) = 0 /\ At(n) = (length - 1) * n /\ At(-1) = At(0) /\ At(n + 1) = At(n)
        /\ \A k \in 0..(n - 1) : At(k + 1) - At(k) = length - 1
\* A range is divided in at most max steps, each of a nice size, from before its start.
DivisionIsNice(s, e, max) ==
    LET d == NiceDividesOf(s, e, max)
    IN  /\ d.inc * max >= e - s /\ d.inc <= 4 * ((e - s) \div max)
        /\ d.start <= s /\ s - d.start < d.inc /\ d.start % d.inc = 0
        /\ \E i \in DOMAIN NiceIncs : d.inc * 10 = NiceIncs[i] * Scale(d.inc) \/ d.inc = Scale(d.inc)
\* The nearest is one of the list, and no other is nearer; from above it is not below.
ClosestIsNearest(n, to) ==
    /\ \A i \in DOMAIN to : Absolute(n - GetClosestTo(n, to)) <= Absolute(n - to[i])
    /\ GetClosestNotSmaller(n, to) # Undefined => GetClosestNotSmaller(n, to) >= n
    /\ GetClosestNotSmaller(n, to) = Undefined <=> \A i \in DOMAIN to : to[i] < n
\* Cells with their spacing fit between the margins, centered, and no larger cells would.
CellsFitInWidth(width, spacing, marginMin, marginMax, count) ==
    LET c == CellSizeInWidth(width, spacing, marginMin, marginMax, count)
        end == c.start + c.size * count + spacing * (count - 1)
    IN  c.size > 0 =>
          /\ c.start >= marginMin /\ end <= width - marginMax
          /\ (width - marginMax - end) - (c.start - marginMin) \in {0, 1}
          /\ (c.size + 1) * count + spacing * (count - 1) > width - marginMin - marginMax
\* The commas are what is added to the digits, and three stand between and after them.
CommasGroupDigits(digits) ==
    LET out == MakeHumanFriendly(digits)
        commas == {j \in DOMAIN out : out[j] = ","}
    IN  /\ SelectSeq(out, LAMBDA c : c # ",") = digits
        /\ out[1] # "," /\ Cardinality(commas) = (Len(digits) - 1) \div 3
        /\ \A j \in commas : (Len(out) - j) % 4 = 3
\* A range that numbers are added to spans just them; contracting by one inside, but for the
\* last, leaves it an end or, excluding, out, on the side that loses less; clamping goes to
\* the nearest end.
RangesSpan(a, b, c, n) ==
    LET r == Added(Added(Added(NoRange, a), b), c)
        o == Added(Added(NoRange, n), c)
        k == Contracted(r, n)
        x == ContractedExcludingInt(r, n)
    IN  /\ r = MakeRange(Min({a, b, c}), Max({a, b, c}))
        /\ n \in r.min..(r.max - 1) =>
              /\ k.min..k.max \subseteq r.min..r.max /\ n \in {k.min, k.max}
              /\ n \notin x.min..x.max \/ (x = r /\ n = r.min)
              /\ k.max - k.min >= Max({r.max - n, n - r.min})
        /\ n < r.min => k = r /\ x = r
        /\ ClampedTo(r, n) \in r.min..r.max /\ \A m \in r.min..r.max : Absolute(ClampedTo(r, n) - n) <= Absolute(m - n)
        /\ RangesOverlap(r, o) <=> (r.min..r.max) \cap (o.min..o.max) # {}
        /\ ~RangesOverlap(r, NoRange) /\ ClampedTo(NoRange, n) = n
        /\ GetRangeMins(<<r, NoRange, o>>) = <<r.min, o.min>> /\ GetRangeMaxes(<<r, NoRange, o>>) = <<r.max, o.max>>
\* A word of named bits becomes names and again the bits that have names; a copied bit is the
\* one it is copied from and leaves the others.
BitsReturn(n, from, mask, m) ==
    /\ StringsToBits(BitsToStrings(n, m), m) = UNION {k \in DOMAIN m : k \subseteq n}
    /\ CopyBit(n, from, mask) \ mask = n \ mask
    /\ Cardinality(mask) = 1 => CopyBit(n, from, mask) \cap mask = from \cap mask
\* Two pieces of the bits of a word are the word.
PiecesMakeTheWord(word, k) == IntFromBits(word, 16 - k, 16) * 2^k + IntFromBits(word, k, k) = word
\* A number that fits a width is read as it was set, and any other differs by whole turns.
WidthsWrap(n, width, signed) ==
    LET got == GetAny(SetAny(n, width, signed))
    IN  /\ (got - n) % 2^width = 0
        /\ got = n <=> n \in (IF signed THEN -(2^(width - 1))..(2^(width - 1) - 1) ELSE 0..(2^width - 1))
\* A boolean is what its text says; an unknown one is the default.
BooleansReturn(b, def) ==
    /\ FromStringWithInd(BoolString(b), "Unknown") = b
    /\ FromString(BoolString(b), def) = IF b = "Unknown" THEN def ELSE IsTrue(b)
    /\ FromString(BoolString(FromBool(def)), ~def) = def
-----------------------------------------------------------------------------
(***************************************************************************)
(* zwords' sizes, distances and counted words.  A number with a fraction   *)
(* is given in eighths, which have three digits exactly; a text of one is  *)
(* its sign, whole part and digits after the point.                        *)
(***************************************************************************)
SizePrefixes == <<"", "K", "M", "G", "T", "P">>
Power(n, k) == FoldLeft(LAMBDA product, i : product * n, 1, [i \in 1..k |-> i])

\* fmt's %.nf of a fraction: the nearest number of that many digits, and the even one of two.  (Of two
\* as near the code takes one or the other by the last bit of the float if that isn't exact.)
Nearest(num, den) ==
    LET low == num \div den
        twice == 2 * (num % den)
    IN IF twice > den \/ (twice = den /\ low % 2 = 1) THEN low + 1 ELSE low
Written(negative, units, digits) ==
    [negative |-> negative, whole |-> units \div Power(10, digits),
     digits |-> [i \in 1..digits |-> (units \div Power(10, digits - i)) % 10]]

\* The zeros at the end of the digits after a point go, and with the last of them the point.
DigitsKept(digits) == LET other == {i \in DOMAIN digits : digits[i] # 0}
                      IN IF other = {} THEN <<>> ELSE SubSeq(digits, 1, CHOOSE i \in other : \A j \in other : j <= i)
NiceFloat(num, den, significant) ==
    LET digits == IF significant = -1 THEN 6 ELSE significant
        text == Written(num < 0, Nearest(Absolute(num) * Power(10, digits), den), digits)
    IN [text EXCEPT !.digits = DigitsKept(@)]

\* Every size below none of the units' limits is too big.
getSizeString(size, multiples, significant) ==
    LET fits == {k \in DOMAIN SizePrefixes : size < Power(multiples, k)}
        k == CHOOSE n \in fits : \A m \in fits : n <= m
    IN IF fits = {} THEN [text |-> "too big"]
       ELSE [text |-> "size", unit |-> k, prefix |-> SizePrefixes[k], number |-> NiceFloat(size, Power(multiples, k - 1), significant)]

(* Distance: meters are divided by 1.0936133, and by 11/10 here, to give   *)
(* yards.  The limits of kilometers and miles are 1000 and 1760.  Meters   *)
(* are rounded whether round is said or not, yards only then.              *)
YardMeters == [num |-> 10, den |-> 11]
Ceiling(num, den) == -((-num) \div den)
RoundedUp(num, den) == Ceiling(num, den) + 9
Distance(halfMeters, metric, round, limits) ==
    LET num == IF metric THEN halfMeters ELSE halfMeters * YardMeters.num
        den == IF metric THEN 2 ELSE 2 * YardMeters.den
        isLong == num >= (IF metric THEN limits.km ELSE limits.mile) * den
        per == IF ~isLong THEN 1 ELSE IF metric THEN limits.km ELSE limits.mile
        unit == IF metric THEN IF isLong THEN "km" ELSE "meter" ELSE IF isLong THEN "mile" ELSE "yard"
        short == IF unit = "yard" THEN [num |-> num \div den, den |-> 1] ELSE [num |-> num, den |-> den * per]
    IN [unit |-> unit,
        number |-> IF unit = "meter" \/ (unit = "yard" /\ round) THEN Written(FALSE, RoundedUp(short.num, short.den), 0)
                   ELSE IF round /\ short.num > 50 * short.den THEN Written(FALSE, short.num \div short.den, 0)
                   ELSE Written(FALSE, Nearest(short.num * 10, short.den), 1)]

(* Words in the plural: by the language's rule, or as given.               *)
PluralizeEnglishWord(word) ==
    LET start == SubSeq(word, 1, Len(word) - 1)
    IN IF word # <<>> /\ Last(word) = "s" THEN start \o <<"e", "s">>
       ELSE IF word # <<>> /\ Last(word) = "y" THEN start \o <<"i", "e", "s">> ELSE Append(word, "s")
IsOne(eighths) == eighths \in 8..15
PluralizeWord(word, eighths, lang, plural) ==
    IF IsOne(eighths) THEN word
    ELSE IF plural # <<>> THEN plural
    ELSE IF lang \in {"", "en", "uk", "us"} THEN PluralizeEnglishWord(word)
    ELSE IF lang \in {"no", "da", "sv"} THEN word \o <<"e", "r">> ELSE <<>>
PluralizeWordWithTable(word, eighths, lang, plural, table) ==
    LET n == IF eighths < 0 THEN -((-eighths) \div 8) ELSE eighths \div 8
    IN [count |-> IF n \in DOMAIN table THEN table[n] ELSE n, word |-> PluralizeWord(word, eighths, lang, plural)]
PluralWordWithCount(word, eighths, lang, plural, significant) ==
    [count |-> NiceFloat(eighths, 8, significant), word |-> PluralizeWord(word, eighths, lang, plural)]
Pluralize(word, n) == PluralWordWithCount(word, 8 * n, "", <<>>, 0)
-----------------------------------------------------------------------------
(* Laws *)

\* What a written number is, in thousandths.
Thousandths(text) ==
    LET digit(i) == IF i \in DOMAIN text.digits THEN text.digits[i] ELSE 0
        n == text.whole * 1000 + digit(1) * 100 + digit(2) * 10 + digit(3)
    IN IF text.negative THEN -n ELSE n

\* zwords.go:50, "only significant amount of post-comma digits": no text ends with a zero after
\* the point, it has no more digits than asked for and is never further from the number than half of the last of them.
NiceFloatIsNear(eighths, significant) ==
    LET text == NiceFloat(eighths, 8, significant)
        apart == Absolute(Thousandths(text) - eighths * 125)
    IN /\ text.digits # <<>> => Last(text.digits) # 0
       /\ Len(text.digits) <= (IF significant = -1 THEN 3 ELSE significant)
       /\ 2 * apart <= (IF significant \in 0..2 THEN Power(10, 3 - significant) ELSE 0)

\* zwords.go:26, getSizeString: the unit is the largest that the size has one of, and a larger
\* size is never shown as a smaller one.
SizesGrow(size, larger, multiples, significant) ==
    LET one == getSizeString(size, multiples, significant)
        two == getSizeString(larger, multiples, significant)
        isSize(s) == s.text = "size"
    IN /\ isSize(one) /\ size >= 0 =>
             /\ one.unit > 1 => size >= Power(multiples, one.unit - 1)
             /\ size < Power(multiples, one.unit)
             /\ Absolute(Thousandths(one.number) * Power(multiples, one.unit - 1) - 1000 * size) * 2 <=
                   Power(10, 3 - significant) * Power(multiples, one.unit - 1)
       /\ ~isSize(one) <=> size >= Power(multiples, Len(SizePrefixes))
       /\ size <= larger /\ isSize(two) =>
             /\ isSize(one)
             /\ one.unit < two.unit \/ (one.unit = two.unit /\ Thousandths(one.number) <= Thousandths(two.number))

\* zwords.go:372, Distance: in one unit a larger distance is never shown as a smaller one, there is not one of the
\* long unit in a short one, of which ten more is shown at most, and of a long one at most one of the
\* unit less or a half of its digit more.
DistancesGrow(halfMeters, further, metric, round, limits) ==
    LET one == Distance(halfMeters, metric, round, limits)
        two == Distance(further, metric, round, limits)
        yards == (halfMeters * YardMeters.num) \div (2 * YardMeters.den)
        per == IF metric THEN limits.km ELSE limits.mile
        more == IF metric THEN Thousandths(one.number) * per * 2 - halfMeters * 1000
                ELSE Thousandths(one.number) * per * 2 * YardMeters.den - halfMeters * 1000 * YardMeters.num
        unit == per * 2000 * (IF metric THEN 1 ELSE YardMeters.den)
    IN /\ one.unit = two.unit => Thousandths(one.number) <= Thousandths(two.number)
       /\ one.unit \in {"km", "mile"} =>
             /\ two.unit = one.unit /\ one.number.whole >= 1 /\ 20 * more <= unit
             /\ IF round /\ one.number.whole >= 50 THEN more > -unit ELSE 20 * more >= -unit
             /\ round /\ one.number.whole > 50 => one.number.digits = <<>>
       /\ one.unit = "meter" => 2 * one.number.whole - halfMeters \in 18..20 /\ halfMeters < 2 * per
       /\ one.unit = "yard" => one.number.whole = yards + (IF round THEN 9 ELSE 0) /\ yards < per

\* zwords.go:78, "returns word if count == 1 or plural if != """: a word that is given is never
\* changed for one, the plural is given for none and for two, and a plural made by rule is longer than the word.
WordsAreCounted(word, plural, eighths, lang, table) ==
    LET counted == PluralizeWordWithTable(word, eighths, lang, plural, table)
    IN /\ eighths = 8 => counted.word = word
       /\ eighths \in {0, 16} /\ plural # <<>> => counted.word = plural
       /\ eighths % 8 = 0 /\ eighths # 8 /\ plural = <<>> /\ lang # "de" => Len(counted.word) > Len(word)
       /\ PluralWordWithCount(word, eighths, lang, plural, 3).word = counted.word
       /\ table = <<>> => Absolute(eighths) - 8 * Absolute(counted.count) \in 0..7
       /\ \A n \in DOMAIN table : eighths = 8 * n => counted.count = table[n]
       /\ eighths % 8 = 0 /\ eighths >= 0 => Pluralize(word, eighths \div 8).count.whole = eighths \div 8
=============================================================================
