------------------------------- MODULE Samples -------------------------------
(***************************************************************************)
(* What is kept of a row of values: zmath's Accumulator and                 *)
(* TimeWindowCounter, zhistogram, the filter of zbucket that keeps one       *)
(* value for each period, and the rolling buffer of zbytes.                  *)
(***************************************************************************)
EXTENDS Numbers, SequencesExt

\* Accumulator.
NoValues == [count |-> 0, sum |-> 0, min |-> 0, max |-> 0]
Add(a, value) ==
    [count |-> a.count + 1, sum |-> a.sum + value,
     min |-> IF a.count = 0 \/ value < a.min THEN value ELSE a.min,
     max |-> IF a.count = 0 \/ value > a.max THEN value ELSE a.max]
-----------------------------------------------------------------------------
\* TimeWindowCounter: reports holds the difference of the total at each average it reported.
NewTimeWindowCounter(now) == [total |-> 0, lastTotal |-> 0, start |-> now, reports |-> <<>>]
SetCount(b, window, now, n) ==
    LET passed == now - b.start > window
        starts == {s \in b.start..now : (s - b.start) % window = 0 /\ now - (s + window) <= 0}
    IN  IF passed
        THEN [total |-> n, lastTotal |-> b.total, start |-> Min(starts),
              reports |-> Append(b.reports, b.total - b.lastTotal)]
        ELSE [b EXCEPT !.total = n]
-----------------------------------------------------------------------------
\* Histogram: classes in a sequence, each with its count and its highest value.
Class(max) == [count |-> 0, max |-> max]
SetupRanges(min, maxes, accumulate) ==
    [min |-> min, classes |-> [i \in DOMAIN maxes |-> Class(maxes[i])], below |-> 0, above |-> 0,
     belowSum |-> 0, aboveSum |-> 0, accumulate |-> accumulate]
Setup(step, min, max) ==
    LET end == min + RoundUpToMod(max - min, step)
    IN  SetupRanges(min, [i \in 1..((end - min) \div step) |-> min + i * step], FALSE)
AddClass(h, max) ==
    IF \E i \in DOMAIN h.classes : h.classes[i].max = max THEN h
    ELSE [h EXCEPT !.classes = SortSeq(Append(@, Class(max)), LAMBDA c, d : c.max < d.max)]
AddValue(h, value) ==
    LET Fits(c) == IF h.accumulate THEN c.max = value ELSE value <= c.max
        fitting == {i \in DOMAIN h.classes : Fits(h.classes[i])}
    IN  IF value < h.min THEN [h EXCEPT !.below = @ + 1, !.belowSum = @ + value]
        ELSE IF fitting # {} THEN [h EXCEPT !.classes[Min(fitting)].count = @ + 1]
        ELSE IF h.accumulate THEN [h EXCEPT !.classes = Append(@, [count |-> 1, max |-> value])]
        ELSE [h EXCEPT !.above = @ + 1, !.aboveSum = @ + value]
TotalCount(h) == h.above + h.below + MapThenSumSet(LAMBDA i : h.classes[i].count, DOMAIN h.classes)
MaxUsedClassIndex(h) == Max({0} \cup {i \in DOMAIN h.classes : h.classes[i].count # 0})
MergeIn(h, in) ==
    LET Same(i) == {j \in DOMAIN in.classes : in.classes[j].max = h.classes[i].max}
        merged == [i \in DOMAIN h.classes |->
                      [h.classes[i] EXCEPT !.count = @ + IF Same(i) = {} THEN 0 ELSE in.classes[Min(Same(i))].count]]
        found == {Min(Same(i)) : i \in {k \in DOMAIN h.classes : Same(k) # {}}}
        others == SelectSeq([j \in DOMAIN in.classes |-> j], LAMBDA j : j \notin found)
    IN  [h EXCEPT !.classes = merged \o [k \in DOMAIN others |-> in.classes[others[k]]],
                  !.above = @ + in.above, !.below = @ + in.below]
\* What flushing a bucket leaves of its histogram: classes without a count or a value.
ClearedHistogram(h) == [h EXCEPT !.classes = [i \in DOMAIN @ |-> Class(0)], !.above = 0, !.below = 0]
-----------------------------------------------------------------------------
\* The filter of zbucket: one result for each period that has a value.  A payload is the
\* number of its input, 0 none.
NewFilter(start, period, type, hist) ==
    [type |-> type, start |-> start, period |-> period, cell |-> start, best |-> 0, bestPos |-> 0, bestVal |-> 0,
     bestIndex |-> 0, first |-> 0, last |-> 0, count |-> 0, sum |-> 0, min |-> 0, max |-> 0, minAt |-> 0, maxAt |-> 0,
     hist |-> hist, results |-> <<>>]
StartForPos(f, pos) == f.start + RoundToMod(pos - f.start, f.period)
ResultOf(f, within) ==
    [best |-> f.best, bestIndex |-> f.bestIndex, first |-> f.first, last |-> f.last, count |-> f.count, sum |-> f.sum,
     min |-> f.min, max |-> f.max, minAt |-> f.minAt, maxAt |-> f.maxAt, hist |-> f.hist, within |-> within,
     index |-> (f.cell - f.start) \div f.period]
\* Mutant: the best of a flushed period stays the best of the next.
FlushWithEndPosKept(f, atPos) ==
    IF f.best = 0 THEN f
    ELSE [f EXCEPT !.results = Append(@, ResultOf(f, atPos = Undefined \/ atPos < f.cell + f.period)), !.last = 0]
\* At a position, or at none when the flush comes from outside.
FlushWithEndPos(f, atPos) ==
    LET within == atPos = Undefined \/ atPos < f.cell + f.period
    IN  IF f.best = 0 THEN f
        ELSE [f EXCEPT !.results = Append(@, ResultOf(f, within)), !.best = 0, !.last = 0,
                       !.hist = IF f.type = "histogram" THEN ClearedHistogram(@) ELSE @]

\* The first value of a cell is its best, whatever an override says.
FirstOfCell(f, payload, pos, val) ==
    [f EXCEPT !.last = payload, !.count = 1, !.sum = val, !.min = val, !.max = val, !.minAt = payload, !.maxAt = payload,
              !.first = payload, !.best = payload, !.bestIndex = 0, !.bestPos = pos, !.bestVal = val,
              !.cell = StartForPos(f, pos), !.hist = IF f.type = "histogram" THEN AddValue(@, val) ELSE @]
IsBetter(f, pos, val) ==
    LET mid == f.cell + f.period \div 2
    IN  CASE f.type = "nearest" -> Absolute(f.bestPos - mid) > Absolute(pos - mid)
          [] f.type = "largest" -> val > f.bestVal
          [] f.type = "smallest" -> val < f.bestVal
          [] f.type = "histogram" -> TRUE
NextOfCell(f, payload, pos, val, override) ==
    LET g == [f EXCEPT !.last = payload, !.count = @ + 1, !.sum = @ + val,
                       !.min = MinMax(@, val)[1], !.minAt = IF f.min > val THEN payload ELSE @,
                       !.max = MinMax(@, val)[2], !.maxAt = IF f.max < val THEN payload ELSE @]
        h == IF f.type = "histogram" /\ override # "False" THEN [g EXCEPT !.hist = AddValue(@, val)] ELSE g
    IN  IF override = "True" \/ (override = "Unknown" /\ IsBetter(f, pos, val))
        THEN [h EXCEPT !.best = payload, !.bestPos = pos, !.bestVal = val, !.bestIndex = g.count - 1]
        ELSE h
SetInput(f, payload, pos, val, override) ==
    LET g == IF pos >= f.cell + f.period THEN FlushWithEndPos(f, pos) ELSE f
    IN  IF pos < f.cell THEN f
        ELSE IF g.best = 0 THEN FirstOfCell(g, payload, pos, val)
        ELSE NextOfCell(g, payload, pos, val, override)
SetValueInPosRange(f, payload, posStart, posEnd, val) ==
    LET times == IF posEnd < posStart THEN 0 ELSE (posEnd - posStart) \div f.period + 1
    IN  IF posStart < f.cell \/ posEnd < f.cell THEN f
        ELSE FoldLeft(LAMBDA g, k : SetInput(g, payload, posStart + (k - 1) * f.period, val, "Unknown"),
                      f, [k \in 1..times |-> k])
-----------------------------------------------------------------------------
\* The rolling buffer: a byte is its number among all that were written.
NewRollingBuffer(maxSize) == [data |-> <<>>, pos |-> 0, maxSize |-> maxSize]
Write(r, bytes) ==
    LET all == r.data \o bytes
        diff == Len(all) - r.maxSize
    IN  IF diff > 0 THEN [r EXCEPT !.data = SubSeq(all, diff + 1, Len(all)), !.pos = IF @ > diff THEN @ - diff ELSE 0]
        ELSE [r EXCEPT !.data = all]
SeekTo(r, offset, whence) ==
    CASE whence = "start" -> offset
      [] whence = "current" -> r.pos + offset
      [] whence = "end" -> Len(r.data) - offset
Seek(r, offset, whence) ==
    IF SeekTo(r, offset, whence) \in 0..Len(r.data) THEN [r EXCEPT !.pos = SeekTo(r, offset, whence)] ELSE r
Read(r, n) ==
    LET get == IF r.pos >= Len(r.data) THEN 0 ELSE Min({n, Len(r.data) - r.pos})
    IN  [bytes |-> SubSeq(r.data, r.pos + 1, r.pos + get), buffer |-> [r EXCEPT !.pos = @ + get]]
-----------------------------------------------------------------------------
\* What is promised of the samples.
SumOfSeq(s) == MapThenSumSet(LAMBDA i : s[i], DOMAIN s)

\* An accumulator knows the number, the sum and the ends of its values; a histogram counts
\* each value once, in the first class that holds it, and one that others are merged into
\* counts all of theirs.
HistogramCounts(values, more, step, min, max) ==
    LET Fill(h, s) == FoldLeft(AddValue, h, s)
        new == Setup(step, min, max)
        h == Fill(new, values)
        low(i) == IF i = 1 THEN min - 1 ELSE new.classes[i - 1].max
        all == FoldLeft(Add, NoValues, values)
        accumulated == Fill(SetupRanges(min, <<>>, TRUE), values)
    IN  /\ all.count = Len(values) /\ all.sum = SumOfSeq(values)
        /\ values # <<>> => all.min = Min(ToSet(values)) /\ all.max = Max(ToSet(values))
        /\ TotalCount(h) = Len(values)
        /\ \A i \in DOMAIN h.classes : h.classes[i].count = Cardinality({k \in DOMAIN values : values[k] \in (low(i) + 1)..new.classes[i].max})
        /\ h.below = Cardinality({k \in DOMAIN values : values[k] < min})
        /\ \A i \in DOMAIN h.classes : i > MaxUsedClassIndex(h) => h.classes[i].count = 0
        /\ LET m == MergeIn(h, Fill(new, more))
           IN  m.classes = Fill(h, more).classes /\ TotalCount(m) = Len(values) + Len(more)
        /\ LET m == MergeIn(accumulated, Fill(SetupRanges(min, <<>>, TRUE), more))
           IN  \A i \in DOMAIN m.classes :
                   m.classes[i].count = Cardinality({k \in DOMAIN values : values[k] = m.classes[i].max})
                                          + Cardinality({k \in DOMAIN more : more[k] = m.classes[i].max})
        /\ FoldLeft(AddClass, SetupRanges(0, <<>>, FALSE), values).classes
              = [i \in 1..Cardinality(ToSet(values)) |-> Class(SortSeq(SetToSeq(ToSet(values)), LAMBDA a, b : a < b)[i])]

\* What a window counter has reported is its total at the last report: nothing is counted
\* twice or left out; and its window is the one that now lies in.
WindowsAddUp(window, steps) ==
    LET b == FoldLeft(LAMBDA c, s : SetCount(c, window, s.now, s.count), NewTimeWindowCounter(0), steps)
        now == steps[Len(steps)].now
    IN  /\ SumOfSeq(b.reports) = b.lastTotal
        /\ b.start % window = 0 /\ b.start <= now /\ now <= b.start + window
        /\ b.total = steps[Len(steps)].count

\* Each input that does not come before the current period has its place in one result, with
\* the others of its period and in order; the best of a period is the first of the best ones,
\* and only a flush from outside ends a period early.
BucketsAreComplete(type, start, period, inputs) ==
    LET new == NewFilter(start, period, type, SetupRanges(0, <<4, 9>>, FALSE))
        f == FlushWithEndPos(FoldLeft(LAMBDA g, i : SetInput(g, i, inputs[i].pos, inputs[i].val, inputs[i].over),
                                      new, [i \in DOMAIN inputs |-> i]), Undefined)
        cellOf(i) == (inputs[i].pos - start) \div period
        taken == {i \in DOMAIN inputs : inputs[i].pos >= start /\ \A j \in 1..(i - 1) : cellOf(j) <= cellOf(i)}
        of(k) == {i \in taken : cellOf(i) = f.results[k].index}
        val(i) == inputs[i].val
        mid(i) == Absolute(start + cellOf(i) * period + period \div 2 - inputs[i].pos)
        plain == \A i \in DOMAIN inputs : inputs[i].over = "Unknown"
    IN  /\ taken = UNION {of(k) : k \in DOMAIN f.results}
        /\ \A k \in DOMAIN f.results :
              LET r == f.results[k]
              IN  /\ r.first = Min(of(k)) /\ r.last = Max(of(k)) /\ r.count = Cardinality(of(k))
                  /\ r.sum = MapThenSumSet(val, of(k))
                  /\ r.min = Min({val(i) : i \in of(k)}) /\ val(r.minAt) = r.min
                  /\ r.max = Max({val(i) : i \in of(k)}) /\ val(r.maxAt) = r.max
                  /\ r.best \in of(k) /\ r.bestIndex = Cardinality({i \in of(k) : i < r.best})
                  /\ plain /\ type = "largest" => r.best = r.maxAt
                  /\ plain /\ type = "smallest" => r.best = r.minAt
                  /\ plain /\ type = "nearest" => r.best = Min({i \in of(k) : \A j \in of(k) : mid(i) <= mid(j)})
                  /\ type = "histogram" /\ plain => TotalCount(r.hist) = r.count
                  /\ \A i \in of(k) : inputs[i].over = "False" /\ i # r.first => r.best # i
                  /\ k > 1 => r.index > f.results[k - 1].index
                  /\ r.within <=> k = Len(f.results)
\* A value of a range is that of each period between its ends.
RangesFillBuckets(start, period, posStart, posEnd, val) ==
    LET f == FlushWithEndPos(SetValueInPosRange(NewFilter(start, period, "largest", SetupRanges(0, <<>>, FALSE)), 1, posStart, posEnd, val),
                             Undefined)
    IN  posStart >= start /\ posStart <= posEnd =>
          /\ f.results[1].index = (posStart - start) \div period
          /\ \A k \in DOMAIN f.results : f.results[k].sum = val /\ (k > 1 => f.results[k].index = f.results[k - 1].index + 1)
          /\ (posEnd - start) \div period - f.results[Len(f.results)].index \in {0, 1}

\* The buffer holds the last bytes written; a reader goes on at the byte it had come to, or
\* at the oldest when that one is gone, and misses nothing if it reads often enough.
BufferRolls(maxSize, ops) ==
    LET Do(s, op) ==
            CASE op.kind = "write" ->
                    [s EXCEPT !.buffer = Write(@, [k \in 1..op.n |-> s.written + k]), !.written = @ + op.n,
                              !.next = Max({@, s.written + op.n - maxSize})]
              [] op.kind = "read" ->
                    LET r == Read(s.buffer, op.n)
                    IN  [s EXCEPT !.buffer = r.buffer, !.next = @ + Len(r.bytes),
                                  !.right = @ /\ r.bytes = [k \in DOMAIN r.bytes |-> s.next + k]
                                              /\ (Len(r.bytes) < op.n => r.buffer.pos = Len(s.buffer.data))]
              [] op.kind = "seek" ->
                    LET b == Seek(s.buffer, op.n, op.whence)
                    IN  [s EXCEPT !.buffer = b, !.next = @ + b.pos - s.buffer.pos]
        end == FoldLeft(Do, [buffer |-> NewRollingBuffer(maxSize), written |-> 0, next |-> 0, right |-> TRUE], ops)
    IN  /\ end.right
        /\ Len(end.buffer.data) = Min({maxSize, end.written})
        /\ \A k \in DOMAIN end.buffer.data : end.buffer.data[k] = end.written - Len(end.buffer.data) + k
        /\ end.buffer.pos \in 0..Len(end.buffer.data)
        /\ end.next = end.written - Len(end.buffer.data) + end.buffer.pos
=============================================================================
