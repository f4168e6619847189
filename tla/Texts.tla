-------------------------------- MODULE Texts --------------------------------
(***************************************************************************)
(* zstr: texts that are cut, split, joined, compared, matched and replaced.  *)
(* A text is a sequence of characters, each of one byte, and an index of it  *)
(* counts from 1, with 0 for none.  A function that shortens a text its       *)
(* caller points to gives both: what it got and the rest.                     *)
(***************************************************************************)
EXTENDS Collections

Empty == <<>>
\* Go's strings package.
IsAt(s, sep, i) == i + Len(sep) - 1 <= Len(s) /\ SubSeq(s, i, i + Len(sep) - 1) = sep
Places(s, sep) == {i \in 1..(Len(s) + 1) : IsAt(s, sep, i)}
Index(s, sep) == IF Places(s, sep) = {} THEN 0 ELSE Min(Places(s, sep))
LastIndex(s, sep) == IF Places(s, sep) = {} THEN 0 ELSE Max(Places(s, sep))
To(s, n) == SubSeq(s, 1, n)
From(s, n) == SubSeq(s, n, Len(s))
\* The places of a separator from the left, none inside another, n at most.
Cuts(s, sep, n) ==
    FoldLeft(LAMBDA cuts, i : IF i \in Places(s, sep) /\ Len(cuts) < n /\ (cuts = Empty \/ cuts[Len(cuts)] + Len(sep) <= i)
                              THEN Append(cuts, i) ELSE cuts,
             Empty, [i \in 1..Len(s) |-> i])
SplitNTimes(s, sep, n) ==
    LET Start(cuts, k) == IF k = 1 THEN 1 ELSE cuts[k - 1] + Len(sep)
        Cut(cuts) == [k \in 1..(Len(cuts) + 1) |->
                         SubSeq(s, Start(cuts, k), IF k > Len(cuts) THEN Len(s) ELSE cuts[k] - 1)]
    IN  Cut(Cuts(s, sep, n - 1))
Split(s, sep) == SplitNTimes(s, sep, Len(s) + 2)
Join(parts, sep) ==
    FlattenSeq([k \in DOMAIN parts |-> IF k = 1 THEN parts[k] ELSE sep \o parts[k]])
TrimSpace(s) ==
    LET words == {i \in DOMAIN s : s[i] # " "} IN IF words = {} THEN Empty ELSE SubSeq(s, Min(words), Max(words))
Fields(s) == SelectSeq(Split(s, <<" ">>), LAMBDA p : p # Empty)
\* Pairs of old and new, of which the first that fits at a place is used.
ReplaceWith(s, pairs) ==
    LET Fitting(i) == {k \in DOMAIN pairs : IsAt(s, pairs[k].old, i)}
        Step(state, i) ==
            IF i < state.next THEN state
            ELSE IF Fitting(i) = {} THEN [state EXCEPT !.out = Append(@, s[i])]
            ELSE [next |-> i + Len(pairs[Min(Fitting(i))].old), out |-> state.out \o pairs[Min(Fitting(i))].new]
    IN  FoldLeft(Step, [next |-> 1, out |-> Empty], [i \in 1..Len(s) |-> i]).out
Pair(old, new) == [old |-> old, new |-> new]
-----------------------------------------------------------------------------
\* Mutant: a character that is added is forgotten.
GetLevenshteinDistanceNoInsert(a, b) ==
    LET Row(f, c) ==
            FoldLeftDomain(LAMBDA row, j : Append(row, Min({f[j + 1] + 1, f[j] + IF b[j] = c THEN 0 ELSE 1})),
                           <<f[1] + 1>>, b)
    IN  FoldLeft(Row, [j \in 1..(Len(b) + 1) |-> j - 1], a)[Len(b) + 1]
\* The edit distance, by rows of the distances of the prefixes of b.
GetLevenshteinDistance(a, b) ==
    LET Row(f, c) ==
            FoldLeftDomain(LAMBDA row, j :
                               Append(row, Min({f[j + 1] + 1, row[j] + 1, f[j] + IF b[j] = c THEN 0 ELSE 1})),
                           <<f[1] + 1>>, b)
    IN  FoldLeft(Row, [j \in 1..(Len(b) + 1) |-> j - 1], a)[Len(b) + 1]

\* Cutting at a place.
Body(str, pos, length) ==
    LET start == Max({pos, 0})
        end == IF length = -1 THEN Len(str) ELSE Min({start + length, Len(str)})
    IN  SubSeq(str, start + 1, end)
HeadChars(str, length) == To(str, Min({length, Len(str)}))
TailChars(str, length) == From(str, Max({1, Len(str) - length + 1}))
TruncatedCharsAtEnd(str, chars) == IF chars < Len(str) THEN To(str, Len(str) - chars) ELSE str
TruncatedFromEnd(str, length, endString) == IF Len(str) > length THEN To(str, length) \o endString ELSE str
TruncatedFromStart(str, length, endString) ==
    IF Len(str) > length THEN endString \o From(str, Len(str) - length + 1) ELSE str
TruncatedMiddle(str, length, moreString) ==
    IF Len(str) > length
    THEN To(str, length \div 2) \o moreString \o From(str, Len(str) - length \div 2 + 1) ELSE str
\* Parts are kept up to the one that reaches max; a divider counts as one character.
TruncatedAtCharFromEnd(str, max, divider, symbol) ==
    LET parts == Split(str, divider)
        length(k) == MapThenSumSet(LAMBDA i : Len(parts[i]), 1..k) + k - 1
        full == {k \in DOMAIN parts : length(k) >= max}
    IN  IF Len(str) <= max THEN str
        ELSE IF full = {} THEN str ELSE Join(To(parts, Min(full)), divider) \o symbol

\* Cutting at a separator: the part before it or after it, and the rest where there is one.
Got(got, rest) == [got |-> got, rest |-> rest]
HeadUntil(str, sep) == IF Index(str, sep) = 0 THEN str ELSE To(str, Index(str, sep) - 1)
HeadUntilWithRest(str, sep, rest) ==
    IF Index(str, sep) = 0 THEN Got(str, rest) ELSE Got(HeadUntil(str, sep), From(str, Index(str, sep) + Len(sep)))
HeadUntilIncluding(str, sep, rest) ==
    LET cut == HeadUntilWithRest(str, sep, rest)
    IN  IF Index(str, sep) = 0 THEN cut ELSE Got(cut.got \o sep, cut.rest)
\* The rest leaves one character out, whatever the separator's length.
HeadUntilLast(str, sep, rest) ==
    LET i == LastIndex(str, sep) IN IF i = 0 THEN Got(str, rest) ELSE Got(To(str, i - 1), From(str, i + 1))
TailUntil(str, sep) == IF LastIndex(str, sep) = 0 THEN str ELSE From(str, LastIndex(str, sep) + Len(sep))
TailUntilWithRest(str, sep, rest) ==
    LET i == LastIndex(str, sep) IN IF i = 0 THEN Got(str, rest) ELSE Got(TailUntil(str, sep), To(str, i - 1))
After(str, after) == IF Index(str, after) = 0 THEN Empty ELSE From(str, Index(str, after) + Len(after))
ExtractStringTilSeparator(str, sep) == HeadUntilWithRest(str, sep, Empty)
ExtractStringFromEndTilSeparator(str, sep) ==
    IF LastIndex(str, sep) = 0 THEN Got(Empty, str) ELSE TailUntilWithRest(str, sep, str)
HasPrefix(str, prefix) == [ok |-> IsPrefix(prefix, str), rest |-> From(str, Len(prefix) + 1)]
HasSuffix(str, suffix) == [ok |-> IsSuffix(suffix, str), rest |-> To(str, Len(str) - Len(suffix))]

\* Splitting and joining.
SplitInTwo(str, sep) == LET p == SplitNTimes(str, sep, 2) IN IF Len(p) = 2 THEN p ELSE <<p[1], Empty>>
SplitByAnyOf(str, seps, skipEmpty) ==
    LET parts == FoldLeft(LAMBDA ps, sep : FlattenSeq([k \in DOMAIN ps |-> Split(ps[k], sep)]), <<str>>, seps)
    IN  IF skipEmpty THEN SelectSeq(parts, LAMBDA p : p # Empty) ELSE parts
SplitIntoLengths(s, length) ==
    [k \in 1..((Len(s) + length - 1) \div length) |-> SubSeq(s, (k - 1) * length + 1, Min({k * length, Len(s)}))]
ReversedText(s) == Reverse(s)
Concat(divider, parts) ==
    LET Both(str, s) ==
            LET prevHas == IsSuffix(divider, str)
                currentHas == IsPrefix(divider, s)
            IN  IF s = Empty THEN str
                ELSE IF str = Empty THEN s
                ELSE IF prevHas /\ currentHas THEN TruncatedCharsAtEnd(str, 1) \o s
                ELSE IF prevHas \/ currentHas THEN str \o s ELSE str \o divider \o s
    IN  FoldLeft(Both, Empty, parts)
JoinFunc(s, sep, get) ==
    Join(SelectSeq([i \in DOMAIN s |-> get[s[i]]], LAMBDA p : p # Empty), sep)
SplitStringWithDoubleAsEscape(str, split, n) ==
    LET parts == SplitNTimes(ReplaceWith(str, <<Pair(split \o split, <<"~">>)>>), split, n)
    IN  [k \in DOMAIN parts |-> ReplaceWith(parts[k], <<Pair(<<"~">>, split)>>)]

\* The longest text all of a slice begin with, or end with: one character more at a time
\* until one differs, or the first one has no more.
CommonExtremityOfSlice(slice, head) ==
    LET Part(s, n) == IF head THEN HeadChars(s, n) ELSE TailChars(s, n)
        differs == {n \in 1..(Len(slice[1]) + 1) : \E i \in DOMAIN slice : Part(slice[i], n) # Part(slice[1], n)}
    IN  IF Len(slice) = 0 THEN Empty
        ELSE IF Len(slice) = 1 \/ differs = {} THEN slice[1]
        ELSE Part(slice[1], Min(differs) - 1)
TrimCommonExtremityInSlice(slice, head) ==
    LET stub == CommonExtremityOfSlice(slice, head)
    IN  [i \in DOMAIN slice |-> IF head THEN HasPrefix(slice[i], stub).rest ELSE HasSuffix(slice[i], stub).rest]
TrimmedCommonExtremitiesInSlice(slice, head, tail) ==
    LET n == IF head THEN TrimCommonExtremityInSlice(slice, TRUE) ELSE slice
    IN  IF tail THEN TrimCommonExtremityInSlice(n, FALSE) ELSE n

\* The parts of a text between quotes, every second one in them.
RangeQuotedText(str, quoteChar) ==
    LET parts == Split(str, quoteChar) IN [i \in DOMAIN parts |-> [text |-> parts[i], in |-> i % 2 = 0]]
GetQuotedArgs(args) ==
    LET Words(p) == LET fields == Fields(ReplaceWith(p, <<Pair(<<"\\", " ">>, <<"~">>)>>))
                    IN  [k \in DOMAIN fields |-> ReplaceWith(fields[k], <<Pair(<<"~">>, <<" ">>)>>)]
        parts == RangeQuotedText(args, <<"\"">>)
    IN  FlattenSeq([i \in DOMAIN parts |-> IF parts[i].in THEN <<parts[i].text>> ELSE Words(parts[i].text)])

\* The index of the next sep after one, and the parts of a text that are between two symbols.
IndexFrom(str, sep, after) ==
    LET later == {i \in Places(str, sep) : i > after /\ i <= Len(str)} IN IF later = {} THEN 0 ELSE Min(later)
\* A start symbol at the first character is not seen.
RangeInFromToSymbolsInText(str, start, end) ==
    LET Step(state, n) ==
            LET s == IndexFrom(str, start, state.index)
                e == IF s = 0 THEN 0 ELSE IndexFrom(str, end, s + 1)
            IN  IF state.done \/ s = 0 \/ e = 0 THEN [state EXCEPT !.done = TRUE]
                ELSE [index |-> e, old |-> e, done |-> FALSE,
                      out |-> state.out \o <<[text |-> SubSeq(str, state.old + 1, s - 1), in |-> FALSE],
                                             [text |-> SubSeq(str, s + 1, e - 1), in |-> TRUE]>>]
        last == FoldLeft(Step, [index |-> 1, old |-> 0, done |-> FALSE, out |-> Empty], [n \in 1..Len(str) |-> n])
    IN  IF Len(str) > last.old THEN Append(last.out, [text |-> From(str, last.old + 1), in |-> FALSE]) ELSE last.out

\* Values for the names of a text: the longest of two names with one beginning first, and
\* again, until nothing changes or maxIter times, for what a value brings in.
MaxIter == 5
ReplaceVariablesWithValues(text, prefix, postfix, names, values) ==
    LET pairs == Append([k \in DOMAIN names |-> Pair(prefix \o names[Len(names) + 1 - k] \o postfix,
                                                     values[Len(names) + 1 - k])],
                        Pair(prefix \o prefix, prefix))
        content[k \in 0..MaxIter] ==
            IF k = 0 THEN text ELSE ReplaceWith(content[k - 1], pairs)
    IN  content[MaxIter]

\* Letters and their cases.
Lowers == [A |-> "a", B |-> "b", D |-> "d", I |-> "i", L |-> "l", R |-> "r", U |-> "u"]
ToLower(c) == IF c \in DOMAIN Lowers THEN Lowers[c] ELSE c
Lowered(str) == [i \in DOMAIN str |-> ToLower(str[i])]
IsUpper(c) == \A u \in DOMAIN Lowers : Lowers[u] # c
FirstToLower(str) == [str EXCEPT ![1] = ToLower(@)]
FirstToLowerWithAcronyms(str) ==
    LET lower == {i \in DOMAIN str : ToLower(str[i]) = str[i]}
        first == Min(lower)
    IN  IF lower = {} \/ first = 1 THEN Lowered(str)
        ELSE IF first = 2 THEN FirstToLower(str)
        ELSE Lowered(To(str, first - 2)) \o From(str, first - 1)
\* big holds the upper case characters that are not yet written: of several, the last one
\* begins the next word, unless they are an acronym of their own.
Acronyms == {<<"U", "R", "L">>, <<"I", "D">>}
PadCamelCase(str, pad) ==
    LET Separated(big) == IF Len(big) < 2 \/ big \in Acronyms THEN big
                          ELSE To(big, Len(big) - 1) \o pad \o From(big, Len(big))
        Step(state, c) ==
            IF c \in {" ", "_"} THEN [out |-> state.out \o state.big \o <<c>>, big |-> Empty, needsPad |-> FALSE]
            ELSE IF IsUpper(c)
                 THEN [out |-> IF state.big = Empty /\ state.needsPad THEN state.out \o pad ELSE state.out,
                       big |-> Append(state.big, c), needsPad |-> TRUE]
                 ELSE [out |-> state.out \o Separated(state.big) \o <<c>>, big |-> Empty, needsPad |-> TRUE]
        end == FoldLeft(Step, [out |-> Empty, big |-> Empty, needsPad |-> FALSE], str)
    IN  IF Len(str) = 3 /\ IsUpper(str[1]) /\ ~IsUpper(str[2]) /\ IsUpper(str[3]) THEN str ELSE end.out \o end.big
FilterWithFunc(str, keep) == SelectSeq(str, LAMBDA c : c \in keep)

\* Slices of strings.
ContainsDuplicates(strs) == \E i, j \in DOMAIN strs : i < j /\ strs[i] = strs[j]
RemoveDuplicates(strs) == UnionOf(<<>>, strs)
RemoveStringSlices(base, sub) == Deleted(base, sub)
UnionStringSet(aset, bset) == UnionOf(aset, bset)
SliceContainsAll(slice, all) == \A i \in DOMAIN all : IsIn(all[i], slice)
SlicesIntersect(aset, bset) == SetsOverlap(aset, bset)
SlicesAreEqual(aset, bset) == Len(aset) = Len(bset) /\ SliceContainsAll(aset, bset)
\* The first of each of removes.
RemovedFromSet(strs, removes) == FoldLeft(LAMBDA s, e : RemoveAtIndex(s, IndexIn(e, s)), strs, removes)
SetOrClearInSlices(set, strs, removes) ==
    IF set THEN AddToSet(strs, removes).slice ELSE RemovedFromSet(strs, removes)
SlicesHaveSameValues(a, b) ==
    LET Count(s, e) == Cardinality({i \in DOMAIN s : s[i] = e})
    IN  Len(a) = Len(b) /\ \A i \in DOMAIN a : Count(a, a[i]) = Count(b, a[i])
ExtractItemFromStrings(strs, item) ==
    [ok |-> IsIn(item, strs), strs |-> RemoveAtIndex(strs, IndexIn(item, strs))]
ExtractFlaggedArg(strs, flag) ==
    LET i == IndexIn(flag, strs)
    IN  IF i = 0 \/ Len(strs) < i + 1 THEN [ok |-> FALSE, value |-> Empty, strs |-> strs]
        ELSE [ok |-> TRUE, value |-> strs[i + 1], strs |-> To(strs, i - 1) \o From(strs, i + 2)]
ExtractFirstString(strs) == IF strs = <<>> THEN Got(Empty, strs) ELSE Got(strs[1], From(strs, 2))
ExtractLastString(strs) == IF strs = <<>> THEN Got(Empty, strs) ELSE Got(strs[Len(strs)], To(strs, Len(strs) - 1))

\* Parameters as one text, in the order the map gives them, and back: a part that is not a
\* name, set and a value is left out, and of one name the last stays.
ArgsToString(args, div, eq, quote) ==
    Join([k \in DOMAIN args |-> args[k].key \o eq \o quote \o args[k].value \o quote], div)
GetParametersFromArgString(str, sep, set) ==
    LET parts == Split(str, sep)
        pairs == SelectSeq([k \in DOMAIN parts |-> SplitNTimes(parts[k], set, 2)], LAMBDA p : Len(p) = 2)
        Key(k) == TrimSpace(pairs[k][1])
    IN  [key \in {Key(k) : k \in DOMAIN pairs} |->
            TrimSpace(pairs[Max({k \in DOMAIN pairs : Key(k) = key})][2])]
KeyValuesFindForKey(keyVals, key) == First(keyVals, {kv \in ToSet(keyVals) : kv.key = key})
-----------------------------------------------------------------------------
(* Laws, each over the inputs it names. *)

\* What is left, what is put in and what is changed, along the best way to lay b beside a.
DistanceIsEdits(a, b) ==
    LET Beside == {m \in SUBSET ((DOMAIN a) \X (DOMAIN b)) :
                      \A p, q \in m : p = q \/ (p[1] < q[1] /\ p[2] < q[2]) \/ (p[1] > q[1] /\ p[2] > q[2])}
        Cost(m) == Len(a) + Len(b) - 2 * Cardinality(m) + Cardinality({p \in m : a[p[1]] # b[p[2]]})
    IN  GetLevenshteinDistance(a, b) = Min({Cost(m) : m \in Beside})

\* A text cut at a separator is the parts and the separator again, whichever way it is cut.
CutsRejoin(str, sep) ==
    LET head == HeadUntilWithRest(str, sep, Empty)
        tail == TailUntilWithRest(str, sep, Empty)
        last == HeadUntilLast(str, sep, Empty)
        parts == Split(str, sep)
        got[k \in 0..Len(parts)] == IF k = 0 THEN Got(Empty, str) ELSE ExtractStringTilSeparator(got[k - 1].rest, sep)
        back[k \in 0..Len(parts)] ==
            IF k = 0 THEN Got(Empty, str) ELSE ExtractStringFromEndTilSeparator(back[k - 1].rest, sep)
    IN  /\ Index(str, sep) # 0 => /\ head.got \o sep \o head.rest = str
                                  /\ tail.rest \o sep \o tail.got = str
                                  /\ After(str, sep) = head.rest
                                  /\ last.got = tail.rest /\ (Len(sep) = 1 => last.rest = tail.got)
        /\ \A k \in DOMAIN parts : got[k].got = parts[k]
        /\ got[Len(parts)].rest = Empty
        /\ Len(sep) = 1 => \A k \in 1..(Len(parts) - 1) : back[k].got = parts[Len(parts) + 1 - k]
        /\ HeadUntilIncluding(str, sep, Empty).got \o HeadUntilIncluding(str, sep, Empty).rest = str
        /\ HasPrefix(str, sep).ok => sep \o HasPrefix(str, sep).rest = str
        /\ HasSuffix(str, sep).ok => HasSuffix(str, sep).rest \o sep = str
PiecesRejoin(str, n, sep) ==
    LET two == SplitInTwo(str, sep)
        lengths == SplitIntoLengths(str, n)
        parts == SplitByAnyOf(str, <<sep, <<"b">>>>, TRUE)
    IN  /\ HeadChars(str, n) \o Body(str, n, -1) = str
        /\ Body(str, 0, Len(str) - n) \o TailChars(str, n) = str \/ n > Len(str)
        /\ FlattenSeq(lengths) = str
        /\ \A k \in 1..(Len(lengths) - 1) : Len(lengths[k]) = n
        /\ lengths # <<>> => Len(lengths[Len(lengths)]) \in 1..n
        /\ two[1] = HeadUntil(str, sep) /\ two[2] = After(str, sep)
        /\ \A k \in DOMAIN parts : parts[k] # Empty /\ Places(parts[k], sep) = {} /\ ~IsIn("b", parts[k])
        /\ FilterWithFunc(FlattenSeq(parts), {"a"}) = FilterWithFunc(str, {"a"})
        /\ ReversedText(ReversedText(str)) = str
\* A shortened text has the length asked for, and the sign of what is left out.
CutsShorten(str, length) ==
    LET dot == <<".">>
        atEnd == TruncatedAtCharFromEnd(str, length, <<",">>, dot)
    IN  IF Len(str) <= length
        THEN {TruncatedFromEnd(str, length, dot), TruncatedFromStart(str, length, dot), TruncatedMiddle(str, length, dot), atEnd} = {str}
        ELSE /\ TruncatedFromEnd(str, length, dot) = HeadChars(str, length) \o dot
             /\ TruncatedFromStart(str, length, dot) = dot \o TailChars(str, length)
             /\ Len(TruncatedMiddle(str, length, dot)) = 2 * (length \div 2) + 1
             /\ \E i \in length..Len(str) : atEnd \in {To(str, i) \o dot, str}
             /\ TruncatedCharsAtEnd(str, length) \o TailChars(str, length) = str
\* One divider between parts that have one or none at their ends, and none beside an empty one.
ConcatDivides(parts) ==
    LET div == <<",">>
        Bare(p) == FilterWithFunc(p, ToSet(p) \ {","})
        bare == SelectSeq([k \in DOMAIN parts |-> Bare(parts[k])], LAMBDA p : p # Empty)
    IN  (\A k \in DOMAIN parts : parts[k] = Empty \/ Bare(parts[k]) # Empty) =>
        /\ SelectSeq(Split(Concat(div, parts), div), LAMBDA p : p # Empty) = bare
        /\ Index(Concat(div, parts), <<",", ",">>) = 0
        /\ JoinFunc(parts, div, [p \in ToSet(parts) |-> Bare(p)]) = Join(bare, div)
\* The common beginning is one of every text, and the longest of them; taken away, the texts
\* have none in common.
ExtremitiesAreCommon(slice, head) ==
    LET stub == CommonExtremityOfSlice(slice, head)
        trimmed == TrimCommonExtremityInSlice(slice, head)
        Starts(p, s) == IF head THEN IsPrefix(p, s) ELSE IsSuffix(p, s)
        Ends(s) == {SubSeq(s, i, j) : i \in 1..(Len(s) + 1), j \in 0..Len(s)}
    IN  /\ \A i \in DOMAIN slice : Starts(stub, slice[i])
        /\ slice # <<>> => \A p \in Ends(slice[1]) : (\A i \in DOMAIN slice : Starts(p, slice[i])) => Len(p) <= Len(stub)
        /\ \A i \in DOMAIN slice : slice[i] = IF head THEN stub \o trimmed[i] ELSE trimmed[i] \o stub
        /\ Len(slice) > 1 => /\ CommonExtremityOfSlice(trimmed, head) = Empty
                             /\ CommonExtremityOfSlice(TrimmedCommonExtremitiesInSlice(slice, TRUE, TRUE), head) = Empty
\* Quoted, arguments come back, whatever spaces they have and however many are between them.
QuotedArgsReturn(args) ==
    LET Quoted(k) == IF args[k].quoted THEN <<"\"">> \o args[k].text \o <<"\"">>
                     ELSE ReplaceWith(args[k].text, <<Pair(<<" ">>, <<"\\", " ">>)>>)
    IN  GetQuotedArgs(Join([k \in DOMAIN args |-> Quoted(k)], <<" ", " ">>)) = [k \in DOMAIN args |-> args[k].text]
\* Parts with every separator of their own doubled come back, where a part does not begin
\* with one.
EscapedPartsReturn(parts, sep) ==
    LET Escaped(p) == ReplaceWith(p, <<Pair(sep, sep \o sep)>>)
    IN  (parts # <<>> /\ \A k \in DOMAIN parts : parts[k] # Empty /\ ~IsPrefix(sep, parts[k])) =>
            SplitStringWithDoubleAsEscape(Join([k \in DOMAIN parts |-> Escaped(parts[k])], sep), sep, Len(parts)) = parts
\* Every name a text has is replaced by its value, also a name another one begins, and a
\* value that is itself a name by that name's value, unless it is its own.
VariablesAreReplaced(tokens, names, values) ==
    LET prefix == <<"$">>
        Of(token) == IF token = 0 THEN <<"x">> ELSE prefix \o names[token]
        Names(v) == {k \in DOMAIN names : v = prefix \o names[k]}
        For(token) == IF token = 0 THEN <<"x">>
                      ELSE IF Names(values[token]) = {} THEN values[token]
                      ELSE values[CHOOSE k \in Names(values[token]) : TRUE]
    IN  ReplaceVariablesWithValues(FlattenSeq([k \in DOMAIN tokens |-> Of(tokens[k])]), prefix, Empty, names, values)
            = FlattenSeq([k \in DOMAIN tokens |-> For(tokens[k])])
\* Only pads come in, and only the case changes.
NamesKeepLetters(str) ==
    /\ FilterWithFunc(PadCamelCase(str, <<"-">>), ToSet(str)) = str
    /\ LET out == PadCamelCase(str, <<"-">>)
       IN  ~\E i \in DOMAIN out : out[i] = "-" /\ (i = 1 \/ i = Len(out) \/ out[i - 1] = "-" \/ out[i + 1] = "-")
    /\ Lowered(FirstToLowerWithAcronyms(str)) = Lowered(str)
    /\ str # Empty => ~IsUpper(FirstToLowerWithAcronyms(str)[1]) \/ FirstToLowerWithAcronyms(str)[1] = str[1]
\* Slices of strings are sets where they say so.
StringSlicesAreSets(a, b) ==
    /\ Range(RemoveStringSlices(a, b)) = Range(a) \ Range(b)
    /\ Range(UnionStringSet(a, b)) = Range(a) \cup Range(b)
    /\ Range(RemoveDuplicates(a)) = Range(a) /\ ~ContainsDuplicates(RemoveDuplicates(a))
    /\ ContainsDuplicates(a) <=> Len(RemoveDuplicates(a)) < Len(a)
    /\ SlicesIntersect(a, b) <=> Range(a) \cap Range(b) # {}
    /\ SliceContainsAll(a, b) <=> Range(b) \subseteq Range(a)
    /\ SlicesHaveSameValues(a, b) => SlicesAreEqual(a, b)
    /\ (SlicesAreEqual(a, b) /\ ~ContainsDuplicates(b)) => SlicesHaveSameValues(a, b)
    /\ ~ContainsDuplicates(a) => Range(SetOrClearInSlices(FALSE, a, b)) = Range(a) \ Range(b)
    /\ Range(SetOrClearInSlices(TRUE, a, b)) = Range(a) \cup Range(b)
    /\ a # <<>> => /\ <<ExtractFirstString(a).got>> \o ExtractFirstString(a).rest = a
                   /\ Append(ExtractLastString(a).rest, ExtractLastString(a).got) = a
                   /\ LET arg == ExtractFlaggedArg(a, a[1])
                      IN  arg.ok => <<a[1], arg.value>> \o arg.strs = a
                   /\ <<a[1]>> \o ExtractItemFromStrings(a, a[1]).strs = a
\* Parameters written as one text are read back, in whatever order the map gave them.
ParametersReturn(args) ==
    LET m == GetParametersFromArgString(ArgsToString(args, <<"&">>, <<"=">>, Empty), <<"&">>, <<"=">>)
    IN  (\A i, j \in DOMAIN args : args[i].key = args[j].key => i = j) =>
            /\ DOMAIN m = {args[k].key : k \in DOMAIN args}
            /\ \A k \in DOMAIN args : m[args[k].key] = args[k].value
            /\ \A k \in DOMAIN args : KeyValuesFindForKey(args, args[k].key) = k
\* The parts between symbols, the symbols left out, are the text, each seen as what it is.
SymbolsRejoin(str) ==
    LET parts == RangeInFromToSymbolsInText(str, <<"{">>, <<"}">>)
        Whole(p) == IF p.in THEN <<"{">> \o p.text \o <<"}">> ELSE p.text
        quoted == RangeQuotedText(str, <<"{">>)
    IN  /\ FlattenSeq([k \in DOMAIN parts |-> Whole(parts[k])]) = str
        /\ \A k \in DOMAIN parts : parts[k].in => ~IsIn("}", From(parts[k].text, 2))
        /\ Join([k \in DOMAIN quoted |-> quoted[k].text], <<"{">>) = str
-----------------------------------------------------------------------------
(***************************************************************************)
(* Patterns and columns: wildcards, the groups a regular expression         *)
(* captures, texts transformed from one wildcard to another, tables of      *)
(* aligned columns and lines broken at a width.  A regular expression is    *)
(* known by what it finds: a sequence of groups, each a sequence of spans,  *)
(* the whole match first.                                                   *)
(***************************************************************************)
\* Whether what is left of str from i fits what is left of wild from j.
MatchWildcard(wild, str) ==
    LET deepMatchRune[i \in 1..(Len(str) + 1), j \in 1..(Len(wild) + 1)] ==
            IF j > Len(wild) THEN i > Len(str)
            ELSE IF wild[j] = "*" THEN deepMatchRune[i, j + 1] \/ (i <= Len(str) /\ deepMatchRune[i + 1, j])
            ELSE i <= Len(str) /\ wild[j] \in {"?", str[i]} /\ deepMatchRune[i + 1, j + 1]
    IN  wild = <<"*">> \/ deepMatchRune[1, 1]

\* The pieces a text is gone through in, each with the number of its capture, or, outside of
\* the captures, with a negative one if the outside is asked for and 0 if it is only copied.
\* Without the match, what it holds besides the capture is left out.
Span(from, to) == [from |-> from, to |-> to]
Unmatched == Span(0, 0)
Pieces(str, groups, withoutMatch, withOutside) ==
    LET Outside(state, to) ==
            IF withOutside
            THEN [state EXCEPT !.pieces = Append(@, [text |-> SubSeq(str, state.last + 1, to), index |-> state.outIndex]),
                               !.outIndex = @ - 1]
            ELSE [state EXCEPT !.pieces = Append(@, [text |-> SubSeq(str, state.last + 1, to), index |-> 0])]
        Capture(group, state, i) ==
            LET span == group[i]
                whole == group[i - 1]
                before == IF withoutMatch /\ span.from > whole.from
                          THEN [Outside(state, whole.from - 1) EXCEPT !.last = span.from - 1] ELSE state
                outside == Outside(before, span.from - 1)
            IN  IF i = 1 \/ span = Unmatched THEN state
                ELSE [outside EXCEPT !.last = IF withoutMatch THEN whole.to ELSE span.to,
                                     !.pieces = Append(@, [text |-> SubSeq(str, span.from, span.to), index |-> i - 1])]
        Group(state, group) == FoldLeftDomain(LAMBDA st, i : Capture(group, st, i), state, group)
    IN  Outside(FoldLeft(Group, [pieces |-> <<>>, last |-> 0, outIndex |-> -1], groups), Len(str)).pieces
ReplaceAllCapturesFunc(str, groups, withoutMatch, withOutside, replace) ==
    LET Replaced(pieces) ==
            FlattenSeq([k \in DOMAIN pieces |-> IF pieces[k].index = 0 THEN pieces[k].text ELSE replace[pieces[k]]])
    IN  Replaced(Pieces(str, groups, withoutMatch, withOutside))
GetAllCaptures(str, groups) ==
    LET TextsOf(captured) == [k \in DOMAIN captured |-> captured[k].text]
    IN  TextsOf(SelectSeq(Pieces(str, groups, FALSE, FALSE), LAMBDA p : p.index # 0))

\* What the regular expression of a wildcard finds: every asterisk takes as much as it can,
\* the first ones first, from the first place where all of it fits, and again after that.
PartsFit(parts, str, from) ==
    LET \* The last place where each part can be, so that the ones after it can be too.
        fit[k \in 2..(Len(parts) + 1), end \in 0..(Len(str) + 1)] ==
            IF k > Len(parts) THEN <<>>
            ELSE LET Ending(ends) == IF ends = {} THEN <<>>
                                     ELSE <<Span(end, Max(ends) - 1)>> \o fit[k + 1, Max(ends) + Len(parts[k])]
                 IN  Ending({i \in Places(str, parts[k]) :
                                i >= end /\ (k = Len(parts) \/ fit[k + 1, i + Len(parts[k])] # <<>>)})
        Stop(spans) == IF spans = <<>> THEN from + Len(parts[1]) - 1
                       ELSE spans[Len(spans)].to + Len(parts[Len(parts)])
        Found(spans) == IF Len(spans) < Len(parts) - 1 THEN <<>> ELSE <<Span(from, Stop(spans))>> \o spans
    IN  IF IsAt(str, parts[1], from) THEN Found(fit[2, from + Len(parts[1])]) ELSE <<>>
Spans(wild, str, from) == PartsFit(Split(wild, <<"*">>), str, from)
FindGroups(wild, str) ==
    LET Found(state, from, group) ==
            LET empty == group # <<>> /\ group[1].to < group[1].from
            IN  IF from < state.next \/ group = <<>> \/ (empty /\ from = state.next /\ state.groups # <<>>) THEN state
                ELSE [groups |-> Append(state.groups, group), next |-> Max({group[1].to + 1, from})]
        Find(state, from) == Found(state, from, Spans(wild, str, from))
    IN  FoldLeft(Find, [groups |-> <<>>, next |-> 1], [i \in 1..(Len(str) + 1) |-> i]).groups

\* An asterisk of wildTo is replaced by the next capture, the first asterisk there is by then.
NoOp(wildFrom, wildTo) == Empty \in {wildFrom, wildTo}
Asterisks(wild) == Cardinality({i \in DOMAIN wild : wild[i] = "*"})
NewWildCardTransformer(wildFrom, wildTo) == NoOp(wildFrom, wildTo) \/ Asterisks(wildFrom) >= Asterisks(wildTo)
ReplaceFirst(str, old, new) ==
    IF Index(str, old) = 0 THEN str ELSE HeadUntil(str, old) \o new \o After(str, old)
Transform(wildFrom, wildTo, str) ==
    LET With(matches) ==
            IF Len(matches) # Asterisks(wildFrom) THEN [ok |-> FALSE, text |-> Empty]
            ELSE [ok |-> TRUE, text |-> FoldLeft(LAMBDA s, m : ReplaceFirst(s, <<"*">>, m), wildTo, matches)]
    IN  IF NoOp(wildFrom, wildTo) THEN [ok |-> TRUE, text |-> str]
        ELSE With(GetAllCaptures(str, FindGroups(wildFrom, str)))

\* Lines of runes, broken after the last break character, or at one that is too far.
BreakRunesIntoLines(runes, breakChars, columns) ==
    LET Line(state, n) ==
            LET rest == state.rest
                lastBreak == {i \in 1..(columns + 1) : rest[i] \in breakChars}
                length == IF lastBreak = {} THEN columns + 1 ELSE Max(lastBreak)
            IN  IF Len(rest) <= columns THEN state
                ELSE [lines |-> Append(state.lines, To(rest, length)), rest |-> From(rest, length + 1)]
        end == FoldLeft(Line, [lines |-> <<>>, rest |-> runes], runes)
    IN  IF end.rest = Empty THEN end.lines ELSE Append(end.lines, end.rest)
-----------------------------------------------------------------------------
\* A table: cells of lines, each with its lines of its own.  An escape code is one character
\* here, it takes no width and is never cut.
Escape == "^"
EscapeGroups(str) ==
    LET at == {i \in DOMAIN str : str[i] = Escape}
        order == SetToSortSeq(at, <)
    IN  [k \in DOMAIN order |-> <<Span(order[k], order[k]), Span(order[k], order[k])>>]
Stripped(str) ==
    LET Without(groups) ==
            ReplaceAllCapturesFunc(str, groups, FALSE, FALSE, [p \in ToSet(Pieces(str, groups, FALSE, FALSE)) |-> Empty])
    IN  Without(EscapeGroups(str))
TrimRight(str, c) ==
    LET kept == {i \in DOMAIN str : str[i] # c} IN IF kept = {} THEN Empty ELSE To(str, Max(kept))
Cells(line) == Split(TrimRight(line, "|"), <<"|">>)
\* The widest cell of each column, at most its own limit, or the limit of all.
Widths(lines, maxOf, max) ==
    LET Widest(rows, i) == Max({0} \cup {Len(Stripped(rows[k][i])) : k \in {r \in DOMAIN rows : i <= Len(rows[r])}})
        Limited(width, limit) == IF limit = 0 THEN width ELSE Min({width, limit})
        Columns(rows) == [i \in 1..Max({Len(rows[k]) : k \in DOMAIN rows}) |->
                             Limited(Widest(rows, i), IF i \in DOMAIN maxOf THEN maxOf[i] ELSE max)]
    IN  Columns([k \in DOMAIN lines |-> Cells(lines[k])])
\* A cell cut to its width, and filled up to it.  What is cut off counts, so that nothing of
\* it comes after a later code.
OutputCell(cell, width, right) ==
    LET Write(state, piece) ==
            LET left == width - state.cellChars
                length == Len(piece.text)
            IN  IF piece.index > 0 THEN [state EXCEPT !.out = @ \o piece.text]
                ELSE IF left <= 0 THEN state
                ELSE [out |-> state.out \o HeadChars(piece.text, Min({left, length})),
                      cellChars |-> state.cellChars + length, whiteChars |-> state.whiteChars + Min({left, length})]
        Filled(text, chars) ==
            LET space == [i \in 1..Max({0, width - chars}) |-> " "] IN IF right THEN space \o text ELSE text \o space
        Adjusted(cut) == Filled(cut.out, cut.whiteChars)
    IN  Adjusted(FoldLeft(Write, [out |-> Empty, cellChars |-> 0, whiteChars |-> 0],
                          Pieces(cell, EscapeGroups(cell), FALSE, TRUE)))
OutputCells(cells, widths, divider, rightAdjusted) ==
    Join([i \in DOMAIN cells |-> OutputCell(cells[i], widths[i], i \in rightAdjusted)], divider)
\* The lines of a line: the first parts of all cells, the second ones, as long as one has more.
OutputLine(line, widths, divider, rightAdjusted) ==
    LET Parts(cells) == [i \in DOMAIN cells |-> Split(cells[i], <<"/">>)]
        Stacked(parts) ==
            [j \in 1..Max({Len(parts[i]) : i \in DOMAIN parts}) |->
                OutputCells([i \in DOMAIN parts |-> IF j <= Len(parts[i]) THEN parts[i][j] ELSE Empty],
                            widths, divider, rightAdjusted)]
    IN  Stacked(Parts(Split(line, <<"|">>)))
\* The first line again before each every'th line.
Flush(lines, maxOf, max, divider, rightAdjusted, every) ==
    LET Written(widths) ==
            [k \in DOMAIN lines |-> OutputLine(TrimRight(lines[k], "|"), widths, divider, rightAdjusted)]
        Repeats(k) == every # 0 /\ k > every /\ (k - 2) % every = 0
        Headed(out) == FlattenSeq([k \in DOMAIN lines |-> IF Repeats(k) THEN out[1] \o out[k] ELSE out[k]])
    IN  Headed(Written(Widths(lines, maxOf, max)))
-----------------------------------------------------------------------------
(* Laws, each over the inputs it names. *)

\* A text fits a wildcard if its characters can be shared out to the pattern's.
PatternsMatch(wild, str) ==
    LET cuts == {c \in [0..Len(wild) -> 0..Len(str)] : c[0] = 0 /\ c[Len(wild)] = Len(str)}
        Takes(c, j) == \/ wild[j] = "*" /\ c[j - 1] <= c[j]
                       \/ c[j] = c[j - 1] + 1 /\ wild[j] \in {"?", str[c[j]]}
    IN  MatchWildcard(wild, str) <=> \E c \in cuts : \A j \in DOMAIN wild : Takes(c, j)
\* A text that fits one wildcard is transformed to one that fits the other, and to itself
\* where they are the same; with as many asterisks in both it can be transformed back.
WildcardsTransform(wildFrom, wildTo, str) ==
    \A out \in {Transform(wildFrom, wildTo, str)} :
        (NewWildCardTransformer(wildFrom, wildTo) /\ ~NoOp(wildFrom, wildTo) /\ MatchWildcard(wildFrom, str)
         /\ ~IsIn("*", str) /\ Asterisks(wildFrom) > 0) =>
            /\ out.ok => MatchWildcard(wildTo, out.text)
            /\ (out.ok /\ wildFrom = wildTo) => out.text = str
            /\ Len(FindGroups(wildFrom, str)) = 1 => out.ok
\* Captures that are not changed leave the text as it was, with and without the outside.
CapturesKeepText(str, wild) ==
    LET Unchanged(groups, without, with) ==
            ReplaceAllCapturesFunc(str, groups, without, with, [p \in ToSet(Pieces(str, groups, without, with)) |-> p.text])
    IN  \A groups \in {FindGroups(wild, str)} :
            /\ \A with \in BOOLEAN : Unchanged(groups, FALSE, with) = str
            /\ \A outside \in {SelectSeq(Pieces(str, groups, FALSE, TRUE), LAMBDA p : p.index < 0)} :
                   \A k \in DOMAIN outside : outside[k].index = -k
            /\ Len(wild) = 3 /\ Asterisks(wild) = 1 =>
                   Len(str) - Len(Unchanged(groups, TRUE, FALSE)) = 2 * Len(groups)
\* Lines are the runes, none is longer than one more than the columns, and a line ends with a
\* break character where it has one.
LinesAreBroken(runes, columns) ==
    LET lines == BreakRunesIntoLines(runes, {" ", "-"}, columns)
    IN  /\ FlattenSeq(lines) = runes
        /\ \A k \in DOMAIN lines : Len(lines[k]) \in 1..(columns + 1)
        /\ \A k \in 1..(Len(lines) - 1) :
              lines[k][Len(lines[k])] \in {" ", "-"} \/ (~IsIn(" ", lines[k]) /\ ~IsIn("-", lines[k]))
\* Every line of a table has the dividers at the same places, every cell its column's width,
\* and what is not cut is what was written, with every code; the first line comes again after
\* every every'th of the others.
ColumnsAlign(lines, max, rightAdjusted, every) ==
    LET div == <<"!">>
        Bare(s) == FilterWithFunc(s, ToSet(s) \ {" "})
        Codes(s) == FilterWithFunc(s, {Escape})
        single == \A k \in DOMAIN lines : ~IsIn("/", lines[k])
    IN  \A widths \in {Widths(lines, <<>>, max)}, out \in {Flush(lines, <<>>, max, div, rightAdjusted, every)} :
        /\ \A k \in DOMAIN out : \A cells \in {Split(out[k], div)} :
              /\ \A i \in DOMAIN cells : Len(Stripped(cells[i])) = widths[i]
              /\ every = 0 /\ max = 0 /\ single =>
                    FlattenSeq([i \in DOMAIN cells |-> Bare(cells[i])])
                       = FilterWithFunc(lines[k], ToSet(lines[k]) \ {" ", "|"})
        /\ Len(out) >= Len(lines)
        /\ every = 0 /\ single =>
              /\ Len(out) = Len(lines)
              /\ \A k \in DOMAIN out : Codes(out[k]) = Codes(lines[k])
        /\ every > 1 /\ single => \A k \in DOMAIN out : (k - 1) % (every + 1) = 0 => out[k] = out[1]
=============================================================================
