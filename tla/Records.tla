------------------------------- MODULE Records --------------------------------
(***************************************************************************)
(* zdict's lists of named items and its dictionaries, written to texts and *)
(* URL values and read back, and zerrors' errors that have a title, values *)
(* and an error within.  A text is a sequence of letters.                  *)
(***************************************************************************)
EXTENDS Integers, Sequences, FiniteSets, SequencesExt

Item(name, value) == [name |-> name, value |-> value]
Names(items) == [i \in DOMAIN items |-> items[i].name]
FirstOf(indexes) == CHOOSE i \in indexes : \A j \in indexes : i <= j
LastIn(indexes) == CHOOSE i \in indexes : \A j \in indexes : i >= j

\* MakeItems takes names and values in turn, and panics on a last name without one.
MakeItems(pairs) ==
    IF Len(pairs) % 2 = 1 THEN <<"panic">> ELSE [i \in 1..(Len(pairs) \div 2) |-> Item(pairs[2 * i - 1], pairs[2 * i])]
ItemsEqual(items, to) == Len(items) = Len(to) /\ \A i \in DOMAIN items : items[i] = to[i]
FindName(items, name) == LET found == {i \in DOMAIN items : items[i].name = name} IN IF found = {} THEN 0 ELSE FirstOf(found)
\* FindValue: the first of the value, or the last before it, or of all, that has no name.
FindValue(items, value) ==
    LET found == {i \in DOMAIN items : items[i].value = value}
        unnamed == {i \in DOMAIN items : items[i].name = ""}
    IN IF found # {} THEN FirstOf(found) ELSE IF unnamed # {} THEN LastIn(unnamed) ELSE 0
Add(items, name, value) == Append(items, Item(name, value))
AddToSet(items, name, value) == IF FindName(items, name) = 0 THEN Add(items, name, value) ELSE items
AddAtStart(items, name, value) == <<Item(name, value)>> \o items
GetItem(items, i) == IF i >= Len(items) THEN Item("", "") ELSE items[i + 1]

\* MakeItems, AddToSet, FindName, FindValue: the items are those given in their order, one of a set
\* is found by its name as it was added first, and a value is found under one of its names.
ItemsAreFound(pairs, name, value) ==
    LET items == MakeItems(pairs)
        set == FoldLeft(LAMBDA all, item : AddToSet(all, item.name, item.value), <<>>, items)
    IN Len(pairs) % 2 = 0 =>
       /\ \A i \in DOMAIN items : GetItem(items, i - 1) = items[i] /\ pairs[2 * i] = items[i].value
       /\ \A i, j \in DOMAIN set : i # j => set[i].name # set[j].name
       /\ ToSet(Names(set)) = ToSet(Names(items))
       /\ \A i \in DOMAIN items : set[FindName(set, items[i].name)] = items[FindName(items, items[i].name)]
       /\ (\E i \in DOMAIN items : items[i].value = value) => items[FindValue(items, value)].value = value
       /\ FindName(AddAtStart(items, name, value), name) = 1
       /\ FindName(AddToSet(items, name, value), name) # 0
       /\ ItemsEqual(set, items) <=> \A i, j \in DOMAIN items : i # j => items[i].name # items[j].name
-----------------------------------------------------------------------------
(* A dictionary of letters or of dictionaries of them; "=" and "," are the *)
(* assigner and the separator, and a map has an order only when written.   *)
AsParts(dict, order) == [i \in DOMAIN order |-> <<order[i], "=">> \o dict[order[i]]]
Joined(parts, sep) == FlattenSeq([i \in DOMAIN parts |-> IF i = 1 THEN parts[i] ELSE <<sep>> \o parts[i]])
AsString(dict, order) == Joined(AsParts(dict, order), ",")

SplitAt(text, sep) ==
    LET ends == {i \in DOMAIN text : text[i] = sep} \union {Len(text) + 1}
        start(e) == IF \E o \in ends : o < e THEN 1 + LastIn({o \in ends : o < e}) ELSE 1
        nth(k) == CHOOSE e \in ends : Cardinality({o \in ends : o <= e}) = k
    IN [k \in 1..Cardinality(ends) |-> SubSeq(text, start(nth(k)), nth(k) - 1)]
\* FromString: a name ends at the first assigner of its part; a part without one is left out.
FromString(text) ==
    LET parts == SelectSeq(SplitAt(text, ","), LAMBDA p : Contains(p, "="))
        assigner(p) == FirstOf({i \in DOMAIN p : p[i] = "="})
        nameOf(p) == SubSeq(p, 1, assigner(p) - 1)
    IN [n \in {nameOf(parts[i]) : i \in DOMAIN parts} |->
          LET p == parts[LastIn({i \in DOMAIN parts : nameOf(parts[i]) = n})] IN SubSeq(p, assigner(p) + 1, Len(p))]

\* ToURLValues and FromURLValues: a dictionary within is written as JSON, and an empty one left out,
\* a number as text; a text with braces is read as JSON, and stays as it is if it isn't.
ToURLValues(dict) ==
    [n \in {k \in DOMAIN dict : dict[k] # [is |-> "map", of |-> <<>>]} |->
        CASE dict[n].is = "map" -> [is |-> "JSON", of |-> dict[n].of]
          [] dict[n].is = "number" -> [is |-> "text", of |-> dict[n].of]
          [] OTHER -> dict[n]]
FromURLValues(values) == [n \in DOMAIN values |-> IF values[n].is = "JSON" THEN [is |-> "map", of |-> values[n].of] ELSE values[n]]
MergeIn(dict, other) == [n \in DOMAIN dict \union DOMAIN other |-> IF n \in DOMAIN other THEN other[n] ELSE dict[n]]
\* Value and Scan: a column of JSON; Scan keeps what was there under names that are not read.
Value(dict) == [is |-> "JSON", of |-> dict]
Scan(dict, val) ==
    CASE val.is = "nil" -> [err |-> FALSE, dict |-> <<>>]
      [] val.is = "number" -> [err |-> TRUE, dict |-> dict]
      [] OTHER -> [err |-> FALSE, dict |-> MergeIn(dict, val.of)]

\* AsString, FromString: a dictionary comes back from any order it was written in if no value holds a
\* separator; one that does is cut at it, and what is after may take the place of a name before.
TextsReturn(dict, order) ==
    LET back == FromString(AsString(dict, order))
        whole(i) == \A k \in i..Len(order) : ~Contains(dict[order[k]], ",")
    IN /\ {<<n>> : n \in DOMAIN dict} \subseteq DOMAIN back
       /\ (\A n \in DOMAIN dict : ~Contains(dict[n], ",")) => DOMAIN back = {<<n>> : n \in DOMAIN dict}
       /\ \A i \in DOMAIN order : whole(i) => back[<<order[i]>>] = dict[order[i]]
\* ToURLValues, FromURLValues, Value, Scan, MergeIn: a dictionary comes back from URL values but for
\* empty ones within and numbers, from a database into an empty one, and over another one it keeps
\* the rest.
DictionariesMerge(dict, other, val) ==
    LET back == FromURLValues(ToURLValues(dict))
        scanned == Scan(other, Value(dict))
    IN /\ \A n \in DOMAIN dict :
             IF dict[n] = [is |-> "map", of |-> <<>>] THEN n \notin DOMAIN back
             ELSE /\ dict[n].is \in {"text", "map"} => back[n] = dict[n]
                  /\ back[n].of = dict[n].of /\ back[n].is \in {"text", "map"}
       /\ DOMAIN back \subseteq DOMAIN dict
       /\ Scan(<<>>, Value(dict)).dict = dict
       /\ \A n \in DOMAIN scanned.dict : scanned.dict[n] = IF n \in DOMAIN dict THEN dict[n] ELSE other[n]
       /\ DOMAIN scanned.dict = DOMAIN dict \union DOMAIN other
       /\ MergeIn(MergeIn(other, dict), dict) = MergeIn(other, dict)
       /\ Scan(other, val).err => Scan(other, val).dict = other
-----------------------------------------------------------------------------
(* zerrors.  An error is a plain one with its text, one that wraps another *)
(* error under a text, or a ContextError: a title, the error within, the   *)
(* error it was made of, and what its "Error" value says.                  *)
None == [is |-> "none"]
Plain(text) == [is |-> "plain", text |-> text]
Wrapping(text, within) == [is |-> "wrap", text |-> text, within |-> within]
Context(title, sub, wrapped, told) == [is |-> "context", title |-> title, sub |-> sub, wrapped |-> wrapped, told |-> told]

RECURSIVE ErrorText(_), StringOf(_), Causes(_)
\* Error joins what there is of a title, the error and the one within; String the titles, each of
\* which ends with a brace that none opened for the outermost.
Spaced(texts) == FoldLeft(LAMBDA all, t : IF t = <<>> THEN all ELSE IF all = <<>> THEN t ELSE all \o <<": ">> \o t, <<>>, texts)
ErrorText(err) ==
    CASE err.is = "none" -> <<>>
      [] err.is = "plain" -> <<err.text>>
      [] err.is = "wrap" -> <<err.text, ": ">> \o ErrorText(err.within)
      [] OTHER -> Spaced(<<err.title, ErrorText(err.wrapped), ErrorText(err.sub)>>)
StringOf(err) == err.title \o (IF err.sub = None THEN <<>> ELSE <<"{">> \o StringOf(err.sub) \o <<"}">>) \o <<"}">>
Unwrap(err) ==
    CASE err.is = "wrap" -> err.within
      [] err.is = "context" -> IF err.sub # None THEN err.sub ELSE err.wrapped
      [] OTHER -> None
Causes(err) == IF err = None THEN <<>> ELSE <<err>> \o Causes(Unwrap(err))

\* ContextErrorFromError: one that is found within is put within a new one that has the whole text.
ContextErrorFromError(err) ==
    LET chain == Causes(err)
        found == {i \in DOMAIN chain : chain[i].is = "context"}
    IN IF err.is = "context" THEN <<err>>
       ELSE IF found = {} THEN <<>>
       ELSE <<Context(ErrorText(err), chain[FirstOf(found)], None, <<>>)>>
\* MakeContextError: of several errors the last of each kind stays.
MakeContextError(parts) ==
    LET titles == SelectSeq(parts, LAMBDA p : p.is = "text")
        title == IF titles = <<>> THEN <<"Error">> ELSE [i \in DOMAIN titles |-> titles[i].text]
        take(ce, p) == IF p.is = "text" THEN ce
                       ELSE LET as == ContextErrorFromError(p) IN
                            IF as # <<>> THEN [ce EXCEPT !.wrapped = p, !.sub = as[1]]
                            ELSE [ce EXCEPT !.wrapped = p, !.told = ErrorText(p)]
    IN FoldLeft(take, Context(title, None, None, <<>>), parts)
\* GetLowerCaseMatchContent: the titles and values of it and those within.
RECURSIVE MatchContent(_)
MatchContent(err) ==
    ToSet(err.title) \union ToSet(err.told) \union (IF err.sub = None THEN {} ELSE MatchContent(err.sub))

\* MakeContextError, Unwrap, Error: unwrapping ends, and finds the error it was made of if that is the
\* only one or has a context; the texts of all that it was last made of can be searched for and read.
ErrorsAreFound(parts) ==
    LET err == MakeContextError(parts)
        chain == Causes(err)
        given == SelectSeq(parts, LAMBDA p : p.is # "text")
        plain == SelectSeq(given, LAMBDA p : ContextErrorFromError(p) = <<>>)
        contexts == SelectSeq(given, LAMBDA p : ContextErrorFromError(p) # <<>>)
    IN /\ given # <<>> => err.wrapped = given[Len(given)] /\ err.sub # None <=> contexts # <<>>
       /\ \A i, j \in DOMAIN chain : i # j => chain[i] # chain[j]
       /\ given = <<>> => chain = <<err>>
       /\ Len(given) = 1 /\ contexts = <<>> => Contains(chain, given[1])
       /\ contexts # <<>> => LET last == contexts[Len(contexts)] IN
             /\ \E c \in ToSet(chain) : c = ContextErrorFromError(last)[1]
             /\ \A c \in ToSet(Causes(last)) : c.is = "context" => c \in ToSet(chain)
             /\ ToSet(ErrorText(last)) \subseteq ToSet(ErrorText(err))
       /\ plain # <<>> => ToSet(ErrorText(plain[Len(plain)])) \subseteq MatchContent(err)
       /\ given # <<>> => ToSet(ErrorText(given[Len(given)])) \subseteq ToSet(ErrorText(err))
       /\ \A c \in ToSet(chain) : c.is = "context" => ToSet(c.title) \subseteq ToSet(StringOf(err)) \cap MatchContent(err)
===============================================================================
