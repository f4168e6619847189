-------------------------------- MODULE Fields --------------------------------
(***************************************************************************)
(* Structures as rows: zreflect goes through the fields of a structure,    *)
(* zsql makes the columns, parameters and values of its statements from    *)
(* them, and zdict and zreflect copy them to and from dictionaries.  A     *)
(* structure is a sequence of fields, and a field's name is its letter.    *)
(***************************************************************************)
EXTENDS Integers, Sequences, FiniteSets, SequencesExt

Lower == [A |-> "a", B |-> "b", C |-> "c", D |-> "d", E |-> "e"]
Zero == 0

(* ForEachField: with flatten an anonymous structure's fields come in its  *)
(* place, and its own index is theirs; an unexported field has an index.   *)
RECURSIVE forEachField(_, _, _)
forEachField(fields, flatten, start) ==
    FoldLeft(LAMBDA all, f :
        IF ~f.exported THEN [all EXCEPT !.at = @ + 1]
        ELSE IF f.kind = "struct" /\ f.anonymous /\ flatten
        THEN LET inner == forEachField(f.fields, flatten, all.at)
             IN [at |-> inner.at, seen |-> all.seen \o inner.seen]
        ELSE [at |-> all.at + 1, seen |-> Append(all.seen, [index |-> all.at, field |-> f])],
        [at |-> start, seen |-> <<>>], fields)
ForEachField(fields, flatten) == forEachField(fields, flatten, 0).seen
FieldForIndex(fields, flatten, index) == SelectSeq(ForEachField(fields, flatten), LAMBDA each : each.index = index)

(* ForEachColumn: a column is its field and the structures it is in; one   *)
(* that can give its own value is a column of its own.                     *)
ColumnOf(f) == IF f.tag = "" THEN Lower[f.name] ELSE f.tag
RECURSIVE ColumnsIn(_, _, _)
ColumnsIn(fields, skip, level) ==
    LET Columns(each, f) ==
            IF ColumnOf(f) = "-" \/ ColumnOf(f) \in skip THEN <<>>
            ELSE IF f.kind = "struct" THEN ColumnsIn(f.fields, skip, Append(level, f.name))
            ELSE <<[column |-> ColumnOf(f), index |-> each.index, field |-> f, level |-> level]>>
        Of(all) == FlattenSeq([i \in DOMAIN all |-> Columns(all[i], all[i].field)])
    IN Of(ForEachField(fields, TRUE))

\* Where the function given says no, only the structure it is in is ended: the outer ones go on.
Ended(levels, column) == \E n \in 0..Len(column.level) : SubSeq(column.level, 1, n) \in levels
ColumnNames(fields, skip) ==
    LET Names(columns) == [i \in DOMAIN columns |-> columns[i].column] IN Names(ColumnsIn(fields, skip, <<>>))
FieldForColumnName(fields, skip, name) ==
    FoldLeft(LAMBDA found, each :
        IF Ended(found.ended, each) \/ each.column # name THEN found
        ELSE [ended |-> found.ended \union {each.level}, is |-> <<each>>],
        [ended |-> {}, is |-> <<>>], ColumnsIn(fields, skip, <<>>)).is
FieldNamesToColumn(fields, skip) ==
    LET LastOf(columns, n) ==
            CHOOSE i \in DOMAIN columns : columns[i].field.name = n /\ \A j \in DOMAIN columns : columns[j].field.name = n => j <= i
        Names(columns) == [n \in {columns[i].field.name : i \in DOMAIN columns} |-> columns[LastOf(columns, n)].column]
    IN Names(ColumnsIn(fields, skip, <<>>))

\* getSpecialColumns ends with the second of the two it wants.
getSpecialColumns(fields) ==
    FoldLeft(LAMBDA special, each :
        IF Ended(special.ended, each) \/ each.field.flags = {} THEN special
        ELSE LET n == special.got + 1
                 ended == special.ended \union (IF n = 2 THEN {each.level} ELSE {})
             IN IF "primary" \in each.field.flags THEN [special EXCEPT !.id = <<each>>, !.got = n, !.ended = ended]
                ELSE [special EXCEPT !.user = <<each>>, !.got = n, !.ended = ended],
        [id |-> <<>>, user |-> <<>>, got |-> 0, ended |-> {}], ColumnsIn(fields, {}, <<>>))

\* Statements: the values of the columns, a slice of which needs an array around it.
Wrapped(f) == IF f.kind = "slice" THEN "array" ELSE "plain"
FieldValues(fields, skip) ==
    LET Values(columns) == [i \in DOMAIN columns |-> [as |-> Wrapped(columns[i].field), value |-> columns[i].field.value]]
    IN Values(ColumnsIn(fields, skip, <<>>))
FieldPointers(fields, skip) ==
    LET Pointers(columns) ==
            [i \in DOMAIN columns |-> [as |-> Wrapped(columns[i].field), to |-> Append(columns[i].level, columns[i].field.name)]]
    IN Pointers(ColumnsIn(fields, skip, <<>>))
NFieldParameters(start, n) == [i \in 1..n |-> (start + i) - 1]
FieldParameters(fields, skip, start) == NFieldParameters(start, Len(ColumnsIn(fields, skip, <<>>)))
FieldSettings(fields, skip, start) ==
    LET Settings(names) == [i \in DOMAIN names |-> [column |-> names[i], parameter |-> (start + i) - 1]]
    IN Settings(ColumnNames(fields, skip))

Skipped(special) == ToSet([i \in DOMAIN special.id |-> special.id[i].column]) \union ToSet([i \in DOMAIN special.user |-> special.user[i].column])
\* setUserIDInRows: the field with the flat index of the column, among the fields not flattened; no
\* such field, or one that is no number, is a panic.
UserIDField(fields, userid) == FieldForIndex(fields, FALSE, FieldForColumnName(fields, {}, userid)[1].index)
UserIDPanics(fields, userid) == ~\E i \in DOMAIN UserIDField(fields, userid) : UserIDField(fields, userid)[i].field.kind = "int"
setUserID(fields, userid, user) ==
    [i \in DOMAIN fields |->
        IF fields[i] = UserIDField(fields, userid)[1].field THEN [fields[i] EXCEPT !.value = user] ELSE fields[i]]

\* What a database keeps of an INSERT, and the columns an UPDATE sets where its id is the one given.
Distinct(seq) == \A i, j \in DOMAIN seq : i # j => seq[i] # seq[j]
WithTokensUser(fields, userid, token, user) ==
    IF token /\ userid # <<>> THEN setUserID(fields, userid[1].column, user) ELSE fields
InsertRow(fields, token, user, id) ==
    LET Kept(names, values, idCol) ==
            [c \in ToSet(names) \union idCol |->
                IF c \in idCol THEN [as |-> "plain", value |-> id] ELSE values[CHOOSE i \in DOMAIN names : names[i] = c]]
        Sent(names, values, parameters, idCol) ==
            [columns |-> names, values |-> values, parameters |-> parameters, kept |-> Kept(names, values, idCol)]
        Row(row, idCol) == Sent(ColumnNames(row, idCol), FieldValues(row, idCol), FieldParameters(row, idCol, 1), idCol)
        Inserted(special) ==
            Row(WithTokensUser(fields, special.user, token, user), {special.id[i].column : i \in DOMAIN special.id})
    IN Inserted(getSpecialColumns(fields))
UpdateRow(fields, kept) ==
    LET Applies(special) ==
            /\ kept[special.id[1].column].value = special.id[1].field.value
            /\ special.user # <<>> => kept[special.user[1].column].value = special.user[1].field.value
        Set(settings, vals) ==
            [c \in DOMAIN kept |-> IF \E i \in DOMAIN settings : settings[i].column = c
                                   THEN vals[settings[CHOOSE i \in DOMAIN settings : settings[i].column = c].parameter] ELSE kept[c]]
        Updated(special) ==
            IF Applies(special) THEN Set(FieldSettings(fields, Skipped(special), 1), FieldValues(fields, Skipped(special))) ELSE kept
    IN Updated(getSpecialColumns(fields))
\* SelectSlicesOfAny: each column into the field of its place.
SelectRow(fields, skip, kept) ==
    LET Read(names, pointers) ==
            [p \in {pointers[i].to : i \in DOMAIN pointers} |-> kept[names[CHOOSE i \in DOMAIN pointers : pointers[i].to = p]].value]
    IN Read(ColumnNames(fields, skip), FieldPointers(fields, skip))

Written(fields) ==
    LET Place(column) == Append(column.level, column.field.name)
        Places(columns) ==
            [p \in {Place(columns[i]) : i \in DOMAIN columns} |-> columns[CHOOSE i \in DOMAIN columns : Place(columns[i]) = p].field]
    IN Places(ColumnsIn(fields, {}, <<>>))

\* InsertRows, UpdateRows, SelectSlicesOfAny: a row is read as it was written, with the id it got,
\* each value by its own column; an update changes the row of its id and user only, to the new
\* values; and a token's user is in the user's field, where no embedded structure comes before it.
InsertIsRead(fields, token, new, read, written, guarded, isFlat) ==
    /\ Len(new.columns) = Len(new.values) /\ Len(new.parameters) = Len(new.values)
    /\ \A i \in DOMAIN new.parameters : new.parameters[i] = i
    /\ DOMAIN read = DOMAIN written /\ "-" \notin ToSet(new.columns)
    /\ \A p \in DOMAIN written :
          /\ "primary" \in written[p].flags => read[p] = 5
          /\ written[p].flags = {} /\ (guarded => isFlat) => read[p] = written[p].value
          /\ written[p].flags = {"userid"} => /\ ~token => read[p] = written[p].value
                                              /\ token /\ isFlat => read[p] = 77
ColumnsAreFields(fields, name) ==
    \A found \in {FieldForColumnName(fields, {}, name)[1]} :
        /\ found.level = <<>> => FieldForIndex(fields, TRUE, found.index)[1].field = found.field
        /\ FieldNamesToColumn(fields, {})[found.field.name] = name
RowsReturn(fields, changed, token) ==
    LET again == [i \in DOMAIN fields |-> [fields[i] EXCEPT !.value = IF fields[i].flags # {} THEN @ ELSE changed]]
        isFlat == \A i \in DOMAIN fields : fields[i].kind # "struct"
        Returns(special, guarded) ==
            special.id # <<>> /\ ~(guarded /\ UserIDPanics(fields, special.user[1].column)) =>
                /\ \A new \in {InsertRow(fields, token, 77, 5)}, written \in {Written(fields)}, later \in {Written(again)} :
                      \A read \in {SelectRow(fields, {}, new.kept)}, updated \in {SelectRow(fields, {}, UpdateRow(again, new.kept))} :
                         /\ InsertIsRead(fields, token, new, read, written, guarded, isFlat)
                         /\ \A p \in DOMAIN written :
                               written[p].flags = {} /\ (guarded => isFlat) =>
                                 updated[p] = IF special.id[1].field.value = 5 /\ ~guarded THEN later[p].value ELSE read[p]
                /\ guarded /\ isFlat => UserIDField(fields, special.user[1].column)[1].field.flags = {"userid"}
    IN \A names \in {ColumnNames(fields, {})}, special \in {getSpecialColumns(fields)} :
          Distinct(names) => /\ Returns(special, token /\ special.user # <<>>)
                             /\ special.id # <<>> => \A n \in ToSet(names) : ColumnsAreFields(fields, n)
-----------------------------------------------------------------------------
(* CustomizeQuery, of words and parameters: what SQLite has no word for.   *)
CustomizeQuery(query, base) ==
    [i \in DOMAIN query |->
        CASE query[i] = "$SERIAL" -> IF base = "sqlite" THEN "BIGINT" ELSE "SERIAL"
          [] query[i] = "$NOW" -> IF base = "sqlite" THEN "CURRENT_TIMESTAMP" ELSE "NOW()"
          [] query[i] = "$PRIMARY-INT-INC" -> IF base = "sqlite" THEN "INTEGER PRIMARY KEY AUTOINCREMENT" ELSE "SERIAL PRIMARY KEY"
          [] query[i] = "$1" /\ base = "sqlite" -> "?1"
          [] query[i] = "$2" /\ base = "sqlite" -> "?2"
          [] OTHER -> query[i]]
(* ReplaceQuestionMarkArguments and QuoteString, of letters.               *)
SanitizeString(text) == FlattenSeq([i \in DOMAIN text |-> IF text[i] = "'" THEN <<"'", "'">> ELSE <<text[i]>>])
QuoteString(text) == <<"'">> \o SanitizeString(text) \o <<"'">>
ReplaceQuestionMarkArguments(query, args) ==
    FoldLeft(LAMBDA text, arg :
        LET marks == {i \in DOMAIN text : text[i] = "?"}
            first == CHOOSE i \in marks : \A j \in marks : i <= j
            shown == IF arg.string THEN <<"'">> \o arg.text \o <<"'">> ELSE arg.text
        IN IF marks = {} THEN text ELSE SubSeq(text, 1, first - 1) \o shown \o SubSeq(text, first + 1, Len(text)),
        query, args)
\* SelectIDOfNames: an id for each row joined, the names quoted in the caller's own slice.
SelectIDOfNames(names, home) ==
    LET quoted == [i \in DOMAIN names |-> QuoteString(names[i])]
        joined(name) == SelectSeq(home, LAMBDA row : QuoteString(row.name) = name)
    IN [names |-> quoted,
        ids |-> FlattenSeq([i \in DOMAIN quoted |->
                  IF joined(quoted[i]) = <<>> THEN <<0>> ELSE [k \in DOMAIN joined(quoted[i]) |-> joined(quoted[i])[k].id]])]

\* QuoteString, CustomizeQuery, SelectIDOfNames: a quoted text is one text and reads back as it was,
\* no parameter of a query moves and each word has its meaning in the base's own, and each name gets
\* its own id or zero.
StatementsAreRight(text, query, names, home) ==
    LET quoted == QuoteString(text)
        inside == SubSeq(quoted, 2, Len(quoted) - 1)
        ticks == {i \in DOMAIN inside : inside[i] = "'"}
        ids == SelectIDOfNames(names, home).ids
    IN /\ Len(inside) = Len(text) + Cardinality({i \in DOMAIN text : text[i] = "'"})
       /\ \A i \in ticks : LET before == {k \in 1..i : \A m \in k..i : m \in ticks}
                               after == {k \in i..Len(inside) : \A m \in i..k : m \in ticks}
                           IN ((Cardinality(before) + Cardinality(after)) - 1) % 2 = 0
       /\ SelectSeq(inside, LAMBDA c : c # "'") = SelectSeq(text, LAMBDA c : c # "'")
       /\ \A base \in {"sqlite", "postgres"} :
             LET made == CustomizeQuery(query, base)
             IN /\ \A i \in DOMAIN query : query[i] \in {"$1", "$2"} => made[i] = query[i] \/ (base = "sqlite" /\ made[i] \in {"?1", "?2"})
                /\ \A i, j \in DOMAIN query : query[i] # query[j] => made[i] # made[j]
                /\ \A i \in DOMAIN made : made[i] \notin {"$SERIAL", "$NOW", "$PRIMARY-INT-INC"}
                /\ CustomizeQuery(made, base) = made
       /\ (\A i, j \in DOMAIN home : i # j => home[i].name # home[j].name) =>
             /\ Len(ids) = Len(names)
             /\ \A i \in DOMAIN names : IF \E j \in DOMAIN home : home[j].name = names[i]
                                        THEN \E j \in DOMAIN home : home[j].name = names[i] /\ ids[i] = home[j].id
                                        ELSE ids[i] = 0
\* ReplaceQuestionMarkArguments: every argument comes in its own place if none has a mark of its own.
ArgumentsAreReplaced(query, args) ==
    (\A i \in DOMAIN args : ~Contains(args[i].text, "?")) =>
        LET shown(i) == IF args[i].string THEN <<"'">> \o args[i].text \o <<"'">> ELSE args[i].text
            nth(i) == Cardinality({j \in 1..i : query[j] = "?"})
        IN ReplaceQuestionMarkArguments(query, args)
             = FlattenSeq([i \in DOMAIN query |-> IF query[i] = "?" /\ nth(i) <= Len(args) THEN shown(nth(i)) ELSE <<query[i]>>])
-----------------------------------------------------------------------------
(* FillFromStruct and MapToStruct: a field's name in a dictionary, and the *)
(* kinds that come back from one; nothing is set from nothing.             *)
NameInDict(f, lowerFirst) == IF lowerFirst THEN Lower[f.name] ELSE IF f.tag # "" THEN f.tag ELSE f.name
FillFromStruct(fields, lowerFirst) ==
    LET LastOf(all, n) ==
            CHOOSE i \in DOMAIN all : NameInDict(all[i].field, lowerFirst) = n
                                    /\ \A j \in DOMAIN all : NameInDict(all[j].field, lowerFirst) = n => j <= i
        Filled(all) == [n \in {NameInDict(all[i].field, lowerFirst) : i \in DOMAIN all} |-> all[LastOf(all, n)].field]
    IN Filled(ForEachField(fields, TRUE))
Settable == {"struct", "time", "slice", "string", "int", "bool"}
Misfits(f, from) == from.kind # f.kind /\ f.kind \in Settable \ {"bool"}
RECURSIVE SetFields(_, _, _)
SetFields(dict, fields, names) ==
    [i \in DOMAIN fields |->
        LET f == fields[i] IN
        IF ~f.exported THEN f
        ELSE IF f.kind = "struct" /\ f.anonymous THEN [f EXCEPT !.fields = SetFields(dict, @, names)]
        ELSE IF f.name \notin names THEN f
        ELSE LET from == dict[NameInDict(f, FALSE)]
             IN IF from.kind = f.kind THEN [f EXCEPT !.value = from.value, !.fields = from.fields] ELSE [f EXCEPT !.value = Zero]]
MapToStruct(dict, fields) ==
    LET all == ForEachField(fields, TRUE)
        known == {i \in DOMAIN all : NameInDict(all[i].field, FALSE) \in DOMAIN dict /\ all[i].field.kind \in Settable}
        wrong == {i \in known : Misfits(all[i].field, dict[NameInDict(all[i].field, FALSE)])}
    IN [err |-> wrong # {},
        fields |-> SetFields(dict, fields, {all[i].field.name : i \in {k \in known : \A w \in wrong : k < w}})]

RECURSIVE Emptied(_)
Emptied(fields) == [i \in DOMAIN fields |-> [fields[i] EXCEPT !.value = IF fields[i].exported THEN Zero ELSE @, !.fields = Emptied(@)]]
\* FillFromStruct, MapToStruct: a structure comes back from a dictionary of it, all fields of kinds
\* that can, if no two have a name in common and it isn't made with lower-case names; a value of
\* another kind is an error, after which no more fields are set.
DictionariesReturn(fields, misfit) ==
    LET Misfitting(dict) == [n \in DOMAIN dict |-> IF n = misfit THEN [dict[n] EXCEPT !.kind = "chan"] ELSE dict[n]]
        Values(s) == [i \in DOMAIN ForEachField(s, TRUE) |-> ForEachField(s, TRUE)[i].field.value]
        Returns(all, names, back, read, some, value) ==
            /\ ~back.err
            /\ (\A i \in DOMAIN all : all[i].field.kind \in Settable) => back.fields = fields
            /\ \A i \in DOMAIN all : read[i] = IF all[i].field.kind \in Settable THEN all[i].field.value ELSE Zero
            /\ some.err <=> \E i \in DOMAIN all : names[i] = misfit /\ all[i].field.kind \in Settable \ {"bool"}
            /\ some.err => \A i \in DOMAIN all : value[i] \in {Zero, read[i]} /\ ((\E j \in 1..i : names[j] = misfit) => value[i] = Zero)
    IN \A all \in {ForEachField(fields, TRUE)}, dict \in {FillFromStruct(fields, FALSE)}, lost \in {FillFromStruct(fields, TRUE)} :
          /\ \A names \in {[i \in DOMAIN all |-> NameInDict(all[i].field, FALSE)]},
                back \in {MapToStruct(dict, Emptied(fields))}, some \in {MapToStruct(Misfitting(dict), Emptied(fields))} :
                Distinct(names) => Returns(all, names, back, Values(back.fields), some, Values(some.fields))
          /\ (\A i \in DOMAIN all : all[i].field.tag = "") => MapToStruct(lost, Emptied(fields)).fields = Emptied(fields)
===============================================================================
