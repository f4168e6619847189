------------------------------- MODULE Dispatch -------------------------------
(***************************************************************************)
(* How methods of Go structures become calls: znamedfuncs registers those  *)
(* that are suitable and calls them with what a payload holds; zcommands   *)
(* runs, completes, lists and edits by the names of methods and fields.    *)
(* A type is a name; a method has the types it takes after its receiver.   *)
(***************************************************************************)
EXTENDS Integers, Sequences, FiniteSets, SequencesExt

(* znamedfuncs: ClientInfo, values, pointers, interfaces and unexported.   *)
Pointers == {"*Reply", "*hidden", "*ClientInfo"}
IsPointerOrInterface(type) == type \in Pointers \union {"any"}
isExportedOrBuiltinType(type) == type \notin {"hidden", "*hidden"}

hasClientInfo(m) == Len(m.takes) > 1 /\ m.takes[1] = "*ClientInfo"
ArgAt(m) == IF hasClientInfo(m) THEN 2 ELSE 1
hasReply(m) == Len(m.takes) > ArgAt(m)
suitable(m) ==
    /\ Len(m.takes) >= ArgAt(m)
    /\ isExportedOrBuiltinType(m.takes[ArgAt(m)])
    /\ hasReply(m) => LET reply == m.takes[ArgAt(m) + 1] IN IsPointerOrInterface(reply) /\ isExportedOrBuiltinType(reply)
    /\ m.returns = <<"error">>
suitableMethods(caller) == {m \in caller : suitable(m)}

(* Register leaves a caller at the first name it has already, and meets    *)
(* the names in any order.                                                 *)
NamesOf(methods) == {m.name : m \in methods}
RegisterOne(table, caller) ==
    LET fresh == {m \in suitableMethods(caller) : m.name \notin NamesOf(table)}
    IN IF fresh = suitableMethods(caller) THEN {table \union fresh} ELSE {table \union some : some \in SUBSET fresh}
Register(table, callers) ==
    FoldLeft(LAMBDA tables, caller : UNION {RegisterOne(t, caller) : t \in tables}, {table}, callers)

methodNeedsAuth(table, name, free) == name \notin NamesOf(table) \/ name \notin free
ArgsOf(m) == (IF hasClientInfo(m) THEN <<"*ClientInfo">> ELSE <<>>) \o <<m.takes[ArgAt(m)]>>
             \o (IF hasReply(m) THEN <<m.takes[ArgAt(m) + 1]>> ELSE <<>>)
Refused(why) == [called |-> {}, error |-> why, user |-> 0, args |-> <<>>]
Execute(table, free, guarded, valid, name) ==
    IF guarded /\ methodNeedsAuth(table, name, free) /\ ~valid THEN Refused("authentication")
    ELSE IF name \notin NamesOf(table) THEN Refused("no method")
    ELSE LET m == CHOOSE x \in table : x.name = name
         IN [called |-> {name}, error |-> "none", args |-> ArgsOf(m),
             user |-> IF guarded /\ methodNeedsAuth(table, name, free) THEN 7 ELSE 0]

\* Register, Execute: a name stays with the method it was registered for, all suitable methods of
\* callers without a name in common are called, by their names and with the types they take, none
\* other is, and one that needs a token is not called without a valid one.
MethodsAreCalled(callers, free, guarded, valid, name) ==
    \A table \in Register({}, callers) :
        LET did == Execute(table, free, guarded, valid, name)
            all == UNION {suitableMethods(callers[i]) : i \in DOMAIN callers}
            apart == \A i, j \in DOMAIN callers : i # j => NamesOf(suitableMethods(callers[i])) \cap NamesOf(suitableMethods(callers[j])) = {}
        IN /\ table \subseteq all
           /\ \A m, n \in table : m.name = n.name => m = n
           /\ suitableMethods(callers[1]) \subseteq table
           /\ apart => table = all
           /\ did.called # {} => \E m \in table : m.name = name /\ (Len(m.takes) <= ArgAt(m) + 1 => did.args = m.takes)
           /\ did.called # {} /\ guarded => name \in free \/ (valid /\ did.user # 0)
           /\ did.called = {} <=> (name \notin NamesOf(table) \/ (guarded /\ ~valid /\ name \notin free))
-----------------------------------------------------------------------------
(* zcommands' structures: their methods, those of anonymous fields, and if *)
(* they let commands run.  A method's name is its kind and its command.    *)
Method(kind, command, takes) == [kind |-> kind, command |-> command, takes |-> takes]
anonStructsAndSelf(structure) == <<structure.methods>> \o structure.anonymous
findMethodByName(structure, kind, command) ==
    LET all == FlattenSeq(anonStructsAndSelf(structure))
        found == {i \in DOMAIN all : all[i].kind = kind /\ all[i].command = command}
    IN IF found = {} THEN <<>> ELSE <<all[CHOOSE i \in found : \A j \in found : i <= j]>>

GetCurrentAndGlobalNodeValues(current, globals) == <<current>> \o Reverse(globals)

\* ReplaceVariablesForInstance: a part is its words and variables, which hold a value or have none.
ReplaceVariables(part, vars) ==
    [text |-> FlattenSeq([i \in DOMAIN part |-> IF part[i] \in DOMAIN vars THEN vars[part[i]] ELSE <<part[i]>>]),
     err |-> \E i \in DOMAIN part : part[i] = "$none"]
ReplacedParts(parts, vars) ==
    [i \in DOMAIN parts |-> LET r == ReplaceVariables(parts[i], vars) IN IF r.err THEN parts[i] ELSE r.text]

\* structCommandWithMethod: what takes more or less than the information and a structure is not run.
structCommandWithMethod(method) == IF method.takes = <<"CommandInfo", "args">> THEN "run" ELSE "bad method"
doCommand(line, vars, current, globals, kind) ==
    LET parts == ReplacedParts(line, vars)
        nodes == GetCurrentAndGlobalNodeValues(current, globals)
        found == {i \in DOMAIN nodes : (kind = "Command" => nodes[i].isStruct) /\ findMethodByName(nodes[i], kind, parts[1]) # <<>>}
        first == CHOOSE i \in found : \A j \in found : i <= j
    IN IF parts = <<>> THEN [in |-> 0, did |-> "nothing", args |-> <<>>]
       ELSE IF found = {} THEN [in |-> 0, did |-> "not found", args |-> <<>>]
       ELSE [in |-> first, args |-> Tail(parts),
             did |-> structCommandWithMethod(findMethodByName(nodes[first], kind, parts[1])[1])]

\* methodNodes: the commands a structure shows.
methodNodes(structure) ==
    IF ~structure.canRun THEN <<>>
    ELSE LET shown == SelectSeq(structure.methods, LAMBDA m : m.kind = "Command" /\ m.takes # <<>> /\ m.takes[1] = "CommandInfo")
         IN [i \in DOMAIN shown |-> shown[i].command]

-----------------------------------------------------------------------------
(* expandForList; letters, and a blank that is escaped when it is added.   *)
CommonPrefix(texts) ==
    LET common == {n \in 0..Len(texts[1]) : \A i \in DOMAIN texts : Len(texts[i]) >= n /\ SubSeq(texts[i], 1, n) = SubSeq(texts[1], 1, n)}
        longest == CHOOSE n \in common : \A k \in common : k <= n
    IN SubSeq(texts[1], 1, longest)
Escaped(text) == FlattenSeq([i \in DOMAIN text |-> IF text[i] = " " THEN <<"\\", " ">> ELSE <<text[i]>>])
NotExpanded == [ok |-> FALSE, line |-> <<>>]
expandForList(stub, list, prefix) ==
    LET commands == SelectSeq(list, LAMBDA c : IsPrefix(stub, c))
        all == IF Len(commands) = 1 THEN commands[1] ELSE CommonPrefix(commands)
    IN IF commands = <<>> \/ (all = <<>> /\ Len(commands) > 1) THEN NotExpanded
       ELSE [ok |-> TRUE, line |-> prefix \o Escaped(SubSeq(all, Len(stub) + 1, Len(all)))]

\* autoComplete of a first word: the methods that take the information, by their whole names, of
\* the global commands and the current node, and the commands that one shows.
specialMethodNames(structure) ==
    LET special == SelectSeq(structure.methods, LAMBDA m : m.takes # <<>> /\ m.takes[1] = "CommandInfo")
    IN [i \in DOMAIN special |-> <<IF special[i].kind = "Command" THEN "command_" ELSE "expand_">> \o special[i].command]
autoComplete(line, current, globals) ==
    expandForList(line, FlattenSeq([i \in DOMAIN globals |-> specialMethodNames(globals[i])])
                          \o specialMethodNames(current) \o methodNodes(current), line)

\* expandForList: what is added makes the stub a beginning of every name it could have become, the
\* longest there is, and the whole name if it is the only one.
StubsAreExpanded(stub, list, prefix) ==
    LET r == expandForList(stub, list, prefix)
        could == {i \in DOMAIN list : IsPrefix(stub, list[i])}
        added == SelectSeq(SubSeq(r.line, Len(prefix) + 1, Len(r.line)), LAMBDA x : x # "\\")
    IN /\ could = {} => ~r.ok
       /\ r.ok => /\ IsPrefix(prefix, r.line)
                  /\ \A i \in could : IsPrefix(stub \o added, list[i])
                  /\ \A x \in {"a", "b", " "} : could # {} => ~(\A i \in could : IsPrefix(Append(stub \o added, x), list[i]))
       /\ stub # <<>> /\ could # {} => r.ok
\* doCommand, methodNodes: a command is run in the current node if that has it, or else in the last
\* global one that has, and its name completes to itself; what is run has all variables replaced that have a value, and whatever
\* a node shows is found in it.
CommandsAreFound(line, vars, current, globals) ==
    LET did == doCommand(line, vars, current, globals, "Command")
        has(s) == s.isStruct /\ findMethodByName(s, "Command", ReplacedParts(line, vars)[1]) # <<>>
    IN /\ \A c \in ToSet(methodNodes(current)) : current.isStruct => doCommand(<<c>>, <<>>, current, globals, "Command").in = 1
       /\ \A stub \in {<<>>, <<"command_">>} \union ToSet(methodNodes(current)) :
             LET r == autoComplete(stub, current, globals) IN
             /\ r.ok => IsPrefix(stub, r.line)
             /\ stub # <<>> /\ stub \in ToSet(methodNodes(current)) => r.ok /\ r.line = stub
       /\ line # <<>> => /\ did.in = 1 <=> has(current)
                         /\ did.in > 1 => \A g \in DOMAIN globals : has(globals[g]) => g <= Len(globals) + 2 - did.in
                         /\ did.in = 0 <=> ~has(current) /\ \A g \in DOMAIN globals : ~has(globals[g])
       /\ did.in > 0 => /\ Len(did.args) = Len(line) - 1
                        /\ \A i \in DOMAIN did.args : IF Contains(line[i + 1], "$none") THEN did.args[i] = line[i + 1]
                                                            ELSE \A v \in DOMAIN vars : ~Contains(did.args[i], v)
-----------------------------------------------------------------------------
(* fieldNodes: a structure's fields, those of an inner one in its place.   *)
RECURSIVE fieldNodes(_, _)
fieldNodes(fields, inStatic) ==
    FlattenSeq([i \in DOMAIN fields |->
        LET f == fields[i] IN
        IF f.button THEN <<>>
        ELSE IF f.fields # <<>> THEN fieldNodes(f.fields, f.static)
        ELSE <<[name |-> f.name, static |-> f.static \/ inStatic, value |-> f.value, columns |-> {}, type |-> "field"]>>])

(* listNodesForAny: the columns there are, and each row's cells; a column  *)
(* whose name has a dot is for the long list, after the others.            *)
Columns(node) == node.columns \union (IF node.value # "" THEN {"value"} ELSE {})
headersOf(nodes, long) ==
    LET names == FoldLeft(LAMBDA out, n : out \o SetToSeq((Columns(n) \ {".more"}) \ ToSet(out)), <<>>, nodes)
    IN names \o (IF long /\ \E i \in DOMAIN nodes : ".more" \in nodes[i].columns THEN <<".more">> ELSE <<>>)
listNodes(nodes, long) ==
    LET shown == SelectSeq(nodes, LAMBDA n : n.type # "method")
        headers == headersOf(shown, long)
        number(i) == Cardinality({j \in 1..i : ~shown[j].static})
    IN [headers |-> headers,
        rows |-> [i \in DOMAIN shown |->
                    [name |-> shown[i].name, number |-> IF shown[i].static THEN 0 ELSE number(i),
                     cells |-> [c \in DOMAIN headers |->
                                  IF headers[c] \in Columns(shown[i]) THEN <<headers[c], shown[i].name>> ELSE <<>>]]],
        numbered |-> [k \in 1..Cardinality({j \in DOMAIN shown : ~shown[j].static}) |->
                        shown[CHOOSE j \in DOMAIN shown : ~shown[j].static /\ number(j) = k].name]]

\* listNodesForAny, fieldNodes: every node but a method has a row, with a cell for each column;
\* the number of a row is the node that the number stands for afterwards; and the fields of a
\* static structure cannot be edited.
NodesAreListed(fields, others, long) ==
    LET nodes == fieldNodes(fields, FALSE) \o others
        list == listNodes(nodes, long)
    IN /\ \A n \in ToSet(nodes) : n.type # "method" => \E r \in ToSet(list.rows) : r.name = n.name
       /\ \A r \in ToSet(list.rows) :
             /\ Len(r.cells) = Len(list.headers)
             /\ r.number # 0 => list.numbered[r.number] = r.name
       /\ \A i, j \in DOMAIN list.headers : i # j => list.headers[i] # list.headers[j]
       /\ \A i \in DOMAIN list.headers : list.headers[i] = ".more" => long /\ i = Len(list.headers)
       /\ \A i \in DOMAIN fields : fields[i].static /\ ~fields[i].button =>
             \A n \in ToSet(fieldNodes(<<fields[i]>>, FALSE)) :
                n.static \/ \E f \in ToSet(fields[i].fields) : \E g \in ToSet(f.fields) : g.name = n.name
-----------------------------------------------------------------------------
(* doRepeatEditIndex on the lines typed, "" to quit, 0 what is no number.  *)
doRepeatEditIndex(lines, length) ==
    LET stops == {i \in DOMAIN lines : lines[i] = -1 \/ lines[i] \in 1..length}
        stop == CHOOSE i \in stops : \A j \in stops : i <= j
    IN IF stops = {} \/ lines[stop] = -1 THEN 0 ELSE lines[stop]

(* editFieldNode on a field with an enumeration or a value of a kind, and  *)
(* the line that is typed for a value.                                     *)
Edited(field, value) == [value |-> value, updated |-> TRUE]
Unedited(field) == [value |-> field.value, updated |-> FALSE]
editAnyEnumIndicator(field, lines) ==
    LET n == doRepeatEditIndex(lines, Len(field.enum)) IN Edited(field, IF n = 0 THEN field.value ELSE field.enum[n])
editFieldNode(field, typed, lines) ==
    IF field.kind = "slice" THEN IF field.enum = <<>> THEN Unedited(field) ELSE Edited(field, field.value)
    ELSE IF field.enum # <<>> THEN editAnyEnumIndicator(field, lines)
    ELSE IF typed \in {"EOF", ""} THEN Unedited(field)
    ELSE CASE field.kind = "string" -> Edited(field, IF typed = " " THEN "" ELSE typed)
           [] field.kind = "number" -> IF typed = "5" THEN Edited(field, "5") ELSE Unedited(field)
           [] OTHER -> Edited(field, field.value)
\* Command_edit: a node that is not a field is not edited.
Command_edit(node, typed, lines) ==
    IF node.static \/ node.type # "field" THEN Unedited(node.field) ELSE editFieldNode(node.field, typed, lines)

\* Command_edit: a field that is changed is updated in its node, it is changed to something of its
\* own kind or of its enumeration, only if it is a field that is not static, and never by no input.
EditsAreUpdates(node, typed, lines) ==
    LET r == Command_edit(node, typed, lines)
        field == node.field
    IN /\ r.value # field.value => r.updated /\ node.type = "field" /\ ~node.static
       /\ field.enum # <<>> /\ r.value # field.value => r.value \in ToSet(field.enum) /\ \E i \in DOMAIN lines : lines[i] \in DOMAIN field.enum /\ field.enum[lines[i]] = r.value
       /\ field.kind # "slice" /\ node.type = "field" /\ ~node.static /\ lines # <<>> /\ Head(lines) \in DOMAIN field.enum =>
             r.value = field.enum[Head(lines)]
       /\ field.enum = <<>> /\ typed \in {"EOF", ""} => r.value = field.value /\ (field.kind # "slice" => ~r.updated)
       /\ field.kind = "number" /\ field.enum = <<>> => r.value \in {field.value, "5"}
       /\ field.kind \in {"slice", "pointer"} /\ (field.enum = <<>> \/ field.kind = "slice") => r.value = field.value
==============================================================================
