----------------------------- MODULE AlgorithmsMC -----------------------------
(***************************************************************************)
(* One run for the packages of pure functions: each behaviour is given one *)
(* input of one family, and the laws of the family must hold of it.  The   *)
(* families are enumerated from the small sets below, which are chosen so  *)
(* that every case of the functions is met.                                *)
(***************************************************************************)
EXTENDS StackLayout

Lists == INSTANCE Collections
Words == INSTANCE Texts
Counts == INSTANCE Samples
Clock == INSTANCE Times
Web == INSTANCE Answers
Calls == INSTANCE Dispatch
RowOf == INSTANCE Fields
Rec == INSTANCE Records
Files == INSTANCE FileTrees
Term == INSTANCE RowTerminal
Say == INSTANCE Numbers

VARIABLE given  \* the input of this behaviour, with the family it is of

Is(kind) == given.kind = kind
Gives(input) == given' = input

\* A behaviour begins with its family, so that families are looked at beside each other.
Families == {"geometry", "layout", "drawing", "collections", "text", "answers", "names", "rows", "records",
             "files", "terminal", "phrases", "numbers", "samples", "times"}
IsOf(family) == Is("none") /\ given.of = family
-----------------------------------------------------------------------------
(* Methods that are called by their names, and commands of a session. *)
MethodTakes == {<<>>, <<"int">>, <<"*ClientInfo">>, <<"hidden">>, <<"int", "*Reply">>, <<"int", "int">>, <<"*ClientInfo", "int">>,
          <<"*ClientInfo", "int", "*Reply">>, <<"int", "*hidden">>, <<"*ClientInfo", "*ClientInfo">>}
OneMethod == [name : {"A", "B"}, takes : MethodTakes, returns : {<<"error">>, <<>>}]
Callers == {{m, n} : m \in {x \in OneMethod : x.name = "A"}, n \in {[name |-> "B", takes |-> <<"int", "*Reply">>, returns |-> <<"error">>]}}
              \cup {{[name |-> x, takes |-> <<"int">>, returns |-> <<"error">>]} : x \in {"A", "C"}}
Com(c) == Calls!Method("Command", c, <<"CommandInfo", "args">>)
ComMethods == {<<>>, <<Com(<<"cd">>)>>, <<Com(<<"ls">>), Com(<<"cd">>)>>,
            <<Calls!Method("Expand", <<"cd">>, <<"CommandInfo", "line", "add">>)>>,
            <<Calls!Method("Command", <<"ls">>, <<"CommandInfo">>)>>}
Structures == [methods : ComMethods, anonymous : {<<>>, << <<Com(<<"up">>)>>, <<Com(<<"cd">>)>> >>}, canRun : BOOLEAN, isStruct : BOOLEAN]
FewStructures == {s \in Structures : s.canRun /\ s.isStruct /\ s.anonymous = <<>> /\ Len(s.methods) < 2}
Currents == {s \in Structures : s.canRun = s.isStruct \/ s.anonymous = <<>>}
LineParts == {<<"ls">>, <<"up">>, <<"$v">>, <<"$none", "$v">>}
LineVars == [x \in {"$v"} |-> <<"cd">>]
StubLists == {<<"a", "b">>, <<"a", " ", "b">>, <<"a", " ", "a">>, <<"b">>, <<"a">>}
AField(n, s, b, v, f) == [name |-> n, static |-> s, button |-> b, value |-> v, fields |-> f]
Inner == {<<>>} \cup {<<AField("p", s, FALSE, "1", f)>> : s \in BOOLEAN, f \in {<<>>, <<AField("q", FALSE, FALSE, "2", <<>>)>>}}
OneField(n) == {AField(n, s, b, v, f) : s, b \in BOOLEAN, v \in {"", "3"}, f \in Inner}
OtherNodes == {[name |-> "r", static |-> FALSE, value |-> "", columns |-> c, type |-> t] : c \in SUBSET {"size", ".more"}, t \in {"row", "method"}}
Edits == [kind : {"string", "number", "bool", "slice", "pointer"}, enum : {<<>>, <<"x", "y">>}, value : {"x", "1"}]
GivenNames ==
    \/ \E c \in SeqOf(Callers, 2) \ {<<>>}, f \in SUBSET {"A"}, g, v \in BOOLEAN, n \in {"A", "B", "D"} :
          Gives([kind |-> "methods", callers |-> c, free |-> f, g |-> g, v |-> v, n |-> n])
    \/ \E l \in SeqOf(LineParts, 2), s \in Currents, g \in SeqOf(FewStructures, 2) :
          Gives([kind |-> "commands", line |-> l, current |-> s, globals |-> g])
    \/ \E s \in {<<>>, <<"a">>, <<"a", " ">>, <<"b">>, <<"c">>}, l \in SeqOf(StubLists, 3), p \in {<<>>, <<"x">>} :
          Gives([kind |-> "stubs", stub |-> s, list |-> l, prefix |-> p])
    \/ \E f \in OneField("f"), g \in {x \in OneField("g") : x.fields = <<>> /\ ~x.button}, r \in OtherNodes, l \in BOOLEAN :
          Gives([kind |-> "listed", fields |-> <<f, g>>, others |-> <<r>>, long |-> l])
    \/ \E f \in Edits, s \in BOOLEAN, t \in {"field", "row", "variable"}, d \in {"EOF", "", " ", "5", "z"}, l \in SeqOf({-1, 0, 1, 2, 3}, 2) :
          Gives([kind |-> "edit", node |-> [field |-> f, static |-> s, type |-> t], typed |-> d, lines |-> l])
NameLaws ==
    /\ Is("methods") => Calls!MethodsAreCalled(given.callers, given.free, given.g, given.v, given.n)
    /\ Is("commands") => Calls!CommandsAreFound(given.line, LineVars, given.current, given.globals)
    /\ Is("stubs") => Calls!StubsAreExpanded(given.stub, given.list, given.prefix)
    /\ Is("listed") => Calls!NodesAreListed(given.fields, given.others, given.long)
    /\ Is("edit") => Calls!EditsAreUpdates(given.node, given.typed, given.lines)
-----------------------------------------------------------------------------
(* Structures that are rows of a table, and statements about them. *)
Column(n, t, k, v) == [name |-> n, tag |-> t, exported |-> TRUE, kind |-> k, anonymous |-> FALSE, fields |-> <<>>, flags |-> {}, value |-> v]
Key(v) == [Column("A", "", "int", v) EXCEPT !.flags = {"primary"}]
Owner(t, v) == [Column("B", t, "int", v) EXCEPT !.flags = {"userid"}]
Struct(n, f, anonymous) == [Column(n, "", "struct", 0) EXCEPT !.fields = f, !.anonymous = anonymous]
Firsts == {Key(5), Key(6), [Column("A", "", "int", 4) EXCEPT !.exported = FALSE], Struct("A", <<Column("D", "x", "int", 3)>>, TRUE),
           Struct("A", <<Key(5)>>, FALSE), Struct("E", <<Key(5), Column("D", "", "slice", 2)>>, TRUE)}
Seconds == {Owner("", 8), Owner("x", 8), Column("B", "-", "int", 1), Column("B", "a", "string", 1),
            Struct("B", <<Owner("", 8)>>, TRUE), Column("B", "", "int", 1)}
Thirds == {Column("C", t, k, 7) : t \in {"", "x", "-"}, k \in {"int", "string", "slice", "time", "bool", "int64"}}
          \cup {Key(5), Struct("C", <<Column("D", "", "int", 9)>>, FALSE), [Column("C", "", "int", 7) EXCEPT !.exported = FALSE]}
Queries == SeqOf({"text", "$1", "$2", "$SERIAL", "$NOW", "$PRIMARY-INT-INC"}, 3)
QueryLetters == {"a", "'", "?"}
Arg == [string : BOOLEAN, text : SeqOf(QueryLetters, 1)]
Homes == {<<>>, <<[name |-> <<"a">>, id |-> 1]>>, <<[name |-> <<"a">>, id |-> 1], [name |-> <<"a", "'">>, id |-> 2]>>}
GivenRows ==
    \/ \E f \in Firsts, s \in Seconds, t \in Thirds, k \in BOOLEAN :
          \E fields \in {<<f, s, t>>, <<t, f, s>>, <<s, f>>} : Gives([kind |-> "row", fields |-> fields, changed |-> 4, token |-> k])
    \/ \E f \in Firsts, s \in Seconds, t \in Thirds, m \in {"A", "B", "C", "D", "x"} :
          \E fields \in {<<f, s, t>>, <<t, f, s>>} : Gives([kind |-> "dictionary", fields |-> fields, misfit |-> m])
    \/ \E t \in SeqOf({"a", "'"}, 3), q \in Queries, h \in Homes :
          Gives([kind |-> "query", text |-> t, query |-> q, names |-> <<<<"a">>, t>>, home |-> h])
    \/ \E q \in SeqOf({"a", "?"}, 3), x \in SeqOf(Arg, 2) : Gives([kind |-> "marks", query |-> q, args |-> x])
RowLaws ==
    /\ Is("row") => RowOf!RowsReturn(given.fields, given.changed, given.token)
    /\ Is("dictionary") => RowOf!DictionariesReturn(given.fields, given.misfit)
    /\ Is("query") => RowOf!StatementsAreRight(given.text, given.query, given.names, given.home)
    /\ Is("marks") => RowOf!ArgumentsAreReplaced(given.query, given.args)
-----------------------------------------------------------------------------
(* Items, dictionaries and errors. *)
TextsOf == SeqOf({"=", ",", "k"}, 3)
Orders == {<<>>, <<"k">>, <<"k", "l">>, <<"l", "k">>}
InDict == {[is |-> k, of |-> <<>>] : k \in {"map", "JSON"}}
          \cup {[is |-> k, of |-> <<"x">>] : k \in {"text", "map", "JSON", "number"}}
Dicts == {<<>>} \cup [{"k"} -> InDict] \cup [{"k", "l"} -> InDict]
InnerErrors == {Rec!Context(<<"t1">>, Rec!None, Rec!None, <<>>), Rec!Context(<<"t2">>, Rec!None, Rec!Plain("p1"), <<"p1">>),
          Rec!MakeContextError(<<[is |-> "text", text |-> "t3"], Rec!Context(<<"t4">>, Rec!None, Rec!Plain("p2"), <<"p2">>)>>)}
Errors == {Rec!Plain("e1"), Rec!Plain("e2"), Rec!Wrapping("w", Rec!Plain("e3"))}
          \cup InnerErrors \cup {Rec!Wrapping("v", c) : c \in InnerErrors}
ErrorParts == Errors \cup {[is |-> "text", text |-> "t"]}
GivenRecords ==
    \/ \E p \in SeqOf({"", "n", "m"}, 6), n \in {"n", "o"}, v \in {"", "m"} :
          Gives([kind |-> "items", pairs |-> p, name |-> n, value |-> v])
    \/ \E o \in Orders : \E d \in [ToSet(o) -> TextsOf] : Gives([kind |-> "written", dict |-> d, order |-> o])
    \/ \E d, o \in Dicts, v \in {[is |-> "nil"], [is |-> "number"]} : Gives([kind |-> "dicts", dict |-> d, other |-> o, val |-> v])
    \/ \E p \in SeqOf(ErrorParts, 3) : Gives([kind |-> "errors", parts |-> p])
RecordLaws ==
    /\ Is("items") => Rec!ItemsAreFound(given.pairs, given.name, given.value)
    /\ Is("written") => Rec!TextsReturn(given.dict, given.order)
    /\ Is("dicts") => Rec!DictionariesMerge(given.dict, given.other, given.val)
    /\ Is("errors") => Rec!ErrorsAreFound(given.parts)
-----------------------------------------------------------------------------
(* Folders with files, links and hidden ones, and what is picked in them. *)
AFile(n) == {Files!File(n, e, 2, o) : e \in {".txt", ".png"}, o \in BOOLEAN}
InFolder == {<<>>} \cup {<<f>> : f \in AFile("m") \cup {Files!Link("l")}} \cup {<<Files!File(".", "", 4, TRUE), f>> : f \in AFile("m")}
AFolder(n) == {[Files!Folder(n, e) EXCEPT !.old = o] : e \in InFolder, o \in BOOLEAN}
NestedFolder == {Files!Folder("d", <<Files!Folder("e", e), f>>) : e \in InFolder, f \in {Files!File("f", ".txt", 3, TRUE)}}
Roots == {<<Files!Folder("r", <<f, d>>)>> : f \in AFile("a"), d \in AFolder("d") \cup NestedFolder}
           \cup {<<Files!Folder("r", <<d, f>>)>> : d \in {x \in AFolder("d") : ~x.old} \cup NestedFolder, f \in {Files!File("y", ".txt", 3, FALSE)}}
           \cup {<<Files!Folder("r", <<h, d, f>>)>> : h \in {x \in AFolder(".") : Len(x.entries) < 2}, d \in NestedFolder, f \in {Files!File("z", ".txt", 3, TRUE)}}
WalkAnswers == [{"a", "d"} -> {"go", "skip", "all", "err"}] \cup [{"m"} -> {"skip", "all"}] \cup {<<>>}
FewRoots == {r \in Roots : Len(r[1].entries) = 2}
GivenFiles ==
    \/ \E r \in FewRoots, o \in SUBSET {"Folders", "Recursive"}, w \in {{}, {".txt"}}, a \in WalkAnswers :
          Gives([kind |-> "walk", root |-> r, ask |-> Files!Ask(o, w, a)])
    \/ \E r \in Roots, o \in SUBSET {"Folders", "Recursive", "Hidden"}, w \in {{}, {".txt"}} :
          \/ Gives([kind |-> "walk", root |-> r, ask |-> Files!Ask(o, w, <<>>)])
          \/ Gives([kind |-> "old", root |-> r, opts |-> o, wildcards |-> w])
    \/ \E f \in {<<"d">>, <<"/", "d">>, <<"d", "/">>, <<"d", "/", "e">>}, n \in SeqOf({"x", "y"}, 3) \ {<<>>} :
          Gives([kind |-> "relative", folder |-> f, names |-> n])
    \/ \E r \in {x \in FewRoots : x[1].entries[1].name = "a"}, w \in {{}, {".txt"}}, f \in BOOLEAN, m \in 0..2, p \in SeqOf({<<"a">>, <<"d">>}, 2) :
          Gives([kind |-> "directory", root |-> r, allowed |-> w, only |-> f, picked |-> p, max |-> m])
    \/ \E e \in {"", ".txt", ".png", ".pdf"}, s \in {0, 8}, l, c, u, b \in BOOLEAN :
          Gives([kind |-> "icon", ask |-> [ext |-> e, slash |-> l, size |-> s, cached |-> c, ours |-> u, readable |-> b]])
    \/ \E r \in SeqOf(0..3, 4), m \in {0, 2, 3} : Gives([kind |-> "reads", reads |-> r, max |-> m])
FileLaws ==
    /\ Is("walk") => Files!FilesAreWalked(given.root, given.ask)
    /\ Is("old") => Files!OldFilesAreRemoved(given.root, given.wildcards, given.opts)
    /\ Is("relative") => Files!PathsAreRelative(given.folder, given.names)
    /\ Is("directory") => Files!DirectoriesAreListed(given.root, given.allowed, given.only, given.picked, given.max)
    /\ Is("icon") => Files!IconsAreServed(given.ask)
    /\ Is("reads") => Files!ReadsAreLimited(given.reads, given.max)
-----------------------------------------------------------------------------
(* Logs of up to five rows in chunks of one to three, some left, and what a session asks of them. *)
Texts(t) == IF t = "x" THEN {"", "x"} ELSE {""}
Shapes == SeqOf({"x", "y", "bad"}, 4) \cup [1..5 -> {"x", "y"}]
FewShapes == {<<"x", "y", "x", "bad">>, <<"y", "bad", "x">>, <<"bad", "x", "y", "x">>, <<"x", "y">>, <<"y", "x", "x", "y", "x">>}
GrowingLog(bottom, perChunk, shape, gap) ==
    [bottom |-> bottom, perChunk |-> perChunk,
     rows |-> [i \in DOMAIN shape |-> [id |-> i + (IF i >= gap THEN 1 ELSE 0), bad |-> shape[i] = "bad", texts |-> Texts(shape[i])]]]
LaterLog(log, deleted, added) ==
    [log EXCEPT !.bottom = @ + deleted,
                !.rows = SubSeq(@, deleted * log.perChunk + 1, Len(@)) \o [i \in 1..added |-> [id |-> 9 + i, bad |-> FALSE, texts |-> {""}]]]
TermAsks == [chunk : {<<>>, <<-1>>, <<0>>, <<1>>}, index : {<<>>, <<0>>, <<1>>, <<2>>}, match : {"", "x"}]
TermColumns == [offset : {1, 2}, header : {"h", "i"}, is32 : BOOLEAN, isTime : {FALSE}, named : {{}, {2}}]
TermOpts == {[ids |-> TRUE, ordered |-> TRUE, isTime |-> TRUE, matches |-> TRUE], [ids |-> TRUE, ordered |-> FALSE, isTime |-> TRUE, matches |-> FALSE],
             [ids |-> FALSE, ordered |-> TRUE, isTime |-> FALSE, matches |-> TRUE]}
IDRow == [id : 1..5, bad : {FALSE}] \cup {[id |-> 1, bad |-> TRUE]}
GivenTerm ==
    \/ \E s \in Shapes, b \in 0..1, p \in 1..3, g \in {2, 9}, c \in 0..3, m \in {"", "x"} :
          Gives([kind |-> "pages", log |-> GrowingLog(b, p, s, g), chunk |-> c, match |-> m])
    \/ \E s \in FewShapes, p \in 1..2, a \in TermAsks, m \in {"", "x"}, d \in 0..1, n \in 0..1 :
          /\ d * p < Len(s)
          /\ Gives([kind |-> "cursor", log |-> GrowingLog(0, p, s, 9), later |-> LaterLog(GrowingLog(0, p, s, 9), d, n), ask |-> a, match |-> m])
    \/ \E c \in SeqOf(TermColumns, 2), o \in TermOpts, n \in [1..2 -> {0, 2, -1}], b \in {FALSE} :
          /\ \A i, j \in DOMAIN c : c[i].offset # c[j].offset => c[i].header # c[j].header
          /\ Gives([kind |-> "rowcells", columns |-> c, opts |-> o, row |-> [id |-> 7, order |-> 3, bad |-> b, numbers |-> n]])
    \/ \E r \in SeqOf(IDRow, 4) : Gives([kind |-> "ids", rows |-> r])
TermLaws ==
    /\ Is("pages") => Term!PagesLeaveNothingOut(given.log, given.chunk, given.match) /\ Term!ChunksTellTheirRange(given.log)
    /\ Is("cursor") => Term!PageIsAsked(given.log, given.ask) /\ Term!CursorKeepsItsRow(given.log, given.later, given.ask, given.match)
    /\ Is("rowcells") => Term!CellsAreUnderHeadings(given.opts, given.columns, given.row, [chunk |-> 1, index |-> 0])
    /\ Is("ids") => Term!MissingAreTold(given.rows)
-----------------------------------------------------------------------------
(* Numbers in eighths, sizes and distances about their units' limits, and short words. *)
SizeLimits == {[km |-> 10, mile |-> 18], [km |-> 1000, mile |-> 1760]}
GivenPhrases ==
    \/ \E n \in -20..90, s \in -1..3 : Gives([kind |-> "float", eighths |-> n, significant |-> s])
    \/ \E n \in -2..70, d \in {0, 1, 5, 30}, m \in 2..4, s \in 0..2 : Gives([kind |-> "size", size |-> n, larger |-> n + d, multiples |-> m, significant |-> s])
    \/ \E n \in (0..60) \cup (1990..2010) \cup (3870..3876) \cup (100000..100003), d \in {0, 1, 7}, m, r \in BOOLEAN, l \in SizeLimits :
          Gives([kind |-> "far", halves |-> n, further |-> n + d, metric |-> m, round |-> r, limits |-> l])
    \/ \E t \in SeqOf({"s", "y", "d"}, 2), p \in {<<>>, <<"p">>}, n \in -9..24, l \in {"", "no", "de"}, b \in {<<>>, <<"one", "two">>} :
          Gives([kind |-> "plural", word |-> t, plural |-> p, eighths |-> n, lang |-> l, table |-> b])
PhraseLaws ==
    /\ Is("float") => Say!NiceFloatIsNear(given.eighths, given.significant)
    /\ Is("size") => Say!SizesGrow(given.size, given.larger, given.multiples, given.significant)
    /\ Is("far") => Say!DistancesGrow(given.halves, given.further, given.metric, given.round, given.limits)
    /\ Is("plural") => Say!WordsAreCounted(given.word, given.plural, given.eighths, given.lang, given.table)
-----------------------------------------------------------------------------
(* Rectangles, alignments, matrices and paths. *)
Grid == {Pos(x, y) : x, y \in {0, 4, 8, 12, 16}}
Rects == {Rect(Pos(x, y), Size(w, h)) : x, y \in {0, 4}, w, h \in {0, 4, 8}}
Systems == {Rect(Pos(4, 8), Size(w, h)) : w, h \in {8, 16}}
Matrices == {Matrix(a, b, c, d, t, u) : a, d \in {1, 2}, b, c \in {-1, 0, 1}, t, u \in {0, 3}}
Others == {Matrix(1, 2, 0, 1, 3, 1), Matrix(0, -1, 1, 0, 2, 5)}
ExtraFlags == {{}, {"HorOut"}, {"HorOut", "VertOut"}, {"HorExpand"}, {"HorExpand", "VertExpand"}, {"VertExpand", "HorShrink"},
          {"HorShrink", "VertShrink"}, {"HorShrink", "VertShrink", "Proportional"},
          {"HorExpand", "VertExpand", "Proportional"}, {"HorExpand", "VertExpand", "HorShrink", "VertShrink", "Proportional"}}
Alignments == {{h, v} \cup f : h \in {"Left", "HorCenter", "Right"}, v \in {"Top", "VertCenter", "Bottom"}, f \in ExtraFlags}
Paths == {s \in [1..4 -> {Pos(x, y) : x, y \in {0, 4, 8}}] :
             \A i \in 1..3 : (s[i].x = s[i + 1].x) # (s[i].y = s[i + 1].y)}

GivenGeometry ==
    \/ \E r, q \in Rects : Gives([kind |-> "rects", r |-> r, q |-> q])
    \/ \E r, q \in Systems, p \in Rects : Gives([kind |-> "systems", r |-> r, q |-> q, p |-> p])
    \/ \E p, q \in {Pos(x, y) : x, y \in -2..2} : Gives([kind |-> "directions", p |-> p, q |-> q])
    \/ \E m \in Matrices, a \in Others, p \in {Pos(1, 2), Pos(-3, 1)} :
          Gives([kind |-> "matrices", m |-> m, a |-> a, p |-> p])
    \/ \E a \in SUBSET {"Left", "Right", "HorCenter", "Top", "Bottom", "HorOut", "HorExpand", "VertShrink", "Proportional"} :
          Gives([kind |-> "alignments", a |-> a])
    \/ \E r \in {Rect(Pos(4, 8), Size(w, h)) : w, h \in {16, 32}}, s \in {Size(w, h) : w, h \in {8, 16, 64}},
          a \in Alignments, m \in {Size(0, 0), Size(4, 4)} :
          ("Proportional" \in a => m.w = 0) /\ Gives([kind |-> "aligned", r |-> r, s |-> s, a |-> a, m |-> m])
    \/ \E r \in {Rect(Pos(4, 8), Size(w, h)) : w, h \in {16, 30}}, s \in {Size(w, h) : w, h \in {4, 6}},
          a \in {Size(0, 2), Size(2, 0)}, c \in 0..9 :
          Gives([kind |-> "cells", r |-> r, s |-> s, a |-> a, c |-> c])
    \/ \E p \in Paths : Gives([kind |-> "path", p |-> p])

GeometryLaws ==
    /\ Is("rects") => UnionAndIntersection(given.r, given.q, Grid) /\ MovingKeepsSize(given.r, given.q)
    /\ Is("systems") => TranslationReturns(given.r, given.q, given.p)
    /\ Is("directions") => SameDirectionIsParallel(given.p, given.q)
    /\ Is("matrices") => MatricesCompose(given.m, given.a, given.p, Rect(Pos(1, 3), Size(2, 4)))
    /\ Is("alignments") => AlignmentsTurnBack(given.a)
    /\ Is("aligned") => TouchesItsSide(given.r, given.s, given.a, given.m)
                        /\ AligningIsTheSameTurned(given.r, given.s, given.a, given.m)
    /\ Is("cells") => CellsFill(given.r, given.s, given.a, given.c)
    /\ Is("path") => PathIsFollowed(given.p, 4)
-----------------------------------------------------------------------------
(* Stacks of cells; Unit is a multiple of every count space is divided by. *)
Unit == 72
Cell(a, margin, max, min, show) ==
    [alignment |-> a, margin |-> RectFromMarginSize(margin), maxSize |-> Size(max, 0), minSize |-> Size(min, 0),
     collapsed |-> FALSE, free |-> FALSE, originalSize |-> Size(2 * Unit, 36), dividerRatio |-> 0, showIfExtraSpace |-> show]
CellAligns == {{h, "VertCenter"} \cup e : h \in {"Left", "HorCenter", "Right"}, e \in {{}, {"HorExpand"}, {"HorShrink"}}}
Cells == {Cell(a, NullSize, max, min, show) : a \in CellAligns, max \in {0, 3 * Unit}, min \in {0, 3 * Unit}, show \in {0, 2 * Unit}}
           \cup {Cell(a, Size(Unit, 0), 0, 0, 0) : a \in CellAligns}
PlainCells == {Cell({h, "VertCenter"} \cup e, NullSize, 0, 0, 0) : h \in {"Left", "HorCenter", "Right"}, e \in {{}, {"HorExpand"}}}
Apart == {[Cell({"Right", "Bottom"}, NullSize, 0, 0, 0) EXCEPT !.free = TRUE],
          [Cell({"Left", "Bottom"}, NullSize, 0, 0, 0) EXCEPT !.collapsed = TRUE]}
Divider == [Cell({"Left", "VertCenter"}, NullSize, 0, 0, 0) EXCEPT !.dividerRatio = 3]
Stack(x, width, spacing, cells) ==
    [kind |-> "stack", r |-> Rect(Pos(x, 0), Size(width * Unit, Unit)), spacing |-> spacing, cells |-> cells]

\* A stack of up to two cells of any kind begins with its first one.
GivenCells ==
    \E spacing \in {0, Unit}, width \in {3, 8}, rest \in {<<>>} \cup {<<c>> : c \in Cells} :
       Gives(Stack(0, width, spacing, <<given.cell>> \o rest))
GivenLayout ==
    \/ \E a, b, c \in PlainCells, spacing \in {0, Unit}, width \in {7, 9} : Gives(Stack(Unit, width, spacing, <<a, b, c>>))
    \/ \E a, b \in PlainCells, c \in Apart, width \in {7, 9} : Gives(Stack(Unit, width, Unit, <<a, c, b>>))
    \/ \E a, b \in PlainCells, spacing \in {0, Unit}, width \in {10, 20} :
          "Left" \in a.alignment \cap b.alignment /\ Gives(Stack(Unit, width, spacing, <<a, Divider, b>>))
-----------------------------------------------------------------------------
(* Colors, styles and drawn paths. *)
Shades == {0, 17, 128, 255}
Colors == {ColorNew(r, g, b, a) : r, g \in Shades, b \in {0, 128}, a \in {64, 255}}
FewColors == {White, Black, ColorNew(255, 128, 0, 255), ColorNew(17, 0, 128, 64)}

GivenDrawing ==
    \/ \E c \in Colors : Gives([kind |-> "color", c |-> c])
    \/ \E c \in Colors, d, e \in FewColors \cup {Invalid} : Gives([kind |-> "metric", c |-> c, d |-> d, e |-> e])
    \/ \E s \in 0..5, f \in 0..3, t, b \in 0..4 : Gives([kind |-> "hue", s |-> s, f |-> f, t |-> t, b |-> b])
    \/ \E c \in Colors, d \in FewColors, k \in 0..4 : Gives([kind |-> "mix", c |-> c, d |-> d, k |-> k])
    \/ \E s \in SUBSET {"normal", "bold", "italic"} : Gives([kind |-> "style", s |-> s])
    \/ \E x \in {0, 4}, w, h \in {0, 8, 20}, c \in {Size(cw, ch) : cw, ch \in {0, 2, 4}},
          e \in SeqOf({Pos(0, 0), Pos(30, 3)}, 2) :
          Gives([kind |-> "drawn", r |-> Rect(Pos(x, 8), Size(w, h)), corner |-> c, extra |-> e])
    \/ \E s \in 0..3, q \in -5..5, o \in BOOLEAN, w \in {4, 8} :
          Gives([kind |-> "arc", r |-> Rect(Pos(4, 8), Size(w, w)), s |-> s, q |-> q, open |-> o])

DrawingLaws ==
    /\ Is("color") => ColorsReturn(given.c)
    /\ Is("metric") => DifferenceIsMetric(given.c, given.d, given.e)
    /\ Is("hue") => HueReturns(given.s, given.f, given.t, given.b, 4)
    /\ Is("mix") => MixesAreBetween(given.c, given.d, given.k, 4)
    /\ Is("style") => StylesReturn(given.s)
    /\ Is("drawn") => BoxHoldsPath(given.r, given.corner, given.extra, Matrix(1, 0, 2, 1, 3, 3))
    /\ Is("arc") => ArcsEnd(given.r, given.s, given.q, given.open)
-----------------------------------------------------------------------------
(* Slices, maps, trees, and the points that divide a length. *)
Triples == SeqOf({1, 2, 3}, 3)
Ids == {"a", "b", "c", "d"}
InnerMap == Lists!Node([x \in {"a"} |-> Lists!Leaf(1)])
Maps == {InnerMap, Lists!Node([x \in {"a", "b"} |-> IF x = "a" THEN Lists!Leaf(1) ELSE InnerMap]),
         Lists!Node([x \in {"a"} |-> Lists!Node([y \in {"a", "b"} |-> IF y = "a" THEN InnerMap ELSE Lists!Leaf(2)])])}
KeyPaths == SeqOf({"a", "b"}, 3) \ {<<>>}

GivenCollections ==
    \/ \E a, b \in Triples : Gives([kind |-> "slices", a |-> a, b |-> b])
    \/ \E s \in Triples \ {<<>>}, e \in 1..3 : \E i, j \in DOMAIN s : Gives([kind |-> "order", s |-> s, i |-> i, j |-> j, e |-> e])
    \/ \E s \in SeqOf({1, 2, 3}, 4) : Gives([kind |-> "frequency", s |-> s])
    \/ \E t \in Maps, p, o \in KeyPaths : Gives([kind |-> "map", t |-> t, p |-> p, o |-> o])
    \/ \E n \in 1..3 : \E z \in [1..n -> 1..3] :
          Gives([kind |-> "combinations", sets |-> [i \in 1..n |-> [j \in 1..z[i] |-> 10 * i + j]]])
    \/ \E n \in 1..40 : Gives([kind |-> "points", n |-> n])
    \/ \E p \in [Ids -> Ids \cup {"", "x"}], o \in {<<"a", "b", "c", "d">>, <<"d", "b", "a", "c">>, <<"c", "d", "a", "b">>} :
          Gives([kind |-> "tree", rows |-> [i \in 1..4 |-> [id |-> o[i], parent |-> p[o[i]]]]])
-----------------------------------------------------------------------------
(* Texts and patterns. *)
Letters == SeqOf({"a", "b"}, 3)
Divided == SeqOf({"a", "b", ","}, 4)
Names == SeqOf({"A", "b", " ", "U"}, 4) \cup {<<"U", "R", "L">> \o s : s \in SeqOf({"A", "b", "_"}, 2)}
Singles == SeqOf({<<"a">>, <<"b">>, <<"c">>}, 3)
Parted == {<<>>, <<"a">>, <<",", "a">>, <<"a", ",">>, <<",", "a", "b", ",">>}
Args == [quoted : {TRUE}, text : SeqOf({"a", " "}, 2)]
          \cup [quoted : {FALSE}, text : {<<"a">>, <<"b", "a">>, <<"a", " ", "b">>}]
VarNames == <<<<"a">>, <<"a", "b">>, <<"b">>>>
VarValues == {<<"x", "y">>, <<>>, <<"z">>, <<"$", "a">>}
Wilds == SeqOf({"*", "a", "b"}, 3)
Tables == SeqOf({<<"a", "|", "b">>, <<"^", "a", "a", "^", "a", "|">>, <<"|", "b", "^", "b">>, <<>>, <<"a", "/", "b", "|", "b">>}, 3)

GivenText ==
    \/ \E a, b \in Letters : Gives([kind |-> "distance", a |-> a, b |-> b])
    \/ \E s \in Divided, d \in {<<",">>, <<"a", ",">>} : Gives([kind |-> "cut", str |-> s, sep |-> d])
    \/ \E s \in Divided, n \in 1..4 : Gives([kind |-> "pieces", str |-> s, n |-> n])
    \/ \E s \in SeqOf(Parted, 3) : Gives([kind |-> "concat", parts |-> s])
    \/ \E s \in SeqOf(Letters, 2) \cup SeqOf({<<"a", "b", "a">>, <<"a", "b">>, <<"b", "b", "a">>, <<>>}, 3) :
          Gives([kind |-> "common", slice |-> s])
    \/ \E s \in SeqOf(Args, 2) : Gives([kind |-> "args", args |-> s])
    \/ \E s \in SeqOf(SeqOf({"a", ","}, 3), 2) : Gives([kind |-> "parts", parts |-> s])
    \/ \E t \in SeqOf(0..3, 3), v \in [1..3 -> VarValues] : Gives([kind |-> "variables", tokens |-> t, values |-> v])
    \/ \E s \in Names : Gives([kind |-> "name", str |-> s])
    \/ \E a, b \in Singles : Gives([kind |-> "strings", a |-> a, b |-> b])
    \/ \E s \in SeqOf([key : {<<"a">>, <<"b", "a">>, <<>>}, value : {<<>>, <<"b">>, <<"a", "=">>}], 2) :
          Gives([kind |-> "parameters", args |-> s])
    \/ \E s \in SeqOf({"{", "}", "a"}, 5) : Gives([kind |-> "symbols", str |-> s])
    \/ \E w \in SeqOf({"*", "?", "a"}, 3), s \in Letters : Gives([kind |-> "match", wild |-> w, str |-> s])
    \/ \E w \in Wilds, s \in Letters : \E to \in {w, <<"*">>, <<"*", "b">>, <<"b", "*", "a", "*">>, <<"a">>} :
          Gives([kind |-> "transform", wild |-> w, to |-> to, str |-> s])
    \/ \E w \in Wilds, s \in SeqOf({"a", "b", "c"}, 3) : Gives([kind |-> "capture", wild |-> w, str |-> s])
    \/ \E s \in SeqOf({"a", " ", "-"}, 5), c \in 1..4 : Gives([kind |-> "lines", str |-> s, columns |-> c])
    \/ \E l \in Tables \ {<<>>}, m \in 0..2, r \in {{}, {2}}, e \in {0, 2} :
          Gives([kind |-> "table", lines |-> l, max |-> m, right |-> r, every |-> e])
-----------------------------------------------------------------------------
(* Requests, what comes over the net, and answers. *)
Bodies == {"value", "text", "why", "plain", "mistyped"} \cup Web!Nested
Nets == [kind : {"answer"}, status : {200, 204, 302, 404}, readable : BOOLEAN, body : Bodies]
          \cup [kind : {"failed", "nil", "redirects"}, status : {302}, readable : {FALSE}, body : {"text"}]
Requests == [secs : {-1, 5, 15}, skip : BOOLEAN, certificate : {"", "x"}, noCache : BOOLEAN, redirectFirst : BOOLEAN]
FewRequests == {r \in Requests : ~r.skip /\ r.secs # -1}
URLs == [path : {<<"p">>, <<"p", "q">>}, args : SeqOf({<<1, <<"a">>>>, <<1, <<"a", "a", "a">>>>, <<2, <<"a", "a">>>>}, 3)]
GivenAnswers ==
    \/ \E b \in {Web!Nothing, "body"}, r, x \in BOOLEAN, t \in {"", "mine"},
          s \in {Web!Nothing, "bytes", "args", "reader", "value", "unmarshallable"} :
          Gives([kind |-> "sending", p |-> [body |-> b, reader |-> r, contentType |-> t, xml |-> x], s |-> s])
    \/ \E c \in 1..13, o, d \in BOOLEAN : Gives([kind |-> "redirects", chain |-> [i \in 1..c |-> i], o |-> o, d |-> d])
    \/ \E p, q \in Requests : Gives([kind |-> "clients", r |-> <<p, q>>])
    \/ \E p, q, r \in FewRequests : Gives([kind |-> "clients", r |-> <<p, q, r>>])
    \/ \E n \in Nets, g \in BOOLEAN, r \in {Web!Nothing, "bytes", "string", "struct"} :
          Gives([kind |-> "answer", net |-> n, getError |-> g, receive |-> r])
    \/ \E e \in {Web!NoError, "err"}, c \in {0, 404}, m \in SeqOf({"<p>", "</p>", "\n", "word"}, 4) :
          Gives([kind |-> "httperror", e |-> e, c |-> c, m |-> m])
    \/ \E s \in {200, 404}, r \in SeqOf(1..3, 3), f \in BOOLEAN, d \in 0..5 :
          Gives([kind |-> "timed", s |-> s, r |-> r, f |-> f, d |-> d])
    \/ \E c \in SeqOf({1, 3}, 3), x, l, r, f \in BOOLEAN : Gives([kind |-> "length", c |-> c, x |-> x, l |-> l, r |-> r, f |-> f])
    \/ \E u \in URLs, s \in SUBSET {1, 3}, o \in {0, 7}, m \in 1..2, p \in {<<"r">>, <<"..", "r">>} :
          Gives([kind |-> "url", u |-> u, s |-> [k \in s |-> <<"b">>], o |-> o, m |-> m, p |-> p])
    \/ \E n \in Nets, t \in {"url", "scp", "body"}, h \in {"missing", "error", "value"}, v \in BOOLEAN, l \in SUBSET {"o"}, c \in {401, 500} :
          Gives([kind |-> "server", n |-> n, up |-> [type |-> t, handler |-> h], v |-> v, l |-> l, c |-> c])
AnswerLaws ==
    /\ Is("sending") => Web!SendingIsOne(given.p, given.s)
    /\ Is("redirects") => Web!RedirectsEnd(given.chain, given.o, given.d)
    /\ Is("clients") => Web!RequestsGetTheirClients(given.r)
    /\ Is("answer") => Web!AnswerIsReceived([getError |-> given.getError], given.net, given.receive)
    /\ Is("httperror") => Web!HTTPErrorTellsAll(given.e, given.c, given.m)
    /\ Is("timed") => Web!TimedGetReadsEnough([status |-> given.s, readable |-> TRUE, body |-> "text"], given.r, given.f, given.d)
    /\ Is("length") => Web!LengthsAreSent(given.c, given.x, given.l, given.r, given.f)
    /\ Is("url") => Web!URLsKeepTheirParts(given.u, given.s, given.o, given.m, given.p)
    /\ Is("server") => Web!ServersAnswer(given.up, given.n, given.v, "o", given.l, given.c)
-----------------------------------------------------------------------------
(* Numbers, samples and times. *)
Marks == [k \in {{1}, {2}, {3}} |-> IF 1 \in k THEN "a" ELSE IF 2 \in k THEN "b" ELSE "c"]
Sums == [k \in {{}, {1}, {2}, {1, 2}} |-> IF k = {} THEN "no" ELSE IF k = {1} THEN "a" ELSE IF k = {2} THEN "b" ELSE "ab"]

GivenNumbers ==
    \/ \E n \in -20..20, m \in 1..6 : Gives([kind |-> "round", n |-> n, m |-> m])
    \/ \E p \in 0..14, q \in {1, 5, 7, 12}, max \in 1..6 : Gives([kind |-> "fraction", p |-> p, q |-> q, max |-> max])
    \/ \E l \in 1..5, n \in 1..6 : Gives([kind |-> "interpolated", l |-> l, n |-> n])
    \/ \E s \in {0, 7, 35, 160}, d \in {10, 12, 24, 25, 26, 50, 51, 99, 100, 120, 333, 1000}, max \in 1..5 :
          Gives([kind |-> "division", s |-> s, e |-> s + d * max, max |-> max])
    \/ \E n \in 0..9, to \in {<<1>>, <<2, 5>>, <<1, 4, 8>>} : Gives([kind |-> "closest", n |-> n, to |-> to])
    \/ \E w \in 1..20, s, a, b \in 0..2, c \in 1..4 : Gives([kind |-> "columns", w |-> w, s |-> s, a |-> a, b |-> b, c |-> c])
    \/ \E l \in 1..9 : Gives([kind |-> "digits", d |-> [i \in 1..l |-> IF i % 2 = 0 THEN "1" ELSE "2"]])
    \/ \E a, b, c, n \in 0..5 : Gives([kind |-> "range", a |-> a, b |-> b, c |-> c, n |-> n])
    \/ \E n, f, m \in SUBSET (1..3), t \in {Marks, Sums} : Gives([kind |-> "bits", n |-> n, f |-> f, m |-> m, t |-> t])
    \/ \E w \in {0, 1, 255, 256, 43981, 65535}, k \in 1..15 : Gives([kind |-> "word", w |-> w, k |-> k])
    \/ \E n \in {0, 1, -1, 127, 128, -128, -129, 255, 256, 65535, -32768, -40000}, w \in {8, 16}, s \in BOOLEAN :
          Gives([kind |-> "width", n |-> n, w |-> w, s |-> s])
    \/ \E b \in Counts!BoolInd, d \in BOOLEAN : Gives([kind |-> "bool", b |-> b, d |-> d])

Values == {-2, 1, 5, 8}
Samples == [pos : {3, 10, 12, 17, 31}, val : {1, 5, 20}, over : {"Unknown", "True", "False"}]
FewSamples == [pos : {3, 12, 31}, val : {1, 20}, over : {"Unknown", "True", "False"}]
PlainSamples == {s \in Samples : s.over = "Unknown"}
Ops == [kind : {"write", "read"}, n : {1, 2, 4}] \cup [kind : {"seek"}, whence : {"start", "current", "end"}, n : {0, 2, -1}]
At(now, count) == [now |-> now, count |-> count]

GivenSamples ==
    \/ \E v \in SeqOf(Values, 3), m \in SeqOf(Values, 1) : Gives([kind |-> "histogram", v |-> v, m |-> m])
    \/ \E a, b, c \in {1, 2, 3, 7}, x, y, z \in {0, 5} :
          Gives([kind |-> "window", s |-> <<At(a, x), At(a + b, x + y), At(a + b + c, x + y + z)>>])
    \/ \E t \in {"nearest", "largest", "smallest", "histogram"} : \E i \in [1..2 -> PlainSamples] :
          Gives([kind |-> "bucket", t |-> t, i |-> i])
    \/ \E a \in {s \in PlainSamples : s.val = 5}, i \in [1..2 -> FewSamples] :
          Gives([kind |-> "bucket", t |-> "largest", i |-> <<a>> \o i])
    \/ \E s \in {5, 8, 12}, e \in {8, 12, 30, 44} : Gives([kind |-> "span", s |-> s, e |-> e])
    \/ \E o \in [1..3 -> Ops] : Gives([kind |-> "rolling", o |-> o])

Instants == {Clock!Date(2003, 12, 31, 23, 59, 59), Clock!Date(2004, 2, 29, 12, 30, 0), Clock!Date(2005, 3, 1, 0, 0, 0),
             Clock!Date(1999, 1, 31, 8, 15, 30), Clock!Date(2024, 6, 30, 16, 45, 0)}
Read == [hour : {Clock!None, 0, 12}, min : {Clock!None, 45}, sec : {Clock!None}, day : {Clock!None, 1, 28, 31},
         month : {Clock!None, 2, 7, 12}, year : {Clock!None, 2, 2023}, ampm : {"", "am", "pm"}]

GivenTimes ==
    \/ \E t \in Instants, f \in Clock!Fields, a, b \in {-13, -1, 0, 5} : Gives([kind |-> "period", t |-> t, field |-> f, a |-> a, b |-> b])
    \/ \E t \in Instants, m \in -14..14, y \in {-1, 0, 4} : Gives([kind |-> "months", t |-> t, months |-> m, years |-> y])
    \/ \E d \in -1200..-1150 \cup 0..400 \cup 1150..1200 \cup 36500..36530 : Gives([kind |-> "days", days |-> d])
    \/ \E h \in 0..23, m \in {0, 15, 16, 45, 46, 59} : Gives([kind |-> "clock", h |-> h, m |-> m])
    \/ \E g \in Read, now \in Instants, a, n \in BOOLEAN :
          (g.ampm = "" \/ a) /\ Gives([kind |-> "date", g |-> g, now |-> now, a |-> a, n |-> n])
    \/ \E d \in 0..130 \cup 3590..3670 \cup 7200..7261 \cup 86390..86470 \cup {200000} : Gives([kind |-> "duration", d |-> d])
    \/ \E t \in Instants, l \in {10, 60, 700, 3600, 20000, 86400, 500000, 3000000, 40000000}, p \in {10, 50}, m \in {0, 3, 12} :
          Gives([kind |-> "axis", t |-> t, length |-> l, pixels |-> p, min |-> m])

SampleLaws ==
    /\ Is("histogram") => Counts!HistogramCounts(given.v, given.m, 3, 0, 7)
    /\ Is("window") => Counts!WindowsAddUp(3, given.s)
    /\ Is("bucket") => Counts!BucketsAreComplete(given.t, 5, 10, given.i)
    /\ Is("span") => Counts!RangesFillBuckets(5, 10, given.s, given.e, 3)
    /\ Is("rolling") => Counts!BufferRolls(3, given.o)
TimeLaws ==
    /\ Is("period") => Clock!PeriodsContain(given.t, given.field, given.a, given.b)
    /\ Is("months") => Clock!MonthsAdd(given.t, given.months, given.years)
    /\ Is("days") => Clock!DaysReturn(given.days)
    /\ Is("clock") => Clock!ClocksReturn(given.h, given.m)
    /\ Is("date") => Clock!DatesParse(given.g, given.now, given.a, given.n)
    /\ Is("duration") => Clock!DurationsReturn(given.d)
    /\ Is("axis") => Clock!AxisIsReadable(given.t, given.length, given.pixels, given.min)
-----------------------------------------------------------------------------
Init == given \in [kind : {"none"}, of : Families] \cup [kind : {"cell"}, cell : Cells]
Next ==
    \/ Is("cell") /\ GivenCells
    \/ IsOf("geometry") /\ GivenGeometry
    \/ IsOf("layout") /\ GivenLayout
    \/ IsOf("drawing") /\ GivenDrawing
    \/ IsOf("collections") /\ GivenCollections
    \/ IsOf("text") /\ GivenText
    \/ IsOf("answers") /\ GivenAnswers
    \/ IsOf("names") /\ GivenNames
    \/ IsOf("rows") /\ GivenRows
    \/ IsOf("records") /\ GivenRecords
    \/ IsOf("files") /\ GivenFiles
    \/ IsOf("terminal") /\ GivenTerm
    \/ IsOf("phrases") /\ GivenPhrases
    \/ IsOf("numbers") /\ GivenNumbers
    \/ IsOf("samples") /\ GivenSamples
    \/ IsOf("times") /\ GivenTimes

Spec == Init /\ [][Next]_given
-----------------------------------------------------------------------------
\* zgeo: unions, intersections and moved rectangles hold what they should, alignment touches its
\* side and is the same turned, a stack of cells gives out its space without overlapping, colors
\* come back from their forms and mix between two, and a path's box holds its points.
GeometryIsRight ==
    /\ GeometryLaws
    /\ Is("stack") => StackIsLaidOut(given.r, given.spacing, given.cells)
    /\ DrawingLaws

\* zstr: what is cut, split, escaped, quoted or joined comes back, the distance of two strings is
\* the least number of edits, wildcards match as their pieces say, and columns of a table align.
\* zhttp, zrest and zupload: a call gets all of an answer or an error, and the error it is told.
\* znamedfuncs and zcommands: a name calls the method it is of, and no other, and completes to itself.
\* zdict and zerrors: what is written in a text is read back, and errors are found in those made of them.
\* zwords: sizes, distances and counted words say the number they are given.
TextIsRight ==
    /\ Is("distance") => Words!DistanceIsEdits(given.a, given.b)
    /\ Is("cut") => Words!CutsRejoin(given.str, given.sep)
    /\ Is("pieces") => Words!PiecesRejoin(given.str, given.n, <<",">>) /\ Words!CutsShorten(given.str, given.n)
    /\ Is("concat") => Words!ConcatDivides(given.parts)
    /\ Is("common") => \A head \in BOOLEAN : Words!ExtremitiesAreCommon(given.slice, head)
    /\ Is("args") => Words!QuotedArgsReturn(given.args)
    /\ Is("parts") => Words!EscapedPartsReturn(given.parts, <<",">>)
    /\ Is("variables") => Words!VariablesAreReplaced(given.tokens, VarNames, given.values)
    /\ Is("name") => Words!NamesKeepLetters(given.str)
    /\ Is("strings") => Words!StringSlicesAreSets(given.a, given.b)
    /\ Is("parameters") => Words!ParametersReturn(given.args)
    /\ Is("symbols") => Words!SymbolsRejoin(given.str)
    /\ Is("match") => Words!PatternsMatch(given.wild, given.str)
    /\ Is("transform") => Words!WildcardsTransform(given.wild, given.to, given.str)
    /\ Is("capture") => Words!CapturesKeepText(given.str, given.wild)
    /\ Is("lines") => Words!LinesAreBroken(given.str, given.columns)
    /\ Is("table") => Words!ColumnsAlign(given.lines, given.max, given.right, given.every)
    /\ AnswerLaws
    /\ NameLaws
    /\ RecordLaws
    /\ PhraseLaws

\* zmath, zfloat, zint, zbits, zbool, zhistogram, zbucket and ztime: rounding, fractions, divisions and
\* ranges are the nearest ones, flags and words come back, no sample is lost between buckets and
\* windows, and dates, periods and durations come back from their parts.
NumbersAreRight ==
    /\ Is("round") => Counts!RoundingIsNear(given.n, given.m)
    /\ Is("fraction") => Counts!FractionIsNearest(given.p, given.q, given.max)
    /\ Is("interpolated") => Counts!InterpolationIsEven(given.l, given.n)
    /\ Is("division") => Counts!DivisionIsNice(given.s, given.e, given.max)
    /\ Is("closest") => Counts!ClosestIsNearest(given.n, given.to)
    /\ Is("columns") => Counts!CellsFitInWidth(given.w, given.s, given.a, given.b, given.c)
    /\ Is("digits") => Counts!CommasGroupDigits(given.d)
    /\ Is("range") => Counts!RangesSpan(given.a, given.b, given.c, given.n)
    /\ Is("bits") => Counts!BitsReturn(given.n, given.f, given.m, given.t)
    /\ Is("word") => Counts!PiecesMakeTheWord(given.w, given.k)
    /\ Is("width") => Counts!WidthsWrap(given.n, given.w, given.s)
    /\ Is("bool") => Counts!BooleansReturn(given.b, given.d)
    /\ SampleLaws
    /\ TimeLaws

\* zslices, zmap and zmath: slices used as sets are sets and keep the order of their elements, a value
\* set in a nested map is found and no other path changes, every combination comes once, points
\* divide a length in halves, and a tree lists each row after its parent.  zreflect and zsql: a row of
\* a table is read into the structure it was written from.  zfile and zfilelister: a walk gives
\* each file that is wanted once, and nothing else is removed, counted or listed.  zchunkedrows' terminal:
\* a page goes on where the last one ended, and shows no row that is gone.
CollectionsAreRight ==
    /\ Is("slices") => Lists!SlicesAreSets(given.a, given.b)
    /\ Is("order") => Lists!OrderIsKept(given.s, given.i, given.j, given.e)
    /\ Is("frequency") => Lists!FrequencySorts(given.s)
    /\ Is("map") => Lists!RecursiveMapKeeps(given.t, given.p, Lists!Leaf(7), given.o)
    /\ Is("combinations") => Lists!CombinationsCycle(given.sets)
    /\ Is("points") => Lists!DividePointsCover(given.n)
    /\ Is("tree") => Lists!TreeIsOrdered(given.rows)
    /\ RowLaws
    /\ FileLaws
    /\ TermLaws
=============================================================================
