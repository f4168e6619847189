------------------------------- MODULE FileTrees ------------------------------
(***************************************************************************)
(* zfile's walks of folders, and what is made of them: lists of files,     *)
(* sizes, removal of old files, and zfilelister's directories, picked      *)
(* files and icons.  A node is a folder with its entries in their order,   *)
(* a file, or a link; a path is the sequence of its letters.               *)
(***************************************************************************)
EXTENDS Integers, Sequences, FiniteSets, SequencesExt

File(name, ext, size, old) ==
    [name |-> name, dir |-> FALSE, link |-> FALSE, ext |-> ext, size |-> size, old |-> old, entries |-> <<>>]
Folder(name, entries) == [File(name, "", 1, FALSE) EXCEPT !.dir = TRUE, !.entries = entries]
Link(name) == [File(name, "", 1, FALSE) EXCEPT !.link = TRUE]

IsHidden(node) == node.name = "."
\* Wildcards are extensions here; without any every name matches.
Matches(node, wildcards) == wildcards = {} \/ node.ext \in wildcards

(* filepath.Walk: what got answers for a node ends its folder, the rest of *)
(* the folder a file is in, or all; an error is told, and the end isn't.   *)
Answered(answers, node) == IF node.name \in DOMAIN answers THEN answers[node.name] ELSE "go"
Give(st, path, answer) ==
    [given |-> Append(st.given, path), stop |-> IF answer = "go" THEN "no" ELSE IF answer = "skip" THEN "rest" ELSE answer]
RECURSIVE WalkIn(_, _, _, _)
WalkNode(st, node, path, ask) ==
    IF st.stop # "no" \/ (IsHidden(node) /\ "Hidden" \notin ask.opts) THEN st
    ELSE IF ~node.dir
    THEN IF Matches(node, ask.wildcards) THEN Give(st, path, Answered(ask.answers, node)) ELSE st
    ELSE LET gave == IF "Folders" \in ask.opts THEN Give(st, path, Answered(ask.answers, node)) ELSE st
         IN IF gave.stop = "rest" THEN [gave EXCEPT !.stop = "no"]
            ELSE IF gave.stop = "no" /\ "Recursive" \in ask.opts THEN WalkIn(gave, node.entries, path, ask)
            ELSE gave
WalkIn(st, entries, path, ask) ==
    LET all == FoldLeft(LAMBDA s, node : WalkNode(s, node, Append(path, node.name), ask), st, entries)
    IN IF all.stop = "rest" THEN [all EXCEPT !.stop = "no"] ELSE all
Ask(opts, wildcards, answers) == [opts |-> opts, wildcards |-> wildcards, answers |-> answers]
Walk(root, ask) ==
    IF root = <<>> THEN [given |-> <<>>, stop |-> "err"]
    ELSE IF root[1].dir THEN WalkIn([given |-> <<>>, stop |-> "no"], root[1].entries, <<>>, ask)
    ELSE WalkNode([given |-> <<>>, stop |-> "no"], root[1], <<root[1].name>>, ask)

(* The path that is given: all of it, its name, or what is after as many   *)
(* letters as the folder has, and one if that has no slash first.          *)
WithSlashes(names) == FlattenSeq([i \in DOMAIN names |-> IF i = 1 THEN <<names[i]>> ELSE <<"/", names[i]>>])
Cleaned(folder) == IF Len(folder) > 1 /\ folder[Len(folder)] = "/" THEN SubSeq(folder, 1, Len(folder) - 1) ELSE folder
PathGiven(folder, names, opts) ==
    LET fpath == Cleaned(folder) \o <<"/">> \o WithSlashes(names)
        after == Len(folder) + (IF folder[1] = "/" THEN 0 ELSE 1)
    IN IF "Relative" \in opts THEN SubSeq(fpath, after + 1, Len(fpath))
       ELSE IF "Name" \in opts THEN <<names[Len(names)]>> ELSE fpath

\* GetFilesFromPath tells no error.
GetFilesFromPath(root, wildcards, opts) == Walk(root, Ask(opts, wildcards, <<>>)).given

RECURSIVE AllPaths(_, _)
AllPaths(entries, path) ==
    UNION {{[path |-> Append(path, entries[i].name), node |-> entries[i], order |-> i]}
             \union AllPaths(entries[i].entries, Append(path, entries[i].name)) : i \in DOMAIN entries}
At(root, path) == CHOOSE p \in AllPaths(root[1].entries, <<>>) : p.path = path
IsWanted(root, p, ask) ==
    /\ Len(p.path) = 1 \/ "Recursive" \in ask.opts
    /\ "Hidden" \in ask.opts \/ ~Contains(p.path, ".")
    /\ IF p.node.dir THEN "Folders" \in ask.opts ELSE Matches(p.node, ask.wildcards)
\* Walk: all that matches is given once, a folder before what is in it, after an answer to stop
\* nothing is, and what isn't given was skipped with its folder.
FilesAreWalked(root, ask) ==
    LET walk == Walk(root, ask)
        wanted == {p.path : p \in {q \in AllPaths(root[1].entries, <<>>) : IsWanted(root, q, ask)}}
        does(i) == Answered(ask.answers, At(root, walk.given[i]).node)
        n == Len(walk.given)
    IN /\ ToSet(walk.given) \subseteq wanted
       /\ Cardinality(ToSet(walk.given)) = n
       /\ \A i, j \in 1..n : IsStrictPrefix(walk.given[i], walk.given[j]) => i < j /\ does(i) = "go"
       /\ (\A i \in 1..n : does(i) \in {"go", "skip"}) =>
             /\ walk.stop = "no"
             /\ \A w \in wanted \ ToSet(walk.given) : \E i \in 1..n :
                   does(i) = "skip" /\ IsStrictPrefix(IF At(root, walk.given[i]).node.dir THEN walk.given[i] ELSE Front(walk.given[i]), w)
       /\ \A i \in 1..n : does(i) \in {"err", "all"} => i = n /\ walk.stop = does(i)
       /\ \A i \in 1..n : does(i) = "skip" /\ ~At(root, walk.given[i]).node.dir =>
             \A j \in (i + 1)..n : ~IsPrefix(Front(walk.given[i]), walk.given[j])
\* Walk: the path relative to a folder is what is within it, after a slash if the folder is absolute.
PathsAreRelative(folder, names) ==
    LET whole == PathGiven(folder, names, {})
        relative == PathGiven(folder, names, {"Relative"})
    IN Cleaned(folder) = folder =>
       /\ relative = (IF folder[1] = "/" THEN <<"/">> ELSE <<>>) \o WithSlashes(names)
       /\ IsSuffix(relative, whole)
-----------------------------------------------------------------------------
(* DirSize leaves out links, and has no size if anything is not there.     *)
RECURSIVE SizeOf(_)
SizeOf(node) ==
    IF node.link THEN 0
    ELSE IF node.dir THEN FoldLeft(LAMBDA n, e : n + SizeOf(e), 0, node.entries) ELSE node.size
DirSize(root) == IF root = <<>> THEN [size |-> 0, err |-> TRUE] ELSE [size |-> SizeOf(root[1]), err |-> FALSE]

(* RemoveOldFilesFromFolder, while it walks: an empty folder is removed as *)
(* a file is, and the walk ends with the error of entering it.             *)
RECURSIVE RemoveIn(_, _, _, _)
RemoveNode(st, node, path, ask) ==
    IF st.stop \/ (IsHidden(node) /\ "Hidden" \notin ask.opts) THEN st
    ELSE IF ~node.dir
    THEN IF Matches(node, ask.wildcards) /\ node.old THEN [st EXCEPT !.removed = @ \union {path}] ELSE st
    ELSE LET removes == "Folders" \in ask.opts /\ node.old /\ node.entries = <<>>
         IN IF removes THEN [removed |-> st.removed \union {path}, stop |-> "Recursive" \in ask.opts]
            ELSE IF "Recursive" \in ask.opts THEN RemoveIn(st, node.entries, path, ask) ELSE st
RemoveIn(st, entries, path, ask) ==
    FoldLeft(LAMBDA s, node : RemoveNode(s, node, Append(path, node.name), ask), st, entries)
RemoveOldFilesFromFolder(root, wildcards, opts) ==
    RemoveIn([removed |-> {}, stop |-> FALSE], root[1].entries, <<>>, Ask(opts, wildcards, <<>>)).removed

\* RemoveOldFilesFromFolder, DirSize: only what is old and asked for is removed, all of it without
\* folders, and the size of a folder is that of what is in it, so it is less by what was removed.
OldFilesAreRemoved(root, wildcards, opts) ==
    LET removed == RemoveOldFilesFromFolder(root, wildcards, opts)
        all == AllPaths(root[1].entries, <<>>)
        old == {p \in all : p.node.old /\ IsWanted(root, p, Ask(opts, wildcards, <<>>))}
        files == {p \in all : ~p.node.dir /\ ~p.node.link}
        sum(ps) == FoldLeft(LAMBDA n, p : n + p.node.size, 0, SetToSeq(ps))
    IN /\ removed \subseteq {p.path : p \in old}
       /\ "Folders" \notin opts => removed = {p.path : p \in old}
       /\ \A p \in all : p.path \in removed => p.node.entries = <<>>
       /\ DirSize(root).size = sum(files)
       /\ sum({p \in files : p.path \in removed}) + sum({p \in files : p.path \notin removed}) = DirSize(root).size
-----------------------------------------------------------------------------
(* zfilelister.  A folder's name ends with a slash in a directory.         *)
Listed(node) == [name |-> node.name, dir |-> node.dir]
getDirectory(root, allowed, foldersOnly) ==
    LET names == Walk(root, Ask({"Name", "Folders"}, allowed, <<>>)).given
        nodes == [i \in DOMAIN names |-> At(root, names[i]).node]
        shown == SelectSeq(nodes, LAMBDA n : foldersOnly => n.dir)
    IN [i \in DOMAIN shown |-> Listed(shown[i])]
\* ExpandFilePathsFromPicked: folders become all the files in them, then any MaxFiles of all.
Expanded(root, picked) ==
    FlattenSeq([i \in DOMAIN picked |->
        IF At(root, picked[i]).node.dir
        THEN LET within == GetFilesFromPath(<<At(root, picked[i]).node>>, {}, {"Recursive"})
             IN [k \in DOMAIN within |-> picked[i] \o within[k]]
        ELSE <<picked[i]>>])
ExpandFilePathsFromPicked(root, picked, maxFiles) ==
    LET all == Expanded(root, picked)
    IN IF maxFiles = 0 THEN {all}
       ELSE {[k \in DOMAIN order |-> all[order[k]]] :
                order \in {o \in UNION {[1..n -> DOMAIN all] : n \in 0..Len(all)} :
                             /\ \A i, j \in DOMAIN o : i # j => o[i] # o[j]
                             /\ Len(o) = IF maxFiles < Len(all) THEN maxFiles ELSE Len(all)}}
\* interceptCache and serveThumb: what is served for a path, and what is cached then.
Icons == {".txt", ".folder_"}
interceptCache(ask) ==
    LET ext == IF ask.ext = "" /\ ask.slash THEN ".folder_" ELSE ask.ext
        isImage == ~(ask.ext = "" /\ ask.slash) /\ ext = ".png"
        thumb == IF ask.size = 0 THEN [done |-> FALSE, served |-> "error", caches |-> FALSE]
                 ELSE IF ask.cached THEN [done |-> TRUE, served |-> "thumb", caches |-> FALSE]
                 ELSE IF ~ask.ours THEN [done |-> FALSE, served |-> "nothing", caches |-> FALSE]
                 ELSE IF ~ask.readable THEN [done |-> FALSE, served |-> "error", caches |-> FALSE]
                 ELSE [done |-> TRUE, served |-> "thumb", caches |-> TRUE]
    IN IF isImage THEN thumb
       ELSE [done |-> TRUE, served |-> IF ext \in Icons THEN ext ELSE "document", caches |-> FALSE]

\* getDirectory, ExpandFilePathsFromPicked: every folder that is shown is listed once, with the files
\* of the extensions allowed unless only folders are; what is expanded are files, as many as there
\* are up to the most wanted, and no file comes more often than it was picked.
DirectoriesAreListed(root, allowed, foldersOnly, picked, maxFiles) ==
    LET dir == getDirectory(root, allowed, foldersOnly)
        top == {root[1].entries[i] : i \in DOMAIN root[1].entries}
        times(seq, path) == Cardinality({i \in DOMAIN seq : seq[i] = path})
    IN /\ ToSet(dir) = {Listed(n) : n \in {m \in top : ~IsHidden(m) /\ (m.dir \/ (~foldersOnly /\ Matches(m, allowed)))}}
       /\ Len(dir) = Cardinality(ToSet(dir)) /\ ExpandFilePathsFromPicked(root, picked, maxFiles) # {}
       /\ \A files \in ExpandFilePathsFromPicked(root, picked, maxFiles) :
             /\ \A i \in DOMAIN files : /\ ~At(root, files[i]).node.dir
                                        /\ \E k \in DOMAIN picked : IsPrefix(picked[k], files[i])
                                        /\ times(files, files[i]) <= Cardinality({k \in DOMAIN picked : IsPrefix(picked[k], files[i])})
             /\ maxFiles # 0 => Len(files) <= maxFiles
             /\ maxFiles = 0 \/ Len(files) < maxFiles => ToSet(files) = ToSet(Expanded(root, picked))
\* interceptCache: an icon is served for all but images, of which only those in the cache or in a
\* folder of the server are; what is cached is served, and nothing is served that wasn't read.
IconsAreServed(ask) ==
    LET r == interceptCache(ask)
    IN /\ r.caches => r.done /\ r.served = "thumb" /\ ask.readable /\ ask.ours /\ ~ask.cached
       /\ r.served = "thumb" => ask.ext = ".png" /\ ask.size # 0 /\ (ask.cached \/ r.caches)
       /\ ask.ext # ".png" => r.done
       /\ ~r.done => ask.ext = ".png"
-----------------------------------------------------------------------------
(* ReadFromURLToFilepath, of what each read of the answer gives, at most   *)
(* maxBytes each.                                                          *)
SumTo(reads, n) == FoldLeft(LAMBDA a, r : a + r, 0, SubSeq(reads, 1, n))
ReadFromURL(reads, maxBytes) ==
    LET ends == {n \in 0..Len(reads) : n = Len(reads) \/ SumTo(reads, n) >= maxBytes \/ reads[n + 1] = 0}
    IN IF maxBytes = 0 THEN SumTo(reads, Len(reads)) ELSE SumTo(reads, CHOOSE n \in ends : \A m \in ends : n <= m)
\* ReadFromURLToFilepath: with a limit at least that many bytes are stored if there are and none of
\* the reads was empty, and less than twice as many; without one all are.
ReadsAreLimited(reads, maxBytes) ==
    LET stored == ReadFromURL(reads, maxBytes)
        all == SumTo(reads, Len(reads))
    IN /\ stored <= all
       /\ maxBytes = 0 => stored = all
       /\ maxBytes # 0 /\ (\A i \in DOMAIN reads : reads[i] \in 1..maxBytes) =>
             stored >= (IF all < maxBytes THEN all ELSE maxBytes) /\ stored < 2 * maxBytes
===============================================================================
