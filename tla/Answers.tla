------------------------------- MODULE Answers -------------------------------
(***************************************************************************)
(* zhttp's calls, from the parameters given to what the caller gets, and   *)
(* the answers zrest and zupload give.  A body is what it is to the code:  *)
(* "value" is JSON of the receiver's type, "text" is not JSON, "why" is    *)
(* {"error": "…"} as ReturnError writes it, the others hold an             *)
(* ErrorStruct: plain, with a field of the wrong type, or nested in        *)
(* result, error, or both.                                                 *)
(***************************************************************************)
EXTENDS Integers, Sequences, FiniteSets, SequencesExt

Nothing == "nothing"
NoError == "none"
Nested == {"result", "errorObject", "resultError"}

(* SendBody, until the request is made: what is sent, and as what type.    *)
Panics == [panics |-> TRUE]
Prepared(body, reader, contentType, err) ==
    [panics |-> FALSE, body |-> body, reader |-> reader, contentType |-> contentType, err |-> err]
Typed(params, type) == IF params.contentType = "" THEN type ELSE params.contentType

SendBody(params, send) ==
    IF params.reader \/ (send # Nothing /\ params.body # Nothing) THEN Panics
    ELSE IF params.body # Nothing THEN Prepared(params.body, FALSE, "raw", NoError)
    ELSE CASE send = "bytes" -> Prepared("bytes", FALSE, Typed(params, "raw"), NoError)
           [] send = "args" -> Prepared("args", FALSE, Typed(params, "application/x-www-form-urlencoded"), NoError)
           [] send = "reader" -> Prepared(Nothing, TRUE, Typed(params, "application/json"), NoError)
           [] send = "unmarshallable" -> Prepared(Nothing, FALSE, "", "marshal")
           [] OTHER -> Prepared(IF send = Nothing THEN "null" ELSE IF params.xml THEN "xml" ELSE "json", FALSE,
                                Typed(params, "application/json"), NoError)

\* SendBody: what is sent is one body or one reader, with the type asked for, and never without a type.
SendingIsOne(params, send) ==
    LET p == SendBody(params, send) IN
    /\ ~params.reader /\ Nothing \in {send, params.body} => ~p.panics
    /\ ~p.panics /\ p.err = NoError =>
          /\ (p.body = Nothing) = p.reader
          /\ p.contentType # ""
          /\ params.body = Nothing /\ params.contentType # "" => p.contentType = params.contentType
          /\ params.body # Nothing => p.body = params.body
-----------------------------------------------------------------------------
(* MakeRequest keeps its clients by timeout and verification alone.        *)
makeClient(params) ==
    [secs |-> IF params.secs = -1 THEN 15 ELSE params.secs, skip |-> params.skip, certificate |-> params.certificate,
     redirects |-> "followed"]
clientInfo(params) == <<params.secs, params.skip>>
ClientFor(cache, params) ==
    IF params.noCache \/ clientInfo(params) \notin DOMAIN cache THEN makeClient(params) ELSE cache[clientInfo(params)]
CacheAfter(cache, params) ==
    IF params.noCache \/ clientInfo(params) \in DOMAIN cache THEN cache
    ELSE [i \in DOMAIN cache \union {clientInfo(params)} |-> IF i \in DOMAIN cache THEN cache[i] ELSE makeClient(params)]

(* GetRedirectedURL gives its client a CheckRedirect that refuses more than *)
(* ten; chain has the URLs that answer with the next one.                   *)
RedirectParams(skip) == [secs |-> 5, skip |-> skip, certificate |-> "", noCache |-> TRUE]
GetRedirectedURL(chain, answers, resolves) ==
    LET redirects == Len(chain) - 1
        err == redirects > 10 \/ ~answers
    IN [err |-> err,
        url |-> IF err /\ ~resolves THEN "" ELSE chain[IF redirects > 10 THEN 12 ELSE Len(chain)]]

RefuseRedirects(cache, params) ==
    IF params.noCache THEN cache
    ELSE [i \in DOMAIN CacheAfter(cache, params) |->
             [CacheAfter(cache, params)[i] EXCEPT !.redirects = IF i = clientInfo(params) THEN "refused" ELSE @]]

\* GetRedirectedURL: without an error the URL is the last of a chain of at most ten redirects.
RedirectsEnd(chain, answers, resolves) ==
    LET r == GetRedirectedURL(chain, answers, resolves) IN
    /\ ~r.err => r.url = Last(chain) /\ answers
    /\ Len(chain) <= 11 /\ answers => ~r.err
    /\ r.err /\ resolves => r.url \in {chain[i] : i \in DOMAIN chain}

\* MakeRequest: a request has the timeout and the verification it asks for, whatever was asked
\* before it, its own certificate if it takes no part in the cache, and no client that is shared
\* has the CheckRedirect of a lookup of redirects.
RequestsGetTheirClients(requests) ==
    LET caches[n \in 0..Len(requests)] ==
            IF n = 0 THEN <<>>
            ELSE CacheAfter(IF requests[n].redirectFirst THEN RefuseRedirects(caches[n - 1], RedirectParams(requests[n].skip))
                            ELSE caches[n - 1], requests[n])
    IN \A n \in 1..Len(requests) :
          LET p == requests[n]
              client == ClientFor(caches[n - 1], p)
          IN /\ client.secs = (IF p.secs = -1 THEN 15 ELSE p.secs) /\ client.skip = p.skip
             /\ p.noCache => client.certificate = p.certificate
             /\ (\A k \in 1..n : clientInfo(requests[k]) = clientInfo(p) => requests[k].certificate = p.certificate)
                   => client.certificate = p.certificate
             /\ client.redirects = "followed"
-----------------------------------------------------------------------------
(* What came over the net: an answer with a status and a body, an error,   *)
(* nothing at all, or the last of too many redirects, already closed.      *)
CheckErrorFromBody(answer) ==
    IF answer.status < 400 THEN NoError
    ELSE IF ~answer.readable THEN "read"
    ELSE IF answer.body \in Nested \union {"mistyped"} THEN "told" ELSE "code"

\* GetResponseFromReqClient: an answer of 300 or more is an error, whose body is left open.
GetResponse(params, net) ==
    LET asked == IF net.kind = "redirects" THEN "transport" ELSE NoError
        err == IF params.getError /\ (asked # NoError \/ net.status # 200) THEN CheckErrorFromBody(net) ELSE asked
    IN IF net.kind \in {"failed", "nil"} THEN [resp |-> FALSE, err |-> "transport", open |-> FALSE]
       ELSE IF err # NoError THEN [resp |-> TRUE, err |-> err, open |-> FALSE]
       ELSE [resp |-> TRUE, err |-> IF net.status >= 300 THEN "status" ELSE NoError, open |-> net.kind = "answer"]

\* processResponse: the receiver is given the body, and the body is read and closed.
processResponse(net, r, receive) ==
    LET result(err, got) == [err |-> err, got |-> got, open |-> FALSE]
    IN IF ~r.resp THEN result(r.err, "nothing")
       ELSE IF r.err # NoError THEN result(IF r.open /\ net.readable /\ net.body = "why" THEN "told" ELSE r.err, "nothing")
       ELSE IF ~r.open \/ ~net.readable THEN result("read", "nothing")
       ELSE CASE receive = Nothing -> result(NoError, "nothing")
              [] receive \in {"bytes", "string"} -> result(NoError, "body")
              [] OTHER -> IF net.body = "value" THEN result(NoError, "body") ELSE result("unmarshal", "part")

CallAnswer(params, net, receive) == processResponse(net, GetResponse(params, net), receive)

\* Get and SendBody: no error means that all of an answer below 300 was received; an error that the
\* server tells is the one the caller gets; and no body is left open.
AnswerIsReceived(params, net, receive) ==
    LET r == CallAnswer(params, net, receive) IN
    /\ ~r.open
    /\ r.err = NoError <=> /\ net.kind = "answer" /\ net.status < 300 /\ net.readable
                           /\ receive = "struct" => net.body = "value"
    /\ r.got = "body" <=> r.err = NoError /\ receive # Nothing
    /\ net.kind = "answer" /\ net.readable /\ net.status >= 400 =>
          (r.err = "told" <=> IF params.getError THEN net.body \in Nested \union {"mistyped"} ELSE net.body = "why")

(* MakeHTTPError on words, paragraph marks and new lines.                  *)
SingleBreaks(words) ==
    LET broken == [i \in DOMAIN words |-> IF words[i] \in {"<p>", "</p>"} THEN "\n" ELSE words[i]]
        kept == {i \in DOMAIN words : ~(broken[i] = "\n" /\ i > 1 /\ broken[i - 1] = "\n")}
        nth(n) == CHOOSE i \in kept : Cardinality({j \in kept : j <= i}) = n
    IN [n \in 1..Cardinality(kept) |-> broken[nth(n)]]
MakeHTTPError(err, code, message) ==
    LET text == IF message # <<>> THEN SingleBreaks(message) \o (IF err = NoError THEN <<>> ELSE <<":", err>>)
                ELSE IF err = NoError THEN <<>> ELSE <<err>>
    IN IF err = NoError /\ code > 0 THEN Append(text, "status text") ELSE text

\* MakeHTTPError: every word is kept in order, lines are broken once, and the error or the status ends it.
HTTPErrorTellsAll(err, code, message) ==
    LET text == MakeHTTPError(err, code, message)
        words(s) == SelectSeq(s, LAMBDA w : w = "word")
    IN /\ words(text) = words(message)
       /\ \A i \in 1..(Len(text) - 1) : ~(text[i] = "\n" /\ text[i + 1] = "\n")
       /\ err # NoError => text # <<>> /\ Last(text) = err
       /\ err = NoError /\ code > 0 => Last(text) = "status text"
       /\ text = <<>> => message = <<>> /\ err = NoError
-----------------------------------------------------------------------------
(* TimedGet reads until it has enough; reads are the sizes the body gives. *)
SumOf(sizes, n) == FoldLeft(+, 0, SubSeq(sizes, 1, n))
ReadEnough(reads, fails, enough) ==
    LET stops == {n \in 1..Len(reads) : SumOf(reads, n) >= enough \/ n = Len(reads)}
        stop == CHOOSE n \in stops : \A m \in stops : n <= m
    IN IF reads = <<>> THEN [count |-> 0, err |-> fails]
       ELSE [count |-> SumOf(reads, stop), err |-> fails /\ stop = Len(reads) /\ SumOf(reads, stop) < enough]
TimedGet(answer, reads, fails, downloadBytes) ==
    LET read == ReadEnough(reads, fails, downloadBytes)
    IN IF CheckErrorFromBody(answer) # NoError THEN [err |-> TRUE, count |-> 0, done |-> FALSE]
       ELSE IF downloadBytes = 0 THEN [err |-> FALSE, count |-> 0, done |-> TRUE]
       ELSE [err |-> read.err, count |-> read.count, done |-> ~read.err]

\* TimedGet: as much is read as was asked for, or all there is, and not a read more.
TimedGetReadsEnough(answer, reads, fails, downloadBytes) ==
    LET r == TimedGet(answer, reads, fails, downloadBytes)
        all == SumOf(reads, Len(reads))
    IN /\ r.done => \/ r.count >= downloadBytes
                    \/ r.count = all
       /\ r.count < downloadBytes + 3 /\ r.count <= all
       /\ r.err <=> answer.status >= 400 \/ (fails /\ downloadBytes # 0 /\ all < downloadBytes)
       /\ r.err # r.done

(* PostWithLength; CRC stands for Castagnoli's.                            *)
CRC(body) == FoldLeft(LAMBDA sum, x : (2 * sum + x) % 7, 0, body)
PostWithLength(crc, length, body, reader, readFails) ==
    LET finds == crc = 0 \/ length = 0
        sent == IF body # <<>> \/ ~finds THEN body ELSE reader
        left == reader # <<>> /\ ~(finds /\ body = <<>>)
    IN IF finds /\ body = <<>> /\ readFails THEN [panics |-> FALSE, err |-> TRUE]
       ELSE IF left THEN Panics
       ELSE [panics |-> FALSE, err |-> FALSE, crc |-> IF crc = 0 THEN CRC(sent) ELSE crc,
             length |-> IF finds THEN Len(sent) ELSE length, sent |-> sent]

\* PostWithLength: a body is sent whole with its own checksum and length, and so is a reader if
\* one of them was to be found.
LengthsAreSent(content, crcGiven, lengthGiven, fromReader, readFails) ==
    LET r == PostWithLength(IF crcGiven THEN CRC(content) ELSE 0, IF lengthGiven THEN Len(content) ELSE 0,
                            IF fromReader THEN <<>> ELSE content, IF fromReader THEN content ELSE <<>>, readFails)
    IN content # <<>> /\ ~(fromReader /\ crcGiven /\ lengthGiven /\ CRC(content) # 0) =>
          /\ ~r.panics
          /\ ~r.err => r.sent = content /\ r.crc = CRC(content) /\ r.length = Len(content)
          /\ r.err <=> readFails /\ fromReader
-----------------------------------------------------------------------------
(* URLs: a path of parts and the arguments in their order.                 *)
Keys(args) == {args[i][1] : i \in DOMAIN args}
ValuesOf(args, key) == SelectSeq(args, LAMBDA arg : arg[1] = key)
Encode(values) ==
    LET keys == SetToSortSeq(DOMAIN values, <)
    IN FlattenSeq([i \in DOMAIN keys |-> [j \in DOMAIN values[keys[i]] |-> <<keys[i], values[keys[i]][j]>>]])
Query(args) == [k \in Keys(args) |-> [i \in DOMAIN ValuesOf(args, k) |-> ValuesOf(args, k)[i][2]]]
MakeURLWithArgs(url, args) ==
    LET old == Query(url.args)
    IN [url EXCEPT !.args = Encode([k \in DOMAIN old \union DOMAIN args |-> IF k \in DOMAIN args THEN <<args[k]>> ELSE old[k]])]
ArgsFromURL(url) == [k \in Keys(url.args) |-> Query(url.args)[k][1]]
CleanParts(parts) ==
    FoldLeft(LAMBDA out, part : IF part \in {"", "."} THEN out
                                ELSE IF part # ".." THEN Append(out, part)
                                ELSE IF out = <<>> THEN out ELSE Front(out), <<>>, parts)
AddPathToURL(url, add) == [url EXCEPT !.path = CleanParts(@ \o add)]

\* TruncateLongParametersInURL: Set keeps the last value of a key.
TotalChars(url) == Len(url.path) + FoldLeft(LAMBDA sum, arg : sum + 3 + Len(arg[2]), 0, url.args)
TruncateLongParametersInURL(url, only, most) ==
    LET short(value) == IF Len(value) > most THEN <<"x", "x", "x">> ELSE value
    IN IF TotalChars(url) <= only THEN url
       ELSE [url EXCEPT !.args = Encode([k \in Keys(url.args) |-> <<short(Last(Query(url.args)[k]))>>])]

\* MakeURLWithArgs, ArgsFromURL, TruncateLongParametersInURL, AddPathToURL: arguments that are set are
\* read again, the others and the path stay; a shortened URL has all its keys, no value longer than
\* asked and the short ones as they were; a path is added below the one there is.
URLsKeepTheirParts(url, args, only, most, add) ==
    LET made == MakeURLWithArgs(url, args)
        cut == TruncateLongParametersInURL(url, only, most)
    IN /\ made.path = url.path /\ Keys(made.args) = Keys(url.args) \union DOMAIN args
       /\ \A k \in DOMAIN args : ArgsFromURL(made)[k] = args[k]
       /\ \A k \in Keys(url.args) \ DOMAIN args : Query(made.args)[k] = Query(url.args)[k]
       /\ MakeURLWithArgs(made, args) = made
       /\ Keys(cut.args) = Keys(url.args) /\ cut.path = url.path
       /\ cut # url => \A k \in Keys(url.args) :
             LET value == Query(cut.args)[k] IN
             Len(value) = 1 /\ (value[1] = <<"x", "x", "x">> \/ (Len(value[1]) <= most /\ value[1] = Last(Query(url.args)[k])))
       /\ LET joined == AddPathToURL(url, add) IN
          /\ joined.args = url.args
          /\ ".." \notin ToSet(add) => SubSeq(joined.path, 1, Len(url.path)) = url.path
-----------------------------------------------------------------------------
(* zrest: an answer's headers are those set before its status is written.  *)
NewAnswer == [status |-> 0, headers |-> {}, body |-> ""]
WriteHeader(w, code) == IF w.status = 0 THEN [w EXCEPT !.status = code] ELSE w
SetHeader(w, names) == IF w.status = 0 THEN [w EXCEPT !.headers = @ \union names] ELSE w
AddCORSHeaders(w, origin, legal) == IF origin \in legal THEN SetHeader(w, {"Allow-Origin", "Allow-Methods"}) ELSE w
ReturnDict(w, origin, legal, body) ==
    [WriteHeader(AddCORSHeaders(SetHeader(w, {"Content-Type", "Date"}), origin, legal), 200) EXCEPT !.body = body]
ReturnError(w, origin, legal, code) == ReturnDict(WriteHeader(w, code), origin, legal, "why")
GetVal(vals, name, def) == IF name \in DOMAIN vals /\ vals[name].parses THEN vals[name].n ELSE def

(* zupload's handleUpload: handler is what the handler registered for the  *)
(* id does with what it reads, "missing" if there is none.  What copySPC    *)
(* or copyURL cannot get is not handled; a copy that fails under way is.    *)
callHandler(up) == [called |-> up.handler # "missing", err |-> up.handler # "value"]
NotHandled == [called |-> FALSE, err |-> TRUE]
Upload(up, net) ==
    CASE up.type = "scp" -> IF net.kind = "failed" THEN NotHandled
                            ELSE [callHandler(up) EXCEPT !.err = @ \/ net.kind # "answer"]
      [] up.type = "url" -> IF GetResponse([getError |-> FALSE], net).err # NoError THEN NotHandled ELSE callHandler(up)
      [] OTHER -> callHandler(up)
handleUpload(up, net, valid, origin, legal) ==
    IF ~valid THEN [w |-> ReturnError(NewAnswer, origin, legal, 401), called |-> FALSE]
    ELSE LET did == Upload(up, net)
         IN [w |-> ReturnDict(NewAnswer, origin, legal, IF did.err THEN "why" ELSE "value"), called |-> did.called]

\* ReturnError, ReturnDict, handleUpload: what a server tells is what its client is told, an answer goes
\* to another origin only if that is legal, and an upload without a valid token is never handled.
ServersAnswer(up, net, valid, origin, legal, code) ==
    LET answer(w) == [kind |-> "answer", status |-> w.status, readable |-> TRUE, body |-> w.body]
        told == ReturnError(NewAnswer, origin, legal, code)
        uploaded == handleUpload(up, net, valid, origin, legal)
        plain == [getError |-> FALSE]
    IN /\ told.status = code /\ CallAnswer(plain, answer(told), "struct").err = (IF code < 300 THEN "unmarshal" ELSE "told")
       /\ \A w \in {told, uploaded.w} : "Allow-Origin" \in w.headers => origin \in legal
       /\ ~valid => ~uploaded.called /\ CallAnswer(plain, answer(uploaded.w), "string").err = "told"
       /\ valid => uploaded.w.status = 200 /\ {"Content-Type", "Date"} \subseteq uploaded.w.headers
       /\ valid /\ uploaded.w.body = "value" => uploaded.called /\ up.handler = "value"
       /\ valid /\ up.handler = "value" /\ (up.type = "body" \/ (net.kind = "answer" /\ net.status < 300)) =>
             uploaded.w.body = "value"
       /\ origin \in legal /\ valid => "Allow-Origin" \in uploaded.w.headers
       /\ \A parses \in BOOLEAN : GetVal([x \in {"n"} |-> [parses |-> parses, n |-> code]], "n", 1) = (IF parses THEN code ELSE 1)
==============================================================================
