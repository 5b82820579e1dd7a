--------------------------- MODULE HttpConnection ---------------------------
(***************************************************************************)
(* src/python/http/cherrPy-wsgi.py: one connection, from the file object   *)
(* that buffers the socket to the gateway that calls the application.      *)
(* HTTPConnection.communicate reads one request after the other from the   *)
(* same stream.  What a request leaves unread there is what the next one   *)
(* begins with, and what an application says of the length of its answer   *)
(* is how the client finds the end of it.                                  *)
(***************************************************************************)
EXTENDS Integers, Sequences, FiniteSets, SequencesExt

CONSTANTS
  Asked,      \* what a client may send: sequences of requests
  MaxBody,    \* max_request_body_size; 0 for none
  Reads,      \* sizes an application reads
  Writes,     \* sizes of the pieces it answers with
  Lengths,    \* lengths it declares
  Statuses,   \* and its statuses; an error response has 500
  MaxPieces,  \* bound: pieces of an answer
  Followed    \* bound: the excuses (see excused) behind which a behaviour is followed

\* A request is a record: what comes before and on its first line, its header
\* lines, whether it is of HTTP/1.1 and a HEAD, the headers Connection,
\* Transfer-Encoding, Expect and Content-Length, the sizes of its chunks, and
\* whether a trailer follows them.  Sizes count units that end a line.
ASSUME HttpAssumption ==
  /\ {MaxBody, MaxPieces} \subseteq Nat /\ Reads \cup Writes \subseteq Nat \ {0} /\ Lengths \subseteq Nat
  /\ \A a \in Asked : \A i \in DOMAIN a :
       /\ a[i].line \in {"line", "bad", "odd", "long"}
       /\ a[i].fields \in {"none", "field", "junk", "folded", "fat"}
       /\ a[i].length \in Nat /\ a[i].chunks \in Seq(Nat \ {0})

\* The lines of a request on the stream.
Line(i, is) == <<[of |-> i, is |-> is, size |-> 0]>>
Bytes(i, n) == [k \in 1..n |-> Line(i, "byte")[1]]
Chunk(i, n) == <<[of |-> i, is |-> "size", size |-> n]>> \o (IF n = 0 THEN <<>> ELSE Bytes(i, n) \o Line(i, "crlf"))
Sent(i, r) ==
  (IF r.blank THEN Line(i, "blank") ELSE <<>>) \o Line(i, r.line)
  \o (IF r.fields = "none" THEN <<>> ELSE Line(i, r.fields)) \o Line(i, "crlf")
  \o Bytes(i, r.length)
  \o (IF r.chunks = <<>> THEN <<>>
      ELSE FoldLeft(LAMBDA s, n : s \o Chunk(i, n), <<>>, Append(r.chunks, 0))
           \o (IF r.trailer THEN Line(i, "trailer") ELSE <<>>) \o Line(i, "crlf"))
Empty(t) == t.is \in {"crlf", "blank"}

VARIABLES
  asked,     \* the requests of the client
  stream,    \* external: all that the client means to send, as lines
  arrives,   \* external: how much of it arrives, and whether an end or silence follows
  received,  \* how much recv has returned: the rest of it waits in CP_fileobject._rbuf
  pos,       \* how much has been read from the file object
  at,        \* where communicate() is
  seen,      \* request_seen
  req,       \* the HTTPRequest, its rfile and its gateway
  out,       \* what has been written: the responses
  got,       \* ghost: what the application has read of the body
  excused    \* ghost: what the client or the application did that no answer is promised for

lines == <<asked, stream, arrives>>
reading == <<received, pos>>
httpVars == <<lines, reading, at, seen, req, out, got, excused>>

NewRequest ==
  [of |-> 0, started |-> FALSE, http11 |-> FALSE, head |-> FALSE, path |-> FALSE, fields |-> 0,
   close |-> FALSE, chunked |-> FALSE, sent |-> FALSE, chunkedWrite |-> FALSE,
   left |-> 0, buffer |-> <<>>, closed |-> FALSE, trailed |-> FALSE, fetched |-> 0, want |-> 0,
   responding |-> FALSE, status |-> 0, lengths |-> <<>>, pieces |-> 0]

HttpStarts(a) ==
  /\ asked = a
  /\ stream = FoldLeft(LAMBDA s, i : s \o Sent(i, asked[i]), <<>>, [i \in DOMAIN asked |-> i])
  /\ \E n \in 0..Len(stream), ends \in BOOLEAN : arrives = [n |-> n, ends |-> ends]
  /\ received = 0 /\ pos = 0 /\ at = "line" /\ seen = FALSE /\ req = NewRequest
  /\ out = <<>> /\ got = <<>> /\ excused = {}
HttpInit == \E a \in Asked : HttpStarts(a)
-----------------------------------------------------------------------------
\* CP_fileobject: recv brings what is missing, or more, which stays for later reads.
Left == arrives.n - pos
NextLine == stream[pos + 1]
Takes(n) ==
  /\ pos' = pos + n
  /\ received' \in IF received >= pos + n THEN {received} ELSE {pos + n, arrives.n}
Fewer(a, b) == IF a < b THEN a ELSE b
Stalls(n) == Left < n /\ ~arrives.ends

\* simple_response(): a whole response; 413 and 414 close the connection.
Answer(code, of) == [code |-> code, of |-> of, by |-> "length", length |-> 0, data |-> 0, last |-> TRUE]
Simple(code, of) == out' = Append(out, Answer(code, of))
\* communicate() returns, and the connection is closed.
Ends(code) ==
  /\ at' = "closed" /\ req' = [req EXCEPT !.close = @ \/ code \in {413, 414}]
  /\ IF code = 0 THEN out' = out ELSE Simple(code, req.of)
\* except Exception: an error is answered unless headers have been sent.
Fails == Ends(IF req.sent THEN 0 ELSE 500)
\* "timed out": the same, but nothing is said between two requests.
TimesOut == Ends(IF (~seen \/ req.started) /\ ~req.sent THEN 408 ELSE 0)
-----------------------------------------------------------------------------
\* read_request_line(): one empty line is ignored.
ReadLine ==
  /\ at = "line" /\ Left > 0 /\ Takes(1)
  /\ LET t == NextLine
         r == asked[t.of]
         q == [req EXCEPT !.started = TRUE, !.of = t.of]
     IN \/ /\ Empty(t) /\ ~req.started
           /\ req' = [req EXCEPT !.started = TRUE] /\ UNCHANGED <<at, out, excused>>
        \/ /\ t.is = "line"
           /\ req' = [q EXCEPT !.http11 = r.http11, !.head = r.head, !.path = TRUE]
           /\ at' = "heads" /\ UNCHANGED <<out, excused>>
        \/ \* An error is answered, and the headers are read all the same.
           /\ t.is \notin {"line", "odd", "long"} /\ (Empty(t) => req.started)
           /\ Simple(400, t.of) /\ req' = q /\ at' = "heads"
           /\ excused' = excused \cup (IF t.is = "bad" THEN {"malformed"} ELSE IF t.is = "blank" THEN {"blanks"} ELSE {})
        \/ \* parse_request_uri() raises, or SizeCheckWrapper does.
           /\ t.is \in {"odd", "long"} /\ req' = [q EXCEPT !.close = t.is = "long"]
           /\ Simple(IF t.is = "odd" THEN 500 ELSE 414, t.of) /\ at' = "closed" /\ UNCHANGED excused
  /\ UNCHANGED <<lines, seen, got>>
\* The client has closed: the headers are read all the same.
LineIsMissing ==
  /\ at = "line" /\ Left = 0 /\ arrives.ends
  /\ at' = "heads" /\ req' = [req EXCEPT !.started = TRUE]
  /\ UNCHANGED <<lines, reading, seen, out, got, excused>>

\* read_headers(): a line that is none is answered, and so are too many.
ReadHeader ==
  /\ at = "heads" /\ Left > 0 /\ ~Empty(NextLine) /\ Takes(1)
  /\ \/ NextLine.is \in {"field", "trailer"} /\ req' = [req EXCEPT !.fields = NextLine.of] /\ UNCHANGED <<at, out>>
     \/ NextLine.is = "folded" /\ Ends(500)
     \/ NextLine.is = "fat" /\ Ends(413)
     \/ NextLine.is \notin {"field", "trailer", "folded", "fat"} /\ Ends(400)
  /\ UNCHANGED <<lines, seen, got, excused>>
HeadersAreMissing ==
  /\ at = "heads" /\ Left = 0 /\ arrives.ends /\ Ends(400)
  /\ UNCHANGED <<lines, reading, seen, got, excused>>
\* The read of a line does not return in time.
ReadTimesOut ==
  /\ at \in {"line", "heads"} /\ Stalls(1) /\ TimesOut
  /\ UNCHANGED <<lines, reading, seen, got, excused>>

NoHeaders == [length |-> 0, chunks |-> <<>>, connection |-> "", coding |-> "", expects |-> FALSE]
Headers == IF req.fields = 0 THEN NoHeaders
           ELSE [n \in DOMAIN NoHeaders |-> asked[req.fields][n]]
\* read_request_headers(), behind the last line; then the request is ready.
HeadersEnd ==
  /\ at = "heads" /\ Left > 0 /\ Empty(NextLine) /\ Takes(1)
  /\ LET h == Headers
         closes == IF req.http11 THEN h.connection = "close" ELSE h.connection # "Keep-Alive"
     IN \/ MaxBody > 0 /\ h.length > MaxBody /\ Ends(413) /\ UNCHANGED seen
        \/ /\ ~(MaxBody > 0 /\ h.length > MaxBody) /\ req.http11 /\ h.coding \notin {"", "chunked"}
           /\ Ends(501) /\ UNCHANGED seen
        \/ /\ ~(MaxBody > 0 /\ h.length > MaxBody) /\ (req.http11 => h.coding \in {"", "chunked"})
           /\ req' = [req EXCEPT !.close = closes, !.chunked = req.http11 /\ h.coding = "chunked", !.left = h.length]
           /\ out' = IF h.expects THEN Append(out, Answer(100, req.of)) ELSE out
           /\ seen' = TRUE /\ at' = "respond"
  /\ UNCHANGED <<lines, got, excused>>
\* respond(): the gateway looks at the path, which an illegal line has none of.
CallGateway ==
  /\ at = "respond"
  /\ IF req.path THEN at' = "app" /\ got' = <<>> /\ UNCHANGED <<req, out>> ELSE Fails /\ UNCHANGED got
  /\ UNCHANGED <<lines, reading, seen, excused>>
-----------------------------------------------------------------------------
\* The application reads a body of known length: never more than is left of it.
KnownRead(n) ==
  LET k == Fewer(n, req.left) IN
  /\ at = "app" /\ ~req.chunked /\ k > 0
  /\ IF Stalls(k) THEN TimesOut /\ UNCHANGED <<reading, got>>
     ELSE /\ Takes(Fewer(k, Left)) /\ got' = got \o SubSeq(stream, pos + 1, pos + Fewer(k, Left))
          /\ req' = [req EXCEPT !.left = @ - Fewer(k, Left)] /\ UNCHANGED <<at, out>>
  /\ UNCHANGED <<lines, seen, excused>>

\* ChunkedRFile.read(size) and readline(): the buffer is served before a chunk is fetched.
ChunkedRead(n) ==
  /\ at = "app" /\ req.chunked /\ ~(req.closed /\ req.buffer = <<>>)
  /\ at' = "read" /\ req' = [req EXCEPT !.want = n]
  /\ UNCHANGED <<lines, reading, seen, out, got, excused>>
ChunkedReadLine ==
  /\ at = "app" /\ req.chunked /\ ~(req.closed /\ req.buffer = <<>>)
  /\ at' = "readline" /\ UNCHANGED <<lines, reading, seen, req, out, got, excused>>
FromBuffer ==
  /\ at = "read" /\ req.buffer # <<>>
  /\ LET k == Fewer(req.want, Len(req.buffer)) IN
       /\ got' = got \o SubSeq(req.buffer, 1, k)
       /\ req' = [req EXCEPT !.buffer = SubSeq(@, k + 1, Len(@)), !.want = @ - k]
       /\ at' = IF req.want = k THEN "app" ELSE "read"
  /\ UNCHANGED <<lines, reading, seen, out, excused>>
\* readline() without a size never gets behind the end of the line it has found.
LineInBuffer ==
  /\ at = "readline" /\ req.buffer # <<>> /\ at' = "spins"
  /\ UNCHANGED <<lines, reading, seen, req, out, got, excused>>

\* _fetch(): the size line, the chunk and the line end behind it; an error of it,
\* as the end of the body, goes to the application.
FetchEnds == at' = "app" /\ UNCHANGED out
TooMuch(n) == MaxBody > 0 /\ req.fetched + n > MaxBody
FetchChunk(n) ==
  LET k == Fewer(n, Left - 1) IN
  IF Stalls(n + 2) THEN TimesOut /\ UNCHANGED reading
  ELSE /\ Takes(Fewer(n + 2, Left)) /\ UNCHANGED out
       /\ req' = [req EXCEPT !.buffer = SubSeq(stream, pos + 2, pos + 1 + k), !.fetched = @ + k]
       /\ at' = IF Left < n + 2 THEN "app" ELSE at
Fetch ==
  /\ at \in {"read", "readline"} /\ req.buffer = <<>>
  /\ \/ req.closed /\ FetchEnds /\ UNCHANGED <<reading, req>>
     \/ ~req.closed /\ Left = 0 /\ arrives.ends /\ FetchEnds /\ UNCHANGED <<reading, req>>
     \/ ~req.closed /\ Stalls(1) /\ TimesOut /\ UNCHANGED reading
     \/ /\ ~req.closed /\ Left > 0
        /\ LET n == NextLine.size IN
           \/ NextLine.is = "size" /\ n = 0 /\ Takes(1) /\ req' = [req EXCEPT !.closed = TRUE] /\ FetchEnds
           \/ (NextLine.is = "size" => n > 0 /\ TooMuch(n)) /\ Takes(1) /\ FetchEnds /\ UNCHANGED req
           \/ n > 0 /\ ~TooMuch(n) /\ FetchChunk(n)
  /\ UNCHANGED <<lines, seen, got, excused>>
\* read_trailer_lines(), which only an application that knows this server calls.
ReadTrailers ==
  /\ at = "app" /\ req.chunked /\ req.closed /\ ~req.trailed
  /\ LET k == IF asked[req.of].trailer THEN 2 ELSE 1 IN
       IF Stalls(k) THEN TimesOut /\ UNCHANGED reading
       ELSE Takes(Fewer(k, Left)) /\ req' = [req EXCEPT !.trailed = TRUE] /\ UNCHANGED <<at, out>>
  /\ UNCHANGED <<lines, seen, got, excused>>
-----------------------------------------------------------------------------
\* start_response(); again, after an error, it adds to the headers it replaces.
StartResponse(status, length) ==
  /\ at = "app" /\ ~req.sent /\ Len(req.lengths) < 2 /\ (req.responding => status = 500)
  /\ req' = [req EXCEPT !.responding = TRUE, !.status = status, !.lengths = @ \o length]
  /\ excused' = excused \cup (IF req.lengths # <<>> THEN {"restarted"} ELSE {})
  /\ UNCHANGED <<lines, reading, at, seen, out, got>>

Bodyless(status) == status \in {204, 205, 304}
\* send_headers(): how the end of the answer is found, and whether the connection is kept.
Framing ==
  IF req.lengths # <<>> \/ Bodyless(req.status) THEN "length"
  ELSE IF req.status # 413 /\ req.http11 /\ ~req.head THEN "chunks" ELSE "close"
Closes == req.close \/ req.status = 413 \/ Framing = "close"
Declared == IF req.lengths = <<>> THEN 0 ELSE req.lengths[1]
\* Mutant: what is left of the body is not read.
Drains_Not == 0
\* What is left of the body is read, but not of a chunked one.
Drains == IF Closes \/ req.chunked THEN 0 ELSE req.left

Begins(data) == [code |-> req.status, of |-> req.of, by |-> Framing, length |-> IF req.head THEN 0 ELSE Declared, data |-> data, last |-> FALSE]
HeadersGo ==
  /\ Takes(Fewer(Drains, Left))
  /\ req' = [req EXCEPT !.sent = TRUE, !.close = Closes, !.left = @ - Fewer(Drains, Left),
                        !.chunkedWrite = Framing = "chunks", !.pieces = @ + 1]
\* write(): a piece longer than what was declared last is an error; the first one
\* is answered with one, and sent nevertheless.
Over(n) == req.lengths # <<>> /\ n > Last(req.lengths)
Excess(n) ==
  LET data == IF req.sent THEN Last(out).data ELSE 0 IN
  (IF req.lengths # <<>> /\ data + n > Declared THEN {"overflow"} ELSE {})
  \cup (IF req.head \/ Bodyless(req.status) THEN {"bodyless"} ELSE {})
WriteFirst(n) ==
  /\ at = "app" /\ req.responding /\ ~req.sent /\ ~Stalls(Drains) /\ HeadersGo
  /\ out' = (IF Over(n) THEN Append(out, Answer(500, req.of)) ELSE out) \o <<Begins(n)>>
  /\ at' = IF Over(n) THEN "closed" ELSE "app"
  /\ excused' = excused \cup Excess(n)
  /\ UNCHANGED <<lines, seen, got>>
Write(n) ==
  /\ at = "app" /\ req.sent /\ req.pieces < MaxPieces
  /\ out' = [out EXCEPT ![Len(out)].data = @ + (IF Over(n) THEN Last(req.lengths) ELSE n)]
  /\ req' = [req EXCEPT !.pieces = @ + 1]
  /\ at' = IF Over(n) THEN "closed" ELSE "app"
  /\ excused' = excused \cup Excess(n)
  /\ UNCHANGED <<lines, reading, seen, got>>
\* The rest of the body does not come in time: headers count as sent, and are not.
HeadersTimeOut ==
  /\ at = "app" /\ req.responding /\ ~req.sent /\ Stalls(Drains) /\ at' = "closed"
  /\ out' \in {out} \cup {Append(out, Answer(500, req.of)) : n \in {m \in Writes : Over(m)}}
  /\ UNCHANGED <<lines, reading, seen, req, got, excused>>
\* An exception of the application, or of start_response() and write().
Raises == at = "app" /\ Fails /\ UNCHANGED <<lines, reading, seen, got, excused>>
\* The client is gone: sendall raises an error that is ignored.
WriteFails ==
  /\ at = "app" /\ req.responding /\ at' = "closed"
  /\ UNCHANGED <<lines, reading, seen, req, out, got, excused>>

Unsaid == IF Last(out).by = "length" /\ ~req.head /\ Last(out).data < Last(out).length THEN {"short"} ELSE {}
Unread ==
  IF ~req.chunked \/ req.close THEN {}
  ELSE IF ~req.closed THEN {"unread"} ELSE IF asked[req.of].trailer /\ ~req.trailed THEN {"trailer"} ELSE {}
\* Headers without a piece: at the end of respond(), or by a write of nothing.
WriteNothing ==
  /\ at = "app" /\ req.responding /\ ~req.sent /\ ~Stalls(Drains) /\ HeadersGo
  /\ out' = Append(out, Begins(0))
  /\ UNCHANGED <<lines, at, seen, got, excused>>
\* The application never said how it responds: send_headers() raises, nothing is answered.
ReturnsSilent ==
  /\ at = "app" /\ ~req.responding /\ at' = "closed"
  /\ UNCHANGED <<lines, reading, seen, req, out, got, excused>>
\* respond() returns: the last chunk is sent, and the next request is read, or none.
Returns ==
  /\ at = "app" /\ req.sent
  /\ out' = [out EXCEPT ![Len(out)].last = req.chunkedWrite]
  /\ excused' = excused \cup Unsaid \cup Unread
  /\ IF req.close THEN at' = "closed" /\ UNCHANGED req ELSE at' = "line" /\ req' = NewRequest
  /\ got' = <<>> /\ UNCHANGED <<lines, reading, seen>>

HttpNext ==
  /\ excused \subseteq Followed
  /\ \/ ReadLine \/ LineIsMissing \/ ReadHeader \/ HeadersAreMissing \/ ReadTimesOut \/ HeadersEnd \/ CallGateway
     \/ \E n \in Reads : KnownRead(n) \/ ChunkedRead(n)
     \/ ChunkedReadLine \/ FromBuffer \/ LineInBuffer \/ Fetch \/ ReadTrailers
     \/ \E status \in Statuses, length \in {<<>>} \cup {<<n>> : n \in Lengths} : StartResponse(status, length)
     \/ \E n \in Writes : WriteFirst(n) \/ Write(n)
     \/ HeadersTimeOut \/ Raises \/ WriteFails \/ WriteNothing \/ ReturnsSilent \/ Returns
HttpSpec == HttpInit /\ [][HttpNext]_httpVars
-----------------------------------------------------------------------------
\* Final responses, in their order on the connection.
Finals == SelectSeq(out, LAMBDA r : r.code # 100)
Ended(r) ==
  \/ r.by = "length" /\ r.data = r.length
  \/ r.by = "chunks" /\ r.last
OwnBody == \A k \in DOMAIN got : got[k].is = "byte" /\ got[k].of = req.of
\* cherrPy-wsgi.py:1234: the i-th response answers the i-th request, and only
\* behind the end of the one before; an error at the end of the connection may
\* answer none.  No request is passed over, and what an application reads is
\* the body of its own.  This as long as lines are legal, applications read a
\* chunked body to its end and answer with what they have declared.
EachToItsRequest ==
  excused = {} =>
    /\ \A i \in DOMAIN Finals :
         /\ Finals[i].of = i \/ (Finals[i].of = 0 /\ i = Len(Finals) /\ at \in {"heads", "closed"})
         /\ i < Len(Finals) => Ended(Finals[i])
    /\ at = "line" /\ ~req.started => \A k \in 1..pos : stream[k].of <= Len(Finals)
    /\ OwnBody
\* cherrPy-wsgi.py:1252: no error between two requests, when nothing of the second has come.
NoErrorBetween ==
  \A i \in DOMAIN Finals \ {1} : Finals[i].code = 408 => \E k \in 1..arrives.n : stream[k].of = i
\* cherrPy-wsgi.py:492: a request that could not be read is not responded to.
ReadyMeansParsed == at = "respond" => req.path
\* cherrPy-wsgi.py:393: an application that reads a line of a chunked body gets it.
LinesAreRead == at # "spins"
=============================================================================
