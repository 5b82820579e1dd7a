---------------------------- MODULE MCWsgiServer ----------------------------
(* The server around its connections, and the inside of one connection: a    *)
(* behaviour is of one of the two, chosen at the start.                      *)
(* Server: one thread to begin with, two at most; two connections.  It is    *)
(* started twice and shrunk twice, whatever happened before.                 *)
(* Connection: two requests, one of which may have a body, in chunks or not, *)
(* or anything that is not a request of HTTP/1.1.                            *)
EXTENDS WsgiServer, HttpConnection, TLC
CONSTANTS c1, c2
MCConns == {c1, c2}
MCAnything == {"interrupt", "request", "shrink", "failure"}

Plain == [blank |-> FALSE, line |-> "line", fields |-> "none", http11 |-> TRUE, head |-> FALSE,
          connection |-> "", coding |-> "", expects |-> FALSE, length |-> 0, chunks |-> <<>>, trailer |-> FALSE]
Full == [Plain EXCEPT !.fields = "field"]
Older == [Full EXCEPT !.length = 1, !.expects = TRUE, !.http11 = FALSE, !.connection = "Keep-Alive"]
Kept == {
  [Full EXCEPT !.head = TRUE, !.blank = TRUE],
  [Full EXCEPT !.length = 3],
  Older,
  [Full EXCEPT !.coding = "chunked", !.chunks = <<1, 2>>],
  [Full EXCEPT !.coding = "chunked", !.chunks = <<1>>, !.trailer = TRUE],
  [Full EXCEPT !.coding = "chunked", !.chunks = <<4>>]}
Illegal ==
  {[Full EXCEPT !.line = is] : is \in {"bad", "odd", "long"}}
  \cup {[Full EXCEPT !.fields = is] : is \in {"junk", "folded", "fat"}}
  \cup {[Full EXCEPT !.length = 4], [Full EXCEPT !.coding = "other"]}
Single == {[Full EXCEPT !.http11 = FALSE], [Full EXCEPT !.connection = "close", !.length = 1]}
MCAsked ==
  {<<a, Plain>> : a \in Kept \cup Illegal \cup Single}
  \cup {<<[Full EXCEPT !.coding = "chunked", !.chunks = <<1>>], [Plain EXCEPT !.blank = TRUE]>>}
  \cup {<<Plain, b>> : b \in {Older} \cup Illegal \cup Single}
MCExcuses == {"malformed", "blanks"}

VARIABLE part
BothInit ==
  /\ WsgiInit
  /\ \/ part = "server" /\ HttpStarts(<<>>) /\ arrives.ends
     \/ part = "connection" /\ HttpInit
\* Bound: four starts, calls of shrink and connections together.
Bounded == counts.start + counts.shrink + Cardinality({c \in Conns : conn[c].at # "out"}) <= 4
BothNext ==
  /\ part' = part
  /\ \/ part = "server" /\ WsgiNext /\ Bounded' /\ UNCHANGED httpVars
     \/ part = "connection" /\ HttpNext /\ UNCHANGED vars
BothSpec == BothInit /\ [][BothNext]_<<vars, httpVars, part>> /\ WsgiFairness
=============================================================================
