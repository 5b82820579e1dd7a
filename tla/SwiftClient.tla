----------------------------- MODULE SwiftClient ----------------------------
(***************************************************************************)
(* src/python/http/client.py: Connection, whose calls go through _retry,   *)
(* and the requests that _retry makes again when a connection breaks, a    *)
(* token has expired or the server is not well.  The connection (httplib), *)
(* the server and the other clients are external: between any two steps    *)
(* the connection may break, with a request or its answer on the way.      *)
(***************************************************************************)
EXTENDS Naturals, Sequences, FiniteSets, SequencesExt

CONSTANTS
  Names,            \* of objects in the container; numbers, in the order of a listing
  Mine,             \* those the calls name; others put and delete any
  Dir,              \* of each name, the entry that a delimiter shows it in
  Texts,            \* what is put: sequences of chunks, which are numbers
  Lengths,          \* the content_length that puts are given
  ShortFiles,       \* whether a content_length may be more than there is
  Retries,          \* Connection.retries
  PageSize,         \* the entries a server lists in one answer
  None, Ok          \* None, and what a call that returns nothing returns

ASSUME ClientAssumption ==
  /\ Names \subseteq Nat /\ IsFiniteSet(Names) /\ Mine \subseteq Names
  /\ Dir \in [Names -> Names] /\ \A m, n \in Names : m <= n => Dir[m] <= Dir[n]
  /\ Texts \subseteq Seq(Nat) /\ Lengths \subseteq Nat /\ Retries \in Nat /\ PageSize \in Nat \ {0}
  /\ ShortFiles \in BOOLEAN

VARIABLES
  store,            \* external: the objects
  call,             \* the call of Connection under way, or None
  met, steady, ever, \* ghosts: what the call met (see ObjectStore)
  result,
  pc,               \* where _retry is: "try", "auth", "upload", "answer", "sleep"; "idle" outside
  attempts, retried_auth,
  creds,            \* whether authurl, user and key were given
  token,            \* None, or whether the server takes it: "good" or "expired"
  http_conn,        \* None, or the connection that the calls share
  pos,              \* of the file that is put
  listing,          \* what get_container has put together
  faulty            \* ghost: something went wrong outside since the call began

callVars == <<call, met, steady, ever, result, faulty>>
retryVars == <<pc, attempts, retried_auth>>
vars == <<store, callVars, retryVars, creds, token, http_conn, pos, listing>>
-----------------------------------------------------------------------------
(***************************************************************************)
(* The calls.  Those that read or write an account, a container or         *)
(* metadata go the way of "get" and of a "put" of a text.  A text is sent  *)
(* again as often as needed, a file is wound back to where it was, a       *)
(* stream cannot be.                                                       *)
(***************************************************************************)
Puts == [op : {"put"}, name : Mine, text : Texts, kind : {"text", "file", "stream"}, from : {0, 1},
         length : Lengths \cup {None}]
Gets == [op : {"get"}, name : Mine, chunks : BOOLEAN]
Deletes == [op : {"delete"}, name : Mine]
Listings == [op : {"list"}, delimiter : BOOLEAN]
Calls ==
  {c \in Puts : /\ c.kind = "text" => c.length = None /\ c.from = 0
                /\ c.length # None => ShortFiles \/ c.length <= Len(c.text) - c.from}
    \cup Gets \cup Deletes \cup Listings
ASSUME NoneAssumption == None \notin Calls
FromFile(c) == c.op = "put" /\ c.kind # "text"
Until(c) == IF c.length = None THEN Len(c.text) ELSE c.from + c.length
Wanted(c) == SubSeq(c.text, c.from + 1, Until(c))
EntryOf(c, n) == IF c.op = "list" /\ c.delimiter THEN Dir[n] ELSE n

OS == INSTANCE ObjectStore

\* External: one page of entries, the first behind the last that the client has.
Behind(e, l) == l = <<>> \/ e > Last(l)
Rest(c) == {e \in OS!Entries(c, store) : Behind(e, listing)}
Pages(c) ==
  {p \in UNION {[1..k -> Names] : k \in 0..PageSize} :
     /\ OS!Ordered(p) /\ ToSet(p) \subseteq Rest(c)
     /\ \A e \in Rest(c) \ ToSet(p) : Len(p) = PageSize /\ Behind(e, p)}

Opened == [request |-> None, ended |-> FALSE, answer |-> None, unread |-> FALSE, broken |-> FALSE]
(***************************************************************************)
(* func asks: a body at hand is sent at once, one in a file by chunks.  On *)
(* a connection that is broken nothing arrives.                            *)
(***************************************************************************)
Asks(conn) ==
  LET r == [call |-> call, sent |-> IF call.op = "put" /\ ~FromFile(call) THEN call.text ELSE <<>>]
  IN  /\ http_conn' = [conn EXCEPT !.request = IF conn.broken THEN None ELSE r,
                                   !.answer = None, !.ended = ~FromFile(call)]
      /\ pc' = IF FromFile(call) THEN "upload" ELSE "answer"
-----------------------------------------------------------------------------
ClientInit ==
  /\ store = [n \in Names |-> None]
  /\ call = None /\ met = {} /\ steady = {} /\ ever = {} /\ result = None /\ faulty = FALSE
  /\ pc = "idle" /\ attempts = 0 /\ retried_auth = FALSE
  /\ creds \in BOOLEAN /\ token \in {None, "good", "expired"}
  /\ http_conn = None /\ pos = 0 /\ listing = <<>>

Begin(c) ==
  /\ pc = "idle"
  /\ call' = c /\ met' = {} /\ result' = None /\ faulty' = FALSE
  /\ steady' = OS!Entries(c, store) /\ ever' = OS!Entries(c, store)
  /\ pc' = "try" /\ attempts' = 0 /\ retried_auth' = FALSE
  /\ pos' = IF c.op = "put" THEN c.from ELSE 0
  /\ UNCHANGED <<store, creds, token, http_conn, listing>>

Ends(r) ==
  /\ call' = None /\ met' = {} /\ steady' = {} /\ ever' = {} /\ result' = r /\ faulty' = FALSE
  /\ pc' = "idle" /\ attempts' = 0 /\ retried_auth' = FALSE /\ pos' = 0 /\ listing' = <<>>

\* One turn of the loop: authenticate if there is no token, connect if there
\* is no connection, and let func ask.  get_auth without an address raises.
Turn(count) ==
  /\ pc = "try" /\ attempts <= Retries
  /\ \/ token = None /\ creds /\ pc' = "auth" /\ attempts' = count /\ listing' = <<>>
        /\ UNCHANGED <<callVars, retried_auth, http_conn, pos>>
     \/ token = None /\ ~creds /\ Ends(None) /\ UNCHANGED http_conn
     \/ token # None /\ Asks(IF http_conn = None THEN Opened ELSE http_conn)
        /\ attempts' = count /\ listing' = <<>>
        /\ UNCHANGED <<callVars, retried_auth, pos>>
  /\ UNCHANGED <<store, creds, token>>

\* Mutant: the attempts are not counted.
Try_Uncounted == Turn(attempts)

Try == Turn(attempts + 1)

Authenticated ==
  /\ pc = "auth"
  /\ token' = "good" /\ Asks(Opened)
  /\ UNCHANGED <<store, callVars, attempts, retried_auth, creds, pos, listing>>

\* The two except clauses, up to the sleep; some give the connection up.
Handles(e, givesUp) ==
  LET last == attempts > Retries
      raises == last \/ e = "other" \/ (e = "401" /\ (retried_auth \/ ~creds))
  IN  /\ IF raises THEN Ends(None)
         ELSE /\ pc' = "sleep" /\ retried_auth' = (retried_auth \/ e = "401")
              /\ faulty' = (faulty \/ pc = "auth")
              /\ UNCHANGED <<call, met, steady, ever, result, attempts, pos, listing>>
      /\ token' = IF e = "401" /\ ~last THEN None ELSE token
      /\ http_conn' = IF http_conn = None \/ (givesUp /\ ~last) THEN None
                      ELSE [http_conn EXCEPT !.request = None, !.ended = FALSE, !.answer = None,
                                             !.broken = @ \/ e = "network"]
      /\ UNCHANGED <<store, creds>>

\* Mutant: a connection that broke is used again.
Except_KeepsConnection(e) == Handles(e, e = "408")

Except(e) == Handles(e, e \in {"network", "408"})

\* Mutant: the file is not wound back, the next try goes on where this one broke off.
Sleep_NoReset ==
  /\ pc = "sleep" /\ pc' = "try"
  /\ UNCHANGED <<store, callVars, attempts, retried_auth, creds, token, http_conn, pos, listing>>

\* The sleep and reset_func.
Sleep ==
  /\ pc = "sleep"
  /\ IF call.op = "put" /\ call.kind = "stream" THEN Ends(None)
     ELSE pc' = "try" /\ pos' = (IF call.op = "put" THEN call.from ELSE 0)
          /\ UNCHANGED <<callVars, attempts, retried_auth, listing>>
  /\ UNCHANGED <<store, creds, token, http_conn>>

(***************************************************************************)
(* put_object sends the next chunk, or has sent all.  Sending nothing does *)
(* not fail on a broken connection: with a content_length that is more     *)
(* than there is, it reads and sends nothing for ever.                     *)
(***************************************************************************)
Longer(r, chunk) == IF r = None THEN None ELSE [r EXCEPT !.sent = Append(@, chunk)]
Sends == pos < Until(call) /\ pos < Len(call.text)
Upload ==
  /\ pc = "upload"
  /\ \/ Sends /\ ~http_conn.broken
        /\ pos' = pos + 1
        /\ http_conn' = [http_conn EXCEPT !.request = Longer(@, call.text[pos + 1])]
        /\ UNCHANGED pc
     \/ pos >= Until(call) /\ (call.length = None => ~http_conn.broken)
        /\ http_conn' = [http_conn EXCEPT !.ended = TRUE] /\ pc' = "answer"
        /\ UNCHANGED pos
  /\ UNCHANGED <<store, callVars, attempts, retried_auth, creds, token, listing>>

\* send fails, or getresponse; that also if the body of the last answer was not read.
Lost ==
  /\ \/ pc = "upload" /\ http_conn.broken /\ (Sends \/ call.length = None)
     \/ pc = "answer" /\ (http_conn.broken \/ http_conn.unread)
  /\ Except("network")

Answered ==
  /\ pc = "answer" /\ ~http_conn.unread /\ http_conn.answer # None
  /\ LET a == http_conn.answer
         done == [http_conn EXCEPT !.answer = None, !.ended = FALSE]
     IN  \/ a.status # "ok" /\ Except(a.status)
         \/ a.status = "ok" /\ call.op # "list"
            /\ Ends(a.value)
            /\ http_conn' = [done EXCEPT !.unread = call.op = "get" /\ call.chunks]
            /\ UNCHANGED <<store, creds, token>>
         \/ a.status = "ok" /\ call.op = "list" /\ a.value = <<>>
            /\ Ends(listing) /\ http_conn' = done
            /\ UNCHANGED <<store, creds, token>>
         \/ a.status = "ok" /\ call.op = "list" /\ a.value # <<>>
            /\ listing' = listing \o a.value /\ Asks(http_conn)
            /\ UNCHANGED <<store, callVars, attempts, retried_auth, creds, token, pos>>

\* The user reads the rest of an object that was got in chunks.
ReadBody ==
  /\ pc = "idle" /\ http_conn # None /\ http_conn.unread
  /\ http_conn' = [http_conn EXCEPT !.unread = FALSE]
  /\ UNCHANGED <<store, callVars, retryVars, creds, token, pos, listing>>
-----------------------------------------------------------------------------
(***************************************************************************)
(* External: the server, the network, other clients.                       *)
(***************************************************************************)
Changes(s) ==
  /\ store' = s
  /\ IF call = None THEN UNCHANGED <<steady, ever>>
     ELSE steady' = steady \cap OS!Entries(call, s) /\ ever' = ever \cup OS!Entries(call, s)

\* What a request does to the store.
Done(r) == CASE r.call.op = "put" -> [store EXCEPT ![r.call.name] = r.sent]
             [] r.call.op = "delete" -> [store EXCEPT ![r.call.name] = None]
             [] OTHER -> store
Acts(r) == Changes(Done(r)) /\ met' = met \cup (IF r.call.op = "list" THEN {} ELSE {OS!Answer(r.call, store)})
Replies(status, value) ==
  http_conn' = [http_conn EXCEPT !.request = None, !.answer = IF http_conn.broken THEN None ELSE [status |-> status, value |-> value]]

\* The server takes a request that came whole, unless the token has expired.
Serves ==
  /\ call # None /\ http_conn # None /\ http_conn.request # None /\ http_conn.ended
  /\ LET r == http_conn.request IN
     \/ token = "expired" /\ Replies("401", None) /\ UNCHANGED <<store, met, steady, ever>>
     \/ token = "good" /\ OS!Possible(call, store) /\ Acts(r)
        /\ \E answer \in IF call.op = "list" THEN Pages(call) ELSE {OS!Answer(call, store)} :
             Replies("ok", answer)
     \/ token = "good" /\ ~OS!Possible(call, store) /\ Replies("other", None)
        /\ UNCHANGED <<store, met, steady, ever>>
  /\ UNCHANGED <<call, result, faulty, retryVars, creds, token, pos, listing>>

\* It answers 408, or 5xx when it may have done what it was asked for; or 401
\* before it has the whole.
Refuses ==
  /\ call # None /\ http_conn # None /\ http_conn.request # None
  /\ \/ \E status \in {"408", "5xx"} : Replies(status, None)
        /\ faulty' = TRUE /\ UNCHANGED <<store, met, steady, ever>>
     \/ token = "good" /\ http_conn.ended /\ OS!Possible(call, store)
        /\ Acts(http_conn.request) /\ Replies("5xx", None) /\ faulty' = TRUE
     \/ token = "expired" /\ ~http_conn.ended /\ Replies("401", None)
        /\ UNCHANGED <<store, met, steady, ever, faulty>>
  /\ UNCHANGED <<call, result, retryVars, creds, token, pos, listing>>

Fault == faulty' = (call # None) /\ UNCHANGED <<store, call, met, steady, ever, result>>
\* get_auth does not get a token.
AuthFails ==
  /\ pc = "auth"
  /\ \E e \in {"network", "401", "408", "5xx", "other"} : Except(e)
Breaks ==
  /\ http_conn # None /\ ~http_conn.broken
  /\ http_conn' = [http_conn EXCEPT !.broken = TRUE, !.answer = None]
  /\ Fault /\ UNCHANGED <<retryVars, creds, token, pos, listing>>
Expires ==
  /\ token = "good" /\ token' = "expired"
  /\ Fault /\ UNCHANGED <<retryVars, creds, http_conn, pos, listing>>
Others ==
  /\ \E n \in Names, v \in Texts \cup {None} : Changes([store EXCEPT ![n] = v])
  /\ UNCHANGED <<call, met, result, faulty, retryVars, creds, token, http_conn, pos, listing>>
-----------------------------------------------------------------------------
Client == Try \/ Authenticated \/ Sleep \/ Upload \/ Lost \/ Answered
Server == Serves \/ Refuses
ClientNext ==
  \/ \E c \in Calls : Begin(c)
  \/ Client \/ ReadBody
  \/ Server \/ AuthFails \/ Breaks \/ Expires \/ Others
ClientSpec == ClientInit /\ [][ClientNext]_vars
\* The client runs and get_auth ends; what was asked is answered or the connection breaks.
Resolved == Server \/ (call # None /\ http_conn # None /\ http_conn.request # None /\ Breaks)
ClientFairSpec == ClientSpec /\ WF_vars(Client \/ AuthFails) /\ WF_vars(Resolved)
-----------------------------------------------------------------------------
\* client.py:1086-1134, 875-900: whatever breaks, expires or is refused on the
\* way, a call that returns has done what it was asked for, wholly and while it
\* ran, and a full listing misses and repeats nothing.
KeepsPromise == OS!StoreSpec
\* client.py:1086: each call returns or raises.
CallEnds == call # None ~> call = None
\* client.py:1105-1130: a call during which nothing goes wrong returns, in
\* whatever state the calls before it left the connection and the token.
HealthyCallReturns ==
  [][call # None /\ call' = None /\ result' = None =>
       \/ faulty \/ ~creds \/ pc = "auth"
       \/ call.op = "put" /\ call.kind = "stream"
       \/ call.op = "delete" \/ (call.op = "get" /\ call.name \notin steady)]_vars
\* client.py:975: a delete that raises has not deleted the object.
RaisedMeansNotDone ==
  [][call # None /\ call' = None /\ result' = None /\ call.op = "delete" => Ok \notin met]_vars
=============================================================================
