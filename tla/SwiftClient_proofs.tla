------------------------- MODULE SwiftClient_proofs --------------------------
(***************************************************************************)
(* Theorems about SwiftClient, for any objects, texts, retries and pages:  *)
(* it keeps the promise of ObjectStore.                                    *)
(***************************************************************************)
EXTENDS SwiftClient, SequenceTheorems, FiniteSetTheorems, TLAPS

-----------------------------------------------------------------------------
(* The inductive invariant.                                                *)

(* What the variables hold.                                                *)
Requests    == [call : Calls, sent : Seq(Nat)]
Answers     == [status : {"ok", "401", "408", "5xx", "other"},
                value : Seq(Nat) \cup {None, Ok}]
Connections == [request : Requests \cup {None}, ended : BOOLEAN,
                answer : Answers \cup {None}, unread : BOOLEAN, broken : BOOLEAN]

(* A request is on the connection, or its answer is.                       *)
Asking == pc \in {"upload", "answer"}

TypeOK ==
  /\ store \in [Names -> Seq(Nat) \cup {None}]
  /\ pc \in {"idle", "try", "auth", "upload", "answer", "sleep"}
  /\ call \in Calls \cup {None}
  /\ pos \in Nat
  /\ listing \in Seq(Nat)
  /\ Asking \/ http_conn # None => http_conn \in Connections

(* What is on the connection is of the call under way, and of its present  *)
(* try: a request until it is answered, then the answer.                   *)
OfThisCall ==
  /\ call = None <=> pc = "idle"
  /\ Asking \/ http_conn # None =>
       /\ http_conn.request # None => Asking /\ http_conn.request.call = call
       /\ http_conn.answer # None => Asking /\ http_conn.request = None
  /\ pc = "upload" => FromFile(call) /\ ~http_conn.ended
  /\ pc = "answer" => http_conn.ended

(* What was sent of a text or a file is what was read of it.               *)
SentOK ==
  /\ pc \in {"try", "auth"} /\ call.op = "put" => pos = call.from
  /\ pc = "upload" =>
       /\ call.from <= pos
       /\ pos = call.from \/ (pos <= Until(call) /\ pos <= Len(call.text))
       /\ http_conn.request # None =>
            http_conn.request.sent = SubSeq(call.text, call.from + 1, pos)
  /\ pc = "answer" /\ call.op = "put" /\ http_conn.request # None =>
       http_conn.request.sent = Wanted(call)

(* The entries that were there all the time are there now, and those are   *)
(* among the ones that ever were.                                          *)
SteadyOK ==
  call # None =>
    /\ steady \subseteq OS!Entries(call, store)
    /\ OS!Entries(call, store) \subseteq ever

(* A listing as far as it goes.                                            *)
ListedTo(l) ==
  /\ OS!Ordered(l)
  /\ ToSet(l) \subseteq ever
  /\ \A e \in steady : e \in ToSet(l) \/ Behind(e, l)

(* A page is the next part of the listing; an empty one is its end.        *)
NextPart(p) ==
  /\ p \in Seq(Nat)
  /\ p = <<>> => steady \subseteq ToSet(listing)
  /\ p # <<>> => ListedTo(listing \o p)

ListingOK ==
  /\ pc = "idle" => listing = <<>>
  /\ call # None /\ call.op = "list" => ListedTo(listing)

(* A good answer was right when the call acted.                            *)
AnswerOK ==
  Asking /\ http_conn.answer # None /\ http_conn.answer.status = "ok" =>
    IF call.op = "list" THEN NextPart(http_conn.answer.value)
    ELSE http_conn.answer.value \in met

IInv == TypeOK /\ OfThisCall /\ SentOK /\ SteadyOK /\ ListingOK /\ AnswerOK

-----------------------------------------------------------------------------
(* Calls and texts.                                                        *)

(* What is known of a call from its kind.                                  *)
LEMMA CallKinds ==
  ASSUME NEW c \in Calls
  PROVE  /\ c.op \in {"put", "get", "delete", "list"}
         /\ c.op = "put" =>
              /\ c.text \in Seq(Nat) /\ Len(c.text) \in Nat
              /\ c.from \in Nat /\ Until(c) \in Nat
              /\ ~FromFile(c) => Wanted(c) = c.text
<1>1. c \in Puts \cup Gets \cup Deletes \cup Listings
  BY DEF Calls
<1>2. c.op \in {"put", "get", "delete", "list"} /\ (c.op = "put" => c \in Puts)
  BY <1>1 DEF Puts, Gets, Deletes, Listings
<1>3. ASSUME c \in Puts
      PROVE  /\ c.text \in Seq(Nat) /\ Len(c.text) \in Nat
             /\ c.from \in Nat /\ Until(c) \in Nat
             /\ ~FromFile(c) => Wanted(c) = c.text
  <2>1. /\ c.text \in Seq(Nat) /\ c.from \in {0, 1} /\ c.length \in Lengths \cup {None}
        /\ c.op = "put"
    BY <1>3, ClientAssumption DEF Puts
  <2>2. Len(c.text) \in Nat
    BY <2>1, LenProperties
  <2>3. Until(c) \in Nat
    <3>1. CASE c.length = None
      BY <2>2, <3>1 DEF Until
    <3>2. CASE c.length # None
      <4>1. c.length \in Lengths
        BY <2>1, <3>2
      <4>2. Until(c) = c.from + c.length
        BY <3>2 DEF Until
      <4>3. PICK f \in Nat, l \in Nat : c.from = f /\ c.length = l
        BY <2>1, <4>1, ClientAssumption
      <4> QED BY <4>2, <4>3
    <3> QED BY <3>1, <3>2
  <2>4. ASSUME ~FromFile(c) PROVE Wanted(c) = c.text
    <3>1. c.kind = "text"
      BY <2>1, <2>4 DEF FromFile
    <3>2. c.length = None /\ c.from = 0
      BY <2>1, <3>1 DEF Calls, Gets, Deletes, Listings
    <3> QED BY <2>1, <3>2, SubSeqFull DEF Wanted, Until
  <2> QED BY <2>1, <2>2, <2>3, <2>4
<1> QED BY <1>2, <1>3

(* Entries are numbers.                                                    *)
LEMMA EntriesAreNumbers ==
  ASSUME NEW c \in Calls, NEW s
  PROVE  OS!Entries(c, s) \subseteq Nat
  BY ClientAssumption DEF OS!Entries, EntryOf

(* One more chunk of a text.                                               *)
LEMMA NextChunk ==
  ASSUME NEW t \in Seq(Nat), NEW a \in Nat, NEW k \in Nat, a <= k, k < Len(t)
  PROVE  /\ SubSeq(t, a + 1, k) \in Seq(Nat)
         /\ Append(SubSeq(t, a + 1, k), t[k + 1]) = SubSeq(t, a + 1, k + 1)
<1>1. Len(t) \in Nat /\ t \in [1 .. Len(t) -> Nat]
  BY LenProperties
<1>2. k + 1 \in a + 1 .. Len(t) /\ a + 1 \in 1 .. Len(t) /\ t[k + 1] \in Nat
  BY <1>1
<1>3. SubSeq(t, a + 1, k) \in Seq(Nat)
  <2>1. \A i \in a + 1 .. k : t[i] \in Nat
    BY <1>1
  <2> QED BY <2>1, SubSeqProperties
<1>4. SubSeq(t, a + 1, k + 1) = SubSeq(t, a + 1, k + 1 - 1) \o <<t[k + 1]>>
  BY <1>2, SubSeqRecursiveSecond
<1>5. Append(SubSeq(t, a + 1, k), t[k + 1]) = SubSeq(t, a + 1, k) \o <<t[k + 1]>>
  BY <1>2, <1>3, AppendIsConcat
<1>6. k + 1 - 1 = k
  OBVIOUS
<1> QED BY <1>3, <1>4, <1>5, <1>6

(* What was read from the file when all was sent is what was wanted.       *)
LEMMA AllSent ==
  ASSUME NEW c \in Calls, c.op = "put", NEW k \in Nat, c.from <= k, k >= Until(c),
         k = c.from \/ k <= Until(c)
  PROVE  SubSeq(c.text, c.from + 1, k) = Wanted(c)
<1>1. c.from \in Nat /\ Until(c) \in Nat
  BY CallKinds
<1>2. CASE k = Until(c)
  BY <1>2 DEF Wanted
<1>3. CASE k # Until(c)
  <2>1. k < c.from + 1 /\ Until(c) < c.from + 1
    BY <1>1, <1>3
  <2> QED BY <1>1, <2>1, SubSeqEmpty DEF Wanted
<1> QED BY <1>2, <1>3

-----------------------------------------------------------------------------
(* Listings.                                                               *)

(* A listing holds what its parts hold, and ends as the second does.       *)
LEMMA ListOfParts ==
  ASSUME NEW l \in Seq(Nat), NEW p \in Seq(Nat), p # <<>>
  PROVE  /\ l \o p \in Seq(Nat)
         /\ ToSet(l \o p) = ToSet(l) \cup ToSet(p)
         /\ Last(l \o p) = Last(p)
         /\ l \o p # <<>>
<1> DEFINE m == Len(l)
           k == Len(p)
           w == l \o p
<1>1. m \in Nat /\ k \in Nat \ {0}
  BY LenProperties, EmptySeq
<1>2. /\ w \in Seq(Nat) /\ Len(w) = m + k
      /\ \A i \in 1 .. m + k : w[i] = IF i <= m THEN l[i] ELSE p[i - m]
  BY ConcatProperties
<1>3. DOMAIN l = 1 .. m /\ DOMAIN p = 1 .. k /\ DOMAIN w = 1 .. m + k
  BY <1>2, LenProperties
<1> HIDE DEF m, k, w
<1>4. ASSUME NEW i \in 1 .. m + k PROVE w[i] \in ToSet(l) \cup ToSet(p)
  <2>1. CASE i <= m
    <3>1. i \in 1 .. m /\ w[i] = l[i]
      BY <1>1, <1>2, <2>1
    <3> QED BY <1>3, <3>1 DEF ToSet
  <2>2. CASE i > m
    <3>1. i - m \in 1 .. k /\ w[i] = p[i - m]
      BY <1>1, <1>2, <2>2
    <3> QED BY <1>3, <3>1 DEF ToSet
  <2> QED BY <1>1, <2>1, <2>2
<1>5. ASSUME NEW i \in 1 .. m PROVE l[i] \in ToSet(w)
  <2>1. i \in 1 .. m + k /\ w[i] = l[i]
    BY <1>1, <1>2
  <2> QED BY <1>3, <2>1 DEF ToSet
<1>6. ASSUME NEW i \in 1 .. k PROVE p[i] \in ToSet(w)
  <2>1. i + m \in 1 .. m + k /\ w[i + m] = p[i]
    BY <1>1, <1>2
  <2> QED BY <1>3, <2>1 DEF ToSet
<1>7. ToSet(w) = ToSet(l) \cup ToSet(p)
  BY <1>3, <1>4, <1>5, <1>6 DEF ToSet
<1>8. Last(w) = Last(p)
  <2>1. w[m + k] = p[k]
    <3>1. PICK j \in 1 .. m + k : j = m + k /\ ~(j <= m) /\ j - m = k
      BY <1>1
    <3>2. w[j] = p[j - m]
      BY <1>2, <3>1
    <3> QED BY <3>1, <3>2, Zenon
  <2>2. Last(w) = w[m + k] /\ Last(p) = p[k]
    BY <1>2 DEF Last, k
  <2> QED BY <2>1, <2>2
<1>9. w # <<>>
  BY <1>1, <1>2, EmptySeq
<1> QED BY <1>2, <1>7, <1>8, <1>9 DEF w

(* Two parts in order, the second behind the first, are in order.          *)
LEMMA OrderOfParts ==
  ASSUME NEW l \in Seq(Nat), NEW p \in Seq(Nat), OS!Ordered(l), OS!Ordered(p),
         \A e \in ToSet(p) : Behind(e, l)
  PROVE  OS!Ordered(l \o p)
<1> DEFINE m == Len(l)
           k == Len(p)
<1>1. /\ m \in Nat /\ k \in Nat /\ DOMAIN l = 1 .. m /\ DOMAIN p = 1 .. k
      /\ l \in [1 .. m -> Nat] /\ p \in [1 .. k -> Nat]
  BY LenProperties
<1>2. /\ Len(l \o p) = m + k /\ DOMAIN (l \o p) = 1 .. m + k
      /\ \A i \in 1 .. m + k : (l \o p)[i] = IF i <= m THEN l[i] ELSE p[i - m]
  BY ConcatProperties, LenProperties
<1> HIDE DEF m, k
<1> SUFFICES ASSUME NEW i \in 1 .. m + k, NEW j \in 1 .. m + k, i < j
             PROVE  (l \o p)[i] < (l \o p)[j]
  BY <1>2 DEF OS!Ordered
<1>3. CASE j <= m
  <2>1. i \in 1 .. m /\ j \in 1 .. m
    BY <1>1, <1>3
  <2>2. l[i] < l[j]
    BY <1>1, <2>1 DEF OS!Ordered
  <2> QED BY <1>1, <1>2, <2>1, <2>2
<1>4. CASE i > m
  <2>1. i - m \in 1 .. k /\ j - m \in 1 .. k /\ i - m < j - m
    BY <1>1, <1>4
  <2>2. p[i - m] < p[j - m]
    BY <1>1, <2>1 DEF OS!Ordered
  <2>3. ~(i <= m) /\ ~(j <= m)
    BY <1>1, <1>4
  <2> QED BY <1>2, <2>2, <2>3
<1>5. CASE i <= m /\ j > m
  <2>1. i \in 1 .. m /\ m \in 1 .. m /\ j - m \in 1 .. k /\ ~(j <= m)
    BY <1>1, <1>5
  <2>2. p[j - m] \in ToSet(p) /\ l # <<>>
    BY <1>1, <2>1, EmptySeq DEF ToSet, m
  <2>3. p[j - m] > l[m]
    BY <2>2 DEF Behind, Last, m
  <2>4. l[i] <= l[m]
    BY <1>1, <2>1 DEF OS!Ordered
  <2>5. l[i] \in Nat /\ l[m] \in Nat /\ p[j - m] \in Nat
    BY <1>1, <2>1
  <2>6. l[i] < p[j - m]
    BY <2>3, <2>4, <2>5
  <2> QED BY <1>2, <1>5, <2>1, <2>6
<1> QED BY <1>1, <1>3, <1>4, <1>5

(* Pages are what a listing goes on with.                                  *)
LEMMA PageIsNextPart ==
  ASSUME TypeOK, SteadyOK, call \in Calls, call # None, ListedTo(listing),
         NEW p \in Pages(call)
  PROVE  NextPart(p)
<1>1. PICK k \in 0 .. PageSize : p \in [1 .. k -> Names]
  BY DEF Pages
<1>2. p \in Seq(Nat)
  <2>1. k \in Nat
    BY ClientAssumption
  <2>2. Names \subseteq Nat
    BY ClientAssumption
  <2>3. p \in [1 .. k -> Nat]
    BY <1>1, <2>2
  <2> QED BY <2>1, <2>3
<1>3. listing \in Seq(Nat) /\ OS!Ordered(p) /\ ToSet(p) \subseteq Rest(call)
  BY DEF TypeOK, Pages
<1>4. \A e \in Rest(call) \ ToSet(p) : p # <<>> /\ Behind(e, p)
  <2>1. \A e \in Rest(call) \ ToSet(p) : Len(p) = PageSize /\ Behind(e, p)
    BY DEF Pages
  <2>2. Len(p) = PageSize => p # <<>>
    BY ClientAssumption, EmptySeq
  <2> QED BY <2>1, <2>2
<1>5. steady \subseteq OS!Entries(call, store) /\ OS!Entries(call, store) \subseteq ever
  BY DEF SteadyOK
<1>6. \A e \in steady : e \in ToSet(listing) \/ e \in Rest(call)
  BY <1>5 DEF ListedTo, Rest
<1>7. ASSUME p = <<>> PROVE steady \subseteq ToSet(listing)
  <2>1. ToSet(p) = {}
    BY <1>7 DEF ToSet
  <2> QED BY <1>4, <1>6, <1>7, <2>1
<1>8. ASSUME p # <<>> PROVE ListedTo(listing \o p)
  <2>1. /\ ToSet(listing \o p) = ToSet(listing) \cup ToSet(p)
        /\ Last(listing \o p) = Last(p)
    BY <1>2, <1>3, <1>8, ListOfParts
  <2>2. OS!Ordered(listing \o p)
    BY <1>2, <1>3, OrderOfParts DEF ListedTo, Rest
  <2>3. ToSet(listing \o p) \subseteq ever
    BY <1>3, <1>5, <2>1 DEF ListedTo, Rest
  <2>4. \A e \in steady : e \in ToSet(listing \o p) \/ Behind(e, listing \o p)
    BY <1>4, <1>6, <1>8, <2>1 DEF Behind
  <2> QED BY <2>2, <2>3, <2>4 DEF ListedTo
<1> QED BY <1>2, <1>7, <1>8 DEF NextPart

-----------------------------------------------------------------------------
(* What steps have in common.                                              *)

(* What the user of ObjectStore may see of a step.                         *)
StoreStep == [OS!StoreNext]_(OS!storeVars)

(* A connection with nothing under way.                                    *)
Quiet(k) ==
  k = None \/ (k \in Connections /\ k.request = None /\ k.answer = None)

(* Between requests nothing is under way.                                  *)
LEMMA QuietBetween == IInv /\ ~Asking => Quiet(http_conn)
  BY DEF IInv, TypeOK, OfThisCall, Quiet

(* A new connection is one.                                                *)
LEMMA OpenedIsConnection == Opened \in Connections
  BY DEF Opened, Connections

(* A listing that has not begun.                                           *)
LEMMA ListedToNothing == ListedTo(<<>>)
  BY DEF ListedTo, OS!Ordered, ToSet, Behind

(* A call is not None.                                                     *)
LEMMA CallIsCall == IInv /\ call # None => call \in Calls
  BY DEF IInv, TypeOK

(* A call ends, and the connection is left with nothing under way.         *)
LEMMA EndsOK ==
  ASSUME IInv, call # None, NEW r, Ends(r), UNCHANGED store, Quiet(http_conn')
  PROVE  IInv' /\ OS!End /\ result' = r
<1>1. /\ call' = None /\ pc' = "idle" /\ pos' = 0 /\ listing' = <<>> /\ store' = store
      /\ met' = {} /\ steady' = {} /\ ever' = {} /\ result' = r
  BY DEF Ends
<1>2. TypeOK'
  BY <1>1, EmptySeq DEF IInv, TypeOK, Quiet, Asking
<1>3. OfThisCall'
  BY <1>1 DEF OfThisCall, Quiet, Asking
<1>4. SentOK' /\ SteadyOK' /\ ListingOK' /\ AnswerOK'
  BY <1>1 DEF SentOK, SteadyOK, ListingOK, AnswerOK, Asking
<1> QED BY <1>1, <1>2, <1>3, <1>4 DEF IInv, OS!End

(* What an exception that ends the call, or a raise before it, is to a     *)
(* user.                                                                   *)
LEMMA EndsNoneIsRaise ==
  ASSUME IInv, call # None, Ends(None), UNCHANGED store, Quiet(http_conn')
  PROVE  IInv' /\ StoreStep
<1>1. IInv' /\ OS!End /\ result' = None
  BY EndsOK
<1> QED BY <1>1 DEF StoreStep, OS!StoreNext, OS!Raise

(* func asks: the request is of this call, and begins where the call does. *)
LEMMA AsksOK ==
  ASSUME call \in Calls, pos \in Nat, call.op = "put" => pos = call.from,
         NEW conn \in Connections, Asks(conn), UNCHANGED <<call, pos>>
  PROVE  /\ http_conn' \in Connections /\ http_conn'.answer = None
         /\ pc' \in {"upload", "answer"} /\ OfThisCall' /\ SentOK'
<1> DEFINE sent == IF call.op = "put" /\ ~FromFile(call) THEN call.text ELSE <<>>
<1>1. PICK r : r = [call |-> call, sent |-> sent]
  OBVIOUS
<1>2. /\ http_conn' = [conn EXCEPT !.request = IF conn.broken THEN None ELSE r,
                                   !.answer = None, !.ended = ~FromFile(call)]
      /\ pc' = IF FromFile(call) THEN "upload" ELSE "answer"
  BY <1>1 DEF Asks
<1>3. r \in Requests /\ r.call = call /\ r.sent = sent
  <2>1. sent \in Seq(Nat)
    BY CallKinds, EmptySeq
  <2> HIDE DEF sent
  <2> QED BY <1>1, <2>1 DEF Requests
<1> HIDE DEF sent
<1>4. /\ http_conn' \in Connections /\ http_conn'.answer = None
      /\ http_conn'.ended = ~FromFile(call)
      /\ http_conn'.request = IF conn.broken THEN None ELSE r
  <2>1. FromFile(call) \in BOOLEAN
    BY DEF FromFile
  <2> QED BY <1>2, <1>3, <2>1 DEF Connections
<1>5. pc' \in {"upload", "answer"} /\ call' = call /\ pos' = pos
  BY <1>2
<1>6. OfThisCall'
  <2>1. call # None
    BY NoneAssumption
  <2> QED BY <1>2, <1>3, <1>4, <1>5, <2>1 DEF OfThisCall, Asking, FromFile
<1>7. SentOK'
  <2>1. CASE FromFile(call)
    <3>1. call.op = "put" /\ sent = <<>>
      BY <2>1 DEF FromFile, sent
    <3>2. SubSeq(call.text, call.from + 1, call.from) = <<>>
      BY <3>1, CallKinds, SubSeqEmpty
    <3>3. call.from \in Nat /\ pos' = call.from /\ pc' = "upload"
      BY <1>2, <1>5, <2>1, <3>1, CallKinds
    <3>4. http_conn'.request # None =>
            http_conn'.request.sent = SubSeq(call'.text, call'.from + 1, pos')
      BY <1>3, <1>4, <1>5, <3>1, <3>2, <3>3
    <3> QED BY <1>5, <3>3, <3>4 DEF SentOK
  <2>2. CASE ~FromFile(call)
    <3>1. call.op = "put" => sent = Wanted(call)
      BY <2>2, CallKinds DEF sent
    <3> QED BY <1>2, <1>3, <1>4, <1>5, <2>2, <3>1 DEF SentOK
  <2> QED BY <2>1, <2>2
<1> QED BY <1>4, <1>5, <1>6, <1>7

(* A turn that asks begins the listing anew, or goes on with it.           *)
LEMMA AskingOK ==
  ASSUME IInv, call # None, call.op = "put" => pos = call.from,
         NEW conn \in Connections, Asks(conn),
         UNCHANGED <<store, callVars, pos>>,
         listing' \in Seq(Nat), call.op = "list" => ListedTo(listing')
  PROVE  IInv' /\ StoreStep
<1>1. call \in Calls /\ UNCHANGED <<store, call, met, steady, ever, result, pos>>
  BY CallIsCall DEF callVars
<1>2. /\ http_conn' \in Connections /\ http_conn'.answer = None
      /\ pc' \in {"upload", "answer"} /\ OfThisCall' /\ SentOK'
  BY <1>1, AsksOK DEF IInv, TypeOK
<1>3. TypeOK'
  BY <1>1, <1>2 DEF IInv, TypeOK
<1>4. SteadyOK'
  BY <1>1 DEF IInv, SteadyOK
<1>5. ListingOK'
  BY <1>1, <1>2 DEF ListingOK, ListedTo
<1>6. AnswerOK'
  BY <1>2 DEF AnswerOK
<1>7. StoreStep
  BY <1>1 DEF StoreStep, OS!storeVars
<1> QED BY <1>2, <1>3, <1>4, <1>5, <1>6, <1>7 DEF IInv

(* The except clauses leave nothing under way on the connection.           *)
LEMMA ExceptOK ==
  ASSUME IInv, pc \in {"auth", "upload", "answer"}, NEW e, Except(e)
  PROVE  IInv' /\ StoreStep
<1>1. call # None /\ call \in Calls
  BY CallIsCall DEF IInv, OfThisCall
<1>2. Quiet(http_conn')
  <2>1. CASE http_conn' = None
    BY <2>1 DEF Quiet
  <2>2. CASE http_conn' # None
    <3>1. /\ http_conn # None
          /\ http_conn' = [http_conn EXCEPT !.request = None, !.ended = FALSE, !.answer = None,
                                            !.broken = @ \/ e = "network"]
      BY <2>2 DEF Except, Handles
    <3>2. http_conn \in Connections
      BY <3>1 DEF IInv, TypeOK
    <3>3. PICK b \in BOOLEAN : b = (http_conn.broken \/ e = "network")
      BY <3>2 DEF Connections
    <3>4. http_conn' = [http_conn EXCEPT !.request = None, !.ended = FALSE, !.answer = None,
                                         !.broken = b]
      BY <3>1, <3>3
    <3> QED BY <3>2, <3>4 DEF Connections, Quiet
  <2> QED BY <2>1, <2>2
<1>3. UNCHANGED store
  BY DEF Except, Handles
<1>4. CASE Ends(None)
  BY <1>1, <1>2, <1>3, <1>4, EndsNoneIsRaise
<1>5. CASE pc' = "sleep" /\ UNCHANGED <<call, met, steady, ever, result, pos, listing>>
  <2>1. TypeOK'
    BY <1>2, <1>3, <1>5 DEF IInv, TypeOK, Quiet, Asking
  <2>2. OfThisCall'
    BY <1>1, <1>2, <1>5 DEF OfThisCall, Quiet, Asking
  <2>3. SentOK' /\ AnswerOK'
    BY <1>5 DEF SentOK, AnswerOK, Asking
  <2>4. SteadyOK' /\ ListingOK'
    BY <1>1, <1>3, <1>5 DEF IInv, SteadyOK, ListingOK, ListedTo
  <2>5. StoreStep
    BY <1>3, <1>5 DEF StoreStep, OS!storeVars
  <2> QED BY <2>1, <2>2, <2>3, <2>4, <2>5 DEF IInv
<1> QED BY <1>4, <1>5 DEF Except, Handles

(* A change of the store, seen by the call under way.                      *)
LEMMA ChangesOK ==
  ASSUME SteadyOK, NEW s, Changes(s), UNCHANGED call
  PROVE  /\ OS!Changes(s) /\ store' = s /\ SteadyOK'
         /\ steady' \subseteq steady /\ ever \subseteq ever'
<1>1. store' = s /\ OS!Changes(s)
  BY DEF Changes, OS!Changes
<1>2. CASE call = None
  BY <1>1, <1>2 DEF Changes, SteadyOK
<1>3. CASE call # None
  <2>1. /\ steady' = steady \cap OS!Entries(call, s)
        /\ ever' = ever \cup OS!Entries(call, s)
    BY <1>3 DEF Changes
  <2>2. OS!Entries(call, store)' = OS!Entries(call, s)
    BY <1>1 DEF OS!Entries, EntryOf
  <2> QED BY <1>1, <2>1, <2>2 DEF SteadyOK
<1> QED BY <1>2, <1>3

(* Listings stay good while the store changes.                             *)
LEMMA ListedStays ==
  ASSUME NEW l, ListedTo(l), steady' \subseteq steady, ever \subseteq ever'
  PROVE  ListedTo(l)'
  BY DEF ListedTo

(* And so do the pages that go on with them.                               *)
LEMMA NextPartStays ==
  ASSUME NEW p, NextPart(p), steady' \subseteq steady, ever \subseteq ever',
         UNCHANGED listing
  PROVE  NextPart(p)'
<1>1. ASSUME p # <<>> PROVE ListedTo(listing \o p)'
  <2>1. PICK l : l = listing \o p
    OBVIOUS
  <2>2. ListedTo(l)'
    BY <1>1, <2>1, ListedStays DEF NextPart
  <2>3. (listing \o p)' = l
    BY <2>1
  <2> QED BY <2>2, <2>3 DEF ListedTo
<1> QED BY <1>1 DEF NextPart
-----------------------------------------------------------------------------
(* The client.                                                             *)

(* A call begins with what is in the store, and with what an earlier call  *)
(* left of the connection.                                                 *)
LEMMA BeginOK ==
  ASSUME IInv, NEW c \in Calls, Begin(c)
  PROVE  IInv' /\ StoreStep
<1>1. /\ pc = "idle" /\ call = None /\ listing = <<>> /\ Quiet(http_conn)
      /\ call' = c /\ c # None /\ met' = {} /\ result' = None /\ pc' = "try"
      /\ steady' = OS!Entries(c, store) /\ ever' = OS!Entries(c, store)
      /\ pos' = (IF c.op = "put" THEN c.from ELSE 0)
      /\ UNCHANGED <<store, http_conn, listing>>
  BY QuietBetween, NoneAssumption DEF Begin, IInv, OfThisCall, ListingOK, Asking
<1>2. TypeOK'
  <2>1. pos' \in Nat
    BY <1>1, CallKinds
  <2> QED BY <1>1, <2>1 DEF IInv, TypeOK, Quiet, Asking
<1>3. OfThisCall' /\ SentOK' /\ AnswerOK'
  BY <1>1 DEF OfThisCall, SentOK, AnswerOK, Quiet, Asking
<1>4. SteadyOK'
  BY <1>1 DEF SteadyOK, OS!Entries, EntryOf
<1>5. ListingOK'
  BY <1>1 DEF ListingOK, ListedTo, OS!Ordered, ToSet, Behind
<1>6. StoreStep
  BY <1>1 DEF StoreStep, OS!StoreNext, OS!Begin
<1> QED BY <1>2, <1>3, <1>4, <1>5, <1>6 DEF IInv

(* Only control and the connection change, and nothing is under way.       *)
LEMMA BetweenOK ==
  ASSUME IInv, call # None, UNCHANGED <<store, callVars>>, Quiet(http_conn'),
         pc' \in {"try", "auth"}, call.op = "put" => pos' = call.from, pos' \in Nat,
         listing' \in Seq(Nat), call.op = "list" => ListedTo(listing')
  PROVE  IInv' /\ StoreStep
<1>1. UNCHANGED <<store, call, met, steady, ever, result>>
  BY DEF callVars
<1>2. TypeOK'
  BY <1>1 DEF IInv, TypeOK, Quiet, Asking
<1>3. OfThisCall' /\ SentOK' /\ AnswerOK'
  BY <1>1 DEF OfThisCall, SentOK, AnswerOK, Quiet, Asking
<1>4. SteadyOK' /\ ListingOK'
  BY <1>1 DEF IInv, SteadyOK, ListingOK, ListedTo
<1>5. StoreStep
  BY <1>1 DEF StoreStep, OS!storeVars
<1> QED BY <1>2, <1>3, <1>4, <1>5 DEF IInv

(* A turn of the loop.                                                     *)
LEMMA TryOK ==
  ASSUME IInv, Try
  PROVE  IInv' /\ StoreStep
<1>1. /\ pc = "try" /\ call # None /\ call \in Calls /\ Quiet(http_conn) /\ store' = store
      /\ call.op = "put" => pos = call.from
  BY QuietBetween, CallIsCall DEF Try, Turn, IInv, OfThisCall, SentOK, Asking
<1>2. ListedTo(<<>>) /\ <<>> \in Seq(Nat)
  BY ListedToNothing, EmptySeq
<1>3. CASE pc' = "auth" /\ listing' = <<>> /\ UNCHANGED <<callVars, http_conn, pos>>
  BY <1>1, <1>2, <1>3, BetweenOK DEF IInv, TypeOK
<1>4. CASE Ends(None) /\ UNCHANGED http_conn
  BY <1>1, <1>4, EndsNoneIsRaise
<1>5. CASE /\ Asks(IF http_conn = None THEN Opened ELSE http_conn)
           /\ listing' = <<>> /\ UNCHANGED <<callVars, pos>>
  <2>1. PICK conn \in Connections :
          conn = IF http_conn = None THEN Opened ELSE http_conn
    BY <1>1, OpenedIsConnection DEF Quiet
  <2>2. Asks(conn)
    BY <1>5, <2>1
  <2> QED BY <1>1, <1>2, <1>5, <2>2, AskingOK
<1> QED BY <1>3, <1>4, <1>5 DEF Try, Turn

(* A token has been got, and the request goes out on a new connection.     *)
LEMMA AuthenticatedOK ==
  ASSUME IInv, Authenticated
  PROVE  IInv' /\ StoreStep
<1>1. /\ call # None /\ (call.op = "put" => pos = call.from)
      /\ Asks(Opened) /\ UNCHANGED <<store, callVars, pos>> /\ listing' = listing
  BY DEF Authenticated, IInv, OfThisCall, SentOK
<1>2. listing' \in Seq(Nat) /\ (call.op = "list" => ListedTo(listing'))
  BY <1>1 DEF IInv, TypeOK, ListingOK
<1> QED BY <1>1, <1>2, OpenedIsConnection, AskingOK

(* The contents are wound back, unless they cannot be.                     *)
LEMMA SleepOK ==
  ASSUME IInv, Sleep
  PROVE  IInv' /\ StoreStep
<1>1. /\ call # None /\ call \in Calls /\ Quiet(http_conn) /\ UNCHANGED <<store, http_conn>>
  BY QuietBetween, CallIsCall DEF Sleep, IInv, OfThisCall, Asking
<1>2. CASE Ends(None)
  BY <1>1, <1>2, EndsNoneIsRaise
<1>3. CASE /\ pc' = "try" /\ pos' = (IF call.op = "put" THEN call.from ELSE 0)
           /\ UNCHANGED <<callVars, listing>>
  <2>1. pos' \in Nat /\ (call.op = "put" => pos' = call.from)
    BY <1>1, <1>3, CallKinds
  <2>2. listing' \in Seq(Nat) /\ (call.op = "list" => ListedTo(listing'))
    BY <1>1, <1>3 DEF IInv, TypeOK, ListingOK
  <2> QED BY <1>1, <1>3, <2>1, <2>2, BetweenOK
<1> QED BY <1>2, <1>3 DEF Sleep

(* A chunk is sent, or the end of the contents.                            *)
LEMMA UploadOK ==
  ASSUME IInv, Upload
  PROVE  IInv' /\ StoreStep
<1>1. /\ pc = "upload" /\ call # None /\ call \in Calls /\ http_conn \in Connections
      /\ FromFile(call) /\ call.op = "put"
      /\ UNCHANGED <<store, call, met, steady, ever, result, listing>>
  BY CallIsCall DEF Upload, callVars, IInv, TypeOK, OfThisCall, FromFile, Asking
<1>2. /\ call.text \in Seq(Nat) /\ call.from \in Nat /\ Until(call) \in Nat
      /\ Len(call.text) \in Nat /\ pos \in Nat /\ call.from <= pos
      /\ pos = call.from \/ (pos <= Until(call) /\ pos <= Len(call.text))
      /\ http_conn.request # None =>
           http_conn.request.sent = SubSeq(call.text, call.from + 1, pos)
  BY <1>1, CallKinds DEF IInv, TypeOK, SentOK
<1>3. StoreStep /\ SteadyOK' /\ ListingOK'
  <2>1. pc' # "idle"
    BY <1>1 DEF Upload
  <2> QED BY <1>1, <2>1 DEF StoreStep, OS!storeVars, IInv, SteadyOK, ListingOK, ListedTo
<1>4. CASE /\ Sends /\ pos' = pos + 1 /\ pc' = pc
           /\ http_conn' = [http_conn EXCEPT !.request = Longer(@, call.text[pos + 1])]
  <2>1. pos < Until(call) /\ pos < Len(call.text)
    BY <1>4 DEF Sends
  <2>2. PICK r : r = Longer(http_conn.request, call.text[pos + 1])
    OBVIOUS
  <2>3. /\ SubSeq(call.text, call.from + 1, pos) \in Seq(Nat)
        /\ Append(SubSeq(call.text, call.from + 1, pos), call.text[pos + 1])
             = SubSeq(call.text, call.from + 1, pos + 1)
        /\ SubSeq(call.text, call.from + 1, pos + 1) \in Seq(Nat)
    <3>1. call.text[pos + 1] \in Nat
      BY <1>2, <2>1, ElementOfSeq
    <3>2. /\ SubSeq(call.text, call.from + 1, pos) \in Seq(Nat)
          /\ Append(SubSeq(call.text, call.from + 1, pos), call.text[pos + 1])
               = SubSeq(call.text, call.from + 1, pos + 1)
      BY <1>2, <2>1, NextChunk
    <3>3. Append(SubSeq(call.text, call.from + 1, pos), call.text[pos + 1]) \in Seq(Nat)
      BY <3>1, <3>2, AppendProperties
    <3> QED BY <3>2, <3>3
  <2>4. ASSUME http_conn.request # None
        PROVE  /\ r \in Requests /\ r.call = http_conn.request.call
               /\ r.sent = SubSeq(call.text, call.from + 1, pos + 1)
    <3>1. http_conn.request \in Requests
      BY <1>1, <2>4 DEF Connections
    <3>2. r = [http_conn.request EXCEPT !.sent = SubSeq(call.text, call.from + 1, pos + 1)]
      <4>1. r = [http_conn.request EXCEPT !.sent = Append(@, call.text[pos + 1])]
        BY <2>2, <2>4 DEF Longer
      <4>2. http_conn.request.sent = SubSeq(call.text, call.from + 1, pos)
        BY <1>2, <2>4
      <4> QED BY <2>3, <4>1, <4>2, Zenon
    <3>3. PICK t \in Seq(Nat) : t = SubSeq(call.text, call.from + 1, pos + 1)
      BY <2>3
    <3>4. r = [http_conn.request EXCEPT !.sent = t]
      BY <3>2, <3>3
    <3>5. r \in Requests /\ r.call = http_conn.request.call /\ r.sent = t
      BY <3>1, <3>4 DEF Requests
    <3> QED BY <3>3, <3>5
  <2>5. http_conn' = [http_conn EXCEPT !.request = r]
    BY <1>4, <2>2
  <2>6. /\ http_conn' \in Connections /\ http_conn'.request = r
        /\ http_conn'.answer = http_conn.answer /\ http_conn'.ended = http_conn.ended
    <3>1. r \in Requests \cup {None}
      BY <2>2, <2>4 DEF Longer
    <3> QED BY <1>1, <2>5, <3>1 DEF Connections
  <2>7. TypeOK'
    <3>1. pc' = "upload" /\ pos' \in Nat
      BY <1>1, <1>2, <1>4
    <3>2. call' = call /\ store' = store /\ listing' = listing
      BY <1>1
    <3> QED BY <2>6, <3>1, <3>2 DEF IInv, TypeOK
  <2>8. OfThisCall'
    BY <1>1, <1>4, <2>2, <2>4, <2>6 DEF IInv, OfThisCall, Asking, Longer
  <2>9. SentOK'
    <3>1. /\ pos' = pos + 1 /\ pc' = "upload" /\ call' = call
          /\ Until(call') = Until(call)
      BY <1>1, <1>4
    <3>2. call.from <= pos' /\ pos' <= Until(call) /\ pos' <= Len(call.text)
      BY <1>2, <2>1, <3>1
    <3>3. http_conn'.request # None =>
            http_conn'.request.sent = SubSeq(call.text, call.from + 1, pos')
      BY <2>2, <2>4, <2>6, <3>1 DEF Longer
    <3> QED BY <3>1, <3>2, <3>3 DEF SentOK
  <2>10. AnswerOK'
    BY <1>1, <1>4, <2>6 DEF IInv, AnswerOK, Asking
  <2> QED BY <1>3, <2>7, <2>8, <2>9, <2>10 DEF IInv
<1>5. CASE /\ pos >= Until(call) /\ pos' = pos /\ pc' = "answer"
           /\ http_conn' = [http_conn EXCEPT !.ended = TRUE]
  <2>1. /\ http_conn' \in Connections /\ http_conn'.request = http_conn.request
        /\ http_conn'.answer = http_conn.answer /\ http_conn'.ended = TRUE
    BY <1>1, <1>5 DEF Connections
  <2>2. TypeOK' /\ OfThisCall'
    <3>1. pc' = "answer" /\ pos' \in Nat /\ call' = call /\ store' = store /\ listing' = listing
      BY <1>1, <1>2, <1>5
    <3>2. TypeOK'
      BY <2>1, <3>1 DEF IInv, TypeOK
    <3>3. OfThisCall'
      BY <1>1, <2>1, <3>1 DEF IInv, OfThisCall, Asking
    <3> QED BY <3>2, <3>3
  <2>3. SentOK'
    <3>1. SubSeq(call.text, call.from + 1, pos) = Wanted(call)
      BY <1>1, <1>2, <1>5, AllSent
    <3> QED BY <1>1, <1>2, <1>5, <2>1, <3>1 DEF SentOK
  <2>4. AnswerOK'
    BY <1>1, <1>5, <2>1 DEF IInv, AnswerOK, Asking
  <2> QED BY <1>3, <2>2, <2>3, <2>4 DEF IInv
<1> QED BY <1>4, <1>5 DEF Upload

(* The answer is taken: an error, what the call returns, or a page.        *)
LEMMA AnsweredOK ==
  ASSUME IInv, Answered
  PROVE  IInv' /\ StoreStep
<1> DEFINE a == http_conn.answer
<1>1. /\ pc = "answer" /\ call # None /\ call \in Calls /\ http_conn \in Connections
      /\ a # None /\ a \in Answers /\ http_conn.request = None
  BY CallIsCall DEF Answered, IInv, TypeOK, OfThisCall, Asking, Connections
<1>2. CASE Except(a.status)
  BY <1>1, <1>2, ExceptOK
<1>3. ASSUME NEW u \in BOOLEAN,
             http_conn' = [http_conn EXCEPT !.answer = None, !.ended = FALSE, !.unread = u]
      PROVE  Quiet(http_conn')
  BY <1>1, <1>3 DEF Quiet, Connections
<1>4. CASE /\ a.status = "ok" /\ call.op # "list" /\ Ends(a.value) /\ UNCHANGED store
           /\ http_conn' = [http_conn EXCEPT !.answer = None, !.ended = FALSE,
                                             !.unread = call.op = "get" /\ call.chunks]
  <2>1. PICK u \in BOOLEAN : u = (call.op = "get" /\ call.chunks)
    <3>1. call.op = "get" => call.chunks \in BOOLEAN
      BY <1>1 DEF Calls, Puts, Gets, Deletes, Listings
    <3> QED BY <3>1
  <2>2. http_conn' = [http_conn EXCEPT !.answer = None, !.ended = FALSE, !.unread = u]
    BY <1>4, <2>1
  <2>3. IInv' /\ OS!End /\ result' = a.value
    BY <1>1, <1>3, <1>4, <2>2, EndsOK
  <2>4. a.value \in met
    BY <1>1, <1>4 DEF IInv, AnswerOK, Asking
  <2> QED BY <1>4, <2>3, <2>4 DEF StoreStep, OS!StoreNext, OS!Return, OS!Raise
<1>5. CASE /\ a.status = "ok" /\ call.op = "list" /\ a.value = <<>> /\ Ends(listing)
           /\ UNCHANGED store
           /\ http_conn' = [http_conn EXCEPT !.answer = None, !.ended = FALSE]
  <2>1. Quiet(http_conn')
    BY <1>1, <1>5 DEF Quiet, Connections
  <2>2. IInv' /\ OS!End /\ result' = listing
    BY <1>1, <1>5, <2>1, EndsOK
  <2>3. ListedTo(listing) /\ NextPart(<<>>)
    BY <1>1, <1>5 DEF IInv, ListingOK, AnswerOK, Asking
  <2>4. OS!Ordered(listing) /\ steady \subseteq ToSet(listing) /\ ToSet(listing) \subseteq ever
    BY <2>3 DEF ListedTo, NextPart
  <2>5. CASE result' = None
    BY <2>2, <2>5 DEF StoreStep, OS!StoreNext, OS!Raise
  <2>6. CASE result' # None
    <3>1. OS!Return
      BY <1>5, <2>2, <2>4, <2>6, Zenon DEF OS!Return, ToSet, OS!ToSet
    <3> QED BY <2>2, <3>1 DEF StoreStep, OS!StoreNext
  <2> QED BY <2>5, <2>6
<1>6. CASE /\ a.status = "ok" /\ call.op = "list" /\ a.value # <<>>
           /\ listing' = listing \o a.value /\ Asks(http_conn)
           /\ UNCHANGED <<store, callVars, pos>>
  <2>1. NextPart(a.value)
    BY <1>1, <1>6 DEF IInv, AnswerOK, Asking
  <2>2. a.value \in Seq(Nat) /\ ListedTo(listing \o a.value)
    BY <1>6, <2>1 DEF NextPart
  <2>3. listing' \in Seq(Nat)
    BY <1>6, <2>2, ListOfParts DEF IInv, TypeOK
  <2>4. ListedTo(listing')
    BY <1>6, <2>2
  <2> QED BY <1>1, <1>6, <2>3, <2>4, AskingOK
<1> QED BY <1>2, <1>4, <1>5, <1>6 DEF Answered

(* A send or getresponse fails.                                            *)
LEMMA LostOK ==
  ASSUME IInv, Lost
  PROVE  IInv' /\ StoreStep
<1>1. pc \in {"upload", "answer"} /\ Except("network")
  BY DEF Lost
<1> QED BY <1>1, ExceptOK

(* Only the connection and the ghosts that no user sees change, and        *)
(* nothing is under way.                                                   *)
LEMMA QuietStepOK ==
  ASSUME IInv, ~Asking, Quiet(http_conn'),
         UNCHANGED <<store, call, met, steady, ever, result, pc, pos, listing>>
  PROVE  IInv' /\ StoreStep
<1>1. TypeOK'
  BY DEF IInv, TypeOK, Quiet, Asking
<1>2. OfThisCall' /\ SentOK' /\ AnswerOK'
  BY DEF IInv, OfThisCall, SentOK, AnswerOK, Quiet, Asking
<1>3. SteadyOK' /\ ListingOK'
  BY DEF IInv, SteadyOK, ListingOK, ListedTo
<1>4. StoreStep
  BY DEF StoreStep, OS!storeVars
<1> QED BY <1>1, <1>2, <1>3, <1>4 DEF IInv

(* What is left of a body is read between calls.                           *)
LEMMA ReadBodyOK ==
  ASSUME IInv, ReadBody
  PROVE  IInv' /\ StoreStep
<1>1. /\ pc = "idle" /\ http_conn # None /\ Quiet(http_conn)
      /\ http_conn' = [http_conn EXCEPT !.unread = FALSE]
      /\ UNCHANGED <<store, call, met, steady, ever, result, pc, pos, listing>>
  BY QuietBetween DEF ReadBody, callVars, retryVars, Asking
<1>2. Quiet(http_conn')
  BY <1>1 DEF Quiet, Connections
<1> QED BY <1>1, <1>2, QuietStepOK DEF Asking

(* get_auth does not get a token.                                          *)
LEMMA AuthFailsOK ==
  ASSUME IInv, AuthFails
  PROVE  IInv' /\ StoreStep
  BY ExceptOK DEF AuthFails

-----------------------------------------------------------------------------
(* Its surroundings.                                                       *)

(* The connection breaks, and the answer on the way with it.               *)
LEMMA BreaksOK ==
  ASSUME IInv, Breaks
  PROVE  IInv' /\ StoreStep
<1>1. /\ http_conn \in Connections
      /\ http_conn' = [http_conn EXCEPT !.broken = TRUE, !.answer = None]
      /\ UNCHANGED <<store, call, met, steady, ever, result, pc, pos, listing>>
  BY DEF Breaks, Fault, retryVars, IInv, TypeOK
<1>2. CASE ~Asking
  <2>1. Quiet(http_conn')
    BY <1>1, <1>2, QuietBetween DEF Breaks, Quiet, Connections
  <2> QED BY <1>1, <1>2, <2>1, QuietStepOK
<1>3. CASE Asking
  <2>1. /\ http_conn' \in Connections /\ http_conn'.request = http_conn.request
        /\ http_conn'.answer = None /\ http_conn'.ended = http_conn.ended
    BY <1>1 DEF Connections
  <2>2. TypeOK'
    BY <1>1, <2>1 DEF IInv, TypeOK
  <2>3. OfThisCall'
    BY <1>1, <1>3, <2>1 DEF IInv, OfThisCall, Asking
  <2>4. SentOK' /\ AnswerOK'
    BY <1>1, <2>1 DEF IInv, SentOK, AnswerOK
  <2>5. SteadyOK' /\ ListingOK'
    BY <1>1 DEF IInv, SteadyOK, ListingOK, ListedTo
  <2>6. StoreStep
    BY <1>1 DEF StoreStep, OS!storeVars
  <2> QED BY <2>2, <2>3, <2>4, <2>5, <2>6 DEF IInv
<1> QED BY <1>2, <1>3

(* The token expires.                                                      *)
LEMMA ExpiresOK ==
  ASSUME IInv, Expires
  PROVE  IInv' /\ StoreStep
<1>1. UNCHANGED <<store, call, met, steady, ever, result, pc, pos, http_conn, listing>>
  BY DEF Expires, Fault, retryVars
<1> QED BY <1>1
        DEF IInv, TypeOK, OfThisCall, SentOK, SteadyOK, ListingOK, ListedTo, AnswerOK,
            NextPart, Asking, StoreStep, OS!storeVars

(* The store changes; the connection, and what the call is at, do not.     *)
LEMMA StoreChangesOK ==
  ASSUME IInv, NEW s \in [Names -> Seq(Nat) \cup {None}], Changes(s), met \subseteq met',
         UNCHANGED <<call, pc, pos, listing, http_conn>>
  PROVE  IInv'
<1>1. /\ SteadyOK' /\ store' = s
      /\ steady' \subseteq steady /\ ever \subseteq ever'
  BY ChangesOK DEF IInv
<1>2. TypeOK' /\ OfThisCall' /\ SentOK'
  BY <1>1 DEF IInv, TypeOK, OfThisCall, SentOK, Asking
<1>3. ListingOK'
  BY <1>1 DEF IInv, ListingOK, ListedTo
<1>4. AnswerOK'
  <2>1. PICK v : v = http_conn.answer.value
    OBVIOUS
  <2>2. NextPart(v) => NextPart(v)'
    BY <1>1, NextPartStays
  <2> QED BY <2>1, <2>2 DEF IInv, AnswerOK, Asking
<1> QED BY <1>1, <1>2, <1>3, <1>4 DEF IInv

(* Others put and delete.                                                  *)
LEMMA OthersOK ==
  ASSUME IInv, Others
  PROVE  IInv' /\ StoreStep
<1>1. PICK n \in Names, v \in Texts \cup {None} : Changes([store EXCEPT ![n] = v])
  BY DEF Others
<1>2. UNCHANGED <<call, met, result, pc, pos, listing, http_conn>>
  BY DEF Others, retryVars
<1>3. v \in Seq(Nat) \cup {None} /\ store \in [Names -> Seq(Nat) \cup {None}]
  BY ClientAssumption DEF IInv, TypeOK
<1>4. PICK s \in [Names -> Seq(Nat) \cup {None}] : s = [store EXCEPT ![n] = v]
  BY <1>3
<1>5. Changes(s)
  BY <1>1, <1>4
<1>6. IInv'
  BY <1>2, <1>5, StoreChangesOK
<1>7. OS!Changes(s) /\ store' = s
  BY <1>2, <1>5, ChangesOK DEF IInv
<1>8. \A m \in Names \ {n} : store'[m] = store[m]
  BY <1>3, <1>4, <1>7
<1>9. OS!Others
  BY <1>2, <1>7, <1>8 DEF OS!Others
<1> QED BY <1>6, <1>9 DEF StoreStep, OS!StoreNext

(* The answer to a request takes its place on the connection.              *)
LEMMA RepliesOK ==
  ASSUME IInv, call # None, http_conn # None, http_conn.request # None,
         NEW status \in {"ok", "401", "408", "5xx", "other"},
         NEW v \in Seq(Nat) \cup {None, Ok}, Replies(status, v),
         SteadyOK', store' \in [Names -> Seq(Nat) \cup {None}],
         steady' \subseteq steady, ever \subseteq ever',
         status = "ok" => IF call.op = "list" THEN NextPart(v) ELSE v \in met',
         UNCHANGED <<call, pc, pos, listing>>
  PROVE  IInv'
<1>1. Asking /\ http_conn \in Connections
  BY DEF IInv, TypeOK, OfThisCall
<1>2. /\ http_conn' \in Connections /\ http_conn'.request = None
      /\ http_conn'.ended = http_conn.ended
      /\ http_conn'.answer # None => http_conn'.answer.status = status /\ http_conn'.answer.value = v
  <2>1. PICK r : r = [status |-> status, value |-> v]
    OBVIOUS
  <2>2. r \in Answers /\ r.status = status /\ r.value = v
    BY <2>1 DEF Answers
  <2>3. http_conn' = [http_conn EXCEPT !.request = None,
                                       !.answer = IF http_conn.broken THEN None ELSE r]
    BY <2>1 DEF Replies
  <2> QED BY <1>1, <2>2, <2>3 DEF Connections
<1>3. TypeOK'
  BY <1>2 DEF IInv, TypeOK
<1>4. OfThisCall'
  BY <1>1, <1>2 DEF IInv, OfThisCall, Asking
<1>5. SentOK'
  BY <1>2 DEF IInv, SentOK
<1>6. ListingOK'
  BY DEF IInv, ListingOK, ListedTo
<1>7. AnswerOK'
  <2>1. NextPart(v) => NextPart(v)'
    BY NextPartStays
  <2>2. ASSUME http_conn'.answer # None, NextPart(v)'
        PROVE  NextPart(http_conn.answer.value)'
    <3>1. v = http_conn'.answer.value
      BY <1>2, <2>2
    <3>2. v \in Seq(Nat) /\ (v = <<>> => (steady \subseteq ToSet(listing))')
      BY <2>2 DEF NextPart
    <3>3. PICK l : l = listing' \o v
      OBVIOUS
    <3>4. v # <<>> => ListedTo(l)'
      BY <2>2, <3>3 DEF NextPart, ListedTo
    <3>5. (listing \o http_conn.answer.value)' = l
      BY <3>1, <3>3
    <3>6. v # <<>> => ListedTo(listing \o http_conn.answer.value)'
      BY <3>4, <3>5 DEF ListedTo
    <3> QED BY <3>1, <3>2, <3>6 DEF NextPart
  <2> QED BY <1>2, <2>1, <2>2 DEF AnswerOK
<1> QED BY <1>3, <1>4, <1>5, <1>6, <1>7 DEF IInv

(* What the server does is what the user called for.                       *)
LEMMA ActsOK ==
  ASSUME IInv, call # None, http_conn # None, http_conn.request # None, http_conn.ended,
         OS!Possible(call, store), Acts(http_conn.request), UNCHANGED <<call, result>>
  PROVE  /\ StoreStep /\ SteadyOK' /\ store' \in [Names -> Seq(Nat) \cup {None}]
         /\ steady' \subseteq steady /\ ever \subseteq ever'
         /\ call.op # "list" =>
              /\ OS!Answer(call, store) \in met'
              /\ OS!Answer(call, store) \in Seq(Nat) \cup {None, Ok}
         /\ call.op = "list" => UNCHANGED <<store, steady, ever, met>>
<1> DEFINE r == http_conn.request
<1>1. /\ pc = "answer" /\ r.call = call /\ call \in Calls
      /\ call.op = "put" => r.sent = Wanted(call)
      /\ store \in [Names -> Seq(Nat) \cup {None}]
      /\ r.sent \in Seq(Nat)
  BY CallIsCall DEF IInv, TypeOK, OfThisCall, SentOK, Asking, Connections, Requests
<1>2. call.op \in {"put", "get", "delete", "list"} /\ (call.op # "list" => call.name \in Names)
  BY <1>1, ClientAssumption DEF Calls, Puts, Gets, Deletes, Listings
<1>3. Done(r) = OS!Stored(call, store)
  BY <1>1, <1>2 DEF Done, OS!Stored
<1>4. Done(r) \in [Names -> Seq(Nat) \cup {None}]
  BY <1>1, <1>2 DEF Done
<1> HIDE DEF r
<1>5. Changes(Done(r)) /\ met' = met \cup (IF call.op = "list" THEN {} ELSE {OS!Answer(call, store)})
  BY <1>1 DEF Acts, r
<1>6. /\ OS!Changes(Done(r)) /\ store' = Done(r) /\ SteadyOK'
      /\ steady' \subseteq steady /\ ever \subseteq ever'
  BY <1>5, ChangesOK DEF IInv
<1>7. CASE call.op = "list"
  <2>1. Done(r) = store /\ met' = met
    BY <1>1, <1>5, <1>7 DEF Done, r
  <2>2. steady' = steady /\ ever' = ever
    BY <1>5, <2>1 DEF Changes, IInv, SteadyOK
  <2>3. StoreStep
    BY <1>6, <2>1, <2>2 DEF StoreStep, OS!storeVars
  <2> QED BY <1>4, <1>6, <1>7, <2>1, <2>2, <2>3
<1>8. CASE call.op # "list"
  <2>1. met' = met \cup {OS!Answer(call, store)}
    BY <1>5, <1>8
  <2>2. OS!Act
    BY <1>3, <1>6, <2>1 DEF OS!Act
  <2>3. OS!Answer(call, store) \in Seq(Nat) \cup {None, Ok}
    BY <1>1, <1>2, <1>8 DEF OS!Answer
  <2> QED BY <1>4, <1>6, <1>8, <2>1, <2>2, <2>3 DEF StoreStep, OS!StoreNext
<1> QED BY <1>7, <1>8

(* A refusal, which changes nothing.                                       *)
LEMMA RefusalOK ==
  ASSUME IInv, call # None, http_conn # None, http_conn.request # None,
         NEW status \in {"401", "408", "5xx", "other"}, Replies(status, None),
         UNCHANGED <<store, call, met, steady, ever, result, pc, pos, listing>>
  PROVE  IInv' /\ StoreStep
<1>1. SteadyOK' /\ store' \in [Names -> Seq(Nat) \cup {None}]
  BY DEF IInv, TypeOK, SteadyOK
<1>2. IInv'
  BY <1>1, RepliesOK
<1> QED BY <1>2 DEF StoreStep, OS!storeVars

(* The server takes a request.                                             *)
LEMMA ServesOK ==
  ASSUME IInv, Serves
  PROVE  IInv' /\ StoreStep
<1>1. /\ call # None /\ http_conn # None /\ http_conn.request # None /\ http_conn.ended
      /\ UNCHANGED <<call, result, pc, pos, listing>> /\ call \in Calls
  BY CallIsCall DEF Serves, retryVars
<1>2. CASE Replies("401", None) /\ UNCHANGED <<store, met, steady, ever>>
  BY <1>1, <1>2, RefusalOK
<1>3. CASE Replies("other", None) /\ UNCHANGED <<store, met, steady, ever>>
  BY <1>1, <1>3, RefusalOK
<1>4. CASE /\ OS!Possible(call, store) /\ Acts(http_conn.request)
           /\ \E answer \in IF call.op = "list" THEN Pages(call) ELSE {OS!Answer(call, store)} :
                Replies("ok", answer)
  <2>1. PICK answer \in IF call.op = "list" THEN Pages(call) ELSE {OS!Answer(call, store)} :
          Replies("ok", answer)
    BY <1>4
  <2>2. /\ StoreStep /\ SteadyOK' /\ store' \in [Names -> Seq(Nat) \cup {None}]
        /\ steady' \subseteq steady /\ ever \subseteq ever'
        /\ call.op # "list" =>
             /\ OS!Answer(call, store) \in met'
             /\ OS!Answer(call, store) \in Seq(Nat) \cup {None, Ok}
    BY <1>1, <1>4, ActsOK
  <2>3. CASE call.op = "list"
    <3>1. answer \in Pages(call) /\ ListedTo(listing)
      BY <1>1, <2>1, <2>3 DEF IInv, ListingOK
    <3>2. NextPart(answer)
      BY <1>1, <3>1, PageIsNextPart DEF IInv
    <3>3. answer \in Seq(Nat) \cup {None, Ok}
      BY <3>2 DEF NextPart
    <3>4. IInv'
      BY <1>1, <2>1, <2>2, <2>3, <3>2, <3>3, RepliesOK
    <3> QED BY <2>2, <3>4
  <2>4. CASE call.op # "list"
    <3>1. answer = OS!Answer(call, store)
      BY <2>1, <2>4
    <3>2. answer \in met' /\ answer \in Seq(Nat) \cup {None, Ok}
      BY <2>2, <2>4, <3>1
    <3>3. IInv'
      BY <1>1, <2>1, <2>2, <2>4, <3>2, RepliesOK
    <3> QED BY <2>2, <3>3
  <2> QED BY <2>3, <2>4
<1> QED BY <1>2, <1>3, <1>4 DEF Serves

(* It does not take it, or does not say that it did.                       *)
LEMMA RefusesOK ==
  ASSUME IInv, Refuses
  PROVE  IInv' /\ StoreStep
<1>1. /\ call # None /\ http_conn # None /\ http_conn.request # None
      /\ UNCHANGED <<call, result, pc, pos, listing>>
  BY DEF Refuses, retryVars
<1>2. ASSUME NEW status \in {"401", "408", "5xx"}, Replies(status, None),
             UNCHANGED <<store, met, steady, ever>>
      PROVE  IInv' /\ StoreStep
  BY <1>1, <1>2, RefusalOK
<1>3. CASE /\ http_conn.ended /\ OS!Possible(call, store)
           /\ Acts(http_conn.request) /\ Replies("5xx", None)
  <2>1. /\ StoreStep /\ SteadyOK' /\ store' \in [Names -> Seq(Nat) \cup {None}]
        /\ steady' \subseteq steady /\ ever \subseteq ever'
    BY <1>1, <1>3, ActsOK
  <2>2. IInv'
    BY <1>1, <1>3, <2>1, RepliesOK
  <2> QED BY <2>1, <2>2
<1> QED BY <1>2, <1>3 DEF Refuses

-----------------------------------------------------------------------------
(* The theorems.                                                           *)

(* The first state.                                                        *)
LEMMA InitOK == ClientInit => IInv /\ OS!StoreInit
<1> SUFFICES ASSUME ClientInit PROVE IInv /\ OS!StoreInit
  OBVIOUS
<1>1. TypeOK
  BY EmptySeq DEF ClientInit, TypeOK, Asking
<1>2. OfThisCall /\ SentOK /\ SteadyOK /\ ListingOK /\ AnswerOK
  BY DEF ClientInit, OfThisCall, SentOK, SteadyOK, ListingOK, AnswerOK, Asking
<1>3. OS!StoreInit
  BY DEF ClientInit, OS!StoreInit
<1> QED BY <1>1, <1>2, <1>3 DEF IInv

(* Every step.                                                             *)
LEMMA StepOK == IInv /\ [ClientNext]_vars => IInv' /\ StoreStep
<1> SUFFICES ASSUME IInv, [ClientNext]_vars PROVE IInv' /\ StoreStep
  OBVIOUS
<1>1. ASSUME NEW c \in Calls, Begin(c) PROVE IInv' /\ StoreStep
  BY <1>1, BeginOK
<1>2. CASE Client
  BY <1>2, TryOK, AuthenticatedOK, SleepOK, UploadOK, LostOK, AnsweredOK DEF Client
<1>3. CASE ReadBody
  BY <1>3, ReadBodyOK
<1>4. CASE Server
  BY <1>4, ServesOK, RefusesOK DEF Server
<1>5. CASE AuthFails
  BY <1>5, AuthFailsOK
<1>6. CASE Breaks
  BY <1>6, BreaksOK
<1>7. CASE Expires
  BY <1>7, ExpiresOK
<1>8. CASE Others
  BY <1>8, OthersOK
<1>9. CASE UNCHANGED vars
  <2>1. UNCHANGED <<store, call, met, steady, ever, result, pc, pos, http_conn, listing>>
    BY <1>9 DEF vars, callVars, retryVars
  <2> QED BY <2>1
          DEF IInv, TypeOK, OfThisCall, SentOK, SteadyOK, ListingOK, ListedTo, AnswerOK,
              NextPart, Asking, StoreStep, OS!storeVars
<1> QED BY <1>1, <1>2, <1>3, <1>4, <1>5, <1>6, <1>7, <1>8, <1>9 DEF ClientNext

(* What is on the connection is always of the present try of the call      *)
(* under way, a request carries what was read of the contents, and a       *)
(* listing is complete as far as it goes (client.py:1100-1134).            *)
THEOREM Invariance == ClientSpec => []IInv
<1>1. ClientInit => IInv
  BY InitOK
<1>2. IInv /\ [ClientNext]_vars => IInv'
  BY StepOK
<1> QED BY <1>1, <1>2, PTL DEF ClientSpec

(* However often a call is tried again, and whatever broke before, a call  *)
(* that returns has done what it was asked for, and a listing misses and   *)
(* repeats nothing (client.py:1086-1134, 875-900, 490-538): the client     *)
(* implements ObjectStore.                                                 *)
THEOREM KeepsPromiseTheorem == ClientSpec => KeepsPromise
<1>1. ClientInit => OS!StoreInit
  BY InitOK
<1>2. IInv /\ [ClientNext]_vars => [OS!StoreNext]_(OS!storeVars)
  BY StepOK DEF StoreStep
<1> QED BY <1>1, <1>2, Invariance, PTL DEF ClientSpec, KeepsPromise, OS!StoreSpec
=============================================================================
