-------------------------- MODULE WsgiServer_proofs --------------------------
(***************************************************************************)
(* Proofs about the server of cherrPy-wsgi.py and its pool of threads: the *)
(* pool keeps its size, and a graceful stop loses nothing, for any number  *)
(* of threads, connections and calls.                                      *)
(***************************************************************************)
EXTENDS WsgiServer, FiniteSetTheorems, SequenceTheorems, TLAPS

Stoppers == Workers \cup {Control}
Events == {"interrupt", "request", "shrink", "failure"}

(* The types of the variables, and which places mean that a connection is    *)
(* held: by the thread in start(), or by a worker.                           *)
WorkerRecords == [at : {"new", "get", "read", "respond", "close", "exit", "interrupt", "dead"},
                  conn : Conns \cup {None}, exits : BOOLEAN]
StopRecords == [at : {"no", "close", "pills", "pop", "join", "force", "last"},
                of : Workers \cup {0}, conn : Conns \cup {None}]
ConnRecords == [at : {"out", "backlog", "open", "closed"}, asks : BOOLEAN, left : Int, gone : BOOLEAN]

ServerOK ==
  /\ server \in {"out", "started", "loop", "tick", "accept", "accepted", "put", "check", "raised", "returned"}
  /\ taken \in Conns \cup {None} /\ (server \in {"accepted", "put"} => taken \in Conns)
  /\ ready \in BOOLEAN /\ socket \in BOOLEAN
  /\ owed \subseteq Conns /\ past \subseteq Events
  /\ counts \in [start : Nat, shrink : Nat, stop : Nat]
WorkersOK ==
  /\ worker \in [Workers -> WorkerRecords]
  /\ \A i \in Workers : worker[i].conn \in Conns <=> worker[i].at \in {"read", "respond", "close"}
StopsOK == stop \in [Stoppers -> StopRecords]
ConnsOK == conn \in [Conns -> ConnRecords]
PoolOK == threads \in Seq(Workers) /\ queue \in Seq(Conns \cup {Pill})
UnseenOK == unseen \in Nat
WsgiTypeOK == ServerOK /\ WorkersOK /\ StopsOK /\ ConnsOK /\ PoolOK /\ UnseenOK

(* The threads made so far have the first numbers, and each is in the pool    *)
(* once.                                                                      *)
Numbered ==
  /\ \E m \in 0..MaxThreads : \A i \in Workers : worker[i].at = "new" <=> i > m
  /\ \A k \in DOMAIN threads : worker[threads[k]].at # "new"
  /\ \A j, k \in DOMAIN threads : threads[j] = threads[k] => j = k

(* Nobody but the thread outside the pool has called stop(), and none of its  *)
(* calls has failed.                                                          *)
Alone == past \subseteq {"shrink"}
Outside == stop[Control].at

(* Where a stop is, whether the socket is there, what was called how often    *)
(* and what has happened, go together.                                        *)
StopsInOrder ==
  /\ \A x \in Stoppers : Outside # "no" \/ Stopping(x) => counts.stop >= 1
  /\ \A x \in Stoppers : stop[x].at \notin {"no", "close"} => ~socket
  /\ \A i \in Workers : Stopping(i) \/ worker[i].exits \/ worker[i].at \in {"exit", "interrupt"} => ~Alone
  /\ Alone => interrupt = "no"
  /\ counts.stop <= MaxStops
  /\ ~Alone => counts.stop >= 1 /\ (Stopping(Control) => counts.stop >= 2)

(* Before the first start nothing has been made or called.                     *)
NothingYet == server = "out" => ~ready /\ counts.stop = 0 /\ \A i \in Workers : worker[i].at = "new"

(* Where the thread in start() is, while only the thread outside the pool      *)
(* stops it: it runs for as long as the socket is there and no stop has begun, *)
(* and each start but the last has been followed by a stop.                    *)
StartsInOrder ==
  /\ server = "out" <=> counts.start = 0
  /\ server = "out" => ~ready /\ ~socket
  /\ server # "out" /\ ~socket => counts.stop >= 1
  /\ socket /\ Alone /\ ~Stopping(Control) => server \notin {"returned", "raised"} /\ (ready \/ server = "started")
  /\ Alone => /\ counts.stop + 1 >= counts.start
              /\ ~socket \/ Stopping(Control) => counts.stop >= counts.start
              /\ Outside = "close" /\ ~socket => counts.stop > counts.start

(* Threads that no shutdown request waits for: no fewer than MinSize but for   *)
(* what shrink() or start() did not know of.                                   *)
Room == Spare >= MinSize - unseen
PoolInv ==
  /\ \A x \in Stoppers : stop[x].at \notin {"no", "close"} => ~socket
  /\ Serves /\ socket => Room
  /\ server # "raised" /\ MaxSize # 0 => Len(threads) <= MaxSize

(* The same while only the thread outside the pool stops the server, until it  *)
(* puts the shutdown requests; and where the threads alive are to be found.    *)
PillsInOrder ==
  /\ Alone /\ socket => Room
  /\ Alone /\ Outside = "no" /\ ~socket => threads = <<>>
  /\ Alone => \A i \in Living : \/ \E k \in DOMAIN threads : threads[k] = i
                                \/ Outside \in {"join", "force", "last"} /\ stop[Control].of = i
  /\ Alone /\ Outside = "pills" /\ counts.stop <= counts.start => Room

(* The places of the shutdown requests among the first m of a queue.           *)
Requests(q, m) == {k \in 1..m : q[k] = Pill}

(* A connection that is owed to its client is closed, held by a worker, or     *)
(* queued behind fewer shutdown requests than there are threads alive.         *)
PillsBefore(k) == Cardinality(Requests(queue, k - 1))
Safe(c) ==
  \/ conn[c].at = "closed"
  \/ \E i \in Workers : worker[i].conn = c
  \/ \E k \in DOMAIN queue : queue[k] = c /\ PillsBefore(k) < Cardinality(Living)
Owing ==
  Alone /\ Outside \in {"pop", "join", "force", "last"} /\ counts.stop <= counts.start /\ unseen < MinSize
OwedAreKept == Owing => \A c \in owed : Safe(c)

WsgiInv ==
  WsgiTypeOK /\ Numbered /\ NothingYet /\ StopsInOrder /\ StartsInOrder /\ PillsInOrder /\ OwedAreKept
-----------------------------------------------------------------------------
(* Numbers that are all moved up by one are as many as before.                 *)
LEMMA Shifted ==
  ASSUME NEW S \in SUBSET Int, IsFiniteSet(S), NEW T, T = {k + 1 : k \in S}
  PROVE  IsFiniteSet(T) /\ Cardinality(T) = Cardinality(S)
<1> DEFINE f == [k \in S |-> k + 1]
<1>1. f \in Bijection(S, T)
  BY DEF Bijection, Injection, Surjection, IsInjective
<1>2. ExistsBijection(S, T)
  BY <1>1 DEF ExistsBijection
<1>3. QED
  BY <1>2, FS_Bijection

(* The shutdown requests among the first of a queue are finitely many, and     *)
(* fewer among fewer.                                                          *)
LEMMA RequestsFinite ==
  ASSUME NEW q, NEW m \in Int
  PROVE  /\ IsFiniteSet(Requests(q, m)) /\ Cardinality(Requests(q, m)) \in Nat
         /\ Requests(q, m) \in SUBSET Int
         /\ \A k \in Int : k <= m => Cardinality(Requests(q, k)) <= Cardinality(Requests(q, m))
<1>1. IsFiniteSet(1..m)
  BY FS_Interval
<1>2. Requests(q, m) \in SUBSET (1..m)
  BY DEF Requests
<1>3. IsFiniteSet(Requests(q, m)) /\ Cardinality(Requests(q, m)) \in Nat
  BY <1>1, <1>2, FS_Subset, FS_CardinalityType
<1>4. ASSUME NEW k \in Int, k <= m PROVE Cardinality(Requests(q, k)) <= Cardinality(Requests(q, m))
  <2>1. Requests(q, k) \in SUBSET Requests(q, m)
    BY <1>4 DEF Requests
  <2>2. QED
    BY <1>3, <2>1, FS_Subset
<1>5. QED
  BY <1>2, <1>3, <1>4

(* What is put behind does not count among the first.                          *)
LEMMA RequestsSame ==
  ASSUME NEW q, NEW p, NEW m \in Int, \A k \in 1..m : p[k] = q[k]
  PROVE  Requests(p, m) = Requests(q, m)
BY DEF Requests

(* Shutdown requests put behind a queue add up.                                *)
LEMMA RequestsAdded ==
  ASSUME NEW q, NEW p, NEW m \in Nat, NEW n \in Nat,
         \A k \in 1..m : p[k] = q[k], \A k \in (m + 1)..(m + n) : p[k] = Pill
  PROVE  Cardinality(Requests(p, m + n)) = Cardinality(Requests(q, m)) + n
<1> DEFINE A == Requests(q, m)
           T == (m + 1)..(m + n)
<1>1. Requests(p, m + n) = A \cup T /\ A \cap T = {}
  BY DEF Requests
<1>2. IsFiniteSet(T) /\ Cardinality(T) = n
  BY FS_Interval
<1>3. IsFiniteSet(A) /\ Cardinality(A) \in Nat
  BY RequestsFinite
<1> HIDE DEF A, T
<1>4. Cardinality(A \cap T) = 0
  BY <1>1, FS_EmptySet
<1>5. Cardinality(A \cup T) = Cardinality(A) + Cardinality(T) - Cardinality(A \cap T)
  BY <1>2, <1>3, FS_Union
<1>6. Cardinality(A \cup T) = Cardinality(A) + n
  BY <1>2, <1>3, <1>4, <1>5
<1>7. QED
  BY <1>1, <1>6 DEF A

(* When the first is taken the rest moves up.                                  *)
LEMMA RequestsMoveUp ==
  ASSUME NEW q, NEW p, NEW m \in Nat \ {0}, \A k \in 1..(m - 1) : p[k] = q[k + 1]
  PROVE  Cardinality(Requests(p, m - 1)) = Cardinality(Requests(q, m)) - (IF q[1] = Pill THEN 1 ELSE 0)
<1>1. Requests(q, m) \ {1} = {k + 1 : k \in Requests(p, m - 1)}
  <2>1. ASSUME NEW k \in Requests(q, m) \ {1} PROVE k \in {j + 1 : j \in Requests(p, m - 1)}
    <3>1. k - 1 \in 1..(m - 1) /\ p[k - 1] = q[(k - 1) + 1] /\ k = (k - 1) + 1
      BY DEF Requests
    <3>2. k - 1 \in Requests(p, m - 1)
      BY <3>1 DEF Requests
    <3>3. QED
      BY <3>1, <3>2
  <2>2. ASSUME NEW k \in Requests(p, m - 1) PROVE k + 1 \in Requests(q, m) \ {1}
    BY DEF Requests
  <2>3. QED
    BY <2>1, <2>2
<1>2. Cardinality(Requests(q, m) \ {1}) = Cardinality(Requests(p, m - 1))
  BY <1>1, RequestsFinite, Shifted
<1>3. 1 \in Requests(q, m) <=> q[1] = Pill
  BY DEF Requests
<1>4. IsFiniteSet(Requests(q, m)) /\ Cardinality(Requests(q, m)) \in Nat
  BY RequestsFinite
<1>5. Cardinality(Requests(q, m) \ {1}) = IF 1 \in Requests(q, m) THEN Cardinality(Requests(q, m)) - 1
                                           ELSE Cardinality(Requests(q, m))
  BY <1>4, FS_RemoveElement
<1>6. QED
  BY <1>2, <1>3, <1>4, <1>5

(* The shutdown requests of the queue.                                         *)
LEMMA PillsAreRequests ==
  ASSUME NEW S, queue \in Seq(S)
  PROVE  Pills = Cardinality(Requests(queue, Len(queue))) /\ Pills \in Nat
<1>1. DOMAIN queue = 1..Len(queue) /\ Len(queue) \in Nat
  OBVIOUS
<1>2. Pills = Cardinality(Requests(queue, Len(queue)))
  BY <1>1 DEF Pills, Requests
<1>3. QED
  BY <1>1, <1>2, RequestsFinite

-----------------------------------------------------------------------------
(* The numbers from a to b, if there are any.                                  *)
LEMMA FirstTo ==
  ASSUME NEW a \in Int, NEW b \in Int, a <= b + 1
  PROVE  IsFiniteSet(a..b) /\ Cardinality(a..b) = b + 1 - a
<1>1. IsFiniteSet(a..b) /\ Cardinality(a..b) = IF a > b THEN 0 ELSE b - a + 1
  BY FS_Interval
<1>2. QED
  BY <1>1

(* The threads alive are some of those made, and so finitely many.             *)
LEMMA LivingFinite ==
  /\ IsFiniteSet(Living) /\ Cardinality(Living) \in Nat /\ Living \in SUBSET Workers
  /\ \A S \in SUBSET Living : IsFiniteSet(S) /\ Cardinality(S) <= Cardinality(Living)
<1>1. IsFiniteSet(Workers)
  BY ServerAssumption, FS_Interval DEF Workers
<1>2. Living \in SUBSET Workers
  BY DEF Living
<1>3. QED
  BY <1>1, <1>2, FS_Subset, FS_CardinalityType

(* The threads not made yet are those with the numbers behind the last one     *)
(* made.                                                                       *)
LEMMA MadeSoFar ==
  ASSUME NEW m \in 0..MaxThreads, \A i \in Workers : worker[i].at = "new" <=> i > m
  PROVE  Fresh = (m + 1)..MaxThreads /\ Made = m /\ Cardinality(Fresh) = MaxThreads - m
<1>1. MaxThreads \in Nat
  BY ServerAssumption
<1>2. Fresh = (m + 1)..MaxThreads
  BY <1>1 DEF Fresh, Workers
<1>3. Cardinality((m + 1)..MaxThreads) = MaxThreads - m
  <2>1. m + 1 \in Int /\ MaxThreads \in Int /\ m + 1 <= MaxThreads + 1
    BY <1>1
  <2>2. Cardinality((m + 1)..MaxThreads) = MaxThreads + 1 - (m + 1)
    BY <2>1, FirstTo
  <2>3. QED
    BY <2>1, <2>2
<1>4. QED
  BY <1>1, <1>2, <1>3 DEF Made

(* What making threads does to the pool: the l new ones come last, with the    *)
(* numbers behind m.                                                           *)
Added(n, at, m, l) ==
  /\ l = (IF n > 0 THEN n ELSE 0) /\ m + l <= MaxThreads
  /\ \A i \in Workers : worker[i].at = "new" <=> i > m
  /\ threads' \in Seq(Workers) /\ Len(threads') = Len(threads) + l
  /\ \A k \in 1..Len(threads) : threads'[k] = threads[k]
  /\ \A k \in 1..l : threads'[Len(threads) + k] = m + k
  /\ worker' = [i \in Workers |-> IF i \in (m + 1)..(m + l) THEN [worker[i] EXCEPT !.at = at] ELSE worker[i]]

(* Two sequences, one behind the other.                                        *)
LEMMA Joined ==
  ASSUME NEW S, NEW s \in Seq(S), NEW u \in Seq(S), NEW t, t = s \o u
  PROVE  /\ t \in Seq(S) /\ Len(t) = Len(s) + Len(u)
         /\ \A k \in 1..Len(s) : t[k] = s[k]
         /\ \A k \in 1..Len(u) : t[Len(s) + k] = u[k]
OBVIOUS

(* Adds does what Added says.                                                  *)
LEMMA AddsThreads ==
  ASSUME threads \in Seq(Workers), Numbered, NEW n \in Int, n <= Cardinality(Fresh), NEW at, Adds(n, at)
  PROVE  \E m \in 0..MaxThreads, l \in Nat : Added(n, at, m, l)
<1>1. PICK m \in 0..MaxThreads : \A i \in Workers : worker[i].at = "new" <=> i > m
  BY DEF Numbered
<1>2. Made = m /\ Cardinality(Fresh) = MaxThreads - m /\ MaxThreads \in Nat
  BY <1>1, MadeSoFar, ServerAssumption
<1> DEFINE l == IF n > 0 THEN n ELSE 0
           new == [k \in 1..n |-> m + k]
<1>3. l \in Nat /\ m + l <= MaxThreads /\ 1..n = 1..l /\ (m + 1)..(m + n) = (m + 1)..(m + l)
  BY <1>2
<1>4. new \in [1..l -> Workers] /\ \A k \in 1..l : new[k] = m + k
  <2>1. new = [k \in 1..l |-> m + k]
    BY <1>3
  <2>2. \A k \in 1..l : m + k \in Workers
    BY <1>2, <1>3 DEF Workers
  <2>3. QED
    BY <2>1, <2>2
<1>6. threads' = threads \o new
  BY <1>2 DEF Adds
<1>7. worker' = [i \in Workers |-> IF i \in (m + 1)..(m + l) THEN [worker[i] EXCEPT !.at = at] ELSE worker[i]]
  BY <1>2, <1>3 DEF Adds
<1> HIDE DEF new, l
<1>5. new \in Seq(Workers) /\ Len(new) = l
  BY <1>3, <1>4
<1>8. /\ threads' \in Seq(Workers) /\ Len(threads') = Len(threads) + l
      /\ \A k \in 1..Len(threads) : threads'[k] = threads[k]
      /\ \A k \in 1..l : threads'[Len(threads) + k] = m + k
  <2>1. PICK t : t = threads'
    OBVIOUS
  <2>2. /\ t \in Seq(Workers) /\ Len(t) = Len(threads) + Len(new)
        /\ \A k \in 1..Len(threads) : t[k] = threads[k]
        /\ \A k \in 1..Len(new) : t[Len(threads) + k] = new[k]
    BY <1>5, <1>6, <2>1, Joined
  <2>3. QED
    BY <1>4, <1>5, <2>1, <2>2
<1>9. Added(n, at, m, l)
  BY <1>1, <1>3, <1>7, <1>8 DEF Added, l
<1>10. QED
  BY <1>3, <1>9


(* What is left of the pool when the dead are removed, as code that walks a    *)
(* list it removes from leaves it, comes from it in its order; and all that    *)
(* live are left.                                                              *)
LEMMA CullsThreads ==
  ASSUME threads \in Seq(Workers), Culls
  PROVE  /\ threads' \in Seq(Workers) /\ Len(threads') <= Len(threads)
         /\ \A k \in DOMAIN threads' : \E j \in DOMAIN threads : threads'[k] = threads[j]
         /\ (\A j, k \in DOMAIN threads : threads[j] = threads[k] => j = k)
              => \A j, k \in DOMAIN threads' : threads'[j] = threads'[k] => j = k
         /\ \A k \in DOMAIN threads : worker[threads[k]].at # "dead" => \E j \in DOMAIN threads' : threads'[j] = threads[k]
<1> DEFINE n == Cardinality(Remaining)
<1>1. PICK order \in [1..n -> Remaining] :
           /\ \A j, k \in DOMAIN order : j < k => order[j] < order[k]
           /\ threads' = [k \in DOMAIN order |-> threads[order[k]]]
  BY DEF Culls
<1>2. DOMAIN threads = 1..Len(threads) /\ Len(threads) \in Nat
  OBVIOUS
<1>3. Remaining \in SUBSET (1..Len(threads))
  BY <1>2 DEF Remaining
<1>4. n \in Nat /\ n <= Len(threads) /\ IsFiniteSet(Remaining)
  <2>1. IsFiniteSet(1..Len(threads)) /\ Cardinality(1..Len(threads)) = Len(threads)
    BY <1>2, FirstTo
  <2>2. PICK S : S = 1..Len(threads)
    OBVIOUS
  <2>3. PICK R : R = Remaining
    OBVIOUS
  <2>4. IsFiniteSet(S) /\ R \in SUBSET S
    BY <1>3, <2>1, <2>2, <2>3
  <2>5. IsFiniteSet(R) /\ Cardinality(R) <= Cardinality(S)
    BY <2>4, FS_Subset
  <2>6. Cardinality(R) \in Nat
    BY <2>5, FS_CardinalityType
  <2>7. n = Cardinality(R) /\ Cardinality(S) = Len(threads)
    BY <2>1, <2>2, <2>3
  <2>8. QED
    BY <2>3, <2>5, <2>6, <2>7
<1> HIDE DEF n
<1>5. DOMAIN order = 1..n /\ \A k \in 1..n : order[k] \in 1..Len(threads)
  BY <1>1, <1>3
<1> PICK t : t = threads'
  OBVIOUS
<1>6. t = [k \in 1..n |-> threads[order[k]]]
  BY <1>1, <1>5
<1>7. \A k \in 1..n : t[k] = threads[order[k]] /\ threads[order[k]] \in Workers
  BY <1>5, <1>6
<1>8. t \in Seq(Workers) /\ Len(t) = n /\ DOMAIN t = 1..n
  BY <1>4, <1>6, <1>7
<1>9. ASSUME \A j, k \in DOMAIN threads : threads[j] = threads[k] => j = k,
             NEW j \in 1..n, NEW k \in 1..n, t[j] = t[k]
      PROVE  j = k
  <2>1. order[j] = order[k] /\ order[j] \in Nat
    BY <1>2, <1>5, <1>7, <1>9
  <2>2. ~(j < k) /\ ~(k < j)
    BY <1>1, <1>5, <2>1
  <2>3. QED
    BY <2>2
<1>10. ASSUME NEW k \in DOMAIN threads, worker[threads[k]].at # "dead" PROVE \E j \in DOMAIN t : t[j] = threads[k]
  <2>1. k \in Remaining
    <3>1. k \in k..k
      BY <1>2
    <3>2. k \notin Removed
      BY <1>2, <1>10 DEF Removed
    <3>3. QED
      BY <3>2 DEF Remaining
  <2>2. order \in Injection(1..n, Remaining)
    <3>1. ASSUME NEW i \in 1..n, NEW j \in 1..n, order[i] = order[j] PROVE i = j
      <4>1. order[i] \in Nat /\ order[j] \in Nat
        BY <1>2, <1>5
      <4>2. ~(i < j) /\ ~(j < i)
        BY <1>1, <1>5, <3>1, <4>1
      <4>3. QED
        BY <4>2
    <3>2. order \in [1..n -> Remaining]
      BY <1>1 DEF n
    <3>3. QED
      BY <3>1, <3>2 DEF Injection, IsInjective
  <2>3. Cardinality(1..n) = Cardinality(Remaining)
    BY <1>4, FirstTo DEF n
  <2>4. order \in Surjection(1..n, Remaining)
    BY <1>4, <2>2, <2>3, FS_Injection
  <2>5. PICK j \in 1..n : order[j] = k
    BY <2>1, <2>4 DEF Surjection
  <2>6. QED
    BY <1>7, <1>8, <2>5
<1>11. \A k \in DOMAIN t : \E j \in DOMAIN threads : t[k] = threads[j]
  BY <1>2, <1>5, <1>7, <1>8
<1>12. QED
  BY <1>4, <1>8, <1>9, <1>10, <1>11 DEF n

-----------------------------------------------------------------------------
(* The steps, one by one.                                                      *)
LEMMA StepCases ==
  ASSUME WsgiNext \/ UNCHANGED vars
  PROVE  \/ Start \/ Serve \/ Loop \/ Tick \/ Accept \/ AcceptReturns \/ Accepted \/ Put \/ Check
         \/ \E i \in Workers : Get(i) \/ Read(i) \/ Respond(i) \/ Close(i) \/ Interrupt(i)
         \/ \E x \in Stoppers : \/ CallStop(x) \/ StopCloses(x) \/ StopPutsPills(x) \/ StopPops(x) \/ StopJoins(x)
                                \/ StopTimesOut(x) \/ StopForces(x) \/ StopFails(x) \/ StopReturns(x)
         \/ \E amount \in Amounts : Grow(amount) \/ Shrink(amount)
         \/ \E c \in Conns : ClientStep(c)
         \/ UNCHANGED vars
BY DEF WsgiNext, ServerStep, WorkerStep, StopStep, Stoppers

(* A step that changes the record of one thread.                               *)
LEMMA WorkerMoves ==
  ASSUME WorkersOK, NEW i \in Workers, NEW r \in WorkerRecords, worker' = [worker EXCEPT ![i] = r],
         r.conn \in Conns <=> r.at \in {"read", "respond", "close"}
  PROVE  WorkersOK' /\ worker'[i] = r /\ \A j \in Workers \ {i} : worker'[j] = worker[j]
BY DEF WorkersOK

(* Making threads keeps the types of the threads.                              *)
LEMMA AddedOK ==
  ASSUME WorkersOK, NEW n, NEW at \in {"get", "dead"}, NEW m \in 0..MaxThreads, NEW l \in Nat, Added(n, at, m, l)
  PROVE  WorkersOK'
<1>1. worker' = [i \in Workers |-> IF i \in (m + 1)..(m + l) THEN [worker[i] EXCEPT !.at = at] ELSE worker[i]]
  BY DEF Added
<1>2. \A i \in Workers : i \in (m + 1)..(m + l) => worker[i].at = "new"
  BY DEF Added, Workers
<1>3. ASSUME NEW i \in Workers
      PROVE  worker'[i] \in WorkerRecords /\ (worker'[i].conn \in Conns <=> worker'[i].at \in {"read", "respond", "close"})
  <2>1. CASE i \in (m + 1)..(m + l)
    <3>1. worker'[i] = [worker[i] EXCEPT !.at = at] /\ worker[i] \in WorkerRecords /\ worker[i].conn \notin Conns
      BY <1>1, <1>2, <2>1 DEF WorkersOK
    <3>2. PICK w : w = worker[i]
      OBVIOUS
    <3>3. PICK v : v = worker'[i]
      OBVIOUS
    <3>4. v = [w EXCEPT !.at = at] /\ w \in WorkerRecords /\ w.conn \notin Conns
      BY <3>1, <3>2, <3>3
    <3>5. v \in WorkerRecords /\ v.conn \notin Conns /\ v.at = at
      BY <3>4 DEF WorkerRecords
    <3>6. QED
      BY <3>3, <3>5
  <2>2. CASE i \notin (m + 1)..(m + l)
    BY <1>1, <2>2 DEF WorkersOK
  <2>3. QED
    BY <2>1, <2>2
<1>4. QED
  BY <1>1, <1>3 DEF WorkersOK

(* start() makes MinSize threads; they live if none was left over.             *)
LEMMA StartAdds ==
  ASSUME PoolOK, Numbered, Start
  PROVE  \E m \in 0..MaxThreads, l \in Nat : Added(MinSize, IF threads = <<>> THEN "get" ELSE "dead", m, l)
<1>1. MinSize \in Int /\ MinSize <= Cardinality(Fresh) /\ threads \in Seq(Workers)
  <2>1. PICK m \in 0..MaxThreads : \A i \in Workers : worker[i].at = "new" <=> i > m
    BY DEF Numbered
  <2>2. Cardinality(Fresh) = MaxThreads - m /\ MaxThreads \in Nat
    BY <2>1, MadeSoFar, ServerAssumption
  <2>3. QED
    BY <2>2, ServerAssumption DEF Start, PoolOK
<1>2. QED
  BY <1>1, AddsThreads DEF Start

(* grow() makes no more threads than there may be.                             *)
LEMMA GrowAdds ==
  ASSUME PoolOK, Numbered, NEW amount \in Amounts, Grow(amount)
  PROVE  \E n \in Int, m \in 0..MaxThreads, l \in Nat :
           Added(n, "get", m, l) /\ (MaxSize # 0 => n <= MaxSize - Len(threads))
<1> DEFINE n == IF MaxSize = 0 THEN amount ELSE Smaller(amount, MaxSize - Len(threads))
<1>1. amount \in Int /\ amount <= Cardinality(Fresh) /\ threads \in Seq(Workers) /\ Cardinality(Fresh) \in Int
  <2>1. PICK m \in 0..MaxThreads : \A i \in Workers : worker[i].at = "new" <=> i > m
    BY DEF Numbered
  <2>2. Cardinality(Fresh) = MaxThreads - m /\ MaxThreads \in Nat
    BY <2>1, MadeSoFar, ServerAssumption
  <2>3. QED
    BY <2>2, ServerAssumption DEF Grow, PoolOK
<1>2. MaxSize \in Nat /\ Len(threads) \in Nat
  BY <1>1, ServerAssumption
<1>3. n \in Int /\ n <= Cardinality(Fresh) /\ (MaxSize # 0 => n <= MaxSize - Len(threads))
  BY <1>1, <1>2 DEF Smaller
<1>4. Adds(n, "get")
  BY DEF Grow
<1> HIDE DEF n
<1>5. PICK m \in 0..MaxThreads, l \in Nat : Added(n, "get", m, l)
  BY <1>1, <1>3, <1>4, AddsThreads
<1>6. QED
  BY <1>3, <1>5

(* The threads that remain in the list are finitely many, and so are the dead  *)
(* among them.                                                                 *)
StillDead == {k \in Remaining : worker[threads[k]].at = "dead"}
LEMMA RemainingFinite ==
  ASSUME PoolOK
  PROVE  /\ IsFiniteSet(Remaining) /\ Cardinality(Remaining) \in Nat /\ Remaining \subseteq DOMAIN threads
         /\ IsFiniteSet(StillDead) /\ Cardinality(StillDead) \in Nat /\ Unseen = Pills + Cardinality(StillDead)
<1>1. DOMAIN threads = 1..Len(threads) /\ Len(threads) \in Nat
  BY DEF PoolOK
<1>2. IsFiniteSet(1..Len(threads)) /\ Remaining \in SUBSET (1..Len(threads))
  BY <1>1, FirstTo DEF Remaining
<1>3. IsFiniteSet(Remaining) /\ StillDead \in SUBSET Remaining
  BY <1>2, FS_Subset DEF StillDead
<1>4. QED
  BY <1>1, <1>2, <1>3, FS_Subset, FS_CardinalityType DEF Unseen, StillDead

(* shrink() puts a number of shutdown requests.                                *)
LEMMA ShrinkPuts ==
  ASSUME PoolOK, NEW amount \in Amounts, Shrink(amount)
  PROVE  \E n \in Nat : /\ queue' = queue \o [k \in 1..n |-> Pill]
                        /\ \/ n = 0 /\ unseen' = unseen
                           \/ n <= Cardinality(Remaining) - MinSize /\ unseen' = Unseen
<1> DEFINE b == ShrinksBy(amount)
           n == IF b > 0 THEN b ELSE 0
<1>1. threads \in Seq(Workers) /\ Len(threads) \in Nat /\ Cardinality(Remaining) \in Nat
  BY RemainingFinite DEF PoolOK
<1>2. amount \in Nat /\ MinSize \in Nat
  BY ServerAssumption
<1>3. b \in Int /\ b <= Cardinality(Remaining) - MinSize
  BY <1>1, <1>2 DEF ShrinksBy, Smaller
<1>4. queue' = queue \o [k \in 1..n |-> Pill] /\ unseen' = IF b > 0 THEN Unseen ELSE unseen
  BY DEF Shrink, PutsPills
<1> HIDE DEF b
<1>5. n \in Nat /\ ((n = 0 /\ unseen' = unseen) \/ (n <= Cardinality(Remaining) - MinSize /\ unseen' = Unseen))
  BY <1>1, <1>2, <1>3, <1>4
<1> HIDE DEF n
<1>6. QED
  BY <1>4, <1>5

(* Requests put behind a queue of the pool.                                    *)
LEMMA QueuedPills ==
  ASSUME queue \in Seq(Conns \cup {Pill}), NEW n \in Nat, queue' = queue \o [k \in 1..n |-> Pill]
  PROVE  /\ queue' \in Seq(Conns \cup {Pill}) /\ Len(queue') = Len(queue) + n
         /\ \A k \in 1..Len(queue) : queue'[k] = queue[k]
         /\ Pills' = Pills + n
<1>1. PICK r : r = [k \in 1..n |-> Pill]
  OBVIOUS
<1>2. r \in Seq(Conns \cup {Pill}) /\ Len(r) = n /\ \A k \in 1..n : r[k] = Pill
  BY <1>1
<1>3. PICK p : p = queue'
  OBVIOUS
<1>4. p = queue \o r
  BY <1>1, <1>3
<1>5. /\ p \in Seq(Conns \cup {Pill}) /\ Len(p) = Len(queue) + n
      /\ \A k \in 1..Len(queue) : p[k] = queue[k]
      /\ \A k \in 1..n : p[Len(queue) + k] = Pill
  <2>0. PICK S : S = Conns \cup {Pill}
    OBVIOUS
  <2>1. /\ p \in Seq(S) /\ Len(p) = Len(queue) + Len(r)
        /\ \A k \in 1..Len(queue) : p[k] = queue[k]
        /\ \A k \in 1..Len(r) : p[Len(queue) + k] = r[k]
    <3>1. queue \in Seq(S) /\ r \in Seq(S)
      BY <1>2, <2>0
    <3>2. QED
      BY <1>4, <3>1, Joined
  <2>2. QED
    BY <1>2, <2>0, <2>1
<1>6. \A k \in (Len(queue) + 1)..(Len(queue) + n) : p[k] = Pill
  <2>1. Len(queue) \in Nat
    OBVIOUS
  <2>2. \A k \in (Len(queue) + 1)..(Len(queue) + n) : k - Len(queue) \in 1..n /\ k = Len(queue) + (k - Len(queue))
    BY <2>1
  <2>3. QED
    BY <1>5, <2>2
<1>7. Cardinality(Requests(p, Len(p))) = Cardinality(Requests(queue, Len(queue))) + n
  <2>1. Len(queue) \in Nat
    OBVIOUS
  <2>2. Cardinality(Requests(p, Len(queue) + n)) = Cardinality(Requests(queue, Len(queue))) + n
    BY <1>5, <1>6, <2>1, RequestsAdded
  <2>3. QED
    BY <1>5, <2>2
<1>8. Pills = Cardinality(Requests(queue, Len(queue)))
  BY PillsAreRequests
<1>9. Pills' = Cardinality(Requests(p, Len(p)))
  <2>1. DOMAIN p = 1..Len(p)
    BY <1>5
  <2>2. QED
    BY <1>3, <2>1 DEF Pills, Requests
<1>10. QED
  BY <1>3, <1>5, <1>7, <1>8, <1>9

(* What a worker is after it has taken something from the queue.               *)
LEMMA GetMoves ==
  ASSUME WorkersOK, PoolOK, NEW i \in Workers, Get(i)
  PROVE  /\ WorkersOK' /\ \A j \in Workers \ {i} : worker'[j] = worker[j]
         /\ worker[i].at = "get" /\ queue # <<>> /\ queue' = Tail(queue)
         /\ Head(queue) = Pill => worker'[i].at = "dead" /\ worker'[i].conn = None
         /\ Head(queue) # Pill => worker'[i].at = "read" /\ worker'[i].conn = Head(queue)
         /\ worker'[i].exits = worker[i].exits
<1>1. PICK h : h = Head(queue)
  OBVIOUS
<1>2. h \in Conns \cup {Pill}
  BY <1>1 DEF PoolOK, Get
<1>3. PICK w : w = worker[i]
  OBVIOUS
<1>4. w \in WorkerRecords
  BY <1>3 DEF WorkersOK
<1>5. PICK a, c : a = (IF h = Pill THEN "dead" ELSE "read") /\ c = (IF h = Pill THEN None ELSE h)
  OBVIOUS
<1>6. PICK v : v = [w EXCEPT !.at = a, !.conn = c]
  OBVIOUS
<1>7. worker' = [worker EXCEPT ![i] = v]
  BY <1>1, <1>3, <1>5, <1>6 DEF Get, WorkersOK
<1>8. v \in WorkerRecords /\ v.at = a /\ v.conn = c /\ v.exits = w.exits
  BY <1>2, <1>4, <1>5, <1>6 DEF WorkerRecords
<1>9. v.conn \in Conns <=> v.at \in {"read", "respond", "close"}
  BY <1>2, <1>5, <1>8, ServerAssumption
<1>10. WorkersOK' /\ worker'[i] = v /\ \A j \in Workers \ {i} : worker'[j] = worker[j]
  BY <1>7, <1>8, <1>9, WorkerMoves
<1>11. worker[i].at = "get" /\ queue # <<>> /\ queue' = Tail(queue)
  BY DEF Get
<1>12. QED
  BY <1>1, <1>3, <1>5, <1>8, <1>10, <1>11

(* What it is after its application has answered, or exited.                   *)
LEMMA RespondMoves ==
  ASSUME WorkersOK, NEW i \in Workers, Respond(i)
  PROVE  /\ WorkersOK' /\ \A j \in Workers \ {i} : worker'[j] = worker[j]
         /\ worker[i].at = "respond" /\ worker'[i].at \in {"read", "close"}
         /\ worker'[i].conn = worker[i].conn
         /\ worker'[i].exits => counts' = [counts EXCEPT !.stop = @ + 1] /\ past' = past \cup {"interrupt"}
         /\ ~worker'[i].exits => counts' = counts /\ past' = past
         /\ worker'[i].exits => counts.stop < MaxStops
<1>1. PICK next \in {"read", "close"}, exits \in BOOLEAN :
        /\ exits => counts.stop < MaxStops
        /\ worker' = [worker EXCEPT ![i].at = next, ![i].exits = exits]
        /\ counts' = IF exits THEN [counts EXCEPT !.stop = @ + 1] ELSE counts
        /\ past' = IF exits THEN past \cup {"interrupt"} ELSE past
  BY DEF Respond
<1>2. PICK w : w = worker[i]
  OBVIOUS
<1>3. w \in WorkerRecords /\ w.at = "respond" /\ w.conn \in Conns
  BY <1>2 DEF WorkersOK, Respond
<1>4. PICK v : v = [w EXCEPT !.at = next, !.exits = exits]
  OBVIOUS
<1>5. worker' = [worker EXCEPT ![i] = v]
  BY <1>1, <1>2, <1>4 DEF WorkersOK
<1>6. v \in WorkerRecords /\ v.at = next /\ v.conn = w.conn /\ v.exits = exits
  BY <1>1, <1>3, <1>4 DEF WorkerRecords
<1>7. v.conn \in Conns <=> v.at \in {"read", "respond", "close"}
  BY <1>3, <1>6
<1>8. WorkersOK' /\ worker'[i] = v /\ \A j \in Workers \ {i} : worker'[j] = worker[j]
  BY <1>5, <1>6, <1>7, WorkerMoves
<1>9. QED
  BY <1>1, <1>2, <1>3, <1>6, <1>8

(* What it is after it has closed its connection.                              *)
LEMMA CloseMoves ==
  ASSUME WorkersOK, NEW i \in Workers, Close(i)
  PROVE  /\ WorkersOK' /\ \A j \in Workers \ {i} : worker'[j] = worker[j]
         /\ worker[i].at = "close" /\ worker'[i].exits = worker[i].exits
         /\ worker'[i].at = IF worker[i].exits THEN "exit" ELSE "get"
<1>1. PICK w : w = worker[i]
  OBVIOUS
<1>2. w \in WorkerRecords /\ w.at = "close"
  BY <1>1 DEF WorkersOK, Close
<1>3. PICK a : a = IF w.exits THEN "exit" ELSE "get"
  OBVIOUS
<1>4. PICK v : v = [w EXCEPT !.at = a, !.conn = None]
  OBVIOUS
<1>5. worker' = [worker EXCEPT ![i] = v]
  BY <1>1, <1>3, <1>4 DEF Close, WorkersOK
<1>6. v \in WorkerRecords /\ v.at = a /\ v.conn = None /\ v.exits = w.exits
  BY <1>2, <1>3, <1>4 DEF WorkerRecords
<1>7. v.conn \in Conns <=> v.at \in {"read", "respond", "close"}
  BY <1>3, <1>6, ServerAssumption
<1>8. WorkersOK' /\ worker'[i] = v /\ \A j \in Workers \ {i} : worker'[j] = worker[j]
  BY <1>5, <1>6, <1>7, WorkerMoves
<1>9. QED
  BY <1>1, <1>2, <1>3, <1>6, <1>8

(* A thread that is popped from the pool was the last in it.                   *)
LEMMA FrontOf ==
  ASSUME threads \in Seq(Workers), threads # <<>>, NEW t, t = Front(threads)
  PROVE  /\ t \in Seq(Workers) /\ Len(t) = Len(threads) - 1 /\ Last(threads) = threads[Len(threads)]
         /\ \A k \in 1..Len(t) : t[k] = threads[k]
         /\ Len(threads) \in Nat \ {0} /\ DOMAIN threads = 1..Len(threads) /\ DOMAIN t = 1..Len(t)
<1>1. Len(threads) \in Nat \ {0} /\ DOMAIN threads = 1..Len(threads)
  OBVIOUS
<1>2. t = SubSeq(threads, 1, Len(threads) - 1) /\ Last(threads) = threads[Len(threads)]
  BY DEF Front, Last
<1>3. t = [k \in 1..(Len(threads) - 1) |-> threads[k]]
  BY <1>1, <1>2
<1>4. QED
  BY <1>1, <1>2, <1>3

(* What shrink() and start() do not know of is a number of threads.            *)
LEMMA UnseenStep ==
  ASSUME WsgiTypeOK, WsgiNext \/ UNCHANGED vars
  PROVE  UnseenOK'
<1>1. UnseenOK /\ PoolOK /\ Cardinality(Living) \in Nat /\ queue \in Seq(Conns \cup {Pill})
  BY LivingFinite DEF WsgiTypeOK, PoolOK
<1>2. Pills \in Nat
  <2>1. PICK S : S = Conns \cup {Pill}
    OBVIOUS
  <2>2. QED
    BY <1>1, <2>1, PillsAreRequests
<1>3. CASE Start
  <2>1. Spare \in Int
    BY <1>1, <1>2 DEF Spare
  <2>2. QED
    BY <1>3, <2>1 DEF Start, UnseenOK
<1>4. ASSUME NEW amount \in Amounts, Shrink(amount) PROVE UnseenOK'
  <2>1. unseen' = unseen \/ unseen' = Unseen
    BY <1>1, <1>4, ShrinkPuts
  <2>2. Unseen \in Nat
    BY <1>1, <1>2, RemainingFinite
  <2>3. QED
    BY <1>1, <2>1, <2>2 DEF UnseenOK
<1>5. CASE unseen' = unseen
  BY <1>1, <1>5 DEF UnseenOK
<1>6. QED
  BY <1>3, <1>4, <1>5, StepCases DEF Serve, Loop, Tick, Accept, AcceptReturns, Accepted, Put, Check, Get, Read, Respond,
     Close, Interrupt, CallStop, StopCloses, StopPutsPills, StopPops, StopJoins, StopTimesOut, StopForces, StopFails,
     StopReturns, Grow, ClientStep, vars

(* The types are kept by every step.                                           *)
LEMMA TypeStep ==
  ASSUME WsgiTypeOK, Numbered, WsgiNext \/ UNCHANGED vars
  PROVE  WsgiTypeOK'
<1>0. ServerOK /\ WorkersOK /\ StopsOK /\ ConnsOK /\ PoolOK /\ UnseenOK'
  BY UnseenStep DEF WsgiTypeOK
<1>1. CASE Start
  <2>1. ServerOK'
    BY <1>0, <1>1 DEF Start, Adds, ServerOK, Events, serverVars, poolVars
  <2>2. WorkersOK'
    BY <1>0, <1>1, StartAdds, AddedOK
  <2>3. StopsOK'
    BY <1>0, <1>1 DEF Start, Adds, StopsOK, StopRecords, Stoppers, serverVars, poolVars
  <2>4. ConnsOK'
    BY <1>0, <1>1 DEF Start, Adds, ConnsOK, ConnRecords, serverVars, poolVars
  <2>5. PoolOK'
    BY <1>0, <1>1, StartAdds DEF Start, Added, PoolOK
  <2>6. QED
    BY <1>0, <2>1, <2>2, <2>3, <2>4, <2>5 DEF WsgiTypeOK
<1>2. CASE Serve
  <2>1. ServerOK'
    BY <1>0, <1>2 DEF Serve, ServerOK, Events, serverVars, poolVars
  <2>2. WorkersOK'
    BY <1>0, <1>2 DEF Serve, WorkersOK, WorkerRecords, serverVars, poolVars
  <2>3. StopsOK'
    BY <1>0, <1>2 DEF Serve, StopsOK, StopRecords, Stoppers, serverVars, poolVars
  <2>4. ConnsOK'
    BY <1>0, <1>2 DEF Serve, ConnsOK, ConnRecords, serverVars, poolVars
  <2>5. PoolOK'
    BY <1>0, <1>2 DEF Serve, PoolOK, serverVars, poolVars
  <2>6. QED
    BY <1>0, <2>1, <2>2, <2>3, <2>4, <2>5 DEF WsgiTypeOK
<1>3. CASE Loop
  <2>1. ServerOK'
    BY <1>0, <1>3 DEF Loop, ServerOK, Events, serverVars, poolVars
  <2>2. WorkersOK'
    BY <1>0, <1>3 DEF Loop, WorkersOK, WorkerRecords, serverVars, poolVars
  <2>3. StopsOK'
    BY <1>0, <1>3 DEF Loop, StopsOK, StopRecords, Stoppers, serverVars, poolVars
  <2>4. ConnsOK'
    BY <1>0, <1>3 DEF Loop, ConnsOK, ConnRecords, serverVars, poolVars
  <2>5. PoolOK'
    BY <1>0, <1>3 DEF Loop, PoolOK, serverVars, poolVars
  <2>6. QED
    BY <1>0, <2>1, <2>2, <2>3, <2>4, <2>5 DEF WsgiTypeOK
<1>4. CASE Tick
  <2>1. ServerOK'
    BY <1>0, <1>4 DEF Tick, ServerOK, Events, serverVars, poolVars
  <2>2. WorkersOK'
    BY <1>0, <1>4 DEF Tick, WorkersOK, WorkerRecords, serverVars, poolVars
  <2>3. StopsOK'
    BY <1>0, <1>4 DEF Tick, StopsOK, StopRecords, Stoppers, serverVars, poolVars
  <2>4. ConnsOK'
    BY <1>0, <1>4 DEF Tick, ConnsOK, ConnRecords, serverVars, poolVars
  <2>5. PoolOK'
    BY <1>0, <1>4 DEF Tick, PoolOK, serverVars, poolVars
  <2>6. QED
    BY <1>0, <2>1, <2>2, <2>3, <2>4, <2>5 DEF WsgiTypeOK
<1>5. CASE Accept
  <2>1. ServerOK'
    BY <1>0, <1>5 DEF Accept, ServerOK, Events, serverVars, poolVars
  <2>2. WorkersOK'
    BY <1>0, <1>5 DEF Accept, WorkersOK, WorkerRecords, serverVars, poolVars
  <2>3. StopsOK'
    BY <1>0, <1>5 DEF Accept, StopsOK, StopRecords, Stoppers, serverVars, poolVars
  <2>4. ConnsOK'
    BY <1>0, <1>5 DEF Accept, ConnsOK, ConnRecords, serverVars, poolVars
  <2>5. PoolOK'
    BY <1>0, <1>5 DEF Accept, PoolOK, serverVars, poolVars
  <2>6. QED
    BY <1>0, <2>1, <2>2, <2>3, <2>4, <2>5 DEF WsgiTypeOK
<1>6. CASE AcceptReturns
  <2>1. ServerOK'
    BY <1>0, <1>6 DEF AcceptReturns, ServerOK, Events, serverVars, poolVars
  <2>2. WorkersOK'
    BY <1>0, <1>6 DEF AcceptReturns, WorkersOK, WorkerRecords, serverVars, poolVars
  <2>3. StopsOK'
    BY <1>0, <1>6 DEF AcceptReturns, StopsOK, StopRecords, Stoppers, serverVars, poolVars
  <2>4. ConnsOK'
    BY <1>0, <1>6 DEF AcceptReturns, ConnsOK, ConnRecords, serverVars, poolVars
  <2>5. PoolOK'
    BY <1>0, <1>6 DEF AcceptReturns, PoolOK, serverVars, poolVars
  <2>6. QED
    BY <1>0, <2>1, <2>2, <2>3, <2>4, <2>5 DEF WsgiTypeOK
<1>7. CASE Accepted
  <2>1. ServerOK'
    BY <1>0, <1>7 DEF Accepted, ServerOK, Events, serverVars, poolVars
  <2>2. WorkersOK'
    BY <1>0, <1>7 DEF Accepted, WorkersOK, WorkerRecords, serverVars, poolVars
  <2>3. StopsOK'
    BY <1>0, <1>7 DEF Accepted, StopsOK, StopRecords, Stoppers, serverVars, poolVars
  <2>4. ConnsOK'
    BY <1>0, <1>7 DEF Accepted, ConnsOK, ConnRecords, serverVars, poolVars
  <2>5. PoolOK'
    BY <1>0, <1>7 DEF Accepted, PoolOK, serverVars, poolVars
  <2>6. QED
    BY <1>0, <2>1, <2>2, <2>3, <2>4, <2>5 DEF WsgiTypeOK
<1>8. CASE Put
  <2>1. ServerOK'
    BY <1>0, <1>8 DEF Put, ServerOK, Events, serverVars, poolVars
  <2>2. WorkersOK'
    BY <1>0, <1>8 DEF Put, WorkersOK, WorkerRecords, serverVars, poolVars
  <2>3. StopsOK'
    BY <1>0, <1>8 DEF Put, StopsOK, StopRecords, Stoppers, serverVars, poolVars
  <2>4. ConnsOK'
    BY <1>0, <1>8 DEF Put, ConnsOK, ConnRecords, serverVars, poolVars
  <2>5. PoolOK'
    BY <1>0, <1>8 DEF Put, PoolOK, ServerOK, serverVars, poolVars
  <2>6. QED
    BY <1>0, <2>1, <2>2, <2>3, <2>4, <2>5 DEF WsgiTypeOK
<1>9. CASE Check
  <2>1. ServerOK'
    BY <1>0, <1>9 DEF Check, ServerOK, Events, serverVars, poolVars
  <2>2. WorkersOK'
    BY <1>0, <1>9 DEF Check, WorkersOK, WorkerRecords, serverVars, poolVars
  <2>3. StopsOK'
    BY <1>0, <1>9 DEF Check, StopsOK, StopRecords, Stoppers, serverVars, poolVars
  <2>4. ConnsOK'
    BY <1>0, <1>9 DEF Check, ConnsOK, ConnRecords, serverVars, poolVars
  <2>5. PoolOK'
    BY <1>0, <1>9 DEF Check, PoolOK, serverVars, poolVars
  <2>6. QED
    BY <1>0, <2>1, <2>2, <2>3, <2>4, <2>5 DEF WsgiTypeOK
<1>10. ASSUME NEW i \in Workers, Get(i) PROVE WsgiTypeOK'
  <2>1. ServerOK'
    BY <1>0, <1>10 DEF Get, ServerOK, Events, serverVars, poolVars
  <2>2. WorkersOK'
    BY <1>0, <1>10, GetMoves
  <2>3. StopsOK'
    BY <1>0, <1>10 DEF Get, StopsOK, StopRecords, Stoppers, serverVars, poolVars
  <2>4. ConnsOK'
    BY <1>0, <1>10 DEF Get, ConnsOK, ConnRecords, serverVars, poolVars
  <2>5. PoolOK'
    BY <1>0, <1>10 DEF Get, PoolOK, serverVars, poolVars
  <2>6. QED
    BY <1>0, <2>1, <2>2, <2>3, <2>4, <2>5 DEF WsgiTypeOK
<1>11. ASSUME NEW i \in Workers, Read(i) PROVE WsgiTypeOK'
  <2>1. ServerOK'
    BY <1>0, <1>11 DEF Read, Goes, ServerOK, Events, serverVars, poolVars
  <2>2. WorkersOK'
    BY <1>0, <1>11 DEF Read, Goes, WorkersOK, WorkerRecords, serverVars, poolVars
  <2>3. StopsOK'
    BY <1>0, <1>11 DEF Read, Goes, StopsOK, StopRecords, Stoppers, serverVars, poolVars
  <2>4. ConnsOK'
    BY <1>0, <1>11 DEF Read, Goes, ConnsOK, ConnRecords, serverVars, poolVars
  <2>5. PoolOK'
    BY <1>0, <1>11 DEF Read, Goes, PoolOK, serverVars, poolVars
  <2>6. QED
    BY <1>0, <2>1, <2>2, <2>3, <2>4, <2>5 DEF WsgiTypeOK
<1>12. ASSUME NEW i \in Workers, Respond(i) PROVE WsgiTypeOK'
  <2>1. ServerOK'
    BY <1>0, <1>12 DEF Respond, ServerOK, Events, serverVars, poolVars
  <2>2. WorkersOK'
    BY <1>0, <1>12, RespondMoves
  <2>3. StopsOK'
    BY <1>0, <1>12 DEF Respond, StopsOK, StopRecords, Stoppers, serverVars, poolVars
  <2>4. ConnsOK'
    BY <1>0, <1>12 DEF Respond, ConnsOK, ConnRecords, serverVars, poolVars
  <2>5. PoolOK'
    BY <1>0, <1>12 DEF Respond, PoolOK, serverVars, poolVars
  <2>6. QED
    BY <1>0, <2>1, <2>2, <2>3, <2>4, <2>5 DEF WsgiTypeOK
<1>13. ASSUME NEW i \in Workers, Close(i) PROVE WsgiTypeOK'
  <2>1. ServerOK'
    BY <1>0, <1>13 DEF Close, ServerOK, Events, serverVars, poolVars
  <2>2. WorkersOK'
    BY <1>0, <1>13, CloseMoves
  <2>3. StopsOK'
    BY <1>0, <1>13 DEF Close, StopsOK, StopRecords, Stoppers, serverVars, poolVars
  <2>4. ConnsOK'
    BY <1>0, <1>13 DEF Close, ConnsOK, ConnRecords, serverVars, poolVars
  <2>5. PoolOK'
    BY <1>0, <1>13 DEF Close, PoolOK, serverVars, poolVars
  <2>6. QED
    BY <1>0, <2>1, <2>2, <2>3, <2>4, <2>5 DEF WsgiTypeOK
<1>14. ASSUME NEW i \in Workers, Interrupt(i) PROVE WsgiTypeOK'
  <2>1. ServerOK'
    BY <1>0, <1>14 DEF Interrupt, Goes, BeginsStop, ServerOK, Events, serverVars, poolVars
  <2>2. WorkersOK'
    BY <1>0, <1>14 DEF Interrupt, Goes, BeginsStop, WorkersOK, WorkerRecords, serverVars, poolVars
  <2>3. StopsOK'
    BY <1>0, <1>14 DEF Interrupt, Goes, BeginsStop, StopsOK, StopRecords, Stoppers, serverVars, poolVars
  <2>4. ConnsOK'
    BY <1>0, <1>14 DEF Interrupt, Goes, BeginsStop, ConnsOK, ConnRecords, serverVars, poolVars
  <2>5. PoolOK'
    BY <1>0, <1>14 DEF Interrupt, Goes, BeginsStop, PoolOK, serverVars, poolVars
  <2>6. QED
    BY <1>0, <2>1, <2>2, <2>3, <2>4, <2>5 DEF WsgiTypeOK
<1>15. ASSUME NEW x \in Stoppers, CallStop(x) PROVE WsgiTypeOK'
  <2>1. ServerOK'
    <3>1. past' \subseteq Events
      BY <1>0, <1>15 DEF CallStop, ServerOK, Events
    <3>2. counts' \in [start : Nat, shrink : Nat, stop : Nat]
      BY <1>0, <1>15 DEF CallStop, ServerOK
    <3>3. QED
      BY <1>0, <1>15, <3>1, <3>2 DEF CallStop, BeginsStop, ServerOK, serverVars
  <2>2. WorkersOK'
    BY <1>0, <1>15 DEF CallStop, BeginsStop, WorkersOK, WorkerRecords, serverVars, poolVars
  <2>3. StopsOK'
    BY <1>0, <1>15 DEF CallStop, BeginsStop, StopsOK, StopRecords, Stoppers, serverVars, poolVars
  <2>4. ConnsOK'
    BY <1>0, <1>15 DEF CallStop, BeginsStop, ConnsOK, ConnRecords, serverVars, poolVars
  <2>5. PoolOK'
    BY <1>0, <1>15 DEF CallStop, BeginsStop, PoolOK, serverVars, poolVars
  <2>6. QED
    BY <1>0, <2>1, <2>2, <2>3, <2>4, <2>5 DEF WsgiTypeOK
<1>16. ASSUME NEW x \in Stoppers, StopCloses(x) PROVE WsgiTypeOK'
  <2>1. ServerOK'
    BY <1>0, <1>16 DEF StopCloses, StopGoes, ServerOK, Events, serverVars, poolVars
  <2>2. WorkersOK'
    BY <1>0, <1>16 DEF StopCloses, StopGoes, WorkersOK, WorkerRecords, serverVars, poolVars
  <2>3. StopsOK'
    BY <1>0, <1>16 DEF StopCloses, StopGoes, StopsOK, StopRecords, Stoppers, serverVars, poolVars
  <2>4. ConnsOK'
    BY <1>0, <1>16 DEF StopCloses, StopGoes, ConnsOK, ConnRecords, serverVars, poolVars
  <2>5. PoolOK'
    BY <1>0, <1>16 DEF StopCloses, StopGoes, PoolOK, serverVars, poolVars
  <2>6. QED
    BY <1>0, <2>1, <2>2, <2>3, <2>4, <2>5 DEF WsgiTypeOK
<1>17. ASSUME NEW x \in Stoppers, StopPutsPills(x) PROVE WsgiTypeOK'
  <2>1. ServerOK'
    BY <1>0, <1>17 DEF StopPutsPills, StopGoes, PutsPills, ServerOK, Events, serverVars, poolVars
  <2>2. WorkersOK'
    BY <1>0, <1>17 DEF StopPutsPills, StopGoes, PutsPills, WorkersOK, WorkerRecords, serverVars, poolVars
  <2>3. StopsOK'
    BY <1>0, <1>17 DEF StopPutsPills, StopGoes, PutsPills, StopsOK, StopRecords, Stoppers, serverVars, poolVars
  <2>4. ConnsOK'
    BY <1>0, <1>17 DEF StopPutsPills, StopGoes, PutsPills, ConnsOK, ConnRecords, serverVars, poolVars
  <2>5. PoolOK'
    BY <1>0, <1>17 DEF StopPutsPills, StopGoes, PutsPills, PoolOK, serverVars, poolVars
  <2>6. QED
    BY <1>0, <2>1, <2>2, <2>3, <2>4, <2>5 DEF WsgiTypeOK
<1>18. ASSUME NEW x \in Stoppers, StopPops(x) PROVE WsgiTypeOK'
  <2>1. ServerOK'
    BY <1>0, <1>18 DEF StopPops, ServerOK, Events, serverVars, poolVars
  <2>2. WorkersOK'
    BY <1>0, <1>18 DEF StopPops, WorkersOK, WorkerRecords, serverVars, poolVars
  <2>3. StopsOK'
    BY <1>0, <1>18 DEF StopPops, StopsOK, StopRecords, Stoppers, serverVars, poolVars
  <2>4. ConnsOK'
    BY <1>0, <1>18 DEF StopPops, ConnsOK, ConnRecords, serverVars, poolVars
  <2>5. PoolOK'
    BY <1>0, <1>18, FrontOf DEF StopPops, PoolOK, serverVars, poolVars
  <2>6. QED
    BY <1>0, <2>1, <2>2, <2>3, <2>4, <2>5 DEF WsgiTypeOK
<1>19. ASSUME NEW x \in Stoppers, StopJoins(x) PROVE WsgiTypeOK'
  <2>1. ServerOK'
    BY <1>0, <1>19 DEF StopJoins, Idle, ServerOK, Events, serverVars, poolVars
  <2>2. WorkersOK'
    BY <1>0, <1>19 DEF StopJoins, Idle, WorkersOK, WorkerRecords, serverVars, poolVars
  <2>3. StopsOK'
    BY <1>0, <1>19 DEF StopJoins, Idle, StopsOK, StopRecords, Stoppers, serverVars, poolVars
  <2>4. ConnsOK'
    BY <1>0, <1>19 DEF StopJoins, Idle, ConnsOK, ConnRecords, serverVars, poolVars
  <2>5. PoolOK'
    BY <1>0, <1>19 DEF StopJoins, Idle, PoolOK, serverVars, poolVars
  <2>6. QED
    BY <1>0, <2>1, <2>2, <2>3, <2>4, <2>5 DEF WsgiTypeOK
<1>20. ASSUME NEW x \in Stoppers, StopTimesOut(x) PROVE WsgiTypeOK'
  <2>1. ServerOK'
    BY <1>0, <1>20 DEF StopTimesOut, ServerOK, Events, serverVars, poolVars
  <2>2. WorkersOK'
    BY <1>0, <1>20 DEF StopTimesOut, WorkersOK, WorkerRecords, serverVars, poolVars
  <2>3. StopsOK'
    BY <1>0, <1>20 DEF StopTimesOut, StopsOK, StopRecords, Stoppers, serverVars, poolVars
  <2>4. ConnsOK'
    BY <1>0, <1>20 DEF StopTimesOut, ConnsOK, ConnRecords, serverVars, poolVars
  <2>5. PoolOK'
    BY <1>0, <1>20 DEF StopTimesOut, PoolOK, serverVars, poolVars
  <2>6. QED
    BY <1>0, <2>1, <2>2, <2>3, <2>4, <2>5 DEF WsgiTypeOK
<1>21. ASSUME NEW x \in Stoppers, StopForces(x) PROVE WsgiTypeOK'
  <2>1. ServerOK'
    BY <1>0, <1>21 DEF StopForces, ServerOK, Events, serverVars, poolVars
  <2>2. WorkersOK'
    BY <1>0, <1>21 DEF StopForces, WorkersOK, WorkerRecords, serverVars, poolVars
  <2>3. StopsOK'
    BY <1>0, <1>21 DEF StopForces, StopsOK, StopRecords, Stoppers, serverVars, poolVars
  <2>4. ConnsOK'
    BY <1>0, <1>21 DEF StopForces, ConnsOK, ConnRecords, serverVars, poolVars
  <2>5. PoolOK'
    BY <1>0, <1>21 DEF StopForces, PoolOK, serverVars, poolVars
  <2>6. QED
    BY <1>0, <2>1, <2>2, <2>3, <2>4, <2>5 DEF WsgiTypeOK
<1>22. ASSUME NEW x \in Stoppers, StopFails(x) PROVE WsgiTypeOK'
  <2>1. ServerOK'
    BY <1>0, <1>22 DEF StopFails, Idle, ServerOK, Events, serverVars, poolVars
  <2>2. WorkersOK'
    BY <1>0, <1>22 DEF StopFails, Idle, WorkersOK, WorkerRecords, serverVars, poolVars
  <2>3. StopsOK'
    BY <1>0, <1>22 DEF StopFails, Idle, StopsOK, StopRecords, Stoppers, serverVars, poolVars
  <2>4. ConnsOK'
    BY <1>0, <1>22 DEF StopFails, Idle, ConnsOK, ConnRecords, serverVars, poolVars
  <2>5. PoolOK'
    BY <1>0, <1>22 DEF StopFails, Idle, PoolOK, serverVars, poolVars
  <2>6. QED
    BY <1>0, <2>1, <2>2, <2>3, <2>4, <2>5 DEF WsgiTypeOK
<1>23. ASSUME NEW x \in Stoppers, StopReturns(x) PROVE WsgiTypeOK'
  <2>1. ServerOK'
    BY <1>0, <1>23 DEF StopReturns, Idle, Goes, ServerOK, Events, serverVars, poolVars
  <2>2. WorkersOK'
    BY <1>0, <1>23 DEF StopReturns, Idle, Goes, WorkersOK, WorkerRecords, serverVars, poolVars
  <2>3. StopsOK'
    BY <1>0, <1>23 DEF StopReturns, Idle, Goes, StopsOK, StopRecords, Stoppers, serverVars, poolVars
  <2>4. ConnsOK'
    BY <1>0, <1>23 DEF StopReturns, Idle, Goes, ConnsOK, ConnRecords, serverVars, poolVars
  <2>5. PoolOK'
    BY <1>0, <1>23 DEF StopReturns, Idle, Goes, PoolOK, serverVars, poolVars
  <2>6. QED
    BY <1>0, <2>1, <2>2, <2>3, <2>4, <2>5 DEF WsgiTypeOK
<1>24. ASSUME NEW amount \in Amounts, Grow(amount) PROVE WsgiTypeOK'
  <2>1. ServerOK'
    BY <1>0, <1>24 DEF Grow, Adds, ServerOK, Events, serverVars, poolVars
  <2>2. WorkersOK'
    BY <1>0, <1>24, GrowAdds, AddedOK
  <2>3. StopsOK'
    BY <1>0, <1>24 DEF Grow, Adds, StopsOK, StopRecords, Stoppers, serverVars, poolVars
  <2>4. ConnsOK'
    BY <1>0, <1>24 DEF Grow, Adds, ConnsOK, ConnRecords, serverVars, poolVars
  <2>5. PoolOK'
    BY <1>0, <1>24, GrowAdds DEF Grow, Added, PoolOK
  <2>6. QED
    BY <1>0, <2>1, <2>2, <2>3, <2>4, <2>5 DEF WsgiTypeOK
<1>25. ASSUME NEW amount \in Amounts, Shrink(amount) PROVE WsgiTypeOK'
  <2>1. ServerOK'
    <3>1. /\ counts' = [counts EXCEPT !.shrink = @ + 1] /\ past' = past \cup {"shrink"}
          /\ UNCHANGED <<server, taken, ready, socket, interrupt, owed>> /\ counts.shrink < MaxShrinks
      BY <1>25 DEF Shrink, serverVars
    <3>2. QED
      BY <1>0, <3>1 DEF ServerOK, Events
  <2>2. WorkersOK'
    BY <1>0, <1>25 DEF Shrink, PutsPills, WorkersOK, WorkerRecords, serverVars, poolVars
  <2>3. StopsOK'
    BY <1>0, <1>25 DEF Shrink, PutsPills, StopsOK, StopRecords, Stoppers, serverVars, poolVars
  <2>4. ConnsOK'
    BY <1>0, <1>25 DEF Shrink, PutsPills, ConnsOK, ConnRecords, serverVars, poolVars
  <2>5. PoolOK'
    BY <1>0, <1>25, ShrinkPuts, QueuedPills, CullsThreads DEF Shrink, PoolOK
  <2>6. QED
    BY <1>0, <2>1, <2>2, <2>3, <2>4, <2>5 DEF WsgiTypeOK
<1>26. ASSUME NEW c \in Conns, ClientStep(c) PROVE WsgiTypeOK'
  <2>1. ServerOK'
    BY <1>0, <1>26 DEF ClientStep, ServerOK, Events, serverVars, poolVars
  <2>2. WorkersOK'
    BY <1>0, <1>26 DEF ClientStep, WorkersOK, WorkerRecords, serverVars, poolVars
  <2>3. StopsOK'
    BY <1>0, <1>26 DEF ClientStep, StopsOK, StopRecords, Stoppers, serverVars, poolVars
  <2>4. ConnsOK'
    <3>1. CASE conn' = [conn EXCEPT ![c].at = "backlog"]
      BY <1>0, <3>1 DEF ConnsOK, ConnRecords
    <3>2. CASE conn' = [conn EXCEPT ![c].asks = TRUE, ![c].left = @ - 1]
      BY <1>0, <3>2 DEF ConnsOK, ConnRecords
    <3>3. CASE conn' = [conn EXCEPT ![c].gone = TRUE]
      BY <1>0, <3>3 DEF ConnsOK, ConnRecords
    <3>4. QED
      BY <1>26, <3>1, <3>2, <3>3 DEF ClientStep
  <2>5. PoolOK'
    BY <1>0, <1>26 DEF ClientStep, PoolOK, serverVars, poolVars
  <2>6. QED
    BY <1>0, <2>1, <2>2, <2>3, <2>4, <2>5 DEF WsgiTypeOK
<1>27. CASE UNCHANGED vars
  <2>1. ServerOK'
    BY <1>0, <1>27 DEF vars, ServerOK, Events, serverVars, poolVars
  <2>2. WorkersOK'
    BY <1>0, <1>27 DEF vars, WorkersOK, WorkerRecords, serverVars, poolVars
  <2>3. StopsOK'
    BY <1>0, <1>27 DEF vars, StopsOK, StopRecords, Stoppers, serverVars, poolVars
  <2>4. ConnsOK'
    BY <1>0, <1>27 DEF vars, ConnsOK, ConnRecords, serverVars, poolVars
  <2>5. PoolOK'
    BY <1>0, <1>27 DEF vars, PoolOK, serverVars, poolVars
  <2>6. QED
    BY <1>0, <2>1, <2>2, <2>3, <2>4, <2>5 DEF WsgiTypeOK
<1>28. QED
  BY <1>1, <1>2, <1>3, <1>4, <1>5, <1>6, <1>7, <1>8, <1>9, <1>10, <1>11, <1>12, <1>13, <1>14, <1>15, <1>16, <1>17, <1>18, <1>19, <1>20, <1>21, <1>22, <1>23, <1>24, <1>25, <1>26, <1>27, StepCases


(* Threads that are made come last and are new.                                *)
LEMMA AddedNumbered ==
  ASSUME PoolOK, Numbered, WorkersOK, NEW n, NEW at \in {"get", "dead"}, NEW m \in 0..MaxThreads, NEW l \in Nat, Added(n, at, m, l)
  PROVE  Numbered'
<1>1. MaxThreads \in Nat /\ Len(threads) \in Nat /\ m + l \in 0..MaxThreads
  <2>1. MaxThreads \in Nat
    BY ServerAssumption
  <2>2. Len(threads) \in Nat
    BY DEF PoolOK
  <2>3. m + l <= MaxThreads
    BY DEF Added
  <2>4. QED
    BY <2>1, <2>2, <2>3
<1>2. DOMAIN threads = 1..Len(threads) /\ DOMAIN threads' = 1..(Len(threads) + l)
  BY DEF PoolOK, Added
<1>3. \A i \in Workers : worker'[i].at = "new" <=> i > m + l
  <2> SUFFICES ASSUME NEW i \in Workers PROVE worker'[i].at = "new" <=> i > m + l
    OBVIOUS
  <2>1. CASE i \in (m + 1)..(m + l)
    <3>1. worker'[i] = [worker[i] EXCEPT !.at = at] /\ worker[i] \in WorkerRecords
      BY <2>1 DEF Added, WorkersOK
    <3>2. worker'[i].at = at
      BY <3>1 DEF WorkerRecords
    <3>3. QED
      BY <2>1, <3>2
  <2>2. CASE i \notin (m + 1)..(m + l)
    <3>1. worker'[i] = worker[i] /\ (worker[i].at = "new" <=> i > m) /\ i \in Nat
      BY <2>2 DEF Added, Workers
    <3>2. QED
      BY <2>2, <3>1
  <2>3. QED
    BY <2>1, <2>2
<1>4. \A k \in 1..Len(threads) : threads'[k] = threads[k] /\ threads[k] \in 1..m
  <2>1. \A k \in 1..Len(threads) : threads[k] \in Workers /\ worker[threads[k]].at # "new"
    BY <1>2 DEF Numbered, PoolOK
  <2>2. \A k \in 1..Len(threads) : ~(threads[k] > m) /\ threads[k] \in 1..MaxThreads
    BY <2>1 DEF Added, Workers
  <2>3. QED
    BY <1>1, <2>2 DEF Added
<1>5. \A k \in (Len(threads) + 1)..(Len(threads) + l) : threads'[k] = m + (k - Len(threads))
  <2>1. \A k \in (Len(threads) + 1)..(Len(threads) + l) : k - Len(threads) \in 1..l /\ k = Len(threads) + (k - Len(threads))
    BY <1>1
  <2>2. QED
    BY <2>1 DEF Added
<1>6. \A k \in 1..(Len(threads) + l) : k \in 1..Len(threads) \/ k \in (Len(threads) + 1)..(Len(threads) + l)
  BY <1>1
<1>7. \A k \in DOMAIN threads' : threads'[k] \in 1..(m + l)
  BY <1>1, <1>2, <1>4, <1>5, <1>6
<1>8. \A k \in DOMAIN threads' : worker'[threads'[k]].at # "new"
  <2>1. \A k \in DOMAIN threads' : threads'[k] \in Workers /\ ~(threads'[k] > m + l)
    BY <1>1, <1>7 DEF Workers
  <2>2. QED
    BY <1>3, <2>1
<1>9. \A j, k \in DOMAIN threads' : threads'[j] = threads'[k] => j = k
  <2> SUFFICES ASSUME NEW j \in DOMAIN threads', NEW k \in DOMAIN threads', threads'[j] = threads'[k] PROVE j = k
    OBVIOUS
  <2>1. CASE j \in 1..Len(threads) /\ k \in 1..Len(threads)
    BY <1>2, <1>4, <2>1 DEF Numbered
  <2>2. CASE ~(j \in 1..Len(threads)) /\ ~(k \in 1..Len(threads))
    BY <1>1, <1>2, <1>5, <1>6, <2>2
  <2>3. CASE (j \in 1..Len(threads)) # (k \in 1..Len(threads))
    BY <1>1, <1>2, <1>4, <1>5, <1>6, <2>3
  <2>4. QED
    BY <2>1, <2>2, <2>3
<1>10. QED
  BY <1>1, <1>3, <1>8, <1>9 DEF Numbered

(* A thread is never unmade.                                                   *)
LEMMA MadeStays ==
  ASSUME WorkersOK, NEW i \in Workers,
         \/ Get(i) \/ Read(i) \/ Respond(i) \/ Close(i) \/ Interrupt(i)
  PROVE  \A j \in Workers : worker'[j].at = "new" <=> worker[j].at = "new"
<1>1. CASE Get(i)
  BY <1>1 DEF Get, WorkersOK, WorkerRecords
<1>2. CASE Read(i)
  BY <1>2 DEF Read, Goes, WorkersOK, WorkerRecords
<1>3. CASE Respond(i)
  BY <1>3, RespondMoves
<1>4. CASE Close(i)
  BY <1>4, CloseMoves
<1>5. CASE Interrupt(i)
  BY <1>5 DEF Interrupt, Goes, WorkersOK, WorkerRecords
<1>6. QED
  BY <1>1, <1>2, <1>3, <1>4, <1>5

(* Threads keep their numbers and their one place in the pool.                 *)
LEMMA NumberedStep ==
  ASSUME WsgiTypeOK, Numbered, WsgiNext \/ UNCHANGED vars
  PROVE  Numbered'
<1>0. ServerOK /\ WorkersOK /\ StopsOK /\ PoolOK
  BY DEF WsgiTypeOK
<1>00. ASSUME threads' = threads, \A i \in Workers : worker'[i].at = "new" <=> worker[i].at = "new"
       PROVE  Numbered'
  <2>1. \A k \in DOMAIN threads : threads[k] \in Workers
    BY <1>0 DEF PoolOK
  <2>2. QED
    BY <1>00, <2>1 DEF Numbered
<1>1. CASE Start
  BY <1>0, <1>1, StartAdds, AddedNumbered
<1>2. CASE Serve
  BY <1>00, <1>2 DEF Serve, poolVars
<1>3. CASE Loop
  BY <1>00, <1>3 DEF Loop, poolVars
<1>4. CASE Tick
  BY <1>00, <1>4 DEF Tick, poolVars
<1>5. CASE Accept
  BY <1>00, <1>5 DEF Accept, poolVars
<1>6. CASE AcceptReturns
  BY <1>00, <1>6 DEF AcceptReturns, poolVars
<1>7. CASE Accepted
  BY <1>00, <1>7 DEF Accepted, poolVars
<1>8. CASE Put
  BY <1>00, <1>8 DEF Put, poolVars
<1>9. CASE Check
  BY <1>00, <1>9 DEF Check, poolVars
<1>10. ASSUME NEW i \in Workers, Get(i) PROVE Numbered'
  BY <1>0, <1>00, <1>10, MadeStays DEF Get, poolVars
<1>11. ASSUME NEW i \in Workers, Read(i) PROVE Numbered'
  BY <1>0, <1>00, <1>11, MadeStays DEF Read, poolVars
<1>12. ASSUME NEW i \in Workers, Respond(i) PROVE Numbered'
  BY <1>0, <1>00, <1>12, MadeStays DEF Respond, poolVars
<1>13. ASSUME NEW i \in Workers, Close(i) PROVE Numbered'
  BY <1>0, <1>00, <1>13, MadeStays DEF Close, poolVars
<1>14. ASSUME NEW i \in Workers, Interrupt(i) PROVE Numbered'
  BY <1>0, <1>00, <1>14, MadeStays DEF Interrupt, poolVars
<1>15. ASSUME NEW x \in Stoppers, CallStop(x) PROVE Numbered'
  BY <1>00, <1>15 DEF CallStop, poolVars
<1>16. ASSUME NEW x \in Stoppers, StopCloses(x) PROVE Numbered'
  BY <1>00, <1>16 DEF StopCloses, poolVars
<1>17. ASSUME NEW x \in Stoppers, StopPutsPills(x) PROVE Numbered'
  BY <1>00, <1>17 DEF StopPutsPills, poolVars
<1>18. ASSUME NEW x \in Stoppers, StopPops(x) PROVE Numbered'
  <2>1. threads # <<>> /\ threads' = Front(threads) /\ worker' = worker
    BY <1>18 DEF StopPops
  <2>2. /\ DOMAIN threads' \subseteq DOMAIN threads /\ \A k \in DOMAIN threads' : threads'[k] = threads[k]
    BY <1>0, <2>1, FrontOf DEF PoolOK
  <2>3. QED
    BY <2>1, <2>2 DEF Numbered
<1>19. ASSUME NEW x \in Stoppers, StopJoins(x) PROVE Numbered'
  BY <1>00, <1>19 DEF StopJoins, poolVars
<1>20. ASSUME NEW x \in Stoppers, StopTimesOut(x) PROVE Numbered'
  BY <1>00, <1>20 DEF StopTimesOut, poolVars
<1>21. ASSUME NEW x \in Stoppers, StopForces(x) PROVE Numbered'
  BY <1>00, <1>21 DEF StopForces, poolVars
<1>22. ASSUME NEW x \in Stoppers, StopFails(x) PROVE Numbered'
  BY <1>0, <1>00, <1>22 DEF StopFails, Goes, WorkersOK, WorkerRecords
<1>23. ASSUME NEW x \in Stoppers, StopReturns(x) PROVE Numbered'
  BY <1>0, <1>00, <1>23 DEF StopReturns, Goes, WorkersOK, WorkerRecords
<1>24. ASSUME NEW amount \in Amounts, Grow(amount) PROVE Numbered'
  BY <1>0, <1>24, GrowAdds, AddedNumbered
<1>25. ASSUME NEW amount \in Amounts, Shrink(amount) PROVE Numbered'
  <2>1. Culls /\ worker' = worker
    BY <1>25 DEF Shrink
  <2>2. \A k \in DOMAIN threads' : worker'[threads'[k]].at # "new"
    BY <1>0, <2>1, CullsThreads DEF PoolOK, Numbered
  <2>3. \A j, k \in DOMAIN threads' : threads'[j] = threads'[k] => j = k
    BY <1>0, <2>1, CullsThreads DEF PoolOK, Numbered
  <2>4. QED
    BY <2>1, <2>2, <2>3 DEF Numbered
<1>26. ASSUME NEW c \in Conns, ClientStep(c) PROVE Numbered'
  BY <1>00, <1>26 DEF ClientStep, poolVars
<1>27. CASE UNCHANGED vars
  BY <1>00, <1>27 DEF vars, poolVars
<1>28. QED
  BY <1>1, <1>2, <1>3, <1>4, <1>5, <1>6, <1>7, <1>8, <1>9, <1>10, <1>11, <1>12, <1>13, <1>14, <1>15, <1>16, <1>17, <1>18, <1>19, <1>20, <1>21, <1>22, <1>23, <1>24, <1>25, <1>26, <1>27, StepCases


(* grow() is called between a stop and the next start: ready is set by the     *)
(* thread in start(), also behind a stop() that came before it.                *)
GrowsLate == ~socket /\ \E amount \in Amounts : Grow(amount)

(* Stops, what was called and what has happened stay in order.                 *)
LEMMA StopsInOrderStep ==
  ASSUME WsgiTypeOK, Numbered, StopsInOrder, WsgiNext \/ UNCHANGED vars
  PROVE  StopsInOrder'
<1>0. /\ WorkersOK /\ StopsOK /\ ServerOK /\ PoolOK /\ Control \in Stoppers /\ Workers \subseteq Stoppers
      /\ MaxStops \in Nat /\ Control \notin Workers
      /\ WorkersOK' /\ StopsOK' /\ ServerOK' /\ PoolOK'
  BY TypeStep, ServerAssumption DEF WsgiTypeOK, Stoppers, Control, Workers
<1>1. CASE Start
  BY <1>0, <1>1 DEF Start, Adds, StopsInOrder, Alone, Outside, Stopping, WorkersOK, StopsOK, ServerOK, WorkerRecords, StopRecords, serverVars, poolVars
<1>2. CASE Serve
  BY <1>0, <1>2 DEF Serve, StopsInOrder, Alone, Outside, Stopping, WorkersOK, StopsOK, ServerOK, WorkerRecords, StopRecords, serverVars, poolVars
<1>3. CASE Loop
  BY <1>0, <1>3 DEF Loop, StopsInOrder, Alone, Outside, Stopping, WorkersOK, StopsOK, ServerOK, WorkerRecords, StopRecords, serverVars, poolVars
<1>4. CASE Tick
  BY <1>0, <1>4 DEF Tick, StopsInOrder, Alone, Outside, Stopping, WorkersOK, StopsOK, ServerOK, WorkerRecords, StopRecords, serverVars, poolVars
<1>5. CASE Accept
  BY <1>0, <1>5 DEF Accept, StopsInOrder, Alone, Outside, Stopping, WorkersOK, StopsOK, ServerOK, WorkerRecords, StopRecords, serverVars, poolVars
<1>6. CASE AcceptReturns
  BY <1>0, <1>6 DEF AcceptReturns, StopsInOrder, Alone, Outside, Stopping, WorkersOK, StopsOK, ServerOK, WorkerRecords, StopRecords, serverVars, poolVars
<1>7. CASE Accepted
  BY <1>0, <1>7 DEF Accepted, StopsInOrder, Alone, Outside, Stopping, WorkersOK, StopsOK, ServerOK, WorkerRecords, StopRecords, serverVars, poolVars
<1>8. CASE Put
  BY <1>0, <1>8 DEF Put, StopsInOrder, Alone, Outside, Stopping, WorkersOK, StopsOK, ServerOK, WorkerRecords, StopRecords, serverVars, poolVars
<1>9. CASE Check
  BY <1>0, <1>9 DEF Check, StopsInOrder, Alone, Outside, Stopping, WorkersOK, StopsOK, ServerOK, WorkerRecords, StopRecords, serverVars, poolVars
<1>10. ASSUME NEW i \in Workers, Get(i) PROVE StopsInOrder'
  BY <1>0, <1>10 DEF Get, StopsInOrder, Alone, Outside, Stopping, WorkersOK, StopsOK, ServerOK, WorkerRecords, StopRecords, serverVars, poolVars
<1>11. ASSUME NEW i \in Workers, Read(i) PROVE StopsInOrder'
  <2>1. (\A x \in Stoppers : Outside # "no" \/ Stopping(x) => counts.stop >= 1)'
    BY <1>0, <1>11 DEF Read, Goes, StopsInOrder, Alone, Outside, Stopping, WorkersOK, StopsOK, ServerOK, WorkerRecords, StopRecords, serverVars, poolVars
  <2>2. (\A x \in Stoppers : stop[x].at \notin {"no", "close"} => ~socket)'
    BY <1>0, <1>11 DEF Read, Goes, StopsInOrder, Alone, Outside, Stopping, WorkersOK, StopsOK, ServerOK, WorkerRecords, StopRecords, serverVars, poolVars
  <2>3. (\A j \in Workers : Stopping(j) \/ worker[j].exits \/ worker[j].at \in {"exit", "interrupt"} => ~Alone)'
    BY <1>0, <1>11 DEF Read, Goes, StopsInOrder, Alone, Outside, Stopping, WorkersOK, StopsOK, ServerOK, WorkerRecords, StopRecords, serverVars, poolVars
  <2>4. (Alone => interrupt = "no")'
    BY <1>0, <1>11 DEF Read, Goes, StopsInOrder, Alone, Outside, Stopping, WorkersOK, StopsOK, ServerOK, WorkerRecords, StopRecords, serverVars, poolVars
  <2>5. (counts.stop <= MaxStops)'
    BY <1>0, <1>11 DEF Read, Goes, StopsInOrder, Alone, Outside, Stopping, WorkersOK, StopsOK, ServerOK, WorkerRecords, StopRecords, serverVars, poolVars
  <2>6. (~Alone => counts.stop >= 1 /\ (Stopping(Control) => counts.stop >= 2))'
    BY <1>0, <1>11 DEF Read, Goes, StopsInOrder, Alone, Outside, Stopping, WorkersOK, StopsOK, ServerOK, WorkerRecords, StopRecords, serverVars, poolVars
  <2>7. QED
    BY <2>1, <2>2, <2>3, <2>4, <2>5, <2>6 DEF StopsInOrder
<1>12. ASSUME NEW i \in Workers, Respond(i) PROVE StopsInOrder'
  BY <1>0, <1>12 DEF Respond, StopsInOrder, Alone, Outside, Stopping, WorkersOK, StopsOK, ServerOK, WorkerRecords, StopRecords, serverVars, poolVars
<1>13. ASSUME NEW i \in Workers, Close(i) PROVE StopsInOrder'
  BY <1>0, <1>13 DEF Close, StopsInOrder, Alone, Outside, Stopping, WorkersOK, StopsOK, ServerOK, WorkerRecords, StopRecords, serverVars, poolVars
<1>14. ASSUME NEW i \in Workers, Interrupt(i) PROVE StopsInOrder'
  BY <1>0, <1>14 DEF Interrupt, Goes, BeginsStop, StopsInOrder, Alone, Outside, Stopping, WorkersOK, StopsOK, ServerOK, WorkerRecords, StopRecords, serverVars, poolVars
<1>15. ASSUME NEW x \in Stoppers, CallStop(x) PROVE StopsInOrder'
  <2>1. (\A y \in Stoppers : Outside # "no" \/ Stopping(y) => counts.stop >= 1)'
    BY <1>0, <1>15 DEF CallStop, BeginsStop, StopsInOrder, Alone, Outside, Stopping, WorkersOK, StopsOK, ServerOK, WorkerRecords, StopRecords, serverVars, poolVars
  <2>2. (\A y \in Stoppers : stop[y].at \notin {"no", "close"} => ~socket)'
    BY <1>0, <1>15 DEF CallStop, BeginsStop, StopsInOrder, Alone, Outside, Stopping, WorkersOK, StopsOK, ServerOK, WorkerRecords, StopRecords, serverVars, poolVars
  <2>3. (\A i \in Workers : Stopping(i) \/ worker[i].exits \/ worker[i].at \in {"exit", "interrupt"} => ~Alone)'
    <3>1. CASE x = Control
      BY <1>0, <1>15, <3>1 DEF CallStop, BeginsStop, StopsInOrder, Alone, Stopping, StopsOK, poolVars
    <3>2. CASE x # Control
      <4>1. "request" \in past'
        BY <1>15, <3>2 DEF CallStop
      <4>2. QED
        BY <4>1 DEF Alone
    <3>3. QED
      BY <3>1, <3>2
  <2>4. (Alone => interrupt = "no")'
    BY <1>0, <1>15 DEF CallStop, BeginsStop, StopsInOrder, Alone, Outside, Stopping, WorkersOK, StopsOK, ServerOK, WorkerRecords, StopRecords, serverVars, poolVars
  <2>5. (counts.stop <= MaxStops)'
    BY <1>0, <1>15 DEF CallStop, BeginsStop, StopsInOrder, Alone, Outside, Stopping, WorkersOK, StopsOK, ServerOK, WorkerRecords, StopRecords, serverVars, poolVars
  <2>6. (~Alone => counts.stop >= 1 /\ (Stopping(Control) => counts.stop >= 2))'
    BY <1>0, <1>15 DEF CallStop, BeginsStop, StopsInOrder, Alone, Outside, Stopping, WorkersOK, StopsOK, ServerOK, WorkerRecords, StopRecords, serverVars, poolVars
  <2>7. QED
    BY <2>1, <2>2, <2>3, <2>4, <2>5, <2>6 DEF StopsInOrder
<1>16. ASSUME NEW x \in Stoppers, StopCloses(x) PROVE StopsInOrder'
  BY <1>0, <1>16 DEF StopCloses, StopGoes, StopsInOrder, Alone, Outside, Stopping, WorkersOK, StopsOK, ServerOK, WorkerRecords, StopRecords, serverVars, poolVars
<1>17. ASSUME NEW x \in Stoppers, StopPutsPills(x) PROVE StopsInOrder'
  BY <1>0, <1>17 DEF StopPutsPills, StopGoes, PutsPills, StopsInOrder, Alone, Outside, Stopping, WorkersOK, StopsOK, ServerOK, WorkerRecords, StopRecords, serverVars, poolVars
<1>18. ASSUME NEW x \in Stoppers, StopPops(x) PROVE StopsInOrder'
  BY <1>0, <1>18 DEF StopPops, StopsInOrder, Alone, Outside, Stopping, WorkersOK, StopsOK, ServerOK, WorkerRecords, StopRecords, serverVars, poolVars
<1>19. ASSUME NEW x \in Stoppers, StopJoins(x) PROVE StopsInOrder'
  BY <1>0, <1>19 DEF StopJoins, Idle, StopsInOrder, Alone, Outside, Stopping, WorkersOK, StopsOK, ServerOK, WorkerRecords, StopRecords, serverVars, poolVars
<1>20. ASSUME NEW x \in Stoppers, StopTimesOut(x) PROVE StopsInOrder'
  BY <1>0, <1>20 DEF StopTimesOut, StopsInOrder, Alone, Outside, Stopping, WorkersOK, StopsOK, ServerOK, WorkerRecords, StopRecords, serverVars, poolVars
<1>21. ASSUME NEW x \in Stoppers, StopForces(x) PROVE StopsInOrder'
  BY <1>0, <1>21 DEF StopForces, StopsInOrder, Alone, Outside, Stopping, WorkersOK, StopsOK, ServerOK, WorkerRecords, StopRecords, serverVars, poolVars
<1>22. ASSUME NEW x \in Stoppers, StopFails(x) PROVE StopsInOrder'
  <2>1. (\A y \in Stoppers : Outside # "no" \/ Stopping(y) => counts.stop >= 1)'
    BY <1>0, <1>22 DEF StopFails, Idle, StopsInOrder, Alone, Outside, Stopping, WorkersOK, StopsOK, ServerOK, WorkerRecords, StopRecords, serverVars, poolVars
  <2>2. (\A y \in Stoppers : stop[y].at \notin {"no", "close"} => ~socket)'
    BY <1>0, <1>22 DEF StopFails, Idle, StopsInOrder, Alone, Outside, Stopping, WorkersOK, StopsOK, ServerOK, WorkerRecords, StopRecords, serverVars, poolVars
  <2>3. (\A i \in Workers : Stopping(i) \/ worker[i].exits \/ worker[i].at \in {"exit", "interrupt"} => ~Alone)'
    BY <1>0, <1>22 DEF StopFails, Idle, StopsInOrder, Alone, Outside, Stopping, WorkersOK, StopsOK, ServerOK, WorkerRecords, StopRecords, serverVars, poolVars
  <2>4. (Alone => interrupt = "no")'
    BY <1>0, <1>22 DEF StopFails, Idle, StopsInOrder, Alone, Outside, Stopping, WorkersOK, StopsOK, ServerOK, WorkerRecords, StopRecords, serverVars, poolVars
  <2>5. (counts.stop <= MaxStops)'
    BY <1>0, <1>22 DEF StopFails, Idle, StopsInOrder, Alone, Outside, Stopping, WorkersOK, StopsOK, ServerOK, WorkerRecords, StopRecords, serverVars, poolVars
  <2>6. (~Alone => counts.stop >= 1 /\ (Stopping(Control) => counts.stop >= 2))'
    <3>1. counts' = counts /\ counts.stop >= 1 /\ Stopping(x) /\ stop' = [stop EXCEPT ![x] = Idle]
      BY <1>0, <1>22 DEF StopFails, StopsInOrder, Stopping
    <3>2. CASE x = Control
      BY <1>0, <3>1, <3>2 DEF StopsOK, Stopping, Idle
    <3>3. CASE x # Control
      <4>1. x \in Workers /\ ~Alone
        BY <1>0, <3>1, <3>3 DEF Stoppers, StopsInOrder
      <4>2. stop'[Control] = stop[Control]
        BY <1>0, <3>1, <3>3 DEF StopsOK
      <4>3. QED
        BY <3>1, <4>1, <4>2 DEF StopsInOrder, Stopping
    <3>4. QED
      BY <3>2, <3>3
  <2>7. QED
    BY <2>1, <2>2, <2>3, <2>4, <2>5, <2>6 DEF StopsInOrder
<1>23. ASSUME NEW x \in Stoppers, StopReturns(x) PROVE StopsInOrder'
  <2>1. (\A y \in Stoppers : Outside # "no" \/ Stopping(y) => counts.stop >= 1)'
    BY <1>0, <1>23 DEF StopReturns, Idle, Goes, StopsInOrder, Alone, Outside, Stopping, WorkersOK, StopsOK, ServerOK, WorkerRecords, StopRecords, serverVars, poolVars
  <2>2. (\A y \in Stoppers : stop[y].at \notin {"no", "close"} => ~socket)'
    BY <1>0, <1>23 DEF StopReturns, Idle, Goes, StopsInOrder, Alone, Outside, Stopping, WorkersOK, StopsOK, ServerOK, WorkerRecords, StopRecords, serverVars, poolVars
  <2>3. (\A i \in Workers : Stopping(i) \/ worker[i].exits \/ worker[i].at \in {"exit", "interrupt"} => ~Alone)'
    BY <1>0, <1>23 DEF StopReturns, Idle, Goes, StopsInOrder, Alone, Outside, Stopping, WorkersOK, StopsOK, ServerOK, WorkerRecords, StopRecords, serverVars, poolVars
  <2>4. (Alone => interrupt = "no")'
    <3>1. past' = past /\ (x = Control => interrupt' = interrupt)
      BY <1>23 DEF StopReturns
    <3>2. x # Control => x \in Workers /\ Stopping(x)
      BY <1>23 DEF StopReturns, Stoppers, Stopping
    <3>3. QED
      BY <3>1, <3>2 DEF StopsInOrder, Alone
  <2>5. (counts.stop <= MaxStops)'
    BY <1>0, <1>23 DEF StopReturns, Idle, Goes, StopsInOrder, Alone, Outside, Stopping, WorkersOK, StopsOK, ServerOK, WorkerRecords, StopRecords, serverVars, poolVars
  <2>6. (~Alone => counts.stop >= 1 /\ (Stopping(Control) => counts.stop >= 2))'
    BY <1>0, <1>23 DEF StopReturns, Idle, Goes, StopsInOrder, Alone, Outside, Stopping, WorkersOK, StopsOK, ServerOK, WorkerRecords, StopRecords, serverVars, poolVars
  <2>7. QED
    BY <2>1, <2>2, <2>3, <2>4, <2>5, <2>6 DEF StopsInOrder
<1>24. ASSUME NEW amount \in Amounts, Grow(amount) PROVE StopsInOrder'
  BY <1>0, <1>24 DEF Grow, Adds, StopsInOrder, Alone, Outside, Stopping, WorkersOK, StopsOK, ServerOK, WorkerRecords, StopRecords, serverVars, poolVars
<1>25. ASSUME NEW amount \in Amounts, Shrink(amount) PROVE StopsInOrder'
  BY <1>0, <1>25 DEF Shrink, PutsPills, StopsInOrder, Alone, Outside, Stopping, WorkersOK, StopsOK, ServerOK, WorkerRecords, StopRecords, serverVars, poolVars
<1>26. ASSUME NEW c \in Conns, ClientStep(c) PROVE StopsInOrder'
  BY <1>0, <1>26 DEF ClientStep, StopsInOrder, Alone, Outside, Stopping, WorkersOK, StopsOK, ServerOK, WorkerRecords, StopRecords, serverVars, poolVars
<1>27. CASE UNCHANGED vars
  BY <1>0, <1>27 DEF vars, StopsInOrder, Alone, Outside, Stopping, WorkersOK, StopsOK, ServerOK, WorkerRecords, StopRecords, serverVars, poolVars
<1>28. QED
  BY <1>1, <1>2, <1>3, <1>4, <1>5, <1>6, <1>7, <1>8, <1>9, <1>10, <1>11, <1>12, <1>13, <1>14, <1>15, <1>16, <1>17, <1>18, <1>19, <1>20, <1>21, <1>22, <1>23, <1>24, <1>25, <1>26, <1>27, StepCases


(* The thread in start() and the stops from outside stay in order; as long as  *)
(* no stop came from elsewhere or failed, no start finds a thread left over.   *)
LEMMA StartsInOrderStep ==
  ASSUME WsgiTypeOK, Numbered, StopsInOrder, StartsInOrder, PillsInOrder, WsgiNext \/ UNCHANGED vars
  PROVE  StartsInOrder'
<1>0. /\ StopsOK /\ ServerOK /\ Control \in Stoppers /\ Workers \subseteq Stoppers /\ Control \notin Workers
      /\ StopsOK' /\ ServerOK' /\ StopsInOrder'
  BY TypeStep, StopsInOrderStep, ServerAssumption DEF WsgiTypeOK, Stoppers, Control, Workers
<1>1. CASE Start
  <2>1. Outside = "no" /\ server \in {"out", "returned", "raised"} /\ past' = past
    BY <1>0, <1>1 DEF Start, Stopping, Outside, StopsOK
  <2>2. Alone => ~socket
    BY <1>0, <2>1 DEF StartsInOrder, Stopping, Outside, ServerOK
  <2>3. Alone => threads = <<>>
    BY <2>1, <2>2 DEF PillsInOrder
  <2>4. server' # "out" /\ counts'.start = counts.start + 1 /\ counts'.stop = counts.stop /\ socket' = TRUE
    BY <1>0, <1>1 DEF Start, ServerOK
  <2>5. CASE ~Alone
    BY <1>0, <2>1, <2>4, <2>5 DEF StartsInOrder, Alone, ServerOK
  <2>6. CASE Alone
    BY <1>0, <1>1, <2>1, <2>2, <2>3, <2>6 DEF Start, StartsInOrder, Alone, Outside, Stopping, ServerOK
  <2>7. QED
    BY <2>5, <2>6
<1>2. CASE Serve
  BY <1>0, <1>2 DEF Serve, StartsInOrder, StopsInOrder, Alone, Outside, Stopping, StopsOK, ServerOK, StopRecords, serverVars, poolVars
<1>3. CASE Loop
  BY <1>0, <1>3 DEF Loop, StartsInOrder, StopsInOrder, Alone, Outside, Stopping, StopsOK, ServerOK, StopRecords, serverVars, poolVars
<1>4. CASE Tick
  BY <1>0, <1>4 DEF Tick, StartsInOrder, StopsInOrder, Alone, Outside, Stopping, StopsOK, ServerOK, StopRecords, serverVars, poolVars
<1>5. CASE Accept
  BY <1>0, <1>5 DEF Accept, StartsInOrder, StopsInOrder, Alone, Outside, Stopping, StopsOK, ServerOK, StopRecords, serverVars, poolVars
<1>6. CASE AcceptReturns
  BY <1>0, <1>6 DEF AcceptReturns, StartsInOrder, StopsInOrder, Alone, Outside, Stopping, StopsOK, ServerOK, StopRecords, serverVars, poolVars
<1>7. CASE Accepted
  BY <1>0, <1>7 DEF Accepted, StartsInOrder, StopsInOrder, Alone, Outside, Stopping, StopsOK, ServerOK, StopRecords, serverVars, poolVars
<1>8. CASE Put
  BY <1>0, <1>8 DEF Put, StartsInOrder, StopsInOrder, Alone, Outside, Stopping, StopsOK, ServerOK, StopRecords, serverVars, poolVars
<1>9. CASE Check
  BY <1>0, <1>9 DEF Check, StartsInOrder, StopsInOrder, Alone, Outside, Stopping, StopsOK, ServerOK, StopRecords, serverVars, poolVars
<1>10. ASSUME NEW i \in Workers, Get(i) PROVE StartsInOrder'
  BY <1>0, <1>10 DEF Get, StartsInOrder, StopsInOrder, Alone, Outside, Stopping, StopsOK, ServerOK, StopRecords, serverVars, poolVars
<1>11. ASSUME NEW i \in Workers, Read(i) PROVE StartsInOrder'
  BY <1>0, <1>11 DEF Read, Goes, StartsInOrder, StopsInOrder, Alone, Outside, Stopping, StopsOK, ServerOK, StopRecords, serverVars, poolVars
<1>12. ASSUME NEW i \in Workers, Respond(i) PROVE StartsInOrder'
  BY <1>0, <1>12 DEF Respond, StartsInOrder, StopsInOrder, Alone, Outside, Stopping, StopsOK, ServerOK, StopRecords, serverVars, poolVars
<1>13. ASSUME NEW i \in Workers, Close(i) PROVE StartsInOrder'
  BY <1>0, <1>13 DEF Close, StartsInOrder, StopsInOrder, Alone, Outside, Stopping, StopsOK, ServerOK, StopRecords, serverVars, poolVars
<1>14. ASSUME NEW i \in Workers, Interrupt(i) PROVE StartsInOrder'
  BY <1>0, <1>14 DEF Interrupt, Goes, BeginsStop, StartsInOrder, StopsInOrder, Alone, Outside, Stopping, StopsOK, ServerOK, StopRecords, serverVars, poolVars
<1>15. ASSUME NEW x \in Stoppers, CallStop(x) PROVE StartsInOrder'
  <2>1. CASE x = Control
    BY <1>0, <1>15, <2>1 DEF CallStop, BeginsStop, StartsInOrder, StopsInOrder, Alone, Outside, Stopping, StopsOK, ServerOK, StopRecords, serverVars, poolVars
  <2>2. CASE x # Control
    <3>1. ~Alone' /\ server # "out" /\ ready' = FALSE
      BY <1>15, <2>2 DEF CallStop, BeginsStop, Alone
    <3>2. server' = server /\ socket' = socket /\ counts'.start = counts.start /\ counts'.stop >= 1
      BY <1>0, <1>15 DEF CallStop, serverVars, ServerOK
    <3>3. QED
      BY <1>0, <3>1, <3>2 DEF StartsInOrder
  <2>3. QED
    BY <2>1, <2>2
<1>16. ASSUME NEW x \in Stoppers, StopCloses(x) PROVE StartsInOrder'
  <2>1. counts.stop >= 1 /\ counts' = counts /\ server' = server /\ ready' = ready /\ socket' = FALSE /\ past' = past
    BY <1>0, <1>16 DEF StopCloses, StopsInOrder, Stopping, serverVars
  <2>2. CASE x = Control
    <3>1. Outside' = "pills" /\ Stopping(Control)
      BY <1>0, <1>16, <2>2 DEF StopCloses, StopGoes, StopsOK, Outside, Stopping, StopRecords
    <3>2. QED
      BY <1>0, <2>1, <3>1 DEF StartsInOrder, Alone, ServerOK
  <2>3. CASE x # Control
    <3>1. ~Alone
      BY <1>0, <1>16, <2>3 DEF StopCloses, StopsInOrder, Stoppers, Stopping
    <3>2. QED
      BY <1>0, <2>1, <3>1 DEF StartsInOrder, Alone
  <2>4. QED
    BY <2>2, <2>3
<1>17. ASSUME NEW x \in Stoppers, StopPutsPills(x) PROVE StartsInOrder'
  BY <1>0, <1>17 DEF StopPutsPills, StopGoes, PutsPills, StartsInOrder, StopsInOrder, Alone, Outside, Stopping, StopsOK, ServerOK, StopRecords, serverVars, poolVars
<1>18. ASSUME NEW x \in Stoppers, StopPops(x) PROVE StartsInOrder'
  BY <1>0, <1>18 DEF StopPops, StartsInOrder, StopsInOrder, Alone, Outside, Stopping, StopsOK, ServerOK, StopRecords, serverVars, poolVars
<1>19. ASSUME NEW x \in Stoppers, StopJoins(x) PROVE StartsInOrder'
  BY <1>0, <1>19 DEF StopJoins, Idle, StartsInOrder, StopsInOrder, Alone, Outside, Stopping, StopsOK, ServerOK, StopRecords, serverVars, poolVars
<1>20. ASSUME NEW x \in Stoppers, StopTimesOut(x) PROVE StartsInOrder'
  BY <1>0, <1>20 DEF StopTimesOut, StartsInOrder, StopsInOrder, Alone, Outside, Stopping, StopsOK, ServerOK, StopRecords, serverVars, poolVars
<1>21. ASSUME NEW x \in Stoppers, StopForces(x) PROVE StartsInOrder'
  BY <1>0, <1>21 DEF StopForces, StartsInOrder, StopsInOrder, Alone, Outside, Stopping, StopsOK, ServerOK, StopRecords, serverVars, poolVars
<1>22. ASSUME NEW x \in Stoppers, StopFails(x) PROVE StartsInOrder'
  BY <1>0, <1>22 DEF StopFails, Idle, StartsInOrder, StopsInOrder, Alone, Outside, Stopping, StopsOK, ServerOK, StopRecords, serverVars, poolVars
<1>23. ASSUME NEW x \in Stoppers, StopReturns(x) PROVE StartsInOrder'
  BY <1>0, <1>23 DEF StopReturns, Idle, Goes, StartsInOrder, StopsInOrder, Alone, Outside, Stopping, StopsOK, ServerOK, StopRecords, serverVars, poolVars
<1>24. ASSUME NEW amount \in Amounts, Grow(amount) PROVE StartsInOrder'
  BY <1>0, <1>24 DEF Grow, StartsInOrder, StopsInOrder, Alone, Outside, Stopping, StopsOK, ServerOK, StopRecords, serverVars, poolVars
<1>25. ASSUME NEW amount \in Amounts, Shrink(amount) PROVE StartsInOrder'
  BY <1>0, <1>25 DEF Shrink, PutsPills, StartsInOrder, StopsInOrder, Alone, Outside, Stopping, StopsOK, ServerOK, StopRecords, serverVars, poolVars
<1>26. ASSUME NEW c \in Conns, ClientStep(c) PROVE StartsInOrder'
  BY <1>0, <1>26 DEF ClientStep, StartsInOrder, StopsInOrder, Alone, Outside, Stopping, StopsOK, ServerOK, StopRecords, serverVars, poolVars
<1>27. CASE UNCHANGED vars
  BY <1>0, <1>27 DEF vars, StartsInOrder, StopsInOrder, Alone, Outside, Stopping, StopsOK, ServerOK, StopRecords, serverVars, poolVars
<1>28. QED
  BY <1>1, <1>2, <1>3, <1>4, <1>5, <1>6, <1>7, <1>8, <1>9, <1>10, <1>11, <1>12, <1>13, <1>14, <1>15, <1>16, <1>17, <1>18, <1>19, <1>20, <1>21, <1>22, <1>23, <1>24, <1>25, <1>26, <1>27, StepCases


(* A step after which the same threads live.                                   *)
LEMMA LivingSame ==
  ASSUME \A i \in Workers : worker'[i].at \in {"new", "dead"} <=> worker[i].at \in {"new", "dead"}
  PROVE  Living' = Living
BY DEF Living

(* A step that leaves the pool, its queue and the stop from outside alone.     *)
LEMMA PillsStill ==
  ASSUME PillsInOrder, ServerOK, ServerOK', threads' = threads, Living' = Living, Pills' = Pills, unseen' = unseen,
         socket' = socket, stop'[Control] = stop[Control], past \subseteq past',
         counts'.start = counts.start, counts'.stop >= counts.stop
  PROVE  PillsInOrder'
<1>1. Alone' => Alone
  BY DEF Alone
<1>2. Outside' = Outside /\ stop'[Control].of = stop[Control].of
  BY DEF Outside
<1>3. Room' <=> Room
  BY DEF Room, Spare
<1>4. counts'.stop <= counts'.start => counts.stop <= counts.start
  BY DEF ServerOK
<1>5. QED
  BY <1>1, <1>2, <1>3, <1>4 DEF PillsInOrder

(* A worker that takes a shutdown request: one thread and one request less.    *)
LEMMA PillsGet ==
  ASSUME WsgiTypeOK, NEW i \in Workers, Get(i)
  PROVE  /\ Head(queue) # Pill => Living' = Living /\ Pills' = Pills
         /\ Head(queue) = Pill => /\ Living' = Living \ {i}
                                  /\ Cardinality(Living') = Cardinality(Living) - 1 /\ Pills' = Pills - 1
         /\ Pills \in Nat /\ Pills' \in Nat /\ Cardinality(Living) \in Nat /\ Spare' = Spare
         /\ i \in Living
<1>1. WorkersOK /\ PoolOK
  BY DEF WsgiTypeOK
<1>2. /\ \A j \in Workers \ {i} : worker'[j] = worker[j]
      /\ worker[i].at = "get" /\ queue # <<>> /\ queue' = Tail(queue)
      /\ Head(queue) = Pill => worker'[i].at = "dead"
      /\ Head(queue) # Pill => worker'[i].at = "read"
  BY <1>1, GetMoves
<1>3. queue \in Seq(Conns \cup {Pill}) /\ Len(queue) \in Nat \ {0} /\ Head(queue) = queue[1]
  BY <1>1, <1>2 DEF PoolOK
<1>4. Pills = Cardinality(Requests(queue, Len(queue))) /\ Pills \in Nat
  BY <1>3, PillsAreRequests
<1>5. PICK t : t = queue'
  OBVIOUS
<1>6. Len(t) = Len(queue) - 1 /\ DOMAIN t = 1..(Len(queue) - 1) /\ \A k \in 1..(Len(queue) - 1) : t[k] = queue[k + 1]
  BY <1>2, <1>3, <1>5
<1>7. Pills' = Cardinality(Requests(t, Len(queue) - 1)) /\ Pills' \in Nat
  <2>1. Pills' = Cardinality(Requests(t, Len(queue) - 1))
    BY <1>5, <1>6 DEF Pills, Requests
  <2>2. QED
    BY <1>3, <2>1, RequestsFinite
<1>8. Pills' = Pills - (IF Head(queue) = Pill THEN 1 ELSE 0)
  <2>1. Cardinality(Requests(t, Len(queue) - 1)) = Cardinality(Requests(queue, Len(queue))) - (IF queue[1] = Pill THEN 1 ELSE 0)
    BY <1>3, <1>6, RequestsMoveUp
  <2>2. QED
    BY <1>3, <1>4, <1>7, <2>1
<1>9. i \in Living /\ IsFiniteSet(Living) /\ Cardinality(Living) \in Nat
  BY <1>2, LivingFinite DEF Living
<1>10. Head(queue) # Pill => Living' = Living
  BY <1>2 DEF Living
<1>11. Head(queue) = Pill => Living' = Living \ {i}
  BY <1>2 DEF Living
<1>12. Cardinality(Living \ {i}) = Cardinality(Living) - 1
  BY <1>9, FS_RemoveElement
<1>13. Spare' = Spare
  <2>1. CASE Head(queue) = Pill
    <3>1. Cardinality(Living') = Cardinality(Living) - 1 /\ Pills' = Pills - 1
      BY <1>4, <1>8, <1>11, <1>12, <2>1
    <3>2. QED
      BY <1>4, <1>9, <3>1 DEF Spare
  <2>2. CASE Head(queue) # Pill
    BY <1>4, <1>8, <1>10, <2>2 DEF Spare
  <2>3. QED
    BY <2>1, <2>2
<1>14. Head(queue) # Pill => Pills' = Pills
  BY <1>4, <1>8
<1>15. ASSUME Head(queue) = Pill PROVE Cardinality(Living') = Cardinality(Living) - 1 /\ Pills' = Pills - 1
  BY <1>4, <1>8, <1>11, <1>12, <1>15
<1>16. QED
  BY <1>4, <1>7, <1>9, <1>10, <1>11, <1>13, <1>14, <1>15

(* Threads that are made, and run, add to those alive.                         *)
LEMMA AddedLive ==
  ASSUME PoolOK, WorkersOK, NEW n, NEW at \in {"get", "dead"}, NEW m \in 0..MaxThreads, NEW l \in Nat,
         Added(n, at, m, l), at = "get"
  PROVE  /\ Living' = Living \cup ((m + 1)..(m + l)) /\ Cardinality(Living') = Cardinality(Living) + l
         /\ Cardinality(Living) \in Nat
<1>1. MaxThreads \in Nat /\ m + l \in 0..MaxThreads
  <2>1. MaxThreads \in Nat
    BY ServerAssumption
  <2>2. m + l <= MaxThreads
    BY DEF Added
  <2>3. QED
    BY <2>1, <2>2
<1>2. \A i \in (m + 1)..(m + l) : i \in Workers /\ worker[i].at = "new" /\ worker'[i].at = "get"
  <2> SUFFICES ASSUME NEW i \in (m + 1)..(m + l) PROVE i \in Workers /\ worker[i].at = "new" /\ worker'[i].at = "get"
    OBVIOUS
  <2>1. i \in Workers /\ i > m
    BY <1>1 DEF Workers
  <2>2. worker'[i] = [worker[i] EXCEPT !.at = at] /\ worker[i] \in WorkerRecords
    BY <2>1 DEF Added, WorkersOK
  <2>3. worker'[i].at = at
    BY <2>2 DEF WorkerRecords
  <2>4. QED
    BY <2>1, <2>3 DEF Added
<1>3. \A i \in Workers \ ((m + 1)..(m + l)) : worker'[i] = worker[i]
  BY DEF Added
<1>4. Living' = Living \cup ((m + 1)..(m + l)) /\ Living \cap ((m + 1)..(m + l)) = {}
  BY <1>2, <1>3 DEF Living
<1>5. IsFiniteSet((m + 1)..(m + l)) /\ Cardinality((m + 1)..(m + l)) = l
  <2>1. m + 1 \in Int /\ m + l \in Int /\ m + 1 <= (m + l) + 1 /\ (m + l) + 1 - (m + 1) = l
    OBVIOUS
  <2>2. QED
    BY <2>1, FirstTo
<1>6. IsFiniteSet(Living) /\ Cardinality(Living) \in Nat
  BY LivingFinite
<1> DEFINE T == (m + 1)..(m + l)
<1> HIDE DEF T
<1>7. Cardinality(Living \cup T) = Cardinality(Living) + Cardinality(T) - Cardinality(Living \cap T)
  BY <1>5, <1>6, FS_Union DEF T
<1>8. Cardinality(Living \cap T) = 0
  BY <1>4, FS_EmptySet DEF T
<1>9. Cardinality(Living \cup T) = Cardinality(Living) + l
  BY <1>5, <1>6, <1>7, <1>8 DEF T
<1>10. QED
  BY <1>4, <1>6, <1>9 DEF T

(* A connection that is queued is no shutdown request.                         *)
LEMMA PillsPut ==
  ASSUME WsgiTypeOK, Put
  PROVE  Pills' = Pills
<1>1. queue \in Seq(Conns \cup {Pill}) /\ Len(queue) \in Nat /\ taken \in Conns /\ taken # Pill
  BY ServerAssumption DEF WsgiTypeOK, PoolOK, ServerOK, Put
<1>2. PICK p : p = queue'
  OBVIOUS
<1>3. /\ Len(p) = Len(queue) + 1 /\ DOMAIN p = 1..(Len(queue) + 1)
      /\ p[Len(queue) + 1] # Pill /\ \A k \in 1..Len(queue) : p[k] = queue[k]
  BY <1>1, <1>2 DEF Put
<1>4. DOMAIN queue = 1..Len(queue)
  BY <1>1
<1>5. {k \in DOMAIN p : p[k] = Pill} = {k \in DOMAIN queue : queue[k] = Pill}
  BY <1>1, <1>3, <1>4
<1>6. QED
  BY <1>2, <1>5 DEF Pills

(* Threads that are made, and run, are in the pool.                            *)
LEMMA AddedPool ==
  ASSUME PoolOK, WorkersOK, NEW n, NEW m \in 0..MaxThreads, NEW l \in Nat, Added(n, "get", m, l)
  PROVE  (\A i \in Living : \E k \in DOMAIN threads : threads[k] = i)
           => (\A i \in Living : \E k \in DOMAIN threads : threads[k] = i)'
<1>1. MaxThreads \in Nat /\ Len(threads) \in Nat /\ m \in Nat
  BY ServerAssumption DEF PoolOK
<1>2. DOMAIN threads = 1..Len(threads) /\ DOMAIN threads' = 1..(Len(threads) + l)
  BY DEF PoolOK, Added
<1>3. Living' = Living \cup ((m + 1)..(m + l))
  BY AddedLive
<1>4. /\ \A k \in 1..Len(threads) : threads'[k] = threads[k]
      /\ \A k \in 1..l : threads'[Len(threads) + k] = m + k
  BY DEF Added
<1>5. ASSUME \A i \in Living : \E k \in DOMAIN threads : threads[k] = i, NEW i \in Living'
      PROVE  \E k \in DOMAIN threads' : threads'[k] = i
  <2>1. CASE i \in Living
    BY <1>1, <1>2, <1>4, <1>5, <2>1
  <2>2. CASE i \in (m + 1)..(m + l)
    <3>1. PICK j \in Int : j = i - m
      BY <1>1, <2>2
    <3>2. j \in 1..l /\ m + j = i
      BY <1>1, <2>2, <3>1
    <3>3. threads'[Len(threads) + j] = i
      BY <1>4, <3>2
    <3>4. Len(threads) + j \in DOMAIN threads'
      BY <1>1, <1>2, <3>2
    <3>5. QED
      BY <3>3, <3>4
  <2>3. QED
    BY <1>3, <2>1, <2>2
<1>6. QED
  BY <1>5


(* start() makes the least number of threads, into an empty list.              *)
LEMMA StartLeaves ==
  ASSUME WsgiTypeOK, Numbered, Start, threads = <<>>
  PROVE  /\ Room' /\ Len(threads') = MinSize
         /\ Living = {} => (\A i \in Living : \E k \in DOMAIN threads : threads[k] = i)'
<1>1. WorkersOK /\ PoolOK /\ queue \in Seq(Conns \cup {Pill}) /\ MinSize \in Nat
  BY ServerAssumption DEF WsgiTypeOK, PoolOK
<1>2. PICK m \in 0..MaxThreads, l \in Nat : Added(MinSize, "get", m, l)
  BY <1>1, StartAdds
<1>3. l = MinSize /\ Len(threads') = MinSize
  <2>1. Len(threads) = 0
    OBVIOUS
  <2>2. QED
    BY <1>1, <1>2, <2>1 DEF Added
<1>4. Cardinality(Living') = Cardinality(Living) + MinSize /\ Cardinality(Living) \in Nat
  BY <1>1, <1>2, <1>3, AddedLive
<1>5. Pills' = Pills /\ Pills \in Nat
  <2>1. PICK S : S = Conns \cup {Pill}
    OBVIOUS
  <2>2. Pills \in Nat
    BY <1>1, <2>1, PillsAreRequests
  <2>3. QED
    BY <2>2 DEF Start, Pills
<1>6. Room'
  <2>1. Spare \in Int /\ Spare' = Spare + MinSize
    BY <1>1, <1>4, <1>5 DEF Spare
  <2>2. unseen' = IF Spare < 0 THEN -Spare ELSE 0
    BY DEF Start
  <2>3. QED
    BY <1>1, <2>1, <2>2 DEF Room
<1>7. Living = {} => (\A i \in Living : \E k \in DOMAIN threads : threads[k] = i)'
  BY <1>1, <1>2, AddedPool
<1>8. QED
  BY <1>3, <1>6, <1>7

(* grow() makes threads, and no more than there may be.                        *)
LEMMA GrowLeaves ==
  ASSUME WsgiTypeOK, Numbered, NEW amount \in Amounts, Grow(amount)
  PROVE  /\ Room => Room'
         /\ MaxSize # 0 /\ Len(threads) <= MaxSize => Len(threads') <= MaxSize
         /\ (\A i \in Living : \E k \in DOMAIN threads : threads[k] = i)
              => (\A i \in Living : \E k \in DOMAIN threads : threads[k] = i)'
<1>1. WorkersOK /\ PoolOK /\ queue \in Seq(Conns \cup {Pill}) /\ MinSize \in Nat /\ unseen \in Nat /\ unseen' = unseen
  BY ServerAssumption DEF WsgiTypeOK, PoolOK, UnseenOK, Grow
<1>2. PICK n \in Int, m \in 0..MaxThreads, l \in Nat : Added(n, "get", m, l) /\ (MaxSize # 0 => n <= MaxSize - Len(threads))
  BY <1>1, GrowAdds
<1>3. Cardinality(Living') = Cardinality(Living) + l /\ Cardinality(Living) \in Nat
  BY <1>1, <1>2, AddedLive
<1>4. Pills' = Pills /\ Pills \in Nat
  <2>1. PICK S : S = Conns \cup {Pill}
    OBVIOUS
  <2>2. Pills \in Nat
    BY <1>1, <2>1, PillsAreRequests
  <2>3. QED
    BY <2>2 DEF Grow, Pills
<1>5. Room => Room'
  BY <1>1, <1>3, <1>4 DEF Room, Spare
<1>6. MaxSize # 0 /\ Len(threads) <= MaxSize => Len(threads') <= MaxSize
  <2>1. Len(threads) \in Nat /\ MaxSize \in Nat
    BY <1>1, ServerAssumption DEF PoolOK
  <2>2. l = (IF n > 0 THEN n ELSE 0) /\ Len(threads') = Len(threads) + l
    BY <1>2 DEF Added
  <2>3. QED
    BY <1>2, <2>1, <2>2
<1>7. (\A i \in Living : \E k \in DOMAIN threads : threads[k] = i)
        => (\A i \in Living : \E k \in DOMAIN threads : threads[k] = i)'
  BY <1>1, <1>2, AddedPool
<1>8. QED
  BY <1>5, <1>6, <1>7

(* The threads that remain in the list are alive but for the dead among them.  *)
LEMMA RemainingLive ==
  ASSUME WsgiTypeOK, Numbered
  PROVE  Cardinality(Remaining) - Cardinality(StillDead) <= Cardinality(Living)
<1>1. PoolOK /\ WorkersOK
  BY DEF WsgiTypeOK
<1>2. /\ IsFiniteSet(Remaining) /\ Cardinality(Remaining) \in Nat /\ Remaining \subseteq DOMAIN threads
      /\ IsFiniteSet(StillDead) /\ Cardinality(StillDead) \in Nat
  BY <1>1, RemainingFinite
<1> DEFINE L == Remaining \ StillDead
           f == [k \in L |-> threads[k]]
<1>3. f \in Injection(L, Living)
  <2>1. ASSUME NEW k \in L PROVE threads[k] \in Living
    <3>1. k \in DOMAIN threads /\ threads[k] \in Workers /\ worker[threads[k]].at # "dead"
      BY <1>1, <1>2 DEF StillDead, PoolOK
    <3>2. QED
      BY <3>1 DEF Living, Numbered
  <2>2. \A j, k \in L : threads[j] = threads[k] => j = k
    BY <1>2 DEF Numbered
  <2>3. QED
    BY <2>1, <2>2 DEF Injection, IsInjective
<1> HIDE DEF f
<1>4. Cardinality(L) <= Cardinality(Living)
  BY <1>3, LivingFinite, FS_Injection
<1>5. Cardinality(L) = Cardinality(Remaining) - Cardinality(StillDead)
  <2>1. Remaining \cap StillDead = StillDead
    BY DEF StillDead
  <2>2. Cardinality(L) = Cardinality(Remaining) - Cardinality(Remaining \cap StillDead)
    BY <1>2, FS_Difference
  <2>3. QED
    BY <2>1, <2>2
<1>6. QED
  BY <1>4, <1>5

(* shrink() leaves the least number of threads, of those it takes for running. *)
LEMMA ShrinkLeaves ==
  ASSUME WsgiTypeOK, Numbered, NEW amount \in Amounts, Shrink(amount)
  PROVE  /\ Room => Room'
         /\ Len(threads') <= Len(threads)
         /\ (\A i \in Living : \E k \in DOMAIN threads : threads[k] = i)
              => (\A i \in Living : \E k \in DOMAIN threads : threads[k] = i)'
<1>1. /\ WorkersOK /\ PoolOK /\ queue \in Seq(Conns \cup {Pill}) /\ threads \in Seq(Workers)
      /\ MinSize \in Nat /\ unseen \in Nat /\ worker' = worker /\ Living' = Living /\ Culls
  BY ServerAssumption DEF WsgiTypeOK, PoolOK, UnseenOK, Shrink, Living
<1>2. PICK n \in Nat : /\ queue' = queue \o [k \in 1..n |-> Pill]
                       /\ \/ n = 0 /\ unseen' = unseen
                          \/ n <= Cardinality(Remaining) - MinSize /\ unseen' = Unseen
  BY <1>1, ShrinkPuts
<1>3. Pills' = Pills + n /\ Pills \in Nat
  <2>1. PICK S : S = Conns \cup {Pill}
    OBVIOUS
  <2>2. Pills \in Nat
    BY <1>1, <2>1, PillsAreRequests
  <2>3. QED
    BY <1>1, <1>2, <2>2, QueuedPills
<1>4. Cardinality(Living) \in Nat /\ Spare' = Spare - n /\ Spare = Cardinality(Living) - Pills
  BY <1>1, <1>3, LivingFinite DEF Spare
<1>5. Room => Room'
  <2>1. CASE n = 0 /\ unseen' = unseen
    BY <1>1, <1>3, <1>4, <2>1 DEF Room
  <2>2. CASE n <= Cardinality(Remaining) - MinSize /\ unseen' = Unseen
    <3>1. /\ Cardinality(Remaining) \in Nat /\ Cardinality(StillDead) \in Nat
          /\ Unseen = Pills + Cardinality(StillDead)
          /\ Cardinality(Remaining) - Cardinality(StillDead) <= Cardinality(Living)
      BY <1>1, RemainingFinite, RemainingLive
    <3>2. PICK alive \in Nat, left \in Nat, dead \in Nat, asked \in Nat :
            alive = Cardinality(Living) /\ left = Cardinality(Remaining) /\ dead = Cardinality(StillDead) /\ asked = Pills
      BY <1>3, <1>4, <3>1
    <3>3. Spare' = alive - asked - n /\ unseen' = asked + dead
      BY <1>4, <2>2, <3>1, <3>2
    <3>4. MinSize \in Nat /\ n <= left - MinSize /\ left - dead <= alive
      BY <1>1, <2>2, <3>1, <3>2
    <3>5. alive - asked - n >= MinSize - (asked + dead)
      BY <3>4
    <3>6. QED
      BY <3>3, <3>5 DEF Room
  <2>3. QED
    BY <1>2, <2>1, <2>2
<1>6. Len(threads') <= Len(threads)
  BY <1>1, CullsThreads
<1>7. ASSUME \A i \in Living : \E k \in DOMAIN threads : threads[k] = i, NEW i \in Living
      PROVE  \E k \in DOMAIN threads' : threads'[k] = i
  BY <1>1, <1>7, CullsThreads DEF Living
<1>8. QED
  BY <1>1, <1>5, <1>6, <1>7

-----------------------------------------------------------------------------
(* A step that leaves the pool, its queue and the socket alone.                *)
LEMMA PoolStill ==
  ASSUME PoolInv, threads' = threads, Living' = Living, Pills' = Pills, unseen' = unseen, socket' = socket, stop' = stop,
         Serves' => Serves, server' # "raised" => server # "raised"
  PROVE  PoolInv'
BY DEF PoolInv, Room, Spare

(* A step of a stop() that has closed the socket.                              *)
LEMMA PoolStopping ==
  ASSUME WsgiTypeOK, PoolInv, ~socket', server' = server, Len(threads') <= Len(threads), threads' \in Seq(Workers)
  PROVE  PoolInv'
<1>1. Len(threads) \in Nat /\ Len(threads') \in Nat /\ MaxSize \in Nat
  BY ServerAssumption DEF WsgiTypeOK, PoolOK
<1>2. QED
  BY <1>1 DEF PoolInv

(* What stop() does to the list of threads, and to the socket.                 *)
LEMMA StopStepPool ==
  ASSUME WsgiTypeOK, \A x \in Stoppers : stop[x].at \notin {"no", "close"} => ~socket, NEW x \in Stoppers, StopStep(x)
  PROVE  ~socket' /\ server' = server /\ threads' \in Seq(Workers) /\ Len(threads') <= Len(threads)
<1>1. threads \in Seq(Workers)
  BY DEF WsgiTypeOK, PoolOK
<1>2. ~socket'
  BY DEF StopStep, StopCloses, StopPutsPills, StopPops, StopJoins, StopTimesOut, StopForces, StopFails, StopReturns
<1>3. server' = server
  BY DEF StopStep, StopCloses, StopPutsPills, StopPops, StopJoins, StopTimesOut, StopForces, StopFails, StopReturns, serverVars
<1>4. CASE threads' = threads
  BY <1>1, <1>2, <1>3, <1>4
<1>5. CASE threads # <<>> /\ threads' = Front(threads)
  BY <1>1, <1>2, <1>3, <1>5, FrontOf
<1>6. threads' = threads \/ (threads # <<>> /\ threads' = Front(threads))
  BY DEF StopStep, StopCloses, StopPutsPills, StopPops, StopJoins, StopTimesOut, StopForces, StopFails, StopReturns, poolVars
<1>7. QED
  BY <1>4, <1>5, <1>6

(* The pool keeps its size whoever calls what.                                 *)
LEMMA PoolInvStep ==
  ASSUME WsgiTypeOK, Numbered, PoolInv, WsgiNext \/ UNCHANGED vars
  PROVE  PoolInv'
<1>0. ServerOK /\ WorkersOK /\ StopsOK /\ PoolOK /\ Workers \subseteq Stoppers
  BY DEF WsgiTypeOK, Stoppers
<1>1. CASE Start
  <2>1. stop' = stop /\ \A x \in Stoppers : stop[x].at = "no"
    BY <1>0, <1>1 DEF Start, Stopping, StopsOK
  <2>2. CASE threads = <<>>
    <3>1. Room' /\ Len(threads') = MinSize /\ (MaxSize # 0 => MinSize <= MaxSize)
      BY <1>1, <2>2, StartLeaves, ServerAssumption
    <3>2. QED
      BY <2>1, <3>1 DEF PoolInv
  <2>3. CASE threads # <<>>
    <3>1. server' = "raised"
      BY <1>1, <2>3 DEF Start
    <3>2. QED
      BY <2>1, <3>1 DEF PoolInv, Serves
  <2>4. QED
    BY <2>2, <2>3
<1>2. CASE Serve
  BY <1>2, PoolStill DEF Serve, poolVars, Living, Pills, Serves
<1>3. CASE Loop
  BY <1>3, PoolStill DEF Loop, poolVars, Living, Pills, Serves
<1>4. CASE Tick
  BY <1>4, PoolStill DEF Tick, poolVars, Living, Pills, Serves
<1>5. CASE Accept
  BY <1>5, PoolStill DEF Accept, poolVars, Living, Pills, Serves
<1>6. CASE AcceptReturns
  BY <1>6, PoolStill DEF AcceptReturns, poolVars, Living, Pills, Serves
<1>7. CASE Accepted
  BY <1>7, PoolStill DEF Accepted, poolVars, Living, Pills, Serves
<1>8. CASE Put
  <2>1. Pills' = Pills /\ Living' = Living
    BY <1>8, PillsPut DEF Put, Living
  <2>2. QED
    BY <1>8, <2>1, PoolStill DEF Put, Serves
<1>9. CASE Check
  BY <1>9, PoolStill DEF Check, poolVars, Living, Pills, Serves
<1>10. ASSUME NEW i \in Workers, Get(i) PROVE PoolInv'
  <2>1. Spare' = Spare
    BY <1>10, PillsGet
  <2>2. QED
    BY <1>10, <2>1 DEF Get, PoolInv, Room, serverVars, Serves
<1>11. ASSUME NEW i \in Workers, Read(i) \/ Respond(i) \/ Close(i) PROVE PoolInv'
  <2>1. \A j \in Workers : worker'[j].at \in {"new", "dead"} <=> worker[j].at \in {"new", "dead"}
    <3>1. CASE Read(i)
      BY <1>0, <3>1 DEF Read, Goes, WorkersOK, WorkerRecords
    <3>2. CASE Respond(i)
      BY <1>0, <3>2, RespondMoves
    <3>3. CASE Close(i)
      BY <1>0, <3>3, CloseMoves
    <3>4. QED
      BY <1>11, <3>1, <3>2, <3>3
  <2>2. Living' = Living
    BY <2>1, LivingSame
  <2>3. threads' = threads /\ queue' = queue /\ unseen' = unseen /\ socket' = socket /\ stop' = stop /\ server' = server
    BY <1>11 DEF Read, Respond, Close, serverVars
  <2>4. QED
    BY <2>2, <2>3, PoolStill DEF Pills, Serves
<1>12. ASSUME NEW x \in Stoppers, CallStop(x) \/ (x \in Workers /\ Interrupt(x)) PROVE PoolInv'
  <2>1. \A j \in Workers : worker'[j].at \in {"new", "dead"} <=> worker[j].at \in {"new", "dead"}
    BY <1>0, <1>12 DEF CallStop, poolVars, Interrupt, Goes, WorkersOK, WorkerRecords
  <2>2. Living' = Living
    BY <2>1, LivingSame
  <2>3. threads' = threads /\ queue' = queue /\ unseen' = unseen /\ socket' = socket /\ server' = server
    BY <1>12 DEF CallStop, Interrupt, poolVars, serverVars
  <2>4. \A y \in Stoppers : stop'[y].at \notin {"no", "close"} => stop[y].at \notin {"no", "close"}
    BY <1>0, <1>12 DEF CallStop, Interrupt, BeginsStop, StopsOK, StopRecords
  <2>5. QED
    BY <2>2, <2>3, <2>4 DEF PoolInv, Room, Spare, Pills, Serves
<1>13. ASSUME NEW x \in Stoppers, StopStep(x) PROVE PoolInv'
  BY <1>13, StopStepPool, PoolStopping DEF PoolInv
<1>14. ASSUME NEW amount \in Amounts, Grow(amount) PROVE PoolInv'
  BY <1>14, GrowLeaves DEF Grow, PoolInv, serverVars, Serves
<1>15. ASSUME NEW amount \in Amounts, Shrink(amount) PROVE PoolInv'
  <2>1. (Room => Room') /\ Len(threads') <= Len(threads) /\ Len(threads') \in Nat /\ Len(threads) \in Nat /\ MaxSize \in Nat
    BY <1>0, <1>15, ShrinkLeaves, TypeStep, ServerAssumption DEF WsgiNext, WsgiTypeOK, PoolOK
  <2>2. socket' = socket /\ server' = server /\ stop' = stop
    BY <1>15 DEF Shrink, serverVars
  <2>3. QED
    BY <2>1, <2>2 DEF PoolInv, Serves
<1>16. ASSUME NEW c \in Conns, ClientStep(c) PROVE PoolInv'
  BY <1>16, PoolStill DEF ClientStep, serverVars, poolVars, Living, Pills, Serves
<1>17. CASE UNCHANGED vars
  BY <1>17, PoolStill DEF vars, serverVars, poolVars, Living, Pills, Serves
<1>18. QED
  BY <1>0, <1>1, <1>2, <1>3, <1>4, <1>5, <1>6, <1>7, <1>8, <1>9, <1>10, <1>11, <1>12, <1>13, <1>14, <1>15, <1>16, <1>17,
     StepCases DEF StopStep

-----------------------------------------------------------------------------
(* A start, when no stop came from elsewhere or failed.                        *)
LEMMA PillsStart ==
  ASSUME WsgiTypeOK, Numbered, StartsInOrder, PillsInOrder, Start
  PROVE  PillsInOrder'
<1>1. StopsOK /\ Control \in Stoppers
  BY DEF WsgiTypeOK, Stoppers
<1>2. /\ Outside = "no" /\ Outside' = "no" /\ server \in {"out", "returned", "raised"} /\ past' = past /\ socket' = TRUE
  BY <1>1 DEF Start, Stopping, Outside, StopsOK
<1>3. ASSUME Alone PROVE threads = <<>> /\ Living = {}
  <2>1. ~socket
    BY <1>2, <1>3 DEF StartsInOrder, Stopping, Outside
  <2>2. threads = <<>>
    BY <1>2, <1>3, <2>1 DEF PillsInOrder
  <2>3. \A i \in Living : \E k \in DOMAIN threads : threads[k] = i
    BY <1>2, <1>3 DEF PillsInOrder
  <2>4. DOMAIN threads = {}
    BY <2>2
  <2>5. QED
    BY <2>2, <2>3, <2>4
<1>4. Alone => Room' /\ (\A i \in Living : \E k \in DOMAIN threads : threads[k] = i)'
  BY <1>3, StartLeaves
<1>5. QED
  BY <1>2, <1>4 DEF PillsInOrder, Alone

(* grow() while the socket is there.                                           *)
LEMMA PillsGrow ==
  ASSUME WsgiTypeOK, Numbered, PillsInOrder, socket, NEW amount \in Amounts, Grow(amount)
  PROVE  PillsInOrder'
<1>1. Outside = "no" /\ Outside' = "no" /\ socket' = socket /\ past' = past
  BY DEF Grow, Outside, Stopping
<1>2. QED
  BY <1>1, GrowLeaves DEF PillsInOrder, Alone

(* shrink(), as often as it is called.                                         *)
LEMMA PillsShrink ==
  ASSUME WsgiTypeOK, Numbered, PillsInOrder, NEW amount \in Amounts, Shrink(amount)
  PROVE  PillsInOrder'
<1>1. /\ Outside = "no" /\ Outside' = "no" /\ socket' = socket /\ (Alone' <=> Alone)
      /\ threads \in Seq(Workers) /\ threads' \in Seq(Workers)
  BY TypeStep DEF Shrink, Outside, Stopping, Alone, WsgiNext, WsgiTypeOK, PoolOK
<1>2. threads = <<>> => threads' = <<>>
  <2>1. Len(threads') <= Len(threads)
    BY ShrinkLeaves
  <2>2. QED
    BY <1>1, <2>1
<1>3. QED
  BY <1>1, <1>2, ShrinkLeaves DEF PillsInOrder

(* A worker takes a connection or a shutdown request.                          *)
LEMMA PillsTaken ==
  ASSUME WsgiTypeOK, PillsInOrder, NEW i \in Workers, Get(i)
  PROVE  PillsInOrder'
<1>1. /\ threads' = threads /\ socket' = socket /\ stop' = stop /\ past' = past /\ counts' = counts /\ unseen' = unseen
      /\ Outside' = Outside /\ (Alone' <=> Alone)
  BY DEF Get, Outside, Alone
<1>2. Living' \subseteq Living /\ Spare' = Spare
  BY PillsGet
<1>3. (Alone => \A j \in Living : \/ \E k \in DOMAIN threads : threads[k] = j
                                  \/ Outside \in {"join", "force", "last"} /\ stop[Control].of = j)'
  BY <1>1, <1>2 DEF PillsInOrder
<1>4. QED
  BY <1>1, <1>2, <1>3 DEF PillsInOrder, Room


(* The steps of a stop from outside.                                           *)
LEMMA PillsStopping ==
  ASSUME WsgiTypeOK, Numbered, StopsInOrder, StartsInOrder, PillsInOrder, StopStep(Control)
  PROVE  PillsInOrder'
<1>1. StopsOK /\ ServerOK /\ PoolOK /\ WorkersOK /\ Control \in Stoppers /\ Control \notin Workers /\ threads \in Seq(Workers)
  BY DEF WsgiTypeOK, Stoppers, PoolOK, Workers, Control
<1> DEFINE InPool == \A i \in Living : \/ \E k \in DOMAIN threads : threads[k] = i
                                       \/ Outside \in {"join", "force", "last"} /\ stop[Control].of = i
<1>2. CASE StopCloses(Control)
  <2>1. /\ Outside = "close" /\ Outside' = "pills" /\ socket' = FALSE /\ past' = past /\ counts' = counts
        /\ threads' = threads /\ Living' = Living /\ Pills' = Pills /\ unseen' = unseen
    BY <1>1, <1>2 DEF StopCloses, StopGoes, StopsOK, Outside, poolVars, Living, Pills
  <2>2. (Room' <=> Room) /\ (Alone' <=> Alone)
    BY <2>1 DEF Room, Spare, Alone
  <2>3. Alone /\ counts.stop <= counts.start => Room
    BY <1>1, <2>1 DEF PillsInOrder, StartsInOrder, ServerOK
  <2>4. QED
    BY <2>1, <2>2, <2>3 DEF PillsInOrder
<1>3. CASE StopPutsPills(Control)
  <2>1. /\ Outside = "pills" /\ Outside' = "pop" /\ socket' = socket /\ past' = past
        /\ threads' = threads /\ Living' = Living
    BY <1>1, <1>3 DEF StopPutsPills, StopGoes, StopsOK, Outside, poolVars, Living
  <2>2. ~socket
    BY <1>1, <2>1 DEF StopsInOrder, Outside
  <2>3. (Alone => InPool)'
    BY <2>1 DEF PillsInOrder, Alone
  <2>4. QED
    BY <2>1, <2>2, <2>3 DEF PillsInOrder
<1>4. CASE StopPops(Control)
  <2>1. /\ Outside = "pop" /\ socket' = socket /\ past' = past /\ threads # <<>>
        /\ threads' = Front(threads) /\ Living' = Living
    BY <1>1, <1>4 DEF StopPops, Outside, Living
  <2>2. ~socket
    BY <1>1, <2>1 DEF StopsInOrder, Outside
  <2>3. /\ threads' \in Seq(Workers) /\ Len(threads') = Len(threads) - 1 /\ Last(threads) = threads[Len(threads)]
        /\ \A k \in 1..Len(threads') : threads'[k] = threads[k]
        /\ Len(threads) \in Nat \ {0} /\ DOMAIN threads = 1..Len(threads) /\ DOMAIN threads' = 1..Len(threads')
    BY <1>1, <2>1, FrontOf
  <2>4. Last(threads) \in Workers /\ Last(threads) # Control
    BY <1>1, <2>3
  <2>5. \/ Outside' = "pop" /\ Last(threads) \notin Living
        \/ Outside' = "join" /\ stop'[Control].of = Last(threads)
    BY <1>1, <1>4, <2>1, <2>4 DEF StopPops, Outside, StopsOK, StopRecords, Living
  <2>6. (Alone => InPool)'
    <3> SUFFICES ASSUME Alone, NEW i \in Living
                 PROVE  \/ \E k \in DOMAIN threads' : threads'[k] = i
                        \/ Outside' \in {"join", "force", "last"} /\ stop'[Control].of = i
      BY <2>1 DEF Alone
    <3>1. PICK k \in DOMAIN threads : threads[k] = i
      BY <2>1 DEF PillsInOrder
    <3>2. CASE k = Len(threads)
      BY <2>3, <2>5, <3>1, <3>2
    <3>3. CASE k # Len(threads)
      BY <2>3, <3>1, <3>3
    <3>4. QED
      BY <3>2, <3>3
  <2>7. QED
    BY <2>1, <2>2, <2>5, <2>6 DEF PillsInOrder
<1>5. CASE StopJoins(Control)
  <2>1. /\ Outside \in {"join", "last"} /\ Outside' = "pop" /\ socket' = socket /\ past' = past
        /\ threads' = threads /\ Living' = Living /\ stop[Control].of \notin Living
    BY <1>1, <1>5 DEF StopJoins, Idle, StopsOK, Outside, poolVars, Living
  <2>2. ~socket
    BY <1>1, <2>1 DEF StopsInOrder, Outside
  <2>3. (Alone => InPool)'
    BY <2>1 DEF PillsInOrder, Alone
  <2>4. QED
    BY <2>1, <2>2, <2>3 DEF PillsInOrder
<1>6. CASE StopTimesOut(Control) \/ StopForces(Control)
  <2>1. /\ Outside \in {"join", "force"} /\ Outside' \in {"force", "last"} /\ socket' = socket /\ past' = past
        /\ threads' = threads /\ Living' = Living /\ stop'[Control].of = stop[Control].of
    <3>1. CASE StopTimesOut(Control)
      BY <1>1, <3>1 DEF StopTimesOut, StopsOK, StopRecords, Outside, poolVars, Living
    <3>2. CASE StopForces(Control)
      BY <1>1, <3>2 DEF StopForces, StopsOK, StopRecords, Outside, poolVars, Living
    <3>3. QED
      BY <1>6, <3>1, <3>2
  <2>2. ~socket
    BY <1>1, <2>1 DEF StopsInOrder, Outside
  <2>3. (Alone => InPool)'
    BY <2>1 DEF PillsInOrder, Alone
  <2>4. QED
    BY <2>1, <2>2, <2>3 DEF PillsInOrder
<1>7. CASE StopFails(Control)
  <2>1. ~Alone'
    BY <1>7 DEF StopFails, Alone
  <2>2. QED
    BY <2>1 DEF PillsInOrder
<1>8. CASE StopReturns(Control)
  <2>1. /\ Outside = "pop" /\ Outside' = "no" /\ socket' = socket /\ past' = past
        /\ threads = <<>> /\ threads' = threads /\ worker' = worker
    BY <1>1, <1>8 DEF StopReturns, Idle, StopsOK, Outside
  <2>2. Living' = Living /\ ~socket
    BY <1>1, <2>1 DEF StopsInOrder, Outside, Living
  <2>3. Alone => Living = {}
    <3>1. Alone => \A i \in Living : \E k \in DOMAIN threads : threads[k] = i
      BY <2>1 DEF PillsInOrder
    <3>2. DOMAIN threads = {}
      BY <2>1
    <3>3. QED
      BY <3>1, <3>2
  <2>4. (Alone => InPool)'
    BY <2>1, <2>2, <2>3 DEF Alone
  <2>5. QED
    BY <2>1, <2>2, <2>4 DEF PillsInOrder
<1>9. QED
  BY <1>2, <1>3, <1>4, <1>5, <1>6, <1>7, <1>8 DEF StopStep

(* The steps of a stop that a worker has called.                               *)
LEMMA PillsElsewhere ==
  ASSUME WsgiTypeOK, StopsInOrder, NEW x \in Workers, StopStep(x)
  PROVE  PillsInOrder'
<1>1. past \subseteq past' /\ Stopping(x)
  BY DEF StopStep, StopCloses, StopPutsPills, StopPops, StopJoins, StopTimesOut, StopForces, StopFails, StopReturns, Stopping
<1>2. ~Alone'
  BY <1>1 DEF StopsInOrder, Alone
<1>3. QED
  BY <1>2 DEF PillsInOrder


(* The shutdown requests stay in order with the threads.                       *)
LEMMA PillsInOrderStep ==
  ASSUME WsgiTypeOK, Numbered, StopsInOrder, StartsInOrder, PillsInOrder, WsgiNext \/ UNCHANGED vars, ~GrowsLate \/ UNCHANGED vars
  PROVE  PillsInOrder'
<1>0. /\ ServerOK /\ ServerOK' /\ WorkersOK /\ StopsOK /\ Control \in Stoppers /\ Control \notin Workers
      /\ counts.stop \in Nat
  BY TypeStep DEF WsgiTypeOK, Stoppers, Workers, Control, ServerOK
<1>1. CASE Start
  BY <1>1, PillsStart
<1>2. CASE Serve
  BY <1>0, <1>2, PillsStill DEF Serve, poolVars, Living, Pills
<1>3. CASE Loop
  BY <1>0, <1>3, PillsStill DEF Loop, poolVars, Living, Pills
<1>4. CASE Tick
  BY <1>0, <1>4, PillsStill DEF Tick, poolVars, Living, Pills
<1>5. CASE Accept
  BY <1>0, <1>5, PillsStill DEF Accept, poolVars, Living, Pills
<1>6. CASE AcceptReturns
  BY <1>0, <1>6, PillsStill DEF AcceptReturns, poolVars, Living, Pills
<1>7. CASE Accepted
  BY <1>0, <1>7, PillsStill DEF Accepted, poolVars, Living, Pills
<1>8. CASE Put
  <2>1. Pills' = Pills /\ Living' = Living
    BY <1>8, PillsPut DEF Put, Living
  <2>2. QED
    BY <1>0, <1>8, <2>1, PillsStill DEF Put
<1>9. CASE Check
  BY <1>0, <1>9, PillsStill DEF Check, poolVars, Living, Pills
<1>10. ASSUME NEW i \in Workers, Get(i) PROVE PillsInOrder'
  BY <1>10, PillsTaken
<1>11. ASSUME NEW i \in Workers, Read(i) PROVE PillsInOrder'
  <2>1. \A j \in Workers : worker'[j].at \in {"new", "dead"} <=> worker[j].at \in {"new", "dead"}
    BY <1>0, <1>11 DEF Read, Goes, WorkersOK, WorkerRecords
  <2>2. Living' = Living
    BY <2>1, LivingSame
  <2>3. /\ threads' = threads /\ queue' = queue /\ socket' = socket /\ stop'[Control] = stop[Control] /\ past \subseteq past'
        /\ counts'.start = counts.start /\ counts'.stop >= counts.stop /\ unseen' = unseen
    BY <1>0, <1>11 DEF Read
  <2>4. Pills' = Pills
    BY <2>3 DEF Pills
  <2>5. QED
    BY <1>0, <2>2, <2>3, <2>4, PillsStill
<1>12. ASSUME NEW i \in Workers, Respond(i) PROVE PillsInOrder'
  <2>1. \A j \in Workers : worker'[j].at \in {"new", "dead"} <=> worker[j].at \in {"new", "dead"}
    BY <1>0, <1>12, RespondMoves
  <2>2. Living' = Living
    BY <2>1, LivingSame
  <2>3. /\ threads' = threads /\ queue' = queue /\ socket' = socket /\ stop'[Control] = stop[Control] /\ past \subseteq past'
        /\ counts'.start = counts.start /\ counts'.stop >= counts.stop /\ unseen' = unseen
    <3>1. /\ threads' = threads /\ queue' = queue /\ socket' = socket /\ stop' = stop /\ unseen' = unseen
      BY <1>12 DEF Respond
    <3>2. \/ counts' = [counts EXCEPT !.stop = @ + 1] /\ past' = past \cup {"interrupt"}
          \/ counts' = counts /\ past' = past
      BY <1>0, <1>12, RespondMoves
    <3>3. counts'.start = counts.start /\ counts'.stop >= counts.stop
      BY <1>0, <3>2 DEF ServerOK
    <3>4. QED
      BY <3>1, <3>2, <3>3
  <2>4. Pills' = Pills
    BY <2>3 DEF Pills
  <2>5. QED
    BY <1>0, <2>2, <2>3, <2>4, PillsStill
<1>13. ASSUME NEW i \in Workers, Close(i) PROVE PillsInOrder'
  <2>1. \A j \in Workers : worker'[j].at \in {"new", "dead"} <=> worker[j].at \in {"new", "dead"}
    BY <1>0, <1>13, CloseMoves
  <2>2. Living' = Living
    BY <2>1, LivingSame
  <2>3. /\ threads' = threads /\ queue' = queue /\ socket' = socket /\ stop'[Control] = stop[Control] /\ past \subseteq past'
        /\ counts'.start = counts.start /\ counts'.stop >= counts.stop /\ unseen' = unseen
    BY <1>0, <1>13 DEF Close
  <2>4. Pills' = Pills
    BY <2>3 DEF Pills
  <2>5. QED
    BY <1>0, <2>2, <2>3, <2>4, PillsStill
<1>14. ASSUME NEW i \in Workers, Interrupt(i) PROVE PillsInOrder'
  <2>1. \A j \in Workers : worker'[j].at \in {"new", "dead"} <=> worker[j].at \in {"new", "dead"}
    BY <1>0, <1>14 DEF Interrupt, Goes, WorkersOK, WorkerRecords
  <2>2. Living' = Living
    BY <2>1, LivingSame
  <2>3. /\ threads' = threads /\ queue' = queue /\ socket' = socket /\ stop'[Control] = stop[Control] /\ past \subseteq past'
        /\ counts'.start = counts.start /\ counts'.stop >= counts.stop /\ unseen' = unseen
    BY <1>0, <1>14 DEF Interrupt, BeginsStop, StopsOK
  <2>4. Pills' = Pills
    BY <2>3 DEF Pills
  <2>5. QED
    BY <1>0, <2>2, <2>3, <2>4, PillsStill
<1>15. ASSUME NEW x \in Stoppers, CallStop(x) PROVE PillsInOrder'
  <2>1. CASE x = Control
    <3>1. /\ Outside = "no" /\ Outside' = "close" /\ socket' = socket /\ past' = past /\ unseen' = unseen
          /\ threads' = threads /\ Living' = Living /\ Pills' = Pills
      BY <1>0, <1>15, <2>1 DEF CallStop, BeginsStop, StopsOK, StopRecords, Outside, Stopping, poolVars, Living, Pills
    <3>2. (Room' <=> Room) /\ (Alone' <=> Alone)
      BY <3>1 DEF Room, Spare, Alone
    <3>3. QED
      BY <3>1, <3>2 DEF PillsInOrder
  <2>2. CASE x # Control
    <3>1. ~Alone'
      BY <1>15, <2>2 DEF CallStop, Alone
    <3>2. QED
      BY <3>1 DEF PillsInOrder
  <2>3. QED
    BY <2>1, <2>2
<1>16. ASSUME NEW x \in Stoppers, StopCloses(x) PROVE PillsInOrder'
  BY <1>16, PillsStopping, PillsElsewhere DEF StopStep, Stoppers
<1>17. ASSUME NEW x \in Stoppers, StopPutsPills(x) PROVE PillsInOrder'
  BY <1>17, PillsStopping, PillsElsewhere DEF StopStep, Stoppers
<1>18. ASSUME NEW x \in Stoppers, StopPops(x) PROVE PillsInOrder'
  BY <1>18, PillsStopping, PillsElsewhere DEF StopStep, Stoppers
<1>19. ASSUME NEW x \in Stoppers, StopJoins(x) PROVE PillsInOrder'
  BY <1>19, PillsStopping, PillsElsewhere DEF StopStep, Stoppers
<1>20. ASSUME NEW x \in Stoppers, StopTimesOut(x) PROVE PillsInOrder'
  BY <1>20, PillsStopping, PillsElsewhere DEF StopStep, Stoppers
<1>21. ASSUME NEW x \in Stoppers, StopForces(x) PROVE PillsInOrder'
  BY <1>21, PillsStopping, PillsElsewhere DEF StopStep, Stoppers
<1>22. ASSUME NEW x \in Stoppers, StopFails(x) PROVE PillsInOrder'
  BY <1>22, PillsStopping, PillsElsewhere DEF StopStep, Stoppers
<1>23. ASSUME NEW x \in Stoppers, StopReturns(x) PROVE PillsInOrder'
  BY <1>23, PillsStopping, PillsElsewhere DEF StopStep, Stoppers
<1>24. ASSUME NEW amount \in Amounts, Grow(amount), ~UNCHANGED vars PROVE PillsInOrder'
  BY <1>0, <1>24, PillsGrow DEF GrowsLate, ServerOK
<1>25. ASSUME NEW amount \in Amounts, Shrink(amount) PROVE PillsInOrder'
  BY <1>25, PillsShrink
<1>26. ASSUME NEW c \in Conns, ClientStep(c) PROVE PillsInOrder'
  BY <1>0, <1>26, PillsStill DEF ClientStep, poolVars, Living, Pills
<1>27. CASE UNCHANGED vars
  BY <1>0, <1>27, PillsStill DEF vars, poolVars, Living, Pills
<1>28. QED
  BY <1>1, <1>2, <1>3, <1>4, <1>5, <1>6, <1>7, <1>8, <1>9, <1>10, <1>11, <1>12, <1>13, <1>14, <1>15, <1>16, <1>17, <1>18, <1>19, <1>20, <1>21, <1>22, <1>23, <1>24, <1>25, <1>26, <1>27, StepCases


(* A step that lets no connection that is owed go.                             *)
LEMMA OwedStill ==
  ASSUME WsgiTypeOK, OwedAreKept, Owing' => Owing, owed' = owed, Living' = Living, queue' = queue,
         \A c \in Conns : conn[c].at = "closed" => conn'[c].at = "closed",
         \A i \in Workers : worker'[i].conn = worker[i].conn
  PROVE  OwedAreKept'
<1> SUFFICES ASSUME Owing', NEW c \in owed' PROVE Safe(c)'
  BY DEF OwedAreKept, Owing
<1>1. Safe(c) /\ c \in Conns
  BY DEF OwedAreKept, Owing, WsgiTypeOK, ServerOK
<1>2. CASE conn[c].at = "closed"
  BY <1>1, <1>2 DEF Safe
<1>3. CASE \E i \in Workers : worker[i].conn = c
  BY <1>3 DEF Safe
<1>4. CASE \E k \in DOMAIN queue : queue[k] = c /\ PillsBefore(k) < Cardinality(Living)
  BY <1>4 DEF Safe, PillsBefore
<1>5. QED
  BY <1>1, <1>2, <1>3, <1>4 DEF Safe

(* What is queued behind it does not matter to a connection.                   *)
LEMMA OwedBehind ==
  ASSUME WsgiTypeOK, OwedAreKept, Put
  PROVE  OwedAreKept'
<1>0. queue \in Seq(Conns \cup {Pill}) /\ Len(queue) \in Nat
  BY DEF WsgiTypeOK, PoolOK
<1> SUFFICES ASSUME Owing', NEW c \in owed' PROVE Safe(c)'
  BY DEF OwedAreKept, Owing
<1>1. Safe(c) /\ conn' = conn /\ worker' = worker /\ Living' = Living
  BY DEF OwedAreKept, Owing, Alone, Outside, Put, Living
<1>2. CASE conn[c].at = "closed" \/ \E i \in Workers : worker[i].conn = c
  BY <1>1, <1>2 DEF Safe
<1>3. CASE \E k \in DOMAIN queue : queue[k] = c /\ PillsBefore(k) < Cardinality(Living)
  <2>1. PICK k \in 1..Len(queue) : queue[k] = c /\ PillsBefore(k) < Cardinality(Living)
    BY <1>0, <1>3
  <2>2. PICK p : p = queue'
    OBVIOUS
  <2>3. DOMAIN p = 1..(Len(queue) + 1) /\ \A j \in 1..Len(queue) : p[j] = queue[j]
    BY <1>0, <2>2 DEF Put
  <2>4. Requests(p, k - 1) = Requests(queue, k - 1)
    BY <1>0, <2>1, <2>3, RequestsSame
  <2>5. k \in DOMAIN p /\ p[k] = c /\ Cardinality(Requests(p, k - 1)) < Cardinality(Living)
    BY <1>0, <2>1, <2>3, <2>4 DEF PillsBefore
  <2>6. QED
    BY <1>1, <2>2, <2>5 DEF Safe, PillsBefore
<1>4. QED
  BY <1>1, <1>2, <1>3 DEF Safe

(* A connection moves up, or is taken by a worker.                             *)
LEMMA OwedMovesUp ==
  ASSUME WsgiTypeOK, OwedAreKept, NEW i \in Workers, Get(i)
  PROVE  OwedAreKept'
<1>0. queue \in Seq(Conns \cup {Pill}) /\ Len(queue) \in Nat /\ WorkersOK /\ PoolOK /\ Pill \notin Conns /\ None \notin Conns
  BY ServerAssumption DEF WsgiTypeOK, PoolOK
<1> SUFFICES ASSUME Owing', NEW c \in owed' PROVE Safe(c)'
  BY DEF OwedAreKept, Owing
<1>1. Safe(c) /\ conn' = conn /\ c \in Conns /\ c # Pill
  BY <1>0 DEF OwedAreKept, Owing, Alone, Outside, Get, WsgiTypeOK, ServerOK
<1>2. CASE conn[c].at = "closed"
  BY <1>1, <1>2 DEF Safe
<1>3. CASE \E j \in Workers : worker[j].conn = c
  <2>1. PICK j \in Workers : worker[j].conn = c
    BY <1>3
  <2>2. j # i
    BY <1>0, <1>1, <2>1 DEF Get, WorkersOK
  <2>3. worker'[j] = worker[j]
    BY <1>0, <2>2, GetMoves
  <2>4. QED
    BY <2>1, <2>3 DEF Safe
<1>4. CASE \E k \in DOMAIN queue : queue[k] = c /\ PillsBefore(k) < Cardinality(Living)
  <2>1. PICK k \in 1..Len(queue) : queue[k] = c /\ PillsBefore(k) < Cardinality(Living)
    BY <1>0, <1>4
  <2>2. PICK p : p = queue'
    OBVIOUS
  <2>3. queue # <<>> /\ Head(queue) = queue[1] /\ p = Tail(queue)
    BY <1>0, <2>2 DEF Get
  <2>4. DOMAIN p = 1..(Len(queue) - 1) /\ \A j \in 1..(Len(queue) - 1) : p[j] = queue[j + 1]
    BY <1>0, <2>3
  <2>5. CASE k = 1
    <3>1. worker'[i].conn = c
      BY <1>0, <1>1, <2>1, <2>3, <2>5, GetMoves
    <3>2. QED
      BY <3>1 DEF Safe
  <2>6. CASE k # 1
    <3>1. PICK m : m = k - 1
      OBVIOUS
    <3>2. m \in Nat \ {0} /\ m \in 1..(Len(queue) - 1) /\ k = m + 1
      BY <1>0, <2>1, <2>6, <3>1
    <3>3. m \in DOMAIN p /\ p[m] = c
      BY <2>1, <2>4, <3>2
    <3>4. Cardinality(Requests(p, m - 1)) = Cardinality(Requests(queue, m)) - (IF queue[1] = Pill THEN 1 ELSE 0)
      <4>1. \A j \in 1..(m - 1) : p[j] = queue[j + 1]
        BY <1>0, <2>4, <3>2
      <4>2. QED
        BY <3>2, <4>1, RequestsMoveUp
    <3>5. Cardinality(Living') = Cardinality(Living) - (IF queue[1] = Pill THEN 1 ELSE 0)
      BY <2>3, PillsGet
    <3>6. Cardinality(Requests(queue, m)) < Cardinality(Living) /\ Cardinality(Requests(queue, m)) \in Nat /\ Cardinality(Living) \in Nat
      BY <2>1, <3>1, <3>2, RequestsFinite, LivingFinite DEF PillsBefore
    <3>7. Cardinality(Requests(p, m - 1)) < Cardinality(Living')
      BY <3>4, <3>5, <3>6
    <3>8. QED
      BY <2>2, <3>3, <3>7 DEF Safe, PillsBefore
  <2>7. QED
    BY <2>5, <2>6
<1>5. QED
  BY <1>1, <1>2, <1>3, <1>4 DEF Safe

(* A connection that a worker holds is closed by it.                           *)
LEMMA OwedCloses ==
  ASSUME WsgiTypeOK, OwedAreKept, NEW i \in Workers, Close(i)
  PROVE  OwedAreKept'
<1>0. WorkersOK /\ ConnsOK /\ worker[i].conn \in Conns
  BY DEF WsgiTypeOK, WorkersOK, Close
<1> SUFFICES ASSUME Owing', NEW c \in owed' PROVE Safe(c)'
  BY DEF OwedAreKept, Owing
<1>1. Safe(c) /\ queue' = queue /\ c \in Conns
  BY DEF OwedAreKept, Owing, Alone, Outside, Close, WsgiTypeOK, ServerOK
<1>2. Living' = Living
  <2>1. \A j \in Workers : worker'[j].at \in {"new", "dead"} <=> worker[j].at \in {"new", "dead"}
    BY <1>0, CloseMoves
  <2>2. QED
    BY <2>1, LivingSame
<1>3. /\ conn'[worker[i].conn].at = "closed"
      /\ \A d \in Conns : conn[d].at = "closed" => conn'[d].at = "closed"
  BY <1>0 DEF Close, ConnsOK, ConnRecords
<1>4. CASE conn[c].at = "closed"
  BY <1>1, <1>3, <1>4 DEF Safe
<1>5. CASE \E j \in Workers : worker[j].conn = c
  <2>1. PICK j \in Workers : worker[j].conn = c
    BY <1>5
  <2>2. CASE j = i
    BY <1>3, <2>1, <2>2 DEF Safe
  <2>3. CASE j # i
    <3>1. worker'[j] = worker[j]
      BY <1>0, <2>3, CloseMoves
    <3>2. QED
      BY <2>1, <3>1 DEF Safe
  <2>4. QED
    BY <2>2, <2>3
<1>6. CASE \E k \in DOMAIN queue : queue[k] = c /\ PillsBefore(k) < Cardinality(Living)
  BY <1>1, <1>2, <1>6 DEF Safe, PillsBefore
<1>7. QED
  BY <1>1, <1>4, <1>5, <1>6 DEF Safe

(* When the shutdown requests are put, what is queued comes before them, and   *)
(* the requests that calls of shrink have left are fewer than the threads.     *)
LEMMA OwedBegins ==
  ASSUME WsgiTypeOK, PillsInOrder, StopPutsPills(Control)
  PROVE  OwedAreKept'
<1>0. queue \in Seq(Conns \cup {Pill}) /\ Len(queue) \in Nat /\ MinSize \in Nat \ {0} /\ Len(threads) \in Nat
  BY ServerAssumption DEF WsgiTypeOK, PoolOK
<1> SUFFICES ASSUME Owing', NEW c \in owed' PROVE Safe(c)'
  BY DEF OwedAreKept, Owing
<1>1. /\ worker' = worker /\ Living' = Living /\ Outside = "pills" /\ past' = past /\ counts' = counts
      /\ unseen' = unseen /\ unseen \in Nat /\ PutsPills(Len(threads))
  BY DEF WsgiTypeOK, UnseenOK, StopPutsPills, Living, Outside
<1>2. c \in ToSet(queue) \/ \E i \in Workers : worker[i].conn = c
  BY DEF StopPutsPills
<1>3. CASE \E i \in Workers : worker[i].conn = c
  BY <1>1, <1>3 DEF Safe
<1>4. CASE c \in ToSet(queue)
  <2>1. PICK k \in 1..Len(queue) : queue[k] = c
    BY <1>0, <1>4 DEF ToSet
  <2>2. PICK p : p = queue'
    OBVIOUS
  <2>3. Len(p) = Len(queue) + Len(threads) /\ p \in Seq(Conns \cup {Pill}) /\ \A j \in 1..Len(queue) : p[j] = queue[j]
    <3>1. queue' = queue \o [j \in 1..Len(threads) |-> Pill]
      <4>1. (IF Len(threads) > 0 THEN Len(threads) ELSE 0) = Len(threads)
        BY <1>0
      <4>2. QED
        BY <1>1, <4>1 DEF PutsPills
    <3>2. QED
      BY <1>0, <2>2, <3>1, QueuedPills
  <2>4. k \in DOMAIN p /\ p[k] = c
    BY <1>0, <2>1, <2>3
  <2>5. Requests(p, k - 1) = Requests(queue, k - 1)
    BY <1>0, <2>1, <2>3, RequestsSame
  <2>6. Cardinality(Requests(queue, k - 1)) <= Pills /\ Pills \in Nat /\ Cardinality(Requests(queue, k - 1)) \in Nat
    <3>1. PICK S : S = Conns \cup {Pill}
      OBVIOUS
    <3>2. Pills = Cardinality(Requests(queue, Len(queue))) /\ Pills \in Nat
      BY <1>0, <3>1, PillsAreRequests
    <3>3. k - 1 \in Int /\ Len(queue) \in Int /\ k - 1 <= Len(queue)
      BY <1>0, <2>1
    <3>4. QED
      BY <3>2, <3>3, RequestsFinite
  <2>7. Room /\ Cardinality(Living) \in Nat
    BY <1>1, LivingFinite DEF PillsInOrder, Owing, Alone
  <2>8. Cardinality(Requests(p, k - 1)) < Cardinality(Living)
    BY <1>0, <1>1, <2>5, <2>6, <2>7 DEF Room, Spare, Owing
  <2>9. QED
    BY <1>1, <2>2, <2>4, <2>8 DEF Safe, PillsBefore
<1>5. QED
  BY <1>2, <1>3, <1>4


(* What is owed is kept by every step.                                         *)
LEMMA OwedAreKeptStep ==
  ASSUME WsgiTypeOK, Numbered, StopsInOrder, PillsInOrder, OwedAreKept, WsgiNext \/ UNCHANGED vars
  PROVE  OwedAreKept'
<1>0. /\ ServerOK /\ WorkersOK /\ StopsOK /\ ConnsOK /\ Control \in Stoppers /\ Control \notin Workers
      /\ StopsInOrder' /\ ServerOK'
  BY TypeStep, StopsInOrderStep DEF WsgiTypeOK, Stoppers, Workers, Control
<1>00. ~Owing' => OwedAreKept'
  BY DEF OwedAreKept, Owing
<1>1. CASE Start
  <2>1. Outside' = "no"
    BY <1>0, <1>1 DEF Start, Stopping, Outside, StopsOK
  <2>2. QED
    BY <1>00, <2>1 DEF Owing
<1>2. CASE Serve
  BY <1>2, OwedStill DEF Serve, poolVars, Living, Owing, Alone, Outside
<1>3. CASE Loop
  BY <1>3, OwedStill DEF Loop, poolVars, Living, Owing, Alone, Outside
<1>4. CASE Tick
  BY <1>4, OwedStill DEF Tick, poolVars, Living, Owing, Alone, Outside
<1>5. CASE Accept
  <2>1. \A d \in Conns : conn[d].at = "closed" => conn'[d].at = "closed"
    BY <1>0, <1>5 DEF Accept, ConnsOK, ConnRecords, ServerOK
  <2>2. QED
    BY <1>5, <2>1, OwedStill DEF Accept, poolVars, Living, Owing, Alone, Outside
<1>6. CASE AcceptReturns
  BY <1>6, OwedStill DEF AcceptReturns, poolVars, Living, Owing, Alone, Outside
<1>7. CASE Accepted
  <2>1. \A d \in Conns : conn[d].at = "closed" => conn'[d].at = "closed"
    BY <1>0, <1>7 DEF Accepted, ConnsOK, ConnRecords, ServerOK
  <2>2. QED
    BY <1>7, <2>1, OwedStill DEF Accepted, poolVars, Living, Owing, Alone, Outside
<1>8. CASE Put
  BY <1>8, OwedBehind
<1>9. CASE Check
  BY <1>9, OwedStill DEF Check, poolVars, Living, Owing, Alone, Outside
<1>10. ASSUME NEW i \in Workers, Get(i) PROVE OwedAreKept'
  BY <1>10, OwedMovesUp
<1>11. ASSUME NEW i \in Workers, Read(i) PROVE OwedAreKept'
  <2>1. \A j \in Workers : worker'[j].conn = worker[j].conn /\ (worker'[j].at \in {"new", "dead"} <=> worker[j].at \in {"new", "dead"})
    BY <1>0, <1>11 DEF Read, Goes, WorkersOK, WorkerRecords
  <2>2. Living' = Living
    BY <2>1, LivingSame
  <2>3. Owing' => Owing
    BY <1>11 DEF Read, Owing, Alone, Outside
  <2>4. conn' = conn
    BY <1>11 DEF Read
  <2>5. owed' = owed /\ queue' = queue
    BY <1>11 DEF Read
  <2>6. QED
    BY <2>1, <2>2, <2>3, <2>4, <2>5, OwedStill
<1>12. ASSUME NEW i \in Workers, Respond(i) PROVE OwedAreKept'
  <2>1. \A j \in Workers : worker'[j].conn = worker[j].conn /\ (worker'[j].at \in {"new", "dead"} <=> worker[j].at \in {"new", "dead"})
    BY <1>0, <1>12, RespondMoves
  <2>2. Living' = Living
    BY <2>1, LivingSame
  <2>3. Owing' => Owing
    <3>1. stop' = stop /\ past \subseteq past' /\ unseen' = unseen
      BY <1>12 DEF Respond, Alone
    <3>2. worker'[i].exits => ~Alone'
      BY <1>0, <1>12, RespondMoves DEF Alone
    <3>3. ~worker'[i].exits => counts' = counts
      BY <1>0, <1>12, RespondMoves
    <3>4. QED
      BY <3>1, <3>2, <3>3 DEF Owing, Alone, Outside
  <2>4. \A d \in Conns : conn[d].at = "closed" => conn'[d].at = "closed"
    BY <1>0, <1>12 DEF Respond, ConnsOK, ConnRecords
  <2>5. owed' = owed /\ queue' = queue
    BY <1>12 DEF Respond
  <2>6. QED
    BY <2>1, <2>2, <2>3, <2>4, <2>5, OwedStill
<1>13. ASSUME NEW i \in Workers, Close(i) PROVE OwedAreKept'
  BY <1>13, OwedCloses
<1>14. ASSUME NEW i \in Workers, Interrupt(i) PROVE OwedAreKept'
  <2>1. ~Alone'
    BY <1>0, <1>14 DEF Interrupt, StopsInOrder, Alone
  <2>2. QED
    BY <1>00, <2>1 DEF Owing
<1>15. ASSUME NEW x \in Stoppers, CallStop(x) PROVE OwedAreKept'
  <2>1. CASE x = Control
    <3>1. Outside' = "close"
      BY <1>0, <1>15, <2>1 DEF CallStop, BeginsStop, StopsOK, StopRecords, Outside
    <3>2. QED
      BY <1>00, <3>1 DEF Owing
  <2>2. CASE x # Control
    BY <1>00, <1>15, <2>2 DEF CallStop, Owing, Alone
  <2>3. QED
    BY <2>1, <2>2
<1>16. ASSUME NEW x \in Stoppers, StopCloses(x) PROVE OwedAreKept'
  <2>1. CASE x \in Workers
    <3>1. Stopping(x) /\ past \subseteq past'
      BY <1>16 DEF StopCloses, Stopping
    <3>2. ~Alone'
      BY <2>1, <3>1 DEF StopsInOrder, Alone
    <3>3. QED
      BY <1>00, <3>2 DEF Owing
  <2>2. CASE x = Control
    <3>1. Outside' = "pills"
      BY <1>0, <1>16, <2>2 DEF StopCloses, StopGoes, StopsOK, StopRecords, Outside
    <3>2. QED
      BY <1>00, <3>1 DEF Owing
  <2>3. QED
    BY <2>1, <2>2 DEF Stoppers
<1>17. ASSUME NEW x \in Stoppers, StopPutsPills(x) PROVE OwedAreKept'
  <2>1. CASE x \in Workers
    <3>1. Stopping(x) /\ past \subseteq past'
      BY <1>17 DEF StopPutsPills, Stopping
    <3>2. ~Alone'
      BY <2>1, <3>1 DEF StopsInOrder, Alone
    <3>3. QED
      BY <1>00, <3>2 DEF Owing
  <2>2. CASE x = Control
    BY <1>17, <2>2, OwedBegins
  <2>3. QED
    BY <2>1, <2>2 DEF Stoppers
<1>18. ASSUME NEW x \in Stoppers, StopPops(x) PROVE OwedAreKept'
  <2>1. CASE x \in Workers
    <3>1. Stopping(x) /\ past \subseteq past'
      BY <1>18 DEF StopPops, Stopping
    <3>2. ~Alone'
      BY <2>1, <3>1 DEF StopsInOrder, Alone
    <3>3. QED
      BY <1>00, <3>2 DEF Owing
  <2>2. CASE x = Control
    <3>1. Outside \in {"pop", "join", "force", "last"} /\ past' = past /\ counts' = counts /\ unseen' = unseen
      BY <1>18, <2>2 DEF StopPops, Outside
    <3>2. QED
      BY <1>18, <3>1, OwedStill DEF StopPops, poolVars, Living, Owing, Alone
  <2>3. QED
    BY <2>1, <2>2 DEF Stoppers
<1>19. ASSUME NEW x \in Stoppers, StopJoins(x) PROVE OwedAreKept'
  <2>1. CASE x \in Workers
    <3>1. Stopping(x) /\ past \subseteq past'
      BY <1>19 DEF StopJoins, Stopping
    <3>2. ~Alone'
      BY <2>1, <3>1 DEF StopsInOrder, Alone
    <3>3. QED
      BY <1>00, <3>2 DEF Owing
  <2>2. CASE x = Control
    <3>1. Outside \in {"pop", "join", "force", "last"} /\ past' = past /\ counts' = counts /\ unseen' = unseen
      BY <1>19, <2>2 DEF StopJoins, Outside
    <3>2. QED
      BY <1>19, <3>1, OwedStill DEF StopJoins, poolVars, Living, Owing, Alone
  <2>3. QED
    BY <2>1, <2>2 DEF Stoppers
<1>20. ASSUME NEW x \in Stoppers, StopTimesOut(x) PROVE OwedAreKept'
  <2>1. CASE x \in Workers
    <3>1. Stopping(x) /\ past \subseteq past'
      BY <1>20 DEF StopTimesOut, Stopping
    <3>2. ~Alone'
      BY <2>1, <3>1 DEF StopsInOrder, Alone
    <3>3. QED
      BY <1>00, <3>2 DEF Owing
  <2>2. CASE x = Control
    <3>1. Outside \in {"pop", "join", "force", "last"} /\ past' = past /\ counts' = counts /\ unseen' = unseen
      BY <1>20, <2>2 DEF StopTimesOut, Outside
    <3>2. QED
      BY <1>20, <3>1, OwedStill DEF StopTimesOut, poolVars, Living, Owing, Alone
  <2>3. QED
    BY <2>1, <2>2 DEF Stoppers
<1>21. ASSUME NEW x \in Stoppers, StopForces(x) PROVE OwedAreKept'
  <2>1. CASE x \in Workers
    <3>1. Stopping(x) /\ past \subseteq past'
      BY <1>21 DEF StopForces, Stopping
    <3>2. ~Alone'
      BY <2>1, <3>1 DEF StopsInOrder, Alone
    <3>3. QED
      BY <1>00, <3>2 DEF Owing
  <2>2. CASE x = Control
    <3>1. Outside \in {"pop", "join", "force", "last"} /\ past' = past /\ counts' = counts /\ unseen' = unseen
      BY <1>21, <2>2 DEF StopForces, Outside
    <3>2. QED
      BY <1>21, <3>1, OwedStill DEF StopForces, poolVars, Living, Owing, Alone
  <2>3. QED
    BY <2>1, <2>2 DEF Stoppers
<1>22. ASSUME NEW x \in Stoppers, StopFails(x) PROVE OwedAreKept'
  <2>1. CASE x \in Workers
    <3>1. Stopping(x) /\ past \subseteq past'
      BY <1>22 DEF StopFails, Stopping
    <3>2. ~Alone'
      BY <2>1, <3>1 DEF StopsInOrder, Alone
    <3>3. QED
      BY <1>00, <3>2 DEF Owing
  <2>2. CASE x = Control
    BY <1>00, <1>22 DEF StopFails, Owing, Alone
  <2>3. QED
    BY <2>1, <2>2 DEF Stoppers
<1>23. ASSUME NEW x \in Stoppers, StopReturns(x) PROVE OwedAreKept'
  <2>1. CASE x \in Workers
    <3>1. Stopping(x) /\ past \subseteq past'
      BY <1>23 DEF StopReturns, Stopping
    <3>2. ~Alone'
      BY <2>1, <3>1 DEF StopsInOrder, Alone
    <3>3. QED
      BY <1>00, <3>2 DEF Owing
  <2>2. CASE x = Control
    <3>1. Outside' = "no"
      BY <1>0, <1>23, <2>2 DEF StopReturns, Idle, StopsOK, StopRecords, Outside
    <3>2. QED
      BY <1>00, <3>1 DEF Owing
  <2>3. QED
    BY <2>1, <2>2 DEF Stoppers
<1>24. ASSUME NEW amount \in Amounts, Grow(amount) PROVE OwedAreKept'
  <2>1. Outside' = "no"
    BY <1>24 DEF Grow, Stopping, Outside
  <2>2. QED
    BY <1>00, <2>1 DEF Owing
<1>25. ASSUME NEW amount \in Amounts, Shrink(amount) PROVE OwedAreKept'
  <2>1. Outside' = "no"
    BY <1>25 DEF Shrink, Stopping, Outside
  <2>2. QED
    BY <1>00, <2>1 DEF Owing
<1>26. ASSUME NEW c \in Conns, ClientStep(c) PROVE OwedAreKept'
  <2>1. \A d \in Conns : conn[d].at = "closed" => conn'[d].at = "closed"
    BY <1>0, <1>26 DEF ClientStep, ConnsOK, ConnRecords, ServerOK
  <2>2. QED
    BY <1>26, <2>1, OwedStill DEF ClientStep, poolVars, Living, Owing, Alone, Outside
<1>27. CASE UNCHANGED vars
  BY <1>27, OwedStill DEF vars, serverVars, poolVars, Living, Owing, Alone, Outside
<1>28. QED
  BY <1>1, <1>2, <1>3, <1>4, <1>5, <1>6, <1>7, <1>8, <1>9, <1>10, <1>11, <1>12, <1>13, <1>14, <1>15, <1>16, <1>17, <1>18, <1>19, <1>20, <1>21, <1>22, <1>23, <1>24, <1>25, <1>26, <1>27, StepCases


(* Nothing is made or called before the first start.                           *)
LEMMA NothingYetStep ==
  ASSUME WsgiTypeOK, NothingYet, WsgiNext \/ UNCHANGED vars
  PROVE  NothingYet'
<1>0. ServerOK /\ WorkersOK
  BY DEF WsgiTypeOK
<1> SUFFICES ASSUME server' = "out" PROVE NothingYet'
  BY DEF NothingYet
<1>1. CASE ServerStep
  BY <1>1 DEF ServerStep, Serve, Loop, Tick, Accept, AcceptReturns, Accepted, Put, Check
<1>2. CASE Start
  BY <1>2 DEF Start
<1>3. CASE server = "out" /\ ~Start /\ ~ServerStep
  <2>1. ~ready /\ counts.stop = 0 /\ \A i \in Workers : worker[i].at = "new"
    BY <1>3 DEF NothingYet
  <2>2. ASSUME NEW i \in Workers PROVE ~(Get(i) \/ Read(i) \/ Respond(i) \/ Close(i) \/ Interrupt(i))
    BY <2>1 DEF Get, Read, Respond, Close, Interrupt
  <2>3. ASSUME NEW x \in Stoppers PROVE ~CallStop(x)
    BY <1>3 DEF CallStop
  <2>4. ASSUME NEW amount \in Amounts PROVE ~Grow(amount) /\ ~Shrink(amount)
    BY <2>1 DEF Grow, Shrink
  <2>5. ASSUME NEW x \in Stoppers, StopStep(x) PROVE ready' = ready /\ counts' = counts /\ worker' = worker
    <3>1. x # Control => worker[x].at # "interrupt"
      BY <2>1 DEF Stoppers
    <3>2. QED
      BY <2>5, <3>1 DEF StopStep, StopCloses, StopPutsPills, StopPops, StopJoins, StopTimesOut, StopForces, StopFails, StopReturns, poolVars
  <2>6. ASSUME NEW c \in Conns, ClientStep(c) PROVE ready' = ready /\ counts' = counts /\ worker' = worker
    BY <2>6 DEF ClientStep, poolVars
  <2>7. CASE UNCHANGED vars
    BY <2>1, <2>7 DEF vars, poolVars, NothingYet
  <2>8. ready' = ready /\ counts' = counts /\ worker' = worker
    BY <1>3, <2>2, <2>3, <2>4, <2>5, <2>6, <2>7, StepCases DEF ServerStep, StopStep, vars, poolVars
  <2>9. QED
    BY <2>1, <2>8 DEF NothingYet
<1>4. QED
  <2>1. server = "out" \/ ServerStep \/ Start
    BY StepCases DEF ServerStep, Get, Read, Respond, Close, Interrupt, CallStop, StopCloses, StopPutsPills, StopPops, StopJoins,
         StopTimesOut, StopForces, StopFails, StopReturns, Grow, Shrink, ClientStep, vars, serverVars
  <2>2. QED
    BY <1>1, <1>2, <1>3, <2>1


-----------------------------------------------------------------------------
LEMMA InitInv ==
  ASSUME WsgiInit
  PROVE  WsgiInv /\ PoolInv
<1>1. MaxThreads \in Nat /\ MaxAsks \in Nat /\ MaxStops \in Nat /\ MaxSize \in Nat /\ None \notin Conns
  BY ServerAssumption
<1>2. WsgiTypeOK
  <2>1. ServerOK
    BY DEF WsgiInit, ServerOK
  <2>2. WorkersOK
    BY <1>1 DEF WsgiInit, WorkersOK, WorkerRecords
  <2>3. StopsOK
    BY DEF WsgiInit, StopsOK, StopRecords, Idle, Stoppers
  <2>4. ConnsOK
    BY <1>1 DEF WsgiInit, ConnsOK, ConnRecords
  <2>5. PoolOK
    BY DEF WsgiInit, PoolOK
  <2>6. UnseenOK
    BY DEF WsgiInit, UnseenOK
  <2>7. QED
    BY <2>1, <2>2, <2>3, <2>4, <2>5, <2>6 DEF WsgiTypeOK
<1>3. \A i \in Workers : worker[i].at = "new" /\ ~worker[i].exits
  BY DEF WsgiInit
<1>4. \A x \in Stoppers : stop[x].at = "no"
  BY DEF WsgiInit, Idle, Stoppers
<1>5. Control \in Stoppers /\ Workers \subseteq Stoppers
  BY DEF Stoppers
<1>6. Living = {} /\ ~socket
  BY <1>3 DEF WsgiInit, Living
<1>7. DOMAIN threads = {} /\ Len(threads) = 0
  BY DEF WsgiInit
<1>8. Numbered
  <2>1. \A i \in Workers : i > 0
    BY <1>1 DEF Workers
  <2>2. 0 \in 0..MaxThreads /\ \A i \in Workers : worker[i].at = "new" <=> i > 0
    BY <1>1, <1>3, <2>1
  <2>3. QED
    BY <1>7, <2>2 DEF Numbered
<1>9. NothingYet
  BY <1>3 DEF WsgiInit, NothingYet
<1>10. StopsInOrder
  BY <1>1, <1>3, <1>4, <1>5 DEF WsgiInit, StopsInOrder, Alone, Outside, Stopping
<1>11. StartsInOrder
  BY <1>4, <1>5 DEF WsgiInit, StartsInOrder, Outside
<1>12. PillsInOrder
  BY <1>4, <1>5, <1>6 DEF WsgiInit, PillsInOrder, Outside
<1>13. OwedAreKept
  BY <1>4, <1>5 DEF OwedAreKept, Owing, Outside
<1>14. PoolInv
  BY <1>1, <1>4, <1>6, <1>7 DEF PoolInv
<1>15. QED
  BY <1>2, <1>8, <1>9, <1>10, <1>11, <1>12, <1>13, <1>14 DEF WsgiInv

LEMMA StepInv ==
  ASSUME WsgiInv, WsgiNext \/ UNCHANGED vars, ~GrowsLate \/ UNCHANGED vars
  PROVE  WsgiInv'
<1>1. WsgiTypeOK /\ Numbered /\ NothingYet /\ StopsInOrder /\ StartsInOrder /\ PillsInOrder /\ OwedAreKept
  BY DEF WsgiInv
<1>2. WsgiTypeOK' /\ Numbered'
  BY <1>1, TypeStep, NumberedStep
<1>3. NothingYet'
  BY <1>1, NothingYetStep
<1>4. StopsInOrder'
  BY <1>1, StopsInOrderStep
<1>5. StartsInOrder'
  BY <1>1, StartsInOrderStep
<1>6. PillsInOrder'
  BY <1>1, PillsInOrderStep
<1>7. OwedAreKept'
  BY <1>1, OwedAreKeptStep
<1>8. QED
  BY <1>2, <1>3, <1>4, <1>5, <1>6, <1>7 DEF WsgiInv

(* A step with which a stop from outside ends, and without an error: it has    *)
(* popped the last thread.                                                     *)
LEMMA EndsByReturning ==
  ASSUME WsgiTypeOK, WsgiNext \/ UNCHANGED vars, Stopping(Control), ~Stopping(Control)', Alone'
  PROVE  StopReturns(Control)
<1>1. StopsOK /\ Control \in Stoppers /\ Control \notin Workers
  BY DEF WsgiTypeOK, Stoppers, Workers, Control
<1>2. Outside # "no" /\ stop'[Control].at = "no"
  BY DEF Stopping, Outside
<1>3. ASSUME NEW x \in Workers PROVE ~StopStep(x) /\ ~CallStop(x)
  BY <1>1, <1>2 DEF StopsOK, Outside, StopStep, StopCloses, StopPutsPills, StopPops, StopJoins, StopTimesOut, StopForces,
     StopFails, StopReturns, StopGoes, CallStop, BeginsStop
<1>4. ~StopCloses(Control) /\ ~StopPutsPills(Control) /\ ~CallStop(Control)
  BY <1>1, <1>2 DEF StopsOK, Outside, StopCloses, StopPutsPills, StopGoes, CallStop, BeginsStop, StopRecords
<1>5. ~StopPops(Control)
  BY <1>1, <1>2 DEF StopsOK, Outside, StopPops, StopRecords
<1>6. ~StopJoins(Control) /\ ~StopTimesOut(Control) /\ ~StopForces(Control)
  BY <1>1, <1>2 DEF StopsOK, Outside, StopJoins, StopTimesOut, StopForces, StopRecords, Idle
<1>7. ~StopFails(Control)
  BY DEF StopFails, Alone
<1>8. \A i \in Workers : ~(Get(i) \/ Read(i) \/ Respond(i) \/ Close(i))
  BY <1>2 DEF Outside, Get, Read, Respond, Close
<1>9. \A i \in Workers : ~Interrupt(i)
  BY <1>1, <1>2 DEF StopsOK, Outside, Interrupt, BeginsStop
<1>10. ~(Serve \/ Loop \/ Tick \/ Accept \/ AcceptReturns \/ Accepted \/ Put \/ Check) /\ ~Start
  BY <1>2 DEF Outside, Serve, Loop, Tick, Accept, AcceptReturns, Accepted, Put, Check, Start
<1>11. \A amount \in Amounts : ~Grow(amount) /\ ~Shrink(amount)
  BY <1>2 DEF Outside, Grow, Shrink
<1>12. ~(\E c \in Conns : ClientStep(c)) /\ ~UNCHANGED vars
  BY <1>2 DEF Outside, ClientStep, vars
<1>13. QED
  BY <1>3, <1>4, <1>5, <1>6, <1>7, <1>8, <1>9, <1>10, <1>11, <1>12, StepCases DEF StopStep, Stoppers

(* When it does, every thread has ended and nothing that was owed is left.     *)
LEMMA EndsWell ==
  ASSUME WsgiInv, Alone, counts.stop <= counts.start, unseen < MinSize, StopReturns(Control)
  PROVE  AllServed
<1>1. WorkersOK /\ ServerOK /\ Outside = "pop" /\ threads = <<>> /\ None \notin Conns
  BY ServerAssumption DEF WsgiInv, WsgiTypeOK, StopReturns, Outside
<1>2. Living = {}
  <2>1. \A i \in Living : \E k \in DOMAIN threads : threads[k] = i
    BY <1>1 DEF WsgiInv, PillsInOrder
  <2>2. DOMAIN threads = {}
    BY <1>1
  <2>3. QED
    BY <2>1, <2>2
<1>3. ASSUME NEW c \in owed PROVE conn[c].at = "closed"
  <2>1. Safe(c) /\ c \in Conns
    BY <1>1 DEF WsgiInv, OwedAreKept, Owing, ServerOK
  <2>2. \A i \in Workers : worker[i].conn # c
    BY <1>1, <1>2, <2>1 DEF WorkersOK, Living
  <2>3. \A k \in DOMAIN queue : ~(PillsBefore(k) < Cardinality(Living))
    <3>1. Cardinality(Living) = 0
      BY <1>2, FS_EmptySet
    <3>2. DOMAIN queue \subseteq Int
      BY DEF WsgiInv, WsgiTypeOK, PoolOK
    <3>3. \A k \in DOMAIN queue : PillsBefore(k) \in Nat
      BY <3>2, RequestsFinite DEF PillsBefore
    <3>4. QED
      BY <3>1, <3>3
  <2>4. QED
    BY <2>1, <2>2, <2>3 DEF Safe
<1>4. QED
  BY <1>2, <1>3 DEF AllServed

(* So it does with any step that ends one.                                     *)
LEMMA GracefulStep ==
  ASSUME WsgiInv, WsgiNext \/ UNCHANGED vars, Stopping(Control), ~Stopping(Control)', Alone',
         counts.stop <= counts.start, unseen < MinSize
  PROVE  AllServed
<1>1. StopReturns(Control)
  BY EndsByReturning DEF WsgiInv
<1>2. Alone
  BY <1>1 DEF StopReturns, Alone
<1>3. QED
  BY <1>1, <1>2, EndsWell

(* Once stop() has been called from outside as often as it is, and none of     *)
(* these calls runs any more, none runs again.                                 *)
Spent == ~Stopping(Control) /\ counts.stop >= MaxStops
StopInv == WsgiTypeOK /\ Numbered /\ NothingYet /\ StopsInOrder /\ (WsgiInv \/ Spent)

LEMMA SpentStays ==
  ASSUME WsgiTypeOK, WsgiTypeOK', Spent, WsgiNext \/ UNCHANGED vars
  PROVE  Spent'
<1>1. /\ StopsOK /\ Control \in Stoppers /\ Control \notin Workers /\ counts.stop \in Nat /\ counts'.stop \in Nat
      /\ MaxStops \in Nat /\ WorkersOK /\ counts \in [start : Nat, shrink : Nat, stop : Nat]
  BY ServerAssumption DEF WsgiTypeOK, ServerOK, Stoppers, Workers, Control
<1>2. stop[Control].at = "no" /\ counts.stop >= MaxStops
  BY DEF Spent, Stopping
<1>3. counts'.stop >= counts.stop
  <2>1. CASE \E i \in Workers : Respond(i)
    BY <1>1, <2>1, RespondMoves
  <2>2. CASE \E x \in Stoppers : CallStop(x)
    BY <1>1, <2>2 DEF CallStop
  <2>3. CASE Start
    BY <1>1, <2>3 DEF Start
  <2>4. CASE \E amount \in Amounts : Shrink(amount)
    BY <1>1, <2>4 DEF Shrink
  <2>5. CASE counts' = counts
    BY <1>1, <2>5
  <2>6. QED
    BY <2>1, <2>2, <2>3, <2>4, <2>5, StepCases DEF Serve, Loop, Tick, Accept, AcceptReturns, Accepted, Put, Check,
       Get, Read, Close, Interrupt, StopCloses, StopPutsPills, StopPops, StopJoins, StopTimesOut, StopForces, StopFails,
       StopReturns, Grow, ClientStep, vars
<1>4. stop'[Control].at = "no"
  <2>1. ASSUME NEW x \in Workers, StopStep(x) \/ CallStop(x) PROVE stop'[Control] = stop[Control]
    BY <1>1, <2>1 DEF StopsOK, StopStep, StopCloses, StopPutsPills, StopPops, StopJoins, StopTimesOut, StopForces,
       StopFails, StopReturns, StopGoes, CallStop, BeginsStop
  <2>2. ~StopStep(Control)
    BY <1>2 DEF StopStep, StopCloses, StopPutsPills, StopPops, StopJoins, StopTimesOut, StopForces, StopFails, StopReturns
  <2>3. ~CallStop(Control)
    BY <1>1, <1>2 DEF CallStop
  <2>4. ASSUME NEW i \in Workers, Interrupt(i) PROVE stop'[Control] = stop[Control]
    BY <1>1, <2>4 DEF StopsOK, Interrupt, BeginsStop
  <2>5. (\E x \in Stoppers : StopStep(x) \/ CallStop(x)) \/ (\E i \in Workers : Interrupt(i)) \/ stop' = stop
    BY StepCases DEF StopStep, Start, Serve, Loop, Tick, Accept, AcceptReturns, Accepted, Put, Check, Get, Read, Respond,
       Close, Grow, Shrink, ClientStep, vars
  <2>6. QED
    BY <1>2, <2>1, <2>2, <2>3, <2>4, <2>5 DEF Stoppers
<1>5. QED
  BY <1>1, <1>2, <1>3, <1>4 DEF Spent, Stopping

(* With one stop() at most, threads are made late only when it is over.        *)
LEMMA StopInvStep ==
  ASSUME MaxStops <= 1, StopInv, WsgiNext \/ UNCHANGED vars
  PROVE  StopInv'
<1>1. WsgiTypeOK /\ Numbered /\ NothingYet /\ StopsInOrder
  BY DEF StopInv
<1>2. WsgiTypeOK' /\ Numbered' /\ NothingYet' /\ StopsInOrder'
  BY <1>1, TypeStep, NumberedStep, NothingYetStep, StopsInOrderStep
<1>3. CASE Spent
  BY <1>1, <1>2, <1>3, SpentStays DEF StopInv
<1>4. CASE WsgiInv /\ (~GrowsLate \/ UNCHANGED vars)
  BY <1>2, <1>4, StepInv DEF StopInv
<1>5. CASE WsgiInv /\ GrowsLate
  <2>1. ready /\ ~socket /\ ~Stopping(Control)
    BY <1>5 DEF GrowsLate, Grow
  <2>2. server # "out"
    BY <1>1, <2>1 DEF NothingYet
  <2>3. counts.stop >= 1 /\ counts.stop \in Nat /\ MaxStops \in Nat
    BY <1>5, <2>1, <2>2, ServerAssumption DEF WsgiInv, StartsInOrder, WsgiTypeOK, ServerOK
  <2>4. Spent
    BY <2>1, <2>3 DEF Spent
  <2>5. QED
    BY <1>1, <1>2, <2>4, SpentStays DEF StopInv
<1>6. QED
  BY <1>3, <1>4, <1>5 DEF StopInv

-----------------------------------------------------------------------------
(***************************************************************************)
(* Every variable of the server keeps its type; the threads made are those *)
(* with the first numbers, and each is in the pool at most once            *)
(* (cherrPy-wsgi.py:1396-1450, 1762-1800).                                 *)
(***************************************************************************)
THEOREM ServerTypes == WsgiSpec => [](WsgiTypeOK /\ Numbered)
<1>1. WsgiInit => WsgiTypeOK /\ Numbered
  BY InitInv DEF WsgiInv
<1>2. WsgiTypeOK /\ Numbered /\ [WsgiNext]_vars => (WsgiTypeOK /\ Numbered)'
  BY TypeStep, NumberedStep
<1>3. QED
  BY <1>1, <1>2, PTL DEF WsgiSpec

(***************************************************************************)
(* While the server runs and listens, the threads that no shutdown request *)
(* waits for are fewer than MinSize by no more than what the last shrink() *)
(* or start() did not know of, and the pool lists no more than MaxSize,    *)
(* whatever is called, by whom, how often and in whatever order            *)
(* (cherrPy-wsgi.py:1404-1450).                                            *)
(***************************************************************************)
THEOREM PoolKeepsItsSize == WsgiSpec => []PoolSize
<1>1. WsgiInit => WsgiTypeOK /\ Numbered /\ PoolInv
  BY InitInv DEF WsgiInv
<1>2. WsgiTypeOK /\ Numbered /\ PoolInv /\ [WsgiNext]_vars => (WsgiTypeOK /\ Numbered /\ PoolInv)'
  BY TypeStep, NumberedStep, PoolInvStep
<1>3. PoolInv => PoolSize
  BY DEF PoolInv, Room, PoolSize
<1>4. QED
  BY <1>1, <1>2, <1>3, PTL DEF WsgiSpec

(***************************************************************************)
(* How the calls of stop(), the place of the thread in start(), the        *)
(* shutdown requests and the threads alive go together, for any number of  *)
(* threads, connections, starts, stops and calls of shrink(), when grow()  *)
(* is not called between a stop and the next start.                        *)
(***************************************************************************)
THEOREM ServerInvariant == WsgiSpec /\ [][~GrowsLate]_vars => []WsgiInv
<1>1. WsgiInit => WsgiInv
  BY InitInv
<1>2. WsgiInv /\ [WsgiNext]_vars /\ [~GrowsLate]_vars => WsgiInv'
  BY StepInv
<1>3. QED
  BY <1>1, <1>2, PTL DEF WsgiSpec

(***************************************************************************)
(* When a stop from outside returns, every thread has ended and every      *)
(* connection that was queued or in service when the shutdown requests     *)
(* were put has been closed (cherrPy-wsgi.py:1453-1487, 1892): of a server *)
(* on which stop() is called once, and grow() and shrink() at any time.    *)
(***************************************************************************)
THEOREM StopIsGraceful ==
  ASSUME MaxStops <= 1
  PROVE  WsgiSpec => GracefulStop
<1>1. WsgiInit => StopInv
  BY InitInv DEF StopInv, WsgiInv
<1>2. StopInv /\ [WsgiNext]_vars => StopInv'
  BY StopInvStep
<1>3. StopInv /\ [WsgiNext]_vars =>
        [Stopping(Control) /\ ~Stopping(Control)' /\ past' \subseteq {"shrink"}
         /\ counts.stop <= counts.start /\ unseen < MinSize => AllServed]_vars
  <2> SUFFICES ASSUME StopInv, WsgiNext \/ UNCHANGED vars, Stopping(Control), ~Stopping(Control)', Alone',
                      counts.stop <= counts.start, unseen < MinSize
               PROVE  AllServed
    BY DEF Alone
  <2>1. WsgiInv
    BY DEF StopInv, Spent
  <2>2. QED
    BY <2>1, GracefulStep
<1>4. QED
  BY <1>1, <1>2, <1>3, PTL DEF WsgiSpec, GracefulStop

(***************************************************************************)
(* The same of a server that is stopped and started again and again, as    *)
(* long as grow() is not called between a stop and the next start.         *)
(***************************************************************************)
THEOREM EachStopIsGraceful == WsgiSpec /\ [][~GrowsLate]_vars => GracefulStop
<1>1. WsgiInv /\ [WsgiNext]_vars =>
        [Stopping(Control) /\ ~Stopping(Control)' /\ past' \subseteq {"shrink"}
         /\ counts.stop <= counts.start /\ unseen < MinSize => AllServed]_vars
  BY GracefulStep DEF Alone
<1>2. QED
  BY <1>1, ServerInvariant, PTL DEF WsgiSpec, GracefulStop
=============================================================================
