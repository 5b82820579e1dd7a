----------------------------- MODULE WsgiServer -----------------------------
(***************************************************************************)
(* src/python/http/cherrPy-wsgi.py: HTTPServer, its ThreadPool and the     *)
(* worker threads.  One thread runs start(), which accepts connections and *)
(* queues them; workers take them from the queue; another thread, or an    *)
(* application inside a worker, calls stop(), which puts one shutdown      *)
(* request per thread behind what is queued and joins them.  A worker      *)
(* whose application exits sets the server's interrupt and so stops it.    *)
(***************************************************************************)
EXTENDS Integers, Sequences, FiniteSets, SequencesExt

CONSTANTS
  Conns,          \* connections that clients make
  MaxThreads,     \* bound: threads made in a behaviour; they are numbered
  MinSize, MaxSize, \* ThreadPool.min and .max; no maximum if MaxSize is 0
  Amounts,        \* arguments of grow and shrink
  MaxAsks,        \* bound: requests on a connection
  MaxStarts, MaxShrinks, MaxStops, \* bounds: calls of start, shrink and stop
  RestartsAfter,  \* what may have happened before the server is started again
  None

Pill == "_SHUTDOWNREQUEST"

ASSUME ServerAssumption ==
  /\ IsFiniteSet(Conns) /\ MaxThreads \in Nat /\ MinSize \in Nat \ {0} /\ MaxSize \in Nat /\ (MaxSize = 0 \/ MinSize <= MaxSize)
  /\ Amounts \subseteq Nat /\ {MaxAsks, MaxStarts, MaxShrinks, MaxStops} \subseteq Nat
  /\ {Pill, None} \cap Conns = {}
  /\ RestartsAfter \subseteq {"interrupt", "request", "shrink", "failure"}

Control == 0            \* the thread outside the pool
Workers == 1..MaxThreads

VARIABLES
  server,     \* where the thread in start() is; "out" before, "returned" or "raised" after
  taken,      \* the connection it has accepted and not queued yet
  ready, socket, interrupt,
  threads,    \* ThreadPool._threads
  queue,      \* connections and shutdown requests
  worker,     \* of each thread: where it is, its conn, whether the application has exited
  stop,       \* of each thread that may call stop(): where it is in there, and the worker it joins
  conn,       \* external: of each connection, its sockets and what the client does
  owed,       \* ghost: what was queued or in service when the shutdown requests were put
  past,       \* ghost: what happened so far that matters for another start
  unseen,     \* ghost: what the last shrink() or start() did not know of: shutdown
              \* requests still queued, dead threads still listed
  counts      \* calls so far, for the bounds

serverVars == <<server, taken>>
poolVars == <<threads, queue, worker>>
vars == <<serverVars, ready, socket, interrupt, poolVars, stop, conn, owed, past, unseen, counts>>

Living == {i \in Workers : worker[i].at \notin {"new", "dead"}}
Fresh == {i \in Workers : worker[i].at = "new"}
Pills == Cardinality({k \in DOMAIN queue : queue[k] = Pill})
Spare == Cardinality(Living) - Pills \* threads that no shutdown request waits for
Stopping(x) == stop[x].at # "no"
Idle == [at |-> "no", of |-> 0, conn |-> None]

WsgiInit ==
  /\ server = "out" /\ taken = None /\ ready = FALSE /\ socket = FALSE /\ interrupt = "no"
  /\ threads = <<>> /\ queue = <<>>
  /\ worker = [i \in Workers |-> [at |-> "new", conn |-> None, exits |-> FALSE]]
  /\ stop = [x \in Workers \cup {Control} |-> Idle]
  /\ conn = [c \in Conns |-> [at |-> "out", asks |-> FALSE, left |-> MaxAsks, gone |-> FALSE]]
  /\ owed = {} /\ past = {} /\ unseen = 0 /\ counts = [start |-> 0, shrink |-> 0, stop |-> 0]
-----------------------------------------------------------------------------
\* The thread in start().
Made == MaxThreads - Cardinality(Fresh)
Adds(n, at) ==
  /\ threads' = threads \o [k \in 1..n |-> Made + k]
  /\ worker' = [i \in Workers |-> IF i \in (Made + 1)..(Made + n) THEN [worker[i] EXCEPT !.at = at] ELSE worker[i]]
\* The socket listens, and the pool is started.  A thread left over in it cannot
\* be started again: that raises, and the new ones never run.
Start ==
  /\ server \in {"out", "returned", "raised"} /\ \A x \in DOMAIN stop : ~Stopping(x)
  /\ counts.start < MaxStarts /\ past \subseteq RestartsAfter /\ Cardinality(Fresh) >= MinSize
  /\ interrupt' = "no" /\ socket' = TRUE
  /\ Adds(MinSize, IF threads = <<>> THEN "get" ELSE "dead")
  /\ server' = IF threads = <<>> THEN "started" ELSE "raised"
  /\ unseen' = IF threads = <<>> /\ Spare < 0 THEN -Spare ELSE 0
  /\ counts' = [counts EXCEPT !.start = @ + 1]
  /\ UNCHANGED <<taken, ready, queue, stop, conn, owed, past>>
\* ready is set, also if stop() has been called meanwhile.
Serve ==
  /\ server = "started" /\ server' = "loop" /\ ready' = TRUE
  /\ UNCHANGED <<taken, socket, interrupt, poolVars, stop, conn, owed, past, unseen, counts>>

Loop ==
  /\ server = "loop" /\ server' = IF ready THEN "tick" ELSE "returned"
  /\ UNCHANGED <<taken, ready, socket, interrupt, poolVars, stop, conn, owed, past, unseen, counts>>
\* tick() calls accept of a socket that stop() has taken away, or of the socket.
Tick ==
  /\ server = "tick" /\ server' = IF socket THEN "accept" ELSE "raised"
  /\ UNCHANGED <<taken, ready, socket, interrupt, poolVars, stop, conn, owed, past, unseen, counts>>
Accept ==
  /\ server = "accept" /\ socket
  /\ \E c \in Conns :
       /\ conn[c].at = "backlog"
       /\ conn' = [conn EXCEPT ![c].at = "open"] /\ taken' = c
  /\ server' = "accepted"
  /\ UNCHANGED <<ready, socket, interrupt, poolVars, stop, owed, past, unseen, counts>>
\* The timeout of a second, the touch of stop(), or a socket closed meanwhile.
AcceptReturns ==
  /\ server = "accept" /\ server' = "check"
  /\ UNCHANGED <<taken, ready, socket, interrupt, poolVars, stop, conn, owed, past, unseen, counts>>
Accepted ==
  /\ server = "accepted"
  /\ IF ready THEN server' = "put" /\ UNCHANGED <<taken, conn>>
     ELSE server' = "check" /\ taken' = None /\ conn' = [conn EXCEPT ![taken].at = "closed"]
  /\ UNCHANGED <<ready, socket, interrupt, poolVars, stop, owed, past, unseen, counts>>
Put ==
  /\ server = "put" /\ server' = "check" /\ taken' = None
  /\ queue' = Append(queue, taken)
  /\ UNCHANGED <<ready, socket, interrupt, threads, worker, stop, conn, owed, past, unseen, counts>>
\* While the interrupt is True it waits for the stop() of the worker.
Check ==
  /\ server = "check" /\ interrupt # "stopping"
  /\ server' = IF interrupt = "no" THEN "loop" ELSE "raised"
  /\ UNCHANGED <<taken, ready, socket, interrupt, poolVars, stop, conn, owed, past, unseen, counts>>
ServerStep == Serve \/ Loop \/ Tick \/ Accept \/ AcceptReturns \/ Accepted \/ Put \/ Check
-----------------------------------------------------------------------------
\* A worker thread.
Goes(i, at) == worker' = [worker EXCEPT ![i].at = at]
Get(i) ==
  /\ worker[i].at = "get" /\ queue # <<>> /\ queue' = Tail(queue)
  /\ worker' = [worker EXCEPT ![i].at = IF Head(queue) = Pill THEN "dead" ELSE "read",
                              ![i].conn = IF Head(queue) = Pill THEN None ELSE Head(queue)]
  /\ UNCHANGED <<serverVars, ready, socket, interrupt, threads, stop, conn, owed, past, unseen, counts>>
\* communicate(): a request comes, or the connection ends, or nothing comes in time.
Read(i) ==
  /\ worker[i].at = "read"
  /\ \/ conn[worker[i].conn].asks /\ Goes(i, "respond")
     \/ ~conn[worker[i].conn].asks /\ Goes(i, "close")
  /\ UNCHANGED <<serverVars, ready, socket, interrupt, threads, queue, stop, conn, owed, past, unseen, counts>>
\* The application answers; the connection is kept or not; or the application exits.
Respond(i) ==
  /\ worker[i].at = "respond" /\ ~Stopping(i)
  /\ \E next \in {"read", "close"}, exits \in BOOLEAN :
       /\ exits => next = "close" /\ counts.stop < MaxStops
       /\ worker' = [worker EXCEPT ![i].at = next, ![i].exits = exits]
       /\ counts' = IF exits THEN [counts EXCEPT !.stop = @ + 1] ELSE counts
       /\ past' = IF exits THEN past \cup {"interrupt"} ELSE past
  /\ conn' = [conn EXCEPT ![worker[i].conn].asks = FALSE]
  /\ UNCHANGED <<serverVars, ready, socket, interrupt, threads, queue, stop, owed, unseen>>
Close(i) ==
  /\ worker[i].at = "close"
  /\ conn' = [conn EXCEPT ![worker[i].conn].at = "closed", ![worker[i].conn].asks = FALSE]
  /\ worker' = [worker EXCEPT ![i].at = IF worker[i].exits THEN "exit" ELSE "get", ![i].conn = None]
  /\ UNCHANGED <<serverVars, ready, socket, interrupt, threads, queue, stop, owed, past, unseen, counts>>

\* ready is cleared, and the socket looked up to be closed.
BeginsStop(x) == stop' = [stop EXCEPT ![x].at = "close"] /\ ready' = FALSE
\* server.interrupt = exc: stop() runs while the interrupt is True.
Interrupt(i) ==
  /\ worker[i].at = "exit" /\ Goes(i, "interrupt")
  /\ interrupt' = "stopping" /\ BeginsStop(i)
  /\ UNCHANGED <<serverVars, socket, threads, queue, conn, owed, past, unseen, counts>>
WorkerStep(i) == Get(i) \/ Read(i) \/ Respond(i) \/ Close(i) \/ Interrupt(i)
-----------------------------------------------------------------------------
\* The calls of stop, from outside or by an application, and of grow and shrink.
CallStop(x) ==
  /\ counts.stop < MaxStops /\ server # "out"
  /\ IF x = Control THEN ~Stopping(x) ELSE worker[x].at = "respond" /\ ~Stopping(x)
  /\ BeginsStop(x) /\ counts' = [counts EXCEPT !.stop = @ + 1]
  /\ past' = IF x = Control THEN past ELSE past \cup {"request"}
  /\ UNCHANGED <<serverVars, socket, interrupt, poolVars, conn, owed, unseen>>
Smaller(a, b) == IF a < b THEN a ELSE b
Grow(amount) ==
  /\ ready /\ ~Stopping(Control) /\ Cardinality(Fresh) >= amount
  /\ Adds(IF MaxSize = 0 THEN amount ELSE Smaller(amount, MaxSize - Len(threads)), "get")
  /\ UNCHANGED <<serverVars, ready, socket, interrupt, queue, stop, conn, owed, past, unseen, counts>>
\* The dead are removed from the list that is walked, and the one behind each is
\* passed over: of those in a row the first goes, the third, and so on.
Removed ==
  {k \in DOMAIN threads : \E first \in 1..k :
     /\ \A j \in first..k : worker[threads[j]].at = "dead"
     /\ first = 1 \/ worker[threads[first - 1]].at # "dead"
     /\ (k - first) % 2 = 0}
Remaining == DOMAIN threads \ Removed
Culls == \E order \in [1..Cardinality(Remaining) -> Remaining] :
           /\ \A j, k \in DOMAIN order : j < k => order[j] < order[k]
           /\ threads' = [k \in DOMAIN order |-> threads[order[k]]]
\* Mutant: no minimum is kept.
ShrinksBy_Below(amount) == amount - (Len(threads) - Cardinality(Remaining))
ShrinksBy(amount) == Smaller(amount - (Len(threads) - Cardinality(Remaining)), Cardinality(Remaining) - MinSize)

Unseen == Pills + Cardinality({k \in Remaining : worker[threads[k]].at = "dead"})
PutsPills(n) == queue' = queue \o [k \in 1..(IF n > 0 THEN n ELSE 0) |-> Pill]
Shrink(amount) ==
  /\ ready /\ ~Stopping(Control) /\ counts.shrink < MaxShrinks
  /\ Culls /\ PutsPills(ShrinksBy(amount))
  /\ unseen' = IF ShrinksBy(amount) > 0 THEN Unseen ELSE unseen
  /\ counts' = [counts EXCEPT !.shrink = @ + 1] /\ past' = past \cup {"shrink"}
  /\ UNCHANGED <<serverVars, ready, socket, interrupt, worker, stop, conn, owed>>
-----------------------------------------------------------------------------
\* Inside stop().
StopGoes(x, at) == stop' = [stop EXCEPT ![x].at = at]
\* The listening socket is closed, and what waits in it is reset.
StopCloses(x) ==
  /\ stop[x].at = "close" /\ StopGoes(x, "pills")
  /\ socket' = FALSE
  /\ conn' = [c \in Conns |-> IF conn[c].at = "backlog" THEN [conn[c] EXCEPT !.at = "closed"] ELSE conn[c]]
  /\ UNCHANGED <<serverVars, ready, interrupt, poolVars, owed, past, unseen, counts>>
\* Mutant: the shutdown requests overtake what is queued.
StopPutsPills_First(x) ==
  /\ stop[x].at = "pills" /\ StopGoes(x, "pop")
  /\ queue' = [k \in DOMAIN threads |-> Pill] \o queue
  /\ owed' = {c \in Conns : c \in ToSet(queue) \/ \E i \in Workers : worker[i].conn = c}
  /\ UNCHANGED <<serverVars, ready, socket, interrupt, threads, worker, conn, past, unseen, counts>>
StopPutsPills(x) ==
  /\ stop[x].at = "pills" /\ StopGoes(x, "pop")
  /\ PutsPills(Len(threads))
  /\ owed' = {c \in Conns : c \in ToSet(queue) \/ \E i \in Workers : worker[i].conn = c}
  /\ UNCHANGED <<serverVars, ready, socket, interrupt, threads, worker, conn, past, unseen, counts>>

\* Mutant: a worker that calls stop() joins itself.
StopPops_Itself(x) ==
  /\ stop[x].at = "pop" /\ threads # <<>>
  /\ threads' = Front(threads)
  /\ stop' = IF worker[Last(threads)].at = "dead" THEN stop
             ELSE [stop EXCEPT ![x].at = "join", ![x].of = Last(threads)]
  /\ UNCHANGED <<serverVars, ready, socket, interrupt, queue, worker, conn, owed, past, unseen, counts>>
StopPops(x) ==
  /\ stop[x].at = "pop" /\ threads # <<>>
  /\ threads' = Front(threads)
  /\ stop' = IF Last(threads) = x \/ worker[Last(threads)].at = "dead" THEN stop
             ELSE [stop EXCEPT ![x].at = "join", ![x].of = Last(threads)]
  /\ UNCHANGED <<serverVars, ready, socket, interrupt, queue, worker, conn, owed, past, unseen, counts>>

\* join, for as long as the timeout leaves, or afterwards for ever.
StopJoins(x) ==
  /\ stop[x].at \in {"join", "last"} /\ worker[stop[x].of].at = "dead"
  /\ stop' = [stop EXCEPT ![x] = [Idle EXCEPT !.at = "pop"]]
  /\ UNCHANGED <<serverVars, ready, socket, interrupt, poolVars, conn, owed, past, unseen, counts>>
StopTimesOut(x) ==
  /\ stop[x].at = "join" /\ worker[stop[x].of].at # "dead"
  /\ stop' = [stop EXCEPT ![x].at = "force", ![x].conn = worker[stop[x].of].conn]
  /\ UNCHANGED <<serverVars, ready, socket, interrupt, poolVars, conn, owed, past, unseen, counts>>
\* The reading side of its connection is shut down: that only hurries its read.
StopForces(x) ==
  LET c == stop[x].conn IN
  /\ stop[x].at = "force"
  /\ c # None => (conn[c].at = "closed" \/ ~conn[c].gone)
  /\ stop' = [stop EXCEPT ![x].at = "last", ![x].conn = None]
  /\ UNCHANGED <<serverVars, ready, socket, interrupt, poolVars, conn, owed, past, unseen, counts>>
\* shutdown() of a socket that was reset or has just been closed raises, and stop() with it.
StopFails(x) ==
  /\ stop[x].at = "force" /\ stop[x].conn # None
  /\ conn[stop[x].conn].at = "closed" \/ conn[stop[x].conn].gone
  /\ stop' = [stop EXCEPT ![x] = Idle]
  /\ worker' = IF x # Control /\ worker[x].at = "interrupt" THEN [worker EXCEPT ![x].at = "dead"] ELSE worker
  /\ past' = past \cup {"failure"}
  /\ UNCHANGED <<serverVars, ready, socket, interrupt, threads, queue, conn, owed, unseen, counts>>
\* After the stop() of an interrupt, the interrupt is set and the thread ends.
StopReturns(x) ==
  /\ stop[x].at = "pop" /\ threads = <<>>
  /\ stop' = [stop EXCEPT ![x] = Idle] /\ owed' = {}
  /\ IF x # Control /\ worker[x].at = "interrupt"
     THEN interrupt' = "set" /\ Goes(x, "dead") ELSE UNCHANGED <<interrupt, worker>>
  /\ UNCHANGED <<serverVars, ready, socket, threads, queue, conn, past, unseen, counts>>
StopStep(x) ==
  \/ StopCloses(x) \/ StopPutsPills(x) \/ StopPops(x) \/ StopJoins(x)
  \/ StopTimesOut(x) \/ StopForces(x) \/ StopFails(x) \/ StopReturns(x)
-----------------------------------------------------------------------------
\* External: the clients.
ClientStep(c) ==
  /\ \/ conn[c].at = "out" /\ socket /\ conn' = [conn EXCEPT ![c].at = "backlog"]
     \/ conn[c].at \in {"backlog", "open"} /\ ~conn[c].asks /\ ~conn[c].gone /\ conn[c].left > 0
        /\ conn' = [conn EXCEPT ![c].asks = TRUE, ![c].left = @ - 1]
     \/ conn[c].at \in {"backlog", "open"} /\ ~conn[c].gone /\ conn' = [conn EXCEPT ![c].gone = TRUE]
  /\ UNCHANGED <<serverVars, ready, socket, interrupt, poolVars, stop, owed, past, unseen, counts>>

WsgiNext ==
  \/ Start \/ ServerStep
  \/ \E i \in Workers : WorkerStep(i)
  \/ \E x \in Workers \cup {Control} : CallStop(x) \/ StopStep(x)
  \/ \E amount \in Amounts : Grow(amount) \/ Shrink(amount)
  \/ \E c \in Conns : ClientStep(c)
WsgiSpec == WsgiInit /\ [][WsgiNext]_vars
\* Every thread runs: the applications return, reads time out.  Nobody has to call anything.
WsgiFairness ==
  /\ WF_vars(ServerStep)
  /\ \A i \in Workers : WF_vars(WorkerStep(i))
  /\ \A x \in Workers \cup {Control} : WF_vars(StopStep(x))
WsgiFairSpec == WsgiSpec /\ WsgiFairness
-----------------------------------------------------------------------------
\* cherrPy-wsgi.py:1453, 1892: when a stop called from outside returns, every
\* thread has ended, and every connection that was queued or in service when
\* the shutdown requests were put has been served and closed.  No stop may have
\* come from a worker or have failed, there is one for each start, and shrink()
\* and start() have left one thread at least that no shutdown request waits for.
AllServed == Living = {} /\ \A c \in owed : conn[c].at = "closed"
GracefulStop ==
  [][Stopping(Control) /\ ~Stopping(Control)' /\ past' \subseteq {"shrink"}
     /\ counts.stop <= counts.start /\ unseen < MinSize => AllServed]_vars
\* cherrPy-wsgi.py:1458-1487, 1764-1771: a stop, whoever calls it, ends, and
\* start() with it; unless shutdown() of a worker's connection raises.
StopEnds ==
  (\E x \in DOMAIN stop : Stopping(x)) ~>
    \/ "failure" \in past
    \/ server \in {"returned", "raised"} /\ \A x \in DOMAIN stop : ~Stopping(x)
\* cherrPy-wsgi.py:1404-1450: while the server runs and listens, the threads that
\* no shutdown request waits for are fewer than MinSize by no more than what the
\* last shrink() that put any, or start(), took for running threads and was not:
\* any number of calls before it take no more away.  And unless start() raised,
\* the pool never lists more than MaxSize.
Serves == server \notin {"out", "returned", "raised"}
PoolSize ==
  /\ Serves /\ socket => Spare >= MinSize - unseen
  /\ server # "raised" /\ MaxSize # 0 => Len(threads) <= MaxSize
\* cherrPy-wsgi.py:1436: "not below self.min", and grow "not above self.max".
NeverBelowMin ==
  ready /\ socket => Spare >= MinSize /\ (MaxSize # 0 => Len(threads) <= MaxSize)
\* cherrPy-wsgi.py:1453: the same of a stop after any calls of shrink.
EachStopServes ==
  [][Stopping(Control) /\ ~Stopping(Control)' /\ past' \subseteq {"shrink"} => AllServed]_vars
\* cherrPy-wsgi.py:1888: setting interrupt ends start() with that exception.
InterruptIsRaised == [][server' = "returned" /\ server # "returned" => interrupt = "no"]_vars
\* cherrPy-wsgi.py:1892: a graceful shutdown leaves no connection behind.
NoneLeftBehind ==
  server \in {"returned", "raised"} /\ (\A x \in DOMAIN stop : ~Stopping(x)) /\ Living = {} =>
    \A c \in Conns : conn[c].at # "open"
=============================================================================
