# TLA+ models of code_clips

The repository is a collection of small reusable programs and library excerpts
(`src/README.md`: "python cpp shell lua tips which can be re-use").  There is
no overall architecture: every directory is a program of its own.  This project
models, one component per program, those that have logic worth checking: event
loops, servers, process and thread protocols, a client that retries, and data
structures.

Contents: [1 Inventory](#1-inventory) · [2 Plan](#2-plan) ·
[3 Modules and code](#3-modules-and-code) · [4 Runs](#4-runs) ·
[5 Fairness](#5-fairness) · [6 Theorems](#6-theorems) ·
[7 Further configurations](#7-further-configurations) ·
[8 What is not modelled](#8-what-is-not-modelled)

## 1. Inventory

Parts with state, concurrency or a protocol.  All but the last three rows are
modelled.

| part | state it keeps | operations | what is hard | what makes it correct |
|---|---|---|---|---|
| `Clang/aio/ae` event loop (`ae.c`, `ae_epoll.c`) | table of file events, `maxfd`, epoll set, timer list, fired batch, stop flag | create/delete file and time events, `aeProcessEvents`, `aeMain`, `aeStop` | handlers change the tables the loop is walking; the clock moves and may be set; arithmetic on seconds and milliseconds | table, `maxfd` and kernel agree; no deleted event is served; timers are neither lost nor late; passes end |
| `Clang/aio/ae/echoServer.c` | a buffer with `pos`, `size` and a mutex per client, sockets | accept, read, write, close handlers, called by the loop | descriptors are recycled; reads and writes share a buffer; the peer sends, takes and leaves at any time | the registrations follow the sockets; nobody blocks the loop; the echo is what was sent, all of it |
| `Clang/daemon-unix.c` | processes, their pipes, child pids and wait statuses | `daemonize_start`, `fork_and_wait_for_startup`, `fork_notify_startup`, `monitor_daemon` | any process dies anywhere; who holds which end of a pipe; who was reaped | the starter learns the truth and learns it at all; one daemon at a time; a crashed one is replaced |
| `python/multithreading.py` | three pools: queue, threads, stop signals, exceptions, error count | `with` entry and exit, `put`, `print_`, thread loop, joins | bounded queues, stop signals behind the work, threads that die, pools that speak to other pools | every item is worked on, every message printed, every error counted, the exit ends |
| `cpp/epoll` reactor | `m_fdmap`, epoll set, timer multimap, heap of times, handler objects | register/unregister events and timers, `Run`, `ScanTimer`, `Stop`, TCP accept/read/close | handlers delete themselves and others between the steps of the loop; timers change the map `ScanTimer` iterates | map and epoll agree; no handler is used after delete; due timers fire, unregistered ones do not |
| `Clang/map/lwan/hash.c` | buckets of entries, room and use per bucket, count, who owns keys and values | add, add_unique, find, del, iterate, free | growth and moves inside a bucket; replacing a key frees the old one; allocation fails in the middle | a finite map with true answers; each pointer is freed once; an iteration meets what stays |
| `Clang/map/ovs` (`hmap.h`, `hmap.c`) | chains of nodes, mask, n, the field used as the array of an empty map | insert, remove, replace, resize, shrink, swap, moved, `HMAP_FOR_EACH`, `at_position` | resize relinks the chain it walks; copies of a map point into the old one; loops over a map that changes | sets of nodes; an array is one map's; walks meet what stays once |
| `Clang/string` (`redis/sds.c`, `lwan/strbuf.c`, `ovs/dynamic-string.c`) | a header and a block of memory | append, grow, range, trim, split, quote, formatted append, reading lines | room is counted by hand, sometimes after the write; one byte for the end | nothing outside the block is touched; the text is what the header promises |
| `java/PortScanner` | the plan of a scan, threads of the group, results | `doScan`, `ThreadScanSocket.run`, address and port encoding | threads are only counted, those of others included; an address is a signed int | every address and port once; so many threads and no more; finished when they are |
| `python/http/client.py` | connection shared by calls, token, attempts, the place in the contents | put, get (whole, in chunks), delete, list, all through `_retry` | requests and answers lost, tokens that expire, uploads cut off, connections given up half read | a call that returns did what it says; calls end; the next call is not spoilt |
| `python/http/cherrPy-wsgi.py`, server | socket, `ready`, `interrupt`, queue of connections and shutdown requests, list of threads | `start`, `tick`, `stop`, set `interrupt`, `grow`, `shrink`, worker loop | stop from three kinds of thread while the server accepts and threads come and go | stop loses nothing it found queued and ends; the pool keeps its size |
| `python/http/cherrPy-wsgi.py`, connection | what was received and not read, the request, what its body has left, what was written of the response | `communicate`, `parse_request`, `respond`, reads of a body, `start_response`, `write`, `send_headers` | requests follow one another on a stream that may stop anywhere; applications read what they like and declare what they like | each response answers its own request and ends before the next |
| `Clang/APUE/apue` (`pipe.c`, `pOpen.c`) | two pipes; table of children | TELL/WAIT, popen, pclose | order of two processes; a child reaped by somebody else | alternation; each child is reaped once |
| `Clang/fd_server` (and a copy in `Clang/APUE/coding`) | array of clients | accept, pass a descriptor | the files do not compile, see section 8 | |
| other servers: `Clang/aio/sendfile`, `Clang/aio/aio`, `Clang/network/cps.c`, `cpp/epoll/unixsocket*` | connections | read, write, count | the same as in the echo server and the reactor | the same |

Everything else (samples of one call or one language feature, scripts, vendored
lists, atomics, codecs, packet classes, notes) keeps no state of its own.  It
is listed part by part, with the reason, under `components` in `PROJECT.json`.

How the parts interact: only `echoServer.c` uses another modelled part, the ae
loop, by registering handlers that the loop calls and that call the loop's API.
`multithreading.py` is three instances of one class, two of which serve the
third.  The reactor and its TCP handlers call each other: the loop calls
`OnFDRead` and the like, and the handlers register, unregister, close their
descriptor and `delete this`.

The hazards, each at its line and with the properties that watch it, are under
`hazards` in `PROJECT.json`, which has the forty that matter most.  Others the code
has, of which most show in a configuration of section 7: a timer handler that
deletes its own timer (`ae.c:299`), an event of a predecessor (`ae.c:372`), a stop
asked for before `aeMain` (`ae.c:421`), blocking sockets (`echoServer.c:58`), a child
killed before it reports (`daemon-unix.c:538`), a connection maker that raises
(`multithreading.py:181`), the printers' order (`multithreading.py:262`), milliseconds in
`tv_usec` (`reactor.cpp:286`), a full heap (`reactor.cpp:360`), a timer registered twice
(`reactor.cpp:364`), reused descriptors (`reactor.cpp:346`), ownership through replacement
(`hash.c:250`), loops that lose their node (`hmap.h:384`), quoting and reading back
(`sds.c:744`), a text that fits exactly (`dynamic-string.c:163`), the wait for the last
thread (`PortScanner.java:261`), two answers to one request (`cherrPy-wsgi.py:2078`), a
status that belongs to another daemon (`daemon-unix.c:459`).

## 2. Plan

Done, in this order: the ae loop with its proofs (the most important behaviour:
everything built on it depends on what handlers may do during a batch or a
pass), the echo server composed with it, the daemon protocol, the thread pools
with their proofs, the reactor, the containers and strings, the port scanner, the
client of the object store, the WSGI server, its connections.

Abstract specifications: `StartupContract` (what the starter of a daemon is
promised), `TaskPool` (what the users of a pool are promised), `KeyStore`,
`NodeSets` and `Text` (what the headers of the containers and strings promise),
`ObjectStore` (what a call of the client promises), and `AeLoop` itself, which the
echo server implements.

Proved so far: the ae loop, the echo server, the daemon, the thread pools, the
reactor but for its timers, the thread count of the port scanner, the client of the
object store, the safety of the WSGI server's stop and of its pool, and the hash table of
lwan (section 6).  The next theorem would be `EachToItsRequest` of `HttpConnection`, from
where the stream stands between two requests; the fold that reads a body must first
become a step per unit.

`OvsHmap` stays with TLC, since the prover does not know `Bitwise`, and so do the
strings, whose calls are loops over data.

## 3. Modules and code

`map` in `PROJECT.json` names the lines of every definition.  What follows is
how state and steps correspond.

### The ae event loop: `AeFileEvents`, `AeTimeEvents`, `AeLoop`

`AeFileEvents` holds `eventLoop->events`, `maxfd` and the epoll set (`interest`)
with `aeCreateFileEvent`, `aeDeleteFileEvent` and the `epoll_ctl` calls they
make.  `AeTimeEvents` holds the timer list, newest first as the code links it,
`timeEventNextId`, `lastTime` and the wall clock, in ticks; `TicksPerSec` ticks
are a second, so that seconds and milliseconds are the quotient and the rest as
in the code.  `AeLoop` adds the control: `pc` names the place between two calls
of user code, `fired` is the batch, `te`, `maxId` and `running` the walk over
the timers.  A user callback is two steps, the call and the return, and in
between the callback may take any number of API steps (`CreateFileEvent`,
`DeleteFileEvent`, `CreateTimeEvent`, `DeleteTimeEvent`, `aeStop`), with
arguments in and out of range.  Two ghosts, `fired[i].due` and `pass`, remember
which of the kinds reported at the poll are still to be served, neither handed to
a handler nor deleted, and which timers a pass found and ran.
A timer handler that deletes its own timer returns `AE_NOMORE`: one that does not
makes the loop write to freed memory (`ae.c:299`).

### The echo server: `EchoServer`

Extends `AeLoop`: the handlers that there do anything are here
`acceptTcpHandler`, `onReadPrepared` and `onWritePrepared`, each a step between
the call and the return.  `client` is the `EchoClient` struct, byte by byte
since the properties are about which byte is sent; `sock` says what a
descriptor is, `peer` what the client at the other end did.  `epoll_wait`
reports what `Ready` says of the sockets.  An accept may meet any of its errors:
no descriptor is left, or `aeCreateFileEvent` returns `AE_ERR`, because the
descriptor is beyond the table or because epoll refuses it (`FailsToRegister`).
The branch that handles this (`echoServer.c:123-128`) closes the listening socket
instead of the connection: the connection stays open and nothing watches it, the
backlog is reset, and the kernel takes the closed socket out of the epoll set
while the table still has it.  `ImplementsLoop` is `AeLoop`'s `Spec` with every
variable mapped to itself but `interest`, which is mapped to `asked`: what the
loop asked of the kernel, which for the closed socket is what the table says.
The steps of clients are stutters of the loop, and so is that branch.

### The daemon: `Daemon`, `StartupContract`

All processes run the same code, so a process is a pid with a place in it; fork
makes the next pid.  `writers[c]` is who has the writing end of the pipe to c's
parent open, inherited ends included; `status` and `reaped` are what `waitpid`
knows.  `Exit` closes every end.  `StartupContract` has two variables, `answer`
and `up`, mapped from the exit code of process 1 and from whether any process
called `daemonize_complete`.

### The pools: `WorkerPool`, `TaskPool`

Three queues and the threads of each.  A thread's place is `get` (blocked in
`queue.get`) or `func` (in the function it was given, `_print` or
`_print_error`); main is in the body of the `with` statements or in one of the
three nested `__exit__`s, which put one signal per living thread, join and
report.  What is said goes through the bounded queues.  `TaskPool` is the
promise of the class comment; `given`, `worked` and `left` are mapped from
`put`, `called` and the phase of main.

### The reactor: `MiniHeap`, `HandlerSet`, `Reactor`

`MiniHeap` is the binary heap as operators over a sequence, with recursive
functions in place of its loops; `MCReactor` assumes, and TLC checks on every run,
that it sorts each sequence of up to six times.  `HandlerSet` is `EventHanderSet` with the epoll set beside it:
register and unregister compute what the code computes, `lower_bound` and
`upper_bound` included.  `Reactor` is `LTReactor::Run`: it looks up `pBase` once
per event and uses it for three tests, then `ScanTimer` serves the minimum of
the heap until it is not due.  A connection is one handler object; `deleted`
is the set of those that did `delete this`.  Timers are registered and
unregistered by anybody in `OnTimeOut`.

### The containers: `LwanHash`, `KeyStore`, `OvsHmap`, `NodeSets`

`LwanHash` keeps the packed array of each bucket and how many entries it has memory
for, so that the `memmove` of `hash_del`, which reads one entry too many, is a
statement about `total`.  Pointers are model values, several keys with the same
name; `owned` is what the table must still free.  Any allocation may fail.  In
`OvsHmap` an array is named by who holds it, the map for its field `one`, so that
`hmap_moved` matters; `walk` is a loop of a user over a map that anybody changes
between its turns.  `KeyStore` and `NodeSets` are the maps and sets the headers
promise, answers included.

### The strings: `StringBuffer`, `Sds`, `Strbuf`, `DynamicString`, `Text`

A string is a header and a block of so many bytes, the written ones a sequence
(`StringBuffer`); `wild` remembers a write outside.  The three modules translate the
calls of their library to that; a `CASE` or a fold stands for a loop over bytes.
`Text` says of each call what it does to a sequence of bytes, or what it tells of
it, and is refined by all three with the same mapping.

### The port scanner: `PortScanner`

The event thread in `doScan` is `state`; the plan of the scan (`todo`) is computed by
`DecodeIP`, `EncodeIP` and `DecodePorts` with Java's widths.  Threads of the toolkit
start and end at will and are counted like the scan's own, which is how the code
counts; `fallen` is the ghost that says by how much that misled it.  A scan's threads are
told apart by their number: two of an equal pair are two threads.

### The object store client: `SwiftClient`, `ObjectStore`

`call` is the call of `Connection` under way, `pc` the place in `_retry`.  The
connection is one record: what was sent, whether the request is whole, the answer
and whether the other end is gone; the server, the network, the tokens and the other
clients are external and act between any two steps.  `ObjectStore` lets a call act at
moments between its start and its end, and says what may be returned; `KeepsPromise` is the
refinement.  `Pages` is every page a server may answer with, given by what makes it the next
one rather than by how it is computed.  A late request on a connection that was given up acts on the store as
another client would, which is how the model treats it.

### The WSGI server: `WsgiServer`

The thread in `start()` is `server`, with a place between each read of the shared
`ready`, `socket` and `interrupt` and the use of it.  `stop[x]` is where thread `x` is in
`stop()`: the thread outside the pool, a worker whose application called it, or one whose
application exited and that sets `interrupt`.  `conn` is the client's and the server's end
of a connection.  A dead worker is one whose thread ended; its id is not used again.
`owed` remembers what was queued or in service when the shutdown requests were put, and
`unseen` how many threads the last `shrink` that queued shutdown requests, or the last
start, counted on that do not run: dead ones it left in the list, and those for which a
shutdown request was queued already.

### A connection of the WSGI server: `HttpConnection`

What the client sends is a sequence of lines, each of a kind that the code tells apart: a
request line, legal or not, headers, a unit of a body, the size of a chunk, an empty line.  A unit
of a body is a line.  `arrives` says how much of it comes, and whether an end or silence
follows.  `pos` is what has been read from the file object and `received` what `recv` has
brought, so that the difference is `_rbuf`, which the requests of a connection share.  `at` is where
`communicate` is: at the request line, at the headers, before the gateway is called, in the
application, inside a read of a chunked body, or `closed`.  `req` is the `HTTPRequest` with its
`rfile` and its gateway; the application is any sequence of reads, `start_response`,
`write`, return or exception, except that it lets the error of a socket pass.  `out` has a record
per response: how its end is found, what was declared and what was sent.  `excused` remembers what
the client or the application did that the code does not survive, and `Followed` says behind
which of it a behaviour goes on.  To `WsgiServer` a connection is `Read`, `Respond` and `Close`;
the two meet in `MCWsgiServer` only, where a behaviour is of one or the other.

## 4. Runs

Sizes are distinct states; each run ends within three minutes.

| run | states | instance | checks |
|---|---|---|---|
| `AeLoopFile` | 45 000 | 3 descriptors, arguments 0, 2 and 3 (out of range), 2 handlers, no timers | `MaxfdIsHighest`, `InterestIsMask`, `BatchIsServed` |
| `AeLoopTimer` | 95 000 | 3 timers, delays 1 and 3 ticks, 2 ticks a second, clock to 5, handlers take no time, fairness | `NoTimerLost`, `PassLeavesNoneDue`, `DueTimerRuns`, `StopEndsMain` |
| `AeLoopSkew` | 2 540 000 | 2 timers, delays 0 and 3, handlers that take time, `beforesleep`, every flag set, the clock set once, to any value | `PassRunsOnlyOldTimers`, `SkewForcesAll`, `OversleepsLessThanASecond` |
| `EchoServer` | 54 000 | 2 clients of 2 bytes each, 3 descriptors, a buffer of 2 bytes, sockets that hold 1; a client waits for its echo before it sends more | `OpenIffWatched`, `EchoesInOrder`, `ImplementsLoop`, `EveryByteEchoed` |
| `DaemonContract` | 170 | 7 processes, a startup fails by `exit`, a running daemon dies in any way, nobody else does | `KeepsContract`, `StarterIsAnswered`, `CrashedDaemonReplaced` |
| `DaemonAnyDeath` | 5 900 | 5 processes, every process dies in any way at any point, fork fails | `OneDaemon` |
| `WorkerPool` | 890 000 | 2 workers, 2 items, queues of 1, func returns, raises, speaks or kills its thread, the connection maker fails | `EverythingIsAccounted`, `ImplementsTaskPool`, `ExitEnds` |
| `Reactor` | 1 680 000 | 4 descriptors, a FIFO; either 2 connections, or 1 and 2 timers of 1 or 2 ms, one restartable, clock to 3, heap of 2 | `MapIsInterest`, `NoStaleHandler`, `ScanIsExact`, `DueTimersFire` |
| `Libraries` | 153 000 | lwan: 4 keys of 3 names, 2 buckets; ovs: 2 maps, 3 nodes, 2 of them in one bucket of four, loops over them; strings of up to 3 to 6 bytes | `AccessesStayInside`, `OwnsWhatItHolds`, `HashIsDictionary` (lwan of `KeyStore`, and its iterator), `MapsAreNodeSets` (ovs of `NodeSets`, and its loops), `ImplementsText` |
| `PortScanner` | 127 000 | addresses of three octets of one bit, ranges over the end of an octet, over the sign and backwards, a port typed twice, 0, 2 or 9 threads asked for and 3 allowed, two scans, 2 threads of the toolkit | `ThreadsAreCounted`, `WholeRangeOnce`, `ScanEnds` |
| `SwiftClient` | 344 000 | 3 objects, 2 in one directory, texts of 2 chunks, pages of 1 entry, 2 retries | `KeepsPromise`, `CallEnds`, `HealthyCallReturns` |
| `WsgiServer` | 1 183 000 | 1 to 2 threads, 3 in all, 2 connections of one request, 2 starts, whatever happened before, one `stop`, 2 calls of `shrink`, four of these starts, calls of `shrink` and connections together (`Bounded`), any number of `grow`; one connection with two requests of 19 shapes, bodies of up to 4 units of which 3 are allowed, answers of up to 2 pieces | `GracefulStop`, `StopEnds`, `PoolSize`, `EachToItsRequest` |

What the passing runs show, beyond the names:

* **AeLoopFile.**  Descriptors 0 and 2 leave a hole, so that deleting the higher
  one must search down, and 3 is refused.  A batch has up to two entries of two kinds
  each, and any handler may delete or create any of them in the middle.  A third
  registered descriptor adds no new case: handlers meet "the entry served" and
  "another entry of the batch", before or after it.
* **AeLoopTimer.**  With three timers the walk has a timer before, at and after
  the one whose handler deletes or creates others.  Delays of 1 and 3 ticks, less and
  more than a second of 2, meet all branches of the borrow in the poll's timeout.
* **AeLoopSkew.**  One setting of the clock at any moment, back or forth, with a
  handler or the poll in the middle.  A pass that sees the skew serves all that
  is linked.  A poll may outlast a late timer but never by a second.
* **EchoServer.**  Two clients on one free descriptor or two: the second client
  meets the recycled descriptor and its registrations, or a server that stopped
  listening since the registration of the first was refused.  The property that needs
  the composition is `ImplementsLoop`: the handlers stay within what `AeLoop`
  lets a handler do, so what is proved of the loop holds of the server.
  A client that sends before its echo arrived is excluded (`EchoServerPipelined` shows
  why), and the buffer that is never rewound is why a connection is limited to
  `BufSize` bytes here.
* **DaemonContract, DaemonAnyDeath.**  The first says what the startup protocol
  promises when deaths are of the kind its authors thought of, the second what
  survives deaths of every kind.  A process is forked twice by the startup and
  once per restart, so five processes are two or three restarts.  The states
  are few since the protocol is sequential but for the deaths.
* **WorkerPool.**  Queues of one entry are full whenever something is in them, so
  main blocks while putting signals, workers while reporting.  Two workers are
  enough for one to take the other's signal.
* **Reactor.**  Two timers can be registered for the same time, one before the
  other, and unregister one another while one fires.  The heap has two entries
  here; `HeapSorts` checks it on up to six.  `HeapMayFill` is false: a full heap loses timers, as
  `ReactorFull` shows.  A timer is registered one registration at a time
  (`Reregisters`).  A second connection takes the descriptor of the first, or one next to
  it, with events of both in one batch; it adds nothing to the timers, so `Bounded` in
  `MCReactor` lets a behaviour have the one or the other.  A peer may reset at any
  moment: behind its FIN the read deletes the handler and the test for an error uses it,
  which `ServesItsOwn` names as the only such use; it kills the process or goes on.
* **Libraries.**  The components share nothing, so a behaviour picks one at its start; of
  an iteration over a container that changes, what was there all along is met exactly once.
  Three names in two buckets make an iteration cross a bucket and meet one whose
  array grows and shrinks by steps of two; a reserve of four makes ovs maps of masks 0
  and 3.  The texts have the bytes that are special to a call: the end, quotes, what is
  trimmed, line ends, comments.  Static texts are not as long as a buffer (see section 7).
  Keys the table already owns are not added again (`Readds`).
* **PortScanner.**  As ints the addresses from 128.0.0.0 on come before 0.0.0.0, and
  `WholeRangeOnce` is about that order: a range over 128.0.0.0 is not scanned at all, and
  one typed backwards over it goes around.  Octets of one bit make ranges of two
  addresses end an octet on both sides of the sign.  Threads of the toolkit, which the code
  counts with its own, can end and make room for more or hold a scan open.
* **SwiftClient.**  A try may fail for two reasons in turn, a token and a connection,
  and still be tried again, with 2 retries; with 1 a healthy call can fail because the
  calls before it left both behind.
* **WsgiServer.**  With two threads the one that calls `stop()` has another to join, and
  the one joined may be reading, answering, or waiting for a connection that a later one
  in the queue follows.  The third id is the thread that `grow` adds after another ended.
  Two calls of `shrink` may count one thread twice and leave none (the code only looks at its
  list), and a start may find a shutdown request in the queue; `PoolSize` says by how much
  the pool is too small then, and `GracefulStop` says nothing once it may have no thread.  The properties
  do not claim anything once `shutdown()` of a connection has raised, which ends the
  stop in the middle.  In a connection the second request shows what the first left on the
  stream; a piece of two units after a declared length of one, or two of one, is too much.
  The empty line behind a chunked body is read as the one that may precede a request:
  take that rule away and every chunked request is answered twice.

Each property has a mutant of a mapped definition, a bug of the kind the property
is there for, under `mutants` in `PROJECT.json`; in the modules it stands next to the definition it
changes, marked `Mutant:`.

**Deadlock.**  The ae runs check it: a loop that runs can always step, and outside it
the application can always call.  In the others the system may stop: all clients have
gone, the last daemon exits, the context is left, `Run` returns, the scans and starts that a
run allows are over.  `Libraries` always offers a call, and checks deadlock.  `WorkerPool` can also
stop short when every worker was killed, which `ExitEnds` names.

## 5. Fairness

| specification | assumed | why the code justifies it |
|---|---|---|
| `AeLoop!FairSpec` | the loop's steps, the return of handlers, the timeout of `epoll_wait`, the clock | one thread that the operating system schedules; handlers are finite; a blocked `epoll_wait` returns at its timeout. No event is assumed to come, no application to start the loop |
| `EchoServer!EchoFairSpec` | the server steps when it can; each client takes what was sent to it | the same thread; without the second a client that never reads blocks `write` and with it the server (the sockets block), which the hazard at `echoServer.c:58` says |
| `Daemon!FairSpec` | each process takes its next step; a daemon completes its startup unless it dies | scheduling; a daemon that neither completes nor dies leaves its starter waiting by design. No death is assumed |
| `WorkerPool!FairSpec` | each thread, and main while it leaves the contexts | scheduling, and func returns. The body of the `with` is left when the user likes |
| `Reactor!FairSpec` | the loop and the clock | as for `AeLoop` |
| `PortScanner!ScannerFairSpec` | the event thread, the scan's threads, the threads of the toolkit end | connects time out; a thread of the toolkit that never ends keeps the scan waiting, by how it counts |
| `SwiftClient!ClientFairSpec` | the client's steps; what was asked is answered or the connection breaks | one thread; TCP keeps no request for ever without the one or the other. No fault is assumed, and no call |
| `WsgiServer!WsgiFairSpec` | each thread: the one in `start()`, each worker, each thread in `stop()` | scheduling; reads of a connection time out (`timeout`), accept too, and applications return |

All fairness is weak.  The bounded clocks stop at their bound; liveness of timers
is stated of those that are due, so a timer beyond the bound says nothing.

## 6. Theorems

Checked by TLAPS for every value of the constants that the modules' `ASSUME`s
allow.  `PROJECT.json` lists them under `theorems`.

**`AeLoop_proofs`**, from `FileAssumption`, `TimeAssumption` and `LoopAssumption`
(the sizes are naturals, the argument sets are sets of naturals):

| theorem | states |
|---|---|
| `Invariance` | `Spec => []IndInv` |
| `TypeCorrect` | `Spec => []TypeOK` |
| `MaxfdTheorem` | `Spec => []MaxfdIsHighest` |
| `InterestTheorem` | `Spec => []InterestIsMask` |
| `TimersTheorem` | `Spec => [](NewestFirst /\ NoTimerLost)` |
| `PassTheorem` | `Spec => []PassRunsOnlyOldTimers` |
| `BatchServedTheorem` | `Spec => BatchIsServed` |
| `OversleepTheorem` | `Spec => OversleepsLessThanASecond` |
| `NoneDueTheorem` | `Spec => PassLeavesNoneDue`, if handlers take no time |
| `SkewTheorem` | `Spec => SkewForcesAll` |

`IndInv` is the conjunction of `FileInv` (types of the table, `MaxfdIsHighest`,
`InterestIsMask`, registered events have a handler), `TimeInv` (types of the list,
ids below `timeEventNextId`, newest first, `NoTimerLost`), `LoopTypeOK`, `BatchInv`
(what is still due of an entry is registered; a file handler runs only for an entry
of the batch; `rfired` tells whether its read was handed out) and `PassInv`.  None of the
properties is inductive alone.  `MaxfdIsHighest` needs the table's types to know
that the search downwards finds the next registered descriptor; `InterestIsMask`
needs that a registration is never empty; that a timer's id is old needs that
`maxId` was below `timeEventNextId` when the pass began and that every id up to it
is in the list the pass found, which is `PassInv`.  The proof splits a step
into file-event steps, timer steps and control steps, with one lemma for each part
of the invariant.

The four action properties are about one kind of step each.  `BatchServedTheorem` is
about the step to the next entry: since what is due stays registered through whatever
the handlers do, the test of the mask before a call never passes over it.
`OversleepTheorem` needs arithmetic: `TimeToFireBound` splits two readings into
seconds and ticks and shows that the borrow makes the difference exact unless the
seconds are clamped at zero, and what is left then is less than a second.  The last
two need to know what the walk has behind it, which is `WalkInv`: the timers that
the pass found have ids of at most `maxId`; the one whose handler runs has run;
behind `te` (towards the head) no timer is due that existed when the pass began, as
far as time stands still; and after the clock was set back each timer that the pass
found has run or has had its second set to 0.  A timer handler that takes time makes one
due behind the walk, so `NoneDueTheorem` has the assumption that `AeLoopTimer` makes.

**`EchoServer_proofs`**, from `EchoAssumption` and the loop's.  The table may be smaller
than the process's limit of descriptors, and any registration may be refused.

| theorem | states |
|---|---|
| `EchoInvariance` | `EchoSpec => [](CoreInv /\ EchoInv)` |
| `ImplementsLoopTheorem` | `EchoSpec => ImplementsLoop` |
| `OpenIffWatchedTheorem` | `EchoSpec => []OpenIffWatched` |
| `EchoesInOrderTheorem` | `EchoSpec => []EchoesInOrder`, if `OneBuffer` |

`CoreInv` is `IndInv` without `InterestIsMask`, which the server breaks when it closes
the registered listening socket.  `EchoInv` says that a client has at most one socket
(`SockOK`), that what is registered is the listening socket or an open connection, with
its handlers and its `clientData`, and that what is open is registered but for one
connection when the server no longer listens (`WatchOK`), that a handler called and not
yet run stands at a registered event (`CallOK`), and that the epoll set is the table as
long as the server listens and lacks the closed socket afterwards (`AskedOK`).
`StepCases` sorts the steps: nothing to the loop, a step of its own, a call of its API
for a descriptor that is not closed, or the accept that closes the listening socket.
The first three keep `CoreInv` by the loop's own proof, the last changes only the epoll
set.  `ImplementsLoopTheorem` then shows of each kind that it is a step of `AeLoop` with
`asked` for `interest`, or a stutter.  `BytesInv` adds the bytes of each client: what is in its
struct is what was read and not yet echoed, from `pos` on.  `OneBuffer` is that a
client waits for its echo and sends no more than a struct holds altogether; both are
needed, as `EchoServerPipelined` and `MaxBytes = 3` in section 7 show.

**`Processes_proofs`** has two parts that use nothing of one another, the daemon and the
port scanner.  The daemon, from `DaemonAssumption` (the sets of exit statuses are sets of
exit statuses, a number of processes):

| theorem | states |
|---|---|
| `DaemonInvariance` | `Spec => []DaemonInv` |
| `DaemonTypeCorrect` | `Spec => []TypeOK` |
| `OneDaemonTheorem` | `Spec => []OneDaemon` |
| `ContractTheorem` | `Spec => KeepsContract`, if `Orderly` |

The processes form one chain (`OneChain`): at most one is an heir, a process that is
a daemon or may become one by its own steps; at most one is a guard, which waits
for a child or watches it; and the child of a guard is dead or is the daemon.  A fork
hands the place of the heir to the child and makes the parent a guard, and a guard
becomes an heir again only when it finds the child dead.  That two daemons never run
says nothing of who watches whom and is not inductive without it.  `ContractTheorem`
needs that before it is ready a process dies by exiting with a status only
(`Orderly`): `SaidWhenUp` then says that whoever may report success comes after a
daemon completed.  A death by a signal breaks it (section 7, `MCSignals`).

The port scanner, in the same module, from `ScannerSizes` (positive numbers of octets, bits and
threads):

| theorem | states |
|---|---|
| `ScannerInvariance` | `ScannerSpec => []ScannerInv` |
| `ThreadsAreCountedTheorem` | `ScannerSpec => ThreadsAreCounted` |

The code compares counts of all threads of the group taken at two moments.  `BoundOK`
says what that tells: the count at the start, `threadno`, is at most what the other
threads are now and by how much they have fallen since, so the scan's own threads are
never more than the limit and that fall.  Counting needs that a thread is told from
every other (`ThreadsOK`).

**`Reactor_proofs`**, from `ReactorAssumption`:

| theorem | states |
|---|---|
| `Invariance` | `Spec => []IInv` |
| `InterestTheorem` | `Spec => []MapIsInterest` |
| `AliveTheorem` | `Spec => []HandlersAreAlive` |
| `NoStaleTheorem` | `Spec => []NoStaleHandler` |

`HandlersOK` is `m_fdmap` in step with epoll: an operator of its own (`InStep`), kept by
`RegisterEvent` and `UnRegisterEvent` whatever `epoll_ctl` answers.  `SocketsOK` gives
each connection its one descriptor from its accept to its deletion.  `BatchOK` is what
keeps stale handlers out between events: each descriptor has at most one event in the batch,
and only the handler of that event closes it, so an event not looked at is still about the
socket it was reported for.  `ServedOK` follows one event through read, write and
error.  `GoneHadEnded` adds what is left within one: a handler that is gone when the
error is looked at was closed by a read that returned 0, so its peer had sent FIN and
then reset; a reset alone makes the read fail, which closes nothing.

**`WorkerPool_proofs`**, from `PoolAssumption` (a finite set of workers, a
positive queue size):

| theorem | states |
|---|---|
| `Invariance` | `Spec => []IInv` |
| `TypeCorrect` | `Spec => []TypeOK` |
| `PoolImplemented` | `Spec => ImplementsTaskPool` |

`IInv` is `Shape` (types, and that a worker in func holds an item it was called
with), `HoldsTheRest` (the work queue holds exactly what was put and not taken,
each item once), `SignalsLast` (no item is behind a stop signal, and none is left
when a worker has met its own) and `Phases` (who is alive in which phase of main).
`TaskPool` says that the context is left only with all work done.  The step that
leaves it is the join: every worker is stopped or killed by then.  If they are not
all killed one met its signal, so by `SignalsLast` only signals are left in the
queue, and by `HoldsTheRest` everything put was taken.  `PoolImplemented` shows
that `Init` maps to `PoolInit` and each step under `IInv` to a `Give`, a `WorkOn`,
a `LeaveContext` or a stutter.

`EverythingAccountedTheorem` is about the two pools of printers, whose queues the
workers fill.  `AccountInv` follows each stream of words from the speaker through the
queue to the printer (`StreamOK`: each word is in one place, no word is behind a stop
signal except what a printer itself left), says that nobody says the same twice
(`SpeakersOK`), that an item called has its outcome, is being worked on or has its
exception kept (`OutcomesOK`), and that the exceptions kept were reported when main
leaves the workers' context (`ReportedOK`).  At the end the printers are stopped, so
their queues hold no word, and what was said is what was printed.

**`SwiftClient_proofs`**, from `ClientAssumption` (objects are a finite set of numbers,
whose directories keep their order) and `NoneAssumption`:

| theorem | states |
|---|---|
| `Invariance` | `ClientSpec => []IInv` |
| `KeepsPromiseTheorem` | `ClientSpec => KeepsPromise` |

The refinement mapping is the identity on the store and the call.  `OfThisCall` says
that what is on the connection is of the call under way and of its present try: no
request outlives a try, since the answer is taken before the next request, and a
connection on which that fails is given up or stays broken.  `SentOK` says that the request carries
what was read of the contents since they were wound back, so that a whole request
carries what was wanted, and the server's step is the `Act` of the call.  `SteadyOK`
relates the ghosts to the store.  `ListingOK` says that a listing so far is ordered,
has only entries that ever were there, and has each that was there all the time or will
still come to it; `AnswerOK` says the same of the page on its way.  So an empty page ends a
listing that has all, and a returned call is a `Return`.  Sending without winding back
breaks `SentOK` (the mutant of `KeepsPromise`).

**`LwanHash_proofs`**, from `HashSizes`, `HashKeys`, `HashPointers` and `HashOptions` (some
buckets, arrays that grow by two entries or more, finitely many names, each in a bucket;
pointers to keys are not pointers to values, and neither is an error code):

| theorem | states |
|---|---|
| `HashInvariance` | `HashSpec => []HashInv` |
| `ThereIsRoom` | `HashSpec => []RoomForOneMore` |
| `OwnsTheorem` | `HashSpec => []OwnsWhatItHolds`, if `~Readds` and keys are freed only with values |
| `IterationTheorem` | `HashSpec => IterationMeetsAll` |
| `KeyStoreTheorem` | `HashSpec => ImplementsKeyStore` |
| `DictionaryTheorem` | `HashSpec => HashIsDictionary` |

`HashInv` is `TableInv` and `IterInv`.  `TableInv` says that the entries are a table
(`IsTable`: each in the bucket of its name, no name twice), that `total` leaves a
bucket in use one entry more than it holds, which `NeedsRoom` keeps when it grows and
`Fitting` when it shrinks, and that `count` is the number of names.  What a call does to
a table is said once, of any entries: where a name stands after one is added
(`AppendedEntry`), replaced (`ReplacedEntry`) or deleted by the `memmove`
(`DeletedEntry`), and from that what the table keeps for each name, which is the step
of `KeyStore`.  The count needs that names, not entries, are counted, which is where
`IsTable` enters.  `IterInv` splits the names that were there all along by the
iterator's place: those it has passed were met once, those ahead never.  A deletion
moves entries up, so a name behind the deleted one would be passed without being met
when the iterator stands beyond it; those are the names `HashDel` takes out of
`steady`.  When the iterator has no next entry nothing is ahead.  `OwnedBy` is the
ownership in a form a step can be followed in: a pointer is owned exactly if some
entry holds it, and then by one entry only.  Its two hypotheses are those of section 7:
a pair that is added again with the pointers the table has (`Readds`) is freed under its entry,
and a table made with `free_key` alone leaves keys behind in `hash_free`.

**`WsgiServer_proofs`**, from `ServerAssumption` (finitely many connections, a pool of at least one
thread, at most `MaxSize` of them if that is not 0):

| theorem | states |
|---|---|
| `ServerTypes` | `WsgiSpec => [](WsgiTypeOK /\ Numbered)` |
| `PoolKeepsItsSize` | `WsgiSpec => []PoolSize` |
| `ServerInvariant` | `WsgiSpec /\ [][~GrowsLate]_vars => []WsgiInv` |
| `StopIsGraceful` | `WsgiSpec => GracefulStop`, if `MaxStops <= 1` |
| `EachStopIsGraceful` | `WsgiSpec /\ [][~GrowsLate]_vars => GracefulStop` |

What a stop leaves behind depends on three numbers: the threads alive, the shutdown
requests queued and the threads in the list.  Neither property is inductive, since it does not say
how they go together.  For `PoolSize` it is enough to add that a stop that has got to its shutdown
requests has closed the socket (`PoolInv`): a worker that takes a request is one thread and one
request less, a `grow` adds a thread, and a `shrink` that queues n requests has
`n <= Cardinality(Remaining) - MinSize`, where `RemainingLive` finds as many threads alive as
remain in the list, but for the dead among them.  So the threads no request waits for
are, after it, at least `MinSize` less the dead in the list and the requests that were queued
before it, which is `unseen`, and what an earlier call had taken away no longer counts.

`PillsInOrder` says more for `GracefulStop`, by where the stop is: up to its shutdown requests
the threads alive outnumber those queued by `MinSize - unseen`; while the list is popped and
joined each thread alive is in the list or is being joined; when the stop is over the list
is empty, which is why the next start finds a pool it can fill.  Threads are told apart by their
number (`Numbered`), and `StopsInOrder` and `StartsInOrder` say which starts and stops may have
been called by then.  `OwedAreKept` is the argument for `GracefulStop`: a connection that was
queued or in service is closed, held by a worker, or queued behind fewer shutdown requests than
there are threads alive, so when no thread is left it has been closed.  That it holds when the
requests are put is where `unseen < MinSize` comes in: there is one thread at least that
no earlier request stops.

`GrowsLate` is a call of `grow` when the socket is gone: `ready` is set by the
thread in `start()` after a stop has looked at it, and a `grow` that believes it leaves
threads that the next start takes for its own.  It came out of a failed proof, needs
three starts to do harm to a stop and is beyond the run's instance (section 7).  `StopIsGraceful`
needs no such assumption, since what comes after the one stop does not matter to it.  With two
stops under way, or a second stop of a server that does not run, the first need not find its shutdown
requests where it put them; `GracefulStop` therefore speaks of a stop from outside, with no other
from a worker, of a server that was started as often as it was stopped.

Only model-checked: every liveness property (fairness is outside the prover);
`ScanIsExact`, the timers of the reactor, since the heap that orders them is built by
recursion over data; `WholeRangeOnce`, since the plan of a scan is; the maps of ovs, which use `Bitwise`, and
the strings, whose calls are loops over data, and with them `AccessesStayInside` but for
the hash table (`ThereIsRoom`);
`HealthyCallReturns`, which counts tries and faults of several calls; `EachToItsRequest`
of the connections of the WSGI server, where the reading of a body is a fold.

## 7. Further configurations

These cfgs state what a comment or a header of the repository says and the code
does not do, or a case that a passing run excludes.  Each can be run with
`tlc -config X.cfg MC<module>` and ends in a counterexample.

| cfg (module) | property | what it shows |
|---|---|---|
| `AeLoopRecycled` (`MCAeLoop`) | `EventOfThisRegistration` | an event reported for a registration that a handler of the same batch deleted reaches the one made in its place (`ae.c:377-380`) |
| `AeLoopZeroDelay` | `PassEnds` | a timer handler that returns 0 is met again by the walk it ended, for ever (`ae.c:283-298`) |
| `EchoServerPipelined` | `EchoesInOrder` | what a client sends before its echo has left is echoed wrongly (`echoServer.c:82`) |
| `ReactorFull` | `TimesAreInHeap` | with a full heap a timer is registered and never fires (`reactor.cpp:360`) |

More of the kind, as a change of the cfg of a run (or of the named cfg):

| run | change | property | what it shows |
|---|---|---|---|
| `AeLoopSkew` | 1 timer, `Delays = {1}`, `MaxJumps = 0` | `NoOversleep` | for a late timer only the seconds are clamped at zero and the poll lasts up to a second (`ae.c:340-353`) |
| `AeLoopFile` | `MaxClock = 2`, `MaxTimers = 1`, `Delays = {0, 1}` | `TimeEventsFirst` | file events are served before due timers, the comment says the reverse (`ae.c:309-310`) |
| `AeLoopFile` | `CallFlags <- MCTimeOnly` | `FileEventsOnlyIfAsked` | `AE_TIME_EVENTS` alone serves file events (`ae.c:316`) |
| `EchoServer` | `Clients <- MCOneClient`, `BufSize = 1`, `SndBuf = 2` | `EveryByteEchoed` | after `BUF_SIZE` bytes a healthy connection is closed (`echoServer.c:82`) |
| `EchoServer` | `MaxBytes = 3` | `EchoesInOrder` | what a connection sends beyond `BUF_SIZE` bytes is echoed wrongly (`echoServer.c:82`) |
| `EchoServer` | none | `ClientsAreAccepted` | a registration that fails closes the listening socket: a client that waits in the backlog is reset, not accepted (`echoServer.c:98-100`, `124`) |
| `DaemonContract` | `StartupDeaths <- MCSignals` | `KeepsContract` | a daemon killed during its startup: the starter exits with 0 (`daemon-unix.c:538`) |
| `DaemonContract` | `MaxProcs = 3`, `RunDeaths <- MCNone`, `OtherDeaths <- MCCrash` | `StarterIsAnswered` | a monitor killed before it reports: the daemon holds the pipe open, the starter waits (`daemon-unix.c:551`) |
| `DaemonContract` | `Detach = FALSE`, `MaxProcs = 3`, `StartupDeaths <- MCCrash`, `RunDeaths <- MCCrash` | `CrashedDaemonReplaced` | a daemon killed by a signal during its startup is not replaced by its monitor (`daemon-unix.c:459`) |
| `Reactor` | `Reregisters = TRUE` | `UnRegisterIsFinal` | a timer registered twice fires after it was unregistered (`reactor.cpp:364`) |
| `Reactor` | none | `NoUseAfterDelete` | a peer that resets after its FIN: the handler deletes itself on the read and is asked for the error (`reactor.cpp:80`) |
| `Libraries` | `FreePairs <- MCLeakyPairs` | `OwnsWhatItHolds` | with one free function of two, a replaced pointer leaks or is freed under its entry (`hash.c:250`) |
| `Libraries` | `Readds = TRUE` | `OwnsWhatItHolds` | a pair that is added again with the same pointers is freed and kept (`hash.c:250`) |
| `Libraries` | `StaticTexts <- MCEvenTexts` | `AccessesStayInside` | the copy of a static text as long as a buffer is ended behind the block (`strbuf.c:94`) |
| `PortScanner` | none | `RangeAsWritten` | a range across 128.0.0.0 is not scanned, though "each combination" is promised (`PortScanner.java:196`, `236`) |
| `SwiftClient` | `Retries = 1` | `HealthyCallReturns` | a broken connection and a refused token of earlier calls use up the tries of a healthy one |
| `SwiftClient` | | `RaisedMeansNotDone` | a delete whose answer is lost is tried again and raises 404, though it deleted the object (`client.py:1124`) |
| `SwiftClient` | `Lengths = {3}`, `ShortFiles = TRUE` | `CallEnds` | contents shorter than `content_length`: the upload reads and sends nothing for ever (`client.py:887`) |
| `WsgiServer` | | `NeverBelowMin` | two calls of `shrink` kill more threads than "not below self.min" allows (`cherrPy-wsgi.py:1436-1450`) |
| `WsgiServer` | `MaxShrinks = 1` | `NeverBelowMin` | a shutdown request nobody took is still queued when the server is started again, and ends a new thread |
| `WsgiServer` | `MaxShrinks = 0`, `MaxThreads = 5`, `MinSize = 2`, `MaxSize = 3`, `Amounts = {1, 2}`, `MaxAsks = 0` | `NeverBelowMin` | `stop` comes before `ready` is set and `grow` after it: the next start finds its threads and creates none (`cherrPy-wsgi.py:1762-1764, 1404-1413, 1425`) |
| `WsgiServer` | `MaxThreads = 6`, `MaxSize = 3`, `Amounts = {1, 2}`, `MaxAsks = 0`, `MaxStarts = 3`, `MaxShrinks = 1`, `MaxStops = 3`, and five for the four of `Bounded` | `GracefulStop` | the same `grow`, after a stop that left a shutdown request and a connection queued: its thread takes the request, the start that finds it raises, and the next stop has nobody to serve the connection |
| `WsgiServer` | | `EachStopServes` | after two calls of `shrink` no thread is left for a connection in the queue when `stop` returns (`cherrPy-wsgi.py:1445, 1456`) |
| `WsgiServer` | `MaxThreads = 2`, `MinSize = 2`, `Amounts = {}`, `MaxStops = 2`, `MaxStarts = 1` | `StopEnds` | two applications that exit at once: each worker pops and joins the other, for ever (`cherrPy-wsgi.py:1463-1482`) |
| `WsgiServer` | | `InterruptIsRaised` | an interrupt set between the test in `start()` and the next test of `ready` is never raised (`cherrPy-wsgi.py:1764-1771`) |
| `WsgiServer` | | `NoneLeftBehind` | a connection queued behind the shutdown requests stays open with no thread to serve it (`cherrPy-wsgi.py:1803, 1856`) |
| `WsgiServer` | | `NoErrorBetween` | behind a chunked body an idle client gets a 408 between two requests, since the empty line that ends the body has begun the next (`cherrPy-wsgi.py:568, 1252`) |
| `WsgiServer` | | `ReadyMeansParsed` | an illegal request line is answered with 400, its headers are read, and the request is responded to, with a 500 (`cherrPy-wsgi.py:531, 548`) |
| `WsgiServer` | | `LinesAreRead` | `readline` of a chunked body never returns: what it found stays in the buffer (`cherrPy-wsgi.py:415-420`) |

## 8. What is not modelled

In the modelled parts:

* ae: the creation and destruction of the loop object, `aeWait`, `aeGetApiName`,
  the other three backends; a timer handler that deletes its own timer and asks
  for another period (undefined behaviour, `ae.c:299`).
* echo server: addresses, IPv6, failing allocation, failure of the first
  registration.
* daemon: the pidfile, standard descriptors, `setsid`, the ten seconds between two
  restarts.  `daemonize_complete` is not in this copy of the file; it is modelled as
  the comments use it.
* pools: formatting and encoding of messages, the optional arguments.
* reactor: `epoll_wait` failing or interrupted, a timer erasing the entry it fires
  for (the iterator is then invalid), a failing registration in `OnAccept`,
  `UnRegisterAllEvent` (no caller), partial writes.  `Stop` adds to an uninitialised
  `timeval`, so its stop time is either reached or never is.  `RegisterTimer`
  puts milliseconds into `tv_usec` (`reactor.cpp:286`); the model computes what the
  code computes.
* containers: the values of hash functions, the use of memory the caller freed, the
  statistics and the thread-local counters of hmap, `hmap_random_node`.
* strings: numbers and their formatting, `sdsfromlonglong`, dates, hex dumps, files beyond
  what `ds_get_line` reads; locales.
* port scanner: the window, the sockets themselves, what is printed.  Reading the list of
  results while it is written is the library's synchronized collection's affair.
* client of the object store: getting a token beyond whether it succeeds (keystone
  catalogue, three versions of the protocol), headers, quoting, proxies, response
  dictionaries (a first `get_auth` that fails leaves a dictionary that
  `_add_response_dict` does not find, `client.py:1106`, and raises `KeyError`), how long it
  sleeps, bodies cut short that the library does not notice, a text put with a
  `content_length` of its own.
* WSGI server: SSL, statistics, the dispatcher by path, the environment of the application,
  the values of headers other than `Connection`, `Transfer-Encoding`, `Expect` and
  `Content-Length`, the address and version on a request line (a legal line, one that is answered,
  one that raises), status lines and dates; bodies whose units do not end a line, which a read of
  a line would join with what follows; an application that catches a socket error; errors in answering that the code does not ignore and that end the worker
  (`cherrPy-wsgi.py:1261`), `grow` and `shrink` called while `stop` runs, a second start while
  a stop is under way, threads that `start` cannot create.

The other directories:

* `Clang/fd_server` and its copy do not compile: statements without a semicolon in
  `server_main.c` and `name_un_socket.c`, `nr` and `newfd` declared twice in `recv_fd`, `recv_fd`
  called with two of its three arguments.  There is no behaviour to be faithful to.
* `Clang/APUE/apue`, `Clang/aio/sendfile`, `Clang/aio/aio`, `Clang/network`, `cpp/epoll/unixsocket*`:
  small exercises, or what `EchoServer` and `Reactor` show again.
* Most of the lines of the repository are headers of codecs (`Clang/media`), vendored
  packet classes, atomics per compiler, a vendored list of macros and samples of one call;
  they have no state that a model could follow.

Everything else: see the inventory and `components` in `PROJECT.json`.
