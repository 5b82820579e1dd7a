---------------------------- MODULE PortScanner -----------------------------
(***************************************************************************)
(* src/java/PortScanner: a scan tries every address of a range with every  *)
(* port, each in a thread of its own.  The scanner counts the threads of   *)
(* its group (Thread.activeCount), all of them, and compares with what it  *)
(* counted when it began: it has no list of the threads it started.        *)
(***************************************************************************)
EXTENDS Integers, Sequences, FiniteSets, SequencesExt

CONSTANTS
  Ranges,      \* the ranges users type: pairs of addresses, tuples of octets
  PortTexts,   \* the lists of ports users type
  Threads,     \* the numbers of threads users ask for
  Octets,      \* how many octets an address has
  OctetBits,   \* SIZE_OF_BYTE
  MaxThreads,  \* MAX_THREADS
  MaxScans,    \* bound: how often the button is pressed
  MaxHelpers   \* bound: threads of the toolkit that start during the run

ASSUME ScannerSizes == /\ {Octets, OctetBits, MaxThreads} \subseteq Nat \ {0}
                       /\ MaxScans \in Nat /\ MaxHelpers \in Nat /\ Threads \subseteq Int

VARIABLES
  state,       \* of the event thread: "idle", "starting", "waiting", or "exited"
  asked,       \* the range and the ports of the scan that is on
  todo,        \* <<port, address>> pairs that have no thread yet, in order
  limit,       \* noOfThreads
  threadno,    \* the threads counted when the scan began
  running,     \* live scan threads: [scan |-> its scan, nth |-> which of the scan's threads
               \* it is (the one of the nth pair tried), said |-> it has reported]
  others,      \* live threads of the group that scan nothing, the event thread included
  helpers,     \* how many of those were ever started
  scans,       \* how many scans were begun
  tried,       \* the pairs a thread was started for in this scan, in order
  fallen       \* how far threads that are not of this scan were ever below threadno

scanVars == <<state, asked, todo, limit, threadno, running, others, helpers, scans, tried, fallen>>

Mine == {t \in running : t.scan = scans}
ActiveCount == others + Cardinality(running)
FallsTo(n) == fallen' = IF threadno - n > fallen THEN threadno - n ELSE fallen

\* decodeIP: each octet is shifted as an int, which has as many bits as an
\* address, and then added to a long.
AsInt(x) == IF x >= 2 ^ (Octets * OctetBits - 1) THEN x - 2 ^ (Octets * OctetBits) ELSE x

\* Mutant: the first octet is taken for the lowest.
DecodeIP_LastFirst(a) == FoldLeftDomain(LAMBDA sum, i : sum + AsInt(a[i] * 2 ^ (OctetBits * (i - 1))), 0, a)

DecodeIP(a) == FoldLeftDomain(LAMBDA sum, i : sum + AsInt(a[i] * 2 ^ (OctetBits * (Octets - i))), 0, a)

EncodeIP(ip) == [i \in 1..Octets |-> (ip \div 2 ^ (OctetBits * (Octets - i))) % (2 ^ OctetBits)]

\* Mutant: a port is kept as often as it was typed.
DecodePorts_KeepsDuplicates(text) == text

\* decodePorts keeps the first of equal ports.
DecodePorts(text) == FoldLeft(LAMBDA ports, p : IF Contains(ports, p) THEN ports ELSE Append(ports, p), <<>>, text)

\* The loops of doScan: for each port, each address from the first to the last.
Plan(first, last, ports) ==
  FlattenSeq([p \in 1..Len(ports) |->
    [k \in 1..(IF last < first THEN 0 ELSE last - first + 1) |-> <<ports[p], EncodeIP(first + k - 1)>>]])

ScannerInit ==
  /\ state = "idle" /\ asked = [range |-> <<>>, ports |-> <<>>] /\ todo = <<>> /\ limit = 1 /\ threadno = 0
  /\ running = {} /\ others = 1 /\ helpers = 0 /\ scans = 0 /\ tried = <<>> /\ fallen = 0

\* jButton1ActionPerformed: on the event thread, so only when no scan is on.
Press(r, text, n) ==
  /\ state = "idle" /\ scans < MaxScans
  /\ asked' = [range |-> r, ports |-> text]
  /\ IF DecodePorts(text) = <<>>
     THEN state' = "exited" /\ UNCHANGED <<todo, limit, threadno, scans, tried, fallen>>
     ELSE /\ state' = "starting" /\ scans' = scans + 1 /\ tried' = <<>> /\ fallen' = 0
          /\ todo' = Plan(DecodeIP(r[1]), DecodeIP(r[2]), DecodePorts(text))
          /\ limit' = (IF n < 1 THEN 1 ELSE IF n > MaxThreads THEN MaxThreads ELSE n)
          /\ threadno' = ActiveCount
  /\ UNCHANGED <<running, others, helpers>>


MayStart == ActiveCount < limit + threadno

StartThread ==
  /\ state = "starting" /\ todo # <<>> /\ MayStart
  /\ running' = running \cup {[scan |-> scans, nth |-> Len(tried) + 1, said |-> FALSE]}
  /\ todo' = Tail(todo) /\ tried' = Append(tried, Head(todo))
  /\ UNCHANGED <<state, asked, limit, threadno, others, helpers, scans, fallen>>

AllStarted ==
  /\ state = "starting" /\ todo = <<>> /\ state' = "waiting"
  /\ UNCHANGED <<asked, todo, limit, threadno, running, others, helpers, scans, tried, fallen>>

\* Mutant: the scanner waits until it is alone.
OnlyOldThreads_Alone == ActiveCount = 0

\* Mutant: the scanner stops waiting one thread early.
OnlyOldThreads_OneEarly == ActiveCount <= threadno + 1

OnlyOldThreads == ActiveCount <= threadno

\* "Scan finished": the event thread is free again.
Finish ==
  /\ state = "waiting" /\ OnlyOldThreads /\ state' = "idle"
  /\ UNCHANGED <<asked, todo, limit, threadno, running, others, helpers, scans, tried, fallen>>

\* ThreadScanSocket.run: open, closed, filtered, or down, which is said only
\* when verbose; any other IOException ends the program.
Reports(t) ==
  /\ state # "exited" /\ ~t.said /\ running' = (running \ {t}) \cup {[t EXCEPT !.said = TRUE]}
  /\ UNCHANGED <<state, asked, todo, limit, threadno, others, helpers, scans, tried, fallen>>
SocketError(t) ==
  /\ state # "exited" /\ ~t.said /\ state' = "exited"
  /\ UNCHANGED <<asked, todo, limit, threadno, running, others, helpers, scans, tried, fallen>>
ThreadEnds(t) ==
  /\ state # "exited" /\ t.said /\ running' = running \ {t}
  /\ FallsTo(others + Cardinality(running' \ Mine))
  /\ UNCHANGED <<state, asked, todo, limit, threadno, others, helpers, scans, tried>>

\* Other threads of the group: timers, image fetchers and the like.
HelperStarts ==
  /\ state # "exited" /\ helpers < MaxHelpers /\ helpers' = helpers + 1 /\ others' = others + 1
  /\ UNCHANGED <<state, asked, todo, limit, threadno, running, scans, tried, fallen>>
HelperEnds ==
  /\ state # "exited" /\ others > 1 /\ others' = others - 1
  /\ FallsTo(others' + Cardinality(running \ Mine))
  /\ UNCHANGED <<state, asked, todo, limit, threadno, running, helpers, scans, tried>>

DoScan == StartThread \/ AllStarted \/ Finish
ScannerNext ==
  \/ DoScan \/ HelperStarts \/ HelperEnds
  \/ \E r \in Ranges, text \in PortTexts, n \in Threads : Press(r, text, n)
  \/ \E t \in running : Reports(t) \/ SocketError(t) \/ ThreadEnds(t)

ScannerSpec == ScannerInit /\ [][ScannerNext]_scanVars

\* The scheduler runs every thread, connect times out after TIME_OUT, and the
\* toolkit's helpers end after a while.
ScannerFairSpec ==
  /\ ScannerSpec
  /\ WF_scanVars(DoScan) /\ WF_scanVars(\E t \in running : Reports(t) \/ ThreadEnds(t)) /\ WF_scanVars(HelperEnds)
-----------------------------------------------------------------------------
\* "if the MAX_THREADS to run are not violated", "When all threads created finish
\* execution Scan finished is printed" (javadoc of doScan): a scan has more
\* threads than asked for, and ends before some of its threads, only by as many as
\* other threads, those of an earlier scan among them, have ended since it began.
ThreadsAreCounted ==
  /\ [](Cardinality(Mine) <= limit + fallen)
  /\ [][Finish => Cardinality(Mine) <= fallen]_scanVars

\* Addresses in order: the first octet that differs decides.  Signed(a) has a
\* first octet that is negative from one half on, as in an int.
FirstDiffers(a, b) == CHOOSE i \in 1..Octets : a[i] # b[i] /\ \A j \in 1..(i - 1) : a[j] = b[j]
AtMost(a, b) == a = b \/ a[FirstDiffers(a, b)] < b[FirstDiffers(a, b)]
Signed(a) == [a EXCEPT ![1] = IF @ >= 2 ^ (OctetBits - 1) THEN @ - 2 ^ OctetBits ELSE @]
Addresses == [1..Octets -> 0..(2 ^ OctetBits - 1)]
Between(r) == {a \in Addresses : AtMost(r[1], a) /\ AtMost(a, r[2])}
SignedBetween(r) == {a \in Addresses : AtMost(Signed(r[1]), Signed(a)) /\ AtMost(Signed(a), Signed(r[2]))}
Tried(addresses) == ToSet(tried) = ToSet(asked.ports) \X addresses /\ Len(tried) = Cardinality(ToSet(tried))

\* PortScanner.java:196, 247-248: a scan tries every address of the range with
\* every port typed, across the ends of octets, and none of them twice, where the
\* addresses from 128.0.0.0 on come before 0.0.0.0: a range typed forwards over
\* 128.0.0.0 is empty, and one typed backwards over it goes around.
WholeRangeOnce == [][Finish => Tried(SignedBetween(asked.range))]_scanVars

\* "Scans each combination of IPs and Ports" (javadoc of doScan): of those
\* between the two addresses as they are written.
RangeAsWritten == [][Finish => Tried(Between(asked.range))]_scanVars

\* A scan ends, and the window answers again, however its threads' answers and
\* the toolkit's threads fall.
ScanEnds == (state = "starting") ~> (state \in {"idle", "exited"})
=============================================================================
