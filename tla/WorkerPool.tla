----------------------------- MODULE WorkerPool -----------------------------
(***************************************************************************)
(* python/multithreading.py: a MultiThreadingManager, which prints what    *)
(* anybody says from two threads of its own, and inside its context a      *)
(* QueueFunctionManager, whose threads call func for what the main thread  *)
(* puts into their queue.                                                  *)
(*                                                                         *)
(* All three pools are QueueFunctionManagers: a bounded queue, a list of   *)
(* threads that run QueueFunctionThread.run, and an __exit__ that sends    *)
(* one stop signal per living thread, waits for all of them and reports    *)
(* their exceptions as error messages.  The pools differ in the function   *)
(* their threads call: func, _print and _print_error.                      *)
(***************************************************************************)
EXTENDS Integers, Sequences, FiniteSets

CONSTANTS
  Workers,       (* threads of the inner pool                              *)
  Items,         (* work items; each is put at most once                   *)
  QueueSize,     (* maxsize of the queues, 10000 in the code               *)
  CanKill,       (* func may raise what is no Exception, such as SystemExit*)
  CanFail        (* connection_maker may raise an exception                *)

ASSUME PoolAssumption ==
  /\ QueueSize \in Nat \ {0}
  /\ CanKill \in BOOLEAN /\ CanFail \in BOOLEAN
  /\ IsFiniteSet(Workers)
  /\ Workers \cap {"printer", "error_printer", "main"} = {}

Queues  == {"work", "print", "error"}
Threads == Workers \cup {"printer", "error_printer"}
Speakers == Workers \cup {"main"}

Pool(t) == CASE t = "printer" -> "print"
             [] t = "error_printer" -> "error"
             [] OTHER -> "work"

ThreadList(q) == {t \in Threads : Pool(t) = q}

(* What is in the queues: the signal, an item, or a message, which says    *)
(* who said it about what and whether it reports an exception.             *)
StopWorkerThreadSignal == [kind |-> "stop"]
Job(i)             == [kind |-> "job", item |-> i]
Message(t, x, out) == [kind |-> out, by |-> t, about |-> x]
Report(t, x)       == [kind |-> "raised", by |-> t, about |-> x]
Nothing            == [kind |-> "nothing"]

VARIABLES
  pc,          (* main: "start", "body", "stop", "report" or "done"        *)
  leaving,     (* the pool whose __exit__ runs                             *)
  toSend,      (* stop signals __exit__ has still to put                   *)
  started,     (* workers started                                          *)
  queue,       (* what each queue holds                                    *)
  at,          (* each thread: "unborn", "get", "func", "stopped", "killed"*)
  holds,       (* what it took from the queue last                         *)
  said,        (* who said something in this call of func, or in the body  *)
  exc_infos,   (* the entries of each thread                               *)
  error_count,
  (* Ghosts.                                                               *)
  put,         (* items put                                                *)
  called,      (* items func was called with                               *)
  results,     (* items func returned for                                  *)
  spoken,      (* messages put in the queues of the printers               *)
  printed      (* messages on the streams                                  *)

mainVars   == <<pc, leaving, toSend, started, put>>
threadVars == <<at, holds, exc_infos, called, results, printed, error_count>>
vars == <<mainVars, threadVars, queue, said, spoken>>

Init ==
  /\ pc = "start" /\ leaving = "work" /\ toSend = 0 /\ started = {} /\ put = {}
  /\ queue = [q \in Queues |-> <<>>]
  /\ at = [t \in Threads |-> IF t \in Workers THEN "unborn" ELSE "get"]
  /\ holds = [t \in Threads |-> Nothing]
  /\ exc_infos = [t \in Threads |-> {}]
  /\ said = {} /\ spoken = {} /\ printed = {}
  /\ called = {} /\ results = {} /\ error_count = 0

-----------------------------------------------------------------------------

IsAlive(t) == at[t] \in {"get", "func"}

(* Queue.put blocks while the queue is full.                               *)
Put(q, x) ==
  /\ Len(queue[q]) < QueueSize
  /\ queue' = [queue EXCEPT ![q] = Append(@, x)]

Says(stream, m) ==
  /\ Put(stream, m)
  /\ spoken' = spoken \cup {m}

(* print_msg or error; bound: one of them in a call of func, and in the    *)
(* body.                                                                   *)
Speak(t, x) ==
  /\ t \notin said /\ said' = said \cup {t}
  /\ \E stream \in {"print", "error"} : Says(stream, Message(t, x, stream))

-----------------------------------------------------------------------------
(* QueueFunctionThread.run                                                 *)

TakesStop(t) == at' = [at EXCEPT ![t] = "stopped"] /\ UNCHANGED <<holds, called>>

TakesJob(t, x) ==
  /\ at' = [at EXCEPT ![t] = "func"]
  /\ holds' = [holds EXCEPT ![t] = x]
  /\ called' = IF t \in Workers THEN called \cup {x.item} ELSE called

Get(t) ==
  LET q == Pool(t) IN
  /\ at[t] = "get" /\ queue[q] # <<>>
  /\ queue' = [queue EXCEPT ![q] = Tail(@)]
  /\ IF Head(queue[q]) = StopWorkerThreadSignal
     THEN TakesStop(t) ELSE TakesJob(t, Head(queue[q]))
  /\ said' = said \ {t}
  /\ UNCHANGED <<mainVars, exc_infos, results, printed, error_count, spoken>>

FuncSpeaks(t) ==
  /\ t \in Workers /\ at[t] = "func"
  /\ Speak(t, holds[t].item)
  /\ UNCHANGED <<mainVars, threadVars>>

(* _print_error counts before it prints.                                   *)
Counts(t) == IF t = "error_printer" THEN error_count + 1 ELSE error_count

FuncReturns(t) ==
  /\ at[t] = "func"
  /\ at' = [at EXCEPT ![t] = "get"]
  /\ IF t \in Workers
     THEN results' = results \cup {holds[t].item} /\ UNCHANGED printed
     ELSE printed' = printed \cup {holds[t]} /\ UNCHANGED results
  /\ error_count' = Counts(t)
  /\ UNCHANGED <<mainVars, queue, holds, exc_infos, said, called, spoken>>

\* Mutant: the exception is not kept.
FuncRaises_Dropped(t) ==
  /\ at[t] = "func"
  /\ at' = [at EXCEPT ![t] = "get"]
  /\ error_count' = Counts(t)
  /\ UNCHANGED <<mainVars, queue, holds, exc_infos, said, called, results,
                 printed, spoken>>

FuncRaises(t) ==
  /\ at[t] = "func"
  /\ at' = [at EXCEPT ![t] = "get"]
  /\ exc_infos' = [exc_infos EXCEPT ![t] = @ \cup {holds[t]}]
  /\ error_count' = Counts(t)
  /\ UNCHANGED <<mainVars, queue, holds, said, called, results, printed, spoken>>

(* Only Exceptions are caught: the thread ends.                            *)
FuncKills(t) ==
  /\ CanKill /\ t \in Workers /\ at[t] = "func"
  /\ at' = [at EXCEPT ![t] = "killed"]
  /\ UNCHANGED <<mainVars, queue, holds, exc_infos, said, called, results,
                 printed, error_count, spoken>>

-----------------------------------------------------------------------------
(* QueueFunctionManager.__enter__ of the inner pool                        *)

StartThread(t) ==
  /\ pc = "start" /\ at[t] = "unborn"
  /\ at' = [at EXCEPT ![t] = "get"]
  /\ started' = started \cup {t}
  /\ pc' = IF started' = Workers THEN "body" ELSE "start"
  /\ UNCHANGED <<leaving, toSend, put, holds, exc_infos, called, results, printed,
                 error_count, queue, said, spoken>>

Living(q) == {t \in ThreadList(q) : IsAlive(t)}

\* Mutant: one signal is sent, whatever the number of threads.
BeginExit_OneSignal(q) ==
  /\ pc' = "stop" /\ leaving' = q
  /\ toSend' = 1

(* __exit__ counts the threads alive, once.                                *)
BeginExit(q) ==
  /\ pc' = "stop" /\ leaving' = q
  /\ toSend' = Cardinality(Living(q))

(* An exception of __enter__ leaves the context without its __exit__.      *)
ConnectionFails ==
  /\ CanFail /\ pc = "start"
  /\ BeginExit("error")
  /\ UNCHANGED <<started, put, threadVars, queue, said, spoken>>

-----------------------------------------------------------------------------
(* The body of the with statements, and the __exit__ of the three pools.   *)

Submit(i) ==
  /\ pc = "body" /\ i \notin put
  /\ Put("work", Job(i))
  /\ put' = put \cup {i}
  /\ UNCHANGED <<pc, leaving, toSend, started, threadVars, said, spoken>>

MainSpeaks ==
  /\ pc = "body"
  /\ Speak("main", "nothing")
  /\ UNCHANGED <<mainVars, threadVars>>

LeaveBody ==
  /\ pc = "body"
  /\ BeginExit("work")
  /\ UNCHANGED <<started, put, threadVars, queue, said, spoken>>

SendStop(q) ==
  /\ pc = "stop" /\ leaving = q /\ toSend > 0
  /\ Put(q, StopWorkerThreadSignal)
  /\ toSend' = toSend - 1
  /\ UNCHANGED <<pc, leaving, started, put, threadVars, said, spoken>>

\* Mutant: __exit__ does not wait once the signals are sent.
Joined_AtOnce(q) == TRUE

Joined(q) == Living(q) = {}

Join(q) ==
  /\ pc = "stop" /\ leaving = q /\ toSend = 0 /\ Joined(q)
  /\ pc' = "report"
  /\ UNCHANGED <<leaving, toSend, started, put, threadVars, queue, said, spoken>>

Unreported(q) ==
  (UNION {{Report(t, x) : x \in exc_infos[t]} : t \in ThreadList(q)}) \ spoken

ReportException(q) ==
  /\ pc = "report" /\ leaving = q
  /\ \E m \in Unreported(q) : Says("error", m)
  /\ UNCHANGED <<mainVars, threadVars, said>>

NextPool(q) == IF q = "work" THEN "error" ELSE "print"

(* error_printer.__exit__ runs before that of printer.                     *)
LeavePool(q) ==
  /\ pc = "report" /\ leaving = q /\ Unreported(q) = {}
  /\ IF q = "print" THEN pc' = "done" /\ UNCHANGED <<leaving, toSend>>
                    ELSE BeginExit(NextPool(q))
  /\ UNCHANGED <<started, put, threadVars, queue, said, spoken>>

-----------------------------------------------------------------------------

Thread(t) == Get(t) \/ FuncReturns(t) \/ FuncRaises(t)

Exit == \E q \in Queues : SendStop(q) \/ Join(q) \/ ReportException(q) \/ LeavePool(q)

Main == \/ Exit \/ LeaveBody \/ MainSpeaks \/ ConnectionFails
        \/ \E t \in Workers : StartThread(t)
        \/ \E i \in Items : Submit(i)

Next == Main \/ \E t \in Threads : Thread(t) \/ FuncSpeaks(t) \/ FuncKills(t)

Spec == Init /\ [][Next]_vars

(* Threads are scheduled and func returns; the body is left when the user  *)
(* likes.                                                                  *)
Fairness == WF_vars(Exit) /\ \A t \in Threads : WF_vars(Thread(t))

FairSpec == Spec /\ Fairness

-----------------------------------------------------------------------------

Entries == {StopWorkerThreadSignal, Nothing} \cup {Job(i) : i \in Items}
Sayings == [kind : {"print", "error"}, by : Speakers, about : Items \cup {"nothing"}]

TypeOK ==
  /\ pc \in {"start", "body", "stop", "report", "done"} /\ leaving \in Queues
  /\ toSend \in Nat /\ error_count \in Nat
  /\ started \subseteq Workers
  /\ at \in [Threads -> {"unborn", "get", "func", "stopped", "killed"}]
  /\ queue["work"] \in Seq(Entries)
  /\ \A t \in Workers : holds[t] \in Entries
  /\ called \subseteq put /\ results \subseteq called /\ put \subseteq Items

AllKilled == \A t \in Workers : at[t] = "killed"

(* multithreading.py:115-121, "any work item put into the queue will get   *)
(* worked on by one of the threads": before the context is left, unless    *)
(* func killed every thread.                                               *)
InContext == pc \in {"start", "body"} \/ (pc = "stop" /\ leaving = "work")

TheTaskPool == INSTANCE TaskPool WITH
  given <- put, worked <- called, left <- ~InContext /\ ~AllKilled

ImplementsTaskPool == TheTaskPool!Pool

(* A message reached the thread that prints it.                            *)
Shown(m) == m \in printed \cup exc_infos["printer"] \cup exc_infos["error_printer"]

OfPrinter(m) == m.kind = "raised" /\ m.by \notin Workers

(* multithreading.py:236-240, 261-263: the printers outlive whoever talks  *)
(* to them: all that was said, exceptions of workers included, was printed,*)
(* or the stream refused it, and error_count tells how many of it were     *)
(* errors.  What the streams refused is reported to a thread that is gone. *)
NothingSaidIsLost ==
  pc = "done" =>
    /\ \A m \in spoken : OfPrinter(m) \/ Shown(m)
    /\ error_count = Cardinality({m \in spoken : m.kind # "print" /\ ~OfPrinter(m)})

(* multithreading.py:58, 98-101, 205-211: an item is a result, or its      *)
(* exception was reported, or it killed its thread.                        *)
EveryOutcomeKnown ==
  pc = "done" =>
    \A i \in called :
      \/ i \in results
      \/ \E t \in Workers : \/ at[t] = "killed" /\ holds[t] = Job(i)
                           \/ Report(t, Job(i)) \in spoken

(* multithreading.py:58-101, 197-263: when the contexts are left, no item, *)
(* no exception and no word is unaccounted for.                            *)
EverythingIsAccounted == NothingSaidIsLost /\ EveryOutcomeKnown

PrintersFailures == exc_infos["printer"] \cup exc_infos["error_printer"]

(* multithreading.py:197-203: every thread gets a signal of its own, so    *)
(* that leaving the contexts ends, full queues or not.  It does not when   *)
(* func killed all threads, or when a queue nobody empties any more cannot *)
(* take the printers' own exceptions.                                      *)
ExitEnds ==
  pc = "stop" ~> \/ pc = "done"
                 \/ AllKilled
                 \/ Cardinality(PrintersFailures) > QueueSize
=============================================================================
