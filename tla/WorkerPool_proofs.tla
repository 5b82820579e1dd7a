-------------------------- MODULE WorkerPool_proofs -------------------------
(***************************************************************************)
(* Theorems about WorkerPool, for any workers, items and queue size: its   *)
(* types, that it keeps the promise of TaskPool, and that everything said  *)
(* and every exception is accounted for.                                   *)
(***************************************************************************)
EXTENDS WorkerPool, SequenceTheorems, FiniteSetTheorems, TLAPS

-----------------------------------------------------------------------------
(* The inductive invariant.                                                *)

wq == queue["work"]

(* The shape of the state, and what a thread in func is working on.        *)
Shape ==
  /\ TypeOK
  /\ DOMAIN queue = Queues /\ DOMAIN holds = Threads
  /\ \A t \in Workers : at[t] = "func" => \E i \in called : holds[t] = Job(i)

(* The queue of work holds what was put and not taken, each item once.     *)
HoldsTheRest ==
  /\ \A k \in 1 .. Len(wq) :
       wq[k] = StopWorkerThreadSignal \/ \E i \in put \ called : wq[k] = Job(i)
  /\ \A i \in put \ called : \E k \in 1 .. Len(wq) : wq[k] = Job(i)
  /\ \A k, l \in 1 .. Len(wq) :
       wq[k] = wq[l] /\ wq[k] # StopWorkerThreadSignal => k = l

(* No item is behind a signal, and none is left when a thread met its own. *)
SignalsLast ==
  /\ \A k, l \in 1 .. Len(wq) :
       k < l /\ wq[k] = StopWorkerThreadSignal => wq[l] = StopWorkerThreadSignal
  /\ \A t \in Workers : at[t] = "stopped" =>
       \A k \in 1 .. Len(wq) : wq[k] = StopWorkerThreadSignal
  /\ pc \in {"start", "body"} =>
       /\ \A k \in 1 .. Len(wq) : wq[k] # StopWorkerThreadSignal
       /\ \A t \in Workers : at[t] # "stopped"

(* Who runs in which phase: everybody was started before an item was put,  *)
(* and nobody works when the context was left, if there ever was work.     *)
Phases ==
  /\ \A t \in Workers : t \in started <=> at[t] # "unborn"
  /\ pc = "start" => put = {}
  /\ pc = "body" \/ put # {} => started = Workers
  /\ ~InContext => put = {} \/ \A t \in Workers : ~IsAlive(t)

IInv == Shape /\ HoldsTheRest /\ SignalsLast /\ Phases

-----------------------------------------------------------------------------
(* Facts about the data.                                                   *)

(* A signal is no item, and an item is the item of its entry only.         *)
LEMMA EntriesDiffer ==
  /\ \A i \in Items : Job(i) # StopWorkerThreadSignal /\ Job(i).item = i
  /\ \A i \in Items, j \in Items : Job(i) = Job(j) => i = j
  /\ \A i \in Items : Job(i) \in Entries
  /\ StopWorkerThreadSignal \in Entries
<1>1. ASSUME NEW i \in Items PROVE Job(i) # StopWorkerThreadSignal /\ Job(i).item = i
  <2>1. Job(i).kind = "job" /\ StopWorkerThreadSignal.kind = "stop"
    BY DEF Job, StopWorkerThreadSignal
  <2> QED BY <2>1 DEF Job
<1>2. \A i \in Items, j \in Items : Job(i) = Job(j) => i = j
  BY <1>1
<1> QED BY <1>1, <1>2 DEF Entries

(* The workers serve the queue of work, and nobody else does.              *)
LEMMA PoolOfThread ==
  ASSUME NEW t \in Threads
  PROVE  /\ Pool(t) \in Queues
         /\ Pool(t) = "work" <=> t \in Workers
  BY PoolAssumption DEF Pool, Threads, Queues

(* The threads alive can be counted.                                       *)
LEMMA LivingCounted == ASSUME NEW q PROVE Cardinality(Living(q)) \in Nat
<1>1. IsFiniteSet({"printer", "error_printer"})
  <2>1. {"printer", "error_printer"} = {"printer"} \cup {"error_printer"}
    OBVIOUS
  <2>2. IsFiniteSet({"printer"}) /\ IsFiniteSet({"error_printer"})
    BY FS_Singleton
  <2>3. IsFiniteSet({"printer"} \cup {"error_printer"})
    BY <2>2, FS_Union
  <2> QED BY <2>1, <2>3
<1>2. IsFiniteSet(Threads)
  BY <1>1, FS_Union, PoolAssumption DEF Threads
<1>3. Living(q) \subseteq Threads
  BY DEF Living, ThreadList
<1> QED BY <1>2, <1>3, FS_Subset, FS_CardinalityType

(* What Get and Put do to a queue of entries.                              *)
LEMMA TailOfQueue ==
  ASSUME NEW S, NEW s \in Seq(S), s # <<>>
  PROVE  /\ Head(s) = s[1] /\ 1 \in 1 .. Len(s)
         /\ Tail(s) \in Seq(S) /\ Len(Tail(s)) = Len(s) - 1
         /\ \A k \in 1 .. Len(Tail(s)) : k + 1 \in 1 .. Len(s) /\ Tail(s)[k] = s[k + 1]
         /\ \A k \in 1 .. Len(s) : k = 1 \/ (k - 1 \in 1 .. Len(Tail(s)) /\ s[k] = Tail(s)[k - 1])
<1>1. Len(s) \in Nat \ {0}
  BY EmptySeq
<1>2. /\ Tail(s) \in Seq(S) /\ Len(Tail(s)) = Len(s) - 1
      /\ \A k \in 1 .. Len(Tail(s)) : Tail(s)[k] = s[k + 1]
  BY HeadTailProperties
<1>3. Head(s) = s[1]
  BY <1>1
<1> QED BY <1>1, <1>2, <1>3

(* A queue with one more entry.                                            *)
LEMMA EndOfQueue ==
  ASSUME NEW S, NEW s \in Seq(S), NEW e \in S
  PROVE  /\ Append(s, e) \in Seq(S) /\ Len(Append(s, e)) = Len(s) + 1
         /\ Len(s) \in Nat
         /\ \A k \in 1 .. Len(s) : Append(s, e)[k] = s[k]
         /\ Append(s, e)[Len(s) + 1] = e
  BY AppendProperties, LenProperties

-----------------------------------------------------------------------------
(* What a step does to the items and the queue of work.                    *)

NobodyStops == \A t \in Workers : at'[t] = "stopped" => at[t] = "stopped"

Quiet == UNCHANGED <<put, called, wq>> /\ NobodyStops

StopTaken(t) ==
  /\ at[t] = "get" /\ wq # <<>> /\ Head(wq) = StopWorkerThreadSignal
  /\ wq' = Tail(wq) /\ at' = [at EXCEPT ![t] = "stopped"]
  /\ UNCHANGED <<pc, leaving, put, called>>

JobTaken(t) ==
  /\ at[t] = "get" /\ wq # <<>> /\ Head(wq) # StopWorkerThreadSignal
  /\ wq' = Tail(wq) /\ called' = called \cup {Head(wq).item}
  /\ at' = [at EXCEPT ![t] = "func"]
  /\ UNCHANGED <<pc, leaving, put>>

JobAdded(i) ==
  /\ pc = "body" /\ pc' = "body" /\ i \notin put
  /\ wq' = Append(wq, Job(i)) /\ put' = put \cup {i}
  /\ UNCHANGED <<called, at>>

StopAdded ==
  /\ pc = "stop" /\ wq' = Append(wq, StopWorkerThreadSignal)
  /\ UNCHANGED <<pc, leaving, put, called, at>>

WorkStep ==
  /\ pc' \in {"start", "body"} => pc \in {"start", "body"}
  /\ \/ Quiet \/ StopAdded
     \/ \E t \in Workers : StopTaken(t) \/ JobTaken(t)
     \/ \E i \in Items : JobAdded(i)

(* Whoever puts into a queue leaves the others alone.                      *)
LEMMA PutElsewhere ==
  ASSUME DOMAIN queue = Queues, NEW q \in Queues, NEW x, Put(q, x)
  PROVE  /\ q # "work" => wq' = wq
         /\ q = "work" => wq' = Append(wq, x)
         /\ DOMAIN queue' = Queues
  BY DEF Put, wq, Queues

(* What is said goes to the printers.                                      *)
LEMMA SpeakElsewhere ==
  ASSUME DOMAIN queue = Queues, NEW t, NEW x, Speak(t, x)
  PROVE  wq' = wq /\ DOMAIN queue' = Queues
<1>1. PICK stream \in {"print", "error"} : Put(stream, Message(t, x, stream))
  BY DEF Speak, Says
<1> QED BY <1>1, PutElsewhere DEF Queues

(* Taking an entry is one of the steps on the queue of work.               *)
LEMMA GetIsWorkStep ==
  ASSUME Shape, NEW t \in Threads, Get(t) PROVE WorkStep
<1>1. UNCHANGED <<pc, leaving, put>>
  BY DEF Get, mainVars
<1>2. CASE t \in Workers
  <2>1. Pool(t) = "work"
    BY <1>2, PoolOfThread
  <2>2. at[t] = "get" /\ wq # <<>> /\ wq' = Tail(wq)
    BY <2>1 DEF Get, wq, Shape, Queues
  <2>3. CASE Head(wq) = StopWorkerThreadSignal
    BY <1>1, <1>2, <2>1, <2>2, <2>3 DEF Get, wq, TakesStop, WorkStep, StopTaken
  <2>4. CASE Head(wq) # StopWorkerThreadSignal
    BY <1>1, <1>2, <2>1, <2>2, <2>4 DEF Get, wq, TakesJob, WorkStep, JobTaken
  <2> QED BY <2>3, <2>4
<1>3. CASE t \notin Workers
  <2>1. Pool(t) # "work" /\ Pool(t) \in Queues
    BY <1>3, PoolOfThread
  <2>2. wq' = wq
    BY <2>1 DEF Get, wq, Shape
  <2>3. called' = called
    BY <1>3 DEF Get, TakesStop, TakesJob
  <2>4. at' = [at EXCEPT ![t] = "stopped"] \/ at' = [at EXCEPT ![t] = "func"]
    BY DEF Get, TakesStop, TakesJob
  <2>5. NobodyStops
    BY <1>3, <2>4 DEF NobodyStops, Shape, TypeOK, Threads
  <2> QED BY <1>1, <2>2, <2>3, <2>5 DEF WorkStep, Quiet
<1> QED BY <1>2, <1>3

(* Every step is one of these.                                             *)
LEMMA StepIsWorkStep ==
  ASSUME Shape, [Next]_vars PROVE WorkStep
<1> USE DEF WorkStep, mainVars, threadVars
<1>1. CASE UNCHANGED vars
  BY <1>1 DEF vars, Quiet, NobodyStops, wq
<1>2. ASSUME NEW q \in Queues, SendStop(q) PROVE WorkStep
  <2>1. UNCHANGED <<pc, leaving, put, called, at>> /\ pc = "stop"
    BY <1>2 DEF SendStop
  <2>2. wq' = wq \/ wq' = Append(wq, StopWorkerThreadSignal)
    BY <1>2, PutElsewhere DEF SendStop, Shape
  <2> QED BY <2>1, <2>2 DEF StopAdded, Quiet, NobodyStops
<1>3. ASSUME NEW q \in Queues, Join(q) PROVE WorkStep
  BY <1>3 DEF Join, Quiet, NobodyStops, wq
<1>4. ASSUME NEW q \in Queues, ReportException(q) PROVE WorkStep
  <2>1. PICK m : Put("error", m)
    BY <1>4 DEF ReportException, Says
  <2>2. wq' = wq
    BY <2>1, PutElsewhere DEF Shape, Queues
  <2> QED BY <1>4, <2>2 DEF ReportException, Quiet, NobodyStops
<1>5. ASSUME NEW q \in Queues, LeavePool(q) PROVE WorkStep
  BY <1>5 DEF LeavePool, BeginExit, Quiet, NobodyStops, wq
<1>6. CASE LeaveBody
  BY <1>6 DEF LeaveBody, BeginExit, Quiet, NobodyStops, wq
<1>7. CASE MainSpeaks
  <2>1. wq' = wq
    BY <1>7, SpeakElsewhere DEF MainSpeaks, Shape
  <2> QED BY <1>7, <2>1 DEF MainSpeaks, Quiet, NobodyStops
<1>8. CASE ConnectionFails
  BY <1>8 DEF ConnectionFails, BeginExit, Quiet, NobodyStops, wq
<1>9. ASSUME NEW t \in Workers, StartThread(t) PROVE WorkStep
  BY <1>9 DEF StartThread, Quiet, NobodyStops, wq, Shape, TypeOK
<1>10. ASSUME NEW i \in Items, Submit(i) PROVE WorkStep
  <2>1. wq' = Append(wq, Job(i))
    BY <1>10, PutElsewhere DEF Submit, Shape, Queues
  <2> QED BY <1>10, <2>1 DEF Submit, JobAdded
<1>11. ASSUME NEW t \in Threads, Get(t) PROVE WorkStep
  BY <1>11, GetIsWorkStep
<1>12. ASSUME NEW t \in Threads, FuncReturns(t) \/ FuncRaises(t) \/ FuncKills(t)
       PROVE WorkStep
  <2>1. UNCHANGED <<pc, put, called, wq>>
    BY <1>12 DEF FuncReturns, FuncRaises, FuncKills, wq
  <2>2. at' = [at EXCEPT ![t] = "get"] \/ at' = [at EXCEPT ![t] = "killed"]
    BY <1>12 DEF FuncReturns, FuncRaises, FuncKills
  <2>3. NobodyStops
    BY <2>2 DEF NobodyStops, Shape, TypeOK, Threads
  <2> QED BY <2>1, <2>3 DEF Quiet
<1>13. ASSUME NEW t \in Threads, FuncSpeaks(t) PROVE WorkStep
  <2>1. wq' = wq
    BY <1>13, SpeakElsewhere DEF FuncSpeaks, Shape
  <2> QED BY <1>13, <2>1 DEF FuncSpeaks, Quiet, NobodyStops
<1> QED
  BY <1>1, <1>2, <1>3, <1>4, <1>5, <1>6, <1>7, <1>8, <1>9, <1>10, <1>11, <1>12, <1>13
  DEF Next, Main, Exit, Thread

-----------------------------------------------------------------------------
(* The parts of the invariant, over the steps on the queue of work.        *)

(* The types of what a step on the queue changes.                          *)
LEMMA QueueTypeStep ==
  ASSUME Shape, HoldsTheRest, WorkStep
  PROVE  wq' \in Seq(Entries) /\ put' \subseteq Items /\ called' \subseteq put'
<1> USE DEF Shape, TypeOK, wq
<1>1. CASE Quiet
  BY <1>1 DEF Quiet
<1>2. CASE StopAdded
  BY <1>2, EntriesDiffer, EndOfQueue DEF StopAdded
<1>3. ASSUME NEW t \in Workers, StopTaken(t) PROVE wq' \in Seq(Entries) /\ UNCHANGED <<put, called>>
  BY <1>3, TailOfQueue DEF StopTaken
<1>4. ASSUME NEW t \in Workers, JobTaken(t)
      PROVE  /\ wq' \in Seq(Entries) /\ UNCHANGED put
             /\ \E i \in put \ called : called' = called \cup {i} /\ wq[1] = Job(i)
  <2>1. wq' \in Seq(Entries) /\ Head(wq) = wq[1] /\ 1 \in 1 .. Len(wq)
    BY <1>4, TailOfQueue DEF JobTaken
  <2>2. PICK i \in put \ called : wq[1] = Job(i)
    BY <1>4, <2>1 DEF JobTaken, HoldsTheRest
  <2>3. wq[1].item = i
    BY <2>2, EntriesDiffer
  <2> QED BY <1>4, <2>1, <2>2, <2>3 DEF JobTaken
<1>5. ASSUME NEW i \in Items, JobAdded(i)
      PROVE  wq' \in Seq(Entries) /\ put' = put \cup {i} /\ UNCHANGED called
  BY <1>5, EntriesDiffer, EndOfQueue DEF JobAdded
<1> QED BY <1>1, <1>2, <1>3, <1>4, <1>5 DEF WorkStep

(* The queue of work goes on holding what was put and not taken.           *)
LEMMA HoldsStep ==
  ASSUME Shape, HoldsTheRest, WorkStep PROVE HoldsTheRest'
<1> DEFINE Stop == StopWorkerThreadSignal
           Known(s, p, c) == \A k \in 1 .. Len(s) : s[k] = Stop \/ \E i \in p \ c : s[k] = Job(i)
           There(s, p, c) == \A i \in p \ c : \E k \in 1 .. Len(s) : s[k] = Job(i)
           Once(s) == \A k, l \in 1 .. Len(s) : s[k] = s[l] /\ s[k] # Stop => k = l
<1>0. Known(wq, put, called) /\ There(wq, put, called) /\ Once(wq)
  BY DEF HoldsTheRest
<1>1. wq \in Seq(Entries) /\ put \subseteq Items /\ called \subseteq put
  BY DEF Shape, TypeOK, wq
<1>2. SUFFICES Known(wq', put', called') /\ There(wq', put', called') /\ Once(wq')
  BY DEF HoldsTheRest
<1>3. CASE Quiet
  BY <1>0, <1>3 DEF Quiet
<1>4. CASE StopAdded
  <2>1. wq' = Append(wq, Stop) /\ put' = put /\ called' = called
    BY <1>4 DEF StopAdded
  <2>2. /\ Len(wq') = Len(wq) + 1 /\ Len(wq) \in Nat
        /\ \A k \in 1 .. Len(wq) : wq'[k] = wq[k]
        /\ wq'[Len(wq) + 1] = Stop
    BY <2>1, <1>1, EntriesDiffer, EndOfQueue
  <2>3. \A k \in 1 .. Len(wq') : k \in 1 .. Len(wq) \/ k = Len(wq) + 1
    BY <2>2
  <2>4. Known(wq', put', called')
    BY <1>0, <2>1, <2>2, <2>3
  <2>5. There(wq', put', called')
    BY <1>0, <2>1, <2>2
  <2>6. Once(wq')
    BY <1>0, <2>2, <2>3
  <2> QED BY <2>4, <2>5, <2>6
<1>5. ASSUME NEW t \in Workers, StopTaken(t)
      PROVE  Known(wq', put', called') /\ There(wq', put', called') /\ Once(wq')
  <2>1. wq # <<>> /\ Head(wq) = Stop /\ wq' = Tail(wq) /\ put' = put /\ called' = called
    BY <1>5 DEF StopTaken
  <2>2. /\ wq[1] = Stop
        /\ \A k \in 1 .. Len(wq') : k + 1 \in 1 .. Len(wq) /\ wq'[k] = wq[k + 1]
        /\ \A k \in 1 .. Len(wq) : k = 1 \/ (k - 1 \in 1 .. Len(wq') /\ wq[k] = wq'[k - 1])
    BY <2>1, <1>1, TailOfQueue
  <2>3. Known(wq', put', called')
    BY <1>0, <2>1, <2>2
  <2>4. There(wq', put', called')
    BY <1>0, <1>1, <2>1, <2>2, EntriesDiffer
  <2>5. Once(wq')
    BY <1>0, <2>2
  <2> QED BY <2>3, <2>4, <2>5
<1>6. ASSUME NEW t \in Workers, JobTaken(t)
      PROVE  Known(wq', put', called') /\ There(wq', put', called') /\ Once(wq')
  <2>1. wq # <<>> /\ Head(wq) # Stop /\ wq' = Tail(wq) /\ put' = put
    BY <1>6 DEF JobTaken
  <2>2. /\ Head(wq) = wq[1] /\ 1 \in 1 .. Len(wq)
        /\ \A k \in 1 .. Len(wq') : k + 1 \in 1 .. Len(wq) /\ wq'[k] = wq[k + 1]
        /\ \A k \in 1 .. Len(wq) : k = 1 \/ (k - 1 \in 1 .. Len(wq') /\ wq[k] = wq'[k - 1])
    BY <2>1, <1>1, TailOfQueue
  <2>3. PICK j \in put \ called : wq[1] = Job(j)
    BY <1>0, <2>1, <2>2
  <2>4. called' = called \cup {j}
    BY <1>1, <1>6, <2>2, <2>3, EntriesDiffer DEF JobTaken
  <2>5. \A k \in 1 .. Len(wq) : wq[k] = Job(j) => k = 1
    BY <1>0, <1>1, <2>2, <2>3, EntriesDiffer
  <2>6. Known(wq', put', called')
    <3> SUFFICES ASSUME NEW k \in 1 .. Len(wq')
                 PROVE  wq'[k] = Stop \/ \E i \in put' \ called' : wq'[k] = Job(i)
      OBVIOUS
    <3>1. k + 1 \in 1 .. Len(wq) /\ wq'[k] = wq[k + 1] /\ k + 1 # 1
      BY <2>2
    <3> QED BY <1>0, <2>1, <2>4, <2>5, <3>1
  <2>7. There(wq', put', called')
    <3> SUFFICES ASSUME NEW i \in put' \ called'
                 PROVE  \E k \in 1 .. Len(wq') : wq'[k] = Job(i)
      OBVIOUS
    <3>1. i \in put \ called /\ i # j
      BY <2>1, <2>4
    <3>2. PICK k \in 1 .. Len(wq) : wq[k] = Job(i)
      BY <1>0, <3>1
    <3>3. k # 1
      BY <1>1, <2>3, <3>1, <3>2, EntriesDiffer
    <3> QED BY <2>2, <3>2, <3>3
  <2>8. Once(wq')
    BY <1>0, <2>2
  <2> QED BY <2>6, <2>7, <2>8
<1>7. ASSUME NEW j \in Items, JobAdded(j)
      PROVE  Known(wq', put', called') /\ There(wq', put', called') /\ Once(wq')
  <2>1. j \notin put /\ wq' = Append(wq, Job(j)) /\ put' = put \cup {j} /\ called' = called
    BY <1>7 DEF JobAdded
  <2>2. /\ Len(wq') = Len(wq) + 1 /\ Len(wq) \in Nat
        /\ \A k \in 1 .. Len(wq) : wq'[k] = wq[k]
        /\ wq'[Len(wq) + 1] = Job(j)
    BY <2>1, <1>1, EntriesDiffer, EndOfQueue
  <2>3. \A k \in 1 .. Len(wq') : k \in 1 .. Len(wq) \/ k = Len(wq) + 1
    BY <2>2
  <2>4. \A k \in 1 .. Len(wq) : wq[k] # Job(j)
    BY <1>0, <1>1, <2>1, EntriesDiffer
  <2>5. Known(wq', put', called')
    <3>1. j \in put' \ called'
      BY <1>1, <2>1
    <3> QED BY <1>0, <2>1, <2>2, <2>3, <3>1
  <2>6. There(wq', put', called')
    <3>1. Len(wq) + 1 \in 1 .. Len(wq')
      BY <2>2
    <3>2. \A k \in 1 .. Len(wq) : k \in 1 .. Len(wq')
      BY <2>2
    <3> QED BY <1>0, <2>1, <2>2, <3>1, <3>2
  <2>7. Once(wq')
    BY <1>0, <2>2, <2>3, <2>4
  <2> QED BY <2>5, <2>6, <2>7
<1> QED BY <1>3, <1>4, <1>5, <1>6, <1>7 DEF WorkStep

(* No item gets behind a stop signal.                                      *)
LEMMA SignalsStep ==
  ASSUME Shape, SignalsLast, WorkStep PROVE SignalsLast'
<1> DEFINE Stop == StopWorkerThreadSignal
           Last(s) == \A k, l \in 1 .. Len(s) : k < l /\ s[k] = Stop => s[l] = Stop
           AllStops(s) == \A k \in 1 .. Len(s) : s[k] = Stop
           NoStop(s) == \A k \in 1 .. Len(s) : s[k] # Stop
<1>0. /\ Last(wq)
      /\ \A t \in Workers : at[t] = "stopped" => AllStops(wq)
      /\ pc \in {"start", "body"} => NoStop(wq) /\ \A t \in Workers : at[t] # "stopped"
  BY DEF SignalsLast
<1>1. wq \in Seq(Entries) /\ at \in [Threads -> {"unborn", "get", "func", "stopped", "killed"}]
  BY DEF Shape, TypeOK, wq
<1>2. pc' \in {"start", "body"} => pc \in {"start", "body"}
  BY DEF WorkStep
<1> DEFINE Goal == /\ Last(wq')
                   /\ \A t \in Workers : at'[t] = "stopped" => AllStops(wq')
                   /\ pc' \in {"start", "body"} => NoStop(wq') /\ \A t \in Workers : at'[t] # "stopped"
<1>3. SUFFICES Goal
  BY DEF SignalsLast
<1>4. CASE Quiet
  BY <1>0, <1>2, <1>4 DEF Quiet, NobodyStops
<1>5. CASE StopAdded
  <2>1. wq' = Append(wq, Stop) /\ at' = at /\ pc' \notin {"start", "body"}
    BY <1>2, <1>5 DEF StopAdded
  <2>2. /\ Len(wq') = Len(wq) + 1 /\ Len(wq) \in Nat
        /\ \A k \in 1 .. Len(wq) : wq'[k] = wq[k]
        /\ wq'[Len(wq) + 1] = Stop
    BY <2>1, <1>1, EntriesDiffer, EndOfQueue
  <2>3. \A k \in 1 .. Len(wq') : k \in 1 .. Len(wq) \/ k = Len(wq) + 1
    BY <2>2
  <2>4. Last(wq')
    <3> SUFFICES ASSUME NEW k \in 1 .. Len(wq'), NEW l \in 1 .. Len(wq'), k < l, wq'[k] = Stop
                 PROVE wq'[l] = Stop
      OBVIOUS
    <3>1. CASE l = Len(wq) + 1
      BY <3>1, <2>2
    <3>2. CASE l \in 1 .. Len(wq)
      <4>1. k \in 1 .. Len(wq)
        BY <2>2, <3>2
      <4>2. wq'[k] = wq[k] /\ wq'[l] = wq[l]
        BY <2>2, <3>2, <4>1
      <4>3. Last(wq)
        BY <1>0
      <4> QED BY <3>2, <4>1, <4>2, <4>3
    <3> QED BY <2>3, <3>1, <3>2
  <2>5. AllStops(wq) => AllStops(wq')
    BY <2>2, <2>3
  <2> QED BY <1>0, <2>1, <2>4, <2>5
<1>6. ASSUME NEW t \in Workers, StopTaken(t) PROVE Goal
  <2>1. wq # <<>> /\ Head(wq) = Stop /\ wq' = Tail(wq)
    BY <1>6 DEF StopTaken
  <2>2. /\ wq[1] = Stop /\ 1 \in 1 .. Len(wq)
        /\ \A k \in 1 .. Len(wq') : k + 1 \in 1 .. Len(wq) /\ wq'[k] = wq[k + 1]
    BY <2>1, <1>1, TailOfQueue
  <2>3. AllStops(wq')
    <3> SUFFICES ASSUME NEW k \in 1 .. Len(wq') PROVE wq'[k] = Stop
      OBVIOUS
    <3>1. k + 1 \in 1 .. Len(wq) /\ wq'[k] = wq[k + 1] /\ 1 < k + 1
      BY <2>2
    <3> QED BY <1>0, <2>2, <3>1
  <2>4. Last(wq')
    BY <2>3
  <2>5. pc' \notin {"start", "body"}
    BY <1>0, <1>2, <2>2
  <2> QED BY <2>3, <2>4, <2>5
<1>7. ASSUME NEW t \in Workers, JobTaken(t) PROVE Goal
  <2>1. wq # <<>> /\ Head(wq) # Stop /\ wq' = Tail(wq) /\ at' = [at EXCEPT ![t] = "func"]
    BY <1>7 DEF JobTaken
  <2>2. /\ Head(wq) = wq[1] /\ 1 \in 1 .. Len(wq)
        /\ \A k \in 1 .. Len(wq') : k + 1 \in 1 .. Len(wq) /\ wq'[k] = wq[k + 1]
    BY <2>1, <1>1, TailOfQueue
  <2>3. Last(wq')
    <3> SUFFICES ASSUME NEW k \in 1 .. Len(wq'), NEW l \in 1 .. Len(wq'), k < l, wq'[k] = Stop
                 PROVE wq'[l] = Stop
      OBVIOUS
    <3>1. /\ k + 1 \in 1 .. Len(wq) /\ wq'[k] = wq[k + 1]
          /\ l + 1 \in 1 .. Len(wq) /\ wq'[l] = wq[l + 1]
      BY <2>2
    <3>2. k + 1 < l + 1
      OBVIOUS
    <3>3. Last(wq)
      BY <1>0
    <3> QED BY <3>1, <3>2, <3>3
  <2>4. NoStop(wq) => NoStop(wq')
    BY <2>2
  <2>5. \A u \in Workers : at[u] # "stopped"
    BY <1>0, <2>1, <2>2
  <2>6. \A u \in Workers : at'[u] # "stopped"
    BY <1>1, <2>1, <2>5 DEF Threads
  <2> QED BY <1>0, <1>2, <2>3, <2>4, <2>6
<1>8. ASSUME NEW j \in Items, JobAdded(j) PROVE Goal
  <2>1. pc = "body" /\ wq' = Append(wq, Job(j)) /\ at' = at
    BY <1>8 DEF JobAdded
  <2>2. /\ Len(wq') = Len(wq) + 1 /\ Len(wq) \in Nat
        /\ \A k \in 1 .. Len(wq) : wq'[k] = wq[k]
        /\ wq'[Len(wq) + 1] = Job(j)
    BY <2>1, <1>1, EntriesDiffer, EndOfQueue
  <2>3. \A k \in 1 .. Len(wq') : k \in 1 .. Len(wq) \/ k = Len(wq) + 1
    BY <2>2
  <2>4. NoStop(wq')
    BY <1>0, <2>1, <2>2, <2>3, EntriesDiffer
  <2> QED BY <1>0, <2>1, <2>4
<1> QED BY <1>4, <1>5, <1>6, <1>7, <1>8 DEF WorkStep

(* Who is alive follows the phases of the main thread.                     *)
LEMMA PhasesStep ==
  ASSUME Shape, Phases, [Next]_vars PROVE Phases'
<1> DEFINE Born == \A t \in Workers : t \in started <=> at[t] # "unborn"
           Idle == put = {} \/ \A t \in Workers : ~IsAlive(t)
           NoneBorn == UNCHANGED started /\ \A t \in Workers : at'[t] = "unborn" <=> at[t] = "unborn"
           NoneRevived == UNCHANGED put /\ \A t \in Workers : IsAlive(t)' => IsAlive(t)
<1> USE DEF mainVars, threadVars
<1>0. at \in [Threads -> {"unborn", "get", "func", "stopped", "killed"}] /\ Workers \subseteq Threads
  BY DEF Shape, TypeOK, Threads
<1>1. CASE UNCHANGED <<pc, leaving, started, put>> /\ NoneBorn /\ NoneRevived
  BY <1>1 DEF Phases, InContext
<1>2. CASE UNCHANGED vars
  BY <1>2, <1>1 DEF vars, IsAlive
<1>3. ASSUME NEW q \in Queues, SendStop(q) \/ ReportException(q) PROVE Phases'
  BY <1>3, <1>1 DEF SendStop, ReportException, IsAlive
<1>4. ASSUME NEW q \in Queues, Join(q) PROVE Phases'
  <2>1. /\ UNCHANGED <<leaving, started, put, at>> /\ leaving = q
        /\ pc = "stop" /\ pc' = "report" /\ Living(q) = {}
    BY <1>4 DEF Join, Joined
  <2>2. q = "work" => \A t \in Workers : ~IsAlive(t)
    <3> SUFFICES ASSUME q = "work", NEW t \in Workers PROVE ~IsAlive(t)
      OBVIOUS
    <3>1. t \in ThreadList(q)
      BY <1>0, PoolOfThread DEF ThreadList
    <3> QED BY <2>1, <3>1 DEF Living
  <2>3. q # "work" => Idle
    BY <2>1 DEF Phases, InContext
  <2> QED BY <2>1, <2>2, <2>3 DEF Phases, InContext, IsAlive
<1>5. ASSUME NEW q \in Queues, LeavePool(q) PROVE Phases'
  <2>1. UNCHANGED <<started, put, at>> /\ pc = "report"
    BY <1>5 DEF LeavePool
  <2>2. pc' = "done" \/ (pc' = "stop" /\ leaving' # "work")
    BY <1>5 DEF LeavePool, BeginExit, NextPool
  <2> QED BY <2>1, <2>2 DEF Phases, InContext, IsAlive
<1>6. CASE LeaveBody
  BY <1>6 DEF LeaveBody, BeginExit, Phases, InContext, IsAlive
<1>7. CASE MainSpeaks
  BY <1>7, <1>1 DEF MainSpeaks, IsAlive
<1>8. CASE ConnectionFails
  BY <1>8 DEF ConnectionFails, BeginExit, Phases, InContext, IsAlive
<1>9. ASSUME NEW t \in Workers, StartThread(t) PROVE Phases'
  <2>1. /\ pc = "start" /\ at' = [at EXCEPT ![t] = "get"]
        /\ started' = started \cup {t} /\ UNCHANGED <<put, leaving>>
        /\ pc' = IF started' = Workers THEN "body" ELSE "start"
    BY <1>9 DEF StartThread
  <2>2. Born'
    BY <1>0, <2>1 DEF Phases
  <2> QED BY <2>1, <2>2 DEF Phases, InContext
<1>10. ASSUME NEW i \in Items, Submit(i) PROVE Phases'
  BY <1>10 DEF Submit, Phases, InContext, IsAlive
<1>11. ASSUME NEW t \in Threads, at[t] \in {"get", "func"}, UNCHANGED mainVars,
              \E s \in {"get", "func", "stopped", "killed"} : at' = [at EXCEPT ![t] = s]
       PROVE Phases'
  <2>1. NoneBorn /\ NoneRevived
    BY <1>0, <1>11 DEF IsAlive
  <2> QED BY <1>1, <1>11, <2>1
<1>12. ASSUME NEW t \in Threads, Get(t) PROVE Phases'
  <2>1. at[t] = "get" /\ UNCHANGED mainVars
    BY <1>12 DEF Get
  <2>2. at' = [at EXCEPT ![t] = "stopped"] \/ at' = [at EXCEPT ![t] = "func"]
    BY <1>12 DEF Get, TakesStop, TakesJob
  <2> QED BY <1>11, <2>1, <2>2
<1>13. ASSUME NEW t \in Threads, FuncReturns(t) \/ FuncRaises(t) \/ FuncKills(t)
       PROVE Phases'
  BY <1>11, <1>13 DEF FuncReturns, FuncRaises, FuncKills
<1>14. ASSUME NEW t \in Threads, FuncSpeaks(t) PROVE Phases'
  BY <1>14, <1>1 DEF FuncSpeaks, IsAlive
<1> QED
  BY <1>2, <1>3, <1>4, <1>5, <1>6, <1>7, <1>8, <1>9, <1>10, <1>12, <1>13, <1>14
  DEF Next, Main, Exit, Thread

-----------------------------------------------------------------------------
(* Types.                                                                  *)

States == {"unborn", "get", "func", "stopped", "killed"}

(* What is said of the threads, apart from the queue.                      *)
ThreadsOK ==
  /\ at \in [Threads -> States]
  /\ DOMAIN holds = Threads /\ \A t \in Workers : holds[t] \in Entries
  /\ \A t \in Workers : at[t] = "func" => \E i \in called : holds[t] = Job(i)
  /\ results \subseteq called /\ error_count \in Nat

MainOK ==
  /\ pc \in {"start", "body", "stop", "report", "done"} /\ leaving \in Queues
  /\ toSend \in Nat /\ started \subseteq Workers

(* Shape is made of what is known of the threads, of main and of the       *)
(* queues.                                                                 *)
LEMMA ShapeParts ==
  Shape <=> /\ ThreadsOK /\ MainOK /\ DOMAIN queue = Queues
            /\ wq \in Seq(Entries) /\ put \subseteq Items /\ called \subseteq put
<1>1. Shape => /\ ThreadsOK /\ MainOK /\ DOMAIN queue = Queues
               /\ wq \in Seq(Entries) /\ put \subseteq Items /\ called \subseteq put
  <2> SUFFICES ASSUME Shape
               PROVE  /\ ThreadsOK /\ MainOK /\ DOMAIN queue = Queues
                      /\ wq \in Seq(Entries) /\ put \subseteq Items /\ called \subseteq put
    OBVIOUS
  <2>1. ThreadsOK
    BY DEF Shape, ThreadsOK, TypeOK, States
  <2>2. MainOK
    BY DEF Shape, MainOK, TypeOK
  <2>3. /\ DOMAIN queue = Queues /\ wq \in Seq(Entries)
        /\ put \subseteq Items /\ called \subseteq put
    BY DEF Shape, TypeOK, wq
  <2> QED BY <2>1, <2>2, <2>3
<1>2. (/\ ThreadsOK /\ MainOK /\ DOMAIN queue = Queues
       /\ wq \in Seq(Entries) /\ put \subseteq Items /\ called \subseteq put) => Shape
  <2> SUFFICES ASSUME /\ ThreadsOK /\ MainOK /\ DOMAIN queue = Queues
                      /\ wq \in Seq(Entries) /\ put \subseteq Items /\ called \subseteq put
               PROVE  Shape
    OBVIOUS
  <2>1. TypeOK
    BY DEF ThreadsOK, MainOK, TypeOK, States, wq
  <2> QED BY <2>1 DEF Shape, ThreadsOK
<1> QED BY <1>1, <1>2

(* The queues are always the same.                                         *)
LEMMA QueueDomainStep ==
  ASSUME DOMAIN queue = Queues, [Next]_vars PROVE DOMAIN queue' = Queues
<1> USE DEF mainVars, threadVars
<1>1. ASSUME NEW t, NEW x, Speak(t, x) PROVE DOMAIN queue' = Queues
  BY <1>1, SpeakElsewhere
<1>2. ASSUME NEW q \in Queues, NEW x, Put(q, x) PROVE DOMAIN queue' = Queues
  BY <1>2, PutElsewhere
<1>3. ASSUME NEW q \in Queues, SendStop(q) \/ Join(q) \/ ReportException(q) \/ LeavePool(q)
      PROVE DOMAIN queue' = Queues
  <2>1. "error" \in Queues
    BY DEF Queues
  <2> QED BY <1>2, <1>3, <2>1 DEF SendStop, Join, ReportException, LeavePool, Says
<1>4. ASSUME NEW i \in Items, Submit(i) PROVE DOMAIN queue' = Queues
  <2>1. "work" \in Queues
    BY DEF Queues
  <2> QED BY <1>2, <1>4, <2>1 DEF Submit
<1>5. ASSUME NEW t \in Threads, Get(t) PROVE DOMAIN queue' = Queues
  BY <1>5 DEF Get
<1>6. ASSUME LeaveBody \/ ConnectionFails \/ MainSpeaks \/ UNCHANGED vars
      PROVE DOMAIN queue' = Queues
  BY <1>1, <1>6 DEF LeaveBody, ConnectionFails, MainSpeaks, vars
<1>7. ASSUME NEW t \in Threads, FuncReturns(t) \/ FuncRaises(t) \/ FuncKills(t) \/ FuncSpeaks(t)
      PROVE DOMAIN queue' = Queues
  BY <1>1, <1>7 DEF FuncReturns, FuncRaises, FuncKills, FuncSpeaks
<1>8. ASSUME NEW t \in Workers, StartThread(t) PROVE DOMAIN queue' = Queues
  BY <1>8 DEF StartThread
<1> QED BY <1>3, <1>4, <1>5, <1>6, <1>7, <1>8 DEF Next, Main, Exit, Thread

(* Every step keeps what is known of main.                                 *)
LEMMA MainStep ==
  ASSUME MainOK, [Next]_vars PROVE MainOK'
<1> USE DEF MainOK, Queues
<1>1. CASE UNCHANGED mainVars
  BY <1>1 DEF mainVars
<1>2. CASE UNCHANGED vars
  BY <1>2 DEF vars, mainVars
<1>3. ASSUME NEW q \in Queues, SendStop(q) PROVE MainOK'
  BY <1>3 DEF SendStop
<1>4. ASSUME NEW q \in Queues, Join(q) PROVE MainOK'
  BY <1>4 DEF Join
<1>5. ASSUME NEW q \in Queues, ReportException(q) PROVE MainOK'
  BY <1>1, <1>5 DEF ReportException
<1>6. ASSUME NEW q \in Queues, LeavePool(q) PROVE MainOK'
  BY <1>6, LivingCounted DEF LeavePool, BeginExit, NextPool
<1>7. CASE LeaveBody \/ ConnectionFails
  BY <1>7, LivingCounted DEF LeaveBody, ConnectionFails, BeginExit
<1>8. CASE MainSpeaks
  BY <1>1, <1>8 DEF MainSpeaks
<1>9. ASSUME NEW t \in Workers, StartThread(t) PROVE MainOK'
  BY <1>9 DEF StartThread
<1>10. ASSUME NEW i \in Items, Submit(i) PROVE MainOK'
  BY <1>10 DEF Submit
<1>11. ASSUME NEW t \in Threads, Thread(t) \/ FuncSpeaks(t) \/ FuncKills(t) PROVE MainOK'
  BY <1>1, <1>11 DEF Thread, Get, FuncReturns, FuncRaises, FuncSpeaks, FuncKills
<1> QED
  BY <1>2, <1>3, <1>4, <1>5, <1>6, <1>7, <1>8, <1>9, <1>10, <1>11 DEF Next, Main, Exit

(* A worker takes from the queue of work: what it holds is an entry.       *)
LEMMA ThreadsStep ==
  ASSUME Shape, HoldsTheRest, [Next]_vars PROVE ThreadsOK'
<1>0. ThreadsOK /\ wq \in Seq(Entries) /\ put \subseteq Items /\ called \subseteq put
  BY ShapeParts
<1> USE DEF ThreadsOK, States
<1>1. CASE UNCHANGED threadVars
  BY <1>0, <1>1 DEF threadVars
<1>2. CASE UNCHANGED vars
  BY <1>1, <1>2 DEF vars
<1>3. CASE Exit \/ LeaveBody \/ MainSpeaks \/ ConnectionFails
  BY <1>1, <1>3
  DEF Exit, SendStop, Join, ReportException, LeavePool, LeaveBody, MainSpeaks, ConnectionFails
<1>4. ASSUME NEW i \in Items, Submit(i) PROVE ThreadsOK'
  BY <1>1, <1>4 DEF Submit
<1>5. ASSUME NEW t \in Threads, FuncSpeaks(t) PROVE ThreadsOK'
  BY <1>1, <1>5 DEF FuncSpeaks
<1>6. ASSUME NEW t \in Workers, StartThread(t) PROVE ThreadsOK'
  <2>1. at' = [at EXCEPT ![t] = "get"] /\ UNCHANGED <<holds, called, results, error_count>>
    BY <1>6 DEF StartThread
  <2> QED BY <1>0, <2>1 DEF Threads
<1>7. ASSUME NEW t \in Threads, Get(t) PROVE ThreadsOK'
  <2>1. UNCHANGED <<results, error_count>> /\ Pool(t) \in Queues /\ queue[Pool(t)] # <<>>
    BY <1>7, PoolOfThread DEF Get
  <2>2. CASE TakesStop(t)
    BY <1>0, <2>1, <2>2 DEF TakesStop, Threads
  <2>3. CASE ~TakesStop(t)
    <3>1. TakesJob(t, Head(queue[Pool(t)])) /\ Head(queue[Pool(t)]) # StopWorkerThreadSignal
      BY <1>7, <2>3 DEF Get
    <3> DEFINE x == Head(queue[Pool(t)])
    <3>2. /\ at' = [at EXCEPT ![t] = "func"] /\ holds' = [holds EXCEPT ![t] = x]
          /\ called' = IF t \in Workers THEN called \cup {x.item} ELSE called
      BY <3>1 DEF TakesJob
    <3>3. CASE t \notin Workers
      BY <1>0, <2>1, <3>2, <3>3 DEF Threads
    <3>4. CASE t \in Workers
      <4>1. x = wq[1] /\ 1 \in 1 .. Len(wq)
        BY <1>0, <2>1, <3>4, PoolOfThread, TailOfQueue DEF wq
      <4>2. PICK i \in put \ called : x = Job(i)
        BY <3>1, <4>1 DEF HoldsTheRest
      <4>3. x \in Entries /\ x.item = i
        BY <1>0, <4>2, EntriesDiffer
      <4>4. called' = called \cup {i}
        BY <3>2, <3>4, <4>3
      <4>5. ASSUME NEW u \in Workers
            PROVE  holds'[u] \in Entries /\ (at'[u] = "func" => \E j \in called' : holds'[u] = Job(j))
        BY <1>0, <3>2, <4>2, <4>3, <4>4 DEF Threads
      <4> HIDE DEF x
      <4> QED BY <1>0, <2>1, <3>2, <4>4, <4>5
    <3> QED BY <3>3, <3>4
  <2> QED BY <2>2, <2>3
<1>8. ASSUME NEW t \in Threads, FuncReturns(t) \/ FuncRaises(t) \/ FuncKills(t)
      PROVE ThreadsOK'
  <2>1. at' = [at EXCEPT ![t] = "get"] \/ at' = [at EXCEPT ![t] = "killed"]
    BY <1>8 DEF FuncReturns, FuncRaises, FuncKills
  <2>2. UNCHANGED <<holds, called>> /\ (error_count' = error_count \/ error_count' = error_count + 1)
    BY <1>8 DEF FuncReturns, FuncRaises, FuncKills, Counts
  <2>4. at' \in [Threads -> States] /\ \A u \in Workers : at'[u] = "func" => at[u] = "func"
    BY <1>0, <2>1 DEF Threads
  <2>5. error_count' \in Nat
    BY <1>0, <2>2
  <2>3. results' \subseteq called
    <3>1. CASE UNCHANGED results
      BY <1>0, <3>1
    <3>2. CASE t \in Workers /\ at[t] = "func" /\ results' = results \cup {holds[t].item}
      BY <1>0, <3>2, EntriesDiffer
    <3> QED BY <1>8, <3>1, <3>2 DEF FuncReturns, FuncRaises, FuncKills
  <2> QED BY <1>0, <2>2, <2>3, <2>4, <2>5
<1> QED BY <1>2, <1>3, <1>4, <1>5, <1>6, <1>7, <1>8 DEF Next, Main, Thread

-----------------------------------------------------------------------------
(* The invariant, and what follows from it.                                *)

(* At first nothing is queued and every worker waits.                      *)
LEMMA InitOK == Init => IInv
<1> SUFFICES ASSUME Init PROVE IInv
  OBVIOUS
<1>1. wq = <<>> /\ wq \in Seq(Entries) /\ Len(wq) = 0
  BY EmptySeq DEF Init, wq, Queues
<1>2. ThreadsOK
  BY DEF Init, ThreadsOK, States, Entries, Threads
<1>3. MainOK
  BY DEF Init, MainOK, Queues
<1>4. Shape
  BY <1>1, <1>2, <1>3, ShapeParts DEF Init
<1>5. HoldsTheRest
  BY <1>1 DEF Init, HoldsTheRest
<1>6. SignalsLast
  BY <1>1 DEF Init, SignalsLast, Threads
<1>7. Phases
  BY DEF Init, Phases, InContext, Threads
<1> QED BY <1>4, <1>5, <1>6, <1>7 DEF IInv

(* Every step keeps the invariant.                                         *)
LEMMA StepOK == IInv /\ [Next]_vars => IInv'
<1> SUFFICES ASSUME IInv, [Next]_vars PROVE IInv'
  OBVIOUS
<1> USE DEF IInv
<1>1. WorkStep
  BY StepIsWorkStep
<1>2. HoldsTheRest' /\ SignalsLast'
  BY <1>1, HoldsStep, SignalsStep
<1>3. Phases'
  BY PhasesStep
<1>4. Shape'
  <2>1. ThreadsOK' /\ MainOK' /\ DOMAIN queue' = Queues
    BY ThreadsStep, MainStep, QueueDomainStep, ShapeParts
  <2>2. wq' \in Seq(Entries) /\ put' \subseteq Items /\ called' \subseteq put'
    BY <1>1, QueueTypeStep
  <2>3. (Shape <=> /\ ThreadsOK /\ MainOK /\ DOMAIN queue = Queues
                   /\ wq \in Seq(Entries) /\ put \subseteq Items /\ called \subseteq put)'
    BY ShapeParts, PTL
  <2> QED BY <2>1, <2>2, <2>3
<1> QED BY <1>2, <1>3, <1>4

(* The invariant holds in every state of every behaviour.                  *)
THEOREM Invariance == Spec => []IInv
  BY InitOK, StepOK, PTL DEF Spec

(* The types are right, for any workers, items and queue size.             *)
THEOREM TypeCorrect == Spec => []TypeOK
<1>1. IInv => TypeOK
  BY DEF IInv, Shape
<1> QED BY <1>1, Invariance, PTL

(* Where TaskPool's left is true.                                          *)
Left == ~InContext /\ ~AllKilled

(* A context that was left has worked on everything it was given: whoever  *)
(* is not killed met its signal, which was the last it could take.         *)
LEMMA LeftIsDone == IInv /\ Left => called = put
<1> SUFFICES ASSUME IInv, Left, put # {} PROVE put \subseteq called
  BY DEF IInv, Shape, TypeOK
<1>1. PICK t \in Workers : at[t] # "killed"
  BY DEF Left, AllKilled
<1>2. at[t] \in States /\ t \in started /\ at[t] # "unborn" /\ ~IsAlive(t)
  BY <1>1, ShapeParts DEF IInv, Phases, Left, ThreadsOK, Threads
<1>3. at[t] = "stopped"
  BY <1>1, <1>2 DEF States, IsAlive
<1>4. \A k \in 1 .. Len(wq) : wq[k] = StopWorkerThreadSignal
  BY <1>3 DEF IInv, SignalsLast
<1>5. put \subseteq Items
  BY ShapeParts DEF IInv
<1> QED BY <1>4, <1>5, EntriesDiffer DEF IInv, HoldsTheRest

(* Nobody enters the context again, and nobody is killed outside it.       *)
LEMMA LeftStays == ASSUME IInv, [Next]_vars, Left PROVE Left'
<1> USE DEF mainVars, threadVars
<1>0. /\ at \in [Threads -> States] /\ Workers \subseteq Threads
      /\ \A t \in Workers : at[t] # "func"
  <2>1. ThreadsOK /\ called \subseteq put
    BY ShapeParts DEF IInv
  <2>2. put = {} \/ \A t \in Workers : ~IsAlive(t)
    BY DEF IInv, Phases, Left
  <2> QED BY <2>1, <2>2 DEF ThreadsOK, Threads, IsAlive
<1>1. ~InContext'
  <2>1. pc \notin {"start", "body"} /\ (pc = "stop" => leaving # "work")
    BY DEF Left, InContext
  <2>2. CASE UNCHANGED <<pc, leaving>>
    BY <2>1, <2>2 DEF InContext
  <2>3. ASSUME NEW q \in Queues, SendStop(q) \/ Join(q) \/ ReportException(q)
        PROVE ~InContext'
    BY <2>1, <2>3 DEF SendStop, Join, ReportException, InContext
  <2>4. ASSUME NEW q \in Queues, LeavePool(q) PROVE ~InContext'
    BY <2>1, <2>4 DEF LeavePool, BeginExit, NextPool, InContext
  <2>5. CASE LeaveBody \/ MainSpeaks \/ ConnectionFails
    BY <2>1, <2>5 DEF LeaveBody, MainSpeaks, ConnectionFails
  <2>6. ASSUME NEW t \in Workers, StartThread(t) PROVE FALSE
    BY <2>1, <2>6 DEF StartThread
  <2>7. ASSUME NEW i \in Items, Submit(i) PROVE FALSE
    BY <2>1, <2>7 DEF Submit
  <2>8. ASSUME NEW t \in Threads, Thread(t) \/ FuncSpeaks(t) \/ FuncKills(t)
        PROVE UNCHANGED <<pc, leaving>>
    BY <2>8 DEF Thread, Get, FuncReturns, FuncRaises, FuncSpeaks, FuncKills
  <2>9. CASE UNCHANGED vars
    BY <2>2, <2>9 DEF vars
  <2> QED BY <2>2, <2>3, <2>4, <2>5, <2>6, <2>7, <2>8, <2>9 DEF Next, Main, Exit
<1>2. ~AllKilled'
  <2>1. PICK u \in Workers : at[u] # "killed"
    BY DEF Left, AllKilled
  <2>2. at'[u] # "killed"
    <3>1. CASE UNCHANGED at
      BY <2>1, <3>1
    <3>2. ASSUME NEW t \in Threads, NEW s \in States, s # "killed",
                 at' = [at EXCEPT ![t] = s]
          PROVE at'[u] # "killed"
      BY <1>0, <2>1, <3>2
    <3>3. ASSUME NEW t \in Threads, Get(t) PROVE at'[u] # "killed"
      <4>1. at' = [at EXCEPT ![t] = "stopped"] \/ at' = [at EXCEPT ![t] = "func"]
        BY <3>3 DEF Get, TakesStop, TakesJob
      <4> QED BY <3>2, <4>1 DEF States
    <3>4. ASSUME NEW t \in Threads, FuncReturns(t) \/ FuncRaises(t)
          PROVE at'[u] # "killed"
      BY <3>2, <3>4 DEF FuncReturns, FuncRaises, States
    <3>5. ASSUME NEW t \in Threads, FuncKills(t) PROVE FALSE
      BY <1>0, <3>5 DEF FuncKills
    <3>6. ASSUME NEW t \in Threads, FuncSpeaks(t) PROVE UNCHANGED at
      BY <3>6 DEF FuncSpeaks
    <3>7. ASSUME NEW t \in Workers, StartThread(t) PROVE at'[u] # "killed"
      BY <1>0, <3>2, <3>7 DEF StartThread, States
    <3>8. CASE \/ Exit \/ LeaveBody \/ MainSpeaks \/ ConnectionFails
               \/ (\E i \in Items : Submit(i)) \/ UNCHANGED vars
      BY <3>1, <3>8 DEF Exit, SendStop, Join, ReportException, LeavePool, LeaveBody,
                        MainSpeaks, ConnectionFails, Submit, vars
    <3> QED BY <3>1, <3>3, <3>4, <3>5, <3>6, <3>7, <3>8 DEF Next, Main, Thread
  <2> QED BY <2>1, <2>2 DEF AllKilled
<1> QED BY <1>1, <1>2 DEF Left

(* Every step is one of TaskPool's, or none.                               *)
LEMMA StepRefines ==
  ASSUME IInv, IInv', [Next]_vars
  PROVE  [TheTaskPool!PoolNext]_<<put, called, ~InContext /\ ~AllKilled>>
<1> USE DEF Left
<1>1. WorkStep /\ at \in [Threads -> States] /\ Workers \subseteq Threads
  BY StepIsWorkStep, ShapeParts DEF IInv, ThreadsOK, Threads
<1>2. Left => Left'
  BY LeftStays
<1>3. CASE UNCHANGED <<put, called>>
  <2>1. CASE Left' = Left
    BY <1>3, <2>1
  <2>2. CASE ~Left /\ Left'
    <3>1. (IInv /\ Left => called = put)'
      BY LeftIsDone, PTL
    <3>2. TheTaskPool!LeaveContext
      BY <1>3, <2>2, <3>1 DEF TheTaskPool!LeaveContext
    <3> QED BY <3>2 DEF TheTaskPool!PoolNext
  <2> QED BY <1>2, <2>1, <2>2
<1>4. ASSUME NEW t \in Workers, JobTaken(t)
      PROVE  TheTaskPool!PoolNext
  <2>1. /\ at[t] = "get" /\ wq # <<>> /\ Head(wq) # StopWorkerThreadSignal
        /\ called' = called \cup {Head(wq).item} /\ UNCHANGED <<pc, leaving, put>>
    BY <1>4 DEF JobTaken
  <2>2. Head(wq) = wq[1] /\ 1 \in 1 .. Len(wq)
    BY <2>1, TailOfQueue, ShapeParts DEF IInv
  <2>3. PICK i \in put \ called : Head(wq) = Job(i)
    BY <2>1, <2>2 DEF IInv, HoldsTheRest
  <2>4. i \in Items /\ called' = called \cup {i}
    BY <2>1, <2>3, EntriesDiffer, ShapeParts DEF IInv
  <2>5. InContext
    BY <2>1, <2>3 DEF IInv, Phases, IsAlive
  <2>6. ~Left /\ ~Left'
    BY <2>1, <2>5 DEF InContext
  <2>7. TheTaskPool!WorkOn(i)
    BY <2>1, <2>3, <2>4, <2>6 DEF TheTaskPool!WorkOn
  <2> QED BY <2>4, <2>7 DEF TheTaskPool!PoolNext
<1>5. ASSUME NEW i \in Items, JobAdded(i)
      PROVE  TheTaskPool!PoolNext
  <2>1. ~Left /\ ~Left'
    BY <1>5 DEF JobAdded, InContext
  <2>2. TheTaskPool!Give(i)
    BY <1>5, <2>1 DEF JobAdded, TheTaskPool!Give
  <2> QED BY <2>2 DEF TheTaskPool!PoolNext
<1> QED BY <1>1, <1>3, <1>4, <1>5 DEF WorkStep, Quiet, StopAdded, StopTaken

(* multithreading.py:115-121: every item put into the queue is worked on,  *)
(* once, and before the context is left, unless all workers were killed.   *)
THEOREM PoolImplemented == Spec => ImplementsTaskPool
<1>1. Init => TheTaskPool!PoolInit
  BY DEF Init, TheTaskPool!PoolInit, InContext
<1> QED
  BY <1>1, Invariance, StepRefines, PTL
  DEF Spec, ImplementsTaskPool, TheTaskPool!Pool
-----------------------------------------------------------------------------
(* The streams: what is said, from the mouth of the speaker to the stream. *)
(*                                                                         *)
(* A stream is described by what was said on it, said, by the line of      *)
(* messages that wait in its queue, and by its printer, which is at a and  *)
(* took h last.                                                            *)

Streams == {"print", "error"}
Printer(s) == IF s = "print" THEN "printer" ELSE "error_printer"
Of(s) == {m \in spoken : m.kind = "print" <=> s = "print"}
AllShown == printed \cup exc_infos["printer"] \cup exc_infos["error_printer"]

InLine(line, m) == \E k \in 1 .. Len(line) : line[k] = m

(* A line holds what was said, each message once, and signals.             *)
LineOK(line, words) ==
  /\ line \in Seq(words \cup {StopWorkerThreadSignal})
  /\ \A k, l \in 1 .. Len(line) :
       line[k] = line[l] /\ line[k] # StopWorkerThreadSignal => k = l

(* What the printer has dealt with.                                        *)
Through(line, words, a, h) ==
  {m \in words : ~OfPrinter(m) /\ ~InLine(line, m) /\ ~(a = "func" /\ h = m)}

FlowOK(line, words, a, h) ==
  /\ LineOK(line, words)
  /\ \A m \in words : m # StopWorkerThreadSignal
  /\ a \in {"get", "func", "stopped"}
  /\ a = "func" => h \in words /\ ~OfPrinter(h) /\ ~InLine(line, h)

(* Behind a signal there are only signals and reports about the printers,  *)
(* and nothing else when the printer met one; while somebody may speak     *)
(* there is none, and when the pool was left the printer met one.          *)
Leftover(x) == x = StopWorkerThreadSignal \/ OfPrinter(x)

SignalsOK(line, a, open, closed) ==
  /\ \A k, l \in 1 .. Len(line) :
       k < l /\ line[k] = StopWorkerThreadSignal => Leftover(line[l])
  /\ a = "stopped" => \A k \in 1 .. Len(line) : Leftover(line[k])
  /\ open => a # "stopped" /\ \A k \in 1 .. Len(line) : line[k] # StopWorkerThreadSignal
  /\ closed => a = "stopped"
  /\ \A k \in 1 .. Len(line) : OfPrinter(line[k]) => a = "stopped"

(* A message joins the line.                                               *)
LEMMA WordJoins ==
  ASSUME NEW line, NEW words, NEW m, LineOK(line, words),
         m \notin words, m # StopWorkerThreadSignal
  PROVE  /\ LineOK(Append(line, m), words \cup {m})
         /\ \A x : InLine(Append(line, m), x) <=> InLine(line, x) \/ x = m
<1> DEFINE S == words \cup {StopWorkerThreadSignal}
           T == words \cup {m} \cup {StopWorkerThreadSignal}
           new == Append(line, m)
<1>1. line \in Seq(T) /\ m \in T
  BY SeqMonotonic DEF LineOK
<1>2. /\ new \in Seq(T) /\ Len(new) = Len(line) + 1 /\ Len(line) \in Nat
      /\ \A k \in 1 .. Len(line) : new[k] = line[k]
      /\ new[Len(line) + 1] = m
  BY <1>1, AppendProperties, LenProperties
<1>3. \A k \in 1 .. Len(line) : line[k] \in S
  BY ElementOfSeq DEF LineOK
<1>4. \A k \in 1 .. Len(line) : line[k] # m
  BY <1>3
<1> HIDE DEF new
<1>5. \A k \in 1 .. Len(new) : k \in 1 .. Len(line) \/ k = Len(line) + 1
  BY <1>2
<1>6. \A k, l \in 1 .. Len(new) : new[k] = new[l] /\ new[k] # StopWorkerThreadSignal => k = l
  BY <1>2, <1>4, <1>5 DEF LineOK
<1>7. \A x : InLine(new, x) <=> InLine(line, x) \/ x = m
  BY <1>2, <1>5 DEF InLine
<1>8. LineOK(new, words \cup {m})
  BY <1>2, <1>6 DEF LineOK
<1> QED BY <1>7, <1>8 DEF new

(* A signal joins the line.                                                *)
LEMMA SignalJoins ==
  ASSUME NEW line, NEW words, LineOK(line, words)
  PROVE  /\ LineOK(Append(line, StopWorkerThreadSignal), words)
         /\ \A x : x # StopWorkerThreadSignal =>
              (InLine(Append(line, StopWorkerThreadSignal), x) <=> InLine(line, x))
<1> DEFINE S == words \cup {StopWorkerThreadSignal}
           new == Append(line, StopWorkerThreadSignal)
<1>1. line \in Seq(S) /\ StopWorkerThreadSignal \in S
  BY DEF LineOK
<1>2. /\ new \in Seq(S) /\ Len(new) = Len(line) + 1 /\ Len(line) \in Nat
      /\ \A k \in 1 .. Len(line) : new[k] = line[k]
      /\ new[Len(line) + 1] = StopWorkerThreadSignal
  BY <1>1, AppendProperties, LenProperties
<1> HIDE DEF new
<1>3. \A k \in 1 .. Len(new) : k \in 1 .. Len(line) \/ k = Len(line) + 1
  BY <1>2
<1>4. \A k, l \in 1 .. Len(new) : new[k] = new[l] /\ new[k] # StopWorkerThreadSignal => k = l
  BY <1>2, <1>3 DEF LineOK
<1>5. \A x : x # StopWorkerThreadSignal => (InLine(new, x) <=> InLine(line, x))
  BY <1>2, <1>3 DEF InLine
<1> QED BY <1>2, <1>4, <1>5 DEF LineOK, new

(* The first of the line leaves it.                                        *)
LEMMA FirstLeaves ==
  ASSUME NEW line, NEW words, LineOK(line, words), line # <<>>
  PROVE  /\ LineOK(Tail(line), words)
         /\ Head(line) \in words \cup {StopWorkerThreadSignal} /\ InLine(line, Head(line))
         /\ Head(line) # StopWorkerThreadSignal => ~InLine(Tail(line), Head(line))
         /\ \A x : InLine(line, x) <=> x = Head(line) \/ InLine(Tail(line), x)
<1> DEFINE S == words \cup {StopWorkerThreadSignal}
           new == Tail(line)
<1>1. /\ line \in Seq(S) /\ Head(line) = line[1] /\ 1 \in 1 .. Len(line)
      /\ new \in Seq(S)
      /\ \A k \in 1 .. Len(new) : k + 1 \in 1 .. Len(line) /\ new[k] = line[k + 1]
      /\ \A k \in 1 .. Len(line) : k = 1 \/ (k - 1 \in 1 .. Len(new) /\ line[k] = new[k - 1])
  BY TailOfQueue DEF LineOK
<1>2. line[1] \in S
  BY <1>1, ElementOfSeq
<1> HIDE DEF new
<1>3. \A k, l \in 1 .. Len(new) : new[k] = new[l] /\ new[k] # StopWorkerThreadSignal => k = l
  BY <1>1 DEF LineOK
<1>4. \A x : InLine(line, x) <=> x = line[1] \/ InLine(new, x)
  BY <1>1 DEF InLine
<1>5. line[1] # StopWorkerThreadSignal => ~InLine(new, line[1])
  BY <1>1 DEF LineOK, InLine
<1> QED BY <1>1, <1>2, <1>3, <1>4, <1>5 DEF LineOK, InLine, new

(* The same, for the state of the stream.                                  *)
LEMMA WordJoinsFlow ==
  ASSUME NEW line, NEW words, NEW a, NEW h, NEW m, FlowOK(line, words, a, h),
         m \notin words, m # StopWorkerThreadSignal
  PROVE  /\ FlowOK(Append(line, m), words \cup {m}, a, h)
         /\ Through(Append(line, m), words \cup {m}, a, h) = Through(line, words, a, h)
<1>1. /\ LineOK(Append(line, m), words \cup {m})
      /\ \A x : InLine(Append(line, m), x) <=> InLine(line, x) \/ x = m
  BY WordJoins DEF FlowOK
<1> QED BY <1>1 DEF FlowOK, Through

(* A stop signal is no word, and does not disturb the flow of them.        *)
LEMMA SignalJoinsFlow ==
  ASSUME NEW line, NEW words, NEW a, NEW h, FlowOK(line, words, a, h)
  PROVE  /\ FlowOK(Append(line, StopWorkerThreadSignal), words, a, h)
         /\ Through(Append(line, StopWorkerThreadSignal), words, a, h)
              = Through(line, words, a, h)
<1>1. /\ LineOK(Append(line, StopWorkerThreadSignal), words)
      /\ \A x : x # StopWorkerThreadSignal =>
           (InLine(Append(line, StopWorkerThreadSignal), x) <=> InLine(line, x))
  BY SignalJoins DEF FlowOK
<1> QED BY <1>1 DEF FlowOK, Through

(* A word that is taken from the queue is in its printer's hands.          *)
LEMMA WordLeavesFlow ==
  ASSUME NEW line, NEW words, NEW h, FlowOK(line, words, "get", h), line # <<>>,
         Head(line) # StopWorkerThreadSignal, ~OfPrinter(Head(line))
  PROVE  /\ FlowOK(Tail(line), words, "func", Head(line))
         /\ Through(Tail(line), words, "func", Head(line)) = Through(line, words, "get", h)
<1>1. /\ LineOK(Tail(line), words) /\ Head(line) \in words \cup {StopWorkerThreadSignal}
      /\ InLine(line, Head(line)) /\ ~InLine(Tail(line), Head(line))
      /\ \A x : InLine(line, x) <=> x = Head(line) \/ InLine(Tail(line), x)
  BY FirstLeaves DEF FlowOK
<1> QED BY <1>1 DEF FlowOK, Through

(* A stop signal that is taken stops the printer, and loses no word.       *)
LEMMA SignalLeavesFlow ==
  ASSUME NEW line, NEW words, NEW h, FlowOK(line, words, "get", h), line # <<>>,
         Head(line) = StopWorkerThreadSignal
  PROVE  /\ FlowOK(Tail(line), words, "stopped", h)
         /\ Through(Tail(line), words, "stopped", h) = Through(line, words, "get", h)
<1>1. /\ LineOK(Tail(line), words)
      /\ \A x : InLine(line, x) <=> x = Head(line) \/ InLine(Tail(line), x)
  BY FirstLeaves DEF FlowOK
<1> QED BY <1>1 DEF FlowOK, Through

(* A word that is printed is through, and was not before.                  *)
LEMMA WordIsThrough ==
  ASSUME NEW line, NEW words, NEW h, FlowOK(line, words, "func", h)
  PROVE  /\ FlowOK(line, words, "get", h)
         /\ Through(line, words, "get", h) = Through(line, words, "func", h) \cup {h}
         /\ h \notin Through(line, words, "func", h)
  BY DEF FlowOK, Through

(* And for the order of the line.                                          *)
LEMMA WordJoinsInOrder ==
  ASSUME NEW S, NEW line \in Seq(S), NEW a, NEW open \in BOOLEAN, NEW closed \in BOOLEAN,
         NEW m, SignalsOK(line, a, open, closed), m # StopWorkerThreadSignal,
         IF OfPrinter(m) THEN a = "stopped" ELSE open
  PROVE  SignalsOK(Append(line, m), a, open, closed)
<1> DEFINE new == Append(line, m)
<1>1. line \in Seq(S \cup {m}) /\ m \in S \cup {m}
  BY SeqMonotonic
<1>2. /\ Len(new) = Len(line) + 1 /\ Len(line) \in Nat
      /\ \A k \in 1 .. Len(line) : new[k] = line[k]
      /\ new[Len(line) + 1] = m
  BY <1>1, AppendProperties, LenProperties
<1> HIDE DEF new
<1>3. \A k \in 1 .. Len(new) : k \in 1 .. Len(line) \/ k = Len(line) + 1
  BY <1>2
<1>4. SignalsOK(new, a, open, closed)
  <2>1. \A k, l \in 1 .. Len(new) :
          k < l /\ new[k] = StopWorkerThreadSignal => Leftover(new[l])
    BY <1>2, <1>3 DEF SignalsOK, Leftover
  <2>2. a = "stopped" => \A k \in 1 .. Len(new) : Leftover(new[k])
    BY <1>2, <1>3 DEF SignalsOK, Leftover
  <2>3. open => a # "stopped" /\ \A k \in 1 .. Len(new) : new[k] # StopWorkerThreadSignal
    BY <1>2, <1>3 DEF SignalsOK
  <2>4. \A k \in 1 .. Len(new) : OfPrinter(new[k]) => a = "stopped"
    BY <1>2, <1>3 DEF SignalsOK
  <2> QED BY <2>1, <2>2, <2>3, <2>4 DEF SignalsOK
<1> QED BY <1>4 DEF new

(* A stop signal is nothing that a printer says.                           *)
LEMMA NoSignalOfPrinter == ~OfPrinter(StopWorkerThreadSignal)
<1>1. StopWorkerThreadSignal.kind = "stop"
  BY DEF StopWorkerThreadSignal
<1> QED BY <1>1 DEF OfPrinter

(* A stop signal may join when no word can follow it.                      *)
LEMMA SignalJoinsInOrder ==
  ASSUME NEW S, NEW line \in Seq(S), NEW a, NEW open \in BOOLEAN, NEW closed \in BOOLEAN,
         SignalsOK(line, a, open, closed), ~open
  PROVE  SignalsOK(Append(line, StopWorkerThreadSignal), a, open, closed)
<1> DEFINE new == Append(line, StopWorkerThreadSignal)
<1>1. line \in Seq(S \cup {StopWorkerThreadSignal})
  BY SeqMonotonic
<1>2. /\ Len(new) = Len(line) + 1 /\ Len(line) \in Nat
      /\ \A k \in 1 .. Len(line) : new[k] = line[k]
      /\ new[Len(line) + 1] = StopWorkerThreadSignal
  BY <1>1, AppendProperties, LenProperties
<1> HIDE DEF new
<1>3. \A k \in 1 .. Len(new) : k \in 1 .. Len(line) \/ k = Len(line) + 1
  BY <1>2
<1>4. SignalsOK(new, a, open, closed)
  BY <1>2, <1>3, NoSignalOfPrinter DEF SignalsOK, Leftover
<1> QED BY <1>4 DEF new

(* The first entry of a queue can be taken, whatever it is.                *)
LEMMA FirstLeavesInOrder ==
  ASSUME NEW S, NEW line \in Seq(S), NEW open \in BOOLEAN, NEW closed \in BOOLEAN,
         SignalsOK(line, "get", open, closed), line # <<>>
  PROVE  /\ ~OfPrinter(Head(line))
         /\ SignalsOK(Tail(line), "func", open, closed)
         /\ Head(line) = StopWorkerThreadSignal
              => SignalsOK(Tail(line), "stopped", open, closed)
<1> DEFINE new == Tail(line)
<1>1. /\ Head(line) = line[1] /\ 1 \in 1 .. Len(line) /\ Len(line) \in Nat
      /\ Len(new) = Len(line) - 1
      /\ \A k \in 1 .. Len(new) : k + 1 \in 1 .. Len(line) /\ new[k] = line[k + 1]
  BY TailOfQueue, LenProperties
<1> HIDE DEF new
<1>2. ~closed /\ ~OfPrinter(line[1]) /\ \A k \in 1 .. Len(new) : ~OfPrinter(new[k])
  BY <1>1 DEF SignalsOK
<1>3. SignalsOK(new, "func", open, closed)
  <2>1. ASSUME NEW k \in 1 .. Len(new), NEW l \in 1 .. Len(new), k < l, new[k] = StopWorkerThreadSignal
        PROVE  Leftover(new[l])
    BY <1>1, <2>1 DEF SignalsOK
  <2>2. open => \A k \in 1 .. Len(new) : new[k] # StopWorkerThreadSignal
    BY <1>1 DEF SignalsOK
  <2> QED BY <1>2, <2>1, <2>2 DEF SignalsOK
<1>4. ASSUME line[1] = StopWorkerThreadSignal
      PROVE  SignalsOK(new, "stopped", open, closed)
  <2>1. ~open /\ \A k \in 1 .. Len(new) : Leftover(new[k])
    BY <1>1, <1>4 DEF SignalsOK
  <2> QED BY <2>1 DEF SignalsOK
<1> QED BY <1>1, <1>2, <1>3, <1>4 DEF new

(* A pool that is left is not entered again.                               *)
LEMMA PhaseInOrder ==
  ASSUME NEW line, NEW a, NEW open \in BOOLEAN, NEW closed \in BOOLEAN,
         NEW open2 \in BOOLEAN, NEW closed2 \in BOOLEAN,
         SignalsOK(line, a, open, closed),
         open2 => open, closed2 => closed \/ a = "stopped"
  PROVE  SignalsOK(line, a, open2, closed2)
  BY DEF SignalsOK

-----------------------------------------------------------------------------
(* The invariant of the streams and of the outcomes.                       *)

IsOpen(s) == leaving = "work" \/ (s = "print" /\ leaving = "error")
IsClosed(s) == \/ pc = "done" \/ (pc = "report" /\ leaving = s)
               \/ (s = "error" /\ leaving = "print")

ThroughOf(s) == Through(queue[s], Of(s), at[Printer(s)], holds[Printer(s)])

StreamOK(s) ==
  /\ FlowOK(queue[s], Of(s), at[Printer(s)], holds[Printer(s)])
  /\ SignalsOK(queue[s], at[Printer(s)], IsOpen(s), IsClosed(s))
  /\ ThroughOf(s) \subseteq AllShown

CountOK == error_count = Cardinality(ThroughOf("error"))

(* Nobody says the same twice: main speaks once, and a worker once about   *)
(* the item it works on, which it meets only once.                         *)
SpokenOK ==
  /\ IsFiniteSet(spoken)
  /\ \A m \in spoken : m.kind \in {"print", "error", "raised"}

SpeakersOK ==
  \A m \in spoken : m.kind # "raised" =>
    \/ m.by = "main" /\ "main" \in said
    \/ /\ m.by \in Workers /\ m.about \in called
       /\ at[m.by] = "func" /\ holds[m.by] = Job(m.about) => m.by \in said

(* Who leaves which pool, and what the threads keep of their exceptions.   *)
LeavingOK ==
  /\ pc \in {"start", "body"} => leaving = "work"
  /\ pc = "done" => leaving = "print"
  /\ DOMAIN exc_infos = Threads

OutcomesOK ==
  \A i \in called :
    \/ i \in results
    \/ \E t \in Workers : \/ at[t] \in {"func", "killed"} /\ holds[t] = Job(i)
                         \/ Job(i) \in exc_infos[t]

ReportedOK ==
  leaving # "work" /\ put # {} =>
    \A t \in Workers : \A x \in exc_infos[t] : Report(t, x) \in spoken

AccountInv ==
  /\ SpokenOK /\ SpeakersOK /\ LeavingOK /\ CountOK
  /\ OutcomesOK /\ ReportedOK
  /\ \A s \in Streams : StreamOK(s)

-----------------------------------------------------------------------------
(* What a step does to a stream.                                           *)

Unmoved(s) == UNCHANGED <<Of(s), at[Printer(s)], holds[Printer(s)]>>

WordPut(s, m) ==
  /\ m \notin Of(s) /\ m # StopWorkerThreadSignal
  /\ Of(s)' = Of(s) \cup {m} /\ queue[s]' = Append(queue[s], m)
  /\ UNCHANGED <<at[Printer(s)], holds[Printer(s)]>>
  /\ IF OfPrinter(m) THEN at[Printer(s)] = "stopped" ELSE IsOpen(s)

SignalPut(s) ==
  /\ ~IsOpen(s) /\ Unmoved(s)
  /\ queue[s]' = Append(queue[s], StopWorkerThreadSignal)

WordTaken(s) ==
  /\ at[Printer(s)] = "get" /\ queue[s] # <<>>
  /\ Head(queue[s]) # StopWorkerThreadSignal
  /\ queue[s]' = Tail(queue[s]) /\ UNCHANGED Of(s)
  /\ at[Printer(s)]' = "func" /\ holds[Printer(s)]' = Head(queue[s])

SignalTaken(s) ==
  /\ at[Printer(s)] = "get" /\ queue[s] # <<>>
  /\ Head(queue[s]) = StopWorkerThreadSignal
  /\ queue[s]' = Tail(queue[s]) /\ UNCHANGED <<Of(s), holds[Printer(s)]>>
  /\ at[Printer(s)]' = "stopped"

WordDone(s) ==
  /\ at[Printer(s)] = "func" /\ at[Printer(s)]' = "get"
  /\ UNCHANGED <<Of(s), queue[s], holds[Printer(s)]>>
  /\ holds[Printer(s)] \in AllShown'
  /\ s = "error" => error_count' = error_count + 1

StillStream(s) == Unmoved(s) /\ UNCHANGED queue[s]

StreamMoves(s) ==
  \/ WordDone(s)
  \/ /\ s = "error" => UNCHANGED error_count
     /\ \/ StillStream(s) \/ SignalPut(s) \/ WordTaken(s) \/ SignalTaken(s)
        \/ \E m : WordPut(s, m)

PhaseMoves(s) ==
  /\ IsOpen(s)' => IsOpen(s)
  /\ IsClosed(s)' => IsClosed(s) \/ at[Printer(s)] = "stopped"

StreamStep(s) == AllShown \subseteq AllShown' /\ PhaseMoves(s) /\ StreamMoves(s)

(* Each stream has one printer.                                            *)
LEMMA PrinterOfStream ==
  ASSUME NEW s \in Streams
  PROVE  /\ Printer(s) \in Threads /\ Printer(s) \notin Workers
         /\ Pool(Printer(s)) = s /\ s \in Queues /\ s # "work"
         /\ \A t \in Threads : t = Printer(s) <=> Pool(t) = s
  BY PoolAssumption DEF Streams, Printer, Threads, Pool, Queues

(* What is known of the threads and queues.                                *)
LEMMA Domains ==
  ASSUME IInv, LeavingOK
  PROVE  /\ at \in [Threads -> States] /\ DOMAIN holds = Threads
         /\ DOMAIN exc_infos = Threads /\ DOMAIN queue = Queues
         /\ Workers \subseteq Threads
  BY ShapeParts DEF IInv, ThreadsOK, LeavingOK, Threads

(* Who is at work is so while everybody may speak.                         *)
LEMMA WorkIsInTime ==
  ASSUME IInv, LeavingOK, NEW t \in Workers, at[t] = "func"
  PROVE  leaving = "work"
<1>1. put # {}
  BY ShapeParts DEF IInv, ThreadsOK
<1>2. InContext
  BY <1>1 DEF IInv, Phases, IsAlive
<1> QED BY <1>2 DEF InContext, LeavingOK

(* What is said is new.                                                    *)
LEMMA SpeakIsNew ==
  ASSUME SpeakersOK, NEW t, NEW x, Speak(t, x), NEW stream \in Streams,
         t = "main" \/ (t \in Workers /\ at[t] = "func" /\ holds[t] = Job(x))
  PROVE  Message(t, x, stream) \notin spoken
<1>1. SUFFICES ASSUME Message(t, x, stream) \in spoken PROVE FALSE
  OBVIOUS
<1> DEFINE m == Message(t, x, stream)
<1>2. m.kind = stream /\ m.by = t /\ m.about = x /\ m.kind # "raised"
  BY DEF Message, Streams
<1>3. t \notin said
  BY DEF Speak
<1> HIDE DEF m
<1>4. m \in spoken
  BY <1>1 DEF m
<1>5. \/ m.by = "main" /\ "main" \in said
      \/ /\ m.by \in Workers /\ m.about \in called
         /\ at[m.by] = "func" /\ holds[m.by] = Job(m.about) => m.by \in said
  BY <1>2, <1>4 DEF SpeakersOK
<1> QED BY <1>2, <1>3, <1>5, PoolAssumption

(* A word on a stream is one for that stream alone.                        *)
LEMMA WordIsPut ==
  ASSUME IInv, LeavingOK, NEW s \in Streams, NEW stream \in Streams, NEW m,
         Says(stream, m), m \notin spoken, m # StopWorkerThreadSignal,
         m.kind = "print" <=> stream = "print",
         UNCHANGED <<at, holds, error_count>>,
         IF OfPrinter(m) THEN at[Printer(stream)] = "stopped" ELSE IsOpen(stream)
  PROVE  StreamMoves(s)
<1>1. queue' = [queue EXCEPT ![stream] = Append(@, m)] /\ spoken' = spoken \cup {m}
  BY DEF Says, Put
<1>2. DOMAIN queue = Queues /\ stream \in Queues /\ s \in Queues
  BY Domains, PrinterOfStream
<1>3. CASE s = stream
  <2>1. Of(s)' = Of(s) \cup {m} /\ m \notin Of(s)
    BY <1>1, <1>3 DEF Of
  <2>2. queue[s]' = Append(queue[s], m)
    BY <1>1, <1>2, <1>3
  <2>3. WordPut(s, m)
    BY <1>3, <2>1, <2>2 DEF WordPut
  <2> QED BY <2>3 DEF StreamMoves
<1>4. CASE s # stream
  <2>1. Of(s)' = Of(s)
    BY <1>1, <1>4 DEF Of, Streams
  <2>2. UNCHANGED queue[s]
    BY <1>1, <1>2, <1>4
  <2>3. StillStream(s)
    BY <2>1, <2>2 DEF StillStream, Unmoved
  <2> QED BY <2>3 DEF StreamMoves
<1> QED BY <1>3, <1>4

(* A word that is said moves its own stream by one word.                   *)
LEMMA SpeakMoves ==
  ASSUME IInv, LeavingOK, SpeakersOK, NEW s \in Streams, NEW t, NEW x, Speak(t, x),
         t = "main" \/ (t \in Workers /\ at[t] = "func" /\ holds[t] = Job(x)),
         leaving = "work", UNCHANGED <<at, holds, error_count>>
  PROVE  StreamMoves(s)
<1>1. PICK stream \in Streams : Says(stream, Message(t, x, stream))
  BY DEF Speak, Streams
<1>2. Message(t, x, stream) \notin spoken
  BY SpeakIsNew
<1>3. Message(t, x, stream).kind = stream /\ StopWorkerThreadSignal.kind = "stop"
  BY DEF Message, StopWorkerThreadSignal
<1>4. ~OfPrinter(Message(t, x, stream)) /\ Message(t, x, stream) # StopWorkerThreadSignal
  BY <1>3 DEF OfPrinter, Streams
<1>5. IsOpen(stream)
  BY DEF IsOpen
<1> QED BY <1>1, <1>2, <1>3, <1>4, <1>5, WordIsPut

(* A printer takes from its own stream only.                               *)
LEMMA GetMoves ==
  ASSUME IInv, LeavingOK, NEW s \in Streams, NEW t \in Threads, Get(t)
  PROVE  StreamMoves(s)
<1> DEFINE P == Printer(s)
<1>1. /\ DOMAIN queue = Queues /\ at \in [Threads -> States] /\ DOMAIN holds = Threads
      /\ P \in Threads /\ Pool(P) = s /\ s \in Queues /\ Pool(t) \in Queues
      /\ t = P <=> Pool(t) = s
  BY Domains, PrinterOfStream, PoolOfThread
<1>2. /\ at[t] = "get" /\ queue[Pool(t)] # <<>>
      /\ queue' = [queue EXCEPT ![Pool(t)] = Tail(@)]
      /\ IF Head(queue[Pool(t)]) = StopWorkerThreadSignal
         THEN TakesStop(t) ELSE TakesJob(t, Head(queue[Pool(t)]))
      /\ UNCHANGED <<error_count, spoken>>
  BY DEF Get
<1>3. UNCHANGED Of(s)
  BY <1>2 DEF Of
<1> HIDE DEF P
<1>4. CASE t # P
  <2>1. UNCHANGED <<at[P], holds[P], queue[s]>>
    BY <1>1, <1>2, <1>4 DEF TakesStop, TakesJob
  <2>2. StillStream(s)
    BY <1>3, <2>1 DEF StillStream, Unmoved, P
  <2> QED BY <1>2, <2>2 DEF StreamMoves
<1>5. CASE t = P /\ Head(queue[s]) = StopWorkerThreadSignal
  <2>1. TakesStop(P) /\ queue[s]' = Tail(queue[s]) /\ at[P] = "get" /\ queue[s] # <<>>
    BY <1>1, <1>2, <1>5
  <2>2. at[P]' = "stopped" /\ UNCHANGED holds[P]
    BY <1>1, <2>1 DEF TakesStop
  <2>3. SignalTaken(s)
    BY <1>3, <1>5, <2>1, <2>2 DEF SignalTaken, P
  <2> QED BY <1>2, <2>3 DEF StreamMoves
<1>6. CASE t = P /\ Head(queue[s]) # StopWorkerThreadSignal
  <2>1. /\ TakesJob(P, Head(queue[s])) /\ queue[s]' = Tail(queue[s])
        /\ at[P] = "get" /\ queue[s] # <<>>
    BY <1>1, <1>2, <1>6
  <2>2. at[P]' = "func" /\ holds[P]' = Head(queue[s])
    BY <1>1, <2>1 DEF TakesJob
  <2>3. WordTaken(s)
    BY <1>3, <1>6, <2>1, <2>2 DEF WordTaken, P
  <2> QED BY <1>2, <2>3 DEF StreamMoves
<1> QED BY <1>4, <1>5, <1>6

(* The end of a call moves the stream of its thread only.                  *)
LEMMA FuncEndMoves ==
  ASSUME IInv, LeavingOK, NEW s \in Streams, NEW t \in Threads,
         FuncReturns(t) \/ FuncRaises(t) \/ FuncKills(t)
  PROVE  StreamMoves(s)
<1> DEFINE P == Printer(s)
<1>1. /\ DOMAIN queue = Queues /\ at \in [Threads -> States] /\ DOMAIN holds = Threads
      /\ DOMAIN exc_infos = Threads /\ P \in Threads /\ P \notin Workers
  BY Domains, PrinterOfStream
<1>2. /\ UNCHANGED <<queue, holds, spoken>> /\ at[t] = "func"
      /\ at' = [at EXCEPT ![t] = "get"] \/ at' = [at EXCEPT ![t] = "killed"]
  BY DEF FuncReturns, FuncRaises, FuncKills
<1>3. UNCHANGED Of(s)
  BY <1>2 DEF Of
<1> HIDE DEF P
<1>4. CASE t # P
  <2>1. UNCHANGED <<at[P], holds[P], queue[s]>>
    BY <1>1, <1>2, <1>4
  <2>2. s = "error" => UNCHANGED error_count
    BY <1>4 DEF FuncReturns, FuncRaises, FuncKills, Counts, P, Printer
  <2>3. StillStream(s)
    BY <1>3, <2>1 DEF StillStream, Unmoved, P
  <2> QED BY <2>2, <2>3 DEF StreamMoves
<1>5. CASE t = P
  <2>1. FuncReturns(P) \/ FuncRaises(P)
    BY <1>1, <1>5 DEF FuncKills
  <2>2. at[P]' = "get" /\ at[P] = "func"
    BY <1>1, <2>1 DEF FuncReturns, FuncRaises
  <2>3. s = "error" => error_count' = error_count + 1
    BY <2>1 DEF FuncReturns, FuncRaises, Counts, P, Printer
  <2>4. holds[P] \in AllShown'
    <3>1. CASE FuncReturns(P)
      BY <1>1, <3>1 DEF FuncReturns, AllShown
    <3>2. CASE FuncRaises(P)
      BY <1>1, <3>2 DEF FuncRaises, AllShown, P, Printer
    <3> QED BY <2>1, <3>1, <3>2
  <2>5. WordDone(s)
    BY <1>2, <1>3, <2>2, <2>3, <2>4 DEF WordDone, P
  <2> QED BY <2>5 DEF StreamMoves
<1> QED BY <1>4, <1>5

(* A stop signal moves the stream it is sent to only.                      *)
LEMMA SendStopMoves ==
  ASSUME IInv, LeavingOK, NEW s \in Streams, NEW q \in Queues, SendStop(q)
  PROVE  StreamMoves(s)
<1>1. /\ queue' = [queue EXCEPT ![q] = Append(@, StopWorkerThreadSignal)]
      /\ leaving = q /\ UNCHANGED <<at, holds, error_count, spoken>>
  BY DEF SendStop, Put, threadVars
<1>2. DOMAIN queue = Queues /\ s \in Queues
  BY Domains, PrinterOfStream
<1>3. UNCHANGED Of(s) /\ Unmoved(s)
  BY <1>1 DEF Of, Unmoved
<1>4. CASE q = s
  <2>1. queue[s]' = Append(queue[s], StopWorkerThreadSignal)
    BY <1>1, <1>2, <1>4
  <2>2. ~IsOpen(s)
    BY <1>1, <1>4 DEF IsOpen, Streams
  <2>3. SignalPut(s)
    BY <1>3, <2>1, <2>2 DEF SignalPut
  <2> QED BY <1>1, <2>3 DEF StreamMoves
<1>5. CASE q # s
  <2>1. UNCHANGED queue[s]
    BY <1>1, <1>2, <1>5
  <2> QED BY <1>1, <1>3, <2>1 DEF StreamMoves, StillStream
<1> QED BY <1>4, <1>5

(* An exception of a worker is reported while the error printer runs, that *)
(* of a printer when it does no more.                                      *)
LEMMA ReportMoves ==
  ASSUME IInv, LeavingOK, StreamOK("error"), NEW s \in Streams, NEW q \in Queues,
         ReportException(q)
  PROVE  StreamMoves(s)
<1>1. PICK m \in Unreported(q) : Says("error", m)
  BY DEF ReportException
<1>2. PICK t \in ThreadList(q) : \E x \in exc_infos[t] : m = Report(t, x)
  BY <1>1 DEF Unreported
<1>3. PICK x : m = Report(t, x)
  BY <1>2
<1>4. m \notin spoken /\ t \in Threads /\ Pool(t) = q
  <2>1. m \notin spoken
    BY <1>1 DEF Unreported
  <2> QED BY <1>2, <2>1 DEF ThreadList
<1>5. m.kind = "raised" /\ m.by = t /\ StopWorkerThreadSignal.kind = "stop"
  BY <1>3 DEF Report, StopWorkerThreadSignal
<1>6. pc = "report" /\ leaving = q /\ UNCHANGED <<at, holds, error_count>>
  BY DEF ReportException, threadVars
<1>7. IF OfPrinter(m) THEN at[Printer("error")] = "stopped" ELSE IsOpen("error")
  <2>1. CASE t \in Workers
    BY <1>4, <1>5, <1>6, <2>1, PoolOfThread DEF OfPrinter, IsOpen
  <2>2. CASE t \notin Workers
    <3>1. IsClosed("error") /\ OfPrinter(m)
      BY <1>4, <1>5, <1>6, <2>2, PoolOfThread DEF OfPrinter, IsClosed, Queues
    <3> QED BY <3>1 DEF StreamOK, SignalsOK
  <2> QED BY <2>1, <2>2
<1>8. "error" \in Streams /\ m # StopWorkerThreadSignal /\ (m.kind = "print" <=> "error" = "print")
  BY <1>5 DEF Streams
<1> QED BY <1>1, <1>4, <1>6, <1>7, <1>8, WordIsPut

(* Every step moves every stream in one of these ways, or not at all.      *)
LEMMA EveryStepMoves ==
  ASSUME IInv, AccountInv, [Next]_vars, NEW s \in Streams
  PROVE  StreamMoves(s)
<1> USE DEF mainVars, threadVars
<1>0. LeavingOK /\ SpeakersOK /\ StreamOK("error") /\ s \in Queues
  BY PrinterOfStream DEF AccountInv, Streams
<1>1. ASSUME UNCHANGED <<spoken, at, holds, error_count>>, UNCHANGED queue[s]
      PROVE  StreamMoves(s)
  BY <1>1 DEF StreamMoves, StillStream, Unmoved, Of
<1>2. CASE UNCHANGED vars
  BY <1>1, <1>2 DEF vars
<1>3. ASSUME NEW q \in Queues, SendStop(q) PROVE StreamMoves(s)
  BY <1>0, <1>3, SendStopMoves
<1>4. ASSUME NEW q \in Queues, Join(q) \/ LeavePool(q) PROVE StreamMoves(s)
  BY <1>1, <1>4 DEF Join, LeavePool
<1>5. ASSUME NEW q \in Queues, ReportException(q) PROVE StreamMoves(s)
  BY <1>0, <1>5, ReportMoves
<1>6. CASE LeaveBody \/ ConnectionFails
  BY <1>1, <1>6 DEF LeaveBody, ConnectionFails
<1>7. CASE MainSpeaks
  <2>1. Speak("main", "nothing") /\ leaving = "work" /\ UNCHANGED <<at, holds, error_count>>
    BY <1>0, <1>7 DEF MainSpeaks, LeavingOK
  <2> QED BY <1>0, <2>1, SpeakMoves
<1>8. ASSUME NEW t \in Workers, StartThread(t) PROVE StreamMoves(s)
  <2>1. UNCHANGED <<spoken, holds, error_count, queue>> /\ at' = [at EXCEPT ![t] = "get"]
    BY <1>8 DEF StartThread
  <2>2. UNCHANGED at[Printer(s)]
    BY <1>0, <2>1, Domains, PrinterOfStream
  <2> QED BY <2>1, <2>2 DEF StreamMoves, StillStream, Unmoved, Of
<1>9. ASSUME NEW i \in Items, Submit(i) PROVE StreamMoves(s)
  <2>1. UNCHANGED <<spoken, at, holds, error_count>> /\ queue' = [queue EXCEPT !["work"] = Append(@, Job(i))]
    BY <1>9 DEF Submit, Put
  <2>2. UNCHANGED queue[s]
    BY <1>0, <2>1, Domains, PrinterOfStream
  <2> QED BY <1>1, <2>1, <2>2
<1>10. ASSUME NEW t \in Threads, Get(t) PROVE StreamMoves(s)
  BY <1>0, <1>10, GetMoves
<1>11. ASSUME NEW t \in Threads, FuncReturns(t) \/ FuncRaises(t) \/ FuncKills(t)
       PROVE StreamMoves(s)
  BY <1>0, <1>11, FuncEndMoves
<1>12. ASSUME NEW t \in Threads, FuncSpeaks(t) PROVE StreamMoves(s)
  <2>1. /\ t \in Workers /\ at[t] = "func" /\ Speak(t, holds[t].item)
        /\ UNCHANGED <<at, holds, error_count>>
    BY <1>12 DEF FuncSpeaks
  <2>2. leaving = "work"
    BY <1>0, <2>1, WorkIsInTime
  <2>3. holds[t] = Job(holds[t].item)
    <3>1. PICK i \in called : holds[t] = Job(i)
      BY <2>1, ShapeParts DEF IInv, ThreadsOK
    <3> QED BY <3>1 DEF Job
  <2> QED BY <1>0, <2>1, <2>2, <2>3, SpeakMoves
<1> QED
  BY <1>2, <1>3, <1>4, <1>5, <1>6, <1>7, <1>8, <1>9, <1>10, <1>11, <1>12
  DEF Next, Main, Exit, Thread

(* Nothing that was shown is taken back.                                   *)
LEMMA ShownGrows ==
  ASSUME IInv, LeavingOK, [Next]_vars
  PROVE  /\ AllShown \subseteq AllShown' /\ DOMAIN exc_infos' = Threads
         /\ \A t \in Threads : exc_infos[t] \subseteq exc_infos'[t]
<1> DEFINE Grow == /\ printed \subseteq printed' /\ DOMAIN exc_infos' = Threads
                   /\ \A t \in Threads : exc_infos[t] \subseteq exc_infos'[t]
<1> SUFFICES Grow
  BY DEF AllShown, Threads
<1> USE DEF mainVars, threadVars, LeavingOK
<1>1. CASE UNCHANGED <<printed, exc_infos>>
  BY <1>1
<1>2. CASE Exit \/ LeaveBody \/ MainSpeaks \/ ConnectionFails \/ UNCHANGED vars
  BY <1>1, <1>2
  DEF Exit, SendStop, Join, ReportException, LeavePool, LeaveBody, MainSpeaks,
      ConnectionFails, vars
<1>3. ASSUME NEW i \in Items, Submit(i) PROVE Grow
  BY <1>1, <1>3 DEF Submit
<1>4. ASSUME NEW t \in Workers, StartThread(t) PROVE Grow
  BY <1>1, <1>4 DEF StartThread
<1>5. ASSUME NEW t \in Threads, Get(t) \/ FuncKills(t) \/ FuncSpeaks(t) PROVE Grow
  BY <1>1, <1>5 DEF Get, FuncKills, FuncSpeaks
<1>6. ASSUME NEW t \in Threads, FuncReturns(t) PROVE Grow
  BY <1>6 DEF FuncReturns
<1>7. ASSUME NEW t \in Threads, FuncRaises(t) PROVE Grow
  BY <1>7 DEF FuncRaises
<1> QED BY <1>2, <1>3, <1>4, <1>5, <1>6, <1>7 DEF Next, Main, Thread

(* The pools are left one after the other, each when its threads are gone. *)
LEMMA EveryStepInPhase ==
  ASSUME IInv, AccountInv, [Next]_vars, NEW s \in Streams
  PROVE  PhaseMoves(s)
<1> USE DEF mainVars, threadVars
<1>0. /\ pc \in {"start", "body"} => leaving = "work"
      /\ at[Printer(s)] \in {"get", "func", "stopped"} /\ leaving \in Queues
  BY ShapeParts DEF AccountInv, LeavingOK, StreamOK, FlowOK, IInv, MainOK
<1> USE DEF PhaseMoves, IsOpen, IsClosed, Streams, Queues
<1>1. CASE UNCHANGED <<pc, leaving>>
  BY <1>1
<1>2. CASE UNCHANGED vars
  BY <1>1, <1>2 DEF vars
<1>3. ASSUME NEW q \in Queues, SendStop(q) \/ ReportException(q) PROVE PhaseMoves(s)
  BY <1>1, <1>3 DEF SendStop, ReportException
<1>4. ASSUME NEW q \in Queues, Join(q) PROVE PhaseMoves(s)
  <2>1. leaving = q /\ leaving' = q /\ pc = "stop" /\ pc' = "report" /\ Living(q) = {}
    BY <1>4 DEF Join, Joined
  <2>2. q = s => at[Printer(s)] = "stopped"
    <3>1. q = s => Printer(s) \in ThreadList(q)
      BY PrinterOfStream DEF ThreadList
    <3> QED BY <1>0, <2>1, <3>1 DEF Living, IsAlive
  <2> QED BY <2>1, <2>2
<1>5. ASSUME NEW q \in Queues, LeavePool(q) PROVE PhaseMoves(s)
  <2>1. pc = "report" /\ leaving = q
    BY <1>5 DEF LeavePool
  <2>2. CASE q = "print"
    <3>1. pc' = "done" /\ leaving' = "print"
      BY <1>5, <2>1, <2>2 DEF LeavePool
    <3> QED BY <2>1, <2>2, <3>1
  <2>3. CASE q # "print"
    <3>1. pc' = "stop" /\ leaving' = NextPool(q)
      BY <1>5, <2>3 DEF LeavePool, BeginExit
    <3> QED BY <2>1, <2>3, <3>1 DEF NextPool
  <2> QED BY <2>2, <2>3
<1>6. CASE LeaveBody \/ ConnectionFails
  BY <1>0, <1>6 DEF LeaveBody, ConnectionFails, BeginExit
<1>7. CASE MainSpeaks
  BY <1>1, <1>7 DEF MainSpeaks
<1>8. ASSUME NEW t \in Workers, StartThread(t) PROVE PhaseMoves(s)
  BY <1>0, <1>8 DEF StartThread
<1>9. ASSUME NEW i \in Items, Submit(i) PROVE PhaseMoves(s)
  BY <1>1, <1>9 DEF Submit
<1>10. ASSUME NEW t \in Threads, Thread(t) \/ FuncSpeaks(t) \/ FuncKills(t) PROVE PhaseMoves(s)
  BY <1>1, <1>10 DEF Thread, Get, FuncReturns, FuncRaises, FuncSpeaks, FuncKills
<1> QED
  BY <1>2, <1>3, <1>4, <1>5, <1>6, <1>7, <1>8, <1>9, <1>10 DEF Next, Main, Exit

(* The stream after the step, and what came through it.                    *)
LEMMA StreamStepOK ==
  ASSUME NEW s \in Streams, StreamOK(s), StreamStep(s)
  PROVE  /\ StreamOK(s)'
         /\ WordDone(s) => /\ ThroughOf(s)' = ThroughOf(s) \cup {holds[Printer(s)]}
                           /\ holds[Printer(s)] \notin ThroughOf(s)
         /\ ~WordDone(s) => ThroughOf(s)' = ThroughOf(s)
<1> DEFINE P == Printer(s)
           line == queue[s]
           words == Of(s)
           open == IsOpen(s)
           closed == IsClosed(s)
           Flow2 == FlowOK(line', words', at[P]', holds[P]')
           Order2 == SignalsOK(line', at[P]', open, closed)
           Same == ThroughOf(s)' = ThroughOf(s)
<1>0. /\ FlowOK(line, words, at[P], holds[P]) /\ SignalsOK(line, at[P], open, closed)
      /\ line \in Seq(words \cup {StopWorkerThreadSignal})
      /\ open \in BOOLEAN /\ closed \in BOOLEAN /\ open' \in BOOLEAN /\ closed' \in BOOLEAN
  BY DEF StreamOK, FlowOK, LineOK, IsOpen, IsClosed
<1> USE DEF ThroughOf
<1>1. ASSUME WordDone(s)
      PROVE  /\ Flow2 /\ Order2 /\ holds[P] \notin ThroughOf(s)
             /\ ThroughOf(s)' = ThroughOf(s) \cup {holds[P]}
  <2>1. at[P] = "func" /\ at[P]' = "get" /\ words' = words /\ line' = line /\ holds[P]' = holds[P]
    BY <1>1 DEF WordDone
  <2>2. Flow2 /\ ThroughOf(s)' = ThroughOf(s) \cup {holds[P]} /\ holds[P] \notin ThroughOf(s)
    BY <1>0, <2>1, WordIsThrough
  <2>3. Order2
    BY <1>0, <2>1 DEF SignalsOK
  <2> QED BY <2>1, <2>2, <2>3
<1>2. ASSUME StillStream(s) PROVE Flow2 /\ Order2 /\ Same
  BY <1>0, <1>2 DEF StillStream, Unmoved
<1>3. ASSUME SignalPut(s) PROVE Flow2 /\ Order2 /\ Same
  <2>1. /\ words' = words /\ at[P]' = at[P] /\ holds[P]' = holds[P]
        /\ line' = Append(line, StopWorkerThreadSignal) /\ ~open
    BY <1>3 DEF SignalPut, Unmoved
  <2>2. Flow2 /\ Same
    BY <1>0, <2>1, SignalJoinsFlow
  <2>3. Order2
    BY <1>0, <2>1, SignalJoinsInOrder
  <2> QED BY <2>2, <2>3
<1>4. ASSUME WordTaken(s) PROVE Flow2 /\ Order2 /\ Same
  <2>1. /\ words' = words /\ at[P]' = "func" /\ holds[P]' = Head(line)
        /\ line' = Tail(line) /\ line # <<>> /\ Head(line) # StopWorkerThreadSignal
        /\ at[P] = "get"
    BY <1>4 DEF WordTaken
  <2>2. ~OfPrinter(Head(line)) /\ Order2
    BY <1>0, <2>1, FirstLeavesInOrder
  <2>3. Flow2 /\ Same
    BY <1>0, <2>1, <2>2, WordLeavesFlow
  <2> QED BY <2>2, <2>3
<1>5. ASSUME SignalTaken(s) PROVE Flow2 /\ Order2 /\ Same
  <2>1. /\ words' = words /\ at[P]' = "stopped" /\ holds[P]' = holds[P]
        /\ line' = Tail(line) /\ line # <<>> /\ Head(line) = StopWorkerThreadSignal
        /\ at[P] = "get"
    BY <1>5 DEF SignalTaken
  <2>2. Order2
    BY <1>0, <2>1, FirstLeavesInOrder
  <2>3. Flow2 /\ Same
    BY <1>0, <2>1, SignalLeavesFlow
  <2> QED BY <2>2, <2>3
<1>6. ASSUME NEW m, WordPut(s, m) PROVE Flow2 /\ Order2 /\ Same
  <2>1. /\ words' = words \cup {m} /\ at[P]' = at[P] /\ holds[P]' = holds[P]
        /\ line' = Append(line, m) /\ m \notin words /\ m # StopWorkerThreadSignal
        /\ IF OfPrinter(m) THEN at[P] = "stopped" ELSE open
    BY <1>6 DEF WordPut
  <2>2. Flow2 /\ Same
    BY <1>0, <2>1, WordJoinsFlow
  <2>3. Order2
    BY <1>0, <2>1, WordJoinsInOrder
  <2> QED BY <2>2, <2>3
<1>7. /\ Flow2 /\ Order2
      /\ WordDone(s) => /\ ThroughOf(s)' = ThroughOf(s) \cup {holds[P]}
                        /\ holds[P] \notin ThroughOf(s)
      /\ ~WordDone(s) => Same
  BY <1>1, <1>2, <1>3, <1>4, <1>5, <1>6 DEF StreamStep, StreamMoves
<1>8. SignalsOK(line', at[P]', open', closed')
  <2>1. (open' => open) /\ (closed' => closed \/ at[P] = "stopped")
    BY DEF StreamStep, PhaseMoves
  <2>2. at[P] = "stopped" => at[P]' = "stopped"
    BY DEF StreamStep, StreamMoves, WordDone, StillStream, SignalPut, WordTaken, SignalTaken,
           WordPut, Unmoved
  <2> QED BY <1>0, <1>7, <2>1, <2>2, PhaseInOrder
<1>9. ThroughOf(s)' \subseteq AllShown'
  <2>1. ThroughOf(s) \subseteq AllShown' /\ (WordDone(s) => holds[P] \in AllShown')
    BY DEF StreamOK, StreamStep, WordDone
  <2> QED BY <1>7, <2>1
<1> QED BY <1>7, <1>8, <1>9 DEF StreamOK

-----------------------------------------------------------------------------
(* The other parts of the invariant.                                       *)

(* What was said stays said.                                               *)
LEMMA SpokenStep ==
  ASSUME IInv, SpokenOK, [Next]_vars
  PROVE  SpokenOK' /\ spoken \subseteq spoken'
<1> DEFINE Goal == SpokenOK' /\ spoken \subseteq spoken'
<1> USE DEF mainVars, threadVars
<1>1. CASE UNCHANGED spoken
  BY <1>1 DEF SpokenOK
<1>2. ASSUME NEW m, spoken' = spoken \cup {m}, m.kind \in {"print", "error", "raised"}
      PROVE  Goal
  BY <1>2, FS_AddElement DEF SpokenOK
<1>3. ASSUME NEW t, NEW x, Speak(t, x) PROVE Goal
  <2>1. PICK stream \in {"print", "error"} : spoken' = spoken \cup {Message(t, x, stream)}
    BY <1>3 DEF Speak, Says
  <2>2. Message(t, x, stream).kind = stream
    BY DEF Message
  <2> QED BY <1>2, <2>1, <2>2
<1>4. ASSUME NEW q \in Queues, ReportException(q) PROVE Goal
  <2>1. PICK m \in Unreported(q) : spoken' = spoken \cup {m}
    BY <1>4 DEF ReportException, Says
  <2>2. PICK t \in ThreadList(q) : \E x \in exc_infos[t] : m = Report(t, x)
    BY <2>1 DEF Unreported
  <2>3. m.kind = "raised"
    BY <2>2 DEF Report
  <2> QED BY <1>2, <2>1, <2>3
<1>5. ASSUME NEW q \in Queues, SendStop(q) \/ Join(q) \/ LeavePool(q) PROVE UNCHANGED spoken
  BY <1>5 DEF SendStop, Join, LeavePool
<1>6. CASE LeaveBody \/ ConnectionFails \/ UNCHANGED vars
  BY <1>1, <1>6 DEF LeaveBody, ConnectionFails, vars
<1>7. ASSUME NEW t \in Workers, StartThread(t) PROVE UNCHANGED spoken
  BY <1>7 DEF StartThread
<1>8. ASSUME NEW i \in Items, Submit(i) PROVE UNCHANGED spoken
  BY <1>8 DEF Submit
<1>9. ASSUME NEW t \in Threads, Thread(t) \/ FuncKills(t) PROVE UNCHANGED spoken
  BY <1>9 DEF Thread, Get, FuncReturns, FuncRaises, FuncKills
<1> QED
  BY <1>1, <1>3, <1>4, <1>5, <1>6, <1>7, <1>8, <1>9
  DEF Next, Main, Exit, MainSpeaks, FuncSpeaks

(* Every step keeps it that nobody says the same twice.                    *)
LEMMA SpeakersStep ==
  ASSUME IInv, AccountInv, [Next]_vars PROVE SpeakersOK'
<1> USE DEF mainVars, threadVars
<1>0. /\ SpeakersOK /\ at \in [Threads -> States] /\ DOMAIN holds = Threads
      /\ Workers \subseteq Threads /\ "main" \notin Threads
  BY Domains, PoolAssumption DEF AccountInv, Threads
<1>1. ASSUME UNCHANGED <<spoken, said, holds, called>>,
             \A t \in Workers : at'[t] = "func" => at[t] = "func"
      PROVE  SpeakersOK'
  BY <1>0, <1>1 DEF SpeakersOK
<1>2. CASE UNCHANGED vars
  BY <1>1, <1>2 DEF vars
<1>3. ASSUME NEW t, NEW x, Speak(t, x), UNCHANGED <<at, holds, called>>,
             t = "main" \/ (t \in Workers /\ x \in called)
      PROVE  SpeakersOK'
  <2>1. PICK stream \in {"print", "error"} : spoken' = spoken \cup {Message(t, x, stream)}
    BY <1>3 DEF Speak, Says
  <2>2. said' = said \cup {t}
    BY <1>3 DEF Speak
  <2>3. ASSUME NEW m \in spoken', m.kind # "raised"
        PROVE  \/ m.by = "main" /\ "main" \in said'
               \/ /\ m.by \in Workers /\ m.about \in called'
                  /\ at'[m.by] = "func" /\ holds'[m.by] = Job(m.about) => m.by \in said'
    <3>1. CASE m \in spoken
      BY <1>0, <1>3, <2>2, <2>3, <3>1 DEF SpeakersOK
    <3>2. CASE m = Message(t, x, stream)
      <4>1. m.by = t /\ m.about = x
        BY <3>2 DEF Message
      <4> QED BY <1>3, <2>2, <4>1
    <3> QED BY <2>1, <3>1, <3>2
  <2> QED BY <2>3 DEF SpeakersOK
<1>4. CASE MainSpeaks
  BY <1>3, <1>4 DEF MainSpeaks
<1>5. ASSUME NEW t \in Threads, FuncSpeaks(t) PROVE SpeakersOK'
  <2>1. /\ t \in Workers /\ at[t] = "func" /\ Speak(t, holds[t].item)
        /\ UNCHANGED <<at, holds, called>>
    BY <1>5 DEF FuncSpeaks
  <2>2. PICK i \in called : holds[t] = Job(i)
    BY <2>1, ShapeParts DEF IInv, ThreadsOK
  <2>3. holds[t].item = i
    BY <2>2 DEF Job
  <2> QED BY <1>3, <2>1, <2>2, <2>3
<1>6. ASSUME NEW q \in Queues, ReportException(q) PROVE SpeakersOK'
  <2>1. PICK m \in Unreported(q) : spoken' = spoken \cup {m}
    BY <1>6 DEF ReportException, Says
  <2>2. PICK t \in ThreadList(q) : \E x \in exc_infos[t] : m = Report(t, x)
    BY <2>1 DEF Unreported
  <2>3. m.kind = "raised" /\ UNCHANGED <<said, at, holds, called>>
    BY <1>6, <2>2 DEF Report, ReportException
  <2> QED BY <1>0, <2>1, <2>3 DEF SpeakersOK
<1>7. ASSUME NEW t \in Threads, Get(t) PROVE SpeakersOK'
  <2>1. said' = said \ {t} /\ UNCHANGED spoken
    BY <1>7 DEF Get
  <2>2. CASE TakesStop(t)
    BY <1>0, <2>1, <2>2 DEF TakesStop, SpeakersOK
  <2>3. CASE ~TakesStop(t)
    <3>1. /\ TakesJob(t, Head(queue[Pool(t)])) /\ queue[Pool(t)] # <<>>
          /\ Head(queue[Pool(t)]) # StopWorkerThreadSignal
      BY <1>7, <2>3 DEF Get
    <3>2. CASE t \notin Workers
      BY <1>0, <2>1, <3>1, <3>2 DEF TakesJob, SpeakersOK
    <3>3. CASE t \in Workers
      <4>1. Head(wq) = wq[1] /\ 1 \in 1 .. Len(wq) /\ Pool(t) = "work" /\ wq # <<>>
        BY <3>1, <3>3, PoolOfThread, TailOfQueue, ShapeParts DEF IInv, wq
      <4>2. PICK j \in put \ called : Head(wq) = Job(j)
        BY <3>1, <4>1 DEF IInv, HoldsTheRest, wq
      <4>3. called' = called \cup {j} /\ holds' = [holds EXCEPT ![t] = Job(j)]
        <5>1. TakesJob(t, Job(j))
          BY <3>1, <4>1, <4>2 DEF wq
        <5>2. Job(j).item = j
          BY DEF Job
        <5> QED BY <3>3, <5>1, <5>2 DEF TakesJob
      <4>4. at' = [at EXCEPT ![t] = "func"]
        BY <3>1 DEF TakesJob
      <4>5. \A x \in called : Job(x) # Job(j)
        BY <4>2 DEF Job
      <4> QED BY <1>0, <2>1, <4>3, <4>4, <4>5 DEF SpeakersOK
    <3> QED BY <3>2, <3>3
  <2> QED BY <2>2, <2>3
<1>8. ASSUME NEW t \in Threads, FuncReturns(t) \/ FuncRaises(t) \/ FuncKills(t)
      PROVE  SpeakersOK'
  <2>1. /\ UNCHANGED <<spoken, said, holds, called>>
        /\ at' = [at EXCEPT ![t] = "get"] \/ at' = [at EXCEPT ![t] = "killed"]
    BY <1>8 DEF FuncReturns, FuncRaises, FuncKills
  <2> QED BY <1>0, <1>1, <2>1
<1>9. ASSUME NEW t \in Workers, StartThread(t) PROVE SpeakersOK'
  <2>1. UNCHANGED <<spoken, said, holds, called>> /\ at' = [at EXCEPT ![t] = "get"]
    BY <1>9 DEF StartThread
  <2> QED BY <1>0, <1>1, <2>1
<1>10. CASE LeaveBody \/ ConnectionFails
  BY <1>1, <1>10 DEF LeaveBody, ConnectionFails
<1>11. ASSUME NEW q \in Queues, SendStop(q) \/ Join(q) \/ LeavePool(q) PROVE SpeakersOK'
  BY <1>1, <1>11 DEF SendStop, Join, LeavePool
<1>12. ASSUME NEW i \in Items, Submit(i) PROVE SpeakersOK'
  BY <1>1, <1>12 DEF Submit
<1> QED
  BY <1>2, <1>4, <1>5, <1>6, <1>7, <1>8, <1>9, <1>10, <1>11, <1>12
  DEF Next, Main, Exit, Thread

(* Every step keeps the order in which the pools are left.                 *)
LEMMA LeavingStep ==
  ASSUME IInv, LeavingOK, [Next]_vars PROVE LeavingOK'
<1>1. DOMAIN exc_infos' = Threads
  BY ShownGrows
<1>2. /\ pc' \in {"start", "body"} => pc \in {"start", "body"} /\ leaving' = leaving
      /\ pc' = "done" => leaving' = "print"
  <2> DEFINE Goal == /\ pc' \in {"start", "body"} => pc \in {"start", "body"} /\ leaving' = leaving
                     /\ pc' = "done" => leaving' = "print"
  <2> SUFFICES Goal
    OBVIOUS
  <2> USE DEF mainVars
  <2>1. CASE UNCHANGED <<pc, leaving>>
    BY <2>1 DEF LeavingOK
  <2>2. ASSUME NEW q \in Queues, SendStop(q) \/ Join(q) \/ ReportException(q) \/ LeavePool(q)
        PROVE  Goal
    BY <2>2 DEF SendStop, Join, ReportException, LeavePool, BeginExit, LeavingOK
  <2>3. CASE LeaveBody \/ ConnectionFails \/ MainSpeaks \/ UNCHANGED vars
    BY <2>3 DEF LeaveBody, ConnectionFails, MainSpeaks, BeginExit, vars, LeavingOK
  <2>4. ASSUME NEW t \in Workers, StartThread(t) PROVE Goal
    BY <2>4 DEF StartThread, LeavingOK
  <2>5. ASSUME NEW i \in Items, Submit(i) PROVE Goal
    BY <2>5 DEF Submit, LeavingOK
  <2>6. ASSUME NEW t \in Threads, Thread(t) \/ FuncSpeaks(t) \/ FuncKills(t) PROVE Goal
    BY <2>6 DEF Thread, Get, FuncReturns, FuncRaises, FuncSpeaks, FuncKills,
               LeavingOK
  <2> HIDE DEF Goal
  <2> QED BY <2>2, <2>3, <2>4, <2>5, <2>6 DEF Next, Main, Exit
<1> QED BY <1>1, <1>2 DEF LeavingOK

(* What came through a stream is counted.                                  *)
LEMMA CountStep ==
  ASSUME SpokenOK, CountOK, StreamOK("error"), StreamStep("error") PROVE CountOK'
<1> DEFINE T == ThroughOf("error")
           h == holds[Printer("error")]
<1>1. T \subseteq spoken /\ IsFiniteSet(T)
  BY FS_Subset DEF ThroughOf, Through, Of, SpokenOK
<1>2. "error" \in Streams
  BY DEF Streams
<1>3. /\ WordDone("error") => T' = T \cup {h} /\ h \notin T
      /\ ~WordDone("error") => T' = T
  BY <1>2, StreamStepOK
<1>4. Cardinality(T \cup {h}) = IF h \in T THEN Cardinality(T) ELSE Cardinality(T) + 1
  BY <1>1, FS_AddElement
<1>5. CASE WordDone("error")
  <2>1. error_count' = error_count + 1
    BY <1>5 DEF WordDone
  <2> QED BY <1>3, <1>4, <1>5, <2>1 DEF CountOK
<1>6. CASE ~WordDone("error")
  <2>1. error_count' = error_count
    BY <1>6 DEF StreamStep, StreamMoves
  <2> QED BY <1>3, <1>6, <2>1 DEF CountOK
<1> QED BY <1>5, <1>6

(* An item func was called with is in some thread's hands until it has an  *)
(* outcome.                                                                *)
LEMMA OutcomesStep ==
  ASSUME IInv, AccountInv, [Next]_vars PROVE OutcomesOK'
<1> USE DEF mainVars, threadVars
<1>0. /\ OutcomesOK /\ at \in [Threads -> States] /\ DOMAIN holds = Threads
      /\ DOMAIN exc_infos = Threads /\ Workers \subseteq Threads
      /\ called \subseteq Items
  BY Domains, ShapeParts DEF AccountInv, IInv
<1>1. ASSUME UNCHANGED <<called, results, holds, exc_infos>>,
             \A t \in Workers : at[t] \in {"func", "killed"} => at'[t] \in {"func", "killed"}
      PROVE  OutcomesOK'
  BY <1>1, <1>0 DEF OutcomesOK
<1>2. CASE Exit \/ LeaveBody \/ MainSpeaks \/ ConnectionFails \/ UNCHANGED vars
  BY <1>1, <1>2
  DEF Exit, SendStop, Join, ReportException, LeavePool, LeaveBody, MainSpeaks,
      ConnectionFails, vars
<1>3. ASSUME NEW i \in Items, Submit(i) PROVE OutcomesOK'
  BY <1>1, <1>3 DEF Submit
<1>4. ASSUME NEW t \in Workers, StartThread(t) PROVE OutcomesOK'
  <2>1. /\ UNCHANGED <<called, results, holds, exc_infos>>
        /\ at[t] = "unborn" /\ at' = [at EXCEPT ![t] = "get"]
    BY <1>4 DEF StartThread
  <2> QED BY <1>0, <1>1, <2>1
<1>5. ASSUME NEW t \in Threads, FuncSpeaks(t) PROVE OutcomesOK'
  BY <1>1, <1>5 DEF FuncSpeaks
<1>6. ASSUME NEW t \in Threads, Get(t) PROVE OutcomesOK'
  <2>1. at[t] = "get" /\ UNCHANGED <<results, exc_infos>>
    BY <1>6 DEF Get
  <2>2. CASE TakesStop(t)
    BY <1>0, <1>1, <2>1, <2>2 DEF TakesStop
  <2>3. CASE ~TakesStop(t)
    <3>1. /\ TakesJob(t, Head(queue[Pool(t)])) /\ queue[Pool(t)] # <<>>
          /\ Head(queue[Pool(t)]) # StopWorkerThreadSignal
      BY <1>6, <2>3 DEF Get
    <3>2. CASE t \notin Workers
      BY <1>0, <2>1, <3>1, <3>2 DEF TakesJob, OutcomesOK
    <3>3. CASE t \in Workers
      <4>1. Head(wq) = wq[1] /\ 1 \in 1 .. Len(wq) /\ Pool(t) = "work"
        BY <3>1, <3>3, PoolOfThread, TailOfQueue, ShapeParts DEF IInv, wq
      <4>2. PICK j \in put \ called : Head(wq) = Job(j)
        BY <3>1, <4>1 DEF IInv, HoldsTheRest, wq
      <4>3. TakesJob(t, Job(j)) /\ Job(j).item = j
        BY <3>1, <4>1, <4>2 DEF wq, Job
      <4>4. /\ called' = called \cup {j} /\ holds' = [holds EXCEPT ![t] = Job(j)]
            /\ at' = [at EXCEPT ![t] = "func"]
        BY <3>3, <4>3 DEF TakesJob
      <4> QED BY <1>0, <2>1, <3>3, <4>4 DEF OutcomesOK
    <3> QED BY <3>2, <3>3
  <2> QED BY <2>2, <2>3
<1>7. ASSUME NEW t \in Threads, FuncKills(t) PROVE OutcomesOK'
  <2>1. UNCHANGED <<called, results, holds, exc_infos>> /\ at' = [at EXCEPT ![t] = "killed"]
    BY <1>7 DEF FuncKills
  <2> QED BY <1>0, <1>1, <2>1
<1>8. ASSUME NEW t \in Threads, FuncReturns(t) \/ FuncRaises(t) PROVE OutcomesOK'
  <2>1. /\ at[t] = "func" /\ at' = [at EXCEPT ![t] = "get"] /\ UNCHANGED <<called, holds>>
        /\ results \subseteq results' /\ \A u \in Threads : exc_infos[u] \subseteq exc_infos'[u]
    BY <1>0, <1>8 DEF FuncReturns, FuncRaises
  <2>2. ASSUME NEW i \in called, holds[t] = Job(i), t \in Workers
        PROVE  i \in results' \/ Job(i) \in exc_infos'[t]
    <3>1. holds[t].item = i
      BY <2>2 DEF Job
    <3>2. CASE FuncReturns(t)
      BY <2>2, <3>1, <3>2 DEF FuncReturns
    <3>3. CASE FuncRaises(t)
      BY <1>0, <2>2, <3>3 DEF FuncRaises
    <3> QED BY <1>8, <3>2, <3>3
  <2>3. ASSUME NEW i \in called
        PROVE  \/ i \in results'
               \/ \E u \in Workers : \/ at'[u] \in {"func", "killed"} /\ holds'[u] = Job(i)
                                    \/ Job(i) \in exc_infos'[u]
    <3>1. CASE i \in results
      BY <2>1, <3>1
    <3>2. ASSUME NEW u \in Workers, Job(i) \in exc_infos[u] PROVE Job(i) \in exc_infos'[u]
      BY <1>0, <2>1, <3>2
    <3>3. ASSUME NEW u \in Workers, at[u] \in {"func", "killed"}, holds[u] = Job(i)
          PROVE  \/ i \in results'
                 \/ at'[u] \in {"func", "killed"} /\ holds'[u] = Job(i)
                 \/ Job(i) \in exc_infos'[u]
      <4>1. CASE u = t
        BY <2>2, <3>3, <4>1
      <4>2. CASE u # t
        BY <1>0, <2>1, <3>3, <4>2
      <4> QED BY <4>1, <4>2
    <3> QED BY <1>0, <3>1, <3>2, <3>3 DEF OutcomesOK
  <2> QED BY <2>1, <2>3 DEF OutcomesOK
<1> QED BY <1>2, <1>3, <1>4, <1>5, <1>6, <1>7, <1>8 DEF Next, Main, Thread

(* The exceptions of the workers are all reported when their pool is left. *)
LEMMA ReportedStep ==
  ASSUME IInv, AccountInv, [Next]_vars PROVE ReportedOK'
<1> USE DEF mainVars, threadVars
<1>0. /\ ReportedOK /\ LeavingOK /\ spoken \subseteq spoken'
      /\ DOMAIN exc_infos = Threads /\ Workers \subseteq Threads
  BY Domains, SpokenStep DEF AccountInv
<1>1. ASSUME UNCHANGED <<leaving, put>>, \A t \in Workers : exc_infos'[t] = exc_infos[t]
      PROVE  ReportedOK'
  BY <1>0, <1>1 DEF ReportedOK
<1>2. CASE UNCHANGED vars
  BY <1>1, <1>2 DEF vars
<1>3. ASSUME NEW q \in Queues, SendStop(q) \/ Join(q) \/ ReportException(q) PROVE ReportedOK'
  BY <1>1, <1>3 DEF SendStop, Join, ReportException
<1>4. ASSUME NEW q \in Queues, LeavePool(q) PROVE ReportedOK'
  <2>1. UNCHANGED <<put, exc_infos>> /\ leaving = q /\ Unreported(q) = {}
    BY <1>4 DEF LeavePool
  <2>2. CASE q # "work"
    BY <1>0, <2>1, <2>2 DEF ReportedOK
  <2>3. CASE q = "work"
    <3>1. ASSUME NEW t \in Workers, NEW x \in exc_infos[t] PROVE Report(t, x) \in spoken
      <4>1. t \in ThreadList("work")
        BY <1>0, PoolOfThread DEF ThreadList
      <4>2. Report(t, x) \in UNION {{Report(u, y) : y \in exc_infos[u]} : u \in ThreadList("work")}
        BY <4>1
      <4> QED BY <2>1, <2>3, <4>2 DEF Unreported
    <3> QED BY <1>0, <2>1, <3>1 DEF ReportedOK
  <2> QED BY <2>2, <2>3
<1>5. CASE LeaveBody
  BY <1>5 DEF LeaveBody, BeginExit, ReportedOK
<1>6. CASE ConnectionFails
  <2>1. put = {} /\ put' = {}
    BY <1>6 DEF ConnectionFails, IInv, Phases
  <2> QED BY <2>1 DEF ReportedOK
<1>7. CASE MainSpeaks
  BY <1>1, <1>7 DEF MainSpeaks
<1>8. ASSUME NEW t \in Workers, StartThread(t) PROVE ReportedOK'
  BY <1>1, <1>8 DEF StartThread
<1>9. ASSUME NEW i \in Items, Submit(i) PROVE ReportedOK'
  <2>1. leaving' = "work"
    BY <1>0, <1>9 DEF Submit, LeavingOK
  <2> QED BY <2>1 DEF ReportedOK
<1>10. ASSUME NEW t \in Threads, Get(t) \/ FuncReturns(t) \/ FuncKills(t) \/ FuncSpeaks(t)
       PROVE ReportedOK'
  BY <1>1, <1>10 DEF Get, FuncReturns, FuncKills, FuncSpeaks
<1>11. ASSUME NEW t \in Threads, FuncRaises(t) PROVE ReportedOK'
  <2>1. CASE t \in Workers
    <3>1. leaving = "work" /\ leaving' = leaving
      BY <1>0, <1>11, <2>1, WorkIsInTime DEF FuncRaises
    <3> QED BY <3>1 DEF ReportedOK
  <2>2. CASE t \notin Workers
    BY <1>0, <1>1, <1>11, <2>2 DEF FuncRaises
  <2> QED BY <2>1, <2>2
<1> QED
  BY <1>2, <1>3, <1>4, <1>5, <1>6, <1>7, <1>8, <1>9, <1>10, <1>11
  DEF Next, Main, Exit, Thread

-----------------------------------------------------------------------------

(* At first nothing is said and nothing called.                            *)
LEMMA AccountInit == Init => AccountInv
<1> SUFFICES ASSUME Init PROVE AccountInv
  OBVIOUS
<1>1. spoken = {} /\ IsFiniteSet(spoken)
  BY FS_EmptySet DEF Init
<1>2. SpokenOK /\ SpeakersOK /\ LeavingOK /\ OutcomesOK /\ ReportedOK
  BY <1>1 DEF Init, SpokenOK, SpeakersOK, LeavingOK, OutcomesOK, ReportedOK
<1>3. ASSUME NEW s \in Streams PROVE StreamOK(s)
  <2>1. /\ queue[s] = <<>> /\ at[Printer(s)] = "get" /\ IsOpen(s) /\ ~IsClosed(s)
        /\ Of(s) = {}
    BY <1>1, PrinterOfStream DEF Init, IsOpen, IsClosed, Of
  <2>2. Len(queue[s]) = 0 /\ queue[s] \in Seq({StopWorkerThreadSignal})
    BY <2>1, EmptySeq
  <2>3. FlowOK(queue[s], Of(s), at[Printer(s)], holds[Printer(s)])
    BY <2>1, <2>2 DEF FlowOK, LineOK
  <2>4. SignalsOK(queue[s], at[Printer(s)], IsOpen(s), IsClosed(s))
    BY <2>1, <2>2 DEF SignalsOK
  <2> QED BY <2>1, <2>3, <2>4 DEF StreamOK, ThroughOf, Through
<1>4. CountOK
  <2>1. ThroughOf("error") = {}
    BY <1>1 DEF ThroughOf, Through, Of
  <2> QED BY <2>1, FS_EmptySet DEF CountOK, Init
<1> QED BY <1>2, <1>3, <1>4 DEF AccountInv

(* Every step keeps the account.                                           *)
LEMMA AccountStep == IInv /\ AccountInv /\ [Next]_vars => AccountInv'
<1> SUFFICES ASSUME IInv, AccountInv, [Next]_vars PROVE AccountInv'
  OBVIOUS
<1>1. SpokenOK /\ LeavingOK /\ CountOK /\ \A s \in Streams : StreamOK(s)
  BY DEF AccountInv
<1>2. ASSUME NEW s \in Streams PROVE StreamStep(s)
  BY <1>1, EveryStepMoves, EveryStepInPhase, ShownGrows DEF StreamStep
<1>3. \A s \in Streams : StreamOK(s)'
  BY <1>1, <1>2, StreamStepOK
<1>4. CountOK'
  BY <1>1, <1>2, CountStep DEF Streams
<1>5. SpokenOK' /\ SpeakersOK' /\ LeavingOK' /\ OutcomesOK' /\ ReportedOK'
  BY <1>1, SpokenStep, SpeakersStep, LeavingStep, OutcomesStep, ReportedStep
<1> QED BY <1>3, <1>4, <1>5 DEF AccountInv

(* When the contexts are left both printers met their signals behind the   *)
(* last word, so that all of it came through, and the reports are made.    *)
LEMMA AccountedAtEnd == IInv /\ AccountInv => EverythingIsAccounted
<1> SUFFICES ASSUME IInv, AccountInv, pc = "done"
             PROVE  EverythingIsAccounted
  BY DEF EverythingIsAccounted, NothingSaidIsLost, EveryOutcomeKnown
<1>1. ASSUME NEW s \in Streams
      PROVE  ThroughOf(s) = {m \in Of(s) : ~OfPrinter(m)} /\ ThroughOf(s) \subseteq AllShown
  <2>1. at[Printer(s)] = "stopped"
    BY DEF AccountInv, StreamOK, SignalsOK, IsClosed
  <2>2. \A k \in 1 .. Len(queue[s]) : Leftover(queue[s][k])
    BY <2>1 DEF AccountInv, StreamOK, SignalsOK
  <2>3. \A m \in Of(s) : m # StopWorkerThreadSignal
    BY DEF AccountInv, StreamOK, FlowOK
  <2>4. \A m \in Of(s) : ~OfPrinter(m) => ~InLine(queue[s], m)
    BY <2>2, <2>3 DEF InLine, Leftover
  <2> QED BY <2>1, <2>4 DEF ThroughOf, Through, AccountInv, StreamOK
<1>2. NothingSaidIsLost
  <2>1. ASSUME NEW m \in spoken, ~OfPrinter(m) PROVE Shown(m)
    <3>1. PICK s \in Streams : m \in Of(s)
      BY DEF Streams, Of
    <3> QED BY <1>1, <2>1, <3>1 DEF Shown, AllShown
  <2>2. {m \in Of("error") : ~OfPrinter(m)}
          = {m \in spoken : m.kind # "print" /\ ~OfPrinter(m)}
    BY DEF Of
  <2>3. error_count = Cardinality({m \in spoken : m.kind # "print" /\ ~OfPrinter(m)})
    BY <1>1, <2>2 DEF AccountInv, CountOK, Streams
  <2> QED BY <2>1, <2>3 DEF NothingSaidIsLost
<1>3. EveryOutcomeKnown
  <2> SUFFICES ASSUME NEW i \in called, i \notin results,
                      ~\E t \in Workers : at[t] = "killed" /\ holds[t] = Job(i)
               PROVE  \E t \in Workers : Report(t, Job(i)) \in spoken
    BY DEF EveryOutcomeKnown
  <2>1. put # {} /\ called \subseteq put
    BY ShapeParts DEF IInv
  <2>2. leaving = "print"
    BY DEF AccountInv, LeavingOK
  <2>3. \A t \in Workers : at[t] # "func"
    BY <2>1 DEF IInv, Phases, InContext, IsAlive
  <2>4. PICK t \in Workers : Job(i) \in exc_infos[t]
    BY <2>3 DEF AccountInv, OutcomesOK
  <2> QED BY <2>1, <2>2, <2>4 DEF AccountInv, ReportedOK
<1> QED BY <1>2, <1>3 DEF EverythingIsAccounted

(* multithreading.py:58-101, 197-263: whatever func and the streams do,    *)
(* when the contexts are left every word was printed or refused by its     *)
(* stream, the errors among them are counted, and every item has its       *)
(* result, its report or its killed thread.                                *)
THEOREM EverythingAccountedTheorem == Spec => []EverythingIsAccounted
<1>1. Init => AccountInv
  BY AccountInit
<1>2. IInv /\ AccountInv /\ [Next]_vars => AccountInv'
  BY AccountStep
<1>3. IInv /\ AccountInv => EverythingIsAccounted
  BY AccountedAtEnd
<1> QED BY <1>1, <1>2, <1>3, Invariance, PTL DEF Spec
=============================================================================
