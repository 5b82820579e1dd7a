-------------------------- MODULE Processes_proofs --------------------------
(***************************************************************************)
(* Theorems about who is alive.  Daemon, for any number of processes and   *)
(* any deaths that the assumptions allow: its types, that two daemons never*)
(* run together, and that it keeps the contract of StartupContract.        *)
(* PortScanner, for any ranges, ports and numbers of threads: what the     *)
(* count of a group's threads guarantees.  Neither part uses the other.    *)
(***************************************************************************)
EXTENDS Daemon, PortScanner, FiniteSetTheorems, SequenceTheorems, TLAPS

-----------------------------------------------------------------------------
(* The daemon: its inductive invariants.                                   *)

(* The places from which a process may come to be a daemon by itself: it   *)
(* is one, or nothing but its own steps keeps it from starting one.        *)
Heir(p) == pc[p] \in {"detach", "monitor", "restart", "stale", "daemon", "ready"}

(* The places from which it may do so only when its child is dead.         *)
Guards(p) == pc[p] \in {"monitorWait", "restartWait", "notify", "watch"}

(* The processes form one chain: at most one waits or watches, at most one *)
(* is an heir, and beside a guard the heir is the daemon it guards.        *)
OneChain ==
  /\ \A p, q \in Proc : Heir(p) /\ Heir(q) => p = q
  /\ \A p, q \in Proc : Guards(p) /\ Guards(q) => p = q
  /\ \A p \in Proc : Guards(p) \/ pc[p] = "detachWait" => child[p] \in Proc
  /\ \A p \in Proc : Guards(p) => pc[child[p]] = "dead" \/ IsDaemon(child[p])
  /\ \A p, q \in Proc : Guards(p) /\ Heir(q) => child[p] = q

DaemonInv == TypeOK /\ OneChain

(* Whoever may be told that the startup went well, or may say so, is there *)
(* after a daemon completed it; the starter reports to nobody.             *)
SaidWhenUp ==
  /\ \A p \in Proc :
       pc[p] \in {"ready", "notify", "watch", "stale", "restart", "restartWait"} => up
  /\ \A p \in Proc : told[p] => up
  /\ \A p \in Proc : pc[p] = "dead" /\ status[p] # "exitError" => up
  /\ pc[1] # "unborn" /\ fd[1] = NoFd

(* Before they are ready, processes die only by exiting with an error.     *)
Orderly == StartupDeaths \cup OtherDeaths \subseteq {"exitError"}

-----------------------------------------------------------------------------
(* What the steps do to the places of the processes.                       *)

(* A step that moves one process and touches no child.                     *)
Moves(p, place) == GoTo(p, place) /\ UNCHANGED child

(* A fork that worked: the parent waits in one place, the child is new.    *)
Begets(p, c, wait, role) ==
  /\ pc[c] = "unborn" /\ pc' = [pc EXCEPT ![p] = wait, ![c] = role]
  /\ child' = [child EXCEPT ![p] = c]

(* A fork that failed.                                                     *)
FailsToFork(p, place) ==
  GoTo(p, place) /\ child' = [child EXCEPT ![p] = NoChild]

(* A step from a place, by a fork or not.                                  *)
Forking(p, from, wait, role, next) ==
  /\ pc[p] = from
  /\ \/ Moves(p, next) \/ FailsToFork(p, next)
     \/ \E c \in Proc : Begets(p, c, wait, role)

(* Every move there is.                                                    *)
Move(p) ==
  \/ Alive(p) /\ Moves(p, "dead")
  \/ Forking(p, "detach", "detachWait", "monitor", "monitor")
  \/ Forking(p, "monitor", "monitorWait", "daemon", "daemon")
  \/ Forking(p, "restart", "restartWait", "daemon", "stale")
  \/ pc[p] = "monitorWait" /\ Moves(p, "notify")
  \/ pc[p] = "restartWait" /\ Moves(p, "watch")
  \/ pc[p] = "restartWait" /\ pc[child[p]] = "dead" /\ Moves(p, "stale")
  \/ pc[p] = "notify" /\ Moves(p, "watch")
  \/ pc[p] = "watch" /\ pc[child[p]] = "dead" /\ Moves(p, "restart")
  \/ pc[p] = "stale" /\ Moves(p, "restart")
  \/ pc[p] = "daemon" /\ Moves(p, "ready")

(* Every step moves one process, in one of these ways.                     *)
LEMMA StepMoves ==
  ASSUME Next
  PROVE  \E p \in Proc : Move(p)
<1> USE DEF Move, Moves, GoTo, Exit, Alive
<1>1. PICK p \in Proc :
        Step(p) \/ CompletesStartup(p) \/ DaemonDies(p) \/ OtherDies(p)
  BY DEF Next
<1>2. CASE StartDetach(p)
  BY <1>2 DEF StartDetach, Forks, ForkChild, ForkError, NextPid,
              Forking, Begets, FailsToFork
<1>3. CASE StartMonitor(p)
  BY <1>3 DEF StartMonitor, Forks, ForkChild, ForkError, NextPid,
              Forking, Begets, FailsToFork
<1>4. CASE Restart(p)
  BY <1>4 DEF Restart, Forks, ForkChild, ForkError, NextPid,
              Forking, Begets, FailsToFork
<1>5. CASE HearsFromChild(p)
  BY <1>5 DEF HearsFromChild, Waiting
<1>6. CASE ChildFailed(p) \/ ChildDied(p)
  BY <1>6 DEF ChildFailed, ChildDied, ChildDiedFirst, Waiting
<1>7. CASE MonitorNotifies(p) \/ CompletesStartup(p)
  BY <1>7 DEF MonitorNotifies, CompletesStartup, NotifyStartup
<1>8. CASE MonitorSeesDeath(p)
  BY <1>8 DEF MonitorSeesDeath, WaitReturns
<1>9. CASE MonitorGuesses(p) \/ DaemonDies(p) \/ OtherDies(p)
  BY <1>9 DEF MonitorGuesses, DaemonDies, OtherDies
<1> QED
  BY <1>1, <1>2, <1>3, <1>4, <1>5, <1>6, <1>7, <1>8, <1>9 DEF Step

-----------------------------------------------------------------------------
(* Types.                                                                  *)

Places == Waiting \cup {"unborn", "dead", "detach", "monitor", "notify",
                        "watch", "stale", "restart", "daemon", "ready"}

(* A move leaves the places and the children typed.                        *)
LEMMA MoveTypes ==
  ASSUME TypeOK, NEW p \in Proc, Move(p)
  PROVE  pc' \in [Proc -> Places] /\ child' \in [Proc -> Proc \cup {NoChild}]
BY DEF Move, Moves, Forking, Begets, FailsToFork, GoTo, TypeOK, Places, Waiting

(* So does an exit what it leaves of the statuses and the pipes.           *)
LEMMA ExitTypes ==
  ASSUME TypeOK, NEW p \in Proc, NEW s \in Deaths, Exit(p, s)
  PROVE  status' \in [Proc -> Deaths] /\ writers' \in [Proc -> SUBSET Proc]
BY DEF Exit, TypeOK

(* So does a fork what it leaves of the pipes.                             *)
LEMMA ForkTypes ==
  ASSUME TypeOK, NEW p \in Proc, NEW wait, NEW role, NEW place,
         Forks(p, wait, role, place)
  PROVE  /\ fd' \in [Proc -> Proc \cup {NoFd}]
         /\ writers' \in [Proc -> SUBSET Proc]
         /\ UNCHANGED <<status, told, reaped, came>>
BY DEF Forks, ForkChild, ForkError, PipeOf, TypeOK

(* So does a report what it leaves of them and of who was told.            *)
LEMMA NotifyTypes ==
  ASSUME TypeOK, NEW p \in Proc, NEW place, NotifyStartup(p, place)
  PROVE  /\ fd' \in [Proc -> Proc \cup {NoFd}]
         /\ told' \in [Proc -> BOOLEAN]
         /\ status' \in [Proc -> Deaths] /\ writers' \in [Proc -> SUBSET Proc]
<1>1. CASE Exit(p, "errorSignal") /\ UNCHANGED <<fd, told>>
  BY <1>1, ExitTypes DEF TypeOK, Deaths
<1>2. CASE /\ told' = [told EXCEPT ![fd[p]] = TRUE]
           /\ writers' = [writers EXCEPT ![fd[p]] = @ \ {p}]
           /\ fd' = [fd EXCEPT ![p] = NoFd]
           /\ UNCHANGED status
  BY <1>2 DEF TypeOK
<1> QED BY <1>1, <1>2 DEF NotifyStartup, TypeOK

(* Every step keeps the types.                                             *)
LEMMA TypeStep == DaemonInv /\ [Next]_vars => TypeOK'
<1> SUFFICES ASSUME DaemonInv, Next PROVE TypeOK'
  BY DEF DaemonInv, TypeOK, vars, IsDaemon
<1>1. TypeOK /\ \A q \in Proc : pc[q] \in Waiting => child[q] \in Proc
  BY DEF DaemonInv, OneChain, Guards, Waiting
<1>2. pc' \in [Proc -> Places] /\ child' \in [Proc -> Proc \cup {NoChild}]
  BY <1>1, StepMoves, MoveTypes
<1> DEFINE Rest == /\ fd' \in [Proc -> Proc \cup {NoFd}]
                   /\ status' \in [Proc -> Deaths]
                   /\ writers' \in [Proc -> SUBSET Proc]
                   /\ told' \in [Proc -> BOOLEAN]
                   /\ reaped' \subseteq Proc /\ came' \subseteq Proc
<1> SUFFICES Rest
  BY <1>2 DEF TypeOK, Places
<1>3. PICK p \in Proc :
        Step(p) \/ CompletesStartup(p) \/ DaemonDies(p) \/ OtherDies(p)
  BY DEF Next
<1>4. CASE StartDetach(p) \/ StartMonitor(p) \/ Restart(p)
  <2>1. \/ \E wait, role, place : Forks(p, wait, role, place)
        \/ UNCHANGED <<fd, status, writers, told, reaped, came>>
    BY <1>4 DEF StartDetach, StartMonitor, Restart
  <2> QED BY <1>1, <2>1, ForkTypes DEF TypeOK
<1>5. CASE MonitorNotifies(p) \/ CompletesStartup(p)
  <2>1. \E place : NotifyStartup(p, place)
    BY <1>5 DEF MonitorNotifies, CompletesStartup
  <2>2. reaped' \subseteq Proc /\ came' \subseteq Proc
    BY <1>1, <1>5 DEF MonitorNotifies, CompletesStartup, TypeOK
  <2> QED BY <1>1, <2>1, <2>2, NotifyTypes
<1>6. CASE HearsFromChild(p) \/ ChildFailed(p) \/ ChildDied(p) \/ MonitorSeesDeath(p)
           \/ MonitorGuesses(p) \/ DaemonDies(p) \/ OtherDies(p)
  <2>1. (\E s \in Deaths : Exit(p, s)) \/ UNCHANGED <<status, writers>>
    BY <1>6, DaemonAssumption
    DEF HearsFromChild, ChildFailed, ChildDied, MonitorSeesDeath, MonitorGuesses,
        DaemonDies, OtherDies, Deaths
  <2>2. UNCHANGED <<fd, told, came>>
    BY <1>6 DEF HearsFromChild, ChildFailed, ChildDied, MonitorSeesDeath,
                MonitorGuesses, DaemonDies, OtherDies
  <2>3. reaped' \subseteq Proc
    BY <1>1, <1>6
    DEF HearsFromChild, ChildFailed, ChildDied, ChildDiedFirst, MonitorSeesDeath,
        WaitReturns, MonitorGuesses, DaemonDies, OtherDies, TypeOK
  <2> QED BY <1>1, <2>1, <2>2, <2>3, ExitTypes DEF TypeOK
<1> QED BY <1>3, <1>4, <1>5, <1>6 DEF Step

-----------------------------------------------------------------------------
(* The chain.                                                              *)

(* Every step keeps the chain: a fork hands the place of the heir on,      *)
(* and a guard becomes an heir only when the process it guards is dead.    *)
LEMMA ChainStep == DaemonInv /\ [Next]_vars => OneChain'
<1> USE DEF Heir, Guards, IsDaemon
<1> SUFFICES ASSUME DaemonInv, Next PROVE OneChain'
  BY DEF DaemonInv, OneChain, vars
<1>1. /\ pc \in [Proc -> Places] /\ child \in [Proc -> Proc \cup {NoChild}]
      /\ OneChain
  BY DEF DaemonInv, TypeOK, Places
<1>2. PICK p \in Proc : Move(p)
  BY StepMoves
<1>3. CASE Alive(p) /\ Moves(p, "dead")
  BY <1>1, <1>3 DEF Alive, Moves, GoTo, OneChain
<1>4. CASE Forking(p, "detach", "detachWait", "monitor", "monitor")
  BY <1>1, <1>4 DEF Forking, Begets, FailsToFork, Moves, GoTo, OneChain
<1>5. CASE Forking(p, "monitor", "monitorWait", "daemon", "daemon")
  BY <1>1, <1>5 DEF Forking, Begets, FailsToFork, Moves, GoTo, OneChain
<1>6. CASE Forking(p, "restart", "restartWait", "daemon", "stale")
  BY <1>1, <1>6 DEF Forking, Begets, FailsToFork, Moves, GoTo, OneChain
<1>7. CASE \/ pc[p] = "monitorWait" /\ Moves(p, "notify")
           \/ pc[p] = "restartWait" /\ Moves(p, "watch")
           \/ pc[p] = "notify" /\ Moves(p, "watch")
  BY <1>1, <1>7 DEF Moves, GoTo, OneChain
<1>8. CASE \/ pc[p] = "restartWait" /\ pc[child[p]] = "dead" /\ Moves(p, "stale")
           \/ pc[p] = "watch" /\ pc[child[p]] = "dead" /\ Moves(p, "restart")
  BY <1>1, <1>8 DEF Moves, GoTo, OneChain
<1>9. CASE \/ pc[p] = "stale" /\ Moves(p, "restart")
           \/ pc[p] = "daemon" /\ Moves(p, "ready")
  BY <1>1, <1>9 DEF Moves, GoTo, OneChain
<1> QED BY <1>2, <1>3, <1>4, <1>5, <1>6, <1>7, <1>8, <1>9 DEF Move

-----------------------------------------------------------------------------
(* Safety.                                                                 *)

(* The starter alone is a chain.                                           *)
LEMMA DaemonInitOK == Init => DaemonInv
<1> SUFFICES ASSUME Init PROVE DaemonInv
  OBVIOUS
<1>1. TypeOK
  BY DaemonAssumption DEF Init, TypeOK, Deaths, Waiting
<1>2. OneChain
  BY DEF Init, OneChain, Heir, Guards
<1> QED BY <1>1, <1>2 DEF DaemonInv

(* The invariant of the processes of daemonize_start.                      *)
THEOREM DaemonInvariance == Spec => []DaemonInv
<1>1. DaemonInv /\ [Next]_vars => DaemonInv'
  BY TypeStep, ChainStep DEF DaemonInv
<1> QED BY <1>1, DaemonInitOK, PTL DEF Spec

(* Every variable keeps its type, and whoever waits waits for a process.   *)
THEOREM DaemonTypeCorrect == Spec => []TypeOK
<1>1. DaemonInv => TypeOK
  BY DEF DaemonInv
<1> QED BY <1>1, DaemonInvariance, PTL

(* daemon-unix.c:428-513: however processes die and forks fail, and with   *)
(* or without a monitor, two daemons never run at the same time.           *)
THEOREM OneDaemonTheorem == Spec => []OneDaemon
<1>1. DaemonInv => OneDaemon
  BY DEF DaemonInv, OneChain, OneDaemon, Heir, IsDaemon
<1> QED BY <1>1, DaemonInvariance, PTL

-----------------------------------------------------------------------------
(* The contract.                                                           *)

(* What the steps need to know of the state.                               *)
LEMMA SaidFacts ==
  ASSUME DaemonInv
  PROVE  /\ pc \in [Proc -> Places] /\ status \in [Proc -> Deaths]
         /\ told \in [Proc -> BOOLEAN] /\ fd \in [Proc -> Proc \cup {NoFd}]
         /\ \A q \in Proc : pc[q] \in Waiting \cup {"watch"} => child[q] \in Proc
         /\ 1 \in Proc
BY DaemonAssumption DEF DaemonInv, TypeOK, Places, OneChain, Guards, Waiting, Proc

(* What is said of the startup stays true.                                 *)
LEMMA SaidStep == Orderly /\ DaemonInv /\ SaidWhenUp /\ [Next]_vars => SaidWhenUp'
<1> USE DEF SaidWhenUp, up, GoTo, Exit
<1> SUFFICES ASSUME Orderly, DaemonInv, SaidWhenUp, Next PROVE SaidWhenUp'
  BY DEF vars
<1>1. /\ pc \in [Proc -> Places] /\ status \in [Proc -> Deaths]
      /\ told \in [Proc -> BOOLEAN] /\ fd \in [Proc -> Proc \cup {NoFd}]
      /\ \A q \in Proc : pc[q] \in Waiting \cup {"watch"} => child[q] \in Proc
      /\ 1 \in Proc
  BY SaidFacts
<1>2. PICK p \in Proc :
        Step(p) \/ CompletesStartup(p) \/ DaemonDies(p) \/ OtherDies(p)
  BY DEF Next
<1>3. CASE StartDetach(p) \/ StartMonitor(p) \/ Restart(p)
  BY <1>1, <1>3 DEF StartDetach, StartMonitor, Restart, Forks, ForkChild, ForkError,
                    NextPid
<1>4. CASE HearsFromChild(p)
  BY <1>1, <1>4 DEF HearsFromChild, Waiting
<1>5. CASE ChildFailed(p) \/ ChildDied(p)
  BY <1>1, <1>5 DEF ChildFailed, ChildDied, ChildDiedFirst, Waiting
<1>6. CASE MonitorNotifies(p)
  BY <1>1, <1>6 DEF MonitorNotifies, NotifyStartup
<1>7. CASE CompletesStartup(p)
  BY <1>1, <1>7 DEF CompletesStartup, NotifyStartup
<1>8. CASE MonitorSeesDeath(p) \/ MonitorGuesses(p)
  BY <1>1, <1>8 DEF MonitorSeesDeath, MonitorGuesses
<1>9. CASE DaemonDies(p) \/ OtherDies(p)
  BY <1>1, <1>9 DEF DaemonDies, OtherDies, Orderly, Alive, IsDaemon
<1> QED BY <1>2, <1>3, <1>4, <1>5, <1>6, <1>7, <1>8, <1>9 DEF Step

(* Who is dead stays dead as it died, a daemon is not forgotten, and the   *)
(* step that completes a startup is not one that ends the starter.         *)
LEMMA AnswerStep ==
  ASSUME DaemonInv, SaidWhenUp, Next
  PROVE  /\ up => up'
         /\ pc[1] = "dead" => pc'[1] = "dead" /\ status'[1] = status[1]
         /\ pc[1] # "dead" /\ pc'[1] = "dead" => UNCHANGED up
<1> USE DEF SaidWhenUp, up, GoTo, Exit
<1>1. /\ pc \in [Proc -> Places] /\ status \in [Proc -> Deaths]
      /\ fd \in [Proc -> Proc \cup {NoFd}] /\ 1 \in Proc
  BY SaidFacts
<1>2. PICK p \in Proc :
        Step(p) \/ CompletesStartup(p) \/ DaemonDies(p) \/ OtherDies(p)
  BY DEF Next
<1>3. CASE StartDetach(p) \/ StartMonitor(p) \/ Restart(p)
  BY <1>1, <1>3 DEF StartDetach, StartMonitor, Restart, Forks, ForkChild, ForkError,
                    NextPid
<1>4. CASE HearsFromChild(p) \/ ChildFailed(p) \/ ChildDied(p)
  BY <1>1, <1>4 DEF HearsFromChild, ChildFailed, ChildDied, ChildDiedFirst, Waiting
<1>5. CASE MonitorNotifies(p)
  BY <1>1, <1>5 DEF MonitorNotifies, NotifyStartup
<1>6. CASE CompletesStartup(p)
  BY <1>1, <1>6 DEF CompletesStartup, NotifyStartup
<1>7. CASE MonitorSeesDeath(p) \/ MonitorGuesses(p)
  BY <1>1, <1>7 DEF MonitorSeesDeath, MonitorGuesses
<1>8. CASE DaemonDies(p) \/ OtherDies(p)
  BY <1>1, <1>8 DEF DaemonDies, OtherDies, Alive, IsDaemon
<1> QED BY <1>2, <1>3, <1>4, <1>5, <1>6, <1>7, <1>8 DEF Step

(* Every step is one of the contract's, or none.                           *)
LEMMA StepRefines ==
  ASSUME DaemonInv, SaidWhenUp, SaidWhenUp', [Next]_vars
  PROVE  [StartContract!ContractNext]_<<answer, up>>
<1> USE DEF StartContract!ContractNext, StartContract!ComesUp,
            StartContract!AnswersOk, StartContract!AnswersFail
<1>1. CASE UNCHANGED vars
  BY <1>1 DEF vars, answer, up
<1>2. CASE Next
  <2>1. /\ up => up'
        /\ pc[1] = "dead" => pc'[1] = "dead" /\ status'[1] = status[1]
        /\ pc[1] # "dead" /\ pc'[1] = "dead" => UNCHANGED up
    BY <1>2, AnswerStep
  <2>2. up \in BOOLEAN /\ up' \in BOOLEAN
    BY DEF up
  <2>3. CASE pc[1] # "dead" /\ pc'[1] = "dead"
    <3>1. status'[1] = "exit0" => up'
      BY <2>3, SaidFacts DEF SaidWhenUp
    <3> QED BY <2>1, <2>3, <3>1 DEF answer
  <2>4. CASE ~(pc[1] # "dead" /\ pc'[1] = "dead")
    <3>1. UNCHANGED answer
      BY <2>1, <2>4 DEF answer
    <3> QED BY <2>1, <2>2, <3>1
  <2> QED BY <2>3, <2>4
<1> QED BY <1>1, <1>2

(* daemon-unix.c:524-528: the process started by the user exits with 0     *)
(* only after a daemon came up, as long as a process that does not come so *)
(* far exits with an error rather than being killed.                       *)
THEOREM ContractTheorem ==
  ASSUME Orderly
  PROVE  Spec => KeepsContract
<1>1. Init => StartContract!ContractInit /\ SaidWhenUp
  BY DaemonAssumption
  DEF Init, StartContract!ContractInit, SaidWhenUp, answer, up, Proc
<1>2. DaemonInv /\ SaidWhenUp /\ [Next]_vars => SaidWhenUp'
  BY SaidStep
<1>3. Spec => [](DaemonInv /\ SaidWhenUp)
  BY <1>1, <1>2, DaemonInvariance, PTL DEF Spec
<1> QED
  BY <1>1, <1>3, StepRefines, PTL DEF Spec, KeepsContract, StartContract!Contract

-----------------------------------------------------------------------------
(* The scanner: its inductive invariant.                                   *)

(* The threads that are not of the scan that is on.                        *)
Rest == running \ Mine

(* tried is a sequence, of whatever pairs the plan had.                    *)
IsList(s) == Len(s) \in Nat /\ s = [i \in 1 .. Len(s) |-> s[i]]

CountsOK ==
  /\ scans \in Nat /\ others \in Nat \ {0} /\ limit \in Nat \ {0}
  /\ threadno \in Nat /\ fallen \in Nat
  /\ IsList(tried)

(* Each thread is of a scan that was begun, and no two are the same thread *)
(* of the same scan.                                                       *)
ThreadsOK ==
  /\ IsFiniteSet(running) /\ running \subseteq [scan : Nat, nth : Nat, said : BOOLEAN]
  /\ \A t \in running :
       /\ t.scan <= scans
       /\ t.scan = scans => t.nth <= Len(tried)
  /\ \A t, u \in running : t.scan = u.scan /\ t.nth = u.nth => t = u

(* fallen says by how much the other threads are fewer than they were when *)
(* the scan began, which is by how many the scan may have more.            *)
BoundOK ==
  /\ threadno <= others + Cardinality(Rest) + fallen
  /\ Cardinality(Mine) <= limit + fallen

ScannerInv == CountsOK /\ ThreadsOK /\ BoundOK

-----------------------------------------------------------------------------
(* Counting.                                                               *)

(* The threads of the scan and the rest make up all threads.               *)
LEMMA MineAndRest ==
  ASSUME IsFiniteSet(running)
  PROVE  /\ IsFiniteSet(Mine) /\ IsFiniteSet(Rest)
         /\ Cardinality(Mine) \in Nat /\ Cardinality(Rest) \in Nat
         /\ Cardinality(running) = Cardinality(Mine) + Cardinality(Rest)
<1>1. Mine \in SUBSET running /\ Rest \in SUBSET running
  BY DEF Mine, Rest
<1>2. IsFiniteSet(Mine) /\ IsFiniteSet(Rest)
  BY <1>1, FS_Subset
<1>3. Mine \cap Rest = {} /\ Mine \cup Rest = running
  BY DEF Mine, Rest
<1>4. Cardinality(Mine) \in Nat /\ Cardinality(Rest) \in Nat
  BY <1>2, FS_CardinalityType
<1>5. Cardinality(Mine \cup Rest)
        = Cardinality(Mine) + Cardinality(Rest) - Cardinality(Mine \cap Rest)
  BY <1>2, FS_Union
<1> QED BY <1>2, <1>3, <1>4, <1>5, FS_EmptySet

(* One element for another.                                                *)
LEMMA SwapElement ==
  ASSUME NEW S, IsFiniteSet(S), NEW x \in S, NEW y, y \notin S \ {x}
  PROVE  Cardinality((S \ {x}) \cup {y}) = Cardinality(S)
<1>1. IsFiniteSet(S \ {x}) /\ Cardinality(S \ {x}) = Cardinality(S) - 1
  BY FS_RemoveElement
<1>2. Cardinality((S \ {x}) \cup {y}) = Cardinality(S \ {x}) + 1
  BY <1>1, FS_AddElement
<1> QED BY <1>1, <1>2, FS_CardinalityType

(* One more pair tried.                                                    *)
LEMMA AppendIsList ==
  ASSUME NEW s, NEW e, IsList(s)
  PROVE  IsList(Append(s, e)) /\ Len(Append(s, e)) = Len(s) + 1
<1> DEFINE n == Len(s)
           S == {s[i] : i \in 1 .. n} \cup {e}
<1>1. n \in Nat /\ s = [i \in 1 .. n |-> s[i]]
  BY DEF IsList
<1>2. s \in Seq(S)
  BY <1>1
<1>3. Append(s, e) \in Seq(S) /\ Len(Append(s, e)) = n + 1
  BY <1>2, AppendProperties
<1>4. Append(s, e) = [i \in 1 .. n + 1 |-> Append(s, e)[i]]
  <2> DEFINE a == Append(s, e)
  <2> HIDE DEF a
  <2>1. a \in [1 .. Len(a) -> S] /\ Len(a) = n + 1
    BY <1>3, LenProperties DEF a
  <2>2. a = [i \in 1 .. n + 1 |-> a[i]]
    BY <2>1
  <2> QED BY <2>2 DEF a
<1> QED BY <1>1, <1>3, <1>4 DEF IsList

-----------------------------------------------------------------------------
(* The steps.                                                              *)

(* Nothing is on when the window opens.                                    *)
LEMMA ScannerInitOK == ScannerInit => ScannerInv
<1> SUFFICES ASSUME ScannerInit PROVE ScannerInv
  OBVIOUS
<1>1. CountsOK
  BY DEF ScannerInit, CountsOK, IsList
<1>2. ThreadsOK
  BY FS_EmptySet DEF ScannerInit, ThreadsOK
<1>3. Mine = {} /\ Rest = {}
  BY DEF ScannerInit, Mine, Rest
<1>4. BoundOK
  BY <1>3, FS_EmptySet DEF ScannerInit, BoundOK
<1> QED BY <1>1, <1>2, <1>4 DEF ScannerInv

(* A new scan has no threads yet, and counts all there are as others.      *)
LEMMA PressOK ==
  ASSUME ScannerInv, NEW r \in Ranges, NEW text \in PortTexts, NEW n \in Threads,
         Press(r, text, n)
  PROVE  ScannerInv'
<1> USE DEF ScannerInv
<1>1. CASE UNCHANGED <<running, others, scans, tried, limit, threadno, fallen>>
  BY <1>1 DEF CountsOK, ThreadsOK, BoundOK, Mine, Rest, IsList
<1>2. CASE /\ UNCHANGED <<running, others>>
           /\ scans' = scans + 1 /\ tried' = <<>> /\ fallen' = 0
           /\ limit' = IF n < 1 THEN 1 ELSE IF n > MaxThreads THEN MaxThreads ELSE n
           /\ threadno' = ActiveCount
  <2>1. Cardinality(running) \in Nat
    BY FS_CardinalityType DEF ThreadsOK
  <2>2. CountsOK'
    <3>1. limit' \in Nat \ {0}
      BY <1>2, ScannerSizes
    <3>2. IsList(tried')
      BY <1>2 DEF IsList
    <3>3. threadno' \in Nat
      BY <1>2, <2>1 DEF ActiveCount, CountsOK
    <3> QED BY <1>2, <3>1, <3>2, <3>3 DEF CountsOK
  <2>3. \A t \in running : t.scan \in Nat /\ t.scan < scans'
    BY <1>2 DEF CountsOK, ThreadsOK
  <2>4. ThreadsOK'
    BY <1>2, <2>2, <2>3 DEF CountsOK, ThreadsOK
  <2>5. Mine' = {} /\ Rest' = running
    BY <1>2, <2>2, <2>3 DEF CountsOK, Mine, Rest
  <2>6. BoundOK'
    BY <1>2, <2>1, <2>2, <2>5, FS_EmptySet DEF CountsOK, BoundOK, ActiveCount
  <2> QED BY <2>2, <2>4, <2>6
<1> QED BY <1>1, <1>2 DEF Press

(* A thread is started only while the count allows it.                     *)
LEMMA StartOK ==
  ASSUME ScannerInv, StartThread
  PROVE  ScannerInv'
<1> USE DEF ScannerInv
<1>0. PICK new : new = [scan |-> scans, nth |-> Len(tried) + 1, said |-> FALSE]
  OBVIOUS
<1>1. /\ running' = running \cup {new} /\ IsList(tried') /\ Len(tried') = Len(tried) + 1
      /\ UNCHANGED <<limit, threadno, others, scans, fallen>>
      /\ Len(tried) \in Nat
  BY <1>0, AppendIsList DEF StartThread, CountsOK, IsList
<1>2. CountsOK'
  BY <1>1 DEF CountsOK
<1>3. ThreadsOK'
  <2>1. IsFiniteSet(running')
    BY <1>1, FS_AddElement DEF ThreadsOK
  <2>2. /\ new \in [scan : Nat, nth : Nat, said : BOOLEAN]
        /\ new.scan = scans /\ new.nth = Len(tried) + 1
    BY <1>0, <1>1 DEF CountsOK
  <2>3. \A t \in running : ~(t.scan = new.scan /\ t.nth = new.nth)
    BY <1>1, <2>2 DEF ThreadsOK
  <2>4. ASSUME NEW t \in running'
        PROVE  /\ t.scan <= scans
               /\ t.scan = scans => t.nth <= Len(tried')
    BY <1>1, <2>2 DEF ThreadsOK, CountsOK
  <2>5. \A t, u \in running' : t.scan = u.scan /\ t.nth = u.nth => t = u
    BY <1>1, <2>3 DEF ThreadsOK
  <2> QED BY <1>1, <2>1, <2>2, <2>4, <2>5 DEF ThreadsOK
<1>4. BoundOK'
  <2>1. Mine' = Mine \cup {new} /\ Rest' = Rest
    <3>1. new.scan = scans
      BY <1>0
    <3> QED BY <1>1, <3>1 DEF Mine, Rest
  <2>2. /\ Cardinality(Mine) \in Nat /\ Cardinality(Rest) \in Nat
        /\ Cardinality(running) = Cardinality(Mine) + Cardinality(Rest)
        /\ IsFiniteSet(Mine)
    BY MineAndRest DEF ThreadsOK
  <2>3. Cardinality(Mine') <= Cardinality(Mine) + 1
    <3>1. Cardinality(Mine \cup {new})
            = IF new \in Mine THEN Cardinality(Mine) ELSE Cardinality(Mine) + 1
      BY <2>2, FS_AddElement
    <3> QED BY <2>1, <2>2, <3>1
  <2>4. others + Cardinality(running) < limit + threadno
    BY DEF StartThread, MayStart, ActiveCount
  <2>5. Cardinality(Mine') \in Nat
    BY <2>1, <2>2, FS_AddElement, FS_CardinalityType
  <2> QED BY <1>1, <2>1, <2>2, <2>3, <2>4, <2>5 DEF BoundOK, CountsOK
<1> QED BY <1>2, <1>3, <1>4

(* A thread that has reported is still the same thread.                    *)
LEMMA ReportsOK ==
  ASSUME ScannerInv, NEW t \in running, Reports(t)
  PROVE  ScannerInv'
<1> USE DEF ScannerInv
<1>0. PICK u : u = [t EXCEPT !.said = TRUE]
  OBVIOUS
<1>1. /\ running' = (running \ {t}) \cup {u}
      /\ UNCHANGED <<limit, threadno, others, scans, tried, fallen>>
  BY <1>0 DEF Reports
<1>2. CountsOK'
  BY <1>1 DEF CountsOK
<1>3. /\ u \in [scan : Nat, nth : Nat, said : BOOLEAN]
      /\ u.scan = t.scan /\ u.nth = t.nth
  BY <1>0 DEF ThreadsOK
<1>4. u \notin running \ {t}
  BY <1>3 DEF ThreadsOK
<1>5. ThreadsOK'
  <2>1. IsFiniteSet(running')
    BY <1>1, FS_AddElement, FS_RemoveElement DEF ThreadsOK
  <2> QED BY <1>1, <1>3, <2>1 DEF ThreadsOK
<1>6. /\ IsFiniteSet(running) /\ IsFiniteSet(Mine) /\ IsFiniteSet(Rest)
      /\ Cardinality(Mine) \in Nat /\ Cardinality(Rest) \in Nat
  BY MineAndRest DEF ThreadsOK
<1>7. Cardinality(Mine') = Cardinality(Mine) /\ Cardinality(Rest') = Cardinality(Rest)
  <2>1. CASE t.scan = scans
    <3>1. Mine' = (Mine \ {t}) \cup {u} /\ Rest' = Rest /\ t \in Mine
      BY <1>1, <1>3, <2>1 DEF Mine, Rest
    <3>2. u \notin Mine \ {t}
      BY <1>4 DEF Mine
    <3> QED BY <1>6, <3>1, <3>2, SwapElement
  <2>2. CASE t.scan # scans
    <3>1. Rest' = (Rest \ {t}) \cup {u} /\ Mine' = Mine /\ t \in Rest
      BY <1>1, <1>3, <2>2 DEF Mine, Rest
    <3>2. u \notin Rest \ {t}
      BY <1>4 DEF Rest
    <3> QED BY <1>6, <3>1, <3>2, SwapElement
  <2> QED BY <2>1, <2>2
<1>8. BoundOK'
  BY <1>1, <1>7 DEF BoundOK
<1> QED BY <1>2, <1>5, <1>8

(* The others fall to n.                                                   *)
LEMMA FallsToOK ==
  ASSUME CountsOK, NEW n \in Nat, FallsTo(n)
  PROVE  fallen' \in Nat /\ fallen' >= fallen /\ threadno <= n + fallen'
  BY DEF CountsOK, FallsTo

(* A thread that ends is one less of the scan, or one less of the rest.    *)
LEMMA ThreadEndsOK ==
  ASSUME ScannerInv, NEW t \in running, ThreadEnds(t)
  PROVE  ScannerInv'
<1> USE DEF ScannerInv
<1>1. /\ running' = running \ {t}
      /\ UNCHANGED <<limit, threadno, others, scans, tried>>
      /\ FallsTo(others + Cardinality(running' \ Mine))
  BY DEF ThreadEnds
<1>2. IsFiniteSet(running')
  BY <1>1, FS_RemoveElement DEF ThreadsOK
<1>3. Rest' = running' \ Mine /\ Mine' \subseteq Mine
  BY <1>1 DEF Mine, Rest
<1>4. /\ Cardinality(Rest') \in Nat /\ Cardinality(Mine') \in Nat
      /\ Cardinality(Mine) \in Nat /\ IsFiniteSet(Mine)
  <2>1. IsFiniteSet(Mine) /\ Cardinality(Mine) \in Nat
    BY MineAndRest DEF ThreadsOK
  <2>2. Rest' \in SUBSET running' /\ Mine' \in SUBSET Mine
    BY <1>3
  <2> QED BY <1>2, <2>1, <2>2, FS_Subset, FS_CardinalityType
<1>5. Cardinality(Mine') <= Cardinality(Mine)
  BY <1>3, <1>4, FS_Subset
<1>6. fallen' \in Nat /\ fallen' >= fallen /\ threadno <= others + Cardinality(Rest') + fallen'
  <2>1. PICK n \in Nat : n = others + Cardinality(Rest')
    BY <1>4 DEF CountsOK
  <2>2. FallsTo(n)
    BY <1>1, <1>3, <2>1
  <2> QED BY <2>1, <2>2, FallsToOK
<1>7. CountsOK'
  BY <1>1, <1>6 DEF CountsOK
<1>8. ThreadsOK'
  BY <1>1, <1>2 DEF ThreadsOK
<1>9. BoundOK'
  BY <1>1, <1>4, <1>5, <1>6 DEF BoundOK, CountsOK
<1> QED BY <1>7, <1>8, <1>9

(* A helper that ends is one less of the rest.                             *)
LEMMA HelperEndsOK ==
  ASSUME ScannerInv, HelperEnds
  PROVE  ScannerInv'
<1> USE DEF ScannerInv
<1>1. /\ others' = others - 1 /\ others' \in Nat \ {0}
      /\ UNCHANGED <<limit, threadno, running, scans, tried>>
      /\ FallsTo(others' + Cardinality(Rest))
  BY DEF HelperEnds, CountsOK, Rest
<1>2. Cardinality(Rest) \in Nat /\ Cardinality(Mine) \in Nat
  BY MineAndRest DEF ThreadsOK
<1>3. fallen' \in Nat /\ fallen' >= fallen /\ threadno <= others' + Cardinality(Rest) + fallen'
  <2>1. PICK n \in Nat : n = others' + Cardinality(Rest)
    BY <1>1, <1>2
  <2>2. FallsTo(n)
    BY <1>1, <2>1
  <2> QED BY <2>1, <2>2, FallsToOK
<1>4. Mine' = Mine /\ Rest' = Rest
  BY <1>1 DEF Mine, Rest
<1>5. CountsOK' /\ ThreadsOK'
  BY <1>1, <1>3 DEF CountsOK, ThreadsOK
<1>6. BoundOK'
  BY <1>1, <1>2, <1>3, <1>4 DEF BoundOK, CountsOK
<1> QED BY <1>5, <1>6

(* Every step of the scanner keeps the invariant.                          *)
LEMMA ScannerStepOK == ScannerInv /\ [ScannerNext]_scanVars => ScannerInv'
<1> SUFFICES ASSUME ScannerInv, [ScannerNext]_scanVars PROVE ScannerInv'
  OBVIOUS
<1>1. CASE UNCHANGED <<running, others, scans, tried, limit, threadno, fallen>>
  BY <1>1 DEF ScannerInv, CountsOK, ThreadsOK, BoundOK, Mine, Rest, IsList
<1>2. CASE HelperStarts
  <2>1. /\ others' = others + 1 /\ UNCHANGED <<running, scans, tried, limit, threadno, fallen>>
        /\ Mine' = Mine /\ Rest' = Rest
    BY <1>2 DEF HelperStarts, Mine, Rest
  <2>2. Cardinality(Rest) \in Nat
    BY MineAndRest DEF ScannerInv, ThreadsOK
  <2> QED BY <2>1, <2>2 DEF ScannerInv, CountsOK, ThreadsOK, BoundOK
<1>3. CASE DoScan
  BY <1>1, <1>3, StartOK DEF DoScan, AllStarted, Finish
<1>4. ASSUME NEW t \in running, Reports(t) \/ SocketError(t) \/ ThreadEnds(t) PROVE ScannerInv'
  BY <1>1, <1>4, ReportsOK, ThreadEndsOK DEF SocketError
<1>5. CASE UNCHANGED scanVars
  BY <1>1, <1>5 DEF scanVars
<1> QED BY <1>2, <1>3, <1>4, <1>5, PressOK, HelperEndsOK DEF ScannerNext

-----------------------------------------------------------------------------
(* The theorems.                                                           *)

(* The counts of the scanner and of the threads agree in every state.      *)
THEOREM ScannerInvariance == ScannerSpec => []ScannerInv
  BY ScannerInitOK, ScannerStepOK, PTL DEF ScannerSpec

(* A scan has more threads than asked for, and ends before some of its     *)
(* threads, only by as many as other threads of the group have ended since *)
(* it began (PortScanner.java:249,261).                                    *)
THEOREM ThreadsAreCountedTheorem == ScannerSpec => ThreadsAreCounted
<1>1. ScannerInv => Cardinality(Mine) <= limit + fallen
  BY DEF ScannerInv, BoundOK
<1>2. ScannerInv /\ [ScannerNext]_scanVars => [Finish => Cardinality(Mine) <= fallen]_scanVars
  <2> SUFFICES ASSUME ScannerInv, Finish PROVE Cardinality(Mine) <= fallen
    OBVIOUS
  <2>1. /\ Cardinality(Mine) \in Nat /\ Cardinality(Rest) \in Nat
        /\ Cardinality(running) = Cardinality(Mine) + Cardinality(Rest)
    BY MineAndRest DEF ScannerInv, ThreadsOK
  <2>2. others + Cardinality(running) <= threadno
    BY DEF Finish, OnlyOldThreads, ActiveCount
  <2> QED BY <2>1, <2>2 DEF ScannerInv, BoundOK, CountsOK
<1> QED BY <1>1, <1>2, ScannerInvariance, PTL DEF ScannerSpec, ThreadsAreCounted
=============================================================================
