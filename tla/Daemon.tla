------------------------------- MODULE Daemon -------------------------------
(***************************************************************************)
(* daemonize_start of Clang/daemon-unix.c: the process started by the user *)
(* forks (--detach), the child forks again (--monitor), and each waits on  *)
(* a pipe for the next to say that it completed its startup; the monitor   *)
(* then restarts the daemon whenever an error signal kills it.             *)
(*                                                                         *)
(* All processes run the same code, so a process is a pid with the place   *)
(* it is at.  A pipe is named by the child that reports on it.  Any        *)
(* process can die at any point, and a pipe is at its end only when every  *)
(* process that inherited its writing end has closed it or died.           *)
(*                                                                         *)
(*   detach, monitor      before the two blocks of daemonize_start         *)
(*   detachWait, monitorWait, restartWait    in fork_and_wait_for_startup  *)
(*   notify     the monitor, about to report to the process that waits     *)
(*   watch      monitor_daemon, in waitpid                                 *)
(*   stale      monitor_daemon, at should_restart without a new status     *)
(*   restart    monitor_daemon, about to fork again                        *)
(*   daemon     returned from daemonize_start, starting up                 *)
(*   ready      after daemonize_complete                                   *)
(***************************************************************************)
EXTENDS Integers, FiniteSets

CONSTANTS
  Detach, Monitor,   (* the options                                        *)
  MaxProcs,          (* bound: processes forked in a behaviour             *)
  StartupDeaths,     (* how a daemon may die before it is ready            *)
  RunDeaths,         (* how it may die afterwards                          *)
  OtherDeaths,       (* how the waiting and watching processes may die     *)
  ForkFails          (* whether fork may return an error                   *)

(* SIGABRT, SIGSEGV, SIGPIPE, ... are error signals, SIGKILL is not.       *)
Deaths == {"exit0", "exitError", "errorSignal", "otherSignal"}

ASSUME DaemonAssumption ==
  /\ Detach \in BOOLEAN /\ Monitor \in BOOLEAN /\ ForkFails \in BOOLEAN
  /\ MaxProcs \in Nat \ {0}
  /\ StartupDeaths \subseteq Deaths /\ RunDeaths \subseteq Deaths
  /\ OtherDeaths \subseteq Deaths

Proc    == 1 .. MaxProcs
NoFd    == 0
NoChild == 0

VARIABLES
  pc,       (* where each process is; "unborn" or "dead" otherwise         *)
  child,    (* the pid its last fork returned                              *)
  fd,       (* daemonize_fd, the pipe it reports on                        *)
  status,   (* how it died                                                 *)
  writers,  (* the processes with the writing end of each pipe open        *)
  told,     (* the pipe holds the byte                                     *)
  reaped,   (* children waitpid returned                                   *)
  came      (* ghost: processes that completed their startup               *)

vars == <<pc, child, fd, status, writers, told, reaped, came>>

Waiting  == {"detachWait", "monitorWait", "restartWait"}
IsDaemon(p) == pc[p] \in {"daemon", "ready"}
Alive(p)    == pc[p] \notin {"unborn", "dead"}

Init ==
  /\ pc = [p \in Proc |-> IF p = 1 THEN "detach" ELSE "unborn"]
  /\ child = [p \in Proc |-> NoChild]
  /\ fd = [p \in Proc |-> NoFd]
  /\ status = [p \in Proc |-> "exit0"]
  /\ writers = [p \in Proc |-> {}]
  /\ told = [p \in Proc |-> FALSE]
  /\ reaped = {} /\ came = {}

-----------------------------------------------------------------------------

GoTo(p, place) == pc' = [pc EXCEPT ![p] = place]

Exit(p, s) ==
  /\ GoTo(p, "dead")
  /\ status' = [status EXCEPT ![p] = s]
  /\ writers' = [c \in Proc |-> writers[c] \ {p}]

NextPid(c) == pc[c] = "unborn" /\ \A q \in 1 .. c - 1 : pc[q] # "unborn"

\* Mutant: the parent does not close the writing end.
PipeOf_BothOpen(p, c) == {p, c}

(* Those who have the writing end of the pipe of c open after p forked.    *)
PipeOf(p, c) == {c}

(* xpipe and fork: the child inherits every writing end its parent has.    *)
ForkChild(p, wait, role) ==
  \E c \in Proc :
    /\ NextPid(c)
    /\ pc' = [pc EXCEPT ![p] = wait, ![c] = role]
    /\ child' = [child EXCEPT ![p] = c]
    /\ fd' = [fd EXCEPT ![c] = c]
    /\ writers' = [q \in Proc |-> IF q = c THEN PipeOf(p, c)
                                  ELSE IF p \in writers[q] THEN writers[q] \cup {c}
                                  ELSE writers[q]]

(* fork failed: xfork_at says so and returns -1, which is taken for        *)
(* neither the parent's nor the child's return value.                      *)
ForkError(p, place) ==
  /\ ForkFails
  /\ GoTo(p, place)
  /\ child' = [child EXCEPT ![p] = NoChild]
  /\ UNCHANGED <<fd, writers>>

Forks(p, wait, role, onError) ==
  /\ ForkChild(p, wait, role) \/ ForkError(p, onError)
  /\ UNCHANGED <<status, told, reaped, came>>

StartDetach(p) ==
  /\ pc[p] = "detach"
  /\ \/ Detach /\ Forks(p, "detachWait", "monitor", "monitor")
     \/ /\ ~Detach /\ GoTo(p, "monitor")
        /\ UNCHANGED <<child, fd, status, writers, told, reaped, came>>

StartMonitor(p) ==
  /\ pc[p] = "monitor"
  /\ \/ Monitor /\ Forks(p, "monitorWait", "daemon", "daemon")
     \/ /\ ~Monitor /\ GoTo(p, "daemon")
        /\ UNCHANGED <<child, fd, status, writers, told, reaped, came>>

(* The parent read the byte.                                               *)
HearsFromChild(p) ==
  /\ pc[p] \in Waiting /\ told[child[p]]
  /\ \/ /\ pc[p] = "detachWait" /\ Exit(p, "exit0")
     \/ /\ pc[p] = "monitorWait" /\ GoTo(p, "notify")
        /\ UNCHANGED <<status, writers>>
     \/ /\ pc[p] = "restartWait" /\ GoTo(p, "watch")
        /\ UNCHANGED <<status, writers>>
  /\ UNCHANGED <<child, fd, told, reaped, came>>

\* Mutant: a read that a signal interrupts is taken for the end of the pipe.
ChildDiedFirst_Interrupted(p) ==
  /\ pc[p] \in Waiting
  /\ ~told[child[p]]
  /\ reaped' = reaped \cup {child[p]}

(* read_fully met the end of the pipe and waitpid returned the child.      *)
ChildDiedFirst(p) ==
  /\ pc[p] \in Waiting
  /\ ~told[child[p]] /\ writers[child[p]] = {} /\ pc[child[p]] = "dead"
  /\ reaped' = reaped \cup {child[p]}

\* Mutant: the child's exit status is not passed on.
ChildFailed_Ignored(p) ==
  /\ ChildDiedFirst(p) /\ status[child[p]] = "exitError"
  /\ Exit(p, "exit0")
  /\ UNCHANGED <<child, fd, told, came>>

(* It exited with an error: so does the parent.                            *)
ChildFailed(p) ==
  /\ ChildDiedFirst(p) /\ status[child[p]] = "exitError"
  /\ Exit(p, "exitError")
  /\ UNCHANGED <<child, fd, told, came>>

(* It died otherwise: fork_and_wait_for_startup returns -1, which the two  *)
(* callers in daemonize_start do nothing about.                            *)
ChildDied(p) ==
  /\ ChildDiedFirst(p) /\ status[child[p]] # "exitError"
  /\ \/ pc[p] = "detachWait" /\ Exit(p, "exit0")
     \/ pc[p] = "monitorWait" /\ GoTo(p, "notify") /\ UNCHANGED <<status, writers>>
     \/ pc[p] = "restartWait" /\ GoTo(p, "stale") /\ UNCHANGED <<status, writers>>
  /\ UNCHANGED <<child, fd, told, came>>

Reader(c) == {q \in Proc : pc[q] \in Waiting /\ child[q] = c}

(* fork_notify_startup: a pipe nobody reads raises SIGPIPE.                *)
NotifyStartup(p, place) ==
  \/ /\ fd[p] = NoFd
     /\ GoTo(p, place)
     /\ UNCHANGED <<fd, status, writers, told>>
  \/ /\ fd[p] # NoFd /\ Reader(fd[p]) # {}
     /\ GoTo(p, place)
     /\ told' = [told EXCEPT ![fd[p]] = TRUE]
     /\ writers' = [writers EXCEPT ![fd[p]] = @ \ {p}]
     /\ fd' = [fd EXCEPT ![p] = NoFd]
     /\ UNCHANGED status
  \/ /\ fd[p] # NoFd /\ Reader(fd[p]) = {}
     /\ Exit(p, "errorSignal")
     /\ UNCHANGED <<fd, told>>

(* The monitor passes on that the daemon is up.                            *)
MonitorNotifies(p) ==
  /\ pc[p] = "notify"
  /\ NotifyStartup(p, "watch")
  /\ UNCHANGED <<child, reaped, came>>

(* daemonize_complete, called by the daemon.                               *)
CompletesStartup(p) ==
  /\ pc[p] = "daemon"
  /\ NotifyStartup(p, "ready")
  /\ came' = came \cup {p}
  /\ UNCHANGED <<child, reaped>>

(* waitpid returns the child, dead and not reaped yet; for one that was    *)
(* reaped during its startup it fails at every turn of the loop.           *)
WaitReturns(p) == child[p] \in Proc \ reaped /\ pc[child[p]] = "dead"

\* Mutant: the daemon is restarted when it was killed on purpose.
ShouldRestart_Killed(s) == s = "otherSignal"

ShouldRestart(s) == s = "errorSignal"

MonitorSeesDeath(p) ==
  /\ pc[p] = "watch" /\ WaitReturns(p)
  /\ reaped' = reaped \cup {child[p]}
  /\ IF ShouldRestart(status[child[p]])
     THEN GoTo(p, "restart") /\ UNCHANGED <<status, writers>>
     ELSE Exit(p, "exit0")
  /\ UNCHANGED <<child, fd, told, came>>

(* The status variable of this turn of the loop was never assigned.        *)
MonitorGuesses(p) ==
  /\ pc[p] = "stale"
  /\ \/ GoTo(p, "restart") /\ UNCHANGED <<status, writers>>
     \/ Exit(p, "exit0")
  /\ UNCHANGED <<child, fd, told, reaped, came>>

(* After the throttling sleep.  When fork fails, waitpid(-1) fails too,    *)
(* and its -1 equals the pid that the loop compares it with.               *)
Restart(p) == pc[p] = "restart" /\ Forks(p, "restartWait", "daemon", "stale")

-----------------------------------------------------------------------------

DaemonDies(p) ==
  /\ \/ pc[p] = "daemon" /\ \E s \in StartupDeaths : Exit(p, s)
     \/ pc[p] = "ready" /\ \E s \in RunDeaths : Exit(p, s)
  /\ UNCHANGED <<child, fd, told, reaped, came>>

OtherDies(p) ==
  /\ Alive(p) /\ ~IsDaemon(p)
  /\ \E s \in OtherDeaths : Exit(p, s)
  /\ UNCHANGED <<child, fd, told, reaped, came>>

Step(p) ==
  \/ StartDetach(p) \/ StartMonitor(p)
  \/ HearsFromChild(p) \/ ChildFailed(p) \/ ChildDied(p)
  \/ MonitorNotifies(p) \/ MonitorSeesDeath(p) \/ MonitorGuesses(p)
  \/ Restart(p)

Next == \E p \in Proc :
          Step(p) \/ CompletesStartup(p) \/ DaemonDies(p) \/ OtherDies(p)

Spec == Init /\ [][Next]_vars

(* Processes are scheduled, and a daemon completes its startup unless it   *)
(* dies first; nothing makes a process die.                                *)
Fairness == \A p \in Proc : WF_vars(Step(p)) /\ WF_vars(CompletesStartup(p))

FairSpec == Spec /\ Fairness

-----------------------------------------------------------------------------

TypeOK ==
  /\ pc \in [Proc -> Waiting \cup {"unborn", "dead", "detach", "monitor", "notify",
                                  "watch", "stale", "restart", "daemon", "ready"}]
  /\ child \in [Proc -> Proc \cup {NoChild}]
  /\ fd \in [Proc -> Proc \cup {NoFd}]
  /\ status \in [Proc -> Deaths]
  /\ writers \in [Proc -> SUBSET Proc]
  /\ told \in [Proc -> BOOLEAN]
  /\ reaped \subseteq Proc /\ came \subseteq Proc

(* daemon-unix.c:428-513: however processes die, the monitor included, two *)
(* daemons never run at the same time.                                     *)
OneDaemon == \A p, q \in Proc : IsDaemon(p) /\ IsDaemon(q) => p = q

(* daemon-unix.c:524-528: the process started by the user exits with 0     *)
(* only after a daemon came up.                                            *)
answer == IF pc[1] # "dead" THEN "waiting"
          ELSE IF status[1] = "exit0" THEN "ok" ELSE "failed"
up     == came # {}

StartContract == INSTANCE StartupContract
KeepsContract == StartContract!Contract

(* daemon-unix.c:525-528, "The parent process hangs around until the child *)
(* lets it know" that it is up or that it failed: it does not hang for     *)
(* ever.                                                                   *)
StarterIsAnswered == pc[1] = "detachWait" ~> pc[1] = "dead"

Unborn == {q \in Proc : pc[q] = "unborn"}

(* daemon-unix.c:38-40: "restart it if it dies due to an error signal": a  *)
(* daemon killed by one while its monitor is there is replaced.            *)
CrashedDaemonReplaced ==
  \A c \in Proc :
    (pc[c] = "dead" /\ status[c] = "errorSignal"
       /\ \E m \in Proc : child[m] = c /\ pc[m] \in {"watch", "monitorWait", "restartWait"})
    ~> Unborn = {} \/ \E q \in Proc \ Unborn : q > c
=============================================================================
