------------------------------ MODULE Reactor -------------------------------
(***************************************************************************)
(* cpp/epoll: LTReactor::Run, the TCP server and its connections           *)
(* (tcpeventhandler.cpp), a FIFO as in test.cpp, and timers whose          *)
(* OnTimeOut calls the timer functions as it likes.                        *)
(*                                                                         *)
(*   app      before Run                                                   *)
(*   wait     epoll_wait                                                   *)
(*   batch    before the next event of the batch                           *)
(*   read, write, err   the three tests on the event of pBase              *)
(*   scan     ScanTimer, before it looks at the heap                       *)
(*   fire     in its loop over the timers of one time                      *)
(*   timeout  in OnTimeOut                                                 *)
(*   done     Run returned                                                 *)
(*   killed   by SIGPIPE, or by what the deleted handler became            *)
(***************************************************************************)
EXTENDS HandlerSet, Integers

CONSTANTS
  Conns,         (* connections, one handler object each                   *)
  Timers,        (* TimerEventHanderBase objects                           *)
  FdLimit,       (* descriptors of the process                             *)
  Msecs,         (* arguments of RegisterTimer                             *)
  MsPerSec, UsPerMs,     (* scale: 1000 and 1000                           *)
  MaxClock,      (* bound: the clock, in microseconds                      *)
  MaxHeap,       (* size of the heap, 10000                                *)
  MaxEntries,    (* bound: entries of the multimap                         *)
  Restarting,    (* timers that are registered with restart, too           *)
  HeapMayFill,   (* whether the heap may become full                       *)
  Reregisters,   (* whether a timer is registered while it is registered   *)
  ResetFrom      (* where a peer may be when it resets the connection      *)

ASSUME ReactorAssumption ==
  /\ FdLimit \in Nat \ {0, 1} /\ MaxClock \in Nat /\ MaxHeap \in Nat \ {0}
  /\ MaxEntries \in Nat /\ Msecs \subseteq Nat
  /\ MsPerSec \in Nat \ {0} /\ UsPerMs \in Nat \ {0}
  /\ Restarting \subseteq Timers /\ Reregisters \in BOOLEAN /\ HeapMayFill \in BOOLEAN
  /\ ResetFrom \subseteq {"open", "data", "closed"}
  /\ Conns \cap {"server", "fifo", "listen", "free", "null"} = {}

VARIABLES
  pc,
  reg, tm,      (* m_handlerSet and the epoll set: see HandlerSet          *)
  batch,        (* the events epoll_wait returned that are still unserved  *)
  pBase,        (* the handler of the first of them                        *)
  sock,         (* what each descriptor is: "free", "listen", "fifo" or a  *)
                (* connection                                              *)
  peer,         (* each connection: "out", "pending", "open", "data",      *)
                (* "closed", "reset" or "finreset" (closed, then reset)    *)
  deleted,      (* handler objects deleted                                 *)
  endtime, interval, restart,    (* the members of each timer              *)
  clock,
  minTime,      (* ScanTimer's minTime                                     *)
  running, stoptime              (* m_bRunning, m_stoptime                 *)

fdVars    == <<reg, batch, pBase, sock, peer, deleted>>
timerVars == <<tm, endtime, interval, restart, minTime>>
stopVars  == <<running, stoptime>>
vars      == <<pc, fdVars, timerVars, stopVars, clock>>

ListenFd == 0
FifoFd   == 1
AllFds   == 0 .. FdLimit - 1
Null     == [fd |-> ListenFd, handler |-> "null"]
NoTime   == 0
Never    == MaxClock + 1

(* OnListen registered the listening socket, the FIFO is open.             *)
Init ==
  /\ pc = "app"
  /\ reg = RegisterEvent(NoHandlers, "server", ListenFd, "IN")
  /\ tm = NoTimers /\ batch = <<>> /\ pBase = Null
  /\ sock = [fd \in AllFds |-> CASE fd = ListenFd -> "listen"
                                 [] fd = FifoFd -> "fifo" [] OTHER -> "free"]
  /\ peer = [c \in Conns |-> "out"]
  /\ deleted = {}
  /\ endtime = [t \in Timers |-> NoTime] /\ interval = [t \in Timers |-> NoTime]
  /\ restart = [t \in Timers |-> FALSE]
  /\ clock = 1 /\ minTime = NoTime
  /\ running = TRUE /\ stoptime = NoTime

GoTo(place) == pc' = place
FdOf(c)     == {fd \in AllFds : sock[fd] = c}

-----------------------------------------------------------------------------
(* The peers.  What they did is seen by epoll_wait and by read only: they  *)
(* act before those.                                                       *)

PeerStep(c, from, to) ==
  /\ pc \in {"wait", "read"}
  /\ peer[c] \in from /\ peer' = [peer EXCEPT ![c] = to]
  /\ UNCHANGED <<pc, reg, batch, pBase, sock, deleted, timerVars, stopVars, clock>>

Peers == \E c \in Conns : \/ PeerStep(c, {"out"}, "pending")
                          \/ PeerStep(c, {"open"}, "data")
                          \/ PeerStep(c, {"open"}, "closed")
                          \/ PeerStep(c, ResetFrom \ {"closed"}, "reset")
                          \/ PeerStep(c, ResetFrom \cap {"closed"}, "finreset")

Tick == /\ pc = "wait" /\ clock < MaxClock
        /\ clock' = clock + 1
        /\ UNCHANGED <<pc, fdVars, timerVars, stopVars>>

-----------------------------------------------------------------------------
(* What the program calls before Run and in OnTimeOut.                     *)

InUserCode == pc \in {"app", "timeout"}

Registered(t) == \E i \in DOMAIN tm.map : tm.map[i].who = t

(* The entry ScanTimer's iterator is at: the first one of its time.        *)
Beg == LeastOf({i \in DOMAIN tm.map : tm.map[i].key = minTime})
Firing == tm.map[Beg].who

(* Registered apart from the entry that fires and is erased next.          *)
Pending(t) ==
  \E i \in DOMAIN tm.map : tm.map[i].who = t /\ ~(pc = "timeout" /\ i = Beg)

AddTimer(t, key) ==
  /\ Len(tm.map) < MaxEntries /\ (HeapMayFill \/ ~IsFull(tm.heap, MaxHeap))
  /\ tm' = AddTimerEventHandler(tm, t, key, MaxHeap)
  /\ endtime' = [endtime EXCEPT ![t] = key]

(* timeradd of the interval: its microseconds are the milliseconds over.   *)
Interval(msec) == (msec \div MsPerSec) * MsPerSec * UsPerMs + (msec % MsPerSec)

RegisterTimer(t, msec, again) ==
  /\ InUserCode /\ (Reregisters \/ ~Pending(t))
  /\ restart' = [restart EXCEPT ![t] = again]
  /\ interval' = [interval EXCEPT ![t] = Interval(msec)]
  /\ AddTimer(t, clock + Interval(msec))
  /\ UNCHANGED <<pc, fdVars, stopVars, clock, minTime>>

RegisterTimerAgain(t) ==
  /\ InUserCode /\ (Reregisters \/ ~Pending(t))
  /\ endtime[t] # NoTime /\ interval[t] # NoTime
  /\ AddTimer(t, clock + interval[t])
  /\ UNCHANGED <<pc, fdVars, stopVars, clock, minTime, restart, interval>>

(* A timer that erases the entry it is called for invalidates ScanTimer's  *)
(* iterator: the timers here do not.                                       *)
UnRegisterTimer(t) ==
  /\ InUserCode
  /\ pc = "timeout" => ~(t = Firing /\ endtime[t] = minTime)
  /\ tm' = DelTimerEventHandler(tm, t, endtime[t])
  /\ UNCHANGED <<pc, fdVars, stopVars, clock, endtime, interval, restart, minTime>>

(* The FIFO is registered before it is used; a failure is returned.        *)
RegisterFifo(type) ==
  /\ InUserCode
  /\ reg' = RegisterEvent(reg, "fifo", FifoFd, type)
  /\ UNCHANGED <<pc, batch, pBase, sock, peer, deleted, timerVars, stopVars, clock>>

(* The seconds of val are not initialised.                                 *)
Stop ==
  /\ pc = "timeout" /\ running
  /\ running' = FALSE
  /\ stoptime' \in {clock, Never}
  /\ UNCHANGED <<pc, fdVars, timerVars, clock>>

UserCode ==
  \/ \E t \in Timers :
       \/ \E m \in Msecs, again \in BOOLEAN :
            (again => t \in Restarting) /\ RegisterTimer(t, m, again)
       \/ RegisterTimerAgain(t)
       \/ UnRegisterTimer(t)
  \/ \E type \in {"IN", "OUT"} : RegisterFifo(type)
  \/ Stop

-----------------------------------------------------------------------------
(* The handlers.                                                           *)

LowestFree == {fd \in AllFds : sock[fd] = "free" /\ \A g \in 0 .. fd - 1 : sock[g] # "free"}

(* TcpServerEventHandler::OnFDRead and OnAccept.                           *)
Accepts(c) ==
  \E fd \in LowestFree :
    /\ peer[c] = "pending"
    /\ reg' = RegisterEvent(reg, c, fd, "IN")
    /\ sock' = [sock EXCEPT ![fd] = c]
    /\ peer' = [peer EXCEPT ![c] = "open"]
    /\ UNCHANGED deleted

AcceptFails ==
  /\ LowestFree = {} \/ \A c \in Conns : peer[c] # "pending"
  /\ UNCHANGED <<reg, sock, peer, deleted>>

\* Mutant: the descriptor is closed, its handler stays in the set.
CloseConn_NoUnRegister(c) ==
  \E fd \in FdOf(c) :
    /\ reg' = CloseFd(reg, fd)
    /\ sock' = [sock EXCEPT ![fd] = "free"]
    /\ deleted' = deleted \cup {c}
    /\ UNCHANGED peer

(* TcpSocketHandler::Close: delete this is its last act.                   *)
CloseConn(c) ==
  \E fd \in FdOf(c) :
    /\ reg' = CloseFd(UnRegisterBoth(reg, fd), fd)
    /\ sock' = [sock EXCEPT ![fd] = "free"]
    /\ deleted' = deleted \cup {c}
    /\ UNCHANGED peer

(* The echo decoder of tcp_test.cpp.                                       *)
OnProcess(c) ==
  /\ reg' = UnRegisterEvent(RegisterEvent(reg, c, pBase.fd, "OUT"), pBase.fd, "OUT")
  /\ peer' = [peer EXCEPT ![c] = IF @ = "data" THEN "open" ELSE @]
  /\ UNCHANGED <<sock, deleted>>

(* TcpSocketHandler::OnFDRead: read returns 0 after the peer's FIN, and -1 *)
(* after a reset alone.                                                    *)
ConnRead(c) == IF peer[c] \in {"closed", "finreset"} THEN CloseConn(c) ELSE OnProcess(c)

FifoDone(type) ==
  /\ reg' = UnRegisterEvent(reg, FifoFd, type)
  /\ UNCHANGED <<sock, peer, deleted>>

OnFDRead(h) ==
  \/ h = "server" /\ ((\E c \in Conns : Accepts(c)) \/ AcceptFails)
  \/ h = "fifo" /\ FifoDone("IN")
  \/ h \in Conns /\ ConnRead(h)

OnFDWrite(h) == h = "fifo" /\ FifoDone("OUT")

-----------------------------------------------------------------------------
(* LTReactor::Run.  The FIFO is empty or full as it likes.                 *)

Run == /\ pc = "app" /\ GoTo("wait")
       /\ UNCHANGED <<fdVars, timerVars, stopVars, clock>>

Ready(fd, fifo) ==
  CASE sock[fd] = "listen" -> {k \in {"IN"} : \E c \in Conns : peer[c] = "pending"}
    [] sock[fd] = "fifo"   -> fifo
    [] sock[fd] \in Conns  ->
         {k \in {"IN", "OUT", "ERR"} :
            \/ k = "OUT"
            \/ k = "IN" /\ peer[sock[fd]] \in {"data", "closed", "reset", "finreset"}
            \/ k = "ERR" /\ peer[sock[fd]] \in {"reset", "finreset"}}
    [] OTHER -> {}

(* Errors are reported whether asked for or not.                           *)
Reported(fd, fifo) == Ready(fd, fifo) \cap (reg.epoll[fd] \cup {"ERR"})

StopsNow == ~running /\ clock > stoptime

(* epoll_wait is level triggered: it returns all there is, in some order.  *)
EpollReturns ==
  /\ pc = "wait" /\ ~StopsNow
  /\ \E fifo \in SUBSET {"IN", "OUT"} :
       \E fds \in SetToSeqs({fd \in DOMAIN reg.epoll : Reported(fd, fifo) # {}}) :
         batch' = [i \in DOMAIN fds |-> [fd |-> fds[i], mask |-> Reported(fds[i], fifo)]]
  /\ GoTo("batch")
  /\ UNCHANGED <<reg, pBase, sock, peer, deleted, timerVars, stopVars, clock>>

RunReturns ==
  /\ pc = "wait" /\ StopsNow
  /\ GoTo("done")
  /\ UNCHANGED <<fdVars, timerVars, stopVars, clock>>

Event == Head(batch)

FindHandler ==
  /\ pc = "batch" /\ batch # <<>>
  /\ IF Has(reg.map, Event.fd)
     THEN /\ GoTo("read") /\ UNCHANGED batch
          /\ pBase' = [fd |-> Event.fd, handler |-> reg.map[Event.fd].handler]
     ELSE /\ batch' = Tail(batch) /\ UNCHANGED <<pc, pBase>>
  /\ UNCHANGED <<reg, sock, peer, deleted, timerVars, stopVars, clock>>

(* The decoder writes to a connection that was reset: SIGPIPE.  One that   *)
(* ignores what is no data goes on.                                        *)
WriteKills ==
  /\ pc = "read" /\ "IN" \in Event.mask
  /\ pBase.handler \in Conns /\ peer[pBase.handler] = "reset"
  /\ GoTo("killed")
  /\ UNCHANGED <<fdVars, timerVars, stopVars, clock>>

(* OnFDRead, and the same pBase is used for the tests that follow.         *)
ServeRead ==
  /\ pc = "read" /\ GoTo("write")
  /\ IF "IN" \in Event.mask THEN OnFDRead(pBase.handler)
     ELSE UNCHANGED <<reg, sock, peer, deleted>>
  /\ UNCHANGED <<batch, pBase, timerVars, stopVars, clock>>

ServeWrite ==
  /\ pc = "write" /\ GoTo("err")
  /\ IF "OUT" \in Event.mask THEN OnFDWrite(pBase.handler)
     ELSE UNCHANGED <<reg, sock, peer, deleted>>
  /\ UNCHANGED <<batch, pBase, timerVars, stopVars, clock>>

(* Close of a deleted handler is undefined: it may kill the process, or go *)
(* on, where the descriptor is closed and unknown already (ServeError).    *)
DeletedKills ==
  /\ pc = "err" /\ "ERR" \in Event.mask /\ pBase.handler \in deleted
  /\ GoTo("killed")
  /\ UNCHANGED <<fdVars, timerVars, stopVars, clock>>

ServeError ==
  /\ pc = "err" /\ GoTo("batch")
  /\ IF "ERR" \in Event.mask /\ pBase.handler \notin deleted
     THEN CloseConn(pBase.handler)
     ELSE UNCHANGED <<reg, sock, peer, deleted>>
  /\ batch' = Tail(batch) /\ pBase' = Null
  /\ UNCHANGED <<timerVars, stopVars, clock>>

EndBatch ==
  /\ pc = "batch" /\ batch = <<>> /\ GoTo("scan")
  /\ UNCHANGED <<fdVars, timerVars, stopVars, clock>>

-----------------------------------------------------------------------------
(* EventHanderSet::ScanTimer.                                              *)

\* Mutant: a time is due only when it has passed.
HeadIsDue_Strict == tm.heap # <<>> /\ clock > GetMin(tm.heap)

HeadIsDue == tm.heap # <<>> /\ clock >= GetMin(tm.heap)

TakeMinTime ==
  /\ pc = "scan" /\ HeadIsDue
  /\ minTime' = GetMin(tm.heap)
  /\ tm' = [tm EXCEPT !.heap = RemoveMin(@)]
  /\ GoTo("fire")
  /\ UNCHANGED <<fdVars, endtime, interval, restart, stopVars, clock>>

EndScan ==
  /\ pc = "scan" /\ ~HeadIsDue /\ GoTo("wait")
  /\ UNCHANGED <<fdVars, timerVars, stopVars, clock>>

TimersAtMin == {i \in DOMAIN tm.map : tm.map[i].key = minTime}

CallOnTimeOut ==
  /\ pc = "fire" /\ TimersAtMin # {} /\ GoTo("timeout")
  /\ UNCHANGED <<fdVars, timerVars, stopVars, clock>>

(* A restarted timer is added under the end time it has, then the entry it *)
(* fired for is erased.                                                    *)
OnTimeOutReturns ==
  /\ pc = "timeout" /\ GoTo("fire")
  /\ LET added == IF restart[Firing]
                  THEN AddTimerEventHandler(tm, Firing, endtime[Firing], MaxHeap)
                  ELSE tm
     IN  tm' = [added EXCEPT !.map = RemoveAt(@, Beg)]
  /\ UNCHANGED <<fdVars, endtime, interval, restart, minTime, stopVars, clock>>

\* Mutant: ScanTimer looks at one time only.
NextTime_Once ==
  /\ pc = "fire" /\ TimersAtMin = {} /\ GoTo("wait")
  /\ minTime' = NoTime
  /\ UNCHANGED <<fdVars, tm, endtime, interval, restart, stopVars, clock>>

NextTime ==
  /\ pc = "fire" /\ TimersAtMin = {} /\ GoTo("scan")
  /\ minTime' = NoTime
  /\ UNCHANGED <<fdVars, tm, endtime, interval, restart, stopVars, clock>>

-----------------------------------------------------------------------------

Loop == \/ EpollReturns \/ RunReturns
        \/ FindHandler \/ ServeRead \/ WriteKills \/ ServeWrite \/ ServeError \/ DeletedKills
        \/ EndBatch
        \/ TakeMinTime \/ EndScan \/ CallOnTimeOut \/ OnTimeOutReturns \/ NextTime

Next == Peers \/ Tick \/ UserCode \/ Run \/ Loop

Spec == Init /\ [][Next]_vars

(* The thread of Run is scheduled, handlers return and time passes.        *)
Fairness == WF_vars(Loop) /\ WF_vars(Tick)

FairSpec == Spec /\ Fairness

-----------------------------------------------------------------------------

Entries == [key : Nat, who : Timers]
Handlers == Conns \cup {"server", "fifo"}

TypeOK ==
  /\ pc \in {"app", "wait", "batch", "read", "write", "err", "scan", "fire",
             "timeout", "done", "killed"}
  /\ DOMAIN reg.map \subseteq AllFds /\ DOMAIN reg.epoll \subseteq AllFds
  /\ \A fd \in DOMAIN reg.map : reg.map[fd].handler \in Handlers
  /\ tm.heap \in Seq(Nat) /\ Len(tm.heap) <= MaxHeap
  /\ tm.map \in Seq(Entries)
  /\ \A i, j \in DOMAIN tm.map : i < j => tm.map[i].key <= tm.map[j].key
  /\ endtime \in [Timers -> Nat] /\ interval \in [Timers -> Nat]
  /\ deleted \subseteq Conns /\ clock \in Nat /\ stoptime \in Nat

(* reactor.cpp:108-193: m_fdmap, from which the reactor chooses between    *)
(* ADD, MOD and DEL and computes the events, says what epoll was asked for;*)
(* what it does not know, epoll was asked nothing of.                      *)
MapIsInterest ==
  /\ \A fd \in DOMAIN reg.epoll : reg.epoll[fd] = TypeOf(reg, fd)
  /\ \A fd \in DOMAIN reg.map : reg.map[fd].type # {} /\ Has(reg.epoll, fd)

(* tcp_test.cpp:4: descriptors are reused, so that the handlers of a       *)
(* closed one must leave the set: a handler found is the one of the socket *)
(* its descriptor is now, and was not deleted.                             *)
HandlersAreAlive ==
  \A fd \in DOMAIN reg.map :
    LET h == reg.map[fd].handler
    IN  h \notin deleted /\ sock[fd] = CASE h = "server" -> "listen"
                                        [] h = "fifo" -> "fifo" [] OTHER -> h

(* reactor.cpp:66-82: pBase is used for three tests in a row, though the   *)
(* first handler called may have deleted it.                               *)
NoUseAfterDelete ==
  \/ pc = "write" /\ "OUT" \in Event.mask
  \/ pc = "err" /\ "ERR" \in Event.mask
  => pBase.handler \notin deleted

(* reactor.cpp:66-82: whatever was closed and accepted since epoll         *)
(* reported them, a write goes to a handler that is there, and an error    *)
(* closes the connection that had it.  The handler may be gone only if the *)
(* peer had ended its stream before it reset the connection: the read that *)
(* comes first then closes what the error closes again.                    *)
ServesItsOwn ==
  /\ pc = "write" /\ "OUT" \in Event.mask => pBase.handler \notin deleted
  /\ pc = "err" /\ "ERR" \in Event.mask =>
       \/ pBase.handler \in deleted /\ peer[pBase.handler] = "finreset"
       \/ sock[Event.fd] = pBase.handler /\ peer[pBase.handler] \in {"reset", "finreset"}

(* reactor.cpp:66-82, tcp_test.cpp:4: though descriptors are reused, no    *)
(* handler in the set is deleted or of another socket, nor one that the    *)
(* loop asks, but for the error after the end of a stream.                 *)
NoStaleHandler == HandlersAreAlive /\ ServesItsOwn

(* reactor.cpp:356-415: ScanTimer looks at the heap only: a timer whose    *)
(* time is not there, nor being served, would never fire.                  *)
TimesAreInHeap ==
  \A i \in DOMAIN tm.map : \/ \E k \in DOMAIN tm.heap : tm.heap[k] = tm.map[i].key
                           \/ pc \in {"fire", "timeout"} /\ tm.map[i].key = minTime

(* reactor.cpp:379-415: whatever OnTimeOut registered and unregistered, no *)
(* timer is due any more when ScanTimer returns.                           *)
ScanLeavesNoneDue ==
  [][pc \notin {"app", "wait"} /\ pc' = "wait" => \A i \in DOMAIN tm.map : tm.map[i].key > clock]_vars

(* reactor.cpp:364-377: a timer that was unregistered does not fire again, *)
(* if it was registered one registration at a time and without restart.    *)
UnRegisterIsFinal ==
  [][\A t \in Timers : UnRegisterTimer(t) /\ ~restart[t] => ~Pending(t)']_vars

(* reactor.cpp:379-415: a scan calls whoever is due and nobody who is not  *)
(* registered any more.                                                    *)
ScanIsExact == ScanLeavesNoneDue /\ UnRegisterIsFinal

DueTimer(t) == \E i \in DOMAIN tm.map : tm.map[i].who = t /\ tm.map[i].key <= clock

(* reactor.cpp:37-87: a timer that is due is called or unregistered, while *)
(* Run runs and no timer asks to be restarted.                             *)
DueTimersFire ==
  \A t \in Timers :
    DueTimer(t) /\ pc # "app"
      ~> ~DueTimer(t) \/ pc \in {"done", "killed"} \/ \E u \in Timers : restart[u]
=============================================================================
