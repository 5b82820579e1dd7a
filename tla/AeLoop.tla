------------------------------- MODULE AeLoop -------------------------------
(***************************************************************************)
(* The ae event loop (Clang/aio/ae/ae.c): aeMain and aeProcessEvents over  *)
(* the file events of AeFileEvents and the timers of AeTimeEvents.         *)
(*                                                                         *)
(* The loop is single threaded; what makes it hard is that every handler   *)
(* it calls (file handler, timer handler, beforesleep) may call back into  *)
(* the API and change the tables the loop is walking.  Between the steps   *)
(* of the loop the clock moves, and may be set.                            *)
(*                                                                         *)
(* pc is where the loop is:                                                *)
(*   app    outside, the application runs      poll  blocked in epoll_wait *)
(*   top    at the test of aeMain's while      fired in the loop over fired*)
(*   before in the beforesleep handler         rcb   in a read handler     *)
(*   enter  at the start of aeProcessEvents    wcb   in a write handler    *)
(*   time   walking the timers                 tcb   in a timer handler    *)
(***************************************************************************)
EXTENDS AeFileEvents, AeTimeEvents, SequencesExt

CONSTANTS
  FdArgs,        (* descriptors callers pass, some of them out of range    *)
  Delays,        (* delays callers pass and timer handlers return          *)
  CallFlags,     (* flag sets of direct calls of aeProcessEvents           *)
  HasBeforeSleep,(* whether aeSetBeforeSleepProc was called                *)
  SlowHandlers,  (* whether time passes while handlers run                 *)
  MaxJumps       (* bound: times the wall clock is set                     *)

ASSUME LoopAssumption ==
  /\ FdArgs \subseteq Nat
  /\ Delays \subseteq Nat
  /\ CallFlags \subseteq SUBSET {"FILE", "TIME", "DONT_WAIT"}
  /\ HasBeforeSleep \in BOOLEAN
  /\ SlowHandlers \in BOOLEAN
  /\ MaxJumps \in Nat

VARIABLES
  pc,
  stop,       (* eventLoop->stop                                           *)
  inMain,     (* aeProcessEvents was called by aeMain                      *)
  flags,      (* its argument                                              *)
  timeout,    (* what is left of epoll_wait's timeout; -1 is forever       *)
  fired,      (* entries of eventLoop->fired not handled yet; ghost field: *)
              (* due, the kinds reported and registered at the poll that   *)
              (* nobody deleted and no handler was called for since        *)
  rfired,     (* rfired of the entry at the head                           *)
  te,         (* the timer the walk is at: its position in the list        *)
  running,    (* id of the timer whose handler runs                        *)
  maxId,      (* maxId of processTimeEvents                                *)
  jumps,      (* times the wall clock was set                              *)
  pass        (* ghost: ids linked when the pass began, ids run since,     *)
              (* whether it began with a clock skew                        *)

batchVars == <<flags, inMain, timeout, fired, rfired>>
walkVars  == <<te, running, maxId>>
vars == <<fileVars, timeVars, batchVars, walkVars, pass, pc, stop, jumps>>

AllEvents == {"FILE", "TIME"}
Forever   == -1
NoTimer   == -1
NoPass    == [ids |-> {}, ran |-> {}, skewed |-> FALSE]

Init ==
  /\ FileInit
  /\ TimeInit
  /\ pc = "app" /\ stop = FALSE
  /\ inMain = FALSE /\ flags = {} /\ timeout = 0
  /\ fired = <<>> /\ rfired = FALSE
  /\ te = 0 /\ running = NoTimer /\ maxId = NoTimer
  /\ jumps = 0
  /\ pass = NoPass

-----------------------------------------------------------------------------
(* The API, called by the application or by a handler.                     *)

UserCode == pc \in {"app", "before", "rcb", "wcb", "tcb"}

CreateFileEvent(fd, m, proc, d) ==
  /\ UserCode
  /\ aeCreateFileEvent(fd, m, proc, d)
  /\ UNCHANGED <<timeVars, batchVars, walkVars, pass, pc, stop, jumps>>

DeleteFileEvent(fd, m) ==
  /\ UserCode
  /\ aeDeleteFileEvent(fd, m)
  /\ fired' = [j \in DOMAIN fired |->
                 IF fired[j].fd = fd
                 THEN [fired[j] EXCEPT !.due = @ \ m]
                 ELSE fired[j]]
  /\ UNCHANGED <<timeVars, walkVars, pass, pc, stop, jumps,
                 inMain, flags, timeout, rfired>>

CreateTimeEvent(delay) ==
  /\ UserCode
  /\ aeCreateTimeEvent(delay)
  /\ UNCHANGED <<fileVars, batchVars, walkVars, pass, pc, stop, jumps>>

DeleteTimeEvent(id) ==
  /\ UserCode
  /\ aeDeleteTimeEvent(id)
  /\ UNCHANGED <<fileVars, batchVars, walkVars, pass, pc, stop, jumps>>

aeStop ==
  /\ UserCode
  /\ stop' = TRUE
  /\ UNCHANGED <<fileVars, timeVars, batchVars, walkVars, pass, pc, jumps>>

-----------------------------------------------------------------------------
(* aeMain.                                                                 *)

aeMain ==
  /\ pc = "app"
  /\ pc' = "top" /\ stop' = FALSE /\ inMain' = TRUE
  /\ UNCHANGED <<fileVars, timeVars, walkVars, pass, jumps,
                 flags, timeout, fired, rfired>>

\* Mutant: stop is cleared on every iteration instead of once.
Iterate_ClearsStop ==
  /\ pc = "top"
  /\ pc' = IF HasBeforeSleep THEN "before" ELSE "enter"
  /\ flags' = AllEvents /\ stop' = FALSE
  /\ UNCHANGED <<fileVars, timeVars, walkVars, pass, jumps,
                 inMain, timeout, fired, rfired>>

Iterate ==
  /\ pc = "top" /\ ~stop
  /\ pc' = IF HasBeforeSleep THEN "before" ELSE "enter"
  /\ flags' = AllEvents
  /\ UNCHANGED <<fileVars, timeVars, walkVars, pass, stop, jumps,
                 inMain, timeout, fired, rfired>>

LeaveMain ==
  /\ pc = "top" /\ stop
  /\ pc' = "app" /\ inMain' = FALSE
  /\ UNCHANGED <<fileVars, timeVars, walkVars, pass, stop, jumps,
                 flags, timeout, fired, rfired>>

BeforeSleepReturns ==
  /\ pc = "before"
  /\ pc' = "enter"
  /\ UNCHANGED <<fileVars, timeVars, batchVars, walkVars, pass, stop, jumps>>

(* The application calls aeProcessEvents itself.                           *)
CallProcessEvents(f) ==
  /\ pc = "app"
  /\ pc' = "enter" /\ flags' = f
  /\ UNCHANGED <<fileVars, timeVars, walkVars, pass, stop, jumps,
                 inMain, timeout, fired, rfired>>

(* aeProcessEvents returns to its caller, and its locals are gone.         *)
Return ==
  /\ pc' = IF inMain THEN "top" ELSE "app"
  /\ flags' = {} /\ te' = 0 /\ maxId' = NoTimer /\ pass' = NoPass
  /\ UNCHANGED <<fileVars, timeVars, inMain, timeout, fired, rfired, running,
                 stop, jumps>>

-----------------------------------------------------------------------------
(* aeProcessEvents: the poll.                                              *)

Waits == "TIME" \in flags /\ "DONT_WAIT" \notin flags

(* ae.c:332: also polled without file events, to sleep until a timer.      *)
MustPoll == maxfd # -1 \/ Waits

(* The timeout given to epoll_wait.                                        *)
PollTimeout(t) ==
  IF Waits /\ timeEvents # <<>>
  THEN \E i \in DOMAIN timeEvents :
         Nearest(timeEvents[i]) /\ t = TimeToFire(timeEvents[i].when)
  ELSE t = IF "DONT_WAIT" \in flags THEN 0 ELSE Forever

EnterNothing ==
  /\ pc = "enter" /\ flags \cap AllEvents = {}
  /\ Return

EnterPoll ==
  /\ pc = "enter" /\ flags \cap AllEvents # {} /\ MustPoll
  /\ pc' = "poll"
  /\ \E t \in Forever .. MaxClock : PollTimeout(t) /\ timeout' = t
  /\ UNCHANGED <<fileVars, timeVars, walkVars, pass, stop, jumps,
                 inMain, flags, fired, rfired>>

EnterNoPoll ==
  /\ pc = "enter" /\ flags \cap AllEvents # {} /\ ~MustPoll
  /\ pc' = "fired"
  /\ UNCHANGED <<fileVars, timeVars, batchVars, walkVars, pass, stop, jumps>>

(* What epoll_wait can report of fd: kinds it was asked for, and an error  *)
(* or hangup, which aeApiPoll turns into AE_WRITABLE.                      *)
Reportable(fd) == (SUBSET (interest[fd] \cup {"W"})) \ {{}}

(* aeApiPoll returns events: some watched descriptors, in any order.       *)
PollFires ==
  /\ pc = "poll"
  /\ pc' = "fired"
  /\ \E S \in SUBSET {fd \in Fd : interest[fd] # {}} :
       /\ S # {}
       /\ \E order \in SetToSeqs(S), m \in [S -> SUBSET Kinds] :
            /\ \A fd \in S : m[fd] \in Reportable(fd)
            /\ fired' = [j \in DOMAIN order |->
                           [fd |-> order[j], mask |-> m[order[j]],
                            due |-> m[order[j]] \cap events[order[j]].mask]]
  /\ timeout' = 0
  /\ UNCHANGED <<fileVars, timeVars, walkVars, pass, stop, jumps,
                 inMain, flags, rfired>>

(* ... or none, the timeout having expired ...                             *)
PollTimesOut ==
  /\ pc = "poll" /\ timeout = 0
  /\ pc' = "fired"
  /\ UNCHANGED <<fileVars, timeVars, batchVars, walkVars, pass, stop, jumps>>

(* ... or none, epoll_wait having been interrupted by a signal (EINTR).    *)
PollInterrupted ==
  /\ pc = "poll" /\ timeout # 0
  /\ pc' = "fired" /\ timeout' = 0
  /\ UNCHANGED <<fileVars, timeVars, walkVars, pass, stop, jumps,
                 inMain, flags, fired, rfired>>

-----------------------------------------------------------------------------
(* aeProcessEvents: the loop over fired.  The mask is read again before    *)
(* each of the two handlers of an entry.                                   *)

Entry == Head(fired)
Fe    == events[Entry.fd]

Valid(k) == k \in Fe.mask \cap Entry.mask

ReadDue  == ~rfired /\ Valid("R")
WriteDue == ~ReadDue /\ Valid("W") /\ (~rfired \/ Fe.wfileProc # Fe.rfileProc)

Handed(k) == fired' = [fired EXCEPT ![1].due = @ \ {k}]

CallReadHandler ==
  /\ pc = "fired" /\ fired # <<>> /\ ReadDue
  /\ pc' = "rcb" /\ rfired' = TRUE /\ Handed("R")
  /\ UNCHANGED <<fileVars, timeVars, walkVars, pass, stop, jumps,
                 inMain, flags, timeout>>

ReadHandlerReturns ==
  /\ pc = "rcb"
  /\ pc' = "fired"
  /\ UNCHANGED <<fileVars, timeVars, batchVars, walkVars, pass, stop, jumps>>

CallWriteHandler ==
  /\ pc = "fired" /\ fired # <<>> /\ WriteDue
  /\ pc' = "wcb" /\ Handed("W")
  /\ UNCHANGED <<fileVars, timeVars, walkVars, pass, stop, jumps,
                 inMain, flags, timeout, rfired>>

\* Mutant: rfired is set to 0 once, in front of the loop over the batch.
NextEntry_KeepsRfired ==
  /\ fired' = Tail(fired) /\ rfired' = (rfired /\ fired' # <<>>)
  /\ UNCHANGED <<fileVars, timeVars, walkVars, pass, stop, jumps,
                 inMain, flags, timeout>>

NextEntry ==
  /\ fired' = Tail(fired) /\ rfired' = FALSE
  /\ UNCHANGED <<fileVars, timeVars, walkVars, pass, stop, jumps,
                 inMain, flags, timeout>>

WriteHandlerReturns == pc = "wcb" /\ pc' = "fired" /\ NextEntry

SkipWrite ==
  /\ pc = "fired" /\ fired # <<>> /\ ~ReadDue /\ ~WriteDue
  /\ UNCHANGED pc /\ NextEntry

-----------------------------------------------------------------------------
(* processTimeEvents.                                                      *)

\* Mutant: the id the next timer will get is not excluded.
LastIdOfPass_OffByOne == timeEventNextId

LastIdOfPass == timeEventNextId - 1

BeginTimePass ==
  /\ pc = "fired" /\ fired = <<>> /\ "TIME" \in flags
  /\ pc' = "time"
  /\ CheckClockSkew
  /\ te' = 1 /\ maxId' = LastIdOfPass
  /\ pass' = [ids |-> Ids, ran |-> {}, skewed |-> Sec(clock) < lastTime]
  /\ UNCHANGED <<fileVars, batchVars, running, stop, jumps>>

EndWithoutTimePass ==
  /\ pc = "fired" /\ fired = <<>> /\ "TIME" \notin flags
  /\ Return

\* Mutant: a timer is not run at its due time, only after it.
Runnable_Strict(t) == t.id <= maxId /\ clock > t.when

Runnable(t) == t.id <= maxId /\ Due(t)

SkipTimer ==
  /\ pc = "time" /\ te <= Len(timeEvents) /\ ~Runnable(timeEvents[te])
  /\ te' = te + 1
  /\ UNCHANGED <<fileVars, timeVars, batchVars, pass, pc, stop, jumps,
                 running, maxId>>

CallTimerHandler ==
  /\ pc = "time" /\ te <= Len(timeEvents) /\ Runnable(timeEvents[te])
  /\ pc' = "tcb"
  /\ running' = timeEvents[te].id
  /\ pass' = [pass EXCEPT !.ran = @ \cup {running'}]
  /\ UNCHANGED <<fileVars, timeVars, batchVars, stop, jumps, te, maxId>>

\* Mutant: the walk goes on from where it was.
RestartWalk_NoRestart ==
  /\ pc' = "time" /\ te' = te + 1 /\ running' = NoTimer
  /\ UNCHANGED <<fileVars, batchVars, pass, stop, jumps, maxId>>

(* The walk restarts from the head after every handler.                    *)
RestartWalk ==
  /\ pc' = "time" /\ te' = 1 /\ running' = NoTimer
  /\ UNCHANGED <<fileVars, batchVars, pass, stop, jumps, maxId>>

TimerHandlerReturnsNoMore ==
  /\ pc = "tcb"
  /\ aeDeleteTimeEvent(running)
  /\ RestartWalk

(* A handler that deleted its own timer must return AE_NOMORE: the code    *)
(* writes the new due time through te (ae.c:299).                          *)
TimerHandlerReturns(delay) ==
  /\ pc = "tcb" /\ running \in Ids
  /\ Rearm(running, delay)
  /\ RestartWalk

EndTimePass ==
  /\ pc = "time" /\ te > Len(timeEvents)
  /\ Return

-----------------------------------------------------------------------------
(* The clock.                                                              *)

(* Time passes: in epoll_wait, and while handlers run when they are slow.  *)
(* The wall clock stops at MaxClock; epoll_wait's timeout does not depend  *)
(* on it.                                                                  *)
Tick ==
  /\ pc = "poll" \/ SlowHandlers
  /\ clock' = IF clock < MaxClock THEN clock + 1 ELSE clock
  /\ timeout' = IF pc = "poll" /\ timeout > 0 THEN timeout - 1 ELSE timeout
  /\ UNCHANGED <<fileVars, walkVars, pass, pc, stop, jumps, timeEvents,
                 timeEventNextId, lastTime, finalized, inMain, flags, fired,
                 rfired>>

(* Somebody sets the wall clock.                                           *)
SetClock(t) ==
  /\ jumps < MaxJumps
  /\ pc = "poll" \/ SlowHandlers
  /\ jumps' = jumps + 1
  /\ clock' = t
  /\ UNCHANGED <<fileVars, batchVars, walkVars, pass, pc, stop, timeEvents,
                 timeEventNextId, lastTime, finalized>>

-----------------------------------------------------------------------------

Api ==
  \/ \E fd \in FdArgs, m \in (SUBSET Kinds) \ {{}} :
       \/ \E proc \in Procs, d \in Data : CreateFileEvent(fd, m, proc, d)
       \/ DeleteFileEvent(fd, m)
  \/ \E delay \in Delays : CreateTimeEvent(delay)
  \/ \E id \in 0 .. MaxTimers - 1 : DeleteTimeEvent(id)
  \/ aeStop

Application == aeMain \/ \E f \in CallFlags : CallProcessEvents(f)

HandlerReturns ==
  \/ BeforeSleepReturns
  \/ ReadHandlerReturns
  \/ WriteHandlerReturns
  \/ TimerHandlerReturnsNoMore
  \/ \E delay \in Delays : TimerHandlerReturns(delay)

LoopStep ==
  \/ Iterate \/ LeaveMain
  \/ EnterNothing \/ EnterPoll \/ EnterNoPoll
  \/ CallReadHandler \/ CallWriteHandler \/ SkipWrite
  \/ BeginTimePass \/ EndWithoutTimePass
  \/ SkipTimer \/ CallTimerHandler \/ EndTimePass

Kernel == PollFires \/ PollInterrupted

Next ==
  \/ Api
  \/ Application
  \/ HandlerReturns
  \/ LoopStep
  \/ Kernel
  \/ PollTimesOut
  \/ Tick
  \/ \E t \in TicksPerSec .. MaxClock : SetClock(t)

Spec == Init /\ [][Next]_vars

(* The thread that runs the loop is never preempted for good, a handler    *)
(* returns, epoll_wait honours its timeout and time passes.  Nothing makes *)
(* an event fire, the application start the loop or the clock be set.      *)
Fairness ==
  /\ WF_vars(LoopStep)
  /\ WF_vars(HandlerReturns)
  /\ WF_vars(PollTimesOut)
  /\ WF_vars(Tick)

FairSpec == Spec /\ Fairness

-----------------------------------------------------------------------------

Entries == [fd : Fd, mask : (SUBSET Kinds) \ {{}}, due : SUBSET Kinds]

LoopTypeOK ==
  /\ pc \in {"app", "top", "before", "enter", "poll", "fired", "rcb", "wcb",
             "time", "tcb"}
  /\ stop \in BOOLEAN /\ inMain \in BOOLEAN /\ rfired \in BOOLEAN
  /\ flags \subseteq {"FILE", "TIME", "DONT_WAIT"}
  /\ timeout \in Int
  /\ fired \in Seq(Entries)
  /\ te \in Nat /\ running \in Int /\ maxId \in Int /\ jumps \in Nat
  /\ pass \in [ids : SUBSET Nat, ran : SUBSET Nat, skewed : BOOLEAN]

(* ae.h:61-98: the types of the tables, the timers and the loop's locals.  *)
TypeOK == FileTypeOK /\ TimeTypeOK /\ LoopTypeOK

(* A handler is being called by this step.                                 *)
CallsFileHandler == pc = "fired" /\ pc' \in {"rcb", "wcb"}
KindCalled       == IF pc' = "rcb" THEN "R" ELSE "W"

LeavesBatch == fired # <<>> /\ fired' = Tail(fired)

(* ae.c:371-390: nothing that epoll_wait reported is lost, whatever the    *)
(* handlers of the batch create and delete in between: when the loop goes  *)
(* on to the next entry, each kind reported and registered at the poll was *)
(* handed to a handler or deleted since; only a write that the handler of  *)
(* the read was already called for is left out.                            *)
BatchIsServed ==
  [][LeavesBatch =>
       Entry.due \subseteq IF rfired /\ Fe.wfileProc = Fe.rfileProc
                          THEN {"W"} ELSE {}]_vars

(* ae.c:377-379 says of the mask that is read again "we check if the event *)
(* is still valid": a read is served for the registration it was reported  *)
(* of.                                                                     *)
EventOfThisRegistration ==
  [][CallsFileHandler /\ KindCalled = "R" => "R" \in Entry.due]_vars

(* ae.c:309-310, "Process every pending time event, then every pending     *)
(* file event": no timer is still due when a file handler is called.       *)
TimeEventsFirst ==
  [][CallsFileHandler /\ "TIME" \in flags
       => \A i \in DOMAIN timeEvents : ~Due(timeEvents[i])]_vars

(* ae.c:314-316, "if flags has AE_FILE_EVENTS set, file events are         *)
(* processed": they are not when it has not.                               *)
FileEventsOnlyIfAsked == [][CallsFileHandler => "FILE" \in flags]_vars

(* ae.c:283-287: "we make sure to don't process events registered by event *)
(* handlers itself": a pass runs only timers that were linked when it      *)
(* began, although it restarts from a head that changes under it.          *)
PassRunsOnlyOldTimers == pc = "tcb" => running \in pass.ids

(* What makes it so: ids above maxId are the ones created during the pass. *)
PassInv ==
  /\ pc = "time" => te # 0
  /\ pc \in {"time", "tcb"} =>
       /\ maxId < timeEventNextId
       /\ \A id \in Ids : id <= maxId => id \in pass.ids
  /\ PassRunsOnlyOldTimers

(* The batch: what is due of an entry is still registered, so the test of  *)
(* the mask (ae.c:380, 384) never passes over it; a handler runs while its *)
(* entry is at the head, and rfired tells whether the read was handed out. *)
DueIsRegistered ==
  \A j \in DOMAIN fired :
    fired[j].due \subseteq fired[j].mask \cap events[fired[j].fd].mask

BatchInv ==
  /\ DueIsRegistered
  /\ pc \in {"rcb", "wcb"} => fired # <<>>
  /\ pc \notin {"fired", "rcb", "wcb"} => fired = <<>>
  /\ fired = <<>> => ~rfired
  /\ pc = "rcb" => rfired
  /\ rfired => "R" \notin Entry.due
  /\ pc = "wcb" => Entry.due = {}

(* The inductive invariant.                                                *)
IndInv == FileInv /\ TimeInv /\ LoopTypeOK /\ BatchInv /\ PassInv

EndsPass == pc = "time" /\ pc' # "time" /\ pc' # "tcb"

(* ae.c:256-305: with handlers that take no time, a pass leaves no timer   *)
(* due that existed when it began, whatever its handlers deleted.          *)
PassLeavesNoneDue ==
  [][EndsPass => \A i \in DOMAIN timeEvents :
                   timeEvents[i].id \in pass.ids => ~Due(timeEvents[i])]_vars

(* ae.c:247-261: when a pass sees the clock set back, "all the time events *)
(* [are] processed ASAP": each timer linked at that moment runs in this    *)
(* pass, unless it was deleted.                                            *)
SkewForcesAll ==
  [][EndsPass /\ pass.skewed => pass.ids \subseteq pass.ran \cup finalized]_vars

Late(t) == IF t.when > clock THEN t.when - clock ELSE 0

(* ae.c:311-312, "the function sleeps until some file event fires, or when *)
(* the next time event occurrs": the poll lasts no longer than it takes    *)
(* any timer to be due.                                                    *)
NoOversleep ==
  pc = "poll" /\ Waits =>
    \A i \in DOMAIN timeEvents :
      timeout # Forever /\ timeout <= Late(timeEvents[i])

StartsToWait == pc # "poll" /\ pc' = "poll" /\ Waits'

(* ae.c:340-353: what remains of that when handlers take time and the      *)
(* clock is set: since only the seconds of the difference are clamped at   *)
(* zero, a poll outlasts the due time of a late timer, but not by a whole  *)
(* second.                                                                 *)
OversleepsLessThanASecond ==
  [][StartsToWait =>
       \A i \in DOMAIN timeEvents :
         /\ timeout' # Forever
         /\ timeout' <= Late(timeEvents[i]) \/ timeout' < TicksPerSec]_vars

DueId(id) == \E i \in DOMAIN timeEvents :
               timeEvents[i].id = id /\ Due(timeEvents[i])

(* ae.c:340-395: while aeMain runs, a timer that is due is run or deleted. *)
DueTimerRuns ==
  \A id \in 0 .. MaxTimers - 1 :
    (DueId(id) /\ inMain) ~> (~DueId(id) \/ ~inMain)

(* ae.c:420-427: a handler that calls aeStop during aeProcessEvents makes  *)
(* aeMain return, however many events are pending.                         *)
StopEndsMain == (stop /\ inMain /\ pc \in {"rcb", "wcb", "tcb"}) ~> ~inMain

(* ae.c:283-287, "in order to don't loop forever": a pass over the timers  *)
(* ends.                                                                   *)
PassEnds == pc = "time" ~> pc \notin {"time", "tcb"}
=============================================================================
