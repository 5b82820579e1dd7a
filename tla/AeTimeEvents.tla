---------------------------- MODULE AeTimeEvents ----------------------------
(***************************************************************************)
(* The time-event half of the ae event loop (Clang/aio/ae/ae.c): the       *)
(* unsorted singly linked list of timers, newest first, and the arithmetic *)
(* on their due times.                                                     *)
(*                                                                         *)
(* Time is counted in ticks, TicksPerSec of them to a second: a tick       *)
(* stands for the millisecond of when_ms, so that what the code computes   *)
(* on the seconds alone and on the milliseconds alone is kept apart.       *)
(***************************************************************************)
EXTENDS Integers, Sequences

CONSTANTS
  TicksPerSec,  (* ticks in a second (1000 in the code)                    *)
  MaxClock,     (* bound: the wall clock stops there                       *)
  MaxTimers     (* bound: timers created in a behaviour                    *)

ASSUME TimeAssumption ==
  /\ TicksPerSec \in Nat \ {0}
  /\ MaxClock \in Nat /\ MaxClock >= TicksPerSec
  /\ MaxTimers \in Nat

VARIABLES
  timeEvents,       (* the list from timeEventHead: records [id, when]     *)
  timeEventNextId,
  lastTime,         (* eventLoop->lastTime, in seconds                     *)
  clock,            (* the wall clock (gettimeofday, time)                 *)
  finalized         (* ghost: ids whose finalizer ran and were freed       *)

timeVars == <<timeEvents, timeEventNextId, lastTime, clock, finalized>>

Sec(t) == t \div TicksPerSec
Ms(t)  == t % TicksPerSec

Ids     == {timeEvents[i].id : i \in DOMAIN timeEvents}
Due(te) == clock >= te.when

-----------------------------------------------------------------------------

(* The clock starts at least one second after the epoch.                   *)
TimeInit ==
  /\ timeEvents = <<>>
  /\ timeEventNextId = 0
  /\ clock = TicksPerSec
  /\ lastTime = Sec(clock)
  /\ finalized = {}

PushTimer(te) == timeEvents' = <<te>> \o timeEvents

(* aeCreateTimeEvent: a fresh id, due delay ticks from now, at the head.   *)
aeCreateTimeEvent(delay) ==
  /\ timeEventNextId < MaxTimers
  /\ clock + delay <= MaxClock
  /\ timeEventNextId' = timeEventNextId + 1
  /\ PushTimer([id |-> timeEventNextId, when |-> clock + delay])
  /\ UNCHANGED <<lastTime, clock, finalized>>

\* Mutant: the head is moved to the successor whatever precedes the element.
Unlink_MovesHead(i) == SubSeq(timeEvents, i + 1, Len(timeEvents))

Unlink(i) == SubSeq(timeEvents, 1, i - 1)
             \o SubSeq(timeEvents, i + 1, Len(timeEvents))

(* aeDeleteTimeEvent: the first timer with that id is unlinked, finalized  *)
(* and freed; AE_ERR and no change when there is none.                     *)
aeDeleteTimeEvent(id) ==
  /\ \/ /\ id \notin Ids
        /\ UNCHANGED <<timeEvents, finalized>>
     \/ \E i \in DOMAIN timeEvents :
          /\ timeEvents[i].id = id
          /\ \A k \in 1 .. i - 1 : timeEvents[k].id # id
          /\ timeEvents' = Unlink(i)
          /\ finalized' = finalized \cup {id}
  /\ UNCHANGED <<timeEventNextId, lastTime, clock>>

(* The due time of timer id after its handler returned delay.              *)
Rearm(id, delay) ==
  /\ clock + delay <= MaxClock
  /\ timeEvents' = [i \in DOMAIN timeEvents |->
                      IF timeEvents[i].id = id
                      THEN [timeEvents[i] EXCEPT !.when = clock + delay]
                      ELSE timeEvents[i]]
  /\ UNCHANGED <<timeEventNextId, lastTime, clock, finalized>>

(* aeSearchNearestTimer: any timer with the least due time.                *)
Nearest(te) == \A i \in DOMAIN timeEvents : te.when <= timeEvents[i].when

\* Mutant: a late timer makes the difference of the seconds negative.
TimeToFire_NoClamp(when) ==
  LET carry == IF Ms(when) < Ms(clock) THEN 1 ELSE 0
      sec   == Sec(when) - Sec(clock) - carry
  IN  sec * TicksPerSec + carry * TicksPerSec + Ms(when) - Ms(clock)

(* How long aeProcessEvents means to sleep for a timer due at when: the    *)
(* seconds and the milliseconds are subtracted separately, with a borrow,  *)
(* and only the seconds are clamped at zero.                               *)
TimeToFire(when) ==
  LET carry == IF Ms(when) < Ms(clock) THEN 1 ELSE 0
      sec   == Sec(when) - Sec(clock) - carry
  IN  (IF sec < 0 THEN 0 ELSE sec) * TicksPerSec
      + carry * TicksPerSec + Ms(when) - Ms(clock)

(* processTimeEvents saw a clock whose seconds went backwards.             *)
SkewDetected == Sec(clock) < lastTime

\* Mutant: only the head of the list is made due.
MakeDue_HeadOnly(i) ==
  IF i = 1 THEN [timeEvents[i] EXCEPT !.when = Ms(@)] ELSE timeEvents[i]

(* te->when_sec = 0.                                                       *)
MakeDue(i) == [timeEvents[i] EXCEPT !.when = Ms(@)]

(* The clock-skew check at the top of processTimeEvents: the seconds of    *)
(* every due time become 0, the milliseconds stay.                         *)
CheckClockSkew ==
  /\ timeEvents' = IF SkewDetected
                   THEN [i \in DOMAIN timeEvents |-> MakeDue(i)]
                   ELSE timeEvents
  /\ lastTime' = Sec(clock)
  /\ UNCHANGED <<timeEventNextId, clock, finalized>>

-----------------------------------------------------------------------------

TimeTypeOK ==
  /\ timeEvents \in Seq([id : Nat, when : Nat])
  /\ timeEventNextId \in Nat
  /\ clock \in TicksPerSec .. MaxClock
  /\ lastTime \in Nat
  /\ finalized \in SUBSET Nat

(* ae.c:185-186: pushed at the head with a growing id, so the list is      *)
(* strictly decreasing in id: the walk of processTimeEvents meets the      *)
(* timers created during the pass first, and no id is there twice.         *)
NewestFirst ==
  \A i, j \in DOMAIN timeEvents : i < j => timeEvents[i].id > timeEvents[j].id

(* ae.c:192-212: every timer ever created is either still linked, or was   *)
(* finalized; never both (use after free) and never neither (lost).        *)
NoTimerLost ==
  /\ Ids \cup finalized = 0 .. timeEventNextId - 1
  /\ Ids \cap finalized = {}

TimeInv == TimeTypeOK /\ NewestFirst /\ NoTimerLost
=============================================================================
