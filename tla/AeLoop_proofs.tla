---------------------------- MODULE AeLoop_proofs ---------------------------
(***************************************************************************)
(* Theorems about AeLoop, for every value of its constants.                *)
(***************************************************************************)
EXTENDS AeLoop, SequenceTheorems, FiniteSetTheorems, TLAPS

-----------------------------------------------------------------------------
(* The file-event table.                                                   *)

(* What holds of the table whatever becomes of the epoll set: a user that  *)
(* closes a registered descriptor takes it out of the set behind the       *)
(* loop's back.                                                            *)
TableInv == FileTypeOK /\ MaxfdIsHighest /\ HandlersAssigned

(* The table as aeCreateEventLoop leaves it satisfies the invariant.       *)
LEMMA FileInitOK == FileInit => TableInv /\ InterestIsMask
  BY FileAssumption
  DEF FileInit, TableInv, FileTypeOK, aeFileEvent, MaxfdIsHighest, Registered,
      InterestIsMask, HandlersAssigned, Fd, Kinds

(* aeCreateFileEvent keeps the invariant: the merged mask reaches the      *)
(* kernel and maxfd is raised.                                             *)
LEMMA CreateFileOK ==
  ASSUME TableInv, NEW fd \in Nat, NEW m \in (SUBSET Kinds) \ {{}},
         NEW proc \in Procs, NEW d \in Data, aeCreateFileEvent(fd, m, proc, d)
  PROVE  TableInv' /\ (InterestIsMask => InterestIsMask')
<1>1. CASE UNCHANGED fileVars
  BY <1>1 DEF fileVars, TableInv, FileTypeOK, MaxfdIsHighest, Registered,
              InterestIsMask, HandlersAssigned
<1>2. CASE /\ fd \in Fd
           /\ aeApiAddEvent(fd, m)
           /\ events' = [events EXCEPT ![fd] =
                [mask       |-> @.mask \cup m,
                 rfileProc  |-> IF "R" \in m THEN proc ELSE @.rfileProc,
                 wfileProc  |-> IF "W" \in m THEN proc ELSE @.wfileProc,
                 clientData |-> d]]
           /\ maxfd' = IF fd > maxfd THEN fd ELSE maxfd
  <2> USE <1>2 DEF TableInv
  <2>1. FileTypeOK'
    BY DEF FileTypeOK, aeFileEvent, aeApiAddEvent, EpollCtl, Fd
  <2>2. MaxfdIsHighest'
    BY FileAssumption DEF FileTypeOK, aeFileEvent, MaxfdIsHighest, Registered, Fd
  <2>3. InterestIsMask => InterestIsMask'
    BY DEF FileTypeOK, aeFileEvent, InterestIsMask, aeApiAddEvent, EpollCtl
  <2>4. HandlersAssigned'
    BY DEF FileTypeOK, aeFileEvent, HandlersAssigned, Kinds
  <2> QED BY <2>1, <2>2, <2>3, <2>4
<1> QED BY <1>1, <1>2 DEF aeCreateFileEvent

(* aeDeleteFileEvent keeps it: the scan stops at the next registered       *)
(* descriptor below, and the kernel is told of what is left.               *)
LEMMA DeleteFileOK ==
  ASSUME TableInv, NEW fd \in Nat, NEW m \in SUBSET Kinds, aeDeleteFileEvent(fd, m)
  PROVE  TableInv' /\ (InterestIsMask => InterestIsMask')
<1>1. CASE UNCHANGED fileVars
  BY <1>1 DEF fileVars, TableInv, FileTypeOK, MaxfdIsHighest, Registered,
              InterestIsMask, HandlersAssigned
<1> DEFINE left == events[fd].mask \ m
<1>2. CASE /\ fd \in Fd
           /\ events' = [events EXCEPT ![fd].mask = left]
           /\ UpdateMaxfd(fd, left)
           /\ aeApiDelEvent(fd, left)
  <2> USE <1>2 DEF TableInv
  <2>1. FileTypeOK'
    <3>1. left \in SUBSET Kinds
      BY DEF FileTypeOK, aeFileEvent
    <3>2. (events \in [Fd -> aeFileEvent])'
      BY <3>1 DEF FileTypeOK, aeFileEvent
    <3>3. (maxfd \in Fd \cup {-1})'
      <4>1. CASE UNCHANGED maxfd
        BY <4>1 DEF FileTypeOK
      <4>2. CASE \E j \in -1 .. maxfd - 1 : maxfd' = j
        BY <4>2, FileAssumption DEF FileTypeOK, Fd
      <4> QED BY <4>1, <4>2 DEF UpdateMaxfd
    <3>4. (interest \in [Fd -> SUBSET Kinds])'
      BY <3>1 DEF FileTypeOK, aeApiDelEvent
    <3> QED BY <3>2, <3>3, <3>4 DEF FileTypeOK
  <2>2. MaxfdIsHighest'
    <3>1. CASE fd = maxfd /\ left = {}
      <4>1. PICK j \in -1 .. maxfd - 1 :
                   /\ j # -1 => Registered(j)
                   /\ \A k \in j + 1 .. maxfd - 1 : ~Registered(k)
                   /\ maxfd' = j
        BY <3>1 DEF UpdateMaxfd
      <4>2. j = -1 \/ Registered(j)'
        BY <4>1, <3>1, FileAssumption DEF Registered, FileTypeOK, Fd
      <4>3. ASSUME NEW k \in Fd, Registered(k)' PROVE k <= j
        <5>1. k # fd
          BY <4>3, <3>1 DEF Registered, FileTypeOK, aeFileEvent
        <5>2. Registered(k)
          BY <4>3, <5>1 DEF Registered, FileTypeOK
        <5>3. k <= maxfd - 1
          BY <5>1, <5>2, <3>1 DEF MaxfdIsHighest, FileTypeOK, Fd
        <5> QED BY <5>2, <5>3, <4>1 DEF FileTypeOK, Fd
      <4> QED BY <4>1, <4>2, <4>3 DEF MaxfdIsHighest, Registered
    <3>2. CASE ~(fd = maxfd /\ left = {})
      <4>1. UNCHANGED maxfd
        BY <3>2 DEF UpdateMaxfd
      <4> QED BY <4>1, <3>2 DEF MaxfdIsHighest, Registered, FileTypeOK, aeFileEvent
    <3> QED BY <3>1, <3>2
  <2>3. InterestIsMask => InterestIsMask'
    BY DEF FileTypeOK, aeFileEvent, InterestIsMask, aeApiDelEvent
  <2>4. HandlersAssigned'
    BY DEF FileTypeOK, aeFileEvent, HandlersAssigned, Kinds
  <2> QED BY <2>1, <2>2, <2>3, <2>4
<1> QED BY <1>1, <1>2 DEF aeDeleteFileEvent

-----------------------------------------------------------------------------
(* The timers.                                                             *)

Timer == [id : Nat, when : Nat]

(* Seconds and milliseconds of a reading are naturals.                     *)
LEMMA SplitTime ==
  ASSUME NEW t \in Nat
  PROVE  Sec(t) \in Nat /\ Ms(t) \in Nat
  BY TimeAssumption DEF Sec, Ms

(* No timer, no id used.                                                   *)
LEMMA TimeInitOK == TimeInit => TimeInv
<1> SUFFICES ASSUME TimeInit PROVE TimeInv
  OBVIOUS
<1>1. TimeTypeOK
  BY SplitTime, TimeAssumption DEF TimeInit, TimeTypeOK
<1>2. NewestFirst /\ NoTimerLost
  BY DEF TimeInit, NewestFirst, NoTimerLost, Ids
<1> QED BY <1>1, <1>2 DEF TimeInv

(* Putting a timer at the head shifts the others by one.                   *)
LEMMA PushShape ==
  ASSUME NEW s \in Seq(Timer), NEW t \in Timer
  PROVE  /\ <<t>> \o s \in Seq(Timer)
         /\ Len(<<t>> \o s) = Len(s) + 1
         /\ (<<t>> \o s)[1] = t
         /\ \A i \in 2 .. Len(s) + 1 : (<<t>> \o s)[i] = s[i - 1]
  OBVIOUS

(* Unlinking the i-th timer closes the gap.                                *)
LEMMA UnlinkShape ==
  ASSUME timeEvents \in Seq(Timer), NEW i \in DOMAIN timeEvents
  PROVE  /\ Unlink(i) \in Seq(Timer)
         /\ Len(Unlink(i)) = Len(timeEvents) - 1
         /\ \A k \in 1 .. Len(timeEvents) - 1 :
              Unlink(i)[k] = IF k < i THEN timeEvents[k] ELSE timeEvents[k + 1]
<1> DEFINE a == SubSeq(timeEvents, 1, i - 1)
           b == SubSeq(timeEvents, i + 1, Len(timeEvents))
<1>1. i \in 1 .. Len(timeEvents) /\ Len(timeEvents) \in Nat
  OBVIOUS
<1>2. /\ a \in Seq(Timer) /\ Len(a) = i - 1
      /\ \A k \in 1 .. i - 1 : a[k] = timeEvents[k]
  BY <1>1, SubSeqProperties
<1>3. /\ b \in Seq(Timer) /\ Len(b) = Len(timeEvents) - i
      /\ \A k \in 1 .. Len(timeEvents) - i : b[k] = timeEvents[i + k]
  BY <1>1, SubSeqProperties
<1> HIDE DEF a, b
<1>4. /\ a \o b \in Seq(Timer)
      /\ Len(a \o b) = Len(timeEvents) - 1
      /\ \A k \in 1 .. Len(timeEvents) - 1 :
           (a \o b)[k] = IF k < i THEN timeEvents[k] ELSE timeEvents[k + 1]
  BY <1>1, <1>2, <1>3
<1> QED BY <1>4 DEF Unlink, a, b

(* The ids of the list, with their positions.                              *)
IdAt == [i \in DOMAIN timeEvents |-> timeEvents[i].id]

Descending(f) == \A i, j \in DOMAIN f : i < j => f[i] > f[j]
Values(f)     == {f[i] : i \in DOMAIN f}

(* What the type invariant says of positions and ids.                      *)
ListOfIds ==
  /\ timeEvents \in Seq(Timer)
  /\ Len(timeEvents) \in Nat
  /\ DOMAIN timeEvents = 1 .. Len(timeEvents)
  /\ IdAt \in [1 .. Len(timeEvents) -> Nat]
  /\ \A i \in 1 .. Len(timeEvents) : IdAt[i] = timeEvents[i].id
  /\ Ids = Values(IdAt)
  /\ NewestFirst <=> Descending(IdAt)

(* The list is a sequence of timers and IdAt describes it.                 *)
LEMMA IdAtType == TimeTypeOK => ListOfIds
<1> SUFFICES ASSUME TimeTypeOK PROVE ListOfIds
  OBVIOUS
<1>1. timeEvents \in Seq(Timer) /\ Len(timeEvents) \in Nat
  BY DEF TimeTypeOK, Timer
<1>2. DOMAIN timeEvents = 1 .. Len(timeEvents)
  BY <1>1
<1>3. \A i \in 1 .. Len(timeEvents) : timeEvents[i].id \in Nat
  <2>1. \A i \in 1 .. Len(timeEvents) : timeEvents[i] \in Timer
    BY <1>1, ElementOfSeq
  <2> QED BY <2>1 DEF Timer
<1>4. /\ IdAt \in [1 .. Len(timeEvents) -> Nat]
      /\ \A i \in 1 .. Len(timeEvents) : IdAt[i] = timeEvents[i].id
  BY <1>2, <1>3 DEF IdAt
<1>5. Ids = Values(IdAt)
  BY DEF Ids, Values, IdAt
<1>6. NewestFirst <=> Descending(IdAt)
  BY DEF NewestFirst, Descending, IdAt
<1> QED BY <1>1, <1>2, <1>4, <1>5, <1>6 DEF ListOfIds

(* g is the descending f, of length n, with a larger id put in front.      *)
Pushed(n, f, g, id) ==
  /\ n \in Nat /\ id \in Nat
  /\ f \in [1 .. n -> Nat] /\ g \in [1 .. n + 1 -> Nat]
  /\ Descending(f) /\ \A x \in Values(f) : x < id
  /\ g[1] = id
  /\ \A i \in 2 .. n + 1 : g[i] = f[i - 1]

(* g is the descending f, of length n, without its value at position i.    *)
Unlinked(n, f, g, i) ==
  /\ n \in Nat /\ i \in 1 .. n
  /\ f \in [1 .. n -> Nat] /\ g \in [1 .. n - 1 -> Nat]
  /\ Descending(f)
  /\ \A k \in 1 .. n - 1 : g[k] = IF k < i THEN f[k] ELSE f[k + 1]

(* A larger value put in front keeps a descending function descending.     *)
LEMMA PushDescending ==
  ASSUME NEW n, NEW f, NEW g, NEW id, Pushed(n, f, g, id)
  PROVE  Descending(g) /\ Values(g) = Values(f) \cup {id}
<1> USE DEF Pushed
<1>1. \A i \in 1 .. n : f[i] < id
  BY DEF Values
<1>2. Descending(g)
  <2> SUFFICES ASSUME NEW i \in 1 .. n + 1, NEW j \in 1 .. n + 1, i < j
               PROVE  g[i] > g[j]
    BY DEF Descending
  <2>1. j - 1 \in 1 .. n /\ g[j] = f[j - 1]
    OBVIOUS
  <2>2. CASE i = 1
    BY <2>1, <2>2, <1>1
  <2>3. CASE i # 1
    <3>1. i - 1 \in 1 .. n /\ g[i] = f[i - 1] /\ i - 1 < j - 1
      BY <2>3
    <3> QED BY <3>1, <2>1 DEF Descending
  <2> QED BY <2>2, <2>3
<1>3. ASSUME NEW i \in 1 .. n + 1 PROVE g[i] \in Values(f) \cup {id}
  <2>1. i # 1 => i - 1 \in 1 .. n /\ g[i] = f[i - 1]
    OBVIOUS
  <2> QED BY <2>1 DEF Values
<1>4. ASSUME NEW i \in 1 .. n PROVE f[i] \in Values(g)
  <2>1. i + 1 \in 1 .. n + 1 /\ g[i + 1] = f[i]
    OBVIOUS
  <2> QED BY <2>1 DEF Values
<1>5. id \in Values(g)
  <2>1. 1 \in 1 .. n + 1
    OBVIOUS
  <2> QED BY <2>1 DEF Values
<1> QED BY <1>2, <1>3, <1>4, <1>5 DEF Values

(* Taking the value at position i out of a descending function.            *)
LEMMA UnlinkDescending ==
  ASSUME NEW n, NEW f, NEW g, NEW i, Unlinked(n, f, g, i)
  PROVE  Descending(g) /\ Values(g) = Values(f) \ {f[i]}
<1> USE DEF Unlinked
<1>1. Descending(g)
  <2> SUFFICES ASSUME NEW j \in 1 .. n - 1, NEW k \in 1 .. n - 1, j < k
               PROVE  g[j] > g[k]
    BY DEF Descending
  <2> DEFINE up(x) == IF x < i THEN x ELSE x + 1
  <2>1. up(j) \in 1 .. n /\ up(k) \in 1 .. n /\ up(j) < up(k)
    OBVIOUS
  <2>2. g[j] = f[up(j)] /\ g[k] = f[up(k)]
    OBVIOUS
  <2> HIDE DEF up
  <2> QED BY <2>1, <2>2 DEF Descending
<1>2. \A k \in 1 .. n : k # i => f[k] # f[i]
  BY DEF Descending
<1>3. ASSUME NEW k \in 1 .. n - 1 PROVE g[k] \in Values(f) /\ g[k] # f[i]
  <2>1. CASE k < i
    <3>1. k \in 1 .. n /\ g[k] = f[k]
      BY <2>1
    <3> QED BY <2>1, <3>1, <1>2 DEF Values
  <2>2. CASE ~(k < i)
    <3>1. k + 1 \in 1 .. n /\ k + 1 # i /\ g[k] = f[k + 1]
      BY <2>2
    <3> QED BY <3>1, <1>2 DEF Values
  <2> QED BY <2>1, <2>2
<1>4. ASSUME NEW k \in 1 .. n, f[k] # f[i] PROVE f[k] \in Values(g)
  <2>1. CASE k < i
    <3>1. k \in 1 .. n - 1 /\ g[k] = f[k]
      BY <2>1
    <3> QED BY <3>1 DEF Values
  <2>2. CASE ~(k < i)
    <3>1. k # i
      BY <1>4
    <3>2. k - 1 \in 1 .. n - 1 /\ g[k - 1] = f[k]
      BY <2>2, <3>1
    <3> QED BY <3>2 DEF Values
  <2> QED BY <2>1, <2>2
<1> QED BY <1>1, <1>3, <1>4 DEF Values

(* aeCreateTimeEvent: the fresh id is above all others and goes first.     *)
LEMMA CreateTimeOK ==
  ASSUME TimeInv, NEW delay \in Nat, aeCreateTimeEvent(delay)
  PROVE  TimeInv' /\ Ids' = Ids \cup {timeEventNextId}
<1> DEFINE n == Len(timeEvents)
           t == [id |-> timeEventNextId, when |-> clock + delay]
<1>1. /\ clock \in Nat /\ t \in Timer /\ timeEventNextId \in Nat
      /\ UNCHANGED <<lastTime, clock, finalized>>
  BY TimeAssumption DEF TimeInv, TimeTypeOK, Timer, aeCreateTimeEvent
<1>2. timeEvents' = <<t>> \o timeEvents /\ timeEventNextId' = timeEventNextId + 1
  BY DEF aeCreateTimeEvent, PushTimer
<1>3. /\ timeEvents \in Seq(Timer) /\ n \in Nat
      /\ IdAt \in [1 .. n -> Nat] /\ Ids = Values(IdAt) /\ Descending(IdAt)
      /\ \A i \in 1 .. n : IdAt[i] = timeEvents[i].id
  BY IdAtType DEF TimeInv, ListOfIds
<1>4. /\ timeEvents' \in Seq(Timer)
      /\ Len(timeEvents') = n + 1
      /\ timeEvents'[1] = t
      /\ \A i \in 2 .. n + 1 : timeEvents'[i] = timeEvents[i - 1]
  <2> HIDE DEF t
  <2> QED BY <1>1, <1>2, <1>3, PushShape
<1>5. TimeTypeOK'
  BY <1>1, <1>2, <1>4 DEF TimeInv, TimeTypeOK, Timer
<1>6. /\ IdAt' \in [1 .. n + 1 -> Nat] /\ Ids' = Values(IdAt')
      /\ NewestFirst' <=> Descending(IdAt')
      /\ \A i \in 1 .. n + 1 : IdAt'[i] = timeEvents'[i].id
  <2>1. ListOfIds'
    BY <1>5, IdAtType, PTL
  <2> QED BY <2>1, <1>4 DEF ListOfIds
<1>7. IdAt'[1] = timeEventNextId
  <2>1. 1 \in 1 .. n + 1
    BY <1>3
  <2>2. IdAt'[1] = timeEvents'[1].id
    BY <2>1, <1>6
  <2> QED BY <2>2, <1>4
<1>8. ASSUME NEW i \in 2 .. n + 1 PROVE IdAt'[i] = IdAt[i - 1]
  <2>1. i \in 1 .. n + 1 /\ i - 1 \in 1 .. n
    BY <1>3
  <2>2. IdAt'[i] = timeEvents'[i].id /\ IdAt[i - 1] = timeEvents[i - 1].id
    BY <2>1, <1>3, <1>6
  <2> QED BY <2>2, <1>4
<1>9. Descending(IdAt') /\ Values(IdAt') = Values(IdAt) \cup {timeEventNextId}
  <2>1. \A x \in Values(IdAt) : x < timeEventNextId
    BY <1>1, <1>3 DEF TimeInv, NoTimerLost
  <2>2. Pushed(n, IdAt, IdAt', timeEventNextId)
    BY <1>1, <1>3, <1>6, <1>7, <1>8, <2>1 DEF Pushed
  <2> QED BY <2>2, PushDescending
<1>10. NoTimerLost'
  BY <1>1, <1>2, <1>3, <1>6, <1>9 DEF TimeInv, NoTimerLost
<1> QED BY <1>3, <1>5, <1>6, <1>9, <1>10 DEF TimeInv

(* aeDeleteTimeEvent: the unlinked id moves from the list to finalized.    *)
LEMMA DeleteTimeOK ==
  ASSUME TimeInv, NEW id \in Int, aeDeleteTimeEvent(id)
  PROVE  TimeInv' /\ Ids' = Ids \ {id}
<1>1. CASE UNCHANGED timeVars /\ id \notin Ids
  BY <1>1 DEF timeVars, TimeInv, TimeTypeOK, NewestFirst, NoTimerLost, Ids
<1>2. CASE \E i \in DOMAIN timeEvents :
             /\ timeEvents[i].id = id
             /\ timeEvents' = Unlink(i)
             /\ finalized' = finalized \cup {id}
             /\ UNCHANGED <<timeEventNextId, lastTime, clock>>
  <2>1. PICK i \in DOMAIN timeEvents :
               /\ timeEvents[i].id = id
               /\ timeEvents' = Unlink(i)
               /\ finalized' = finalized \cup {id}
               /\ UNCHANGED <<timeEventNextId, lastTime, clock>>
    BY <1>2
  <2> DEFINE n == Len(timeEvents)
  <2>2. /\ timeEvents \in Seq(Timer) /\ n \in Nat /\ i \in 1 .. n
        /\ IdAt \in [1 .. n -> Nat] /\ Ids = Values(IdAt) /\ Descending(IdAt)
        /\ \A k \in 1 .. n : IdAt[k] = timeEvents[k].id
    BY <2>1, IdAtType DEF TimeInv, ListOfIds
  <2>3. /\ timeEvents' \in Seq(Timer)
        /\ Len(timeEvents') = n - 1
        /\ \A k \in 1 .. n - 1 :
             timeEvents'[k] = IF k < i THEN timeEvents[k] ELSE timeEvents[k + 1]
    BY <2>1, <2>2, UnlinkShape
  <2>4. IdAt[i] = id /\ id \in Ids /\ id \in Nat
    BY <2>1, <2>2 DEF Values
  <2>5. TimeTypeOK'
    BY <2>1, <2>3, <2>4 DEF TimeInv, TimeTypeOK, Timer
  <2>6. /\ IdAt' \in [1 .. n - 1 -> Nat] /\ Ids' = Values(IdAt')
        /\ NewestFirst' <=> Descending(IdAt')
        /\ \A k \in 1 .. n - 1 : IdAt'[k] = timeEvents'[k].id
    <3>1. ListOfIds'
      BY <2>5, IdAtType, PTL
    <3> QED BY <3>1, <2>3 DEF ListOfIds
  <2>7. \A k \in 1 .. n - 1 : IdAt'[k] = IF k < i THEN IdAt[k] ELSE IdAt[k + 1]
    <3>1. \A k \in 1 .. n - 1 : k \in 1 .. n /\ k + 1 \in 1 .. n
      BY <2>2
    <3> QED BY <3>1, <2>2, <2>3, <2>6
  <2>8. Descending(IdAt') /\ Values(IdAt') = Values(IdAt) \ {IdAt[i]}
    <3>1. Unlinked(n, IdAt, IdAt', i)
      BY <2>2, <2>6, <2>7 DEF Unlinked
    <3> QED BY <3>1, UnlinkDescending
  <2>9. NoTimerLost'
    BY <2>1, <2>2, <2>4, <2>6, <2>8 DEF TimeInv, NoTimerLost
  <2> QED BY <2>2, <2>4, <2>5, <2>6, <2>8, <2>9 DEF TimeInv
<1> QED BY <1>1, <1>2 DEF aeDeleteTimeEvent, timeVars

(* A step that changes due times, or the clock, but not the ids.           *)
LEMMA SameIdsOK ==
  ASSUME TimeInv, TimeTypeOK',
         DOMAIN timeEvents' = DOMAIN timeEvents,
         \A i \in DOMAIN timeEvents : timeEvents'[i].id = timeEvents[i].id,
         UNCHANGED <<timeEventNextId, finalized>>
  PROVE  TimeInv' /\ Ids' = Ids
<1>1. Ids' = Ids
  BY DEF Ids
<1> QED BY <1>1 DEF TimeInv, NewestFirst, NoTimerLost

(* The new due time of a timer whose handler wants to run again.           *)
LEMMA RearmOK ==
  ASSUME TimeInv, NEW id \in Int, NEW delay \in Nat, Rearm(id, delay)
  PROVE  TimeInv' /\ Ids' = Ids
<1> USE DEF TimeInv, TimeTypeOK
<1>1. timeEvents \in Seq(Timer) /\ clock + delay \in Nat
  BY TimeAssumption DEF Timer
<1>2. timeEvents' = [i \in 1 .. Len(timeEvents) |->
                       IF timeEvents[i].id = id
                       THEN [timeEvents[i] EXCEPT !.when = clock + delay]
                       ELSE timeEvents[i]]
  BY <1>1 DEF Rearm
<1>3. \A i \in 1 .. Len(timeEvents) :
        timeEvents'[i] \in Timer /\ timeEvents'[i].id = timeEvents[i].id
  <2>1. \A i \in 1 .. Len(timeEvents) : timeEvents[i] \in Timer
    BY <1>1, ElementOfSeq
  <2> QED BY <1>1, <1>2, <2>1 DEF Timer
<1>4. timeEvents' \in Seq(Timer)
  <2>1. PICK t : t = timeEvents'
    OBVIOUS
  <2>2. Len(timeEvents) \in Nat /\ DOMAIN t = 1 .. Len(timeEvents)
    BY <1>1, <1>2, <2>1
  <2>3. t = [i \in 1 .. Len(timeEvents) |-> t[i]]
    BY <1>2, <2>1, <2>2
  <2>4. \A i \in 1 .. Len(timeEvents) : t[i] \in Timer
    BY <1>3, <2>1
  <2>5. t \in Seq(Timer)
    BY <2>2, <2>3, <2>4
  <2> QED BY <2>1, <2>5
<1>5. TimeTypeOK'
  BY <1>4 DEF Rearm, Timer
<1> QED BY <1>1, <1>2, <1>3, <1>5, SameIdsOK DEF Rearm

(* The clock-skew check touches due times only.                            *)
LEMMA CheckClockSkewOK ==
  ASSUME TimeInv, CheckClockSkew
  PROVE  TimeInv' /\ Ids' = Ids
<1> USE DEF TimeInv, TimeTypeOK
<1>1. timeEvents \in Seq(Timer) /\ clock \in Nat
  BY TimeAssumption DEF Timer
<1>2. lastTime' \in Nat
  BY <1>1, SplitTime DEF CheckClockSkew
<1>3. CASE timeEvents' = timeEvents
  BY <1>2, <1>3, SameIdsOK DEF CheckClockSkew
<1>4. CASE timeEvents' = [i \in DOMAIN timeEvents |->
                            [timeEvents[i] EXCEPT !.when = Ms(@)]]
  <2>1. \A i \in DOMAIN timeEvents :
          /\ timeEvents[i] \in Timer
          /\ Ms(timeEvents[i].when) \in Nat
    <3>1. \A i \in DOMAIN timeEvents : timeEvents[i] \in Timer
      BY <1>1, ElementOfSeq
    <3> QED BY <3>1, SplitTime DEF Timer
  <2>2. \A i \in DOMAIN timeEvents :
          timeEvents'[i] \in Timer /\ timeEvents'[i].id = timeEvents[i].id
    BY <1>4, <2>1 DEF Timer
  <2>3. timeEvents' \in Seq(Timer)
    BY <1>1, <1>4, <2>2
  <2>4. TimeTypeOK'
    BY <1>2, <2>3 DEF CheckClockSkew, Timer
  <2> QED BY <1>4, <2>2, <2>4, SameIdsOK DEF CheckClockSkew
<1> QED BY <1>3, <1>4 DEF CheckClockSkew, MakeDue

-----------------------------------------------------------------------------
(* The loop.                                                               *)

(* What a step of the loop can do to the file-event table.                 *)
LEMMA FileStepCases ==
  ASSUME [Next]_vars
  PROVE  \/ UNCHANGED fileVars
         \/ \E fd \in FdArgs, m \in (SUBSET Kinds) \ {{}} :
              \/ \E proc \in Procs, d \in Data : aeCreateFileEvent(fd, m, proc, d)
              \/ aeDeleteFileEvent(fd, m)
<1>1. CASE Api
  BY <1>1 DEF Api, CreateFileEvent, DeleteFileEvent, CreateTimeEvent,
              DeleteTimeEvent, aeStop
<1>2. CASE Application
  BY <1>2 DEF Application, aeMain, CallProcessEvents
<1>3. CASE HandlerReturns
  BY <1>3 DEF HandlerReturns, BeforeSleepReturns, ReadHandlerReturns,
              WriteHandlerReturns, NextEntry, TimerHandlerReturnsNoMore,
              TimerHandlerReturns, RestartWalk
<1>4. CASE LoopStep
  BY <1>4 DEF LoopStep, Iterate, LeaveMain, EnterNothing, EnterPoll, EnterNoPoll,
              CallReadHandler, CallWriteHandler, SkipWrite, NextEntry,
              BeginTimePass, EndWithoutTimePass, SkipTimer, CallTimerHandler,
              EndTimePass, Return
<1>5. CASE Kernel \/ PollTimesOut \/ Tick \/ \E t \in TicksPerSec .. MaxClock : SetClock(t)
  BY <1>5 DEF Kernel, PollFires, PollInterrupted, PollTimesOut, Tick, SetClock
<1>6. CASE UNCHANGED vars
  BY <1>6 DEF vars
<1> QED BY <1>1, <1>2, <1>3, <1>4, <1>5, <1>6 DEF Next

(* Whatever handlers do, the table, maxfd and the epoll set agree.         *)
LEMMA FileStep ==
  TableInv /\ [Next]_vars => TableInv' /\ (InterestIsMask => InterestIsMask')
<1> SUFFICES ASSUME TableInv, [Next]_vars
             PROVE  TableInv' /\ (InterestIsMask => InterestIsMask')
  OBVIOUS
<1>1. CASE UNCHANGED fileVars
  BY <1>1 DEF fileVars, TableInv, FileTypeOK, MaxfdIsHighest, Registered,
              InterestIsMask, HandlersAssigned
<1>2. ASSUME NEW fd \in FdArgs, NEW m \in (SUBSET Kinds) \ {{}},
             NEW proc \in Procs, NEW d \in Data, aeCreateFileEvent(fd, m, proc, d)
      PROVE  TableInv' /\ (InterestIsMask => InterestIsMask')
  BY <1>2, LoopAssumption, CreateFileOK
<1>3. ASSUME NEW fd \in FdArgs, NEW m \in (SUBSET Kinds) \ {{}},
             aeDeleteFileEvent(fd, m)
      PROVE  TableInv' /\ (InterestIsMask => InterestIsMask')
  BY <1>3, LoopAssumption, DeleteFileOK
<1> QED BY <1>1, <1>2, <1>3, FileStepCases

(* What a step can do to the timers and the clock.                         *)
LEMMA TimeStepCases ==
  ASSUME [Next]_vars
  PROVE  \/ UNCHANGED timeVars
         \/ \E delay \in Delays : aeCreateTimeEvent(delay)
         \/ \E id \in 0 .. MaxTimers - 1 : aeDeleteTimeEvent(id)
         \/ aeDeleteTimeEvent(running)
         \/ \E delay \in Delays : Rearm(running, delay)
         \/ CheckClockSkew
         \/ Tick
         \/ \E t \in TicksPerSec .. MaxClock : SetClock(t)
<1>1. CASE Api
  BY <1>1 DEF Api, CreateFileEvent, DeleteFileEvent, CreateTimeEvent,
              DeleteTimeEvent, aeStop
<1>2. CASE Application
  BY <1>2 DEF Application, aeMain, CallProcessEvents
<1>3. CASE HandlerReturns
  BY <1>3 DEF HandlerReturns, BeforeSleepReturns, ReadHandlerReturns,
              WriteHandlerReturns, NextEntry, TimerHandlerReturnsNoMore,
              TimerHandlerReturns, RestartWalk
<1>4. CASE LoopStep
  BY <1>4 DEF LoopStep, Iterate, LeaveMain, EnterNothing, EnterPoll, EnterNoPoll,
              CallReadHandler, CallWriteHandler, SkipWrite, NextEntry,
              BeginTimePass, EndWithoutTimePass, SkipTimer, CallTimerHandler,
              EndTimePass, Return
<1>5. CASE Kernel \/ PollTimesOut
  BY <1>5 DEF Kernel, PollFires, PollInterrupted, PollTimesOut
<1>6. CASE UNCHANGED vars
  BY <1>6 DEF vars
<1> QED BY <1>1, <1>2, <1>3, <1>4, <1>5, <1>6 DEF Next

(* A step that moves only the clock.                                       *)
LEMMA ClockOK ==
  ASSUME TimeInv, clock' \in TicksPerSec .. MaxClock,
         UNCHANGED <<timeEvents, timeEventNextId, lastTime, finalized>>
  PROVE  TimeInv'
<1>1. TimeTypeOK'
  BY DEF TimeInv, TimeTypeOK
<1> QED BY <1>1, SameIdsOK

(* The timers stay consistent through every step of the loop.              *)
LEMMA TimeStep == TimeInv /\ running \in Int /\ [Next]_vars => TimeInv'
<1> SUFFICES ASSUME TimeInv, running \in Int, [Next]_vars PROVE TimeInv'
  OBVIOUS
<1>1. CASE UNCHANGED timeVars
  BY <1>1 DEF timeVars, TimeInv, TimeTypeOK, NewestFirst, NoTimerLost, Ids
<1>2. ASSUME NEW delay \in Delays, aeCreateTimeEvent(delay) PROVE TimeInv'
  BY <1>2, LoopAssumption, CreateTimeOK
<1>3. ASSUME NEW id \in 0 .. MaxTimers - 1, aeDeleteTimeEvent(id) PROVE TimeInv'
  BY <1>3, DeleteTimeOK
<1>4. CASE aeDeleteTimeEvent(running)
  BY <1>4, DeleteTimeOK
<1>5. ASSUME NEW delay \in Delays, Rearm(running, delay) PROVE TimeInv'
  BY <1>5, LoopAssumption, RearmOK
<1>6. CASE CheckClockSkew
  BY <1>6, CheckClockSkewOK
<1>7. CASE Tick
  <2>1. clock' \in TicksPerSec .. MaxClock
    BY <1>7, TimeAssumption DEF Tick, TimeInv, TimeTypeOK
  <2> QED BY <1>7, <2>1, ClockOK DEF Tick
<1>8. ASSUME NEW t \in TicksPerSec .. MaxClock, SetClock(t) PROVE TimeInv'
  BY <1>8, ClockOK DEF SetClock
<1> QED BY <1>1, <1>2, <1>3, <1>4, <1>5, <1>6, <1>7, <1>8, TimeStepCases

(* What epoll_wait reports is a sequence of entries.                       *)
LEMMA PollFiresType ==
  ASSUME FileTypeOK, NEW S \in SUBSET Fd, NEW order \in SetToSeqs(S),
         NEW m \in [S -> SUBSET Kinds], \A fd \in S : m[fd] \in Reportable(fd)
  PROVE  [j \in DOMAIN order |-> [fd |-> order[j], mask |-> m[order[j]],
                   due |-> m[order[j]] \cap events[order[j]].mask]] \in Seq(Entries)
<1>1. Cardinality(S) \in Nat
  <2>1. IsFiniteSet(Fd)
    BY FileAssumption, FS_Interval DEF Fd
  <2> QED BY <2>1, FS_Subset, FS_CardinalityType
<1>2. order \in [1 .. Cardinality(S) -> S]
  BY DEF SetToSeqs
<1>3. \A j \in 1 .. Cardinality(S) :
        [fd |-> order[j], mask |-> m[order[j]],
         due |-> m[order[j]] \cap events[order[j]].mask] \in Entries
  BY <1>2 DEF Entries, Reportable, FileTypeOK
<1> QED BY <1>1, <1>2, <1>3

(* Entries of the batch keep their type when kinds are deleted.            *)
LEMMA DeleteType ==
  ASSUME LoopTypeOK, NEW fd, NEW m
  PROVE  [j \in DOMAIN fired |->
            IF fired[j].fd = fd THEN [fired[j] EXCEPT !.due = @ \ m]
            ELSE fired[j]] \in Seq(Entries)
<1>1. fired \in Seq(Entries) /\ Len(fired) \in Nat /\ DOMAIN fired = 1 .. Len(fired)
  BY DEF LoopTypeOK
<1>2. \A j \in 1 .. Len(fired) : fired[j] \in Entries
  BY <1>1, ElementOfSeq
<1>3. \A j \in 1 .. Len(fired) :
        (IF fired[j].fd = fd THEN [fired[j] EXCEPT !.due = @ \ m]
         ELSE fired[j]) \in Entries
  BY <1>2 DEF Entries
<1> QED BY <1>1, <1>3

(* The entry at the head, and the batch when a kind of it is handed out.   *)
LEMMA HeadOfBatch ==
  ASSUME LoopTypeOK, fired # <<>>
  PROVE  /\ Len(fired) \in Nat \ {0} /\ DOMAIN fired = 1 .. Len(fired)
         /\ 1 \in DOMAIN fired /\ Entry = fired[1] /\ Entry \in Entries
         /\ \A j \in DOMAIN fired : fired[j] \in Entries
<1>1. fired \in Seq(Entries)
  BY DEF LoopTypeOK
<1>2. Len(fired) \in Nat \ {0} /\ DOMAIN fired = 1 .. Len(fired)
  BY <1>1, EmptySeq, LenProperties
<1>3. \A j \in 1 .. Len(fired) : fired[j] \in Entries
  BY <1>1, ElementOfSeq
<1> QED BY <1>1, <1>2, <1>3 DEF Entry

LEMMA HandedOut ==
  ASSUME LoopTypeOK, fired # <<>>, NEW k, Handed(k)
  PROVE  /\ fired' \in Seq(Entries) /\ fired' # <<>>
         /\ DOMAIN fired' = DOMAIN fired /\ Entry' = fired'[1]
         /\ fired'[1] = [Entry EXCEPT !.due = @ \ {k}]
         /\ \A j \in DOMAIN fired : j # 1 => fired'[j] = fired[j]
<1>1. /\ fired \in Seq(Entries) /\ Len(fired) \in Nat \ {0}
      /\ DOMAIN fired = 1 .. Len(fired) /\ Entry = fired[1]
      /\ \A j \in DOMAIN fired : fired[j] \in Entries
  BY HeadOfBatch DEF LoopTypeOK
<1>2. [Entry EXCEPT !.due = @ \ {k}] \in Entries
  BY <1>1 DEF Entries
<1>3. fired' = [fired EXCEPT ![1] = [Entry EXCEPT !.due = @ \ {k}]]
  BY <1>1 DEF Handed
<1>4. PICK e \in Entries : e = [Entry EXCEPT !.due = @ \ {k}]
  BY <1>2
<1>5. PICK s \in Seq(Entries) : s = fired
  BY <1>1
<1>6. fired' = [s EXCEPT ![1] = e] /\ Len(s) \in Nat \ {0}
  BY <1>1, <1>3, <1>4, <1>5
<1>7. /\ fired' \in Seq(Entries) /\ Len(fired') = Len(s) /\ fired'[1] = e
      /\ \A j \in 1 .. Len(s) : j # 1 => fired'[j] = s[j]
  BY <1>6
<1>8. fired' # <<>> /\ Entry' = fired'[1]
  BY <1>6, <1>7 DEF Entry
<1> QED BY <1>1, <1>4, <1>5, <1>7, <1>8

(* The inductive invariant without what it says of the epoll set.          *)
CoreInv == TableInv /\ TimeInv /\ LoopTypeOK /\ BatchInv /\ PassInv

LEMMA IndIsCore == IndInv <=> CoreInv /\ InterestIsMask
  BY DEF IndInv, CoreInv, FileInv, TableInv

(* The control state of the loop stays well typed.                         *)
LEMMA LoopTypeStep ==
  CoreInv /\ [Next]_vars => LoopTypeOK'
<1> SUFFICES ASSUME FileTypeOK, TimeTypeOK, LoopTypeOK, BatchInv, PassInv, [Next]_vars
             PROVE  LoopTypeOK'
  BY DEF CoreInv, TableInv, TimeInv
<1>1. CASE Api
  <2>1. ASSUME NEW fd \in FdArgs, NEW m \in (SUBSET Kinds) \ {{}},
               NEW proc \in Procs, NEW d \in Data, CreateFileEvent(fd, m, proc, d)
        PROVE  LoopTypeOK'
    BY <2>1 DEF CreateFileEvent, LoopTypeOK, batchVars, walkVars
  <2>2. ASSUME NEW fd \in FdArgs, NEW m \in (SUBSET Kinds) \ {{}},
               DeleteFileEvent(fd, m)
        PROVE  LoopTypeOK'
    <3>1. fired' \in Seq(Entries)
      BY <2>2, DeleteType DEF DeleteFileEvent
    <3> QED BY <2>2, <3>1 DEF DeleteFileEvent, LoopTypeOK, walkVars
  <2>3. ASSUME NEW delay \in Delays, CreateTimeEvent(delay) PROVE LoopTypeOK'
    BY <2>3 DEF CreateTimeEvent, LoopTypeOK, batchVars, walkVars
  <2>4. ASSUME NEW id \in 0 .. MaxTimers - 1, DeleteTimeEvent(id) PROVE LoopTypeOK'
    BY <2>4 DEF DeleteTimeEvent, LoopTypeOK, batchVars, walkVars
  <2>5. CASE aeStop
    BY <2>5 DEF aeStop, LoopTypeOK, batchVars, walkVars
  <2> QED BY <1>1, <2>1, <2>2, <2>3, <2>4, <2>5 DEF Api
<1>2. CASE Application
  BY <1>2, LoopAssumption DEF Application, aeMain, CallProcessEvents, LoopTypeOK, batchVars,
              walkVars
<1>3. CASE HandlerReturns
  <2>1. CASE BeforeSleepReturns \/ ReadHandlerReturns
    BY <2>1 DEF BeforeSleepReturns, ReadHandlerReturns, LoopTypeOK, batchVars,
                walkVars
  <2>2. CASE WriteHandlerReturns
    <3>1. fired' \in Seq(Entries)
      BY <2>2, HeadTailProperties DEF WriteHandlerReturns, NextEntry, BatchInv, LoopTypeOK
    <3> QED BY <2>2, <3>1 DEF WriteHandlerReturns, NextEntry, LoopTypeOK, walkVars
  <2>3. CASE RestartWalk
    BY <2>3 DEF RestartWalk, NoTimer, LoopTypeOK, batchVars
  <2> QED BY <1>3, <2>1, <2>2, <2>3
          DEF HandlerReturns, TimerHandlerReturnsNoMore, TimerHandlerReturns
<1>4. CASE LoopStep
  <2>1. CASE Return
    BY <2>1 DEF Return, NoTimer, NoPass, LoopTypeOK
  <2>2. CASE Iterate \/ LeaveMain \/ EnterNoPoll
    BY <2>2 DEF Iterate, LeaveMain, EnterNoPoll, AllEvents, LoopTypeOK,
                batchVars, walkVars
  <2>8. CASE EnterPoll
    <3>1. timeout' \in Int
      BY <2>8, TimeAssumption DEF EnterPoll, Forever
    <3> QED BY <2>8, <3>1 DEF EnterPoll, LoopTypeOK, walkVars
  <2>3. CASE CallReadHandler \/ CallWriteHandler
    <3>1. fired' \in Seq(Entries)
      BY <2>3, HandedOut DEF CallReadHandler, CallWriteHandler
    <3> QED BY <2>3, <3>1 DEF CallReadHandler, CallWriteHandler, LoopTypeOK, walkVars
  <2>4. CASE SkipWrite
    <3>1. fired' \in Seq(Entries)
      BY <2>4, HeadTailProperties DEF SkipWrite, NextEntry, LoopTypeOK
    <3> QED BY <2>4, <3>1 DEF SkipWrite, NextEntry, LoopTypeOK, walkVars
  <2>5. CASE BeginTimePass
    <3>1. Ids \in SUBSET Nat
      BY IdAtType DEF ListOfIds, Values
    <3>2. maxId' \in Int /\ te' \in Nat
      BY <2>5 DEF BeginTimePass, LastIdOfPass, TimeTypeOK
    <3>3. pass' \in [ids : SUBSET Nat, ran : SUBSET Nat, skewed : BOOLEAN]
      BY <2>5, <3>1 DEF BeginTimePass
    <3> QED BY <2>5, <3>2, <3>3 DEF BeginTimePass, LoopTypeOK, batchVars
  <2>6. CASE SkipTimer
    BY <2>6 DEF SkipTimer, LoopTypeOK, batchVars
  <2>7. CASE CallTimerHandler
    <3>1. running' \in Nat
      <4>1. te \in 1 .. Len(timeEvents)
        BY <2>7, IdAtType DEF CallTimerHandler, ListOfIds, LoopTypeOK, PassInv
      <4> QED BY <2>7, <4>1, IdAtType DEF CallTimerHandler, ListOfIds
    <3> QED BY <2>7, <3>1 DEF CallTimerHandler, LoopTypeOK, batchVars
  <2> QED BY <1>4, <2>1, <2>2, <2>3, <2>4, <2>5, <2>6, <2>7, <2>8
          DEF LoopStep, EnterNothing, EndWithoutTimePass, EndTimePass
<1>5. CASE Kernel
  <2>1. CASE PollFires
    <3>1. fired' \in Seq(Entries)
      BY <2>1, PollFiresType DEF PollFires
    <3> QED BY <2>1, <3>1 DEF PollFires, LoopTypeOK, walkVars
  <2>2. CASE PollInterrupted
    BY <2>2 DEF PollInterrupted, LoopTypeOK, walkVars
  <2> QED BY <1>5, <2>1, <2>2 DEF Kernel
<1>6. CASE PollTimesOut
  BY <1>6 DEF PollTimesOut, LoopTypeOK, batchVars, walkVars
<1>7. CASE Tick
  BY <1>7 DEF Tick, LoopTypeOK, walkVars
<1>8. CASE \E t \in TicksPerSec .. MaxClock : SetClock(t)
  BY <1>8 DEF SetClock, LoopTypeOK, batchVars, walkVars
<1>9. CASE UNCHANGED vars
  BY <1>9 DEF vars, LoopTypeOK, batchVars, walkVars
<1> QED BY <1>1, <1>2, <1>3, <1>4, <1>5, <1>6, <1>7, <1>8, <1>9 DEF Next

(* Steps that leave the batch and the masks of its descriptors alone.      *)
LEMMA DueUnchanged ==
  ASSUME DueIsRegistered, UNCHANGED <<events, fired>> PROVE DueIsRegistered'
  BY DEF DueIsRegistered

(* A handler's calls: a registration only adds to a mask, a deletion takes *)
(* the kinds out of the mask and of what is due.                           *)
LEMMA DueApi ==
  ASSUME TableInv, LoopTypeOK, DueIsRegistered, Api PROVE DueIsRegistered'
<1>0. \A j \in DOMAIN fired : fired[j] \in Entries
  <2>1. fired \in Seq(Entries) /\ DOMAIN fired = 1 .. Len(fired)
    BY DEF LoopTypeOK
  <2> QED BY <2>1, ElementOfSeq
<1>1. ASSUME NEW fd \in FdArgs, NEW m \in (SUBSET Kinds) \ {{}},
             NEW proc \in Procs, NEW d \in Data, CreateFileEvent(fd, m, proc, d)
      PROVE  DueIsRegistered'
  <2>1. UNCHANGED fired /\ \A g \in Fd : events[g].mask \subseteq events'[g].mask
    BY <1>1 DEF CreateFileEvent, aeCreateFileEvent, fileVars, batchVars, TableInv,
                FileTypeOK, aeFileEvent
  <2> QED BY <1>0, <2>1 DEF DueIsRegistered, Entries
<1>2. ASSUME NEW fd \in FdArgs, NEW m \in (SUBSET Kinds) \ {{}}, DeleteFileEvent(fd, m)
      PROVE  DueIsRegistered'
  <2>1. \A g \in Fd : events[g].mask \ (IF g = fd THEN m ELSE {}) \subseteq events'[g].mask
    BY <1>2 DEF DeleteFileEvent, aeDeleteFileEvent, fileVars, TableInv, FileTypeOK,
                aeFileEvent
  <2>2. DOMAIN fired' = DOMAIN fired
    BY <1>2 DEF DeleteFileEvent
  <2>3. ASSUME NEW j \in DOMAIN fired
        PROVE  fired'[j].due \subseteq fired'[j].mask \cap events'[fired'[j].fd].mask
    <3>1. /\ fired[j].due \subseteq fired[j].mask \cap events[fired[j].fd].mask
          /\ fired[j] \in Entries
      BY <1>0 DEF DueIsRegistered
    <3>2. fired'[j] = IF fired[j].fd = fd THEN [fired[j] EXCEPT !.due = @ \ m]
                      ELSE fired[j]
      BY <1>2 DEF DeleteFileEvent
    <3>3. /\ fired'[j].fd = fired[j].fd /\ fired'[j].mask = fired[j].mask
          /\ fired'[j].due = fired[j].due \ (IF fired[j].fd = fd THEN m ELSE {})
      BY <3>1, <3>2 DEF Entries
    <3> QED BY <2>1, <3>1, <3>3 DEF Entries
  <2> QED BY <2>2, <2>3 DEF DueIsRegistered
<1> QED BY <1>1, <1>2, DueUnchanged
        DEF Api, CreateTimeEvent, DeleteTimeEvent, aeStop, fileVars, batchVars

(* The batch shortened by its head.                                        *)
LEMMA DueNextEntry ==
  ASSUME LoopTypeOK, DueIsRegistered, fired # <<>>, NextEntry PROVE DueIsRegistered'
<1>1. /\ UNCHANGED events /\ fired' = Tail(fired) /\ fired \in Seq(Entries)
  BY DEF NextEntry, fileVars, LoopTypeOK
<1>2. /\ Len(fired') = Len(fired) - 1 /\ fired' \in Seq(Entries) /\ Len(fired) \in Nat
      /\ \A j \in 1 .. Len(fired') : fired'[j] = fired[j + 1]
  BY <1>1, HeadTailProperties
<1>3. \A j \in DOMAIN fired' : j + 1 \in DOMAIN fired /\ fired'[j] = fired[j + 1]
  BY <1>1, <1>2
<1> QED BY <1>1, <1>3 DEF DueIsRegistered

(* A handler is called: less is due.                                       *)
LEMMA DueHanded ==
  ASSUME LoopTypeOK, DueIsRegistered, fired # <<>>, NEW k, Handed(k), UNCHANGED events
  PROVE  DueIsRegistered'
<1>1. /\ DOMAIN fired' = DOMAIN fired /\ 1 \in DOMAIN fired /\ Entry = fired[1]
      /\ fired'[1] = [Entry EXCEPT !.due = @ \ {k}] /\ Entry \in Entries
      /\ \A j \in DOMAIN fired : j # 1 => fired'[j] = fired[j]
  BY HandedOut, HeadOfBatch
<1>2. /\ fired'[1].fd = fired[1].fd /\ fired'[1].mask = fired[1].mask
      /\ fired'[1].due \subseteq fired[1].due
  BY <1>1 DEF Entries
<1> QED BY <1>1, <1>2 DEF DueIsRegistered

(* At the poll what is due is what is reported of the registered kinds.    *)
LEMMA DuePoll ==
  ASSUME TableInv, PollFires PROVE DueIsRegistered'
<1>1. PICK S \in SUBSET {fd \in Fd : interest[fd] # {}} :
        \E order \in SetToSeqs(S), m \in [S -> SUBSET Kinds] :
          fired' = [j \in DOMAIN order |->
                      [fd |-> order[j], mask |-> m[order[j]],
                       due |-> m[order[j]] \cap events[order[j]].mask]]
  BY Zenon DEF PollFires
<1>2. UNCHANGED events
  BY DEF PollFires, fileVars
<1> QED BY <1>1, <1>2 DEF DueIsRegistered

(* What is due of an entry stays registered.                               *)
LEMMA DueStep ==
  TableInv /\ LoopTypeOK /\ BatchInv /\ [Next]_vars => DueIsRegistered'
<1> SUFFICES ASSUME TableInv, LoopTypeOK, BatchInv, [Next]_vars PROVE DueIsRegistered'
  OBVIOUS
<1> USE DEF BatchInv
<1>1. CASE Api
  BY <1>1, DueApi
<1>2. CASE NextEntry /\ fired # <<>>
  BY <1>2, DueNextEntry
<1>3. CASE CallReadHandler \/ CallWriteHandler
  BY <1>3, DueHanded DEF CallReadHandler, CallWriteHandler, fileVars
<1>4. CASE PollFires
  BY <1>4, DuePoll
<1>5. CASE UNCHANGED <<events, fired>>
  BY <1>5, DueUnchanged
<1>6. CASE LoopStep
  BY <1>2, <1>3, <1>5, <1>6
  DEF LoopStep, Iterate, LeaveMain, EnterNothing, EnterPoll, EnterNoPoll, SkipWrite,
      BeginTimePass, EndWithoutTimePass, SkipTimer, CallTimerHandler, EndTimePass,
      Return, fileVars, batchVars
<1>7. CASE HandlerReturns
  BY <1>2, <1>5, <1>7
  DEF HandlerReturns, BeforeSleepReturns, ReadHandlerReturns, WriteHandlerReturns,
      TimerHandlerReturnsNoMore, TimerHandlerReturns, RestartWalk, fileVars, batchVars
<1>8. CASE Application \/ PollInterrupted \/ PollTimesOut \/ Tick
           \/ (\E t \in TicksPerSec .. MaxClock : SetClock(t)) \/ UNCHANGED vars
  BY <1>5, <1>8
  DEF Application, aeMain, CallProcessEvents, PollInterrupted, PollTimesOut, Tick,
      SetClock, vars, fileVars, batchVars
<1> QED BY <1>1, <1>4, <1>6, <1>7, <1>8 DEF Next, Kernel

(* The rest of what is known of the batch.                                 *)
HeadInv ==
  /\ pc \in {"rcb", "wcb"} => fired # <<>>
  /\ pc \notin {"fired", "rcb", "wcb"} => fired = <<>>
  /\ fired = <<>> => ~rfired
  /\ pc = "rcb" => rfired
  /\ rfired => "R" \notin Entry.due
  /\ pc = "wcb" => Entry.due = {}

(* A call that leaves the loop where it is.                                *)
LEMMA HeadApi ==
  ASSUME LoopTypeOK, HeadInv, Api PROVE HeadInv'
<1>1. ASSUME NEW fd \in FdArgs, NEW m \in (SUBSET Kinds) \ {{}}, DeleteFileEvent(fd, m)
      PROVE  HeadInv'
  <2>1. UNCHANGED <<pc, rfired>> /\ DOMAIN fired' = DOMAIN fired
    BY <1>1 DEF DeleteFileEvent
  <2>2. CASE fired = <<>>
    <3>1. fired' = <<>>
      BY <1>1, <2>2 DEF DeleteFileEvent
    <3> QED BY <2>1, <2>2, <3>1 DEF HeadInv
  <2>3. CASE fired # <<>>
    <3>1. 1 \in DOMAIN fired /\ Entry = fired[1] /\ Entry \in Entries
      BY <2>3, HeadOfBatch
    <3>0. fired' \in Seq(Entries)
      BY <1>1, DeleteType DEF DeleteFileEvent
    <3>2. fired' # <<>>
      BY <2>1, <3>1
    <3>3. Entry' = fired'[1]
      BY <3>0, <3>2 DEF Entry
    <3>4. Entry'.due \subseteq Entry.due
      BY <1>1, <3>1, <3>3 DEF DeleteFileEvent, Entries
    <3> QED BY <2>1, <2>3, <3>2, <3>4 DEF HeadInv
  <2> QED BY <2>2, <2>3
<1> QED BY <1>1 DEF Api, CreateFileEvent, CreateTimeEvent, DeleteTimeEvent, aeStop,
                    HeadInv, Entry, batchVars

(* A kind that is due of the entry passes the test of the masks.           *)
LEMMA DueIsValid ==
  ASSUME LoopTypeOK, DueIsRegistered, fired # <<>>
  PROVE  \A k \in Entry.due : Valid(k)
<1>1. 1 \in DOMAIN fired /\ Entry = fired[1]
  BY HeadOfBatch
<1> QED BY <1>1 DEF DueIsRegistered, Valid, Fe

(* A handler of the entry at the head is called.                           *)
LEMMA HeadCalls ==
  ASSUME LoopTypeOK, DueIsRegistered, HeadInv, CallReadHandler \/ CallWriteHandler
  PROVE  HeadInv'
<1>0. fired # <<>> /\ Entry.due \subseteq Kinds
  <2>1. fired # <<>>
    BY DEF CallReadHandler, CallWriteHandler
  <2> QED BY <2>1, HeadOfBatch DEF Entries
<1>1. ASSUME NEW k, Handed(k)
      PROVE  fired' # <<>> /\ Entry'.due = Entry.due \ {k}
  <2>1. fired' # <<>> /\ Entry' = [Entry EXCEPT !.due = @ \ {k}]
    BY <1>0, <1>1, HandedOut
  <2>2. Entry \in Entries
    BY <1>0, HeadOfBatch
  <2> QED BY <2>1, <2>2 DEF Entries
<1>2. CASE CallReadHandler
  BY <1>1, <1>2 DEF CallReadHandler, HeadInv
<1>3. CASE CallWriteHandler
  <2>1. "R" \in Entry.due => rfired
    BY <1>0, <1>3, DueIsValid DEF CallWriteHandler, WriteDue, ReadDue
  <2>2. "R" \notin Entry.due
    BY <2>1 DEF HeadInv
  <2>3. fired' # <<>> /\ Entry'.due = {}
    BY <1>0, <1>1, <1>3, <2>2 DEF CallWriteHandler, Kinds
  <2> QED BY <1>3, <2>3 DEF CallWriteHandler, HeadInv
<1> QED BY <1>2, <1>3

LEMMA BatchStep == TableInv /\ LoopTypeOK /\ BatchInv /\ [Next]_vars => BatchInv'
<1> SUFFICES ASSUME TableInv, LoopTypeOK, BatchInv, [Next]_vars PROVE HeadInv'
  BY DueStep DEF BatchInv, HeadInv
<1>0. DueIsRegistered /\ HeadInv
  BY DEF BatchInv, HeadInv
<1>1. CASE Api
  BY <1>0, <1>1, HeadApi
<1>2. CASE CallReadHandler \/ CallWriteHandler
  BY <1>0, <1>2, HeadCalls
<1>3. CASE PollFires
  BY <1>0, <1>3 DEF PollFires, HeadInv
<1>4. CASE HandlerReturns
  BY <1>0, <1>4 DEF HandlerReturns, BeforeSleepReturns, ReadHandlerReturns,
              WriteHandlerReturns, NextEntry, TimerHandlerReturnsNoMore,
              TimerHandlerReturns, RestartWalk, HeadInv, Entry, batchVars
<1>5. CASE LoopStep
  BY <1>0, <1>2, <1>5
  DEF LoopStep, Iterate, LeaveMain, EnterNothing, EnterPoll, EnterNoPoll, SkipWrite,
      NextEntry, BeginTimePass, EndWithoutTimePass, SkipTimer, CallTimerHandler,
      EndTimePass, Return, HeadInv, Entry, batchVars
<1>6. CASE Application \/ PollInterrupted \/ PollTimesOut \/ Tick
           \/ (\E t \in TicksPerSec .. MaxClock : SetClock(t)) \/ UNCHANGED vars
  BY <1>0, <1>6
  DEF Application, aeMain, CallProcessEvents, PollInterrupted, PollTimesOut, Tick,
      SetClock, vars, batchVars, HeadInv, Entry
<1> QED BY <1>1, <1>3, <1>4, <1>5, <1>6 DEF Next, Kernel

(* A pass over the timers runs only timers that were linked when it began: *)
(* new ones get ids above maxId, and no step adds another id to the list.  *)
LEMMA PassStep == CoreInv /\ [Next]_vars => PassInv'
<1> SUFFICES ASSUME TimeInv, LoopTypeOK, PassInv, [Next]_vars PROVE PassInv'
  BY DEF CoreInv
<1> USE DEF PassInv, PassRunsOnlyOldTimers
<1>1. CASE Api
  <2>1. ASSUME NEW delay \in Delays, CreateTimeEvent(delay) PROVE PassInv'
    <3>1. timeEventNextId' = timeEventNextId + 1 /\ timeEventNextId \in Nat
      BY <2>1 DEF CreateTimeEvent, aeCreateTimeEvent, TimeInv, TimeTypeOK
    <3>2. Ids' = Ids \cup {timeEventNextId}
      BY <2>1, LoopAssumption, CreateTimeOK DEF CreateTimeEvent
    <3> QED BY <2>1, <3>1, <3>2 DEF CreateTimeEvent, walkVars, LoopTypeOK
  <2>2. ASSUME NEW id \in 0 .. MaxTimers - 1, DeleteTimeEvent(id) PROVE PassInv'
    <3>1. Ids' = Ids \ {id}
      BY <2>2, DeleteTimeOK DEF DeleteTimeEvent
    <3> QED BY <2>2, <3>1 DEF DeleteTimeEvent, aeDeleteTimeEvent, walkVars
  <2> QED BY <1>1, <2>1, <2>2
          DEF Api, CreateFileEvent, DeleteFileEvent, aeStop, timeVars, walkVars, Ids
<1>2. CASE Application
  BY <1>2 DEF Application, aeMain, CallProcessEvents
<1>3. CASE HandlerReturns
  <2>1. CASE RestartWalk /\ pc = "tcb" /\ Ids' \subseteq Ids
             /\ timeEventNextId' = timeEventNextId
    BY <2>1 DEF RestartWalk
  <2>2. CASE TimerHandlerReturnsNoMore
    <3>1. Ids' = Ids \ {running}
      BY <2>2, DeleteTimeOK DEF TimerHandlerReturnsNoMore, LoopTypeOK
    <3> QED BY <2>1, <2>2, <3>1 DEF TimerHandlerReturnsNoMore, aeDeleteTimeEvent
  <2>3. ASSUME NEW delay \in Delays, TimerHandlerReturns(delay) PROVE PassInv'
    <3>1. Ids' = Ids
      BY <2>3, LoopAssumption, RearmOK DEF TimerHandlerReturns, LoopTypeOK
    <3> QED BY <2>1, <2>3, <3>1 DEF TimerHandlerReturns, Rearm
  <2> QED BY <1>3, <2>2, <2>3 DEF HandlerReturns, BeforeSleepReturns,
             ReadHandlerReturns, WriteHandlerReturns
<1>4. CASE LoopStep
  <2>1. CASE BeginTimePass
    <3>1. Ids' = Ids /\ maxId' = timeEventNextId - 1
      BY <2>1, CheckClockSkewOK DEF BeginTimePass, LastIdOfPass
    <3>2. timeEventNextId' = timeEventNextId /\ timeEventNextId \in Nat
      BY <2>1 DEF BeginTimePass, CheckClockSkew, TimeInv, TimeTypeOK
    <3> QED BY <2>1, <3>1, <3>2 DEF BeginTimePass
  <2>2. CASE SkipTimer
    BY <2>2 DEF SkipTimer, LoopTypeOK, timeVars, Ids
  <2>3. CASE CallTimerHandler
    <3>1. te \in DOMAIN timeEvents
      BY <2>3, IdAtType
         DEF CallTimerHandler, ListOfIds, LoopTypeOK, TimeInv
    <3>2. running' \in Ids /\ running' <= maxId
      BY <2>3, <3>1 DEF CallTimerHandler, Runnable, Ids
    <3> QED BY <2>3, <3>2 DEF CallTimerHandler, LoopTypeOK, timeVars, Ids
  <2> QED BY <1>4, <2>1, <2>2, <2>3
          DEF LoopStep, Iterate, LeaveMain, EnterNothing, EnterPoll, EnterNoPoll,
              CallReadHandler, CallWriteHandler, SkipWrite, EndWithoutTimePass,
              EndTimePass, Return
<1>5. CASE Kernel \/ PollTimesOut
  BY <1>5 DEF Kernel, PollFires, PollInterrupted, PollTimesOut
<1>6. CASE Tick \/ (\E t \in TicksPerSec .. MaxClock : SetClock(t)) \/ UNCHANGED vars
  BY <1>6 DEF Tick, SetClock, vars, walkVars, timeVars, Ids
<1> QED BY <1>1, <1>2, <1>3, <1>4, <1>5, <1>6 DEF Next

(* The initial state satisfies the inductive invariant.                    *)
LEMMA InitOK == Init => CoreInv /\ InterestIsMask
<1> SUFFICES ASSUME Init PROVE CoreInv /\ InterestIsMask
  OBVIOUS
<1>1. TableInv /\ InterestIsMask /\ TimeInv
  BY FileInitOK, TimeInitOK DEF Init
<1>2. LoopTypeOK
  <2>1. fired \in Seq(Entries)
    BY EmptySeq DEF Init
  <2>2. pass \in [ids : SUBSET Nat, ran : SUBSET Nat, skewed : BOOLEAN]
    BY DEF Init, NoPass
  <2>3. /\ stop \in BOOLEAN /\ inMain \in BOOLEAN /\ rfired \in BOOLEAN
        /\ flags \subseteq {"FILE", "TIME", "DONT_WAIT"}
    BY DEF Init
  <2>4. timeout \in Int /\ te \in Nat /\ running \in Int /\ maxId \in Int /\ jumps \in Nat
    BY DEF Init, NoTimer
  <2> QED BY <2>1, <2>2, <2>3, <2>4 DEF Init, LoopTypeOK
<1>3. BatchInv /\ PassInv
  BY DEF Init, BatchInv, DueIsRegistered, PassInv, PassRunsOnlyOldTimers
<1> QED BY <1>1, <1>2, <1>3 DEF CoreInv

(* Every step keeps it, and the epoll set what the table says if it was.   *)
LEMMA StepOK ==
  CoreInv /\ [Next]_vars => CoreInv' /\ (InterestIsMask => InterestIsMask')
<1> SUFFICES ASSUME CoreInv, [Next]_vars
             PROVE  CoreInv' /\ (InterestIsMask => InterestIsMask')
  OBVIOUS
<1>1. TableInv' /\ (InterestIsMask => InterestIsMask')
  BY FileStep DEF CoreInv
<1>2. TimeInv'
  BY TimeStep DEF CoreInv, LoopTypeOK
<1>3. LoopTypeOK' /\ BatchInv' /\ PassInv'
  BY LoopTypeStep, BatchStep, PassStep DEF CoreInv
<1> QED BY <1>1, <1>2, <1>3 DEF CoreInv

(* The inductive invariant of the event loop: every step of the loop, of a *)
(* handler, of the kernel and of the clock keeps it.                       *)
THEOREM Invariance == Spec => []IndInv
<1>1. Init => IndInv
  BY InitOK, IndIsCore
<1>2. IndInv /\ [Next]_vars => IndInv'
  <2> SUFFICES ASSUME IndInv, [Next]_vars PROVE IndInv'
    OBVIOUS
  <2>1. CoreInv' /\ InterestIsMask'
    BY IndIsCore, StepOK
  <2> QED BY <2>1 DEF IndInv, CoreInv, FileInv, TableInv
<1> QED BY <1>1, <1>2, PTL DEF Spec

(* The variables have their types (ae.h:61-98).                            *)
THEOREM TypeCorrect == Spec => []TypeOK
<1>1. IndInv => TypeOK
  BY DEF IndInv, FileInv, TimeInv, TypeOK
<1> QED BY <1>1, Invariance, PTL

(* maxfd is the highest registered descriptor whatever handlers create and *)
(* delete while a batch is served (ae.c:105-141).                          *)
THEOREM MaxfdTheorem == Spec => []MaxfdIsHighest
<1>1. IndInv => MaxfdIsHighest
  BY DEF IndInv, FileInv
<1> QED BY <1>1, Invariance, PTL

(* The kernel watches exactly what the table says (ae_epoll.c:66-101).     *)
THEOREM InterestTheorem == Spec => []InterestIsMask
<1>1. IndInv => InterestIsMask
  BY DEF IndInv, FileInv
<1> QED BY <1>1, Invariance, PTL

(* No timer is lost, and none is both linked and freed (ae.c:173-212).     *)
THEOREM TimersTheorem == Spec => [](NewestFirst /\ NoTimerLost)
<1>1. IndInv => NewestFirst /\ NoTimerLost
  BY DEF IndInv, TimeInv
<1> QED BY <1>1, Invariance, PTL

(* A pass runs only timers that existed when it began (ae.c:283-287).      *)
THEOREM PassTheorem == Spec => []PassRunsOnlyOldTimers
<1>1. IndInv => PassRunsOnlyOldTimers
  BY DEF IndInv, PassInv
<1> QED BY <1>1, Invariance, PTL
-----------------------------------------------------------------------------
(* What the loop may never do.                                             *)

(* Only the two steps that are done with an entry take it off the batch.   *)
LEMMA WhoLeaves ==
  ASSUME LoopTypeOK, BatchInv, Next, LeavesBatch PROVE WriteHandlerReturns \/ SkipWrite
<1>1. /\ fired # <<>> /\ fired' = Tail(fired)
      /\ Len(fired) \in Nat \ {0} /\ Len(Tail(fired)) = Len(fired) - 1
      /\ DOMAIN fired = 1 .. Len(fired) /\ fired' \in Seq(Entries)
  BY HeadOfBatch, HeadTailProperties DEF LeavesBatch, LoopTypeOK
<1>2. /\ fired' # fired /\ DOMAIN fired' # DOMAIN fired
  <2>1. DOMAIN fired' = 1 .. Len(fired) - 1
    BY <1>1
  <2>2. Len(fired) \in DOMAIN fired /\ Len(fired) \notin DOMAIN fired'
    BY <1>1, <2>1
  <2> QED BY <2>2
<1>3. \A k : ~Handed(k)
  BY <1>1, <1>2, HandedOut
<1>4. pc # "poll"
  BY <1>1 DEF BatchInv
<1>5. ~Api
  BY <1>2 DEF Api, CreateFileEvent, DeleteFileEvent, CreateTimeEvent, DeleteTimeEvent,
              aeStop, batchVars
<1>6. ~LoopStep \/ SkipWrite
  BY <1>2, <1>3 DEF LoopStep, Iterate, LeaveMain, EnterNothing, EnterPoll, EnterNoPoll,
         CallReadHandler, CallWriteHandler, BeginTimePass, EndWithoutTimePass,
         SkipTimer, CallTimerHandler, EndTimePass, Return, batchVars
<1>7. ~HandlerReturns \/ WriteHandlerReturns
  BY <1>2 DEF HandlerReturns, BeforeSleepReturns, ReadHandlerReturns,
         TimerHandlerReturnsNoMore, TimerHandlerReturns, RestartWalk, batchVars
<1>8. ~(Application \/ Kernel \/ PollTimesOut \/ Tick
          \/ \E t \in TicksPerSec .. MaxClock : SetClock(t))
  BY <1>2, <1>4 DEF Application, aeMain, CallProcessEvents, Kernel, PollFires,
         PollInterrupted, PollTimesOut, Tick, SetClock, batchVars
<1> QED BY <1>5, <1>6, <1>7, <1>8 DEF Next

(* Each kind that epoll_wait reported of a registration was handed to a    *)
(* handler or deleted when the loop goes on to the next entry              *)
(* (ae.c:371-390).                                                         *)
THEOREM BatchServedTheorem == Spec => BatchIsServed
<1>1. IndInv /\ [Next]_vars =>
        [LeavesBatch => Entry.due \subseteq IF rfired /\ Fe.wfileProc = Fe.rfileProc
                                           THEN {"W"} ELSE {}]_vars
  <2> SUFFICES ASSUME IndInv, Next, LeavesBatch
               PROVE  Entry.due \subseteq IF rfired /\ Fe.wfileProc = Fe.rfileProc
                                         THEN {"W"} ELSE {}
    OBVIOUS
  <2>0. LoopTypeOK /\ BatchInv /\ fired # <<>>
    BY DEF IndInv, LeavesBatch
  <2>1. CASE WriteHandlerReturns
    BY <2>0, <2>1 DEF WriteHandlerReturns, BatchInv
  <2>2. CASE SkipWrite
    <3>1. \A k \in Entry.due : k \in Kinds /\ Valid(k)
      BY <2>0, DueIsValid, HeadOfBatch DEF BatchInv, Entries
    <3>2. "R" \notin Entry.due
      BY <2>0, <2>2, <3>1 DEF SkipWrite, ReadDue, BatchInv
    <3>3. "W" \in Entry.due => rfired /\ Fe.wfileProc = Fe.rfileProc
      BY <2>2, <3>1 DEF SkipWrite, WriteDue
    <3> QED BY <3>1, <3>2, <3>3 DEF Kinds
  <2> QED BY <2>0, <2>1, <2>2, WhoLeaves
<1> QED BY <1>1, Invariance, PTL DEF Spec, BatchIsServed

(* The difference of two readings, the seconds and the milliseconds        *)
(* subtracted apart with a borrow: exact unless the seconds are clamped,   *)
(* and then less than a second.                                            *)
LEMMA TimeToFireBound ==
  ASSUME NEW when \in Nat, clock \in Nat
  PROVE  /\ TimeToFire(when) \in Nat
         /\ TimeToFire(when) < TicksPerSec \/ TimeToFire(when) = when - clock
<1> DEFINE T == TicksPerSec
<1>1. PICK ws \in Nat, wm \in 0 .. T - 1 :
        Sec(when) = ws /\ Ms(when) = wm /\ when = T * ws + wm
  BY TimeAssumption DEF Sec, Ms
<1>2. PICK cs \in Nat, cm \in 0 .. T - 1 :
        Sec(clock) = cs /\ Ms(clock) = cm /\ clock = T * cs + cm
  BY TimeAssumption DEF Sec, Ms
<1>3. PICK carry \in {0, 1} : carry = IF wm < cm THEN 1 ELSE 0
  OBVIOUS
<1>4. PICK sec \in Int : sec = ws - cs - carry
  OBVIOUS
<1>5. PICK ms \in 0 .. T - 1 : ms = carry * T + wm - cm
  BY <1>3, TimeAssumption
<1>6. TimeToFire(when) = (IF sec < 0 THEN 0 ELSE sec) * T + ms
  <2>1. TimeToFire(when) = (IF sec < 0 THEN 0 ELSE sec) * T + carry * T + wm - cm
    BY <1>1, <1>2, <1>3, <1>4, Zenon DEF TimeToFire
  <2>2. PICK clamped \in Int : clamped = IF sec < 0 THEN 0 ELSE sec
    OBVIOUS
  <2>3. clamped * T \in Int /\ carry * T \in Int
    BY TimeAssumption
  <2> QED BY <1>5, <2>1, <2>2, <2>3
<1>7. CASE sec < 0
  BY <1>6, <1>7, TimeAssumption
<1>8. CASE sec >= 0
  <2>1. sec * T + ms = when - clock
    BY <1>1, <1>2, <1>4, <1>5, TimeAssumption
  <2>2. sec * T \in Nat
    BY <1>8, TimeAssumption
  <2> QED BY <1>6, <1>8, <2>1, <2>2
<1> QED BY <1>7, <1>8

(* A poll outlasts the due time of a late timer by less than a second      *)
(* (ae.c:340-353).                                                         *)
THEOREM OversleepTheorem == Spec => OversleepsLessThanASecond
<1> DEFINE Bounded == \A i \in DOMAIN timeEvents :
                        /\ timeout' # Forever
                        /\ timeout' <= Late(timeEvents[i]) \/ timeout' < TicksPerSec
<1>1. IndInv /\ [Next]_vars => [StartsToWait => Bounded]_vars
  <2> SUFFICES ASSUME IndInv, Next, StartsToWait, NEW i \in DOMAIN timeEvents
               PROVE  /\ timeout' # Forever
                      /\ timeout' <= Late(timeEvents[i]) \/ timeout' < TicksPerSec
    OBVIOUS
  <2>1. EnterPoll
    BY DEF StartsToWait, Next, Api, CreateFileEvent, DeleteFileEvent,
           CreateTimeEvent, DeleteTimeEvent, aeStop, Application, aeMain,
           CallProcessEvents, HandlerReturns, BeforeSleepReturns,
           ReadHandlerReturns, WriteHandlerReturns, TimerHandlerReturnsNoMore,
           TimerHandlerReturns, RestartWalk, LoopStep, Iterate, LeaveMain,
           EnterNothing, EnterNoPoll, CallReadHandler, CallWriteHandler,
           SkipWrite, BeginTimePass, EndWithoutTimePass, SkipTimer,
           CallTimerHandler, EndTimePass, Return, Kernel, PollFires,
           PollInterrupted, PollTimesOut, Tick, SetClock
  <2>2. /\ timeEvents \in Seq(Timer) /\ clock \in Nat
        /\ \A j \in DOMAIN timeEvents : timeEvents[j].when \in Nat
    <3>1. timeEvents \in Seq(Timer) /\ clock \in Nat
      BY TimeAssumption DEF IndInv, TimeInv, TimeTypeOK, Timer
    <3>2. \A j \in DOMAIN timeEvents : timeEvents[j] \in Timer
      BY <3>1, ElementOfSeq
    <3> QED BY <3>1, <3>2 DEF Timer
  <2>3. Waits /\ timeEvents # <<>>
    BY <2>1, <2>2 DEF StartsToWait, EnterPoll, Waits
  <2>4. PICK j \in DOMAIN timeEvents :
          /\ timeEvents[j].when <= timeEvents[i].when
          /\ timeout' = TimeToFire(timeEvents[j].when)
    BY <2>1, <2>3 DEF EnterPoll, PollTimeout, Nearest
  <2>5. /\ timeout' \in Nat
        /\ timeout' < TicksPerSec \/ timeout' = timeEvents[j].when - clock
    BY <2>2, <2>4, TimeToFireBound
  <2> QED BY <2>2, <2>4, <2>5, TimeAssumption DEF Forever, Late
<1> QED BY <1>1, Invariance, PTL DEF Spec, OversleepsLessThanASecond
-----------------------------------------------------------------------------
(* A pass over the timers.                                                 *)

(* The timer is as a pass that saw the clock set back made it, or it has   *)
(* run in this pass.                                                       *)
ForcedDue(t) == t.id \in pass.ids => t.id \in pass.ran \/ t.when < TicksPerSec

(* The walk may leave the timer behind.                                    *)
PassedBy(t) ==
  /\ ~SlowHandlers /\ t.id <= maxId => ~Due(t)
  /\ pass.skewed /\ t.id \in pass.ids => t.id \in pass.ran

(* What a pass knows of the timers that were linked when it began, and of  *)
(* those the walk has met since it last started from the head.             *)
WalkInv ==
  pc \in {"time", "tcb"} =>
    /\ \A id \in pass.ids : id <= maxId
    /\ pc = "tcb" => running \in pass.ran
    /\ pass.skewed => \A i \in DOMAIN timeEvents : ForcedDue(timeEvents[i])
    /\ pc = "time" =>
         \A i \in DOMAIN timeEvents : i < te => PassedBy(timeEvents[i])

(* The timers of the list, new ones and the one that ran aside, are        *)
(* timers it had before.                                                   *)
KeepsForced ==
  \A i \in DOMAIN timeEvents' :
    \/ \E j \in DOMAIN timeEvents : timeEvents'[i] = timeEvents[j]
    \/ timeEvents'[i].id \in pass.ids => timeEvents'[i].id \in pass.ran

(* Timers that must run in this pass stay due.                             *)
LEMMA ForcedStaysDue ==
  ASSUME WalkInv, pc \in {"time", "tcb"}, UNCHANGED pass, KeepsForced
  PROVE  (pass.skewed => \A i \in DOMAIN timeEvents : ForcedDue(timeEvents[i]))'
<1> SUFFICES ASSUME pass.skewed, NEW i \in DOMAIN timeEvents'
             PROVE  ForcedDue(timeEvents[i])'
  OBVIOUS
<1>1. CASE \E j \in DOMAIN timeEvents : timeEvents'[i] = timeEvents[j]
  <2>1. PICK j \in DOMAIN timeEvents : timeEvents'[i] = timeEvents[j]
    BY <1>1
  <2>2. ForcedDue(timeEvents[j])
    BY DEF WalkInv
  <2> QED BY <2>1, <2>2 DEF ForcedDue
<1>2. CASE timeEvents'[i].id \in pass.ids => timeEvents'[i].id \in pass.ran
  BY <1>2 DEF ForcedDue
<1> QED BY <1>1, <1>2 DEF KeepsForced

(* Deleting a timer brings no other into the list.                         *)
LEMMA DeleteKeepsForced ==
  ASSUME TimeInv, NEW id \in Int, aeDeleteTimeEvent(id)
  PROVE  KeepsForced
<1>1. CASE UNCHANGED timeEvents
  BY <1>1 DEF KeepsForced
<1>2. CASE \E i \in DOMAIN timeEvents : timeEvents' = Unlink(i)
  <2>1. PICK i \in DOMAIN timeEvents : timeEvents' = Unlink(i)
    BY <1>2
  <2>2. /\ timeEvents \in Seq(Timer) /\ Len(timeEvents) \in Nat
        /\ DOMAIN timeEvents = 1 .. Len(timeEvents)
    BY IdAtType DEF TimeInv, ListOfIds
  <2>3. /\ timeEvents' \in Seq(Timer)
        /\ Len(timeEvents') = Len(timeEvents) - 1
        /\ \A k \in 1 .. Len(timeEvents) - 1 :
             timeEvents'[k] = IF k < i THEN timeEvents[k] ELSE timeEvents[k + 1]
    BY <2>1, <2>2, UnlinkShape
  <2>4. DOMAIN timeEvents' = 1 .. Len(timeEvents) - 1
    BY <2>3
  <2>5. \A k \in 1 .. Len(timeEvents) - 1 :
          k \in DOMAIN timeEvents /\ k + 1 \in DOMAIN timeEvents
    BY <2>2
  <2> QED BY <2>3, <2>4, <2>5 DEF KeepsForced
<1> QED BY <1>1, <1>2 DEF aeDeleteTimeEvent

(* Every step keeps what the walk knows.                                   *)
LEMMA WalkStep == IndInv /\ WalkInv /\ [Next]_vars => WalkInv'
<1> SUFFICES ASSUME TimeInv, LoopTypeOK, PassInv, WalkInv, [Next]_vars
             PROVE  WalkInv'
  BY DEF IndInv
<1>1. CASE pc = "tcb" /\ UNCHANGED <<pass, pc, walkVars>> /\ KeepsForced
  BY <1>1, ForcedStaysDue DEF WalkInv, walkVars
<1>2. CASE pc = "tcb" /\ RestartWalk /\ KeepsForced
  <2>1. UNCHANGED pass /\ maxId' = maxId
    BY <1>2 DEF RestartWalk
  <2>2. (pass.skewed => \A i \in DOMAIN timeEvents : ForcedDue(timeEvents[i]))'
    BY <1>2, <2>1, ForcedStaysDue
  <2>3. ASSUME NEW i \in DOMAIN timeEvents' PROVE ~(i < te')
    <3>1. TimeTypeOK'
      BY TimeStep DEF TimeInv, LoopTypeOK
    <3>2. ListOfIds'
      BY <3>1, IdAtType, PTL
    <3> QED BY <3>2, <1>2 DEF ListOfIds, RestartWalk
  <2> QED BY <1>2, <2>1, <2>2, <2>3 DEF WalkInv, RestartWalk
<1>3. CASE Api
  <2>1. ASSUME NEW delay \in Delays, CreateTimeEvent(delay), pc = "tcb"
        PROVE  KeepsForced
    <3> DEFINE t == [id |-> timeEventNextId, when |-> clock + delay]
    <3>1. timeEvents \in Seq(Timer) /\ Len(timeEvents) \in Nat /\ t \in Timer
      BY <2>1, LoopAssumption, TimeAssumption
         DEF TimeInv, TimeTypeOK, Timer, CreateTimeEvent, aeCreateTimeEvent
    <3>2. timeEvents' = <<t>> \o timeEvents
      BY <2>1 DEF CreateTimeEvent, aeCreateTimeEvent, PushTimer
    <3>3. t.id \notin pass.ids
      <4>1. timeEventNextId \in Nat /\ maxId \in Int /\ maxId < timeEventNextId
        BY <2>1 DEF TimeInv, TimeTypeOK, LoopTypeOK, PassInv
      <4>2. \A id \in pass.ids : id <= maxId
        BY <2>1 DEF WalkInv
      <4> QED BY <4>1, <4>2
    <3> HIDE DEF t
    <3>4. /\ timeEvents' \in Seq(Timer) /\ Len(timeEvents') = Len(timeEvents) + 1
          /\ timeEvents'[1] = t
          /\ \A i \in 2 .. Len(timeEvents) + 1 : timeEvents'[i] = timeEvents[i - 1]
      BY <3>1, <3>2, PushShape
    <3> SUFFICES ASSUME NEW i \in DOMAIN timeEvents'
                 PROVE  \/ \E j \in DOMAIN timeEvents : timeEvents'[i] = timeEvents[j]
                        \/ timeEvents'[i].id \in pass.ids => timeEvents'[i].id \in pass.ran
      BY DEF KeepsForced
    <3>5. i \in 1 .. Len(timeEvents) + 1
      BY <3>1, <3>4
    <3>6. CASE i = 1
      BY <3>3, <3>4, <3>6
    <3>7. CASE i # 1
      <4>1. i - 1 \in DOMAIN timeEvents /\ timeEvents'[i] = timeEvents[i - 1]
        BY <3>1, <3>4, <3>5, <3>7
      <4> QED BY <4>1
    <3> QED BY <3>6, <3>7
  <2>2. ASSUME NEW id \in 0 .. MaxTimers - 1, DeleteTimeEvent(id) PROVE KeepsForced
    BY <2>2, DeleteKeepsForced DEF DeleteTimeEvent
  <2>3. UNCHANGED timeEvents => KeepsForced
    BY DEF KeepsForced
  <2>4. UserCode /\ UNCHANGED <<pass, pc, walkVars>> /\ (pc = "tcb" => KeepsForced)
    BY <1>3, <2>1, <2>2, <2>3 DEF Api, CreateFileEvent, DeleteFileEvent,
       CreateTimeEvent, DeleteTimeEvent, aeStop, timeVars, walkVars
  <2> QED BY <1>1, <2>4 DEF UserCode, WalkInv
<1>4. CASE HandlerReturns
  <2>1. CASE TimerHandlerReturnsNoMore
    <3>1. KeepsForced
      BY <2>1, DeleteKeepsForced DEF TimerHandlerReturnsNoMore, LoopTypeOK
    <3> QED BY <1>2, <2>1, <3>1 DEF TimerHandlerReturnsNoMore
  <2>2. ASSUME NEW delay \in Delays, TimerHandlerReturns(delay) PROVE WalkInv'
    <3>1. running \in pass.ran /\ pc = "tcb"
      BY <2>2 DEF TimerHandlerReturns, WalkInv
    <3>2. KeepsForced
      BY <2>2, <3>1 DEF TimerHandlerReturns, Rearm, KeepsForced
    <3> QED BY <1>2, <2>2, <3>1, <3>2 DEF TimerHandlerReturns
  <2> QED BY <1>4, <2>1, <2>2 DEF HandlerReturns, BeforeSleepReturns,
             ReadHandlerReturns, WriteHandlerReturns, WalkInv
<1>5. CASE BeginTimePass
  <2>1. \A id \in Ids : id \in Nat /\ id <= timeEventNextId - 1
    BY DEF TimeInv, TimeTypeOK, NoTimerLost
  <2>2. ListOfIds /\ \A i \in DOMAIN timeEvents : timeEvents[i] \in Timer
    <3>1. timeEvents \in Seq(Timer)
      BY DEF TimeInv, TimeTypeOK, Timer
    <3> QED BY <3>1, ElementOfSeq, IdAtType DEF TimeInv
  <2>3. DOMAIN timeEvents' = DOMAIN timeEvents
    BY <1>5 DEF BeginTimePass, CheckClockSkew
  <2>4. pass'.skewed => \A i \in DOMAIN timeEvents' : timeEvents'[i].when < TicksPerSec
    <3>1. \A t \in Nat : Ms(t) < TicksPerSec
      BY TimeAssumption DEF Ms
    <3>2. pass'.skewed => \A i \in DOMAIN timeEvents : 
            timeEvents'[i].when = Ms(timeEvents[i].when)
      BY <1>5, <2>2 DEF BeginTimePass, CheckClockSkew, SkewDetected, MakeDue, Timer
    <3> QED BY <2>2, <2>3, <3>1, <3>2 DEF Timer
  <2>5. pass'.ids = Ids /\ maxId' = timeEventNextId - 1 /\ te' = 1 /\ pc' = "time"
    BY <1>5 DEF BeginTimePass, LastIdOfPass
  <2>6. \A i \in DOMAIN timeEvents' : ~(i < te')
    BY <2>2, <2>3, <2>5 DEF ListOfIds
  <2> QED BY <2>1, <2>4, <2>5, <2>6 DEF WalkInv, ForcedDue
<1>6. CASE SkipTimer
  <2>1. /\ pc = "time" /\ UNCHANGED <<timeVars, pass, pc, running, maxId>>
        /\ te' = te + 1 /\ te \in Nat
    BY <1>6 DEF SkipTimer, LoopTypeOK
  <2>2. te \in DOMAIN timeEvents /\ DOMAIN timeEvents = 1 .. Len(timeEvents)
    BY <1>6, IdAtType DEF SkipTimer, ListOfIds, LoopTypeOK, TimeInv, PassInv
  <2>3. PassedBy(timeEvents[te])
    <3>1. ~(timeEvents[te].id <= maxId /\ Due(timeEvents[te]))
      BY <1>6 DEF SkipTimer, Runnable
    <3>2. timeEvents[te].id \in pass.ids => timeEvents[te].id <= maxId
      BY <2>1 DEF WalkInv
    <3>3. timeEvents[te].when < TicksPerSec => Due(timeEvents[te])
      <4>1. timeEvents[te].when \in Nat
        <5>1. timeEvents \in Seq(Timer)
          BY DEF TimeInv, TimeTypeOK, Timer
        <5>2. timeEvents[te] \in Timer
          BY <2>2, <5>1, ElementOfSeq
        <5> QED BY <5>2 DEF Timer
      <4> QED BY <4>1, TimeAssumption DEF Due, TimeInv, TimeTypeOK
    <3>4. pass.skewed => ForcedDue(timeEvents[te])
      BY <2>1, <2>2 DEF WalkInv
    <3> QED BY <3>1, <3>2, <3>3, <3>4 DEF PassedBy, ForcedDue
  <2>4. \A i \in DOMAIN timeEvents : i < te' => PassedBy(timeEvents[i])
    BY <2>1, <2>2, <2>3 DEF WalkInv
  <2> QED BY <2>1, <2>4 DEF WalkInv, ForcedDue, PassedBy, Due, timeVars
<1>7. CASE CallTimerHandler
  BY <1>7 DEF CallTimerHandler, WalkInv, ForcedDue, LoopTypeOK, timeVars
<1>8. CASE Tick \/ \E t \in TicksPerSec .. MaxClock : SetClock(t)
  <2>1. UNCHANGED <<timeEvents, pass, pc, walkVars>>
    BY <1>8 DEF Tick, SetClock
  <2>2. pc = "poll" \/ SlowHandlers
    BY <1>8 DEF Tick, SetClock
  <2> QED BY <2>1, <2>2 DEF WalkInv, ForcedDue, PassedBy, walkVars
<1>9. CASE UNCHANGED vars
  BY <1>9 DEF vars, walkVars, timeVars, WalkInv, ForcedDue, PassedBy, Due
<1>10. CASE Application \/ Kernel \/ PollTimesOut
  BY <1>10 DEF Application, aeMain, CallProcessEvents, Kernel, PollFires,
               PollInterrupted, PollTimesOut, WalkInv
<1>11. CASE LoopStep
  BY <1>5, <1>6, <1>7, <1>11 DEF LoopStep, Iterate, LeaveMain, EnterNothing,
     EnterPoll, EnterNoPoll, CallReadHandler, CallWriteHandler, SkipWrite,
     EndWithoutTimePass, EndTimePass, Return, WalkInv
<1> QED BY <1>3, <1>4, <1>8, <1>9, <1>10, <1>11 DEF Next

(* The walk's invariant holds with the loop's.                             *)
LEMMA WalkInvariance == Spec => [](IndInv /\ WalkInv)
<1>1. Init => WalkInv
  BY DEF Init, WalkInv
<1> QED BY <1>1, Invariance, WalkStep, PTL DEF Spec

(* At the end of a pass the walk has met every timer.                      *)
LEMMA EndMetAll ==
  ASSUME IndInv, WalkInv, Next, EndsPass
  PROVE  \A i \in DOMAIN timeEvents : PassedBy(timeEvents[i])
<1>1. EndTimePass
  BY DEF EndsPass, Next, Api, CreateFileEvent, DeleteFileEvent,
         CreateTimeEvent, DeleteTimeEvent, aeStop, UserCode, Application, aeMain,
         CallProcessEvents, HandlerReturns, BeforeSleepReturns,
         ReadHandlerReturns, WriteHandlerReturns, TimerHandlerReturnsNoMore,
         TimerHandlerReturns, LoopStep, Iterate, LeaveMain, EnterNothing,
         EnterPoll, EnterNoPoll, CallReadHandler, CallWriteHandler, SkipWrite,
         BeginTimePass, EndWithoutTimePass, SkipTimer, CallTimerHandler,
         Kernel, PollFires, PollInterrupted, PollTimesOut, Tick, SetClock
<1>2. ListOfIds
  BY IdAtType DEF IndInv, TimeInv
<1>3. \A i \in DOMAIN timeEvents : i < te
  BY <1>1, <1>2 DEF EndTimePass, ListOfIds, IndInv, LoopTypeOK
<1> QED BY <1>1, <1>3 DEF EndTimePass, WalkInv

(* With handlers that take no time, a pass leaves no timer due that        *)
(* existed when it began, whatever its handlers deleted (ae.c:256-305).    *)
THEOREM NoneDueTheorem ==
  ASSUME SlowHandlers = FALSE
  PROVE  Spec => PassLeavesNoneDue
<1>0. SlowHandlers = FALSE
  OBVIOUS
<1>1. IndInv /\ WalkInv /\ [Next]_vars
        => [EndsPass => \A i \in DOMAIN timeEvents :
              timeEvents[i].id \in pass.ids => ~Due(timeEvents[i])]_vars
  <2> SUFFICES ASSUME IndInv, WalkInv, Next, EndsPass, NEW i \in DOMAIN timeEvents,
                      timeEvents[i].id \in pass.ids
               PROVE  ~Due(timeEvents[i])
    OBVIOUS
  <2>1. PassedBy(timeEvents[i])
    BY EndMetAll
  <2>2. timeEvents[i].id <= maxId
    BY DEF WalkInv, EndsPass
  <2> QED BY <1>0, <2>1, <2>2 DEF PassedBy
<1> QED BY <1>1, WalkInvariance, PTL DEF Spec, PassLeavesNoneDue

(* When a pass sees the clock set back, each timer linked at that moment   *)
(* runs in this pass, unless it was deleted (ae.c:247-261).                *)
THEOREM SkewTheorem == Spec => SkewForcesAll
<1>1. IndInv /\ WalkInv /\ [Next]_vars
        => [EndsPass /\ pass.skewed => pass.ids \subseteq pass.ran \cup finalized]_vars
  <2> SUFFICES ASSUME IndInv, WalkInv, Next, EndsPass, pass.skewed,
                      NEW id \in pass.ids
               PROVE  id \in pass.ran \cup finalized
    OBVIOUS
  <2>1. id \in Nat /\ id <= maxId /\ maxId \in Int /\ maxId < timeEventNextId
    BY DEF EndsPass, WalkInv, IndInv, LoopTypeOK, PassInv
  <2>2. id \in Ids \cup finalized
    BY <2>1 DEF IndInv, TimeInv, TimeTypeOK, NoTimerLost
  <2>3. id \in Ids => id \in pass.ran
    BY EndMetAll DEF Ids, PassedBy
  <2> QED BY <2>2, <2>3
<1> QED BY <1>1, WalkInvariance, PTL DEF Spec, SkewForcesAll
=============================================================================
