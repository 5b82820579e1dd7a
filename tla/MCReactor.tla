----------------------------- MODULE MCReactor ------------------------------
(* Small instances of Reactor.                                             *)
EXTENDS Reactor

CONSTANTS c1, c2, t1, t2

MCOneConn == {c1}
MCConns   == {c1, c2}
MCTimers  == {t1, t2}
MCOneTimer == {t1}
MCAnyReset == {"open", "data", "closed"}

(* A bound: a second client comes, or timers are used and time passes, but *)
(* not both in one behaviour.                                              *)
Bounded == \/ \A c \in Conns \ MCOneConn : peer[c] = "out"
           \/ clock = 1 /\ \A t \in Timers : endtime[t] = NoTime

MCSpec == /\ Init /\ [][Next /\ Bounded']_vars
          /\ WF_vars(Loop) /\ WF_vars(Tick /\ Bounded')

(* The runs of Reactor keep few times in the heap; MiniHeap itself is      *)
(* checked on all sequences of up to 6 of 4 times: inserted in that order  *)
(* and taken out one by one, they come out sorted.                         *)
Filled(times) ==
  LET h[k \in 0 .. Len(times)] ==
        IF k = 0 THEN <<>> ELSE Insert(h[k - 1], times[k], Len(times))
  IN  h[Len(times)]

Drained(heap) ==
  LET h[k \in 1 .. Len(heap)] == IF k = 1 THEN heap ELSE RemoveMin(h[k - 1])
  IN  [k \in 1 .. Len(heap) |-> GetMin(h[k])]

ASSUME HeapSorts ==
  \A n \in 1 .. 6 : \A times \in [1 .. n -> 1 .. 4] :
    Drained(Filled(times)) = SortSeq(times, <)
=============================================================================
