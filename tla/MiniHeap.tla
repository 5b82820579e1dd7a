------------------------------ MODULE MiniHeap ------------------------------
(***************************************************************************)
(* cpp/epoll/MiniHeap.h: a binary heap in an array.  A heap is a sequence  *)
(* here, so that the children of k are 2 * k and 2 * k + 1.                *)
(*                                                                         *)
(* FilterUp and FilterDown carry one element along a path and shift the    *)
(* others on it by one; both read an element only before they overwrite    *)
(* it, so that the path can be told from the heap they are given.          *)
(***************************************************************************)
EXTENDS Naturals, Sequences

Parent(k) == k \div 2

(* Where FilterUp puts the element at the end of h.                        *)
UpTo(h, temp) ==
  LET at[k \in 1 .. Len(h)] ==
        IF k = 1 \/ temp >= h[Parent(k)] THEN k ELSE at[Parent(k)]
  IN  at[Len(h)]

(* k and the elements above it.                                            *)
PathTo(h, k) ==
  LET path[j \in 0 .. Len(h)] == IF j = 0 THEN {} ELSE {j} \cup path[Parent(j)]
  IN  path[k]

FilterUp(h) ==
  LET temp  == h[Len(h)]
      to    == UpTo(h, temp)
      moved == PathTo(h, Len(h)) \ PathTo(h, to)
  IN  [k \in 1 .. Len(h) |-> CASE k = to       -> temp
                               [] k \in moved  -> h[Parent(k)]
                               [] OTHER        -> h[k]]

(* The smaller child of k, the left one of two equals.                     *)
SmallerChild(h, k) ==
  IF 2 * k + 1 <= Len(h) /\ h[2 * k] > h[2 * k + 1] THEN 2 * k + 1 ELSE 2 * k

DownTo(h, temp) ==
  LET at[d \in 0 .. Len(h) - 1] ==      \* from k = Len(h) - d
        LET k == Len(h) - d
            c == SmallerChild(h, k)
        IN  IF 2 * k > Len(h) \/ temp <= h[c] THEN k ELSE at[Len(h) - c]
  IN  at[Len(h) - 1]

FilterDown(h) ==
  LET to   == DownTo(h, h[1])
      path == PathTo(h, to)
  IN  [k \in 1 .. Len(h) |-> CASE k = to      -> h[1]
                               [] k \in path \ {to} -> h[SmallerChild(h, k)]
                               [] OTHER       -> h[k]]

IsFull(h, max) == Len(h) = max

Insert(h, x, max) == IF IsFull(h, max) THEN h ELSE FilterUp(Append(h, x))

GetMin(h) == h[1]

RemoveMin(h) ==
  LET n == Len(h)
      rest == [k \in 1 .. n - 1 |-> IF k = 1 THEN h[n] ELSE h[k]]
  IN  IF n = 1 THEN <<>> ELSE FilterDown(rest)
=============================================================================
