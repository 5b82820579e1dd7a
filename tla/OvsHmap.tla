------------------------------ MODULE OvsHmap -------------------------------
(***************************************************************************)
(* The hash map of src/Clang/map/ovs (hmap.h, hmap.c): chains of nodes in  *)
(* an array of buckets that is on the heap or the map's own field `one`.   *)
(* An array is named by the map whose field it is or by an element of      *)
(* Arrays.  A chain is a sequence; the next pointer of a node that left    *)
(* its chain matters only to a loop that stands on it, and is kept there.  *)
(***************************************************************************)
EXTENDS Integers, Sequences, FiniteSets, SequencesExt, Bitwise

CONSTANTS
  Nodes,       \* nodes embedded in their users' data
  HmapMaps,    \* the users' maps
  Tmp,         \* the local map of resize
  Arrays,      \* what malloc returns for arrays of buckets
  HashOf,      \* the hash each node is inserted with
  Reserves,    \* the arguments of hmap_reserve
  Null

ASSUME HmapUsers == Tmp \notin HmapMaps /\ Null \notin Nodes /\ Arrays \cap (HmapMaps \cup {Tmp}) = {}
ASSUME HmapHashes == HashOf \in [Nodes -> Nat] /\ Reserves \subseteq Nat

VARIABLES
  hm,          \* the maps' structs, the arrays and the nodes' hashes
  walk         \* a loop over a map: HMAP_FOR_EACH, its SAFE form, or hmap_at_position

hmapVars == <<hm, walk>>

Places == HmapMaps \cup {Tmp}
Fresh(m) == [buckets |-> m, mask |-> 0, n |-> 0]
EmptyArray(mask) == [i \in 0..mask |-> <<>>]
NoArray == <<>>

\* calc_mask, for sizes below 256: all ones below the highest bit of capacity / 2,
\* and at least two ones.
Capacities == Reserves \cup 0..Cardinality(Nodes)
CalcMask ==
  [capacity \in Capacities |->
     LET half == capacity \div 2
         a == half | (half \div 2)
         b == a | (a \div 4)
         c == b | (b \div 16)
     IN c | ((c & 1) * 2)]

SlotOf == [hash \in {0} \cup {HashOf[x] : x \in Nodes}, mask \in {CalcMask[c] : c \in Capacities} |-> hash & mask]
Slot(w, m, hash) == SlotOf[hash, w.map[m].mask]
Bucket(w, m, i) == w.mem[w.map[m].buckets][i]
ChainOf(w, m, x) == Bucket(w, m, Slot(w, m, w.hash[x]))

HmapContains(w, m, x) == Contains(ChainOf(w, m, x), x)
NodesOf(w, m) == {x \in Nodes : HmapContains(w, m, x)}
Members(m) == NodesOf(hm, m)
InNone(w) == Nodes \ UNION {NodesOf(w, m) : m \in HmapMaps}

Destroy(w, m) == IF w.map[m].buckets = m THEN w ELSE [w EXCEPT !.mem[w.map[m].buckets] = NoArray]
InitMap(w, m) == [w EXCEPT !.map[m] = Fresh(m), !.mem[m] = EmptyArray(0)]

InsertFast(w, m, x, h) ==
  [w EXCEPT !.hash[x] = h, !.map[m].n = @ + 1,
            !.mem[w.map[m].buckets][Slot(w, m, h)] = <<x>> \o @]

Moved(w, m) == IF w.map[m].mask = 0 THEN [w EXCEPT !.map[m].buckets = m] ELSE w

Swap(w, a, b) ==
  Moved(Moved([w EXCEPT !.map[a] = w.map[b], !.map[b] = w.map[a],
                        !.mem[a] = w.mem[b], !.mem[b] = w.mem[a]], a), b)

\* resize: every node goes into a new table, the tables change places, the old
\* one is destroyed.  (The local map is then dead: its fields are wiped.)
NewTable(w, mask) ==
  LET a == CHOOSE a \in Arrays : w.mem[a] = NoArray
  IN IF mask = 0 THEN w
     ELSE [w EXCEPT !.map[Tmp].buckets = a, !.map[Tmp].mask = mask, !.mem[a] = EmptyArray(mask)]
\* Mutant: node->next is read after hmap_insert_fast set it.
Resize_Clobbered(w, m, mask) ==
  LET heads == FlattenSeq([i \in 1..(w.map[m].mask + 1) |->
                             IF Bucket(w, m, i - 1) = <<>> THEN <<>> ELSE <<Bucket(w, m, i - 1)[1]>>])
      filled == FoldLeft(LAMBDA v, x : InsertFast(v, Tmp, x, v.hash[x]), NewTable(w, mask), heads)
  IN InitMap(Destroy(Swap(filled, m, Tmp), Tmp), Tmp)

Resize(w, m, mask) ==
  LET all == FlattenSeq([i \in 1..(w.map[m].mask + 1) |-> Bucket(w, m, i - 1)])
      filled == FoldLeft(LAMBDA v, x : InsertFast(v, Tmp, x, v.hash[x]), NewTable(w, mask), all)
  IN InitMap(Destroy(Swap(filled, m, Tmp), Tmp), Tmp)

Expand(w, m, capacity) == IF CalcMask[capacity] > w.map[m].mask THEN Resize(w, m, CalcMask[capacity]) ELSE w
Shrink(w, m) == IF CalcMask[w.map[m].n] < w.map[m].mask THEN Resize(w, m, CalcMask[w.map[m].n]) ELSE w

InsertExpanding(w, m, x, h) ==
  LET v == InsertFast(w, m, x, h) IN IF v.map[m].n \div 2 > v.map[m].mask THEN Expand(v, m, v.map[m].n) ELSE v

Taken(w, m, x) ==
  [w EXCEPT !.mem[w.map[m].buckets][Slot(w, m, w.hash[x])] = Remove(@, x), !.map[m].n = @ - 1]

\* hmap_replace, and hmap_node_moved after the node's owner copied it.
Substitute(w, m, x, y) ==
  [w EXCEPT !.hash[y] = w.hash[x],
            !.mem[w.map[m].buckets][Slot(w, m, w.hash[x])] = ReplaceAll(@, x, y)]

Clear(w, m) ==
  IF w.map[m].n > 0 THEN [w EXCEPT !.map[m].n = 0, !.mem[w.map[m].buckets] = EmptyArray(w.map[m].mask)] ELSE w

\* hmap_next__, hmap_next and hmap_at_position with the position it stores.
NextFrom(w, m, start) ==
  LET used == {i \in start..w.map[m].mask : Bucket(w, m, i) # <<>>}
  IN IF used = {} THEN Null ELSE Bucket(w, m, CHOOSE i \in used : \A j \in used : i <= j)[1]
NextInChain(w, m, x) ==
  LET c == ChainOf(w, m, x)
      i == CHOOSE i \in DOMAIN c : c[i] = x
  IN CASE ~Contains(c, x) -> walk.next
       [] i < Len(c) -> c[i + 1]
       [] OTHER -> Null
NextNode(w, m, x) ==
  IF NextInChain(w, m, x) # Null THEN NextInChain(w, m, x) ELSE NextFrom(w, m, Slot(w, m, w.hash[x]) + 1)
AtPosition(w, m, b, o) ==
  IF b <= w.map[m].mask /\ o < Len(Bucket(w, m, b)) THEN Bucket(w, m, b)[o + 1] ELSE NextFrom(w, m, b + 1)
\* Mutant: the offset is kept when the position moves to the next bucket.
PositionAfter_KeepsOffset(w, m, b, o, x) ==
  LET s == Slot(w, m, w.hash[x])
  IN IF NextInChain(w, m, x) # Null THEN <<s, o + 1>> ELSE <<s + 1, o>>

PositionAfter(w, m, b, o, x) ==
  LET s == Slot(w, m, w.hash[x])
  IN IF NextInChain(w, m, x) # Null THEN <<s, (IF s = b THEN o ELSE 0) + 1>> ELSE <<s + 1, 0>>
-----------------------------------------------------------------------------
\* cur: the node a loop stands on, and the next field it kept when it was taken
\* out; saved: NEXT of the SAFE form; due and done: what the loop has yet to
\* meet and what it has met, of the nodes that were in the map all along.
NoWalk == [kind |-> "none", map |-> Tmp, cur |-> Null, next |-> Null, saved |-> Null,
           pos |-> <<0, 0>>, due |-> {}, done |-> {}]

HmapInit ==
  /\ hm = [map |-> [m \in Places |-> Fresh(m)],
           mem |-> [p \in Places \cup Arrays |-> IF p \in Places THEN EmptyArray(0) ELSE NoArray],
           hash |-> [x \in Nodes |-> 0]]
  /\ walk = NoWalk

\* A loop's body leaves alone what the loop goes on from: the saved node of the
\* SAFE form, else the current one, once removed, and the one behind it.
WalkOn(m) == walk.kind # "none" /\ walk.map = m
Needed == CASE walk.kind = "safe" -> {walk.saved}
            [] walk.kind = "each" /\ walk.cur \in InNone(hm) -> {walk.cur, walk.next}
            [] OTHER -> {}

\* A call leaves the memory w.  A loop over m owes a visit to the nodes that
\* stay in m, and to none once m was rehashed, or changed between two calls of
\* hmap_at_position.  The hash in a node that nobody will read is forgotten.
Change(w, m, gone) ==
  LET idle == InNone(w) \ {walk.cur}
      owing == WalkOn(m) /\ walk.kind # "position" /\ w.map[m].mask = hm.map[m].mask
  IN
  /\ hm' = [w EXCEPT !.hash = [x \in Nodes |-> IF x \in idle THEN 0 ELSE @[x]]]
  /\ walk' = IF ~WalkOn(m) THEN walk
             ELSE [walk EXCEPT !.due = IF owing THEN @ \ gone ELSE {}, !.done = IF owing THEN @ \ gone ELSE {},
                               !.next = IF walk.cur \in gone THEN NextInChain(hm, m, walk.cur) ELSE @]

HmapInsertFast(m, x) == Change(InsertFast(hm, m, x, HashOf[x]), m, {})
HmapInsert(m, x) == Change(InsertExpanding(hm, m, x, HashOf[x]), m, {})
HmapRemove(m, x) == Change(Taken(hm, m, x), m, {x})
HmapReplace(m, x, y) == Change(Substitute(hm, m, x, y), m, {x})
HmapExpand(m) == Change(Expand(hm, m, hm.map[m].n), m, {})
HmapReserve(m, k) == Change(Expand(hm, m, k), m, {})
HmapShrink(m) == Change(Shrink(hm, m), m, {})
HmapClear(m) == ~WalkOn(m) /\ Change(Clear(hm, m), m, {})
HmapDestroy(m) == ~WalkOn(m) /\ Change(InitMap(Destroy(hm, m), m), m, {})
HmapSwap(a, b) == ~WalkOn(a) /\ ~WalkOn(b) /\ Change(Swap(hm, a, b), a, {})

Meeting(w, x) == [w EXCEPT !.due = @ \ {x}, !.done = IF x \in w.due THEN @ \cup {x} ELSE @]
StandOn(w, x) ==
  Meeting([w EXCEPT !.cur = x, !.next = Null,
                    !.saved = IF w.kind = "safe" THEN NextNode(hm, w.map, x) ELSE Null], x)

BeginEach(kind, m) ==
  /\ walk.kind = "none" /\ NextFrom(hm, m, 0) # Null
  /\ walk' = StandOn([NoWalk EXCEPT !.kind = kind, !.map = m, !.due = Members(m)], NextFrom(hm, m, 0))
  /\ UNCHANGED hm
BeginPositions(m) ==
  /\ walk.kind = "none" /\ walk' = [NoWalk EXCEPT !.kind = "position", !.map = m, !.due = Members(m)]
  /\ UNCHANGED hm

\* The node a loop comes to next, or Null: it ends.
Ahead == CASE walk.kind = "safe" -> walk.saved
           [] walk.kind = "each" -> NextNode(hm, walk.map, walk.cur)
           [] OTHER -> AtPosition(hm, walk.map, walk.pos[1], walk.pos[2])
EachGoesOn ==
  /\ walk.kind \in {"each", "safe"} /\ Ahead # Null /\ walk' = StandOn(walk, Ahead) /\ UNCHANGED hm
PositionGoesOn ==
  /\ walk.kind = "position" /\ Ahead # Null
  /\ walk' = Meeting([walk EXCEPT !.pos = PositionAfter(hm, walk.map, walk.pos[1], walk.pos[2], Ahead)], Ahead)
  /\ UNCHANGED hm
WalkEnds == walk.kind # "none" /\ Ahead = Null /\ walk' = NoWalk /\ UNCHANGED hm

HmapNext ==
  \/ \E m \in HmapMaps :
       \/ \E x \in InNone(hm) \ Needed : HmapInsertFast(m, x) \/ HmapInsert(m, x)
       \/ \E x \in Members(m) \ Needed : HmapRemove(m, x) \/ \E y \in InNone(hm) \ Needed : HmapReplace(m, x, y)
       \/ HmapExpand(m) \/ HmapShrink(m) \/ HmapClear(m) \/ HmapDestroy(m)
       \/ \E k \in Reserves : HmapReserve(m, k)
       \/ \E b \in HmapMaps \ {m} : HmapSwap(m, b)
       \/ BeginEach("each", m) \/ BeginEach("safe", m) \/ BeginPositions(m)
  \/ EachGoesOn \/ PositionGoesOn \/ WalkEnds

HmapSpec == HmapInit /\ [][HmapNext]_hmapVars
-----------------------------------------------------------------------------
\* The arrays of buckets through resize, swap, shrink and destroy: a map has its
\* own field exactly while its mask is 0 (the comment of hmap_moved), a mask is
\* all ones (the assertion of resize), the array is as long as the mask says,
\* every array on the heap is one map's, and none is lost.
ArraysOwnedOnce ==
  /\ \A m \in HmapMaps :
       LET s == hm.map[m] IN
       /\ (s.buckets = m) <=> (s.mask = 0)
       /\ (s.mask & (s.mask + 1)) = 0
       /\ s.buckets \in Arrays \cup {m} /\ DOMAIN hm.mem[s.buckets] = 0..s.mask
  /\ \A m, k \in HmapMaps : hm.map[m].buckets = hm.map[k].buckets => m = k
  /\ \A a \in Arrays : hm.mem[a] # NoArray => \E m \in HmapMaps : hm.map[m].buckets = a

\* HMAP_FOR_EACH, its SAFE form and hmap_at_position: a loop comes only to nodes
\* that are in the map, never twice to one that was in it all along, and ends
\* when it has met all of those, unless the map was rehashed under it.
WalksMeetAll ==
  [][/\ EachGoesOn \/ PositionGoesOn => Ahead \in Members(walk.map) \ walk.done
     /\ WalkEnds => walk.due = {}]_hmapVars

\* The chains, arrays and masks implement sets of nodes with their counts.
NS == INSTANCE NodeSets WITH Maps <- HmapMaps, Nowhere <- Null,
        home <- [x \in Nodes |-> LET in == {m \in HmapMaps : HmapContains(hm, m, x)}
                                 IN IF in = {} THEN Null ELSE CHOOSE m \in in : TRUE],
        size <- [m \in HmapMaps |-> hm.map[m].n]
ImplementsNodeSets == NS!Sets

\* hmap.h, hmap.c: a map is the set of the nodes that were put in it, through every
\* resize, swap and refused call, and the loops over it meet all of it.
MapsAreNodeSets == ImplementsNodeSets /\ WalksMeetAll
=============================================================================
