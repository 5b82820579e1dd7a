------------------------------ MODULE NodeSets ------------------------------
(***************************************************************************)
(* What src/Clang/map/ovs/hmap.h promises: every node is in one map or in  *)
(* none, moves only when its owner says so, and hmap_count is how many a   *)
(* map has.  Growing and shrinking changes nothing.                        *)
(***************************************************************************)
EXTENDS FiniteSets

CONSTANTS Nodes, Maps, Nowhere

VARIABLES
  home,   \* the map each node is in, or Nowhere
  size    \* hmap_count of each map

In(h, m) == {x \in Nodes : h[x] = m}

SetsInit == home = [x \in Nodes |-> Nowhere] /\ size = [m \in Maps |-> 0]

\* What may become of the homes h.
Entered(h) == {[h EXCEPT ![x] = m] : x \in In(h, Nowhere), m \in Maps}
Left(h) == {[h EXCEPT ![x] = Nowhere] : x \in Nodes}
Exchanged(h) == {[h EXCEPT ![x] = h[y], ![y] = Nowhere] : x \in In(h, Nowhere), y \in Nodes}
Swapped(h) == {[x \in Nodes |-> CASE h[x] = a -> b [] h[x] = b -> a [] OTHER -> h[x]] : a, b \in Maps}
Emptied(h) == {[x \in Nodes |-> IF h[x] = m THEN Nowhere ELSE h[x]] : m \in Maps}

SetsNext ==
  /\ home' # home
  /\ \E h \in {home} : home' \in UNION {Entered(h), Left(h), Exchanged(h), Swapped(h), Emptied(h)}
  /\ size' = [m \in Maps |-> Cardinality(In(home', m))]

Sets == SetsInit /\ [][SetsNext]_<<home, size>>
=============================================================================
