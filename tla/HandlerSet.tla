----------------------------- MODULE HandlerSet -----------------------------
(***************************************************************************)
(* EventHanderSet of cpp/epoll/reactor.cpp and the reactor's functions     *)
(* that keep it in step with epoll, as operators on records, so that a     *)
(* handler can make several calls in a row:                                *)
(*                                                                         *)
(*   reg.map      m_fdmap: descriptor -> [type, handler]                   *)
(*   reg.epoll    the epoll set: descriptor -> events asked for            *)
(*   reg.failed   the last call returned -1                                *)
(*                                                                         *)
(*   tm.heap      m_timerMinHeap: end times                                *)
(*   tm.map       m_timerMultiMap: [key, who] in the order of the keys     *)
(***************************************************************************)
EXTENDS MiniHeap, SequencesExt

Has(f, x)  == x \in DOMAIN f
Drop(f, x) == [y \in DOMAIN f \ {x} |-> f[y]]
Set(f, x, v) == [y \in DOMAIN f \cup {x} |-> IF y = x THEN v ELSE f[y]]

NoHandlers == [map |-> <<>>, epoll |-> <<>>, failed |-> FALSE]

(* GetFDEventHandler leaves type alone, which is 0, for an unknown fd.     *)
TypeOf(reg, fd) == IF Has(reg.map, fd) THEN reg.map[fd].type ELSE {}

Fails(reg) == [reg EXCEPT !.failed = TRUE]

AddFDEventHandler(map, h, fd, type) ==
  Set(map, fd, [type |-> type \cup (IF Has(map, fd) THEN map[fd].type ELSE {}),
                handler |-> h])

DelFDEventHandler(map, fd, type) ==
  IF ~Has(map, fd) THEN map
  ELSE IF map[fd].type \subseteq type THEN Drop(map, fd)
  ELSE [map EXCEPT ![fd].type = @ \ type]

(* ADD is refused for a descriptor in the set, MOD and DEL for one that is *)
(* not.                                                                    *)
RegisterEvent(reg, h, fd, type) ==
  IF Has(reg.map, fd) # Has(reg.epoll, fd) THEN Fails(reg)
  ELSE [map    |-> AddFDEventHandler(reg.map, h, fd, {type}),
        epoll  |-> Set(reg.epoll, fd, TypeOf(reg, fd) \cup {type}),
        failed |-> FALSE]

\* Mutant: the event mask of MOD is that of the event to drop.
UnRegisterEvent_WrongMask(reg, fd, type) ==
  IF ~Has(reg.epoll, fd) THEN Fails(reg)
  ELSE [map    |-> DelFDEventHandler(reg.map, fd, {type}),
        epoll  |-> IF Has(reg.map, fd)
                   THEN [reg.epoll EXCEPT ![fd] = {type}]
                   ELSE Drop(reg.epoll, fd),
        failed |-> FALSE]

(* A known descriptor is modified, to no events at all if need be.         *)
UnRegisterEvent(reg, fd, type) ==
  IF ~Has(reg.epoll, fd) THEN Fails(reg)
  ELSE [map    |-> DelFDEventHandler(reg.map, fd, {type}),
        epoll  |-> IF Has(reg.map, fd)
                   THEN [reg.epoll EXCEPT ![fd] = TypeOf(reg, fd) \ {type}]
                   ELSE Drop(reg.epoll, fd),
        failed |-> FALSE]

UnRegisterBoth(reg, fd) == UnRegisterEvent(UnRegisterEvent(reg, fd, "IN"), fd, "OUT")

(* close() takes the descriptor out of the epoll set.                      *)
CloseFd(reg, fd) == [reg EXCEPT !.epoll = Drop(@, fd)]

-----------------------------------------------------------------------------

NoTimers == [heap |-> <<>>, map |-> <<>>]

(* std::multimap: behind the entries with the same key.                    *)
UpperBound(map, key) == Cardinality({i \in DOMAIN map : map[i].key <= key}) + 1

(* The heap refuses a time when it is full, and nobody looks.              *)
AddTimerEventHandler(tm, h, key, max) ==
  [heap |-> Insert(tm.heap, key, max),
   map  |-> InsertAt(tm.map, UpperBound(tm.map, key), [key |-> key, who |-> h])]

EntriesAt(map, key, h) == {i \in DOMAIN map : map[i] = [key |-> key, who |-> h]}

LeastOf(S) == CHOOSE i \in S : \A j \in S : i <= j

(* Looks under the end time that the handler has now; the heap keeps it.   *)
DelTimerEventHandler(tm, h, key) ==
  LET at == EntriesAt(tm.map, key, h)
  IN  IF at = {} THEN tm ELSE [tm EXCEPT !.map = RemoveAt(@, LeastOf(at))]
=============================================================================
