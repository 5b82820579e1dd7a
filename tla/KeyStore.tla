------------------------------ MODULE KeyStore ------------------------------
(***************************************************************************)
(* What a user of src/Clang/map/lwan/hash.h is promised: a finite map from *)
(* names to values, with the answers of each call.  An allocation may fail *)
(* at any time, and then nothing has changed.                              *)
(***************************************************************************)
EXTENDS Integers, FiniteSets

CONSTANTS Names, Values, Absent

VARIABLES
  store,   \* the value kept for each name, or Absent
  size,    \* what hash_get_count returns
  ret      \* the last call with a key: what the key said, and the answer

storeVars == <<store, size, ret>>

Kept(s) == {n \in Names : s[n] # Absent}

StoreInit == store = [n \in Names |-> Absent] /\ size = 0 /\ ret = <<>>

Becomes(s, answer) == ret' = answer /\ store' = s /\ size' = Cardinality(Kept(s))

Put(n, v) == Becomes([store EXCEPT ![n] = v], <<n, "ok">>)
PutRefused(n) == store[n] # Absent /\ Becomes(store, <<n, "EEXIST">>)
PutFails(n) == Becomes(store, <<n, "ENOMEM">>)
Remove(n) == store[n] # Absent /\ Becomes([store EXCEPT ![n] = Absent], <<n, "ok">>)
RemoveRefused(n) == store[n] = Absent /\ Becomes(store, <<n, "ENOENT">>)
Look(n) == Becomes(store, <<n, store[n]>>)
Forget == Becomes([n \in Names |-> Absent], <<>>)

AskedFor(n) == ret' # <<>> /\ ret'[1] = n

StoreNext ==
  \/ Forget
  \/ \E n \in Names :
       /\ AskedFor(n)
       /\ \/ PutRefused(n) \/ PutFails(n) \/ Remove(n) \/ RemoveRefused(n) \/ Look(n)
          \/ \E v \in Values : Put(n, v)

Store == StoreInit /\ [][StoreNext]_storeVars
=============================================================================
