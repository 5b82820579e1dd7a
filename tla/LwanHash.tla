------------------------------ MODULE LwanHash ------------------------------
(***************************************************************************)
(* The hash table of src/Clang/map/lwan/hash.c: an array of buckets, each  *)
(* a packed array of entries that is grown and shrunk in steps.  A key or  *)
(* value is a pointer: the table keeps what it is given and, when it was   *)
(* made with free functions, owns it from then on.                         *)
(***************************************************************************)
EXTENDS Integers, Sequences, FiniteSets

CONSTANTS
  NBuckets,    \* n_buckets
  Steps,       \* steps, by which an array of entries grows
  KeyPtrs,     \* pointers to keys
  Values,      \* pointers to values
  Names,       \* what keys say: key_compare tells only names apart
  NameOf,      \* the name each key pointer points at
  BucketOf,    \* hash_value(key) & (n_buckets - 1), by name
  FreePairs,   \* the pairs <<free_key given, free_value given>> tables are made with
  Readds,      \* whether callers add pointers the table already owns
  Absent       \* NULL, the answer of a hash_find that found nothing

Buckets == 0..(NBuckets - 1)

\* hash_add relies on steps > 1: the first entry must leave room for one more.
ASSUME HashSizes == NBuckets \in Nat \ {0} /\ Steps \in Nat \ {0, 1}
ASSUME HashKeys == /\ NameOf \in [KeyPtrs -> Names] /\ BucketOf \in [Names -> Buckets]
                   /\ IsFiniteSet(Names)
ASSUME HashPointers == /\ KeyPtrs \cap Values = {} /\ Absent \notin Values
                       /\ {"ok", "EEXIST", "ENOMEM", "ENOENT"} \cap (Values \cup {Absent}) = {}
ASSUME HashOptions == FreePairs \subseteq BOOLEAN \X BOOLEAN /\ Readds \in BOOLEAN

VARIABLES
  entries,     \* per bucket, the entries in use, in order
  total,       \* per bucket, for how many entries there is memory
  count,       \* hash->count
  frees,       \* <<free_key # NULL, free_value # NULL>>, or <<>> when there is no table
  owned,       \* the pointers the table is to free
  answer,      \* what the last call with a key returned, with what the key says
  iter,        \* the hash_iter, and whether an iteration is on
  met,         \* how often the iteration has returned each name of steady
  steady       \* the names present all along that no deletion moved past the iterator

tableVars == <<entries, total, count, frees, owned>>
iterVars == <<iter, met, steady>>
hashVars == <<entries, total, count, frees, owned, answer, iter, met, steady>>

Entry == [key : KeyPtrs, value : Values]
Used(b) == Len(entries[b])
NameAt(b, i) == NameOf[entries[b][i].key]
InBucket(b) == {NameAt(b, i) : i \in 1..Used(b)}
Present == UNION {InBucket(b) : b \in Buckets}

\* hash_find_entry: the first entry of its bucket that has the name.
Finds(n, i) == LET b == BucketOf[n]
               IN i \in 1..Used(b) /\ NameAt(b, i) = n /\ \A j \in 1..(i - 1) : NameAt(b, j) # n
Missing(n) == n \notin InBucket(BucketOf[n])

\* The pointers that the table owns of a key and a value, by its free functions.
Freed(k, v) == (IF frees[1] THEN {k} ELSE {}) \cup (IF frees[2] THEN {v} ELSE {})

Idle == [on |-> FALSE, bucket |-> 0, entry |-> -1]
NoIteration == iter = Idle /\ met = [n \in Names |-> 0] /\ steady = {}

HashInit ==
  /\ entries = [b \in Buckets |-> <<>>] /\ total = [b \in Buckets |-> 0] /\ count = 0
  /\ frees = <<>> /\ owned = {} /\ answer = <<>> /\ NoIteration

HashNew ==
  /\ frees = <<>> /\ frees' \in FreePairs /\ answer' = <<>>
  /\ UNCHANGED <<entries, total, count, owned, iterVars>>

\* Mutant: only values are freed.
FreedAtEnd_ValuesOnly ==
  {e \in owned : frees[2] /\ \E b \in Buckets : \E i \in 1..Used(b) : e = entries[b][i].value}

\* What hash_free lets go of: keys are freed only in the branch for values.
FreedAtEnd ==
  {e \in owned : frees[2] /\ \E b \in Buckets : \E i \in 1..Used(b) :
                   e \in Freed(entries[b][i].key, entries[b][i].value)}

HashFree ==
  /\ frees # <<>>
  /\ entries' = [b \in Buckets |-> <<>>] /\ total' = [b \in Buckets |-> 0] /\ count' = 0
  /\ owned' = owned \ FreedAtEnd
  /\ frees' = <<>> /\ answer' = <<>>
  /\ iter' = Idle /\ met' = [n \in Names |-> 0] /\ steady' = {}

\* Callers own what they add: never a pointer that the table is to free.
CallerHas(k, v) == frees # <<>> /\ (Readds \/ {k, v} \cap owned = {})

\* Mutant: an array is grown only when it is full.
NeedsRoom_WhenFull(b) == Used(b) >= total[b]

NeedsRoom(b) == Used(b) + 1 >= total[b]

MakesRoom(b) == total' = [total EXCEPT ![b] = IF NeedsRoom(b) THEN @ + Steps ELSE @]

AddFails(k, v) ==
  /\ CallerHas(k, v) /\ NeedsRoom(BucketOf[NameOf[k]])
  /\ answer' = <<NameOf[k], "ENOMEM">> /\ UNCHANGED <<tableVars, iterVars>>

\* The end of hash_add and of hash_add_unique, for a name that is not there.
AddsLast(k, v) ==
  LET b == BucketOf[NameOf[k]] IN
  /\ CallerHas(k, v) /\ Missing(NameOf[k]) /\ MakesRoom(b)
  /\ entries' = [entries EXCEPT ![b] = Append(@, [key |-> k, value |-> v])]
  /\ count' = count + 1 /\ owned' = owned \cup Freed(k, v) /\ answer' = <<NameOf[k], "ok">>
  /\ UNCHANGED <<frees, iterVars>>

\* The branch of hash_add for a name that is there: the old pair is freed and
\* the new pointers take its place.
Replace(k, v) ==
  LET b == BucketOf[NameOf[k]] IN
  /\ CallerHas(k, v) /\ MakesRoom(b)
  /\ \E i \in 1..Used(b) :
       /\ Finds(NameOf[k], i)
       /\ entries' = [entries EXCEPT ![b][i] = [key |-> k, value |-> v]]
       /\ owned' = (owned \cup Freed(k, v)) \ Freed(entries[b][i].key, entries[b][i].value)
  /\ answer' = <<NameOf[k], "ok">> /\ UNCHANGED <<count, frees, iterVars>>

AddUniqueRefused(k, v) ==
  LET b == BucketOf[NameOf[k]] IN
  /\ CallerHas(k, v) /\ ~Missing(NameOf[k]) /\ MakesRoom(b)
  /\ answer' = <<NameOf[k], "EEXIST">> /\ UNCHANGED <<entries, count, frees, owned, iterVars>>

\* Mutant: the memmove starts one entry too late.
Without_OneTooFar(s, i) == [j \in 1..(Len(s) - 1) |-> IF j <= i THEN s[j] ELSE s[j + 1]]

\* hash_del moves the entries behind the deleted one up by one, and gives
\* memory back when more than a step is unused; that realloc may fail.
Without(s, i) == [j \in 1..(Len(s) - 1) |-> IF j < i THEN s[j] ELSE s[j + 1]]

Fitting(b) == LET needed == (Used(b) - 1) \div Steps + 1
              IN IF needed < total[b] \div Steps THEN {needed * Steps, total[b]} ELSE {total[b]}

MovedPast(b, i) == IF b = iter.bucket /\ i - 1 <= iter.entry
                   THEN {NameAt(b, j) : j \in (i + 1)..Used(b)} ELSE {}

HashDel(n) ==
  LET b == BucketOf[n] IN
  /\ frees # <<>>
  /\ \E i \in 1..Used(b) :
       /\ Finds(n, i)
       /\ entries' = [entries EXCEPT ![b] = Without(@, i)]
       /\ owned' = owned \ Freed(entries[b][i].key, entries[b][i].value)
       /\ steady' = steady \ ({n} \cup MovedPast(b, i))
       /\ met' = [x \in Names |-> IF x \in steady' THEN met[x] ELSE 0]
  /\ \E t \in Fitting(b) : total' = [total EXCEPT ![b] = t]
  /\ count' = count - 1 /\ answer' = <<n, "ok">> /\ UNCHANGED <<frees, iter>>

HashDelRefused(n) ==
  /\ frees # <<>> /\ Missing(n) /\ answer' = <<n, "ENOENT">> /\ UNCHANGED <<tableVars, iterVars>>

HashFind(n) ==
  /\ frees # <<>>
  /\ \/ Missing(n) /\ answer' = <<n, Absent>>
     \/ \E i \in 1..Used(BucketOf[n]) : Finds(n, i) /\ answer' = <<n, entries[BucketOf[n]][i].value>>
  /\ UNCHANGED <<tableVars, iterVars>>

IterInit ==
  /\ frees # <<>>
  /\ iter' = [Idle EXCEPT !.on = TRUE] /\ met' = [n \in Names |-> 0] /\ steady' = Present
  /\ UNCHANGED <<tableVars, answer>>

\* Where hash_iter_next stops: the next entry of its bucket, else the first one
\* of the next bucket in use.
StopsAt(b, e) ==
  \/ b = iter.bucket /\ e = iter.entry + 1 /\ e < Used(b)
  \/ /\ iter.entry + 1 >= Used(iter.bucket) /\ e = 0
     /\ b > iter.bucket /\ Used(b) > 0 /\ \A c \in (iter.bucket + 1)..(b - 1) : Used(c) = 0

IterNext ==
  /\ iter.on
  /\ \E b \in Buckets : \E e \in 0..(Used(b) - 1) :
       /\ StopsAt(b, e) /\ iter' = [iter EXCEPT !.bucket = b, !.entry = e]
       /\ met' = [met EXCEPT ![NameAt(b, e + 1)] = IF NameAt(b, e + 1) \in steady THEN @ + 1 ELSE @]
  /\ UNCHANGED <<tableVars, answer, steady>>

\* hash_iter_next returns false, and its caller does not call it again.
IterEnds ==
  /\ iter.on /\ iter.entry + 1 >= Used(iter.bucket)
  /\ \A b \in (iter.bucket + 1)..(NBuckets - 1) : Used(b) = 0
  /\ iter' = Idle /\ met' = [n \in Names |-> 0] /\ steady' = {}
  /\ UNCHANGED <<tableVars, answer>>

HashAdd(k, v) == AddFails(k, v) \/ AddsLast(k, v) \/ Replace(k, v)
HashAddUnique(k, v) == AddFails(k, v) \/ AddsLast(k, v) \/ AddUniqueRefused(k, v)

HashNext ==
  \/ HashNew \/ HashFree \/ IterInit \/ IterNext \/ IterEnds
  \/ \E n \in Names : HashDel(n) \/ HashDelRefused(n) \/ HashFind(n)
  \/ \E k \in KeyPtrs, v \in Values : HashAdd(k, v) \/ HashAddUnique(k, v)

HashSpec == HashInit /\ [][HashNext]_hashVars
-----------------------------------------------------------------------------
\* Type invariant of the table, its owner's set and the iterator.
HashTypeOK ==
  /\ entries \in [Buckets -> Seq(Entry)] /\ total \in [Buckets -> Nat] /\ count \in Nat
  /\ frees \in FreePairs \cup {<<>>} /\ owned \subseteq KeyPtrs \cup Values
  /\ answer \in {<<>>} \cup Names \X ({"ok", "EEXIST", "ENOMEM", "ENOENT", Absent} \cup Values)
  /\ iter \in [on : BOOLEAN, bucket : Buckets, entry : Int] /\ iter.entry >= -1
  /\ met \in [Names -> Nat] /\ steady \subseteq Names

\* The memmove of hash_del reads one entry behind the last: the array of a
\* bucket in use always has room for one entry more than it holds.
RoomForOneMore == \A b \in Buckets : Used(b) < total[b] \/ (Used(b) = 0 /\ total[b] = 0)

\* Who frees what (hash_add, hash_del, hash_free): the pointers the table is to
\* free are those of its entries, none of them in two entries.  A pointer in an
\* entry and not owned was freed under it, one owned and in no entry is leaked.
OwnsWhatItHolds ==
  /\ owned = UNION {UNION {Freed(entries[b][i].key, entries[b][i].value) : i \in 1..Used(b)} : b \in Buckets}
  /\ \A b, c \in Buckets : \A i \in 1..Used(b), j \in 1..Used(c) :
       (Freed(entries[b][i].key, entries[b][i].value)
          \cap Freed(entries[c][j].key, entries[c][j].value) # {}) => b = c /\ i = j

\* An iteration (hash_iter_init, hash_iter_next) that runs to its end has met
\* each name that was there all along exactly once, whatever was added or
\* replaced meanwhile and unless a deletion moved entries past the iterator.
IterationMeetsAll == [][IterEnds => \A n \in steady : met[n] = 1]_hashVars

\* The table implements the map its callers see, answers and count included.
ValueOf(n) == entries[BucketOf[n]][CHOOSE i \in 1..Used(BucketOf[n]) : NameAt(BucketOf[n], i) = n].value
Contents == [n \in Names |-> IF n \in Present THEN ValueOf(n) ELSE Absent]
KS == INSTANCE KeyStore WITH store <- Contents, size <- count, ret <- answer
ImplementsKeyStore == KS!Store

\* hash_add, hash_del, hash_find, hash_get_count and the iterator: the table is a
\* dictionary from names to values, and iterating over it meets all of it.
HashIsDictionary == ImplementsKeyStore /\ IterationMeetsAll
=============================================================================
