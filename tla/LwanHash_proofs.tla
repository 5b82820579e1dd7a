--------------------------- MODULE LwanHash_proofs ---------------------------
(***************************************************************************)
(* Proofs about the hash table of lwan: it is a dictionary, it never reads *)
(* behind its arrays, it owns what it holds, and an iteration over it      *)
(* meets everything, for any number of buckets, names and pointers.        *)
(***************************************************************************)
EXTENDS LwanHash, FiniteSetTheorems, TLAPS

(* The entries E of a table: each is in the bucket of its name, and no name   *)
(* is in two of them.                                                         *)
At(E, b, i) == NameOf[E[b][i].key]
IsTable(E) ==
  /\ E \in [Buckets -> Seq(Entry)]
  /\ \A b \in Buckets : \A i \in 1..Len(E[b]) : BucketOf[At(E, b, i)] = b
  /\ \A b \in Buckets : \A i, j \in 1..Len(E[b]) : At(E, b, i) = At(E, b, j) => i = j

(* Where the entries E have a name, and what they keep for each.              *)
HasAt(E, n, i) == i \in 1..Len(E[BucketOf[n]]) /\ At(E, BucketOf[n], i) = n
Has(E) == {n \in Names : \E i \in Nat : HasAt(E, n, i)}
Keeps(E) ==
  [n \in Names |->
     IF n \in Has(E)
     THEN E[BucketOf[n]][CHOOSE i \in 1..Len(E[BucketOf[n]]) : At(E, BucketOf[n], i) = n].value
     ELSE Absent]

(* What the calls make of the entries E: one added behind the others, the one *)
(* at j replaced, the one at j deleted; and where what is at i then was.      *)
Pair(k, v) == [key |-> k, value |-> v]
Appends(E, F, k, v) == F = [E EXCEPT ![BucketOf[NameOf[k]]] = Append(@, [key |-> k, value |-> v])]
Replaces(E, F, k, v, j) ==
  HasAt(E, NameOf[k], j) /\ F = [E EXCEPT ![BucketOf[NameOf[k]]][j] = [key |-> k, value |-> v]]
Deletes(E, F, n, j) == HasAt(E, n, j) /\ F = [E EXCEPT ![BucketOf[n]] = Without(@, j)]
Was(n, j, m, i) == IF BucketOf[m] = BucketOf[n] /\ i >= j THEN i + 1 ELSE i

(* What each of these leaves of a table, E before and F after it: p is the    *)
(* pair of the name n, in the bucket b.                                       *)
OneAppended(E, F, n, b, p) ==
  /\ IsTable(F) /\ n \in Names /\ b \in Buckets
  /\ Len(F[b]) = Len(E[b]) + 1 /\ F[b][Len(E[b]) + 1] = p
  /\ \A i \in 1..Len(E[b]) : F[b][i] = E[b][i]
  /\ \A c \in Buckets \ {b} : F[c] = E[c]
  /\ \A m \in Names, i \in Nat : HasAt(F, m, i) <=> HasAt(E, m, i) \/ (m = n /\ i = Len(E[b]) + 1)
OneReplaced(E, F, n, b, j, p) ==
  /\ IsTable(F) /\ n \in Names /\ b \in Buckets /\ j \in 1..Len(E[b])
  /\ \A c \in Buckets : Len(F[c]) = Len(E[c])
  /\ F[b][j] = p
  /\ \A c \in Buckets : \A i \in 1..Len(E[c]) : (c # b \/ i # j) => F[c][i] = E[c][i]
  /\ \A m \in Names, i \in Nat : HasAt(F, m, i) <=> HasAt(E, m, i)
OneDeleted(E, F, n, b, j) ==
  /\ IsTable(F) /\ b \in Buckets /\ j \in 1..Len(E[b])
  /\ Len(F[b]) = Len(E[b]) - 1
  /\ \A c \in Buckets \ {b} : F[c] = E[c]
  /\ \A i \in 1..Len(F[b]) : F[b][i] = IF i < j THEN E[b][i] ELSE E[b][i + 1]
  /\ \A m \in Names, i \in Nat :
       HasAt(F, m, i) <=> m # n /\ HasAt(E, m, Was(n, j, m, i))

(* A name that was there all along has been met if it is not behind the       *)
(* iterator.                                                                  *)
Passed(n, i) == BucketOf[n] < iter.bucket \/ (BucketOf[n] = iter.bucket /\ i - 1 <= iter.entry)
IterInv ==
  /\ steady \subseteq Has(entries) /\ (~iter.on => steady = {})
  /\ \A n \in steady : \A i \in Nat : HasAt(entries, n, i) => met[n] = (IF Passed(n, i) THEN 1 ELSE 0)

Counted == count = Cardinality(Has(entries))
NoTable == frees = <<>> => \A b \in Buckets : entries[b] = <<>>
TableInv == HashTypeOK /\ IsTable(entries) /\ RoomForOneMore /\ Counted /\ NoTable
HashInv == TableInv /\ IterInv
-----------------------------------------------------------------------------
(* What a table has at a place.                                                *)
LEMMA PlaceOK ==
  ASSUME NEW E, IsTable(E), NEW b \in Buckets
  PROVE  /\ E[b] \in Seq(Entry) /\ Len(E[b]) \in Nat
         /\ \A i \in 1..Len(E[b]) : /\ E[b][i] \in Entry /\ E[b][i].key \in KeyPtrs /\ E[b][i].value \in Values
                                    /\ At(E, b, i) \in Names /\ HasAt(E, At(E, b, i), i) /\ At(E, b, i) \in Has(E)
<1>1. E[b] \in Seq(Entry) /\ Len(E[b]) \in Nat
  BY DEF IsTable
<1>2. ASSUME NEW i \in 1..Len(E[b])
      PROVE  /\ E[b][i] \in Entry /\ E[b][i].key \in KeyPtrs /\ E[b][i].value \in Values
             /\ At(E, b, i) \in Names /\ HasAt(E, At(E, b, i), i) /\ At(E, b, i) \in Has(E)
  <2>1. E[b][i] \in Entry
    BY <1>1
  <2>2. E[b][i].key \in KeyPtrs /\ E[b][i].value \in Values
    BY <2>1 DEF Entry
  <2>3. At(E, b, i) \in Names
    BY <2>2, HashKeys DEF At
  <2>4. HasAt(E, At(E, b, i), i)
    BY DEF IsTable, HasAt
  <2>5. i \in Nat
    BY <1>1
  <2>6. QED
    BY <2>1, <2>2, <2>3, <2>4, <2>5 DEF Has
<1>3. QED
  BY <1>1, <1>2

(* A name is in one place at most, and there is what is kept for it.           *)
LEMMA KeepsWhat ==
  ASSUME NEW E, IsTable(E), NEW n \in Names
  PROVE  /\ \A i, j \in Nat : HasAt(E, n, i) /\ HasAt(E, n, j) => i = j
         /\ \A i \in Nat : HasAt(E, n, i) => Keeps(E)[n] = E[BucketOf[n]][i].value /\ Keeps(E)[n] \in Values
         /\ n \notin Has(E) => Keeps(E)[n] = Absent
         /\ n \in Has(E) => Keeps(E)[n] # Absent
<1>1. BucketOf[n] \in Buckets
  BY HashKeys
<1>2. \A i, j \in Nat : HasAt(E, n, i) /\ HasAt(E, n, j) => i = j
  BY <1>1 DEF IsTable, HasAt
<1>3. ASSUME NEW i \in Nat, HasAt(E, n, i) PROVE Keeps(E)[n] = E[BucketOf[n]][i].value /\ Keeps(E)[n] \in Values
  <2> DEFINE c == CHOOSE j \in 1..Len(E[BucketOf[n]]) : At(E, BucketOf[n], j) = n
  <2>1. c \in 1..Len(E[BucketOf[n]]) /\ At(E, BucketOf[n], c) = n
    BY <1>3 DEF HasAt
  <2>2. Keeps(E)[n] = E[BucketOf[n]][c].value
    BY <1>3 DEF Keeps, Has
  <2> HIDE DEF c
  <2>3. Len(E[BucketOf[n]]) \in Nat
    BY <1>1, PlaceOK
  <2>4. c \in Nat /\ HasAt(E, n, c)
    BY <2>1, <2>3 DEF HasAt
  <2>5. c = i
    BY <1>2, <1>3, <2>4
  <2>6. E[BucketOf[n]][i].value \in Values
    BY <1>1, <1>3, PlaceOK DEF HasAt
  <2>7. QED
    BY <2>2, <2>5, <2>6
<1>4. n \notin Has(E) => Keeps(E)[n] = Absent
  BY DEF Keeps
<1>5. n \in Has(E) => Keeps(E)[n] # Absent
  BY <1>3, HashPointers DEF Has
<1>6. QED
  BY <1>2, <1>3, <1>4, <1>5

(* The names and the answers of the module, in these words.                    *)
LEMMA InWords ==
  ASSUME IsTable(entries)
  PROVE  /\ Present = Has(entries) /\ Contents = Keeps(entries)
         /\ \A n \in Names : Missing(n) <=> n \notin Has(entries)
         /\ \A n \in Names : \A i : Finds(n, i) <=> HasAt(entries, n, i)
<1>1. \A b \in Buckets : \A i : NameAt(b, i) = At(entries, b, i)
  BY DEF NameAt, At
<1>2. ASSUME NEW n \in Present PROVE n \in Has(entries)
  <2>1. PICK b \in Buckets : \E i \in 1..Len(entries[b]) : n = At(entries, b, i)
    BY <1>1 DEF Present, InBucket, Used
  <2>2. QED
    BY <2>1, PlaceOK
<1>3. ASSUME NEW n \in Has(entries) PROVE n \in InBucket(BucketOf[n]) /\ n \in Present
  <2>1. BucketOf[n] \in Buckets
    BY HashKeys DEF Has
  <2>2. QED
    BY <1>1, <2>1 DEF Has, HasAt, Present, InBucket, Used
<1>4. Present = Has(entries)
  BY <1>2, <1>3
<1>5. \A n \in Names : Missing(n) <=> n \notin Has(entries)
  <2>1. \A n \in Names : BucketOf[n] \in Buckets
    BY HashKeys
  <2>2. QED
    BY <1>2, <1>3, <2>1 DEF Missing, Present
<1>6. Contents = Keeps(entries)
  <2>1. \A n \in Names : BucketOf[n] \in Buckets
    BY HashKeys
  <2>2. \A n \in Names : Contents[n] = Keeps(entries)[n]
    BY <1>4, <2>1 DEF Contents, Keeps, ValueOf, NameAt, At, Used
  <2>3. QED
    BY <2>2 DEF Contents, Keeps
<1>7. ASSUME NEW n \in Names, NEW i PROVE Finds(n, i) <=> HasAt(entries, n, i)
  <2>1. BucketOf[n] \in Buckets /\ Len(entries[BucketOf[n]]) \in Nat
    BY HashKeys, PlaceOK
  <2>2. Finds(n, i) => HasAt(entries, n, i)
    BY DEF Finds, HasAt, Used, NameAt, At
  <2>3. ASSUME HasAt(entries, n, i), NEW j \in 1..(i - 1), NameAt(BucketOf[n], j) = n PROVE FALSE
    <3>1. j \in Nat /\ i \in Nat /\ HasAt(entries, n, j) /\ j # i
      BY <2>1, <2>3 DEF HasAt, NameAt, At
    <3>2. QED
      BY <2>3, <3>1, KeepsWhat
  <2>4. HasAt(entries, n, i) => Finds(n, i)
    BY <2>3 DEF Finds, HasAt, Used, NameAt, At
  <2>5. QED
    BY <2>2, <2>4
<1>8. QED
  BY <1>4, <1>5, <1>6, <1>7

-----------------------------------------------------------------------------
(* An entry behind the last of its bucket.                                     *)
LEMMA AppendedEntry ==
  ASSUME NEW E, IsTable(E), NEW k \in KeyPtrs, NEW v \in Values, NEW n, n = NameOf[k], NEW b, b = BucketOf[n],
         n \notin Has(E), NEW F, Appends(E, F, k, v)
  PROVE  OneAppended(E, F, n, b, Pair(k, v))
<1>1. n \in Names /\ b \in Buckets
  BY HashKeys
<1>2. PICK e : e = [key |-> k, value |-> v]
  OBVIOUS
<1>3. e \in Entry /\ e.key = k
  BY <1>2 DEF Entry
<1>4. E[b] \in Seq(Entry) /\ Len(E[b]) \in Nat /\ E \in [Buckets -> Seq(Entry)]
  BY <1>1 DEF IsTable
<1>5. F[b] = Append(E[b], e) /\ F \in [Buckets -> Seq(Entry)] /\ \A c \in Buckets \ {b} : F[c] = E[c]
  BY <1>1, <1>2, <1>3, <1>4 DEF Appends
<1>6. Len(F[b]) = Len(E[b]) + 1 /\ F[b][Len(E[b]) + 1] = e /\ \A i \in 1..Len(E[b]) : F[b][i] = E[b][i]
  BY <1>3, <1>4, <1>5
<1>7. At(F, b, Len(E[b]) + 1) = n /\ \A i \in 1..Len(E[b]) : At(F, b, i) = At(E, b, i)
  BY <1>3, <1>6 DEF At
<1>8. \A i \in 1..Len(E[b]) : At(E, b, i) # n
  BY <1>1, PlaceOK
<1>9. \A i : i \in 1..(Len(E[b]) + 1) <=> i \in 1..Len(E[b]) \/ i = Len(E[b]) + 1
  <2>1. \A l \in Nat : \A i : i \in 1..(l + 1) <=> i \in 1..l \/ i = l + 1
    OBVIOUS
  <2>2. QED
    BY <1>4, <2>1
<1>10. Len(E[b]) + 1 \notin 1..Len(E[b])
  BY <1>4
<1>11. ASSUME NEW c \in Buckets, NEW i \in 1..Len(F[c]) PROVE BucketOf[At(F, c, i)] = c
  <2>1. CASE c = b /\ i = Len(E[b]) + 1
    BY <1>7, <2>1
  <2>2. CASE c = b /\ i # Len(E[b]) + 1
    <3>1. i \in 1..Len(E[b])
      BY <1>6, <1>9, <2>2
    <3>2. At(F, b, i) = At(E, b, i) /\ BucketOf[At(E, b, i)] = b
      BY <1>1, <1>7, <3>1 DEF IsTable
    <3>3. QED
      BY <2>2, <3>2
  <2>3. CASE c # b
    BY <1>5, <2>3 DEF IsTable, At
  <2>4. QED
    BY <2>1, <2>2, <2>3
<1>12. \A c \in Buckets : \A i, j \in 1..Len(F[c]) : At(F, c, i) = At(F, c, j) => i = j
  <2> SUFFICES ASSUME NEW c \in Buckets, NEW i \in 1..Len(F[c]), NEW j \in 1..Len(F[c]), At(F, c, i) = At(F, c, j) PROVE i = j
    OBVIOUS
  <2>1. CASE c = b
    <3>1. /\ i \in 1..Len(E[b]) \/ i = Len(E[b]) + 1
          /\ j \in 1..Len(E[b]) \/ j = Len(E[b]) + 1
          /\ At(F, b, i) = At(F, b, j)
      BY <1>6, <1>9, <2>1
    <3>2. CASE i \in 1..Len(E[b]) /\ j \in 1..Len(E[b])
      <4>1. At(E, b, i) = At(E, b, j)
        BY <1>7, <3>1, <3>2
      <4>2. QED
        BY <1>1, <3>2, <4>1 DEF IsTable
    <3>3. CASE i = Len(E[b]) + 1 /\ j \in 1..Len(E[b])
      BY <1>7, <1>8, <3>1, <3>3
    <3>4. CASE j = Len(E[b]) + 1 /\ i \in 1..Len(E[b])
      BY <1>7, <1>8, <3>1, <3>4
    <3>5. QED
      BY <3>1, <3>2, <3>3, <3>4
  <2>2. CASE c # b
    BY <1>5, <2>2 DEF IsTable, At
  <2>3. QED
    BY <2>1, <2>2
<1>13. ASSUME NEW m \in Names, NEW i \in Nat PROVE HasAt(F, m, i) <=> HasAt(E, m, i) \/ (m = n /\ i = Len(E[b]) + 1)
  <2>1. BucketOf[m] \in Buckets
    BY HashKeys
  <2>2. CASE BucketOf[m] = b
    BY <1>6, <1>7, <1>9, <1>10, <2>2 DEF HasAt
  <2>3. CASE BucketOf[m] # b
    BY <1>5, <2>1, <2>3 DEF HasAt, At
  <2>4. QED
    BY <2>2, <2>3
<1>14. QED
  BY <1>1, <1>2, <1>5, <1>6, <1>11, <1>12, <1>13 DEF IsTable, Pair, OneAppended

(* Another entry for the same name.                                            *)
LEMMA ReplacedEntry ==
  ASSUME NEW E, IsTable(E), NEW k \in KeyPtrs, NEW v \in Values, NEW n, n = NameOf[k], NEW b, b = BucketOf[n],
         NEW j \in Nat, NEW F, Replaces(E, F, k, v, j)
  PROVE  OneReplaced(E, F, n, b, j, Pair(k, v))
<1>1. n \in Names /\ b \in Buckets /\ j \in 1..Len(E[b])
  BY HashKeys DEF HasAt, Replaces
<1>2. PICK e : e = [key |-> k, value |-> v]
  OBVIOUS
<1>3. e \in Entry /\ e.key = k
  BY <1>2 DEF Entry
<1>4. E[b] \in Seq(Entry) /\ Len(E[b]) \in Nat /\ E \in [Buckets -> Seq(Entry)]
  BY <1>1 DEF IsTable
<1>5. F[b] = [E[b] EXCEPT ![j] = e] /\ \A c \in Buckets \ {b} : F[c] = E[c]
  BY <1>1, <1>2, <1>4 DEF Replaces
<1>6. F[b] \in Seq(Entry) /\ Len(F[b]) = Len(E[b]) /\ F[b][j] = e /\ \A i \in 1..Len(E[b]) : i # j => F[b][i] = E[b][i]
  <2>1. PICK s : s = E[b]
    OBVIOUS
  <2>2. PICK t : t = F[b]
    OBVIOUS
  <2>3. t = [s EXCEPT ![j] = e] /\ s \in Seq(Entry) /\ j \in 1..Len(s) /\ Len(s) \in Nat
    BY <1>1, <1>4, <1>5, <2>1, <2>2
  <2>4. t \in Seq(Entry) /\ Len(t) = Len(s) /\ t[j] = e /\ \A i \in 1..Len(s) : i # j => t[i] = s[i]
    BY <1>3, <2>3
  <2>5. QED
    BY <2>1, <2>2, <2>4
<1>7. F \in [Buckets -> Seq(Entry)]
  <2>1. F = [c \in Buckets |-> F[c]]
    BY <1>4 DEF Replaces
  <2>2. QED
    BY <1>4, <1>5, <1>6, <2>1
<1>8. \A c \in Buckets : Len(F[c]) = Len(E[c]) /\ \A i \in 1..Len(E[c]) : At(F, c, i) = At(E, c, i)
  <2>1. At(E, b, j) = n
    BY DEF HasAt, Replaces
  <2>2. \A i \in 1..Len(E[b]) : At(F, b, i) = At(E, b, i)
    BY <1>3, <1>6, <2>1 DEF At
  <2>3. QED
    BY <1>5, <1>6, <2>2 DEF At
<1>9. ASSUME NEW c \in Buckets, NEW i \in 1..Len(F[c]) PROVE BucketOf[At(F, c, i)] = c
  <2>1. i \in 1..Len(E[c])
    BY <1>8
  <2>2. At(F, c, i) = At(E, c, i) /\ BucketOf[At(E, c, i)] = c
    BY <1>8, <2>1 DEF IsTable
  <2>3. QED
    BY <2>2
<1>10. \A c \in Buckets : \A i, l \in 1..Len(F[c]) : At(F, c, i) = At(F, c, l) => i = l
  BY <1>8 DEF IsTable
<1>11. \A m \in Names, i \in Nat : HasAt(F, m, i) <=> HasAt(E, m, i)
  <2>1. \A m \in Names : BucketOf[m] \in Buckets
    BY HashKeys
  <2>2. QED
    BY <1>8, <2>1 DEF HasAt
<1>12. IsTable(F)
  BY <1>7, <1>9, <1>10 DEF IsTable
<1>13. ASSUME NEW c \in Buckets, NEW i \in 1..Len(E[c]), c # b \/ i # j PROVE F[c][i] = E[c][i]
  <2>1. CASE c = b
    BY <1>6, <1>13, <2>1
  <2>2. CASE c # b
    BY <1>5, <2>2
  <2>3. QED
    BY <2>1, <2>2
<1>14. F[b][j] = Pair(k, v)
  BY <1>2, <1>6 DEF Pair
<1>15. QED
  BY <1>1, <1>8, <1>11, <1>12, <1>13, <1>14 DEF OneReplaced


(* An entry taken out of its bucket: those behind it move up by one.           *)
LEMMA DeletedEntry ==
  ASSUME NEW E, IsTable(E), NEW n \in Names, NEW b, b = BucketOf[n],
         NEW j \in Nat, NEW F, Deletes(E, F, n, j)
  PROVE  OneDeleted(E, F, n, b, j)
<1>1. b \in Buckets /\ j \in 1..Len(E[b])
  BY HashKeys DEF HasAt, Deletes
<1>2. E[b] \in Seq(Entry) /\ Len(E[b]) \in Nat /\ E \in [Buckets -> Seq(Entry)]
  BY <1>1 DEF IsTable
<1>3. F[b] = Without(E[b], j) /\ \A c \in Buckets \ {b} : F[c] = E[c]
  BY <1>1, <1>2 DEF Deletes
<1>4. /\ F[b] \in Seq(Entry) /\ Len(F[b]) = Len(E[b]) - 1
      /\ \A i \in 1..Len(F[b]) : F[b][i] = IF i < j THEN E[b][i] ELSE E[b][i + 1]
  <2>1. PICK s : s = E[b]
    OBVIOUS
  <2>2. PICK t : t = F[b]
    OBVIOUS
  <2>3. PICK l : l = Len(s) - 1
    OBVIOUS
  <2>4. s \in Seq(Entry) /\ j \in 1..Len(s) /\ Len(s) \in Nat /\ l \in Nat /\ Len(s) = l + 1
    BY <1>1, <1>2, <2>1, <2>3
  <2>5. t = [i \in 1..l |-> IF i < j THEN s[i] ELSE s[i + 1]]
    BY <1>3, <2>1, <2>2, <2>3 DEF Without
  <2>6. \A i \in 1..l : s[i] \in Entry /\ s[i + 1] \in Entry
    <3>1. \A i \in 1..l : i \in 1..Len(s) /\ i + 1 \in 1..Len(s)
      BY <2>4
    <3>2. QED
      BY <2>4, <3>1
  <2>7. t \in [1..l -> Entry]
    BY <2>5, <2>6
  <2>8. t \in Seq(Entry) /\ Len(t) = l
    BY <2>4, <2>7
  <2>9. \A i \in 1..l : t[i] = IF i < j THEN s[i] ELSE s[i + 1]
    BY <2>5
  <2>10. QED
    BY <2>1, <2>2, <2>3, <2>8, <2>9
<1>5. F \in [Buckets -> Seq(Entry)]
  <2>1. F = [c \in Buckets |-> F[c]]
    BY <1>2 DEF Deletes
  <2>2. QED
    BY <1>2, <1>3, <1>4, <2>1
<1>6. \A i \in 1..Len(F[b]) : /\ i \in Nat /\ i \in 1..Len(E[b]) /\ i + 1 \in 1..Len(E[b])
                              /\ At(F, b, i) = IF i < j THEN At(E, b, i) ELSE At(E, b, i + 1)
  <2> SUFFICES ASSUME NEW i \in 1..Len(F[b])
               PROVE  /\ i \in Nat /\ i \in 1..Len(E[b]) /\ i + 1 \in 1..Len(E[b])
                      /\ At(F, b, i) = IF i < j THEN At(E, b, i) ELSE At(E, b, i + 1)
    OBVIOUS
  <2>1. i \in Nat /\ i \in 1..Len(E[b]) /\ i + 1 \in 1..Len(E[b])
    BY <1>2, <1>4
  <2>2. CASE i < j
    BY <1>4, <2>2 DEF At
  <2>3. CASE ~(i < j)
    BY <1>4, <2>3 DEF At
  <2>4. QED
    BY <2>1, <2>2, <2>3
<1>7. \A i, l \in 1..Len(E[b]) : At(E, b, i) = At(E, b, l) => i = l
  BY <1>1 DEF IsTable
<1>8. ASSUME NEW c \in Buckets, NEW i \in 1..Len(F[c]) PROVE BucketOf[At(F, c, i)] = c
  <2>1. CASE c = b
    <3>1. \E l \in 1..Len(E[b]) : At(F, b, i) = At(E, b, l)
      BY <1>6, <2>1
    <3>2. QED
      BY <1>1, <2>1, <3>1 DEF IsTable
  <2>2. CASE c # b
    BY <1>3, <2>2 DEF IsTable, At
  <2>3. QED
    BY <2>1, <2>2
<1>9. ASSUME NEW c \in Buckets, NEW i \in 1..Len(F[c]), NEW l \in 1..Len(F[c]), At(F, c, i) = At(F, c, l) PROVE i = l
  <2>1. CASE c = b
    <3>1. PICK x, y : x = (IF i < j THEN i ELSE i + 1) /\ y = (IF l < j THEN l ELSE l + 1)
      OBVIOUS
    <3>2. i \in Nat /\ l \in Nat /\ x \in 1..Len(E[b]) /\ y \in 1..Len(E[b])
      BY <1>6, <2>1, <3>1
    <3>3. At(F, b, i) = At(E, b, x) /\ At(F, b, l) = At(E, b, y)
      BY <1>6, <2>1, <3>1
    <3>4. x = y
      BY <1>7, <1>9, <2>1, <3>2, <3>3
    <3>5. QED
      BY <1>1, <3>1, <3>2, <3>4
  <2>2. CASE c # b
    BY <1>3, <1>9, <2>2 DEF IsTable, At
  <2>3. QED
    BY <2>1, <2>2
<1>10. IsTable(F)
  BY <1>5, <1>8, <1>9 DEF IsTable
<1>11. At(E, b, j) = n
  BY DEF HasAt, Deletes
<1>12. ASSUME NEW m \in Names, NEW i \in Nat
       PROVE  HasAt(F, m, i) <=> m # n /\ HasAt(E, m, Was(n, j, m, i))
  <2>1. CASE BucketOf[m] = b
    <3>1. PICK x \in Nat : x = IF i >= j THEN i + 1 ELSE i
      OBVIOUS
    <3>0. Was(n, j, m, i) = x
      BY <2>1, <3>1 DEF Was
    <3>2. ASSUME HasAt(F, m, i) PROVE m # n /\ HasAt(E, m, x)
      <4>1. i \in 1..Len(F[b]) /\ At(F, b, i) = m
        BY <2>1, <3>2 DEF HasAt
      <4>2. At(F, b, i) = At(E, b, x) /\ x \in 1..Len(E[b])
        <5>1. /\ i \in 1..Len(E[b]) /\ i + 1 \in 1..Len(E[b])
              /\ At(F, b, i) = IF i < j THEN At(E, b, i) ELSE At(E, b, i + 1)
          BY <1>6, <4>1
        <5>2. i >= j <=> ~(i < j)
          OBVIOUS
        <5>3. QED
          BY <3>1, <5>1, <5>2
      <4>3. x # j
        BY <1>1, <3>1
      <4>4. m # n
        BY <1>1, <1>7, <1>11, <4>1, <4>2, <4>3
      <4>5. QED
        BY <2>1, <4>1, <4>2, <4>4 DEF HasAt
    <3>3. ASSUME m # n, HasAt(E, m, x) PROVE HasAt(F, m, i)
      <4>1. x \in 1..Len(E[b]) /\ At(E, b, x) = m /\ x # j
        BY <1>11, <2>1, <3>3 DEF HasAt
      <4>2. i \in 1..Len(F[b])
        BY <1>1, <1>2, <1>4, <3>1, <4>1
      <4>3. At(F, b, i) = At(E, b, x)
        <5>1. At(F, b, i) = IF i < j THEN At(E, b, i) ELSE At(E, b, i + 1)
          BY <1>6, <4>2
        <5>2. i >= j <=> ~(i < j)
          OBVIOUS
        <5>3. QED
          BY <3>1, <5>1, <5>2
      <4>4. QED
        BY <2>1, <4>1, <4>2, <4>3 DEF HasAt
    <3>4. QED
      BY <3>0, <3>2, <3>3
  <2>2. CASE BucketOf[m] # b
    <3>1. BucketOf[m] \in Buckets /\ F[BucketOf[m]] = E[BucketOf[m]] /\ m # n
      BY <1>3, <2>2, HashKeys
    <3>2. QED
      BY <2>2, <3>1 DEF HasAt, At, Was
  <2>3. QED
    BY <2>1, <2>2
<1>13. QED
  BY <1>1, <1>3, <1>4, <1>10, <1>12 DEF OneDeleted


-----------------------------------------------------------------------------
(* A table that has a name where the other has it, with the same value.        *)
LEMMA SameKept ==
  ASSUME NEW E, IsTable(E), NEW F, IsTable(F), NEW m \in Names, m \in Has(F) => m \in Has(E),
         \A i \in Nat : HasAt(E, m, i) =>
           \E l \in Nat : HasAt(F, m, l) /\ F[BucketOf[m]][l].value = E[BucketOf[m]][i].value
  PROVE  (m \in Has(F) <=> m \in Has(E)) /\ Keeps(F)[m] = Keeps(E)[m]
<1>1. CASE m \in Has(E)
  <2>1. PICK i \in Nat : HasAt(E, m, i)
    BY <1>1 DEF Has
  <2>2. PICK l \in Nat : HasAt(F, m, l) /\ F[BucketOf[m]][l].value = E[BucketOf[m]][i].value
    BY <2>1
  <2>3. m \in Has(F)
    BY <2>2 DEF Has
  <2>4. Keeps(E)[m] = E[BucketOf[m]][i].value
    BY <2>1, KeepsWhat
  <2>5. Keeps(F)[m] = F[BucketOf[m]][l].value
    BY <2>2, KeepsWhat
  <2>6. QED
    BY <1>1, <2>2, <2>3, <2>4, <2>5
<1>2. CASE m \notin Has(E)
  <2>1. Keeps(E)[m] = Absent /\ Keeps(F)[m] = Absent
    BY <1>2, KeepsWhat
  <2>2. QED
    BY <1>2, <2>1
<1>3. QED
  BY <1>1, <1>2

(* What is kept is a function.                                                 *)
LEMMA KeepsAll == \A E : Keeps(E) = [m \in Names |-> Keeps(E)[m]]
BY DEF Keeps

(* What hash_add and hash_add_unique do to a table without the name.           *)
LEMMA AppendKeeps ==
  ASSUME NEW E, IsTable(E), NEW k \in KeyPtrs, NEW v \in Values, NEW n, n = NameOf[k], NEW b, b = BucketOf[n],
         n \notin Has(E), NEW F, Appends(E, F, k, v)
  PROVE  Has(F) = Has(E) \cup {n} /\ Keeps(F) = [Keeps(E) EXCEPT ![n] = v]
<1>0. b \in Buckets /\ Len(E[b]) \in Nat /\ n \in Names
  BY HashKeys, PlaceOK
<1>1. /\ IsTable(F) /\ n \in Names /\ b \in Buckets
      /\ Len(F[b]) = Len(E[b]) + 1 /\ F[b][Len(E[b]) + 1] = Pair(k, v)
      /\ \A i \in 1..Len(E[b]) : F[b][i] = E[b][i]
      /\ \A c \in Buckets \ {b} : F[c] = E[c]
      /\ \A m \in Names, i \in Nat : HasAt(F, m, i) <=> HasAt(E, m, i) \/ (m = n /\ i = Len(E[b]) + 1)
  <2>1. OneAppended(E, F, n, b, Pair(k, v))
    BY AppendedEntry
  <2>2. QED
    BY <2>1 DEF OneAppended
<1>2. ASSUME NEW m \in Names \ {n} PROVE (m \in Has(F) <=> m \in Has(E)) /\ Keeps(F)[m] = Keeps(E)[m]
  <2>1. m \in Has(F) => m \in Has(E)
    BY <1>0, <1>1 DEF Has
  <2>2. ASSUME NEW i \in Nat, HasAt(E, m, i)
        PROVE  HasAt(F, m, i) /\ F[BucketOf[m]][i].value = E[BucketOf[m]][i].value
    <3>1. HasAt(F, m, i) /\ BucketOf[m] \in Buckets /\ i \in 1..Len(E[BucketOf[m]])
      BY <1>0, <1>1, <2>2, HashKeys DEF HasAt
    <3>2. F[BucketOf[m]][i] = E[BucketOf[m]][i]
      BY <1>0, <1>1, <3>1
    <3>3. QED
      BY <3>1, <3>2
  <2>3. QED
    BY <1>0, <1>1, <2>1, <2>2, SameKept
<1>3. HasAt(F, n, Len(E[b]) + 1) /\ Len(E[b]) + 1 \in Nat
  BY <1>0, <1>1
<1>4. n \in Has(F)
  BY <1>0, <1>1, <1>3 DEF Has
<1>5. Keeps(F)[n] = v
  BY <1>0, <1>1, <1>3, KeepsWhat DEF Pair
<1>6. Has(F) = Has(E) \cup {n}
  <2>1. Has(F) \subseteq Names /\ Has(E) \subseteq Names
    BY DEF Has
  <2>2. QED
    BY <1>2, <1>4, <2>1
<1>7. QED
  BY <1>0, <1>1, <1>2, <1>5, <1>6, KeepsAll

(* What hash_add does to a table with the name.                                *)
LEMMA ReplaceKeeps ==
  ASSUME NEW E, IsTable(E), NEW k \in KeyPtrs, NEW v \in Values, NEW n, n = NameOf[k], NEW b, b = BucketOf[n],
         NEW j \in Nat, NEW F, Replaces(E, F, k, v, j)
  PROVE  Has(F) = Has(E) /\ Keeps(F) = [Keeps(E) EXCEPT ![n] = v]
<1>1. /\ IsTable(F) /\ n \in Names /\ b \in Buckets /\ j \in 1..Len(E[b])
      /\ \A c \in Buckets : Len(F[c]) = Len(E[c])
      /\ F[b][j] = Pair(k, v)
      /\ \A c \in Buckets : \A i \in 1..Len(E[c]) : (c # b \/ i # j) => F[c][i] = E[c][i]
      /\ \A m \in Names, i \in Nat : HasAt(F, m, i) <=> HasAt(E, m, i)
  <2>1. OneReplaced(E, F, n, b, j, Pair(k, v))
    BY ReplacedEntry
  <2>2. QED
    BY <2>1 DEF OneReplaced
<1>2. Has(F) = Has(E)
  BY <1>1 DEF Has
<1>3. ASSUME NEW m \in Names \ {n} PROVE Keeps(F)[m] = Keeps(E)[m]
  <2>1. ASSUME NEW i \in Nat, HasAt(E, m, i)
        PROVE  HasAt(F, m, i) /\ F[BucketOf[m]][i].value = E[BucketOf[m]][i].value
    <3>1. HasAt(F, m, i) /\ BucketOf[m] \in Buckets /\ i \in 1..Len(E[BucketOf[m]]) /\ At(E, BucketOf[m], i) = m
      BY <1>1, <2>1, HashKeys DEF HasAt
    <3>2. BucketOf[m] # b \/ i # j
      BY <3>1 DEF HasAt, Replaces
    <3>3. F[BucketOf[m]][i] = E[BucketOf[m]][i]
      BY <1>1, <3>1, <3>2
    <3>4. QED
      BY <3>1, <3>3
  <2>2. QED
    BY <1>1, <1>2, <2>1, SameKept
<1>4. Keeps(F)[n] = v
  <2>1. HasAt(F, n, j)
    BY <1>1 DEF Replaces
  <2>2. QED
    BY <1>1, <2>1, KeepsWhat DEF Pair
<1>5. QED
  BY <1>1, <1>2, <1>3, <1>4, KeepsAll

(* What hash_del does.                                                         *)
LEMMA DeleteKeeps ==
  ASSUME NEW E, IsTable(E), NEW n \in Names, NEW b, b = BucketOf[n],
         NEW j \in Nat, NEW F, Deletes(E, F, n, j)
  PROVE  Has(F) = Has(E) \ {n} /\ n \in Has(E) /\ Keeps(F) = [Keeps(E) EXCEPT ![n] = Absent]
<1>0. b \in Buckets /\ Len(E[b]) \in Nat
  BY HashKeys, PlaceOK
<1>d. OneDeleted(E, F, n, b, j)
  BY DeletedEntry
<1>1. /\ IsTable(F) /\ j \in 1..Len(E[b])
      /\ Len(F[b]) = Len(E[b]) - 1
      /\ \A c \in Buckets \ {b} : F[c] = E[c]
      /\ \A i \in 1..Len(F[b]) : F[b][i] = IF i < j THEN E[b][i] ELSE E[b][i + 1]
  BY <1>d DEF OneDeleted
<1>2. \A m \in Names, i \in Nat :
        HasAt(F, m, i) <=> m # n /\ HasAt(E, m, Was(n, j, m, i))
  BY <1>d DEF OneDeleted
<1>3. n \in Has(E)
  BY DEF Has, Deletes
<1>4. n \notin Has(F)
  BY <1>2 DEF Has
<1>5. ASSUME NEW m \in Names \ {n} PROVE (m \in Has(F) <=> m \in Has(E)) /\ Keeps(F)[m] = Keeps(E)[m]
  <2>1. m \in Has(F) => m \in Has(E)
    <3>1. ASSUME NEW i \in Nat, HasAt(F, m, i) PROVE m \in Has(E)
      <4>1. PICK x \in Nat : x = Was(n, j, m, i)
        BY DEF Was
      <4>2. HasAt(E, m, x)
        BY <1>2, <3>1, <4>1
      <4>3. QED
        BY <4>2 DEF Has
    <3>2. QED
      BY <3>1 DEF Has
  <2>2. ASSUME NEW i \in Nat, HasAt(E, m, i)
        PROVE  \E l \in Nat : HasAt(F, m, l) /\ F[BucketOf[m]][l].value = E[BucketOf[m]][i].value
    <3>1. BucketOf[m] \in Buckets /\ i \in 1..Len(E[BucketOf[m]]) /\ At(E, BucketOf[m], i) = m /\ At(E, b, j) = n
      BY <2>2, HashKeys DEF HasAt, Deletes
    <3>2. CASE BucketOf[m] = b
      <4>1. i # j
        BY <3>1, <3>2
      <4>2. PICK l \in Nat : l = IF i > j THEN i - 1 ELSE i
        BY <1>0, <1>1
      <4>3. Was(n, j, m, l) = i
        BY <3>2, <4>1, <4>2 DEF Was
      <4>4. HasAt(F, m, l)
        BY <1>2, <2>2, <4>3
      <4>5. l \in 1..Len(F[b])
        BY <3>2, <4>4 DEF HasAt
      <4>6. F[b][l] = IF l < j THEN E[b][l] ELSE E[b][l + 1]
        BY <1>1, <4>5
      <4>7. IF l < j THEN l = i ELSE l + 1 = i
        BY <1>0, <1>1, <4>1, <4>2
      <4>8. F[b][l] = E[b][i]
        BY <4>6, <4>7
      <4>9. QED
        BY <3>2, <4>4, <4>8
    <3>3. CASE BucketOf[m] # b
      <4>1. HasAt(F, m, i)
        BY <1>2, <2>2, <3>3 DEF Was
      <4>2. F[BucketOf[m]] = E[BucketOf[m]]
        BY <1>0, <1>1, <3>1, <3>3
      <4>3. QED
        BY <4>1, <4>2
    <3>4. QED
      BY <3>2, <3>3
  <2>3. QED
    BY <1>0, <1>1, <2>1, <2>2, SameKept
<1>6. Keeps(F)[n] = Absent
  BY <1>4 DEF Keeps
<1>7. Has(F) = Has(E) \ {n}
  <2>1. Has(F) \subseteq Names /\ Has(E) \subseteq Names
    BY DEF Has
  <2>2. QED
    BY <1>4, <1>5, <2>1
<1>8. QED
  BY <1>3, <1>5, <1>6, <1>7, KeepsAll

(* What a table has is finite, and is what the map it implements keeps.        *)
LEMMA HasFinite ==
  ASSUME NEW E, IsTable(E)
  PROVE  /\ IsFiniteSet(Has(E)) /\ Cardinality(Has(E)) \in Nat /\ KS!Kept(Keeps(E)) = Has(E)
         /\ \A n : n \notin Has(E) => Cardinality(Has(E) \cup {n}) = Cardinality(Has(E)) + 1
         /\ \A n \in Has(E) : Cardinality(Has(E) \ {n}) = Cardinality(Has(E)) - 1
<1>1. IsFiniteSet(Has(E))
  <2>1. Has(E) \in SUBSET Names
    BY DEF Has
  <2>2. QED
    BY <2>1, HashKeys, FS_Subset
<1>2. Cardinality(Has(E)) \in Nat
  BY <1>1, FS_CardinalityType
<1>3. KS!Kept(Keeps(E)) = Has(E)
  <2>1. Has(E) \subseteq Names
    BY DEF Has
  <2>2. QED
    BY <2>1, KeepsWhat DEF KS!Kept
<1>4. ASSUME NEW n, n \notin Has(E) PROVE Cardinality(Has(E) \cup {n}) = Cardinality(Has(E)) + 1
  BY <1>1, <1>4, FS_AddElement
<1>5. ASSUME NEW n \in Has(E) PROVE Cardinality(Has(E) \ {n}) = Cardinality(Has(E)) - 1
  BY <1>1, <1>5, FS_RemoveElement
<1>6. QED
  BY <1>1, <1>2, <1>3, <1>4, <1>5


-----------------------------------------------------------------------------
(* An answer about a name is an answer.                                        *)
AnswerTypeOK ==
  answer \in {<<>>} \cup Names \X ({"ok", "EEXIST", "ENOMEM", "ENOENT", Absent} \cup Values)

(* After hash_add has made room, there is some for two entries more.           *)
LEMMA RoomMade ==
  ASSUME HashTypeOK, RoomForOneMore, NEW b \in Buckets, MakesRoom(b)
  PROVE  /\ total' \in [Buckets -> Nat] /\ Used(b) + 1 < total'[b] /\ Used(b) \in Nat
         /\ \A c \in Buckets \ {b} : total'[c] = total[c]
<1>1. Used(b) \in Nat /\ total[b] \in Nat /\ total \in [Buckets -> Nat]
  BY DEF HashTypeOK, Used
<1>2. PICK t : t = IF NeedsRoom(b) THEN total[b] + Steps ELSE total[b]
  OBVIOUS
<1>3. total' = [total EXCEPT ![b] = t]
  BY <1>1, <1>2 DEF MakesRoom
<1>4. t \in Nat
  BY <1>1, <1>2, HashSizes
<1>5. Used(b) < total[b] \/ (Used(b) = 0 /\ total[b] = 0)
  BY DEF RoomForOneMore
<1>6. Used(b) + 1 < t
  BY <1>1, <1>2, <1>5, HashSizes DEF NeedsRoom
<1>7. QED
  BY <1>1, <1>3, <1>4, <1>6

(* The room that deleting leaves is enough for what is left.                   *)
LEMMA RoomLeft ==
  ASSUME HashTypeOK, RoomForOneMore, NEW b \in Buckets, Used(b) # 0, NEW t \in Fitting(b)
  PROVE  t \in Nat /\ Used(b) - 1 < t
<1>1. Used(b) \in Nat /\ total[b] \in Nat
  BY DEF HashTypeOK, Used
<1>2. Used(b) < total[b]
  BY DEF RoomForOneMore
<1>3. PICK u \in Nat : u = Used(b) - 1
  BY <1>1
<1>4. PICK needed : needed = u \div Steps + 1
  OBVIOUS
<1>5. needed \in Nat /\ u < needed * Steps
  <2>1. \A a \in Nat, s \in Nat \ {0} : a \div s \in Nat /\ (a \div s + 1) * s > a
    OBVIOUS
  <2>2. u \div Steps \in Nat /\ (u \div Steps + 1) * Steps > u
    BY <1>3, <2>1, HashSizes
  <2>3. QED
    BY <1>3, <1>4, <2>2, HashSizes
<1>6. needed * Steps \in Nat
  BY <1>5, HashSizes
<1>7. t = needed * Steps \/ t = total[b]
  BY <1>3, <1>4 DEF Fitting
<1>8. QED
  BY <1>1, <1>2, <1>3, <1>5, <1>6, <1>7

(* The table is well formed when it is made.                                   *)
LEMMA HashInitInv == HashInit => HashInv
<1> SUFFICES ASSUME HashInit PROVE HashInv
  OBVIOUS
<1>1. \A b \in Buckets : entries[b] = <<>> /\ Len(entries[b]) = 0 /\ total[b] = 0
  BY DEF HashInit
<1>2. 0 \in Buckets
  BY HashSizes DEF Buckets
<1>3. HashTypeOK
  BY <1>2 DEF HashInit, HashTypeOK, NoIteration, Idle
<1>4. IsTable(entries)
  BY <1>1, <1>3 DEF IsTable, HashTypeOK
<1>5. RoomForOneMore
  BY <1>1 DEF RoomForOneMore, Used
<1>6. Has(entries) = {}
  BY <1>1, HashKeys DEF Has, HasAt
<1>7. Counted
  BY <1>6, FS_EmptySet DEF Counted, HashInit
<1>8. NoTable
  BY <1>1 DEF NoTable
<1>9. IterInv
  BY DEF IterInv, HashInit, NoIteration
<1>10. QED
  BY <1>3, <1>4, <1>5, <1>7, <1>8, <1>9 DEF HashInv, TableInv

(* Where no entry changes, the table stays what it is.                         *)
LEMMA SameEntries ==
  ASSUME HashInv, UNCHANGED <<entries, count, iterVars>>, owned' \subseteq KeyPtrs \cup Values, AnswerTypeOK',
         total' \in [Buckets -> Nat], \A b \in Buckets : total'[b] = total[b] \/ Used(b) < total'[b],
         frees' \in FreePairs \cup {<<>>}, frees' = <<>> => frees = <<>>
  PROVE  HashInv'
<1>1. HashTypeOK'
  BY DEF HashInv, TableInv, HashTypeOK, AnswerTypeOK, iterVars
<1>2. IsTable(entries)'
  BY DEF HashInv, TableInv
<1>3. RoomForOneMore'
  BY DEF HashInv, TableInv, RoomForOneMore, Used
<1>4. Counted' /\ NoTable'
  BY DEF HashInv, TableInv, Counted, NoTable
<1>5. IterInv'
  BY DEF HashInv, IterInv, iterVars, Passed
<1>6. QED
  BY <1>1, <1>2, <1>3, <1>4, <1>5 DEF HashInv, TableInv

(* The calls that are refused, or only look.                                   *)
LEMMA RefusedInv ==
  ASSUME HashInv, \/ \E k \in KeyPtrs, v \in Values : AddFails(k, v) \/ AddUniqueRefused(k, v)
                  \/ \E n \in Names : HashDelRefused(n) \/ HashFind(n)
  PROVE  HashInv'
<1>0. HashTypeOK /\ RoomForOneMore /\ IsTable(entries)
  BY DEF HashInv, TableInv
<1>1. ASSUME NEW k \in KeyPtrs, NEW v \in Values, AddFails(k, v) PROVE HashInv'
  <2>1. NameOf[k] \in Names
    BY HashKeys
  <2>2. AnswerTypeOK'
    BY <1>1, <2>1 DEF AddFails, AnswerTypeOK
  <2>3. QED
    BY <1>0, <1>1, <2>2, SameEntries DEF AddFails, tableVars, iterVars, HashTypeOK
<1>2. ASSUME NEW k \in KeyPtrs, NEW v \in Values, AddUniqueRefused(k, v) PROVE HashInv'
  <2>1. NameOf[k] \in Names /\ BucketOf[NameOf[k]] \in Buckets
    BY HashKeys
  <2>2. AnswerTypeOK'
    BY <1>2, <2>1 DEF AddUniqueRefused, AnswerTypeOK
  <2>3. MakesRoom(BucketOf[NameOf[k]])
    BY <1>2 DEF AddUniqueRefused
  <2>4. total' \in [Buckets -> Nat] /\ \A c \in Buckets : total'[c] = total[c] \/ Used(c) < total'[c]
    BY <1>0, <2>1, <2>3, RoomMade
  <2>5. QED
    BY <1>0, <1>2, <2>2, <2>4, SameEntries DEF AddUniqueRefused, iterVars, HashTypeOK
<1>3. ASSUME NEW n \in Names, HashDelRefused(n) PROVE HashInv'
  <2>1. AnswerTypeOK'
    BY <1>3 DEF HashDelRefused, AnswerTypeOK
  <2>2. QED
    BY <1>0, <1>3, <2>1, SameEntries DEF HashDelRefused, tableVars, iterVars, HashTypeOK
<1>4. ASSUME NEW n \in Names, HashFind(n) PROVE HashInv'
  <2>1. BucketOf[n] \in Buckets
    BY HashKeys
  <2>2. \A i \in 1..Used(BucketOf[n]) : entries[BucketOf[n]][i].value \in Values
    BY <1>0, <2>1, PlaceOK DEF Used
  <2>3. AnswerTypeOK'
    BY <1>4, <2>2 DEF HashFind, AnswerTypeOK
  <2>4. QED
    BY <1>0, <1>4, <2>3, SameEntries DEF HashFind, tableVars, iterVars, HashTypeOK
<1>5. QED
  BY <1>1, <1>2, <1>3, <1>4


(* What is freed of an entry is what the table was given.                      *)
LEMMA FreedOK == \A k \in KeyPtrs, v \in Values : Freed(k, v) \subseteq KeyPtrs \cup Values
BY DEF Freed

(* A name that is new.                                                         *)
LEMMA AddsLastInv ==
  ASSUME HashInv, NEW k \in KeyPtrs, NEW v \in Values, AddsLast(k, v)
  PROVE  HashInv'
<1>0. HashTypeOK /\ RoomForOneMore /\ IsTable(entries) /\ Counted /\ IterInv
  BY DEF HashInv, TableInv
<1>1. PICK n : n = NameOf[k]
  OBVIOUS
<1>2. PICK b : b = BucketOf[n]
  OBVIOUS
<1>3. n \in Names /\ b \in Buckets
  BY <1>1, <1>2, HashKeys
<1>4. n \notin Has(entries) /\ Appends(entries, entries', k, v)
  BY <1>0, <1>1, <1>3, InWords DEF AddsLast, Appends
<1>5. /\ IsTable(entries') /\ Len(entries'[b]) = Len(entries[b]) + 1 /\ \A c \in Buckets \ {b} : entries'[c] = entries[c]
      /\ \A m \in Names, i \in Nat : HasAt(entries', m, i) <=> HasAt(entries, m, i) \/ (m = n /\ i = Len(entries[b]) + 1)
  <2>1. PICK F : F = entries'
    OBVIOUS
  <2>2. Appends(entries, F, k, v)
    BY <1>4, <2>1
  <2>3. /\ IsTable(F) /\ Len(F[b]) = Len(entries[b]) + 1 /\ \A c \in Buckets \ {b} : F[c] = entries[c]
        /\ \A m \in Names, i \in Nat : HasAt(F, m, i) <=> HasAt(entries, m, i) \/ (m = n /\ i = Len(entries[b]) + 1)
    <3>0. OneAppended(entries, F, n, b, Pair(k, v))
      BY <1>0, <1>1, <1>2, <1>4, <2>2, AppendedEntry
    <3>1. IsTable(F) /\ Len(F[b]) = Len(entries[b]) + 1
      BY <3>0 DEF OneAppended
    <3>2. \A c \in Buckets \ {b} : F[c] = entries[c]
      BY <3>0 DEF OneAppended
    <3>3. \A m \in Names, i \in Nat : HasAt(F, m, i) <=> HasAt(entries, m, i) \/ (m = n /\ i = Len(entries[b]) + 1)
      BY <3>0 DEF OneAppended
    <3>4. QED
      BY <3>1, <3>2, <3>3
  <2>4. QED
    BY <2>1, <2>3
<1>6. Has(entries') = Has(entries) \cup {n}
  BY <1>0, <1>1, <1>2, <1>4, AppendKeeps
<1>7. MakesRoom(b) /\ count' = count + 1 /\ owned' = owned \cup Freed(k, v) /\ answer' = <<n, "ok">>
      /\ frees' = frees /\ frees # <<>> /\ iter' = iter /\ met' = met /\ steady' = steady
  BY <1>1, <1>2 DEF AddsLast, CallerHas, iterVars
<1>8. total' \in [Buckets -> Nat] /\ Used(b) + 1 < total'[b] /\ \A c \in Buckets \ {b} : total'[c] = total[c]
  BY <1>0, <1>3, <1>7, RoomMade
<1>9. HashTypeOK'
  <2>1. owned' \subseteq KeyPtrs \cup Values
    BY <1>0, <1>7, FreedOK DEF HashTypeOK
  <2>2. AnswerTypeOK'
    BY <1>3, <1>7 DEF AnswerTypeOK
  <2>3. entries' \in [Buckets -> Seq(Entry)]
    BY <1>5 DEF IsTable
  <2>4. QED
    BY <1>0, <1>7, <1>8, <2>1, <2>2, <2>3 DEF HashTypeOK, AnswerTypeOK
<1>10. RoomForOneMore'
  BY <1>0, <1>5, <1>8 DEF RoomForOneMore, Used
<1>11. Counted'
  BY <1>0, <1>4, <1>6, <1>7, HasFinite DEF Counted
<1>12. NoTable'
  BY <1>7 DEF NoTable
<1>13. IterInv'
  <2>1. steady' \subseteq Has(entries')
    BY <1>0, <1>6, <1>7 DEF IterInv
  <2>2. ASSUME NEW m \in steady', NEW i \in Nat, HasAt(entries', m, i) PROVE met'[m] = (IF Passed(m, i) THEN 1 ELSE 0)'
    <3>1. m \in Names /\ m # n /\ m \in steady
      BY <1>0, <1>4, <1>7 DEF IterInv, HashTypeOK
    <3>2. HasAt(entries, m, i)
      BY <1>5, <2>2, <3>1
    <3>3. QED
      BY <1>0, <1>7, <3>1, <3>2 DEF IterInv, Passed
  <2>3. QED
    BY <1>0, <1>7, <2>1, <2>2 DEF IterInv
<1>14. QED
  BY <1>5, <1>9, <1>10, <1>11, <1>12, <1>13 DEF HashInv, TableInv

(* A name that is there, added again.                                          *)
LEMMA ReplaceInv ==
  ASSUME HashInv, NEW k \in KeyPtrs, NEW v \in Values, Replace(k, v)
  PROVE  HashInv'
<1>0. HashTypeOK /\ RoomForOneMore /\ IsTable(entries) /\ Counted /\ IterInv
  BY DEF HashInv, TableInv
<1>1. PICK n : n = NameOf[k]
  OBVIOUS
<1>2. PICK b : b = BucketOf[n]
  OBVIOUS
<1>3. n \in Names /\ b \in Buckets /\ Used(b) \in Nat
  BY <1>0, <1>1, <1>2, HashKeys, PlaceOK DEF Used
<1>4. PICK j \in 1..Used(b) :
        /\ Finds(n, j) /\ entries' = [entries EXCEPT ![b][j] = [key |-> k, value |-> v]]
        /\ owned' = (owned \cup Freed(k, v)) \ Freed(entries[b][j].key, entries[b][j].value)
  BY <1>1, <1>2 DEF Replace
<1>5. j \in Nat /\ Replaces(entries, entries', k, v, j)
  BY <1>0, <1>1, <1>2, <1>3, <1>4, InWords DEF Replaces
<1>6. /\ IsTable(entries') /\ \A c \in Buckets : Len(entries'[c]) = Len(entries[c])
      /\ \A m \in Names, i \in Nat : HasAt(entries', m, i) <=> HasAt(entries, m, i)
  <2>1. PICK F : F = entries'
    OBVIOUS
  <2>2. Replaces(entries, F, k, v, j)
    BY <1>5, <2>1
  <2>3. /\ IsTable(F) /\ \A c \in Buckets : Len(F[c]) = Len(entries[c])
        /\ \A m \in Names, i \in Nat : HasAt(F, m, i) <=> HasAt(entries, m, i)
    <3>0. OneReplaced(entries, F, n, b, j, Pair(k, v))
      BY <1>0, <1>1, <1>2, <1>5, <2>2, ReplacedEntry
    <3>1. IsTable(F)
      BY <3>0 DEF OneReplaced
    <3>2. \A c \in Buckets : Len(F[c]) = Len(entries[c])
      BY <3>0 DEF OneReplaced
    <3>3. \A m \in Names, i \in Nat : HasAt(F, m, i) <=> HasAt(entries, m, i)
      BY <3>0 DEF OneReplaced
    <3>4. QED
      BY <3>1, <3>2, <3>3
  <2>4. QED
    BY <2>1, <2>3
<1>7. Has(entries') = Has(entries)
  BY <1>6 DEF Has
<1>8. MakesRoom(b) /\ count' = count /\ answer' = <<n, "ok">>
      /\ frees' = frees /\ frees # <<>> /\ iter' = iter /\ met' = met /\ steady' = steady
  BY <1>1, <1>2 DEF Replace, CallerHas, iterVars
<1>9. total' \in [Buckets -> Nat] /\ Used(b) + 1 < total'[b] /\ \A c \in Buckets \ {b} : total'[c] = total[c]
  BY <1>0, <1>3, <1>8, RoomMade
<1>10. HashTypeOK'
  <2>1. owned' \subseteq KeyPtrs \cup Values
    BY <1>0, <1>4, FreedOK DEF HashTypeOK
  <2>2. AnswerTypeOK'
    BY <1>3, <1>8 DEF AnswerTypeOK
  <2>3. entries' \in [Buckets -> Seq(Entry)]
    BY <1>6 DEF IsTable
  <2>4. QED
    BY <1>0, <1>8, <1>9, <2>1, <2>2, <2>3 DEF HashTypeOK, AnswerTypeOK
<1>11. RoomForOneMore'
  BY <1>0, <1>3, <1>6, <1>9 DEF RoomForOneMore, Used
<1>12. Counted' /\ NoTable'
  BY <1>0, <1>7, <1>8 DEF Counted, NoTable
<1>13. IterInv'
  <2>1. \A m \in steady : m \in Names
    BY <1>0 DEF HashTypeOK
  <2>2. QED
    BY <1>0, <1>6, <1>7, <1>8, <2>1 DEF IterInv, Passed
<1>14. QED
  BY <1>6, <1>10, <1>11, <1>12, <1>13 DEF HashInv, TableInv

(* What hash_del does to the table, and which names it moves.                  *)
LEMMA DelDoes ==
  ASSUME HashInv, NEW n \in Names, HashDel(n), NEW b, b = BucketOf[n]
  PROVE  /\ b \in Buckets
         /\ \E j \in Nat : /\ j \in 1..Used(b) /\ Finds(n, j) /\ Deletes(entries, entries', n, j)
                           /\ owned' = owned \ Freed(entries[b][j].key, entries[b][j].value)
                           /\ steady' = steady \ ({n} \cup MovedPast(b, j))
         /\ met' = [x \in Names |-> IF x \in steady' THEN met[x] ELSE 0]
         /\ \E t \in Fitting(b) : total' = [total EXCEPT ![b] = t]
         /\ count' = count - 1 /\ answer' = <<n, "ok">> /\ frees' = frees /\ frees # <<>> /\ iter' = iter
<1>0. IsTable(entries)
  BY DEF HashInv, TableInv
<1>1. b \in Buckets
  BY HashKeys
<1>2. Used(b) \in Nat
  BY <1>0, <1>1, PlaceOK DEF Used
<1>3. PICK j \in 1..Used(b) : /\ Finds(n, j) /\ entries' = [entries EXCEPT ![b] = Without(@, j)]
                              /\ owned' = owned \ Freed(entries[b][j].key, entries[b][j].value)
                              /\ steady' = steady \ ({n} \cup MovedPast(b, j))
                              /\ met' = [x \in Names |-> IF x \in steady' THEN met[x] ELSE 0]
  BY DEF HashDel
<1>4. j \in Nat /\ Deletes(entries, entries', n, j)
  BY <1>0, <1>2, <1>3, InWords DEF Deletes
<1>5. /\ \E t \in Fitting(b) : total' = [total EXCEPT ![b] = t]
      /\ count' = count - 1 /\ answer' = <<n, "ok">> /\ frees' = frees /\ frees # <<>> /\ iter' = iter
  BY DEF HashDel
<1>6. QED
  BY <1>1, <1>3, <1>4, <1>5

(* A name deleted.                                                             *)
LEMMA DelInv ==
  ASSUME HashInv, NEW n \in Names, HashDel(n)
  PROVE  HashInv'
<1>0. HashTypeOK /\ RoomForOneMore /\ IsTable(entries) /\ Counted /\ IterInv
  BY DEF HashInv, TableInv
<1>1. PICK b : b = BucketOf[n]
  OBVIOUS
<1>2. b \in Buckets
  BY <1>1, HashKeys
<1>3. PICK j \in Nat : /\ j \in 1..Used(b) /\ Finds(n, j) /\ Deletes(entries, entries', n, j)
                       /\ owned' = owned \ Freed(entries[b][j].key, entries[b][j].value)
                       /\ steady' = steady \ ({n} \cup MovedPast(b, j))
  BY <1>1, DelDoes
<1>4. /\ met' = [x \in Names |-> IF x \in steady' THEN met[x] ELSE 0]
      /\ count' = count - 1 /\ answer' = <<n, "ok">> /\ frees' = frees /\ frees # <<>> /\ iter' = iter
  BY DelDoes
<1>5. PICK t \in Fitting(b) : total' = [total EXCEPT ![b] = t]
  BY <1>1, DelDoes
<1>6. Used(b) \in Nat /\ Used(b) # 0
  BY <1>0, <1>2, <1>3, PlaceOK DEF Used
<1>7. t \in Nat /\ Used(b) - 1 < t
  BY <1>0, <1>2, <1>6, RoomLeft
<1>8. /\ IsTable(entries') /\ Len(entries'[b]) = Len(entries[b]) - 1 /\ \A c \in Buckets \ {b} : entries'[c] = entries[c]
      /\ \A m \in Names, i \in Nat : HasAt(entries', m, i) <=> m # n /\ HasAt(entries, m, Was(n, j, m, i))
  <2>1. PICK F : F = entries'
    OBVIOUS
  <2>2. Deletes(entries, F, n, j)
    BY <1>3, <2>1
  <2>3. OneDeleted(entries, F, n, b, j)
    BY <1>0, <1>1, <1>3, <2>2, DeletedEntry
  <2>4. QED
    BY <2>1, <2>3 DEF OneDeleted
<1>9. Has(entries') = Has(entries) \ {n} /\ n \in Has(entries)
  BY <1>0, <1>1, <1>3, DeleteKeeps
<1>10. HashTypeOK'
  <2>1. owned' \subseteq KeyPtrs \cup Values
    BY <1>0, <1>3 DEF HashTypeOK
  <2>2. AnswerTypeOK'
    BY <1>4 DEF AnswerTypeOK
  <2>3. entries' \in [Buckets -> Seq(Entry)]
    BY <1>8 DEF IsTable
  <2>4. steady' \subseteq Names /\ met' \in [Names -> Nat]
    BY <1>0, <1>3, <1>4 DEF HashTypeOK
  <2>5. total' \in [Buckets -> Nat]
    BY <1>0, <1>5, <1>7 DEF HashTypeOK
  <2>6. count' \in Nat
    BY <1>0, <1>4, <1>8, <1>9, HasFinite DEF Counted
  <2>7. QED
    BY <1>0, <1>4, <2>1, <2>2, <2>3, <2>4, <2>5, <2>6 DEF HashTypeOK, AnswerTypeOK
<1>11. RoomForOneMore'
  <2>1. total'[b] = t /\ \A c \in Buckets \ {b} : total'[c] = total[c]
    BY <1>0, <1>2, <1>5 DEF HashTypeOK
  <2>2. QED
    BY <1>0, <1>6, <1>7, <1>8, <2>1 DEF RoomForOneMore, Used
<1>12. Counted'
  BY <1>0, <1>4, <1>9, HasFinite DEF Counted
<1>13. NoTable'
  BY <1>4 DEF NoTable
<1>14. IterInv'
  <2>1. steady' \subseteq Has(entries') /\ (~iter'.on => steady' = {})
    BY <1>0, <1>3, <1>4, <1>9 DEF IterInv
  <2>2. ASSUME NEW m \in steady', NEW i \in Nat, HasAt(entries', m, i) PROVE met'[m] = (IF Passed(m, i) THEN 1 ELSE 0)'
    <3>1. m \in Names /\ m # n /\ m \in steady /\ m \notin MovedPast(b, j) /\ met'[m] = met[m]
      BY <1>0, <1>3, <1>4 DEF HashTypeOK
    <3>2. PICK x \in Nat : x = Was(n, j, m, i)
      BY DEF Was
    <3>3. HasAt(entries, m, x)
      BY <1>8, <2>2, <3>1, <3>2
    <3>4. met[m] = IF Passed(m, x) THEN 1 ELSE 0
      BY <1>0, <3>1, <3>3 DEF IterInv
    <3>5. Passed(m, x) <=> Passed(m, i)
      <4>1. CASE x = i
        BY <4>1
      <4>2. CASE x # i
        <5>1. BucketOf[m] = b /\ i >= j /\ x = i + 1
          BY <1>1, <3>2, <4>2 DEF Was
        <5>2. x \in 1..Used(b) /\ NameAt(b, x) = m
          BY <3>3, <5>1 DEF HasAt, Used, NameAt, At
        <5>3. x \in (j + 1)..Used(b)
          BY <1>6, <5>1, <5>2
        <5>4. ~(b = iter.bucket /\ j - 1 <= iter.entry)
          BY <3>1, <5>2, <5>3 DEF MovedPast
        <5>5. iter.entry \in Int /\ b \in Int /\ iter.bucket \in Int
          BY <1>0, <1>2 DEF HashTypeOK, Buckets
        <5>6. b = iter.bucket => ~(x - 1 <= iter.entry) /\ ~(i - 1 <= iter.entry)
          BY <1>3, <5>1, <5>4, <5>5
        <5>7. QED
          BY <5>1, <5>5, <5>6 DEF Passed
      <4>3. QED
        BY <4>1, <4>2
    <3>6. (IF Passed(m, i) THEN 1 ELSE 0)' = IF Passed(m, i) THEN 1 ELSE 0
      BY <1>4 DEF Passed
    <3>7. QED
      BY <3>1, <3>4, <3>5, <3>6
  <2>3. QED
    BY <2>1, <2>2 DEF IterInv
<1>15. QED
  BY <1>8, <1>10, <1>11, <1>12, <1>13, <1>14 DEF HashInv, TableInv


(* A table without entries, and its iterator.                                  *)
LEMMA EmptyTable ==
  ASSUME NEW E, E = [b \in Buckets |-> <<>>]
  PROVE  IsTable(E) /\ Has(E) = {} /\ \A b \in Buckets : E[b] = <<>> /\ Len(E[b]) = 0
<1>1. \A b \in Buckets : E[b] = <<>> /\ Len(E[b]) = 0
  OBVIOUS
<1>2. IsTable(E)
  BY <1>1 DEF IsTable
<1>3. Has(E) = {}
  BY <1>1, HashKeys DEF Has, HasAt
<1>4. QED
  BY <1>1, <1>2, <1>3

(* A table made, and one freed.                                                *)
LEMMA NewInv ==
  ASSUME HashInv, HashNew
  PROVE  HashInv'
<1>1. AnswerTypeOK' /\ frees' \in FreePairs /\ frees' # <<>>
  <2>1. frees' \in BOOLEAN \X BOOLEAN
    BY HashOptions DEF HashNew
  <2>2. QED
    BY <2>1 DEF HashNew, AnswerTypeOK
<1>2. QED
  BY <1>1, SameEntries DEF HashInv, TableInv, HashTypeOK, HashNew, iterVars

LEMMA FreeInv ==
  ASSUME HashInv, HashFree
  PROVE  HashInv'
<1>0. HashTypeOK
  BY DEF HashInv, TableInv
<1>1. IsTable(entries') /\ Has(entries') = {} /\ \A b \in Buckets : entries'[b] = <<>> /\ Len(entries'[b]) = 0
  <2>1. PICK F : F = entries'
    OBVIOUS
  <2>2. F = [b \in Buckets |-> <<>>]
    BY <2>1 DEF HashFree
  <2>3. QED
    BY <2>1, <2>2, EmptyTable
<1>2. 0 \in Buckets
  BY HashSizes DEF Buckets
<1>3. HashTypeOK'
  BY <1>0, <1>1, <1>2 DEF HashTypeOK, HashFree, Idle, IsTable
<1>4. RoomForOneMore'
  BY <1>1 DEF RoomForOneMore, Used, HashFree
<1>5. Counted'
  BY <1>1, FS_EmptySet DEF Counted, HashFree
<1>6. NoTable'
  BY <1>1 DEF NoTable
<1>7. IterInv'
  BY DEF IterInv, HashFree
<1>8. QED
  BY <1>1, <1>3, <1>4, <1>5, <1>6, <1>7 DEF HashInv, TableInv

(* An iteration begun: nothing is behind the iterator yet.                     *)
LEMMA IterInitInv ==
  ASSUME HashInv, IterInit
  PROVE  HashInv'
<1>0. HashTypeOK /\ IsTable(entries)
  BY DEF HashInv, TableInv
<1>1. /\ iter' = [on |-> TRUE, bucket |-> 0, entry |-> -1] /\ met' = [n \in Names |-> 0] /\ steady' = Present
      /\ UNCHANGED <<tableVars, answer>>
  BY DEF IterInit, Idle
<1>2. Present = Has(entries) /\ Has(entries) \subseteq Names
  BY <1>0, InWords DEF Has
<1>3. 0 \in Buckets
  BY HashSizes DEF Buckets
<1>4. HashTypeOK'
  BY <1>0, <1>1, <1>2, <1>3 DEF HashTypeOK, tableVars
<1>5. (IsTable(entries) /\ RoomForOneMore /\ Counted /\ NoTable)'
  BY <1>1 DEF HashInv, TableInv, RoomForOneMore, Counted, NoTable, Used, tableVars
<1>6. IterInv'
  <2>1. ASSUME NEW n \in Names, NEW i \in Nat, HasAt(entries, n, i) PROVE ~Passed(n, i)'
    <3>1. BucketOf[n] \in Buckets /\ i >= 1
      BY <1>0, <2>1, HashKeys, PlaceOK DEF HasAt
    <3>2. BucketOf[n] \in Nat
      BY <3>1 DEF Buckets
    <3>3. QED
      BY <1>1, <3>1, <3>2 DEF Passed
  <2>2. QED
    BY <1>1, <1>2, <2>1 DEF IterInv, tableVars
<1>7. QED
  BY <1>4, <1>5, <1>6 DEF HashInv, TableInv

(* An iteration that goes on: what it stops at, and nothing else, falls behind *)
(* the iterator.                                                               *)
LEMMA StopsAtNext ==
  ASSUME HashInv, NEW b \in Buckets, NEW e \in 0..(Used(b) - 1), StopsAt(b, e),
         iter' = [iter EXCEPT !.bucket = b, !.entry = e]
  PROVE  /\ e \in Nat /\ e + 1 \in 1..Used(b) /\ iter'.bucket = b /\ iter'.entry = e /\ iter'.on = iter.on
         /\ iter' \in [on : BOOLEAN, bucket : Buckets, entry : Int]
         /\ \A n \in Names, i \in Nat : HasAt(entries, n, i) =>
              IF NameAt(b, e + 1) = n THEN ~Passed(n, i) /\ Passed(n, i)' ELSE Passed(n, i)' <=> Passed(n, i)
<1>0. HashTypeOK /\ IsTable(entries)
  BY DEF HashInv, TableInv
<1>1. Used(b) \in Nat
  BY <1>0, PlaceOK DEF Used
<1>2. e \in Nat /\ e + 1 \in 1..Used(b)
  BY <1>1
<1>3. PICK c, d : c = iter.bucket /\ d = iter.entry
  OBVIOUS
<1>4. c \in Buckets /\ d \in Int /\ d >= -1
  BY <1>0, <1>3 DEF HashTypeOK
<1>5. iter'.bucket = b /\ iter'.entry = e /\ iter'.on = iter.on /\ iter' \in [on : BOOLEAN, bucket : Buckets, entry : Int]
  <2>1. PICK r : r = iter
    OBVIOUS
  <2>2. PICK q : q = iter'
    OBVIOUS
  <2>3. q = [r EXCEPT !.bucket = b, !.entry = e] /\ r \in [on : BOOLEAN, bucket : Buckets, entry : Int]
    BY <1>0, <2>1, <2>2 DEF HashTypeOK
  <2>4. q.bucket = b /\ q.entry = e /\ q.on = r.on /\ q \in [on : BOOLEAN, bucket : Buckets, entry : Int]
    <3>1. q.bucket = b /\ q.entry = e /\ q.on = r.on
      BY <2>3
    <3>2. e \in Int
      BY <1>2
    <3>3. q \in [on : BOOLEAN, bucket : Buckets, entry : Int]
      BY <2>3, <3>2
    <3>4. QED
      BY <3>1, <3>3
  <2>5. QED
    BY <2>1, <2>2, <2>4
<1>6. ASSUME NEW n \in Names, NEW i \in Nat, HasAt(entries, n, i)
      PROVE  IF NameAt(b, e + 1) = n THEN ~Passed(n, i) /\ Passed(n, i)' ELSE Passed(n, i)' <=> Passed(n, i)
  <2>1. PICK a : a = BucketOf[n]
    OBVIOUS
  <2>2. a \in Buckets /\ i \in 1..Used(a) /\ At(entries, a, i) = n /\ Used(a) \in Nat
    BY <1>0, <1>6, <2>1, HashKeys, PlaceOK DEF HasAt, Used
  <2>3. a \in Int /\ b \in Int /\ c \in Int /\ i >= 1 /\ i <= Used(a) /\ a < NBuckets /\ a >= 0
    BY <1>4, <2>2, HashSizes DEF Buckets
  <2>4. NameAt(b, e + 1) = n <=> a = b /\ i = e + 1
    <3>1. NameAt(b, e + 1) = At(entries, b, e + 1)
      BY DEF NameAt, At
    <3>2. ASSUME At(entries, b, e + 1) = n PROVE a = b /\ i = e + 1
      <4>1. HasAt(entries, n, e + 1) /\ BucketOf[n] = b
        BY <1>0, <1>2, <3>2 DEF IsTable, HasAt, Used
      <4>2. QED
        BY <1>0, <1>2, <1>6, <2>1, <4>1, KeepsWhat
    <3>3. QED
      BY <2>2, <3>1, <3>2
  <2>5. Passed(n, i) <=> a < c \/ (a = c /\ i - 1 <= d)
    BY <1>3, <2>1 DEF Passed
  <2>6. Passed(n, i)' <=> a < b \/ (a = b /\ i - 1 <= e)
    BY <1>5, <2>1 DEF Passed
  <2>7. \/ b = c /\ e = d + 1
        \/ /\ d + 1 >= Used(c) /\ e = 0 /\ b > c
           /\ \A x \in (c + 1)..(b - 1) : Used(x) = 0
    BY <1>3 DEF StopsAt
  <2>8. CASE b = c /\ e = d + 1
    <3>1. CASE a = b /\ i = e + 1
      BY <1>2, <1>4, <2>3, <2>4, <2>5, <2>6, <2>8, <3>1
    <3>2. CASE ~(a = b /\ i = e + 1)
      <4>1. Passed(n, i)' <=> Passed(n, i)
        BY <1>2, <1>4, <2>3, <2>5, <2>6, <2>8, <3>2
      <4>2. QED
        BY <2>4, <3>2, <4>1
    <3>3. QED
      BY <3>1, <3>2
  <2>9. CASE d + 1 >= Used(c) /\ e = 0 /\ b > c /\ \A x \in (c + 1)..(b - 1) : Used(x) = 0
    <3>1. ~(a \in (c + 1)..(b - 1))
      BY <2>2, <2>9
    <3>2. a <= c \/ a >= b
      BY <2>3, <3>1
    <3>3. a = c => i - 1 <= d
      BY <1>4, <2>2, <2>3, <2>9
    <3>4. CASE a = b /\ i = e + 1
      BY <1>2, <1>4, <2>3, <2>4, <2>5, <2>6, <2>9, <3>4
    <3>5. CASE ~(a = b /\ i = e + 1)
      <4>1. Passed(n, i) <=> a <= c
        BY <1>4, <2>3, <2>5, <3>3
      <4>2. Passed(n, i)' <=> a <= c
        BY <1>4, <2>3, <2>6, <2>9, <3>2, <3>5
      <4>3. QED
        BY <2>4, <3>5, <4>1, <4>2
    <3>6. QED
      BY <3>4, <3>5
  <2>10. QED
    BY <2>7, <2>8, <2>9
<1>7. QED
  BY <1>2, <1>5, <1>6

LEMMA IterNextInv ==
  ASSUME HashInv, IterNext
  PROVE  HashInv'
<1>0. HashTypeOK /\ IsTable(entries) /\ IterInv
  BY DEF HashInv, TableInv
<1>b. PICK b \in Buckets : \E e \in 0..(Used(b) - 1) :
        /\ StopsAt(b, e) /\ iter' = [iter EXCEPT !.bucket = b, !.entry = e]
        /\ met' = [met EXCEPT ![NameAt(b, e + 1)] = IF NameAt(b, e + 1) \in steady THEN @ + 1 ELSE @]
  BY DEF IterNext
<1>1. PICK e \in 0..(Used(b) - 1) :
        /\ StopsAt(b, e) /\ iter' = [iter EXCEPT !.bucket = b, !.entry = e]
        /\ met' = [met EXCEPT ![NameAt(b, e + 1)] = IF NameAt(b, e + 1) \in steady THEN @ + 1 ELSE @]
  BY <1>b
<1>2. iter.on /\ steady' = steady /\ UNCHANGED <<tableVars, answer>>
  BY DEF IterNext
<1>3. /\ e \in Nat /\ e + 1 \in 1..Used(b) /\ iter'.entry = e /\ iter'.on = iter.on
      /\ iter' \in [on : BOOLEAN, bucket : Buckets, entry : Int]
  BY <1>1, StopsAtNext
<1>4. \A n \in Names, i \in Nat : HasAt(entries, n, i) =>
        IF NameAt(b, e + 1) = n THEN ~Passed(n, i) /\ Passed(n, i)' ELSE Passed(n, i)' <=> Passed(n, i)
  BY <1>1, StopsAtNext
<1>5. PICK m : m = NameAt(b, e + 1)
  OBVIOUS
<1>6. PICK v : v = IF m \in steady THEN met[m] + 1 ELSE met[m]
  OBVIOUS
<1>7. m \in Names
  BY <1>0, <1>3, <1>5, PlaceOK DEF NameAt, At, Used
<1>8. met' = [met EXCEPT ![m] = v] /\ v \in Nat
  BY <1>0, <1>1, <1>5, <1>6, <1>7 DEF HashTypeOK
<1>9. met'[m] = v /\ met' \in [Names -> Nat] /\ \A n \in Names \ {m} : met'[n] = met[n]
  BY <1>0, <1>7, <1>8 DEF HashTypeOK
<1>10. HashTypeOK'
  BY <1>0, <1>2, <1>3, <1>9 DEF HashTypeOK, tableVars
<1>11. (IsTable(entries) /\ RoomForOneMore /\ Counted /\ NoTable)'
  BY <1>2 DEF HashInv, TableInv, RoomForOneMore, Counted, NoTable, Used, tableVars
<1>12. IterInv'
  <2>1. ASSUME NEW n \in steady, NEW i \in Nat, HasAt(entries, n, i) PROVE met'[n] = (IF Passed(n, i) THEN 1 ELSE 0)'
    <3>1. n \in Names /\ met[n] = IF Passed(n, i) THEN 1 ELSE 0
      BY <1>0, <2>1 DEF IterInv, HashTypeOK
    <3>2. CASE n = m
      <4>1. ~Passed(n, i) /\ Passed(n, i)'
        BY <1>4, <1>5, <2>1, <3>1, <3>2
      <4>2. met'[n] = 1
        BY <1>6, <1>9, <3>1, <3>2, <4>1
      <4>3. QED
        BY <4>1, <4>2
    <3>3. CASE n # m
      <4>1. Passed(n, i)' <=> Passed(n, i)
        BY <1>4, <1>5, <2>1, <3>1, <3>3
      <4>2. QED
        BY <1>9, <3>1, <3>3, <4>1
    <3>4. QED
      BY <3>2, <3>3
  <2>2. entries' = entries
    BY <1>2 DEF tableVars
  <2>3. QED
    BY <1>0, <1>2, <1>3, <2>1, <2>2 DEF IterInv
<1>13. QED
  BY <1>10, <1>11, <1>12 DEF HashInv, TableInv

(* When it ends, everything is behind the iterator.                            *)
LEMMA AllPassed ==
  ASSUME HashInv, IterEnds, NEW n \in steady
  PROVE  met[n] = 1
<1>0. HashTypeOK /\ IsTable(entries) /\ IterInv
  BY DEF HashInv, TableInv
<1>1. n \in Has(entries) /\ n \in Names
  BY <1>0 DEF IterInv, HashTypeOK
<1>2. PICK i \in Nat : HasAt(entries, n, i)
  BY <1>1 DEF Has
<1>3. PICK a : a = BucketOf[n]
  OBVIOUS
<1>4. a \in Buckets /\ i \in 1..Used(a) /\ Used(a) \in Nat
  BY <1>0, <1>1, <1>2, <1>3, HashKeys, PlaceOK DEF HasAt, Used
<1>5. PICK c, d : c = iter.bucket /\ d = iter.entry
  OBVIOUS
<1>6. c \in Buckets /\ d \in Int
  BY <1>0, <1>5 DEF HashTypeOK
<1>7. d + 1 >= Used(c) /\ \A b \in (c + 1)..(NBuckets - 1) : Used(b) = 0
  BY <1>5 DEF IterEnds
<1>8. a \in Int /\ c \in Int /\ a <= NBuckets - 1 /\ NBuckets \in Int /\ i <= Used(a) /\ i >= 1
  BY <1>4, <1>6, HashSizes DEF Buckets
<1>9. ~(a \in (c + 1)..(NBuckets - 1))
  BY <1>4, <1>7
<1>10. a <= c
  BY <1>8, <1>9
<1>11. a = c => i - 1 <= d
  BY <1>4, <1>6, <1>7, <1>8
<1>12. Passed(n, i)
  BY <1>3, <1>5, <1>8, <1>10, <1>11 DEF Passed
<1>13. QED
  BY <1>0, <1>2, <1>12 DEF IterInv

LEMMA IterEndsInv ==
  ASSUME HashInv, IterEnds
  PROVE  HashInv'
<1>0. HashTypeOK
  BY DEF HashInv, TableInv
<1>1. 0 \in Buckets
  BY HashSizes DEF Buckets
<1>2. HashTypeOK'
  BY <1>0, <1>1 DEF HashTypeOK, IterEnds, tableVars, Idle
<1>3. (IsTable(entries) /\ RoomForOneMore /\ Counted /\ NoTable)'
  BY DEF HashInv, TableInv, RoomForOneMore, Counted, NoTable, Used, IterEnds, tableVars
<1>4. IterInv'
  BY DEF IterInv, IterEnds
<1>5. QED
  BY <1>2, <1>3, <1>4 DEF HashInv, TableInv

LEMMA HashInvStep == HashInv /\ [HashNext]_hashVars => HashInv'
<1> SUFFICES ASSUME HashInv, HashNext \/ UNCHANGED hashVars PROVE HashInv'
  BY DEF hashVars
<1>1. CASE HashNext
  BY <1>1, NewInv, FreeInv, IterInitInv, IterNextInv, IterEndsInv, DelInv, RefusedInv, AddsLastInv, ReplaceInv
  DEF HashNext, HashAdd, HashAddUnique
<1>2. CASE UNCHANGED hashVars
  <2>1. UNCHANGED <<entries, total, count, frees, owned, answer, iterVars>>
    BY <1>2 DEF hashVars, iterVars
  <2>2. QED
    BY <2>1, SameEntries DEF HashInv, TableInv, HashTypeOK, AnswerTypeOK
<1>3. QED
  BY <1>1, <1>2


-----------------------------------------------------------------------------
(* What a step leaves in the table is what the map keeps then.                 *)
LEMMA ContentsNext ==
  ASSUME IsTable(entries')
  PROVE  Contents' = Keeps(entries')
<1>1. \A n \in Names : BucketOf[n] \in Buckets
  BY HashKeys
<1>2. ASSUME NEW n \in Names PROVE n \in Present' <=> n \in Has(entries')
  <2>1. n \in Present' <=> \E b \in Buckets : \E i \in 1..Len(entries'[b]) : n = At(entries', b, i)
    BY DEF Present, InBucket, Used, NameAt, At
  <2>2. ASSUME NEW b \in Buckets, NEW i \in 1..Len(entries'[b]), n = At(entries', b, i) PROVE n \in Has(entries')
    BY <2>2, PlaceOK
  <2>3. n \in Has(entries') => \E b \in Buckets : \E i \in 1..Len(entries'[b]) : n = At(entries', b, i)
    BY <1>1 DEF Has, HasAt
  <2>4. QED
    BY <2>1, <2>2, <2>3
<1>3. \A n \in Names : Contents'[n] = Keeps(entries')[n]
  BY <1>1, <1>2 DEF Contents, Keeps, ValueOf, NameAt, At, Used
<1>4. QED
  BY <1>3 DEF Contents, Keeps

LEMMA BecomesWhat ==
  ASSUME HashInv', NEW s, s = Keeps(entries'), NEW a, a = answer'
  PROVE  KS!Becomes(s, a)
<1>1. IsTable(entries') /\ count' = Cardinality(Has(entries'))
  BY DEF HashInv, TableInv, Counted
<1>2. Contents' = s
  BY <1>1, ContentsNext
<1>3. KS!Kept(s) = Has(entries')
  BY <1>1, HasFinite
<1>4. count' = Cardinality(KS!Kept(s))
  BY <1>1, <1>3
<1>5. Cardinality(KS!Kept(s)) = KS!Cardinality(KS!Kept(s))
  BY DEF Cardinality, KS!Cardinality
<1>6. QED
  BY <1>2, <1>4, <1>5 DEF KS!Becomes

LEMMA Forgets ==
  ASSUME HashInv, HashInv', HashNew \/ HashFree
  PROVE  KS!Forget
<1>1. Has(entries') = {} /\ answer' = <<>>
  <2>1. PICK F : F = entries'
    OBVIOUS
  <2>2. F = [b \in Buckets |-> <<>>]
    <3>1. CASE HashNew
      <4>1. F \in [Buckets -> Seq(Entry)] /\ \A b \in Buckets : F[b] = <<>>
        BY <2>1, <3>1 DEF HashNew, HashInv, TableInv, NoTable, HashTypeOK
      <4>2. QED
        BY <4>1
    <3>2. CASE HashFree
      BY <2>1, <3>2 DEF HashFree
    <3>3. QED
      BY <3>1, <3>2
  <2>3. Has(F) = {}
    BY <2>2, EmptyTable
  <2>4. QED
    BY <2>1, <2>3 DEF HashNew, HashFree
<1>2. Keeps(entries') = [n \in Names |-> Absent]
  BY <1>1 DEF Keeps
<1>3. QED
  BY <1>1, <1>2, BecomesWhat DEF KS!Forget

LEMMA Puts ==
  ASSUME HashInv, HashInv', NEW k \in KeyPtrs, NEW v \in Values, AddsLast(k, v) \/ Replace(k, v)
  PROVE  \E n \in Names : KS!AskedFor(n) /\ KS!Put(n, v)
<1>0. IsTable(entries)
  BY DEF HashInv, TableInv
<1>1. PICK n : n = NameOf[k]
  OBVIOUS
<1>2. PICK b : b = BucketOf[n]
  OBVIOUS
<1>3. n \in Names /\ b \in Buckets /\ Used(b) \in Nat
  BY <1>0, <1>1, <1>2, HashKeys, PlaceOK DEF Used
<1>4. Keeps(entries') = [Keeps(entries) EXCEPT ![n] = v]
  <2>1. PICK F : F = entries'
    OBVIOUS
  <2>2. CASE AddsLast(k, v)
    <3>1. n \notin Has(entries) /\ Appends(entries, F, k, v)
      BY <1>0, <1>1, <1>3, <2>1, <2>2, InWords DEF AddsLast, Appends
    <3>2. QED
      BY <1>0, <1>1, <1>2, <2>1, <3>1, AppendKeeps
  <2>3. CASE Replace(k, v)
    <3>1. PICK j \in 1..Used(b) :
            Finds(n, j) /\ entries' = [entries EXCEPT ![b][j] = [key |-> k, value |-> v]]
      BY <1>1, <1>2, <2>3 DEF Replace
    <3>2. j \in Nat /\ Replaces(entries, F, k, v, j)
      BY <1>0, <1>1, <1>2, <1>3, <2>1, <3>1, InWords DEF Replaces
    <3>3. QED
      BY <1>0, <1>1, <1>2, <2>1, <3>2, ReplaceKeeps
  <2>4. QED
    BY <2>2, <2>3
<1>5. answer' = <<n, "ok">>
  BY <1>1 DEF AddsLast, Replace
<1>6. KS!Put(n, v)
  BY <1>0, <1>4, <1>5, InWords, BecomesWhat DEF KS!Put
<1>7. QED
  BY <1>3, <1>5, <1>6 DEF KS!AskedFor

LEMMA Removes ==
  ASSUME HashInv, HashInv', NEW n \in Names, HashDel(n)
  PROVE  KS!AskedFor(n) /\ KS!Remove(n)
<1>0. IsTable(entries)
  BY DEF HashInv, TableInv
<1>1. PICK b : b = BucketOf[n]
  OBVIOUS
<1>2. PICK j \in Nat : Deletes(entries, entries', n, j)
  BY <1>1, DelDoes
<1>3. n \in Has(entries) /\ Keeps(entries') = [Keeps(entries) EXCEPT ![n] = Absent]
  <2>1. PICK F : F = entries'
    OBVIOUS
  <2>2. Deletes(entries, F, n, j)
    BY <1>2, <2>1
  <2>3. n \in Has(entries) /\ Keeps(F) = [Keeps(entries) EXCEPT ![n] = Absent]
    BY <1>0, <1>1, <2>2, DeleteKeeps
  <2>4. QED
    BY <2>1, <2>3
<1>4. answer' = <<n, "ok">>
  BY DEF HashDel
<1>5. Contents = Keeps(entries) /\ Contents[n] # Absent
  BY <1>0, <1>3, InWords, KeepsWhat
<1>6. KS!Remove(n)
  BY <1>3, <1>4, <1>5, BecomesWhat DEF KS!Remove
<1>7. QED
  BY <1>4, <1>6 DEF KS!AskedFor

(* Where no entry changes, the map is the one before.                          *)
LEMMA KeptAsItWas ==
  ASSUME HashInv, HashInv', entries' = entries
  PROVE  KS!Becomes(Contents, answer')
<1>1. Contents = Keeps(entries')
  BY InWords DEF HashInv, TableInv
<1>2. QED
  BY <1>1, BecomesWhat

LEMMA RefusesOrLooks ==
  ASSUME HashInv, HashInv'
  PROVE  /\ \A k \in KeyPtrs, v \in Values :
              /\ AddFails(k, v) => \E n \in Names : KS!AskedFor(n) /\ KS!PutFails(n)
              /\ AddUniqueRefused(k, v) => \E n \in Names : KS!AskedFor(n) /\ KS!PutRefused(n)
         /\ \A n \in Names :
              /\ HashDelRefused(n) => KS!AskedFor(n) /\ KS!RemoveRefused(n)
              /\ HashFind(n) => KS!AskedFor(n) /\ KS!Look(n)
<1>0. IsTable(entries)
  BY DEF HashInv, TableInv
<1>1. ASSUME NEW n \in Names PROVE /\ Missing(n) => Contents[n] = Absent
                                   /\ ~Missing(n) => Contents[n] # Absent
                                   /\ \A i \in Nat : Finds(n, i) => Contents[n] = entries[BucketOf[n]][i].value
  BY <1>0, InWords, KeepsWhat
<1>2. ASSUME NEW k \in KeyPtrs, NEW v \in Values, AddFails(k, v)
      PROVE  \E n \in Names : KS!AskedFor(n) /\ KS!PutFails(n)
  <2>1. NameOf[k] \in Names /\ answer' = <<NameOf[k], "ENOMEM">> /\ entries' = entries
    BY <1>2, HashKeys DEF AddFails, tableVars
  <2>2. KS!PutFails(NameOf[k])
    BY <2>1, KeptAsItWas DEF KS!PutFails
  <2>3. QED
    BY <2>1, <2>2 DEF KS!AskedFor
<1>3. ASSUME NEW k \in KeyPtrs, NEW v \in Values, AddUniqueRefused(k, v)
      PROVE  \E n \in Names : KS!AskedFor(n) /\ KS!PutRefused(n)
  <2>1. NameOf[k] \in Names /\ answer' = <<NameOf[k], "EEXIST">> /\ entries' = entries /\ ~Missing(NameOf[k])
    BY <1>3, HashKeys DEF AddUniqueRefused
  <2>2. KS!PutRefused(NameOf[k])
    BY <1>1, <2>1, KeptAsItWas DEF KS!PutRefused
  <2>3. QED
    BY <2>1, <2>2 DEF KS!AskedFor
<1>4. ASSUME NEW n \in Names, HashDelRefused(n) PROVE KS!AskedFor(n) /\ KS!RemoveRefused(n)
  <2>1. answer' = <<n, "ENOENT">> /\ entries' = entries /\ Missing(n)
    BY <1>4 DEF HashDelRefused, tableVars
  <2>2. KS!RemoveRefused(n)
    BY <1>1, <2>1, KeptAsItWas DEF KS!RemoveRefused
  <2>3. QED
    BY <2>1, <2>2 DEF KS!AskedFor
<1>5. ASSUME NEW n \in Names, HashFind(n) PROVE KS!AskedFor(n) /\ KS!Look(n)
  <2>1. entries' = entries
    BY <1>5 DEF HashFind, tableVars
  <2>2. Used(BucketOf[n]) \in Nat
    BY <1>0, HashKeys, PlaceOK DEF Used
  <2>3. answer' = <<n, Contents[n]>>
    BY <1>1, <1>5, <2>2 DEF HashFind
  <2>4. KS!Look(n)
    BY <2>1, <2>3, KeptAsItWas DEF KS!Look
  <2>5. QED
    BY <2>3, <2>4 DEF KS!AskedFor
<1>6. QED
  BY <1>2, <1>3, <1>4, <1>5

(* The iterator is not the map's affair.                                       *)
LEMMA IterStutters ==
  ASSUME HashInv, UNCHANGED <<entries, count, answer>>
  PROVE  UNCHANGED KS!storeVars
<1>1. IsTable(entries) /\ IsTable(entries')
  BY DEF HashInv, TableInv
<1>2. Contents' = Contents
  BY <1>1, InWords, ContentsNext
<1>3. QED
  BY <1>2 DEF KS!storeVars

LEMMA StoreStep ==
  ASSUME HashInv, HashInv', HashNext \/ UNCHANGED hashVars
  PROVE  KS!StoreNext \/ UNCHANGED KS!storeVars
<1>1. CASE HashNew \/ HashFree
  BY <1>1, Forgets DEF KS!StoreNext
<1>2. CASE IterInit \/ IterNext \/ IterEnds \/ UNCHANGED hashVars
  BY <1>2, IterStutters DEF IterInit, IterNext, IterEnds, tableVars, hashVars
<1>3. ASSUME NEW n \in Names, HashDel(n) PROVE KS!StoreNext
  BY <1>3, Removes DEF KS!StoreNext
<1>4. ASSUME NEW n \in Names, HashDelRefused(n) \/ HashFind(n) PROVE KS!StoreNext
  BY <1>4, RefusesOrLooks DEF KS!StoreNext
<1>5. ASSUME NEW k \in KeyPtrs, NEW v \in Values, AddsLast(k, v) \/ Replace(k, v) PROVE KS!StoreNext
  <2>1. PICK n \in Names : KS!AskedFor(n) /\ KS!Put(n, v)
    BY <1>5, Puts
  <2>2. QED
    BY <2>1 DEF KS!StoreNext
<1>6. ASSUME NEW k \in KeyPtrs, NEW v \in Values, AddFails(k, v) \/ AddUniqueRefused(k, v) PROVE KS!StoreNext
  BY <1>6, RefusesOrLooks DEF KS!StoreNext
<1>7. QED
  BY <1>1, <1>2, <1>3, <1>4, <1>5, <1>6 DEF HashNext, HashAdd, HashAddUnique

LEMMA StoreStarts == HashInit => KS!StoreInit
<1> SUFFICES ASSUME HashInit PROVE KS!StoreInit
  OBVIOUS
<1>1. IsTable(entries) /\ Has(entries) = {}
  BY EmptyTable DEF HashInit
<1>2. Contents = [n \in Names |-> Absent]
  BY <1>1, InWords DEF Keeps
<1>3. QED
  BY <1>2 DEF KS!StoreInit, HashInit


-----------------------------------------------------------------------------
(* What a table made with the free functions f frees of the entry e; the set O *)
(* is what the entries E own, each pointer in one of them.                     *)
FreedOf(f, e) == (IF f[1] THEN {e.key} ELSE {}) \cup (IF f[2] THEN {e.value} ELSE {})
HeldBy(f, E, p, b, i) == i \in 1..Len(E[b]) /\ p \in FreedOf(f, E[b][i])
OwnedBy(f, E, O) ==
  /\ \A p : p \in O <=> \E b \in Buckets : \E i \in Nat : HeldBy(f, E, p, b, i)
  /\ \A p : \A b, c \in Buckets : \A i, j \in Nat :
       HeldBy(f, E, p, b, i) /\ HeldBy(f, E, p, c, j) => b = c /\ i = j

LEMMA OwnsWords ==
  ASSUME IsTable(entries)
  PROVE  OwnsWhatItHolds <=> OwnedBy(frees, entries, owned)
<1>1. \A b \in Buckets : Used(b) = Len(entries[b]) /\ Len(entries[b]) \in Nat
  BY PlaceOK DEF Used
<1>2. \A p : \A b \in Buckets : \A i :
        i \in 1..Used(b) /\ p \in Freed(entries[b][i].key, entries[b][i].value) <=> i \in Nat /\ HeldBy(frees, entries, p, b, i)
  BY <1>1 DEF Freed, FreedOf, HeldBy
<1> DEFINE Held == UNION {UNION {Freed(entries[b][i].key, entries[b][i].value) : i \in 1..Used(b)} : b \in Buckets}
<1>3. ASSUME NEW p PROVE p \in Held <=> \E b \in Buckets : \E i \in Nat : HeldBy(frees, entries, p, b, i)
  <2>1. p \in Held <=> \E b \in Buckets : \E i \in 1..Used(b) : p \in Freed(entries[b][i].key, entries[b][i].value)
    OBVIOUS
  <2> HIDE DEF Held
  <2>2. QED
    BY <1>2, <2>1
<1> HIDE DEF Held
<1>4. owned = Held <=> \A p : p \in owned <=> \E b \in Buckets : \E i \in Nat : HeldBy(frees, entries, p, b, i)
  BY <1>3
<1> DEFINE Disjoint ==
  \A b, c \in Buckets : \A i \in 1..Used(b), j \in 1..Used(c) :
    (Freed(entries[b][i].key, entries[b][i].value)
       \cap Freed(entries[c][j].key, entries[c][j].value) # {}) => b = c /\ i = j
<1>5. Disjoint <=> \A p : \A b, c \in Buckets : \A i, j \in Nat :
                     HeldBy(frees, entries, p, b, i) /\ HeldBy(frees, entries, p, c, j) => b = c /\ i = j
  <2>1. ASSUME Disjoint, NEW p, NEW b \in Buckets, NEW c \in Buckets, NEW i \in Nat, NEW j \in Nat,
               HeldBy(frees, entries, p, b, i), HeldBy(frees, entries, p, c, j)
        PROVE  b = c /\ i = j
    <3>1. /\ i \in 1..Used(b) /\ p \in Freed(entries[b][i].key, entries[b][i].value)
          /\ j \in 1..Used(c) /\ p \in Freed(entries[c][j].key, entries[c][j].value)
      BY <1>2, <2>1
    <3>2. Freed(entries[b][i].key, entries[b][i].value) \cap Freed(entries[c][j].key, entries[c][j].value) # {}
      BY <3>1
    <3>3. QED
      BY <2>1, <3>1, <3>2
  <2>2. ASSUME NEW b \in Buckets, NEW c \in Buckets, NEW i \in 1..Used(b), NEW j \in 1..Used(c),
               Freed(entries[b][i].key, entries[b][i].value) \cap Freed(entries[c][j].key, entries[c][j].value) # {},
               \A p : \A x, y \in Buckets : \A l, m \in Nat :
                 HeldBy(frees, entries, p, x, l) /\ HeldBy(frees, entries, p, y, m) => x = y /\ l = m
        PROVE  b = c /\ i = j
    <3>1. PICK p : /\ p \in Freed(entries[b][i].key, entries[b][i].value)
                   /\ p \in Freed(entries[c][j].key, entries[c][j].value)
      BY <2>2
    <3>2. i \in Nat /\ HeldBy(frees, entries, p, b, i) /\ j \in Nat /\ HeldBy(frees, entries, p, c, j)
      BY <1>2, <3>1
    <3>3. QED
      BY <2>2, <3>2
  <2> DEFINE OneHolder ==
    \A p : \A x, y \in Buckets : \A l, m \in Nat :
      HeldBy(frees, entries, p, x, l) /\ HeldBy(frees, entries, p, y, m) => x = y /\ l = m
  <2>3. Disjoint => OneHolder
    BY <2>1
  <2>4. OneHolder => Disjoint
    BY <2>2
  <2>5. QED
    BY <2>3, <2>4
<1>6. OwnsWhatItHolds <=> owned = Held /\ Disjoint
  BY DEF OwnsWhatItHolds, Held, Disjoint
<1> HIDE DEF Disjoint
<1>7. QED
  BY <1>4, <1>5, <1>6 DEF OwnedBy

(* A new entry of pointers the table does not own.                             *)
LEMMA OwnsAppended ==
  ASSUME NEW f, NEW E, IsTable(E), NEW k \in KeyPtrs, NEW v \in Values, NEW O, OwnedBy(f, E, O),
         {k, v} \cap O = {}, NameOf[k] \notin Has(E), NEW F, Appends(E, F, k, v)
  PROVE  OwnedBy(f, F, O \cup FreedOf(f, Pair(k, v)))
<1>1. PICK n : n = NameOf[k]
  OBVIOUS
<1>2. PICK b : b = BucketOf[n]
  OBVIOUS
<1>3. b \in Buckets /\ Len(E[b]) \in Nat
  BY <1>1, <1>2, HashKeys, PlaceOK
<1>4. PICK l : l = Len(E[b])
  OBVIOUS
<1>a. OneAppended(E, F, n, b, Pair(k, v))
  BY <1>1, <1>2, AppendedEntry
<1>5. l \in Nat /\ Len(F[b]) = l + 1 /\ F[b][l + 1] = Pair(k, v)
  BY <1>3, <1>4, <1>a DEF OneAppended
<1>6. \A i \in 1..l : F[b][i] = E[b][i]
  BY <1>4, <1>a DEF OneAppended
<1>7. \A c \in Buckets \ {b} : F[c] = E[c]
  BY <1>a DEF OneAppended
<1>8. FreedOf(f, Pair(k, v)) \subseteq {k, v}
  BY DEF FreedOf, Pair
<1>9. ASSUME NEW p, NEW c \in Buckets, NEW i \in Nat
      PROVE  HeldBy(f, F, p, c, i) <=> HeldBy(f, E, p, c, i) \/ (c = b /\ i = l + 1 /\ p \in FreedOf(f, Pair(k, v)))
  <2>1. CASE c = b /\ i = l + 1
    <3>1. ~HeldBy(f, E, p, c, i) /\ i \in 1..Len(F[c])
      BY <1>4, <1>5, <2>1 DEF HeldBy
    <3>2. QED
      BY <1>5, <2>1, <3>1 DEF HeldBy
  <2>2. CASE c = b /\ i # l + 1
    <3>1. i \in 1..Len(F[c]) <=> i \in 1..l
      BY <1>5, <2>2
    <3>2. QED
      BY <1>4, <1>6, <2>2, <3>1 DEF HeldBy
  <2>3. CASE c # b
    BY <1>7, <2>3 DEF HeldBy
  <2>4. QED
    BY <2>1, <2>2, <2>3
<1>10. ASSUME NEW p \in FreedOf(f, Pair(k, v)), NEW c \in Buckets, NEW i \in Nat PROVE ~HeldBy(f, E, p, c, i)
  BY <1>8 DEF OwnedBy
<1>11. \A p : p \in O \cup FreedOf(f, Pair(k, v)) <=> \E c \in Buckets : \E i \in Nat : HeldBy(f, F, p, c, i)
  <2>1. l + 1 \in Nat
    BY <1>5
  <2>2. QED
    BY <1>3, <1>9, <2>1 DEF OwnedBy
<1>12. ASSUME NEW p, NEW c \in Buckets, NEW d \in Buckets, NEW i \in Nat, NEW j \in Nat,
              HeldBy(f, F, p, c, i), HeldBy(f, F, p, d, j)
       PROVE  c = d /\ i = j
  <2>1. CASE p \in FreedOf(f, Pair(k, v))
    BY <1>9, <1>10, <1>12, <2>1
  <2>2. CASE p \notin FreedOf(f, Pair(k, v))
    <3>1. HeldBy(f, E, p, c, i) /\ HeldBy(f, E, p, d, j)
      BY <1>9, <1>12, <2>2
    <3>2. QED
      BY <3>1 DEF OwnedBy
  <2>3. QED
    BY <2>1, <2>2
<1>13. QED
  BY <1>11, <1>12 DEF OwnedBy

(* An entry replaced: the old pair is freed, the new one owned.                *)
LEMMA OwnsReplaced ==
  ASSUME NEW f, NEW E, IsTable(E), NEW k \in KeyPtrs, NEW v \in Values, NEW O, OwnedBy(f, E, O),
         {k, v} \cap O = {}, NEW n, n = NameOf[k], NEW b, b = BucketOf[n], NEW j \in Nat, NEW F, Replaces(E, F, k, v, j)
  PROVE  OwnedBy(f, F, (O \cup FreedOf(f, Pair(k, v))) \ FreedOf(f, E[b][j]))
<1>1. /\ IsTable(F) /\ n \in Names /\ b \in Buckets /\ j \in 1..Len(E[b])
      /\ \A c \in Buckets : Len(F[c]) = Len(E[c])
      /\ F[b][j] = Pair(k, v)
      /\ \A c \in Buckets : \A i \in 1..Len(E[c]) : (c # b \/ i # j) => F[c][i] = E[c][i]
      /\ \A m \in Names, i \in Nat : HasAt(F, m, i) <=> HasAt(E, m, i)
  <2>1. OneReplaced(E, F, n, b, j, Pair(k, v))
    BY ReplacedEntry
  <2>2. QED
    BY <2>1 DEF OneReplaced
<1>3. b \in Buckets /\ j \in 1..Len(E[b])
  BY <1>1
<1>4. j \in 1..Len(E[b]) /\ F[b][j] = Pair(k, v)
  BY <1>1
<1>5. \A c \in Buckets : Len(F[c]) = Len(E[c])
  BY <1>1
<1>6. \A c \in Buckets : \A i \in 1..Len(E[c]) : (c # b \/ i # j) => F[c][i] = E[c][i]
  BY <1>1
<1>8. FreedOf(f, Pair(k, v)) \subseteq {k, v}
  BY DEF FreedOf, Pair
<1>9. ASSUME NEW p, NEW c \in Buckets, NEW i \in Nat
      PROVE  HeldBy(f, F, p, c, i) <=> IF c = b /\ i = j THEN p \in FreedOf(f, Pair(k, v)) ELSE HeldBy(f, E, p, c, i)
  <2>1. CASE c = b /\ i = j
    BY <1>3, <1>4, <1>5, <2>1 DEF HeldBy
  <2>2. CASE ~(c = b /\ i = j)
    BY <1>5, <1>6, <2>2 DEF HeldBy
  <2>3. QED
    BY <2>1, <2>2
<1>10. ASSUME NEW p \in FreedOf(f, Pair(k, v)), NEW c \in Buckets, NEW i \in Nat PROVE ~HeldBy(f, E, p, c, i)
  BY <1>8 DEF OwnedBy
<1>11. \A p : p \in FreedOf(f, E[b][j]) <=> HeldBy(f, E, p, b, j)
  BY <1>3 DEF HeldBy
<1>12. ASSUME NEW p
       PROVE  p \in (O \cup FreedOf(f, Pair(k, v))) \ FreedOf(f, E[b][j]) <=> \E c \in Buckets : \E i \in Nat : HeldBy(f, F, p, c, i)
  <2>1. CASE p \in FreedOf(f, Pair(k, v))
    <3>1. ~HeldBy(f, E, p, b, j) /\ HeldBy(f, F, p, b, j)
      BY <1>3, <1>9, <1>10, <2>1
    <3>2. QED
      BY <1>3, <1>11, <2>1, <3>1
  <2>2. CASE p \notin FreedOf(f, Pair(k, v)) /\ p \in FreedOf(f, E[b][j])
    <3>1. HeldBy(f, E, p, b, j)
      BY <1>11, <2>2
    <3>2. ASSUME NEW c \in Buckets, NEW i \in Nat, HeldBy(f, F, p, c, i) PROVE FALSE
      <4>1. ~(c = b /\ i = j) /\ HeldBy(f, E, p, c, i)
        BY <1>9, <2>2, <3>2
      <4>2. QED
        BY <1>3, <3>1, <4>1 DEF OwnedBy
    <3>3. QED
      BY <2>2, <3>2
  <2>3. CASE p \notin FreedOf(f, Pair(k, v)) /\ p \notin FreedOf(f, E[b][j])
    <3>1. \A c \in Buckets, i \in Nat : HeldBy(f, F, p, c, i) <=> HeldBy(f, E, p, c, i)
      BY <1>9, <1>11, <2>3
    <3>2. p \in O <=> \E c \in Buckets : \E i \in Nat : HeldBy(f, E, p, c, i)
      BY DEF OwnedBy
    <3>3. QED
      BY <2>3, <3>1, <3>2
  <2>4. QED
    BY <2>1, <2>2, <2>3
<1>13. ASSUME NEW p, NEW c \in Buckets, NEW d \in Buckets, NEW i \in Nat, NEW l \in Nat,
              HeldBy(f, F, p, c, i), HeldBy(f, F, p, d, l)
       PROVE  c = d /\ i = l
  <2>1. CASE p \in FreedOf(f, Pair(k, v))
    BY <1>9, <1>10, <1>13, <2>1
  <2>2. CASE p \notin FreedOf(f, Pair(k, v))
    <3>1. HeldBy(f, E, p, c, i) /\ HeldBy(f, E, p, d, l)
      BY <1>9, <1>13, <2>2
    <3>2. QED
      BY <3>1 DEF OwnedBy
  <2>3. QED
    BY <2>1, <2>2
<1>14. QED
  BY <1>12, <1>13 DEF OwnedBy

(* An entry deleted: its pair is freed.                                        *)
LEMMA OwnsDeleted ==
  ASSUME NEW f, NEW E, IsTable(E), NEW O, OwnedBy(f, E, O), NEW n \in Names, NEW b, b = BucketOf[n],
         NEW j \in Nat, NEW F, Deletes(E, F, n, j)
  PROVE  OwnedBy(f, F, O \ FreedOf(f, E[b][j]))
<1>1. b \in Buckets /\ j \in 1..Len(E[b]) /\ Len(E[b]) \in Nat
  BY HashKeys, PlaceOK DEF Deletes, HasAt
<1>d. OneDeleted(E, F, n, b, j)
  BY DeletedEntry
<1>2. Len(F[b]) = Len(E[b]) - 1
  BY <1>d DEF OneDeleted
<1>3. \A c \in Buckets \ {b} : F[c] = E[c]
  BY <1>d DEF OneDeleted
<1>4. \A i \in 1..Len(F[b]) : F[b][i] = IF i < j THEN E[b][i] ELSE E[b][i + 1]
  BY <1>d DEF OneDeleted
<1> DEFINE At0(c, i) == IF c = b /\ i >= j THEN i + 1 ELSE i
<1>5. ASSUME NEW p, NEW c \in Buckets, NEW i \in Nat
      PROVE  At0(c, i) \in Nat /\ (HeldBy(f, F, p, c, i) <=> HeldBy(f, E, p, c, At0(c, i)))
  <2>1. CASE c = b /\ i >= j
    <3>1. i \in 1..Len(F[b]) <=> i + 1 \in 1..Len(E[b])
      BY <1>1, <1>2, <2>1
    <3>2. i \in 1..Len(F[b]) => F[b][i] = E[b][i + 1]
      BY <1>1, <1>4, <2>1
    <3>3. At0(c, i) = i + 1
      BY <2>1
    <3>4. QED
      BY <2>1, <3>1, <3>2, <3>3 DEF HeldBy
  <2>2. CASE c = b /\ ~(i >= j)
    <3>1. i < j /\ (i \in 1..Len(F[b]) <=> i \in 1..Len(E[b]))
      BY <1>1, <1>2, <2>2
    <3>2. i \in 1..Len(F[b]) => F[b][i] = E[b][i]
      BY <1>4, <3>1
    <3>3. At0(c, i) = i
      BY <2>2
    <3>4. QED
      BY <2>2, <3>1, <3>2, <3>3 DEF HeldBy
  <2>3. CASE c # b
    <3>1. At0(c, i) = i
      BY <2>3
    <3>2. QED
      BY <1>3, <2>3, <3>1 DEF HeldBy
  <2>4. QED
    BY <2>1, <2>2, <2>3
<1>6. \A c \in Buckets, i, l \in Nat : At0(c, i) = At0(c, l) => i = l
  BY <1>1
<1>7. \A c \in Buckets, l \in Nat : (c # b \/ l # j) => \E i \in Nat : At0(c, i) = l
  <2> SUFFICES ASSUME NEW c \in Buckets, NEW l \in Nat, c # b \/ l # j PROVE \E i \in Nat : At0(c, i) = l
    OBVIOUS
  <2>1. CASE c = b /\ l > j
    <3>1. l - 1 \in Nat /\ At0(c, l - 1) = l
      BY <1>1, <2>1
    <3>2. QED
      BY <3>1
  <2>2. CASE ~(c = b /\ l > j)
    <3>1. At0(c, l) = l
      BY <1>1, <2>2
    <3>2. QED
      BY <3>1
  <2>3. QED
    BY <2>1, <2>2
<1>8. \A i \in Nat : At0(b, i) # j
  BY <1>1
<1> HIDE DEF At0
<1>9. \A p : p \in FreedOf(f, E[b][j]) <=> HeldBy(f, E, p, b, j)
  BY <1>1 DEF HeldBy
<1>10. ASSUME NEW p PROVE p \in O \ FreedOf(f, E[b][j]) <=> \E c \in Buckets : \E i \in Nat : HeldBy(f, F, p, c, i)
  <2>1. ASSUME p \in O, p \notin FreedOf(f, E[b][j]) PROVE \E c \in Buckets : \E i \in Nat : HeldBy(f, F, p, c, i)
    <3>1. PICK c \in Buckets, l \in Nat : HeldBy(f, E, p, c, l)
      BY <2>1 DEF OwnedBy
    <3>2. c # b \/ l # j
      BY <1>9, <2>1, <3>1
    <3>3. PICK i \in Nat : At0(c, i) = l
      BY <1>7, <3>2
    <3>4. HeldBy(f, F, p, c, i)
      BY <1>5, <3>1, <3>3
    <3>5. QED
      BY <3>4
  <2>2. ASSUME NEW c \in Buckets, NEW i \in Nat, HeldBy(f, F, p, c, i) PROVE p \in O /\ p \notin FreedOf(f, E[b][j])
    <3>1. PICK l : l = At0(c, i)
      OBVIOUS
    <3>2. l \in Nat /\ HeldBy(f, E, p, c, l)
      BY <1>5, <2>2, <3>1
    <3>3. p \in O
      BY <3>2 DEF OwnedBy
    <3>4. ~HeldBy(f, E, p, b, j)
      BY <1>1, <1>8, <3>1, <3>2 DEF OwnedBy
    <3>5. QED
      BY <1>9, <3>3, <3>4
  <2>3. QED
    BY <2>1, <2>2
<1>11. ASSUME NEW p, NEW c \in Buckets, NEW d \in Buckets, NEW i \in Nat, NEW l \in Nat,
              HeldBy(f, F, p, c, i), HeldBy(f, F, p, d, l)
       PROVE  c = d /\ i = l
  <2>1. PICK x, y : x = At0(c, i) /\ y = At0(d, l)
    OBVIOUS
  <2>2. x \in Nat /\ y \in Nat /\ HeldBy(f, E, p, c, x) /\ HeldBy(f, E, p, d, y)
    BY <1>5, <1>11, <2>1
  <2>3. c = d /\ x = y
    BY <2>2 DEF OwnedBy
  <2>4. QED
    BY <1>6, <2>1, <2>3
<1>12. QED
  BY <1>10, <1>11 DEF OwnedBy


(* What the callers of the table keep to: they do not add what it owns         *)
(* already, and do not have it free keys but not values.                       *)
KeepToTheRules == ~Readds /\ <<TRUE, FALSE>> \notin FreePairs
OwnsInv == OwnedBy(frees, entries, owned)

(* A table without entries owns nothing.                                       *)
LEMMA OwnsNothing ==
  ASSUME NEW f, NEW E, \A b \in Buckets : Len(E[b]) = 0
  PROVE  OwnedBy(f, E, {})
BY DEF OwnedBy, HeldBy

(* hash_free frees all that the table owns.                                    *)
LEMMA AllFreed ==
  ASSUME HashInv, OwnsInv, KeepToTheRules, HashFree
  PROVE  owned' = {}
<1>1. frees \in FreePairs /\ frees \in BOOLEAN \X BOOLEAN
  BY HashOptions DEF HashInv, TableInv, HashTypeOK, HashFree
<1>2. frees[1] => frees[2]
  <2>1. PICK x \in BOOLEAN, y \in BOOLEAN : frees = <<x, y>>
    BY <1>1
  <2>2. frees[1] = x /\ frees[2] = y
    BY <2>1
  <2>3. ~(x = TRUE /\ y = FALSE)
    BY <1>1, <2>1 DEF KeepToTheRules
  <2>4. QED
    BY <2>2, <2>3
<1>3. ASSUME NEW p \in owned PROVE p \in FreedAtEnd
  <2>1. PICK b \in Buckets, i \in Nat : HeldBy(frees, entries, p, b, i)
    BY DEF OwnsInv, OwnedBy
  <2>2. i \in 1..Used(b) /\ p \in Freed(entries[b][i].key, entries[b][i].value)
    BY <2>1 DEF HeldBy, FreedOf, Freed, Used
  <2>3. frees[2]
    BY <1>2, <2>2 DEF Freed
  <2>4. QED
    BY <2>2, <2>3 DEF FreedAtEnd
<1>4. QED
  BY <1>3 DEF HashFree

LEMMA OwnsStep ==
  ASSUME HashInv, OwnsInv, KeepToTheRules, HashNext \/ UNCHANGED hashVars
  PROVE  OwnsInv'
<1>0. IsTable(entries) /\ HashTypeOK /\ NoTable
  BY DEF HashInv, TableInv
<1>1. CASE HashNew
  <2>1. \A b \in Buckets : entries[b] = <<>> /\ Len(entries[b]) = 0
    BY <1>0, <1>1 DEF HashNew, NoTable
  <2>2. OwnedBy(frees', entries, {})
    BY <2>1, OwnsNothing
  <2>3. owned = {}
    BY <2>1 DEF OwnsInv, OwnedBy, HeldBy
  <2>4. QED
    BY <1>1, <2>2, <2>3 DEF OwnsInv, HashNew
<1>2. CASE HashFree
  <2>1. \A b \in Buckets : Len(entries'[b]) = 0
    BY <1>2 DEF HashFree
  <2>2. OwnedBy(frees', entries', {})
    BY <2>1, OwnsNothing
  <2>3. QED
    BY <1>2, <2>2, AllFreed DEF OwnsInv
<1>3. ASSUME UNCHANGED tableVars \/ UNCHANGED <<frees, entries, owned>> PROVE OwnsInv'
  BY <1>3 DEF OwnsInv, tableVars
<1>4. ASSUME NEW n \in Names, HashDel(n) PROVE OwnsInv'
  <2>1. PICK b : b = BucketOf[n]
    OBVIOUS
  <2>2. PICK j \in Nat : Deletes(entries, entries', n, j) /\ owned' = owned \ Freed(entries[b][j].key, entries[b][j].value)
    BY <1>4, <2>1, DelDoes
  <2>3. PICK F : F = entries'
    OBVIOUS
  <2>4. Deletes(entries, F, n, j)
    BY <2>2, <2>3
  <2>5. PICK f : f = frees
    OBVIOUS
  <2>6. PICK O : O = owned
    OBVIOUS
  <2>7. OwnedBy(f, entries, O)
    BY <2>5, <2>6 DEF OwnsInv
  <2>8. OwnedBy(f, F, O \ FreedOf(f, entries[b][j]))
    BY <1>0, <2>1, <2>4, <2>7, OwnsDeleted
  <2>9. owned' = O \ FreedOf(f, entries[b][j]) /\ frees' = f
    BY <1>4, <2>2, <2>5, <2>6 DEF FreedOf, Freed, HashDel
  <2>10. QED
    BY <2>3, <2>8, <2>9 DEF OwnsInv
<1>5. ASSUME NEW k \in KeyPtrs, NEW v \in Values, AddsLast(k, v) PROVE OwnsInv'
  <2>1. PICK F : F = entries'
    OBVIOUS
  <2>2. NameOf[k] \in Names /\ Missing(NameOf[k])
    BY <1>5, HashKeys DEF AddsLast
  <2>3. NameOf[k] \notin Has(entries)
    BY <1>0, <2>2, InWords
  <2>4. Appends(entries, F, k, v)
    BY <1>5, <2>1 DEF AddsLast, Appends
  <2>5. PICK f : f = frees
    OBVIOUS
  <2>6. PICK O : O = owned
    OBVIOUS
  <2>7. OwnedBy(f, entries, O) /\ {k, v} \cap O = {}
    BY <1>5, <2>5, <2>6 DEF OwnsInv, AddsLast, CallerHas, KeepToTheRules
  <2>8. OwnedBy(f, F, O \cup FreedOf(f, Pair(k, v)))
    BY <1>0, <2>3, <2>4, <2>7, OwnsAppended
  <2>9. owned' = O \cup FreedOf(f, Pair(k, v)) /\ frees' = f
    BY <1>5, <2>5, <2>6 DEF FreedOf, Freed, Pair, AddsLast
  <2>10. QED
    BY <2>1, <2>8, <2>9 DEF OwnsInv
<1>6. ASSUME NEW k \in KeyPtrs, NEW v \in Values, Replace(k, v) PROVE OwnsInv'
  <2>1. PICK F : F = entries'
    OBVIOUS
  <2>2. PICK n : n = NameOf[k]
    OBVIOUS
  <2>3. PICK b : b = BucketOf[n]
    OBVIOUS
  <2>4. n \in Names /\ b \in Buckets /\ Used(b) \in Nat
    BY <1>0, <2>2, <2>3, HashKeys, PlaceOK DEF Used
  <2>5. PICK j \in 1..Used(b) :
          /\ Finds(n, j) /\ entries' = [entries EXCEPT ![b][j] = [key |-> k, value |-> v]]
          /\ owned' = (owned \cup Freed(k, v)) \ Freed(entries[b][j].key, entries[b][j].value)
    BY <1>6, <2>2, <2>3 DEF Replace
  <2>6. j \in Nat /\ Replaces(entries, F, k, v, j)
    BY <1>0, <2>1, <2>2, <2>3, <2>4, <2>5, InWords DEF Replaces
  <2>7. PICK f : f = frees
    OBVIOUS
  <2>8. PICK O : O = owned
    OBVIOUS
  <2>9. OwnedBy(f, entries, O) /\ {k, v} \cap O = {}
    BY <1>6, <2>7, <2>8 DEF OwnsInv, Replace, CallerHas, KeepToTheRules
  <2>10. OwnedBy(f, F, (O \cup FreedOf(f, Pair(k, v))) \ FreedOf(f, entries[b][j]))
    BY <1>0, <2>2, <2>3, <2>6, <2>9, OwnsReplaced
  <2>11. owned' = (O \cup FreedOf(f, Pair(k, v))) \ FreedOf(f, entries[b][j]) /\ frees' = f
    BY <1>6, <2>5, <2>7, <2>8 DEF FreedOf, Freed, Pair, Replace
  <2>12. QED
    BY <2>1, <2>10, <2>11 DEF OwnsInv
<1>7. ASSUME UNCHANGED hashVars \/ IterInit \/ IterNext \/ IterEnds PROVE OwnsInv'
  BY <1>3, <1>7 DEF hashVars, IterInit, IterNext, IterEnds, tableVars
<1>8. ASSUME NEW k \in KeyPtrs, NEW v \in Values, AddFails(k, v) \/ AddUniqueRefused(k, v) PROVE OwnsInv'
  BY <1>3, <1>8 DEF AddFails, AddUniqueRefused
<1>9. ASSUME NEW n \in Names, HashDelRefused(n) \/ HashFind(n) PROVE OwnsInv'
  BY <1>3, <1>9 DEF HashDelRefused, HashFind
<1>10. QED
  BY <1>1, <1>2, <1>4, <1>5, <1>6, <1>7, <1>8, <1>9 DEF HashNext, HashAdd, HashAddUnique

-----------------------------------------------------------------------------
(***************************************************************************)
(* The table of hash.c (its types, each entry in the bucket of its name,   *)
(* no name twice, memory for what is there, the count) and the iterator    *)
(* over it stay well formed, through adding, replacing, deleting with its  *)
(* memmove, refused and failing calls, and freeing (hash.c:234-420).       *)
(***************************************************************************)
THEOREM HashInvariance == HashSpec => []HashInv
<1>1. QED
  BY HashInitInv, HashInvStep, PTL DEF HashSpec

(***************************************************************************)
(* The memmove of hash_del reads one entry behind the last, and there is   *)
(* always memory for it, whatever the step by which arrays grow and        *)
(* whether or not a shrinking realloc succeeds (hash.c:357).               *)
(***************************************************************************)
THEOREM ThereIsRoom == HashSpec => []RoomForOneMore
<1>1. HashInv => RoomForOneMore
  BY DEF HashInv, TableInv
<1>2. QED
  BY <1>1, HashInvariance, PTL

(***************************************************************************)
(* Each key and value the table is to free is held by one entry, and each  *)
(* that an entry holds is the table's: nothing is freed twice or under an  *)
(* entry, and hash_free leaves nothing (hash.c:120-145, 250, 357), for     *)
(* callers that add no pointer twice and have values freed with keys.      *)
(***************************************************************************)
THEOREM OwnsTheorem ==
  ASSUME ~Readds, <<TRUE, FALSE>> \notin FreePairs
  PROVE  HashSpec => []OwnsWhatItHolds
<1>1. KeepToTheRules
  BY DEF KeepToTheRules
<1>2. HashInit => OwnsInv
  <2> SUFFICES ASSUME HashInit PROVE OwnsInv
    OBVIOUS
  <2>1. \A b \in Buckets : Len(entries[b]) = 0
    BY DEF HashInit
  <2>2. OwnedBy(frees, entries, {})
    BY <2>1, OwnsNothing
  <2>3. QED
    BY <2>2 DEF OwnsInv, HashInit
<1>3. HashInv /\ OwnsInv /\ [HashNext]_hashVars => OwnsInv'
  BY <1>1, OwnsStep
<1>4. HashInv /\ OwnsInv => OwnsWhatItHolds
  BY OwnsWords DEF HashInv, TableInv, OwnsInv
<1>5. QED
  BY <1>2, <1>3, <1>4, HashInvariance, PTL DEF HashSpec

(***************************************************************************)
(* An iteration that runs to its end has met each name that was there all  *)
(* along exactly once, whatever was added, replaced or deleted meanwhile,  *)
(* unless a deletion moved the name past the iterator (hash.c:389-420).    *)
(***************************************************************************)
THEOREM IterationTheorem == HashSpec => IterationMeetsAll
<1>1. HashInv /\ [HashNext]_hashVars => [IterEnds => \A n \in steady : met[n] = 1]_hashVars
  BY AllPassed
<1>2. QED
  BY <1>1, HashInvariance, PTL DEF HashSpec, IterationMeetsAll

(***************************************************************************)
(* The table is the dictionary that hash.h promises: each call changes the *)
(* map and the count and is answered as KeyStore says, and an iteration    *)
(* changes nothing (hash.c:234-375).                                       *)
(***************************************************************************)
THEOREM KeyStoreTheorem == HashSpec => ImplementsKeyStore
<1>1. HashInv /\ HashInv' /\ [HashNext]_hashVars => [KS!StoreNext]_(KS!storeVars)
  BY StoreStep
<1>2. QED
  BY <1>1, StoreStarts, HashInvariance, PTL DEF HashSpec, ImplementsKeyStore, KS!Store

(***************************************************************************)
(* The table of lwan is a dictionary, and iterating over it meets all of   *)
(* it, for any number of buckets, names, pointers and steps (hash.c:154-   *)
(* 420).                                                                   *)
(***************************************************************************)
THEOREM DictionaryTheorem == HashSpec => HashIsDictionary
<1>1. QED
  BY KeyStoreTheorem, IterationTheorem DEF HashIsDictionary
=============================================================================
