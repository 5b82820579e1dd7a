---------------------------- MODULE MCLibraries -----------------------------
(* The containers and strings of src/Clang in one run.  They share nothing,  *)
(* so a behaviour exercises one of them, chosen at the start.                *)
(* lwan: two keys of one name, two names in the first bucket and one in the  *)
(* second.  ovs: two maps and three nodes, two of which share a bucket of    *)
(* four.  Strings: bytes to escape, to trim and to map, static texts that    *)
(* are not as long as a buffer, files with comments and blank lines.         *)
EXTENDS LwanHash, OvsHmap, Sds, Strbuf, DynamicString, TLC

CONSTANTS k1, k2, k3, k4, v1, v2, x1, x2, x3, m1, m2, a1, a2

MCKeyPtrs == {k1, k2, k3, k4}
MCValues == {v1, v2}
MCNames == {"a", "b", "c"}
MCNameOf == k1 :> "a" @@ k2 :> "a" @@ k3 :> "b" @@ k4 :> "c"
MCBucketOf == [n \in MCNames |-> IF n = "c" THEN 1 ELSE 0]
MCFreePairs == {<<FALSE, FALSE>>, <<TRUE, TRUE>>}
MCLeakyPairs == {<<TRUE, FALSE>>}

MCNodes == {x1, x2, x3}
MCMaps == {m1, m2}
MCArrays == {a1, a2}
MCHashOf == x1 :> 0 @@ x2 :> 4 @@ x3 :> 1

MCSymmetry == Permutations(MCMaps) \cup Permutations(MCArrays)

MCSdsTexts == {<<97>>, <<92, 0>>, <<>>}
MCFormats == {<< <<97>>, <<"s", <<97, 34>> >> >>, << <<"s", <<>> >>, <<34>> >>}
MCCharSets == {{97}, {97, 34}}
MCIndexes == {-5, -1, 0, 1, 7}
MCBufTexts == {<<97>>, <<98, 97>>, <<>>}
MCStaticTexts == {<<97, 98, 97, 98, 97>>}
MCEvenTexts == {<<97, 98, 97, 98>>}
MCDsTexts == {<<97>>, <<10, 97>>, <<>>}
MCCodePoints == {233, 128512, 1114112}
MCFiles == {<<>>, <<35, 97>>, <<32, 35, 97, 10, 10, 97, 32, 35, 98>>, <<97, 98, 10, 98>>, <<10, 35, 10, 32>>}

VARIABLE lib
Strings == {"sds", "strbuf", "ds"}
LibrariesInit ==
  /\ HashInit /\ HmapInit
  /\ \/ lib \in {"hash", "hmap", "sds"} /\ SdsInit
     \/ lib = "strbuf" /\ StrbufInit
     \/ lib = "ds" /\ DsInit
LibrariesNext ==
  /\ lib' = lib
  /\ \/ lib = "hash" /\ HashNext /\ UNCHANGED <<hmapVars, bufVars>>
     \/ lib = "hmap" /\ HmapNext /\ UNCHANGED <<hashVars, bufVars>>
     \/ lib \in Strings /\ UNCHANGED <<hashVars, hmapVars>>
        /\ \/ lib = "sds" /\ SdsNext
           \/ lib = "strbuf" /\ StrbufNext
           \/ lib = "ds" /\ DsNext
LibrariesSpec == LibrariesInit /\ [][LibrariesNext]_<<hashVars, hmapVars, bufVars, lib>>
-----------------------------------------------------------------------------
(* hash.c:357, sds.c:164-170, strbuf.c:77-107, dynamic-string.c:57-71,        *)
(* hmap.c:83: no library reads or writes behind the memory it asked for, the  *)
(* header of an sds says what that is, and a map's buckets are in an array    *)
(* that no other map has and that is as long as its mask says.                *)
AccessesStayInside ==
  /\ lib = "hash" => RoomForOneMore
  /\ lib \in Strings => StaysInside
  /\ lib = "sds" => SdsAccounts
  /\ ArraysOwnedOnce
=============================================================================
