---------------------------- MODULE MCSwiftClient ---------------------------
(* Three objects, two of them in one directory; pages of one entry; texts of *)
(* two chunks.                                                               *)
EXTENDS SwiftClient, TLC
MCDir == 1 :> 1 @@ 2 :> 1 @@ 3 :> 3
MCTexts == {<<1, 2>>}
=============================================================================
