------------------------------ MODULE MCAeLoop ------------------------------
(* Small instances of AeLoop.                                              *)
EXTENDS AeLoop

CONSTANTS p1, p2, d1, unset

MCProcs  == {p1, p2}
MCOneProc == {p1}
MCData   == {d1}
MCUnset  == unset
MCNoFlags  == {}
MCAllFlags == SUBSET {"FILE", "TIME", "DONT_WAIT"}
MCTimeOnly == {{"TIME"}}

\* The file handlers are interchangeable.
ProcSymmetry == Permutations({p1, p2})
=============================================================================
