---------------------------- MODULE StringBuffer ----------------------------
(***************************************************************************)
(* A string of src/Clang/string: a header and a block of memory.  Bytes    *)
(* are numbers; what was never written is Junk.                            *)
(***************************************************************************)
EXTENDS Integers, Sequences, SequencesExt

VARIABLES
  buf,      \* the header of the library's struct; block is the memory it points to
  reply    \* the last call and what it returned

bufVars == <<buf, reply>>
NUL == 0
Junk == -1
MaxOf(m, n) == IF m > n THEN m ELSE n

\* Blocks: room bytes, of which cells were written; wild after a write outside.
NewBlock(n) == [room |-> n, cells |-> <<>>, wild |-> FALSE]
Resized(b, n) == [b EXCEPT !.room = n, !.cells = IF n < Len(@) THEN SubSeq(@, 1, n) ELSE @]
Stored(b, at, s) ==
  LET old == b.cells \o [i \in 1..MaxOf(at - Len(b.cells), 0) |-> Junk]
  IN  [b EXCEPT !.cells = SubSeq(old, 1, at) \o s \o SubSeq(old, at + Len(s) + 1, Len(old)),
                !.wild = @ \/ at + Len(s) > b.room]
\* The string ends at n: what is behind its end counts as unwritten.
Ended(b, n) == [Stored(b, n, <<NUL>>) EXCEPT !.cells = SubSeq(@, 1, n + 1)]
First(b, n) == [i \in 1..n |-> IF i <= Len(b.cells) THEN b.cells[i] ELSE Junk]

CString(s) == LET k == SelectInSeq(s, LAMBDA c : c = NUL) IN IF k = 0 THEN s ELSE SubSeq(s, 1, k - 1)
Value == First(buf.block, buf.len)

Answers(op, arg, res) == reply' = [op |-> op, arg |-> arg, ok |-> TRUE, res |-> res]
Does(op, arg, b) == buf' = b /\ Answers(op, arg, TRUE)
Tells(op, arg, res) == buf' = buf /\ Answers(op, arg, res)
-----------------------------------------------------------------------------
(* The header and the memory agree on what a string is, and the string is  *)
(* what sds.h, strbuf.h and dynamic-string.h say of each call.             *)
TheText == INSTANCE Text WITH text <- Value, answer <- reply
ImplementsText == TheText!TextSpec
StaysInside == ~buf.block.wild /\ buf.len <= buf.block.room
=============================================================================
