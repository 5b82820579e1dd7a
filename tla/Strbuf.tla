------------------------------- MODULE Strbuf -------------------------------
(***************************************************************************)
(* src/Clang/string/lwan/strbuf.c: a buffer that grows to powers of two,   *)
(* or points to a static text that it copies when it has to grow.  An      *)
(* allocation may fail, and the call then returns false.                   *)
(***************************************************************************)
EXTENDS StringBuffer, FiniteSets

CONSTANTS
  BufTexts,       \* texts that are given to it
  StaticTexts,    \* texts that it is made to point to
  Sizes,          \* arguments of strbuf_grow_to and strbuf_shrink_to
  DefaultBufSize, \* DEFAULT_BUF_SIZE
  MaxStrbuf       \* bound: the longest string

ASSUME SizesOfBuffers == Sizes \subseteq Nat \ {0} /\ DefaultBufSize \in Nat \ {0}

NextPowerOfTwo(n) == IF n = 0 THEN 0 ELSE CHOOSE p \in {2 ^ k : k \in 0..n} : p >= n /\ p < 2 * n

\* The copy of a static text, with a terminator one byte behind its end.
Copied(b, size) ==
  LET next == NextPowerOfTwo(MaxOf(size + 1, b.len))
  IN  [block |-> Stored(Stored(NewBlock(next), 0, First(b.block, b.len)), b.len + 1, <<NUL>>),
       len |-> b.len, allocated |-> next, static |-> FALSE]
Reallocated(b, next) == [b EXCEPT !.block = Resized(@, next + 1), !.allocated = next]
GrowBuffer(b, size) ==
  IF b.static THEN Copied(b, size)
  ELSE IF b.allocated < size THEN Reallocated(b, NextPowerOfTwo(size)) ELSE b

Write(b, at, t) == [b EXCEPT !.block = Ended(Stored(@, at, t), at + Len(t)), !.len = at + Len(t)]
NewBuffer(size) == Write(GrowBuffer([block |-> NewBlock(0), len |-> 0, allocated |-> 0, static |-> FALSE], size), 0, <<>>)

ShrinkTo(b, n) ==
  LET next == NextPowerOfTwo(n)
      small == Reallocated(b, next)
  IN  IF b.allocated <= n \/ b.static THEN b
      ELSE IF b.len > next THEN [small EXCEPT !.len = next - 1, !.block = Stored(@, next, <<NUL>>)]
      ELSE small

\* A call that must grow the buffer first does so, or fails and returns false.
Fails(op, arg) == buf' = buf /\ reply' = [op |-> op, arg |-> arg, ok |-> FALSE, res |-> FALSE]
Growing(op, arg, size, After(_)) ==
  \/ Does(op, arg, After(GrowBuffer(buf, size)))
  \/ GrowBuffer(buf, size) # buf /\ Fails(op, arg)

StrbufInit == buf = NewBuffer(DefaultBufSize) /\ reply = [op |-> "set", arg |-> <<>>, ok |-> TRUE, res |-> TRUE]

\* strbuf_free, and strbuf_new_with_size until there is memory.
StrbufRenew(n) == Does("set", <<>>, NewBuffer(n))
StrbufAppendChar(t) ==
  Len(t) = 1 /\ Growing("append", t, buf.len + 2, LAMBDA b : Write(b, b.len, t))
\* strbuf_append_str, and strbuf_append_printf, which formats into another buffer.
StrbufAppend(t) == Growing("append", t, buf.len + Len(t) + 2, LAMBDA b : Write(b, b.len, t))
\* strbuf_set and strbuf_printf.
StrbufSet(t) == Growing("set", t, Len(t) + 1, LAMBDA b : Write(b, 0, t))
StrbufSetStatic(t) ==
  Does("set", t, [block |-> Stored(NewBlock(Len(t) + 1), 0, Append(t, NUL)),
                  len |-> Len(t), allocated |-> Len(t), static |-> TRUE])
StrbufCmp(t) ==
  LET k == {i \in 1..(IF buf.len < Len(t) THEN buf.len ELSE Len(t)) : Value[i] # t[i]}
      first == CHOOSE i \in k : \A j \in k : i <= j
  IN  Tells("compare", t, IF k = {} THEN buf.len - Len(t) ELSE Value[first] - t[first])
StrbufShrinkTo(n) ==
  \/ Does("shrink", n, ShrinkTo(buf, n))
  \/ ShrinkTo(buf, n) # buf /\ Fails("shrink", n)
\* The reply is false in any case; a shrinking that fails is not looked at.
StrbufReset ==
  \E b \in {buf, ShrinkTo(buf, DefaultBufSize)} :
    /\ buf' = [b EXCEPT !.len = 0]
    /\ Answers("set", <<>>, FALSE)
StrbufGrowTo(n) == Growing("room", "", n + 1, LAMBDA b : b)
\* A static text is not copied but given up.
StrbufResetLength ==
  Does("set", <<>>, Write(IF buf.static THEN [buf EXCEPT !.static = FALSE, !.block = NewBlock(buf.allocated)] ELSE buf, 0, <<>>))

StrbufCall ==
  \/ StrbufReset \/ StrbufResetLength
  \/ \E t \in BufTexts : StrbufAppendChar(t) \/ StrbufAppend(t) \/ StrbufSet(t) \/ StrbufCmp(t)
  \/ \E t \in StaticTexts : StrbufSetStatic(t)
  \/ \E n \in Sizes : StrbufRenew(n) \/ StrbufShrinkTo(n) \/ StrbufGrowTo(n)
StrbufNext == StrbufCall /\ buf'.len <= MaxStrbuf
StrbufSpec == StrbufInit /\ [][StrbufNext]_bufVars
=============================================================================
