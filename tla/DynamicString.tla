--------------------------- MODULE DynamicString ----------------------------
(***************************************************************************)
(* src/Clang/string/ovs/dynamic-string.c: a buffer that is not always      *)
(* terminated and that ds_cstr terminates.  Without memory ds_reserve ends *)
(* the program.                                                            *)
(***************************************************************************)
EXTENDS StringBuffer

CONSTANTS
  DsTexts,      \* texts that are given to it
  CodePoints,   \* arguments of ds_put_utf8
  Files,        \* contents of files that are read line by line
  MinAllocated, \* the least that ds_reserve allocates
  MaxDs         \* bound: the longest string

\* string is NULL as long as the block has no room.
EmptyDs == [block |-> NewBlock(0), len |-> 0, allocated |-> 0]

DsReserve(d, n) ==
  LET more == MaxOf(MinAllocated, d.allocated + MaxOf(n, d.allocated))
  IN  IF n > d.allocated \/ d.block.room = 0
      THEN [d EXCEPT !.allocated = more, !.block = Resized(@, more + 1)] ELSE d
Terminated(d, n) == [d EXCEPT !.block = Ended(@, n), !.len = n]
\* ds_put_uninit, and the caller fills what it got.
DsPut(d, t) ==
  LET r == DsReserve(d, d.len + Len(t))
      end == Terminated(r, r.len + Len(t))
  IN  [end EXCEPT !.block = Stored(@, d.len, t)]

PutChar(d, c) ==
  IF d.len < d.allocated THEN Terminated([d EXCEPT !.block = Stored(@, d.len, <<c>>)], d.len + 1)
  ELSE DsPut(d, <<c>>)

\* ds_put_format_valist: vsnprintf into what there is, once more if it was cut.
PutFormat(d, t) ==
  LET available == IF d.block.room > 0 THEN d.allocated - d.len + 1 ELSE 0
      tried == IF available = 0 THEN d
               ELSE [d EXCEPT !.block = Stored(@, d.len, Append(SubSeq(t, 1, available - 1), NUL))]
      r == DsReserve(tried, d.len + Len(t))
  IN  IF Len(t) < available THEN Terminated([d EXCEPT !.block = Stored(@, d.len, t)], d.len + Len(t))
      ELSE Terminated([r EXCEPT !.block = Stored(@, d.len, t)], d.len + Len(t))

Octal(c) == <<92, 48 + (c \div 64), 48 + ((c \div 8) % 8), 48 + (c % 8)>>
Printable(c) == IF c < 32 \/ c > 126 \/ c \in {92, 34} THEN Octal(c) ELSE <<c>>
PutPrintable(d, t) ==
  FoldLeft(LAMBDA r, c : IF Len(Printable(c)) = 1 THEN PutChar(r, c) ELSE PutFormat(r, Octal(c)),
           DsReserve(d, d.len + Len(t)), t)

Utf8(c) ==
  CASE c <= 127 -> <<c>>
    [] c > 127 /\ c <= 2047 -> <<192 + (c \div 64), 128 + (c % 64)>>
    [] c > 2047 /\ c <= 65535 -> <<224 + (c \div 4096), 128 + ((c \div 64) % 64), 128 + (c % 64)>>
    [] c > 65535 -> <<240 + (c \div 262144), 128 + ((c \div 4096) % 64), 128 + ((c \div 64) % 64), 128 + (c % 64)>>
PutUtf8(d, c) == FoldLeft(PutChar, d, Utf8(IF c > 1114111 THEN 65533 ELSE c))

\* ds_get_line of what is left of a file.
GetLine(d, file) ==
  LET k == SelectInSeq(file, LAMBDA c : c = 10)
      line == IF k = 0 THEN file ELSE SubSeq(file, 1, k - 1)
  IN  FoldLeft(PutChar, [d EXCEPT !.len = 0], line)
AfterLine(file) ==
  LET k == SelectInSeq(file, LAMBDA c : c = 10) IN IF k = 0 THEN <<>> ELSE SubSeq(file, k + 1, Len(file))
DsCstr(d) == LET r == IF d.block.room = 0 THEN DsReserve(d, 0) ELSE d IN [r EXCEPT !.block = Ended(@, r.len)]

\* A comment is cut off with a NUL; the length stays.
CutComment(d) ==
  LET k == SelectInSeq(CString(First(d.block, d.len)), LAMBDA c : c = 35)
  IN  IF k = 0 THEN d ELSE [d EXCEPT !.block = Stored(@, k - 1, <<NUL>>)]
IsBlank(d) == ToSet(CString(First(d.block, d.len))) \subseteq {32, 9, 10}

\* ds_get_preprocessed_line: line after line, until one has more than blanks.
ReadUntil(d, file) ==
  LET Turn(st, i) ==
        IF st.done \/ st.left = <<>> THEN st
        ELSE LET r == CutComment(DsCstr(GetLine(st.ds, st.left)))
             IN  [ds |-> r, left |-> AfterLine(st.left), done |-> ~IsBlank(r)]
      end == FoldLeftDomain(Turn, [ds |-> d, left |-> file, done |-> FALSE], file)
  IN  IF end.done THEN end ELSE [end EXCEPT !.ds.len = 0]
-----------------------------------------------------------------------------
DsInit == buf = EmptyDs /\ reply = [op |-> "set", arg |-> <<>>, ok |-> TRUE, res |-> TRUE]

\* ds_destroy or ds_steal_cstr, and ds_init.
DsRenew == Does("set", <<>>, EmptyDs)
DsClear == Does("set", <<>>, [buf EXCEPT !.len = 0])
DsTruncate(n) == Does("cut", n, IF buf.len > n THEN Terminated(buf, n) ELSE buf)
DsReserves(n) == Does("room", "", DsReserve(buf, n))
DsPuts(t) == Does("append", t, DsPut(buf, t))
DsPutChar(t) == Len(t) = 1 /\ Does("append", t, PutChar(buf, t[1]))
DsPutUtf8(c) == Does("point", c, PutUtf8(buf, c))
DsPutFormat(t) == Does("append", t, PutFormat(buf, t))
DsPutPrintable(t) == Does("append", FlattenSeq([i \in DOMAIN t |-> Printable(t[i])]), PutPrintable(buf, t))
DsGetLine(file) ==
  LET end == ReadUntil(buf, file)
  IN  /\ buf' = end.ds
      /\ Answers("line", file, IF end.done THEN <<CString(First(end.ds.block, end.ds.len))>> ELSE <<>>)
DsCString ==
  LET d == DsCstr(buf) IN buf' = d /\ Answers("cstring", "", CString(d.block.cells))
DsLast == Tells("last", "", IF buf.len > 0 THEN Value[buf.len] ELSE -1)
DsChomp(c) ==
  Does("chomp", c, IF buf.len > 0 /\ Value[buf.len] = c THEN Terminated(buf, buf.len - 1) ELSE buf)

DsCall ==
  \/ DsRenew \/ DsClear \/ DsCString \/ DsLast
  \/ \E t \in DsTexts : \/ DsPuts(t) \/ DsPutChar(t) \/ DsPutFormat(t) \/ DsPutPrintable(t)
                        \/ \E c \in ToSet(t) : DsChomp(c)
                        \/ DsTruncate(Len(t)) \/ DsReserves(Len(t))
  \/ \E c \in CodePoints : DsPutUtf8(c)
  \/ \E f \in Files : DsGetLine(f)
DsNext == DsCall /\ buf'.len <= MaxDs
DsSpec == DsInit /\ [][DsNext]_bufVars
=============================================================================
