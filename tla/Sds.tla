-------------------------------- MODULE Sds ---------------------------------
(***************************************************************************)
(* src/Clang/string/redis/sds.c: a header with len and free in front of a  *)
(* string that is always terminated.  zmalloc ends the program when there  *)
(* is no memory, so no call fails.                                         *)
(***************************************************************************)
EXTENDS StringBuffer

CONSTANTS
  MaxPrealloc,  \* SDS_MAX_PREALLOC
  SdsTexts,     \* texts that are given to it
  Formats,      \* formats of sdscatfmt: sequences of <<byte>> and <<"s", text>>
  CharSets,     \* sets of characters to trim
  Indexes,      \* arguments of sdsrange
  Lengths,      \* arguments of sdsMakeRoomFor, sdsgrowzero and sdsIncrLen
  MaxSds        \* bound: the longest string

NewLen(t) == [block |-> Ended(Stored(NewBlock(Len(t) + 1), 0, t), Len(t)), len |-> Len(t), free |-> 0]
Content(s) == First(s.block, s.len)

SdsMakeRoomFor(s, n) ==
  LET newlen == IF s.len + n < MaxPrealloc THEN 2 * (s.len + n) ELSE s.len + n + MaxPrealloc
  IN  IF s.free >= n THEN s
      ELSE [s EXCEPT !.block = Resized(@, newlen + 1), !.free = newlen - s.len]
RemoveFreeSpace(s) == [s EXCEPT !.block = Resized(@, s.len + 1), !.free = 0]

CatLen(s, t) ==
  LET r == SdsMakeRoomFor(s, Len(t))
  IN  [block |-> Ended(Stored(r.block, s.len, t), s.len + Len(t)), len |-> s.len + Len(t), free |-> r.free - Len(t)]

CpyLen(s, t) ==
  LET r == IF s.free + s.len < Len(t) THEN SdsMakeRoomFor(s, Len(t) - s.len) ELSE s
  IN  [block |-> Ended(Stored(r.block, 0, t), Len(t)), len |-> Len(t), free |-> r.free + r.len - Len(t)]

\* sds.c:217-232: the room for the zeros, and one more for the terminator.
GrowZero(s, n) ==
  LET r == SdsMakeRoomFor(s, n - s.len)
  IN  IF n <= s.len THEN s
      ELSE [block |-> Ended(Stored(r.block, s.len, [i \in 1..(n - s.len) |-> NUL]), n),
            len |-> n, free |-> r.len + r.free - n]

\* The new end of a string whose bytes stay where they are.
Shortened(s, n) == [block |-> Ended(s.block, n), len |-> n, free |-> s.free + s.len - n]

\* sdsIncrLen after the user wrote t behind the end, or to drop -n bytes.
IncrLen(s, n) == [block |-> Ended(s.block, s.len + n), len |-> s.len + n, free |-> s.free - n]

\* One turn of sdscatfmt: always room for one byte, and for a whole argument.
CatPiece(s, p) ==
  LET one == IF s.free = 0 THEN SdsMakeRoomFor(s, 1) ELSE s
      add == IF Len(p) = 1 THEN p ELSE p[2]
      r == IF one.free < Len(add) THEN SdsMakeRoomFor(one, Len(add)) ELSE one
  IN  [block |-> Stored(r.block, r.len, add), len |-> r.len + Len(add), free |-> r.free - Len(add)]

CatFmt(s, pieces) ==
  LET r == FoldLeft(CatPiece, s, pieces) IN [r EXCEPT !.block = Ended(@, r.len)]
Spelled(pieces) == FlattenSeq([i \in DOMAIN pieces |-> IF Len(pieces[i]) = 1 THEN pieces[i] ELSE pieces[i][2]])

MovedDown(s, from, n) == Shortened([s EXCEPT !.block = Stored(@, 0, SubSeq(Content(s), from + 1, from + n))], n)

\* strchr finds the terminator of cset as well.
SdsTrim(s, cset) ==
  LET stay == {i \in 1..s.len : Content(s)[i] \notin cset \cup {NUL}}
      sp == CHOOSE i \in stay : \A j \in stay : i <= j
      ep == CHOOSE i \in stay : \A j \in stay : i >= j
  IN  IF stay = {} THEN Shortened(s, 0) ELSE MovedDown(s, sp - 1, ep - sp + 1)

\* Mutant: the byte at end does not belong to the range.
SdsRange_EndExclusive(s, start, end) ==
  LET from == IF start < 0 THEN MaxOf(s.len + start, 0) ELSE start
      asked == IF end < 0 THEN MaxOf(s.len + end, 0) ELSE end
      to == IF asked >= s.len THEN s.len - 1 ELSE asked
  IN  IF s.len = 0 THEN s ELSE IF from > asked \/ from >= s.len THEN Shortened(s, 0) ELSE MovedDown(s, from, to - from)

SdsRange(s, start, end) ==
  LET from == IF start < 0 THEN MaxOf(s.len + start, 0) ELSE start
      asked == IF end < 0 THEN MaxOf(s.len + end, 0) ELSE end
      to == IF asked >= s.len THEN s.len - 1 ELSE asked
  IN  IF s.len = 0 THEN s ELSE IF from > asked \/ from >= s.len THEN Shortened(s, 0) ELSE MovedDown(s, from, to - from + 1)

MapChars(s, from, to) ==
  LET image(c) == LET k == SelectInSeq(from, LAMBDA f : f = c) IN IF k = 0 THEN c ELSE to[k]
  IN  [s EXCEPT !.block = Stored(@, 0, [i \in 1..s.len |-> image(Content(s)[i])])]
Case(s, low, high, by) ==
  [s EXCEPT !.block = Stored(@, 0, [i \in 1..s.len |-> LET c == Content(s)[i] IN IF c \in low..high THEN c + by ELSE c])]

\* sdssplitlen: next is where the search goes on, behind the last separator.
SplitLen(v, sep) ==
  LET Look(st, j) ==
        IF j < st.next \/ SubSeq(v, j, j + Len(sep) - 1) # sep THEN st
        ELSE [tokens |-> Append(st.tokens, SubSeq(v, st.start, j - 1)), start |-> j + Len(sep), next |-> j + Len(sep)]
      end == FoldLeft(Look, [tokens |-> <<>>, start |-> 1, next |-> 1], [j \in 1..MaxOf(Len(v) - Len(sep) + 1, 0) |-> j])
  IN  IF v = <<>> THEN <<>> ELSE Append(end.tokens, SubSeq(v, end.start, Len(v)))

\* n r t b a, and the bytes that \n \r \t \b \a stand for.
Letters == <<110, 114, 116, 98, 97>>
Controls == <<10, 13, 9, 8, 7>>
Quote == 34
Single == 39
Backslash == 92
Space == {32, 9, 10, 11, 12, 13}
HexDigits == (48..57) \cup (97..102) \cup (65..70)
Hex(d) == IF d < 10 THEN 48 + d ELSE 87 + d
FromHex(c) == IF c < 58 THEN c - 48 ELSE IF c > 96 THEN c - 87 ELSE c - 55

\* sdscatrepr, one byte: escaped, as it is, or in hexadecimal.
Escaped(c) ==
  CASE c \in {Backslash, Quote} -> <<Backslash, c>>
    [] c \in ToSet(Controls) -> <<Backslash, Letters[CHOOSE i \in 1..5 : Controls[i] = c]>>
    [] c \in (32..126) \ {Backslash, Quote} -> <<c>>
    [] OTHER -> <<Backslash, 120, Hex(c \div 16), Hex(c % 16)>>
CatRepr(s, v) ==
  CatLen(FoldLeft(LAMBDA r, c : CatLen(r, Escaped(c)), CatLen(s, <<Quote>>), v), <<Quote>>)

(* sdssplitargs: where the reader is ("blank", "plain", "quoted", "single" *)
(* or "error"), the token it reads, those it has, the bytes it passed over.*)
ReadsByte(line, st, p) ==
  LET c == line[p]
      next(k) == IF p + k <= Len(line) THEN line[p + k] ELSE NUL
      adds(b, n) == [st EXCEPT !.current = Append(@, b), !.skip = n]
      done == [st EXCEPT !.at = "blank", !.current = <<>>, !.vector = Append(@, st.current)]
      closes == IF next(1) = NUL \/ next(1) \in Space THEN done ELSE [st EXCEPT !.at = "error"]
      plain == CASE c \in {32, 10, 13, 9, NUL} -> done
                 [] c = Quote -> [st EXCEPT !.at = "quoted"]
                 [] c = Single -> [st EXCEPT !.at = "single"]
                 [] OTHER -> [adds(c, 0) EXCEPT !.at = "plain"]
  IN  CASE st.skip > 0 -> [st EXCEPT !.skip = @ - 1]
        [] st.skip = 0 /\ st.at = "error" -> st
        [] st.skip = 0 /\ st.at = "blank" -> IF c = NUL \/ c \in Space THEN st ELSE plain
        [] st.skip = 0 /\ st.at = "plain" -> plain
        [] st.skip = 0 /\ st.at = "quoted" ->
             CASE c = Backslash /\ next(1) = 120 /\ {next(2), next(3)} \subseteq HexDigits ->
                    adds(16 * FromHex(next(2)) + FromHex(next(3)), 3)
               [] c = Backslash /\ next(1) # NUL /\ ~(next(1) = 120 /\ {next(2), next(3)} \subseteq HexDigits) ->
                    adds(IF next(1) \in ToSet(Letters) THEN Controls[CHOOSE i \in 1..5 : Letters[i] = next(1)] ELSE next(1), 1)
               [] c = Quote -> closes
               [] c = NUL -> [st EXCEPT !.at = "error"]
               [] OTHER -> adds(c, 0)
        [] st.skip = 0 /\ st.at = "single" ->
             CASE c = Backslash /\ next(1) = Single -> adds(Single, 1)
               [] c = Single -> closes
               [] c = NUL -> [st EXCEPT !.at = "error"]
               [] OTHER -> adds(c, 0)
SplitArgs(line) ==
  LET text == Append(CString(line), NUL)
      end == FoldLeftDomain(LAMBDA st, p : ReadsByte(text, st, p),
                            [at |-> "blank", current |-> <<>>, vector |-> <<>>, skip |-> 0], text)
  IN  IF end.at = "error" THEN << <<"NULL">> >> ELSE end.vector

Cmp(v, w) ==
  LET k == {i \in DOMAIN v \cap DOMAIN w : v[i] # w[i]}
      first == CHOOSE i \in k : \A j \in k : i <= j
  IN  IF k = {} THEN Len(v) - Len(w) ELSE v[first] - w[first]
-----------------------------------------------------------------------------
SdsInit == buf = NewLen(<<>>) /\ reply = [op |-> "set", arg |-> <<>>, ok |-> TRUE, res |-> TRUE]

\* sdsfree, and sdsnewlen, sdsnew or sdsdup of a text.
SdsRenew(t) == Does("set", t, NewLen(t))
SdsDup == Does("room", "", NewLen(Value))
\* The user writes a terminator into the string and calls sdsupdatelen.
SdsUpdateLen(k) ==
  LET b == Stored(buf.block, k, <<NUL>>)
      real == Len(CString(First(b, buf.len)))
  IN  k < buf.len /\ Does("cut", real, Shortened([buf EXCEPT !.block = b], real))
SdsClear == Does("set", <<>>, Shortened(buf, 0))
SdsRoom(n) == Does("room", "", SdsMakeRoomFor(buf, n))
SdsNoRoom == Does("room", "", RemoveFreeSpace(buf))
\* read into what sdsMakeRoomFor made free, as sds.c:190-196 shows.
SdsFill(t) == LET r == SdsMakeRoomFor(buf, Len(t))
              IN  Does("append", t, IncrLen([r EXCEPT !.block = Stored(@, r.len, t)], Len(t)))
SdsDrop(n) == n <= buf.len /\ Does("cut", buf.len - n, IncrLen(buf, -n))
SdsGrowZero(n) == Does("extend", n, GrowZero(buf, n))
SdsCat(t) == Does("append", t, CatLen(buf, t))
SdsCpy(t) == Does("set", t, CpyLen(buf, t))
SdsCatFmt(f) == Does("append", Spelled(f), CatFmt(buf, f))
SdsTrims(cset) == Does("trim", cset, SdsTrim(buf, cset))
SdsRanges(i, j) == Does("range", <<i, j>>, SdsRange(buf, i, j))
SdsLower == Does("map", [c \in 65..90 |-> c + 32], Case(buf, 65, 90, 32))
SdsUpper == Does("map", [c \in 97..122 |-> c - 32], Case(buf, 97, 122, -32))
SdsMapChars(c, d) == Does("map", [x \in {c} |-> d], MapChars(buf, <<c>>, <<d>>))
SdsCmp(t) == Tells("compare", t, Cmp(Value, t))
SdsSplit(sep) == Tells("split", sep, SplitLen(Value, sep))
SdsQuote == Tells("quote", "", SplitArgs(Content(CatRepr(NewLen(<<>>), Value))))

SdsCall ==
  \/ SdsDup \/ SdsClear \/ SdsNoRoom \/ SdsLower \/ SdsUpper \/ SdsQuote
  \/ \E t \in SdsTexts : \/ SdsRenew(t) \/ SdsFill(t) \/ SdsCat(t) \/ SdsCpy(t) \/ SdsCmp(t)
                         \/ t # <<>> /\ SdsSplit(t)
  \/ \E n \in Lengths : SdsUpdateLen(n) \/ SdsRoom(n) \/ SdsDrop(n) \/ SdsGrowZero(n)
  \/ \E f \in Formats : SdsCatFmt(f)
  \/ \E cset \in CharSets : SdsTrims(cset) \/ \E c, d \in cset : SdsMapChars(c, d)
  \/ \E i, j \in Indexes : SdsRanges(i, j)
SdsNext == SdsCall /\ buf'.len <= MaxSds
SdsSpec == SdsInit /\ [][SdsNext]_bufVars
-----------------------------------------------------------------------------
(* sds.c:44-49, 164-170: the string is always terminated, and behind the   *)
(* header there is what it says: len bytes, free ones, and the terminator. *)
SdsAccounts == /\ buf.block.room = buf.len + buf.free + 1
               /\ Len(buf.block.cells) > buf.len /\ buf.block.cells[buf.len + 1] = NUL
=============================================================================
