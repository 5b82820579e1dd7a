-------------------------------- MODULE Text --------------------------------
(***************************************************************************)
(* What the three string libraries of src/Clang/string promise a user: a   *)
(* sequence of bytes, changed and asked about as sds.h, strbuf.h and       *)
(* dynamic-string.h say, whatever the memory behind it does.               *)
(***************************************************************************)
EXTENDS Integers, Sequences, SequencesExt

VARIABLES
  text,     \* the bytes
  answer    \* the last call: [op |-> what was asked, arg |-> with what,
            \* ok |-> whether there was memory for it, res |-> what it returned]

NewLine == 10
Blanks == {32, 9, 10}
ToNul(s) == LET k == SelectInSeq(s, LAMBDA c : c = 0) IN IF k = 0 THEN s ELSE SubSeq(s, 1, k - 1)

\* Tokens with the separators put back between them.
Joined(tokens, sep) == FlattenSeq([i \in DOMAIN tokens |-> IF i = 1 THEN tokens[1] ELSE sep \o tokens[i]])

\* Of byte strings the first difference decides, then the length.
Less(s, t) == \/ \E i \in DOMAIN s \cap DOMAIN t : s[i] < t[i] /\ SubSeq(s, 1, i - 1) = SubSeq(t, 1, i - 1)
              \/ IsStrictPrefix(s, t)

\* The code point that bytes encode.
Bits(b, n) == b % 2 ^ n
CodePoint(s) ==
  CASE Len(s) = 1 -> s[1]
    [] Len(s) = 2 -> Bits(s[1], 5) * 64 + Bits(s[2], 6)
    [] Len(s) = 3 -> Bits(s[1], 4) * 4096 + Bits(s[2], 6) * 64 + Bits(s[3], 6)
    [] Len(s) = 4 -> Bits(s[1], 3) * 262144 + Bits(s[2], 6) * 4096 + Bits(s[3], 6) * 64 + Bits(s[4], 6)

\* The lines of a file, as the places where they begin and their ends.
Lines(f) == {<<p, q>> \in (1..Len(f)) \X (0..Len(f)) :
               /\ p = 1 \/ f[p - 1] = NewLine
               /\ q >= p - 1 /\ NewLine \notin ToSet(SubSeq(f, p, q)) /\ (q = Len(f) \/ f[q + 1] = NewLine)}
Uncommented(s) == LET k == SelectInSeq(s, LAMBDA c : c = 35) IN IF k = 0 THEN s ELSE SubSeq(s, 1, k - 1)
Meant(f) == {l \in Lines(f) : ToSet(Uncommented(SubSeq(f, l[1], l[2]))) \ Blanks # {}}

\* The bytes that index i of a range names, negative ones from the end.
At(i) == IF i < 0 THEN (IF Len(text) + i < 0 THEN 1 ELSE Len(text) + i + 1) ELSE i + 1

Stays == text' = text
Changes(op, arg, res) ==
  \/ op = "set" /\ text' = arg
  \/ op = "append" /\ text' = text \o arg
  \/ op = "extend" /\ \/ arg <= Len(text) /\ Stays
                      \/ Len(text') = arg /\ IsPrefix(text, text') /\ \A i \in (Len(text) + 1)..arg : text'[i] = 0
  \/ op = "cut" /\ text' = SubSeq(text, 1, IF arg < Len(text) THEN arg ELSE Len(text))
  \/ op = "shrink" /\ IsPrefix(text', text) /\ (Len(text) <= arg => Stays)
  \/ op = "chomp" /\ \/ text = Append(text', arg)
                     \/ (text = <<>> \/ Last(text) # arg) /\ Stays
  \/ op = "range" /\ text' = SubSeq(text, At(arg[1]), IF At(arg[2]) > Len(text) THEN Len(text) ELSE At(arg[2]))
  \/ op = "trim" /\ \E i \in 1..(Len(text) + 1), j \in 0..Len(text) :
       /\ text' = SubSeq(text, i, j)
       /\ ToSet(SubSeq(text, 1, i - 1)) \cup ToSet(SubSeq(text, j + 1, Len(text))) \subseteq arg \cup {0}
       /\ text' # <<>> => {Head(text'), Last(text')} \cap (arg \cup {0}) = {}
  \/ op = "map" /\ text' = [i \in DOMAIN text |-> IF text[i] \in DOMAIN arg THEN arg[text[i]] ELSE text[i]]
  \/ op = "point" /\ \E s \in {SubSeq(text', Len(text) + 1, Len(text'))} :
       text' = text \o s /\ CodePoint(s) = IF arg > 1114111 THEN 65533 ELSE arg
  \/ op = "line" /\ \/ Meant(arg) = {} /\ res = <<>> /\ text' = <<>>
                    \/ \E l \in Meant(arg) : /\ \A m \in Meant(arg) : l[1] <= m[1]
                                             /\ res = <<Uncommented(SubSeq(arg, l[1], l[2]))>> /\ ToNul(text') = res[1]

Tells(op, arg, res) ==
  \/ op = "room"
  \/ op = "cstring" /\ res = ToNul(text)
  \/ op = "last" /\ res = IF text = <<>> THEN -1 ELSE Last(text)
  \/ op = "compare" /\ (res < 0 <=> Less(text, arg)) /\ (res = 0 <=> text = arg)
  \/ op = "split" /\ Joined(res, arg) = text /\ \A i \in DOMAIN res : arg \notin SubSeqs(res[i])
  \/ op = "quote" /\ res = <<text>>

\* An allocation that fails leaves everything as it was.
Refused == ~answer'.ok /\ Stays

TextNext == \/ Refused
            \/ answer'.ok /\ \/ Changes(answer'.op, answer'.arg, answer'.res)
                             \/ Tells(answer'.op, answer'.arg, answer'.res) /\ Stays
TextSpec == text = <<>> /\ [][TextNext]_<<text, answer>>
=============================================================================
