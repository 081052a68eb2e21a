-------------------------------- MODULE Texts --------------------------------
(***************************************************************************)
(* The texts of an edit call: sequences over a few letters, a blank and    *)
(* the two characters of a line break.  Offsets count from 0 and ends are  *)
(* exclusive, as String.slice has them.  SP stands for any white space     *)
(* inside a line.                                                          *)
(***************************************************************************)
EXTENDS Integers, Sequences, FiniteSets, SequencesExt, FiniteSetsExt, TLC

CONSTANTS LF, CR, SP

ASSUME TextsAssumption == LF # CR

\* A text, as far as its offsets go.
IsText(t) == Len(t) \in Nat /\ t = [i \in 1..Len(t) |-> t[i]]

Min2(a, b) == IF a <= b THEN a ELSE b

\* text.slice(a, b), clamped to the text.
Slice(text, a, b) == SubSeq(text, a + 1, Min2(b, Len(text)))

Holds(text, c) == c \in ToSet(text)

\* The numbers of a set in their order.
Ascending(S) ==
  [k \in 1..Cardinality(S) |-> CHOOSE i \in S : Cardinality({j \in S : j <= i}) = k]

\* A CRLF becomes its LF, any other CR becomes an LF.
Normalize(text) ==
  LET Kept(i) == ~(text[i] = CR /\ i < Len(text) /\ text[i + 1] = LF)
      At == Ascending({i \in 1..Len(text) : Kept(i)})
  IN  [k \in 1..Len(At) |-> IF text[At[k]] = CR THEN LF ELSE text[At[k]]]

\* Every place of a needle, overlapping ones included, and the first one.
Places(text, needle) ==
  {i \in 0 .. Len(text) - Len(needle) : Slice(text, i, i + Len(needle)) = needle}

IndexOf(text, needle) == Min(Places(text, needle))

\* findAllSpans: from left to right, each after the end of the one before.
AllSpans(text, needle) ==
  LET size == Len(needle)
      taken[i \in 0..Len(text)] ==
        i \in Places(text, needle) /\ \A j \in 0..(i - 1) : j + size > i => ~taken[j]
  IN  IF needle = <<>> THEN {} ELSE {<<i, i + size>> : i \in {j \in 0..Len(text) : taken[j]}}

Count(text, needle) == Cardinality(AllSpans(text, needle))

\* reportOccurrences: the text that was matched is there more than once.
Ambiguous(text, actual) == Count(text, actual) > 1

\* Where each line starts and ends, split at \n.
Lines(text) ==
  LET breaks == Ascending({i \in 1..Len(text) : text[i] = LF})
  IN  [k \in 1..Len(breaks) + 1 |->
         <<IF k = 1 THEN 0 ELSE breaks[k - 1],
           IF k > Len(breaks) THEN Len(text) ELSE breaks[k] - 1>>]

\* The line that holds an offset (lineIndexAt: a break belongs to its line).
LineAt(text, offset) ==
  LET Latest(lines) == Max({1} \cup {k \in DOMAIN lines : lines[k][1] <= offset})
  IN  Latest(Lines(text))

\* Lines i to j, joined.
Joined(text, i, j) ==
  LET From(lines) == Slice(text, lines[i][1], lines[j][2]) IN From(Lines(text))

\* Lines put together again: join("\n").
JoinedLines(lines) ==
  LET upTo[k \in 1..Len(lines)] ==
        IF k = 1 THEN lines[1] ELSE upTo[k - 1] \o <<LF>> \o lines[k]
  IN  upTo[Len(lines)]

\* trim and trimEnd.
Inked(t) == {i \in DOMAIN t : t[i] \notin {SP, LF, CR}}
Trim(t) ==
  LET Cut(inked) == IF inked = {} THEN <<>> ELSE SubSeq(t, Min(inked), Max(inked)) IN Cut(Inked(t))
TrimEnd(t) == SubSeq(t, 1, Max({0} \cup Inked(t)))

TrimmedLines(text) ==
  LET Each(lines) == [k \in DOMAIN lines |-> Trim(Slice(text, lines[k][1], lines[k][2]))]
  IN  Each(Lines(text))
Indent(line) == Len(line) - Len(TrimEnd(Reverse(line)))
=============================================================================
