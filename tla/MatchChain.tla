----------------------------- MODULE MatchChain -----------------------------
(***************************************************************************)
(* The chain of passes that finds oldText in a normalized text             *)
(* (src/src/edit/matching/chain.ts, passes.ts, robust-match.ts).  A pass   *)
(* gives text of the file, never the query, and the first pass that gives  *)
(* one wins.  Passes that compare are modelled by what they accept; of     *)
(* those that score, the windows are kept and the score is a choice: one   *)
(* of their windows passes, or none.                                       *)
(***************************************************************************)
EXTENDS Texts

CONSTANTS
  EscapedLF,                         \* the two characters \ and n
  Quote, EscapedQuote, CurlyQuote    \* ", \" and a typographic one

Replaced(t, from, to) == [i \in DOMAIN t |-> IF t[i] = from THEN to ELSE t[i]]

-----------------------------------------------------------------------------
(* The passes: the set of texts each may find.                               *)

\* isLineAligned: the place covers whole lines.
Aligned(text, i, size) ==
  /\ i = 0 \/ text[i] = LF
  /\ i + size >= Len(text) \/ text[i + size + 1] = LF

\* A query of one line may be any part of a line, one of several covers whole
\* lines.
Verbatim(text, q) ==
  IF q # <<>> /\ \E i \in Places(text, q) : Holds(q, LF) => Aligned(text, i, Len(q))
  THEN {q} ELSE {}

\* The least of the numbers, if there is one.
FirstOf(S) == {i \in S : \A j \in S : i <= j}

\* The first lines of the text that a test accepts, as many as there are to be.
FirstLines(text, n, Test(_)) ==
  {Joined(text, i, i + n - 1) : i \in FirstOf({k \in 1 .. Len(Lines(text)) - n + 1 : Test(k)})}

\* Lines in a row that are the wanted ones.
FirstRun(text, got, want) ==
  FirstLines(text, Len(want), LAMBDA i : SubSeq(got, i, i + Len(want) - 1) = want)

\* lineTrimmedFind: lines equal after trim, without the query's blank frame.
LineTrimmed(text, q) ==
  LET Core(want, inked) ==
        IF inked = {} THEN {}
        ELSE FirstRun(text, TrimmedLines(text), SubSeq(want, Min(inked), Max(inked)))
      Of(want) == Core(want, {k \in DOMAIN want : want[k] # <<>>})
  IN  Of(TrimmedLines(q))

\* A run of blanks becomes one.
Collapsed(line) ==
  LET From(t) ==
        LET kept == Ascending({i \in DOMAIN t : ~(i > 1 /\ t[i] = SP /\ t[i - 1] = SP)})
        IN  [k \in DOMAIN kept |-> t[kept[k]]]
  IN  From(Trim(line))

CollapsedLines(text) == [k \in DOMAIN Lines(text) |-> Collapsed(Joined(text, k, k))]

WhitespaceNormalized(text, q) ==
  LET Find(want) ==
        IF want = << <<>> >> THEN {} ELSE FirstRun(text, CollapsedLines(text), want)
  IN  Find(CollapsedLines(q))

InkedLines(text) ==
  LET Kept(lines, at) == [k \in DOMAIN at |-> lines[at[k]]]
      Of(lines) == Kept(lines, Ascending({k \in DOMAIN lines : lines[k] # <<>>}))
  IN  Of(TrimmedLines(text))

\* indentationFlexibleFind: as trimmed, with blank lines between on either side.
IndentationFlexible(text, q) ==
  LET Reach(want, got, i) ==
        Ascending({k \in i .. Min2(i + 3 * Len(want) - 1, Len(got)) : got[k] # <<>>})
      Fits(want, got, i, at) ==
        /\ want # <<>> /\ got[i] = want[1] /\ Len(at) >= Len(want)
        /\ \A k \in DOMAIN want : got[at[k]] = want[k]
      Find(want, got) ==
        {Joined(text, i, Reach(want, got, i)[Len(want)]) :
           i \in FirstOf({j \in DOMAIN got : Fits(want, got, j, Reach(want, got, j))})}
  IN  Find(InkedLines(q), TrimmedLines(text))

\* escapeNormalizedFind: the query without its escapes, if it has any.
EscapeNormalized(text, q) ==
  LET Plain(t) == IF t = q THEN {} ELSE Verbatim(text, t)
  IN  Plain(Replaced(Replaced(q, EscapedLF, LF), EscapedQuote, Quote))

\* unicodeNormalizedFind: the first place with typographic characters folded,
\* whole lines or not; it is not tried where there are none.
UnicodeNormalized(text, q) ==
  LET Find(plain) ==
        IF plain = q /\ ~Holds(text, CurlyQuote) THEN {}
        ELSE {Slice(text, i, i + Len(plain)) :
                i \in FirstOf(Places(Replaced(text, CurlyQuote, Quote), plain))}
  IN  Find(Replaced(q, CurlyQuote, Quote))

\* Windows from a line equal to the query's first to one equal to its last,
\* up to twice as long.
AnchoredWindows(text, q) ==
  LET Between(want, got, n) ==
        {w \in (DOMAIN got) \X (DOMAIN got) :
           /\ n > 2 /\ w[2] \in w[1] + n - 1 .. w[1] + 2 * n - 1
           /\ got[w[1]] = want[1] /\ got[w[2]] = want[n]}
  IN  Between(TrimmedLines(q), TrimmedLines(text), Len(Lines(q)))

TextsOf(text, windows) == {Joined(text, w[1], w[2]) : w \in windows}

BlockAnchor(text, q) == TextsOf(text, AnchoredWindows(text, q))

\* blockAnchorLevenshteinFind: of the query's length.
BlockAnchorLevenshtein(text, q) ==
  TextsOf(text, {w \in AnchoredWindows(text, q) : w[2] - w[1] + 1 = Len(Lines(q))})

\* fuzzyBoundaryFind, tokenOverlapFind: windows of about the query's length.
NearWindows(text, q, slack) ==
  LET Of(n, lines) ==
        {w \in lines \X lines :
           n > 2 /\ w[2] - w[1] + 1 \in (IF n - slack < 3 THEN 3 ELSE n - slack) .. n + slack}
  IN  Of(Len(Lines(q)), DOMAIN Lines(text))

FuzzyBoundary(text, q) == TextsOf(text, NearWindows(text, q, 0))
TokenOverlap(text, q) == TextsOf(text, NearWindows(text, q, 2))

\* The first lines from one equal to a line to the next one equal to another,
\* at most so many lines further; each start with its first end.
Blocks(got, first, last, most) ==
  UNION {{<<i, j>> : j \in FirstOf({k \in i + 1 .. Min2(i + most, Len(got)) : got[k] = last})} :
           i \in {k \in DOMAIN got : got[k] = first}}

\* trimmedBoundaryFind: the query trimmed as a whole, else the first lines from
\* one equal to its first to the next equal to its last.
TrimmedBoundary(text, q) ==
  LET Framed(want, n) ==
        IF <<>> \in {want[1], want[n]} THEN {}
        ELSE LET found == Blocks(TrimmedLines(text), want[1], want[n], n + 1) IN
             {w \in found : \A v \in found : w[1] <= v[1]}
      Of(bare) ==
        IF bare \in {<<>>, q} THEN {}
        ELSE IF Verbatim(text, bare) # {} THEN {bare}
        ELSE TextsOf(text, Framed(TrimmedLines(q), Len(Lines(q))))
  IN  Of(Trim(q))

\* contextAwareFind: the same from the query's first line with ink to its last,
\* each start with its first end.
ContextAware(text, q) ==
  LET Find(want, n) ==
        IF n < 2 \/ want = <<>> THEN {}
        ELSE TextsOf(text, Blocks(TrimmedLines(text), want[1], Last(want), 2 * n - 1))
  IN  Find(InkedLines(q), Len(Lines(q)))

\* robustTrimmedFind: the one place in the text without blanks at line ends,
\* and the blanks and the break after it.
RobustTrimmed(text, q) ==
  LET Ends(i) == \A j \in i .. Len(text) : (\E k \in i .. j : text[k] = LF) \/ text[j] = SP
      Kept == Ascending({i \in DOMAIN text : ~(text[i] = SP /\ Ends(i))})
      \* The span in the text of a place among the characters kept.
      Blank(last) == Max({j \in last .. Len(text) : \A k \in last + 1 .. j : text[k] = SP})
      PastBreak(i) == IF Slice(text, i, i + 1) = <<LF>> THEN i + 1 ELSE i
      Span(kept, i, n) ==
        Slice(text, IF i = 0 THEN 0 ELSE kept[i], PastBreak(Blank(kept[i + n])))
      Find(kept, want) ==
        LET at == Places([k \in DOMAIN kept |-> text[kept[k]]], want) IN
        IF kept = [i \in DOMAIN text |-> i] \/ want = <<>> \/ Cardinality(at) # 1 THEN {}
        ELSE {t \in {Span(kept, i, Len(want)) : i \in at} : Cardinality(Places(text, t)) = 1}
  IN  IF Places(text, q) # {} THEN {} ELSE Find(Kept, TrimEnd(q))

\* robustBackslashFind: the one place with the quotes escaped, or not escaped.
RobustBackslash(text, q) ==
  LET Once(t) == t # q /\ Cardinality(Places(text, t)) = 1
      First(escaped, plain) ==
        IF Once(escaped) THEN {escaped} ELSE IF Once(plain) THEN {plain} ELSE {}
  IN  First(Replaced(q, Quote, EscapedQuote), Replaced(q, EscapedQuote, Quote))

-----------------------------------------------------------------------------
(* The chain.                                                                *)

Ranks == 1 .. 14

\* REPLACER_CHAIN.
Finds(rank, text, q) ==
  CASE rank = 1 -> Verbatim(text, q)
    [] rank = 2 -> LineTrimmed(text, q)
    [] rank = 3 -> WhitespaceNormalized(text, q)
    [] rank = 4 -> IndentationFlexible(text, q)
    [] rank = 5 -> EscapeNormalized(text, q)
    [] rank = 6 -> UnicodeNormalized(text, q)
    [] rank = 7 -> BlockAnchor(text, q)
    [] rank = 8 -> BlockAnchorLevenshtein(text, q)
    [] rank = 9 -> FuzzyBoundary(text, q)
    [] rank = 10 -> TrimmedBoundary(text, q)
    [] rank = 11 -> ContextAware(text, q)
    [] rank = 12 -> RobustTrimmed(text, q)
    [] rank = 13 -> RobustBackslash(text, q)
    [] rank = 14 -> TokenOverlap(text, q)

Scored == {7, 8, 9, 11, 14}
SearchOnly == {9, 14}

NoMatch == [rank |-> 0, actual |-> <<>>]

\* The hits the chain may stop at, and NoMatch where it may go through: an empty
\* text is no hit, a pass that scores may refuse.
FirstHits(text, q, ranks) ==
  LET Stop(hits, sure) ==
        (UNION {{[rank |-> r, actual |-> a] : a \in hits[r]} :
                  r \in {k \in ranks : \A j \in sure : k <= j}})
        \cup (IF sure = {} THEN {NoMatch} ELSE {})
      Of(hits) == Stop(hits, {r \in ranks \ Scored : hits[r] # {}})
  IN  Of([r \in ranks |-> Finds(r, text, q) \ {<<>>}])

\* expandToLineTail: a hit in the first line that has it, which is the query but
\* for blanks at its ends, takes the line's tail.
ToLineTail(text, q, actual) ==
  LET LineTail(at, k) ==
        IF TrimmedLines(text)[k] = Trim(q) THEN Slice(text, at, Lines(text)[k][2]) ELSE actual
      From(at) == LineTail(at, LineAt(text, at))
  IN  IF ~Holds(q, LF) /\ ~Holds(actual, LF) THEN From(IndexOf(text, actual)) ELSE actual

\* findMatch.
FindMatch(text, q, ranks) ==
  {IF m = NoMatch THEN m ELSE [m EXCEPT !.actual = ToLineTail(text, q, @)] :
     m \in FirstHits(text, q, ranks)}

\* findMatchStrongerThan.
Stronger(text, q, rank) == FirstHits(text, q, {r \in Ranks : r < rank})
=============================================================================
