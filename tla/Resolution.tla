----------------------------- MODULE Resolution -----------------------------
(***************************************************************************)
(* Where the blocks of a call go (src/src/edit/pipeline/resolve.ts), after *)
(* autopatch has mended their texts                                        *)
(* (src/src/edit/patching/autopatch).  A block is a record of its oldText, *)
(* newText, anchor (<<>> without one) and replaceAll.  What similarity     *)
(* decides is a choice, so a block has a set of outcomes.                  *)
(***************************************************************************)
EXTENDS MatchChain

CONSTANTS
  MaxExpandLines,         \* MAX_EXPAND_LINES (10 in the code)
  AlreadyAppliedMin,      \* ALREADY_APPLIED_MIN_CHARS (16)
  AlreadyAppliedStrong,   \* ALREADY_APPLIED_STRONG_CHARS (64)
  SurplusChars            \* what a match may be longer by in any case (500)

ASSUME ResolutionAssumption ==
  {MaxExpandLines, AlreadyAppliedMin, AlreadyAppliedStrong, SurplusChars} \subseteq Nat \ {0}

-----------------------------------------------------------------------------
(* Autopatch: a text that is nowhere in the file becomes one that is there    *)
(* once.                                                                      *)

Mends(text, old, mended) == mended # old /\ Count(text, old) = 0 /\ Count(text, mended) = 1

\* Pass 0: breaks that were meant as escapes.
EscapeControls(text, r) ==
  LET mended == Replaced(r.old, LF, EscapedLF) IN
  IF Mends(text, r.old, mended) THEN [r EXCEPT !.old = mended] ELSE r

\* The lines without blanks at their ends, and without empty ones at the end.
Stripped(t) ==
  LET lines == [k \in DOMAIN Lines(t) |-> TrimEnd(Joined(t, k, k))]
      last == Max({1} \cup {k \in DOMAIN lines : lines[k] # <<>>})
  IN  [text |-> JoinedLines(SubSeq(lines, 1, last)), dropped |-> Len(lines) - last]

\* As many blank lines off the end of newText, its first line excepted.
WithoutBlankEnd(t, most) ==
  LET n == Len(Lines(t))
      inked == Max({1} \cup {k \in 1 .. n : TrimmedLines(t)[k] # <<>>})
      last == IF n - most > inked THEN n - most ELSE inked
  IN  Joined(t, 1, last)

\* Pass 1: trailing white space.
StripTrailing(text, r) ==
  LET s == Stripped(r.old) IN
  IF Mends(text, r.old, s.text)
  THEN [r EXCEPT !.old = s.text,
                 !.new = IF s.dropped > 0 THEN WithoutBlankEnd(@, s.dropped) ELSE @]
  ELSE r

\* retargetReplacementIndentation: the indents oldText had become those it has
\* now, deeper ones in proportion; one that cannot be told leaves newText alone.
Retargeted(new, old, mended) ==
  LET I(t, k) == Indent(Joined(t, k, k))
      moved == {k \in DOMAIN Lines(old) : I(old, k) # I(mended, k)}
      To(n) == {I(mended, k) : k \in {j \in moved : I(old, j) = n}}
      mapped == {n \in {I(old, k) : k \in moved} : Cardinality(To(n)) = 1}
      base == Min(mapped \ {0})
      Becomes(n) ==
        IF n = 0 THEN {0} ELSE IF n \in mapped THEN To(n)
        ELSE IF mapped \ {0} # {} /\ n % base = 0
             THEN {(n \div base) * t : t \in To(base)} ELSE {}
      inked == {k \in DOMAIN Lines(new) : TrimmedLines(new)[k] # <<>>}
      Line(k) == Joined(new, k, k)
      Moved(k) ==
        IF k \notin inked THEN Line(k)
        ELSE LET n == CHOOSE t \in Becomes(I(new, k)) : TRUE IN
             [j \in 1 .. n |-> SP] \o Slice(Line(k), I(new, k), Len(Line(k)))
  IN  IF mapped = {} \/ \E k \in inked : Becomes(I(new, k)) = {} THEN new
      ELSE JoinedLines([k \in DOMAIN Lines(new) |-> Moved(k)])

\* Pass 2: the first lines that are oldText's but for their indents.  The four
\* conversions between tabs and blanks that the code tries before are left out, for
\* a tab is a blank here.
FixIndent(text, r) ==
  LET hit == FirstLines(text, Len(Lines(r.old)),
               LAMBDA i : LET c == Joined(text, i, i + Len(Lines(r.old)) - 1) IN
                          c # r.old /\ TrimmedLines(c) = TrimmedLines(r.old))
  IN  IF Places(text, r.old) = {} /\ \E c \in hit : Mends(text, r.old, c)
      THEN LET c == CHOOSE c \in hit : TRUE IN
           [r EXCEPT !.old = c, !.new = Retargeted(@, r.old, c)]
      ELSE r

Autopatch(text, r) == FixIndent(text, StripTrailing(text, EscapeControls(text, r)))

-----------------------------------------------------------------------------
(* Outcomes of a block.  "again" marks the errors that call for a second      *)
(* pass.                                                                      *)

Applied(spans, rank) == [status |-> "applied", spans |-> spans, rank |-> rank, again |-> FALSE]
Failed(status) == [status |-> status, spans |-> {}, rank |-> 0, again |-> FALSE]
NotFound == [Failed("missing") EXCEPT !.again = TRUE]

SpanOf(text, actual, base) ==
  LET at == base + IndexOf(text, actual) IN <<at, at + Len(actual)>>

\* isPureRepeatSurplus: the query only repeats lines the match has.
PureRepeatSurplus(actual, old) ==
  LET Repeats(q, m) == Len(q) > Len(m) /\ ToSet(q) \subseteq ToSet(m)
  IN  Repeats(InkedLines(old), InkedLines(actual))

\* isDisproportionateMatch.
Disproportionate(actual, old) ==
  LET MoreLines(m, n) == m >= n + 3 /\ m >= 2 * n
      MoreText(m, n) == m > n + SurplusChars /\ m > 4 * n
  IN  \/ MoreLines(Len(Lines(actual)), Len(Lines(old)))
      \/ PureRepeatSurplus(actual, old)
      \/ Len(Lines(old)) > 1 /\ MoreText(Len(Trim(actual)), Len(Trim(old)))

\* tryAutoExpand: the same lines more above and below every place, until one
\* reads like no other text in the scope; two at once are given up.
AutoExpand(scope, actual) ==
  LET spans == AllSpans(scope, actual)
      n == Len(Lines(scope))
      Around(s, level) ==
        LET up == LineAt(scope, s[1]) - (level + 1) \div 2
            down == LineAt(scope, s[2] - 1) + level \div 2
        IN  Joined(scope, IF up < 1 THEN 1 ELSE up, Min2(down, n))
      Alone(level) == {s \in spans : Count(scope, Around(s, level)) = 1}
      levels == {l \in 1 .. 2 * (MaxExpandLines \div 2) : Alone(l) # {}}
  IN  IF levels = {} \/ Cardinality(Alone(Min(levels))) > 1 THEN {} ELSE Alone(Min(levels))

\* A scope is the text or a window of it.
Whole(text) == [from |-> 0, to |-> Len(text), anchored |-> FALSE]

\* computeAnchorWindow: the anchor's lines and MaxExpandLines on either side,
\* with the break after them.
Window(text, actual) ==
  LET n == Len(Lines(text))
      at == IndexOf(text, actual)
      first == LineAt(text, at) - MaxExpandLines
      last == LineAt(text, at + Len(actual) - 1) + MaxExpandLines
  IN  [from |-> IF first > 1 THEN Lines(text)[first][1] ELSE 0,
       to |-> IF last < n THEN Lines(text)[last + 1][1] ELSE Len(text), anchored |-> TRUE]

Scope(text, w) == Slice(text, w.from, w.to)

\* A match becomes a span, every span of its text, or none.
Placed(text, r, w, m) ==
  LET Shift(S) == {<<s[1] + w.from, s[2] + w.from>> : s \in S}
      OneOf(S) == IF S = {} THEN Failed("ambiguous") ELSE Applied(Shift(S), m.rank)
      spans == AllSpans(Scope(text, w), m.actual)
  IN  IF Disproportionate(m.actual, r.old) THEN Failed("missing")
      ELSE IF r.all THEN Applied(AllSpans(text, m.actual), m.rank)
      ELSE OneOf(IF Cardinality(spans) = 1 THEN spans ELSE AutoExpand(Scope(text, w), m.actual))

\* Nothing was found: newText in the file passes for an edit that is done.
Missed(text, r) ==
  LET new == Normalize(r.new)
      n == Count(text, new)
  IN  IF /\ Len(new) >= AlreadyAppliedMin /\ Places(Normalize(r.old), new) = {}
         /\ n = 1 \/ (n > 1 /\ Len(new) >= AlreadyAppliedStrong)
      THEN Failed("missing") ELSE NotFound

\* The anchor's window has nothing: the whole text, without the guard and the
\* expansion.
FullRetry(text, r) ==
  {IF m = NoMatch THEN Missed(text, r)
   ELSE IF Ambiguous(text, m.actual) THEN Failed("ambiguous")
   ELSE Applied({SpanOf(text, m.actual, 0)}, m.rank) : m \in FindMatch(text, r.old, Ranks)}

\* A faulty InScope: without the shadow guard.
MutInScope(text, r, w) ==
  UNION {IF m = NoMatch THEN IF w.anchored THEN FullRetry(text, r) ELSE {Missed(text, r)}
         ELSE {Placed(text, r, w, m)} : m \in FindMatch(Scope(text, w), r.old, Ranks)}

\* A hit in the window gives way to a stronger one that is alone in the text.
InScope(text, r, w) ==
  LET Wins(s) == /\ s # NoMatch /\ ~Ambiguous(text, s.actual)
                 /\ ~Disproportionate(s.actual, r.old)
      Guarded(m) ==
        IF ~w.anchored \/ r.all THEN {Placed(text, r, w, m)}
        ELSE {IF Wins(s) THEN Placed(text, r, Whole(text), s) ELSE Placed(text, r, w, m) :
                s \in Stronger(text, r.old, m.rank)}
  IN  UNION {IF m = NoMatch THEN IF w.anchored THEN FullRetry(text, r) ELSE {Missed(text, r)}
             ELSE Guarded(m) : m \in FindMatch(Scope(text, w), r.old, Ranks)}

\* The anchor is nowhere and no near miss of it served: the whole text, if the
\* match is alone there.
Unanchored(text, r) ==
  {IF m = NoMatch \/ Ambiguous(text, m.actual) THEN NotFound
   ELSE Applied({SpanOf(text, m.actual, 0)}, m.rank) : m \in FindMatch(text, r.old, Ranks)}

\* buildNearMissAlternatives: lines of the text, of which similar ones count.
NearMisses(text) ==
  {Trim(Joined(text, w[1], w[2])) :
     w \in {v \in (1 .. Len(Lines(text))) \X (1 .. Len(Lines(text))) : v[1] <= v[2]}} \ {<<>>}

AnchorHits(text, anchor) == FindMatch(text, anchor, Ranks \ SearchOnly)

\* One that is like oldText is dropped, a near miss serves, or it is ignored.
AnchorLost(text, r) ==
  LET near == {h \in UNION {AnchorHits(text, c) : c \in NearMisses(text)} :
                 h # NoMatch /\ ~Ambiguous(text, h.actual)}
  IN  Unanchored(text, r)
      \cup UNION {InScope(text, r, w) :
                    w \in {Whole(text)} \cup {Window(text, m.actual) : m \in near}}

\* doResolvePass for one block.
Outcomes(text, r) ==
  CASE r.old = <<>> ->
         {IF text = <<>> /\ r.new # <<>> THEN Applied({<<0, 0>>}, 0) ELSE Failed("validation")}
    [] r.old # <<>> /\ Normalize(r.old) = Normalize(r.new) -> {Failed("noop")}
    [] OTHER ->
         IF r.anchor = <<>> THEN InScope(text, r, Whole(text))
         ELSE UNION {IF a = NoMatch THEN AnchorLost(text, r)
                     ELSE IF Ambiguous(text, a.actual) THEN {Failed("ambiguous")}
                     ELSE InScope(text, r, Window(text, a.actual)) :
                       a \in AnchorHits(text, r.anchor)}
=============================================================================
