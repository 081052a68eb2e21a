----------------------------- MODULE ApplyEdits ------------------------------
(***************************************************************************)
(* How the texts of an edit call reach the bytes of its file.  The call    *)
(* works on two copies: blocks are resolved to spans of the LF-normalized  *)
(* text (Resolution) and applied there from its end (apply.ts), and once   *)
(* more on the raw text, where the same spans are spliced from its start   *)
(* so that every line ending outside them survives (raw-splice.ts).        *)
(* Blocks that are missing in the first pass are resolved again in the     *)
(* text it produced.  The file gets the second copy; the answer describes  *)
(* the first.                                                              *)
(***************************************************************************)
EXTENDS Resolution

CONSTANTS Block,      \* the edits of the call
          Files,      \* the texts the file may hold, without its BOM
          Asks(_)     \* the blocks that a call for such a file may send

\* Files and the fields of a block but for replaceAll are texts.
ASSUME EditsAssumption ==
  \A f \in Files :
    /\ IsText(f)
    /\ \A a \in Asks(f) : \A b \in Block :
         LET r == a[b] IN
         /\ IsText(r.old) /\ IsText(r.new) /\ IsText(r.anchor)
         /\ r = [old |-> r.old, new |-> r.new, anchor |-> r.anchor, all |-> r.all]

VARIABLES raw,        \* the file, as read
          sent,       \* the blocks of the call
          ask,        \* the blocks, as autopatch leaves them
          pass,       \* 1 or 2
          phase,      \* "resolve", "apply", "written", "refused"
          missing,    \* the blocks pass 1 did not find
          pending,    \* the pieces of this pass that are not applied yet
          clashing,   \* overlapCandidates of this pass
          content,    \* the normalized text each pass leaves
          applied,    \* the pieces each pass applied, in that order
          failed,     \* the kinds of failure met
          mid,        \* afterPass1Raw
          out         \* newContentRaw

vars == <<raw, sent, ask, pass, phase, missing, pending, clashing, content, applied,
          failed, mid, out>>

-----------------------------------------------------------------------------
(* Texts. *)

\* A faulty NormToRaw: every folded CR is taken for two characters.
MutNormToRaw(text) ==
  LET norm == Normalize(text)
      Folds(k, ri) == norm[k] = LF /\ Slice(text, ri, ri + 1) = <<CR>>
      walk[k \in 0..Len(norm)] ==
        IF k = 0 THEN 0
        ELSE walk[k - 1] + (IF Folds(k, walk[k - 1]) THEN 2 ELSE 1)
  IN  [k \in 0..Len(norm) |-> IF k = Len(norm) THEN Len(text)
                              ELSE Min2(walk[k], Len(text))]

\* Where the k-th character of the normalized text starts in the raw one.
NormToRaw(text) ==
  LET norm == Normalize(text)
      Folds(k, ri) == norm[k] = LF /\ Slice(text, ri, ri + 2) = <<CR, LF>>
      walk[k \in 0..Len(norm)] ==
        IF k = 0 THEN 0
        ELSE walk[k - 1] + (IF Folds(k, walk[k - 1]) THEN 2 ELSE 1)
  IN  [k \in 0..Len(norm) |-> IF k = Len(norm) THEN Len(text) ELSE walk[k]]

-----------------------------------------------------------------------------
(* Resolution.                                                             *)

Piece == [block : Block, start : Nat, end : Nat, rank : Nat]

Overlap(p, q) == p.start < q.end /\ q.start < p.end

Base == IF pass = 1 THEN Normalize(raw) ELSE content[1]

\* A block that is applied has a piece for each of its spans.  The blocks of
\* this pass are resolved each by itself; those without a match are for the
\* second pass if one of them asks for it.
Resolve(blocks, todo) ==
  \E may \in {[b \in todo |-> Outcomes(Base, blocks[b])]} :
  \E o \in [todo -> UNION {may[b] : b \in todo}] :
    LET Pieces(b) == {[block |-> b, start |-> s[1], end |-> s[2], rank |-> o[b].rank] :
                        s \in o[b].spans}
        pieces == UNION {Pieces(b) : b \in todo}
    IN
    /\ \A b \in todo : o[b] \in may[b]
    /\ pending' = pieces
    /\ clashing' = {p \in pieces : \E q \in pieces \ {p} : Overlap(p, q)}
    /\ missing' = IF \E b \in todo : o[b].again
                  THEN {b \in todo : o[b].status = "missing"} ELSE {}
    /\ phase' = IF pass = 1 /\ pieces = {} THEN "refused" ELSE "apply"

\* autopatchBlocks, and doResolvePass over all blocks.
ResolveFirst ==
  /\ phase = "resolve" /\ pass = 1
  /\ ask' = [b \in Block |-> Autopatch(Base, sent[b])]
  /\ Resolve(ask', Block)
  /\ UNCHANGED <<raw, sent, pass, content, applied, failed, mid, out>>

\* doResolvePass over the blocks that were missing.
ResolveAgain ==
  /\ phase = "resolve" /\ pass = 2
  /\ Resolve(ask, missing)
  /\ UNCHANGED <<raw, sent, ask, pass, content, applied, failed, mid, out>>

-----------------------------------------------------------------------------
(* applyEdits: one piece after the other, from the end of the text.        *)

Replacement(p) == Normalize(ask[p.block].new)
Actual(p) == Slice(Base, p.start, p.end)

\* A faulty IsNext: from the start of the text.
MutIsNext(p) == \A q \in pending : \/ q.start > p.start
                                   \/ q.start = p.start /\ q.end >= p.end

\* Ties are broken by oldText, which may order two blocks either way.
IsNext(p) == \A q \in pending : \/ q.start < p.start
                                \/ q.start = p.start /\ q.end <= p.end

Drop(p, kind) ==
  /\ failed' = failed \cup {kind}
  /\ UNCHANGED <<content, applied>>

NoOp(p) ==
  /\ Replacement(p) = Actual(p)
  /\ Drop(p, "no-op")

Gone(p) ==
  /\ Replacement(p) # Actual(p)
  /\ Slice(content[pass], p.start, p.end) # Actual(p)
  /\ Drop(p, IF p \in clashing THEN "already-handled" ELSE "invariant")

Replace(p) ==
  /\ Replacement(p) # Actual(p)
  /\ Slice(content[pass], p.start, p.end) = Actual(p)
  /\ content' = [content EXCEPT ![pass] =
                   Slice(@, 0, p.start) \o Replacement(p) \o Slice(@, p.end, Len(@))]
  /\ applied' = [applied EXCEPT ![pass] = Append(@, p)]
  /\ UNCHANGED failed

ApplyPiece ==
  /\ phase = "apply"
  /\ \E p \in pending : /\ IsNext(p)
                        /\ NoOp(p) \/ Gone(p) \/ Replace(p)
                        /\ pending' = pending \ {p}
  /\ UNCHANGED <<raw, sent, ask, pass, phase, missing, clashing, mid, out>>

\* Blocks the first pass did not find are looked for in what it produced.
SecondPass ==
  /\ phase = "apply" /\ pending = {}
  /\ pass = 1 /\ missing # {}
  /\ pass' = 2
  /\ phase' = "resolve"
  /\ content' = [content EXCEPT ![2] = content[1]]
  /\ UNCHANGED <<raw, sent, ask, missing, pending, clashing, applied, failed, mid, out>>

-----------------------------------------------------------------------------
(* spliceOntoRaw. *)

EndsWith(text, tail) ==
  Len(tail) <= Len(text) /\ Slice(text, Len(text) - Len(tail), Len(text)) = tail

HoldsCRLF(text) == \E i \in 1..Len(text) - 1 : text[i] = CR /\ text[i + 1] = LF

\* Every LF of the text becomes the given break.
WithBreaks(text, break) ==
  FlattenSeq([i \in 1..Len(text) |-> IF text[i] = LF THEN break ELSE <<text[i]>>])

\* A faulty Conform: a CRLF is taken for a CR.
MutConform(text, context) ==
  IF ~Holds(text, LF) \/ Holds(text, CR) THEN text
  ELSE IF Holds(context, CR) THEN WithBreaks(text, <<CR>>)
  ELSE text

\* conformLineEndings: a new text without CR takes the breaks of its span.
Conform(text, context) ==
  IF ~Holds(text, LF) \/ Holds(text, CR) THEN text
  ELSE IF HoldsCRLF(context) THEN WithBreaks(text, <<CR, LF>>)
  ELSE IF Holds(context, CR) THEN WithBreaks(text, <<CR>>)
  ELSE text

\* The trailing break of a new text is dropped if the file has one there.
Trims(p, norm) ==
  EndsWith(ask[p.block].new, <<LF>>) /\ Slice(norm, p.end, p.end + 1) = <<LF>>

Trimmed(p, norm) ==
  LET text == ask[p.block].new
      unit == IF EndsWith(text, <<CR, LF>>) THEN 2 ELSE 1
  IN  IF Trims(p, norm) THEN Slice(text, 0, Len(text) - unit) ELSE text

\* The raw offset of a normalized one, or a default when it lies outside.
Locate(map, k, default) == IF k \in DOMAIN map THEN map[k] ELSE default

\* The raw span of a piece, and what conformLineEndings looks at: the span and
\* the two characters after it.
From(p, map) == Locate(map, p.start, 0)
To(p, map, text) == Locate(map, p.end, Len(text))

Context(p, text) ==
  LET map == NormToRaw(text)
      to  == To(p, map, text)
  IN  Slice(text, From(p, map), to) \o Slice(text, to, to + 2)

\* A faulty Splices: in the order the pieces were applied.
MutSplices(pieces) == pieces

\* buildPassSplices: by start, and stable where starts are equal.
Splices(pieces) ==
  LET UpTo(i) == {j \in DOMAIN pieces : \/ pieces[j].start < pieces[i].start
                                        \/ pieces[j].start = pieces[i].start /\ j <= i}
  IN  [k \in DOMAIN pieces |-> pieces[CHOOSE i \in DOMAIN pieces : Cardinality(UpTo(i)) = k]]

\* What is written, in order: the raw text from the end of one splice to the
\* start of the next, its new text, and the raw text after the last one.
Parts(text, pieces) ==
  LET norm == Normalize(text)
      map  == NormToRaw(text)
      s    == Splices(pieces)
      n    == Len(pieces)
      Cursor(k) == IF k = 0 THEN 0 ELSE To(s[k], map, text)
      Gap(k) == Slice(text, Cursor(k - 1), IF k > n THEN Len(text) ELSE From(s[k], map))
      New(k) == Conform(Trimmed(s[k], norm), Context(s[k], text))
  IN  [i \in 1 .. 2 * n + 1 |-> IF i % 2 = 1 THEN Gap((i + 1) \div 2) ELSE New(i \div 2)]

SpliceOntoRaw(text, pieces) ==
  IF pieces = <<>> THEN text ELSE FlattenSeq(Parts(text, pieces))

-----------------------------------------------------------------------------
(* executeFile from the applied edits on: it refuses, or writes the bytes. *)

Over == phase = "apply" /\ pending = {} /\ (pass = 1 => missing = {})

Refuse ==
  /\ Over
  /\ applied[1] = <<>> /\ applied[2] = <<>>
  /\ phase' = "refused"
  /\ UNCHANGED <<raw, sent, ask, pass, missing, pending, clashing, content, applied,
                 failed, mid, out>>

Write ==
  /\ Over
  /\ applied[1] # <<>> \/ applied[2] # <<>>
  /\ phase' = "written"
  /\ mid' = SpliceOntoRaw(raw, applied[1])
  /\ out' = SpliceOntoRaw(mid', applied[2])
  /\ content' = IF pass = 1 THEN [content EXCEPT ![2] = content[1]] ELSE content
  /\ UNCHANGED <<raw, sent, ask, pass, missing, pending, clashing, applied, failed>>

Init ==
  /\ raw \in Files
  /\ sent \in Asks(raw)
  /\ ask = sent
  /\ pass = 1
  /\ phase = "resolve"
  /\ missing = {} /\ pending = {} /\ clashing = {}
  /\ content = [k \in 1..2 |-> Normalize(raw)]
  /\ applied = [k \in 1..2 |-> <<>>]
  /\ failed = {}
  /\ mid = raw /\ out = raw

Next == ResolveFirst \/ ResolveAgain \/ ApplyPiece \/ SecondPass \/ Refuse \/ Write

Spec == Init /\ [][Next]_vars

-----------------------------------------------------------------------------
(* Properties. *)

\* What has a passing hit alone in the text.
Clear(text, old, hit) ==
  hit # NoMatch /\ ~Ambiguous(text, hit.actual) /\ ~Disproportionate(hit.actual, old)

\* The passes before the first one that scores.
Telling == 1 .. 6

NoWeaker(p) ==
  LET r == ask[p.block] IN
  r.old # <<>> /\ ~r.all =>
    \A hit \in FirstHits(Base, r.old, Telling) : Clear(Base, r.old, hit) => p.rank <= hit.rank

\* A weaker reading of oldText never displaces a stronger one: however its
\* anchor's window, a near miss of the anchor or a retry led to the place of a
\* block, the pass that found it comes no later in the chain than the first
\* telling pass that finds the block in the whole text, if that hit is alone
\* there (resolve.ts 414-442, 443-488).
StrongestWins ==
  phase = "apply" /\ applied[pass] = <<>> => \A p \in pending : NoWeaker(p)

\* Working from the end of the text keeps the offsets of the pieces to come:
\* a piece that overlaps no other one always finds its text, so that the
\* "internal invariant violated" of applyEdits is never reported.
NoInternalFailure == "invariant" \notin failed

\* NormToRaw cuts the raw text where the normalized one is cut: what lies
\* before an offset normalizes to what lies before it, and what lies after it
\* to what lies after it, whatever mix of CRLF, CR and LF the file holds.
CutsAlike(text) ==
  LET norm == Normalize(text)
      map  == NormToRaw(text)
  IN  \A k \in DOMAIN map :
        /\ Normalize(Slice(text, 0, map[k])) = Slice(norm, 0, k)
        /\ Normalize(Slice(text, map[k], Len(text))) = Slice(norm, k, Len(norm))

MapCutsAlike == CutsAlike(raw) /\ CutsAlike(mid)

Source(k) == IF k = 1 THEN raw ELSE mid
Result(k) == IF k = 1 THEN mid ELSE out

\* Two pieces of a pass that share text, or insert at the same place.
Entangled(k) ==
  \E i, j \in DOMAIN applied[k] :
    /\ i # j
    /\ \/ Overlap(applied[k][i], applied[k][j])
       \/ applied[k][i].start = applied[k][j].start

\* A CR and an LF of different parts meet and read as one break.
Meets(s, t) == s # <<>> /\ t # <<>> /\ s[Len(s)] = CR /\ t[1] = LF

Seamed(k) ==
  LET parts == Parts(Source(k), applied[k]) IN
  \E i, j \in DOMAIN parts :
    /\ i < j /\ Meets(parts[i], parts[j])
    /\ \A m \in i + 1 .. j - 1 : parts[m] = <<>>

TrimsOf(k) ==
  {i \in DOMAIN applied[k] : Trims(applied[k][i], Normalize(Source(k)))}

\* The two copies of the text agree.  The bytes that are written normalize to
\* the text the pass applied its pieces to, when the pass worked on the text
\* its pieces were resolved in and none of the known differences occurs: a
\* dropped trailing break (then that many breaks are missing), pieces that
\* share text, a CR and an LF that meet.
BytesMatchText ==
  phase = "written" =>
    \A k \in 1..2 :
      (/\ k = 2 => Normalize(mid) = content[1]
       /\ ~Entangled(k)
       /\ ~Seamed(k))
      => /\ Len(Normalize(Result(k))) = Len(content[k]) - Cardinality(TrimsOf(k))
         /\ TrimsOf(k) = {} => Normalize(Result(k)) = content[k]

\* The kinds of line break in a text, and the break that starts at i.
BreakAt(text, i) ==
  IF text[i] = LF THEN "LF" ELSE IF Slice(text, i, i + 1) = <<LF>> THEN "CRLF" ELSE "CR"

StartsBreak(text, i) ==
  \/ text[i] = CR
  \/ text[i] = LF /\ (i = 1 \/ text[i - 1] # CR)

Kinds(text) == {BreakAt(text, i) : i \in {j \in 1..Len(text) : StartsBreak(text, j)}}

PlainNewTexts == \A b \in Block : ~Holds(ask[b].new, CR)

SeesBreak(k, p) ==
  Holds(ask[p.block].new, LF) => Kinds(Context(p, Source(k))) = Kinds(raw)

\* A file whose line breaks are all of one kind keeps that kind through both
\* passes, for new texts with bare \n, as long as every piece that brings a
\* break of its own sees one of the file's in its span or right after it.
EndingsKept ==
  (/\ phase = "written"
   /\ Cardinality(Kinds(raw)) = 1
   /\ PlainNewTexts
   /\ \A k \in 1..2 : \A i \in DOMAIN applied[k] : SeesBreak(k, applied[k][i]))
  => Kinds(out) \subseteq Kinds(raw)

\* A file whose line breaks are all \r\n never gets a bare \r from a new text
\* with bare \n (raw-splice.ts 75-78 and 110-114).
NoLoneCR ==
  (phase = "written" /\ Kinds(raw) = {"CRLF"} /\ PlainNewTexts) => "CR" \notin Kinds(out)

\* Every splice of the second pass replaces the text its block was matched
\* with (README.md 97, and execute.ts 815-816).
SecondPassHitsItsText ==
  phase = "written" =>
    \A i \in DOMAIN applied[2] :
      LET p == applied[2][i] IN
      Slice(Normalize(mid), p.start, p.end) = Slice(content[1], p.start, p.end)
=============================================================================
