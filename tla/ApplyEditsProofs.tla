-------------------------- MODULE ApplyEditsProofs ---------------------------
(***************************************************************************)
(* For any file, blocks and thresholds: each piece of a pass finds the text it*)
(* was resolved to unless it overlaps another one, no block is placed by a *)
(* weaker pass than it could be, the map of raw offsets cuts where the     *)
(* normalized text is cut, and the bytes that are written agree with the text*)
(* that is answered and keep its kind of line breaks.                      *)
(***************************************************************************)
EXTENDS TextProofs

-----------------------------------------------------------------------------
(* The pieces of a pass.                                                     *)

TypesInv ==
  /\ IsText(raw)
  /\ pass \in 1 .. 2
  /\ missing \subseteq Block
  /\ \A b \in Block : IsBlock(sent[b]) /\ IsBlock(ask[b])
  /\ content = [k \in 1 .. 2 |-> content[k]]
  /\ \A k \in 1 .. 2 : IsText(content[k])

\* A piece that is still to come starts in the text, and one that overlaps no
\* other one finds there what it was resolved to.
Waiting(p) ==
  /\ p \in Piece
  /\ p.start <= p.end
  /\ p.end <= Len(Base)
  /\ p.start <= Len(content[pass])
  /\ p \notin clashing =>
       /\ Slice(content[pass], p.start, p.end) = Actual(p)
       /\ \A q \in pending \ {p} : ~Overlap(p, q)

PlacesInv ==
  /\ phase = "resolve" => pending = {} /\ content[pass] = Base
  /\ \A p \in pending : Waiting(p)

IInv == TypesInv /\ PlacesInv /\ NoInternalFailure

LEMMA BaseIs ==
  ASSUME TypesInv
  PROVE  IsText(Base)
BY NormalizeIs DEF TypesInv, Base

LEMMA InitHolds ==
  ASSUME Init
  PROVE  IInv
<1>1. IsText(raw) /\ \A b \in Block : IsBlock(sent[b]) /\ IsBlock(ask[b])
  BY EditsAssumption DEF Init, IsBlock
<1>2. content = [k \in 1 .. 2 |-> Normalize(raw)] /\ pass = 1 /\ IsText(Normalize(raw))
  BY <1>1, NormalizeIs DEF Init
<1>3. content = [k \in 1 .. 2 |-> content[k]] /\ \A k \in 1 .. 2 : IsText(content[k])
  BY <1>2
<1>4. TypesInv
  BY <1>1, <1>2, <1>3 DEF Init, TypesInv
<1>5. PlacesInv
  BY <1>2 DEF Init, PlacesInv, Base
<1> QED
  BY <1>4, <1>5 DEF Init, IInv, NoInternalFailure

\* Resolving leaves pieces whose spans the text has.
LEMMA ResolveHolds ==
  ASSUME IInv, NEW blocks, NEW todo, todo \subseteq Block,
         \A b \in todo : IsBlock(blocks[b]),
         phase = "resolve", Resolve(blocks, todo),
         UNCHANGED <<raw, sent, pass, content, failed>>,
         \A b \in Block : IsBlock(ask'[b])
  PROVE  IInv'
<1>1. IsText(Base) /\ content[pass] = Base /\ Base' = Base
  BY BaseIs DEF IInv, PlacesInv, Base
<1>2. PICK may \in {[b \in todo |-> Outcomes(Base, blocks[b])]} :
      \E o \in [todo -> UNION {may[b] : b \in todo}] :
        LET Pieces(b) == {[block |-> b, start |-> s[1], end |-> s[2], rank |-> o[b].rank] :
                            s \in o[b].spans}
            pieces == UNION {Pieces(b) : b \in todo}
        IN
        /\ \A b \in todo : o[b] \in may[b]
        /\ pending' = pieces
        /\ clashing' = {p \in pieces : \E q \in pieces \ {p} : Overlap(p, q)}
        /\ missing' = IF \E b \in todo : o[b].again
                      THEN {b \in todo : o[b].status = "missing"} ELSE {}
        /\ phase' = IF pass = 1 /\ pieces = {} THEN "refused" ELSE "apply"
  BY DEF Resolve
<1>3. PICK o :
        /\ \A b \in todo : o[b] \in Outcomes(Base, blocks[b])
        /\ pending' = UNION {{[block |-> b, start |-> s[1], end |-> s[2], rank |-> o[b].rank] :
                                s \in o[b].spans} : b \in todo}
        /\ clashing' = {p \in pending' : \E q \in pending' \ {p} : Overlap(p, q)}
        /\ missing' \subseteq todo
        /\ phase' # "resolve"
  BY <1>2
<1>4. \A b \in todo : Sound(Base, o[b])
  BY <1>1, <1>3, OutcomesSound
<1>5. ASSUME NEW p \in pending'
      PROVE  p \in Piece /\ p.start <= p.end /\ p.end <= Len(Base) /\ p.start <= Len(Base)
  <2>1. PICK b \in todo : \E s \in o[b].spans :
          p = [block |-> b, start |-> s[1], end |-> s[2], rank |-> o[b].rank]
    BY <1>3, <1>5
  <2>2. PICK s \in o[b].spans :
          p = [block |-> b, start |-> s[1], end |-> s[2], rank |-> o[b].rank]
    BY <2>1
  <2>3. s \in Nat \X Nat /\ s[1] <= s[2] /\ s[2] <= Len(Base) /\ o[b].rank \in Nat
    BY <1>4 DEF Sound, Spans
  <2>4. s[1] \in Nat /\ s[2] \in Nat /\ b \in Block
    BY <2>3
  <2> QED
    BY <2>2, <2>3, <2>4 DEF Piece
<1>6. ASSUME NEW p \in pending' PROVE Waiting(p)'
  <2>1. Actual(p)' = Slice(Base, p.start, p.end) /\ content'[pass'] = Base
    BY <1>1 DEF Actual
  <2>2. p \notin clashing' => \A q \in pending' \ {p} : ~Overlap(p, q)
    BY <1>3, <1>6
  <2>3. p.end <= Len(Base)'
    BY <1>1, <1>5
  <2> QED
    BY <1>5, <2>1, <2>2, <2>3 DEF Waiting, Overlap
<1>7. TypesInv'
  BY <1>3 DEF IInv, TypesInv
<1>8. PlacesInv'
  BY <1>3, <1>6 DEF PlacesInv
<1> QED
  BY <1>7, <1>8 DEF IInv, NoInternalFailure

LEMMA ResolveFirstHolds ==
  ASSUME IInv, ResolveFirst
  PROVE  IInv'
<1>1. IsText(Base) /\ \A b \in Block : IsBlock(sent[b])
  BY BaseIs DEF IInv, TypesInv
<1>2. ask' = [b \in Block |-> Autopatch(Base, sent[b])]
  BY DEF ResolveFirst
<1>3. \A b \in Block : IsBlock(ask'[b])
  BY <1>1, <1>2, AutopatchBlock
<1> QED
  BY <1>3, ResolveHolds DEF ResolveFirst

LEMMA ResolveAgainHolds ==
  ASSUME IInv, ResolveAgain
  PROVE  IInv'
<1>1. missing \subseteq Block /\ \A b \in Block : IsBlock(ask[b])
  BY DEF IInv, TypesInv
<1>2. \A b \in Block : IsBlock(ask'[b])
  BY <1>1 DEF ResolveAgain
<1> QED
  BY <1>1, <1>2, ResolveHolds DEF ResolveAgain

\* The pieces that are left end before the one that was next, unless they
\* overlap it.
LEMMA LeftEndsBefore ==
  ASSUME NEW p \in Piece, p.start <= p.end, NEW q \in Piece, q.start <= q.end,
         q.start < p.start \/ (q.start = p.start /\ q.end <= p.end),
         ~Overlap(q, p)
  PROVE  q.end <= p.start
BY DEF Overlap, Piece

\* Pieces are applied to a copy of the text they were resolved in.
LEMMA BaseKept ==
  ASSUME IInv, NEW p, NoOp(p) \/ Gone(p) \/ Replace(p), UNCHANGED <<raw, pass>>
  PROVE  Base' = Base
<1>1. pass \in 1 .. 2 /\ content = [k \in 1 .. 2 |-> content[k]]
  BY DEF IInv, TypesInv
<1>2. content' = content \/ \E u : content' = [content EXCEPT ![pass] = u]
  BY DEF NoOp, Gone, Drop, Replace
<1>3. pass = 2 => content'[1] = content[1]
  BY <1>1, <1>2
<1> QED
  BY <1>1, <1>3 DEF Base

LEMMA ReplaceHolds ==
  ASSUME IInv, phase = "apply", NEW p \in pending, IsNext(p), Replace(p),
         pending' = pending \ {p},
         UNCHANGED <<raw, sent, ask, pass, phase, missing, clashing>>
  PROVE  IInv'
<1> DEFINE old == content[pass]
           new == content'[pass]
<1>1. pass \in 1 .. 2 /\ content = [k \in 1 .. 2 |-> content[k]] /\ IsText(old)
  BY DEF IInv, TypesInv
<1>2. p \in Piece /\ p.start \in Nat /\ p.end \in Nat /\ p.start <= p.end /\ p.start <= Len(old)
  BY DEF IInv, PlacesInv, Waiting, Piece
<1>3. IsText(Replacement(p))
  <2>1. IsText(ask[p.block].new)
    BY <1>2 DEF IInv, TypesInv, IsBlock, Piece
  <2> QED
    BY <2>1, NormalizeIs DEF Replacement
<1>4. /\ content' = [k \in 1 .. 2 |-> content'[k]]
      /\ new = Slice(old, 0, p.start) \o Replacement(p) \o Slice(old, p.end, Len(old))
      /\ \A k \in (1 .. 2) \ {pass} : content'[k] = content[k]
  BY <1>1 DEF Replace
<1>6. Base' = Base
  BY BaseKept
<1> HIDE DEF old, new
<1>5. IsText(new) /\ p.start <= Len(new) /\ \A i \in 1 .. p.start : new[i] = old[i]
  <2> DEFINE u == Slice(old, 0, p.start) \o Replacement(p) \o Slice(old, p.end, Len(old))
             from == p.start
             to == p.end
             text == Replacement(p)
  <2>1. from \in Nat /\ to \in Nat /\ from <= Len(old) /\ IsText(text) /\ IsText(old)
    BY <1>1, <1>2, <1>3
  <2> HIDE DEF from, to, text
  <2>2. LET v == Slice(old, 0, from) \o text \o Slice(old, to, Len(old)) IN
        IsText(v) /\ from <= Len(v) /\ \A i \in 1 .. from : v[i] = old[i]
    BY <2>1, ReplacingKeeps
  <2>3. new = Slice(old, 0, from) \o text \o Slice(old, to, Len(old))
    BY <1>4 DEF from, to, text
  <2> QED
    BY <2>2, <2>3 DEF from
<1>7. TypesInv'
  BY <1>1, <1>4, <1>5 DEF IInv, TypesInv, new
<1>8. ASSUME NEW q \in pending' PROVE Waiting(q)'
  <2>1. /\ q \in pending /\ q # p
        /\ q \in Piece /\ q.start \in Nat /\ q.end \in Nat /\ q.start <= q.end
        /\ q.start <= p.start
    BY <1>2 DEF IInv, PlacesInv, Waiting, Piece, IsNext
  <2>2. q.start <= Len(new)
    BY <1>2, <1>5, <2>1 DEF IsText
  <2>5. q.end <= Len(Base)'
    BY <1>6, <2>1 DEF IInv, PlacesInv, Waiting
  <2>3. CASE q \in clashing
    BY <2>1, <2>2, <2>3, <2>5 DEF Waiting, new
  <2>4. CASE q \notin clashing
    <3>1. /\ Slice(old, q.start, q.end) = Actual(q)
          /\ \A r \in pending \ {q} : ~Overlap(q, r)
      BY <2>1, <2>4 DEF IInv, PlacesInv, Waiting, old
    <3>2. q.end <= p.start
      BY <1>2, <2>1, <3>1, LeftEndsBefore DEF IsNext
    <3>3. Slice(new, q.start, q.end) = Slice(old, q.start, q.end)
      BY <1>1, <1>2, <1>5, <2>1, <3>2, KeptSlice
    <3>4. Actual(q)' = Actual(q)
      BY <1>6 DEF Actual
    <3> QED
      BY <2>1, <2>2, <2>5, <3>1, <3>3, <3>4 DEF Waiting, new, Overlap
  <2> QED
    BY <2>3, <2>4
<1>9. PlacesInv'
  BY <1>8 DEF PlacesInv
<1> QED
  BY <1>7, <1>9 DEF IInv, NoInternalFailure, Replace

\* A piece that is dropped leaves the text, and no piece that overlaps no
\* other one is gone.
LEMMA DropHolds ==
  ASSUME IInv, phase = "apply", NEW p \in pending, NoOp(p) \/ Gone(p),
         pending' = pending \ {p},
         UNCHANGED <<raw, sent, ask, pass, phase, missing, clashing>>
  PROVE  IInv'
<1>1. content' = content /\ Base' = Base
  BY DEF NoOp, Gone, Drop, Base
<1>2. TypesInv'
  BY <1>1 DEF IInv, TypesInv
<1>3. ASSUME NEW q \in pending' PROVE Waiting(q)'
  <2>1. Waiting(q) /\ q \in pending
    BY DEF IInv, PlacesInv
  <2> QED
    BY <1>1, <2>1 DEF Waiting, Actual, Overlap
<1>4. NoInternalFailure'
  <2>1. CASE NoOp(p)
    BY <2>1 DEF NoOp, Drop, IInv, NoInternalFailure
  <2>2. CASE Gone(p)
    <3>1. p \in clashing
      BY <2>2 DEF Gone, IInv, PlacesInv, Waiting
    <3> QED
      BY <2>2, <3>1 DEF Gone, Drop, IInv, NoInternalFailure
  <2> QED
    BY <2>1, <2>2
<1> QED
  BY <1>2, <1>3, <1>4 DEF IInv, PlacesInv

LEMMA SecondPassHolds ==
  ASSUME IInv, SecondPass
  PROVE  IInv'
<1>1. /\ pass' = 2 /\ content = [k \in 1 .. 2 |-> content[k]]
      /\ content' = [content EXCEPT ![2] = content[1]] /\ IsText(content[1])
  BY DEF IInv, TypesInv, SecondPass
<1>5. content' = [k \in 1 .. 2 |-> content[1]]
  <2>1. content' = [k \in DOMAIN content |-> IF k = 2 THEN content[1] ELSE content[k]]
    BY <1>1
  <2>2. DOMAIN content = 1 .. 2
    BY <1>1
  <2> QED
    BY <2>1, <2>2
<1>2. content' = [k \in 1 .. 2 |-> content'[k]] /\ content'[1] = content[1] /\ content'[2] = content[1]
  BY <1>5
<1>3. TypesInv'
  BY <1>1, <1>2 DEF IInv, TypesInv, SecondPass
<1>4. PlacesInv'
  BY <1>1, <1>2 DEF PlacesInv, SecondPass, Base
<1> QED
  BY <1>3, <1>4 DEF IInv, NoInternalFailure, SecondPass

LEMMA RefuseHolds ==
  ASSUME IInv, Refuse
  PROVE  IInv'
<1>1. pending' = {} /\ phase' = "refused" /\ UNCHANGED <<raw, sent, ask, pass, missing, content, failed>>
  BY DEF Refuse, Over
<1> QED
  BY <1>1 DEF IInv, TypesInv, PlacesInv, NoInternalFailure

LEMMA WriteHolds ==
  ASSUME IInv, Write
  PROVE  IInv'
<1>1. pending' = {} /\ phase' = "written" /\ UNCHANGED <<raw, sent, ask, pass, missing, failed>>
  BY DEF Write, Over
<1>2. content = [k \in 1 .. 2 |-> content[k]] /\ IsText(content[1]) /\ IsText(content[2])
  BY DEF IInv, TypesInv
<1>3. content' = [content EXCEPT ![2] = content[1]] \/ content' = content
  BY DEF Write
<1>4. content' = [k \in 1 .. 2 |-> content'[k]] /\ \A k \in 1 .. 2 : IsText(content'[k])
  BY <1>2, <1>3
<1>5. TypesInv'
  BY <1>1, <1>4 DEF IInv, TypesInv
<1> QED
  BY <1>1, <1>5 DEF IInv, PlacesInv, NoInternalFailure

\* Every step keeps the invariant.
LEMMA StepHolds ==
  ASSUME IInv, [Next]_vars
  PROVE  IInv'
<1>1. CASE ResolveFirst
  BY <1>1, ResolveFirstHolds
<1>2. CASE ResolveAgain
  BY <1>2, ResolveAgainHolds
<1>3. CASE ApplyPiece
  BY <1>3, DropHolds, ReplaceHolds DEF ApplyPiece
<1>4. CASE SecondPass
  BY <1>4, SecondPassHolds
<1>5. CASE Refuse
  BY <1>5, RefuseHolds
<1>6. CASE Write
  BY <1>6, WriteHolds
<1>7. CASE UNCHANGED vars
  <2>1. Base' = Base
    BY <1>7 DEF vars, Base
  <2> QED
    BY <1>7, <2>1 DEF vars, IInv, TypesInv, PlacesInv, Waiting, NoInternalFailure, Actual, Overlap
<1> QED
  BY <1>1, <1>2, <1>3, <1>4, <1>5, <1>6, <1>7 DEF Next

\* applyEdits never reports "internal invariant violated": working from the end
\* of the text (apply.ts), whatever file, blocks and thresholds, each piece that
\* overlaps no other one finds the text it was resolved to, in both passes.
THEOREM OffsetsHold == Spec => []NoInternalFailure
<1>1. Init => IInv
  BY InitHolds
<1>2. IInv /\ [Next]_vars => IInv'
  BY StepHolds
<1>3. IInv => NoInternalFailure
  BY DEF IInv
<1> QED
  BY <1>1, <1>2, <1>3, PTL DEF Spec

-----------------------------------------------------------------------------
(* No piece waits at a place that a stronger pass would not have given it.   *)

RankInv == \A p \in pending : NoWeaker(p)

LEMMA ResolveRanks ==
  ASSUME IInv, NEW todo, todo \subseteq Block, \A b \in todo : IsBlock(ask'[b]),
         Resolve(ask', todo), UNCHANGED <<raw, pass, content>>
  PROVE  RankInv'
<1>1. IsText(Base) /\ Base' = Base
  BY BaseIs DEF IInv, Base
<1> DEFINE blocks == ask'
<1>2. PICK may \in {[b \in todo |-> Outcomes(Base, blocks[b])]} :
      \E o \in [todo -> UNION {may[b] : b \in todo}] :
        LET Pieces(b) == {[block |-> b, start |-> s[1], end |-> s[2], rank |-> o[b].rank] :
                            s \in o[b].spans}
            pieces == UNION {Pieces(b) : b \in todo}
        IN
        /\ \A b \in todo : o[b] \in may[b]
        /\ pending' = pieces
        /\ clashing' = {p \in pieces : \E q \in pieces \ {p} : Overlap(p, q)}
        /\ missing' = IF \E b \in todo : o[b].again
                      THEN {b \in todo : o[b].status = "missing"} ELSE {}
        /\ phase' = IF pass = 1 /\ pieces = {} THEN "refused" ELSE "apply"
  BY DEF Resolve
<1>3. PICK o :
        /\ \A b \in todo : o[b] \in Outcomes(Base, blocks[b])
        /\ pending' = UNION {{[block |-> b, start |-> s[1], end |-> s[2], rank |-> o[b].rank] :
                                s \in o[b].spans} : b \in todo}
  BY <1>2
<1>4. ASSUME NEW p \in pending' PROVE NoWeaker(p)'
  <2>1. PICK b \in todo : \E s \in o[b].spans :
          p = [block |-> b, start |-> s[1], end |-> s[2], rank |-> o[b].rank]
    BY <1>3, <1>4
  <2>2. p.block = b /\ p.rank = o[b].rank /\ o[b].spans # {}
    BY <2>1
  <2> DEFINE r == ask'[b]
  <2>3. IsBlock(r) /\ o[b] \in Outcomes(Base, r)
    BY <1>3
  <2> HIDE DEF r
  <2>4. ASSUME r.old # <<>>, ~r.all, NEW hit \in FirstHits(Base, r.old, Telling),
               Clear(Base, r.old, hit)
        PROVE  p.rank <= hit.rank
    BY <1>1, <2>2, <2>3, <2>4, OutcomesNotAfter DEF Beacon, NotAfter
  <2> QED
    BY <1>1, <2>2, <2>4 DEF NoWeaker, r
<1> QED
  BY <1>4 DEF RankInv

LEMMA StepRanks ==
  ASSUME IInv, RankInv, [Next]_vars
  PROVE  RankInv'
<1>1. CASE ResolveFirst
  <2>1. ask' = [b \in Block |-> Autopatch(Base, sent[b])]
    BY <1>1 DEF ResolveFirst
  <2>2. \A b \in Block : IsBlock(ask'[b])
    BY <2>1, BaseIs, AutopatchBlock DEF IInv, TypesInv
  <2> QED
    BY <1>1, <2>2, ResolveRanks DEF ResolveFirst
<1>2. CASE ResolveAgain
  <2>1. ask' = ask /\ missing \subseteq Block /\ \A b \in Block : IsBlock(ask[b])
    BY <1>2 DEF ResolveAgain, IInv, TypesInv
  <2> QED
    BY <1>2, <2>1, ResolveRanks DEF ResolveAgain
<1>3. CASE ApplyPiece
  <2>1. PICK p \in pending : (NoOp(p) \/ Gone(p) \/ Replace(p)) /\ pending' = pending \ {p}
    BY <1>3 DEF ApplyPiece
  <2>2. Base' = Base /\ ask' = ask
    BY <1>3, <2>1, BaseKept DEF ApplyPiece
  <2> QED
    BY <2>1, <2>2 DEF RankInv, NoWeaker
<1>4. CASE SecondPass \/ Refuse \/ Write
  BY <1>4 DEF SecondPass, Refuse, Write, Over, RankInv
<1>5. CASE UNCHANGED vars
  <2>1. Base' = Base /\ ask' = ask /\ pending' = pending
    BY <1>5 DEF vars, Base
  <2> QED
    BY <2>1 DEF RankInv, NoWeaker
<1> QED
  BY <1>1, <1>2, <1>3, <1>4, <1>5 DEF Next

\* resolveBlocks never lets a weaker reading of oldText displace a stronger one:
\* whatever the anchor, its near misses, the window and the retries lead to, and
\* whatever the passes that score accept, no block is placed by a pass that comes
\* after the first telling one that finds it alone in the whole text.
THEOREM StrongestPlaces == Spec => []StrongestWins
<1>1. Init => IInv /\ RankInv
  BY InitHolds DEF Init, RankInv
<1>2. IInv /\ RankInv /\ [Next]_vars => (IInv /\ RankInv)'
  BY StepHolds, StepRanks
<1>3. RankInv => StrongestWins
  BY DEF RankInv, StrongestWins
<1> QED
  BY <1>1, <1>2, <1>3, PTL DEF Spec

-----------------------------------------------------------------------------
(* The pieces a pass has applied, and the text they leave.                   *)

BaseOf(k) == IF k = 1 THEN Normalize(raw) ELSE content[1]

Precedes(q, p) == q.start < p.start \/ (q.start = p.start /\ q.end <= p.end)

\* Pieces of a text in the order in which they are applied.
Turned(b, a) ==
  /\ IsText(a)
  /\ \A i \in 1 .. Len(a) : a[i] \in Piece /\ a[i].start <= a[i].end /\ a[i].end <= Len(b)
  /\ \A i, j \in 1 .. Len(a) : i < j => Precedes(a[j], a[i])

OrderInv ==
  /\ applied = [k \in 1 .. 2 |-> applied[k]]
  /\ \A k \in 1 .. 2 : Turned(BaseOf(k), applied[k])
  /\ \A i \in 1 .. Len(applied[pass]) : \A p \in pending : Precedes(p, applied[pass][i])
  /\ pass = 1 => applied[2] = <<>>
  /\ phase = "resolve" => applied[pass] = <<>>

\* Pieces that share no text leave their new texts in place of their spans.
CopyInv ==
  \A k \in 1 .. 2 :
    (k <= pass \/ phase = "written") /\ ~Entangled(k) =>
      IF applied[k] = <<>> THEN content[k] = BaseOf(k)
      ELSE Leaves(BaseOf(k), applied[k], content[k])

WriteInv ==
  /\ IsText(mid)
  /\ IF phase = "written"
     THEN mid = SpliceOntoRaw(raw, applied[1]) /\ out = SpliceOntoRaw(mid, applied[2])
     ELSE mid = raw /\ out = raw

FullInv == IInv /\ OrderInv /\ CopyInv /\ WriteInv

LEMMA NothingTurned ==
  ASSUME NEW b
  PROVE  Turned(b, <<>>)
<1>1. Len(<<>>) = 0 /\ <<>> = [i \in 1 .. 0 |-> <<>>[i]]
  OBVIOUS
<1> QED
  BY <1>1 DEF Turned, IsText

\* One more piece.
LEMMA TurnedOneMore ==
  ASSUME NEW b, NEW a, Turned(b, a), NEW p \in Piece, p.start <= p.end, p.end <= Len(b),
         \A i \in 1 .. Len(a) : Precedes(p, a[i])
  PROVE  Turned(b, Append(a, p))
<1> DEFINE n == Len(a)
           d == Append(a, p)
<1>1. /\ n \in Nat /\ IsText(d) /\ Len(d) = n + 1 /\ d[n + 1] = p
      /\ \A i \in 1 .. n : d[i] = a[i]
  BY AppendIs DEF Turned
<1> HIDE DEF d
<1>2. \A i \in 1 .. Len(d) : i \in 1 .. n \/ i = n + 1
  BY <1>1
<1>3. \A i \in 1 .. Len(d) : d[i] \in Piece /\ d[i].start <= d[i].end /\ d[i].end <= Len(b)
  BY <1>1, <1>2 DEF Turned
<1>4. ASSUME NEW i \in 1 .. Len(d), NEW j \in 1 .. Len(d), i < j PROVE Precedes(d[j], d[i])
  <2>1. i \in 1 .. n
    BY <1>1, <1>4
  <2>2. CASE j = n + 1
    BY <1>1, <2>1, <2>2
  <2>3. CASE j \in 1 .. n
    BY <1>1, <1>4, <2>1, <2>3 DEF Turned
  <2> QED
    BY <1>2, <2>2, <2>3
<1> QED
  BY <1>1, <1>3, <1>4 DEF Turned, d

Tangled(a) ==
  \E i, j \in DOMAIN a : i # j /\ (Overlap(a[i], a[j]) \/ a[i].start = a[j].start)

LEMMA TurnedStacks ==
  ASSUME NEW b, NEW a, Turned(b, a), ~Tangled(a)
  PROVE  Stacked(b, a)
<1>1. DOMAIN a = 1 .. Len(a) /\ Len(a) \in Nat
  <2>1. a = [i \in 1 .. Len(a) |-> a[i]]
    BY DEF Turned, IsText
  <2> QED
    BY <2>1 DEF Turned, IsText
<1>2. ASSUME NEW i \in 1 .. Len(a), NEW j \in 1 .. Len(a), i < j
      PROVE  a[j].end <= a[i].start /\ a[j].start < a[i].start
  <2>1. i # j /\ ~Overlap(a[i], a[j]) /\ a[i].start # a[j].start
    BY <1>1, <1>2 DEF Tangled
  <2>2. Precedes(a[j], a[i])
    BY <1>2 DEF Turned
  <2>3. /\ a[i].start \in Nat /\ a[i].end \in Nat /\ a[j].start \in Nat /\ a[j].end \in Nat
        /\ a[i].start <= a[i].end /\ a[j].start <= a[j].end
    BY DEF Turned, Piece
  <2> QED
    BY <2>1, <2>2, <2>3 DEF Precedes, Overlap
<1> QED
  BY <1>2 DEF Turned, Stacked

LEMMA EntangledIs ==
  ASSUME NEW k
  PROVE  Entangled(k) <=> Tangled(applied[k])
BY DEF Entangled, Tangled

\* Pieces share no more text when one of them is left out.
LEMMA StillApart ==
  ASSUME NEW b, NEW a, Turned(b, a), NEW p, ~Tangled(Append(a, p))
  PROVE  ~Tangled(a)
<1> DEFINE n == Len(a)
           d == Append(a, p)
<1>1. /\ n \in Nat /\ IsText(d) /\ Len(d) = n + 1
      /\ \A i \in 1 .. n : d[i] = a[i]
  BY AppendIs DEF Turned
<1>2. DOMAIN a = 1 .. n
  <2>1. a = [i \in 1 .. Len(a) |-> a[i]]
    BY DEF Turned, IsText
  <2> QED
    BY <2>1
<1> HIDE DEF d, n
<1>3. DOMAIN d = 1 .. n + 1
  <2>1. d = [i \in 1 .. n + 1 |-> d[i]]
    BY <1>1 DEF IsText
  <2> QED
    BY <2>1
<1>4. \A i \in DOMAIN a : i \in DOMAIN d /\ d[i] = a[i]
  BY <1>1, <1>2, <1>3
<1> QED
  BY <1>4 DEF Tangled, d

LEMMA BaseOfPass ==
  ASSUME IInv
  PROVE  Base = BaseOf(pass)
BY DEF IInv, TypesInv, Base, BaseOf

LEMMA BasesAreTexts ==
  ASSUME IInv, NEW k \in 1 .. 2
  PROVE  IsText(BaseOf(k))
BY NormalizeIs DEF IInv, TypesInv, BaseOf

LEMMA InitFull ==
  ASSUME Init
  PROVE  FullInv
<1>1. IInv
  BY InitHolds
<1>2. applied = [k \in 1 .. 2 |-> <<>>] /\ pending = {} /\ pass = 1 /\ content[1] = Normalize(raw)
  BY DEF Init
<1>3. applied = [k \in 1 .. 2 |-> applied[k]] /\ \A k \in 1 .. 2 : applied[k] = <<>>
  BY <1>2
<1>4. OrderInv
  BY <1>2, <1>3, NothingTurned DEF OrderInv
<1>5. CopyInv
  BY <1>2, <1>3 DEF CopyInv, BaseOf, Init
<1>6. WriteInv
  BY <1>1 DEF Init, WriteInv, IInv, TypesInv
<1> QED
  BY <1>1, <1>4, <1>5, <1>6 DEF FullInv

\* The blocks may change as long as none is applied.
LEMMA ResolveFull ==
  ASSUME FullInv, IInv', phase = "resolve", phase' # "resolve", phase' # "written",
         pass = 1 \/ ask' = ask,
         UNCHANGED <<raw, pass, content, applied, mid, out>>
  PROVE  FullInv'
<1>1. \A k : BaseOf(k)' = BaseOf(k)
  BY DEF BaseOf
<1>2. applied[pass] = <<>> /\ (pass = 1 => applied[2] = <<>>) /\ pass \in 1 .. 2
  BY DEF FullInv, OrderInv, IInv, TypesInv
<1>3. OrderInv'
  <2>1. Len(applied'[pass']) = 0
    BY <1>2
  <2>2. \A k \in 1 .. 2 : Turned(BaseOf(k)', applied'[k])
    BY <1>1 DEF FullInv, OrderInv
  <2> QED
    BY <1>2, <2>1, <2>2 DEF OrderInv, FullInv
<1>4. CopyInv'
  <2>1. ASSUME NEW k \in 1 .. 2, k <= pass, ~Entangled(k)'
        PROVE  IF applied'[k] = <<>> THEN content'[k] = BaseOf(k)'
               ELSE Leaves(BaseOf(k), applied[k], content[k])'
    <3>1. ~Entangled(k)
      BY <2>1 DEF Entangled
    <3>2. IF applied[k] = <<>> THEN content[k] = BaseOf(k)
          ELSE Leaves(BaseOf(k), applied[k], content[k])
      BY <2>1, <3>1 DEF FullInv, CopyInv
    <3>3. CASE applied[k] = <<>>
      BY <1>1, <3>2, <3>3
    <3>4. CASE applied[k] # <<>>
      <4>1. ask' = ask
        BY <1>2, <2>1, <3>4
      <4>2. Leaves(BaseOf(k), applied[k], content[k])'
        BY <1>1, <3>2, <3>4, <4>1 DEF Leaves, Tails, Replacement
      <4> QED
        BY <3>4, <4>2
    <3> QED
      BY <3>3, <3>4
  <2> QED
    BY <2>1 DEF CopyInv
<1>5. WriteInv'
  BY DEF FullInv, WriteInv
<1> QED
  BY <1>3, <1>4, <1>5 DEF FullInv

\* A step that leaves the pieces applied and their texts as they are.
LEMMA SameFull ==
  ASSUME FullInv, IInv', pending' \subseteq pending, phase' # "resolve",
         phase' = "written" <=> phase = "written",
         UNCHANGED <<raw, ask, pass, content, applied, mid, out>>
  PROVE  FullInv'
<1>1. \A k : BaseOf(k)' = BaseOf(k)
  BY DEF BaseOf
<1>2. OrderInv'
  BY <1>1 DEF FullInv, OrderInv
<1>3. CopyInv'
  <2>1. ASSUME NEW k \in 1 .. 2, k <= pass \/ phase = "written", ~Entangled(k)'
        PROVE  IF applied'[k] = <<>> THEN content'[k] = BaseOf(k)'
               ELSE Leaves(BaseOf(k), applied[k], content[k])'
    <3>1. ~Entangled(k)
      BY <2>1 DEF Entangled
    <3>2. IF applied[k] = <<>> THEN content[k] = BaseOf(k)
          ELSE Leaves(BaseOf(k), applied[k], content[k])
      BY <2>1, <3>1 DEF FullInv, CopyInv
    <3>3. Leaves(BaseOf(k), applied[k], content[k])' <=> Leaves(BaseOf(k), applied[k], content[k])
      BY <1>1 DEF Leaves, Tails, Replacement
    <3> QED
      BY <1>1, <3>2, <3>3
  <2> QED
    BY <2>1 DEF CopyInv
<1>4. WriteInv'
  BY DEF FullInv, WriteInv, SpliceOntoRaw, Parts, Trimmed, Trims
<1> QED
  BY <1>2, <1>3, <1>4 DEF FullInv

LEMMA ReplaceFull ==
  ASSUME FullInv, IInv', phase = "apply", NEW p \in pending, IsNext(p), Replace(p),
         pending' = pending \ {p},
         UNCHANGED <<raw, sent, ask, pass, phase, missing, clashing, mid, out>>
  PROVE  FullInv'
<1> DEFINE a == applied[pass]
           old == content[pass]
           new == Slice(old, 0, p.start) \o Replacement(p) \o Slice(old, p.end, Len(old))
<1>1. /\ pass \in 1 .. 2 /\ content = [k \in 1 .. 2 |-> content[k]]
      /\ applied = [k \in 1 .. 2 |-> applied[k]]
      /\ pass = 1 => applied[2] = <<>>
  BY DEF FullInv, OrderInv, IInv, TypesInv
<1>2. Base' = Base /\ Base = BaseOf(pass) /\ IsText(Base)
  BY BaseKept, BaseOfPass, BaseIs DEF FullInv, IInv
<1>3. /\ applied'[pass] = Append(a, p) /\ content'[pass] = new
      /\ \A k \in (1 .. 2) \ {pass} : applied'[k] = applied[k] /\ content'[k] = content[k]
      /\ applied' = [k \in 1 .. 2 |-> applied'[k]]
  BY <1>1 DEF Replace
<1>4. p \in Piece /\ p.start \in Nat /\ p.end \in Nat /\ p.start <= p.end /\ p.end <= Len(Base)
  BY DEF FullInv, IInv, PlacesInv, Waiting, Piece
<1>5. Turned(Base, a) /\ \A i \in 1 .. Len(a) : Precedes(p, a[i])
  BY <1>1, <1>2 DEF FullInv, OrderInv
<1>6. Turned(Base, Append(a, p))
  BY <1>4, <1>5, TurnedOneMore
<1>7. /\ BaseOf(pass)' = Base /\ (pass = 2 => BaseOf(1)' = BaseOf(1))
      /\ \A k \in 1 .. 2 : /\ k = pass => BaseOf(k)' = Base
                          /\ k # pass /\ pass = 2 => BaseOf(k)' = BaseOf(k)
  BY <1>1, <1>2 DEF BaseOf, Base
<1>8. OrderInv'
  <2>1. ASSUME NEW k \in 1 .. 2 PROVE Turned(BaseOf(k)', applied'[k])
    <3>1. CASE k = pass
      <4>1. applied'[k] = Append(a, p) /\ BaseOf(k)' = Base
        BY <1>3, <1>7, <3>1
      <4> HIDE DEF a
      <4> QED
        BY <1>6, <4>1
    <3>2. CASE k # pass /\ pass = 1
      <4>1. k = 2 /\ applied'[k] = applied[k]
        <5>1. k = 2 /\ k \in (1 .. 2) \ {pass}
          BY <3>2
        <5> HIDE DEF a
        <5> QED
          BY <1>3, <5>1
      <4> QED
        BY <1>1, <3>2, <4>1, NothingTurned
    <3>3. CASE k # pass /\ pass = 2
      <4>1. applied'[k] = applied[k] /\ BaseOf(k)' = BaseOf(k)
        BY <1>3, <1>7, <3>3
      <4>2. Turned(BaseOf(k), applied[k])
        BY DEF FullInv, OrderInv
      <4> QED
        BY <4>1, <4>2
    <3> QED
      BY <1>1, <3>1, <3>2, <3>3
  <2>2. ASSUME NEW i \in 1 .. Len(Append(a, p)), NEW q \in pending'
        PROVE  Precedes(q, Append(a, p)[i])
    <3>1. q \in pending /\ q # p
      OBVIOUS
    <3>2. Precedes(q, p)
      BY <3>1 DEF IsNext, Precedes
    <3>3. /\ Len(a) \in Nat /\ Len(Append(a, p)) = Len(a) + 1
          /\ Append(a, p)[Len(a) + 1] = p /\ \A j \in 1 .. Len(a) : Append(a, p)[j] = a[j]
      BY <1>5, AppendIs DEF Turned
    <3>4. \A j \in 1 .. Len(a) : Precedes(q, a[j])
      BY <3>1 DEF FullInv, OrderInv
    <3> HIDE DEF a
    <3>5. i = Len(a) + 1 \/ i \in 1 .. Len(a)
      BY <3>3
    <3> QED
      BY <3>2, <3>3, <3>4, <3>5
  <2>3. \A i \in 1 .. Len(applied'[pass']) : \A q \in pending' : Precedes(q, applied'[pass'][i])
    <3> HIDE DEF a
    <3> QED
      BY <1>3, <2>2
  <2>4. pass' = 1 => applied'[2] = <<>>
    <3>1. pass = 1 => applied'[2] = applied[2]
      <4>1. pass = 1 => 2 \in (1 .. 2) \ {pass}
        OBVIOUS
      <4> HIDE DEF a
      <4> QED
        BY <1>3, <4>1
    <3> QED
      BY <1>1, <3>1
  <2> HIDE DEF a
  <2> QED
    BY <1>3, <2>1, <2>3, <2>4 DEF OrderInv
<1>9. CopyInv'
  <2>1. ASSUME ~Entangled(pass)'
        PROVE  Leaves(BaseOf(pass), applied[pass], content[pass])'
    <3>1. ~Tangled(Append(a, p))
      <4>1. Entangled(pass)' <=> Tangled(Append(a, p))
        BY <1>3 DEF Entangled, Tangled
      <4> QED
        BY <2>1, <4>1
    <3>2. ~Tangled(a)
      BY <1>5, <3>1, StillApart
    <3>3. Stacked(Base, a) /\ Stacked(Base, Append(a, p))
      BY <1>5, <1>6, <3>1, <3>2, TurnedStacks
    <3>4. Leaves(Base, a, old)
      <4>1. ~Entangled(pass) /\ pass <= pass
        BY <1>1, <3>2, EntangledIs
      <4>2. IF a = <<>> THEN old = Base ELSE Leaves(Base, a, old)
        BY <1>1, <1>2, <4>1 DEF FullInv, CopyInv
      <4> HIDE DEF a, old
      <4> QED
        BY <1>2, <4>2, NothingApplied
    <3>5. NewTexts
      BY DEF NewTexts, FullInv, IInv, TypesInv, IsBlock
    <3>6. Leaves(Base, Append(a, p), new)
      <4> HIDE DEF a, old
      <4> QED
        BY <1>2, <3>3, <3>4, <3>5, LeavesOneMore
    <3> HIDE DEF new, a, old
    <3>7. BaseOf(pass)' = Base /\ applied'[pass'] = Append(a, p) /\ content'[pass'] = new
      BY <1>3, <1>7
    <3> QED
      BY <3>6, <3>7 DEF Leaves, Tails, Replacement
  <2>2. ASSUME NEW k \in 1 .. 2, k # pass, k <= pass \/ phase = "written", ~Entangled(k)'
        PROVE  IF applied'[k] = <<>> THEN content'[k] = BaseOf(k)'
               ELSE Leaves(BaseOf(k), applied[k], content[k])'
    <3>1. k = 1 /\ pass = 2
      BY <1>1, <2>2
    <3>2. applied'[k] = applied[k] /\ content'[k] = content[k] /\ BaseOf(k)' = BaseOf(k)
      BY <1>3, <1>7, <3>1
    <3>3. ~Entangled(k)
      BY <2>2, <3>2 DEF Entangled
    <3>4. IF applied[k] = <<>> THEN content[k] = BaseOf(k)
          ELSE Leaves(BaseOf(k), applied[k], content[k])
      BY <2>2, <3>3 DEF FullInv, CopyInv
    <3>5. Leaves(BaseOf(k), applied[k], content[k])' <=> Leaves(BaseOf(k), applied[k], content[k])
      BY <3>2 DEF Leaves, Tails, Replacement
    <3> QED
      BY <3>2, <3>4, <3>5
  <2>3. applied'[pass] # <<>>
    <3>1. Len(Append(a, p)) = Len(a) + 1 /\ Len(a) \in Nat /\ Len(<<>>) = 0
      BY <1>5, AppendIs DEF Turned
    <3> HIDE DEF a
    <3> QED
      BY <1>3, <3>1
  <2> QED
    BY <1>1, <2>1, <2>2, <2>3 DEF CopyInv
<1>10. WriteInv'
  BY DEF FullInv, WriteInv
<1> QED
  BY <1>8, <1>9, <1>10 DEF FullInv

LEMMA SecondPassFull ==
  ASSUME FullInv, IInv', SecondPass
  PROVE  FullInv'
<1>1. /\ content = [k \in 1 .. 2 |-> content[k]] /\ applied[2] = <<>>
      /\ applied' = applied /\ pass = 1 /\ pass' = 2 /\ ask' = ask /\ raw' = raw
      /\ mid' = mid /\ out' = out /\ phase = "apply" /\ phase' = "resolve"
  BY DEF FullInv, OrderInv, IInv, TypesInv, SecondPass
<1>2. content'[1] = content[1] /\ content'[2] = content[1]
  <2>1. content' = [content EXCEPT ![2] = content[1]] /\ 2 \in DOMAIN content /\ 1 \in DOMAIN content
    BY <1>1 DEF SecondPass
  <2> QED
    BY <2>1
<1>3. BaseOf(1)' = BaseOf(1) /\ BaseOf(2)' = BaseOf(2) /\ BaseOf(2)' = content'[2]
  BY <1>1, <1>2 DEF BaseOf
<1>4. OrderInv'
  <2>1. Len(applied'[pass']) = 0
    BY <1>1
  <2>2. \A k \in 1 .. 2 : Turned(BaseOf(k)', applied'[k])
    BY <1>1, <1>3 DEF FullInv, OrderInv
  <2> QED
    BY <1>1, <2>1, <2>2 DEF OrderInv, FullInv
<1>5. CopyInv'
  <2>1. ASSUME ~Entangled(1)'
        PROVE  IF applied'[1] = <<>> THEN content'[1] = BaseOf(1)'
               ELSE Leaves(BaseOf(1), applied[1], content[1])'
    <3>1. ~Entangled(1)
      BY <1>1, <2>1 DEF Entangled
    <3>2. IF applied[1] = <<>> THEN content[1] = BaseOf(1)
          ELSE Leaves(BaseOf(1), applied[1], content[1])
      BY <1>1, <3>1 DEF FullInv, CopyInv
    <3>3. Leaves(BaseOf(1), applied[1], content[1])' <=> Leaves(BaseOf(1), applied[1], content[1])
      BY <1>1, <1>2, <1>3 DEF Leaves, Tails, Replacement
    <3> QED
      BY <1>1, <1>2, <1>3, <3>2, <3>3
  <2>2. \A k \in 1 .. 2 : k = 1 \/ k = 2
    OBVIOUS
  <2> QED
    BY <1>1, <1>3, <2>1, <2>2 DEF CopyInv
<1>6. WriteInv'
  BY <1>1 DEF FullInv, WriteInv
<1> QED
  BY <1>4, <1>5, <1>6 DEF FullInv

LEMMA WriteFull ==
  ASSUME FullInv, IInv', Write
  PROVE  FullInv'
<1>1. /\ content = [k \in 1 .. 2 |-> content[k]] /\ (pass = 1 => applied[2] = <<>>)
      /\ applied = [k \in 1 .. 2 |-> applied[k]] /\ pass \in 1 .. 2
      /\ applied' = applied /\ pass' = pass /\ ask' = ask /\ raw' = raw /\ phase = "apply"
      /\ phase' = "written" /\ pending' = pending /\ pending = {}
      /\ mid' = SpliceOntoRaw(raw, applied[1]) /\ out' = SpliceOntoRaw(mid', applied[2])
  BY DEF FullInv, OrderInv, IInv, TypesInv, Write, Over
<1>2. /\ content'[1] = content[1]
      /\ content'[2] = IF pass = 1 THEN content[1] ELSE content[2]
  <2>1. 2 \in DOMAIN content /\ 1 \in DOMAIN content
    BY <1>1
  <2> QED
    BY <2>1 DEF Write
<1>3. BaseOf(1)' = BaseOf(1) /\ BaseOf(2)' = BaseOf(2)
  BY <1>1, <1>2 DEF BaseOf
<1>4. OrderInv'
  <2>1. \A k \in 1 .. 2 : Turned(BaseOf(k)', applied'[k])
    BY <1>1, <1>3 DEF FullInv, OrderInv
  <2> QED
    BY <1>1, <2>1 DEF OrderInv, FullInv
<1>5. CopyInv'
  <2>1. ASSUME NEW k \in 1 .. 2, ~Entangled(k)'
        PROVE  IF applied'[k] = <<>> THEN content'[k] = BaseOf(k)'
               ELSE Leaves(BaseOf(k), applied[k], content[k])'
    <3>1. ~Entangled(k)
      BY <1>1, <2>1 DEF Entangled
    <3>2. CASE k <= pass
      <4>1. content'[k] = content[k] /\ BaseOf(k)' = BaseOf(k)
        BY <1>1, <1>2, <1>3, <3>2
      <4>2. IF applied[k] = <<>> THEN content[k] = BaseOf(k)
            ELSE Leaves(BaseOf(k), applied[k], content[k])
        BY <3>1, <3>2 DEF FullInv, CopyInv
      <4>3. Leaves(BaseOf(k), applied[k], content[k])' <=> Leaves(BaseOf(k), applied[k], content[k])
        BY <1>1, <4>1 DEF Leaves, Tails, Replacement
      <4> QED
        BY <1>1, <4>1, <4>2, <4>3
    <3>3. CASE ~(k <= pass)
      <4>1. k = 2 /\ pass = 1
        BY <1>1, <3>3
      <4> QED
        BY <1>1, <1>2, <4>1 DEF BaseOf
    <3> QED
      BY <3>2, <3>3
  <2> QED
    BY <2>1 DEF CopyInv
<1>6. NewTexts /\ IsText(raw)
  BY DEF NewTexts, FullInv, IInv, TypesInv, IsBlock
<1>7. \A k \in 1 .. 2 : Strewn(applied[k])
  BY DEF FullInv, OrderInv, Turned, Strewn
<1>8. IsText(mid')
  BY <1>1, <1>6, <1>7, SplicedText
<1>9. mid' = SpliceOntoRaw(raw, applied[1])' /\ out' = SpliceOntoRaw(mid, applied[2])'
  BY <1>1 DEF SpliceOntoRaw, Parts, Trimmed, Trims
<1>10. WriteInv'
  BY <1>1, <1>8, <1>9 DEF WriteInv
<1> QED
  BY <1>4, <1>5, <1>10 DEF FullInv

LEMMA StepFull ==
  ASSUME FullInv, [Next]_vars
  PROVE  FullInv'
<1>1. IInv /\ IInv'
  BY StepHolds DEF FullInv
<1>2. CASE ResolveFirst
  <2>1. phase' # "resolve" /\ phase' # "written"
    BY <1>2 DEF ResolveFirst, Resolve
  <2> QED
    BY <1>1, <1>2, <2>1, ResolveFull DEF ResolveFirst
<1>3. CASE ResolveAgain
  <2>1. phase' # "resolve" /\ phase' # "written"
    BY <1>3 DEF ResolveAgain, Resolve
  <2> QED
    BY <1>1, <1>3, <2>1, ResolveFull DEF ResolveAgain
<1>4. CASE ApplyPiece
  <2>1. PICK p \in pending : IsNext(p) /\ (NoOp(p) \/ Gone(p) \/ Replace(p)) /\ pending' = pending \ {p}
    BY <1>4 DEF ApplyPiece
  <2>2. phase = "apply" /\ UNCHANGED <<raw, sent, ask, pass, phase, missing, clashing, mid, out>>
    BY <1>4 DEF ApplyPiece
  <2>3. CASE Replace(p)
    BY <1>1, <2>1, <2>2, <2>3, ReplaceFull
  <2>4. CASE NoOp(p) \/ Gone(p)
    <3>1. UNCHANGED <<content, applied>>
      BY <2>4 DEF NoOp, Gone, Drop
    <3> QED
      BY <1>1, <2>1, <2>2, <3>1, SameFull
  <2> QED
    BY <2>1, <2>3, <2>4
<1>5. CASE SecondPass
  BY <1>1, <1>5, SecondPassFull
<1>6. CASE Refuse
  <2>1. /\ phase' = "refused" /\ phase = "apply" /\ pending' = pending
        /\ UNCHANGED <<raw, ask, pass, content, applied, mid, out>>
    BY <1>6 DEF Refuse, Over
  <2> QED
    BY <1>1, <2>1, SameFull
<1>7. CASE Write
  BY <1>1, <1>7, WriteFull
<1>8. CASE UNCHANGED vars
  <2>1. CASE phase = "resolve"
    <3>1. UNCHANGED <<raw, ask, pass, phase, pending, content, applied, mid, out>>
      BY <1>8 DEF vars
    <3>2. \A k : BaseOf(k)' = BaseOf(k)
      BY <3>1 DEF BaseOf
    <3>3. OrderInv'
      BY <3>1, <3>2 DEF FullInv, OrderInv
    <3>4. CopyInv'
      BY <3>1, <3>2 DEF FullInv, CopyInv, Entangled, Leaves, Tails, Replacement
    <3>5. WriteInv'
      BY <2>1, <3>1 DEF FullInv, WriteInv
    <3> QED
      BY <1>1, <3>3, <3>4, <3>5 DEF FullInv
  <2>2. CASE phase # "resolve"
    BY <1>1, <1>8, <2>2, SameFull DEF vars
  <2> QED
    BY <2>1, <2>2
<1> QED
  BY <1>2, <1>3, <1>4, <1>5, <1>6, <1>7, <1>8 DEF Next

\* NormToRaw (raw-splice.ts) cuts a text where its normalized form is cut, at
\* every offset, whatever mix of line breaks the file holds, for the file as read
\* and for what the first pass made of it.
THEOREM CutsHold == Spec => []MapCutsAlike
<1>1. Init => FullInv
  BY InitFull
<1>2. FullInv /\ [Next]_vars => FullInv'
  BY StepFull
<1>3. FullInv => MapCutsAlike
  BY CutsAlikeAlways DEF FullInv, IInv, TypesInv, WriteInv, MapCutsAlike
<1> QED
  BY <1>1, <1>2, <1>3, PTL DEF Spec

\* What a pass writes normalizes to what it answers, but for the breaks it drops.
LEMMA CopiesAgree ==
  ASSUME FullInv, phase = "written", NEW k \in 1 .. 2,
         k = 2 => Normalize(mid) = content[1], ~Entangled(k), ~Seamed(k)
  PROVE  /\ Len(Normalize(Result(k))) = Len(content[k]) - Cardinality(TrimsOf(k))
         /\ TrimsOf(k) = {} => Normalize(Result(k)) = content[k]
<1> DEFINE t == Source(k)
           a == applied[k]
           b == BaseOf(k)
           c == content[k]
<1>1. IsText(t) /\ Normalize(t) = b
  BY DEF Source, BaseOf, FullInv, WriteInv, IInv, TypesInv
<1>2. Result(k) = SpliceOntoRaw(t, a)
  BY DEF Result, Source, FullInv, WriteInv
<1>3. IF a = <<>> THEN c = b ELSE Leaves(b, a, c)
  BY DEF FullInv, CopyInv
<1>4. Turned(b, a) /\ ~Tangled(a)
  BY EntangledIs DEF FullInv, OrderInv
<1>5. TrimsOf(k) = {i \in 1 .. Len(a) : Trims(a[i], b)}
  <2>1. a = [i \in 1 .. Len(a) |-> a[i]]
    BY <1>4 DEF Turned, IsText
  <2>2. DOMAIN a = 1 .. Len(a)
    BY <2>1
  <2> QED
    BY <1>1, <2>2 DEF TrimsOf
<1>6. IsText(c)
  BY DEF FullInv, IInv, TypesInv
<1>7. CASE a = <<>>
  <2>1. Result(k) = t /\ c = b
    BY <1>2, <1>3, <1>7 DEF SpliceOntoRaw
  <2>2. TrimsOf(k) = {}
    BY <1>5, <1>7
  <2>3. Cardinality({}) = 0 /\ Len(c) \in Nat
    BY <1>6, FS_EmptySet DEF IsText
  <2> HIDE DEF t, a, b, c
  <2>4. Len(c) = Len(c) - Cardinality(TrimsOf(k))
    BY <2>2, <2>3
  <2> QED
    BY <1>1, <2>1, <2>4 DEF c
<1>8. CASE a # <<>>
  <2>1. Stacked(b, a)
    BY <1>4, TurnedStacks
  <2>2. Seamless(Parts(t, a))
    BY DEF Seamed, Seamless
  <2>3. NewTexts
    BY DEF NewTexts, FullInv, IInv, TypesInv, IsBlock
  <2>4. Len(a) # 0
    <3>1. IsText(a)
      BY <1>4 DEF Turned
    <3> HIDE DEF a
    <3> QED
      BY <1>8, <3>1, EmptyIs
  <2>5. Result(k) = FlattenSeq(Parts(t, a)) /\ Leaves(b, a, c)
    BY <1>2, <1>3, <1>8 DEF SpliceOntoRaw
  <2> HIDE DEF t, a, b, c
  <2>6. LET bytes == FlattenSeq(Parts(t, a))
            drops == {i \in 1 .. Len(a) : Trims(a[i], Normalize(t))}
        IN  /\ Len(Normalize(bytes)) = Len(c) - Cardinality(drops)
            /\ drops = {} => Normalize(bytes) = c
    BY <1>1, <2>1, <2>2, <2>3, <2>4, <2>5, WrittenAgrees
  <2> QED
    BY <1>1, <1>5, <2>5, <2>6 DEF c
<1> QED
  BY <1>7, <1>8

\* The two copies of the text agree: the bytes that executeFile writes normalize
\* to the text that applyEdits reports, in both passes, whatever file, blocks and
\* thresholds, unless one of the three known differences occurs.
THEOREM CopiesMatch == Spec => []BytesMatchText
<1>1. Init => FullInv
  BY InitFull
<1>2. FullInv /\ [Next]_vars => FullInv'
  BY StepFull
<1>3. FullInv => BytesMatchText
  BY CopiesAgree DEF BytesMatchText
<1> QED
  BY <1>1, <1>2, <1>3, PTL DEF Spec

\* Line endings survive: a file with breaks of one kind keeps that kind, for
\* pieces that may overlap too, for new texts with bare \n whose breaks each see
\* one of the file's (conformLineEndings and spliceOntoRaw, raw-splice.ts).
THEOREM EndingsSurvive == Spec => []EndingsKept
<1>1. Init => FullInv
  BY InitFull
<1>2. FullInv /\ [Next]_vars => FullInv'
  BY StepFull
<1>3. FullInv => EndingsKept
  <2> SUFFICES ASSUME FullInv, phase = "written", Cardinality(Kinds(raw)) = 1, PlainNewTexts,
                      \A k \in 1 .. 2 : \A i \in DOMAIN applied[k] : SeesBreak(k, applied[k][i])
               PROVE  Kinds(out) \subseteq Kinds(raw)
    BY DEF EndingsKept
  <2>1. /\ IsText(raw) /\ IsText(mid) /\ NewTexts
        /\ mid = SpliceOntoRaw(raw, applied[1]) /\ out = SpliceOntoRaw(mid, applied[2])
    BY DEF FullInv, IInv, TypesInv, WriteInv, IsBlock, NewTexts
  <2>2. PICK kind \in AllKinds : Kinds(raw) = {kind}
    BY <2>1, OneKind
  <2>3. ASSUME NEW k \in 1 .. 2
        PROVE  /\ Strewn(applied[k])
               /\ \A m \in 1 .. Len(applied[k]) :
                    Holds(ask[applied[k][m].block].new, LF)
                      => Kinds(Context(applied[k][m], Source(k))) = {kind}
    <3>1. Turned(BaseOf(k), applied[k])
      BY DEF FullInv, OrderInv
    <3>2. DOMAIN applied[k] = 1 .. Len(applied[k])
      <4>1. applied[k] = [i \in 1 .. Len(applied[k]) |-> applied[k][i]]
        BY <3>1 DEF Turned, IsText
      <4> QED
        BY <4>1
    <3>3. \A m \in 1 .. Len(applied[k]) : SeesBreak(k, applied[k][m])
      BY <3>2
    <3> QED
      BY <2>2, <3>1, <3>3 DEF Turned, Strewn, SeesBreak
  <2>4. \A x \in Block : ~Holds(ask[x].new, CR)
    BY DEF PlainNewTexts
  <2>5. Uniform(raw, kind)
    BY <2>1, <2>2, KindUniform
  <2>6. Uniform(mid, kind)
    <3>1. Source(1) = raw /\ 1 \in 1 .. 2
      BY DEF Source
    <3>2. /\ Strewn(applied[1])
          /\ \A m \in 1 .. Len(applied[1]) :
               Holds(ask[applied[1][m].block].new, LF)
                 => Kinds(Context(applied[1][m], raw)) = {kind}
      BY <2>3, <3>1
    <3> QED
      BY <2>1, <2>4, <2>5, <3>2, SpliceUniform
  <2>7. Uniform(out, kind) /\ IsText(out)
    <3>1. Source(2) = mid /\ 2 \in 1 .. 2
      BY DEF Source
    <3>2. /\ Strewn(applied[2])
          /\ \A m \in 1 .. Len(applied[2]) :
               Holds(ask[applied[2][m].block].new, LF)
                 => Kinds(Context(applied[2][m], mid)) = {kind}
      BY <2>3, <3>1
    <3> QED
      BY <2>1, <2>4, <2>6, <3>2, SpliceUniform, SplicedText
  <2> QED
    BY <2>2, <2>7, UniformKind
<1> QED
  BY <1>1, <1>2, <1>3, PTL DEF Spec
=============================================================================
