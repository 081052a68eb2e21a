------------------------------- MODULE TextProofs -------------------------------
(***************************************************************************)
(* What the operators of Resolution and ApplyEdits find in a text and make *)
(* of it, for any text, blocks, pieces and thresholds: the passes of the   *)
(* chain, autopatch and the outcomes of a block; normalizing and cutting;  *)
(* what is spliced onto the raw text, and how that relates to the text the *)
(* same pieces leave when applied from its end; kinds of line breaks.      *)
(***************************************************************************)
EXTENDS ApplyEdits, FiniteSetTheorems, SequenceTheorems, WellFoundedInduction, TLAPS

-----------------------------------------------------------------------------
(* Numbers.                                                                  *)

\* A non-empty set of naturals has a least element.
LEMMA LeastExists ==
  ASSUME NEW S \in SUBSET Nat, S # {}
  PROVE  \E m \in S : \A x \in S : m <= x
<1> DEFINE R == StrictSubsetOrdering(Nat)
           T == {0 .. x : x \in S}
<1>1. T \subseteq FiniteSubsetsOf(Nat) /\ T # {}
  <2>1. ASSUME NEW x \in S PROVE 0 .. x \in FiniteSubsetsOf(Nat)
    <3>1. IsFiniteSet(0 .. x)
      BY FS_Interval
    <3> QED
      BY <3>1 DEF FiniteSubsetsOf
  <2> QED
    BY <2>1
<1>2. \E d \in T : \A e \in T : ~(<<e, d>> \in R)
  <2>1. IsWellFoundedOn(R, FiniteSubsetsOf(Nat))
    BY FS_StrictSubsetOrderingWellFounded
  <2> HIDE DEF R, T
  <2> QED
    BY <1>1, <2>1, WFMin
<1>3. PICK m \in S : \A e \in T : ~(<<e, 0 .. m>> \in R)
  BY <1>2
<1>4. ASSUME NEW x \in S, x < m PROVE FALSE
  <2>1. 0 .. x \subseteq 0 .. m /\ m \in 0 .. m /\ m \notin 0 .. x
    BY <1>4
  <2>2. <<0 .. x, 0 .. m>> \in R
    BY <2>1 DEF StrictSubsetOrdering
  <2> QED
    BY <1>3, <2>2
<1> QED
  BY <1>4

LEMMA MinIs ==
  ASSUME NEW S \in SUBSET Nat, S # {}
  PROVE  Min(S) \in S /\ \A x \in S : Min(S) <= x
<1>1. \E m \in S : \A x \in S : m <= x
  BY LeastExists
<1> QED
  BY <1>1 DEF Min

LEMMA MaxIs ==
  ASSUME NEW S \in SUBSET Nat, S # {}, NEW n \in Nat, \A x \in S : x <= n
  PROVE  Max(S) \in S /\ \A x \in S : Max(S) >= x
<1> DEFINE T == {n - x : x \in S}
<1>1. T \in SUBSET Nat /\ T # {}
  <2>1. \A x \in S : n - x \in Nat
    OBVIOUS
  <2> QED
    BY <2>1
<1>2. PICK m \in T : \A y \in T : m <= y
  <2> HIDE DEF T
  <2> QED
    BY <1>1, LeastExists
<1>3. PICK x \in S : m = n - x
  OBVIOUS
<1>4. \A y \in S : x >= y
  <2>1. ASSUME NEW y \in S PROVE x >= y
    <3>1. m <= n - y
      BY <1>2
    <3> QED
      BY <1>3, <3>1
  <2> QED
    BY <2>1
<1> QED
  BY <1>4 DEF Max

\* The numbers of a set in their order are numbers of it, and as many.
LEMMA AscendingIs ==
  ASSUME NEW n \in Nat, NEW S \in SUBSET (1 .. n)
  PROVE  LET c == Cardinality(S)
             up == Ascending(S)
         IN  /\ c \in Nat /\ c <= n /\ up = [k \in 1 .. c |-> up[k]]
             /\ \A k \in 1 .. c : up[k] \in S /\ Cardinality({j \in S : j <= up[k]}) = k
<1> DEFINE c == Cardinality(S)
           up == Ascending(S)
           Below(i) == {j \in S : j <= i}
           rank == [i \in S |-> Cardinality(Below(i))]
<1>1. IsFiniteSet(S) /\ c \in Nat /\ c <= n
  <2>1. IsFiniteSet(1 .. n) /\ Cardinality(1 .. n) = n
    BY FS_Interval
  <2> QED
    BY <2>1, FS_Subset, FS_CardinalityType
<1>2. ASSUME NEW i \in S
      PROVE  /\ IsFiniteSet(Below(i)) /\ Cardinality(Below(i)) \in 1 .. c
  <2>1. Below(i) \in SUBSET S /\ i \in Below(i)
    OBVIOUS
  <2>2. IsFiniteSet(Below(i)) /\ Cardinality(Below(i)) <= c
    BY <1>1, <2>1, FS_Subset
  <2>3. Cardinality(Below(i)) \in Nat /\ Cardinality(Below(i)) # 0
    BY <2>1, <2>2, FS_CardinalityType, FS_EmptySet
  <2> QED
    BY <1>1, <2>2, <2>3
<1>3. ASSUME NEW i \in S, NEW j \in S, i < j
      PROVE  Cardinality(Below(i)) # Cardinality(Below(j))
  <2>1. i \in Nat /\ j \in Nat /\ ~(j <= i) /\ j <= j
    BY <1>3
  <2>2. \A x \in S : x <= i => x <= j
    BY <1>3, <2>1
  <2>3. Below(i) \in SUBSET Below(j) /\ j \in Below(j) /\ j \notin Below(i)
    BY <2>1, <2>2, Zenon
  <2>4. IsFiniteSet(Below(j))
    BY <1>2
  <2> QED
    BY <2>3, <2>4, FS_Subset
<1>4. rank \in Injection(S, 1 .. c)
  <2>1. rank \in [S -> 1 .. c]
    BY <1>2
  <2>2. ASSUME NEW i \in S, NEW j \in S, rank[i] = rank[j] PROVE i = j
    <3>1. Cardinality(Below(i)) = Cardinality(Below(j))
      BY <2>2
    <3> HIDE DEF Below
    <3> QED
      BY <1>3, <3>1
  <2> QED
    BY <2>1, <2>2 DEF Injection, IsInjective
<1>5. rank \in Surjection(S, 1 .. c)
  <2>1. IsFiniteSet(1 .. c) /\ Cardinality(1 .. c) = c
    BY <1>1, FS_Interval
  <2> HIDE DEF rank, c
  <2> QED
    BY <1>4, <2>1, FS_Injection DEF c
<1>6. ASSUME NEW k \in 1 .. c PROVE \E i \in S : Cardinality(Below(i)) = k
  BY <1>5 DEF Surjection
<1> DEFINE at(k) == CHOOSE i \in S : Cardinality(Below(i)) = k
<1>7. up = [k \in 1 .. c |-> at(k)]
  BY DEF Ascending
<1>10. \A k \in 1 .. c : at(k) \in S /\ Cardinality(Below(at(k))) = k
  BY <1>6
<1> HIDE DEF c, up, at
<1>8. up = [k \in 1 .. c |-> up[k]]
  BY <1>7
<1>9. \A k \in 1 .. c : up[k] \in S /\ Cardinality({j \in S : j <= up[k]}) = k
  BY <1>7, <1>10
<1> QED
  BY <1>1, <1>8, <1>9 DEF c, up

-----------------------------------------------------------------------------
(* Texts.                                                                    *)

LEMMA MakesText ==
  ASSUME NEW n \in Nat, NEW q, q = [i \in 1 .. n |-> q[i]]
  PROVE  IsText(q) /\ Len(q) = n /\ DOMAIN q = 1 .. n
<1> DEFINE S == {q[i] : i \in 1 .. n}
<1>1. \A i \in 1 .. n : q[i] \in S
  OBVIOUS
<1> HIDE DEF S
<1>2. [i \in 1 .. n |-> q[i]] \in Seq(S) /\ Len([i \in 1 .. n |-> q[i]]) = n
  BY <1>1
<1>3. Len(q) = n
  BY <1>2
<1> QED
  BY <1>3 DEF IsText

LEMMA TextIsSeq ==
  ASSUME NEW t, IsText(t)
  PROVE  /\ Len(t) \in Nat /\ DOMAIN t = 1 .. Len(t)
         /\ \A S : (\A i \in 1 .. Len(t) : t[i] \in S) => t \in Seq(S)
<1>1. Len(t) \in Nat /\ t = [i \in 1 .. Len(t) |-> t[i]]
  BY DEF IsText
<1> DEFINE n == Len(t)
<1> HIDE DEF n
<1>2. ASSUME NEW S, \A i \in 1 .. n : t[i] \in S PROVE t \in Seq(S)
  <2>1. [i \in 1 .. n |-> t[i]] \in Seq(S)
    BY <1>1, <1>2 DEF n
  <2> QED
    BY <1>1, <2>1 DEF n
<1> QED
  BY <1>1, <1>2 DEF n

LEMMA SeqIsText ==
  ASSUME NEW S, NEW t \in Seq(S)
  PROVE  IsText(t)
BY DEF IsText

LEMMA SameText ==
  ASSUME NEW s, NEW t, IsText(s), IsText(t), Len(s) = Len(t),
         \A i \in 1 .. Len(s) : s[i] = t[i]
  PROVE  s = t
BY DEF IsText

\* Cutting a text.
LEMMA CutIs ==
  ASSUME NEW t, IsText(t), NEW a \in Nat \ {0}, NEW b \in Nat, b <= Len(t)
  PROVE  LET s == SubSeq(t, a, b)
             n == IF a <= b THEN b - a + 1 ELSE 0
         IN  IsText(s) /\ Len(s) = n /\ \A i \in 1 .. n : s[i] = t[a - 1 + i]
<1> DEFINE S == {t[i] : i \in 1 .. Len(t)}
           n == IF a <= b THEN b - a + 1 ELSE 0
           s == SubSeq(t, a, b)
<1>1. \A i \in a .. b : t[i] \in S
  BY DEF IsText
<1> HIDE DEF S
<1>2. /\ s \in Seq(S) /\ Len(s) = n
      /\ \A i \in 1 .. b - a + 1 : s[i] = t[a + i - 1]
  BY <1>1, SubSeqProperties
<1>3. \A i \in 1 .. n : i \in 1 .. b - a + 1 /\ a + i - 1 = a - 1 + i
  OBVIOUS
<1> HIDE DEF s
<1>4. IsText(s)
  BY <1>2, SeqIsText
<1> QED
  BY <1>2, <1>3, <1>4 DEF s


LEMMA SliceIs ==
  ASSUME NEW t, IsText(t), NEW a \in Nat, NEW b \in Nat
  PROVE  LET s == Slice(t, a, b)
             n == IF a < Min2(b, Len(t)) THEN Min2(b, Len(t)) - a ELSE 0
         IN  IsText(s) /\ Len(s) = n /\ \A i \in 1 .. n : s[i] = t[a + i]
<1> DEFINE e == Min2(b, Len(t))
           n == IF a < e THEN e - a ELSE 0
           s == Slice(t, a, b)
<1>1. e \in Nat /\ e <= Len(t) /\ Len(t) \in Nat
  BY DEF IsText, Min2
<1>2. s = SubSeq(t, a + 1, e)
  BY DEF Slice
<1> HIDE DEF e, s
<1>3. /\ IsText(s) /\ Len(s) = (IF a + 1 <= e THEN e - (a + 1) + 1 ELSE 0)
      /\ \A i \in 1 .. Len(s) : s[i] = t[(a + 1) - 1 + i]
  BY <1>1, <1>2, CutIs
<1>4. Len(s) = n
  BY <1>1, <1>3
<1>5. \A i \in 1 .. n : (a + 1) - 1 + i = a + i
  BY <1>1
<1> QED
  BY <1>3, <1>4, <1>5 DEF e, s

\* A text that is somewhere in another one.
Occurs(t, s) == IsText(s) /\ Places(t, s) # {}

LEMMA PlacesAre ==
  ASSUME NEW t, IsText(t), NEW s, IsText(s)
  PROVE  /\ Places(t, s) \in SUBSET Nat
         /\ \A i \in Places(t, s) : i + Len(s) <= Len(t) /\ Slice(t, i, i + Len(s)) = s
BY DEF Places, IsText

LEMMA IndexIs ==
  ASSUME NEW t, IsText(t), NEW s, Occurs(t, s)
  PROVE  IndexOf(t, s) \in Nat /\ IndexOf(t, s) + Len(s) <= Len(t)
<1>1. Places(t, s) \in SUBSET Nat /\ Places(t, s) # {}
  BY PlacesAre DEF Occurs
<1>2. Min(Places(t, s)) \in Places(t, s)
  BY <1>1, MinIs
<1> QED
  BY <1>1, <1>2, PlacesAre DEF IndexOf, Occurs

\* What is cut out of a text is in it.
LEMMA SliceOccurs ==
  ASSUME NEW t, IsText(t), NEW a \in Nat, NEW b \in Nat
  PROVE  Occurs(t, Slice(t, a, b))
<1> DEFINE s == Slice(t, a, b)
           e == Min2(b, Len(t))
           n == IF a < e THEN e - a ELSE 0
           p == IF a < e THEN a ELSE 0
<1>1. e \in Nat /\ e <= Len(t) /\ Len(t) \in Nat
  BY DEF IsText, Min2
<1>2. IsText(s) /\ Len(s) = n /\ \A i \in 1 .. n : s[i] = t[a + i]
  BY SliceIs
<1>3. n \in Nat /\ p \in Nat /\ p + n \in Nat /\ p + n <= Len(t)
  BY <1>1
<1>4. Min2(p + n, Len(t)) = p + n
  BY <1>1, <1>3 DEF Min2
<1>5. n = 0 \/ (p = a /\ n = e - a)
  BY <1>1
<1> DEFINE m == p + n
           u == Slice(t, p, m)
<1>6. m \in Nat /\ Min2(m, Len(t)) = m /\ (IF p < m THEN m - p ELSE 0) = n
  BY <1>3, <1>4
<1> HIDE DEF s, e, n, p, u, m
<1>7. IsText(u) /\ Len(u) = n /\ \A i \in 1 .. n : u[i] = t[p + i]
  <2>1. LET k == IF p < Min2(m, Len(t)) THEN Min2(m, Len(t)) - p ELSE 0
        IN  IsText(u) /\ Len(u) = k /\ \A i \in 1 .. k : u[i] = t[p + i]
    BY <1>3, <1>6, SliceIs DEF u
  <2> QED
    BY <1>6, <2>1
<1>8. u = s
  <2>1. \A i \in 1 .. n : u[i] = s[i]
    BY <1>2, <1>5, <1>7
  <2> QED
    BY <1>2, <1>7, <2>1, SameText
<1>9. p \in 0 .. Len(t) - Len(s) /\ Slice(t, p, p + Len(s)) = s
  BY <1>1, <1>2, <1>3, <1>8 DEF u, m
<1> QED
  BY <1>2, <1>9 DEF Occurs, Places, s

LEMMA NormalizeIs ==
  ASSUME NEW t, IsText(t)
  PROVE  IsText(Normalize(t))
<1> DEFINE S == {i \in 1 .. Len(t) : ~(t[i] = CR /\ i < Len(t) /\ t[i + 1] = LF)}
           at == Ascending(S)
           c == Cardinality(S)
           n == [k \in 1 .. Len(at) |-> IF t[at[k]] = CR THEN LF ELSE t[at[k]]]
<1>1. Normalize(t) = n
  BY DEF Normalize
<1>2. c \in Nat /\ at = [k \in 1 .. c |-> at[k]]
  <2>1. S \in SUBSET (1 .. Len(t)) /\ Len(t) \in Nat
    BY DEF IsText
  <2> HIDE DEF S
  <2> QED
    BY <2>1, AscendingIs
<1> HIDE DEF at, S, c
<1>3. Len(at) = c
  BY <1>2, MakesText
<1>4. n = [k \in 1 .. c |-> n[k]]
  BY <1>3
<1> HIDE DEF n
<1> QED
  BY <1>1, <1>2, <1>4, MakesText

-----------------------------------------------------------------------------
(* Lines.                                                                    *)

\* A text has a line at least, and each starts and ends inside of it.
LEMMA LinesAre ==
  ASSUME NEW t, IsText(t)
  PROVE  /\ IsText(Lines(t)) /\ Len(Lines(t)) \in Nat \ {0} /\ DOMAIN Lines(t) = 1 .. Len(Lines(t))
         /\ \A k \in 1 .. Len(Lines(t)) :
              Lines(t)[k][1] \in 0 .. Len(t) /\ Lines(t)[k][2] \in 0 .. Len(t)
<1> DEFINE S == {i \in 1 .. Len(t) : t[i] = LF}
           breaks == Ascending(S)
           c == Cardinality(S)
           from(k) == IF k = 1 THEN 0 ELSE breaks[k - 1]
           to(k) == IF k > Len(breaks) THEN Len(t) ELSE breaks[k] - 1
           lines == Lines(t)
<1>1. Len(t) \in Nat
  BY DEF IsText
<1>2. /\ c \in Nat /\ breaks = [k \in 1 .. c |-> breaks[k]]
      /\ \A k \in 1 .. c : breaks[k] \in 1 .. Len(t)
  <2>1. S \in SUBSET (1 .. Len(t))
    OBVIOUS
  <2> HIDE DEF S
  <2>2. /\ c \in Nat /\ breaks = [k \in 1 .. c |-> breaks[k]]
        /\ \A k \in 1 .. c : breaks[k] \in S
    BY <1>1, <2>1, AscendingIs
  <2> QED
    BY <2>1, <2>2
<1>3. lines = [k \in 1 .. Len(breaks) + 1 |-> <<from(k), to(k)>>]
  BY DEF Lines
<1> HIDE DEF breaks, c, S
<1>4. Len(breaks) = c
  BY <1>2, MakesText
<1>5. ASSUME NEW k \in 1 .. c + 1 PROVE from(k) \in 0 .. Len(t) /\ to(k) \in 0 .. Len(t)
  <2>1. from(k) \in 0 .. Len(t)
    <3>1. CASE k = 1
      BY <1>1, <3>1
    <3>2. CASE k # 1
      <4>1. k - 1 \in 1 .. c
        BY <1>2, <3>2
      <4> QED
        BY <1>1, <1>2, <3>2, <4>1
    <3> QED
      BY <3>1, <3>2
  <2>2. to(k) \in 0 .. Len(t)
    <3>1. CASE k > c
      BY <1>1, <1>4, <3>1
    <3>2. CASE ~(k > c)
      <4>1. k \in 1 .. c
        BY <1>2, <3>2
      <4>2. breaks[k] \in 1 .. Len(t)
        BY <1>2, <4>1
      <4> QED
        BY <1>1, <1>4, <3>2, <4>2
    <3> QED
      BY <3>1, <3>2
  <2> QED
    BY <2>1, <2>2
<1> HIDE DEF from, to, lines
<1>6. lines = [k \in 1 .. c + 1 |-> lines[k]]
  BY <1>3, <1>4
<1>7. IsText(lines) /\ Len(lines) = c + 1 /\ DOMAIN lines = 1 .. c + 1
  BY <1>2, <1>6, MakesText
<1>8. \A k \in 1 .. c + 1 : lines[k][1] = from(k) /\ lines[k][2] = to(k)
  BY <1>3, <1>4
<1> QED
  BY <1>2, <1>5, <1>7, <1>8 DEF lines

LEMMA JoinedOccurs ==
  ASSUME NEW t, IsText(t), NEW i \in DOMAIN Lines(t), NEW j \in DOMAIN Lines(t)
  PROVE  Occurs(t, Joined(t, i, j))
<1>1. Lines(t)[i][1] \in Nat /\ Lines(t)[j][2] \in Nat
  BY LinesAre DEF IsText
<1>2. Joined(t, i, j) = Slice(t, Lines(t)[i][1], Lines(t)[j][2])
  BY DEF Joined
<1> QED
  BY <1>1, <1>2, SliceOccurs

LEMMA LineAtIs ==
  ASSUME NEW t, IsText(t), NEW offset
  PROVE  LineAt(t, offset) \in DOMAIN Lines(t)
<1> DEFINE n == Len(Lines(t))
           S == {1} \cup {k \in DOMAIN Lines(t) : Lines(t)[k][1] <= offset}
<1>1. n \in Nat \ {0} /\ DOMAIN Lines(t) = 1 .. n
  BY LinesAre
<1>2. S \in SUBSET (1 .. n) /\ 1 \in S
  BY <1>1
<1>3. LineAt(t, offset) = Max(S)
  BY DEF LineAt
<1> HIDE DEF n, S
<1>4. S \in SUBSET Nat /\ S # {} /\ \A x \in S : x <= n
  BY <1>1, <1>2
<1>5. Max(S) \in S
  BY <1>1, <1>4, MaxIs
<1> QED
  BY <1>1, <1>2, <1>3, <1>5


LEMMA ReplacedIs ==
  ASSUME NEW t, IsText(t), NEW from, NEW to
  PROVE  IsText(Replaced(t, from, to)) /\ Len(Replaced(t, from, to)) = Len(t)
<1> DEFINE r == Replaced(t, from, to)
<1>1. Len(t) \in Nat /\ DOMAIN t = 1 .. Len(t)
  BY TextIsSeq
<1>2. r = [i \in 1 .. Len(t) |-> r[i]]
  BY <1>1 DEF Replaced
<1> QED
  BY <1>1, <1>2, MakesText

LEMMA InkedIs ==
  ASSUME NEW t, IsText(t)
  PROVE  Inked(t) \in SUBSET (1 .. Len(t)) /\ Len(t) \in Nat
BY TextIsSeq DEF Inked

LEMMA TrimIs ==
  ASSUME NEW t, IsText(t)
  PROVE  IsText(Trim(t))
<1>1. Len(t) \in Nat /\ Inked(t) \in SUBSET (1 .. Len(t))
  BY InkedIs
<1>2. CASE Inked(t) = {}
  <2>1. Trim(t) = <<>>
    BY <1>2 DEF Trim
  <2>2. <<>> \in Seq({})
    OBVIOUS
  <2> QED
    BY <2>1, <2>2, SeqIsText
<1>3. CASE Inked(t) # {}
  <2>1. Trim(t) = SubSeq(t, Min(Inked(t)), Max(Inked(t)))
    BY <1>3 DEF Trim
  <2>2. Inked(t) \in SUBSET Nat /\ \A x \in Inked(t) : x <= Len(t)
    BY <1>1
  <2>3. Min(Inked(t)) \in Inked(t) /\ Max(Inked(t)) \in Inked(t)
    BY <1>1, <1>3, <2>2, MinIs, MaxIs
  <2>4. Min(Inked(t)) \in Nat \ {0} /\ Max(Inked(t)) \in Nat /\ Max(Inked(t)) <= Len(t)
    BY <1>1, <2>3
  <2> QED
    BY <2>1, <2>4, CutIs
<1> QED
  BY <1>2, <1>3

LEMMA TrimEndIs ==
  ASSUME NEW t, IsText(t)
  PROVE  IsText(TrimEnd(t)) /\ Len(TrimEnd(t)) <= Len(t)
<1> DEFINE S == {0} \cup Inked(t)
           m == Max(S)
<1>1. Len(t) \in Nat /\ S \in SUBSET Nat /\ S # {} /\ \A x \in S : x <= Len(t)
  BY InkedIs
<1>2. m \in Nat /\ m <= Len(t)
  <2> HIDE DEF S
  <2>1. m \in S
    BY <1>1, MaxIs
  <2> QED
    BY <1>1, <2>1
<1>3. TrimEnd(t) = SubSeq(t, 1, m)
  BY DEF TrimEnd
<1> HIDE DEF m
<1>4. IsText(SubSeq(t, 1, m)) /\ Len(SubSeq(t, 1, m)) = IF 1 <= m THEN m - 1 + 1 ELSE 0
  BY <1>2, CutIs
<1> QED
  BY <1>1, <1>2, <1>3, <1>4

\* As many trimmed lines as lines.
LEMMA TrimmedLinesAre ==
  ASSUME NEW t, IsText(t)
  PROVE  /\ IsText(TrimmedLines(t)) /\ Len(TrimmedLines(t)) = Len(Lines(t))
         /\ DOMAIN TrimmedLines(t) = DOMAIN Lines(t)
<1> DEFINE r == TrimmedLines(t)
           n == Len(Lines(t))
<1>1. n \in Nat /\ DOMAIN Lines(t) = 1 .. n
  BY LinesAre
<1>2. r = [k \in DOMAIN Lines(t) |-> Trim(Slice(t, Lines(t)[k][1], Lines(t)[k][2]))]
  BY DEF TrimmedLines
<1> HIDE DEF n, r
<1>3. r = [k \in 1 .. n |-> r[k]]
  BY <1>1, <1>2
<1> QED
  BY <1>1, <1>3, MakesText DEF n, r

\* The elements at the places of a set.
LEMMA AtAscending ==
  ASSUME NEW n \in Nat, NEW S \in SUBSET (1 .. n)
  PROVE  /\ IsText(Ascending(S)) /\ Len(Ascending(S)) = Cardinality(S)
         /\ Len(Ascending(S)) \in Nat /\ Len(Ascending(S)) <= n
         /\ DOMAIN Ascending(S) = 1 .. Len(Ascending(S))
         /\ \A k \in 1 .. Len(Ascending(S)) : Ascending(S)[k] \in S
<1> DEFINE c == Cardinality(S)
           up == Ascending(S)
<1>1. c \in Nat /\ c <= n /\ up = [k \in 1 .. c |-> up[k]] /\ \A k \in 1 .. c : up[k] \in S
  BY AscendingIs
<1> HIDE DEF c, up
<1>2. IsText(up) /\ Len(up) = c /\ DOMAIN up = 1 .. c
  BY <1>1, MakesText
<1> QED
  BY <1>1, <1>2 DEF c, up

LEMMA InkedLinesAre ==
  ASSUME NEW t, IsText(t)
  PROVE  IsText(InkedLines(t))
<1> DEFINE lines == TrimmedLines(t)
           S == {k \in DOMAIN lines : lines[k] # <<>>}
           at == Ascending(S)
           r == [k \in DOMAIN at |-> lines[at[k]]]
<1>1. InkedLines(t) = r
  BY DEF InkedLines
<1>2. IsText(lines) /\ Len(lines) \in Nat /\ DOMAIN lines = 1 .. Len(lines)
  BY TrimmedLinesAre, TextIsSeq
<1> HIDE DEF lines
<1>3. S \in SUBSET (1 .. Len(lines))
  BY <1>2
<1> HIDE DEF S
<1>4. Len(at) \in Nat /\ DOMAIN at = 1 .. Len(at)
  BY <1>2, <1>3, AtAscending
<1> HIDE DEF at
<1>5. r = [k \in 1 .. Len(at) |-> r[k]]
  BY <1>4
<1> HIDE DEF r
<1> QED
  BY <1>1, <1>4, <1>5, MakesText


LEMMA ConcatIs ==
  ASSUME NEW s, IsText(s), NEW t, IsText(t)
  PROVE  /\ IsText(s \o t) /\ Len(s \o t) = Len(s) + Len(t)
         /\ \A i \in 1 .. Len(s) : (s \o t)[i] = s[i]
<1> DEFINE S == {s[i] : i \in 1 .. Len(s)} \cup {t[i] : i \in 1 .. Len(t)}
<1>1. /\ \A i \in 1 .. Len(s) : s[i] \in S
      /\ \A i \in 1 .. Len(t) : t[i] \in S
  OBVIOUS
<1> HIDE DEF S
<1>2. s \in Seq(S) /\ t \in Seq(S)
  BY <1>1, TextIsSeq
<1>3. /\ s \o t \in Seq(S) /\ Len(s \o t) = Len(s) + Len(t)
      /\ \A i \in 1 .. Len(s) : (s \o t)[i] = s[i]
  BY <1>2, ConcatProperties
<1> QED
  BY <1>3, SeqIsText

\* Putting lines together is a function of the lines so far.
LEMMA UpToExists ==
  ASSUME NEW lines, NEW n \in Nat
  PROVE  \E f : f = [k \in 1 .. n |->
                       IF k = 1 THEN lines[1] ELSE f[k - 1] \o <<LF>> \o lines[k]]
<1> DEFINE Next1(f, k) == IF k = 1 THEN lines[1] ELSE f[k - 1] \o <<LF>> \o lines[k]
           Runs(m) == \E f : f = [k \in 1 .. m |-> Next1(f, k)]
           None == {m \in Nat : ~Runs(m)}
<1> SUFFICES ASSUME None # {} PROVE FALSE
  OBVIOUS
<1>1. PICK m \in None : \A x \in None : m <= x
  <2>1. None \in SUBSET Nat
    OBVIOUS
  <2> HIDE DEF None
  <2> QED
    BY <2>1, LeastExists
<1>2. CASE m = 0
  <2> DEFINE f == [k \in 1 .. 0 |-> lines[1]]
  <2>1. f = [k \in 1 .. 0 |-> Next1(f, k)]
    OBVIOUS
  <2> QED
    BY <1>2, <2>1
<1>3. CASE m # 0
  <2>1. m - 1 \in Nat /\ Runs(m - 1)
    <3> HIDE DEF Runs
    <3> QED
      BY <1>1, <1>3
  <2>2. PICK g : g = [k \in 1 .. m - 1 |-> Next1(g, k)]
    BY <2>1, Zenon
  <2> DEFINE f == [k \in 1 .. m |-> IF k <= m - 1 THEN g[k] ELSE Next1(g, m)]
  <2>3. \A k \in 1 .. m : k # 1 => k - 1 \in 1 .. m - 1 /\ f[k - 1] = g[k - 1]
    BY <2>1
  <2>4. ASSUME NEW k \in 1 .. m PROVE f[k] = Next1(f, k)
    <3>1. CASE k <= m - 1
      <4>1. k \in 1 .. m - 1
        BY <3>1, <2>1
      <4> QED
        BY <4>1, <3>1, <2>2, <2>3
    <3>2. CASE ~(k <= m - 1)
      <4>1. k = m
        BY <3>2, <2>1
      <4> QED
        BY <4>1, <3>2, <2>3, <1>3
    <3> QED
      BY <3>1, <3>2
  <2>5. f = [k \in 1 .. m |-> Next1(f, k)]
    BY <2>4
  <2> QED
    BY <2>5
<1> QED
  BY <1>2, <1>3

LEMMA JoinedLinesIs ==
  ASSUME NEW lines, IsText(lines), lines # <<>>, \A k \in 1 .. Len(lines) : IsText(lines[k])
  PROVE  IsText(JoinedLines(lines))
<1> DEFINE n == Len(lines)
           F(f) == [k \in 1 .. n |-> IF k = 1 THEN lines[1] ELSE f[k - 1] \o <<LF>> \o lines[k]]
           f0 == CHOOSE f : f = F(f)
<1>1. n \in Nat \ {0}
  <2>1. n \in Nat /\ lines \in Seq({lines[i] : i \in 1 .. n})
    BY TextIsSeq
  <2> QED
    BY <2>1
<1>2. f0 = F(f0)
  BY <1>1, UpToExists
<1>3. JoinedLines(lines) = f0[n]
  BY DEF JoinedLines
<1> HIDE DEF f0
<1>4. \A k \in 1 .. n : f0[k] = IF k = 1 THEN lines[1] ELSE f0[k - 1] \o <<LF>> \o lines[k]
  BY <1>2
<1> DEFINE Bad == {k \in 1 .. n : ~IsText(f0[k])}
<1>5. Bad = {}
  <2> SUFFICES ASSUME Bad # {} PROVE FALSE
    OBVIOUS
  <2>1. PICK m \in Bad : \A x \in Bad : m <= x
    <3>1. Bad \in SUBSET Nat
      OBVIOUS
    <3> HIDE DEF Bad
    <3> QED
      BY <3>1, LeastExists
  <2>2. m # 1
    BY <1>4, <2>1
  <2>3. m - 1 \in 1 .. n /\ IsText(f0[m - 1])
    BY <1>1, <2>1, <2>2
  <2>4. IsText(<<LF>>)
    <3>1. <<LF>> \in Seq({LF})
      OBVIOUS
    <3> QED
      BY <3>1, SeqIsText
  <2>5. IsText(f0[m - 1] \o <<LF>>)
    BY <2>3, <2>4, ConcatIs
  <2>6. IsText(lines[m])
    BY <2>1
  <2>7. IsText(f0[m - 1] \o <<LF>> \o lines[m])
    BY <2>5, <2>6, ConcatIs
  <2>8. f0[m] = f0[m - 1] \o <<LF>> \o lines[m]
    BY <1>4, <2>1, <2>2
  <2> QED
    BY <2>1, <2>7, <2>8
<1> QED
  BY <1>1, <1>3, <1>5

-----------------------------------------------------------------------------
(* What the passes find is in the text.                                      *)

LEMMA FirstRunOccurs ==
  ASSUME NEW t, IsText(t), NEW got, NEW want, Len(want) \in Nat \ {0},
         NEW s \in FirstRun(t, got, want)
  PROVE  Occurs(t, s)
<1> DEFINE n == Len(want)
<1>1. PICK i \in 1 .. Len(Lines(t)) - n + 1 : s = Joined(t, i, i + n - 1)
  BY DEF FirstRun, FirstLines, FirstOf
<1>2. i \in DOMAIN Lines(t) /\ i + n - 1 \in DOMAIN Lines(t)
  BY LinesAre
<1> QED
  BY <1>1, <1>2, JoinedOccurs

LEMMA TextsOfOccur ==
  ASSUME NEW t, IsText(t), NEW w, w \subseteq (DOMAIN Lines(t)) \X (DOMAIN Lines(t)),
         NEW s \in TextsOf(t, w)
  PROVE  Occurs(t, s)
<1>1. PICK v \in w : s = Joined(t, v[1], v[2])
  BY DEF TextsOf
<1>2. v[1] \in DOMAIN Lines(t) /\ v[2] \in DOMAIN Lines(t)
  OBVIOUS
<1> QED
  BY <1>1, <1>2, JoinedOccurs

LEMMA VerbatimOccurs ==
  ASSUME NEW t, NEW q, IsText(q), NEW s \in Verbatim(t, q)
  PROVE  Occurs(t, s)
BY DEF Verbatim, Occurs


LEMMA LineTrimmedOccurs ==
  ASSUME NEW t, IsText(t), NEW q, IsText(q), NEW s \in LineTrimmed(t, q)
  PROVE  Occurs(t, s)
<1> DEFINE want == TrimmedLines(q)
           inked == {k \in DOMAIN want : want[k] # <<>>}
           core == SubSeq(want, Min(inked), Max(inked))
<1>1. inked # {} /\ s \in FirstRun(t, TrimmedLines(t), core)
  BY DEF LineTrimmed
<1>2. IsText(want) /\ Len(want) \in Nat /\ inked \in SUBSET (1 .. Len(want))
  BY TrimmedLinesAre, TextIsSeq
<1> HIDE DEF want, inked
<1>3. Min(inked) \in inked /\ Max(inked) \in inked /\ Min(inked) <= Max(inked)
  <2>1. inked \in SUBSET Nat /\ \A x \in inked : x <= Len(want)
    BY <1>2
  <2>2. Max(inked) \in inked
    BY <1>1, <1>2, <2>1, MaxIs
  <2> QED
    BY <1>1, <2>1, <2>2, MinIs
<1>4. /\ Min(inked) \in Nat \ {0} /\ Max(inked) \in Nat /\ Max(inked) <= Len(want)
  <2>1. \A x \in inked : x \in Nat \ {0} /\ x <= Len(want)
    BY <1>2
  <2> QED
    BY <1>3, <2>1, Zenon
<1>5. Len(core) = IF Min(inked) <= Max(inked) THEN Max(inked) - Min(inked) + 1 ELSE 0
  BY <1>2, <1>4, CutIs
<1>6. Len(core) \in Nat \ {0}
  BY <1>3, <1>4, <1>5
<1> QED
  BY <1>1, <1>6, FirstRunOccurs

LEMMA WhitespaceNormalizedOccurs ==
  ASSUME NEW t, IsText(t), NEW q, IsText(q), NEW s \in WhitespaceNormalized(t, q)
  PROVE  Occurs(t, s)
<1> DEFINE want == CollapsedLines(q)
           n == Len(Lines(q))
<1>1. s \in FirstRun(t, CollapsedLines(t), want)
  BY DEF WhitespaceNormalized
<1>2. n \in Nat \ {0} /\ DOMAIN Lines(q) = 1 .. n
  BY LinesAre
<1>3. want = [k \in DOMAIN Lines(q) |-> Collapsed(Joined(q, k, k))]
  BY DEF CollapsedLines
<1> HIDE DEF want, n
<1>4. want = [k \in 1 .. n |-> want[k]]
  BY <1>2, <1>3
<1>5. Len(want) = n
  BY <1>2, <1>4, MakesText
<1> QED
  BY <1>1, <1>2, <1>5, FirstRunOccurs

LEMMA IndentationFlexibleOccurs ==
  ASSUME NEW t, IsText(t), NEW q, IsText(q), NEW s \in IndentationFlexible(t, q)
  PROVE  Occurs(t, s)
<1> DEFINE want == InkedLines(q)
           got == TrimmedLines(t)
           Near(i) == {k \in i .. Min2(i + 3 * Len(want) - 1, Len(got)) : got[k] # <<>>}
<1>1. PICK i \in DOMAIN got :
        /\ want # <<>> /\ Len(Ascending(Near(i))) >= Len(want)
        /\ s = Joined(t, i, Ascending(Near(i))[Len(want)])
  BY DEF IndentationFlexible, FirstOf
<1>2. /\ Len(got) \in Nat /\ DOMAIN got = 1 .. Len(got) /\ DOMAIN got = DOMAIN Lines(t)
  BY TrimmedLinesAre, TextIsSeq
<1>3. IsText(want) /\ Len(want) \in Nat \ {0}
  <2>1. IsText(want)
    BY InkedLinesAre
  <2>2. Len(want) \in Nat /\ want \in Seq({want[k] : k \in 1 .. Len(want)})
    BY <2>1, TextIsSeq
  <2> HIDE DEF want
  <2>3. want # <<>>
    BY <1>1
  <2> QED
    BY <2>1, <2>2, <2>3
<1> HIDE DEF want, got
<1>4. Near(i) \in SUBSET (1 .. Len(got))
  BY <1>2, <1>3 DEF Min2
<1> DEFINE S == Near(i)
<1> HIDE DEF Near, S
<1>5. S \in SUBSET (1 .. Len(got))
  BY <1>4 DEF S
<1>6. Len(Ascending(S)) \in Nat /\ \A k \in 1 .. Len(Ascending(S)) : Ascending(S)[k] \in S
  BY <1>2, <1>5, AtAscending
<1>7. Len(want) \in 1 .. Len(Ascending(S))
  BY <1>1, <1>3, <1>6 DEF S
<1>8. Ascending(S)[Len(want)] \in DOMAIN Lines(t)
  BY <1>2, <1>5, <1>6, <1>7
<1> QED
  BY <1>1, <1>2, <1>8, JoinedOccurs DEF S

LEMMA EscapeNormalizedOccurs ==
  ASSUME NEW t, NEW q, IsText(q), NEW s \in EscapeNormalized(t, q)
  PROVE  Occurs(t, s)
<1> DEFINE p == Replaced(Replaced(q, EscapedLF, LF), EscapedQuote, Quote)
<1>1. IsText(p)
  BY ReplacedIs
<1>2. s \in Verbatim(t, p)
  BY DEF EscapeNormalized
<1> QED
  BY <1>1, <1>2, VerbatimOccurs

LEMMA UnicodeNormalizedOccurs ==
  ASSUME NEW t, IsText(t), NEW q, IsText(q), NEW s \in UnicodeNormalized(t, q)
  PROVE  Occurs(t, s)
<1> DEFINE plain == Replaced(q, CurlyQuote, Quote)
           folded == Replaced(t, CurlyQuote, Quote)
<1>1. PICK i \in Places(folded, plain) : s = Slice(t, i, i + Len(plain))
  BY DEF UnicodeNormalized, FirstOf
<1>2. IsText(plain) /\ IsText(folded) /\ Len(plain) \in Nat
  BY ReplacedIs DEF IsText
<1>3. i \in Nat /\ i + Len(plain) \in Nat
  BY <1>2, PlacesAre
<1> QED
  BY <1>1, <1>3, SliceOccurs

LEMMA AnchoredOccur ==
  ASSUME NEW t, IsText(t), NEW q, IsText(q),
         NEW s \in BlockAnchor(t, q) \cup BlockAnchorLevenshtein(t, q)
  PROVE  Occurs(t, s)
<1> DEFINE w == AnchoredWindows(t, q)
<1>1. w \subseteq (DOMAIN Lines(t)) \X (DOMAIN Lines(t))
  BY TrimmedLinesAre DEF AnchoredWindows
<1>2. PICK v \in SUBSET w : s \in TextsOf(t, v)
  BY DEF BlockAnchor, BlockAnchorLevenshtein
<1> QED
  BY <1>1, <1>2, TextsOfOccur

LEMMA NearWindowsOccur ==
  ASSUME NEW t, IsText(t), NEW q, NEW s \in FuzzyBoundary(t, q) \cup TokenOverlap(t, q)
  PROVE  Occurs(t, s)
<1>1. ASSUME NEW slack PROVE NearWindows(t, q, slack) \subseteq (DOMAIN Lines(t)) \X (DOMAIN Lines(t))
  BY DEF NearWindows
<1> QED
  BY <1>1, TextsOfOccur DEF FuzzyBoundary, TokenOverlap

\* Blocks start and end at lines of the text.
LEMMA BlocksAre ==
  ASSUME NEW t, IsText(t), NEW first, NEW last, NEW most \in Int
  PROVE  Blocks(TrimmedLines(t), first, last, most) \subseteq (DOMAIN Lines(t)) \X (DOMAIN Lines(t))
<1> DEFINE got == TrimmedLines(t)
<1>1. Len(got) \in Nat /\ DOMAIN got = 1 .. Len(got) /\ DOMAIN got = DOMAIN Lines(t)
  BY TrimmedLinesAre, TextIsSeq
<1> HIDE DEF got
<1>2. ASSUME NEW i \in DOMAIN got, NEW j \in i + 1 .. Min2(i + most, Len(got))
      PROVE  j \in DOMAIN got
  BY <1>1 DEF Min2
<1>3. ASSUME NEW v \in Blocks(got, first, last, most) PROVE v \in (DOMAIN got) \X (DOMAIN got)
  <2>1. PICK i \in DOMAIN got : \E j \in i + 1 .. Min2(i + most, Len(got)) : v = <<i, j>>
    BY DEF Blocks, FirstOf
  <2> QED
    BY <1>2, <2>1
<1> QED
  BY <1>1, <1>3 DEF got

LEMMA TrimmedBoundaryOccurs ==
  ASSUME NEW t, IsText(t), NEW q, IsText(q), NEW s \in TrimmedBoundary(t, q)
  PROVE  Occurs(t, s)
<1> DEFINE want == TrimmedLines(q)
           n == Len(Lines(q))
           found == Blocks(TrimmedLines(t), want[1], want[n], n + 1)
<1>1. \/ s \in Verbatim(t, Trim(q))
      \/ \E w \in SUBSET found : s \in TextsOf(t, w)
  BY DEF TrimmedBoundary, Verbatim
<1>2. n + 1 \in Int
  BY LinesAre
<1>3. found \subseteq (DOMAIN Lines(t)) \X (DOMAIN Lines(t))
  BY <1>2, BlocksAre
<1>4. IsText(Trim(q))
  BY TrimIs
<1> HIDE DEF found
<1> QED
  BY <1>1, <1>3, <1>4, VerbatimOccurs, TextsOfOccur

LEMMA ContextAwareOccurs ==
  ASSUME NEW t, IsText(t), NEW q, IsText(q), NEW s \in ContextAware(t, q)
  PROVE  Occurs(t, s)
<1> DEFINE want == InkedLines(q)
           n == Len(Lines(q))
           found == Blocks(TrimmedLines(t), want[1], Last(want), 2 * n - 1)
<1>1. s \in TextsOf(t, found)
  BY DEF ContextAware
<1>2. 2 * n - 1 \in Int
  BY LinesAre
<1>3. found \subseteq (DOMAIN Lines(t)) \X (DOMAIN Lines(t))
  BY <1>2, BlocksAre
<1> HIDE DEF found
<1> QED
  BY <1>1, <1>3, TextsOfOccur

LEMMA RobustBackslashOccurs ==
  ASSUME NEW t, NEW q, IsText(q), NEW s \in RobustBackslash(t, q)
  PROVE  Occurs(t, s)
<1>1. s \in {Replaced(q, Quote, EscapedQuote), Replaced(q, EscapedQuote, Quote)}
      /\ Cardinality(Places(t, s)) = 1
  BY DEF RobustBackslash
<1>2. IsText(s)
  BY <1>1, ReplacedIs
<1>3. Places(t, s) # {}
  BY <1>1, FS_EmptySet
<1> QED
  BY <1>2, <1>3 DEF Occurs


LEMMA RobustTrimmedOccurs ==
  ASSUME NEW t, IsText(t), NEW q, IsText(q), NEW s \in RobustTrimmed(t, q)
  PROVE  Occurs(t, s)
<1> DEFINE Ends(i) == \A j \in i .. Len(t) : (\E k \in i .. j : t[k] = LF) \/ t[j] = SP
           D == {i \in DOMAIN t : ~(t[i] = SP /\ Ends(i))}
           kept == Ascending(D)
           thin == [k \in DOMAIN kept |-> t[kept[k]]]
           Blanks(last) == {j \in last .. Len(t) : \A k \in last + 1 .. j : t[k] = SP}
           Past(i) == IF Slice(t, i, i + 1) = <<LF>> THEN i + 1 ELSE i
           want == TrimEnd(q)
           n == Len(want)
<1>1. PICK i \in Places(thin, want) :
        /\ want # <<>>
        /\ s = Slice(t, IF i = 0 THEN 0 ELSE kept[i], Past(Max(Blanks(kept[i + n]))))
  BY DEF RobustTrimmed
<1>2. Len(t) \in Nat /\ D \in SUBSET (1 .. Len(t))
  <2>1. Len(t) \in Nat /\ DOMAIN t = 1 .. Len(t)
    BY TextIsSeq
  <2> HIDE DEF Ends
  <2> QED
    BY <2>1
<1> HIDE DEF D
<1>3. /\ Len(kept) \in Nat /\ DOMAIN kept = 1 .. Len(kept)
      /\ \A k \in 1 .. Len(kept) : kept[k] \in 1 .. Len(t)
  BY <1>2, AtAscending
<1> HIDE DEF kept
<1>4. IsText(thin) /\ Len(thin) = Len(kept)
  <2>1. thin = [k \in 1 .. Len(kept) |-> thin[k]]
    BY <1>3
  <2> HIDE DEF thin
  <2> QED
    BY <1>3, <2>1, MakesText
<1>5. IsText(want) /\ n \in Nat \ {0}
  <2>1. IsText(want)
    BY TrimEndIs
  <2>2. n \in Nat /\ want \in Seq({want[k] : k \in 1 .. n})
    BY <2>1, TextIsSeq
  <2> HIDE DEF want
  <2>3. want # <<>>
    BY <1>1
  <2> QED
    BY <2>1, <2>2, <2>3
<1> HIDE DEF thin, want
<1>6. i \in Nat /\ i + n <= Len(kept)
  BY <1>4, <1>5, <1>1, PlacesAre
<1>7. (IF i = 0 THEN 0 ELSE kept[i]) \in Nat
  <2>1. i = 0 \/ i \in 1 .. Len(kept)
    BY <1>3, <1>5, <1>6
  <2> QED
    BY <1>2, <1>3, <2>1
<1>8. Max(Blanks(kept[i + n])) \in Nat
  <2> DEFINE last == kept[i + n]
             B == Blanks(last)
  <2>1. i + n \in 1 .. Len(kept)
    BY <1>3, <1>5, <1>6
  <2>2. last \in 1 .. Len(t)
    BY <1>3, <2>1
  <2> HIDE DEF last
  <2>3. B \in SUBSET Nat /\ \A x \in B : x <= Len(t)
    BY <1>2, <2>2
  <2>4. last \in B
    <3>1. \A k \in last + 1 .. last : t[k] = SP
      BY <1>2, <2>2
    <3> QED
      BY <1>2, <2>2, <3>1
  <2> HIDE DEF B
  <2>5. Max(B) \in B
    BY <1>2, <2>3, <2>4, MaxIs
  <2> QED
    BY <2>3, <2>5 DEF B, last
<1> DEFINE m == Max(Blanks(kept[i + n]))
<1>9. Past(m) \in Nat
  <2> HIDE DEF m
  <2>1. m \in Nat
    BY <1>8 DEF m
  <2> QED
    BY <2>1
<1> HIDE DEF Past, Blanks
<1> QED
  BY <1>1, <1>7, <1>9, SliceOccurs

-----------------------------------------------------------------------------
(* The chain.                                                                *)

LEMMA FindsOccur ==
  ASSUME NEW t, IsText(t), NEW q, IsText(q), NEW rank \in Ranks, NEW s \in Finds(rank, t, q)
  PROVE  Occurs(t, s)
<1>1. CASE rank = 1
  BY <1>1, VerbatimOccurs DEF Finds
<1>2. CASE rank = 2
  BY <1>2, LineTrimmedOccurs DEF Finds
<1>3. CASE rank = 3
  BY <1>3, WhitespaceNormalizedOccurs DEF Finds
<1>4. CASE rank = 4
  BY <1>4, IndentationFlexibleOccurs DEF Finds
<1>5. CASE rank = 5
  BY <1>5, EscapeNormalizedOccurs DEF Finds
<1>6. CASE rank = 6
  BY <1>6, UnicodeNormalizedOccurs DEF Finds
<1>7. CASE rank = 7
  BY <1>7, AnchoredOccur DEF Finds
<1>8. CASE rank = 8
  BY <1>8, AnchoredOccur DEF Finds
<1>9. CASE rank = 9
  BY <1>9, NearWindowsOccur DEF Finds
<1>10. CASE rank = 10
  BY <1>10, TrimmedBoundaryOccurs DEF Finds
<1>11. CASE rank = 11
  BY <1>11, ContextAwareOccurs DEF Finds
<1>12. CASE rank = 12
  BY <1>12, RobustTrimmedOccurs DEF Finds
<1>13. CASE rank = 13
  BY <1>13, RobustBackslashOccurs DEF Finds
<1>14. CASE rank = 14
  BY <1>14, NearWindowsOccur DEF Finds
<1>15. \/ rank = 1 \/ rank = 2 \/ rank = 3 \/ rank = 4 \/ rank = 5 \/ rank = 6 \/ rank = 7
       \/ rank = 8 \/ rank = 9 \/ rank = 10 \/ rank = 11 \/ rank = 12 \/ rank = 13 \/ rank = 14
  BY DEF Ranks
<1> QED
  BY <1>1, <1>2, <1>3, <1>4, <1>5, <1>6, <1>7, <1>8, <1>9, <1>10, <1>11, <1>12, <1>13, <1>14,
     <1>15

\* A hit is a text of the file and the rank of the pass that found it.
Hit(t, m) == m = [rank |-> m.rank, actual |-> m.actual] /\ m.rank \in Nat /\ Occurs(t, m.actual)

LEMMA FirstHitsOccur ==
  ASSUME NEW t, IsText(t), NEW q, IsText(q), NEW ranks \in SUBSET Ranks,
         NEW m \in FirstHits(t, q, ranks)
  PROVE  m = NoMatch \/ Hit(t, m)
<1> DEFINE hits == [r \in ranks |-> Finds(r, t, q) \ {<<>>}]
<1>1. m = NoMatch \/ \E r \in ranks : \E a \in hits[r] : m = [rank |-> r, actual |-> a]
  <2> HIDE DEF hits
  <2> QED
    BY DEF FirstHits, hits
<1>2. ASSUME NEW r \in ranks, NEW a \in hits[r] PROVE r \in Nat /\ Occurs(t, a)
  BY FindsOccur DEF Ranks
<1> QED
  BY <1>1, <1>2 DEF Hit

LEMMA ToLineTailOccurs ==
  ASSUME NEW t, IsText(t), NEW q, NEW a, Occurs(t, a)
  PROVE  Occurs(t, ToLineTail(t, q, a))
<1> DEFINE at == IndexOf(t, a)
           k == LineAt(t, at)
<1>1. ToLineTail(t, q, a) \in {a, Slice(t, at, Lines(t)[k][2])}
  BY DEF ToLineTail
<1>2. at \in Nat
  BY IndexIs
<1>3. k \in DOMAIN Lines(t)
  BY LineAtIs
<1>4. Lines(t)[k][2] \in Nat
  BY <1>3, LinesAre DEF IsText
<1> QED
  BY <1>1, <1>2, <1>4, SliceOccurs

LEMMA FindMatchOccurs ==
  ASSUME NEW t, IsText(t), NEW q, IsText(q), NEW ranks \in SUBSET Ranks,
         NEW m \in FindMatch(t, q, ranks)
  PROVE  m = NoMatch \/ Hit(t, m)
<1>1. PICK h \in FirstHits(t, q, ranks) :
        m = IF h = NoMatch THEN h ELSE [h EXCEPT !.actual = ToLineTail(t, q, @)]
  BY DEF FindMatch
<1>2. CASE h = NoMatch
  BY <1>1, <1>2
<1>3. CASE h # NoMatch
  <2>1. Hit(t, h)
    BY <1>3, FirstHitsOccur
  <2>2. Occurs(t, ToLineTail(t, q, h.actual))
    BY <2>1, ToLineTailOccurs DEF Hit
  <2>3. m = [rank |-> h.rank, actual |-> ToLineTail(t, q, h.actual)]
    BY <1>1, <1>3, <2>1 DEF Hit
  <2> QED
    BY <2>1, <2>2, <2>3 DEF Hit
<1> QED
  BY <1>2, <1>3

LEMMA StrongerOccurs ==
  ASSUME NEW t, IsText(t), NEW q, IsText(q), NEW rank, NEW m \in Stronger(t, q, rank)
  PROVE  m = NoMatch \/ Hit(t, m)
<1> DEFINE ranks == {r \in Ranks : r < rank}
<1>1. ranks \in SUBSET Ranks /\ m \in FirstHits(t, q, ranks)
  BY DEF Stronger
<1> HIDE DEF ranks
<1> QED
  BY <1>1, FirstHitsOccur


-----------------------------------------------------------------------------
(* Outcomes.                                                                 *)

\* A block, and what may be made of it: spans of the text.
IsBlock(r) ==
  /\ IsText(r.old) /\ IsText(r.new) /\ IsText(r.anchor)
  /\ r = [old |-> r.old, new |-> r.new, anchor |-> r.anchor, all |-> r.all]

Spans(t) == {s \in Nat \X Nat : s[1] <= s[2] /\ s[2] <= Len(t)}
Sound(t, o) == o.spans \subseteq Spans(t) /\ o.rank \in Nat

LEMMA AppliedSound ==
  ASSUME NEW t, NEW spans, spans \subseteq Spans(t), NEW rank \in Nat
  PROVE  Sound(t, Applied(spans, rank))
BY DEF Sound, Applied

LEMMA FailedSound ==
  ASSUME NEW t, NEW status
  PROVE  Sound(t, Failed(status)) /\ Sound(t, NotFound)
BY DEF Sound, Failed, NotFound

\* Taking the places from left to right is a function of those before.
LEMMA TakenExists ==
  ASSUME NEW t, NEW s, Len(t) \in Nat
  PROVE  \E f : f = [i \in 0 .. Len(t) |->
                       i \in Places(t, s) /\ \A j \in 0 .. i - 1 : j + Len(s) > i => ~f[j]]
<1> DEFINE P == Places(t, s)
           size == Len(s)
           n == Len(t)
           Take(f, i) == i \in P /\ \A j \in 0 .. i - 1 : j + size > i => ~f[j]
           Runs(m) == \E f : f = [i \in 0 .. m - 1 |-> Take(f, i)]
           None == {m \in Nat : ~Runs(m)}
<1>0. n \in Nat
  OBVIOUS
<1> HIDE DEF P, size, n
<1>1. None = {}
  <2> SUFFICES ASSUME None # {} PROVE FALSE
    OBVIOUS
  <2>1. PICK m \in None : \A x \in None : m <= x
    <3>1. None \in SUBSET Nat
      OBVIOUS
    <3> HIDE DEF None
    <3> QED
      BY <3>1, LeastExists
  <2>2. CASE m = 0
    <3> DEFINE f == [i \in 0 .. 0 - 1 |-> TRUE]
    <3>1. f = [i \in 0 .. 0 - 1 |-> Take(f, i)]
      OBVIOUS
    <3> QED
      BY <2>2, <3>1
  <2>3. CASE m # 0
    <3>1. m - 1 \in Nat /\ Runs(m - 1)
      <4> HIDE DEF Runs
      <4> QED
        BY <2>1, <2>3
    <3>2. PICK g : g = [i \in 0 .. (m - 1) - 1 |-> Take(g, i)]
      BY <3>1, Zenon
    <3> DEFINE f == [i \in 0 .. m - 1 |-> IF i = m - 1 THEN Take(g, i) ELSE g[i]]
    <3>3. \A i \in 0 .. m - 1 : i # m - 1 => i \in 0 .. (m - 1) - 1
      BY <3>1
    <3>4. \A i \in 0 .. m - 1 : \A j \in 0 .. i - 1 : j \in 0 .. m - 1 /\ j # m - 1
      BY <3>1
    <3>5. \A i \in 0 .. m - 1 : \A j \in 0 .. i - 1 : f[j] = g[j]
      BY <3>4
    <3>6. \A i \in 0 .. m - 1 : Take(f, i) = Take(g, i)
      <4> HIDE DEF f
      <4> QED
        BY <3>5
    <3>7. ASSUME NEW i \in 0 .. m - 1 PROVE f[i] = Take(f, i)
      <4>1. f[i] = IF i = m - 1 THEN Take(g, i) ELSE g[i]
        OBVIOUS
      <4>2. i # m - 1 => g[i] = Take(g, i)
        <5>1. i # m - 1 => i \in 0 .. (m - 1) - 1
          BY <3>3
        <5> HIDE DEF Take
        <5> QED
          BY <3>2, <5>1
      <4> HIDE DEF f, Take
      <4> QED
        BY <3>6, <4>1, <4>2
    <3>8. f = [i \in 0 .. m - 1 |-> Take(f, i)]
      <4>1. f = [i \in 0 .. m - 1 |-> f[i]]
        OBVIOUS
      <4> HIDE DEF f, Take
      <4> QED
        BY <3>7, <4>1
    <3> QED
      BY <2>1, <3>8
  <2> QED
    BY <2>2, <2>3
<1>2. n + 1 \in Nat /\ (n + 1) - 1 = n
  BY <1>0
<1>3. Runs(n + 1)
  <2> HIDE DEF Runs
  <2> QED
    BY <1>1, <1>2
<1>4. \E f : f = [i \in 0 .. n |-> Take(f, i)]
  <2> HIDE DEF Take
  <2> QED
    BY <1>2, <1>3
<1> QED
  BY <1>4 DEF n, P, size

LEMMA AllSpansAre ==
  ASSUME NEW t, IsText(t), NEW s, IsText(s)
  PROVE  AllSpans(t, s) \subseteq Spans(t)
<1>1. ASSUME NEW x \in AllSpans(t, s)
      PROVE  \E i \in 0 .. Len(t) : x = <<i, i + Len(s)>> /\ i \in Places(t, s)
  <2> DEFINE P == Places(t, s)
             size == Len(s)
             Take(f, i) == i \in P /\ \A j \in 0 .. i - 1 : j + size > i => ~f[j]
             taken == CHOOSE f : f = [i \in 0 .. Len(t) |-> Take(f, i)]
  <2>1. taken = [i \in 0 .. Len(t) |-> Take(taken, i)]
    <3>1. \E f : f = [i \in 0 .. Len(t) |-> Take(f, i)]
      <4>1. Len(t) \in Nat
        BY DEF IsText
      <4> QED
        BY <4>1, TakenExists, Zenon
    <3> HIDE DEF Take
    <3> QED
      BY <3>1
  <2>2. PICK i \in {j \in 0 .. Len(t) : taken[j]} : x = <<i, i + size>>
    BY DEF AllSpans
  <2> HIDE DEF taken
  <2>3. Take(taken, i)
    <3> HIDE DEF Take
    <3> QED
      BY <2>1
  <2> QED
    BY <2>2, <2>3
<1> QED
  BY <1>1, PlacesAre DEF Spans, IsText

LEMMA SpanOfIs ==
  ASSUME NEW t, IsText(t), NEW s, Occurs(t, s)
  PROVE  {SpanOf(t, s, 0)} \subseteq Spans(t)
<1> DEFINE at == IndexOf(t, s)
<1>1. at \in Nat /\ at + Len(s) <= Len(t) /\ Len(s) \in Nat /\ Len(t) \in Nat
  BY IndexIs DEF Occurs, IsText
<1>2. SpanOf(t, s, 0) = <<0 + at, 0 + at + Len(s)>>
  BY DEF SpanOf
<1> HIDE DEF at
<1> QED
  BY <1>1, <1>2 DEF Spans

\* A window of a text, and the text in it.
IsWindow(t, w) == w.from \in 0 .. Len(t) /\ w.to \in 0 .. Len(t)

LEMMA ScopeIs ==
  ASSUME NEW t, IsText(t), NEW w, IsWindow(t, w)
  PROVE  IsText(Scope(t, w)) /\ Len(Scope(t, w)) + w.from <= Len(t)
<1> DEFINE a == w.from
           b == w.to
           s == Slice(t, a, b)
<1>1. Len(t) \in Nat /\ a \in Nat /\ b \in Nat /\ a <= Len(t) /\ b <= Len(t)
  BY DEF IsText, IsWindow
<1>2. Scope(t, w) = s
  BY DEF Scope
<1>3. Min2(b, Len(t)) = b
  BY <1>1 DEF Min2
<1> HIDE DEF a, b
<1>4. IsText(s) /\ Len(s) = IF a < Min2(b, Len(t)) THEN Min2(b, Len(t)) - a ELSE 0
  BY <1>1, SliceIs
<1> HIDE DEF s
<1>5. Len(s) + a <= Len(t)
  BY <1>1, <1>3, <1>4
<1> QED
  BY <1>2, <1>4, <1>5 DEF a

LEMMA WholeIs ==
  ASSUME NEW t, IsText(t)
  PROVE  IsWindow(t, Whole(t))
BY DEF IsWindow, Whole, IsText

LEMMA WindowIs ==
  ASSUME NEW t, IsText(t), NEW a, Occurs(t, a)
  PROVE  IsWindow(t, Window(t, a))
<1> DEFINE n == Len(Lines(t))
           at == IndexOf(t, a)
           first == LineAt(t, at) - MaxExpandLines
           last == LineAt(t, at + Len(a) - 1) + MaxExpandLines
<1>1. /\ n \in Nat /\ DOMAIN Lines(t) = 1 .. n
      /\ \A k \in 1 .. n : Lines(t)[k][1] \in 0 .. Len(t)
  BY LinesAre
<1>2. Len(t) \in Nat /\ MaxExpandLines \in Nat
  BY ResolutionAssumption DEF IsText, ResolutionAssumption
<1>3. LineAt(t, at) \in 1 .. n /\ LineAt(t, at + Len(a) - 1) \in 1 .. n
  BY <1>1, LineAtIs
<1>4. first \in Int /\ first <= n /\ last \in Nat
  BY <1>1, <1>2, <1>3
<1>5. Window(t, a) = [from |-> IF first > 1 THEN Lines(t)[first][1] ELSE 0,
                      to |-> IF last < n THEN Lines(t)[last + 1][1] ELSE Len(t),
                      anchored |-> TRUE]
  BY DEF Window
<1> HIDE DEF n, first, last
<1>6. (IF first > 1 THEN Lines(t)[first][1] ELSE 0) \in 0 .. Len(t)
  BY <1>1, <1>2, <1>4
<1>7. (IF last < n THEN Lines(t)[last + 1][1] ELSE Len(t)) \in 0 .. Len(t)
  BY <1>1, <1>2, <1>4
<1> QED
  BY <1>5, <1>6, <1>7 DEF IsWindow

LEMMA AutoExpandIs ==
  ASSUME NEW scope, NEW a
  PROVE  AutoExpand(scope, a) \subseteq AllSpans(scope, a)
BY DEF AutoExpand

LEMMA PlacedSound ==
  ASSUME NEW t, IsText(t), NEW r, NEW w, IsWindow(t, w), NEW m, IsText(m.actual), m.rank \in Nat
  PROVE  Sound(t, Placed(t, r, w, m))
<1> DEFINE scope == Scope(t, w)
           spans == AllSpans(scope, m.actual)
           Shift(S) == {<<s[1] + w.from, s[2] + w.from>> : s \in S}
<1>1. IsText(scope) /\ Len(scope) + w.from <= Len(t) /\ w.from \in Nat
  BY ScopeIs DEF IsWindow
<1>2. spans \subseteq Spans(scope) /\ AutoExpand(scope, m.actual) \subseteq spans
  BY <1>1, AllSpansAre, AutoExpandIs
<1>3. ASSUME NEW S, S \subseteq spans PROVE Shift(S) \subseteq Spans(t)
  <2>1. ASSUME NEW s \in Spans(scope) PROVE <<s[1] + w.from, s[2] + w.from>> \in Spans(t)
    BY <1>1 DEF Spans, IsText
  <2> HIDE DEF scope, spans
  <2> QED
    BY <1>2, <1>3, <2>1
<1>4. AllSpans(t, m.actual) \subseteq Spans(t)
  BY AllSpansAre
<1>5. \/ \E status : Placed(t, r, w, m) = Failed(status)
      \/ Placed(t, r, w, m) = Applied(AllSpans(t, m.actual), m.rank)
      \/ Placed(t, r, w, m) = Applied(Shift(spans), m.rank)
      \/ Placed(t, r, w, m) = Applied(Shift(AutoExpand(scope, m.actual)), m.rank)
  BY DEF Placed
<1> HIDE DEF scope, spans, Shift
<1> QED
  BY <1>2, <1>3, <1>4, <1>5, AppliedSound, FailedSound

LEMMA MissedSound ==
  ASSUME NEW t, NEW r
  PROVE  Sound(t, Missed(t, r))
BY FailedSound DEF Missed

LEMMA FullRetrySound ==
  ASSUME NEW t, IsText(t), NEW r, IsText(r.old), NEW o \in FullRetry(t, r)
  PROVE  Sound(t, o)
<1>1. PICK m \in FindMatch(t, r.old, Ranks) :
        o = IF m = NoMatch THEN Missed(t, r)
            ELSE IF Ambiguous(t, m.actual) THEN Failed("ambiguous")
            ELSE Applied({SpanOf(t, m.actual, 0)}, m.rank)
  BY DEF FullRetry
<1>2. CASE m = NoMatch
  BY <1>1, <1>2, MissedSound
<1>3. CASE m # NoMatch
  <2>1. Hit(t, m)
    BY <1>3, FindMatchOccurs
  <2>2. {SpanOf(t, m.actual, 0)} \subseteq Spans(t) /\ m.rank \in Nat
    BY <2>1, SpanOfIs DEF Hit
  <2> QED
    BY <1>1, <1>3, <2>2, AppliedSound, FailedSound
<1> QED
  BY <1>2, <1>3

LEMMA UnanchoredSound ==
  ASSUME NEW t, IsText(t), NEW r, IsText(r.old), NEW o \in Unanchored(t, r)
  PROVE  Sound(t, o)
<1>1. PICK m \in FindMatch(t, r.old, Ranks) :
        o = IF m = NoMatch \/ Ambiguous(t, m.actual) THEN NotFound
            ELSE Applied({SpanOf(t, m.actual, 0)}, m.rank)
  BY DEF Unanchored
<1>2. CASE m = NoMatch
  BY <1>1, <1>2, FailedSound
<1>3. CASE m # NoMatch
  <2>1. Hit(t, m)
    BY <1>3, FindMatchOccurs
  <2>2. {SpanOf(t, m.actual, 0)} \subseteq Spans(t) /\ m.rank \in Nat
    BY <2>1, SpanOfIs DEF Hit
  <2> QED
    BY <1>1, <1>3, <2>2, AppliedSound, FailedSound
<1> QED
  BY <1>2, <1>3

LEMMA InScopeSound ==
  ASSUME NEW t, IsText(t), NEW r, IsText(r.old), NEW w, IsWindow(t, w), NEW o \in InScope(t, r, w)
  PROVE  Sound(t, o)
<1> DEFINE scope == Scope(t, w)
<1>1. PICK m \in FindMatch(scope, r.old, Ranks) :
        \/ m = NoMatch /\ o \in FullRetry(t, r) \cup {Missed(t, r)}
        \/ m # NoMatch /\ o = Placed(t, r, w, m)
        \/ /\ m # NoMatch
           /\ \E s \in Stronger(t, r.old, m.rank) :
                (s # NoMatch /\ o = Placed(t, r, Whole(t), s)) \/ o = Placed(t, r, w, m)
  BY DEF InScope
<1>2. IsText(scope)
  BY ScopeIs
<1>3. CASE m = NoMatch
  BY <1>1, <1>3, MissedSound, FullRetrySound
<1>4. CASE m # NoMatch
  <2>1. IsText(m.actual) /\ m.rank \in Nat
    BY <1>2, <1>4, FindMatchOccurs DEF Hit, Occurs
  <2>2. Sound(t, Placed(t, r, w, m))
    BY <2>1, PlacedSound
  <2>3. ASSUME NEW s \in Stronger(t, r.old, m.rank), s # NoMatch
        PROVE  Sound(t, Placed(t, r, Whole(t), s))
    <3>1. IsText(s.actual) /\ s.rank \in Nat
      BY <2>3, StrongerOccurs DEF Hit, Occurs
    <3> QED
      BY <3>1, PlacedSound, WholeIs
  <2> QED
    BY <1>1, <1>4, <2>2, <2>3
<1> QED
  BY <1>3, <1>4

LEMMA AnchorHitsOccur ==
  ASSUME NEW t, IsText(t), NEW anchor, IsText(anchor), NEW m \in AnchorHits(t, anchor), m # NoMatch
  PROVE  Occurs(t, m.actual)
<1>1. Ranks \ SearchOnly \in SUBSET Ranks
  OBVIOUS
<1> QED
  BY <1>1, FindMatchOccurs DEF AnchorHits, Hit

LEMMA NearMissesAre ==
  ASSUME NEW t, IsText(t), NEW c \in NearMisses(t)
  PROVE  IsText(c)
<1>1. PICK i, j \in DOMAIN Lines(t) : c = Trim(Joined(t, i, j))
  BY LinesAre DEF NearMisses
<1> QED
  BY <1>1, JoinedOccurs, TrimIs DEF Occurs

LEMMA AnchorLostSound ==
  ASSUME NEW t, IsText(t), NEW r, IsText(r.old), NEW o \in AnchorLost(t, r)
  PROVE  Sound(t, o)
<1>1. \/ o \in Unanchored(t, r)
      \/ o \in InScope(t, r, Whole(t))
      \/ \E c \in NearMisses(t) : \E m \in AnchorHits(t, c) :
           m # NoMatch /\ o \in InScope(t, r, Window(t, m.actual))
  BY DEF AnchorLost
<1>2. ASSUME NEW c \in NearMisses(t) PROVE IsText(c)
  BY NearMissesAre
<1>3. ASSUME NEW c \in NearMisses(t), NEW m \in AnchorHits(t, c), m # NoMatch
      PROVE  IsWindow(t, Window(t, m.actual))
  BY <1>2, <1>3, AnchorHitsOccur, WindowIs
<1> QED
  BY <1>1, <1>3, UnanchoredSound, InScopeSound, WholeIs

LEMMA OutcomesSound ==
  ASSUME NEW t, IsText(t), NEW r, IsBlock(r), NEW o \in Outcomes(t, r)
  PROVE  Sound(t, o)
<1>1. IsText(r.old) /\ IsText(r.anchor)
  BY DEF IsBlock
<1>2. CASE r.old = <<>>
  <2>1. o \in {Applied({<<0, 0>>}, 0), Failed("validation")}
    BY <1>2 DEF Outcomes
  <2>2. {<<0, 0>>} \subseteq Spans(t)
    BY DEF Spans, IsText
  <2> QED
    BY <2>1, <2>2, AppliedSound, FailedSound
<1>3. CASE r.old # <<>> /\ Normalize(r.old) = Normalize(r.new)
  <2>1. o = Failed("noop")
    BY <1>3 DEF Outcomes
  <2> QED
    BY <2>1, FailedSound
<1>4. CASE r.old # <<>> /\ Normalize(r.old) # Normalize(r.new)
  <2>1. \/ o \in InScope(t, r, Whole(t))
        \/ \E a \in AnchorHits(t, r.anchor) :
             \/ a = NoMatch /\ o \in AnchorLost(t, r)
             \/ o = Failed("ambiguous")
             \/ a # NoMatch /\ o \in InScope(t, r, Window(t, a.actual))
    BY <1>4 DEF Outcomes
  <2>2. ASSUME NEW a \in AnchorHits(t, r.anchor), a # NoMatch
        PROVE  IsWindow(t, Window(t, a.actual))
    BY <1>1, <2>2, AnchorHitsOccur, WindowIs
  <2> QED
    BY <1>1, <2>1, <2>2, InScopeSound, AnchorLostSound, FailedSound, WholeIs
<1> QED
  BY <1>2, <1>3, <1>4


-----------------------------------------------------------------------------
(* What autopatch makes of a block is a block.                               *)

LEMMA OldChanged ==
  ASSUME NEW r, IsBlock(r), NEW old, IsText(old)
  PROVE  IsBlock([r EXCEPT !.old = old])
<1>1. [r EXCEPT !.old = old] = [old |-> old, new |-> r.new, anchor |-> r.anchor, all |-> r.all]
  BY DEF IsBlock
<1> QED
  BY <1>1 DEF IsBlock

LEMMA NewChanged ==
  ASSUME NEW r, IsBlock(r), NEW new, IsText(new)
  PROVE  IsBlock([r EXCEPT !.new = new])
<1>1. [r EXCEPT !.new = new] = [old |-> r.old, new |-> new, anchor |-> r.anchor, all |-> r.all]
  BY DEF IsBlock
<1> QED
  BY <1>1 DEF IsBlock

LEMMA BothChanged ==
  ASSUME NEW r, IsBlock(r), NEW old, IsText(old), NEW new, IsText(new)
  PROVE  IsBlock([r EXCEPT !.old = old, !.new = new])
<1> DEFINE m == [r EXCEPT !.old = old]
<1>1. [r EXCEPT !.old = old, !.new = new] = [m EXCEPT !.new = new]
  OBVIOUS
<1>2. IsBlock(m)
  BY OldChanged
<1> HIDE DEF m
<1> QED
  BY <1>1, <1>2, NewChanged

LEMMA EscapeControlsBlock ==
  ASSUME NEW t, NEW r, IsBlock(r)
  PROVE  IsBlock(EscapeControls(t, r))
<1>1. IsText(Replaced(r.old, LF, EscapedLF))
  BY ReplacedIs DEF IsBlock
<1> QED
  BY <1>1, OldChanged DEF EscapeControls

LEMMA StrippedIs ==
  ASSUME NEW t, IsText(t)
  PROVE  IsText(Stripped(t).text) /\ Stripped(t).dropped \in Nat
<1> DEFINE n == Len(Lines(t))
           lines == [k \in DOMAIN Lines(t) |-> TrimEnd(Joined(t, k, k))]
           S == {1} \cup {k \in DOMAIN lines : lines[k] # <<>>}
           last == Max(S)
           front == SubSeq(lines, 1, last)
<1>1. Stripped(t) = [text |-> JoinedLines(front), dropped |-> Len(lines) - last]
  BY DEF Stripped
<1>2. n \in Nat \ {0} /\ DOMAIN Lines(t) = 1 .. n
  BY LinesAre
<1>3. \A k \in 1 .. n : lines[k] = TrimEnd(Joined(t, k, k)) /\ IsText(lines[k])
  <2>1. ASSUME NEW k \in 1 .. n PROVE IsText(TrimEnd(Joined(t, k, k)))
    BY <1>2, JoinedOccurs, TrimEndIs DEF Occurs
  <2> QED
    BY <1>2, <2>1
<1>4. lines = [k \in 1 .. n |-> lines[k]]
  BY <1>2
<1> HIDE DEF lines, n
<1>5. IsText(lines) /\ Len(lines) = n /\ DOMAIN lines = 1 .. n
  BY <1>2, <1>4, MakesText
<1>6. last \in 1 .. n
  <2>1. S \in SUBSET (1 .. n) /\ 1 \in S
    BY <1>2, <1>5
  <2> HIDE DEF S
  <2>2. S \in SUBSET Nat /\ S # {} /\ \A x \in S : x <= n
    BY <1>2, <2>1
  <2> QED
    BY <1>2, <2>1, <2>2, MaxIs
<1> HIDE DEF last
<1>7. /\ IsText(front) /\ Len(front) = last
      /\ \A k \in 1 .. last : front[k] = lines[k]
  <2>1. /\ IsText(front) /\ Len(front) = (IF 1 <= last THEN last - 1 + 1 ELSE 0)
        /\ \A k \in 1 .. Len(front) : front[k] = lines[1 - 1 + k]
    BY <1>2, <1>5, <1>6, CutIs
  <2> QED
    BY <1>6, <2>1
<1> HIDE DEF front
<1>8. \A k \in 1 .. last : IsText(front[k])
  BY <1>2, <1>3, <1>6, <1>7
<1>9. front # <<>>
  BY <1>6, <1>7
<1>10. IsText(JoinedLines(front))
  BY <1>7, <1>8, <1>9, JoinedLinesIs
<1> QED
  BY <1>1, <1>2, <1>5, <1>6, <1>10

LEMMA WithoutBlankEndIs ==
  ASSUME NEW t, IsText(t), NEW most \in Nat
  PROVE  IsText(WithoutBlankEnd(t, most))
<1> DEFINE n == Len(Lines(t))
           S == {1} \cup {k \in 1 .. n : TrimmedLines(t)[k] # <<>>}
           inked == Max(S)
           last == IF n - most > inked THEN n - most ELSE inked
<1>1. WithoutBlankEnd(t, most) = Joined(t, 1, last)
  BY DEF WithoutBlankEnd
<1>2. n \in Nat \ {0} /\ DOMAIN Lines(t) = 1 .. n
  BY LinesAre
<1> HIDE DEF n
<1>3. S \in SUBSET (1 .. n) /\ 1 \in S
  BY <1>2
<1> HIDE DEF S
<1>4. S \in SUBSET Nat /\ S # {} /\ \A x \in S : x <= n
  BY <1>2, <1>3
<1>5. inked \in 1 .. n
  BY <1>2, <1>3, <1>4, MaxIs
<1> HIDE DEF inked
<1>6. 1 \in DOMAIN Lines(t) /\ last \in DOMAIN Lines(t)
  BY <1>2, <1>5
<1> QED
  BY <1>1, <1>6, JoinedOccurs DEF Occurs

LEMMA StripTrailingBlock ==
  ASSUME NEW t, NEW r, IsBlock(r)
  PROVE  IsBlock(StripTrailing(t, r))
<1> DEFINE s == Stripped(r.old)
           new == IF s.dropped > 0 THEN WithoutBlankEnd(r.new, s.dropped) ELSE r.new
<1>1. IsText(s.text) /\ s.dropped \in Nat /\ IsText(r.new)
  BY StrippedIs DEF IsBlock
<1>2. IsText(new)
  BY <1>1, WithoutBlankEndIs
<1>3. StripTrailing(t, r) \in {r, [r EXCEPT !.old = s.text, !.new = new]}
  BY DEF StripTrailing
<1> DEFINE old == s.text
<1> HIDE DEF s, new, old
<1>4. IsBlock([r EXCEPT !.old = old, !.new = new])
  BY <1>1, <1>2, BothChanged DEF old
<1> QED
  BY <1>3, <1>4 DEF old

LEMMA IndentIs ==
  ASSUME NEW t, IsText(t)
  PROVE  Indent(t) \in Nat
<1> DEFINE back == Reverse(t)
<1>1. Len(t) \in Nat /\ back = [i \in 1 .. Len(t) |-> t[(Len(t) - i) + 1]]
  BY DEF IsText, Reverse
<1> HIDE DEF back
<1>2. back = [i \in 1 .. Len(t) |-> back[i]]
  BY <1>1
<1>3. IsText(back) /\ Len(back) = Len(t)
  BY <1>1, <1>2, MakesText
<1>4. IsText(TrimEnd(back)) /\ Len(TrimEnd(back)) <= Len(t)
  BY <1>3, TrimEndIs
<1>5. Len(TrimEnd(back)) \in Nat
  BY <1>4 DEF IsText
<1> QED
  BY <1>1, <1>4, <1>5 DEF Indent, back


LEMMA RetargetedIs ==
  ASSUME NEW new, IsText(new), NEW old, IsText(old), NEW mended, IsText(mended),
         DOMAIN Lines(old) \subseteq DOMAIN Lines(mended)
  PROVE  IsText(Retargeted(new, old, mended))
<1> DEFINE I(t, k) == Indent(Joined(t, k, k))
           moved == {k \in DOMAIN Lines(old) : I(old, k) # I(mended, k)}
           Goes(n) == {I(mended, k) : k \in {j \in moved : I(old, j) = n}}
           mapped == {n \in {I(old, k) : k \in moved} : Cardinality(Goes(n)) = 1}
           base == Min(mapped \ {0})
           Becomes(n) ==
             IF n = 0 THEN {0} ELSE IF n \in mapped THEN Goes(n)
             ELSE IF mapped \ {0} # {} /\ n % base = 0
                  THEN {(n \div base) * t : t \in Goes(base)} ELSE {}
           inked == {k \in DOMAIN Lines(new) : TrimmedLines(new)[k] # <<>>}
           Line(k) == Joined(new, k, k)
           Moved(k) ==
             IF k \notin inked THEN Line(k)
             ELSE LET n == CHOOSE t \in Becomes(I(new, k)) : TRUE IN
                  [j \in 1 .. n |-> SP] \o Slice(Line(k), I(new, k), Len(Line(k)))
           lines == [k \in DOMAIN Lines(new) |-> Moved(k)]
<1>1. \/ Retargeted(new, old, mended) = new
      \/ /\ \A k \in inked : Becomes(I(new, k)) # {}
         /\ Retargeted(new, old, mended) = JoinedLines(lines)
  BY DEF Retargeted
<1>2. ASSUME NEW t, IsText(t), NEW k \in DOMAIN Lines(t) PROVE I(t, k) \in Nat
  <2>1. IsText(Joined(t, k, k))
    BY <1>2, JoinedOccurs DEF Occurs
  <2> QED
    BY <2>1, IndentIs
<1>3. ASSUME NEW n PROVE Goes(n) \in SUBSET Nat
  BY <1>2
<1>4. mapped \in SUBSET Nat
  BY <1>2
<1> HIDE DEF I, Goes, mapped
<1>5. mapped \ {0} # {} => base \in Nat \ {0}
  <2> DEFINE S == mapped \ {0}
  <2>1. S \in SUBSET (Nat \ {0})
    BY <1>4
  <2> HIDE DEF S
  <2>2. S # {} => Min(S) \in S
    BY <2>1, MinIs
  <2> QED
    BY <2>1, <2>2 DEF S
<1> HIDE DEF base
<1>6. ASSUME NEW n \in Nat PROVE Becomes(n) \in SUBSET Nat
  <2>1. ASSUME mapped \ {0} # {}, NEW t \in Goes(base) PROVE (n \div base) * t \in Nat
    <3>1. n \div base \in Nat /\ t \in Nat
      BY <1>3, <1>5, <2>1
    <3> QED
      BY <3>1
  <2> QED
    BY <1>3, <2>1
<1> HIDE DEF Becomes
<1>7. CASE Retargeted(new, old, mended) = new
  BY <1>7
<1>8. CASE /\ \A k \in inked : Becomes(I(new, k)) # {}
           /\ Retargeted(new, old, mended) = JoinedLines(lines)
  <2> DEFINE n == Len(Lines(new))
  <2>1. n \in Nat \ {0} /\ DOMAIN Lines(new) = 1 .. n
    BY LinesAre
  <2>2. ASSUME NEW k \in 1 .. n PROVE IsText(Moved(k))
    <3>1. IsText(Line(k)) /\ Len(Line(k)) \in Nat /\ I(new, k) \in Nat
      BY <1>2, <2>1, JoinedOccurs DEF Occurs, IsText
    <3>2. CASE k \notin inked
      BY <3>1, <3>2
    <3>3. CASE k \in inked
      <4> DEFINE m == CHOOSE t \in Becomes(I(new, k)) : TRUE
                 blank == [j \in 1 .. m |-> SP]
                 rest == Slice(Line(k), I(new, k), Len(Line(k)))
      <4>1. m \in Nat
        BY <1>6, <1>8, <3>1, <3>3
      <4> HIDE DEF m
      <4>2. IsText(blank)
        <5>1. blank = [j \in 1 .. m |-> blank[j]]
          OBVIOUS
        <5> HIDE DEF blank
        <5> QED
          BY <4>1, <5>1, MakesText
      <4>3. IsText(rest)
        BY <3>1, SliceOccurs DEF Occurs
      <4>4. Moved(k) = blank \o rest
        BY <3>3 DEF m
      <4> HIDE DEF blank, rest, Moved
      <4> QED
        BY <4>2, <4>3, <4>4, ConcatIs
    <3> QED
      BY <3>2, <3>3
  <2> HIDE DEF n, Moved
  <2>3. lines = [k \in 1 .. n |-> lines[k]] /\ \A k \in 1 .. n : IsText(lines[k])
    BY <2>1, <2>2
  <2> HIDE DEF lines
  <2>4. IsText(lines) /\ Len(lines) = n
    BY <2>1, <2>3, MakesText
  <2>5. lines # <<>>
    BY <2>1, <2>4
  <2> QED
    BY <1>8, <2>3, <2>4, <2>5, JoinedLinesIs
<1> QED
  BY <1>1, <1>7, <1>8

LEMMA FixIndentBlock ==
  ASSUME NEW t, IsText(t), NEW r, IsBlock(r)
  PROVE  IsBlock(FixIndent(t, r))
<1> DEFINE n == Len(Lines(r.old))
           Same(c) == c # r.old /\ TrimmedLines(c) = TrimmedLines(r.old)
           hit == {Joined(t, i, i + n - 1) :
                     i \in FirstOf({k \in 1 .. Len(Lines(t)) - n + 1 : Same(Joined(t, k, k + n - 1))})}
           c0 == CHOOSE c \in hit : TRUE
<1>1. \/ FixIndent(t, r) = r
      \/ /\ hit # {}
         /\ FixIndent(t, r) = [r EXCEPT !.old = c0, !.new = Retargeted(@, r.old, c0)]
  BY DEF FixIndent, FirstLines
<1>2. ASSUME NEW c \in hit PROVE IsText(c) /\ TrimmedLines(c) = TrimmedLines(r.old)
  <2>1. PICK i \in 1 .. Len(Lines(t)) - n + 1 :
          c = Joined(t, i, i + n - 1) /\ Same(Joined(t, i, i + n - 1))
    BY DEF FirstOf
  <2>2. n \in Nat \ {0} /\ i \in DOMAIN Lines(t) /\ i + n - 1 \in DOMAIN Lines(t)
    BY LinesAre DEF IsBlock
  <2> QED
    BY <2>1, <2>2, JoinedOccurs DEF Occurs
<1>3. CASE hit # {} /\ FixIndent(t, r) = [r EXCEPT !.old = c0, !.new = Retargeted(@, r.old, c0)]
  <2>1. IsText(c0) /\ TrimmedLines(c0) = TrimmedLines(r.old)
    <3>1. c0 \in hit
      BY <1>3
    <3> HIDE DEF c0, hit
    <3> QED
      BY <1>2, <3>1
  <2> HIDE DEF c0
  <2>2. IsText(r.old) /\ IsText(r.new)
    BY DEF IsBlock
  <2>3. DOMAIN Lines(r.old) \subseteq DOMAIN Lines(c0)
    BY <2>1, <2>2, TrimmedLinesAre
  <2> DEFINE new == Retargeted(r.new, r.old, c0)
  <2>4. IsText(new)
    BY <2>1, <2>2, <2>3, RetargetedIs
  <2>5. FixIndent(t, r) = [r EXCEPT !.old = c0, !.new = new]
    BY <1>3
  <2> HIDE DEF new
  <2>6. IsBlock([r EXCEPT !.old = c0, !.new = new])
    BY <2>1, <2>4, BothChanged
  <2> QED
    BY <2>5, <2>6
<1> QED
  BY <1>1, <1>3

LEMMA AutopatchBlock ==
  ASSUME NEW t, IsText(t), NEW r, IsBlock(r)
  PROVE  IsBlock(Autopatch(t, r))
BY EscapeControlsBlock, StripTrailingBlock, FixIndentBlock DEF Autopatch

-----------------------------------------------------------------------------
(* A telling pass finds one text at most, and the chain stops there.         *)

AtMostOne(S) == \A a, b \in S : a = b

LEMMA FirstIsOne ==
  ASSUME NEW S, \A i \in S : i \in Int
  PROVE  AtMostOne(FirstOf(S))
<1>1. ASSUME NEW a \in FirstOf(S), NEW b \in FirstOf(S) PROVE a = b
  <2>1. a \in S /\ b \in S /\ a <= b /\ b <= a
    BY DEF FirstOf
  <2>2. a \in Int /\ b \in Int
    BY <2>1
  <2> QED
    BY <2>1, <2>2
<1> QED
  BY <1>1 DEF AtMostOne

LEMMA FirstRunIsOne ==
  ASSUME NEW t, NEW got, NEW want
  PROVE  AtMostOne(FirstRun(t, got, want))
<1> DEFINE n == Len(want)
           S == {k \in 1 .. Len(Lines(t)) - n + 1 : SubSeq(got, k, k + n - 1) = want}
<1>1. FirstRun(t, got, want) = {Joined(t, i, i + n - 1) : i \in FirstOf(S)}
  BY DEF FirstRun, FirstLines
<1>2. AtMostOne(FirstOf(S))
  <2>1. \A i \in S : i \in Int
    OBVIOUS
  <2> HIDE DEF S
  <2> QED
    BY <2>1, FirstIsOne
<1> HIDE DEF S, n
<1> QED
  BY <1>1, <1>2 DEF AtMostOne

LEMMA VerbatimIsOne ==
  ASSUME NEW t, NEW q
  PROVE  AtMostOne(Verbatim(t, q))
BY DEF AtMostOne, Verbatim

LEMMA LineTrimmedIsOne ==
  ASSUME NEW t, NEW q
  PROVE  AtMostOne(LineTrimmed(t, q))
<1> DEFINE want == TrimmedLines(q)
           inked == {k \in DOMAIN want : want[k] # <<>>}
<1>1. LineTrimmed(t, q) \in {{}, FirstRun(t, TrimmedLines(t), SubSeq(want, Min(inked), Max(inked)))}
  BY DEF LineTrimmed
<1> HIDE DEF want, inked
<1> QED
  BY <1>1, FirstRunIsOne DEF AtMostOne

LEMMA WhitespaceNormalizedIsOne ==
  ASSUME NEW t, NEW q
  PROVE  AtMostOne(WhitespaceNormalized(t, q))
<1>1. WhitespaceNormalized(t, q) \in {{}, FirstRun(t, CollapsedLines(t), CollapsedLines(q))}
  BY DEF WhitespaceNormalized
<1> QED
  BY <1>1, FirstRunIsOne DEF AtMostOne

LEMMA IndentationFlexibleIsOne ==
  ASSUME NEW t, IsText(t), NEW q
  PROVE  AtMostOne(IndentationFlexible(t, q))
<1> DEFINE want == InkedLines(q)
           got == TrimmedLines(t)
           Reach(i) == Ascending({k \in i .. Min2(i + 3 * Len(want) - 1, Len(got)) : got[k] # <<>>})
           Fits(i) == /\ want # <<>> /\ got[i] = want[1] /\ Len(Reach(i)) >= Len(want)
                      /\ \A k \in DOMAIN want : got[Reach(i)[k]] = want[k]
           S == {j \in DOMAIN got : Fits(j)}
<1>1. IndentationFlexible(t, q) = {Joined(t, i, Reach(i)[Len(want)]) : i \in FirstOf(S)}
  BY DEF IndentationFlexible
<1>2. DOMAIN got = DOMAIN Lines(t) /\ DOMAIN Lines(t) = 1 .. Len(Lines(t))
  BY TrimmedLinesAre, LinesAre
<1> HIDE DEF Fits, got
<1>3. \A i \in S : i \in Int
  BY <1>2
<1> HIDE DEF S, Reach
<1>4. AtMostOne(FirstOf(S))
  BY <1>3, FirstIsOne
<1> QED
  BY <1>1, <1>4 DEF AtMostOne

LEMMA EscapeNormalizedIsOne ==
  ASSUME NEW t, NEW q
  PROVE  AtMostOne(EscapeNormalized(t, q))
<1> DEFINE p == Replaced(Replaced(q, EscapedLF, LF), EscapedQuote, Quote)
<1>1. EscapeNormalized(t, q) \in {{}, Verbatim(t, p)}
  BY DEF EscapeNormalized
<1> HIDE DEF p
<1> QED
  BY <1>1, VerbatimIsOne DEF AtMostOne

LEMMA UnicodeNormalizedIsOne ==
  ASSUME NEW t, IsText(t), NEW q, IsText(q)
  PROVE  AtMostOne(UnicodeNormalized(t, q))
<1> DEFINE plain == Replaced(q, CurlyQuote, Quote)
           S == Places(Replaced(t, CurlyQuote, Quote), plain)
<1>1. UnicodeNormalized(t, q) \in {{}, {Slice(t, i, i + Len(plain)) : i \in FirstOf(S)}}
  BY DEF UnicodeNormalized
<1>2. IsText(plain) /\ IsText(Replaced(t, CurlyQuote, Quote))
  BY ReplacedIs
<1>3. S \in SUBSET Nat
  BY <1>2, PlacesAre
<1> HIDE DEF S, plain
<1>4. AtMostOne(FirstOf(S))
  <2>1. \A i \in S : i \in Int
    BY <1>3
  <2> QED
    BY <2>1, FirstIsOne
<1> QED
  BY <1>1, <1>4 DEF AtMostOne

LEMMA TellingFindsOne ==
  ASSUME NEW t, IsText(t), NEW q, IsText(q), NEW rank \in Telling
  PROVE  AtMostOne(Finds(rank, t, q))
<1>1. CASE rank = 1
  BY <1>1, VerbatimIsOne DEF Finds
<1>2. CASE rank = 2
  BY <1>2, LineTrimmedIsOne DEF Finds
<1>3. CASE rank = 3
  BY <1>3, WhitespaceNormalizedIsOne DEF Finds
<1>4. CASE rank = 4
  BY <1>4, IndentationFlexibleIsOne DEF Finds
<1>5. CASE rank = 5
  BY <1>5, EscapeNormalizedIsOne DEF Finds
<1>6. CASE rank = 6
  BY <1>6, UnicodeNormalizedIsOne DEF Finds
<1>7. rank = 1 \/ rank = 2 \/ rank = 3 \/ rank = 4 \/ rank = 5 \/ rank = 6
  BY DEF Telling
<1> QED
  BY <1>1, <1>2, <1>3, <1>4, <1>5, <1>6, <1>7

\* A hit comes from a pass, and no pass before it without scores has one.
LEMMA FirstHitsAre ==
  ASSUME NEW t, NEW q, NEW ranks \in SUBSET Ranks, NEW m \in FirstHits(t, q, ranks)
  PROVE  /\ m # NoMatch =>
              m.rank \in ranks /\ m.actual \in Finds(m.rank, t, q) \ {<<>>}
         /\ \A k \in ranks \ Scored :
              Finds(k, t, q) \ {<<>>} # {} => m # NoMatch /\ m.rank <= k
<1> DEFINE hits == [r \in ranks |-> Finds(r, t, q) \ {<<>>}]
           sure == {r \in ranks \ Scored : hits[r] # {}}
<1>1. \/ m = NoMatch /\ sure = {}
      \/ \E r \in ranks : \E a \in hits[r] :
           m = [rank |-> r, actual |-> a] /\ \A j \in sure : r <= j
  <2> HIDE DEF hits
  <2> QED
    BY DEF FirstHits, hits
<1>2. CASE m = NoMatch /\ sure = {}
  BY <1>2
<1>3. ASSUME NEW r \in ranks, NEW a \in hits[r],
             m = [rank |-> r, actual |-> a], \A j \in sure : r <= j
      PROVE  /\ m # NoMatch /\ m.rank = r /\ m.actual = a
  BY <1>3 DEF NoMatch, Ranks
<1> QED
  BY <1>1, <1>2, <1>3

LEMMA FindMatchRank ==
  ASSUME NEW t, NEW q, NEW ranks \in SUBSET Ranks, NEW m \in FindMatch(t, q, ranks),
         NEW k \in ranks \ Scored, Finds(k, t, q) \ {<<>>} # {}
  PROVE  m # NoMatch /\ m.rank <= k
<1>1. PICK h \in FirstHits(t, q, ranks) :
        m = IF h = NoMatch THEN h ELSE [h EXCEPT !.actual = ToLineTail(t, q, @)]
  BY DEF FindMatch
<1>2. h # NoMatch /\ h.rank <= k /\ h.rank \in ranks
  BY FirstHitsAre
<1>3. \E r, a : h = [rank |-> r, actual |-> a]
  <2> DEFINE hits == [r \in ranks |-> Finds(r, t, q) \ {<<>>}]
  <2> HIDE DEF hits
  <2> QED
    BY <1>2 DEF FirstHits, hits
<1>4. m = [rank |-> h.rank, actual |-> ToLineTail(t, q, h.actual)]
  BY <1>1, <1>2, <1>3
<1>5. m.rank = h.rank
  BY <1>4
<1> QED
  BY <1>2, <1>4, <1>5 DEF NoMatch, Ranks

-----------------------------------------------------------------------------
(* No outcome is weaker than a telling hit that is alone in the text.        *)

NotAfter(o, k) == o.spans = {} \/ o.rank <= k

LEMMA FailedNotAfter ==
  ASSUME NEW status, NEW k
  PROVE  NotAfter(Failed(status), k) /\ NotAfter(NotFound, k)
BY DEF NotAfter, Failed, NotFound

LEMMA PlacedNotAfter ==
  ASSUME NEW t, NEW r, NEW w, NEW m, NEW k, m.rank <= k
  PROVE  NotAfter(Placed(t, r, w, m), k)
<1>1. (\E status : Placed(t, r, w, m) = Failed(status)) \/ \E S : Placed(t, r, w, m) = Applied(S, m.rank)
  BY DEF Placed
<1>2. ASSUME NEW S PROVE Applied(S, m.rank).rank = m.rank
  BY DEF Applied
<1> QED
  BY <1>1, <1>2, FailedNotAfter DEF NotAfter

LEMMA WholeScope ==
  ASSUME NEW t, IsText(t)
  PROVE  Scope(t, Whole(t)) = t
<1> DEFINE zero == 0
           n == Len(t)
           s == Slice(t, zero, n)
           e == IF zero < Min2(n, Len(t)) THEN Min2(n, Len(t)) - zero ELSE 0
<1>1. n \in Nat /\ zero \in Nat /\ e = n /\ \A i \in 1 .. n : zero + i = i
  BY DEF IsText, Min2
<1>2. Scope(t, Whole(t)) = s
  BY DEF Scope, Whole
<1> HIDE DEF zero, n
<1>3. IsText(s) /\ Len(s) = e /\ \A i \in 1 .. e : s[i] = t[zero + i]
  BY <1>1, SliceIs
<1> HIDE DEF s, e
<1>4. s = t
  BY <1>1, <1>3, SameText DEF n
<1> QED
  BY <1>2, <1>4

\* A telling hit that is alone in the text.
Beacon(t, q, hit) == hit \in FirstHits(t, q, Telling) /\ Clear(t, q, hit)

LEMMA BeaconIs ==
  ASSUME NEW t, IsText(t), NEW q, NEW hit, Beacon(t, q, hit)
  PROVE  /\ hit.rank \in Telling /\ hit.rank \in Ranks \ Scored
         /\ hit.actual \in Finds(hit.rank, t, q) \ {<<>>}
         /\ \A k \in Telling : Finds(k, t, q) \ {<<>>} # {} => hit.rank <= k
<1>1. Telling \in SUBSET Ranks /\ Telling \in SUBSET (Ranks \ Scored)
  BY DEF Telling, Ranks, Scored
<1>2. hit # NoMatch
  BY DEF Beacon, Clear
<1> QED
  BY <1>1, <1>2, FirstHitsAre DEF Beacon

LEMMA FullRetryNotAfter ==
  ASSUME NEW t, IsText(t), NEW r, NEW hit, Beacon(t, r.old, hit),
         NEW o \in FullRetry(t, r) \cup Unanchored(t, r)
  PROVE  NotAfter(o, hit.rank)
<1>1. ASSUME NEW m \in FindMatch(t, r.old, Ranks) PROVE m # NoMatch /\ m.rank <= hit.rank
  BY BeaconIs, FindMatchRank
<1>2. PICK m \in FindMatch(t, r.old, Ranks) :
        \/ m = NoMatch
        \/ o = Failed("ambiguous")
        \/ o = NotFound
        \/ o = Applied({SpanOf(t, m.actual, 0)}, m.rank)
  BY DEF FullRetry, Unanchored
<1>3. Applied({SpanOf(t, m.actual, 0)}, m.rank).rank = m.rank
  BY DEF Applied
<1> QED
  BY <1>1, <1>2, <1>3, FailedNotAfter DEF NotAfter

\* The shadow guard: the first stronger hit in the whole text is the telling
\* one, or of a pass before it.
LEMMA StrongerIs ==
  ASSUME NEW t, IsText(t), NEW q, IsText(q), NEW hit, Beacon(t, q, hit),
         NEW rank \in Nat, hit.rank < rank, NEW s \in Stronger(t, q, rank)
  PROVE  s # NoMatch /\ s.rank = hit.rank /\ s.actual = hit.actual
<1> DEFINE ranks == {k \in Ranks : k < rank}
<1>1. hit.rank \in ranks \ Scored /\ hit.rank \in Telling
  BY BeaconIs
<1>2. s \in FirstHits(t, q, ranks) /\ ranks \in SUBSET Ranks
  BY DEF Stronger
<1> HIDE DEF ranks
<1>3. /\ s # NoMatch /\ s.rank <= hit.rank /\ s.rank \in ranks
      /\ s.actual \in Finds(s.rank, t, q) \ {<<>>}
  BY <1>1, <1>2, BeaconIs, FirstHitsAre
<1>4. s.rank \in Telling
  <2>1. s.rank \in Ranks
    BY <1>2, <1>3
  <2> QED
    BY <1>1, <1>3, <2>1 DEF Telling, Ranks
<1>5. hit.rank <= s.rank
  BY <1>3, <1>4, BeaconIs
<1>6. s.rank = hit.rank
  BY <1>1, <1>3, <1>4, <1>5 DEF Telling
<1>7. s.actual = hit.actual
  <2>1. AtMostOne(Finds(hit.rank, t, q))
    BY <1>1, TellingFindsOne
  <2> QED
    BY <1>3, <1>6, <2>1, BeaconIs DEF AtMostOne
<1> QED
  BY <1>3, <1>6, <1>7

LEMMA InScopeNotAfter ==
  ASSUME NEW t, IsText(t), NEW r, IsText(r.old), ~r.all, NEW hit, Beacon(t, r.old, hit),
         NEW w, IsWindow(t, w), w.anchored \/ w = Whole(t), NEW o \in InScope(t, r, w)
  PROVE  NotAfter(o, hit.rank)
<1> DEFINE scope == Scope(t, w)
           Wins(s) == /\ s # NoMatch /\ ~Ambiguous(t, s.actual)
                      /\ ~Disproportionate(s.actual, r.old)
<1>1. PICK m \in FindMatch(scope, r.old, Ranks) :
        \/ m = NoMatch /\ w.anchored /\ o \in FullRetry(t, r)
        \/ m = NoMatch /\ ~w.anchored
        \/ m # NoMatch /\ ~w.anchored /\ o = Placed(t, r, w, m)
        \/ /\ m # NoMatch /\ w.anchored
           /\ \E s \in Stronger(t, r.old, m.rank) :
                o = IF Wins(s) THEN Placed(t, r, Whole(t), s) ELSE Placed(t, r, w, m)
  BY DEF InScope
<1>2. CASE m = NoMatch /\ w.anchored /\ o \in FullRetry(t, r)
  BY <1>2, FullRetryNotAfter
<1>3. CASE ~w.anchored
  <2>1. scope = t
    BY <1>3, WholeScope
  <2>2. m # NoMatch /\ m.rank <= hit.rank
    BY <2>1, BeaconIs, FindMatchRank
  <2>3. o = Placed(t, r, w, m)
    BY <1>1, <1>3, <2>2
  <2> QED
    BY <2>2, <2>3, PlacedNotAfter
<1>4. ASSUME m # NoMatch, NEW s \in Stronger(t, r.old, m.rank),
             o = IF Wins(s) THEN Placed(t, r, Whole(t), s) ELSE Placed(t, r, w, m)
      PROVE  NotAfter(o, hit.rank)
  <2>1. m.rank \in Nat /\ hit.rank \in Nat
    <3>1. IsText(scope)
      BY ScopeIs
    <3> QED
      BY <1>4, <3>1, FindMatchOccurs, BeaconIs DEF Hit, Telling
  <2>2. CASE m.rank <= hit.rank
    <3>1. s # NoMatch => s.rank < m.rank /\ s.rank \in Nat
      <4> DEFINE ranks == {k \in Ranks : k < m.rank}
      <4>1. s \in FirstHits(t, r.old, ranks) /\ ranks \in SUBSET Ranks
        BY DEF Stronger
      <4>2. s # NoMatch => s.rank \in ranks
        BY <4>1, FirstHitsAre
      <4> QED
        BY <4>2 DEF Ranks
    <3>2. s # NoMatch => s.rank <= hit.rank
      BY <2>1, <2>2, <3>1
    <3> QED
      BY <1>4, <2>2, <3>2, PlacedNotAfter
  <2>3. CASE hit.rank < m.rank
    <3>1. s # NoMatch /\ s.rank = hit.rank /\ s.actual = hit.actual
      BY <2>1, <2>3, StrongerIs
    <3>2. Wins(s)
      BY <3>1 DEF Beacon, Clear
    <3>3. s.rank <= hit.rank
      BY <2>1, <3>1
    <3> QED
      BY <1>4, <3>2, <3>3, PlacedNotAfter
  <2> QED
    BY <2>1, <2>2, <2>3
<1> QED
  BY <1>1, <1>2, <1>3, <1>4

LEMMA OutcomesNotAfter ==
  ASSUME NEW t, IsText(t), NEW r, IsBlock(r), r.old # <<>>, ~r.all,
         NEW hit, Beacon(t, r.old, hit), NEW o \in Outcomes(t, r)
  PROVE  NotAfter(o, hit.rank)
<1>1. IsText(r.old) /\ IsText(r.anchor)
  BY DEF IsBlock
<1>2. CASE Normalize(r.old) = Normalize(r.new)
  <2>1. o = Failed("noop")
    BY <1>2 DEF Outcomes
  <2> QED
    BY <2>1, FailedNotAfter
<1>3. CASE Normalize(r.old) # Normalize(r.new)
  <2>1. \/ o \in InScope(t, r, Whole(t))
        \/ \E a \in AnchorHits(t, r.anchor) :
             \/ a = NoMatch /\ o \in AnchorLost(t, r)
             \/ o = Failed("ambiguous")
             \/ a # NoMatch /\ o \in InScope(t, r, Window(t, a.actual))
    BY <1>3 DEF Outcomes
  <2>2. ASSUME NEW c, IsText(c), NEW a \in AnchorHits(t, c), a # NoMatch,
               o \in InScope(t, r, Window(t, a.actual))
        PROVE  NotAfter(o, hit.rank)
    <3>1. IsWindow(t, Window(t, a.actual))
      BY <2>2, AnchorHitsOccur, WindowIs
    <3>2. Window(t, a.actual).anchored
      BY DEF Window
    <3> QED
      BY <1>1, <2>2, <3>1, <3>2, InScopeNotAfter
  <2>3. ASSUME o \in InScope(t, r, Whole(t)) PROVE NotAfter(o, hit.rank)
    BY <1>1, <2>3, WholeIs, InScopeNotAfter
  <2>4. ASSUME o \in AnchorLost(t, r) PROVE NotAfter(o, hit.rank)
    <3>1. \/ o \in Unanchored(t, r)
          \/ o \in InScope(t, r, Whole(t))
          \/ \E c \in NearMisses(t) : \E m \in AnchorHits(t, c) :
               m # NoMatch /\ o \in InScope(t, r, Window(t, m.actual))
      BY <2>4 DEF AnchorLost
    <3>2. ASSUME NEW c \in NearMisses(t) PROVE IsText(c)
      BY NearMissesAre
    <3> QED
      BY <2>2, <2>3, <3>1, <3>2, FullRetryNotAfter
  <2> QED
    BY <1>1, <2>1, <2>2, <2>3, <2>4, FailedNotAfter
<1> QED
  BY <1>2, <1>3

-----------------------------------------------------------------------------
(* A text that has a slice replaced.                                         *)

\* A text that keeps its first n characters has the same slices up to there.
LEMMA KeptSlice ==
  ASSUME NEW s, IsText(s), NEW t, IsText(t), NEW n \in Nat, n <= Len(s), n <= Len(t),
         \A i \in 1 .. n : s[i] = t[i],
         NEW a \in Nat, NEW b \in Nat, b <= n
  PROVE  Slice(s, a, b) = Slice(t, a, b)
<1> DEFINE m == IF a < b THEN b - a ELSE 0
<1>1. ASSUME NEW u, IsText(u), n <= Len(u)
      PROVE  LET c == Slice(u, a, b) IN IsText(c) /\ Len(c) = m /\ \A i \in 1 .. m : c[i] = u[a + i]
  <2> DEFINE c == Slice(u, a, b)
  <2>1. Min2(b, Len(u)) = b
    BY <1>1 DEF Min2, IsText
  <2>2. LET e == IF a < Min2(b, Len(u)) THEN Min2(b, Len(u)) - a ELSE 0
        IN  IsText(c) /\ Len(c) = e /\ \A i \in 1 .. e : c[i] = u[a + i]
    BY <1>1, SliceIs
  <2> HIDE DEF c
  <2> QED
    BY <2>1, <2>2 DEF c
<1> DEFINE u == Slice(s, a, b)
           v == Slice(t, a, b)
<1>2. \A i \in 1 .. m : a + i \in 1 .. n
  OBVIOUS
<1>3. IsText(u) /\ Len(u) = m /\ \A i \in 1 .. m : u[i] = s[a + i]
  BY <1>1
<1>4. IsText(v) /\ Len(v) = m /\ \A i \in 1 .. m : v[i] = t[a + i]
  BY <1>1
<1> HIDE DEF u, v, m
<1> QED
  BY <1>2, <1>3, <1>4, SameText DEF u, v

\* Replacing a span keeps what lies before it.
LEMMA ReplacingKeeps ==
  ASSUME NEW t, IsText(t), NEW new, IsText(new), NEW from \in Nat, NEW to \in Nat,
         from <= Len(t)
  PROVE  LET u == Slice(t, 0, from) \o new \o Slice(t, to, Len(t)) IN
         /\ IsText(u) /\ from <= Len(u)
         /\ \A i \in 1 .. from : u[i] = t[i]
<1> DEFINE zero == 0
           x == Slice(t, zero, from)
           z == Slice(t, to, Len(t))
           e == IF zero < Min2(from, Len(t)) THEN Min2(from, Len(t)) - zero ELSE 0
<1>1. Len(t) \in Nat /\ zero \in Nat
  BY DEF IsText
<1>2. e = from /\ \A i \in 1 .. e : zero + i = i
  BY <1>1 DEF Min2
<1> HIDE DEF zero
<1>3. IsText(x) /\ Len(x) = e /\ \A i \in 1 .. e : x[i] = t[zero + i]
  BY <1>1, SliceIs
<1>4. IsText(z)
  BY <1>1, SliceIs
<1> HIDE DEF x, z, e
<1>5. IsText(x) /\ Len(x) = from /\ \A i \in 1 .. from : x[i] = t[i]
  BY <1>2, <1>3
<1> DEFINE y == x \o new
<1>6. IsText(y) /\ Len(y) = from + Len(new) /\ \A i \in 1 .. from : y[i] = x[i]
  BY <1>5, ConcatIs
<1> HIDE DEF y
<1>7. IsText(y \o z) /\ Len(y \o z) = Len(y) + Len(z) /\ \A i \in 1 .. Len(y) : (y \o z)[i] = y[i]
  BY <1>4, <1>6, ConcatIs
<1>8. Len(new) \in Nat /\ Len(z) \in Nat
  BY <1>4 DEF IsText
<1>9. \A i \in 1 .. from : i \in 1 .. Len(y)
  BY <1>6, <1>8
<1>10. IsText(y \o z) /\ from <= Len(y \o z) /\ \A i \in 1 .. from : (y \o z)[i] = t[i]
  BY <1>5, <1>6, <1>7, <1>8, <1>9
<1> QED
  BY <1>10 DEF x, y, z, zero

-----------------------------------------------------------------------------
(* Where the characters of a normalized text come from.                      *)

\* A sequence that lists a set of numbers in their order.
Lists(q, n, S) ==
  /\ q = [k \in 1 .. n |-> q[k]]
  /\ \A k \in 1 .. n : q[k] \in S
  /\ \A j, k \in 1 .. n : j < k => q[j] < q[k]
  /\ \A i \in S : \E k \in 1 .. n : q[k] = i

LEMMA AscendingLists ==
  ASSUME NEW n \in Nat, NEW S \in SUBSET (1 .. n)
  PROVE  Cardinality(S) \in Nat /\ Cardinality(S) <= n /\ Lists(Ascending(S), Cardinality(S), S)
<1> DEFINE c == Cardinality(S)
           up == Ascending(S)
           Below(i) == {j \in S : j <= i}
<1>8. \A x \in S : x \in Nat
  OBVIOUS
<1>1. /\ c \in Nat /\ c <= n /\ up = [k \in 1 .. c |-> up[k]]
      /\ \A k \in 1 .. c : up[k] \in S /\ Cardinality(Below(up[k])) = k
  BY AscendingIs
<1>2. IsFiniteSet(S)
  <2>1. IsFiniteSet(1 .. n)
    BY FS_Interval
  <2> QED
    BY <2>1, FS_Subset
<1>3. ASSUME NEW i \in S
      PROVE  IsFiniteSet(Below(i)) /\ Cardinality(Below(i)) \in Nat /\ Cardinality(Below(i)) <= c
  BY <1>2, FS_Subset, FS_CardinalityType
<1>4. ASSUME NEW i \in S, NEW j \in S, i <= j
      PROVE  /\ Cardinality(Below(i)) <= Cardinality(Below(j))
             /\ Cardinality(Below(i)) = Cardinality(Below(j)) => i = j
  <2>1. Below(i) \subseteq Below(j) /\ j \in Below(j)
    <3>1. \A x \in S : x \in Int
      BY <1>8
    <3>2. \A x \in S : x <= i => x <= j
      BY <1>4, <3>1
    <3>3. j <= j
      BY <3>1
    <3> QED
      BY <3>2, <3>3, Zenon
  <2>2. /\ Cardinality(Below(i)) <= Cardinality(Below(j))
        /\ Cardinality(Below(i)) = Cardinality(Below(j)) => Below(i) = Below(j)
    <3> HIDE DEF Below
    <3> QED
      BY <1>3, <2>1, FS_Subset
  <2>3. Below(i) = Below(j) => j <= i
    BY <2>1
  <2>4. i \in Int /\ j \in Int
    OBVIOUS
  <2> HIDE DEF Below
  <2> QED
    BY <1>4, <2>2, <2>3, <2>4
<1>5. ASSUME NEW i \in S PROVE Cardinality(Below(i)) # 0
  <2>1. i \in Below(i)
    OBVIOUS
  <2> HIDE DEF Below
  <2> QED
    BY <1>3, <2>1, FS_EmptySet
<1> HIDE DEF c, up, Below
<1>6. ASSUME NEW j \in 1 .. c, NEW k \in 1 .. c, j < k PROVE up[j] < up[k]
  <2>1. up[j] \in S /\ up[k] \in S /\ up[j] \in Int /\ up[k] \in Int
    BY <1>1
  <2>2. up[k] <= up[j] => k <= j
    BY <1>1, <1>4, <2>1
  <2> QED
    BY <1>6, <2>1, <2>2
<1>7. ASSUME NEW i \in S PROVE \E k \in 1 .. c : up[k] = i
  <2> DEFINE k == Cardinality(Below(i))
  <2>1. k \in 1 .. c
    BY <1>1, <1>3, <1>5
  <2>2. up[k] \in S /\ Cardinality(Below(up[k])) = k
    BY <1>1, <2>1
  <2>3. up[k] <= i \/ i <= up[k]
    <3>1. up[k] \in Nat /\ i \in Nat
      BY <1>8, <2>2
    <3> QED
      BY <3>1
  <2>4. up[k] = i
    BY <1>4, <2>2, <2>3
  <2> QED
    BY <2>1, <2>4
<1> QED
  BY <1>1, <1>6, <1>7 DEF Lists, c, up

\* There is one such sequence.
LEMMA ListsOnce ==
  ASSUME NEW S \in SUBSET Nat, NEW p, NEW m \in Nat, NEW q, NEW n \in Nat,
         Lists(p, m, S), Lists(q, n, S)
  PROVE  m = n /\ p = q
<1>1. /\ \A k \in 1 .. m : p[k] \in S /\ p[k] \in Nat
      /\ \A k \in 1 .. n : q[k] \in S /\ q[k] \in Nat
  BY DEF Lists
<1> DEFINE Bad == {k \in Nat : k \in 1 .. m /\ (k \notin 1 .. n \/ p[k] # q[k])}
<1>2. Bad = {}
  <2> SUFFICES ASSUME Bad # {} PROVE FALSE
    OBVIOUS
  <2>1. PICK k \in Bad : \A x \in Bad : k <= x
    <3>1. Bad \in SUBSET Nat
      OBVIOUS
    <3> HIDE DEF Bad
    <3> QED
      BY <3>1, LeastExists
  <2>2. k \in 1 .. m /\ (k \notin 1 .. n \/ p[k] # q[k])
    OBVIOUS
  <2>3. \A j \in 1 .. m : j < k => j \in 1 .. n /\ p[j] = q[j]
    BY <2>1
  <2>4. PICK j \in 1 .. n : q[j] = p[k]
    BY <1>1, <2>2 DEF Lists
  <2> HIDE DEF Bad
  <2>5. ~(j < k)
    <3>1. ASSUME j < k PROVE FALSE
      <4>1. j \in 1 .. m
        BY <2>2, <3>1
      <4>2. p[j] = q[j]
        BY <2>3, <3>1, <4>1
      <4>3. p[j] < p[k]
        BY <2>2, <3>1, <4>1 DEF Lists
      <4> QED
        BY <1>1, <2>2, <2>4, <4>1, <4>2, <4>3
    <3> QED
      BY <3>1
  <2>6. k \in 1 .. n /\ q[k] <= p[k]
    <3>1. k \in 1 .. n
      BY <2>2, <2>5
    <3>2. k = j \/ q[k] < q[j]
      BY <2>2, <2>5, <3>1 DEF Lists
    <3> QED
      BY <1>1, <2>2, <2>4, <3>1, <3>2
  <2>7. PICK i \in 1 .. m : p[i] = q[k]
    BY <1>1, <2>6 DEF Lists
  <2>8. ~(k < i)
    <3>1. k < i => p[k] < p[i]
      BY <2>2 DEF Lists
    <3> QED
      BY <1>1, <2>2, <2>6, <2>7, <3>1
  <2>9. i # k
    BY <2>2, <2>6, <2>7
  <2>10. i < k
    BY <2>2, <2>8, <2>9
  <2>11. i \in 1 .. n /\ q[i] = q[k] /\ q[i] < q[k]
    BY <2>3, <2>6, <2>7, <2>10 DEF Lists
  <2> QED
    BY <1>1, <2>6, <2>11
<1>3. \A k \in 1 .. m : k \in 1 .. n /\ p[k] = q[k]
  BY <1>2
<1> HIDE DEF Bad
<1>4. ~(m < n)
  <2>1. ASSUME m < n PROVE FALSE
    <3>1. n \in 1 .. n
      BY <2>1
    <3>2. PICK k \in 1 .. m : p[k] = q[n]
      BY <1>1, <3>1 DEF Lists
    <3>3. k \in 1 .. n /\ k < n
      BY <2>1, <3>1
    <3>4. q[k] = q[n]
      BY <1>3, <3>2
    <3>5. q[k] < q[n]
      BY <3>1, <3>3 DEF Lists
    <3> QED
      BY <1>1, <3>1, <3>4, <3>5
  <2> QED
    BY <2>1
<1>5. ~(n < m)
  BY <1>3
<1>6. m = n
  BY <1>4, <1>5
<1> QED
  BY <1>3, <1>6 DEF Lists

\* The characters of a text that normalization keeps, and what they become.
Kept(t) == {i \in 1 .. Len(t) : ~(t[i] = CR /\ i < Len(t) /\ t[i + 1] = LF)}
At(t) == Ascending(Kept(t))
Becoming(c) == IF c = CR THEN LF ELSE c

LEMMA KeptIs ==
  ASSUME NEW t, IsText(t)
  PROVE  Kept(t) \in SUBSET (1 .. Len(t)) /\ Len(t) \in Nat /\ Kept(t) \in SUBSET Nat
BY DEF Kept, IsText

LEMMA NormalizeBy ==
  ASSUME NEW t, IsText(t), NEW q, NEW n \in Nat, Lists(q, n, Kept(t))
  PROVE  /\ Normalize(t) = [k \in 1 .. n |-> Becoming(t[q[k]])]
         /\ Len(Normalize(t)) = n /\ q = At(t)
<1> DEFINE S == Kept(t)
           up == Ascending(S)
           c == Cardinality(S)
           norm == [k \in 1 .. n |-> Becoming(t[q[k]])]
<1>1. S \in SUBSET (1 .. Len(t)) /\ Len(t) \in Nat /\ S \in SUBSET Nat
  BY KeptIs
<1>2. Normalize(t) = [k \in 1 .. Len(up) |-> Becoming(t[up[k]])]
  BY DEF Normalize, Kept, Becoming
<1> HIDE DEF S, up, c
<1>3. c \in Nat /\ Lists(up, c, S)
  BY <1>1, AscendingLists DEF up, c
<1>4. n = c /\ q = up
  BY <1>1, <1>3, ListsOnce DEF S
<1>5. Len(up) = c
  BY <1>3, MakesText DEF Lists
<1>6. Normalize(t) = norm
  BY <1>2, <1>4, <1>5
<1>7. norm = [k \in 1 .. n |-> norm[k]]
  OBVIOUS
<1> HIDE DEF norm
<1>8. Len(norm) = n
  BY <1>7, MakesText
<1> QED
  BY <1>4, <1>6, <1>8 DEF norm, up, S, At

LEMMA AtLists ==
  ASSUME NEW t, IsText(t)
  PROVE  LET n == Len(Normalize(t)) IN
         /\ n \in Nat /\ n <= Len(t) /\ Lists(At(t), n, Kept(t))
         /\ Normalize(t) = [k \in 1 .. n |-> Becoming(t[At(t)[k]])]
<1> DEFINE c == Cardinality(Kept(t))
<1>1. c \in Nat /\ c <= Len(t) /\ Lists(At(t), c, Kept(t))
  BY KeptIs, AscendingLists DEF At
<1> HIDE DEF c
<1> QED
  BY <1>1, NormalizeBy

\* Where the k-th character of the normalized text ends in the text.
Cut(t, k) == IF k = 0 THEN 0 ELSE At(t)[k]

LEMMA CutsAre ==
  ASSUME NEW t, IsText(t), NEW k \in 0 .. Len(Normalize(t))
  PROVE  /\ Cut(t, k) \in 0 .. Len(t)
         /\ \A i \in Kept(t) : i <= Cut(t, k) <=> \E j \in 1 .. k : At(t)[j] = i
         /\ \A j \in 1 .. k : At(t)[j] <= Cut(t, k)
         /\ \A j \in k + 1 .. Len(Normalize(t)) : Cut(t, k) < At(t)[j]
<1> DEFINE n == Len(Normalize(t))
           q == At(t)
<1>1. n \in Nat /\ Lists(q, n, Kept(t)) /\ Kept(t) \in SUBSET (1 .. Len(t)) /\ Len(t) \in Nat
  BY AtLists, KeptIs
<1> HIDE DEF n, q
<1>2. k \in 0 .. n
  BY DEF n
<1>3. \A j \in 1 .. n : q[j] \in 1 .. Len(t)
  BY <1>1 DEF Lists
<1>4. Cut(t, k) \in 0 .. Len(t)
  BY <1>1, <1>2, <1>3 DEF Cut, q
<1>5. \A j \in 1 .. k : q[j] <= Cut(t, k)
  <2>1. ASSUME NEW j \in 1 .. k PROVE q[j] <= Cut(t, k)
    <3>1. j \in 1 .. n /\ k \in 1 .. n /\ Cut(t, k) = q[k]
      BY <1>1, <1>2 DEF Cut, q
    <3>2. j = k \/ q[j] < q[k]
      BY <1>1, <3>1 DEF Lists
    <3> QED
      BY <1>3, <3>1, <3>2
  <2> QED
    BY <2>1
<1>6. \A j \in k + 1 .. n : Cut(t, k) < q[j]
  <2>1. ASSUME NEW j \in k + 1 .. n PROVE Cut(t, k) < q[j]
    <3>1. j \in 1 .. n
      BY <1>1, <1>2
    <3>2. CASE k = 0
      BY <1>3, <3>1, <3>2 DEF Cut
    <3>3. CASE k # 0
      <4>1. k \in 1 .. n /\ k < j /\ Cut(t, k) = q[k]
        BY <1>1, <1>2, <3>1, <3>3 DEF Cut, q
      <4> QED
        BY <1>1, <3>1, <4>1 DEF Lists
    <3> QED
      BY <3>2, <3>3
  <2> QED
    BY <2>1
<1>7. ASSUME NEW i \in Kept(t) PROVE i <= Cut(t, k) <=> \E j \in 1 .. k : q[j] = i
  <2>1. PICK j \in 1 .. n : q[j] = i
    BY <1>1 DEF Lists
  <2>2. CASE j <= k
    BY <1>5, <2>1, <2>2, <1>2
  <2>3. CASE ~(j <= k)
    <3>1. j \in k + 1 .. n /\ Cut(t, k) < i
      BY <1>1, <1>2, <1>6, <2>1, <2>3
    <3>2. \A x \in 1 .. k : q[x] # i
      <4>1. i \in Nat /\ Cut(t, k) \in Nat
        BY <1>1, <1>4
      <4> QED
        BY <1>5, <3>1, <4>1
    <3> QED
      BY <1>3, <1>4, <2>1, <3>1, <3>2
  <2> QED
    BY <1>2, <2>2, <2>3
<1> QED
  BY <1>4, <1>5, <1>6, <1>7 DEF n, q

\* The last character is kept.
LEMMA LastCut ==
  ASSUME NEW t, IsText(t)
  PROVE  Cut(t, Len(Normalize(t))) = Len(t)
<1> DEFINE n == Len(Normalize(t))
<1>1. n \in Nat /\ Lists(At(t), n, Kept(t)) /\ Kept(t) \in SUBSET (1 .. Len(t)) /\ Len(t) \in Nat
  BY AtLists, KeptIs
<1>2. CASE Len(t) = 0
  <2>1. n = 0
    BY <1>1, <1>2 DEF Lists
  <2> QED
    BY <1>2, <2>1 DEF Cut
<1>3. CASE Len(t) # 0
  <2>1. Len(t) \in Kept(t)
    BY <1>1, <1>3 DEF Kept
  <2>2. PICK j \in 1 .. n : At(t)[j] = Len(t)
    BY <1>1, <2>1 DEF Lists
  <2>3. n \in 0 .. n
    BY <1>1
  <2>4. Cut(t, n) \in 0 .. Len(t) /\ Len(t) <= Cut(t, n)
    BY <2>2, <2>3, CutsAre
  <2> QED
    BY <1>1, <2>4
<1> QED
  BY <1>2, <1>3

\* Normalization folds a CRLF, so that a character of the normalized text
\* stands for one of the text or for two.
Folds(t, k, i) == Normalize(t)[k] = LF /\ Slice(t, i, i + 2) = <<CR, LF>>

LEMMA CutStep ==
  ASSUME NEW t, IsText(t), NEW k \in 1 .. Len(Normalize(t))
  PROVE  Cut(t, k) = Cut(t, k - 1) + (IF Folds(t, k, Cut(t, k - 1)) THEN 2 ELSE 1)
<1> DEFINE n == Len(Normalize(t))
           q == At(t)
           i == Cut(t, k - 1)
           S == Kept(t)
<1>1. n \in Nat /\ Len(t) \in Nat /\ S \in SUBSET (1 .. Len(t)) /\ Lists(q, n, S)
  BY AtLists, KeptIs
<1>2. k \in 1 .. n /\ k - 1 \in 0 .. n /\ q[k] = Cut(t, k)
  BY <1>1 DEF Cut
<1>3. i \in 0 .. Len(t) /\ i < q[k] /\ q[k] \in 1 .. Len(t)
  <2>1. k \in (k - 1) + 1 .. n
    BY <1>2
  <2>2. i \in 0 .. Len(t) /\ i < q[k]
    BY <1>2, <2>1, CutsAre
  <2>3. q[k] \in S
    BY <1>1, <1>2 DEF Lists
  <2> HIDE DEF q, i, S
  <2> QED
    BY <1>1, <2>2, <2>3
\* No character between is kept.
<1>4. ASSUME NEW j \in S, i < j PROVE q[k] <= j
  <2>1. PICK x \in 1 .. n : q[x] = j
    BY <1>1 DEF Lists
  <2>2. ~(x <= k - 1)
    <3>1. x \in 1 .. k - 1 => q[x] <= i
      BY <1>2, CutsAre
    <3>2. i \in Nat /\ j \in Nat
      BY <1>1, <1>3
    <3> HIDE DEF q, i, S
    <3> QED
      BY <1>2, <1>4, <2>1, <3>1, <3>2
  <2>3. x = k \/ k < x
    BY <1>2, <2>2
  <2>4. x = k \/ q[k] < q[x]
    BY <1>1, <1>2, <2>1, <2>3 DEF Lists
  <2>5. j \in Nat
    BY <1>1
  <2> HIDE DEF q, i, S
  <2> QED
    BY <1>3, <2>1, <2>4, <2>5
<1>5. q[k] \in S /\ Normalize(t)[k] = Becoming(t[q[k]])
  BY <1>1, <1>2, AtLists DEF Lists
<1> HIDE DEF q, i, n
<1>6. i + 1 \in 1 .. Len(t)
  BY <1>1, <1>3
<1>7. Folds(t, k, i) <=> Normalize(t)[k] = LF /\ i + 2 <= Len(t) /\ t[i + 1] = CR /\ t[i + 2] = LF
  <2> DEFINE b == i + 2
             e == IF i < Min2(b, Len(t)) THEN Min2(b, Len(t)) - i ELSE 0
             s == Slice(t, i, b)
  <2>1. i \in Nat /\ b \in Nat /\ Len(t) \in Nat
    BY <1>1, <1>3
  <2>2. e = IF i + 2 <= Len(t) THEN 2 ELSE 1
    BY <1>6, <2>1 DEF Min2
  <2>3. IsText(s) /\ Len(s) = e /\ \A x \in 1 .. e : s[x] = t[i + x]
    <3> HIDE DEF b
    <3> QED
      BY <2>1, SliceIs
  <2> HIDE DEF e, s
  <2>4. s = <<CR, LF>> <=> i + 2 <= Len(t) /\ t[i + 1] = CR /\ t[i + 2] = LF
    <3>1. CASE i + 2 <= Len(t)
      <4>1. Len(s) = 2 /\ s[1] = t[i + 1] /\ s[2] = t[i + 2]
        BY <2>2, <2>3, <3>1
      <4>2. s = [x \in 1 .. 2 |-> s[x]]
        BY <2>3, <4>1 DEF IsText
      <4>3. ASSUME s[1] = CR, s[2] = LF PROVE s = <<CR, LF>>
        <5>1. <<CR, LF>> = [x \in 1 .. 2 |-> <<CR, LF>>[x]]
          OBVIOUS
        <5> QED
          BY <4>2, <4>3, <5>1
      <4> QED
        BY <3>1, <4>1, <4>3
    <3>2. CASE ~(i + 2 <= Len(t))
      <4>1. Len(s) = 1
        BY <2>2, <2>3, <3>2
      <4>2. Len(<<CR, LF>>) = 2
        OBVIOUS
      <4> QED
        BY <3>2, <4>1, <4>2
    <3> QED
      BY <3>1, <3>2
  <2> QED
    BY <2>4 DEF Folds, s, b
<1>8. CASE i + 1 \in S
  <2>1. q[k] = i + 1
    BY <1>3, <1>4, <1>8, <1>1
  <2>2. ~Folds(t, k, i)
    <3>1. ~(t[i + 1] = CR /\ i + 1 < Len(t) /\ t[(i + 1) + 1] = LF)
      BY <1>8 DEF Kept
    <3>2. (i + 1) + 1 = i + 2 /\ (i + 2 <= Len(t) => i + 1 < Len(t))
      BY <1>1, <1>3
    <3> QED
      BY <1>7, <3>1, <3>2
  <2> QED
    BY <1>2, <2>1, <2>2 DEF q, i
<1>9. CASE i + 1 \notin S
  <2>1. t[i + 1] = CR /\ i + 1 < Len(t) /\ t[(i + 1) + 1] = LF
    BY <1>6, <1>9 DEF Kept
  <2>2. (i + 1) + 1 = i + 2 /\ i + 2 <= Len(t) /\ i + 2 \in 1 .. Len(t)
    BY <1>1, <1>3, <2>1
  <2>3. t[i + 2] = LF
    BY <2>1, <2>2
  <2>4. i + 2 \in S
    BY <2>2, <2>3, TextsAssumption DEF Kept, TextsAssumption
  <2>5. i < i + 2 /\ q[k] <= i + 2
    BY <1>3, <1>4, <2>4
  <2>6. q[k] # i + 1
    BY <1>5, <1>9
  <2>7. q[k] = i + 2
    BY <1>1, <1>3, <2>5, <2>6
  <2>8. Normalize(t)[k] = LF
    BY <1>5, <2>3, <2>7 DEF Becoming
  <2>9. Folds(t, k, i)
    BY <1>7, <2>1, <2>2, <2>3, <2>8
  <2> QED
    BY <1>2, <2>7, <2>9 DEF q, i
<1> QED
  BY <1>8, <1>9

\* The map of raw offsets is the cuts.
LEMMA MapIs ==
  ASSUME NEW t, IsText(t)
  PROVE  NormToRaw(t) = [k \in 0 .. Len(Normalize(t)) |-> Cut(t, k)]
<1> DEFINE norm == Normalize(t)
           n == Len(norm)
           Step(k, ri) == IF norm[k] = LF /\ Slice(t, ri, ri + 2) = <<CR, LF>> THEN 2 ELSE 1
           F(f) == [k \in 0 .. n |-> IF k = 0 THEN 0 ELSE f[k - 1] + Step(k, f[k - 1])]
           walk == CHOOSE f : f = F(f)
           cuts == [k \in 0 .. n |-> Cut(t, k)]
<1>1. n \in Nat
  BY AtLists
<1>2. NormToRaw(t) = [k \in 0 .. n |-> IF k = n THEN Len(t) ELSE walk[k]]
  BY DEF NormToRaw
<1> HIDE DEF n
<1>3. cuts = F(cuts)
  <2>1. ASSUME NEW k \in 0 .. n
        PROVE  Cut(t, k) = IF k = 0 THEN 0 ELSE cuts[k - 1] + Step(k, cuts[k - 1])
    <3>1. CASE k = 0
      BY <3>1 DEF Cut
    <3>2. CASE k # 0
      <4>1. k \in 1 .. n /\ cuts[k - 1] = Cut(t, k - 1)
        BY <1>1, <3>2
      <4>2. Cut(t, k) = Cut(t, k - 1) + (IF Folds(t, k, Cut(t, k - 1)) THEN 2 ELSE 1)
        BY <4>1, CutStep DEF n
      <4> QED
        BY <3>2, <4>1, <4>2 DEF Folds
    <3> QED
      BY <3>1, <3>2
  <2> HIDE DEF Step
  <2> QED
    BY <2>1
<1>4. walk = F(walk)
  <2> HIDE DEF F, cuts
  <2> QED
    BY <1>3
<1> HIDE DEF walk, cuts
<1>5. /\ walk[0] = 0 /\ cuts[0] = 0
      /\ \A k \in 1 .. n : /\ walk[k] = walk[k - 1] + Step(k, walk[k - 1])
                           /\ cuts[k] = cuts[k - 1] + Step(k, cuts[k - 1])
  <2> HIDE DEF Step
  <2>1. 0 \in 0 .. n /\ \A k \in 1 .. n : k \in 0 .. n /\ k # 0
    BY <1>1
  <2>2. \A k \in 0 .. n : walk[k] = F(walk)[k] /\ cuts[k] = F(cuts)[k]
    BY <1>3, <1>4, Zenon
  <2> QED
    BY <2>1, <2>2
<1> DEFINE Bad == {k \in 0 .. n : walk[k] # cuts[k]}
<1>6. Bad = {}
  <2> SUFFICES ASSUME Bad # {} PROVE FALSE
    OBVIOUS
  <2>1. PICK k \in Bad : \A x \in Bad : k <= x
    <3>1. Bad \in SUBSET Nat
      OBVIOUS
    <3> HIDE DEF Bad
    <3> QED
      BY <3>1, LeastExists
  <2>2. k \in 1 .. n
    BY <1>1, <1>5, <2>1
  <2>3. k - 1 \in 0 .. n /\ k - 1 \notin Bad
    BY <1>1, <2>1, <2>2
  <2>4. walk[k - 1] = cuts[k - 1]
    BY <2>3
  <2> HIDE DEF Step
  <2> QED
    BY <1>5, <2>1, <2>2, <2>4
<1>7. cuts[n] = Len(t)
  BY <1>1, LastCut DEF cuts, n
<1> QED
  BY <1>2, <1>6, <1>7 DEF cuts, n

\* Slices from the start and to the end.
LEMMA HeadIs ==
  ASSUME NEW t, IsText(t), NEW c \in 0 .. Len(t)
  PROVE  LET s == Slice(t, 0, c) IN IsText(s) /\ Len(s) = c /\ \A i \in 1 .. c : s[i] = t[i]
<1> DEFINE zero == 0
           s == Slice(t, zero, c)
           m == IF zero < Min2(c, Len(t)) THEN Min2(c, Len(t)) - zero ELSE 0
<1>1. Len(t) \in Nat /\ c \in Nat /\ zero \in Nat
  BY DEF IsText
<1>2. m = c
  BY <1>1 DEF Min2
<1>3. \A i \in 1 .. c : zero + i = i
  BY <1>1
<1> HIDE DEF zero
<1>4. IsText(s) /\ Len(s) = m /\ \A i \in 1 .. m : s[i] = t[zero + i]
  BY <1>1, SliceIs
<1> HIDE DEF s, m
<1>5. IsText(s) /\ Len(s) = c /\ \A i \in 1 .. c : s[i] = t[i]
  BY <1>2, <1>3, <1>4
<1> QED
  BY <1>5 DEF s, zero

LEMMA TailIs ==
  ASSUME NEW t, IsText(t), NEW c \in 0 .. Len(t)
  PROVE  LET s == Slice(t, c, Len(t)) IN
         IsText(s) /\ Len(s) = Len(t) - c /\ \A i \in 1 .. Len(t) - c : s[i] = t[c + i]
<1> DEFINE b == Len(t)
           s == Slice(t, c, b)
           m == IF c < Min2(b, Len(t)) THEN Min2(b, Len(t)) - c ELSE 0
<1>1. Len(t) \in Nat /\ c \in Nat /\ b \in Nat
  BY DEF IsText
<1>2. m = Len(t) - c
  BY <1>1 DEF Min2
<1> HIDE DEF b
<1>4. IsText(s) /\ Len(s) = m /\ \A i \in 1 .. m : s[i] = t[c + i]
  BY <1>1, SliceIs
<1> HIDE DEF s, m
<1> QED
  BY <1>2, <1>4 DEF s, b

LEMMA CutPrefix ==
  ASSUME NEW t, IsText(t), NEW k \in 0 .. Len(Normalize(t))
  PROVE  Normalize(Slice(t, 0, Cut(t, k))) = Slice(Normalize(t), 0, k)
<1> DEFINE n == Len(Normalize(t))
           c == Cut(t, k)
           q == At(t)
           s == Slice(t, 0, c)
           r == [j \in 1 .. k |-> q[j]]
           u == Slice(Normalize(t), 0, k)
<1>1. /\ n \in Nat /\ Lists(q, n, Kept(t)) /\ k \in Nat /\ k <= n
      /\ Kept(t) \in SUBSET (1 .. Len(t)) /\ Len(t) \in Nat
      /\ Normalize(t) = [j \in 1 .. n |-> Becoming(t[q[j]])]
  BY AtLists, KeptIs
<1>2. /\ c \in 0 .. Len(t)
      /\ \A i \in Kept(t) : i <= c <=> \E j \in 1 .. k : q[j] = i
      /\ \A j \in 1 .. k : q[j] <= c
  BY CutsAre
<1>3. IsText(s) /\ Len(s) = c /\ \A i \in 1 .. c : s[i] = t[i]
  <2> HIDE DEF c
  <2> QED
    BY <1>2, HeadIs
\* The cut is at the start or at a kept character, so no pair is cut in two.
<1>4. c = 0 \/ c \in Kept(t)
  <2>1. c = 0 \/ (k \in 1 .. n /\ c = q[k])
    BY <1>1 DEF Cut
  <2> QED
    BY <2>1, <1>1 DEF Lists
<1> HIDE DEF c, q, s, n
<1>5. \A i \in 1 .. c : i \in Kept(s) <=> i \in Kept(t)
  <2>1. ASSUME NEW i \in 1 .. c, i < c PROVE i \in Kept(s) <=> i \in Kept(t)
    <3>1. /\ i < c /\ i < Len(t) /\ i + 1 \in 1 .. c /\ i \in 1 .. Len(t)
          /\ s[i] = t[i] /\ s[i + 1] = t[i + 1] /\ Len(s) = c
      BY <1>1, <1>2, <1>3, <2>1
    <3> QED
      BY <3>1 DEF Kept
  <2>2. c # 0 => c \in Kept(t) /\ c \in Kept(s)
    <3>1. c # 0 => c \in 1 .. c /\ ~(c < c)
      BY <1>2
    <3> QED
      BY <1>3, <1>4, <3>1 DEF Kept
  <2>3. \A i \in 1 .. c : i < c \/ (i = c /\ c # 0)
    BY <1>2
  <2> QED
    BY <2>1, <2>2, <2>3
<1>6. Kept(s) \in SUBSET (1 .. c)
  BY <1>3 DEF Kept
<1>7. Lists(r, k, Kept(s))
  <2>1. \A j \in 1 .. k : r[j] = q[j] /\ q[j] \in Kept(s)
    <3>1. ASSUME NEW j \in 1 .. k PROVE q[j] \in Kept(s)
      <4>1. j \in 1 .. n /\ q[j] \in Kept(t) /\ q[j] <= c
        BY <1>1, <1>2 DEF Lists
      <4>2. q[j] \in 1 .. c
        BY <1>1, <1>2, <4>1
      <4> QED
        BY <1>5, <4>1, <4>2
    <3> QED
      BY <3>1
  <2>2. \A i, j \in 1 .. k : i < j => r[i] < r[j]
    BY <1>1 DEF Lists
  <2>3. \A i \in Kept(s) : \E j \in 1 .. k : r[j] = i
    <3>1. ASSUME NEW i \in Kept(s) PROVE \E j \in 1 .. k : q[j] = i
      <4>1. i \in 1 .. c /\ i \in Kept(t) /\ i <= c
        BY <1>2, <1>5, <1>6
      <4> QED
        BY <1>2, <4>1
    <3> QED
      BY <3>1
  <2>4. r = [j \in 1 .. k |-> r[j]]
    OBVIOUS
  <2> HIDE DEF r
  <2> QED
    BY <2>1, <2>2, <2>3, <2>4 DEF Lists
<1>8. Normalize(s) = [j \in 1 .. k |-> Becoming(s[r[j]])]
  <2> HIDE DEF r
  <2> QED
    BY <1>1, <1>3, <1>7, NormalizeBy
<1>9. \A j \in 1 .. k : s[r[j]] = t[q[j]]
  <2>1. ASSUME NEW j \in 1 .. k PROVE s[r[j]] = t[q[j]]
    <3>1. r[j] = q[j] /\ r[j] \in Kept(s)
      BY <1>7 DEF Lists
    <3> QED
      BY <1>3, <1>6, <3>1
  <2> QED
    BY <2>1
<1>10. IsText(u) /\ Len(u) = k /\ \A j \in 1 .. k : u[j] = Normalize(t)[j]
  BY NormalizeIs, HeadIs DEF n
<1> HIDE DEF u, r
<1>11. u = [j \in 1 .. k |-> u[j]]
  BY <1>10 DEF IsText
<1>12. \A j \in 1 .. k : u[j] = Becoming(s[r[j]])
  <2>1. ASSUME NEW j \in 1 .. k PROVE u[j] = Becoming(s[r[j]])
    <3>1. j \in 1 .. n
      BY <1>1
    <3>2. u[j] = Normalize(t)[j] /\ Normalize(t)[j] = Becoming(t[q[j]])
      BY <1>1, <1>10, <3>1
    <3> QED
      BY <1>9, <3>2
  <2> QED
    BY <2>1
<1>13. u = Normalize(s)
  BY <1>8, <1>11, <1>12
<1> QED
  BY <1>13 DEF s, u, c

LEMMA CutSuffix ==
  ASSUME NEW t, IsText(t), NEW k \in 0 .. Len(Normalize(t))
  PROVE  Normalize(Slice(t, Cut(t, k), Len(t)))
           = Slice(Normalize(t), k, Len(Normalize(t)))
<1> DEFINE n == Len(Normalize(t))
           c == Cut(t, k)
           q == At(t)
           s == Slice(t, c, Len(t))
           m == n - k
           d == Len(t) - c
           r == [j \in 1 .. m |-> q[k + j] - c]
           u == Slice(Normalize(t), k, n)
<1>1. /\ n \in Nat /\ Lists(q, n, Kept(t)) /\ k \in Nat /\ k <= n /\ m \in Nat
      /\ Kept(t) \in SUBSET (1 .. Len(t)) /\ Len(t) \in Nat
      /\ Normalize(t) = [j \in 1 .. n |-> Becoming(t[q[j]])]
  BY AtLists, KeptIs
<1>2. /\ c \in 0 .. Len(t)
      /\ \A i \in Kept(t) : i <= c <=> \E j \in 1 .. k : q[j] = i
      /\ \A j \in k + 1 .. n : c < q[j]
  BY CutsAre
<1>3. IsText(s) /\ Len(s) = d /\ \A i \in 1 .. d : s[i] = t[c + i]
  <2> HIDE DEF c
  <2> QED
    BY <1>2, TailIs
<1>4. k \in 0 .. n /\ d \in Nat
  BY <1>1, <1>2
<1>5. IsText(u) /\ Len(u) = m /\ \A j \in 1 .. m : u[j] = Normalize(t)[k + j]
  BY NormalizeIs, TailIs
<1>6. \A i \in 1 .. d : c + i \in 1 .. Len(t) /\ (i < d <=> c + i < Len(t)) /\ c < c + i
  BY <1>1, <1>2
<1>7. \A j \in 1 .. m : k + j \in 1 .. n /\ k + j \in k + 1 .. n
  BY <1>1
<1> HIDE DEF c, q, s, n, d, m, u
<1>8. Kept(s) = {i \in 1 .. d : c + i \in Kept(t)}
  <2>1. ASSUME NEW i \in 1 .. d PROVE i \in Kept(s) <=> c + i \in Kept(t)
    <3>1. CASE i < d
      <4>1. i + 1 \in 1 .. d /\ c + (i + 1) = (c + i) + 1
        BY <1>2, <1>4, <3>1
      <4>2. s[i] = t[c + i] /\ s[i + 1] = t[(c + i) + 1]
        BY <1>3, <4>1
      <4> QED
        BY <1>3, <1>6, <3>1, <4>2 DEF Kept
    <3>2. CASE ~(i < d)
      BY <1>3, <1>6, <3>2 DEF Kept
    <3> QED
      BY <3>1, <3>2
  <2>2. Kept(s) \subseteq 1 .. d
    BY <1>3 DEF Kept
  <2> QED
    BY <2>1, <2>2
<1>9. \A j \in 1 .. m : q[k + j] \in Kept(t) /\ q[k + j] \in 1 .. Len(t) /\ c < q[k + j]
  BY <1>1, <1>2, <1>7 DEF Lists
<1>10. \A j \in 1 .. m : r[j] = q[k + j] - c /\ r[j] \in 1 .. d /\ c + r[j] = q[k + j]
  <2>1. ASSUME NEW j \in 1 .. m
        PROVE  r[j] = q[k + j] - c /\ r[j] \in 1 .. d /\ c + r[j] = q[k + j]
    <3>1. r[j] = q[k + j] - c
      OBVIOUS
    <3>2. q[k + j] \in 1 .. Len(t) /\ c < q[k + j]
      BY <1>9
    <3> HIDE DEF r
    <3> QED
      BY <1>1, <1>2, <3>1, <3>2 DEF d
  <2> QED
    BY <2>1
<1>11. Lists(r, m, Kept(s))
  <2>1. \A j \in 1 .. m : r[j] \in Kept(s)
    BY <1>8, <1>9, <1>10
  <2>2. ASSUME NEW i \in 1 .. m, NEW j \in 1 .. m, i < j PROVE r[i] < r[j]
    <3>1. k + i \in 1 .. n /\ k + j \in 1 .. n /\ k + i < k + j
      BY <1>1, <1>7, <2>2
    <3>2. q[k + i] < q[k + j]
      BY <1>1, <3>1 DEF Lists
    <3>3. /\ r[i] = q[k + i] - c /\ r[j] = q[k + j] - c
          /\ q[k + i] \in Nat /\ q[k + j] \in Nat /\ c \in Nat
      BY <1>2, <1>9, <1>10
    <3> HIDE DEF r
    <3> QED
      BY <3>2, <3>3
  <2>3. ASSUME NEW i \in Kept(s) PROVE \E j \in 1 .. m : r[j] = i
    <3>1. i \in 1 .. d /\ c + i \in Kept(t) /\ c < c + i
      BY <1>6, <1>8
    <3>2. PICK x \in 1 .. n : q[x] = c + i
      BY <1>1, <3>1 DEF Lists
    <3>3. ~(x <= k)
      <4>1. ~(c + i <= c)
        BY <1>2, <3>1
      <4>2. ~(x \in 1 .. k)
        BY <1>2, <3>1, <3>2, <4>1
      <4> QED
        BY <1>1, <4>2
    <3>4. x - k \in 1 .. m /\ k + (x - k) = x
      BY <1>1, <3>3 DEF m
    <3>5. c + r[x - k] = c + i /\ r[x - k] \in Nat
      BY <1>10, <3>2, <3>4
    <3> HIDE DEF r
    <3>6. r[x - k] = i
      BY <1>2, <3>1, <3>5
    <3> QED
      BY <3>4, <3>6
  <2>4. r = [j \in 1 .. m |-> r[j]]
    OBVIOUS
  <2> HIDE DEF r
  <2> QED
    BY <2>1, <2>2, <2>3, <2>4 DEF Lists
<1> HIDE DEF r
<1>12. Normalize(s) = [j \in 1 .. m |-> Becoming(s[r[j]])]
  BY <1>1, <1>3, <1>11, NormalizeBy
<1>13. ASSUME NEW j \in 1 .. m PROVE u[j] = Becoming(s[r[j]])
  <2>1. s[r[j]] = t[q[k + j]]
    BY <1>3, <1>10
  <2>2. u[j] = Normalize(t)[k + j] /\ Normalize(t)[k + j] = Becoming(t[q[k + j]])
    BY <1>1, <1>5, <1>7
  <2> QED
    BY <2>1, <2>2
<1>14. u = Normalize(s)
  <2>1. u = [j \in 1 .. m |-> u[j]]
    BY <1>5 DEF IsText
  <2> QED
    BY <1>12, <1>13, <2>1
<1> QED
  BY <1>14 DEF s, u, c, n

LEMMA CutsAlikeAlways ==
  ASSUME NEW t, IsText(t)
  PROVE  CutsAlike(t)
<1> DEFINE n == Len(Normalize(t))
<1>1. NormToRaw(t) = [k \in 0 .. n |-> Cut(t, k)]
  BY MapIs
<1>2. ASSUME NEW k \in 0 .. n
      PROVE  /\ Normalize(Slice(t, 0, Cut(t, k))) = Slice(Normalize(t), 0, k)
             /\ Normalize(Slice(t, Cut(t, k), Len(t))) = Slice(Normalize(t), k, n)
  BY CutPrefix, CutSuffix
<1> HIDE DEF n
<1>3. DOMAIN NormToRaw(t) = 0 .. n /\ \A k \in 0 .. n : NormToRaw(t)[k] = Cut(t, k)
  BY <1>1
<1> QED
  BY <1>2, <1>3 DEF CutsAlike, n

-----------------------------------------------------------------------------
(* What a pass writes is a text.                                             *)

LEMMA FlattenExists ==
  ASSUME NEW parts, NEW n \in Nat
  PROVE  \E f : f = [i \in 1 .. n |-> IF i = 1 THEN parts[i] ELSE f[i - 1] \o parts[i]]
<1> DEFINE Next1(f, i) == IF i = 1 THEN parts[i] ELSE f[i - 1] \o parts[i]
           Runs(m) == \E f : f = [i \in 1 .. m |-> Next1(f, i)]
           None == {m \in Nat : ~Runs(m)}
<1> SUFFICES ASSUME None # {} PROVE FALSE
  OBVIOUS
<1>1. PICK m \in None : \A x \in None : m <= x
  <2>1. None \in SUBSET Nat
    OBVIOUS
  <2> HIDE DEF None
  <2> QED
    BY <2>1, LeastExists
<1>2. CASE m = 0
  <2> DEFINE f == [i \in 1 .. 0 |-> parts[1]]
  <2>1. f = [i \in 1 .. 0 |-> Next1(f, i)]
    OBVIOUS
  <2> QED
    BY <1>2, <2>1
<1>3. CASE m # 0
  <2>1. m - 1 \in Nat /\ Runs(m - 1)
    <3> HIDE DEF Runs
    <3> QED
      BY <1>1, <1>3
  <2>2. PICK g : g = [i \in 1 .. m - 1 |-> Next1(g, i)]
    BY <2>1, Zenon
  <2> DEFINE f == [i \in 1 .. m |-> IF i <= m - 1 THEN g[i] ELSE Next1(g, m)]
  <2>3. \A i \in 1 .. m : i # 1 => i - 1 \in 1 .. m - 1 /\ f[i - 1] = g[i - 1]
    BY <2>1
  <2>4. ASSUME NEW i \in 1 .. m PROVE f[i] = Next1(f, i)
    <3>1. CASE i <= m - 1
      <4>1. i \in 1 .. m - 1
        BY <3>1, <2>1
      <4> QED
        BY <4>1, <3>1, <2>2, <2>3
    <3>2. CASE ~(i <= m - 1)
      <4>1. i = m
        BY <3>2, <2>1
      <4> QED
        BY <4>1, <3>2, <2>3, <1>3
    <3> QED
      BY <3>1, <3>2
  <2>5. f = [i \in 1 .. m |-> Next1(f, i)]
    BY <2>4
  <2> QED
    BY <2>5
<1> QED
  BY <1>2, <1>3

\* The texts that parts make up, each with one part more.
LEMMA FlattenIs ==
  ASSUME NEW parts, NEW n \in Nat \ {0}, Len(parts) = n
  PROVE  \E f : /\ f[1] = parts[1]
                /\ \A i \in 2 .. n : f[i] = f[i - 1] \o parts[i]
                /\ FlattenSeq(parts) = f[n]
<1> DEFINE F(f) == [i \in 1 .. n |-> IF i = 1 THEN parts[i] ELSE f[i - 1] \o parts[i]]
           f0 == CHOOSE f : f = F(f)
<1>1. f0 = F(f0)
  BY FlattenExists
<1>2. FlattenSeq(parts) = f0[n]
  BY DEF FlattenSeq
<1> HIDE DEF f0
<1>3. \A i \in 1 .. n : f0[i] = IF i = 1 THEN parts[i] ELSE f0[i - 1] \o parts[i]
  BY <1>1
<1>4. f0[1] = parts[1] /\ \A i \in 2 .. n : f0[i] = f0[i - 1] \o parts[i]
  <2>1. 1 \in 1 .. n /\ \A i \in 2 .. n : i \in 1 .. n /\ i # 1
    OBVIOUS
  <2> QED
    BY <1>3, <2>1
<1> QED
  BY <1>2, <1>4

LEMMA FlattenText ==
  ASSUME NEW parts, IsText(parts), \A i \in 1 .. Len(parts) : IsText(parts[i])
  PROVE  IsText(FlattenSeq(parts))
<1> DEFINE n == Len(parts)
<1>1. n \in Nat
  BY DEF IsText
<1>2. CASE n = 0
  BY <1>2 DEF FlattenSeq
<1>3. CASE n # 0
  <2>1. PICK f : /\ f[1] = parts[1]
                 /\ \A i \in 2 .. n : f[i] = f[i - 1] \o parts[i]
                 /\ FlattenSeq(parts) = f[n]
    BY <1>1, <1>3, FlattenIs
  <2> DEFINE Bad == {i \in 1 .. n : ~IsText(f[i])}
  <2>2. Bad = {}
    <3> SUFFICES ASSUME Bad # {} PROVE FALSE
      OBVIOUS
    <3>1. PICK m \in Bad : \A x \in Bad : m <= x
      <4>1. Bad \in SUBSET Nat
        OBVIOUS
      <4> HIDE DEF Bad
      <4> QED
        BY <4>1, LeastExists
    <3>2. m # 1
      BY <1>1, <1>3, <2>1, <3>1
    <3>3. m \in 2 .. n /\ m - 1 \in 1 .. n
      BY <1>1, <3>1, <3>2
    <3>4. IsText(f[m - 1]) /\ IsText(parts[m])
      BY <3>1, <3>3
    <3>5. f[m] = f[m - 1] \o parts[m]
      BY <2>1, <3>3
    <3>6. IsText(f[m])
      BY <3>4, <3>5, ConcatIs
    <3> QED
      BY <3>1, <3>6
  <2> QED
    BY <1>1, <1>3, <2>1, <2>2
<1> QED
  BY <1>2, <1>3

LEMMA WithBreaksText ==
  ASSUME NEW t, IsText(t), NEW break, IsText(break)
  PROVE  IsText(WithBreaks(t, break))
<1> DEFINE n == Len(t)
           parts == [i \in 1 .. n |-> IF t[i] = LF THEN break ELSE <<t[i]>>]
<1>1. n \in Nat
  BY DEF IsText
<1>2. ASSUME NEW i \in 1 .. n PROVE IsText(parts[i])
  <2>1. IsText(<<t[i]>>)
    <3>1. <<t[i]>> \in Seq({t[i]})
      OBVIOUS
    <3> QED
      BY <3>1, SeqIsText
  <2> QED
    BY <2>1
<1>3. WithBreaks(t, break) = FlattenSeq(parts)
  BY DEF WithBreaks
<1>4. parts = [i \in 1 .. n |-> parts[i]]
  OBVIOUS
<1> HIDE DEF n, parts
<1>5. IsText(parts) /\ Len(parts) = n
  BY <1>1, <1>4, MakesText
<1> QED
  BY <1>2, <1>3, <1>5, FlattenText

LEMMA ConformText ==
  ASSUME NEW t, IsText(t), NEW context
  PROVE  IsText(Conform(t, context))
<1>1. IsText(<<CR, LF>>) /\ IsText(<<CR>>)
  <2>1. <<CR, LF>> \in Seq({CR, LF}) /\ <<CR>> \in Seq({CR})
    OBVIOUS
  <2> QED
    BY <2>1, SeqIsText
<1> QED
  BY <1>1, WithBreaksText DEF Conform

LEMMA TrimmedText ==
  ASSUME NEW p, IsText(ask[p.block].new), NEW norm
  PROVE  IsText(Trimmed(p, norm))
<1> DEFINE t == ask[p.block].new
           unit == IF EndsWith(t, <<CR, LF>>) THEN 2 ELSE 1
           zero == 0
           b == Len(t) - unit
           n == Len(<<LF>>)
<1>1. Trimmed(p, norm) = IF Trims(p, norm) THEN Slice(t, zero, b) ELSE t
  BY DEF Trimmed
<1>2. IsText(t) /\ Len(t) \in Nat
  BY DEF IsText
<1>3. CASE Trims(p, norm)
  <2>1. b \in Nat
    <3>1. Len(<<LF>>) = 1 /\ Len(<<CR, LF>>) = 2
      OBVIOUS
    <3> QED
      BY <1>2, <1>3, <3>1 DEF Trims, EndsWith
  <2>2. zero \in Nat
    OBVIOUS
  <2> HIDE DEF zero, b, t
  <2> QED
    BY <1>1, <1>2, <1>3, <2>1, <2>2, SliceIs
<1> QED
  BY <1>1, <1>2, <1>3

\* The splices are the pieces, in the order of their starts.
LEMMA SplicesAre ==
  ASSUME NEW pieces, IsText(pieces), \A i \in 1 .. Len(pieces) : pieces[i].start \in Nat
  PROVE  LET n == Len(pieces) IN
         \E at \in [1 .. n -> 1 .. n] :
           /\ Splices(pieces) = [k \in 1 .. n |-> pieces[at[k]]]
           /\ \A i \in 1 .. n : \E k \in 1 .. n : at[k] = i
           /\ \A j, k \in 1 .. n : j < k =>
                \/ pieces[at[j]].start < pieces[at[k]].start
                \/ pieces[at[j]].start = pieces[at[k]].start /\ at[j] < at[k]
<1> DEFINE n == Len(pieces)
           UpTo(i) == {j \in 1 .. n : \/ pieces[j].start < pieces[i].start
                                      \/ pieces[j].start = pieces[i].start /\ j <= i}
           rank == [i \in 1 .. n |-> Cardinality(UpTo(i))]
           at == [k \in 1 .. n |-> CHOOSE i \in 1 .. n : Cardinality(UpTo(i)) = k]
<1>1. n \in Nat /\ DOMAIN pieces = 1 .. n
  BY TextIsSeq
<1>2. IsFiniteSet(1 .. n) /\ Cardinality(1 .. n) = n
  <2> HIDE DEF n
  <2> QED
    BY <1>1, FS_Interval
<1>3. ASSUME NEW i \in 1 .. n
      PROVE  IsFiniteSet(UpTo(i)) /\ Cardinality(UpTo(i)) \in 1 .. n
  <2>1. UpTo(i) \in SUBSET (1 .. n) /\ i \in UpTo(i)
    OBVIOUS
  <2> HIDE DEF UpTo
  <2>2. IsFiniteSet(UpTo(i)) /\ Cardinality(UpTo(i)) <= n
    BY <1>2, <2>1, FS_Subset
  <2>3. Cardinality(UpTo(i)) \in Nat /\ Cardinality(UpTo(i)) # 0
    BY <2>1, <2>2, FS_CardinalityType, FS_EmptySet
  <2> QED
    BY <1>1, <2>2, <2>3
<1>4. ASSUME NEW i \in 1 .. n, NEW j \in 1 .. n,
             pieces[i].start < pieces[j].start \/ (pieces[i].start = pieces[j].start /\ i < j)
      PROVE  Cardinality(UpTo(i)) < Cardinality(UpTo(j))
  <2>1. UpTo(i) \subseteq UpTo(j)
    <3>1. ASSUME NEW x \in UpTo(i) PROVE x \in UpTo(j)
      <4>1. /\ x \in 1 .. n /\ x \in Nat /\ i \in Nat /\ j \in Nat
            /\ pieces[x].start \in Nat /\ pieces[i].start \in Nat /\ pieces[j].start \in Nat
            /\ pieces[x].start < pieces[i].start \/ (pieces[x].start = pieces[i].start /\ x <= i)
        OBVIOUS
      <4>2. pieces[x].start < pieces[j].start \/ (pieces[x].start = pieces[j].start /\ x <= j)
        BY <1>4, <4>1
      <4> QED
        BY <4>1, <4>2
    <3> QED
      BY <3>1
  <2>2. j \in UpTo(j) /\ j \notin UpTo(i)
    <3>1. i \in Nat /\ j \in Nat /\ pieces[i].start \in Nat /\ pieces[j].start \in Nat
      OBVIOUS
    <3>2. ~(pieces[j].start < pieces[i].start \/ (pieces[j].start = pieces[i].start /\ j <= i))
      BY <1>4, <3>1
    <3> QED
      BY <3>2
  <2>3. IsFiniteSet(UpTo(j)) /\ IsFiniteSet(UpTo(i))
    BY <1>3
  <2>4. Cardinality(UpTo(i)) \in Nat /\ Cardinality(UpTo(j)) \in Nat
    BY <2>3, FS_CardinalityType
  <2> HIDE DEF UpTo
  <2>5. Cardinality(UpTo(i)) <= Cardinality(UpTo(j)) /\ Cardinality(UpTo(i)) # Cardinality(UpTo(j))
    BY <2>1, <2>2, <2>3, FS_Subset
  <2> QED
    BY <2>4, <2>5
<1>5. \A i, j \in 1 .. n : i # j =>
        \/ pieces[i].start < pieces[j].start \/ (pieces[i].start = pieces[j].start /\ i < j)
        \/ pieces[j].start < pieces[i].start \/ (pieces[j].start = pieces[i].start /\ j < i)
  BY <1>1
<1>6. rank \in Surjection(1 .. n, 1 .. n)
  <2>1. rank \in [1 .. n -> 1 .. n]
    BY <1>3
  <2>2. ASSUME NEW i \in 1 .. n, NEW j \in 1 .. n, rank[i] = rank[j] PROVE i = j
    <3>1. Cardinality(UpTo(i)) = Cardinality(UpTo(j)) /\ Cardinality(UpTo(i)) \in Nat
      <4>1. rank[i] = Cardinality(UpTo(i)) /\ rank[j] = Cardinality(UpTo(j))
        OBVIOUS
      <4>2. Cardinality(UpTo(i)) \in 1 .. n
        BY <1>3
      <4>3. \A x \in 1 .. n : x \in Nat
        OBVIOUS
      <4> HIDE DEF rank, UpTo, n
      <4> QED
        BY <2>2, <4>1, <4>2, <4>3
    <3> HIDE DEF UpTo
    <3> QED
      BY <1>4, <1>5, <3>1
  <2>3. rank \in Injection(1 .. n, 1 .. n)
    BY <2>1, <2>2 DEF Injection, IsInjective
  <2> HIDE DEF rank
  <2> QED
    BY <1>2, <2>3, FS_Injection
<1>7. \A k \in 1 .. n : \E i \in 1 .. n : Cardinality(UpTo(i)) = k
  BY <1>6 DEF Surjection
<1>8. Splices(pieces) = [k \in 1 .. n |-> pieces[at[k]]]
  BY <1>1 DEF Splices
<1>9. \A k \in 1 .. n : at[k] \in 1 .. n /\ Cardinality(UpTo(at[k])) = k
  <2> HIDE DEF UpTo
  <2> QED
    BY <1>7
<1>10. at \in [1 .. n -> 1 .. n]
  BY <1>9
<1> HIDE DEF UpTo, at
<1>11. ASSUME NEW i \in 1 .. n PROVE \E k \in 1 .. n : at[k] = i
  <2> DEFINE k == Cardinality(UpTo(i))
  <2>1. k \in 1 .. n
    BY <1>3
  <2>2. at[k] \in 1 .. n /\ Cardinality(UpTo(at[k])) = k
    BY <1>9, <2>1
  <2>3. at[k] = i
    BY <1>4, <1>5, <2>1, <2>2
  <2> QED
    BY <2>1, <2>3
<1>12. ASSUME NEW j \in 1 .. n, NEW k \in 1 .. n, j < k
       PROVE  \/ pieces[at[j]].start < pieces[at[k]].start
              \/ pieces[at[j]].start = pieces[at[k]].start /\ at[j] < at[k]
  <2>1. at[j] \in 1 .. n /\ at[k] \in 1 .. n /\ at[j] # at[k]
    BY <1>9, <1>12
  <2>2. Cardinality(UpTo(at[j])) = j /\ Cardinality(UpTo(at[k])) = k
    BY <1>9
  <2>3. ~(k < j)
    BY <1>1, <1>12
  <2> QED
    BY <1>4, <1>5, <2>1, <2>2, <2>3
<1> QED
  BY <1>8, <1>10, <1>11, <1>12

-----------------------------------------------------------------------------
(* Normalizing what is put together.                                         *)

LEMMA EmptyIs ==
  /\ IsText(<<>>) /\ Len(<<>>) = 0
  /\ \A t : IsText(t) /\ Len(t) = 0 => t = <<>>
BY DEF IsText

LEMMA OneIs ==
  ASSUME NEW c
  PROVE  IsText(<<c>>) /\ Len(<<c>>) = 1 /\ <<c>>[1] = c
<1>1. <<c>> \in Seq({c})
  OBVIOUS
<1> QED
  BY <1>1, SeqIsText

LEMMA PairIs ==
  ASSUME NEW c, NEW d
  PROVE  IsText(<<c, d>>) /\ Len(<<c, d>>) = 2 /\ <<c, d>>[1] = c /\ <<c, d>>[2] = d
<1>1. <<c, d>> \in Seq({c, d})
  OBVIOUS
<1> QED
  BY <1>1, SeqIsText

LEMMA ConcatAll ==
  ASSUME NEW s, IsText(s), NEW t, IsText(t)
  PROVE  /\ IsText(s \o t) /\ Len(s \o t) = Len(s) + Len(t) /\ Len(s) \in Nat /\ Len(t) \in Nat
         /\ \A i \in 1 .. Len(s) : (s \o t)[i] = s[i]
         /\ \A i \in 1 .. Len(t) : (s \o t)[Len(s) + i] = t[i]
<1> DEFINE S == {s[i] : i \in 1 .. Len(s)} \cup {t[i] : i \in 1 .. Len(t)}
<1>1. /\ \A i \in 1 .. Len(s) : s[i] \in S
      /\ \A i \in 1 .. Len(t) : t[i] \in S
  OBVIOUS
<1> HIDE DEF S
<1>2. s \in Seq(S) /\ t \in Seq(S) /\ Len(s) \in Nat /\ Len(t) \in Nat
  BY <1>1, TextIsSeq
<1>3. /\ s \o t \in Seq(S) /\ Len(s \o t) = Len(s) + Len(t)
      /\ \A i \in 1 .. Len(s) + Len(t) : (s \o t)[i] = IF i <= Len(s) THEN s[i] ELSE t[i - Len(s)]
  BY <1>2, ConcatProperties
<1>4. ASSUME NEW i \in 1 .. Len(t) PROVE (s \o t)[Len(s) + i] = t[i]
  <2>1. /\ Len(s) + i \in 1 .. Len(s) + Len(t) /\ ~(Len(s) + i <= Len(s))
        /\ (Len(s) + i) - Len(s) = i
    BY <1>2
  <2> QED
    BY <1>3, <2>1
<1>5. \A i \in 1 .. Len(s) : (s \o t)[i] = s[i]
  BY <1>2, <1>3
<1>6. IsText(s \o t)
  BY <1>3, SeqIsText
<1> QED
  BY <1>2, <1>3, <1>4, <1>5, <1>6

LEMMA ConcatEmpty ==
  ASSUME NEW t, IsText(t)
  PROVE  t \o <<>> = t /\ <<>> \o t = t
<1>1. IsText(t \o <<>>) /\ Len(t \o <<>>) = Len(t) /\ \A i \in 1 .. Len(t) : (t \o <<>>)[i] = t[i]
  BY ConcatAll, EmptyIs
<1>2. /\ IsText(<<>> \o t) /\ Len(<<>> \o t) = Len(t)
      /\ \A i \in 1 .. Len(t) : (<<>> \o t)[0 + i] = t[i]
  BY ConcatAll, EmptyIs
<1>3. \A i \in 1 .. Len(t) : 0 + i = i
  OBVIOUS
<1> QED
  BY <1>1, <1>2, <1>3, SameText

LEMMA ConcatAssoc ==
  ASSUME NEW s, IsText(s), NEW t, IsText(t), NEW u, IsText(u)
  PROVE  (s \o t) \o u = s \o (t \o u)
<1> DEFINE S == {s[i] : i \in 1 .. Len(s)} \cup {t[i] : i \in 1 .. Len(t)}
                \cup {u[i] : i \in 1 .. Len(u)}
<1>1. /\ \A i \in 1 .. Len(s) : s[i] \in S
      /\ \A i \in 1 .. Len(t) : t[i] \in S
      /\ \A i \in 1 .. Len(u) : u[i] \in S
  OBVIOUS
<1> HIDE DEF S
<1>2. s \in Seq(S) /\ t \in Seq(S) /\ u \in Seq(S)
  BY <1>1, TextIsSeq
<1> QED
  BY <1>2, ConcatAssociative

\* Slicing what is put together.
LEMMA ConcatCut ==
  ASSUME NEW s, IsText(s), NEW t, IsText(t)
  PROVE  /\ Slice(s \o t, 0, Len(s)) = s
         /\ Slice(s \o t, Len(s), Len(s \o t)) = t
<1> DEFINE u == s \o t
           a == Len(s)
<1>1. /\ IsText(u) /\ Len(u) = a + Len(t) /\ a \in Nat /\ Len(t) \in Nat
      /\ \A i \in 1 .. a : u[i] = s[i]
      /\ \A i \in 1 .. Len(t) : u[a + i] = t[i]
  BY ConcatAll
<1>2. Len(s) = a
  OBVIOUS
<1> HIDE DEF u, a
<1>3. a \in 0 .. Len(u) /\ Len(u) - a = Len(t)
  BY <1>1
<1> DEFINE x == Slice(u, 0, a)
           y == Slice(u, a, Len(u))
<1>4. IsText(x) /\ Len(x) = a /\ \A i \in 1 .. a : x[i] = u[i]
  BY <1>1, <1>3, HeadIs
<1>5. IsText(y) /\ Len(y) = Len(u) - a /\ \A i \in 1 .. Len(u) - a : y[i] = u[a + i]
  BY <1>1, <1>3, TailIs
<1> HIDE DEF x, y
<1>6. x = s
  BY <1>1, <1>2, <1>4, SameText
<1>7. y = t
  BY <1>1, <1>3, <1>5, SameText
<1> QED
  BY <1>6, <1>7 DEF x, y, u, a

LEMMA CutJoin ==
  ASSUME NEW t, IsText(t), NEW c \in 0 .. Len(t)
  PROVE  Slice(t, 0, c) \o Slice(t, c, Len(t)) = t
<1> DEFINE x == Slice(t, 0, c)
           y == Slice(t, c, Len(t))
           u == x \o y
<1>0. Len(t) \in Nat
  BY DEF IsText
<1>1. IsText(x) /\ Len(x) = c /\ \A i \in 1 .. c : x[i] = t[i]
  BY HeadIs
<1>2. IsText(y) /\ Len(y) = Len(t) - c /\ \A i \in 1 .. Len(t) - c : y[i] = t[c + i]
  BY TailIs
<1> HIDE DEF x, y
<1>3. /\ IsText(u) /\ Len(u) = Len(x) + Len(y)
      /\ \A i \in 1 .. Len(x) : u[i] = x[i]
      /\ \A i \in 1 .. Len(y) : u[Len(x) + i] = y[i]
  <2>1. IsText(x) /\ IsText(y)
    BY <1>1, <1>2
  <2> QED
    BY <2>1, ConcatAll
<1> HIDE DEF u
<1>4. Len(u) = Len(t)
  BY <1>0, <1>1, <1>2, <1>3
<1>5. ASSUME NEW i \in 1 .. Len(t) PROVE u[i] = t[i]
  <2>1. CASE i <= c
    <3>1. i \in 1 .. c
      BY <2>1
    <3> QED
      BY <1>1, <1>3, <3>1
  <2>2. CASE ~(i <= c)
    <3> DEFINE j == i - c
    <3>1. j \in 1 .. Len(t) - c /\ c + j = i
      BY <1>0, <2>2
    <3> HIDE DEF j
    <3>2. u[c + j] = y[j] /\ y[j] = t[c + j]
      BY <1>1, <1>2, <1>3, <3>1
    <3> QED
      BY <3>1, <3>2
  <2> QED
    BY <2>1, <2>2
<1> QED
  BY <1>3, <1>4, <1>5, SameText DEF u, x, y

LEMMA SliceIn ==
  ASSUME NEW t, IsText(t), NEW a \in Nat, NEW e \in Nat, a <= e, e <= Len(t)
  PROVE  LET s == Slice(t, a, e) IN
         IsText(s) /\ Len(s) = e - a /\ \A i \in 1 .. e - a : s[i] = t[a + i]
<1> DEFINE s == Slice(t, a, e)
           m == IF a < Min2(e, Len(t)) THEN Min2(e, Len(t)) - a ELSE 0
<1>1. m = e - a
  BY DEF IsText, Min2
<1>2. IsText(s) /\ Len(s) = m /\ \A i \in 1 .. m : s[i] = t[a + i]
  BY SliceIs
<1> HIDE DEF s, m
<1> QED
  BY <1>1, <1>2 DEF s

\* Slices side by side.
LEMMA SliceJoin ==
  ASSUME NEW t, IsText(t), NEW a \in Nat, NEW b \in Nat, NEW c \in Nat, a <= b, b <= c, c <= Len(t)
  PROVE  Slice(t, a, b) \o Slice(t, b, c) = Slice(t, a, c)
<1> DEFINE x == Slice(t, a, b)
           y == Slice(t, b, c)
           z == Slice(t, a, c)
           u == x \o y
<1>1. IsText(x) /\ Len(x) = b - a /\ \A i \in 1 .. b - a : x[i] = t[a + i]
  <2>1. b <= Len(t)
    BY DEF IsText
  <2> QED
    BY <2>1, SliceIn
<1>2. IsText(y) /\ Len(y) = c - b /\ \A i \in 1 .. c - b : y[i] = t[b + i]
  BY SliceIn
<1>3. IsText(z) /\ Len(z) = c - a /\ \A i \in 1 .. c - a : z[i] = t[a + i]
  <2>1. a <= c
    OBVIOUS
  <2> QED
    BY <2>1, SliceIn
<1> HIDE DEF x, y, z
<1>4. /\ IsText(u) /\ Len(u) = Len(x) + Len(y)
      /\ \A i \in 1 .. Len(x) : u[i] = x[i]
      /\ \A i \in 1 .. Len(y) : u[Len(x) + i] = y[i]
  <2>1. IsText(x) /\ IsText(y)
    BY <1>1, <1>2
  <2> QED
    BY <2>1, ConcatAll
<1> HIDE DEF u
<1>5. Len(u) = Len(z)
  BY <1>1, <1>2, <1>3, <1>4
<1>6. ASSUME NEW i \in 1 .. Len(z) PROVE u[i] = z[i]
  <2>1. CASE i <= b - a
    <3>1. i \in 1 .. b - a /\ i \in 1 .. c - a
      BY <1>3, <2>1
    <3> QED
      BY <1>1, <1>3, <1>4, <3>1
  <2>2. CASE ~(i <= b - a)
    <3> DEFINE j == i - (b - a)
    <3>1. j \in 1 .. c - b /\ (b - a) + j = i /\ b + j = a + i
      BY <1>3, <2>2
    <3> HIDE DEF j
    <3>2. u[(b - a) + j] = y[j] /\ y[j] = t[b + j] /\ z[i] = t[a + i]
      BY <1>1, <1>2, <1>3, <1>4, <3>1
    <3> QED
      BY <3>1, <3>2
  <2> QED
    BY <2>1, <2>2
<1> QED
  BY <1>3, <1>4, <1>5, <1>6, SameText DEF u, x, y, z

LEMMA NormalizeEach ==
  ASSUME NEW t, IsText(t),
         \A i \in 1 .. Len(t) - 1 : ~(t[i] = CR /\ t[i + 1] = LF)
  PROVE  /\ Normalize(t) = [i \in 1 .. Len(t) |-> Becoming(t[i])]
         /\ Kept(t) = 1 .. Len(t)
<1> DEFINE n == Len(t)
           q == [k \in 1 .. n |-> k]
<1>1. n \in Nat
  BY DEF IsText
<1>2. Kept(t) = 1 .. n
  <2>1. \A i \in 1 .. n : i < n => i \in 1 .. n - 1
    BY <1>1
  <2> QED
    BY <2>1 DEF Kept
<1>3. Lists(q, n, Kept(t))
  BY <1>1, <1>2 DEF Lists
<1>4. \A k \in 1 .. n : q[k] = k
  OBVIOUS
<1> HIDE DEF q, n
<1>5. Normalize(t) = [k \in 1 .. n |-> Becoming(t[q[k]])]
  BY <1>1, <1>3, NormalizeBy
<1> QED
  BY <1>2, <1>4, <1>5 DEF n

LEMMA NormalizePlain ==
  ASSUME NEW t, IsText(t), \A i \in 1 .. Len(t) : t[i] # CR
  PROVE  Normalize(t) = t
<1>1. Len(t) \in Nat /\ t = [i \in 1 .. Len(t) |-> t[i]]
  BY DEF IsText
<1>2. \A i \in 1 .. Len(t) - 1 : ~(t[i] = CR /\ t[i + 1] = LF)
  BY <1>1
<1>3. Normalize(t) = [i \in 1 .. Len(t) |-> Becoming(t[i])]
  BY <1>2, NormalizeEach
<1>4. \A i \in 1 .. Len(t) : Becoming(t[i]) = t[i]
  BY DEF Becoming
<1> QED
  BY <1>1, <1>3, <1>4

LEMMA NormalizeSmall ==
  /\ Normalize(<<>>) = <<>>
  /\ \A c : Normalize(<<c>>) = <<Becoming(c)>>
  /\ Normalize(<<CR, LF>>) = <<LF>>
<1>1. Normalize(<<>>) = <<>>
  BY NormalizePlain, EmptyIs
<1>2. ASSUME NEW c PROVE Normalize(<<c>>) = <<Becoming(c)>>
  <2> DEFINE t == <<c>>
             d == Becoming(c)
  <2>1. IsText(t) /\ Len(t) = 1 /\ t[1] = c
    BY OneIs
  <2>2. IsText(<<d>>) /\ Len(<<d>>) = 1 /\ <<d>>[1] = d
    BY OneIs
  <2> HIDE DEF t, d
  <2>3. Normalize(t) = [i \in 1 .. Len(t) |-> Becoming(t[i])]
    <3>1. \A i \in 1 .. Len(t) - 1 : ~(t[i] = CR /\ t[i + 1] = LF)
      BY <2>1
    <3> QED
      BY <2>1, <3>1, NormalizeEach
  <2>4. <<d>> = [i \in 1 .. 1 |-> <<d>>[i]]
    BY <2>2 DEF IsText
  <2>5. Normalize(t) = <<d>>
    BY <2>1, <2>2, <2>3, <2>4 DEF d
  <2> QED
    BY <2>5 DEF t, d
<1>3. Normalize(<<CR, LF>>) = <<LF>>
  <2> DEFINE t == <<CR, LF>>
             q == [k \in 1 .. 1 |-> 2]
             m == 1
  <2>1. IsText(t) /\ Len(t) = 2 /\ t[1] = CR /\ t[2] = LF
    BY PairIs
  <2>2. IsText(<<LF>>) /\ Len(<<LF>>) = 1 /\ <<LF>>[1] = LF
    BY OneIs
  <2> HIDE DEF t
  <2>3. Kept(t) = {2}
    <3>1. 1 \notin Kept(t)
      BY <2>1 DEF Kept
    <3>2. 2 \in Kept(t)
      BY <2>1 DEF Kept
    <3>3. \A i \in Kept(t) : i = 1 \/ i = 2
      BY <2>1 DEF Kept
    <3> QED
      BY <3>1, <3>2, <3>3
  <2>4. Lists(q, m, Kept(t))
    BY <2>3 DEF Lists
  <2>5. m \in Nat /\ m = 1 /\ \A k \in 1 .. 1 : q[k] = 2
    OBVIOUS
  <2> HIDE DEF q, m
  <2>6. Normalize(t) = [k \in 1 .. m |-> Becoming(t[q[k]])]
    BY <2>1, <2>4, <2>5, NormalizeBy
  <2>7. <<LF>> = [i \in 1 .. 1 |-> <<LF>>[i]]
    BY <2>2 DEF IsText
  <2>8. Becoming(LF) = LF
    BY DEF Becoming
  <2>9. Normalize(t) = <<LF>>
    BY <2>1, <2>2, <2>5, <2>6, <2>7, <2>8
  <2> QED
    BY <2>9 DEF t
<1> QED
  BY <1>1, <1>2, <1>3

LEMMA KeptIsCut ==
  ASSUME NEW t, IsText(t), NEW c, c = 0 \/ c \in Kept(t)
  PROVE  \E k \in 0 .. Len(Normalize(t)) : Cut(t, k) = c
<1> DEFINE n == Len(Normalize(t))
<1>1. n \in Nat /\ Lists(At(t), n, Kept(t))
  BY AtLists
<1> HIDE DEF n
<1>2. CASE c = 0
  <2>1. 0 \in 0 .. n /\ Cut(t, 0) = 0
    BY <1>1 DEF Cut
  <2> QED
    BY <1>2, <2>1 DEF n
<1>3. CASE c \in Kept(t)
  <2>1. PICK k \in 1 .. n : At(t)[k] = c
    BY <1>1, <1>3 DEF Lists
  <2>2. k \in 0 .. n /\ Cut(t, k) = c
    BY <1>1, <2>1 DEF Cut
  <2> QED
    BY <2>2 DEF n
<1> QED
  BY <1>2, <1>3

LEMMA NormalizeConcat ==
  ASSUME NEW s, IsText(s), NEW t, IsText(t), ~Meets(s, t)
  PROVE  Normalize(s \o t) = Normalize(s) \o Normalize(t)
<1> DEFINE u == s \o t
           a == Len(s)
<1>1. /\ IsText(u) /\ Len(u) = a + Len(t) /\ a \in Nat /\ Len(t) \in Nat
      /\ \A i \in 1 .. a : u[i] = s[i]
      /\ \A i \in 1 .. Len(t) : u[a + i] = t[i]
  <2>1. /\ IsText(s \o t) /\ Len(s \o t) = Len(s) + Len(t) /\ Len(s) \in Nat /\ Len(t) \in Nat
        /\ \A i \in 1 .. Len(s) : (s \o t)[i] = s[i]
        /\ \A i \in 1 .. Len(t) : (s \o t)[Len(s) + i] = t[i]
    BY ConcatAll, SMTT(60)
  <2>2. IsText(u) /\ Len(u) = a + Len(t) /\ a \in Nat /\ Len(t) \in Nat
    BY <2>1
  <2>3. \A i \in 1 .. a : u[i] = s[i]
    BY <2>1
  <2>4. \A i \in 1 .. Len(t) : u[a + i] = t[i]
    BY <2>1
  <2> HIDE DEF u, a
  <2> QED
    BY <2>2, <2>3, <2>4
<1>2. Slice(u, 0, a) = s /\ Slice(u, a, Len(u)) = t
  BY ConcatCut
<1>3. a = 0 \/ a \in Kept(u)
  <2>1. ASSUME a # 0, u[a] = CR, a < Len(u), u[a + 1] = LF PROVE FALSE
    <3>1. a \in 1 .. a /\ 1 \in 1 .. Len(t)
      BY <1>1, <2>1
    <3>2. s[a] = CR /\ t[1] = LF
      BY <1>1, <2>1, <3>1
    <3>3. s # <<>> /\ t # <<>>
      BY <3>1
    <3> QED
      BY <3>2, <3>3 DEF Meets
  <2>2. a # 0 => a \in 1 .. Len(u)
    BY <1>1
  <2> QED
    BY <2>1, <2>2 DEF Kept
<1> HIDE DEF u, a
<1>4. PICK k \in 0 .. Len(Normalize(u)) : Cut(u, k) = a
  BY <1>1, <1>3, KeptIsCut
<1>5. /\ Normalize(s) = Slice(Normalize(u), 0, k)
      /\ Normalize(t) = Slice(Normalize(u), k, Len(Normalize(u)))
  BY <1>1, <1>2, <1>4, CutPrefix, CutSuffix
<1>6. Normalize(s) \o Normalize(t) = Normalize(u)
  BY <1>1, <1>5, NormalizeIs, CutJoin
<1> QED
  BY <1>6 DEF u

\* What lies between two cuts.
LEMMA BetweenCuts ==
  ASSUME NEW t, IsText(t), NEW j \in Nat, NEW k \in Nat, j <= k, k <= Len(Normalize(t))
  PROVE  /\ Normalize(Slice(t, Cut(t, j), Cut(t, k))) = Slice(Normalize(t), j, k)
         /\ Cut(t, j) <= Cut(t, k)
<1> DEFINE norm == Normalize(t)
           n == Len(norm)
           c == Cut(t, j)
           d == Cut(t, k)
           x == Slice(t, 0, c)
           y == Slice(t, c, d)
           zero == 0
<1>1. /\ IsText(norm) /\ n \in Nat /\ Lists(At(t), n, Kept(t)) /\ Len(t) \in Nat
      /\ Kept(t) \in SUBSET (1 .. Len(t)) /\ j \in 0 .. n /\ k \in 0 .. n
  BY NormalizeIs, AtLists, KeptIs
<1>2. c \in 0 .. Len(t) /\ d \in 0 .. Len(t)
  BY <1>1, CutsAre
<1>3. c <= d
  <2>1. CASE j = 0
    BY <1>2, <2>1 DEF Cut
  <2>2. CASE j # 0
    <3>1. j \in 1 .. k /\ c = At(t)[j]
      BY <1>1, <2>2 DEF Cut
    <3> QED
      BY <1>1, <3>1, CutsAre
  <2> QED
    BY <2>1, <2>2
<1>4. c = 0 \/ c \in Kept(t)
  <2>1. c = 0 \/ (j \in 1 .. n /\ c = At(t)[j])
    BY <1>1 DEF Cut
  <2> QED
    BY <1>1, <2>1 DEF Lists
<1>5. /\ Normalize(x) = Slice(norm, 0, j)
      /\ Normalize(Slice(t, 0, d)) = Slice(norm, 0, k)
  BY <1>1, CutPrefix
<1> HIDE DEF norm, n, c, d
<1>6. IsText(x) /\ Len(x) = c /\ \A i \in 1 .. c : x[i] = t[i]
  BY <1>2, HeadIs
<1>7. IsText(y) /\ Len(y) = d - c /\ \A i \in 1 .. d - c : y[i] = t[c + i]
  <2>1. c \in Nat /\ d \in Nat /\ d <= Len(t)
    BY <1>1, <1>2
  <2> QED
    BY <1>3, <2>1, SliceIn
<1>8. x \o y = Slice(t, 0, d)
  <2>1. c \in Nat /\ d \in Nat /\ zero \in Nat /\ zero <= c /\ d <= Len(t)
    BY <1>1, <1>2
  <2>2. x = Slice(t, zero, c)
    OBVIOUS
  <2> HIDE DEF x, y, zero
  <2>3. Slice(t, zero, c) \o Slice(t, c, d) = Slice(t, zero, d)
    BY <1>3, <2>1, SliceJoin
  <2> QED
    BY <2>2, <2>3 DEF y, zero
<1> HIDE DEF x, y
<1>9. ~Meets(x, y)
  <2>1. ASSUME Meets(x, y) PROVE FALSE
    <3>1. Len(x) # 0 /\ Len(y) # 0
      BY <1>6, <1>7, <2>1, EmptyIs DEF Meets
    <3>2. c \in 1 .. c /\ 1 \in 1 .. d - c /\ c < Len(t)
      BY <1>1, <1>2, <1>6, <1>7, <3>1
    <3>3. t[c] = CR /\ t[c + 1] = LF
      BY <1>6, <1>7, <2>1, <3>2 DEF Meets
    <3> QED
      BY <1>4, <3>2, <3>3 DEF Kept
  <2> QED
    BY <2>1
<1>10. Normalize(x) \o Normalize(y) = Slice(norm, 0, k)
  BY <1>5, <1>6, <1>7, <1>8, <1>9, NormalizeConcat
<1>11. Slice(norm, 0, j) \o Slice(norm, j, k) = Slice(norm, 0, k)
  <2>1. zero \in Nat /\ zero <= j /\ k <= Len(norm)
    BY <1>1 DEF n
  <2> HIDE DEF zero
  <2>2. Slice(norm, zero, j) \o Slice(norm, j, k) = Slice(norm, zero, k)
    BY <1>1, <2>1, SliceJoin
  <2> QED
    BY <2>2 DEF zero
<1>12. Normalize(y) = Slice(norm, j, k)
  <2> DEFINE p == Slice(norm, 0, j)
             q == Slice(norm, j, k)
             r == Normalize(y)
  <2>1. IsText(p) /\ IsText(q) /\ IsText(r)
    <3>1. k <= Len(norm)
      BY <1>1 DEF n
    <3> QED
      BY <1>1, <1>5, <1>6, <1>7, <3>1, NormalizeIs, SliceIn
  <2>2. p \o r = p \o q
    BY <1>5, <1>10, <1>11
  <2> HIDE DEF p, q, r
  <2>3. r = Slice(p \o r, Len(p), Len(p \o r)) /\ q = Slice(p \o q, Len(p), Len(p \o q))
    BY <2>1, ConcatCut
  <2>4. r = q
    BY <2>2, <2>3
  <2> QED
    BY <2>4 DEF q, r
<1> QED
  BY <1>3, <1>12 DEF y, c, d, norm

\* A text whose breaks are conformed still normalizes to what it was.
LEMMA WithBreaksNormal ==
  ASSUME NEW t, IsText(t), \A i \in 1 .. Len(t) : t[i] # CR,
         NEW break, break \in {<<CR>>, <<CR, LF>>}
  PROVE  Normalize(WithBreaks(t, break)) = t
<1> DEFINE n == Len(t)
           parts == [i \in 1 .. n |-> IF t[i] = LF THEN break ELSE <<t[i]>>]
<1>1. n \in Nat
  BY DEF IsText
<1>2. /\ IsText(break) /\ Normalize(break) = <<LF>> /\ break[1] = CR
  BY OneIs, PairIs, NormalizeSmall DEF Becoming
<1>3. ASSUME NEW i \in 1 .. n
      PROVE  IsText(parts[i]) /\ Normalize(parts[i]) = <<t[i]>> /\ parts[i][1] # LF
  <2>1. parts[i] = IF t[i] = LF THEN break ELSE <<t[i]>>
    OBVIOUS
  <2>2. IsText(<<t[i]>>) /\ <<t[i]>>[1] = t[i] /\ Normalize(<<t[i]>>) = <<t[i]>>
    BY OneIs, NormalizeSmall DEF Becoming
  <2> HIDE DEF parts
  <2> QED
    BY <1>2, <2>1, <2>2, TextsAssumption DEF TextsAssumption
<1>4. WithBreaks(t, break) = FlattenSeq(parts)
  BY DEF WithBreaks
<1>5. parts = [i \in 1 .. n |-> parts[i]]
  OBVIOUS
<1> HIDE DEF n, parts
<1>6. IsText(parts) /\ Len(parts) = n
  BY <1>1, <1>5, MakesText
<1>7. CASE n = 0
  <2>1. parts = <<>> /\ t = <<>>
    BY <1>6, <1>7, EmptyIs DEF n
  <2>2. FlattenSeq(parts) = <<>>
    BY <2>1, <1>6, <1>7 DEF FlattenSeq
  <2> QED
    BY <1>4, <2>1, <2>2, NormalizeSmall
<1>8. CASE n # 0
  <2>0. n \in Nat \ {0}
    BY <1>1, <1>8
  <2>1. PICK f : /\ f[1] = parts[1]
                 /\ \A i \in 2 .. n : f[i] = f[i - 1] \o parts[i]
                 /\ FlattenSeq(parts) = f[n]
    BY <1>6, <2>0, FlattenIs
  <2> DEFINE Good(i) == IsText(f[i]) /\ Normalize(f[i]) = Slice(t, 0, i)
             Bad == {i \in 1 .. n : ~Good(i)}
  <2>2. \A i \in 1 .. n : IsText(Slice(t, 0, i)) /\ Slice(t, i - 1, i) = <<t[i]>>
    <3>1. ASSUME NEW i \in 1 .. n
          PROVE  IsText(Slice(t, 0, i)) /\ Slice(t, i - 1, i) = <<t[i]>>
      <4> DEFINE j == i - 1
                 x == Slice(t, j, i)
                 y == <<t[i]>>
      <4>1. j \in Nat /\ i \in Nat /\ j <= i /\ i <= Len(t) /\ i \in 0 .. Len(t)
        BY <1>1 DEF n
      <4>2. i - j = 1 /\ j + 1 = i
        BY <4>1
      <4>3. IsText(Slice(t, 0, i))
        BY <4>1, HeadIs
      <4> HIDE DEF j, x
      <4>4. IsText(x) /\ Len(x) = i - j /\ \A k \in 1 .. i - j : x[k] = t[j + k]
        BY <4>1, SliceIn DEF x
      <4>5. IsText(y) /\ Len(y) = 1 /\ y[1] = t[i]
        BY OneIs
      <4> HIDE DEF y
      <4>6. 1 \in 1 .. i - j /\ \A k \in 1 .. Len(x) : k = 1
        BY <4>2, <4>4
      <4>7. x = y
        <5>1. Len(x) = Len(y) /\ \A k \in 1 .. Len(x) : x[k] = y[k]
          BY <4>2, <4>4, <4>5, <4>6
        <5> QED
          BY <4>4, <4>5, <5>1, SameText
      <4> QED
        BY <4>3, <4>7 DEF x, y, j
    <3> QED
      BY <3>1
  <2>3. Bad = {}
    <3> SUFFICES ASSUME Bad # {} PROVE FALSE
      OBVIOUS
    <3>1. PICK m \in Bad : \A x \in Bad : m <= x
      <4>1. Bad \in SUBSET Nat
        OBVIOUS
      <4> HIDE DEF Bad
      <4> QED
        BY <4>1, LeastExists
    <3>2. m \in 1 .. n /\ ~Good(m) /\ \A x \in 1 .. n : x < m => Good(x)
      BY <3>1
    <3> HIDE DEF Bad
    <3>3. CASE m = 1
      <4>1. Slice(t, 1 - 1, 1) = <<t[1]>> /\ 1 - 1 = 0
        BY <2>2, <3>2, <3>3
      <4>2. Slice(t, 0, 1) = <<t[1]>>
        BY <4>1
      <4>3. IsText(f[1]) /\ Normalize(f[1]) = <<t[1]>>
        BY <1>3, <2>1, <3>2, <3>3
      <4> QED
        BY <3>2, <3>3, <4>2, <4>3
    <3>4. CASE m # 1
      <4> DEFINE j == m - 1
      <4>1. m \in 2 .. n /\ j \in 1 .. n /\ j < m /\ f[m] = f[j] \o parts[m]
        <5>1. m \in 2 .. n /\ j \in 1 .. n /\ j < m
          BY <1>1, <3>2, <3>4
        <5> QED
          BY <2>1, <5>1
      <4>2. Good(j)
        BY <3>2, <4>1
      <4>3. ~Meets(f[j], parts[m])
        BY <1>3, <3>2 DEF Meets
      <4>4. IsText(f[m]) /\ Normalize(f[m]) = Normalize(f[j]) \o Normalize(parts[m])
        <5>1. IsText(f[j]) /\ IsText(parts[m])
          BY <1>3, <3>2, <4>2
        <5> HIDE DEF j
        <5> QED
          BY <4>1, <4>3, <5>1, ConcatIs, NormalizeConcat
      <4>5. Normalize(f[m]) = Slice(t, 0, j) \o Slice(t, j, m)
        BY <1>3, <2>2, <3>2, <4>2, <4>4
      <4>6. Slice(t, 0, j) \o Slice(t, j, m) = Slice(t, 0, m)
        <5> DEFINE zero == 0
        <5>1. zero \in Nat /\ j \in Nat /\ m \in Nat /\ zero <= j /\ j <= m /\ m <= Len(t)
          BY <1>1, <3>2, <4>1 DEF n
        <5> HIDE DEF zero, j
        <5>2. Slice(t, zero, j) \o Slice(t, j, m) = Slice(t, zero, m)
          BY <5>1, SliceJoin
        <5> QED
          BY <5>2 DEF zero
      <4> QED
        BY <3>2, <4>4, <4>5, <4>6
    <3> QED
      BY <3>3, <3>4
  <2>4. Normalize(f[n]) = Slice(t, 0, n)
    BY <1>1, <1>8, <2>3
  <2>5. Slice(t, 0, n) = t
    <3> DEFINE x == Slice(t, 0, n)
    <3>1. n \in 0 .. Len(t)
      BY <1>1 DEF n
    <3>2. IsText(x) /\ Len(x) = n /\ \A i \in 1 .. n : x[i] = t[i]
      BY <3>1, HeadIs
    <3> HIDE DEF x
    <3>3. x = t
      BY <3>2, SameText DEF n
    <3> QED
      BY <3>3 DEF x
  <2> QED
    BY <1>4, <2>1, <2>4, <2>5
<1> QED
  BY <1>7, <1>8

LEMMA HoldsIs ==
  ASSUME NEW t, IsText(t), NEW c
  PROVE  Holds(t, c) <=> \E i \in 1 .. Len(t) : t[i] = c
BY TextIsSeq DEF Holds, ToSet

LEMMA ConformNormal ==
  ASSUME NEW t, IsText(t), NEW context
  PROVE  IsText(Conform(t, context)) /\ Normalize(Conform(t, context)) = Normalize(t)
<1>1. CASE Holds(t, CR)
  BY <1>1, ConformText DEF Conform
<1>2. CASE ~Holds(t, CR)
  <2>1. \A i \in 1 .. Len(t) : t[i] # CR
    BY <1>2, HoldsIs
  <2>2. Normalize(t) = t
    BY <2>1, NormalizePlain
  <2>3. \A break \in {<<CR>>, <<CR, LF>>} : Normalize(WithBreaks(t, break)) = t
    BY <2>1, WithBreaksNormal
  <2>4. \/ Conform(t, context) = t
        \/ \E break \in {<<CR>>, <<CR, LF>>} : Conform(t, context) = WithBreaks(t, break)
    BY DEF Conform
  <2> QED
    BY <2>2, <2>3, <2>4, ConformText
<1> QED
  BY <1>1, <1>2

\* Dropping the trailing break of a new text drops one of its lines.
LEMMA TrimmedNormal ==
  ASSUME NEW p, IsText(ask[p.block].new), NEW norm, Trims(p, norm)
  PROVE  Normalize(ask[p.block].new) = Normalize(Trimmed(p, norm)) \o <<LF>>
<1> DEFINE t == ask[p.block].new
           n == Len(t)
           twice == EndsWith(t, <<CR, LF>>)
           unit == IF twice THEN 2 ELSE 1
           c == n - unit
           x == Slice(t, 0, c)
           y == Slice(t, c, n)
           tail == IF twice THEN <<CR, LF>> ELSE <<LF>>
<1>1. IsText(t) /\ n \in Nat /\ Trimmed(p, norm) = x
  BY DEF IsText, Trimmed
<1>2. Len(<<LF>>) = 1 /\ Len(<<CR, LF>>) = 2
  OBVIOUS
<1>3. EndsWith(t, <<LF>>)
  BY DEF Trims
<1>4. c \in 0 .. n /\ y = tail
  <2>1. twice => Len(<<CR, LF>>) <= n /\ Slice(t, n - Len(<<CR, LF>>), n) = <<CR, LF>>
    BY DEF EndsWith
  <2>2. Len(<<LF>>) <= n /\ Slice(t, n - Len(<<LF>>), n) = <<LF>>
    BY <1>3 DEF EndsWith
  <2> HIDE DEF t, n, twice
  <2>3. CASE twice
    <3>1. 2 <= n /\ Slice(t, n - 2, n) = <<CR, LF>> /\ c = n - 2 /\ tail = <<CR, LF>>
      BY <1>2, <2>1, <2>3
    <3> QED
      BY <1>1, <3>1
  <2>4. CASE ~twice
    <3>1. 1 <= n /\ Slice(t, n - 1, n) = <<LF>> /\ c = n - 1 /\ tail = <<LF>>
      BY <1>2, <2>2, <2>4
    <3> QED
      BY <1>1, <3>1
  <2> QED
    BY <2>3, <2>4
<1> HIDE DEF t
<1>5. /\ IsText(x) /\ IsText(y) /\ x \o y = t /\ Len(x) = c
      /\ \A i \in 1 .. c : x[i] = t[i]
  BY <1>1, <1>4, HeadIs, TailIs, CutJoin
<1>6. Normalize(y) = <<LF>>
  BY <1>4, NormalizeSmall DEF Becoming
<1>7. ~Meets(x, y)
  <2>1. CASE twice
    <3>1. y[1] = CR
      BY <1>4, <2>1, PairIs
    <3> QED
      BY <3>1, TextsAssumption DEF Meets, TextsAssumption
  <2>2. CASE ~twice
    <3>1. ASSUME Meets(x, y) PROVE FALSE
      <4>1. c # 0 /\ x[c] = CR
        <5>1. x # <<>> /\ x[Len(x)] = CR
          BY <3>1 DEF Meets
        <5> HIDE DEF x, c
        <5> QED
          BY <1>5, <5>1, EmptyIs
      <4>2. c \in 1 .. c /\ c = n - 1 /\ n - 1 \in Nat /\ n - 2 \in Nat
        <5>1. c = n - 1 /\ n \in Nat /\ c \in 0 .. n /\ c # 0
          BY <1>1, <1>4, <2>2, <4>1
        <5> HIDE DEF c, n
        <5> QED
          BY <5>1
      <4>3. t[n - 1] = CR
        BY <1>5, <4>1, <4>2
      <4>4. t[n] = LF
        <5> DEFINE b == n - 1
        <5>1. b \in 0 .. n /\ Slice(t, b, n) = <<LF>> /\ n = Len(t)
          BY <1>1, <1>4, <2>2, <4>2
        <5>2. 1 \in 1 .. Len(t) - b /\ b + 1 = n
          BY <1>1, <5>1
        <5> HIDE DEF b, n
        <5>3. Slice(t, b, Len(t))[1] = t[b + 1]
          BY <1>1, <5>1, <5>2, TailIs
        <5>4. <<LF>>[1] = LF
          OBVIOUS
        <5> QED
          BY <5>1, <5>2, <5>3, <5>4
      <4>5. Slice(t, n - 2, n) = <<CR, LF>>
        <5> DEFINE a == n - 2
                   z == Slice(t, a, n)
                   w == <<CR, LF>>
        <5>1. a \in Nat /\ n \in Nat /\ a <= n /\ n <= Len(t) /\ n - a = 2
              /\ a + 1 = n - 1 /\ a + 2 = n
          BY <1>1, <4>2
        <5> HIDE DEF a, z, n
        <5>2. IsText(z) /\ Len(z) = n - a /\ \A i \in 1 .. n - a : z[i] = t[a + i]
          BY <1>1, <5>1, SliceIn DEF z
        <5>3. IsText(w) /\ Len(w) = 2 /\ w[1] = CR /\ w[2] = LF
          BY PairIs
        <5> HIDE DEF w
        <5>4. z[1] = CR /\ z[2] = LF /\ Len(z) = 2
          BY <4>3, <4>4, <5>1, <5>2
        <5>5. \A i \in 1 .. Len(z) : i = 1 \/ i = 2
          BY <5>4
        <5>6. z = w
          BY <5>2, <5>3, <5>4, <5>5, SameText
        <5> QED
          BY <5>6 DEF z, w, a
      <4>6. twice
        BY <1>1, <1>2, <4>2, <4>5 DEF EndsWith
      <4> QED
        BY <2>2, <4>6
    <3> QED
      BY <3>1
  <2> QED
    BY <2>1, <2>2
<1> HIDE DEF x, y
<1>8. Normalize(t) = Normalize(x) \o <<LF>>
  BY <1>5, <1>6, <1>7, NormalizeConcat
<1> QED
  BY <1>1, <1>8 DEF t

-----------------------------------------------------------------------------
(* What a pass writes, and the text it leaves.                               *)

\* Parts of which none meets the next one that is not empty.
Seamless(parts) ==
  \A i, j \in DOMAIN parts :
    i < j /\ (\A m \in i + 1 .. j - 1 : parts[m] = <<>>) => ~Meets(parts[i], parts[j])

\* Then no part meets what was put together before it.
LEMMA NoSeam ==
  ASSUME NEW parts, IsText(parts), \A i \in 1 .. Len(parts) : IsText(parts[i]),
         Seamless(parts), NEW f, f[1] = parts[1],
         \A i \in 2 .. Len(parts) : f[i] = f[i - 1] \o parts[i]
  PROVE  /\ \A i \in 1 .. Len(parts) : IsText(f[i])
         /\ \A i \in 2 .. Len(parts) : ~Meets(f[i - 1], parts[i])
<1> DEFINE n == Len(parts)
           Ends(i) == f[i] # <<>> =>
             \E j \in 1 .. i : /\ parts[j] # <<>> /\ parts[j][Len(parts[j])] = f[i][Len(f[i])]
                               /\ \A m \in j + 1 .. i : parts[m] = <<>>
           Good(i) == IsText(f[i]) /\ Ends(i)
           Bad == {i \in 1 .. n : ~Good(i)}
<1>1. n \in Nat /\ DOMAIN parts = 1 .. n
  BY TextIsSeq
<1> HIDE DEF n
<1>2. Bad = {}
  <2> SUFFICES ASSUME Bad # {} PROVE FALSE
    OBVIOUS
  <2>1. PICK m \in Bad : \A x \in Bad : m <= x
    <3>1. Bad \in SUBSET Nat
      OBVIOUS
    <3> HIDE DEF Bad
    <3> QED
      BY <3>1, LeastExists
  <2>2. m \in 1 .. n /\ ~Good(m) /\ \A x \in 1 .. n : x < m => Good(x)
    BY <2>1
  <2> HIDE DEF Bad
  <2>3. IsText(parts[m])
    BY <2>2 DEF n
  <2>4. CASE m = 1
    <3>1. IsText(f[1])
      BY <2>3, <2>4
    <3>2. Ends(1)
      <4>1. 1 \in 1 .. 1 /\ \A x \in 1 + 1 .. 1 : FALSE
        OBVIOUS
      <4> QED
        BY <4>1
    <3> QED
      BY <2>2, <2>4, <3>1, <3>2
  <2>5. CASE m # 1
    <3> DEFINE k == m - 1
    <3>1. m \in 2 .. n /\ k \in 1 .. n /\ k < m /\ m = k + 1
      BY <1>1, <2>2, <2>5
    <3>2. f[m] = f[k] \o parts[m] /\ Good(k)
      BY <2>2, <3>1 DEF n
    <3> HIDE DEF k
    <3>3. /\ IsText(f[m]) /\ Len(f[m]) = Len(f[k]) + Len(parts[m])
          /\ Len(f[k]) \in Nat /\ Len(parts[m]) \in Nat
          /\ \A i \in 1 .. Len(f[k]) : f[m][i] = f[k][i]
          /\ \A i \in 1 .. Len(parts[m]) : f[m][Len(f[k]) + i] = parts[m][i]
      <4> DEFINE x == f[k]
                 y == parts[m]
      <4>1. IsText(x) /\ IsText(y) /\ f[m] = x \o y
        BY <2>3, <3>2
      <4> HIDE DEF x, y
      <4>2. /\ IsText(x \o y) /\ Len(x \o y) = Len(x) + Len(y) /\ Len(x) \in Nat /\ Len(y) \in Nat
            /\ \A i \in 1 .. Len(x) : (x \o y)[i] = x[i]
            /\ \A i \in 1 .. Len(y) : (x \o y)[Len(x) + i] = y[i]
        BY <4>1, ConcatAll
      <4> QED
        BY <4>1, <4>2, Zenon DEF x, y
    <3>4. Ends(m)
      <4>1. CASE parts[m] = <<>>
        <5>1. f[m] = f[k]
          BY <3>2, <4>1, ConcatEmpty
        <5>2. ASSUME f[m] # <<>>
              PROVE  \E j \in 1 .. m : /\ parts[j] # <<>>
                                       /\ parts[j][Len(parts[j])] = f[m][Len(f[m])]
                                       /\ \A x \in j + 1 .. m : parts[x] = <<>>
          <6>1. PICK j \in 1 .. k : /\ parts[j] # <<>>
                                    /\ parts[j][Len(parts[j])] = f[k][Len(f[k])]
                                    /\ \A x \in j + 1 .. k : parts[x] = <<>>
            BY <3>2, <5>1, <5>2
          <6>2. j \in 1 .. m /\ \A x \in j + 1 .. m : x \in j + 1 .. k \/ x = m
            BY <3>1
          <6> QED
            BY <4>1, <5>1, <6>1, <6>2
        <5> QED
          BY <5>2
      <4>2. CASE parts[m] # <<>>
        <5>1. Len(parts[m]) # 0
          BY <2>3, <4>2, EmptyIs
        <5>2. Len(parts[m]) \in 1 .. Len(parts[m])
          BY <3>3, <5>1
        <5>3. parts[m][Len(parts[m])] = f[m][Len(f[m])]
          BY <3>3, <5>2
        <5>4. m \in 1 .. m /\ \A x \in m + 1 .. m : FALSE
          BY <2>2
        <5> QED
          BY <4>2, <5>3, <5>4
      <4> QED
        BY <4>1, <4>2
    <3> QED
      BY <2>2, <3>3, <3>4
  <2> QED
    BY <2>4, <2>5
<1>3. \A i \in 1 .. n : IsText(f[i]) /\ Ends(i)
  BY <1>2
<1> HIDE DEF Bad
<1>4. ASSUME NEW i \in 2 .. n PROVE ~Meets(f[i - 1], parts[i])
  <2> DEFINE k == i - 1
  <2>1. k \in 1 .. n /\ i \in 1 .. n /\ i = k + 1
    BY <1>1
  <2>2. ASSUME Meets(f[k], parts[i]) PROVE FALSE
    <3>1. f[k] # <<>> /\ f[k][Len(f[k])] = CR /\ parts[i] # <<>> /\ parts[i][1] = LF
      BY <2>2 DEF Meets
    <3> HIDE DEF k
    <3>2. PICK j \in 1 .. k : /\ parts[j] # <<>>
                              /\ parts[j][Len(parts[j])] = f[k][Len(f[k])]
                              /\ \A x \in j + 1 .. k : parts[x] = <<>>
      BY <1>3, <2>1, <3>1
    <3>3. Meets(parts[j], parts[i])
      BY <3>1, <3>2 DEF Meets
    <3>4. j \in 1 .. n /\ j < i /\ i - 1 = k
      BY <1>1, <2>1
    <3> QED
      BY <1>1, <2>1, <3>2, <3>3, <3>4 DEF Seamless
  <2> QED
    BY <2>2
<1> QED
  BY <1>3, <1>4 DEF n

\* Pieces of a text in the order in which they are applied: each lies before
\* the ones that came first.
Stacked(b, a) ==
  /\ IsText(a)
  /\ \A i \in 1 .. Len(a) : /\ a[i] \in Piece
                            /\ a[i].start <= a[i].end /\ a[i].end <= Len(b)
  /\ \A i, j \in 1 .. Len(a) : i < j => a[j].end <= a[i].start /\ a[j].start < a[i].start

LEMMA StackedIs ==
  ASSUME NEW b, IsText(b), NEW a, Stacked(b, a)
  PROVE  /\ Len(a) \in Nat /\ IsText(a)
         /\ \A i \in 1 .. Len(a) : /\ a[i].start \in Nat /\ a[i].end \in Nat /\ a[i].block \in Block
                                   /\ a[i].start <= a[i].end /\ a[i].end <= Len(b)
BY DEF Stacked, IsText, Piece

\* Splicing takes them the other way round.
LEMMA SplicesTurned ==
  ASSUME NEW b, IsText(b), NEW a, Stacked(b, a)
  PROVE  \A k \in 1 .. Len(a) : Splices(a)[k] = a[Len(a) + 1 - k]
<1> DEFINE n == Len(a)
<1>1. n \in Nat /\ IsText(a) /\ \A i \in 1 .. n : a[i].start \in Nat
  BY StackedIs
<1>2. PICK at \in [1 .. n -> 1 .. n] :
        /\ Splices(a) = [k \in 1 .. n |-> a[at[k]]]
        /\ \A i \in 1 .. n : \E k \in 1 .. n : at[k] = i
        /\ \A j, k \in 1 .. n : j < k =>
             \/ a[at[j]].start < a[at[k]].start
             \/ a[at[j]].start = a[at[k]].start /\ at[j] < at[k]
  BY <1>1, SplicesAre
<1>3. \A i, j \in 1 .. n : i < j => a[j].start < a[i].start
  BY DEF Stacked
<1> HIDE DEF n
<1>4. \A j \in 1 .. n : at[j] \in 1 .. n /\ at[j] \in Nat
  BY <1>1, <1>2
<1>5. ASSUME NEW j \in 1 .. n, NEW k \in 1 .. n, j < k PROVE at[k] < at[j]
  <2>1. at[j] \in 1 .. n /\ at[k] \in 1 .. n
    BY <1>4
  <2>2. \/ a[at[j]].start < a[at[k]].start
        \/ a[at[j]].start = a[at[k]].start /\ at[j] < at[k]
    BY <1>2, <1>5
  <2>3. ~(at[j] < at[k])
    <3>1. ASSUME at[j] < at[k] PROVE FALSE
      <4>1. a[at[k]].start < a[at[j]].start
        BY <1>3, <2>1, <3>1
      <4>2. a[at[k]].start \in Nat /\ a[at[j]].start \in Nat
        BY <1>1, <2>1
      <4> QED
        BY <2>2, <4>1, <4>2
    <3> QED
      BY <3>1
  <2>4. at[j] # at[k]
    <3>1. ASSUME at[j] = at[k] PROVE FALSE
      <4>1. a[at[k]].start \in Nat
        BY <1>1, <2>1
      <4> QED
        BY <2>1, <2>2, <3>1, <4>1
    <3> QED
      BY <3>1
  <2>5. at[j] \in Nat /\ at[k] \in Nat
    BY <1>4
  <2> QED
    BY <2>3, <2>4, <2>5
<1> DEFINE q == [k \in 1 .. n |-> n + 1 - at[k]]
           id == [k \in 1 .. n |-> k]
           S == 1 .. n
<1>6. Lists(q, n, S)
  <2>1. \A k \in 1 .. n : q[k] = n + 1 - at[k] /\ q[k] \in S
    BY <1>1, <1>4
  <2>2. \A j, k \in 1 .. n : j < k => q[j] < q[k]
    <3>1. ASSUME NEW j \in 1 .. n, NEW k \in 1 .. n, j < k PROVE q[j] < q[k]
      <4>1. at[k] < at[j] /\ at[k] \in Nat /\ at[j] \in Nat
        BY <1>4, <1>5, <3>1
      <4>2. q[j] = n + 1 - at[j] /\ q[k] = n + 1 - at[k]
        BY <2>1
      <4> HIDE DEF q
      <4> QED
        BY <1>1, <4>1, <4>2
    <3> QED
      BY <3>1
  <2>3. ASSUME NEW i \in S PROVE \E k \in 1 .. n : q[k] = i
    <3>1. n + 1 - i \in 1 .. n
      BY <1>1
    <3>2. PICK k \in 1 .. n : at[k] = n + 1 - i
      BY <1>2, <3>1
    <3>3. q[k] = n + 1 - (n + 1 - i)
      BY <3>2
    <3>4. n + 1 - (n + 1 - i) = i
      BY <1>1
    <3> QED
      BY <3>3, <3>4
  <2>4. q = [k \in 1 .. n |-> q[k]]
    OBVIOUS
  <2> HIDE DEF q
  <2> QED
    BY <2>1, <2>2, <2>3, <2>4 DEF Lists
<1>7. Lists(id, n, S)
  BY <1>1 DEF Lists
<1>8. S \in SUBSET Nat
  BY <1>1
<1>9. \A k \in 1 .. n : id[k] = k /\ q[k] = n + 1 - at[k]
  OBVIOUS
<1> HIDE DEF q, id, S
<1>10. q = id
  BY <1>1, <1>6, <1>7, <1>8, ListsOnce
<1>11. ASSUME NEW k \in 1 .. n PROVE Splices(a)[k] = a[n + 1 - k]
  <2>1. k = n + 1 - at[k]
    BY <1>9, <1>10
  <2>2. at[k] = n + 1 - k
    BY <1>1, <1>4, <2>1
  <2> QED
    BY <1>2, <2>2
<1> QED
  BY <1>11 DEF n

\* Where the text after the i-th applied piece starts to be untouched.
Low(b, a, i) == IF i = 0 THEN Len(b) ELSE a[i].start

LEMMA LocateIs ==
  ASSUME NEW t, IsText(t), NEW k \in 0 .. Len(Normalize(t)), NEW default
  PROVE  Locate(NormToRaw(t), k, default) = Cut(t, k)
BY MapIs DEF Locate

\* The parts: the untouched ones lie between two cuts of the raw text.
LEMMA PartsAre ==
  ASSUME NEW t, IsText(t), NEW a, Stacked(Normalize(t), a), Len(a) # 0,
         \A b \in Block : IsText(ask[b].new)
  PROVE  LET n == Len(a)
             b == Normalize(t)
             parts == Parts(t, a)
         IN  /\ IsText(parts) /\ Len(parts) = 2 * n + 1
             /\ \A i \in 1 .. Len(parts) : IsText(parts[i])
             /\ Normalize(parts[1]) = Slice(b, 0, Low(b, a, n))
             /\ \A k \in 1 .. n :
                  LET p == a[n + 1 - k] IN
                  /\ Normalize(parts[2 * k]) = Normalize(Trimmed(p, b))
                  /\ Normalize(parts[2 * k + 1]) = Slice(b, p.end, Low(b, a, n - k))
<1> DEFINE n == Len(a)
           b == Normalize(t)
           map == NormToRaw(t)
           s == Splices(a)
           parts == Parts(t, a)
           Cursor(k) == IF k = 0 THEN 0 ELSE To(s[k], map, t)
           Gap(k) == Slice(t, Cursor(k - 1), IF k > n THEN Len(t) ELSE From(s[k], map))
           New(k) == Conform(Trimmed(s[k], b), Context(s[k], t))
           m == 2 * n + 1
           Part(i) == IF i % 2 = 1 THEN Gap((i + 1) \div 2) ELSE New(i \div 2)
<1>1. parts = [i \in 1 .. m |-> Part(i)]
  BY DEF Parts
<1>2. /\ IsText(b) /\ n \in Nat \ {0} /\ m \in Nat
      /\ \A i \in 1 .. n : /\ a[i].start \in Nat /\ a[i].end \in Nat /\ a[i].block \in Block
                           /\ a[i].start <= a[i].end /\ a[i].end <= Len(b)
      /\ \A i, j \in 1 .. n : i < j => a[j].end <= a[i].start
  <2>1. IsText(b)
    BY NormalizeIs
  <2> HIDE DEF b
  <2>2. /\ n \in Nat /\ \A i \in 1 .. n :
             /\ a[i].start \in Nat /\ a[i].end \in Nat /\ a[i].block \in Block
             /\ a[i].start <= a[i].end /\ a[i].end <= Len(b)
    BY <2>1, StackedIs DEF b
  <2> QED
    BY <2>1, <2>2 DEF Stacked
<1>3. Len(b) \in Nat /\ Len(t) \in Nat
  BY <1>2 DEF IsText
<1>4. \A k \in 1 .. n : s[k] = a[n + 1 - k] /\ n + 1 - k \in 1 .. n
  BY <1>2, SplicesTurned
<1>5. \A j \in 0 .. Len(b) : Cut(t, j) \in Nat /\ \A d : Locate(map, j, d) = Cut(t, j)
  BY CutsAre, LocateIs
<1>6. Cut(t, Len(b)) = Len(t) /\ Cut(t, 0) = 0
  BY LastCut DEF Cut
<1> HIDE DEF n, b, map, s, m, parts
<1>7. ASSUME NEW k \in 1 .. n
      PROVE  /\ From(s[k], map) = Cut(t, a[n + 1 - k].start)
             /\ To(s[k], map, t) = Cut(t, a[n + 1 - k].end)
  <2> DEFINE p == a[n + 1 - k]
  <2>1. p.start \in 0 .. Len(b) /\ p.end \in 0 .. Len(b) /\ s[k] = p
    BY <1>2, <1>3, <1>4
  <2> HIDE DEF p
  <2> QED
    BY <1>5, <2>1 DEF From, To, p
\* The parts with an odd number are gaps, the others new texts.
<1>8. Gap(1) = Slice(t, Cut(t, 0), Cut(t, Low(b, a, n)))
  <2>1. 1 \in 1 .. n /\ ~(1 > n) /\ n + 1 - 1 = n /\ 1 - 1 = 0 /\ n # 0
    BY <1>2
  <2> QED
    BY <1>6, <1>7, <2>1 DEF Low
<1>9. ASSUME NEW k \in 1 .. n
      PROVE  Gap(k + 1) = Slice(t, Cut(t, a[n + 1 - k].end), Cut(t, Low(b, a, n - k)))
  <2>1. (k + 1) - 1 = k /\ k # 0 /\ Cursor(k) = Cut(t, a[n + 1 - k].end)
    BY <1>2, <1>7
  <2>2. CASE k = n
    <3>1. k + 1 > n /\ n - k = 0
      BY <1>2, <2>2
    <3> QED
      BY <1>6, <2>1, <3>1 DEF Low
  <2>3. CASE k # n
    <3>1. k + 1 \in 1 .. n /\ ~(k + 1 > n) /\ n + 1 - (k + 1) = n - k /\ n - k # 0
      BY <1>2, <2>3
    <3>2. From(s[k + 1], map) = Cut(t, a[n - k].start)
      BY <1>7, <3>1
    <3> QED
      BY <2>1, <3>1, <3>2 DEF Low
  <2> QED
    BY <2>2, <2>3
<1> HIDE DEF Gap
<1>10. parts[1] = Gap(1)
  <2>1. 1 \in 1 .. m /\ 1 % 2 = 1 /\ (1 + 1) \div 2 = 1
    BY <1>2 DEF m
  <2> QED
    BY <1>1, <2>1
<1>11. ASSUME NEW k \in 1 .. n
       PROVE  parts[2 * k] = New(k) /\ parts[2 * k + 1] = Gap(k + 1)
  <2>1. /\ 2 * k \in 1 .. m /\ 2 * k + 1 \in 1 .. m
        /\ (2 * k) % 2 = 0 /\ (2 * k + 1) % 2 = 1
        /\ (2 * k) \div 2 = k /\ ((2 * k + 1) + 1) \div 2 = k + 1
    BY <1>2 DEF m
  <2> HIDE DEF New
  <2> QED
    BY <1>1, <2>1
<1>12. IsText(parts) /\ Len(parts) = m
  <2>1. parts = [i \in 1 .. m |-> parts[i]]
    <3> HIDE DEF Part
    <3> QED
      BY <1>1
  <2> QED
    BY <1>2, <2>1, MakesText
<1>13. ASSUME NEW j \in 0 .. Len(b), NEW k \in 0 .. Len(b), j <= k
       PROVE  /\ IsText(Slice(t, Cut(t, j), Cut(t, k)))
              /\ Normalize(Slice(t, Cut(t, j), Cut(t, k))) = Slice(b, j, k)
  <2>1. Cut(t, j) \in Nat /\ Cut(t, k) \in Nat /\ j \in Nat /\ k \in Nat /\ k <= Len(Normalize(t))
    BY <1>3, <1>5 DEF b
  <2>2. Normalize(Slice(t, Cut(t, j), Cut(t, k))) = Slice(b, j, k)
    BY <1>13, <2>1, BetweenCuts DEF b
  <2>3. IsText(Slice(t, Cut(t, j), Cut(t, k)))
    <3> DEFINE c == Cut(t, j)
               d == Cut(t, k)
    <3>1. c \in Nat /\ d \in Nat
      BY <2>1
    <3> HIDE DEF c, d
    <3>2. IsText(Slice(t, c, d))
      BY <3>1, SliceIs
    <3> QED
      BY <3>2 DEF c, d
  <2> QED
    BY <2>2, <2>3
<1>14. IsText(parts[1]) /\ Normalize(parts[1]) = Slice(b, 0, Low(b, a, n))
  <2>1. 0 \in 0 .. Len(b) /\ Low(b, a, n) \in 0 .. Len(b) /\ 0 <= Low(b, a, n)
    BY <1>2, <1>3 DEF Low
  <2> QED
    BY <1>8, <1>10, <1>13, <2>1
<1>15. ASSUME NEW k \in 1 .. n
       PROVE  /\ IsText(parts[2 * k + 1])
              /\ Normalize(parts[2 * k + 1]) = Slice(b, a[n + 1 - k].end, Low(b, a, n - k))
  <2> DEFINE j == a[n + 1 - k].end
             l == Low(b, a, n - k)
  <2>1. j \in 0 .. Len(b) /\ l \in 0 .. Len(b) /\ j <= l
    <3>1. n + 1 - k \in 1 .. n
      BY <1>4
    <3>2. CASE n - k = 0
      BY <1>2, <1>3, <3>1, <3>2 DEF Low
    <3>3. CASE n - k # 0
      <4>1. n - k \in 1 .. n /\ n - k < n + 1 - k
        BY <1>2, <3>3
      <4>2. a[n + 1 - k].end <= a[n - k].start
        BY <1>2, <3>1, <4>1
      <4>3. a[n - k].start \in Nat /\ a[n - k].start <= Len(b)
        BY <1>2, <1>3, <4>1
      <4> QED
        BY <1>2, <1>3, <3>1, <3>3, <4>2, <4>3 DEF Low
    <3> QED
      BY <3>2, <3>3
  <2>2. parts[2 * k + 1] = Slice(t, Cut(t, j), Cut(t, l))
    BY <1>9, <1>11
  <2> HIDE DEF j, l
  <2>3. IsText(parts[2 * k + 1]) /\ Normalize(parts[2 * k + 1]) = Slice(b, j, l)
    BY <1>13, <2>1, <2>2
  <2> QED
    BY <2>3 DEF j, l
<1>16. ASSUME NEW k \in 1 .. n
       PROVE  /\ IsText(parts[2 * k])
              /\ Normalize(parts[2 * k]) = Normalize(Trimmed(a[n + 1 - k], b))
  <2>1. s[k] = a[n + 1 - k] /\ IsText(ask[s[k].block].new)
    BY <1>2, <1>4
  <2>2. IsText(Trimmed(s[k], b))
    BY <2>1, TrimmedText
  <2>3. parts[2 * k] = Conform(Trimmed(s[k], b), Context(s[k], t))
    BY <1>11
  <2> QED
    BY <2>1, <2>2, <2>3, ConformNormal
<1>17. ASSUME NEW i \in 1 .. m PROVE IsText(parts[i])
  <2>1. i = 1 \/ \E k \in 1 .. n : i = 2 * k \/ i = 2 * k + 1
    <3> DEFINE h == i \div 2
    <3>1. i = 2 * h \/ i = 2 * h + 1
      BY <1>2 DEF m
    <3>2. h \in 0 .. n
      BY <1>2 DEF m
    <3>3. h = 0 => i = 1
      BY <1>2, <3>1 DEF m
    <3> HIDE DEF h
    <3>4. h = 0 \/ h \in 1 .. n
      BY <1>2, <3>2
    <3> QED
      BY <3>1, <3>3, <3>4
  <2> QED
    BY <1>14, <1>15, <1>16, <2>1
<1> HIDE DEF Part, New
<1> QED
  BY <1>12, <1>14, <1>15, <1>16, <1>17 DEF n, b, parts, m

\* What follows the start of each applied piece in the text the pass leaves.
Tails(b, a, T) ==
  /\ T[0] = <<>>
  /\ \A i \in 1 .. Len(a) :
       T[i] = Replacement(a[i]) \o (Slice(b, a[i].end, Low(b, a, i - 1)) \o T[i - 1])

Leaves(b, a, c) == \E T : Tails(b, a, T) /\ c = Slice(b, 0, Low(b, a, Len(a))) \o T[Len(a)]

NewTexts == \A x \in Block : IsText(ask[x].new)

LEMMA LowIs ==
  ASSUME NEW b, IsText(b), NEW a, Stacked(b, a), NEW i \in 0 .. Len(a)
  PROVE  /\ Low(b, a, i) \in Nat /\ Low(b, a, i) <= Len(b)
         /\ i # Len(a) => a[i + 1].end <= Low(b, a, i)
<1> DEFINE n == Len(a)
<1>1. /\ n \in Nat /\ Len(b) \in Nat
      /\ \A j \in 1 .. n : /\ a[j].start \in Nat /\ a[j].end \in Nat
                           /\ a[j].start <= a[j].end /\ a[j].end <= Len(b)
  BY StackedIs DEF IsText
<1>2. \A j, k \in 1 .. n : j < k => a[k].end <= a[j].start
  BY DEF Stacked
<1> HIDE DEF n
<1>3. i \in 0 .. n
  BY DEF n
<1>4. CASE i = 0
  <2>1. i # n => i + 1 \in 1 .. n
    BY <1>1, <1>4
  <2> QED
    BY <1>1, <1>4, <2>1 DEF Low, n
<1>5. CASE i # 0
  <2>1. i \in 1 .. n /\ (i # n => i + 1 \in 1 .. n /\ i < i + 1)
    BY <1>1, <1>3, <1>5
  <2>2. a[i].start \in Nat /\ a[i].start <= Len(b)
    BY <1>1, <2>1
  <2> QED
    BY <1>2, <1>5, <2>1, <2>2 DEF Low, n
<1> QED
  BY <1>4, <1>5

LEMMA StayIs ==
  ASSUME NEW b, IsText(b), NEW a, Stacked(b, a), NEW i \in 1 .. Len(a)
  PROVE  IsText(Slice(b, a[i].end, Low(b, a, i - 1)))
<1> DEFINE c == a[i].end
           d == Low(b, a, i - 1)
<1>1. c \in Nat
  BY StackedIs
<1>2. d \in Nat
  <2>1. i - 1 \in 0 .. Len(a)
    BY StackedIs
  <2> HIDE DEF d
  <2> QED
    BY <2>1, LowIs DEF d
<1> HIDE DEF c, d
<1>3. IsText(Slice(b, c, d))
  BY <1>1, <1>2, SliceIs
<1> QED
  BY <1>3 DEF c, d

LEMMA ReplacementIs ==
  ASSUME NewTexts, NEW b, IsText(b), NEW a, Stacked(b, a), NEW i \in 1 .. Len(a)
  PROVE  IsText(Replacement(a[i]))
BY StackedIs, NormalizeIs DEF NewTexts, Replacement

LEMMA TailsAre ==
  ASSUME NewTexts, NEW b, IsText(b), NEW a, Stacked(b, a), NEW T, Tails(b, a, T)
  PROVE  \A i \in 0 .. Len(a) : IsText(T[i])
<1> DEFINE n == Len(a)
           Bad == {i \in 0 .. n : ~IsText(T[i])}
<1> SUFFICES ASSUME Bad # {} PROVE FALSE
  OBVIOUS
<1>1. PICK m \in Bad : \A x \in Bad : m <= x
  <2>1. Bad \in SUBSET Nat
    OBVIOUS
  <2> HIDE DEF Bad
  <2> QED
    BY <2>1, LeastExists
<1>2. m # 0
  BY <1>1, EmptyIs DEF Tails
<1>3. n \in Nat
  BY StackedIs
<1>4. m \in 1 .. n /\ m - 1 \in 0 .. n /\ IsText(T[m - 1])
  BY <1>1, <1>2, <1>3
<1>5. T[m] = Replacement(a[m]) \o (Slice(b, a[m].end, Low(b, a, m - 1)) \o T[m - 1])
  BY <1>4 DEF Tails
<1>6. IsText(Slice(b, a[m].end, Low(b, a, m - 1))) /\ IsText(Replacement(a[m]))
  BY <1>4, StayIs, ReplacementIs
<1>7. IsText(T[m])
  BY <1>4, <1>5, <1>6, ConcatIs
<1> QED
  BY <1>1, <1>7

\* The text that is left, and the bytes that are written: they normalize to it,
\* but for the trailing breaks that are dropped.
LEMMA WrittenAgrees ==
  ASSUME NewTexts, NEW t, IsText(t), NEW a, Stacked(Normalize(t), a), Len(a) # 0,
         Seamless(Parts(t, a)), NEW c, Leaves(Normalize(t), a, c)
  PROVE  LET bytes == FlattenSeq(Parts(t, a))
             drops == {i \in 1 .. Len(a) : Trims(a[i], Normalize(t))}
         IN  /\ Len(Normalize(bytes)) = Len(c) - Cardinality(drops)
             /\ drops = {} => Normalize(bytes) = c
<1> DEFINE b == Normalize(t)
           n == Len(a)
           parts == Parts(t, a)
           drops == {i \in 1 .. n : Trims(a[i], b)}
           Late(k) == {i \in drops : i > n - k}
           Stay(k) == Slice(b, a[n + 1 - k].end, Low(b, a, n - k))
           New(k) == Normalize(Trimmed(a[n + 1 - k], b))
<1>1. PICK T : Tails(b, a, T) /\ c = Slice(b, 0, Low(b, a, n)) \o T[n]
  BY DEF Leaves
<1>2. IsText(b) /\ n \in Nat \ {0} /\ Stacked(b, a)
  <2>1. IsText(b)
    BY NormalizeIs
  <2> HIDE DEF b
  <2> QED
    BY <2>1, StackedIs DEF b
<1>3. \A i \in 0 .. n : IsText(T[i])
  <2> HIDE DEF b
  <2> QED
    BY <1>1, <1>2, TailsAre
<1>4. /\ IsText(parts) /\ Len(parts) = 2 * n + 1
      /\ \A i \in 1 .. Len(parts) : IsText(parts[i])
      /\ Normalize(parts[1]) = Slice(b, 0, Low(b, a, n))
      /\ \A k \in 1 .. n : Normalize(parts[2 * k]) = New(k) /\ Normalize(parts[2 * k + 1]) = Stay(k)
  BY PartsAre DEF NewTexts
<1>5. IsFiniteSet(drops) /\ \A k : IsFiniteSet(Late(k)) /\ Cardinality(Late(k)) \in Nat
  <2>1. IsFiniteSet(1 .. n) /\ drops \subseteq 1 .. n /\ \A k : Late(k) \subseteq 1 .. n
    BY <1>2, FS_Interval
  <2> HIDE DEF Late, drops
  <2> QED
    BY <2>1, FS_Subset, FS_CardinalityType
<1>6. ASSUME NEW k \in 1 .. n
      PROVE  LET p == a[n + 1 - k] IN
             /\ IsText(Stay(k)) /\ IsText(New(k)) /\ IsText(Replacement(p))
             /\ T[n + 1 - k] = Replacement(p) \o (Stay(k) \o T[n - k])
             /\ Replacement(p) = IF n + 1 - k \in drops THEN New(k) \o <<LF>> ELSE New(k)
  <2> DEFINE i == n + 1 - k
             p == a[i]
  <2>1. i \in 1 .. n /\ i - 1 = n - k
    BY <1>2
  <2> HIDE DEF i
  <2>2. IsText(ask[p.block].new) /\ Replacement(p) = Normalize(ask[p.block].new)
    BY <1>2, <2>1, StackedIs DEF NewTexts, Replacement
  <2>3. IsText(Trimmed(p, b)) /\ IsText(Replacement(p)) /\ IsText(Normalize(Trimmed(p, b)))
    BY <2>2, TrimmedText, NormalizeIs
  <2>4. IsText(Slice(b, p.end, Low(b, a, i - 1)))
    <3> HIDE DEF b
    <3> QED
      BY <1>2, <2>1, StayIs
  <2>5. T[i] = Replacement(p) \o (Slice(b, p.end, Low(b, a, i - 1)) \o T[i - 1])
    BY <1>1, <2>1 DEF Tails
  <2>6. CASE Trims(p, b)
    <3>1. Replacement(p) = Normalize(Trimmed(p, b)) \o <<LF>>
      BY <2>2, <2>6, TrimmedNormal
    <3>2. i \in drops
      BY <2>1, <2>6
    <3> QED
      BY <2>1, <2>3, <2>4, <2>5, <3>1, <3>2 DEF i
  <2>7. CASE ~Trims(p, b)
    <3>1. Replacement(p) = Normalize(Trimmed(p, b))
      BY <2>2, <2>7 DEF Trimmed
    <3>2. i \notin drops
      BY <2>7
    <3> HIDE DEF drops
    <3> QED
      BY <2>1, <2>3, <2>4, <2>5, <3>1, <3>2 DEF i
  <2> QED
    BY <2>6, <2>7
<1>7. PICK f : /\ f[1] = parts[1]
               /\ \A i \in 2 .. 2 * n + 1 : f[i] = f[i - 1] \o parts[i]
               /\ FlattenSeq(parts) = f[2 * n + 1]
  <2> DEFINE m == 2 * n + 1
  <2>1. m \in Nat \ {0} /\ Len(parts) = m
    BY <1>2, <1>4
  <2> HIDE DEF m, parts
  <2>2. \E f : /\ f[1] = parts[1]
               /\ \A i \in 2 .. m : f[i] = f[i - 1] \o parts[i]
               /\ FlattenSeq(parts) = f[m]
    BY <2>1, FlattenIs
  <2> QED
    BY <2>2 DEF m
<1>8. /\ \A i \in 1 .. 2 * n + 1 : IsText(f[i])
      /\ \A i \in 2 .. 2 * n + 1 : ~Meets(f[i - 1], parts[i])
  <2> HIDE DEF parts
  <2>1. \A i \in 2 .. Len(parts) : f[i] = f[i - 1] \o parts[i]
    BY <1>4, <1>7
  <2>2. Seamless(parts)
    BY DEF parts
  <2>3. /\ \A i \in 1 .. Len(parts) : IsText(f[i])
        /\ \A i \in 2 .. Len(parts) : ~Meets(f[i - 1], parts[i])
    BY <1>4, <1>7, <2>1, <2>2, NoSeam
  <2> QED
    BY <1>4, <2>3
<1> HIDE DEF b, n, parts, drops, Late, Stay, New
\* After the first k new texts, from the start of the text.
<1> DEFINE Good(k) ==
             \E u : /\ IsText(u) /\ c = u \o T[n - k]
                    /\ Len(Normalize(f[2 * k + 1])) = Len(u) - Cardinality(Late(k))
                    /\ Late(k) = {} => Normalize(f[2 * k + 1]) = u
           Bad == {k \in 0 .. n : ~Good(k)}
<1>9. Good(0)
  <2> DEFINE u == Slice(b, 0, Low(b, a, n))
  <2>1. Late(0) = {} /\ Cardinality(Late(0)) = 0
    <3>1. \A i \in 1 .. n : ~(i > n - 0)
      BY <1>2
    <3>2. Late(0) = {}
      BY <3>1 DEF Late, drops
    <3> QED
      BY <3>2, FS_EmptySet
  <2>2. 2 * 0 + 1 = 1 /\ n - 0 = n /\ 1 \in 1 .. 2 * n + 1
    BY <1>2
  <2>3. Normalize(f[1]) = u /\ c = u \o T[n]
    BY <1>1, <1>4, <1>7
  <2>4. IsText(u) /\ Len(u) \in Nat
    <3>1. IsText(f[1])
      BY <1>8, <2>2
    <3> HIDE DEF u
    <3>2. IsText(u)
      BY <2>3, <3>1, NormalizeIs
    <3> QED
      BY <3>2 DEF IsText
  <2> HIDE DEF u
  <2>5. Len(u) - 0 = Len(u)
    BY <2>4
  <2> QED
    BY <2>1, <2>2, <2>3, <2>4, <2>5
<1>10. ASSUME NEW j \in Nat, j < n, Good(j) PROVE Good(j + 1)
  <2> DEFINE k == j + 1
             i == n - j
             p == a[i]
             g == f[2 * j + 1]
             x == parts[2 * k]
             y == parts[2 * k + 1]
             stay == Stay(k)
             new == New(k)
             rep == Replacement(p)
  <2>1. /\ k \in 1 .. n /\ i \in 1 .. n /\ n + 1 - k = i /\ n - k = i - 1
        /\ 2 * k \in 2 .. 2 * n + 1 /\ 2 * k + 1 \in 2 .. 2 * n + 1
        /\ 2 * k - 1 = 2 * j + 1 /\ (2 * k + 1) - 1 = 2 * k
        /\ 2 * j + 1 \in 1 .. 2 * n + 1 /\ 2 * k \in 1 .. 2 * n + 1 /\ 2 * k + 1 \in 1 .. 2 * n + 1
    BY <1>2, <1>10
  <2>2. PICK u : /\ IsText(u) /\ c = u \o T[i]
                 /\ Len(Normalize(g)) = Len(u) - Cardinality(Late(j))
                 /\ Late(j) = {} => Normalize(g) = u
    BY <1>10
  <2>3. /\ IsText(stay) /\ IsText(new) /\ IsText(rep) /\ IsText(T[i - 1])
        /\ T[i] = rep \o (stay \o T[i - 1])
        /\ rep = IF i \in drops THEN new \o <<LF>> ELSE new
    <3>1. i - 1 \in 0 .. n
      BY <1>2, <2>1
    <3>2. LET q == a[n + 1 - k] IN
             /\ IsText(Stay(k)) /\ IsText(New(k)) /\ IsText(Replacement(q))
             /\ T[n + 1 - k] = Replacement(q) \o (Stay(k) \o T[n - k])
             /\ Replacement(q) = IF n + 1 - k \in drops THEN New(k) \o <<LF>> ELSE New(k)
      <4> HIDE DEF k
      <4> QED
        BY <1>6, <2>1
    <3> HIDE DEF k, i
    <3> QED
      BY <1>3, <2>1, <3>1, <3>2
  <2>4. /\ IsText(g) /\ IsText(x) /\ IsText(y) /\ IsText(f[2 * k])
        /\ Normalize(x) = new /\ Normalize(y) = stay
        /\ f[2 * k] = g \o x /\ f[2 * k + 1] = f[2 * k] \o y
        /\ ~Meets(g, x) /\ ~Meets(f[2 * k], y)
    <3>1. f[2 * k] = f[2 * k - 1] \o x /\ f[2 * k + 1] = f[(2 * k + 1) - 1] \o y
      <4> HIDE DEF k
      <4> QED
        BY <1>7, <2>1
    <3>2. ~Meets(f[2 * k - 1], x) /\ ~Meets(f[(2 * k + 1) - 1], y)
      <4> HIDE DEF k
      <4> QED
        BY <1>8, <2>1
    <3>3. IsText(g) /\ IsText(f[2 * k]) /\ IsText(x) /\ IsText(y)
      <4> HIDE DEF k
      <4> QED
        BY <1>4, <1>8, <2>1
    <3>4. Normalize(x) = new /\ Normalize(y) = stay
      <4> HIDE DEF k
      <4> QED
        BY <1>4, <2>1
    <3>5. f[2 * k - 1] = g /\ f[(2 * k + 1) - 1] = f[2 * k]
      <4>1. 2 * k - 1 = 2 * j + 1 /\ (2 * k + 1) - 1 = 2 * k
        BY <2>1
      <4> QED
        BY <4>1, Zenon
    <3> HIDE DEF k, g, x, y, new, stay
    <3> QED
      BY <3>1, <3>2, <3>3, <3>4, <3>5
  <2>5. Normalize(f[2 * k + 1]) = (Normalize(g) \o new) \o stay
    <3> HIDE DEF k, g, x, y, new, stay
    <3>1. Normalize(f[2 * k]) = Normalize(g) \o new
      BY <2>4, NormalizeConcat
    <3> QED
      BY <2>4, <3>1, NormalizeConcat
  <2> DEFINE v == (u \o rep) \o stay
             h == Normalize(g)
  <2>6. IsText(h)
    BY <2>4, NormalizeIs
  <2>7. IsText(v) /\ c = v \o T[i - 1] /\ Len(v) = Len(u) + Len(rep) + Len(stay)
    <3> DEFINE w == u \o rep
               z == T[i - 1]
    <3> HIDE DEF rep, stay, i, z
    <3>1. IsText(w) /\ Len(w) = Len(u) + Len(rep)
      BY <2>2, <2>3, ConcatIs
    <3>2. c = u \o (rep \o (stay \o z)) /\ IsText(z)
      BY <2>2, <2>3 DEF z
    <3>3. IsText(stay \o z)
      BY <2>3, <3>2, ConcatIs
    <3>4. c = w \o (stay \o z)
      <4> DEFINE r == stay \o z
      <4>1. IsText(u) /\ IsText(rep) /\ IsText(r) /\ c = u \o (rep \o r)
        BY <2>2, <2>3, <3>2, <3>3
      <4> HIDE DEF r
      <4>2. (u \o rep) \o r = u \o (rep \o r)
        BY <4>1, ConcatAssoc
      <4> QED
        BY <4>1, <4>2 DEF r
    <3> HIDE DEF w
    <3>5. c = (w \o stay) \o z
      <4>1. IsText(w) /\ IsText(stay) /\ IsText(z)
        BY <2>3, <3>1, <3>2
      <4>2. (w \o stay) \o z = w \o (stay \o z)
        BY <4>1, ConcatAssoc
      <4> QED
        BY <3>4, <4>2
    <3>6. IsText(w \o stay) /\ Len(w \o stay) = Len(w) + Len(stay)
      BY <2>3, <3>1, ConcatIs
    <3> QED
      BY <3>1, <3>5, <3>6 DEF w, z
  <2>8. Len((h \o new) \o stay) = Len(h) + Len(new) + Len(stay)
    <3> HIDE DEF h, new, stay
    <3>1. IsText(h \o new) /\ Len(h \o new) = Len(h) + Len(new)
      BY <2>3, <2>6, ConcatIs
    <3> QED
      BY <2>3, <3>1, ConcatIs
  <2>9. Len(u) \in Nat /\ Len(h) \in Nat /\ Len(new) \in Nat /\ Len(stay) \in Nat
    BY <2>2, <2>3, <2>6 DEF IsText
  <2>10. Cardinality(Late(j)) \in Nat /\ IsFiniteSet(Late(j))
    BY <1>5
  <2>11. \A m \in drops : m \in Nat /\ (m > n - k <=> m > n - j \/ m = i)
    BY <1>2, <1>10, <2>1 DEF drops
  <2>12. CASE i \in drops
    <3>1. Late(k) = Late(j) \cup {i} /\ i \notin Late(j)
      <4>1. ~(i > n - j)
        BY <1>2, <2>1
      <4> HIDE DEF k, i
      <4> QED
        BY <2>11, <2>12, <4>1 DEF Late
    <3>2. Cardinality(Late(k)) = Cardinality(Late(j)) + 1 /\ Late(k) # {}
      BY <2>10, <3>1, FS_AddElement
    <3>3. Len(rep) = Len(new) + 1
      <4>1. rep = new \o <<LF>> /\ IsText(<<LF>>) /\ Len(<<LF>>) = 1
        BY <2>3, <2>12, OneIs
      <4> HIDE DEF rep, new
      <4> QED
        BY <2>3, <4>1, ConcatIs
    <3>4. Len(Normalize(f[2 * k + 1])) = Len(v) - Cardinality(Late(k))
      <4>1. Len(h) = Len(u) - Cardinality(Late(j))
        BY <2>2
      <4> HIDE DEF h, v, k, new, stay, rep, g
      <4> QED
        BY <2>5, <2>7, <2>8, <2>9, <2>10, <3>2, <3>3, <4>1 DEF h
    <3> HIDE DEF v
    <3> QED
      BY <2>1, <2>7, <3>2, <3>4
  <2>13. CASE i \notin drops
    <3>1. Late(k) = Late(j)
      <4> HIDE DEF k, i
      <4> QED
        BY <2>11, <2>13 DEF Late
    <3>2. rep = new
      BY <2>3, <2>13
    <3>3. Len(Normalize(f[2 * k + 1])) = Len(v) - Cardinality(Late(k))
      <4>1. Len(h) = Len(u) - Cardinality(Late(j))
        BY <2>2
      <4> HIDE DEF h, v, k, new, stay, rep, g
      <4> QED
        BY <2>5, <2>7, <2>8, <2>9, <2>10, <3>1, <3>2, <4>1 DEF h
    <3>4. Late(k) = {} => Normalize(f[2 * k + 1]) = v
      <4>1. Late(k) = {} => h = u
        BY <2>2, <3>1
      <4> HIDE DEF h, k, new, stay, rep, g
      <4> QED
        BY <2>5, <3>2, <4>1 DEF h
    <3> HIDE DEF v
    <3> QED
      BY <2>1, <2>7, <3>3, <3>4
  <2> QED
    BY <2>12, <2>13
<1>11. Bad = {}
  <2> SUFFICES ASSUME Bad # {} PROVE FALSE
    OBVIOUS
  <2>1. PICK m \in Bad : \A z \in Bad : m <= z
    <3>1. Bad \in SUBSET Nat
      OBVIOUS
    <3> HIDE DEF Bad
    <3> QED
      BY <3>1, LeastExists
  <2>2. m \in 0 .. n /\ ~Good(m) /\ \A z \in 0 .. n : z < m => Good(z)
    <3> HIDE DEF Good
    <3>1. m \in 0 .. n /\ ~Good(m) /\ m \in Nat
      OBVIOUS
    <3>2. ASSUME NEW z \in 0 .. n, z < m PROVE Good(z)
      <4>1. ~(m <= z)
        BY <3>1, <3>2
      <4> QED
        BY <2>1, <4>1
    <3> QED
      BY <3>1, <3>2
  <2> HIDE DEF Bad, Good
  <2>3. m # 0
    BY <1>9, <2>2
  <2>4. m - 1 \in Nat /\ m - 1 \in 0 .. n /\ m - 1 < m /\ m - 1 < n /\ (m - 1) + 1 = m
    BY <1>2, <2>2, <2>3
  <2>5. Good(m - 1)
    BY <2>2, <2>4
  <2>6. Good((m - 1) + 1)
    BY <1>10, <2>4, <2>5
  <2> QED
    BY <2>2, <2>4, <2>6
<1>12. Good(n)
  <2>1. n \in 0 .. n
    BY <1>2
  <2> HIDE DEF Good
  <2> QED
    BY <1>11, <2>1
<1>13. Late(n) = drops
  <2>1. \A i \in drops : i > n - n
    BY <1>2 DEF drops
  <2> QED
    BY <2>1 DEF Late
<1>14. PICK u : /\ IsText(u) /\ c = u \o T[n - n]
                /\ Len(Normalize(f[2 * n + 1])) = Len(u) - Cardinality(Late(n))
                /\ Late(n) = {} => Normalize(f[2 * n + 1]) = u
  BY <1>12
<1>15. c = u
  <2>1. n - n = 0 /\ T[0] = <<>>
    BY <1>1, <1>2 DEF Tails
  <2> QED
    BY <1>14, <2>1, ConcatEmpty
<1>16. /\ Len(Normalize(FlattenSeq(parts))) = Len(c) - Cardinality(drops)
       /\ drops = {} => Normalize(FlattenSeq(parts)) = c
  BY <1>7, <1>13, <1>14, <1>15
<1> QED
  BY <1>16 DEF b, n, parts, drops

\* Pieces in whatever order, which may share text.
Strewn(a) == IsText(a) /\ \A i \in 1 .. Len(a) : a[i] \in Piece

Gapped(t, s) == \E j, k \in 0 .. Len(Normalize(t)) : s = Slice(t, Cut(t, j), Cut(t, k))

Brought(t, a, s) ==
  \E m \in 1 .. Len(a) : s = Conform(Trimmed(a[m], Normalize(t)), Context(a[m], t))

LEMMA EndsAtCut ==
  ASSUME NEW t, IsText(t), NEW p
  PROVE  LET map == NormToRaw(t)
             n == Len(Normalize(t))
         IN  /\ \E j \in 0 .. n : From(p, map) = Cut(t, j)
             /\ \E j \in 0 .. n : To(p, map, t) = Cut(t, j)
<1> DEFINE n == Len(Normalize(t))
           map == NormToRaw(t)
<1>1. n \in Nat /\ 0 \in 0 .. n /\ n \in 0 .. n
  BY AtLists
<1>2. map = [k \in 0 .. n |-> Cut(t, k)]
  BY MapIs
<1>3. Cut(t, 0) = 0 /\ Cut(t, n) = Len(t)
  BY LastCut DEF Cut
<1> HIDE DEF n, map
<1>4. \A k : Locate(map, k, 0) = IF k \in 0 .. n THEN Cut(t, k) ELSE Cut(t, 0)
  BY <1>2, <1>3 DEF Locate
<1>5. \A k : Locate(map, k, Len(t)) = IF k \in 0 .. n THEN Cut(t, k) ELSE Cut(t, n)
  BY <1>2, <1>3 DEF Locate
<1>6. (\E j \in 0 .. n : From(p, map) = Cut(t, j)) /\ (\E j \in 0 .. n : To(p, map, t) = Cut(t, j))
  BY <1>1, <1>4, <1>5 DEF From, To
<1> QED
  BY <1>6 DEF n, map

\* Every part is a piece of the text between two cuts, or a new text.
LEMMA PartsComeFrom ==
  ASSUME NewTexts, NEW t, IsText(t), NEW a, Strewn(a)
  PROVE  LET parts == Parts(t, a) IN
         /\ IsText(parts) /\ Len(parts) = 2 * Len(a) + 1
         /\ \A i \in 1 .. Len(parts) :
              IsText(parts[i]) /\ (Gapped(t, parts[i]) \/ Brought(t, a, parts[i]))
<1> DEFINE n == Len(a)
           b == Normalize(t)
           map == NormToRaw(t)
           s == Splices(a)
           parts == Parts(t, a)
           Cursor(k) == IF k = 0 THEN 0 ELSE To(s[k], map, t)
           Gap(k) == Slice(t, Cursor(k - 1), IF k > n THEN Len(t) ELSE From(s[k], map))
           New(k) == Conform(Trimmed(s[k], b), Context(s[k], t))
           m == 2 * n + 1
           Part(i) == IF i % 2 = 1 THEN Gap((i + 1) \div 2) ELSE New(i \div 2)
<1>1. parts = [i \in 1 .. m |-> Part(i)]
  BY DEF Parts
<1>2. n \in Nat /\ m \in Nat /\ \A i \in 1 .. n : a[i].start \in Nat /\ a[i].block \in Block
  BY DEF Strewn, IsText, Piece
<1>3. ASSUME NEW k \in 1 .. n PROVE \E i \in 1 .. n : s[k] = a[i]
  <2>1. PICK at \in [1 .. n -> 1 .. n] : s = [j \in 1 .. n |-> a[at[j]]]
    BY <1>2, SplicesAre DEF Strewn
  <2>2. at[k] \in 1 .. n /\ s[k] = a[at[k]]
    <3> HIDE DEF s, n
    <3> QED
      BY <2>1
  <2> QED
    BY <2>2
<1>4. Len(b) \in Nat /\ Cut(t, 0) = 0 /\ Cut(t, Len(b)) = Len(t)
  BY AtLists, LastCut DEF Cut
<1> DEFINE Cuts == {Cut(t, j) : j \in 0 .. Len(b)}
<1>5. \A p : From(p, map) \in Cuts /\ To(p, map, t) \in Cuts
  <2>1. ASSUME NEW p PROVE From(p, map) \in Cuts /\ To(p, map, t) \in Cuts
    BY EndsAtCut
  <2> QED
    BY <2>1
<1>6. 0 \in Cuts /\ Len(t) \in Cuts
  <2>1. 0 \in 0 .. Len(b) /\ Len(b) \in 0 .. Len(b)
    BY <1>4
  <2> HIDE DEF b
  <2> QED
    BY <1>4, <2>1
<1>7. \A c \in Cuts : c \in Nat
  BY CutsAre
<1>8. ASSUME NEW k \in 1 .. n + 1 PROVE Gapped(t, Gap(k)) /\ IsText(Gap(k))
  <2> DEFINE c == Cursor(k - 1)
             d == IF k > n THEN Len(t) ELSE From(s[k], map)
  <2>1. c \in Cuts /\ d \in Cuts
    <3> HIDE DEF Cuts, s, map
    <3> QED
      BY <1>5, <1>6
  <2>2. Gap(k) = Slice(t, c, d)
    OBVIOUS
  <2> HIDE DEF c, d, Gap
  <2>3. \E i, j \in 0 .. Len(b) : c = Cut(t, i) /\ d = Cut(t, j)
    BY <2>1
  <2>4. IsText(Slice(t, c, d))
    BY <1>7, <2>1, SliceIs
  <2> QED
    BY <2>2, <2>3, <2>4 DEF Gapped
<1>9. ASSUME NEW k \in 1 .. n PROVE Brought(t, a, New(k)) /\ IsText(New(k))
  <2>1. PICK i \in 1 .. n : s[k] = a[i]
    BY <1>3
  <2>2. IsText(ask[a[i].block].new)
    BY <1>2 DEF NewTexts
  <2>3. IsText(Trimmed(a[i], b))
    BY <2>2, TrimmedText
  <2>4. New(k) = Conform(Trimmed(a[i], b), Context(a[i], t))
    BY <2>1
  <2>5. IsText(New(k))
    BY <2>3, <2>4, ConformText
  <2>6. Brought(t, a, New(k))
    BY <2>4 DEF Brought
  <2> QED
    BY <2>5, <2>6
<1> HIDE DEF n, b, map, s, parts, Gap, New
<1>10. IsText(parts) /\ Len(parts) = m
  <2>1. parts = [i \in 1 .. m |-> parts[i]]
    <3> HIDE DEF Part, m
    <3> QED
      BY <1>1
  <2> HIDE DEF m
  <2> QED
    BY <1>2, <2>1, MakesText
<1>11. ASSUME NEW i \in 1 .. m
       PROVE  IsText(parts[i]) /\ (Gapped(t, parts[i]) \/ Brought(t, a, parts[i]))
  <2> DEFINE h == i \div 2
             g == (i + 1) \div 2
  <2>1. CASE i % 2 = 1
    <3>1. g \in 1 .. n + 1 /\ parts[i] = Gap(g)
      BY <1>1, <1>2, <2>1
    <3> HIDE DEF g
    <3> QED
      BY <1>8, <3>1
  <2>2. CASE i % 2 # 1
    <3>1. h \in 1 .. n /\ parts[i] = New(h)
      BY <1>1, <1>2, <2>2
    <3> HIDE DEF h
    <3> QED
      BY <1>9, <3>1
  <2> QED
    BY <2>1, <2>2
<1> QED
  BY <1>10, <1>11 DEF n, m, parts

LEMMA SplicedText ==
  ASSUME NewTexts, NEW t, IsText(t), NEW a, Strewn(a)
  PROVE  IsText(SpliceOntoRaw(t, a))
<1> DEFINE parts == Parts(t, a)
<1>1. IsText(parts) /\ \A i \in 1 .. Len(parts) : IsText(parts[i])
  BY PartsComeFrom
<1> HIDE DEF parts
<1>2. IsText(FlattenSeq(parts))
  BY <1>1, FlattenText
<1> QED
  BY <1>2 DEF SpliceOntoRaw, parts

LEMMA WholeSlice ==
  ASSUME NEW t, IsText(t)
  PROVE  Slice(t, 0, Len(t)) = t
<1> DEFINE c == Len(t)
           x == Slice(t, 0, c)
<1>1. c \in 0 .. Len(t)
  BY DEF IsText
<1> HIDE DEF c
<1>2. IsText(x) /\ Len(x) = c /\ \A i \in 1 .. c : x[i] = t[i]
  BY <1>1, HeadIs
<1> HIDE DEF x
<1>3. x = t
  BY <1>2, SameText DEF c
<1> QED
  BY <1>3 DEF x, c

LEMMA NothingApplied ==
  ASSUME NEW b, IsText(b)
  PROVE  Leaves(b, <<>>, b) /\ \A c : Leaves(b, <<>>, c) => c = b
<1>1. Len(<<>>) = 0 /\ Low(b, <<>>, 0) = Len(b) /\ Slice(b, 0, Len(b)) \o <<>> = b
  BY WholeSlice, ConcatEmpty DEF Low
<1> DEFINE U == [i \in 0 .. 0 |-> <<>>]
<1>2. Tails(b, <<>>, U) /\ U[0] = <<>>
  BY <1>1 DEF Tails
<1> HIDE DEF U
<1>3. b = Slice(b, 0, Low(b, <<>>, Len(<<>>))) \o U[Len(<<>>)]
  BY <1>1, <1>2
<1>4. Leaves(b, <<>>, b)
  BY <1>2, <1>3 DEF Leaves
<1>5. ASSUME NEW c, Leaves(b, <<>>, c) PROVE c = b
  <2>1. PICK T : Tails(b, <<>>, T) /\ c = Slice(b, 0, Low(b, <<>>, Len(<<>>))) \o T[Len(<<>>)]
    BY <1>5 DEF Leaves
  <2>2. T[0] = <<>>
    BY <2>1 DEF Tails
  <2> QED
    BY <1>1, <2>1, <2>2
<1> QED
  BY <1>4, <1>5

LEMMA AppendIs ==
  ASSUME NEW a, IsText(a), NEW p
  PROVE  LET n == Len(a)
             d == Append(a, p)
         IN  /\ n \in Nat /\ IsText(d) /\ Len(d) = n + 1 /\ d[n + 1] = p
             /\ \A i \in 1 .. n : d[i] = a[i]
<1> DEFINE S == {a[i] : i \in 1 .. Len(a)} \cup {p}
<1>1. \A i \in 1 .. Len(a) : a[i] \in S
  OBVIOUS
<1>2. p \in S
  OBVIOUS
<1> HIDE DEF S
<1>3. a \in Seq(S) /\ Len(a) \in Nat
  BY <1>1, TextIsSeq
<1>4. /\ Append(a, p) \in Seq(S) /\ Len(Append(a, p)) = Len(a) + 1
      /\ \A i \in 1 .. Len(a) : Append(a, p)[i] = a[i]
      /\ Append(a, p)[Len(a) + 1] = p
  BY <1>2, <1>3
<1> QED
  BY <1>3, <1>4, SeqIsText

\* Applying one more piece.
LEMMA LeavesOneMore ==
  ASSUME NewTexts, NEW b, IsText(b), NEW a, NEW p, Stacked(b, a), Stacked(b, Append(a, p)),
         NEW c, Leaves(b, a, c)
  PROVE  Leaves(b, Append(a, p),
                Slice(c, 0, p.start) \o Replacement(p) \o Slice(c, p.end, Len(c)))
<1> DEFINE n == Len(a)
           d == Append(a, p)
           low == Low(b, a, n)
           rep == Replacement(p)
<1>1. /\ n \in Nat /\ IsText(d) /\ Len(d) = n + 1 /\ d[n + 1] = p
      /\ \A i \in 1 .. n : d[i] = a[i]
  BY AppendIs DEF Stacked
<1>2. n + 1 \in 1 .. Len(d) /\ \A i \in 1 .. n : i \in 1 .. Len(d) /\ i < n + 1
  BY <1>1
<1>3. PICK T : Tails(b, a, T) /\ c = Slice(b, 0, low) \o T[n]
  BY DEF Leaves
<1>4. IsText(T[n])
  <2>1. n \in 0 .. Len(a)
    BY <1>1
  <2> QED
    BY <1>3, <2>1, TailsAre
<1>5. low \in Nat /\ low <= Len(b) /\ Len(b) \in Nat
  <2>1. n \in 0 .. Len(a)
    BY <1>1
  <2> QED
    BY <2>1, LowIs DEF IsText
<1>6. /\ p.start \in Nat /\ p.end \in Nat /\ p.start <= p.end /\ p.end <= Len(b) /\ IsText(rep)
      /\ p.end <= low
  <2>1. p.start \in Nat /\ p.end \in Nat /\ p.start <= p.end /\ p.end <= Len(b)
    BY <1>1, <1>2, StackedIs
  <2>2. IsText(rep)
    BY <1>1, <1>2, ReplacementIs
  <2>3. n # 0 => n \in 1 .. n /\ d[n].start = a[n].start /\ p.end <= d[n].start
    BY <1>1, <1>2 DEF Stacked
  <2> QED
    BY <2>1, <2>2, <2>3 DEF Low
<1> DEFINE x == Slice(b, 0, p.start)
           stay == Slice(b, p.end, low)
           U == [i \in 0 .. n + 1 |-> IF i <= n THEN T[i] ELSE rep \o (stay \o T[n])]
<1>7. \A i \in 0 .. n : Low(b, d, i) = Low(b, a, i)
  <2>1. \A i \in 0 .. n : i # 0 => i \in 1 .. n
    BY <1>1
  <2> HIDE DEF d
  <2> QED
    BY <1>1, <2>1 DEF Low
<1> HIDE DEF n, d, low, rep
<1>8. Tails(b, d, U)
  <2> HIDE DEF stay
  <2>1. U[0] = T[0] /\ T[0] = <<>>
    BY <1>1, <1>3 DEF Tails
  <2>2. ASSUME NEW i \in 1 .. n
        PROVE  U[i] = Replacement(d[i]) \o (Slice(b, d[i].end, Low(b, d, i - 1)) \o U[i - 1])
    <3>1. U[i] = T[i] /\ U[i - 1] = T[i - 1] /\ i - 1 \in 0 .. n /\ d[i] = a[i]
      BY <1>1
    <3>2. T[i] = Replacement(a[i]) \o (Slice(b, a[i].end, Low(b, a, i - 1)) \o T[i - 1])
      BY <1>3 DEF Tails, n
    <3>3. Low(b, d, i - 1) = Low(b, a, i - 1)
      BY <1>7, <3>1
    <3> HIDE DEF U
    <3> QED
      BY <3>1, <3>2, <3>3
  <2>3. /\ U[n + 1] = rep \o (stay \o T[n]) /\ U[(n + 1) - 1] = T[n]
        /\ (n + 1) - 1 = n /\ n \in 0 .. n
    BY <1>1
  <2>4. Low(b, d, (n + 1) - 1) = low
    BY <1>7, <2>3 DEF low, n
  <2>5. U[n + 1] = Replacement(d[n + 1])
                   \o (Slice(b, d[n + 1].end, Low(b, d, (n + 1) - 1)) \o U[(n + 1) - 1])
    <3> HIDE DEF U
    <3> QED
      BY <1>1, <2>3, <2>4 DEF rep, stay
  <2>6. \A i \in 1 .. Len(d) : i \in 1 .. n \/ i = n + 1
    BY <1>1
  <2> HIDE DEF U
  <2> QED
    BY <2>1, <2>2, <2>5, <2>6 DEF Tails
\* The text as it was, cut at both ends of the piece.
<1> DEFINE y == Slice(b, p.start, low)
           zero == 0
<1>9. /\ Slice(c, 0, p.start) = x
      /\ Slice(c, p.end, Len(c)) = stay \o T[n]
  <2> DEFINE v == Slice(b, 0, p.end)
             l == Slice(b, 0, low)
             s == p.start
             e == p.end
  <2>0. s \in Nat /\ e \in Nat /\ s <= e /\ e <= low /\ s <= low /\ s <= Len(b) /\ zero \in Nat
        /\ zero <= e /\ e \in 0 .. Len(b) /\ low \in 0 .. Len(b)
    BY <1>5, <1>6
  <2> HIDE DEF s, e
  <2>1. IsText(l) /\ Len(l) = low /\ \A i \in 1 .. low : l[i] = b[i]
    <3> HIDE DEF l
    <3> QED
      BY <2>0, HeadIs DEF l
  <2>2. IsText(v) /\ Len(v) = e
    <3>1. v = Slice(b, 0, e)
      BY DEF e
    <3> HIDE DEF v
    <3> QED
      BY <2>0, <3>1, HeadIs
  <2>3. IsText(stay)
    <3>1. stay = Slice(b, e, low)
      BY DEF e
    <3> HIDE DEF stay
    <3> QED
      BY <1>5, <2>0, <3>1, SliceIn
  <2>4. v \o stay = l
    <3>1. Slice(b, zero, e) \o Slice(b, e, low) = Slice(b, zero, low)
      <4> HIDE DEF zero
      <4> QED
        BY <1>5, <2>0, SliceJoin
    <3> QED
      BY <3>1 DEF e, zero
  <2> HIDE DEF l, v, stay
  <2>5. /\ IsText(c) /\ Len(c) = low + Len(T[n]) /\ Len(T[n]) \in Nat
        /\ \A i \in 1 .. low : c[i] = l[i]
    <3> DEFINE z == T[n]
    <3>1. IsText(l) /\ IsText(z) /\ c = l \o z
      BY <1>3, <1>4, <2>1 DEF l
    <3> HIDE DEF z
    <3>2. IsText(l \o z) /\ Len(l \o z) = Len(l) + Len(z) /\ \A i \in 1 .. Len(l) : (l \o z)[i] = l[i]
      BY <3>1, ConcatIs
    <3>3. Len(z) \in Nat
      BY <3>1 DEF IsText
    <3> QED
      BY <2>1, <3>1, <3>2, <3>3 DEF z
  <2>6. Slice(c, zero, s) = Slice(b, zero, s)
    <3>1. low <= Len(c) /\ \A i \in 1 .. low : c[i] = b[i]
      BY <1>5, <2>1, <2>5
    <3> HIDE DEF zero
    <3> QED
      BY <1>5, <2>0, <2>5, <3>1, KeptSlice
  <2>7. c = v \o (stay \o T[n])
    <3> DEFINE z == T[n]
    <3>1. IsText(z) /\ c = (v \o stay) \o z
      BY <1>3, <1>4, <2>4 DEF l
    <3> HIDE DEF z
    <3>2. (v \o stay) \o z = v \o (stay \o z)
      BY <2>2, <2>3, <3>1, ConcatAssoc
    <3> QED
      BY <3>1, <3>2 DEF z
  <2>8. Slice(c, e, Len(c)) = stay \o T[n]
    <3> DEFINE z == stay \o T[n]
    <3>1. IsText(z)
      BY <1>4, <2>3, ConcatIs
    <3> HIDE DEF z
    <3>2. Slice(v \o z, Len(v), Len(v \o z)) = z
      BY <2>2, <3>1, ConcatCut
    <3> QED
      BY <2>2, <2>7, <3>2 DEF z
  <2> QED
    BY <2>6, <2>8 DEF s, e, zero
<1>10. Slice(c, 0, p.start) \o rep \o Slice(c, p.end, Len(c)) = Slice(b, 0, Low(b, d, Len(d))) \o U[Len(d)]
  <2>1. Low(b, d, Len(d)) = p.start /\ U[Len(d)] = rep \o (stay \o T[n])
    <3> HIDE DEF stay
    <3> QED
      BY <1>1 DEF Low
  <2>2. IsText(x) /\ IsText(stay \o T[n])
    <3> DEFINE s == p.start
               e == p.end
    <3>0. s \in 0 .. Len(b) /\ e \in Nat
      BY <1>5, <1>6
    <3> HIDE DEF s, e
    <3>1. IsText(Slice(b, 0, s)) /\ IsText(Slice(b, e, low))
      BY <1>5, <1>6, <3>0, HeadIs, SliceIs
    <3>2. IsText(x) /\ IsText(stay)
      BY <3>1 DEF s, e
    <3> HIDE DEF x, stay
    <3> QED
      BY <1>4, <3>2, ConcatIs
  <2> DEFINE z == stay \o T[n]
  <2> HIDE DEF x, z
  <2>3. (x \o rep) \o z = x \o (rep \o z)
    <3>1. IsText(x) /\ IsText(rep) /\ IsText(z)
      BY <1>6, <2>2 DEF z
    <3> QED
      BY <3>1, ConcatAssoc
  <2> HIDE DEF U
  <2> QED
    BY <1>9, <2>1, <2>3 DEF z, x
<1> HIDE DEF U
<1>11. Leaves(b, d, Slice(c, 0, p.start) \o rep \o Slice(c, p.end, Len(c)))
  BY <1>8, <1>10 DEF Leaves
<1> QED
  BY <1>11 DEF d, rep

-----------------------------------------------------------------------------
(* Line breaks of one kind.                                                  *)

AllKinds == {"LF", "CRLF", "CR"}

\* Every break of a text is of the given kind.
Uniform(t, kind) ==
  \A i \in 1 .. Len(t) :
    /\ t[i] = CR => kind = "CR" \/ (kind = "CRLF" /\ i + 1 \in 1 .. Len(t) /\ t[i + 1] = LF)
    /\ t[i] = LF => kind = "LF" \/ (kind = "CRLF" /\ i - 1 \in 1 .. Len(t) /\ t[i - 1] = CR)

LEMMA NextIs ==
  ASSUME NEW t, IsText(t), NEW i \in 1 .. Len(t)
  PROVE  Slice(t, i, i + 1) = <<LF>> <=> i < Len(t) /\ t[i + 1] = LF
<1> DEFINE s == Slice(t, i, i + 1)
           o == <<LF>>
<1>1. Len(t) \in Nat /\ i \in Nat /\ i + 1 \in Nat
  BY DEF IsText
<1>2. IsText(o) /\ Len(o) = 1 /\ o[1] = LF
  BY OneIs
<1>3. CASE i < Len(t)
  <2>1. IsText(s) /\ Len(s) = (i + 1) - i /\ \A j \in 1 .. (i + 1) - i : s[j] = t[i + j]
    <3>1. i <= i + 1 /\ i + 1 <= Len(t)
      BY <1>1, <1>3
    <3> QED
      BY <1>1, <3>1, SliceIn
  <2>2. (i + 1) - i = 1
    BY <1>1
  <2> HIDE DEF s, o
  <2>3. Len(s) = 1 /\ s[1] = t[i + 1]
    BY <2>1, <2>2
  <2>4. s[1] = o[1] => s = o
    <3>1. ASSUME s[1] = o[1] PROVE \A j \in 1 .. Len(s) : s[j] = o[j]
      <4>1. \A j \in 1 .. Len(s) : j = 1
        BY <2>3
      <4> QED
        BY <3>1, <4>1
    <3> QED
      BY <1>2, <2>1, <2>3, <3>1, SameText
  <2>5. s = o <=> t[i + 1] = LF
    BY <1>2, <2>3, <2>4
  <2> QED
    BY <1>3, <2>5 DEF s, o
<1>4. CASE ~(i < Len(t))
  <2>1. ~(i < Min2(i + 1, Len(t)))
    BY <1>1, <1>4 DEF Min2
  <2>2. Len(s) = 0
    BY <1>1, <2>1, SliceIs
  <2> HIDE DEF s
  <2>3. s # o
    BY <1>2, <2>2
  <2> QED
    BY <1>4, <2>3 DEF s, o
<1> QED
  BY <1>3, <1>4

LEMMA BreakIs ==
  ASSUME NEW t, IsText(t), NEW i \in 1 .. Len(t)
  PROVE  BreakAt(t, i) = IF t[i] = LF THEN "LF"
                         ELSE IF i < Len(t) /\ t[i + 1] = LF THEN "CRLF" ELSE "CR"
BY NextIs DEF BreakAt

LEMMA KindsAre ==
  ASSUME NEW t, IsText(t)
  PROVE  /\ Kinds(t) \subseteq AllKinds
         /\ \A i \in 1 .. Len(t) : StartsBreak(t, i) => BreakAt(t, i) \in Kinds(t)
<1>1. \A i \in 1 .. Len(t) : BreakAt(t, i) \in AllKinds
  BY DEF BreakAt, AllKinds
<1> QED
  BY <1>1 DEF Kinds

\* A text whose kinds are known.
LEMMA KindUniform ==
  ASSUME NEW t, IsText(t), NEW kind \in AllKinds, Kinds(t) \subseteq {kind}
  PROVE  Uniform(t, kind)
<1>1. Len(t) \in Nat
  BY DEF IsText
<1>2. ASSUME NEW i \in 1 .. Len(t), t[i] = CR
      PROVE  kind = "CR" \/ (kind = "CRLF" /\ i + 1 \in 1 .. Len(t) /\ t[i + 1] = LF)
  <2>1. BreakAt(t, i) = kind
    BY <1>2, KindsAre DEF StartsBreak
  <2>2. t[i] # LF
    BY <1>2, TextsAssumption DEF TextsAssumption
  <2>3. BreakAt(t, i) = IF i < Len(t) /\ t[i + 1] = LF THEN "CRLF" ELSE "CR"
    BY <2>2, BreakIs
  <2>4. i < Len(t) => i + 1 \in 1 .. Len(t)
    BY <1>1
  <2> QED
    BY <2>1, <2>3, <2>4
<1>3. ASSUME NEW i \in 1 .. Len(t), t[i] = LF
      PROVE  kind = "LF" \/ (kind = "CRLF" /\ i - 1 \in 1 .. Len(t) /\ t[i - 1] = CR)
  <2>1. CASE i = 1 \/ t[i - 1] # CR
    <3>1. StartsBreak(t, i)
      BY <1>3, <2>1 DEF StartsBreak
    <3>2. BreakAt(t, i) = "LF" /\ BreakAt(t, i) \in Kinds(t)
      BY <1>3, <3>1, KindsAre DEF BreakAt
    <3> QED
      BY <3>2
  <2>2. CASE i # 1 /\ t[i - 1] = CR
    <3> DEFINE j == i - 1
    <3>1. j \in 1 .. Len(t) /\ j < Len(t) /\ j + 1 = i
      BY <1>1, <2>2
    <3>2. t[j] = CR /\ t[j + 1] = LF /\ t[j] # LF
      BY <1>3, <2>2, <3>1, TextsAssumption DEF TextsAssumption
    <3> HIDE DEF j
    <3>3. BreakAt(t, j) = "CRLF" /\ BreakAt(t, j) \in Kinds(t)
      BY <3>1, <3>2, BreakIs, KindsAre DEF StartsBreak
    <3>4. kind = "CRLF"
      BY <3>3
    <3> QED
      BY <2>2, <3>1, <3>4 DEF j
  <2> QED
    BY <2>1, <2>2
<1> QED
  BY <1>2, <1>3 DEF Uniform

LEMMA UniformKind ==
  ASSUME NEW t, IsText(t), NEW kind \in AllKinds, Uniform(t, kind)
  PROVE  Kinds(t) \subseteq {kind}
<1>1. ASSUME NEW i \in 1 .. Len(t), StartsBreak(t, i) PROVE BreakAt(t, i) = kind
  <2>1. CASE t[i] = LF
    <3>1. t[i] # CR /\ (i = 1 \/ t[i - 1] # CR)
      BY <1>1, <2>1, TextsAssumption DEF StartsBreak, TextsAssumption
    <3>2. i = 1 => ~(i - 1 \in 1 .. Len(t))
      OBVIOUS
    <3>3. kind = "LF"
      BY <2>1, <3>1, <3>2 DEF Uniform
    <3> QED
      BY <2>1, <3>3 DEF BreakAt
  <2>2. CASE t[i] # LF
    <3>1. t[i] = CR
      BY <1>1, <2>2 DEF StartsBreak
    <3>2. BreakAt(t, i) = IF i < Len(t) /\ t[i + 1] = LF THEN "CRLF" ELSE "CR"
      BY <2>2, BreakIs
    <3>3. kind = "CR" \/ (kind = "CRLF" /\ i + 1 \in 1 .. Len(t) /\ t[i + 1] = LF)
      BY <3>1 DEF Uniform
    <3>4. i + 1 \in 1 .. Len(t) <=> i < Len(t)
      BY DEF IsText
    <3>5. CASE kind = "CR"
      <4>1. ASSUME i < Len(t), t[i + 1] = LF PROVE FALSE
        <5> DEFINE j == i + 1
        <5>1. j \in 1 .. Len(t) /\ t[j] = LF
          BY <3>4, <4>1
        <5> HIDE DEF j
        <5> QED
          BY <3>5, <5>1 DEF Uniform
      <4> QED
        BY <3>2, <3>5, <4>1
    <3>6. CASE kind = "CRLF"
      BY <3>2, <3>3, <3>4, <3>6
    <3> QED
      BY <3>3, <3>5, <3>6
  <2> QED
    BY <2>1, <2>2
<1> QED
  BY <1>1 DEF Kinds

LEMMA UniformConcat ==
  ASSUME NEW s, IsText(s), NEW t, IsText(t), NEW kind, Uniform(s, kind), Uniform(t, kind)
  PROVE  Uniform(s \o t, kind)
<1> DEFINE u == s \o t
           m == Len(s)
           n == Len(t)
<1>1. /\ IsText(u) /\ Len(u) = m + n /\ m \in Nat /\ n \in Nat
      /\ \A i \in 1 .. m : u[i] = s[i]
      /\ \A i \in 1 .. n : u[m + i] = t[i]
  BY ConcatAll
<1> HIDE DEF u
<1>2. ASSUME NEW i \in 1 .. m
      PROVE  /\ u[i] = CR => kind = "CR" \/ (kind = "CRLF" /\ i + 1 \in 1 .. Len(u) /\ u[i + 1] = LF)
             /\ u[i] = LF => kind = "LF" \/ (kind = "CRLF" /\ i - 1 \in 1 .. Len(u) /\ u[i - 1] = CR)
  <2>1. /\ s[i] = CR => kind = "CR" \/ (kind = "CRLF" /\ i + 1 \in 1 .. m /\ s[i + 1] = LF)
        /\ s[i] = LF => kind = "LF" \/ (kind = "CRLF" /\ i - 1 \in 1 .. m /\ s[i - 1] = CR)
    BY DEF Uniform
  <2>2. u[i] = s[i] /\ \A j \in 1 .. m : j \in 1 .. Len(u) /\ u[j] = s[j]
    BY <1>1
  <2> HIDE DEF m
  <2> QED
    BY <2>1, <2>2
<1>3. ASSUME NEW k \in 1 .. n
      PROVE  LET i == m + k IN
             /\ u[i] = CR => kind = "CR" \/ (kind = "CRLF" /\ i + 1 \in 1 .. Len(u) /\ u[i + 1] = LF)
             /\ u[i] = LF => kind = "LF" \/ (kind = "CRLF" /\ i - 1 \in 1 .. Len(u) /\ u[i - 1] = CR)
  <2>1. /\ t[k] = CR => kind = "CR" \/ (kind = "CRLF" /\ k + 1 \in 1 .. n /\ t[k + 1] = LF)
        /\ t[k] = LF => kind = "LF" \/ (kind = "CRLF" /\ k - 1 \in 1 .. n /\ t[k - 1] = CR)
    BY DEF Uniform
  <2>2. u[m + k] = t[k]
    BY <1>1
  <2>3. \A j \in 1 .. n : m + j \in 1 .. Len(u) /\ u[m + j] = t[j]
    BY <1>1
  <2>4. m + (k + 1) = (m + k) + 1 /\ m + (k - 1) = (m + k) - 1
    BY <1>1
  <2>5. k + 1 \in 1 .. n => (m + k) + 1 \in 1 .. Len(u) /\ u[(m + k) + 1] = t[k + 1]
    BY <2>3, <2>4
  <2>6. k - 1 \in 1 .. n => (m + k) - 1 \in 1 .. Len(u) /\ u[(m + k) - 1] = t[k - 1]
    BY <2>3, <2>4
  <2> HIDE DEF m, n
  <2> QED
    BY <2>1, <2>2, <2>5, <2>6
<1>4. \A i \in 1 .. Len(u) : i \in 1 .. m \/ \E k \in 1 .. n : i = m + k
  <2>1. ASSUME NEW i \in 1 .. Len(u), ~(i \in 1 .. m) PROVE i - m \in 1 .. n /\ i = m + (i - m)
    BY <1>1, <2>1
  <2> QED
    BY <2>1
<1> HIDE DEF m, n
<1>5. Uniform(u, kind)
  BY <1>2, <1>3, <1>4 DEF Uniform
<1> QED
  BY <1>5 DEF u

LEMMA UniformParts ==
  ASSUME NEW parts, IsText(parts), NEW kind,
         \A i \in 1 .. Len(parts) : IsText(parts[i]) /\ Uniform(parts[i], kind)
  PROVE  Uniform(FlattenSeq(parts), kind)
<1> DEFINE n == Len(parts)
<1>1. n \in Nat
  BY DEF IsText
<1>2. CASE n = 0
  <2>1. parts = <<>>
    BY <1>2, EmptyIs
  <2>2. FlattenSeq(parts) = <<>>
    BY <1>2, <2>1 DEF FlattenSeq
  <2>3. Len(<<>>) = 0
    OBVIOUS
  <2> QED
    BY <2>2, <2>3 DEF Uniform
<1>3. CASE n # 0
  <2>0. n \in Nat \ {0}
    BY <1>1, <1>3
  <2>1. PICK f : /\ f[1] = parts[1]
                 /\ \A i \in 2 .. n : f[i] = f[i - 1] \o parts[i]
                 /\ FlattenSeq(parts) = f[n]
    BY <2>0, FlattenIs
  <2> DEFINE Good(i) == IsText(f[i]) /\ Uniform(f[i], kind)
             Bad == {i \in 1 .. n : ~Good(i)}
  <2>2. Bad = {}
    <3> SUFFICES ASSUME Bad # {} PROVE FALSE
      OBVIOUS
    <3>1. PICK m \in Bad : \A x \in Bad : m <= x
      <4>1. Bad \in SUBSET Nat
        OBVIOUS
      <4> HIDE DEF Bad
      <4> QED
        BY <4>1, LeastExists
    <3>2. m \in 1 .. n /\ ~Good(m) /\ \A x \in 1 .. n : x < m => Good(x)
      BY <3>1
    <3> HIDE DEF Bad
    <3>3. m # 1
      BY <2>1, <3>2
    <3> DEFINE j == m - 1
    <3>4. m \in 2 .. n /\ j \in 1 .. n /\ j < m
      BY <1>1, <3>2, <3>3
    <3>5. f[m] = f[j] \o parts[m] /\ Good(j)
      BY <2>1, <3>2, <3>4
    <3>6. IsText(f[j]) /\ IsText(parts[m]) /\ Uniform(f[j], kind) /\ Uniform(parts[m], kind)
      BY <3>2, <3>5
    <3>7. IsText(f[j] \o parts[m]) /\ Uniform(f[j] \o parts[m], kind)
      <4> HIDE DEF j
      <4> QED
        BY <3>6, ConcatIs, UniformConcat
    <3> QED
      BY <3>2, <3>5, <3>7
  <2>3. Good(n)
    BY <2>0, <2>2
  <2> QED
    BY <2>1, <2>3
<1> QED
  BY <1>2, <1>3

LEMMA CutIsKept ==
  ASSUME NEW t, IsText(t), NEW k \in 0 .. Len(Normalize(t))
  PROVE  Cut(t, k) \in 0 .. Len(t) /\ (Cut(t, k) = 0 \/ Cut(t, k) \in Kept(t))
<1> DEFINE n == Len(Normalize(t))
<1>1. Cut(t, k) \in 0 .. Len(t)
  BY CutsAre
<1>2. n \in Nat /\ Lists(At(t), n, Kept(t))
  BY AtLists
<1> HIDE DEF n
<1>3. k = 0 \/ k \in 1 .. n
  BY <1>2 DEF n
<1> QED
  BY <1>1, <1>2, <1>3 DEF Cut, Lists

\* What lies between two cuts holds no half of a break.
LEMMA UniformGap ==
  ASSUME NEW t, IsText(t), NEW kind, Uniform(t, kind), NEW s, Gapped(t, s)
  PROVE  Uniform(s, kind)
<1>1. PICK j, k \in 0 .. Len(Normalize(t)) : s = Slice(t, Cut(t, j), Cut(t, k))
  BY DEF Gapped
<1> DEFINE c == Cut(t, j)
           d == Cut(t, k)
           n == Len(s)
<1>2. /\ c \in 0 .. Len(t) /\ (c = 0 \/ c \in Kept(t))
      /\ d \in 0 .. Len(t) /\ (d = 0 \/ d \in Kept(t))
      /\ Len(t) \in Nat
  BY CutIsKept DEF IsText
<1>3. s = Slice(t, c, d)
  BY <1>1
<1> HIDE DEF c, d
<1>4. Len(s) = (IF c < d THEN d - c ELSE 0) /\ \A i \in 1 .. Len(s) : s[i] = t[c + i]
  <2>1. Min2(d, Len(t)) = d /\ c \in Nat /\ d \in Nat
    BY <1>2 DEF Min2
  <2> DEFINE m == IF c < Min2(d, Len(t)) THEN Min2(d, Len(t)) - c ELSE 0
  <2>2. Len(s) = m /\ \A i \in 1 .. m : s[i] = t[c + i]
    BY <1>3, <2>1, SliceIs
  <2>3. m = IF c < d THEN d - c ELSE 0
    BY <2>1
  <2> HIDE DEF m
  <2> QED
    BY <2>2, <2>3
<1>5. ASSUME NEW i \in 1 .. n
      PROVE  /\ s[i] = t[c + i] /\ c + i \in 1 .. Len(t) /\ c + i <= d /\ d - c = n
             /\ i = 1 => c + i = c + 1
             /\ i # 1 => i - 1 \in 1 .. n
             /\ c + i # d => i + 1 \in 1 .. n
  <2>1. c \in Nat /\ d \in Nat /\ d <= Len(t) /\ i \in 1 .. n /\ n = (IF c < d THEN d - c ELSE 0)
    BY <1>2, <1>4
  <2>2. n = d - c /\ c < d
    BY <2>1
  <2>3. s[i] = t[c + i]
    BY <1>4
  <2> HIDE DEF n
  <2> QED
    BY <1>2, <2>1, <2>2, <2>3
<1>6. ASSUME NEW i \in 1 .. n, s[i] = CR
      PROVE  kind = "CR" \/ (kind = "CRLF" /\ i + 1 \in 1 .. Len(s) /\ s[i + 1] = LF)
  <2> DEFINE h == c + i
  <2>1. h \in 1 .. Len(t) /\ t[h] = CR
    BY <1>5, <1>6
  <2> HIDE DEF h
  <2>2. kind = "CR" \/ (kind = "CRLF" /\ h + 1 \in 1 .. Len(t) /\ t[h + 1] = LF)
    BY <2>1 DEF Uniform
  <2>3. ASSUME h + 1 \in 1 .. Len(t), t[h + 1] = LF, h = d PROVE FALSE
    <3>1. h < Len(t) /\ h # 0
      BY <1>2, <2>1, <2>3
    <3> QED
      BY <1>2, <2>1, <2>3, <3>1 DEF Kept
  <2>4. c + (i + 1) = h + 1
    BY <1>2 DEF h
  <2>5. h # d => i + 1 \in 1 .. n /\ s[i + 1] = t[h + 1]
    BY <1>4, <1>5, <2>4 DEF h
  <2> QED
    BY <2>2, <2>3, <2>5
<1>7. ASSUME NEW i \in 1 .. n, s[i] = LF
      PROVE  kind = "LF" \/ (kind = "CRLF" /\ i - 1 \in 1 .. Len(s) /\ s[i - 1] = CR)
  <2> DEFINE h == c + i
  <2>1. h \in 1 .. Len(t) /\ t[h] = LF
    BY <1>5, <1>7
  <2>2. h - 1 = c + (i - 1)
    BY <1>2
  <2>3. i = 1 => h - 1 = c /\ c + 1 = h
    BY <1>2
  <2> HIDE DEF h
  <2>4. kind = "LF" \/ (kind = "CRLF" /\ h - 1 \in 1 .. Len(t) /\ t[h - 1] = CR)
    BY <2>1 DEF Uniform
  <2>5. ASSUME h - 1 \in 1 .. Len(t), t[h - 1] = CR, i = 1 PROVE FALSE
    <3>1. c < Len(t) /\ c # 0 /\ t[c] = CR /\ t[c + 1] = LF
      BY <1>2, <2>1, <2>3, <2>5
    <3> QED
      BY <1>2, <3>1 DEF Kept
  <2>6. i # 1 => i - 1 \in 1 .. n /\ s[i - 1] = t[h - 1]
    BY <1>4, <1>5, <2>2
  <2> QED
    BY <2>4, <2>5, <2>6
<1> QED
  BY <1>6, <1>7 DEF Uniform

\* The breaks of a plain text, turned into breaks of the given kind.
LEMMA UniformWithBreaks ==
  ASSUME NEW t, IsText(t), \A i \in 1 .. Len(t) : t[i] # CR, NEW kind, NEW break,
         \/ kind = "CR" /\ break = <<CR>>
         \/ kind = "CRLF" /\ break = <<CR, LF>>
  PROVE  Uniform(WithBreaks(t, break), kind)
<1> DEFINE n == Len(t)
           parts == [i \in 1 .. n |-> IF t[i] = LF THEN break ELSE <<t[i]>>]
<1>1. n \in Nat
  BY DEF IsText
<1>2. IsText(break) /\ Uniform(break, kind)
  <2>1. CASE kind = "CR" /\ break = <<CR>>
    <3>1. IsText(break) /\ Len(break) = 1 /\ break[1] = CR
      BY <2>1, OneIs
    <3>2. \A i \in 1 .. Len(break) : i = 1
      BY <3>1
    <3> QED
      BY <2>1, <3>1, <3>2, TextsAssumption DEF Uniform, TextsAssumption
  <2>2. CASE kind = "CRLF" /\ break = <<CR, LF>>
    <3>1. IsText(break) /\ Len(break) = 2 /\ break[1] = CR /\ break[2] = LF
      BY <2>2, PairIs
    <3>2. \A i \in 1 .. Len(break) : i = 1 \/ i = 2
      BY <3>1
    <3>3. 1 \in 1 .. Len(break) /\ 2 \in 1 .. Len(break) /\ 1 + 1 = 2 /\ 2 - 1 = 1
      BY <3>1
    <3> QED
      BY <2>2, <3>1, <3>2, <3>3, TextsAssumption DEF Uniform, TextsAssumption
  <2> QED
    BY <2>1, <2>2
<1>3. ASSUME NEW i \in 1 .. n PROVE IsText(parts[i]) /\ Uniform(parts[i], kind)
  <2> DEFINE c == t[i]
             o == <<c>>
  <2>1. parts[i] = IF t[i] = LF THEN break ELSE o
    OBVIOUS
  <2>2. IsText(o) /\ Len(o) = 1 /\ o[1] = c
    BY OneIs
  <2> HIDE DEF o, parts
  <2>3. c # LF => Uniform(o, kind)
    <3>1. \A j \in 1 .. Len(o) : o[j] = c
      <4>1. \A j \in 1 .. Len(o) : j = 1
        BY <2>2
      <4> QED
        BY <2>2, <4>1
    <3>2. c # CR
      OBVIOUS
    <3> HIDE DEF c
    <3> QED
      BY <3>1, <3>2 DEF Uniform
  <2> QED
    BY <1>2, <2>1, <2>2, <2>3
<1>4. WithBreaks(t, break) = FlattenSeq(parts)
  BY DEF WithBreaks
<1>5. parts = [i \in 1 .. n |-> parts[i]]
  OBVIOUS
<1> HIDE DEF n, parts
<1>6. IsText(parts) /\ Len(parts) = n
  BY <1>1, <1>5, MakesText
<1> QED
  BY <1>3, <1>4, <1>6, UniformParts

\* A new text keeps the kind of the breaks it sees.
LEMMA UniformConform ==
  ASSUME NEW t, IsText(t), \A i \in 1 .. Len(t) : t[i] # CR, NEW kind \in AllKinds,
         NEW context, IsText(context), Holds(t, LF) => Kinds(context) = {kind}
  PROVE  Uniform(Conform(t, context), kind)
<1>1. ~Holds(t, CR)
  BY HoldsIs
<1>2. CASE ~Holds(t, LF)
  <2>1. Conform(t, context) = t
    BY <1>2 DEF Conform
  <2>2. \A i \in 1 .. Len(t) : t[i] # LF
    BY <1>2, HoldsIs
  <2> QED
    BY <2>1, <2>2 DEF Uniform
<1>3. CASE Holds(t, LF)
  <2>0. Kinds(context) = {kind} /\ Uniform(context, kind)
    BY <1>3, KindUniform
  <2>1. CASE HoldsCRLF(context)
    <3>1. PICK i \in 1 .. Len(context) - 1 : context[i] = CR /\ context[i + 1] = LF
      BY <2>1 DEF HoldsCRLF
    <3>2. i \in 1 .. Len(context) /\ i < Len(context)
      BY DEF IsText
    <3>3. BreakAt(context, i) = "CRLF" /\ BreakAt(context, i) \in Kinds(context)
      BY <3>1, <3>2, BreakIs, KindsAre, TextsAssumption DEF StartsBreak, TextsAssumption
    <3>4. kind = "CRLF"
      BY <2>0, <3>3
    <3>5. Conform(t, context) = WithBreaks(t, <<CR, LF>>)
      BY <1>1, <1>3, <2>1 DEF Conform
    <3> QED
      BY <3>4, <3>5, UniformWithBreaks
  <2>2. CASE ~HoldsCRLF(context) /\ Holds(context, CR)
    <3>1. PICK i \in 1 .. Len(context) : context[i] = CR
      BY <2>2, HoldsIs
    <3>2. i + 1 \in 1 .. Len(context) => i \in 1 .. Len(context) - 1
      BY DEF IsText
    <3>3. kind = "CR"
      BY <2>0, <2>2, <3>1, <3>2 DEF Uniform, HoldsCRLF
    <3>4. Conform(t, context) = WithBreaks(t, <<CR>>)
      BY <1>1, <1>3, <2>2 DEF Conform
    <3> QED
      BY <3>3, <3>4, UniformWithBreaks
  <2>3. CASE ~HoldsCRLF(context) /\ ~Holds(context, CR)
    <3>1. Conform(t, context) = t
      BY <1>1, <1>3, <2>3 DEF Conform
    <3>2. \A i \in 1 .. Len(context) : context[i] # CR
      BY <2>3, HoldsIs
    <3>3. Uniform(context, "LF")
      BY <3>2 DEF Uniform
    <3>4. Kinds(context) \subseteq {"LF"}
      BY <3>3, UniformKind DEF AllKinds
    <3>5. kind = "LF"
      BY <2>0, <3>4
    <3> QED
      BY <3>1, <3>5 DEF Uniform
  <2> QED
    BY <2>1, <2>2, <2>3
<1> QED
  BY <1>2, <1>3

\* Leaving the trailing break away leaves a head of the new text.
LEMMA TrimmedIsHead ==
  ASSUME NEW p, IsText(ask[p.block].new), NEW norm
  PROVE  LET t == ask[p.block].new
             s == Trimmed(p, norm)
         IN  \A i \in 1 .. Len(s) : i \in 1 .. Len(t) /\ s[i] = t[i]
<1> DEFINE t == ask[p.block].new
           s == Trimmed(p, norm)
           unit == IF EndsWith(t, <<CR, LF>>) THEN 2 ELSE 1
           b == Len(t) - unit
<1>1. s = IF Trims(p, norm) THEN Slice(t, 0, b) ELSE t
  BY DEF Trimmed
<1>2. IsText(t) /\ Len(t) \in Nat
  BY DEF IsText
<1>3. CASE Trims(p, norm)
  <2>1. b \in 0 .. Len(t)
    <3>1. Len(<<LF>>) = 1 /\ Len(<<CR, LF>>) = 2
      OBVIOUS
    <3>2. b \in Nat
      BY <1>2, <1>3, <3>1 DEF Trims, EndsWith
    <3>3. unit = 1 \/ unit = 2
      OBVIOUS
    <3> HIDE DEF unit
    <3> QED
      BY <1>2, <3>2, <3>3
  <2> HIDE DEF b, t, s
  <2>2. Len(s) = b /\ \A i \in 1 .. b : s[i] = t[i]
    BY <1>1, <1>2, <1>3, <2>1, HeadIs
  <2>3. \A i \in 1 .. b : i \in 1 .. Len(t)
    BY <1>2, <2>1
  <2> QED
    BY <2>2, <2>3 DEF s, t
<1> QED
  BY <1>1, <1>2, <1>3

LEMMA ContextText ==
  ASSUME NEW p, NEW t, IsText(t)
  PROVE  IsText(Context(p, t))
<1> DEFINE map == NormToRaw(t)
           from == From(p, map)
           to == To(p, map, t)
           up == to + 2
<1>1. from \in Nat /\ to \in Nat
  <2>1. PICK j \in 0 .. Len(Normalize(t)) : from = Cut(t, j)
    BY EndsAtCut
  <2>2. PICK k \in 0 .. Len(Normalize(t)) : to = Cut(t, k)
    BY EndsAtCut
  <2> HIDE DEF from, to
  <2> QED
    BY <2>1, <2>2, CutsAre
<1>2. up \in Nat
  BY <1>1
<1>3. Context(p, t) = Slice(t, from, to) \o Slice(t, to, up)
  BY DEF Context
<1> HIDE DEF from, to, up
<1> DEFINE x == Slice(t, from, to)
           y == Slice(t, to, up)
<1>4. IsText(x) /\ IsText(y)
  BY <1>1, <1>2, SliceIs
<1> HIDE DEF x, y
<1>5. IsText(x \o y)
  BY <1>4, ConcatIs
<1> QED
  BY <1>3, <1>5 DEF x, y

LEMMA SpliceUniform ==
  ASSUME NewTexts, NEW t, IsText(t), NEW a, Strewn(a), NEW kind \in AllKinds, Uniform(t, kind),
         \A x \in Block : ~Holds(ask[x].new, CR),
         \A m \in 1 .. Len(a) : Holds(ask[a[m].block].new, LF) => Kinds(Context(a[m], t)) = {kind}
  PROVE  Uniform(SpliceOntoRaw(t, a), kind)
<1> DEFINE parts == Parts(t, a)
<1>1. /\ IsText(parts)
      /\ \A i \in 1 .. Len(parts) :
           IsText(parts[i]) /\ (Gapped(t, parts[i]) \/ Brought(t, a, parts[i]))
  BY PartsComeFrom
<1>2. ASSUME NEW s, Brought(t, a, s) PROVE Uniform(s, kind)
  <2>1. PICK m \in 1 .. Len(a) : s = Conform(Trimmed(a[m], Normalize(t)), Context(a[m], t))
    BY <1>2 DEF Brought
  <2> DEFINE p == a[m]
             brought == ask[p.block].new
             text == Trimmed(p, Normalize(t))
             context == Context(p, t)
  <2>2. p.block \in Block /\ IsText(brought) /\ ~Holds(brought, CR)
    BY DEF Strewn, Piece, NewTexts
  <2>3. IsText(text) /\ IsText(context)
    BY <2>2, TrimmedText, ContextText
  <2>4. \A i \in 1 .. Len(text) : i \in 1 .. Len(brought) /\ text[i] = brought[i]
    BY <2>2, TrimmedIsHead
  <2>5. Holds(brought, LF) => Kinds(context) = {kind}
    OBVIOUS
  <2>6. s = Conform(text, context)
    BY <2>1
  <2> HIDE DEF p, brought, text, context
  <2>7. \A i \in 1 .. Len(text) : text[i] # CR
    BY <2>2, <2>4, HoldsIs
  <2>8. Holds(text, LF) => Holds(brought, LF)
    BY <2>2, <2>3, <2>4, HoldsIs
  <2> QED
    BY <2>3, <2>5, <2>6, <2>7, <2>8, UniformConform
<1> HIDE DEF parts
<1>3. \A i \in 1 .. Len(parts) : IsText(parts[i]) /\ Uniform(parts[i], kind)
  BY <1>1, <1>2, UniformGap
<1>4. Uniform(FlattenSeq(parts), kind)
  BY <1>1, <1>3, UniformParts
<1> QED
  BY <1>4 DEF SpliceOntoRaw, parts

LEMMA OneKind ==
  ASSUME NEW t, IsText(t), Cardinality(Kinds(t)) = 1
  PROVE  \E kind \in AllKinds : Kinds(t) = {kind}
<1>1. Kinds(t) \subseteq AllKinds
  BY KindsAre
<1>2. IsFiniteSet(AllKinds)
  <2>1. IsFiniteSet({}) /\ AllKinds = (({} \cup {"LF"}) \cup {"CRLF"}) \cup {"CR"}
    BY FS_EmptySet DEF AllKinds
  <2> QED
    BY <2>1, FS_AddElement
<1>3. IsFiniteSet(Kinds(t))
  BY <1>1, <1>2, FS_Subset
<1> QED
  BY <1>1, <1>3, FS_Singleton
================================================================================
