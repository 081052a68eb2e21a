-------------------------- MODULE UndoStoreProofs --------------------------
(***************************************************************************)
(* What UndoStore promises for any number of sessions, paths and           *)
(* operations and for every budget: its types, that the dump stays within  *)
(* budget, that a record is lost only through the four windows UndoStore   *)
(* names, and that it implements UndoMap.                                  *)
(***************************************************************************)
EXTENDS UndoStore, FiniteSetTheorems, SequenceTheorems, WellFoundedInduction, TLAPS

-----------------------------------------------------------------------------
(* Facts about numbers and about the view of a dump.                       *)

\* Every non-empty set of naturals with an upper bound has a maximum.
LEMMA MaxExists ==
  ASSUME NEW S \in SUBSET Nat, S # {}, NEW n \in Nat, \A x \in S : x <= n
  PROVE  Max(S) \in S /\ \A x \in S : x <= Max(S)
<1> DEFINE R == StrictSubsetOrdering(Nat)
           T == {x .. n : x \in S}
<1>1. T \subseteq FiniteSubsetsOf(Nat) /\ T # {}
  <2>1. ASSUME NEW x \in S PROVE x .. n \in FiniteSubsetsOf(Nat)
    <3>1. IsFiniteSet(x .. n)
      BY FS_Interval
    <3>2. x .. n \in SUBSET Nat
      OBVIOUS
    <3>3. QED
      BY <3>1, <3>2 DEF FiniteSubsetsOf
  <2>2. QED
    BY <2>1
<1>2. \E d \in T : \A e \in T : ~(<<e, d>> \in R)
  <2>1. IsWellFoundedOn(R, FiniteSubsetsOf(Nat))
    BY FS_StrictSubsetOrderingWellFounded
  <2> HIDE DEF R, T
  <2>2. QED
    BY <1>1, <2>1, WFMin
<1>3. \E m \in S : \A x \in S : m >= x
  <2>1. PICK d \in T : \A e \in T : ~(<<e, d>> \in R)
    BY <1>2
  <2>2. PICK m \in S : d = m .. n
    OBVIOUS
  <2>3. ASSUME NEW x \in S PROVE m >= x
    <3>1. SUFFICES ASSUME m < x PROVE FALSE
      OBVIOUS
    <3>2. (x .. n) \subseteq (m .. n) /\ m \in m .. n /\ m \notin x .. n
      BY <3>1
    <3>3. <<x .. n, m .. n>> \in R
      BY <3>2 DEF StrictSubsetOrdering
    <3>4. QED
      BY <2>1, <2>2, <3>3
  <2>4. QED
    BY <2>3
<1>4. QED
  BY <1>3 DEF Max

Dump == Seq(Entry \cup {Junk})

\* The line that decides a path is the last of its lines.
LEMMA LastLine ==
  ASSUME NEW f \in Dump, NEW p, LinesOf(f, p) # {}
  PROVE  /\ Max(LinesOf(f, p)) \in LinesOf(f, p)
         /\ \A i \in LinesOf(f, p) : i <= Max(LinesOf(f, p))
<1>1. LinesOf(f, p) \in SUBSET Nat /\ \A i \in LinesOf(f, p) : i <= Len(f)
  BY DEF LinesOf, Dump
<1>2. Len(f) \in Nat
  BY DEF Dump
<1>3. QED
  BY <1>1, <1>2, MaxExists

\* A line that is the last of its path decides it.
LEMMA LastLineUnique ==
  ASSUME NEW f \in Dump, NEW p, NEW i \in LinesOf(f, p),
         \A j \in LinesOf(f, p) : j <= i
  PROVE  Max(LinesOf(f, p)) = i
<1>1. LinesOf(f, p) # {}
  OBVIOUS
<1>2. Max(LinesOf(f, p)) \in LinesOf(f, p) /\ i <= Max(LinesOf(f, p))
  BY <1>1, LastLine
<1>3. Max(LinesOf(f, p)) \in Nat /\ i \in Nat
  BY <1>2 DEF LinesOf, Dump
<1>4. QED
  BY <1>2, <1>3

\* A reader sees a record or nothing at every path.
LEMMA ViewType ==
  ASSUME NEW f \in Dump
  PROVE  View(f) \in [Paths -> Record \cup {Null}]
<1>1. ASSUME NEW p \in Paths, LinesOf(f, p) # {}
      PROVE  f[Max(LinesOf(f, p))].rec \in Record \cup {Null}
  <2>1. Max(LinesOf(f, p)) \in LinesOf(f, p)
    BY <1>1, LastLine
  <2>2. f[Max(LinesOf(f, p))] \in Entry
    BY <2>1 DEF LinesOf, Dump
  <2>3. QED
    BY <2>2 DEF Entry
<1>2. QED
  BY <1>1 DEF View

\* Two dumps show the same record for a path when the last line of the path
\* is the same line in both.
LEMMA ViewSame ==
  ASSUME NEW f \in Dump, NEW g \in Dump, NEW p \in Paths,
         LinesOf(f, p) = LinesOf(g, p),
         \A i \in LinesOf(f, p) : f[i] = g[i]
  PROVE  View(f)[p] = View(g)[p]
<1>1. CASE LinesOf(f, p) = {}
  BY <1>1 DEF View
<1>2. CASE LinesOf(f, p) # {}
  <2>1. f[Max(LinesOf(f, p))] = g[Max(LinesOf(g, p))]
    BY <1>2, LastLine
  <2>2. QED
    BY <1>2, <2>1 DEF View
<1>3. QED
  BY <1>1, <1>2

\* The last line of the dump decides its own path.
LEMMA ViewLast ==
  ASSUME NEW f \in Dump, NEW p \in Paths, Len(f) \in LinesOf(f, p)
  PROVE  View(f)[p] = f[Len(f)].rec
<1>1. \A j \in LinesOf(f, p) : j <= Len(f)
  BY DEF LinesOf, Dump
<1>2. Max(LinesOf(f, p)) = Len(f)
  BY <1>1, LastLineUnique
<1>3. QED
  BY <1>2 DEF View

\* An appended line changes the record of its own path only.
LEMMA ViewAppend ==
  ASSUME NEW f \in Dump, NEW l \in Entry \cup {Junk}, NEW p \in Paths
  PROVE  /\ Append(f, l) \in Dump
         /\ View(Append(f, l))[p] = IF l # Junk /\ l.path = p
                                    THEN l.rec ELSE View(f)[p]
<1> DEFINE g == Append(f, l)
<1>1. /\ g \in Dump /\ Len(g) = Len(f) + 1 /\ DOMAIN g = 1 .. Len(f) + 1
      /\ DOMAIN f = 1 .. Len(f) /\ Len(f) \in Nat
      /\ g[Len(f) + 1] = l /\ \A i \in 1 .. Len(f) : g[i] = f[i]
  BY DEF Dump
<1>2. CASE l # Junk /\ l.path = p
  <2>1. Len(g) \in LinesOf(g, p)
    BY <1>1, <1>2 DEF LinesOf
  <2> HIDE DEF g
  <2>2. View(g)[p] = l.rec
    BY <1>1, <2>1, ViewLast
  <2>3. QED
    BY <1>1, <1>2, <2>2 DEF g
<1>3. CASE ~(l # Junk /\ l.path = p)
  <2>1. LinesOf(g, p) = LinesOf(f, p) /\ \A i \in LinesOf(f, p) : f[i] = g[i]
    <3> HIDE DEF g
    <3>1. QED
      BY <1>1, <1>3 DEF LinesOf
  <2> HIDE DEF g
  <2>2. View(g)[p] = View(f)[p]
    BY <1>1, <2>1, ViewSame
  <2>3. QED
    BY <1>1, <1>3, <2>2 DEF g
<1>4. QED
  BY <1>2, <1>3

\* Overwriting the last line touches the record of its old path and of its
\* new one.
LEMMA ViewReplaceLast ==
  ASSUME NEW f \in Dump, f # <<>>, NEW l \in Entry \cup {Junk}, NEW p \in Paths,
         f[Len(f)] = Junk \/ f[Len(f)].path # p
  PROVE  /\ [f EXCEPT ![Len(f)] = l] \in Dump
         /\ View([f EXCEPT ![Len(f)] = l])[p] = IF l # Junk /\ l.path = p
                                                THEN l.rec ELSE View(f)[p]
<1> DEFINE g == [f EXCEPT ![Len(f)] = l]
<1>1. /\ Len(f) \in Nat \ {0} /\ DOMAIN f = 1 .. Len(f)
      /\ \A i \in 1 .. Len(f) : f[i] \in Entry \cup {Junk}
  BY DEF Dump
<1>2. /\ g \in Dump /\ Len(g) = Len(f) /\ DOMAIN g = 1 .. Len(f)
      /\ g[Len(f)] = l /\ \A i \in 1 .. Len(f) - 1 : g[i] = f[i]
  <2>1. f \in Seq(Entry \cup {Junk}) /\ Len(f) \in 1 .. Len(f)
    BY <1>1 DEF Dump
  <2>2. QED
    BY <2>1, ExceptSeq DEF Dump
<1> HIDE DEF g
<1>3. CASE l # Junk /\ l.path = p
  <2>1. Len(g) \in LinesOf(g, p)
    BY <1>1, <1>2, <1>3 DEF LinesOf
  <2>2. QED
    BY <1>2, <1>3, <2>1, ViewLast DEF g
<1>4. CASE ~(l # Junk /\ l.path = p)
  <2>1. LinesOf(g, p) = LinesOf(f, p) /\ \A i \in LinesOf(f, p) : f[i] = g[i]
    BY <1>1, <1>2, <1>4 DEF LinesOf
  <2>2. QED
    BY <1>2, <1>4, <2>1, ViewSame DEF g
<1>5. QED
  BY <1>3, <1>4

-----------------------------------------------------------------------------
(* Types.                                                                  *)

\* The empty dump and idle sessions have their types.
LEMMA TypesInit == Init => TypeOK /\ CallInv /\ TailInv
<1> SUFFICES ASSUME Init PROVE TypeOK /\ CallInv /\ TailInv
  OBVIOUS
<1> USE DEF Init
<1>1. lines \in Seq(Entry \cup {Junk})
  OBVIOUS
<1>2. staged \in [Sessions -> Seq(Entry)]
  OBVIOUS
<1>3. tries \in [Sessions -> 0 .. RenameAttempts - 1]
  BY StoreAssumption
<1>4. begun \in 0 .. MaxOps
  BY StoreAssumption
<1>5. QED
  BY <1>1, <1>2, <1>3, <1>4 DEF TypeOK, CallInv, TailInv, PCs, FDs

\* The sorted records, as they would be rewritten.
LEMMA CompactedIs ==
  ASSUME NEW f \in Dump, NEW ord \in ByAge(f)
  PROVE  LET n == Cardinality(Stored(f)) IN
         /\ IsFiniteSet(Stored(f)) /\ n \in Nat /\ ord \in [1 .. n -> Stored(f)]
         /\ Compacted(f, ord) \in Seq(Entry) /\ Len(Compacted(f, ord)) = n
         /\ \A i \in 1 .. n :
              Compacted(f, ord)[i] = [path |-> ord[i], rec |-> View(f)[ord[i]]]
<1> DEFINE body == Compacted(f, ord)
           n == Cardinality(Stored(f))
<1>1. \A p \in Paths : View(f)[p] \in Record \cup {Null}
  BY ViewType
<1>2. IsFiniteSet(Stored(f)) /\ n \in Nat
  <2>1. IsFiniteSet(DOMAIN f)
    BY FS_Interval DEF Dump
  <2>2. \A p \in Stored(f) : \E i \in DOMAIN f : f[i].path = p
    <3>1. SUFFICES ASSUME NEW p \in Stored(f)
                   PROVE  \E i \in DOMAIN f : f[i].path = p
      OBVIOUS
    <3>2. LinesOf(f, p) # {}
      BY <3>1 DEF Stored, View
    <3>3. QED
      BY <3>2 DEF LinesOf
  <2>3. Stored(f) \subseteq {f[i].path : i \in DOMAIN f}
    BY <2>2
  <2>4. IsFiniteSet({f[i].path : i \in DOMAIN f})
    <3> DEFINE D == DOMAIN f
               R == {f[i].path : i \in D}
               g == [i \in D |-> f[i].path]
    <3>1. g \in Surjection(D, R)
      BY DEF Surjection
    <3>2. IsFiniteSet(D)
      BY <2>1
    <3> HIDE DEF D, R, g
    <3>3. IsFiniteSet(R)
      BY <3>1, <3>2, FS_Surjection
    <3>4. QED
      BY <3>3 DEF R, D
  <2>5. QED
    BY <2>3, <2>4, FS_Subset, FS_CardinalityType
<1>3. ord \in [1 .. n -> Stored(f)]
  BY DEF ByAge
<1>4. body \in Seq(Entry) /\ Len(body) = n
  /\ \A i \in 1 .. n : body[i] = [path |-> ord[i], rec |-> View(f)[ord[i]]]
  <2>1. \A i \in 1 .. n : ord[i] \in Paths /\ View(f)[ord[i]] \in Record \cup {Null}
    BY <1>1, <1>3 DEF Stored
  <2>2. body = [i \in 1 .. n |-> [path |-> ord[i], rec |-> View(f)[ord[i]]]]
    BY <1>3 DEF Compacted
  <2>3. \A i \in 1 .. n : body[i] \in Entry
    BY <2>1, <2>2 DEF Entry
  <2> HIDE DEF body, n
  <2>4. body = [i \in 1 .. n |-> body[i]]
    BY <2>2
  <2>5. QED
    BY <1>2, <2>2, <2>3, <2>4, IsASeq
<1>5. QED
  BY <1>2, <1>3, <1>4

\* What a compaction keeps is a sequence of entries of the dump it read.
LEMMA KeptType ==
  ASSUME NEW f \in Dump, NEW ord \in ByAge(f), NEW max,
         NEW kept \in Kept(Compacted(f, ord), max)
  PROVE  /\ kept \in Seq(Entry)
         /\ \A p \in Paths : View(kept)[p] \in {View(f)[p], Null}
         /\ Fits(kept, max)
<1> DEFINE body == Compacted(f, ord)
           n == Cardinality(Stored(f))
<1>1. n \in Nat
  BY CompactedIs
<1>2. body \in Seq(Entry) /\ Len(body) = n
  /\ \A i \in 1 .. n : body[i] = [path |-> ord[i], rec |-> View(f)[ord[i]]]
  BY CompactedIs
<1> HIDE DEF body, n
<1>3. PICK k \in 1 .. Len(body) :
        /\ kept = SubSeq(body, k, Len(body))
        /\ Bytes(SubSeq(body, k, Len(body))) <= max \/ k = Len(body)
  BY DEF Kept, body
<1>4. /\ kept \in Seq(Entry) /\ Len(kept) = Len(body) - k + 1
      /\ \A i \in 1 .. Len(kept) : kept[i] = body[k + i - 1]
  BY <1>1, <1>2, <1>3
<1>5. ASSUME NEW p \in Paths PROVE View(kept)[p] \in {View(f)[p], Null}
  <2>1. CASE LinesOf(kept, p) = {}
    BY <2>1 DEF View
  <2>2. CASE LinesOf(kept, p) # {}
    <3>1. PICK i \in LinesOf(kept, p) : i = Max(LinesOf(kept, p))
      <4>1. kept \in Dump
        BY <1>4 DEF Dump
      <4>2. QED
        BY <2>2, <4>1, LastLine
    <3>2. i \in 1 .. Len(kept) /\ kept[i].path = p
      BY <1>4 DEF LinesOf
    <3>3. k + i - 1 \in 1 .. n
      BY <1>1, <1>2, <1>4, <3>2
    <3>4. kept[i] = [path |-> ord[k + i - 1], rec |-> View(f)[ord[k + i - 1]]]
      BY <1>2, <1>4, <3>2, <3>3
    <3>5. kept[i].rec = View(f)[p]
      BY <3>2, <3>4
    <3>6. QED
      BY <2>2, <3>1, <3>5 DEF View
  <2>3. QED
    BY <2>1, <2>2
<1>6. QED
  BY <1>2, <1>3, <1>4, <1>5 DEF Fits

\* Nothing that a compaction drops is newer than anything it keeps.
LEMMA KeptNewest ==
  ASSUME NEW f \in Dump, NEW ord \in ByAge(f), NEW max,
         NEW kept \in Kept(Compacted(f, ord), max)
  PROVE  /\ \A p \in Stored(kept) : View(kept)[p] = View(f)[p]
         /\ \A p \in Stored(kept), q \in Stored(f) \ Stored(kept) : View(f)[q].at <= View(f)[p].at
<1> DEFINE body == Compacted(f, ord)
           n == Cardinality(Stored(f))
<1>1. /\ IsFiniteSet(Stored(f)) /\ n \in Nat /\ ord \in [1 .. n -> Stored(f)]
      /\ body \in Seq(Entry) /\ Len(body) = n
      /\ \A i \in 1 .. n : body[i] = [path |-> ord[i], rec |-> View(f)[ord[i]]]
  BY CompactedIs
<1>2. \A i, j \in 1 .. n : i < j => ord[i] # ord[j] /\ View(f)[ord[i]].at <= View(f)[ord[j]].at
  BY DEF ByAge
<1> HIDE DEF body, n
<1>3. PICK k \in 1 .. n : kept = SubSeq(body, k, n)
  BY <1>1 DEF Kept, body
<1>4. /\ kept \in Seq(Entry) /\ Len(kept) = n - k + 1
      /\ \A i \in 1 .. Len(kept) : kept[i] = body[k + i - 1]
  BY <1>1, <1>3
<1>5. \A p \in Stored(kept) : View(kept)[p] = View(f)[p]
  BY KeptType DEF Stored
<1>6. ASSUME NEW p \in Stored(kept) PROVE \E i \in k .. n : ord[i] = p
  <2>1. LinesOf(kept, p) # {}
    BY DEF Stored, View
  <2>2. PICK i \in 1 .. Len(kept) : kept[i].path = p
    BY <1>4, <2>1 DEF LinesOf
  <2>3. k + i - 1 \in k .. n /\ k + i - 1 \in 1 .. n
    BY <1>1, <1>4, <2>2
  <2>4. ord[k + i - 1] = p
    BY <1>1, <1>4, <2>2, <2>3
  <2>5. QED
    BY <2>3, <2>4
<1>7. ASSUME NEW i \in k .. n PROVE ord[i] \in Stored(kept)
  <2> DEFINE p == ord[i]
             j == i - k + 1
  <2>1. i \in 1 .. n /\ j \in 1 .. Len(kept) /\ k + j - 1 = i
    BY <1>1, <1>4
  <2>2. p \in Stored(f)
    BY <1>1, <2>1
  <2>3. kept[j] = [path |-> p, rec |-> View(f)[p]]
    BY <1>1, <1>4, <2>1
  <2> HIDE DEF p
  <2>4. p \in Paths /\ View(f)[p] # Null
    BY <2>2 DEF Stored
  <2>5. kept \in Dump /\ j \in DOMAIN kept /\ kept[j] # Junk
    <3>1. kept[j] \in Entry
      BY <1>4, <2>1
    <3>2. QED
      BY <1>4, <2>1, <3>1, StoreAssumption DEF Dump
  <2>6. j \in LinesOf(kept, p)
    BY <2>3, <2>5 DEF LinesOf
  <2> DEFINE last == Max(LinesOf(kept, p))
  <2>7. last \in LinesOf(kept, p)
    BY <2>5, <2>6, LastLine
  <2> HIDE DEF last
  <2>8. last \in 1 .. Len(kept) /\ kept[last].path = p
    BY <1>4, <2>7 DEF LinesOf
  <2>9. k + last - 1 \in 1 .. n
    BY <1>1, <1>4, <2>8
  <2>10. kept[last] = [path |-> ord[k + last - 1], rec |-> View(f)[ord[k + last - 1]]]
    BY <1>1, <1>4, <2>8, <2>9
  <2>11. kept[last].rec = View(f)[p]
    BY <2>8, <2>10
  <2>12. View(kept)[p] = View(f)[p]
    BY <2>4, <2>6, <2>11 DEF View, last
  <2>13. QED
    BY <2>4, <2>12 DEF Stored, p
<1>8. \A q \in Stored(f) : \E j \in 1 .. n : ord[j] = q
  <2>1. \A i, j \in 1 .. n : ord[i] = ord[j] => i = j
    <3>1. n \in Nat
      BY <1>1
    <3>2. QED
      BY <1>2, <3>1
  <2>2. ord \in Injection(1 .. n, Stored(f))
    <3>1. IsInjective(ord)
      BY <1>1, <2>1 DEF IsInjective
    <3>2. QED
      BY <1>1, <3>1 DEF Injection
  <2>3. Cardinality(1 .. n) = n
    <3>1. n \in Nat
      BY <1>1
    <3>2. Cardinality(1 .. n) = IF 1 > n THEN 0 ELSE n - 1 + 1
      BY <3>1, FS_Interval
    <3>3. QED
      BY <3>1, <3>2
  <2>4. ord \in Surjection(1 .. n, Stored(f))
    BY <1>1, <2>2, <2>3, FS_Injection DEF n
  <2>5. QED
    BY <2>4 DEF Surjection
<1>9. ASSUME NEW p \in Stored(kept), NEW q \in Stored(f) \ Stored(kept)
      PROVE  View(f)[q].at <= View(f)[p].at
  <2>1. PICK i \in k .. n : ord[i] = p
    BY <1>6
  <2>2. PICK j \in 1 .. n : ord[j] = q
    BY <1>8
  <2>3. j \notin k .. n
    BY <1>7, <2>2
  <2>4. i \in 1 .. n /\ j < i
    BY <1>1, <2>1, <2>2, <2>3
  <2>5. QED
    BY <1>2, <2>1, <2>2, <2>4
<1>10. QED
  BY <1>5, <1>9

-----------------------------------------------------------------------------
(* The steps that leave the dump and its history alone.                    *)

Quiet == UNCHANGED <<lines, open, want, lost>>

\* When the dump does not change, a compaction that has not just been staged
\* stays faithful as long as it is told of nothing less than before.
LEMMA QuietStep ==
  ASSUME IInv, Quiet,
         \A t \in Sessions : pc'[t] = "staged" =>
            /\ pc[t] = "staged" /\ staged'[t] = staged[t]
            /\ since[t] = since'[t] /\ op'[t] = op[t]
  PROVE  StagedInv' /\ LostOnlyInKnownWindows' /\ StagedFits'
<1>1. View(lines') = View(lines)
  BY DEF Quiet
<1>2. LostOnlyInKnownWindows'
  BY <1>1 DEF Quiet, IInv, LostOnlyInKnownWindows
<1>3. StagedInv'
  BY <1>1 DEF IInv, StagedInv
<1>4. StagedFits'
  BY DEF IInv, StagedFits
<1>5. QED
  BY <1>2, <1>3, <1>4

\* A call that returns leaves every local at its type.
LEMMA ReturnTypes ==
  ASSUME TypeOK, CallInv, NEW s \in Sessions, Return(s)
  PROVE  /\ pc' \in [Sessions -> PCs]
         /\ op' \in [Sessions -> Entry \cup {Null}]
         /\ saw' \in [Sessions -> BOOLEAN]
         /\ staged' \in [Sessions -> Seq(Entry)]
         /\ tries' \in [Sessions -> 0 .. RenameAttempts - 1]
         /\ CallInv'
         /\ pc'[s] = "idle"
         /\ \A t \in Sessions \ {s} : pc'[t] = pc[t] /\ op'[t] = op[t]
                                      /\ staged'[t] = staged[t]
<1> USE DEF Return, Goto, TypeOK, PCs
<1>1. staged' \in [Sessions -> Seq(Entry)]
  <2>1. <<>> \in Seq(Entry)
    OBVIOUS
  <2>2. QED
    BY <2>1
<1>2. tries' \in [Sessions -> 0 .. RenameAttempts - 1]
  BY StoreAssumption
<1>3. CallInv'
  BY DEF CallInv
<1>4. QED
  BY <1>1, <1>2, <1>3

\* Opening the dump for a put or a delete keeps the invariant.
LEMMA OpenStep ==
  ASSUME IInv, NEW s \in Sessions, NEW e \in Entry, Open(s, e), clock' \in Nat
  PROVE  IInv'
<1> USE DEF IInv
<1>1. TypeOK'
  BY StoreAssumption DEF Open, Goto, TypeOK, PCs, FDs, file, history
<1>2. CallInv' /\ TailInv'
  BY DEF Open, Goto, TypeOK, CallInv, TailInv, file
<1>3. Quiet /\ \A t \in Sessions : pc'[t] = "staged" =>
            /\ pc[t] = "staged" /\ staged'[t] = staged[t]
            /\ since[t] = since'[t] /\ op'[t] = op[t]
  BY DEF Open, Goto, TypeOK, Quiet, file, history
<1>4. QED
  BY <1>1, <1>2, <1>3, QuietStep

\* So does calling put ...
LEMMA PutStep == ASSUME IInv, NEW s \in Sessions, Put(s) PROVE IInv'
<1>1. PICK p \in Paths, n \in Sizes, now \in {clock, clock + 1} :
        clock' = now /\ Open(s, [path |-> p, rec |-> [at |-> now, size |-> n]])
  BY DEF Put
<1>2. now \in Nat
  BY DEF IInv, TypeOK
<1>3. [path |-> p, rec |-> [at |-> now, size |-> n]] \in Entry
  BY <1>2 DEF Entry, Record
<1>4. QED
  BY <1>1, <1>2, <1>3, OpenStep

\* ... and calling delete.
LEMMA DeleteStep == ASSUME IInv, NEW s \in Sessions, Delete(s) PROVE IInv'
<1>1. PICK p \in Paths : Open(s, [path |-> p, rec |-> Null]) /\ UNCHANGED clock
  BY DEF Delete
<1>2. [path |-> p, rec |-> Null] \in Entry
  BY DEF Entry
<1>3. clock' \in Nat
  BY <1>1 DEF IInv, TypeOK
<1>4. QED
  BY <1>1, <1>2, <1>3, OpenStep

\* Every way a call ends without touching the dump.
LEMMA ReturnStep ==
  ASSUME IInv, NEW s \in Sessions, Return(s),
         UNCHANGED <<file, clock, begun, want, lost>>,
         fd' = fd \/ fd' = [fd EXCEPT ![s] = "none"],
         warned' \in [Sessions -> BOOLEAN],
         since' = since \/ since' = [since EXCEPT ![s] = {}],
         unswept' \in BOOLEAN
  PROVE  IInv'
<1> USE DEF IInv
<1>1. /\ pc' \in [Sessions -> PCs]
      /\ op' \in [Sessions -> Entry \cup {Null}]
      /\ saw' \in [Sessions -> BOOLEAN]
      /\ staged' \in [Sessions -> Seq(Entry)]
      /\ tries' \in [Sessions -> 0 .. RenameAttempts - 1]
      /\ CallInv'
      /\ pc'[s] = "idle"
      /\ \A t \in Sessions \ {s} : pc'[t] = pc[t] /\ op'[t] = op[t]
                                   /\ staged'[t] = staged[t]
  BY ReturnTypes
<1>2. TypeOK'
  BY <1>1 DEF TypeOK, FDs, file
<1>3. TailInv'
  BY <1>1 DEF TailInv, TypeOK, file
<1>4. Quiet /\ \A t \in Sessions : pc'[t] = "staged" =>
            /\ pc[t] = "staged" /\ staged'[t] = staged[t]
            /\ since[t] = since'[t] /\ op'[t] = op[t]
  BY <1>1 DEF Quiet, file, TypeOK
<1>5. QED
  BY <1>1, <1>2, <1>3, <1>4, QuietStep

\* An append that throws leaves what readers see, and the session, consistent.
LEMMA AppendFailsStep ==
  ASSUME IInv, NEW s \in Sessions, AppendFails(s) PROVE IInv'
BY ReturnStep DEF AppendFails, EndsUnswept, history, IInv, TypeOK

\* A failed compaction leaves the dump as it is.
LEMMA GiveUpStep == ASSUME IInv, NEW s \in Sessions, GiveUp(s) PROVE IInv'
<1>1. warned' \in [Sessions -> BOOLEAN] /\ unswept' \in BOOLEAN
  BY DEF GiveUp, EndsUnswept, IInv, TypeOK
<1>2. QED
  BY <1>1, ReturnStep DEF GiveUp

\* A session may be killed anywhere.
LEMMA CrashStep == ASSUME IInv, NEW s \in Sessions, Crash(s) PROVE IInv'
<1>1. warned' \in [Sessions -> BOOLEAN] /\ unswept' \in BOOLEAN
  BY DEF Crash, EndsUnswept, IInv, TypeOK
<1>2. QED
  BY <1>1, ReturnStep DEF Crash

\* Looking at the size of the dump changes none of it.
LEMMA StatStep == ASSUME IInv, NEW s \in Sessions, Stat(s) PROVE IInv'
<1> USE DEF IInv
<1>1. CASE ~WithinBudget(s)
  <2>1. TypeOK'
    BY <1>1 DEF Stat, Goto, TypeOK, PCs, file, history
  <2>2. CallInv' /\ TailInv'
    BY <1>1 DEF Stat, Goto, TypeOK, CallInv, TailInv, file
  <2>3. Quiet /\ \A t \in Sessions : pc'[t] = "staged" =>
            /\ pc[t] = "staged" /\ staged'[t] = staged[t]
            /\ since[t] = since'[t] /\ op'[t] = op[t]
    BY <1>1 DEF Stat, Goto, TypeOK, Quiet, file, history
  <2>4. QED
    BY <2>1, <2>2, <2>3, QuietStep
<1>2. CASE WithinBudget(s)
  <2>1. Return(s) /\ UNCHANGED <<file, clock, begun, fd, warned, history>> /\ unswept' \in BOOLEAN
    BY <1>2 DEF Stat
  <2>2. QED
    BY <2>1, ReturnStep DEF history, TypeOK
<1>3. QED
  BY <1>1, <1>2

\* So does failing to.
LEMMA StatFailsStep == ASSUME IInv, NEW s \in Sessions, StatFails(s) PROVE IInv'
BY ReturnStep DEF StatFails, EndsUnswept, history, IInv, TypeOK

\* A locked rename with attempts left stays within the attempts.
LEMMA RenameRetriesStep ==
  ASSUME IInv, NEW s \in Sessions, RenameRetries(s) PROVE IInv'
<1> USE DEF IInv
<1>1. TypeOK'
  <2>1. tries[s] \in 0 .. RenameAttempts - 1 /\ tries[s] + 1 < RenameAttempts
    BY DEF RenameRetries, TypeOK
  <2>2. tries[s] + 1 \in 0 .. RenameAttempts - 1
    BY <2>1, StoreAssumption
  <2>3. tries' \in [Sessions -> 0 .. RenameAttempts - 1]
    BY <2>2 DEF RenameRetries, TypeOK
  <2>4. QED
    BY <2>3 DEF RenameRetries, TypeOK, file, history
<1>2. CallInv' /\ TailInv'
  BY DEF RenameRetries, CallInv, TailInv, file
<1>3. Quiet /\ \A t \in Sessions : pc'[t] = "staged" =>
            /\ pc[t] = "staged" /\ staged'[t] = staged[t]
            /\ since[t] = since'[t] /\ op'[t] = op[t]
  BY DEF RenameRetries, Quiet, file, history
<1>4. QED
  BY <1>1, <1>2, <1>3, QuietStep

-----------------------------------------------------------------------------
(* Compaction.                                                             *)

\* A staged dump that fits and agrees with the dump it was read from keeps
\* the invariant.
LEMMA StageStep ==
  ASSUME IInv, NEW s \in Sessions, NEW body \in Seq(Entry), pc[s] = "over",
         \A p \in Paths : View(body)[p] \in {View(lines)[p], Null},
         Fits(body, Budget(op[s])),
         Stage(s, body)
  PROVE  IInv'
<1> USE DEF IInv
<1>1. /\ pc' = [pc EXCEPT ![s] = "staged"]
      /\ staged' = [staged EXCEPT ![s] = body]
      /\ UNCHANGED <<lines, open, clock, begun, op, saw, fd, tries, warned,
                     want, lost, since, unswept>>
  BY DEF Stage, Goto, file, history
<1>2. TypeOK'
  BY <1>1 DEF TypeOK, PCs
<1>3. CallInv' /\ TailInv'
  BY <1>1 DEF TypeOK, CallInv, TailInv
<1>4. View(lines') = View(lines)
  BY <1>1
<1>5. StagedInv'
  <2>1. SUFFICES ASSUME NEW t \in Sessions, pc'[t] = "staged",
                        NEW p \in Paths \ since'[t]
                 PROVE  View(staged'[t])[p] \in {View(lines')[p], Null}
    BY DEF StagedInv
  <2>2. CASE t = s
    <3>1. staged'[t] = body
      BY <1>1, <2>2 DEF TypeOK
    <3>2. QED
      BY <1>4, <3>1
  <2>3. CASE t # s
    <3>1. pc[t] = "staged" /\ staged'[t] = staged[t] /\ since'[t] = since[t]
      BY <1>1, <2>1, <2>3 DEF TypeOK
    <3>2. QED
      BY <1>4, <3>1 DEF StagedInv
  <2>4. QED
    BY <2>2, <2>3
<1>6. LostOnlyInKnownWindows'
  BY <1>1, <1>4 DEF LostOnlyInKnownWindows
<1>7. StagedFits'
  BY <1>1 DEF StagedFits, TypeOK
<1>8. QED
  BY <1>2, <1>3, <1>5, <1>6, <1>7

\* An empty dump has no record of any path.
LEMMA EmptyView == ASSUME NEW p \in Paths PROVE View(<<>>)[p] = Null
<1>1. LinesOf(<<>>, p) = {}
  BY DEF LinesOf
<1>2. QED
  BY <1>1 DEF View

\* What evictOversize stages agrees with the dump it read and fits the budget.
LEMMA EvictStep ==
  ASSUME IInv, NEW s \in Sessions, Evict(s) \/ EvictUnreadable(s)
  PROVE  IInv'
<1>1. pc[s] = "over"
  BY DEF Evict, EvictUnreadable
<1>2. CASE Stage(s, <<>>)
  <2>1. <<>> \in Seq(Entry) /\ Fits(<<>>, Budget(op[s]))
    BY DEF Fits
  <2>2. \A p \in Paths : View(<<>>)[p] \in {View(lines)[p], Null}
    BY EmptyView
  <2>3. QED
    BY <1>1, <1>2, <2>1, <2>2, StageStep
<1>3. CASE \E ord \in ByAge(lines) :
             \E kept \in Kept(Compacted(lines, ord), Budget(op[s])) : Stage(s, kept)
  <2>0. PICK ord \in ByAge(lines) :
          \E kept \in Kept(Compacted(lines, ord), Budget(op[s])) : Stage(s, kept)
    BY <1>3
  <2>1. PICK kept \in Kept(Compacted(lines, ord), Budget(op[s])) : Stage(s, kept)
    BY <2>0
  <2>2. lines \in Dump
    BY DEF IInv, TypeOK, Dump
  <2>3. /\ kept \in Seq(Entry)
        /\ \A p \in Paths : View(kept)[p] \in {View(lines)[p], Null}
        /\ Fits(kept, Budget(op[s]))
    BY <2>2, KeptType
  <2>4. QED
    BY <1>1, <2>1, <2>3, StageStep
<1>4. QED
  BY <1>2, <1>3 DEF Evict, EvictUnreadable

\* Installing what was staged loses nothing but what it evicts and what changed since
\* the re-read.
LEMMA RenameStep == ASSUME IInv, NEW s \in Sessions, Rename(s) PROVE IInv'
<1> USE DEF IInv
<1>1. /\ pc[s] = "staged" /\ lines' = staged[s] /\ open' = FALSE
      /\ fd' = [t \in Sessions |-> IF fd[t] = "none" THEN "none" ELSE "stale"]
      /\ warned' = [warned EXCEPT ![s] = FALSE]
      /\ lost' = lost \cup since[s]
      /\ want' = [p \in Paths |->
                    IF p \in since[s] \/ View(staged[s])[p] # Null
                    THEN want[p] ELSE Null]
      /\ since' = [Missed({p \in Paths : View(staged[s])[p] # View(lines)[p]})
                     EXCEPT ![s] = {}]
      /\ UNCHANGED <<clock, begun>> /\ Return(s) /\ unswept' = FALSE
  BY DEF Rename
<1>2. /\ pc' \in [Sessions -> PCs]
      /\ op' \in [Sessions -> Entry \cup {Null}]
      /\ saw' \in [Sessions -> BOOLEAN]
      /\ staged' \in [Sessions -> Seq(Entry)]
      /\ tries' \in [Sessions -> 0 .. RenameAttempts - 1]
      /\ CallInv'
      /\ pc'[s] = "idle"
      /\ \A t \in Sessions \ {s} : pc'[t] = pc[t] /\ op'[t] = op[t]
                                   /\ staged'[t] = staged[t]
  BY <1>1, ReturnTypes
<1>3. lines' \in Seq(Entry \cup {Junk})
  BY <1>1 DEF TypeOK
<1>4. since' \in [Sessions -> SUBSET Paths]
  BY <1>1 DEF Missed, TypeOK
<1>5. TypeOK'
  BY <1>1, <1>2, <1>3, <1>4 DEF TypeOK, FDs
<1>6. TailInv'
  BY <1>1 DEF TailInv, TypeOK
<1>7. StagedInv'
  <2>1. SUFFICES ASSUME NEW t \in Sessions, pc'[t] = "staged",
                        NEW p \in Paths \ since'[t]
                 PROVE  View(staged'[t])[p] \in {View(lines')[p], Null}
    BY DEF StagedInv
  <2>2. t # s /\ pc[t] = "staged" /\ staged'[t] = staged[t]
    BY <1>2, <2>1
  <2>3. p \notin since[t] /\ View(staged[s])[p] = View(lines)[p]
    BY <1>1, <2>1, <2>2 DEF Missed, TypeOK
  <2>4. View(staged[t])[p] \in {View(lines)[p], Null}
    BY <2>2, <2>3 DEF StagedInv
  <2>5. QED
    BY <1>1, <2>2, <2>3, <2>4
<1>8. LostOnlyInKnownWindows'
  <2>1. SUFFICES ASSUME NEW p \in Paths \ lost' PROVE View(lines')[p] = want'[p]
    BY DEF LostOnlyInKnownWindows
  <2>2. p \notin lost /\ p \notin since[s]
    BY <1>1, <2>1
  <2>3. View(lines)[p] = want[p] /\ View(staged[s])[p] \in {View(lines)[p], Null}
    BY <1>1, <2>1, <2>2 DEF LostOnlyInKnownWindows, StagedInv
  <2>4. QED
    BY <1>1, <2>2, <2>3
<1>9. StagedFits'
  BY <1>2 DEF StagedFits
<1>10. QED
  BY <1>2, <1>5, <1>6, <1>7, <1>8, <1>9

-----------------------------------------------------------------------------
(* Appends.                                                                *)

\* What an append may do to the views and to the history, and what follows.
Effective(s) ==
  /\ TakesEffect(s)
  /\ \A p \in Paths : View(lines')[p] = IF p = op[s].path THEN op[s].rec
                                                          ELSE View(lines)[p]

Ruinous(s, paths) ==
  /\ Ruins(paths)
  /\ \A p \in Paths \ paths : View(lines')[p] = View(lines)[p]

Harmless ==
  /\ UNCHANGED history
  /\ \A p \in Paths : View(lines')[p] = View(lines)[p]

\* A complete line of its own does to its path what its operation asks for, and to
\* staged dumps what since records.
LEMMA AppendEffect ==
  ASSUME IInv, NEW s \in Sessions, pc[s] \in {"opened", "torn", "unterminated"},
         UNCHANGED <<op, staged>>,
         \E label \in PCs \ {"staged", "idle"} : Goto(s, label),
         \/ Effective(s)
         \/ \E paths \in SUBSET Paths : Ruinous(s, paths)
         \/ Harmless
  PROVE  /\ want' \in [Paths -> Record \cup {Null}]
         /\ lost' \in SUBSET Paths
         /\ since' \in [Sessions -> SUBSET Paths]
         /\ pc' \in [Sessions -> PCs]
         /\ CallInv' /\ StagedInv'
         /\ LostOnlyInKnownWindows' /\ StagedFits'
<1> USE DEF IInv
<1>1. op[s] \in Entry /\ op[s].path \in Paths /\ op[s].rec \in Record \cup {Null}
  BY DEF CallInv, Entry
<1>2. /\ pc' \in [Sessions -> PCs] /\ CallInv'
      /\ \A t \in Sessions : pc'[t] = "staged" => t # s /\ pc[t] = "staged"
  BY DEF Goto, TypeOK, CallInv
<1>3. StagedFits'
  BY <1>2 DEF StagedFits
<1>4. ASSUME NEW paths \in SUBSET Paths,
             \/ since' = Missed(paths)
             \/ UNCHANGED since /\ paths = {},
             \A p \in Paths \ paths : View(lines')[p] = View(lines)[p]
      PROVE  since' \in [Sessions -> SUBSET Paths] /\ StagedInv'
  <2>1. since' \in [Sessions -> SUBSET Paths]
    BY <1>4 DEF Missed, TypeOK
  <2>2. ASSUME NEW t \in Sessions, pc'[t] = "staged", NEW p \in Paths \ since'[t]
        PROVE  View(staged'[t])[p] \in {View(lines')[p], Null}
    <3>1. pc[t] = "staged"
      BY <1>2, <2>2
    <3>2. p \notin paths /\ p \notin since[t]
      BY <1>4, <2>2, <3>1 DEF Missed
    <3>3. View(staged[t])[p] \in {View(lines)[p], Null}
      BY <3>1, <3>2 DEF StagedInv
    <3>4. QED
      BY <1>4, <3>2, <3>3
  <2>3. QED
    BY <2>1, <2>2 DEF StagedInv
<1>5. CASE Effective(s)
  <2>1. want' \in [Paths -> Record \cup {Null}] /\ lost' \in SUBSET Paths
    BY <1>1, <1>5 DEF Effective, TakesEffect, TypeOK
  <2>2. LostOnlyInKnownWindows'
    BY <1>1, <1>5 DEF Effective, TakesEffect, LostOnlyInKnownWindows, TypeOK
  <2>3. since' = Missed({op[s].path})
    BY <1>5 DEF Effective, TakesEffect
  <2>4. \A p \in Paths \ {op[s].path} : View(lines')[p] = View(lines)[p]
    BY <1>5 DEF Effective
  <2>5. {op[s].path} \in SUBSET Paths
    BY <1>1
  <2>6. since' \in [Sessions -> SUBSET Paths] /\ StagedInv'
    BY <1>4, <2>3, <2>4, <2>5
  <2>7. QED
    BY <1>2, <1>3, <2>1, <2>2, <2>6
<1>6. CASE \E paths \in SUBSET Paths : Ruinous(s, paths)
  <2>1. PICK paths \in SUBSET Paths : Ruinous(s, paths)
    BY <1>6
  <2>2. want' \in [Paths -> Record \cup {Null}] /\ lost' \in SUBSET Paths
    BY <2>1 DEF Ruinous, Ruins, TypeOK
  <2>3. LostOnlyInKnownWindows'
    BY <2>1 DEF Ruinous, Ruins, LostOnlyInKnownWindows
  <2>4. since' \in [Sessions -> SUBSET Paths] /\ StagedInv'
    BY <1>4, <2>1 DEF Ruinous, Ruins
  <2>5. QED
    BY <1>2, <1>3, <2>2, <2>3, <2>4
<1>7. CASE Harmless
  <2>1. want' \in [Paths -> Record \cup {Null}] /\ lost' \in SUBSET Paths
    BY <1>7 DEF Harmless, history, TypeOK
  <2>2. LostOnlyInKnownWindows'
    BY <1>7 DEF Harmless, history, LostOnlyInKnownWindows
  <2>3. UNCHANGED since /\ \A p \in Paths \ {} : View(lines')[p] = View(lines)[p]
    BY <1>7 DEF Harmless, history
  <2>4. since' \in [Sessions -> SUBSET Paths]
    BY <2>3 DEF TypeOK
  <2>5. StagedInv'
    BY <1>2, <1>7, <2>3 DEF Harmless, StagedInv
  <2>6. QED
    BY <1>2, <1>3, <2>1, <2>2, <2>4, <2>5
<1>8. QED
  BY <1>5, <1>6, <1>7

\* The dump after s has extended it with l.
LEMMA ExtendedView ==
  ASSUME IInv, NEW s \in Sessions, op[s] \in Entry, NEW l \in {op[s], Junk}
  PROVE  /\ Extended(s, l) \in Dump
         /\ Extended(s, l) # <<>>
         /\ ~LateTail(s) =>
              /\ Extended(s, l)[Len(Extended(s, l))] = l
              /\ \A p \in Paths : View(Extended(s, l))[p] =
                   IF l # Junk /\ p = op[s].path THEN op[s].rec ELSE View(lines)[p]
         /\ LateTail(s) =>
              \A p \in Paths \ TailPath : View(Extended(s, l))[p] = View(lines)[p]
<1> USE DEF IInv
<1>1. lines \in Dump /\ op[s].path \in Paths /\ Junk \notin Entry
  BY StoreAssumption DEF TypeOK, Dump, Entry
<1>2. CASE ~LateTail(s)
  <2>1. Extended(s, l) = Append(lines, l)
    BY <1>2 DEF LateTail, Glues, Separator, Extended
  <2>2. \A p \in Paths : View(Append(lines, l))[p] =
                   IF l # Junk /\ p = op[s].path THEN op[s].rec ELSE View(lines)[p]
    BY <1>1, ViewAppend
  <2>3. /\ Append(lines, l) \in Dump /\ Append(lines, l) # <<>>
        /\ Append(lines, l)[Len(Append(lines, l))] = l
    BY <1>1 DEF Dump
  <2>4. QED
    BY <1>2, <2>1, <2>2, <2>3
<1>3. CASE LateTail(s)
  <2>1. Extended(s, l) = [lines EXCEPT ![Len(lines)] = Junk] /\ lines # <<>> /\ open
    BY <1>3 DEF LateTail, Glues, Separator, Extended, TailInv
  <2>2. [lines EXCEPT ![Len(lines)] = Junk] # <<>>
    BY <1>1, <2>1 DEF Dump
  <2>3. [lines EXCEPT ![Len(lines)] = Junk] \in Dump
    <3>1. Len(lines) \in 1 .. Len(lines)
      BY <1>1, <2>1 DEF Dump
    <3>2. QED
      BY <1>1, <3>1, ExceptSeq DEF Dump
  <2>4. ASSUME NEW p \in Paths \ TailPath
        PROVE  View([lines EXCEPT ![Len(lines)] = Junk])[p] = View(lines)[p]
    <3>1. lines[Len(lines)] = Junk \/ lines[Len(lines)].path # p
      BY <2>1, <2>4 DEF TailPath
    <3>2. QED
      BY <1>1, <2>1, <3>1, ViewReplaceLast
  <2>5. QED
    BY <1>3, <2>1, <2>2, <2>3, <2>4
<1>4. QED
  BY <1>2, <1>3

\* The unterminated tail belongs to a path, or to none.
LEMMA TailPathType ==
  ASSUME TypeOK, TailInv PROVE TailPath \in SUBSET Paths
<1>1. CASE open /\ lines[Len(lines)] # Junk
  <2>1. lines # <<>> /\ lines \in Seq(Entry \cup {Junk})
    BY <1>1 DEF TypeOK, TailInv
  <2>2. lines[Len(lines)] \in Entry
    BY <1>1, <2>1
  <2>3. QED
    BY <1>1, <2>2 DEF TailPath, Entry
<1>2. QED
  BY <1>1 DEF TailPath

\* Writing a whole line keeps the invariant, whatever the descriptor refers to.
LEMMA WriteStep == ASSUME IInv, NEW s \in Sessions, Write(s) PROVE IInv'
<1> USE DEF IInv
<1>1. /\ pc[s] = "opened" /\ Goto(s, "appended")
      /\ UNCHANGED <<clock, begun, op, saw, staged, tries, warned, unswept>>
  BY DEF Write
<1>2. op[s] \in Entry /\ op[s].path \in Paths /\ op[s] # Junk
  BY <1>1, StoreAssumption DEF CallInv, Entry
<1>3. \A t \in Sessions : pc'[t] = "torn" => t # s /\ pc[t] = "torn"
  BY <1>1 DEF Goto, TypeOK
<1>4. /\ lines' \in Seq(Entry \cup {Junk}) /\ open' \in BOOLEAN
      /\ fd' \in [Sessions -> FDs] /\ TailInv'
      /\ \/ Effective(s)
         \/ \E paths \in SUBSET Paths : Ruinous(s, paths)
         \/ Harmless
  <2>1. CASE fd[s] = "stale"
    <3>1. /\ UNCHANGED <<lines, open>> /\ Ruins({op[s].path})
          /\ fd' = [fd EXCEPT ![s] = "none"]
      BY <2>1 DEF Write
    <3>2. Ruinous(s, {op[s].path}) /\ {op[s].path} \in SUBSET Paths
      BY <1>2, <3>1 DEF Ruinous
    <3>3. TailInv'
      BY <1>3, <3>1 DEF TailInv, TypeOK
    <3>4. QED
      BY <3>1, <3>2, <3>3 DEF TypeOK, FDs
  <2>2. CASE fd[s] # "stale"
    <3>1. /\ lines' = Extended(s, op[s]) /\ open' = FALSE /\ Displace(s, "none")
          /\ IF LateTail(s) THEN Ruins(TailPath \cup {op[s].path})
                            ELSE TakesEffect(s)
      BY <2>2 DEF Write
    <3>2. lines' \in Seq(Entry \cup {Junk})
      BY <1>2, <3>1, ExtendedView DEF Dump
    <3>3. fd' \in [Sessions -> FDs] /\ \A t \in Sessions : fd'[t] # "tail"
      BY <3>1 DEF Displace, TypeOK, FDs
    <3>4. TailInv'
      BY <3>1, <3>3 DEF TailInv
    <3>5. CASE LateTail(s)
      <4>1. TailPath \cup {op[s].path} \in SUBSET Paths
        BY <1>2, TailPathType
      <4>2. Ruinous(s, TailPath \cup {op[s].path})
        BY <1>2, <3>1, <3>5, ExtendedView DEF Ruinous
      <4>3. QED
        BY <3>1, <3>2, <3>3, <3>4, <4>1, <4>2
    <3>6. CASE ~LateTail(s)
      <4>1. Effective(s)
        BY <1>2, <3>1, <3>6, ExtendedView DEF Effective
      <4>2. QED
        BY <3>1, <3>2, <3>3, <3>4, <4>1
    <3>7. QED
      BY <3>5, <3>6
  <2>3. QED
    BY <2>1, <2>2
<1>5. \E label \in PCs \ {"staged", "idle"} : Goto(s, label)
  BY <1>1 DEF PCs
<1>6. /\ want' \in [Paths -> Record \cup {Null}]
      /\ lost' \in SUBSET Paths
      /\ since' \in [Sessions -> SUBSET Paths]
      /\ pc' \in [Sessions -> PCs]
      /\ CallInv' /\ StagedInv'
      /\ LostOnlyInKnownWindows' /\ StagedFits'
  BY <1>1, <1>4, <1>5, AppendEffect
<1>7. TypeOK'
  BY <1>1, <1>4, <1>6 DEF TypeOK
<1>8. QED
  BY <1>4, <1>6, <1>7

\* A short write extends the dump with a torn line, or with a whole one that
\* lacks its newline.
LEMMA ShortWriteStep ==
  ASSUME IInv, NEW s \in Sessions, NEW label \in {"torn", "unterminated"},
         ShortWrite(s, label)
  PROVE  IInv'
<1> USE DEF IInv
<1> DEFINE l == IF label = "torn" THEN Junk ELSE op[s]
<1>1. /\ pc[s] = "opened" /\ Goto(s, label)
      /\ UNCHANGED <<clock, begun, op, saw, staged, tries, warned, unswept>>
  BY DEF ShortWrite
<1>2. op[s] \in Entry /\ op[s].path \in Paths /\ op[s] # Junk
  BY <1>1, StoreAssumption DEF CallInv, Entry
<1>3. \A t \in Sessions \ {s} : pc'[t] = pc[t]
  BY <1>1 DEF Goto, TypeOK
<1>4. l \in {op[s], Junk} /\ (l = Junk <=> label = "torn") /\ pc'[s] = label
  BY <1>1, <1>2 DEF Goto, TypeOK
<1>5. /\ lines' \in Seq(Entry \cup {Junk}) /\ open' \in BOOLEAN
      /\ fd' \in [Sessions -> FDs] /\ TailInv'
      /\ \/ Effective(s)
         \/ \E paths \in SUBSET Paths : Ruinous(s, paths)
         \/ Harmless
  <2>1. CASE fd[s] = "stale"
    <3>1. /\ UNCHANGED <<lines, open, fd>>
          /\ IF l = Junk THEN UNCHANGED history ELSE Ruins({op[s].path})
      BY <2>1 DEF ShortWrite
    <3>2. TailInv'
      BY <1>3, <2>1, <3>1 DEF TailInv, TypeOK
    <3>3. Harmless \/ \E paths \in SUBSET Paths : Ruinous(s, paths)
      <4>1. {op[s].path} \in SUBSET Paths
        BY <1>2
      <4>2. QED
        BY <3>1, <4>1 DEF Harmless, Ruinous
    <3>4. QED
      BY <3>1, <3>2, <3>3 DEF TypeOK
  <2>2. CASE fd[s] # "stale"
    <3>1. /\ lines' = Extended(s, l) /\ open' = TRUE
          /\ Displace(s, IF Glues(s) THEN "live" ELSE "tail")
          /\ IF LateTail(s) THEN Ruins(TailPath \cup {op[s].path})
             ELSE IF l = Junk THEN UNCHANGED history
             ELSE TakesEffect(s)
      BY <2>2 DEF ShortWrite
    <3> HIDE DEF l
    <3>2. /\ lines' \in Seq(Entry \cup {Junk}) /\ lines' # <<>>
          /\ ~LateTail(s) =>
               /\ lines'[Len(lines')] = l
               /\ \A p \in Paths : View(lines')[p] =
                    IF l # Junk /\ p = op[s].path THEN op[s].rec ELSE View(lines)[p]
          /\ LateTail(s) =>
               \A p \in Paths \ TailPath : View(lines')[p] = View(lines)[p]
      BY <1>2, <1>4, <3>1, ExtendedView DEF Dump
    <3>3. /\ fd' \in [Sessions -> FDs]
          /\ \A t \in Sessions : fd'[t] = "tail" => t = s /\ ~LateTail(s)
      BY <3>1 DEF Displace, TypeOK, FDs, Glues, LateTail, Separator
    <3>4. TailInv'
      BY <1>4, <3>1, <3>2, <3>3 DEF TailInv
    <3>5. CASE LateTail(s)
      <4>1. TailPath \cup {op[s].path} \in SUBSET Paths
        BY <1>2, TailPathType
      <4>2. Ruinous(s, TailPath \cup {op[s].path})
        BY <1>2, <3>1, <3>2, <3>5 DEF Ruinous
      <4>3. QED
        BY <3>1, <3>2, <3>3, <3>4, <4>1, <4>2
    <3>6. CASE ~LateTail(s) /\ l = Junk
      <4>1. Harmless
        BY <3>1, <3>2, <3>6 DEF Harmless
      <4>2. QED
        BY <3>1, <3>2, <3>3, <3>4, <4>1
    <3>7. CASE ~LateTail(s) /\ l # Junk
      <4>1. Effective(s)
        BY <1>4, <3>1, <3>2, <3>7 DEF Effective
      <4>2. QED
        BY <3>1, <3>2, <3>3, <3>4, <4>1
    <3>8. QED
      BY <3>5, <3>6, <3>7
  <2>3. QED
    BY <2>1, <2>2
<1>6. \E lab \in PCs \ {"staged", "idle"} : Goto(s, lab)
  BY <1>1 DEF PCs
<1>7. /\ want' \in [Paths -> Record \cup {Null}]
      /\ lost' \in SUBSET Paths
      /\ since' \in [Sessions -> SUBSET Paths]
      /\ pc' \in [Sessions -> PCs]
      /\ CallInv' /\ StagedInv'
      /\ LostOnlyInKnownWindows' /\ StagedFits'
  BY <1>1, <1>5, <1>6, AppendEffect
<1>8. TypeOK'
  BY <1>1, <1>5, <1>7 DEF TypeOK
<1>9. QED
  BY <1>5, <1>7, <1>8

\* So does writing the rest of one, behind whatever came in between.
LEMMA WriteRestStep == ASSUME IInv, NEW s \in Sessions, WriteRest(s) PROVE IInv'
<1> USE DEF IInv
<1>1. /\ pc[s] \in {"torn", "unterminated"} /\ Goto(s, "appended")
      /\ UNCHANGED <<clock, begun, op, saw, staged, tries, warned, unswept>>
  BY DEF WriteRest
<1>2. op[s] \in Entry /\ op[s].path \in Paths /\ op[s] # Junk
  BY <1>1, StoreAssumption DEF CallInv, Entry
<1>3. \A t \in Sessions : pc'[t] = "torn" => t # s /\ pc[t] = "torn"
  BY <1>1 DEF Goto, TypeOK
<1>4. lines \in Dump
  BY DEF TypeOK, Dump
<1>5. /\ lines' \in Seq(Entry \cup {Junk}) /\ open' \in BOOLEAN
      /\ fd' \in [Sessions -> FDs] /\ TailInv'
      /\ \/ Effective(s)
         \/ \E paths \in SUBSET Paths : Ruinous(s, paths)
         \/ Harmless
  <2>1. CASE fd[s] = "stale"
    <3>1. /\ UNCHANGED <<lines, open>>
          /\ fd' = [fd EXCEPT ![s] = "none"]
          /\ IF pc[s] = "torn" THEN Ruins({op[s].path}) ELSE UNCHANGED history
      BY <2>1 DEF WriteRest
    <3>2. TailInv'
      BY <1>3, <3>1 DEF TailInv, TypeOK
    <3>3. Harmless \/ \E paths \in SUBSET Paths : Ruinous(s, paths)
      <4>1. {op[s].path} \in SUBSET Paths
        BY <1>2
      <4>2. QED
        BY <3>1, <4>1 DEF Harmless, Ruinous
    <3>4. QED
      BY <3>1, <3>2, <3>3 DEF TypeOK, FDs
  <2>2. CASE fd[s] # "stale"
    <3>1. open' = FALSE /\ Displace(s, "none")
      BY <2>2 DEF WriteRest
    <3>2. fd' \in [Sessions -> FDs] /\ \A t \in Sessions : fd'[t] # "tail"
      BY <3>1 DEF Displace, TypeOK, FDs
    <3>3. TailInv'
      BY <3>1, <3>2 DEF TailInv
    <3>4. CASE pc[s] = "unterminated"
      <4>1. UNCHANGED <<lines, history>>
        BY <2>2, <3>4 DEF WriteRest
      <4>2. QED
        BY <3>1, <3>2, <3>3, <4>1 DEF Harmless, TypeOK
    <3>5. CASE pc[s] = "torn" /\ fd[s] = "tail"
      <4>1. lines' = [lines EXCEPT ![Len(lines)] = op[s]] /\ TakesEffect(s)
        BY <3>5 DEF WriteRest
      <4>2. open /\ lines # <<>> /\ lines[Len(lines)] = Junk
        BY <3>5 DEF TailInv
      <4>3. \A p \in Paths :
              View([lines EXCEPT ![Len(lines)] = op[s]])[p] =
                IF p = op[s].path THEN op[s].rec ELSE View(lines)[p]
        BY <1>2, <1>4, <4>2, ViewReplaceLast
      <4>4. lines' \in Seq(Entry \cup {Junk})
        <5>1. Len(lines) \in 1 .. Len(lines)
          BY <1>4, <4>2 DEF Dump
        <5>2. QED
          BY <1>2, <1>4, <4>1, <5>1, ExceptSeq DEF Dump
      <4>5. Effective(s)
        BY <4>1, <4>3 DEF Effective
      <4>6. QED
        BY <3>1, <3>2, <3>3, <4>4, <4>5
    <3>6. CASE pc[s] = "torn" /\ fd[s] # "tail"
      <4>1. /\ lines' = IF open THEN [lines EXCEPT ![Len(lines)] = Junk]
                                ELSE Append(lines, Junk)
            /\ Ruins(TailPath \cup {op[s].path})
        BY <2>2, <3>6 DEF WriteRest
      <4>2. TailPath \cup {op[s].path} \in SUBSET Paths
        BY <1>2, TailPathType
      <4>3. /\ lines' \in Seq(Entry \cup {Junk})
            /\ \A p \in Paths \ TailPath : View(lines')[p] = View(lines)[p]
        <5>1. CASE open
          <6>1. lines # <<>>
            BY <5>1 DEF TailInv
          <6>2. Len(lines) \in 1 .. Len(lines)
            BY <1>4, <6>1 DEF Dump
          <6>3. lines' \in Seq(Entry \cup {Junk})
            BY <1>4, <4>1, <5>1, <6>2, ExceptSeq DEF Dump
          <6>4. ASSUME NEW p \in Paths \ TailPath
                PROVE  View(lines')[p] = View(lines)[p]
            <7>1. lines[Len(lines)] = Junk \/ lines[Len(lines)].path # p
              BY <5>1, <6>4 DEF TailPath
            <7>2. QED
              BY <1>4, <4>1, <5>1, <6>1, <7>1, ViewReplaceLast
          <6>5. QED
            BY <6>3, <6>4
        <5>2. CASE ~open
          <6>1. lines' = Append(lines, Junk)
            BY <4>1, <5>2
          <6>2. \A p \in Paths : View(Append(lines, Junk))[p] = View(lines)[p]
            BY <1>4, ViewAppend
          <6>3. QED
            BY <1>4, <6>1, <6>2 DEF Dump
        <5>3. QED
          BY <5>1, <5>2
      <4>4. Ruinous(s, TailPath \cup {op[s].path})
        BY <4>1, <4>3 DEF Ruinous
      <4>5. QED
        BY <3>1, <3>2, <3>3, <4>2, <4>3, <4>4
    <3>7. QED
      BY <1>1, <3>4, <3>5, <3>6
  <2>3. QED
    BY <2>1, <2>2
<1>6. \E label \in PCs \ {"staged", "idle"} : Goto(s, label)
  BY <1>1 DEF PCs
<1>7. /\ want' \in [Paths -> Record \cup {Null}]
      /\ lost' \in SUBSET Paths
      /\ since' \in [Sessions -> SUBSET Paths]
      /\ pc' \in [Sessions -> PCs]
      /\ CallInv' /\ StagedInv'
      /\ LostOnlyInKnownWindows' /\ StagedFits'
  BY <1>1, <1>5, <1>6, AppendEffect
<1>8. TypeOK'
  BY <1>1, <1>5, <1>7 DEF TypeOK
<1>9. QED
  BY <1>5, <1>7, <1>8

-----------------------------------------------------------------------------
(* The invariant and its consequences.                                     *)

\* The initial dump satisfies the invariant.
LEMMA InitInv == Init => IInv
<1> SUFFICES ASSUME Init PROVE IInv
  OBVIOUS
<1>1. TypeOK /\ CallInv /\ TailInv
  BY TypesInit
<1>2. StagedInv /\ StagedFits
  BY DEF Init, StagedInv, StagedFits
<1>3. LostOnlyInKnownWindows
  BY EmptyView DEF Init, LostOnlyInKnownWindows
<1>4. QED
  BY <1>1, <1>2, <1>3 DEF IInv

\* So does every step of a running put or delete.
LEMMA StepInv == ASSUME IInv, NEW s \in Sessions, Step(s) PROVE IInv'
<1>1. CASE Write(s)
  BY <1>1, WriteStep
<1>2. CASE ShortWrite(s, "torn") \/ ShortWrite(s, "unterminated")
  BY <1>2, ShortWriteStep
<1>3. CASE WriteRest(s)
  BY <1>3, WriteRestStep
<1>4. CASE AppendFails(s)
  BY <1>4, AppendFailsStep
<1>5. CASE Stat(s) \/ StatFails(s)
  BY <1>5, StatStep, StatFailsStep
<1>6. CASE Evict(s) \/ EvictUnreadable(s)
  BY <1>6, EvictStep
<1>7. CASE TmpWriteFails(s) \/ RenameFails(s)
  BY <1>7, GiveUpStep DEF TmpWriteFails, RenameFails
<1>8. CASE Rename(s)
  BY <1>8, RenameStep
<1>9. CASE RenameRetries(s)
  BY <1>9, RenameRetriesStep
<1>10. QED
  BY <1>1, <1>2, <1>3, <1>4, <1>5, <1>6, <1>7, <1>8, <1>9 DEF Step

\* And a step that changes nothing.
LEMMA StutterInv == ASSUME IInv, UNCHANGED vars PROVE IInv'
<1> USE DEF vars
<1>1. TypeOK' /\ CallInv' /\ TailInv'
  BY DEF IInv, TypeOK, CallInv, TailInv
<1>2. StagedInv' /\ LostOnlyInKnownWindows' /\ StagedFits'
  BY QuietStep DEF Quiet
<1>3. QED
  BY <1>1, <1>2 DEF IInv

\* The invariant is inductive.
LEMMA NextInv == IInv /\ [Next]_vars => IInv'
<1> SUFFICES ASSUME IInv, [Next]_vars PROVE IInv'
  OBVIOUS
<1>1. CASE UNCHANGED vars
  BY <1>1, StutterInv
<1>2. ASSUME NEW s \in Sessions, Put(s) \/ Delete(s) \/ Step(s) \/ Crash(s)
      PROVE  IInv'
  BY <1>2, PutStep, DeleteStep, StepInv, CrashStep
<1>3. QED
  BY <1>1, <1>2 DEF Next

\* The invariant the theorems below follow from.
LEMMA InvariantHolds == Spec => []IInv
BY InitInv, NextInv, PTL DEF Spec

\* Every variable of the store keeps its type, for any number of sessions and
\* paths; in particular no rename is ever tried more often than
\* renameWithRetrySync allows.
THEOREM TypeCorrect == Spec => []TypeOK
<1>1. IInv => TypeOK
  BY DEF IInv
<1>2. QED
  BY <1>1, InvariantHolds, PTL

\* A record that put() wrote, or a tombstone that delete() wrote, decides what
\* readAll serves for its path unless one of the four windows of UndoStore hit
\* that path: a rename over what was appended since the re-read, a descriptor
\* opened before a rename, a line behind one that lost its end after the tail
\* check, the rest of a line behind another session's bytes.  Crashes, failed
\* renames and compactions of other sessions lose nothing else.
THEOREM LossBounded == Spec => []LostOnlyInKnownWindows
<1>1. IInv => LostOnlyInKnownWindows
  BY DEF IInv
<1>2. QED
  BY <1>1, InvariantHolds, PTL

\* A dump that fits goes on fitting, when every call that leaves it too large is
\* still to sweep it or has ended without.
LEMMA SweepStep ==
  ASSUME IInv, DumpWithinBudget, [Next]_vars PROVE DumpWithinBudget'
<1> SUFFICES ASSUME ~unswept', \A s \in Sessions : pc'[s] \in {"idle", "opened"}
             PROVE  \E max \in {PutBudget, DeleteBudget} : Fits(lines', max)
  BY DEF DumpWithinBudget, Oversize
<1>1. pc \in [Sessions -> PCs] /\ \A s \in Sessions : Budget(op[s]) \in {PutBudget, DeleteBudget}
  BY DEF IInv, TypeOK, Budget
<1>2. ASSUME NEW s \in Sessions, NEW label, label \notin {"idle", "opened"} PROVE ~Goto(s, label)
  BY <1>1, <1>2 DEF Goto
<1>3. CASE /\ UNCHANGED <<lines, unswept>>
           /\ \A s \in Sessions : pc'[s] = pc[s] \/ pc[s] \in {"idle", "opened"}
  <2>1. ~unswept /\ \A s \in Sessions : pc[s] \in {"idle", "opened"}
    BY <1>3
  <2>2. QED
    BY <1>3, <2>1 DEF DumpWithinBudget, Oversize
<1>4. CASE UNCHANGED vars
  BY <1>3, <1>4 DEF vars
<1>5. CASE UNCHANGED lines /\ EndsUnswept
  BY <1>5 DEF EndsUnswept, Oversize
<1>6. ASSUME NEW s \in Sessions, Put(s) \/ Delete(s) \/ Step(s) \/ Crash(s)
      PROVE  \E max \in {PutBudget, DeleteBudget} : Fits(lines', max)
  <2>1. CASE Put(s) \/ Delete(s)
    BY <1>1, <1>3, <2>1 DEF Put, Delete, Open, Goto, file
  <2>2. CASE \/ Write(s) \/ ShortWrite(s, "torn") \/ ShortWrite(s, "unterminated")
             \/ WriteRest(s) \/ Evict(s) \/ EvictUnreadable(s)
    BY <1>2, <2>2 DEF Write, ShortWrite, WriteRest, Evict, EvictUnreadable, Stage
  <2>3. CASE AppendFails(s)
    <3>1. UNCHANGED lines /\ (EndsUnswept \/ (UNCHANGED unswept /\ pc[s] = "opened"))
      BY <2>3 DEF AppendFails, file
    <3>2. QED
      BY <1>1, <1>3, <1>5, <2>3, <3>1 DEF AppendFails, Return, Goto
  <2>4. CASE Stat(s)
    <3>1. WithinBudget(s) /\ UNCHANGED lines
      BY <1>2, <2>4 DEF Stat, file
    <3>2. Fits(lines, Budget(op[s]))
      BY <3>1 DEF WithinBudget, Fits
    <3>3. QED
      BY <1>1, <3>1, <3>2
  <2>5. CASE StatFails(s) \/ TmpWriteFails(s) \/ RenameFails(s)
    BY <1>5, <2>5 DEF StatFails, TmpWriteFails, RenameFails, GiveUp, file
  <2>6. CASE Rename(s)
    <3>1. lines' = staged[s] /\ pc[s] = "staged"
      BY <2>6 DEF Rename
    <3>2. Fits(staged[s], Budget(op[s]))
      BY <3>1 DEF IInv, StagedFits
    <3>3. QED
      BY <1>1, <3>1, <3>2
  <2>7. CASE RenameRetries(s)
    BY <2>7 DEF RenameRetries
  <2>8. CASE Crash(s)
    <3>1. UNCHANGED lines /\ (EndsUnswept \/ (UNCHANGED unswept /\ pc[s] \in {"idle", "opened"}))
      BY <2>8 DEF Crash, file
    <3>2. QED
      BY <1>1, <1>3, <1>5, <2>8, <3>1 DEF Crash, Return, Goto
  <2>9. QED
    BY <1>6, <2>1, <2>2, <2>3, <2>4, <2>5, <2>6, <2>7, <2>8 DEF Step
<1>7. QED
  BY <1>4, <1>6 DEF Next

\* Between calls the dump fits one of the two budgets, or is a single line: each
\* call that makes it larger sweeps it before it returns, whatever other sessions
\* append and install meanwhile, unless it breaks off.
THEOREM BudgetHolds == Spec => []DumpWithinBudget
<1>1. Init => DumpWithinBudget
  BY DEF Init, DumpWithinBudget, Oversize, Fits
<1>2. QED
  BY <1>1, InvariantHolds, SweepStep, PTL DEF Spec

\* Only a compaction's re-read stages a dump.
LEMMA StagingIsEvicting ==
  ASSUME TypeOK, [Next]_vars, NEW s \in Sessions, pc[s] = "over", pc'[s] = "staged"
  PROVE  Evict(s) \/ EvictUnreadable(s)
<1>1. pc \in [Sessions -> PCs]
  BY DEF TypeOK
<1>2. ASSUME NEW t \in Sessions, NEW label, Goto(t, label), t # s \/ label # "staged" PROVE FALSE
  BY <1>1, <1>2 DEF Goto
<1>3. ASSUME NEW t \in Sessions, Return(t) PROVE FALSE
  BY <1>2, <1>3 DEF Return
<1>4. pc' # pc
  OBVIOUS
<1>5. PICK t \in Sessions : Put(t) \/ Delete(t) \/ Step(t) \/ Crash(t)
  BY <1>4 DEF Next, vars
<1>6. CASE Put(t) \/ Delete(t)
  BY <1>2, <1>6 DEF Put, Delete, Open
<1>7. CASE Write(t) \/ ShortWrite(t, "torn") \/ ShortWrite(t, "unterminated") \/ WriteRest(t)
  BY <1>2, <1>7 DEF Write, ShortWrite, WriteRest
<1>8. CASE AppendFails(t) \/ StatFails(t) \/ TmpWriteFails(t) \/ Rename(t) \/ RenameFails(t) \/ Crash(t)
  BY <1>3, <1>8 DEF AppendFails, StatFails, TmpWriteFails, Rename, RenameFails, GiveUp, Crash
<1>9. CASE Stat(t)
  BY <1>2, <1>3, <1>9 DEF Stat
<1>10. CASE RenameRetries(t)
  BY <1>4, <1>10 DEF RenameRetries
<1>11. CASE (Evict(t) \/ EvictUnreadable(t)) /\ t # s
  BY <1>2, <1>11 DEF Evict, EvictUnreadable, Stage
<1>12. QED
  BY <1>5, <1>6, <1>7, <1>8, <1>9, <1>10, <1>11 DEF Step

\* A compaction that read the dump evicts from the oldest record on: what it keeps is
\* as the dump has it, and nothing it drops is newer.
THEOREM EvictsOldest == Spec => EvictionDropsOldest
<1>1. ASSUME TypeOK, [Next]_vars, NEW s \in Sessions,
             pc[s] = "over", pc'[s] = "staged", staged'[s] # <<>>
      PROVE  /\ \A p \in Stored(staged'[s]) : View(staged'[s])[p] = View(lines)[p]
             /\ \A p \in Stored(staged'[s]), q \in Stored(lines) \ Stored(staged'[s]) :
                  View(lines)[q].at <= View(lines)[p].at
  <2>1. Evict(s) \/ EvictUnreadable(s)
    BY <1>1, StagingIsEvicting
  <2>2. ASSUME NEW body, Stage(s, body) PROVE staged'[s] = body
    BY <1>1, <2>2 DEF Stage, TypeOK
  <2>3. ~Stage(s, <<>>)
    BY <1>1, <2>2
  <2>4. PICK ord \in ByAge(lines) :
          \E kept \in Kept(Compacted(lines, ord), Budget(op[s])) : Stage(s, kept)
    BY <2>1, <2>3 DEF Evict, EvictUnreadable
  <2>5. PICK kept \in Kept(Compacted(lines, ord), Budget(op[s])) : Stage(s, kept)
    BY <2>4
  <2>6. staged'[s] = kept /\ lines \in Dump
    BY <1>1, <2>2, <2>5 DEF TypeOK, Dump
  <2>7. QED
    BY <2>6, KeptNewest
<1>2. TypeOK /\ [Next]_vars =>
        [\A s \in Sessions :
           pc[s] = "over" /\ pc'[s] = "staged" /\ staged'[s] # <<>> =>
             /\ \A p \in Stored(staged'[s]) : View(staged'[s])[p] = View(lines)[p]
             /\ \A p \in Stored(staged'[s]), q \in Stored(lines) \ Stored(staged'[s]) :
                  View(lines)[q].at <= View(lines)[p].at]_vars
  BY <1>1
<1>3. QED
  BY <1>2, TypeCorrect, PTL DEF Spec, EvictionDropsOldest

-----------------------------------------------------------------------------
(* UndoStore implements UndoMap: by the inductive invariant, what readAll    *)
(* serves of a path that is not lost is what want says, before and after a   *)
(* step; so a step maps to the action of UndoMap that does to its map what   *)
(* the step does to want.                                                    *)

\* A session that leaves the calls that wait is no longer pending ...
LEMMA PendingDone ==
  ASSUME TypeOK, NEW s \in Sessions, NEW label \in PCs \ {"opened", "torn"},
         Goto(s, label), op' = op \/ op' = [op EXCEPT ![s] = Null]
  PROVE  Pending' = [Pending EXCEPT ![s] = Null]
BY DEF Pending, Goto, TypeOK

\* ... and nothing changes if it was not, or goes on waiting.
LEMMA PendingSame ==
  ASSUME TypeOK, NEW s \in Sessions, NEW label \in PCs, Goto(s, label),
         \/ /\ {pc[s], label} \cap {"opened", "torn"} = {}
            /\ op' = op \/ op' = [op EXCEPT ![s] = Null]
         \/ {pc[s], label} \subseteq {"opened", "torn"} /\ op' = op
  PROVE  Pending' = Pending
BY DEF Pending, Goto, TypeOK

\* A line that takes effect maps to Effect.
LEMMA MapsToEffect ==
  ASSUME IInv, IInv', NEW s \in Sessions, pc[s] \in {"opened", "torn"},
         TakesEffect(s), Pending' = [Pending EXCEPT ![s] = Null]
  PROVE  Map!Effect(s)
<1>1. op[s] \in Entry /\ Pending[s] = op[s]
  BY DEF IInv, CallInv, Pending
<1>2. Pending[s] # Null
  BY <1>1, StoreAssumption
<1>3. /\ want' = [want EXCEPT ![op[s].path] = op[s].rec]
      /\ lost' = lost \ {op[s].path}
  BY DEF TakesEffect
<1>4. /\ View(lines) \in [Paths -> Record \cup {Null}]
      /\ want \in [Paths -> Record \cup {Null}]
  BY ViewType DEF IInv, TypeOK, Dump
<1>5. ASSUME NEW p \in Paths \ lost'
      PROVE  View(lines')[p] = [View(lines) EXCEPT ![op[s].path] = op[s].rec][p]
  <2>1. View(lines')[p] = want'[p]
    BY <1>5 DEF IInv, LostOnlyInKnownWindows
  <2>2. CASE p = op[s].path
    BY <1>3, <1>4, <1>5, <2>1, <2>2
  <2>3. CASE p # op[s].path
    <3>1. View(lines)[p] = want[p]
      BY <1>3, <1>5, <2>3 DEF IInv, LostOnlyInKnownWindows
    <3>2. QED
      BY <1>3, <1>4, <1>5, <2>1, <2>3, <3>1
  <2>4. QED
    BY <2>2, <2>3
<1>6. QED
  BY <1>1, <1>2, <1>3, <1>5 DEF Map!Effect, Map!Done, Map!Becomes

\* A step that asks for nothing new and loses some paths maps to Spoil.
LEMMA MapsToSpoil ==
  ASSUME IInv, IInv', NEW s \in Sessions, lost \subseteq lost', want' = want,
         Pending' = Pending \/ Pending' = [Pending EXCEPT ![s] = Null]
  PROVE  Map!Spoil(s)
<1>1. ASSUME NEW p \in Paths \ lost' PROVE View(lines')[p] = View(lines)[p]
  BY <1>1 DEF IInv, LostOnlyInKnownWindows
<1>2. QED
  BY <1>1 DEF Map!Spoil, Map!Done, Map!Becomes

\* The rename of a compaction maps to Evict.
LEMMA MapsToEvict ==
  ASSUME IInv, IInv', NEW s \in Sessions, Rename(s)
  PROVE  Map!Evict
<1>1. Pending' = Pending
  <2>1. Goto(s, "idle") /\ op' = [op EXCEPT ![s] = Null] /\ pc[s] = "staged"
    BY DEF Rename, Return
  <2>2. QED
    BY <2>1, PendingSame DEF IInv, PCs
<1>2. /\ lost' = lost \cup since[s]
      /\ want' = [p \in Paths |->
                    IF p \in since[s] \/ View(staged[s])[p] # Null
                    THEN want[p] ELSE Null]
  BY DEF Rename
<1>3. ASSUME NEW p \in Paths \ lost' PROVE View(lines')[p] \in {View(lines)[p], Null}
  <2>1. View(lines')[p] = want'[p] /\ View(lines)[p] = want[p]
    BY <1>2, <1>3 DEF IInv, LostOnlyInKnownWindows
  <2>2. QED
    BY <1>2, <2>1
<1>4. QED
  BY <1>1, <1>2, <1>3 DEF Map!Evict

\* The steps of appendLine.
LEMMA AppendMaps ==
  ASSUME IInv, IInv', NEW s \in Sessions,
         \/ Write(s)
         \/ \E label \in {"torn", "unterminated"} : ShortWrite(s, label)
         \/ WriteRest(s)
  PROVE  Map!Effect(s) \/ Map!Spoil(s)
<1> USE DEF IInv
<1>1. CASE Write(s)
  <2>1. Pending' = [Pending EXCEPT ![s] = Null]
    BY <1>1, PendingDone DEF Write, PCs
  <2>2. TakesEffect(s) \/ \E paths \in SUBSET Paths : Ruins(paths)
    BY <1>1, TailPathType DEF Write, CallInv, Entry
  <2>3. QED
    BY <1>1, <2>1, <2>2, MapsToEffect, MapsToSpoil DEF Write, Ruins
<1>2. ASSUME NEW label \in {"torn", "unterminated"}, ShortWrite(s, label)
      PROVE  Map!Effect(s) \/ Map!Spoil(s)
  <2>1. pc[s] = "opened" /\ Goto(s, label) /\ op' = op
    BY <1>2 DEF ShortWrite
  <2>2. Pending' = IF label = "torn" THEN Pending ELSE [Pending EXCEPT ![s] = Null]
    BY <2>1, PendingDone, PendingSame DEF PCs
  <2>3. \/ UNCHANGED history
        \/ \E paths \in SUBSET Paths : Ruins(paths)
        \/ label = "unterminated" /\ TakesEffect(s)
    BY <1>2, TailPathType, StoreAssumption DEF ShortWrite, CallInv, Entry
  <2>4. QED
    BY <2>1, <2>2, <2>3, MapsToEffect, MapsToSpoil DEF Ruins, history
<1>3. CASE WriteRest(s)
  <2>1. pc[s] \in {"torn", "unterminated"} /\ Goto(s, "appended") /\ op' = op
    BY <1>3 DEF WriteRest
  <2>2. Pending' = [Pending EXCEPT ![s] = Null]
    BY <2>1, PendingDone DEF PCs
  <2>3. \/ UNCHANGED history
        \/ \E paths \in SUBSET Paths : Ruins(paths)
        \/ pc[s] = "torn" /\ TakesEffect(s)
    BY <1>3, TailPathType DEF WriteRest, CallInv, Entry
  <2>4. QED
    BY <2>1, <2>2, <2>3, MapsToEffect, MapsToSpoil DEF Ruins, history
<1>4. QED
  BY <1>1, <1>2, <1>3

\* A call that opens the dump maps to Begin.
LEMMA MapsToBegin ==
  ASSUME IInv, NEW s \in Sessions, NEW e \in Entry, Open(s, e)
  PROVE  Map!Begin(s)
<1> USE DEF IInv
<1>1. /\ pc[s] = "idle" /\ op' = [op EXCEPT ![s] = e] /\ Goto(s, "opened")
      /\ UNCHANGED <<lines, lost>>
  BY DEF Open, file, history
<1>2. Pending[s] = Null /\ Pending' = [Pending EXCEPT ![s] = e]
  BY <1>1 DEF Pending, Goto, TypeOK
<1>3. Pending'[s] = e /\ Pending' = [Pending EXCEPT ![s] = Pending'[s]]
  BY <1>2 DEF Pending
<1>4. Pending'[s] \in Map!Call
  BY <1>3 DEF Map!Call, Entry
<1>5. View(lines') = View(lines) /\ lost' = lost
  BY <1>1
<1>6. QED
  BY <1>2, <1>3, <1>4, <1>5 DEF Map!Begin

\* What returns, and what looks at the dump without a change, maps to Fail if the
\* call was pending, and to a step that changes nothing if it was not.
LEMMA MapsToFail ==
  ASSUME IInv, NEW s \in Sessions, UNCHANGED <<lines, lost>>,
         Pending' = Pending \/ Pending' = [Pending EXCEPT ![s] = Null]
  PROVE  Map!Fail(s) \/ UNCHANGED Map!vars
<1>1. View(lines') = View(lines) /\ lost' = lost
  OBVIOUS
<1>2. QED
  BY <1>1 DEF Map!Fail, Map!Done, Map!vars

\* The steps that leave the dump alone.
LEMMA QuietMaps ==
  ASSUME IInv, NEW s \in Sessions,
         \/ AppendFails(s) \/ Stat(s) \/ StatFails(s) \/ Evict(s) \/ EvictUnreadable(s)
         \/ TmpWriteFails(s) \/ RenameRetries(s) \/ RenameFails(s) \/ Crash(s)
  PROVE  Map!Fail(s) \/ UNCHANGED Map!vars
<1> USE DEF IInv
<1>1. CASE AppendFails(s) \/ Crash(s)
  <2>1. Goto(s, "idle") /\ op' = [op EXCEPT ![s] = Null] /\ UNCHANGED <<lines, lost>>
    BY <1>1 DEF AppendFails, Crash, Return, file, history
  <2>2. QED
    BY <2>1, PendingDone, MapsToFail DEF PCs
<1>2. CASE TmpWriteFails(s) \/ RenameFails(s)
  <2>1. Goto(s, "idle") /\ op' = [op EXCEPT ![s] = Null] /\ UNCHANGED <<lines, lost>>
    BY <1>2 DEF TmpWriteFails, RenameFails, GiveUp, Return, file
  <2>2. QED
    BY <2>1, PendingDone, MapsToFail DEF PCs
<1>3. CASE Stat(s) \/ StatFails(s)
  <2>1. /\ pc[s] = "appended" /\ UNCHANGED <<lines, lost>>
        /\ \/ Goto(s, "over") /\ op' = op
           \/ Goto(s, "idle") /\ op' = [op EXCEPT ![s] = Null]
    BY <1>3 DEF Stat, StatFails, Return, file, history
  <2>2. QED
    BY <2>1, PendingSame, MapsToFail DEF PCs
<1>4. CASE Evict(s) \/ EvictUnreadable(s)
  <2>1. /\ pc[s] = "over" /\ UNCHANGED <<lines, lost>>
        /\ Goto(s, "staged") /\ op' = op
    BY <1>4 DEF Evict, EvictUnreadable, Stage, file, history
  <2>2. QED
    BY <2>1, PendingSame, MapsToFail DEF PCs
<1>5. CASE RenameRetries(s)
  <2>1. UNCHANGED <<lines, lost, pc, op>>
    BY <1>5 DEF RenameRetries, file, history
  <2>2. Pending' = Pending
    BY <2>1 DEF Pending
  <2>3. QED
    BY <2>1, <2>2, MapsToFail
<1>6. QED
  BY <1>1, <1>2, <1>3, <1>4, <1>5

\* Every step of the store is a step of the map, or none.
LEMMA NextMaps ==
  ASSUME IInv, IInv', [Next]_vars PROVE [Map!Next]_Map!vars
<1>1. CASE UNCHANGED vars
  <2>1. UNCHANGED <<lines, pc, op, lost>>
    BY <1>1 DEF vars
  <2>2. View(lines') = View(lines) /\ Pending' = Pending /\ lost' = lost
    BY <2>1 DEF Pending
  <2>3. QED
    BY <2>2 DEF Map!vars
<1>2. ASSUME NEW s \in Sessions, Put(s) \/ Delete(s) \/ Step(s) \/ Crash(s)
      PROVE  Map!Next \/ UNCHANGED Map!vars
  <2>1. CASE Put(s)
    <3>1. PICK p \in Paths, n \in Sizes, now \in {clock, clock + 1} :
            Open(s, [path |-> p, rec |-> [at |-> now, size |-> n]])
      BY <2>1 DEF Put
    <3>2. now \in Nat
      BY DEF IInv, TypeOK
    <3>3. [path |-> p, rec |-> [at |-> now, size |-> n]] \in Entry
      BY <3>2 DEF Entry, Record
    <3>4. QED
      BY <3>1, <3>3, MapsToBegin DEF Map!Next
  <2>2. CASE Delete(s)
    <3>1. PICK p \in Paths : Open(s, [path |-> p, rec |-> Null])
      BY <2>2 DEF Delete
    <3>2. [path |-> p, rec |-> Null] \in Entry
      BY DEF Entry
    <3>3. QED
      BY <3>1, <3>2, MapsToBegin DEF Map!Next
  <2>3. CASE Rename(s)
    BY <2>3, MapsToEvict DEF Map!Next
  <2>4. CASE \/ Write(s) \/ ShortWrite(s, "torn") \/ ShortWrite(s, "unterminated")
             \/ WriteRest(s)
    BY <2>4, AppendMaps DEF Map!Next
  <2>5. CASE \/ AppendFails(s) \/ Stat(s) \/ StatFails(s) \/ Evict(s) \/ EvictUnreadable(s)
             \/ TmpWriteFails(s) \/ RenameRetries(s) \/ RenameFails(s) \/ Crash(s)
    BY <2>5, QuietMaps DEF Map!Next
  <2>6. QED
    BY <1>2, <2>1, <2>2, <2>3, <2>4, <2>5 DEF Step
<1>3. QED
  BY <1>1, <1>2 DEF Next

\* The empty dump is the empty map.
LEMMA InitMaps == Init => Map!Init
<1> SUFFICES ASSUME Init PROVE Map!Init
  OBVIOUS
<1>1. View(lines) = [p \in Paths |-> Null]
  BY EmptyView DEF Init, View
<1>2. Pending = [s \in Sessions |-> Null] /\ lost = {}
  BY DEF Init, Pending
<1>3. QED
  BY <1>1, <1>2 DEF Map!Init

\* Sessions that append, tear, compact, fail and crash in any order implement the
\* map: each put or delete is one step for all readers, at most once, and only a
\* compaction drops a record, but for the paths that one of the four loss windows
\* of UndoStore has hit, of which nothing is said until their next call.
THEOREM StoreIsAMap == Spec => DumpIsAMap
<1>1. IInv /\ IInv' /\ [Next]_vars => [Map!Next]_Map!vars
  BY NextMaps
<1>2. QED
  BY <1>1, InitMaps, InvariantHolds, PTL DEF Spec, DumpIsAMap, Map!Spec
=============================================================================
