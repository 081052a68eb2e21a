------------------------------ MODULE RepairProofs ------------------------------
(***************************************************************************)
(* For any arguments, caps and modes: what the repair of an edit call's    *)
(* arguments does (Repair), rule by rule and pass by pass, and what that   *)
(* makes of what the call was sent with (SentArguments).                   *)
(***************************************************************************)
EXTENDS SentArguments, FiniteSetTheorems, SequenceTheorems, WellFoundedInduction, TLAPS

-----------------------------------------------------------------------------
(* Numbers and lists.                                                        *)

\* A non-empty set of naturals has a least element.
LEMMA LeastExists ==
  ASSUME NEW S \in SUBSET Nat, S # {}
  PROVE  \E m \in S : \A x \in S : m <= x
<1> DEFINE R == StrictSubsetOrdering(Nat)
           T == {0 .. x : x \in S}
<1>1. T \subseteq FiniteSubsetsOf(Nat) /\ T # {}
  <2>1. ASSUME NEW x \in S PROVE 0 .. x \in FiniteSubsetsOf(Nat)
    <3>1. IsFiniteSet(0 .. x)
      BY FS_Interval
    <3> QED
      BY <3>1 DEF FiniteSubsetsOf
  <2> QED
    BY <2>1
<1>2. \E d \in T : \A e \in T : ~(<<e, d>> \in R)
  <2>1. IsWellFoundedOn(R, FiniteSubsetsOf(Nat))
    BY FS_StrictSubsetOrderingWellFounded
  <2> HIDE DEF R, T
  <2> QED
    BY <1>1, <2>1, WFMin
<1>3. PICK m \in S : \A e \in T : ~(<<e, 0 .. m>> \in R)
  BY <1>2
<1>4. ASSUME NEW x \in S, x < m PROVE FALSE
  <2>1. 0 .. x \subseteq 0 .. m /\ m \in 0 .. m /\ m \notin 0 .. x
    BY <1>4
  <2>2. <<0 .. x, 0 .. m>> \in R
    BY <2>1 DEF StrictSubsetOrdering
  <2> QED
    BY <1>3, <2>2
<1> QED
  BY <1>4

\* What holds at 0 and passes on from each number to the next holds at all.
LEMMA UpTo ==
  ASSUME NEW n \in Nat, NEW S, 0 \in S, \A k \in 0 .. n - 1 : k \in S => k + 1 \in S
  PROVE  \A k \in 0 .. n : k \in S
<1> DEFINE Bad == {k \in 0 .. n : k \notin S}
<1> SUFFICES ASSUME Bad # {} PROVE FALSE
  OBVIOUS
<1>1. PICK m \in Bad : \A x \in Bad : m <= x
  <2>1. Bad \in SUBSET Nat
    OBVIOUS
  <2> HIDE DEF Bad
  <2> QED
    BY <2>1, LeastExists
<1>2. m \in 1 .. n /\ m - 1 \in 0 .. n - 1 /\ m - 1 \notin Bad
  BY <1>1
<1>3. m - 1 \in S /\ (m - 1) + 1 = m
  BY <1>2
<1> QED
  BY <1>2, <1>3

\* A function on 1 .. k that gives each of its values from the one before.
IsListed(q) == Len(q) \in Nat /\ q = [i \in 1 .. Len(q) |-> q[i]]

LEMMA MakesList ==
  ASSUME NEW n \in Nat, NEW q, q = [i \in 1 .. n |-> q[i]]
  PROVE  IsListed(q) /\ Len(q) = n /\ DOMAIN q = 1 .. n
<1> DEFINE S == {q[i] : i \in 1 .. n}
<1>1. \A i \in 1 .. n : q[i] \in S
  OBVIOUS
<1> HIDE DEF S
<1>2. [i \in 1 .. n |-> q[i]] \in Seq(S) /\ Len([i \in 1 .. n |-> q[i]]) = n
  BY <1>1
<1>3. Len(q) = n
  BY <1>2
<1> QED
  BY <1>3 DEF IsListed

LEMMA ListIs ==
  ASSUME NEW q, IsListed(q)
  PROVE  /\ Len(q) \in Nat /\ DOMAIN q = 1 .. Len(q)
         /\ \A S : (\A i \in 1 .. Len(q) : q[i] \in S) => q \in Seq(S)
<1>1. Len(q) \in Nat /\ q = [i \in 1 .. Len(q) |-> q[i]]
  BY DEF IsListed
<1> DEFINE n == Len(q)
<1> HIDE DEF n
<1>2. ASSUME NEW S, \A i \in 1 .. n : q[i] \in S PROVE q \in Seq(S)
  <2>1. [i \in 1 .. n |-> q[i]] \in Seq(S)
    BY <1>1, <1>2 DEF n
  <2> QED
    BY <1>1, <2>1 DEF n
<1> QED
  BY <1>1, <1>2 DEF n

LEMMA SeqIsListed ==
  ASSUME NEW S, NEW q \in Seq(S)
  PROVE  IsListed(q)
BY DEF IsListed

LEMMA SameList ==
  ASSUME NEW p, NEW q, IsListed(p), IsListed(q), Len(p) = Len(q),
         \A i \in 1 .. Len(p) : p[i] = q[i]
  PROVE  p = q
BY DEF IsListed

\* Appending.
LEMMA AppendIs ==
  ASSUME NEW q, IsListed(q), NEW x
  PROVE  LET p == Append(q, x) IN
         /\ IsListed(p) /\ Len(p) = Len(q) + 1 /\ DOMAIN p = 1 .. Len(q) + 1
         /\ p[Len(q) + 1] = x /\ \A i \in 1 .. Len(q) : p[i] = q[i]
<1> DEFINE S == {q[i] : i \in 1 .. Len(q)} \cup {x}
           p == Append(q, x)
<1>1. q \in Seq(S) /\ x \in S
  BY ListIs
<1> HIDE DEF S
<1>2. /\ p \in Seq(S) /\ Len(p) = Len(q) + 1 /\ p[Len(q) + 1] = x
      /\ \A i \in 1 .. Len(q) : p[i] = q[i]
  BY <1>1, AppendProperties
<1>3. IsListed(p)
  BY <1>2, SeqIsListed
<1> HIDE DEF p
<1>4. DOMAIN p = 1 .. Len(q) + 1
  BY <1>2, <1>3, ListIs
<1> QED
  BY <1>2, <1>3, <1>4 DEF p

LEMMA SingleIs ==
  ASSUME NEW x
  PROVE  IsListed(<<x>>) /\ Len(<<x>>) = 1 /\ DOMAIN <<x>> = {1} /\ <<x>>[1] = x
<1>1. <<x>> \in Seq({x})
  OBVIOUS
<1>2. IsListed(<<x>>)
  BY <1>1, SeqIsListed
<1> QED
  BY <1>2

-----------------------------------------------------------------------------
(* JSON values.                                                              *)

\* A JSON value is one of a set of values with all that they hold.
IsJson(v) == \E values : AreJson(values) /\ v \in values

HoldsIn(v, values) ==
  CASE v.t = "str" -> v = Str(v.s)
    [] v.t = "enc" -> v = Enc(v.level, v.v) /\ v.v \in values
    [] v.t = "arr" -> v = Arr(v.e) /\ v.e \in Seq(values)
    [] v.t = "obj" -> v = Obj(v.f) /\ v.f \in [DOMAIN v.f -> values]
    [] OTHER -> v \in {Null, Num}

LEMMA AreJsonIs ==
  ASSUME NEW values
  PROVE  AreJson(values) <=> \A v \in values : HoldsIn(v, values)
BY DEF AreJson, HoldsIn

LEMMA HoldsInMore ==
  ASSUME NEW v, NEW some, NEW all, some \subseteq all, HoldsIn(v, some)
  PROVE  HoldsIn(v, all)
<1>1. CASE v.t = "arr"
  <2>1. v = Arr(v.e) /\ v.e \in Seq(some)
    BY <1>1 DEF HoldsIn
  <2>2. v.e \in Seq(all)
    BY <2>1
  <2> QED
    BY <1>1, <2>1, <2>2 DEF HoldsIn
<1>2. CASE v.t = "obj"
  <2>1. v = Obj(v.f) /\ v.f \in [DOMAIN v.f -> some]
    BY <1>2 DEF HoldsIn
  <2>2. v.f \in [DOMAIN v.f -> all]
    BY <2>1
  <2> QED
    BY <1>2, <2>1, <2>2 DEF HoldsIn
<1>3. CASE v.t \notin {"arr", "obj"}
  BY <1>3 DEF HoldsIn
<1> QED
  BY <1>1, <1>2, <1>3

\* The kinds of JSON values.
LEMMA JsonKinds ==
  ASSUME NEW v, IsJson(v)
  PROVE  \/ v \in {Null, Num} /\ v.t \in {"null", "num"}
         \/ v.t = "str" /\ v = Str(v.s)
         \/ v.t = "enc" /\ v = Enc(v.level, v.v) /\ IsJson(v.v)
         \/ v.t = "arr" /\ v = Arr(v.e) /\ IsListed(v.e) /\ \A i \in DOMAIN v.e : IsJson(v.e[i])
         \/ v.t = "obj" /\ v = Obj(v.f) /\ v.f = [k \in DOMAIN v.f |-> v.f[k]]
                        /\ \A k \in DOMAIN v.f : IsJson(v.f[k])
<1>1. PICK values : AreJson(values) /\ v \in values
  BY DEF IsJson
<1>2. \A w \in values : IsJson(w)
  BY <1>1 DEF IsJson
<1>3. HoldsIn(v, values)
  BY <1>1, AreJsonIs
<1>4. CASE v.t = "enc"
  BY <1>2, <1>3, <1>4 DEF HoldsIn
<1>5. CASE v.t = "arr"
  <2>1. v = Arr(v.e) /\ v.e \in Seq(values)
    BY <1>3, <1>5 DEF HoldsIn
  <2>2. IsListed(v.e)
    BY <2>1, SeqIsListed
  <2>3. \A i \in DOMAIN v.e : v.e[i] \in values
    BY <2>1
  <2> QED
    BY <1>2, <1>5, <2>1, <2>2, <2>3
<1>6. CASE v.t = "obj"
  <2>1. v = Obj(v.f) /\ v.f \in [DOMAIN v.f -> values]
    BY <1>3, <1>6 DEF HoldsIn
  <2>2. \A k \in DOMAIN v.f : v.f[k] \in values
    BY <2>1
  <2>3. v.f = [k \in DOMAIN v.f |-> v.f[k]]
    BY <2>1
  <2> QED
    BY <1>2, <1>6, <2>1, <2>2, <2>3
<1>7. CASE v.t \notin {"enc", "arr", "obj"}
  BY <1>3, <1>7 DEF HoldsIn, Null, Num
<1> QED
  BY <1>4, <1>5, <1>6, <1>7

\* The values there are, and those made of some there are, are JSON values.
LEMMA ValuesAreJson == \A v \in Values : IsJson(v)
BY RepairAssumption DEF IsJson

LEMMA AtomsAreJson == IsJson(Null) /\ IsJson(Num) /\ \A s : IsJson(Str(s))
<1>1. AreJson({Null, Num})
  <2>1. Null.t = "null" /\ Num.t = "num"
    BY DEF Null, Num
  <2>2. \A v \in {Null, Num} : v.t \notin {"str", "enc", "arr", "obj"}
    BY <2>1
  <2>3. ASSUME NEW v \in {Null, Num} PROVE HoldsIn(v, {Null, Num})
    BY <2>2, <2>3 DEF HoldsIn
  <2> QED
    BY <2>3, AreJsonIs
<1>2. ASSUME NEW s PROVE AreJson({Str(s)})
  BY AreJsonIs DEF HoldsIn, Str
<1>3. \A values : AreJson(values) => \A v \in values : IsJson(v)
  BY DEF IsJson
<1>4. Null \in {Null, Num} /\ Num \in {Null, Num} /\ \A s : Str(s) \in {Str(s)}
  OBVIOUS
<1>5. \A v \in {Null, Num} : IsJson(v)
  BY <1>1, <1>3
<1>6. ASSUME NEW s PROVE IsJson(Str(s))
  BY <1>2, <1>3
<1> QED
  BY <1>4, <1>5, <1>6

LEMMA JsonTogether ==
  ASSUME NEW S, \A x \in S : IsJson(x)
  PROVE  \E values : AreJson(values) /\ S \subseteq values
<1> DEFINE of(x) == CHOOSE values : AreJson(values) /\ x \in values
           all == UNION {of(x) : x \in S}
<1>1. \A x \in S : AreJson(of(x)) /\ x \in of(x)
  BY DEF IsJson
<1> HIDE DEF of
<1>2. ASSUME NEW v \in all PROVE HoldsIn(v, all)
  <2>1. PICK x \in S : v \in of(x)
    BY <1>2
  <2>2. of(x) \subseteq all
    OBVIOUS
  <2>3. HoldsIn(v, of(x))
    BY <1>1, <2>1, AreJsonIs
  <2> HIDE DEF all
  <2> QED
    BY <2>2, <2>3, HoldsInMore
<1>3. AreJson(all)
  <2> HIDE DEF all
  <2> QED
    BY <1>2, AreJsonIs
<1>4. S \subseteq all
  BY <1>1
<1> QED
  BY <1>3, <1>4

LEMMA ArrIsJson ==
  ASSUME NEW q, IsListed(q), \A i \in DOMAIN q : IsJson(q[i])
  PROVE  IsJson(Arr(q))
<1>1. PICK values : AreJson(values) /\ {q[i] : i \in DOMAIN q} \subseteq values
  <2>1. \A x \in {q[i] : i \in DOMAIN q} : IsJson(x)
    OBVIOUS
  <2> QED
    BY <2>1, JsonTogether
<1> DEFINE all == values \cup {Arr(q)}
<1>2. q \in Seq(all)
  <2>1. \A i \in 1 .. Len(q) : q[i] \in all
    BY <1>1, ListIs
  <2> HIDE DEF all
  <2> QED
    BY <2>1, ListIs
<1>3. HoldsIn(Arr(q), all)
  <2> HIDE DEF all
  <2> QED
    BY <1>2 DEF HoldsIn, Arr
<1>4. \A v \in values : HoldsIn(v, all)
  <2>1. \A v \in values : HoldsIn(v, values)
    BY <1>1, AreJsonIs
  <2>2. values \subseteq all
    OBVIOUS
  <2> HIDE DEF all
  <2> QED
    BY <2>1, <2>2, HoldsInMore
<1>5. AreJson(all)
  BY <1>3, <1>4, AreJsonIs
<1> QED
  BY <1>5 DEF IsJson

LEMMA ObjIsJson ==
  ASSUME NEW f, f = [k \in DOMAIN f |-> f[k]], \A k \in DOMAIN f : IsJson(f[k])
  PROVE  IsJson(Obj(f))
<1>1. PICK values : AreJson(values) /\ {f[k] : k \in DOMAIN f} \subseteq values
  <2>1. \A x \in {f[k] : k \in DOMAIN f} : IsJson(x)
    OBVIOUS
  <2> QED
    BY <2>1, JsonTogether
<1> DEFINE all == values \cup {Obj(f)}
<1>2. f \in [DOMAIN f -> all]
  BY <1>1
<1>3. HoldsIn(Obj(f), all)
  <2> HIDE DEF all
  <2> QED
    BY <1>2 DEF HoldsIn, Obj
<1>4. \A v \in values : HoldsIn(v, all)
  <2>1. \A v \in values : HoldsIn(v, values)
    BY <1>1, AreJsonIs
  <2>2. values \subseteq all
    OBVIOUS
  <2> HIDE DEF all
  <2> QED
    BY <2>1, <2>2, HoldsInMore
<1>5. AreJson(all)
  BY <1>3, <1>4, AreJsonIs
<1> QED
  BY <1>5 DEF IsJson

-----------------------------------------------------------------------------
(* Fields.                                                                   *)

\* A JSON value or none.
JsonOrNone(v) == v = Absent \/ IsJson(v)

\* An object of JSON values.
IsRecord(v) == IsJson(v) /\ IsObj(v)

LEMMA AbsentIsNone == ~IsJson(Absent) /\ Absent \notin {Null, Num} /\ Null # Num
<1>1. ~IsJson(Absent)
  <2>1. Absent.t = "absent" /\ Absent # Null /\ Absent # Num
    BY DEF Absent, Null, Num
  <2> QED
    BY <2>1, JsonKinds
<1> QED
  BY <1>1 DEF Absent, Null, Num

LEMMA RecordIs ==
  ASSUME NEW v, IsRecord(v)
  PROVE  /\ v = Obj(v.f) /\ v.f = [k \in DOMAIN v.f |-> v.f[k]]
         /\ \A k \in DOMAIN v.f : IsJson(v.f[k])
         /\ \A k : k \in DOMAIN v.f <=> At(v, k) # Absent
         /\ \A k \in DOMAIN v.f : At(v, k) = v.f[k]
<1>1. /\ v = Obj(v.f) /\ v.f = [k \in DOMAIN v.f |-> v.f[k]]
      /\ \A k \in DOMAIN v.f : IsJson(v.f[k])
  BY JsonKinds DEF IsRecord, IsObj, Null, Num
<1>2. \A k \in DOMAIN v.f : At(v, k) = v.f[k] /\ v.f[k] # Absent
  BY <1>1, AbsentIsNone DEF IsRecord, At
<1>3. \A k : k \notin DOMAIN v.f => At(v, k) = Absent
  BY DEF At
<1> QED
  BY <1>1, <1>2, <1>3

LEMMA AtIsJson == ASSUME NEW v, IsJson(v), NEW k PROVE JsonOrNone(At(v, k))
<1>1. CASE IsObj(v)
  BY <1>1, RecordIs DEF IsRecord, At, JsonOrNone
<1>2. CASE ~IsObj(v)
  BY <1>2 DEF At, JsonOrNone
<1> QED
  BY <1>1, <1>2

\* An object is made of its fields.
LEMMA MakesRecord ==
  ASSUME NEW f, f = [k \in DOMAIN f |-> f[k]], \A k \in DOMAIN f : IsJson(f[k])
  PROVE  /\ IsRecord(Obj(f))
         /\ \A k : At(Obj(f), k) = IF k \in DOMAIN f THEN f[k] ELSE Absent
<1>1. Obj(f).t = "obj" /\ Obj(f).f = f
  BY DEF Obj
<1> QED
  BY <1>1, ObjIsJson DEF IsRecord, IsObj, At

LEMMA SameRecord ==
  ASSUME NEW v, NEW w, IsRecord(v), IsRecord(w), \A k : At(v, k) = At(w, k)
  PROVE  v = w
<1>1. /\ v = Obj(v.f) /\ v.f = [k \in DOMAIN v.f |-> v.f[k]]
      /\ \A k : k \in DOMAIN v.f <=> At(v, k) # Absent
      /\ \A k \in DOMAIN v.f : At(v, k) = v.f[k]
  BY RecordIs
<1>2. /\ w = Obj(w.f) /\ w.f = [k \in DOMAIN w.f |-> w.f[k]]
      /\ \A k : k \in DOMAIN w.f <=> At(w, k) # Absent
      /\ \A k \in DOMAIN w.f : At(w, k) = w.f[k]
  BY RecordIs
<1>3. \A k : k \in DOMAIN v.f <=> k \in DOMAIN w.f
  BY <1>1, <1>2
<1>4. DOMAIN v.f = DOMAIN w.f
  BY <1>3
<1>5. \A k \in DOMAIN v.f : v.f[k] = w.f[k]
  BY <1>1, <1>2, <1>3
<1>6. [k \in DOMAIN v.f |-> v.f[k]] = [k \in DOMAIN w.f |-> w.f[k]]
  BY <1>4, <1>5
<1> QED
  BY <1>1, <1>2, <1>6

LEMMA WithIs ==
  ASSUME NEW v, IsRecord(v), NEW k, NEW x, IsJson(x)
  PROVE  /\ IsRecord(With(v, k, x))
         /\ \A j : At(With(v, k, x), j) = IF j = k THEN x ELSE At(v, j)
<1> DEFINE f == [j \in DOMAIN v.f \cup {k} |-> IF j = k THEN x ELSE v.f[j]]
<1>1. f = [j \in DOMAIN f |-> f[j]] /\ DOMAIN f = DOMAIN v.f \cup {k}
  OBVIOUS
<1>2. \A j \in DOMAIN f : f[j] = IF j = k THEN x ELSE At(v, j)
  BY RecordIs
<1>3. \A j \in DOMAIN f : IsJson(f[j])
  BY RecordIs
<1>4. With(v, k, x) = Obj(f)
  BY DEF With
<1>5. \A j : j \notin DOMAIN f => j # k /\ At(v, j) = Absent
  BY RecordIs
<1> HIDE DEF f
<1>6. IsRecord(Obj(f)) /\ \A j : At(Obj(f), j) = IF j \in DOMAIN f THEN f[j] ELSE Absent
  BY <1>1, <1>3, MakesRecord
<1> QED
  BY <1>2, <1>4, <1>5, <1>6

LEMMA WithoutIs ==
  ASSUME NEW v, IsRecord(v), NEW ks
  PROVE  /\ IsRecord(Without(v, ks))
         /\ \A j : At(Without(v, ks), j) = IF j \in ks THEN Absent ELSE At(v, j)
<1> DEFINE f == [k \in DOMAIN v.f \ ks |-> v.f[k]]
<1>1. f = [j \in DOMAIN f |-> f[j]] /\ DOMAIN f = DOMAIN v.f \ ks
  OBVIOUS
<1>2. \A j \in DOMAIN f : f[j] = At(v, j) /\ IsJson(f[j])
  BY RecordIs
<1>3. Without(v, ks) = Obj(f)
  BY DEF Without
<1>4. \A j : j \notin DOMAIN f => j \in ks \/ At(v, j) = Absent
  BY RecordIs
<1>5. \A j \in ks : j \notin DOMAIN f
  OBVIOUS
<1> HIDE DEF f
<1>6. IsRecord(Obj(f)) /\ \A j : At(Obj(f), j) = IF j \in DOMAIN f THEN f[j] ELSE Absent
  BY <1>1, <1>2, MakesRecord
<1> QED
  BY <1>2, <1>3, <1>4, <1>5, <1>6

-----------------------------------------------------------------------------
(* Strings, arrays.                                                          *)

\* Kinds exclude each other.
LEMMA KindsDiffer ==
  /\ ~IsString(Absent) /\ ~IsArr(Absent) /\ ~IsObj(Absent)
  /\ ~IsString(Null) /\ ~IsArr(Null) /\ ~IsObj(Null)
  /\ ~IsString(Num) /\ ~IsArr(Num) /\ ~IsObj(Num)
  /\ \A s : IsString(Str(s)) /\ ~IsArr(Str(s)) /\ ~IsObj(Str(s))
  /\ \A v : /\ IsString(v) => ~IsArr(v) /\ ~IsObj(v) /\ v \notin {Absent, Null, Num}
            /\ IsArr(v) => ~IsObj(v) /\ v \notin {Absent, Null, Num, Str("")}
            /\ IsObj(v) => v \notin {Absent, Null, Num, Str("")}
<1> USE DEF Absent, Null, Num, Str, IsString, IsArr, IsObj
<1>1. Absent.t = "absent" /\ Null.t = "null" /\ Num.t = "num" /\ \A s : Str(s).t = "str"
  OBVIOUS
<1>2. \A v : v.t \in {"str", "enc"} => v \notin {Absent, Null, Num}
  BY <1>1
<1>3. \A v : v.t \in {"arr", "obj"} => v \notin {Absent, Null, Num, Str("")}
  BY <1>1
<1> QED
  BY <1>1, <1>2, <1>3

LEMMA Encoded ==
  /\ \A v : /\ Lenient(v) => IsString(v) /\ v # Str("") /\ v.t = "enc"
            /\ Strict(v) => Lenient(v)
  /\ \A q : IsArr(Arr(q)) /\ Arr(q).e = q
  /\ \A f : IsObj(Obj(f)) /\ Obj(f).f = f
<1>1. Str("").t = "str"
  BY DEF Str
<1>2. \A v : Lenient(v) => v.t = "enc" /\ v # Str("")
  BY <1>1 DEF Lenient
<1>3. \A v : Strict(v) => Lenient(v)
  BY DEF Strict, Lenient
<1> QED
  BY <1>2, <1>3 DEF IsString, Arr, Obj, IsArr, IsObj

\* The values a JSON value can have.
LEMMA JsonIs ==
  ASSUME NEW v, IsJson(v)
  PROVE  \/ v \in {Null, Num} \/ IsString(v) \/ IsArr(v) \/ IsObj(v)
BY JsonKinds DEF IsString, IsArr, IsObj

LEMMA ArrIs ==
  ASSUME NEW v, IsJson(v), IsArr(v)
  PROVE  v = Arr(v.e) /\ IsListed(v.e) /\ \A i \in DOMAIN v.e : IsJson(v.e[i])
BY JsonKinds DEF IsArr, Null, Num

LEMMA EncodedIsJson ==
  ASSUME NEW v, IsJson(v), v.t = "enc"
  PROVE  v = Enc(v.level, v.v) /\ IsJson(v.v)
BY JsonKinds DEF Null, Num

\* Only objects have fields.
LEMMA NoFields == ASSUME NEW v, ~IsObj(v), NEW k PROVE At(v, k) = Absent
BY DEF At

\* An edit is an object.
LEMMA EditIsObj == ASSUME NEW v, IsEdit(v) PROVE IsObj(v)
BY KindsDiffer, NoFields DEF IsEdit, Required

-----------------------------------------------------------------------------
(* The elements at some places.                                              *)

\* The places of s in their order.
IsOrder(up, s) ==
  /\ Cardinality(s) \in Nat /\ DOMAIN up = 1 .. Cardinality(s)
  /\ \A k \in DOMAIN up : up[k] \in s /\ Cardinality({j \in s : j <= up[k]}) = k
  /\ \A k, l \in DOMAIN up : k < l => up[k] < up[l]
  /\ \A i \in s : \E k \in DOMAIN up : up[k] = i

LEMMA PlacesIn ==
  ASSUME NEW n \in Nat, NEW s \in SUBSET (1 .. n)
  PROVE  /\ Cardinality(s) \in Nat /\ Cardinality(s) <= n
         /\ IsOrder([k \in 1 .. Cardinality(s) |->
                       CHOOSE i \in s : Cardinality({j \in s : j <= i}) = k], s)
<1> DEFINE c == Cardinality(s)
           Below(i) == {j \in s : j <= i}
           rank == [i \in s |-> Cardinality(Below(i))]
<1>1. IsFiniteSet(s) /\ c \in Nat /\ c <= n
  <2>1. IsFiniteSet(1 .. n) /\ Cardinality(1 .. n) = n
    BY FS_Interval
  <2> QED
    BY <2>1, FS_Subset, FS_CardinalityType
<1>2. ASSUME NEW i \in s
      PROVE  /\ IsFiniteSet(Below(i)) /\ Cardinality(Below(i)) \in 1 .. c
  <2>1. Below(i) \in SUBSET s /\ i \in Below(i)
    OBVIOUS
  <2>2. IsFiniteSet(Below(i)) /\ Cardinality(Below(i)) <= c
    BY <1>1, <2>1, FS_Subset
  <2>3. Cardinality(Below(i)) \in Nat /\ Cardinality(Below(i)) # 0
    BY <2>1, <2>2, FS_CardinalityType, FS_EmptySet
  <2> QED
    BY <1>1, <2>2, <2>3
<1>3. ASSUME NEW i \in s, NEW j \in s, i < j
      PROVE  Cardinality(Below(i)) < Cardinality(Below(j))
  <2>1. i \in Nat /\ j \in Nat /\ ~(j <= i) /\ j <= j
    BY <1>3
  <2>2. \A x \in s : x <= i => x <= j
    BY <1>3, <2>1
  <2>3. Below(i) \in SUBSET Below(j) /\ j \in Below(j) /\ j \notin Below(i)
    BY <2>1, <2>2, Zenon
  <2>4. IsFiniteSet(Below(j)) /\ Cardinality(Below(j)) \in Nat /\ Cardinality(Below(i)) \in Nat
    BY <1>1, <1>2
  <2>5. Cardinality(Below(i)) <= Cardinality(Below(j)) /\ Cardinality(Below(i)) # Cardinality(Below(j))
    BY <2>3, <2>4, FS_Subset
  <2> QED
    BY <2>4, <2>5
<1>4. rank \in Injection(s, 1 .. c)
  <2>1. rank \in [s -> 1 .. c]
    BY <1>2
  <2>2. ASSUME NEW i \in s, NEW j \in s, rank[i] = rank[j] PROVE i = j
    <3>1. Cardinality(Below(i)) = Cardinality(Below(j)) /\ Cardinality(Below(i)) \in Nat
      BY <1>1, <1>2, <2>2
    <3>2. i \in Nat /\ j \in Nat
      OBVIOUS
    <3> HIDE DEF Below
    <3> QED
      BY <1>3, <3>1, <3>2
  <2> QED
    BY <2>1, <2>2 DEF Injection, IsInjective
<1>5. rank \in Surjection(s, 1 .. c)
  <2>1. IsFiniteSet(1 .. c) /\ Cardinality(1 .. c) = c
    BY <1>1, FS_Interval
  <2> HIDE DEF rank, c
  <2> QED
    BY <1>4, <2>1, FS_Injection DEF c
<1>6. ASSUME NEW k \in 1 .. c PROVE \E i \in s : Cardinality(Below(i)) = k
  BY <1>5 DEF Surjection
<1> DEFINE up == [k \in 1 .. c |-> CHOOSE i \in s : Cardinality(Below(i)) = k]
<1>7. DOMAIN up = 1 .. c /\ \A k \in 1 .. c : up[k] \in s /\ Cardinality(Below(up[k])) = k
  BY <1>6
<1> HIDE DEF up, c
<1>8. ASSUME NEW k \in 1 .. c, NEW l \in 1 .. c, k < l PROVE up[k] < up[l]
  <2>1. up[k] \in s /\ up[l] \in s /\ Cardinality(Below(up[k])) = k /\ Cardinality(Below(up[l])) = l
    BY <1>7
  <2>2. \A i \in s : i \in Nat
    OBVIOUS
  <2>3. up[k] \in Nat /\ up[l] \in Nat
    BY <2>1, <2>2
  <2>4. k \in Nat /\ l \in Nat
    BY <1>1
  <2> HIDE DEF Below
  <2>5. ASSUME up[l] < up[k] PROVE FALSE
    <3>1. Cardinality(Below(up[l])) < Cardinality(Below(up[k]))
      BY <1>3, <2>1, <2>5
    <3> QED
      BY <1>8, <2>1, <2>4, <3>1
  <2>6. up[l] # up[k]
    BY <1>8, <2>1, <2>4
  <2> QED
    BY <2>3, <2>5, <2>6
<1>9. ASSUME NEW i \in s PROVE \E k \in 1 .. c : up[k] = i
  <2> DEFINE k == Cardinality(Below(i))
  <2> HIDE DEF Below
  <2>1. k \in 1 .. c
    BY <1>2
  <2>2. up[k] \in s /\ Cardinality(Below(up[k])) = k
    BY <1>7, <2>1
  <2>3. rank[up[k]] = rank[i]
    BY <2>2
  <2> HIDE DEF k, rank
  <2>4. up[k] = i
    BY <1>4, <2>2, <2>3 DEF Injection, IsInjective
  <2> QED
    BY <2>1, <2>4
<1>10. IsOrder(up, s)
  BY <1>1, <1>7, <1>8, <1>9 DEF IsOrder, c
<1> QED
  BY <1>1, <1>10 DEF up, c

LEMMA AtPlacesIs ==
  ASSUME NEW q, IsListed(q), NEW s, s \subseteq DOMAIN q
  PROVE  \E up : /\ IsOrder(up, s) /\ Cardinality(s) <= Len(q)
                 /\ IsListed(AtPlaces(q, s)) /\ Len(AtPlaces(q, s)) = Cardinality(s)
                 /\ DOMAIN AtPlaces(q, s) = DOMAIN up
                 /\ \A k \in DOMAIN up : AtPlaces(q, s)[k] = q[up[k]]
<1> DEFINE c == Cardinality(s)
           up == [k \in 1 .. c |-> CHOOSE i \in s : Cardinality({j \in s : j <= i}) = k]
<1>1. s \in SUBSET (1 .. Len(q)) /\ Len(q) \in Nat
  BY ListIs
<1>2. IsOrder(up, s) /\ c \in Nat /\ c <= Len(q)
  BY <1>1, PlacesIn
<1>3. AtPlaces(q, s) = [k \in 1 .. c |-> q[up[k]]]
  BY DEF AtPlaces
<1> HIDE DEF up, c
<1>4. DOMAIN up = 1 .. c
  BY <1>2 DEF IsOrder, c
<1> DEFINE r == AtPlaces(q, s)
<1>5. r = [k \in 1 .. c |-> r[k]] /\ \A k \in 1 .. c : r[k] = q[up[k]]
  BY <1>3
<1> HIDE DEF r
<1>6. IsListed(r) /\ Len(r) = c /\ DOMAIN r = 1 .. c
  BY <1>2, <1>5, MakesList
<1> QED
  BY <1>2, <1>4, <1>5, <1>6 DEF r, c

LEMMA AtAllPlaces ==
  ASSUME NEW q, IsListed(q)
  PROVE  AtPlaces(q, DOMAIN q) = q
<1> DEFINE s == DOMAIN q
<1>1. s = 1 .. Len(q) /\ Len(q) \in Nat
  BY ListIs
<1>2. \A i \in 0 .. Len(q) : Cardinality(1 .. i) = i
  BY <1>1, FS_Interval
<1> HIDE DEF s
<1>3. PICK up : /\ IsOrder(up, s)
                /\ IsListed(AtPlaces(q, s)) /\ Len(AtPlaces(q, s)) = Cardinality(s)
                /\ DOMAIN AtPlaces(q, s) = DOMAIN up
                /\ \A k \in DOMAIN up : AtPlaces(q, s)[k] = q[up[k]]
  BY AtPlacesIs DEF s
<1>4. Cardinality(s) = Len(q)
  BY <1>1, <1>2
<1>5. ASSUME NEW k \in 1 .. Len(q) PROVE up[k] = k
  <2>1. up[k] \in s /\ Cardinality({j \in s : j <= up[k]}) = k
    BY <1>3, <1>4, <1>5 DEF IsOrder
  <2>2. up[k] \in 0 .. Len(q)
    BY <1>1, <2>1
  <2>3. {j \in s : j <= up[k]} = 1 .. up[k]
    BY <1>1, <2>2
  <2>4. Cardinality(1 .. up[k]) = up[k]
    BY <1>2, <2>2
  <2> QED
    BY <2>1, <2>3, <2>4
<1>6. \A k \in 1 .. Len(q) : AtPlaces(q, s)[k] = q[k]
  BY <1>3, <1>4, <1>5 DEF IsOrder
<1>7. AtPlaces(q, s) = q
  BY <1>3, <1>4, <1>6, SameList
<1> QED
  BY <1>7 DEF s

\* The elements with a property.
LEMMA FilteredIs ==
  ASSUME NEW v, IsJson(v), IsArr(v), NEW s, s \subseteq DOMAIN v.e
  PROVE  LET w == Arr(AtPlaces(v.e, s)) IN
         /\ IsJson(w) /\ IsArr(w) /\ w.e = AtPlaces(v.e, s)
         /\ \A i \in DOMAIN w.e : \E j \in s : w.e[i] = v.e[j]
         /\ \A j \in s : \E i \in DOMAIN w.e : w.e[i] = v.e[j]
<1>1. IsListed(v.e) /\ \A i \in DOMAIN v.e : IsJson(v.e[i])
  BY ArrIs
<1>2. PICK up : /\ IsOrder(up, s)
                /\ IsListed(AtPlaces(v.e, s)) /\ DOMAIN AtPlaces(v.e, s) = DOMAIN up
                /\ \A k \in DOMAIN up : AtPlaces(v.e, s)[k] = v.e[up[k]]
  BY <1>1, AtPlacesIs
<1>3. \A k \in DOMAIN up : up[k] \in s
  BY <1>2 DEF IsOrder
<1>4. \A i \in DOMAIN AtPlaces(v.e, s) : IsJson(AtPlaces(v.e, s)[i])
  BY <1>1, <1>2, <1>3
<1>5. IsJson(Arr(AtPlaces(v.e, s)))
  BY <1>2, <1>4, ArrIsJson
<1>6. \A j \in s : \E k \in DOMAIN up : up[k] = j
  BY <1>2 DEF IsOrder
<1> DEFINE r == AtPlaces(v.e, s)
<1>7. Arr(r).e = r /\ IsArr(Arr(r))
  BY Encoded
<1>8. \A i \in DOMAIN r : up[i] \in s /\ r[i] = v.e[up[i]]
  BY <1>2, <1>3
<1>9. \A j \in s : \E i \in DOMAIN r : r[i] = v.e[j]
  BY <1>2, <1>6
<1>10. IsJson(Arr(r))
  BY <1>5
<1> HIDE DEF r
<1>11. LET w == Arr(r) IN
       /\ IsJson(w) /\ IsArr(w) /\ w.e = r
       /\ \A i \in DOMAIN w.e : \E j \in s : w.e[i] = v.e[j]
       /\ \A j \in s : \E i \in DOMAIN w.e : w.e[i] = v.e[j]
  BY <1>7, <1>8, <1>9, <1>10
<1> QED
  BY <1>11 DEF r

-----------------------------------------------------------------------------
(* Names and aliases.                                                        *)

Named == {"path", "oldText", "newText"}

\* The aliases of k, in their order.
Alias1(k) == AliasesOf(k)[1]
Alias2(k) == AliasesOf(k)[2]

LEMMA AliasesAre ==
  /\ AliasesOf("edits") = <<>> /\ AliasesOf("anchor") = <<>>
  /\ AliasesOf("path") = <<"file_path", "file">>
  /\ AliasesOf("oldText") = <<"old_str", "old_text">>
  /\ AliasesOf("newText") = <<"new_str", "new_text">>
  /\ NamesOf("path") = {"path", "file_path", "file"}
  /\ NamesOf("oldText") = {"oldText", "old_str", "old_text"}
  /\ NamesOf("newText") = {"newText", "new_str", "new_text"}
<1>1. /\ AliasesOf("edits") = <<>> /\ AliasesOf("anchor") = <<>>
      /\ AliasesOf("path") = <<"file_path", "file">>
      /\ AliasesOf("oldText") = <<"old_str", "old_text">>
      /\ AliasesOf("newText") = <<"new_str", "new_text">>
  BY DEF AliasesOf
<1>2. ASSUME NEW a, NEW b PROVE Range(<<a, b>>) = {a, b}
  BY DEF Range
<1>3. /\ Range(AliasesOf("path")) = {"file_path", "file"}
      /\ Range(AliasesOf("oldText")) = {"old_str", "old_text"}
      /\ Range(AliasesOf("newText")) = {"new_str", "new_text"}
  BY <1>1, <1>2
<1> QED
  BY <1>1, <1>3 DEF NamesOf

LEMMA AliasPairs ==
  ASSUME NEW k \in Named
  PROVE  /\ AliasesOf(k) = <<Alias1(k), Alias2(k)>> /\ DOMAIN AliasesOf(k) = {1, 2}
         /\ NamesOf(k) = {k, Alias1(k), Alias2(k)}
         /\ Alias1(k) # Alias2(k) /\ k \notin {Alias1(k), Alias2(k)}
<1>1. CASE k = "path"
  BY <1>1, AliasesAre DEF Alias1, Alias2
<1>2. CASE k = "oldText"
  BY <1>2, AliasesAre DEF Alias1, Alias2
<1>3. CASE k = "newText"
  BY <1>3, AliasesAre DEF Alias1, Alias2
<1> QED
  BY <1>1, <1>2, <1>3 DEF Named

-----------------------------------------------------------------------------
(* Renaming an alias.                                                        *)

\* w is v with the value of the alias a under k.
Moved(v, w, k, a) ==
  /\ IsRecord(w)
  /\ \A j : At(w, j) = IF j = k THEN At(v, a) ELSE IF j = a THEN Absent ELSE At(v, j)

LEMMA MovedIs ==
  ASSUME NEW v, IsRecord(v), NEW k, NEW a, a # k, At(v, a) # Absent
  PROVE  Moved(v, Without(With(v, k, v.f[a]), {a}), k, a)
<1>1. v.f[a] = At(v, a) /\ IsJson(v.f[a])
  BY RecordIs
<1> DEFINE u == With(v, k, v.f[a])
<1>2. IsRecord(u) /\ \A j : At(u, j) = IF j = k THEN At(v, a) ELSE At(v, j)
  BY <1>1, WithIs
<1> HIDE DEF u
<1>3. IsRecord(Without(u, {a})) /\ \A j : At(Without(u, {a}), j) = IF j \in {a} THEN Absent ELSE At(u, j)
  BY <1>2, WithoutIs
<1> QED
  BY <1>2, <1>3 DEF Moved, u

\* What renaming gives where the usable aliases are those at found.
LEMMA LeastOfTwo ==
  ASSUME NEW found, found \subseteq {1, 2}, found # {}
  PROVE  Min(found) \in found
<1>1. CASE 1 \in found
  <2>1. 1 \in found /\ \A y \in found : 1 <= y
    BY <1>1
  <2> QED
    BY <2>1 DEF Min
<1>2. CASE 1 \notin found
  <2>1. found = {2}
    BY <1>2
  <2> QED
    BY <2>1 DEF Min
<1> QED
  BY <1>1, <1>2

\* A text that preprocessing takes for a field that is missing, and any value that
\* schema repair takes.
IsText(x) == IsString(x) /\ x # Str("")
IsSome(x) == x \notin {Absent, Null, Str("")}

Missing(v, k) == At(v, k) \in {Absent, Null}

\* Where the aliases of k give one.
Given(v, k) == {i \in DOMAIN AliasesOf(k) : IsText(At(v, AliasesOf(k)[i]))}

After(hit, v) == IF hit.hit THEN hit.v ELSE v

LEMMA HitIs == /\ Miss.hit = FALSE
               /\ \A v : Hit(v).hit = TRUE /\ Hit(v).v = v
BY DEF Miss, Hit

LEMMA ExactAliasIs ==
  ASSUME NEW v, IsRecord(v), NEW k \in Named
  PROVE  LET r == ExactAlias(v, k) IN
         /\ r.hit \in BOOLEAN
         /\ r.hit <=> Missing(v, k) /\ Given(v, k) # {}
         /\ r.hit => LET a == AliasesOf(k)[Min(Given(v, k))] IN
                     a \in NamesOf(k) \ {k} /\ IsText(At(v, a)) /\ Moved(v, r.v, k, a)
<1> DEFINE found == Given(v, k)
           a == AliasesOf(k)[Min(found)]
           r == ExactAlias(v, k)
<1>1. r = IF Missing(v, k) /\ found # {}
          THEN Hit(Without(With(v, k, v.f[a]), {a})) ELSE Miss
  BY DEF ExactAlias, Rename, Given, Missing, IsText
<1>2. ASSUME found # {}
      PROVE  a \in NamesOf(k) \ {k} /\ IsText(At(v, a))
  <2>1. found \subseteq {1, 2}
    BY AliasPairs DEF Given
  <2>2. Min(found) \in found
    BY <1>2, <2>1, LeastOfTwo
  <2>3. IsText(At(v, a)) /\ Min(found) \in {1, 2}
    BY <2>1, <2>2 DEF Given
  <2>4. a \in {Alias1(k), Alias2(k)}
    BY <2>3 DEF Alias1, Alias2
  <2> HIDE DEF a
  <2> QED
    BY <2>3, <2>4, AliasPairs
<1> HIDE DEF found, a
<1>3. ASSUME found # {} PROVE Moved(v, Without(With(v, k, v.f[a]), {a}), k, a)
  <2>1. a # k /\ At(v, a) # Absent
    BY <1>2, <1>3, KindsDiffer DEF IsText
  <2> QED
    BY <2>1, MovedIs
<1>4. r.hit \in BOOLEAN /\ (r.hit <=> Missing(v, k) /\ found # {})
  BY <1>1, HitIs
<1>5. r.hit => r.v = Without(With(v, k, v.f[a]), {a})
  BY <1>1, <1>4, HitIs
<1> HIDE DEF r
<1>6. r.hit => a \in NamesOf(k) \ {k} /\ IsText(At(v, a)) /\ Moved(v, r.v, k, a)
  BY <1>2, <1>3, <1>4, <1>5
<1> QED
  BY <1>4, <1>6 DEF r, a, found

-----------------------------------------------------------------------------
(* The other rules on objects.                                               *)

\* w is v with x under k.
Set(v, w, k, x) ==
  IsRecord(w) /\ \A j : At(w, j) = IF j = k THEN x ELSE At(v, j)

LEMMA WithSets ==
  ASSUME NEW v, IsRecord(v), NEW k, NEW x, IsJson(x)
  PROVE  Set(v, With(v, k, x), k, x)
BY WithIs DEF Set

LEMMA StringAt ==
  ASSUME NEW v, NEW k, At(v, k) # Absent
  PROVE  IsObj(v) /\ k \in DOMAIN v.f /\ v.f[k] = At(v, k)
BY DEF At

LEMMA InferDeletionIs ==
  ASSUME NEW v, IsRecord(v)
  PROVE  LET r == InferDeletion(v) IN
         /\ r.hit \in BOOLEAN
         /\ r.hit <=> /\ At(v, "newText") = Absent /\ At(v, "new_str") = Absent
                      /\ IsText(At(v, "oldText"))
         /\ r.hit => Set(v, r.v, "newText", Str(""))
<1> DEFINE When == /\ {At(v, "newText"), At(v, "new_str")} = {Absent}
                   /\ IsString(At(v, "oldText")) /\ v.f.oldText # Str("")
           r == InferDeletion(v)
<1>1. When <=> /\ At(v, "newText") = Absent /\ At(v, "new_str") = Absent
               /\ IsText(At(v, "oldText"))
  <2>1. IsString(At(v, "oldText")) => v.f.oldText = At(v, "oldText")
    BY StringAt, KindsDiffer
  <2> QED
    BY <2>1 DEF IsText
<1>2. r = IF When THEN Hit(With(v, "newText", Str(""))) ELSE Miss
  BY DEF InferDeletion
<1> HIDE DEF When, r
<1>3. Set(v, With(v, "newText", Str("")), "newText", Str(""))
  BY AtomsAreJson, WithSets
<1>4. r.hit \in BOOLEAN /\ (r.hit <=> When) /\ (r.hit => Set(v, r.v, "newText", Str("")))
  <2>1. CASE When
    BY <1>2, <1>3, <2>1, HitIs
  <2>2. CASE ~When
    BY <1>2, <2>2, HitIs
  <2> QED
    BY <2>1, <2>2
<1> QED
  BY <1>1, <1>4 DEF r

LEMMA InferInsertionIs ==
  ASSUME NEW v, IsRecord(v)
  PROVE  LET r == InferInsertion(v) IN
         /\ r.hit \in BOOLEAN
         /\ r.hit => /\ At(v, "oldText") = Absent /\ At(v, "old_str") = Absent
                     /\ IsText(At(v, "newText")) /\ IsString(At(v, "anchor"))
                     /\ Set(v, r.v, "oldText", At(v, "anchor"))
<1> DEFINE When == /\ {At(v, "oldText"), At(v, "old_str")} = {Absent}
                   /\ At(v, "newText").t = "str" /\ At(v, "anchor").t = "str"
                   /\ <<v.f.anchor.s, v.f.newText.s>> \in Within
           r == InferInsertion(v)
<1>1. r = IF When THEN Hit(With(v, "oldText", v.f.anchor)) ELSE Miss
  BY DEF InferInsertion
<1>2. ASSUME When
      PROVE  /\ At(v, "oldText") = Absent /\ At(v, "old_str") = Absent
             /\ IsText(At(v, "newText")) /\ IsString(At(v, "anchor"))
             /\ v.f.anchor = At(v, "anchor") /\ IsJson(At(v, "anchor"))
  <2>1. Absent.t = "absent" /\ Str("").s = ""
    BY DEF Absent, Str
  <2>2. At(v, "newText") # Absent /\ At(v, "anchor") # Absent
    BY <1>2, <2>1
  <2>3. v.f.newText = At(v, "newText") /\ v.f.anchor = At(v, "anchor")
    BY <2>2, StringAt
  <2>4. v.f.newText.s # ""
    BY <1>2, RepairAssumption
  <2>5. At(v, "newText") # Str("")
    BY <2>1, <2>3, <2>4
  <2>6. IsJson(At(v, "anchor"))
    BY <2>2, AtIsJson DEF IsRecord, JsonOrNone
  <2> QED
    BY <1>2, <2>3, <2>5, <2>6 DEF IsText, IsString
<1> HIDE DEF When, r
<1>3. CASE When
  <2>1. Set(v, With(v, "oldText", v.f.anchor), "oldText", At(v, "anchor"))
    BY <1>2, <1>3, WithSets
  <2>2. r.hit = TRUE /\ r.v = With(v, "oldText", v.f.anchor)
    BY <1>1, <1>3, HitIs
  <2> QED
    BY <1>2, <1>3, <2>1, <2>2 DEF r
<1>4. CASE ~When
  BY <1>1, <1>4, HitIs DEF r
<1> QED
  BY <1>3, <1>4

-----------------------------------------------------------------------------
(* Hoisting the path edits name.                                             *)

Cleaned(x) == IF IsObj(x) THEN Without(x, {"path"}) ELSE x

\* The paths that the edits, an array, name.
PathsIn(edits) ==
  {p \in {At(edits.e[i], "path") : i \in DOMAIN edits.e} : IsText(p)}

LEMMA CleanedIs ==
  ASSUME NEW x, IsJson(x)
  PROVE  /\ IsJson(Cleaned(x)) /\ (IsObj(Cleaned(x)) <=> IsObj(x))
         /\ \A j : At(Cleaned(x), j) = IF j = "path" THEN Absent ELSE At(x, j)
<1>1. CASE IsObj(x)
  <2>1. IsRecord(x)
    BY <1>1 DEF IsRecord
  <2>2. IsRecord(Without(x, {"path"}))
        /\ \A j : At(Without(x, {"path"}), j) = IF j \in {"path"} THEN Absent ELSE At(x, j)
    BY <2>1, WithoutIs
  <2> QED
    BY <1>1, <2>2 DEF Cleaned, IsRecord
<1>2. CASE ~IsObj(x)
  BY <1>2, NoFields DEF Cleaned
<1> QED
  BY <1>1, <1>2

\* An array rewritten place by place.
LEMMA RewrittenIs ==
  ASSUME NEW v, IsJson(v), IsArr(v), NEW g, DOMAIN g = DOMAIN v.e, g = [i \in DOMAIN g |-> g[i]],
         \A i \in DOMAIN v.e : IsJson(g[i])
  PROVE  /\ IsJson(Arr(g)) /\ IsArr(Arr(g)) /\ Arr(g).e = g
         /\ IsListed(g) /\ Len(g) = Len(v.e) /\ Len(g) \in Nat /\ DOMAIN g = 1 .. Len(g)
<1>1. IsListed(v.e)
  BY ArrIs
<1>2. Len(v.e) \in Nat /\ DOMAIN v.e = 1 .. Len(v.e)
  BY <1>1, ListIs
<1>3. IsListed(g) /\ Len(g) = Len(v.e) /\ DOMAIN g = 1 .. Len(v.e)
  BY <1>2, MakesList
<1> QED
  BY <1>2, <1>3, ArrIsJson, Encoded

LEMMA PathsFinite ==
  ASSUME NEW v, IsJson(v), IsArr(v)
  PROVE  IsFiniteSet(PathsIn(v))
<1> DEFINE T == {At(v.e[i], "path") : i \in DOMAIN v.e}
           g == [i \in DOMAIN v.e |-> At(v.e[i], "path")]
<1>1. IsFiniteSet(DOMAIN v.e)
  <2>1. Len(v.e) \in Nat /\ DOMAIN v.e = 1 .. Len(v.e)
    BY ArrIs, ListIs
  <2> QED
    BY <2>1, FS_Interval
<1>2. g \in Surjection(DOMAIN v.e, T)
  BY DEF Surjection
<1>3. IsFiniteSet(T)
  <2> HIDE DEF g, T
  <2> QED
    BY <1>1, <1>2, FS_Surjection
<1>4. PathsIn(v) \in SUBSET T
  BY DEF PathsIn
<1> HIDE DEF T
<1> QED
  BY <1>3, <1>4, FS_Subset

LEMMA HoistIs ==
  ASSUME NEW v, IsRecord(v)
  PROVE  LET r == HoistNestedPath(v)
             edits == At(v, "edits")
         IN
         /\ r.hit \in BOOLEAN
         /\ r.hit => /\ ~IsText(At(v, "path")) /\ IsArr(edits) /\ IsRecord(r.v)
                     /\ \E p : /\ PathsIn(edits) = {p} /\ IsText(p) /\ At(r.v, "path") = p
                     /\ At(r.v, "edits") = Arr([i \in DOMAIN edits.e |-> Cleaned(edits.e[i])])
                     /\ \A j : j \notin {"path", "edits"} => At(r.v, j) = At(v, j)
<1> DEFINE edits == At(v, "edits")
           named == PathsIn(edits)
           cleaned == Arr([i \in DOMAIN edits.e |-> Cleaned(edits.e[i])])
           When == /\ ~IsString(At(v, "path")) \/ v.f.path = Str("")
                   /\ IsArr(edits) /\ Agreed(named)
           r == HoistNestedPath(v)
           u == With(v, "path", CHOOSE p \in named : TRUE)
<1>1. r = IF When THEN Hit(With(u, "edits", cleaned)) ELSE Miss
  BY DEF HoistNestedPath, PathsIn, IsText, Cleaned
<1>2. CASE When
  <2>1. IsArr(edits) /\ IsJson(edits)
    <3>1. edits # Absent
      BY <1>2, KindsDiffer
    <3> QED
      BY <1>2, <3>1, AtIsJson DEF IsRecord, JsonOrNone
  <2>2. ~IsText(At(v, "path"))
    <3>1. IsString(At(v, "path")) => v.f.path = At(v, "path")
      BY StringAt, KindsDiffer
    <3> QED
      BY <1>2, <3>1 DEF IsText
  <2>3. IsFiniteSet(named) /\ Cardinality(named) = 1
    <3> HIDE DEF edits
    <3> QED
      BY <1>2, <2>1, PathsFinite DEF Agreed
  <2>4. PICK p : named = {p}
    BY <2>3, FS_Singleton
  <2>5. IsText(p) /\ p \in {At(edits.e[i], "path") : i \in DOMAIN edits.e}
    BY <2>4 DEF PathsIn
  <2>6. IsJson(p)
    <3>1. PICK i \in DOMAIN edits.e : p = At(edits.e[i], "path")
      BY <2>5
    <3>2. IsJson(edits.e[i])
      BY <2>1, ArrIs
    <3>3. JsonOrNone(p)
      BY <3>1, <3>2, AtIsJson
    <3> QED
      BY <2>5, <3>3, KindsDiffer DEF IsText, JsonOrNone
  <2>7. (CHOOSE q \in named : TRUE) = p
    <3> HIDE DEF named
    <3> QED
      BY <2>4
  <2>8. Set(v, u, "path", p)
    BY <2>6, <2>7, WithSets
  <2>9. IsJson(cleaned)
    <3> DEFINE g == [i \in DOMAIN edits.e |-> Cleaned(edits.e[i])]
    <3> HIDE DEF edits
    <3>1. \A i \in DOMAIN edits.e : IsJson(g[i])
      BY <2>1, ArrIs, CleanedIs
    <3>2. DOMAIN g = DOMAIN edits.e /\ g = [i \in DOMAIN g |-> g[i]]
      OBVIOUS
    <3> HIDE DEF g
    <3>3. IsJson(Arr(g))
      BY <2>1, <3>1, <3>2, RewrittenIs
    <3> QED
      BY <3>3 DEF g
  <2> HIDE DEF u, cleaned, r
  <2>10. Set(u, With(u, "edits", cleaned), "edits", cleaned)
    BY <2>8, <2>9, WithSets DEF Set
  <2>11. r.hit = TRUE /\ r.v = With(u, "edits", cleaned)
    BY <1>1, <1>2, HitIs
  <2>12. /\ IsRecord(r.v) /\ At(r.v, "path") = p /\ At(r.v, "edits") = cleaned
         /\ \A j : j \notin {"path", "edits"} => At(r.v, j) = At(v, j)
    BY <2>8, <2>10, <2>11 DEF Set
  <2> QED
    BY <2>1, <2>2, <2>4, <2>5, <2>11, <2>12 DEF r, cleaned
<1>3. CASE ~When
  <2> HIDE DEF When
  <2>1. r.hit = FALSE
    BY <1>1, <1>3, HitIs
  <2> QED
    BY <2>1
<1> QED
  BY <1>2, <1>3

-----------------------------------------------------------------------------
(* Folding the texts at the top level.                                       *)

LEMMA FirstStringIs ==
  ASSUME NEW v, NEW k, NEW alias
  PROVE  LET x == FirstString(v, k, alias) IN
         /\ x # Absent => IsString(x) /\ x \in {At(v, k), At(v, alias)}
         /\ x = Absent <=> ~IsString(At(v, k)) /\ ~IsString(At(v, alias))
         /\ IsString(At(v, k)) => x = At(v, k)
BY KindsDiffer DEF FirstString

\* The edit that is folded.
Folded(v) ==
  LET pair == Obj([oldText |-> FirstString(v, "oldText", "old_str"),
                   newText |-> FirstString(v, "newText", "new_str")])
  IN  IF IsString(At(v, "anchor")) THEN With(pair, "anchor", At(v, "anchor")) ELSE pair

FoldMisses(v) == Absent \in {FirstString(v, "oldText", "old_str"), FirstString(v, "newText", "new_str")}

LEMMA FoldedIs ==
  ASSUME NEW v, IsRecord(v), ~FoldMisses(v)
  PROVE  LET x == Folded(v) IN
         /\ IsRecord(x) /\ IsEdit(x)
         /\ At(x, "oldText") = FirstString(v, "oldText", "old_str")
         /\ At(x, "newText") = FirstString(v, "newText", "new_str")
         /\ At(x, "anchor") = IF IsString(At(v, "anchor")) THEN At(v, "anchor") ELSE Absent
         /\ \A j : j \notin {"oldText", "newText", "anchor"} => At(x, j) = Absent
<1> DEFINE old == FirstString(v, "oldText", "old_str")
           new == FirstString(v, "newText", "new_str")
           f == [oldText |-> old, newText |-> new]
           pair == Obj(f)
           anchor == At(v, "anchor")
<1>1. old # Absent /\ new # Absent
  BY DEF FoldMisses
<1>2. IsString(old) /\ IsString(new) /\ IsJson(old) /\ IsJson(new)
  <2>1. old \in {At(v, "oldText"), At(v, "old_str")} /\ new \in {At(v, "newText"), At(v, "new_str")}
        /\ IsString(old) /\ IsString(new)
    BY <1>1, FirstStringIs
  <2>2. \A k : At(v, k) # Absent => IsJson(At(v, k))
    BY AtIsJson DEF IsRecord, JsonOrNone
  <2> QED
    BY <1>1, <2>1, <2>2
<1> HIDE DEF old, new
<1>3. DOMAIN f = {"oldText", "newText"} /\ f = [k \in DOMAIN f |-> f[k]]
      /\ f["oldText"] = old /\ f["newText"] = new
  OBVIOUS
<1>4. \A k \in DOMAIN f : IsJson(f[k])
  BY <1>2, <1>3
<1> HIDE DEF f
<1>5. IsRecord(pair) /\ \A k : At(pair, k) = IF k \in DOMAIN f THEN f[k] ELSE Absent
  BY <1>3, <1>4, MakesRecord
<1>6. Folded(v) = IF IsString(anchor) THEN With(pair, "anchor", anchor) ELSE pair
  BY DEF Folded, f, old, new
<1> HIDE DEF pair
<1>7. /\ IsRecord(Folded(v)) /\ At(Folded(v), "oldText") = old /\ At(Folded(v), "newText") = new
      /\ At(Folded(v), "anchor") = IF IsString(anchor) THEN anchor ELSE Absent
      /\ \A j : j \notin {"oldText", "newText", "anchor"} => At(Folded(v), j) = Absent
  <2>1. CASE IsString(anchor)
    <3>1. IsJson(anchor)
      BY <2>1, AtIsJson, KindsDiffer DEF IsRecord, JsonOrNone
    <3>2. Set(pair, With(pair, "anchor", anchor), "anchor", anchor)
      BY <1>5, <3>1, WithSets
    <3> HIDE DEF anchor
    <3> QED
      BY <1>3, <1>5, <1>6, <2>1, <3>2 DEF Set
  <2>2. CASE ~IsString(anchor)
    BY <1>3, <1>5, <1>6, <2>2
  <2> QED
    BY <2>1, <2>2
<1>8. IsEdit(Folded(v))
  BY <1>2, <1>7 DEF IsEdit, Required
<1> QED
  BY <1>7, <1>8 DEF old, new

LEMMA FlatFoldIs ==
  ASSUME NEW v, IsRecord(v)
  PROVE  LET r == FlatFold(v)
             edits == At(v, "edits")
             q == FoldedEdits(v, Folded(v))
         IN
         /\ r.hit \in BOOLEAN /\ (r.hit <=> ~FoldMisses(v))
         /\ r.hit => /\ IsRecord(r.v) /\ At(r.v, "edits") = Arr(q) /\ IsJson(Arr(q))
                     /\ q = IF IsArr(edits) THEN Append(edits.e, Folded(v)) ELSE <<Folded(v)>>
                     /\ \A j : j # "edits" =>
                          At(r.v, j) = IF j \in FoldedFields THEN Absent ELSE At(v, j)
<1> DEFINE r == FlatFold(v)
           edits == At(v, "edits")
           q == FoldedEdits(v, Folded(v))
           rest == Without(v, FoldedFields)
<1>1. r = IF FoldMisses(v) THEN Miss ELSE Hit(With(rest, "edits", Arr(q)))
  BY DEF FlatFold, FoldMisses, Folded
<1>2. q = IF IsArr(edits) THEN Append(edits.e, Folded(v)) ELSE <<Folded(v)>>
  <2>1. IsArr(edits) => v.f.edits = edits
    BY StringAt, KindsDiffer
  <2> QED
    BY <2>1 DEF FoldedEdits
<1>3. ASSUME ~FoldMisses(v) PROVE IsJson(Arr(q))
  <2>1. IsJson(Folded(v))
    BY <1>3, FoldedIs DEF IsRecord
  <2>2. CASE IsArr(edits)
    <3>1. IsJson(edits)
      BY <2>2, AtIsJson, KindsDiffer DEF IsRecord, JsonOrNone
    <3>2. IsListed(edits.e) /\ \A i \in DOMAIN edits.e : IsJson(edits.e[i])
      BY <2>2, <3>1, ArrIs
    <3> HIDE DEF edits
    <3>3. DOMAIN edits.e = 1 .. Len(edits.e) /\ Len(edits.e) \in Nat
      BY <3>2, ListIs
    <3> DEFINE p == Append(edits.e, Folded(v))
    <3>4. /\ IsListed(p) /\ DOMAIN p = 1 .. Len(edits.e) + 1
          /\ p[Len(edits.e) + 1] = Folded(v) /\ \A i \in 1 .. Len(edits.e) : p[i] = edits.e[i]
      BY <3>2, AppendIs
    <3> HIDE DEF p
    <3>5. ASSUME NEW i \in DOMAIN p PROVE IsJson(p[i])
      <4>1. i \in 1 .. Len(edits.e) \/ i = Len(edits.e) + 1
        BY <3>3, <3>4
      <4> QED
        BY <2>1, <3>2, <3>3, <3>4, <4>1
    <3>6. IsJson(Arr(p))
      BY <3>4, <3>5, ArrIsJson
    <3> QED
      BY <1>2, <2>2, <3>6 DEF p
  <2>3. CASE ~IsArr(edits)
    <3>1. \A i \in DOMAIN <<Folded(v)>> : IsJson(<<Folded(v)>>[i])
      BY <2>1, SingleIs
    <3>2. IsJson(Arr(<<Folded(v)>>))
      BY <3>1, SingleIs, ArrIsJson
    <3> QED
      BY <1>2, <2>3, <3>2
  <2> QED
    BY <2>2, <2>3
<1>4. IsRecord(rest) /\ \A j : At(rest, j) = IF j \in FoldedFields THEN Absent ELSE At(v, j)
  BY WithoutIs
<1> HIDE DEF r, q, rest
<1>5. CASE ~FoldMisses(v)
  <2>1. Set(rest, With(rest, "edits", Arr(q)), "edits", Arr(q))
    BY <1>3, <1>4, <1>5, WithSets
  <2>2. r.hit = TRUE /\ r.v = With(rest, "edits", Arr(q))
    BY <1>1, <1>5, HitIs
  <2>3. IsRecord(r.v) /\ At(r.v, "edits") = Arr(q)
        /\ \A j : j # "edits" => At(r.v, j) = At(rest, j)
    BY <2>1, <2>2 DEF Set
  <2> QED
    BY <1>2, <1>3, <1>4, <1>5, <2>2, <2>3 DEF r, q
<1>6. CASE FoldMisses(v)
  <2>1. r.hit = FALSE
    BY <1>1, <1>6, HitIs
  <2> QED
    BY <1>6, <2>1 DEF r
<1> QED
  BY <1>5, <1>6

-----------------------------------------------------------------------------
(* One rule of a run.                                                        *)

\* A run of the preprocessors on an object.
IsRun(s) ==
  /\ s \in [v : {s.v}, changes : {s.changes}, threw : BOOLEAN]
  /\ IsListed(s.changes) /\ IsRecord(s.v)

\* t comes after s: rules that hit are listed, and what is not listed changes nothing.
Follows(s, t) ==
  /\ IsRun(t)
  /\ t.changes = <<>> => s.changes = <<>> /\ t.v = s.v

\* t comes after s with the value w.
TurnsTo(s, t, w) == Follows(s, t) /\ t.v = w /\ t.threw = s.threw

LEMMA Lists ==
  ASSUME NEW q, IsListed(q), NEW x
  PROVE  /\ IsListed(Append(q, x)) /\ Append(q, x) # <<>>
         /\ \A n \in Nat :
              IsListed(q \o Times(n, x)) /\ (q \o Times(n, x) = <<>> => q = <<>> /\ n = 0)
<1> DEFINE S == {q[i] : i \in 1 .. Len(q)} \cup {x}
<1>1. q \in Seq(S) /\ x \in S
  BY ListIs
<1> HIDE DEF S
<1>2. Append(q, x) # <<>>
  <2> DEFINE p == Append(q, x)
  <2>1. p \in Seq(S) /\ Len(p) = Len(q) + 1 /\ Len(q) \in Nat
    BY <1>1
  <2>2. Len(<<>>) = 0
    OBVIOUS
  <2> HIDE DEF p
  <2>3. p # <<>>
    BY <2>1, <2>2
  <2> QED
    BY <2>3 DEF p
<1>3. ASSUME NEW n \in Nat
      PROVE  IsListed(q \o Times(n, x)) /\ (q \o Times(n, x) = <<>> => q = <<>> /\ n = 0)
  <2> DEFINE r == Times(n, x)
             p == q \o r
  <2>1. r \in Seq(S) /\ Len(r) = n
    BY <1>1 DEF Times
  <2> HIDE DEF r
  <2>2. p \in Seq(S) /\ Len(p) = Len(q) + n /\ Len(q) \in Nat
    BY <1>1, <2>1
  <2>3. Len(<<>>) = 0
    OBVIOUS
  <2> HIDE DEF p
  <2>4. p = <<>> => Len(q) = 0 /\ n = 0
    BY <2>2, <2>3
  <2>5. Len(q) = 0 => q = <<>>
    BY <1>1, EmptySeq
  <2>6. IsListed(p) /\ (p = <<>> => q = <<>> /\ n = 0)
    BY <2>2, <2>4, <2>5, SeqIsListed
  <2> QED
    BY <2>6 DEF p, r
<1> QED
  BY <1>2, <1>3, AppendIs

LEMMA RunWith ==
  ASSUME NEW s, IsRun(s), NEW w, NEW q
  PROVE  [s EXCEPT !.v = w, !.changes = q] = [v |-> w, changes |-> q, threw |-> s.threw]
<1> DEFINE t == [s EXCEPT !.v = w, !.changes = q]
<1>1. t \in [v : {w}, changes : {q}, threw : {s.threw}]
  BY DEF IsRun
<1> HIDE DEF t
<1>2. t = [v |-> w, changes |-> q, threw |-> s.threw]
  BY <1>1
<1> QED
  BY <1>2 DEF t

LEMMA RunStays == ASSUME NEW s, IsRun(s) PROVE TurnsTo(s, s, s.v)
BY DEF TurnsTo, Follows

LEMMA RunGoes ==
  ASSUME NEW s, IsRun(s), NEW w, IsRecord(w), NEW n \in Nat, NEW rule,
         n = 0 => w = s.v
  PROVE  TurnsTo(s, [s EXCEPT !.v = w, !.changes = @ \o Times(n, rule)], w)
<1> DEFINE t == [s EXCEPT !.v = w, !.changes = @ \o Times(n, rule)]
           q == s.changes \o Times(n, rule)
<1>1. t = [v |-> w, changes |-> q, threw |-> s.threw]
  BY RunWith
<1>2. IsListed(q) /\ (q = <<>> => s.changes = <<>> /\ n = 0)
  BY Lists DEF IsRun
<1> HIDE DEF q, t
<1>3. t.v = w /\ t.changes = q /\ t.threw = s.threw /\ s.threw \in BOOLEAN
  BY <1>1 DEF IsRun
<1>4. IsRun(t)
  BY <1>1, <1>2, <1>3 DEF IsRun
<1>5. TurnsTo(s, t, w)
  BY <1>2, <1>3, <1>4 DEF TurnsTo, Follows
<1> QED
  BY <1>5 DEF t

LEMMA RunHits ==
  ASSUME NEW s, IsRun(s), NEW w, IsRecord(w), NEW rule
  PROVE  TurnsTo(s, [s EXCEPT !.v = w, !.changes = Append(@, rule)], w)
<1> DEFINE t == [s EXCEPT !.v = w, !.changes = Append(@, rule)]
           q == Append(s.changes, rule)
<1>1. t = [v |-> w, changes |-> q, threw |-> s.threw]
  BY RunWith
<1>2. IsListed(q) /\ q # <<>>
  BY Lists DEF IsRun
<1> HIDE DEF q, t
<1>3. t.v = w /\ t.changes = q /\ t.threw = s.threw /\ s.threw \in BOOLEAN
  BY <1>1 DEF IsRun
<1>4. IsRun(t)
  BY <1>1, <1>2, <1>3 DEF IsRun
<1>5. TurnsTo(s, t, w)
  BY <1>2, <1>3, <1>4 DEF TurnsTo, Follows
<1> QED
  BY <1>5 DEF t

LEMMA AtRootIs ==
  ASSUME NEW s, IsRun(s), NEW rule, NEW hit, hit.hit \in BOOLEAN,
         hit.hit => IsRecord(hit.v)
  PROVE  TurnsTo(s, AtRoot(s, rule, hit), After(hit, s.v))
<1>1. CASE hit.hit
  <2>1. AtRoot(s, rule, hit) = [s EXCEPT !.v = hit.v, !.changes = Append(@, rule)]
    BY <1>1 DEF AtRoot
  <2>2. After(hit, s.v) = hit.v
    BY <1>1 DEF After
  <2>3. TurnsTo(s, [s EXCEPT !.v = hit.v, !.changes = Append(@, rule)], hit.v)
    BY <1>1, RunHits
  <2> QED
    BY <2>1, <2>2, <2>3
<1>2. CASE ~hit.hit
  BY <1>2, RunStays DEF AtRoot, After
<1> QED
  BY <1>1, <1>2

LEMMA AtEditsIs ==
  ASSUME NEW s, IsRun(s), NEW rule, NEW hit, hit.hit \in BOOLEAN,
         hit.hit => IsJson(hit.v)
  PROVE  TurnsTo(s, AtEdits(s, rule, hit), IF hit.hit THEN With(s.v, "edits", hit.v) ELSE s.v)
<1>1. CASE hit.hit
  <2>1. AtEdits(s, rule, hit)
          = [s EXCEPT !.v = With(s.v, "edits", hit.v), !.changes = Append(@, rule)]
    BY <1>1 DEF AtEdits
  <2>2. IsRecord(With(s.v, "edits", hit.v))
    BY <1>1, WithIs DEF IsRun
  <2> DEFINE w == With(s.v, "edits", hit.v)
  <2> HIDE DEF w
  <2>3. TurnsTo(s, [s EXCEPT !.v = w, !.changes = Append(@, rule)], w)
    BY <2>2, RunHits DEF w
  <2> QED
    BY <1>1, <2>1, <2>3 DEF w
<1>2. CASE ~hit.hit
  BY <1>2, RunStays DEF AtEdits
<1> QED
  BY <1>1, <1>2

\* The value with its edits rewritten, where they are an array.
Rewritten(v, g) == With(v, "edits", Arr(g))

LEMMA SameEdits ==
  ASSUME NEW v, IsRecord(v), NEW x, At(v, "edits") = x, x # Absent
  PROVE  With(v, "edits", x) = v
<1>1. IsJson(x)
  BY AtIsJson DEF IsRecord, JsonOrNone
<1>2. Set(v, With(v, "edits", x), "edits", x)
  BY <1>1, WithSets
<1> QED
  BY <1>2, SameRecord DEF Set

\* A rule on each edit; r is what it finds at each place.
ReachedEdits(e, r) == [i \in DOMAIN e |-> IF r[i].hit THEN r[i].v ELSE e[i]]

LEMMA EachEditIs ==
  ASSUME NEW s, IsRun(s), NEW rule, IsArr(At(s.v, "edits")),
         NEW r, LET e == s.v.f.edits.e IN
                \A i \in DOMAIN e : r[i].hit \in BOOLEAN /\ (r[i].hit => IsJson(r[i].v))
  PROVE  LET e == s.v.f.edits.e
             n == Cardinality({i \in DOMAIN e : r[i].hit})
             t == IF n = 0 THEN s
                  ELSE [s EXCEPT !.v = With(s.v, "edits",
                                 Arr([i \in DOMAIN e |-> IF r[i].hit THEN r[i].v ELSE e[i]])),
                         !.changes = @ \o Times(n, rule)]
         IN  TurnsTo(s, t, With(s.v, "edits", Arr(ReachedEdits(e, r))))
<1> DEFINE edits == At(s.v, "edits")
           e == edits.e
           hits == {i \in DOMAIN e : r[i].hit}
           n == Cardinality(hits)
           g == ReachedEdits(e, r)
           t == IF n = 0 THEN s
                ELSE [s EXCEPT !.v = With(s.v, "edits", Arr(g)), !.changes = @ \o Times(n, rule)]
<1>1. s.v.f.edits = edits /\ IsJson(edits) /\ IsArr(edits)
  <2>1. edits # Absent
    BY KindsDiffer
  <2> QED
    BY <2>1, StringAt, AtIsJson DEF IsRun, IsRecord, JsonOrNone
<1> HIDE DEF edits
<1>2. IsListed(e) /\ edits = Arr(e) /\ \A i \in DOMAIN e : IsJson(e[i])
  BY <1>1, ArrIs
<1>3. DOMAIN e = 1 .. Len(e) /\ Len(e) \in Nat
  BY <1>2, ListIs
<1>4. IsFiniteSet(hits) /\ n \in Nat /\ (n = 0 => hits = {})
  <2>1. hits \in SUBSET (1 .. Len(e)) /\ IsFiniteSet(1 .. Len(e))
    BY <1>3, FS_Interval
  <2>2. IsFiniteSet(hits)
    BY <2>1, FS_Subset
  <2> HIDE DEF hits
  <2> QED
    BY <2>2, FS_CardinalityType, FS_EmptySet
<1>5. DOMAIN g = DOMAIN e /\ g = [i \in DOMAIN g |-> g[i]]
      /\ \A i \in DOMAIN e : g[i] = IF r[i].hit THEN r[i].v ELSE e[i]
  BY DEF ReachedEdits
<1>6. \A i \in DOMAIN e : IsJson(g[i])
  BY <1>1, <1>2, <1>5
<1>7. IsJson(Arr(g)) /\ IsListed(g) /\ Len(g) = Len(e) /\ DOMAIN g = 1 .. Len(g)
  <2> HIDE DEF g
  <2> QED
    BY <1>1, <1>5, <1>6, RewrittenIs
<1>8. IsRecord(With(s.v, "edits", Arr(g)))
  BY <1>7, WithIs DEF IsRun
<1>9. n = 0 => With(s.v, "edits", Arr(g)) = s.v
  <2> SUFFICES ASSUME n = 0 PROVE With(s.v, "edits", Arr(g)) = s.v
    OBVIOUS
  <2>1. \A i \in DOMAIN e : g[i] = e[i]
    BY <1>4, <1>5
  <2>2. g = e
    <3> HIDE DEF g
    <3> QED
      BY <1>2, <1>3, <1>7, <2>1, SameList
  <2>3. Arr(g) = edits /\ edits # Absent
    BY <1>1, <1>2, <2>2, KindsDiffer
  <2> QED
    BY <2>3, SameEdits DEF IsRun, edits
<1> HIDE DEF n, g, hits
<1>10. TurnsTo(s, t, With(s.v, "edits", Arr(g)))
  <2>1. CASE n = 0
    BY <1>9, <2>1, RunStays
  <2>2. CASE n # 0
    BY <1>4, <1>8, <2>2, RunGoes
  <2> QED
    BY <2>1, <2>2
<1> QED
  BY <1>1, <1>10 DEF n, g, hits, ReachedEdits

-----------------------------------------------------------------------------
(* All rules of a run.                                                       *)

\* The states of a run from s0.
Stages(rules, s0, n) ==
  CHOOSE f : f = [k \in 0 .. n |-> IF k = 0 THEN s0 ELSE Preprocess1(f[k - 1], rules[k])]

LEMMA StagesAre ==
  ASSUME NEW rules, NEW s0, NEW n \in Nat
  PROVE  /\ Stages(rules, s0, n)[0] = s0
         /\ \A k \in 1 .. n :
              Stages(rules, s0, n)[k] = Preprocess1(Stages(rules, s0, n)[k - 1], rules[k])
<1> DEFINE Runs(m) ==
             \E f : f = [k \in 0 .. m |-> IF k = 0 THEN s0 ELSE Preprocess1(f[k - 1], rules[k])]
           S == {m \in 0 .. n : Runs(m)}
<1>1. Runs(0)
  <2> DEFINE f == [k \in 0 .. 0 |-> s0]
  <2>1. f = [k \in 0 .. 0 |-> IF k = 0 THEN s0 ELSE Preprocess1(f[k - 1], rules[k])]
    OBVIOUS
  <2> QED
    BY <2>1
<1>2. ASSUME NEW m \in 0 .. n - 1, Runs(m) PROVE Runs(m + 1)
  <2>1. PICK g : g = [k \in 0 .. m |-> IF k = 0 THEN s0 ELSE Preprocess1(g[k - 1], rules[k])]
    BY <1>2, Zenon
  <2> DEFINE f == [k \in 0 .. m + 1 |-> IF k <= m THEN g[k] ELSE Preprocess1(g[m], rules[k])]
  <2>2. \A k \in 0 .. m + 1 : k # 0 => k - 1 \in 0 .. m /\ f[k - 1] = g[k - 1]
    OBVIOUS
  <2>3. ASSUME NEW k \in 0 .. m + 1
        PROVE  f[k] = IF k = 0 THEN s0 ELSE Preprocess1(f[k - 1], rules[k])
    <3>1. CASE k <= m
      <4>1. k \in 0 .. m
        BY <3>1
      <4> QED
        BY <4>1, <3>1, <2>1, <2>2
    <3>2. CASE ~(k <= m)
      <4>1. k = m + 1 /\ k - 1 = m /\ k # 0
        BY <3>2
      <4> QED
        BY <4>1, <3>2, <2>2
    <3> QED
      BY <3>1, <3>2
  <2>4. f = [k \in 0 .. m + 1 |-> IF k = 0 THEN s0 ELSE Preprocess1(f[k - 1], rules[k])]
    BY <2>3
  <2> QED
    BY <2>4
<1> HIDE DEF Runs
<1>3. 0 \in S /\ \A m \in 0 .. n - 1 : m \in S => m + 1 \in S
  BY <1>1, <1>2
<1> HIDE DEF S
<1>4. n \in S
  BY <1>3, UpTo
<1>5. \E f : f = [k \in 0 .. n |-> IF k = 0 THEN s0 ELSE Preprocess1(f[k - 1], rules[k])]
  BY <1>4 DEF S, Runs
<1> DEFINE f0 == Stages(rules, s0, n)
<1>6. f0 = [k \in 0 .. n |-> IF k = 0 THEN s0 ELSE Preprocess1(f0[k - 1], rules[k])]
  BY <1>5 DEF Stages
<1> HIDE DEF f0
<1>7. f0[0] = s0 /\ \A k \in 1 .. n : f0[k] = Preprocess1(f0[k - 1], rules[k])
  BY <1>6
<1> QED
  BY <1>7 DEF f0

Started(v, changes) == [v |-> v, changes |-> changes, threw |-> FALSE]

\* The states of a run of the rules.
States(rules, v, changes) == Stages(rules, Started(v, changes), Len(rules))

LEMMA RunIs ==
  ASSUME NEW rules, Len(rules) \in Nat, NEW v, NEW changes
  PROVE  /\ States(rules, v, changes)[0] = Started(v, changes)
         /\ \A k \in 1 .. Len(rules) :
              States(rules, v, changes)[k] = Preprocess1(States(rules, v, changes)[k - 1], rules[k])
         /\ Run(rules, v, changes) = States(rules, v, changes)[Len(rules)]
<1> DEFINE st == Stages(rules, Started(v, changes), Len(rules))
<1>1. Run(rules, v, changes) = st[Len(rules)]
  BY DEF Run, Stages, Started
<1>2. /\ st[0] = Started(v, changes)
      /\ \A k \in 1 .. Len(rules) : st[k] = Preprocess1(st[k - 1], rules[k])
  BY StagesAre
<1> QED
  BY <1>1, <1>2 DEF States

LEMMA PreprocessorsAre ==
  /\ Len(Preprocessors) = 13
  /\ Preprocessors[1] = "parse-stringified-edits" /\ Preprocessors[2] = "filter-empty-edits"
  /\ Preprocessors[3] = "normalize-edits" /\ Preprocessors[4] = "filter-empty-edits"
  /\ Preprocessors[5] = "drop-empty-edit-objects" /\ Preprocessors[6] = "alias-path"
  /\ Preprocessors[7] = "alias-oldText" /\ Preprocessors[8] = "alias-newText"
  /\ Preprocessors[9] = "alias-nested-path"
  /\ Preprocessors[10] = "infer-deletion-missing-newtext"
  /\ Preprocessors[11] = "infer-insertion-missing-oldtext"
  /\ Preprocessors[12] = "hoist-nested-path" /\ Preprocessors[13] = "flat-fold"
<1> DEFINE S == {"parse-stringified-edits", "filter-empty-edits", "normalize-edits",
                 "drop-empty-edit-objects", "alias-path", "alias-oldText", "alias-newText",
                 "alias-nested-path", "infer-deletion-missing-newtext",
                 "infer-insertion-missing-oldtext", "hoist-nested-path", "flat-fold"}
           last == <<"hoist-nested-path", "flat-fold">>
           two == NormalizeRules \o AliasRules
           three == two \o InferRules
<1>1. /\ NormalizeRules \in Seq(S) /\ Len(NormalizeRules) = 5
      /\ AliasRules \in Seq(S) /\ Len(AliasRules) = 4
      /\ InferRules \in Seq(S) /\ Len(InferRules) = 2
      /\ last \in Seq(S) /\ Len(last) = 2
  BY DEF NormalizeRules, AliasRules, InferRules
<1> HIDE DEF S, last
<1>2. /\ two \in Seq(S) /\ Len(two) = 9
      /\ \A i \in 1 .. 5 : two[i] = NormalizeRules[i]
      /\ \A i \in 1 .. 4 : two[5 + i] = AliasRules[i]
  <2> DEFINE p == NormalizeRules
             q == AliasRules
  <2>1. p \in Seq(S) /\ q \in Seq(S) /\ Len(p) = 5 /\ Len(q) = 4 /\ two = p \o q
    BY <1>1
  <2> HIDE DEF p, q, two
  <2>2. /\ two \in Seq(S) /\ Len(two) = Len(p) + Len(q)
        /\ \A i \in 1 .. Len(p) + Len(q) :
             two[i] = IF i <= Len(p) THEN p[i] ELSE q[i - Len(p)]
    BY <2>1, ConcatProperties
  <2> QED
    BY <2>1, <2>2 DEF p, q
<1> HIDE DEF two
<1>3. /\ three \in Seq(S) /\ Len(three) = 11
      /\ \A i \in 1 .. 9 : three[i] = two[i]
      /\ \A i \in 1 .. 2 : three[9 + i] = InferRules[i]
  <2> DEFINE q == InferRules
  <2>1. q \in Seq(S) /\ Len(q) = 2 /\ three = two \o q
    BY <1>1
  <2> HIDE DEF q, three
  <2>2. /\ three \in Seq(S) /\ Len(three) = Len(two) + Len(q)
        /\ \A i \in 1 .. Len(two) + Len(q) :
             three[i] = IF i <= Len(two) THEN two[i] ELSE q[i - Len(two)]
    BY <1>2, <2>1, ConcatProperties
  <2> QED
    BY <1>2, <2>1, <2>2 DEF q
<1> HIDE DEF three
<1>4. Preprocessors = three \o last
  BY DEF Preprocessors, two, three, last
<1>5. /\ Len(Preprocessors) = 13
      /\ \A i \in 1 .. 11 : Preprocessors[i] = three[i]
      /\ \A i \in 1 .. 2 : Preprocessors[11 + i] = last[i]
  <2> DEFINE r == Preprocessors
  <2>1. r = three \o last
    BY <1>4
  <2> HIDE DEF r
  <2>2. /\ Len(r) = Len(three) + Len(last)
        /\ \A i \in 1 .. Len(three) + Len(last) :
             r[i] = IF i <= Len(three) THEN three[i] ELSE last[i - Len(three)]
    BY <1>1, <1>3, <2>1, ConcatProperties
  <2> QED
    BY <1>1, <1>3, <2>2 DEF r
<1>6. /\ \A i \in 1 .. 5 : Preprocessors[i] = NormalizeRules[i]
      /\ \A i \in 1 .. 4 : Preprocessors[5 + i] = AliasRules[i]
      /\ \A i \in 1 .. 2 : Preprocessors[9 + i] = InferRules[i]
  BY <1>2, <1>3, <1>5
<1>7. /\ Preprocessors[1] = NormalizeRules[1] /\ Preprocessors[2] = NormalizeRules[2]
      /\ Preprocessors[3] = NormalizeRules[3] /\ Preprocessors[4] = NormalizeRules[4]
      /\ Preprocessors[5] = NormalizeRules[5] /\ Preprocessors[5 + 1] = AliasRules[1]
      /\ Preprocessors[5 + 2] = AliasRules[2] /\ Preprocessors[5 + 3] = AliasRules[3]
      /\ Preprocessors[5 + 4] = AliasRules[4] /\ Preprocessors[9 + 1] = InferRules[1]
      /\ Preprocessors[9 + 2] = InferRules[2]
      /\ Preprocessors[11 + 1] = last[1] /\ Preprocessors[11 + 2] = last[2]
  BY <1>5, <1>6
<1> QED
  BY <1>5, <1>7 DEF NormalizeRules, AliasRules, InferRules, last

-----------------------------------------------------------------------------
(* What the rules before the aliases make of the edits.                      *)

Parsed(x) == IF Lenient(x) /\ IsArr(x.v) THEN x.v ELSE x

Emptied(x) ==
  IF IsArr(x) THEN Arr(AtPlaces(x.e, {i \in DOMAIN x.e : x.e[i] # Str("")})) ELSE x

Normalized(x) == After(NormalizeEdits(x), x)

Hollow(x) == IsObj(x) /\ DOMAIN x.f = {}

Pruned(x) ==
  IF IsArr(x) THEN Arr(AtPlaces(x.e, {i \in DOMAIN x.e : ~Hollow(x.e[i])})) ELSE x

\* The values a rule sees and leaves.
LEMMA ParsedIs ==
  ASSUME NEW x, JsonOrNone(x)
  PROVE  /\ JsonOrNone(Parsed(x)) /\ ParseStringified(x).hit \in BOOLEAN
         /\ ParseStringified(x).hit => ParseStringified(x).v = Parsed(x) /\ Parsed(x) # Absent
         /\ ~ParseStringified(x).hit => Parsed(x) = x
<1>1. CASE Lenient(x) /\ IsArr(x.v)
  <2>1. x.t = "enc" /\ x # Absent
    BY <1>1, Encoded, KindsDiffer
  <2>2. IsJson(x.v)
    BY <2>1, EncodedIsJson DEF JsonOrNone
  <2>3. ParseStringified(x).hit = TRUE /\ ParseStringified(x).v = x.v /\ Parsed(x) = x.v
    BY <1>1, HitIs DEF ParseStringified, Parsed
  <2>4. x.v # Absent
    BY <1>1, KindsDiffer
  <2> QED
    BY <2>2, <2>3, <2>4 DEF JsonOrNone
<1>2. CASE ~(Lenient(x) /\ IsArr(x.v))
  <2>1. ParseStringified(x).hit = FALSE /\ Parsed(x) = x
    BY <1>2, HitIs DEF ParseStringified, Parsed
  <2> QED
    BY <2>1
<1> QED
  BY <1>1, <1>2

\* What filtering gives where the elements at s stay.
LEMMA FilterIs ==
  ASSUME NEW x, JsonOrNone(x), NEW s, IsArr(x) => s \subseteq DOMAIN x.e,
         NEW hit, hit = IF IsArr(x) /\ \E i \in DOMAIN x.e : i \notin s
                        THEN Hit(Arr(AtPlaces(x.e, s))) ELSE Miss
  PROVE  LET y == IF IsArr(x) THEN Arr(AtPlaces(x.e, s)) ELSE x IN
         /\ JsonOrNone(y) /\ hit.hit \in BOOLEAN
         /\ hit.hit => hit.v = y /\ y # Absent
         /\ ~hit.hit => y = x
<1>1. CASE IsArr(x)
  <2>1. IsJson(x)
    BY <1>1, KindsDiffer DEF JsonOrNone
  <2> DEFINE y == Arr(AtPlaces(x.e, s))
  <2>2. IsJson(y) /\ IsArr(y)
    BY <1>1, <2>1, FilteredIs
  <2>3. y # Absent
    BY <2>2, KindsDiffer
  <2>4. ASSUME \A i \in DOMAIN x.e : i \in s PROVE y = x
    <3>1. s = DOMAIN x.e
      BY <1>1, <2>4
    <3>2. x = Arr(x.e) /\ IsListed(x.e)
      BY <1>1, <2>1, ArrIs
    <3> QED
      BY <3>1, <3>2, AtAllPlaces
  <2> HIDE DEF y
  <2>5. hit = IF \E i \in DOMAIN x.e : i \notin s THEN Hit(y) ELSE Miss
    BY <1>1 DEF y
  <2>6. /\ JsonOrNone(y) /\ hit.hit \in BOOLEAN
        /\ hit.hit => hit.v = y /\ y # Absent
        /\ ~hit.hit => y = x
    BY <2>2, <2>3, <2>4, <2>5, HitIs DEF JsonOrNone
  <2> QED
    BY <1>1, <2>6 DEF y
<1>2. CASE ~IsArr(x)
  BY <1>2, HitIs
<1> QED
  BY <1>1, <1>2

LEMMA EmptiedIs ==
  ASSUME NEW x, JsonOrNone(x)
  PROVE  /\ JsonOrNone(Emptied(x)) /\ FilterEmpty(x).hit \in BOOLEAN
         /\ FilterEmpty(x).hit => FilterEmpty(x).v = Emptied(x) /\ Emptied(x) # Absent
         /\ ~FilterEmpty(x).hit => Emptied(x) = x
<1> DEFINE s == {i \in DOMAIN x.e : x.e[i] # Str("")}
           hit == FilterEmpty(x)
<1>1. hit = IF IsArr(x) /\ \E i \in DOMAIN x.e : i \notin s
            THEN Hit(Arr(AtPlaces(x.e, s))) ELSE Miss
  <2>1. \A i \in DOMAIN x.e : i \notin s <=> x.e[i] = Str("")
    OBVIOUS
  <2> QED
    BY <2>1 DEF FilterEmpty, Filter
<1>2. IsArr(x) => s \subseteq DOMAIN x.e
  OBVIOUS
<1>3. Emptied(x) = IF IsArr(x) THEN Arr(AtPlaces(x.e, s)) ELSE x
  BY DEF Emptied
<1> HIDE DEF s, hit
<1>4. LET y == IF IsArr(x) THEN Arr(AtPlaces(x.e, s)) ELSE x IN
      /\ JsonOrNone(y) /\ hit.hit \in BOOLEAN
      /\ hit.hit => hit.v = y /\ y # Absent
      /\ ~hit.hit => y = x
  BY <1>1, <1>2, FilterIs
<1> QED
  BY <1>3, <1>4 DEF hit

LEMMA PrunedIs ==
  ASSUME NEW x, JsonOrNone(x)
  PROVE  /\ JsonOrNone(Pruned(x)) /\ DropEmptyObjects(x).hit \in BOOLEAN
         /\ DropEmptyObjects(x).hit => DropEmptyObjects(x).v = Pruned(x) /\ Pruned(x) # Absent
         /\ ~DropEmptyObjects(x).hit => Pruned(x) = x
<1> DEFINE s == {i \in DOMAIN x.e : ~Hollow(x.e[i])}
           hit == DropEmptyObjects(x)
<1>1. hit = IF IsArr(x) /\ \E i \in DOMAIN x.e : i \notin s
            THEN Hit(Arr(AtPlaces(x.e, s))) ELSE Miss
  <2>1. \A i \in DOMAIN x.e : i \notin s <=> Hollow(x.e[i])
    OBVIOUS
  <2> QED
    BY <2>1 DEF DropEmptyObjects, Filter, Hollow
<1>2. IsArr(x) => s \subseteq DOMAIN x.e
  OBVIOUS
<1>3. Pruned(x) = IF IsArr(x) THEN Arr(AtPlaces(x.e, s)) ELSE x
  BY DEF Pruned
<1> HIDE DEF s, hit
<1>4. LET y == IF IsArr(x) THEN Arr(AtPlaces(x.e, s)) ELSE x IN
      /\ JsonOrNone(y) /\ hit.hit \in BOOLEAN
      /\ hit.hit => hit.v = y /\ y # Absent
      /\ ~hit.hit => y = x
  BY <1>1, <1>2, FilterIs
<1> QED
  BY <1>3, <1>4 DEF hit

\* An element of an array of edits once parsed.
ParsedElement(y) == IF IsString(y) THEN y.v ELSE y

LEMMA ElementsAre ==
  ASSUME NEW x, IsJson(x), IsArr(x), ~Unparsable(x)
  PROVE  LET g == [i \in DOMAIN x.e |-> ParsedElement(x.e[i])] IN
         /\ IsJson(Arr(g)) /\ IsListed(g) /\ Len(g) = Len(x.e) /\ DOMAIN g = DOMAIN x.e
         /\ \A i \in DOMAIN x.e : IsString(x.e[i]) => EncodesEdit(x.e[i])
<1> DEFINE g == [i \in DOMAIN x.e |-> ParsedElement(x.e[i])]
<1>1. IsListed(x.e) /\ \A i \in DOMAIN x.e : IsJson(x.e[i])
  BY ArrIs
<1>2. \A i \in DOMAIN x.e : IsString(x.e[i]) => EncodesEdit(x.e[i])
  BY DEF Unparsable
<1>3. ASSUME NEW i \in DOMAIN x.e PROVE IsJson(g[i])
  <2>1. CASE IsString(x.e[i])
    <3>1. x.e[i].t = "enc"
      BY <1>2, <2>1, Encoded DEF EncodesEdit
    <3>2. IsJson(x.e[i].v)
      BY <1>1, <3>1, EncodedIsJson
    <3> QED
      BY <2>1, <3>2 DEF ParsedElement
  <2>2. CASE ~IsString(x.e[i])
    BY <1>1, <2>2 DEF ParsedElement
  <2> QED
    BY <2>1, <2>2
<1>4. DOMAIN g = DOMAIN x.e /\ g = [i \in DOMAIN g |-> g[i]]
  OBVIOUS
<1> HIDE DEF g
<1>5. IsJson(Arr(g)) /\ IsListed(g) /\ Len(g) = Len(x.e)
  BY <1>3, <1>4, RewrittenIs
<1> QED
  BY <1>2, <1>4, <1>5 DEF g

LEMMA NormalizedIs ==
  ASSUME NEW x, JsonOrNone(x), ~Unparsable(x)
  PROVE  /\ JsonOrNone(Normalized(x)) /\ NormalizeEdits(x).hit \in BOOLEAN
         /\ NormalizeEdits(x).hit => NormalizeEdits(x).v = Normalized(x) /\ Normalized(x) # Absent
         /\ ~NormalizeEdits(x).hit => Normalized(x) = x
         /\ x \in {Absent, Null} => Normalized(x) = x
         /\ IsArr(x) => Normalized(x) = Arr([i \in DOMAIN x.e |-> ParsedElement(x.e[i])])
         /\ EncodesEdit(x) => Normalized(x) = Arr(<<x.v>>)
         /\ IsEdit(x) => Normalized(x) = Arr(<<x>>)
         /\ ~IsArr(x) /\ ~EncodesEdit(x) /\ ~IsEdit(x) => Normalized(x) = x
<1> DEFINE r == NormalizeEdits(x)
           g == [i \in DOMAIN x.e |-> ParsedElement(x.e[i])]
<1>1. r.hit => r.v = Normalized(x)
  BY DEF Normalized, After
<1>2. ~r.hit => Normalized(x) = x
  BY DEF Normalized, After
<1>3. CASE x \in {Absent, Null}
  <2>1. r = Miss
    BY <1>3 DEF NormalizeEdits
  <2>2. ~IsArr(x) /\ ~IsString(x) /\ ~IsObj(x)
    BY <1>3, KindsDiffer
  <2>3. ~EncodesEdit(x) /\ ~IsEdit(x)
    BY <2>2, EditIsObj, Encoded DEF EncodesEdit
  <2> QED
    BY <1>2, <2>1, <2>2, <2>3, HitIs
<1>4. CASE EncodesEdit(x)
  <2>1. x.t = "enc" /\ IsString(x) /\ Lenient(x)
    BY <1>4, Encoded DEF EncodesEdit
  <2>2. ~IsArr(x) /\ ~IsObj(x) /\ x \notin {Absent, Null}
    BY <2>1, KindsDiffer
  <2>3. r = Hit(Arr(<<x.v>>))
    <3>1. ~IsEdit(x)
      BY <2>2, EditIsObj
    <3> QED
      BY <1>4, <2>2, <3>1 DEF NormalizeEdits
  <2>4. IsJson(x.v)
    BY <2>1, <2>2, EncodedIsJson DEF JsonOrNone
  <2>5. IsJson(Arr(<<x.v>>)) /\ Arr(<<x.v>>) # Absent
    <3>1. \A i \in DOMAIN <<x.v>> : IsJson(<<x.v>>[i])
      BY <2>4, SingleIs
    <3> QED
      BY <3>1, SingleIs, ArrIsJson, Encoded, KindsDiffer
  <2>6. ~IsEdit(x)
    BY <2>2, EditIsObj
  <2>7. r.hit = TRUE /\ r.v = Arr(<<x.v>>)
    BY <2>3, HitIs
  <2>8. Normalized(x) = Arr(<<x.v>>)
    BY <1>1, <2>7
  <2> HIDE DEF r
  <2> QED
    BY <1>4, <2>2, <2>5, <2>6, <2>7, <2>8 DEF JsonOrNone, r
<1>5. CASE IsEdit(x)
  <2>1. IsObj(x)
    BY <1>5, EditIsObj
  <2>2. ~IsArr(x) /\ ~IsString(x) /\ x \notin {Absent, Null}
    BY <2>1, KindsDiffer
  <2>3. ~EncodesEdit(x)
    BY <2>2, Encoded DEF EncodesEdit
  <2>4. r = Hit(Arr(<<x>>))
    BY <1>5, <2>2, <2>3 DEF NormalizeEdits
  <2>5. IsJson(Arr(<<x>>)) /\ Arr(<<x>>) # Absent
    <3>1. \A i \in DOMAIN <<x>> : IsJson(<<x>>[i])
      BY <2>2, SingleIs DEF JsonOrNone
    <3> QED
      BY <3>1, SingleIs, ArrIsJson, Encoded, KindsDiffer
  <2>6. r.hit = TRUE /\ r.v = Arr(<<x>>)
    BY <2>4, HitIs
  <2>7. Normalized(x) = Arr(<<x>>)
    BY <1>1, <2>6
  <2> HIDE DEF r
  <2> QED
    BY <1>5, <2>2, <2>3, <2>5, <2>6, <2>7 DEF JsonOrNone, r
<1>6. CASE IsArr(x)
  <2>1. x \notin {Absent, Null} /\ ~IsObj(x) /\ ~IsString(x) /\ IsJson(x)
    BY <1>6, KindsDiffer DEF JsonOrNone
  <2>2. ~EncodesEdit(x) /\ ~IsEdit(x)
    BY <2>1, EditIsObj, Encoded DEF EncodesEdit
  <2>3. IsJson(Arr(g)) /\ IsListed(g) /\ Len(g) = Len(x.e)
    BY <1>6, <2>1, ElementsAre
  <2>4. r = IF \A i \in DOMAIN x.e : ~IsString(x.e[i]) THEN Miss ELSE Hit(Arr(g))
    BY <1>6, <2>1, <2>2 DEF NormalizeEdits, ParsedElement
  <2>5. ASSUME \A i \in DOMAIN x.e : ~IsString(x.e[i]) PROVE x = Arr(g)
    <3>1. x = Arr(x.e) /\ IsListed(x.e)
      BY <1>6, <2>1, ArrIs
    <3>2. DOMAIN x.e = 1 .. Len(x.e)
      BY <3>1, ListIs
    <3>3. \A i \in 1 .. Len(x.e) : g[i] = x.e[i]
      BY <2>5, <3>2 DEF ParsedElement
    <3> HIDE DEF g
    <3>4. g = x.e
      BY <2>3, <3>1, <3>3, SameList
    <3> QED
      BY <3>1, <3>4
  <2>6. IsArr(Arr(g)) /\ Arr(g) # Absent
    BY Encoded, KindsDiffer
  <2> DEFINE w == Arr(g)
  <2> HIDE DEF w, r
  <2>7. r.hit \in BOOLEAN /\ (r.hit => r.v = w) /\ (~r.hit => x = w)
    BY <2>4, <2>5, HitIs DEF w
  <2>8. Normalized(x) = w
    BY <1>1, <1>2, <2>7
  <2> QED
    BY <1>6, <2>1, <2>2, <2>3, <2>6, <2>7, <2>8 DEF JsonOrNone, w, r
<1>7. CASE x \notin {Absent, Null} /\ ~EncodesEdit(x) /\ ~IsEdit(x) /\ ~IsArr(x)
  <2>1. r = Hit(x)
    BY <1>7 DEF NormalizeEdits
  <2>2. r.hit = TRUE /\ r.v = x
    BY <2>1, HitIs
  <2>3. Normalized(x) = x
    BY <1>1, <2>2
  <2> HIDE DEF r
  <2> QED
    BY <1>7, <2>2, <2>3 DEF r
<1> QED
  BY <1>3, <1>4, <1>5, <1>6, <1>7

-----------------------------------------------------------------------------
(* What each rule makes of a run.                                            *)

\* t comes after s, with x for the edits.
EditsBecome(s, t, x) == TurnsTo(s, t, t.v) /\ Set(s.v, t.v, "edits", x)

LEMMA EditsOf ==
  ASSUME NEW s, IsRun(s)
  PROVE  JsonOrNone(At(s.v, "edits")) /\ IsRecord(s.v) /\ IsObj(s.v) /\ s.threw \in BOOLEAN
BY AtIsJson DEF IsRun, IsRecord

LEMMA AtEditsBecome ==
  ASSUME NEW s, IsRun(s), NEW rule, NEW hit, hit.hit \in BOOLEAN, NEW y, JsonOrNone(y),
         hit.hit => hit.v = y /\ y # Absent, ~hit.hit => y = At(s.v, "edits")
  PROVE  EditsBecome(s, AtEdits(s, rule, hit), y)
<1> DEFINE w == IF hit.hit THEN With(s.v, "edits", hit.v) ELSE s.v
<1>1. TurnsTo(s, AtEdits(s, rule, hit), w)
  BY AtEditsIs DEF JsonOrNone
<1>2. Set(s.v, w, "edits", y)
  <2>1. CASE hit.hit
    BY <2>1, EditsOf, WithSets DEF JsonOrNone
  <2>2. CASE ~hit.hit
    BY <2>2, EditsOf DEF Set
  <2> QED
    BY <2>1, <2>2
<1> HIDE DEF w
<1>3. AtEdits(s, rule, hit).v = w
  BY <1>1 DEF TurnsTo
<1> QED
  BY <1>1, <1>2, <1>3 DEF EditsBecome

\* Rules on the edits as a whole.
LEMMA ParseRule ==
  ASSUME NEW s, IsRun(s), ~s.threw
  PROVE  EditsBecome(s, Preprocess1(s, "parse-stringified-edits"), Parsed(At(s.v, "edits")))
<1> DEFINE x == At(s.v, "edits")
<1>1. Preprocess1(s, "parse-stringified-edits")
        = AtEdits(s, "parse-stringified-edits", ParseStringified(x))
  BY EditsOf DEF Preprocess1
<1>2. JsonOrNone(x)
  BY EditsOf
<1> HIDE DEF x
<1> DEFINE hit == ParseStringified(x)
           y == Parsed(x)
<1>3. JsonOrNone(y) /\ hit.hit \in BOOLEAN /\ (hit.hit => hit.v = y /\ y # Absent)
      /\ (~hit.hit => y = x)
  BY <1>2, ParsedIs
<1> HIDE DEF hit, y
<1>4. EditsBecome(s, AtEdits(s, "parse-stringified-edits", hit), y)
  BY <1>3, AtEditsBecome DEF x
<1> QED
  BY <1>1, <1>4 DEF x, hit, y

LEMMA FilterRule ==
  ASSUME NEW s, IsRun(s), ~s.threw
  PROVE  EditsBecome(s, Preprocess1(s, "filter-empty-edits"), Emptied(At(s.v, "edits")))
<1> DEFINE x == At(s.v, "edits")
<1>1. Preprocess1(s, "filter-empty-edits")
        = AtEdits(s, "filter-empty-edits", FilterEmpty(x))
  BY EditsOf DEF Preprocess1
<1>2. JsonOrNone(x)
  BY EditsOf
<1> HIDE DEF x
<1> DEFINE hit == FilterEmpty(x)
           y == Emptied(x)
<1>3. JsonOrNone(y) /\ hit.hit \in BOOLEAN /\ (hit.hit => hit.v = y /\ y # Absent)
      /\ (~hit.hit => y = x)
  BY <1>2, EmptiedIs
<1> HIDE DEF hit, y
<1>4. EditsBecome(s, AtEdits(s, "filter-empty-edits", hit), y)
  BY <1>3, AtEditsBecome DEF x
<1> QED
  BY <1>1, <1>4 DEF x, hit, y

LEMMA PruneRule ==
  ASSUME NEW s, IsRun(s), ~s.threw
  PROVE  EditsBecome(s, Preprocess1(s, "drop-empty-edit-objects"), Pruned(At(s.v, "edits")))
<1> DEFINE x == At(s.v, "edits")
<1>1. Preprocess1(s, "drop-empty-edit-objects")
        = AtEdits(s, "drop-empty-edit-objects", DropEmptyObjects(x))
  BY EditsOf DEF Preprocess1
<1>2. JsonOrNone(x)
  BY EditsOf
<1> HIDE DEF x
<1> DEFINE hit == DropEmptyObjects(x)
           y == Pruned(x)
<1>3. JsonOrNone(y) /\ hit.hit \in BOOLEAN /\ (hit.hit => hit.v = y /\ y # Absent)
      /\ (~hit.hit => y = x)
  BY <1>2, PrunedIs
<1> HIDE DEF hit, y
<1>4. EditsBecome(s, AtEdits(s, "drop-empty-edit-objects", hit), y)
  BY <1>3, AtEditsBecome DEF x
<1> QED
  BY <1>1, <1>4 DEF x, hit, y

LEMMA NormalizeRule ==
  ASSUME NEW s, IsRun(s), ~s.threw
  PROVE  LET x == At(s.v, "edits")
             t == Preprocess1(s, "normalize-edits")
         IN  IF Unparsable(x) THEN t = [s EXCEPT !.threw = TRUE]
             ELSE EditsBecome(s, t, Normalized(x))
<1> DEFINE x == At(s.v, "edits")
<1>1. Preprocess1(s, "normalize-edits")
        = IF Unparsable(x) THEN [s EXCEPT !.threw = TRUE]
          ELSE AtEdits(s, "normalize-edits", NormalizeEdits(x))
  BY EditsOf DEF Preprocess1
<1>2. JsonOrNone(x)
  BY EditsOf
<1> HIDE DEF x
<1> DEFINE hit == NormalizeEdits(x)
           y == Normalized(x)
<1>3. ASSUME ~Unparsable(x)
      PROVE  JsonOrNone(y) /\ hit.hit \in BOOLEAN /\ (hit.hit => hit.v = y /\ y # Absent)
             /\ (~hit.hit => y = x)
  BY <1>2, <1>3, NormalizedIs
<1> HIDE DEF hit, y
<1>4. ASSUME ~Unparsable(x) PROVE EditsBecome(s, AtEdits(s, "normalize-edits", hit), y)
  BY <1>3, <1>4, AtEditsBecome DEF x
<1> QED
  BY <1>1, <1>4 DEF x, hit, y

\* A run that threw goes no further.
LEMMA ThrewIs ==
  ASSUME NEW s, IsRun(s)
  PROVE  LET t == [s EXCEPT !.threw = TRUE] IN IsRun(t) /\ t.threw /\ t.v = s.v /\ t.changes = s.changes
BY DEF IsRun

LEMMA ThrewStays ==
  ASSUME NEW s, s.threw, NEW rule
  PROVE  Preprocess1(s, rule) = s
BY DEF Preprocess1

-----------------------------------------------------------------------------
(* Rules on each edit.                                                       *)

EachRules == {"alias-oldText", "alias-newText", "alias-nested-path",
  "infer-deletion-missing-newtext", "infer-insertion-missing-oldtext"}

Rule(rule, x) ==
  CASE rule = "alias-oldText" -> ExactAlias(x, "oldText")
    [] rule = "alias-newText" -> ExactAlias(x, "newText")
    [] rule = "alias-nested-path" -> ExactAlias(x, "path")
    [] rule = "infer-deletion-missing-newtext" -> InferDeletion(x)
    [] rule = "infer-insertion-missing-oldtext" -> InferInsertion(x)

\* The element x after the rule.
Step(rule, x) == IF IsObj(x) THEN After(Rule(rule, x), x) ELSE x

\* The edits x after the rule.
Each(rule, x) == IF IsArr(x) THEN Arr([i \in DOMAIN x.e |-> Step(rule, x.e[i])]) ELSE x

LEMMA RuleIs ==
  ASSUME NEW rule \in EachRules, NEW x, IsRecord(x)
  PROVE  LET r == Rule(rule, x) IN r.hit \in BOOLEAN /\ (r.hit => IsRecord(r.v))
<1>1. ASSUME NEW k \in Named
      PROVE  LET r == ExactAlias(x, k) IN r.hit \in BOOLEAN /\ (r.hit => IsRecord(r.v))
  BY <1>1, ExactAliasIs DEF Moved
<1>2. LET r == InferDeletion(x) IN r.hit \in BOOLEAN /\ (r.hit => IsRecord(r.v))
  BY InferDeletionIs DEF Set
<1>3. LET r == InferInsertion(x) IN r.hit \in BOOLEAN /\ (r.hit => IsRecord(r.v))
  BY InferInsertionIs DEF Set
<1>4. CASE rule = "alias-oldText"
  BY <1>1, <1>4 DEF Rule, Named
<1>5. CASE rule = "alias-newText"
  BY <1>1, <1>5 DEF Rule, Named
<1>6. CASE rule = "alias-nested-path"
  BY <1>1, <1>6 DEF Rule, Named
<1>7. CASE rule = "infer-deletion-missing-newtext"
  BY <1>2, <1>7 DEF Rule
<1>8. CASE rule = "infer-insertion-missing-oldtext"
  BY <1>3, <1>8 DEF Rule
<1> QED
  BY <1>4, <1>5, <1>6, <1>7, <1>8 DEF EachRules

LEMMA StepIs ==
  ASSUME NEW rule \in EachRules, NEW x, IsJson(x)
  PROVE  /\ IsJson(Step(rule, x)) /\ (IsObj(Step(rule, x)) <=> IsObj(x))
         /\ ~IsObj(x) => Step(rule, x) = x
<1>1. CASE IsObj(x)
  <2>1. IsRecord(x)
    BY <1>1 DEF IsRecord
  <2>2. IsRecord(After(Rule(rule, x), x))
    BY <2>1, RuleIs DEF After
  <2> QED
    BY <1>1, <2>2 DEF Step, IsRecord
<1>2. CASE ~IsObj(x)
  BY <1>2 DEF Step
<1> QED
  BY <1>1, <1>2

LEMMA EachIs ==
  ASSUME NEW rule \in EachRules, NEW x, JsonOrNone(x)
  PROVE  LET y == Each(rule, x) IN
         /\ JsonOrNone(y) /\ (IsArr(y) <=> IsArr(x)) /\ (~IsArr(x) => y = x)
         /\ IsArr(x) => /\ IsJson(y) /\ IsListed(y.e) /\ Len(y.e) = Len(x.e)
                        /\ DOMAIN y.e = DOMAIN x.e
                        /\ \A i \in DOMAIN x.e : y.e[i] = Step(rule, x.e[i])
<1>1. CASE IsArr(x)
  <2> DEFINE g == [i \in DOMAIN x.e |-> Step(rule, x.e[i])]
  <2>1. IsJson(x)
    BY <1>1, KindsDiffer DEF JsonOrNone
  <2>2. \A i \in DOMAIN x.e : IsJson(g[i])
    BY <1>1, <2>1, ArrIs, StepIs
  <2>3. DOMAIN g = DOMAIN x.e /\ g = [i \in DOMAIN g |-> g[i]]
        /\ \A i \in DOMAIN x.e : g[i] = Step(rule, x.e[i])
    OBVIOUS
  <2> HIDE DEF g
  <2>4. /\ IsJson(Arr(g)) /\ IsArr(Arr(g)) /\ Arr(g).e = g
        /\ IsListed(g) /\ Len(g) = Len(x.e)
    BY <1>1, <2>1, <2>2, <2>3, RewrittenIs
  <2>5. Each(rule, x) = Arr(g)
    BY <1>1 DEF Each, g
  <2> QED
    BY <1>1, <2>3, <2>4, <2>5 DEF JsonOrNone
<1>2. CASE ~IsArr(x)
  BY <1>2 DEF Each
<1> QED
  BY <1>1, <1>2

LEMMA EachBecomes ==
  ASSUME NEW s, IsRun(s), NEW rule \in EachRules,
         NEW r, IsArr(At(s.v, "edits")) =>
                  LET e == s.v.f.edits.e IN
                  r = [i \in DOMAIN e |-> IF IsObj(e[i]) THEN Rule(rule, e[i]) ELSE Miss],
         NEW t, t = IF ~IsArr(At(s.v, "edits")) THEN s
                    ELSE LET e == s.v.f.edits.e
                             n == Cardinality({i \in DOMAIN e : r[i].hit})
                         IN IF n = 0 THEN s
                            ELSE [s EXCEPT !.v = With(s.v, "edits",
                                 Arr([i \in DOMAIN e |-> IF r[i].hit THEN r[i].v ELSE e[i]])),
                                 !.changes = @ \o Times(n, rule)]
  PROVE  EditsBecome(s, t, Each(rule, At(s.v, "edits")))
<1> DEFINE x == At(s.v, "edits")
           e == x.e
           y == Each(rule, x)
<1>1. JsonOrNone(x)
  BY EditsOf
<1>2. CASE IsArr(x)
  <2>1. IsJson(x) /\ s.v.f.edits = x
    BY <1>1, <1>2, KindsDiffer, StringAt DEF JsonOrNone
  <2>2. IsListed(e) /\ \A i \in DOMAIN e : IsJson(e[i])
    BY <1>2, <2>1, ArrIs
  <2> HIDE DEF x
  <2>3. r = [i \in DOMAIN e |-> IF IsObj(e[i]) THEN Rule(rule, e[i]) ELSE Miss]
    BY <1>2, <2>1 DEF x
  <2>4. ASSUME NEW i \in DOMAIN e
        PROVE  /\ r[i].hit \in BOOLEAN /\ (r[i].hit => IsJson(r[i].v))
               /\ Step(rule, e[i]) = IF r[i].hit THEN r[i].v ELSE e[i]
    <3>1. CASE IsObj(e[i])
      <4>1. IsRecord(e[i]) /\ r[i] = Rule(rule, e[i])
        BY <2>2, <2>3, <3>1 DEF IsRecord
      <4> QED
        BY <3>1, <4>1, RuleIs DEF Step, After, IsRecord
    <3>2. CASE ~IsObj(e[i])
      <4>1. r[i] = Miss
        BY <2>3, <3>2
      <4> QED
        BY <3>2, <4>1, HitIs DEF Step
    <3> QED
      BY <3>1, <3>2
  <2>5. ReachedEdits(e, r) = [i \in DOMAIN e |-> Step(rule, e[i])]
    BY <2>4 DEF ReachedEdits
  <2>6. y = Arr(ReachedEdits(e, r))
    BY <1>2, <2>5 DEF Each
  <2>7. IsJson(y) /\ JsonOrNone(y)
    BY <1>1, <1>2, EachIs
  <2> HIDE DEF y
  <2>8. /\ s.v.f.edits.e = e
        /\ \A i \in DOMAIN s.v.f.edits.e : r[i].hit \in BOOLEAN /\ (r[i].hit => IsJson(r[i].v))
    BY <2>1, <2>4
  <2>9. TurnsTo(s, t, With(s.v, "edits", y))
    <3>1. LET ee == s.v.f.edits.e
              n == Cardinality({i \in DOMAIN ee : r[i].hit})
              tt == IF n = 0 THEN s
                    ELSE [s EXCEPT !.v = With(s.v, "edits",
                                 Arr([i \in DOMAIN ee |-> IF r[i].hit THEN r[i].v ELSE ee[i]])),
                                 !.changes = @ \o Times(n, rule)]
          IN  TurnsTo(s, tt, With(s.v, "edits", Arr(ReachedEdits(ee, r))))
      BY <1>2, <2>8, EachEditIs DEF x
    <3>2. ReachedEdits(s.v.f.edits.e, r) = ReachedEdits(e, r)
      BY <2>8
    <3> QED
      BY <1>2, <2>6, <3>1, <3>2 DEF x
  <2>10. Set(s.v, With(s.v, "edits", y), "edits", y)
    BY <2>7, EditsOf, WithSets
  <2>11. t.v = With(s.v, "edits", y)
    BY <2>9 DEF TurnsTo
  <2> QED
    BY <2>9, <2>10, <2>11 DEF EditsBecome, y, x
<1>3. CASE ~IsArr(x)
  <2>1. t = s /\ y = x
    BY <1>3 DEF Each
  <2> QED
    BY <2>1, RunStays, EditsOf DEF EditsBecome, TurnsTo, Set
<1> QED
  BY <1>2, <1>3

LEMMA EachRule ==
  ASSUME NEW s, IsRun(s), ~s.threw, NEW rule \in EachRules
  PROVE  EditsBecome(s, Preprocess1(s, rule), Each(rule, At(s.v, "edits")))
<1> DEFINE e == s.v.f.edits.e
           r == [i \in DOMAIN e |-> IF IsObj(e[i]) THEN Rule(rule, e[i]) ELSE Miss]
           n == Cardinality({i \in DOMAIN e : r[i].hit})
           t == IF ~IsArr(At(s.v, "edits")) THEN s
                ELSE IF n = 0 THEN s
                     ELSE [s EXCEPT !.v = With(s.v, "edits",
                                 Arr([i \in DOMAIN e |-> IF r[i].hit THEN r[i].v ELSE e[i]])),
                                 !.changes = @ \o Times(n, rule)]
<1>1. Preprocess1(s, rule) = t
  <2>1. CASE rule = "alias-oldText"
    BY <2>1, EditsOf DEF Preprocess1, AtEachEdit, Rule
  <2>2. CASE rule = "alias-newText"
    BY <2>2, EditsOf DEF Preprocess1, AtEachEdit, Rule
  <2>3. CASE rule = "alias-nested-path"
    BY <2>3, EditsOf DEF Preprocess1, AtEachEdit, Rule
  <2>4. CASE rule = "infer-deletion-missing-newtext"
    BY <2>4, EditsOf DEF Preprocess1, AtEachEdit, Rule
  <2>5. CASE rule = "infer-insertion-missing-oldtext"
    BY <2>5, EditsOf DEF Preprocess1, AtEachEdit, Rule
  <2> QED
    BY <2>1, <2>2, <2>3, <2>4, <2>5 DEF EachRules
<1>2. EditsBecome(s, t, Each(rule, At(s.v, "edits")))
  BY EachBecomes
<1> QED
  BY <1>1, <1>2

-----------------------------------------------------------------------------
(* A run from beginning to end.                                              *)

LEMMA AliasPathRule ==
  ASSUME NEW s, IsRun(s), ~s.threw
  PROVE  TurnsTo(s, Preprocess1(s, "alias-path"), After(ExactAlias(s.v, "path"), s.v))
<1> DEFINE hit == ExactAlias(s.v, "path")
<1>1. Preprocess1(s, "alias-path") = AtRoot(s, "alias-path", hit)
  BY EditsOf DEF Preprocess1
<1>2. hit.hit \in BOOLEAN /\ (hit.hit => IsRecord(hit.v))
  BY EditsOf, ExactAliasIs DEF Moved, Named
<1> HIDE DEF hit
<1>3. TurnsTo(s, AtRoot(s, "alias-path", hit), After(hit, s.v))
  BY <1>2, AtRootIs
<1> QED
  BY <1>1, <1>3 DEF hit

LEMMA HoistRule ==
  ASSUME NEW s, IsRun(s), ~s.threw
  PROVE  TurnsTo(s, Preprocess1(s, "hoist-nested-path"), After(HoistNestedPath(s.v), s.v))
<1> DEFINE hit == HoistNestedPath(s.v)
<1>1. Preprocess1(s, "hoist-nested-path") = AtRoot(s, "hoist-nested-path", hit)
  BY EditsOf DEF Preprocess1
<1>2. hit.hit \in BOOLEAN /\ (hit.hit => IsRecord(hit.v))
  BY EditsOf, HoistIs
<1> HIDE DEF hit
<1>3. TurnsTo(s, AtRoot(s, "hoist-nested-path", hit), After(hit, s.v))
  BY <1>2, AtRootIs
<1> QED
  BY <1>1, <1>3 DEF hit

LEMMA FoldRule ==
  ASSUME NEW s, IsRun(s), ~s.threw
  PROVE  TurnsTo(s, Preprocess1(s, "flat-fold"), After(FlatFold(s.v), s.v))
<1> DEFINE hit == FlatFold(s.v)
<1>1. Preprocess1(s, "flat-fold") = AtRoot(s, "flat-fold", hit)
  BY EditsOf DEF Preprocess1
<1>2. hit.hit \in BOOLEAN /\ (hit.hit => IsRecord(hit.v))
  BY EditsOf, FlatFoldIs
<1> HIDE DEF hit
<1>3. TurnsTo(s, AtRoot(s, "flat-fold", hit), After(hit, s.v))
  BY <1>2, AtRootIs
<1> QED
  BY <1>1, <1>3 DEF hit

\* One step after another.
LEMMA FollowsOn ==
  ASSUME NEW r, NEW s, NEW t, Follows(r, s), Follows(s, t)
  PROVE  Follows(r, t)
BY DEF Follows

LEMMA EditsBecomeOn ==
  ASSUME NEW r, NEW s, NEW t, NEW x, NEW y, EditsBecome(r, s, x), EditsBecome(s, t, y)
  PROVE  EditsBecome(r, t, y)
BY DEF EditsBecome, TurnsTo, Follows, Set

LEMMA EditsNow ==
  ASSUME NEW s, NEW t, NEW x, EditsBecome(s, t, x)
  PROVE  IsRun(t) /\ t.threw = s.threw /\ At(t.v, "edits") = x
BY DEF EditsBecome, TurnsTo, Follows, Set

LEMMA StartedIs ==
  ASSUME NEW u, IsRecord(u), NEW q, IsListed(q)
  PROVE  IsRun(Started(u, q)) /\ Started(u, q).v = u /\ Started(u, q).changes = q
         /\ Started(u, q).threw = FALSE
<1> DEFINE s == Started(u, q)
<1>1. s \in [v : {u}, changes : {q}, threw : BOOLEAN] /\ s.threw = FALSE
  BY DEF Started
<1> HIDE DEF s
<1>2. s.v = u /\ s.changes = q
  BY <1>1
<1> QED
  BY <1>1, <1>2 DEF IsRun, s

\* The edits after the rules before the aliases, and once each rule saw each edit.
NormalEdits(x) == Pruned(Emptied(Normalized(Emptied(Parsed(x)))))

NamedEdits(x) == Each("alias-nested-path", Each("alias-newText", Each("alias-oldText", x)))

EachEdit(x) ==
  Each("infer-insertion-missing-oldtext", Each("infer-deletion-missing-newtext", NamedEdits(x)))

\* a has the canonical edits, b each edit and the path under its own name, c the
\* path hoisted; w has the texts folded.
Prepares(u, a, b, c, w) ==
  /\ Set(u, a, "edits", NormalEdits(At(u, "edits")))
  /\ Set(After(ExactAlias(a, "path"), a), b, "edits", EachEdit(At(a, "edits")))
  /\ c = After(HoistNestedPath(b), b) /\ IsRecord(c)
  /\ w = After(FlatFold(c), c) /\ IsRecord(w)

\* The run p of u threw, or ended with u prepared.
EndsAs(u, p) ==
  IF Unparsable(Emptied(Parsed(At(u, "edits")))) THEN p.threw
  ELSE ~p.threw /\ \E a, b, c : Prepares(u, a, b, c, p.v)

Gives(u, q, p) ==
  /\ p.threw \in BOOLEAN /\ IsListed(p.changes) /\ IsRecord(p.v)
  /\ p.changes = <<>> => q = <<>> /\ p.v = u
  /\ EndsAs(u, p)

LEMMA RunHas ==
  ASSUME NEW s, IsRun(s)
  PROVE  s.threw \in BOOLEAN /\ IsListed(s.changes) /\ IsRecord(s.v)
BY DEF IsRun

LEMMA RunGives ==
  ASSUME NEW u, IsRecord(u), NEW q, IsListed(q), NEW p, IsRun(p), Follows(Started(u, q), p),
         EndsAs(u, p)
  PROVE  Gives(u, q, p)
<1>1. IsRun(Started(u, q)) /\ Started(u, q).v = u /\ Started(u, q).changes = q
  BY StartedIs
<1>2. p.threw \in BOOLEAN /\ IsListed(p.changes) /\ IsRecord(p.v)
  BY RunHas
<1>3. p.changes = <<>> => q = <<>> /\ p.v = u
  BY <1>1 DEF Follows
<1> QED
  BY <1>2, <1>3 DEF Gives

LEMMA PreprocessIs ==
  ASSUME NEW u, IsRecord(u), NEW q, IsListed(q)
  PROVE  Gives(u, q, Preprocess(u, q))
<1> DEFINE st == States(Preprocessors, u, q)
           x == At(u, "edits")
           n == Emptied(Parsed(x))
<1>1. /\ st[0] = Started(u, q) /\ Preprocess(u, q) = st[13]
      /\ \A k \in 1 .. 13 : st[k] = Preprocess1(st[k - 1], Preprocessors[k])
  <2>1. Len(Preprocessors) = 13
    BY PreprocessorsAre
  <2>2. Len(Preprocessors) \in Nat
    BY <2>1
  <2>3. /\ st[0] = Started(u, q)
        /\ \A k \in 1 .. Len(Preprocessors) : st[k] = Preprocess1(st[k - 1], Preprocessors[k])
        /\ Run(Preprocessors, u, q) = st[Len(Preprocessors)]
    BY <2>2, RunIs
  <2> HIDE DEF st
  <2> QED
    BY <2>1, <2>3 DEF Preprocess
<1> HIDE DEF st
<1>2. /\ st[1] = Preprocess1(st[0], "parse-stringified-edits")
      /\ st[2] = Preprocess1(st[1], "filter-empty-edits")
      /\ st[3] = Preprocess1(st[2], "normalize-edits")
      /\ st[4] = Preprocess1(st[3], "filter-empty-edits")
      /\ st[5] = Preprocess1(st[4], "drop-empty-edit-objects")
      /\ st[6] = Preprocess1(st[5], "alias-path")
      /\ st[7] = Preprocess1(st[6], "alias-oldText")
      /\ st[8] = Preprocess1(st[7], "alias-newText")
      /\ st[9] = Preprocess1(st[8], "alias-nested-path")
      /\ st[10] = Preprocess1(st[9], "infer-deletion-missing-newtext")
      /\ st[11] = Preprocess1(st[10], "infer-insertion-missing-oldtext")
      /\ st[12] = Preprocess1(st[11], "hoist-nested-path")
      /\ st[13] = Preprocess1(st[12], "flat-fold")
  BY <1>1, PreprocessorsAre
<1>3. IsRun(st[0]) /\ st[0].v = u /\ st[0].changes = q /\ st[0].threw = FALSE
  <2>1. /\ IsRun(Started(u, q)) /\ Started(u, q).v = u /\ Started(u, q).changes = q
        /\ Started(u, q).threw = FALSE
    BY StartedIs
  <2>2. st[0] = Started(u, q)
    BY <1>1
  <2> QED
    BY <2>1, <2>2
<1>4. EditsBecome(st[0], st[1], Parsed(x))
  BY <1>2, <1>3, ParseRule
<1>5. IsRun(st[1]) /\ st[1].threw = FALSE /\ At(st[1].v, "edits") = Parsed(x)
  BY <1>3, <1>4, EditsNow
<1>6. EditsBecome(st[1], st[2], n)
  BY <1>2, <1>5, FilterRule
<1>7. IsRun(st[2]) /\ st[2].threw = FALSE /\ At(st[2].v, "edits") = n
  BY <1>5, <1>6, EditsNow
<1>8. EditsBecome(st[0], st[2], n)
  BY <1>4, <1>6, EditsBecomeOn
<1>9. CASE Unparsable(n)
  <2>1. st[3] = [st[2] EXCEPT !.threw = TRUE]
    BY <1>2, <1>7, <1>9, NormalizeRule
  <2>2. IsRun(st[3]) /\ st[3].threw /\ st[3].v = st[2].v /\ st[3].changes = st[2].changes
    BY <1>7, <2>1, ThrewIs
  <2>3. st[4] = st[3] /\ st[5] = st[3] /\ st[6] = st[3] /\ st[7] = st[3] /\ st[8] = st[3]
        /\ st[9] = st[3] /\ st[10] = st[3] /\ st[11] = st[3] /\ st[12] = st[3] /\ st[13] = st[3]
    BY <1>2, <2>2, ThrewStays
  <2>4. Follows(st[0], st[13])
    BY <1>3, <1>8, <2>2, <2>3 DEF EditsBecome, TurnsTo, Follows
  <2>5. EndsAs(u, st[13])
    BY <1>9, <2>2, <2>3 DEF EndsAs
  <2>6. Gives(u, q, st[13])
    BY <1>1, <2>2, <2>3, <2>4, <2>5, RunGives
  <2> QED
    BY <1>1, <2>6
<1>10. CASE ~Unparsable(n)
  <2>1. EditsBecome(st[2], st[3], Normalized(n))
    BY <1>2, <1>7, <1>10, NormalizeRule
  <2>2. IsRun(st[3]) /\ st[3].threw = FALSE /\ At(st[3].v, "edits") = Normalized(n)
    BY <1>7, <2>1, EditsNow
  <2>3. EditsBecome(st[3], st[4], Emptied(Normalized(n)))
    BY <1>2, <2>2, FilterRule
  <2>4. IsRun(st[4]) /\ st[4].threw = FALSE /\ At(st[4].v, "edits") = Emptied(Normalized(n))
    BY <2>2, <2>3, EditsNow
  <2>5. EditsBecome(st[4], st[5], NormalEdits(x))
    BY <1>2, <2>4, PruneRule DEF NormalEdits
  <2>6. IsRun(st[5]) /\ st[5].threw = FALSE /\ At(st[5].v, "edits") = NormalEdits(x)
    BY <2>4, <2>5, EditsNow
  <2>7. EditsBecome(st[0], st[5], NormalEdits(x))
    <3>1. EditsBecome(st[0], st[3], Normalized(n))
      BY <1>8, <2>1, EditsBecomeOn
    <3>2. EditsBecome(st[0], st[4], Emptied(Normalized(n)))
      BY <2>3, <3>1, EditsBecomeOn
    <3> QED
      BY <2>5, <3>2, EditsBecomeOn
  <2> DEFINE a == st[5].v
             y == At(a, "edits")
  <2>8. Set(u, a, "edits", NormalEdits(x)) /\ IsRecord(a)
    BY <1>3, <2>7 DEF EditsBecome, Set
  <2>9. TurnsTo(st[5], st[6], After(ExactAlias(a, "path"), a))
    BY <1>2, <2>6, AliasPathRule
  <2>10. IsRun(st[6]) /\ st[6].threw = FALSE /\ st[6].v = After(ExactAlias(a, "path"), a)
    BY <2>6, <2>9 DEF TurnsTo, Follows
  <2>11. At(st[6].v, "edits") = y
    <3>1. CASE ExactAlias(a, "path").hit
      <4>1. PICK k \in NamesOf("path") : Moved(a, ExactAlias(a, "path").v, "path", k)
        BY <2>8, <3>1, ExactAliasIs DEF Named
      <4>2. k # "edits"
        BY <4>1, AliasesAre
      <4> QED
        BY <2>10, <3>1, <4>1, <4>2 DEF Moved, After
    <3>2. CASE ~ExactAlias(a, "path").hit
      BY <2>10, <3>2 DEF After
    <3> QED
      BY <3>1, <3>2
  <2> HIDE DEF a, y
  <2> DEFINE y1 == Each("alias-oldText", y)
             y2 == Each("alias-newText", y1)
             y3 == Each("alias-nested-path", y2)
             y4 == Each("infer-deletion-missing-newtext", y3)
             y5 == Each("infer-insertion-missing-oldtext", y4)
  <2>12. EditsBecome(st[6], st[7], y1)
    BY <1>2, <2>10, <2>11, EachRule DEF EachRules
  <2>13. IsRun(st[7]) /\ st[7].threw = FALSE /\ At(st[7].v, "edits") = y1
    BY <2>10, <2>12, EditsNow
  <2> HIDE DEF y1
  <2>14. EditsBecome(st[7], st[8], y2)
    BY <1>2, <2>13, EachRule DEF EachRules
  <2>15. IsRun(st[8]) /\ st[8].threw = FALSE /\ At(st[8].v, "edits") = y2
    BY <2>13, <2>14, EditsNow
  <2> HIDE DEF y2
  <2>16. EditsBecome(st[8], st[9], y3)
    BY <1>2, <2>15, EachRule DEF EachRules
  <2>17. IsRun(st[9]) /\ st[9].threw = FALSE /\ At(st[9].v, "edits") = y3
    BY <2>15, <2>16, EditsNow
  <2> HIDE DEF y3
  <2>18. EditsBecome(st[9], st[10], y4)
    BY <1>2, <2>17, EachRule DEF EachRules
  <2>19. IsRun(st[10]) /\ st[10].threw = FALSE /\ At(st[10].v, "edits") = y4
    BY <2>17, <2>18, EditsNow
  <2> HIDE DEF y4
  <2>20. EditsBecome(st[10], st[11], y5)
    BY <1>2, <2>19, EachRule DEF EachRules
  <2>21. IsRun(st[11]) /\ st[11].threw = FALSE
    BY <2>19, <2>20, EditsNow
  <2> HIDE DEF y5
  <2>22. EditsBecome(st[6], st[11], y5)
    <3>1. EditsBecome(st[6], st[8], y2)
      BY <2>12, <2>14, EditsBecomeOn
    <3>2. EditsBecome(st[6], st[9], y3)
      BY <3>1, <2>16, EditsBecomeOn
    <3>3. EditsBecome(st[6], st[10], y4)
      BY <3>2, <2>18, EditsBecomeOn
    <3> QED
      BY <3>3, <2>20, EditsBecomeOn
  <2>23. y5 = EachEdit(y)
    BY DEF y1, y2, y3, y4, y5, EachEdit, NamedEdits
  <2> DEFINE b == st[11].v
             c == st[12].v
             w == st[13].v
  <2>24. Set(After(ExactAlias(a, "path"), a), b, "edits", EachEdit(y))
    BY <2>10, <2>22, <2>23 DEF EditsBecome
  <2>25. TurnsTo(st[11], st[12], After(HoistNestedPath(b), b))
    BY <1>2, <2>21, HoistRule
  <2>26. IsRun(st[12]) /\ st[12].threw = FALSE /\ c = After(HoistNestedPath(b), b) /\ IsRecord(c)
    BY <2>21, <2>25 DEF TurnsTo, Follows, IsRun
  <2>27. TurnsTo(st[12], st[13], After(FlatFold(c), c))
    BY <1>2, <2>26, FoldRule
  <2>28. IsRun(st[13]) /\ st[13].threw = FALSE /\ w = After(FlatFold(c), c) /\ IsRecord(w)
    BY <2>26, <2>27 DEF TurnsTo, Follows, IsRun
  <2>29. Prepares(u, a, b, c, w)
    BY <2>8, <2>24, <2>26, <2>28 DEF Prepares, y
  <2>30. Follows(st[0], st[13])
    <3>1. Follows(st[0], st[5]) /\ Follows(st[5], st[6]) /\ Follows(st[6], st[11])
          /\ Follows(st[11], st[12]) /\ Follows(st[12], st[13])
      BY <2>7, <2>9, <2>22, <2>25, <2>27 DEF EditsBecome, TurnsTo
    <3>2. Follows(st[0], st[6])
      BY <3>1, FollowsOn
    <3>3. Follows(st[0], st[11])
      BY <3>1, <3>2, FollowsOn
    <3>4. Follows(st[0], st[12])
      BY <3>1, <3>3, FollowsOn
    <3> QED
      BY <3>1, <3>4, FollowsOn
  <2>31. EndsAs(u, st[13])
    BY <1>10, <2>28, <2>29 DEF EndsAs
  <2>32. Gives(u, q, st[13])
    BY <1>1, <2>28, <2>30, <2>31, RunGives
  <2> QED
    BY <1>1, <2>32
<1> QED
  BY <1>9, <1>10

-----------------------------------------------------------------------------
(* Schema repair of one field.                                               *)

TextNames == Named \cup {"anchor"}

\* Where the aliases of k give a value that schema repair takes.
GivenSome(v, k) == {i \in DOMAIN AliasesOf(k) : IsSome(At(v, AliasesOf(k)[i]))}

\* Schema repair finds something to do at the text k.
Fixable(v, k) == At(v, k) = Null \/ (At(v, k) = Absent /\ GivenSome(v, k) # {})

\* w has the names of k as schema repair leaves those of v.
Mended(v, w, k) ==
  \/ ~Fixable(v, k) /\ \A j \in NamesOf(k) : At(w, j) = At(v, j)
  \/ Missing(v, k) /\ \E a \in NamesOf(k) \ {k} :
       /\ IsSome(At(v, a))
       /\ \A j \in NamesOf(k) :
            At(w, j) = IF j = k THEN At(v, a) ELSE IF j = a THEN Absent ELSE At(v, j)
  \/ /\ At(v, k) = Null /\ \A a \in NamesOf(k) \ {k} : ~IsSome(At(v, a))
     /\ \A j \in NamesOf(k) : At(w, j) = IF j = k THEN Absent ELSE At(v, j)

\* The names of different texts are different.
LEMMA NamesDiffer ==
  /\ NamesOf("anchor") = {"anchor"} /\ NamesOf("edits") = {"edits"}
  /\ \A k \in TextNames : k \in NamesOf(k) /\ "edits" \notin NamesOf(k)
  /\ \A k, l \in TextNames : k # l => NamesOf(k) \cap NamesOf(l) = {}
<1>1. ASSUME NEW q, q = <<>> PROVE Range(q) = {}
  BY <1>1 DEF Range
<1>2. NamesOf("anchor") = {"anchor"} /\ NamesOf("edits") = {"edits"}
  BY <1>1, AliasesAre DEF NamesOf
<1>3. \A k \in TextNames : k \in NamesOf(k) /\ "edits" \notin NamesOf(k)
  BY <1>2, AliasesAre DEF TextNames, Named
<1>4. \A k, l \in TextNames : k # l => NamesOf(k) \cap NamesOf(l) = {}
  BY <1>2, AliasesAre DEF TextNames, Named
<1> QED
  BY <1>2, <1>3, <1>4

\* What the rename of schema repair gives.
SomeAlias(v, k) == Rename(v, k, LAMBDA y : y \notin {Absent, Null, Str("")})

LEMMA SomeAliasIs ==
  ASSUME NEW v, IsRecord(v), NEW k \in TextNames
  PROVE  LET r == SomeAlias(v, k) IN
         /\ r.hit \in BOOLEAN
         /\ r.hit <=> Missing(v, k) /\ GivenSome(v, k) # {}
         /\ r.hit => LET a == AliasesOf(k)[Min(GivenSome(v, k))] IN
                     a \in NamesOf(k) \ {k} /\ IsSome(At(v, a)) /\ Moved(v, r.v, k, a)
<1> DEFINE found == GivenSome(v, k)
           a == AliasesOf(k)[Min(found)]
           r == SomeAlias(v, k)
<1>1. r = IF Missing(v, k) /\ found # {}
          THEN Hit(Without(With(v, k, v.f[a]), {a})) ELSE Miss
  BY DEF SomeAlias, Rename, GivenSome, Missing, IsSome
<1>2. ASSUME found # {}
      PROVE  a \in NamesOf(k) \ {k} /\ IsSome(At(v, a))
  <2>1. CASE k = "anchor"
    BY <1>2, <2>1, AliasesAre DEF GivenSome
  <2>2. CASE k \in Named
    <3>1. found \subseteq {1, 2}
      BY <2>2, AliasPairs DEF GivenSome
    <3>2. Min(found) \in found
      BY <1>2, <3>1, LeastOfTwo
    <3>3. IsSome(At(v, a)) /\ Min(found) \in {1, 2}
      BY <3>1, <3>2 DEF GivenSome
    <3>4. a \in {Alias1(k), Alias2(k)}
      BY <3>3 DEF Alias1, Alias2
    <3> HIDE DEF a
    <3> QED
      BY <2>2, <3>3, <3>4, AliasPairs
  <2> QED
    BY <2>1, <2>2 DEF TextNames
<1> HIDE DEF found, a
<1>3. ASSUME found # {} PROVE Moved(v, Without(With(v, k, v.f[a]), {a}), k, a)
  <2>1. a # k /\ At(v, a) # Absent
    BY <1>2, <1>3 DEF IsSome
  <2> QED
    BY <2>1, MovedIs
<1>4. r.hit \in BOOLEAN /\ (r.hit <=> Missing(v, k) /\ found # {})
  BY <1>1, HitIs
<1>5. r.hit => r.v = Without(With(v, k, v.f[a]), {a})
  BY <1>1, <1>4, HitIs
<1> HIDE DEF r
<1>6. r.hit => a \in NamesOf(k) \ {k} /\ IsSome(At(v, a)) /\ Moved(v, r.v, k, a)
  BY <1>2, <1>3, <1>4, <1>5
<1> QED
  BY <1>4, <1>6 DEF r, a, found

\* What aliases give is found.
LEMMA SomeGiven ==
  ASSUME NEW v, NEW k \in TextNames
  PROVE  GivenSome(v, k) = {} <=> \A a \in NamesOf(k) \ {k} : ~IsSome(At(v, a))
<1>1. CASE k = "anchor"
  BY <1>1, AliasesAre, NamesDiffer DEF GivenSome
<1>2. CASE k \in Named
  <2>1. /\ DOMAIN AliasesOf(k) = {1, 2} /\ AliasesOf(k)[1] = Alias1(k) /\ AliasesOf(k)[2] = Alias2(k)
        /\ NamesOf(k) \ {k} = {Alias1(k), Alias2(k)}
    BY <1>2, AliasPairs DEF Alias1, Alias2
  <2> QED
    BY <2>1 DEF GivenSome
<1> QED
  BY <1>1, <1>2 DEF TextNames

\* The repair of a text.
LEMMA RepairFieldIs ==
  ASSUME NEW v, IsRecord(v), NEW k \in TextNames
  PROVE  LET r == RepairField(v, k, "string") IN
         /\ r.hit \in BOOLEAN /\ (r.hit <=> Fixable(v, k))
         /\ r.hit => /\ IsRecord(r.v) /\ Mended(v, r.v, k)
                     /\ \A j : j \notin NamesOf(k) => At(r.v, j) = At(v, j)
<1> DEFINE m == SomeAlias(v, k)
           r == RepairField(v, k, "string")
<1>1. r = IF m.hit THEN m ELSE IF At(v, k) = Null THEN Hit(Without(v, {k})) ELSE Miss
  BY DEF RepairField, Dropped, SomeAlias
<1>2. /\ m.hit \in BOOLEAN /\ (m.hit <=> Missing(v, k) /\ GivenSome(v, k) # {})
      /\ m.hit => LET a == AliasesOf(k)[Min(GivenSome(v, k))] IN
                  a \in NamesOf(k) \ {k} /\ IsSome(At(v, a)) /\ Moved(v, m.v, k, a)
  BY SomeAliasIs
<1>3. k \in NamesOf(k)
  BY NamesDiffer
<1> HIDE DEF m, r
<1>4. CASE m.hit
  <2>1. PICK a \in NamesOf(k) \ {k} : IsSome(At(v, a)) /\ Moved(v, m.v, k, a)
    BY <1>2, <1>4
  <2>2. r.hit /\ r.v = m.v
    BY <1>1, <1>4
  <2>3. Missing(v, k) /\ GivenSome(v, k) # {}
    BY <1>2, <1>4
  <2>4. Fixable(v, k)
    BY <2>3 DEF Fixable, Missing
  <2>5. Mended(v, r.v, k)
    BY <2>1, <2>2, <2>3 DEF Mended, Moved
  <2>6. \A j : j \notin NamesOf(k) => At(r.v, j) = At(v, j)
    BY <1>3, <2>1, <2>2 DEF Moved
  <2>7. r.hit \in BOOLEAN
    BY <1>1, <1>2, <1>4
  <2> QED
    BY <2>1, <2>2, <2>4, <2>5, <2>6, <2>7 DEF Moved, r
<1>5. CASE ~m.hit /\ At(v, k) = Null
  <2>1. r = Hit(Without(v, {k}))
    BY <1>1, <1>5
  <2>2. r.hit = TRUE /\ r.v = Without(v, {k})
    BY <2>1, HitIs
  <2>3. IsRecord(r.v) /\ \A j : At(r.v, j) = IF j \in {k} THEN Absent ELSE At(v, j)
    BY <2>2, WithoutIs
  <2>4. \A a \in NamesOf(k) \ {k} : ~IsSome(At(v, a))
    <3>1. GivenSome(v, k) = {}
      BY <1>2, <1>5 DEF Missing
    <3> QED
      BY <3>1, SomeGiven
  <2>5. Mended(v, r.v, k)
    BY <1>5, <2>3, <2>4 DEF Mended
  <2>6. Fixable(v, k)
    BY <1>5 DEF Fixable
  <2>7. \A j : j \notin NamesOf(k) => At(r.v, j) = At(v, j)
    BY <1>3, <2>3
  <2> QED
    BY <2>2, <2>3, <2>5, <2>6, <2>7 DEF r
<1>6. CASE ~m.hit /\ At(v, k) # Null
  <2>1. r.hit = FALSE
    BY <1>1, <1>6, HitIs
  <2>2. ~Fixable(v, k)
    BY <1>2, <1>6 DEF Fixable, Missing
  <2> QED
    BY <2>1, <2>2 DEF r
<1> QED
  BY <1>4, <1>5, <1>6

\* t is s once the text k is repaired.
Mends(s, t, k) ==
  /\ t.n \in Nat /\ IsRecord(t.v) /\ Mended(s.v, t.v, k)
  /\ \A j : j \notin NamesOf(k) => At(t.v, j) = At(s.v, j)
  /\ IF Fixable(s.v, k) THEN t.n = s.n + 1 ELSE t.n = s.n /\ t.v = s.v

LEMMA Repaired1Is ==
  ASSUME NEW s, s.n \in Nat, IsRecord(s.v), NEW k \in TextNames,
         NEW complains, Fixable(s.v, k) => complains
  PROVE  Mends(s, Repaired1(s, k, "string", complains), k)
<1> DEFINE r == RepairField(s.v, k, "string")
           t == Repaired1(s, k, "string", complains)
<1>1. t = IF complains /\ r.hit THEN [v |-> r.v, n |-> s.n + 1] ELSE s
  BY DEF Repaired1
<1>2. /\ r.hit \in BOOLEAN /\ (r.hit <=> Fixable(s.v, k))
      /\ r.hit => /\ IsRecord(r.v) /\ Mended(s.v, r.v, k)
                  /\ \A j : j \notin NamesOf(k) => At(r.v, j) = At(s.v, j)
  BY RepairFieldIs
<1> HIDE DEF r, t
<1>3. CASE Fixable(s.v, k)
  <2>1. t = [v |-> r.v, n |-> s.n + 1]
    <3>1. complains /\ r.hit
      BY <1>2, <1>3
    <3> QED
      BY <1>1, <3>1, Zenon
  <2>2. t.v = r.v /\ t.n = s.n + 1
    BY <2>1
  <2>3. IsRecord(t.v) /\ Mended(s.v, t.v, k) /\ \A j : j \notin NamesOf(k) => At(t.v, j) = At(s.v, j)
    BY <1>2, <1>3, <2>2
  <2>4. t.n \in Nat
    BY <2>2
  <2>5. Mends(s, t, k)
    BY <1>3, <2>2, <2>3, <2>4 DEF Mends
  <2> QED
    BY <2>5 DEF t
<1>4. CASE ~Fixable(s.v, k)
  <2>1. t = s
    BY <1>1, <1>2, <1>4
  <2> QED
    BY <1>4, <2>1 DEF Mends, Mended, t
<1> QED
  BY <1>3, <1>4

LEMMA RepairTextIs ==
  ASSUME NEW s, s.n \in Nat, IsRecord(s.v), NEW k \in {"oldText", "newText", "anchor"}
  PROVE  Mends(s, RepairText(s, k), k)
<1> DEFINE complains == ~IsString(At(s.v, k)) /\ (k \in Required \/ At(s.v, k) # Absent)
<1>1. Fixable(s.v, k) => complains
  <2>1. k = "anchor" => GivenSome(s.v, k) = {}
    BY AliasesAre DEF GivenSome
  <2> QED
    BY <2>1, KindsDiffer, AbsentIsNone DEF Fixable, Required
<1>2. k \in TextNames
  BY DEF TextNames, Named
<1> HIDE DEF complains
<1>3. Mends(s, Repaired1(s, k, "string", complains), k)
  BY <1>1, <1>2, Repaired1Is
<1> QED
  BY <1>3 DEF RepairText, complains

-----------------------------------------------------------------------------
(* Repaired fields stay as they are.                                         *)

\* Whether a text can be repaired depends on its names.
LEMMA FixableBy ==
  ASSUME NEW v, NEW w, NEW k \in TextNames, \A j \in NamesOf(k) : At(w, j) = At(v, j)
  PROVE  Fixable(w, k) <=> Fixable(v, k)
<1>1. k \in NamesOf(k)
  BY NamesDiffer
<1>2. GivenSome(w, k) = {} <=> GivenSome(v, k) = {}
  BY SomeGiven
<1> QED
  BY <1>1, <1>2 DEF Fixable

LEMMA MendedIs ==
  ASSUME NEW v, NEW w, NEW k \in TextNames, Mended(v, w, k)
  PROVE  ~Fixable(w, k)
<1>1. k \in NamesOf(k)
  BY NamesDiffer
<1>2. CASE ~Fixable(v, k) /\ \A j \in NamesOf(k) : At(w, j) = At(v, j)
  BY <1>2, FixableBy
<1>3. ASSUME NEW a \in NamesOf(k) \ {k}, IsSome(At(v, a)),
             \A j \in NamesOf(k) :
               At(w, j) = IF j = k THEN At(v, a) ELSE IF j = a THEN Absent ELSE At(v, j)
      PROVE  ~Fixable(w, k)
  <2>1. At(w, k) = At(v, a)
    BY <1>1, <1>3
  <2> QED
    BY <1>3, <2>1 DEF IsSome, Fixable
<1>4. CASE /\ At(v, k) = Null /\ \A a \in NamesOf(k) \ {k} : ~IsSome(At(v, a))
           /\ \A j \in NamesOf(k) : At(w, j) = IF j = k THEN Absent ELSE At(v, j)
  <2>1. At(w, k) = Absent /\ \A a \in NamesOf(k) \ {k} : ~IsSome(At(w, a))
    BY <1>1, <1>4
  <2> QED
    BY <2>1, SomeGiven, AbsentIsNone DEF Fixable
<1> QED
  BY <1>2, <1>3, <1>4 DEF Mended

LEMMA StillMended ==
  ASSUME NEW v, NEW w, NEW x, NEW k \in TextNames, \A j \in NamesOf(k) : At(x, j) = At(w, j)
  PROVE  Mended(v, w, k) <=> Mended(v, x, k)
BY DEF Mended

LEMMA MendedOf ==
  ASSUME NEW v, NEW w, NEW x, NEW k \in TextNames, \A j \in NamesOf(k) : At(x, j) = At(v, j)
  PROVE  Mended(v, w, k) <=> Mended(x, w, k)
<1>1. k \in NamesOf(k)
  BY NamesDiffer
<1>2. Fixable(x, k) <=> Fixable(v, k)
  BY FixableBy
<1> QED
  BY <1>1, <1>2 DEF Mended, Missing

-----------------------------------------------------------------------------
(* Schema repair of an edit.                                                 *)

EditNames == {"oldText", "newText", "anchor"}

\* w is the object v with each of an edit's fields repaired.
MendsEdit(v, w) ==
  /\ IsRecord(w) /\ \A k \in EditNames : Mended(v, w, k)
  /\ \A j : j \notin NamesOf("oldText") \cup NamesOf("newText") \cup {"anchor"} => At(w, j) = At(v, j)

LEMMA RepairEditIs ==
  ASSUME NEW v, IsRecord(v)
  PROVE  LET r == RepairEdit(v) IN
         /\ r.n \in Nat /\ MendsEdit(v, r.v)
         /\ r.n = 0 => r.v = v
         /\ r.n = 0 <=> \A k \in EditNames : ~Fixable(v, k)
<1> DEFINE s0 == [v |-> v, n |-> 0]
           s1 == RepairText(s0, "oldText")
           s2 == RepairText(s1, "newText")
           s3 == RepairText(s2, "anchor")
<1>1. RepairEdit(v) = s3
  BY DEF RepairEdit, IsRecord
<1>2. s0.v = v /\ s0.n = 0 /\ s0.n \in Nat
  OBVIOUS
<1> HIDE DEF s0
<1>3. Mends(s0, s1, "oldText")
  BY <1>2, RepairTextIs
<1> HIDE DEF s1
<1>4. Mends(s1, s2, "newText")
  BY <1>3, RepairTextIs DEF Mends
<1> HIDE DEF s2
<1>5. Mends(s2, s3, "anchor")
  BY <1>4, RepairTextIs DEF Mends
<1> HIDE DEF s3
<1>6. /\ \A j \in NamesOf("oldText") : j \notin NamesOf("newText") /\ j \notin NamesOf("anchor")
      /\ \A j \in NamesOf("newText") : j \notin NamesOf("oldText") /\ j \notin NamesOf("anchor")
      /\ "anchor" \notin NamesOf("oldText") /\ "anchor" \notin NamesOf("newText")
      /\ NamesOf("anchor") = {"anchor"}
      /\ "oldText" \in TextNames /\ "newText" \in TextNames /\ "anchor" \in TextNames
  <2>1. "oldText" \in TextNames /\ "newText" \in TextNames /\ "anchor" \in TextNames
    BY DEF TextNames, Named
  <2> QED
    BY <2>1, AliasesAre, NamesDiffer
<1>7. /\ \A j \in NamesOf("oldText") : At(s3.v, j) = At(s1.v, j)
      /\ \A j \in NamesOf("newText") : At(s1.v, j) = At(v, j) /\ At(s3.v, j) = At(s2.v, j)
      /\ \A j \in NamesOf("anchor") : At(s2.v, j) = At(v, j)
  BY <1>2, <1>3, <1>4, <1>5, <1>6 DEF Mends
<1>8. Mended(v, s3.v, "oldText")
  BY <1>2, <1>3, <1>6, <1>7, StillMended DEF Mends
<1>9. Mended(v, s3.v, "newText")
  <2>1. Mended(s1.v, s3.v, "newText")
    BY <1>4, <1>6, <1>7, StillMended DEF Mends
  <2> QED
    BY <1>6, <1>7, <2>1, MendedOf
<1>10. Mended(v, s3.v, "anchor")
  BY <1>5, <1>6, <1>7, MendedOf DEF Mends
<1>11. \A j : j \notin NamesOf("oldText") \cup NamesOf("newText") \cup {"anchor"}
              => At(s3.v, j) = At(v, j)
  BY <1>2, <1>3, <1>4, <1>5, <1>6 DEF Mends
<1>12. MendsEdit(v, s3.v)
  BY <1>5, <1>8, <1>9, <1>10, <1>11 DEF MendsEdit, EditNames, Mends
<1>13. /\ Fixable(s1.v, "newText") <=> Fixable(v, "newText")
       /\ Fixable(s2.v, "anchor") <=> Fixable(v, "anchor")
  BY <1>6, <1>7, FixableBy
<1>14. /\ s1.n = IF Fixable(v, "oldText") THEN s0.n + 1 ELSE s0.n
       /\ s2.n = IF Fixable(v, "newText") THEN s1.n + 1 ELSE s1.n
       /\ s3.n = IF Fixable(v, "anchor") THEN s2.n + 1 ELSE s2.n
       /\ s1.n \in Nat /\ s2.n \in Nat /\ s3.n \in Nat
  BY <1>2, <1>3, <1>4, <1>5, <1>13 DEF Mends
<1>15. s3.n = 0 <=> \A k \in EditNames : ~Fixable(v, k)
  <2>1. s3.n = 0 <=> ~Fixable(v, "oldText") /\ ~Fixable(v, "newText") /\ ~Fixable(v, "anchor")
    BY <1>2, <1>14
  <2> QED
    BY <2>1 DEF EditNames
<1>16. s3.n = 0 => s3.v = v
  BY <1>2, <1>3, <1>4, <1>5, <1>13, <1>15 DEF Mends, EditNames
<1> QED
  BY <1>1, <1>12, <1>14, <1>15, <1>16

\* What the repair of any element gives.
LEMMA RepairElementIs ==
  ASSUME NEW x, IsJson(x)
  PROVE  LET r == RepairEdit(x) IN
         /\ r.n \in Nat /\ IsJson(r.v) /\ (r.n = 0 => r.v = x)
         /\ r.n = 0 \/ IsObj(r.v)
         /\ IsObj(x) => IsObj(r.v) /\ RepairEdit(r.v).n = 0
<1>1. CASE IsObj(x)
  <2>1. IsRecord(x)
    BY <1>1 DEF IsRecord
  <2> DEFINE r == RepairEdit(x)
  <2>2. r.n \in Nat /\ MendsEdit(x, r.v) /\ (r.n = 0 => r.v = x)
    BY <2>1, RepairEditIs
  <2> HIDE DEF r
  <2>3. IsRecord(r.v) /\ \A k \in EditNames : ~Fixable(r.v, k)
    BY <2>2, MendedIs DEF MendsEdit, EditNames, TextNames, Named
  <2>4. RepairEdit(r.v).n = 0
    BY <2>3, RepairEditIs
  <2> QED
    BY <2>2, <2>3, <2>4 DEF r, IsRecord
<1>2. CASE ~IsObj(x) /\ Strict(x) /\ IsObj(x.v)
  <2>1. RepairEdit(x) = [v |-> x.v, n |-> 1]
    BY <1>2 DEF RepairEdit
  <2>2. IsJson(x.v)
    BY <1>2, Encoded, EncodedIsJson
  <2>3. RepairEdit(x).v = x.v /\ RepairEdit(x).n = 1
    BY <2>1
  <2> QED
    BY <1>2, <2>2, <2>3
<1>3. CASE ~IsObj(x) /\ ~(Strict(x) /\ IsObj(x.v))
  <2>1. RepairEdit(x) = [v |-> x, n |-> 0]
    BY <1>3 DEF RepairEdit
  <2>2. RepairEdit(x).v = x /\ RepairEdit(x).n = 0
    BY <2>1
  <2> QED
    BY <1>3, <2>2
<1> QED
  BY <1>1, <1>2, <1>3

-----------------------------------------------------------------------------
(* Schema repair of the arguments' own fields.                               *)

\* The edits made an array where they can be.
Arrayed(x) ==
  IF x = Null \/ Hollow(x) THEN Absent
  ELSE IF IsString(x) THEN IF Strict(x) /\ IsArr(x.v) THEN x.v ELSE Arr(<<x>>)
  ELSE x

\* Edits that are as much of an array as they get.
Shaped(x) == x # Null /\ ~Hollow(x) /\ ~IsString(x)

LEMMA ArrayedIs ==
  ASSUME NEW x, JsonOrNone(x)
  PROVE  /\ JsonOrNone(Arrayed(x)) /\ Shaped(Arrayed(x)) /\ (Shaped(x) => Arrayed(x) = x)
         /\ IsArr(x) => Shaped(x)
<1>1. IsArr(x) => Shaped(x)
  BY KindsDiffer DEF Shaped, Hollow
<1>2. CASE x = Null \/ Hollow(x)
  <2>1. Arrayed(x) = Absent
    BY <1>2 DEF Arrayed
  <2>2. Shaped(Absent)
    BY KindsDiffer, AbsentIsNone DEF Shaped, Hollow
  <2> QED
    BY <1>1, <1>2, <2>1, <2>2 DEF JsonOrNone, Shaped
<1>3. CASE ~(x = Null \/ Hollow(x)) /\ IsString(x)
  <2>1. CASE Strict(x) /\ IsArr(x.v)
    <3>1. IsJson(x.v)
      BY <1>3, <2>1, Encoded, EncodedIsJson, KindsDiffer DEF JsonOrNone
    <3>2. Arrayed(x) = x.v
      BY <1>3, <2>1 DEF Arrayed
    <3>3. Shaped(x.v)
      BY <2>1, KindsDiffer DEF Shaped, Hollow
    <3> QED
      BY <1>1, <1>3, <3>1, <3>2, <3>3 DEF JsonOrNone, Shaped
  <2>2. CASE ~(Strict(x) /\ IsArr(x.v))
    <3>1. Arrayed(x) = Arr(<<x>>)
      BY <1>3, <2>2 DEF Arrayed
    <3>2. IsJson(x)
      BY <1>3, KindsDiffer DEF JsonOrNone
    <3>3. \A i \in DOMAIN <<x>> : IsJson(<<x>>[i])
      BY <3>2, SingleIs
    <3>4. IsJson(Arr(<<x>>)) /\ IsArr(Arr(<<x>>))
      BY <3>3, SingleIs, ArrIsJson, Encoded
    <3>5. Shaped(Arr(<<x>>))
      BY <3>4, KindsDiffer DEF Shaped, Hollow
    <3> QED
      BY <1>1, <1>3, <3>1, <3>4, <3>5 DEF JsonOrNone, Shaped
  <2> QED
    BY <2>1, <2>2
<1>4. CASE ~(x = Null \/ Hollow(x)) /\ ~IsString(x)
  <2>1. Arrayed(x) = x /\ Shaped(x)
    BY <1>4 DEF Arrayed, Shaped
  <2> QED
    BY <2>1
<1> QED
  BY <1>2, <1>3, <1>4

LEMMA EditsFieldIs ==
  ASSUME NEW s, s.n \in Nat, IsRecord(s.v)
  PROVE  LET x == At(s.v, "edits")
             t == Repaired1(s, "edits", "array", ~IsArr(x))
         IN  /\ t.n \in Nat /\ Set(s.v, t.v, "edits", Arrayed(x))
             /\ IF Shaped(x) THEN t.n = s.n /\ t.v = s.v ELSE t.n = s.n + 1
<1> DEFINE x == At(s.v, "edits")
           t == Repaired1(s, "edits", "array", ~IsArr(x))
           r == RepairField(s.v, "edits", "array")
           m == SomeAlias(s.v, "edits")
<1>1. t = IF ~IsArr(x) /\ r.hit THEN [v |-> r.v, n |-> s.n + 1] ELSE s
  BY DEF Repaired1
<1>2. JsonOrNone(x) /\ JsonOrNone(Arrayed(x))
  BY AtIsJson, ArrayedIs DEF IsRecord
<1>3. m = Miss
  <2> DEFINE found == {i \in DOMAIN AliasesOf("edits") : IsSome(At(s.v, AliasesOf("edits")[i]))}
  <2>1. found = {}
    BY AliasesAre
  <2>2. m = IF Missing(s.v, "edits") /\ found # {}
            THEN Hit(Without(With(s.v, "edits", s.v.f[AliasesOf("edits")[Min(found)]]),
                             {AliasesOf("edits")[Min(found)]}))
            ELSE Miss
    BY DEF SomeAlias, Rename, Missing, IsSome
  <2> HIDE DEF found
  <2> QED
    BY <2>1, <2>2
<1>4. r = IF x = Null \/ Hollow(x) THEN Hit(Without(s.v, {"edits"}))
          ELSE IF IsString(x) THEN Hit(With(s.v, "edits", Arrayed(x))) ELSE Miss
  <2>1. ~m.hit
    BY <1>3, HitIs
  <2>2. r = CASE x = Null \/ Hollow(x) -> Hit(Without(s.v, {"edits"}))
              [] IsString(x) -> Hit(With(s.v, "edits", IF Strict(x) /\ IsArr(x.v) THEN x.v ELSE Arr(<<x>>)))
              [] OTHER -> Miss
    BY <2>1 DEF RepairField, Dropped, SomeAlias, Hollow
  <2>3. IsString(x) => ~(x = Null \/ Hollow(x))
    BY KindsDiffer DEF Hollow
  <2> QED
    BY <2>2, <2>3 DEF Arrayed
<1> HIDE DEF r, x, t
<1>5. CASE Shaped(x)
  <2>1. r.hit = FALSE
    BY <1>4, <1>5, HitIs DEF Shaped
  <2>2. t = s
    BY <1>1, <2>1
  <2>3. Arrayed(x) = x
    BY <1>2, <1>5, ArrayedIs
  <2> QED
    BY <1>5, <2>2, <2>3 DEF Set, x, t
<1>6. CASE x = Null \/ Hollow(x)
  <2>1. r.hit = TRUE /\ r.v = Without(s.v, {"edits"}) /\ Arrayed(x) = Absent /\ ~IsArr(x)
    BY <1>4, <1>6, HitIs, KindsDiffer DEF Arrayed, Hollow
  <2>2. t.v = Without(s.v, {"edits"}) /\ t.n = s.n + 1
    BY <1>1, <2>1
  <2>3. Set(s.v, t.v, "edits", Arrayed(x))
    BY <2>1, <2>2, WithoutIs DEF Set
  <2>4. ~Shaped(x) /\ t.n \in Nat
    BY <1>6, <2>2 DEF Shaped
  <2> QED
    BY <2>2, <2>3, <2>4 DEF x, t
<1>7. CASE ~(x = Null \/ Hollow(x)) /\ IsString(x)
  <2>1. r.hit = TRUE /\ r.v = With(s.v, "edits", Arrayed(x)) /\ ~IsArr(x)
    BY <1>4, <1>7, HitIs, KindsDiffer
  <2>2. t.v = With(s.v, "edits", Arrayed(x)) /\ t.n = s.n + 1
    BY <1>1, <2>1
  <2>3. Arrayed(x) # Absent
    <3>1. (Arrayed(x) = x.v /\ IsArr(x.v)) \/ Arrayed(x) = Arr(<<x>>)
      BY <1>7 DEF Arrayed
    <3> QED
      BY <3>1, Encoded, KindsDiffer
  <2>4. Set(s.v, t.v, "edits", Arrayed(x))
    BY <1>2, <2>2, <2>3, WithSets DEF JsonOrNone
  <2>5. ~Shaped(x) /\ t.n \in Nat
    BY <1>7, <2>2 DEF Shaped
  <2> QED
    BY <2>2, <2>4, <2>5 DEF x, t
<1> QED
  BY <1>5, <1>6, <1>7 DEF Shaped

\* w is v with the path and the edits repaired.
MendsRoot(v, w, edits) ==
  /\ IsRecord(w) /\ Mended(v, w, "path") /\ At(w, "edits") = edits
  /\ \A j : j \notin NamesOf("path") \cup {"edits"} => At(w, j) = At(v, j)

LEMMA RepairRootIs ==
  ASSUME NEW v, IsRecord(v)
  PROVE  LET r == RepairRoot(v)
             x == At(v, "edits")
         IN
         /\ r.n \in Nat /\ MendsRoot(v, r.v, Arrayed(x))
         /\ r.n = 0 => r.v = v
         /\ r.n = 0 <=> ~Fixable(v, "path") /\ Shaped(x)
<1> DEFINE s0 == [v |-> v, n |-> 0]
           p == Repaired1(s0, "path", "string", ~IsString(At(v, "path")))
           r == Repaired1(p, "edits", "array", ~IsArr(At(p.v, "edits")))
           x == At(v, "edits")
<1>1. RepairRoot(v) = r
  BY DEF RepairRoot
<1>2. s0.v = v /\ s0.n = 0 /\ s0.n \in Nat
  OBVIOUS
<1> HIDE DEF s0
<1>3. "path" \in TextNames /\ "edits" \notin NamesOf("path")
  BY NamesDiffer DEF TextNames, Named
<1>4. Fixable(s0.v, "path") => ~IsString(At(v, "path"))
  BY <1>2, KindsDiffer DEF Fixable
<1>5. Mends(s0, p, "path")
  <2> DEFINE complains == ~IsString(At(v, "path"))
  <2> HIDE DEF complains
  <2>1. Fixable(s0.v, "path") => complains
    BY <1>4 DEF complains
  <2>2. Mends(s0, Repaired1(s0, "path", "string", complains), "path")
    BY <1>2, <1>3, <2>1, Repaired1Is
  <2> QED
    BY <2>2 DEF complains
<1> HIDE DEF p
<1>6. /\ p.n \in Nat /\ IsRecord(p.v) /\ Mended(v, p.v, "path") /\ At(p.v, "edits") = x
      /\ \A j : j \notin NamesOf("path") => At(p.v, j) = At(v, j)
      /\ IF Fixable(v, "path") THEN p.n = 1 ELSE p.n = 0 /\ p.v = v
  BY <1>2, <1>3, <1>5 DEF Mends
<1>7. /\ r.n \in Nat /\ Set(p.v, r.v, "edits", Arrayed(x))
      /\ IF Shaped(x) THEN r.n = p.n /\ r.v = p.v ELSE r.n = p.n + 1
  BY <1>6, EditsFieldIs
<1> HIDE DEF r, x
<1>8. \A j \in NamesOf("path") : At(r.v, j) = At(p.v, j)
  BY <1>3, <1>7 DEF Set
<1>9. Mended(v, r.v, "path")
  BY <1>3, <1>6, <1>8, StillMended
<1>10. MendsRoot(v, r.v, Arrayed(x))
  BY <1>6, <1>7, <1>9 DEF MendsRoot, Set
<1>11. /\ r.n = 0 => r.v = v
       /\ r.n = 0 <=> ~Fixable(v, "path") /\ Shaped(x)
  BY <1>6, <1>7
<1> QED
  BY <1>1, <1>7, <1>10, <1>11 DEF x

-----------------------------------------------------------------------------
(* A pass.                                                                   *)

LEMMA SumExists ==
  ASSUME NEW r, NEW n \in Nat
  PROVE  \E f : f = [i \in 0 .. n |-> IF i = 0 THEN 0 ELSE f[i - 1] + r[i].n]
<1> DEFINE Sums(m) == \E f : f = [i \in 0 .. m |-> IF i = 0 THEN 0 ELSE f[i - 1] + r[i].n]
           S == {m \in 0 .. n : Sums(m)}
<1>1. Sums(0)
  <2> DEFINE f == [i \in 0 .. 0 |-> 0]
  <2>1. f = [i \in 0 .. 0 |-> IF i = 0 THEN 0 ELSE f[i - 1] + r[i].n]
    OBVIOUS
  <2> QED
    BY <2>1
<1>2. ASSUME NEW m \in 0 .. n - 1, Sums(m) PROVE Sums(m + 1)
  <2>1. PICK g : g = [i \in 0 .. m |-> IF i = 0 THEN 0 ELSE g[i - 1] + r[i].n]
    BY <1>2, Zenon
  <2> DEFINE f == [i \in 0 .. m + 1 |-> IF i <= m THEN g[i] ELSE g[m] + r[i].n]
  <2>2. \A i \in 0 .. m + 1 : i # 0 => i - 1 \in 0 .. m /\ f[i - 1] = g[i - 1]
    OBVIOUS
  <2>3. ASSUME NEW i \in 0 .. m + 1
        PROVE  f[i] = IF i = 0 THEN 0 ELSE f[i - 1] + r[i].n
    <3>1. CASE i <= m
      <4>1. i \in 0 .. m
        BY <3>1
      <4> QED
        BY <4>1, <3>1, <2>1, <2>2
    <3>2. CASE ~(i <= m)
      <4>1. i = m + 1 /\ i - 1 = m /\ i # 0
        BY <3>2
      <4> QED
        BY <4>1, <3>2, <2>2
    <3> QED
      BY <3>1, <3>2
  <2>4. f = [i \in 0 .. m + 1 |-> IF i = 0 THEN 0 ELSE f[i - 1] + r[i].n]
    BY <2>3
  <2> QED
    BY <2>4
<1> HIDE DEF Sums
<1>3. 0 \in S /\ \A m \in 0 .. n - 1 : m \in S => m + 1 \in S
  BY <1>1, <1>2
<1> HIDE DEF S
<1>4. n \in S
  BY <1>3, UpTo
<1> QED
  BY <1>4 DEF S, Sums

LEMMA TotalIs ==
  ASSUME NEW r, IsListed(r), \A i \in DOMAIN r : r[i].n \in Nat
  PROVE  Total(r) \in Nat /\ (Total(r) = 0 <=> \A i \in DOMAIN r : r[i].n = 0)
<1> DEFINE n == Len(r)
           F(f) == [i \in 0 .. n |-> IF i = 0 THEN 0 ELSE f[i - 1] + r[i].n]
           f0 == CHOOSE f : f = F(f)
<1>1. n \in Nat /\ DOMAIN r = 1 .. n
  BY ListIs
<1>2. Total(r) = f0[n]
  BY DEF Total
<1> HIDE DEF n
<1>3. f0 = F(f0)
  BY <1>1, SumExists
<1> HIDE DEF f0
<1>4. f0[0] = 0 /\ \A i \in 1 .. n : f0[i] = f0[i - 1] + r[i].n
  BY <1>1, <1>3
<1> DEFINE S == {i \in 0 .. n : f0[i] \in Nat /\ (f0[i] = 0 <=> \A j \in 1 .. i : r[j].n = 0)}
<1>5. 0 \in S
  BY <1>1, <1>4
<1>6. ASSUME NEW k \in 0 .. n - 1, k \in S PROVE k + 1 \in S
  <2>1. k + 1 \in 1 .. n /\ (k + 1) - 1 = k
    BY <1>1
  <2>2. f0[k + 1] = f0[k] + r[k + 1].n /\ r[k + 1].n \in Nat /\ f0[k] \in Nat
    BY <1>1, <1>4, <1>6, <2>1
  <2>3. (\A j \in 1 .. k + 1 : r[j].n = 0) <=> (\A j \in 1 .. k : r[j].n = 0) /\ r[k + 1].n = 0
    <3>1. \A j \in 1 .. k + 1 : j \in 1 .. k \/ j = k + 1
      BY <2>1
    <3>2. k + 1 \in 1 .. k + 1 /\ \A j \in 1 .. k : j \in 1 .. k + 1
      BY <2>1
    <3> QED
      BY <3>1, <3>2
  <2> QED
    BY <1>6, <2>1, <2>2, <2>3
<1> HIDE DEF S
<1>7. n \in S
  BY <1>1, <1>5, <1>6, UpTo
<1> QED
  BY <1>1, <1>2, <1>7 DEF S

\* The edits after a pass, and those it leaves as they are.
MendedEdits(x) ==
  IF IsArr(x) THEN Arr([i \in DOMAIN x.e |-> RepairEdit(x.e[i]).v]) ELSE Arrayed(x)

StillEdits(x) == IF IsArr(x) THEN \A i \in DOMAIN x.e : RepairEdit(x.e[i]).n = 0 ELSE Shaped(x)

LEMMA MendedEditsAre ==
  ASSUME NEW x, JsonOrNone(x)
  PROVE  LET y == MendedEdits(x) IN
         /\ JsonOrNone(y) /\ (StillEdits(x) => y = x)
         /\ IsArr(x) => /\ IsJson(y) /\ IsArr(y) /\ IsListed(y.e) /\ Len(y.e) = Len(x.e)
                        /\ DOMAIN y.e = DOMAIN x.e
                        /\ \A i \in DOMAIN x.e : y.e[i] = RepairEdit(x.e[i]).v
<1>1. CASE IsArr(x)
  <2> DEFINE g == [i \in DOMAIN x.e |-> RepairEdit(x.e[i]).v]
  <2>1. IsJson(x)
    BY <1>1, KindsDiffer DEF JsonOrNone
  <2>2. x = Arr(x.e) /\ IsListed(x.e) /\ \A i \in DOMAIN x.e : IsJson(x.e[i])
    BY <1>1, <2>1, ArrIs
  <2>3. \A i \in DOMAIN x.e : IsJson(g[i])
    BY <2>2, RepairElementIs
  <2>4. DOMAIN g = DOMAIN x.e /\ g = [i \in DOMAIN g |-> g[i]]
        /\ \A i \in DOMAIN x.e : g[i] = RepairEdit(x.e[i]).v
    OBVIOUS
  <2> HIDE DEF g
  <2>5. /\ IsJson(Arr(g)) /\ IsArr(Arr(g)) /\ Arr(g).e = g
        /\ IsListed(g) /\ Len(g) = Len(x.e)
    BY <1>1, <2>1, <2>3, <2>4, RewrittenIs
  <2>6. MendedEdits(x) = Arr(g)
    BY <1>1 DEF MendedEdits, g
  <2>7. ASSUME StillEdits(x) PROVE Arr(g) = x
    <3>1. \A i \in DOMAIN x.e : g[i] = x.e[i]
      BY <1>1, <2>2, <2>4, <2>7, RepairElementIs DEF StillEdits
    <3>2. DOMAIN x.e = 1 .. Len(x.e)
      BY <2>2, ListIs
    <3>3. g = x.e
      BY <2>2, <2>5, <3>1, <3>2, SameList
    <3> QED
      BY <2>2, <3>3
  <2> QED
    BY <1>1, <2>4, <2>5, <2>6, <2>7 DEF JsonOrNone
<1>2. CASE ~IsArr(x)
  BY <1>2, ArrayedIs DEF MendedEdits, StillEdits
<1> QED
  BY <1>1, <1>2

\* w is v after a pass.
Passed(v, w) == MendsRoot(v, w, MendedEdits(At(v, "edits")))

Still(v) == ~Fixable(v, "path") /\ StillEdits(At(v, "edits"))

LEMMA PassIs ==
  ASSUME NEW v, IsRecord(v)
  PROVE  LET p == Pass(v) IN
         /\ p.n \in Nat /\ IsRecord(p.v) /\ Passed(v, p.v)
         /\ p.n = 0 => p.v = v
         /\ p.n = 0 <=> Still(v)
<1> DEFINE x == At(v, "edits")
           root == RepairRoot(v)
           p == Pass(v)
<1>1. /\ root.n \in Nat /\ MendsRoot(v, root.v, Arrayed(x))
      /\ root.n = 0 => root.v = v
      /\ root.n = 0 <=> ~Fixable(v, "path") /\ Shaped(x)
  BY RepairRootIs
<1>2. JsonOrNone(x)
  BY AtIsJson DEF IsRecord
<1>3. CASE ~IsArr(x)
  <2>1. p = root
    BY <1>3 DEF Pass
  <2>2. MendedEdits(x) = Arrayed(x) /\ (StillEdits(x) <=> Shaped(x))
    BY <1>3 DEF MendedEdits, StillEdits
  <2> HIDE DEF p, root
  <2> QED
    BY <1>1, <2>1, <2>2 DEF Passed, Still, MendsRoot, p
<1>4. CASE IsArr(x)
  <2>1. v.f.edits = x /\ IsJson(x)
    BY <1>2, <1>4, StringAt, KindsDiffer DEF JsonOrNone
  <2> DEFINE edits == [i \in DOMAIN x.e |-> RepairEdit(x.e[i])]
             g == [i \in DOMAIN x.e |-> RepairEdit(x.e[i]).v]
  <2>2. IsListed(x.e) /\ \A i \in DOMAIN x.e : IsJson(x.e[i])
    BY <1>4, <2>1, ArrIs
  <2>3. g = [i \in DOMAIN edits |-> edits[i].v]
    OBVIOUS
  <2>4. p = [v |-> With(root.v, "edits", Arr(g)), n |-> root.n + Total(edits)]
    BY <1>4, <2>1, <2>3 DEF Pass
  <2>5. MendedEdits(x) = Arr(g)
    BY <1>4 DEF MendedEdits
  <2>6. IsListed(edits) /\ DOMAIN edits = DOMAIN x.e
        /\ \A i \in DOMAIN x.e : edits[i] = RepairEdit(x.e[i])
    <3>1. Len(x.e) \in Nat /\ DOMAIN x.e = 1 .. Len(x.e)
      BY <2>2, ListIs
    <3>2. edits = [i \in 1 .. Len(x.e) |-> edits[i]] /\ DOMAIN edits = DOMAIN x.e
          /\ \A i \in DOMAIN x.e : edits[i] = RepairEdit(x.e[i])
      BY <3>1
    <3> HIDE DEF edits
    <3> QED
      BY <3>1, <3>2, MakesList
  <2> HIDE DEF edits, g, root, x
  <2>7. /\ Total(edits) \in Nat
        /\ Total(edits) = 0 <=> \A i \in DOMAIN x.e : RepairEdit(x.e[i]).n = 0
    <3>1. \A i \in DOMAIN edits : edits[i].n \in Nat
      BY <2>2, <2>6, RepairElementIs
    <3> QED
      BY <2>6, <3>1, TotalIs
  <2>8. StillEdits(x) <=> Total(edits) = 0
    BY <1>4, <2>7 DEF StillEdits
  <2>9. IsJson(Arr(g)) /\ Arr(g) # Absent /\ (StillEdits(x) => Arr(g) = x)
    <3>1. IsJson(MendedEdits(x)) /\ IsArr(MendedEdits(x)) /\ (StillEdits(x) => MendedEdits(x) = x)
      BY <1>2, <1>4, MendedEditsAre
    <3> QED
      BY <2>5, <3>1, KindsDiffer
  <2>10. Set(root.v, With(root.v, "edits", Arr(g)), "edits", Arr(g))
    BY <1>1, <2>9, WithSets DEF MendsRoot
  <2> DEFINE w == With(root.v, "edits", Arr(g))
  <2>11. "path" \in TextNames /\ \A j \in NamesOf("path") : j # "edits"
    BY NamesDiffer DEF TextNames, Named
  <2>12. Mended(v, w, "path")
    BY <1>1, <2>10, <2>11, StillMended DEF MendsRoot, Set
  <2>13. MendsRoot(v, w, Arr(g))
    BY <1>1, <2>10, <2>12 DEF MendsRoot, Set
  <2>14. Shaped(x)
    BY <1>2, <1>4, ArrayedIs
  <2>15. root.n + Total(edits) \in Nat
         /\ (root.n + Total(edits) = 0 <=> root.n = 0 /\ Total(edits) = 0)
    BY <1>1, <2>7
  <2>16. root.n + Total(edits) = 0 <=> Still(v)
    BY <1>1, <2>8, <2>14, <2>15 DEF Still, x
  <2>17. ASSUME root.n + Total(edits) = 0 PROVE w = v
    <3>1. root.v = v /\ Arr(g) = x
      BY <1>1, <2>8, <2>9, <2>15, <2>17
    <3> QED
      BY <2>9, <3>1, SameEdits DEF x
  <2> HIDE DEF w
  <2>18. p.v = w /\ p.n = root.n + Total(edits)
    BY <2>4 DEF w
  <2> HIDE DEF p
  <2> QED
    BY <2>5, <2>13, <2>15, <2>16, <2>17, <2>18 DEF Passed, MendsRoot, p, x
<1> QED
  BY <1>3, <1>4

-----------------------------------------------------------------------------
(* All passes.                                                               *)

LEMMA PassesExist ==
  ASSUME NEW s0, NEW n \in Nat
  PROVE  \E f : f = [k \in 0 .. n |-> IF k = 0 THEN s0 ELSE OnePass(f[k - 1])]
<1> DEFINE Runs(m) == \E f : f = [k \in 0 .. m |-> IF k = 0 THEN s0 ELSE OnePass(f[k - 1])]
           S == {m \in 0 .. n : Runs(m)}
<1>1. Runs(0)
  <2> DEFINE f == [k \in 0 .. 0 |-> s0]
  <2>1. f = [k \in 0 .. 0 |-> IF k = 0 THEN s0 ELSE OnePass(f[k - 1])]
    OBVIOUS
  <2> QED
    BY <2>1
<1>2. ASSUME NEW m \in 0 .. n - 1, Runs(m) PROVE Runs(m + 1)
  <2>1. PICK g : g = [k \in 0 .. m |-> IF k = 0 THEN s0 ELSE OnePass(g[k - 1])]
    BY <1>2, Zenon
  <2> DEFINE f == [k \in 0 .. m + 1 |-> IF k <= m THEN g[k] ELSE OnePass(g[m])]
  <2>2. \A k \in 0 .. m + 1 : k # 0 => k - 1 \in 0 .. m /\ f[k - 1] = g[k - 1]
    OBVIOUS
  <2>3. ASSUME NEW k \in 0 .. m + 1
        PROVE  f[k] = IF k = 0 THEN s0 ELSE OnePass(f[k - 1])
    <3>1. CASE k <= m
      <4>1. k \in 0 .. m
        BY <3>1
      <4> QED
        BY <4>1, <3>1, <2>1, <2>2
    <3>2. CASE ~(k <= m)
      <4>1. k = m + 1 /\ k - 1 = m /\ k # 0
        BY <3>2
      <4> QED
        BY <4>1, <3>2, <2>2
    <3> QED
      BY <3>1, <3>2
  <2>4. f = [k \in 0 .. m + 1 |-> IF k = 0 THEN s0 ELSE OnePass(f[k - 1])]
    BY <2>3
  <2> QED
    BY <2>4
<1> HIDE DEF Runs
<1>3. 0 \in S /\ \A m \in 0 .. n - 1 : m \in S => m + 1 \in S
  BY <1>1, <1>2
<1> HIDE DEF S
<1>4. n \in S
  BY <1>3, UpTo
<1> QED
  BY <1>4 DEF S, Runs

\* The states of the passes.
PassStates(v, n) ==
  CHOOSE f : f = [k \in 0 .. MaxPasses |->
                    IF k = 0 THEN [v |-> v, n |-> n, done |-> FALSE] ELSE OnePass(f[k - 1])]

LEMMA PassStatesAre ==
  ASSUME NEW v, NEW n
  PROVE  /\ PassStates(v, n)[0] = [v |-> v, n |-> n, done |-> FALSE]
         /\ \A k \in 1 .. MaxPasses : PassStates(v, n)[k] = OnePass(PassStates(v, n)[k - 1])
         /\ Passes(v, n) = PassStates(v, n)[MaxPasses]
<1> DEFINE s0 == [v |-> v, n |-> n, done |-> FALSE]
           F(f) == [k \in 0 .. MaxPasses |-> IF k = 0 THEN s0 ELSE OnePass(f[k - 1])]
           f0 == CHOOSE f : f = F(f)
<1>1. MaxPasses \in Nat
  BY RepairAssumption
<1> HIDE DEF s0
<1>2. f0 = F(f0)
  BY <1>1, PassesExist
<1>3. PassStates(v, n) = f0 /\ Passes(v, n) = f0[MaxPasses]
  BY DEF PassStates, Passes, s0
<1> HIDE DEF f0
<1>4. f0[0] = s0 /\ \A k \in 1 .. MaxPasses : f0[k] = OnePass(f0[k - 1])
  BY <1>1, <1>2
<1> QED
  BY <1>3, <1>4 DEF s0

\* What one pass does.
IsPassState(s) == s \in [v : {s.v}, n : Nat, done : BOOLEAN] /\ IsRecord(s.v)

Ends(v) == Valid(v) \/ Still(v)

LEMMA OnePassIs ==
  ASSUME NEW s, IsPassState(s)
  PROVE  LET t == OnePass(s) IN
         /\ IsPassState(t) /\ t.n >= s.n /\ (t.n = s.n => t.v = s.v)
         /\ t.v = s.v \/ (~Valid(s.v) /\ Passed(s.v, t.v) /\ ~s.done)
         /\ t.done => s.done \/ Ends(t.v)
         /\ s.done => t.v = s.v
         /\ ~t.done => ~s.done /\ Passed(s.v, t.v)
<1> DEFINE p == Pass(s.v)
           t == OnePass(s)
<1>1. t = IF s.done \/ Valid(s.v) THEN [s EXCEPT !.done = TRUE]
          ELSE [v |-> p.v, n |-> s.n + p.n, done |-> p.n = 0]
  BY DEF OnePass
<1>2. /\ p.n \in Nat /\ IsRecord(p.v) /\ Passed(s.v, p.v)
      /\ p.n = 0 => p.v = s.v
      /\ p.n = 0 <=> Still(s.v)
  BY PassIs DEF IsPassState
<1>3. s.n \in Nat /\ s.done \in BOOLEAN /\ IsRecord(s.v)
  BY DEF IsPassState
<1> HIDE DEF p, t
<1>4. CASE s.done \/ Valid(s.v)
  <2>1. [s EXCEPT !.done = TRUE] = [v |-> s.v, n |-> s.n, done |-> TRUE]
    <3> DEFINE r == [s EXCEPT !.done = TRUE]
    <3>1. r \in [v : {s.v}, n : {s.n}, done : {TRUE}]
      BY DEF IsPassState
    <3> HIDE DEF r
    <3>2. r = [v |-> s.v, n |-> s.n, done |-> TRUE]
      BY <3>1
    <3> QED
      BY <3>2 DEF r
  <2>2. t = [v |-> s.v, n |-> s.n, done |-> TRUE]
    BY <1>1, <1>4, <2>1
  <2>3. t.v = s.v /\ t.n = s.n /\ t.done = TRUE
    BY <2>2
  <2>4. IsPassState(t)
    BY <1>3, <2>2, <2>3 DEF IsPassState
  <2> QED
    BY <1>3, <1>4, <2>3, <2>4 DEF Ends, t
<1>5. CASE ~(s.done \/ Valid(s.v))
  <2>1. t = [v |-> p.v, n |-> s.n + p.n, done |-> p.n = 0]
    BY <1>1, <1>5
  <2>2. t.v = p.v /\ t.n = s.n + p.n /\ t.done = (p.n = 0) /\ t.done \in BOOLEAN
    BY <2>1
  <2>3. IsPassState(t)
    BY <1>2, <1>3, <2>1, <2>2 DEF IsPassState
  <2>4. t.n >= s.n /\ (t.n = s.n => p.n = 0)
    BY <1>2, <1>3, <2>2
  <2>5. t.done <=> p.n = 0
    BY <2>2
  <2> QED
    BY <1>2, <1>3, <1>5, <2>2, <2>3, <2>4, <2>5 DEF Ends, t
<1> QED
  BY <1>4, <1>5

-----------------------------------------------------------------------------
(* Three passes are enough.                                                  *)

\* v after k passes.
Fit(k, v) ==
  /\ IsRecord(v)
  /\ k >= 1 => ~Fixable(v, "path") /\ Shaped(At(v, "edits"))
  /\ k >= 2 => LET x == At(v, "edits") IN
               IsArr(x) => \A i \in DOMAIN x.e : IsObj(x.e[i]) \/ RepairEdit(x.e[i]).n = 0
  /\ k >= 3 => Still(v)

LEMMA FitStep ==
  ASSUME NEW k \in Nat, NEW v, Fit(k, v), NEW w, Passed(v, w)
  PROVE  Fit(k + 1, w)
<1> DEFINE x == At(v, "edits")
           y == At(w, "edits")
<1>1. IsRecord(v) /\ IsRecord(w) /\ Mended(v, w, "path") /\ y = MendedEdits(x)
  BY DEF Fit, Passed, MendsRoot
<1>2. JsonOrNone(x) /\ JsonOrNone(y)
  BY <1>1, AtIsJson DEF IsRecord
<1>3. ~Fixable(w, "path")
  BY <1>1, MendedIs DEF TextNames, Named
<1> HIDE DEF x, y
<1>4. CASE ~IsArr(x)
  <2>1. y = Arrayed(x) /\ Shaped(y) /\ (Shaped(x) => y = x)
    BY <1>1, <1>2, <1>4, ArrayedIs DEF MendedEdits
  <2>2. k >= 1 => y = x /\ ~IsArr(y)
    BY <1>4, <2>1 DEF Fit, x
  <2>3. ~IsArr(y) => Still(w)
    BY <1>3, <2>1 DEF Still, StillEdits, y
  <2>4. k + 1 >= 2 => k >= 1
    OBVIOUS
  <2>5. k + 1 >= 3 => k >= 1
    OBVIOUS
  <2> QED
    BY <1>1, <1>3, <2>1, <2>2, <2>3, <2>4, <2>5 DEF Fit, y
<1>5. CASE IsArr(x)
  <2>1. IsJson(x)
    BY <1>2, <1>5, KindsDiffer DEF JsonOrNone
  <2>2. \A i \in DOMAIN x.e : IsJson(x.e[i])
    BY <1>5, <2>1, ArrIs
  <2>3. IsArr(y) /\ DOMAIN y.e = DOMAIN x.e /\ \A i \in DOMAIN x.e : y.e[i] = RepairEdit(x.e[i]).v
    BY <1>1, <1>2, <1>5, MendedEditsAre
  <2>4. Shaped(y)
    BY <1>2, <2>3, ArrayedIs
  <2>5. \A i \in DOMAIN y.e : IsObj(y.e[i]) \/ RepairEdit(y.e[i]).n = 0
    BY <2>2, <2>3, RepairElementIs
  <2>6. ASSUME k >= 2 PROVE \A i \in DOMAIN y.e : RepairEdit(y.e[i]).n = 0
    <3>1. \A i \in DOMAIN x.e : IsObj(x.e[i]) \/ RepairEdit(x.e[i]).n = 0
      BY <1>5, <2>6 DEF Fit, x
    <3> QED
      BY <2>2, <2>3, <3>1, RepairElementIs
  <2>7. k >= 2 => Still(w)
    BY <1>3, <2>3, <2>6 DEF Still, StillEdits, y
  <2>8. k + 1 >= 3 => k >= 2
    OBVIOUS
  <2> QED
    BY <1>1, <1>3, <2>3, <2>4, <2>5, <2>7, <2>8 DEF Fit, y
<1> QED
  BY <1>4, <1>5

\* The passes, one by one: each leaves the value as it is, or is a pass over a value
\* that is not valid, and the last has nothing more to do.
IsChain(g, v, w) ==
  /\ g[0] = v /\ g[MaxPasses] = w
  /\ \A k \in 1 .. MaxPasses :
       g[k] = g[k - 1] \/ (~Valid(g[k - 1]) /\ Passed(g[k - 1], g[k]))

LEMMA PassesAre ==
  ASSUME NEW v, IsRecord(v), NEW n \in Nat
  PROVE  LET s == Passes(v, n) IN
         /\ s.n \in Nat /\ s.n >= n /\ (s.n = n => s.v = v) /\ IsRecord(s.v)
         /\ Ends(s.v)
         /\ \E g : IsChain(g, v, s.v)
<1> DEFINE st == PassStates(v, n)
           s == Passes(v, n)
           N == MaxPasses
<1>1. N \in Nat /\ N >= 3
  BY RepairAssumption
<1>2. /\ st[0] = [v |-> v, n |-> n, done |-> FALSE]
      /\ \A k \in 1 .. N : st[k] = OnePass(st[k - 1])
      /\ s = st[N]
  BY PassStatesAre
<1> HIDE DEF st, s, N
<1> DEFINE Holds(k) ==
             /\ IsPassState(st[k]) /\ st[k].n >= n /\ (st[k].n = n => st[k].v = v)
             /\ IF st[k].done THEN Ends(st[k].v) ELSE Fit(k, st[k].v)
           S == {k \in 0 .. N : Holds(k)}
<1>3. Holds(0)
  <2>1. st[0].v = v /\ st[0].n = n /\ st[0].done = FALSE
    BY <1>2
  <2>2. IsPassState(st[0])
    BY <1>2, <2>1 DEF IsPassState
  <2>3. Fit(0, v)
    BY DEF Fit
  <2> QED
    BY <2>1, <2>2, <2>3
<1>4. ASSUME NEW k \in 0 .. N - 1, Holds(k) PROVE Holds(k + 1)
  <2>1. k + 1 \in 1 .. N /\ (k + 1) - 1 = k /\ k \in Nat
    BY <1>1
  <2>2. st[k + 1] = OnePass(st[k])
    BY <1>2, <2>1
  <2> DEFINE r == st[k]
             t == st[k + 1]
  <2>3. IsPassState(r) /\ r.n >= n /\ (r.n = n => r.v = v)
        /\ IF r.done THEN Ends(r.v) ELSE Fit(k, r.v)
    BY <1>4
  <2>4. /\ IsPassState(t) /\ t.n >= r.n /\ (t.n = r.n => t.v = r.v)
        /\ t.done => r.done \/ Ends(t.v)
        /\ r.done => t.v = r.v
        /\ ~t.done => ~r.done /\ Passed(r.v, t.v)
    BY <2>2, <2>3, OnePassIs
  <2> HIDE DEF r, t
  <2>5. r.n \in Nat /\ t.n \in Nat /\ r.done \in BOOLEAN /\ t.done \in BOOLEAN
    BY <2>3, <2>4 DEF IsPassState
  <2>6. t.n >= n /\ (t.n = n => t.v = v)
    BY <2>3, <2>4, <2>5
  <2>7. CASE t.done
    <3>1. Ends(t.v)
      BY <2>3, <2>4, <2>7
    <3> QED
      BY <2>4, <2>6, <2>7, <3>1 DEF t
  <2>8. CASE ~t.done
    <3>1. Fit(k + 1, t.v)
      BY <2>1, <2>3, <2>4, <2>8, FitStep
    <3> QED
      BY <2>4, <2>6, <2>8, <3>1 DEF t
  <2> QED
    BY <2>7, <2>8
<1>5. \A k \in 0 .. N : Holds(k)
  <2> HIDE DEF Holds
  <2>1. 0 \in S /\ \A k \in 0 .. N - 1 : k \in S => k + 1 \in S
    BY <1>1, <1>3, <1>4
  <2> HIDE DEF S
  <2>2. \A k \in 0 .. N : k \in S
    BY <1>1, <2>1, UpTo
  <2> QED
    BY <2>2 DEF S
<1>6. IsPassState(s) /\ s.n >= n /\ (s.n = n => s.v = v) /\ Ends(s.v)
  <2>1. Holds(N)
    BY <1>1, <1>5
  <2>2. Fit(N, s.v) => Ends(s.v)
    BY <1>1 DEF Fit, Ends
  <2> QED
    BY <1>2, <2>1, <2>2
<1> DEFINE g == [k \in 0 .. N |-> st[k].v]
<1>7. g[0] = v /\ g[N] = s.v
  BY <1>1, <1>2
<1>8. ASSUME NEW k \in 1 .. N
      PROVE  g[k] = g[k - 1] \/ (~Valid(g[k - 1]) /\ Passed(g[k - 1], g[k]))
  <2>1. k - 1 \in 0 .. N /\ k \in 0 .. N
    BY <1>1
  <2>2. IsPassState(st[k - 1]) /\ st[k] = OnePass(st[k - 1])
    BY <1>2, <1>5, <2>1
  <2>3. st[k].v = st[k - 1].v \/ (~Valid(st[k - 1].v) /\ Passed(st[k - 1].v, st[k].v))
    BY <2>2, OnePassIs
  <2> QED
    BY <2>1, <2>3
<1> HIDE DEF g
<1>9. IsChain(g, v, s.v)
  BY <1>7, <1>8 DEF IsChain, N
<1>10. \E f : IsChain(f, v, s.v)
  BY <1>9
<1> QED
  BY <1>6, <1>10 DEF IsPassState, s

\* What a pass over arguments with nothing to repair counts.
LEMMA PassesEnd ==
  ASSUME NEW v, IsRecord(v)
  PROVE  LET s == Passes(v, 0) IN Valid(s.v) \/ Pass(s.v).n = 0
<1>1. LET s == Passes(v, 0) IN IsRecord(s.v) /\ Ends(s.v)
  BY PassesAre
<1> QED
  BY <1>1, PassIs DEF Ends

-----------------------------------------------------------------------------
(* Conversion.                                                               *)

LEMMA AsTextIs ==
  /\ \A x : JsonOrNone(x) => JsonOrNone(AsText(x)) /\ (AsText(x) = Absent <=> x = Absent)
                        /\ AsText(AsText(x)) = AsText(x)
  /\ \A x : x \notin {Null, Num} => AsText(x) = x
  /\ \A x : IsString(x) => AsText(x) = x
  /\ AsText(Null) = Str("null") /\ AsText(Num) = Str("5")
<1>1. AsText(Null) = Str("null") /\ AsText(Num) = Str("5")
  BY AbsentIsNone DEF AsText
<1>2. ASSUME NEW x, x \notin {Null, Num} PROVE AsText(x) = x
  BY <1>2 DEF AsText
<1>3. \A s : Str(s) \notin {Null, Num, Absent}
  BY KindsDiffer
<1>4. ASSUME NEW x, JsonOrNone(x)
      PROVE  JsonOrNone(AsText(x)) /\ (AsText(x) = Absent <=> x = Absent) /\ AsText(AsText(x)) = AsText(x)
  <2>1. CASE x = Null
    BY <1>1, <1>2, <1>3, <2>1, AtomsAreJson, AbsentIsNone DEF JsonOrNone
  <2>2. CASE x = Num
    BY <1>1, <1>2, <1>3, <2>2, AtomsAreJson, AbsentIsNone DEF JsonOrNone
  <2>3. CASE x \notin {Null, Num}
    BY <1>2, <1>4, <2>3
  <2> QED
    BY <2>1, <2>2, <2>3
<1>5. ASSUME NEW x, IsString(x) PROVE AsText(x) = x
  BY <1>2, <1>5, KindsDiffer
<1> QED
  BY <1>1, <1>2, <1>4, <1>5

TextField(k) == k \in {"oldText", "newText", "anchor"}

LEMMA TextFieldsAre == Range(TextFields) = {"oldText", "newText", "anchor"}
<1>1. ASSUME NEW a, NEW b, NEW c PROVE Range(<<a, b, c>>) = {a, b, c}
  BY DEF Range
<1> QED
  BY <1>1 DEF TextFields

LEMMA ConvertEditIs ==
  ASSUME NEW x, IsJson(x)
  PROVE  /\ IsJson(ConvertEdit(x)) /\ (IsObj(ConvertEdit(x)) <=> IsObj(x))
         /\ \A k : At(ConvertEdit(x), k) = IF TextField(k) THEN AsText(At(x, k)) ELSE At(x, k)
         /\ ~IsObj(x) => ConvertEdit(x) = x
<1>1. CASE ~IsObj(x)
  <2>1. ConvertEdit(x) = x
    BY <1>1 DEF ConvertEdit
  <2>2. AsText(Absent) = Absent
    BY AsTextIs, AbsentIsNone
  <2> QED
    BY <1>1, <2>1, <2>2, NoFields
<1>2. CASE IsObj(x)
  <2> DEFINE f == [k \in DOMAIN x.f |-> IF TextField(k) THEN AsText(x.f[k]) ELSE x.f[k]]
  <2>1. ConvertEdit(x) = Obj(f)
    BY <1>2, TextFieldsAre DEF ConvertEdit, TextField
  <2>2. /\ \A k \in DOMAIN x.f : IsJson(x.f[k]) /\ At(x, k) = x.f[k]
        /\ \A k : k \in DOMAIN x.f <=> At(x, k) # Absent
    BY <1>2, RecordIs DEF IsRecord
  <2>3. \A k \in DOMAIN x.f : IsJson(AsText(x.f[k]))
    BY <2>2, AsTextIs, AbsentIsNone DEF JsonOrNone
  <2>4. DOMAIN f = DOMAIN x.f /\ f = [k \in DOMAIN f |-> f[k]]
        /\ \A k \in DOMAIN x.f : f[k] = IF TextField(k) THEN AsText(x.f[k]) ELSE x.f[k]
    OBVIOUS
  <2>5. \A k \in DOMAIN f : IsJson(f[k])
    BY <2>2, <2>3, <2>4
  <2> HIDE DEF f
  <2>6. IsRecord(Obj(f)) /\ \A k : At(Obj(f), k) = IF k \in DOMAIN f THEN f[k] ELSE Absent
    BY <2>4, <2>5, MakesRecord
  <2>7. AsText(Absent) = Absent
    BY AsTextIs, AbsentIsNone
  <2> QED
    BY <1>2, <2>1, <2>2, <2>4, <2>6, <2>7 DEF IsRecord
<1> QED
  BY <1>1, <1>2

\* The edits to be converted, one by one.
Listed(x) == IF IsArr(x) THEN x.e ELSE <<x>>

LEMMA ListedIs ==
  ASSUME NEW x, IsJson(x)
  PROVE  /\ IsListed(Listed(x)) /\ \A i \in DOMAIN Listed(x) : IsJson(Listed(x)[i])
         /\ ~IsArr(x) => Listed(x) = <<x>> /\ DOMAIN Listed(x) = {1} /\ Listed(x)[1] = x
<1>1. CASE IsArr(x)
  BY <1>1, ArrIs DEF Listed
<1>2. CASE ~IsArr(x)
  BY <1>2, SingleIs DEF Listed
<1> QED
  BY <1>1, <1>2

LEMMA ConvertEditsIs ==
  ASSUME NEW x, IsJson(x)
  PROVE  LET y == ConvertEdits(x) IN
         /\ IsJson(y) /\ IsArr(y) /\ IsListed(y.e) /\ Len(y.e) = Len(Listed(x))
         /\ DOMAIN y.e = DOMAIN Listed(x) /\ y = Arr(y.e)
         /\ \A i \in DOMAIN y.e : y.e[i] = ConvertEdit(Listed(x)[i])
<1> DEFINE s == Listed(x)
           g == [i \in DOMAIN s |-> ConvertEdit(s[i])]
<1>1. IsListed(s) /\ \A i \in DOMAIN s : IsJson(s[i])
  BY ListedIs
<1>2. ConvertEdits(x) = Arr(g)
  BY DEF ConvertEdits, Listed
<1> HIDE DEF s
<1>3. DOMAIN s = 1 .. Len(s) /\ Len(s) \in Nat
  BY <1>1, ListIs
<1>4. DOMAIN g = DOMAIN s /\ g = [i \in 1 .. Len(s) |-> g[i]]
      /\ \A i \in DOMAIN s : g[i] = ConvertEdit(s[i])
  BY <1>3
<1>5. \A i \in DOMAIN s : IsJson(g[i])
  BY <1>1, <1>4, ConvertEditIs
<1> HIDE DEF g
<1>6. IsListed(g) /\ Len(g) = Len(s)
  BY <1>3, <1>4, MakesList
<1>7. IsJson(Arr(g)) /\ IsArr(Arr(g)) /\ Arr(g).e = g
  BY <1>4, <1>5, <1>6, ArrIsJson, Encoded
<1> QED
  BY <1>2, <1>4, <1>6, <1>7 DEF s

LEMMA ConvertIs ==
  ASSUME NEW v, IsRecord(v)
  PROVE  LET w == Convert(v) IN
         /\ IsRecord(w) /\ At(w, "path") = AsText(At(v, "path"))
         /\ At(w, "edits") = IF At(v, "edits") = Absent THEN Absent ELSE ConvertEdits(At(v, "edits"))
         /\ \A k : k \notin {"path", "edits"} => At(w, k) = At(v, k)
<1> DEFINE F(k, x) == IF k = "path" THEN AsText(x) ELSE IF k = "edits" THEN ConvertEdits(x) ELSE x
           f == [k \in DOMAIN v.f |-> F(k, v.f[k])]
<1>1. Convert(v) = Obj(f)
  <2>1. IsObj(v)
    BY DEF IsRecord
  <2> QED
    BY <2>1 DEF Convert
<1>2. /\ \A k \in DOMAIN v.f : IsJson(v.f[k]) /\ At(v, k) = v.f[k]
      /\ \A k : k \in DOMAIN v.f <=> At(v, k) # Absent
  BY RecordIs
<1>3. ASSUME NEW k, NEW x, IsJson(x) PROVE IsJson(F(k, x))
  BY <1>3, AsTextIs, AbsentIsNone, ConvertEditsIs DEF JsonOrNone
<1> HIDE DEF F
<1>4. DOMAIN f = DOMAIN v.f /\ f = [k \in DOMAIN f |-> f[k]]
      /\ \A k \in DOMAIN v.f : f[k] = F(k, v.f[k])
  OBVIOUS
<1>5. \A k \in DOMAIN f : IsJson(f[k])
  BY <1>2, <1>3, <1>4
<1> HIDE DEF f
<1>6. IsRecord(Obj(f)) /\ \A k : At(Obj(f), k) = IF k \in DOMAIN f THEN f[k] ELSE Absent
  BY <1>4, <1>5, MakesRecord
<1>7. AsText(Absent) = Absent
  BY AsTextIs, AbsentIsNone
<1>8. \A k : At(Convert(v), k) = IF At(v, k) = Absent THEN Absent ELSE F(k, At(v, k))
  BY <1>1, <1>2, <1>4, <1>6
<1> QED
  BY <1>1, <1>6, <1>7, <1>8 DEF F

\* What has nothing to convert stays.
LEMMA ConvertEditStays ==
  ASSUME NEW x, IsJson(x), \A k : TextField(k) => At(x, k) \notin {Null, Num}
  PROVE  ConvertEdit(x) = x
<1>1. CASE IsObj(x)
  <2>1. IsRecord(x) /\ IsRecord(ConvertEdit(x))
    BY <1>1, ConvertEditIs DEF IsRecord
  <2>2. \A k : At(ConvertEdit(x), k) = At(x, k)
    BY ConvertEditIs, AsTextIs
  <2> QED
    BY <2>1, <2>2, SameRecord
<1>2. CASE ~IsObj(x)
  BY <1>2, ConvertEditIs
<1> QED
  BY <1>1, <1>2

LEMMA ConvertEditTwice ==
  ASSUME NEW x, IsJson(x)
  PROVE  ConvertEdit(ConvertEdit(x)) = ConvertEdit(x)
<1> DEFINE y == ConvertEdit(x)
<1>1. IsJson(y) /\ \A k : At(y, k) = IF TextField(k) THEN AsText(At(x, k)) ELSE At(x, k)
  BY ConvertEditIs
<1>2. \A k : AsText(At(x, k)) \notin {Null, Num}
  <2>1. Str("null") \notin {Null, Num} /\ Str("5") \notin {Null, Num}
    BY KindsDiffer
  <2>2. ASSUME NEW z PROVE AsText(z) \notin {Null, Num}
    BY <2>1, AsTextIs, AbsentIsNone
  <2> QED
    BY <2>2
<1> HIDE DEF y
<1>3. \A k : TextField(k) => At(y, k) \notin {Null, Num}
  BY <1>1, <1>2
<1>4. ConvertEdit(y) = y
  BY <1>1, <1>3, ConvertEditStays
<1> QED
  BY <1>4 DEF y

LEMMA ConvertEditsStay ==
  ASSUME NEW x, IsJson(x), IsArr(x), \A i \in DOMAIN x.e : ConvertEdit(x.e[i]) = x.e[i]
  PROVE  ConvertEdits(x) = x
<1>1. x = Arr(x.e) /\ IsListed(x.e)
  BY ArrIs
<1>2. Listed(x) = x.e
  BY DEF Listed
<1> DEFINE y == ConvertEdits(x)
<1>3. IsListed(y.e) /\ Len(y.e) = Len(x.e) /\ DOMAIN y.e = DOMAIN x.e /\ y = Arr(y.e)
      /\ \A i \in DOMAIN y.e : y.e[i] = ConvertEdit(x.e[i])
  BY <1>2, ConvertEditsIs
<1> HIDE DEF y
<1>4. DOMAIN x.e = 1 .. Len(x.e)
  BY <1>1, ListIs
<1>5. \A i \in 1 .. Len(y.e) : y.e[i] = x.e[i]
  BY <1>3, <1>4
<1>6. y.e = x.e
  BY <1>1, <1>3, <1>5, SameList
<1> QED
  BY <1>1, <1>3, <1>6 DEF y

LEMMA ConvertStays ==
  ASSUME NEW v, IsRecord(v), At(v, "path") \notin {Null, Num},
         LET x == At(v, "edits") IN
           x = Absent \/ (IsArr(x) /\ \A i \in DOMAIN x.e : ConvertEdit(x.e[i]) = x.e[i])
  PROVE  Convert(v) = v
<1> DEFINE x == At(v, "edits")
<1>1. JsonOrNone(x)
  BY AtIsJson DEF IsRecord
<1>2. x # Absent => ConvertEdits(x) = x
  BY <1>1, ConvertEditsStay DEF JsonOrNone
<1>3. AsText(At(v, "path")) = At(v, "path")
  BY AsTextIs
<1> HIDE DEF x
<1>4. IsRecord(Convert(v)) /\ \A k : At(Convert(v), k) = At(v, k)
  BY <1>2, <1>3, ConvertIs DEF x
<1> QED
  BY <1>4, SameRecord

LEMMA ConvertTwice ==
  ASSUME NEW v, IsRecord(v)
  PROVE  Convert(Convert(v)) = Convert(v)
<1> DEFINE w == Convert(v)
           x == At(v, "edits")
           y == At(w, "edits")
<1>1. IsRecord(w) /\ At(w, "path") = AsText(At(v, "path"))
      /\ y = IF x = Absent THEN Absent ELSE ConvertEdits(x)
  BY ConvertIs
<1>2. JsonOrNone(x)
  BY AtIsJson DEF IsRecord
<1>3. AsText(At(v, "path")) \notin {Null, Num}
  <2>1. Str("null") \notin {Null, Num} /\ Str("5") \notin {Null, Num}
    BY KindsDiffer
  <2>2. ASSUME NEW z PROVE AsText(z) \notin {Null, Num}
    BY <2>1, AsTextIs, AbsentIsNone
  <2> QED
    BY <2>2
<1> HIDE DEF w, x
<1>4. CASE x = Absent
  BY <1>1, <1>3, <1>4, ConvertStays DEF w
<1>5. CASE x # Absent
  <2>1. /\ IsArr(y) /\ DOMAIN y.e = DOMAIN Listed(x)
        /\ \A i \in DOMAIN y.e : y.e[i] = ConvertEdit(Listed(x)[i])
        /\ \A i \in DOMAIN Listed(x) : IsJson(Listed(x)[i])
    BY <1>1, <1>2, <1>5, ConvertEditsIs, ListedIs DEF JsonOrNone
  <2> HIDE DEF y
  <2>2. \A i \in DOMAIN y.e : ConvertEdit(y.e[i]) = y.e[i]
    BY <2>1, ConvertEditTwice
  <2>3. Convert(w) = w
    BY <1>1, <1>3, <2>1, <2>2, ConvertStays DEF y
  <2> QED
    BY <2>3 DEF w
<1> QED
  BY <1>4, <1>5

\* Valid arguments.
LEMMA ValidIs ==
  ASSUME NEW v
  PROVE  Valid(v) <=> /\ IsString(At(v, "path")) /\ IsArr(At(v, "edits"))
                      /\ \A i \in DOMAIN At(v, "edits").e :
                           LET x == At(v, "edits").e[i] IN
                           /\ IsEdit(x)
                           /\ At(x, "anchor") = Absent \/ IsString(At(x, "anchor"))
<1>1. IsArr(At(v, "edits")) => v.f.edits = At(v, "edits")
  BY StringAt, KindsDiffer
<1> QED
  BY <1>1 DEF Valid

LEMMA ValidConverts ==
  ASSUME NEW v, IsRecord(v), Valid(v)
  PROVE  Convert(v) = v
<1> DEFINE x == At(v, "edits")
<1>1. /\ IsString(At(v, "path")) /\ IsArr(x)
      /\ \A i \in DOMAIN x.e : /\ IsEdit(x.e[i])
                               /\ At(x.e[i], "anchor") = Absent \/ IsString(At(x.e[i], "anchor"))
  BY ValidIs
<1>2. IsJson(x)
  BY <1>1, AtIsJson, KindsDiffer DEF IsRecord, JsonOrNone
<1> HIDE DEF x
<1>3. ASSUME NEW i \in DOMAIN x.e PROVE ConvertEdit(x.e[i]) = x.e[i]
  <2>1. IsJson(x.e[i])
    BY <1>1, <1>2, ArrIs
  <2>2. /\ IsString(At(x.e[i], "oldText")) /\ IsString(At(x.e[i], "newText"))
        /\ At(x.e[i], "anchor") = Absent \/ IsString(At(x.e[i], "anchor"))
    BY <1>1 DEF IsEdit, Required
  <2>3. \A k : TextField(k) => At(x.e[i], k) \notin {Null, Num}
    BY <2>2, KindsDiffer, AbsentIsNone DEF TextField
  <2> QED
    BY <2>1, <2>3, ConvertEditStays
<1>4. At(v, "path") \notin {Null, Num}
  BY <1>1, KindsDiffer
<1> QED
  BY <1>1, <1>3, <1>4, ConvertStays DEF x

-----------------------------------------------------------------------------
(* The pipeline: what schema repair and the envelope give.                   *)

\* A chain that ends where it begins.
LEMMA ChainStays == ASSUME NEW v PROVE \E g : IsChain(g, v, v)
<1> DEFINE g == [k \in 0 .. MaxPasses |-> v]
<1>1. MaxPasses \in Nat
  BY RepairAssumption
<1>2. IsChain(g, v, v)
  <2>1. \A k \in 1 .. MaxPasses : k \in 0 .. MaxPasses /\ k - 1 \in 0 .. MaxPasses
    BY <1>1
  <2>2. 0 \in 0 .. MaxPasses /\ MaxPasses \in 0 .. MaxPasses
    BY <1>1
  <2> QED
    BY <2>1, <2>2 DEF IsChain
<1> HIDE DEF g
<1> QED
  BY <1>2

\* w is what schema repair makes of v.
Repairs(v, w) == IsRecord(w) /\ Ends(w) /\ Valid(Convert(w)) /\ \E g : IsChain(g, v, w)

LEMMA RepairSchemaIs ==
  ASSUME NEW v, IsRecord(v)
  PROVE  LET r == RepairSchema(v) IN
         /\ r.n \in Nat
         /\ r.outcome # "unrepairable" => \E w : /\ Repairs(v, w) /\ Convert(r.v) = Convert(w)
                                                 /\ r.n = 0 => r.v = v /\ w = v
         /\ Valid(v) => r.outcome # "unrepairable" /\ r.v = v /\ r.n = 0
<1> DEFINE r == RepairSchema(v)
           s == Passes(v, 0)
<1>1. CASE Valid(v)
  <2>1. r = [outcome |-> "valid", v |-> v, n |-> 0]
    BY <1>1 DEF RepairSchema
  <2>2. r.outcome # "unrepairable" /\ r.v = v /\ r.n = 0
    BY <2>1
  <2>3. Repairs(v, v)
    BY <1>1, ValidConverts, ChainStays DEF Repairs, Ends
  <2> HIDE DEF r
  <2> QED
    BY <1>1, <2>2, <2>3 DEF r
<1>2. CASE ~Valid(v)
  <2>1. /\ s.n \in Nat /\ (s.n = 0 => s.v = v) /\ IsRecord(s.v)
        /\ Ends(s.v)
        /\ \E g : IsChain(g, v, s.v)
    BY PassesAre
  <2>2. r = IF ~Valid(Convert(s.v)) THEN Unrepairable
            ELSE IF s.n = 0 THEN [outcome |-> "valid", v |-> v, n |-> 0]
            ELSE [outcome |-> "repaired", v |-> Convert(s.v), n |-> s.n]
    BY <1>2 DEF RepairSchema, IsRecord
  <2> HIDE DEF r, s
  <2>3. CASE ~Valid(Convert(s.v))
    <3>1. r.outcome = "unrepairable" /\ r.n = 0
      BY <2>2, <2>3 DEF Unrepairable
    <3> QED
      BY <1>2, <3>1 DEF r
  <2>4. CASE Valid(Convert(s.v))
    <3>1. Repairs(v, s.v)
      BY <2>1, <2>4 DEF Repairs
    <3>2. CASE s.n = 0
      <4>1. r = [outcome |-> "valid", v |-> v, n |-> 0]
        BY <2>2, <2>4, <3>2
      <4>2. r.v = v /\ r.n = 0 /\ s.v = v
        BY <2>1, <3>2, <4>1
      <4> QED
        BY <1>2, <3>1, <4>2 DEF r
    <3>3. CASE s.n # 0
      <4>1. r = [outcome |-> "repaired", v |-> Convert(s.v), n |-> s.n]
        BY <2>2, <2>4, <3>3
      <4>2. r.v = Convert(s.v) /\ r.n = s.n
        BY <4>1
      <4>3. Convert(r.v) = Convert(s.v)
        BY <2>1, <4>2, ConvertTwice
      <4> QED
        BY <1>2, <2>1, <3>1, <3>3, <4>2, <4>3 DEF r
    <3> QED
      BY <3>2, <3>3
  <2> QED
    BY <2>3, <2>4
<1> QED
  BY <1>1, <1>2

LEMMA NoRecordNoArguments ==
  ASSUME NEW v, ~IsObj(v), ~(Strict(v) /\ IsObj(v.v))
  PROVE  RepairSchema(v) = Unrepairable
<1>1. ~Valid(v)
  BY NoFields, KindsDiffer DEF Valid
<1> QED
  BY <1>1 DEF RepairSchema

-----------------------------------------------------------------------------
(* Layers of encoding.                                                       *)

LEMMA LayersExist ==
  ASSUME NEW raw, NEW n \in Nat
  PROVE  \E f : f = [k \in 0 .. n |->
                       IF k = 0 THEN raw ELSE IF Escaped(f[k - 1]) THEN f[k - 1].v ELSE f[k - 1]]
<1> DEFINE G(x) == IF Escaped(x) THEN x.v ELSE x
           Runs(m) == \E f : f = [k \in 0 .. m |-> IF k = 0 THEN raw ELSE G(f[k - 1])]
           S == {m \in 0 .. n : Runs(m)}
<1> HIDE DEF G
<1>1. Runs(0)
  <2> DEFINE f == [k \in 0 .. 0 |-> raw]
  <2>1. f = [k \in 0 .. 0 |-> IF k = 0 THEN raw ELSE G(f[k - 1])]
    OBVIOUS
  <2> QED
    BY <2>1
<1>2. ASSUME NEW m \in 0 .. n - 1, Runs(m) PROVE Runs(m + 1)
  <2>1. PICK g : g = [k \in 0 .. m |-> IF k = 0 THEN raw ELSE G(g[k - 1])]
    BY <1>2, Zenon
  <2> DEFINE f == [k \in 0 .. m + 1 |-> IF k <= m THEN g[k] ELSE G(g[m])]
  <2>2. \A k \in 0 .. m + 1 : k # 0 => k - 1 \in 0 .. m /\ f[k - 1] = g[k - 1]
    OBVIOUS
  <2>3. ASSUME NEW k \in 0 .. m + 1
        PROVE  f[k] = IF k = 0 THEN raw ELSE G(f[k - 1])
    <3>1. CASE k <= m
      <4>1. k \in 0 .. m
        BY <3>1
      <4> QED
        BY <4>1, <3>1, <2>1, <2>2
    <3>2. CASE ~(k <= m)
      <4>1. k = m + 1 /\ k - 1 = m /\ k # 0
        BY <3>2
      <4> QED
        BY <4>1, <3>2, <2>2
    <3> QED
      BY <3>1, <3>2
  <2>4. f = [k \in 0 .. m + 1 |-> IF k = 0 THEN raw ELSE G(f[k - 1])]
    BY <2>3
  <2> QED
    BY <2>4
<1> HIDE DEF Runs
<1>3. 0 \in S /\ \A m \in 0 .. n - 1 : m \in S => m + 1 \in S
  BY <1>1, <1>2
<1> HIDE DEF S
<1>4. n \in S
  BY <1>3, UpTo
<1>5. Runs(n)
  BY <1>4 DEF S
<1> QED
  BY <1>5 DEF Runs, G

LEMMA OpenedExist ==
  ASSUME NEW v, NEW n \in Nat
  PROVE  \E f : f = [k \in 0 .. n |-> IF k = 0 THEN v ELSE Opened(f[k - 1])]
<1> DEFINE Runs(m) == \E f : f = [k \in 0 .. m |-> IF k = 0 THEN v ELSE Opened(f[k - 1])]
           S == {m \in 0 .. n : Runs(m)}
<1>1. Runs(0)
  <2> DEFINE f == [k \in 0 .. 0 |-> v]
  <2>1. f = [k \in 0 .. 0 |-> IF k = 0 THEN v ELSE Opened(f[k - 1])]
    OBVIOUS
  <2> QED
    BY <2>1
<1>2. ASSUME NEW m \in 0 .. n - 1, Runs(m) PROVE Runs(m + 1)
  <2>1. PICK g : g = [k \in 0 .. m |-> IF k = 0 THEN v ELSE Opened(g[k - 1])]
    BY <1>2, Zenon
  <2> DEFINE f == [k \in 0 .. m + 1 |-> IF k <= m THEN g[k] ELSE Opened(g[m])]
  <2>2. \A k \in 0 .. m + 1 : k # 0 => k - 1 \in 0 .. m /\ f[k - 1] = g[k - 1]
    OBVIOUS
  <2>3. ASSUME NEW k \in 0 .. m + 1
        PROVE  f[k] = IF k = 0 THEN v ELSE Opened(f[k - 1])
    <3>1. CASE k <= m
      <4>1. k \in 0 .. m
        BY <3>1
      <4> QED
        BY <4>1, <3>1, <2>1, <2>2
    <3>2. CASE ~(k <= m)
      <4>1. k = m + 1 /\ k - 1 = m /\ k # 0
        BY <3>2
      <4> QED
        BY <4>1, <3>2, <2>2
    <3> QED
      BY <3>1, <3>2
  <2>4. f = [k \in 0 .. m + 1 |-> IF k = 0 THEN v ELSE Opened(f[k - 1])]
    BY <2>3
  <2> QED
    BY <2>4
<1> HIDE DEF Runs
<1>3. 0 \in S /\ \A m \in 0 .. n - 1 : m \in S => m + 1 \in S
  BY <1>1, <1>2
<1> HIDE DEF S
<1>4. n \in S
  BY <1>3, UpTo
<1> QED
  BY <1>4 DEF S, Runs

\* The layers of raw that parse, and those there are.
Layers(raw) ==
  CHOOSE f : f = [k \in 0 .. MaxDecodes |->
                    IF k = 0 THEN raw ELSE IF Escaped(f[k - 1]) THEN f[k - 1].v ELSE f[k - 1]]

AllLayers(v) ==
  CHOOSE f : f = [k \in 0 .. MaxDecodes |-> IF k = 0 THEN v ELSE Opened(f[k - 1])]

LEMMA LayersAre ==
  ASSUME NEW raw
  PROVE  /\ Layers(raw)[0] = raw
         /\ \A k \in 1 .. MaxDecodes :
              Layers(raw)[k] = IF Escaped(Layers(raw)[k - 1]) THEN Layers(raw)[k - 1].v
                               ELSE Layers(raw)[k - 1]
         /\ AllLayers(raw)[0] = raw
         /\ \A k \in 1 .. MaxDecodes : AllLayers(raw)[k] = Opened(AllLayers(raw)[k - 1])
<1> DEFINE G(x) == IF Escaped(x) THEN x.v ELSE x
           F(f) == [k \in 0 .. MaxDecodes |->
                      IF k = 0 THEN raw ELSE IF Escaped(f[k - 1]) THEN f[k - 1].v ELSE f[k - 1]]
           H(f) == [k \in 0 .. MaxDecodes |-> IF k = 0 THEN raw ELSE Opened(f[k - 1])]
           f0 == CHOOSE f : f = F(f)
           h0 == CHOOSE f : f = H(f)
<1>1. MaxDecodes \in Nat
  BY RepairAssumption
<1>2. f0 = F(f0)
  BY <1>1, LayersExist
<1>3. h0 = H(h0)
  BY <1>1, OpenedExist
<1>4. Layers(raw) = f0 /\ AllLayers(raw) = h0
  BY DEF Layers, AllLayers
<1> HIDE DEF f0, h0
<1>5. f0[0] = raw /\ \A k \in 1 .. MaxDecodes :
        f0[k] = IF Escaped(f0[k - 1]) THEN f0[k - 1].v ELSE f0[k - 1]
  BY <1>1, <1>2
<1>6. h0[0] = raw /\ \A k \in 1 .. MaxDecodes : h0[k] = Opened(h0[k - 1])
  BY <1>1, <1>3
<1> QED
  BY <1>4, <1>5, <1>6

\* Where layers all parse, they are all there are.
LEMMA LayersEnd ==
  ASSUME NEW raw, IsJson(raw)
  PROVE  LET d == Layers(raw)[MaxDecodes] IN
         /\ IsJson(d)
         /\ d = AllLayers(raw)[MaxDecodes] \/ d.t = "enc"
<1> DEFINE l == Layers(raw)
           a == AllLayers(raw)
           S == {k \in 0 .. MaxDecodes :
                   IsJson(l[k]) /\ (l[k] = a[k] \/ (l[k].t = "enc" /\ ~Escaped(l[k])))}
<1>1. MaxDecodes \in Nat
  BY RepairAssumption
<1>2. /\ l[0] = raw /\ a[0] = raw
      /\ \A k \in 1 .. MaxDecodes : l[k] = IF Escaped(l[k - 1]) THEN l[k - 1].v ELSE l[k - 1]
      /\ \A k \in 1 .. MaxDecodes : a[k] = Opened(a[k - 1])
  BY LayersAre
<1> HIDE DEF l, a
<1>3. 0 \in S
  BY <1>1, <1>2
<1>4. ASSUME NEW k \in 0 .. MaxDecodes - 1, k \in S PROVE k + 1 \in S
  <2>1. k + 1 \in 1 .. MaxDecodes /\ (k + 1) - 1 = k
    BY <1>1
  <2>2. /\ l[k + 1] = IF Escaped(l[k]) THEN l[k].v ELSE l[k]
        /\ a[k + 1] = Opened(a[k])
    BY <1>2, <2>1
  <2>3. IsJson(l[k]) /\ (l[k] = a[k] \/ (l[k].t = "enc" /\ ~Escaped(l[k])))
    BY <1>4
  <2>4. CASE Escaped(l[k])
    <3>1. l[k].t = "enc" /\ l[k] = a[k]
      BY <2>3, <2>4 DEF Escaped
    <3>2. IsJson(l[k].v)
      BY <2>3, <3>1, EncodedIsJson
    <3>3. l[k + 1] = l[k].v /\ a[k + 1] = l[k].v
      BY <2>2, <2>4, <3>1 DEF Opened
    <3> QED
      BY <2>1, <3>2, <3>3
  <2>5. CASE ~Escaped(l[k])
    <3>1. l[k + 1] = l[k]
      BY <2>2, <2>5
    <3>2. l[k].t # "enc" => a[k + 1] = l[k]
      BY <2>2, <2>3 DEF Opened
    <3> QED
      BY <2>1, <2>3, <2>5, <3>1, <3>2
  <2> QED
    BY <2>4, <2>5
<1> HIDE DEF S
<1>5. MaxDecodes \in S
  BY <1>1, <1>3, <1>4, UpTo
<1> QED
  BY <1>5 DEF S, l, a

\* What does not parse stays.
LEMMA NotEncoded ==
  ASSUME NEW raw, ~Escaped(raw)
  PROVE  \A k \in 0 .. MaxDecodes : Layers(raw)[k] = raw
<1> DEFINE l == Layers(raw)
           S == {k \in 0 .. MaxDecodes : l[k] = raw}
<1>1. MaxDecodes \in Nat
  BY RepairAssumption
<1>2. /\ l[0] = raw
      /\ \A k \in 1 .. MaxDecodes : l[k] = IF Escaped(l[k - 1]) THEN l[k - 1].v ELSE l[k - 1]
  BY LayersAre
<1> HIDE DEF l
<1>3. 0 \in S
  BY <1>1, <1>2
<1>4. ASSUME NEW k \in 0 .. MaxDecodes - 1, k \in S PROVE k + 1 \in S
  <2>1. k + 1 \in 1 .. MaxDecodes /\ (k + 1) - 1 = k /\ k + 1 \in 0 .. MaxDecodes
    BY <1>1
  <2> QED
    BY <1>2, <1>4, <2>1
<1> HIDE DEF S
<1>5. \A k \in 0 .. MaxDecodes : k \in S
  BY <1>1, <1>3, <1>4, UpTo
<1> QED
  BY <1>5 DEF S, l

LEMMA AllLayersStay ==
  ASSUME NEW raw, raw.t # "enc"
  PROVE  AllLayers(raw)[MaxDecodes] = raw
<1> DEFINE a == AllLayers(raw)
           S == {k \in 0 .. MaxDecodes : a[k] = raw}
<1>1. MaxDecodes \in Nat
  BY RepairAssumption
<1>2. a[0] = raw /\ \A k \in 1 .. MaxDecodes : a[k] = Opened(a[k - 1])
  BY LayersAre
<1> HIDE DEF a
<1>3. 0 \in S
  BY <1>1, <1>2
<1>4. ASSUME NEW k \in 0 .. MaxDecodes - 1, k \in S PROVE k + 1 \in S
  <2>1. k + 1 \in 1 .. MaxDecodes /\ (k + 1) - 1 = k /\ k + 1 \in 0 .. MaxDecodes
    BY <1>1
  <2> QED
    BY <1>2, <1>4, <2>1 DEF Opened
<1> HIDE DEF S
<1>5. MaxDecodes \in S
  BY <1>1, <1>3, <1>4, UpTo
<1> QED
  BY <1>5 DEF S, a

-----------------------------------------------------------------------------
(* The envelope.                                                             *)

\* A string that encodes no string is opened once.
LEMMA OpenedOnce ==
  ASSUME NEW raw, raw.t = "enc", raw.v.t # "enc"
  PROVE  /\ AllLayers(raw)[MaxDecodes] = raw.v
         /\ Escaped(raw) => Layers(raw)[MaxDecodes] = raw.v
<1> DEFINE l == Layers(raw)
           a == AllLayers(raw)
           S == {k \in 0 .. MaxDecodes : k >= 1 => a[k] = raw.v}
           T == {k \in 0 .. MaxDecodes : k >= 1 => l[k] = raw.v}
<1>1. MaxDecodes \in Nat /\ MaxDecodes >= 1
  BY RepairAssumption
<1>2. /\ l[0] = raw /\ a[0] = raw
      /\ \A k \in 1 .. MaxDecodes : l[k] = IF Escaped(l[k - 1]) THEN l[k - 1].v ELSE l[k - 1]
      /\ \A k \in 1 .. MaxDecodes : a[k] = Opened(a[k - 1])
  BY LayersAre
<1>3. Opened(raw) = raw.v /\ Opened(raw.v) = raw.v /\ ~Escaped(raw.v)
  BY DEF Opened, Escaped
<1> HIDE DEF l, a
<1>4. 0 \in S /\ 0 \in T
  BY <1>1
<1>5. ASSUME NEW k \in 0 .. MaxDecodes - 1, k \in S PROVE k + 1 \in S
  <2>1. k + 1 \in 1 .. MaxDecodes /\ (k + 1) - 1 = k /\ k + 1 \in 0 .. MaxDecodes
    BY <1>1
  <2>2. a[k] = IF k = 0 THEN raw ELSE raw.v
    BY <1>2, <1>5
  <2> QED
    BY <1>2, <1>3, <2>1, <2>2
<1>6. ASSUME NEW k \in 0 .. MaxDecodes - 1, k \in T, Escaped(raw) PROVE k + 1 \in T
  <2>1. k + 1 \in 1 .. MaxDecodes /\ (k + 1) - 1 = k /\ k + 1 \in 0 .. MaxDecodes
    BY <1>1
  <2>2. l[k] = IF k = 0 THEN raw ELSE raw.v
    BY <1>2, <1>6
  <2> QED
    BY <1>2, <1>3, <1>6, <2>1, <2>2
<1> HIDE DEF S, T
<1>7. MaxDecodes \in S
  BY <1>1, <1>4, <1>5, UpTo
<1>8. Escaped(raw) => MaxDecodes \in T
  BY <1>1, <1>4, <1>6, UpTo
<1> QED
  BY <1>1, <1>7, <1>8 DEF S, T, l, a

\* What the envelope of a decoded value holds.
IsSingle(d) == IsArr(d) /\ Len(d.e) = 1 /\ IsObj(d.e[1])
Inner(d) == IF IsSingle(d) THEN d.e[1] ELSE d
Decoded(raw) == Layers(raw)[MaxDecodes]
Decodes(raw) == Cardinality({i \in 1 .. MaxDecodes : Escaped(Layers(raw)[i - 1])})

LEMMA InnerIs ==
  ASSUME NEW d, IsJson(d)
  PROVE  /\ IsJson(Inner(d)) /\ (IsObj(d) => Inner(d) = d)
         /\ IsObj(Inner(d)) => IsObj(d) \/ IsArr(d)
<1>1. CASE IsSingle(d)
  <2>1. IsListed(d.e) /\ 1 \in DOMAIN d.e
    BY <1>1, ArrIs, ListIs DEF IsSingle
  <2> QED
    BY <1>1, <2>1, ArrIs, KindsDiffer DEF Inner, IsSingle
<1>2. CASE ~IsSingle(d)
  BY <1>2 DEF Inner
<1> QED
  BY <1>1, <1>2

LEMMA CoreIs == ASSUME NEW raw PROVE Core(raw) = Inner(AllLayers(raw)[MaxDecodes])
BY DEF Core, Inner, IsSingle, AllLayers

LEMMA EnvelopeMakes ==
  ASSUME NEW raw
  PROVE  RecoverEnvelope(raw) =
         IF IsObj(Inner(Decoded(raw)))
         THEN [v |-> Inner(Decoded(raw)), cut |-> Absent,
               changes |-> Times(Decodes(raw), "envelope.decode-json")
                 \o Times(IF raw.t = "enc" /\ raw.level = "newline" THEN 1 ELSE 0,
                          "envelope.escape-control-character")
                 \o Times(IF IsSingle(Decoded(raw)) THEN 1 ELSE 0,
                          "envelope.unwrap-singleton-object-array")]
         ELSE [v |-> raw, changes |-> <<>>,
               cut |-> IF raw.t = "enc" /\ raw.level = "cut" /\ IsObj(raw.v) THEN raw.v ELSE Absent]
BY DEF RecoverEnvelope, Inner, IsSingle, Decoded, Decodes, Layers

\* The notes of an envelope list what was done to it.
LEMMA TimesAre ==
  ASSUME NEW l \in Nat, NEW m \in Nat, NEW n \in Nat, NEW x, NEW y, NEW z
  PROVE  LET q == Times(l, x) \o Times(m, y) \o Times(n, z) IN
         IsListed(q) /\ (q = <<>> => l = 0 /\ n = 0)
<1> DEFINE r == Times(l, x)
           s == r \o Times(m, y)
           q == s \o Times(n, z)
<1>1. IsListed(r) /\ (r = <<>> => l = 0)
  <2>1. r = [i \in 1 .. l |-> x]
    BY DEF Times
  <2>2. IsListed(r) /\ Len(r) = l
    <3> HIDE DEF r
    <3> QED
      BY <2>1, MakesList
  <2> HIDE DEF r
  <2> QED
    BY <2>2
<1>2. IsListed(s) /\ (s = <<>> => r = <<>>)
  <2> HIDE DEF r
  <2> QED
    BY <1>1, Lists
<1>3. IsListed(q) /\ (q = <<>> => s = <<>> /\ n = 0)
  <2> HIDE DEF s
  <2> QED
    BY <1>2, Lists
<1> QED
  BY <1>1, <1>2, <1>3

LEMMA DecodesIs ==
  ASSUME NEW raw
  PROVE  Decodes(raw) \in Nat /\ (Decodes(raw) = 0 => ~Escaped(raw))
<1> DEFINE s == {i \in 1 .. MaxDecodes : Escaped(Layers(raw)[i - 1])}
<1>1. MaxDecodes \in Nat /\ MaxDecodes >= 1
  BY RepairAssumption
<1>2. IsFiniteSet(s) /\ Cardinality(s) \in Nat
  <2>1. s \in SUBSET (1 .. MaxDecodes)
    OBVIOUS
  <2> QED
    <3>1. IsFiniteSet(1 .. MaxDecodes)
      BY <1>1, FS_Interval
    <3>2. IsFiniteSet(s)
      BY <2>1, <3>1, FS_Subset
    <3> QED
      BY <3>2, FS_CardinalityType
<1>3. Layers(raw)[0] = raw
  BY LayersAre
<1>4. Escaped(raw) => s # {}
  <2>1. 1 \in 1 .. MaxDecodes /\ 1 - 1 = 0
    BY <1>1
  <2> QED
    BY <1>3, <2>1
<1>5. Decodes(raw) = Cardinality(s)
  BY DEF Decodes
<1> HIDE DEF s
<1> QED
  BY <1>2, <1>4, <1>5, FS_EmptySet

\* What the envelope gives the pipeline.
Envelops(raw, env) ==
  /\ IsJson(env.v) /\ IsListed(env.changes) /\ (env.changes = <<>> => env.v = raw)
  /\ IsObj(env.v) => env.v = Core(raw) /\ env.cut = Absent
  /\ ~IsObj(env.v) => env.v = raw /\ env.changes = <<>> /\ ~(Strict(raw) /\ IsObj(raw.v))
  /\ env.cut # Absent => IsRecord(env.cut) /\ env.cut = Core(raw)
  /\ IsObj(raw) => env.v = raw /\ env.changes = <<>>

LEMMA EnvelopeIs == ASSUME NEW raw, IsJson(raw) PROVE Envelops(raw, RecoverEnvelope(raw))
<1> DEFINE d == Decoded(raw)
           a == AllLayers(raw)[MaxDecodes]
           env == RecoverEnvelope(raw)
<1>1. IsJson(d) /\ (d = a \/ d.t = "enc")
  BY LayersEnd DEF Decoded
<1>2. IsJson(Inner(d)) /\ (IsObj(d) => Inner(d) = d) /\ (IsObj(Inner(d)) => IsObj(d) \/ IsArr(d))
  <2> HIDE DEF d
  <2> QED
    BY <1>1, InnerIs
<1>3. Core(raw) = Inner(a)
  BY CoreIs
<1>0. MaxDecodes \in Nat /\ MaxDecodes \in 0 .. MaxDecodes
  <2>1. MaxDecodes \in Nat
    BY RepairAssumption
  <2> QED
    BY <2>1
<1>4. ~Escaped(raw) => d = raw
  BY <1>0, NotEncoded DEF Decoded
<1>5. IsObj(raw) => ~Escaped(raw) /\ raw.t # "enc"
  BY DEF IsObj, Escaped
<1>6. raw.t # "enc" => a = raw
  BY AllLayersStay
<1>7. raw.t = "enc" /\ IsObj(raw.v) => a = raw.v /\ (Escaped(raw) => d = raw.v)
  BY OpenedOnce DEF IsObj, Decoded
<1>8. Strict(raw) => raw.t = "enc" /\ Escaped(raw)
  BY DEF Strict, Escaped
<1>9. raw.t = "enc" => IsJson(raw.v)
  BY EncodedIsJson
<1> HIDE DEF d, a
<1>10. CASE IsObj(Inner(d))
  <2> DEFINE n == IF raw.t = "enc" /\ raw.level = "newline" THEN 1 ELSE 0
             m == IF IsSingle(d) THEN 1 ELSE 0
             q == Times(Decodes(raw), "envelope.decode-json")
                 \o Times(n, "envelope.escape-control-character")
                 \o Times(m, "envelope.unwrap-singleton-object-array")
  <2>1. env = [v |-> Inner(d), cut |-> Absent, changes |-> q]
    BY <1>10, EnvelopeMakes DEF d
  <2>2. n \in Nat /\ m \in Nat /\ (m = 0 => ~IsSingle(d))
    OBVIOUS
  <2> HIDE DEF n, m
  <2>3. IsListed(q) /\ (q = <<>> => Decodes(raw) = 0 /\ m = 0)
    BY <2>2, DecodesIs, TimesAre
  <2> HIDE DEF q
  <2>4. env.v = Inner(d) /\ env.cut = Absent /\ env.changes = q
    BY <2>1
  <2>5. d = a
    BY <1>1, <1>2, <1>10 DEF IsObj, IsArr
  <2>6. q = <<>> => Inner(d) = raw
    BY <1>4, <2>2, <2>3, DecodesIs DEF Inner
  <2>7. IsObj(raw) => Inner(d) = raw /\ q = <<>>
    <3>1. ASSUME IsObj(raw) PROVE q = <<>>
      <4>1. ~Escaped(raw) /\ d = raw /\ ~IsSingle(d) /\ raw.t # "enc"
        BY <1>4, <1>5, <3>1, KindsDiffer DEF IsSingle
      <4>2. Decodes(raw) = 0
        <5>1. \A k \in 0 .. MaxDecodes : Layers(raw)[k] = raw
          BY <4>1, NotEncoded
        <5>2. \A i \in 1 .. MaxDecodes : i - 1 \in 0 .. MaxDecodes
          BY <1>0
        <5>3. {i \in 1 .. MaxDecodes : Escaped(Layers(raw)[i - 1])} = {}
          BY <4>1, <5>1, <5>2
        <5> QED
          BY <5>3, FS_EmptySet DEF Decodes
      <4>3. n = 0 /\ m = 0
        BY <4>1 DEF n, m
      <4> QED
        <5>1. \A x : Times(0, x) = <<>>
          BY DEF Times
        <5> QED
          BY <4>2, <4>3, <5>1 DEF q
    <3> QED
      BY <1>2, <1>4, <1>5, <3>1
  <2> HIDE DEF env
  <2>8. Envelops(raw, env)
    BY <1>2, <1>3, <1>10, <2>3, <2>4, <2>5, <2>6, <2>7 DEF Envelops
  <2> QED
    BY <2>8 DEF env
<1>11. CASE ~IsObj(Inner(d))
  <2> DEFINE cut == IF raw.t = "enc" /\ raw.level = "cut" /\ IsObj(raw.v) THEN raw.v ELSE Absent
  <2>1. env = [v |-> raw, changes |-> <<>>, cut |-> cut]
    BY <1>11, EnvelopeMakes DEF d
  <2> HIDE DEF cut
  <2>2. env.v = raw /\ env.changes = <<>> /\ env.cut = cut
    BY <2>1
  <2>3. ~IsObj(raw)
    BY <1>2, <1>4, <1>5, <1>11
  <2>4. ~(Strict(raw) /\ IsObj(raw.v))
    BY <1>2, <1>7, <1>8, <1>11
  <2>5. cut # Absent => IsRecord(cut) /\ cut = Core(raw)
    <3>1. ASSUME cut # Absent PROVE raw.t = "enc" /\ IsObj(raw.v) /\ cut = raw.v
      BY <3>1 DEF cut
    <3>2. ASSUME cut # Absent PROVE cut = Core(raw)
      <4>1. a = cut /\ IsJson(cut) /\ IsObj(cut)
        BY <1>7, <1>9, <3>1, <3>2
      <4> QED
        BY <1>3, <4>1, InnerIs
    <3> QED
      BY <1>9, <3>1, <3>2 DEF IsRecord
  <2>6. IsListed(<<>>)
    <3>1. <<>> \in Seq({})
      OBVIOUS
    <3> QED
      BY <3>1, SeqIsListed
  <2> HIDE DEF env
  <2>7. Envelops(raw, env)
    BY <2>2, <2>3, <2>4, <2>5, <2>6 DEF Envelops
  <2> QED
    BY <2>7 DEF env
<1> QED
  BY <1>10, <1>11

-----------------------------------------------------------------------------
(* The pipeline.                                                             *)

\* w is made of the arguments u.
Makes(u, w) ==
  /\ IsRecord(u) /\ ~Unparsable(Emptied(Parsed(At(u, "edits"))))
  /\ \E a, b, c, d : Prepares(u, a, b, c, d) /\ Repairs(d, w)

\* The result r of the pipeline for u.
Good(r) == r.outcome \in {"valid", "repaired"}

Yields(u, r) ==
  /\ IsListed(r.changes)
  /\ Good(r) => \E w : /\ Makes(u, w) /\ Convert(r.args) = Convert(w)
                       /\ r.outcome = "valid" => w = u /\ r.args = u
  /\ IsRecord(u) /\ ~Unparsable(Emptied(Parsed(At(u, "edits"))))
       /\ (\A a, b, c, d : Prepares(u, a, b, c, d) => Valid(d))
       => Good(r) /\ \E a, b, c, d : Prepares(u, a, b, c, d) /\ Convert(r.args) = d

JudgedFor(u, r, final, changes) ==
  IF r.outcome = "unrepairable" \/ ~Valid(final) THEN Refused("unrepairable", u)
  ELSE IF changes = <<>> THEN [outcome |-> "valid", args |-> u, changes |-> <<>>]
  ELSE [outcome |-> "repaired", args |-> final, changes |-> changes]

LEMMA DownstreamIs ==
  ASSUME NEW u, NEW q
  PROVE  LET p == Preprocess(u, q)
             r == RepairSchema(p.v)
         IN  ApplyDownstream(u, q) =
             IF p.threw THEN Refused("threw", u)
             ELSE JudgedFor(u, r, Convert(r.v), p.changes \o Times(r.n, "schema-repair"))
BY DEF ApplyDownstream, JudgedFor

LEMMA NoChanges == IsListed(<<>>)
<1>1. <<>> \in Seq({})
  OBVIOUS
<1> QED
  BY <1>1, SeqIsListed

LEMMA RefusedIs ==
  ASSUME NEW outcome \in {"unrepairable", "threw"}, NEW u
  PROVE  LET r == Refused(outcome, u) IN ~Good(r) /\ IsListed(r.changes) /\ r.outcome = outcome
BY NoChanges DEF Refused, Good

\* What schema repair made of p.v, judged.
LEMMA JudgedIs ==
  ASSUME NEW u, IsRecord(u), NEW v, IsRecord(v), NEW q, IsListed(q),
         NEW r, r = RepairSchema(v),
         NEW a, NEW b, NEW c, Prepares(u, a, b, c, v),
         ~Unparsable(Emptied(Parsed(At(u, "edits")))),
         q = <<>> => v = u,
         NEW t, t = JudgedFor(u, r, Convert(r.v), q \o Times(r.n, "schema-repair"))
  PROVE  Yields(u, t)
<1> DEFINE all == q \o Times(r.n, "schema-repair")
           final == Convert(r.v)
<1>1. /\ r.n \in Nat
      /\ r.outcome # "unrepairable" => \E w : /\ Repairs(v, w) /\ Convert(r.v) = Convert(w)
                                              /\ r.n = 0 => r.v = v /\ w = v
      /\ Valid(v) => r.outcome # "unrepairable" /\ r.v = v /\ r.n = 0
  BY RepairSchemaIs
<1>2. IsListed(all) /\ (all = <<>> => q = <<>> /\ r.n = 0)
  BY <1>1, Lists
<1> HIDE DEF all
<1>3. CASE r.outcome = "unrepairable" \/ ~Valid(final)
  <2>1. t = Refused("unrepairable", u)
    BY <1>3 DEF JudgedFor, all
  <2>2. ~Good(t) /\ IsListed(t.changes)
    BY <2>1, RefusedIs
  <2>3. ~Valid(v)
    BY <1>1, <1>3, ValidConverts
  <2> QED
    BY <2>2, <2>3 DEF Yields
<1>4. CASE r.outcome # "unrepairable" /\ Valid(final)
  <2>1. PICK w : /\ Repairs(v, w) /\ final = Convert(w)
                 /\ r.n = 0 => r.v = v /\ w = v
    BY <1>1, <1>4
  <2>2. Makes(u, w)
    BY <2>1 DEF Makes
  <2>3. Valid(v) => final = v
    BY <1>1, ValidConverts
  <2> HIDE DEF final
  <2>4. CASE all = <<>>
    <3>1. t = [outcome |-> "valid", args |-> u, changes |-> <<>>]
      BY <1>4, <2>4 DEF JudgedFor, all, final
    <3>2. w = u /\ v = u
      BY <1>2, <2>1, <2>4
    <3>3. t.outcome = "valid" /\ t.args = u /\ t.changes = <<>>
      BY <3>1
    <3>4. Valid(v) => Convert(u) = v
      BY <3>2, ValidConverts
    <3> QED
      BY <2>2, <3>2, <3>3, <3>4, NoChanges DEF Yields, Good
  <2>5. CASE all # <<>>
    <3>1. t = [outcome |-> "repaired", args |-> final, changes |-> all]
      BY <1>4, <2>5 DEF JudgedFor, all, final
    <3>2. t.outcome = "repaired" /\ t.args = final /\ t.changes = all
      BY <3>1
    <3>3. Convert(final) = final
      BY <2>1, ConvertTwice DEF Repairs
    <3> QED
      BY <1>2, <2>1, <2>2, <2>3, <3>2, <3>3 DEF Yields, Good
  <2> QED
    BY <2>4, <2>5
<1> QED
  BY <1>3, <1>4

LEMMA DownstreamGives ==
  ASSUME NEW u, IsRecord(u), NEW q, IsListed(q)
  PROVE  Yields(u, ApplyDownstream(u, q))
<1> DEFINE p == Preprocess(u, q)
           r == RepairSchema(p.v)
           t == ApplyDownstream(u, q)
<1>1. Gives(u, q, p)
  BY PreprocessIs
<1>2. t = IF p.threw THEN Refused("threw", u)
          ELSE JudgedFor(u, r, Convert(r.v), p.changes \o Times(r.n, "schema-repair"))
  BY DownstreamIs
<1> HIDE DEF p, t
<1>3. CASE Unparsable(Emptied(Parsed(At(u, "edits"))))
  <2>1. p.threw
    BY <1>1, <1>3 DEF Gives, EndsAs
  <2>2. t = Refused("threw", u)
    BY <1>2, <2>1
  <2>3. ~Good(t) /\ IsListed(t.changes)
    BY <2>2, RefusedIs
  <2>4. Yields(u, t)
    BY <1>3, <2>3 DEF Yields
  <2> QED
    BY <2>4 DEF t
<1>4. CASE ~Unparsable(Emptied(Parsed(At(u, "edits"))))
  <2>1. ~p.threw
    BY <1>1, <1>4 DEF Gives, EndsAs
  <2>2. PICK a, b, c : Prepares(u, a, b, c, p.v)
    BY <1>1, <1>4 DEF Gives, EndsAs
  <2>3. IsListed(p.changes) /\ IsRecord(p.v) /\ (p.changes = <<>> => p.v = u)
    BY <1>1 DEF Gives
  <2>4. t = JudgedFor(u, r, Convert(r.v), p.changes \o Times(r.n, "schema-repair"))
    BY <1>2, <2>1
  <2> HIDE DEF r
  <2>5. r = RepairSchema(p.v)
    BY DEF r
  <2>6. Yields(u, t)
    BY <1>4, <2>2, <2>3, <2>4, <2>5, JudgedIs
  <2> QED
    BY <2>6 DEF t
<1> QED
  BY <1>3, <1>4

\* What is no object no rule touches.
LEMMA NothingToDo ==
  ASSUME NEW v, ~IsObj(v), NEW q
  PROVE  Preprocess(v, q) = Started(v, q)
<1> DEFINE f == States(Preprocessors, v, q)
           S == {k \in 0 .. 13 : f[k] = Started(v, q)}
<1>1. /\ f[0] = Started(v, q)
      /\ \A k \in 1 .. 13 : f[k] = Preprocess1(f[k - 1], Preprocessors[k])
      /\ Preprocess(v, q) = f[13]
  <2>1. Len(Preprocessors) = 13 /\ Len(Preprocessors) \in Nat
    BY PreprocessorsAre
  <2>2. /\ f[0] = Started(v, q)
        /\ \A k \in 1 .. Len(Preprocessors) : f[k] = Preprocess1(f[k - 1], Preprocessors[k])
        /\ Run(Preprocessors, v, q) = f[Len(Preprocessors)]
    BY <2>1, RunIs
  <2> HIDE DEF f
  <2> QED
    BY <2>1, <2>2 DEF Preprocess
<1>2. ASSUME NEW rule PROVE Preprocess1(Started(v, q), rule) = Started(v, q)
  <2>1. ~IsObj(Started(v, q).v)
    BY DEF Started
  <2> QED
    BY <2>1 DEF Preprocess1
<1> HIDE DEF f
<1>3. 0 \in S
  BY <1>1
<1>4. ASSUME NEW k \in 0 .. 12, k \in S PROVE k + 1 \in S
  <2>1. k + 1 \in 1 .. 13 /\ (k + 1) - 1 = k /\ k + 1 \in 0 .. 13
    OBVIOUS
  <2> QED
    BY <1>1, <1>2, <1>4, <2>1
<1> HIDE DEF S
<1>5. 13 \in S
  <2>1. 13 \in Nat /\ 13 - 1 = 12 /\ 13 \in 0 .. 13
    OBVIOUS
  <2> QED
    BY <1>3, <1>4, <2>1, UpTo
<1> QED
  BY <1>1, <1>5 DEF S

LEMMA NothingComes ==
  ASSUME NEW v, ~IsObj(v), ~(Strict(v) /\ IsObj(v.v)), NEW q
  PROVE  ApplyDownstream(v, q) = Refused("unrepairable", v)
<1> DEFINE p == Preprocess(v, q)
<1>1. p = Started(v, q)
  BY NothingToDo
<1>2. p.v = v /\ p.threw = FALSE
  BY <1>1 DEF Started
<1> HIDE DEF p
<1>3. RepairSchema(p.v) = Unrepairable
  BY <1>2, NoRecordNoArguments
<1> DEFINE r == RepairSchema(p.v)
<1>4. ApplyDownstream(v, q)
        = IF p.threw THEN Refused("threw", v)
          ELSE JudgedFor(v, r, Convert(r.v), p.changes \o Times(r.n, "schema-repair"))
  BY DownstreamIs DEF p
<1>5. r.outcome = "unrepairable"
  BY <1>3 DEF Unrepairable
<1> HIDE DEF r
<1> QED
  BY <1>2, <1>4, <1>5 DEF JudgedFor

\* What comes of the arguments of a call, repaired.
LEMMA PipelineIs ==
  ASSUME NEW raw, IsJson(raw), NEW conservative
  PROVE  LET r == RunRepairPipeline(raw, conservative) IN
         /\ IsListed(r.changes)
         /\ Good(r) => \E w : /\ Makes(Core(raw), w) /\ Convert(r.args) = Convert(w)
                              /\ r.outcome = "valid" => w = Core(raw) /\ r.args = w
         /\ IsObj(raw) => Core(raw) = raw
         /\ IsObj(raw) /\ ~Unparsable(Emptied(Parsed(At(raw, "edits"))))
              /\ (\A a, b, c, d : Prepares(raw, a, b, c, d) => Valid(d))
              => Good(r) /\ \E a, b, c, d : Prepares(raw, a, b, c, d) /\ Convert(r.args) = d
<1> DEFINE env == RecoverEnvelope(raw)
           completed == ApplyDownstream(env.cut, <<"envelope.complete-truncated-object">>)
           primary == ApplyDownstream(env.v, env.changes)
           r == RunRepairPipeline(raw, conservative)
<1>1. Envelops(raw, env)
  BY EnvelopeIs
<1>2. r = IF ~conservative /\ env.cut # Absent /\ completed.outcome # "unrepairable" THEN completed
          ELSE IF primary.outcome = "unrepairable" THEN Refused("unrepairable", raw) ELSE primary
  BY DEF RunRepairPipeline
<1> HIDE DEF env
<1>3. env.cut # Absent => Yields(Core(raw), completed)
  <2>1. IsListed(<<"envelope.complete-truncated-object">>)
    BY SingleIs
  <2> QED
    BY <1>1, <2>1, DownstreamGives DEF Envelops
<1>4. IsObj(env.v) => Yields(Core(raw), primary)
  <2>1. ASSUME IsObj(env.v) PROVE IsRecord(env.v) /\ env.v = Core(raw) /\ IsListed(env.changes)
    BY <1>1, <2>1 DEF Envelops, IsRecord
  <2> QED
    BY <2>1, DownstreamGives
<1>5. ~IsObj(env.v) => primary = Refused("unrepairable", env.v)
  BY <1>1, NothingComes DEF Envelops
<1>6. IsObj(raw) => env.v = raw /\ Core(raw) = raw /\ env.cut = Absent
  BY <1>1 DEF Envelops
<1> HIDE DEF completed, primary, r
<1>7. CASE ~conservative /\ env.cut # Absent /\ completed.outcome # "unrepairable"
  <2>1. r = completed /\ Yields(Core(raw), r) /\ ~IsObj(raw)
    BY <1>2, <1>3, <1>6, <1>7
  <2>2. /\ IsListed(r.changes)
        /\ Good(r) => \E w : /\ Makes(Core(raw), w) /\ Convert(r.args) = Convert(w)
                             /\ r.outcome = "valid" => w = Core(raw) /\ r.args = Core(raw)
    BY <2>1 DEF Yields
  <2> QED
    BY <2>1, <2>2 DEF r
<1>8. CASE ~(~conservative /\ env.cut # Absent /\ completed.outcome # "unrepairable")
  <2>1. r = IF primary.outcome = "unrepairable" THEN Refused("unrepairable", raw) ELSE primary
    BY <1>2, <1>8
  <2>2. CASE primary.outcome = "unrepairable"
    <3>1. r = Refused("unrepairable", raw)
      BY <2>1, <2>2
    <3>2. ~Good(r) /\ IsListed(r.changes)
      BY <3>1, RefusedIs
    <3>3. ~Good(primary)
      BY <2>2 DEF Good
    <3>4. IsObj(raw) => Yields(raw, primary) /\ IsRecord(raw)
      BY <1>4, <1>6 DEF IsRecord
    <3>5. IsObj(raw) => ~(/\ ~Unparsable(Emptied(Parsed(At(raw, "edits"))))
                          /\ (\A a, b, c, d : Prepares(raw, a, b, c, d) => Valid(d)))
      BY <3>3, <3>4 DEF Yields
    <3> QED
      BY <1>6, <3>2, <3>5 DEF r
  <2>3. CASE primary.outcome # "unrepairable"
    <3>1. r = primary
      BY <2>1, <2>3
    <3>2. IsObj(env.v)
      <4>1. Refused("unrepairable", env.v).outcome = "unrepairable"
        BY RefusedIs
      <4> QED
        BY <1>5, <2>3, <4>1
    <3>3. Yields(Core(raw), r)
      BY <1>4, <3>1, <3>2
    <3>4. /\ IsListed(r.changes)
          /\ Good(r) => \E w : /\ Makes(Core(raw), w) /\ Convert(r.args) = Convert(w)
                               /\ r.outcome = "valid" => w = Core(raw) /\ r.args = Core(raw)
      BY <3>3 DEF Yields
    <3>5. IsObj(raw) => /\ IsRecord(raw) /\ Yields(raw, r)
      BY <1>6, <3>3 DEF IsRecord
    <3>6. IsObj(raw) /\ ~Unparsable(Emptied(Parsed(At(raw, "edits"))))
              /\ (\A a, b, c, d : Prepares(raw, a, b, c, d) => Valid(d))
              => Good(r) /\ \E a, b, c, d : Prepares(raw, a, b, c, d) /\ Convert(r.args) = d
      BY <3>5 DEF Yields
    <3> QED
      BY <1>6, <3>4, <3>6 DEF r
  <2> QED
    BY <2>2, <2>3
<1> QED
  BY <1>7, <1>8

LEMMA ChangesListed ==
  ASSUME NEW raw, IsJson(raw), NEW on, NEW conservative
  PROVE  Len(PrepareEditArguments(raw, on, conservative).changes) \in Nat
<1> DEFINE r == PrepareEditArguments(raw, on, conservative)
<1>1. CASE on
  BY <1>1, PipelineIs DEF PrepareEditArguments, IsListed
<1>2. CASE ~on
  <2>1. r = [outcome |-> "valid", args |-> NativeCompatibility(raw), changes |-> <<>>]
    BY <1>2 DEF PrepareEditArguments
  <2>2. r.changes = <<>>
    BY <2>1
  <2> HIDE DEF r
  <2>3. Len(r.changes) \in Nat
    BY <2>2
  <2> QED
    BY <2>3 DEF r
<1> QED
  BY <1>1, <1>2

-----------------------------------------------------------------------------
(* What the rules on each edit make of an array of them.                     *)

Five(x) ==
  Step("infer-insertion-missing-oldtext", Step("infer-deletion-missing-newtext",
    Step("alias-nested-path", Step("alias-newText", Step("alias-oldText", x)))))

LEMMA EachEditOf ==
  ASSUME NEW x, JsonOrNone(x)
  PROVE  LET y == EachEdit(x) IN
         /\ JsonOrNone(y) /\ (IsArr(y) <=> IsArr(x)) /\ (~IsArr(x) => y = x)
         /\ IsArr(x) => /\ IsJson(y) /\ IsListed(y.e) /\ Len(y.e) = Len(x.e)
                        /\ DOMAIN y.e = DOMAIN x.e
                        /\ \A i \in DOMAIN x.e : y.e[i] = Five(x.e[i])
<1> DEFINE x1 == Each("alias-oldText", x)
           x2 == Each("alias-newText", x1)
           x3 == Each("alias-nested-path", x2)
           x4 == Each("infer-deletion-missing-newtext", x3)
           x5 == Each("infer-insertion-missing-oldtext", x4)
<1>0. /\ "alias-oldText" \in EachRules /\ "alias-newText" \in EachRules
      /\ "alias-nested-path" \in EachRules /\ "infer-deletion-missing-newtext" \in EachRules
      /\ "infer-insertion-missing-oldtext" \in EachRules
  BY DEF EachRules
<1>e. EachEdit(x) = x5
  BY DEF EachEdit, NamedEdits
<1>1. /\ JsonOrNone(x1) /\ (IsArr(x1) <=> IsArr(x)) /\ (~IsArr(x) => x1 = x)
      /\ IsArr(x) => /\ Len(x1.e) = Len(x.e) /\ DOMAIN x1.e = DOMAIN x.e
                     /\ \A i \in DOMAIN x.e : x1.e[i] = Step("alias-oldText", x.e[i])
  BY <1>0, EachIs
<1> HIDE DEF x1
<1>2. /\ JsonOrNone(x2) /\ (IsArr(x2) <=> IsArr(x1)) /\ (~IsArr(x1) => x2 = x1)
      /\ IsArr(x1) => /\ Len(x2.e) = Len(x1.e) /\ DOMAIN x2.e = DOMAIN x1.e
                      /\ \A i \in DOMAIN x1.e : x2.e[i] = Step("alias-newText", x1.e[i])
  BY <1>0, <1>1, EachIs
<1> HIDE DEF x2
<1>3. /\ JsonOrNone(x3) /\ (IsArr(x3) <=> IsArr(x2)) /\ (~IsArr(x2) => x3 = x2)
      /\ IsArr(x2) => /\ Len(x3.e) = Len(x2.e) /\ DOMAIN x3.e = DOMAIN x2.e
                      /\ \A i \in DOMAIN x2.e : x3.e[i] = Step("alias-nested-path", x2.e[i])
  BY <1>0, <1>2, EachIs
<1> HIDE DEF x3
<1>4. /\ JsonOrNone(x4) /\ (IsArr(x4) <=> IsArr(x3)) /\ (~IsArr(x3) => x4 = x3)
      /\ IsArr(x3) => /\ Len(x4.e) = Len(x3.e) /\ DOMAIN x4.e = DOMAIN x3.e
                      /\ \A i \in DOMAIN x3.e :
                           x4.e[i] = Step("infer-deletion-missing-newtext", x3.e[i])
  BY <1>0, <1>3, EachIs
<1> HIDE DEF x4
<1>5. /\ JsonOrNone(x5) /\ (IsArr(x5) <=> IsArr(x4)) /\ (~IsArr(x4) => x5 = x4)
      /\ IsArr(x4) => /\ IsJson(x5) /\ IsListed(x5.e)
                      /\ Len(x5.e) = Len(x4.e) /\ DOMAIN x5.e = DOMAIN x4.e
                      /\ \A i \in DOMAIN x4.e :
                           x5.e[i] = Step("infer-insertion-missing-oldtext", x4.e[i])
  BY <1>0, <1>4, EachIs
<1> HIDE DEF x5
<1> QED
  BY <1>1, <1>2, <1>3, <1>4, <1>5, <1>e DEF Five

\* A rule on a complete edit renames no more than the path.
OnlyPath(x, y) == IsRecord(y) /\ \A j : j \notin NamesOf("path") => At(y, j) = At(x, j)

LEMMA EditHas ==
  ASSUME NEW x, IsEdit(x)
  PROVE  /\ IsString(At(x, "oldText")) /\ IsString(At(x, "newText"))
         /\ At(x, "oldText") \notin {Absent, Null} /\ At(x, "newText") \notin {Absent, Null}
BY KindsDiffer DEF IsEdit, Required

LEMMA PathNamesOthers ==
  {"oldText", "newText", "anchor", "edits", "old_str", "new_str", "old_text", "new_text"}
    \cap NamesOf("path") = {}
BY AliasesAre

LEMMA OnlyPathEdit ==
  ASSUME NEW x, IsEdit(x), NEW y, OnlyPath(x, y)
  PROVE  IsEdit(y)
BY PathNamesOthers DEF IsEdit, OnlyPath, Required

LEMMA StepOnEdit ==
  ASSUME NEW x, IsJson(x), IsEdit(x), NEW rule \in EachRules
  PROVE  OnlyPath(x, Step(rule, x))
<1>1. IsRecord(x)
  BY EditIsObj DEF IsRecord
<1> DEFINE r == Rule(rule, x)
<1>2. Step(rule, x) = After(r, x)
  BY <1>1 DEF Step, IsRecord
<1>3. OnlyPath(x, x)
  BY <1>1 DEF OnlyPath
<1>4. r.hit \in BOOLEAN
  BY <1>1, RuleIs
<1>5. ~r.hit => OnlyPath(x, Step(rule, x))
  BY <1>2, <1>3 DEF After
<1>6. CASE rule \in {"alias-oldText", "alias-newText"}
  <2>1. ASSUME NEW k \in {"oldText", "newText"} PROVE ~ExactAlias(x, k).hit
    BY <1>1, EditHas, ExactAliasIs DEF Missing, Named
  <2>2. rule = "alias-oldText" => r = ExactAlias(x, "oldText")
    BY DEF Rule
  <2>3. rule = "alias-newText" => r = ExactAlias(x, "newText")
    BY DEF Rule
  <2> QED
    BY <1>5, <1>6, <2>1, <2>2, <2>3
<1>7. CASE rule = "alias-nested-path"
  <2>1. r = ExactAlias(x, "path")
    BY <1>7 DEF Rule
  <2>2. r.hit => \E a \in NamesOf("path") : Moved(x, r.v, "path", a)
    BY <1>1, <2>1, ExactAliasIs DEF Named
  <2>3. "path" \in NamesOf("path")
    BY AliasesAre
  <2>4. r.hit => OnlyPath(x, r.v)
    BY <2>2, <2>3 DEF Moved, OnlyPath
  <2> QED
    BY <1>2, <1>4, <1>5, <2>4 DEF After
<1>8. CASE rule = "infer-deletion-missing-newtext"
  <2>1. r = InferDeletion(x)
    BY <1>8 DEF Rule
  <2>2. ~r.hit
    BY <1>1, <2>1, EditHas, InferDeletionIs
  <2> QED
    BY <1>5, <2>2
<1>9. CASE rule = "infer-insertion-missing-oldtext"
  <2>1. r = InferInsertion(x)
    BY <1>9 DEF Rule
  <2>2. ~r.hit
    BY <1>1, <2>1, EditHas, InferInsertionIs
  <2> QED
    BY <1>5, <2>2
<1> QED
  BY <1>6, <1>7, <1>8, <1>9 DEF EachRules

LEMMA OnlyPathOn ==
  ASSUME NEW x, NEW y, NEW z, OnlyPath(x, y), OnlyPath(y, z)
  PROVE  OnlyPath(x, z)
BY DEF OnlyPath

LEMMA FiveOnEdit ==
  ASSUME NEW x, IsJson(x), IsEdit(x)
  PROVE  OnlyPath(x, Five(x)) /\ IsEdit(Five(x))
<1> DEFINE x1 == Step("alias-oldText", x)
           x2 == Step("alias-newText", x1)
           x3 == Step("alias-nested-path", x2)
           x4 == Step("infer-deletion-missing-newtext", x3)
           x5 == Step("infer-insertion-missing-oldtext", x4)
<1>0. /\ "alias-oldText" \in EachRules /\ "alias-newText" \in EachRules
      /\ "alias-nested-path" \in EachRules /\ "infer-deletion-missing-newtext" \in EachRules
      /\ "infer-insertion-missing-oldtext" \in EachRules
  BY DEF EachRules
<1>e. Five(x) = x5
  BY DEF Five
<1>1. OnlyPath(x, x1)
  BY <1>0, StepOnEdit
<1> HIDE DEF x1
<1>6. IsJson(x1) /\ IsEdit(x1)
  BY <1>1, OnlyPathEdit DEF OnlyPath, IsRecord
<1>2. OnlyPath(x1, x2)
  BY <1>0, <1>6, StepOnEdit
<1> HIDE DEF x2
<1>7. IsJson(x2) /\ IsEdit(x2)
  BY <1>2, <1>6, OnlyPathEdit DEF OnlyPath, IsRecord
<1>3. OnlyPath(x2, x3)
  BY <1>0, <1>7, StepOnEdit
<1> HIDE DEF x3
<1>8. IsJson(x3) /\ IsEdit(x3)
  BY <1>3, <1>7, OnlyPathEdit DEF OnlyPath, IsRecord
<1>4. OnlyPath(x3, x4)
  BY <1>0, <1>8, StepOnEdit
<1> HIDE DEF x4
<1>9. IsJson(x4) /\ IsEdit(x4)
  BY <1>4, <1>8, OnlyPathEdit DEF OnlyPath, IsRecord
<1>5. OnlyPath(x4, x5)
  BY <1>0, <1>9, StepOnEdit
<1> HIDE DEF x5
<1>10. OnlyPath(x, x5)
  BY <1>1, <1>2, <1>3, <1>4, <1>5, OnlyPathOn
<1> QED
  BY <1>10, <1>e, OnlyPathEdit

-----------------------------------------------------------------------------
(* Complete edits.                                                           *)

\* An array of complete edits, which no rule before the aliases touches.
AreEdits(x) ==
  /\ IsJson(x) /\ IsArr(x)
  /\ \A i \in DOMAIN x.e : IsEdit(x.e[i])

LEMMA EditsStay ==
  ASSUME NEW x, AreEdits(x)
  PROVE  /\ Parsed(x) = x /\ Emptied(x) = x /\ ~Unparsable(x) /\ Normalized(x) = x /\ Pruned(x) = x
         /\ NormalEdits(x) = x
<1>1. x = Arr(x.e) /\ IsListed(x.e) /\ \A i \in DOMAIN x.e : IsJson(x.e[i])
  BY ArrIs DEF AreEdits
<1>2. \A i \in DOMAIN x.e : /\ IsObj(x.e[i]) /\ ~IsString(x.e[i]) /\ x.e[i] # Str("")
                            /\ ~Hollow(x.e[i])
  <2>1. ASSUME NEW i \in DOMAIN x.e PROVE IsObj(x.e[i]) /\ ~Hollow(x.e[i])
    <3>1. IsEdit(x.e[i]) /\ IsRecord(x.e[i])
      BY <1>1, EditIsObj DEF AreEdits, IsRecord
    <3>2. At(x.e[i], "oldText") # Absent
      BY <3>1, EditHas
    <3>3. "oldText" \in DOMAIN x.e[i].f
      BY <3>1, <3>2, RecordIs
    <3> QED
      BY <3>1, <3>3 DEF Hollow, IsRecord
  <2> QED
    BY <2>1, KindsDiffer
<1>3. Parsed(x) = x
  BY Encoded, KindsDiffer DEF Parsed, AreEdits
<1>4. AtPlaces(x.e, DOMAIN x.e) = x.e
  BY <1>1, AtAllPlaces
<1>5. Emptied(x) = x
  <2>1. {i \in DOMAIN x.e : x.e[i] # Str("")} = DOMAIN x.e
    BY <1>2
  <2> QED
    BY <1>1, <1>4, <2>1 DEF Emptied, AreEdits
<1>6. Pruned(x) = x
  <2>1. {i \in DOMAIN x.e : ~Hollow(x.e[i])} = DOMAIN x.e
    BY <1>2
  <2> QED
    BY <1>1, <1>4, <2>1 DEF Pruned, AreEdits
<1>7. ~Unparsable(x)
  BY <1>2, KindsDiffer DEF Unparsable, AreEdits
<1>8. Normalized(x) = x
  <2>1. NormalizeEdits(x) = Miss
    BY <1>2 DEF NormalizeEdits, AreEdits
  <2> QED
    BY <2>1, HitIs DEF Normalized, After
<1> QED
  BY <1>3, <1>5, <1>6, <1>7, <1>8 DEF NormalEdits

\* Valid arguments once prepared.
LEMMA ValidEdits ==
  ASSUME NEW v, IsRecord(v), Valid(v)
  PROVE  /\ AreEdits(At(v, "edits")) /\ IsString(At(v, "path")) /\ v.f.edits = At(v, "edits")
<1>1. JsonOrNone(At(v, "edits"))
  BY AtIsJson DEF IsRecord
<1>2. IsString(At(v, "path")) /\ IsArr(At(v, "edits"))
      /\ \A i \in DOMAIN At(v, "edits").e : IsEdit(At(v, "edits").e[i])
  BY ValidIs
<1> QED
  BY <1>1, <1>2, KindsDiffer, StringAt DEF AreEdits, JsonOrNone

-----------------------------------------------------------------------------
(* A second repair.                                                          *)

\* The texts at the top level stay where they are.
TopNames == {"oldText", "newText", "old_str", "new_str"}
SameTop(v, w) == \A j \in TopNames : At(w, j) = At(v, j)

LEMMA TopFolds ==
  ASSUME NEW v, NEW w, SameTop(v, w)
  PROVE  FoldMisses(w) <=> FoldMisses(v)
BY DEF FoldMisses, FirstString, SameTop, TopNames

LEMMA FoldedMisses ==
  ASSUME NEW c, IsRecord(c), NEW d, d = After(FlatFold(c), c)
  PROVE  FoldMisses(d) /\ IsRecord(d)
<1>1. /\ FlatFold(c).hit \in BOOLEAN /\ (FlatFold(c).hit <=> ~FoldMisses(c))
      /\ FlatFold(c).hit => /\ IsRecord(FlatFold(c).v)
                            /\ \A j : j # "edits" =>
                                 At(FlatFold(c).v, j) = IF j \in FoldedFields THEN Absent ELSE At(c, j)
  BY FlatFoldIs
<1>2. CASE ~FlatFold(c).hit
  BY <1>1, <1>2 DEF After
<1>3. CASE FlatFold(c).hit
  <2>1. d = FlatFold(c).v
    BY <1>3 DEF After
  <2>2. At(d, "oldText") = Absent /\ At(d, "old_str") = Absent
    BY <1>1, <1>3, <2>1 DEF FoldedFields
  <2>3. FirstString(d, "oldText", "old_str") = Absent
    BY <2>2, FirstStringIs, KindsDiffer
  <2> QED
    BY <1>1, <1>3, <2>1, <2>3 DEF FoldMisses
<1> QED
  BY <1>1, <1>2, <1>3

LEMMA ChainTop ==
  ASSUME NEW v, IsRecord(v), NEW w, NEW g, IsChain(g, v, w)
  PROVE  SameTop(v, w)
<1> DEFINE S == {k \in 0 .. MaxPasses : SameTop(v, g[k])}
<1>1. MaxPasses \in Nat
  BY RepairAssumption
<1>2. 0 \in S
  BY <1>1 DEF IsChain, SameTop
<1>3. ASSUME NEW k \in 0 .. MaxPasses - 1, k \in S PROVE k + 1 \in S
  <2>1. k + 1 \in 1 .. MaxPasses /\ (k + 1) - 1 = k /\ k + 1 \in 0 .. MaxPasses
    BY <1>1
  <2>2. g[k + 1] = g[k] \/ Passed(g[k], g[k + 1])
    BY <2>1 DEF IsChain
  <2>3. \A j \in TopNames : j \notin NamesOf("path") \cup {"edits"}
    BY PathNamesOthers DEF TopNames
  <2>4. Passed(g[k], g[k + 1]) => \A j \in TopNames : At(g[k + 1], j) = At(g[k], j)
    BY <2>3 DEF Passed, MendsRoot
  <2> QED
    BY <1>3, <2>1, <2>2, <2>4 DEF SameTop
<1> HIDE DEF S
<1>4. MaxPasses \in S
  BY <1>1, <1>2, <1>3, UpTo
<1> QED
  BY <1>4 DEF S, IsChain

\* What is repaired has nothing left to fold.
LEMMA MadeFolds ==
  ASSUME NEW u, NEW w, Makes(u, w)
  PROVE  IsRecord(w) /\ IsRecord(Convert(w)) /\ FoldMisses(Convert(w))
<1>1. PICK a, b, c, d : Prepares(u, a, b, c, d) /\ Repairs(d, w)
  BY DEF Makes
<1>2. FoldMisses(d) /\ IsRecord(d)
  BY <1>1, FoldedMisses DEF Prepares
<1>3. PICK g : IsChain(g, d, w)
  BY <1>1 DEF Repairs
<1>4. SameTop(d, w) /\ IsRecord(w)
  BY <1>1, <1>2, <1>3, ChainTop DEF Repairs
<1>5. IsRecord(Convert(w)) /\ SameTop(w, Convert(w))
  BY <1>4, ConvertIs DEF SameTop, TopNames
<1> QED
  BY <1>2, <1>4, <1>5, TopFolds

\* The same edits, but for the names of their paths.
SameTexts(x, y) ==
  /\ AreEdits(y) /\ IsListed(y.e) /\ DOMAIN y.e = DOMAIN x.e
  /\ \A i \in DOMAIN x.e : OnlyPath(x.e[i], y.e[i])

LEMMA EachOfEdits ==
  ASSUME NEW x, AreEdits(x)
  PROVE  SameTexts(x, EachEdit(x))
<1> DEFINE y == EachEdit(x)
<1>1. JsonOrNone(x) /\ IsArr(x) /\ \A i \in DOMAIN x.e : IsJson(x.e[i]) /\ IsEdit(x.e[i])
  BY ArrIs DEF AreEdits, JsonOrNone
<1>2. /\ IsJson(y) /\ IsArr(y) /\ IsListed(y.e) /\ DOMAIN y.e = DOMAIN x.e
      /\ \A i \in DOMAIN x.e : y.e[i] = Five(x.e[i])
  BY <1>1, EachEditOf
<1>3. \A i \in DOMAIN x.e : OnlyPath(x.e[i], Five(x.e[i])) /\ IsEdit(Five(x.e[i]))
  BY <1>1, FiveOnEdit
<1> HIDE DEF y
<1>4. SameTexts(x, y)
  BY <1>2, <1>3 DEF SameTexts, AreEdits
<1> QED
  BY <1>4 DEF y

LEMMA CleanedEdits ==
  ASSUME NEW x, AreEdits(x), NEW g, g = [i \in DOMAIN x.e |-> Cleaned(x.e[i])]
  PROVE  SameTexts(x, Arr(g))
<1>1. IsJson(x) /\ IsArr(x) /\ \A i \in DOMAIN x.e : IsJson(x.e[i]) /\ IsEdit(x.e[i]) /\ IsObj(x.e[i])
  BY ArrIs, EditIsObj DEF AreEdits
<1>2. \A i \in DOMAIN x.e : IsJson(g[i]) /\ OnlyPath(x.e[i], g[i])
  <2>1. "path" \in NamesOf("path")
    BY AliasesAre
  <2> QED
    BY <1>1, <2>1, CleanedIs DEF OnlyPath, IsRecord
<1>3. DOMAIN g = DOMAIN x.e /\ g = [i \in DOMAIN g |-> g[i]]
  OBVIOUS
<1>4. \A i \in DOMAIN x.e : IsEdit(g[i])
  BY <1>1, <1>2, OnlyPathEdit
<1> HIDE DEF SameTexts
<1>5. IsJson(Arr(g)) /\ IsArr(Arr(g)) /\ Arr(g).e = g /\ IsListed(g)
  BY <1>1, <1>2, <1>3, RewrittenIs
<1> QED
  BY <1>2, <1>3, <1>4, <1>5 DEF SameTexts, AreEdits

LEMMA SameEditsOn ==
  ASSUME NEW x, NEW y, NEW z, SameTexts(x, y), SameTexts(y, z)
  PROVE  SameTexts(x, z)
BY OnlyPathOn DEF SameTexts

\* Valid arguments with nothing to fold stay as they are, but for paths.
LEMMA PreparedTwice ==
  ASSUME NEW v, IsRecord(v), Valid(v), FoldMisses(v), NEW a, NEW b, NEW c, NEW d,
         Prepares(v, a, b, c, d)
  PROVE  /\ IsRecord(d) /\ SameTexts(At(v, "edits"), At(d, "edits"))
         /\ IsString(At(d, "path"))
         /\ At(v, "path") # Str("") => At(d, "path") = At(v, "path")
<1> DEFINE x == At(v, "edits")
<1>1. AreEdits(x) /\ IsString(At(v, "path"))
  BY ValidEdits
<1>2. a = v
  <2>1. IsRecord(a) /\ \A j : At(a, j) = At(v, j)
    BY <1>1, EditsStay DEF Prepares, Set
  <2> QED
    BY <2>1, SameRecord
<1>3. After(ExactAlias(a, "path"), a) = v
  <2>1. ~ExactAlias(v, "path").hit
    BY <1>1, ExactAliasIs, KindsDiffer DEF Missing, Named
  <2> QED
    BY <1>2, <2>1 DEF After
<1>4. Set(v, b, "edits", EachEdit(x))
  BY <1>2, <1>3 DEF Prepares
<1>5. SameTexts(x, At(b, "edits")) /\ IsRecord(b) /\ At(b, "path") = At(v, "path")
  <2>1. At(b, "edits") = EachEdit(x)
    BY <1>4 DEF Set
  <2> QED
    BY <1>1, <1>4, <2>1, EachOfEdits DEF Set
<1>6. SameTop(v, b)
  BY <1>4 DEF Set, SameTop, TopNames
<1> DEFINE r == HoistNestedPath(b)
<1>7. /\ r.hit \in BOOLEAN
      /\ r.hit => /\ ~IsText(At(b, "path"))
                  /\ \E p : IsText(p) /\ At(r.v, "path") = p
                  /\ At(r.v, "edits") = Arr([i \in DOMAIN At(b, "edits").e |-> Cleaned(At(b, "edits").e[i])])
                  /\ \A j : j \notin {"path", "edits"} => At(r.v, j) = At(b, j)
  BY <1>5, HoistIs
<1>8. c = After(r, b) /\ IsRecord(c)
  BY DEF Prepares
<1> HIDE DEF r
<1>9. /\ SameTexts(x, At(c, "edits")) /\ SameTop(b, c) /\ IsString(At(c, "path"))
      /\ At(v, "path") # Str("") => At(c, "path") = At(v, "path")
  <2>1. CASE ~r.hit
    <3>1. c = b
      BY <1>8, <2>1 DEF After
    <3> QED
      BY <1>1, <1>5, <3>1 DEF SameTop
  <2>2. CASE r.hit
    <3>1. c = r.v
      BY <1>8, <2>2 DEF After
    <3>2. At(v, "path") = Str("")
      BY <1>1, <1>5, <1>7, <2>2 DEF IsText
    <3>3. SameTexts(At(b, "edits"), At(c, "edits"))
      <4>1. AreEdits(At(b, "edits"))
        BY <1>5 DEF SameTexts
      <4>2. At(c, "edits") = Arr([i \in DOMAIN At(b, "edits").e |-> Cleaned(At(b, "edits").e[i])])
        BY <1>7, <2>2, <3>1
      <4> QED
        BY <4>1, <4>2, CleanedEdits
    <3>4. SameTop(b, c)
      BY <1>7, <2>2, <3>1 DEF SameTop, TopNames
    <3>5. IsString(At(c, "path"))
      BY <1>7, <2>2, <3>1 DEF IsText
    <3> QED
      BY <1>5, <3>2, <3>3, <3>4, <3>5, SameEditsOn
  <2> QED
    BY <1>7, <2>1, <2>2
<1>10. FoldMisses(c)
  BY <1>6, <1>9, TopFolds
<1>11. d = c
  <2>1. ~FlatFold(c).hit
    BY <1>8, <1>10, FlatFoldIs
  <2> QED
    BY <2>1 DEF Prepares, After
<1> QED
  BY <1>8, <1>9, <1>11

\* They mean what they meant.
LEMMA SameMeaning ==
  ASSUME NEW v, IsRecord(v), Valid(v), NEW d, IsRecord(d), IsString(At(d, "path")),
         SameTexts(At(v, "edits"), At(d, "edits"))
  PROVE  Valid(d) /\ Meaning(d) = Meaning(v)
<1> DEFINE x == At(v, "edits")
           y == At(d, "edits")
<1>1. AreEdits(y) /\ DOMAIN y.e = DOMAIN x.e /\ \A i \in DOMAIN x.e : OnlyPath(x.e[i], y.e[i])
  BY DEF SameTexts
<1>2. ASSUME NEW i \in DOMAIN x.e, NEW k \in {"oldText", "newText", "anchor"}
      PROVE  At(y.e[i], k) = At(x.e[i], k)
  BY <1>1, PathNamesOthers DEF OnlyPath
<1>3. Valid(d)
  <2>1. \A i \in DOMAIN y.e : IsEdit(y.e[i])
    BY <1>1 DEF AreEdits
  <2>2. \A i \in DOMAIN x.e : At(x.e[i], "anchor") = Absent \/ IsString(At(x.e[i], "anchor"))
    BY ValidIs
  <2>3. \A i \in DOMAIN y.e : At(y.e[i], "anchor") = Absent \/ IsString(At(y.e[i], "anchor"))
    BY <1>1, <1>2, <2>2
  <2>4. IsArr(y)
    BY <1>1 DEF AreEdits
  <2> QED
    BY <2>1, <2>3, <2>4, ValidIs
<1>4. d.f.edits = y /\ v.f.edits = x
  BY <1>3, ValidEdits
<1> HIDE DEF x, y
<1>5. Meaning(d) = [i \in DOMAIN y.e |-> [k \in {"oldText", "newText", "anchor"} |-> At(y.e[i], k)]]
  BY <1>4, TextFieldsAre DEF Meaning
<1>6. Meaning(v) = [i \in DOMAIN x.e |-> [k \in {"oldText", "newText", "anchor"} |-> At(x.e[i], k)]]
  BY <1>4, TextFieldsAre DEF Meaning
<1> QED
  BY <1>1, <1>2, <1>3, <1>5, <1>6

\* Repaired arguments repaired once more.
LEMMA RepairedTwice ==
  ASSUME NEW v, IsRecord(v), Valid(v), FoldMisses(v), NEW conservative
  PROVE  LET r == PrepareEditArguments(v, TRUE, conservative)
             final == Convert(r.args)
         IN  /\ Accepted(r) /\ Meaning(final) = Meaning(v)
             /\ At(v, "path") # Str("") => At(final, "path") = At(v, "path")
<1> DEFINE r == PrepareEditArguments(v, TRUE, conservative)
<1>1. r = RunRepairPipeline(v, conservative)
  BY DEF PrepareEditArguments
<1>2. IsJson(v) /\ IsObj(v)
  BY DEF IsRecord
<1>3. ~Unparsable(Emptied(Parsed(At(v, "edits"))))
  <2>1. AreEdits(At(v, "edits"))
    BY ValidEdits
  <2> QED
    BY <2>1, EditsStay
<1>4. ASSUME NEW a, NEW b, NEW c, NEW d, Prepares(v, a, b, c, d)
      PROVE  /\ Valid(d) /\ Meaning(d) = Meaning(v)
             /\ At(v, "path") # Str("") => At(d, "path") = At(v, "path")
  BY <1>4, PreparedTwice, SameMeaning
<1>5. Good(r) /\ \E a, b, c, d : Prepares(v, a, b, c, d) /\ Convert(r.args) = d
  BY <1>1, <1>2, <1>3, <1>4, PipelineIs
<1> HIDE DEF r
<1>6. PICK a, b, c, d : Prepares(v, a, b, c, d) /\ Convert(r.args) = d
  BY <1>5
<1>7. /\ Valid(Convert(r.args)) /\ Meaning(Convert(r.args)) = Meaning(v)
      /\ At(v, "path") # Str("") => At(Convert(r.args), "path") = At(v, "path")
  BY <1>4, <1>6
<1>8. Accepted(r)
  BY <1>5, <1>7 DEF Accepted, Good
<1> QED
  BY <1>7, <1>8 DEF r

-----------------------------------------------------------------------------
(* The edits that were sent, and what the rules before the aliases make of   *)
(* them.                                                                     *)

\* The places s in their order.
Up(s) == [k \in 1 .. Cardinality(s) |-> CHOOSE i \in s : Cardinality({j \in s : j <= i}) = k]

LEMMA AtUp ==
  ASSUME NEW q, IsListed(q), NEW s, s \subseteq DOMAIN q
  PROVE  /\ IsOrder(Up(s), s) /\ Cardinality(s) \in Nat
         /\ DOMAIN Up(s) = 1 .. Cardinality(s)
         /\ AtPlaces(q, s) = [k \in 1 .. Cardinality(s) |-> q[Up(s)[k]]]
         /\ \A k \in 1 .. Cardinality(s) : Up(s)[k] \in s
<1>1. Len(q) \in Nat /\ DOMAIN q = 1 .. Len(q)
  BY ListIs
<1>2. IsOrder(Up(s), s) /\ Cardinality(s) \in Nat
  <2>1. s \in SUBSET (1 .. Len(q))
    BY <1>1
  <2> QED
    BY <1>1, <2>1, PlacesIn DEF Up
<1>3. AtPlaces(q, s) = [k \in 1 .. Cardinality(s) |-> q[Up(s)[k]]]
  BY DEF AtPlaces, Up
<1> QED
  BY <1>2, <1>3 DEF IsOrder

\* Taking places and rewriting the elements at them go together.
LEMMA AtPlacesMap ==
  ASSUME NEW q, IsListed(q), NEW s, s \subseteq DOMAIN q, NEW r, IsListed(r), DOMAIN r = DOMAIN q
  PROVE  /\ DOMAIN AtPlaces(r, s) = DOMAIN AtPlaces(q, s)
         /\ IsListed(AtPlaces(r, s))
         /\ \A k \in DOMAIN AtPlaces(q, s) :
              \E i \in s : AtPlaces(q, s)[k] = q[i] /\ AtPlaces(r, s)[k] = r[i]
<1>1. /\ AtPlaces(q, s) = [k \in 1 .. Cardinality(s) |-> q[Up(s)[k]]]
      /\ \A k \in 1 .. Cardinality(s) : Up(s)[k] \in s
  BY AtUp
<1>2. AtPlaces(r, s) = [k \in 1 .. Cardinality(s) |-> r[Up(s)[k]]]
  BY AtUp
<1>3. IsListed(AtPlaces(r, s))
  BY AtPlacesIs
<1> QED
  BY <1>1, <1>2, <1>3

\* The elements an array of edits was sent with.
SentList(y) ==
  CASE IsArr(y) -> y.e
    [] y \in {Absent, Str("")} -> <<>>
    [] OTHER -> <<y>>

LEMMA SentListIs ==
  ASSUME NEW y, JsonOrNone(y)
  PROVE  /\ IsListed(SentList(y)) /\ \A i \in DOMAIN SentList(y) : IsJson(SentList(y)[i])
         /\ IsArr(y) => SentList(y) = y.e
         /\ y \in {Absent, Str("")} => SentList(y) = <<>>
         /\ ~IsArr(y) /\ y \notin {Absent, Str("")} =>
              SentList(y) = <<y>> /\ DOMAIN SentList(y) = {1} /\ SentList(y)[1] = y
<1>1. CASE IsArr(y)
  <2>1. y \notin {Absent, Str("")}
    BY <1>1, KindsDiffer
  <2>2. SentList(y) = y.e
    BY <1>1, <2>1 DEF SentList
  <2> QED
    BY <1>1, <2>1, <2>2, ArrIs DEF JsonOrNone
<1>2. CASE y \in {Absent, Str("")}
  <2>1. ~IsArr(y)
    BY <1>2, KindsDiffer
  <2>2. SentList(y) = <<>>
    BY <1>2, <2>1 DEF SentList
  <2>3. DOMAIN <<>> = {}
    OBVIOUS
  <2>4. \A i \in DOMAIN SentList(y) : IsJson(SentList(y)[i])
    BY <2>2, <2>3
  <2> QED
    BY <1>2, <2>1, <2>2, <2>4, NoChanges
<1>3. CASE ~IsArr(y) /\ y \notin {Absent, Str("")}
  <2>1. SentList(y) = <<y>>
    BY <1>3 DEF SentList
  <2> QED
    BY <1>3, <2>1, SingleIs DEF JsonOrNone
<1> QED
  BY <1>1, <1>2, <1>3

OpenedList(s) == [i \in DOMAIN s |-> Opened(s[i])]
Filled(s) == {i \in DOMAIN s : s[i] # Str("")}

LEMMA NestedIs ==
  ASSUME NEW u
  PROVE  LET o == OpenedList(SentList(Opened(At(u, "edits")))) IN
         Nested(u) = AtPlaces(o, Filled(o))
<1> DEFINE y == Opened(At(u, "edits"))
           s == SentList(y)
           o == OpenedList(s)
<1>1. Nested(u) = AtPlaces(o, {i \in DOMAIN s : o[i] # Str("")})
  BY DEF Nested, OpenedList, SentList
<1>2. DOMAIN o = DOMAIN s
  BY DEF OpenedList
<1> QED
  BY <1>1, <1>2 DEF Filled

LEMMA OpenedIs ==
  ASSUME NEW x, JsonOrNone(x)
  PROVE  /\ JsonOrNone(Opened(x)) /\ (~IsString(x) => Opened(x) = x) /\ Opened(Str("")) = Str("")
         /\ x.t = "str" => Opened(x) = x
         /\ x.t = "enc" => Opened(x) = x.v /\ IsJson(x.v)
<1>1. x.t = "enc" => IsJson(x)
  BY DEF JsonOrNone, Absent
<1>2. Opened(Str("")) = Str("")
  BY DEF Opened, Str
<1>3. x.t = "enc" => Opened(x) = x.v /\ IsJson(x.v)
  BY <1>1, EncodedIsJson DEF Opened
<1>4. x.t # "enc" => Opened(x) = x
  BY DEF Opened
<1> QED
  BY <1>2, <1>3, <1>4 DEF JsonOrNone, IsString

LEMMA OpenedListIs ==
  ASSUME NEW s, IsListed(s), \A i \in DOMAIN s : IsJson(s[i])
  PROVE  LET o == OpenedList(s) IN
         /\ IsListed(o) /\ DOMAIN o = DOMAIN s /\ Len(o) = Len(s)
         /\ \A i \in DOMAIN s : o[i] = Opened(s[i]) /\ IsJson(o[i])
<1> DEFINE o == OpenedList(s)
<1>1. Len(s) \in Nat /\ DOMAIN s = 1 .. Len(s)
  BY ListIs
<1>2. o = [i \in 1 .. Len(s) |-> Opened(s[i])]
  BY <1>1 DEF OpenedList
<1>3. \A i \in DOMAIN s : IsJson(Opened(s[i]))
  <2>1. ASSUME NEW i \in DOMAIN s PROVE IsJson(Opened(s[i]))
    <3>1. JsonOrNone(s[i]) /\ IsJson(s[i])
      BY DEF JsonOrNone
    <3>2. CASE s[i].t = "enc"
      BY <3>1, <3>2, OpenedIs
    <3>3. CASE s[i].t # "enc"
      BY <3>1, <3>3 DEF Opened
    <3> QED
      BY <3>2, <3>3
  <2> QED
    BY <2>1
<1> HIDE DEF o
<1>4. IsListed(o) /\ Len(o) = Len(s) /\ DOMAIN o = DOMAIN s
  BY <1>1, <1>2, MakesList
<1> QED
  BY <1>1, <1>2, <1>3, <1>4 DEF o

LEMMA NestedListed ==
  ASSUME NEW u, IsRecord(u)
  PROVE  /\ IsListed(Nested(u))
         /\ \A i \in DOMAIN Nested(u) : IsJson(Nested(u)[i]) /\ Nested(u)[i] # Str("")
<1> DEFINE y == Opened(At(u, "edits"))
           s == SentList(y)
           o == OpenedList(s)
<1>1. JsonOrNone(y)
  BY AtIsJson, OpenedIs DEF IsRecord
<1>2. IsListed(s) /\ \A i \in DOMAIN s : IsJson(s[i])
  BY <1>1, SentListIs
<1> HIDE DEF s
<1>3. IsListed(o) /\ \A i \in DOMAIN o : IsJson(o[i])
  BY <1>2, OpenedListIs
<1>4. Nested(u) = AtPlaces(o, Filled(o))
  BY NestedIs DEF s
<1> HIDE DEF o
<1> DEFINE f == Filled(o)
           n == AtPlaces(o, f)
<1>5. f \subseteq DOMAIN o /\ \A i \in f : o[i] # Str("")
  BY DEF Filled
<1>6. Nested(u) = n
  BY <1>4
<1> HIDE DEF f
<1>7. /\ n = [k \in 1 .. Cardinality(f) |-> o[Up(f)[k]]] /\ Cardinality(f) \in Nat
      /\ \A k \in 1 .. Cardinality(f) : Up(f)[k] \in f
  BY <1>3, <1>5, AtUp
<1> HIDE DEF n
<1>8. IsListed(n) /\ \A k \in DOMAIN n : \E i \in f : n[k] = o[i]
  <2>1. n = [k \in 1 .. Cardinality(f) |-> n[k]]
    BY <1>7
  <2> QED
    BY <1>7, <2>1, MakesList
<1> QED
  BY <1>3, <1>5, <1>6, <1>7, <1>8

\* Of an array that parses, what is no empty string is no string once opened, and
\* stays when empty strings are dropped once more.
LEMMA NormalOfArray ==
  ASSUME NEW y, IsJson(y), IsArr(y), ~Unparsable(Emptied(y))
  PROVE  LET o == OpenedList(y.e)
             n == AtPlaces(o, Filled(o))
         IN  /\ IsListed(n) /\ \A i \in DOMAIN n : IsJson(n[i]) /\ ~IsString(n[i])
             /\ Emptied(Normalized(Emptied(y))) = Arr(n)
<1> DEFINE q == y.e
           s == Filled(q)
           o == OpenedList(q)
           z == Emptied(y)
           n == AtPlaces(o, s)
<1>1. IsListed(q) /\ \A i \in DOMAIN q : IsJson(q[i])
  BY ArrIs
<1>2. IsListed(o) /\ DOMAIN o = DOMAIN q /\ \A i \in DOMAIN q : o[i] = Opened(q[i]) /\ IsJson(o[i])
  <2> HIDE DEF q
  <2> QED
    BY <1>1, OpenedListIs
<1>3. s \subseteq DOMAIN q
  BY DEF Filled
<1>4. z = Arr(AtPlaces(q, s)) /\ IsArr(z) /\ z.e = AtPlaces(q, s)
  <2>1. z = Arr(AtPlaces(q, s))
    BY DEF Emptied, Filled
  <2> QED
    BY <2>1, Encoded
<1>5. IsJson(z)
  <2>1. JsonOrNone(y)
    BY DEF JsonOrNone
  <2>2. JsonOrNone(z)
    BY <2>1, EmptiedIs
  <2> HIDE DEF z
  <2> QED
    BY <1>4, <2>2, KindsDiffer DEF JsonOrNone
<1> HIDE DEF z, o, s, q
<1>6. /\ DOMAIN n = DOMAIN z.e /\ IsListed(n)
      /\ \A k \in DOMAIN z.e : \E i \in s : z.e[k] = q[i] /\ n[k] = o[i]
  BY <1>1, <1>2, <1>3, <1>4, AtPlacesMap
<1>7. /\ \A i \in DOMAIN z.e : IsString(z.e[i]) => EncodesEdit(z.e[i])
      /\ IsListed(z.e)
  <2>1. ~Unparsable(z)
    BY DEF z
  <2> QED
    BY <1>4, <1>5, <2>1, ElementsAre, ArrIs
<1>8. ASSUME NEW k \in DOMAIN z.e
      PROVE  ParsedElement(z.e[k]) = n[k] /\ IsJson(n[k]) /\ ~IsString(n[k])
  <2>1. PICK i \in s : z.e[k] = q[i] /\ n[k] = o[i]
    BY <1>6
  <2>2. IsJson(q[i]) /\ o[i] = Opened(q[i]) /\ IsJson(o[i]) /\ JsonOrNone(q[i])
    BY <1>1, <1>2, <1>3, <2>1 DEF JsonOrNone
  <2>3. CASE IsString(q[i])
    <3>1. EncodesEdit(q[i])
      BY <1>7, <2>1, <2>3
    <3>2. q[i].t = "enc" /\ IsObj(q[i].v)
      BY <3>1, EditIsObj DEF EncodesEdit, Lenient
    <3>3. Opened(q[i]) = q[i].v
      BY <3>2 DEF Opened
    <3> QED
      BY <2>1, <2>2, <2>3, <3>2, <3>3, KindsDiffer DEF ParsedElement
  <2>4. CASE ~IsString(q[i])
    BY <2>1, <2>2, <2>4, OpenedIs DEF ParsedElement
  <2> QED
    BY <2>3, <2>4
<1> HIDE DEF n
<1>9. Normalized(z) = Arr(n)
  <2>1. Normalized(z) = Arr([i \in DOMAIN z.e |-> ParsedElement(z.e[i])])
    <3>1. JsonOrNone(z) /\ ~Unparsable(z)
      BY <1>5 DEF z, JsonOrNone
    <3> QED
      BY <1>4, <3>1, NormalizedIs
  <2>2. n = [i \in DOMAIN n |-> n[i]]
    BY <1>6, ListIs DEF IsListed
  <2>3. [i \in DOMAIN z.e |-> ParsedElement(z.e[i])] = n
    BY <1>6, <1>8, <2>2
  <2> QED
    BY <2>1, <2>3
<1>10. Emptied(Arr(n)) = Arr(n)
  <2>1. {i \in DOMAIN n : n[i] # Str("")} = DOMAIN n
    BY <1>6, <1>8, KindsDiffer
  <2>2. AtPlaces(n, DOMAIN n) = n
    BY <1>6, AtAllPlaces
  <2>3. Emptied(Arr(n)) = Arr(AtPlaces(n, {i \in DOMAIN n : n[i] # Str("")}))
    BY Encoded DEF Emptied
  <2> QED
    BY <2>1, <2>2, <2>3
<1>11. Filled(o) = s
  <2>1. ASSUME NEW i \in DOMAIN q PROVE o[i] = Str("") <=> q[i] = Str("")
    <3>1. CASE q[i] = Str("")
      <4>1. JsonOrNone(q[i])
        BY <1>1 DEF JsonOrNone
      <4> QED
        BY <1>2, <3>1, <4>1, OpenedIs
    <3>2. CASE q[i] # Str("")
      <4>1. i \in s
        BY <3>2 DEF s, Filled
      <4>2. PICK k \in DOMAIN z.e : z.e[k] = q[i]
        <5>1. \A j \in s : \E l \in DOMAIN z.e : z.e[l] = q[j]
          <6>1. PICK up : /\ IsOrder(up, s) /\ DOMAIN z.e = DOMAIN up
                          /\ \A l \in DOMAIN up : z.e[l] = q[up[l]]
            BY <1>1, <1>3, <1>4, AtPlacesIs
          <6> QED
            BY <6>1 DEF IsOrder
        <5> QED
          BY <4>1, <5>1
      <4>3. ParsedElement(z.e[k]) # Str("")
        BY <1>8, KindsDiffer
      <4>4. CASE IsString(q[i])
        <5>1. EncodesEdit(q[i])
          BY <1>7, <4>2, <4>4
        <5>2. q[i].t = "enc"
          BY <5>1 DEF EncodesEdit, Lenient
        <5>3. o[i] = q[i].v
          BY <1>2, <5>2 DEF Opened
        <5> QED
          BY <3>2, <4>2, <4>3, <4>4, <5>3 DEF ParsedElement
      <4>5. CASE ~IsString(q[i])
        <5>1. o[i] = q[i]
          BY <1>1, <1>2, <4>5, OpenedIs DEF JsonOrNone
        <5> QED
          BY <3>2, <5>1
      <4> QED
        BY <4>4, <4>5
    <3> QED
      BY <3>1, <3>2
  <2> QED
    BY <1>2, <2>1 DEF Filled, s
<1> QED
  BY <1>6, <1>8, <1>9, <1>10, <1>11 DEF n, o, q, z

LEMMA EmptiedStays ==
  ASSUME NEW q, IsListed(q), \A i \in DOMAIN q : q[i] # Str("")
  PROVE  Emptied(Arr(q)) = Arr(q)
<1>1. {i \in DOMAIN q : q[i] # Str("")} = DOMAIN q
  OBVIOUS
<1>2. AtPlaces(q, DOMAIN q) = q
  BY AtAllPlaces
<1>3. Emptied(Arr(q)) = Arr(AtPlaces(q, {i \in DOMAIN q : q[i] # Str("")}))
  BY Encoded DEF Emptied
<1> QED
  BY <1>1, <1>2, <1>3

LEMMA NestedLone ==
  ASSUME NEW u, IsRecord(u), NEW z, IsJson(z), ~IsString(z), ~IsArr(z),
         Opened(At(u, "edits")) = z
  PROVE  Nested(u) = <<z>>
<1> DEFINE s == SentList(z)
           o == OpenedList(s)
           q == <<z>>
<1>1. JsonOrNone(z) /\ z \notin {Absent, Str("")} /\ Opened(z) = z
  BY AbsentIsNone, KindsDiffer, OpenedIs DEF JsonOrNone
<1>2. s = q /\ IsListed(q) /\ DOMAIN q = {1} /\ q[1] = z
  BY <1>1, SentListIs, SingleIs
<1>3. Nested(u) = AtPlaces(o, Filled(o))
  BY NestedIs
<1> HIDE DEF s, q
<1>4. o = q
  <2>1. o = [i \in DOMAIN q |-> Opened(q[i])]
    BY <1>2 DEF OpenedList
  <2>2. [i \in DOMAIN q |-> Opened(q[i])] = [i \in DOMAIN q |-> q[i]]
    BY <1>1, <1>2
  <2>3. q = [i \in DOMAIN q |-> q[i]]
    BY <1>2, ListIs DEF IsListed
  <2> QED
    BY <2>1, <2>2, <2>3
<1> HIDE DEF o
<1>5. Filled(q) = DOMAIN q
  BY <1>1, <1>2 DEF Filled
<1>6. AtPlaces(q, DOMAIN q) = q
  BY <1>2, AtAllPlaces
<1> QED
  BY <1>3, <1>4, <1>5, <1>6 DEF q

LEMMA EmptyLists == ASSUME NEW p, NEW q, IsListed(p), IsListed(q), Len(p) = 0, Len(q) = 0 PROVE p = q
<1>1. \A i \in 1 .. Len(p) : p[i] = q[i]
  OBVIOUS
<1> QED
  BY <1>1, SameList

LEMMA EmptyIs == Len(<<>>) = 0 /\ DOMAIN <<>> = {} /\ IsListed(<<>>)
<1>1. Len(<<>>) = 0
  OBVIOUS
<1>2. DOMAIN <<>> = {}
  OBVIOUS
<1> QED
  BY <1>1, <1>2, NoChanges

LEMMA NestedNone ==
  ASSUME NEW u, IsRecord(u), At(u, "edits") \in {Absent, Str("")}
  PROVE  Nested(u) = <<>>
<1> DEFINE x == At(u, "edits")
           o == OpenedList(SentList(Opened(x)))
<1>1. Opened(x) = x /\ JsonOrNone(x)
  <2>1. JsonOrNone(x) /\ (x = Absent => ~IsString(x))
    BY AtIsJson, KindsDiffer DEF IsRecord
  <2> QED
    BY <2>1, OpenedIs
<1>2. SentList(x) = <<>>
  BY <1>1, SentListIs
<1>3. Nested(u) = AtPlaces(o, Filled(o))
  BY NestedIs
<1> DEFINE e == <<>>
<1>4. IsListed(e) /\ Len(e) = 0 /\ DOMAIN e = {}
  BY EmptyIs
<1>e. o = OpenedList(e)
  BY <1>1, <1>2
<1> HIDE DEF e, o
<1>5. IsListed(o) /\ Len(o) = 0 /\ DOMAIN o = {}
  <2>1. \A i \in DOMAIN e : IsJson(e[i])
    BY <1>4
  <2>2. IsListed(o) /\ Len(o) = Len(e) /\ DOMAIN o = DOMAIN e
    BY <1>4, <1>e, <2>1, OpenedListIs
  <2> QED
    BY <1>4, <2>2
<1>8. o = e
  BY <1>4, <1>5, EmptyLists
<1>6. Filled(o) = DOMAIN o
  BY <1>5 DEF Filled
<1>7. AtPlaces(o, DOMAIN o) = o
  BY <1>5, AtAllPlaces
<1> QED
  BY <1>3, <1>6, <1>7, <1>8 DEF e

\* The elements of the edits that were sent, but for those without a field.
Kept(u) == {i \in DOMAIN Nested(u) : ~Hollow(Nested(u)[i])}

\* Edits that no rule before the aliases makes an array.
IsLone(x) == x \in {Absent, Str(""), Null, Num} \/ (IsObj(x) /\ ~IsEdit(x))

\* What the rules before the aliases make of the edits.
NormalOf(u, y) ==
  LET x == At(u, "edits") IN
  \/ /\ y = Arr(AtPlaces(Nested(u), Kept(u))) /\ \A i \in DOMAIN Nested(u) : ~IsString(Nested(u)[i])
     /\ SentAlone(u) => DOMAIN Nested(u) = {1} /\ IsEdit(Nested(u)[1])
  \/ /\ y = x /\ IsLone(x) /\ SentAlone(u)
     /\ x \in {Absent, Str("")} => Nested(u) = <<>>
     /\ x \notin {Absent, Str("")} => Nested(u) = <<x>>

LEMMA NormalIs ==
  ASSUME NEW u, IsRecord(u), ~Unparsable(Emptied(Parsed(At(u, "edits"))))
  PROVE  NormalOf(u, NormalEdits(At(u, "edits")))
<1> DEFINE x == At(u, "edits")
           y == Opened(x)
           m == Emptied(Normalized(Emptied(Parsed(x))))
           n == Nested(u)
<1>1. JsonOrNone(x) /\ JsonOrNone(y)
  BY AtIsJson, OpenedIs DEF IsRecord
<1>2. NormalEdits(x) = Pruned(m)
  BY DEF NormalEdits
<1>3. \A q : Pruned(Arr(q)) = Arr(AtPlaces(q, {i \in DOMAIN q : ~Hollow(q[i])}))
  BY Encoded DEF Pruned
<1>4. SentAlone(u) <=> ~IsArr(y)
  BY DEF SentAlone
<1>5. x.t = "enc" => y = x.v
  BY <1>1, OpenedIs
<1>6. x.t # "enc" => y = x
  BY DEF Opened
<1>7. Lenient(x) => x.t = "enc"
  BY Encoded
<1>8. IsListed(n)
  BY NestedListed
<1> HIDE DEF y, n
<1>9. CASE IsArr(y)
  <2>1. IsJson(y)
    BY <1>1, <1>9, KindsDiffer DEF JsonOrNone
  <2>2. Parsed(x) = y
    <3>1. CASE x.t = "enc"
      <4>1. Lenient(x)
        <5>1. CASE ~Lenient(x)
          <6>1. Parsed(x) = x /\ ~IsArr(x) /\ IsString(x) /\ x # Str("")
            BY <3>1, <5>1, KindsDiffer DEF Parsed, IsString, Str
          <6>2. Emptied(x) = x
            BY <6>1 DEF Emptied
          <6>3. ~EncodesEdit(x)
            BY <5>1 DEF EncodesEdit
          <6>4. Unparsable(x)
            BY <6>1, <6>3 DEF Unparsable
          <6> QED
            BY <6>1, <6>2, <6>4
        <5> QED
          BY <5>1
      <4> QED
        BY <1>5, <1>9, <3>1, <4>1 DEF Parsed
    <3>2. CASE x.t # "enc"
      BY <1>6, <1>7, <3>2 DEF Parsed
    <3> QED
      BY <3>1, <3>2
  <2> DEFINE o == OpenedList(y.e)
             a == AtPlaces(o, Filled(o))
  <2>3. /\ IsListed(a) /\ \A i \in DOMAIN a : IsJson(a[i]) /\ ~IsString(a[i])
        /\ Emptied(Normalized(Emptied(y))) = Arr(a)
    BY <1>9, <2>1, <2>2, NormalOfArray
  <2>4. n = a
    <3>1. SentList(y) = y.e
      BY <1>1, <1>9, SentListIs
    <3> QED
      BY <3>1, NestedIs DEF n, y
  <2> HIDE DEF a
  <2>5. m = Arr(n) /\ \A i \in DOMAIN n : ~IsString(n[i])
    BY <2>2, <2>3, <2>4
  <2> HIDE DEF m
  <2>6. NormalEdits(x) = Arr(AtPlaces(n, {i \in DOMAIN n : ~Hollow(n[i])}))
    BY <1>2, <1>3, <2>5
  <2> QED
    BY <1>4, <1>9, <2>5, <2>6 DEF NormalOf, Kept, n
<1>10. CASE ~IsArr(y)
  <2>1. ~IsArr(x)
    BY <1>6, <1>10 DEF IsArr
  <2>2. Parsed(x) = x /\ Emptied(x) = x
    BY <1>5, <1>7, <1>10, <2>1 DEF Parsed, Emptied
  <2>3. ~Unparsable(x)
    BY <2>2
  <2>4. m = Emptied(Normalized(x))
    BY <2>2
  <2> HIDE DEF m
  <2>5. ASSUME NEW z, IsEdit(z), IsJson(z), y = z, Normalized(x) = Arr(<<z>>)
        PROVE  NormalOf(u, NormalEdits(x))
    <3>1. IsObj(z) /\ ~IsString(z) /\ ~IsArr(z) /\ z # Str("")
      BY <2>5, EditIsObj, KindsDiffer
    <3>2. n = <<z>>
      BY <2>5, <3>1, NestedLone DEF n, y
    <3>3. DOMAIN n = {1} /\ n[1] = z
      BY <3>2
    <3>4. m = Arr(n)
      <4>1. Emptied(Arr(n)) = Arr(n)
        BY <1>8, <3>1, <3>3, EmptiedStays
      <4> QED
        BY <2>4, <2>5, <3>2, <4>1
    <3>5. NormalEdits(x) = Arr(AtPlaces(n, {i \in DOMAIN n : ~Hollow(n[i])}))
      BY <1>2, <1>3, <3>4
    <3> QED
      BY <2>5, <3>1, <3>3, <3>5 DEF NormalOf, Kept, n
  <2>6. CASE EncodesEdit(x)
    <3>1. Normalized(x) = Arr(<<x.v>>) /\ IsEdit(x.v) /\ x.t = "enc"
      BY <1>1, <1>7, <2>3, <2>6, NormalizedIs DEF EncodesEdit
    <3>2. IsJson(x.v) /\ y = x.v
      BY <1>1, <3>1, OpenedIs DEF y
    <3> QED
      BY <2>5, <3>1, <3>2
  <2>7. CASE IsEdit(x)
    <3>1. Normalized(x) = Arr(<<x>>)
      BY <1>1, <2>3, <2>7, NormalizedIs
    <3>2. IsJson(x) /\ y = x
      <4>1. IsObj(x)
        BY <2>7, EditIsObj
      <4> QED
        BY <1>1, <1>6, <4>1, KindsDiffer DEF IsObj, JsonOrNone
    <3> QED
      BY <2>5, <2>7, <3>1, <3>2
  <2>8. CASE ~EncodesEdit(x) /\ ~IsEdit(x)
    <3>1. Normalized(x) = x
      BY <1>1, <2>1, <2>3, <2>8, NormalizedIs
    <3>2. NormalEdits(x) = x
      BY <1>2, <2>1, <2>4, <3>1 DEF Emptied, Pruned
    <3>3. IsString(x) => x = Str("")
      BY <2>3, <2>8 DEF Unparsable
    <3>4. IsLone(x)
      BY <1>1, <2>1, <2>8, <3>3, JsonIs DEF IsLone, JsonOrNone
    <3>5. x \in {Absent, Str("")} => n = <<>>
      BY NestedNone DEF n
    <3>6. x \notin {Absent, Str("")} => n = <<x>>
      <4>1. ASSUME x \notin {Absent, Str("")} PROVE n = <<x>>
        <5>1. ~IsString(x) /\ ~IsArr(x) /\ IsJson(x)
          BY <1>1, <2>1, <3>3, <4>1 DEF JsonOrNone
        <5>2. y = x
          BY <1>6, <5>1 DEF IsString
        <5> QED
          BY <5>1, <5>2, NestedLone DEF n, y
      <4> QED
        BY <4>1
    <3> QED
      BY <1>4, <1>10, <3>2, <3>4, <3>5, <3>6 DEF NormalOf, n
  <2> QED
    BY <2>6, <2>7, <2>8
<1> QED
  BY <1>9, <1>10

-----------------------------------------------------------------------------
(* What the rules on each edit leave alone.                                  *)

Touched(rule) ==
  CASE rule = "alias-oldText" -> NamesOf("oldText")
    [] rule = "alias-newText" -> NamesOf("newText")
    [] rule = "alias-nested-path" -> NamesOf("path")
    [] rule = "infer-deletion-missing-newtext" -> {"newText"}
    [] rule = "infer-insertion-missing-oldtext" -> {"oldText"}

LEMMA TouchedAre ==
  /\ Touched("alias-oldText") = NamesOf("oldText") /\ Touched("alias-newText") = NamesOf("newText")
  /\ Touched("alias-nested-path") = NamesOf("path")
  /\ Touched("infer-deletion-missing-newtext") = {"newText"}
  /\ Touched("infer-insertion-missing-oldtext") = {"oldText"}
BY DEF Touched

LEMMA EachRulesAre ==
  /\ "alias-oldText" \in EachRules /\ "alias-newText" \in EachRules
  /\ "alias-nested-path" \in EachRules /\ "infer-deletion-missing-newtext" \in EachRules
  /\ "infer-insertion-missing-oldtext" \in EachRules
BY DEF EachRules

\* What a step of a rule is.
LEMMA StepsAre ==
  ASSUME NEW x, IsRecord(x)
  PROVE  /\ Step("alias-oldText", x) = After(ExactAlias(x, "oldText"), x)
         /\ Step("alias-newText", x) = After(ExactAlias(x, "newText"), x)
         /\ Step("alias-nested-path", x) = After(ExactAlias(x, "path"), x)
         /\ Step("infer-deletion-missing-newtext", x) = After(InferDeletion(x), x)
         /\ Step("infer-insertion-missing-oldtext", x) = After(InferInsertion(x), x)
BY DEF Step, Rule, IsRecord

\* y is x with an alias of k renamed, or as it was.
Renamed(x, y, k) ==
  /\ IsRecord(y)
  /\ \/ y = x /\ ~(Missing(x, k) /\ Given(x, k) # {})
     \/ /\ Missing(x, k) /\ Given(x, k) # {}
        /\ LET a == AliasesOf(k)[Min(Given(x, k))] IN
           a \in NamesOf(k) \ {k} /\ IsText(At(x, a)) /\ Moved(x, y, k, a)

LEMMA AliasRenames ==
  ASSUME NEW x, IsRecord(x), NEW k \in Named
  PROVE  Renamed(x, After(ExactAlias(x, k), x), k)
<1> DEFINE r == ExactAlias(x, k)
<1>1. /\ r.hit \in BOOLEAN
      /\ r.hit <=> Missing(x, k) /\ Given(x, k) # {}
      /\ r.hit => LET a == AliasesOf(k)[Min(Given(x, k))] IN
                  a \in NamesOf(k) \ {k} /\ IsText(At(x, a)) /\ Moved(x, r.v, k, a)
  BY ExactAliasIs
<1> HIDE DEF r
<1>2. CASE r.hit
  <2>1. After(r, x) = r.v
    BY <1>2 DEF After
  <2>2. IsRecord(r.v)
    BY <1>1, <1>2 DEF Moved
  <2> QED
    BY <1>1, <1>2, <2>1, <2>2 DEF Renamed, r
<1>3. CASE ~r.hit
  <2>1. After(r, x) = x
    BY <1>3 DEF After
  <2> QED
    BY <1>1, <1>3, <2>1 DEF Renamed, r
<1> QED
  BY <1>1, <1>2, <1>3

LEMMA StepTouches ==
  ASSUME NEW rule \in EachRules, NEW x, IsRecord(x)
  PROVE  /\ IsRecord(Step(rule, x))
         /\ \A j : j \notin Touched(rule) => At(Step(rule, x), j) = At(x, j)
<1>1. ASSUME NEW k \in Named, NEW j, j \notin NamesOf(k)
      PROVE  At(After(ExactAlias(x, k), x), j) = At(x, j)
  <2>1. Renamed(x, After(ExactAlias(x, k), x), k)
    BY AliasRenames
  <2>2. k \in NamesOf(k)
    BY AliasPairs
  <2> QED
    BY <1>1, <2>1, <2>2 DEF Renamed, Moved
<1>2. ASSUME NEW j, j # "newText" PROVE At(After(InferDeletion(x), x), j) = At(x, j)
  BY <1>2, InferDeletionIs DEF After, Set
<1>3. ASSUME NEW j, j # "oldText" PROVE At(After(InferInsertion(x), x), j) = At(x, j)
  BY <1>3, InferInsertionIs DEF After, Set
<1>4. IsRecord(Step(rule, x))
  BY StepIs DEF IsRecord
<1>5. "path" \in Named /\ "oldText" \in Named /\ "newText" \in Named
  BY DEF Named
<1>6. ASSUME NEW j, j \notin Touched(rule) PROVE At(Step(rule, x), j) = At(x, j)
  <2>1. CASE rule = "alias-oldText"
    BY <1>1, <1>5, <1>6, <2>1, TouchedAre, StepsAre
  <2>2. CASE rule = "alias-newText"
    BY <1>1, <1>5, <1>6, <2>2, TouchedAre, StepsAre
  <2>3. CASE rule = "alias-nested-path"
    BY <1>1, <1>5, <1>6, <2>3, TouchedAre, StepsAre
  <2>4. CASE rule = "infer-deletion-missing-newtext"
    BY <1>2, <1>6, <2>4, TouchedAre, StepsAre
  <2>5. CASE rule = "infer-insertion-missing-oldtext"
    BY <1>3, <1>6, <2>5, TouchedAre, StepsAre
  <2> QED
    BY <2>1, <2>2, <2>3, <2>4, <2>5 DEF EachRules
<1> QED
  BY <1>4, <1>6

-----------------------------------------------------------------------------
(* The path of an edit.                                                      *)

LEMMA PathForIs ==
  ASSUME NEW x
  PROVE  /\ Missing(x, "path") /\ Given(x, "path") = {} => PathFor(x) = {}
         /\ Missing(x, "path") /\ Given(x, "path") # {} =>
              PathFor(x) = {At(x, AliasesOf("path")[Min(Given(x, "path"))])}
         /\ ~Missing(x, "path") /\ IsText(At(x, "path")) => PathFor(x) = {At(x, "path")}
         /\ ~Missing(x, "path") /\ ~IsText(At(x, "path")) => PathFor(x) = {}
<1>1. CASE Missing(x, "path")
  <2>1. PathFor(x) = IF Given(x, "path") = {} THEN {}
                     ELSE {At(x, AliasesOf("path")[Min(Given(x, "path"))])}
    BY <1>1 DEF PathFor, Missing, Given, IsText
  <2> QED
    BY <1>1, <2>1
<1>2. CASE ~Missing(x, "path")
  <2> DEFINE names == <<"path">>
             given == {i \in DOMAIN names : IsString(At(x, names[i])) /\ At(x, names[i]) # Str("")}
  <2>1. PathFor(x) = IF given = {} THEN {} ELSE {At(x, names[Min(given)])}
    BY <1>2 DEF PathFor, Missing
  <2>2. DOMAIN names = {1} /\ names[1] = "path"
    BY SingleIs
  <2>3. IsText(At(x, "path")) => given = {1}
    BY <2>2 DEF IsText
  <2>4. ~IsText(At(x, "path")) => given = {}
    BY <2>2 DEF IsText
  <2>5. Min({1}) = 1
    BY DEF Min
  <2> HIDE DEF given, names
  <2> QED
    BY <1>2, <2>1, <2>2, <2>3, <2>4, <2>5
<1> QED
  BY <1>1, <1>2

\* The path depends on the names it has.
SamePaths(x, y) == \A j \in NamesOf("path") : At(y, j) = At(x, j)

LEMMA PathForSame ==
  ASSUME NEW x, NEW y, SamePaths(x, y)
  PROVE  PathFor(y) = PathFor(x)
<1>1. At(y, "path") = At(x, "path") /\ Given(y, "path") = Given(x, "path")
  <2>1. \A i \in DOMAIN AliasesOf("path") : AliasesOf("path")[i] \in NamesOf("path")
    BY AliasPairs DEF Named, Alias1, Alias2
  <2>2. "path" \in NamesOf("path")
    BY AliasPairs DEF Named
  <2> QED
    BY <2>1, <2>2 DEF SamePaths, Given
<1>2. Given(x, "path") # {} => AliasesOf("path")[Min(Given(x, "path"))] \in NamesOf("path")
  <2>1. DOMAIN AliasesOf("path") = {1, 2}
    BY AliasPairs DEF Named
  <2>2. Given(x, "path") \subseteq {1, 2}
    BY <2>1 DEF Given
  <2>3. Given(x, "path") # {} => Min(Given(x, "path")) \in {1, 2}
    BY <2>2, LeastOfTwo
  <2>4. AliasesOf("path")[1] \in NamesOf("path") /\ AliasesOf("path")[2] \in NamesOf("path")
    BY AliasPairs DEF Named, Alias1, Alias2
  <2> QED
    BY <2>3, <2>4
<1>3. Missing(y, "path") <=> Missing(x, "path")
  BY <1>1 DEF Missing
<1>4. CASE Missing(x, "path") /\ Given(x, "path") # {}
  <2> DEFINE a == AliasesOf("path")[Min(Given(x, "path"))]
  <2>1. At(y, a) = At(x, a)
    BY <1>2, <1>4 DEF SamePaths
  <2>2. PathFor(y) = {At(y, AliasesOf("path")[Min(Given(y, "path"))])}
    BY <1>1, <1>3, <1>4, PathForIs
  <2>3. PathFor(y) = {At(y, a)}
    BY <1>1, <2>2
  <2>4. PathFor(x) = {At(x, a)}
    BY <1>4, PathForIs
  <2> QED
    BY <2>1, <2>3, <2>4
<1>5. CASE ~(Missing(x, "path") /\ Given(x, "path") # {})
  <2>1. CASE Missing(x, "path")
    BY <1>1, <1>3, <1>5, <2>1, PathForIs
  <2>2. CASE ~Missing(x, "path")
    BY <1>1, <1>3, <2>2, PathForIs
  <2> QED
    BY <2>1, <2>2
<1> QED
  BY <1>4, <1>5

\* Once its alias is renamed, the path of an edit is under its own name.
LEMMA RenamedPath ==
  ASSUME NEW x, NEW y, Renamed(x, y, "path")
  PROVE  PathFor(x) = IF IsText(At(y, "path")) THEN {At(y, "path")} ELSE {}
<1>1. CASE Missing(x, "path") /\ Given(x, "path") # {}
  <2> DEFINE a == AliasesOf("path")[Min(Given(x, "path"))]
  <2>1. IsText(At(x, a)) /\ Moved(x, y, "path", a)
    BY <1>1 DEF Renamed
  <2>2. PathFor(x) = {At(x, a)}
    BY <1>1, PathForIs
  <2> HIDE DEF a
  <2>3. At(y, "path") = At(x, a)
    BY <2>1 DEF Moved
  <2> QED
    BY <2>1, <2>2, <2>3
<1>2. CASE ~(Missing(x, "path") /\ Given(x, "path") # {})
  <2>1. y = x
    BY <1>2 DEF Renamed
  <2>2. Missing(x, "path") => ~IsText(At(x, "path"))
    BY KindsDiffer DEF Missing, IsText
  <2> QED
    BY <1>2, <2>1, <2>2, PathForIs
<1> QED
  BY <1>1, <1>2

LEMMA FivePath ==
  ASSUME NEW x, IsJson(x)
  PROVE  PathFor(x) = IF IsText(At(Five(x), "path")) THEN {At(Five(x), "path")} ELSE {}
<1>1. CASE ~IsObj(x)
  <2>1. Five(x) = x
    BY <1>1 DEF Five, Step
  <2>2. \A k : At(x, k) = Absent
    BY <1>1, NoFields
  <2>3. Missing(x, "path") /\ Given(x, "path") = {} /\ ~IsText(At(x, "path"))
    BY <2>2, KindsDiffer DEF Missing, Given, IsText
  <2> QED
    BY <2>1, <2>3, PathForIs
<1>2. CASE IsObj(x)
  <2> DEFINE x1 == Step("alias-oldText", x)
             x2 == Step("alias-newText", x1)
             x3 == Step("alias-nested-path", x2)
             x4 == Step("infer-deletion-missing-newtext", x3)
             x5 == Step("infer-insertion-missing-oldtext", x4)
  <2>0. Five(x) = x5
    BY DEF Five
  <2>n. \A j \in NamesOf("path") : j \notin NamesOf("oldText") /\ j \notin NamesOf("newText")
    BY NamesDiffer DEF TextNames, Named
  <2>1. IsRecord(x)
    BY <1>2 DEF IsRecord
  <2>2. IsRecord(x1) /\ SamePaths(x, x1)
    BY <2>1, <2>n, EachRulesAre, TouchedAre, StepTouches DEF SamePaths
  <2> HIDE DEF x1
  <2>3. IsRecord(x2) /\ SamePaths(x1, x2)
    BY <2>2, <2>n, EachRulesAre, TouchedAre, StepTouches DEF SamePaths
  <2> HIDE DEF x2
  <2>4. IsRecord(x3) /\ Renamed(x2, x3, "path")
    BY <2>3, EachRulesAre, StepTouches, StepsAre, AliasRenames DEF Named
  <2> HIDE DEF x3
  <2>5. IsRecord(x4) /\ At(x4, "path") = At(x3, "path")
    BY <2>4, EachRulesAre, TouchedAre, StepTouches
  <2> HIDE DEF x4
  <2>6. At(x5, "path") = At(x4, "path")
    BY <2>5, EachRulesAre, TouchedAre, StepTouches
  <2> HIDE DEF x5
  <2>7. PathFor(x) = PathFor(x2)
    BY <2>2, <2>3, PathForSame
  <2>8. PathFor(x2) = IF IsText(At(x3, "path")) THEN {At(x3, "path")} ELSE {}
    BY <2>4, RenamedPath
  <2> QED
    BY <2>0, <2>5, <2>6, <2>7, <2>8
<1> QED
  BY <1>1, <1>2

\* The paths that edits name are those they name once each rule saw them.
LEMMA PathsOfEdits ==
  ASSUME NEW x, IsJson(x), IsArr(x)
  PROVE  PathsIn(EachEdit(x)) = UNION {PathFor(x.e[i]) : i \in DOMAIN x.e}
<1> DEFINE y == EachEdit(x)
<1>1. \A i \in DOMAIN x.e : IsJson(x.e[i])
  BY ArrIs
<1>2. IsArr(y) /\ DOMAIN y.e = DOMAIN x.e /\ \A i \in DOMAIN x.e : y.e[i] = Five(x.e[i])
  BY EachEditOf DEF JsonOrNone
<1> HIDE DEF y
<1>3. \A i \in DOMAIN x.e :
        PathFor(x.e[i]) = IF IsText(At(y.e[i], "path")) THEN {At(y.e[i], "path")} ELSE {}
  BY <1>1, <1>2, FivePath
<1>4. \A p : p \in PathsIn(y) <=> \E i \in DOMAIN x.e : p \in PathFor(x.e[i])
  BY <1>2, <1>3 DEF PathsIn
<1> QED
  BY <1>4 DEF y

\* Edits without a field name no path.
LEMMA PathsOfSent ==
  ASSUME NEW u, IsRecord(u), NEW n, n = Nested(u), NEW q, q = AtPlaces(n, Kept(u))
  PROVE  UNION {PathFor(q[i]) : i \in DOMAIN q} = UNION {PathFor(x) : x \in Range(n)}
<1>1. IsListed(n) /\ Kept(u) \subseteq DOMAIN n
  BY NestedListed DEF Kept
<1>2. PICK up : IsOrder(up, Kept(u)) /\ DOMAIN q = DOMAIN up /\ \A k \in DOMAIN up : q[k] = n[up[k]]
  BY <1>1, AtPlacesIs
<1>3. ASSUME NEW i \in DOMAIN n, i \notin Kept(u) PROVE PathFor(n[i]) = {}
  <2>1. Hollow(n[i]) /\ IsJson(n[i])
    BY <1>3, NestedListed DEF Kept
  <2>2. \A k : At(n[i], k) = Absent
    BY <2>1 DEF Hollow, At
  <2>3. Missing(n[i], "path") /\ Given(n[i], "path") = {}
    BY <2>2, KindsDiffer DEF Missing, Given, IsText
  <2> QED
    BY <2>3, PathForIs
<1>6. /\ \A k \in DOMAIN up : up[k] \in DOMAIN n
      /\ \A i \in Kept(u) : \E k \in DOMAIN up : up[k] = i
  BY <1>1, <1>2 DEF IsOrder
<1>4. \A p : (\E i \in DOMAIN q : p \in PathFor(q[i])) <=> (\E i \in DOMAIN n : p \in PathFor(n[i]))
  <2>1. ASSUME NEW p, NEW i \in DOMAIN q, p \in PathFor(q[i]) PROVE \E j \in DOMAIN n : p \in PathFor(n[j])
    BY <1>2, <1>6, <2>1
  <2>2. ASSUME NEW p, NEW i \in DOMAIN n, p \in PathFor(n[i]) PROVE \E j \in DOMAIN q : p \in PathFor(q[j])
    <3>1. i \in Kept(u)
      BY <1>3, <2>2
    <3> QED
      BY <1>2, <1>6, <2>2, <3>1
  <2> QED
    BY <2>1, <2>2
<1>5. Range(n) = {n[i] : i \in DOMAIN n}
  BY DEF Range
<1> QED
  BY <1>4, <1>5

-----------------------------------------------------------------------------
(* The path at the top level.                                                *)

\* Where the paths at the top level of v come from: u, or some others.
PathsFrom(u, v, others) ==
  \A n \in NamesOf("path") :
    At(v, n) \in {Absent} \cup {At(u, m) : m \in NamesOf("path")} \cup others

LEMMA PathsFromSame ==
  ASSUME NEW u, NEW v, NEW w, NEW others, PathsFrom(u, v, others),
         \A j \in NamesOf("path") : At(w, j) = At(v, j)
  PROVE  PathsFrom(u, w, others)
BY DEF PathsFrom

LEMMA PathsFromMoved ==
  ASSUME NEW u, NEW v, NEW w, NEW others, PathsFrom(u, v, others),
         \A j \in NamesOf("path") : \E k \in NamesOf("path") : At(w, j) \in {Absent, At(v, k)}
  PROVE  PathsFrom(u, w, others)
BY DEF PathsFrom

\* The paths a hoist may add.
Hoisted(b) == IF HoistNestedPath(b).hit THEN PathsIn(At(b, "edits")) ELSE {}

LEMMA PreparedPath ==
  ASSUME NEW u, IsRecord(u), NEW a, NEW b, NEW c, NEW d, Prepares(u, a, b, c, d)
  PROVE  /\ PathsFrom(u, d, Hoisted(b))
         /\ At(b, "edits") = EachEdit(NormalEdits(At(u, "edits")))
         /\ Hoisted(b) # {} => IsArr(At(b, "edits")) /\ \E p : IsText(p) /\ Hoisted(b) = {p}
<1> DEFINE w == After(ExactAlias(a, "path"), a)
           others == Hoisted(b)
           r == HoistNestedPath(b)
<1>n. "path" \in Named /\ "path" \in NamesOf("path") /\ "edits" \notin NamesOf("path")
  BY AliasPairs, NamesDiffer DEF Named, TextNames
<1>1. Set(u, a, "edits", NormalEdits(At(u, "edits")))
  BY DEF Prepares
<1>2. PathsFrom(u, a, others)
  <2>1. PathsFrom(u, u, others)
    BY DEF PathsFrom
  <2> QED
    BY <1>1, <1>n, <2>1, PathsFromSame DEF Set
<1>3. Renamed(a, w, "path")
  BY <1>1, <1>n, AliasRenames DEF Set
<1>4. Set(w, b, "edits", EachEdit(At(a, "edits")))
  BY DEF Prepares
<1> HIDE DEF w, others
<1>5. PathsFrom(u, w, others)
  <2>1. CASE w = a
    BY <1>2, <2>1
  <2>2. CASE w # a
    <3>1. PICK m \in NamesOf("path") : Moved(a, w, "path", m)
      BY <1>3, <2>2 DEF Renamed
    <3>2. \A j \in NamesOf("path") : \E k \in NamesOf("path") : At(w, j) \in {Absent, At(a, k)}
      BY <3>1 DEF Moved
    <3> QED
      BY <1>2, <3>2, PathsFromMoved
  <2> QED
    BY <2>1, <2>2
<1>6. PathsFrom(u, b, others) /\ IsRecord(b)
  BY <1>4, <1>5, <1>n, PathsFromSame DEF Set
<1>7. At(b, "edits") = EachEdit(NormalEdits(At(u, "edits")))
  BY <1>1, <1>4 DEF Set
<1>8. /\ r.hit \in BOOLEAN
      /\ r.hit => /\ IsArr(At(b, "edits"))
                  /\ \E p : /\ PathsIn(At(b, "edits")) = {p} /\ IsText(p) /\ At(r.v, "path") = p
                  /\ \A j : j \notin {"path", "edits"} => At(r.v, j) = At(b, j)
  BY <1>6, HoistIs
<1>9. c = After(r, b) /\ d = After(FlatFold(c), c) /\ IsRecord(c)
  BY DEF Prepares
<1>10. others = IF r.hit THEN PathsIn(At(b, "edits")) ELSE {}
  BY DEF others, Hoisted
<1> HIDE DEF r
<1>11. PathsFrom(u, c, others)
  <2>1. CASE ~r.hit
    BY <1>6, <1>9, <2>1 DEF After
  <2>2. CASE r.hit
    <3>1. c = r.v /\ At(c, "path") \in others
      BY <1>8, <1>9, <1>10, <2>2 DEF After
    <3>2. \A j \in NamesOf("path") : j # "path" => At(c, j) = At(b, j)
      BY <1>8, <1>n, <2>2, <3>1
    <3> QED
      BY <1>6, <3>1, <3>2 DEF PathsFrom
  <2> QED
    BY <1>8, <2>1, <2>2
<1>12. \A j \in NamesOf("path") : At(d, j) = At(c, j)
  <2>1. \A j \in NamesOf("path") : j # "edits" /\ j \notin FoldedFields
    BY AliasesAre DEF FoldedFields
  <2>2. /\ FlatFold(c).hit \in BOOLEAN
        /\ FlatFold(c).hit => \A j : j # "edits" =>
             At(FlatFold(c).v, j) = IF j \in FoldedFields THEN Absent ELSE At(c, j)
    BY <1>9, FlatFoldIs
  <2>3. CASE FlatFold(c).hit
    BY <1>9, <2>1, <2>2, <2>3 DEF After
  <2>4. CASE ~FlatFold(c).hit
    BY <1>9, <2>4 DEF After
  <2> QED
    BY <2>2, <2>3, <2>4
<1>13. PathsFrom(u, d, others)
  BY <1>11, <1>12, PathsFromSame
<1>14. others # {} => r.hit
  BY <1>8, <1>10
<1> QED
  BY <1>7, <1>8, <1>10, <1>13, <1>14 DEF others

LEMMA ChainPath ==
  ASSUME NEW u, NEW others, NEW v, NEW w, NEW g, IsChain(g, v, w), PathsFrom(u, v, others)
  PROVE  PathsFrom(u, w, others)
<1> DEFINE S == {k \in 0 .. MaxPasses : PathsFrom(u, g[k], others)}
<1>1. MaxPasses \in Nat
  BY RepairAssumption
<1>2. 0 \in S
  BY <1>1 DEF IsChain
<1>3. ASSUME NEW x, NEW y, Passed(x, y), PathsFrom(u, x, others) PROVE PathsFrom(u, y, others)
  <2>1. Mended(x, y, "path")
    BY <1>3 DEF Passed, MendsRoot
  <2>2. \A j \in NamesOf("path") : \E k \in NamesOf("path") : At(y, j) \in {Absent, At(x, k)}
    BY <2>1 DEF Mended
  <2> QED
    BY <1>3, <2>2, PathsFromMoved
<1>4. ASSUME NEW k \in 0 .. MaxPasses - 1, k \in S PROVE k + 1 \in S
  <2>1. k + 1 \in 1 .. MaxPasses /\ (k + 1) - 1 = k /\ k + 1 \in 0 .. MaxPasses
    BY <1>1
  <2>2. g[k + 1] = g[k] \/ Passed(g[k], g[k + 1])
    BY <2>1 DEF IsChain
  <2> QED
    BY <1>3, <1>4, <2>1, <2>2
<1> HIDE DEF S
<1>5. MaxPasses \in S
  BY <1>1, <1>2, <1>4, UpTo
<1> QED
  BY <1>5 DEF S, IsChain

\* The path of repaired arguments.
LEMMA MadePath ==
  ASSUME NEW u, NEW w, Makes(u, w), Valid(Convert(w))
  PROVE  LET path == At(Convert(w), "path") IN
         path \in PathsGiven(u) \/ UNION {PathFor(x) : x \in Range(Nested(u))} = {path}
<1> DEFINE path == At(Convert(w), "path")
           x == At(u, "edits")
           n == Nested(u)
<1>0. IsRecord(u) /\ ~Unparsable(Emptied(Parsed(x)))
  BY DEF Makes
<1>1. PICK a, b, c, d : Prepares(u, a, b, c, d) /\ Repairs(d, w)
  BY DEF Makes
<1>2. /\ PathsFrom(u, d, Hoisted(b)) /\ At(b, "edits") = EachEdit(NormalEdits(x))
      /\ Hoisted(b) # {} => IsArr(At(b, "edits")) /\ \E p : IsText(p) /\ Hoisted(b) = {p}
  BY <1>0, <1>1, PreparedPath
<1>3. PICK g : IsChain(g, d, w)
  BY <1>1 DEF Repairs
<1>4. PathsFrom(u, w, Hoisted(b))
  BY <1>2, <1>3, ChainPath
<1>5. IsRecord(w) /\ Ends(w)
  BY <1>1 DEF Repairs
<1>n. "path" \in Named /\ "path" \in NamesOf("path")
  BY AliasPairs DEF Named
<1>6. At(w, "path") # Null
  <2>1. CASE Valid(w)
    BY <2>1, KindsDiffer DEF Valid
  <2>2. CASE Still(w)
    BY <2>2 DEF Still, Fixable
  <2> QED
    BY <1>5, <2>1, <2>2 DEF Ends
<1>7. path = AsText(At(w, "path")) /\ IsString(path)
  <2>1. path = AsText(At(w, "path"))
    BY <1>5, ConvertIs
  <2> QED
    BY <2>1 DEF Valid
<1>8. At(w, "path") # Absent
  BY <1>7, AsTextIs, KindsDiffer DEF JsonOrNone
<1> HIDE DEF path, n
<1>9. PICK z : z = At(w, "path") /\ (z \in {At(u, m) : m \in NamesOf("path")} \/ z \in Hoisted(b))
  BY <1>4, <1>8, <1>n DEF PathsFrom
<1>10. CASE z \in {At(u, m) : m \in NamesOf("path")}
  <2>1. PICK m \in NamesOf("path") : At(u, m) = z
    BY <1>10
  <2>2. path = AsText(At(u, m)) /\ At(u, m) \notin {Absent, Null}
    BY <1>6, <1>7, <1>8, <1>9, <2>1
  <2>3. path \in PathsGiven(u)
    BY <2>1, <2>2 DEF PathsGiven, TextsOf
  <2> QED
    BY <2>3 DEF path
<1>11. CASE z \in Hoisted(b)
  <2>1. PICK p : IsText(p) /\ Hoisted(b) = {p}
    BY <1>2, <1>11
  <2>2. path = p
    BY <1>7, <1>9, <1>11, <2>1, AsTextIs DEF IsText
  <2>3. Hoisted(b) = PathsIn(At(b, "edits")) /\ IsArr(At(b, "edits"))
    BY <1>2, <2>1 DEF Hoisted
  <2> DEFINE y == NormalEdits(x)
  <2>4. NormalOf(u, y)
    BY <1>0, NormalIs
  <2>5. JsonOrNone(y)
    BY <1>1 , AtIsJson DEF Prepares, Set, IsRecord
  <2>6. IsArr(y)
    BY <1>2, <2>3, <2>5, EachEditOf
  <2>7. y = Arr(AtPlaces(n, Kept(u)))
    <3>1. ~IsLone(y)
      BY <2>6, KindsDiffer DEF IsLone
    <3> QED
      BY <2>4, <3>1 DEF NormalOf, n
  <2> HIDE DEF y
  <2>8. IsJson(y)
    BY <2>5, <2>6, KindsDiffer DEF JsonOrNone
  <2>9. PathsIn(At(b, "edits")) = UNION {PathFor(y.e[i]) : i \in DOMAIN y.e}
    BY <1>2, <2>6, <2>8, PathsOfEdits DEF y
  <2>10. y.e = AtPlaces(n, Kept(u))
    BY <2>7, Encoded
  <2>11. UNION {PathFor(y.e[i]) : i \in DOMAIN y.e} = UNION {PathFor(e) : e \in Range(n)}
    BY <1>0, <2>10, PathsOfSent DEF n
  <2> QED
    BY <2>1, <2>2, <2>3, <2>9, <2>11 DEF path, n
<1> QED
  BY <1>9, <1>10, <1>11

-----------------------------------------------------------------------------
(* Native compatibility.                                                     *)

NativeRules == <<"parse-stringified-edits", "filter-empty-edits", "flat-fold">>

LEMMA NativeRulesAre ==
  /\ Len(NativeRules) = 3
  /\ NativeRules[1] = "parse-stringified-edits" /\ NativeRules[2] = "filter-empty-edits"
  /\ NativeRules[3] = "flat-fold"
BY DEF NativeRules

\* The arguments with their edits parsed, and folded.
LEMMA NativeIs ==
  ASSUME NEW u, IsRecord(u)
  PROVE  \E v : /\ Set(u, v, "edits", Emptied(Parsed(At(u, "edits"))))
                /\ NativeCompatibility(u) = After(FlatFold(v), v)
<1> DEFINE st == States(NativeRules, u, <<>>)
           x == At(u, "edits")
<1>1. /\ st[0] = Started(u, <<>>) /\ NativeCompatibility(u) = st[3].v
      /\ \A k \in 1 .. 3 : st[k] = Preprocess1(st[k - 1], NativeRules[k])
  <2>1. Len(NativeRules) = 3
    BY NativeRulesAre
  <2>2. Len(NativeRules) \in Nat
    BY <2>1
  <2>3. /\ st[0] = Started(u, <<>>)
        /\ \A k \in 1 .. Len(NativeRules) : st[k] = Preprocess1(st[k - 1], NativeRules[k])
        /\ Run(NativeRules, u, <<>>) = st[Len(NativeRules)]
    BY <2>2, RunIs
  <2>4. NativeCompatibility(u) = Run(NativeRules, u, <<>>).v
    BY DEF NativeCompatibility, NativeRules
  <2> HIDE DEF st
  <2> QED
    BY <2>1, <2>3, <2>4
<1> HIDE DEF st
<1>2. /\ st[1] = Preprocess1(st[0], "parse-stringified-edits")
      /\ st[2] = Preprocess1(st[1], "filter-empty-edits")
      /\ st[3] = Preprocess1(st[2], "flat-fold")
  BY <1>1, NativeRulesAre
<1>3. IsRun(st[0]) /\ st[0].v = u /\ st[0].threw = FALSE
  <2>1. IsRun(Started(u, <<>>)) /\ Started(u, <<>>).v = u /\ Started(u, <<>>).threw = FALSE
    BY NoChanges, StartedIs
  <2>2. st[0] = Started(u, <<>>)
    BY <1>1
  <2> QED
    BY <2>1, <2>2
<1>4. EditsBecome(st[0], st[1], Parsed(x))
  BY <1>2, <1>3, ParseRule
<1>5. IsRun(st[1]) /\ st[1].threw = FALSE /\ At(st[1].v, "edits") = Parsed(x)
  BY <1>3, <1>4, EditsNow
<1>6. EditsBecome(st[1], st[2], Emptied(Parsed(x)))
  BY <1>2, <1>5, FilterRule
<1>7. IsRun(st[2]) /\ st[2].threw = FALSE
  BY <1>5, <1>6, EditsNow
<1>8. Set(u, st[2].v, "edits", Emptied(Parsed(x)))
  <2>1. EditsBecome(st[0], st[2], Emptied(Parsed(x)))
    BY <1>4, <1>6, EditsBecomeOn
  <2> QED
    BY <1>3, <2>1 DEF EditsBecome
<1>9. st[3].v = After(FlatFold(st[2].v), st[2].v)
  <2>1. TurnsTo(st[2], st[3], After(FlatFold(st[2].v), st[2].v))
    BY <1>2, <1>7, FoldRule
  <2> QED
    BY <2>1 DEF TurnsTo
<1> QED
  BY <1>1, <1>8, <1>9

\* Native compatibility leaves what is no object as it is.
LEMMA NativeOfNone ==
  ASSUME NEW u, ~IsObj(u)
  PROVE  ~Valid(NativeCompatibility(u))
<1> DEFINE st == States(NativeRules, u, <<>>)
<1>1. /\ st[0] = Started(u, <<>>) /\ NativeCompatibility(u) = st[3].v
      /\ \A k \in 1 .. 3 : st[k] = Preprocess1(st[k - 1], NativeRules[k])
  <2>1. Len(NativeRules) = 3
    BY NativeRulesAre
  <2>2. Len(NativeRules) \in Nat
    BY <2>1
  <2>3. /\ st[0] = Started(u, <<>>)
        /\ \A k \in 1 .. Len(NativeRules) : st[k] = Preprocess1(st[k - 1], NativeRules[k])
        /\ Run(NativeRules, u, <<>>) = st[Len(NativeRules)]
    BY <2>2, RunIs
  <2>4. NativeCompatibility(u) = Run(NativeRules, u, <<>>).v
    BY DEF NativeCompatibility, NativeRules
  <2> HIDE DEF st
  <2> QED
    BY <2>1, <2>3, <2>4
<1> HIDE DEF st
<1>2. /\ st[1] = Preprocess1(st[0], NativeRules[1])
      /\ st[2] = Preprocess1(st[1], NativeRules[2])
      /\ st[3] = Preprocess1(st[2], NativeRules[3])
  BY <1>1
<1>3. ~IsObj(st[0].v) /\ st[0].v = u
  BY <1>1 DEF Started
<1>4. st[1] = st[0] /\ st[2] = st[0] /\ st[3] = st[0]
  BY <1>2, <1>3 DEF Preprocess1
<1>5. NativeCompatibility(u) = u
  BY <1>1, <1>3, <1>4
<1> QED
  BY <1>5, NoFields, KindsDiffer DEF Valid

-----------------------------------------------------------------------------
(* What repair makes valid.                                                  *)

GoodAnchor(x) == At(x, "anchor") = Absent \/ IsString(At(x, "anchor"))
GoodEdits(x) == AreEdits(x) /\ \A i \in DOMAIN x.e : GoodAnchor(x.e[i])

LEMMA GoodOn ==
  ASSUME NEW x, GoodEdits(x), NEW y, SameTexts(x, y)
  PROVE  GoodEdits(y)
BY PathNamesOthers DEF GoodEdits, SameTexts, OnlyPath, GoodAnchor

LEMMA ValidIf ==
  ASSUME NEW v, IsString(At(v, "path")), GoodEdits(At(v, "edits"))
  PROVE  Valid(v)
BY ValidIs DEF GoodEdits, AreEdits, GoodAnchor

LEMMA ValidIsGood ==
  ASSUME NEW v, IsRecord(v), Valid(v)
  PROVE  IsString(At(v, "path")) /\ GoodEdits(At(v, "edits"))
<1>1. AreEdits(At(v, "edits")) /\ IsString(At(v, "path"))
  BY ValidEdits
<1> QED
  BY <1>1, ValidIs DEF GoodEdits, GoodAnchor

\* One edit, or one more, with good anchors.
LEMMA GoodOne ==
  ASSUME NEW x, IsJson(x), IsEdit(x), GoodAnchor(x)
  PROVE  GoodEdits(Arr(<<x>>))
<1> DEFINE q == <<x>>
<1>1. IsListed(q) /\ DOMAIN q = {1} /\ q[1] = x
  BY SingleIs
<1> HIDE DEF q
<1>2. IsJson(Arr(q)) /\ IsArr(Arr(q)) /\ Arr(q).e = q
  BY <1>1, ArrIsJson, Encoded
<1>3. GoodEdits(Arr(q))
  BY <1>1, <1>2 DEF GoodEdits, AreEdits
<1> QED
  BY <1>3 DEF q

LEMMA GoodMore ==
  ASSUME NEW y, GoodEdits(y), NEW x, IsJson(x), IsEdit(x), GoodAnchor(x)
  PROVE  GoodEdits(Arr(Append(y.e, x)))
<1> DEFINE q == Append(y.e, x)
<1>1. IsListed(y.e) /\ (\A i \in DOMAIN y.e : IsJson(y.e[i]) /\ IsEdit(y.e[i]) /\ GoodAnchor(y.e[i]))
      /\ DOMAIN y.e = 1 .. Len(y.e) /\ Len(y.e) \in Nat
  BY ArrIs, ListIs DEF GoodEdits, AreEdits
<1>2. /\ IsListed(q) /\ DOMAIN q = 1 .. Len(y.e) + 1
      /\ q[Len(y.e) + 1] = x /\ \A i \in 1 .. Len(y.e) : q[i] = y.e[i]
  BY <1>1, AppendIs
<1> HIDE DEF q
<1>3. \A i \in DOMAIN q : IsJson(q[i]) /\ IsEdit(q[i]) /\ GoodAnchor(q[i])
  <2>1. ASSUME NEW i \in DOMAIN q PROVE IsJson(q[i]) /\ IsEdit(q[i]) /\ GoodAnchor(q[i])
    <3>1. i = Len(y.e) + 1 \/ i \in 1 .. Len(y.e)
      BY <1>1, <1>2
    <3> QED
      BY <1>1, <1>2, <3>1
  <2> QED
    BY <2>1
<1>4. IsJson(Arr(q)) /\ IsArr(Arr(q)) /\ Arr(q).e = q
  BY <1>2, <1>3, ArrIsJson, Encoded
<1>5. GoodEdits(Arr(q))
  BY <1>3, <1>4 DEF GoodEdits, AreEdits
<1> QED
  BY <1>5 DEF q

\* Folding the texts at the top level keeps good edits, and makes some of none.
LEMMA FoldGood ==
  ASSUME NEW c, IsRecord(c), IsString(At(c, "path")),
         NEW x, x = At(c, "edits"), GoodEdits(x) \/ (~IsArr(x) /\ ~FoldMisses(c))
  PROVE  Valid(After(FlatFold(c), c))
<1> DEFINE r == FlatFold(c)
           q == FoldedEdits(c, Folded(c))
<1>1. /\ r.hit \in BOOLEAN /\ (r.hit <=> ~FoldMisses(c))
      /\ r.hit => /\ At(r.v, "edits") = Arr(q)
                  /\ q = IF IsArr(x) THEN Append(x.e, Folded(c)) ELSE <<Folded(c)>>
                  /\ \A j : j # "edits" =>
                       At(r.v, j) = IF j \in FoldedFields THEN Absent ELSE At(c, j)
  BY FlatFoldIs
<1> HIDE DEF r, q
<1>2. CASE ~r.hit
  <2>1. After(r, c) = c /\ GoodEdits(x)
    BY <1>1, <1>2 DEF After
  <2> QED
    BY <2>1, ValidIf DEF r
<1>3. CASE r.hit
  <2>1. After(r, c) = r.v
    BY <1>3 DEF After
  <2>2. IsRecord(Folded(c)) /\ IsEdit(Folded(c)) /\ GoodAnchor(Folded(c))
    BY <1>1, <1>3, FoldedIs, KindsDiffer DEF GoodAnchor
  <2>3. GoodEdits(Arr(q))
    <3>1. CASE IsArr(x)
      BY <1>1, <1>3, <2>2, <3>1, GoodMore DEF IsRecord
    <3>2. CASE ~IsArr(x)
      BY <1>1, <1>3, <2>2, <3>2, GoodOne DEF IsRecord
    <3> QED
      BY <3>1, <3>2
  <2>4. At(r.v, "path") = At(c, "path")
    BY <1>1, <1>3 DEF FoldedFields
  <2>5. Valid(r.v)
    BY <1>1, <1>3, <2>3, <2>4, ValidIf
  <2> QED
    BY <2>1, <2>5 DEF r
<1> QED
  BY <1>1, <1>2, <1>3

LEMMA PreparesValid ==
  ASSUME NEW u, IsRecord(u), IsString(At(u, "path")), NEW y, y = NormalEdits(At(u, "edits")),
         GoodEdits(y) \/ (~IsArr(y) /\ ~FoldMisses(u)),
         NEW a, NEW b, NEW c, NEW d, Prepares(u, a, b, c, d)
  PROVE  Valid(d)
<1>1. Set(u, a, "edits", y)
  BY DEF Prepares
<1>2. After(ExactAlias(a, "path"), a) = a
  <2>1. ~ExactAlias(a, "path").hit
    BY <1>1, ExactAliasIs, KindsDiffer DEF Missing, Named, Set
  <2> QED
    BY <2>1 DEF After
<1>3. Set(a, b, "edits", EachEdit(y))
  BY <1>1, <1>2 DEF Prepares, Set
<1>4. IsRecord(b) /\ SameTop(u, b) /\ At(b, "path") = At(u, "path") /\ At(b, "edits") = EachEdit(y)
  BY <1>1, <1>3 DEF Set, SameTop, TopNames
<1> DEFINE r == HoistNestedPath(b)
<1>5. /\ r.hit \in BOOLEAN
      /\ r.hit => /\ IsArr(At(b, "edits"))
                  /\ \E p : IsText(p) /\ At(r.v, "path") = p
                  /\ At(r.v, "edits") = Arr([i \in DOMAIN At(b, "edits").e |-> Cleaned(At(b, "edits").e[i])])
                  /\ \A j : j \notin {"path", "edits"} => At(r.v, j) = At(b, j)
  BY <1>4, HoistIs
<1>6. c = After(r, b) /\ IsRecord(c) /\ d = After(FlatFold(c), c)
  BY DEF Prepares
<1>7. JsonOrNone(y)
  BY <1>1, AtIsJson DEF Set, IsRecord
<1> HIDE DEF r
<1>8. CASE GoodEdits(y)
  <2>1. GoodEdits(At(b, "edits"))
    <3>1. SameTexts(y, EachEdit(y))
      BY <1>8, EachOfEdits DEF GoodEdits
    <3> QED
      BY <1>4, <1>8, <3>1, GoodOn
  <2>2. CASE ~r.hit
    <3>1. c = b
      BY <1>6, <2>2 DEF After
    <3> QED
      BY <1>4, <1>6, <2>1, <3>1, FoldGood
  <2>3. CASE r.hit
    <3>1. c = r.v
      BY <1>6, <2>3 DEF After
    <3>2. AreEdits(At(b, "edits"))
      BY <2>1 DEF GoodEdits
    <3>3. At(c, "edits") = Arr([i \in DOMAIN At(b, "edits").e |-> Cleaned(At(b, "edits").e[i])])
      BY <1>5, <2>3, <3>1
    <3>4. SameTexts(At(b, "edits"), At(c, "edits"))
      BY <3>2, <3>3, CleanedEdits
    <3>5. GoodEdits(At(c, "edits"))
      BY <2>1, <3>4, GoodOn
    <3>6. IsString(At(c, "path"))
      BY <1>5, <2>3, <3>1 DEF IsText
    <3> QED
      BY <1>6, <3>5, <3>6, FoldGood
  <2> QED
    BY <1>5, <2>2, <2>3
<1>9. CASE ~IsArr(y) /\ ~FoldMisses(u)
  <2>1. EachEdit(y) = y
    BY <1>7, <1>9, EachEditOf
  <2>2. ~r.hit
    BY <1>4, <1>5, <1>9, <2>1
  <2>3. c = b
    BY <1>6, <2>2 DEF After
  <2>4. ~FoldMisses(c) /\ ~IsArr(At(c, "edits"))
    BY <1>4, <1>9, <2>1, <2>3, TopFolds
  <2> QED
    BY <1>4, <1>6, <2>3, <2>4, FoldGood
<1> QED
  BY <1>8, <1>9

\* What native compatibility makes valid, repair does.
LEMMA NativeValid ==
  ASSUME NEW u, IsRecord(u), Valid(NativeCompatibility(u)), ~GivenUp(At(u, "edits"))
  PROVE  LET x == At(u, "edits")
             y == NormalEdits(x)
         IN  /\ IsString(At(u, "path")) /\ ~Unparsable(Emptied(Parsed(x)))
             /\ GoodEdits(y) \/ (~IsArr(y) /\ ~FoldMisses(u))
<1> DEFINE x == At(u, "edits")
           z == Emptied(Parsed(x))
           y == NormalEdits(x)
           n == NativeCompatibility(u)
<1>1. PICK v : Set(u, v, "edits", z) /\ n = After(FlatFold(v), v)
  BY NativeIs
<1>2. IsRecord(v) /\ SameTop(u, v) /\ At(v, "edits") = z /\ At(v, "path") = At(u, "path")
  BY <1>1 DEF Set, SameTop, TopNames
<1> DEFINE r == FlatFold(v)
           q == FoldedEdits(v, Folded(v))
<1>3. /\ r.hit \in BOOLEAN /\ (r.hit <=> ~FoldMisses(v))
      /\ r.hit => /\ IsRecord(r.v) /\ At(r.v, "edits") = Arr(q)
                  /\ q = IF IsArr(z) THEN Append(z.e, Folded(v)) ELSE <<Folded(v)>>
                  /\ \A j : j # "edits" =>
                       At(r.v, j) = IF j \in FoldedFields THEN Absent ELSE At(v, j)
  BY <1>2, FlatFoldIs
<1>4. JsonOrNone(x) /\ JsonOrNone(z)
  <2>1. JsonOrNone(x)
    BY AtIsJson DEF IsRecord
  <2>2. JsonOrNone(z)
    BY <1>2, AtIsJson DEF IsRecord
  <2> QED
    BY <2>1, <2>2
<1> HIDE DEF r, q
<1>5. IsRecord(n) /\ IsString(At(n, "path")) /\ GoodEdits(At(n, "edits"))
  <2>1. IsRecord(n)
    BY <1>1, <1>2, FoldedMisses
  <2> QED
    BY <2>1, ValidIsGood
<1>6. IsString(At(u, "path"))
  <2>1. At(n, "path") = At(v, "path")
    BY <1>1, <1>3 DEF After, r, FoldedFields
  <2> QED
    BY <1>2, <1>5, <2>1
<1> HIDE DEF n
<1>7. CASE IsArr(z)
  <2>1. GoodEdits(z)
    <3>1. CASE ~r.hit
      <4>1. n = v
        BY <1>1, <3>1 DEF After, r
      <4> QED
        BY <1>2, <1>5, <4>1
    <3>2. CASE r.hit
      <4>1. n = r.v
        BY <1>1, <3>2 DEF After, r
      <4>2. At(n, "edits") = Arr(q) /\ q = Append(z.e, Folded(v))
        BY <1>3, <1>7, <3>2, <4>1
      <4>3. Arr(q).e = q /\ IsJson(z)
        BY <1>4, <1>7, Encoded, KindsDiffer DEF JsonOrNone
      <4>4. IsListed(z.e) /\ Len(z.e) \in Nat /\ DOMAIN z.e = 1 .. Len(z.e)
        BY <1>7, <4>3, ArrIs, ListIs
      <4>5. /\ DOMAIN q = 1 .. Len(z.e) + 1 /\ \A i \in 1 .. Len(z.e) : q[i] = z.e[i]
        BY <4>2, <4>4, AppendIs
      <4>6. \A i \in DOMAIN q : IsEdit(q[i]) /\ GoodAnchor(q[i])
        BY <1>5, <4>2, <4>3 DEF GoodEdits, AreEdits
      <4>7. \A i \in DOMAIN z.e : IsEdit(z.e[i]) /\ GoodAnchor(z.e[i])
        <5>1. ASSUME NEW i \in DOMAIN z.e PROVE i \in DOMAIN q /\ q[i] = z.e[i]
          BY <4>4, <4>5
        <5> QED
          BY <4>6, <5>1
      <4> HIDE DEF z
      <4> QED
        BY <1>7, <4>3, <4>7 DEF GoodEdits, AreEdits
    <3> QED
      BY <1>3, <3>1, <3>2
  <2> HIDE DEF z
  <2>2. ~Unparsable(z) /\ Normalized(z) = z /\ Emptied(z) = z /\ Pruned(z) = z
    BY <2>1, EditsStay DEF GoodEdits
  <2>3. y = Pruned(Emptied(Normalized(z)))
    BY DEF NormalEdits, z
  <2>4. y = z
    BY <2>2, <2>3
  <2> QED
    BY <1>6, <2>1, <2>2, <2>4 DEF z
<1>8. CASE ~IsArr(z)
  <2>1. r.hit
    <3>1. ASSUME ~r.hit PROVE FALSE
      <4>1. n = v
        BY <1>1, <3>1 DEF After, r
      <4> QED
        BY <1>2, <1>5, <1>8, <4>1 DEF GoodEdits, AreEdits
    <3> QED
      BY <1>3, <3>1
  <2>2. ~FoldMisses(u)
    BY <1>2, <1>3, <2>1, TopFolds
  <2>3. Parsed(x) = x /\ ~IsArr(x) /\ z = x
    <3>1. ~IsArr(Parsed(x))
      BY <1>8, Encoded DEF Emptied
    <3>2. Parsed(x) = x
      BY <3>1 DEF Parsed
    <3> QED
      BY <3>1, <3>2 DEF Emptied
  <2>4. ~Unparsable(x)
    BY <2>3 DEF Unparsable, GivenUp
  <2>5. y = Pruned(Emptied(Normalized(x)))
    BY <2>3 DEF NormalEdits
  <2>6. ASSUME NEW e, IsEdit(e), IsJson(e), Opened(x) = e, Normalized(x) = Arr(<<e>>)
        PROVE  GoodEdits(y)
    <3>1. GoodAnchor(e)
      BY <2>6 DEF GivenUp, GoodAnchor
    <3>2. GoodEdits(Arr(<<e>>))
      BY <2>6, <3>1, GoodOne
    <3>3. Emptied(Arr(<<e>>)) = Arr(<<e>>) /\ Pruned(Arr(<<e>>)) = Arr(<<e>>)
      BY <3>2, EditsStay DEF GoodEdits
    <3> QED
      BY <2>5, <2>6, <3>2, <3>3
  <2>7. CASE EncodesEdit(x)
    <3>1. Normalized(x) = Arr(<<x.v>>) /\ IsEdit(x.v) /\ x.t = "enc"
      BY <1>4, <2>4, <2>7, NormalizedIs, Encoded DEF EncodesEdit
    <3>2. IsJson(x.v) /\ Opened(x) = x.v
      BY <1>4, <3>1, OpenedIs
    <3>3. GoodEdits(y)
      BY <2>6, <3>1, <3>2
    <3> QED
      BY <1>6, <2>3, <2>4, <3>3
  <2>8. CASE IsEdit(x)
    <3>1. Normalized(x) = Arr(<<x>>)
      BY <1>4, <2>4, <2>8, NormalizedIs
    <3>2. IsJson(x) /\ Opened(x) = x
      <4>1. IsObj(x)
        BY <2>8, EditIsObj
      <4> QED
        BY <1>4, <4>1, KindsDiffer DEF IsObj, JsonOrNone, Opened
    <3>3. GoodEdits(y)
      BY <2>6, <2>8, <3>1, <3>2
    <3> QED
      BY <1>6, <2>3, <2>4, <3>3
  <2>9. CASE ~EncodesEdit(x) /\ ~IsEdit(x)
    <3>1. Normalized(x) = x
      BY <1>4, <2>3, <2>4, <2>9, NormalizedIs
    <3>2. y = x
      BY <2>3, <2>5, <3>1 DEF Emptied, Pruned
    <3> QED
      BY <1>6, <2>2, <2>3, <2>4, <3>2
  <2> QED
    BY <2>7, <2>8, <2>9
<1> QED
  BY <1>7, <1>8

\* Arguments that native compatibility makes valid are accepted with repair on.
LEMMA NativeAccepted ==
  ASSUME NEW raw, IsJson(raw), NEW conservative,
         Valid(NativeCompatibility(raw)), ~GivenUp(At(raw, "edits"))
  PROVE  Accepted(PrepareEditArguments(raw, TRUE, conservative))
<1> DEFINE r == PrepareEditArguments(raw, TRUE, conservative)
<1>1. IsRecord(raw)
  BY NativeOfNone DEF IsRecord
<1>2. /\ IsString(At(raw, "path")) /\ ~Unparsable(Emptied(Parsed(At(raw, "edits"))))
      /\ LET y == NormalEdits(At(raw, "edits")) IN
         GoodEdits(y) \/ (~IsArr(y) /\ ~FoldMisses(raw))
  BY <1>1, NativeValid
<1>3. ASSUME NEW a, NEW b, NEW c, NEW d, Prepares(raw, a, b, c, d) PROVE Valid(d)
  BY <1>1, <1>2, <1>3, PreparesValid
<1>4. r = RunRepairPipeline(raw, conservative)
  BY DEF PrepareEditArguments
<1>5. Good(r) /\ \E a, b, c, d : Prepares(raw, a, b, c, d) /\ Convert(r.args) = d
  BY <1>1, <1>2, <1>3, <1>4, PipelineIs DEF IsRecord
<1> HIDE DEF r
<1>6. Valid(Convert(r.args))
  BY <1>3, <1>5
<1> QED
  BY <1>5, <1>6 DEF Accepted, Good, r

-----------------------------------------------------------------------------
(* The texts of an edit.                                                     *)

\* z has the texts of the object y, under other names where y's own were missing.
KeepsTexts(y, z) ==
  /\ IsRecord(z)
  /\ \A k \in EditNames :
       /\ \A j \in NamesOf(k) : At(z, j) \in {Absent} \cup {At(y, n) : n \in NamesOf(k)}
       /\ ~Missing(y, k) => At(z, k) = At(y, k)

LEMMA KeepsSame ==
  ASSUME NEW y, NEW z, IsRecord(z),
         \A k \in EditNames : \A j \in NamesOf(k) : At(z, j) = At(y, j)
  PROVE  KeepsTexts(y, z)
<1>1. \A k \in EditNames : k \in NamesOf(k)
  BY NamesDiffer DEF EditNames, TextNames, Named
<1> QED
  BY <1>1 DEF KeepsTexts

LEMMA KeepsOn ==
  ASSUME NEW x, NEW y, NEW z, KeepsTexts(x, y), KeepsTexts(y, z)
  PROVE  KeepsTexts(x, z)
<1> SUFFICES ASSUME NEW k \in EditNames
             PROVE  /\ \A j \in NamesOf(k) :
                         At(z, j) \in {Absent} \cup {At(x, n) : n \in NamesOf(k)}
                    /\ ~Missing(x, k) => At(z, k) = At(x, k)
  BY DEF KeepsTexts
<1>1. /\ \A j \in NamesOf(k) : At(y, j) \in {Absent} \cup {At(x, n) : n \in NamesOf(k)}
      /\ ~Missing(x, k) => At(y, k) = At(x, k)
  BY DEF KeepsTexts
<1>2. /\ \A j \in NamesOf(k) : At(z, j) \in {Absent} \cup {At(y, n) : n \in NamesOf(k)}
      /\ ~Missing(y, k) => At(z, k) = At(y, k)
  BY DEF KeepsTexts
<1>3. ~Missing(x, k) => ~Missing(y, k)
  BY <1>1 DEF Missing
<1> QED
  BY <1>1, <1>2, <1>3

\* What changes only names that are none of these.
LEMMA KeepsOthers ==
  ASSUME NEW y, NEW z, IsRecord(z), NEW k \in {"path"},
         \A j : j \notin NamesOf(k) => At(z, j) = At(y, j)
  PROVE  KeepsTexts(y, z)
<1>1. \A l \in EditNames : l # k /\ l \in TextNames /\ k \in TextNames
  BY DEF EditNames, TextNames, Named
<1>2. \A l \in EditNames : \A j \in NamesOf(l) : j \notin NamesOf(k)
  BY <1>1, NamesDiffer
<1> QED
  BY <1>2, KeepsSame

\* Renaming an alias.
LEMMA KeepsRenamed ==
  ASSUME NEW x, IsRecord(x), NEW k \in {"oldText", "newText", "path"}, NEW y, Renamed(x, y, k)
  PROVE  KeepsTexts(x, y)
<1>1. CASE y = x
  BY <1>1, KeepsSame
<1>2. CASE y # x
  <2>1. Missing(x, k) /\ \E a \in NamesOf(k) \ {k} : Moved(x, y, k, a)
    BY <1>2 DEF Renamed
  <2>2. PICK a \in NamesOf(k) \ {k} : Moved(x, y, k, a)
    BY <2>1
  <2>n. k \in TextNames /\ k \in NamesOf(k) /\ \A l \in EditNames : l \in TextNames
    BY NamesDiffer DEF TextNames, Named, EditNames
  <2>3. SUFFICES ASSUME NEW l \in EditNames
                 PROVE  /\ \A j \in NamesOf(l) :
                             At(y, j) \in {Absent} \cup {At(x, n) : n \in NamesOf(l)}
                        /\ ~Missing(x, l) => At(y, l) = At(x, l)
    BY <2>2 DEF KeepsTexts, Moved
  <2>4. CASE l = k
    BY <2>1, <2>2, <2>4 DEF Moved
  <2>5. CASE l # k
    <3>1. NamesOf(l) \cap NamesOf(k) = {} /\ l \in NamesOf(l)
      BY <2>n, <2>5, NamesDiffer
    <3>2. \A j \in NamesOf(l) : At(y, j) = At(x, j)
      BY <2>n, <2>2, <3>1 DEF Moved
    <3> QED
      BY <3>1, <3>2
  <2> QED
    BY <2>4, <2>5
<1> QED
  BY <1>1, <1>2

\* Schema repair.
LEMMA KeepsMended ==
  ASSUME NEW y, NEW z, MendsEdit(y, z)
  PROVE  KeepsTexts(y, z)
<1> SUFFICES ASSUME NEW k \in EditNames
             PROVE  /\ \A j \in NamesOf(k) :
                         At(z, j) \in {Absent} \cup {At(y, n) : n \in NamesOf(k)}
                    /\ ~Missing(y, k) => At(z, k) = At(y, k)
  BY DEF KeepsTexts, MendsEdit
<1>1. Mended(y, z, k) /\ k \in NamesOf(k)
  BY NamesDiffer DEF MendsEdit, EditNames, TextNames, Named
<1> QED
  BY <1>1 DEF Mended, Missing

-----------------------------------------------------------------------------
(* What the rules on each edit make of it.                                   *)

\* The object x says no new text, or an empty one.
NamesNoNew(x) ==
  \/ At(x, "newText") = Str("")
  \/ \A n \in NamesOf("newText") : ~IsString(At(x, n)) \/ At(x, n) = Str("")

ValuesOf(x, names) == {Absent} \cup {At(x, n) : n \in names}

\* y is made of the texts of the object x: an oldText that comes from the anchor and
\* an empty newText that was not sent exclude each other.
Formed(x, y) ==
  /\ IsRecord(y)
  /\ \A j \in NamesOf("newText") : At(y, j) \in ValuesOf(x, NamesOf("newText")) \cup {Str("")}
  /\ \A j \in NamesOf("oldText") : At(y, j) \in ValuesOf(x, NamesOf("oldText") \cup {"anchor"})
  /\ At(y, "anchor") \in {Absent, At(x, "anchor")}
  /\ IsEdit(x) => \A k \in Required : At(y, k) = At(x, k)
  /\ \/ IsSome(At(y, "newText"))
     \/ \A j \in NamesOf("oldText") : At(y, j) \in ValuesOf(x, NamesOf("oldText"))

\* An empty newText stands for one x does not have.
Told(x, y) == NamesNoNew(x) \/ IsSome(At(y, "newText"))

LEMMA SomeStays ==
  ASSUME NEW y, NEW z, KeepsTexts(y, z), IsSome(At(y, "newText"))
  PROVE  At(z, "newText") = At(y, "newText") /\ IsSome(At(z, "newText"))
<1>1. ~Missing(y, "newText") /\ "newText" \in EditNames
  BY DEF IsSome, Missing, EditNames
<1> QED
  BY <1>1 DEF KeepsTexts

LEMMA FormedKeeps ==
  ASSUME NEW x, NEW y, NEW z, Formed(x, y), KeepsTexts(y, z)
  PROVE  Formed(x, z)
<1>1. "oldText" \in EditNames /\ "newText" \in EditNames /\ "anchor" \in EditNames
      /\ NamesOf("anchor") = {"anchor"}
  BY NamesDiffer DEF EditNames
<1>2. \A k \in EditNames : \A j \in NamesOf(k) :
        At(z, j) = Absent \/ \E n \in NamesOf(k) : At(z, j) = At(y, n)
  BY DEF KeepsTexts
<1>3. \A j \in NamesOf("newText") : At(z, j) \in ValuesOf(x, NamesOf("newText")) \cup {Str("")}
  <2>1. Absent \in ValuesOf(x, NamesOf("newText"))
    BY DEF ValuesOf
  <2>2. \A n \in NamesOf("newText") : At(y, n) \in ValuesOf(x, NamesOf("newText")) \cup {Str("")}
    BY DEF Formed
  <2> QED
    BY <1>1, <1>2, <2>1, <2>2
<1>4. \A j \in NamesOf("oldText") : At(z, j) \in ValuesOf(x, NamesOf("oldText") \cup {"anchor"})
  <2>1. Absent \in ValuesOf(x, NamesOf("oldText") \cup {"anchor"})
    BY DEF ValuesOf
  <2>2. \A n \in NamesOf("oldText") : At(y, n) \in ValuesOf(x, NamesOf("oldText") \cup {"anchor"})
    BY DEF Formed
  <2> QED
    BY <1>1, <1>2, <2>1, <2>2
<1>5. At(z, "anchor") \in {Absent, At(x, "anchor")}
  BY <1>1, <1>2 DEF Formed
<1>6. IsEdit(x) => \A k \in Required : At(z, k) = At(x, k)
  <2> SUFFICES ASSUME IsEdit(x), NEW k \in Required PROVE At(z, k) = At(x, k)
    OBVIOUS
  <2>1. At(y, k) = At(x, k) /\ k \in EditNames
    BY DEF Formed, Required, EditNames
  <2>2. ~Missing(y, k)
    BY <2>1, EditHas DEF Missing, Required
  <2> QED
    BY <2>1, <2>2 DEF KeepsTexts
<1>7. \/ IsSome(At(z, "newText"))
      \/ \A j \in NamesOf("oldText") : At(z, j) \in ValuesOf(x, NamesOf("oldText"))
  <2>1. CASE IsSome(At(y, "newText"))
    BY <2>1, SomeStays
  <2>2. CASE \A j \in NamesOf("oldText") : At(y, j) \in ValuesOf(x, NamesOf("oldText"))
    <3>1. Absent \in ValuesOf(x, NamesOf("oldText"))
      BY DEF ValuesOf
    <3> QED
      BY <1>1, <1>2, <2>2, <3>1
  <2> QED
    BY <2>1, <2>2 DEF Formed
<1> QED
  BY <1>3, <1>4, <1>5, <1>6, <1>7 DEF Formed, KeepsTexts

LEMMA ToldKeeps ==
  ASSUME NEW x, NEW y, NEW z, Told(x, y), KeepsTexts(y, z)
  PROVE  Told(x, z)
BY SomeStays DEF Told

LEMMA FormedAtFirst ==
  ASSUME NEW x, IsRecord(x)
  PROVE  Formed(x, x)
BY DEF Formed, ValuesOf

\* Once an alias of newText is renamed.
LEMMA ToldRenamed ==
  ASSUME NEW x, NEW y, \A n \in NamesOf("newText") : At(y, n) = At(x, n),
         NEW z, Renamed(y, z, "newText")
  PROVE  Told(x, z)
<1>n. "newText" \in Named /\ "newText" \in NamesOf("newText")
  BY AliasPairs DEF Named
<1>1. CASE z = y /\ ~(Missing(y, "newText") /\ Given(y, "newText") # {})
  <2>1. CASE ~Missing(y, "newText")
    BY <1>n, <1>1, <2>1 DEF Told, NamesNoNew, IsSome, Missing
  <2>2. CASE Missing(y, "newText") /\ Given(y, "newText") = {}
    <3>1. AliasesOf("newText") = <<Alias1("newText"), Alias2("newText")>>
          /\ DOMAIN AliasesOf("newText") = {1, 2}
          /\ NamesOf("newText") = {"newText", Alias1("newText"), Alias2("newText")}
      BY <1>n, AliasPairs
    <3>2. ~IsText(At(y, Alias1("newText"))) /\ ~IsText(At(y, Alias2("newText")))
      BY <2>2, <3>1 DEF Given
    <3>3. ~IsString(At(y, "newText"))
      BY <2>2, KindsDiffer DEF Missing
    <3> QED
      BY <3>1, <3>2, <3>3 DEF Told, NamesNoNew, IsText
  <2> QED
    BY <1>1, <2>1, <2>2
<1>2. CASE Missing(y, "newText") /\ Given(y, "newText") # {}
  <2>1. PICK a : IsText(At(y, a)) /\ Moved(y, z, "newText", a)
    BY <1>2 DEF Renamed
  <2>2. At(z, "newText") = At(y, a)
    BY <2>1 DEF Moved
  <2> QED
    BY <2>1, <2>2, KindsDiffer DEF Told, IsSome, IsText
<1> QED
  BY <1>1, <1>2 DEF Renamed

LEMMA FormedDeletion ==
  ASSUME NEW x, NEW y, Formed(x, y), Told(x, y)
  PROVE  LET z == After(InferDeletion(y), y) IN Formed(x, z) /\ Told(x, z)
<1> DEFINE r == InferDeletion(y)
           z == After(r, y)
<1> SUFFICES Formed(x, z) /\ Told(x, z)
  OBVIOUS
<1>1. /\ r.hit \in BOOLEAN
      /\ r.hit => At(y, "newText") = Absent /\ Set(y, r.v, "newText", Str(""))
  BY InferDeletionIs DEF Formed
<1> HIDE DEF r
<1>2. CASE ~r.hit
  <2>1. z = y
    BY <1>2 DEF After
  <2> HIDE DEF z
  <2> QED
    BY <2>1
<1>3. CASE r.hit
  <2>1. z = r.v /\ Set(y, z, "newText", Str("")) /\ At(y, "newText") = Absent
    BY <1>1, <1>3 DEF After
  <2> HIDE DEF z
  <2>2. ~IsSome(At(y, "newText"))
    BY <2>1 DEF IsSome
  <2>3. ~IsEdit(x)
    BY <2>1, EditHas DEF Formed, Required
  <2>4. "newText" \notin NamesOf("oldText") /\ "anchor" # "newText"
    BY AliasesAre
  <2>5. \A j \in NamesOf("newText") : At(z, j) \in ValuesOf(x, NamesOf("newText")) \cup {Str("")}
    BY <2>1 DEF Set, Formed
  <2>6. \A j \in NamesOf("oldText") \cup {"anchor"} : At(z, j) = At(y, j)
    BY <2>1, <2>4 DEF Set
  <2>7. Formed(x, z)
    BY <2>1, <2>2, <2>3, <2>5, <2>6 DEF Formed, Set
  <2>8. NamesNoNew(x)
    BY <2>2 DEF Told
  <2> QED
    BY <2>7, <2>8 DEF Told
<1> QED
  BY <1>1, <1>2, <1>3

LEMMA FormedInsertion ==
  ASSUME NEW x, NEW y, Formed(x, y), Told(x, y)
  PROVE  LET z == After(InferInsertion(y), y) IN Formed(x, z) /\ Told(x, z)
<1> DEFINE r == InferInsertion(y)
           z == After(r, y)
<1> SUFFICES Formed(x, z) /\ Told(x, z)
  OBVIOUS
<1>1. /\ r.hit \in BOOLEAN
      /\ r.hit => /\ At(y, "oldText") = Absent /\ IsText(At(y, "newText"))
                  /\ Set(y, r.v, "oldText", At(y, "anchor"))
  BY InferInsertionIs DEF Formed
<1> HIDE DEF r
<1>2. CASE ~r.hit
  <2>1. z = y
    BY <1>2 DEF After
  <2> HIDE DEF z
  <2> QED
    BY <2>1
<1>3. CASE r.hit
  <2>1. z = r.v /\ Set(y, z, "oldText", At(y, "anchor")) /\ At(y, "oldText") = Absent
        /\ IsText(At(y, "newText"))
    BY <1>1, <1>3 DEF After
  <2> HIDE DEF z
  <2>2. IsSome(At(y, "newText"))
    BY <2>1, KindsDiffer DEF IsSome, IsText
  <2>3. ~IsEdit(x)
    BY <2>1, EditHas DEF Formed, Required
  <2>4. "oldText" \notin NamesOf("newText") /\ "anchor" # "oldText" /\ "newText" # "oldText"
    BY AliasesAre
  <2>5. At(z, "newText") = At(y, "newText") /\ At(z, "oldText") \in {Absent, At(x, "anchor")}
    BY <2>1, <2>4 DEF Set, Formed
  <2>6. \A j \in NamesOf("newText") \cup {"anchor"} : At(z, j) = At(y, j)
    BY <2>1, <2>4 DEF Set
  <2>7. \A j \in NamesOf("oldText") : At(z, j) \in ValuesOf(x, NamesOf("oldText") \cup {"anchor"})
    <3>1. {Absent, At(x, "anchor")} \subseteq ValuesOf(x, NamesOf("oldText") \cup {"anchor"})
      BY DEF ValuesOf
    <3>2. \A j \in NamesOf("oldText") : j # "oldText" => At(z, j) = At(y, j)
      BY <2>1 DEF Set
    <3> QED
      BY <2>5, <3>1, <3>2 DEF Formed
  <2>8. Formed(x, z)
    <3>1. IsRecord(z) /\ IsSome(At(z, "newText"))
      BY <2>1, <2>2, <2>5 DEF Set
    <3> QED
      BY <2>3, <2>6, <2>7, <3>1 DEF Formed
  <2> QED
    BY <2>2, <2>5, <2>8 DEF Told
<1> QED
  BY <1>1, <1>2, <1>3

LEMMA FiveForms ==
  ASSUME NEW x, IsRecord(x)
  PROVE  Formed(x, Five(x)) /\ Told(x, Five(x))
<1> DEFINE s1 == Step("alias-oldText", x)
           s2 == Step("alias-newText", s1)
           s3 == Step("alias-nested-path", s2)
           s4 == Step("infer-deletion-missing-newtext", s3)
           s5 == Step("infer-insertion-missing-oldtext", s4)
<1>n. {"oldText", "newText", "path"} = Named /\ {"oldText", "newText", "path"} \subseteq TextNames
  BY DEF Named, TextNames
<1>1. IsRecord(s1) /\ Renamed(x, s1, "oldText")
  <2>1. s1 = After(ExactAlias(x, "oldText"), x)
    BY StepsAre
  <2>2. Renamed(x, s1, "oldText")
    BY <1>n, <2>1, AliasRenames
  <2> QED
    BY <2>2 DEF Renamed
<1>2. KeepsTexts(x, s1) /\ Formed(x, s1)
  BY <1>1, KeepsRenamed, FormedKeeps, FormedAtFirst
<1>3. \A n \in NamesOf("newText") : At(s1, n) = At(x, n)
  <2>1. \A j : j \notin Touched("alias-oldText") => At(s1, j) = At(x, j)
    BY StepTouches, EachRulesAre
  <2>2. NamesOf("newText") \cap NamesOf("oldText") = {}
    BY <1>n, NamesDiffer
  <2> QED
    BY <2>1, <2>2, TouchedAre
<1> HIDE DEF s1
<1>4. IsRecord(s2) /\ Renamed(s1, s2, "newText")
  <2>1. s2 = After(ExactAlias(s1, "newText"), s1)
    BY <1>1, StepsAre
  <2>2. Renamed(s1, s2, "newText")
    BY <1>n, <1>1, <2>1, AliasRenames
  <2> QED
    BY <2>2 DEF Renamed
<1> HIDE DEF s2
<1>5. Formed(x, s2) /\ Told(x, s2)
  BY <1>1, <1>2, <1>3, <1>4, KeepsRenamed, FormedKeeps, ToldRenamed
<1>6. IsRecord(s3) /\ Renamed(s2, s3, "path")
  <2>1. s3 = After(ExactAlias(s2, "path"), s2)
    BY <1>4, StepsAre
  <2>2. Renamed(s2, s3, "path")
    BY <1>n, <1>4, <2>1, AliasRenames
  <2> QED
    BY <2>2 DEF Renamed
<1> HIDE DEF s3
<1>7. Formed(x, s3) /\ Told(x, s3)
  BY <1>4, <1>5, <1>6, KeepsRenamed, FormedKeeps, ToldKeeps
<1>8. Formed(x, s4) /\ Told(x, s4)
  <2>1. s4 = After(InferDeletion(s3), s3)
    BY <1>6, StepsAre
  <2> HIDE DEF s4
  <2> QED
    BY <1>7, <2>1, FormedDeletion
<1> HIDE DEF s4
<1>9. Formed(x, s5) /\ Told(x, s5)
  <2>1. s5 = After(InferInsertion(s4), s4)
    BY <1>8, StepsAre DEF Formed
  <2> HIDE DEF s5
  <2> QED
    BY <1>8, <2>1, FormedInsertion
<1> QED
  BY <1>9 DEF Five, s1, s2, s3, s4, s5

-----------------------------------------------------------------------------
(* The edits of a call, from the aliases to the end.                         *)

\* z is the element y with its texts; what is no object and no string stays.
Stays(y, z) == IF IsObj(y) THEN KeepsTexts(y, z) ELSE IsString(y) \/ z = y

\* z are the edits x, place by place.
StayEdits(x, z) ==
  /\ IsJson(z) /\ IsArr(z) /\ IsListed(z.e) /\ DOMAIN z.e = DOMAIN x.e
  /\ \A i \in DOMAIN x.e : Stays(x.e[i], z.e[i])

LEMMA StaysSame == ASSUME NEW y, IsJson(y) PROVE Stays(y, y)
<1>1. IsObj(y) => KeepsTexts(y, y)
  <2>1. IsObj(y) => IsRecord(y)
    BY DEF IsRecord
  <2> QED
    BY <2>1, KeepsSame
<1> QED
  BY <1>1 DEF Stays

LEMMA StaysOn == ASSUME NEW x, NEW y, NEW z, Stays(x, y), Stays(y, z) PROVE Stays(x, z)
<1>1. CASE IsObj(x)
  <2>1. KeepsTexts(x, y) /\ IsObj(y)
    BY <1>1 DEF Stays, KeepsTexts, IsRecord
  <2>2. KeepsTexts(y, z)
    BY <2>1 DEF Stays
  <2> QED
    BY <1>1, <2>1, <2>2, KeepsOn DEF Stays
<1>2. CASE ~IsObj(x)
  BY <1>2 DEF Stays
<1> QED
  BY <1>1, <1>2

LEMMA StayEditsSame ==
  ASSUME NEW x, IsJson(x), IsArr(x)
  PROVE  StayEdits(x, x)
<1>1. IsListed(x.e) /\ \A i \in DOMAIN x.e : IsJson(x.e[i])
  BY ArrIs
<1> QED
  BY <1>1, StaysSame DEF StayEdits

LEMMA StayEditsOn ==
  ASSUME NEW x, NEW y, NEW z, StayEdits(x, y), StayEdits(y, z)
  PROVE  StayEdits(x, z)
<1>1. \A i \in DOMAIN x.e : Stays(x.e[i], y.e[i]) /\ Stays(y.e[i], z.e[i])
  BY DEF StayEdits
<1>2. \A i \in DOMAIN x.e : Stays(x.e[i], z.e[i])
  BY <1>1, StaysOn
<1> QED
  BY <1>2 DEF StayEdits

\* An element in a pass.
LEMMA RepairStays == ASSUME NEW y, IsJson(y) PROVE Stays(y, RepairEdit(y).v)
<1>1. CASE IsObj(y)
  <2>1. MendsEdit(y, RepairEdit(y).v)
    BY <1>1, RepairEditIs DEF IsRecord
  <2> QED
    BY <1>1, <2>1, KeepsMended DEF Stays
<1>2. CASE ~IsObj(y) /\ ~IsString(y)
  <2>1. ~Strict(y)
    BY <1>2, Encoded
  <2>2. RepairEdit(y).v = y
    BY <1>2, <2>1 DEF RepairEdit
  <2> QED
    BY <1>2, <2>2 DEF Stays
<1>3. CASE IsString(y)
  <2>1. ~IsObj(y)
    BY <1>3, KindsDiffer
  <2> QED
    BY <1>3, <2>1 DEF Stays
<1> QED
  BY <1>1, <1>2, <1>3

LEMMA PassStays ==
  ASSUME NEW v, IsRecord(v), IsArr(At(v, "edits")), NEW w, Passed(v, w)
  PROVE  StayEdits(At(v, "edits"), At(w, "edits"))
<1> DEFINE x == At(v, "edits")
           z == At(w, "edits")
<1>1. JsonOrNone(x) /\ IsJson(x)
  BY AtIsJson, KindsDiffer DEF IsRecord, JsonOrNone
<1>2. z = MendedEdits(x)
  BY DEF Passed, MendsRoot
<1>3. \A i \in DOMAIN x.e : IsJson(x.e[i])
  BY <1>1, ArrIs
<1>4. /\ IsJson(z) /\ IsArr(z) /\ IsListed(z.e) /\ DOMAIN z.e = DOMAIN x.e
      /\ \A i \in DOMAIN x.e : z.e[i] = RepairEdit(x.e[i]).v
  BY <1>1, <1>2, MendedEditsAre
<1> HIDE DEF x, z
<1>5. \A i \in DOMAIN x.e : Stays(x.e[i], z.e[i])
  BY <1>3, <1>4, RepairStays
<1>6. StayEdits(x, z)
  BY <1>4, <1>5 DEF StayEdits
<1> QED
  BY <1>6 DEF x, z

\* The passes keep the texts of each edit.
LEMMA ChainStayEdits ==
  ASSUME NEW v, IsRecord(v), IsArr(At(v, "edits")), NEW w, NEW g, IsChain(g, v, w)
  PROVE  StayEdits(At(v, "edits"), At(w, "edits"))
<1> DEFINE x == At(v, "edits")
           S == {k \in 0 .. MaxPasses : IsRecord(g[k]) /\ StayEdits(x, At(g[k], "edits"))}
<1>1. MaxPasses \in Nat
  BY RepairAssumption
<1>2. 0 \in S
  <2>1. IsJson(x)
    BY AtIsJson, KindsDiffer DEF IsRecord, JsonOrNone
  <2>2. StayEdits(x, x) /\ g[0] = v
    BY <2>1, StayEditsSame DEF IsChain
  <2> QED
    BY <1>1, <2>2
<1> HIDE DEF x
<1>3. ASSUME NEW k \in 0 .. MaxPasses - 1, k \in S PROVE k + 1 \in S
  <2>1. k + 1 \in 1 .. MaxPasses /\ (k + 1) - 1 = k /\ k + 1 \in 0 .. MaxPasses
    BY <1>1
  <2>2. g[k + 1] = g[k] \/ Passed(g[k], g[k + 1])
    BY <2>1 DEF IsChain
  <2>3. IsRecord(g[k]) /\ StayEdits(x, At(g[k], "edits")) /\ IsArr(At(g[k], "edits"))
    BY <1>3 DEF StayEdits
  <2>4. CASE Passed(g[k], g[k + 1])
    <3>1. IsRecord(g[k + 1])
      BY <2>4 DEF Passed, MendsRoot
    <3>2. StayEdits(At(g[k], "edits"), At(g[k + 1], "edits"))
      BY <2>3, <2>4, PassStays
    <3> QED
      BY <2>1, <2>3, <3>1, <3>2, StayEditsOn
  <2> QED
    BY <2>1, <2>2, <2>3, <2>4
<1> HIDE DEF S
<1>4. MaxPasses \in S
  BY <1>1, <1>2, <1>3, UpTo
<1> QED
  BY <1>4 DEF S, IsChain, x

\* What repair ends at has no null texts.
LEMMA EndsWithoutNull ==
  ASSUME NEW w, Ends(w), IsArr(At(w, "edits")),
         NEW i \in DOMAIN At(w, "edits").e, IsRecord(At(w, "edits").e[i])
  PROVE  \A k \in EditNames : At(At(w, "edits").e[i], k) # Null
<1> DEFINE y == At(w, "edits").e[i]
<1>1. CASE Valid(w)
  <2>1. IsEdit(y) /\ (At(y, "anchor") = Absent \/ IsString(At(y, "anchor")))
    BY <1>1, ValidIs
  <2> HIDE DEF y
  <2>2. At(y, "oldText") # Null /\ At(y, "newText") # Null
    BY <2>1, EditHas
  <2>3. At(y, "anchor") # Null
    BY <2>1, KindsDiffer, AbsentIsNone
  <2>4. \A k \in EditNames : At(y, k) # Null
    BY <2>2, <2>3 DEF EditNames
  <2> QED
    BY <2>4 DEF y
<1>2. CASE Still(w)
  <2>1. RepairEdit(y).n = 0
    BY <1>2 DEF Still, StillEdits
  <2>2. IsRecord(y)
    OBVIOUS
  <2> HIDE DEF y
  <2>3. \A k \in EditNames : ~Fixable(y, k)
    BY <2>1, <2>2, RepairEditIs
  <2>4. \A k \in EditNames : At(y, k) # Null
    BY <2>3 DEF Fixable
  <2> QED
    BY <2>4 DEF y
<1> QED
  BY <1>1, <1>2 DEF Ends

-----------------------------------------------------------------------------
(* The edits once preprocessed.                                              *)

\* The path that is hoisted is no text.
LEMMA HoistStays ==
  ASSUME NEW b, IsRecord(b), NEW c, c = After(HoistNestedPath(b), b)
  PROVE  /\ IsRecord(c)
         /\ IF IsArr(At(b, "edits")) THEN StayEdits(At(b, "edits"), At(c, "edits")) ELSE c = b
         /\ \A j : j \notin {"path", "edits"} => At(c, j) = At(b, j)
<1> DEFINE x == At(b, "edits")
           r == HoistNestedPath(b)
           g == [i \in DOMAIN x.e |-> Cleaned(x.e[i])]
<1>1. /\ r.hit \in BOOLEAN
      /\ r.hit => /\ IsArr(x) /\ IsRecord(r.v) /\ At(r.v, "edits") = Arr(g)
                  /\ \A j : j \notin {"path", "edits"} => At(r.v, j) = At(b, j)
  BY HoistIs
<1>2. IsArr(x) => IsJson(x)
  BY AtIsJson, KindsDiffer DEF IsRecord, JsonOrNone
<1>3. ASSUME r.hit PROVE StayEdits(x, Arr(g))
  <2>1. IsJson(x) /\ IsArr(x) /\ \A i \in DOMAIN x.e : IsJson(x.e[i])
    BY <1>1, <1>2, <1>3, ArrIs
  <2>2. DOMAIN g = DOMAIN x.e /\ g = [i \in DOMAIN g |-> g[i]]
    OBVIOUS
  <2>3. \A i \in DOMAIN x.e : g[i] = Cleaned(x.e[i]) /\ IsJson(g[i])
    BY <2>1, CleanedIs
  <2>4. ASSUME NEW i \in DOMAIN x.e PROVE Stays(x.e[i], g[i])
    <3>1. CASE IsObj(x.e[i])
      <4>1. IsRecord(g[i])
        BY <2>1, <2>3, <3>1, CleanedIs DEF IsRecord
      <4>2. \A j : j # "path" => At(g[i], j) = At(x.e[i], j)
        BY <2>1, <2>3, CleanedIs
      <4>3. "path" \in NamesOf("path")
        BY AliasesAre
      <4>4. KeepsTexts(x.e[i], g[i])
        BY <4>1, <4>2, <4>3, KeepsOthers
      <4> QED
        BY <3>1, <4>4 DEF Stays
    <3>2. CASE ~IsObj(x.e[i])
      BY <2>3, <3>2 DEF Cleaned, Stays
    <3> QED
      BY <3>1, <3>2
  <2> HIDE DEF g
  <2>5. IsJson(Arr(g)) /\ IsArr(Arr(g)) /\ Arr(g).e = g /\ IsListed(g)
    BY <2>1, <2>2, <2>3, RewrittenIs
  <2> QED
    BY <2>2, <2>4, <2>5 DEF StayEdits
<1> HIDE DEF r, g
<1>4. CASE r.hit
  <2>1. c = r.v
    BY <1>4 DEF After, r
  <2> QED
    BY <1>1, <1>3, <1>4, <2>1
<1>5. CASE ~r.hit
  <2>1. c = b
    BY <1>5 DEF After, r
  <2> QED
    BY <1>2, <2>1, StayEditsSame
<1> QED
  BY <1>1, <1>4, <1>5

\* z is made of the element x.
FormedOf(x, z) ==
  IF IsObj(x) THEN Formed(x, z) /\ Told(x, z) ELSE IsString(x) \/ z = x

\* z are made of the edits x, place by place.
FormEdits(x, z) ==
  /\ IsJson(z) /\ IsArr(z) /\ IsListed(z.e) /\ DOMAIN z.e = DOMAIN x.e
  /\ \A i \in DOMAIN x.e : FormedOf(x.e[i], z.e[i])

LEMMA EachForms ==
  ASSUME NEW x, IsJson(x), IsArr(x)
  PROVE  FormEdits(x, EachEdit(x))
<1> DEFINE z == EachEdit(x)
<1>1. \A i \in DOMAIN x.e : IsJson(x.e[i])
  BY ArrIs
<1>2. /\ IsJson(z) /\ IsArr(z) /\ IsListed(z.e) /\ DOMAIN z.e = DOMAIN x.e
      /\ \A i \in DOMAIN x.e : z.e[i] = Five(x.e[i])
  BY EachEditOf DEF JsonOrNone
<1> HIDE DEF z
<1>3. ASSUME NEW i \in DOMAIN x.e PROVE FormedOf(x.e[i], z.e[i])
  <2>1. CASE IsObj(x.e[i])
    BY <1>1, <1>2, <2>1, FiveForms DEF FormedOf, IsRecord
  <2>2. CASE ~IsObj(x.e[i])
    <3>1. Five(x.e[i]) = x.e[i]
      BY <2>2 DEF Five, Step
    <3> QED
      BY <1>2, <2>2, <3>1 DEF FormedOf
  <2> QED
    BY <2>1, <2>2
<1>4. FormEdits(x, z)
  BY <1>2, <1>3 DEF FormEdits
<1> QED
  BY <1>4 DEF z

LEMMA FormStay ==
  ASSUME NEW x, NEW y, NEW z, FormEdits(x, y), StayEdits(y, z)
  PROVE  FormEdits(x, z)
<1>1. ASSUME NEW i \in DOMAIN x.e PROVE FormedOf(x.e[i], z.e[i])
  <2>1. FormedOf(x.e[i], y.e[i]) /\ Stays(y.e[i], z.e[i])
    BY DEF FormEdits, StayEdits
  <2>2. CASE IsObj(x.e[i])
    <3>1. Formed(x.e[i], y.e[i]) /\ Told(x.e[i], y.e[i]) /\ IsObj(y.e[i])
      BY <2>1, <2>2 DEF FormedOf, Formed, IsRecord
    <3>2. KeepsTexts(y.e[i], z.e[i])
      BY <2>1, <3>1 DEF Stays
    <3> QED
      BY <2>2, <3>1, <3>2, FormedKeeps, ToldKeeps DEF FormedOf
  <2>3. CASE ~IsObj(x.e[i])
    BY <2>1, <2>3 DEF FormedOf, Stays
  <2> QED
    BY <2>2, <2>3
<1> QED
  BY <1>1 DEF FormEdits, StayEdits

\* The edits that were parsed, each as it is formed, and the one that is folded.
LEMMA PreparedEdits ==
  ASSUME NEW u, IsRecord(u), NEW a, NEW b, NEW c, NEW d, Prepares(u, a, b, c, d)
  PROVE  LET y == NormalEdits(At(u, "edits"))
             z == At(c, "edits")
         IN
         /\ IsRecord(c) /\ IsRecord(d) /\ JsonOrNone(y)
         /\ IF IsArr(y) THEN FormEdits(y, z) ELSE z = y
         /\ \A j \in FoldedFields : At(c, j) = At(u, j)
         /\ IF FoldMisses(c) THEN At(d, "edits") = z
            ELSE At(d, "edits") = Arr(IF IsArr(z) THEN Append(z.e, Folded(c)) ELSE <<Folded(c)>>)
<1> DEFINE y == NormalEdits(At(u, "edits"))
           z == At(c, "edits")
           v == After(ExactAlias(a, "path"), a)
<1>n. /\ "path" \in Named /\ "edits" \notin NamesOf("path") /\ "path" \in NamesOf("path")
      /\ \A j \in FoldedFields : j # "edits" /\ j # "path" /\ j \notin NamesOf("path")
  BY AliasesAre DEF Named, FoldedFields
<1>1. Set(u, a, "edits", y) /\ Set(v, b, "edits", EachEdit(At(a, "edits")))
      /\ c = After(HoistNestedPath(b), b) /\ d = After(FlatFold(c), c)
      /\ IsRecord(c) /\ IsRecord(d)
  BY DEF Prepares
<1>2. IsRecord(a) /\ JsonOrNone(y)
  <2>1. IsRecord(a) /\ At(a, "edits") = y
    BY <1>1 DEF Set
  <2> QED
    BY <2>1, AtIsJson DEF IsRecord
<1> HIDE DEF y
<1>3. Renamed(a, v, "path")
  BY <1>2, <1>n, AliasRenames
<1> HIDE DEF v
<1>4. \A j : j \notin NamesOf("path") => At(v, j) = At(a, j)
  <2>1. CASE v = a
    BY <2>1
  <2>2. CASE v # a
    <3>1. PICK m \in NamesOf("path") : Moved(a, v, "path", m)
      BY <1>3, <2>2 DEF Renamed
    <3>2. \A j : At(v, j) = IF j = "path" THEN At(a, m) ELSE IF j = m THEN Absent ELSE At(a, j)
      BY <3>1 DEF Moved
    <3>3. \A j : j \notin NamesOf("path") => j # "path" /\ j # m
      BY <1>n
    <3> QED
      BY <3>2, <3>3
  <2> QED
    BY <2>1, <2>2
<1>5. IsRecord(b) /\ At(b, "edits") = EachEdit(y) /\ \A j \in FoldedFields : At(b, j) = At(u, j)
  BY <1>1, <1>4, <1>n DEF Set
<1>6. /\ IF IsArr(At(b, "edits")) THEN StayEdits(At(b, "edits"), z) ELSE c = b
      /\ \A j : j \notin {"path", "edits"} => At(c, j) = At(b, j)
  BY <1>1, <1>5, HoistStays
<1>7. IF IsArr(y) THEN FormEdits(y, z) ELSE z = y
  <2>1. CASE IsArr(y)
    <3>1. IsJson(y)
      BY <1>2, <2>1, KindsDiffer DEF JsonOrNone
    <3>2. FormEdits(y, EachEdit(y)) /\ IsArr(EachEdit(y))
      BY <2>1, <3>1, EachForms DEF FormEdits
    <3>3. StayEdits(EachEdit(y), z)
      BY <1>5, <1>6, <3>2
    <3> QED
      BY <2>1, <3>2, <3>3, FormStay
  <2>2. CASE ~IsArr(y)
    <3>1. EachEdit(y) = y
      BY <1>2, <2>2, EachEditOf
    <3> QED
      BY <1>5, <1>6, <2>2, <3>1
  <2> QED
    BY <2>1, <2>2
<1>8. \A j \in FoldedFields : At(c, j) = At(u, j)
  BY <1>5, <1>6, <1>n
<1>9. /\ FlatFold(c).hit \in BOOLEAN /\ (FlatFold(c).hit <=> ~FoldMisses(c))
      /\ FlatFold(c).hit => At(FlatFold(c).v, "edits") =
           Arr(IF IsArr(z) THEN Append(z.e, Folded(c)) ELSE <<Folded(c)>>)
  BY <1>1, FlatFoldIs
<1>10. IF FoldMisses(c) THEN At(d, "edits") = z
       ELSE At(d, "edits") = Arr(IF IsArr(z) THEN Append(z.e, Folded(c)) ELSE <<Folded(c)>>)
  <2>1. CASE FlatFold(c).hit
    <3>1. d = FlatFold(c).v
      BY <1>1, <2>1 DEF After
    <3> QED
      BY <1>9, <2>1, <3>1
  <2>2. CASE ~FlatFold(c).hit
    <3>1. d = c
      BY <1>1, <2>2 DEF After
    <3> QED
      BY <1>9, <2>2, <3>1
  <2> QED
    BY <1>9, <2>1, <2>2
<1> QED
  BY <1>1, <1>2, <1>7, <1>8, <1>10 DEF y

-----------------------------------------------------------------------------
(* What an edit is made of.                                                  *)

\* A text that is given.
LEMMA TextGiven ==
  ASSUME NEW x, NEW names, NEW n \in names, NEW alone \in BOOLEAN, At(x, n) # Absent,
         At(x, n) # Null \/ alone
  PROVE  AsText(At(x, n)) \in TextsOf(x, names, alone)
BY DEF TextsOf

\* What is converted to a text, and to an empty one.
LEMMA TextIsGiven ==
  ASSUME NEW v, IsString(AsText(v))
  PROVE  v # Absent /\ (AsText(v) = Str("") => v = Str(""))
<1>1. AsText(Absent) = Absent /\ ~IsString(Absent)
  BY AsTextIs, KindsDiffer, AbsentIsNone
<1>2. Str("null") # Str("") /\ Str("5") # Str("")
  <2>1. Str("null").s = "null" /\ Str("5").s = "5" /\ Str("").s = ""
    BY DEF Str
  <2> QED
    BY <2>1
<1>3. AsText(Null) = Str("null") /\ AsText(Num) = Str("5") /\ (v \notin {Null, Num} => AsText(v) = v)
  BY AsTextIs
<1> QED
  BY <1>1, <1>2, <1>3

\* The names an edit's texts are sent under.
LEMMA OwnNames ==
  /\ "oldText" \in NamesOf("oldText") /\ "old_str" \in NamesOf("oldText")
  /\ "newText" \in NamesOf("newText") /\ "new_str" \in NamesOf("newText")
  /\ TextField("oldText") /\ TextField("newText") /\ TextField("anchor")
BY AliasesAre DEF TextField

\* The edit e comes from the entry x of u.
ComesFrom(u, x, e) ==
  /\ MadeOf(e, x, SentAlone(u))
  /\ At(e, "newText") = Str("") => SaysDelete(x, e) \/ FoldsDelete(u, e)

LEMMA ComesFromArray ==
  ASSUME NEW u, NEW x, NEW y, Formed(x, y), Told(x, y), \A k \in EditNames : At(y, k) # Null,
         NEW e, e = ConvertEdit(y), IsEdit(e)
  PROVE  ComesFrom(u, x, e)
<1> DEFINE alone == SentAlone(u)
<1>0. alone \in BOOLEAN
  BY DEF SentAlone
<1> HIDE DEF alone
<1>1. /\ At(e, "oldText") = AsText(At(y, "oldText")) /\ At(e, "newText") = AsText(At(y, "newText"))
      /\ At(e, "anchor") = AsText(At(y, "anchor"))
  BY ConvertEditIs, OwnNames DEF Formed, IsRecord
<1>2. IsString(At(e, "oldText")) /\ IsString(At(e, "newText"))
  BY EditHas
<1>3. /\ At(y, "oldText") \notin {Absent, Null} /\ At(y, "newText") \notin {Absent, Null}
      /\ At(y, "anchor") # Null
  BY <1>1, <1>2, TextIsGiven DEF EditNames
<1>4. At(e, "oldText") \in TextsOf(x, NamesOf("oldText") \cup {"anchor"}, alone)
  <2>1. At(y, "oldText") \in ValuesOf(x, NamesOf("oldText") \cup {"anchor"})
    BY OwnNames DEF Formed
  <2>2. PICK n \in NamesOf("oldText") \cup {"anchor"} : At(y, "oldText") = At(x, n)
    BY <1>3, <2>1 DEF ValuesOf
  <2> QED
    BY <1>0, <1>1, <1>3, <2>2, TextGiven
<1>5. At(e, "newText") \in TextsOf(x, NamesOf("newText"), alone) \cup {Str("")}
  <2>1. At(y, "newText") \in ValuesOf(x, NamesOf("newText")) \cup {Str("")}
    BY OwnNames DEF Formed
  <2>2. CASE At(y, "newText") = Str("")
    BY <1>1, <2>2, AsTextIs, KindsDiffer
  <2>3. CASE At(y, "newText") # Str("")
    <3>1. PICK n \in NamesOf("newText") : At(y, "newText") = At(x, n)
      BY <1>3, <2>1, <2>3 DEF ValuesOf
    <3>2. AsText(At(x, n)) \in TextsOf(x, NamesOf("newText"), alone)
      BY <1>0, <1>3, <3>1, TextGiven
    <3> QED
      BY <1>1, <3>1, <3>2
  <2> QED
    BY <2>2, <2>3
<1>6. At(e, "anchor") \in TextsOf(x, {"anchor"}, alone) \cup {Absent}
  <2>1. CASE At(y, "anchor") = Absent
    BY <1>1, <2>1, AsTextIs, AbsentIsNone
  <2>2. CASE At(y, "anchor") # Absent
    <3>1. At(y, "anchor") = At(x, "anchor")
      BY <2>2 DEF Formed
    <3>2. AsText(At(x, "anchor")) \in TextsOf(x, {"anchor"}, alone)
      BY <1>0, <1>3, <2>2, <3>1, TextGiven
    <3> QED
      BY <1>1, <3>1, <3>2
  <2> QED
    BY <2>1, <2>2
<1>7. IsEdit(x) => \A k \in Required : At(e, k) = At(x, k)
  <2>1. ASSUME IsEdit(x) PROVE \A k \in Required : At(y, k) = At(x, k) /\ IsString(At(x, k))
    BY <2>1 DEF Formed, IsEdit
  <2>2. ASSUME IsEdit(x) PROVE \A k \in Required : AsText(At(x, k)) = At(x, k)
    BY <2>1, <2>2, AsTextIs
  <2>3. \A k \in Required : At(e, k) = AsText(At(y, k))
    BY <1>1 DEF Required
  <2> QED
    BY <2>1, <2>2, <2>3
<1>8. MadeOf(e, x, alone)
  BY <1>4, <1>5, <1>6, <1>7 DEF MadeOf
<1>9. ASSUME At(e, "newText") = Str("") PROVE SaysDelete(x, e)
  <2>1. At(y, "newText") = Str("")
    BY <1>1, <1>2, <1>9, TextIsGiven
  <2>2. ~IsSome(At(y, "newText"))
    BY <2>1 DEF IsSome
  <2>3. NamesNoNew(x)
    BY <2>2 DEF Told
  <2>4. At(y, "oldText") \in ValuesOf(x, NamesOf("oldText"))
    BY <2>2, OwnNames DEF Formed
  <2>5. PICK n \in NamesOf("oldText") : At(y, "oldText") = At(x, n)
    BY <1>3, <2>4 DEF ValuesOf
  <2> QED
    BY <1>1, <2>3, <2>5 DEF SaysDelete, NamesNoNew
<1> QED
  BY <1>8, <1>9 DEF ComesFrom, alone

LEMMA ComesFromLone ==
  ASSUME NEW u, SentAlone(u), NEW x, IsJson(x), NEW e, e = ConvertEdit(x), IsEdit(e)
  PROVE  ComesFrom(u, x, e)
<1>1. /\ At(e, "oldText") = AsText(At(x, "oldText")) /\ At(e, "newText") = AsText(At(x, "newText"))
      /\ At(e, "anchor") = AsText(At(x, "anchor"))
  BY ConvertEditIs, OwnNames
<1>2. IsString(At(e, "oldText")) /\ IsString(At(e, "newText"))
  BY EditHas
<1>3. At(x, "oldText") # Absent /\ At(x, "newText") # Absent
  BY <1>1, <1>2, TextIsGiven
<1>4. At(e, "oldText") \in TextsOf(x, NamesOf("oldText") \cup {"anchor"}, TRUE)
  BY <1>1, <1>3, OwnNames, TextGiven
<1>5. At(e, "newText") \in TextsOf(x, NamesOf("newText"), TRUE)
  BY <1>1, <1>3, OwnNames, TextGiven
<1>6. At(e, "anchor") \in TextsOf(x, {"anchor"}, TRUE) \cup {Absent}
  <2>1. CASE At(x, "anchor") = Absent
    BY <1>1, <2>1, AsTextIs, AbsentIsNone
  <2>2. CASE At(x, "anchor") # Absent
    BY <1>1, <2>2, TextGiven
  <2> QED
    BY <2>1, <2>2
<1>7. IsEdit(x) => \A k \in Required : At(e, k) = At(x, k)
  <2>1. ASSUME IsEdit(x) PROVE \A k \in Required : AsText(At(x, k)) = At(x, k)
    BY <2>1, AsTextIs DEF IsEdit
  <2>2. \A k \in Required : At(e, k) = AsText(At(x, k))
    BY <1>1 DEF Required
  <2> QED
    BY <2>1, <2>2
<1>8. MadeOf(e, x, SentAlone(u))
  <2>1. MadeOf(e, x, TRUE)
    BY <1>4, <1>5, <1>6, <1>7 DEF MadeOf
  <2>2. SentAlone(u) = TRUE
    BY DEF SentAlone
  <2> QED
    BY <2>1, <2>2
<1>9. ASSUME At(e, "newText") = Str("") PROVE SaysDelete(x, e)
  <2>1. At(x, "newText") = Str("")
    BY <1>1, <1>2, <1>9, TextIsGiven
  <2> QED
    BY <1>1, <2>1, OwnNames DEF SaysDelete
<1> QED
  BY <1>8, <1>9 DEF ComesFrom

LEMMA ComesFromTop ==
  ASSUME NEW u, NEW c, IsRecord(c), ~FoldMisses(c), \A j \in FoldedFields : At(c, j) = At(u, j),
         NEW y, KeepsTexts(Folded(c), y), NEW e, e = ConvertEdit(y)
  PROVE  ComesFrom(u, u, e)
<1> DEFINE alone == SentAlone(u)
           x == Folded(c)
           old == FirstString(u, "oldText", "old_str")
           new == FirstString(u, "newText", "new_str")
<1>0. alone \in BOOLEAN
  BY DEF SentAlone
<1> HIDE DEF alone
<1>1. /\ At(c, "oldText") = At(u, "oldText") /\ At(c, "old_str") = At(u, "old_str")
      /\ At(c, "newText") = At(u, "newText") /\ At(c, "new_str") = At(u, "new_str")
      /\ At(c, "anchor") = At(u, "anchor")
  BY DEF FoldedFields
<1>2. FirstString(c, "oldText", "old_str") = old /\ FirstString(c, "newText", "new_str") = new
  BY <1>1 DEF FirstString
<1>3. old # Absent /\ new # Absent
  BY <1>2 DEF FoldMisses
<1> HIDE DEF old, new
<1>4. /\ IsString(old) /\ old \in {At(u, "oldText"), At(u, "old_str")}
      /\ IsString(new) /\ new \in {At(u, "newText"), At(u, "new_str")}
      /\ IsString(At(u, "oldText")) => old = At(u, "oldText")
      /\ IsString(At(u, "newText")) => new = At(u, "newText")
  BY <1>3, FirstStringIs DEF old, new
<1>5. /\ At(x, "oldText") = old /\ At(x, "newText") = new
      /\ At(x, "anchor") = IF IsString(At(u, "anchor")) THEN At(u, "anchor") ELSE Absent
  BY <1>1, <1>2, FoldedIs
<1> HIDE DEF x
<1>6. At(y, "oldText") = old /\ At(y, "newText") = new /\ At(y, "anchor") \in {Absent, At(x, "anchor")}
  <2>1. ~Missing(x, "oldText") /\ ~Missing(x, "newText")
    BY <1>4, <1>5, KindsDiffer DEF Missing
  <2>2. NamesOf("anchor") = {"anchor"}
    BY NamesDiffer
  <2> QED
    BY <1>5, <2>1, <2>2 DEF KeepsTexts, EditNames, x
<1>7. At(e, "oldText") = old /\ At(e, "newText") = new
  <2>1. /\ At(e, "oldText") = AsText(At(y, "oldText")) /\ At(e, "newText") = AsText(At(y, "newText"))
    BY ConvertEditIs, OwnNames DEF KeepsTexts, IsRecord
  <2> QED
    BY <1>4, <1>6, <2>1, AsTextIs
<1>8. At(e, "anchor") \in TextsOf(u, {"anchor"}, alone) \cup {Absent}
  <2>1. At(e, "anchor") = AsText(At(y, "anchor"))
    BY ConvertEditIs, OwnNames DEF KeepsTexts, IsRecord
  <2>2. CASE At(y, "anchor") = Absent
    BY <2>1, <2>2, AsTextIs, AbsentIsNone
  <2>3. CASE At(y, "anchor") # Absent
    <3>1. At(y, "anchor") = At(u, "anchor") /\ IsString(At(u, "anchor"))
      BY <1>5, <1>6, <2>3
    <3> QED
      BY <1>0, <2>1, <3>1, TextGiven, KindsDiffer
  <2> QED
    BY <2>2, <2>3
<1>9. At(e, "oldText") \in TextsOf(u, NamesOf("oldText") \cup {"anchor"}, alone)
  <2>1. PICK n \in NamesOf("oldText") \cup {"anchor"} : At(u, n) = old
    BY <1>4, OwnNames
  <2>2. AsText(At(u, n)) = old /\ At(u, n) \notin {Absent, Null}
    BY <1>4, <2>1, AsTextIs, KindsDiffer
  <2> QED
    BY <1>0, <1>7, <2>1, <2>2, TextGiven
<1>10. At(e, "newText") \in TextsOf(u, NamesOf("newText"), alone)
  <2>1. PICK n \in NamesOf("newText") : At(u, n) = new
    BY <1>4, OwnNames
  <2>2. AsText(At(u, n)) = new /\ At(u, n) \notin {Absent, Null}
    BY <1>4, <2>1, AsTextIs, KindsDiffer
  <2> QED
    BY <1>0, <1>7, <2>1, <2>2, TextGiven
<1>11. IsEdit(u) => \A k \in Required : At(e, k) = At(u, k)
  BY <1>4, <1>7 DEF IsEdit, Required
<1>12. MadeOf(e, u, alone)
  BY <1>8, <1>9, <1>10, <1>11 DEF MadeOf
<1>13. At(e, "newText") = Str("") => FoldsDelete(u, e)
  BY <1>4, <1>7 DEF FoldsDelete, new
<1> QED
  BY <1>12, <1>13 DEF ComesFrom, alone

-----------------------------------------------------------------------------
(* Where the edits come from.                                                *)

\* Each of the edits q comes from an entry of u, in order and with none of the
\* complete ones missing.
ComesInOrder(u, q) ==
  \E at \in [DOMAIN q -> DOMAIN EntriesOf(u)] :
    /\ \A i, j \in DOMAIN q : i < j => at[i] < at[j]
    /\ \A i \in DOMAIN q : ComesFrom(u, EntriesOf(u)[at[i]], q[i])
    /\ \A j \in DOMAIN EntriesOf(u) : IsEdit(EntriesOf(u)[j]) => \E i \in DOMAIN q : at[i] = j

\* The first k of l edits q come from those at the places up, one more from the top
\* level.
PlacedAt(u, q, k, up, l) ==
  /\ k \in Nat /\ l \in {k, k + 1} /\ DOMAIN q = 1 .. l
  /\ \A i \in 1 .. k : up[i] \in DOMAIN Nested(u) /\ ComesFrom(u, Nested(u)[up[i]], q[i])
  /\ \A i, j \in 1 .. k : i < j => up[i] < up[j]
  /\ \A j \in DOMAIN Nested(u) : IsEdit(Nested(u)[j]) => \E i \in 1 .. k : up[i] = j
  /\ l = k + 1 => ComesFrom(u, u, q[l])
  /\ IsEdit(u) => l = k + 1

LEMMA PlacedBy ==
  ASSUME NEW u, IsRecord(u), NEW q, NEW k, NEW up, NEW l, PlacedAt(u, q, k, up, l)
  PROVE  ComesInOrder(u, q)
<1> DEFINE n == Nested(u)
<1>0. /\ k \in Nat /\ l \in {k, k + 1} /\ DOMAIN q = 1 .. l
      /\ \A i \in 1 .. k : up[i] \in DOMAIN n /\ ComesFrom(u, n[up[i]], q[i])
      /\ \A i, j \in 1 .. k : i < j => up[i] < up[j]
      /\ \A j \in DOMAIN n : IsEdit(n[j]) => \E i \in 1 .. k : up[i] = j
      /\ l = k + 1 => ComesFrom(u, u, q[l])
      /\ IsEdit(u) => l = k + 1
  BY DEF PlacedAt
<1> USE <1>0
<1> DEFINE E == EntriesOf(u)
           m == Len(n)
           at == [i \in 1 .. l |-> IF i <= k THEN up[i] ELSE m + 1]
<1>1. m \in Nat /\ DOMAIN n = 1 .. m /\ IsListed(n)
  BY NestedListed, ListIs
<1>2. DOMAIN E = 1 .. m + 1 /\ E[m + 1] = u /\ \A i \in 1 .. m : E[i] = n[i]
  BY <1>1, AppendIs DEF EntriesOf
<1> HIDE DEF E, m
<1>3. \A i \in 1 .. k : at[i] = up[i] /\ up[i] \in 1 .. m
  BY <1>1
<1>4. \A i \in 1 .. l : i \in 1 .. k \/ (i = k + 1 /\ l = k + 1 /\ at[i] = m + 1)
  OBVIOUS
<1>5. DOMAIN at = 1 .. l /\ at = [i \in DOMAIN at |-> at[i]]
  OBVIOUS
<1> HIDE DEF at
<1>6. at \in [DOMAIN q -> DOMAIN E]
  <2>1. \A i \in 1 .. l : at[i] \in 1 .. m + 1
    BY <1>1, <1>3, <1>4
  <2> QED
    BY <1>2, <1>5, <2>1
<1>7. \A i, j \in DOMAIN q : i < j => at[i] < at[j]
  <2> SUFFICES ASSUME NEW i \in 1 .. l, NEW j \in 1 .. l, i < j
               PROVE  at[i] < at[j]
    OBVIOUS
  <2>1. i \in 1 .. k
    BY <1>4
  <2>2. CASE j \in 1 .. k
    BY <1>3, <2>1, <2>2
  <2>3. CASE j = k + 1 /\ at[j] = m + 1
    BY <1>1, <1>3, <2>1, <2>3
  <2> QED
    BY <1>4, <2>2, <2>3
<1>8. \A i \in DOMAIN q : ComesFrom(u, E[at[i]], q[i])
  <2> SUFFICES ASSUME NEW i \in 1 .. l PROVE ComesFrom(u, E[at[i]], q[i])
    OBVIOUS
  <2>1. CASE i \in 1 .. k
    <3>1. E[at[i]] = n[up[i]]
      BY <1>2, <1>3, <2>1
    <3> QED
      BY <2>1, <3>1
  <2>2. CASE i = k + 1 /\ l = k + 1 /\ at[i] = m + 1
    <3>1. E[at[i]] = u /\ ComesFrom(u, u, q[l])
      BY <1>2, <2>2
    <3> QED
      BY <2>2, <3>1
  <2> QED
    BY <1>4, <2>1, <2>2
<1>9. ASSUME NEW j \in DOMAIN E, IsEdit(E[j]) PROVE \E i \in DOMAIN q : at[i] = j
  <2>1. j \in 1 .. m + 1
    BY <1>2
  <2>2. CASE j \in 1 .. m
    <3>1. IsEdit(n[j]) /\ j \in DOMAIN n
      BY <1>1, <1>2, <1>9, <2>2
    <3>2. PICK i \in 1 .. k : up[i] = j
      BY <3>1
    <3>3. i \in 1 .. l /\ at[i] = j
      BY <1>3, <3>2
    <3> QED
      BY <3>3
  <2>3. CASE j = m + 1
    <3>1. l = k + 1
      BY <1>2, <1>9, <2>3
    <3>2. l \in 1 .. l /\ l \notin 1 .. k
      BY <3>1
    <3>3. at[l] = m + 1
      BY <1>4, <3>2
    <3> QED
      BY <2>3, <3>2, <3>3
  <2> QED
    BY <1>1, <2>1, <2>2, <2>3
<1>10. ComesInOrder(u, q)
  BY <1>6, <1>7, <1>8, <1>9 DEF ComesInOrder, E
<1> QED
  BY <1>10

-----------------------------------------------------------------------------
(* Edits that stay without an array.                                         *)

\* What the repair of the array's site makes of an empty string.
OneEmpty == Arr(<<Str("")>>)

LEMMA LoneStays ==
  ASSUME NEW y, IsLone(y), NEW x, x \in {Absent, y, OneEmpty}
  PROVE  MendedEdits(x) \in {Absent, y, OneEmpty}
<1>0. RepairEdit(Str("")).v = Str("")
  <2> DEFINE a == Str("")
  <2>1. ~IsObj(a) /\ ~Strict(a)
    BY KindsDiffer, Encoded
  <2> HIDE DEF a
  <2>2. RepairEdit(a) = [v |-> a, n |-> 0]
    BY <2>1 DEF RepairEdit
  <2>3. RepairEdit(a).v = a
    BY <2>2
  <2> QED
    BY <2>3 DEF a
<1>1. CASE x = Absent
  <2>1. MendedEdits(x) = Absent
    BY <1>1, KindsDiffer, AbsentIsNone DEF MendedEdits, Arrayed, Hollow
  <2> QED
    BY <2>1
<1>2. CASE x = OneEmpty
  <2> DEFINE q == <<Str("")>>
             r == [i \in DOMAIN q |-> RepairEdit(q[i]).v]
  <2>1. IsListed(q) /\ Len(q) = 1 /\ DOMAIN q = {1} /\ q[1] = Str("")
    BY SingleIs
  <2>2. IsArr(x) /\ x.e = q
    BY <1>2, Encoded DEF OneEmpty
  <2> HIDE DEF q
  <2>3. r[1] = RepairEdit(q[1]).v
    BY <2>1
  <2>4. r = [i \in 1 .. 1 |-> r[i]]
    <3>1. DOMAIN q = 1 .. 1
      BY <2>1, ListIs
    <3> QED
      BY <3>1
  <2>5. r[1] = Str("")
    BY <1>0, <2>1, <2>3
  <2>6. MendedEdits(x) = Arr(r)
    BY <2>2 DEF MendedEdits
  <2> HIDE DEF r
  <2>7. IsListed(r) /\ Len(r) = 1
    BY <2>4, MakesList
  <2>8. r = q
    <3>1. ASSUME NEW i \in 1 .. Len(r) PROVE r[i] = q[i]
      <4>1. i = 1
        BY <2>7
      <4> QED
        BY <2>1, <2>5, <4>1
    <3> QED
      BY <2>1, <2>7, <3>1, SameList
  <2> QED
    BY <2>6, <2>8 DEF q, OneEmpty
<1>3. CASE x = y
  <2>1. CASE y = Str("")
    <3>1. ~Strict(x) /\ IsString(x) /\ ~IsArr(x) /\ x # Null /\ ~Hollow(x)
      BY <1>3, <2>1, KindsDiffer, Encoded DEF Hollow
    <3>2. MendedEdits(x) = Arr(<<x>>)
      BY <3>1 DEF MendedEdits, Arrayed
    <3> QED
      BY <1>3, <2>1, <3>2 DEF OneEmpty
  <2>2. CASE y # Str("")
    <3>1. ~IsString(x) /\ ~IsArr(x)
      BY <1>3, <2>2, KindsDiffer DEF IsLone
    <3>2. MendedEdits(x) \in {Absent, x}
      BY <3>1 DEF MendedEdits, Arrayed
    <3> QED
      BY <1>3, <3>2
  <2> QED
    BY <2>1, <2>2
<1> QED
  BY <1>1, <1>2, <1>3

LEMMA ChainLone ==
  ASSUME NEW v, NEW y, y = At(v, "edits"), IsLone(y), NEW w, NEW g, IsChain(g, v, w)
  PROVE  At(w, "edits") \in {Absent, y, OneEmpty}
<1> DEFINE T == {Absent, y, OneEmpty}
           S == {k \in 0 .. MaxPasses : At(g[k], "edits") \in T}
<1>1. MaxPasses \in Nat
  BY RepairAssumption
<1>2. 0 \in S
  <2>1. At(g[0], "edits") = y
    BY DEF IsChain
  <2> QED
    BY <1>1, <2>1
<1>3. ASSUME NEW x, NEW z, Passed(x, z), At(x, "edits") \in T PROVE At(z, "edits") \in T
  <2>1. At(z, "edits") = MendedEdits(At(x, "edits"))
    BY <1>3 DEF Passed, MendsRoot
  <2> QED
    BY <1>3, <2>1, LoneStays
<1> HIDE DEF T
<1>4. ASSUME NEW k \in 0 .. MaxPasses - 1, k \in S PROVE k + 1 \in S
  <2>1. k + 1 \in 1 .. MaxPasses /\ (k + 1) - 1 = k /\ k + 1 \in 0 .. MaxPasses
    BY <1>1
  <2>2. g[k + 1] = g[k] \/ Passed(g[k], g[k + 1])
    BY <2>1 DEF IsChain
  <2> QED
    BY <1>3, <1>4, <2>1, <2>2
<1> HIDE DEF S
<1>5. MaxPasses \in S
  BY <1>1, <1>2, <1>4, UpTo
<1> QED
  BY <1>5 DEF S, IsChain, T

\* They make valid arguments only where they are one edit.
LEMMA LoneValid ==
  ASSUME NEW w, IsRecord(w), Valid(Convert(w)), NEW y, IsLone(y),
         At(w, "edits") \in {Absent, y, OneEmpty}
  PROVE  LET F == At(Convert(w), "edits").e IN
         IsObj(y) /\ DOMAIN F = 1 .. 1 /\ F[1] = ConvertEdit(y) /\ IsEdit(F[1])
<1> DEFINE x == At(w, "edits")
           X == At(Convert(w), "edits")
<1>1. IsArr(X) /\ \A i \in DOMAIN X.e : IsEdit(X.e[i])
  BY ValidIs
<1>2. X = IF x = Absent THEN Absent ELSE ConvertEdits(x)
  BY ConvertIs
<1>3. JsonOrNone(x)
  BY AtIsJson DEF IsRecord
<1> HIDE DEF X, x
<1>4. x # Absent /\ X = ConvertEdits(x) /\ IsJson(x)
  BY <1>1, <1>2, <1>3, KindsDiffer DEF JsonOrNone
<1>5. /\ IsListed(X.e) /\ DOMAIN X.e = DOMAIN Listed(x)
      /\ \A i \in DOMAIN X.e : X.e[i] = ConvertEdit(Listed(x)[i])
  BY <1>4, ConvertEditsIs
<1>6. x # OneEmpty
  <2> SUFFICES ASSUME x = Arr(<<Str("")>>) PROVE FALSE
    BY DEF OneEmpty
  <2>1. Listed(x) = <<Str("")>> /\ DOMAIN <<Str("")>> = {1} /\ <<Str("")>>[1] = Str("")
    BY Encoded, SingleIs DEF Listed
  <2>2. X.e[1] = ConvertEdit(Str("")) /\ IsEdit(X.e[1])
    BY <1>1, <1>5, <2>1
  <2>3. ConvertEdit(Str("")) = Str("") /\ ~IsObj(Str(""))
    BY ConvertEditIs, AtomsAreJson, KindsDiffer
  <2> QED
    BY <2>2, <2>3, EditIsObj
<1>7. x = y
  BY <1>4, <1>6 DEF x
<1>8. ~IsArr(x)
  BY <1>7, KindsDiffer DEF IsLone
<1>9. DOMAIN X.e = {1} /\ X.e[1] = ConvertEdit(x)
  BY <1>4, <1>5, <1>8, ListedIs
<1>10. IsEdit(X.e[1]) /\ IsObj(x)
  BY <1>1, <1>4, <1>9, ConvertEditIs, EditIsObj
<1>11. {1} = 1 .. 1
  OBVIOUS
<1> QED
  BY <1>7, <1>9, <1>10, <1>11 DEF X

-----------------------------------------------------------------------------
(* The edits of repaired arguments.                                          *)

\* The edits of a call once converted.
LEMMA MadeEach ==
  ASSUME NEW d, IsRecord(d), NEW x, x = At(d, "edits"), IsArr(x), NEW w, Repairs(d, w)
  PROVE  LET z == At(w, "edits")
             F == At(Convert(w), "edits").e
         IN  /\ StayEdits(x, z) /\ DOMAIN F = DOMAIN x.e
             /\ \A i \in DOMAIN x.e :
                  /\ IsRecord(z.e[i]) /\ \A k \in EditNames : At(z.e[i], k) # Null
                  /\ F[i] = ConvertEdit(z.e[i]) /\ IsEdit(F[i])
<1> DEFINE z == At(w, "edits")
           X == At(Convert(w), "edits")
<1>1. IsRecord(w) /\ Ends(w) /\ Valid(Convert(w))
  BY DEF Repairs
<1>2. StayEdits(x, z)
  BY ChainStayEdits DEF Repairs
<1>3. IsArr(X) /\ \A i \in DOMAIN X.e : IsEdit(X.e[i])
  BY <1>1, ValidIs
<1>4. X = IF z = Absent THEN Absent ELSE ConvertEdits(z)
  BY <1>1, ConvertIs
<1> HIDE DEF X
<1>5. X = ConvertEdits(z) /\ IsJson(z) /\ IsArr(z)
  BY <1>2, <1>4, KindsDiffer DEF StayEdits
<1>6. DOMAIN z.e = DOMAIN x.e /\ \A i \in DOMAIN z.e : IsJson(z.e[i])
  BY <1>2, <1>5, ArrIs DEF StayEdits
<1>7. DOMAIN X.e = DOMAIN z.e /\ \A i \in DOMAIN X.e : X.e[i] = ConvertEdit(z.e[i])
  BY <1>5, ConvertEditsIs DEF Listed
<1>8. ASSUME NEW i \in DOMAIN x.e
      PROVE  /\ IsRecord(z.e[i]) /\ \A k \in EditNames : At(z.e[i], k) # Null
             /\ X.e[i] = ConvertEdit(z.e[i]) /\ IsEdit(X.e[i])
  <2>1. IsEdit(X.e[i]) /\ X.e[i] = ConvertEdit(z.e[i]) /\ IsJson(z.e[i]) /\ i \in DOMAIN z.e
    BY <1>3, <1>6, <1>7
  <2>2. IsRecord(z.e[i])
    BY <2>1, EditIsObj, ConvertEditIs DEF IsRecord
  <2> QED
    BY <1>1, <1>5, <2>1, <2>2, EndsWithoutNull
<1> QED
  BY <1>2, <1>6, <1>7, <1>8 DEF X

\* An edit that was sent in an array.
LEMMA MadeNested ==
  ASSUME NEW u, NEW x, IsJson(x), ~IsString(x), NEW y, FormedOf(x, y), NEW z, Stays(y, z),
         IsRecord(z), \A k \in EditNames : At(z, k) # Null,
         NEW e, e = ConvertEdit(z), IsEdit(e)
  PROVE  ComesFrom(u, x, e)
<1>1. IsObj(x)
  <2>1. ASSUME ~IsObj(x) PROVE FALSE
    <3>1. y = x
      BY <2>1 DEF FormedOf
    <3>2. z = x
      BY <2>1, <3>1 DEF Stays
    <3> QED
      BY <2>1, <3>2 DEF IsRecord
  <2> QED
    BY <2>1
<1>2. Formed(x, y) /\ Told(x, y)
  BY <1>1 DEF FormedOf
<1>3. KeepsTexts(y, z)
  BY <1>2 DEF Stays, Formed, IsRecord
<1>4. Formed(x, z) /\ Told(x, z)
  BY <1>2, <1>3, FormedKeeps, ToldKeeps
<1> QED
  BY <1>4, ComesFromArray

\* Texts at the top level that make an edit are folded.
LEMMA EditFolds ==
  ASSUME NEW u, IsEdit(u), NEW c, \A j \in FoldedFields : At(c, j) = At(u, j)
  PROVE  ~FoldMisses(c)
<1>1. At(c, "oldText") = At(u, "oldText") /\ At(c, "newText") = At(u, "newText")
  BY DEF FoldedFields
<1>2. IsString(At(c, "oldText")) /\ IsString(At(c, "newText"))
  BY <1>1, EditHas
<1>3. FirstString(c, "oldText", "old_str") # Absent /\ FirstString(c, "newText", "new_str") # Absent
  BY <1>2, FirstStringIs
<1> QED
  BY <1>3 DEF FoldMisses

\* The last edit, where one is folded.
LEMMA MadeFolded ==
  ASSUME NEW u, NEW c, IsRecord(c), ~FoldMisses(c), \A j \in FoldedFields : At(c, j) = At(u, j),
         NEW z, Stays(Folded(c), z), NEW e, e = ConvertEdit(z)
  PROVE  ComesFrom(u, u, e)
<1>1. IsObj(Folded(c))
  BY FoldedIs DEF IsRecord
<1>2. KeepsTexts(Folded(c), z)
  BY <1>1 DEF Stays
<1> QED
  BY <1>2, ComesFromTop

\* A complete edit is one that is kept.
LEMMA EditKept ==
  ASSUME NEW u, NEW j \in DOMAIN Nested(u), IsEdit(Nested(u)[j])
  PROVE  j \in Kept(u)
<1>1. IsObj(Nested(u)[j]) /\ At(Nested(u)[j], "oldText") # Absent
  BY EditIsObj, EditHas
<1>2. ~Hollow(Nested(u)[j])
  BY <1>1, StringAt DEF Hollow
<1> QED
  BY <1>2 DEF Kept

\* Edits that were sent, or became, an array.
LEMMA PlacedArray ==
  ASSUME NEW u, IsRecord(u), NEW n, n = Nested(u), \A i \in DOMAIN n : ~IsString(n[i]),
         NEW c, IsRecord(c), \A j \in FoldedFields : At(c, j) = At(u, j),
         NEW q, q = AtPlaces(n, Kept(u)), NEW z, FormEdits(Arr(q), z),
         NEW d, IsRecord(d), NEW x, x = At(d, "edits"),
         x = IF FoldMisses(c) THEN z ELSE Arr(Append(z.e, Folded(c))),
         NEW w, Repairs(d, w)
  PROVE  ComesInOrder(u, At(Convert(w), "edits").e)
<1> DEFINE K == Kept(u)
           k == Cardinality(K)
           up == Up(K)
           y == At(w, "edits")
           F == At(Convert(w), "edits").e
<1>1. IsListed(n) /\ \A i \in DOMAIN n : IsJson(n[i])
  BY NestedListed
<1>2. K \subseteq DOMAIN n
  BY DEF Kept
<1>3. \A j \in DOMAIN n : IsEdit(n[j]) => j \in K
  BY EditKept
<1> HIDE DEF K
<1>4. /\ IsOrder(up, K) /\ k \in Nat /\ DOMAIN up = 1 .. k
      /\ q = [i \in 1 .. k |-> n[up[i]]]
      /\ \A i \in 1 .. k : up[i] \in K
  BY <1>1, <1>2, AtUp DEF K
<1> HIDE DEF k, up
<1>5. /\ \A i, j \in 1 .. k : i < j => up[i] < up[j]
      /\ \A i \in K : \E j \in 1 .. k : up[j] = i
  BY <1>4 DEF IsOrder
<1>6. Arr(q).e = q /\ DOMAIN q = 1 .. k /\ \A i \in 1 .. k : q[i] = n[up[i]]
  BY <1>4, Encoded
<1>7. /\ IsJson(z) /\ IsArr(z) /\ IsListed(z.e) /\ DOMAIN z.e = 1 .. k
      /\ \A i \in 1 .. k : FormedOf(n[up[i]], z.e[i])
  BY <1>6 DEF FormEdits
<1>8. Len(z.e) = k
  <2>1. Len(z.e) \in Nat /\ DOMAIN z.e = 1 .. Len(z.e)
    BY <1>7, ListIs
  <2>2. DOMAIN z.e = 1 .. k
    BY <1>7
  <2> QED
    BY <1>4, <2>1, <2>2
<1> DEFINE l == IF FoldMisses(c) THEN k ELSE k + 1
<1>9. /\ IsArr(x) /\ DOMAIN x.e = 1 .. l
      /\ \A i \in 1 .. k : x.e[i] = z.e[i]
      /\ l = k + 1 => ~FoldMisses(c) /\ x.e[l] = Folded(c)
  <2>1. CASE FoldMisses(c)
    <3>1. x = z /\ l = k /\ l # k + 1
      BY <1>4, <2>1
    <3> QED
      BY <1>7, <2>1, <3>1
  <2>2. CASE ~FoldMisses(c)
    <3>1. IsArr(x) /\ x.e = Append(z.e, Folded(c))
      BY <2>2, Encoded
    <3>2. /\ DOMAIN Append(z.e, Folded(c)) = 1 .. k + 1
          /\ Append(z.e, Folded(c))[k + 1] = Folded(c)
          /\ \A i \in 1 .. k : Append(z.e, Folded(c))[i] = z.e[i]
          /\ l = k + 1
      BY <1>7, <1>8, <2>2, AppendIs
    <3> QED
      BY <2>2, <3>1, <3>2
  <2> QED
    BY <2>1, <2>2
<1>10. l \in {k, k + 1} /\ (IsEdit(u) => l = k + 1)
  BY EditFolds
<1> HIDE DEF l, y, F
<1>11. /\ StayEdits(x, y) /\ DOMAIN F = DOMAIN x.e
       /\ \A i \in DOMAIN x.e :
            /\ IsRecord(y.e[i]) /\ \A j \in EditNames : At(y.e[i], j) # Null
            /\ F[i] = ConvertEdit(y.e[i]) /\ IsEdit(F[i])
  BY <1>9, MadeEach DEF y, F
<1>12. \A i \in 1 .. l : Stays(x.e[i], y.e[i])
  BY <1>9, <1>11 DEF StayEdits
<1>13. ASSUME NEW i \in 1 .. k PROVE ComesFrom(u, n[up[i]], F[i])
  <2>1. i \in DOMAIN x.e /\ i \in 1 .. l
    BY <1>4, <1>9, <1>10
  <2>2. up[i] \in DOMAIN n
    BY <1>2, <1>4
  <2>3. IsJson(n[up[i]]) /\ ~IsString(n[up[i]])
    BY <1>1, <2>2
  <2>4. FormedOf(n[up[i]], z.e[i]) /\ Stays(z.e[i], y.e[i])
    BY <1>7, <1>9, <1>12, <2>1
  <2> QED
    BY <1>11, <2>1, <2>3, <2>4, MadeNested
<1>14. l = k + 1 => ComesFrom(u, u, F[l])
  <2> SUFFICES ASSUME l = k + 1 PROVE ComesFrom(u, u, F[l])
    OBVIOUS
  <2>1. l \in 1 .. l
    BY <1>4
  <2>2. Stays(Folded(c), y.e[l]) /\ F[l] = ConvertEdit(y.e[l]) /\ ~FoldMisses(c)
    BY <1>9, <1>11, <1>12, <2>1
  <2> QED
    BY <2>2, MadeFolded
<1>15. \A i \in 1 .. k : up[i] \in DOMAIN n
  BY <1>2, <1>4
<1>16. \A j \in DOMAIN n : IsEdit(n[j]) => \E i \in 1 .. k : up[i] = j
  BY <1>3, <1>5
<1>17. DOMAIN F = 1 .. l
  BY <1>9, <1>11
<1>18. PlacedAt(u, F, k, up, l)
  BY <1>4, <1>5, <1>10, <1>13, <1>14, <1>15, <1>16, <1>17 DEF PlacedAt
<1>19. ComesInOrder(u, F)
  BY <1>18, PlacedBy
<1> QED
  BY <1>19 DEF F

\* No edits, with one folded.
LEMMA PlacedFolded ==
  ASSUME NEW u, IsRecord(u), \A j \in DOMAIN Nested(u) : ~IsEdit(Nested(u)[j]),
         NEW c, IsRecord(c), \A j \in FoldedFields : At(c, j) = At(u, j), ~FoldMisses(c),
         NEW d, IsRecord(d), At(d, "edits") = Arr(<<Folded(c)>>), NEW w, Repairs(d, w)
  PROVE  ComesInOrder(u, At(Convert(w), "edits").e)
<1> DEFINE x == At(d, "edits")
           y == At(w, "edits")
           F == At(Convert(w), "edits").e
           f == Folded(c)
<1>1. IsArr(x) /\ x.e = <<f>>
  BY Encoded
<1>2. DOMAIN x.e = 1 .. 1 /\ x.e[1] = f
  <2> HIDE DEF x, f
  <2>1. IsListed(<<f>>) /\ Len(<<f>>) = 1 /\ <<f>>[1] = f
    BY SingleIs
  <2>2. DOMAIN <<f>> = 1 .. 1
    BY <2>1, ListIs
  <2> QED
    BY <1>1, <2>1, <2>2
<1> HIDE DEF x, f
<1>3. /\ StayEdits(x, y) /\ DOMAIN F = DOMAIN x.e
      /\ \A i \in DOMAIN x.e :
            /\ IsRecord(y.e[i]) /\ \A j \in EditNames : At(y.e[i], j) # Null
            /\ F[i] = ConvertEdit(y.e[i]) /\ IsEdit(F[i])
  BY <1>1, MadeEach DEF x
<1> HIDE DEF y, F
<1>4. 1 \in 1 .. 1
  OBVIOUS
<1>5. Stays(f, y.e[1]) /\ F[1] = ConvertEdit(y.e[1])
  <2>1. 1 \in DOMAIN x.e
    BY <1>2, <1>4
  <2>2. Stays(x.e[1], y.e[1])
    BY <1>3, <2>1 DEF StayEdits
  <2> QED
    BY <1>2, <1>3, <2>1, <2>2
<1>6. ComesFrom(u, u, F[1])
  BY <1>5, MadeFolded DEF f
<1>7. DOMAIN F = 1 .. 1 /\ 0 + 1 = 1
  BY <1>2, <1>3
<1> DEFINE up == [i \in 1 .. 0 |-> i]
<1>8. \A i \in 1 .. 0 : FALSE
  OBVIOUS
<1>9. /\ \A i \in 1 .. 0 : up[i] \in DOMAIN Nested(u)
      /\ \A i, j \in 1 .. 0 : i < j => up[i] < up[j]
      /\ \A i \in 1 .. 0 : ComesFrom(u, Nested(u)[up[i]], F[i])
      /\ \A j \in DOMAIN Nested(u) : IsEdit(Nested(u)[j]) => \E i \in 1 .. 0 : up[i] = j
  BY <1>8
<1> HIDE DEF up
<1>10. 0 \in Nat /\ 1 \in {0, 0 + 1}
  OBVIOUS
<1>11. PlacedAt(u, F, 0, up, 1)
  BY <1>6, <1>7, <1>9, <1>10 DEF PlacedAt
<1>12. ComesInOrder(u, F)
  BY <1>11, PlacedBy
<1> QED
  BY <1>12 DEF F

\* One edit that stays without an array until it is converted.
LEMMA PlacedLone ==
  ASSUME NEW u, IsRecord(u), SentAlone(u), NEW y, IsLone(y), IsJson(y), Nested(u) = <<y>>, ~IsEdit(u),
         NEW F, DOMAIN F = 1 .. 1, F[1] = ConvertEdit(y), IsEdit(F[1])
  PROVE  ComesInOrder(u, F)
<1> DEFINE n == Nested(u)
           up == [i \in 1 .. 1 |-> 1]
<1>1. DOMAIN n = {1} /\ n[1] = y
  BY SingleIs
<1> HIDE DEF n
<1>2. \A i \in 1 .. 1 : i = 1 /\ up[i] = 1
  OBVIOUS
<1> HIDE DEF up
<1>3. ~IsEdit(y)
  <2> SUFFICES ASSUME IsEdit(y) PROVE FALSE
    OBVIOUS
  <2>1. IsObj(y)
    BY EditIsObj
  <2> QED
    BY <2>1, KindsDiffer DEF IsLone
<1>4. ComesFrom(u, y, F[1])
  BY ComesFromLone
<1>5. /\ \A i \in 1 .. 1 : up[i] \in DOMAIN n
      /\ \A i, j \in 1 .. 1 : i < j => up[i] < up[j]
      /\ \A i \in 1 .. 1 : ComesFrom(u, n[up[i]], F[i])
  BY <1>1, <1>2, <1>4
<1>6. \A j \in DOMAIN n : IsEdit(n[j]) => \E i \in 1 .. 1 : up[i] = j
  BY <1>1, <1>3
<1>7. 1 \in Nat /\ 1 \in {1, 1 + 1} /\ 1 # 1 + 1
  OBVIOUS
<1>8. PlacedAt(u, F, 1, up, 1)
  BY <1>5, <1>6, <1>7 DEF PlacedAt, n
<1> QED
  BY <1>8, PlacedBy

\* The edits of repaired arguments come from the edits that were sent.
LEMMA MadePlaced ==
  ASSUME NEW u, NEW w, Makes(u, w), Valid(Convert(w))
  PROVE  ComesInOrder(u, At(Convert(w), "edits").e)
<1> DEFINE n == Nested(u)
           y == NormalEdits(At(u, "edits"))
<1>1. IsRecord(u) /\ NormalOf(u, y)
  BY NormalIs DEF Makes
<1>2. PICK a, b, c, d : Prepares(u, a, b, c, d) /\ Repairs(d, w)
  BY DEF Makes
<1> DEFINE z == At(c, "edits")
<1>3. /\ IsRecord(c) /\ IsRecord(d) /\ JsonOrNone(y)
      /\ IF IsArr(y) THEN FormEdits(y, z) ELSE z = y
      /\ \A j \in FoldedFields : At(c, j) = At(u, j)
      /\ IF FoldMisses(c) THEN At(d, "edits") = z
         ELSE At(d, "edits") = Arr(IF IsArr(z) THEN Append(z.e, Folded(c)) ELSE <<Folded(c)>>)
  BY <1>1, <1>2, PreparedEdits
<1> HIDE DEF y, z
<1>4. CASE IsArr(y)
  <2>1. ~IsLone(y)
    BY <1>4, KindsDiffer DEF IsLone
  <2>2. y = Arr(AtPlaces(n, Kept(u))) /\ \A i \in DOMAIN n : ~IsString(n[i])
    BY <1>1, <2>1 DEF NormalOf
  <2>3. FormEdits(y, z) /\ IsArr(z)
    BY <1>3, <1>4 DEF FormEdits
  <2>4. At(d, "edits") = IF FoldMisses(c) THEN z ELSE Arr(Append(z.e, Folded(c)))
    BY <1>3, <2>3
  <2> QED
    BY <1>1, <1>2, <1>3, <2>2, <2>3, <2>4, PlacedArray
<1>5. CASE ~IsArr(y)
  <2>1. /\ y = At(u, "edits") /\ IsLone(y) /\ SentAlone(u)
        /\ y \in {Absent, Str("")} => n = <<>>
        /\ y \notin {Absent, Str("")} => n = <<y>>
    <3>1. \A q : y # Arr(q)
      BY <1>5, Encoded
    <3> QED
      BY <1>1, <3>1 DEF NormalOf
  <2>2. z = y
    BY <1>3, <1>5
  <2>3. CASE ~FoldMisses(c)
    <3>1. At(d, "edits") = Arr(<<Folded(c)>>)
      BY <1>3, <1>5, <2>2, <2>3
    <3>2. ASSUME NEW j \in DOMAIN n, IsEdit(n[j]) PROVE FALSE
      <4>1. CASE n = <<>>
        BY <3>2, <4>1, EmptyIs
      <4>2. CASE n = <<y>>
        <5>1. n[j] = y
          BY <4>2, SingleIs
        <5>2. IsObj(y) /\ IsEdit(y)
          BY <3>2, <5>1, EditIsObj
        <5> QED
          BY <2>1, <5>2, KindsDiffer DEF IsLone
      <4> QED
        BY <2>1, <4>1, <4>2
    <3> QED
      BY <1>1, <1>2, <1>3, <2>3, <3>1, <3>2, PlacedFolded
  <2>4. CASE FoldMisses(c)
    <3>1. At(d, "edits") = y
      BY <1>3, <2>2, <2>4
    <3>2. PICK g : IsChain(g, d, w)
      BY <1>2 DEF Repairs
    <3>3. At(w, "edits") \in {Absent, y, OneEmpty}
      BY <2>1, <3>1, <3>2, ChainLone
    <3> DEFINE F == At(Convert(w), "edits").e
    <3>4. IsRecord(w)
      BY <1>2 DEF Repairs
    <3>5. IsObj(y) /\ DOMAIN F = 1 .. 1 /\ F[1] = ConvertEdit(y) /\ IsEdit(F[1])
      BY <2>1, <3>3, <3>4, LoneValid
    <3> HIDE DEF F
    <3>6. IsJson(y) /\ n = <<y>>
      BY <1>3, <2>1, <3>5, KindsDiffer DEF JsonOrNone
    <3>7. ~IsEdit(u)
      BY <1>3, <2>4, EditFolds
    <3> QED
      BY <1>1, <2>1, <3>5, <3>6, <3>7, PlacedLone DEF F
  <2> QED
    BY <2>3, <2>4
<1> QED
  BY <1>4, <1>5
================================================================================
