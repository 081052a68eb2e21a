---------------------------- MODULE EditCallsProofs ----------------------------
(***************************************************************************)
(* For any messages, tools, paths and bounds: types and caps, the notes of *)
(* repairs, envelopes and the log, path advisories, broken loops, blocked  *)
(* writes and the arguments calls are prepared to, of EditCalls; first     *)
(* what the operators of Telemetry, RepairLifecycle, Stormbreaker and      *)
(* Guards do.                                                              *)
(***************************************************************************)
EXTENDS RepairProofs

-----------------------------------------------------------------------------
(* Telemetry.                                                                *)

\* What the flush handler may answer, and a store in which every event is once
\* and in order in the log or among the pending ones, or the log is empty.
Outcomes(on) == IF on THEN {"appended", "threw"} ELSE {"off"}
Complete(st, on) ==
  /\ st \in [n : Nat, pending : Seq(Nat), audit : Seq(Nat)]
  /\ IF on THEN st.audit \o st.pending = [i \in 1 .. st.n |-> i] ELSE st.audit = <<>>

LEMMA FlushedComplete ==
  ASSUME NEW st, NEW on \in BOOLEAN, Complete(st, on), NEW o \in Outcomes(on)
  PROVE  Complete(Flushed(st, o), on)
<1> USE DEF Complete, Flushed, Outcomes
<1>1. CASE st.pending = <<>> \/ o = "threw"
  BY <1>1
<1>2. CASE ~(st.pending = <<>> \/ o = "threw")
  <2>1. <<>> \in Seq(Nat) /\ st.audit \o st.pending \in Seq(Nat)
    BY ConcatProperties
  <2>2. (st.audit \o st.pending) \o <<>> = st.audit \o st.pending
    BY <2>1, ConcatEmptySeq
  <2> QED
    BY <1>2, <2>1, <2>2
<1> QED
  BY <1>1, <1>2

LEMMA OnceComplete ==
  ASSUME NEW st, NEW on \in BOOLEAN, Complete(st, on), NEW o \in Outcomes(on)
  PROVE  Complete(RecordedOnce(st, o), on)
<1> DEFINE s == [n |-> st.n + 1, pending |-> Append(st.pending, st.n + 1), audit |-> st.audit]
<1>1. Complete(s, on)
  <2>1. Append(st.pending, st.n + 1) \in Seq(Nat)
    BY DEF Complete
  <2>2. s \in [n : Nat, pending : Seq(Nat), audit : Seq(Nat)]
    BY <2>1 DEF Complete
  <2>3. CASE on
    <3>1. st.audit \o Append(st.pending, st.n + 1) = Append(st.audit \o st.pending, st.n + 1)
      BY DEF Complete
    <3>2. Append([i \in 1 .. st.n |-> i], st.n + 1) = [i \in 1 .. st.n + 1 |-> i]
      BY DEF Complete
    <3> QED
      BY <2>1, <2>2, <2>3, <3>1, <3>2 DEF Complete
  <2> QED
    BY <2>1, <2>2, <2>3 DEF Complete
<1>2. RecordedOnce(st, o) \in {s, Flushed(s, o)}
  BY DEF RecordedOnce
<1> HIDE DEF s
<1>3. Complete(Flushed(s, o), on)
  BY <1>1, FlushedComplete
<1> QED
  BY <1>1, <1>2, <1>3

\* Recording n times is a function of the times so far.
LEMMA RecordingExists ==
  ASSUME NEW st, NEW o, NEW n \in Nat
  PROVE  \E f : f = [i \in 0 .. n |-> IF i = 0 THEN st ELSE RecordedOnce(f[i - 1], o)]
<1> DEFINE Runs(m) == \E f : f = [i \in 0 .. m |-> IF i = 0 THEN st ELSE RecordedOnce(f[i - 1], o)]
           None == {m \in Nat : ~Runs(m)}
<1> SUFFICES ASSUME None # {} PROVE FALSE
  OBVIOUS
<1>1. PICK m \in None : \A x \in None : m <= x
  BY LeastExists
<1>2. CASE m = 0
  <2> DEFINE f == [i \in 0 .. 0 |-> st]
  <2>1. f = [i \in 0 .. 0 |-> IF i = 0 THEN st ELSE RecordedOnce(f[i - 1], o)]
    OBVIOUS
  <2> QED
    BY <1>2, <2>1
<1>3. CASE m # 0
  <2>1. m - 1 \in Nat /\ Runs(m - 1)
    <3> HIDE DEF Runs
    <3> QED
      BY <1>1, <1>3
  <2>2. PICK g : g = [i \in 0 .. m - 1 |-> IF i = 0 THEN st ELSE RecordedOnce(g[i - 1], o)]
    BY <2>1, Zenon
  <2> DEFINE f == [i \in 0 .. m |-> IF i <= m - 1 THEN g[i] ELSE RecordedOnce(g[m - 1], o)]
  <2>3. \A i \in 0 .. m : i # 0 => i - 1 \in 0 .. m - 1 /\ f[i - 1] = g[i - 1]
    BY <2>1
  <2>4. ASSUME NEW i \in 0 .. m PROVE f[i] = IF i = 0 THEN st ELSE RecordedOnce(f[i - 1], o)
    <3>1. CASE i <= m - 1
      <4>1. i \in 0 .. m - 1
        BY <3>1, <2>1
      <4> QED
        BY <4>1, <3>1, <2>2, <2>3
    <3>2. CASE ~(i <= m - 1)
      <4>1. i = m
        BY <3>2, <2>1
      <4> QED
        BY <4>1, <3>2, <2>3, <1>3
    <3> QED
      BY <3>1, <3>2
  <2>5. f = [i \in 0 .. m |-> IF i = 0 THEN st ELSE RecordedOnce(f[i - 1], o)]
    BY <2>4
  <2> QED
    BY <2>5
<1> QED
  BY <1>2, <1>3

LEMMA RecordedComplete ==
  ASSUME NEW st, NEW on \in BOOLEAN, Complete(st, on), NEW o \in Outcomes(on), NEW n \in Nat
  PROVE  Complete(Recorded(st, n, o), on)
<1> DEFINE F(f) == [i \in 0 .. n |-> IF i = 0 THEN st ELSE RecordedOnce(f[i - 1], o)]
           f0 == CHOOSE f : f = F(f)
<1>1. f0 = F(f0)
  BY RecordingExists
<1>2. Recorded(st, n, o) = f0[n]
  BY DEF Recorded
<1> HIDE DEF f0
<1>3. f0[0] = st /\ \A i \in 0 .. n : i # 0 => f0[i] = RecordedOnce(f0[i - 1], o)
  BY <1>1
<1> DEFINE Bad == {i \in 0 .. n : ~Complete(f0[i], on)}
<1>4. Bad = {}
  <2> SUFFICES ASSUME Bad # {} PROVE FALSE
    OBVIOUS
  <2>1. PICK m \in Bad : \A x \in Bad : m <= x
    <3>1. Bad \in SUBSET Nat
      OBVIOUS
    <3> HIDE DEF Bad
    <3> QED
      BY <3>1, LeastExists
  <2>2. m # 0
    BY <1>3
  <2>3. m - 1 \in 0 .. n /\ m - 1 \notin Bad
    BY <2>1, <2>2
  <2>4. Complete(f0[m - 1], on)
    BY <2>3
  <2>5. Complete(RecordedOnce(f0[m - 1], o), on)
    BY <2>4, OnceComplete
  <2> QED
    BY <1>3, <2>2, <2>5
<1>5. n \in 0 .. n
  OBVIOUS
<1> QED
  BY <1>2, <1>4, <1>5

-----------------------------------------------------------------------------
(* The lists of the repair lifecycle.                                        *)

\* A list of whatever elements.
IsList(q) == q \in Seq({q[i] : i \in DOMAIN q})

LEMMA ListIfIndexed ==
  ASSUME NEW q, NEW n \in Nat, q = [i \in 1 .. n |-> q[i]]
  PROVE  IsList(q) /\ Len(q) = n
<1> DEFINE S == {q[i] : i \in DOMAIN q}
<1>1. DOMAIN q = 1 .. n
  OBVIOUS
<1>2. \A i \in 1 .. n : q[i] \in S
  BY <1>1
<1> HIDE DEF S
<1>3. [i \in 1 .. n |-> q[i]] \in Seq(S) /\ Len([i \in 1 .. n |-> q[i]]) = n
  BY <1>2
<1>4. q \in Seq(S) /\ Len(q) = n
  BY <1>3
<1> QED
  BY <1>4 DEF IsList, S

\* AtPlaces has an element for each place.
LEMMA AtPlacesList ==
  ASSUME NEW q, IsList(q), NEW s, s \subseteq DOMAIN q
  PROVE  IsList(AtPlaces(q, s)) /\ Len(AtPlaces(q, s)) <= Len(q)
<1>1. Len(q) \in Nat /\ DOMAIN q = 1 .. Len(q)
  BY DEF IsList
<1>2. IsFiniteSet(1 .. Len(q)) /\ Cardinality(1 .. Len(q)) = Len(q)
  BY <1>1, FS_Interval
<1>3. IsFiniteSet(s) /\ Cardinality(s) <= Len(q)
  BY <1>1, <1>2, FS_Subset
<1>4. Cardinality(s) \in Nat
  BY <1>3, FS_CardinalityType
<1> DEFINE n == Cardinality(s)
           r == [k \in 1 .. n |-> q[CHOOSE i \in s : Cardinality({j \in s : j <= i}) = k]]
<1>5. AtPlaces(q, s) = r
  BY DEF AtPlaces
<1>6. r = [k \in 1 .. n |-> r[k]]
  OBVIOUS
<1> HIDE DEF r, n
<1>7. IsList(r) /\ Len(r) = n
  BY <1>4, <1>6, ListIfIndexed DEF n
<1> QED
  BY <1>3, <1>5, <1>7 DEF n

LEMMA NewestList ==
  ASSUME NEW q, IsList(q), NEW x, NEW n \in Nat
  PROVE  IsList(Newest(Append(q, x), n)) /\ Len(Newest(Append(q, x), n)) <= n
<1> DEFINE S == {q[i] : i \in DOMAIN q} \cup {x}
           a == Append(q, x)
           r == Newest(a, n)
<1>1. q \in Seq(S)
  <2>1. q \in Seq({q[i] : i \in DOMAIN q}) /\ {q[i] : i \in DOMAIN q} \subseteq S
    BY DEF IsList
  <2> HIDE DEF S
  <2> QED
    BY <2>1, SeqMonotonic
<1>2. x \in S
  OBVIOUS
<1> HIDE DEF S
<1>3. a \in Seq(S) /\ Len(a) \in Nat
  BY <1>1, <1>2
<1> HIDE DEF a
<1>4. r \in Seq(S) /\ Len(r) \in Nat /\ Len(r) <= n
  BY <1>3 DEF Newest
<1>5. r = [i \in 1 .. Len(r) |-> r[i]]
  BY <1>4
<1> HIDE DEF r
<1> QED
  BY <1>4, <1>5, ListIfIndexed DEF r, a

\* cleanup drops a head of the parked notes, all of it expired.
LEMMA LiveParkedTail ==
  ASSUME NEW S, parked \in Seq(S)
  PROVE  /\ LiveParked \in Seq(S)
         /\ \E k \in 0 .. Len(parked) :
              /\ Len(LiveParked) = Len(parked) - k
              /\ \A i \in 1 .. Len(LiveParked) : LiveParked[i] = parked[i + k]
              /\ \A i \in 1 .. k : Expired(parked[i])
<1> DEFINE I == {i \in 1 .. Len(parked) : ~Expired(parked[i])}
           m == Min(I)
           first == IF I # {} THEN m ELSE 0
<1>0. LiveParked = IF first = 0 THEN <<>> ELSE SubSeq(parked, first, Len(parked))
  BY DEF LiveParked, DropExpired, SelectInSeq
<1> HIDE DEF m
<1>1. CASE I = {}
  <2>1. LiveParked = <<>>
    BY <1>0, <1>1
  <2>2. \A i \in 1 .. Len(parked) : Expired(parked[i])
    BY <1>1
  <2>3. Len(parked) \in 0 .. Len(parked)
    OBVIOUS
  <2> QED
    BY <2>1, <2>2, <2>3
<1>2. CASE I # {}
  <2>1. I \in SUBSET Nat
    OBVIOUS
  <2>2. \E l \in I : \A x \in I : l <= x
    BY <1>2, <2>1, LeastExists
  <2>3. m \in I /\ \A x \in I : m <= x
    BY <2>2 DEF Min, m
  <2>4. m \in 1 .. Len(parked) /\ \A i \in 1 .. m - 1 : Expired(parked[i])
    BY <2>3
  <2>5. LiveParked = SubSeq(parked, m, Len(parked))
    BY <1>0, <1>2, <2>4
  <2> HIDE DEF I
  <2>6. m - 1 \in 0 .. Len(parked) /\ Len(LiveParked) = Len(parked) - (m - 1)
    BY <2>4, <2>5
  <2>7. \A i \in 1 .. Len(LiveParked) : LiveParked[i] = parked[i + (m - 1)]
    BY <2>4, <2>5
  <2>8. LiveParked \in Seq(S)
    BY <2>4, <2>5
  <2> QED
    BY <2>4, <2>6, <2>7, <2>8
<1> QED
  BY <1>1, <1>2

LEMMA LiveAssociatedList ==
  ASSUME IsList(associated)
  PROVE  IsList(LiveAssociated) /\ Len(LiveAssociated) <= Len(associated)
  BY AtPlacesList DEF LiveAssociated

\* enqueue: the new note is the last, and what it drops has expired or was too old
\* by the number of notes.
LEMMA EnqueueParks ==
  ASSUME NEW S, parked \in Seq(S), NEW key, NEW note, MaxPending \in Nat,
         [key |-> key, note |-> note, at |-> now] \in S, Enqueue(key, note)
  PROVE  /\ parked' \in Seq(S) /\ Len(parked') <= MaxPending
         /\ \E k \in 0 .. Len(parked) + 1 :
              /\ Len(parked') = Len(parked) + 1 - k
              /\ \A i \in 1 .. Len(parked') :
                   parked'[i] = IF i + k <= Len(parked) THEN parked[i + k]
                                ELSE [key |-> key, note |-> note, at |-> now]
              /\ \A i \in 1 .. k :
                   \/ i <= Len(parked) /\ Expired(parked[i])
                   \/ i <= Len(parked) + 1 - MaxPending
<1> DEFINE new == [key |-> key, note |-> note, at |-> now]
           live == LiveParked
           all == Append(live, new)
           Shifted(k) ==
             /\ Len(parked') = Len(parked) + 1 - k
             /\ \A i \in 1 .. Len(parked') :
                  parked'[i] = IF i + k <= Len(parked) THEN parked[i + k] ELSE new
             /\ \A i \in 1 .. k :
                  \/ i <= Len(parked) /\ Expired(parked[i])
                  \/ i <= Len(parked) + 1 - MaxPending
<1> SUFFICES /\ parked' \in Seq(S) /\ Len(parked') <= MaxPending
             /\ \E k \in 0 .. Len(parked) + 1 : Shifted(k)
  OBVIOUS
<1>1. PICK k \in 0 .. Len(parked) :
        /\ Len(live) = Len(parked) - k
        /\ \A i \in 1 .. Len(live) : live[i] = parked[i + k]
        /\ \A i \in 1 .. k : Expired(parked[i])
  BY LiveParkedTail
<1>2. live \in Seq(S)
  BY LiveParkedTail
<1>3. parked' = Newest(all, MaxPending)
  BY DEF Enqueue
<1> HIDE DEF live, new
<1>4. all \in Seq(S) /\ Len(all) = Len(live) + 1 /\ all[Len(live) + 1] = new
      /\ \A i \in 1 .. Len(live) : all[i] = live[i]
  BY <1>2 DEF new
<1> HIDE DEF all
<1>5. Len(all) = Len(parked) + 1 - k
      /\ \A i \in 1 .. Len(all) : all[i] = IF i + k <= Len(parked) THEN parked[i + k] ELSE new
  <2>1. Len(parked) \in Nat /\ Len(live) \in Nat
    BY <1>2
  <2> QED
    BY <1>1, <1>4, <2>1
<1>6. CASE Len(all) <= MaxPending
  <2>1. parked' = all
    BY <1>3, <1>4, <1>6 DEF Newest
  <2> QED
    <3>1. Shifted(k) /\ k \in 0 .. Len(parked) + 1
      BY <1>1, <1>5, <2>1
    <3> QED
      BY <1>4, <1>6, <2>1, <3>1
<1>7. CASE Len(all) > MaxPending
  <2> DEFINE m == Len(all) - MaxPending
  <2>1. parked' = SubSeq(all, m + 1, Len(all)) /\ m \in 1 .. Len(all)
    BY <1>3, <1>4, <1>7 DEF Newest
  <2>2. parked' \in Seq(S) /\ Len(parked') = MaxPending
        /\ \A i \in 1 .. MaxPending : parked'[i] = all[i + m]
    BY <2>1, <1>4
  <2>3. k + m \in 0 .. Len(parked) + 1 /\ Len(parked') = Len(parked) + 1 - (k + m)
    BY <1>5, <2>1, <2>2
  <2>4. \A i \in 1 .. Len(parked') :
          parked'[i] = IF i + (k + m) <= Len(parked) THEN parked[i + (k + m)] ELSE new
    <3> SUFFICES ASSUME NEW i \in 1 .. Len(parked')
                 PROVE parked'[i] = IF i + (k + m) <= Len(parked) THEN parked[i + (k + m)] ELSE new
      OBVIOUS
    <3>1. i \in 1 .. MaxPending /\ i + m \in 1 .. Len(all) /\ (i + m) + k = i + (k + m)
      BY <2>1, <2>2
    <3>2. parked'[i] = all[i + m]
      BY <2>2, <3>1
    <3> HIDE DEF m
    <3> QED
      BY <1>5, <3>1, <3>2
  <2>5. \A i \in 1 .. k + m :
          \/ i <= Len(parked) /\ Expired(parked[i])
          \/ i <= Len(parked) + 1 - MaxPending
    BY <1>1, <1>5, <2>1
  <2> QED
    <3> HIDE DEF m
    <3>1. Shifted(k + m)
      BY <2>3, <2>4, <2>5
    <3> HIDE DEF Shifted
    <3> QED
      BY <2>2, <2>3, <3>1
<1> QED
  <2>1. Len(all) \in Nat
    BY <1>4
  <2> HIDE DEF Shifted
  <2> QED
    BY <1>6, <1>7, <2>1

\* correlate: the oldest live note under the key is taken out, and none is if there
\* is none.
LEMMA CorrelateTakes ==
  ASSUME NEW S, parked \in Seq(S), NEW key, NEW id, Correlate(key, id)
  PROVE  \/ /\ Match(key) = NoNote /\ parked' = LiveParked
            /\ \A i \in 1 .. Len(LiveParked) : LiveParked[i].key # key
         \/ \E j \in 1 .. Len(LiveParked) :
              /\ LiveParked[j].key = key /\ Match(key) = LiveParked[j].note
              /\ parked' \in Seq(S) /\ Len(parked') = Len(LiveParked) - 1
              /\ \A i \in 1 .. Len(parked') :
                   parked'[i] = LiveParked[IF i < j THEN i ELSE i + 1]
<1> DEFINE live == LiveParked
           I == {i \in 1 .. Len(live) : live[i].key = key}
           j == Min(I)
           first == IF I # {} THEN j ELSE 0
<1>1. /\ Match(key) = IF first = 0 THEN NoNote ELSE live[first].note
      /\ parked' = IF first = 0 THEN live ELSE RemoveAt(live, first)
  BY DEF Match, Correlate, SelectInSeq
<1>2. live \in Seq(S)
  BY LiveParkedTail
<1> HIDE DEF live, j
<1>3. CASE I = {}
  BY <1>1, <1>3 DEF live
<1>4. CASE I # {}
  <2>1. I \in SUBSET Nat
    BY <1>2
  <2>2. \E l \in I : \A x \in I : l <= x
    BY <1>4, <2>1, LeastExists
  <2>3. j \in 1 .. Len(live) /\ live[j].key = key
    BY <2>2 DEF Min, j
  <2>4. Match(key) = live[j].note /\ parked' = RemoveAt(live, j)
    BY <1>1, <1>4, <2>3
  <2> HIDE DEF I
  <2> DEFINE head == SubSeq(live, 1, j - 1)
             tail == SubSeq(live, j + 1, Len(live))
  <2>5. head \in Seq(S) /\ Len(head) = j - 1 /\ \A i \in 1 .. j - 1 : head[i] = live[i]
    BY <1>2, <2>3
  <2>6. tail \in Seq(S) /\ Len(tail) = Len(live) - j
        /\ \A i \in 1 .. Len(live) - j : tail[i] = live[i + j]
    BY <1>2, <2>3
  <2>7. parked' = head \o tail
    BY <2>4 DEF RemoveAt
  <2> HIDE DEF head, tail
  <2>8. parked' \in Seq(S) /\ Len(parked') = Len(live) - 1
    BY <1>2, <2>3, <2>5, <2>6, <2>7, ConcatProperties
  <2>9. \A i \in 1 .. Len(parked') : parked'[i] = live[IF i < j THEN i ELSE i + 1]
    <3> SUFFICES ASSUME NEW i \in 1 .. Len(parked')
                 PROVE  parked'[i] = live[IF i < j THEN i ELSE i + 1]
      OBVIOUS
    <3>1. CASE i < j
      BY <1>2, <2>3, <2>5, <2>6, <2>7, <2>8, <3>1, ConcatProperties
    <3>2. CASE ~(i < j)
      <4>1. i - (j - 1) \in 1 .. Len(live) - j /\ (i - (j - 1)) + j = i + 1
        BY <1>2, <2>3, <2>8, <3>2
      <4>2. parked'[i] = tail[i - (j - 1)]
        BY <1>2, <2>3, <2>5, <2>6, <2>7, <2>8, <3>2, <4>1, ConcatProperties
      <4> QED
        BY <2>6, <3>2, <4>1, <4>2
    <3> QED
      BY <3>1, <3>2
  <2> QED
    BY <2>3, <2>4, <2>8, <2>9 DEF live
<1> QED
  BY <1>3, <1>4

\* The notes of calls stay within their cap.
LEMMA AssociatedBounded ==
  ASSUME IsList(associated), MaxAssociated \in Nat, Len(associated) <= MaxAssociated,
         \/ \E key, note : Enqueue(key, note)
         \/ \E key, id : Correlate(key, id)
         \/ \E id : Take(id)
  PROVE  IsList(associated') /\ Len(associated') <= MaxAssociated
<1>1. /\ Len(associated) \in Nat
      /\ IsList(LiveAssociated) /\ Len(LiveAssociated) \in Nat
      /\ Len(LiveAssociated) <= MaxAssociated
  BY LiveAssociatedList DEF IsList
<1>2. ASSUME NEW key, NEW note, Enqueue(key, note)
      PROVE  IsList(associated') /\ Len(associated') <= MaxAssociated
  BY <1>1, <1>2 DEF Enqueue
<1>3. ASSUME NEW key, NEW id, Correlate(key, id)
      PROVE  IsList(associated') /\ Len(associated') <= MaxAssociated
  <2> DEFINE x == [id |-> id, note |-> Match(key), at |-> now]
  <2>1. associated' \in {LiveAssociated, Newest(Append(LiveAssociated, x), MaxAssociated)}
    BY <1>3 DEF Correlate
  <2> HIDE DEF x
  <2> QED
    BY <1>1, <2>1, NewestList
<1>4. ASSUME NEW id, Take(id)
      PROVE  IsList(associated') /\ Len(associated') <= MaxAssociated
  <2> DEFINE live == LiveAssociated
             s == {i \in DOMAIN live : live[i].id # id}
  <2>1. associated' = AtPlaces(live, s) /\ s \subseteq DOMAIN live
    BY <1>4 DEF Take
  <2> HIDE DEF live, s
  <2>2. IsList(associated') /\ Len(associated') <= Len(live)
    BY <1>1, <2>1, AtPlacesList DEF live
  <2> QED
    BY <1>1, <2>2 DEF live, IsList
<1> QED
  BY <1>2, <1>3, <1>4

-----------------------------------------------------------------------------
(* The window of the stormbreaker, and the paths of the guards.              *)

\* The window after a failure is made of the tool's last failures.
LEMMA WindowOfStreak ==
  ASSUME NEW S, NEW s \in Seq(S), NEW x \in S, NEW n \in Nat \ {0}
  PROVE  /\ LastOf(Append(LastOf(s, n), x), n) = LastOf(Append(s, x), n)
         /\ Len(LastOf(Append(s, x), n)) <= n
<1> DEFINE a == Append(s, x)
           l == LastOf(s, n)
           b == Append(l, x)
<1>1. a \in Seq(S) /\ Len(a) = Len(s) + 1 /\ a[Len(s) + 1] = x /\ \A i \in 1 .. Len(s) : a[i] = s[i]
  OBVIOUS
<1>2. l \in Seq(S) /\ Len(l) = (IF Len(s) > n THEN n ELSE Len(s))
      /\ \A i \in 1 .. Len(l) : l[i] = s[i + (Len(s) - Len(l))]
  <2>1. CASE Len(s) > n
    BY <2>1 DEF LastOf
  <2>2. CASE ~(Len(s) > n)
    BY <2>2 DEF LastOf
  <2> QED
    BY <2>1, <2>2
<1> HIDE DEF l
<1>3. b \in Seq(S) /\ Len(b) = Len(l) + 1 /\ b[Len(l) + 1] = x /\ \A i \in 1 .. Len(l) : b[i] = l[i]
  BY <1>2
<1> HIDE DEF a, b
<1>4. CASE Len(s) < n
  <2>1. l = s
    BY <1>4 DEF l, LastOf
  <2> QED
    BY <1>1, <1>4, <2>1 DEF a, b, LastOf
<1>5. CASE ~(Len(s) < n)
  <2>1. Len(l) = n /\ Len(b) > n /\ Len(a) > n
    BY <1>1, <1>2, <1>3, <1>5
  <2> DEFINE u == SubSeq(a, Len(a) - n + 1, Len(a))
             v == SubSeq(b, Len(b) - n + 1, Len(b))
  <2>2. LastOf(a, n) = u /\ LastOf(b, n) = v
    BY <2>1 DEF LastOf
  <2>3. u \in Seq(S) /\ Len(u) = n /\ \A i \in 1 .. n : u[i] = a[i + (Len(a) - n)]
    BY <1>1, <2>1
  <2>4. v \in Seq(S) /\ Len(v) = n /\ \A i \in 1 .. n : v[i] = b[i + (Len(b) - n)]
    BY <1>3, <2>1
  <2> HIDE DEF u, v
  <2>5. ASSUME NEW i \in 1 .. n PROVE u[i] = v[i]
    <3>1. CASE i = n
      BY <1>1, <1>3, <2>1, <2>3, <2>4, <3>1
    <3>2. CASE i # n
      <4>1. i + 1 \in 1 .. n /\ (i + 1) + (Len(s) - n) = i + (Len(a) - n)
            /\ i + (Len(a) - n) \in 1 .. Len(s)
        BY <1>1, <1>5, <3>2
      <4>2. v[i] = l[i + 1]
        BY <1>3, <2>1, <2>4, <4>1
      <4>3. l[i + 1] = s[i + (Len(a) - n)]
        BY <1>2, <2>1, <4>1
      <4> QED
        BY <1>1, <2>3, <4>1, <4>2, <4>3
    <3> QED
      BY <3>1, <3>2
  <2>6. u = v
    BY <2>3, <2>4, <2>5, SeqEqual
  <2> QED
    BY <2>2, <2>3, <2>6 DEF a, b, l
<1> QED
  BY <1>2, <1>4, <1>5

\* The paths an input names are known.
Known(v) == \A k \in PathKeys : Names(v, k) => At(v, k).s \in Paths

LEMMA RepairedKnown ==
  ASSUME NEW tool, NEW v, Known(v)
  PROVE  Known(Repaired(tool, v))
<1> USE DEF Known, PathKeys
<1>1. CASE ~Looked(tool, v)
  BY <1>1 DEF Repaired
<1>2. CASE Looked(tool, v)
  <2> DEFINE key == PathKey(v)
             p == Trimmed[PathArg(v)]
             w == Repaired(tool, v)
  <2>1. key \in {"path", "file_path"} /\ Names(v, key)
    BY <1>2 DEF Looked, PathKey
  <2>2. IsObj(v) /\ key \in DOMAIN v.f /\ v.f[key] = At(v, key)
    BY <2>1 DEF Names, At, Absent
  <2>3. p \in Paths
    BY <2>1, <2>2, PathAssumption DEF PathArg
  <2> DEFINE g == [k \in DOMAIN v.f \ {key} |-> v.f[k]]
             h == [k \in DOMAIN g \cup {"path"} |-> IF k = "path" THEN Str(p) ELSE g[k]]
  <2>4. w = Obj(h)
    BY <1>2 DEF Repaired, With, Without, Obj
  <2> HIDE DEF p, w, key
  <2>5. At(w, "path") = Str(p)
    BY <2>4 DEF At, IsObj, Obj
  <2>6. At(w, "file_path") \in {Absent, At(v, "file_path")}
    BY <2>2, <2>4 DEF At, IsObj, Obj
  <2>7. ASSUME Names(w, "path") PROVE At(w, "path").s \in Paths
    BY <2>3, <2>5 DEF Str
  <2>8. ASSUME Names(w, "file_path") PROVE At(w, "file_path").s \in Paths
    <3>1. At(w, "file_path").t = "str" /\ Absent.t = "absent"
      BY <2>8 DEF Names, Absent
    <3>2. At(w, "file_path") = At(v, "file_path")
      BY <2>6, <3>1
    <3> QED
      BY <2>8, <3>2 DEF Names
  <2> QED
    BY <2>7, <2>8 DEF w
<1> QED
  BY <1>1, <1>2

\* To the preflight hook, a path is outside the working directory.
HookOutside(v) == Names(v, "path") /\ HookFile[At(v, "path").s] \in Outside

\* The hook advises of every path it takes to be outside and lets pass, but for the
\* edit tool.
LEMMA AdvisesOutside ==
  ASSUME NEW tool, NEW v, Known(v), tool # "edit"
  PROVE  Advises(tool, v) <=> tool \in PathTools /\ HookOutside(Repaired(tool, v))
<1>1. CASE ~Looked(tool, v)
  <2>1. tool \notin PathTools \/ ~Names(v, "path")
    BY <1>1 DEF Looked, PathKey
  <2> QED
    BY <1>1, <2>1 DEF Advises, HookOutside, Repaired
<1>2. CASE Looked(tool, v)
  <2> DEFINE key == PathKey(v)
             p == Trimmed[PathArg(v)]
  <2>1. key \in PathKeys /\ Names(v, key)
    BY <1>2 DEF Looked, PathKey, PathKeys
  <2>2. IsObj(v) /\ key \in DOMAIN v.f /\ v.f[key] = At(v, key)
    BY <2>1 DEF Names, At, Absent
  <2>3. p \in Paths
    BY <2>1, <2>2, PathAssumption DEF PathArg, Known
  <2> DEFINE g == [k \in DOMAIN v.f \ {key} |-> v.f[k]]
             h == [k \in DOMAIN g \cup {"path"} |-> IF k = "path" THEN Str(p) ELSE g[k]]
             w == Repaired(tool, v)
  <2>4. w = Obj(h)
    BY <1>2 DEF Repaired, With, Without, Obj
  <2> HIDE DEF p, w, key
  <2>5. At(w, "path") = Str(p)
    BY <2>4 DEF At, IsObj, Obj
  <2> HIDE DEF g, h
  <2>6. Names(w, "path") <=> p # ""
    <3>1. Str(p).t = "str" /\ Str(p).s = p /\ Str("").s = ""
      BY DEF Str
    <3>2. p = "" => Str(p) = Str("")
      OBVIOUS
    <3> QED
      BY <2>5, <3>1, <3>2 DEF Names
  <2>7. At(w, "path").s = p
    BY <2>5 DEF Str
  <2>8. HookFile[p] \in Outside => p # ""
    BY <2>3, PathAssumption
  <2>9. Advises(tool, v) <=> tool \in PathTools /\ HookFile[p] \in Outside
    BY <1>2 DEF Advises, FileArg, OwnsAdvisory, Looked, p
  <2> QED
    BY <2>6, <2>7, <2>8, <2>9 DEF HookOutside, w
<1> QED
  BY <1>1, <1>2

-----------------------------------------------------------------------------
(* Which steps touch what.                                                   *)

LEMMA BatchStays == [Next]_vars => batch' = batch
<1>1. ASSUME NEW c \in Ids, CallStep(c) PROVE batch' = batch
  BY <1>1 DEF CallStep, Refuse, Prepare, Preflight, Overwrite, EditRefused, EditCorrelates,
     EditBegins, EditThrows, EditFails, EditSucceeds, EditAnswers, OtherRuns, Enhance, Watch
<1>2. ASSUME \/ (\E t \in Tools : Retry(t)) \/ Checkpoint \/ Shutdown \/ SessionStart
             \/ Clock \/ UNCHANGED vars
      PROVE  batch' = batch
  BY <1>2 DEF Retry, Checkpoint, Shutdown, SessionStart, Clock, callVars, vars
<1> QED
  BY <1>1, <1>2 DEF Next

LEMMA StormFrame ==
  [Next]_vars =>
    \/ UNCHANGED <<stormVars, streak>> \/ (\E c \in Ids : Watch(c))
    \/ \E t \in Tools : Retry(t)
<1>1. ASSUME NEW c \in Ids, CallStep(c), ~Watch(c) PROVE UNCHANGED <<stormVars, streak>>
  BY <1>1 DEF CallStep, Refuse, Prepare, Preflight, Overwrite, EditRefused, EditCorrelates,
     EditBegins, EditThrows, EditFails, EditSucceeds, EditAnswers, OtherRuns, Enhance
<1>2. ASSUME Checkpoint \/ Shutdown \/ SessionStart \/ Clock \/ UNCHANGED vars
      PROVE  UNCHANGED <<stormVars, streak>>
  BY <1>2 DEF Checkpoint, Shutdown, SessionStart, Clock, vars
<1> QED
  BY <1>1, <1>2 DEF Next

LEMMA GuardFrame ==
  [Next]_vars =>
    \/ UNCHANGED <<guardVars, told, late>> \/ Shutdown
    \/ \E c \in Ids : Overwrite(c) \/ OtherRuns(c)
<1>1. ASSUME NEW c \in Ids, CallStep(c), ~Overwrite(c), ~OtherRuns(c)
      PROVE  UNCHANGED <<guardVars, told, late>>
  BY <1>1 DEF CallStep, Refuse, Prepare, Preflight, EditRefused, EditCorrelates,
     EditBegins, EditThrows, EditFails, EditSucceeds, EditAnswers, Enhance, Watch, sessionVars
<1>2. ASSUME (\E t \in Tools : Retry(t)) \/ Checkpoint \/ SessionStart \/ Clock \/ UNCHANGED vars
      PROVE  UNCHANGED <<guardVars, told, late>>
  BY <1>2 DEF Retry, Checkpoint, SessionStart, Clock, sessionVars, vars
<1> QED
  BY <1>1, <1>2 DEF Next

\* The notes of repairs.
LEMMA LifecycleFrame ==
  [Next]_vars =>
    \/ UNCHANGED <<lifecycleVars, since, parkedAt>> \/ Shutdown \/ Clock
    \/ \E c \in Ids :
         \/ Prepare(c) /\ Tool(c) = "edit" /\ Prepared(c).outcome = "repaired"
         \/ EditCorrelates(c)
         \/ Take(c) /\ UNCHANGED <<since, parkedAt>>
<1>1. ASSUME NEW c \in Ids, Prepare(c), ~(Tool(c) = "edit" /\ Prepared(c).outcome = "repaired")
      PROVE  UNCHANGED <<lifecycleVars, since, parkedAt>>
  BY <1>1 DEF Prepare
<1>2. ASSUME NEW c \in Ids, EditFails(c) \/ EditSucceeds(c)
      PROVE  Take(c) /\ UNCHANGED <<since, parkedAt>>
  BY <1>2 DEF EditFails, EditSucceeds
<1>3. ASSUME NEW c \in Ids, CallStep(c), ~Prepare(c), ~EditCorrelates(c),
             ~EditFails(c), ~EditSucceeds(c)
      PROVE  UNCHANGED <<lifecycleVars, since, parkedAt>>
  BY <1>3 DEF CallStep, Refuse, Preflight, Overwrite, EditRefused, EditBegins, EditThrows,
     EditAnswers, OtherRuns, Enhance, Watch
<1>4. ASSUME (\E t \in Tools : Retry(t)) \/ Checkpoint \/ SessionStart \/ UNCHANGED vars
      PROVE  UNCHANGED <<lifecycleVars, since, parkedAt>>
  BY <1>4 DEF Retry, Checkpoint, SessionStart, callVars, vars
<1> QED
  BY <1>1, <1>2, <1>3, <1>4 DEF Next

\* A call is sent with JSON.
LEMMA RawIsJson ==
  ASSUME batch \in Batches, NEW c \in Ids
  PROVE  IsJson(Raw(c))
<1>1. Raw(c) \in UNION {{b.calls[d].input : d \in DOMAIN b.calls} : b \in Batches}
  BY DEF Raw, Ids
<1> QED
  BY <1>1, BatchAssumption, ValuesAreJson

\* The log.
logVars == <<eventsRecorded, pendingEvents, audit>>

LEMMA LogFrame ==
  ASSUME batch \in Batches, [Next]_vars
  PROVE  UNCHANGED logVars \/ Flush \/ \E n \in Nat : Records(n)
<1> DEFINE Done == UNCHANGED logVars \/ Flush \/ \E n \in Nat : Records(n)
<1>0. 0 \in Nat /\ 1 \in Nat
  OBVIOUS
<1>1. ASSUME NEW c \in Ids, Refuse(c) \/ Enhance(c) PROVE \E n \in Nat : Records(n)
  BY <1>0, <1>1 DEF Refuse, Enhance
<1>2. ASSUME NEW c \in Ids, Prepare(c) PROVE Done
  <2>1. Len(Prepared(c).changes) \in Nat
    BY RawIsJson, ChangesListed DEF Prepared
  <2>2. UNCHANGED telemetryVars \/ Records(Len(Prepared(c).changes))
    BY <1>2 DEF Prepare
  <2> QED
    BY <2>1, <2>2 DEF telemetryVars, logVars
<1>3. ASSUME NEW c \in Ids, Preflight(c) PROVE \E n \in Nat : Records(n)
  <2>1. PreflightEvents(Tool(c), args[c]) \in Nat
    BY DEF PreflightEvents
  <2> QED
    BY <1>0, <1>3, <2>1 DEF Preflight
<1>4. ASSUME NEW c \in Ids, EditCorrelates(c) PROVE \E n \in Nat : Records(n)
  BY <1>0, <1>4 DEF EditCorrelates
<1>5. ASSUME NEW c \in Ids, EditFails(c) \/ EditAnswers(c) PROVE \E n \in Nat : Records(n)
  BY <1>0, <1>5 DEF EditFails, EditAnswers, Envelope, Envelopes
<1>6. ASSUME NEW c \in Ids, Watch(c) PROVE \E n \in Nat : Records(n)
  BY <1>0, <1>6 DEF Watch
<1>7. ASSUME NEW c \in Ids, Overwrite(c) PROVE Done
  BY <1>0, <1>7 DEF Overwrite, telemetryVars, logVars
<1>8. ASSUME NEW c \in Ids, EditRefused(c) \/ EditBegins(c) \/ EditThrows(c)
                              \/ EditSucceeds(c) \/ OtherRuns(c)
      PROVE  UNCHANGED logVars
  BY <1>8 DEF EditRefused, EditBegins, EditThrows, EditSucceeds, OtherRuns, telemetryVars, logVars
<1>9. ASSUME NEW t \in Tools, Retry(t) PROVE \E n \in Nat : Records(n)
  BY <1>0, <1>9 DEF Retry
<1>10. ASSUME Checkpoint \/ Shutdown \/ SessionStart PROVE Flush
  BY <1>10 DEF Checkpoint, Shutdown, SessionStart
<1>11. ASSUME Clock \/ UNCHANGED vars PROVE UNCHANGED logVars
  BY <1>11 DEF Clock, vars, telemetryVars, logVars
<1> QED
  BY <1>1, <1>2, <1>3, <1>4, <1>5, <1>6, <1>7, <1>8, <1>9, <1>10, <1>11 DEF Next, CallStep

-----------------------------------------------------------------------------
(* Types.                                                                    *)

Results ==
  {"", "ok", "aborted", "invalid", "crashed", "failed", "noUndo", "refused", "blocked"}
    \cup Signatures

\* A parked note: the arguments its call was prepared to, the call, and the time.
Keys == {Prepared(c).args : c \in Ids}
Item == [key : Keys, note : Ids, at : 0 .. MaxNow]

LifecycleInv ==
  /\ now \in 0 .. MaxNow
  /\ parked \in Seq(Item) /\ Len(parked) <= MaxPending
  /\ IsList(associated) /\ Len(associated) <= MaxAssociated

\* The window of a tool is made of its last failures, and no more retries of it are
\* sent or to be sent than loops are broken.
StormInv ==
  /\ windows \in [Tools -> Seq(Results)] /\ streak \in [Tools -> Seq(Results)]
  /\ \A t \in Tools : windows[t] = LastOf(streak[t], MaxWindowSize)
  /\ {loopsBroken, timers, retries, missed} \subseteq [Tools -> Nat]
  /\ \A t \in Tools : timers[t] + retries[t] + missed[t] <= loopsBroken[t]

GuardInv ==
  /\ disk \in [Files -> {"none", "empty", "full"}]
  /\ nudged \subseteq Paths /\ told = nudged /\ late \subseteq Ids

LogInv == Complete(Store, batch.telemetry)

\* The calls' own variables.
CallsInv ==
  /\ pc \in [Ids -> PCs] /\ result \in [Ids -> Results]
  /\ DOMAIN args = Ids /\ made \in [Ids -> Keys \cup {Absent}]
  /\ feedback \in [Ids -> Ids \cup {NoNote}]
  /\ since \in [Ids -> Nat \cup {NoNote}] /\ parkedAt \in [Ids -> 0 .. MaxNow]
  /\ ran \in [Ids -> BOOLEAN] /\ editContexts \subseteq Ids
  /\ envelopes \in [Ids -> Nat] /\ advised \in [Ids -> Nat]

\* A call that is no edit names known paths, a write alone is looked at by the
\* overwrite guard, and an edit alone goes past it as edits do.
PathsInv ==
  \A c \in Ids :
    /\ Tool(c) # "edit" => Known(args[c])
    /\ pc[c] = "looked" => Tool(c) = "write"
    /\ pc[c] \in {"advised", "queued", "written"} => Tool(c) = "edit"

TInv ==
  /\ batch \in Batches /\ LifecycleInv /\ StormInv /\ GuardInv /\ LogInv
  /\ CallsInv /\ PathsInv

LEMMA InitTypes == Init => TInv
<1> SUFFICES ASSUME Init PROVE TInv
  OBVIOUS
<1>1. LifecycleInv
  <2>1. IsList(<<>>)
    BY DEF IsList
  <2>2. now = 0 /\ parked = <<>> /\ associated = <<>>
    BY DEF Init, LifecycleInit
  <2>3. 0 \in 0 .. MaxNow /\ <<>> \in Seq(Item) /\ Len(<<>>) <= MaxPending
        /\ Len(<<>>) <= MaxAssociated
    BY LifecycleAssumption
  <2> QED
    BY <2>1, <2>2, <2>3 DEF LifecycleInv
<1>2. StormInv
  <2>1. LastOf(<<>>, MaxWindowSize) = <<>>
    BY StormAssumption DEF LastOf
  <2>2. <<>> \in Seq(Results)
    OBVIOUS
  <2>3. /\ windows = [t \in Tools |-> <<>>] /\ streak = [t \in Tools |-> <<>>]
        /\ loopsBroken = [t \in Tools |-> 0] /\ timers = [t \in Tools |-> 0]
        /\ retries = [t \in Tools |-> 0] /\ missed = [t \in Tools |-> 0]
    BY DEF Init, StormInit
  <2>4. [t \in Tools |-> 0] \in [Tools -> Nat]
    OBVIOUS
  <2>5. {loopsBroken, timers, retries, missed} \subseteq [Tools -> Nat]
    BY <2>3, <2>4
  <2>6. \A t \in Tools : timers[t] + retries[t] + missed[t] <= loopsBroken[t]
    BY <2>3
  <2> QED
    BY <2>1, <2>2, <2>3, <2>5, <2>6 DEF StormInv
<1>3. GuardInv
  BY BatchAssumption DEF Init, GuardInv
<1>4. LogInv
  <2>1. Store = [n |-> 0, pending |-> <<>>, audit |-> <<>>]
    BY DEF Init, Store, TelemetryInit
  <2>2. <<>> \o <<>> = [i \in 1 .. 0 |-> i]
    OBVIOUS
  <2> QED
    BY <2>1, <2>2 DEF LogInv, Complete
<1>5. CallsInv
  <2>1. 0 \in 0 .. MaxNow /\ "sent" \in PCs /\ "" \in Results
    BY LifecycleAssumption DEF PCs, Results
  <2>2. editContexts \subseteq Ids
    BY DEF Init, TelemetryInit
  <2> QED
    BY <2>1, <2>2 DEF Init, CallsInv
<1>6. PathsInv
  BY BatchAssumption DEF Init, PathsInv, Known, Raw, Tool, Ids
<1> QED
  BY <1>1, <1>2, <1>3, <1>4, <1>5, <1>6 DEF Init, TInv

LEMMA LogStep == ASSUME TInv, [Next]_vars PROVE LogInv'
<1> DEFINE on == batch.telemetry
<1>1. batch' = batch /\ on \in BOOLEAN
  BY BatchStays, BatchAssumption DEF TInv
<1>2. ASSUME NEW st, Complete(st, on), Becomes(st) PROVE Complete(Store', on)
  <2>1. Store' = st
    BY <1>2 DEF Store, Becomes, Complete
  <2> QED
    BY <1>2, <2>1
<1>3. CASE UNCHANGED logVars
  BY <1>1, <1>3 DEF TInv, LogInv, logVars, Store
<1>4. ASSUME NEW n \in Nat, Records(n) PROVE LogInv'
  <2>1. PICK o \in Outcomes(on) : Becomes(Recorded(Store, n, o))
    BY <1>4 DEF Records, Record, Outcomes
  <2>2. Complete(Recorded(Store, n, o), on)
    BY <1>1, RecordedComplete DEF TInv, LogInv
  <2> QED
    BY <1>1, <1>2, <2>1, <2>2 DEF LogInv
<1>5. CASE Flush
  <2>1. PICK o \in Outcomes(on) : Becomes(Flushed(Store, o))
    BY <1>5 DEF Flush, FlushNow, Outcomes
  <2>2. Complete(Flushed(Store, o), on)
    BY <1>1, FlushedComplete DEF TInv, LogInv
  <2> QED
    BY <1>1, <1>2, <2>1, <2>2 DEF LogInv
<1> QED
  BY <1>3, <1>4, <1>5, LogFrame DEF TInv

LEMMA ToolIsATool ==
  ASSUME batch \in Batches, NEW c \in Ids
  PROVE  Tool(c) \in Tools
  BY BatchAssumption DEF Tool, Ids

LEMMA StormStep == ASSUME TInv, [Next]_vars PROVE StormInv'
<1> USE DEF TInv
<1>1. CASE UNCHANGED <<stormVars, streak>>
  BY <1>1 DEF StormInv, stormVars
<1>2. ASSUME NEW t \in Tools, Retry(t) PROVE StormInv'
  <2>1. /\ UNCHANGED <<windows, streak, loopsBroken>> /\ timers[t] > 0
        /\ timers' = [timers EXCEPT ![t] = @ - 1]
        /\ \/ retries' = [retries EXCEPT ![t] = @ + 1] /\ missed' = missed
           \/ missed' = [missed EXCEPT ![t] = @ + 1] /\ retries' = retries
    BY <1>2 DEF Retry, FireRetry
  <2>2. {loopsBroken, timers, retries, missed} \subseteq [Tools -> Nat]
    BY DEF StormInv
  <2>3. timers' \in [Tools -> Nat]
    BY <2>1, <2>2
  <2>4. {retries', missed'} \subseteq [Tools -> Nat]
    BY <2>1, <2>2
  <2>5. ASSUME NEW u \in Tools
        PROVE  timers'[u] + retries'[u] + missed'[u] <= loopsBroken'[u]
    <3>1. timers[u] + retries[u] + missed[u] <= loopsBroken[u]
      BY DEF StormInv
    <3>2. timers'[u] + retries'[u] + missed'[u] = timers[u] + retries[u] + missed[u]
      BY <2>1, <2>2
    <3> QED
      BY <2>1, <3>1, <3>2
  <2> QED
    BY <2>1, <2>2, <2>3, <2>4, <2>5 DEF StormInv
<1>3. ASSUME NEW c \in Ids, Watch(c) PROVE StormInv'
  <2> DEFINE t == Tool(c)
             r == result[c]
             w == LastOf(Append(windows[t], r), MaxWindowSize)
  <2>1. t \in Tools /\ r \in Results
    BY ToolIsATool DEF CallsInv
  <2> HIDE DEF t, r
  <2>2. LastOf(<<>>, MaxWindowSize) = <<>> /\ <<>> \in Seq(Results)
    BY StormAssumption DEF LastOf
  <2>3. CASE /\ windows' = [windows EXCEPT ![t] = <<>>] /\ streak' = [streak EXCEPT ![t] = <<>>]
             /\ \/ UNCHANGED <<loopsBroken, timers, retries, missed>>
                \/ /\ loopsBroken' = [loopsBroken EXCEPT ![t] = @ + 1]
                   /\ timers' \in {timers, [timers EXCEPT ![t] = @ + 1]}
                   /\ UNCHANGED <<retries, missed>>
    <3>1. /\ {loopsBroken, timers, retries, missed} \subseteq [Tools -> Nat]
          /\ \A u \in Tools : timers[u] + retries[u] + missed[u] <= loopsBroken[u]
      BY DEF StormInv
    <3>2. {loopsBroken', timers', retries', missed'} \subseteq [Tools -> Nat]
      <4>1. \A f \in [Tools -> Nat] : [f EXCEPT ![t] = @ + 1] \in [Tools -> Nat]
        BY <2>1
      <4>2. loopsBroken' \in [Tools -> Nat] /\ timers' \in [Tools -> Nat]
        BY <2>3, <3>1, <4>1
      <4> QED
        BY <2>3, <3>1, <4>2
    <3>3. ASSUME NEW u \in Tools
          PROVE  timers'[u] + retries'[u] + missed'[u] <= loopsBroken'[u]
      <4>1. timers[u] + retries[u] + missed[u] <= loopsBroken[u]
        BY <3>1
      <4>2. timers[u] \in Nat /\ retries[u] \in Nat /\ missed[u] \in Nat /\ loopsBroken[u] \in Nat
        BY <3>1
      <4>3. retries' = retries /\ missed' = missed
        BY <2>3
      <4>4. \/ timers'[u] = timers[u] /\ loopsBroken'[u] = loopsBroken[u]
            \/ timers'[u] \in {timers[u], timers[u] + 1} /\ loopsBroken'[u] = loopsBroken[u] + 1
            \/ u # t /\ timers'[u] = timers[u] /\ loopsBroken'[u] = loopsBroken[u]
        BY <2>1, <2>3, <3>1
      <4> QED
        BY <4>1, <4>2, <4>3, <4>4
    <3>4. /\ windows' \in [Tools -> Seq(Results)] /\ streak' \in [Tools -> Seq(Results)]
          /\ \A u \in Tools : windows'[u] = LastOf(streak'[u], MaxWindowSize)
      BY <2>1, <2>2, <2>3 DEF StormInv
    <3> QED
      BY <3>2, <3>3, <3>4 DEF StormInv
  <2>4. CASE UNCHANGED <<stormVars, streak>>
    BY <1>1, <2>4
  <2>5. CASE /\ windows' = [windows EXCEPT ![t] = w]
             /\ streak' = [streak EXCEPT ![t] = Append(@, r)]
             /\ UNCHANGED <<loopsBroken, timers, retries, missed>>
    <3>1. /\ windows[t] = LastOf(streak[t], MaxWindowSize) /\ streak[t] \in Seq(Results)
          /\ windows[t] \in Seq(Results)
      BY <2>1 DEF StormInv
    <3>2. w = LastOf(Append(streak[t], r), MaxWindowSize)
      BY <2>1, <3>1, WindowOfStreak, StormAssumption
    <3>3. Append(streak[t], r) \in Seq(Results) /\ w \in Seq(Results)
      BY <2>1, <3>1, StormAssumption DEF LastOf
    <3> HIDE DEF w
    <3> QED
      BY <2>1, <2>5, <3>2, <3>3 DEF StormInv
  <2>6. timers = [timers EXCEPT ![t] = @]
    BY DEF StormInv
  <2>7. Break(t, r) => timers' \in {timers, [timers EXCEPT ![t] = @ + 1]}
    BY <2>6 DEF Break
  <2> QED
    BY <1>3, <2>3, <2>4, <2>5, <2>7 DEF Watch, Succeed, Fail, Break, WindowAfter, t, r
<1> QED
  BY <1>1, <1>2, <1>3, StormFrame

\* What the message says of its calls stays.
LEMMA MessageStays ==
  ASSUME batch' = batch
  PROVE  Ids' = Ids /\ Keys' = Keys /\ Item' = Item
<1>1. Ids' = Ids
  BY DEF Ids
<1>2. Keys' = Keys
  BY <1>1 DEF Keys, Prepared, Raw
<1> QED
  BY <1>1, <1>2 DEF Item

LEMMA GuardStep == ASSUME TInv, [Next]_vars PROVE GuardInv'
<1> USE DEF TInv, GuardInv
<1>0. Ids' = Ids
  BY BatchStays, MessageStays
<1>1. CASE UNCHANGED <<guardVars, told, late>>
  BY <1>0, <1>1 DEF guardVars
<1>2. CASE Shutdown
  BY <1>0, <1>2 DEF Shutdown, ResetNudged
<1>3. ASSUME NEW c \in Ids, Overwrite(c) PROVE GuardInv'
  <2>1. Nudges(Tool(c), args[c]) => At(args[c], "path").s \in Paths
    BY DEF Nudges, PathsInv, Known, PathKeys
  <2> QED
    BY <1>0, <1>3, <2>1 DEF Overwrite, Nudge
<1>4. ASSUME NEW c \in Ids, OtherRuns(c) PROVE GuardInv'
  <2>1. /\ disk' = disk \/ disk' = [disk EXCEPT ![Target(args[c])] = "full"]
        /\ late' = late \/ late' = late \cup (Awaiting(c) \ {c})
        /\ UNCHANGED <<nudged, told>>
    BY <1>4 DEF OtherRuns
  <2>2. Awaiting(c) \subseteq Ids
    BY DEF Awaiting
  <2> QED
    BY <1>0, <2>1, <2>2
<1> QED
  BY <1>1, <1>2, <1>3, <1>4, GuardFrame

LEMMA LiveParkedTyped ==
  ASSUME NEW S, parked \in Seq(S), Len(parked) <= MaxPending
  PROVE  LiveParked \in Seq(S) /\ Len(LiveParked) <= MaxPending
  BY LiveParkedTail, LifecycleAssumption

LEMMA LifecycleStep == ASSUME TInv, [Next]_vars PROVE LifecycleInv'
<1> USE DEF TInv, LifecycleInv
<1>1. Item' = Item
  BY BatchStays, MessageStays
<1>2. CASE UNCHANGED <<lifecycleVars, since, parkedAt>>
  BY <1>1, <1>2 DEF lifecycleVars
<1>3. CASE Shutdown
  <2>1. now' = now /\ parked' = <<>> /\ associated' = <<>>
    BY <1>3 DEF Shutdown, ClearLifecycle
  <2>2. <<>> \in Seq(Item) /\ Len(<<>>) <= MaxPending /\ Len(<<>>) <= MaxAssociated /\ IsList(<<>>)
    BY LifecycleAssumption DEF IsList
  <2> QED
    BY <1>1, <2>1, <2>2
<1>4. CASE Clock
  <2>1. now < MaxNow /\ now' = now + 1 /\ parked' = parked /\ associated' = associated
    BY <1>4 DEF Clock, Tick
  <2> QED
    BY <1>1, <2>1, LifecycleAssumption
<1>5. ASSUME NEW c \in Ids, Prepare(c), Tool(c) = "edit", Prepared(c).outcome = "repaired"
      PROVE  LifecycleInv'
  <2> DEFINE key == Prepared(c).args
  <2>1. Enqueue(key, c) /\ key \in Keys
    BY <1>5 DEF Prepare, Keys
  <2> HIDE DEF key
  <2>2. now' = now
    BY <2>1 DEF Enqueue
  <2>3. [key |-> key, note |-> c, at |-> now] \in Item
    BY <2>1 DEF Item
  <2>4. parked' \in Seq(Item) /\ Len(parked') <= MaxPending
    BY <2>1, <2>3, EnqueueParks, LifecycleAssumption
  <2>5. IsList(associated') /\ Len(associated') <= MaxAssociated
    BY <2>1, AssociatedBounded, LifecycleAssumption
  <2> QED
    BY <1>1, <2>2, <2>4, <2>5
<1>6. ASSUME NEW c \in Ids, EditCorrelates(c) PROVE LifecycleInv'
  <2>1. Correlate(args[c], c) /\ now' = now
    BY <1>6 DEF EditCorrelates, Correlate
  <2>2. parked' \in Seq(Item) /\ Len(parked') <= MaxPending
    <3>1. LiveParked \in Seq(Item) /\ Len(LiveParked) <= MaxPending
      BY LiveParkedTyped
    <3>2. parked' = LiveParked \/ (parked' \in Seq(Item) /\ Len(parked') = Len(LiveParked) - 1)
      BY <2>1, CorrelateTakes
    <3> QED
      BY <3>1, <3>2, LifecycleAssumption
  <2>3. IsList(associated') /\ Len(associated') <= MaxAssociated
    BY <2>1, AssociatedBounded, LifecycleAssumption
  <2> QED
    BY <1>1, <2>1, <2>2, <2>3
<1>7. ASSUME NEW c \in Ids, Take(c) PROVE LifecycleInv'
  <2>1. parked' = LiveParked /\ now' = now
    BY <1>7 DEF Take
  <2>2. IsList(associated') /\ Len(associated') <= MaxAssociated
    BY <1>7, AssociatedBounded, LifecycleAssumption
  <2> QED
    BY <1>1, <2>1, <2>2, LiveParkedTyped
<1> QED
  BY <1>2, <1>3, <1>4, <1>5, <1>6, <1>7, LifecycleFrame

\* A note that is given is a parked one, or none.
LEMMA MatchTyped ==
  ASSUME LifecycleInv, NEW key, NEW id, Correlate(key, id)
  PROVE  Match(key) \in Ids \cup {NoNote}
<1>1. LiveParked \in Seq(Item)
  BY LiveParkedTail DEF LifecycleInv
<1>2. Match(key) = NoNote \/ \E j \in 1 .. Len(LiveParked) : Match(key) = LiveParked[j].note
  BY CorrelateTakes DEF LifecycleInv
<1>3. \A j \in 1 .. Len(LiveParked) : LiveParked[j] \in Item
  BY <1>1
<1>4. \A x \in Item : x.note \in Ids
  BY DEF Item
<1> QED
  BY <1>2, <1>3, <1>4

LEMMA CallsStep == ASSUME TInv, [Next]_vars PROVE CallsInv'
<1> USE DEF TInv, CallsInv
<1>0. Ids' = Ids /\ Keys' = Keys
  BY BatchStays, MessageStays
<1>1. PCs = {"sent", "prepared", "looked", "cleared", "advised", "queued", "written",
             "answered", "refused", "ended"}
      /\ {"ok", "aborted", "invalid", "crashed", "failed", "noUndo", "refused", "blocked"}
           \subseteq Results
      /\ Signatures \subseteq Results
  BY DEF PCs, Results
<1> USE <1>0, <1>1 DEF Goto, Answer
<1>2. ASSUME NEW c \in Ids, Refuse(c) PROVE CallsInv'
  <2>1. /\ pc' = [pc EXCEPT ![c] = "refused"] /\ result' = [result EXCEPT ![c] = "refused"]
        /\ UNCHANGED <<args, made, feedback, since, parkedAt, ran, editContexts, envelopes, advised>>
    BY <1>2 DEF Refuse
  <2> QED
    BY <2>1
<1>3. ASSUME NEW c \in Ids, Prepare(c) PROVE CallsInv'
  <2>1. Prepared(c).args \in Keys /\ now \in 0 .. MaxNow
    BY DEF Keys, LifecycleInv
  <2>2. UNCHANGED <<result, feedback, ran, envelopes, advised, editContexts>>
    BY <1>3 DEF Prepare, telemetryVars
  <2>3. pc' \in [Ids -> PCs] /\ DOMAIN args' = Ids /\ made' \in [Ids -> Keys \cup {Absent}]
    BY <1>3, <2>1 DEF Prepare
  <2>4. since' \in [Ids -> Nat \cup {NoNote}] /\ parkedAt' \in [Ids -> 0 .. MaxNow]
    <3>1. CASE UNCHANGED <<since, parkedAt>>
      BY <3>1
    <3>2. CASE ~UNCHANGED <<since, parkedAt>>
      <4>1. /\ since' = [d \in Ids |-> IF d = c THEN 0
                           ELSE IF since[d] = NoNote THEN NoNote ELSE since[d] + 1]
            /\ parkedAt' = [parkedAt EXCEPT ![c] = now]
        BY <1>3, <3>2 DEF Prepare
      <4> QED
        BY <2>1, <4>1
    <3> QED
      BY <3>1, <3>2
  <2> QED
    BY <2>2, <2>3, <2>4
<1>4. ASSUME NEW c \in Ids, Preflight(c) PROVE CallsInv'
  BY <1>4 DEF Preflight
<1>5. ASSUME NEW c \in Ids, Overwrite(c) PROVE CallsInv'
  BY <1>5 DEF Overwrite, telemetryVars
<1>6. ASSUME NEW c \in Ids, EditRefused(c) \/ OtherRuns(c) \/ EditThrows(c) PROVE CallsInv'
  <2>1. /\ pc' = [pc EXCEPT ![c] = "answered"]
        /\ \E r \in Results : result' = [result EXCEPT ![c] = r]
        /\ UNCHANGED <<args, made, feedback, since, parkedAt, ran, envelopes, advised>>
    BY <1>6 DEF EditRefused, OtherRuns, EditThrows
  <2>2. editContexts' \subseteq editContexts
    BY <1>6 DEF EditRefused, OtherRuns, EditThrows, ClearEditContext, telemetryVars
  <2> QED
    BY <2>1, <2>2
<1>7. ASSUME NEW c \in Ids, EditCorrelates(c) PROVE CallsInv'
  <2>1. Match(args[c]) \in Ids \cup {NoNote}
    BY <1>7, MatchTyped DEF EditCorrelates
  <2>2. (IF IsOutside(args[c]) THEN 1 ELSE 0) \in Nat
    OBVIOUS
  <2> QED
    BY <1>7, <2>1, <2>2 DEF EditCorrelates
<1>8. ASSUME NEW c \in Ids, EditBegins(c) PROVE CallsInv'
  BY <1>8 DEF EditBegins, BeginEdit
<1>9. ASSUME NEW c \in Ids, EditFails(c) \/ EditSucceeds(c) PROVE CallsInv'
  <2>1. /\ \E l \in PCs : pc' = [pc EXCEPT ![c] = l]
        /\ result' \in {result, [result EXCEPT ![c] = "failed"]}
        /\ ran' = [ran EXCEPT ![c] = TRUE]
        /\ UNCHANGED <<args, made, feedback, since, parkedAt, advised>>
    BY <1>9 DEF EditFails, EditSucceeds
  <2>2. editContexts' \subseteq editContexts
    BY <1>9 DEF EditFails, EditSucceeds, Envelope, EndEdit, telemetryVars
  <2>3. \E n \in {0, 1} : envelopes' = [envelopes EXCEPT ![c] = @ + n]
    BY <1>9 DEF EditFails, EditSucceeds, Envelope, Envelopes
  <2> QED
    BY <2>1, <2>2, <2>3
<1>10. ASSUME NEW c \in Ids, EditAnswers(c) PROVE CallsInv'
  BY <1>10 DEF EditAnswers, Envelope, Envelopes, EndEdit
<1>11. ASSUME NEW c \in Ids, Enhance(c) \/ Watch(c) PROVE CallsInv'
  BY <1>11 DEF Enhance, Watch
<1>12. CASE Shutdown
  BY <1>12 DEF Shutdown
<1>13. CASE (\E t \in Tools : Retry(t)) \/ Checkpoint \/ SessionStart \/ Clock \/ UNCHANGED vars
  BY <1>13 DEF Retry, Checkpoint, SessionStart, Clock, callVars, telemetryVars, vars
<1> QED
  BY <1>2, <1>3, <1>4, <1>5, <1>6, <1>7, <1>8, <1>9, <1>10, <1>11, <1>12, <1>13
     DEF Next, CallStep

\* A call that is not the one that steps stays where it is.
LEMMA OthersStay ==
  ASSUME TInv, NEW c \in Ids, CallStep(c), NEW d \in Ids, d # c
  PROVE  /\ pc'[d] = pc[d] /\ args'[d] = args[d] /\ made'[d] = made[d]
         /\ feedback'[d] = feedback[d] /\ ran'[d] = ran[d] /\ envelopes'[d] = envelopes[d]
         /\ advised'[d] = advised[d] /\ (d \in editContexts' <=> d \in editContexts)
<1> USE DEF TInv, CallsInv, Goto
<1>1. CASE Refuse(c) \/ Preflight(c) \/ Overwrite(c)
  BY <1>1 DEF Refuse, Preflight, Overwrite, telemetryVars
<1>2. CASE Prepare(c)
  BY <1>2 DEF Prepare, telemetryVars
<1>3. CASE EditRefused(c) \/ EditBegins(c) \/ EditThrows(c)
  BY <1>3 DEF EditRefused, EditBegins, EditThrows, BeginEdit, ClearEditContext, telemetryVars
<1>4. CASE EditCorrelates(c)
  <2>1. /\ \E x : feedback' = [feedback EXCEPT ![c] = x]
        /\ \E n : advised' = [advised EXCEPT ![c] = n]
        /\ pc' = [pc EXCEPT ![c] = "advised"]
        /\ UNCHANGED <<args, made, ran, envelopes, editContexts>>
    BY <1>4 DEF EditCorrelates
  <2> QED
    BY <2>1
<1>5. CASE EditFails(c) \/ EditSucceeds(c) \/ EditAnswers(c)
  <2>1. /\ \E l : pc' = [pc EXCEPT ![c] = l]
        /\ ran' \in {ran, [ran EXCEPT ![c] = TRUE]}
        /\ UNCHANGED <<args, made, feedback, advised>>
    BY <1>5 DEF EditFails, EditSucceeds, EditAnswers
  <2>2. editContexts' \in {editContexts, editContexts \ {c}}
    BY <1>5 DEF EditFails, EditSucceeds, EditAnswers, Envelope, EndEdit, telemetryVars
  <2>3. envelopes' = envelopes \/ \E n : envelopes' = [envelopes EXCEPT ![c] = n]
    BY <1>5 DEF EditFails, EditSucceeds, EditAnswers, Envelope
  <2> QED
    BY <2>1, <2>2, <2>3
<1>6. CASE OtherRuns(c) \/ Enhance(c) \/ Watch(c)
  BY <1>6 DEF OtherRuns, Enhance, Watch, telemetryVars
<1> QED
  BY <1>1, <1>2, <1>3, <1>4, <1>5, <1>6 DEF CallStep

\* Steps that are no call's leave the calls where they are.
LEMMA CallsStay ==
  ASSUME \/ (\E t \in Tools : Retry(t)) \/ Checkpoint \/ Shutdown \/ SessionStart
         \/ Clock \/ UNCHANGED vars
  PROVE  UNCHANGED <<pc, args, result, feedback, made, ran, envelopes, advised, parkedAt, editContexts>>
  BY DEF Retry, Checkpoint, Shutdown, SessionStart, Clock, callVars, telemetryVars, vars

LEMMA PathsStep == ASSUME TInv, [Next]_vars PROVE PathsInv'
<1> DEFINE Placed(c) ==
      /\ Tool(c) # "edit" => Known(args[c])
      /\ pc[c] = "looked" => Tool(c) = "write"
      /\ pc[c] \in {"advised", "queued", "written"} => Tool(c) = "edit"
<1>1. batch' = batch /\ Ids' = Ids /\ \A c : Tool(c)' = Tool(c)
  BY BatchStays, MessageStays DEF Tool
<1>2. \A d \in Ids : Placed(d)
  BY DEF TInv, PathsInv
<1>3. ASSUME NEW c \in Ids, CallStep(c) PROVE Placed(c)'
  <2> USE DEF TInv, CallsInv, Goto
  <2>1. CASE Refuse(c) \/ Enhance(c) \/ Watch(c)
    BY <1>1, <1>2, <2>1 DEF Refuse, Enhance, Watch
  <2>2. CASE Prepare(c)
    BY <1>1, <1>2, <2>2 DEF Prepare
  <2>3. CASE Preflight(c)
    <3>1. args' = args \/ args' = [args EXCEPT ![c] = Repaired(Tool(c), @)]
      BY <2>3 DEF Preflight
    <3>2. Tool(c) # "edit" => Known(args'[c])
      BY <1>2, <3>1, RepairedKnown
    <3>3. pc'[c] \in {"refused", "cleared"} \/ (pc'[c] = "looked" /\ Tool(c) = "write")
      BY <2>3 DEF Preflight
    <3> QED
      BY <1>1, <3>2, <3>3 DEF Known
  <2>4. CASE Overwrite(c)
    BY <1>1, <1>2, <2>4 DEF Overwrite
  <2>5. CASE EditRefused(c) \/ EditCorrelates(c) \/ EditBegins(c) \/ EditThrows(c)
    BY <1>1, <1>2, <2>5 DEF EditRefused, EditCorrelates, EditBegins, EditThrows
  <2>6. CASE EditFails(c) \/ EditSucceeds(c) \/ EditAnswers(c) \/ OtherRuns(c)
    BY <1>1, <1>2, <2>6 DEF EditFails, EditSucceeds, EditAnswers, OtherRuns
  <2> QED
    BY <1>3, <2>1, <2>2, <2>3, <2>4, <2>5, <2>6 DEF CallStep
<1>4. ASSUME NEW d \in Ids PROVE Placed(d)'
  <2>1. CASE CallStep(d)
    BY <1>3, <2>1
  <2>2. ASSUME NEW c \in Ids, CallStep(c), c # d PROVE Placed(d)'
    BY <1>1, <1>2, <2>2, OthersStay DEF Known
  <2>3. CASE UNCHANGED <<pc, args>>
    BY <1>1, <1>2, <2>3 DEF Known
  <2> QED
    BY <2>1, <2>2, <2>3, CallsStay DEF Next
<1> QED
  BY <1>1, <1>4 DEF PathsInv

LEMMA TypesStep == TInv /\ [Next]_vars => TInv'
  BY BatchStays, LifecycleStep, StormStep, GuardStep, LogStep, CallsStep, PathsStep DEF TInv

LEMMA TypesHold == Spec => []TInv
  BY InitTypes, TypesStep, PTL DEF Spec

\* For any messages and settings: with telemetry on no event is lost, doubled or
\* out of order (telemetry.ts 263-271, 427-442).
THEOREM AuditWhole == Spec => []AuditComplete
<1>1. TInv => AuditComplete
  <2> SUFFICES ASSUME TInv PROVE AuditComplete
    OBVIOUS
  <2>1. Complete(Store, batch.telemetry)
    BY DEF TInv, LogInv
  <2> QED
    BY <2>1 DEF AuditComplete, Complete, Store
<1> QED
  BY <1>1, TypesHold, PTL

-----------------------------------------------------------------------------
(* Broken loops and blocked writes.                                          *)

\* For any tools, thresholds and windows: a loop is broken when, and only when, a
\* signature fills enough of the tool's last failures (stormbreaker.ts 118-144).
THEOREM LoopsAreLoops == Spec => BreaksAreLoops
<1>1. ASSUME TInv, [Next]_vars
      PROVE  \A c \in Ids :
               Watch(c) /\ result[c] \notin {"ok", "aborted"} =>
                 (loopsBroken'[Tool(c)] > loopsBroken[Tool(c)] <=>
                    CountOf(LastOf(Append(streak[Tool(c)], result[c]), MaxWindowSize), result[c])
                      >= Threshold)
  <2> SUFFICES ASSUME NEW c \in Ids, Watch(c), result[c] \notin {"ok", "aborted"}
               PROVE  loopsBroken'[Tool(c)] > loopsBroken[Tool(c)] <=>
                        CountOf(LastOf(Append(streak[Tool(c)], result[c]), MaxWindowSize), result[c])
                          >= Threshold
    BY <1>1
  <2> DEFINE t == Tool(c)
             r == result[c]
  <2>1. t \in Tools /\ r \in Results /\ loopsBroken \in [Tools -> Nat]
    BY <1>1, ToolIsATool DEF TInv, CallsInv, StormInv
  <2>2. windows[t] = LastOf(streak[t], MaxWindowSize) /\ streak[t] \in Seq(Results)
    BY <1>1, <2>1 DEF TInv, StormInv
  <2>3. Fail(t, r) \/ Break(t, r)
    BY DEF Watch
  <2> HIDE DEF t, r
  <2>4. WindowAfter(t, r) = LastOf(Append(streak[t], r), MaxWindowSize)
    BY <2>1, <2>2, WindowOfStreak, StormAssumption DEF WindowAfter
  <2>5. Reached(t, r) <=> CountOf(LastOf(Append(streak[t], r), MaxWindowSize), r) >= Threshold
    BY <2>4 DEF Reached
  <2>6. loopsBroken'[t] > loopsBroken[t] <=> Reached(t, r)
    BY <2>1, <2>3 DEF Fail, Break
  <2> QED
    BY <2>5, <2>6 DEF t, r
<1> QED
  BY <1>1, TypesHold, PTL DEF Spec, BreaksAreLoops

\* A write that was let pass over content was blocked before under its spelling, or
\* its content came late.
Warned(c) ==
  LET p == At(args[c], "path").s IN
  /\ pc[c] = "cleared" /\ IsWrite(c) /\ c \notin late
  /\ disk[Target(args[c])] = "full" /\ GuardFile[p] = ToolFile[p]
  => p \in told

WritesInv == \A c \in Ids : Warned(c)

\* A write is cleared by the overwrite guard, and by nothing else.
LEMMA ClearedByGuard ==
  ASSUME TInv, NEW c \in Ids, CallStep(c), pc'[c] = "cleared", Tool(c) = "write"
  PROVE  Overwrite(c) /\ ~Nudges(Tool(c), args[c]) /\ args' = args
<1> USE DEF TInv, CallsInv, Goto
<1>1. CASE Refuse(c) \/ Prepare(c) \/ Preflight(c)
  BY <1>1 DEF Refuse, Prepare, Preflight
<1>2. CASE Overwrite(c)
  BY <1>2 DEF Overwrite
<1>3. CASE EditRefused(c) \/ EditCorrelates(c) \/ EditBegins(c) \/ EditThrows(c)
  BY <1>3 DEF EditRefused, EditCorrelates, EditBegins, EditThrows
<1>4. CASE EditFails(c) \/ EditSucceeds(c) \/ EditAnswers(c)
  BY <1>4 DEF EditFails, EditSucceeds, EditAnswers
<1>5. CASE OtherRuns(c) \/ Enhance(c) \/ Watch(c)
  BY <1>5 DEF OtherRuns, Enhance, Watch
<1> QED
  BY <1>1, <1>2, <1>3, <1>4, <1>5 DEF CallStep

LEMMA WritesStep == ASSUME TInv, WritesInv, [Next]_vars PROVE WritesInv'
<1>0. batch' = batch /\ Ids' = Ids
  BY BatchStays, MessageStays
<1> SUFFICES ASSUME NEW d \in Ids, pc'[d] = "cleared", Tool(d) = "write",
                    Names(args'[d], "path"), d \notin late',
                    disk'[Target(args'[d])] = "full",
                    GuardFile[At(args'[d], "path").s] = ToolFile[At(args'[d], "path").s]
             PROVE  At(args'[d], "path").s \in told'
  BY <1>0 DEF WritesInv, Warned, IsWrite, Tool, Target
<1>1. CASE CallStep(d)
  <2>1. Overwrite(d) /\ ~Nudges(Tool(d), args[d]) /\ args' = args
    BY <1>1, ClearedByGuard
  <2>2. disk' = disk /\ told' = nudged
    BY <2>1 DEF Overwrite, TInv, GuardInv
  <2> QED
    BY <2>1, <2>2 DEF Nudges, Target
<1>2. CASE \/ UNCHANGED <<pc, args>> /\ ~Shutdown
           \/ \E c \in Ids \ {d} : CallStep(c)
  <2>1. pc'[d] = pc[d] /\ args'[d] = args[d]
    BY <1>2, OthersStay
  <2>2. At(args[d], "path").s \in Paths /\ Target(args[d]) \in Files
    BY <2>1 DEF TInv, PathsInv, Known, PathKeys, Target, Files
  <2>3. Warned(d) /\ IsWrite(d)
    BY <2>1 DEF WritesInv, IsWrite
  <2>4. CASE UNCHANGED <<guardVars, told, late>>
    BY <2>1, <2>3, <2>4 DEF Warned, guardVars
  <2>5. ASSUME NEW c \in Ids, Overwrite(c) PROVE At(args'[d], "path").s \in told'
    <3>1. disk' = disk /\ late' = late /\ told \subseteq told'
      BY <2>5 DEF Overwrite
    <3> QED
      BY <2>1, <2>3, <3>1 DEF Warned
  <2>6. ASSUME NEW c \in Ids, OtherRuns(c) PROVE At(args'[d], "path").s \in told'
    <3>1. told' = told /\ late \subseteq late'
      BY <2>6 DEF OtherRuns
    <3>2. c # d
      BY <2>1, <2>6 DEF OtherRuns, Goto, TInv, CallsInv
    <3>3. disk' = disk \/ Target(args[c]) # Target(args[d])
      <4> SUFFICES ASSUME disk' # disk, Target(args[c]) = Target(args[d]) PROVE FALSE
        OBVIOUS
      <4>1. late' = late \cup (Awaiting(c) \ {c})
        BY <2>6 DEF OtherRuns
      <4>2. d \in Awaiting(c)
        BY <2>1, <2>3 DEF Awaiting
      <4> QED
        BY <3>2, <4>1, <4>2
    <3>4. disk'[Target(args[d])] = disk[Target(args[d])]
      <4>1. disk' = disk \/ disk' = [disk EXCEPT ![Target(args[c])] = "full"]
        BY <2>6 DEF OtherRuns
      <4>2. Target(args[d]) \in DOMAIN disk
        BY <2>2 DEF TInv, GuardInv
      <4> QED
        BY <3>3, <4>1, <4>2
    <3> QED
      BY <2>1, <2>3, <3>1, <3>4 DEF Warned
  <2>7. ~Shutdown
    BY <1>2, <2>1 DEF Shutdown, CallStep
  <2> QED
    BY <2>4, <2>5, <2>6, <2>7, GuardFrame
<1>3. CASE Shutdown
  BY <1>3 DEF Shutdown
<1> QED
  BY <1>1, <1>2, <1>3, CallsStay DEF Next

\* For any paths and sessions: a write replaces content only after it was blocked in
\* the session under its spelling, but for the cases NoBlindOverwrite names, and what
\* was blocked passes the second time (guards/overwrite/guard.ts 36-68).
THEOREM NoBlindWrites == Spec => NoBlindOverwrite
<1>1. Init => WritesInv
  BY DEF Init, WritesInv, Warned
<1>2. TInv /\ WritesInv /\ [Next]_vars => WritesInv'
  BY WritesStep
<1>3. TInv /\ WritesInv =>
        \A c \in Ids :
          LET p == At(args[c], "path").s IN
          /\ OtherRuns(c) /\ IsWrite(c) /\ disk[Target(args[c])] = "full" =>
               p \in told \/ c \in late \/ GuardFile[p] # ToolFile[p]
          /\ Overwrite(c) /\ IsWrite(c) /\ p \in told => pc'[c] = "cleared"
  <2> SUFFICES ASSUME TInv, WritesInv, NEW c \in Ids, NEW p, p = At(args[c], "path").s
               PROVE  /\ OtherRuns(c) /\ IsWrite(c) /\ disk[Target(args[c])] = "full" =>
                           p \in told \/ c \in late \/ GuardFile[p] # ToolFile[p]
                      /\ Overwrite(c) /\ IsWrite(c) /\ p \in told => pc'[c] = "cleared"
    OBVIOUS
  <2>1. ASSUME OtherRuns(c), IsWrite(c), disk[Target(args[c])] = "full"
        PROVE  p \in told \/ c \in late \/ GuardFile[p] # ToolFile[p]
    <3>1. Warned(c) /\ pc[c] = "cleared"
      BY <2>1 DEF WritesInv, OtherRuns
    <3> QED
      BY <2>1, <3>1 DEF Warned
  <2>2. ASSUME Overwrite(c), IsWrite(c), p \in told PROVE pc'[c] = "cleared"
    <3>1. ~Nudges(Tool(c), args[c])
      BY <2>2 DEF Nudges, TInv, GuardInv
    <3> QED
      BY <2>2, <3>1 DEF Overwrite, Goto, TInv, CallsInv
  <2> QED
    BY <2>1, <2>2
<1> QED
  BY <1>1, <1>2, <1>3, TypesHold, PTL DEF Spec, NoBlindOverwrite

-----------------------------------------------------------------------------
(* Envelopes and advisories.                                                 *)

\* A call has a context from beginEdit to its end, and an envelope once it has ended
\* with a result.
EnvelopePlace(c) ==
  /\ c \in editContexts <=> pc[c] \in {"queued", "written"}
  /\ envelopes[c] = IF ran[c] /\ pc[c] # "written" THEN 1 ELSE 0
  /\ pc[c] \in {"sent", "prepared", "looked", "cleared", "advised", "queued"} => ~ran[c]
  /\ pc[c] = "written" => ran[c]

\* The hook advises before a call is cleared, of what it takes to be outside, the
\* edit tool after, of what is.
AdvicePlace(c) ==
  LET path == Tool(c) \in PathTools IN
  /\ advised[c] <= 1
  /\ pc[c] \in {"sent", "prepared"} => advised[c] = 0
  /\ pc[c] \in {"looked", "cleared"} =>
       advised[c] = IF path /\ Tool(c) # "edit" /\ HookOutside(args[c]) THEN 1 ELSE 0
  /\ pc[c] \in {"advised", "queued", "written"} =>
       advised[c] = IF path /\ IsOutside(args[c]) THEN 1 ELSE 0

PlaceInv == \A c \in Ids : EnvelopePlace(c) /\ AdvicePlace(c)

LEMMA InitPlaces == Init => PlaceInv
<1> SUFFICES ASSUME Init, NEW c \in Ids PROVE EnvelopePlace(c) /\ AdvicePlace(c)
  BY DEF PlaceInv
<1>1. /\ pc[c] = "sent" /\ ran[c] = FALSE /\ envelopes[c] = 0 /\ advised[c] = 0
      /\ editContexts = {}
  BY DEF Init, TelemetryInit
<1>2. EnvelopePlace(c)
  BY <1>1 DEF EnvelopePlace
<1>3. AdvicePlace(c)
  BY <1>1 DEF AdvicePlace
<1> QED
  BY <1>2, <1>3

LEMMA EnvelopeStep ==
  ASSUME TInv, NEW c \in Ids, CallStep(c), EnvelopePlace(c)
  PROVE  EnvelopePlace(c)'
<1> USE DEF TInv, CallsInv, Goto, EnvelopePlace
<1>1. CASE Refuse(c) \/ Prepare(c) \/ Preflight(c) \/ Overwrite(c)
  <2>1. /\ pc[c] \in {"sent", "prepared", "looked"}
        /\ pc'[c] \in {"prepared", "looked", "cleared", "refused"}
    BY <1>1 DEF Refuse, Prepare, Preflight, Overwrite
  <2>2. UNCHANGED <<ran, envelopes, editContexts>>
    BY <1>1 DEF Refuse, Prepare, Preflight, Overwrite, telemetryVars
  <2> QED
    BY <2>1, <2>2
<1>2. CASE EditRefused(c) \/ EditCorrelates(c) \/ OtherRuns(c)
  <2>1. pc[c] = "cleared" /\ pc'[c] \in {"advised", "answered"}
    BY <1>2 DEF EditRefused, EditCorrelates, OtherRuns
  <2>2. UNCHANGED <<ran, envelopes, editContexts>>
    BY <1>2 DEF EditRefused, EditCorrelates, OtherRuns, telemetryVars
  <2> QED
    BY <2>1, <2>2
<1>3. CASE EditBegins(c)
  BY <1>3 DEF EditBegins, BeginEdit
<1>4. CASE EditThrows(c)
  BY <1>4 DEF EditThrows, ClearEditContext
<1>5. CASE EditFails(c)
  BY <1>5 DEF EditFails, Envelope, Envelopes, EndEdit
<1>6. CASE EditSucceeds(c)
  BY <1>6 DEF EditSucceeds, telemetryVars
<1>7. CASE EditAnswers(c)
  BY <1>7 DEF EditAnswers, Envelope, Envelopes, EndEdit
<1>8. CASE Enhance(c) \/ Watch(c)
  BY <1>8 DEF Enhance, Watch
<1> QED
  BY <1>1, <1>2, <1>3, <1>4, <1>5, <1>6, <1>7, <1>8 DEF CallStep

LEMMA AdviceStep ==
  ASSUME TInv, NEW c \in Ids, CallStep(c), batch' = batch, AdvicePlace(c)
  PROVE  AdvicePlace(c)'
<1> USE DEF TInv, CallsInv, Goto
<1>0. Tool(c)' = Tool(c)
  BY DEF Tool
<1>1. CASE Refuse(c) \/ Prepare(c)
  <2>1. pc[c] = "sent" /\ pc'[c] \in {"prepared", "refused"} /\ advised' = advised
    BY <1>1 DEF Refuse, Prepare
  <2> QED
    BY <2>1 DEF AdvicePlace
<1>2. CASE Preflight(c)
  <2> DEFINE v == args[c]
  <2>1. pc[c] = "prepared" /\ advised[c] = 0
    BY <1>2 DEF Preflight, AdvicePlace
  <2>2. CASE pc'[c] = "refused" /\ advised' = advised
    BY <2>1, <2>2 DEF AdvicePlace
  <2>3. CASE /\ pc'[c] \in {"looked", "cleared"} /\ args'[c] = Repaired(Tool(c), v)
             /\ advised'[c] = IF Advises(Tool(c), v) THEN advised[c] + 1 ELSE advised[c]
    <3>1. Advises(Tool(c), v) <=>
            Tool(c) \in PathTools /\ HookOutside(Repaired(Tool(c), v)) /\ Tool(c) # "edit"
      BY AdvisesOutside DEF Advises, OwnsAdvisory, PathsInv
    <3> QED
      BY <1>0, <2>1, <2>3, <3>1 DEF AdvicePlace
  <2> QED
    BY <1>2, <2>2, <2>3 DEF Preflight
<1>3. CASE Overwrite(c)
  <2>1. pc[c] = "looked" /\ pc'[c] \in {"refused", "cleared"} /\ UNCHANGED <<args, advised>>
    BY <1>3 DEF Overwrite
  <2> QED
    BY <1>0, <2>1 DEF AdvicePlace
<1>4. CASE EditCorrelates(c)
  <2>1. /\ pc[c] = "cleared" /\ Tool(c) = "edit" /\ pc'[c] = "advised" /\ args' = args
        /\ advised'[c] = advised[c] + (IF IsOutside(args[c]) THEN 1 ELSE 0)
    BY <1>4 DEF EditCorrelates
  <2>2. advised[c] = 0 /\ "edit" \in PathTools
    BY <2>1, PathAssumption DEF AdvicePlace
  <2> QED
    BY <1>0, <2>1, <2>2 DEF AdvicePlace
<1>5. CASE EditBegins(c) \/ EditSucceeds(c)
  <2>1. /\ pc[c] \in {"advised", "queued"} /\ pc'[c] \in {"queued", "written"}
        /\ UNCHANGED <<args, advised>>
    BY <1>5 DEF EditBegins, EditSucceeds
  <2> QED
    BY <1>0, <2>1 DEF AdvicePlace
<1>6. CASE EditRefused(c) \/ EditThrows(c) \/ EditFails(c) \/ EditAnswers(c) \/ OtherRuns(c)
             \/ Enhance(c) \/ Watch(c)
  <2>1. pc'[c] \in {"answered", "refused", "ended"} /\ advised' = advised
    BY <1>6 DEF EditRefused, EditThrows, EditFails, EditAnswers, OtherRuns, Enhance, Watch
  <2> QED
    BY <2>1 DEF AdvicePlace
<1> QED
  BY <1>1, <1>2, <1>3, <1>4, <1>5, <1>6 DEF CallStep

LEMMA PlaceStep == ASSUME TInv, PlaceInv, [Next]_vars PROVE PlaceInv'
<1>0. batch' = batch /\ Ids' = Ids
  BY BatchStays, MessageStays
<1> SUFFICES ASSUME NEW d \in Ids PROVE EnvelopePlace(d)' /\ AdvicePlace(d)'
  BY <1>0 DEF PlaceInv
<1>1. EnvelopePlace(d) /\ AdvicePlace(d)
  BY DEF PlaceInv
<1>2. CASE CallStep(d)
  BY <1>0, <1>1, <1>2, EnvelopeStep, AdviceStep
<1>3. CASE /\ pc'[d] = pc[d] /\ args'[d] = args[d] /\ ran'[d] = ran[d]
           /\ envelopes'[d] = envelopes[d] /\ advised'[d] = advised[d]
           /\ (d \in editContexts' <=> d \in editContexts)
  <2>1. /\ Tool(d)' = Tool(d) /\ (IsOutside(args[d])' <=> IsOutside(args[d]))
        /\ HookOutside(args[d])' <=> HookOutside(args[d])
    BY <1>0, <1>3 DEF Tool, IsOutside, HookOutside, Names, Target
  <2>2. EnvelopePlace(d)'
    BY <1>1, <1>3 DEF EnvelopePlace
  <2>3. AdvicePlace(d)'
    BY <1>1, <1>3, <2>1 DEF AdvicePlace
  <2> QED
    BY <2>2, <2>3
<1> QED
  BY <1>2, <1>3, OthersStay, CallsStay DEF Next

LEMMA PlacesHold == Spec => []PlaceInv
<1>1. Init => PlaceInv
  BY InitPlaces
<1>2. TInv /\ PlaceInv /\ [Next]_vars => PlaceInv'
  BY PlaceStep
<1> QED
  BY <1>1, <1>2, TypesHold, PTL DEF Spec

\* For any messages: a call that is over left one envelope if it had a result, and
\* no context (platform/tools/edit.ts 238-247, 446-449, 476-491).
THEOREM OneEnvelope == Spec => []EnvelopeOnce
<1>1. TInv /\ PlaceInv => EnvelopeOnce
  BY DEF TInv, CallsInv, PlaceInv, EnvelopePlace, EnvelopeOnce
<1> QED
  BY <1>1, TypesHold, PlacesHold, PTL

\* For any messages and paths: no edit that executes outside the working directory
\* goes unadvised, nor any other call whose path the hook takes for the file the tool
\* takes it for, and none is advised of twice (guards/workspace/advisory.ts 32-40).
THEOREM OneAdvisory == Spec => []AdvisedOnce
<1>1. \A v : OneFile(v) => (HookOutside(v) <=> IsOutside(v))
  BY DEF OneFile, HookOutside, IsOutside
<1>2. PlaceInv => AdvisedOnce
  BY <1>1 DEF PlaceInv, AdvicePlace, AdvisedOnce
<1> QED
  BY <1>2, PlacesHold, PTL

-----------------------------------------------------------------------------
(* The notes of repairs.                                                     *)

\* A parked note is the one its call parked, in its place among those parked after
\* it, and no call has got it.
ParkedFits ==
  \A i \in 1 .. Len(parked) :
    LET n == parked[i].note IN
    /\ made[n] = parked[i].key /\ parkedAt[n] = parked[i].at /\ pc[n] # "sent"
    /\ since[n] # NoNote /\ since[n] >= Len(parked) - i
    /\ \A j \in 1 .. Len(parked) : parked[j].note = n => j = i
    /\ \A c \in Ids : feedback[c] # n

\* A call that has got a note has executed, with the arguments its repair ended at.
GivenFits ==
  \A c \in Ids : feedback[c] # NoNote =>
    /\ pc[c] \notin {"sent", "prepared", "looked", "cleared"} /\ made[c] # Absent
    /\ made[feedback[c]] = args[c] /\ pc[feedback[c]] # "sent"
    /\ \A d \in Ids : feedback[d] = feedback[c] => d = c

\* A note parked in time and not pushed out is still parked, or some call has got it.
KeptOrGiven ==
  \A d \in Ids :
    since[d] # NoNote /\ since[d] < MaxPending /\ now <= parkedAt[d] + TtlMs =>
      \/ \E i \in 1 .. Len(parked) : parked[i].note = d
      \/ \E c \in Ids : feedback[c] = d

\* Calls that are prepared: an edit with arguments, and only those have parked notes,
\* each before fewer others than there are calls prepared.
Begun == {c \in Ids : pc[c] # "sent"}

PreparedFits ==
  \A c \in Ids :
    /\ Tool(c) = "edit" /\ pc[c] \in {"prepared", "cleared", "advised", "queued", "written"} =>
         made[c] # Absent
    /\ pc[c] = "sent" => since[c] = NoNote
    /\ since[c] # NoNote => since[c] < Cardinality(Begun)

NotesInv == ParkedFits /\ GivenFits /\ KeptOrGiven /\ PreparedFits

LEMMA InitNotes == Init => NotesInv
<1> SUFFICES ASSUME Init PROVE NotesInv
  OBVIOUS
<1>1. /\ parked = <<>> /\ feedback = [c \in Ids |-> NoNote] /\ since = [c \in Ids |-> NoNote]
      /\ pc = [c \in Ids |-> "sent"]
  BY DEF Init, LifecycleInit
<1>2. Len(parked) = 0
  BY <1>1
<1> QED
  BY <1>1, <1>2 DEF NotesInv, ParkedFits, GivenFits, KeptOrGiven, PreparedFits

\* How far a call may go in one step.
LEMMA CallsProceed ==
  ASSUME TInv, [Next]_vars, NEW c \in Ids
  PROVE  /\ pc'[c] = "sent" => pc[c] = "sent"
         /\ pc[c] # "sent" => made'[c] = made[c]
         /\ pc[c] \notin {"sent", "prepared"} => args'[c] = args[c]
         /\ pc[c] \notin {"sent", "prepared", "looked", "cleared"} =>
              pc'[c] \notin {"sent", "prepared", "looked", "cleared"}
         /\ feedback'[c] = feedback[c] \/ EditCorrelates(c)
<1> USE DEF TInv, CallsInv, Goto
<1>1. CASE Refuse(c) \/ Prepare(c)
  BY <1>1 DEF Refuse, Prepare
<1>2. CASE Preflight(c) \/ Overwrite(c)
  BY <1>2 DEF Preflight, Overwrite
<1>3. CASE EditRefused(c) \/ OtherRuns(c) \/ EditBegins(c) \/ EditThrows(c)
  BY <1>3 DEF EditRefused, OtherRuns, EditBegins, EditThrows
<1>4. CASE EditCorrelates(c)
  BY <1>4 DEF EditCorrelates
<1>5. CASE EditFails(c) \/ EditSucceeds(c) \/ EditAnswers(c) \/ Enhance(c) \/ Watch(c)
  BY <1>5 DEF EditFails, EditSucceeds, EditAnswers, Enhance, Watch
<1>6. CASE ~CallStep(c)
  BY <1>6, OthersStay, CallsStay DEF Next
<1> QED
  BY <1>1, <1>2, <1>3, <1>4, <1>5, <1>6 DEF CallStep

\* The parked notes after a step that parks none: some of those before it, in their
\* order; of the others each has expired or was given.
Places(q) == 1 .. Len(q)

CarriedBy(m) ==
  /\ \A i, j \in Places(parked') : m[i] = m[j] => i = j
  /\ \A i \in Places(parked') :
       parked'[i] = parked[m[i]] /\ Len(parked') - i <= Len(parked) - m[i]
  /\ \A i \in Places(parked) :
       \/ \E j \in Places(parked') : m[j] = i
       \/ Expired(parked[i])
       \/ \E c \in Ids : feedback'[c] = parked[i].note
  /\ \/ feedback' = feedback
     \/ \E c \in Ids, i \in Places(parked) :
          /\ EditCorrelates(c) /\ feedback' = [feedback EXCEPT ![c] = parked[i].note]
          /\ parked[i].key = args[c] /\ \A j \in Places(parked') : m[j] # i

Carries == \E m \in [Places(parked') -> Places(parked)] : CarriedBy(m)

Stands == UNCHANGED <<since, parkedAt>> /\ now' >= now

LEMMA ParkedLive ==
  ASSUME LifecycleInv
  PROVE  /\ Len(parked) \in Nat /\ Len(LiveParked) \in Nat
         /\ \E k \in 0 .. Len(parked) :
              /\ Len(LiveParked) = Len(parked) - k
              /\ \A i \in 1 .. Len(LiveParked) : LiveParked[i] = parked[i + k]
              /\ \A i \in 1 .. k : Expired(parked[i])
  BY LiveParkedTail DEF LifecycleInv

LEMMA SameCarries ==
  ASSUME LifecycleInv, parked' = parked, feedback' = feedback
  PROVE  Carries
<1> DEFINE m == [i \in Places(parked') |-> i]
<1>1. m \in [Places(parked') -> Places(parked)]
  OBVIOUS
<1>2. Len(parked) \in Nat
  BY ParkedLive
<1>3. CarriedBy(m)
  BY <1>2 DEF CarriedBy, Places
<1> QED
  BY <1>1, <1>3 DEF Carries

LEMMA LiveCarries ==
  ASSUME LifecycleInv, parked' = LiveParked, feedback' = feedback
  PROVE  Carries
<1>1. PICK k \in 0 .. Len(parked) :
        /\ Len(LiveParked) = Len(parked) - k
        /\ \A i \in 1 .. Len(LiveParked) : LiveParked[i] = parked[i + k]
        /\ \A i \in 1 .. k : Expired(parked[i])
  BY ParkedLive
<1>2. Len(parked) \in Nat /\ Len(parked') = Len(parked) - k
  BY <1>1, ParkedLive
<1> DEFINE m == [i \in Places(parked') |-> i + k]
<1>3. m \in [Places(parked') -> Places(parked)]
  BY <1>2 DEF Places
<1>4. \A i, j \in Places(parked') : m[i] = m[j] => i = j
  BY <1>2 DEF Places
<1>5. \A i \in Places(parked') :
        parked'[i] = parked[m[i]] /\ Len(parked') - i <= Len(parked) - m[i]
  BY <1>1, <1>2 DEF Places
<1>6. \A i \in Places(parked) : (\E j \in Places(parked') : m[j] = i) \/ Expired(parked[i])
  <2> SUFFICES ASSUME NEW i \in Places(parked), i > k PROVE \E j \in Places(parked') : m[j] = i
    BY <1>1, <1>2 DEF Places
  <2>1. i - k \in Places(parked') /\ m[i - k] = i
    BY <1>2 DEF Places
  <2> QED
    BY <2>1
<1> HIDE DEF m
<1> QED
  BY <1>3, <1>4, <1>5, <1>6 DEF Carries, CarriedBy

LEMMA GivenCarries ==
  ASSUME TInv, NEW c \in Ids, EditCorrelates(c), Match(args[c]) # NoNote
  PROVE  Carries
<1>1. PICK k \in 0 .. Len(parked) :
        /\ Len(LiveParked) = Len(parked) - k
        /\ \A i \in 1 .. Len(LiveParked) : LiveParked[i] = parked[i + k]
        /\ \A i \in 1 .. k : Expired(parked[i])
  BY ParkedLive DEF TInv
<1>2. PICK j \in 1 .. Len(LiveParked) :
        /\ LiveParked[j].key = args[c] /\ Match(args[c]) = LiveParked[j].note
        /\ Len(parked') = Len(LiveParked) - 1
        /\ \A i \in 1 .. Len(parked') : parked'[i] = LiveParked[IF i < j THEN i ELSE i + 1]
  <2>1. parked \in Seq(Item) /\ Correlate(args[c], c)
    BY DEF EditCorrelates, TInv, LifecycleInv
  <2> QED
    BY <2>1, CorrelateTakes
<1>3. /\ Len(parked) \in Nat /\ Len(parked') = Len(parked) - k - 1
      /\ j + k \in Places(parked) /\ LiveParked[j] = parked[j + k]
  BY <1>1, <1>2, ParkedLive DEF TInv, Places
<1> DEFINE m == [i \in Places(parked') |-> IF i < j THEN i + k ELSE i + k + 1]
<1>4. m \in [Places(parked') -> Places(parked)]
  BY <1>3 DEF Places
<1>5. \A i, l \in Places(parked') : m[i] = m[l] => i = l
  BY <1>3 DEF Places
<1>6. ASSUME NEW i \in Places(parked')
      PROVE  parked'[i] = parked[m[i]] /\ Len(parked') - i <= Len(parked) - m[i] /\ m[i] # j + k
  <2>1. parked'[i] = LiveParked[IF i < j THEN i ELSE i + 1]
    BY <1>2 DEF Places
  <2>2. (IF i < j THEN i ELSE i + 1) \in 1 .. Len(LiveParked)
    BY <1>1, <1>3 DEF Places
  <2> QED
    BY <1>1, <1>3, <2>1, <2>2 DEF Places
<1>7. ASSUME NEW i \in Places(parked)
      PROVE  (\E l \in Places(parked') : m[l] = i) \/ Expired(parked[i]) \/ i = j + k
  <2>1. CASE i <= k
    BY <1>1, <2>1 DEF Places
  <2>2. CASE k < i /\ i < j + k
    <3>1. i - k \in Places(parked') /\ m[i - k] = i
      BY <1>3, <2>2 DEF Places
    <3> QED
      BY <3>1
  <2>3. CASE i > j + k
    <3>1. i - k - 1 \in Places(parked') /\ m[i - k - 1] = i
      BY <1>3, <2>3 DEF Places
    <3> QED
      BY <3>1
  <2> QED
    BY <1>3, <2>1, <2>2, <2>3 DEF Places
<1>8. /\ feedback' = [feedback EXCEPT ![c] = parked[j + k].note] /\ parked[j + k].key = args[c]
      /\ feedback'[c] = parked[j + k].note
  BY <1>2, <1>3 DEF EditCorrelates, TInv, CallsInv
<1> HIDE DEF m
<1>9. \A i \in Places(parked) :
        \/ \E l \in Places(parked') : m[l] = i
        \/ Expired(parked[i])
        \/ \E d \in Ids : feedback'[d] = parked[i].note
  BY <1>7, <1>8
<1>10. CarriedBy(m)
  BY <1>3, <1>5, <1>6, <1>8, <1>9 DEF CarriedBy
<1> QED
  BY <1>4, <1>10 DEF Carries

LEMMA NotesMove ==
  ASSUME TInv, GivenFits, [Next]_vars
  PROVE  \/ Shutdown
         \/ \E c \in Ids : Prepare(c) /\ Tool(c) = "edit" /\ Prepared(c).outcome = "repaired"
         \/ Carries /\ Stands
<1>0. LifecycleInv /\ now \in Nat
  BY LifecycleAssumption DEF TInv, LifecycleInv
<1>1. ASSUME NEW c \in Ids, EditCorrelates(c) PROVE Carries /\ Stands
  <2>1. Correlate(args[c], c) /\ feedback' = [feedback EXCEPT ![c] = Match(args[c])]
        /\ pc[c] = "cleared" /\ UNCHANGED <<since, parkedAt>>
    BY <1>1 DEF EditCorrelates
  <2>2. Stands
    BY <1>0, <2>1 DEF Stands, Correlate
  <2>3. CASE Match(args[c]) = NoNote
    <3>1. feedback' = feedback
      BY <2>1, <2>3 DEF GivenFits, TInv, CallsInv
    <3>2. parked' = LiveParked
      <4>1. NoNote \notin Ids
        BY LifecycleAssumption, BatchAssumption DEF TInv, Ids
      <4>2. \A j \in 1 .. Len(LiveParked) : LiveParked[j].note \in Ids
        <5>1. LiveParked \in Seq(Item)
          BY <1>0, LiveParkedTail DEF LifecycleInv
        <5>2. \A j \in 1 .. Len(LiveParked) : LiveParked[j] \in Item
          BY <5>1
        <5>3. \A x \in Item : x.note \in Ids
          BY DEF Item
        <5> QED
          BY <5>2, <5>3
      <4>3. parked \in Seq(Item)
        BY <1>0 DEF LifecycleInv
      <4> QED
        BY <2>1, <2>3, <4>1, <4>2, <4>3, CorrelateTakes
    <3> QED
      BY <1>0, <2>2, <3>1, <3>2, LiveCarries
  <2> QED
    BY <1>1, <2>2, <2>3, GivenCarries
<1>2. CASE \A c \in Ids : ~EditCorrelates(c)
  <2>1. feedback' = feedback
    <3>1. \A c \in Ids : feedback'[c] = feedback[c]
      BY <1>2, CallsProceed
    <3>2. Ids' = Ids
      BY BatchStays, MessageStays
    <3> QED
      BY <3>1, <3>2, CallsStep DEF TInv, CallsInv
  <2>2. CASE UNCHANGED <<lifecycleVars, since, parkedAt>>
    BY <1>0, <2>1, <2>2, SameCarries DEF lifecycleVars, Stands
  <2>3. CASE Clock
    <3>1. now' = now + 1 /\ UNCHANGED <<parked, since, parkedAt>>
      BY <2>3 DEF Clock, Tick, callVars
    <3> QED
      BY <1>0, <2>1, <3>1, SameCarries DEF Stands
  <2>4. ASSUME NEW c \in Ids, Take(c), UNCHANGED <<since, parkedAt>> PROVE Carries /\ Stands
    <3>1. parked' = LiveParked /\ now' = now
      BY <2>4 DEF Take
    <3> QED
      BY <1>0, <2>1, <2>4, <3>1, LiveCarries DEF Stands
  <2> QED
    BY <1>2, <2>2, <2>3, <2>4, LifecycleFrame
<1> QED
  BY <1>1, <1>2

\* What is parked is known, and is no stranger to the message.
LEMMA ParkedTyped ==
  ASSUME LifecycleInv
  PROVE  /\ Len(parked) \in Nat
         /\ \A i \in Places(parked) : /\ parked[i].note \in Ids /\ parked[i].key \in Keys
                                      /\ parked[i].at \in 0 .. MaxNow
<1>1. \A i \in Places(parked) : parked[i] \in Item
  BY DEF LifecycleInv, Places
<1>2. \A x \in Item : x.note \in Ids /\ x.key \in Keys /\ x.at \in 0 .. MaxNow
  BY DEF Item
<1> QED
  BY <1>1, <1>2 DEF LifecycleInv

LEMMA ParkedStep == ASSUME TInv, NotesInv, [Next]_vars PROVE ParkedFits'
<1>0. LifecycleInv /\ Ids' = Ids
  BY BatchStays, MessageStays DEF TInv
<1>1. CASE Shutdown
  <2>1. Len(parked') = 0
    BY <1>1 DEF Shutdown, ClearLifecycle
  <2> QED
    BY <2>1 DEF ParkedFits
<1>2. CASE Carries /\ Stands
  <2>1. PICK m \in [Places(parked') -> Places(parked)] : CarriedBy(m)
    BY <1>2 DEF Carries
  <2> SUFFICES ASSUME NEW i \in Places(parked')
               PROVE  LET n == parked'[i].note IN
                      /\ made'[n] = parked'[i].key /\ parkedAt'[n] = parked'[i].at
                      /\ pc'[n] # "sent"
                      /\ since'[n] # NoNote /\ since'[n] >= Len(parked') - i
                      /\ \A j \in Places(parked') : parked'[j].note = n => j = i
                      /\ \A c \in Ids : feedback'[c] # n
    BY <1>0 DEF ParkedFits, Places
  <2> DEFINE n == parked[m[i]].note
  <2>2. m[i] \in Places(parked) /\ parked'[i] = parked[m[i]] /\ n \in Ids
        /\ Len(parked') - i <= Len(parked) - m[i]
    BY <1>0, <2>1, ParkedTyped DEF CarriedBy
  <2>3. /\ made[n] = parked[m[i]].key /\ parkedAt[n] = parked[m[i]].at /\ pc[n] # "sent"
        /\ since[n] # NoNote /\ since[n] >= Len(parked) - m[i]
        /\ \A j \in Places(parked) : parked[j].note = n => j = m[i]
        /\ \A c \in Ids : feedback[c] # n
    BY <2>2 DEF NotesInv, ParkedFits, Places
  <2>4. made'[n] = made[n] /\ pc'[n] # "sent"
    BY <2>2, <2>3, CallsProceed
  <2>5. since'[n] = since[n] /\ parkedAt'[n] = parkedAt[n]
    BY <1>2 DEF Stands
  <2>6. since[n] >= Len(parked') - i
    <3>1. since[n] \in Nat /\ Len(parked) \in Nat /\ m[i] \in Nat /\ i \in Nat /\ Len(parked') \in Nat
      <4>1. LifecycleInv'
        BY LifecycleStep
      <4>2. Len(parked') \in Nat
        BY <4>1 DEF LifecycleInv
      <4> QED
        BY <1>0, <2>2, <2>3, <4>2, ParkedTyped DEF TInv, CallsInv, Places
    <3> QED
      BY <2>2, <2>3, <3>1
  <2>7. \A j \in Places(parked') : parked'[j].note = n => j = i
    <3> SUFFICES ASSUME NEW j \in Places(parked'), parked'[j].note = n PROVE j = i
      OBVIOUS
    <3>1. m[j] \in Places(parked) /\ parked[m[j]].note = n
      BY <2>1 DEF CarriedBy
    <3> QED
      BY <2>1, <2>3, <3>1 DEF CarriedBy
  <2>8. \A c \in Ids : feedback'[c] # n
    <3>1. CASE feedback' = feedback
      BY <2>3, <3>1
    <3>2. ASSUME NEW d \in Ids, NEW l \in Places(parked),
                 feedback' = [feedback EXCEPT ![d] = parked[l].note],
                 \A j \in Places(parked') : m[j] # l
          PROVE  \A c \in Ids : feedback'[c] # n
      <4>1. parked[l].note # n
        BY <2>3, <3>2
      <4> HIDE DEF n
      <4> QED
        BY <2>3, <3>2, <4>1 DEF TInv, CallsInv
    <3> QED
      BY <2>1, <3>1, <3>2 DEF CarriedBy
  <2> QED
    BY <2>2, <2>3, <2>4, <2>5, <2>6, <2>7, <2>8
<1>3. ASSUME NEW c \in Ids, Prepare(c), Tool(c) = "edit", Prepared(c).outcome = "repaired"
      PROVE  ParkedFits'
  <2> DEFINE key == Prepared(c).args
             new == [key |-> key, note |-> c, at |-> now]
  <2>1. /\ Enqueue(key, c) /\ pc[c] = "sent" /\ pc' = [pc EXCEPT ![c] = "prepared"]
        /\ since' = [d \in Ids |-> IF d = c THEN 0
                       ELSE IF since[d] = NoNote THEN NoNote ELSE since[d] + 1]
        /\ parkedAt' = [parkedAt EXCEPT ![c] = now] /\ made' = [made EXCEPT ![c] = key]
        /\ feedback' = feedback /\ key \in Keys
    BY <1>3 DEF Prepare, Goto, Keys
  <2> HIDE DEF key
  <2>2. new \in Item /\ parked \in Seq(Item)
    BY <1>0, <2>1 DEF Item, LifecycleInv
  <2>3. PICK k \in 0 .. Len(parked) + 1 :
          /\ Len(parked') = Len(parked) + 1 - k
          /\ \A i \in 1 .. Len(parked') :
               parked'[i] = IF i + k <= Len(parked) THEN parked[i + k] ELSE new
          /\ \A i \in 1 .. k :
               \/ i <= Len(parked) /\ Expired(parked[i])
               \/ i <= Len(parked) + 1 - MaxPending
    <3>1. MaxPending \in Nat /\ Enqueue(key, c)
      BY <2>1, LifecycleAssumption
    <3> QED
      BY <2>2, <3>1, EnqueueParks
  <2>4. Len(parked) \in Nat /\ Len(parked') \in Nat
    BY <1>0, <2>3, ParkedTyped
  <2>5. \A i \in Places(parked) : parked[i].note \in Ids \ {c}
    BY <1>0, <2>1, ParkedTyped DEF NotesInv, ParkedFits, Places
  <2> SUFFICES ASSUME NEW i \in Places(parked')
               PROVE  LET n == parked'[i].note IN
                      /\ made'[n] = parked'[i].key /\ parkedAt'[n] = parked'[i].at
                      /\ pc'[n] # "sent"
                      /\ since'[n] # NoNote /\ since'[n] >= Len(parked') - i
                      /\ \A j \in Places(parked') : parked'[j].note = n => j = i
                      /\ \A d \in Ids : feedback'[d] # n
    BY <1>0 DEF ParkedFits, Places
  <2>6. NoNote \notin Nat
    BY LifecycleAssumption
  <2>7. CASE i + k <= Len(parked)
    <3> DEFINE n == parked[i + k].note
    <3>1. i + k \in Places(parked) /\ parked'[i] = parked[i + k] /\ n \in Ids \ {c}
      <4>1. i + k \in Places(parked)
        BY <2>4, <2>7 DEF Places
      <4>2. parked'[i] = parked[i + k]
        BY <2>3, <2>7 DEF Places
      <4> QED
        BY <2>5, <4>1, <4>2
    <3>2. /\ made[n] = parked[i + k].key /\ parkedAt[n] = parked[i + k].at /\ pc[n] # "sent"
          /\ since[n] # NoNote /\ since[n] >= Len(parked) - (i + k)
          /\ \A j \in Places(parked) : parked[j].note = n => j = i + k
          /\ \A d \in Ids : feedback[d] # n
      BY <3>1 DEF NotesInv, ParkedFits, Places
    <3>3. made'[n] = made[n] /\ pc'[n] = pc[n] /\ parkedAt'[n] = parkedAt[n]
      BY <2>1, <3>1 DEF TInv, CallsInv
    <3>4. since'[n] = since[n] + 1 /\ since[n] \in Nat
      BY <2>1, <3>1, <3>2 DEF TInv, CallsInv
    <3>5. \A j \in Places(parked') : parked'[j].note = n => j = i
      <4> SUFFICES ASSUME NEW j \in Places(parked'), parked'[j].note = n PROVE j = i
        OBVIOUS
      <4>1. j + k <= Len(parked) /\ parked'[j] = parked[j + k]
        BY <2>3, <2>4, <3>1 DEF Places
      <4>2. j + k \in Places(parked)
        BY <2>4, <4>1 DEF Places
      <4>3. j + k = i + k
        BY <3>2, <4>1, <4>2
      <4> QED
        BY <4>3 DEF Places
    <3> HIDE DEF n
    <3>6. since'[n] # NoNote /\ since'[n] >= Len(parked') - i
      BY <2>3, <2>4, <2>6, <3>2, <3>4 DEF Places
    <3> QED
      BY <2>1, <3>1, <3>2, <3>3, <3>5, <3>6 DEF n
  <2>8. CASE ~(i + k <= Len(parked))
    <3>1. i = Len(parked') /\ parked'[i] = new
      BY <2>3, <2>4, <2>8 DEF Places
    <3>2. made'[c] = key /\ parkedAt'[c] = now /\ pc'[c] = "prepared" /\ since'[c] = 0
      BY <2>1 DEF TInv, CallsInv
    <3>3. \A j \in Places(parked') : parked'[j].note = c => j = i
      <4> SUFFICES ASSUME NEW j \in Places(parked'), parked'[j].note = c, j # i PROVE FALSE
        OBVIOUS
      <4>1. j + k <= Len(parked) /\ j + k \in Places(parked) /\ parked'[j] = parked[j + k]
        BY <2>3, <2>4, <3>1 DEF Places
      <4> QED
        BY <2>5, <4>1
    <3>4. \A d \in Ids : feedback'[d] # c
      <4>1. NoNote \notin Ids
        BY LifecycleAssumption, BatchAssumption DEF TInv, Ids
      <4> QED
        BY <2>1, <4>1 DEF NotesInv, GivenFits
    <3> QED
      BY <2>6, <3>1, <3>2, <3>3, <3>4 DEF Places
  <2> QED
    BY <2>7, <2>8
<1> QED
  BY <1>1, <1>2, <1>3, NotesMove DEF NotesInv

LEMMA GivenStep == ASSUME TInv, NotesInv, [Next]_vars PROVE GivenFits'
<1>0. LifecycleInv /\ Ids' = Ids /\ NoNote \notin Ids
  BY BatchStays, MessageStays, LifecycleAssumption, BatchAssumption DEF TInv, Ids
<1> SUFFICES ASSUME NEW c \in Ids, feedback'[c] # NoNote
             PROVE  /\ pc'[c] \notin {"sent", "prepared", "looked", "cleared"} /\ made'[c] # Absent
                    /\ made'[feedback'[c]] = args'[c] /\ pc'[feedback'[c]] # "sent"
                    /\ \A d \in Ids : feedback'[d] = feedback'[c] => d = c
  BY <1>0 DEF GivenFits
<1> DEFINE n == feedback'[c]
<1>1. \/ feedback' = feedback
      \/ \E d \in Ids, i \in Places(parked) :
           /\ EditCorrelates(d) /\ feedback' = [feedback EXCEPT ![d] = parked[i].note]
           /\ parked[i].key = args[d]
  <2>1. CASE Shutdown
    BY <2>1 DEF Shutdown
  <2>2. CASE Carries
    BY <2>2 DEF Carries, CarriedBy
  <2>3. CASE \E d \in Ids : Prepare(d)
    BY <2>3 DEF Prepare
  <2> QED
    BY <2>1, <2>2, <2>3, NotesMove DEF NotesInv
<1>2. CASE feedback'[c] = feedback[c]
  <2>1. /\ pc[c] \notin {"sent", "prepared", "looked", "cleared"} /\ made[c] # Absent
        /\ made[n] = args[c] /\ pc[n] # "sent" /\ n \in Ids
        /\ \A d \in Ids : feedback[d] = n => d = c
    BY <1>2 DEF NotesInv, GivenFits, TInv, CallsInv
  <2>2. /\ pc'[c] \notin {"sent", "prepared", "looked", "cleared"} /\ made'[c] = made[c]
        /\ args'[c] = args[c] /\ made'[n] = made[n] /\ pc'[n] # "sent"
    BY <2>1, CallsProceed
  <2>3. \A d \in Ids : feedback'[d] = n => d = c
    <3>1. ASSUME NEW d \in Ids, NEW i \in Places(parked),
                 feedback' = [feedback EXCEPT ![d] = parked[i].note]
          PROVE  \A e \in Ids : feedback'[e] = n => e = c
      <4>1. parked[i].note # n \/ d = c
        BY <1>2 DEF NotesInv, ParkedFits, Places
      <4> HIDE DEF n
      <4> QED
        BY <2>1, <3>1, <4>1 DEF TInv, CallsInv
    <3> QED
      BY <1>1, <2>1, <3>1
  <2> QED
    BY <2>1, <2>2, <2>3
<1>3. CASE feedback'[c] # feedback[c]
  <2>1. PICK i \in Places(parked) :
          /\ EditCorrelates(c) /\ feedback' = [feedback EXCEPT ![c] = parked[i].note]
          /\ parked[i].key = args[c]
    BY <1>1, <1>3 DEF TInv, CallsInv
  <2>2. n = parked[i].note /\ n \in Ids
    BY <1>0, <2>1, ParkedTyped DEF TInv, CallsInv
  <2>3. made[n] = args[c] /\ pc[n] # "sent" /\ \A d \in Ids : feedback[d] # n
    BY <2>1, <2>2 DEF NotesInv, ParkedFits, Places
  <2>4. pc[c] = "cleared" /\ pc'[c] = "advised" /\ Tool(c) = "edit" /\ made[c] # Absent
    BY <2>1 DEF EditCorrelates, Goto, NotesInv, PreparedFits, TInv, CallsInv
  <2>5. made'[c] = made[c] /\ args'[c] = args[c] /\ made'[n] = made[n] /\ pc'[n] # "sent"
    BY <2>2, <2>3, <2>4, CallsProceed
  <2>6. \A d \in Ids : feedback'[d] = n => d = c
    <3> HIDE DEF n
    <3> QED
      BY <2>1, <2>3 DEF TInv, CallsInv
  <2> QED
    BY <2>3, <2>4, <2>5, <2>6
<1> QED
  BY <1>2, <1>3

LEMMA KeptStep == ASSUME TInv, NotesInv, [Next]_vars PROVE KeptOrGiven'
<1>0. LifecycleInv /\ LifecycleInv' /\ Ids' = Ids /\ NoNote \notin Nat /\ MaxPending \in Nat
      /\ TtlMs \in Nat
  BY BatchStays, MessageStays, LifecycleStep, LifecycleAssumption DEF TInv
<1>1. now \in Nat /\ now' \in Nat /\ Len(parked) \in Nat /\ Len(parked') \in Nat
  BY <1>0, LifecycleAssumption DEF LifecycleInv
<1> SUFFICES ASSUME NEW d \in Ids, since'[d] # NoNote, since'[d] < MaxPending,
                    now' <= parkedAt'[d] + TtlMs
             PROVE  \/ \E i \in Places(parked') : parked'[i].note = d
                    \/ \E c \in Ids : feedback'[c] = d
  BY <1>0 DEF KeptOrGiven, Places
<1>2. ASSUME NEW c \in Ids, feedback[c] = d PROVE feedback'[c] = d
  <2>1. NoNote \notin Ids
    BY LifecycleAssumption, BatchAssumption DEF TInv, Ids
  <2>2. pc[c] # "cleared"
    BY <1>2, <2>1 DEF NotesInv, GivenFits
  <2> QED
    BY <1>2, <2>2, CallsProceed DEF EditCorrelates
<1>3. CASE Shutdown
  BY <1>3 DEF Shutdown
<1>4. CASE Carries /\ Stands
  <2>1. since[d] = since'[d] /\ parkedAt[d] = parkedAt'[d] /\ now <= now' /\ parkedAt[d] \in Nat
    BY <1>4, <1>0, LifecycleAssumption DEF Stands, TInv, CallsInv
  <2>2. now <= parkedAt[d] + TtlMs
    BY <1>0, <1>1, <2>1
  <2>3. (\E i \in Places(parked) : parked[i].note = d) \/ \E c \in Ids : feedback[c] = d
    BY <2>1, <2>2 DEF NotesInv, KeptOrGiven, Places
  <2>4. ASSUME NEW i \in Places(parked), parked[i].note = d
        PROVE  \/ \E j \in Places(parked') : parked'[j].note = d
               \/ \E c \in Ids : feedback'[c] = d
    <3>1. ~Expired(parked[i])
      BY <1>0, <1>1, <2>1, <2>2, <2>4 DEF Expired, NotesInv, ParkedFits, Places
    <3>2. PICK m \in [Places(parked') -> Places(parked)] : CarriedBy(m)
      BY <1>4 DEF Carries
    <3>3. ASSUME NEW j \in Places(parked'), m[j] = i PROVE parked'[j].note = d
      BY <2>4, <3>2, <3>3 DEF CarriedBy
    <3> QED
      BY <2>4, <3>1, <3>2, <3>3 DEF CarriedBy
  <2> QED
    BY <1>2, <2>3, <2>4
<1>5. ASSUME NEW c \in Ids, Prepare(c), Tool(c) = "edit", Prepared(c).outcome = "repaired"
      PROVE  \/ \E i \in Places(parked') : parked'[i].note = d
             \/ \E e \in Ids : feedback'[e] = d
  <2> DEFINE key == Prepared(c).args
             new == [key |-> key, note |-> c, at |-> now]
  <2>1. /\ Enqueue(key, c)
        /\ since' = [e \in Ids |-> IF e = c THEN 0
                       ELSE IF since[e] = NoNote THEN NoNote ELSE since[e] + 1]
        /\ parkedAt' = [parkedAt EXCEPT ![c] = now] /\ key \in Keys /\ now' = now
    BY <1>5 DEF Prepare, Keys, Enqueue
  <2> HIDE DEF key
  <2>2. new \in Item /\ parked \in Seq(Item)
    BY <1>0, <2>1 DEF Item, LifecycleInv
  <2>3. PICK k \in 0 .. Len(parked) + 1 :
          /\ Len(parked') = Len(parked) + 1 - k
          /\ \A i \in 1 .. Len(parked') :
               parked'[i] = IF i + k <= Len(parked) THEN parked[i + k] ELSE new
          /\ \A i \in 1 .. k :
               \/ i <= Len(parked) /\ Expired(parked[i])
               \/ i <= Len(parked) + 1 - MaxPending
    BY <1>0, <2>1, <2>2, EnqueueParks
  <2>4. CASE d = c
    <3>1. since'[d] = 0
      BY <2>1, <2>4
    <3>2. k # Len(parked) + 1
      <4> SUFFICES ASSUME k = Len(parked) + 1 PROVE FALSE
        OBVIOUS
      <4>1. k \in 1 .. k
        BY <1>1
      <4>2. k <= Len(parked) \/ k <= Len(parked) + 1 - MaxPending
        BY <2>3, <4>1
      <4> QED
        BY <1>0, <1>1, <3>1, <4>2
    <3>3. Len(parked') \in Places(parked') /\ parked'[Len(parked')] = new
      BY <1>1, <2>3, <3>2 DEF Places
    <3> QED
      BY <2>4, <3>3
  <2>5. CASE d # c
    <3>1. since[d] # NoNote /\ since[d] \in Nat /\ since'[d] = since[d] + 1
          /\ parkedAt'[d] = parkedAt[d] /\ parkedAt[d] \in Nat
      BY <1>0, <2>1, <2>5, LifecycleAssumption DEF TInv, CallsInv
    <3>2. (\E i \in Places(parked) : parked[i].note = d) \/ \E e \in Ids : feedback[e] = d
      BY <1>0, <2>1, <3>1 DEF NotesInv, KeptOrGiven, Places
    <3>3. ASSUME NEW i \in Places(parked), parked[i].note = d
          PROVE  \E j \in Places(parked') : parked'[j].note = d
      <4>1. since[d] >= Len(parked) - i /\ parkedAt[d] = parked[i].at
        BY <3>3 DEF NotesInv, ParkedFits, Places
      <4>2. ~Expired(parked[i])
        BY <1>0, <1>1, <2>1, <3>1, <4>1 DEF Expired
      <4>3. ~(i <= Len(parked) + 1 - MaxPending)
        BY <1>0, <1>1, <3>1, <4>1 DEF Places
      <4>4. i > k
        BY <1>1, <2>3, <4>2, <4>3 DEF Places
      <4>5. i - k \in Places(parked') /\ parked'[i - k] = parked[i]
        BY <1>1, <2>3, <4>4 DEF Places
      <4> QED
        BY <3>3, <4>5
    <3> QED
      BY <1>2, <3>2, <3>3
  <2> QED
    BY <2>4, <2>5
<1> QED
  BY <1>3, <1>4, <1>5, NotesMove DEF NotesInv

\* No arguments at all are not accepted.
LEMMA NothingInvalid == ~Valid(Convert(Absent))
<1>1. Absent.t = "absent"
  BY DEF Absent
<1>2. ~IsObj(Absent)
  BY <1>1 DEF IsObj
<1>3. Convert(Absent) = Absent
  BY <1>2, Zenon DEF Convert
<1>4. At(Absent, "path") = Absent
  BY <1>2 DEF At
<1>5. ~IsString(Absent)
  BY <1>1 DEF IsString
<1> QED
  BY <1>3, <1>4, <1>5 DEF Valid

LEMMA IdsFinite ==
  ASSUME batch \in Batches
  PROVE  /\ IsFiniteSet(Ids) /\ NoNote \notin Ids
         /\ \A S \in SUBSET Ids :
              IsFiniteSet(S) /\ Cardinality(S) \in Nat /\ Cardinality(S) <= Cardinality(Ids)
<1>1. Len(batch.calls) \in Nat /\ Ids = 1 .. Len(batch.calls)
  BY BatchAssumption DEF Ids
<1>2. IsFiniteSet(Ids)
  BY <1>1, FS_Interval
<1>3. NoNote \notin Ids
  BY <1>1, LifecycleAssumption
<1>4. ASSUME NEW S \in SUBSET Ids
      PROVE  IsFiniteSet(S) /\ Cardinality(S) \in Nat /\ Cardinality(S) <= Cardinality(Ids)
  BY <1>2, FS_Subset, FS_CardinalityType
<1> QED
  BY <1>2, <1>3, <1>4

LEMMA PreparedStep == ASSUME TInv, NotesInv, [Next]_vars PROVE PreparedFits'
<1>0. batch' = batch /\ Ids' = Ids /\ NoNote \notin Nat /\ \A c : Tool(c)' = Tool(c)
  BY BatchStays, MessageStays, LifecycleAssumption DEF Tool
<1> SUFFICES ASSUME NEW d \in Ids
             PROVE  /\ Tool(d) = "edit"
                         /\ pc'[d] \in {"prepared", "cleared", "advised", "queued", "written"} =>
                         made'[d] # Absent
                    /\ pc'[d] = "sent" => since'[d] = NoNote
                    /\ since'[d] # NoNote => since'[d] < Cardinality(Begun')
  BY <1>0 DEF PreparedFits
<1>1. Begun' = {c \in Ids : pc'[c] # "sent"} /\ Begun \subseteq Begun' /\ Begun' \subseteq Ids
  BY <1>0, CallsProceed DEF Begun
<1>2. /\ IsFiniteSet(Begun) /\ IsFiniteSet(Begun')
      /\ Cardinality(Begun) \in Nat /\ Cardinality(Begun') \in Nat
      /\ Cardinality(Begun) <= Cardinality(Begun')
  <2>1. Begun \in SUBSET Ids /\ Begun' \in SUBSET Ids
    BY <1>1 DEF Begun
  <2> QED
    BY <1>1, <2>1, IdsFinite, FS_Subset DEF TInv
<1>3. /\ Tool(d) = "edit" /\ pc[d] \in {"prepared", "cleared", "advised", "queued", "written"} =>
           made[d] # Absent
      /\ pc[d] = "sent" => since[d] = NoNote
      /\ since[d] # NoNote => since[d] \in Nat /\ since[d] < Cardinality(Begun)
  BY DEF NotesInv, PreparedFits, TInv, CallsInv
<1>4. Tool(d) = "edit" /\ pc'[d] \in {"prepared", "cleared", "advised", "queued", "written"} =>
        made'[d] # Absent
  <2> USE DEF TInv, CallsInv, Goto
  <2>1. CASE Prepare(d)
    <3>1. Tool(d) = "edit" => made'[d] = Prepared(d).args /\ Accepted(Prepared(d))
      BY <2>1 DEF Prepare
    <3> QED
      BY <3>1, NothingInvalid DEF Accepted
  <2>2. CASE Refuse(d) \/ Preflight(d)
    BY <1>3, <2>2 DEF Refuse, Preflight
  <2>3. CASE Overwrite(d)
    BY <1>3, <2>3 DEF Overwrite, PathsInv
  <2>4. CASE EditRefused(d) \/ EditCorrelates(d) \/ EditBegins(d) \/ EditThrows(d)
    BY <1>3, <2>4 DEF EditRefused, EditCorrelates, EditBegins, EditThrows
  <2>5. CASE EditFails(d) \/ EditSucceeds(d) \/ EditAnswers(d)
    BY <1>3, <2>5 DEF EditFails, EditSucceeds, EditAnswers
  <2>6. CASE OtherRuns(d) \/ Enhance(d) \/ Watch(d)
    BY <2>6 DEF OtherRuns, Enhance, Watch
  <2>7. CASE ~CallStep(d)
    BY <1>3, <2>7, OthersStay, CallsStay DEF Next
  <2> QED
    BY <2>1, <2>2, <2>3, <2>4, <2>5, <2>6, <2>7 DEF CallStep
<1>5. CASE Shutdown
  BY <1>4, <1>5 DEF Shutdown
<1>6. CASE since' = since
  BY <1>2, <1>3, <1>4, <1>6, CallsProceed
<1>7. ASSUME NEW c \in Ids, Prepare(c), Tool(c) = "edit", Prepared(c).outcome = "repaired"
      PROVE  /\ pc'[d] = "sent" => since'[d] = NoNote
             /\ since'[d] # NoNote => since'[d] < Cardinality(Begun')
  <2>1. /\ pc[c] = "sent" /\ pc' = [pc EXCEPT ![c] = "prepared"]
        /\ since' = [e \in Ids |-> IF e = c THEN 0
                       ELSE IF since[e] = NoNote THEN NoNote ELSE since[e] + 1]
    BY <1>7 DEF Prepare, Goto
  <2>2. Begun' = Begun \cup {c} /\ c \notin Begun
    BY <1>1, <2>1 DEF Begun, TInv, CallsInv
  <2>3. Cardinality(Begun') = Cardinality(Begun) + 1
    BY <1>2, <2>2, FS_AddElement
  <2>4. pc'[d] = "sent" => pc[d] = "sent" /\ d # c
    BY <2>1 DEF TInv, CallsInv
  <2>5. since'[d] = IF d = c THEN 0 ELSE IF since[d] = NoNote THEN NoNote ELSE since[d] + 1
    BY <2>1
  <2> QED
    BY <1>0, <1>2, <1>3, <2>3, <2>4, <2>5
<1> QED
  BY <1>4, <1>5, <1>6, <1>7, NotesMove DEF Stands, NotesInv

LEMMA NotesHold == Spec => []NotesInv
<1>1. TInv /\ NotesInv /\ [Next]_vars => NotesInv'
  BY ParkedStep, GivenStep, KeptStep, PreparedStep DEF NotesInv
<1> QED
  BY <1>1, InitNotes, TypesHold, PTL DEF Spec

\* For any messages and caps: no note reaches two calls, or a call whose arguments
\* are not the ones its repair ended at (repair/lifecycle.ts 85-103).
THEOREM NotesFitCalls == Spec => []NotesFit
<1>1. NotesInv => NotesFit
  BY DEF NotesInv, GivenFits, NotesFit
<1> QED
  BY <1>1, NotesHold, PTL

\* For any messages and caps: clocks, queues and windows stay within their caps, no
\* more retries than broken loops, and a note has no more behind it than calls.
THEOREM TypeCorrect == Spec => []TypeOK
<1>1. TInv /\ NotesInv => TypeOK
  <2> SUFFICES ASSUME TInv, NotesInv PROVE TypeOK
    OBVIOUS
  <2>1. now \in 0 .. MaxNow /\ Len(parked) <= MaxPending /\ Len(associated) <= MaxAssociated
    BY DEF TInv, LifecycleInv
  <2>2. eventsRecorded \in Nat /\ editContexts \subseteq Ids
    BY DEF TInv, LogInv, Complete, Store, CallsInv
  <2>3. \A t \in Tools : Len(windows[t]) <= MaxWindowSize
    <3> SUFFICES ASSUME NEW t \in Tools PROVE Len(windows[t]) <= MaxWindowSize
      OBVIOUS
    <3>1. windows[t] = LastOf(streak[t], MaxWindowSize) /\ streak[t] \in Seq(Results)
      BY DEF TInv, StormInv
    <3> QED
      BY <3>1, StormAssumption DEF LastOf
  <2>4. /\ {loopsBroken, timers, retries, missed} \subseteq [Tools -> Nat]
        /\ \A t \in Tools : timers[t] + retries[t] + missed[t] <= loopsBroken[t]
    BY DEF TInv, StormInv
  <2>5. /\ nudged \subseteq Paths /\ told \subseteq Paths /\ late \subseteq Ids
        /\ disk \in [Files -> {"none", "empty", "full"}]
    BY DEF TInv, GuardInv
  <2>6. pc \in [Ids -> PCs] /\ feedback \in [Ids -> Ids \cup {NoNote}]
    BY DEF TInv, CallsInv
  <2>7. since \in [Ids -> 0 .. Cardinality(Ids) \cup {NoNote}]
    <3> SUFFICES ASSUME NEW c \in Ids, since[c] # NoNote
                 PROVE  since[c] \in 0 .. Cardinality(Ids)
      BY DEF TInv, CallsInv
    <3>1. since[c] \in Nat /\ since[c] < Cardinality(Begun) /\ Begun \subseteq Ids
      BY DEF TInv, CallsInv, NotesInv, PreparedFits, Begun
    <3>2. Cardinality(Begun) \in Nat /\ Cardinality(Ids) \in Nat
          /\ Cardinality(Begun) <= Cardinality(Ids)
      BY <3>1, IdsFinite, FS_CardinalityType DEF TInv
    <3> QED
      BY <3>1, <3>2
  <2> QED
    BY <2>1, <2>2, <2>3, <2>4, <2>5, <2>6, <2>7 DEF TypeOK
<1> QED
  BY <1>1, TypesHold, NotesHold, PTL

\* For any messages and caps: while every twin of a call has its note parked in time,
\* there is one for it, since fewer than all of them can have been given away; and a
\* call without a twin gets its own (repair/lifecycle.ts 66-103).
THEOREM NotesReachCalls == Spec => NoteArrives
<1> DEFINE GotOne(c) ==
      EditCorrelates(c) /\ (\A d \in Twins(args[c]) : InTime(d)) =>
        /\ feedback'[c] # NoNote
        /\ Twins(args[c]) = {c} => feedback'[c] = c
<1>1. ASSUME TInv, NotesInv, [Next]_vars PROVE \A c \in Ids : GotOne(c)
  <2> SUFFICES ASSUME NEW c \in Ids, EditCorrelates(c), \A d \in Twins(args[c]) : InTime(d)
               PROVE  /\ feedback'[c] # NoNote
                      /\ Twins(args[c]) = {c} => feedback'[c] = c
    OBVIOUS
  <2> DEFINE a == args[c]
             T == Twins(a)
  <2>0. LifecycleInv /\ NoNote \notin Ids /\ T \subseteq Ids /\ IsFiniteSet(T)
    <3>1. T \in SUBSET Ids
      BY DEF Twins
    <3> QED
      BY <1>1, <3>1, IdsFinite DEF TInv
  <2>1. /\ pc[c] = "cleared" /\ Tool(c) = "edit" /\ Correlate(a, c)
        /\ feedback'[c] = Match(a)
    BY <1>1 DEF EditCorrelates, TInv, CallsInv
  <2>2. made[c] # Absent /\ c \in T /\ feedback[c] = NoNote
    <3>1. made[c] # Absent /\ feedback[c] = NoNote
      BY <1>1, <2>1 DEF NotesInv, PreparedFits, GivenFits
    <3> QED
      BY <3>1 DEF Twins
  <2>3. \A d \in T : made[d] = a /\ args[d] = a /\ made[d] # Absent
    BY DEF Twins, InTime
  <2>4. PICK k \in 0 .. Len(parked) :
          /\ Len(LiveParked) = Len(parked) - k
          /\ \A i \in 1 .. Len(LiveParked) : LiveParked[i] = parked[i + k]
          /\ \A i \in 1 .. k : Expired(parked[i])
    BY <2>0, ParkedLive
  <2>5. Len(parked) \in Nat /\ Len(LiveParked) \in Nat
    BY <2>0, ParkedLive
  <2>6. /\ \/ Match(a) = NoNote /\ \A i \in 1 .. Len(LiveParked) : LiveParked[i].key # a
           \/ \E i \in 1 .. Len(LiveParked) :
                LiveParked[i].key = a /\ Match(a) = LiveParked[i].note
    BY <2>0, <2>1, CorrelateTakes DEF LifecycleInv
  <2>7. CASE \E i \in 1 .. Len(LiveParked) : LiveParked[i].key = a /\ Match(a) = LiveParked[i].note
    <3>1. PICK i \in 1 .. Len(LiveParked) :
            LiveParked[i].key = a /\ Match(a) = LiveParked[i].note
      BY <2>7
    <3>2. i + k \in Places(parked) /\ LiveParked[i] = parked[i + k]
      BY <2>4, <2>5 DEF Places
    <3>3. Match(a) \in Ids /\ made[Match(a)] = a
      BY <1>1, <2>0, <3>1, <3>2, ParkedTyped DEF NotesInv, ParkedFits, Places
    <3>4. Match(a) \in T
      BY <2>2, <2>3, <3>3 DEF Twins
    <3> QED
      BY <2>0, <2>1, <3>3, <3>4
  <2>8. CASE Match(a) = NoNote /\ \A i \in 1 .. Len(LiveParked) : LiveParked[i].key # a
    <3>1. \A d \in T : \E e \in T \ {c} : feedback[e] = d
      <4> SUFFICES ASSUME NEW d \in T PROVE \E e \in T \ {c} : feedback[e] = d
        OBVIOUS
      <4>1. since[d] # NoNote /\ since[d] < MaxPending /\ now <= parkedAt[d] + TtlMs
        BY DEF InTime
      <4>2. \A i \in 1 .. Len(parked) : parked[i].note # d
        <5> SUFFICES ASSUME NEW i \in 1 .. Len(parked), parked[i].note = d PROVE FALSE
          OBVIOUS
        <5>1. made[d] = parked[i].key /\ parkedAt[d] = parked[i].at
          BY <1>1 DEF NotesInv, ParkedFits
        <5>2. ~Expired(parked[i])
          <6>1. now \in Nat /\ parkedAt[d] \in Nat /\ TtlMs \in Nat
            BY <1>1, <2>0, LifecycleAssumption DEF TInv, LifecycleInv, CallsInv
          <6> QED
            BY <4>1, <5>1, <6>1 DEF Expired
        <5>3. i - k \in 1 .. Len(LiveParked) /\ LiveParked[i - k] = parked[i]
          <6>1. i > k
            BY <2>4, <2>5, <5>2
          <6>2. i - k \in 1 .. Len(LiveParked) /\ (i - k) + k = i
            BY <2>4, <2>5, <6>1
          <6> QED
            BY <2>4, <6>2
        <5> QED
          BY <2>3, <2>8, <5>1, <5>3
      <4>3. PICK e \in Ids : feedback[e] = d
        BY <1>1, <2>0, <4>1, <4>2 DEF NotesInv, KeptOrGiven
      <4>4. made[d] = args[e] /\ made[e] # Absent /\ e # c
        BY <1>1, <2>0, <2>2, <4>3 DEF NotesInv, GivenFits
      <4> QED
        BY <2>3, <4>3, <4>4 DEF Twins
    <3> DEFINE g == [d \in T |-> CHOOSE e \in T \ {c} : feedback[e] = d]
    <3>2. g \in [T -> T \ {c}] /\ \A d \in T : feedback[g[d]] = d
      BY <3>1
    <3>3. Cardinality(T \ {c}) < Cardinality(T) /\ IsFiniteSet(T \ {c})
      <4>1. Cardinality(T \ {c}) = Cardinality(T) - 1 /\ IsFiniteSet(T \ {c})
        BY <2>0, <2>2, FS_RemoveElement
      <4>2. Cardinality(T) \in Nat
        BY <2>0, FS_CardinalityType
      <4> QED
        BY <4>1, <4>2
    <3> HIDE DEF g, T
    <3>4. \E x, y \in T : x # y /\ g[x] = g[y]
      BY <2>0, <3>2, <3>3, FS_PigeonHole
    <3> QED
      BY <3>2, <3>4
  <2> QED
    BY <2>6, <2>7, <2>8
<1> QED
  BY <1>1, TypesHold, NotesHold, PTL DEF Spec, NoteArrives

-----------------------------------------------------------------------------
(* What calls are prepared to.                                               *)

\* A call just prepared was accepted and has the arguments it was prepared to, and
\* an edit is refused only for what its preparation came to.
PreparedAs(c) ==
  /\ pc[c] = "prepared" => Accepted(Prepared(c)) /\ args[c] = Convert(Prepared(c).args)
  /\ result[c] = "refused" => ~Accepted(Prepared(c))

PreparedInv == \A c \in Ids : Tool(c) = "edit" => PreparedAs(c)

LEMMA InitPrepared == Init => PreparedInv
  BY DEF Init, PreparedInv, PreparedAs

LEMMA AnswersStay ==
  ASSUME TInv, NEW c \in Ids, CallStep(c), NEW d \in Ids, d # c
  PROVE  result'[d] = result[d]
<1> USE DEF TInv, CallsInv, Answer
<1>1. CASE Refuse(c) \/ Preflight(c) \/ Overwrite(c) \/ Prepare(c)
  BY <1>1 DEF Refuse, Preflight, Overwrite, Prepare
<1>2. CASE EditRefused(c) \/ EditBegins(c) \/ EditThrows(c) \/ EditCorrelates(c)
  BY <1>2 DEF EditRefused, EditBegins, EditThrows, EditCorrelates
<1>3. CASE EditFails(c) \/ EditSucceeds(c) \/ EditAnswers(c)
  BY <1>3 DEF EditFails, EditSucceeds, EditAnswers
<1>4. CASE OtherRuns(c)
  BY <1>4 DEF OtherRuns
<1>5. CASE Enhance(c) \/ Watch(c)
  BY <1>5 DEF Enhance, Watch
<1> QED
  BY <1>1, <1>2, <1>3, <1>4, <1>5 DEF CallStep

LEMMA PreparedStays == ASSUME TInv, PreparedInv, [Next]_vars PROVE PreparedInv'
<1>1. batch' = batch /\ Ids' = Ids /\ (\A c : Tool(c)' = Tool(c))
      /\ \A c : Prepared(c)' = Prepared(c)
  BY BatchStays, MessageStays DEF Tool, Prepared, Raw
<1>2. SUFFICES ASSUME NEW d \in Ids, Tool(d) = "edit"
               PROVE  /\ pc'[d] = "prepared" =>
                           Accepted(Prepared(d)) /\ args'[d] = Convert(Prepared(d).args)
                      /\ result'[d] = "refused" => ~Accepted(Prepared(d))
  <2>1. ASSUME NEW d, Prepared(d)' = Prepared(d)
        PROVE  /\ Accepted(Prepared(d))' = Accepted(Prepared(d))
               /\ Convert(Prepared(d).args)' = Convert(Prepared(d).args)
    BY <2>1 DEF Accepted
  <2> QED
    BY <1>1, <2>1 DEF PreparedInv, PreparedAs
<1>3. /\ pc[d] = "prepared" => Accepted(Prepared(d)) /\ args[d] = Convert(Prepared(d).args)
      /\ result[d] = "refused" => ~Accepted(Prepared(d))
  BY <1>2 DEF PreparedInv, PreparedAs
<1>4. CASE CallStep(d)
  <2> USE DEF TInv, CallsInv, Goto, Answer
  <2>1. CASE Refuse(d)
    <3>1. ~Accepted(Prepared(d)) /\ pc'[d] = "refused"
      BY <2>1 DEF Refuse
    <3> QED
      BY <3>1
  <2>2. CASE Prepare(d)
    <3>1. Accepted(Prepared(d)) /\ args'[d] = Convert(Prepared(d).args)
          /\ UNCHANGED result
      BY <1>2, <2>2 DEF Prepare
    <3> QED
      BY <1>3, <3>1
  <2>3. CASE Preflight(d)
    <3>1. pc'[d] \in {"refused", "looked", "cleared"}
          /\ (result'[d] = "blocked" \/ result'[d] = result[d])
      BY <2>3 DEF Preflight
    <3> QED
      BY <1>3, <3>1
  <2>4. CASE Overwrite(d)
    <3>1. pc'[d] \in {"refused", "cleared"}
          /\ (result'[d] = "blocked" \/ result'[d] = result[d])
      BY <2>4 DEF Overwrite
    <3> QED
      BY <1>3, <3>1
  <2>5. CASE EditRefused(d) \/ EditCorrelates(d) \/ EditBegins(d) \/ EditThrows(d)
    <3>1. pc'[d] \in {"answered", "advised", "queued"}
          /\ (result'[d] \in {"aborted", "invalid", "crashed"} \/ result'[d] = result[d])
      BY <2>5 DEF EditRefused, EditCorrelates, EditBegins, EditThrows
    <3> QED
      BY <1>3, <3>1
  <2>6. CASE EditFails(d) \/ EditSucceeds(d) \/ EditAnswers(d)
    <3>1. pc'[d] \in {"answered", "written"}
          /\ (result'[d] \in {"ok", "aborted", "noUndo", "failed"} \/ result'[d] = result[d])
      BY <2>6 DEF EditFails, EditSucceeds, EditAnswers
    <3> QED
      BY <1>3, <3>1
  <2>7. CASE Enhance(d) \/ Watch(d)
    <3>1. pc'[d] \in {"refused", "ended"} /\ result'[d] = result[d]
      BY <2>7 DEF Enhance, Watch
    <3> QED
      BY <1>3, <3>1
  <2>8. ~OtherRuns(d)
    BY <1>2 DEF OtherRuns
  <2> QED
    BY <1>4, <2>1, <2>2, <2>3, <2>4, <2>5, <2>6, <2>7, <2>8 DEF CallStep
<1>5. ASSUME NEW c \in Ids, CallStep(c), c # d
      PROVE  pc'[d] = pc[d] /\ args'[d] = args[d] /\ result'[d] = result[d]
  BY <1>5, OthersStay, AnswersStay
<1>6. CASE UNCHANGED <<pc, args, result>>
  BY <1>3, <1>6
<1> QED
  BY <1>3, <1>4, <1>5, <1>6, CallsStay DEF Next

LEMMA PreparedHolds == Spec => []PreparedInv
  BY InitPrepared, PreparedStays, TypesHold, PTL DEF Spec

LEMMA RepairOn ==
  ASSUME batch.repair, NEW c
  PROVE  Prepared(c) = RunRepairPipeline(Raw(c), batch.conservative)
BY Zenon DEF Prepared, PrepareEditArguments

\* What a call just prepared was made of.
LEMMA FreshIsMade ==
  ASSUME TInv, PreparedInv, NEW c \in Ids, Fresh(c)
  PROVE  \E w : Makes(Core(Raw(c)), w) /\ args[c] = Convert(w) /\ Valid(Convert(w))
<1>1. IsJson(Raw(c))
  BY RawIsJson DEF TInv
<1>2. Accepted(Prepared(c)) /\ args[c] = Convert(Prepared(c).args) /\ batch.repair
  BY DEF Fresh, PreparedInv, PreparedAs
<1>3. Prepared(c) = RunRepairPipeline(Raw(c), batch.conservative)
  BY <1>2, RepairOn
<1> DEFINE r == RunRepairPipeline(Raw(c), batch.conservative)
<1>4. Good(r) => \E w : Makes(Core(Raw(c)), w) /\ Convert(r.args) = Convert(w)
  BY <1>1, PipelineIs
<1> HIDE DEF r
<1> QED
  BY <1>2, <1>3, <1>4 DEF r, Good, Accepted

\* The passes of schema repair end by themselves for any JSON object
\* (repair/repair-engine.ts 309-315).
THEOREM PassesAreEnough == Spec => []PassesSuffice
<1>1. TInv => PassesSuffice
  <2> SUFFICES ASSUME TInv, NEW c \in Ids, IsObj(Raw(c))
               PROVE  LET s == Passes(Raw(c), 0) IN Valid(s.v) \/ Pass(s.v).n = 0
    BY DEF PassesSuffice
  <2>1. IsRecord(Raw(c))
    BY RawIsJson DEF IsRecord, TInv
  <2> QED
    BY <2>1, PassesEnd
<1> QED
  BY <1>1, TypesHold, PTL

\* For any arguments sent: repaired once, they are repaired
\* (repair/pipeline.ts 65-174).
THEOREM RepairsSettle == Spec => []RepairSettles
<1>1. ASSUME TInv, PreparedInv PROVE RepairSettles
  <2> SUFFICES ASSUME NEW c \in Ids, Fresh(c), Prepared(c).outcome = "repaired"
               PROVE  LET again == PrepareEditArguments(args[c], TRUE, batch.conservative)
                          final == Convert(again.args)
                      IN /\ Accepted(again) /\ Meaning(final) = Meaning(args[c])
                         /\ At(args[c], "path") # Str("") =>
                              At(final, "path") = At(args[c], "path")
    BY DEF RepairSettles
  <2>1. PICK w : Makes(Core(Raw(c)), w) /\ args[c] = Convert(w) /\ Valid(Convert(w))
    BY <1>1, FreshIsMade
  <2>2. IsRecord(args[c]) /\ Valid(args[c]) /\ FoldMisses(args[c])
    BY <2>1, MadeFolds
  <2> QED
    BY <2>2, RepairedTwice
<1> QED
  BY <1>1, TypesHold, PreparedHolds, PTL

\* For any arguments sent: edits for two files never go to one of them
\* (repair/entry.ts 450-495).
THEOREM PathsAreNamed == Spec => []PathNamed
<1>1. ASSUME TInv, PreparedInv PROVE PathNamed
  <2> SUFFICES ASSUME NEW c \in Ids, Fresh(c)
               PROVE  LET v == Core(Raw(c))
                          path == At(args[c], "path")
                      IN path # Str("") =>
                           \/ path \in PathsGiven(v)
                           \/ UNION {PathFor(x) : x \in Range(Nested(v))} = {path}
    BY DEF PathNamed
  <2>1. PICK w : Makes(Core(Raw(c)), w) /\ args[c] = Convert(w) /\ Valid(Convert(w))
    BY <1>1, FreshIsMade
  <2> QED
    BY <2>1, MadePath
<1> QED
  BY <1>1, TypesHold, PreparedHolds, PTL

\* For any arguments sent: repair refuses none that native compatibility makes valid
\* without dropping edits (repair/entry.ts 691-718).
THEOREM RepairNeverStricter == Spec => []NeverStricter
<1>1. ASSUME TInv, PreparedInv PROVE NeverStricter
  <2> SUFFICES ASSUME NEW c \in Ids, result[c] = "refused", Tool(c) = "edit", batch.repair,
                      Valid(NativeCompatibility(Raw(c))), ~GivenUp(At(Raw(c), "edits"))
               PROVE  FALSE
    BY DEF NeverStricter
  <2>1. IsJson(Raw(c))
    BY <1>1, RawIsJson DEF TInv
  <2>2. Accepted(PrepareEditArguments(Raw(c), TRUE, batch.conservative))
    BY <2>1, NativeAccepted
  <2>3. ~Accepted(Prepared(c))
    BY <1>1 DEF PreparedInv, PreparedAs
  <2> QED
    <3>1. PrepareEditArguments(Raw(c), TRUE, batch.conservative) =
          RunRepairPipeline(Raw(c), batch.conservative)
      BY DEF PrepareEditArguments
    <3> QED
      BY <2>2, <2>3, <3>1, RepairOn
<1> QED
  BY <1>1, TypesHold, PreparedHolds, PTL

\* The edits of a call just prepared come from those it sent.
LEMMA FreshIsPlaced ==
  ASSUME TInv, PreparedInv, NEW c \in Ids, Fresh(c)
  PROVE  ComesInOrder(Core(Raw(c)), args[c].f.edits.e)
<1>1. PICK w : Makes(Core(Raw(c)), w) /\ args[c] = Convert(w) /\ Valid(Convert(w))
  BY FreshIsMade
<1>2. IsRecord(args[c]) /\ Valid(args[c])
  BY <1>1, MadeFolds
<1>3. args[c].f.edits = At(args[c], "edits")
  BY <1>2, ValidEdits
<1> QED
  BY <1>1, <1>3, MadePlaced

\* For any arguments sent: each edit is made of one entry, in the order sent, and no
\* complete edit is missing (repair/entry.ts 654-685, repair-engine.ts 486-499).
THEOREM KeptAsSent == Spec => []KeepsWhatWasSent
<1>1. ASSUME TInv, PreparedInv PROVE KeepsWhatWasSent
  <2> SUFFICES ASSUME NEW c \in Ids, Fresh(c)
               PROVE  LET v == Core(Raw(c))
                          sent == EntriesOf(v)
                          kept == args[c].f.edits.e
                      IN \E at \in [DOMAIN kept -> DOMAIN sent] :
                           /\ \A i, j \in DOMAIN kept : i < j => at[i] < at[j]
                           /\ \A i \in DOMAIN kept : MadeOf(kept[i], sent[at[i]], SentAlone(v))
                           /\ \A j \in DOMAIN sent :
                                IsEdit(sent[j]) => \E i \in DOMAIN kept : at[i] = j
    BY DEF KeepsWhatWasSent
  <2> DEFINE v == Core(Raw(c))
             kept == args[c].f.edits.e
  <2>1. ComesInOrder(v, kept)
    BY <1>1, FreshIsPlaced
  <2> HIDE DEF v, kept
  <2>2. PICK at \in [DOMAIN kept -> DOMAIN EntriesOf(v)] :
          /\ \A i, j \in DOMAIN kept : i < j => at[i] < at[j]
          /\ \A i \in DOMAIN kept : ComesFrom(v, EntriesOf(v)[at[i]], kept[i])
          /\ \A j \in DOMAIN EntriesOf(v) :
               IsEdit(EntriesOf(v)[j]) => \E i \in DOMAIN kept : at[i] = j
    BY <2>1 DEF ComesInOrder
  <2>3. \A i \in DOMAIN kept : MadeOf(kept[i], EntriesOf(v)[at[i]], SentAlone(v))
    BY <2>2 DEF ComesFrom
  <2> QED
    BY <2>2, <2>3 DEF v, kept
<1> QED
  BY <1>1, TypesHold, PreparedHolds, PTL

\* For any arguments sent: an edit that deletes was meant to
\* (repair/entry.ts 599-613).
THEOREM DeletionsAreMeant == Spec => []DeletionsMeant
<1>1. ASSUME TInv, PreparedInv PROVE DeletionsMeant
  <2> SUFFICES ASSUME NEW c \in Ids, Fresh(c), NEW i \in DOMAIN args[c].f.edits.e
               PROVE  LET v == Core(Raw(c))
                          e == args[c].f.edits.e[i]
                      IN At(e, "newText") = Str("") =>
                           (\E x \in Range(EntriesOf(v)) : SaysDelete(x, e)) \/ FoldsDelete(v, e)
    BY DEF DeletionsMeant
  <2> DEFINE v == Core(Raw(c))
             kept == args[c].f.edits.e
  <2>1. ComesInOrder(v, kept)
    BY <1>1, FreshIsPlaced
  <2> HIDE DEF v
  <2>2. PICK at \in [DOMAIN kept -> DOMAIN EntriesOf(v)] :
          \A j \in DOMAIN kept : ComesFrom(v, EntriesOf(v)[at[j]], kept[j])
    BY <2>1 DEF ComesInOrder
  <2> DEFINE x == EntriesOf(v)[at[i]]
  <2>3. x \in Range(EntriesOf(v))
    BY <2>2 DEF Range
  <2>4. At(kept[i], "newText") = Str("") => SaysDelete(x, kept[i]) \/ FoldsDelete(v, kept[i])
    BY <2>2 DEF ComesFrom
  <2> HIDE DEF x
  <2> QED
    BY <2>3, <2>4 DEF v
<1> QED
  BY <1>1, TypesHold, PreparedHolds, PTL
================================================================================
