------------------------- MODULE EnumerationProofs --------------------------
(***************************************************************************)
(* What the other proofs need of sequences, of the enumerations of         *)
(* Enumeration and of pages, for any data.                                 *)
(*                                                                         *)
(* Nothing here declares an operator as a parameter, so induction over the *)
(* natural numbers is said of a set, and what a fold computes is said of   *)
(* the function whose last value it is.                                    *)
(***************************************************************************)
EXTENDS Enumeration, SequencesExt, FiniteSetTheorems, SequenceTheorems,
        WellFoundedInduction, TLAPS

\* Induction over the natural numbers, said of a set.
LEMMA SetInduction ==
    ASSUME NEW S, 0 \in S, \A n \in Nat : n \in S => n + 1 \in S
    PROVE  Nat \subseteq S
<1> SUFFICES ASSUME Nat \ S # {}
             PROVE  FALSE
  OBVIOUS
<1> DEFINE T == Nat \ S
<1>1. T \subseteq Nat /\ T # {}
  OBVIOUS
<1>2. \A x \in Nat : x \in T \/ x \in S
  OBVIOUS
<1>3. \A x \in T : x \notin S
  OBVIOUS
<1> HIDE DEF T
<1>4. PICK x \in T : \A y \in T : <<y, x>> \notin OpToRel(<, Nat)
  BY <1>1, WFMin, NatLessThanWellFounded
<1>5. x \in Nat /\ x # 0
  BY <1>1, <1>3
<1>6. x - 1 \in Nat /\ x - 1 < x /\ (x - 1) + 1 = x
  BY <1>5
<1>7. <<x - 1, x>> \in OpToRel(<, Nat)
  BY <1>5, <1>6 DEF OpToRel
<1>8. x - 1 \notin T
  BY <1>4, <1>7, Zenon
<1>9. x \in S
  BY <1>2, <1>6, <1>8
<1>. QED
  BY <1>3, <1>9

-----------------------------------------------------------------------------
(* Sequences.                                                              *)

\* A sequence, of whatever.
IsSequence(s) == s \in Seq({s[i] : i \in DOMAIN s})

\* A sequence that is appended to keeps its elements where they are.
LEMMA AppendKeeps ==
    ASSUME NEW s, NEW e, IsSequence(s)
    PROVE  /\ IsSequence(Append(s, e))
           /\ Len(s) \in Nat /\ Len(Append(s, e)) = Len(s) + 1
           /\ DOMAIN s = 1..Len(s) /\ DOMAIN Append(s, e) = 1..(Len(s) + 1)
           /\ \A i \in 1..Len(s) : Append(s, e)[i] = s[i]
           /\ Append(s, e)[Len(s) + 1] = e
<1> DEFINE T == {s[i] : i \in DOMAIN s} \cup {e}
<1>1. s \in Seq(T)
  BY SeqDef DEF IsSequence
<1>2. /\ Append(s, e) \in Seq(T) /\ Len(Append(s, e)) = Len(s) + 1 /\ Len(s) \in Nat
      /\ DOMAIN s = 1..Len(s) /\ DOMAIN Append(s, e) = 1..(Len(s) + 1)
      /\ \A i \in 1..Len(s) : Append(s, e)[i] = s[i]
      /\ Append(s, e)[Len(s) + 1] = e
  <2> HIDE DEF T
  <2>1. e \in T
    BY DEF T
  <2>. QED
    BY <1>1, <2>1, AppendProperties, LenProperties
<1>3. IsSequence(Append(s, e))
  <2> DEFINE a == Append(s, e)
             U == {a[i] : i \in DOMAIN a}
  <2>1. Len(a) \in Nat /\ a = [i \in 1..Len(a) |-> a[i]]
    <3> HIDE DEF T
    <3>. QED
      BY <1>2, LenProperties
  <2>2. a \in [1..Len(a) -> U]
    BY <1>2, <2>1
  <2>3. a \in Seq(U)
    <3> HIDE DEF a, U
    <3>. QED
      BY <2>1, <2>2, SeqDef
  <2>. QED
    BY <2>3 DEF IsSequence
<1>. QED
  BY <1>2, <1>3

\* A function on 1..n is a sequence.
LEMMA SequenceOf ==
    ASSUME NEW n \in Nat, NEW s, s = [k \in 1..n |-> s[k]]
    PROVE  IsSequence(s) /\ Len(s) = n /\ DOMAIN s = 1..n
<1> DEFINE T == {s[k] : k \in DOMAIN s}
<1>1. DOMAIN s = 1..n
  OBVIOUS
<1>2. s \in [1..n -> T]
  BY <1>1
<1> HIDE DEF T
<1>3. s \in Seq(T) /\ Len(s) = n
  BY <1>2
<1>. QED
  BY <1>1, <1>3 DEF IsSequence, T

\* The first n elements of a sequence, and what is left of them without their last.
LEMMA PrefixIsSequence ==
    ASSUME NEW s, IsSequence(s), NEW n \in 0..Len(s)
    PROVE  /\ IsSequence(SubSeq(s, 1, n)) /\ Len(SubSeq(s, 1, n)) = n
           /\ n = Len(s) => SubSeq(s, 1, n) = s
           /\ n # 0 => Front(SubSeq(s, 1, n)) = SubSeq(s, 1, n - 1)
<1> DEFINE T == {s[i] : i \in DOMAIN s}
           r == SubSeq(s, 1, n)
<1>1. s \in Seq(T) /\ Len(s) \in Nat
  BY DEF IsSequence
<1> HIDE DEF T
<1>2. /\ r \in Seq(T) /\ Len(r) = n
      /\ \A i \in 1..n : r[i] = s[i]
  BY <1>1, SubSeqProperties
<1>3. r = [k \in 1..n |-> r[k]] /\ n \in Nat
  BY <1>1, <1>2
<1>4. IsSequence(r)
  BY <1>3, SequenceOf
<1>5. n = Len(s) => r = s
  BY <1>1, <1>2
<1>6. ASSUME n # 0
      PROVE  Front(r) = SubSeq(s, 1, n - 1)
  <2>1. n - 1 \in 0..Len(s) /\ n - 1 \in 0..n
    BY <1>1, <1>6
  <2>2. /\ SubSeq(s, 1, n - 1) \in Seq(T) /\ Len(SubSeq(s, 1, n - 1)) = n - 1
        /\ \A i \in 1..(n - 1) : SubSeq(s, 1, n - 1)[i] = s[i]
    BY <1>1, <2>1, SubSeqProperties
  <2>3. /\ SubSeq(r, 1, n - 1) \in Seq(T) /\ Len(SubSeq(r, 1, n - 1)) = n - 1
        /\ \A i \in 1..(n - 1) : SubSeq(r, 1, n - 1)[i] = r[i]
    BY <1>2, <2>1, SubSeqProperties
  <2>4. Front(r) = SubSeq(r, 1, n - 1)
    BY <1>2 DEF Front
  <2>5. \A i \in 1..(n - 1) : SubSeq(r, 1, n - 1)[i] = SubSeq(s, 1, n - 1)[i]
    BY <1>2, <2>2, <2>3
  <2>. QED
    BY <2>2, <2>3, <2>4, <2>5
<1>. QED
  BY <1>2, <1>4, <1>5, <1>6 DEF r

\* FlattenSeq is the last of the concatenations of ever more of the sequences.
LEMMA FlattenUnfold ==
  ASSUME NEW bs, Len(bs) \in Nat, Len(bs) # 0
  PROVE \E f : /\ f[1] = bs[1]
               /\ \A i \in 2..Len(bs) : f[i] = f[i - 1] \o bs[i]
               /\ FlattenSeq(bs) = f[Len(bs)]
<1> DEFINE body(n, g) == [i \in 1..n |-> IF i = 1 THEN bs[i] ELSE g[i - 1] \o bs[i]]
           S == {n \in Nat : \E g : g = body(n, g)}
<1>1. 0 \in S
  <2> DEFINE g == [i \in 1..0 |-> 0]
  <2>1. g = body(0, g)
    OBVIOUS
  <2>. QED
   BY <2>1
<1>2. ASSUME NEW n \in Nat, n \in S PROVE n + 1 \in S
  <2>1. PICK g : g = body(n, g)
   BY <1>2
  <2> DEFINE h == [i \in 1..(n + 1) |-> IF i <= n THEN g[i] ELSE IF i = 1 THEN bs[i] ELSE g[n] \o bs[i]]
  <2>2. ASSUME NEW i \in 1..(n + 1)
        PROVE h[i] = IF i = 1 THEN bs[i] ELSE h[i - 1] \o bs[i]
   <3>1. CASE i = n + 1
     BY <3>1
   <3>2. CASE i # n + 1
     <4>1. i \in 1..n /\ (i # 1 => i - 1 \in 1..n)
       BY <3>2
     <4>2. g[i] = IF i = 1 THEN bs[i] ELSE g[i - 1] \o bs[i]
       BY <2>1, <4>1
     <4>. QED
       BY <4>1, <4>2
   <3>. QED
     BY <3>1, <3>2
  <2>3. h = body(n + 1, h)
    BY <2>2
  <2> HIDE DEF h
  <2>4. \E k : k = body(n + 1, k)
    BY <2>3, Zenon
  <2>5. n + 1 \in Nat
    OBVIOUS
  <2> HIDE DEF body
  <2>. QED
    BY <2>4, <2>5
<1>3. PICK g : g = body(Len(bs), g)
  <2> HIDE DEF S
  <2>1. Len(bs) \in S
    BY <1>1, <1>2, SetInduction
  <2>. QED
    BY <2>1 DEF S
<1> DEFINE f == CHOOSE f : f = body(Len(bs), f)
<1>4. f = body(Len(bs), f)
  BY <1>3
<1>5. FlattenSeq(bs) = f[Len(bs)]
  BY DEF FlattenSeq
<1> HIDE DEF f
<1>6. f[1] = bs[1]
  BY <1>4
<1>7. ASSUME NEW i \in 2..Len(bs)
      PROVE  f[i] = f[i - 1] \o bs[i]
  <2>1. i \in 1..Len(bs) /\ i # 1
    OBVIOUS
  <2>2. f[i] = IF i = 1 THEN bs[i] ELSE f[i - 1] \o bs[i]
    BY <1>4, <2>1, Zenon
  <2>. QED
    BY <2>1, <2>2
<1>. QED
  BY <1>5, <1>6, <1>7, Zenon

-----------------------------------------------------------------------------
(* Sets of numbers in their order.                                         *)

\* The numbers of a set below one of its own are fewer than its numbers, and more the
\* greater that one is.
Below(S, x) == {y \in S : y < x}

\* Below is strictly monotonic, and its size less than that of the set.
LEMMA FewerBelow ==
    ASSUME NEW S \in SUBSET Int, IsFiniteSet(S), NEW x \in S
    PROVE  /\ Cardinality(Below(S, x)) \in 0..(Cardinality(S) - 1)
           /\ \A z \in S : x < z => Cardinality(Below(S, x)) < Cardinality(Below(S, z))
<1>1. ASSUME NEW T \in SUBSET S, x \in T, NEW U \in SUBSET T, x \notin U
      PROVE  Cardinality(U) \in Nat /\ Cardinality(T) \in Nat /\ Cardinality(U) < Cardinality(T)
  <2>1. IsFiniteSet(T) /\ IsFiniteSet(U)
    BY <1>1, FS_Subset
  <2>2. Cardinality(T) \in Nat /\ Cardinality(U) \in Nat
    BY <2>1, FS_CardinalityType
  <2>3. Cardinality(U) <= Cardinality(T) /\ (Cardinality(T) = Cardinality(U) => T = U)
    BY <1>1, <2>1, FS_Subset
  <2>. QED
    BY <1>1, <2>2, <2>3
<1>2. x \notin Below(S, x) /\ Below(S, x) \subseteq S
  BY DEF Below
<1>3. Cardinality(Below(S, x)) \in 0..(Cardinality(S) - 1)
  <2>1. /\ Cardinality(Below(S, x)) \in Nat /\ Cardinality(S) \in Nat
        /\ Cardinality(Below(S, x)) < Cardinality(S)
    BY <1>1, <1>2
  <2>. QED
    BY <2>1
<1>4. ASSUME NEW z \in S, x < z
      PROVE  Cardinality(Below(S, x)) < Cardinality(Below(S, z))
  <2>1. \A y \in S : y < x => y < z
    BY <1>4
  <2>2. x \in Below(S, z) /\ Below(S, z) \in SUBSET S /\ Below(S, x) \in SUBSET Below(S, z)
    BY <1>4, <2>1 DEF Below
  <2>. QED
    BY <1>1, <1>2, <2>2
<1>. QED
  BY <1>3, <1>4

\* A finite set of numbers is listed once each, in their order.
LEMMA AscendingLists ==
    ASSUME NEW S \in SUBSET Int, IsFiniteSet(S)
    PROVE  /\ Cardinality(S) \in Nat
           /\ Len(Ascending(S)) = Cardinality(S)
           /\ DOMAIN Ascending(S) = 1..Cardinality(S)
           /\ Ascending(S) \in Seq(S)
           /\ \A i, j \in 1..Cardinality(S) : i < j => Ascending(S)[i] < Ascending(S)[j]
           /\ \A x \in S : \E i \in 1..Cardinality(S) : Ascending(S)[i] = x
<1> DEFINE n == Cardinality(S)
           s == Ascending(S)
           rank == [x \in S |-> Cardinality(Below(S, x))]
<1>1. n \in Nat
  BY FS_CardinalityType
<1>2. /\ \A x \in S : rank[x] \in 0..(n - 1)
      /\ \A x, z \in S : x < z => rank[x] < rank[z]
  BY FewerBelow
<1>3. rank \in [S -> 0..(n - 1)]
  BY <1>2
<1>4. \A x, z \in S : rank[x] = rank[z] => x = z
  <2> HIDE DEF rank
  <2> SUFFICES ASSUME NEW x \in S, NEW z \in S, x # z
               PROVE  rank[x] # rank[z]
    OBVIOUS
  <2>1. x < z \/ z < x
    OBVIOUS
  <2>2. rank[x] \in Int /\ rank[z] \in Int
    BY <1>2
  <2>. QED
    BY <1>2, <2>1, <2>2
<1>5. \A k \in 0..(n - 1) : \E x \in S : rank[x] = k
  <2> HIDE DEF rank
  <2>1. rank \in Injection(S, 0..(n - 1))
    BY <1>3, <1>4 DEF Injection, IsInjective
  <2>2. IsFiniteSet(0..(n - 1)) /\ Cardinality(0..(n - 1)) = n
    <3>1. n - 1 \in Int /\ 0 \in Int
      BY <1>1
    <3>2. IsFiniteSet(0..(n - 1)) /\ Cardinality(0..(n - 1)) = IF 0 > n - 1 THEN 0 ELSE (n - 1) - 0 + 1
      BY <3>1, FS_Interval
    <3>. QED
      BY <1>1, <3>2
  <2>3. rank \in Surjection(S, 0..(n - 1))
    BY <2>1, <2>2, FS_Injection
  <2>. QED
    BY <2>3 DEF Surjection
<1>6. s = [k \in 1..n |-> CHOOSE x \in S : Cardinality(Below(S, x)) = k - 1]
  BY DEF Ascending, Below
<1>7. \A x \in S : rank[x] = Cardinality(Below(S, x))
  OBVIOUS
<1> HIDE DEF rank, s, n
<1>8. ASSUME NEW k \in 1..n
      PROVE  s[k] \in S /\ rank[s[k]] = k - 1
  <2>1. k - 1 \in 0..(n - 1)
    BY <1>1
  <2>2. \E x \in S : Cardinality(Below(S, x)) = k - 1
    BY <1>5, <1>7, <2>1
  <2>3. s[k] = CHOOSE x \in S : Cardinality(Below(S, x)) = k - 1
    BY <1>6
  <2>. QED
    BY <1>7, <2>2, <2>3
<1>9. s \in [1..n -> S]
  BY <1>6, <1>8
<1>10. s \in Seq(S) /\ Len(s) = n /\ DOMAIN s = 1..n
  BY <1>1, <1>9
<1>11. ASSUME NEW i \in 1..n, NEW j \in 1..n, i < j
       PROVE  s[i] < s[j]
  <2>1. s[i] \in S /\ s[j] \in S /\ rank[s[i]] = i - 1 /\ rank[s[j]] = j - 1
    BY <1>8
  <2>2. rank[s[i]] < rank[s[j]]
    BY <1>1, <1>11, <2>1
  <2>3. ~(rank[s[j]] < rank[s[i]]) /\ s[i] # s[j]
    BY <1>11, <2>1
  <2>4. ~(s[j] < s[i])
    BY <1>2, <2>1, <2>3
  <2>5. s[i] \in Int /\ s[j] \in Int
    BY <2>1
  <2>. QED
    BY <2>3, <2>4, <2>5
<1>12. ASSUME NEW x \in S
       PROVE  \E i \in 1..n : s[i] = x
  <2>1. rank[x] + 1 \in 1..n /\ (rank[x] + 1) - 1 = rank[x]
    BY <1>1, <1>2
  <2>2. s[rank[x] + 1] \in S /\ rank[s[rank[x] + 1]] = rank[x]
    BY <1>8, <2>1
  <2>. QED
    BY <1>4, <2>1, <2>2
<1>. QED
  BY <1>1, <1>10, <1>11, <1>12 DEF s, n

\* The first of the enumeration is in the set, if anything is.
LEMMA FirstOf ==
    ASSUME NEW S \in SUBSET Int, IsFiniteSet(S)
    PROVE  /\ Ascending(S) = <<>> <=> S = {}
           /\ S # {} => Ascending(S)[1] \in S
<1>1. /\ Cardinality(S) \in Nat /\ Len(Ascending(S)) = Cardinality(S)
      /\ Ascending(S) \in Seq(S)
  BY AscendingLists
<1>2. Cardinality(S) = 0 <=> S = {}
  BY FS_EmptySet
<1>3. Len(Ascending(S)) = 0 <=> Ascending(S) = <<>>
  BY <1>1
<1>4. ASSUME S # {}
      PROVE  Ascending(S)[1] \in S
  <2> DEFINE n == Cardinality(S)
  <2>1. n \in Nat /\ n # 0 /\ Len(Ascending(S)) = n
    BY <1>1, <1>2, <1>4
  <2> HIDE DEF n
  <2>2. 1 \in 1..n
    BY <2>1
  <2>. QED
    BY <1>1, <2>1, <2>2
<1>. QED
  BY <1>1, <1>2, <1>3, <1>4

\* Positions of a sequence are a finite set of numbers.
LEMMA PositionsFinite ==
    ASSUME NEW ledger, IsSequence(ledger), NEW S \in SUBSET (DOMAIN ledger)
    PROVE  S \in SUBSET Int /\ IsFiniteSet(S) /\ S \in SUBSET Nat
<1>1. DOMAIN ledger = 1..Len(ledger) /\ Len(ledger) \in Nat
  BY AppendKeeps
<1>2. IsFiniteSet(1..Len(ledger))
  BY <1>1, FS_Interval
<1>. QED
  BY <1>1, <1>2, FS_Subset

\* The elements at some positions of a sequence are a sequence.
LEMMA AtIsSequence ==
    ASSUME NEW s, IsSequence(s), NEW positions \in SUBSET (DOMAIN s)
    PROVE  IsSequence(At(s, positions))
<1>1. Cardinality(positions) \in Nat
  BY PositionsFinite, FS_CardinalityType
<1> DEFINE r == At(s, positions)
<1>2. r = [k \in 1..Cardinality(positions) |-> r[k]]
  BY DEF At
<1> HIDE DEF r
<1>. QED
  BY <1>1, <1>2, SequenceOf DEF r

-----------------------------------------------------------------------------
(* Pages: what lies on the page that an offset falls into.                 *)

\* The page of size z in which offset o lies begins at or before o and ends behind it.
LEMMA DivisionBounds ==
    ASSUME NEW o \in Nat, NEW z \in Nat \ {0}
    PROVE  /\ o \div z \in Nat
           /\ (o \div z) * z \in Nat
           /\ (o \div z) * z <= o
           /\ o < (o \div z) * z + z
           /\ o % z = 0 => (o \div z) * z = o
BY SMT

\* Multiples of d add up to a multiple of d.
LEMMA ModuloOfSum ==
    ASSUME NEW o \in Nat, NEW z \in Nat, NEW d \in Nat \ {0}, o % d = 0, z % d = 0
    PROVE  (o + z) % d = 0
<1>1. o = d * (o \div d) /\ z = d * (z \div d) /\ o \div d \in Nat /\ z \div d \in Nat
  BY SMT
<1>2. o + z = d * ((o \div d) + (z \div d)) /\ (o \div d) + (z \div d) \in Nat
  BY <1>1
<1>3. \A k \in Nat : (d * k) % d = 0
  BY SMT
<1>. QED
  BY <1>2, <1>3

\* What a search at offset o takes from a list of t results on a page of size z.
Slice(o, z, t) ==
    {i \in 0..(t - 1) : ((o \div z + 1) - 1) * z <= i /\ i < (o \div z + 1) * z}

\* It ends below the advanced offset, has the position at the offset unless the list is
\* at an end, is short only at the end, and begins at the offset if the size divides it.
SliceFits(o, z, t, p) ==
    /\ Cardinality(p) \in Nat
    /\ \A i \in p : i < o + Cardinality(p)
    /\ o < t => o \in p
    /\ o < t => Cardinality(p) = z \/ t <= o + Cardinality(p)
    /\ o % z = 0 => p = {i \in 0..(t - 1) : o <= i /\ i < o + Cardinality(p)}

\* Every slice fits.
LEMMA SlicesFit ==
    ASSUME NEW o \in Nat, NEW z \in Nat \ {0}, NEW t \in Nat
    PROVE  SliceFits(o, z, t, Slice(o, z, t))
<1>. DEFINE p == Slice(o, z, t)
<1>. DEFINE first == (o \div z) * z
            past == IF first + z <= t THEN first + z ELSE t
<1>1. /\ first \in Nat /\ first <= o /\ o < first + z
      /\ o % z = 0 => first = o
  BY DivisionBounds
<1>2. ((o \div z + 1) - 1) * z = first /\ (o \div z + 1) * z = first + z
  BY DivisionBounds
<1>3. /\ past \in Nat /\ past <= first + z /\ past <= t
      /\ past = first + z \/ past = t
  BY <1>1
<1>4. p = {i \in 0..(t - 1) : first <= i /\ i < first + z}
  BY <1>2 DEF Slice
<1>. HIDE DEF p
<1>5. p = {i \in 0..(t - 1) : first <= i /\ i < past}
  BY <1>1, <1>4
<1>. HIDE DEF first, past
<1>6. p = first..(past - 1)
  <2>1. \A i : i \in p <=> i \in 0..(t - 1) /\ first <= i /\ i < past
    BY <1>5
  <2>2. \A i : i \in p <=> i \in first..(past - 1)
    BY <1>1, <1>3, <2>1
  <2>. QED
    BY <2>2
<1>7. Cardinality(p) = IF first > past - 1 THEN 0 ELSE past - first
  <2>1. first \in Int /\ past - 1 \in Int
    BY <1>1, <1>3
  <2>2. Cardinality(first..(past - 1)) = IF first > past - 1 THEN 0 ELSE (past - 1) - first + 1
    BY <2>1, FS_Interval
  <2>3. (past - 1) - first + 1 = past - first
    BY <1>1, <1>3
  <2>. QED
    BY <2>2, <2>3, <1>6, Zenon
<1>. DEFINE n == Cardinality(p)
<1>8. /\ n \in Nat
      /\ first <= past => n = past - first
      /\ past < first => n = 0
  BY <1>1, <1>3, <1>7
<1>. HIDE DEF n
<1>9. z \in Nat /\ z > 0
  OBVIOUS
<1>10. \A i \in p : i < o + n
  BY <1>1, <1>3, <1>6, <1>8
<1>11. o < t => o \in p
  BY <1>1, <1>3, <1>6, <1>9
<1>12. o < t => n = z \/ t <= o + n
  BY <1>1, <1>3, <1>8, <1>9
<1>13. o % z = 0 => p = {i \in 0..(t - 1) : o <= i /\ i < o + n}
  BY <1>1, <1>3, <1>5, <1>8
<1>. QED
  BY <1>8, <1>10, <1>11, <1>12, <1>13 DEF n, p, SliceFits
=============================================================================
