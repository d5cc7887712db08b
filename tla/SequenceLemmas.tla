--------------------------- MODULE SequenceLemmas ---------------------------
(* What the proofs need to know of sequences, and of functions defined by recursion. *)
EXTENDS Integers, Sequences, SequenceTheorems, WellFoundedInduction, TLAPS

(* The empty sequence. *)
LEMMA EmptyFacts ==
  /\ \A S : <<>> \in Seq(S)
  /\ Len(<<>>) = 0
  /\ DOMAIN <<>> = {}
<1>1. \A S : <<>> \in Seq(S)
  OBVIOUS
<1>2. Len(<<>>) = 0
  OBVIOUS
<1>3. DOMAIN <<>> = {}
  OBVIOUS
<1> QED
  BY <1>1, <1>2, <1>3

(* Appending to a sequence keeps its type and its elements. *)
LEMMA Appended ==
  ASSUME NEW S, NEW s \in Seq(S), NEW e \in S
  PROVE  /\ Append(s, e) \in Seq(S)
         /\ Len(Append(s, e)) = Len(s) + 1
         /\ \A i \in 1 .. Len(s) : Append(s, e)[i] = s[i]
         /\ Append(s, e)[Len(s) + 1] = e
         /\ Len(s) \in Nat
<1>1. /\ Append(s, e) \in Seq(S)
      /\ Len(Append(s, e)) = Len(s) + 1
      /\ \A i \in 1 .. Len(s) : Append(s, e)[i] = s[i]
      /\ Append(s, e)[Len(s) + 1] = e
  BY AppendProperties
<1>2. Len(s) \in Nat
  BY LenProperties, Zenon
<1> QED
  BY <1>1, <1>2, Zenon

(* One element in front of a sequence. *)
LEMMA Prepended ==
  ASSUME NEW S, NEW x \in S, NEW s \in Seq(S)
  PROVE  /\ <<x>> \o s \in Seq(S)
         /\ Len(<<x>> \o s) = 1 + Len(s) /\ Len(s) \in Nat
         /\ (<<x>> \o s)[1] = x
         /\ \A j \in 1 .. Len(s) : (<<x>> \o s)[1 + j] = s[j]
<1> DEFINE y == <<x>>
<1>1. y \in Seq(S) /\ Len(y) = 1 /\ y[1] = x /\ Len(s) \in Nat
  BY LenProperties
<1> HIDE DEF y
<1>2. /\ y \o s \in Seq(S) /\ Len(y \o s) = Len(y) + Len(s)
      /\ \A i \in 1 .. Len(y) + Len(s) : (y \o s)[i] = IF i <= Len(y) THEN y[i] ELSE s[i - Len(y)]
  BY <1>1, ConcatProperties, Zenon
<1>3. /\ \A j \in 1 .. Len(s) : 1 + j \in 1 .. 1 + Len(s) /\ ~(1 + j <= 1) /\ (1 + j) - 1 = j
      /\ 1 \in 1 .. 1 + Len(s) /\ 1 <= 1
  BY <1>1
<1>4. /\ y \o s \in Seq(S) /\ Len(y \o s) = 1 + Len(s)
      /\ (y \o s)[1] = x
      /\ \A j \in 1 .. Len(s) : (y \o s)[1 + j] = s[j]
  BY <1>1, <1>2, <1>3, Zenon
<1> QED
  BY <1>1, <1>4, Zenon DEF y

(* A slice within a sequence. *)
LEMMA Sliced ==
  ASSUME NEW S, NEW s \in Seq(S), NEW a \in Nat, NEW b \in Nat, b <= Len(s)
  PROVE  /\ SubSeq(s, a + 1, b) \in Seq(S)
         /\ Len(SubSeq(s, a + 1, b)) = IF a <= b THEN b - a ELSE 0
         /\ \A i \in 1 .. b - a : SubSeq(s, a + 1, b)[i] = s[a + i]
<1>1. Len(s) \in Nat
  BY LenProperties, Zenon
<1>2. \A i \in a + 1 .. b : i \in 1 .. Len(s)
  BY <1>1
<1>3. \A i \in a + 1 .. b : s[i] \in S
  BY <1>2, ElementOfSeq, Zenon
<1> DEFINE m == a + 1
<1>4. m \in Int /\ b \in Int /\ \A i \in m .. b : s[i] \in S
  BY <1>3
<1> HIDE DEF m
<1>10. /\ SubSeq(s, m, b) \in Seq(S)
       /\ Len(SubSeq(s, m, b)) = IF m <= b THEN b - m + 1 ELSE 0
       /\ \A i \in 1 .. b - m + 1 : SubSeq(s, m, b)[i] = s[m + i - 1]
  BY <1>4, SubSeqProperties
<1>5. /\ SubSeq(s, a + 1, b) \in Seq(S)
      /\ Len(SubSeq(s, a + 1, b)) = IF a + 1 <= b THEN b - (a + 1) + 1 ELSE 0
      /\ \A i \in 1 .. b - (a + 1) + 1 : SubSeq(s, a + 1, b)[i] = s[a + 1 + i - 1]
  BY <1>10, Zenon DEF m
<1>6. b - (a + 1) + 1 = b - a
  OBVIOUS
<1>7. ASSUME NEW i \in 1 .. b - a
      PROVE  SubSeq(s, a + 1, b)[i] = s[a + i]
  <2>1. a + 1 + i - 1 = a + i
    OBVIOUS
  <2> QED
    BY <1>5, <1>6, <2>1, Zenon
<1>8. Len(SubSeq(s, a + 1, b)) = IF a <= b THEN b - a ELSE 0
  <2> DEFINE n == Len(SubSeq(s, a + 1, b))
  <2>1. n = IF a + 1 <= b THEN b - (a + 1) + 1 ELSE 0
    BY <1>5
  <2> HIDE DEF n
  <2>2. n = IF a <= b THEN b - a ELSE 0
    BY <2>1
  <2> QED
    BY <2>2 DEF n
<1> QED
  BY <1>5, <1>7, <1>8, Zenon

(* The same, of a slice that is not empty the wrong way round. *)
LEMMA SlicedWithin ==
  ASSUME NEW S, NEW s \in Seq(S), NEW a \in Nat, NEW b \in Nat, a <= b, b <= Len(s)
  PROVE  /\ SubSeq(s, a + 1, b) \in Seq(S)
         /\ Len(SubSeq(s, a + 1, b)) = b - a
         /\ \A i \in 1 .. b - a : SubSeq(s, a + 1, b)[i] = s[a + i]
  BY Sliced, Zenon

(* The n elements behind the first a. *)
LEMMA SlicedFrom ==
  ASSUME NEW S, NEW s \in Seq(S), NEW a \in Nat, NEW n \in Nat, a + n <= Len(s)
  PROVE  /\ SubSeq(s, a + 1, a + n) \in Seq(S) /\ Len(SubSeq(s, a + 1, a + n)) = n
         /\ \A i \in 1 .. n : SubSeq(s, a + 1, a + n)[i] = s[a + i]
<1> DEFINE b == a + n
<1>1. b \in Nat /\ a <= b /\ b <= Len(s) /\ b - a = n
  OBVIOUS
<1> HIDE DEF b
<1>2. /\ SubSeq(s, a + 1, b) \in Seq(S)
      /\ Len(SubSeq(s, a + 1, b)) = b - a
      /\ \A i \in 1 .. b - a : SubSeq(s, a + 1, b)[i] = s[a + i]
  BY <1>1, SlicedWithin, Zenon
<1> QED
  BY <1>1, <1>2, Zenon DEF b

(* The first n elements. *)
LEMMA Fronted ==
  ASSUME NEW S, NEW s \in Seq(S), NEW n \in 1 .. Len(s)
  PROVE  /\ SubSeq(s, 1, n) \in Seq(S) /\ Len(SubSeq(s, 1, n)) = n
         /\ \A i \in 1 .. n : SubSeq(s, 1, n)[i] = s[i]
<1>1. Len(s) \in Nat
  BY LenProperties, Zenon
<1>2. n \in Nat /\ n <= Len(s) /\ 0 <= n /\ 0 \in Nat /\ 0 + 1 = 1 /\ n - 0 = n
  BY <1>1
<1>3. /\ SubSeq(s, 0 + 1, n) \in Seq(S)
      /\ Len(SubSeq(s, 0 + 1, n)) = n - 0
      /\ \A i \in 1 .. n - 0 : SubSeq(s, 0 + 1, n)[i] = s[0 + i]
  BY <1>2, SlicedWithin, Zenon
<1>4. \A i \in 1 .. n : 0 + i = i
  OBVIOUS
<1> QED
  BY <1>2, <1>3, <1>4, Zenon

(* A sequence whose elements are the first of another is a slice of it. *)
LEMMA IsFront ==
  ASSUME NEW S, NEW s \in Seq(S), NEW t \in Seq(S), Len(t) <= Len(s),
         \A i \in 1 .. Len(t) : t[i] = s[i]
  PROVE  t = SubSeq(s, 1, Len(t))
<1> DEFINE n == Len(t)
           zero == 0
           w == SubSeq(s, zero + 1, n)
<1>1. n \in Nat /\ zero \in Nat /\ n <= Len(s)
  BY LenProperties, Zenon
<1>2. w = SubSeq(s, 1, n)
  OBVIOUS
<1>3. /\ \A i \in 1 .. n : zero + i = i
      /\ n - zero = n /\ zero <= n
  BY <1>1
<1> HIDE DEF n, zero
<1>4. /\ w \in Seq(S) /\ Len(w) = n - zero
      /\ \A i \in 1 .. n - zero : w[i] = s[zero + i]
  BY <1>1, <1>3, SlicedWithin, Zenon
<1> HIDE DEF w
<1>5. w \in Seq(S) /\ Len(w) = n /\ \A i \in 1 .. n : w[i] = t[i]
  BY <1>3, <1>4, Zenon DEF n
<1>6. w = t
  BY <1>5, SeqEqual, Zenon DEF n
<1> QED
  BY <1>2, <1>6, Zenon DEF n

(* Where d continues b from position a, the first n elements of d are b's next ones. *)
LEMMA SameSlice ==
  ASSUME NEW S, NEW d \in Seq(S), NEW b \in Seq(S), NEW a \in Nat, NEW n \in 1 .. Len(d),
         a + Len(d) <= Len(b), \A i \in 1 .. Len(d) : d[i] = b[a + i]
  PROVE  SubSeq(d, 1, n) = SubSeq(b, a + 1, a + n)
<1>0. Len(d) \in Nat /\ Len(b) \in Nat
  BY LenProperties, Zenon
<1>1. n \in Nat /\ n <= Len(d) /\ a + n <= Len(b)
  BY <1>0
<1> DEFINE s == SubSeq(d, 1, n)
           t == SubSeq(b, a + 1, a + n)
<1>2. /\ s \in Seq(S) /\ Len(s) = n /\ \A i \in 1 .. n : s[i] = d[i]
  BY Fronted, Zenon
<1>3. /\ t \in Seq(S) /\ Len(t) = n /\ \A i \in 1 .. n : t[i] = b[a + i]
  BY ONLY <1>1, b \in Seq(S), a \in Nat, SlicedFrom, Zenon
<1> HIDE DEF s, t
<1>4. ASSUME NEW i \in 1 .. n
      PROVE  s[i] = t[i]
  <2>1. i \in 1 .. Len(d)
    BY <1>0, <1>1
  <2> QED
    BY <1>2, <1>3, <2>1, Zenon
<1>5. s = t
  BY <1>2, <1>3, <1>4, SeqEqual
<1> QED
  BY <1>5 DEF s, t

(* Dropping the first element. *)
LEMMA Tailed ==
  ASSUME NEW S, NEW s \in Seq(S), s # <<>>
  PROVE  /\ Tail(s) \in Seq(S)
         /\ Len(Tail(s)) = Len(s) - 1
         /\ \A i \in 1 .. Len(s) - 1 : Tail(s)[i] = s[i + 1]
         /\ Head(s) = s[1] /\ Head(s) \in S
         /\ Len(s) \in Nat /\ Len(s) > 0
<1>1. /\ Tail(s) \in Seq(S) /\ Len(Tail(s)) = Len(s) - 1 /\ Head(s) \in S
      /\ \A i \in 1 .. Len(Tail(s)) : Tail(s)[i] = s[i + 1]
  BY HeadTailProperties, Zenon
<1>2. Len(s) \in Nat /\ Head(s) = s[1]
  BY LenProperties
<1>3. Len(s) # 0
  BY EmptySeq, Zenon
<1> QED
  BY <1>1, <1>2, <1>3

(* The elements of a sequence that has grown. *)
LEMMA RangeAppended ==
  ASSUME NEW S, NEW s \in Seq(S), NEW e \in S
  PROVE  /\ Range(Append(s, e)) = Range(s) \cup {e}
         /\ IsInjective(s) /\ e \notin Range(s) => IsInjective(Append(s, e))
<1> DEFINE t == Append(s, e)
<1>1. /\ t \in Seq(S) /\ Len(t) = Len(s) + 1 /\ Len(s) \in Nat
      /\ \A i \in 1 .. Len(s) : t[i] = s[i]
      /\ t[Len(s) + 1] = e
  BY Appended
<1> HIDE DEF t
<1>2. DOMAIN s = 1 .. Len(s) /\ DOMAIN t = 1 .. Len(s) + 1
  BY <1>1, LenProperties
<1>3. \A i \in 1 .. Len(s) + 1 : i \in 1 .. Len(s) \/ i = Len(s) + 1
  BY <1>1
<1>4. 1 .. Len(s) \subseteq 1 .. Len(s) + 1 /\ Len(s) + 1 \in 1 .. Len(s) + 1
  BY <1>1
<1>5. Range(t) = Range(s) \cup {e}
  BY <1>1, <1>2, <1>3, <1>4, Zenon DEF Range
<1>6. ASSUME IsInjective(s), e \notin Range(s)
      PROVE  IsInjective(t)
  BY <1>1, <1>2, <1>3, <1>6, Zenon DEF IsInjective, Range
<1> QED
  BY <1>5, <1>6 DEF t

(* The elements of a sequence without its first one. *)
LEMMA RangeTailed ==
  ASSUME NEW S, NEW s \in Seq(S), s # <<>>
  PROVE  /\ Range(s) = {Head(s)} \cup Range(Tail(s))
         /\ IsInjective(s) => IsInjective(Tail(s)) /\ Head(s) \notin Range(Tail(s))
<1> DEFINE t == Tail(s)
           n == Len(s)
<1>1. /\ t \in Seq(S) /\ Len(t) = n - 1 /\ n \in Nat /\ n > 0
      /\ \A i \in 1 .. n - 1 : t[i] = s[i + 1]
      /\ Head(s) = s[1]
  BY Tailed
<1>2. DOMAIN s = 1 .. n /\ DOMAIN t = 1 .. n - 1
  BY <1>1, LenProperties
<1> HIDE DEF t, n
<1>3. /\ \A i \in 1 .. n : i = 1 \/ \E j \in 1 .. n - 1 : i = j + 1
      /\ \A j \in 1 .. n - 1 : j + 1 \in 1 .. n /\ j + 1 # 1
      /\ 1 \in 1 .. n
      /\ \A i, j \in 1 .. n - 1 : i + 1 = j + 1 => i = j
  <2>1. \A i \in 1 .. n : i # 1 => i - 1 \in 1 .. n - 1 /\ i = (i - 1) + 1
    BY <1>1
  <2>2. \A i \in 1 .. n : i = 1 \/ \E j \in 1 .. n - 1 : i = j + 1
    BY <2>1, Zenon
  <2> QED
    BY <1>1, <2>2
<1>4. Range(s) = {Head(s)} \cup Range(t)
  <2>1. ASSUME NEW i \in 1 .. n
        PROVE  s[i] \in {Head(s)} \cup Range(t)
    <3>1. CASE i = 1
      BY <1>1, <3>1, Zenon
    <3>2. CASE i # 1
      <4>1. PICK j \in 1 .. n - 1 : i = j + 1
        BY <1>3, <3>2, Zenon
      <4>2. s[i] = t[j]
        BY <1>1, <4>1, Zenon
      <4> QED
        BY <1>2, <4>2, Zenon DEF Range
    <3> QED
      BY <3>1, <3>2, Zenon
  <2>2. Range(s) \subseteq {Head(s)} \cup Range(t)
    BY <1>2, <2>1, Zenon DEF Range
  <2>3. ASSUME NEW j \in 1 .. n - 1
        PROVE  t[j] \in Range(s)
    BY <1>1, <1>2, <1>3, Zenon DEF Range
  <2>4. Head(s) \in Range(s)
    BY <1>1, <1>2, <1>3, Zenon DEF Range
  <2>5. Range(t) \subseteq Range(s)
    BY <1>2, <2>3, Zenon DEF Range
  <2> QED
    BY <2>2, <2>4, <2>5, Zenon
<1>5. ASSUME IsInjective(s)
      PROVE  IsInjective(t) /\ Head(s) \notin Range(t)
  <2>1. ASSUME NEW i \in 1 .. n - 1, NEW j \in 1 .. n - 1, t[i] = t[j]
        PROVE  i = j
    <3>1. i + 1 \in 1 .. n /\ j + 1 \in 1 .. n /\ s[i + 1] = s[j + 1]
      BY <1>1, <1>3, <2>1, Zenon
    <3> QED
      BY <1>2, <1>3, <1>5, <3>1, Zenon DEF IsInjective
  <2>2. ASSUME NEW j \in 1 .. n - 1, t[j] = Head(s)
        PROVE  FALSE
    <3>1. j + 1 \in 1 .. n /\ j + 1 # 1 /\ s[j + 1] = s[1]
      BY <1>1, <1>3, <2>2, Zenon
    <3> QED
      BY <1>2, <1>3, <1>5, <3>1, Zenon DEF IsInjective
  <2> QED
    BY <1>2, <2>1, <2>2, Zenon DEF IsInjective, Range
<1> QED
  BY <1>4, <1>5 DEF t

-----------------------------------------------------------------------------
(* Induction. The library's theorems take a predicate; a set can stand for it. *)

(* A set of natural numbers has a least element. *)
LEMMA LeastNumber ==
  ASSUME NEW T, T \subseteq Nat, T # {}
  PROVE  \E n \in T : \A m \in T : n <= m
<1> DEFINE R == OpToRel(<, Nat)
<1>1. IsWellFoundedOn(R, Nat)
  BY NatLessThanWellFounded, Zenon
<1>2. \A x, y \in Nat : <<y, x>> \in R <=> y < x
  BY DEF OpToRel
<1> HIDE DEF R
<1>3. \E x \in T : \A y \in T : ~ (<<y, x>> \in R)
  BY <1>1, WFMin
<1>4. PICK x \in T : \A y \in T : ~ (<<y, x>> \in R)
  BY <1>3, Zenon
<1>5. ASSUME NEW m \in T
      PROVE  x <= m
  <2>1. ~(<<m, x>> \in R)
    BY <1>4, Zenon
  <2>2. m \in Nat /\ x \in Nat
    OBVIOUS
  <2>3. ~(m < x)
    BY <1>2, <2>1, <2>2, Zenon
  <2> QED
    BY <2>2, <2>3
<1> QED
  BY <1>5

(* What holds of zero, and of n + 1 when it holds of n, holds of every number. *)
LEMMA Induction ==
  ASSUME NEW T, 0 \in T, \A n \in Nat : n \in T => n + 1 \in T
  PROVE  \A n \in Nat : n \in T
<1> SUFFICES ASSUME Nat \ T # {} PROVE FALSE
  OBVIOUS
<1>1. Nat \ T \subseteq Nat
  OBVIOUS
<1>2. PICK n \in Nat \ T : \A m \in Nat \ T : n <= m
  BY <1>1, LeastNumber, Zenon
<1>3. n # 0 /\ n - 1 \in Nat
  OBVIOUS
<1>4. n - 1 \in T
  <2>1. ~(n <= n - 1)
    BY <1>3
  <2> QED
    BY <1>2, <1>3, <2>1, Zenon
<1>5. (n - 1) + 1 = n
  OBVIOUS
<1> QED
  BY <1>3, <1>4, <1>5, Zenon

(* The same up to n. *)
LEMMA InductionTo ==
  ASSUME NEW T, NEW n \in Nat, 0 \in T, \A i \in 1 .. n : i - 1 \in T => i \in T
  PROVE  \A i \in 0 .. n : i \in T
<1> DEFINE U == {i \in Nat : i <= n => i \in T}
<1>1. 0 \in U
  BY Zenon
<1>2. ASSUME NEW i \in Nat, i \in U
      PROVE  i + 1 \in U
  <2>1. i + 1 \in Nat
    OBVIOUS
  <2> SUFFICES ASSUME i + 1 <= n PROVE i + 1 \in T
    BY <2>1, Zenon
  <2>2. i <= n /\ i + 1 \in 1 .. n /\ (i + 1) - 1 = i
    OBVIOUS
  <2> QED
    BY <1>2, <2>2, Zenon
<1> HIDE DEF U
<1>3. \A i \in Nat : i \in U
  BY <1>1, <1>2, Induction, Zenon
<1>4. \A i \in 0 .. n : i \in Nat /\ i <= n
  OBVIOUS
<1> QED
  BY <1>3, <1>4, Zenon DEF U

\* p is in T when every element of S is that is lower than p by a measure m
InductiveIn(S, m, T) ==
  /\ \A p \in S : m[p] \in Nat
  /\ \A p \in S : (\A q \in S : m[q] < m[p] => q \in T) => p \in T

(* Then every element of S is in T. *)
LEMMA MeasureInduction ==
  ASSUME NEW S, NEW m, NEW T, InductiveIn(S, m, T)
  PROVE  S \subseteq T
<1> USE DEF InductiveIn
<1> DEFINE U == {n \in Nat : \E p \in S : p \notin T /\ n = m[p]}
<1> SUFFICES ASSUME NEW p \in S, p \notin T PROVE FALSE
  BY Zenon
<1>1. U \subseteq Nat /\ U # {}
  <2>1. m[p] \in U
    BY Zenon
  <2> QED
    BY <2>1, Zenon
<1>2. PICK n \in U : \A k \in U : n <= k
  BY <1>1, LeastNumber, Zenon
<1>3. PICK x \in S : x \notin T /\ n = m[x]
  BY <1>2, Zenon
<1>4. ASSUME NEW q \in S, m[q] < m[x]
      PROVE  q \in T
  <2>1. m[q] \in Nat /\ m[x] \in Nat
    BY <1>3, Zenon
  <2>2. ~(m[x] <= m[q])
    BY <1>4, <2>1
  <2>3. m[q] \notin U
    BY <1>2, <1>3, <2>2, Zenon
  <2> QED
    BY <2>1, <2>3, Zenon
<1> QED
  BY <1>3, <1>4, Zenon

\* Each value of a function from S to D is given outright or from one of its other values,
\* the one at nx[p], which is lower by a measure m.
Recursive(S, D, Stop, N, m, base, g, nx) ==
  /\ N \in Nat /\ m \in [S -> 0 .. N]
  /\ base \in [S -> D] /\ g \in [S -> [D -> D]]
  /\ \A p \in S : p \notin Stop => nx[p] \in S /\ m[nx[p]] < m[p]

IsDefined(S, D, Stop, base, g, nx) ==
  \E f \in [S -> D] :
    \A p \in S : f[p] = IF p \in Stop THEN base[p] ELSE g[p][f[nx[p]]]

(* There is a function that satisfies such equations. *)
LEMMA RecursionDefines ==
  ASSUME NEW S, NEW D, NEW Stop, NEW N, NEW m, NEW base, NEW g, NEW nx,
         Recursive(S, D, Stop, N, m, base, g, nx)
  PROVE  IsDefined(S, D, Stop, base, g, nx)
<1> USE DEF Recursive
<1> DEFINE Low(k) == {p \in S : m[p] < k}
           Solves(f, k) ==
             \A p \in Low(k) : f[p] = IF p \in Stop THEN base[p] ELSE g[p][f[nx[p]]]
           T == {k \in Nat : \E f \in [Low(k) -> D] : Solves(f, k)}
<1>0. \A p \in S : m[p] \in Nat /\ m[p] <= N /\ base[p] \in D /\ g[p] \in [D -> D]
  OBVIOUS
<1>1. 0 \in T
  <2>1. Low(0) = {}
    BY <1>0
  <2>2. [p \in Low(0) |-> base[p]] \in [Low(0) -> D] /\ Solves([p \in Low(0) |-> base[p]], 0)
    BY <2>1, Zenon
  <2> QED
    BY <2>2, Zenon
<1>2. ASSUME NEW k \in Nat, k \in T
      PROVE  k + 1 \in T
  <2>1. PICK f \in [Low(k) -> D] : Solves(f, k)
    BY <1>2, Zenon
  <2> DEFINE h == [p \in Low(k + 1) |-> IF p \in Stop THEN base[p] ELSE g[p][f[nx[p]]]]
  <2>2. Low(k) \subseteq Low(k + 1)
    BY <1>0
  <2>3. ASSUME NEW p \in Low(k + 1), p \notin Stop
        PROVE  nx[p] \in Low(k)
    <3>1. nx[p] \in S /\ m[nx[p]] < m[p] /\ m[p] < k + 1
      BY <2>3
    <3> QED
      BY <1>0, <3>1
  <2>4. ASSUME NEW p \in Low(k + 1)
        PROVE  h[p] \in D
    <3>1. CASE p \in Stop
      BY <1>0, <3>1, Zenon
    <3>2. CASE p \notin Stop
      <4>1. f[nx[p]] \in D /\ g[p] \in [D -> D]
        BY <1>0, <2>3, <3>2, Zenon
      <4> QED
        BY <3>2, <4>1, Zenon
    <3> QED
      BY <3>1, <3>2, Zenon
  <2>5. \A p \in Low(k) : h[p] = f[p]
    BY <2>1, <2>2, Zenon
  <2>6. Solves(h, k + 1)
    <3> SUFFICES ASSUME NEW p \in Low(k + 1)
                 PROVE  h[p] = IF p \in Stop THEN base[p] ELSE g[p][h[nx[p]]]
      OBVIOUS
    <3>1. CASE p \in Stop
      BY <3>1, Zenon
    <3>2. CASE p \notin Stop
      <4>1. h[nx[p]] = f[nx[p]]
        BY <2>3, <2>5, <3>2, Zenon
      <4>2. h[p] = g[p][f[nx[p]]]
        BY <3>2, Zenon
      <4> HIDE DEF h
      <4> QED
        BY <3>2, <4>1, <4>2, Zenon
    <3> QED
      BY <3>1, <3>2, Zenon
  <2>7. h \in [Low(k + 1) -> D]
    BY <2>4, Zenon
  <2> HIDE DEF h, Low, Solves
  <2>8. k + 1 \in Nat
    OBVIOUS
  <2> QED
    BY <2>6, <2>7, <2>8, Zenon
<1> HIDE DEF T
<1>3. N + 1 \in Nat
  OBVIOUS
<1>4. N + 1 \in T
  BY <1>1, <1>2, <1>3, Induction, Zenon
<1>5. PICK f \in [Low(N + 1) -> D] : Solves(f, N + 1)
  BY <1>4, Zenon DEF T
<1>6. Low(N + 1) = S
  BY <1>0
<1> HIDE DEF Low
<1> QED
  BY <1>5, <1>6, Zenon DEF IsDefined

\* f starts from b, and each further value is made from the one before it, by g[i]
Iterates(f, D, n, b, g) ==
  /\ f \in [0 .. n -> D]
  /\ f[0] = b
  /\ \A i \in 1 .. n : f[i] = g[i][f[i - 1]]

\* b and the steps g are of the right type
CanIterate(D, n, b, g) == n \in Nat /\ b \in D /\ g \in [1 .. n -> [D -> D]]

(* Such a function exists. *)
LEMMA IterationDefines ==
  ASSUME NEW D, NEW n, NEW b, NEW g, CanIterate(D, n, b, g)
  PROVE  \E f : Iterates(f, D, n, b, g)
<1> USE DEF CanIterate
<1> DEFINE S == 0 .. n
           m == [i \in S |-> i]
           base == [i \in S |-> b]
           nx == [i \in S |-> i - 1]
           same == [x \in D |-> x]
           h == [i \in S |-> IF i = 0 THEN same ELSE g[i]]
<1>1. \A i \in S : i # 0 => i \in 1 .. n /\ i - 1 \in S /\ i - 1 < i
  OBVIOUS
<1>2. \A i \in 1 .. n : i \in S /\ i # 0
  OBVIOUS
<1>3. 0 \in S
  OBVIOUS
<1>4. same \in [D -> D]
  OBVIOUS
<1>5. h \in [S -> [D -> D]]
  <2> HIDE DEF same
  <2>1. ASSUME NEW i \in S
        PROVE  (IF i = 0 THEN same ELSE g[i]) \in [D -> D]
    BY <1>1, <1>4, Zenon
  <2> QED
    BY <2>1, Zenon
<1>6. m \in [S -> 0 .. n] /\ base \in [S -> D]
  BY Zenon
<1>7. \A i \in S : i # 0 => nx[i] \in S /\ m[nx[i]] < m[i]
  BY <1>1, Zenon
<1>8. \A i \in S : base[i] = b /\ (i # 0 => h[i] = g[i] /\ nx[i] = i - 1)
  BY Zenon
<1>9. Recursive(S, D, {0}, n, m, base, h, nx)
  BY <1>5, <1>6, <1>7, Zenon DEF Recursive
<1> HIDE DEF S, m, base, nx, h
<1>10. IsDefined(S, D, {0}, base, h, nx)
  BY <1>9, RecursionDefines, Zenon
<1>11. PICK f \in [S -> D] : \A i \in S : f[i] = IF i \in {0} THEN base[i] ELSE h[i][f[nx[i]]]
  BY <1>10 DEF IsDefined
<1>12. f[0] = b
  BY <1>3, <1>8, <1>11, Zenon
<1>13. ASSUME NEW i \in 1 .. n
       PROVE  f[i] = g[i][f[i - 1]]
  BY <1>2, <1>8, <1>11, Zenon
<1> QED
  BY <1>11, <1>12, <1>13, Zenon DEF Iterates, S

(* A function on 0 .. n that starts from b and goes on by g is of that kind. *)
LEMMA IteratesBySteps ==
  ASSUME NEW D, NEW n, NEW b, NEW g, CanIterate(D, n, b, g),
         NEW f, f = [i \in 0 .. n |-> f[i]], f[0] = b,
         \A i \in 1 .. n : f[i - 1] \in D => f[i] = g[i][f[i - 1]]
  PROVE  Iterates(f, D, n, b, g)
<1> USE DEF CanIterate
<1> DEFINE T == {i \in Nat : i <= n => f[i] \in D}
<1>1. 0 \in T
  BY Zenon
<1>2. ASSUME NEW i \in Nat, i \in T
      PROVE  i + 1 \in T
  <2>1. i + 1 \in Nat
    OBVIOUS
  <2> SUFFICES ASSUME i + 1 <= n PROVE f[i + 1] \in D
    BY <2>1, Zenon
  <2>2. i <= n /\ i + 1 \in 1 .. n /\ (i + 1) - 1 = i
    OBVIOUS
  <2>3. f[i] \in D
    BY <1>2, <2>2, Zenon
  <2>4. f[i + 1] = g[i + 1][f[i]] /\ g[i + 1] \in [D -> D]
    BY <2>2, <2>3, Zenon
  <2> QED
    BY <2>3, <2>4, Zenon
<1> HIDE DEF T
<1>3. \A i \in Nat : i \in T
  BY <1>1, <1>2, Induction, Zenon
<1>4. \A i \in 0 .. n : i \in Nat /\ i <= n
  OBVIOUS
<1>5. \A i \in 0 .. n : f[i] \in D
  BY <1>3, <1>4, Zenon DEF T
<1>6. f \in [0 .. n -> D]
  BY <1>5, Zenon
<1>7. \A i \in 1 .. n : i - 1 \in 0 .. n
  OBVIOUS
<1>8. \A i \in 1 .. n : f[i] = g[i][f[i - 1]]
  BY <1>5, <1>7, Zenon
<1> QED
  BY <1>6, <1>8, Zenon DEF Iterates

=============================================================================
