----------------------------- MODULE JuteProofs -----------------------------
(* Proofs about the records, for all values of all their fields: contents of any length,
   in vectors of any length. What is written is as long as size() says and is read back
   to its end, and what a client or a server writes is what the records write. *)
EXTENDS ZkProtocol, JuteRecords, SequenceLemmas, TLAPS

-----------------------------------------------------------------------------
(* Sums and concatenations *)

(* SumTo is what its recursive definition says. *)
LEMMA SumToIs ==
  ASSUME NEW ns \in Seq(Nat)
  PROVE  /\ SumTo(ns) \in [0 .. Len(ns) -> Nat]
         /\ SumTo(ns)[0] = 0
         /\ \A i \in 1 .. Len(ns) : SumTo(ns)[i] = SumTo(ns)[i - 1] + ns[i]
         /\ Total(ns) \in Nat
<1> DEFINE n == Len(ns)
           g == [i \in 1 .. n |-> [x \in Nat |-> x + ns[i]]]
           Eq(s) == [i \in 0 .. n |-> IF i = 0 THEN 0 ELSE s[i - 1] + ns[i]]
           F == SumTo(ns)
<1>1. n \in Nat /\ \A i \in 1 .. n : ns[i] \in Nat
  BY LenProperties, ElementOfSeq, Zenon
<1> HIDE DEF n
<1>2. \A i \in 1 .. n, x \in Nat : x + ns[i] \in Nat
  BY <1>1
<1>3. CanIterate(Nat, n, 0, g)
  BY <1>1, <1>2, Zenon DEF CanIterate
<1>4. \A i \in 1 .. n, x \in Nat : g[i][x] = x + ns[i]
  BY Zenon
<1>5. /\ \A i \in 1 .. n : i - 1 \in 0 .. n /\ i \in 0 .. n /\ i # 0
      /\ \A i \in 0 .. n : i # 0 => i \in 1 .. n /\ i - 1 \in 0 .. n
      /\ 0 \in 0 .. n /\ n \in 0 .. n
  BY <1>1
<1> HIDE DEF g
<1>6. PICK f : Iterates(f, Nat, n, 0, g)
  BY <1>3, IterationDefines, Zenon
<1>7. f = Eq(f)
  <2>1. f \in [0 .. n -> Nat] /\ f[0] = 0 /\ \A i \in 1 .. n : f[i] = g[i][f[i - 1]]
    BY <1>6, Zenon DEF Iterates
  <2>2. \A i \in 0 .. n : f[i] = IF i = 0 THEN 0 ELSE f[i - 1] + ns[i]
    BY <1>4, <1>5, <2>1, Zenon
  <2> QED
    BY <2>1, <2>2, Zenon
<1>8. F = CHOOSE s : s = Eq(s)
  BY Zenon DEF SumTo, n
<1>9. F = Eq(F)
  <2> HIDE DEF Eq, F
  <2> QED
    BY <1>7, <1>8, Zenon
<1> HIDE DEF F
<1>10. /\ F = [i \in 0 .. n |-> F[i]] /\ F[0] = 0
       /\ \A i \in 1 .. n : F[i - 1] \in Nat => F[i] = g[i][F[i - 1]]
  BY <1>4, <1>5, <1>9, Zenon
<1>11. Iterates(F, Nat, n, 0, g)
  BY <1>3, <1>10, IteratesBySteps, Zenon
<1>12. /\ F \in [0 .. n -> Nat] /\ F[0] = 0
       /\ \A i \in 1 .. n : F[i] = F[i - 1] + ns[i]
  BY <1>4, <1>5, <1>11, Zenon DEF Iterates
<1>13. F[n] \in Nat
  BY <1>5, <1>12, Zenon
<1> QED
  BY <1>12, <1>13, Zenon DEF F, n, Total

\* J holds the concatenations of the first 0, 1, ... of the sequences ss, and of all
Joins(J, S, ss) ==
  /\ J \in [0 .. Len(ss) -> Seq(S)]
  /\ J[0] = <<>>
  /\ \A i \in 1 .. Len(ss) : J[i] = J[i - 1] \o ss[i]
  /\ FlattenSeq(ss) = J[Len(ss)]

(* FlattenSeq concatenates the sequences one by one. *)
LEMMA FlattenIs ==
  ASSUME NEW S, NEW ss \in Seq(Seq(S))
  PROVE  /\ \E J : Joins(J, S, ss)
         /\ FlattenSeq(ss) \in Seq(S)
<1> DEFINE n == Len(ss)
           D == Seq(S)
           g == [i \in 1 .. n |-> [x \in D |-> x \o ss[i]]]
           Eq(s) == [i \in 1 .. n |-> IF i = 1 THEN ss[i] ELSE s[i - 1] \o ss[i]]
<1>1. n \in Nat /\ \A i \in 1 .. n : ss[i] \in D
  BY LenProperties, ElementOfSeq, Zenon
<1>2. n = 0 => ss = <<>>
  BY EmptySeq, Zenon
<1>3. \A x \in D : <<>> \o x = x
  BY ConcatEmptySeq, Zenon
<1>4. \A i \in 1 .. n, x \in D : x \o ss[i] \in D
  BY <1>1, ConcatProperties, Zenon
<1>5. <<>> \in D
  BY EmptyFacts, Zenon
<1>6. CanIterate(D, n, <<>>, g)
  BY <1>1, <1>4, <1>5, Zenon DEF CanIterate
<1>7. \A i \in 1 .. n, x \in D : g[i][x] = x \o ss[i]
  BY Zenon
<1> HIDE DEF g, D, n
<1>8. PICK f : Iterates(f, D, n, <<>>, g)
  BY <1>6, IterationDefines, Zenon
<1>9. /\ \A i \in 1 .. n : i - 1 \in 0 .. n /\ i \in 0 .. n
      /\ \A i \in 1 .. n : i # 1 => i - 1 \in 1 .. n
      /\ 1 - 1 = 0 /\ n \in 0 .. n /\ (n # 0 => n \in 1 .. n /\ 1 \in 1 .. n)
  BY <1>1
<1>10. /\ f \in [0 .. n -> D] /\ f[0] = <<>>
       /\ \A i \in 1 .. n : f[i] = f[i - 1] \o ss[i]
  BY <1>7, <1>8, <1>9, Zenon DEF Iterates
<1> DEFINE h == [i \in 1 .. n |-> f[i]]
<1>11. h = Eq(h)
  <2>1. ASSUME NEW i \in 1 .. n
        PROVE  f[i] = IF i = 1 THEN ss[i] ELSE h[i - 1] \o ss[i]
    <3>1. CASE i = 1
      <4>1. f[1] = f[0] \o ss[1]
        BY <1>9, <1>10, <3>1, Zenon
      <4> QED
        BY <1>1, <1>3, <1>10, <3>1, <4>1, Zenon
    <3>2. CASE i # 1
      BY <1>9, <1>10, <3>2, Zenon
    <3> QED
      BY <3>1, <3>2, Zenon
  <2> QED
    BY <2>1, Zenon
<1> DEFINE F == CHOOSE s : s = Eq(s)
<1>12. F = Eq(F)
  <2> HIDE DEF Eq, h
  <2> QED
    BY <1>11, Zenon
<1> HIDE DEF F
<1>13. \A i \in 1 .. n : F[i] = IF i = 1 THEN ss[i] ELSE F[i - 1] \o ss[i]
  BY <1>12, Zenon
<1> DEFINE T == {i \in 0 .. n : i # 0 => F[i] = f[i]}
<1>14. ASSUME NEW i \in 1 .. n, i - 1 \in T
       PROVE  i \in T
  <2>1. CASE i = 1
    <3>1. f[1] = f[0] \o ss[1] /\ F[1] = ss[1]
      BY <1>9, <1>10, <1>13, <2>1, Zenon
    <3> QED
      BY <1>1, <1>3, <1>9, <1>10, <2>1, <3>1, Zenon
  <2>2. CASE i # 1
    <3>1. i - 1 # 0
      BY <1>1, <2>2
    <3>2. F[i - 1] = f[i - 1]
      BY <1>14, <3>1, Zenon
    <3> QED
      BY <1>9, <1>10, <1>13, <2>2, <3>2, Zenon
  <2> QED
    BY <2>1, <2>2, Zenon
<1>15. 0 \in T
  BY <1>1
<1> HIDE DEF T
<1>16. n \in T
  BY <1>1, <1>9, <1>14, <1>15, InductionTo, Zenon
<1>17. FlattenSeq(ss) = f[n]
  <2>1. CASE n = 0
    BY <1>2, <1>10, <2>1, Zenon DEF FlattenSeq, n
  <2>2. CASE n # 0
    <3>1. F[n] = f[n]
      BY <1>16, <2>2, Zenon DEF T
    <3>2. FlattenSeq(ss) = F[n]
      BY <2>2, Zenon DEF FlattenSeq, n, F
    <3> QED
      BY <3>1, <3>2, Zenon
  <2> QED
    BY <2>1, <2>2, Zenon
<1>18. Joins(f, S, ss)
  BY <1>10, <1>17, Zenon DEF Joins, n, D
<1>19. f[n] \in D
  BY <1>9, <1>10, Zenon
<1> QED
  BY <1>17, <1>18, <1>19, Zenon DEF D

\* What is left in front of each of the sequences ss, and behind the last one
Chain(suf, S, ss) ==
  /\ suf \in [0 .. Len(ss) -> Seq(S)]
  /\ \A i \in 1 .. Len(ss) : suf[i - 1] = ss[i] \o suf[i]

(* What is left in front of the first is all of them and what is left behind the last. *)
LEMMA ChainIsFlat ==
  ASSUME NEW S, NEW ss \in Seq(Seq(S)), NEW suf, Chain(suf, S, ss)
  PROVE  suf[0] = FlattenSeq(ss) \o suf[Len(ss)]
<1> USE DEF Chain
<1> DEFINE n == Len(ss)
<1>1. PICK J : Joins(J, S, ss)
  BY FlattenIs, Zenon
<1>2. /\ J \in [0 .. n -> Seq(S)] /\ J[0] = <<>> /\ FlattenSeq(ss) = J[n]
      /\ \A i \in 1 .. n : J[i] = J[i - 1] \o ss[i]
  BY <1>1, Zenon DEF Joins
<1>3. n \in Nat /\ \A i \in 1 .. n : ss[i] \in Seq(S)
  BY LenProperties, ElementOfSeq, Zenon
<1> HIDE DEF n
<1>4. /\ \A i \in 1 .. n : i - 1 \in 0 .. n /\ i \in 0 .. n
      /\ 0 \in 0 .. n /\ n \in 0 .. n
  BY <1>3
<1> DEFINE T == {i \in 0 .. n : suf[0] = J[i] \o suf[i]}
<1>5. 0 \in T
  BY <1>2, <1>4, ConcatEmptySeq, Zenon DEF n
<1>6. ASSUME NEW i \in 1 .. n, i - 1 \in T
      PROVE  i \in T
  <2> DEFINE a == J[i - 1]
             b == ss[i]
             c == suf[i]
  <2>1. a \in Seq(S) /\ b \in Seq(S) /\ c \in Seq(S)
    BY <1>2, <1>3, <1>4, Zenon DEF n
  <2>2. suf[0] = a \o (b \o c) /\ J[i] = a \o b
    BY <1>2, <1>6, Zenon DEF n
  <2> HIDE DEF a, b, c
  <2>3. (a \o b) \o c = a \o (b \o c)
    BY <2>1, ConcatAssociative
  <2> QED
    BY <1>4, <2>2, <2>3, Zenon DEF c
<1> HIDE DEF T
<1>7. n \in T
  BY <1>3, <1>4, <1>5, <1>6, InductionTo, Zenon
<1> QED
  BY <1>2, <1>7, Zenon DEF T, n

(* Such a chain exists for whatever is left behind the last. *)
LEMMA ChainExists ==
  ASSUME NEW S, NEW ss \in Seq(Seq(S)), NEW rest \in Seq(S)
  PROVE  \E suf : Chain(suf, S, ss) /\ suf[Len(ss)] = rest
<1> DEFINE n == Len(ss)
           D == Seq(S)
           g == [k \in 1 .. n |-> [x \in D |-> ss[n - k + 1] \o x]]
<1>1. n \in Nat /\ \A i \in 1 .. n : ss[i] \in D
  BY LenProperties, ElementOfSeq, Zenon
<1> HIDE DEF n
<1>2. \A k \in 1 .. n : n - k + 1 \in 1 .. n
  BY <1>1
<1>3. \A k \in 1 .. n, x \in D : ss[n - k + 1] \o x \in D
  BY <1>1, <1>2, ConcatProperties, Zenon
<1>4. CanIterate(D, n, rest, g)
  BY <1>1, <1>3, Zenon DEF CanIterate
<1>5. \A k \in 1 .. n, x \in D : g[k][x] = ss[n - k + 1] \o x
  BY Zenon
<1> HIDE DEF g
<1>6. PICK f : Iterates(f, D, n, rest, g)
  BY <1>4, IterationDefines, Zenon
<1> DEFINE suf == [i \in 0 .. n |-> f[n - i]]
<1>7. /\ \A i \in 0 .. n : n - i \in 0 .. n
      /\ \A i \in 1 .. n : /\ n - (i - 1) \in 1 .. n /\ (n - (i - 1)) - 1 = n - i
                           /\ n - (n - (i - 1)) + 1 = i /\ i - 1 \in 0 .. n /\ i \in 0 .. n
                           /\ n - i \in 0 .. n
      /\ n - n = 0 /\ n \in 0 .. n
  BY <1>1
<1>8. suf \in [0 .. n -> D] /\ suf[n] = rest
  BY <1>6, <1>7, Zenon DEF Iterates
<1>9. ASSUME NEW i \in 1 .. n
      PROVE  suf[i - 1] = ss[i] \o suf[i]
  <2> DEFINE k == n - (i - 1)
  <2>1. k \in 1 .. n /\ k - 1 = n - i /\ n - k + 1 = i /\ n - i \in 0 .. n
    BY <1>7, Zenon
  <2>2. suf[i - 1] = f[k] /\ suf[i] = f[n - i]
    BY <1>7, Zenon
  <2> HIDE DEF k, suf
  <2>3. f[k] = g[k][f[n - i]] /\ f[n - i] \in D
    BY <1>6, <2>1, Zenon DEF Iterates
  <2> QED
    BY <1>5, <2>1, <2>2, <2>3, Zenon
<1> HIDE DEF suf
<1> QED
  BY <1>8, <1>9, Zenon DEF Chain, n, D

(* Sums of sums. *)
LEMMA TotalOfSums ==
  ASSUME NEW n \in Nat, NEW a \in [1 .. n -> Nat], NEW b \in [1 .. n -> Nat]
  PROVE  Total([i \in 1 .. n |-> a[i] + b[i]]) = Total(a) + Total(b)
<1> DEFINE c == [i \in 1 .. n |-> a[i] + b[i]]
<1>1. a \in Seq(Nat) /\ Len(a) = n /\ b \in Seq(Nat) /\ Len(b) = n
  BY SeqDef
<1>2. c \in [1 .. n -> Nat] /\ \A i \in 1 .. n : c[i] = a[i] + b[i] /\ a[i] \in Nat
        /\ b[i] \in Nat
  OBVIOUS
<1> HIDE DEF c
<1>3. c \in Seq(Nat) /\ Len(c) = n
  BY <1>2, SeqDef
<1> DEFINE A == SumTo(a)
           B == SumTo(b)
           C == SumTo(c)
<1>4. /\ A \in [0 .. n -> Nat] /\ A[0] = 0 /\ \A i \in 1 .. n : A[i] = A[i - 1] + a[i]
      /\ B \in [0 .. n -> Nat] /\ B[0] = 0 /\ \A i \in 1 .. n : B[i] = B[i - 1] + b[i]
      /\ C \in [0 .. n -> Nat] /\ C[0] = 0 /\ \A i \in 1 .. n : C[i] = C[i - 1] + c[i]
  BY <1>1, <1>3, SumToIs, Zenon
<1>5. Total(a) = A[n] /\ Total(b) = B[n] /\ Total(c) = C[n]
  BY <1>1, <1>3, Zenon DEF Total
<1> HIDE DEF A, B, C
<1> DEFINE T == {i \in 0 .. n : C[i] = A[i] + B[i]}
<1>6. 0 \in T
  BY <1>4
<1>7. ASSUME NEW i \in 1 .. n, i - 1 \in T
      PROVE  i \in T
  <2>1. i - 1 \in 0 .. n /\ i \in 0 .. n
    OBVIOUS
  <2>2. A[i - 1] \in Nat /\ B[i - 1] \in Nat /\ C[i - 1] = A[i - 1] + B[i - 1]
    BY <1>4, <1>7, <2>1, Zenon
  <2>3. /\ C[i] = C[i - 1] + c[i] /\ A[i] = A[i - 1] + a[i] /\ B[i] = B[i - 1] + b[i]
        /\ c[i] = a[i] + b[i] /\ a[i] \in Nat /\ b[i] \in Nat
    BY <1>2, <1>4, Zenon
  <2>4. C[i] = A[i] + B[i]
    BY <2>2, <2>3
  <2> QED
    BY <2>1, <2>4, Zenon
<1> HIDE DEF T
<1>8. n \in T
  <2>1. n \in 0 .. n
    OBVIOUS
  <2> QED
    BY <1>6, <1>7, <2>1, InductionTo, Zenon
<1> QED
  BY <1>5, <1>8, Zenon DEF T, c

(* The sum over a concatenation. *)
LEMMA TotalOfConcat ==
  ASSUME NEW a \in Seq(Nat), NEW b \in Seq(Nat)
  PROVE  Total(a \o b) = Total(a) + Total(b)
<1> DEFINE c == a \o b
           m == Len(a)
           n == Len(b)
           A == SumTo(a)
           B == SumTo(b)
           C == SumTo(c)
<1>1. /\ c \in Seq(Nat) /\ Len(c) = m + n
      /\ \A i \in 1 .. m + n : c[i] = IF i <= m THEN a[i] ELSE b[i - m]
  BY ConcatProperties, Zenon
<1>2. /\ m \in Nat /\ n \in Nat
      /\ \A i \in 1 .. m : a[i] \in Nat
      /\ \A i \in 1 .. n : b[i] \in Nat
  BY LenProperties, ElementOfSeq, Zenon
<1> HIDE DEF c, m, n
<1>3. /\ \A i \in 1 .. m : c[i] = a[i]
      /\ \A i \in 1 .. n : c[m + i] = b[i]
  <2>1. \A i \in 1 .. m : i \in 1 .. m + n /\ i <= m
    BY <1>2
  <2>2. \A i \in 1 .. n : m + i \in 1 .. m + n /\ ~(m + i <= m) /\ (m + i) - m = i
    BY <1>2
  <2> QED
    BY <1>1, <2>1, <2>2, Zenon
<1>4. /\ A \in [0 .. m -> Nat] /\ A[0] = 0 /\ \A i \in 1 .. m : A[i] = A[i - 1] + a[i]
      /\ B \in [0 .. n -> Nat] /\ B[0] = 0 /\ \A i \in 1 .. n : B[i] = B[i - 1] + b[i]
  BY SumToIs, Zenon DEF m, n
<1>5. C \in [0 .. m + n -> Nat] /\ C[0] = 0 /\ \A i \in 1 .. m + n : C[i] = C[i - 1] + c[i]
  BY <1>1, SumToIs, Zenon
<1>6. Total(a) = A[m] /\ Total(b) = B[n] /\ Total(c) = C[m + n]
  BY <1>1, Zenon DEF Total, m, n
<1> HIDE DEF A, B, C
<1> DEFINE T == {i \in 0 .. m : C[i] = A[i]}
<1>7. 0 \in T
  BY <1>2, <1>4, <1>5
<1>8. ASSUME NEW i \in 1 .. m, i - 1 \in T
      PROVE  i \in T
  <2>1. i - 1 \in 0 .. m /\ i \in 0 .. m /\ i \in 1 .. m + n
    BY <1>2
  <2>2. C[i] = C[i - 1] + c[i] /\ C[i - 1] = A[i - 1] /\ A[i] = A[i - 1] + a[i] /\ c[i] = a[i]
    BY <1>3, <1>4, <1>5, <1>8, <2>1, Zenon
  <2> QED
    BY <2>1, <2>2, Zenon
<1> HIDE DEF T
<1>9. m \in T
  <2>1. m \in 0 .. m
    BY <1>2
  <2> QED
    BY <1>2, <1>7, <1>8, <2>1, InductionTo, Zenon
<1> DEFINE U == {i \in 0 .. n : C[m + i] = A[m] + B[i]}
<1>10. 0 \in U
  <2>1. C[m] = A[m] /\ m \in 0 .. m /\ m + 0 = m /\ 0 \in 0 .. n
    BY <1>2, <1>9 DEF T
  <2>2. A[m] \in Nat
    BY <1>4, <2>1, Zenon
  <2>3. A[m] + 0 = A[m]
    BY <2>2
  <2> QED
    BY <1>4, <2>1, <2>3, Zenon
<1>11. ASSUME NEW i \in 1 .. n, i - 1 \in U
       PROVE  i \in U
  <2>1. /\ i - 1 \in 0 .. n /\ i \in 0 .. n /\ m + i \in 1 .. m + n
        /\ (m + i) - 1 = m + (i - 1) /\ m \in 0 .. m
    BY <1>2
  <2>2. /\ C[m + i] = C[m + (i - 1)] + c[m + i] /\ c[m + i] = b[i] /\ B[i] = B[i - 1] + b[i]
        /\ C[m + (i - 1)] = A[m] + B[i - 1]
    BY <1>3, <1>4, <1>5, <1>11, <2>1, Zenon
  <2>3. A[m] \in Nat /\ B[i - 1] \in Nat /\ b[i] \in Nat
    BY <1>2, <1>4, <2>1, Zenon
  <2>4. C[m + i] = A[m] + B[i]
    BY <2>2, <2>3
  <2> QED
    BY <2>1, <2>4, Zenon
<1> HIDE DEF U
<1>12. n \in U
  <2>1. n \in 0 .. n
    BY <1>2
  <2> QED
    BY <1>2, <1>10, <1>11, <2>1, InductionTo, Zenon
<1> QED
  BY <1>6, <1>12, Zenon DEF U, c

\* The widths of tokens
Widths(toks) == [i \in DOMAIN toks |-> toks[i].w]

(* They are numbers, and Width adds them up. *)
LEMMA WidthsAre ==
  ASSUME NEW toks \in Seq(Tokens)
  PROVE  /\ Widths(toks) \in Seq(Nat) /\ Len(Widths(toks)) = Len(toks)
         /\ \A i \in 1 .. Len(toks) : Widths(toks)[i] = toks[i].w
         /\ Width(toks) = Total(Widths(toks)) /\ Width(toks) \in Nat
<1>1. Len(toks) \in Nat /\ DOMAIN toks = 1 .. Len(toks)
  BY LenProperties, Zenon
<1>2. \A i \in 1 .. Len(toks) : toks[i].w \in Nat
  <2>1. \A i \in 1 .. Len(toks) : toks[i] \in Tokens
    BY ElementOfSeq, Zenon
  <2> QED
    BY <2>1 DEF Tokens
<1>3. Widths(toks) \in [1 .. Len(toks) -> Nat]
  BY <1>1, <1>2, Zenon DEF Widths
<1>4. Widths(toks) \in Seq(Nat) /\ Len(Widths(toks)) = Len(toks)
  BY <1>1, <1>3, SeqDef
<1>5. \A i \in 1 .. Len(toks) : Widths(toks)[i] = toks[i].w
  BY <1>1, Zenon DEF Widths
<1>6. Width(toks) = Total(Widths(toks))
  BY Zenon DEF Width, Widths
<1>7. Total(Widths(toks)) \in Nat
  BY <1>4, SumToIs, Zenon
<1> QED
  BY <1>4, <1>5, <1>6, <1>7, Zenon

(* The width of a concatenation. *)
LEMMA WidthOfConcat ==
  ASSUME NEW s \in Seq(Tokens), NEW t \in Seq(Tokens)
  PROVE  /\ Width(s \o t) = Width(s) + Width(t)
         /\ s \o t \in Seq(Tokens) /\ Width(s) \in Nat /\ Width(t) \in Nat
<1> DEFINE c == s \o t
           a == Widths(s)
           b == Widths(t)
           m == Len(s)
           n == Len(t)
<1>1. /\ c \in Seq(Tokens) /\ Len(c) = m + n
      /\ \A i \in 1 .. m + n : c[i] = IF i <= m THEN s[i] ELSE t[i - m]
  BY ConcatProperties, Zenon
<1>2. m \in Nat /\ n \in Nat
  BY LenProperties, Zenon
<1>3. /\ a \in Seq(Nat) /\ Len(a) = m /\ \A i \in 1 .. m : a[i] = s[i].w
      /\ b \in Seq(Nat) /\ Len(b) = n /\ \A i \in 1 .. n : b[i] = t[i].w
      /\ Width(s) = Total(a) /\ Width(t) = Total(b) /\ Width(s) \in Nat /\ Width(t) \in Nat
  BY WidthsAre, Zenon
<1>4. /\ Widths(c) \in Seq(Nat) /\ Len(Widths(c)) = m + n
      /\ \A i \in 1 .. m + n : Widths(c)[i] = c[i].w
      /\ Width(c) = Total(Widths(c))
  BY <1>1, WidthsAre, Zenon
<1> DEFINE d == a \o b
<1> HIDE DEF a, b, m, n
<1>5. /\ d \in Seq(Nat) /\ Len(d) = m + n
      /\ \A i \in 1 .. m + n : d[i] = IF i <= m THEN a[i] ELSE b[i - m]
  BY <1>3, ConcatProperties, Zenon
<1> HIDE DEF c, d
<1>6. ASSUME NEW i \in 1 .. m + n
      PROVE  Widths(c)[i] = d[i]
  <2>1. CASE i <= m
    <3>1. i \in 1 .. m
      BY <1>2, <2>1
    <3> QED
      BY <1>1, <1>3, <1>4, <1>5, <2>1, <3>1, ZenonT(40)
  <2>2. CASE ~(i <= m)
    <3>1. i - m \in 1 .. n
      BY <1>2, <2>2
    <3> QED
      BY <1>1, <1>3, <1>4, <1>5, <2>2, <3>1, ZenonT(40)
  <2> QED
    BY <2>1, <2>2, Zenon
<1>7. Widths(c) = d
  BY <1>4, <1>5, <1>6, SeqEqual, Zenon
<1>8. Total(d) = Total(a) + Total(b)
  BY <1>3, TotalOfConcat, Zenon DEF d
<1> QED
  BY <1>1, <1>3, <1>4, <1>7, <1>8, Zenon DEF c

(* No token is no bytes wide, and a sequence is at least as wide as its first token. *)
LEMMA WidthOfFew ==
  /\ Width(<<>>) = 0
  /\ \A t \in Tokens : Width(<<t>>) = t.w /\ <<t>> \in Seq(Tokens) /\ t.w \in Nat \ {0}
     /\ t.v \in Int
  /\ \A s \in Seq(Tokens) :
       s # <<>> => /\ s = <<Head(s)>> \o Tail(s) /\ Head(s) \in Tokens /\ Head(s) = s[1]
                   /\ Tail(s) \in Seq(Tokens) /\ Width(Tail(s)) \in Nat
                   /\ Width(s) = Head(s).w + Width(Tail(s))
<1>1. Width(<<>>) = 0
  <2>1. <<>> \in Seq(Tokens) /\ <<>> \in Seq(Nat) /\ Len(<<>>) = 0 /\ DOMAIN <<>> = {}
    BY EmptyFacts, Zenon
  <2>2. Widths(<<>>) \in Seq(Nat) /\ Len(Widths(<<>>)) = 0 /\ Width(<<>>) = Total(Widths(<<>>))
    BY <2>1, WidthsAre, Zenon
  <2>3. SumTo(Widths(<<>>))[0] = 0
    BY <2>2, SumToIs, Zenon
  <2> QED
    BY <2>2, <2>3, Zenon DEF Total
<1>2. ASSUME NEW t \in Tokens
      PROVE  Width(<<t>>) = t.w /\ <<t>> \in Seq(Tokens) /\ t.w \in Nat \ {0} /\ t.v \in Int
  <2> DEFINE s == <<t>>
  <2>1. s \in Seq(Tokens) /\ Len(s) = 1 /\ s[1] = t
    OBVIOUS
  <2>2. t.w \in Nat \ {0} /\ t.v \in Int
    BY DEF Tokens
  <2> HIDE DEF s
  <2>3. /\ Widths(s) \in Seq(Nat) /\ Len(Widths(s)) = 1 /\ Width(s) = Total(Widths(s))
        /\ 1 \in 1 .. 1 /\ Widths(s)[1] = t.w
    <3>1. 1 \in 1 .. 1
      OBVIOUS
    <3> QED
      BY <2>1, <3>1, WidthsAre, Zenon
  <2> DEFINE W == SumTo(Widths(s))
  <2>4. W[0] = 0 /\ W[1] = W[1 - 1] + Widths(s)[1]
    BY <2>3, SumToIs, Zenon
  <2>5. Total(Widths(s)) = W[1]
    BY <2>3, Zenon DEF Total
  <2> HIDE DEF W
  <2>6. Width(s) = t.w
    BY <2>2, <2>3, <2>4, <2>5
  <2> QED
    BY <2>1, <2>2, <2>6, Zenon DEF s
<1>3. ASSUME NEW s \in Seq(Tokens), s # <<>>
      PROVE  /\ s = <<Head(s)>> \o Tail(s) /\ Head(s) \in Tokens /\ Head(s) = s[1]
             /\ Tail(s) \in Seq(Tokens) /\ Width(Tail(s)) \in Nat
             /\ Width(s) = Head(s).w + Width(Tail(s))
  <2> DEFINE h == Head(s)
             t == Tail(s)
             n == Len(s)
  <2>1. /\ t \in Seq(Tokens) /\ Len(t) = n - 1 /\ h = s[1] /\ h \in Tokens /\ n \in Nat /\ n > 0
        /\ \A i \in 1 .. n - 1 : t[i] = s[i + 1]
    BY <1>3, Tailed
  <2> DEFINE c == <<h>> \o t
  <2> HIDE DEF h, t
  <2>2. /\ c \in Seq(Tokens) /\ Len(c) = 1 + Len(t) /\ c[1] = h
        /\ \A j \in 1 .. Len(t) : c[1 + j] = t[j]
    BY <2>1, Prepended
  <2> HIDE DEF c, n
  <2>3. Len(c) = n
    BY <2>1, <2>2
  <2>4. ASSUME NEW i \in 1 .. n
        PROVE  c[i] = s[i]
    <3>1. CASE i = 1
      BY <2>1, <2>2, <3>1, Zenon
    <3>2. CASE i # 1
      <4>1. i - 1 \in 1 .. n - 1 /\ 1 + (i - 1) = i /\ (i - 1) + 1 = i /\ i - 1 \in 1 .. Len(t)
        BY <2>1, <3>2
      <4> QED
        BY <2>1, <2>2, <4>1, Zenon
    <3> QED
      BY <3>1, <3>2, Zenon
  <2>5. c = s
    BY <2>2, <2>3, <2>4, SeqEqual, Zenon DEF n
  <2>6. Width(<<h>> \o t) = Width(<<h>>) + Width(t) /\ Width(t) \in Nat /\ Width(<<h>>) = h.w
    BY <1>2, <2>1, WidthOfConcat, Zenon
  <2> QED
    BY <2>1, <2>5, <2>6, Zenon DEF c, h, t
<1> QED
  BY <1>1, <1>2, <1>3, Zenon

(* The width of many sequences is the sum of their widths. *)
LEMMA WidthOfFlat ==
  ASSUME NEW n \in Nat, NEW ss \in [1 .. n -> Seq(Tokens)]
  PROVE  /\ Width(FlattenSeq(ss)) = Total([i \in 1 .. n |-> Width(ss[i])])
         /\ FlattenSeq(ss) \in Seq(Tokens)
<1> DEFINE ws == [i \in 1 .. n |-> Width(ss[i])]
           W == SumTo(ws)
<1>1. ss \in Seq(Seq(Tokens)) /\ Len(ss) = n
  BY SeqDef
<1>2. ws \in [1 .. n -> Nat] /\ \A i \in 1 .. n : ws[i] = Width(ss[i]) /\ ss[i] \in Seq(Tokens)
  BY WidthsAre, Zenon
<1> HIDE DEF ws
<1>3. ws \in Seq(Nat) /\ Len(ws) = n
  BY <1>2, SeqDef
<1>4. W[0] = 0 /\ \A i \in 1 .. n : W[i] = W[i - 1] + ws[i]
  BY <1>3, SumToIs, Zenon
<1>5. Total(ws) = W[n]
  BY <1>3, Zenon DEF Total
<1> HIDE DEF W
<1>6. PICK J : Joins(J, Tokens, ss)
  BY <1>1, FlattenIs, Zenon
<1>7. /\ J \in [0 .. n -> Seq(Tokens)] /\ J[0] = <<>> /\ FlattenSeq(ss) = J[n]
      /\ \A i \in 1 .. n : J[i] = J[i - 1] \o ss[i]
  BY <1>1, <1>6, Zenon DEF Joins
<1>8. \A i \in 1 .. n : i - 1 \in 0 .. n /\ i \in 0 .. n
  OBVIOUS
<1>9. 0 \in 0 .. n /\ n \in 0 .. n
  OBVIOUS
<1> DEFINE T == {i \in 0 .. n : Width(J[i]) = W[i]}
<1>10. 0 \in T
  BY <1>4, <1>7, <1>9, WidthOfFew, Zenon
<1>11. ASSUME NEW i \in 1 .. n, i - 1 \in T
       PROVE  i \in T
  <2>1. Width(J[i - 1] \o ss[i]) = Width(J[i - 1]) + Width(ss[i])
    BY <1>2, <1>7, <1>8, WidthOfConcat, Zenon
  <2> QED
    BY <1>2, <1>4, <1>7, <1>8, <1>11, <2>1, Zenon
<1> HIDE DEF T
<1>12. n \in T
  BY <1>9, <1>10, <1>11, InductionTo, Zenon
<1>13. J[n] \in Seq(Tokens)
  BY <1>7, <1>9, Zenon
<1> QED
  BY <1>5, <1>7, <1>12, <1>13, Zenon DEF T, ws

-----------------------------------------------------------------------------
(* Readers. A reader r that takes one value more is g, and put[v] are the tokens in which
   the value v is written. *)

Outcomes == {"ok", "err", "panic", "abort", "misread"}
ReadersOf(V) == [st : Outcomes, val : Seq(V), rest : Seq(Tokens)]
IsPut(put, V) == put \in [DOMAIN put -> Seq(Tokens)] /\ DOMAIN put \subseteq V

(* What a reader is made of, and what it becomes. *)
LEMMA ReaderIs ==
  ASSUME NEW V, NEW r \in ReadersOf(V)
  PROVE  /\ r.st \in Outcomes /\ r.val \in Seq(V) /\ r.rest \in Seq(Tokens)
         /\ r = [st |-> r.st, val |-> r.val, rest |-> r.rest]
         /\ \A how : Stop(r, how) = [st |-> how, val |-> r.val, rest |-> r.rest]
         /\ \A val : [r EXCEPT !.val = val] = [st |-> r.st, val |-> val, rest |-> r.rest]
<1>1. r.st \in Outcomes /\ r.val \in Seq(V) /\ r.rest \in Seq(Tokens)
  BY DEF ReadersOf
<1>2. r = [st |-> r.st, val |-> r.val, rest |-> r.rest]
  BY DEF ReadersOf
<1>4. \A how : Stop(r, how) = [st |-> how, val |-> r.val, rest |-> r.rest]
  BY DEF ReadersOf, Stop
<1>5. \A val : [r EXCEPT !.val = val] = [st |-> r.st, val |-> val, rest |-> r.rest]
  BY DEF ReadersOf
<1> QED
  BY <1>1, <1>2, <1>4, <1>5, Zenon

\* What was taken is a value, written just so
Takes(r, g, put) ==
  g.st = "ok" =>
    /\ r.st = "ok"
    /\ \E v \in DOMAIN put : g.val = Append(r.val, v) /\ r.rest = put[v] \o g.rest

\* A value that was written is taken, whatever follows it
TakesBack(r, g, put) ==
  \A v \in DOMAIN put, rest \in Seq(Tokens) :
    r.st = "ok" /\ r.rest = put[v] \o rest => g = Got(r, v, rest)

\* The same for a reader that starts on toks with nothing read
Decodes(toks, g, put) ==
  g.st = "ok" => g.val \in DOMAIN put /\ toks = put[g.val] \o g.rest
DecodesBack(toks, g, put) ==
  \A v \in DOMAIN put, rest \in Seq(Tokens) :
    toks = put[v] \o rest => g = [st |-> "ok", val |-> v, rest |-> rest]

\* One value after the other
AllRows(V, n, puts) == {val \in Seq(V) : Len(val) = n /\ \A i \in 1 .. n : val[i] \in DOMAIN puts[i]}
PutEach(n, puts, val) == [i \in 1 .. n |-> puts[i][val[i]]]
PutAll(V, n, puts) == [val \in AllRows(V, n, puts) |-> FlattenSeq(PutEach(n, puts, val))]

\* after[i] is a reader that has taken i values
IsReading(after, V, n, puts) ==
  /\ n \in Nat
  /\ after \in [0 .. n -> ReadersOf(V)]
  /\ after[0].st = "ok" /\ after[0].val = <<>>
  /\ \A i \in 1 .. n : IsPut(puts[i], V)

\* ss are the tokens of each of the values val
PutsEach(ss, V, n, puts, val) ==
  /\ ss \in [1 .. n -> Seq(Tokens)]
  /\ ss \in Seq(Seq(Tokens))
  /\ Len(ss) = n
  /\ \A i \in 1 .. n : ss[i] = puts[i][val[i]]
  /\ PutAll(V, n, puts)[val] = FlattenSeq(ss)
  /\ PutAll(V, n, puts)[val] \in Seq(Tokens)

(* Several values are written in as many sequences of tokens, one for each. *)
LEMMA PutEachIs ==
  ASSUME NEW V, NEW n \in Nat, NEW puts, \A i \in 1 .. n : IsPut(puts[i], V),
         NEW val \in AllRows(V, n, puts)
  PROVE  PutsEach(PutEach(n, puts, val), V, n, puts, val)
<1> DEFINE ss == PutEach(n, puts, val)
<1>1. \A i \in 1 .. n : puts[i][val[i]] \in Seq(Tokens)
  BY Zenon DEF IsPut, AllRows
<1>2. ss \in [1 .. n -> Seq(Tokens)] /\ \A i \in 1 .. n : ss[i] = puts[i][val[i]]
  BY <1>1, Zenon DEF PutEach
<1> HIDE DEF ss
<1>3. ss \in Seq(Seq(Tokens)) /\ Len(ss) = n
  BY <1>2, SeqDef
<1>4. FlattenSeq(ss) \in Seq(Tokens)
  BY <1>3, FlattenIs, Zenon
<1>5. PutAll(V, n, puts)[val] = FlattenSeq(ss)
  BY Zenon DEF PutAll, ss
<1> QED
  BY <1>2, <1>3, <1>4, <1>5, Zenon DEF ss, PutsEach

(* Several values are written as one. *)
LEMMA PutAllIs ==
  ASSUME NEW V, NEW n \in Nat, NEW puts, \A i \in 1 .. n : IsPut(puts[i], V)
  PROVE  /\ IsPut(PutAll(V, n, puts), Seq(V))
         /\ DOMAIN PutAll(V, n, puts) = AllRows(V, n, puts)
<1> DEFINE P == PutAll(V, n, puts)
<1>1. \A val \in AllRows(V, n, puts) : P[val] \in Seq(Tokens)
  BY PutEachIs, Zenon DEF PutsEach
<1>2. DOMAIN P = AllRows(V, n, puts) /\ P = [val \in AllRows(V, n, puts) |-> P[val]]
  BY Zenon DEF PutAll
<1>3. AllRows(V, n, puts) \subseteq Seq(V)
  BY Zenon DEF AllRows
<1> HIDE DEF P
<1>4. IsPut(P, Seq(V))
  BY <1>1, <1>2, <1>3, Zenon DEF IsPut
<1> QED
  BY <1>2, <1>4, Zenon DEF P

(* Values that are taken one after the other are written one after the other. *)
LEMMA ReadingDecodes ==
  ASSUME NEW V, NEW n, NEW puts, NEW after, IsReading(after, V, n, puts),
         \A i \in 1 .. n : Takes(after[i - 1], after[i], puts[i])
  PROVE  Decodes(after[0].rest, after[n], PutAll(V, n, puts))
<1> USE DEF IsReading
<1> SUFFICES ASSUME after[n].st = "ok"
             PROVE  /\ after[n].val \in DOMAIN PutAll(V, n, puts)
                    /\ after[0].rest = PutAll(V, n, puts)[after[n].val] \o after[n].rest
  BY Zenon DEF Decodes
<1>1. /\ \A i \in 1 .. n : i - 1 \in 0 .. n /\ i \in 0 .. n
      /\ 0 \in 0 .. n /\ n \in 0 .. n /\ n - 0 = n
      /\ \A i \in 0 .. n : n - i \in 0 .. n /\ n - (n - i) = i
      /\ \A i \in 1 .. n : n - (i - 1) \in 1 .. n /\ (n - (i - 1)) - 1 = n - i
  OBVIOUS
<1>2. ASSUME NEW i \in 0 .. n
      PROVE  after[i].st = "ok"
  <2> DEFINE T == {k \in 0 .. n : after[n - k].st = "ok"}
  <2>1. 0 \in T
    BY <1>1, Zenon
  <2>2. ASSUME NEW k \in 1 .. n, k - 1 \in T
        PROVE  k \in T
    <3>1. after[n - (k - 1)].st = "ok"
      BY <2>2, Zenon
    <3>2. after[n - k].st = "ok"
      BY <1>1, <3>1, Zenon DEF Takes
    <3> QED
      BY <1>1, <3>2, Zenon
  <2> HIDE DEF T
  <2>3. \A k \in 0 .. n : k \in T
    BY <2>1, <2>2, InductionTo, Zenon
  <2>4. n - i \in T
    BY <1>1, <2>3, Zenon
  <2> QED
    BY <1>1, <2>4, Zenon DEF T
<1>3. \A i \in 0 .. n : after[i].val \in Seq(V) /\ after[i].rest \in Seq(Tokens)
  <2>1. \A i \in 0 .. n : after[i] \in ReadersOf(V)
    BY Zenon
  <2> QED
    BY <2>1 DEF ReadersOf
<1>4. \A i \in 1 .. n : \E v \in DOMAIN puts[i] :
        after[i].val = Append(after[i - 1].val, v)
          /\ after[i - 1].rest = puts[i][v] \o after[i].rest
  BY <1>1, <1>2, Zenon DEF Takes
<1> DEFINE T == {j \in 0 .. n : /\ Len(after[j].val) = j
                                /\ \A i \in 1 .. j : after[j].val[i] = after[i].val[i]}
<1>5. 0 \in T
  <2>1. Len(after[0].val) = 0 /\ 1 .. 0 = {}
    BY EmptyFacts
  <2> QED
    BY <1>1, <2>1, Zenon
<1>6. ASSUME NEW j \in 1 .. n, j - 1 \in T
      PROVE  j \in T
  <2>1. PICK v \in DOMAIN puts[j] : after[j].val = Append(after[j - 1].val, v)
    BY <1>4, Zenon
  <2>2. v \in V
    BY <2>1, Zenon DEF IsPut
  <2> DEFINE s == after[j - 1].val
             t == after[j].val
  <2>3. s \in Seq(V) /\ Len(s) = j - 1 /\ \A i \in 1 .. j - 1 : s[i] = after[i].val[i]
    BY <1>1, <1>3, <1>6, Zenon
  <2>4. t = Append(s, v)
    BY <2>1
  <2> HIDE DEF s, t
  <2>5. Len(t) = Len(s) + 1 /\ \A i \in 1 .. Len(s) : t[i] = s[i]
    BY <2>2, <2>3, <2>4, Appended
  <2>6. Len(t) = j
    BY <2>3, <2>5
  <2>7. ASSUME NEW i \in 1 .. j
        PROVE  t[i] = after[i].val[i]
    <3>1. CASE i = j
      BY <3>1 DEF t
    <3>2. CASE i # j
      <4>1. i \in 1 .. j - 1
        BY <3>2
      <4> QED
        BY <2>3, <2>5, <4>1, Zenon
    <3> QED
      BY <3>1, <3>2, Zenon
  <2> QED
    BY <1>1, <2>6, <2>7, Zenon DEF t
<1> HIDE DEF T
<1>7. \A j \in 0 .. n : j \in T
  BY <1>5, <1>6, InductionTo, Zenon
<1> DEFINE val == after[n].val
<1>8. val \in Seq(V) /\ Len(val) = n /\ \A i \in 1 .. n : val[i] = after[i].val[i]
  BY <1>1, <1>3, <1>7, Zenon DEF T
<1> HIDE DEF val
<1>9. ASSUME NEW i \in 1 .. n
      PROVE  val[i] \in DOMAIN puts[i] /\ after[i - 1].rest = puts[i][val[i]] \o after[i].rest
  <2>1. PICK v \in DOMAIN puts[i] : /\ after[i].val = Append(after[i - 1].val, v)
                                    /\ after[i - 1].rest = puts[i][v] \o after[i].rest
    BY <1>4, Zenon
  <2>2. v \in V
    BY <2>1, Zenon DEF IsPut
  <2> DEFINE s == after[i - 1].val
  <2>3. s \in Seq(V) /\ Len(s) = i - 1
    BY <1>1, <1>3, <1>7, Zenon DEF T
  <2>4. val[i] = Append(s, v)[i]
    BY <1>8, <2>1, Zenon
  <2> HIDE DEF s
  <2>5. Append(s, v)[Len(s) + 1] = v
    BY <2>2, <2>3, Appended
  <2>6. Len(s) + 1 = i
    BY <2>3
  <2>7. val[i] = v
    BY <2>4, <2>5, <2>6, Zenon
  <2> QED
    BY <2>1, <2>7, Zenon
<1>10. val \in AllRows(V, n, puts)
  BY <1>8, <1>9, Zenon DEF AllRows
<1> DEFINE ss == PutEach(n, puts, val)
           suf == [i \in 0 .. n |-> after[i].rest]
<1>11. /\ ss \in Seq(Seq(Tokens)) /\ Len(ss) = n
       /\ DOMAIN PutAll(V, n, puts) = AllRows(V, n, puts)
       /\ PutAll(V, n, puts)[val] = FlattenSeq(ss)
       /\ \A i \in 1 .. n : ss[i] = puts[i][val[i]]
  <2>1. PutsEach(ss, V, n, puts, val)
    BY <1>10, PutEachIs, Zenon
  <2> HIDE DEF ss
  <2> QED
    BY <2>1, PutAllIs, Zenon DEF PutsEach
<1> HIDE DEF ss
<1>12. Chain(suf, Tokens, ss)
  <2>1. suf \in [0 .. n -> Seq(Tokens)]
    BY <1>3, Zenon
  <2>2. \A i \in 1 .. n : suf[i - 1] = ss[i] \o suf[i]
    BY <1>1, <1>9, <1>11, Zenon
  <2> HIDE DEF suf
  <2> QED
    BY <1>11, <2>1, <2>2, Zenon DEF Chain
<1>13. suf[0] = after[0].rest /\ suf[n] = after[n].rest
  BY <1>1, Zenon
<1> HIDE DEF suf
<1>14. suf[0] = FlattenSeq(ss) \o suf[n]
  BY <1>11, <1>12, ChainIsFlat, Zenon
<1> QED
  BY <1>10, <1>11, <1>13, <1>14, Zenon DEF val

(* Values that are written one after the other are taken one after the other. *)
LEMMA ReadingDecodesBack ==
  ASSUME NEW V, NEW n, NEW puts, NEW after, IsReading(after, V, n, puts),
         \A i \in 1 .. n : TakesBack(after[i - 1], after[i], puts[i])
  PROVE  DecodesBack(after[0].rest, after[n], PutAll(V, n, puts))
<1> USE DEF IsReading
<1> SUFFICES ASSUME NEW val \in DOMAIN PutAll(V, n, puts), NEW rest \in Seq(Tokens),
                    after[0].rest = PutAll(V, n, puts)[val] \o rest
             PROVE  after[n] = [st |-> "ok", val |-> val, rest |-> rest]
  BY Zenon DEF DecodesBack
<1>1. /\ \A i \in 1 .. n : i - 1 \in 0 .. n /\ i \in 0 .. n
      /\ 0 \in 0 .. n /\ n \in 0 .. n
  OBVIOUS
<1> DEFINE ss == PutEach(n, puts, val)
<1>0. val \in AllRows(V, n, puts)
  BY PutAllIs, Zenon
<1>2. /\ ss \in Seq(Seq(Tokens)) /\ Len(ss) = n
      /\ PutAll(V, n, puts)[val] = FlattenSeq(ss)
  <2>1. PutsEach(ss, V, n, puts, val)
    BY <1>0, PutEachIs, Zenon
  <2> HIDE DEF ss
  <2> QED
    BY <2>1, Zenon DEF PutsEach
<1>3. \A i \in 1 .. n : ss[i] = puts[i][val[i]]
  BY Zenon DEF PutEach
<1> HIDE DEF ss
<1>4. PICK suf : Chain(suf, Tokens, ss) /\ suf[n] = rest
  BY <1>2, ChainExists, ZenonT(40)
<1>5. suf[0] = FlattenSeq(ss) \o suf[n]
  BY <1>2, <1>4, ChainIsFlat, Zenon
<1>6. /\ suf \in [0 .. n -> Seq(Tokens)]
      /\ \A i \in 1 .. n : suf[i - 1] = puts[i][val[i]] \o suf[i]
  BY <1>2, <1>3, <1>4, Zenon DEF Chain
<1>7. val \in Seq(V) /\ Len(val) = n /\ \A i \in 1 .. n : val[i] \in DOMAIN puts[i]
  BY <1>0, Zenon DEF AllRows
<1> DEFINE T == {i \in 0 .. n : /\ after[i].st = "ok" /\ after[i].rest = suf[i]
                                /\ Len(after[i].val) = i
                                /\ \A j \in 1 .. i : after[i].val[j] = val[j]}
<1>8. 0 \in T
  <2>1. Len(after[0].val) = 0 /\ 1 .. 0 = {}
    BY EmptyFacts
  <2>2. after[0].rest = suf[0]
    BY <1>2, <1>4, <1>5, Zenon
  <2> QED
    BY <1>1, <2>1, <2>2, Zenon
<1>9. ASSUME NEW i \in 1 .. n, i - 1 \in T
      PROVE  i \in T
  <2> DEFINE r == after[i - 1]
             v == val[i]
             s == r.val
  <2>1. r.st = "ok" /\ r.rest = puts[i][v] \o suf[i] /\ suf[i] \in Seq(Tokens)
    BY <1>1, <1>6, <1>9, Zenon
  <2>2. v \in DOMAIN puts[i]
    BY <1>7, Zenon
  <2>3. after[i] = Got(r, v, suf[i])
    BY <2>1, <2>2, Zenon DEF TakesBack
  <2>4. v \in V
    BY <2>2, Zenon DEF IsPut
  <2>5. r \in ReadersOf(V)
    BY <1>1, Zenon
  <2>6. Len(s) = i - 1 /\ \A j \in 1 .. i - 1 : s[j] = val[j]
    BY <1>9, Zenon
  <2>7. s \in Seq(V)
    BY <2>5 DEF ReadersOf
  <2> HIDE DEF v
  <2>8. after[i].st = "ok" /\ after[i].rest = suf[i] /\ after[i].val = Append(s, v)
    <3> HIDE DEF r, s
    <3>1. s = r.val
      BY DEF s
    <3>2. Got(r, v, suf[i]) = [st |-> r.st, val |-> Append(r.val, v), rest |-> suf[i]]
      BY Zenon DEF Got
    <3> QED
      BY <2>1, <2>3, <3>1, <3>2
  <2> HIDE DEF r, s
  <2>9. /\ Len(Append(s, v)) = Len(s) + 1 /\ \A j \in 1 .. Len(s) : Append(s, v)[j] = s[j]
        /\ Append(s, v)[Len(s) + 1] = v
    BY <2>4, <2>7, Appended
  <2>10. Len(s) + 1 = i
    BY <2>6
  <2>11. ASSUME NEW j \in 1 .. i
         PROVE  Append(s, v)[j] = val[j]
    <3>1. CASE j = i
      BY <2>9, <2>10, <3>1, Zenon DEF v
    <3>2. CASE j # i
      <4>1. j \in 1 .. i - 1
        BY <3>2
      <4> QED
        BY <2>6, <2>9, <4>1, Zenon
    <3> QED
      BY <3>1, <3>2, Zenon
  <2> QED
    BY <1>1, <2>8, <2>9, <2>10, <2>11, Zenon
<1> HIDE DEF T
<1>10. n \in T
  BY <1>1, <1>8, <1>9, InductionTo, Zenon
<1> DEFINE g == after[n]
<1>11. /\ g.st = "ok" /\ g.rest = rest /\ Len(g.val) = n
       /\ \A j \in 1 .. n : g.val[j] = val[j]
  BY <1>4, <1>10, Zenon DEF T
<1>12. g \in ReadersOf(V)
  BY <1>1, Zenon
<1> HIDE DEF g
<1>13. g.val \in Seq(V) /\ g = [st |-> g.st, val |-> g.val, rest |-> g.rest]
  BY <1>12 DEF ReadersOf
<1>14. g.val = val
  BY <1>7, <1>11, <1>13, SeqEqual, Zenon
<1> QED
  BY <1>11, <1>13, <1>14, Zenon DEF g

-----------------------------------------------------------------------------
(* Plain fields *)

(* The first token, and the others behind it. *)
LEMMA TokenFirst ==
  ASSUME NEW t \in Tokens, NEW s \in Seq(Tokens)
  PROVE  /\ <<t>> \o s \in Seq(Tokens) /\ <<t>> \o s # <<>>
         /\ Head(<<t>> \o s) = t /\ Tail(<<t>> \o s) = s
         /\ Width(<<t>> \o s) = t.w + Width(s) /\ Width(s) \in Nat /\ t.w \in Nat \ {0}
<1> DEFINE c == <<t>> \o s
<1>1. /\ c \in Seq(Tokens) /\ Len(c) = 1 + Len(s) /\ Len(s) \in Nat /\ c[1] = t
      /\ \A j \in 1 .. Len(s) : c[1 + j] = s[j]
  BY Prepended
<1>2. <<t>> \in Seq(Tokens) /\ Width(<<t>>) = t.w /\ t.w \in Nat \ {0}
  BY WidthOfFew, Zenon
<1>3. Width(c) = t.w + Width(s) /\ Width(s) \in Nat
  BY <1>2, WidthOfConcat, Zenon
<1> HIDE DEF c
<1>4. Len(c) # 0
  BY <1>1
<1>5. c # <<>>
  BY <1>4, EmptyFacts, Zenon
<1>6. /\ Head(c) = c[1] /\ Tail(c) \in Seq(Tokens) /\ Len(Tail(c)) = Len(c) - 1
      /\ \A i \in 1 .. Len(c) - 1 : Tail(c)[i] = c[i + 1]
  BY <1>1, <1>5, Tailed
<1>7. Len(c) - 1 = Len(s) /\ \A j \in 1 .. Len(s) : 1 + j = j + 1
  BY <1>1
<1>8. Tail(c) = s
  BY <1>1, <1>6, <1>7, SeqEqual, ZenonT(40)
<1> QED
  BY <1>1, <1>2, <1>3, <1>5, <1>6, <1>8, Zenon DEF c

\* g reads one value more than r, written as put says, and reads all that are so written
Reads(r, g, V, put) == g \in ReadersOf(V) /\ Takes(r, g, put) /\ TakesBack(r, g, put)

ScalarPut(w) == [v \in Int |-> <<Token(w, v)>>]

(* Tokens are what Token makes. *)
LEMMA TokensAre ==
  /\ \A w \in Nat \ {0}, v \in Int : Token(w, v) \in Tokens /\ Token(w, v).w = w
     /\ Token(w, v).v = v
  /\ \A t \in Tokens : t = Token(t.w, t.v) /\ t.w \in Nat \ {0} /\ t.v \in Int
  BY DEF Tokens, Token

(* A reader goes on, or stops. *)
LEMMA ReaderGoesOn ==
  ASSUME NEW V, NEW r \in ReadersOf(V)
  PROVE  /\ \A v \in V, rest \in Seq(Tokens) : Got(r, v, rest) \in ReadersOf(V)
         /\ \A how \in Outcomes : Stop(r, how) \in ReadersOf(V) /\ Stop(r, how).st = how
<1>1. /\ r.st \in Outcomes /\ r.val \in Seq(V) /\ r.rest \in Seq(Tokens)
      /\ \A how : Stop(r, how) = [st |-> how, val |-> r.val, rest |-> r.rest]
  BY ReaderIs, Zenon
<1>2. \A v \in V : Append(r.val, v) \in Seq(V)
  BY <1>1, AppendProperties
<1>3. \A v \in V, rest \in Seq(Tokens) : Got(r, v, rest) \in ReadersOf(V)
  BY <1>1, <1>2 DEF ReadersOf, Got
<1>4. \A how \in Outcomes : Stop(r, how) \in ReadersOf(V) /\ Stop(r, how).st = how
  BY <1>1 DEF ReadersOf
<1> QED
  BY <1>3, <1>4, Zenon

(* get_i32, get_i64 and get_u8 read what put_i32, put_i64 and put_u8 write. *)
LEMMA ScalarRead ==
  ASSUME NEW V, Int \subseteq V, NEW r \in ReadersOf(V), r.st = "ok", NEW w \in Nat \ {0}
  PROVE  Reads(r, GetScalar(r, w), V, ScalarPut(w))
<1> DEFINE s == r.rest
           g == GetScalar(r, w)
           put == ScalarPut(w)
<1>1. s \in Seq(Tokens) /\ Width(s) \in Nat
  BY ReaderIs, WidthsAre, Zenon
<1>2. DOMAIN put = Int /\ \A v \in Int : put[v] = <<Token(w, v)>>
  BY Zenon DEF ScalarPut
<1>3. s = <<>> => Width(s) < w
  BY WidthOfFew
<1>4. g = IF Width(s) < w THEN Stop(r, "panic")
          ELSE IF Head(s).w # w THEN Stop(r, "misread")
          ELSE Got(r, Head(s).v, Tail(s))
  BY Zenon DEF GetScalar
<1> SUFFICES Reads(r, g, V, put)
  OBVIOUS
<1> HIDE DEF g, put
<1>5. "panic" # "ok" /\ "misread" # "ok" /\ "panic" \in Outcomes /\ "misread" \in Outcomes
  BY DEF Outcomes
<1>6. CASE Width(s) < w \/ Head(s).w # w
  <2>1. g \in ReadersOf(V) /\ g.st # "ok"
    BY <1>4, <1>5, <1>6, ReaderGoesOn, Zenon
  <2>2. ASSUME NEW v \in DOMAIN put, NEW rest \in Seq(Tokens), s = put[v] \o rest
        PROVE  FALSE
    <3>1. s = <<Token(w, v)>> \o rest /\ v \in Int
      BY <1>2, <2>2, Zenon
    <3>2. Token(w, v) \in Tokens /\ Token(w, v).w = w
      BY <3>1, TokensAre, Zenon
    <3>3. Head(s) = Token(w, v) /\ Width(s) = Token(w, v).w + Width(rest) /\ Width(rest) \in Nat
      BY <3>1, <3>2, TokenFirst, Zenon
    <3>4. ~(Width(s) < w)
      BY <3>2, <3>3
    <3> QED
      BY <1>6, <3>2, <3>3, <3>4, Zenon
  <2> QED
    BY <2>1, <2>2, Zenon DEF Reads, Takes, TakesBack
<1>7. CASE ~(Width(s) < w) /\ Head(s).w = w
  <2>1. s # <<>>
    BY <1>3, <1>7, Zenon
  <2>2. s = <<Head(s)>> \o Tail(s) /\ Head(s) \in Tokens /\ Tail(s) \in Seq(Tokens)
    BY <1>1, <2>1, WidthOfFew, Zenon
  <2>3. Head(s) = Token(w, Head(s).v) /\ Head(s).v \in Int
    BY <1>7, <2>2, TokensAre, Zenon
  <2>4. g = Got(r, Head(s).v, Tail(s))
    BY <1>4, <1>7, Zenon
  <2>5. g \in ReadersOf(V)
    BY <2>2, <2>3, <2>4, ReaderGoesOn, Zenon
  <2>6. Takes(r, g, put)
    <3>1. g.val = Append(r.val, Head(s).v) /\ g.rest = Tail(s)
      BY <2>4 DEF Got
    <3>2. s = put[Head(s).v] \o g.rest
      BY <1>2, <2>2, <2>3, <3>1, Zenon
    <3> QED
      BY <1>2, <2>3, <3>1, <3>2, Zenon DEF Takes
  <2>7. ASSUME NEW v \in DOMAIN put, NEW rest \in Seq(Tokens), s = put[v] \o rest
        PROVE  g = Got(r, v, rest)
    <3>1. s = <<Token(w, v)>> \o rest /\ v \in Int
      BY <1>2, <2>7, Zenon
    <3>2. Token(w, v) \in Tokens /\ Token(w, v).v = v
      BY <3>1, TokensAre, Zenon
    <3>3. Head(s) = Token(w, v) /\ Tail(s) = rest
      BY <3>1, <3>2, TokenFirst, Zenon
    <3> QED
      BY <2>4, <3>2, <3>3, Zenon
  <2> QED
    BY <2>5, <2>6, <2>7, Zenon DEF Reads, TakesBack
<1> QED
  BY <1>6, <1>7, Zenon

\* n is what GetLength gave on a reader that had toks left
IsLength(toks, n) ==
  /\ n \in ReadersOf(Int)
  /\ n.st = "ok" => n.val[1] \in Int /\ toks = <<Token(4, n.val[1])>> \o n.rest
  /\ \A k \in Int, rest \in Seq(Tokens) :
       toks = <<Token(4, k)>> \o rest => n.st = "ok" /\ n.val[1] = k /\ n.rest = rest

(* The length in front of a value is read as it was written. *)
LEMMA LengthRead ==
  ASSUME NEW V, NEW r \in ReadersOf(V), r.st = "ok"
  PROVE  IsLength(r.rest, GetLength(r))
<1> DEFINE q == [st |-> r.st, val |-> <<>>, rest |-> r.rest]
           n == GetLength(r)
           put == ScalarPut(4)
<1>1. n = GetScalar(q, 4)
  BY ReaderIs, Zenon DEF GetLength
<1>2. q \in ReadersOf(Int) /\ q.st = "ok" /\ q.val = <<>> /\ q.rest = r.rest
  <2>1. r.st \in Outcomes /\ r.rest \in Seq(Tokens)
    BY ReaderIs, Zenon
  <2>2. <<>> \in Seq(Int)
    BY EmptyFacts, Zenon
  <2> QED
    BY <2>1, <2>2 DEF ReadersOf
<1> HIDE DEF q, n
<1>3. 4 \in Nat \ {0} /\ Int \subseteq Int
  OBVIOUS
<1>4. Reads(q, n, Int, put)
  BY <1>1, <1>2, <1>3, ScalarRead, Zenon
<1>5. DOMAIN put = Int /\ \A v \in Int : put[v] = <<Token(4, v)>>
  BY Zenon DEF ScalarPut
<1> HIDE DEF put
<1>6. \A v \in Int : Append(<<>>, v)[1] = v
  OBVIOUS
<1>7. n \in ReadersOf(Int)
  BY <1>4, Zenon DEF Reads
<1>8. n.st = "ok" => n.val[1] \in Int /\ r.rest = <<Token(4, n.val[1])>> \o n.rest
  <2> SUFFICES ASSUME n.st = "ok"
               PROVE  n.val[1] \in Int /\ r.rest = <<Token(4, n.val[1])>> \o n.rest
    BY Zenon
  <2>1. PICK v \in DOMAIN put : n.val = Append(q.val, v) /\ q.rest = put[v] \o n.rest
    BY <1>4, Zenon DEF Reads, Takes
  <2>2. v \in Int /\ n.val[1] = v
    BY <1>2, <1>5, <1>6, <2>1, Zenon
  <2> QED
    BY <1>2, <1>5, <2>1, <2>2, Zenon
<1>9. ASSUME NEW k \in Int, NEW rest \in Seq(Tokens), r.rest = <<Token(4, k)>> \o rest
      PROVE  n.st = "ok" /\ n.val[1] = k /\ n.rest = rest
  <2>1. n = Got(q, k, rest)
    BY <1>2, <1>4, <1>5, <1>9, Zenon DEF Reads, TakesBack
  <2>2. n.st = q.st /\ n.val = Append(q.val, k) /\ n.rest = rest
    BY <2>1 DEF Got
  <2> QED
    BY <1>2, <1>6, <2>2, Zenon
<1> QED
  BY <1>7, <1>8, <1>9, Zenon DEF IsLength, n

\* Contents there is memory for, of which a string may not hold NotUtf8
ContentTokens(isString) ==
  {u \in Tokens : u.w <= MaxCapacity /\ (isString => u.v # NotUtf8)}
ContentsOf(isString) == {<<>>} \cup {<<t>> : t \in ContentTokens(isString)}
BytesPut(isString) == [v \in ContentsOf(isString) |-> PutBytes(v)]

(* Contents are one token or none, written behind their length. *)
LEMMA BytesPutIs ==
  ASSUME NEW isString \in BOOLEAN
  PROVE  /\ ContentsOf(isString) \subseteq Seq(Tokens)
         /\ DOMAIN BytesPut(isString) = ContentsOf(isString)
         /\ \A v \in ContentsOf(isString) :
              /\ BytesPut(isString)[v] = PutBytes(v)
              /\ PutBytes(v) \in Seq(Tokens)
              /\ \A rest \in Seq(Tokens) :
                   PutBytes(v) \o rest = <<Token(4, Width(v))>> \o (v \o rest)
         /\ IsPut(BytesPut(isString), Seq(Tokens))
<1>1. ASSUME NEW v \in ContentsOf(isString)
      PROVE  v \in Seq(Tokens)
  <2>1. CASE v = <<>>
    BY <2>1, EmptyFacts, Zenon
  <2>2. CASE v # <<>>
    <3>1. PICK t \in Tokens : v = <<t>>
      BY <2>2, Zenon DEF ContentsOf, ContentTokens
    <3> QED
      BY <3>1, WidthOfFew, Zenon
  <2> QED
    BY <2>1, <2>2, Zenon
<1>2. DOMAIN BytesPut(isString) = ContentsOf(isString)
  BY Zenon DEF BytesPut
<1>3. ASSUME NEW v \in ContentsOf(isString)
      PROVE  /\ BytesPut(isString)[v] = PutBytes(v)
             /\ PutBytes(v) \in Seq(Tokens)
             /\ \A rest \in Seq(Tokens) :
                  PutBytes(v) \o rest = <<Token(4, Width(v))>> \o (v \o rest)
  <2> DEFINE t == Token(4, Width(v))
  <2>1. v \in Seq(Tokens) /\ Width(v) \in Nat
    BY <1>1, WidthsAre, Zenon
  <2>2. Width(v) \in Int /\ 4 \in Nat \ {0}
    BY <2>1
  <2>3. t \in Tokens
    BY <2>2, TokensAre, Zenon
  <2>4. <<t>> \in Seq(Tokens)
    BY <2>3, WidthOfFew, Zenon
  <2>5. PutBytes(v) = <<t>> \o v
    BY Zenon DEF PutBytes
  <2>6. BytesPut(isString)[v] = PutBytes(v)
    BY Zenon DEF BytesPut
  <2> HIDE DEF t
  <2>7. <<t>> \o v \in Seq(Tokens)
    BY <2>1, <2>4, WidthOfConcat, Zenon
  <2>8. \A rest \in Seq(Tokens) : (<<t>> \o v) \o rest = <<t>> \o (v \o rest)
    BY <2>1, <2>4, ConcatAssociative
  <2> QED
    BY <2>5, <2>6, <2>7, <2>8, Zenon DEF t
<1>4. BytesPut(isString) = [v \in ContentsOf(isString) |-> PutBytes(v)]
  BY Zenon DEF BytesPut
<1>5. IsPut(BytesPut(isString), Seq(Tokens))
  BY <1>1, <1>2, <1>3, <1>4, Zenon DEF IsPut
<1> QED
  BY <1>1, <1>2, <1>3, <1>5, Zenon

(* String::deserialize and Vec::<u8>::deserialize read what serialize_into() writes. *)
LEMMA BytesRead ==
  ASSUME NEW V, Seq(Tokens) \subseteq V, NEW r \in ReadersOf(V), r.st = "ok",
         NEW isString \in BOOLEAN
  PROVE  Reads(r, GetBytes(r, isString), V, BytesPut(isString))
<1> DEFINE n == GetLength(r)
           g == GetBytes(r, isString)
           put == BytesPut(isString)
           len == n.val[1]
           s == n.rest
<1>1. IsLength(r.rest, n)
  BY LengthRead, Zenon
<1>2. n.st \in Outcomes /\ s \in Seq(Tokens) /\ Width(s) \in Nat
  <2>1. n \in ReadersOf(Int)
    BY <1>1, Zenon DEF IsLength
  <2> QED
    BY <2>1, ReaderIs, WidthsAre, Zenon
<1>3. n.st = "ok" => len \in Int /\ r.rest = <<Token(4, len)>> \o s
  BY <1>1, Zenon DEF IsLength
<1>4. g = IF n.st # "ok" THEN Stop(r, n.st)
          ELSE IF len > MaxCapacity THEN Stop(r, "abort")
          ELSE IF len < 0 \/ len > Width(s) THEN Stop(r, "panic")
          ELSE IF len = 0 THEN Got(r, <<>>, s)
          ELSE IF Head(s).w # len THEN Stop(r, "misread")
          ELSE IF isString /\ Head(s).v = NotUtf8 THEN Stop(r, "err")
          ELSE Got(r, <<Head(s)>>, Tail(s))
  BY Zenon DEF GetBytes, GetContents
<1> SUFFICES Reads(r, g, V, put)
  OBVIOUS
<1>5. /\ DOMAIN put = ContentsOf(isString)
      /\ \A v \in ContentsOf(isString) :
           /\ put[v] = PutBytes(v)
           /\ \A rest \in Seq(Tokens) : PutBytes(v) \o rest = <<Token(4, Width(v))>> \o (v \o rest)
  BY BytesPutIs, Zenon
<1>6. r.rest \in Seq(Tokens)
  BY ReaderIs, Zenon
<1> HIDE DEF n, g, put, len, s
<1>7. "panic" # "ok" /\ "misread" # "ok" /\ "err" # "ok" /\ "abort" # "ok"
        /\ {"panic", "misread", "err", "abort"} \subseteq Outcomes
  BY DEF Outcomes
<1>8. ASSUME NEW v \in DOMAIN put, NEW rest \in Seq(Tokens), r.rest = put[v] \o rest
      PROVE  g = Got(r, v, rest)
  <2>1. /\ v \in ContentsOf(isString) /\ v \in Seq(Tokens) /\ v \o rest \in Seq(Tokens)
        /\ r.rest = <<Token(4, Width(v))>> \o (v \o rest) /\ Width(v) \in Nat
    <3>1. v \in ContentsOf(isString) /\ v \in Seq(Tokens)
      BY <1>5, BytesPutIs, Zenon
    <3>2. v \o rest \in Seq(Tokens) /\ Width(v) \in Nat
      BY <3>1, WidthOfConcat, Zenon
    <3>3. r.rest = PutBytes(v) \o rest
      BY <1>5, <1>8, <3>1, Zenon
    <3> QED
      BY <1>5, <3>1, <3>2, <3>3, Zenon
  <2>2. Width(v) \in Int
    BY <2>1
  <2>3. n.st = "ok" /\ len = Width(v) /\ s = v \o rest
    BY <1>1, <2>1, <2>2, Zenon DEF IsLength, len, s
  <2>4. CASE v = <<>>
    <3>1. s = rest /\ len = 0
      BY <2>3, <2>4, WidthOfFew, ConcatEmptySeq, Zenon
    <3>2. ~(len < 0 \/ len > Width(s)) /\ ~(len > MaxCapacity)
      BY <1>2, <3>1, MaxCapacityAssumption
    <3> QED
      BY <1>4, <2>3, <2>4, <3>1, <3>2, Zenon
  <2>5. CASE v # <<>>
    <3>1. PICK t \in Tokens : v = <<t>> /\ (isString => t.v # NotUtf8) /\ t.w <= MaxCapacity
      BY <2>1, <2>5, Zenon DEF ContentsOf, ContentTokens
    <3>2. /\ Head(s) = t /\ Tail(s) = rest /\ Width(s) = t.w + Width(rest) /\ Width(rest) \in Nat
          /\ t.w \in Nat \ {0}
      BY <2>3, <3>1, TokenFirst, Zenon
    <3>3. len = t.w
      BY <2>3, <3>1, WidthOfFew, Zenon
    <3>4. ~(len < 0 \/ len > Width(s)) /\ len # 0 /\ ~(len > MaxCapacity)
      BY <3>1, <3>2, <3>3, MaxCapacityAssumption
    <3> QED
      BY <1>4, <2>3, <3>1, <3>2, <3>3, <3>4, Zenon
  <2> QED
    BY <2>4, <2>5, Zenon
<1>9. ASSUME NEW v \in ContentsOf(isString), NEW rest \in Seq(Tokens), g = Got(r, v, rest),
             n.st = "ok", len = Width(v), s = v \o rest
      PROVE  g \in ReadersOf(V) /\ Takes(r, g, put)
  <2>1. v \in V
    BY BytesPutIs, Zenon
  <2>2. g \in ReadersOf(V)
    BY <1>9, <2>1, ReaderGoesOn, Zenon
  <2>3. g.val = Append(r.val, v) /\ g.rest = rest
    BY <1>9 DEF Got
  <2>4. r.rest = put[v] \o rest
    BY <1>3, <1>5, <1>9, Zenon
  <2> QED
    BY <1>5, <2>2, <2>3, <2>4, Zenon DEF Takes
<1>10. g \in ReadersOf(V) /\ Takes(r, g, put)
  <2>1. CASE \E how \in Outcomes : how # "ok" /\ g = Stop(r, how)
    <3>1. g \in ReadersOf(V) /\ g.st # "ok"
      BY <2>1, ReaderGoesOn, Zenon
    <3> QED
      BY <3>1, Zenon DEF Takes
  <2>2. CASE n.st = "ok" /\ len = 0 /\ g = Got(r, <<>>, s)
    <3>1. <<>> \in ContentsOf(isString)
      BY Zenon DEF ContentsOf
    <3>2. s = <<>> \o s /\ len = Width(<<>>)
      BY <1>2, <2>2, WidthOfFew, ConcatEmptySeq, Zenon
    <3> QED
      BY <1>2, <1>9, <2>2, <3>1, <3>2, Zenon
  <2>3. CASE /\ n.st = "ok" /\ ~(len > MaxCapacity)
             /\ ~(len < 0 \/ len > Width(s)) /\ len # 0 /\ Head(s).w = len
             /\ ~(isString /\ Head(s).v = NotUtf8) /\ g = Got(r, <<Head(s)>>, Tail(s))
    <3>1. Width(s) # 0
      BY <1>2, <1>3, <2>3
    <3>2. s # <<>>
      BY <3>1, WidthOfFew, Zenon
    <3>3. s = <<Head(s)>> \o Tail(s) /\ Head(s) \in Tokens /\ Tail(s) \in Seq(Tokens)
      BY <1>2, <3>2, WidthOfFew, Zenon
    <3>4. <<Head(s)>> \in ContentsOf(isString) /\ len = Width(<<Head(s)>>)
      <4>1. len <= MaxCapacity
        BY <1>3, <2>3, MaxCapacityAssumption
      <4> QED
        BY <2>3, <3>3, <4>1, WidthOfFew, Zenon DEF ContentsOf, ContentTokens
    <3> QED
      BY <1>9, <2>3, <3>3, <3>4, Zenon
  <2> QED
    BY <1>2, <1>4, <1>7, <2>1, <2>2, <2>3, Zenon
<1> QED
  BY <1>8, <1>10, Zenon DEF Reads, TakesBack

\* The fields of a fixed width, and all that are no vectors
ScalarFields == {"i32", "i64", "u8"}
PlainFields == ScalarFields \cup {"string", "buffer"}

\* What a plain field may hold, and how each of its values is written
Plain == Int \cup Seq(Tokens)
PlainSet(field) ==
  IF field \in ScalarFields THEN Int ELSE ContentsOf(field = "string")
PlainPut(field) == [v \in PlainSet(field) |-> PutPlain(field, v)]

(* PutPlain writes numbers and contents. *)
LEMMA PlainPutIs ==
  ASSUME NEW field \in PlainFields
  PROVE  /\ field \in ScalarFields => /\ PlainPut(field) = ScalarPut(ScalarWidth[field])
                                      /\ ScalarWidth[field] \in Nat \ {0}
                                      /\ field \notin {"string", "buffer", "read_only"}
         /\ field \notin ScalarFields => PlainPut(field) = BytesPut(field = "string")
         /\ DOMAIN PlainPut(field) = PlainSet(field)
         /\ \A v \in PlainSet(field) : PlainPut(field)[v] = PutPlain(field, v)
         /\ IsPut(PlainPut(field), Plain)
<1>1. DOMAIN PlainPut(field) = PlainSet(field)
        /\ \A v \in PlainSet(field) : PlainPut(field)[v] = PutPlain(field, v)
  BY Zenon DEF PlainPut
<1>2. CASE field \in ScalarFields
  <2> DEFINE w == ScalarWidth[field]
  <2>1. w \in Nat \ {0} /\ field \notin {"string", "buffer", "read_only"}
    BY <1>2 DEF ScalarFields, ScalarWidth
  <2>2. \A v : PutPlain(field, v) = <<Token(w, v)>>
    BY <2>1, Zenon DEF PutPlain
  <2>3. PlainPut(field) = ScalarPut(w)
    BY <1>2, <2>2, Zenon DEF PlainPut, PlainSet, ScalarPut
  <2>4. ASSUME NEW v \in Int
        PROVE  <<Token(w, v)>> \in Seq(Tokens)
    <3>1. Token(w, v) \in Tokens
      BY <2>1, TokensAre, Zenon
    <3> QED
      BY <3>1, WidthOfFew, Zenon
  <2>5. PlainPut(field) \in [Int -> Seq(Tokens)]
    BY <2>3, <2>4, Zenon DEF ScalarPut
  <2>6. IsPut(PlainPut(field), Plain)
    BY <2>5, Zenon DEF IsPut, Plain
  <2> QED
    BY <1>1, <1>2, <2>1, <2>3, <2>6, Zenon
<1>3. CASE field \notin ScalarFields
  <2>1. field \in {"string", "buffer"}
    BY <1>3, Zenon DEF PlainFields
  <2>2. \A v : PutPlain(field, v) = PutBytes(v)
    BY <2>1, Zenon DEF PutPlain
  <2>3. PlainPut(field) = BytesPut(field = "string")
    BY <1>3, <2>2, Zenon DEF PlainPut, PlainSet, BytesPut
  <2>4. IsPut(BytesPut(field = "string"), Seq(Tokens))
    BY BytesPutIs, Zenon
  <2>5. IsPut(PlainPut(field), Plain)
    BY <2>3, <2>4, Zenon DEF IsPut, Plain
  <2> QED
    BY <1>1, <1>3, <2>3, <2>5, Zenon
<1> QED
  BY <1>2, <1>3, Zenon

(* Every plain field is read as it is written. *)
LEMMA PlainRead ==
  ASSUME NEW V, Plain \subseteq V, NEW r \in ReadersOf(V), NEW field \in PlainFields
  PROVE  Reads(r, GetPlain(r, field), V, PlainPut(field))
<1> DEFINE g == GetPlain(r, field)
<1>0. Int \subseteq V /\ Seq(Tokens) \subseteq V
  BY Zenon DEF Plain
<1>1. CASE r.st # "ok"
  <2>1. g = r
    BY <1>1, Zenon DEF GetPlain
  <2> QED
    BY <1>1, <2>1, Zenon DEF Reads, Takes, TakesBack
<1>2. CASE r.st = "ok" /\ field \in ScalarFields
  <2> DEFINE w == ScalarWidth[field]
  <2>1. PlainPut(field) = ScalarPut(w) /\ w \in Nat \ {0}
          /\ field \notin {"string", "buffer", "read_only"}
    BY <1>2, PlainPutIs, Zenon
  <2>2. g = GetScalar(r, w)
    BY <1>2, <2>1, Zenon DEF GetPlain
  <2> HIDE DEF w, g
  <2>3. Reads(r, g, V, PlainPut(field))
    BY <1>0, <1>2, <2>1, <2>2, ScalarRead, Zenon
  <2> QED
    BY <2>3, Zenon DEF g
<1>3. CASE r.st = "ok" /\ field \notin ScalarFields
  <2>1. field \in {"string", "buffer"} /\ PlainPut(field) = BytesPut(field = "string")
    BY <1>3, PlainPutIs, Zenon DEF PlainFields
  <2>2. CASE field = "string"
    <3>1. g = GetBytes(r, TRUE) /\ (field = "string") = TRUE
      BY <1>3, <2>2, Zenon DEF GetPlain
    <3> HIDE DEF g
    <3>2. Reads(r, GetBytes(r, TRUE), V, BytesPut(TRUE))
      BY <1>0, <1>3, BytesRead, Zenon
    <3> QED
      BY <2>1, <3>1, <3>2, Zenon DEF g
  <2>3. CASE field = "buffer"
    <3>1. g = GetBytes(r, FALSE) /\ (field = "string") = FALSE
      BY <1>3, <2>3, Zenon DEF GetPlain
    <3> HIDE DEF g
    <3>2. Reads(r, GetBytes(r, FALSE), V, BytesPut(FALSE))
      BY <1>0, <1>3, BytesRead, Zenon
    <3> QED
      BY <2>1, <3>1, <3>2, Zenon DEF g
  <2> QED
    BY <2>1, <2>2, <2>3, Zenon
<1> QED
  BY <1>1, <1>2, <1>3, Zenon

-----------------------------------------------------------------------------
(* Records of plain fields, and the elements of vectors *)

(* read_only is read as a number, or is 0. *)
LEMMA ReadOnlyRead ==
  ASSUME NEW V, Plain \subseteq V, NEW r \in ReadersOf(V), NEW field \in PlainFields \cup {"read_only"}
  PROVE  GetPlain(r, field) \in ReadersOf(V)
<1>1. CASE field \in PlainFields
  BY <1>1, PlainRead, Zenon DEF Reads
<1>2. CASE field = "read_only" /\ r.st # "ok"
  BY <1>2, Zenon DEF GetPlain
<1>3. CASE field = "read_only" /\ r.st = "ok"
  <2>1. GetPlain(r, field) = IF Width(r.rest) > 1 THEN GetScalar(r, 1) ELSE Got(r, 0, r.rest)
    BY <1>3, Zenon DEF GetPlain, GetReadOnly
  <2>2. 1 \in Nat \ {0} /\ 0 \in Int
    OBVIOUS
  <2>3. Int \subseteq V /\ r.rest \in Seq(Tokens)
    BY ReaderIs, Zenon DEF Plain
  <2>4. GetScalar(r, 1) \in ReadersOf(V)
    BY <1>3, <2>2, <2>3, ScalarRead, Zenon DEF Reads
  <2>5. Got(r, 0, r.rest) \in ReadersOf(V)
    BY <2>2, <2>3, ReaderGoesOn, Zenon
  <2> QED
    BY <2>1, <2>4, <2>5, Zenon
<1> QED
  BY <1>1, <1>2, <1>3, Zenon

(* PlainReads is what its recursive definition says. *)
LEMMA PlainReadsIs ==
  ASSUME NEW r \in ReadersOf(Plain), NEW R, R.wire \in Seq(PlainFields)
  PROVE  /\ PlainReads(r, R) \in [0 .. Len(R.wire) -> ReadersOf(Plain)]
         /\ PlainReads(r, R)[0] = r
         /\ \A i \in 1 .. Len(R.wire) :
              PlainReads(r, R)[i] = GetPlain(PlainReads(r, R)[i - 1], R.wire[i])
<1> DEFINE wire == R.wire
           n == Len(wire)
           D == ReadersOf(Plain)
           g == [i \in 1 .. n |-> [x \in D |-> GetPlain(x, wire[i])]]
           Eq(s) == [i \in 0 .. n |-> IF i = 0 THEN r ELSE GetPlain(s[i - 1], wire[i])]
           F == PlainReads(r, R)
<1>1. n \in Nat /\ \A i \in 1 .. n : wire[i] \in PlainFields
  BY LenProperties, ElementOfSeq, Zenon
<1> HIDE DEF n
<1>2. \A i \in 1 .. n, x \in D : GetPlain(x, wire[i]) \in D
  BY <1>1, ReadOnlyRead, Zenon
<1>3. CanIterate(D, n, r, g)
  BY <1>1, <1>2, Zenon DEF CanIterate
<1>4. \A i \in 1 .. n, x \in D : g[i][x] = GetPlain(x, wire[i])
  BY Zenon
<1>5. /\ \A i \in 1 .. n : i - 1 \in 0 .. n /\ i \in 0 .. n /\ i # 0
      /\ \A i \in 0 .. n : i # 0 => i \in 1 .. n /\ i - 1 \in 0 .. n
      /\ 0 \in 0 .. n /\ n \in 0 .. n
  BY <1>1
<1> HIDE DEF g, D
<1>6. PICK f : Iterates(f, D, n, r, g)
  BY <1>3, IterationDefines, Zenon
<1>7. f = Eq(f)
  <2>1. f \in [0 .. n -> D] /\ f[0] = r /\ \A i \in 1 .. n : f[i] = g[i][f[i - 1]]
    BY <1>6, Zenon DEF Iterates
  <2>2. \A i \in 0 .. n : f[i] = IF i = 0 THEN r ELSE GetPlain(f[i - 1], wire[i])
    BY <1>4, <1>5, <2>1, Zenon
  <2> QED
    BY <2>1, <2>2, Zenon
<1>8. F = CHOOSE s : s = Eq(s)
  BY Zenon DEF PlainReads, n
<1>9. F = Eq(F)
  <2> HIDE DEF Eq, F
  <2> QED
    BY <1>7, <1>8, Zenon
<1> HIDE DEF F
<1>10. /\ F = [i \in 0 .. n |-> F[i]] /\ F[0] = r
       /\ \A i \in 1 .. n : F[i] = GetPlain(F[i - 1], wire[i])
  BY <1>5, <1>9, Zenon
<1>11. Iterates(F, D, n, r, g)
  BY <1>3, <1>4, <1>10, IteratesBySteps, Zenon
<1> QED
  BY <1>10, <1>11, Zenon DEF Iterates, F, n, D

\* How a record of plain fields is written
PlainPuts(R) == [i \in DOMAIN R.wire |-> PlainPut(R.wire[i])]
FlatPut(R) == PutAll(Plain, Len(R.wire), PlainPuts(R))

(* It is written by PutFlat. *)
LEMMA FlatPutIs ==
  ASSUME NEW R, R.wire \in Seq(PlainFields)
  PROVE  /\ IsPut(FlatPut(R), Seq(Plain))
         /\ \A i \in 1 .. Len(R.wire) : IsPut(PlainPuts(R)[i], Plain)
         /\ \A val \in DOMAIN FlatPut(R) : FlatPut(R)[val] = PutFlat(R, val)
         /\ DOMAIN FlatPut(R) =
              {val \in Seq(Plain) : /\ Len(val) = Len(R.wire)
                                    /\ \A i \in 1 .. Len(R.wire) : val[i] \in PlainSet(R.wire[i])}
<1> DEFINE n == Len(R.wire)
           puts == PlainPuts(R)
           All == AllRows(Plain, n, puts)
<1>1. n \in Nat /\ DOMAIN R.wire = 1 .. n /\ \A i \in 1 .. n : R.wire[i] \in PlainFields
  BY LenProperties, ElementOfSeq, Zenon
<1>2. \A i \in 1 .. n : puts[i] = PlainPut(R.wire[i])
  BY <1>1, Zenon DEF PlainPuts
<1>3. \A i \in 1 .. n : IsPut(puts[i], Plain) /\ DOMAIN puts[i] = PlainSet(R.wire[i])
  BY <1>1, <1>2, PlainPutIs, Zenon
<1>4. IsPut(FlatPut(R), Seq(Plain)) /\ DOMAIN FlatPut(R) = All
  BY <1>1, <1>3, PutAllIs, Zenon DEF FlatPut
<1>5. ASSUME NEW val \in All
      PROVE  FlatPut(R)[val] = PutFlat(R, val)
  <2>1. \A i \in 1 .. n : puts[i][val[i]] = PutPlain(R.wire[i], val[i])
    <3>1. ASSUME NEW i \in 1 .. n
          PROVE  puts[i][val[i]] = PutPlain(R.wire[i], val[i])
      <4>1. val[i] \in PlainSet(R.wire[i])
        BY <1>3, Zenon DEF AllRows
      <4>2. PlainPut(R.wire[i])[val[i]] = PutPlain(R.wire[i], val[i])
        BY <1>1, <4>1, PlainPutIs, Zenon
      <4> QED
        BY <1>2, <4>2, Zenon
    <3> QED
      BY <3>1, Zenon
  <2>2. PutEach(n, puts, val) = [i \in 1 .. n |-> PutPlain(R.wire[i], val[i])]
    BY <2>1, Zenon DEF PutEach
  <2>3. FlatPut(R)[val] = FlattenSeq(PutEach(n, puts, val))
    BY Zenon DEF FlatPut, PutAll
  <2> QED
    BY <1>1, <2>2, <2>3, Zenon DEF PutFlat
<1>6. All = {val \in Seq(Plain) : Len(val) = n /\ \A i \in 1 .. n : val[i] \in PlainSet(R.wire[i])}
  <2>1. \A val \in Seq(Plain) : (\A i \in 1 .. n : val[i] \in DOMAIN puts[i])
                                <=> (\A i \in 1 .. n : val[i] \in PlainSet(R.wire[i]))
    BY <1>3, Zenon
  <2> QED
    BY <2>1, Zenon DEF AllRows
<1> HIDE DEF All, puts
<1> QED
  BY <1>3, <1>4, <1>5, <1>6, Zenon DEF puts

\* g reads toks from its start, as put says
Starts(toks, g, V, put) ==
  /\ g \in [st : Outcomes, val : V, rest : Seq(Tokens)]
  /\ Decodes(toks, g, put)
  /\ DecodesBack(toks, g, put)

(* A record of plain fields is read as it is written. *)
LEMMA FlatRead ==
  ASSUME NEW r \in ReadersOf(Plain), r.st = "ok", r.val = <<>>, NEW R, R.wire \in Seq(PlainFields)
  PROVE  Starts(r.rest, GetFlat(r, R), Seq(Plain), FlatPut(R))
<1> DEFINE n == Len(R.wire)
           puts == PlainPuts(R)
           after == PlainReads(r, R)
<1>1. n \in Nat /\ DOMAIN R.wire = 1 .. n /\ \A i \in 1 .. n : R.wire[i] \in PlainFields
  BY LenProperties, ElementOfSeq, Zenon
<1>2. /\ after \in [0 .. n -> ReadersOf(Plain)] /\ after[0] = r
      /\ \A i \in 1 .. n : after[i] = GetPlain(after[i - 1], R.wire[i])
  BY PlainReadsIs, ZenonT(40)
<1>3. \A i \in 1 .. n : puts[i] = PlainPut(R.wire[i])
  BY <1>1, Zenon DEF PlainPuts
<1>4. \A i \in 1 .. n : IsPut(puts[i], Plain)
  BY FlatPutIs, Zenon
<1> HIDE DEF n, puts, after
<1>5. n \in 0 .. n /\ \A i \in 1 .. n : i - 1 \in 0 .. n
  BY <1>1
<1>6. IsReading(after, Plain, n, puts)
  BY <1>1, <1>2, <1>4, Zenon DEF IsReading
<1>7. ASSUME NEW i \in 1 .. n
      PROVE  Takes(after[i - 1], after[i], puts[i]) /\ TakesBack(after[i - 1], after[i], puts[i])
  <2>1. after[i - 1] \in ReadersOf(Plain) /\ Plain \subseteq Plain
    BY <1>2, <1>5, Zenon
  <2>2. Reads(after[i - 1], GetPlain(after[i - 1], R.wire[i]), Plain, PlainPut(R.wire[i]))
    BY <1>1, <2>1, PlainRead, Zenon
  <2> QED
    BY <1>2, <1>3, <2>2, Zenon DEF Reads
<1>8. Decodes(after[0].rest, after[n], PutAll(Plain, n, puts))
  BY <1>6, <1>7, ReadingDecodes, Zenon
<1>9. DecodesBack(after[0].rest, after[n], PutAll(Plain, n, puts))
  BY <1>6, <1>7, ReadingDecodesBack, Zenon
<1>10. after[n] = GetFlat(r, R) /\ PutAll(Plain, n, puts) = FlatPut(R)
  BY Zenon DEF GetFlat, FlatPut, after, n, puts
<1>11. after[n] \in ReadersOf(Plain)
  BY <1>2, <1>5, Zenon
<1> QED
  BY <1>2, <1>8, <1>9, <1>10, <1>11, Zenon DEF Starts, ReadersOf

(* What a reader of its own reads becomes one value. *)
LEMMA NestedRead ==
  ASSUME NEW V, NEW W, W \subseteq V, NEW r \in ReadersOf(V), r.st = "ok",
         NEW put, NEW g, Starts(r.rest, g, W, put)
  PROVE  Reads(r, Nested(r, g), V, put)
<1> USE DEF Starts
<1>1. g.st \in Outcomes /\ g.val \in W /\ g.rest \in Seq(Tokens)
  OBVIOUS
<1>2. Nested(r, g) = [st |-> g.st, val |-> Append(r.val, g.val), rest |-> g.rest]
  <2>1. \A x : [g EXCEPT !.val = x] = [st |-> g.st, val |-> x, rest |-> g.rest]
    OBVIOUS
  <2> QED
    BY <2>1, Zenon DEF Nested
<1> DEFINE h == Nested(r, g)
<1>3. h.st = g.st /\ h.val = Append(r.val, g.val) /\ h.rest = g.rest
  BY <1>2
<1>4. r.val \in Seq(V) /\ g.val \in V
  BY <1>1, ReaderIs, Zenon
<1>5. Append(r.val, g.val) \in Seq(V)
  BY <1>4, AppendProperties
<1>6. h \in ReadersOf(V)
  BY <1>1, <1>2, <1>5 DEF ReadersOf
<1>7. Takes(r, h, put)
  BY <1>3, Zenon DEF Takes, Decodes
<1>8. ASSUME NEW v \in DOMAIN put, NEW rest \in Seq(Tokens), r.rest = put[v] \o rest
      PROVE  h = Got(r, v, rest)
  <2>1. g = [st |-> "ok", val |-> v, rest |-> rest]
    BY <1>8, Zenon DEF DecodesBack
  <2>2. g.st = "ok" /\ g.val = v /\ g.rest = rest
    BY <2>1
  <2> QED
    BY <1>2, <2>2, Zenon DEF Got
<1> QED
  BY <1>6, <1>7, <1>8, Zenon DEF Reads, TakesBack

(* An element of a vector is read as it is written. *)
LEMMA ElementRead ==
  ASSUME NEW r \in ReadersOf(Seq(Plain)), NEW R, R.wire \in Seq(PlainFields)
  PROVE  Reads(r, GetElement(r, R), Seq(Plain), FlatPut(R))
<1>1. CASE r.st # "ok"
  <2>1. GetElement(r, R) = r
    BY <1>1, Zenon DEF GetElement
  <2> QED
    BY <1>1, <2>1, Zenon DEF Reads, Takes, TakesBack
<1>2. CASE r.st = "ok"
  <2> DEFINE q == [st |-> r.st, val |-> <<>>, rest |-> r.rest]
             g == GetFlat(q, R)
  <2>1. GetElement(r, R) = Nested(r, g)
    <3>1. [r EXCEPT !.val = <<>>] = q
      BY ReaderIs, Zenon
    <3> QED
      BY <1>2, <3>1, Zenon DEF GetElement
  <2>2. q \in ReadersOf(Plain) /\ q.st = "ok" /\ q.val = <<>> /\ q.rest = r.rest
    <3>1. r.st \in Outcomes /\ r.rest \in Seq(Tokens)
      BY ReaderIs, Zenon
    <3>2. <<>> \in Seq(Plain)
      BY EmptyFacts, Zenon
    <3> QED
      BY <1>2, <3>1, <3>2 DEF ReadersOf
  <2> HIDE DEF q
  <2>3. Starts(q.rest, g, Seq(Plain), FlatPut(R))
    BY <2>2, FlatRead, Zenon
  <2> HIDE DEF g
  <2>4. Starts(r.rest, g, Seq(Plain), FlatPut(R)) /\ Seq(Plain) \subseteq Seq(Plain)
    BY <2>2, <2>3, Zenon
  <2>5. Reads(r, Nested(r, g), Seq(Plain), FlatPut(R))
    BY <1>2, <2>4, NestedRead, Zenon
  <2> QED
    BY <2>1, <2>5, Zenon
<1> QED
  BY <1>1, <1>2, Zenon

(* ElementReads is what its recursive definition says. *)
LEMMA ElementReadsIs ==
  ASSUME NEW r \in ReadersOf(Seq(Plain)), NEW R, R.wire \in Seq(PlainFields), NEW n \in Nat
  PROVE  /\ ElementReads(r, R, n) \in [0 .. n -> ReadersOf(Seq(Plain))]
         /\ ElementReads(r, R, n)[0] = r
         /\ \A i \in 1 .. n : ElementReads(r, R, n)[i] = GetElement(ElementReads(r, R, n)[i - 1], R)
<1> DEFINE D == ReadersOf(Seq(Plain))
           g == [i \in 1 .. n |-> [x \in D |-> GetElement(x, R)]]
           Eq(s) == [i \in 0 .. n |-> IF i = 0 THEN r ELSE GetElement(s[i - 1], R)]
           F == ElementReads(r, R, n)
<1>1. \A x \in D : GetElement(x, R) \in D
  BY ElementRead, Zenon DEF Reads
<1>2. CanIterate(D, n, r, g)
  BY <1>1, Zenon DEF CanIterate
<1>3. \A i \in 1 .. n, x \in D : g[i][x] = GetElement(x, R)
  BY Zenon
<1>4. /\ \A i \in 1 .. n : i - 1 \in 0 .. n /\ i \in 0 .. n /\ i # 0
      /\ \A i \in 0 .. n : i # 0 => i \in 1 .. n /\ i - 1 \in 0 .. n
      /\ 0 \in 0 .. n /\ n \in 0 .. n
  OBVIOUS
<1> HIDE DEF g, D
<1>5. PICK f : Iterates(f, D, n, r, g)
  BY <1>2, IterationDefines, Zenon
<1>6. f = Eq(f)
  <2>1. f \in [0 .. n -> D] /\ f[0] = r /\ \A i \in 1 .. n : f[i] = g[i][f[i - 1]]
    BY <1>5, Zenon DEF Iterates
  <2>2. \A i \in 0 .. n : f[i] = IF i = 0 THEN r ELSE GetElement(f[i - 1], R)
    BY <1>3, <1>4, <2>1, Zenon
  <2> QED
    BY <2>1, <2>2, Zenon
<1>7. F = CHOOSE s : s = Eq(s)
  BY Zenon DEF ElementReads
<1>8. F = Eq(F)
  <2> HIDE DEF Eq, F
  <2> QED
    BY <1>6, <1>7, Zenon
<1> HIDE DEF F
<1>9. /\ F = [i \in 0 .. n |-> F[i]] /\ F[0] = r
      /\ \A i \in 1 .. n : F[i] = GetElement(F[i - 1], R)
  BY <1>4, <1>8, Zenon
<1>10. Iterates(F, D, n, r, g)
  BY <1>2, <1>3, <1>9, IteratesBySteps, Zenon
<1> QED
  BY <1>9, <1>10, Zenon DEF Iterates, F, D

-----------------------------------------------------------------------------
(* Vectors, and records *)

\* What a field may hold
FieldVal == Plain \cup Seq(Seq(Plain))

\* How a vector is written
ElementPuts(R, k) == [j \in 1 .. k |-> FlatPut(R)]
VecRows(R) == {v \in Seq(DOMAIN FlatPut(R)) : Len(v) <= MaxCapacity}
VecPut(R) ==
  [v \in VecRows(R) |->
    <<Token(4, Len(v))>> \o FlattenSeq([j \in DOMAIN v |-> PutFlat(R, v[j])])]

\* The tokens of v are its length and those of its elements
VecPutSplits(R, v) ==
  LET k == Len(v)
      all == PutAll(Seq(Plain), k, ElementPuts(R, k))
  IN  /\ k \in Nat
      /\ v \in DOMAIN all
      /\ all[v] \in Seq(Tokens)
      /\ Token(4, k) \in Tokens
      /\ VecPut(R)[v] \in Seq(Tokens)
      /\ \A rest \in Seq(Tokens) : VecPut(R)[v] \o rest = <<Token(4, k)>> \o (all[v] \o rest)

(* The elements of a vector are written one after the other. *)
LEMMA VecPutIs ==
  ASSUME NEW R, R.wire \in Seq(PlainFields)
  PROVE  /\ DOMAIN VecPut(R) = VecRows(R)
         /\ VecRows(R) \subseteq Seq(Seq(Plain))
         /\ \A k \in Nat : \A v \in DOMAIN PutAll(Seq(Plain), k, ElementPuts(R, k)) :
              k <= MaxCapacity => v \in DOMAIN VecPut(R) /\ Len(v) = k
         /\ \A v \in DOMAIN VecPut(R) : VecPutSplits(R, v)
<1> DEFINE Rw == DOMAIN FlatPut(R)
<1>1. /\ DOMAIN VecPut(R) = VecRows(R)
      /\ \A v : v \in VecRows(R) <=> v \in Seq(Rw) /\ Len(v) <= MaxCapacity
  BY Zenon DEF VecPut, VecRows
<1>2. IsPut(FlatPut(R), Seq(Plain)) /\ \A e \in Rw : FlatPut(R)[e] = PutFlat(R, e)
  BY FlatPutIs, Zenon
<1>3. Rw \subseteq Seq(Plain) /\ \A e \in Rw : FlatPut(R)[e] \in Seq(Tokens)
  BY <1>2, Zenon DEF IsPut
<1> HIDE DEF Rw
<1>4. Seq(Rw) \subseteq Seq(Seq(Plain))
  BY <1>3, SeqMonotonic
<1>5. \A k \in Nat : DOMAIN PutAll(Seq(Plain), k, ElementPuts(R, k)) = {v \in Seq(Seq(Plain)) : Len(v) = k /\ \A j \in 1 .. k : v[j] \in Rw}
  <2>1. ASSUME NEW k \in Nat
        PROVE  DOMAIN PutAll(Seq(Plain), k, ElementPuts(R, k)) = {v \in Seq(Seq(Plain)) : Len(v) = k /\ \A j \in 1 .. k : v[j] \in Rw}
    <3>1. \A j \in 1 .. k : DOMAIN ElementPuts(R, k)[j] = Rw
      BY Zenon DEF ElementPuts, Rw
    <3> QED
      BY <3>1, Zenon DEF PutAll, AllRows
  <2> QED
    BY <2>1, Zenon
<1>6. ASSUME NEW k \in Nat, NEW v \in DOMAIN PutAll(Seq(Plain), k, ElementPuts(R, k))
      PROVE  v \in Seq(Rw) /\ Len(v) = k
  <2>1. v \in Seq(Seq(Plain)) /\ Len(v) = k /\ \A j \in 1 .. k : v[j] \in Rw
    BY <1>5, Zenon
  <2>2. v \in [1 .. k -> Rw]
    BY <2>1, LenProperties
  <2> QED
    BY <2>1, <2>2, SeqDef
<1>7. ASSUME NEW v \in VecRows(R)
      PROVE  VecPutSplits(R, v)
  <2> DEFINE k == Len(v)
             puts == ElementPuts(R, k)
             all == PutAll(Seq(Plain), k, puts)
             t == Token(4, k)
  <2>0. v \in Seq(Rw)
    BY <1>1, Zenon
  <2>1. k \in Nat /\ DOMAIN v = 1 .. k /\ \A j \in 1 .. k : v[j] \in Rw
    BY <2>0, LenProperties, ElementOfSeq, Zenon
  <2>2. v \in DOMAIN all
    BY <1>4, <1>5, <2>0, <2>1, Zenon
  <2>3. \A j \in 1 .. k : IsPut(puts[j], Seq(Plain)) /\ puts[j] = FlatPut(R)
    BY <1>2, Zenon DEF ElementPuts
  <2>4. v \in AllRows(Seq(Plain), k, puts)
    BY <2>1, <2>2, <2>3, PutAllIs, Zenon
  <2>5. PutsEach(PutEach(k, puts, v), Seq(Plain), k, puts, v)
    BY <2>1, <2>3, <2>4, PutEachIs, Zenon
  <2>6. PutEach(k, puts, v) = [j \in DOMAIN v |-> PutFlat(R, v[j])]
    <3>1. \A j \in 1 .. k : puts[j][v[j]] = PutFlat(R, v[j])
      BY <1>2, <2>1, <2>3, Zenon DEF Rw
    <3> HIDE DEF puts
    <3> QED
      BY <2>1, <3>1, Zenon DEF PutEach
  <2>7. all[v] = FlattenSeq(PutEach(k, puts, v)) /\ all[v] \in Seq(Tokens)
    BY <2>5, Zenon DEF PutsEach
  <2>8. VecPut(R)[v] = <<t>> \o all[v]
    BY <2>6, <2>7, Zenon DEF VecPut, Rw
  <2>9. 4 \in Nat \ {0} /\ k \in Int
    BY <2>1
  <2>10. t \in Tokens
    BY <2>9, TokensAre, Zenon
  <2>11. <<t>> \in Seq(Tokens)
    BY <2>10, WidthOfFew, Zenon
  <2> HIDE DEF all
  <2>12. <<t>> \o all[v] \in Seq(Tokens)
    BY <2>7, <2>11, WidthOfConcat, Zenon
  <2>13. \A rest \in Seq(Tokens) : (<<t>> \o all[v]) \o rest = <<t>> \o (all[v] \o rest)
    BY <2>7, <2>11, ConcatAssociative
  <2> QED
    BY <2>1, <2>2, <2>7, <2>8, <2>10, <2>12, <2>13, Zenon DEF VecPutSplits, all
<1> QED
  BY <1>1, <1>4, <1>6, <1>7, Zenon DEF Rw

(* The elements behind the length of a vector are read as they are written. *)
LEMMA ElementsRead ==
  ASSUME NEW toks \in Seq(Tokens), NEW R, R.wire \in Seq(PlainFields), NEW k \in Nat
  PROVE  Starts(toks, ElementReads(Reader(toks), R, k)[k], Seq(Seq(Plain)),
                PutAll(Seq(Plain), k, ElementPuts(R, k)))
<1> DEFINE r == Reader(toks)
           puts == ElementPuts(R, k)
           after == ElementReads(r, R, k)
<1>1. r \in ReadersOf(Seq(Plain)) /\ r.st = "ok" /\ r.val = <<>> /\ r.rest = toks
  <2>1. <<>> \in Seq(Seq(Plain)) /\ "ok" \in Outcomes
    BY EmptyFacts, Zenon DEF Outcomes
  <2> QED
    BY <2>1 DEF ReadersOf, Reader
<1> HIDE DEF r
<1>2. /\ after \in [0 .. k -> ReadersOf(Seq(Plain))] /\ after[0] = r
      /\ \A i \in 1 .. k : after[i] = GetElement(after[i - 1], R)
  BY <1>1, ElementReadsIs, Zenon
<1>3. \A i \in 1 .. k : IsPut(puts[i], Seq(Plain)) /\ puts[i] = FlatPut(R)
  BY FlatPutIs, Zenon DEF ElementPuts
<1> HIDE DEF puts, after
<1>4. k \in 0 .. k /\ \A i \in 1 .. k : i - 1 \in 0 .. k
  OBVIOUS
<1>5. IsReading(after, Seq(Plain), k, puts)
  BY <1>1, <1>2, <1>3, Zenon DEF IsReading
<1>6. ASSUME NEW i \in 1 .. k
      PROVE  Takes(after[i - 1], after[i], puts[i]) /\ TakesBack(after[i - 1], after[i], puts[i])
  <2>1. after[i - 1] \in ReadersOf(Seq(Plain))
    BY <1>2, <1>4, Zenon
  <2>2. Reads(after[i - 1], GetElement(after[i - 1], R), Seq(Plain), FlatPut(R))
    BY <2>1, ElementRead, Zenon
  <2> QED
    BY <1>2, <1>3, <2>2, Zenon DEF Reads
<1>7. Decodes(after[0].rest, after[k], PutAll(Seq(Plain), k, puts))
  BY <1>5, <1>6, ReadingDecodes, Zenon
<1>8. DecodesBack(after[0].rest, after[k], PutAll(Seq(Plain), k, puts))
  BY <1>5, <1>6, ReadingDecodesBack, Zenon
<1>9. after[k] \in ReadersOf(Seq(Plain))
  BY <1>2, <1>4, Zenon
<1> QED
  BY <1>1, <1>2, <1>7, <1>8, <1>9, Zenon DEF Starts, ReadersOf, after, puts, r

(* Vec::<T>::deserialize reads what serialize_into() writes. *)
LEMMA VectorRead ==
  ASSUME NEW r \in ReadersOf(FieldVal), NEW R, R.wire \in Seq(PlainFields)
  PROVE  Reads(r, GetVector(r, R), FieldVal, VecPut(R))
<1>1. CASE r.st # "ok"
  <2>1. GetVector(r, R) = r
    BY <1>1, Zenon DEF GetVector
  <2> QED
    BY <1>1, <2>1, Zenon DEF Reads, Takes, TakesBack
<1>2. CASE r.st = "ok"
  <2> DEFINE n == GetLength(r)
             g == GetVector(r, R)
             k == n.val[1]
             in == ElementReads(Reader(n.rest), R, k)[k]
  <2>1. IsLength(r.rest, n)
    BY <1>2, LengthRead, Zenon
  <2>2. n.st \in Outcomes /\ n.rest \in Seq(Tokens)
    <3>1. n \in ReadersOf(Int)
      BY <2>1, Zenon DEF IsLength
    <3> QED
      BY <3>1, ReaderIs, Zenon
  <2>3. n.st = "ok" => k \in Int /\ r.rest = <<Token(4, k)>> \o n.rest
    BY <2>1, Zenon DEF IsLength
  <2>4. g = IF n.st # "ok" THEN Stop(r, n.st)
            ELSE IF k < 0 THEN Stop(r, "panic")
            ELSE IF k > MaxCapacity THEN Stop(r, "abort") ELSE Nested(r, in)
    BY <1>2, Zenon DEF GetVector, GetElements
  <2> SUFFICES Reads(r, g, FieldVal, VecPut(R))
    OBVIOUS
  <2> HIDE DEF n, g, k, in
  <2>5. ASSUME NEW v \in DOMAIN VecPut(R), NEW rest \in Seq(Tokens), r.rest = VecPut(R)[v] \o rest
        PROVE  LET all == PutAll(Seq(Plain), k, ElementPuts(R, k))
               IN  /\ n.st = "ok" /\ k = Len(v) /\ k \in Nat /\ k <= MaxCapacity
                   /\ v \in DOMAIN all /\ n.rest = all[v] \o rest
    <3> DEFINE j == Len(v)
               all == PutAll(Seq(Plain), j, ElementPuts(R, j))
    <3>1. VecPutSplits(R, v) /\ j <= MaxCapacity
      BY VecPutIs, Zenon DEF VecRows
    <3>2. /\ j \in Nat /\ v \in DOMAIN all /\ all[v] \in Seq(Tokens)
          /\ r.rest = <<Token(4, j)>> \o (all[v] \o rest)
      BY <2>5, <3>1, Zenon DEF VecPutSplits
    <3> HIDE DEF j, all
    <3>3. j \in Int
      BY <3>2
    <3>4. all[v] \o rest \in Seq(Tokens)
      BY <3>2, WidthOfConcat, Zenon
    <3>5. n.st = "ok" /\ k = j /\ n.rest = all[v] \o rest
      BY <2>1, <3>2, <3>3, <3>4, Zenon DEF IsLength, k
    <3> QED
      BY <3>1, <3>2, <3>5, Zenon DEF j, all
  <2>6. "panic" # "ok" /\ "abort" # "ok" /\ {"panic", "abort"} \subseteq Outcomes
    BY DEF Outcomes
  <2>7. CASE n.st # "ok" \/ k < 0 \/ k > MaxCapacity
    <3>1. \E how \in Outcomes : how # "ok" /\ g = Stop(r, how)
      BY <2>2, <2>4, <2>6, <2>7, Zenon
    <3>2. g \in ReadersOf(FieldVal) /\ g.st # "ok"
      BY <3>1, ReaderGoesOn, Zenon
    <3>3. ASSUME NEW v \in DOMAIN VecPut(R), NEW rest \in Seq(Tokens), r.rest = VecPut(R)[v] \o rest
          PROVE  FALSE
      <4>1. n.st = "ok" /\ k \in Nat /\ k <= MaxCapacity
        BY <2>5, <3>3, Zenon
      <4> QED
        BY <2>7, <4>1, MaxCapacityAssumption
    <3> QED
      BY <3>2, <3>3, Zenon DEF Reads, Takes, TakesBack
  <2>8. CASE n.st = "ok" /\ ~(k < 0) /\ ~(k > MaxCapacity)
    <3> DEFINE all == PutAll(Seq(Plain), k, ElementPuts(R, k))
    <3>1. k \in Nat /\ k <= MaxCapacity
      BY <2>3, <2>8, MaxCapacityAssumption
    <3>2. Starts(n.rest, in, Seq(Seq(Plain)), all)
      BY <2>2, <3>1, ElementsRead, Zenon DEF in
    <3>3. Decodes(r.rest, in, VecPut(R))
      <4> SUFFICES ASSUME in.st = "ok"
                   PROVE  in.val \in DOMAIN VecPut(R) /\ r.rest = VecPut(R)[in.val] \o in.rest
        BY Zenon DEF Decodes
      <4>1. in.val \in DOMAIN all /\ n.rest = all[in.val] \o in.rest
        BY <3>2, Zenon DEF Starts, Decodes
      <4>2. in.rest \in Seq(Tokens)
        BY <3>2 DEF Starts
      <4>3. in.val \in DOMAIN VecPut(R) /\ Len(in.val) = k
        BY <3>1, <4>1, VecPutIs, Zenon
      <4>4. VecPutSplits(R, in.val)
        BY <4>3, VecPutIs, Zenon
      <4>5. VecPut(R)[in.val] \o in.rest = <<Token(4, k)>> \o (all[in.val] \o in.rest)
        BY <4>2, <4>3, <4>4, Zenon DEF VecPutSplits
      <4> QED
        BY <2>3, <2>8, <4>1, <4>3, <4>5, Zenon
    <3>4. ASSUME NEW v \in DOMAIN VecPut(R), NEW rest \in Seq(Tokens), r.rest = VecPut(R)[v] \o rest
          PROVE  in = [st |-> "ok", val |-> v, rest |-> rest]
      <4>1. v \in DOMAIN all /\ n.rest = all[v] \o rest
        BY <2>5, <3>4, Zenon
      <4> QED
        BY <3>2, <4>1, Zenon DEF Starts, DecodesBack
    <3>5. Starts(r.rest, in, Seq(Seq(Plain)), VecPut(R)) /\ Seq(Seq(Plain)) \subseteq FieldVal
      BY <3>2, <3>3, <3>4, Zenon DEF Starts, DecodesBack, FieldVal
    <3>6. Reads(r, Nested(r, in), FieldVal, VecPut(R))
      BY <1>2, <3>5, NestedRead, Zenon
    <3> QED
      BY <2>4, <2>8, <3>6, Zenon
  <2> QED
    BY <2>7, <2>8, Zenon
<1> QED
  BY <1>1, <1>2, Zenon

\* All fields, and how each is written
Fields == PlainFields \cup DOMAIN Vectors
FieldSet(field) ==
  IF field \in DOMAIN Vectors THEN VecRows(Vectors[field]) ELSE PlainSet(field)
FieldPut(field) == IF field \in DOMAIN Vectors THEN VecPut(Vectors[field]) ELSE PlainPut(field)

(* The elements of vectors are made of plain fields. *)
LEMMA VectorsArePlain ==
  /\ \A field \in DOMAIN Vectors : Vectors[field].wire \in Seq(PlainFields)
  /\ \A field \in PlainFields \cup {"read_only"} : field \notin DOMAIN Vectors
<1>1. {"i32", "string", "buffer"} \subseteq PlainFields
  BY DEF PlainFields, ScalarFields
<1>2. \A field \in PlainFields \cup {"read_only"} : field \notin DOMAIN Vectors
  BY DEF PlainFields, ScalarFields, Vectors
<1>3. /\ Vectors.vec_string.wire = <<"string">>
      /\ Vectors.vec_id.wire = <<"string", "string">>
      /\ Vectors.vec_client_info.wire = <<"string", "string">>
      /\ Vectors.vec_txn.wire = <<"i32", "buffer">>
      /\ Vectors.vec_acl.wire = <<"i32">> \o <<"string", "string">>
  BY DEF Vectors, StringElement, Id, ACL, ClientInfo, Txn, Then, Record
<1>4. /\ <<"string">> \in Seq(PlainFields) /\ <<"string", "string">> \in Seq(PlainFields)
      /\ <<"i32", "buffer">> \in Seq(PlainFields) /\ <<"i32">> \in Seq(PlainFields)
  BY <1>1
<1>5. <<"i32">> \o <<"string", "string">> \in Seq(PlainFields)
  BY <1>4, ConcatProperties, Zenon
<1>6. DOMAIN Vectors = {"vec_string", "vec_id", "vec_acl", "vec_client_info", "vec_txn"}
  BY DEF Vectors
<1>7. \A field \in DOMAIN Vectors : Vectors[field].wire \in Seq(PlainFields)
  BY <1>3, <1>4, <1>5, <1>6, Zenon
<1> QED
  BY <1>2, <1>7, Zenon

(* PutField writes a field so. *)
LEMMA FieldPutIs ==
  ASSUME NEW field \in Fields
  PROVE  /\ IsPut(FieldPut(field), FieldVal)
         /\ DOMAIN FieldPut(field) = FieldSet(field)
         /\ \A v \in FieldSet(field) : FieldPut(field)[v] = PutField(field, v)
<1>1. CASE field \in DOMAIN Vectors
  <2> DEFINE R == Vectors[field]
  <2>1. R.wire \in Seq(PlainFields)
    BY <1>1, VectorsArePlain, Zenon
  <2>2. FieldPut(field) = VecPut(R) /\ FieldSet(field) = VecRows(R)
    BY <1>1, Zenon DEF FieldPut, FieldSet
  <2>3. \A v \in VecRows(R) : VecPut(R)[v] = PutField(field, v)
    BY <1>1, Zenon DEF VecPut, PutField
  <2> HIDE DEF R
  <2>4. /\ DOMAIN VecPut(R) = VecRows(R)
        /\ VecRows(R) \subseteq Seq(Seq(Plain))
        /\ \A v \in DOMAIN VecPut(R) : VecPutSplits(R, v)
    BY <2>1, VecPutIs, Zenon
  <2>5. \A v \in DOMAIN VecPut(R) : VecPut(R)[v] \in Seq(Tokens)
    BY <2>4, Zenon DEF VecPutSplits
  <2>6. VecPut(R) = [v \in DOMAIN VecPut(R) |-> VecPut(R)[v]]
    BY Zenon DEF VecPut
  <2>7. IsPut(VecPut(R), FieldVal)
    BY <2>4, <2>5, <2>6, Zenon DEF IsPut, FieldVal
  <2> QED
    BY <2>2, <2>3, <2>4, <2>7, Zenon
<1>2. CASE field \notin DOMAIN Vectors
  <2>1. field \in PlainFields
    BY <1>2, Zenon DEF Fields
  <2>2. FieldPut(field) = PlainPut(field) /\ FieldSet(field) = PlainSet(field)
    BY <1>2, Zenon DEF FieldPut, FieldSet
  <2>3. \A v : PutField(field, v) = PutPlain(field, v)
    BY <1>2, Zenon DEF PutField
  <2>4. /\ IsPut(PlainPut(field), Plain) /\ DOMAIN PlainPut(field) = PlainSet(field)
        /\ \A v \in PlainSet(field) : PlainPut(field)[v] = PutPlain(field, v)
    BY <2>1, PlainPutIs, Zenon
  <2>5. IsPut(PlainPut(field), FieldVal)
    BY <2>4, Zenon DEF IsPut, FieldVal
  <2> QED
    BY <2>2, <2>3, <2>4, <2>5, Zenon
<1> QED
  BY <1>1, <1>2, Zenon

(* Every field is read as it is written. *)
LEMMA FieldRead ==
  ASSUME NEW r \in ReadersOf(FieldVal), NEW field \in Fields
  PROVE  Reads(r, GetField(r, field), FieldVal, FieldPut(field))
<1>1. CASE field \in DOMAIN Vectors
  <2>1. Vectors[field].wire \in Seq(PlainFields)
    BY <1>1, VectorsArePlain, Zenon
  <2>2. Reads(r, GetVector(r, Vectors[field]), FieldVal, VecPut(Vectors[field]))
    BY <2>1, VectorRead, Zenon
  <2> QED
    BY <1>1, <2>2, Zenon DEF GetField, FieldPut
<1>2. CASE field \notin DOMAIN Vectors
  <2>1. field \in PlainFields /\ Plain \subseteq FieldVal
    BY <1>2, Zenon DEF Fields, FieldVal
  <2>2. Reads(r, GetPlain(r, field), FieldVal, PlainPut(field))
    BY <2>1, PlainRead, Zenon
  <2> QED
    BY <1>2, <2>2, Zenon DEF GetField, FieldPut
<1> QED
  BY <1>1, <1>2, Zenon

\* The fields of all records
WireFields == Fields \cup {"read_only"}

(* FieldReads is what its recursive definition says. *)
LEMMA FieldReadsIs ==
  ASSUME NEW r \in ReadersOf(FieldVal), NEW R, R.wire \in Seq(WireFields)
  PROVE  /\ FieldReads(r, R) \in [0 .. Len(R.wire) -> ReadersOf(FieldVal)]
         /\ FieldReads(r, R)[0] = r
         /\ \A i \in 1 .. Len(R.wire) :
              FieldReads(r, R)[i] = GetField(FieldReads(r, R)[i - 1], R.wire[i])
<1> DEFINE wire == R.wire
           n == Len(wire)
           D == ReadersOf(FieldVal)
           g == [i \in 1 .. n |-> [x \in D |-> GetField(x, wire[i])]]
           Eq(s) == [i \in 0 .. n |-> IF i = 0 THEN r ELSE GetField(s[i - 1], wire[i])]
           F == FieldReads(r, R)
<1>1. n \in Nat /\ \A i \in 1 .. n : wire[i] \in WireFields
  BY LenProperties, ElementOfSeq, Zenon
<1> HIDE DEF n
<1>2. \A x \in D, field \in WireFields : GetField(x, field) \in D
  <2>1. ASSUME NEW x \in D, NEW field \in WireFields, field \in Fields
        PROVE  GetField(x, field) \in D
    BY <2>1, FieldRead, Zenon DEF Reads
  <2>2. ASSUME NEW x \in D
        PROVE  GetField(x, "read_only") \in D
    <3>1. GetField(x, "read_only") = GetPlain(x, "read_only")
      BY VectorsArePlain, Zenon DEF GetField
    <3>2. Plain \subseteq FieldVal
      BY Zenon DEF FieldVal
    <3> QED
      BY <3>1, <3>2, ReadOnlyRead, Zenon
  <2> QED
    BY <2>1, <2>2, Zenon DEF WireFields
<1>3. CanIterate(D, n, r, g)
  BY <1>1, <1>2, Zenon DEF CanIterate
<1>4. \A i \in 1 .. n, x \in D : g[i][x] = GetField(x, wire[i])
  BY Zenon
<1>5. /\ \A i \in 1 .. n : i - 1 \in 0 .. n /\ i \in 0 .. n /\ i # 0
      /\ \A i \in 0 .. n : i # 0 => i \in 1 .. n /\ i - 1 \in 0 .. n
      /\ 0 \in 0 .. n /\ n \in 0 .. n
  BY <1>1
<1> HIDE DEF g, D
<1>6. PICK f : Iterates(f, D, n, r, g)
  BY <1>3, IterationDefines, Zenon
<1>7. f = Eq(f)
  <2>1. f \in [0 .. n -> D] /\ f[0] = r /\ \A i \in 1 .. n : f[i] = g[i][f[i - 1]]
    BY <1>6, Zenon DEF Iterates
  <2>2. \A i \in 0 .. n : f[i] = IF i = 0 THEN r ELSE GetField(f[i - 1], wire[i])
    BY <1>4, <1>5, <2>1, Zenon
  <2> QED
    BY <2>1, <2>2, Zenon
<1>8. F = CHOOSE s : s = Eq(s)
  BY Zenon DEF FieldReads, n
<1>9. F = Eq(F)
  <2> HIDE DEF Eq, F
  <2> QED
    BY <1>7, <1>8, Zenon
<1> HIDE DEF F
<1>10. /\ F = [i \in 0 .. n |-> F[i]] /\ F[0] = r
       /\ \A i \in 1 .. n : F[i] = GetField(F[i - 1], wire[i])
  BY <1>5, <1>9, Zenon
<1>11. Iterates(F, D, n, r, g)
  BY <1>3, <1>4, <1>10, IteratesBySteps, Zenon
<1> QED
  BY <1>10, <1>11, Zenon DEF Iterates, F, n, D

\* How a record is written
FieldPuts(R) == [i \in DOMAIN R.wire |-> FieldPut(R.wire[i])]
RecPut(R) == PutAll(FieldVal, Len(R.wire), FieldPuts(R))

(* The first m fields of a record are read as they are written. *)
LEMMA FieldsRead ==
  ASSUME NEW toks \in Seq(Tokens), NEW R, R.wire \in Seq(WireFields), NEW m \in 0 .. Len(R.wire),
         \A i \in 1 .. m : R.wire[i] \in Fields
  PROVE  Starts(toks, FieldReads(Reader(toks), R)[m], Seq(FieldVal), PutAll(FieldVal, m, FieldPuts(R)))
<1> DEFINE n == Len(R.wire)
           r == Reader(toks)
           puts == FieldPuts(R)
           F == FieldReads(r, R)
           after == [i \in 0 .. m |-> F[i]]
<1>1. n \in Nat /\ DOMAIN R.wire = 1 .. n
  BY LenProperties, Zenon
<1>2. r \in ReadersOf(FieldVal) /\ r.st = "ok" /\ r.val = <<>> /\ r.rest = toks
  <2>1. <<>> \in Seq(FieldVal) /\ "ok" \in Outcomes
    BY EmptyFacts, Zenon DEF Outcomes
  <2> QED
    BY <2>1 DEF ReadersOf, Reader
<1> HIDE DEF r
<1>3. /\ F \in [0 .. n -> ReadersOf(FieldVal)] /\ F[0] = r
      /\ \A i \in 1 .. n : F[i] = GetField(F[i - 1], R.wire[i])
  BY <1>2, FieldReadsIs, ZenonT(40)
<1> HIDE DEF F, n
<1>4. /\ m \in Nat /\ m \in 0 .. m /\ 0 \in 0 .. m
      /\ \A i \in 0 .. m : i \in 0 .. n
      /\ \A i \in 1 .. m : i - 1 \in 0 .. m /\ i \in 0 .. m /\ i \in 1 .. n
  BY <1>1 DEF n
<1>5. \A i \in 1 .. m : puts[i] = FieldPut(R.wire[i]) /\ IsPut(puts[i], FieldVal)
  BY <1>1, <1>4, FieldPutIs, Zenon DEF FieldPuts
<1>6. /\ after \in [0 .. m -> ReadersOf(FieldVal)] /\ after[0] = r /\ after[m] = F[m]
      /\ \A i \in 1 .. m : after[i] = GetField(after[i - 1], R.wire[i])
  BY <1>3, <1>4, Zenon
<1> HIDE DEF puts, after
<1>7. IsReading(after, FieldVal, m, puts)
  BY <1>2, <1>4, <1>5, <1>6, Zenon DEF IsReading
<1>8. ASSUME NEW i \in 1 .. m
      PROVE  Takes(after[i - 1], after[i], puts[i]) /\ TakesBack(after[i - 1], after[i], puts[i])
  <2>1. after[i - 1] \in ReadersOf(FieldVal)
    BY <1>4, <1>6, Zenon
  <2>2. Reads(after[i - 1], GetField(after[i - 1], R.wire[i]), FieldVal, FieldPut(R.wire[i]))
    BY <2>1, FieldRead, Zenon
  <2> QED
    BY <1>5, <1>6, <2>2, Zenon DEF Reads
<1>9. Decodes(after[0].rest, after[m], PutAll(FieldVal, m, puts))
  BY <1>7, <1>8, ReadingDecodes, Zenon
<1>10. DecodesBack(after[0].rest, after[m], PutAll(FieldVal, m, puts))
  BY <1>7, <1>8, ReadingDecodesBack, Zenon
<1>11. after[m] \in ReadersOf(FieldVal)
  BY <1>4, <1>6, Zenon
<1> QED
  BY <1>2, <1>6, <1>9, <1>10, <1>11, Zenon DEF Starts, ReadersOf, puts, F, r

(* serialize_into() writes a record so. *)
LEMMA RecPutIs ==
  ASSUME NEW R, R.wire \in Seq(Fields)
  PROVE  /\ IsPut(RecPut(R), Seq(FieldVal))
         /\ \A i \in 1 .. Len(R.wire) : IsPut(FieldPuts(R)[i], FieldVal)
         /\ \A val \in DOMAIN RecPut(R) : RecPut(R)[val] = Serialize(R, val)
         /\ DOMAIN RecPut(R) =
              {val \in Seq(FieldVal) : /\ Len(val) = Len(R.wire)
                                       /\ \A i \in 1 .. Len(R.wire) : val[i] \in FieldSet(R.wire[i])}
<1> DEFINE n == Len(R.wire)
           puts == FieldPuts(R)
           All == AllRows(FieldVal, n, puts)
<1>1. n \in Nat /\ DOMAIN R.wire = 1 .. n /\ \A i \in 1 .. n : R.wire[i] \in Fields
  BY LenProperties, ElementOfSeq, Zenon
<1>2. \A i \in 1 .. n : puts[i] = FieldPut(R.wire[i])
  BY <1>1, Zenon DEF FieldPuts
<1>3. \A i \in 1 .. n : IsPut(puts[i], FieldVal) /\ DOMAIN puts[i] = FieldSet(R.wire[i])
  BY <1>1, <1>2, FieldPutIs, Zenon
<1>4. IsPut(RecPut(R), Seq(FieldVal)) /\ DOMAIN RecPut(R) = All
  BY <1>1, <1>3, PutAllIs, Zenon DEF RecPut
<1>5. ASSUME NEW val \in All
      PROVE  RecPut(R)[val] = Serialize(R, val)
  <2>1. \A i \in 1 .. n : puts[i][val[i]] = PutField(R.wire[i], val[i])
    <3>1. ASSUME NEW i \in 1 .. n
          PROVE  puts[i][val[i]] = PutField(R.wire[i], val[i])
      <4>1. val[i] \in FieldSet(R.wire[i])
        BY <1>3, Zenon DEF AllRows
      <4>2. FieldPut(R.wire[i])[val[i]] = PutField(R.wire[i], val[i])
        BY <1>1, <4>1, FieldPutIs, Zenon
      <4> QED
        BY <1>2, <4>2, Zenon
    <3> QED
      BY <3>1, Zenon
  <2>2. PutEach(n, puts, val) = [i \in 1 .. n |-> PutField(R.wire[i], val[i])]
    BY <2>1, Zenon DEF PutEach
  <2>3. RecPut(R)[val] = FlattenSeq(PutEach(n, puts, val))
    BY Zenon DEF RecPut, PutAll
  <2> QED
    BY <1>1, <2>2, <2>3, Zenon DEF Serialize
<1>6. All = {val \in Seq(FieldVal) : Len(val) = n /\ \A i \in 1 .. n : val[i] \in FieldSet(R.wire[i])}
  <2>1. \A val \in Seq(FieldVal) : (\A i \in 1 .. n : val[i] \in DOMAIN puts[i])
                                   <=> (\A i \in 1 .. n : val[i] \in FieldSet(R.wire[i]))
    BY <1>3, Zenon
  <2> QED
    BY <2>1, Zenon DEF AllRows
<1> HIDE DEF All, puts
<1> QED
  BY <1>3, <1>4, <1>5, <1>6, Zenon DEF puts

(* deserialize() reads what serialize_into() writes. *)
LEMMA RecordRead ==
  ASSUME NEW toks \in Seq(Tokens), NEW R, R.wire \in Seq(Fields)
  PROVE  Starts(toks, Deserialize(R, toks), Seq(FieldVal), RecPut(R))
<1> DEFINE n == Len(R.wire)
<1>1. n \in Nat /\ \A i \in 1 .. n : R.wire[i] \in Fields
  BY LenProperties, ElementOfSeq, Zenon
<1>2. n \in 0 .. n
  BY <1>1
<1>3. R.wire \in Seq(WireFields)
  <2>1. Fields \subseteq WireFields
    BY Zenon DEF WireFields
  <2> QED
    BY <2>1, SeqMonotonic
<1>4. Starts(toks, FieldReads(Reader(toks), R)[n], Seq(FieldVal), PutAll(FieldVal, n, FieldPuts(R)))
  BY <1>1, <1>2, <1>3, FieldsRead, Zenon
<1> QED
  BY <1>4, Zenon DEF Deserialize, RecPut

-----------------------------------------------------------------------------
(* Sizes *)

\* The bytes of a field of fixed width, and the fields that have none
FixedWidth(field) ==
  IF field \in ScalarFields THEN ScalarWidth[field] ELSE IF field = "read_only" THEN 1 ELSE 0
Varies(field) == field \in {"string", "buffer"} \cup DOMAIN Vectors
FixedWidths(wire) == [i \in DOMAIN wire |-> FixedWidth(wire[i])]

\* size() asks all fields that vary for theirs, and counts the others in
WellSized(R) ==
  /\ R.sized = {i \in DOMAIN R.wire : Varies(R.wire[i])}
  /\ R.fixed = Total(FixedWidths(R.wire))

(* A field varies or has a fixed width. *)
LEMMA FixedWidthIs ==
  ASSUME NEW field \in WireFields
  PROVE  /\ FixedWidth(field) \in Nat
         /\ Varies(field) => FixedWidth(field) = 0
         /\ ~Varies(field) => field \in ScalarFields \cup {"read_only"}
<1>1. CASE field \in ScalarFields \cup {"read_only"}
  BY <1>1 DEF FixedWidth, Varies, ScalarFields, ScalarWidth, Vectors
<1>2. CASE field \notin ScalarFields \cup {"read_only"}
  <2>1. Varies(field) /\ FixedWidth(field) = 0
    BY <1>2, Zenon DEF Varies, FixedWidth, WireFields, Fields, PlainFields
  <2> QED
    BY <2>1
<1> QED
  BY <1>1, <1>2, Zenon

(* The bytes of a plain field. *)
LEMMA PlainWidth ==
  ASSUME NEW field \in PlainFields, NEW v \in PlainSet(field)
  PROVE  /\ PutPlain(field, v) \in Seq(Tokens)
         /\ BytesSize(v) \in Nat \/ ~Varies(field)
         /\ Width(PutPlain(field, v)) = IF Varies(field) THEN BytesSize(v) ELSE FixedWidth(field)
<1>1. CASE field \in ScalarFields
  <2> DEFINE w == ScalarWidth[field]
  <2>1. w \in Nat \ {0} /\ PutPlain(field, v) = ScalarPut(w)[v] /\ v \in Int
    BY <1>1, PlainPutIs, Zenon DEF PlainSet
  <2>2. ScalarPut(w)[v] = <<Token(w, v)>>
    BY <2>1, Zenon DEF ScalarPut
  <2>3. Token(w, v) \in Tokens /\ Token(w, v).w = w
    BY <2>1, TokensAre, Zenon
  <2>4. Width(<<Token(w, v)>>) = w /\ <<Token(w, v)>> \in Seq(Tokens)
    BY <2>3, WidthOfFew, Zenon
  <2>5. FixedWidth(field) = w /\ ~Varies(field)
    BY <1>1 DEF FixedWidth, Varies, ScalarFields, Vectors
  <2> QED
    BY <2>1, <2>2, <2>4, <2>5, Zenon
<1>2. CASE field \notin ScalarFields
  <2>1. field \in {"string", "buffer"} /\ Varies(field)
    BY <1>2, Zenon DEF PlainFields, Varies
  <2>2. PutPlain(field, v) = PutBytes(v) /\ v \in ContentsOf(field = "string")
    BY <1>2, <2>1, Zenon DEF PutPlain, PlainSet
  <2>3. v \in Seq(Tokens) /\ PutBytes(v) \in Seq(Tokens)
    BY <2>2, BytesPutIs, Zenon
  <2>4. Width(v) \in Nat
    BY <2>3, WidthsAre, Zenon
  <2>5. Token(4, Width(v)) \in Tokens /\ Token(4, Width(v)).w = 4
    <3>1. 4 \in Nat \ {0} /\ Width(v) \in Int
      BY <2>4
    <3> QED
      BY <3>1, TokensAre, ZenonT(40)
  <2>6. Width(PutBytes(v)) = 4 + Width(v)
    BY <2>3, <2>5, TokenFirst, Zenon DEF PutBytes
  <2>7. 4 + Width(v) \in Nat
    BY <2>4
  <2> QED
    BY <2>1, <2>2, <2>3, <2>6, <2>7, Zenon DEF BytesSize
<1> QED
  BY <1>1, <1>2, Zenon

(* Fields of a fixed width, and the others, add up to all. *)
LEMMA SizesAddUp ==
  ASSUME NEW R, R.wire \in Seq(WireFields), WellSized(R), NEW ss \in [1 .. Len(R.wire) -> Seq(Tokens)],
         NEW b, \A i \in 1 .. Len(R.wire) : Varies(R.wire[i]) => b[i] \in Nat,
         \A i \in 1 .. Len(R.wire) :
           Width(ss[i]) = IF Varies(R.wire[i]) THEN b[i] ELSE FixedWidth(R.wire[i])
  PROVE  LET rest == [i \in DOMAIN R.wire |-> IF i \in R.sized THEN b[i] ELSE 0]
         IN  /\ Width(FlattenSeq(ss)) = R.fixed + Total(rest)
             /\ FlattenSeq(ss) \in Seq(Tokens)
<1> DEFINE n == Len(R.wire)
           a == FixedWidths(R.wire)
           c == [i \in DOMAIN R.wire |-> IF i \in R.sized THEN b[i] ELSE 0]
<1>1. n \in Nat /\ DOMAIN R.wire = 1 .. n /\ \A i \in 1 .. n : R.wire[i] \in WireFields
  BY LenProperties, ElementOfSeq, Zenon
<1>2. a \in [1 .. n -> Nat] /\ \A i \in 1 .. n : a[i] = FixedWidth(R.wire[i])
  BY <1>1, FixedWidthIs, Zenon DEF FixedWidths
<1>3. \A i \in 1 .. n : i \in R.sized <=> Varies(R.wire[i])
  BY <1>1, Zenon DEF WellSized
<1>4. c \in [1 .. n -> Nat] /\ \A i \in 1 .. n : c[i] = IF Varies(R.wire[i]) THEN b[i] ELSE 0
  <2>1. 0 \in Nat
    OBVIOUS
  <2> QED
    BY <1>1, <1>3, <2>1, Zenon
<1> HIDE DEF a, c
<1>5. \A i \in 1 .. n : Width(ss[i]) = a[i] + c[i]
  <2>1. ASSUME NEW i \in 1 .. n
        PROVE  Width(ss[i]) = a[i] + c[i]
    <3>1. a[i] \in Nat /\ c[i] \in Nat
      BY <1>2, <1>4, Zenon
    <3>2. CASE Varies(R.wire[i])
      <4>1. a[i] = 0 /\ c[i] = Width(ss[i])
        BY <1>1, <1>2, <1>4, <3>2, FixedWidthIs, Zenon
      <4> QED
        BY <3>1, <4>1
    <3>3. CASE ~Varies(R.wire[i])
      <4>1. c[i] = 0 /\ a[i] = Width(ss[i])
        BY <1>2, <1>4, <3>3, Zenon
      <4> QED
        BY <3>1, <4>1
    <3> QED
      BY <3>2, <3>3, Zenon
  <2> QED
    BY <2>1, Zenon
<1>6. /\ Width(FlattenSeq(ss)) = Total([i \in 1 .. n |-> Width(ss[i])])
      /\ FlattenSeq(ss) \in Seq(Tokens)
  BY <1>1, WidthOfFlat, Zenon
<1>7. [i \in 1 .. n |-> Width(ss[i])] = [i \in 1 .. n |-> a[i] + c[i]]
  BY <1>5, Zenon
<1>8. Total([i \in 1 .. n |-> a[i] + c[i]]) = Total(a) + Total(c)
  BY <1>1, <1>2, <1>4, TotalOfSums, Zenon
<1>9. R.fixed = Total(a)
  BY Zenon DEF WellSized, a
<1> QED
  BY <1>6, <1>7, <1>8, <1>9, Zenon DEF c

(* size() of an element is the number of its bytes. *)
LEMMA FlatWidth ==
  ASSUME NEW R, R.wire \in Seq(PlainFields), WellSized(R), NEW val \in DOMAIN FlatPut(R)
  PROVE  /\ Width(PutFlat(R, val)) = FlatSize(R, val)
         /\ PutFlat(R, val) \in Seq(Tokens) /\ FlatSize(R, val) \in Nat
<1> DEFINE n == Len(R.wire)
           ss == [i \in DOMAIN R.wire |-> PutPlain(R.wire[i], val[i])]
           b == [i \in DOMAIN R.wire |-> BytesSize(val[i])]
<1>1. n \in Nat /\ DOMAIN R.wire = 1 .. n /\ \A i \in 1 .. n : R.wire[i] \in PlainFields
  BY LenProperties, ElementOfSeq, Zenon
<1>2. \A i \in 1 .. n : val[i] \in PlainSet(R.wire[i])
  BY FlatPutIs, Zenon
<1>3. \A i \in 1 .. n : ss[i] = PutPlain(R.wire[i], val[i]) /\ b[i] = BytesSize(val[i])
  BY <1>1, Zenon
<1>4. ss \in [1 .. n -> Seq(Tokens)]
  BY <1>1, <1>2, PlainWidth, Zenon
<1>5. FlatSize(R, val) = R.fixed + Total([i \in DOMAIN R.wire |-> IF i \in R.sized THEN b[i] ELSE 0])
  BY Zenon DEF FlatSize
<1>6. PutFlat(R, val) = FlattenSeq(ss)
  BY Zenon DEF PutFlat
<1> HIDE DEF ss, b
<1>7. \A i \in 1 .. n : /\ Varies(R.wire[i]) => b[i] \in Nat
                        /\ Width(ss[i]) = IF Varies(R.wire[i]) THEN b[i] ELSE FixedWidth(R.wire[i])
  BY <1>1, <1>2, <1>3, PlainWidth, Zenon
<1>8. R.wire \in Seq(WireFields)
  <2>1. PlainFields \subseteq WireFields
    BY Zenon DEF WireFields, Fields
  <2> QED
    BY <2>1, SeqMonotonic
<1>9. /\ Width(FlattenSeq(ss)) = R.fixed + Total([i \in DOMAIN R.wire |-> IF i \in R.sized THEN b[i] ELSE 0])
      /\ FlattenSeq(ss) \in Seq(Tokens)
  BY <1>4, <1>7, <1>8, SizesAddUp, Zenon
<1>10. Width(FlattenSeq(ss)) \in Nat
  BY <1>9, WidthsAre, Zenon
<1> QED
  BY <1>5, <1>6, <1>9, <1>10, Zenon

\* A record of fields in S whose size() is right
Fits(S, R) == R.wire \in Seq(S) /\ WellSized(R)

(* The widths of the fields of a record are numbers. *)
LEMMA FixedWidthsAre ==
  ASSUME NEW wire \in Seq(WireFields)
  PROVE  /\ FixedWidths(wire) \in Seq(Nat) /\ Len(FixedWidths(wire)) = Len(wire)
         /\ \A i \in 1 .. Len(wire) : FixedWidths(wire)[i] = FixedWidth(wire[i])
         /\ Len(wire) \in Nat /\ DOMAIN wire = 1 .. Len(wire)
<1> DEFINE n == Len(wire)
           ns == FixedWidths(wire)
<1>1. n \in Nat /\ DOMAIN wire = 1 .. n /\ \A i \in 1 .. n : wire[i] \in WireFields
  BY LenProperties, ElementOfSeq, Zenon
<1>2. ns \in [1 .. n -> Nat] /\ \A i \in 1 .. n : ns[i] = FixedWidth(wire[i])
  BY <1>1, FixedWidthIs, Zenon DEF FixedWidths
<1> HIDE DEF n, ns
<1>3. ns \in Seq(Nat) /\ Len(ns) = n
  BY <1>1, <1>2, SeqDef
<1> QED
  BY <1>1, <1>2, <1>3, Zenon DEF n, ns

(* size() of one field. *)
LEMMA OneFits ==
  ASSUME NEW S, S \subseteq WireFields, NEW R, R.wire \in Seq(S), Len(R.wire) = 1,
         1 \in R.sized <=> Varies(R.wire[1]),
         R.sized \subseteq 1 .. 1,
         R.fixed = FixedWidth(R.wire[1])
  PROVE  Fits(S, R)
<1> DEFINE ns == FixedWidths(R.wire)
           T == SumTo(ns)
<1>1. R.wire \in Seq(WireFields)
  BY SeqMonotonic
<1>2. /\ ns \in Seq(Nat) /\ Len(ns) = 1 /\ DOMAIN R.wire = 1 .. 1
      /\ \A i \in 1 .. 1 : ns[i] = FixedWidth(R.wire[i])
  BY <1>1, FixedWidthsAre, Zenon
<1> HIDE DEF ns
<1>3. \A i \in 1 .. 1 : ns[i] \in Nat
  BY <1>2, ElementOfSeq, Zenon
<1>4. T[0] = 0 /\ (\A i \in 1 .. 1 : T[i] = T[i - 1] + ns[i]) /\ Total(ns) = T[1]
  BY <1>2, SumToIs, Zenon DEF Total
<1> HIDE DEF T
<1>5. T[1] = T[0] + ns[1]
  BY <1>3, <1>4
<1>6. ns[1] \in Nat
  BY <1>3
<1>7. Total(ns) = ns[1]
  BY <1>4, <1>5, <1>6
<1>8. ns[1] = FixedWidth(R.wire[1])
  BY <1>2
<1>9. Total(ns) = R.fixed
  BY <1>7, <1>8, Zenon
<1>10. 1 .. 1 = {1}
  OBVIOUS
<1>11. R.sized = {i \in DOMAIN R.wire : Varies(R.wire[i])}
  BY <1>2, <1>10, Zenon
<1> QED
  BY <1>9, <1>11, Zenon DEF Fits, WellSized, ns

(* size() of two fields. *)
LEMMA TwoFit ==
  ASSUME NEW S, S \subseteq WireFields, NEW R, R.wire \in Seq(S), Len(R.wire) = 2,
         1 \in R.sized <=> Varies(R.wire[1]),
         2 \in R.sized <=> Varies(R.wire[2]),
         R.sized \subseteq 1 .. 2,
         R.fixed = FixedWidth(R.wire[1]) + FixedWidth(R.wire[2])
  PROVE  Fits(S, R)
<1> DEFINE ns == FixedWidths(R.wire)
           T == SumTo(ns)
<1>1. R.wire \in Seq(WireFields)
  BY SeqMonotonic
<1>2. /\ ns \in Seq(Nat) /\ Len(ns) = 2 /\ DOMAIN R.wire = 1 .. 2
      /\ \A i \in 1 .. 2 : ns[i] = FixedWidth(R.wire[i])
  BY <1>1, FixedWidthsAre, Zenon
<1> HIDE DEF ns
<1>3. \A i \in 1 .. 2 : ns[i] \in Nat
  BY <1>2, ElementOfSeq, Zenon
<1>4. T[0] = 0 /\ (\A i \in 1 .. 2 : T[i] = T[i - 1] + ns[i]) /\ Total(ns) = T[2]
  BY <1>2, SumToIs, Zenon DEF Total
<1> HIDE DEF T
<1>5. T[1] = T[0] + ns[1] /\ T[2] = T[1] + ns[2]
  BY <1>3, <1>4
<1>6. ns[1] \in Nat /\ ns[2] \in Nat
  BY <1>3
<1>7. Total(ns) = ns[1] + ns[2]
  BY <1>4, <1>5, <1>6
<1>8. ns[1] = FixedWidth(R.wire[1]) /\ ns[2] = FixedWidth(R.wire[2])
  BY <1>2
<1>9. Total(ns) = R.fixed
  BY <1>7, <1>8, Zenon
<1>10. 1 .. 2 = {1, 2}
  OBVIOUS
<1>11. R.sized = {i \in DOMAIN R.wire : Varies(R.wire[i])}
  BY <1>2, <1>10, Zenon
<1> QED
  BY <1>9, <1>11, Zenon DEF Fits, WellSized, ns

(* size() of three fields. *)
LEMMA ThreeFit ==
  ASSUME NEW S, S \subseteq WireFields, NEW R, R.wire \in Seq(S), Len(R.wire) = 3,
         1 \in R.sized <=> Varies(R.wire[1]),
         2 \in R.sized <=> Varies(R.wire[2]),
         3 \in R.sized <=> Varies(R.wire[3]),
         R.sized \subseteq 1 .. 3,
         R.fixed = FixedWidth(R.wire[1]) + FixedWidth(R.wire[2]) + FixedWidth(R.wire[3])
  PROVE  Fits(S, R)
<1> DEFINE ns == FixedWidths(R.wire)
           T == SumTo(ns)
<1>1. R.wire \in Seq(WireFields)
  BY SeqMonotonic
<1>2. /\ ns \in Seq(Nat) /\ Len(ns) = 3 /\ DOMAIN R.wire = 1 .. 3
      /\ \A i \in 1 .. 3 : ns[i] = FixedWidth(R.wire[i])
  BY <1>1, FixedWidthsAre, Zenon
<1> HIDE DEF ns
<1>3. \A i \in 1 .. 3 : ns[i] \in Nat
  BY <1>2, ElementOfSeq, Zenon
<1>4. T[0] = 0 /\ (\A i \in 1 .. 3 : T[i] = T[i - 1] + ns[i]) /\ Total(ns) = T[3]
  BY <1>2, SumToIs, Zenon DEF Total
<1> HIDE DEF T
<1>5. T[1] = T[0] + ns[1] /\ T[2] = T[1] + ns[2] /\ T[3] = T[2] + ns[3]
  BY <1>3, <1>4
<1>6. ns[1] \in Nat /\ ns[2] \in Nat /\ ns[3] \in Nat
  BY <1>3
<1>7. Total(ns) = ns[1] + ns[2] + ns[3]
  BY <1>4, <1>5, <1>6
<1>8. ns[1] = FixedWidth(R.wire[1]) /\ ns[2] = FixedWidth(R.wire[2])
        /\ ns[3] = FixedWidth(R.wire[3])
  BY <1>2
<1>9. Total(ns) = R.fixed
  BY <1>7, <1>8, Zenon
<1>10. 1 .. 3 = {1, 2, 3}
  OBVIOUS
<1>11. R.sized = {i \in DOMAIN R.wire : Varies(R.wire[i])}
  BY <1>2, <1>10, Zenon
<1> QED
  BY <1>9, <1>11, Zenon DEF Fits, WellSized, ns

(* size() of four fields. *)
LEMMA FourFit ==
  ASSUME NEW S, S \subseteq WireFields, NEW R, R.wire \in Seq(S), Len(R.wire) = 4,
         1 \in R.sized <=> Varies(R.wire[1]),
         2 \in R.sized <=> Varies(R.wire[2]),
         3 \in R.sized <=> Varies(R.wire[3]),
         4 \in R.sized <=> Varies(R.wire[4]),
         R.sized \subseteq 1 .. 4,
         R.fixed = FixedWidth(R.wire[1]) + FixedWidth(R.wire[2]) + FixedWidth(R.wire[3])
                     + FixedWidth(R.wire[4])
  PROVE  Fits(S, R)
<1> DEFINE ns == FixedWidths(R.wire)
           T == SumTo(ns)
<1>1. R.wire \in Seq(WireFields)
  BY SeqMonotonic
<1>2. /\ ns \in Seq(Nat) /\ Len(ns) = 4 /\ DOMAIN R.wire = 1 .. 4
      /\ \A i \in 1 .. 4 : ns[i] = FixedWidth(R.wire[i])
  BY <1>1, FixedWidthsAre, Zenon
<1> HIDE DEF ns
<1>3. \A i \in 1 .. 4 : ns[i] \in Nat
  BY <1>2, ElementOfSeq, Zenon
<1>4. T[0] = 0 /\ (\A i \in 1 .. 4 : T[i] = T[i - 1] + ns[i]) /\ Total(ns) = T[4]
  BY <1>2, SumToIs, Zenon DEF Total
<1> HIDE DEF T
<1>5. T[1] = T[0] + ns[1] /\ T[2] = T[1] + ns[2] /\ T[3] = T[2] + ns[3] /\ T[4] = T[3] + ns[4]
  BY <1>3, <1>4
<1>6. ns[1] \in Nat /\ ns[2] \in Nat /\ ns[3] \in Nat /\ ns[4] \in Nat
  BY <1>3
<1>7. Total(ns) = ns[1] + ns[2] + ns[3] + ns[4]
  BY <1>4, <1>5, <1>6
<1>8. ns[1] = FixedWidth(R.wire[1]) /\ ns[2] = FixedWidth(R.wire[2])
        /\ ns[3] = FixedWidth(R.wire[3]) /\ ns[4] = FixedWidth(R.wire[4])
  BY <1>2
<1>9. Total(ns) = R.fixed
  BY <1>7, <1>8, Zenon
<1>10. 1 .. 4 = {1, 2, 3, 4}
  OBVIOUS
<1>11. R.sized = {i \in DOMAIN R.wire : Varies(R.wire[i])}
  BY <1>2, <1>10, ZenonT(40)
<1> QED
  BY <1>9, <1>11, Zenon DEF Fits, WellSized, ns

(* size() of five fields. *)
LEMMA FiveFit ==
  ASSUME NEW S, S \subseteq WireFields, NEW R, R.wire \in Seq(S), Len(R.wire) = 5,
         1 \in R.sized <=> Varies(R.wire[1]),
         2 \in R.sized <=> Varies(R.wire[2]),
         3 \in R.sized <=> Varies(R.wire[3]),
         4 \in R.sized <=> Varies(R.wire[4]),
         5 \in R.sized <=> Varies(R.wire[5]),
         R.sized \subseteq 1 .. 5,
         R.fixed = FixedWidth(R.wire[1]) + FixedWidth(R.wire[2]) + FixedWidth(R.wire[3])
                     + FixedWidth(R.wire[4]) + FixedWidth(R.wire[5])
  PROVE  Fits(S, R)
<1> DEFINE ns == FixedWidths(R.wire)
           T == SumTo(ns)
<1>1. R.wire \in Seq(WireFields)
  BY SeqMonotonic
<1>2. /\ ns \in Seq(Nat) /\ Len(ns) = 5 /\ DOMAIN R.wire = 1 .. 5
      /\ \A i \in 1 .. 5 : ns[i] = FixedWidth(R.wire[i])
  BY <1>1, FixedWidthsAre, Zenon
<1> HIDE DEF ns
<1>3. \A i \in 1 .. 5 : ns[i] \in Nat
  BY <1>2, ElementOfSeq, Zenon
<1>4. T[0] = 0 /\ (\A i \in 1 .. 5 : T[i] = T[i - 1] + ns[i]) /\ Total(ns) = T[5]
  BY <1>2, SumToIs, Zenon DEF Total
<1> HIDE DEF T
<1>5. T[1] = T[0] + ns[1] /\ T[2] = T[1] + ns[2] /\ T[3] = T[2] + ns[3]
        /\ T[4] = T[3] + ns[4] /\ T[5] = T[4] + ns[5]
  BY <1>3, <1>4
<1>6. ns[1] \in Nat /\ ns[2] \in Nat /\ ns[3] \in Nat /\ ns[4] \in Nat /\ ns[5] \in Nat
  BY <1>3
<1>7. Total(ns) = ns[1] + ns[2] + ns[3] + ns[4] + ns[5]
  BY <1>4, <1>5, <1>6
<1>8. ns[1] = FixedWidth(R.wire[1]) /\ ns[2] = FixedWidth(R.wire[2])
        /\ ns[3] = FixedWidth(R.wire[3]) /\ ns[4] = FixedWidth(R.wire[4])
           /\ ns[5] = FixedWidth(R.wire[5])
  BY <1>2
<1>9. Total(ns) = R.fixed
  BY <1>7, <1>8, Zenon
<1>10. 1 .. 5 = {1, 2, 3, 4, 5}
  OBVIOUS
<1>11. R.sized = {i \in DOMAIN R.wire : Varies(R.wire[i])}
  <2>1. \A i \in 1 .. 5 : i \in R.sized <=> Varies(R.wire[i])
    BY SMTT(60)
  <2>2. R.sized \subseteq 1 .. 5 /\ DOMAIN R.wire = 1 .. 5
    BY <1>2, Zenon
  <2> QED
    BY <2>1, <2>2
<1> QED
  BY <1>9, <1>11, Zenon DEF Fits, WellSized, ns

(* size() of six fields. *)
LEMMA SixFit ==
  ASSUME NEW S, S \subseteq WireFields, NEW R, R.wire \in Seq(S), Len(R.wire) = 6,
         1 \in R.sized <=> Varies(R.wire[1]),
         2 \in R.sized <=> Varies(R.wire[2]),
         3 \in R.sized <=> Varies(R.wire[3]),
         4 \in R.sized <=> Varies(R.wire[4]),
         5 \in R.sized <=> Varies(R.wire[5]),
         6 \in R.sized <=> Varies(R.wire[6]),
         R.sized \subseteq 1 .. 6,
         R.fixed = FixedWidth(R.wire[1]) + FixedWidth(R.wire[2]) + FixedWidth(R.wire[3])
                     + FixedWidth(R.wire[4]) + FixedWidth(R.wire[5]) + FixedWidth(R.wire[6])
  PROVE  Fits(S, R)
<1> DEFINE ns == FixedWidths(R.wire)
           T == SumTo(ns)
<1>1. R.wire \in Seq(WireFields)
  BY SeqMonotonic
<1>2. /\ ns \in Seq(Nat) /\ Len(ns) = 6 /\ DOMAIN R.wire = 1 .. 6
      /\ \A i \in 1 .. 6 : ns[i] = FixedWidth(R.wire[i])
  BY <1>1, FixedWidthsAre, Zenon
<1> HIDE DEF ns
<1>3. \A i \in 1 .. 6 : ns[i] \in Nat
  BY <1>2, ElementOfSeq, Zenon
<1>4. T[0] = 0 /\ (\A i \in 1 .. 6 : T[i] = T[i - 1] + ns[i]) /\ Total(ns) = T[6]
  BY <1>2, SumToIs, Zenon DEF Total
<1> HIDE DEF T
<1>5. T[1] = T[0] + ns[1] /\ T[2] = T[1] + ns[2] /\ T[3] = T[2] + ns[3]
        /\ T[4] = T[3] + ns[4] /\ T[5] = T[4] + ns[5] /\ T[6] = T[5] + ns[6]
  BY <1>3, <1>4
<1>6. ns[1] \in Nat /\ ns[2] \in Nat /\ ns[3] \in Nat /\ ns[4] \in Nat /\ ns[5] \in Nat
        /\ ns[6] \in Nat
  BY <1>3
<1>7. Total(ns) = ns[1] + ns[2] + ns[3] + ns[4] + ns[5] + ns[6]
  BY <1>4, <1>5, <1>6
<1>8. ns[1] = FixedWidth(R.wire[1]) /\ ns[2] = FixedWidth(R.wire[2])
        /\ ns[3] = FixedWidth(R.wire[3]) /\ ns[4] = FixedWidth(R.wire[4])
           /\ ns[5] = FixedWidth(R.wire[5]) /\ ns[6] = FixedWidth(R.wire[6])
  BY <1>2
<1>9. Total(ns) = R.fixed
  BY <1>7, <1>8, Zenon
<1>10. 1 .. 6 = {1, 2, 3, 4, 5, 6}
  OBVIOUS
<1>11. R.sized = {i \in DOMAIN R.wire : Varies(R.wire[i])}
  <2>1. \A i \in 1 .. 6 : i \in R.sized <=> Varies(R.wire[i])
    BY SMTT(60)
  <2>2. R.sized \subseteq 1 .. 6 /\ DOMAIN R.wire = 1 .. 6
    BY <1>2, Zenon
  <2> QED
    BY <2>1, <2>2
<1> QED
  BY <1>9, <1>11, Zenon DEF Fits, WellSized, ns

(* What size() has to say of each kind of field. *)
LEMMA WidthsOfFields ==
  /\ FixedWidth("i32") = 4 /\ FixedWidth("i64") = 8 /\ FixedWidth("u8") = 1
  /\ FixedWidth("read_only") = 1 /\ FixedWidth("string") = 0 /\ FixedWidth("buffer") = 0
  /\ ~Varies("i32") /\ ~Varies("i64") /\ ~Varies("u8") /\ ~Varies("read_only")
  /\ Varies("string") /\ Varies("buffer")
  /\ Fields = {"i32", "i64", "u8", "string", "buffer", "vec_string", "vec_id", "vec_acl",
               "vec_client_info", "vec_txn"}
  BY DEF FixedWidth, Varies, ScalarFields, ScalarWidth, Vectors, Fields, PlainFields

(* The same of vectors. *)
LEMMA VectorFieldsAre ==
  /\ FixedWidth("vec_string") = 0 /\ Varies("vec_string")
  /\ FixedWidth("vec_id") = 0 /\ Varies("vec_id")
  /\ FixedWidth("vec_acl") = 0 /\ Varies("vec_acl")
  /\ FixedWidth("vec_client_info") = 0 /\ Varies("vec_client_info")
  /\ FixedWidth("vec_txn") = 0 /\ Varies("vec_txn")
  BY DEF FixedWidth, Varies, ScalarFields, Vectors

(* Two records one after the other. *)
LEMMA ThenFits ==
  ASSUME NEW S, S \subseteq WireFields, NEW p, NEW q, Fits(S, p), Fits(S, q)
  PROVE  Fits(S, Then(p, q))
<1> USE DEF Fits
<1> DEFINE R == Then(p, q)
           m == Len(p.wire)
           n == Len(q.wire)
           c == p.wire \o q.wire
           a == FixedWidths(p.wire)
           b == FixedWidths(q.wire)
<1>1. /\ R.wire = c /\ R.fixed = p.fixed + q.fixed
      /\ R.sized = p.sized \cup {m + i : i \in q.sized}
  BY DEF Then, Record
<1>2. /\ c \in Seq(S) /\ Len(c) = m + n
      /\ \A i \in 1 .. m + n : c[i] = IF i <= m THEN p.wire[i] ELSE q.wire[i - m]
  BY ConcatProperties, Zenon
<1>3. p.wire \in Seq(WireFields) /\ q.wire \in Seq(WireFields) /\ c \in Seq(WireFields)
  BY <1>2, SeqMonotonic
<1>4. /\ a \in Seq(Nat) /\ Len(a) = m /\ (\A i \in 1 .. m : a[i] = FixedWidth(p.wire[i]))
      /\ m \in Nat /\ DOMAIN p.wire = 1 .. m
  BY <1>3, FixedWidthsAre, Zenon
<1>5. /\ b \in Seq(Nat) /\ Len(b) = n /\ (\A i \in 1 .. n : b[i] = FixedWidth(q.wire[i]))
      /\ n \in Nat /\ DOMAIN q.wire = 1 .. n
  BY <1>3, FixedWidthsAre, Zenon
<1>6. /\ FixedWidths(c) \in Seq(Nat) /\ Len(FixedWidths(c)) = m + n
      /\ \A i \in 1 .. m + n : FixedWidths(c)[i] = FixedWidth(c[i])
      /\ DOMAIN c = 1 .. m + n
  BY <1>2, <1>3, FixedWidthsAre, Zenon
<1>7. Total(a \o b) = Total(a) + Total(b)
  BY <1>4, <1>5, TotalOfConcat, Zenon
<1>8. p.fixed = Total(a) /\ q.fixed = Total(b)
  BY Zenon DEF WellSized
<1>9. /\ p.sized = {i \in 1 .. m : Varies(p.wire[i])}
      /\ q.sized = {i \in 1 .. n : Varies(q.wire[i])}
  BY <1>4, <1>5, Zenon DEF WellSized
<1> HIDE DEF a, b, c, m, n, R
<1> DEFINE d == a \o b
           e == FixedWidths(c)
<1>10. /\ d \in Seq(Nat) /\ Len(d) = m + n
       /\ \A i \in 1 .. m + n : d[i] = IF i <= m THEN a[i] ELSE b[i - m]
  BY <1>4, <1>5, ConcatProperties, Zenon
<1> SUFFICES Fits(S, R)
  BY DEF R
<1>11. \A i \in 1 .. m + n : /\ i <= m => i \in 1 .. m
                             /\ ~(i <= m) => i - m \in 1 .. n /\ m + (i - m) = i
                                /\ i \notin 1 .. m
  BY <1>4, <1>5
<1>12. e = d
  <2> HIDE DEF d, e
  <2>1. ASSUME NEW i \in 1 .. m + n
        PROVE  e[i] = d[i]
    <3>0. e[i] = FixedWidth(c[i])
      BY <1>6, Zenon DEF e
    <3>1. CASE i <= m
      <4>1. i \in 1 .. m
        BY <1>11, <3>1, Zenon
      <4>2. d[i] = a[i] /\ c[i] = p.wire[i]
        BY <1>2, <1>10, <3>1, Zenon
      <4> QED
        BY <1>4, <3>0, <4>1, <4>2, Zenon
    <3>2. CASE ~(i <= m)
      <4>1. i - m \in 1 .. n
        BY <1>11, <3>2, Zenon
      <4>2. d[i] = b[i - m] /\ c[i] = q.wire[i - m]
        BY <1>2, <1>10, <3>2, Zenon
      <4> QED
        BY <1>5, <3>0, <4>1, <4>2, Zenon
    <3> QED
      BY <3>1, <3>2, Zenon
  <2>2. e \in Seq(Nat) /\ Len(e) = m + n
    BY <1>6, Zenon DEF e
  <2> QED
    BY <1>10, <2>1, <2>2, SeqEqual
<1>13. R.sized = {i \in 1 .. m + n : Varies(c[i])}
  <2>1. ASSUME NEW i \in R.sized
        PROVE  i \in 1 .. m + n /\ Varies(c[i])
    <3>1. CASE i \in p.sized
      <4>1. i \in 1 .. m /\ Varies(p.wire[i])
        BY <1>9, <3>1, Zenon
      <4>2. i \in 1 .. m + n /\ i <= m
        BY <1>4, <1>5, <4>1
      <4> QED
        BY <1>2, <4>1, <4>2, Zenon
    <3>2. CASE i \notin p.sized
      <4>1. PICK j \in 1 .. n : i = m + j /\ Varies(q.wire[j])
        BY <1>1, <1>9, <3>2, Zenon
      <4>2. i \in 1 .. m + n /\ ~(i <= m) /\ i - m = j
        BY <1>4, <1>5, <4>1
      <4> QED
        BY <1>2, <4>1, <4>2, Zenon
    <3> QED
      BY <3>1, <3>2, Zenon
  <2>2. ASSUME NEW i \in 1 .. m + n, Varies(c[i])
        PROVE  i \in R.sized
    <3>1. CASE i <= m
      BY <1>1, <1>2, <1>9, <1>11, <2>2, <3>1, Zenon
    <3>2. CASE ~(i <= m)
      <4>1. i - m \in q.sized /\ m + (i - m) = i
        BY <1>2, <1>9, <1>11, <2>2, <3>2, Zenon
      <4> QED
        BY <1>1, <4>1, Zenon
    <3> QED
      BY <3>1, <3>2, Zenon
  <2> QED
    BY <2>1, <2>2, Zenon
<1> QED
  BY <1>1, <1>2, <1>6, <1>7, <1>8, <1>12, <1>13, Zenon DEF WellSized

\* The records of up to six fields that are always all there
SmallRecords ==
  {Record(<<"buffer">>, 0, {1}),
   Record(<<"i32">>, 4, {}),
   Record(<<"string">>, 0, {1}),
   Record(<<"vec_client_info">>, 0, {1}),
   Record(<<"vec_string">>, 0, {1}),
   Record(<<"vec_txn">>, 0, {1}),
   Record(<<"i32", "buffer">>, 4, {2}),
   Record(<<"i32", "i32">>, 4 + 4, {}),
   Record(<<"i32", "i64">>, 4 + 8, {}),
   Record(<<"string", "i32">>, 4, {1}),
   Record(<<"string", "string">>, 0, {1, 2}),
   Record(<<"string", "u8">>, 1, {1}),
   Record(<<"i32", "i32", "i64">>, 4 + 4 + 8, {}),
   Record(<<"i32", "i32", "string">>, 4 + 4, {3}),
   Record(<<"i32", "i64", "i32">>, 4 + 8 + 4, {}),
   Record(<<"i32", "string", "buffer">>, 4, {2, 3}),
   Record(<<"i32", "u8", "i32">>, 4 + 1 + 4, {}),
   Record(<<"i64", "i32", "buffer">>, 8 + 4, {3}),
   Record(<<"i64", "i32", "i64">>, 8 + 4 + 8, {}),
   Record(<<"string", "buffer", "i32">>, 4, {1, 2}),
   Record(<<"string", "vec_acl", "i32">>, 4, {1, 2}),
   Record(<<"i32", "i64", "buffer", "vec_id">>, 4 + 8, {3, 4}),
   Record(<<"i64", "vec_string", "vec_string", "vec_string">>, 8, {2, 3, 4}),
   Record(<<"string", "buffer", "vec_acl", "i32">>, 4, {1, 2, 3}),
   Record(<<"string", "buffer", "vec_acl", "u8">>, 1, {1, 2, 3}),
   Record(<<"string", "string", "string", "i64">>, 8, {1, 2, 3}),
   Record(<<"i64", "i32", "i64", "i64", "i32">>, 8 + 4 + 8 + 8 + 4, {}),
   Record(<<"string", "buffer", "vec_acl", "i32", "i64">>, 4 + 8, {1, 2, 3}),
   Record(<<"string", "buffer", "vec_acl", "u8", "i32">>, 1 + 4, {1, 2, 3}),
   Record(<<"i64", "vec_string", "vec_string", "vec_string", "vec_string", "vec_string">>, 8, 2 .. 6)}

(* size() of each of them is right. *)
LEMMA SmallFit ==
  ASSUME NEW R \in SmallRecords
  PROVE  Fits(Fields, R)
<1>0. Fields \subseteq WireFields
  BY DEF WireFields
<1>1. CASE R = Record(<<"buffer">>, 0, {1})
  <2>1. /\ R.wire \in Seq(Fields) /\ Len(R.wire) = 1 /\ R.fixed = 0 /\ R.sized = {1}
        /\ R.wire[1] = "buffer"
    BY <1>1, WidthsOfFields DEF Record
  <2> QED
    BY <1>0, <2>1, OneFits, WidthsOfFields
<1>2. CASE R = Record(<<"i32">>, 4, {})
  <2>1. /\ R.wire \in Seq(Fields) /\ Len(R.wire) = 1 /\ R.fixed = 4 /\ R.sized = {}
        /\ R.wire[1] = "i32"
    BY <1>2, WidthsOfFields DEF Record
  <2> QED
    BY <1>0, <2>1, OneFits, WidthsOfFields
<1>3. CASE R = Record(<<"string">>, 0, {1})
  <2>1. /\ R.wire \in Seq(Fields) /\ Len(R.wire) = 1 /\ R.fixed = 0 /\ R.sized = {1}
        /\ R.wire[1] = "string"
    BY <1>3, WidthsOfFields DEF Record
  <2> QED
    BY <1>0, <2>1, OneFits, WidthsOfFields
<1>4. CASE R = Record(<<"vec_client_info">>, 0, {1})
  <2>1. /\ R.wire \in Seq(Fields) /\ Len(R.wire) = 1 /\ R.fixed = 0 /\ R.sized = {1}
        /\ R.wire[1] = "vec_client_info"
    BY <1>4, WidthsOfFields DEF Record
  <2> QED
    BY <1>0, <2>1, OneFits, WidthsOfFields, VectorFieldsAre
<1>5. CASE R = Record(<<"vec_string">>, 0, {1})
  <2>1. /\ R.wire \in Seq(Fields) /\ Len(R.wire) = 1 /\ R.fixed = 0 /\ R.sized = {1}
        /\ R.wire[1] = "vec_string"
    BY <1>5, WidthsOfFields DEF Record
  <2> QED
    BY <1>0, <2>1, OneFits, WidthsOfFields, VectorFieldsAre
<1>6. CASE R = Record(<<"vec_txn">>, 0, {1})
  <2>1. /\ R.wire \in Seq(Fields) /\ Len(R.wire) = 1 /\ R.fixed = 0 /\ R.sized = {1}
        /\ R.wire[1] = "vec_txn"
    BY <1>6, WidthsOfFields DEF Record
  <2> QED
    BY <1>0, <2>1, OneFits, WidthsOfFields, VectorFieldsAre
<1>7. CASE R = Record(<<"i32", "buffer">>, 4, {2})
  <2>1. /\ R.wire \in Seq(Fields) /\ Len(R.wire) = 2 /\ R.fixed = 4 /\ R.sized = {2}
        /\ R.wire[1] = "i32" /\ R.wire[2] = "buffer"
    BY <1>7, WidthsOfFields DEF Record
  <2> QED
    BY <1>0, <2>1, TwoFit, WidthsOfFields
<1>8. CASE R = Record(<<"i32", "i32">>, 4 + 4, {})
  <2>1. /\ R.wire \in Seq(Fields) /\ Len(R.wire) = 2 /\ R.fixed = 4 + 4 /\ R.sized = {}
        /\ R.wire[1] = "i32" /\ R.wire[2] = "i32"
    BY <1>8, WidthsOfFields DEF Record
  <2> QED
    BY <1>0, <2>1, TwoFit, WidthsOfFields
<1>9. CASE R = Record(<<"i32", "i64">>, 4 + 8, {})
  <2>1. /\ R.wire \in Seq(Fields) /\ Len(R.wire) = 2 /\ R.fixed = 4 + 8 /\ R.sized = {}
        /\ R.wire[1] = "i32" /\ R.wire[2] = "i64"
    BY <1>9, WidthsOfFields DEF Record
  <2> QED
    BY <1>0, <2>1, TwoFit, WidthsOfFields
<1>10. CASE R = Record(<<"string", "i32">>, 4, {1})
  <2>1. /\ R.wire \in Seq(Fields) /\ Len(R.wire) = 2 /\ R.fixed = 4 /\ R.sized = {1}
        /\ R.wire[1] = "string" /\ R.wire[2] = "i32"
    BY <1>10, WidthsOfFields DEF Record
  <2> QED
    BY <1>0, <2>1, TwoFit, WidthsOfFields
<1>11. CASE R = Record(<<"string", "string">>, 0, {1, 2})
  <2>1. /\ R.wire \in Seq(Fields) /\ Len(R.wire) = 2 /\ R.fixed = 0 /\ R.sized = {1, 2}
        /\ R.wire[1] = "string" /\ R.wire[2] = "string"
    BY <1>11, WidthsOfFields DEF Record
  <2> QED
    BY <1>0, <2>1, TwoFit, WidthsOfFields
<1>12. CASE R = Record(<<"string", "u8">>, 1, {1})
  <2>1. /\ R.wire \in Seq(Fields) /\ Len(R.wire) = 2 /\ R.fixed = 1 /\ R.sized = {1}
        /\ R.wire[1] = "string" /\ R.wire[2] = "u8"
    BY <1>12, WidthsOfFields DEF Record
  <2> QED
    BY <1>0, <2>1, TwoFit, WidthsOfFields
<1>13. CASE R = Record(<<"i32", "i32", "i64">>, 4 + 4 + 8, {})
  <2>1. /\ R.wire \in Seq(Fields) /\ Len(R.wire) = 3 /\ R.fixed = 4 + 4 + 8 /\ R.sized = {}
        /\ R.wire[1] = "i32" /\ R.wire[2] = "i32" /\ R.wire[3] = "i64"
    BY <1>13, WidthsOfFields DEF Record
  <2> QED
    BY <1>0, <2>1, ThreeFit, WidthsOfFields
<1>14. CASE R = Record(<<"i32", "i32", "string">>, 4 + 4, {3})
  <2>1. /\ R.wire \in Seq(Fields) /\ Len(R.wire) = 3 /\ R.fixed = 4 + 4 /\ R.sized = {3}
        /\ R.wire[1] = "i32" /\ R.wire[2] = "i32" /\ R.wire[3] = "string"
    BY <1>14, WidthsOfFields DEF Record
  <2> QED
    BY <1>0, <2>1, ThreeFit, WidthsOfFields
<1>15. CASE R = Record(<<"i32", "i64", "i32">>, 4 + 8 + 4, {})
  <2>1. /\ R.wire \in Seq(Fields) /\ Len(R.wire) = 3 /\ R.fixed = 4 + 8 + 4 /\ R.sized = {}
        /\ R.wire[1] = "i32" /\ R.wire[2] = "i64" /\ R.wire[3] = "i32"
    BY <1>15, WidthsOfFields DEF Record
  <2> QED
    BY <1>0, <2>1, ThreeFit, WidthsOfFields
<1>16. CASE R = Record(<<"i32", "string", "buffer">>, 4, {2, 3})
  <2>1. /\ R.wire \in Seq(Fields) /\ Len(R.wire) = 3 /\ R.fixed = 4 /\ R.sized = {2, 3}
        /\ R.wire[1] = "i32" /\ R.wire[2] = "string" /\ R.wire[3] = "buffer"
    BY <1>16, WidthsOfFields DEF Record
  <2> QED
    BY <1>0, <2>1, ThreeFit, WidthsOfFields
<1>17. CASE R = Record(<<"i32", "u8", "i32">>, 4 + 1 + 4, {})
  <2>1. /\ R.wire \in Seq(Fields) /\ Len(R.wire) = 3 /\ R.fixed = 4 + 1 + 4 /\ R.sized = {}
        /\ R.wire[1] = "i32" /\ R.wire[2] = "u8" /\ R.wire[3] = "i32"
    BY <1>17, WidthsOfFields DEF Record
  <2> QED
    BY <1>0, <2>1, ThreeFit, WidthsOfFields
<1>18. CASE R = Record(<<"i64", "i32", "buffer">>, 8 + 4, {3})
  <2>1. /\ R.wire \in Seq(Fields) /\ Len(R.wire) = 3 /\ R.fixed = 8 + 4 /\ R.sized = {3}
        /\ R.wire[1] = "i64" /\ R.wire[2] = "i32" /\ R.wire[3] = "buffer"
    BY <1>18, WidthsOfFields DEF Record
  <2> QED
    BY <1>0, <2>1, ThreeFit, WidthsOfFields
<1>19. CASE R = Record(<<"i64", "i32", "i64">>, 8 + 4 + 8, {})
  <2>1. /\ R.wire \in Seq(Fields) /\ Len(R.wire) = 3 /\ R.fixed = 8 + 4 + 8 /\ R.sized = {}
        /\ R.wire[1] = "i64" /\ R.wire[2] = "i32" /\ R.wire[3] = "i64"
    BY <1>19, WidthsOfFields DEF Record
  <2> QED
    BY <1>0, <2>1, ThreeFit, WidthsOfFields
<1>20. CASE R = Record(<<"string", "buffer", "i32">>, 4, {1, 2})
  <2>1. /\ R.wire \in Seq(Fields) /\ Len(R.wire) = 3 /\ R.fixed = 4 /\ R.sized = {1, 2}
        /\ R.wire[1] = "string" /\ R.wire[2] = "buffer" /\ R.wire[3] = "i32"
    BY <1>20, WidthsOfFields DEF Record
  <2> QED
    BY <1>0, <2>1, ThreeFit, WidthsOfFields
<1>21. CASE R = Record(<<"string", "vec_acl", "i32">>, 4, {1, 2})
  <2>1. /\ R.wire \in Seq(Fields) /\ Len(R.wire) = 3 /\ R.fixed = 4 /\ R.sized = {1, 2}
        /\ R.wire[1] = "string" /\ R.wire[2] = "vec_acl" /\ R.wire[3] = "i32"
    BY <1>21, WidthsOfFields DEF Record
  <2> QED
    BY <1>0, <2>1, ThreeFit, WidthsOfFields, VectorFieldsAre
<1>22. CASE R = Record(<<"i32", "i64", "buffer", "vec_id">>, 4 + 8, {3, 4})
  <2>1. /\ R.wire \in Seq(Fields) /\ Len(R.wire) = 4 /\ R.fixed = 4 + 8 /\ R.sized = {3, 4}
        /\ R.wire[1] = "i32" /\ R.wire[2] = "i64" /\ R.wire[3] = "buffer" /\ R.wire[4] = "vec_id"
    BY <1>22, WidthsOfFields DEF Record
  <2> QED
    BY <1>0, <2>1, FourFit, WidthsOfFields, VectorFieldsAre
<1>23. CASE R = Record(<<"i64", "vec_string", "vec_string", "vec_string">>, 8, {2, 3, 4})
  <2>1. /\ R.wire \in Seq(Fields) /\ Len(R.wire) = 4 /\ R.fixed = 8 /\ R.sized = {2, 3, 4}
        /\ R.wire[1] = "i64" /\ R.wire[2] = "vec_string" /\ R.wire[3] = "vec_string"
           /\ R.wire[4] = "vec_string"
    BY <1>23, WidthsOfFields DEF Record
  <2> QED
    BY <1>0, <2>1, FourFit, WidthsOfFields, VectorFieldsAre
<1>24. CASE R = Record(<<"string", "buffer", "vec_acl", "i32">>, 4, {1, 2, 3})
  <2>1. /\ R.wire \in Seq(Fields) /\ Len(R.wire) = 4 /\ R.fixed = 4 /\ R.sized = {1, 2, 3}
        /\ R.wire[1] = "string" /\ R.wire[2] = "buffer" /\ R.wire[3] = "vec_acl"
           /\ R.wire[4] = "i32"
    BY <1>24, WidthsOfFields DEF Record
  <2> QED
    BY <1>0, <2>1, FourFit, WidthsOfFields, VectorFieldsAre
<1>25. CASE R = Record(<<"string", "buffer", "vec_acl", "u8">>, 1, {1, 2, 3})
  <2>1. /\ R.wire \in Seq(Fields) /\ Len(R.wire) = 4 /\ R.fixed = 1 /\ R.sized = {1, 2, 3}
        /\ R.wire[1] = "string" /\ R.wire[2] = "buffer" /\ R.wire[3] = "vec_acl"
           /\ R.wire[4] = "u8"
    BY <1>25, WidthsOfFields DEF Record
  <2> QED
    BY <1>0, <2>1, FourFit, WidthsOfFields, VectorFieldsAre
<1>26. CASE R = Record(<<"string", "string", "string", "i64">>, 8, {1, 2, 3})
  <2>1. /\ R.wire \in Seq(Fields) /\ Len(R.wire) = 4 /\ R.fixed = 8 /\ R.sized = {1, 2, 3}
        /\ R.wire[1] = "string" /\ R.wire[2] = "string" /\ R.wire[3] = "string"
           /\ R.wire[4] = "i64"
    BY <1>26, WidthsOfFields DEF Record
  <2> QED
    BY <1>0, <2>1, FourFit, WidthsOfFields
<1>27. CASE R = Record(<<"i64", "i32", "i64", "i64", "i32">>, 8 + 4 + 8 + 8 + 4, {})
  <2>1. /\ R.wire \in Seq(Fields) /\ Len(R.wire) = 5 /\ R.fixed = 8 + 4 + 8 + 8 + 4
           /\ R.sized = {}
        /\ R.wire[1] = "i64" /\ R.wire[2] = "i32" /\ R.wire[3] = "i64" /\ R.wire[4] = "i64"
           /\ R.wire[5] = "i32"
    BY <1>27, WidthsOfFields DEF Record
  <2> QED
    BY <1>0, <2>1, FiveFit, WidthsOfFields, SMTT(30)
<1>28. CASE R = Record(<<"string", "buffer", "vec_acl", "i32", "i64">>, 4 + 8, {1, 2, 3})
  <2>1. /\ R.wire \in Seq(Fields) /\ Len(R.wire) = 5 /\ R.fixed = 4 + 8 /\ R.sized = {1, 2, 3}
        /\ R.wire[1] = "string" /\ R.wire[2] = "buffer" /\ R.wire[3] = "vec_acl"
           /\ R.wire[4] = "i32" /\ R.wire[5] = "i64"
    BY <1>28, WidthsOfFields DEF Record
  <2> QED
    BY <1>0, <2>1, FiveFit, WidthsOfFields, VectorFieldsAre, SMTT(30)
<1>29. CASE R = Record(<<"string", "buffer", "vec_acl", "u8", "i32">>, 1 + 4, {1, 2, 3})
  <2>1. /\ R.wire \in Seq(Fields) /\ Len(R.wire) = 5 /\ R.fixed = 1 + 4 /\ R.sized = {1, 2, 3}
        /\ R.wire[1] = "string" /\ R.wire[2] = "buffer" /\ R.wire[3] = "vec_acl"
           /\ R.wire[4] = "u8" /\ R.wire[5] = "i32"
    BY <1>29, WidthsOfFields DEF Record
  <2> QED
    BY <1>0, <2>1, FiveFit, WidthsOfFields, VectorFieldsAre, SMTT(30)
<1>30. CASE R = Record(<<"i64", "vec_string", "vec_string", "vec_string", "vec_string", "vec_string">>, 8, 2 .. 6)
  <2>1. /\ R.wire \in Seq(Fields) /\ Len(R.wire) = 6 /\ R.fixed = 8 /\ R.sized = 2 .. 6
        /\ R.wire[1] = "i64" /\ R.wire[2] = "vec_string" /\ R.wire[3] = "vec_string"
           /\ R.wire[4] = "vec_string" /\ R.wire[5] = "vec_string" /\ R.wire[6] = "vec_string"
    BY <1>30, WidthsOfFields DEF Record
  <2> QED
    BY <1>0, <2>1, SixFit, WidthsOfFields, VectorFieldsAre, SMTT(30)
<1> QED
  BY <1>1, <1>2, <1>3, <1>4, <1>5, <1>6, <1>7, <1>8, <1>9, <1>10, <1>11, <1>12, <1>13, <1>14, <1>15, <1>16, <1>17, <1>18, <1>19, <1>20, <1>21, <1>22, <1>23, <1>24, <1>25, <1>26, <1>27, <1>28, <1>29, <1>30, Zenon DEF SmallRecords

(* size() of a Stat, and of the one in a snapshot. *)
LEMMA StatFits ==
  /\ Fits(Fields, Stat)
  /\ Fits(Fields, StatPersisted)
<1> DEFINE a == Record(<<"i64", "i64", "i64", "i64", "i32">>, 8 + 8 + 8 + 8 + 4, {})
           b == Record(<<"i32", "i32", "i64", "i32", "i32", "i64">>, 4 + 4 + 8 + 4 + 4 + 8, {})
           c == Record(<<"i32", "i32", "i64", "i64">>, 4 + 4 + 8 + 8, {})
<1>0. Fields \subseteq WireFields
  BY DEF WireFields
<1>1. Fits(Fields, a)
  <2>1. /\ a.wire \in Seq(Fields) /\ Len(a.wire) = 5 /\ a.fixed = 8 + 8 + 8 + 8 + 4
        /\ a.sized = {} /\ a.wire[1] = "i64" /\ a.wire[2] = "i64" /\ a.wire[3] = "i64"
        /\ a.wire[4] = "i64" /\ a.wire[5] = "i32"
    BY WidthsOfFields DEF Record
  <2> HIDE DEF a
  <2> QED
    BY <1>0, <2>1, FiveFit, WidthsOfFields, SMTT(30)
<1>2. Fits(Fields, b)
  <2>1. /\ b.wire \in Seq(Fields) /\ Len(b.wire) = 6 /\ b.fixed = 4 + 4 + 8 + 4 + 4 + 8
        /\ b.sized = {} /\ b.wire[1] = "i32" /\ b.wire[2] = "i32" /\ b.wire[3] = "i64"
        /\ b.wire[4] = "i32" /\ b.wire[5] = "i32" /\ b.wire[6] = "i64"
    BY WidthsOfFields DEF Record
  <2> HIDE DEF b
  <2> QED
    BY <1>0, <2>1, SixFit, WidthsOfFields, SMTT(30)
<1>3. Fits(Fields, c)
  <2>1. /\ c.wire \in Seq(Fields) /\ Len(c.wire) = 4 /\ c.fixed = 4 + 4 + 8 + 8
        /\ c.sized = {} /\ c.wire[1] = "i32" /\ c.wire[2] = "i32" /\ c.wire[3] = "i64"
        /\ c.wire[4] = "i64"
    BY WidthsOfFields DEF Record
  <2> HIDE DEF c
  <2> QED
    BY <1>0, <2>1, FourFit, WidthsOfFields
<1>4. /\ Then(a, b).wire = Stat.wire /\ Then(a, b).fixed = Stat.fixed
      /\ Then(a, b).sized = Stat.sized
  <2>1. Then(a, b).fixed = Stat.fixed
    BY DEF Then, Record, Stat
  <2>2. Then(a, b).sized = Stat.sized
    BY DEF Then, Record, Stat
  <2>3. Then(a, b).wire = a.wire \o b.wire
    BY DEF Then, Record
  <2>4. a.wire \o b.wire = Stat.wire
    <3> DEFINE x == a.wire
               y == b.wire
               z == x \o y
               w == Stat.wire
    <3>1. /\ x \in Seq({"i32", "i64"}) /\ Len(x) = 5
          /\ x[1] = "i64" /\ x[2] = "i64" /\ x[3] = "i64" /\ x[4] = "i64"
          /\ x[5] = "i32"
      BY DEF Record
    <3>2. /\ y \in Seq({"i32", "i64"}) /\ Len(y) = 6
          /\ y[1] = "i32" /\ y[2] = "i32" /\ y[3] = "i64" /\ y[4] = "i32"
          /\ y[5] = "i32" /\ y[6] = "i64"
      BY DEF Record
    <3>3. /\ w \in Seq({"i32", "i64"}) /\ Len(w) = 11
          /\ w[1] = "i64" /\ w[2] = "i64" /\ w[3] = "i64" /\ w[4] = "i64"
          /\ w[5] = "i32" /\ w[6] = "i32" /\ w[7] = "i32" /\ w[8] = "i64"
          /\ w[9] = "i32" /\ w[10] = "i32" /\ w[11] = "i64"
      BY DEF Record, Stat
    <3> HIDE DEF x, y, w
    <3>4. /\ z \in Seq({"i32", "i64"}) /\ Len(z) = 11
          /\ \A i \in 1 .. 11 : z[i] = IF i <= 5 THEN x[i] ELSE y[i - 5]
      <4>1. /\ z \in Seq({"i32", "i64"}) /\ Len(z) = Len(x) + Len(y)
            /\ \A i \in 1 .. Len(x) + Len(y) :
                 z[i] = IF i <= Len(x) THEN x[i] ELSE y[i - Len(x)]
        <5>1. x \in Seq({"i32", "i64"}) /\ y \in Seq({"i32", "i64"})
          BY <3>1, <3>2
        <5> QED
          BY <5>1, ConcatProperties, Zenon
      <4> HIDE DEF z
      <4>2. Len(x) + Len(y) = 11 /\ Len(x) = 5
        BY <3>1, <3>2
      <4> QED
        BY <4>1, <4>2, Zenon
    <3> HIDE DEF z
    <3>5. /\ z[1] = x[1] /\ z[2] = x[2] /\ z[3] = x[3] /\ z[4] = x[4]
          /\ z[5] = x[5]
          /\ z[6] = y[1] /\ z[7] = y[2] /\ z[8] = y[3] /\ z[9] = y[4]
          /\ z[10] = y[5] /\ z[11] = y[6]
      BY <3>4
    <3>6. \A i \in 1 .. 11 : z[i] = w[i]
      <4>1. 1 .. 11 = {1, 2, 3, 4, 5, 6, 7, 8, 9, 10, 11}
        OBVIOUS
      <4>2. /\ z[1] = w[1] /\ z[2] = w[2] /\ z[3] = w[3] /\ z[4] = w[4]
            /\ z[5] = w[5] /\ z[6] = w[6] /\ z[7] = w[7] /\ z[8] = w[8]
            /\ z[9] = w[9] /\ z[10] = w[10] /\ z[11] = w[11]
        BY <3>1, <3>2, <3>3, <3>5
      <4> QED
        BY <4>1, <4>2, Zenon
    <3>7. z = w
      BY <3>3, <3>4, <3>6, SeqEqual
    <3> QED
      BY <3>7, Zenon DEF x, y, z, w
  <2> QED
    BY <2>1, <2>2, <2>3, <2>4, Zenon
<1>5. /\ Then(a, c).wire = StatPersisted.wire /\ Then(a, c).fixed = StatPersisted.fixed
      /\ Then(a, c).sized = StatPersisted.sized
  <2>1. Then(a, c).fixed = StatPersisted.fixed
    BY DEF Then, Record, StatPersisted
  <2>2. Then(a, c).sized = StatPersisted.sized
    BY DEF Then, Record, StatPersisted
  <2>3. Then(a, c).wire = a.wire \o c.wire
    BY DEF Then, Record
  <2>4. a.wire \o c.wire = StatPersisted.wire
    <3> DEFINE x == a.wire
               y == c.wire
               z == x \o y
               w == StatPersisted.wire
    <3>1. /\ x \in Seq({"i32", "i64"}) /\ Len(x) = 5
          /\ x[1] = "i64" /\ x[2] = "i64" /\ x[3] = "i64" /\ x[4] = "i64"
          /\ x[5] = "i32"
      BY DEF Record
    <3>2. /\ y \in Seq({"i32", "i64"}) /\ Len(y) = 4
          /\ y[1] = "i32" /\ y[2] = "i32" /\ y[3] = "i64" /\ y[4] = "i64"
      BY DEF Record
    <3>3. /\ w \in Seq({"i32", "i64"}) /\ Len(w) = 9
          /\ w[1] = "i64" /\ w[2] = "i64" /\ w[3] = "i64" /\ w[4] = "i64"
          /\ w[5] = "i32" /\ w[6] = "i32" /\ w[7] = "i32" /\ w[8] = "i64"
          /\ w[9] = "i64"
      BY DEF Record, StatPersisted
    <3> HIDE DEF x, y, w
    <3>4. /\ z \in Seq({"i32", "i64"}) /\ Len(z) = 9
          /\ \A i \in 1 .. 9 : z[i] = IF i <= 5 THEN x[i] ELSE y[i - 5]
      <4>1. /\ z \in Seq({"i32", "i64"}) /\ Len(z) = Len(x) + Len(y)
            /\ \A i \in 1 .. Len(x) + Len(y) :
                 z[i] = IF i <= Len(x) THEN x[i] ELSE y[i - Len(x)]
        <5>1. x \in Seq({"i32", "i64"}) /\ y \in Seq({"i32", "i64"})
          BY <3>1, <3>2
        <5> QED
          BY <5>1, ConcatProperties, Zenon
      <4> HIDE DEF z
      <4>2. Len(x) + Len(y) = 9 /\ Len(x) = 5
        BY <3>1, <3>2
      <4> QED
        BY <4>1, <4>2, Zenon
    <3> HIDE DEF z
    <3>5. /\ z[1] = x[1] /\ z[2] = x[2] /\ z[3] = x[3] /\ z[4] = x[4]
          /\ z[5] = x[5]
          /\ z[6] = y[1] /\ z[7] = y[2] /\ z[8] = y[3] /\ z[9] = y[4]
      BY <3>4
    <3>6. \A i \in 1 .. 9 : z[i] = w[i]
      <4>1. 1 .. 9 = {1, 2, 3, 4, 5, 6, 7, 8, 9}
        OBVIOUS
      <4>2. /\ z[1] = w[1] /\ z[2] = w[2] /\ z[3] = w[3] /\ z[4] = w[4]
            /\ z[5] = w[5] /\ z[6] = w[6] /\ z[7] = w[7] /\ z[8] = w[8]
            /\ z[9] = w[9]
        BY <3>1, <3>2, <3>3, <3>5
      <4> QED
        BY <4>1, <4>2, Zenon
    <3>7. z = w
      BY <3>3, <3>4, <3>6, SeqEqual
    <3> QED
      BY <3>7, Zenon DEF x, y, z, w
  <2> QED
    BY <2>1, <2>2, <2>3, <2>4, Zenon
<1>6. Fits(Fields, Then(a, b)) /\ Fits(Fields, Then(a, c))
  <2> HIDE DEF a, b, c
  <2> QED
    BY <1>0, <1>1, <1>2, <1>3, ThenFits, Zenon
<1> HIDE DEF a, b, c
<1> QED
  BY <1>4, <1>5, <1>6, Zenon DEF Fits, WellSized

(* size() of the records that end in read_only, and of none. *)
LEMMA WireFits ==
  /\ Fits(WireFields, ConnectRequest)
  /\ Fits(WireFields, ConnectResponse)
  /\ Fits(Fields, NoBody)
<1>1. WireFields \subseteq WireFields /\ "read_only" \in WireFields /\ Fields \subseteq WireFields
  BY DEF WireFields
<1>2. Fits(WireFields, ConnectRequest)
  <2> DEFINE a == ConnectRequest
  <2>1. /\ a.wire \in Seq(WireFields) /\ Len(a.wire) = 6 /\ a.fixed = 4 + 8 + 4 + 8 + 1
        /\ a.sized = {5} /\ a.wire[1] = "i32" /\ a.wire[2] = "i64" /\ a.wire[3] = "i32"
        /\ a.wire[4] = "i64" /\ a.wire[5] = "buffer" /\ a.wire[6] = "read_only"
    BY <1>1, WidthsOfFields DEF Record, ConnectRequest
  <2> HIDE DEF a
  <2>3. /\ 1 \in a.sized <=> Varies(a.wire[1])
        /\ 2 \in a.sized <=> Varies(a.wire[2])
        /\ 3 \in a.sized <=> Varies(a.wire[3])
        /\ 4 \in a.sized <=> Varies(a.wire[4])
        /\ 5 \in a.sized <=> Varies(a.wire[5])
        /\ 6 \in a.sized <=> Varies(a.wire[6])
        /\ a.sized \subseteq 1 .. 6
    BY <2>1, WidthsOfFields
  <2>4. a.fixed = FixedWidth(a.wire[1]) + FixedWidth(a.wire[2]) + FixedWidth(a.wire[3])
                    + FixedWidth(a.wire[4]) + FixedWidth(a.wire[5]) + FixedWidth(a.wire[6])
    BY <2>1, WidthsOfFields
  <2>2. Fits(WireFields, a)
    BY <1>1, <2>1, <2>3, <2>4, SixFit, Zenon
  <2> QED
    BY <2>2 DEF a
<1>3. Fits(WireFields, ConnectResponse)
  <2> DEFINE a == ConnectResponse
  <2>1. /\ a.wire \in Seq(WireFields) /\ Len(a.wire) = 5 /\ a.fixed = 4 + 4 + 8 + 1
        /\ a.sized = {4} /\ a.wire[1] = "i32" /\ a.wire[2] = "i32" /\ a.wire[3] = "i64"
        /\ a.wire[4] = "buffer" /\ a.wire[5] = "read_only"
    BY <1>1, WidthsOfFields DEF Record, ConnectResponse
  <2> HIDE DEF a
  <2>2. Fits(WireFields, a)
    BY <1>1, <2>1, FiveFit, WidthsOfFields, SMTT(30)
  <2> QED
    BY <2>2 DEF a
<1>4. Fits(Fields, NoBody)
  <2>1. NoBody.wire = <<>> /\ NoBody.fixed = 0 /\ NoBody.sized = {}
    BY DEF NoBody, Record
  <2>2. FixedWidths(<<>>) \in Seq(Nat) /\ Len(FixedWidths(<<>>)) = 0
    BY EmptyFacts, FixedWidthsAre, Zenon
  <2>3. Total(FixedWidths(<<>>)) = 0
    BY <2>2, SumToIs, Zenon DEF Total
  <2> QED
    BY <2>1, <2>3, EmptyFacts, Zenon DEF Fits, WellSized
<1> QED
  BY <1>2, <1>3, <1>4

(* The records of up to six fields, each by its name. *)
LEMMA SmallOnes ==
  /\ SetWatches \in SmallRecords /\ RequestHeader \in SmallRecords
  /\ MultiHeader \in SmallRecords /\ AuthPacket \in SmallRecords
  /\ GetDataRequest \in SmallRecords /\ SetDataRequest \in SmallRecords
  /\ CreateRequest \in SmallRecords /\ CreateTTLRequest \in SmallRecords
  /\ DeleteRequest \in SmallRecords /\ GetChildrenRequest \in SmallRecords
  /\ GetChildren2Request \in SmallRecords /\ SyncRequest \in SmallRecords
  /\ GetACLRequest \in SmallRecords /\ SetACLRequest \in SmallRecords
  /\ ExistsRequest \in SmallRecords /\ CheckWatchesRequest \in SmallRecords
  /\ Id \in SmallRecords /\ ClientInfo \in SmallRecords
  /\ Txn \in SmallRecords /\ ReplyHeader \in SmallRecords
  /\ WatcherEvent \in SmallRecords /\ CreateResponse \in SmallRecords
  /\ WhoAmIResponse \in SmallRecords /\ SetWatches2 \in SmallRecords
  /\ ReconfigRequest \in SmallRecords /\ GetSASLRequest \in SmallRecords
  /\ SetSASLRequest \in SmallRecords /\ SetSASLResponse \in SmallRecords
  /\ GetAllChildrenNumberRequest \in SmallRecords /\ GetAllChildrenNumberResponse \in SmallRecords
  /\ CheckVersionRequest \in SmallRecords /\ GetMaxChildrenRequest \in SmallRecords
  /\ GetMaxChildrenResponse \in SmallRecords /\ SetMaxChildrenRequest \in SmallRecords
  /\ SyncResponse \in SmallRecords /\ AddWatchRequest \in SmallRecords
  /\ RemoveWatchesRequest \in SmallRecords /\ ErrorResponse \in SmallRecords
  /\ GetChildrenResponse \in SmallRecords /\ GetEphemeralsRequest \in SmallRecords
  /\ GetEphemeralsResponse \in SmallRecords /\ LearnerInfo \in SmallRecords
  /\ QuorumPacket \in SmallRecords /\ QuorumAuthPacket \in SmallRecords
  /\ FileHeader \in SmallRecords /\ TxnDigest \in SmallRecords
  /\ TxnHeader \in SmallRecords /\ CreateTxnV0 \in SmallRecords
  /\ CreateTxn \in SmallRecords /\ CreateTTLTxn \in SmallRecords
  /\ CreateContainerTxn \in SmallRecords /\ DeleteTxn \in SmallRecords
  /\ SetDataTxn \in SmallRecords /\ CheckVersionTxn \in SmallRecords
  /\ SetACLTxn \in SmallRecords /\ SetMaxChildrenTxn \in SmallRecords
  /\ CreateSessionTxn \in SmallRecords /\ CloseSessionTxn \in SmallRecords
  /\ ErrorTxn \in SmallRecords /\ MultiTxn \in SmallRecords
  /\ StringElement \in SmallRecords /\ Strings \in SmallRecords
<1>1. SetWatches \in SmallRecords
  BY Zenon DEF SmallRecords, SetWatches
<1>2. RequestHeader \in SmallRecords
  BY Zenon DEF SmallRecords, RequestHeader
<1>3. MultiHeader \in SmallRecords
  BY Zenon DEF SmallRecords, MultiHeader
<1>4. AuthPacket \in SmallRecords
  BY Zenon DEF SmallRecords, AuthPacket
<1>5. GetDataRequest \in SmallRecords
  BY Zenon DEF SmallRecords, GetDataRequest
<1>6. SetDataRequest \in SmallRecords
  BY Zenon DEF SmallRecords, SetDataRequest
<1>7. CreateRequest \in SmallRecords
  BY Zenon DEF SmallRecords, CreateRequest
<1>8. CreateTTLRequest \in SmallRecords
  BY Zenon DEF SmallRecords, CreateTTLRequest
<1>9. DeleteRequest \in SmallRecords
  BY Zenon DEF SmallRecords, DeleteRequest
<1>10. GetChildrenRequest \in SmallRecords
  BY Zenon DEF SmallRecords, GetChildrenRequest
<1>11. GetChildren2Request \in SmallRecords
  BY Zenon DEF SmallRecords, GetChildren2Request
<1>12. SyncRequest \in SmallRecords
  BY Zenon DEF SmallRecords, SyncRequest
<1>13. GetACLRequest \in SmallRecords
  BY Zenon DEF SmallRecords, GetACLRequest
<1>14. SetACLRequest \in SmallRecords
  BY Zenon DEF SmallRecords, SetACLRequest
<1>15. ExistsRequest \in SmallRecords
  BY Zenon DEF SmallRecords, ExistsRequest
<1>16. CheckWatchesRequest \in SmallRecords
  BY Zenon DEF SmallRecords, CheckWatchesRequest
<1>17. Id \in SmallRecords
  BY Zenon DEF SmallRecords, Id
<1>18. ClientInfo \in SmallRecords
  BY Zenon DEF SmallRecords, ClientInfo
<1>19. Txn \in SmallRecords
  BY Zenon DEF SmallRecords, Txn
<1>20. ReplyHeader \in SmallRecords
  BY Zenon DEF SmallRecords, ReplyHeader
<1>21. WatcherEvent \in SmallRecords
  BY Zenon DEF SmallRecords, WatcherEvent
<1>22. CreateResponse \in SmallRecords
  BY Zenon DEF SmallRecords, CreateResponse
<1>23. WhoAmIResponse \in SmallRecords
  BY Zenon DEF SmallRecords, WhoAmIResponse
<1>24. SetWatches2 \in SmallRecords
  BY Zenon DEF SmallRecords, SetWatches2
<1>25. ReconfigRequest \in SmallRecords
  BY Zenon DEF SmallRecords, ReconfigRequest
<1>26. GetSASLRequest \in SmallRecords
  BY Zenon DEF SmallRecords, GetSASLRequest
<1>27. SetSASLRequest \in SmallRecords
  BY Zenon DEF SmallRecords, SetSASLRequest
<1>28. SetSASLResponse \in SmallRecords
  BY Zenon DEF SmallRecords, SetSASLResponse
<1>29. GetAllChildrenNumberRequest \in SmallRecords
  BY Zenon DEF SmallRecords, GetAllChildrenNumberRequest
<1>30. GetAllChildrenNumberResponse \in SmallRecords
  BY Zenon DEF SmallRecords, GetAllChildrenNumberResponse
<1>31. CheckVersionRequest \in SmallRecords
  BY Zenon DEF SmallRecords, CheckVersionRequest
<1>32. GetMaxChildrenRequest \in SmallRecords
  BY Zenon DEF SmallRecords, GetMaxChildrenRequest
<1>33. GetMaxChildrenResponse \in SmallRecords
  BY Zenon DEF SmallRecords, GetMaxChildrenResponse
<1>34. SetMaxChildrenRequest \in SmallRecords
  BY Zenon DEF SmallRecords, SetMaxChildrenRequest
<1>35. SyncResponse \in SmallRecords
  BY Zenon DEF SmallRecords, SyncResponse
<1>36. AddWatchRequest \in SmallRecords
  BY Zenon DEF SmallRecords, AddWatchRequest
<1>37. RemoveWatchesRequest \in SmallRecords
  BY Zenon DEF SmallRecords, RemoveWatchesRequest
<1>38. ErrorResponse \in SmallRecords
  BY Zenon DEF SmallRecords, ErrorResponse
<1>39. GetChildrenResponse \in SmallRecords
  BY Zenon DEF SmallRecords, GetChildrenResponse
<1>40. GetEphemeralsRequest \in SmallRecords
  BY Zenon DEF SmallRecords, GetEphemeralsRequest
<1>41. GetEphemeralsResponse \in SmallRecords
  BY Zenon DEF SmallRecords, GetEphemeralsResponse
<1>42. LearnerInfo \in SmallRecords
  BY Zenon DEF SmallRecords, LearnerInfo
<1>43. QuorumPacket \in SmallRecords
  BY Zenon DEF SmallRecords, QuorumPacket
<1>44. QuorumAuthPacket \in SmallRecords
  BY Zenon DEF SmallRecords, QuorumAuthPacket
<1>45. FileHeader \in SmallRecords
  BY Zenon DEF SmallRecords, FileHeader
<1>46. TxnDigest \in SmallRecords
  BY Zenon DEF SmallRecords, TxnDigest
<1>47. TxnHeader \in SmallRecords
  BY Zenon DEF SmallRecords, TxnHeader
<1>48. CreateTxnV0 \in SmallRecords
  BY Zenon DEF SmallRecords, CreateTxnV0
<1>49. CreateTxn \in SmallRecords
  BY Zenon DEF SmallRecords, CreateTxn
<1>50. CreateTTLTxn \in SmallRecords
  BY Zenon DEF SmallRecords, CreateTTLTxn
<1>51. CreateContainerTxn \in SmallRecords
  BY Zenon DEF SmallRecords, CreateContainerTxn
<1>52. DeleteTxn \in SmallRecords
  BY Zenon DEF SmallRecords, DeleteTxn
<1>53. SetDataTxn \in SmallRecords
  BY Zenon DEF SmallRecords, SetDataTxn
<1>54. CheckVersionTxn \in SmallRecords
  BY Zenon DEF SmallRecords, CheckVersionTxn
<1>55. SetACLTxn \in SmallRecords
  BY Zenon DEF SmallRecords, SetACLTxn
<1>56. SetMaxChildrenTxn \in SmallRecords
  BY Zenon DEF SmallRecords, SetMaxChildrenTxn
<1>57. CreateSessionTxn \in SmallRecords
  BY Zenon DEF SmallRecords, CreateSessionTxn
<1>58. CloseSessionTxn \in SmallRecords
  BY Zenon DEF SmallRecords, CloseSessionTxn
<1>59. ErrorTxn \in SmallRecords
  BY Zenon DEF SmallRecords, ErrorTxn
<1>60. MultiTxn \in SmallRecords
  BY Zenon DEF SmallRecords, MultiTxn
<1>61. StringElement \in SmallRecords
  BY Zenon DEF SmallRecords, StringElement
<1>62. Strings \in SmallRecords
  BY Zenon DEF SmallRecords, Strings
<1> QED
  BY <1>1, <1>2, <1>3, <1>4, <1>5, <1>6, <1>7, <1>8, <1>9, <1>10, <1>11, <1>12, <1>13,
     <1>14, <1>15, <1>16, <1>17, <1>18, <1>19, <1>20, <1>21, <1>22, <1>23, <1>24, <1>25,
     <1>26, <1>27, <1>28, <1>29, <1>30, <1>31, <1>32, <1>33, <1>34, <1>35, <1>36, <1>37,
     <1>38, <1>39, <1>40, <1>41, <1>42, <1>43, <1>44, <1>45, <1>46, <1>47, <1>48, <1>49,
     <1>50, <1>51, <1>52, <1>53, <1>54, <1>55, <1>56, <1>57, <1>58, <1>59, <1>60, <1>61,
     <1>62

(* Those made of others. *)
LEMMA ComposedFit ==
  /\ Fits(Fields, ACL)
  /\ Fits(Fields, Create2Response) /\ Fits(Fields, GetDataResponse)
  /\ Fits(Fields, GetChildren2Response) /\ Fits(Fields, GetACLResponse)
  /\ Fits(Fields, Then(Strings, Stat))
<1>0. Fields \subseteq WireFields
  BY DEF WireFields
<1>1. Fits(Fields, Record(<<"i32">>, 4, {}))
  <2>1. Record(<<"i32">>, 4, {}) \in SmallRecords
    BY Zenon DEF SmallRecords
  <2> QED
    BY <2>1, SmallFit, Zenon
<1>2. Fits(Fields, Record(<<"string">>, 0, {1}))
  <2>1. Record(<<"string">>, 0, {1}) \in SmallRecords
    BY Zenon DEF SmallRecords
  <2> QED
    BY <2>1, SmallFit, Zenon
<1>3. Fits(Fields, Record(<<"buffer">>, 0, {1}))
  <2>1. Record(<<"buffer">>, 0, {1}) \in SmallRecords
    BY Zenon DEF SmallRecords
  <2> QED
    BY <2>1, SmallFit, Zenon
<1>4. Fits(Fields, Record(<<"vec_string">>, 0, {1}))
  <2>1. Record(<<"vec_string">>, 0, {1}) \in SmallRecords
    BY Zenon DEF SmallRecords
  <2> QED
    BY <2>1, SmallFit, Zenon
<1>5. Fits(Fields, Record(<<"vec_acl">>, 0, {1}))
  <2> DEFINE a == Record(<<"vec_acl">>, 0, {1})
  <2>1. /\ a.wire \in Seq(Fields) /\ Len(a.wire) = 1 /\ a.fixed = 0 /\ a.sized = {1}
        /\ a.wire[1] = "vec_acl"
    BY WidthsOfFields DEF Record
  <2> HIDE DEF a
  <2>2. Fits(Fields, a)
    BY <1>0, <2>1, OneFits, VectorFieldsAre
  <2> QED
    BY <2>2 DEF a
<1>6. Fits(Fields, Id) /\ Fits(Fields, Strings) /\ Fits(Fields, Stat)
  BY SmallOnes, SmallFit, StatFits, Zenon
<1>7. Fits(Fields, ACL)
  BY <1>0, <1>1, <1>6, ThenFits, Zenon DEF ACL
<1>8. Fits(Fields, Create2Response)
  BY <1>0, <1>2, <1>6, ThenFits, Zenon DEF Create2Response
<1>9. Fits(Fields, GetDataResponse)
  BY <1>0, <1>3, <1>6, ThenFits, Zenon DEF GetDataResponse
<1>10. Fits(Fields, GetChildren2Response)
  BY <1>0, <1>4, <1>6, ThenFits, Zenon DEF GetChildren2Response
<1>11. Fits(Fields, GetACLResponse)
  BY <1>0, <1>5, <1>6, ThenFits, Zenon DEF GetACLResponse
<1>12. Fits(Fields, Then(Strings, Stat))
  BY <1>0, <1>6, ThenFits, Zenon
<1> QED
  BY <1>7, <1>8, <1>9, <1>10, <1>11, <1>12

(* size() of every record is right. *)
LEMMA RecordsFit ==
  \A k \in DOMAIN Records : Fits(Fields, Records[k])
<1>1. \A R \in SmallRecords : Fits(Fields, R)
  BY SmallFit, Zenon
<1>2. /\ Fits(Fields, SetDataResponse) /\ Fits(Fields, SetACLResponse)
      /\ Fits(Fields, ExistsResponse)
  BY StatFits DEF SetDataResponse, SetACLResponse, ExistsResponse
<1>3. \A k \in DOMAIN Records : Records[k] \in SmallRecords \cup
        {ACL, Stat, SetDataResponse, SetACLResponse, ExistsResponse, StatPersisted,
         Create2Response, GetDataResponse, GetChildren2Response, GetACLResponse}
  BY SmallOnes DEF Records
<1> QED
  BY <1>1, <1>2, <1>3, StatFits, ComposedFit, Zenon

(* size() of the elements of vectors is right. *)
LEMMA VectorsFit ==
  \A field \in DOMAIN Vectors : Vectors[field].wire \in Seq(PlainFields)
    /\ WellSized(Vectors[field])
<1>1. \A field \in DOMAIN Vectors : Vectors[field] \in SmallRecords \cup {ACL}
  BY SmallOnes DEF Vectors
<1> QED
  BY <1>1, SmallFit, ComposedFit, VectorsArePlain, Zenon DEF Fits

\* What a field, read_only too, may hold
WireSet(field) == IF field = "read_only" THEN Int ELSE FieldSet(field)

(* A field is as wide as size() says. *)
LEMMA FieldWidth ==
  ASSUME NEW field \in WireFields, NEW v \in WireSet(field)
  PROVE  /\ PutField(field, v) \in Seq(Tokens)
         /\ Varies(field) => FieldSize(field, v) \in Nat
         /\ Width(PutField(field, v)) = IF Varies(field) THEN FieldSize(field, v) ELSE FixedWidth(field)
<1>1. CASE field = "read_only"
  <2>1. field \notin DOMAIN Vectors /\ ~Varies(field) /\ FixedWidth(field) = 1
    BY <1>1, VectorsArePlain, WidthsOfFields, Zenon
  <2>2. PutField(field, v) = <<Token(1, v)>>
    BY <1>1, <2>1, Zenon DEF PutField, PutPlain
  <2>3. 1 \in Nat \ {0} /\ v \in Int
    BY <1>1 DEF WireSet
  <2>4. Token(1, v) \in Tokens /\ Token(1, v).w = 1
    BY <2>3, TokensAre, Zenon
  <2>5. Width(<<Token(1, v)>>) = 1 /\ <<Token(1, v)>> \in Seq(Tokens)
    BY <2>4, WidthOfFew, Zenon
  <2> QED
    BY <2>1, <2>2, <2>5, Zenon
<1>2. CASE field # "read_only" /\ field \notin DOMAIN Vectors
  <2>1. field \in PlainFields /\ v \in PlainSet(field)
    BY <1>2, Zenon DEF WireFields, Fields, WireSet, FieldSet
  <2>2. PutField(field, v) = PutPlain(field, v) /\ FieldSize(field, v) = BytesSize(v)
    BY <1>2, Zenon DEF PutField, FieldSize
  <2> QED
    BY <2>1, <2>2, PlainWidth, Zenon
<1>3. CASE field # "read_only" /\ field \in DOMAIN Vectors
  <2> DEFINE R == Vectors[field]
             Rw == DOMAIN FlatPut(R)
             k == Len(v)
             t == <<Token(4, k)>>
             ss == [j \in DOMAIN v |-> PutFlat(R, v[j])]
             b == [j \in DOMAIN v |-> FlatSize(R, v[j])]
  <2>1. v \in Seq(Rw) /\ Varies(field)
    BY <1>3, Zenon DEF WireSet, FieldSet, VecRows, Varies
  <2>2. R.wire \in Seq(PlainFields) /\ WellSized(R)
    BY <1>3, VectorsFit, Zenon
  <2>3. PutField(field, v) = t \o FlattenSeq(ss) /\ FieldSize(field, v) = 4 + Total(b)
    BY <1>3, Zenon DEF PutField, FieldSize
  <2> HIDE DEF Rw, R
  <2>4. k \in Nat /\ DOMAIN v = 1 .. k /\ \A j \in 1 .. k : v[j] \in Rw
    BY <2>1, LenProperties, ElementOfSeq, Zenon
  <2>5. \A j \in 1 .. k : /\ Width(PutFlat(R, v[j])) = FlatSize(R, v[j])
                          /\ PutFlat(R, v[j]) \in Seq(Tokens) /\ FlatSize(R, v[j]) \in Nat
    BY <2>2, <2>4, FlatWidth, Zenon DEF Rw
  <2>6. ss \in [1 .. k -> Seq(Tokens)] /\ b = [j \in 1 .. k |-> Width(ss[j])]
    BY <2>4, <2>5, Zenon
  <2>7. /\ Width(FlattenSeq(ss)) = Total([j \in 1 .. k |-> Width(ss[j])])
        /\ FlattenSeq(ss) \in Seq(Tokens)
    <3> HIDE DEF ss
    <3> QED
      BY <2>4, <2>6, WidthOfFlat, Zenon
  <2>8. 4 \in Nat \ {0} /\ k \in Int
    BY <2>4
  <2>9. Width(t) = 4 /\ t \in Seq(Tokens)
    <3>1. Token(4, k) \in Tokens /\ Token(4, k).w = 4
      BY <2>8, TokensAre, ZenonT(40)
    <3> QED
      BY <3>1, WidthOfFew, Zenon
  <2> HIDE DEF ss, b, t, k
  <2>10. /\ Width(t \o FlattenSeq(ss)) = Width(t) + Width(FlattenSeq(ss))
         /\ t \o FlattenSeq(ss) \in Seq(Tokens) /\ Width(FlattenSeq(ss)) \in Nat
    BY <2>7, <2>9, WidthOfConcat, Zenon
  <2>11. Total(b) = Width(FlattenSeq(ss))
    BY <2>6, <2>7, Zenon
  <2>12. 4 + Total(b) \in Nat
    BY <2>10, <2>11
  <2> QED
    BY <2>1, <2>3, <2>9, <2>10, <2>11, <2>12, Zenon
<1> QED
  BY <1>1, <1>2, <1>3, Zenon

\* The rows of values a record may hold
RowsFor(R) ==
  {val \in Seq(FieldVal) : /\ Len(val) = Len(R.wire)
                           /\ \A i \in 1 .. Len(R.wire) : val[i] \in WireSet(R.wire[i])}

(* A record is written in as many bytes as its size() says, one that ends in read_only too. *)
LEMMA RecordWidth ==
  ASSUME NEW R, Fits(WireFields, R), NEW val \in RowsFor(R)
  PROVE  /\ Width(Serialize(R, val)) = Size(R, val)
         /\ Serialize(R, val) \in Seq(Tokens) /\ Size(R, val) \in Nat
<1> DEFINE n == Len(R.wire)
           ss == [i \in DOMAIN R.wire |-> PutField(R.wire[i], val[i])]
           b == [i \in DOMAIN R.wire |-> FieldSize(R.wire[i], val[i])]
<1>0. R.wire \in Seq(WireFields) /\ WellSized(R)
  BY Zenon DEF Fits
<1>1. n \in Nat /\ DOMAIN R.wire = 1 .. n /\ \A i \in 1 .. n : R.wire[i] \in WireFields
  BY <1>0, LenProperties, ElementOfSeq, Zenon
<1>2. \A i \in 1 .. n : val[i] \in WireSet(R.wire[i])
  BY Zenon DEF RowsFor
<1>3. \A i \in 1 .. n : ss[i] = PutField(R.wire[i], val[i]) /\ b[i] = FieldSize(R.wire[i], val[i])
  BY <1>1, Zenon
<1>4. ss \in [1 .. n -> Seq(Tokens)]
  BY <1>1, <1>2, FieldWidth, Zenon
<1>5. Size(R, val) = R.fixed + Total([i \in DOMAIN R.wire |-> IF i \in R.sized THEN b[i] ELSE 0])
  BY Zenon DEF Size
<1>6. Serialize(R, val) = FlattenSeq(ss)
  BY Zenon DEF Serialize
<1> HIDE DEF ss, b
<1>7. \A i \in 1 .. n : /\ Varies(R.wire[i]) => b[i] \in Nat
                        /\ Width(ss[i]) = IF Varies(R.wire[i]) THEN b[i] ELSE FixedWidth(R.wire[i])
  BY <1>1, <1>2, <1>3, FieldWidth, Zenon
<1>9. /\ Width(FlattenSeq(ss)) = R.fixed + Total([i \in DOMAIN R.wire |-> IF i \in R.sized THEN b[i] ELSE 0])
      /\ FlattenSeq(ss) \in Seq(Tokens)
  BY <1>0, <1>4, <1>7, SizesAddUp, Zenon
<1>10. Width(FlattenSeq(ss)) \in Nat
  BY <1>9, WidthsAre, Zenon
<1> QED
  BY <1>5, <1>6, <1>9, <1>10, Zenon

-----------------------------------------------------------------------------
(* What clients and servers write *)

(* A row of values has one of each set. *)
LEMMA RowsAre ==
  ASSUME NEW X, NEW sets \in Seq(SUBSET X), NEW row \in Rows(sets)
  PROVE  row \in Seq(X) /\ Len(row) = Len(sets) /\ \A i \in 1 .. Len(sets) : row[i] \in sets[i]
<1> DEFINE n == Len(sets)
           D == SUBSET Seq(X)
           g == [i \in 1 .. n |-> [x \in D |-> Longer(x, sets[i])]]
           b == {<<>>}
           Eq(s) == [i \in 0 .. n |-> IF i = 0 THEN b ELSE Longer(s[i - 1], sets[i])]
           F == RowsTo(sets)
<1>1. n \in Nat /\ \A i \in 1 .. n : sets[i] \subseteq X
  <2>1. n \in Nat /\ \A i \in 1 .. n : sets[i] \in SUBSET X
    BY LenProperties, ElementOfSeq, Zenon
  <2> QED
    BY <2>1, Zenon
<1>2. \A i \in 1 .. n, x \in D : Longer(x, sets[i]) \in D
  <2>1. \A s \in Seq(X), v \in X : Append(s, v) \in Seq(X)
    BY Appended
  <2> QED
    BY <1>1, <2>1 DEF Longer
<1>3. b \in D
  BY EmptyFacts, Zenon
<1> HIDE DEF n, D, b
<1>4. CanIterate(D, n, b, g)
  BY <1>1, <1>2, <1>3, Zenon DEF CanIterate
<1>5. \A i \in 1 .. n, x \in D : g[i][x] = Longer(x, sets[i])
  BY Zenon
<1>6. /\ \A i \in 1 .. n : i - 1 \in 0 .. n /\ i \in 0 .. n /\ i # 0
      /\ \A i \in 0 .. n : i # 0 => i \in 1 .. n /\ i - 1 \in 0 .. n
      /\ 0 \in 0 .. n /\ n \in 0 .. n
  BY <1>1
<1>11. F = CHOOSE s : s = Eq(s)
  BY Zenon DEF RowsTo, n, b
<1> HIDE DEF g
<1>7. PICK f : Iterates(f, D, n, b, g)
  BY <1>4, IterationDefines, Zenon
<1>8. f = Eq(f)
  <2>1. f \in [0 .. n -> D] /\ f[0] = b /\ \A i \in 1 .. n : f[i] = g[i][f[i - 1]]
    BY <1>7, Zenon DEF Iterates
  <2>2. \A i \in 0 .. n : f[i] = IF i = 0 THEN b ELSE Longer(f[i - 1], sets[i])
    BY <1>5, <1>6, <2>1, Zenon
  <2> QED
    BY <2>1, <2>2, Zenon
<1>9. F = Eq(F)
  <2> HIDE DEF Eq, F
  <2> QED
    BY <1>8, <1>11, Zenon
<1> SUFFICES ASSUME row \in F[n]
             PROVE  row \in Seq(X) /\ Len(row) = n /\ \A i \in 1 .. n : row[i] \in sets[i]
  BY Zenon DEF Rows, F, n
<1> HIDE DEF F
<1>10. F[0] = b /\ \A i \in 1 .. n : F[i] = Longer(F[i - 1], sets[i])
  BY <1>6, <1>9, Zenon
<1> DEFINE Good(i) == {s \in Seq(X) : Len(s) = i /\ \A j \in 1 .. i : s[j] \in sets[j]}
           T == {i \in 0 .. n : F[i] \subseteq Good(i)}
<1>12. 0 \in T
  <2>1. Len(<<>>) = 0 /\ <<>> \in Seq(X)
    BY EmptyFacts, Zenon
  <2>2. 1 .. 0 = {}
    OBVIOUS
  <2>3. <<>> \in Good(0)
    BY <2>1, <2>2, Zenon
  <2> QED
    BY <1>6, <1>10, <2>3, Zenon DEF b
<1>13. ASSUME NEW i \in 1 .. n, i - 1 \in T
       PROVE  i \in T
  <2>1. ASSUME NEW e \in F[i]
        PROVE  e \in Good(i)
    <3>1. PICK s \in F[i - 1], v \in sets[i] : e = Append(s, v)
      BY <1>10 DEF Longer
    <3>2. s \in Seq(X) /\ Len(s) = i - 1 /\ \A j \in 1 .. i - 1 : s[j] \in sets[j]
      BY <1>13, Zenon
    <3>3. v \in X
      BY <1>1, Zenon
    <3>4. /\ e \in Seq(X) /\ Len(e) = Len(s) + 1 /\ (\A j \in 1 .. Len(s) : e[j] = s[j])
          /\ e[Len(s) + 1] = v
      BY <3>1, <3>2, <3>3, Appended
    <3>5. Len(s) + 1 = i /\ \A j \in 1 .. i : j \in 1 .. i - 1 \/ j = i
      BY <3>2
    <3>6. Len(e) = i /\ \A j \in 1 .. i : e[j] \in sets[j]
      BY <3>2, <3>4, <3>5, Zenon
    <3> QED
      BY <3>4, <3>6, Zenon
  <2> QED
    BY <1>6, <2>1, Zenon
<1> HIDE DEF T
<1>14. n \in T
  BY <1>1, <1>6, <1>12, <1>13, InductionTo, Zenon
<1> QED
  BY <1>14, Zenon DEF T

(* A pair is one and another. *)
LEMMA PairIs ==
  ASSUME NEW S, NEW a \in S, NEW b \in S
  PROVE  <<a>> \o <<b>> = <<a, b>>
<1> DEFINE x == <<b>>
           y == <<a>> \o x
           z == <<a, b>>
<1>1. x \in Seq(S) /\ Len(x) = 1 /\ x[1] = b
  OBVIOUS
<1>2. z \in Seq(S) /\ Len(z) = 2 /\ z[1] = a /\ z[2] = b
  OBVIOUS
<1> HIDE DEF x, z
<1>3. /\ y \in Seq(S) /\ Len(y) = 1 + Len(x) /\ y[1] = a
      /\ \A j \in 1 .. Len(x) : y[1 + j] = x[j]
  BY <1>1, Prepended
<1> HIDE DEF y
<1>4. Len(y) = 2 /\ y[1 + 1] = b
  BY <1>1, <1>3
<1>5. \A i \in 1 .. 2 : y[i] = z[i]
  BY <1>2, <1>3, <1>4
<1>6. y = z
  BY <1>2, <1>3, <1>4, <1>5, SeqEqual
<1> QED
  BY <1>6, Zenon DEF x, y, z

(* The values clients and servers put in a plain field, and the bytes they put for them, are
   those of the codecs. *)
LEMMA PlainIs ==
  ASSUME NEW field \in PlainFields
  PROVE  /\ PlainValues(field) \subseteq PlainSet(field)
         /\ \A v \in PlainSet(field) : PlainImage(field, v) = PutPlain(field, v)
<1>1. CASE field \in ScalarFields
  <2>1. field \notin {"string", "buffer", "read_only"} /\ field \in {"i32", "i64", "u8"}
    BY <1>1 DEF ScalarFields
  <2>2. PlainValues(field) = Scalars[field] /\ PlainSet(field) = Int
    BY <1>1, <2>1, Zenon DEF PlainValues, PlainSet
  <2>3. Scalars[field] \subseteq Int
    <3>1. DOMAIN ScalarWidth = {"i32", "i64", "u8"}
      BY DEF ScalarWidth
    <3>2. Scalars \in [{"i32", "i64", "u8"} -> SUBSET Int]
      BY <3>1, ProtocolAssumption, Zenon
    <3> QED
      BY <2>1, <3>2, Zenon
  <2>4. ScalarWidth["i32"] = 4 /\ ScalarWidth["i64"] = 8 /\ ScalarWidth["u8"] = 1
    BY DEF ScalarWidth
  <2>5. ASSUME NEW v \in PlainSet(field)
        PROVE  PlainImage(field, v) = PutPlain(field, v)
    BY <2>1, <2>4 DEF PlainImage, PutPlain
  <2> QED
    BY <2>2, <2>3, <2>5, Zenon
<1>2. CASE field \notin ScalarFields
  <2>1. field \in {"string", "buffer"}
    BY <1>2, Zenon DEF PlainFields
  <2>2. Contents \subseteq Tokens /\ \A c \in Contents : c.w <= MaxCapacity
    BY ProtocolAssumption, Zenon
  <2>3. PlainValues(field) \subseteq ContentsOf(field = "string")
    <3>1. CASE field = "string"
      BY <2>2, <3>1 DEF PlainValues, ContentsOf, ContentTokens
    <3>2. CASE field = "buffer"
      BY <2>2, <3>2 DEF PlainValues, ContentsOf, ContentTokens
    <3> QED
      BY <2>1, <3>1, <3>2, Zenon
  <2>4. PlainSet(field) = ContentsOf(field = "string")
    BY <1>2, Zenon DEF PlainSet
  <2>5. ASSUME NEW v \in PlainSet(field)
        PROVE  PlainImage(field, v) = PutPlain(field, v)
    <3>1. /\ PutPlain(field, v) = <<Token(4, Width(v))>> \o v
          /\ PlainImage(field, v) = IF v = <<>> THEN <<Token(4, 0)>> ELSE <<Token(4, v[1].w), v[1]>>
      BY <2>1, Zenon DEF PlainImage, PutPlain, PutBytes
    <3>2. CASE v = <<>>
      <4>1. <<Token(4, 0)>> \o <<>> = <<Token(4, 0)>>
        OBVIOUS
      <4> QED
        BY <3>1, <3>2, <4>1, WidthOfFew, Zenon
    <3>3. CASE v # <<>>
      <4>1. PICK t \in Tokens : v = <<t>>
        BY <2>4, <3>3, Zenon DEF ContentsOf, ContentTokens
      <4>2. Width(v) = t.w
        BY <4>1, WidthOfFew, Zenon
      <4>3. v[1] = t
        BY <4>1
      <4>4. <<Token(4, t.w)>> \o <<t>> = <<Token(4, t.w), t>>
        <5>1. 4 \in Nat \ {0} /\ t.w \in Int
          <6>1. t.w \in Nat \ {0}
            BY TokensAre, Zenon
          <6> QED
            BY <6>1
        <5>2. Token(4, t.w) \in Tokens
          BY <5>1, TokensAre, Zenon
        <5> QED
          BY <5>2, PairIs, Zenon
      <4> QED
        BY <3>1, <3>3, <4>1, <4>2, <4>3, <4>4, Zenon
    <3> QED
      BY <3>2, <3>3, Zenon
  <2> QED
    BY <2>3, <2>4, <2>5, Zenon
<1> QED
  BY <1>1, <1>2, Zenon

(* The elements of vectors have the fields that the protocol gives them. *)
LEMMA ElementFieldsAre ==
  /\ DOMAIN ElementFields = DOMAIN Vectors
  /\ \A field \in DOMAIN Vectors : ElementFields[field] = Vectors[field].wire
  BY DEF ElementFields, Vectors, StringElement, Id, ACL, ClientInfo, Txn, Then, Record

(* The elements of a vector, and their bytes, are those of the codecs. *)
LEMMA ElementIs ==
  ASSUME NEW field \in DOMAIN Vectors
  PROVE  /\ ElementRows(field) \subseteq DOMAIN FlatPut(Vectors[field])
         /\ \A row \in DOMAIN FlatPut(Vectors[field]) :
              ElementImage(field, row) = PutFlat(Vectors[field], row)
<1> DEFINE R == Vectors[field]
           n == Len(R.wire)
           sets == [i \in DOMAIN R.wire |-> PlainValues(R.wire[i])]
<1>1. R.wire \in Seq(PlainFields) /\ ElementFields[field] = R.wire
  BY VectorsArePlain, ElementFieldsAre, Zenon
<1>2. n \in Nat /\ DOMAIN R.wire = 1 .. n /\ \A i \in 1 .. n : R.wire[i] \in PlainFields
  BY <1>1, LenProperties, ElementOfSeq, Zenon
<1>3. DOMAIN FlatPut(R) = {val \in Seq(Plain) : /\ Len(val) = n
                                                /\ \A i \in 1 .. n : val[i] \in PlainSet(R.wire[i])}
  BY <1>1, FlatPutIs, Zenon
<1>4. \A i \in 1 .. n : sets[i] = PlainValues(R.wire[i]) /\ sets[i] \subseteq PlainSet(R.wire[i])
  BY <1>2, PlainIs, Zenon
<1>5. \A f \in PlainFields : PlainSet(f) \subseteq Plain
  BY PlainPutIs, Zenon DEF IsPut
<1>6. ElementRows(field) = Rows(sets)
  BY <1>1, Zenon DEF ElementRows
<1>7. sets \in [1 .. n -> SUBSET Plain]
  BY <1>2, <1>4, <1>5, Zenon
<1> HIDE DEF sets, R, n
<1>8. sets \in Seq(SUBSET Plain) /\ Len(sets) = n
  BY <1>2, <1>7
<1>9. ElementRows(field) \subseteq DOMAIN FlatPut(R)
  <2>1. ASSUME NEW row \in ElementRows(field)
        PROVE  row \in DOMAIN FlatPut(R)
    <3>1. row \in Seq(Plain) /\ Len(row) = n /\ \A i \in 1 .. n : row[i] \in sets[i]
      BY <1>6, <1>8, RowsAre, Zenon
    <3> QED
      BY <1>3, <1>4, <3>1, Zenon
  <2> QED
    BY <2>1, Zenon
<1>10. ASSUME NEW row \in DOMAIN FlatPut(R)
       PROVE  ElementImage(field, row) = PutFlat(R, row)
  <2>1. row \in Seq(Plain) /\ Len(row) = n /\ \A i \in 1 .. n : row[i] \in PlainSet(R.wire[i])
    BY <1>3, Zenon
  <2>2. DOMAIN row = 1 .. n
    BY <2>1, LenProperties, Zenon
  <2>3. \A i \in 1 .. n : PlainImage(R.wire[i], row[i]) = PutPlain(R.wire[i], row[i])
    BY <1>2, <2>1, PlainIs, Zenon
  <2>4. [i \in 1 .. n |-> PlainImage(R.wire[i], row[i])] = [i \in 1 .. n |-> PutPlain(R.wire[i], row[i])]
    BY <2>3, Zenon
  <2> QED
    BY <1>1, <1>2, <2>2, <2>4, Zenon DEF ElementImage, PutFlat, R
<1> QED
  BY <1>9, <1>10, Zenon DEF R

(* The values of a field, and their bytes, are those of the codecs. *)
LEMMA FieldIs ==
  ASSUME NEW field \in Fields
  PROVE  /\ Values(field) \subseteq FieldSet(field)
         /\ \A v \in FieldSet(field) : Image(field, v) = PutField(field, v)
<1>1. CASE field \notin DOMAIN Vectors
  <2>1. field \in PlainFields /\ field \notin DOMAIN ElementFields
    BY <1>1, ElementFieldsAre, Zenon DEF Fields
  <2>2. Values(field) = PlainValues(field) /\ FieldSet(field) = PlainSet(field)
    BY <1>1, <2>1, Zenon DEF Values, FieldSet
  <2>3. \A v : Image(field, v) = PlainImage(field, v) /\ PutField(field, v) = PutPlain(field, v)
    BY <1>1, <2>1, Zenon DEF Image, PutField
  <2> QED
    BY <2>1, <2>2, <2>3, PlainIs, Zenon
<1>2. CASE field \in DOMAIN Vectors
  <2> DEFINE R == Vectors[field]
             Rw == DOMAIN FlatPut(R)
  <2>1. field \in DOMAIN ElementFields
    BY <1>2, ElementFieldsAre, Zenon
  <2>2. /\ Values(field) = SeqOf(ElementRows(field), MaxElements)
        /\ FieldSet(field) = {v \in Seq(Rw) : Len(v) <= MaxCapacity}
    BY <1>2, <2>1, Zenon DEF Values, FieldSet, BoundedSeq, VecRows
  <2>3. ElementRows(field) \subseteq Rw
          /\ \A row \in Rw : ElementImage(field, row) = PutFlat(R, row)
    BY <1>2, ElementIs, Zenon
  <2>4. \A v : /\ Image(field, v) = <<Token(4, Len(v))>>
                                    \o FlattenSeq([j \in DOMAIN v |-> ElementImage(field, v[j])])
               /\ PutField(field, v) = <<Token(4, Len(v))>>
                                       \o FlattenSeq([j \in DOMAIN v |-> PutFlat(R, v[j])])
    BY <1>2, <2>1, Zenon DEF Image, PutField
  <2> HIDE DEF Rw, R
  <2>5. ASSUME NEW v \in Values(field)
        PROVE  v \in Seq(Rw) /\ Len(v) <= MaxCapacity
    <3>1. PICK m \in 0 .. MaxElements : v \in [1 .. m -> ElementRows(field)]
      BY <2>2, Zenon DEF SeqOf
    <3>2. v \in [1 .. m -> Rw]
      BY <2>3, <3>1, Zenon
    <3>3. m \in Nat /\ m <= MaxCapacity
      BY ProtocolAssumption, MaxCapacityAssumption
    <3>4. v \in Seq(Rw)
      BY <3>2, <3>3, SeqDef, Zenon
    <3>5. Len(v) = m
      BY <3>2, <3>3, <3>4, LenProperties
    <3> QED
      BY <3>3, <3>4, <3>5, Zenon
  <2>6. ASSUME NEW v \in Seq(Rw)
        PROVE  Image(field, v) = PutField(field, v)
    <3>1. \A j \in DOMAIN v : v[j] \in Rw
      BY LenProperties, ElementOfSeq, Zenon
    <3>2. [j \in DOMAIN v |-> ElementImage(field, v[j])] = [j \in DOMAIN v |-> PutFlat(R, v[j])]
      BY <2>3, <3>1, Zenon
    <3> QED
      BY <2>4, <3>2, Zenon
  <2> QED
    BY <2>2, <2>5, <2>6, Zenon
<1> QED
  BY <1>1, <1>2, Zenon

(* The rows of values of some fields are rows of the record that has these fields, and their
   bytes are what serialize_into() writes for it. *)
LEMMA RowsOfRecord ==
  ASSUME NEW R, R.wire \in Seq(Fields), NEW row \in RowsOf(R.wire)
  PROVE  row \in DOMAIN RecPut(R) /\ ImageOf(R.wire, row) = Serialize(R, row)
<1> DEFINE n == Len(R.wire)
           sets == [i \in DOMAIN R.wire |-> Values(R.wire[i])]
<1>2. n \in Nat /\ DOMAIN R.wire = 1 .. n /\ \A i \in 1 .. n : R.wire[i] \in Fields
  BY LenProperties, ElementOfSeq, Zenon
<1>3. DOMAIN RecPut(R) = {val \in Seq(FieldVal) : /\ Len(val) = n
                                                  /\ \A i \in 1 .. n : val[i] \in FieldSet(R.wire[i])}
  BY RecPutIs, Zenon
<1>4. \A i \in 1 .. n : sets[i] = Values(R.wire[i]) /\ sets[i] \subseteq FieldSet(R.wire[i])
  BY <1>2, FieldIs, Zenon
<1>5. \A f \in Fields : FieldSet(f) \subseteq FieldVal
  BY FieldPutIs, Zenon DEF IsPut
<1>6. row \in Rows(sets)
  BY Zenon DEF RowsOf
<1>7. sets \in [1 .. n -> SUBSET FieldVal]
  BY <1>2, <1>4, <1>5, Zenon
<1> HIDE DEF sets, n
<1>8. sets \in Seq(SUBSET FieldVal) /\ Len(sets) = n
  BY <1>2, <1>7
<1>9. row \in Seq(FieldVal) /\ Len(row) = n /\ \A i \in 1 .. n : row[i] \in sets[i]
  BY <1>6, <1>8, RowsAre, Zenon
<1>10. DOMAIN row = 1 .. n /\ \A i \in 1 .. n : row[i] \in FieldSet(R.wire[i])
  BY <1>4, <1>9, LenProperties, Zenon
<1>11. [i \in 1 .. n |-> Image(R.wire[i], row[i])] = [i \in 1 .. n |-> PutField(R.wire[i], row[i])]
  <2>1. \A i \in 1 .. n : Image(R.wire[i], row[i]) = PutField(R.wire[i], row[i])
    BY <1>2, <1>10, FieldIs, Zenon
  <2> QED
    BY <2>1, Zenon
<1> QED
  BY <1>2, <1>3, <1>9, <1>10, <1>11, Zenon DEF ImageOf, Serialize

-----------------------------------------------------------------------------
(* Nulls *)

\* g panics on all that r may have left that begins with one of S, and after a panic
PanicsOn(r, g, S) ==
  /\ \A x \in S, rest \in Seq(Tokens) : r.st = "ok" /\ r.rest = x \o rest => g.st = "panic"
  /\ r.st = "panic" => g.st = "panic"

\* Either it takes what put writes, or it panics
Meets(r, g, put, S) == TakesBack(r, g, put) /\ PanicsOn(r, g, S)

\* What put writes
Written(put) == {put[v] : v \in DOMAIN put}

\* Pieces of which the first n are written by puts, or null, as one of them is
SomePieceNull(pieces, n, puts, nulls) ==
  /\ pieces \in Seq(Seq(Tokens)) /\ n <= Len(pieces)
  /\ \A i \in 1 .. n : pieces[i] \in Written(puts[i]) \cup nulls[i]
  /\ \E i \in 1 .. n : pieces[i] \in nulls[i]

(* Several values taken one after the other, of which one is null, end in a panic. *)
LEMMA NullIsMet ==
  ASSUME NEW V, NEW n, NEW puts, NEW after, IsReading(after, V, n, puts), NEW nulls,
         \A i \in 1 .. n : Meets(after[i - 1], after[i], puts[i], nulls[i]),
         NEW pieces, SomePieceNull(pieces, n, puts, nulls),
         NEW rest \in Seq(Tokens), after[0].rest = FlattenSeq(pieces) \o rest
  PROVE  after[n].st = "panic"
<1> USE DEF IsReading, SomePieceNull
<1> DEFINE m == Len(pieces)
<1>1. m \in Nat /\ n \in Nat /\ n <= m
  BY LenProperties
<1>2. PICK suf : Chain(suf, Tokens, pieces) /\ suf[m] = rest
  BY ChainExists, ZenonT(40)
<1>3. suf[0] = after[0].rest
  BY <1>2, ChainIsFlat, Zenon
<1>4. /\ suf \in [0 .. m -> Seq(Tokens)]
      /\ \A i \in 1 .. m : suf[i - 1] = pieces[i] \o suf[i]
  BY <1>2, Zenon DEF Chain
<1> HIDE DEF m
<1>5. /\ \A i \in 1 .. n : i - 1 \in 0 .. n /\ i \in 0 .. n /\ i \in 1 .. m /\ i \in 0 .. m
      /\ \A i \in 1 .. n : \A j \in 1 .. i : j \in 1 .. i - 1 \/ j = i
      /\ 0 \in 0 .. n /\ n \in 0 .. n /\ 1 .. 0 = {}
  BY <1>1
<1> DEFINE Well(i) == /\ after[i].st = "ok" /\ after[i].rest = suf[i]
                      /\ \A j \in 1 .. i : pieces[j] \notin nulls[j]
           T == {i \in 0 .. n : after[i].st = "panic" \/ Well(i)}
<1>6. 0 \in T
  BY <1>3, <1>5, Zenon
<1>7. ASSUME NEW i \in 1 .. n, i - 1 \in T
      PROVE  i \in T
  <2> DEFINE r == after[i - 1]
             g == after[i]
  <2>1. Meets(r, g, puts[i], nulls[i])
    BY Zenon
  <2>2. CASE r.st = "panic"
    BY <1>5, <2>1, <2>2, Zenon DEF Meets, PanicsOn
  <2>3. CASE Well(i - 1)
    <3>1. r.st = "ok" /\ r.rest = pieces[i] \o suf[i] /\ suf[i] \in Seq(Tokens)
      BY <1>4, <1>5, <2>3, Zenon
    <3>2. CASE pieces[i] \in nulls[i]
      BY <1>5, <2>1, <3>1, <3>2, Zenon DEF Meets, PanicsOn
    <3>3. CASE pieces[i] \notin nulls[i]
      <4>1. PICK v \in DOMAIN puts[i] : pieces[i] = puts[i][v]
        BY <3>3, Zenon DEF Written
      <4>2. g = Got(r, v, suf[i])
        BY <2>1, <3>1, <4>1, Zenon DEF Meets, TakesBack
      <4> HIDE DEF r, g
      <4>3. g.st = "ok" /\ g.rest = suf[i]
        BY <3>1, <4>2 DEF Got
      <4>4. \A j \in 1 .. i : pieces[j] \notin nulls[j]
        BY <1>5, <2>3, <3>3, Zenon
      <4> QED
        BY <1>5, <4>3, <4>4, Zenon DEF g
    <3> QED
      BY <3>2, <3>3, Zenon
  <2> QED
    BY <1>7, <2>2, <2>3, Zenon
<1> HIDE DEF T
<1>8. n \in T
  BY <1>1, <1>5, <1>6, <1>7, InductionTo, Zenon
<1> QED
  BY <1>8, Zenon DEF T

(* Rows with a null in them are pieces, of which one is null. *)
LEMMA WithNullsAre ==
  ASSUME NEW n \in Nat, NEW good, NEW null,
         DOMAIN good = 1 .. n, \A i \in 1 .. n : good[i] \cup null[i] \subseteq Seq(Tokens),
         NEW b \in WithNulls(good, null)
  PROVE  \E pieces \in Seq(Seq(Tokens)) :
           /\ Len(pieces) = n /\ b = FlattenSeq(pieces)
           /\ \A i \in 1 .. n : pieces[i] \in good[i] \cup null[i]
           /\ \E i \in 1 .. n : pieces[i] \in null[i]
<1> DEFINE sets == [i \in DOMAIN good |-> good[i] \cup null[i]]
<1>1. PICK row \in Rows(sets) : b = FlattenSeq(row) /\ \E i \in DOMAIN good : row[i] \in null[i]
  BY Zenon DEF WithNulls
<1>2. sets \in [1 .. n -> SUBSET Seq(Tokens)] /\ \A i \in 1 .. n : sets[i] = good[i] \cup null[i]
  BY Zenon
<1> HIDE DEF sets
<1>3. sets \in Seq(SUBSET Seq(Tokens)) /\ Len(sets) = n
  BY <1>2
<1>4. row \in Seq(Seq(Tokens)) /\ Len(row) = n /\ \A i \in 1 .. n : row[i] \in sets[i]
  BY <1>3, RowsAre, Zenon
<1> QED
  BY <1>1, <1>2, <1>4, Zenon

(* The length of a null is read as -1. *)
LEMMA NullLength ==
  ASSUME NEW V, NEW r \in ReadersOf(V), r.st = "ok", NEW rest \in Seq(Tokens),
         r.rest = NullImage \o rest
  PROVE  GetLength(r).st = "ok" /\ GetLength(r).val[1] = -1
<1> DEFINE n == GetLength(r)
<1>1. IsLength(r.rest, n)
  BY LengthRead, Zenon
<1>2. r.rest = <<Token(4, -1)>> \o rest
  BY Zenon DEF NullImage
<1> HIDE DEF n
<1>3. -1 \in Int
  OBVIOUS
<1>4. n.st = "ok" /\ n.val[1] = -1
  BY <1>1, <1>2, <1>3, Zenon DEF IsLength
<1> QED
  BY <1>4, Zenon DEF n

(* Plain fields that are null. *)
LEMMA PlainNull ==
  ASSUME NEW V, Plain \subseteq V, NEW r \in ReadersOf(V), NEW field \in PlainFields
  PROVE  /\ Meets(r, GetPlain(r, field), PlainPut(field), PlainNulls(field))
         /\ PlainNulls(field) \subseteq Seq(Tokens)
<1> DEFINE g == GetPlain(r, field)
<1>1. TakesBack(r, g, PlainPut(field))
  BY PlainRead, Zenon DEF Reads
<1>2. r.st = "panic" => g = r
  BY Zenon DEF GetPlain
<1>3. NullImage \in Seq(Tokens)
  BY TokensAre, WidthOfFew DEF NullImage
<1>4. ASSUME NEW x \in PlainNulls(field), NEW rest \in Seq(Tokens), r.st = "ok", r.rest = x \o rest
      PROVE  g.st = "panic"
  <2>1. field \in {"string", "buffer"} /\ x = NullImage
    BY <1>4, Zenon DEF PlainNulls
  <2> DEFINE n == GetLength(r)
  <2>2. n.st = "ok" /\ n.val[1] = -1
    BY <1>4, <2>1, NullLength, Zenon
  <2>3. \E isString \in BOOLEAN : g = GetContents(r, n, isString)
    BY <1>4, <2>1 DEF GetPlain, GetBytes
  <2> HIDE DEF g, n
  <2>4. ~(-1 > MaxCapacity) /\ -1 < 0
    BY MaxCapacityAssumption
  <2>5. g = Stop(r, "panic")
    BY <2>2, <2>3, <2>4, Zenon DEF GetContents
  <2>6. Stop(r, "panic").st = "panic"
    BY ReaderGoesOn, Zenon DEF Outcomes
  <2> QED
    BY <2>5, <2>6, Zenon
<1>5. PlainNulls(field) \subseteq Seq(Tokens)
  BY <1>3, Zenon DEF PlainNulls
<1> QED
  BY <1>1, <1>2, <1>4, <1>5, Zenon DEF Meets, PanicsOn

(* An element of a vector with a null in it. *)
LEMMA ElementNull ==
  ASSUME NEW r \in ReadersOf(Seq(Plain)), NEW field \in DOMAIN Vectors
  PROVE  /\ Meets(r, GetElement(r, Vectors[field]), FlatPut(Vectors[field]), ElementNulls(field))
         /\ ElementNulls(field) \subseteq Seq(Tokens)
<1> DEFINE R == Vectors[field]
           n == Len(R.wire)
           puts == PlainPuts(R)
           good == [i \in DOMAIN R.wire |-> {PlainImage(R.wire[i], v) : v \in PlainValues(R.wire[i])}]
           null == [i \in DOMAIN R.wire |-> PlainNulls(R.wire[i])]
           g == GetElement(r, R)
<1>1. R.wire \in Seq(PlainFields) /\ ElementFields[field] = R.wire
  BY VectorsArePlain, ElementFieldsAre, Zenon
<1>2. n \in Nat /\ DOMAIN R.wire = 1 .. n /\ \A i \in 1 .. n : R.wire[i] \in PlainFields
  BY <1>1, LenProperties, ElementOfSeq, Zenon
<1>3. ElementNulls(field) = WithNulls(good, null)
  BY <1>1, Zenon DEF ElementNulls
<1>4. \A i \in 1 .. n : puts[i] = PlainPut(R.wire[i]) /\ IsPut(puts[i], Plain)
  BY <1>1, <1>2, FlatPutIs, Zenon DEF PlainPuts
<1>5. \A i \in 1 .. n : null[i] = PlainNulls(R.wire[i])
  BY <1>2, Zenon
<1>6. ASSUME NEW i \in 1 .. n
      PROVE  good[i] \subseteq Written(puts[i]) /\ good[i] \cup null[i] \subseteq Seq(Tokens)
  <2> DEFINE f == R.wire[i]
  <2>1. f \in PlainFields
    BY <1>2, Zenon
  <2>2. good[i] = {PlainImage(f, v) : v \in PlainValues(f)}
    BY <1>2, Zenon
  <2> HIDE DEF good
  <2>8. /\ PlainValues(f) \subseteq PlainSet(f) /\ DOMAIN PlainPut(f) = PlainSet(f)
        /\ \A v \in PlainSet(f) : PlainImage(f, v) = PutPlain(f, v)
        /\ \A v \in PlainSet(f) : PlainPut(f)[v] = PutPlain(f, v)
    <3> HIDE DEF f
    <3> QED
      BY <2>1, PlainIs, PlainPutIs, Zenon
  <2>3. \A v \in PlainValues(f) : v \in DOMAIN PlainPut(f) /\ PlainImage(f, v) = PlainPut(f)[v]
    <3> HIDE DEF f
    <3> QED
      BY <2>8, Zenon
  <2>4. good[i] \subseteq Written(puts[i])
    BY <1>4, <2>2, <2>3, Zenon DEF Written
  <2>5. IsPut(PlainPut(f), Plain)
    BY <1>4, Zenon
  <2>6. good[i] \subseteq Seq(Tokens)
    BY <1>4, <2>4, <2>5, Zenon DEF Written, IsPut
  <2>7. PlainNulls(f) \subseteq Seq(Tokens)
    <3>1. NullImage \in Seq(Tokens)
      BY TokensAre, WidthOfFew DEF NullImage
    <3> QED
      BY <3>1, Zenon DEF PlainNulls
  <2> QED
    BY <1>5, <2>4, <2>6, <2>7, Zenon
<1>7. DOMAIN good = 1 .. n
  BY <1>2, Zenon
<1> HIDE DEF good, null, puts, n
<1>8. ASSUME NEW b \in ElementNulls(field)
      PROVE  /\ b \in Seq(Tokens)
             /\ \E pieces : b = FlattenSeq(pieces) /\ SomePieceNull(pieces, n, puts, null)
  <2>1. PICK pieces \in Seq(Seq(Tokens)) :
          /\ Len(pieces) = n /\ b = FlattenSeq(pieces)
          /\ \A i \in 1 .. n : pieces[i] \in good[i] \cup null[i]
          /\ \E i \in 1 .. n : pieces[i] \in null[i]
    <3>1. \A i \in 1 .. n : good[i] \cup null[i] \subseteq Seq(Tokens)
      BY <1>6, Zenon
    <3>2. b \in WithNulls(good, null)
      BY <1>3, Zenon
    <3> QED
      BY <1>2, <1>7, <3>1, <3>2, WithNullsAre, SMTT(30)
  <2>2. n <= Len(pieces)
    BY <1>2, <2>1
  <2>3. SomePieceNull(pieces, n, puts, null)
    BY <1>6, <2>1, <2>2, Zenon DEF SomePieceNull
  <2>4. b \in Seq(Tokens)
    BY <2>1, FlattenIs, Zenon
  <2> QED
    BY <2>1, <2>3, <2>4, Zenon
<1>9. TakesBack(r, g, FlatPut(R))
  BY <1>1, ElementRead, Zenon DEF Reads
<1>10. r.st = "panic" => g = r
  BY Zenon DEF GetElement
<1>11. ASSUME NEW x \in ElementNulls(field), NEW rest \in Seq(Tokens), r.st = "ok", r.rest = x \o rest
       PROVE  g.st = "panic"
  <2> DEFINE q == [st |-> r.st, val |-> <<>>, rest |-> r.rest]
             after == PlainReads(q, R)
  <2>1. g = Nested(r, GetFlat(q, R))
    <3>1. [r EXCEPT !.val = <<>>] = q
      BY ReaderIs, Zenon
    <3> QED
      BY <1>11, <3>1, Zenon DEF GetElement
  <2>2. q \in ReadersOf(Plain) /\ q.st = "ok" /\ q.val = <<>> /\ q.rest = r.rest
    <3>1. r.st \in Outcomes /\ r.rest \in Seq(Tokens)
      BY ReaderIs, Zenon
    <3>2. <<>> \in Seq(Plain)
      BY EmptyFacts, Zenon
    <3> QED
      BY <1>11, <3>1, <3>2 DEF ReadersOf
  <2> HIDE DEF q
  <2>3. /\ after \in [0 .. n -> ReadersOf(Plain)] /\ after[0] = q
        /\ \A i \in 1 .. n : after[i] = GetPlain(after[i - 1], R.wire[i])
    BY <1>1, <2>2, PlainReadsIs, ZenonT(40) DEF n
  <2>4. after[n] = GetFlat(q, R)
    BY Zenon DEF GetFlat, n
  <2> HIDE DEF after
  <2>5. n \in 0 .. n /\ \A i \in 1 .. n : i - 1 \in 0 .. n
    BY <1>2
  <2>6. IsReading(after, Plain, n, puts)
    BY <1>2, <1>4, <2>2, <2>3, Zenon DEF IsReading
  <2>7. \A i \in 1 .. n : Meets(after[i - 1], after[i], puts[i], null[i])
    <3>1. ASSUME NEW i \in 1 .. n
          PROVE  Meets(after[i - 1], after[i], puts[i], null[i])
      <4>1. after[i - 1] \in ReadersOf(Plain) /\ R.wire[i] \in PlainFields /\ Plain \subseteq Plain
        BY <1>2, <2>3, <2>5, Zenon
      <4>2. Meets(after[i - 1], GetPlain(after[i - 1], R.wire[i]), PlainPut(R.wire[i]), PlainNulls(R.wire[i]))
        BY <4>1, PlainNull, Zenon
      <4> QED
        BY <1>4, <1>5, <2>3, <4>2, Zenon
    <3> QED
      BY <3>1, Zenon
  <2>8. PICK pieces : x = FlattenSeq(pieces) /\ SomePieceNull(pieces, n, puts, null)
    BY <1>8, Zenon
  <2>9. after[0].rest = FlattenSeq(pieces) \o rest
    BY <1>11, <2>2, <2>3, <2>8, Zenon
  <2>10. after[n].st = "panic"
    BY <2>6, <2>7, <2>8, <2>9, NullIsMet, Zenon
  <2> DEFINE in == GetFlat(q, R)
  <2>11. in.st = "panic" /\ in \in ReadersOf(Plain)
    BY <2>3, <2>4, <2>5, <2>10, Zenon
  <2> HIDE DEF in
  <2>12. Nested(r, in).st = in.st
    BY <2>11 DEF Nested, ReadersOf
  <2> QED
    BY <2>1, <2>11, <2>12, Zenon DEF in
<1>12. ElementNulls(field) \subseteq Seq(Tokens)
  BY <1>8, Zenon
<1> HIDE DEF g
<1> QED
  BY <1>9, <1>10, <1>11, <1>12, Zenon DEF Meets, PanicsOn, R, g

(* A sequence of a bounded length, with a null in it. *)
LEMMA SomeNullIs ==
  ASSUME NEW good, NEW null, good \cup null \subseteq Seq(Tokens), NEW n \in Nat,
         NEW row \in SomeNull(good, null, n)
  PROVE  /\ row \in Seq(Seq(Tokens)) /\ Len(row) \in 0 .. n
         /\ \A i \in 1 .. Len(row) : row[i] \in good \cup null
         /\ \E i \in 1 .. Len(row) : row[i] \in null
<1>1. row \in SeqOf(good \cup null, n) /\ \E i \in DOMAIN row : row[i] \in null
  BY Zenon DEF SomeNull, BoundedSeq
<1>2. PICK m \in 0 .. n : row \in [1 .. m -> good \cup null]
  BY <1>1, Zenon DEF SeqOf
<1>3. m \in Nat /\ row \in [1 .. m -> Seq(Tokens)] /\ DOMAIN row = 1 .. m
  BY <1>2
<1>4. row \in Seq(Seq(Tokens)) /\ Len(row) = m
  BY <1>3, SeqDef, LenProperties
<1> QED
  BY <1>1, <1>2, <1>3, <1>4, Zenon

(* A vector that is null, or has an element with a null in it. *)
LEMMA VectorNull ==
  ASSUME NEW r \in ReadersOf(FieldVal), NEW field \in DOMAIN Vectors
  PROVE  /\ Meets(r, GetVector(r, Vectors[field]), VecPut(Vectors[field]), VectorNulls(field))
         /\ VectorNulls(field) \subseteq Seq(Tokens)
<1> DEFINE R == Vectors[field]
           g == GetVector(r, R)
           n == GetLength(r)
           good == {ElementImage(field, e) : e \in ElementRows(field)}
           null == ElementNulls(field)
<1>1. R.wire \in Seq(PlainFields)
  BY VectorsArePlain, Zenon
<1>2. TakesBack(r, g, VecPut(R))
  BY <1>1, VectorRead, Zenon DEF Reads
<1>3. r.st = "panic" => g = r
  BY Zenon DEF GetVector
<1>4. null \subseteq Seq(Tokens)
  <2>1. Reader(<<>>) \in ReadersOf(Seq(Plain))
    BY EmptyFacts, Zenon DEF ReadersOf, Reader, Outcomes
  <2> QED
    BY <2>1, ElementNull, Zenon
<1>5. good \subseteq Written(FlatPut(R)) /\ good \subseteq Seq(Tokens)
  <2>1. \A e \in ElementRows(field) : e \in DOMAIN FlatPut(R) /\ ElementImage(field, e) = FlatPut(R)[e]
    BY <1>1, ElementIs, FlatPutIs, Zenon
  <2>2. IsPut(FlatPut(R), Seq(Plain))
    BY <1>1, FlatPutIs, Zenon
  <2> HIDE DEF R
  <2> QED
    BY <2>1, <2>2, Zenon DEF Written, IsPut
<1>6. \A x \in VectorNulls(field) :
        x = NullImage \/ \E row \in SomeNull(good, null, MaxElements) : x = <<Token(4, Len(row))>> \o FlattenSeq(row)
  BY Zenon DEF VectorNulls
<1>7. MaxElements \in Nat /\ MaxElements <= MaxCapacity
  BY ProtocolAssumption, Zenon
<1>8. ASSUME NEW row \in SomeNull(good, null, MaxElements)
      PROVE  /\ SomePieceNull(row, Len(row), ElementPuts(R, Len(row)), [i \in 1 .. Len(row) |-> null])
             /\ Len(row) \in Nat /\ Len(row) <= MaxCapacity /\ Len(row) \in Int
             /\ FlattenSeq(row) \in Seq(Tokens) /\ <<Token(4, Len(row))>> \in Seq(Tokens)
  <2> DEFINE k == Len(row)
             nulls == [i \in 1 .. k |-> null]
             puts == ElementPuts(R, k)
  <2> HIDE DEF good, null
  <2>1. /\ row \in Seq(Seq(Tokens)) /\ k \in 0 .. MaxElements
        /\ \A i \in 1 .. k : row[i] \in good \cup null
        /\ \E i \in 1 .. k : row[i] \in null
    BY <1>4, <1>5, <1>7, SomeNullIs, Zenon
  <2> HIDE DEF k
  <2>2. k \in Nat /\ k \in Int /\ k <= MaxCapacity /\ k <= k
    BY <1>7, <2>1, MaxCapacityAssumption
  <2>3. \A i \in 1 .. k : puts[i] = FlatPut(R) /\ nulls[i] = null
    BY Zenon DEF ElementPuts
  <2> HIDE DEF puts, nulls
  <2>4. SomePieceNull(row, k, puts, nulls)
    BY <1>5, <2>1, <2>2, <2>3, Zenon DEF SomePieceNull, k
  <2>5. 4 \in Nat \ {0}
    OBVIOUS
  <2>6. Token(4, k) \in Tokens
    BY <2>2, <2>5, TokensAre, Zenon
  <2>7. <<Token(4, k)>> \in Seq(Tokens) /\ FlattenSeq(row) \in Seq(Tokens)
    BY <2>1, <2>6, FlattenIs, WidthOfFew, Zenon
  <2> QED
    BY <2>2, <2>4, <2>7, Zenon DEF k, puts, nulls
<1>9. VectorNulls(field) \subseteq Seq(Tokens)
  <2>1. NullImage \in Seq(Tokens)
    BY TokensAre, WidthOfFew DEF NullImage
  <2> HIDE DEF good, null
  <2>2. \A row \in SomeNull(good, null, MaxElements) :
          <<Token(4, Len(row))>> \o FlattenSeq(row) \in Seq(Tokens)
    BY <1>8, WidthOfConcat, Zenon
  <2> QED
    BY <1>6, <2>1, <2>2, Zenon
<1>10. ASSUME NEW x \in VectorNulls(field), NEW rest \in Seq(Tokens), r.st = "ok", r.rest = x \o rest
       PROVE  g.st = "panic"
  <2> DEFINE k == n.val[1]
             in == ElementReads(Reader(n.rest), R, k)[k]
  <2>1. g = IF n.st # "ok" THEN Stop(r, n.st)
            ELSE IF k < 0 THEN Stop(r, "panic")
            ELSE IF k > MaxCapacity THEN Stop(r, "abort") ELSE Nested(r, in)
    BY <1>10, Zenon DEF GetVector, GetElements
  <2>2. IsLength(r.rest, n)
    BY <1>10, LengthRead, Zenon
  <2>3. CASE x = NullImage
    <3>1. n.st = "ok" /\ k = -1
      BY <1>10, <2>3, NullLength, Zenon
    <3> HIDE DEF g, n, k
    <3>2. -1 < 0
      OBVIOUS
    <3>3. g = Stop(r, "panic")
      BY <2>1, <3>1, <3>2, Zenon
    <3> QED
      BY <3>3, ReaderGoesOn, Zenon DEF Outcomes
  <2>4. ASSUME NEW row \in SomeNull(good, null, MaxElements), x = <<Token(4, Len(row))>> \o FlattenSeq(row)
        PROVE  g.st = "panic"
    <3> DEFINE m == Len(row)
               toks == FlattenSeq(row) \o rest
               q == Reader(toks)
               after == ElementReads(q, R, m)
               puts == ElementPuts(R, m)
               nulls == [i \in 1 .. m |-> null]
    <3>1. /\ SomePieceNull(row, m, puts, nulls)
          /\ m \in Nat /\ m <= MaxCapacity /\ m \in Int
          /\ FlattenSeq(row) \in Seq(Tokens) /\ <<Token(4, m)>> \in Seq(Tokens)
      BY <1>8, Zenon
    <3> HIDE DEF m
    <3>2. toks \in Seq(Tokens)
      BY <3>1, WidthOfConcat, Zenon
    <3>3. r.rest = <<Token(4, m)>> \o toks
      <4> DEFINE a == <<Token(4, m)>>
                 b == FlattenSeq(row)
      <4>1. a \in Seq(Tokens) /\ b \in Seq(Tokens) /\ r.rest = (a \o b) \o rest
        BY <1>10, <2>4, <3>1, Zenon DEF m
      <4> HIDE DEF a, b
      <4>2. (a \o b) \o rest = a \o (b \o rest)
        BY <4>1, ConcatAssociative
      <4> QED
        BY <4>1, <4>2, Zenon DEF a, b
    <3>4. n.st = "ok" /\ k = m /\ n.rest = toks
      BY <2>2, <3>1, <3>2, <3>3, Zenon DEF IsLength
    <3>5. g = Nested(r, after[m])
      <4> HIDE DEF g, n, k
      <4>1. ~(m < 0) /\ ~(m > MaxCapacity)
        BY <3>1, MaxCapacityAssumption
      <4> QED
        BY <2>1, <3>4, <4>1, Zenon
    <3>6. q \in ReadersOf(Seq(Plain)) /\ q.st = "ok" /\ q.val = <<>> /\ q.rest = toks
      <4> HIDE DEF toks
      <4>1. <<>> \in Seq(Seq(Plain)) /\ "ok" \in Outcomes
        BY EmptyFacts, Zenon DEF Outcomes
      <4> QED
        BY <3>2, <4>1 DEF ReadersOf, Reader
    <3> HIDE DEF q
    <3>7. /\ after \in [0 .. m -> ReadersOf(Seq(Plain))] /\ after[0] = q
          /\ \A i \in 1 .. m : after[i] = GetElement(after[i - 1], R)
      BY <1>1, <3>1, <3>6, ElementReadsIs, Zenon
    <3> HIDE DEF after
    <3>8. m \in 0 .. m /\ \A i \in 1 .. m : i - 1 \in 0 .. m
      BY <3>1
    <3>9. \A i \in 1 .. m : puts[i] = FlatPut(R) /\ IsPut(puts[i], Seq(Plain)) /\ nulls[i] = null
      BY <1>1, FlatPutIs, Zenon DEF ElementPuts
    <3> HIDE DEF puts, nulls
    <3>10. IsReading(after, Seq(Plain), m, puts)
      BY <3>1, <3>6, <3>7, <3>9, Zenon DEF IsReading
    <3>11. \A i \in 1 .. m : Meets(after[i - 1], after[i], puts[i], nulls[i])
      <4>1. ASSUME NEW i \in 1 .. m
            PROVE  Meets(after[i - 1], after[i], puts[i], nulls[i])
        <5>1. after[i - 1] \in ReadersOf(Seq(Plain))
          BY <3>7, <3>8, Zenon
        <5>2. Meets(after[i - 1], GetElement(after[i - 1], R), FlatPut(R), null)
          BY <5>1, ElementNull, Zenon
        <5> QED
          BY <3>7, <3>9, <5>2, Zenon
      <4> QED
        BY <4>1, Zenon
    <3>12. after[0].rest = FlattenSeq(row) \o rest
      BY <3>6, <3>7, Zenon
    <3>13. after[m].st = "panic"
      BY <3>1, <3>10, <3>11, <3>12, NullIsMet, Zenon
    <3> DEFINE e == after[m]
    <3>14. e \in ReadersOf(Seq(Plain)) /\ e.st = "panic" /\ g = Nested(r, e)
      BY <3>5, <3>7, <3>8, <3>13, Zenon
    <3> HIDE DEF e, g
    <3>15. Nested(r, e).st = e.st
      BY <3>14 DEF Nested, ReadersOf
    <3> QED
      BY <3>14, <3>15, Zenon
  <2> HIDE DEF good, null, g, n
  <2> QED
    BY <1>6, <2>3, <2>4, Zenon
<1> HIDE DEF g
<1> QED
  BY <1>2, <1>3, <1>9, <1>10, Zenon DEF Meets, PanicsOn, R, g

(* Every field that is null, or has a null in it, is met with a panic. *)
LEMMA FieldNull ==
  ASSUME NEW r \in ReadersOf(FieldVal), NEW field \in Fields
  PROVE  /\ Meets(r, GetField(r, field), FieldPut(field), FieldNulls(field))
         /\ FieldNulls(field) \subseteq Seq(Tokens)
<1>0. DOMAIN ElementFields = DOMAIN Vectors
  BY ElementFieldsAre, Zenon
<1>1. CASE field \in DOMAIN Vectors
  <2>1. /\ GetField(r, field) = GetVector(r, Vectors[field])
        /\ FieldPut(field) = VecPut(Vectors[field])
        /\ FieldNulls(field) = VectorNulls(field)
    BY <1>0, <1>1, Zenon DEF GetField, FieldPut, FieldNulls
  <2> QED
    BY <1>1, <2>1, VectorNull, Zenon
<1>2. CASE field \notin DOMAIN Vectors
  <2>1. /\ GetField(r, field) = GetPlain(r, field)
        /\ FieldPut(field) = PlainPut(field)
        /\ FieldNulls(field) = PlainNulls(field)
    BY <1>0, <1>2, Zenon DEF GetField, FieldPut, FieldNulls
  <2>2. field \in PlainFields /\ Plain \subseteq FieldVal
    BY <1>2, Zenon DEF Fields, FieldVal
  <2> QED
    BY <2>1, <2>2, PlainNull, Zenon
<1> QED
  BY <1>1, <1>2, Zenon

\* The nulls of each field of a record
NullsOf(wire) == [i \in DOMAIN wire |-> FieldNulls(wire[i])]

(* deserialize() panics when one of the first m fields of the record is null. *)
LEMMA NullStops ==
  ASSUME NEW R, R.wire \in Seq(WireFields), NEW m \in 0 .. Len(R.wire),
         \A i \in 1 .. m : R.wire[i] \in Fields,
         NEW pieces, SomePieceNull(pieces, m, FieldPuts(R), NullsOf(R.wire)),
         NEW rest \in Seq(Tokens), NEW toks \in Seq(Tokens), toks = FlattenSeq(pieces) \o rest
  PROVE  Deserialize(R, toks).st = "panic"
<1> DEFINE n == Len(R.wire)
           r == Reader(toks)
           puts == FieldPuts(R)
           nulls == NullsOf(R.wire)
           F == FieldReads(r, R)
           after == [i \in 0 .. m |-> F[i]]
<1>1. n \in Nat /\ DOMAIN R.wire = 1 .. n
  BY LenProperties, Zenon
<1>2. r \in ReadersOf(FieldVal) /\ r.st = "ok" /\ r.val = <<>> /\ r.rest = toks
  <2>1. <<>> \in Seq(FieldVal) /\ "ok" \in Outcomes
    BY EmptyFacts, Zenon DEF Outcomes
  <2> QED
    BY <2>1 DEF ReadersOf, Reader
<1> HIDE DEF r
<1>3. /\ F \in [0 .. n -> ReadersOf(FieldVal)] /\ F[0] = r
      /\ \A i \in 1 .. n : F[i] = GetField(F[i - 1], R.wire[i])
  BY <1>2, FieldReadsIs, ZenonT(40)
<1>12. Deserialize(R, toks) = F[n]
  BY Zenon DEF Deserialize, r
<1> HIDE DEF F, n
<1>4. /\ m \in Nat /\ m \in 0 .. m /\ 0 \in 0 .. m
      /\ \A i \in 0 .. m : i \in 0 .. n
      /\ \A i \in 1 .. m : i - 1 \in 0 .. m /\ i \in 0 .. m /\ i \in 1 .. n
      /\ \A i \in 1 .. n : i - 1 \in 0 .. n
      /\ 0 \in 0 .. n /\ n \in 0 .. n /\ (0 < m \/ m = 0)
      /\ \A i \in 0 .. n : i < m \/ i = m \/ (i >= m /\ i - 1 >= m)
  BY <1>1 DEF n
<1>5. \A i \in 1 .. m : /\ puts[i] = FieldPut(R.wire[i]) /\ IsPut(puts[i], FieldVal)
                        /\ nulls[i] = FieldNulls(R.wire[i])
  BY <1>1, <1>4, FieldPutIs, Zenon DEF FieldPuts, NullsOf
<1>6. /\ after \in [0 .. m -> ReadersOf(FieldVal)] /\ after[0] = r /\ after[m] = F[m]
      /\ \A i \in 1 .. m : after[i] = GetField(after[i - 1], R.wire[i])
  BY <1>3, <1>4, Zenon
<1> HIDE DEF puts, after, nulls
<1>7. IsReading(after, FieldVal, m, puts)
  BY <1>2, <1>4, <1>5, <1>6, Zenon DEF IsReading
<1>8. ASSUME NEW i \in 1 .. m
      PROVE  Meets(after[i - 1], after[i], puts[i], nulls[i])
  <2>1. after[i - 1] \in ReadersOf(FieldVal)
    BY <1>4, <1>6, Zenon
  <2>2. Meets(after[i - 1], GetField(after[i - 1], R.wire[i]), FieldPut(R.wire[i]), FieldNulls(R.wire[i]))
    BY <2>1, FieldNull, Zenon
  <2> QED
    BY <1>5, <1>6, <2>2, Zenon
<1>9. F[m].st = "panic"
  <2>1. SomePieceNull(pieces, m, puts, nulls)
    BY Zenon DEF puts, nulls
  <2>2. after[0].rest = FlattenSeq(pieces) \o rest
    BY <1>2, <1>6, Zenon
  <2> QED
    <3>1. \A i \in 1 .. m : Meets(after[i - 1], after[i], puts[i], nulls[i])
      BY <1>8, Zenon
    <3>2. after[m].st = "panic"
      BY <1>7, <2>1, <2>2, <3>1, NullIsMet, Zenon
    <3> QED
      BY <1>6, <3>2, Zenon
<1> DEFINE T == {i \in 0 .. n : i >= m => F[i].st = "panic"}
<1>10. 0 \in T
  BY <1>4, <1>9 DEF n
<1>11. ASSUME NEW i \in 1 .. n, i - 1 \in T
       PROVE  i \in T
  <2>1. i \in 0 .. n
    BY <1>1 DEF n
  <2>2. CASE i < m
    BY <1>4, <2>1, <2>2 DEF n
  <2>3. CASE i = m
    BY <1>9, <2>1, <2>3, Zenon
  <2>4. CASE i >= m /\ i - 1 >= m
    <3>1. F[i - 1].st = "panic" /\ F[i] = GetField(F[i - 1], R.wire[i])
      BY <1>3, <1>11, <2>4, Zenon
    <3>2. "panic" # "ok"
      OBVIOUS
    <3>3. GetField(F[i - 1], R.wire[i]) = F[i - 1]
      BY <3>1, <3>2, Zenon DEF GetField, GetVector, GetPlain
    <3> QED
      BY <2>1, <3>1, <3>3, Zenon
  <2> QED
    BY <1>4, <2>1, <2>2, <2>3, <2>4, Zenon
<1> HIDE DEF T
<1>13. n \in T
  BY <1>1, <1>4, <1>10, <1>11, InductionTo, Zenon DEF n
<1>14. n >= m
  BY <1>1 DEF n
<1> QED
  BY <1>12, <1>13, <1>14, Zenon DEF T

(* Images with nulls are pieces, of which one is null. *)
LEMMA NullImagesAre ==
  ASSUME NEW R, R.wire \in Seq(Fields), NEW b \in NullImages(R.wire)
  PROVE  \E pieces : /\ b = FlattenSeq(pieces) /\ b \in Seq(Tokens) /\ Len(pieces) = Len(R.wire)
                     /\ SomePieceNull(pieces, Len(R.wire), FieldPuts(R), NullsOf(R.wire))
<1> DEFINE n == Len(R.wire)
           good == [i \in DOMAIN R.wire |-> {Image(R.wire[i], v) : v \in Values(R.wire[i])}]
           null == [i \in DOMAIN R.wire |-> FieldNulls(R.wire[i])]
           puts == FieldPuts(R)
<1>1. n \in Nat /\ DOMAIN R.wire = 1 .. n /\ \A i \in 1 .. n : R.wire[i] \in Fields
  BY LenProperties, ElementOfSeq, Zenon
<1>2. b \in WithNulls(good, null)
  BY Zenon DEF NullImages
<1>3. \A i \in 1 .. n : puts[i] = FieldPut(R.wire[i]) /\ null[i] = FieldNulls(R.wire[i])
  BY <1>1, Zenon DEF FieldPuts
<1>4. null = NullsOf(R.wire)
  BY Zenon DEF NullsOf
<1>5. ASSUME NEW i \in 1 .. n
      PROVE  good[i] \subseteq Written(puts[i]) /\ good[i] \cup null[i] \subseteq Seq(Tokens)
  <2> DEFINE f == R.wire[i]
  <2>1. f \in Fields
    BY <1>1, Zenon
  <2>2. good[i] = {Image(f, v) : v \in Values(f)}
    BY <1>1, Zenon
  <2> HIDE DEF good
  <2>3. \A v \in Values(f) : v \in DOMAIN FieldPut(f) /\ Image(f, v) = FieldPut(f)[v]
    BY <2>1, FieldIs, FieldPutIs, Zenon
  <2>4. good[i] \subseteq Written(puts[i])
    BY <1>3, <2>2, <2>3, Zenon DEF Written
  <2>5. IsPut(FieldPut(f), FieldVal)
    BY <2>1, FieldPutIs, Zenon
  <2>6. good[i] \subseteq Seq(Tokens)
    BY <1>3, <2>4, <2>5, Zenon DEF Written, IsPut
  <2>7. FieldNulls(f) \subseteq Seq(Tokens)
    <3>1. Reader(<<>>) \in ReadersOf(FieldVal)
      BY EmptyFacts, Zenon DEF ReadersOf, Reader, Outcomes
    <3> QED
      BY <2>1, <3>1, FieldNull, Zenon
  <2> QED
    BY <1>3, <2>4, <2>6, <2>7, Zenon
<1>6. DOMAIN good = 1 .. n
  BY <1>1, Zenon
<1> HIDE DEF good, null, puts, n
<1>7. PICK pieces \in Seq(Seq(Tokens)) :
        /\ Len(pieces) = n /\ b = FlattenSeq(pieces)
        /\ \A i \in 1 .. n : pieces[i] \in good[i] \cup null[i]
        /\ \E i \in 1 .. n : pieces[i] \in null[i]
  <2>1. \A i \in 1 .. n : good[i] \cup null[i] \subseteq Seq(Tokens)
    BY <1>5, Zenon
  <2> QED
    BY <1>1, <1>2, <1>6, <2>1, WithNullsAre, SMTT(30)
<1>8. n <= Len(pieces)
  BY <1>1, <1>7
<1>9. SomePieceNull(pieces, n, puts, null)
  BY <1>5, <1>7, <1>8, Zenon DEF SomePieceNull
<1>10. b \in Seq(Tokens)
  BY <1>7, FlattenIs, Zenon
<1> QED
  BY <1>4, <1>7, <1>9, <1>10, Zenon DEF n, puts

(* deserialize() panics on every image of its fields that has a null in it. *)
LEMMA NullRead ==
  ASSUME NEW R, R.wire \in Seq(Fields), NEW b \in NullImages(R.wire), NEW rest \in Seq(Tokens)
  PROVE  /\ b \in Seq(Tokens)
         /\ Deserialize(R, b \o rest).st = "panic"
<1>1. PICK pieces : /\ b = FlattenSeq(pieces) /\ b \in Seq(Tokens)
                    /\ SomePieceNull(pieces, Len(R.wire), FieldPuts(R), NullsOf(R.wire))
  BY NullImagesAre, Zenon
<1>2. Len(R.wire) \in 0 .. Len(R.wire) /\ \A i \in 1 .. Len(R.wire) : R.wire[i] \in Fields
  <2>1. Len(R.wire) \in Nat /\ \A i \in 1 .. Len(R.wire) : R.wire[i] \in Fields
    BY LenProperties, ElementOfSeq, Zenon
  <2> QED
    BY <2>1
<1>3. R.wire \in Seq(WireFields)
  <2>1. Fields \subseteq WireFields
    BY Zenon DEF WireFields
  <2> QED
    BY <2>1, SeqMonotonic
<1>4. b \o rest \in Seq(Tokens)
  BY <1>1, ConcatProperties
<1> QED
  BY <1>1, <1>2, <1>3, <1>4, NullStops, Zenon

=============================================================================
