--------------------------- MODULE SequenceLemmas ---------------------------
(***************************************************************************)
(* What the proofs need about the community modules' operators on          *)
(* sequences.  The library's theorems on folds and induction take          *)
(* operators as parameters; these are stated with sets and functions.      *)
(***************************************************************************)
EXTENDS SequencesExt, Integers, SequenceTheorems, FiniteSetTheorems, TLAPS

(* A set of naturals that holds 0 and every successor holds them all: if   *)
(* it lacked k, taking successors would map its members up to k one to one *)
(* into those above 0, of which there is one fewer.                        *)
LEMMA SuccessorsReachAll ==
  ASSUME NEW S \in SUBSET Nat, 0 \in S, \A n \in S : n + 1 \in S
  PROVE  Nat \subseteq S
<1> SUFFICES ASSUME NEW k \in Nat, k \notin S
             PROVE  FALSE
  OBVIOUS
<1> DEFINE Below == S \cap (0..k)
           Above == Below \ {0}
           next == [n \in Below |-> n + 1]
<1>1. IsFiniteSet(Below)
  <2>1. IsFiniteSet(0..k)
    BY FS_Interval
  <2> QED
    BY <2>1, FS_Subset
<1>2. /\ IsFiniteSet(Above)
      /\ Cardinality(Above) = Cardinality(Below) - 1
      /\ Cardinality(Below) \in Nat
  <2>1. 0 \in Below
    OBVIOUS
  <2> HIDE DEF Below
  <2> QED
    BY <1>1, <2>1, FS_RemoveElement, FS_CardinalityType
<1>3. next \in [Below -> Above]
  <2>1. \A n \in Below : n + 1 \in Above
    BY SMT
  <2> QED
    BY <2>1
<1>4. \A m, n \in Below : m # n => next[m] # next[n]
  BY SMT
<1>5. Cardinality(Above) < Cardinality(Below)
  BY <1>2
<1> HIDE DEF Below, Above, next
<1> QED
  BY <1>1, <1>2, <1>3, <1>4, <1>5, FS_PigeonHole

(* Every set of naturals that holds one has a least one.                   *)
LEMMA LeastExists ==
  ASSUME NEW X \in SUBSET Nat, NEW x \in X
  PROVE  \E n \in X : \A m \in X : n <= m
<1> SUFFICES ASSUME \A n \in X : \E m \in X : m < n
             PROVE  FALSE
  BY SMT
<1> DEFINE S == {n \in Nat : \A m \in X : n < m}
<1>1. 0 \in S
  <2>1. 0 \notin X
    BY SMT
  <2> QED
    BY <2>1
<1>2. S \in SUBSET Nat /\ \A n \in S : n + 1 \in S
  <2> SUFFICES ASSUME NEW n \in S
               PROVE  n + 1 \in S
    OBVIOUS
  <2>1. n + 1 \notin X
    BY SMT
  <2>2. \A m \in X : n < m /\ m # n + 1 /\ m \in Nat
    BY <2>1
  <2> QED
    BY <2>2
<1> HIDE DEF S
<1>3. x \in S
  BY <1>1, <1>2, SuccessorsReachAll
<1> QED
  BY <1>3 DEF S

-----------------------------------------------------------------------------
(* Concatenating the members of a sequence, prefix by prefix. *)

(* The function FlattenSeq recurses with exists. *)
LEMMA ConcatenationsExist ==
  ASSUME NEW s, NEW n \in Nat
  PROVE  \E f : f = [i \in 1..n |-> IF i = 1 THEN s[i] ELSE f[i - 1] \o s[i]]
<1> DEFINE Concatenated(k, f) == f = [i \in 1..k |-> IF i = 1 THEN s[i] ELSE f[i - 1] \o s[i]]
           S == {k \in Nat : \E f : Concatenated(k, f)}
<1>1. 0 \in S
  <2>1. Concatenated(0, [i \in 1..0 |-> s[i]])
    OBVIOUS
  <2> QED
    BY <2>1
<1>2. ASSUME NEW k \in Nat, NEW f, Concatenated(k, f)
      PROVE  \E h : Concatenated(k + 1, h)
  <2> DEFINE h == [i \in 1..(k + 1) |->
                     IF i = k + 1 THEN (IF k = 0 THEN s[1] ELSE f[k] \o s[k + 1]) ELSE f[i]]
  <2>1. ASSUME NEW i \in 1..(k + 1)
        PROVE  h[i] = IF i = 1 THEN s[i] ELSE h[i - 1] \o s[i]
    <3>1. CASE i = k + 1
      BY <1>2, <3>1
    <3>2. CASE i # k + 1
      <4>1. i \in 1..k /\ h[i] = f[i]
        BY <1>2, <3>2
      <4>2. f[i] = IF i = 1 THEN s[i] ELSE f[i - 1] \o s[i]
        BY <1>2, <4>1, Zenon
      <4>3. i # 1 => h[i - 1] = f[i - 1]
        BY <1>2, <4>1
      <4> QED
        BY <4>1, <4>2, <4>3
    <3> QED
      BY <3>1, <3>2
  <2>2. h = [i \in 1..(k + 1) |-> h[i]]
    OBVIOUS
  <2>3. Concatenated(k + 1, h)
    <3> HIDE DEF h
    <3> QED
      BY <2>1, <2>2, Zenon
  <2> QED
    BY <2>3
<1>3. S \in SUBSET Nat /\ \A k \in S : k + 1 \in S
  <2> HIDE DEF Concatenated
  <2> QED
    BY <1>2
<1> HIDE DEF S
<1>4. n \in S
  BY <1>1, <1>3, SuccessorsReachAll
<1> QED
  BY <1>4 DEF S

LEMMA FlattenSeqSteps ==
  ASSUME NEW s, Len(s) \in Nat, Len(s) # 0
  PROVE  \E f : /\ FlattenSeq(s) = f[Len(s)]
                /\ f[1] = s[1]
                /\ \A i \in 2..Len(s) : f[i] = f[i - 1] \o s[i]
<1> DEFINE flatten == CHOOSE f : f = [i \in 1..Len(s) |->
                                        IF i = 1 THEN s[i] ELSE f[i - 1] \o s[i]]
<1>1. flatten = [i \in 1..Len(s) |-> IF i = 1 THEN s[i] ELSE flatten[i - 1] \o s[i]]
  <2>1. \E f : f = [i \in 1..Len(s) |-> IF i = 1 THEN s[i] ELSE f[i - 1] \o s[i]]
    BY ConcatenationsExist
  <2> QED
    BY <2>1, Zenon
<1>2. FlattenSeq(s) = flatten[Len(s)]
  BY Zenon DEF FlattenSeq
<1> HIDE DEF flatten
<1>3. flatten[1] = s[1]
  BY <1>1
<1>4. ASSUME NEW i \in 2..Len(s)
      PROVE  flatten[i] = flatten[i - 1] \o s[i]
  <2>1. i \in 1..Len(s) /\ i # 1
    OBVIOUS
  <2> QED
    BY <1>1, <2>1, Zenon
<1> QED
  BY <1>2, <1>3, <1>4
(* Where the elements of a concatenation are. *)
LEMMA ConcatAt ==
  ASSUME NEW T, NEW a \in Seq(T), NEW b \in Seq(T)
  PROVE  /\ a \o b \in Seq(T)
         /\ Len(a \o b) = Len(a) + Len(b)
         /\ \A m \in 1..Len(a) : (a \o b)[m] = a[m]
         /\ \A k \in 1..Len(b) : (a \o b)[Len(a) + k] = b[k]
<1>1. /\ Len(a) \in Nat /\ Len(b) \in Nat
      /\ a \o b \in Seq(T)
      /\ Len(a \o b) = Len(a) + Len(b)
      /\ \A m \in 1..(Len(a) + Len(b)) :
           (a \o b)[m] = IF m <= Len(a) THEN a[m] ELSE b[m - Len(a)]
  BY ConcatProperties, LenProperties
<1>2. ASSUME NEW m \in 1..Len(a)
      PROVE  (a \o b)[m] = a[m]
  BY <1>1
<1>3. ASSUME NEW k \in 1..Len(b)
      PROVE  (a \o b)[Len(a) + k] = b[k]
  <2> DEFINE m == Len(a) + k
  <2>1. m \in 1..(Len(a) + Len(b)) /\ ~(m <= Len(a)) /\ m - Len(a) = k
    BY <1>1
  <2> QED
    BY <1>1, <2>1, Zenon
<1> QED
  BY <1>1, <1>2, <1>3

(* And of three sequences.                                                 *)
LEMMA ThreePieces ==
  ASSUME NEW T, NEW a \in Seq(T), NEW b \in Seq(T), NEW c \in Seq(T)
  PROVE  /\ a \o b \o c \in Seq(T)
         /\ Len(a \o b \o c) = Len(a) + Len(b) + Len(c)
         /\ \A m \in 1..(Len(a) + Len(b) + Len(c)) :
              (a \o b \o c)[m] = IF m <= Len(a) THEN a[m]
                                 ELSE IF m <= Len(a) + Len(b) THEN b[m - Len(a)]
                                 ELSE c[m - (Len(a) + Len(b))]
<1>1. /\ Len(a) \in Nat /\ Len(b) \in Nat /\ Len(c) \in Nat
      /\ a \o b \in Seq(T)
      /\ Len(a \o b) = Len(a) + Len(b)
      /\ \A m \in 1..(Len(a) + Len(b)) :
           (a \o b)[m] = IF m <= Len(a) THEN a[m] ELSE b[m - Len(a)]
  BY ConcatProperties, LenProperties
<1> DEFINE ab == a \o b
<1> HIDE DEF ab
<1>2. /\ ab \o c \in Seq(T)
      /\ Len(ab \o c) = Len(ab) + Len(c)
      /\ \A m \in 1..(Len(ab) + Len(c)) :
           (ab \o c)[m] = IF m <= Len(ab) THEN ab[m] ELSE c[m - Len(ab)]
  <2>1. ab \in Seq(T)
    BY <1>1 DEF ab
  <2> QED
    BY <2>1, ConcatProperties
<1>3. /\ ab \o c \in Seq(T)
      /\ Len(ab \o c) = Len(a) + Len(b) + Len(c)
      /\ \A m \in 1..(Len(a) + Len(b) + Len(c)) :
           (ab \o c)[m] = IF m <= Len(a) THEN a[m]
                          ELSE IF m <= Len(a) + Len(b) THEN b[m - Len(a)]
                          ELSE c[m - (Len(a) + Len(b))]
  <2>1. Len(ab) = Len(a) + Len(b)
    BY <1>1 DEF ab
  <2>2. \A m \in 1..(Len(a) + Len(b)) :
           ab[m] = IF m <= Len(a) THEN a[m] ELSE b[m - Len(a)]
    BY <1>1 DEF ab
  <2>3. ASSUME NEW m \in 1..(Len(a) + Len(b) + Len(c))
        PROVE  (ab \o c)[m] = IF m <= Len(a) THEN a[m]
                              ELSE IF m <= Len(a) + Len(b) THEN b[m - Len(a)]
                              ELSE c[m - (Len(a) + Len(b))]
    <3>1. (ab \o c)[m] = IF m <= Len(a) + Len(b) THEN ab[m] ELSE c[m - (Len(a) + Len(b))]
      BY <1>2, <2>1
    <3>2. CASE m <= Len(a) + Len(b)
      <4>1. m \in 1..(Len(a) + Len(b))
        BY <1>1, <3>2
      <4>2. ab[m] = IF m <= Len(a) THEN a[m] ELSE b[m - Len(a)]
        BY <2>2, <4>1
      <4> QED
        BY <3>1, <3>2, <4>2, <1>1
    <3>3. CASE ~(m <= Len(a) + Len(b))
      <4>1. ~(m <= Len(a))
        BY <1>1, <3>3
      <4> QED
        BY <3>1, <3>3, <4>1
    <3> QED
      BY <3>2, <3>3
  <2> QED
    BY <1>2, <2>1, <2>3
<1> QED
  BY <1>3 DEF ab

IsJoined(x, T, a, b, c) ==
  /\ x \in Seq(T)
  /\ Len(x) = Len(a) + Len(b) + Len(c)
  /\ \A m \in 1..(Len(a) + Len(b) + Len(c)) :
       x[m] = IF m <= Len(a) THEN a[m]
              ELSE IF m <= Len(a) + Len(b) THEN b[m - Len(a)]
              ELSE c[m - (Len(a) + Len(b))]

LEMMA ThreeJoined ==
  ASSUME NEW T, NEW a \in Seq(T), NEW b \in Seq(T), NEW c \in Seq(T)
  PROVE  IsJoined(a \o b \o c, T, a, b, c)
<1>1. a \o b \o c \in Seq(T)
  BY ThreePieces
<1>2. Len(a \o b \o c) = Len(a) + Len(b) + Len(c)
  BY ThreePieces
<1>3. \A m \in 1..(Len(a) + Len(b) + Len(c)) :
         (a \o b \o c)[m] = IF m <= Len(a) THEN a[m]
                            ELSE IF m <= Len(a) + Len(b) THEN b[m - Len(a)]
                            ELSE c[m - (Len(a) + Len(b))]
  BY ThreePieces
<1> QED
  BY <1>1, <1>2, <1>3, Zenon DEF IsJoined

(* Blocks of one length, laid end to end, are where one expects them.      *)
LEMMA BlockEnds ==
  ASSUME NEW L \in Nat, NEW i \in Nat, NEW j \in Nat, i <= j
  PROVE  L * i \in Nat /\ L * i <= L * j /\ L * (i + 1) = L * i + L
OBVIOUS

BlocksLaid(flat, s, L) ==
  \A i \in 1..Len(s), k \in 1..L : flat[L * (i - 1) + k] = s[i][k]

LEMMA FlattenBlocks ==
  ASSUME NEW T, NEW L \in Nat, NEW s, Len(s) \in Nat, Len(s) # 0,
         \A i \in 1..Len(s) : s[i] \in Seq(T) /\ Len(s[i]) = L
  PROVE  /\ FlattenSeq(s) \in Seq(T)
         /\ Len(FlattenSeq(s)) = L * Len(s)
         /\ BlocksLaid(FlattenSeq(s), s, L)
<1> DEFINE n == Len(s)
<1> PICK f : /\ FlattenSeq(s) = f[n]
             /\ f[1] = s[1]
             /\ \A i \in 2..n : f[i] = f[i - 1] \o s[i]
  BY FlattenSeqSteps
<1> DEFINE Laid(i) == /\ f[i] \in Seq(T)
                      /\ Len(f[i]) = L * i
                      /\ \A j \in 1..i, k \in 1..L : f[i][L * (j - 1) + k] = s[j][k]
           S == {d \in Nat : d < n => Laid(d + 1)}
<1>1. 0 \in S
  <2>1. L * 1 = L /\ L * (1 - 1) = 0 /\ 1 \in 1..n /\ (0 + 1) = 1
    OBVIOUS
  <2>2. \A j \in 1..1, k \in 1..L : L * (j - 1) + k = k /\ j = 1
    BY <2>1
  <2>3. Laid(1)
    BY <2>1, <2>2
  <2> QED
    BY <2>1, <2>3
<1>2. ASSUME NEW d \in Nat, d + 1 < n, Laid(d + 1)
      PROVE  Laid(d + 2)
  <2> DEFINE i == d + 1
  <2>1. i \in Nat /\ i + 1 \in 2..n /\ (i + 1) - 1 = i /\ i + 1 \in 1..n /\ d + 2 = i + 1
    BY <1>2
  <2>2. f[i + 1] = f[i] \o s[i + 1] /\ s[i + 1] \in Seq(T) /\ Len(s[i + 1]) = L
    BY <2>1, Zenon
  <2>3. f[i] \in Seq(T) /\ Len(f[i]) = L * i
    BY <1>2
  <2>4. L * i \in Nat /\ L * (i + 1) = L * i + L
    BY <2>1, BlockEnds
  <2>5. /\ f[i + 1] \in Seq(T)
        /\ Len(f[i + 1]) = L * (i + 1)
        /\ \A m \in 1..(L * i) : f[i + 1][m] = f[i][m]
        /\ \A k \in 1..L : f[i + 1][L * i + k] = s[i + 1][k]
    <3> DEFINE a == f[i]
               b == s[i + 1]
    <3>1. a \in Seq(T) /\ b \in Seq(T) /\ Len(a) = L * i /\ Len(b) = L
          /\ f[i + 1] = a \o b
      BY <2>2, <2>3
    <3> HIDE DEF a, b
    <3>2. a \o b \in Seq(T) /\ Len(a \o b) = Len(a) + Len(b)
      BY <3>1, ConcatAt
    <3>3. \A m \in 1..Len(a) : (a \o b)[m] = a[m]
      BY <3>1, ConcatAt
    <3>4. \A k \in 1..Len(b) : (a \o b)[Len(a) + k] = b[k]
      BY <3>1, ConcatAt
    <3> QED
      BY <2>4, <3>1, <3>2, <3>3, <3>4 DEF a, b
  <2>6. ASSUME NEW j \in 1..(i + 1), NEW k \in 1..L
        PROVE  f[i + 1][L * (j - 1) + k] = s[j][k]
    <3>1. CASE j = i + 1
      <4>1. j - 1 = i
        BY <2>1, <3>1
      <4> QED
        BY <2>5, <3>1, <4>1, Zenon
    <3>2. CASE j # i + 1
      <4>1. j \in 1..i /\ j - 1 \in Nat /\ j \in Nat /\ j <= i /\ (j - 1) + 1 = j
        BY <2>1, <3>2
      <4>2. L * (j - 1) \in Nat /\ L * j = L * (j - 1) + L /\ L * j <= L * i
        <5>1. L * (j - 1) \in Nat /\ L * ((j - 1) + 1) = L * (j - 1) + L
          BY <4>1, BlockEnds
        <5>2. L * j <= L * i
          BY <4>1, <2>1, BlockEnds
        <5> QED
          BY <4>1, <5>1, <5>2
      <4> DEFINE m == L * (j - 1) + k
      <4>3. m \in 1..(L * i)
        BY <2>4, <4>2
      <4>4. f[i + 1][m] = f[i][m]
        BY <2>5, <4>3, Zenon
      <4>5. f[i][m] = s[j][k]
        BY <1>2, <4>1, Zenon
      <4> QED
        BY <4>4, <4>5, Zenon
    <3> QED
      BY <3>1, <3>2
  <2> HIDE DEF i
  <2>7. Laid(i + 1)
    BY <2>5, <2>6, Zenon
  <2> QED
    BY <2>1, <2>7, Zenon
<1>3. S \in SUBSET Nat /\ \A d \in S : d + 1 \in S
  <2> HIDE DEF Laid
  <2>1. \A d \in Nat : d + 1 < n => (d < n /\ (d + 1) + 1 = d + 2)
    OBVIOUS
  <2> QED
    BY <1>2, <2>1
<1> HIDE DEF S
<1>4. n - 1 \in S
  <2>1. n - 1 \in Nat
    OBVIOUS
  <2> QED
    BY <2>1, <1>1, <1>3, SuccessorsReachAll
<1>5. Laid(n)
  <2>1. n - 1 < n /\ (n - 1) + 1 = n
    OBVIOUS
  <2> HIDE DEF Laid
  <2> QED
    BY <2>1, <1>4 DEF S
<1> QED
  BY <1>5 DEF BlocksLaid

-----------------------------------------------------------------------------
(* A stretch of a sequence, and one element more or less. *)

LEMMA Stretch ==
  ASSUME NEW T, NEW s \in Seq(T), NEW m \in Nat, NEW n \in Nat, m <= n, n <= Len(s)
  PROVE  /\ SubSeq(s, m + 1, n) \in Seq(T)
         /\ Len(SubSeq(s, m + 1, n)) = n - m
         /\ \A k \in 1..(n - m) : SubSeq(s, m + 1, n)[k] = s[m + k]
<1>1. SubSeq(s, m + 1, n) \in Seq(T)
  BY SubSeqProperties, ElementOfSeq
<1>2. Len(SubSeq(s, m + 1, n)) = n - m
  BY SubSeqProperties
<1>3. \A k \in 1..(n - m) : SubSeq(s, m + 1, n)[k] = s[m + k]
  BY SubSeqProperties
<1> QED
  BY <1>1, <1>2, <1>3

LEMMA Removed ==
  ASSUME NEW T, NEW s \in Seq(T), NEW c \in 1..Len(s)
  PROVE  /\ RemoveAt(s, c) \in Seq(T)
         /\ Len(RemoveAt(s, c)) = Len(s) - 1
         /\ \A k \in 1..(Len(s) - 1) :
              RemoveAt(s, c)[k] = IF k < c THEN s[k] ELSE s[k + 1]
<1> DEFINE a == SubSeq(s, 0 + 1, c - 1)
           b == SubSeq(s, c + 1, Len(s))
<1>1. c \in Nat /\ c - 1 \in Nat /\ c - 1 <= Len(s) /\ c <= Len(s) /\ Len(s) \in Nat
  OBVIOUS
<1>2. a \in Seq(T) /\ Len(a) = c - 1
  BY <1>1, Stretch
<1>3. \A k \in 1..(c - 1) : a[k] = s[k]
  BY <1>1, Stretch
<1>4. b \in Seq(T) /\ Len(b) = Len(s) - c
  BY <1>1, Stretch
<1>5. \A k \in 1..(Len(s) - c) : b[k] = s[c + k]
  BY <1>1, Stretch
<1>6. RemoveAt(s, c) = a \o b
  <2>1. 0 + 1 = 1
    OBVIOUS
  <2> QED
    BY <2>1 DEF RemoveAt
<1> HIDE DEF a, b
<1>7. a \o b \in Seq(T) /\ Len(a \o b) = Len(a) + Len(b)
  BY <1>2, <1>4, ConcatAt
<1>8. \A m \in 1..Len(a) : (a \o b)[m] = a[m]
  BY <1>2, <1>4, ConcatAt
<1>9. \A k \in 1..Len(b) : (a \o b)[Len(a) + k] = b[k]
  BY <1>2, <1>4, ConcatAt
<1>10. ASSUME NEW k \in 1..(Len(s) - 1)
       PROVE  (a \o b)[k] = IF k < c THEN s[k] ELSE s[k + 1]
  <2>1. CASE k < c
    <3>1. k \in 1..(c - 1) /\ k \in 1..Len(a)
      BY <1>1, <1>2, <2>1
    <3> QED
      BY <1>3, <1>8, <2>1, <3>1
  <2>2. CASE ~(k < c)
    <3> DEFINE j == k - (c - 1)
    <3>1. j \in 1..Len(b) /\ j \in 1..(Len(s) - c) /\ Len(a) + j = k /\ c + j = k + 1
      BY <1>1, <1>2, <1>4, <2>2
    <3>2. (a \o b)[k] = b[j] /\ b[j] = s[k + 1]
      BY <1>5, <1>9, <3>1, Zenon
    <3> QED
      BY <2>2, <3>2
  <2> QED
    BY <2>1, <2>2
<1> QED
  BY <1>1, <1>2, <1>4, <1>6, <1>7, <1>10

LEMMA Inserted ==
  ASSUME NEW T, NEW s \in Seq(T), NEW e \in T, NEW i \in 1..(Len(s) + 1)
  PROVE  /\ InsertAt(s, i, e) \in Seq(T)
         /\ Len(InsertAt(s, i, e)) = Len(s) + 1
         /\ \A k \in 1..(Len(s) + 1) :
              InsertAt(s, i, e)[k] = IF k < i THEN s[k]
                                     ELSE IF k = i THEN e ELSE s[k - 1]
<1> DEFINE a == SubSeq(s, 0 + 1, i - 1)
           b == <<e>>
           c == SubSeq(s, (i - 1) + 1, Len(s))
           abc == a \o b \o c
<1>1. i \in Nat /\ i - 1 \in Nat /\ i - 1 <= Len(s) /\ Len(s) \in Nat /\ (i - 1) + 1 = i
  OBVIOUS
<1>2. a \in Seq(T) /\ Len(a) = i - 1
  BY <1>1, Stretch
<1>3. \A k \in 1..(i - 1) : a[k] = s[k]
  BY <1>1, Stretch
<1>4. c \in Seq(T) /\ Len(c) = Len(s) - (i - 1)
  BY <1>1, Stretch
<1>5. \A k \in 1..(Len(s) - (i - 1)) : c[k] = s[(i - 1) + k]
  BY <1>1, Stretch
<1>6. b \in Seq(T) /\ Len(b) = 1 /\ b[1] = e
  OBVIOUS
<1>7. InsertAt(s, i, e) = abc
  <2>1. 0 + 1 = 1
    OBVIOUS
  <2> QED
    BY <1>1, <2>1 DEF InsertAt
<1> HIDE DEF a, b, c
<1>8. IsJoined(abc, T, a, b, c)
  BY <1>2, <1>4, <1>6, ThreeJoined
<1> HIDE DEF abc
<1>9. abc \in Seq(T) /\ Len(abc) = Len(a) + Len(b) + Len(c)
  BY <1>8, Zenon DEF IsJoined
<1>10. \A m \in 1..(Len(a) + Len(b) + Len(c)) :
         abc[m] = IF m <= Len(a) THEN a[m]
                  ELSE IF m <= Len(a) + Len(b) THEN b[m - Len(a)]
                  ELSE c[m - (Len(a) + Len(b))]
  BY <1>8, Zenon DEF IsJoined
<1>11. ASSUME NEW k \in 1..(Len(s) + 1)
       PROVE  abc[k] = IF k < i THEN s[k] ELSE IF k = i THEN e ELSE s[k - 1]
  <2>1. k \in 1..(Len(a) + Len(b) + Len(c))
    BY <1>1, <1>2, <1>4, <1>6
  <2>2. CASE k < i
    <3>1. k \in 1..(i - 1) /\ k <= Len(a)
      BY <1>1, <1>2, <2>2
    <3> QED
      BY <1>3, <1>10, <2>1, <2>2, <3>1
  <2>3. CASE k = i
    <3>1. ~(k <= Len(a)) /\ k <= Len(a) + Len(b) /\ k - Len(a) = 1 /\ ~(k < i)
      BY <1>1, <1>2, <1>6, <2>3
    <3> QED
      BY <1>6, <1>10, <2>1, <2>3, <3>1
  <2>4. CASE k > i
    <3> DEFINE j == k - i
    <3>1. /\ ~(k <= Len(a)) /\ ~(k <= Len(a) + Len(b)) /\ k - (Len(a) + Len(b)) = j
          /\ j \in 1..(Len(s) - (i - 1)) /\ (i - 1) + j = k - 1 /\ ~(k < i) /\ k # i
      BY <1>1, <1>2, <1>6, <2>4
    <3>2. abc[k] = c[j]
      BY <1>10, <2>1, <3>1, Zenon
    <3>3. c[j] = s[k - 1]
      BY <1>5, <3>1, Zenon
    <3> QED
      BY <3>1, <3>2, <3>3, Zenon
  <2> QED
    BY <1>1, <2>2, <2>3, <2>4
<1>12. Len(abc) = Len(s) + 1
  BY <1>1, <1>2, <1>4, <1>6, <1>9
<1> QED
  BY <1>7, <1>9, <1>11, <1>12, Zenon

-----------------------------------------------------------------------------
(* Folding over the subsets of a finite set, one element at a time. *)

Chooses(c, D) == \A s \in SUBSET D : s # {} => c[s] \in s

Reaches(c, D, Good) ==
  /\ {} \in Good
  /\ \A s \in SUBSET D : s # {} /\ s \ {c[s]} \in Good => s \in Good

IsFold(f, D, base, h, c) ==
  f = [s \in SUBSET D |-> IF s = {} THEN base ELSE h[<<c[s], f[s \ {c[s]}]>>]]

(* What holds of {}, and of a set once it holds of that set less one       *)
(* element, holds of all of them.                                          *)
LEMMA SubsetsReached ==
  ASSUME NEW D, IsFiniteSet(D), NEW c, Chooses(c, D), NEW Good, Reaches(c, D, Good)
  PROVE  SUBSET D \subseteq Good
<1> USE DEF Chooses, Reaches
<1> DEFINE Upto(n) == {s \in SUBSET D : Cardinality(s) <= n}
           R == {n \in Nat : Upto(n) \subseteq Good}
<1>1. \A s \in SUBSET D : IsFiniteSet(s) /\ Cardinality(s) \in Nat
  BY FS_Subset, FS_CardinalityType
<1>2. 0 \in R
  <2>1. ASSUME NEW s \in SUBSET D, Cardinality(s) <= 0
        PROVE  s \in Good
    <3>1. Cardinality(s) = 0
      BY <1>1, <2>1
    <3>2. s = {}
      BY <1>1, <3>1, FS_EmptySet
    <3> QED
      BY <3>2
  <2> QED
    BY <2>1
<1>3. ASSUME NEW n \in R
      PROVE  n + 1 \in R
  <2>1. ASSUME NEW s \in SUBSET D, Cardinality(s) <= n + 1, s # {}
        PROVE  s \in Good
    <3> DEFINE r == s \ {c[s]}
    <3>1. c[s] \in s
      BY <2>1
    <3>2. Cardinality(r) = Cardinality(s) - 1
      BY <1>1, <3>1, FS_RemoveElement
    <3>3. r \in Upto(n)
      BY <1>1, <2>1, <3>2
    <3> QED
      BY <2>1, <3>3
  <2>2. Upto(n + 1) \subseteq Good
    BY <2>1
  <2> HIDE DEF Upto
  <2> QED
    BY <2>2
<1>4. Cardinality(D) \in R
  <2>1. R \in SUBSET Nat
    OBVIOUS
  <2>2. Cardinality(D) \in Nat
    BY FS_CardinalityType
  <2> HIDE DEF R
  <2> QED
    BY <1>2, <1>3, <2>1, <2>2, SuccessorsReachAll
<1>5. ASSUME NEW s \in SUBSET D
      PROVE  Cardinality(s) <= Cardinality(D)
  BY FS_Subset
<1> QED
  BY <1>4, <1>5

(* The function a fold recurses with exists, and yields what it should.    *)
LEMMA FoldExists ==
  ASSUME NEW D, IsFiniteSet(D), NEW V, NEW base \in V, NEW h \in [D \X V -> V],
         NEW c, Chooses(c, D)
  PROVE  \E f \in [SUBSET D -> V] : IsFold(f, D, base, h, c)
<1> USE DEF Chooses, IsFold
<1> DEFINE Upto(n) == {s \in SUBSET D : Cardinality(s) <= n}
           Folds(n, f) ==
             /\ f \in [Upto(n) -> V]
             /\ \A s \in Upto(n) :
                  f[s] = IF s = {} THEN base ELSE h[<<c[s], f[s \ {c[s]}]>>]
           R == {n \in Nat : \E f : Folds(n, f)}
<1>1. \A s \in SUBSET D : IsFiniteSet(s) /\ Cardinality(s) \in Nat
  BY FS_Subset, FS_CardinalityType
<1>2. 0 \in R
  <2>1. ASSUME NEW s \in Upto(0)
        PROVE  s = {}
    <3>1. Cardinality(s) = 0
      BY <1>1
    <3> QED
      BY <1>1, <3>1, FS_EmptySet
  <2>2. Folds(0, [s \in Upto(0) |-> base])
    BY <2>1
  <2> QED
    BY <2>2
<1>3. ASSUME NEW n \in Nat, NEW s \in Upto(n + 1), s # {}
      PROVE  s \ {c[s]} \in Upto(n) /\ c[s] \in D
  <2>1. c[s] \in s
    BY <1>3
  <2>2. Cardinality(s \ {c[s]}) = Cardinality(s) - 1
    BY <1>1, <2>1, FS_RemoveElement
  <2> QED
    BY <1>1, <2>1, <2>2
<1>4. ASSUME NEW n \in Nat, NEW f, Folds(n, f)
      PROVE  \E g : Folds(n + 1, g)
  <2> DEFINE g == [s \in Upto(n + 1) |->
                     IF s = {} THEN base ELSE h[<<c[s], f[s \ {c[s]}]>>]]
  <2>1. ASSUME NEW s \in Upto(n)
        PROVE  s \in Upto(n + 1) /\ g[s] = f[s]
    <3>1. s \in Upto(n + 1)
      BY <1>1
    <3> HIDE DEF Upto
    <3> QED
      BY <1>4, <3>1
  <2> HIDE DEF Upto
  <2>2. ASSUME NEW s \in Upto(n + 1)
        PROVE  /\ g[s] \in V
               /\ g[s] = IF s = {} THEN base ELSE h[<<c[s], g[s \ {c[s]}]>>]
    <3>1. CASE s = {}
      BY <3>1
    <3>2. CASE s # {}
      <4>1. s \ {c[s]} \in Upto(n) /\ c[s] \in D
        BY <1>3, <3>2
      <4>2. f[s \ {c[s]}] \in V /\ g[s \ {c[s]}] = f[s \ {c[s]}]
        BY <1>4, <2>1, <4>1
      <4>3. g[s] = h[<<c[s], f[s \ {c[s]}]>>]
        BY <3>2
      <4> QED
        BY <3>2, <4>1, <4>2, <4>3
    <3> QED
      BY <3>1, <3>2
  <2>3. g \in [Upto(n + 1) -> V]
    BY <2>2
  <2> HIDE DEF g
  <2>4. Folds(n + 1, g)
    BY <2>2, <2>3
  <2> QED
    BY <2>4
<1>5. PICK f : Folds(Cardinality(D), f)
  <2>1. R \in SUBSET Nat /\ \A n \in R : n + 1 \in R
    <3> HIDE DEF Folds
    <3> QED
      BY <1>4
  <2>2. Cardinality(D) \in Nat
    BY FS_CardinalityType
  <2>3. Cardinality(D) \in R
    <3> HIDE DEF R
    <3> QED
      BY <1>2, <2>1, <2>2, SuccessorsReachAll
  <2> QED
    BY <2>3
<1>6. Upto(Cardinality(D)) = SUBSET D
  <2>1. ASSUME NEW s \in SUBSET D
        PROVE  Cardinality(s) <= Cardinality(D)
    BY FS_Subset
  <2> QED
    BY <2>1
<1> HIDE DEF Upto
<1>7. f \in [SUBSET D -> V]
  BY <1>5, <1>6
<1>8. f = [s \in SUBSET D |-> IF s = {} THEN base ELSE h[<<c[s], f[s \ {c[s]}]>>]]
  <2>1. f = [s \in SUBSET D |-> f[s]]
    BY <1>7
  <2>2. \A s \in SUBSET D : f[s] = IF s = {} THEN base ELSE h[<<c[s], f[s \ {c[s]}]>>]
    BY <1>5, <1>6
  <2> QED
    BY <2>1, <2>2
<1> QED
  BY <1>7, <1>8

(* The least and the greatest of some of the first numbers.                *)
LEMMA MinAmong ==
  ASSUME NEW n \in Nat, NEW S \in SUBSET (1..n), S # {}
  PROVE  Min(S) \in S /\ \A m \in S : Min(S) <= m
<1>1. PICK x \in S : TRUE
  OBVIOUS
<1>2. S \in SUBSET Nat
  OBVIOUS
<1>3. \E k \in S : \A m \in S : k <= m
  BY <1>1, <1>2, LeastExists
<1> QED
  BY <1>3 DEF Min

LEMMA MaxAmong ==
  ASSUME NEW n \in Nat, NEW S \in SUBSET (1..n), S # {}
  PROVE  Max(S) \in S /\ \A m \in S : m <= Max(S)
<1> DEFINE X == {k \in Nat : n - k \in S}
<1>1. PICK x \in S : TRUE
  OBVIOUS
<1>2. n - x \in X
  <2>1. n - x \in Nat /\ n - (n - x) = x
    OBVIOUS
  <2> QED
    BY <2>1
<1>3. PICK k \in X : \A m \in X : k <= m
  BY <1>2, LeastExists
<1>4. ASSUME NEW m \in S
      PROVE  m <= n - k
  <2>1. n - m \in Nat /\ n - (n - m) = m
    OBVIOUS
  <2>2. n - m \in X
    BY <2>1
  <2>3. k <= n - m /\ k \in Nat
    BY <1>3, <2>2
  <2> QED
    BY <2>3
<1>5. \E y \in S : \A m \in S : m <= y
  BY <1>4
<1> QED
  BY <1>5 DEF Max
=============================================================================
